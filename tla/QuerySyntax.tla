------------------------------ MODULE QuerySyntax ------------------------------
(***************************************************************************)
(* The syntax trees of memefish, as far as the binders of src/ look at     *)
(* them, and the columns of a SELECT that src/ddl_facts.go reads off one.  *)
(*                                                                         *)
(* A text is its tree (queries, relation names, quoted tokens) with a name *)
(* for each of its identifiers.  An identifier is a token, a number that   *)
(* grows along the text; it stands for its range, and for every position   *)
(* within it.                                                              *)
(***************************************************************************)
EXTENDS Naturals, Sequences, FiniteSets, SequencesExt

CONSTANTS
  Names, (* The identifiers a text is written with.                        *)
  Fold   (* name -> the name in upper case: what names are compared by.    *)

\* Upper case is the upper case of itself.
ASSUME FoldAssumption ==
  /\ Fold \in [Names -> Names]
  /\ \A n \in Names : Fold[Fold[n]] = Fold[n]

\* An identifier that is not there: no alias, no source, no declaration.
NoToken == 0

Queries(t) == t.queries
Relations(t) == t.relations
Tokens(t) == DOMAIN t.names
Quoted(t) == t.quoted

Key(t, x) == Fold[t.names[x]]
Keys(t, path) == [i \in DOMAIN path |-> Key(t, path[i])]

IsSimplePath(path) == Len(path) = 1

\* What a scope, a function from keys, has for a key.
Lookup(scope, key) == IF key \in DOMAIN scope THEN scope[key] ELSE NoToken

\* The elements of a finite set in the order of their places.
InOrder(S, place) ==
  [i \in 1..Cardinality(S) |->
     CHOOSE x \in S : Cardinality({y \in S : place[y] < place[x]}) = i - 1]

\* The texts that replace the names of some tokens.
Rewrite(t, edits, name) ==
  [t EXCEPT !.names = [x \in Tokens(t) |-> IF x \in edits THEN name ELSE t.names[x]]]

\* The query whose SELECT node encloses that of query q.  A query in the FROM or
\* in an expression of a SELECT is inside it; one in a WITH or an ORDER BY is
\* beside it, inside the query that has both.
Enclosing(t) ==
  LET Q == Queries(t)
      enclosing[q \in DOMAIN Q] ==
        IF Q[q].role = "statement" THEN 0
        ELSE IF Q[q].role \in {"from", "expr"} THEN Q[q].up ELSE enclosing[Q[q].up]
  IN enclosing

\* The identifier that names a result of a SELECT: its alias, or the last
\* identifier of a path.
SelectItemAlias(item) ==
  CASE item.as # NoToken -> item.as
    [] item.as = NoToken /\ ~item.star /\ item.expr # << >> -> Last(item.expr)
    [] OTHER -> NoToken

QueryColumnSource(item) ==
  IF item.star \/ item.expr = << >> THEN NoToken ELSE Last(item.expr)

\* The columns of a query that is a SELECT and nothing else, unless two have the
\* same name or one has none: then nothing is known of them.
ExtractQueryColumnFacts(t, q) ==
  LET query == Queries(t)[q]
      items == query.items
      named(i) == SelectItemAlias(items[i])
      known ==
        /\ query.ctes = << >> /\ query.order = {}
        /\ \A i \in DOMAIN items : named(i) # NoToken
        /\ \A i, j \in DOMAIN items : Key(t, named(i)) = Key(t, named(j)) => i = j
  IN [shapeKnown |-> known,
      columns |-> IF known
                  THEN [i \in DOMAIN items |->
                          [at |-> named(i), explicit |-> items[i].as # NoToken,
                           source |-> QueryColumnSource(items[i])]]
                  ELSE << >>]

NoColumns == [shapeKnown |-> FALSE, columns |-> << >>]

(***************************************************************************)
(* What every tree of memefish is like, with queries Q, relation names R   *)
(* and tokens X.                                                           *)
(***************************************************************************)
\* Nodes have what the definitions above and those of other modules ask of them.
NodesOK(Q, R, X) ==
  /\ IsFiniteSet(X) /\ X \subseteq Nat \ {NoToken}
  /\ Q \in Seq({Q[q] : q \in DOMAIN Q})
  /\ \A q \in DOMAIN Q :
       /\ Q[q].ctes \in Seq([name : X, query : DOMAIN Q, end : Nat])
       /\ Q[q].items \in Seq([expr : Seq(X), as : X \cup {NoToken}, star : BOOLEAN])
       /\ Q[q].from \in Seq({Q[q].from[i] : i \in DOMAIN Q[q].from})
       /\ \A i \in DOMAIN Q[q].from :
            LET f == Q[q].from[i]
            IN /\ f.kind \in {"name", "query", "unnest"}
               /\ {f.as, f.offset} \subseteq X \cup {NoToken}
               /\ f.kind = "name" => f.path \in Seq(X) \ {<< >>}
               /\ f.kind = "query" => f.query \in DOMAIN Q
       /\ Q[q].exprs \cup Q[q].group \cup Q[q].order \subseteq Seq(X) \ {<< >>}
       /\ Q[q].sel \in Nat \X Nat
  /\ R \in Seq({R[r] : r \in DOMAIN R})
  /\ \A r \in DOMAIN R :
       /\ R[r].path \in Seq(X) \ {<< >>} /\ R[r].cols \in Seq([at : X, type : X])
       /\ R[r].kind = "create_view" => R[r].query \in DOMAIN Q

\* From every query the way up ends at a statement; the body of a CTE is one of
\* those of the query it belongs to.
QueriesNest(Q) ==
  /\ \A q \in DOMAIN Q :
       /\ Q[q].role \in {"statement", "cte", "from", "expr", "order"}
       /\ Q[q].role # "statement" => Q[q].up \in DOMAIN Q
       /\ Q[q].role = "cte" => Q[q].at \in DOMAIN Q[Q[q].up].ctes
  /\ \A S \in SUBSET DOMAIN Q :
       S # {} => \E q \in S : Q[q].role = "statement" \/ Q[q].up \notin S

\* The body of a CTE is its own, and so is a query in a FROM.
BodiesApart(Q) ==
  \A q \in DOMAIN Q :
    LET derived == {i \in DOMAIN Q[q].from : Q[q].from[i].kind = "query"}
        body(i) == Q[q].ctes[i].query
        query(i) == Q[q].from[i].query
    IN /\ \A i \in DOMAIN Q[q].ctes :
            Q[body(i)].role = "cte" /\ Q[body(i)].up = q /\ Q[body(i)].at = i
       /\ \A i \in derived : Q[query(i)].role = "from" /\ Q[query(i)].up = q
       /\ \A i, j \in derived : query(i) = query(j) => i = j

\* CTEs are one inside another or one after another; no two SELECTs begin at one
\* place.
RangesNest(Q) ==
  LET ctes == UNION {ToSet(Q[q].ctes) : q \in DOMAIN Q}
  IN /\ \A a \in ctes : a.name < a.end
     /\ \A a, b \in ctes : a.name < b.name => b.end < a.end \/ a.end < b.name
     /\ \A q, r \in DOMAIN Q : Q[q].sel[1] = Q[r].sel[1] => q = r

\* The identifiers that are written in a tree, each with where it is written:
\* along a path, in a query, in a statement that declares or names a relation.
Along(tag, place, path) == {<< tag, << place, k >>, path[k] >> : k \in DOMAIN path}

WrittenInQuery(q, query) ==
  {<< "cte", << q, i >>, query.ctes[i].name >> : i \in DOMAIN query.ctes}
    \cup {<< "as", << q, i >>, query.items[i].as >> : i \in DOMAIN query.items}
    \cup {<< "alias", << q, i >>, query.from[i].as >> : i \in DOMAIN query.from}
    \cup {<< "offset", << q, i >>, query.from[i].offset >> : i \in DOMAIN query.from}
    \cup UNION ({Along("item", << q, i >>, query.items[i].expr) : i \in DOMAIN query.items}
                \cup {Along("from", << q, i >>, query.from[i].path) :
                        i \in {j \in DOMAIN query.from : query.from[j].kind = "name"}}
                \cup {Along("expr", << q, e >>, e) : e \in query.exprs}
                \cup {Along("group", << q, e >>, e) : e \in query.group}
                \cup {Along("order", << q, e >>, e) : e \in query.order})

WrittenInRelation(r, relation) ==
  Along("relation", r, relation.path)
    \cup {<< "column", << r, i >>, relation.cols[i].at >> : i \in DOMAIN relation.cols}
    \cup {<< "type", << r, i >>, relation.cols[i].type >> : i \in DOMAIN relation.cols}

Written(Q, R) ==
  UNION ({WrittenInQuery(q, Q[q]) : q \in DOMAIN Q}
           \cup {WrittenInRelation(r, R[r]) :
                   r \in {s \in DOMAIN R : R[s].kind \notin {"identity", "bad"}}})

\* An identifier is written in one place.
WrittenOnce(Q, R) ==
  \A a, b \in Written(Q, R) : a[3] = b[3] /\ a[3] # NoToken => a = b

WellFormed(Q, R, X) ==
  /\ NodesOK(Q, R, X) /\ QueriesNest(Q) /\ BodiesApart(Q) /\ RangesNest(Q)
  /\ WrittenOnce(Q, R)

(***************************************************************************)
(* An index is a sequence of bindings in the order they are made; a        *)
(* binding has the token of its declaration and those of its references.   *)
(***************************************************************************)
Sites(binding) == {binding.at} \cup binding.refs

\* The first binding with a site at the token, or 0.
SiteAtPosition(index, x) == SelectInSeq(index, LAMBDA b : x \in Sites(b))
================================================================================
