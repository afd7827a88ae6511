----------------------------- MODULE AliasBindings -----------------------------
(***************************************************************************)
(* Table aliases, the names they qualify and the columns asked of them     *)
(* (src/alias_bindings.go), and the aliases of the results of a SELECT     *)
(* (src/select_alias_bindings.go).                                         *)
(***************************************************************************)
EXTENDS CTEBindings

(***************************************************************************)
(* Table aliases                                                           *)
(***************************************************************************)
\* The aliases of a FROM in the order of the text, each with its table.  The
\* alias of WITH OFFSET is a table of its own, of which nothing is known.
TableAliases(query) ==
  LET alias(x, table) == IF x = NoToken THEN << >> ELSE << [at |-> x, from |-> table] >>
  IN FlattenSeq([i \in DOMAIN query.from |->
       alias(query.from[i].as, query.from[i]) \o alias(query.from[i].offset, [kind |-> "offset"])])

\* What an alias stands for: a CTE, a table or view by name, a query of known
\* columns, or something else.
SourceOf(t, ctes, from) ==
  LET none == [cte |-> 0, table |-> << >>, shape |-> NoColumns]
      cte == BindingForReference(ctes, from.path[1])
  IN CASE from.kind = "name" /\ IsSimplePath(from.path) /\ cte # 0 -> [none EXCEPT !.cte = cte]
       [] from.kind = "name" /\ ~(IsSimplePath(from.path) /\ cte # 0) ->
            [none EXCEPT !.table = Keys(t, from.path)]
       [] from.kind = "query" -> [none EXCEPT !.shape = ExtractQueryColumnFacts(t, from.query)]
       [] OTHER -> none

SameKey(t, local, i) == {j \in DOMAIN local : Key(t, local[j].at) = Key(t, local[i].at)}

\* What the aliases of one FROM bind: a name declared twice is bound to nothing.
LocalScope(t, local) ==
  LET bound(key) == {i \in DOMAIN local : Key(t, local[i].at) = key}
  IN [key \in {Key(t, local[i].at) : i \in DOMAIN local} |->
        IF Cardinality(bound(key)) = 1 THEN local[Min(bound(key))].at ELSE NoToken]

\* key -> alias, for every SELECT: its own over those of the SELECT around it.
AliasScopes(t) ==
  LET enclosing == Enclosing(t)
      scope[q \in DOMAIN Queries(t)] ==
        LET local == LocalScope(t, TableAliases(Queries(t)[q]))
            outer == IF enclosing[q] = 0 THEN << >> ELSE scope[enclosing[q]]
        IN [key \in DOMAIN local \cup DOMAIN outer |->
              IF key \in DOMAIN local THEN local[key] ELSE outer[key]]
  IN scope

\* The paths of expressions that a SELECT is searched for, the ORDER BY of the
\* queries inside it too.  A path is qualified if it has two identifiers; of
\* alias.* only the alias is asked.
WalkedPaths(t, q) ==
  LET Q == Queries(t)
      enclosing == Enclosing(t)
      inside == {r \in DOMAIN Q : enclosing[r] = q}
  IN {[path |-> Q[q].items[i].expr, star |-> Q[q].items[i].star] : i \in DOMAIN Q[q].items}
       \cup {[path |-> e, star |-> FALSE] :
               e \in Q[q].exprs \cup Q[q].group \cup UNION {Q[r].order : r \in inside}}

QualifiedPaths(t, q) ==
  {w \in WalkedPaths(t, q) : Len(w.path) >= 2 \/ (w.star /\ Len(w.path) = 1)}

\* The qualified paths of a text, each with the alias that qualifies it.
AliasUses(t, scopes) ==
  UNION {{[at |-> w.path[1], alias |-> Lookup(scopes[q], Key(t, w.path[1])),
           member |-> IF Len(w.path) >= 2 THEN w.path[2] ELSE NoToken]
          : w \in QualifiedPaths(t, q)} : q \in DOMAIN Queries(t)}

AliasIndex(t, ctes, scopes, uses) ==
  LET Q == Queries(t)
      local == [q \in DOMAIN Q |-> TableAliases(Q[q])]
      binding(q, i) ==
        LET same == SameKey(t, local[q], i)
            alias == local[q][i].at
        IN [at |-> alias, refs |-> {u.at : u \in {v \in uses : v.alias = alias}},
            source |-> SourceOf(t, ctes, local[q][i].from),
            explicit |-> TRUE, ambiguous |-> same # {i}]
      order == InOrder(DOMAIN Q, [q \in DOMAIN Q |-> Q[q].sel[1]])
  IN [bindings |-> FlattenSeq([k \in DOMAIN order |->
                     [i \in DOMAIN local[order[k]] |-> binding(order[k], i)]]),
      members |-> {[at |-> u.member, alias |-> u.alias] :
                     u \in {v \in uses : v.alias # NoToken /\ v.member # NoToken}},
      scopes |-> scopes]

ExtractAliasIndex(t, ctes) ==
  LET index(scopes) == AliasIndex(t, ctes, scopes, AliasUses(t, scopes))
  IN index(AliasScopes(t))

BindingOf(index, alias) == index[SelectInSeq(index, LAMBDA b : b.at = alias)]

\* The member at a token: a set of one or none.
MemberAtPosition(aliases, x) == {m \in aliases.members : m.at = x}

\* The alias a qualifier stands for at a place, as completion asks: the one
\* whose site is there, else the one of the innermost SELECT around the place.
BindingAtPosition(t, aliases, key, x) ==
  LET site == SiteAtPosition(aliases.bindings, x)
      Q == Queries(t)
      around == {q \in DOMAIN Q : Q[q].sel[1] <= x /\ x <= Q[q].sel[2]}
      best == CHOOSE q \in around : \A r \in around : Q[r].sel[1] <= Q[q].sel[1]
  IN IF /\ site # 0 /\ ~aliases.bindings[site].ambiguous
        /\ Key(t, aliases.bindings[site].at) = key
     THEN aliases.bindings[site].at
     ELSE IF around = {} THEN NoToken ELSE Lookup(aliases.scopes[best], key)

\* A mutant: all scopes that see the alias must have the name.
TakenEverywhere(aliases, b, key) ==
  \A q \in {r \in DOMAIN aliases.scopes :
              \E k \in DOMAIN aliases.scopes[r] : aliases.scopes[r][k] = b.at} :
    Lookup(aliases.scopes[q], key) \notin {NoToken, b.at}

\* A new name for an alias is taken if a scope that sees the alias has it.
AliasRenameConflicts(aliases, b, key) ==
  \E q \in DOMAIN aliases.scopes :
    LET scope == aliases.scopes[q]
    IN /\ \E k \in DOMAIN scope : scope[k] = b.at
       /\ Lookup(scope, key) \notin {NoToken, b.at}

(***************************************************************************)
(* Aliases of results                                                      *)
(***************************************************************************)
ExtractSelectAliasIndex(t, aliases) ==
  LET Q == Queries(t)
      named(q) ==
        LET items == Q[q].items
        IN FlattenSeq([i \in DOMAIN items |->
             IF SelectItemAlias(items[i]) = NoToken THEN << >> ELSE << items[i] >>])
      \* The paths of GROUP BY, HAVING and ORDER BY: one that a table alias
      \* qualifies is ambiguous, else its first identifier is what counts.
      asked(q) == Q[q].group \cup Q[q].order
      qualified(path) == SiteAtPosition(aliases.bindings, path[1]) # 0
      heads(q) == {path[1] : path \in {e \in asked(q) : ~qualified(e)}}
      declared(q, key) ==
        {SelectItemAlias(named(q)[i]) : i \in {j \in DOMAIN named(q) :
           Key(t, SelectItemAlias(named(q)[j])) = key}}
      binding(q, item) ==
        LET alias == SelectItemAlias(item)
            unique == declared(q, Key(t, alias)) = {alias}
        IN [at |-> alias, query |-> q, explicit |-> item.as # NoToken, ambiguous |-> ~unique,
            refs |-> {x \in heads(q) : unique /\ Key(t, x) = Key(t, alias)}]
      order == InOrder(DOMAIN Q, [q \in DOMAIN Q |-> Q[q].sel[1]])
  IN [bindings |-> FlattenSeq([k \in DOMAIN order |->
                     [i \in DOMAIN named(order[k]) |-> binding(order[k], named(order[k])[i])]]),
      ambiguous |-> UNION {{x \in heads(q) : Cardinality(declared(q, Key(t, x))) > 1}
                             \cup UNION {ToSet(e) : e \in {f \in asked(q) : qualified(f)}}
                           : q \in DOMAIN Q}]

\* A new name for a result is taken if its SELECT has another result of that
\* name, or several.
SelectAliasRenameConflicts(t, index, b, key) ==
  \E i \in DOMAIN index :
    /\ index[i].query = b.query /\ Key(t, index[i].at) = key
    /\ index[i].ambiguous \/ index[i].at # b.at
================================================================================
