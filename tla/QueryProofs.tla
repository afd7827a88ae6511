------------------------------ MODULE QueryProofs ------------------------------
(***************************************************************************)
(* Proofs about QueryFeatures: in every document of a session, the indexes *)
(* are made of tokens that are what the index says, and no token is a site *)
(* of two CTEs, aliases or results; a lens counts what References lists,   *)
(* and the outline lists a CTE under the innermost one around it.  A       *)
(* rename edits what References lists, wherever it starts; References      *)
(* comes back from where Definition goes.                                  *)
(***************************************************************************)
EXTENDS QueryFeatures, NumberLemmas

------------------------------------------------------------------------------
(***************************************************************************)
(* Texts                                                                   *)
(***************************************************************************)
IsText(t) ==
  /\ t = [queries |-> t.queries, relations |-> t.relations, quoted |-> t.quoted,
          names |-> t.names]
  /\ t.names \in [DOMAIN t.names -> Names]
  /\ WellFormed(t.queries, t.relations, DOMAIN t.names)

(* The texts a session starts with.                                        *)
LEMMA WorkspaceTexts ==
  ASSUME NEW w \in Workspaces, NEW p \in Paths
  PROVE  IsText(w[p])
  <1> DEFINE texts == UNION {{v[f] : f \in Paths} : v \in Workspaces}
             trees == {<< t.queries, t.relations, DOMAIN t.names >> : t \in texts}
  <1>1. w[p] \in texts
    OBVIOUS
  <1>2. /\ \A t \in texts :
             /\ t = [queries |-> t.queries, relations |-> t.relations, quoted |-> t.quoted,
                     names |-> t.names]
             /\ t.names \in [DOMAIN t.names -> Names]
        /\ \A tree \in trees : WellFormed(tree[1], tree[2], tree[3])
    BY WorkspaceAssumption
  <1>. HIDE DEF texts
  <1>3. << w[p].queries, w[p].relations, DOMAIN w[p].names >> \in trees
    BY <1>1
  <1>. HIDE DEF trees
  <1>4. WellFormed(w[p].queries, w[p].relations, DOMAIN w[p].names)
    BY <1>2, <1>3
  <1>5. QED
    BY <1>1, <1>2, <1>4 DEF IsText

(* A text with other names is a text of the same tree.                     *)
LEMMA RewriteText ==
  ASSUME NEW t, IsText(t), NEW edits, NEW name \in Names
  PROVE  /\ IsText(Rewrite(t, edits, name))
         /\ Queries(Rewrite(t, edits, name)) = Queries(t)
         /\ Relations(Rewrite(t, edits, name)) = Relations(t)
         /\ Tokens(Rewrite(t, edits, name)) = Tokens(t)
  <1> DEFINE names == [x \in DOMAIN t.names |-> IF x \in edits THEN name ELSE t.names[x]]
  <1>1. Rewrite(t, edits, name) = [queries |-> t.queries, relations |-> t.relations,
                                   quoted |-> t.quoted, names |-> names]
    BY DEF Rewrite, Tokens, IsText
  <1>2. names \in [DOMAIN t.names -> Names] /\ DOMAIN names = DOMAIN t.names
    BY DEF IsText
  <1>. HIDE DEF names
  <1>3. QED
    BY <1>1, <1>2 DEF IsText, Queries, Relations, Tokens

(***************************************************************************)
(* The tokens that are written in places of some kinds.                    *)
(***************************************************************************)
Marked(t, tags) ==
  {w[3] : w \in {v \in Written(Queries(t), Relations(t)) : v[1] \in tags}}

DeclaredAliases == {"alias", "offset"}
Expressions == {"item", "expr", "group", "order"}
Results == {"item", "as"}

(* A token is written in one place.                                        *)
LEMMA OnePlace ==
  ASSUME NEW t, IsText(t), NEW tag, NEW other, NEW i, NEW j, NEW x,
         << tag, i, x >> \in Written(Queries(t), Relations(t)),
         << other, j, x >> \in Written(Queries(t), Relations(t)), x # NoToken
  PROVE  tag = other /\ i = j
  BY DEF IsText, WellFormed, WrittenOnce, Queries, Relations

(* Tokens that are written in places of different kinds differ.            *)
LEMMA MarkedApart ==
  ASSUME NEW t, IsText(t), NEW tags, NEW others, tags \cap others = {},
         NEW x, x \in Marked(t, tags), x # NoToken
  PROVE  x \notin Marked(t, others)
  <1>1. SUFFICES ASSUME x \in Marked(t, others) PROVE FALSE
    OBVIOUS
  <1>2. PICK a \in Written(Queries(t), Relations(t)) : a[1] \in tags /\ a[3] = x
    BY DEF Marked
  <1>3. PICK b \in Written(Queries(t), Relations(t)) : b[1] \in others /\ b[3] = x
    BY <1>1 DEF Marked
  <1>4. a = b
    BY <1>2, <1>3 DEF IsText, WellFormed, WrittenOnce, Queries, Relations
  <1>5. QED
    BY <1>2, <1>3, <1>4

(* What is written in the places of a kind is marked with it.              *)
LEMMA MarkedHere ==
  ASSUME NEW t, NEW tags, NEW tag \in tags, NEW i, NEW x,
         << tag, i, x >> \in Written(Queries(t), Relations(t))
  PROVE  x \in Marked(t, tags)
  BY DEF Marked

(* The tokens of a query, each with its place.                             *)
LEMMA QueryTokens ==
  ASSUME NEW t, NEW q \in DOMAIN Queries(t)
  PROVE  LET query == Queries(t)[q]
             W == Written(Queries(t), Relations(t))
         IN /\ \A i \in DOMAIN query.ctes : << "cte", << q, i >>, query.ctes[i].name >> \in W
            /\ \A i \in DOMAIN query.items :
                 /\ << "as", << q, i >>, query.items[i].as >> \in W
                 /\ Along("item", << q, i >>, query.items[i].expr) \subseteq W
            /\ \A i \in DOMAIN query.from :
                 /\ << "alias", << q, i >>, query.from[i].as >> \in W
                 /\ << "offset", << q, i >>, query.from[i].offset >> \in W
                 /\ query.from[i].kind = "name" =>
                      Along("from", << q, i >>, query.from[i].path) \subseteq W
            /\ \A e \in query.exprs : Along("expr", << q, e >>, e) \subseteq W
            /\ \A e \in query.group : Along("group", << q, e >>, e) \subseteq W
            /\ \A e \in query.order : Along("order", << q, e >>, e) \subseteq W
  <1> DEFINE query == Queries(t)[q]
             here == WrittenInQuery(q, query)
  <1>1. here \subseteq Written(Queries(t), Relations(t))
    BY DEF Written
  <1>. HIDE DEF query
  <1>2. /\ \A i \in DOMAIN query.ctes : << "cte", << q, i >>, query.ctes[i].name >> \in here
        /\ \A i \in DOMAIN query.items : << "as", << q, i >>, query.items[i].as >> \in here
    BY DEF WrittenInQuery
  <1>3. \A i \in DOMAIN query.from :
          /\ << "alias", << q, i >>, query.from[i].as >> \in here
          /\ << "offset", << q, i >>, query.from[i].offset >> \in here
    BY DEF WrittenInQuery
  <1>4. \A i \in DOMAIN query.items : Along("item", << q, i >>, query.items[i].expr) \subseteq here
    BY DEF WrittenInQuery
  <1>5. \A i \in DOMAIN query.from :
          query.from[i].kind = "name" => Along("from", << q, i >>, query.from[i].path) \subseteq here
    BY DEF WrittenInQuery
  <1>6. \A e \in query.exprs : Along("expr", << q, e >>, e) \subseteq here
    BY DEF WrittenInQuery
  <1>7. \A e \in query.group : Along("group", << q, e >>, e) \subseteq here
    BY DEF WrittenInQuery
  <1>8. \A e \in query.order : Along("order", << q, e >>, e) \subseteq here
    BY DEF WrittenInQuery
  <1>. HIDE DEF here
  <1>9. QED
    BY <1>1, <1>2, <1>3, <1>4, <1>5, <1>6, <1>7, <1>8 DEF query

(* A token of a path has its place.                                        *)
LEMMA TokenAlong ==
  ASSUME NEW tag, NEW place, NEW path, NEW k \in DOMAIN path
  PROVE  << tag, << place, k >>, path[k] >> \in Along(tag, place, path)
  BY DEF Along

(* The tokens of the path of a relation, each with its place.              *)
LEMMA RelationTokens ==
  ASSUME NEW t, NEW r \in DOMAIN Relations(t), Relations(t)[r].kind \notin {"identity", "bad"}
  PROVE  Along("relation", r, Relations(t)[r].path) \subseteq Written(Queries(t), Relations(t))
  <1>1. WrittenInRelation(r, Relations(t)[r]) \subseteq Written(Queries(t), Relations(t))
    BY DEF Written
  <1>2. QED
    BY <1>1 DEF WrittenInRelation

(* The types of the nodes.                                                 *)
Entries(query) == {query.from[i] : i \in DOMAIN query.from}

LEMMA QueryTypes ==
  ASSUME NEW t, IsText(t), NEW q \in DOMAIN Queries(t)
  PROVE  LET Q == Queries(t)
             X == Tokens(t)
         IN /\ Q[q].ctes \in Seq([name : X, query : DOMAIN Q, end : Nat])
            /\ Q[q].items \in Seq([expr : Seq(X), as : X \cup {NoToken}, star : BOOLEAN])
            /\ Q[q].from \in Seq(Entries(Q[q]))
            /\ \A i \in DOMAIN Q[q].from :
                 /\ Q[q].from[i].kind \in {"name", "query", "unnest"}
                 /\ Q[q].from[i].as \in X \cup {NoToken}
                 /\ Q[q].from[i].offset \in X \cup {NoToken}
                 /\ Q[q].from[i].kind = "name" => Q[q].from[i].path \in Seq(X) \ {<< >>}
                 /\ Q[q].from[i].kind = "query" => Q[q].from[i].query \in DOMAIN Q
            /\ Q[q].exprs \cup Q[q].group \cup Q[q].order \subseteq Seq(X) \ {<< >>}
            /\ Q[q].sel \in Nat \X Nat
  BY DEF IsText, WellFormed, NodesOK, Queries, Tokens, Entries

(* Tokens are positive numbers, and the queries of a text are finite.      *)
LEMMA TextTypes ==
  ASSUME NEW t, IsText(t)
  PROVE  /\ IsFiniteSet(Tokens(t)) /\ Tokens(t) \subseteq Nat /\ NoToken \notin Tokens(t)
         /\ IsFiniteSet(DOMAIN Queries(t)) /\ DOMAIN Queries(t) \subseteq Nat \ {0}
         /\ \A x \in Tokens(t) : Key(t, x) \in Names /\ t.names[x] \in Names
  <1>1. IsFiniteSet(Tokens(t)) /\ Tokens(t) \subseteq Nat /\ NoToken \notin Tokens(t)
    BY DEF IsText, WellFormed, NodesOK, Tokens
  <1>2. PICK n \in Nat : DOMAIN Queries(t) = 1..n
    <2>1. Queries(t) \in Seq({Queries(t)[q] : q \in DOMAIN Queries(t)})
      BY DEF IsText, WellFormed, NodesOK, Queries
    <2>2. QED
      BY <2>1
  <1>3. IsFiniteSet(1..n) /\ 1..n \subseteq Nat \ {0}
    BY FS_Interval
  <1>4. \A x \in Tokens(t) : t.names[x] \in Names /\ Key(t, x) \in Names
    BY FoldAssumption DEF IsText, Tokens, Key
  <1>5. QED
    BY <1>1, <1>2, <1>3, <1>4

------------------------------------------------------------------------------
(***************************************************************************)
(* Orders and scopes                                                       *)
(***************************************************************************)
(* InOrder has every element once, in the order of their places.           *)
LEMMA InOrderSorts ==
  ASSUME NEW S, IsFiniteSet(S), NEW place \in [S -> Nat],
         \A x, y \in S : place[x] = place[y] => x = y
  PROVE  /\ InOrder(S, place) \in Seq(S)
         /\ \A x \in S : \E i \in DOMAIN InOrder(S, place) : InOrder(S, place)[i] = x
         /\ \A i, j \in DOMAIN InOrder(S, place) :
              i < j => place[InOrder(S, place)[i]] < place[InOrder(S, place)[j]]
         /\ \A i, j \in DOMAIN InOrder(S, place) :
              InOrder(S, place)[i] = InOrder(S, place)[j] => i = j
  <1> DEFINE n == Cardinality(S)
             below(x) == {y \in S : place[y] < place[x]}
             rank == [x \in S |-> Cardinality(below(x))]
             o == InOrder(S, place)
  <1>1. n \in Nat
    BY FS_CardinalityType
  <1>2. ASSUME NEW x \in S
        PROVE  IsFiniteSet(below(x)) /\ Cardinality(below(x)) \in Nat /\ Cardinality(below(x)) < n
    <2>1. below(x) \in SUBSET S
      OBVIOUS
    <2>2. x \notin below(x)
      OBVIOUS
    <2>. HIDE DEF below
    <2>3. IsFiniteSet(below(x)) /\ Cardinality(below(x)) <= n /\ (n = Cardinality(below(x)) => S = below(x))
      BY <2>1, FS_Subset
    <2>4. Cardinality(below(x)) \in Nat
      BY <2>3, FS_CardinalityType
    <2>5. n # Cardinality(below(x))
      BY <2>2, <2>3
    <2>. HIDE DEF n
    <2>6. QED
      BY <1>1, <2>3, <2>4, <2>5
  <1>3. ASSUME NEW x \in S, NEW y \in S, place[x] < place[y] PROVE rank[x] < rank[y]
    <2>1. below(x) \in SUBSET below(y) /\ x \in below(y) /\ x \notin below(x)
      BY <1>3
    <2>2. IsFiniteSet(below(x)) /\ Cardinality(below(x)) \in Nat
          /\ IsFiniteSet(below(y)) /\ Cardinality(below(y)) \in Nat
      BY <1>2
    <2>. HIDE DEF below
    <2>3. Cardinality(below(x)) <= Cardinality(below(y)) /\ Cardinality(below(y)) # Cardinality(below(x))
      BY <2>1, <2>2, FS_Subset
    <2>4. Cardinality(below(x)) < Cardinality(below(y))
      BY <2>2, <2>3
    <2>5. QED
      BY <2>4
  <1>4. rank \in [S -> 0..(n - 1)]
    <2>1. \A x \in S : Cardinality(below(x)) \in 0..(n - 1)
      <3>. HIDE DEF below, n
      <3> QED
        BY <1>1, <1>2
    <2>. HIDE DEF below, n
    <2>2. QED
      BY <2>1
  <1>. HIDE DEF rank
  <1>5. \A x, y \in S : rank[x] = rank[y] => x = y
    <2>1. ASSUME NEW x \in S, NEW y \in S, rank[x] = rank[y], x # y PROVE FALSE
      <3>1. place[x] < place[y] \/ place[y] < place[x]
        BY <2>1
      <3>2. rank[x] < rank[y] \/ rank[y] < rank[x]
        BY <1>3, <3>1
      <3>3. rank[x] \in Nat /\ rank[y] \in Nat
        BY <1>1, <1>4
      <3>4. QED
        BY <2>1, <3>2, <3>3
    <2>2. QED
      BY <2>1
  <1>6. \A i \in 1..n : \E x \in S : rank[x] = i - 1
    <2>1. rank \in Injection(S, 0..(n - 1))
      BY <1>4, <1>5 DEF Injection, IsInjective
    <2>2. IsFiniteSet(0..(n - 1)) /\ Cardinality(0..(n - 1)) = n
      <3>. HIDE DEF n
      <3> QED
        BY <1>1, FS_Interval
    <2>3. rank \in Surjection(S, 0..(n - 1))
      BY <2>1, <2>2, FS_Injection
    <2>4. \A i \in 1..n : i - 1 \in 0..(n - 1)
      <3>. HIDE DEF n
      <3> QED
        BY <1>1
    <2>5. QED
      BY <2>3, <2>4 DEF Surjection
  <1>7. o = [i \in 1..n |-> CHOOSE x \in S : Cardinality(below(x)) = i - 1]
    BY DEF InOrder
  <1>. HIDE DEF o
  <1>8. \A i \in 1..n : o[i] \in S /\ rank[o[i]] = i - 1
    <2>1. ASSUME NEW i \in 1..n PROVE o[i] \in S /\ rank[o[i]] = i - 1
      <3> DEFINE lower(x) == Cardinality(below(x))
      <3>1. o[i] = CHOOSE x \in S : lower(x) = i - 1
        BY <1>7
      <3>2. \A x \in S : rank[x] = lower(x)
        BY DEF rank
      <3>3. \E x \in S : lower(x) = i - 1
        BY <1>6, <3>2
      <3>. HIDE DEF lower
      <3>4. o[i] \in S /\ lower(o[i]) = i - 1
        BY <3>1, <3>3
      <3>5. QED
        BY <3>2, <3>4
    <2>2. QED
      BY <2>1
  <1>9. DOMAIN o = 1..n /\ o \in Seq(S)
    <2>1. o \in [1..n -> S]
      BY <1>7, <1>8
    <2>. HIDE DEF n
    <2>2. QED
      BY <1>1, <2>1
  <1>10. ASSUME NEW x \in S PROVE \E i \in DOMAIN o : o[i] = x
    <2>1. rank[x] + 1 \in 1..n /\ (rank[x] + 1) - 1 = rank[x]
      <3>. HIDE DEF n
      <3> QED
        BY <1>1, <1>4
    <2>2. rank[o[rank[x] + 1]] = rank[x] /\ o[rank[x] + 1] \in S
      BY <1>8, <2>1
    <2>3. o[rank[x] + 1] = x
      BY <1>5, <2>2
    <2>4. QED
      BY <1>9, <2>1, <2>3
  <1>11. ASSUME NEW i \in DOMAIN o, NEW j \in DOMAIN o, i < j PROVE place[o[i]] < place[o[j]]
    <2>1. SUFFICES ASSUME ~(place[o[i]] < place[o[j]]) PROVE FALSE
      OBVIOUS
    <2>2. /\ o[i] \in S /\ o[j] \in S /\ rank[o[i]] = i - 1 /\ rank[o[j]] = j - 1
          /\ i \in Nat /\ j \in Nat
      BY <1>1, <1>8, <1>9
    <2>3. place[o[j]] < place[o[i]] \/ o[i] = o[j]
      BY <2>1, <2>2
    <2>4. rank[o[j]] < rank[o[i]] \/ rank[o[i]] = rank[o[j]]
      BY <1>3, <2>2, <2>3
    <2>5. j - 1 < i - 1 \/ i - 1 = j - 1
      BY <2>2, <2>4
    <2>6. QED
      BY <1>11, <2>2, <2>5
  <1>12. ASSUME NEW i \in DOMAIN o, NEW j \in DOMAIN o, o[i] = o[j] PROVE i = j
    <2>1. i - 1 = j - 1 /\ i \in Nat /\ j \in Nat
      BY <1>1, <1>8, <1>9, <1>12
    <2>2. QED
      BY <2>1
  <1>13. QED
    BY <1>9, <1>10, <1>11, <1>12 DEF o

(* Queries form a tree, by Enclosing, too.                                 *)
Statements(t) == {q \in DOMAIN Queries(t) : Queries(t)[q].role = "statement"}
Up(t) == [q \in DOMAIN Queries(t) |-> Queries(t)[q].up]

LEMMA QueryTree ==
  ASSUME NEW t, IsText(t)
  PROVE  IsTree(DOMAIN Queries(t), Statements(t), Up(t))
  <1>1. QueriesNest(Queries(t))
    BY DEF IsText, WellFormed, Queries
  <1>2. Statements(t) \subseteq DOMAIN Queries(t)
    BY DEF Statements
  <1>3. \A q \in DOMAIN Queries(t) \ Statements(t) : Up(t)[q] \in DOMAIN Queries(t)
    BY <1>1 DEF QueriesNest, Statements, Up
  <1>4. ASSUME NEW S \in SUBSET DOMAIN Queries(t), S # {}
        PROVE  \E q \in S : q \in Statements(t) \/ Up(t)[q] \notin S
    <2>1. PICK q \in S : Queries(t)[q].role = "statement" \/ Queries(t)[q].up \notin S
      BY <1>1, <1>4 DEF QueriesNest
    <2>2. QED
      BY <2>1 DEF Statements, Up
  <1>5. QED
    BY <1>2, <1>3, <1>4 DEF IsTree

(* The SELECT around a query is one of the text, or none.                  *)
LEMMA EnclosingIs ==
  ASSUME NEW t, IsText(t)
  PROVE  LET Q == Queries(t)
             enclosing == Enclosing(t)
         IN /\ enclosing \in [DOMAIN Q -> DOMAIN Q \cup {0}]
            /\ \A q \in DOMAIN Q :
                 enclosing[q] = IF Q[q].role = "statement" THEN 0
                                ELSE IF Q[q].role \in {"from", "expr"} THEN Q[q].up
                                ELSE enclosing[Q[q].up]
  <1> DEFINE Q == Queries(t)
             D == DOMAIN Queries(t)
             V == D \cup {0}
             next(q, v) == IF Q[q].role = "statement" THEN 0
                           ELSE IF Q[q].role \in {"from", "expr"} THEN Q[q].up ELSE v
             first == [q \in D |-> 0]
             step == [q \in D |-> [v \in V |-> IF q \in Statements(t) THEN 0 ELSE next(q, v)]]
             Is(f) == f = [q \in D |-> next(q, f[Q[q].up])]
  <1>1. QueriesNest(Q) /\ IsFiniteSet(D)
    BY TextTypes DEF IsText, WellFormed, Queries
  <1>2. \A q \in D : /\ Q[q].role \in {"statement", "cte", "from", "expr", "order"}
                     /\ q \in Statements(t) <=> Q[q].role = "statement"
                     /\ q \notin Statements(t) => Q[q].up \in D /\ Up(t)[q] = Q[q].up
    BY <1>1 DEF QueriesNest, Statements, Up
  <1>3. first \in [D -> V] /\ step \in [D -> [V -> V]]
    <2>1. \A q \in D : \A v \in V : (IF q \in Statements(t) THEN 0 ELSE next(q, v)) \in V
      BY <1>2
    <2>. HIDE DEF next, V
    <2>2. step \in [D -> [V -> V]]
      BY <2>1
    <2>3. 0 \in V
      BY DEF V
    <2>4. QED
      BY <2>2, <2>3
  <1>4. PICK f \in [D -> V] : ClimbsTree(f, D, Statements(t), Up(t), first, step)
    <2>. HIDE DEF D, V, first, step
    <2>1. IsTree(D, Statements(t), Up(t))
      BY QueryTree DEF D
    <2>2. QED
      BY <1>1, <1>3, <2>1, TreeRecursion
  <1>5. ASSUME NEW q \in D PROVE f[q] = next(q, f[Q[q].up])
    <2>1. f[q] = IF q \in Statements(t) THEN first[q] ELSE step[q][f[Up(t)[q]]]
      BY <1>4 DEF ClimbsTree
    <2>2. CASE q \in Statements(t)
      BY <1>2, <2>1, <2>2
    <2>3. CASE q \notin Statements(t)
      <3>1. Up(t)[q] = Q[q].up /\ f[Q[q].up] \in V
        BY <1>2, <2>3
      <3>2. step[q][f[Q[q].up]] = next(q, f[Q[q].up])
        <4>. HIDE DEF next, V
        <4> QED
          BY <2>3, <3>1
      <3>3. QED
        BY <2>1, <2>3, <3>1, <3>2
    <2>4. QED
      BY <2>2, <2>3
  <1>6. Is(f)
    <2>. HIDE DEF next
    <2> QED
      BY <1>5
  <1>7. Enclosing(t) = CHOOSE g : Is(g)
    BY DEF Enclosing
  <1>8. Is(Enclosing(t))
    <2>. HIDE DEF Is
    <2> QED
      BY <1>6, <1>7
  <1> DEFINE g == Enclosing(t)
  <1>9. DOMAIN g = D /\ \A q \in D : g[q] = next(q, g[Q[q].up])
    <2>. HIDE DEF next, g
    <2>1. Is(g)
      BY <1>8 DEF g
    <2>2. QED
      BY <2>1
  <1>10. D \subseteq {q \in D : g[q] \in V}
    <2>1. \A q \in D : (q \in Statements(t) \/ Up(t)[q] \in {r \in D : g[r] \in V})
                        => q \in {r \in D : g[r] \in V}
      <3>. HIDE DEF g
      <3> QED
        BY <1>2, <1>9
    <2> DEFINE T == {r \in D : g[r] \in V}
    <2>. HIDE DEF T, g
    <2>2. IsTree(D, Statements(t), Up(t))
      BY QueryTree
    <2>. HIDE DEF D
    <2>3. \A q \in D : (q \in Statements(t) \/ Up(t)[q] \in T) => q \in T
      BY <2>1 DEF T
    <2>4. D \subseteq T
      BY <2>2, <2>3, TreeInduction
    <2>5. QED
      BY <2>4 DEF T
  <1>11. g = [q \in D |-> g[q]] /\ \A q \in D : g[q] \in V
    <2>1. g = [q \in D |-> next(q, g[Q[q].up])]
      <3>. HIDE DEF next, g
      <3>1. Is(g)
        BY <1>8 DEF g
      <3>2. QED
        BY <3>1
    <2>. HIDE DEF next, g, D
    <2>2. QED
      BY <1>9, <1>10, <2>1
  <1>12. g \in [D -> V]
    <2>. HIDE DEF g, D, V
    <2> QED
      BY <1>11
  <1>13. QED
    BY <1>9, <1>12

(* The SELECTs around form a tree.                                         *)
LEMMA EnclosingTree ==
  ASSUME NEW t, IsText(t)
  PROVE  IsTree(DOMAIN Queries(t), {q \in DOMAIN Queries(t) : Enclosing(t)[q] = 0}, Enclosing(t))
  <1> DEFINE Q == Queries(t)
             D == DOMAIN Q
             g == Enclosing(t)
             roots == {q \in D : g[q] = 0}
  <1>1. /\ g \in [D -> D \cup {0}]
        /\ \A q \in D : g[q] = IF Q[q].role = "statement" THEN 0
                               ELSE IF Q[q].role \in {"from", "expr"} THEN Q[q].up
                               ELSE g[Q[q].up]
    BY EnclosingIs
  <1>2. QueriesNest(Q) /\ 0 \notin D
    BY TextTypes DEF IsText, WellFormed, Queries
  <1>. HIDE DEF g
  <1>3. ASSUME NEW S \in SUBSET D, S # {} PROVE \E q \in S : q \in roots \/ g[q] \notin S
    <2>1. SUFFICES ASSUME \A q \in S : g[q] \in S PROVE FALSE
      OBVIOUS
    <2> DEFINE T == {r \in D : g[r] \in S}
    <2>2. T \in SUBSET D /\ T # {}
      BY <1>3, <2>1
    <2>3. PICK r \in T : Q[r].role = "statement" \/ Q[r].up \notin T
      <3>. HIDE DEF T
      <3> QED
        BY <1>2, <2>2 DEF QueriesNest
    <2>4. r \in D /\ g[r] \in S
      OBVIOUS
    <2>5. /\ Q[r].role \in {"statement", "cte", "from", "expr", "order"}
          /\ Q[r].role # "statement" => Q[r].up \in D
      BY <1>2, <2>4 DEF QueriesNest
    <2>6. CASE Q[r].role = "statement"
      <3>1. g[r] = 0
        BY <1>1, <2>4, <2>6
      <3>2. QED
        BY <1>2, <2>4, <3>1
    <2>7. CASE Q[r].role \in {"from", "expr"}
      <3>1. g[r] = Q[r].up
        BY <1>1, <2>4, <2>7
      <3>2. Q[r].up \in T
        BY <2>1, <2>4, <3>1
      <3>3. QED
        BY <2>3, <2>7, <3>2
    <2>8. CASE Q[r].role \in {"cte", "order"}
      <3>1. g[r] = g[Q[r].up] /\ Q[r].up \in D
        BY <1>1, <2>4, <2>5, <2>8
      <3>2. Q[r].up \in T
        BY <2>4, <3>1
      <3>3. QED
        BY <2>3, <2>8, <3>2
    <2>9. QED
      BY <2>5, <2>6, <2>7, <2>8
  <1>4. \A q \in D \ roots : g[q] \in D
    BY <1>1
  <1>5. IsTree(D, roots, g)
    BY <1>3, <1>4 DEF IsTree
  <1>6. QED
    BY <1>5 DEF g

(* Keys to tokens of X, or to none, of that key.                           *)
Scopes(t, X) ==
  {s \in UNION {[K -> X \cup {NoToken}] : K \in SUBSET Names} :
     \A key \in DOMAIN s : s[key] # NoToken => Key(t, s[key]) = key}

LEMMA IsScope ==
  ASSUME NEW t, NEW X, NEW K \in SUBSET Names, NEW s \in [K -> X \cup {NoToken}],
         \A key \in K : s[key] # NoToken => Key(t, s[key]) = key
  PROVE  s \in Scopes(t, X)
  BY DEF Scopes

LEMMA ScopeIs ==
  ASSUME NEW t, NEW X, NEW s \in Scopes(t, X)
  PROVE  /\ DOMAIN s \subseteq Names /\ s = [key \in DOMAIN s |-> s[key]]
         /\ \A key \in DOMAIN s : /\ s[key] \in X \cup {NoToken}
                                  /\ s[key] # NoToken => Key(t, s[key]) = key
  BY DEF Scopes

LEMMA NoScope ==
  ASSUME NEW t, NEW X
  PROVE  << >> \in Scopes(t, X)
  <1>1. << >> \in [{} -> X \cup {NoToken}] /\ {} \in SUBSET Names
    OBVIOUS
  <1>2. QED
    BY <1>1, IsScope

(* A set of one element at most.                                           *)
LEMMA SingleElement ==
  ASSUME NEW S, IsFiniteSet(S), ~(Cardinality(S) > 1), NEW x \in S
  PROVE  S = {x}
  <1>1. {x} \in SUBSET S /\ IsFiniteSet({x}) /\ Cardinality({x}) = 1
    BY FS_Singleton
  <1>2. Cardinality({x}) <= Cardinality(S) /\ (Cardinality(S) = Cardinality({x}) => {x} = S)
    BY <1>1, FS_Subset
  <1>3. Cardinality(S) \in Nat
    BY FS_CardinalityType
  <1>4. Cardinality(S) = 1
    BY <1>1, <1>2, <1>3
  <1>5. QED
    BY <1>1, <1>2, <1>4

(* What a scope has for a key is a token of that key.                      *)
LEMMA LookupIs ==
  ASSUME NEW t, NEW X, NEW s \in Scopes(t, X), NEW key
  PROVE  /\ Lookup(s, key) \in X \cup {NoToken}
         /\ Lookup(s, key) # NoToken => Key(t, Lookup(s, key)) = key
  BY ScopeIs DEF Lookup

(* The CTEs of a WITH make a scope of a scope.                             *)
LEMMA WithCTEsScope ==
  ASSUME NEW t, IsText(t), NEW X, NEW scope \in Scopes(t, X),
         NEW ctes, NEW m \in Nat, NEW n \in 0..m,
         \A i \in 1..m : ctes[i].name \in X /\ ctes[i].name \in Tokens(t)
  PROVE  WithCTEs(t, scope, ctes, n) \in Scopes(t, X)
  <1> DEFINE named(key) == {i \in 1..n : Key(t, ctes[i].name) = key}
             K == DOMAIN scope \cup {Key(t, ctes[i].name) : i \in 1..n}
             s == [key \in K |-> IF named(key) = {} THEN scope[key] ELSE ctes[Max(named(key))].name]
  <1>1. WithCTEs(t, scope, ctes, n) = s
    BY DEF WithCTEs
  <1>2. \A i \in 1..n : i \in 1..m
    OBVIOUS
  <1>3. K \in SUBSET Names
    BY <1>2, TextTypes, ScopeIs
  <1>4. ASSUME NEW key \in K
        PROVE  s[key] \in X \cup {NoToken} /\ (s[key] # NoToken => Key(t, s[key]) = key)
    <2>1. CASE named(key) = {}
      <3>1. key \in DOMAIN scope
        BY <2>1
      <3>2. s[key] = scope[key]
        BY <2>1
      <3>. HIDE DEF s
      <3>3. QED
        BY <3>1, <3>2, ScopeIs
    <2>2. CASE named(key) # {}
      <3>1. named(key) \subseteq 0..n /\ n \in Nat
        OBVIOUS
      <3>2. Max(named(key)) \in named(key)
        <4>. HIDE DEF named
        <4> QED
          BY <2>2, <3>1, HasMax
      <3>3. s[key] = ctes[Max(named(key))].name
        BY <2>2
      <3> DEFINE i == Max(named(key))
      <3>4. i \in 1..n /\ Key(t, ctes[i].name) = key
        <4>. HIDE DEF i
        <4> QED
          BY <3>2 DEF i
      <3>. HIDE DEF s, i
      <3>5. QED
        BY <1>2, <3>3, <3>4 DEF i
    <2>3. QED
      BY <2>1, <2>2
  <1>5. s \in [K -> X \cup {NoToken}]
    <2>1. \A key \in K : (IF named(key) = {} THEN scope[key] ELSE ctes[Max(named(key))].name)
                           \in X \cup {NoToken}
      BY <1>4
    <2>. HIDE DEF K, named
    <2>2. QED
      BY <2>1
  <1>. HIDE DEF s, K
  <1>6. s \in Scopes(t, X)
    BY <1>3, <1>4, <1>5, IsScope
  <1>7. QED
    BY <1>1, <1>6

(* The scopes of CTEs have CTEs for their names.                           *)
LEMMA CTEScopesAre ==
  ASSUME NEW t, IsText(t)
  PROVE  CTEScopes(t) \in [DOMAIN Queries(t) -> Scopes(t, Marked(t, {"cte"}))]
  <1> DEFINE Q == Queries(t)
             D == DOMAIN Queries(t)
             V == Scopes(t, Marked(t, {"cte"}))
             seen(q) == IF Q[q].role = "cte" THEN Q[q].at - 1 ELSE Len(Q[Q[q].up].ctes)
             next(q, v) == IF Q[q].role = "statement" THEN << >>
                           ELSE WithCTEs(t, v, Q[Q[q].up].ctes, seen(q))
             first == [q \in D |-> << >>]
             step == [q \in D |-> [v \in V |-> next(q, v)]]
             Is(f) == f = [q \in D |-> next(q, f[Q[q].up])]
             outer == CHOOSE f : Is(f)
  <1>1. QueriesNest(Q) /\ IsFiniteSet(D) /\ IsTree(D, Statements(t), Up(t))
    BY TextTypes, QueryTree DEF IsText, WellFormed, Queries
  <1>2. \A q \in D : /\ q \in Statements(t) <=> Q[q].role = "statement"
                     /\ q \notin Statements(t) => Q[q].up \in D /\ Up(t)[q] = Q[q].up
                     /\ Q[q].role = "cte" => Q[q].at \in DOMAIN Q[Q[q].up].ctes
    BY <1>1 DEF QueriesNest, Statements, Up
  <1>3. \A q \in D : /\ Len(Q[q].ctes) \in Nat /\ DOMAIN Q[q].ctes = 1..Len(Q[q].ctes)
                     /\ \A i \in 1..Len(Q[q].ctes) :
                          /\ Q[q].ctes[i].name \in Marked(t, {"cte"})
                          /\ Q[q].ctes[i].name \in Tokens(t)
    <2>1. ASSUME NEW q \in D
          PROVE  /\ Len(Q[q].ctes) \in Nat /\ DOMAIN Q[q].ctes = 1..Len(Q[q].ctes)
                 /\ \A i \in 1..Len(Q[q].ctes) :
                      /\ Q[q].ctes[i].name \in Marked(t, {"cte"})
                      /\ Q[q].ctes[i].name \in Tokens(t)
      <3>1. Q[q].ctes \in Seq([name : Tokens(t), query : D, end : Nat])
        BY QueryTypes
      <3>2. \A i \in DOMAIN Q[q].ctes :
              << "cte", << q, i >>, Q[q].ctes[i].name >> \in Written(Queries(t), Relations(t))
        BY QueryTokens
      <3>. HIDE DEF Q
      <3> DEFINE C == [name : Tokens(t), query : D, end : Nat]
      <3>3. /\ Len(Q[q].ctes) \in Nat /\ DOMAIN Q[q].ctes = 1..Len(Q[q].ctes)
            /\ \A i \in 1..Len(Q[q].ctes) : Q[q].ctes[i].name \in Tokens(t)
        <4>1. \A c \in C : c.name \in Tokens(t)
          OBVIOUS
        <4>2. Q[q].ctes \in Seq(C)
          BY <3>1
        <4>. HIDE DEF C
        <4>3. QED
          BY <4>1, <4>2
      <3>4. \A i \in 1..Len(Q[q].ctes) : Q[q].ctes[i].name \in Marked(t, {"cte"})
        BY <3>2, <3>3, MarkedHere
      <3>5. QED
        BY <3>3, <3>4
    <2>2. QED
      BY <2>1
  <1>4. ASSUME NEW q \in D, NEW v \in V PROVE next(q, v) \in V
    <2>1. CASE Q[q].role = "statement"
      BY <2>1, NoScope
    <2>2. CASE Q[q].role # "statement"
      <3> DEFINE ctes == Q[Q[q].up].ctes
      <3>1. Q[q].up \in D
        BY <1>2, <2>2
      <3>2. /\ Len(ctes) \in Nat /\ DOMAIN ctes = 1..Len(ctes)
            /\ \A i \in 1..Len(ctes) :
                 ctes[i].name \in Marked(t, {"cte"}) /\ ctes[i].name \in Tokens(t)
        BY <1>3, <3>1
      <3>3. seen(q) \in 0..Len(ctes)
        BY <1>2, <3>2
      <3>. HIDE DEF seen, ctes
      <3>4. WithCTEs(t, v, ctes, seen(q)) \in V
        BY <3>2, <3>3, WithCTEsScope
      <3>5. QED
        BY <2>2, <3>4 DEF ctes
    <2>3. QED
      BY <2>1, <2>2
  <1>5. PICK f \in [D -> V] : ClimbsTree(f, D, Statements(t), Up(t), first, step)
    <2>1. first \in [D -> V] /\ step \in [D -> [V -> V]]
      <3>. HIDE DEF next, V
      <3>1. step \in [D -> [V -> V]]
        BY <1>4
      <3>2. << >> \in V
        BY NoScope DEF V
      <3>3. QED
        BY <3>1, <3>2
    <2>. HIDE DEF D, V, first, step
    <2>2. QED
      BY <1>1, <2>1, TreeRecursion
  <1>6. ASSUME NEW q \in D PROVE f[q] = next(q, f[Q[q].up])
    <2>1. f[q] = IF q \in Statements(t) THEN first[q] ELSE step[q][f[Up(t)[q]]]
      <3>. HIDE DEF first, step
      <3> QED
        BY <1>5 DEF ClimbsTree
    <2>2. CASE q \in Statements(t)
      BY <1>2, <2>1, <2>2
    <2>3. CASE q \notin Statements(t)
      <3>1. Up(t)[q] = Q[q].up /\ f[Q[q].up] \in V
        BY <1>2, <2>3
      <3>2. step[q][f[Q[q].up]] = next(q, f[Q[q].up])
        <4>. HIDE DEF next, V
        <4> QED
          BY <3>1
      <3>. HIDE DEF next, step
      <3>3. QED
        BY <2>1, <2>3, <3>1, <3>2
    <2>4. QED
      BY <2>2, <2>3
  <1>7. Is(f)
    <2>. HIDE DEF next
    <2> QED
      BY <1>6
  <1>8. Is(outer)
    <2>. HIDE DEF Is
    <2> QED
      BY <1>7
  <1>. HIDE DEF outer
  <1>9. \A q \in D : outer[q] = next(q, outer[Q[q].up])
    <2>. HIDE DEF next
    <2> QED
      BY <1>8
  <1>10. \A q \in D : outer[q] \in V
    <2> DEFINE T == {q \in D : outer[q] \in V}
    <2>1. \A q \in D : (q \in Statements(t) \/ Up(t)[q] \in T) => q \in T
      <3>1. ASSUME NEW q \in D, q \in Statements(t) \/ Up(t)[q] \in T PROVE q \in T
        <4>1. CASE q \in Statements(t)
          <5>1. outer[q] = << >>
            BY <1>2, <1>9, <4>1
          <5>2. << >> \in V
            BY NoScope
          <5>. HIDE DEF V
          <5>3. QED
            BY <5>1, <5>2
        <4>2. CASE q \notin Statements(t)
          <5>1. outer[Q[q].up] \in V
            BY <1>2, <3>1, <4>2
          <5>. HIDE DEF V, next
          <5>2. QED
            BY <1>4, <1>9, <5>1
        <4>3. QED
          BY <4>1, <4>2
      <3>2. QED
        BY <3>1
    <2>. HIDE DEF T, D
    <2>2. D \subseteq T
      BY <1>1, <2>1, TreeInduction
    <2>3. QED
      BY <2>2 DEF T
  <1>11. CTEScopes(t) = [q \in D |-> WithCTEs(t, outer[q], Q[q].ctes, Len(Q[q].ctes))]
    BY DEF CTEScopes, outer
  <1>12. \A q \in D : WithCTEs(t, outer[q], Q[q].ctes, Len(Q[q].ctes)) \in V
    <2>1. ASSUME NEW q \in D PROVE WithCTEs(t, outer[q], Q[q].ctes, Len(Q[q].ctes)) \in V
      <3> DEFINE ctes == Q[q].ctes
      <3>1. /\ Len(ctes) \in Nat /\ Len(ctes) \in 0..Len(ctes)
            /\ \A i \in 1..Len(ctes) :
                 ctes[i].name \in Marked(t, {"cte"}) /\ ctes[i].name \in Tokens(t)
        BY <1>3
      <3>. HIDE DEF ctes
      <3>2. WithCTEs(t, outer[q], ctes, Len(ctes)) \in V
        BY <1>10, <3>1, WithCTEsScope
      <3>3. QED
        BY <3>2 DEF ctes
    <2>2. QED
      BY <2>1
  <1>13. QED
    <2>. HIDE DEF V, Q
    <2>1. QED
      BY <1>11, <1>12 DEF V, Q

------------------------------------------------------------------------------
(***************************************************************************)
(* CTEs                                                                    *)
(***************************************************************************)
(* The images of the elements of a finite set are finitely many.           *)
LEMMA ImageFinite ==
  ASSUME NEW S, IsFiniteSet(S), NEW f, DOMAIN f = S
  PROVE  IsFiniteSet({f[x] : x \in S})
  <1> DEFINE T == {f[x] : x \in S}
             g == [x \in S |-> f[x]]
  <1>1. g \in Surjection(S, T)
    <2>1. g \in [S -> T] /\ \A y \in T : \E x \in S : g[x] = y
      OBVIOUS
    <2>. HIDE DEF g, T
    <2>2. QED
      BY <2>1 DEF Surjection
  <1>. HIDE DEF g, T
  <1>2. IsFiniteSet(T)
    BY <1>1, FS_Surjection
  <1>3. QED
    BY <1>2 DEF T

DeclaredCTEs(t) == UNION {ToSet(Queries(t)[q].ctes) : q \in DOMAIN Queries(t)}

(* The CTEs of a text are finitely many, and each has a name of its own.   *)
LEMMA DeclaredCTEsAre ==
  ASSUME NEW t, IsText(t)
  PROVE  /\ IsFiniteSet(DeclaredCTEs(t))
         /\ \A c \in DeclaredCTEs(t) :
              /\ c.name \in Tokens(t) /\ c.name \in Marked(t, {"cte"})
              /\ c.query \in DOMAIN Queries(t) /\ c.end \in Nat /\ c.name < c.end
         /\ \A c, d \in DeclaredCTEs(t) : c.name = d.name => c = d
         /\ \A c, d \in DeclaredCTEs(t) : c.end = d.end => c = d
         /\ \A c, d \in DeclaredCTEs(t) : c.name < d.name => d.end < c.end \/ c.end < d.name
  <1> DEFINE Q == Queries(t)
             D == DOMAIN Queries(t)
             C == [name : Tokens(t), query : D, end : Nat]
             sets == [q \in D |-> ToSet(Q[q].ctes)]
  <1>1. \A q \in D : Q[q].ctes \in Seq(C)
    BY QueryTypes
  <1>2. \A c \in C : c.name \in Tokens(t) /\ c.query \in D /\ c.end \in Nat
    OBVIOUS
  <1>. HIDE DEF C
  <1>3. DeclaredCTEs(t) = UNION {sets[q] : q \in D}
    BY DEF DeclaredCTEs
  <1>4. ASSUME NEW c \in DeclaredCTEs(t)
        PROVE  \E q \in D : \E i \in DOMAIN Q[q].ctes : c = Q[q].ctes[i]
    BY DEF DeclaredCTEs, ToSet
  <1>5. IsFiniteSet(DeclaredCTEs(t))
    <2>1. ASSUME NEW q \in D PROVE IsFiniteSet(sets[q])
      <3> DEFINE s == Q[q].ctes
      <3>1. s \in Seq(C)
        BY <1>1
      <3>. HIDE DEF s
      <3>2. DOMAIN s = 1..Len(s) /\ Len(s) \in Nat
        BY <3>1
      <3>3. IsFiniteSet(1..Len(s))
        BY <3>2, FS_Interval
      <3>4. IsFiniteSet({s[i] : i \in 1..Len(s)})
        BY <3>2, <3>3, ImageFinite
      <3>5. sets[q] = {s[i] : i \in 1..Len(s)}
        BY <3>2 DEF ToSet, s
      <3>6. QED
        BY <3>4, <3>5
    <2>2. IsFiniteSet(D) /\ DOMAIN sets = D
      BY TextTypes
    <2>. HIDE DEF sets, D
    <2>3. IsFiniteSet({sets[q] : q \in D})
      BY <2>2, ImageFinite
    <2>4. \A T \in {sets[q] : q \in D} : IsFiniteSet(T)
      BY <2>1
    <2>5. QED
      BY <1>3, <2>3, <2>4, FS_UNION
  <1>6. ASSUME NEW c \in DeclaredCTEs(t)
        PROVE  /\ c.name \in Tokens(t) /\ c.name \in Marked(t, {"cte"})
               /\ c.query \in D /\ c.end \in Nat
    <2>1. PICK q \in D : \E i \in DOMAIN Q[q].ctes : c = Q[q].ctes[i]
      BY <1>4
    <2>2. PICK i \in DOMAIN Q[q].ctes : c = Q[q].ctes[i]
      BY <2>1
    <2>3. c \in C
      BY <1>1, <2>2
    <2>4. << "cte", << q, i >>, Q[q].ctes[i].name >> \in Written(Queries(t), Relations(t))
      BY QueryTokens
    <2>5. c.name \in Marked(t, {"cte"})
      BY <2>2, <2>4, MarkedHere
    <2>6. QED
      BY <1>2, <2>3, <2>5
  <1>7. /\ \A c \in DeclaredCTEs(t) : c.name < c.end
        /\ \A c, d \in DeclaredCTEs(t) : c.name < d.name => d.end < c.end \/ c.end < d.name
    BY DEF IsText, WellFormed, RangesNest, DeclaredCTEs, Queries
  <1>8. ASSUME NEW c \in DeclaredCTEs(t), NEW d \in DeclaredCTEs(t), c.name = d.name
        PROVE  c = d
    <2>1. PICK q \in D : \E i \in DOMAIN Q[q].ctes : c = Q[q].ctes[i]
      BY <1>4
    <2>2. PICK i \in DOMAIN Q[q].ctes : c = Q[q].ctes[i]
      BY <2>1
    <2>3. PICK r \in D : \E j \in DOMAIN Q[r].ctes : d = Q[r].ctes[j]
      BY <1>4
    <2>4. PICK j \in DOMAIN Q[r].ctes : d = Q[r].ctes[j]
      BY <2>3
    <2>5. /\ << "cte", << q, i >>, c.name >> \in Written(Queries(t), Relations(t))
          /\ << "cte", << r, j >>, c.name >> \in Written(Queries(t), Relations(t))
      BY <1>8, <2>2, <2>4, QueryTokens
    <2>6. c.name # NoToken
      BY <1>6, TextTypes
    <2>7. << q, i >> = << r, j >>
      <3> DEFINE a == << q, i >>
                 b == << r, j >>
      <3>. HIDE DEF a, b
      <3>1. a = b
        BY <2>5, <2>6, OnePlace DEF a, b
      <3>2. QED
        BY <3>1 DEF a, b
    <2>8. QED
      BY <2>2, <2>4, <2>7
  <1>9. ASSUME NEW c \in DeclaredCTEs(t), NEW d \in DeclaredCTEs(t), c.end = d.end
        PROVE  c = d
    <2>1. /\ c.name \in Nat /\ d.name \in Nat /\ c.end \in Nat /\ d.end \in Nat
          /\ c.name < c.end /\ d.name < d.end
          /\ c.name < d.name => d.end < c.end \/ c.end < d.name
          /\ d.name < c.name => c.end < d.end \/ d.end < c.name
      BY <1>6, <1>7, TextTypes
    <2>2. c.name = d.name
      BY <1>9, <2>1
    <2>3. QED
      BY <1>8, <2>2
  <1>10. QED
    BY <1>5, <1>6, <1>7, <1>8, <1>9

(* What the binding of a table name is: a CTE of its name, or none.        *)
FromTokens(t) ==
  UNION {{Queries(t)[q].from[i].path[1] : i \in TableNames(Queries(t)[q])} :
           q \in DOMAIN Queries(t)}

LEMMA FromTokensAre ==
  ASSUME NEW t, IsText(t), NEW x \in FromTokens(t)
  PROVE  x \in Tokens(t) /\ x \in Marked(t, {"from"})
  <1> DEFINE Q == Queries(t)
  <1>1. PICK q \in DOMAIN Q : \E i \in TableNames(Q[q]) : x = Q[q].from[i].path[1]
    BY DEF FromTokens
  <1>2. PICK i \in TableNames(Q[q]) : x = Q[q].from[i].path[1]
    BY <1>1
  <1>3. i \in DOMAIN Q[q].from /\ Q[q].from[i].kind = "name"
    BY DEF TableNames
  <1> DEFINE path == Q[q].from[i].path
  <1>4. path \in Seq(Tokens(t)) \ {<< >>}
    BY <1>3, QueryTypes
  <1>5. Along("from", << q, i >>, path) \subseteq Written(Queries(t), Relations(t))
    BY <1>3, QueryTokens
  <1>6. x = path[1]
    BY <1>2
  <1>. HIDE DEF path
  <1>7. 1 \in DOMAIN path /\ path[1] \in Tokens(t)
    BY <1>4
  <1>8. << "from", << << q, i >>, 1 >>, path[1] >> \in Written(Queries(t), Relations(t))
    BY <1>5, <1>7, TokenAlong
  <1>9. path[1] \in Marked(t, {"from"})
    BY <1>8, MarkedHere
  <1>10. QED
    BY <1>6, <1>7, <1>9

(* An index made of the CTEs in an order, with names they are the CTEs of. *)
IndexesCTEs(t, ctes, order) ==
  LET n == Len(order)
  IN /\ order \in Seq(DeclaredCTEs(t))
     /\ DOMAIN ctes = 1..n /\ ctes \in Seq({ctes[i] : i \in 1..n})
     /\ \A c \in DeclaredCTEs(t) : \E i \in 1..n : order[i] = c
     /\ \A i, j \in 1..n : order[i] = order[j] => i = j
     /\ \A i \in 1..n :
          /\ ctes[i].at = order[i].name /\ ctes[i].end = order[i].end
          /\ ctes[i].shape = ExtractQueryColumnFacts(t, order[i].query)
          /\ ctes[i].refs \subseteq FromTokens(t)
          /\ \A x \in ctes[i].refs : Key(t, x) = Key(t, ctes[i].at)
     /\ \A i, j \in 1..n : \A x \in ctes[i].refs \cap ctes[j].refs : i = j

(* The index of CTEs has each CTE once.                                    *)
LEMMA CTEIndexIs ==
  ASSUME NEW t, IsText(t)
  PROVE  \E order : IndexesCTEs(t, ExtractCTEIndex(t), order)
  <1> DEFINE Q == Queries(t)
             D == DOMAIN Queries(t)
             scopes == CTEScopes(t)
             bound == [x \in FromTokens(t) |->
                         LET q == CHOOSE q \in D :
                                    \E i \in TableNames(Q[q]) : Q[q].from[i].path[1] = x
                         IN Lookup(scopes[q], Key(t, x))]
             declared == DeclaredCTEs(t)
             place == [c \in declared |-> c.end]
             order == InOrder(declared, place)
             n == Len(order)
             binding(cte) ==
               [at |-> cte.name, end |-> cte.end,
                refs |-> {x \in DOMAIN bound : bound[x] = cte.name},
                shape |-> ExtractQueryColumnFacts(t, cte.query)]
             ctes == [i \in DOMAIN order |-> binding(order[i])]
  <1>1. ExtractCTEIndex(t) = ctes
    BY DEF ExtractCTEIndex, FromTokens, DeclaredCTEs
  <1>2. /\ order \in Seq(declared)
        /\ \A c \in declared : \E i \in DOMAIN order : order[i] = c
        /\ \A i, j \in DOMAIN order : order[i] = order[j] => i = j
    <2>1. place \in [declared -> Nat] /\ \A x, y \in declared : place[x] = place[y] => x = y
      BY DeclaredCTEsAre
    <2>2. IsFiniteSet(declared)
      BY DeclaredCTEsAre
    <2>. HIDE DEF declared, place
    <2>3. QED
      BY <2>1, <2>2, InOrderSorts
  <1>3. \A x \in FromTokens(t) : bound[x] # NoToken => Key(t, bound[x]) = Key(t, x)
    <2>1. ASSUME NEW x \in FromTokens(t), bound[x] # NoToken PROVE Key(t, bound[x]) = Key(t, x)
      <3> DEFINE named(q) == \E i \in TableNames(Q[q]) : Q[q].from[i].path[1] = x
                 q == CHOOSE q \in D : named(q)
      <3>1. bound[x] = Lookup(scopes[q], Key(t, x))
        OBVIOUS
      <3>2. q \in D
        <4>1. \E r \in D : named(r)
          BY DEF FromTokens
        <4>. HIDE DEF named
        <4>2. QED
          BY <4>1
      <3>. HIDE DEF q, bound
      <3>3. scopes[q] \in Scopes(t, Marked(t, {"cte"}))
        BY <3>2, CTEScopesAre
      <3>4. QED
        BY <2>1, <3>1, <3>3, LookupIs
    <2>2. QED
      BY <2>1
  <1>. HIDE DEF order, declared, bound
  <1>4. n \in Nat /\ DOMAIN order = 1..n /\ \A i \in 1..n : order[i] \in declared
    BY <1>2
  <1>5. DOMAIN bound = FromTokens(t)
    BY DEF bound
  <1>6. ASSUME NEW i \in 1..n
        PROVE  /\ ctes[i].at = order[i].name /\ ctes[i].end = order[i].end
               /\ ctes[i].shape = ExtractQueryColumnFacts(t, order[i].query)
               /\ ctes[i].refs = {x \in FromTokens(t) : bound[x] = order[i].name}
               /\ ctes[i].refs \subseteq FromTokens(t)
               /\ \A x \in ctes[i].refs : Key(t, x) = Key(t, ctes[i].at)
    <2>1. ctes[i] = binding(order[i])
      BY <1>4
    <2>2. order[i].name # NoToken
      BY <1>4, DeclaredCTEsAre, TextTypes DEF declared
    <2>. HIDE DEF ctes
    <2>3. /\ ctes[i].at = order[i].name /\ ctes[i].end = order[i].end
          /\ ctes[i].shape = ExtractQueryColumnFacts(t, order[i].query)
          /\ ctes[i].refs = {x \in FromTokens(t) : bound[x] = order[i].name}
      BY <1>5, <2>1
    <2>4. QED
      BY <1>3, <2>2, <2>3
  <1>7. DOMAIN ctes = 1..n /\ ctes \in Seq({ctes[i] : i \in 1..n})
    <2>1. DOMAIN ctes = 1..n /\ ctes = [i \in 1..n |-> ctes[i]]
      BY <1>4
    <2>. HIDE DEF ctes, n
    <2>2. ctes \in [1..n -> {ctes[i] : i \in 1..n}]
      BY <2>1
    <2> DEFINE V == {ctes[i] : i \in 1..n}
    <2>3. n \in Nat /\ ctes \in [1..n -> V]
      BY <1>4, <2>2
    <2>. HIDE DEF V
    <2>4. ctes \in Seq(V)
      BY <2>3
    <2>5. QED
      BY <2>1, <2>4 DEF V
  <1>8. ASSUME NEW i \in 1..n, NEW j \in 1..n, NEW x \in ctes[i].refs \cap ctes[j].refs
        PROVE  i = j
    <2>. HIDE DEF ctes
    <2>1. order[i].name = order[j].name
      BY <1>6
    <2>2. order[i] = order[j]
      BY <1>4, <2>1, DeclaredCTEsAre DEF declared
    <2>3. QED
      BY <1>2, <1>4, <2>2
  <1>. HIDE DEF ctes, n
  <1>9. /\ DOMAIN ctes = 1..n /\ Len(order) = n /\ ctes \in Seq({ctes[i] : i \in 1..n})
        /\ \A c \in DeclaredCTEs(t) : \E i \in 1..n : order[i] = c
        /\ \A i, j \in 1..n : order[i] = order[j] => i = j
        /\ \A i, j \in 1..n : \A x \in ctes[i].refs \cap ctes[j].refs : i = j
    BY <1>2, <1>4, <1>7, <1>8 DEF declared, n
  <1>10. order \in Seq(DeclaredCTEs(t))
    BY <1>2 DEF declared
  <1>11. \A i \in 1..n :
           /\ ctes[i].at = order[i].name /\ ctes[i].end = order[i].end
           /\ ctes[i].shape = ExtractQueryColumnFacts(t, order[i].query)
           /\ ctes[i].refs \subseteq FromTokens(t)
           /\ \A x \in ctes[i].refs : Key(t, x) = Key(t, ctes[i].at)
    BY <1>6
  <1>12. IndexesCTEs(t, ctes, order)
    BY <1>9, <1>10, <1>11 DEF IndexesCTEs
  <1>13. QED
    BY <1>1, <1>12

(***************************************************************************)
(* The outline                                                             *)
(***************************************************************************)
(* Ranges that begin at different places, one inside another or one after  *)
(* another.                                                                *)
Nested(B) ==
  /\ \A b \in B : b.at \in Nat /\ b.end \in Nat /\ b.at < b.end
  /\ \A a, b \in B : a.at = b.at => a = b
  /\ \A a, b \in B : a.at < b.at => b.end < a.end \/ a.end < b.at

(* A sequence of the ranges of T, each once, in the order of their starts. *)
Ascending(s, T) ==
  /\ s \in Seq(T)
  /\ \A b \in T : \E k \in DOMAIN s : s[k] = b
  /\ \A k, l \in DOMAIN s : k < l => s[k].at < s[l].at

(* Of a stack of the ranges around prev, those around the next one remain. *)
LEMMA ContainingIs ==
  ASSUME NEW B, Nested(B), NEW prev \in B, NEW c \in B, prev.at < c.at,
         NEW s, Ascending(s, {b \in B : RangeContains(b, prev)})
  PROVE  Ascending(Containing(s, c), {b \in B : RangeContains(b, prev) /\ RangeContains(b, c)})
  <1> DEFINE N == Len(s)
             I == {i \in 1..N : RangeContains(s[i], c)}
             m == IF I # {} THEN Max(I) ELSE 0
             open == SubSeq(s, 1, m)
             T == {b \in B : RangeContains(b, prev)}
             U == {b \in B : RangeContains(b, prev) /\ RangeContains(b, c)}
  <1>1. Containing(s, c) = open
    BY DEF Containing, SelectLastInSeq
  <1>2. s \in Seq(T)
    BY DEF Ascending
  <1>3. N \in Nat /\ DOMAIN s = 1..N /\ \A k \in 1..N : s[k] \in T
    <2>. HIDE DEF T
    <2>1. QED
      BY <1>2
  <1>4. \A k \in 1..N : s[k] \in B /\ RangeContains(s[k], prev)
    <2>. HIDE DEF N
    <2>1. QED
      BY <1>3
  <1>5. /\ \A k, l \in 1..N : k < l => s[k].at < s[l].at
        /\ \A b \in T : \E k \in 1..N : s[k] = b
    BY <1>3 DEF Ascending
  <1>. HIDE DEF N, T
  <1>6. ASSUME NEW k \in 1..N, NEW l \in 1..N, k <= l, RangeContains(s[l], c)
        PROVE  RangeContains(s[k], c)
    <2>1. CASE k = l
      BY <1>6, <2>1
    <2>2. CASE k < l
      <3>1. /\ s[k] \in B /\ s[l] \in B /\ s[k].at < s[l].at
            /\ RangeContains(s[k], prev) /\ RangeContains(s[l], prev)
        BY <1>4, <1>5, <2>2
      <3>2. /\ s[k].at \in Nat /\ s[k].end \in Nat /\ s[l].at \in Nat /\ s[l].end \in Nat
            /\ prev.at \in Nat /\ prev.end \in Nat /\ prev.at < prev.end
            /\ c.at \in Nat /\ c.end \in Nat
            /\ s[l].end < s[k].end \/ s[k].end < s[l].at
        BY <3>1 DEF Nested
      <3>3. QED
        BY <1>6, <3>1, <3>2 DEF RangeContains
    <2>3. QED
      BY <1>3, <1>6, <2>1, <2>2
  <1>7. m \in 0..N /\ \A k \in 1..N : k <= m <=> RangeContains(s[k], c)
    <2>1. CASE I = {}
      BY <1>3, <2>1
    <2>2. CASE I # {}
      <3>1. I \subseteq 0..N
        BY <1>3
      <3>2. Max(I) \in I /\ \A y \in I : y <= Max(I)
        <4>. HIDE DEF I
        <4> QED
          BY <1>3, <2>2, <3>1, HasMax
      <3>3. m = Max(I)
        BY <2>2
      <3>. HIDE DEF m
      <3>4. m \in 1..N /\ RangeContains(s[m], c) /\ \A k \in 1..N : RangeContains(s[k], c) => k <= m
        BY <3>2, <3>3
      <3>5. \A k \in 1..N : k <= m => RangeContains(s[k], c)
        BY <1>6, <3>4
      <3>6. m \in 0..N
        BY <1>3, <3>4
      <3>7. QED
        BY <3>4, <3>5, <3>6
    <2>3. QED
      BY <2>1, <2>2
  <1>. HIDE DEF m
  <1>8. DOMAIN open = 1..m /\ open \in [1..m -> T] /\ \A k \in 1..m : k \in 1..N /\ open[k] = s[k]
    <2>1. 1..m \subseteq 1..N
      BY <1>3, <1>7
    <2>2. open = [k \in 1..m |-> s[k]]
      BY <1>2, <1>3, <1>7
    <2>. HIDE DEF open
    <2>3. QED
      BY <1>3, <2>1, <2>2
  <1>. HIDE DEF open
  <1>9. \A k \in 1..m : open[k] \in U
    <2>1. ASSUME NEW k \in 1..m PROVE open[k] \in U
      <3>1. k \in 1..N /\ open[k] = s[k] /\ k <= m
        BY <1>7, <1>8
      <3>2. RangeContains(s[k], c) /\ RangeContains(s[k], prev) /\ s[k] \in B
        BY <1>4, <1>7, <3>1
      <3>3. QED
        BY <3>1, <3>2
    <2>2. QED
      BY <2>1
  <1>10. \A b \in U : \E k \in 1..m : open[k] = b
    <2>1. ASSUME NEW b \in U PROVE \E k \in 1..m : open[k] = b
      <3>1. b \in T /\ RangeContains(b, c)
        BY DEF T
      <3>2. PICK k \in 1..N : s[k] = b
        BY <1>5, <3>1
      <3>3. k <= m
        BY <1>7, <3>1, <3>2
      <3>4. k \in 1..m
        BY <1>7, <3>3
      <3>5. QED
        BY <1>8, <3>2, <3>4
    <2>2. QED
      BY <2>1
  <1>11. \A k, l \in 1..m : k < l => open[k].at < open[l].at
    BY <1>5, <1>8
  <1>12. open \in Seq(U)
    <2>. HIDE DEF U
    <2>1. m \in Nat
      BY <1>7
    <2>2. open \in [1..m -> U]
      BY <1>8, <1>9
    <2>3. QED
      BY <2>1, <2>2
  <1>13. Ascending(open, U)
    <2>. HIDE DEF U
    <2> QED
      BY <1>8, <1>10, <1>11, <1>12 DEF Ascending
  <1>14. QED
    BY <1>1, <1>13

(* With the next range on top, the stack has the ranges around it.         *)
LEMMA PushIs ==
  ASSUME NEW B, Nested(B), NEW c \in B,
         NEW open, Ascending(open, {b \in B : b # c /\ RangeContains(b, c)})
  PROVE  Ascending(Append(open, c), {b \in B : RangeContains(b, c)})
  <1> DEFINE U == {b \in B : b # c /\ RangeContains(b, c)}
             T == {b \in B : RangeContains(b, c)}
             s == Append(open, c)
  <1>1. \A b \in U : b \in T /\ b.at < c.at
    <2>1. ASSUME NEW b \in U PROVE b \in T /\ b.at < c.at
      <3>1. b.at \in Nat /\ c.at \in Nat /\ b.at # c.at /\ b.at <= c.at
        BY DEF Nested, RangeContains
      <3>2. QED
        BY <3>1
    <2>2. QED
      BY <2>1
  <1>2. c \in T /\ \A b \in T : b = c \/ b \in U
    BY DEF Nested, RangeContains
  <1>3. open \in Seq(U)
    BY DEF Ascending
  <1>. HIDE DEF U, T
  <1>4. Len(open) \in Nat /\ DOMAIN open = 1..Len(open) /\ \A k \in 1..Len(open) : open[k] \in U
    BY <1>3
  <1>5. /\ \A b \in U : \E k \in 1..Len(open) : open[k] = b
        /\ \A k, l \in 1..Len(open) : k < l => open[k].at < open[l].at
    BY <1>4 DEF Ascending, U
  <1>6. /\ DOMAIN s = 1..(Len(open) + 1) /\ s[Len(open) + 1] = c
        /\ \A k \in 1..Len(open) : k \in DOMAIN s /\ s[k] = open[k]
        /\ s \in Seq(T)
    <2>1. U \subseteq T
      BY <1>1
    <2>2. open \in Seq(T)
      BY <1>3, <1>4, <2>1
    <2>3. QED
      BY <1>2, <1>4, <2>2
  <1>. HIDE DEF s
  <1>7. ASSUME NEW b \in T PROVE \E k \in DOMAIN s : s[k] = b
    <2>1. CASE b = c
      <3>1. Len(open) + 1 \in DOMAIN s
        BY <1>4, <1>6
      <3>2. QED
        BY <1>6, <2>1, <3>1
    <2>2. CASE b \in U
      BY <1>5, <1>6, <2>2
    <2>3. QED
      BY <1>2, <2>1, <2>2
  <1>8. ASSUME NEW k \in DOMAIN s, NEW l \in DOMAIN s, k < l PROVE s[k].at < s[l].at
    <2>1. k \in 1..Len(open)
      BY <1>4, <1>6, <1>8
    <2>2. CASE l \in 1..Len(open)
      BY <1>5, <1>6, <1>8, <2>1, <2>2
    <2>3. CASE l = Len(open) + 1
      BY <1>1, <1>4, <1>6, <2>1, <2>3
    <2>4. QED
      BY <1>4, <1>6, <2>2, <2>3
  <1>9. Ascending(s, T)
    BY <1>6, <1>7, <1>8 DEF Ascending
  <1>10. QED
    BY <1>9 DEF s, T

(* The stack, after each range, has the ranges around it.                  *)
LEMMA StackIs ==
  ASSUME NEW B, Nested(B), NEW sorted, Ascending(sorted, B), NEW stack,
         stack[0] = << >>,
         \A i \in 1..Len(sorted) :
           stack[i] = Append(Containing(stack[i - 1], sorted[i]), sorted[i])
  PROVE  \A i \in 1..Len(sorted) :
           Ascending(Containing(stack[i - 1], sorted[i]),
                     {b \in B : b # sorted[i] /\ RangeContains(b, sorted[i])})
  <1> DEFINE n == Len(sorted)
             Open(i) == Containing(stack[i - 1], sorted[i])
             Around(i) == {b \in B : b # sorted[i] /\ RangeContains(b, sorted[i])}
             Held(i) == {b \in B : RangeContains(b, sorted[i])}
             S == {i \in 0..n : i # 0 => Ascending(Open(i), Around(i))}
  <1>1. /\ n \in Nat /\ DOMAIN sorted = 1..n /\ \A i \in 1..n : sorted[i] \in B
        /\ \A b \in B : \E k \in 1..n : sorted[k] = b
        /\ \A i, j \in 1..n : i < j => sorted[i].at < sorted[j].at
    <2>1. sorted \in Seq(B)
      BY DEF Ascending
    <2>2. n \in Nat /\ DOMAIN sorted = 1..n /\ \A i \in 1..n : sorted[i] \in B
      BY <2>1
    <2>. HIDE DEF n
    <2>3. QED
      BY <2>2 DEF Ascending
  <1>. HIDE DEF n
  <1>2. 0 \in S
    BY <1>1
  <1>3. ASSUME NEW i \in 1..n, i - 1 \in S PROVE i \in S
    <2>1. sorted[i] \in B
      BY <1>1
    <2>2. CASE i = 1
      <3>1. Open(i) = << >>
        <4>1. stack[i - 1] = << >>
          BY <2>2
        <4>2. {k \in 1..Len(<< >>) : RangeContains(<< >>[k], sorted[i])} = {}
          OBVIOUS
        <4>3. Containing(<< >>, sorted[i]) = SubSeq(<< >>, 1, 0)
          BY <4>2 DEF Containing, SelectLastInSeq
        <4>4. SubSeq(<< >>, 1, 0) = << >>
          OBVIOUS
        <4>5. QED
          BY <4>1, <4>3, <4>4
      <3>2. Around(i) = {}
        <4>1. ASSUME NEW b \in B, b # sorted[i], RangeContains(b, sorted[i]) PROVE FALSE
          <5>1. PICK k \in 1..n : sorted[k] = b
            BY <1>1
          <5>2. k = i \/ sorted[i].at < b.at
            BY <1>1, <2>2, <5>1
          <5>3. b.at \in Nat /\ sorted[i].at \in Nat
            BY <2>1 DEF Nested
          <5>4. QED
            BY <4>1, <5>1, <5>2, <5>3 DEF RangeContains
        <4>2. QED
          BY <4>1
      <3>3. Ascending(<< >>, {})
        BY DEF Ascending
      <3>. HIDE DEF Open, Around
      <3>4. Ascending(Open(i), Around(i))
        BY <3>1, <3>2, <3>3
      <3>5. QED
        BY <1>1, <3>4
    <2>3. CASE i # 1
      <3>1. i - 1 \in 1..n /\ sorted[i - 1] \in B
        BY <1>1, <2>3
      <3>2. Ascending(Open(i - 1), Around(i - 1))
        BY <1>3, <3>1
      <3>3. Ascending(Append(Open(i - 1), sorted[i - 1]), Held(i - 1))
        <4>. HIDE DEF Open
        <4> QED
          BY <3>1, <3>2, PushIs
      <3>4. stack[i - 1] = Append(Open(i - 1), sorted[i - 1])
        BY <3>1 DEF n
      <3>5. sorted[i - 1].at < sorted[i].at
        BY <1>1, <3>1
      <3> DEFINE U == {b \in B : RangeContains(b, sorted[i - 1]) /\ RangeContains(b, sorted[i])}
      <3>6. Ascending(Open(i), U)
        <4>1. Ascending(stack[i - 1], Held(i - 1))
          <5>. HIDE DEF Open, Held
          <5> QED
            BY <3>3, <3>4
        <4> DEFINE prev == sorted[i - 1]
                   next == sorted[i]
                   held == stack[i - 1]
        <4>2. prev \in B /\ next \in B /\ prev.at < next.at
          BY <2>1, <3>1, <3>5
        <4>3. Ascending(held, {b \in B : RangeContains(b, prev)})
          BY <4>1
        <4>. HIDE DEF prev, next, held
        <4>4. Ascending(Containing(held, next), {b \in B : RangeContains(b, prev) /\ RangeContains(b, next)})
          BY <4>2, <4>3, ContainingIs
        <4>5. QED
          BY <4>4 DEF prev, next, held
      <3>7. U = Around(i)
        <4>1. ASSUME NEW b \in B
              PROVE  (RangeContains(b, sorted[i - 1]) /\ RangeContains(b, sorted[i]))
                       <=> (b # sorted[i] /\ RangeContains(b, sorted[i]))
          <5>1. PICK k \in 1..n : sorted[k] = b
            BY <1>1
          <5>2. /\ b.at \in Nat /\ b.end \in Nat /\ b.at < b.end
                /\ sorted[i].at \in Nat /\ sorted[i].end \in Nat /\ sorted[i].at < sorted[i].end
                /\ sorted[i - 1].at \in Nat /\ sorted[i - 1].end \in Nat
                /\ b.at < sorted[i - 1].at =>
                     sorted[i - 1].end < b.end \/ b.end < sorted[i - 1].at
            BY <2>1, <3>1 DEF Nested
          <5>3. RangeContains(b, sorted[i - 1]) => b # sorted[i]
            BY <3>5, <5>2 DEF RangeContains
          <5>4. ASSUME b # sorted[i], RangeContains(b, sorted[i])
                PROVE  RangeContains(b, sorted[i - 1])
            <6>1. k < i
              <7>1. CASE i < k
                <8>1. sorted[i].at < b.at
                  BY <1>1, <5>1, <7>1
                <8>2. QED
                  BY <5>2, <5>4, <8>1 DEF RangeContains
              <7>2. QED
                BY <5>1, <5>4, <7>1
            <6>2. CASE k = i - 1
              BY <5>1, <5>2, <6>2 DEF RangeContains
            <6>3. CASE k # i - 1
              <7>1. b.at < sorted[i - 1].at
                <8>1. k < i - 1
                  BY <6>1, <6>3
                <8>2. QED
                  BY <1>1, <3>1, <5>1, <8>1
              <7>2. QED
                BY <3>5, <5>2, <5>4, <7>1 DEF RangeContains
            <6>4. QED
              BY <6>2, <6>3
          <5>5. QED
            BY <5>3, <5>4
        <4>2. QED
          BY <4>1
      <3>. HIDE DEF Open, Around, U
      <3>8. Ascending(Open(i), Around(i))
        BY <3>6, <3>7
      <3>9. QED
        BY <1>1, <3>8
    <2>4. QED
      BY <2>2, <2>3
  <1>4. \A i \in 0..n : i \in S
    <2>1. \A i \in 1..n : i - 1 \in S => i \in S
      BY <1>3
    <2>. HIDE DEF S
    <2>2. QED
      BY <1>1, <1>2, <2>1, UpTo
  <1>5. ASSUME NEW i \in 1..n PROVE Ascending(Open(i), Around(i))
    <2>1. i \in 0..n /\ i # 0
      BY <1>1
    <2>. HIDE DEF Open, Around
    <2>2. QED
      BY <1>4, <2>1
  <1>6. QED
    BY <1>5 DEF n

(* A range is listed under the last to begin of those around it.           *)
LEMMA ParentIs ==
  ASSUME NEW ctes, Nested(ToSet(ctes)), IsFiniteSet(ToSet(ctes)), NEW b \in ToSet(ctes)
  PROVE  LET around == {a \in ToSet(ctes) : a # b /\ RangeContains(a, b)}
         IN CTEParents(ctes)[b.at] =
              IF around = {} THEN NoToken ELSE Max({a.at : a \in around})
  <1> DEFINE B == ToSet(ctes)
             place == [c \in B |-> c.at]
             sorted == InOrder(B, place)
             n == Len(sorted)
             Is(f) == f = [i \in 0..n |-> IF i = 0 THEN << >>
                                          ELSE Append(Containing(f[i - 1], sorted[i]), sorted[i])]
             stack == CHOOSE f : Is(f)
             Open(i) == Containing(stack[i - 1], sorted[i])
             parent(i) == IF Open(i) = << >> THEN NoToken ELSE Last(Open(i)).at
             Here(i) == sorted[i].at = b.at
             j == CHOOSE i \in DOMAIN sorted : Here(i)
  <1>1. CTEParents(ctes)[b.at] = parent(j)
    <2>1. b.at \in {c.at : c \in B}
      OBVIOUS
    <2>2. CTEParents(ctes) =
            [x \in {c.at : c \in B} |-> parent(CHOOSE i \in DOMAIN sorted : sorted[i].at = x)]
      BY DEF CTEParents
    <2>. HIDE DEF parent, sorted
    <2>3. QED
      BY <2>1, <2>2
  <1>2. /\ sorted \in Seq(B) /\ n \in Nat /\ DOMAIN sorted = 1..n
        /\ \A i \in 1..n : sorted[i] \in B
        /\ \A x \in B : \E i \in 1..n : sorted[i] = x
        /\ \A i, k \in 1..n : i < k => sorted[i].at < sorted[k].at
    <2>1. place \in [B -> Nat] /\ \A x, y \in B : place[x] = place[y] => x = y
      BY DEF Nested
    <2>2. \A x \in B : place[x] = x.at
      OBVIOUS
    <2>. HIDE DEF place, B
    <2>3. /\ sorted \in Seq(B)
          /\ \A x \in B : \E i \in DOMAIN sorted : sorted[i] = x
          /\ \A i, k \in DOMAIN sorted : i < k => place[sorted[i]] < place[sorted[k]]
      BY <2>1, InOrderSorts DEF B
    <2>. HIDE DEF sorted
    <2>4. n \in Nat /\ DOMAIN sorted = 1..n /\ \A i \in 1..n : sorted[i] \in B
      BY <2>3
    <2>5. QED
      BY <2>2, <2>3, <2>4
  <1>. HIDE DEF sorted
  <1>3. Ascending(sorted, B)
    BY <1>2 DEF Ascending
  <1>4. Is(stack)
    <2> DEFINE V == Seq(B)
               push(i, s) == Append(Containing(s, sorted[i]), sorted[i])
               step == [i \in 1..n |-> [s \in V |-> push(i, s)]]
    <2>1. ASSUME NEW i \in 1..n, NEW s \in V PROVE push(i, s) \in V
      <3> DEFINE I == {k \in 1..Len(s) : RangeContains(s[k], sorted[i])}
                 m == IF I # {} THEN Max(I) ELSE 0
      <3>1. Containing(s, sorted[i]) = SubSeq(s, 1, m)
        BY DEF Containing, SelectLastInSeq
      <3>2. m \in 0..Len(s)
        <4>1. CASE I = {}
          BY <4>1
        <4>2. CASE I # {}
          <5>1. I \subseteq 0..Len(s) /\ Len(s) \in Nat
            OBVIOUS
          <5>2. Max(I) \in I
            <6>. HIDE DEF I
            <6> QED
              BY <4>2, <5>1, HasMax
          <5>3. QED
            BY <4>2, <5>1, <5>2
        <4>3. QED
          BY <4>1, <4>2
      <3>. HIDE DEF m
      <3>3. SubSeq(s, 1, m) \in Seq(B)
        <4>. HIDE DEF B
        <4> QED
          BY <3>2
      <3>4. sorted[i] \in B
        BY <1>2
      <3>. HIDE DEF B
      <3>5. QED
        BY <3>1, <3>3, <3>4
    <2>2. step \in [1..n -> [V -> V]] /\ << >> \in V
      <3>. HIDE DEF push
      <3>1. step \in [1..n -> [V -> V]]
        <4>. HIDE DEF V
        <4> QED
          BY <2>1
      <3>2. QED
        BY <3>1
    <2>3. PICK f \in [0..n -> V] : FollowsSteps(f, n, << >>, step)
      <3>. HIDE DEF V, step, n
      <3> QED
        BY <1>2, <2>2, Recursion
    <2>4. ASSUME NEW i \in 0..n PROVE f[i] = IF i = 0 THEN << >> ELSE push(i, f[i - 1])
      <3>1. CASE i = 0
        BY <2>3, <3>1 DEF FollowsSteps
      <3>2. CASE i # 0
        <4>1. i \in 1..n /\ i - 1 \in 0..n
          BY <1>2, <3>2
        <4>2. f[i] = step[i][f[i - 1]] /\ f[i - 1] \in V
          <5>. HIDE DEF step, V
          <5> QED
            BY <2>3, <4>1 DEF FollowsSteps
        <4>3. step[i][f[i - 1]] = push(i, f[i - 1])
          <5>. HIDE DEF V, push
          <5> QED
            BY <4>1, <4>2
        <4>. HIDE DEF step, push
        <4>4. QED
          BY <3>2, <4>2, <4>3
      <3>3. QED
        BY <3>1, <3>2
    <2>5. Is(f)
      BY <2>4
    <2>. HIDE DEF Is
    <2>6. QED
      BY <2>5
  <1>. HIDE DEF stack
  <1>5. /\ stack[0] = << >>
        /\ \A i \in 1..n : stack[i] = Append(Containing(stack[i - 1], sorted[i]), sorted[i])
    <2> DEFINE next(i) == Append(Containing(stack[i - 1], sorted[i]), sorted[i])
    <2>1. stack = [i \in 0..n |-> IF i = 0 THEN << >> ELSE next(i)]
      BY <1>4
    <2>. HIDE DEF next, n
    <2>2. stack[0] = << >> /\ \A i \in 1..n : stack[i] = next(i)
      <3>1. 0 \in 0..n /\ \A i \in 1..n : i \in 0..n /\ i # 0
        BY <1>2 DEF n
      <3>2. QED
        BY <2>1, <3>1
    <2>3. QED
      BY <2>2 DEF next
  <1>6. /\ j \in 1..n /\ sorted[j] = b
    <2>1. \E i \in DOMAIN sorted : Here(i)
      BY <1>2
    <2>. HIDE DEF Here
    <2>2. j \in DOMAIN sorted /\ Here(j)
      BY <2>1
    <2>. HIDE DEF j
    <2>3. QED
      BY <1>2, <2>2 DEF Here, Nested
  <1>. HIDE DEF j
  <1> DEFINE around == {a \in B : a # b /\ RangeContains(a, b)}
             s == Open(j)
  <1>7. Ascending(s, around)
    <2>1. \A i \in 1..n :
            Ascending(Open(i), {a \in B : a # sorted[i] /\ RangeContains(a, sorted[i])})
      BY <1>3, <1>5, StackIs
    <2>2. Ascending(Open(j), {a \in B : a # sorted[j] /\ RangeContains(a, sorted[j])})
      <3>. HIDE DEF Open
      <3> QED
        BY <1>6, <2>1
    <2>. HIDE DEF Open
    <2>3. QED
      BY <1>6, <2>2
  <1>8. parent(j) = IF s = << >> THEN NoToken ELSE Last(s).at
    OBVIOUS
  <1>9. \A a \in around : a.at \in Nat
    BY DEF Nested
  <1>. HIDE DEF s, around, parent
  <1>10. /\ s \in Seq(around) /\ Len(s) \in Nat /\ DOMAIN s = 1..Len(s)
         /\ \A k \in 1..Len(s) : s[k] \in around
         /\ \A a \in around : \E k \in 1..Len(s) : s[k] = a
         /\ \A k, l \in 1..Len(s) : k < l => s[k].at < s[l].at
    BY <1>7 DEF Ascending
  <1>11. CASE Len(s) = 0
    <2>1. s = << >> /\ around = {}
      BY <1>10, <1>11
    <2>2. QED
      BY <1>1, <1>8, <2>1 DEF around
  <1>12. CASE Len(s) # 0
    <2>1. Len(s) \in 1..Len(s) /\ s # << >> /\ around # {} /\ s[Len(s)] \in around
      BY <1>10, <1>12
    <2> DEFINE top == s[Len(s)].at
    <2>2. top \in {a.at : a \in around} /\ {a.at : a \in around} \subseteq Int
      BY <1>9, <2>1
    <2>3. ASSUME NEW y \in {a.at : a \in around} PROVE y <= top
      <3>1. PICK a \in around : y = a.at
        OBVIOUS
      <3>2. PICK k \in 1..Len(s) : s[k] = a
        BY <1>10
      <3>3. k = Len(s) \/ k < Len(s)
        BY <1>10
      <3>4. a.at \in Nat /\ top \in Nat
        BY <1>9, <2>1
      <3>5. a.at = top \/ a.at < top
        BY <1>10, <2>1, <3>2, <3>3
      <3>6. QED
        BY <3>1, <3>4, <3>5
    <2>4. Max({a.at : a \in around}) = top
      <3> DEFINE T == {a.at : a \in around}
      <3>. HIDE DEF T, top
      <3>1. Max(T) = top
        BY <2>2, <2>3, MaxIs DEF T
      <3>2. QED
        BY <3>1 DEF T
    <2>5. QED
      BY <1>1, <1>8, <2>1, <2>4 DEF Last, around
  <1>13. QED
    BY <1>11, <1>12

(* In the index of a text, CTEs are nested.                                *)
LEMMA OutlineOfText ==
  ASSUME NEW t, IsText(t), NEW b \in ToSet(ExtractCTEIndex(t))
  PROVE  LET ctes == ExtractCTEIndex(t)
             around == {a \in ToSet(ctes) : a # b /\ RangeContains(a, b)}
         IN CTEParents(ctes)[b.at] =
              IF around = {} THEN NoToken ELSE Max({a.at : a \in around})
  <1> DEFINE ctes == ExtractCTEIndex(t)
  <1>1. PICK order : IndexesCTEs(t, ctes, order)
    BY CTEIndexIs
  <1>. HIDE DEF ctes
  <1> DEFINE n == Len(order)
  <1>2. /\ DOMAIN ctes = 1..n /\ n \in Nat
        /\ \A i \in 1..n : /\ order[i] \in DeclaredCTEs(t)
                           /\ ctes[i].at = order[i].name /\ ctes[i].end = order[i].end
        /\ \A i, j \in 1..n : order[i] = order[j] => i = j
    BY <1>1 DEF IndexesCTEs
  <1>. HIDE DEF n
  <1>3. \A a \in ToSet(ctes) : \E i \in 1..n : a = ctes[i]
    BY <1>2 DEF ToSet
  <1>4. /\ \A c \in DeclaredCTEs(t) : c.name \in Nat /\ c.end \in Nat /\ c.name < c.end
        /\ \A c, d \in DeclaredCTEs(t) : c.name = d.name => c = d
        /\ \A c, d \in DeclaredCTEs(t) : c.name < d.name => d.end < c.end \/ c.end < d.name
    BY DeclaredCTEsAre, TextTypes
  <1>5. Nested(ToSet(ctes))
    <2>1. ASSUME NEW a \in ToSet(ctes) PROVE a.at \in Nat /\ a.end \in Nat /\ a.at < a.end
      BY <1>2, <1>3, <1>4
    <2>2. ASSUME NEW a \in ToSet(ctes), NEW c \in ToSet(ctes)
          PROVE  /\ a.at = c.at => a = c
                 /\ a.at < c.at => c.end < a.end \/ a.end < c.at
      <3>1. PICK i \in 1..n : a = ctes[i]
        BY <1>3
      <3>2. PICK j \in 1..n : c = ctes[j]
        BY <1>3
      <3> DEFINE d == order[i]
                 e == order[j]
      <3>3. /\ d \in DeclaredCTEs(t) /\ e \in DeclaredCTEs(t)
            /\ a.at = d.name /\ a.end = d.end /\ c.at = e.name /\ c.end = e.end
            /\ d = e => i = j
        BY <1>2, <3>1, <3>2
      <3>. HIDE DEF d, e
      <3>4. a.at = c.at => a = c
        BY <1>4, <3>1, <3>2, <3>3
      <3>5. a.at < c.at => c.end < a.end \/ a.end < c.at
        BY <1>4, <3>3
      <3>6. QED
        BY <3>4, <3>5
    <2>3. QED
      BY <2>1, <2>2 DEF Nested
  <1>6. IsFiniteSet(ToSet(ctes))
    <2>1. ToSet(ctes) = {ctes[i] : i \in 1..n}
      BY <1>2 DEF ToSet
    <2>2. IsFiniteSet(1..n)
      BY <1>2, FS_Interval
    <2>3. QED
      BY <1>2, <2>1, <2>2, ImageFinite
  <1>7. QED
    BY <1>5, <1>6, ParentIs DEF ctes

------------------------------------------------------------------------------
(***************************************************************************)
(* Columns of queries                                                      *)
(***************************************************************************)
(* Where the k-th item of SELECT q has its name.                           *)
ResultAt(t, q, k, x) ==
  LET W == Written(Queries(t), Relations(t))
  IN << "as", << q, k >>, x >> \in W \/ \E m : << "item", << << q, k >>, m >>, x >> \in W

LEMMA ResultMarked ==
  ASSUME NEW t, NEW q, NEW k, NEW x, ResultAt(t, q, k, x)
  PROVE  x \in Marked(t, Results)
  BY MarkedHere DEF ResultAt, Results

(* The items of a SELECT are named by their own tokens.                    *)
LEMMA ItemAliasIs ==
  ASSUME NEW t, IsText(t), NEW q \in DOMAIN Queries(t), NEW i \in DOMAIN Queries(t)[q].items,
         SelectItemAlias(Queries(t)[q].items[i]) # NoToken
  PROVE  LET x == SelectItemAlias(Queries(t)[q].items[i])
         IN /\ x \in Tokens(t) /\ ResultAt(t, q, i, x)
            /\ Queries(t)[q].items[i].as # NoToken => x \in Marked(t, {"as"})
  <1> DEFINE item == Queries(t)[q].items[i]
             x == SelectItemAlias(item)
             C == [expr : Seq(Tokens(t)), as : Tokens(t) \cup {NoToken}, star : BOOLEAN]
             W == Written(Queries(t), Relations(t))
  <1>1. item \in C
    <2>1. Queries(t)[q].items \in Seq(C)
      BY QueryTypes
    <2>. HIDE DEF C
    <2>2. QED
      BY <2>1
  <1>2. item.expr \in Seq(Tokens(t)) /\ item.as \in Tokens(t) \cup {NoToken} /\ item.star \in BOOLEAN
    BY <1>1
  <1>3. << "as", << q, i >>, item.as >> \in W /\ Along("item", << q, i >>, item.expr) \subseteq W
    BY QueryTokens
  <1>. HIDE DEF item, W
  <1>4. CASE item.as # NoToken
    <2>1. x = item.as
      BY <1>4 DEF SelectItemAlias
    <2>2. x \in Marked(t, {"as"})
      BY <1>3, <2>1, MarkedHere DEF W
    <2>3. QED
      BY <1>2, <1>3, <1>4, <2>1, <2>2 DEF item, W, ResultAt
  <1>5. CASE item.as = NoToken
    <2>1. ~item.star /\ item.expr # << >>
      <3>1. SUFFICES ASSUME ~(~item.star /\ item.expr # << >>) PROVE FALSE
        OBVIOUS
      <3>2. x = NoToken
        BY <1>2, <1>5, <3>1 DEF SelectItemAlias
      <3>3. QED
        BY <3>2 DEF item
    <2>2. x = item.expr[Len(item.expr)]
      BY <1>5, <2>1 DEF SelectItemAlias, Last
    <2>3. Len(item.expr) \in DOMAIN item.expr
      BY <1>2, <2>1
    <2>4. << "item", << << q, i >>, Len(item.expr) >>, x >> \in W /\ x \in Tokens(t)
      <3>1. << "item", << << q, i >>, Len(item.expr) >>, item.expr[Len(item.expr)] >>
              \in Along("item", << q, i >>, item.expr)
        BY <2>3, TokenAlong
      <3>2. x \in Tokens(t)
        BY <1>2, <2>2, <2>3
      <3>3. QED
        BY <1>3, <2>2, <3>1, <3>2
    <2>5. QED
      BY <1>5, <2>4 DEF item, W, ResultAt
  <1>6. QED
    BY <1>4, <1>5

(* The i-th item of SELECT q is named by a token.                          *)
ItemNamed(t, q, i, x) ==
  /\ q \in DOMAIN Queries(t) /\ i \in DOMAIN Queries(t)[q].items
  /\ x = SelectItemAlias(Queries(t)[q].items[i]) /\ x # NoToken

ItemNames(t) == {x \in Tokens(t) : \E q : \E i : ItemNamed(t, q, i, x)}

LEMMA ItemNamesAre ==
  ASSUME NEW t, IsText(t), NEW q, NEW i, NEW x, ItemNamed(t, q, i, x)
  PROVE  x \in ItemNames(t) /\ x \in Tokens(t) /\ ResultAt(t, q, i, x) /\ x \in Marked(t, Results)
  <1>1. x \in Tokens(t) /\ ResultAt(t, q, i, x)
    BY ItemAliasIs DEF ItemNamed
  <1>2. x \in ItemNames(t)
    BY <1>1 DEF ItemNames
  <1>3. QED
    BY <1>1, <1>2, ResultMarked

(* A sequence of columns, each with the token of a result.                 *)
ShapeOK(t, shape) ==
  \E n \in Nat : /\ DOMAIN shape.columns = 1..n
                 /\ \A k \in 1..n : /\ shape.columns[k].at \in Tokens(t)
                                   /\ shape.columns[k].at \in Marked(t, Results)
                                   /\ shape.columns[k].at \in ItemNames(t)

LEMMA NoColumnsOK ==
  ASSUME NEW t
  PROVE  ShapeOK(t, NoColumns)
  BY DEF ShapeOK, NoColumns

(* The columns of a query are the items of it.                             *)
LEMMA ColumnsAreItems ==
  ASSUME NEW t, IsText(t), NEW q \in DOMAIN Queries(t)
  PROVE  LET columns == ExtractQueryColumnFacts(t, q).columns
         IN /\ \E n \in Nat : DOMAIN columns = 1..n
            /\ \A k \in DOMAIN columns : ItemNamed(t, q, k, columns[k].at)
  <1> DEFINE query == Queries(t)[q]
             items == query.items
             named(i) == SelectItemAlias(items[i])
             known ==
               /\ query.ctes = << >> /\ query.order = {}
               /\ \A i \in DOMAIN items : named(i) # NoToken
               /\ \A i, j \in DOMAIN items : Key(t, named(i)) = Key(t, named(j)) => i = j
             column(i) == [at |-> named(i), explicit |-> items[i].as # NoToken,
                           source |-> QueryColumnSource(items[i])]
             shape == ExtractQueryColumnFacts(t, q)
  <1>1. shape.columns = IF known THEN [i \in DOMAIN items |-> column(i)] ELSE << >>
    BY DEF ExtractQueryColumnFacts
  <1>2. CASE ~known
    <2>1. shape.columns = << >>
      <3>. HIDE DEF known, column
      <3>1. QED
        BY <1>1, <1>2
    <2>2. DOMAIN shape.columns = {} /\ {} = 1..0
      BY <2>1
    <2>. HIDE DEF shape
    <2>3. QED
      BY <2>2 DEF shape
  <1>3. CASE known
    <2>1. shape.columns = [i \in DOMAIN items |-> column(i)]
      <3>. HIDE DEF known, column
      <3>1. QED
        BY <1>1, <1>3
    <2>2. PICK n \in Nat : DOMAIN items = 1..n
      <3>1. items \in Seq([expr : Seq(Tokens(t)), as : Tokens(t) \cup {NoToken}, star : BOOLEAN])
        BY QueryTypes
      <3>2. QED
        BY <3>1
    <2>3. \A i \in DOMAIN items : named(i) # NoToken
      BY <1>3
    <2>4. \A i \in DOMAIN items : ItemNamed(t, q, i, named(i))
      BY <2>3 DEF ItemNamed
    <2>5. \A i \in DOMAIN items : shape.columns[i].at = named(i)
      <3>. HIDE DEF items, named, shape
      <3>1. QED
        BY <2>1
    <2>6. DOMAIN shape.columns = DOMAIN items
      <3>. HIDE DEF items, column, shape
      <3>1. QED
        BY <2>1
    <2>. HIDE DEF shape, items, named
    <2>7. QED
      BY <2>2, <2>4, <2>5, <2>6 DEF shape
  <1>4. QED
    BY <1>2, <1>3

(* So they are results.                                                    *)
LEMMA ColumnFactsOK ==
  ASSUME NEW t, IsText(t), NEW q \in DOMAIN Queries(t)
  PROVE  ShapeOK(t, ExtractQueryColumnFacts(t, q))
  <1> DEFINE shape == ExtractQueryColumnFacts(t, q)
  <1>1. /\ \E n \in Nat : DOMAIN shape.columns = 1..n
        /\ \A k \in DOMAIN shape.columns : ItemNamed(t, q, k, shape.columns[k].at)
    BY ColumnsAreItems
  <1>. HIDE DEF shape
  <1>2. \A k \in DOMAIN shape.columns : /\ shape.columns[k].at \in Tokens(t)
                                        /\ shape.columns[k].at \in Marked(t, Results)
                                        /\ shape.columns[k].at \in ItemNames(t)
    BY <1>1, ItemNamesAre
  <1>3. ShapeOK(t, shape)
    BY <1>1, <1>2 DEF ShapeOK
  <1>4. QED
    BY <1>3 DEF shape

------------------------------------------------------------------------------
(***************************************************************************)
(* Table aliases                                                           *)
(***************************************************************************)
(* The entries of a FROM, and the one of WITH OFFSET.                      *)
Sources(query) == Entries(query) \cup {[kind |-> "offset"]}

(* An alias of an entry, or one of WITH OFFSET.                            *)
AliasOf(query, a) ==
  \/ a.from = [kind |-> "offset"]
  \/ \E k \in DOMAIN query.from : a.from = query.from[k] /\ a.at = query.from[k].as

(* A sequence of an element or none.                                       *)
LEMMA OneOrNone ==
  ASSUME NEW V, NEW a \in V, NEW none \in BOOLEAN
  PROVE  LET u == IF none THEN << >> ELSE << a >>
         IN u \in Seq(V) /\ Len(u) = (IF none THEN 0 ELSE 1) /\ (~none => u[1] = a)
  <1>1. << >> \in Seq(V) /\ << a >> \in Seq(V) /\ Len(<< >>) = 0 /\ Len(<< a >>) = 1
    OBVIOUS
  <1>2. CASE none
    BY <1>1, <1>2
  <1>3. CASE ~none
    BY <1>1, <1>3
  <1>4. QED
    BY <1>2, <1>3

LEMMA Joined ==
  ASSUME NEW V, NEW u \in Seq(V), NEW v \in Seq(V)
  PROVE  /\ Len(u \o v) \in Nat /\ u \o v = [m \in 1..Len(u \o v) |-> (u \o v)[m]]
         /\ Len(u \o v) = Len(u) + Len(v)
         /\ \A m \in 1..Len(u \o v) : (u \o v)[m] = IF m <= Len(u) THEN u[m] ELSE v[m - Len(u)]
  <1>1. u \o v \in Seq(V) /\ Len(u \o v) = Len(u) + Len(v) /\ Len(u) \in Nat /\ Len(v) \in Nat
    OBVIOUS
  <1>2. ASSUME NEW m \in 1..Len(u \o v)
        PROVE  (u \o v)[m] = IF m <= Len(u) THEN u[m] ELSE v[m - Len(u)]
    BY <1>1
  <1> DEFINE p == u \o v
  <1>3. p \in Seq(V)
    BY <1>1
  <1>. HIDE DEF p
  <1>4. Len(p) \in Nat /\ p = [m \in 1..Len(p) |-> p[m]]
    BY <1>3
  <1>5. QED
    BY <1>1, <1>2, <1>4 DEF p

(* The aliases of a FROM, each with its place.                             *)
LEMMA TableAliasesAre ==
  ASSUME NEW t, IsText(t), NEW q \in DOMAIN Queries(t)
  PROVE  LET local == TableAliases(Queries(t)[q])
             n == Len(local)
         IN /\ n \in Nat /\ DOMAIN local = 1..n
            /\ \A i \in 1..n :
                 /\ local[i].at \in Tokens(t) /\ local[i].from \in Sources(Queries(t)[q])
                 /\ AliasOf(Queries(t)[q], local[i])
                 /\ \E tag \in DeclaredAliases, k \in Nat :
                      << tag, << q, k >>, local[i].at >> \in Written(Queries(t), Relations(t))
            /\ \A i, j \in 1..n : local[i].at = local[j].at => i = j
  <1> DEFINE from == Queries(t)[q].from
             W == Written(Queries(t), Relations(t))
             alias(x, table) == IF x = NoToken THEN << >> ELSE << [at |-> x, from |-> table] >>
             offset == [kind |-> "offset"]
             pair(k) == alias(from[k].as, from[k]) \o alias(from[k].offset, offset)
             N == Len(from)
             seqs == [k \in 1..N |-> pair(k)]
             length == [k \in 1..N |-> Len(pair(k))]
             local == TableAliases(Queries(t)[q])
             n == Len(local)
  <1>1. N \in Nat /\ DOMAIN from = 1..N
    <2>1. from \in Seq(Entries(Queries(t)[q]))
      BY QueryTypes
    <2>. HIDE DEF from
    <2>2. QED
      BY <2>1
  <1>2. local = FlattenSeq(seqs)
    BY <1>1 DEF TableAliases
  <1>3. ASSUME NEW k \in 1..N
        PROVE  /\ from[k].as \in Tokens(t) \cup {NoToken} /\ from[k].offset \in Tokens(t) \cup {NoToken}
               /\ << "alias", << q, k >>, from[k].as >> \in W
               /\ << "offset", << q, k >>, from[k].offset >> \in W
    BY <1>1, QueryTypes, QueryTokens
  <1>. HIDE DEF from, W
  \* One entry has an alias, an offset, both or none.
  <1>4. ASSUME NEW k \in 1..N
        PROVE  /\ Len(pair(k)) \in Nat /\ pair(k) = [m \in 1..Len(pair(k)) |-> pair(k)[m]]
               /\ \A m \in 1..Len(pair(k)) :
                    /\ m = 1 \/ (m = 2 /\ from[k].as # NoToken)
                    /\ pair(k)[m].at # NoToken
                    /\ pair(k)[m].from = IF m = 1 /\ from[k].as # NoToken THEN from[k] ELSE offset
                    /\ pair(k)[m].at = IF m = 1 /\ from[k].as # NoToken
                                       THEN from[k].as ELSE from[k].offset
    <2>. HIDE DEF offset
    <2> DEFINE first == [at |-> from[k].as, from |-> from[k]]
               second == [at |-> from[k].offset, from |-> offset]
               p == pair(k)
               u == IF from[k].as = NoToken THEN << >> ELSE << first >>
               v == IF from[k].offset = NoToken THEN << >> ELSE << second >>
    <2>1. p = u \o v
      OBVIOUS
    <2>2. first.at = from[k].as /\ first.from = from[k] /\ second.at = from[k].offset /\ second.from = offset
      OBVIOUS
    <2>. HIDE DEF first, second, p
    <2>3. /\ u \in Seq({first, second}) /\ v \in Seq({first, second})
          /\ Len(u) = (IF from[k].as = NoToken THEN 0 ELSE 1) /\ (from[k].as # NoToken => u[1] = first)
          /\ Len(v) = (IF from[k].offset = NoToken THEN 0 ELSE 1)
          /\ (from[k].offset # NoToken => v[1] = second)
      <3>1. first \in {first, second} /\ second \in {first, second}
            /\ (from[k].as = NoToken) \in BOOLEAN /\ (from[k].offset = NoToken) \in BOOLEAN
        OBVIOUS
      <3>2. QED
        BY <3>1, OneOrNone
    <2>. HIDE DEF u, v
    <2>4. /\ Len(p) \in Nat /\ p = [m \in 1..Len(p) |-> p[m]] /\ Len(p) = Len(u) + Len(v)
          /\ \A m \in 1..Len(p) : p[m] = IF m <= Len(u) THEN u[m] ELSE v[m - Len(u)]
      BY <2>1, <2>3, Joined
    <2>5. ASSUME NEW m \in 1..Len(p)
          PROVE  /\ m = 1 \/ (m = 2 /\ from[k].as # NoToken)
                 /\ p[m].at # NoToken
                 /\ p[m].from = IF m = 1 /\ from[k].as # NoToken THEN from[k] ELSE offset
                 /\ p[m].at = IF m = 1 /\ from[k].as # NoToken THEN from[k].as ELSE from[k].offset
      <3>1. CASE m <= Len(u)
        BY <2>2, <2>3, <2>4, <3>1
      <3>2. CASE ~(m <= Len(u))
        <4>1. m - Len(u) = 1 /\ Len(v) = 1 /\ from[k].offset # NoToken
          BY <2>3, <2>4, <3>2
        <4>2. p[m] = second
          BY <2>3, <2>4, <3>2, <4>1
        <4>3. m = IF from[k].as = NoToken THEN 1 ELSE 2
          BY <2>3, <4>1
        <4>4. QED
          BY <2>2, <4>1, <4>2, <4>3
      <3>3. QED
        BY <3>1, <3>2
    <2>6. QED
      BY <2>4, <2>5 DEF p
  <1>. HIDE DEF pair, offset, alias
  <1>5. /\ n \in Nat /\ DOMAIN local = 1..n
        /\ \E piece, place : Concatenates(local, seqs, N, piece, place)
    <2>1. length \in [1..N -> Nat]
      BY <1>4
    <2>2. seqs = [k \in 1..N |-> seqs[k]]
          /\ \A k \in 1..N : seqs[k] = [m \in 1..length[k] |-> seqs[k][m]]
      BY <1>4
    <2>. HIDE DEF seqs, length, local
    <2>3. QED
      BY <1>1, <1>2, <2>1, <2>2, FlattenedSequences
  <1>6. PICK piece, place : Concatenates(local, seqs, N, piece, place)
    BY <1>5
  <1>7. ASSUME NEW i \in 1..n
        PROVE  /\ piece[i] \in 1..N /\ place[i] \in 1..Len(pair(piece[i]))
               /\ local[i] = pair(piece[i])[place[i]]
    <2>1. piece[i] \in 1..N /\ place[i] \in DOMAIN seqs[piece[i]] /\ local[i] = seqs[piece[i]][place[i]]
      <3>. HIDE DEF seqs, local
      <3>1. QED
        BY <1>5, <1>6 DEF Concatenates
    <2>2. seqs[piece[i]] = pair(piece[i])
      BY <2>1
    <2>3. DOMAIN pair(piece[i]) = 1..Len(pair(piece[i]))
      BY <1>4, <2>1
    <2>. HIDE DEF local
    <2>4. QED
      BY <2>1, <2>2, <2>3
  <1>8. \A i, j \in 1..n : piece[i] = piece[j] /\ place[i] = place[j] => i = j
    <2>. HIDE DEF seqs, local
    <2>1. QED
      BY <1>5, <1>6 DEF Concatenates
  <1>. HIDE DEF local, seqs
  <1> DEFINE first(i) == place[i] = 1 /\ from[piece[i]].as # NoToken
             tag(i) == IF first(i) THEN "alias" ELSE "offset"
  <1>9. ASSUME NEW i \in 1..n
        PROVE  /\ local[i].at # NoToken
               /\ \/ local[i].from = offset
                  \/ local[i].from = from[piece[i]] /\ local[i].at = from[piece[i]].as
               /\ local[i].at \in Tokens(t) /\ << tag(i), << q, piece[i] >>, local[i].at >> \in W
               /\ place[i] = 1 \/ (place[i] = 2 /\ from[piece[i]].as # NoToken)
    <2>1. /\ local[i].at # NoToken
          /\ local[i].from = IF first(i) THEN from[piece[i]] ELSE offset
          /\ place[i] = 1 \/ (place[i] = 2 /\ from[piece[i]].as # NoToken)
          /\ local[i].at = IF first(i) THEN from[piece[i]].as ELSE from[piece[i]].offset
      <3> DEFINE k == piece[i]
                 m == place[i]
      <3>1. k \in 1..N /\ m \in 1..Len(pair(k)) /\ local[i] = pair(k)[m]
        BY <1>7
      <3>. HIDE DEF k, m
      <3>2. /\ m = 1 \/ (m = 2 /\ from[k].as # NoToken)
            /\ local[i].at # NoToken
            /\ local[i].from = IF m = 1 /\ from[k].as # NoToken THEN from[k] ELSE offset
            /\ local[i].at = IF m = 1 /\ from[k].as # NoToken THEN from[k].as ELSE from[k].offset
        BY <1>4, <3>1
      <3>3. QED
        BY <3>2 DEF k, m
    <2>2. CASE first(i)
      <3>1. /\ tag(i) = "alias" /\ local[i].at = from[piece[i]].as
            /\ local[i].from = from[piece[i]]
        BY <2>1, <2>2
      <3>. HIDE DEF first, tag
      <3>2. QED
        BY <1>3, <1>7, <2>1, <3>1
    <2>3. CASE ~first(i)
      <3>1. /\ tag(i) = "offset" /\ local[i].at = from[piece[i]].offset
            /\ local[i].from = offset
        BY <2>1, <2>3
      <3>. HIDE DEF first, tag
      <3>2. QED
        BY <1>3, <1>7, <2>1, <3>1
    <2>4. QED
      BY <2>2, <2>3
  <1>10. ASSUME NEW i \in 1..n, NEW j \in 1..n, local[i].at = local[j].at
         PROVE  i = j
    <2>1. tag(i) = tag(j) /\ piece[i] = piece[j]
      <3> DEFINE u == << q, piece[i] >>
                 v == << q, piece[j] >>
                 x == local[i].at
      <3>1. << tag(i), u, x >> \in W /\ << tag(j), v, x >> \in W /\ x # NoToken
        BY <1>9, <1>10
      <3>2. tag(i) = tag(j) /\ u = v
        <4>. HIDE DEF u, v, tag, x
        <4>1. QED
          BY <3>1, OnePlace DEF W
      <3>3. QED
        BY <3>2
    <2>2. first(i) <=> first(j)
      BY <2>1
    <2>3. place[i] = place[j]
      BY <1>9, <2>1, <2>2
    <2>4. QED
      BY <1>8, <2>1, <2>3
  <1>11. ASSUME NEW i \in 1..n
         PROVE  /\ local[i].at \in Tokens(t) /\ local[i].from \in Sources(Queries(t)[q])
                /\ AliasOf(Queries(t)[q], local[i])
                /\ \E a \in DeclaredAliases, k \in Nat :
                     << a, << q, k >>, local[i].at >> \in Written(Queries(t), Relations(t))
    <2>1. piece[i] \in 1..N /\ piece[i] \in Nat
      BY <1>7
    <2>2. tag(i) \in DeclaredAliases
      BY DEF DeclaredAliases
    <2>. HIDE DEF tag
    <2>3. \E a \in DeclaredAliases, k \in Nat :
            << a, << q, k >>, local[i].at >> \in Written(Queries(t), Relations(t))
      BY <1>9, <2>1, <2>2 DEF W
    <2>4. local[i].from \in Sources(Queries(t)[q])
      BY <1>1, <1>9, <2>1 DEF Sources, Entries, from, offset
    <2>5. AliasOf(Queries(t)[q], local[i])
      BY <1>1, <1>9, <2>1 DEF AliasOf, from, offset
    <2>6. QED
      BY <1>9, <2>3, <2>4, <2>5
  <1>12. QED
    BY <1>5, <1>10, <1>11 DEF local

(* What is declared as an alias is marked so.                              *)
LEMMA AliasesMarked ==
  ASSUME NEW t, IsText(t), NEW q \in DOMAIN Queries(t)
  PROVE  LET local == TableAliases(Queries(t)[q])
         IN \A i \in DOMAIN local : /\ local[i].at \in Tokens(t)
                                    /\ local[i].at \in Marked(t, DeclaredAliases)
                                    /\ Key(t, local[i].at) \in Names
  <1> DEFINE local == TableAliases(Queries(t)[q])
  <1>1. SUFFICES ASSUME NEW i \in DOMAIN local
                 PROVE  /\ local[i].at \in Tokens(t) /\ local[i].at \in Marked(t, DeclaredAliases)
                        /\ Key(t, local[i].at) \in Names
    OBVIOUS
  <1>2. /\ local[i].at \in Tokens(t)
        /\ \E tag \in DeclaredAliases, k \in Nat :
             << tag, << q, k >>, local[i].at >> \in Written(Queries(t), Relations(t))
    BY TableAliasesAre
  <1>. HIDE DEF local
  <1>3. PICK tag \in DeclaredAliases, k \in Nat :
          << tag, << q, k >>, local[i].at >> \in Written(Queries(t), Relations(t))
    BY <1>2
  <1>4. local[i].at \in Marked(t, DeclaredAliases)
    BY <1>3, MarkedHere
  <1>5. QED
    BY <1>2, <1>4, TextTypes

(* The aliases that have their name for themselves in their FROM.          *)
SoleAliases(t) ==
  {x \in Marked(t, DeclaredAliases) :
     \E q \in DOMAIN Queries(t) : \E i \in DOMAIN TableAliases(Queries(t)[q]) :
       /\ x = TableAliases(Queries(t)[q])[i].at
       /\ SameKey(t, TableAliases(Queries(t)[q]), i) = {i}}

(* The aliases of a FROM make a scope.                                     *)
LEMMA LocalScopeIs ==
  ASSUME NEW t, IsText(t), NEW q \in DOMAIN Queries(t)
  PROVE  LocalScope(t, TableAliases(Queries(t)[q])) \in Scopes(t, SoleAliases(t))
  <1> DEFINE local == TableAliases(Queries(t)[q])
             X == SoleAliases(t)
             bound(key) == {i \in DOMAIN local : Key(t, local[i].at) = key}
             K == {Key(t, local[i].at) : i \in DOMAIN local}
             value(key) == IF Cardinality(bound(key)) = 1 THEN local[Min(bound(key))].at ELSE NoToken
             s == [key \in K |-> value(key)]
  <1>1. LocalScope(t, local) = s
    BY DEF LocalScope
  <1>2. DOMAIN local \subseteq Nat /\ IsFiniteSet(DOMAIN local)
    <2>1. Len(local) \in Nat /\ DOMAIN local = 1..Len(local)
      BY TableAliasesAre
    <2>2. QED
      BY <2>1, FS_Interval
  <1>3. \A i \in DOMAIN local : /\ local[i].at \in Marked(t, DeclaredAliases)
                               /\ Key(t, local[i].at) \in Names
    BY AliasesMarked
  <1>4. K \in SUBSET Names
    BY <1>3
  <1>9. \A i \in DOMAIN local : SameKey(t, local, i) = {i} => local[i].at \in X
    BY <1>3 DEF SoleAliases
  <1>10. \A i \in DOMAIN local : SameKey(t, local, i) = bound(Key(t, local[i].at))
    BY DEF SameKey
  <1>. HIDE DEF local, X
  <1>5. ASSUME NEW key \in K
        PROVE  value(key) \in X \cup {NoToken} /\ (value(key) # NoToken => Key(t, value(key)) = key)
    <2>1. bound(key) # {} /\ bound(key) \subseteq Nat
      BY <1>2
    <2>2. Min(bound(key)) \in bound(key)
      <3>. HIDE DEF bound
      <3>1. QED
        BY <2>1, HasMin
    <2>3. Min(bound(key)) \in DOMAIN local /\ Key(t, local[Min(bound(key))].at) = key
      BY <2>2
    <2>4. CASE Cardinality(bound(key)) = 1
      <3> DEFINE i == Min(bound(key))
                 S == bound(key)
      <3>1. i \in S /\ Cardinality(S) = 1 /\ i \in DOMAIN local /\ Key(t, local[i].at) = key
        BY <2>2, <2>3, <2>4
      <3>2. IsFiniteSet(S)
        BY <1>2, FS_Subset
      <3>. HIDE DEF i, S
      <3>3. S = {i}
        BY <3>1, <3>2, SingleElement
      <3>4. SameKey(t, local, i) = {i}
        BY <1>10, <3>1, <3>3 DEF S
      <3>5. local[i].at \in X
        BY <1>9, <3>1, <3>4
      <3>6. value(key) = local[i].at
        BY <2>4 DEF i
      <3>. HIDE DEF value
      <3>7. QED
        BY <3>1, <3>5, <3>6
    <2>5. CASE Cardinality(bound(key)) # 1
      BY <2>5
    <2>6. QED
      BY <2>4, <2>5
  <1>6. s \in [K -> X \cup {NoToken}] /\ \A key \in K : s[key] # NoToken => Key(t, s[key]) = key
    <2>. HIDE DEF value, K
    <2>1. QED
      BY <1>5
  <1>. HIDE DEF s, K
  <1>7. s \in Scopes(t, X)
    BY <1>4, <1>6, IsScope
  <1>8. QED
    BY <1>1, <1>7 DEF local, X

(* One scope over another.                                                 *)
LEMMA OverScope ==
  ASSUME NEW t, NEW X, NEW local \in Scopes(t, X), NEW outer \in Scopes(t, X)
  PROVE  [key \in DOMAIN local \cup DOMAIN outer |->
            IF key \in DOMAIN local THEN local[key] ELSE outer[key]] \in Scopes(t, X)
  <1> DEFINE K == DOMAIN local \cup DOMAIN outer
             value(key) == IF key \in DOMAIN local THEN local[key] ELSE outer[key]
             s == [key \in K |-> value(key)]
  <1>1. K \in SUBSET Names
    BY ScopeIs
  <1>2. ASSUME NEW key \in K
        PROVE  value(key) \in X \cup {NoToken} /\ (value(key) # NoToken => Key(t, value(key)) = key)
    <2>1. CASE key \in DOMAIN local
      BY <2>1, ScopeIs
    <2>2. CASE key \notin DOMAIN local
      <3>1. key \in DOMAIN outer
        BY <2>2
      <3>2. QED
        BY <2>2, <3>1, ScopeIs
    <2>3. QED
      BY <2>1, <2>2
  <1>3. s \in [K -> X \cup {NoToken}] /\ \A key \in K : s[key] # NoToken => Key(t, s[key]) = key
    <2>. HIDE DEF value, K
    <2>1. QED
      BY <1>2
  <1>. HIDE DEF s, K
  <1>4. s \in Scopes(t, X)
    BY <1>1, <1>3, IsScope
  <1>5. QED
    BY <1>4 DEF s, K

(* The scopes of aliases have aliases for their names.                     *)
LEMMA AliasScopesAre ==
  ASSUME NEW t, IsText(t)
  PROVE  /\ AliasScopes(t) \in [DOMAIN Queries(t) -> Scopes(t, SoleAliases(t))]
         /\ \A q \in DOMAIN Queries(t) :
              AliasScopes(t)[q] =
                LET local == LocalScope(t, TableAliases(Queries(t)[q]))
                    outer == IF Enclosing(t)[q] = 0 THEN << >> ELSE AliasScopes(t)[Enclosing(t)[q]]
                IN [key \in DOMAIN local \cup DOMAIN outer |->
                      IF key \in DOMAIN local THEN local[key] ELSE outer[key]]
  <1> DEFINE D == DOMAIN Queries(t)
             V == Scopes(t, SoleAliases(t))
             g == Enclosing(t)
             roots == {q \in D : g[q] = 0}
             local(q) == LocalScope(t, TableAliases(Queries(t)[q]))
             over(q, outer) == [key \in DOMAIN local(q) \cup DOMAIN outer |->
                                  IF key \in DOMAIN local(q) THEN local(q)[key] ELSE outer[key]]
             next(q, v) == over(q, IF g[q] = 0 THEN << >> ELSE v)
             first == [q \in D |-> over(q, << >>)]
             step == [q \in D |-> [v \in V |-> over(q, v)]]
             Is(f) == f = [q \in D |-> next(q, f[g[q]])]
             scope == CHOOSE f : Is(f)
  <1>1. IsFiniteSet(D) /\ IsTree(D, roots, g)
    BY TextTypes, EnclosingTree
  <1>2. ASSUME NEW q \in D, NEW v \in V PROVE over(q, v) \in V
    <2>1. local(q) \in V
      BY LocalScopeIs
    <2>. HIDE DEF local
    <2>2. QED
      BY <2>1, OverScope
  <1>3. << >> \in V
    BY NoScope
  <1>. HIDE DEF over, V
  <1>4. first \in [D -> V] /\ step \in [D -> [V -> V]]
    <2>1. step \in [D -> [V -> V]]
      BY <1>2
    <2>2. QED
      BY <1>2, <1>3, <2>1
  <1>5. PICK f \in [D -> V] : ClimbsTree(f, D, roots, g, first, step)
    <2>. HIDE DEF D, g, roots, first, step
    <2>1. QED
      BY <1>1, <1>4, TreeRecursion
  <1>6. ASSUME NEW q \in D PROVE f[q] = next(q, f[g[q]])
    <2>1. f[q] = IF q \in roots THEN first[q] ELSE step[q][f[g[q]]]
      <3>. HIDE DEF first, step, roots, g
      <3>1. QED
        BY <1>5 DEF ClimbsTree
    <2>2. CASE q \in roots
      BY <2>1, <2>2
    <2>3. CASE q \notin roots
      <3>1. g[q] \in D
        BY <1>1, <2>3 DEF IsTree
      <3>2. f[g[q]] \in V /\ g[q] # 0
        BY <2>3, <3>1
      <3>3. step[q][f[g[q]]] = over(q, f[g[q]])
        BY <3>2
      <3>. HIDE DEF step, first, roots, g
      <3>4. QED
        BY <2>1, <2>3, <3>2, <3>3
    <2>4. QED
      BY <2>2, <2>3
  <1>7. Is(f)
    <2>. HIDE DEF next
    <2>1. QED
      BY <1>6
  <1>8. Is(scope)
    <2>. HIDE DEF Is
    <2>1. QED
      BY <1>7
  <1>9. AliasScopes(t) = scope
    BY DEF AliasScopes, over
  <1>. HIDE DEF scope
  <1>10. DOMAIN scope = D /\ scope = [q \in D |-> scope[q]] /\ \A q \in D : scope[q] = next(q, scope[g[q]])
    <2>. HIDE DEF next
    <2>1. QED
      BY <1>8
  <1>11. \A q \in D : scope[q] \in V
    <2> DEFINE T == {q \in D : scope[q] \in V}
    <2>1. ASSUME NEW q \in D, q \in roots \/ g[q] \in T PROVE q \in T
      <3>1. CASE g[q] = 0
        <4>1. scope[q] = over(q, << >>)
          BY <1>10, <3>1
        <4>2. QED
          BY <1>2, <1>3, <4>1
      <3>2. CASE g[q] # 0
        <4>1. scope[g[q]] \in V
          BY <2>1, <3>2
        <4>2. scope[q] = over(q, scope[g[q]])
          BY <1>10, <3>2
        <4>3. QED
          BY <1>2, <4>1, <4>2
      <3>3. QED
        BY <3>1, <3>2
    <2>. HIDE DEF T, D, roots, g
    <2>2. D \subseteq T
      BY <1>1, <2>1, TreeInduction
    <2>3. QED
      BY <2>2 DEF T
  <1>12. scope \in [D -> V]
    BY <1>10, <1>11
  <1>13. ASSUME NEW q \in D PROVE AliasScopes(t)[q] = next(q, AliasScopes(t)[g[q]])
    <2>. HIDE DEF next
    <2>1. QED
      BY <1>9, <1>10
  <1>14. AliasScopes(t) \in [D -> V]
    BY <1>9, <1>12
  <1>15. ASSUME NEW q \in D
         PROVE  AliasScopes(t)[q] =
                  LET here == LocalScope(t, TableAliases(Queries(t)[q]))
                      outer == IF Enclosing(t)[q] = 0 THEN << >> ELSE AliasScopes(t)[Enclosing(t)[q]]
                  IN [key \in DOMAIN here \cup DOMAIN outer |->
                        IF key \in DOMAIN here THEN here[key] ELSE outer[key]]
    BY <1>13 DEF over
  <1>16. QED
    BY <1>14, <1>15 DEF V

(* The places of the paths that a SELECT is searched for.                  *)
WalkedPlace(t, q, tag, place) ==
  \/ tag \in {"item", "expr", "group"} /\ place[1] = q
  \/ tag = "order" /\ place[1] \in DOMAIN Queries(t) /\ Enclosing(t)[place[1]] = q

(* A path of an item is that item.                                         *)
WalkedItem(t, q, place, w) ==
  \E i \in DOMAIN Queries(t)[q].items :
    LET item == Queries(t)[q].items[i]
    IN place = << q, i >> /\ w.path = item.expr /\ w.star = item.star

LEMMA WalkedTokens ==
  ASSUME NEW t, IsText(t), NEW q \in DOMAIN Queries(t), NEW w \in WalkedPaths(t, q)
  PROVE  /\ w.path \in Seq(Tokens(t))
         /\ \E tag \in Expressions : \E place :
              /\ WalkedPlace(t, q, tag, place)
              /\ Along(tag, place, w.path) \subseteq Written(Queries(t), Relations(t))
              /\ tag = "item" => WalkedItem(t, q, place, w)
  <1> DEFINE Q == Queries(t)
             W == Written(Queries(t), Relations(t))
             inside == {r \in DOMAIN Q : Enclosing(t)[r] = q}
             Goal == /\ w.path \in Seq(Tokens(t))
                     /\ \E tag \in Expressions : \E place :
                          /\ WalkedPlace(t, q, tag, place) /\ Along(tag, place, w.path) \subseteq W
                          /\ tag = "item" => WalkedItem(t, q, place, w)
  <1>1. \/ \E i \in DOMAIN Q[q].items : w.path = Q[q].items[i].expr /\ w.star = Q[q].items[i].star
        \/ w.path \in Q[q].exprs \/ w.path \in Q[q].group
        \/ \E r \in inside : w.path \in Q[r].order
    <2>1. w \in {[path |-> Q[q].items[i].expr, star |-> Q[q].items[i].star] : i \in DOMAIN Q[q].items}
                  \cup {[path |-> e, star |-> FALSE] :
                          e \in Q[q].exprs \cup Q[q].group \cup UNION {Q[r].order : r \in inside}}
      BY DEF WalkedPaths
    <2>. HIDE DEF Q, inside
    <2>2. QED
      BY <2>1
  <1>2. ASSUME NEW tag \in Expressions, NEW place, WalkedPlace(t, q, tag, place),
               w.path \in Seq(Tokens(t)), Along(tag, place, w.path) \subseteq W,
               tag = "item" => WalkedItem(t, q, place, w)
        PROVE  Goal
    BY <1>2
  <1>. HIDE DEF Goal
  <1>3. ASSUME NEW i \in DOMAIN Q[q].items,
               w.path = Q[q].items[i].expr, w.star = Q[q].items[i].star
        PROVE  Goal
    <2> DEFINE C == [expr : Seq(Tokens(t)), as : Tokens(t) \cup {NoToken}, star : BOOLEAN]
    <2>1. Q[q].items[i] \in C
      <3>1. Q[q].items \in Seq(C)
        BY QueryTypes
      <3>. HIDE DEF C
      <3>2. QED
        BY <3>1
    <2>2. w.path \in Seq(Tokens(t))
      BY <1>3, <2>1
    <2>3. Along("item", << q, i >>, Q[q].items[i].expr) \subseteq W
      BY QueryTokens
    <2>4. WalkedPlace(t, q, "item", << q, i >>) /\ "item" \in Expressions
      BY DEF WalkedPlace, Expressions
    <2>5. WalkedItem(t, q, << q, i >>, w)
      BY <1>3 DEF WalkedItem
    <2>6. QED
      BY <1>2, <1>3, <2>2, <2>3, <2>4, <2>5
  <1>4. ASSUME w.path \in Q[q].exprs PROVE Goal
    <2>1. w.path \in Seq(Tokens(t)) /\ Along("expr", << q, w.path >>, w.path) \subseteq W
      BY <1>4, QueryTypes, QueryTokens
    <2>2. WalkedPlace(t, q, "expr", << q, w.path >>) /\ "expr" \in Expressions /\ "expr" # "item"
      BY DEF WalkedPlace, Expressions
    <2>3. QED
      BY <1>2, <2>1, <2>2
  <1>5. ASSUME w.path \in Q[q].group PROVE Goal
    <2>1. w.path \in Seq(Tokens(t)) /\ Along("group", << q, w.path >>, w.path) \subseteq W
      BY <1>5, QueryTypes, QueryTokens
    <2>2. WalkedPlace(t, q, "group", << q, w.path >>) /\ "group" \in Expressions /\ "group" # "item"
      BY DEF WalkedPlace, Expressions
    <2>3. QED
      BY <1>2, <2>1, <2>2
  <1>6. ASSUME NEW r \in inside, w.path \in Q[r].order PROVE Goal
    <2>1. w.path \in Seq(Tokens(t)) /\ Along("order", << r, w.path >>, w.path) \subseteq W
      BY <1>6, QueryTypes, QueryTokens
    <2>2. WalkedPlace(t, q, "order", << r, w.path >>) /\ "order" \in Expressions /\ "order" # "item"
      BY DEF WalkedPlace, Expressions
    <2>3. QED
      BY <1>2, <2>1, <2>2
  <1>7. QED
    <2>1. Goal
      BY <1>1, <1>3, <1>4, <1>5, <1>6
    <2>2. QED
      BY <2>1 DEF Goal

(* A token is in the paths of one SELECT, at one place.                    *)
LEMMA WalkedOnce ==
  ASSUME NEW t, IsText(t), NEW q \in DOMAIN Queries(t), NEW r \in DOMAIN Queries(t),
         NEW w \in WalkedPaths(t, q), NEW v \in WalkedPaths(t, r),
         NEW j \in DOMAIN w.path, NEW k \in DOMAIN v.path, w.path[j] = v.path[k]
  PROVE  q = r /\ j = k
  <1> DEFINE W == Written(Queries(t), Relations(t))
             HereIn(a) == \E p : WalkedPlace(t, q, a, p) /\ Along(a, p, w.path) \subseteq W
             ThereIn(b) == \E s : WalkedPlace(t, r, b, s) /\ Along(b, s, v.path) \subseteq W
  <1>11. PICK a \in Expressions : HereIn(a)
    BY WalkedTokens
  <1>1. PICK p : WalkedPlace(t, q, a, p) /\ Along(a, p, w.path) \subseteq W
    BY <1>11
  <1>12. PICK b \in Expressions : ThereIn(b)
    BY WalkedTokens
  <1>2. PICK s : WalkedPlace(t, r, b, s) /\ Along(b, s, v.path) \subseteq W
    BY <1>12
  <1>3. << a, << p, j >>, w.path[j] >> \in W /\ << b, << s, k >>, v.path[k] >> \in W
    BY <1>1, <1>2, TokenAlong
  <1>4. w.path[j] # NoToken
    <2>1. w.path \in Seq(Tokens(t))
      BY WalkedTokens
    <2>2. w.path[j] \in Tokens(t)
      BY <2>1
    <2>3. QED
      BY <2>2, TextTypes
  <1>5. a = b /\ p = s /\ j = k
    <2> DEFINE u == << p, j >>
               z == << s, k >>
               x == w.path[j]
    <2>1. << a, u, x >> \in W /\ << b, z, x >> \in W /\ x # NoToken
      BY <1>3, <1>4
    <2>2. a = b /\ u = z
      <3>. HIDE DEF u, z, x
      <3>1. QED
        BY <2>1, OnePlace
    <2>3. QED
      BY <2>2
  <1>6. q = r
    BY <1>1, <1>2, <1>5 DEF WalkedPlace
  <1>7. QED
    BY <1>5, <1>6

(* The k-th token of a path.                                               *)
PathPlace(t, k, x) ==
  \E tag \in Expressions : \E place : << tag, << place, k >>, x >> \in Written(Queries(t), Relations(t))

LEMMA PathPlaceOnce ==
  ASSUME NEW t, IsText(t), NEW x, x # NoToken, NEW j, NEW k, PathPlace(t, j, x), PathPlace(t, k, x)
  PROVE  j = k
  <1> DEFINE In(tag, m) == \E place : << tag, << place, m >>, x >> \in Written(Queries(t), Relations(t))
  <1>1. PICK a \in Expressions : In(a, j)
    BY DEF PathPlace
  <1>2. PICK b \in Expressions : In(b, k)
    BY DEF PathPlace
  <1>3. PICK p : << a, << p, j >>, x >> \in Written(Queries(t), Relations(t))
    BY <1>1
  <1>4. PICK s : << b, << s, k >>, x >> \in Written(Queries(t), Relations(t))
    BY <1>2
  <1> DEFINE u == << p, j >>
             v == << s, k >>
  <1>5. /\ << a, u, x >> \in Written(Queries(t), Relations(t))
        /\ << b, v, x >> \in Written(Queries(t), Relations(t))
    BY <1>3, <1>4
  <1>6. u = v
    <2>. HIDE DEF u, v
    <2>1. QED
      BY <1>5, OnePlace
  <1>7. QED
    BY <1>6

(* What qualifies a path names no item: it is not the last of the path.    *)
LEMMA QualifierNamesNothing ==
  ASSUME NEW t, IsText(t), NEW q \in DOMAIN Queries(t), NEW w \in QualifiedPaths(t, q),
         1 \in DOMAIN w.path
  PROVE  w.path[1] \notin ItemNames(t)
  <1> DEFINE W == Written(Queries(t), Relations(t))
             x == w.path[1]
             HereIn(a) == \E p : /\ Along(a, p, w.path) \subseteq W
                                 /\ a = "item" => WalkedItem(t, q, p, w)
  <1>1. w \in WalkedPaths(t, q) /\ (Len(w.path) >= 2 \/ (w.star /\ Len(w.path) = 1))
    BY DEF QualifiedPaths
  <1>2. PICK a \in Expressions : HereIn(a)
    BY <1>1, WalkedTokens
  <1>3. PICK p : Along(a, p, w.path) \subseteq W /\ (a = "item" => WalkedItem(t, q, p, w))
    BY <1>2
  <1>4. << a, << p, 1 >>, x >> \in W
    BY <1>3, TokenAlong
  <1>5. SUFFICES ASSUME x \in ItemNames(t) PROVE FALSE
    OBVIOUS
  <1>6. x # NoToken
    BY <1>5, TextTypes DEF ItemNames
  <1> DEFINE NamedIn(r) == \E k : ItemNamed(t, r, k, x)
  <1>7. PICK r : NamedIn(r)
    BY <1>5 DEF ItemNames
  <1>8. PICK k : ItemNamed(t, r, k, x)
    BY <1>7
  <1> DEFINE item == Queries(t)[r].items[k]
  <1>9. r \in DOMAIN Queries(t) /\ k \in DOMAIN Queries(t)[r].items /\ x = SelectItemAlias(item)
    BY <1>8 DEF ItemNamed
  <1>10. << "as", << r, k >>, item.as >> \in W /\ Along("item", << r, k >>, item.expr) \subseteq W
    BY <1>9, QueryTokens
  <1>11. item.expr \in Seq(Tokens(t)) /\ item.as \in Tokens(t) \cup {NoToken} /\ item.star \in BOOLEAN
    <2> DEFINE C == [expr : Seq(Tokens(t)), as : Tokens(t) \cup {NoToken}, star : BOOLEAN]
    <2>1. Queries(t)[r].items \in Seq(C)
      BY <1>9, QueryTypes
    <2>2. Queries(t)[r].items[k] \in C
      <3>. HIDE DEF C
      <3>1. QED
        BY <1>9, <2>1
    <2>3. QED
      BY <2>2
  <1>. HIDE DEF x, W
  <1>12. CASE item.as # NoToken
    <2>1. x = item.as
      BY <1>9, <1>12 DEF SelectItemAlias
    <2>2. << "as", << r, k >>, x >> \in W
      BY <1>10, <2>1
    <2>3. a = "as"
      <3> DEFINE u == << r, k >>
                 v == << p, 1 >>
      <3>1. << "as", u, x >> \in W /\ << a, v, x >> \in W
        BY <1>4, <2>2
      <3>. HIDE DEF u, v
      <3>2. QED
        BY <1>6, <3>1, OnePlace DEF W
    <2>4. QED
      BY <2>3 DEF Expressions
  <1>13. CASE item.as = NoToken
    <2>1. ~item.star /\ item.expr # << >> /\ x = item.expr[Len(item.expr)]
      BY <1>6, <1>9, <1>11, <1>13 DEF SelectItemAlias, Last
    <2> DEFINE n == Len(item.expr)
    <2>2. n \in DOMAIN item.expr
      BY <1>11, <2>1
    <2>3. << "item", << << r, k >>, n >>, x >> \in W
      BY <1>10, <2>1, <2>2, TokenAlong
    <2>. HIDE DEF n, item
    <2>4. a = "item" /\ p = << r, k >> /\ n = 1
      <3> DEFINE u == << << r, k >>, n >>
                 v == << p, 1 >>
      <3>1. << "item", u, x >> \in W /\ << a, v, x >> \in W
        BY <1>4, <2>3
      <3>2. a = "item" /\ u = v
        <4>. HIDE DEF u, v
        <4>1. QED
          BY <1>6, <3>1, OnePlace DEF W
      <3>3. QED
        BY <3>2
    <2>5. PICK i \in DOMAIN Queries(t)[q].items :
            /\ p = << q, i >> /\ w.path = Queries(t)[q].items[i].expr
            /\ w.star = Queries(t)[q].items[i].star
      BY <1>3, <2>4 DEF WalkedItem
    <2>6. r = q /\ k = i
      BY <2>4, <2>5
    <2>7. Len(w.path) = 1 /\ ~w.star
      BY <2>1, <2>4, <2>5, <2>6 DEF item, n
    <2>8. QED
      BY <1>1, <2>7
  <1>14. QED
    BY <1>12, <1>13

(* A use of an alias is of one of its name, and a token is one use.        *)
UsesAliases(t, uses) ==
  /\ \A u \in uses :
       /\ u.at \in Tokens(t) /\ u.at \in Marked(t, Expressions)
       /\ PathPlace(t, 1, u.at) /\ u.at \notin ItemNames(t)
       /\ u.alias \in SoleAliases(t) \cup {NoToken}
       /\ u.alias # NoToken => Key(t, u.alias) = Key(t, u.at)
       /\ u.member # NoToken => /\ u.member \in Tokens(t) /\ u.member \in Marked(t, Expressions)
                                /\ PathPlace(t, 2, u.member)
  /\ \A u, v \in uses : u.at = v.at => u.alias = v.alias

LEMMA AliasUsesAre ==
  ASSUME NEW t, IsText(t)
  PROVE  UsesAliases(t, AliasUses(t, AliasScopes(t)))
  <1> DEFINE scopes == AliasScopes(t)
             use(q, w) == [at |-> w.path[1], alias |-> Lookup(scopes[q], Key(t, w.path[1])),
                           member |-> IF Len(w.path) >= 2 THEN w.path[2] ELSE NoToken]
             uses == AliasUses(t, scopes)
  <1>1. uses = UNION {{use(q, w) : w \in QualifiedPaths(t, q)} : q \in DOMAIN Queries(t)}
    BY DEF AliasUses
  <1>2. ASSUME NEW q \in DOMAIN Queries(t), NEW w \in QualifiedPaths(t, q)
        PROVE  /\ w \in WalkedPaths(t, q) /\ 1 \in DOMAIN w.path /\ w.path[1] \in Tokens(t)
               /\ w.path[1] \in Marked(t, Expressions) /\ PathPlace(t, 1, w.path[1])
               /\ w.path[1] \notin ItemNames(t)
               /\ Len(w.path) >= 2 => /\ w.path[2] \in Tokens(t)
                                      /\ w.path[2] \in Marked(t, Expressions)
                                      /\ PathPlace(t, 2, w.path[2])
    <2>1. w \in WalkedPaths(t, q) /\ (Len(w.path) >= 2 \/ Len(w.path) = 1)
      BY DEF QualifiedPaths
    <2>2. w.path \in Seq(Tokens(t))
      BY <2>1, WalkedTokens
    <2>3. /\ 1 \in DOMAIN w.path /\ w.path[1] \in Tokens(t)
          /\ Len(w.path) >= 2 => 2 \in DOMAIN w.path /\ w.path[2] \in Tokens(t)
      <3> DEFINE path == w.path
      <3>1. path \in Seq(Tokens(t)) /\ (Len(path) >= 2 \/ Len(path) = 1)
        BY <2>1, <2>2
      <3>. HIDE DEF path
      <3>2. 1 \in DOMAIN path /\ (Len(path) >= 2 => 2 \in DOMAIN path)
        BY <3>1
      <3>3. \A k \in DOMAIN path : path[k] \in Tokens(t)
        BY <3>1
      <3>4. QED
        BY <3>2, <3>3 DEF path
    <2>11. PICK a \in Expressions :
            \E p : Along(a, p, w.path) \subseteq Written(Queries(t), Relations(t))
      BY <2>1, WalkedTokens
    <2>4. PICK p : Along(a, p, w.path) \subseteq Written(Queries(t), Relations(t))
      BY <2>11
    <2>5. << a, << p, 1 >>, w.path[1] >> \in Written(Queries(t), Relations(t))
      BY <2>3, <2>4, TokenAlong
    <2>6. w.path[1] \in Marked(t, Expressions) /\ PathPlace(t, 1, w.path[1])
      BY <2>5, MarkedHere DEF PathPlace
    <2>7. Len(w.path) >= 2 => << a, << p, 2 >>, w.path[2] >> \in Written(Queries(t), Relations(t))
      BY <2>3, <2>4, TokenAlong
    <2>8. Len(w.path) >= 2 => w.path[2] \in Marked(t, Expressions) /\ PathPlace(t, 2, w.path[2])
      BY <2>7, MarkedHere DEF PathPlace
    <2>9. w.path[1] \notin ItemNames(t)
      BY <2>3, QualifierNamesNothing
    <2>10. QED
      BY <2>1, <2>3, <2>6, <2>8, <2>9
  <1>3. ASSUME NEW u \in uses
        PROVE  \E q \in DOMAIN Queries(t) : \E w \in QualifiedPaths(t, q) :
                 /\ u.at = w.path[1] /\ u.alias = Lookup(scopes[q], Key(t, w.path[1]))
                 /\ u.member = IF Len(w.path) >= 2 THEN w.path[2] ELSE NoToken
    <2>1. PICK q \in DOMAIN Queries(t) : u \in {use(q, w) : w \in QualifiedPaths(t, q)}
      BY <1>1
    <2>2. PICK w \in QualifiedPaths(t, q) : u = use(q, w)
      BY <2>1
    <2>3. QED
      BY <2>2
  <1>. HIDE DEF uses
  <1>4. ASSUME NEW u \in uses
        PROVE  /\ u.at \in Tokens(t) /\ u.at \in Marked(t, Expressions)
               /\ PathPlace(t, 1, u.at) /\ u.at \notin ItemNames(t)
               /\ u.alias \in SoleAliases(t) \cup {NoToken}
               /\ u.alias # NoToken => Key(t, u.alias) = Key(t, u.at)
               /\ u.member # NoToken => /\ u.member \in Tokens(t) /\ u.member \in Marked(t, Expressions)
                                        /\ PathPlace(t, 2, u.member)
    <2>1. PICK q \in DOMAIN Queries(t) : \E w \in QualifiedPaths(t, q) :
                 /\ u.at = w.path[1] /\ u.alias = Lookup(scopes[q], Key(t, w.path[1]))
                 /\ u.member = IF Len(w.path) >= 2 THEN w.path[2] ELSE NoToken
      BY <1>3
    <2>2. PICK w \in QualifiedPaths(t, q) :
                 /\ u.at = w.path[1] /\ u.alias = Lookup(scopes[q], Key(t, w.path[1]))
                 /\ u.member = IF Len(w.path) >= 2 THEN w.path[2] ELSE NoToken
      BY <2>1
    <2>3. scopes[q] \in Scopes(t, SoleAliases(t))
      BY AliasScopesAre
    <2>. HIDE DEF scopes
    <2>4. /\ u.alias \in SoleAliases(t) \cup {NoToken}
          /\ u.alias # NoToken => Key(t, u.alias) = Key(t, u.at)
      BY <2>2, <2>3, LookupIs
    <2>5. QED
      BY <1>2, <2>2, <2>4
  <1>5. ASSUME NEW u \in uses, NEW v \in uses, u.at = v.at
        PROVE  u.alias = v.alias
    <2>1. PICK q \in DOMAIN Queries(t) : \E w \in QualifiedPaths(t, q) :
                 u.at = w.path[1] /\ u.alias = Lookup(scopes[q], Key(t, w.path[1]))
      BY <1>3
    <2>2. PICK w \in QualifiedPaths(t, q) :
                 u.at = w.path[1] /\ u.alias = Lookup(scopes[q], Key(t, w.path[1]))
      BY <2>1
    <2>3. PICK r \in DOMAIN Queries(t) : \E z \in QualifiedPaths(t, r) :
                 v.at = z.path[1] /\ v.alias = Lookup(scopes[r], Key(t, z.path[1]))
      BY <1>3
    <2>4. PICK z \in QualifiedPaths(t, r) :
                 v.at = z.path[1] /\ v.alias = Lookup(scopes[r], Key(t, z.path[1]))
      BY <2>3
    <2>5. q = r
      <3>1. /\ w \in WalkedPaths(t, q) /\ z \in WalkedPaths(t, r)
            /\ 1 \in DOMAIN w.path /\ 1 \in DOMAIN z.path /\ w.path[1] = z.path[1]
        BY <1>2, <1>5, <2>2, <2>4
      <3>2. QED
        BY <3>1, WalkedOnce
    <2>6. QED
      BY <1>5, <2>2, <2>4, <2>5
  <1>6. QED
    BY <1>4, <1>5 DEF UsesAliases, uses

(* The SELECTs in the order of the text, each once.                        *)
SelectOrder(t) ==
  InOrder(DOMAIN Queries(t), [q \in DOMAIN Queries(t) |-> Queries(t)[q].sel[1]])

LEMMA SelectOrderIs ==
  ASSUME NEW t, IsText(t)
  PROVE  LET order == SelectOrder(t)
             n == Len(order)
         IN /\ n \in Nat /\ DOMAIN order = 1..n
            /\ \A k \in 1..n : order[k] \in DOMAIN Queries(t)
            /\ \A q \in DOMAIN Queries(t) : \E k \in 1..n : order[k] = q
            /\ \A k, m \in 1..n : order[k] = order[m] => k = m
  <1> DEFINE D == DOMAIN Queries(t)
             place == [q \in D |-> Queries(t)[q].sel[1]]
             order == InOrder(D, place)
             n == Len(order)
  <1>1. SelectOrder(t) = order
    BY DEF SelectOrder
  <1>2. place \in [D -> Nat]
    <2>1. \A q \in D : Queries(t)[q].sel \in Nat \X Nat
      BY QueryTypes
    <2>2. \A q \in D : Queries(t)[q].sel[1] \in Nat
      BY <2>1
    <2>3. QED
      BY <2>2
  <1>3. \A q, r \in D : place[q] = place[r] => q = r
    BY DEF IsText, WellFormed, RangesNest, Queries
  <1>4. IsFiniteSet(D)
    BY TextTypes
  <1>. HIDE DEF D, place
  <1>5. /\ order \in Seq(D)
        /\ \A q \in D : \E k \in DOMAIN order : order[k] = q
        /\ \A k, m \in DOMAIN order : order[k] = order[m] => k = m
    BY <1>2, <1>3, <1>4, InOrderSorts
  <1>. HIDE DEF order
  <1>6. n \in Nat /\ DOMAIN order = 1..n /\ \A k \in 1..n : order[k] \in D
    BY <1>5
  <1>7. QED
    BY <1>1, <1>5, <1>6 DEF D

(* The elements of F are those that the SELECTs list, each once.           *)
Lists(t, F, rows, of, place) ==
  /\ of \in [1..Len(F) -> DOMAIN Queries(t)]
  /\ \A i \in 1..Len(F) : place[i] \in DOMAIN rows[of[i]] /\ F[i] = rows[of[i]][place[i]]
  /\ \A i, j \in 1..Len(F) : of[i] = of[j] /\ place[i] = place[j] => i = j
  /\ \A q \in DOMAIN Queries(t) : \A m \in DOMAIN rows[q] :
       \E i \in 1..Len(F) : of[i] = q /\ place[i] = m

LEMMA ListsInOrder ==
  ASSUME NEW t, IsText(t), NEW length \in [DOMAIN Queries(t) -> Nat], NEW rows,
         \A q \in DOMAIN Queries(t) : rows[q] = [m \in 1..length[q] |-> rows[q][m]]
  PROVE  LET F == FlattenSeq([k \in DOMAIN SelectOrder(t) |-> rows[SelectOrder(t)[k]]])
         IN /\ Len(F) \in Nat /\ DOMAIN F = 1..Len(F)
            /\ \E of, place : Lists(t, F, rows, of, place)
  <1> DEFINE D == DOMAIN Queries(t)
             order == SelectOrder(t)
             N == Len(order)
             seqs == [k \in DOMAIN order |-> rows[order[k]]]
             lengths == [k \in 1..N |-> length[order[k]]]
             F == FlattenSeq(seqs)
  <1>1. /\ N \in Nat /\ DOMAIN order = 1..N
        /\ \A k \in 1..N : order[k] \in D
        /\ \A q \in D : \E k \in 1..N : order[k] = q
        /\ \A k, m \in 1..N : order[k] = order[m] => k = m
    BY SelectOrderIs
  <1>. HIDE DEF order, D
  <1>2. /\ lengths \in [1..N -> Nat] /\ seqs = [k \in 1..N |-> seqs[k]]
        /\ \A k \in 1..N : seqs[k] = [m \in 1..lengths[k] |-> seqs[k][m]]
    <2>1. \A k \in 1..N : /\ lengths[k] = length[order[k]] /\ length[order[k]] \in Nat
                          /\ seqs[k] = rows[order[k]]
                          /\ rows[order[k]] = [m \in 1..length[order[k]] |-> rows[order[k]][m]]
      BY <1>1 DEF D
    <2>2. lengths \in [1..N -> Nat] /\ seqs = [k \in 1..N |-> seqs[k]]
      BY <1>1, <2>1
    <2>3. ASSUME NEW k \in 1..N PROVE seqs[k] = [m \in 1..lengths[k] |-> seqs[k][m]]
      <3>. HIDE DEF seqs, lengths
      <3>1. QED
        BY <2>1
    <2>4. QED
      BY <2>2, <2>3
  <1>3. \A k \in 1..N : seqs[k] = rows[order[k]]
    BY <1>1
  <1>. HIDE DEF seqs, lengths, N
  <1>4. /\ Len(F) \in Nat /\ DOMAIN F = 1..Len(F)
        /\ \E piece, place : Concatenates(F, seqs, N, piece, place)
    <2>1. N \in Nat
      BY <1>1 DEF N
    <2>2. QED
      BY <1>2, <2>1, FlattenedSequences
  <1>. HIDE DEF F
  <1>5. PICK piece, place : Concatenates(F, seqs, N, piece, place)
    BY <1>4
  <1>6. /\ piece \in [1..Len(F) -> 1..N]
        /\ \A i \in 1..Len(F) : place[i] \in DOMAIN seqs[piece[i]] /\ F[i] = seqs[piece[i]][place[i]]
        /\ \A i, j \in 1..Len(F) : piece[i] = piece[j] /\ place[i] = place[j] => i = j
        /\ \A k \in 1..N : \A m \in DOMAIN seqs[k] :
             \E i \in 1..Len(F) : piece[i] = k /\ place[i] = m
    <2>1. /\ piece \in [DOMAIN F -> 1..N]
          /\ \A i \in DOMAIN F : place[i] \in DOMAIN seqs[piece[i]] /\ F[i] = seqs[piece[i]][place[i]]
          /\ \A i, j \in DOMAIN F : piece[i] = piece[j] /\ place[i] = place[j] => i = j
          /\ \A k \in 1..N : \A m \in DOMAIN seqs[k] :
               \E i \in DOMAIN F : piece[i] = k /\ place[i] = m
      BY <1>5 DEF Concatenates
    <2>2. DOMAIN F = 1..Len(F)
      BY <1>4
    <2>3. piece \in [1..Len(F) -> 1..N]
      BY <2>1, <2>2, Zenon
    <2>4. \A i \in 1..Len(F) : place[i] \in DOMAIN seqs[piece[i]] /\ F[i] = seqs[piece[i]][place[i]]
      BY <2>1, <2>2, Zenon
    <2>5. \A i, j \in 1..Len(F) : piece[i] = piece[j] /\ place[i] = place[j] => i = j
      BY <2>1, <2>2, Zenon
    <2>6. ASSUME NEW k \in 1..N, NEW m \in DOMAIN seqs[k]
          PROVE  \E i \in 1..Len(F) : piece[i] = k /\ place[i] = m
      <3>1. PICK i \in DOMAIN F : piece[i] = k /\ place[i] = m
        BY <2>1
      <3>2. i \in 1..Len(F)
        BY <2>2
      <3>3. QED
        BY <3>1, <3>2
    <2>7. QED
      BY <2>3, <2>4, <2>5, <2>6, Zenon
  <1> DEFINE of == [i \in 1..Len(F) |-> order[piece[i]]]
  <1>7. of \in [1..Len(F) -> D] /\ \A i \in 1..Len(F) : of[i] = order[piece[i]]
    BY <1>1, <1>6 DEF N
  <1>. HIDE DEF of
  <1>8. ASSUME NEW i \in 1..Len(F)
        PROVE  place[i] \in DOMAIN rows[of[i]] /\ F[i] = rows[of[i]][place[i]]
    <2>1. piece[i] \in 1..N /\ place[i] \in DOMAIN seqs[piece[i]] /\ F[i] = seqs[piece[i]][place[i]]
      BY <1>6
    <2>2. seqs[piece[i]] = rows[order[piece[i]]]
      BY <1>3, <2>1
    <2>3. of[i] = order[piece[i]]
      BY <1>7
    <2>4. QED
      BY <2>1, <2>2, <2>3
  <1>9. \A i, j \in 1..Len(F) : of[i] = of[j] /\ place[i] = place[j] => i = j
    <2>1. \A i \in 1..Len(F) : piece[i] \in 1..N
      BY <1>6
    <2>2. \A k, m \in 1..N : order[k] = order[m] => k = m
      BY <1>1 DEF N
    <2>3. QED
      BY <1>6, <1>7, <2>1, <2>2
  <1>10. ASSUME NEW q \in D, NEW m \in DOMAIN rows[q]
         PROVE  \E i \in 1..Len(F) : of[i] = q /\ place[i] = m
    <2>1. PICK k \in 1..N : order[k] = q
      BY <1>1 DEF N
    <2>2. m \in DOMAIN seqs[k]
      BY <1>3, <2>1
    <2>3. PICK i \in 1..Len(F) : piece[i] = k /\ place[i] = m
      BY <1>6, <2>2
    <2>4. QED
      BY <1>7, <2>1, <2>3
  <1>11. Lists(t, F, rows, of, place)
    BY <1>7, <1>8, <1>9, <1>10 DEF Lists, D
  <1>12. QED
    BY <1>4, <1>11 DEF F, seqs, order

(* What an alias stands for has columns that are tokens, if any.           *)
LEMMA SourceShape ==
  ASSUME NEW t, IsText(t), NEW q \in DOMAIN Queries(t), NEW ctes,
         NEW from \in Sources(Queries(t)[q])
  PROVE  ShapeOK(t, SourceOf(t, ctes, from).shape)
  <1> DEFINE none == [cte |-> 0, table |-> << >>, shape |-> NoColumns]
             cte == BindingForReference(ctes, from.path[1])
             bound == IsSimplePath(from.path) /\ cte # 0
  <1>1. SourceOf(t, ctes, from) =
          CASE from.kind = "name" /\ bound -> [none EXCEPT !.cte = cte]
            [] from.kind = "name" /\ ~bound -> [none EXCEPT !.table = Keys(t, from.path)]
            [] from.kind = "query" -> [none EXCEPT !.shape = ExtractQueryColumnFacts(t, from.query)]
            [] OTHER -> none
    BY DEF SourceOf
  <1>. HIDE DEF cte, bound
  <1>2. CASE from.kind # "query"
    <2>1. SourceOf(t, ctes, from).shape = NoColumns
      BY <1>1, <1>2
    <2>2. QED
      BY <2>1, NoColumnsOK
  <1>3. CASE from.kind = "query"
    <2>1. SourceOf(t, ctes, from).shape = ExtractQueryColumnFacts(t, from.query)
      BY <1>1, <1>3
    <2>2. from.query \in DOMAIN Queries(t)
      <3>1. from # [kind |-> "offset"]
        BY <1>3
      <3>2. PICK i \in DOMAIN Queries(t)[q].from : from = Queries(t)[q].from[i]
        BY <3>1 DEF Sources, Entries
      <3>3. QED
        BY <1>3, <3>2, QueryTypes
    <2>3. QED
      BY <2>1, <2>2, ColumnFactsOK
  <1>4. QED
    BY <1>2, <1>3

(* An alias has columns if it stands for a query of its FROM.              *)
Derived(t, x, shape, q, k) ==
  /\ q \in DOMAIN Queries(t) /\ k \in DOMAIN Queries(t)[q].from
  /\ Queries(t)[q].from[k].kind = "query" /\ Queries(t)[q].from[k].as = x
  /\ shape = ExtractQueryColumnFacts(t, Queries(t)[q].from[k].query)

IsDerived(t, x, shape) == \E q : \E k : Derived(t, x, shape, q, k)

LEMMA SourceIs ==
  ASSUME NEW t, NEW q \in DOMAIN Queries(t), NEW ctes, Len(ctes) \in Nat,
         DOMAIN ctes = 1..Len(ctes), NEW a, AliasOf(Queries(t)[q], a)
  PROVE  LET source == SourceOf(t, ctes, a.from)
         IN /\ source.shape.columns = << >> \/ IsDerived(t, a.at, source.shape)
            /\ source.cte # 0 => source.cte \in DOMAIN ctes
  <1> DEFINE none == [cte |-> 0, table |-> << >>, shape |-> NoColumns]
             from == a.from
             cte == BindingForReference(ctes, from.path[1])
             bound == IsSimplePath(from.path) /\ cte # 0
             I == {i \in 1..Len(ctes) : from.path[1] \in ctes[i].refs}
  <1>1. SourceOf(t, ctes, from) =
          CASE from.kind = "name" /\ bound -> [none EXCEPT !.cte = cte]
            [] from.kind = "name" /\ ~bound -> [none EXCEPT !.table = Keys(t, from.path)]
            [] from.kind = "query" -> [none EXCEPT !.shape = ExtractQueryColumnFacts(t, from.query)]
            [] OTHER -> none
    BY DEF SourceOf
  <1>2. cte # 0 => cte \in DOMAIN ctes
    <2>1. cte = IF I # {} THEN Min(I) ELSE 0
      BY DEF BindingForReference, SelectInSeq
    <2>2. CASE I = {}
      BY <2>1, <2>2
    <2>3. CASE I # {}
      <3>1. I \subseteq Nat /\ I \subseteq DOMAIN ctes
        OBVIOUS
      <3>. HIDE DEF I
      <3>2. Min(I) \in I
        BY <2>3, <3>1, HasMin
      <3>3. QED
        BY <2>1, <2>3, <3>1, <3>2
    <2>4. QED
      BY <2>2, <2>3
  <1>3. NoColumns.columns = << >>
    BY DEF NoColumns
  <1>4. none.shape = NoColumns /\ none.cte = 0
    OBVIOUS
  <1>5. from # [kind |-> "offset"] => \E k \in DOMAIN Queries(t)[q].from :
                                       /\ from = Queries(t)[q].from[k] /\ a.at = Queries(t)[q].from[k].as
    BY DEF AliasOf
  <1>. HIDE DEF cte, bound, from
  <1>6. CASE from.kind # "query"
    <2>1. /\ SourceOf(t, ctes, from).shape = NoColumns
          /\ SourceOf(t, ctes, from).cte \in {0, cte}
      BY <1>1, <1>6
    <2>2. QED
      BY <1>2, <1>3, <2>1 DEF from
  <1>7. CASE from.kind = "query"
    <2>1. /\ SourceOf(t, ctes, from).shape = ExtractQueryColumnFacts(t, from.query)
          /\ SourceOf(t, ctes, from).cte = 0
      BY <1>1, <1>7
    <2>2. PICK k \in DOMAIN Queries(t)[q].from :
            from = Queries(t)[q].from[k] /\ a.at = Queries(t)[q].from[k].as
      <3>1. from # [kind |-> "offset"]
        BY <1>7
      <3>2. QED
        BY <1>5, <3>1
    <2>3. Derived(t, a.at, SourceOf(t, ctes, from).shape, q, k)
      BY <1>7, <2>1, <2>2 DEF Derived
    <2>4. QED
      BY <2>1, <2>3 DEF IsDerived, from
  <1>8. QED
    BY <1>6, <1>7

(* An alias of a CTE is an alias of one of the index.                      *)
CTESources(ctes, aliases) ==
  \A i \in DOMAIN aliases.bindings :
    aliases.bindings[i].source.cte # 0 => aliases.bindings[i].source.cte \in DOMAIN ctes

(* An index of aliases.                                                    *)
IndexesAliases(t, aliases) ==
  LET b == aliases.bindings
      n == Len(b)
  IN /\ n \in Nat /\ DOMAIN b = 1..n
     /\ \A i \in 1..n :
          /\ b[i].at \in Tokens(t) /\ b[i].at \in Marked(t, DeclaredAliases)
          /\ \A x \in b[i].refs : /\ x \in Tokens(t) /\ x \in Marked(t, Expressions)
                                  /\ PathPlace(t, 1, x) /\ x \notin ItemNames(t)
                                  /\ Key(t, x) = Key(t, b[i].at)
          /\ ShapeOK(t, b[i].source.shape)
          /\ b[i].source.shape.columns = << >> \/ IsDerived(t, b[i].at, b[i].source.shape)
     /\ \A i, j \in 1..n : b[i].at = b[j].at => i = j
     /\ \A i, j \in 1..n : b[i].refs \cap b[j].refs # {} => i = j
     /\ \A m \in aliases.members :
          /\ m.at \in Tokens(t) /\ m.at \in Marked(t, Expressions) /\ PathPlace(t, 2, m.at)
          /\ \E i \in 1..n : b[i].at = m.alias /\ ~b[i].ambiguous

(* The index of aliases has each alias once, and what is qualified by it.  *)
LEMMA AliasIndexIs ==
  ASSUME NEW t, IsText(t), NEW ctes, Len(ctes) \in Nat, DOMAIN ctes = 1..Len(ctes)
  PROVE  /\ IndexesAliases(t, ExtractAliasIndex(t, ctes))
         /\ CTESources(ctes, ExtractAliasIndex(t, ctes))
  <1> DEFINE Q == Queries(t)
             D == DOMAIN Queries(t)
             scopes == AliasScopes(t)
             uses == AliasUses(t, scopes)
             local == [q \in D |-> TableAliases(Q[q])]
             refs(x) == {u.at : u \in {v \in uses : v.alias = x}}
             binding(q, i) ==
               LET same == SameKey(t, local[q], i)
                   alias == local[q][i].at
               IN [at |-> alias, refs |-> refs(alias), source |-> SourceOf(t, ctes, local[q][i].from),
                   explicit |-> TRUE, ambiguous |-> same # {i}]
             rows == [q \in D |-> [i \in DOMAIN local[q] |-> binding(q, i)]]
             order == SelectOrder(t)
             seqs == [k \in DOMAIN order |-> [i \in DOMAIN local[order[k]] |-> binding(order[k], i)]]
             b == FlattenSeq(seqs)
             n == Len(b)
             members == {[at |-> u.member, alias |-> u.alias] :
                           u \in {v \in uses : v.alias # NoToken /\ v.member # NoToken}}
             length == [q \in D |-> Len(local[q])]
             aliases == ExtractAliasIndex(t, ctes)
  <1>1. aliases.bindings = b /\ aliases.members = members
    BY DEF ExtractAliasIndex, AliasIndex, SelectOrder
  <1>2. UsesAliases(t, uses)
    BY AliasUsesAre
  <1>3. ASSUME NEW q \in D
        PROVE  /\ Len(local[q]) \in Nat /\ DOMAIN local[q] = 1..Len(local[q])
               /\ \A i \in DOMAIN local[q] :
                    /\ local[q][i].at \in Tokens(t) /\ local[q][i].at \in Marked(t, DeclaredAliases)
                    /\ ShapeOK(t, SourceOf(t, ctes, local[q][i].from).shape)
                    /\ LET source == SourceOf(t, ctes, local[q][i].from)
                       IN /\ source.shape.columns = << >> \/ IsDerived(t, local[q][i].at, source.shape)
                          /\ source.cte # 0 => source.cte \in DOMAIN ctes
                    /\ \E tag \in DeclaredAliases, k \in Nat :
                         << tag, << q, k >>, local[q][i].at >> \in Written(Queries(t), Relations(t))
               /\ \A i, j \in DOMAIN local[q] : local[q][i].at = local[q][j].at => i = j
    <2> DEFINE here == TableAliases(Q[q])
    <2>1. local[q] = here
      OBVIOUS
    <2>2. /\ Len(here) \in Nat /\ DOMAIN here = 1..Len(here)
          /\ \A i \in 1..Len(here) :
               /\ here[i].from \in Sources(Q[q]) /\ AliasOf(Q[q], here[i])
               /\ \E tag \in DeclaredAliases, k \in Nat :
                    << tag, << q, k >>, here[i].at >> \in Written(Queries(t), Relations(t))
          /\ \A i, j \in 1..Len(here) : here[i].at = here[j].at => i = j
      BY TableAliasesAre
    <2>3. \A i \in DOMAIN here : here[i].at \in Tokens(t) /\ here[i].at \in Marked(t, DeclaredAliases)
      BY AliasesMarked
    <2>. HIDE DEF here, local
    <2>4. \A i \in DOMAIN here : ShapeOK(t, SourceOf(t, ctes, here[i].from).shape)
      BY <2>2, SourceShape
    <2>5. \A i \in DOMAIN here :
            LET source == SourceOf(t, ctes, here[i].from)
            IN /\ source.shape.columns = << >> \/ IsDerived(t, here[i].at, source.shape)
               /\ source.cte # 0 => source.cte \in DOMAIN ctes
      BY <2>2, SourceIs
    <2>6. QED
      BY <2>1, <2>2, <2>3, <2>4, <2>5
  <1>. HIDE DEF uses, local
  <1>4. ASSUME NEW q \in D, NEW i \in DOMAIN local[q]
        PROVE  /\ rows[q][i].at = local[q][i].at
               /\ rows[q][i].refs = refs(local[q][i].at)
               /\ rows[q][i].source = SourceOf(t, ctes, local[q][i].from)
               /\ rows[q][i].ambiguous = (SameKey(t, local[q], i) # {i})
    OBVIOUS
  <1>5. \A q \in D : DOMAIN rows[q] = DOMAIN local[q] /\ rows[q] = [i \in DOMAIN local[q] |-> rows[q][i]]
    OBVIOUS
  <1>6. seqs = [k \in DOMAIN order |-> rows[order[k]]]
    <2>1. \A k \in DOMAIN order : order[k] \in D
      BY SelectOrderIs
    <2>. HIDE DEF order, binding, D
    <2>2. \A k \in DOMAIN order : [i \in DOMAIN local[order[k]] |-> binding(order[k], i)] = rows[order[k]]
      BY <2>1
    <2>. HIDE DEF rows
    <2>3. QED
      BY <2>2
  <1>. HIDE DEF rows, refs, D, seqs, order, local
  <1>7. /\ n \in Nat /\ DOMAIN b = 1..n /\ \E of, place : Lists(t, b, rows, of, place)
    <2>1. length \in [DOMAIN Queries(t) -> Nat]
      BY <1>3 DEF D
    <2>2. \A q \in DOMAIN Queries(t) : rows[q] = [m \in 1..length[q] |-> rows[q][m]]
      <3>1. ASSUME NEW q \in D PROVE rows[q] = [m \in 1..length[q] |-> rows[q][m]]
        <4>1. DOMAIN local[q] = 1..length[q]
          BY <1>3
        <4>. HIDE DEF length
        <4>2. QED
          BY <1>5, <4>1
      <3>2. QED
        BY <3>1 DEF D
    <2>. HIDE DEF length
    <2> DEFINE F == FlattenSeq([k \in DOMAIN SelectOrder(t) |-> rows[SelectOrder(t)[k]]])
    <2>3. b = F
      BY <1>6 DEF order
    <2>4. Len(F) \in Nat /\ DOMAIN F = 1..Len(F) /\ \E of, place : Lists(t, F, rows, of, place)
      BY <2>1, <2>2, ListsInOrder
    <2>. HIDE DEF b, F
    <2>5. QED
      BY <2>3, <2>4
  <1>. HIDE DEF b
  <1>8. PICK of, place : Lists(t, b, rows, of, place)
    BY <1>7
  <1>9. ASSUME NEW i \in 1..n
        PROVE  /\ of[i] \in D /\ place[i] \in DOMAIN local[of[i]]
               /\ b[i].at = local[of[i]][place[i]].at
               /\ b[i].refs = refs(b[i].at)
               /\ b[i].source = SourceOf(t, ctes, local[of[i]][place[i]].from)
    <2>1. of[i] \in D /\ place[i] \in DOMAIN rows[of[i]] /\ b[i] = rows[of[i]][place[i]]
      BY <1>8 DEF Lists, D
    <2> DEFINE q == of[i]
               m == place[i]
    <2>2. q \in D /\ m \in DOMAIN rows[q] /\ b[i] = rows[q][m]
      BY <2>1
    <2>. HIDE DEF q, m
    <2>3. m \in DOMAIN local[q]
      BY <1>5, <2>2
    <2>4. b[i].at = local[q][m].at /\ b[i].refs = refs(local[q][m].at)
          /\ b[i].source = SourceOf(t, ctes, local[q][m].from)
      BY <1>4, <2>2, <2>3
    <2>5. QED
      BY <2>2, <2>3, <2>4 DEF q, m
  <1>10. ASSUME NEW i \in 1..n
         PROVE  /\ b[i].at \in Tokens(t) /\ b[i].at \in Marked(t, DeclaredAliases)
                /\ \A x \in b[i].refs : /\ x \in Tokens(t) /\ x \in Marked(t, Expressions)
                                        /\ PathPlace(t, 1, x) /\ x \notin ItemNames(t)
                                        /\ Key(t, x) = Key(t, b[i].at)
                /\ ShapeOK(t, b[i].source.shape)
                /\ b[i].source.shape.columns = << >> \/ IsDerived(t, b[i].at, b[i].source.shape)
                /\ b[i].source.cte # 0 => b[i].source.cte \in DOMAIN ctes
                /\ \E tag \in DeclaredAliases, k \in Nat :
                     << tag, << of[i], k >>, b[i].at >> \in Written(Queries(t), Relations(t))
    <2>1. /\ b[i].at \in Tokens(t) /\ b[i].at \in Marked(t, DeclaredAliases)
          /\ ShapeOK(t, b[i].source.shape)
          /\ b[i].source.shape.columns = << >> \/ IsDerived(t, b[i].at, b[i].source.shape)
          /\ b[i].source.cte # 0 => b[i].source.cte \in DOMAIN ctes
          /\ \E tag \in DeclaredAliases, k \in Nat :
               << tag, << of[i], k >>, b[i].at >> \in Written(Queries(t), Relations(t))
      <3> DEFINE q == of[i]
                 m == place[i]
      <3>1. /\ q \in D /\ m \in DOMAIN local[q] /\ b[i].at = local[q][m].at
            /\ b[i].source = SourceOf(t, ctes, local[q][m].from)
        BY <1>9
      <3>. HIDE DEF q, m
      <3>2. /\ b[i].at \in Tokens(t) /\ b[i].at \in Marked(t, DeclaredAliases)
            /\ ShapeOK(t, b[i].source.shape)
            /\ b[i].source.shape.columns = << >> \/ IsDerived(t, b[i].at, b[i].source.shape)
            /\ b[i].source.cte # 0 => b[i].source.cte \in DOMAIN ctes
        BY <1>3, <3>1
      <3>3. \E tag \in DeclaredAliases, k \in Nat :
              << tag, << q, k >>, b[i].at >> \in Written(Queries(t), Relations(t))
        BY <1>3, <3>1
      <3>4. QED
        BY <3>2, <3>3 DEF q
    <2>2. b[i].at # NoToken
      BY <2>1, TextTypes
    <2>3. ASSUME NEW x \in b[i].refs
          PROVE  /\ x \in Tokens(t) /\ x \in Marked(t, Expressions) /\ Key(t, x) = Key(t, b[i].at)
                 /\ PathPlace(t, 1, x) /\ x \notin ItemNames(t)
      <3>1. PICK u \in uses : u.alias = b[i].at /\ x = u.at
        BY <1>9 DEF refs
      <3>2. QED
        BY <1>2, <2>2, <3>1 DEF UsesAliases
    <2>4. QED
      BY <2>1, <2>3
  <1>11. ASSUME NEW i \in 1..n, NEW j \in 1..n, b[i].at = b[j].at
         PROVE  i = j
    <2>1. \E tag \in DeclaredAliases, k \in Nat :
            << tag, << of[i], k >>, b[i].at >> \in Written(Queries(t), Relations(t))
      BY <1>10
    <2>2. \E tag \in DeclaredAliases, k \in Nat :
            << tag, << of[j], k >>, b[i].at >> \in Written(Queries(t), Relations(t))
      BY <1>10, <1>11
    <2>3. PICK a \in DeclaredAliases, k \in Nat :
            << a, << of[i], k >>, b[i].at >> \in Written(Queries(t), Relations(t))
      BY <2>1
    <2>4. PICK c \in DeclaredAliases, m \in Nat :
            << c, << of[j], m >>, b[i].at >> \in Written(Queries(t), Relations(t))
      BY <2>2
    <2>5. of[i] = of[j]
      <3> DEFINE u == << of[i], k >>
                 v == << of[j], m >>
                 x == b[i].at
      <3>1. /\ << a, u, x >> \in Written(Queries(t), Relations(t))
            /\ << c, v, x >> \in Written(Queries(t), Relations(t)) /\ x # NoToken
        BY <1>10, <2>3, <2>4, TextTypes
      <3>2. u = v
        <4>. HIDE DEF u, v, x
        <4>1. QED
          BY <3>1, OnePlace
      <3>3. QED
        BY <3>2
    <2>6. place[i] = place[j]
      <3> DEFINE q == of[i]
                 first == place[i]
                 second == place[j]
      <3>1. /\ q \in D /\ first \in DOMAIN local[q] /\ second \in DOMAIN local[q]
            /\ local[q][first].at = local[q][second].at
        BY <1>9, <1>11, <2>5
      <3>. HIDE DEF q, first, second
      <3>2. first = second
        BY <1>3, <3>1
      <3>3. QED
        BY <3>2 DEF first, second
    <2>7. QED
      BY <1>8, <2>5, <2>6 DEF Lists
  <1>12. ASSUME NEW i \in 1..n, NEW j \in 1..n, b[i].refs \cap b[j].refs # {}
         PROVE  i = j
    <2>1. PICK x : x \in b[i].refs /\ x \in b[j].refs
      BY <1>12
    <2>2. PICK u \in uses : u.alias = b[i].at /\ x = u.at
      BY <1>9, <2>1 DEF refs
    <2>3. PICK v \in uses : v.alias = b[j].at /\ x = v.at
      BY <1>9, <2>1 DEF refs
    <2>4. b[i].at = b[j].at
      BY <1>2, <2>2, <2>3 DEF UsesAliases
    <2>5. QED
      BY <1>11, <2>4
  <1>13. ASSUME NEW m \in members
         PROVE  /\ m.at \in Tokens(t) /\ m.at \in Marked(t, Expressions) /\ PathPlace(t, 2, m.at)
                /\ \E i \in 1..n : b[i].at = m.alias /\ ~b[i].ambiguous
    <2>1. PICK u \in uses : /\ u.alias # NoToken /\ u.member # NoToken
                            /\ m.at = u.member /\ m.alias = u.alias
      OBVIOUS
    <2>2. /\ m.at \in Tokens(t) /\ m.at \in Marked(t, Expressions) /\ PathPlace(t, 2, m.at)
          /\ m.alias \in SoleAliases(t)
      BY <1>2, <2>1 DEF UsesAliases
    <2> DEFINE Here(q) == \E i \in DOMAIN TableAliases(Q[q]) :
                            /\ m.alias = TableAliases(Q[q])[i].at
                            /\ SameKey(t, TableAliases(Q[q]), i) = {i}
    <2>3. PICK q \in D : Here(q)
      BY <2>2 DEF SoleAliases, D
    <2>4. PICK i \in DOMAIN TableAliases(Q[q]) : /\ m.alias = TableAliases(Q[q])[i].at
                                                 /\ SameKey(t, TableAliases(Q[q]), i) = {i}
      BY <2>3
    <2>5. local[q] = TableAliases(Q[q])
      BY DEF local, D
    <2>6. /\ i \in DOMAIN local[q] /\ i \in DOMAIN rows[q]
          /\ rows[q][i].at = m.alias /\ ~rows[q][i].ambiguous
      BY <1>4, <1>5, <2>4, <2>5
    <2>7. \A r \in D : \A k \in DOMAIN rows[r] : \E j \in 1..n : of[j] = r /\ place[j] = k
      BY <1>8 DEF Lists, D
    <2>8. PICK j \in 1..n : of[j] = q /\ place[j] = i
      BY <2>6, <2>7
    <2>9. b[j] = rows[q][i]
      BY <1>8, <2>8 DEF Lists
    <2>10. QED
      BY <2>2, <2>6, <2>8, <2>9
  <1>. HIDE DEF members, n
  <1>14. QED
    <2>1. n = Len(aliases.bindings)
      BY <1>1 DEF n
    <2>. HIDE DEF aliases
    <2>2. IndexesAliases(t, aliases)
      BY <1>1, <1>7, <1>10, <1>11, <1>12, <1>13, <2>1 DEF IndexesAliases
    <2>3. CTESources(ctes, aliases)
      BY <1>1, <1>7, <1>10 DEF CTESources
    <2>4. QED
      BY <2>2, <2>3 DEF aliases

------------------------------------------------------------------------------
(***************************************************************************)
(* Results                                                                 *)
(***************************************************************************)
(* A token names one item.                                                 *)
LEMMA ResultOnce ==
  ASSUME NEW t, IsText(t), NEW x, x # NoToken, NEW q, NEW k, NEW r, NEW l,
         ResultAt(t, q, k, x), ResultAt(t, r, l, x)
  PROVE  q = r /\ k = l
  <1> DEFINE W == Written(Queries(t), Relations(t))
  <1>1. ASSUME << "as", << q, k >>, x >> \in W, << "as", << r, l >>, x >> \in W
        PROVE  q = r /\ k = l
    <2> DEFINE u == << q, k >>
               v == << r, l >>
    <2>1. << "as", u, x >> \in W /\ << "as", v, x >> \in W
      BY <1>1
    <2>2. u = v
      <3>. HIDE DEF u, v
      <3>1. QED
        BY <2>1, OnePlace
    <2>3. QED
      BY <2>2
  <1>2. ASSUME NEW m, << "item", << << q, k >>, m >>, x >> \in W,
               NEW n, << "item", << << r, l >>, n >>, x >> \in W
        PROVE  q = r /\ k = l
    <2> DEFINE u == << << q, k >>, m >>
               v == << << r, l >>, n >>
    <2>1. << "item", u, x >> \in W /\ << "item", v, x >> \in W
      BY <1>2
    <2>2. u = v
      <3>. HIDE DEF u, v
      <3>1. QED
        BY <2>1, OnePlace
    <2>3. QED
      BY <2>2
  <1>3. ASSUME NEW u, NEW v, << "as", u, x >> \in W, << "item", v, x >> \in W
        PROVE  FALSE
    <2>1. "as" = "item"
      BY <1>3, OnePlace
    <2>2. QED
      BY <2>1
  <1>4. QED
    BY <1>1, <1>2, <1>3 DEF ResultAt

(* The items of a SELECT that have names, each once.                       *)
NamedItems(query) ==
  LET items == query.items
  IN FlattenSeq([i \in DOMAIN items |->
       IF SelectItemAlias(items[i]) = NoToken THEN << >> ELSE << items[i] >>])

LEMMA NamedItemsAre ==
  ASSUME NEW t, IsText(t), NEW q \in DOMAIN Queries(t)
  PROVE  LET named == NamedItems(Queries(t)[q])
             n == Len(named)
         IN /\ n \in Nat /\ DOMAIN named = 1..n
            /\ \A i \in 1..n :
                 /\ SelectItemAlias(named[i]) # NoToken /\ SelectItemAlias(named[i]) \in Tokens(t)
                 /\ \E k : ItemNamed(t, q, k, SelectItemAlias(named[i]))
                 /\ named[i].as # NoToken => SelectItemAlias(named[i]) \in Marked(t, {"as"})
            /\ \A i, j \in 1..n : SelectItemAlias(named[i]) = SelectItemAlias(named[j]) => i = j
  <1> DEFINE items == Queries(t)[q].items
             N == Len(items)
             entry(k) == IF SelectItemAlias(items[k]) = NoToken THEN << >> ELSE << items[k] >>
             seqs == [k \in DOMAIN items |-> entry(k)]
             length == [k \in 1..N |-> IF SelectItemAlias(items[k]) = NoToken THEN 0 ELSE 1]
             F == FlattenSeq(seqs)
             n == Len(F)
  <1>1. NamedItems(Queries(t)[q]) = F
    BY DEF NamedItems
  <1>2. N \in Nat /\ DOMAIN items = 1..N
    <2>1. items \in Seq([expr : Seq(Tokens(t)), as : Tokens(t) \cup {NoToken}, star : BOOLEAN])
      BY QueryTypes
    <2>. HIDE DEF items
    <2>2. QED
      BY <2>1
  <1>3. ASSUME NEW k \in 1..N, SelectItemAlias(items[k]) # NoToken
        PROVE  /\ SelectItemAlias(items[k]) \in Tokens(t)
               /\ ResultAt(t, q, k, SelectItemAlias(items[k]))
               /\ ItemNamed(t, q, k, SelectItemAlias(items[k]))
               /\ items[k].as # NoToken => SelectItemAlias(items[k]) \in Marked(t, {"as"})
    BY <1>2, <1>3, ItemAliasIs DEF ItemNamed
  <1>. HIDE DEF items
  <1>4. ASSUME NEW k \in 1..N
        PROVE  /\ seqs[k] = [m \in 1..length[k] |-> seqs[k][m]]
               /\ \A m \in 1..length[k] :
                    m = 1 /\ seqs[k][m] = items[k] /\ SelectItemAlias(items[k]) # NoToken
    <2>1. CASE SelectItemAlias(items[k]) = NoToken
      <3>1. seqs[k] = << >> /\ length[k] = 0
        BY <1>2, <2>1
      <3>. HIDE DEF seqs, length
      <3>2. QED
        BY <3>1
    <2>2. CASE SelectItemAlias(items[k]) # NoToken
      <3>1. seqs[k] = << items[k] >> /\ length[k] = 1
        BY <1>2, <2>2
      <3>. HIDE DEF seqs, length
      <3>2. QED
        BY <2>2, <3>1
    <2>3. QED
      BY <2>1, <2>2
  <1>5. length \in [1..N -> Nat] /\ seqs = [k \in 1..N |-> seqs[k]]
    BY <1>2
  <1>. HIDE DEF seqs, length, N
  <1>6. n \in Nat /\ DOMAIN F = 1..n /\ \E piece, place : Concatenates(F, seqs, N, piece, place)
    <2>1. N \in Nat
      BY <1>2 DEF N
    <2>2. \A k \in 1..N : seqs[k] = [m \in 1..length[k] |-> seqs[k][m]]
      BY <1>4
    <2>3. QED
      BY <1>5, <2>1, <2>2, FlattenedSequences
  <1>. HIDE DEF F
  <1>7. PICK piece, place : Concatenates(F, seqs, N, piece, place)
    BY <1>6
  <1>8. ASSUME NEW i \in 1..n
        PROVE  /\ piece[i] \in 1..N /\ place[i] = 1 /\ F[i] = items[piece[i]]
               /\ SelectItemAlias(items[piece[i]]) # NoToken
    <2>1. piece[i] \in 1..N /\ place[i] \in DOMAIN seqs[piece[i]] /\ F[i] = seqs[piece[i]][place[i]]
      BY <1>6, <1>7 DEF Concatenates
    <2> DEFINE k == piece[i]
               m == place[i]
    <2>2. k \in 1..N /\ m \in DOMAIN seqs[k] /\ F[i] = seqs[k][m]
      BY <2>1
    <2>. HIDE DEF k, m
    <2>3. m \in 1..length[k]
      <3>1. seqs[k] = [z \in 1..length[k] |-> seqs[k][z]]
        BY <1>4, <2>2
      <3>2. DOMAIN seqs[k] = 1..length[k]
        BY <3>1
      <3>3. QED
        BY <2>2, <3>2
    <2>4. QED
      BY <1>4, <2>2, <2>3 DEF k, m
  <1>9. ASSUME NEW i \in 1..n, NEW j \in 1..n, SelectItemAlias(F[i]) = SelectItemAlias(F[j])
        PROVE  i = j
    <2> DEFINE x == SelectItemAlias(F[i])
               k == piece[i]
               l == piece[j]
    <2>1. /\ k \in 1..N /\ x = SelectItemAlias(items[k]) /\ x # NoToken
          /\ l \in 1..N /\ x = SelectItemAlias(items[l]) /\ place[i] = place[j]
      BY <1>8, <1>9
    <2>. HIDE DEF x, k, l
    <2>2. k = l
      BY <1>3, <2>1, ResultOnce DEF N
    <2>3. QED
      BY <1>6, <1>7, <2>1, <2>2 DEF Concatenates, k, l
  <1>10. ASSUME NEW i \in 1..n
         PROVE  /\ SelectItemAlias(F[i]) # NoToken /\ SelectItemAlias(F[i]) \in Tokens(t)
                /\ \E k : ItemNamed(t, q, k, SelectItemAlias(F[i]))
                /\ F[i].as # NoToken => SelectItemAlias(F[i]) \in Marked(t, {"as"})
    BY <1>3, <1>8 DEF N
  <1>11. QED
    BY <1>1, <1>6, <1>9, <1>10

\* The tokens of the paths of GROUP BY, HAVING and ORDER BY.
Asked == {"group", "order"}

AskedAt(t, q, x) ==
  \E tag \in Asked : \E e : \E k : << tag, << << q, e >>, k >>, x >> \in Written(Queries(t), Relations(t))

LEMMA AskedTokens ==
  ASSUME NEW t, IsText(t), NEW q \in DOMAIN Queries(t),
         NEW e \in Queries(t)[q].group \cup Queries(t)[q].order
  PROVE  /\ 1 \in DOMAIN e
         /\ \A k \in DOMAIN e : /\ e[k] \in Tokens(t) /\ AskedAt(t, q, e[k])
                              /\ e[k] \in Marked(t, Asked) /\ PathPlace(t, k, e[k])
  <1>1. e \in Seq(Tokens(t)) \ {<< >>}
    BY QueryTypes
  <1>2. 1 \in DOMAIN e /\ \A k \in DOMAIN e : e[k] \in Tokens(t)
    BY <1>1
  <1>3. PICK tag \in Asked : Along(tag, << q, e >>, e) \subseteq Written(Queries(t), Relations(t))
    BY QueryTokens DEF Asked
  <1>4. ASSUME NEW k \in DOMAIN e
        PROVE  AskedAt(t, q, e[k]) /\ e[k] \in Marked(t, Asked) /\ PathPlace(t, k, e[k])
    <2>1. << tag, << << q, e >>, k >>, e[k] >> \in Written(Queries(t), Relations(t))
      BY <1>3, TokenAlong
    <2>2. e[k] \in Marked(t, Asked)
      BY <2>1, MarkedHere
    <2>3. tag \in Expressions
      BY DEF Asked, Expressions
    <2>4. QED
      BY <2>1, <2>2, <2>3 DEF AskedAt, PathPlace
  <1>5. QED
    BY <1>2, <1>4

(* A token is asked in one SELECT.                                         *)
LEMMA AskedOnce ==
  ASSUME NEW t, IsText(t), NEW x, x # NoToken, NEW q, NEW r, AskedAt(t, q, x), AskedAt(t, r, x)
  PROVE  q = r
  <1> DEFINE W == Written(Queries(t), Relations(t))
             In(s, tag) == \E e : \E k : << tag, << << s, e >>, k >>, x >> \in W
  <1>1. PICK a \in Asked : In(q, a)
    BY DEF AskedAt
  <1>2. PICK b \in Asked : In(r, b)
    BY DEF AskedAt
  <1>3. PICK e, k : << a, << << q, e >>, k >>, x >> \in W
    BY <1>1
  <1>4. PICK f, m : << b, << << r, f >>, m >>, x >> \in W
    BY <1>2
  <1> DEFINE u == << << q, e >>, k >>
             v == << << r, f >>, m >>
  <1>5. << a, u, x >> \in W /\ << b, v, x >> \in W
    BY <1>3, <1>4
  <1>6. u = v
    <2>. HIDE DEF u, v
    <2>1. QED
      BY <1>5, OnePlace
  <1>7. QED
    BY <1>6

(* An index of results.                                                    *)
IndexesResults(t, aliases, results) ==
  LET b == results.bindings
      n == Len(b)
  IN /\ n \in Nat /\ DOMAIN b = 1..n
     /\ \A i \in 1..n :
          /\ b[i].at \in Tokens(t) /\ b[i].at \in Marked(t, Results) /\ b[i].at \in ItemNames(t)
          /\ b[i].explicit => b[i].at \in Marked(t, {"as"})
          /\ \A x \in b[i].refs : /\ x \in Tokens(t) /\ x \in Marked(t, Asked)
                                  /\ PathPlace(t, 1, x) /\ SiteAtPosition(aliases.bindings, x) = 0
                                  /\ Key(t, x) = Key(t, b[i].at)
     /\ \A i, j \in 1..n : b[i].at = b[j].at => i = j
     /\ \A i, j \in 1..n : b[i].refs \cap b[j].refs # {} => i = j
     /\ \A x \in results.ambiguous : x \in Tokens(t) /\ x \in Marked(t, Asked)

(* The index of results has each once, and what refers to it.              *)
LEMMA ResultIndexIs ==
  ASSUME NEW t, IsText(t), NEW aliases
  PROVE  IndexesResults(t, aliases, ExtractSelectAliasIndex(t, aliases))
  <1> DEFINE Q == Queries(t)
             D == DOMAIN Queries(t)
             named(q) == NamedItems(Q[q])
             asked(q) == Q[q].group \cup Q[q].order
             qualified(path) == SiteAtPosition(aliases.bindings, path[1]) # 0
             heads(q) == {path[1] : path \in {e \in asked(q) : ~qualified(e)}}
             declared(q, key) ==
               {SelectItemAlias(named(q)[i]) : i \in {j \in DOMAIN named(q) :
                  Key(t, SelectItemAlias(named(q)[j])) = key}}
             refs(q, x) == {y \in heads(q) : declared(q, Key(t, x)) = {x} /\ Key(t, y) = Key(t, x)}
             binding(q, item) ==
               LET alias == SelectItemAlias(item)
                   unique == declared(q, Key(t, alias)) = {alias}
               IN [at |-> alias, query |-> q, explicit |-> item.as # NoToken, ambiguous |-> ~unique,
                   refs |-> {x \in heads(q) : unique /\ Key(t, x) = Key(t, alias)}]
             order == SelectOrder(t)
             seqs == [k \in DOMAIN order |->
                        [i \in DOMAIN named(order[k]) |-> binding(order[k], named(order[k])[i])]]
             b == FlattenSeq(seqs)
             n == Len(b)
             ambiguous == UNION {{x \in heads(q) : Cardinality(declared(q, Key(t, x))) > 1}
                                   \cup UNION {ToSet(e) : e \in {f \in asked(q) : qualified(f)}}
                                 : q \in D}
             rows == [q \in D |-> [i \in DOMAIN named(q) |-> binding(q, named(q)[i])]]
             length == [q \in D |-> Len(named(q))]
             at(q, i) == SelectItemAlias(named(q)[i])
             results == ExtractSelectAliasIndex(t, aliases)
  <1>1. results.bindings = b /\ results.ambiguous = ambiguous
    BY DEF ExtractSelectAliasIndex, SelectOrder, NamedItems
  <1>2. ASSUME NEW q \in D
        PROVE  /\ Len(named(q)) \in Nat /\ DOMAIN named(q) = 1..Len(named(q))
               /\ \A i \in DOMAIN named(q) :
                    /\ at(q, i) # NoToken /\ at(q, i) \in Tokens(t)
                    /\ \E k : ItemNamed(t, q, k, at(q, i))
                    /\ named(q)[i].as # NoToken => at(q, i) \in Marked(t, {"as"})
               /\ \A i, j \in DOMAIN named(q) : at(q, i) = at(q, j) => i = j
    BY NamedItemsAre
  <1>3. ASSUME NEW q \in D, NEW x \in heads(q)
        PROVE  /\ x \in Tokens(t) /\ AskedAt(t, q, x) /\ x \in Marked(t, Asked)
               /\ PathPlace(t, 1, x) /\ SiteAtPosition(aliases.bindings, x) = 0
    <2>1. PICK e \in asked(q) : x = e[1] /\ ~qualified(e)
      OBVIOUS
    <2>2. QED
      BY <2>1, AskedTokens
  <1>. HIDE DEF heads, named
  <1>4. ASSUME NEW q \in D, NEW i \in DOMAIN named(q)
        PROVE  /\ rows[q][i].at = at(q, i) /\ rows[q][i].refs = refs(q, at(q, i))
               /\ rows[q][i].explicit = (named(q)[i].as # NoToken)
    OBVIOUS
  <1>5. \A q \in D : DOMAIN rows[q] = DOMAIN named(q) /\ rows[q] = [i \in DOMAIN named(q) |-> rows[q][i]]
    OBVIOUS
  <1>6. seqs = [k \in DOMAIN order |-> rows[order[k]]]
    <2>1. \A k \in DOMAIN order : order[k] \in D
      BY SelectOrderIs
    <2>. HIDE DEF order, binding, D
    <2>2. \A k \in DOMAIN order :
            [i \in DOMAIN named(order[k]) |-> binding(order[k], named(order[k])[i])] = rows[order[k]]
      BY <2>1
    <2>. HIDE DEF rows
    <2>3. QED
      BY <2>2
  <1>7. \A x \in ambiguous : x \in Tokens(t) /\ x \in Marked(t, Asked)
    <2>1. ASSUME NEW x \in ambiguous PROVE x \in Tokens(t) /\ x \in Marked(t, Asked)
      <3>1. PICK q \in D : \/ x \in heads(q)
                           \/ \E e \in asked(q) : x \in ToSet(e)
        <4>. HIDE DEF declared, qualified, asked, D
        <4>1. QED
          OBVIOUS
      <3>2. CASE x \in heads(q)
        BY <1>3, <3>2
      <3>3. CASE \E e \in asked(q) : x \in ToSet(e)
        <4>1. PICK e \in asked(q) : \E k \in DOMAIN e : x = e[k]
          BY <3>3 DEF ToSet
        <4>2. QED
          BY <4>1, AskedTokens
      <3>4. QED
        BY <3>1, <3>2, <3>3
    <2>2. QED
      BY <2>1
  <1>. HIDE DEF rows, refs, D, seqs, order, ambiguous
  <1>8. n \in Nat /\ DOMAIN b = 1..n /\ \E of, place : Lists(t, b, rows, of, place)
    <2>1. length \in [DOMAIN Queries(t) -> Nat]
      BY <1>2 DEF D
    <2>2. \A q \in DOMAIN Queries(t) : rows[q] = [m \in 1..length[q] |-> rows[q][m]]
      <3>1. ASSUME NEW q \in D PROVE rows[q] = [m \in 1..length[q] |-> rows[q][m]]
        <4>1. DOMAIN named(q) = 1..length[q]
          BY <1>2
        <4>. HIDE DEF length
        <4>2. QED
          BY <1>5, <4>1
      <3>2. QED
        BY <3>1 DEF D
    <2>. HIDE DEF length
    <2> DEFINE F == FlattenSeq([k \in DOMAIN SelectOrder(t) |-> rows[SelectOrder(t)[k]]])
    <2>3. b = F
      BY <1>6 DEF order
    <2>4. Len(F) \in Nat /\ DOMAIN F = 1..Len(F) /\ \E of, place : Lists(t, F, rows, of, place)
      BY <2>1, <2>2, ListsInOrder
    <2>. HIDE DEF b, F
    <2>5. QED
      BY <2>3, <2>4
  <1>. HIDE DEF b, at
  <1>9. PICK of, place : Lists(t, b, rows, of, place)
    BY <1>8
  <1>10. ASSUME NEW i \in 1..n
         PROVE  /\ of[i] \in D /\ place[i] \in DOMAIN named(of[i])
                /\ b[i].at = at(of[i], place[i]) /\ b[i].refs = refs(of[i], b[i].at)
                /\ b[i].explicit = (named(of[i])[place[i]].as # NoToken)
    <2>1. of[i] \in D /\ place[i] \in DOMAIN rows[of[i]] /\ b[i] = rows[of[i]][place[i]]
      BY <1>9 DEF Lists, D
    <2> DEFINE q == of[i]
               m == place[i]
    <2>2. q \in D /\ m \in DOMAIN rows[q] /\ b[i] = rows[q][m]
      BY <2>1
    <2>. HIDE DEF q, m
    <2>3. m \in DOMAIN named(q)
      BY <1>5, <2>2
    <2>4. /\ b[i].at = at(q, m) /\ b[i].refs = refs(q, at(q, m))
          /\ b[i].explicit = (named(q)[m].as # NoToken)
      BY <1>4, <2>2, <2>3
    <2>5. QED
      BY <2>2, <2>3, <2>4 DEF q, m
  <1>11. ASSUME NEW i \in 1..n
         PROVE  /\ b[i].at \in Tokens(t) /\ b[i].at # NoToken
                /\ \E k : ResultAt(t, of[i], k, b[i].at)
                /\ b[i].at \in ItemNames(t) /\ (b[i].explicit => b[i].at \in Marked(t, {"as"}))
    <2> DEFINE q == of[i]
               m == place[i]
    <2>1. /\ q \in D /\ m \in DOMAIN named(q) /\ b[i].at = at(q, m)
          /\ b[i].explicit = (named(q)[m].as # NoToken)
      BY <1>10
    <2>. HIDE DEF q, m
    <2>2. /\ at(q, m) # NoToken /\ at(q, m) \in Tokens(t) /\ \E k : ItemNamed(t, q, k, at(q, m))
          /\ named(q)[m].as # NoToken => at(q, m) \in Marked(t, {"as"})
      BY <1>2, <2>1
    <2>3. PICK k : ItemNamed(t, q, k, at(q, m))
      BY <2>2
    <2>4. ResultAt(t, q, k, at(q, m)) /\ at(q, m) \in ItemNames(t)
      BY <2>3, ItemNamesAre
    <2>5. QED
      BY <2>1, <2>2, <2>4 DEF q
  <1>12. ASSUME NEW i \in 1..n
         PROVE  /\ b[i].at \in Tokens(t) /\ b[i].at \in Marked(t, Results) /\ b[i].at \in ItemNames(t)
                /\ b[i].explicit => b[i].at \in Marked(t, {"as"})
                /\ \A x \in b[i].refs : /\ x \in Tokens(t) /\ x \in Marked(t, Asked)
                                        /\ PathPlace(t, 1, x) /\ SiteAtPosition(aliases.bindings, x) = 0
                                        /\ Key(t, x) = Key(t, b[i].at)
    <2>1. b[i].at \in Marked(t, Results)
      BY <1>11, ResultMarked
    <2>2. ASSUME NEW x \in b[i].refs
          PROVE  /\ x \in Tokens(t) /\ x \in Marked(t, Asked) /\ Key(t, x) = Key(t, b[i].at)
                 /\ PathPlace(t, 1, x) /\ SiteAtPosition(aliases.bindings, x) = 0
      BY <1>3, <1>10 DEF refs
    <2>3. QED
      BY <1>11, <2>1, <2>2
  <1>13. ASSUME NEW i \in 1..n, NEW j \in 1..n, b[i].at = b[j].at
         PROVE  i = j
    <2>1. of[i] = of[j]
      BY <1>11, <1>13, ResultOnce
    <2>2. place[i] = place[j]
      <3> DEFINE q == of[i]
                 k == place[i]
                 m == place[j]
      <3>1. q \in D /\ k \in DOMAIN named(q) /\ m \in DOMAIN named(q) /\ at(q, k) = at(q, m)
        BY <1>10, <1>13, <2>1
      <3>. HIDE DEF q, k, m
      <3>2. k = m
        BY <1>2, <3>1
      <3>3. QED
        BY <3>2 DEF k, m
    <2>3. QED
      BY <1>9, <2>1, <2>2 DEF Lists
  <1>14. ASSUME NEW i \in 1..n, NEW j \in 1..n, b[i].refs \cap b[j].refs # {}
         PROVE  i = j
    <2>1. PICK x : x \in b[i].refs /\ x \in b[j].refs
      BY <1>14
    <2>2. /\ x \in heads(of[i]) /\ declared(of[i], Key(t, b[i].at)) = {b[i].at} /\ Key(t, x) = Key(t, b[i].at)
          /\ x \in heads(of[j]) /\ declared(of[j], Key(t, b[j].at)) = {b[j].at} /\ Key(t, x) = Key(t, b[j].at)
      <3>. HIDE DEF declared
      <3>1. QED
        BY <1>10, <2>1 DEF refs
    <2>. HIDE DEF declared
    <2>3. of[i] = of[j]
      <3>1. of[i] \in D /\ of[j] \in D
        BY <1>10
      <3>2. x # NoToken /\ AskedAt(t, of[i], x) /\ AskedAt(t, of[j], x)
        BY <1>3, <2>2, <3>1, TextTypes
      <3>3. QED
        BY <3>2, AskedOnce
    <2>4. {b[i].at} = {b[j].at}
      BY <2>2, <2>3
    <2>5. b[i].at = b[j].at
      BY <2>4
    <2>6. QED
      BY <1>13, <2>5
  <1>. HIDE DEF n
  <1>15. QED
    <2>1. n = Len(results.bindings)
      BY <1>1 DEF n
    <2>. HIDE DEF results
    <2>2. IndexesResults(t, aliases, results)
      BY <1>1, <1>7, <1>8, <1>12, <1>13, <1>14, <2>1 DEF IndexesResults
    <2>3. QED
      BY <2>2 DEF results

------------------------------------------------------------------------------
(***************************************************************************)
(* Columns                                                                 *)
(***************************************************************************)
(* The tokens that are written in queries, in other places than relations. *)
InQueries(t) ==
  Tokens(t) \cap Marked(t, {"cte", "from"} \cup DeclaredAliases \cup Expressions \cup Results)

LEMMA MarkedInQueries ==
  ASSUME NEW t, NEW x \in Tokens(t), NEW tags, x \in Marked(t, tags),
         tags \in {{"cte"}, {"from"}, DeclaredAliases, Expressions, Results, Asked}
  PROVE  x \in InQueries(t)
  <1>1. tags \subseteq {"cte", "from"} \cup DeclaredAliases \cup Expressions \cup Results
    BY DEF Asked, Expressions
  <1>2. QED
    BY <1>1 DEF InQueries, Marked

(* A binding of a text: where it is declared and referred to is written in *)
(* a query, and has its name.                                              *)
BindingOK(t, b) ==
  b.at \in InQueries(t) /\ \A x \in b.refs : x \in InQueries(t) /\ Key(t, x) = Key(t, b.at)

(* A sequence of bindings.                                                 *)
BindingsOK(t, s) ==
  \E m \in Nat : s = [k \in 1..m |-> s[k]] /\ \A k \in 1..m : BindingOK(t, s[k])

(* The columns of a shape are bindings, asked for by members and results.  *)
LEMMA ColumnsBound ==
  ASSUME NEW t, IsText(t), NEW i, NEW shape, ShapeOK(t, shape),
         NEW aliases, IndexesAliases(t, aliases), NEW results, IndexesResults(t, aliases, results),
         NEW owners
  PROVE  BindingsOK(t, ColumnBindingsOf(t, i, shape, aliases, results, owners))
  <1> DEFINE members(c) == {m.at : m \in {n \in aliases.members :
                              n.alias \in owners /\ Key(t, n.at) = Key(t, c.at)}}
             asked(c) == UNION {b.refs : b \in {s \in ToSet(results.bindings) : s.at = c.at}}
             binding(c) == [at |-> c.at, scope |-> i, explicit |-> c.explicit, ambiguous |-> FALSE,
                            column |-> c, refs |-> members(c) \cup asked(c)]
             C == ColumnBindingsOf(t, i, shape, aliases, results, owners)
  <1>1. C = [k \in DOMAIN shape.columns |-> binding(shape.columns[k])]
    BY DEF ColumnBindingsOf
  <1>2. PICK m \in Nat : /\ DOMAIN shape.columns = 1..m
                         /\ \A k \in 1..m : /\ shape.columns[k].at \in Tokens(t)
                                           /\ shape.columns[k].at \in Marked(t, Results)
    BY DEF ShapeOK
  <1>3. ASSUME NEW c, c.at \in InQueries(t) PROVE BindingOK(t, binding(c))
    <2>1. ASSUME NEW x \in members(c) PROVE x \in InQueries(t) /\ Key(t, x) = Key(t, c.at)
      BY <2>1, MarkedInQueries DEF IndexesAliases
    <2>2. ASSUME NEW x \in asked(c) PROVE x \in InQueries(t) /\ Key(t, x) = Key(t, c.at)
      <3>1. PICK b \in ToSet(results.bindings) : b.at = c.at /\ x \in b.refs
        BY <2>2
      <3>2. PICK j \in 1..Len(results.bindings) : b = results.bindings[j]
        BY <3>1 DEF IndexesResults, ToSet
      <3>3. QED
        BY <3>1, <3>2, MarkedInQueries DEF IndexesResults
    <2>3. binding(c).at = c.at /\ binding(c).refs = members(c) \cup asked(c)
      <3>. HIDE DEF members, asked
      <3>1. QED
        OBVIOUS
    <2>. HIDE DEF members, asked, binding
    <2>4. QED
      BY <1>3, <2>1, <2>2, <2>3 DEF BindingOK
  <1>. HIDE DEF binding, C
  <1>4. C = [k \in 1..m |-> C[k]]
    BY <1>1, <1>2
  <1>5. \A k \in 1..m : BindingOK(t, C[k])
    <2>1. \A k \in 1..m : shape.columns[k].at \in InQueries(t)
      BY <1>2, MarkedInQueries
    <2>2. QED
      BY <1>1, <1>2, <1>3, <2>1
  <1>6. BindingsOK(t, C)
    BY <1>4, <1>5 DEF BindingsOK
  <1>7. QED
    BY <1>6 DEF C

(* An index of a text.                                                     *)
IndexOK(t, index) ==
  /\ Len(index) \in Nat /\ DOMAIN index = 1..Len(index)
  /\ \A i \in DOMAIN index : BindingOK(t, index[i])

(* What asks for the column y of some aliases: a member of one of them, or *)
(* what refers to the result that y names.                                 *)
AsksFor(t, aliases, results, owners, y, x) ==
  \/ \E m \in aliases.members : m.alias \in owners /\ Key(t, m.at) = Key(t, y) /\ x = m.at
  \/ \E b \in ToSet(results.bindings) : b.at = y /\ x \in b.refs

ColumnIs(t, aliases, results, owners, y, b) ==
  b.at = y /\ \A x : x \in b.refs <=> AsksFor(t, aliases, results, owners, y, x)

(* The columns of a shape, and what asks for each.                         *)
LEMMA ColumnsListed ==
  ASSUME NEW t, NEW i, NEW shape, NEW aliases, NEW results, NEW owners
  PROVE  LET C == ColumnBindingsOf(t, i, shape, aliases, results, owners)
         IN /\ DOMAIN C = DOMAIN shape.columns
            /\ \A k \in DOMAIN C : ColumnIs(t, aliases, results, owners, shape.columns[k].at, C[k])
  <1> DEFINE members(c) == {m.at : m \in {n \in aliases.members :
                              n.alias \in owners /\ Key(t, n.at) = Key(t, c.at)}}
             asked(c) == UNION {b.refs : b \in {s \in ToSet(results.bindings) : s.at = c.at}}
             binding(c) == [at |-> c.at, scope |-> i, explicit |-> c.explicit, ambiguous |-> FALSE,
                            column |-> c, refs |-> members(c) \cup asked(c)]
             C == ColumnBindingsOf(t, i, shape, aliases, results, owners)
  <1>1. C = [k \in DOMAIN shape.columns |-> binding(shape.columns[k])]
    BY DEF ColumnBindingsOf
  <1>2. ASSUME NEW c PROVE ColumnIs(t, aliases, results, owners, c.at, binding(c))
    <2>1. \A x : x \in members(c) <=> \E m \in aliases.members :
                    m.alias \in owners /\ Key(t, m.at) = Key(t, c.at) /\ x = m.at
      OBVIOUS
    <2>2. \A x : x \in asked(c) <=> \E b \in ToSet(results.bindings) : b.at = c.at /\ x \in b.refs
      OBVIOUS
    <2>3. binding(c).at = c.at /\ binding(c).refs = members(c) \cup asked(c)
      <3>. HIDE DEF members, asked
      <3>1. QED
        OBVIOUS
    <2>. HIDE DEF members, asked, binding
    <2>4. QED
      BY <2>1, <2>2, <2>3 DEF ColumnIs, AsksFor
  <1>. HIDE DEF binding, C
  <1>3. DOMAIN C = DOMAIN shape.columns /\ \A k \in DOMAIN C : C[k] = binding(shape.columns[k])
    BY <1>1
  <1>4. QED
    BY <1>2, <1>3 DEF C

(* An index of the columns of some shapes.                                 *)
IndexesColumns(t, aliases, results, index, shapes, owners) ==
  /\ \A i \in DOMAIN index : \E k \in DOMAIN shapes : \E l \in DOMAIN shapes[k].columns :
       ColumnIs(t, aliases, results, owners[k], shapes[k].columns[l].at, index[i])
  /\ \A k \in DOMAIN shapes : \A l \in DOMAIN shapes[k].columns : \E i \in DOMAIN index :
       ColumnIs(t, aliases, results, owners[k], shapes[k].columns[l].at, index[i])

(* Sequences, one after another.                                           *)
Joins(F, N, seqs) ==
  /\ Len(F) \in Nat /\ DOMAIN F = 1..Len(F)
  /\ \A i \in DOMAIN F : \E k \in 1..N : \E l \in DOMAIN seqs[k] : F[i] = seqs[k][l]
  /\ \A k \in 1..N : \A l \in DOMAIN seqs[k] : \E i \in DOMAIN F : F[i] = seqs[k][l]

LEMMA SequencesJoined ==
  ASSUME NEW N \in Nat, NEW seqs, seqs = [k \in 1..N |-> seqs[k]],
         \A k \in 1..N : \E m \in Nat : seqs[k] = [j \in 1..m |-> seqs[k][j]]
  PROVE  Joins(FlattenSeq(seqs), N, seqs)
  <1> DEFINE F == FlattenSeq(seqs)
             fits(k, m) == seqs[k] = [j \in 1..m |-> seqs[k][j]]
             length == [k \in 1..N |-> CHOOSE m \in Nat : fits(k, m)]
  <1>1. ASSUME NEW k \in 1..N PROVE length[k] \in Nat /\ fits(k, length[k])
    <2>1. \E m \in Nat : fits(k, m)
      OBVIOUS
    <2>. HIDE DEF fits
    <2>2. QED
      BY <2>1
  <1>2. length \in [1..N -> Nat]
    <2>. HIDE DEF fits
    <2>1. QED
      BY <1>1
  <1>. HIDE DEF length
  <1>3. \A k \in 1..N : seqs[k] = [j \in 1..length[k] |-> seqs[k][j]]
    BY <1>1
  <1>4. /\ Len(F) \in Nat /\ DOMAIN F = 1..Len(F)
        /\ \E entry, place : Concatenates(F, seqs, N, entry, place)
    BY <1>2, <1>3, FlattenedSequences
  <1>5. PICK entry, place : Concatenates(F, seqs, N, entry, place)
    BY <1>4
  <1>. HIDE DEF F
  <1>6. ASSUME NEW i \in DOMAIN F PROVE \E k \in 1..N : \E l \in DOMAIN seqs[k] : F[i] = seqs[k][l]
    <2>1. entry[i] \in 1..N /\ place[i] \in DOMAIN seqs[entry[i]] /\ F[i] = seqs[entry[i]][place[i]]
      BY <1>5 DEF Concatenates
    <2> DEFINE k == entry[i]
               l == place[i]
    <2>2. k \in 1..N /\ l \in DOMAIN seqs[k] /\ F[i] = seqs[k][l]
      BY <2>1
    <2>. HIDE DEF k, l
    <2>3. QED
      BY <2>2
  <1>7. ASSUME NEW k \in 1..N, NEW l \in DOMAIN seqs[k] PROVE \E i \in DOMAIN F : F[i] = seqs[k][l]
    <2>1. PICK i \in DOMAIN F : entry[i] = k /\ place[i] = l
      BY <1>5 DEF Concatenates
    <2>2. F[i] = seqs[entry[i]][place[i]]
      BY <1>5 DEF Concatenates
    <2>3. QED
      BY <2>1, <2>2
  <1>8. Joins(F, N, seqs)
    BY <1>4, <1>6, <1>7 DEF Joins
  <1>9. QED
    BY <1>8 DEF F

(* The columns of several shapes, one after another, are an index.         *)
LEMMA ColumnsJoined ==
  ASSUME NEW t, IsText(t), NEW aliases, IndexesAliases(t, aliases),
         NEW results, IndexesResults(t, aliases, results), NEW N \in Nat,
         NEW shapes, DOMAIN shapes = 1..N, \A k \in 1..N : ShapeOK(t, shapes[k]),
         NEW owners, NEW seqs, seqs = [k \in 1..N |-> seqs[k]],
         \A k \in 1..N : seqs[k] = ColumnBindingsOf(t, k, shapes[k], aliases, results, owners[k])
  PROVE  /\ IndexOK(t, FlattenSeq(seqs))
         /\ IndexesColumns(t, aliases, results, FlattenSeq(seqs), shapes, owners)
  <1> DEFINE F == FlattenSeq(seqs)
             of(k, l) == shapes[k].columns[l].at
             Is(k, l, b) == ColumnIs(t, aliases, results, owners[k], of(k, l), b)
  <1>1. ASSUME NEW k \in 1..N
        PROVE  /\ BindingsOK(t, seqs[k]) /\ DOMAIN seqs[k] = DOMAIN shapes[k].columns
               /\ \A l \in DOMAIN seqs[k] : Is(k, l, seqs[k][l])
    <2> DEFINE shape == shapes[k]
               own == owners[k]
               C == ColumnBindingsOf(t, k, shape, aliases, results, own)
    <2>1. ShapeOK(t, shape) /\ seqs[k] = C
      OBVIOUS
    <2>. HIDE DEF C, shape, own
    <2>2. BindingsOK(t, C)
      BY <2>1, ColumnsBound DEF C
    <2>3. /\ DOMAIN C = DOMAIN shape.columns
          /\ \A l \in DOMAIN C : ColumnIs(t, aliases, results, own, shape.columns[l].at, C[l])
      BY ColumnsListed DEF C
    <2>4. QED
      BY <2>1, <2>2, <2>3 DEF shape, own
  <1>. HIDE DEF Is, of
  <1>2. Joins(F, N, seqs)
    <2>1. \A k \in 1..N : \E m \in Nat : seqs[k] = [j \in 1..m |-> seqs[k][j]]
      BY <1>1 DEF BindingsOK
    <2>2. QED
      BY <2>1, SequencesJoined
  <1>. HIDE DEF F
  <1>3. ASSUME NEW i \in DOMAIN F
        PROVE  /\ BindingOK(t, F[i])
               /\ \E k \in 1..N : \E l \in DOMAIN shapes[k].columns : Is(k, l, F[i])
    <2> DEFINE HereIn(k) == \E l \in DOMAIN seqs[k] : F[i] = seqs[k][l]
    <2>1. PICK k \in 1..N : HereIn(k)
      BY <1>2 DEF Joins
    <2>2. PICK l \in DOMAIN seqs[k] : F[i] = seqs[k][l]
      BY <2>1
    <2>3. BindingOK(t, seqs[k][l])
      BY <1>1 DEF BindingsOK
    <2>4. l \in DOMAIN shapes[k].columns /\ Is(k, l, seqs[k][l])
      BY <1>1
    <2>5. QED
      BY <2>2, <2>3, <2>4
  <1>4. ASSUME NEW k \in 1..N, NEW l \in DOMAIN shapes[k].columns
        PROVE  \E i \in DOMAIN F : Is(k, l, F[i])
    <2>1. l \in DOMAIN seqs[k] /\ Is(k, l, seqs[k][l])
      BY <1>1
    <2>2. PICK i \in DOMAIN F : F[i] = seqs[k][l]
      BY <1>2, <2>1 DEF Joins
    <2>3. QED
      BY <2>1, <2>2
  <1>5. IndexOK(t, F)
    BY <1>2, <1>3 DEF IndexOK, Joins
  <1>6. IndexesColumns(t, aliases, results, F, shapes, owners)
    BY <1>3, <1>4 DEF IndexesColumns, Is, of
  <1>7. QED
    BY <1>5, <1>6 DEF F

(* The columns of the CTEs and of the aliases of a text are indexes.       *)
CTEShapes(ctes) == [k \in DOMAIN ctes |-> ctes[k].shape]
CTEOwners(ctes, aliases) ==
  [k \in DOMAIN ctes |-> {b.at : b \in {a \in ToSet(aliases.bindings) : a.source.cte = k}}]

DerivedShapes(aliases) ==
  [k \in DOMAIN aliases.bindings |->
     IF aliases.bindings[k].ambiguous THEN NoColumns ELSE aliases.bindings[k].source.shape]
DerivedOwners(aliases) == [k \in DOMAIN aliases.bindings |-> {aliases.bindings[k].at}]

LEMMA ColumnIndexesAre ==
  ASSUME NEW t, IsText(t), NEW order, NEW ctes, IndexesCTEs(t, ctes, order),
         NEW aliases, IndexesAliases(t, aliases), NEW results, IndexesResults(t, aliases, results)
  PROVE  LET ofCTEs == ExtractCTEColumnIndex(t, ctes, aliases, results)
             derived == ExtractDerivedColumnIndex(t, aliases, results)
         IN /\ IndexOK(t, ofCTEs) /\ IndexOK(t, derived)
            /\ IndexesColumns(t, aliases, results, ofCTEs, CTEShapes(ctes), CTEOwners(ctes, aliases))
            /\ IndexesColumns(t, aliases, results, derived,
                              DerivedShapes(aliases), DerivedOwners(aliases))
  <1>1. LET index == ExtractCTEColumnIndex(t, ctes, aliases, results)
        IN /\ IndexOK(t, index)
           /\ IndexesColumns(t, aliases, results, index, CTEShapes(ctes), CTEOwners(ctes, aliases))
    <2> DEFINE N == Len(order)
               shapes == CTEShapes(ctes)
               owners == CTEOwners(ctes, aliases)
               seqs == [k \in 1..N |-> ColumnBindingsOf(t, k, shapes[k], aliases, results, owners[k])]
    <2>1. N \in Nat /\ DOMAIN ctes = 1..N
      BY DEF IndexesCTEs
    <2>2. /\ DOMAIN shapes = 1..N
          /\ \A k \in 1..N : /\ shapes[k] = ctes[k].shape
                             /\ owners[k] = {b.at : b \in {a \in ToSet(aliases.bindings) : a.source.cte = k}}
      BY <2>1 DEF CTEShapes, CTEOwners
    <2>. HIDE DEF shapes, owners
    <2>3. ExtractCTEColumnIndex(t, ctes, aliases, results) = FlattenSeq(seqs)
      <3> DEFINE own(k) == {b.at : b \in {a \in ToSet(aliases.bindings) : a.source.cte = k}}
      <3>1. ExtractCTEColumnIndex(t, ctes, aliases, results) =
              FlattenSeq([k \in 1..N |-> ColumnBindingsOf(t, k, ctes[k].shape, aliases, results, own(k))])
        BY <2>1 DEF ExtractCTEColumnIndex
      <3>2. \A k \in 1..N : shapes[k] = ctes[k].shape /\ owners[k] = own(k)
        BY <2>2
      <3>. HIDE DEF own
      <3>3. [k \in 1..N |-> ColumnBindingsOf(t, k, ctes[k].shape, aliases, results, own(k))] = seqs
        BY <3>2
      <3>4. QED
        BY <3>1, <3>3
    <2>4. ASSUME NEW k \in 1..N PROVE ShapeOK(t, shapes[k])
      <3>1. ctes[k].shape = ExtractQueryColumnFacts(t, order[k].query)
        BY DEF IndexesCTEs
      <3>2. order[k].query \in DOMAIN Queries(t)
        <4>1. order \in Seq(DeclaredCTEs(t))
          BY DEF IndexesCTEs
        <4>2. order[k] \in DeclaredCTEs(t)
          BY <2>1, <4>1
        <4>3. QED
          BY <4>2, DeclaredCTEsAre
      <3>3. QED
        BY <2>2, <3>1, <3>2, ColumnFactsOK
    <2>5. /\ seqs = [k \in 1..N |-> seqs[k]]
          /\ \A k \in 1..N : seqs[k] = ColumnBindingsOf(t, k, shapes[k], aliases, results, owners[k])
      OBVIOUS
    <2>. HIDE DEF seqs, N
    <2>6. IndexOK(t, FlattenSeq(seqs)) /\ IndexesColumns(t, aliases, results, FlattenSeq(seqs), shapes, owners)
      BY <2>1, <2>2, <2>4, <2>5, ColumnsJoined
    <2>7. QED
      BY <2>3, <2>6 DEF shapes, owners
  <1>2. LET index == ExtractDerivedColumnIndex(t, aliases, results)
        IN /\ IndexOK(t, index)
           /\ IndexesColumns(t, aliases, results, index, DerivedShapes(aliases), DerivedOwners(aliases))
    <2> DEFINE N == Len(aliases.bindings)
               b == aliases.bindings
               shapes == DerivedShapes(aliases)
               owners == DerivedOwners(aliases)
               shape(k) == IF b[k].ambiguous THEN NoColumns ELSE b[k].source.shape
               seqs == [k \in 1..N |-> ColumnBindingsOf(t, k, shapes[k], aliases, results, owners[k])]
    <2>1. N \in Nat /\ DOMAIN b = 1..N
      BY DEF IndexesAliases
    <2>2. /\ DOMAIN shapes = 1..N
          /\ \A k \in 1..N : shapes[k] = shape(k) /\ owners[k] = {b[k].at}
      BY <2>1 DEF DerivedShapes, DerivedOwners
    <2>. HIDE DEF shapes, owners
    <2>3. ExtractDerivedColumnIndex(t, aliases, results) = FlattenSeq(seqs)
      <3>1. ExtractDerivedColumnIndex(t, aliases, results) =
              FlattenSeq([k \in 1..N |-> ColumnBindingsOf(t, k, shape(k), aliases, results, {b[k].at})])
        BY <2>1 DEF ExtractDerivedColumnIndex
      <3>2. \A k \in 1..N : shapes[k] = shape(k) /\ owners[k] = {b[k].at}
        BY <2>2
      <3>. HIDE DEF shape
      <3>3. [k \in 1..N |-> ColumnBindingsOf(t, k, shape(k), aliases, results, {b[k].at})] = seqs
        BY <3>2
      <3>4. QED
        BY <3>1, <3>3
    <2>4. ASSUME NEW k \in 1..N PROVE ShapeOK(t, shapes[k])
      <3>1. ShapeOK(t, b[k].source.shape)
        BY DEF IndexesAliases
      <3>2. ShapeOK(t, shape(k))
        BY <3>1, NoColumnsOK
      <3>3. QED
        BY <2>2, <3>2
    <2>5. /\ seqs = [k \in 1..N |-> seqs[k]]
          /\ \A k \in 1..N : seqs[k] = ColumnBindingsOf(t, k, shapes[k], aliases, results, owners[k])
      OBVIOUS
    <2>. HIDE DEF seqs, N
    <2>6. IndexOK(t, FlattenSeq(seqs)) /\ IndexesColumns(t, aliases, results, FlattenSeq(seqs), shapes, owners)
      BY <2>1, <2>2, <2>4, <2>5, ColumnsJoined
    <2>7. QED
      BY <2>3, <2>6 DEF shapes, owners
  <1>3. QED
    BY <1>1, <1>2

------------------------------------------------------------------------------
(***************************************************************************)
(* Sessions                                                                *)
(***************************************************************************)
(* The indexes of a snapshot, each made of those before it.                *)
LEMMA SnapshotIs ==
  ASSUME NEW t
  PROVE  LET s == ParseDocumentSnapshot(t)
         IN /\ s.text = t /\ s.ctes = ExtractCTEIndex(t)
            /\ s.aliases = ExtractAliasIndex(t, s.ctes)
            /\ s.selectAliases = ExtractSelectAliasIndex(t, s.aliases)
            /\ s.cteColumns = ExtractCTEColumnIndex(t, s.ctes, s.aliases, s.selectAliases)
            /\ s.derivedColumns = ExtractDerivedColumnIndex(t, s.aliases, s.selectAliases)
  BY DEF ParseDocumentSnapshot

(* Every stored snapshot is what the server parses from a text.            *)
SnapshotsAreParsed ==
  /\ DOMAIN documents = Paths
  /\ \A p \in Paths : /\ IsText(documents[p].text)
                      /\ documents[p] = ParseDocumentSnapshot(documents[p].text)

(* Initially the texts are those of a workspace.                           *)
LEMMA InitParsed == Init => SnapshotsAreParsed
  <1>1. SUFFICES ASSUME Init PROVE SnapshotsAreParsed
    OBVIOUS
  <1>2. PICK w \in Workspaces : documents = [p \in Paths |-> ParseDocumentSnapshot(w[p])]
    BY <1>1 DEF Init
  <1>3. ASSUME NEW p \in Paths
        PROVE  documents[p] = ParseDocumentSnapshot(w[p]) /\ documents[p].text = w[p]
    BY <1>2, SnapshotIs
  <1>4. QED
    BY <1>2, <1>3, WorkspaceTexts DEF SnapshotsAreParsed

(* A rename puts other names in the same trees.                            *)
LEMMA NextParsed == SnapshotsAreParsed /\ [Next]_vars => SnapshotsAreParsed'
  <1>1. SUFFICES ASSUME SnapshotsAreParsed, [Next]_vars PROVE SnapshotsAreParsed'
    OBVIOUS
  <1>2. CASE Next
    <2>1. PICK p \in Paths : \E x \in Tokens(documents[p].text), name \in Names : Rename(p, x, name)
      BY <1>2 DEF Next
    <2>2. PICK x \in Tokens(documents[p].text), name \in Names : Rename(p, x, name)
      BY <2>1
    <2>3. PICK edits : documents' = Edited(edits, name)
      BY <2>2 DEF Rename
    <2>4. DOMAIN documents' = Paths
      BY <2>3 DEF Edited
    <2>5. ASSUME NEW f \in Paths
          PROVE  /\ IsText(documents'[f].text)
                 /\ documents'[f] = ParseDocumentSnapshot(documents'[f].text)
      <3> DEFINE here == {n[2] : n \in {e \in edits : e[1] = f}}
                 t == Rewrite(documents[f].text, here, name)
      <3>1. documents'[f] = IF here = {} THEN documents[f] ELSE ParseDocumentSnapshot(t)
        BY <2>3 DEF Edited
      <3>2. IsText(documents[f].text) /\ documents[f] = ParseDocumentSnapshot(documents[f].text)
        BY <1>1 DEF SnapshotsAreParsed
      <3>3. IsText(t)
        BY <3>2, RewriteText
      <3>. HIDE DEF t, here
      <3>4. QED
        BY <3>1, <3>2, <3>3, SnapshotIs
    <2>6. QED
      BY <2>4, <2>5 DEF SnapshotsAreParsed
  <1>3. CASE UNCHANGED vars
    BY <1>1, <1>3 DEF SnapshotsAreParsed, vars
  <1>4. QED
    BY <1>1, <1>2, <1>3

(* Every stored snapshot is what the server parses from a text.            *)
THEOREM AlwaysParsed == Spec => []SnapshotsAreParsed
  <1>1. QED
    BY InitParsed, NextParsed, PTL DEF Spec

(* The outline lists a CTE under the innermost one that contains it.       *)
THEOREM OutlineIsNested == Spec => []OutlineNestsCTEs
  <1>1. SnapshotsAreParsed => OutlineNestsCTEs
    <2>1. SUFFICES ASSUME SnapshotsAreParsed, NEW p \in Paths, NEW b \in ToSet(documents[p].ctes)
          PROVE  LET around == {a \in ToSet(documents[p].ctes) : a # b /\ RangeContains(a, b)}
                 IN CTEParents(documents[p].ctes)[b.at] =
                      IF around = {} THEN NoToken ELSE Max({a.at : a \in around})
      BY DEF OutlineNestsCTEs
    <2> DEFINE t == documents[p].text
    <2>2. IsText(t) /\ documents[p].ctes = ExtractCTEIndex(t)
      BY <2>1, SnapshotIs DEF SnapshotsAreParsed
    <2>. HIDE DEF t
    <2>3. QED
      BY <2>1, <2>2, OutlineOfText
  <1>2. QED
    BY <1>1, AlwaysParsed, PTL

(* Where CTEs are declared and referred to.                                *)
LEMMA CTEMarked ==
  ASSUME NEW t, IsText(t), NEW ctes, NEW order, IndexesCTEs(t, ctes, order), NEW i \in DOMAIN ctes
  PROVE  /\ ctes[i].at \in Tokens(t) /\ ctes[i].at \in Marked(t, {"cte"})
         /\ \A x \in ctes[i].refs : /\ x \in Tokens(t) /\ x \in Marked(t, {"from"})
                                    /\ Key(t, x) = Key(t, ctes[i].at)
  <1>1. /\ order \in Seq(DeclaredCTEs(t)) /\ i \in 1..Len(order) /\ ctes[i].at = order[i].name
        /\ ctes[i].refs \subseteq FromTokens(t)
        /\ \A x \in ctes[i].refs : Key(t, x) = Key(t, ctes[i].at)
    BY DEF IndexesCTEs
  <1>2. order[i] \in DeclaredCTEs(t)
    BY <1>1
  <1>3. ctes[i].at \in Tokens(t) /\ ctes[i].at \in Marked(t, {"cte"})
    BY <1>1, <1>2, DeclaredCTEsAre
  <1>4. QED
    BY <1>1, <1>3, FromTokensAre

(* Bindings that are declared in places of some kinds and referred to in   *)
(* places of others share no site, unless they share a declaration or a    *)
(* reference.                                                              *)
LEMMA SitesApart ==
  ASSUME NEW t, IsText(t), NEW tags, NEW others, tags \cap others = {}, NEW a, NEW b,
         BindingOK(t, a), BindingOK(t, b), a.at \in Marked(t, tags), b.at \in Marked(t, tags),
         \A x \in a.refs \cup b.refs : x \in Marked(t, others),
         a.at # b.at, a.refs \cap b.refs = {}
  PROVE  Sites(a) \cap Sites(b) = {}
  <1>1. a.at # NoToken /\ b.at # NoToken
    BY TextTypes DEF BindingOK, InQueries
  <1>2. a.at \notin b.refs /\ b.at \notin a.refs
    BY <1>1, MarkedApart
  <1>3. QED
    BY <1>2 DEF Sites

(* What the indexes of a document are.                                     *)
LEMMA DocumentIndexes ==
  ASSUME SnapshotsAreParsed, NEW p \in Paths
  PROVE  LET s == documents[p]
         IN /\ IsText(s.text)
            /\ \E order : IndexesCTEs(s.text, s.ctes, order)
            /\ IndexesAliases(s.text, s.aliases)
            /\ IndexesResults(s.text, s.aliases, s.selectAliases)
            /\ CTESources(s.ctes, s.aliases)
            /\ IndexesColumns(s.text, s.aliases, s.selectAliases, s.cteColumns,
                              CTEShapes(s.ctes), CTEOwners(s.ctes, s.aliases))
            /\ IndexesColumns(s.text, s.aliases, s.selectAliases, s.derivedColumns,
                              DerivedShapes(s.aliases), DerivedOwners(s.aliases))
            /\ \A kind \in BindingKinds : IndexOK(s.text, IndexOf(s, kind))
  <1> DEFINE s == documents[p]
             t == documents[p].text
  <1>1. IsText(t) /\ s = ParseDocumentSnapshot(t)
    BY DEF SnapshotsAreParsed
  <1>2. t = s.text
    OBVIOUS
  <1>. HIDE DEF s, t
  <1>3. /\ s.ctes = ExtractCTEIndex(t) /\ s.aliases = ExtractAliasIndex(t, s.ctes)
        /\ s.selectAliases = ExtractSelectAliasIndex(t, s.aliases)
        /\ s.cteColumns = ExtractCTEColumnIndex(t, s.ctes, s.aliases, s.selectAliases)
        /\ s.derivedColumns = ExtractDerivedColumnIndex(t, s.aliases, s.selectAliases)
    BY <1>1, SnapshotIs
  <1>4. PICK order : IndexesCTEs(t, s.ctes, order)
    BY <1>1, <1>3, CTEIndexIs
  <1>5. IndexesAliases(t, s.aliases) /\ CTESources(s.ctes, s.aliases)
    <2>1. Len(s.ctes) \in Nat /\ DOMAIN s.ctes = 1..Len(s.ctes)
      BY <1>4 DEF IndexesCTEs
    <2>2. QED
      BY <1>1, <1>3, <2>1, AliasIndexIs
  <1>6. IndexesResults(t, s.aliases, s.selectAliases)
    BY <1>1, <1>3, ResultIndexIs
  <1>7. /\ IndexOK(t, s.cteColumns) /\ IndexOK(t, s.derivedColumns)
        /\ IndexesColumns(t, s.aliases, s.selectAliases, s.cteColumns,
                          CTEShapes(s.ctes), CTEOwners(s.ctes, s.aliases))
        /\ IndexesColumns(t, s.aliases, s.selectAliases, s.derivedColumns,
                          DerivedShapes(s.aliases), DerivedOwners(s.aliases))
    BY <1>1, <1>3, <1>4, <1>5, <1>6, ColumnIndexesAre
  <1>8. IndexOK(t, s.ctes)
    <2>1. Len(s.ctes) \in Nat /\ DOMAIN s.ctes = 1..Len(s.ctes)
      BY <1>4 DEF IndexesCTEs
    <2>2. ASSUME NEW i \in DOMAIN s.ctes PROVE BindingOK(t, s.ctes[i])
      BY <1>1, <1>4, <2>2, CTEMarked, MarkedInQueries DEF BindingOK
    <2>3. QED
      BY <2>1, <2>2 DEF IndexOK
  <1>9. IndexOK(t, s.aliases.bindings)
    BY <1>5, MarkedInQueries DEF IndexesAliases, IndexOK, BindingOK
  <1>10. IndexOK(t, s.selectAliases.bindings)
    BY <1>6, MarkedInQueries DEF IndexesResults, IndexOK, BindingOK
  <1>11. ASSUME NEW kind \in BindingKinds PROVE IndexOK(t, IndexOf(s, kind))
    BY <1>7, <1>8, <1>9, <1>10 DEF BindingKinds, ColumnKinds, IndexOf
  <1>12. QED
    BY <1>1, <1>2, <1>4, <1>5, <1>6, <1>7, <1>11 DEF s

(* A token is a site of one CTE, alias or result at most.                  *)
LEMMA OneBinding ==
  ASSUME SnapshotsAreParsed, NEW p \in Paths, NEW kind \in BindingKinds \ ColumnKinds,
         NEW i \in DOMAIN IndexOf(documents[p], kind), NEW j \in DOMAIN IndexOf(documents[p], kind),
         i # j
  PROVE  Sites(IndexOf(documents[p], kind)[i]) \cap Sites(IndexOf(documents[p], kind)[j]) = {}
  <1> DEFINE s == documents[p]
             t == documents[p].text
             index == IndexOf(s, kind)
  <1>1. /\ IsText(t) /\ IndexesAliases(t, s.aliases) /\ IndexesResults(t, s.aliases, s.selectAliases)
        /\ \E order : IndexesCTEs(t, s.ctes, order)
        /\ IndexOK(t, index)
    BY DocumentIndexes
  <1>2. PICK order : IndexesCTEs(t, s.ctes, order)
    BY <1>1
  <1>3. /\ kind = "cte" => index = s.ctes
        /\ kind = "alias" => index = s.aliases.bindings
        /\ kind = "selectAlias" => index = s.selectAliases.bindings
    BY DEF IndexOf
  <1>4. i \in DOMAIN index /\ j \in DOMAIN index
    OBVIOUS
  <1>. HIDE DEF s, t, index
  <1>5. BindingOK(t, index[i]) /\ BindingOK(t, index[j])
    BY <1>1, <1>4 DEF IndexOK
  <1>6. Sites(index[i]) \cap Sites(index[j]) = {}
    <2>1. CASE kind = "cte"
      <3>1. i \in 1..Len(order) /\ j \in 1..Len(order)
        BY <1>2, <1>3, <1>4, <2>1 DEF IndexesCTEs
      <3>2. index[i].refs \cap index[j].refs = {}
        BY <1>2, <1>3, <2>1, <3>1 DEF IndexesCTEs
      <3>3. index[i].at # index[j].at
        <4>1. order \in Seq(DeclaredCTEs(t)) /\ order[i] # order[j]
          BY <1>2, <3>1 DEF IndexesCTEs
        <4>2. order[i] \in DeclaredCTEs(t) /\ order[j] \in DeclaredCTEs(t)
          BY <3>1, <4>1
        <4>3. order[i].name # order[j].name
          BY <1>1, <4>1, <4>2, DeclaredCTEsAre
        <4>4. QED
          BY <1>2, <1>3, <2>1, <3>1, <4>3 DEF IndexesCTEs
      <3>4. /\ index[i].at \in Marked(t, {"cte"}) /\ index[j].at \in Marked(t, {"cte"})
            /\ \A x \in index[i].refs \cup index[j].refs : x \in Marked(t, {"from"})
        BY <1>1, <1>2, <1>3, <1>4, <2>1, CTEMarked
      <3>5. {"cte"} \cap {"from"} = {}
        OBVIOUS
      <3>6. QED
        BY <1>1, <1>5, <3>2, <3>3, <3>4, <3>5, SitesApart
    <2>2. CASE kind = "alias"
      <3>1. /\ index[i].at # index[j].at /\ index[i].refs \cap index[j].refs = {}
            /\ index[i].at \in Marked(t, DeclaredAliases) /\ index[j].at \in Marked(t, DeclaredAliases)
            /\ \A x \in index[i].refs \cup index[j].refs : x \in Marked(t, Expressions)
        BY <1>1, <1>3, <1>4, <2>2 DEF IndexesAliases
      <3>2. DeclaredAliases \cap Expressions = {}
        BY DEF DeclaredAliases, Expressions
      <3>3. QED
        BY <1>1, <1>5, <3>1, <3>2, SitesApart
    <2>3. CASE kind = "selectAlias"
      <3>1. /\ index[i].at # index[j].at /\ index[i].refs \cap index[j].refs = {}
            /\ index[i].at \in Marked(t, Results) /\ index[j].at \in Marked(t, Results)
            /\ \A x \in index[i].refs \cup index[j].refs : x \in Marked(t, Asked)
        BY <1>1, <1>3, <1>4, <2>3 DEF IndexesResults
      <3>2. Results \cap Asked = {}
        BY DEF Results, Asked
      <3>3. QED
        BY <1>1, <1>5, <3>1, <3>2, SitesApart
    <2>4. QED
      BY <2>1, <2>2, <2>3 DEF BindingKinds
  <1>7. QED
    BY <1>6 DEF index, s

(* The sites of an index are tokens of the text, spelled like their        *)
(* declaration, and a token is a site of one CTE, alias or result at most. *)
THEOREM SitesAreTokens == Spec => []TypeOK
  <1>1. SnapshotsAreParsed => TypeOK
    <2>1. SUFFICES ASSUME SnapshotsAreParsed, NEW p \in Paths, NEW kind \in BindingKinds
          PROVE  LET s == documents[p]
                     index == IndexOf(s, kind)
                 IN /\ \A i \in DOMAIN index : \A x \in Sites(index[i]) :
                         x \in Tokens(s.text) /\ Key(s.text, x) = Key(s.text, index[i].at)
                    /\ kind \notin ColumnKinds =>
                         \A i, j \in DOMAIN index : i # j => Sites(index[i]) \cap Sites(index[j]) = {}
      BY DEF TypeOK
    <2> DEFINE s == documents[p]
               index == IndexOf(s, kind)
    <2>2. IndexOK(s.text, index)
      BY <2>1, DocumentIndexes
    <2>3. kind \notin ColumnKinds =>
            \A i, j \in DOMAIN index : i # j => Sites(index[i]) \cap Sites(index[j]) = {}
      BY <2>1, OneBinding
    <2>. HIDE DEF s, index
    <2>4. \A i \in DOMAIN index : \A x \in Sites(index[i]) :
            x \in Tokens(s.text) /\ Key(s.text, x) = Key(s.text, index[i].at)
      BY <2>2 DEF IndexOK, BindingOK, Sites, InQueries
    <2>5. QED
      BY <2>3, <2>4 DEF s, index
  <1>2. QED
    BY <1>1, AlwaysParsed, PTL

(* A token is at the first binding that has it as a site, if any.          *)
LEMMA SiteIs ==
  ASSUME NEW index, Len(index) \in Nat, DOMAIN index = 1..Len(index), NEW x
  PROVE  LET i == SiteAtPosition(index, x)
         IN \/ i = 0 /\ \A j \in DOMAIN index : x \notin Sites(index[j])
            \/ i # 0 /\ i \in DOMAIN index /\ x \in Sites(index[i])
  <1> DEFINE I == {j \in 1..Len(index) : x \in Sites(index[j])}
  <1>1. SiteAtPosition(index, x) = IF I # {} THEN Min(I) ELSE 0
    BY DEF SiteAtPosition, SelectInSeq
  <1>2. CASE I = {}
    BY <1>1, <1>2
  <1>3. CASE I # {}
    <2>1. I \subseteq Nat
      OBVIOUS
    <2>2. Min(I) \in I
      <3>. HIDE DEF I
      <3>1. QED
        BY <1>3, <2>1, HasMin
    <2>3. SiteAtPosition(index, x) \in I
      BY <1>1, <1>3, <2>2
    <2>4. QED
      BY <2>3
  <1>4. QED
    BY <1>2, <1>3

(* As many references as there are tokens.                                 *)
LEMMA AtCounts ==
  ASSUME NEW p, NEW S, IsFiniteSet(S)
  PROVE  Cardinality(At(p, S)) = Cardinality(S)
  <1> DEFINE f == [x \in S |-> << p, x >>]
  <1>1. f \in Bijection(S, At(p, S))
    BY DEF Bijection, Injection, Surjection, IsInjective, At
  <1>2. ExistsBijection(S, At(p, S))
    BY <1>1 DEF ExistsBijection
  <1>3. QED
    BY <1>2, FS_Bijection

(* References of the name of a CTE are those of its binding.               *)
LEMMA CTEReferences ==
  ASSUME SnapshotsAreParsed, NEW p \in Paths, NEW i \in DOMAIN documents[p].ctes
  PROVE  References(documents, p, documents[p].ctes[i].at, FALSE) = At(p, documents[p].ctes[i].refs)
  <1> DEFINE s == documents[p]
             t == documents[p].text
             x == documents[p].ctes[i].at
             kind == KindAtPosition(s, ReferenceOrder, x)
             I == {k \in 1..Len(ReferenceOrder) : SiteAtPosition(IndexOf(s, ReferenceOrder[k]), x) # 0}
  <1>1. /\ IsText(t) /\ IndexesResults(t, s.aliases, s.selectAliases) /\ IndexOK(t, IndexOf(s, "cte"))
        /\ \E order : IndexesCTEs(t, s.ctes, order)
    BY DocumentIndexes DEF BindingKinds
  <1>2. IndexOf(s, "cte") = s.ctes
    BY DEF IndexOf
  <1>3. PICK order : IndexesCTEs(t, s.ctes, order)
    BY <1>1
  <1>4. x \in Tokens(t) /\ x \in Marked(t, {"cte"}) /\ x # NoToken
    BY <1>1, <1>3, CTEMarked, TextTypes
  <1>5. ~AmbiguousAtPosition(s, x)
    <2>1. {"cte"} \cap Asked = {}
      BY DEF Asked
    <2>2. x \notin Marked(t, Asked)
      BY <1>1, <1>4, <2>1, MarkedApart
    <2>3. QED
      BY <1>1, <2>2 DEF IndexesResults, AmbiguousAtPosition
  <1>6. SiteAtPosition(s.ctes, x) = i
    <2>1. x \in Sites(s.ctes[i])
      BY DEF Sites
    <2>2. SiteAtPosition(s.ctes, x) \in DOMAIN s.ctes /\ x \in Sites(s.ctes[SiteAtPosition(s.ctes, x)])
      <3> DEFINE index == s.ctes
      <3>1. Len(index) \in Nat /\ DOMAIN index = 1..Len(index) /\ i \in DOMAIN index /\ x \in Sites(index[i])
        BY <1>1, <1>2, <2>1 DEF IndexOK
      <3>. HIDE DEF index, x
      <3>2. SiteAtPosition(index, x) \in DOMAIN index /\ x \in Sites(index[SiteAtPosition(index, x)])
        BY <3>1, SiteIs
      <3>3. QED
        BY <3>2 DEF index
    <2>3. "cte" \in BindingKinds \ ColumnKinds
      BY DEF BindingKinds, ColumnKinds
    <2> DEFINE j == SiteAtPosition(s.ctes, x)
    <2>4. j \in DOMAIN IndexOf(s, "cte") /\ i \in DOMAIN IndexOf(s, "cte")
          /\ Sites(IndexOf(s, "cte")[i]) \cap Sites(IndexOf(s, "cte")[j]) # {}
      BY <1>2, <2>1, <2>2
    <2>. HIDE DEF j
    <2>5. i = j
      BY <2>3, <2>4, OneBinding
    <2>6. QED
      BY <2>5 DEF j
  <1>7. i # 0
    BY <1>1, <1>2 DEF IndexOK
  <1>8. kind = "cte"
    <2>1. kind = LET m == IF I # {} THEN Min(I) ELSE 0
                 IN IF m = 0 THEN NoKind ELSE ReferenceOrder[m]
      BY DEF KindAtPosition, SelectInSeq
    <2>2. Len(ReferenceOrder) = 5 /\ ReferenceOrder[1] = "cte"
      BY DEF ReferenceOrder
    <2>3. 1 \in I
      BY <1>2, <1>6, <1>7, <2>2
    <2>4. I \subseteq Int /\ \A k \in I : 1 <= k
      BY <2>2
    <2>. HIDE DEF I
    <2>5. Min(I) = 1
      BY <2>3, <2>4, MinIs
    <2>6. QED
      BY <2>1, <2>2, <2>3, <2>5
  <1>9. BindingAt(s, "cte", x) = s.ctes[i]
    BY <1>2, <1>6 DEF BindingAt
  <1>10. ~Ambiguous("cte", s.ctes[i])
    BY DEF Ambiguous
  <1>11. References(documents, p, x, FALSE) =
           LET b == BindingAt(s, kind, x)
               names == {keys \in RelationNameAtPosition(s.text, x) :
                           RelationDefinitionLocations(documents, keys) # {}}
           IN CASE AmbiguousAtPosition(s, x) -> {}
                [] ~AmbiguousAtPosition(s, x) /\ kind # NoKind ->
                     IF Ambiguous(kind, b) THEN {} ELSE At(p, b.refs)
                [] OTHER -> UNION {RelationReferenceLocations(documents, keys) \cup {} : keys \in names}
    BY DEF References
  <1>12. kind # NoKind
    BY <1>8 DEF NoKind
  <1>. HIDE DEF kind, x, s
  <1>13. QED
    BY <1>5, <1>8, <1>9, <1>10, <1>11, <1>12 DEF s, x

(* The declarations of tables and views by simple names.                   *)
SimpleRelations(t) ==
  {r \in OfKind(t, {"create_table", "create_view"}) : IsSimplePath(r.path)}

(* A declared name is written in one declaration and in no query.          *)
LEMMA DeclaredNames ==
  ASSUME NEW t, IsText(t), NEW r \in SimpleRelations(t)
  PROVE  /\ r.path[1] \in Tokens(t) \ InQueries(t)
         /\ r.path[1] \in ToSet(r.path)
         /\ \A o \in OfKind(t, {"create_table", "create_view"}) : r.path[1] \in ToSet(o.path) => o = r
         /\ \A f \in FromNames(t) : r.path[1] \notin ToSet(f.path)
  <1> DEFINE R == Relations(t)
             W == Written(Queries(t), Relations(t))
             x == r.path[1]
             declares(o) == o \in OfKind(t, {"create_table", "create_view"})
  <1>1. ASSUME NEW o, declares(o)
        PROVE  \E i \in DOMAIN R : /\ o = R[i] /\ o.path \in Seq(Tokens(t)) \ {<< >>}
                                   /\ Along("relation", i, o.path) \subseteq W
    <2>1. o \in ToSet(R) /\ o.kind \in {"create_table", "create_view"}
      BY <1>1 DEF OfKind
    <2>2. PICK i \in DOMAIN R : o = R[i]
      BY <2>1 DEF ToSet
    <2>3. R[i].path \in Seq(Tokens(t)) \ {<< >>}
      BY DEF IsText, WellFormed, NodesOK, Relations, Tokens
    <2>4. Along("relation", i, R[i].path) \subseteq W
      BY <2>1, <2>2, RelationTokens
    <2>5. QED
      BY <2>2, <2>3, <2>4
  <1>2. declares(r)
    BY DEF SimpleRelations
  <1>3. PICK i \in DOMAIN R : /\ r = R[i] /\ r.path \in Seq(Tokens(t)) \ {<< >>}
                              /\ Along("relation", i, r.path) \subseteq W
    BY <1>1, <1>2
  <1>4. 1 \in DOMAIN r.path /\ x \in Tokens(t)
    <2> DEFINE path == r.path
    <2>1. path \in Seq(Tokens(t)) \ {<< >>}
      BY <1>3
    <2>. HIDE DEF path
    <2>2. 1 \in DOMAIN path /\ path[1] \in Tokens(t)
      BY <2>1
    <2>3. QED
      BY <2>2 DEF path
  <1>5. << "relation", << i, 1 >>, x >> \in W
    BY <1>3, <1>4, TokenAlong
  <1>6. x # NoToken
    BY <1>4, TextTypes
  <1>7. x \in Marked(t, {"relation"})
    BY <1>5, MarkedHere
  <1>8. x \notin InQueries(t)
    <2> DEFINE others == {"cte", "from"} \cup DeclaredAliases \cup Expressions \cup Results
    <2>1. {"relation"} \cap others = {}
      BY DEF DeclaredAliases, Expressions, Results
    <2>. HIDE DEF others
    <2>2. x \notin Marked(t, others)
      BY <1>6, <1>7, <2>1, MarkedApart
    <2>3. QED
      BY <2>2 DEF InQueries, others
  <1>9. x \in ToSet(r.path)
    BY <1>4 DEF ToSet
  <1>10. ASSUME NEW o, declares(o), x \in ToSet(o.path) PROVE o = r
    <2>1. PICK j \in DOMAIN R : o = R[j] /\ Along("relation", j, o.path) \subseteq W
      BY <1>1, <1>10
    <2>2. PICK k \in DOMAIN o.path : o.path[k] = x
      BY <1>10 DEF ToSet
    <2>3. << "relation", << j, k >>, x >> \in W
      BY <2>1, <2>2, TokenAlong
    <2> DEFINE u == << i, 1 >>
               v == << j, k >>
    <2>4. << "relation", u, x >> \in W /\ << "relation", v, x >> \in W
      BY <1>5, <2>3
    <2>5. u = v
      <3>. HIDE DEF u, v, x
      <3>1. QED
        BY <1>6, <2>4, OnePlace
    <2>6. i = j
      BY <2>5
    <2>7. QED
      BY <1>3, <2>1, <2>6
  <1>11. ASSUME NEW f \in FromNames(t), x \in ToSet(f.path) PROVE FALSE
    <2>1. PICK q \in DOMAIN Queries(t) : f \in ToSet(Queries(t)[q].from) /\ f.kind = "name"
      BY DEF FromNames
    <2>2. PICK j \in DOMAIN Queries(t)[q].from : f = Queries(t)[q].from[j]
      BY <2>1 DEF ToSet
    <2>3. Along("from", << q, j >>, f.path) \subseteq W
      BY <2>1, <2>2, QueryTokens
    <2>4. PICK k \in DOMAIN f.path : f.path[k] = x
      BY <1>11 DEF ToSet
    <2>5. << "from", << << q, j >>, k >>, x >> \in W
      BY <2>3, <2>4, TokenAlong
    <2>6. x \in Marked(t, {"from"})
      BY <2>5, MarkedHere
    <2>7. QED
      BY <1>4, <1>8, <2>6, MarkedInQueries
  <1>. HIDE DEF x
  <1>12. QED
    BY <1>4, <1>8, <1>9, <1>10, <1>11 DEF x

(* References of a declared name are those of the table or view.           *)
LEMMA RelationReferences ==
  ASSUME SnapshotsAreParsed, NEW p \in Paths, NEW r \in SimpleRelations(documents[p].text)
  PROVE  References(documents, p, r.path[1], FALSE) =
           RelationReferenceLocations(documents, Keys(documents[p].text, r.path))
  <1> DEFINE s == documents[p]
             t == documents[p].text
             x == r.path[1]
             declared == Keys(documents[p].text, r.path)
             kind == KindAtPosition(s, ReferenceOrder, x)
             I == {k \in 1..Len(ReferenceOrder) : SiteAtPosition(IndexOf(s, ReferenceOrder[k]), x) # 0}
             names == {keys \in RelationNameAtPosition(t, x) :
                         RelationDefinitionLocations(documents, keys) # {}}
  <1>1. /\ IsText(t) /\ IndexesResults(t, s.aliases, s.selectAliases)
        /\ \A k \in BindingKinds : IndexOK(t, IndexOf(s, k))
    BY DocumentIndexes
  <1>2. /\ x \notin InQueries(t) /\ x \in ToSet(r.path)
        /\ \A o \in OfKind(t, {"create_table", "create_view"}) : x \in ToSet(o.path) => o = r
        /\ \A f \in FromNames(t) : x \notin ToSet(f.path)
    BY <1>1, DeclaredNames
  <1>3. r \in OfKind(t, {"create_table", "create_view"})
    BY DEF SimpleRelations
  <1>. HIDE DEF x
  <1>4. ~AmbiguousAtPosition(s, x)
    BY <1>1, <1>2, MarkedInQueries DEF IndexesResults, AmbiguousAtPosition
  <1>5. ASSUME NEW k \in BindingKinds PROVE SiteAtPosition(IndexOf(s, k), x) = 0
    <2> DEFINE index == IndexOf(s, k)
    <2>1. IndexOK(t, index)
      BY <1>1
    <2>. HIDE DEF index, t
    <2>2. \A j \in DOMAIN index : x \notin Sites(index[j])
      BY <1>2, <2>1 DEF IndexOK, BindingOK, Sites
    <2>3. SiteAtPosition(index, x) = 0
      BY <2>1, <2>2, SiteIs DEF IndexOK
    <2>4. QED
      BY <2>3 DEF index
  <1>6. kind = NoKind
    <2>1. kind = LET m == IF I # {} THEN Min(I) ELSE 0
                 IN IF m = 0 THEN NoKind ELSE ReferenceOrder[m]
      BY DEF KindAtPosition, SelectInSeq
    <2>2. \A k \in 1..Len(ReferenceOrder) : ReferenceOrder[k] \in BindingKinds
      BY DEF ReferenceOrder, BindingKinds, ColumnKinds
    <2>3. I = {}
      BY <1>5, <2>2
    <2>. HIDE DEF I
    <2>4. QED
      BY <2>1, <2>3
  <1>7. RelationNameAtPosition(t, x) = {declared}
    <2>1. {o \in OfKind(t, {"create_table", "create_view"}) \cup FromNames(t) : x \in ToSet(o.path)} = {r}
      BY <1>2, <1>3
    <2>. HIDE DEF s
    <2>2. QED
      BY <2>1 DEF RelationNameAtPosition
  <1>8. RelationDefinitionLocations(documents, declared) # {}
    <2>1. r.kind \in {"create_table", "create_view"} /\ r \in OfKind(t, {r.kind})
      BY <1>3 DEF OfKind
    <2>2. [path |-> p, relation |-> r] \in FactMatches(documents, r.kind, declared)
      BY <2>1 DEF FactMatches
    <2>3. << p, r.path[1] >> \in RelationDefinitionLocations(documents, declared)
      BY <2>1, <2>2 DEF RelationDefinitionLocations
    <2>4. QED
      BY <2>3
  <1>9. names = {declared}
    <2>. HIDE DEF declared
    <2>1. QED
      BY <1>7, <1>8
  <1>10. References(documents, p, x, FALSE) =
           LET b == BindingAt(s, kind, x)
           IN CASE AmbiguousAtPosition(s, x) -> {}
                [] ~AmbiguousAtPosition(s, x) /\ kind # NoKind ->
                     IF Ambiguous(kind, b) THEN {} ELSE At(p, b.refs)
                [] OTHER -> UNION {RelationReferenceLocations(documents, keys) \cup {} : keys \in names}
    BY DEF References
  <1>. HIDE DEF names, kind, s, declared
  <1>11. References(documents, p, x, FALSE) =
           UNION {RelationReferenceLocations(documents, keys) \cup {} : keys \in {declared}}
    BY <1>4, <1>6, <1>9, <1>10
  <1>12. References(documents, p, x, FALSE) = RelationReferenceLocations(documents, declared)
    <2> DEFINE locations == RelationReferenceLocations(documents, declared)
    <2>1. {RelationReferenceLocations(documents, keys) \cup {} : keys \in {declared}}
            = {locations \cup {}}
      BY Zenon
    <2>. HIDE DEF locations
    <2>2. References(documents, p, x, FALSE) = UNION {locations \cup {}}
      BY <1>11, <2>1
    <2>3. UNION {locations \cup {}} = locations
      OBVIOUS
    <2>4. QED
      BY <2>2, <2>3 DEF locations
  <1>13. QED
    BY <1>12 DEF x, declared

(* The lenses of a document before those of no reference are left out.     *)
LensesOf(docs, p) ==
  {[at |-> r.path[1],
    count |-> Cardinality(RelationReferenceLocations(docs, Keys(docs[p].text, r.path)))] :
     r \in SimpleRelations(docs[p].text)}
    \cup {[at |-> b.at, count |-> Cardinality(b.refs)] : b \in ToSet(docs[p].ctes)}

(* A lens counts what References lists.                                    *)
LEMMA LensCounts ==
  ASSUME SnapshotsAreParsed, NEW p \in Paths, NEW l \in LensesOf(documents, p)
  PROVE  l.count = Cardinality(References(documents, p, l.at, FALSE))
  <1> DEFINE s == documents[p]
             t == documents[p].text
  <1>1. ASSUME NEW r \in SimpleRelations(t),
               l = [at |-> r.path[1],
                    count |-> Cardinality(RelationReferenceLocations(documents, Keys(t, r.path)))]
        PROVE  l.count = Cardinality(References(documents, p, l.at, FALSE))
    <2>1. l.at = r.path[1]
          /\ l.count = Cardinality(RelationReferenceLocations(documents, Keys(t, r.path)))
      BY <1>1
    <2>2. References(documents, p, r.path[1], FALSE) =
            RelationReferenceLocations(documents, Keys(t, r.path))
      BY RelationReferences
    <2>3. QED
      BY <2>1, <2>2
  <1>2. ASSUME NEW b \in ToSet(s.ctes), l = [at |-> b.at, count |-> Cardinality(b.refs)]
        PROVE  l.count = Cardinality(References(documents, p, l.at, FALSE))
    <2>1. PICK i \in DOMAIN s.ctes : b = s.ctes[i]
      BY <1>2 DEF ToSet
    <2>2. References(documents, p, b.at, FALSE) = At(p, b.refs)
      BY <2>1, CTEReferences
    <2>3. IsFiniteSet(b.refs)
      <3>1. IsText(t) /\ IndexOK(t, IndexOf(s, "cte")) /\ IndexOf(s, "cte") = s.ctes
        BY DocumentIndexes DEF BindingKinds, IndexOf
      <3>2. b.refs \subseteq Tokens(t)
        BY <2>1, <3>1 DEF IndexOK, BindingOK, InQueries
      <3>3. IsFiniteSet(Tokens(t))
        BY <3>1, TextTypes
      <3>4. QED
        BY <3>2, <3>3, FS_Subset
    <2>4. Cardinality(At(p, b.refs)) = Cardinality(b.refs)
      BY <2>3, AtCounts
    <2>5. l.at = b.at /\ l.count = Cardinality(b.refs)
      BY <1>2
    <2>6. QED
      BY <2>2, <2>4, <2>5
  <1>3. QED
    BY <1>1, <1>2 DEF LensesOf

(* A lens counts what References lists, and the declaration of a name that *)
(* is no path has one if and only if there is something to list.           *)
THEOREM LensesCount == Spec => []LensesCountReferences
  <1>1. SnapshotsAreParsed => LensesCountReferences
    <2>1. SUFFICES ASSUME SnapshotsAreParsed, NEW p \in Paths,
                          NEW x \in {b.at : b \in ToSet(documents[p].ctes)}
                                      \cup {r.path[1] : r \in SimpleRelations(documents[p].text)}
          PROVE  {l.count : l \in {k \in CodeLens(documents, p) : k.at = x}}
                   = {Cardinality(References(documents, p, x, FALSE))} \ {0}
      BY DEF LensesCountReferences, SimpleRelations
    <2> DEFINE L == LensesOf(documents, p)
               c == Cardinality(References(documents, p, x, FALSE))
    <2>2. CodeLens(documents, p) = {l \in L : l.count # 0}
      BY DEF CodeLens, LensesOf, SimpleRelations
    <2>3. \A l \in L : l.at = x => l.count = c
      BY <2>1, LensCounts
    <2>4. \E l \in L : l.at = x
      <3>1. CASE x \in {b.at : b \in ToSet(documents[p].ctes)}
        <4>1. PICK b \in ToSet(documents[p].ctes) : x = b.at
          BY <3>1
        <4> DEFINE l == [at |-> b.at, count |-> Cardinality(b.refs)]
        <4>2. l \in L /\ l.at = x
          BY <4>1 DEF LensesOf
        <4>. HIDE DEF l, L
        <4>3. QED
          BY <4>2
      <3>2. CASE x \in {r.path[1] : r \in SimpleRelations(documents[p].text)}
        <4>1. PICK r \in SimpleRelations(documents[p].text) : x = r.path[1]
          BY <3>2
        <4> DEFINE l == [at |-> r.path[1],
                         count |-> Cardinality(RelationReferenceLocations(documents,
                                                 Keys(documents[p].text, r.path)))]
        <4>2. l \in L /\ l.at = x
          BY <4>1 DEF LensesOf
        <4>. HIDE DEF l, L
        <4>3. QED
          BY <4>2
      <3>3. QED
        BY <2>1, <3>1, <3>2
    <2>. HIDE DEF L, c
    <2>5. {l.count : l \in {k \in {m \in L : m.count # 0} : k.at = x}} = {c} \ {0}
      BY <2>3, <2>4
    <2>6. QED
      BY <2>2, <2>5 DEF c
  <1>2. QED
    BY <1>1, AlwaysParsed, PTL

------------------------------------------------------------------------------
(***************************************************************************)
(* Bindings at tokens                                                      *)
(***************************************************************************)
HasSite(s, kind, x) == SiteAtPosition(IndexOf(s, kind), x) # 0

(* A kind has a binding at each of its sites.                              *)
LEMMA BindingIs ==
  ASSUME NEW s, NEW kind, IndexOK(s.text, IndexOf(s, kind)), NEW x
  PROVE  /\ HasSite(s, kind, x) <=> \E i \in DOMAIN IndexOf(s, kind) : x \in Sites(IndexOf(s, kind)[i])
         /\ HasSite(s, kind, x) => /\ SiteAtPosition(IndexOf(s, kind), x) \in DOMAIN IndexOf(s, kind)
                                   /\ x \in Sites(BindingAt(s, kind, x))
  <1> DEFINE index == IndexOf(s, kind)
             j == SiteAtPosition(index, x)
  <1>1. Len(index) \in Nat /\ DOMAIN index = 1..Len(index)
    BY DEF IndexOK
  <1>2. HasSite(s, kind, x) <=> j # 0
    BY DEF HasSite
  <1>3. BindingAt(s, kind, x) = index[j]
    BY DEF BindingAt
  <1>. HIDE DEF index
  <1>4. \/ j = 0 /\ \A i \in DOMAIN index : x \notin Sites(index[i])
        \/ j # 0 /\ j \in DOMAIN index /\ x \in Sites(index[j])
    BY <1>1, SiteIs
  <1>. HIDE DEF j
  <1>5. /\ HasSite(s, kind, x) <=> \E i \in DOMAIN index : x \in Sites(index[i])
        /\ HasSite(s, kind, x) => j \in DOMAIN index /\ x \in Sites(BindingAt(s, kind, x))
    BY <1>2, <1>3, <1>4
  <1>6. QED
    BY <1>5 DEF index, j

(* The kind at a token is the first that has a site there.                 *)
LEMMA KindIs ==
  ASSUME NEW s, NEW order, Len(order) \in Nat, NEW x
  PROVE  LET kind == KindAtPosition(s, order, x)
         IN \/ kind = NoKind /\ \A i \in 1..Len(order) : ~HasSite(s, order[i], x)
            \/ \E i \in 1..Len(order) :
                 /\ kind = order[i] /\ HasSite(s, order[i], x)
                 /\ \A j \in 1..Len(order) : j < i => ~HasSite(s, order[j], x)
  <1> DEFINE kind == KindAtPosition(s, order, x)
             I == {k \in 1..Len(order) : SiteAtPosition(IndexOf(s, order[k]), x) # 0}
             m == IF I # {} THEN Min(I) ELSE 0
  <1>1. kind = IF m = 0 THEN NoKind ELSE order[m]
    BY DEF KindAtPosition, SelectInSeq
  <1>2. \A k \in 1..Len(order) : k \in I <=> HasSite(s, order[k], x)
    BY DEF HasSite
  <1>3. I \subseteq 1..Len(order) /\ I \subseteq Nat
    OBVIOUS
  <1>. HIDE DEF kind, I
  <1>4. CASE I = {}
    BY <1>1, <1>2, <1>4 DEF kind
  <1>5. CASE I # {}
    <2>1. Min(I) \in I /\ \A j \in I : Min(I) <= j
      BY <1>3, <1>5, HasMin
    <2> DEFINE i == Min(I)
    <2>. HIDE DEF i
    <2>2. i \in I /\ i \in 1..Len(order) /\ \A j \in I : i <= j
      BY <1>3, <2>1 DEF i
    <2>3. m = i
      BY <1>5 DEF i
    <2>4. i # 0
      BY <2>2
    <2>. HIDE DEF m
    <2>5. kind = order[i]
      BY <1>1, <2>3, <2>4
    <2>6. HasSite(s, order[i], x)
      BY <1>2, <2>2
    <2>7. \A j \in 1..Len(order) : j < i => ~HasSite(s, order[j], x)
      BY <1>2, <2>2
    <2>8. QED
      BY <2>2, <2>5, <2>6, <2>7 DEF kind
  <1>6. QED
    BY <1>4, <1>5

(* The kinds in the orders of the requests.                                *)
LEMMA RenameKind ==
  ASSUME NEW s, NEW x
  PROVE  KindAtPosition(s, RenameOrder, x) =
           IF HasSite(s, "alias", x) THEN "alias"
           ELSE IF HasSite(s, "cteColumn", x) THEN "cteColumn"
           ELSE IF HasSite(s, "derivedColumn", x) THEN "derivedColumn"
           ELSE IF HasSite(s, "selectAlias", x) THEN "selectAlias" ELSE NoKind
  <1> DEFINE o == RenameOrder
             has(kind) == HasSite(s, kind, x)
             kind == KindAtPosition(s, o, x)
  <1>1. /\ Len(o) = 4 /\ o[1] = "alias" /\ o[2] = "cteColumn" /\ o[3] = "derivedColumn"
        /\ o[4] = "selectAlias"
    BY DEF RenameOrder
  <1>. HIDE DEF o
  <1>2. \/ kind = NoKind /\ \A i \in 1..4 : ~HasSite(s, o[i], x)
        \/ \E i \in 1..4 : /\ kind = o[i] /\ HasSite(s, o[i], x)
                           /\ \A j \in 1..4 : j < i => ~HasSite(s, o[j], x)
    <2>1. Len(o) \in Nat
      BY <1>1
    <2>2. \/ kind = NoKind /\ \A i \in 1..Len(o) : ~HasSite(s, o[i], x)
          \/ \E i \in 1..Len(o) : /\ kind = o[i] /\ HasSite(s, o[i], x)
                                  /\ \A j \in 1..Len(o) : j < i => ~HasSite(s, o[j], x)
      BY <2>1, KindIs
    <2>. HIDE DEF kind
    <2>3. QED
      BY <1>1, <2>2
  <1>3. 1..4 = {1, 2, 3, 4}
    OBVIOUS
  <1>. HIDE DEF kind
  <1>4. \/ kind = NoKind /\ ~has(o[1]) /\ ~has(o[2]) /\ ~has(o[3]) /\ ~has(o[4])
        \/ kind = o[1] /\ has(o[1])
        \/ kind = o[2] /\ has(o[2]) /\ ~has(o[1])
        \/ kind = o[3] /\ has(o[3]) /\ ~has(o[1]) /\ ~has(o[2])
        \/ kind = o[4] /\ has(o[4]) /\ ~has(o[1]) /\ ~has(o[2]) /\ ~has(o[3])
    BY <1>2, <1>3
  <1>5. QED
    BY <1>1, <1>4 DEF kind, o

LEMMA ReferenceKind ==
  ASSUME NEW s, NEW x
  PROVE  KindAtPosition(s, ReferenceOrder, x) =
           IF HasSite(s, "cte", x) THEN "cte"
           ELSE IF HasSite(s, "cteColumn", x) THEN "cteColumn"
           ELSE IF HasSite(s, "derivedColumn", x) THEN "derivedColumn"
           ELSE IF HasSite(s, "alias", x) THEN "alias"
           ELSE IF HasSite(s, "selectAlias", x) THEN "selectAlias" ELSE NoKind
  <1> DEFINE o == ReferenceOrder
             has(kind) == HasSite(s, kind, x)
             kind == KindAtPosition(s, o, x)
  <1>1. /\ Len(o) = 5 /\ o[1] = "cte" /\ o[2] = "cteColumn" /\ o[3] = "derivedColumn"
        /\ o[4] = "alias" /\ o[5] = "selectAlias"
    BY DEF ReferenceOrder
  <1>. HIDE DEF o
  <1>2. \/ kind = NoKind /\ \A i \in 1..5 : ~HasSite(s, o[i], x)
        \/ \E i \in 1..5 : /\ kind = o[i] /\ HasSite(s, o[i], x)
                           /\ \A j \in 1..5 : j < i => ~HasSite(s, o[j], x)
    <2>1. Len(o) \in Nat
      BY <1>1
    <2>2. \/ kind = NoKind /\ \A i \in 1..Len(o) : ~HasSite(s, o[i], x)
          \/ \E i \in 1..Len(o) : /\ kind = o[i] /\ HasSite(s, o[i], x)
                                  /\ \A j \in 1..Len(o) : j < i => ~HasSite(s, o[j], x)
      BY <2>1, KindIs
    <2>. HIDE DEF kind
    <2>3. QED
      BY <1>1, <2>2
  <1>3. 1..5 = {1, 2, 3, 4, 5}
    OBVIOUS
  <1>. HIDE DEF kind
  <1>4. \/ kind = NoKind /\ ~has(o[1]) /\ ~has(o[2]) /\ ~has(o[3]) /\ ~has(o[4]) /\ ~has(o[5])
        \/ kind = o[1] /\ has(o[1])
        \/ kind = o[2] /\ has(o[2]) /\ ~has(o[1])
        \/ kind = o[3] /\ has(o[3]) /\ ~has(o[1]) /\ ~has(o[2])
        \/ kind = o[4] /\ has(o[4]) /\ ~has(o[1]) /\ ~has(o[2]) /\ ~has(o[3])
        \/ kind = o[5] /\ has(o[5]) /\ ~has(o[1]) /\ ~has(o[2]) /\ ~has(o[3]) /\ ~has(o[4])
    BY <1>2, <1>3
  <1>5. QED
    BY <1>1, <1>4 DEF kind, o

LEMMA DefinitionKind ==
  ASSUME NEW s, NEW x
  PROVE  KindAtPosition(s, DefinitionOrder, x) =
           IF HasSite(s, "cte", x) THEN "cte"
           ELSE IF HasSite(s, "alias", x) THEN "alias"
           ELSE IF HasSite(s, "selectAlias", x) THEN "selectAlias" ELSE NoKind
  <1> DEFINE o == DefinitionOrder
             has(kind) == HasSite(s, kind, x)
             kind == KindAtPosition(s, o, x)
  <1>1. Len(o) = 3 /\ o[1] = "cte" /\ o[2] = "alias" /\ o[3] = "selectAlias"
    BY DEF DefinitionOrder
  <1>. HIDE DEF o
  <1>2. \/ kind = NoKind /\ \A i \in 1..3 : ~HasSite(s, o[i], x)
        \/ \E i \in 1..3 : /\ kind = o[i] /\ HasSite(s, o[i], x)
                           /\ \A j \in 1..3 : j < i => ~HasSite(s, o[j], x)
    <2>1. Len(o) \in Nat
      BY <1>1
    <2>2. \/ kind = NoKind /\ \A i \in 1..Len(o) : ~HasSite(s, o[i], x)
          \/ \E i \in 1..Len(o) : /\ kind = o[i] /\ HasSite(s, o[i], x)
                                  /\ \A j \in 1..Len(o) : j < i => ~HasSite(s, o[j], x)
      BY <2>1, KindIs
    <2>. HIDE DEF kind
    <2>3. QED
      BY <1>1, <2>2
  <1>3. 1..3 = {1, 2, 3}
    OBVIOUS
  <1>. HIDE DEF kind
  <1>4. \/ kind = NoKind /\ ~has(o[1]) /\ ~has(o[2]) /\ ~has(o[3])
        \/ kind = o[1] /\ has(o[1])
        \/ kind = o[2] /\ has(o[2]) /\ ~has(o[1])
        \/ kind = o[3] /\ has(o[3]) /\ ~has(o[1]) /\ ~has(o[2])
    BY <1>2, <1>3
  <1>5. QED
    BY <1>1, <1>4 DEF kind, o

(* The queries whose columns an index has, and the aliases their members   *)
(* are asked by.                                                           *)
ShapesOf(s, kind) == IF kind = "cteColumn" THEN CTEShapes(s.ctes) ELSE DerivedShapes(s.aliases)
OwnersOf(s, kind) ==
  IF kind = "cteColumn" THEN CTEOwners(s.ctes, s.aliases) ELSE DerivedOwners(s.aliases)

(* What the indexes of a snapshot are.                                     *)
Indexed(s) ==
  /\ IsText(s.text)
  /\ \E order : IndexesCTEs(s.text, s.ctes, order)
  /\ IndexesAliases(s.text, s.aliases)
  /\ IndexesResults(s.text, s.aliases, s.selectAliases)
  /\ CTESources(s.ctes, s.aliases)
  /\ \A kind \in ColumnKinds :
       IndexesColumns(s.text, s.aliases, s.selectAliases, IndexOf(s, kind),
                      ShapesOf(s, kind), OwnersOf(s, kind))
  /\ \A kind \in BindingKinds : IndexOK(s.text, IndexOf(s, kind))
  /\ \A kind \in BindingKinds \ ColumnKinds : \A i, j \in DOMAIN IndexOf(s, kind) :
       i # j => Sites(IndexOf(s, kind)[i]) \cap Sites(IndexOf(s, kind)[j]) = {}

LEMMA DocumentIndexed ==
  ASSUME SnapshotsAreParsed, NEW p \in Paths
  PROVE  Indexed(documents[p])
  <1> DEFINE s == documents[p]
  <1>1. /\ IsText(s.text)
        /\ \E order : IndexesCTEs(s.text, s.ctes, order)
        /\ IndexesAliases(s.text, s.aliases)
        /\ IndexesResults(s.text, s.aliases, s.selectAliases)
        /\ CTESources(s.ctes, s.aliases)
        /\ IndexesColumns(s.text, s.aliases, s.selectAliases, s.cteColumns,
                          CTEShapes(s.ctes), CTEOwners(s.ctes, s.aliases))
        /\ IndexesColumns(s.text, s.aliases, s.selectAliases, s.derivedColumns,
                          DerivedShapes(s.aliases), DerivedOwners(s.aliases))
        /\ \A kind \in BindingKinds : IndexOK(s.text, IndexOf(s, kind))
    BY DocumentIndexes
  <1>2. \A kind \in BindingKinds \ ColumnKinds : \A i, j \in DOMAIN IndexOf(s, kind) :
          i # j => Sites(IndexOf(s, kind)[i]) \cap Sites(IndexOf(s, kind)[j]) = {}
    BY OneBinding
  <1>. HIDE DEF s
  <1>3. ASSUME NEW kind \in ColumnKinds
        PROVE  IndexesColumns(s.text, s.aliases, s.selectAliases, IndexOf(s, kind),
                              ShapesOf(s, kind), OwnersOf(s, kind))
    BY <1>1 DEF ColumnKinds, IndexOf, ShapesOf, OwnersOf
  <1>4. Indexed(s)
    BY <1>1, <1>2, <1>3 DEF Indexed
  <1>5. QED
    BY <1>4 DEF s

(* A token is at the one CTE, alias or result that has it as a site.       *)
LEMMA BindingHere ==
  ASSUME NEW s, Indexed(s), NEW kind \in BindingKinds \ ColumnKinds,
         NEW i \in DOMAIN IndexOf(s, kind), NEW x \in Sites(IndexOf(s, kind)[i])
  PROVE  HasSite(s, kind, x) /\ BindingAt(s, kind, x) = IndexOf(s, kind)[i]
  <1> DEFINE index == IndexOf(s, kind)
             j == SiteAtPosition(index, x)
  <1>1. IndexOK(s.text, index)
    BY DEF Indexed
  <1>2. HasSite(s, kind, x) /\ j \in DOMAIN index /\ x \in Sites(index[j])
    BY <1>1, BindingIs DEF BindingAt
  <1>3. \A k, l \in DOMAIN index : k # l => Sites(index[k]) \cap Sites(index[l]) = {}
    BY DEF Indexed
  <1>. HIDE DEF index, j
  <1>4. i = j
    BY <1>2, <1>3 DEF index
  <1>5. QED
    BY <1>2, <1>4 DEF BindingAt, index, j

(* The k-th query of an index has a column y.                              *)
HasColumn(s, kind, k, y) ==
  /\ k \in DOMAIN ShapesOf(s, kind)
  /\ \E l \in DOMAIN ShapesOf(s, kind)[k].columns : ShapesOf(s, kind)[k].columns[l].at = y

(* An index of columns has those of its queries and no other.              *)
LEMMA ColumnIndexed ==
  ASSUME NEW s, Indexed(s), NEW kind \in ColumnKinds
  PROVE  LET index == IndexOf(s, kind)
             is(k, b) == ColumnIs(s.text, s.aliases, s.selectAliases, OwnersOf(s, kind)[k], b.at, b)
         IN /\ \A i \in DOMAIN index : \E k : HasColumn(s, kind, k, index[i].at) /\ is(k, index[i])
            /\ \A k, y : HasColumn(s, kind, k, y) =>
                 \E i \in DOMAIN index : index[i].at = y /\ is(k, index[i])
  <1> DEFINE index == IndexOf(s, kind)
             shapes == ShapesOf(s, kind)
             owners == OwnersOf(s, kind)
             Is(k, y, b) == ColumnIs(s.text, s.aliases, s.selectAliases, owners[k], y, b)
  <1>1. IndexesColumns(s.text, s.aliases, s.selectAliases, index, shapes, owners)
    BY DEF Indexed
  <1>2. /\ \A i \in DOMAIN index : \E k \in DOMAIN shapes : \E l \in DOMAIN shapes[k].columns :
             Is(k, shapes[k].columns[l].at, index[i])
        /\ \A k \in DOMAIN shapes : \A l \in DOMAIN shapes[k].columns : \E i \in DOMAIN index :
             Is(k, shapes[k].columns[l].at, index[i])
    BY <1>1 DEF IndexesColumns
  <1>3. \A k, y, b : Is(k, y, b) => b.at = y
    BY DEF ColumnIs
  <1>4. \A k, y : HasColumn(s, kind, k, y) <=>
          k \in DOMAIN shapes /\ \E l \in DOMAIN shapes[k].columns : shapes[k].columns[l].at = y
    BY DEF HasColumn
  <1>. HIDE DEF index, shapes, owners, Is
  <1>5. ASSUME NEW i \in DOMAIN index
        PROVE  \E k : HasColumn(s, kind, k, index[i].at) /\ Is(k, index[i].at, index[i])
    <2>1. \E k \in DOMAIN shapes : \E l \in DOMAIN shapes[k].columns :
            Is(k, shapes[k].columns[l].at, index[i])
      BY <1>2
    <2>2. PICK k \in DOMAIN shapes : \E l \in DOMAIN shapes[k].columns :
            Is(k, shapes[k].columns[l].at, index[i])
      BY <2>1
    <2>3. PICK l \in DOMAIN shapes[k].columns : Is(k, shapes[k].columns[l].at, index[i])
      BY <2>2
    <2>4. shapes[k].columns[l].at = index[i].at
      BY <1>3, <2>3
    <2>5. HasColumn(s, kind, k, index[i].at)
      BY <1>4, <2>4
    <2>6. QED
      BY <2>3, <2>4, <2>5
  <1>6. ASSUME NEW k, NEW y, HasColumn(s, kind, k, y)
        PROVE  \E i \in DOMAIN index : index[i].at = y /\ Is(k, index[i].at, index[i])
    <2>1. k \in DOMAIN shapes /\ \E l \in DOMAIN shapes[k].columns : shapes[k].columns[l].at = y
      BY <1>4, <1>6
    <2>2. PICK l \in DOMAIN shapes[k].columns : shapes[k].columns[l].at = y
      BY <2>1
    <2>3. \E i \in DOMAIN index : Is(k, shapes[k].columns[l].at, index[i])
      BY <1>2, <2>1
    <2>4. PICK i \in DOMAIN index : Is(k, y, index[i])
      BY <2>2, <2>3
    <2>5. index[i].at = y
      BY <1>3, <2>4
    <2>6. QED
      BY <2>4, <2>5
  <1>7. QED
    BY <1>5, <1>6 DEF index, owners, Is

(* The query the columns of the k-th CTE or alias are those of.            *)
IsBody(s, kind, k, r) ==
  LET Q == Queries(s.text)
  IN \/ /\ kind = "cteColumn" /\ k \in DOMAIN s.ctes
        /\ \E q \in DOMAIN Q : \E i \in DOMAIN Q[q].ctes :
             Q[q].ctes[i].name = s.ctes[k].at /\ Q[q].ctes[i].query = r
     \/ /\ kind = "derivedColumn" /\ k \in DOMAIN s.aliases.bindings
        /\ \E q \in DOMAIN Q : \E i \in DOMAIN Q[q].from :
             /\ Q[q].from[i].kind = "query" /\ Q[q].from[i].query = r
             /\ Q[q].from[i].as = s.aliases.bindings[k].at

LEMMA ColumnBody ==
  ASSUME NEW s, Indexed(s), NEW kind \in ColumnKinds, NEW k, NEW y, HasColumn(s, kind, k, y)
  PROVE  /\ y \in ItemNames(s.text)
         /\ \E r : IsBody(s, kind, k, r) /\ \E l : ItemNamed(s.text, r, l, y)
  <1> DEFINE t == s.text
             Q == Queries(s.text)
  <1>1. k \in DOMAIN ShapesOf(s, kind)
        /\ \E l \in DOMAIN ShapesOf(s, kind)[k].columns : ShapesOf(s, kind)[k].columns[l].at = y
    BY DEF HasColumn
  <1>2. ASSUME NEW r \in DOMAIN Queries(t), ShapesOf(s, kind)[k] = ExtractQueryColumnFacts(t, r)
        PROVE  y \in ItemNames(s.text) /\ \E l : ItemNamed(s.text, r, l, y)
    <2> DEFINE columns == ExtractQueryColumnFacts(t, r).columns
    <2>1. IsText(t)
      BY DEF Indexed
    <2>2. \A l \in DOMAIN columns : ItemNamed(t, r, l, columns[l].at)
      BY <2>1, ColumnsAreItems
    <2>3. \E l \in DOMAIN columns : columns[l].at = y
      BY <1>1, <1>2
    <2>. HIDE DEF columns
    <2>4. PICK l : ItemNamed(t, r, l, y)
      BY <2>2, <2>3
    <2>5. QED
      BY <2>1, <2>4, ItemNamesAre
  <1>3. CASE kind = "cteColumn"
    <2>1. PICK order : IndexesCTEs(t, s.ctes, order)
      BY DEF Indexed
    <2>2. k \in DOMAIN s.ctes /\ ShapesOf(s, kind)[k] = s.ctes[k].shape
      BY <1>1, <1>3 DEF ShapesOf, CTEShapes
    <2>3. /\ k \in 1..Len(order) /\ order \in Seq(DeclaredCTEs(t))
          /\ s.ctes[k].at = order[k].name
          /\ s.ctes[k].shape = ExtractQueryColumnFacts(t, order[k].query)
      BY <2>1, <2>2 DEF IndexesCTEs
    <2>4. order[k] \in DeclaredCTEs(t)
      BY <2>3
    <2>5. order[k].query \in DOMAIN Queries(t)
      <3>1. IsText(t)
        BY DEF Indexed
      <3>2. QED
        BY <2>4, <3>1, DeclaredCTEsAre
    <2>6. \E q \in DOMAIN Q : \E i \in DOMAIN Q[q].ctes : order[k] = Q[q].ctes[i]
      BY <2>4 DEF DeclaredCTEs, ToSet
    <2>7. IsBody(s, kind, k, order[k].query)
      BY <1>3, <2>2, <2>3, <2>6 DEF IsBody
    <2>8. QED
      BY <1>2, <2>2, <2>3, <2>5, <2>7
  <1>4. CASE kind = "derivedColumn"
    <2> DEFINE b == s.aliases.bindings
    <2>1. /\ k \in DOMAIN b
          /\ ShapesOf(s, kind)[k] = IF b[k].ambiguous THEN NoColumns ELSE b[k].source.shape
      BY <1>1, <1>4 DEF ShapesOf, DerivedShapes
    <2>2. NoColumns.columns = << >>
      BY DEF NoColumns
    <2>3. b[k].source.shape.columns = << >> \/ IsDerived(t, b[k].at, b[k].source.shape)
      BY <2>1 DEF Indexed, IndexesAliases
    <2>4. ShapesOf(s, kind)[k].columns # << >>
      BY <1>1
    <2>. HIDE DEF b
    <2>5. ShapesOf(s, kind)[k] = b[k].source.shape /\ IsDerived(t, b[k].at, b[k].source.shape)
      BY <2>1, <2>2, <2>3, <2>4
    <2>6. PICK q, i : Derived(t, b[k].at, b[k].source.shape, q, i)
      BY <2>5 DEF IsDerived
    <2>7. /\ q \in DOMAIN Q /\ i \in DOMAIN Q[q].from
          /\ Q[q].from[i].kind = "query" /\ Q[q].from[i].as = b[k].at
          /\ b[k].source.shape = ExtractQueryColumnFacts(t, Q[q].from[i].query)
      BY <2>6 DEF Derived
    <2>8. Q[q].from[i].query \in DOMAIN Queries(t)
      <3>1. IsText(t)
        BY DEF Indexed
      <3>2. QED
        BY <2>7, <3>1, QueryTypes
    <2>9. IsBody(s, kind, k, Q[q].from[i].query)
      BY <1>4, <2>1, <2>7 DEF IsBody, b
    <2>10. QED
      BY <1>2, <2>5, <2>7, <2>8, <2>9
  <1>5. QED
    BY <1>3, <1>4 DEF ColumnKinds

(* A CTE or an alias is in its index once.                                 *)
LEMMA DeclaredOnce ==
  ASSUME NEW s, Indexed(s), NEW kind \in {"cte", "alias"},
         NEW i \in DOMAIN IndexOf(s, kind), NEW j \in DOMAIN IndexOf(s, kind),
         IndexOf(s, kind)[i].at = IndexOf(s, kind)[j].at
  PROVE  i = j
  <1>1. kind \in BindingKinds \ ColumnKinds
    BY DEF BindingKinds, ColumnKinds
  <1>2. IndexOf(s, kind)[i].at \in Sites(IndexOf(s, kind)[i]) \cap Sites(IndexOf(s, kind)[j])
    BY DEF Sites
  <1>3. QED
    BY <1>1, <1>2 DEF Indexed

(* A query is the body of one CTE or stands in one FROM.                   *)
LEMMA BodyOnce ==
  ASSUME NEW s, Indexed(s), NEW kind, NEW k, NEW r, IsBody(s, kind, k, r),
         NEW other, NEW m, IsBody(s, other, m, r)
  PROVE  kind = other /\ k = m
  <1> DEFINE Q == Queries(s.text)
             b == s.aliases.bindings
  <1>1. BodiesApart(Q)
    BY DEF Indexed, IsText, WellFormed, Queries
  <1>. HIDE DEF Q
  <1>2. \A q \in DOMAIN Q : \A i \in DOMAIN Q[q].ctes :
          /\ Q[Q[q].ctes[i].query].role = "cte" /\ Q[Q[q].ctes[i].query].up = q
          /\ Q[Q[q].ctes[i].query].at = i
    BY <1>1 DEF BodiesApart
  <1>3. \A q \in DOMAIN Q : \A i \in DOMAIN Q[q].from : Q[q].from[i].kind = "query" =>
          Q[Q[q].from[i].query].role = "from" /\ Q[Q[q].from[i].query].up = q
    BY <1>1 DEF BodiesApart
  <1>4. \A q \in DOMAIN Q : \A i, j \in DOMAIN Q[q].from :
          Q[q].from[i].kind = "query" /\ Q[q].from[j].kind = "query"
            /\ Q[q].from[i].query = Q[q].from[j].query => i = j
    BY <1>1 DEF BodiesApart
  <1> DEFINE OfCTE(a) == /\ a \in DOMAIN s.ctes
                         /\ \E q \in DOMAIN Q : \E i \in DOMAIN Q[q].ctes :
                              Q[q].ctes[i].name = s.ctes[a].at /\ Q[q].ctes[i].query = r
             OfAlias(a) == /\ a \in DOMAIN b
                           /\ \E q \in DOMAIN Q : \E i \in DOMAIN Q[q].from :
                                /\ Q[q].from[i].kind = "query" /\ Q[q].from[i].query = r
                                /\ Q[q].from[i].as = b[a].at
  <1>5. ASSUME NEW a, OfCTE(a)
        PROVE  Q[r].role = "cte" /\ s.ctes[a].at = Q[Q[r].up].ctes[Q[r].at].name
    <2>1. PICK q \in DOMAIN Q : \E i \in DOMAIN Q[q].ctes :
            Q[q].ctes[i].name = s.ctes[a].at /\ Q[q].ctes[i].query = r
      BY <1>5
    <2>2. PICK i \in DOMAIN Q[q].ctes : Q[q].ctes[i].name = s.ctes[a].at /\ Q[q].ctes[i].query = r
      BY <2>1
    <2>3. Q[r].role = "cte" /\ Q[r].up = q /\ Q[r].at = i
      BY <1>2, <2>2
    <2>4. QED
      BY <2>2, <2>3
  <1>6. ASSUME NEW a, OfAlias(a)
        PROVE  /\ Q[r].role = "from" /\ Q[r].up \in DOMAIN Q
               /\ \E i \in DOMAIN Q[Q[r].up].from :
                    /\ Q[Q[r].up].from[i].kind = "query" /\ Q[Q[r].up].from[i].query = r
                    /\ Q[Q[r].up].from[i].as = b[a].at
    <2>1. PICK q \in DOMAIN Q : \E i \in DOMAIN Q[q].from :
            /\ Q[q].from[i].kind = "query" /\ Q[q].from[i].query = r
            /\ Q[q].from[i].as = b[a].at
      BY <1>6
    <2>2. Q[r].role = "from" /\ Q[r].up = q
      BY <1>3, <2>1
    <2>3. QED
      BY <2>1, <2>2
  <1>7. \A a, c : OfCTE(a) /\ OfCTE(c) => a = c
    <2>1. ASSUME NEW a, NEW c, OfCTE(a), OfCTE(c) PROVE a = c
      <3>1. s.ctes[a].at = s.ctes[c].at
        BY <1>5, <2>1
      <3>2. IndexOf(s, "cte") = s.ctes
        BY DEF IndexOf
      <3>3. a \in DOMAIN s.ctes /\ c \in DOMAIN s.ctes
        BY <2>1
      <3>. HIDE DEF OfCTE
      <3>4. QED
        BY <3>1, <3>2, <3>3, DeclaredOnce
    <2>2. QED
      BY <2>1
  <1>8. \A a, c : OfAlias(a) /\ OfAlias(c) => a = c
    <2>1. ASSUME NEW a, NEW c, OfAlias(a), OfAlias(c) PROVE a = c
      <3> DEFINE u == Q[r].up
                 Here(d) == \E i \in DOMAIN Q[u].from :
                              /\ Q[u].from[i].kind = "query" /\ Q[u].from[i].query = r
                              /\ Q[u].from[i].as = b[d].at
      <3>1. u \in DOMAIN Q /\ Here(a) /\ Here(c)
        BY <1>6, <2>1
      <3>2. PICK i \in DOMAIN Q[u].from : /\ Q[u].from[i].kind = "query" /\ Q[u].from[i].query = r
                                          /\ Q[u].from[i].as = b[a].at
        BY <3>1
      <3>3. PICK j \in DOMAIN Q[u].from : /\ Q[u].from[j].kind = "query" /\ Q[u].from[j].query = r
                                          /\ Q[u].from[j].as = b[c].at
        BY <3>1
      <3>4. i = j
        BY <1>4, <3>1, <3>2, <3>3
      <3>5. b[a].at = b[c].at
        BY <3>2, <3>3, <3>4
      <3>6. IndexOf(s, "alias") = b
        BY DEF IndexOf
      <3>7. a \in DOMAIN b /\ c \in DOMAIN b
        BY <2>1
      <3>. HIDE DEF OfAlias, b
      <3>8. QED
        BY <3>5, <3>6, <3>7, DeclaredOnce
    <2>2. QED
      BY <2>1
  <1>9. \A a, c : ~(OfCTE(a) /\ OfAlias(c))
    <2>1. ASSUME NEW a, NEW c, OfCTE(a), OfAlias(c) PROVE FALSE
      <3>1. Q[r].role = "cte" /\ Q[r].role = "from"
        BY <1>5, <1>6, <2>1
      <3>2. QED
        BY <3>1
    <2>2. QED
      BY <2>1
  <1>10. \A d, a : IsBody(s, d, a, r) => \/ d = "cteColumn" /\ OfCTE(a)
                                         \/ d = "derivedColumn" /\ OfAlias(a)
    BY DEF IsBody, Q
  <1>. HIDE DEF OfCTE, OfAlias
  <1>11. QED
    BY <1>7, <1>8, <1>9, <1>10

(* A token is a column of one query of the indexes.                        *)
LEMMA ColumnOnce ==
  ASSUME NEW s, Indexed(s), NEW y,
         NEW kind \in ColumnKinds, NEW k, HasColumn(s, kind, k, y),
         NEW other \in ColumnKinds, NEW m, HasColumn(s, other, m, y)
  PROVE  kind = other /\ k = m
  <1>1. PICK r : IsBody(s, kind, k, r) /\ \E l : ItemNamed(s.text, r, l, y)
    BY ColumnBody
  <1>2. PICK o : IsBody(s, other, m, o) /\ \E l : ItemNamed(s.text, o, l, y)
    BY ColumnBody
  <1>3. PICK l : ItemNamed(s.text, r, l, y)
    BY <1>1
  <1>4. PICK n : ItemNamed(s.text, o, n, y)
    BY <1>2
  <1>5. IsText(s.text)
    BY DEF Indexed
  <1>6. ResultAt(s.text, r, l, y) /\ ResultAt(s.text, o, n, y) /\ y # NoToken
    BY <1>3, <1>4, <1>5, ItemNamesAre DEF ItemNamed
  <1>7. r = o
    BY <1>5, <1>6, ResultOnce
  <1>8. QED
    BY <1>1, <1>2, <1>7, BodyOnce

(* What asks for a column is the second token of a path or refers to the   *)
(* result that the column is.                                              *)
LEMMA ColumnAsked ==
  ASSUME NEW s, Indexed(s), NEW kind \in ColumnKinds, NEW i \in DOMAIN IndexOf(s, kind)
  PROVE  LET c == IndexOf(s, kind)[i]
             results == s.selectAliases.bindings
         IN /\ c.at \in ItemNames(s.text)
            /\ \A x \in c.refs : \/ PathPlace(s.text, 2, x)
                                 \/ \E j \in DOMAIN results : results[j].at = c.at /\ x \in results[j].refs
            /\ \A j \in DOMAIN results : results[j].at = c.at => results[j].refs \subseteq c.refs
  <1> DEFINE c == IndexOf(s, kind)[i]
             results == s.selectAliases.bindings
  <1>1. PICK k : /\ HasColumn(s, kind, k, c.at)
                 /\ ColumnIs(s.text, s.aliases, s.selectAliases, OwnersOf(s, kind)[k], c.at, c)
    BY ColumnIndexed
  <1>2. c.at \in ItemNames(s.text)
    BY <1>1, ColumnBody
  <1> DEFINE owners == OwnersOf(s, kind)[k]
  <1>3. ColumnIs(s.text, s.aliases, s.selectAliases, owners, c.at, c)
    BY <1>1
  <1>. HIDE DEF c, owners
  <1>4. \A x : x \in c.refs <=>
          \/ \E m \in s.aliases.members : m.alias \in owners /\ Key(s.text, m.at) = Key(s.text, c.at) /\ x = m.at
          \/ \E b \in ToSet(results) : b.at = c.at /\ x \in b.refs
    BY <1>3 DEF ColumnIs, AsksFor
  <1>5. \A b : b \in ToSet(results) <=> \E j \in DOMAIN results : b = results[j]
    BY DEF ToSet
  <1>6. ASSUME NEW x \in c.refs
        PROVE  \/ PathPlace(s.text, 2, x)
               \/ \E j \in DOMAIN results : results[j].at = c.at /\ x \in results[j].refs
    <2>1. CASE \E m \in s.aliases.members : x = m.at
      BY <2>1 DEF Indexed, IndexesAliases
    <2>2. CASE \E b \in ToSet(results) : b.at = c.at /\ x \in b.refs
      <3>. HIDE DEF results
      <3>1. QED
        BY <1>5, <2>2
    <2>3. QED
      BY <1>4, <2>1, <2>2
  <1>7. ASSUME NEW j \in DOMAIN results, results[j].at = c.at PROVE results[j].refs \subseteq c.refs
    BY <1>4, <1>5, <1>7
  <1>8. QED
    BY <1>2, <1>6, <1>7 DEF c

(* Where the sites of the indexes are written.                             *)
Elsewhere == DeclaredAliases \cup Expressions \cup Results

LEMMA SitesMarked ==
  ASSUME NEW s, Indexed(s), NEW kind \in BindingKinds, NEW x, HasSite(s, kind, x)
  PROVE  /\ x \in Tokens(s.text) /\ x # NoToken
         /\ kind = "cte" => x \in Marked(s.text, {"cte", "from"})
         /\ kind # "cte" => x \in Marked(s.text, Elsewhere)
  <1> DEFINE t == s.text
             index == IndexOf(s, kind)
  <1>1. IsText(t) /\ IndexOK(t, index)
    BY DEF Indexed
  <1>2. PICK i \in DOMAIN index : x \in Sites(index[i])
    BY <1>1, BindingIs
  <1>3. x = index[i].at \/ x \in index[i].refs
    BY <1>2 DEF Sites
  <1>4. x \in Tokens(t) /\ x # NoToken
    <2>1. BindingOK(t, index[i])
      BY <1>1, <1>2 DEF IndexOK
    <2>. HIDE DEF t, index
    <2>2. x \in Tokens(t)
      BY <1>3, <2>1 DEF BindingOK, InQueries
    <2>3. QED
      BY <1>1, <2>2, TextTypes
  <1>5. ASSUME NEW tags, x \in Marked(t, tags), tags \subseteq Elsewhere PROVE x \in Marked(t, Elsewhere)
    BY <1>5 DEF Marked
  <1>6. Results \subseteq Elsewhere /\ DeclaredAliases \subseteq Elsewhere /\ Expressions \subseteq Elsewhere
        /\ Asked \subseteq Elsewhere
    BY DEF Elsewhere, Asked, Expressions
  <1>7. CASE kind = "cte"
    <2>1. PICK order : IndexesCTEs(t, s.ctes, order)
      BY DEF Indexed
    <2>2. i \in DOMAIN s.ctes /\ index[i] = s.ctes[i]
      BY <1>2, <1>7 DEF IndexOf
    <2>3. s.ctes[i].at \in Marked(t, {"cte"}) /\ \A y \in s.ctes[i].refs : y \in Marked(t, {"from"})
      BY <1>1, <2>1, <2>2, CTEMarked
    <2>4. x \in Marked(t, {"cte"}) \/ x \in Marked(t, {"from"})
      BY <1>3, <2>2, <2>3
    <2>5. x \in Marked(t, {"cte", "from"})
      BY <2>4 DEF Marked
    <2>6. QED
      BY <1>4, <1>7, <2>5
  <1>8. CASE kind = "alias"
    <2>1. index = s.aliases.bindings
      BY <1>8 DEF IndexOf
    <2>2. x \in Marked(t, DeclaredAliases) \/ x \in Marked(t, Expressions)
      BY <1>2, <1>3, <2>1 DEF Indexed, IndexesAliases
    <2>3. QED
      BY <1>4, <1>5, <1>6, <1>8, <2>2
  <1>9. ASSUME NEW j \in DOMAIN s.selectAliases.bindings
        PROVE  /\ s.selectAliases.bindings[j].at \in Marked(t, Results)
               /\ \A y \in s.selectAliases.bindings[j].refs : y \in Marked(t, Asked)
    BY DEF Indexed, IndexesResults
  <1>10. CASE kind = "selectAlias"
    <2>1. index = s.selectAliases.bindings
      BY <1>10 DEF IndexOf
    <2>2. x \in Marked(t, Results) \/ x \in Marked(t, Asked)
      <3>. HIDE DEF t
      <3>1. QED
        BY <1>2, <1>3, <1>9, <2>1
    <2>3. QED
      BY <1>4, <1>5, <1>6, <1>10, <2>2
  <1>11. CASE kind \in ColumnKinds
    <2>1. /\ index[i].at \in ItemNames(t)
          /\ \A y \in index[i].refs : \/ PathPlace(t, 2, y)
                                      \/ \E j \in DOMAIN s.selectAliases.bindings :
                                           y \in s.selectAliases.bindings[j].refs
      BY <1>2, <1>11, ColumnAsked
    <2>2. x \in ItemNames(t) => x \in Marked(t, Results)
      <3>1. ASSUME x \in ItemNames(t) PROVE x \in Marked(t, Results)
        <4>1. PICK r, l : ItemNamed(t, r, l, x)
          BY <3>1 DEF ItemNames
        <4>2. QED
          BY <1>1, <4>1, ItemNamesAre
      <3>2. QED
        BY <3>1
    <2>3. PathPlace(t, 2, x) => x \in Marked(t, Expressions)
      BY MarkedHere DEF PathPlace
    <2>4. (\E j \in DOMAIN s.selectAliases.bindings : x \in s.selectAliases.bindings[j].refs) =>
            x \in Marked(t, Asked)
      BY <1>9
    <2>. HIDE DEF index, t
    <2>5. x \in Marked(t, Results) \/ x \in Marked(t, Expressions) \/ x \in Marked(t, Asked)
      BY <1>3, <2>1, <2>2, <2>3, <2>4
    <2>6. x \in Marked(t, Elsewhere)
      BY <1>5, <1>6, <2>5
    <2>7. kind # "cte"
      BY <1>11 DEF ColumnKinds
    <2>8. QED
      BY <1>4, <2>6, <2>7 DEF t
  <1>12. QED
    BY <1>7, <1>8, <1>10, <1>11 DEF BindingKinds

(* The name of a table, a view or a CTE is a site of CTEs only.            *)
LEMMA NamesApart ==
  ASSUME NEW s, Indexed(s), NEW x \in Tokens(s.text),
         x \in Marked(s.text, {"cte", "from", "relation"})
  PROVE  /\ \A kind \in BindingKinds : HasSite(s, kind, x) => kind = "cte"
         /\ ~AmbiguousAtPosition(s, x)
  <1>1. IsText(s.text) /\ x # NoToken
    BY TextTypes DEF Indexed
  <1>2. {"cte", "from", "relation"} \cap Elsewhere = {} /\ {"cte", "from", "relation"} \cap Asked = {}
    BY DEF Elsewhere, DeclaredAliases, Expressions, Results, Asked
  <1>3. x \notin Marked(s.text, Elsewhere) /\ x \notin Marked(s.text, Asked)
    BY <1>1, <1>2, MarkedApart
  <1>4. ~AmbiguousAtPosition(s, x)
    BY <1>3 DEF AmbiguousAtPosition, Indexed, IndexesResults
  <1>5. QED
    BY <1>3, <1>4, SitesMarked

(* No site of another index is one of a CTE.                               *)
LEMMA CTEsApart ==
  ASSUME NEW s, Indexed(s), NEW kind \in BindingKinds \ {"cte"}, NEW x, HasSite(s, kind, x)
  PROVE  ~HasSite(s, "cte", x)
  <1>1. SUFFICES ASSUME HasSite(s, "cte", x) PROVE FALSE
    OBVIOUS
  <1>2. "cte" \in BindingKinds
    BY DEF BindingKinds
  <1>3. x \in Tokens(s.text) /\ x \in Marked(s.text, {"cte", "from"})
    BY <1>1, <1>2, SitesMarked
  <1>4. x \in Marked(s.text, {"cte", "from", "relation"})
    BY <1>3 DEF Marked
  <1>5. QED
    BY <1>3, <1>4, NamesApart

(* No column or result is declared or asked for where an alias is.         *)
LEMMA AliasesApart ==
  ASSUME NEW s, Indexed(s), NEW kind \in ColumnKinds \cup {"selectAlias"}, NEW x, HasSite(s, kind, x)
  PROVE  ~HasSite(s, "alias", x)
  <1>1. SUFFICES ASSUME HasSite(s, "alias", x) PROVE FALSE
    OBVIOUS
  <1> DEFINE t == s.text
             index == IndexOf(s, kind)
             aliases == s.aliases.bindings
             results == s.selectAliases.bindings
  <1>2. "alias" \in BindingKinds /\ kind \in BindingKinds
    BY DEF BindingKinds
  <1>3. IsText(t) /\ IndexOK(t, index) /\ IndexOK(t, IndexOf(s, "alias")) /\ IndexOf(s, "alias") = aliases
    BY <1>2 DEF Indexed, IndexOf
  <1>4. x # NoToken
    BY <1>1, <1>2, SitesMarked
  <1>5. PICK a \in DOMAIN aliases : x \in Sites(aliases[a])
    BY <1>1, <1>3, BindingIs
  <1>6. \/ x \in Marked(t, DeclaredAliases)
        \/ PathPlace(t, 1, x) /\ x \notin ItemNames(t)
    BY <1>5 DEF Indexed, IndexesAliases, Sites
  <1>7. x \notin ItemNames(t)
    <2>1. SUFFICES ASSUME x \in ItemNames(t), x \in Marked(t, DeclaredAliases) PROVE FALSE
      BY <1>6
    <2>2. PICK r, l : ItemNamed(t, r, l, x)
      BY <2>1 DEF ItemNames
    <2>3. x \in Marked(t, Results)
      BY <1>3, <2>2, ItemNamesAre
    <2>4. Results \cap DeclaredAliases = {}
      BY DEF Results, DeclaredAliases
    <2>5. QED
      BY <1>3, <1>4, <2>1, <2>3, <2>4, MarkedApart
  <1>8. ~PathPlace(t, 2, x)
    <2>1. SUFFICES ASSUME PathPlace(t, 2, x) PROVE FALSE
      OBVIOUS
    <2>2. x \in Marked(t, Expressions)
      BY <2>1, MarkedHere DEF PathPlace
    <2>3. Expressions \cap DeclaredAliases = {}
      BY DEF Expressions, DeclaredAliases
    <2>4. x \notin Marked(t, DeclaredAliases)
      BY <1>3, <1>4, <2>2, <2>3, MarkedApart
    <2>5. PathPlace(t, 1, x)
      BY <1>6, <2>4
    <2>6. 1 = 2
      BY <1>3, <1>4, <2>1, <2>5, PathPlaceOnce
    <2>7. QED
      BY <2>6
  <1>9. \A j \in DOMAIN results : x \notin results[j].refs
    <2>1. SiteAtPosition(aliases, x) # 0
      BY <1>1, <1>3 DEF HasSite
    <2>2. QED
      BY <2>1 DEF Indexed, IndexesResults
  <1>10. PICK i \in DOMAIN index : x \in Sites(index[i])
    BY <1>3, BindingIs
  <1>11. x = index[i].at \/ x \in index[i].refs
    BY <1>10 DEF Sites
  <1>12. CASE kind = "selectAlias"
    <2>1. index = results
      BY <1>12 DEF IndexOf
    <2>2. index[i].at \in ItemNames(t)
      BY <1>10, <2>1 DEF Indexed, IndexesResults
    <2>. HIDE DEF index, results, t
    <2>3. QED
      BY <1>7, <1>9, <1>10, <1>11, <2>1, <2>2
  <1>13. CASE kind \in ColumnKinds
    <2>1. /\ index[i].at \in ItemNames(t)
          /\ \A y \in index[i].refs : PathPlace(t, 2, y) \/ \E j \in DOMAIN results : y \in results[j].refs
      BY <1>10, <1>13, ColumnAsked
    <2>. HIDE DEF index, results, t
    <2>2. QED
      BY <1>7, <1>8, <1>9, <1>11, <2>1
  <1>14. QED
    BY <1>12, <1>13

(* A token is a site of finitely many columns.                             *)
LEMMA ColumnsHere ==
  ASSUME NEW s, Indexed(s), NEW x
  PROVE  /\ IsFiniteSet(ColumnsAt(s, x))
         /\ \A kind \in ColumnKinds : \A i \in DOMAIN IndexOf(s, kind) :
              x \in Sites(IndexOf(s, kind)[i]) => << kind, i >> \in ColumnsAt(s, x)
  <1> DEFINE D(kind) == {j \in DOMAIN IndexOf(s, kind) : x \in Sites(IndexOf(s, kind)[j])}
             P(kind) == {<< kind, i >> : i \in D(kind)}
  <1>1. ColumnsAt(s, x) = UNION {P(kind) : kind \in ColumnKinds}
    BY DEF ColumnsAt
  <1>2. ASSUME NEW kind \in ColumnKinds PROVE IsFiniteSet(P(kind))
    <2>1. kind \in BindingKinds
      BY DEF BindingKinds
    <2> DEFINE N == DOMAIN IndexOf(s, kind)
    <2>2. N = 1..Len(IndexOf(s, kind)) /\ Len(IndexOf(s, kind)) \in Nat
      BY <2>1 DEF Indexed, IndexOK
    <2>3. IsFiniteSet(N)
      <3>. HIDE DEF N
      <3>1. QED
        BY <2>2, FS_Interval
    <2>4. D(kind) \in SUBSET N
      OBVIOUS
    <2>. HIDE DEF N, D
    <2>5. IsFiniteSet(D(kind))
      BY <2>3, <2>4, FS_Subset
    <2> DEFINE f == [i \in D(kind) |-> << kind, i >>]
    <2>6. f \in Surjection(D(kind), P(kind))
      BY DEF Surjection
    <2>. HIDE DEF P, f
    <2>7. QED
      BY <2>5, <2>6, FS_Surjection
  <1>3. UNION {P(kind) : kind \in ColumnKinds} = P("cteColumn") \cup P("derivedColumn")
    <2>. HIDE DEF P
    <2>1. QED
      BY DEF ColumnKinds
  <1>4. IsFiniteSet(ColumnsAt(s, x))
    <2>1. IsFiniteSet(P("cteColumn")) /\ IsFiniteSet(P("derivedColumn"))
      BY <1>2 DEF ColumnKinds
    <2>2. ColumnsAt(s, x) = P("cteColumn") \cup P("derivedColumn")
      BY <1>1, <1>3
    <2>. HIDE DEF P
    <2>3. IsFiniteSet(P("cteColumn") \cup P("derivedColumn"))
      BY <2>1, FS_Union
    <2>4. QED
      BY <2>2, <2>3
  <1>5. QED
    BY <1>1, <1>4

(* The binding that a rename starts from is the one that References has.   *)
LEMMA SameReferences ==
  ASSUME NEW s, Indexed(s), NEW x, KindAtPosition(s, RenameOrder, x) # NoKind
  PROVE  /\ KindAtPosition(s, ReferenceOrder, x) = KindAtPosition(s, RenameOrder, x)
         /\ KindAtPosition(s, RenameOrder, x) \in BindingKinds \ {"cte"}
         /\ HasSite(s, KindAtPosition(s, RenameOrder, x), x)
  <1> DEFINE has(kind) == HasSite(s, kind, x)
             kind == KindAtPosition(s, RenameOrder, x)
             found == KindAtPosition(s, ReferenceOrder, x)
  <1>1. kind = IF has("alias") THEN "alias"
               ELSE IF has("cteColumn") THEN "cteColumn"
               ELSE IF has("derivedColumn") THEN "derivedColumn"
               ELSE IF has("selectAlias") THEN "selectAlias" ELSE NoKind
    BY RenameKind
  <1>2. found = IF has("cte") THEN "cte"
                ELSE IF has("cteColumn") THEN "cteColumn"
                ELSE IF has("derivedColumn") THEN "derivedColumn"
                ELSE IF has("alias") THEN "alias"
                ELSE IF has("selectAlias") THEN "selectAlias" ELSE NoKind
    BY ReferenceKind
  <1>3. \A k \in {"alias", "cteColumn", "derivedColumn", "selectAlias"} : has(k) => ~has("cte")
    BY CTEsApart DEF BindingKinds, ColumnKinds
  <1>4. \A k \in {"cteColumn", "derivedColumn", "selectAlias"} : has(k) => ~has("alias")
    BY AliasesApart DEF ColumnKinds
  <1>5. \A k \in {"alias", "cteColumn", "derivedColumn", "selectAlias"} : k \in BindingKinds \ {"cte"}
    BY DEF BindingKinds, ColumnKinds
  <1>. HIDE DEF kind, found, has
  <1>6. kind \in {"alias", "cteColumn", "derivedColumn", "selectAlias"} /\ has(kind)
    BY <1>1 DEF kind
  <1>7. found = kind
    BY <1>1, <1>2, <1>3, <1>4, <1>6
  <1>8. QED
    BY <1>5, <1>6, <1>7 DEF kind, found, has

(* A rename can be started from each site, unless it is one of several     *)
(* columns.                                                                *)
LEMMA SameRename ==
  ASSUME NEW s, Indexed(s), NEW x, NEW kind, kind = KindAtPosition(s, RenameOrder, x), kind # NoKind,
         BindingAt(s, kind, x).explicit, NEW y \in Sites(BindingAt(s, kind, x)), ~Reexported(s, y)
  PROVE  /\ KindAtPosition(s, RenameOrder, y) = kind
         /\ BindingAt(s, kind, y) = BindingAt(s, kind, x)
  <1> DEFINE index == IndexOf(s, kind)
             i == SiteAtPosition(index, x)
             b == index[i]
  <1>1. kind \in BindingKinds \ {"cte"} /\ HasSite(s, kind, x)
    BY SameReferences
  <1>2. IndexOK(s.text, index) /\ IsText(s.text)
    BY <1>1 DEF Indexed
  <1>3. i \in DOMAIN index /\ x \in Sites(b) /\ BindingAt(s, kind, x) = b
    BY <1>1, <1>2, BindingIs DEF BindingAt
  <1>4. y \in Sites(b) /\ b.explicit
    BY <1>3
  <1>. HIDE DEF index, i, b
  <1>5. CASE kind = "alias"
    <2>1. HasSite(s, "alias", y) /\ BindingAt(s, "alias", y) = b
      BY <1>3, <1>4, <1>5, BindingHere DEF BindingKinds, ColumnKinds, index, b
    <2>2. KindAtPosition(s, RenameOrder, y) = "alias"
      BY <2>1, RenameKind
    <2>3. QED
      BY <1>3, <1>5, <2>1, <2>2
  <1>6. CASE kind \in ColumnKinds
    <2>1. << kind, i >> \in ColumnsAt(s, y)
      BY <1>3, <1>4, <1>6, ColumnsHere DEF index, b
    <2>2. ColumnsAt(s, y) = {<< kind, i >>}
      <3>1. IsFiniteSet(ColumnsAt(s, y)) /\ ~(Cardinality(ColumnsAt(s, y)) > 1)
        BY ColumnsHere DEF Reexported
      <3>2. QED
        BY <2>1, <3>1, SingleElement
    <2>3. ASSUME NEW k \in ColumnKinds, HasSite(s, k, y)
          PROVE  k = kind /\ SiteAtPosition(IndexOf(s, k), y) = i
      <3>1. IndexOK(s.text, IndexOf(s, k))
        BY DEF Indexed, BindingKinds
      <3>2. /\ SiteAtPosition(IndexOf(s, k), y) \in DOMAIN IndexOf(s, k)
            /\ y \in Sites(IndexOf(s, k)[SiteAtPosition(IndexOf(s, k), y)])
        BY <2>3, <3>1, BindingIs DEF BindingAt
      <3>3. << k, SiteAtPosition(IndexOf(s, k), y) >> \in ColumnsAt(s, y)
        BY <3>2, ColumnsHere
      <3>4. QED
        BY <2>2, <3>3
    <2>4. HasSite(s, kind, y)
      <3>1. HasSite(s, kind, y) <=> \E j \in DOMAIN index : y \in Sites(index[j])
        BY <1>2, BindingIs DEF index
      <3>2. QED
        BY <1>3, <1>4, <3>1 DEF b
    <2>5. ~HasSite(s, "alias", y)
      BY <1>6, <2>4, AliasesApart
    <2>6. KindAtPosition(s, RenameOrder, y) = kind
      <3>1. "cteColumn" \in ColumnKinds /\ "derivedColumn" \in ColumnKinds
            /\ kind \in {"cteColumn", "derivedColumn"}
        BY <1>6 DEF ColumnKinds
      <3>2. QED
        BY <2>3, <2>4, <2>5, <3>1, RenameKind
    <2>7. BindingAt(s, kind, y) = b
      BY <1>6, <2>3, <2>4 DEF BindingAt, b, index
    <2>8. QED
      BY <1>3, <2>6, <2>7
  <1>7. CASE kind = "selectAlias"
    <2> DEFINE results == s.selectAliases.bindings
               t == s.text
    <2>1. index = results
      BY <1>7 DEF index, IndexOf
    <2>2. HasSite(s, "selectAlias", y) /\ BindingAt(s, "selectAlias", y) = b
      BY <1>3, <1>4, <1>7, BindingHere DEF BindingKinds, ColumnKinds, index, b
    <2>3. ~HasSite(s, "alias", y)
      BY <2>2, AliasesApart
    <2>4. y # NoToken
      BY <2>2, SitesMarked DEF BindingKinds
    <2>5. i \in DOMAIN results /\ b = results[i]
      BY <1>3, <2>1 DEF b
    <2>6. /\ b.at \in Marked(t, {"as"})
          /\ \A z \in b.refs : z \in Marked(t, Asked) /\ PathPlace(t, 1, z)
      BY <1>4, <2>5 DEF Indexed, IndexesResults
    <2>7. ASSUME NEW k \in ColumnKinds, HasSite(s, k, y) PROVE HasSite(s, k, x)
      <3> DEFINE C == IndexOf(s, k)
      <3>1. IndexOK(s.text, C)
        BY DEF Indexed, BindingKinds
      <3>2. PICK j \in DOMAIN C : y \in Sites(C[j])
        BY <2>7, <3>1, BindingIs
      <3>3. /\ C[j].at \in ItemNames(t)
            /\ \A z \in C[j].refs : \/ PathPlace(t, 2, z)
                                    \/ \E l \in DOMAIN results : results[l].at = C[j].at /\ z \in results[l].refs
            /\ \A l \in DOMAIN results : results[l].at = C[j].at => results[l].refs \subseteq C[j].refs
        BY <3>2, ColumnAsked
      <3>4. HasSite(s, k, x) <=> \E l \in DOMAIN C : x \in Sites(C[l])
        BY <3>1, BindingIs
      <3> DEFINE c == C[j]
      <3>. HIDE DEF C, c, t, results
      <3>5. c.at = b.at
        <4>1. CASE y = c.at
          <5>1. y \in Marked(t, Results)
            <6>1. y \in ItemNames(t)
              BY <3>3, <4>1 DEF c
            <6>2. PICK r, l : ItemNamed(t, r, l, y)
              BY <6>1 DEF ItemNames
            <6>3. QED
              BY <1>2, <6>2, ItemNamesAre DEF t
          <5>2. Results \cap Asked = {}
            BY DEF Results, Asked
          <5>3. y \notin Marked(t, Asked)
            BY <1>2, <2>4, <5>1, <5>2, MarkedApart DEF t
          <5>4. QED
            BY <1>4, <2>6, <4>1, <5>3 DEF Sites
        <4>2. CASE PathPlace(t, 2, y)
          <5>1. CASE y = b.at
            <6>1. y \in Marked(t, Expressions)
              BY <4>2, MarkedHere DEF PathPlace
            <6>2. {"as"} \cap Expressions = {}
              BY DEF Expressions
            <6>3. QED
              BY <1>2, <2>4, <2>6, <5>1, <6>1, <6>2, MarkedApart DEF t
          <5>2. CASE y \in b.refs
            <6>1. PathPlace(t, 1, y)
              BY <2>6, <5>2
            <6>2. 1 = 2
              BY <1>2, <2>4, <4>2, <6>1, PathPlaceOnce DEF t
            <6>3. QED
              BY <6>2
          <5>3. QED
            BY <1>4, <5>1, <5>2 DEF Sites
        <4>3. CASE \E l \in DOMAIN results : results[l].at = c.at /\ y \in results[l].refs
          <5>1. PICK l \in DOMAIN results : results[l].at = c.at /\ y \in results[l].refs
            BY <4>3
          <5>2. l \in DOMAIN IndexOf(s, "selectAlias") /\ y \in Sites(IndexOf(s, "selectAlias")[l])
                /\ IndexOf(s, "selectAlias")[l] = results[l]
            BY <5>1 DEF results, IndexOf, Sites
          <5>3. BindingAt(s, "selectAlias", y) = results[l]
            BY <5>2, BindingHere DEF BindingKinds, ColumnKinds
          <5>4. QED
            BY <2>2, <5>1, <5>3
        <4>4. QED
          BY <3>2, <3>3, <4>1, <4>2, <4>3 DEF Sites, c
      <3>6. Sites(b) \subseteq Sites(c)
        BY <2>5, <3>3, <3>5 DEF Sites, c
      <3>7. QED
        BY <1>3, <3>2, <3>4, <3>6 DEF c
    <2>8. ~HasSite(s, "cteColumn", x) /\ ~HasSite(s, "derivedColumn", x)
      BY <1>7, RenameKind
    <2>9. ~HasSite(s, "cteColumn", y) /\ ~HasSite(s, "derivedColumn", y)
      BY <2>7, <2>8 DEF ColumnKinds
    <2>10. KindAtPosition(s, RenameOrder, y) = "selectAlias"
      BY <2>2, <2>3, <2>9, RenameKind
    <2>11. QED
      BY <1>3, <1>7, <2>2, <2>10
  <1>8. QED
    BY <1>1, <1>5, <1>6, <1>7 DEF BindingKinds

------------------------------------------------------------------------------
(***************************************************************************)
(* Names of tables and views                                               *)
(***************************************************************************)
(* What names a table or a view: a relation that is read, a FROM entry.    *)
NamedNodes(t) ==
  {r \in ToSet(Relations(t)) : r.kind \notin {"identity", "bad"}} \cup FromNames(t)

(* A path, where it is written.                                            *)
PathAt(t, tag, place, path) ==
  /\ path \in Seq(Tokens(t)) \ {<< >>}
  /\ Along(tag, place, path) \subseteq Written(Queries(t), Relations(t))
  /\ \/ tag = "relation" /\ path = Relations(t)[place].path
     \/ tag = "from" /\ path = Queries(t)[place[1]].from[place[2]].path

LEMMA NodePath ==
  ASSUME NEW t, IsText(t), NEW o \in NamedNodes(t)
  PROVE  \E tag : \E place : PathAt(t, tag, place, o.path)
  <1>1. CASE o \in ToSet(Relations(t)) /\ o.kind \notin {"identity", "bad"}
    <2>1. PICK i \in DOMAIN Relations(t) : o = Relations(t)[i]
      BY <1>1 DEF ToSet
    <2>2. o.path \in Seq(Tokens(t)) \ {<< >>}
      BY <2>1 DEF IsText, WellFormed, NodesOK, Relations, Tokens
    <2>3. Along("relation", i, o.path) \subseteq Written(Queries(t), Relations(t))
      BY <1>1, <2>1, RelationTokens
    <2>4. PathAt(t, "relation", i, o.path)
      BY <2>1, <2>2, <2>3 DEF PathAt
    <2>5. QED
      BY <2>4
  <1>2. CASE o \in FromNames(t)
    <2>1. PICK q \in DOMAIN Queries(t) : o \in ToSet(Queries(t)[q].from) /\ o.kind = "name"
      BY <1>2 DEF FromNames
    <2>2. PICK j \in DOMAIN Queries(t)[q].from : o = Queries(t)[q].from[j]
      BY <2>1 DEF ToSet
    <2>3. o.path \in Seq(Tokens(t)) \ {<< >>}
      BY <2>1, <2>2, QueryTypes
    <2>4. Along("from", << q, j >>, o.path) \subseteq Written(Queries(t), Relations(t))
      BY <2>1, <2>2, QueryTokens
    <2> DEFINE place == << q, j >>
    <2>5. place[1] = q /\ place[2] = j
      OBVIOUS
    <2>6. PathAt(t, "from", place, o.path)
      BY <2>2, <2>3, <2>4, <2>5 DEF PathAt
    <2>7. QED
      BY <2>6
  <1>3. QED
    BY <1>1, <1>2 DEF NamedNodes

(* Paths with a token in common are one.                                   *)
LEMMA PathOnce ==
  ASSUME NEW t, IsText(t), NEW a, NEW b,
         \E tag : \E place : PathAt(t, tag, place, a), \E tag : \E place : PathAt(t, tag, place, b),
         NEW j \in DOMAIN a, NEW k \in DOMAIN b, a[j] = b[k]
  PROVE  a = b /\ j = k
  <1> DEFINE W == Written(Queries(t), Relations(t))
             x == a[j]
  <1>1. PICK tag, place : PathAt(t, tag, place, a)
    OBVIOUS
  <1>2. PICK other, spot : PathAt(t, other, spot, b)
    OBVIOUS
  <1>3. << tag, << place, j >>, a[j] >> \in W /\ << other, << spot, k >>, b[k] >> \in W
    BY <1>1, <1>2, TokenAlong DEF PathAt
  <1> DEFINE u == << place, j >>
             v == << spot, k >>
  <1>4. << tag, u, x >> \in W /\ << other, v, x >> \in W
    BY <1>3
  <1>5. x # NoToken
    <2>1. a \in Seq(Tokens(t))
      BY <1>1 DEF PathAt
    <2>2. a[j] \in Tokens(t)
      BY <2>1
    <2>3. QED
      BY <2>2, TextTypes
  <1>6. tag = other /\ u = v
    <2>. HIDE DEF u, v, x
    <2>1. QED
      BY <1>4, <1>5, OnePlace
  <1>7. place = spot /\ j = k
    BY <1>6
  <1>8. a = b
    BY <1>1, <1>2, <1>6, <1>7 DEF PathAt
  <1>9. QED
    BY <1>7, <1>8

(* The keys of a path of one identifier.                                   *)
LEMMA SimpleKeys ==
  ASSUME NEW t, NEW path \in Seq(Tokens(t)) \ {<< >>}
  PROVE  /\ 1 \in DOMAIN path /\ path[1] \in Tokens(t)
         /\ IsSimplePath(path) => Keys(t, path) = << Key(t, path[1]) >> /\ path = << path[1] >>
         /\ \A key : Keys(t, path) = << key >> => IsSimplePath(path) /\ Key(t, path[1]) = key
  <1>1. Len(path) \in Nat /\ DOMAIN path = 1..Len(path) /\ Len(path) # 0
    OBVIOUS
  <1>2. 1 \in DOMAIN path /\ path[1] \in Tokens(t)
    BY <1>1
  <1>3. IsSimplePath(path) => Keys(t, path) = << Key(t, path[1]) >> /\ path = << path[1] >>
    <2>1. SUFFICES ASSUME Len(path) = 1
                   PROVE  Keys(t, path) = << Key(t, path[1]) >> /\ path = << path[1] >>
      BY DEF IsSimplePath
    <2>2. DOMAIN path = 1..1
      BY <1>1, <2>1
    <2>3. path = << path[1] >>
      BY <2>1
    <2>4. Keys(t, path) = [i \in 1..1 |-> Key(t, path[i])]
      BY <2>2 DEF Keys
    <2>5. [i \in 1..1 |-> Key(t, path[i])] = << Key(t, path[1]) >>
      OBVIOUS
    <2>6. QED
      BY <2>3, <2>4, <2>5
  <1>4. ASSUME NEW key, Keys(t, path) = << key >> PROVE IsSimplePath(path) /\ Key(t, path[1]) = key
    <2>1. DOMAIN Keys(t, path) = DOMAIN path /\ Keys(t, path)[1] = Key(t, path[1])
      BY <1>2 DEF Keys
    <2>2. DOMAIN << key >> = 1..1 /\ << key >>[1] = key
      OBVIOUS
    <2>3. 1..Len(path) = 1..1
      BY <1>1, <1>4, <2>1, <2>2
    <2>4. Len(path) = 1
      <3>1. ASSUME NEW n \in Nat, n # 0, 1..n = 1..1 PROVE n = 1
        <4>1. n \in 1..n
          BY <3>1
        <4>2. n \in 1..1
          BY <3>1, <4>1
        <4>3. QED
          BY <4>2
      <3>2. QED
        BY <1>1, <2>3, <3>1
    <2>5. QED
      BY <1>4, <2>1, <2>2, <2>4 DEF IsSimplePath
  <1>5. QED
    BY <1>2, <1>3, <1>4

(* Nodes that name something by one identifier, as a rename knows them.    *)
SimpleNodes(t) == {o \in NamedNodes(t) : IsSimplePath(o.path)}

LEMMA SimpleNode ==
  ASSUME NEW t, IsText(t), NEW o \in SimpleNodes(t)
  PROVE  LET x == o.path[1]
         IN /\ x \in Tokens(t) /\ x # NoToken /\ x \in Marked(t, {"cte", "from", "relation"})
            /\ o \notin FromNames(t) => x \in Marked(t, {"relation"})
            /\ \A n \in NamedNodes(t) : x \in ToSet(n.path) => n.path = o.path
            /\ \A keys \in RelationNameAtPosition(t, x) : keys = << Key(t, x) >>
            /\ Keys(t, o.path) = << Key(t, x) >> /\ o.path = << x >>
  <1> DEFINE x == o.path[1]
  <1>1. PICK tag, place : PathAt(t, tag, place, o.path)
    BY NodePath DEF SimpleNodes
  <1>2. o.path \in Seq(Tokens(t)) \ {<< >>} /\ IsSimplePath(o.path)
    BY <1>1 DEF PathAt, SimpleNodes
  <1>3. /\ 1 \in DOMAIN o.path /\ x \in Tokens(t)
        /\ Keys(t, o.path) = << Key(t, x) >> /\ o.path = << x >>
    BY <1>2, SimpleKeys
  <1>4. x # NoToken
    BY <1>3, TextTypes
  <1>5. x \in Marked(t, {"cte", "from", "relation"})
    <2>1. << tag, << place, 1 >>, x >> \in Written(Queries(t), Relations(t))
      BY <1>1, <1>3, TokenAlong DEF PathAt
    <2>2. tag \in {"cte", "from", "relation"}
      BY <1>1 DEF PathAt
    <2>3. QED
      BY <2>1, <2>2, MarkedHere
  <1>6. ASSUME o \notin FromNames(t) PROVE x \in Marked(t, {"relation"})
    <2>1. o \in ToSet(Relations(t)) /\ o.kind \notin {"identity", "bad"}
      BY <1>6 DEF SimpleNodes, NamedNodes
    <2>2. PICK i \in DOMAIN Relations(t) : o = Relations(t)[i]
      BY <2>1 DEF ToSet
    <2>3. Along("relation", i, o.path) \subseteq Written(Queries(t), Relations(t))
      BY <2>1, <2>2, RelationTokens
    <2>4. << "relation", << i, 1 >>, x >> \in Written(Queries(t), Relations(t))
      BY <1>3, <2>3, TokenAlong
    <2>5. QED
      BY <2>4, MarkedHere
  <1>7. ASSUME NEW n \in NamedNodes(t), x \in ToSet(n.path) PROVE n.path = o.path
    <2>1. \E a : \E b : PathAt(t, a, b, n.path)
      BY NodePath
    <2>2. PICK k \in DOMAIN n.path : n.path[k] = x
      BY <1>7 DEF ToSet
    <2> DEFINE a == n.path
               b == o.path
    <2>3. (\E g : \E h : PathAt(t, g, h, a)) /\ (\E g : \E h : PathAt(t, g, h, b))
      BY <1>1, <2>1
    <2>4. k \in DOMAIN a /\ 1 \in DOMAIN b /\ a[k] = b[1]
      BY <1>3, <2>2
    <2>. HIDE DEF a, b
    <2>5. a = b
      BY <2>3, <2>4, PathOnce
    <2>6. QED
      BY <2>5 DEF a, b
  <1>8. ASSUME NEW keys \in RelationNameAtPosition(t, x) PROVE keys = << Key(t, x) >>
    <2>1. PICK n \in OfKind(t, {"create_table", "create_view"}) \cup FromNames(t) :
            x \in ToSet(n.path) /\ keys = Keys(t, n.path)
      BY DEF RelationNameAtPosition
    <2>2. n \in NamedNodes(t)
      BY DEF NamedNodes, OfKind
    <2>3. QED
      BY <1>3, <1>7, <2>1, <2>2
  <1>9. QED
    BY <1>3, <1>4, <1>5, <1>6, <1>7, <1>8

(* The sites of plans are such nodes, and each such node with its kind is  *)
(* a site.                                                                 *)
LEMMA SitesAreNodes ==
  ASSUME NEW t
  PROVE  /\ \A x \in TableSites(t) \cup ViewSites(t) : \E o \in SimpleNodes(t) : x = o.path[1]
         /\ \A o \in SimpleNodes(t) :
              /\ o \in FromNames(t) => o.path[1] \in TableSites(t) /\ o.path[1] \in ViewSites(t)
              /\ o.kind = "create_table" /\ o \notin FromNames(t) => o.path[1] \in TableSites(t)
              /\ o.kind = "create_view" /\ o \notin FromNames(t) => o.path[1] \in ViewSites(t)
  BY DEF TableSites, ViewSites, SimpleNodes, NamedNodes, OfKind

(* A table name is bound if it is a reference of a CTE.                    *)
LEMMA BoundIs ==
  ASSUME NEW ctes, Len(ctes) \in Nat, DOMAIN ctes = 1..Len(ctes), NEW x
  PROVE  BindsReference(ctes, x) <=> \E i \in DOMAIN ctes : x \in ctes[i].refs
  <1> DEFINE I == {i \in 1..Len(ctes) : x \in ctes[i].refs}
  <1>1. BindingForReference(ctes, x) = IF I # {} THEN Min(I) ELSE 0
    BY DEF BindingForReference, SelectInSeq
  <1>2. I \subseteq Nat /\ 0 \notin I
    OBVIOUS
  <1>3. I # {} => Min(I) \in I
    <2>. HIDE DEF I
    <2>1. QED
      BY <1>2, HasMin
  <1>4. BindsReference(ctes, x) <=> I # {}
    <2>. HIDE DEF I
    <2>1. QED
      BY <1>1, <1>2, <1>3 DEF BindsReference
  <1>5. QED
    BY <1>4

(* The declaration of a table or a view is bound to no CTE.                *)
LEMMA DeclarationUnbound ==
  ASSUME NEW s, Indexed(s), NEW x \in Tokens(s.text), x \in Marked(s.text, {"relation"})
  PROVE  ~BindsReference(s.ctes, x)
  <1>1. SUFFICES ASSUME BindsReference(s.ctes, x) PROVE FALSE
    OBVIOUS
  <1>2. PICK order : IndexesCTEs(s.text, s.ctes, order)
    BY DEF Indexed
  <1>3. Len(s.ctes) \in Nat /\ DOMAIN s.ctes = 1..Len(s.ctes) /\ IsText(s.text)
    BY <1>2 DEF IndexesCTEs, Indexed
  <1>4. PICK i \in DOMAIN s.ctes : x \in s.ctes[i].refs
    BY <1>1, <1>3, BoundIs
  <1>5. x \in Marked(s.text, {"from"})
    BY <1>2, <1>3, <1>4, CTEMarked
  <1>6. x # NoToken /\ {"relation"} \cap {"from"} = {}
    BY <1>3, TextTypes
  <1>7. QED
    BY <1>3, <1>5, <1>6, MarkedApart

(* What a plan that is offered says of the documents.                      *)
LEMMA ViewPlanIs ==
  ASSUME NEW key
  PROVE  LET plan == ViewRefactorPlan(documents, key)
             text(q) == documents[q].text
         IN /\ \A n : n \in plan.sites <=>
                 \E q \in Paths : \E y \in ViewSites(text(q)) :
                   /\ n = << q, y >> /\ Key(text(q), y) = key
                   /\ ~BindsReference(documents[q].ctes, y)
            /\ plan.ok => \A q \in Paths : ~ViewUnsafe(text(q), key)
            /\ plan.ok => \E q \in Paths : \E r \in OfKind(text(q), {"create_view"}) :
                            Keys(text(q), r.path) = << key >>
  <1> DEFINE plan == ViewRefactorPlan(documents, key)
             text(q) == documents[q].text
             sites == [q \in Paths |-> {y \in ViewSites(text(q)) :
                         Key(text(q), y) = key /\ ~BindsReference(documents[q].ctes, y)}]
             unsafe == {q \in Paths : ViewUnsafe(text(q), key)}
             names == UNION {{<< q, x >> : x \in sites[q]} : q \in Paths}
             declared == {n \in names : \E r \in OfKind(text(n[1]), {"create_view"}) : r.path = << n[2] >>}
  <1>1. plan = RefactorPlan(documents, "create_view", sites, unsafe)
    BY DEF ViewRefactorPlan
  <1>2. plan.sites = names /\ (plan.ok => unsafe = {} /\ Cardinality(declared) = 1)
    <2>. HIDE DEF sites, unsafe
    <2>1. QED
      BY <1>1 DEF RefactorPlan
  <1>3. \A n : n \in names <=> \E q \in Paths : \E y \in ViewSites(text(q)) :
                                 /\ n = << q, y >> /\ Key(text(q), y) = key
                                 /\ ~BindsReference(documents[q].ctes, y)
    OBVIOUS
  <1>4. declared # {} => \E q \in Paths : \E r \in OfKind(text(q), {"create_view"}) :
                            Keys(text(q), r.path) = << key >>
    <2>1. ASSUME NEW n \in declared
          PROVE  \E q \in Paths : \E r \in OfKind(text(q), {"create_view"}) :
                   Keys(text(q), r.path) = << key >>
      <3>1. n \in names /\ \E r \in OfKind(text(n[1]), {"create_view"}) : r.path = << n[2] >>
        OBVIOUS
      <3>2. PICK q \in Paths : \E y \in ViewSites(text(q)) : n = << q, y >> /\ Key(text(q), y) = key
        BY <1>3, <3>1
      <3>3. PICK y : n = << q, y >> /\ Key(text(q), y) = key
        BY <3>2
      <3>4. n[1] = q /\ n[2] = y
        BY <3>3
      <3>5. PICK r \in OfKind(text(q), {"create_view"}) : r.path = << y >>
        BY <3>1, <3>4
      <3>6. Keys(text(q), << y >>) = << Key(text(q), y) >>
        BY DEF Keys
      <3>7. QED
        BY <3>3, <3>5, <3>6
    <2>. HIDE DEF declared
    <2>2. QED
      BY <2>1
  <1>5. Cardinality(declared) = 1 => declared # {}
    <2>. HIDE DEF declared
    <2>1. QED
      BY FS_EmptySet
  <1>. HIDE DEF plan, names, declared
  <1>6. QED
    BY <1>2, <1>3, <1>4, <1>5 DEF plan

LEMMA TablePlanIs ==
  ASSUME NEW key
  PROVE  LET plan == TableRefactorPlan(documents, key)
             text(q) == documents[q].text
         IN /\ \A n : n \in plan.sites <=>
                 \E q \in Paths : \E y \in TableSites(text(q)) :
                   n = << q, y >> /\ Key(text(q), y) = key
            /\ plan.ok => \A q \in Paths : ~TableUnsafe(text(q), key)
  <1> DEFINE plan == TableRefactorPlan(documents, key)
             text(q) == documents[q].text
             sites == [q \in Paths |-> {y \in TableSites(text(q)) : Key(text(q), y) = key}]
             unsafe == {q \in Paths : TableUnsafe(text(q), key)}
             names == UNION {{<< q, x >> : x \in sites[q]} : q \in Paths}
  <1>1. plan = RefactorPlan(documents, "create_table", sites, unsafe)
    BY DEF TableRefactorPlan
  <1>2. plan.sites = names /\ (plan.ok => unsafe = {})
    <2>. HIDE DEF sites, unsafe
    <2>1. QED
      BY <1>1 DEF RefactorPlan
  <1>3. \A n : n \in names <=> \E q \in Paths : \E y \in TableSites(text(q)) :
                                 n = << q, y >> /\ Key(text(q), y) = key
    OBVIOUS
  <1>. HIDE DEF plan, names
  <1>4. QED
    BY <1>2, <1>3 DEF plan

(* The plan at a token: that of the view, if there is one, before that of  *)
(* the table.                                                              *)
PlansView(p, x) ==
  LET t == documents[p].text
  IN x \in ViewSites(t) \ Quoted(t) /\ ViewRefactorPlan(documents, Key(t, x)).ok

LEMMA RelationPlanIs ==
  ASSUME NEW p, NEW x
  PROVE  LET t == documents[p].text
             plan == RelationPlan(documents, p, x)
         IN /\ PlansView(p, x) => plan = ViewRefactorPlan(documents, Key(t, x))
            /\ ~PlansView(p, x) /\ x \in TableSites(t) \ Quoted(t) =>
                 plan = TableRefactorPlan(documents, Key(t, x))
            /\ ~PlansView(p, x) /\ x \notin TableSites(t) \ Quoted(t) => ~plan.ok
  <1> DEFINE t == documents[p].text
             view == ViewRefactorPlan(documents, Key(t, x))
             table == TableRefactorPlan(documents, Key(t, x))
             none == [sites |-> {}, ok |-> FALSE]
             V == IF x \in ViewSites(t) \ Quoted(t) THEN view ELSE none
             T == IF x \in TableSites(t) \ Quoted(t) THEN table ELSE none
  <1>1. RelationPlan(documents, p, x) = IF V.ok THEN V ELSE T
    BY DEF RelationPlan
  <1>2. none.ok = FALSE
    OBVIOUS
  <1>3. PlansView(p, x) <=> x \in ViewSites(t) \ Quoted(t) /\ view.ok
    BY DEF PlansView
  <1>. HIDE DEF view, table, none
  <1>4. /\ PlansView(p, x) => V = view /\ V.ok
        /\ ~PlansView(p, x) => ~V.ok
    BY <1>2, <1>3
  <1>5. /\ x \in TableSites(t) \ Quoted(t) => T = table
        /\ x \notin TableSites(t) \ Quoted(t) => ~T.ok
    BY <1>2
  <1>. HIDE DEF V, T
  <1>6. QED
    BY <1>1, <1>4, <1>5 DEF view, table

(* Where a simple name is declared and referred to.                        *)
LEMMA NamesLocated ==
  ASSUME SnapshotsAreParsed, NEW key
  PROVE  LET text(q) == documents[q].text
         IN /\ \A n \in RelationReferenceLocations(documents, << key >>) :
                 \E q \in Paths : \E f \in SimpleNodes(text(q)) :
                   /\ n = << q, f.path[1] >> /\ f \in FromNames(text(q)) /\ Key(text(q), f.path[1]) = key
                   /\ ~BindsReference(documents[q].ctes, f.path[1])
            /\ \A n \in RelationDefinitionLocations(documents, << key >>) :
                 \E q \in Paths : \E r \in SimpleNodes(text(q)) :
                   /\ n = << q, r.path[1] >> /\ Key(text(q), r.path[1]) = key
                   /\ Keys(text(q), r.path) = << key >>
                   /\ r \in OfKind(text(q), {"create_table"}) \/ r \in OfKind(text(q), {"create_view"})
  <1> DEFINE text(q) == documents[q].text
  <1>1. ASSUME NEW q \in Paths PROVE IsText(text(q))
    BY DEF SnapshotsAreParsed
  <1>2. ASSUME NEW q \in Paths, NEW o \in NamedNodes(text(q)), Keys(text(q), o.path) = << key >>
        PROVE  o \in SimpleNodes(text(q)) /\ Key(text(q), o.path[1]) = key
    <2>1. o.path \in Seq(Tokens(text(q))) \ {<< >>}
      BY <1>1, NodePath DEF PathAt
    <2> DEFINE path == o.path
               t == text(q)
    <2>2. path \in Seq(Tokens(t)) \ {<< >>} /\ Keys(t, path) = << key >>
      BY <1>2, <2>1
    <2>. HIDE DEF path, t
    <2>3. IsSimplePath(path) /\ Key(t, path[1]) = key
      BY <2>2, SimpleKeys
    <2>4. QED
      BY <2>3 DEF SimpleNodes, path, t
  <1>3. ASSUME NEW n \in RelationReferenceLocations(documents, << key >>)
        PROVE  \E q \in Paths : \E f \in SimpleNodes(text(q)) :
                 /\ n = << q, f.path[1] >> /\ f \in FromNames(text(q)) /\ Key(text(q), f.path[1]) = key
                 /\ ~BindsReference(documents[q].ctes, f.path[1])
    <2>1. PICK q \in Paths : \E f \in FromNames(text(q)) :
            /\ n = << q, f.path[1] >> /\ Keys(text(q), f.path) = << key >>
            /\ ~(IsSimplePath(f.path) /\ BindsReference(documents[q].ctes, f.path[1]))
      BY DEF RelationReferenceLocations
    <2>2. PICK f \in FromNames(text(q)) :
            /\ n = << q, f.path[1] >> /\ Keys(text(q), f.path) = << key >>
            /\ ~(IsSimplePath(f.path) /\ BindsReference(documents[q].ctes, f.path[1]))
      BY <2>1
    <2>3. f \in NamedNodes(text(q))
      BY DEF NamedNodes
    <2>4. f \in SimpleNodes(text(q)) /\ Key(text(q), f.path[1]) = key
      BY <1>2, <2>2, <2>3
    <2>5. IsSimplePath(f.path)
      BY <2>4 DEF SimpleNodes
    <2>6. QED
      BY <2>2, <2>4, <2>5
  <1>4. ASSUME NEW n \in RelationDefinitionLocations(documents, << key >>)
        PROVE  \E q \in Paths : \E r \in SimpleNodes(text(q)) :
                 /\ n = << q, r.path[1] >> /\ Key(text(q), r.path[1]) = key
                 /\ Keys(text(q), r.path) = << key >>
                 /\ r \in OfKind(text(q), {"create_table"}) \/ r \in OfKind(text(q), {"create_view"})
    <2>1. PICK m \in FactMatches(documents, "create_table", << key >>)
                       \cup FactMatches(documents, "create_view", << key >>) :
            n = << m.path, m.relation.path[1] >>
      BY DEF RelationDefinitionLocations
    <2>2. PICK kind \in {"create_table", "create_view"} : m \in FactMatches(documents, kind, << key >>)
      BY <2>1
    <2>3. PICK q \in Paths : \E r \in OfKind(text(q), {kind}) :
            m = [path |-> q, relation |-> r] /\ Keys(text(q), r.path) = << key >>
      BY <2>2 DEF FactMatches
    <2>4. PICK r \in OfKind(text(q), {kind}) :
            m = [path |-> q, relation |-> r] /\ Keys(text(q), r.path) = << key >>
      BY <2>3
    <2>5. r \in NamedNodes(text(q))
      BY DEF NamedNodes, OfKind
    <2>6. r \in SimpleNodes(text(q)) /\ Key(text(q), r.path[1]) = key
      BY <1>2, <2>4, <2>5
    <2>7. n = << q, r.path[1] >>
      BY <2>1, <2>4
    <2>8. QED
      BY <2>2, <2>4, <2>6, <2>7
  <1>5. QED
    BY <1>3, <1>4

(* What References and RenameTarget answer, by the kind at the token.      *)
LEMMA ReferencesAre ==
  ASSUME NEW p, NEW x
  PROVE  LET s == documents[p]
             kind == KindAtPosition(s, ReferenceOrder, x)
             found == References(documents, p, x, TRUE)
         IN /\ AmbiguousAtPosition(s, x) => found = {}
            /\ ~AmbiguousAtPosition(s, x) /\ kind # NoKind =>
                 found = IF Ambiguous(kind, BindingAt(s, kind, x)) THEN {}
                         ELSE At(p, Sites(BindingAt(s, kind, x)))
            /\ ~AmbiguousAtPosition(s, x) /\ kind = NoKind =>
                 \A n : n \in found <=>
                   \E keys \in RelationNameAtPosition(s.text, x) :
                     /\ RelationDefinitionLocations(documents, keys) # {}
                     /\ \/ n \in RelationReferenceLocations(documents, keys)
                        \/ n \in RelationDefinitionLocations(documents, keys)
  <1> DEFINE s == documents[p]
             kind == KindAtPosition(s, ReferenceOrder, x)
             b == BindingAt(s, kind, x)
             found == References(documents, p, x, TRUE)
             names == {keys \in RelationNameAtPosition(s.text, x) :
                         RelationDefinitionLocations(documents, keys) # {}}
             all == UNION {RelationReferenceLocations(documents, keys)
                             \cup RelationDefinitionLocations(documents, keys) : keys \in names}
  <1>1. found = CASE AmbiguousAtPosition(s, x) -> {}
                  [] ~AmbiguousAtPosition(s, x) /\ kind # NoKind ->
                       IF Ambiguous(kind, b) THEN {} ELSE At(p, Sites(b))
                  [] OTHER -> all
    BY DEF References
  <1>2. \A n : n \in all <=> \E keys \in names : \/ n \in RelationReferenceLocations(documents, keys)
                                                 \/ n \in RelationDefinitionLocations(documents, keys)
    OBVIOUS
  <1>3. \A keys : keys \in names <=> /\ keys \in RelationNameAtPosition(s.text, x)
                                     /\ RelationDefinitionLocations(documents, keys) # {}
    OBVIOUS
  <1>. HIDE DEF s, kind, b, found, names
  <1>4. \A n : n \in all <=> \E keys \in RelationNameAtPosition(s.text, x) :
                 /\ RelationDefinitionLocations(documents, keys) # {}
                 /\ \/ n \in RelationReferenceLocations(documents, keys)
                    \/ n \in RelationDefinitionLocations(documents, keys)
    BY <1>2, <1>3
  <1>. HIDE DEF all
  <1>5. /\ AmbiguousAtPosition(s, x) => found = {}
        /\ ~AmbiguousAtPosition(s, x) /\ kind # NoKind =>
             found = IF Ambiguous(kind, b) THEN {} ELSE At(p, Sites(b))
    BY <1>1
  <1>6. ASSUME ~AmbiguousAtPosition(s, x), kind = NoKind
        PROVE  \A n : n \in found <=> \E keys \in RelationNameAtPosition(s.text, x) :
                 /\ RelationDefinitionLocations(documents, keys) # {}
                 /\ \/ n \in RelationReferenceLocations(documents, keys)
                    \/ n \in RelationDefinitionLocations(documents, keys)
    <2>1. found = all
      BY <1>1, <1>6
    <2>2. QED
      BY <1>4, <2>1, Zenon
  <1>7. QED
    BY <1>5, <1>6, Zenon DEF s, kind, b, found

LEMMA RenameTargetIs ==
  ASSUME NEW p, NEW x
  PROVE  LET s == documents[p]
             kind == KindAtPosition(s, RenameOrder, x)
             b == BindingAt(s, kind, x)
             plan == RelationPlan(documents, p, x)
             target == RenameTarget(documents, p, x)
             none == [kind |-> NoKind, sites |-> {}]
         IN /\ AmbiguousAtPosition(s, x) => target = none
            /\ ~AmbiguousAtPosition(s, x) /\ kind # NoKind =>
                 target = IF ~b.ambiguous /\ b.explicit
                          THEN [kind |-> kind, sites |-> At(p, Sites(b))] ELSE none
            /\ ~AmbiguousAtPosition(s, x) /\ kind = NoKind =>
                 target = IF plan.ok THEN [kind |-> "relation", sites |-> plan.sites] ELSE none
  <1> DEFINE s == documents[p]
             kind == KindAtPosition(s, RenameOrder, x)
             b == BindingAt(s, kind, x)
             plan == RelationPlan(documents, p, x)
             target == RenameTarget(documents, p, x)
             none == [kind |-> NoKind, sites |-> {}]
             bound == IF ~b.ambiguous /\ b.explicit
                      THEN [kind |-> kind, sites |-> At(p, Sites(b))] ELSE none
             planned == IF plan.ok THEN [kind |-> "relation", sites |-> plan.sites] ELSE none
  <1>1. target = CASE AmbiguousAtPosition(s, x) -> none
                   [] ~AmbiguousAtPosition(s, x) /\ kind # NoKind -> bound
                   [] OTHER -> planned
    BY DEF RenameTarget
  <1>. HIDE DEF s, kind, b, plan, target, none, bound, planned
  <1>2. /\ AmbiguousAtPosition(s, x) => target = none
        /\ ~AmbiguousAtPosition(s, x) /\ kind # NoKind => target = bound
        /\ ~AmbiguousAtPosition(s, x) /\ kind = NoKind => target = planned
    BY <1>1
  <1>3. QED
    BY <1>2 DEF s, kind, b, plan, target, none, bound, planned

(* No index binds the name of a table or a view in another way than as a   *)
(* CTE.                                                                    *)
LEMMA NodeKinds ==
  ASSUME SnapshotsAreParsed, NEW p \in Paths, NEW o \in SimpleNodes(documents[p].text)
  PROVE  LET s == documents[p]
             x == o.path[1]
         IN /\ x \in Tokens(s.text) /\ ~AmbiguousAtPosition(s, x)
            /\ KindAtPosition(s, RenameOrder, x) = NoKind
            /\ ~BindsReference(s.ctes, x) => /\ KindAtPosition(s, ReferenceOrder, x) = NoKind
                                             /\ KindAtPosition(s, DefinitionOrder, x) = NoKind
            /\ o \notin FromNames(s.text) => ~BindsReference(s.ctes, x)
  <1> DEFINE s == documents[p]
             x == o.path[1]
  <1>1. Indexed(s) /\ IsText(s.text)
    BY DocumentIndexed DEF Indexed
  <1>2. /\ x \in Tokens(s.text) /\ x # NoToken /\ x \in Marked(s.text, {"cte", "from", "relation"})
        /\ o \notin FromNames(s.text) => x \in Marked(s.text, {"relation"})
    BY <1>1, SimpleNode
  <1>. HIDE DEF s, x
  <1>3. (\A kind \in BindingKinds : HasSite(s, kind, x) => kind = "cte") /\ ~AmbiguousAtPosition(s, x)
    BY <1>1, <1>2, NamesApart
  <1>4. /\ ~HasSite(s, "alias", x) /\ ~HasSite(s, "cteColumn", x) /\ ~HasSite(s, "derivedColumn", x)
        /\ ~HasSite(s, "selectAlias", x)
    BY <1>3 DEF BindingKinds, ColumnKinds
  <1>5. KindAtPosition(s, RenameOrder, x) = NoKind
    BY <1>4, RenameKind
  <1>6. ASSUME ~BindsReference(s.ctes, x) PROVE ~HasSite(s, "cte", x)
    <2>1. SUFFICES ASSUME HasSite(s, "cte", x) PROVE FALSE
      OBVIOUS
    <2>2. PICK order : IndexesCTEs(s.text, s.ctes, order)
      BY <1>1 DEF Indexed
    <2>3. IndexOK(s.text, IndexOf(s, "cte")) /\ IndexOf(s, "cte") = s.ctes
      BY <1>1 DEF Indexed, BindingKinds, IndexOf
    <2>4. PICK i \in DOMAIN s.ctes : x \in Sites(s.ctes[i])
      BY <2>1, <2>3, BindingIs
    <2>5. Len(s.ctes) \in Nat /\ DOMAIN s.ctes = 1..Len(s.ctes)
      BY <2>2 DEF IndexesCTEs
    <2>6. x \notin s.ctes[i].refs
      BY <1>6, <2>5, BoundIs
    <2>7. x = s.ctes[i].at
      BY <2>4, <2>6 DEF Sites
    <2>8. x \in Marked(s.text, {"cte"}) /\ x \in Marked(s.text, {"from", "relation"})
      <3>1. x \in Marked(s.text, {"cte"})
        BY <1>1, <2>2, <2>7, CTEMarked
      <3>2. PICK tag, place : PathAt(s.text, tag, place, o.path)
        BY <1>1, NodePath DEF SimpleNodes, s
      <3>3. 1 \in DOMAIN o.path
        <4>1. o.path = << x >>
          BY <1>1, SimpleNode DEF s, x
        <4>2. QED
          BY <4>1
      <3>4. << tag, << place, 1 >>, x >> \in Written(Queries(s.text), Relations(s.text))
        BY <3>2, <3>3, TokenAlong DEF PathAt, x
      <3>5. tag \in {"from", "relation"}
        BY <3>2 DEF PathAt
      <3>6. QED
        BY <3>1, <3>4, <3>5, MarkedHere
    <2>9. {"cte"} \cap {"from", "relation"} = {}
      OBVIOUS
    <2>10. QED
      BY <1>1, <1>2, <2>8, <2>9, MarkedApart
  <1>7. ASSUME ~BindsReference(s.ctes, x)
        PROVE  /\ KindAtPosition(s, ReferenceOrder, x) = NoKind
               /\ KindAtPosition(s, DefinitionOrder, x) = NoKind
    BY <1>4, <1>6, <1>7, ReferenceKind, DefinitionKind
  <1>8. o \notin FromNames(s.text) => ~BindsReference(s.ctes, x)
    BY <1>1, <1>2, DeclarationUnbound
  <1>9. QED
    BY <1>2, <1>3, <1>5, <1>7, <1>8 DEF s, x

------------------------------------------------------------------------------
(***************************************************************************)
(* Renames agree with references                                           *)
(***************************************************************************)
(* A rename of a table or a view has the same plan at each of its sites,   *)
(* which are those of References and maybe more.                           *)
LEMMA PlanAgrees ==
  ASSUME SnapshotsAreParsed, NEW p \in Paths, NEW x \in Tokens(documents[p].text),
         RelationPlan(documents, p, x).ok, ~BindsReference(documents[p].ctes, x)
  PROVE  LET plan == RelationPlan(documents, p, x)
         IN /\ << p, x >> \in plan.sites
            /\ References(documents, p, x, TRUE) \subseteq plan.sites
            /\ \A n \in plan.sites : \E q \in Paths : \E y :
                 /\ n = << q, y >> /\ ~AmbiguousAtPosition(documents[q], y)
                 /\ KindAtPosition(documents[q], RenameOrder, y) = NoKind
                 /\ RelationPlan(documents, q, y) = plan
  <1> DEFINE text(q) == documents[q].text
             ctes(q) == documents[q].ctes
             t == documents[p].text
             key == Key(documents[p].text, x)
             plan == RelationPlan(documents, p, x)
             view == ViewRefactorPlan(documents, key)
             table == TableRefactorPlan(documents, key)
             found == References(documents, p, x, TRUE)
  <1>1. ASSUME NEW q \in Paths PROVE Indexed(documents[q]) /\ IsText(text(q))
    BY DocumentIndexed DEF Indexed
  <1>2. \/ PlansView(p, x) /\ plan = view
        \/ ~PlansView(p, x) /\ x \in TableSites(t) \ Quoted(t) /\ plan = table
    BY RelationPlanIs
  <1>3. PlansView(p, x) => x \in ViewSites(t) \ Quoted(t) /\ view.ok
    BY DEF PlansView
  <1>4. PICK o \in SimpleNodes(t) : x = o.path[1]
    BY <1>2, <1>3, SitesAreNodes
  <1>5. /\ ~AmbiguousAtPosition(documents[p], x)
        /\ KindAtPosition(documents[p], ReferenceOrder, x) = NoKind
    BY <1>4, NodeKinds
  <1>6. \A keys \in RelationNameAtPosition(t, x) : keys = << key >>
    BY <1>1, <1>4, SimpleNode
  <1>7. ASSUME NEW n \in found
        PROVE  \/ n \in RelationReferenceLocations(documents, << key >>)
               \/ n \in RelationDefinitionLocations(documents, << key >>)
    <2>1. \E keys \in RelationNameAtPosition(t, x) :
            \/ n \in RelationReferenceLocations(documents, keys)
            \/ n \in RelationDefinitionLocations(documents, keys)
      BY <1>5, <1>7, ReferencesAre
    <2>2. QED
      BY <1>6, <2>1
  <1>8. /\ \A n : n \in view.sites <=>
             \E q \in Paths : \E y \in ViewSites(text(q)) :
               n = << q, y >> /\ Key(text(q), y) = key /\ ~BindsReference(ctes(q), y)
        /\ view.ok => \A q \in Paths : ~ViewUnsafe(text(q), key)
        /\ view.ok => \E q \in Paths : \E r \in OfKind(text(q), {"create_view"}) :
                        Keys(text(q), r.path) = << key >>
    BY ViewPlanIs
  <1>9. /\ \A n : n \in table.sites <=>
             \E q \in Paths : \E y \in TableSites(text(q)) :
               n = << q, y >> /\ Key(text(q), y) = key
        /\ table.ok => \A q \in Paths : ~TableUnsafe(text(q), key)
    BY TablePlanIs
  <1>10. ASSUME NEW q \in Paths, NEW y \in TableSites(text(q)) \cup ViewSites(text(q))
         PROVE  /\ ~AmbiguousAtPosition(documents[q], y)
                /\ KindAtPosition(documents[q], RenameOrder, y) = NoKind
    <2>1. PICK n \in SimpleNodes(text(q)) : y = n.path[1]
      BY SitesAreNodes
    <2>2. QED
      BY <2>1, NodeKinds
  <1>11. /\ \A n \in RelationReferenceLocations(documents, << key >>) :
              \E q \in Paths : \E f \in SimpleNodes(text(q)) :
                /\ n = << q, f.path[1] >> /\ f \in FromNames(text(q)) /\ Key(text(q), f.path[1]) = key
                /\ ~BindsReference(ctes(q), f.path[1])
         /\ \A n \in RelationDefinitionLocations(documents, << key >>) :
              \E q \in Paths : \E r \in SimpleNodes(text(q)) :
                /\ n = << q, r.path[1] >> /\ Key(text(q), r.path[1]) = key
                /\ Keys(text(q), r.path) = << key >>
                /\ r \in OfKind(text(q), {"create_table"}) \/ r \in OfKind(text(q), {"create_view"})
    BY NamesLocated
  <1>12. ASSUME NEW q, NEW y \in ViewSites(text(q)) \cap Quoted(text(q)), Key(text(q), y) = key
         PROVE  ViewUnsafe(text(q), key)
    BY <1>12 DEF ViewUnsafe
  <1>13. ASSUME NEW q, NEW y \in TableSites(text(q)) \cap Quoted(text(q)), Key(text(q), y) = key
         PROVE  TableUnsafe(text(q), key)
    BY <1>13 DEF TableUnsafe
  <1>14. ASSUME NEW q, NEW r, Keys(text(q), r.path) = << key >>
         PROVE  /\ r \in OfKind(text(q), {"create_table"}) => ViewUnsafe(text(q), key)
                /\ r \in OfKind(text(q), {"create_view"}) => TableUnsafe(text(q), key)
    BY <1>14 DEF ViewUnsafe, TableUnsafe
  <1>15. ASSUME NEW q \in Paths, NEW y
         PROVE  LET other == RelationPlan(documents, q, y)
                    k == Key(text(q), y)
                IN /\ PlansView(q, y) => other = ViewRefactorPlan(documents, k)
                   /\ ~PlansView(q, y) /\ y \in TableSites(text(q)) \ Quoted(text(q)) =>
                        other = TableRefactorPlan(documents, k)
                   /\ PlansView(q, y) <=> /\ y \in ViewSites(text(q)) \ Quoted(text(q))
                                          /\ ViewRefactorPlan(documents, k).ok
    BY RelationPlanIs DEF PlansView
  <1>16. x \in ViewSites(t) => << p, x >> \in view.sites
    <2>1. Key(text(p), x) = key /\ ~BindsReference(ctes(p), x) /\ text(p) = t
      OBVIOUS
    <2>. HIDE DEF t, key, view, text, ctes
    <2>2. QED
      BY <1>8, <2>1
  <1>17. x \in TableSites(t) => << p, x >> \in table.sites
    <2>1. Key(text(p), x) = key /\ text(p) = t
      OBVIOUS
    <2>. HIDE DEF t, key, table, text, ctes
    <2>2. QED
      BY <1>9, <2>1
  <1>18. ASSUME NEW q \in Paths, NEW r \in SimpleNodes(text(q)),
                r \in OfKind(text(q), {"create_table"}) \/ r \in OfKind(text(q), {"create_view"})
         PROVE  /\ ~BindsReference(ctes(q), r.path[1])
                /\ r \in OfKind(text(q), {"create_table"}) => r.path[1] \in TableSites(text(q))
                /\ r \in OfKind(text(q), {"create_view"}) => r.path[1] \in ViewSites(text(q))
    <2>1. r \in ToSet(Relations(text(q))) /\ r.kind \notin {"identity", "bad"} /\ IsSimplePath(r.path)
      BY <1>18 DEF OfKind, SimpleNodes
    <2>2. /\ r \in OfKind(text(q), {"create_table"}) => r.path[1] \in TableSites(text(q))
          /\ r \in OfKind(text(q), {"create_view"}) => r.path[1] \in ViewSites(text(q))
      BY <2>1 DEF OfKind, TableSites, ViewSites
    <2>3. PICK i \in DOMAIN Relations(text(q)) : r = Relations(text(q))[i]
      BY <2>1 DEF ToSet
    <2>4. Along("relation", i, r.path) \subseteq Written(Queries(text(q)), Relations(text(q)))
      BY <2>1, <2>3, RelationTokens
    <2>5. r.path = << r.path[1] >> /\ r.path[1] \in Tokens(text(q))
      BY <1>1, SimpleNode
    <2>6. 1 \in DOMAIN r.path
      <3> DEFINE path == r.path
                 y == r.path[1]
      <3>1. path = << y >>
        BY <2>5
      <3>. HIDE DEF path, y
      <3>2. 1 \in DOMAIN path
        BY <3>1
      <3>3. QED
        BY <3>2 DEF path
    <2>7. << "relation", << i, 1 >>, r.path[1] >> \in Written(Queries(text(q)), Relations(text(q)))
      BY <2>4, <2>6, TokenAlong
    <2>8. r.path[1] \in Marked(text(q), {"relation"})
      BY <2>7, MarkedHere
    <2>9. ~BindsReference(ctes(q), r.path[1])
      BY <1>1, <2>5, <2>8, DeclarationUnbound
    <2>10. QED
      BY <2>2, <2>9
  <1>19. ASSUME NEW q \in Paths, NEW f \in SimpleNodes(text(q)), f \in FromNames(text(q))
         PROVE  f.path[1] \in TableSites(text(q)) /\ f.path[1] \in ViewSites(text(q))
    BY <1>19, SitesAreNodes
  <1>20. plan.ok
    OBVIOUS
  <1>. HIDE DEF text, ctes, plan, view, table, key, t, found
  <1>21. CASE PlansView(p, x)
    <2>1. plan = view /\ x \in ViewSites(t) /\ \A q \in Paths : ~ViewUnsafe(text(q), key)
      BY <1>2, <1>3, <1>8, <1>21
    <2>2. << p, x >> \in plan.sites
      BY <1>16, <2>1
    <2>3. ASSUME NEW n \in found PROVE n \in plan.sites
      <3>1. CASE n \in RelationReferenceLocations(documents, << key >>)
        BY <1>8, <1>11, <1>19, <2>1, <3>1
      <3>2. CASE n \in RelationDefinitionLocations(documents, << key >>)
        BY <1>8, <1>11, <1>14, <1>18, <2>1, <3>2
      <3>3. QED
        BY <1>7, <3>1, <3>2
    <2>4. ASSUME NEW n \in plan.sites
          PROVE  \E q \in Paths : \E y :
                   /\ n = << q, y >> /\ ~AmbiguousAtPosition(documents[q], y)
                   /\ KindAtPosition(documents[q], RenameOrder, y) = NoKind
                   /\ RelationPlan(documents, q, y) = plan
      <3>1. PICK q \in Paths : \E y \in ViewSites(text(q)) : n = << q, y >> /\ Key(text(q), y) = key
        BY <1>8, <2>1
      <3>2. PICK y \in ViewSites(text(q)) : n = << q, y >> /\ Key(text(q), y) = key
        BY <3>1
      <3>3. y \notin Quoted(text(q))
        BY <1>12, <2>1, <3>2
      <3>4. PlansView(q, y)
        BY <1>3, <1>15, <1>21, <3>2, <3>3 DEF view
      <3>5. RelationPlan(documents, q, y) = plan
        BY <1>15, <2>1, <3>2, <3>4 DEF view
      <3>6. QED
        BY <1>10, <3>2, <3>5
    <2>5. QED
      BY <2>2, <2>3, <2>4 DEF plan, found
  <1>22. CASE ~PlansView(p, x)
    <2>1. plan = table /\ x \in TableSites(t) /\ \A q \in Paths : ~TableUnsafe(text(q), key)
      BY <1>2, <1>9, <1>20, <1>22
    <2>2. << p, x >> \in plan.sites
      BY <1>17, <2>1
    <2>3. ASSUME NEW n \in found PROVE n \in plan.sites
      <3>1. CASE n \in RelationReferenceLocations(documents, << key >>)
        BY <1>9, <1>11, <1>19, <2>1, <3>1
      <3>2. CASE n \in RelationDefinitionLocations(documents, << key >>)
        BY <1>9, <1>11, <1>14, <1>18, <2>1, <3>2
      <3>3. QED
        BY <1>7, <3>1, <3>2
    <2>4. ~view.ok
      BY <1>8, <1>14, <2>1
    <2>5. ASSUME NEW n \in plan.sites
          PROVE  \E q \in Paths : \E y :
                   /\ n = << q, y >> /\ ~AmbiguousAtPosition(documents[q], y)
                   /\ KindAtPosition(documents[q], RenameOrder, y) = NoKind
                   /\ RelationPlan(documents, q, y) = plan
      <3>1. PICK q \in Paths : \E y \in TableSites(text(q)) : n = << q, y >> /\ Key(text(q), y) = key
        BY <1>9, <2>1
      <3>2. PICK y \in TableSites(text(q)) : n = << q, y >> /\ Key(text(q), y) = key
        BY <3>1
      <3>3. y \notin Quoted(text(q))
        BY <1>13, <2>1, <3>2
      <3>4. ~PlansView(q, y)
        BY <1>15, <2>4, <3>2 DEF view
      <3>5. RelationPlan(documents, q, y) = plan
        BY <1>15, <2>1, <3>2, <3>3, <3>4 DEF table
      <3>6. QED
        BY <1>10, <3>2, <3>5
    <2>6. QED
      BY <2>2, <2>3, <2>5 DEF plan, found
  <1>23. QED
    BY <1>21, <1>22

(* What is edited as one types is of what a rename edits.                  *)
LEMMA LinkedIsRenamed ==
  ASSUME NEW p, NEW x,
         LET target == RenameTarget(documents, p, x)
         IN \A n \in target.sites : n = << n[1], n[2] >> /\ (target.kind # "relation" => n[1] = p)
  PROVE  At(p, LinkedEditingRange(documents, p, x)) \subseteq RenameTarget(documents, p, x).sites
  <1> DEFINE target == RenameTarget(documents, p, x)
             name(y) == documents[p].text.names[y]
             M == {m \in target.sites :
                     target.kind = "relation" => m[1] = p /\ name(m[2]) = name(x)}
             R == {n[2] : n \in M}
  <1>1. LinkedEditingRange(documents, p, x) = IF Cardinality(R) < 2 THEN {} ELSE R
    BY DEF LinkedEditingRange
  <1>2. ASSUME NEW y \in R PROVE << p, y >> \in target.sites
    <2>1. PICK n \in M : y = n[2]
      BY <1>2
    <2>2. n[1] = p /\ n = << n[1], n[2] >> /\ n \in target.sites
      BY <2>1
    <2>3. QED
      BY <2>1, <2>2
  <1>. HIDE DEF R, target
  <1>3. ASSUME NEW n \in At(p, LinkedEditingRange(documents, p, x)) PROVE n \in target.sites
    <2>1. PICK y \in LinkedEditingRange(documents, p, x) : n = << p, y >>
      BY <1>3 DEF At
    <2>2. y \in R
      BY <1>1, <2>1
    <2>3. QED
      BY <1>2, <2>1, <2>2
  <1>4. QED
    BY <1>3 DEF target

(* A rename can be started from each place it edits, with the same         *)
(* outcome, edits all that References lists, and covers what is edited     *)
(* while typing.                                                           *)
THEOREM RenamesAgree == Spec => []RenameAgreesWithReferences
  <1>1. SnapshotsAreParsed => RenameAgreesWithReferences
    <2>1. SUFFICES ASSUME SnapshotsAreParsed, NEW p \in Paths, NEW x \in Tokens(documents[p].text),
                          PrepareRename(documents, p, x), ~BindsReference(documents[p].ctes, x)
          PROVE  LET target == RenameTarget(documents, p, x)
                 IN /\ << p, x >> \in target.sites
                    /\ At(p, LinkedEditingRange(documents, p, x)) \subseteq target.sites
                    /\ References(documents, p, x, TRUE) \subseteq target.sites
                    /\ \A n \in target.sites :
                         \/ RenameTarget(documents, n[1], n[2]) = target
                         \/ AmbiguousAtPosition(documents[n[1]], n[2])
                         \/ Reexported(documents[n[1]], n[2])
      BY DEF RenameAgreesWithReferences
    <2> DEFINE s == documents[p]
               kind == KindAtPosition(s, RenameOrder, x)
               b == BindingAt(s, kind, x)
               plan == RelationPlan(documents, p, x)
               target == RenameTarget(documents, p, x)
               none == [kind |-> NoKind, sites |-> {}]
    <2>2. Indexed(s)
      BY <2>1, DocumentIndexed
    <2>3. /\ AmbiguousAtPosition(s, x) => target = none
          /\ ~AmbiguousAtPosition(s, x) /\ kind # NoKind =>
               target = IF ~b.ambiguous /\ b.explicit
                        THEN [kind |-> kind, sites |-> At(p, Sites(b))] ELSE none
          /\ ~AmbiguousAtPosition(s, x) /\ kind = NoKind =>
               target = IF plan.ok THEN [kind |-> "relation", sites |-> plan.sites] ELSE none
      BY RenameTargetIs
    <2>4. target.kind # NoKind /\ none.kind = NoKind
      BY <2>1 DEF PrepareRename
    <2>5. ~AmbiguousAtPosition(s, x)
      <3>. HIDE DEF target, none
      <3>1. QED
        BY <2>3, <2>4
    <2>6. CASE kind # NoKind
      <3>1. ~b.ambiguous /\ b.explicit /\ target = [kind |-> kind, sites |-> At(p, Sites(b))]
        <4>. HIDE DEF target, none, b, kind, s
        <4>1. QED
          BY <2>3, <2>4, <2>5, <2>6
      <3>2. kind \in BindingKinds \ {"cte"} /\ HasSite(s, kind, x)
            /\ KindAtPosition(s, ReferenceOrder, x) = kind
        BY <2>2, <2>6, SameReferences
      <3>3. x \in Sites(b)
        <4>1. IndexOK(s.text, IndexOf(s, kind))
          BY <2>2, <3>2 DEF Indexed
        <4>2. QED
          BY <3>2, <4>1, BindingIs
      <3>4. References(documents, p, x, TRUE) \subseteq At(p, Sites(b))
        <4>1. References(documents, p, x, TRUE) =
                IF Ambiguous(kind, b) THEN {} ELSE At(p, Sites(b))
          BY <2>5, <2>6, <3>2, ReferencesAre
        <4>2. QED
          BY <4>1
      <3>5. ASSUME NEW y \in Sites(b), ~AmbiguousAtPosition(s, y), ~Reexported(s, y)
            PROVE  RenameTarget(documents, p, y) = target
        <4>1. KindAtPosition(s, RenameOrder, y) = kind /\ BindingAt(s, kind, y) = b
          BY <2>2, <2>6, <3>1, <3>5, SameRename
        <4>2. RenameTarget(documents, p, y) = [kind |-> kind, sites |-> At(p, Sites(b))]
          <5> DEFINE k == KindAtPosition(s, RenameOrder, y)
                     c == BindingAt(s, k, y)
          <5>1. ~AmbiguousAtPosition(s, y) /\ k # NoKind =>
                  RenameTarget(documents, p, y) =
                    IF ~c.ambiguous /\ c.explicit THEN [kind |-> k, sites |-> At(p, Sites(c))] ELSE none
            BY RenameTargetIs
          <5>2. k = kind /\ c = b
            BY <4>1
          <5>. HIDE DEF k, c, kind, b, s, none
          <5>3. QED
            BY <2>6, <3>1, <3>5, <5>1, <5>2
        <4>3. QED
          BY <3>1, <4>2
      <3>6. \A n \in At(p, Sites(b)) : \E y \in Sites(b) : n = << p, y >> /\ n[1] = p /\ n[2] = y
        BY DEF At
      <3>7. target.kind # "relation" /\ target.sites = At(p, Sites(b))
        <4>1. kind # "relation"
          BY <3>2 DEF BindingKinds, ColumnKinds
        <4>. HIDE DEF target, kind, b
        <4>2. QED
          BY <3>1, <4>1
      <3>8. At(p, LinkedEditingRange(documents, p, x)) \subseteq target.sites
        <4>1. \A n \in target.sites : n = << n[1], n[2] >> /\ (target.kind # "relation" => n[1] = p)
          <5>. HIDE DEF target, b
          <5>1. QED
            BY <3>6, <3>7
        <4>2. QED
          BY <4>1, LinkedIsRenamed
      <3>9. << p, x >> \in At(p, Sites(b))
        BY <3>3 DEF At
      <3>10. ASSUME NEW n \in target.sites
             PROVE  \/ RenameTarget(documents, n[1], n[2]) = target
                    \/ AmbiguousAtPosition(documents[n[1]], n[2])
                    \/ Reexported(documents[n[1]], n[2])
        <4>1. PICK y \in Sites(b) : n[1] = p /\ n[2] = y
          BY <3>6, <3>7
        <4>2. QED
          BY <3>5, <4>1
      <3>11. QED
        BY <3>4, <3>7, <3>8, <3>9, <3>10
    <2>7. CASE kind = NoKind
      <3>1. plan.ok /\ target = [kind |-> "relation", sites |-> plan.sites]
        <4>. HIDE DEF target, none, plan, kind, s, b
        <4>1. QED
          BY <2>3, <2>4, <2>5, <2>7
      <3>2. /\ << p, x >> \in plan.sites
            /\ References(documents, p, x, TRUE) \subseteq plan.sites
            /\ \A n \in plan.sites : \E q \in Paths : \E y :
                 /\ n = << q, y >> /\ ~AmbiguousAtPosition(documents[q], y)
                 /\ KindAtPosition(documents[q], RenameOrder, y) = NoKind
                 /\ RelationPlan(documents, q, y) = plan
        BY <2>1, <3>1, PlanAgrees
      <3>3. target.sites = plan.sites /\ target.kind = "relation"
        BY <3>1
      <3>4. ASSUME NEW n \in plan.sites
            PROVE  n = << n[1], n[2] >> /\ RenameTarget(documents, n[1], n[2]) = target
        <4>1. PICK q \in Paths : \E y :
                /\ n = << q, y >> /\ ~AmbiguousAtPosition(documents[q], y)
                /\ KindAtPosition(documents[q], RenameOrder, y) = NoKind
                /\ RelationPlan(documents, q, y) = plan
          BY <3>2, <3>4
        <4>2. PICK y : /\ n = << q, y >> /\ ~AmbiguousAtPosition(documents[q], y)
                       /\ KindAtPosition(documents[q], RenameOrder, y) = NoKind
                       /\ RelationPlan(documents, q, y) = plan
          BY <4>1
        <4>3. RenameTarget(documents, q, y) =
                IF plan.ok THEN [kind |-> "relation", sites |-> plan.sites] ELSE none
          BY <4>2, RenameTargetIs
        <4>4. n[1] = q /\ n[2] = y
          BY <4>2
        <4>. HIDE DEF target, plan, none
        <4>5. RenameTarget(documents, q, y) = target
          BY <3>1, <4>3
        <4>6. QED
          BY <4>2, <4>4, <4>5
      <3>5. At(p, LinkedEditingRange(documents, p, x)) \subseteq target.sites
        <4>1. \A n \in target.sites : n = << n[1], n[2] >> /\ (target.kind # "relation" => n[1] = p)
          BY <3>3, <3>4
        <4>2. QED
          BY <4>1, LinkedIsRenamed
      <3>. HIDE DEF plan
      <3>6. QED
        BY <3>2, <3>3, <3>4, <3>5
    <2>8. QED
      BY <2>6, <2>7
  <1>2. QED
    BY <1>1, AlwaysParsed, PTL

(***************************************************************************)
(* What Definition answers, and what is asked back from there.             *)
(***************************************************************************)
(* The declaration of a binding, the column of a member, or where the name *)
(* of a table or a view is declared.                                       *)
LEMMA DefinitionIs ==
  ASSUME NEW p, NEW x, NEW d \in Definition(documents, p, x)
  PROVE  LET s == documents[p]
             kind == KindAtPosition(s, DefinitionOrder, x)
             b == BindingAt(s, kind, x)
             unbound == kind = NoKind \/ ImplicitAt(kind, b, x)
         IN /\ ~AmbiguousAtPosition(s, x)
            /\ ~unbound => ~Ambiguous(kind, b) /\ d = << p, b.at >>
            /\ unbound =>
                 \/ \E m \in MemberAtPosition(s.aliases, x) : \E c \in MemberColumn(documents, p, m) :
                      d = << c.path, c.column.at >>
                 \/ \E keys \in RelationNameAtPosition(s.text, x) :
                      d \in RelationDefinitionLocations(documents, keys)
  <1> DEFINE s == documents[p]
             kind == KindAtPosition(s, DefinitionOrder, x)
             b == BindingAt(s, kind, x)
             members == MemberAtPosition(s.aliases, x)
             implicit == ImplicitAt(kind, b, x)
             declared == {<< p, b.at >>}
             columns == UNION {{<< c.path, c.column.at >> : c \in MemberColumn(documents, p, m)} : m \in members}
             named == UNION {RelationDefinitionLocations(documents, keys) :
                               keys \in RelationNameAtPosition(s.text, x)}
  <1>1. Definition(documents, p, x) =
          CASE AmbiguousAtPosition(s, x) -> {}
            [] ~AmbiguousAtPosition(s, x) /\ kind # NoKind /\ ~implicit ->
                 IF Ambiguous(kind, b) THEN {} ELSE declared
            [] ~AmbiguousAtPosition(s, x) /\ (kind = NoKind \/ implicit) /\ members # {} -> columns
            [] OTHER -> named
    BY DEF Definition
  <1>2. d \in columns => \E m \in members : \E c \in MemberColumn(documents, p, m) :
                           d = << c.path, c.column.at >>
    OBVIOUS
  <1>3. d \in named => \E keys \in RelationNameAtPosition(s.text, x) :
                         d \in RelationDefinitionLocations(documents, keys)
    OBVIOUS
  <1>4. d \in declared => d = << p, b.at >>
    OBVIOUS
  <1> DEFINE found == Definition(documents, p, x)
  <1>5. d \in found
    OBVIOUS
  <1>. HIDE DEF s, kind, b, members, implicit, declared, columns, named, found
  <1>6. /\ AmbiguousAtPosition(s, x) => found = {}
        /\ ~AmbiguousAtPosition(s, x) /\ kind # NoKind /\ ~implicit =>
             found = {} \/ (~Ambiguous(kind, b) /\ found = declared)
        /\ ~AmbiguousAtPosition(s, x) /\ (kind = NoKind \/ implicit) => found = columns \/ found = named
    BY <1>1 DEF found
  <1>7. /\ ~AmbiguousAtPosition(s, x)
        /\ ~(kind = NoKind \/ implicit) => ~Ambiguous(kind, b) /\ d \in declared
        /\ (kind = NoKind \/ implicit) => d \in columns \/ d \in named
    BY <1>5, <1>6
  <1>8. QED
    BY <1>2, <1>3, <1>4, <1>7, Zenon DEF s, kind, b, members, implicit

(* Highlights are the references, or wherever the name is written.         *)
LEMMA HighlightIs ==
  ASSUME NEW p, NEW x
  PROVE  LET s == documents[p]
             kind == KindAtPosition(s, ReferenceOrder, x)
             found == DocumentHighlight(documents, p, x)
         IN /\ kind # NoKind => found = References(documents, p, x, TRUE)
            /\ ~AmbiguousAtPosition(s, x) /\ kind = NoKind =>
                 \A y \in Tokens(s.text) : Key(s.text, y) = Key(s.text, x) => << p, y >> \in found
  <1> DEFINE s == documents[p]
             kind == KindAtPosition(s, ReferenceOrder, x)
             found == DocumentHighlight(documents, p, x)
             written == At(p, {y \in Tokens(s.text) : Key(s.text, y) = Key(s.text, x)})
  <1>1. found = IF AmbiguousAtPosition(s, x) \/ kind # NoKind
                THEN References(documents, p, x, TRUE) ELSE written
    BY DEF DocumentHighlight
  <1>2. \A y \in Tokens(s.text) : Key(s.text, y) = Key(s.text, x) => << p, y >> \in written
    BY DEF At
  <1>. HIDE DEF s, kind, found, written
  <1>3. /\ kind # NoKind => found = References(documents, p, x, TRUE)
        /\ ~AmbiguousAtPosition(s, x) /\ kind = NoKind => found = written
    BY <1>1, Zenon
  <1>4. QED
    BY <1>2, <1>3, Zenon DEF s, kind, found

(* From a binding, references and highlights are its sites.                *)
LEMMA FoundFrom ==
  ASSUME NEW p, NEW y, NEW kind, kind # NoKind,
         KindAtPosition(documents[p], ReferenceOrder, y) = kind,
         ~AmbiguousAtPosition(documents[p], y),
         ~Ambiguous(kind, BindingAt(documents[p], kind, y))
  PROVE  /\ References(documents, p, y, TRUE) = At(p, Sites(BindingAt(documents[p], kind, y)))
         /\ DocumentHighlight(documents, p, y) = References(documents, p, y, TRUE)
  <1>1. References(documents, p, y, TRUE) =
          IF Ambiguous(kind, BindingAt(documents[p], kind, y)) THEN {}
          ELSE At(p, Sites(BindingAt(documents[p], kind, y)))
    BY ReferencesAre
  <1>2. QED
    BY <1>1, HighlightIs

(* A member is qualified by an alias of the index, the only one of its name*)
(* in its scope.                                                           *)
LEMMA MemberBinding ==
  ASSUME NEW t, NEW aliases, IndexesAliases(t, aliases), NEW m \in aliases.members
  PROVE  \E i \in DOMAIN aliases.bindings :
           /\ aliases.bindings[i].at = m.alias /\ ~aliases.bindings[i].ambiguous
           /\ BindingOf(aliases.bindings, m.alias) = aliases.bindings[i]
  <1> DEFINE b == aliases.bindings
             I == {j \in 1..Len(b) : b[j].at = m.alias}
  <1>1. /\ Len(b) \in Nat /\ DOMAIN b = 1..Len(b)
        /\ \A i, j \in 1..Len(b) : b[i].at = b[j].at => i = j
        /\ \E i \in 1..Len(b) : b[i].at = m.alias /\ ~b[i].ambiguous
    BY DEF IndexesAliases
  <1>2. PICK i \in 1..Len(b) : b[i].at = m.alias /\ ~b[i].ambiguous
    BY <1>1
  <1>3. BindingOf(b, m.alias) = b[IF I # {} THEN Min(I) ELSE 0]
    BY DEF BindingOf, SelectInSeq
  <1>4. I = {i}
    BY <1>1, <1>2
  <1>5. I \subseteq Nat /\ I # {}
    BY <1>4
  <1>. HIDE DEF I
  <1>6. Min(I) \in I
    BY <1>5, HasMin
  <1>7. BindingOf(b, m.alias) = b[i]
    BY <1>3, <1>4, <1>5, <1>6
  <1>8. QED
    BY <1>1, <1>2, <1>7

(* A declaration is no name of a result that several have.                 *)
LEMMA Unambiguous ==
  ASSUME NEW s, Indexed(s), NEW y, y # NoToken, NEW tags, tags \cap Asked = {}, y \in Marked(s.text, tags)
  PROVE  ~AmbiguousAtPosition(s, y)
  BY MarkedApart DEF Indexed, IndexesResults, AmbiguousAtPosition

(* The declaration of a CTE, an alias or a result is a site of its kind,   *)
(* or a result is the column of a query.                                   *)
LEMMA DeclarationKind ==
  ASSUME NEW s, Indexed(s), NEW kind \in {"cte", "alias", "selectAlias"},
         NEW i \in DOMAIN IndexOf(s, kind)
  PROVE  LET y == IndexOf(s, kind)[i].at
             k == KindAtPosition(s, ReferenceOrder, y)
         IN /\ HasSite(s, kind, y) /\ BindingAt(s, kind, y) = IndexOf(s, kind)[i]
            /\ ~AmbiguousAtPosition(s, y)
            /\ k = kind \/ (kind = "selectAlias" /\ k \in ColumnKinds /\ HasSite(s, k, y))
  <1> DEFINE b == IndexOf(s, kind)[i]
             y == b.at
             k == KindAtPosition(s, ReferenceOrder, y)
  <1>1. kind \in BindingKinds \ ColumnKinds /\ y \in Sites(b)
    BY DEF BindingKinds, ColumnKinds, Sites
  <1>2. HasSite(s, kind, y) /\ BindingAt(s, kind, y) = b
    BY <1>1, BindingHere
  <1>3. y # NoToken
    BY <1>1, <1>2, SitesMarked
  <1>4. k = IF HasSite(s, "cte", y) THEN "cte"
            ELSE IF HasSite(s, "cteColumn", y) THEN "cteColumn"
            ELSE IF HasSite(s, "derivedColumn", y) THEN "derivedColumn"
            ELSE IF HasSite(s, "alias", y) THEN "alias"
            ELSE IF HasSite(s, "selectAlias", y) THEN "selectAlias" ELSE NoKind
    BY ReferenceKind
  <1>5. CASE kind = "cte"
    <2>1. PICK order : IndexesCTEs(s.text, s.ctes, order)
      BY DEF Indexed
    <2>2. y \in Marked(s.text, {"cte"})
      BY <1>5, <2>1, CTEMarked DEF Indexed, IndexOf
    <2>3. {"cte"} \cap Asked = {}
      BY DEF Asked
    <2>4. ~AmbiguousAtPosition(s, y)
      BY <1>3, <2>2, <2>3, Unambiguous
    <2>. HIDE DEF y, k, b
    <2>5. QED
      BY <1>2, <1>4, <1>5, <2>4 DEF y, k, b
  <1>6. CASE kind = "alias"
    <2>1. y \in Marked(s.text, DeclaredAliases)
      BY <1>6 DEF Indexed, IndexesAliases, IndexOf
    <2>2. DeclaredAliases \cap Asked = {}
      BY DEF DeclaredAliases, Asked
    <2>3. ~AmbiguousAtPosition(s, y)
      BY <1>3, <2>1, <2>2, Unambiguous
    <2>4. ~HasSite(s, "cte", y)
      BY <1>1, <1>2, <1>6, CTEsApart
    <2>5. ~HasSite(s, "cteColumn", y) /\ ~HasSite(s, "derivedColumn", y)
      BY <1>2, <1>6, AliasesApart DEF ColumnKinds
    <2>. HIDE DEF y, k, b
    <2>6. QED
      BY <1>2, <1>4, <1>6, <2>3, <2>4, <2>5 DEF y, k, b
  <1>7. CASE kind = "selectAlias"
    <2>1. y \in Marked(s.text, Results)
      BY <1>7 DEF Indexed, IndexesResults, IndexOf
    <2>2. Results \cap Asked = {}
      BY DEF Results, Asked
    <2>3. ~AmbiguousAtPosition(s, y)
      BY <1>3, <2>1, <2>2, Unambiguous
    <2>4. ~HasSite(s, "cte", y) /\ ~HasSite(s, "alias", y)
      BY <1>1, <1>2, <1>7, CTEsApart, AliasesApart
    <2>. HIDE DEF y, k, b
    <2>5. k = kind \/ (k \in ColumnKinds /\ HasSite(s, k, y))
      BY <1>2, <1>4, <1>7, <2>4 DEF ColumnKinds
    <2>6. QED
      BY <1>2, <1>7, <2>3, <2>5 DEF y, k, b
  <1>8. QED
    BY <1>5, <1>6, <1>7

(* From the declaration of a binding, its references are found.            *)
LEMMA BindingFound ==
  ASSUME SnapshotsAreParsed, NEW p \in Paths, NEW x, NEW kind, kind # NoKind,
         kind = KindAtPosition(documents[p], DefinitionOrder, x),
         ~Ambiguous(kind, BindingAt(documents[p], kind, x))
  PROVE  LET y == BindingAt(documents[p], kind, x).at
         IN \/ AsksColumn(documents[p], y)
            \/ /\ << p, x >> \in References(documents, p, y, TRUE)
               /\ << p, x >> \in DocumentHighlight(documents, p, y)
  <1> DEFINE s == documents[p]
             b == BindingAt(s, kind, x)
             y == b.at
             k == KindAtPosition(s, ReferenceOrder, y)
             c == BindingAt(s, k, y)
  <1>1. Indexed(s)
    BY DocumentIndexed
  <1>2. kind \in {"cte", "alias", "selectAlias"} /\ HasSite(s, kind, x)
    BY DefinitionKind
  <1>3. IndexOK(s.text, IndexOf(s, kind))
    BY <1>1, <1>2 DEF Indexed, BindingKinds
  <1>4. PICK i \in DOMAIN IndexOf(s, kind) : b = IndexOf(s, kind)[i] /\ x \in Sites(b)
    BY <1>2, <1>3, BindingIs DEF BindingAt
  <1>5. /\ HasSite(s, kind, y) /\ BindingAt(s, kind, y) = b
        /\ ~AmbiguousAtPosition(s, y)
        /\ k = kind \/ (kind = "selectAlias" /\ k \in ColumnKinds /\ HasSite(s, k, y))
    BY <1>1, <1>2, <1>4, DeclarationKind
  <1>6. ASSUME k # NoKind, ~Ambiguous(k, c), x \in Sites(c)
        PROVE  << p, x >> \in References(documents, p, y, TRUE) /\ << p, x >> \in DocumentHighlight(documents, p, y)
    <2>1. References(documents, p, y, TRUE) = At(p, Sites(c))
          /\ DocumentHighlight(documents, p, y) = References(documents, p, y, TRUE)
      BY <1>5, <1>6, FoundFrom
    <2>2. << p, x >> \in At(p, Sites(c))
      BY <1>6 DEF At
    <2>3. QED
      BY <2>1, <2>2
  <1>7. CASE k = kind
    <2>1. c = b
      BY <1>5, <1>7
    <2>2. QED
      BY <1>4, <1>6, <1>7, <2>1
  <1>8. CASE kind = "selectAlias" /\ k \in ColumnKinds /\ HasSite(s, k, y)
    <2>1. IndexOK(s.text, IndexOf(s, k))
      BY <1>1, <1>8 DEF Indexed, BindingKinds
    <2>2. PICK l \in DOMAIN IndexOf(s, k) : c = IndexOf(s, k)[l] /\ y \in Sites(c)
      BY <1>8, <2>1, BindingIs DEF BindingAt
    <2>3. k # NoKind /\ ~Ambiguous(k, c)
      BY <1>8 DEF ColumnKinds, NoKind, Ambiguous
    <2>4. CASE y \in c.refs
      <3>1. c \in ToSet(IndexOf(s, k))
        BY <2>2 DEF ToSet
      <3>2. AsksColumn(s, y)
        BY <1>8, <2>4, <3>1 DEF AsksColumn
      <3>3. QED
        BY <3>2
    <2>5. CASE y = c.at
      <3> DEFINE results == s.selectAliases.bindings
      <3>1. IndexOf(s, kind) = results
        BY <1>8 DEF IndexOf
      <3>2. \A j \in DOMAIN results : results[j].at = c.at => results[j].refs \subseteq c.refs
        BY <1>1, <1>8, <2>2, ColumnAsked
      <3>3. i \in DOMAIN results /\ b = results[i]
        BY <1>4, <3>1
      <3>. HIDE DEF results, b, c, k
      <3>4. b.refs \subseteq c.refs
        BY <2>5, <3>2, <3>3
      <3>5. x \in Sites(c)
        BY <1>4, <2>5, <3>4 DEF Sites
      <3>6. QED
        BY <1>6, <2>3, <3>5 DEF b
    <2>6. QED
      BY <2>2, <2>4, <2>5 DEF Sites
  <1>9. QED
    BY <1>5, <1>7, <1>8

(* The column of a CTE or of a query in a FROM that a source has.          *)
LEMMA SourceColumnIs ==
  ASSUME NEW p, NEW source, NEW key, source.table = << >>,
         NEW c \in SourceColumn(documents, p, source, key)
  PROVE  LET shape == IF source.cte # 0 THEN documents[p].ctes[source.cte].shape ELSE source.shape
         IN /\ c.path = p /\ Key(documents[p].text, c.column.at) = key
            /\ \E l \in DOMAIN shape.columns : c.column = shape.columns[l]
  <1> DEFINE shape == IF source.cte # 0 THEN documents[p].ctes[source.cte].shape ELSE source.shape
             tables == TableColumnFactMatches(documents, source.table, key)
             views == ViewColumnFactMatches(documents, source.table, key)
             ofQuery == {[kind |-> "query", path |-> p, column |-> e] :
                           e \in {d \in ToSet(shape.columns) : Key(documents[p].text, d.at) = key}}
             ofName == {[kind |-> "table", path |-> n.path, column |-> n.column] : n \in tables}
                         \cup {[kind |-> "query", path |-> n.path, column |-> n.column] : n \in views}
             found == SourceColumn(documents, p, source, key)
  <1>1. found = CASE source.cte # 0 \/ source.shape.shapeKnown -> ofQuery
                  [] source.table # << >> /\ Cardinality(tables) + Cardinality(views) = 1 -> ofName
                  [] OTHER -> {}
    BY DEF SourceColumn
  <1>2. c \in found
    OBVIOUS
  <1>3. c \in ofQuery
    <2>. HIDE DEF ofQuery, ofName, found, tables, views
    <2>1. found = ofQuery \/ found = {}
      BY <1>1
    <2>2. QED
      BY <1>2, <2>1
  <1>4. PICK e \in ToSet(shape.columns) :
          Key(documents[p].text, e.at) = key /\ c = [kind |-> "query", path |-> p, column |-> e]
    BY <1>3
  <1>. HIDE DEF shape
  <1>5. PICK l \in DOMAIN shape.columns : e = shape.columns[l]
    BY <1>4 DEF ToSet
  <1>6. c.path = p /\ c.column = e
    BY <1>4
  <1>7. Key(documents[p].text, c.column.at) = key /\ c.column = shape.columns[l]
    BY <1>4, <1>5, <1>6
  <1>8. QED
    BY <1>5, <1>6, <1>7, Zenon DEF shape

(* The column of a member is one of a query, with the alias of the member  *)
(* among its owners.                                                       *)
LEMMA MemberColumnIs ==
  ASSUME SnapshotsAreParsed, NEW p \in Paths, NEW m \in documents[p].aliases.members,
         BindingOf(documents[p].aliases.bindings, m.alias).source.table = << >>,
         NEW c \in MemberColumn(documents, p, m)
  PROVE  LET s == documents[p]
         IN /\ c.path = p /\ Key(s.text, c.column.at) = Key(s.text, m.at)
            /\ \E kind \in ColumnKinds : \E k :
                 HasColumn(s, kind, k, c.column.at) /\ m.alias \in OwnersOf(s, kind)[k]
  <1> DEFINE s == documents[p]
             bindings == s.aliases.bindings
             source == BindingOf(bindings, m.alias).source
             shape == IF source.cte # 0 THEN s.ctes[source.cte].shape ELSE source.shape
             y == c.column.at
  <1>1. Indexed(s)
    BY DocumentIndexed
  <1>2. PICK i \in DOMAIN bindings : /\ bindings[i].at = m.alias /\ ~bindings[i].ambiguous
                                     /\ BindingOf(bindings, m.alias) = bindings[i]
    BY <1>1, MemberBinding DEF Indexed
  <1>3. c \in SourceColumn(documents, p, source, Key(s.text, m.at)) /\ source.table = << >>
    BY DEF MemberColumn
  <1>4. /\ c.path = p /\ Key(s.text, y) = Key(s.text, m.at)
        /\ \E l \in DOMAIN shape.columns : c.column = shape.columns[l]
    <2>. HIDE DEF source
    <2>1. QED
      BY <1>3, SourceColumnIs
  <1>5. source = bindings[i].source
    BY <1>2
  <1>6. CASE source.cte # 0
    <2> DEFINE k == source.cte
    <2>1. k \in DOMAIN s.ctes
      BY <1>1, <1>2, <1>6 DEF Indexed, CTESources
    <2>2. shape = s.ctes[k].shape
      BY <1>6
    <2>3. ShapesOf(s, "cteColumn") = CTEShapes(s.ctes)
          /\ OwnersOf(s, "cteColumn") = CTEOwners(s.ctes, s.aliases)
      BY DEF ShapesOf, OwnersOf
    <2>4. DOMAIN CTEShapes(s.ctes) = DOMAIN s.ctes /\ CTEShapes(s.ctes)[k] = s.ctes[k].shape
      BY <2>1 DEF CTEShapes
    <2>5. m.alias \in CTEOwners(s.ctes, s.aliases)[k]
      <3>1. bindings[i] \in ToSet(s.aliases.bindings) /\ bindings[i].source.cte = k
        BY <1>2, <1>5 DEF ToSet
      <3>2. CTEOwners(s.ctes, s.aliases)[k] =
              {b.at : b \in {a \in ToSet(s.aliases.bindings) : a.source.cte = k}}
        BY <2>1 DEF CTEOwners
      <3>3. QED
        BY <1>2, <3>1, <3>2
    <2>. HIDE DEF k, shape, source, bindings
    <2>6. HasColumn(s, "cteColumn", k, y)
      BY <1>4, <2>1, <2>2, <2>3, <2>4 DEF HasColumn
    <2>7. QED
      BY <1>4, <2>3, <2>5, <2>6 DEF ColumnKinds
  <1>7. CASE source.cte = 0
    <2>1. shape = bindings[i].source.shape
      BY <1>5, <1>7
    <2>2. ShapesOf(s, "derivedColumn") = DerivedShapes(s.aliases)
          /\ OwnersOf(s, "derivedColumn") = DerivedOwners(s.aliases)
      BY DEF ShapesOf, OwnersOf
    <2>3. DOMAIN DerivedShapes(s.aliases) = DOMAIN bindings
          /\ DerivedShapes(s.aliases)[i] = bindings[i].source.shape
      BY <1>2 DEF DerivedShapes
    <2>4. DerivedOwners(s.aliases)[i] = {m.alias}
      BY <1>2 DEF DerivedOwners
    <2>. HIDE DEF shape, source, bindings
    <2>5. HasColumn(s, "derivedColumn", i, y)
      BY <1>2, <1>4, <2>1, <2>2, <2>3 DEF HasColumn
    <2>6. QED
      BY <1>4, <2>2, <2>4, <2>5 DEF ColumnKinds
  <1>8. QED
    BY <1>6, <1>7

(* From the column of a member, the member is found.                       *)
LEMMA MemberFound ==
  ASSUME SnapshotsAreParsed, NEW p \in Paths, NEW m \in documents[p].aliases.members,
         BindingOf(documents[p].aliases.bindings, m.alias).source.table = << >>,
         NEW c \in MemberColumn(documents, p, m)
  PROVE  LET y == c.column.at
         IN /\ c.path = p
            /\ \/ AsksColumn(documents[p], y)
               \/ /\ << p, m.at >> \in References(documents, p, y, TRUE)
                  /\ << p, m.at >> \in DocumentHighlight(documents, p, y)
  <1> DEFINE s == documents[p]
             y == c.column.at
             kind == KindAtPosition(s, ReferenceOrder, y)
             b == BindingAt(s, kind, y)
  <1>1. Indexed(s)
    BY DocumentIndexed
  <1>2. c.path = p /\ Key(s.text, y) = Key(s.text, m.at)
    BY MemberColumnIs
  <1>3. PICK home \in ColumnKinds : \E k : HasColumn(s, home, k, y) /\ m.alias \in OwnersOf(s, home)[k]
    BY MemberColumnIs
  <1>4. PICK k : HasColumn(s, home, k, y) /\ m.alias \in OwnersOf(s, home)[k]
    BY <1>3
  <1>. HIDE DEF y
  <1>5. HasSite(s, home, y)
    <2>1. PICK i \in DOMAIN IndexOf(s, home) : IndexOf(s, home)[i].at = y
      BY <1>1, <1>4, ColumnIndexed
    <2>2. IndexOK(s.text, IndexOf(s, home))
      BY <1>1 DEF Indexed, BindingKinds
    <2>3. QED
      BY <2>1, <2>2, BindingIs DEF Sites
  <1>6. ~AmbiguousAtPosition(s, y)
    <2>1. y \in ItemNames(s.text)
      BY <1>1, <1>4, ColumnBody
    <2>2. PICK q, i : ItemNamed(s.text, q, i, y)
      BY <2>1 DEF ItemNames
    <2>3. y \in Marked(s.text, Results) /\ y # NoToken
      BY <1>1, <2>2, ItemNamesAre DEF Indexed, ItemNamed
    <2>4. Results \cap Asked = {}
      BY DEF Results, Asked
    <2>5. QED
      BY <1>1, <2>3, <2>4, Unambiguous
  <1>7. kind \in ColumnKinds /\ HasSite(s, kind, y)
    <2>1. ~HasSite(s, "cte", y)
      <3>1. home \in BindingKinds \ {"cte"}
        BY DEF BindingKinds, ColumnKinds
      <3>2. QED
        BY <1>1, <1>5, <3>1, CTEsApart
    <2>2. kind = IF HasSite(s, "cte", y) THEN "cte"
                 ELSE IF HasSite(s, "cteColumn", y) THEN "cteColumn"
                 ELSE IF HasSite(s, "derivedColumn", y) THEN "derivedColumn"
                 ELSE IF HasSite(s, "alias", y) THEN "alias"
                 ELSE IF HasSite(s, "selectAlias", y) THEN "selectAlias" ELSE NoKind
      BY ReferenceKind
    <2>3. home = "cteColumn" \/ home = "derivedColumn"
      BY DEF ColumnKinds
    <2>. HIDE DEF kind
    <2>4. QED
      BY <1>5, <2>1, <2>2, <2>3 DEF ColumnKinds
  <1>8. PICK l \in DOMAIN IndexOf(s, kind) : b = IndexOf(s, kind)[l] /\ y \in Sites(b)
    <2>1. IndexOK(s.text, IndexOf(s, kind))
      BY <1>1, <1>7 DEF Indexed, BindingKinds
    <2>2. QED
      BY <1>7, <2>1, BindingIs DEF BindingAt
  <1>9. CASE y \in b.refs
    <2>1. b \in ToSet(IndexOf(s, kind))
      BY <1>8 DEF ToSet
    <2>2. AsksColumn(s, y)
      BY <1>7, <1>9, <2>1 DEF AsksColumn
    <2>3. QED
      BY <1>2, <2>2 DEF y
  <1>10. CASE y = b.at
    <2>1. PICK j : /\ HasColumn(s, kind, j, y)
                   /\ ColumnIs(s.text, s.aliases, s.selectAliases, OwnersOf(s, kind)[j], y, b)
      BY <1>1, <1>7, <1>8, <1>10, ColumnIndexed
    <2>2. kind = home /\ j = k
      BY <1>1, <1>4, <1>7, <2>1, ColumnOnce
    <2>3. m.alias \in OwnersOf(s, kind)[j]
      BY <1>4, <2>2
    <2>4. m.at \in b.refs
      BY <1>2, <2>1, <2>3 DEF ColumnIs, AsksFor
    <2>5. kind # NoKind /\ ~Ambiguous(kind, b)
      BY <1>7 DEF ColumnKinds, NoKind, Ambiguous
    <2>6. References(documents, p, y, TRUE) = At(p, Sites(b))
          /\ DocumentHighlight(documents, p, y) = References(documents, p, y, TRUE)
      BY <1>6, <2>5, FoundFrom
    <2>7. << p, m.at >> \in At(p, Sites(b))
      BY <2>4 DEF At, Sites
    <2>8. QED
      BY <1>2, <2>6, <2>7 DEF y
  <1>11. QED
    BY <1>8, <1>9, <1>10 DEF Sites

(* Where a name of any length is declared and referred to.                 *)
LEMMA LocationsAre ==
  ASSUME NEW keys
  PROVE  LET text(q) == documents[q].text
         IN /\ \A n : n \in RelationDefinitionLocations(documents, keys) <=>
                 \E q \in Paths : \E r \in OfKind(text(q), {"create_table", "create_view"}) :
                   n = << q, r.path[1] >> /\ Keys(text(q), r.path) = keys
            /\ \A q \in Paths : \A f \in FromNames(text(q)) :
                 Keys(text(q), f.path) = keys
                   /\ ~(IsSimplePath(f.path) /\ BindsReference(documents[q].ctes, f.path[1]))
                 => << q, f.path[1] >> \in RelationReferenceLocations(documents, keys)
  <1> DEFINE text(q) == documents[q].text
             matches(kind) == FactMatches(documents, kind, keys)
  <1>1. \A kind : \A m : m \in matches(kind) <=>
           \E q \in Paths : \E r \in OfKind(text(q), {kind}) :
             m = [path |-> q, relation |-> r] /\ Keys(text(q), r.path) = keys
    BY DEF FactMatches
  <1>2. \A q : \A r : r \in OfKind(text(q), {"create_table", "create_view"}) <=>
                  \E kind \in {"create_table", "create_view"} : r \in OfKind(text(q), {kind})
    BY DEF OfKind
  <1>3. \A n : n \in RelationDefinitionLocations(documents, keys) <=>
           \E kind \in {"create_table", "create_view"} : \E m \in matches(kind) :
             n = << m.path, m.relation.path[1] >>
    BY DEF RelationDefinitionLocations
  <1>4. \A q \in Paths : \A f \in FromNames(text(q)) :
           Keys(text(q), f.path) = keys
             /\ ~(IsSimplePath(f.path) /\ BindsReference(documents[q].ctes, f.path[1]))
           => << q, f.path[1] >> \in RelationReferenceLocations(documents, keys)
    BY DEF RelationReferenceLocations
  <1>5. ASSUME NEW n \in RelationDefinitionLocations(documents, keys)
        PROVE  \E q \in Paths : \E r \in OfKind(text(q), {"create_table", "create_view"}) :
                 n = << q, r.path[1] >> /\ Keys(text(q), r.path) = keys
    <2>1. PICK kind \in {"create_table", "create_view"} : \E m \in matches(kind) :
            n = << m.path, m.relation.path[1] >>
      BY <1>3
    <2>2. PICK m \in matches(kind) : n = << m.path, m.relation.path[1] >>
      BY <2>1
    <2>3. PICK q \in Paths : \E r \in OfKind(text(q), {kind}) :
            m = [path |-> q, relation |-> r] /\ Keys(text(q), r.path) = keys
      BY <1>1
    <2>4. PICK r \in OfKind(text(q), {kind}) :
            m = [path |-> q, relation |-> r] /\ Keys(text(q), r.path) = keys
      BY <2>3
    <2>5. r \in OfKind(text(q), {"create_table", "create_view"})
      BY <1>2
    <2>6. n = << q, r.path[1] >>
      BY <2>2, <2>4
    <2>7. QED
      BY <2>4, <2>5, <2>6
  <1>6. ASSUME NEW q \in Paths, NEW r \in OfKind(text(q), {"create_table", "create_view"}),
               Keys(text(q), r.path) = keys
        PROVE  << q, r.path[1] >> \in RelationDefinitionLocations(documents, keys)
    <2>1. PICK kind \in {"create_table", "create_view"} : r \in OfKind(text(q), {kind})
      BY <1>2
    <2> DEFINE m == [path |-> q, relation |-> r]
    <2>2. m \in matches(kind)
      BY <1>1, <1>6, <2>1
    <2>3. << q, r.path[1] >> = << m.path, m.relation.path[1] >>
      OBVIOUS
    <2>. HIDE DEF m, matches
    <2>4. QED
      BY <1>3, <2>2, <2>3
  <1>. HIDE DEF text
  <1>7. QED
    BY <1>4, <1>5, <1>6 DEF text

(* At the declaration of a table or a view, no index has a binding.        *)
LEMMA DeclarationAt ==
  ASSUME SnapshotsAreParsed, NEW p \in Paths,
         NEW r \in OfKind(documents[p].text, {"create_table", "create_view"})
  PROVE  LET s == documents[p]
             y == r.path[1]
         IN /\ y \in Tokens(s.text) /\ ~AmbiguousAtPosition(s, y)
            /\ KindAtPosition(s, ReferenceOrder, y) = NoKind
            /\ Keys(s.text, r.path) \in RelationNameAtPosition(s.text, y)
  <1> DEFINE s == documents[p]
             t == s.text
             y == r.path[1]
  <1>1. Indexed(s) /\ IsText(t)
    BY DocumentIndexed DEF Indexed
  <1>2. r \in ToSet(Relations(t)) /\ r.kind \notin {"identity", "bad"} /\ r \in NamedNodes(t)
    BY DEF OfKind, NamedNodes
  <1>3. PICK i \in DOMAIN Relations(t) : r = Relations(t)[i]
    BY <1>2 DEF ToSet
  <1>4. r.path \in Seq(Tokens(t)) \ {<< >>}
    BY <1>1, <1>2, NodePath DEF PathAt
  <1>5. 1 \in DOMAIN r.path /\ y \in Tokens(t)
    <2> DEFINE path == r.path
    <2>1. path \in Seq(Tokens(t)) \ {<< >>}
      BY <1>4
    <2>. HIDE DEF path, t
    <2>2. 1 \in DOMAIN path /\ path[1] \in Tokens(t)
      BY <2>1, SimpleKeys
    <2>3. QED
      BY <2>2 DEF path
  <1>6. y # NoToken
    BY <1>1, <1>5, TextTypes
  <1>7. y \in Marked(t, {"relation"}) /\ y \in Marked(t, {"cte", "from", "relation"})
    <2>1. Along("relation", i, r.path) \subseteq Written(Queries(t), Relations(t))
      BY <1>2, <1>3, RelationTokens
    <2>2. << "relation", << i, 1 >>, y >> \in Written(Queries(t), Relations(t))
      BY <1>5, <2>1, TokenAlong
    <2>3. QED
      BY <2>2, MarkedHere
  <1>8. Keys(t, r.path) \in RelationNameAtPosition(t, y)
    <2>1. y \in ToSet(r.path)
      BY <1>5 DEF ToSet
    <2>2. QED
      BY <2>1 DEF RelationNameAtPosition
  <1>. HIDE DEF s, t, y
  <1>9. (\A kind \in BindingKinds : HasSite(s, kind, y) => kind = "cte") /\ ~AmbiguousAtPosition(s, y)
    BY <1>1, <1>5, <1>7, NamesApart DEF t
  <1>10. ~HasSite(s, "cte", y)
    <2>1. HasSite(s, "cte", y) => y \in Marked(t, {"cte", "from"})
      BY <1>1, SitesMarked DEF BindingKinds, t
    <2>2. {"cte", "from"} \cap {"relation"} = {}
      OBVIOUS
    <2>3. QED
      BY <1>1, <1>6, <1>7, <2>1, <2>2, MarkedApart
  <1>11. KindAtPosition(s, ReferenceOrder, y) = NoKind
    <2>1. /\ ~HasSite(s, "cteColumn", y) /\ ~HasSite(s, "derivedColumn", y)
          /\ ~HasSite(s, "alias", y) /\ ~HasSite(s, "selectAlias", y)
      BY <1>9 DEF BindingKinds, ColumnKinds
    <2>2. QED
      BY <1>10, <2>1, ReferenceKind
  <1>12. QED
    BY <1>5, <1>8, <1>9, <1>11 DEF s, t, y

(* From the declaration of a table or a view, the name is found, unless it *)
(* is bound to a CTE.                                                      *)
LEMMA NamedFound ==
  ASSUME SnapshotsAreParsed, NEW p \in Paths, NEW x, ~HasSite(documents[p], "cte", x),
         NEW keys \in RelationNameAtPosition(documents[p].text, x),
         NEW d \in RelationDefinitionLocations(documents, keys)
  PROVE  \E w \in PlacesOf(documents[p].text, x) :
           /\ << p, w >> \in References(documents, d[1], d[2], TRUE)
           /\ p = d[1] => << p, w >> \in DocumentHighlight(documents, d[1], d[2])
  <1> DEFINE s == documents[p]
             t == s.text
             text(q) == documents[q].text
             N == OfKind(t, {"create_table", "create_view"}) \cup FromNames(t)
  <1>1. Indexed(s) /\ IsText(t)
    BY DocumentIndexed DEF Indexed
  <1>2. PICK n \in N : x \in ToSet(n.path) /\ keys = Keys(t, n.path)
    BY DEF RelationNameAtPosition
  <1> DEFINE w == n.path[1]
  <1>3. w \in PlacesOf(t, x)
    BY <1>2 DEF PlacesOf
  <1>4. n.path \in Seq(Tokens(t)) \ {<< >>}
    <2>1. n \in NamedNodes(t)
      BY DEF NamedNodes, OfKind
    <2>2. QED
      BY <1>1, <2>1, NodePath DEF PathAt
  <1>5. w \in Tokens(t) /\ 1 \in DOMAIN n.path /\ (IsSimplePath(n.path) => n.path = << w >>)
    <2> DEFINE path == n.path
    <2>1. path \in Seq(Tokens(t)) \ {<< >>}
      BY <1>4
    <2>. HIDE DEF path, t
    <2>2. /\ 1 \in DOMAIN path /\ path[1] \in Tokens(t)
          /\ IsSimplePath(path) => path = << path[1] >>
      BY <2>1, SimpleKeys
    <2>3. QED
      BY <2>2 DEF path
  <1>6. PICK q \in Paths : \E r \in OfKind(text(q), {"create_table", "create_view"}) :
          d = << q, r.path[1] >> /\ Keys(text(q), r.path) = keys
    BY LocationsAre
  <1>7. PICK r \in OfKind(text(q), {"create_table", "create_view"}) :
          d = << q, r.path[1] >> /\ Keys(text(q), r.path) = keys
    BY <1>6
  <1> DEFINE y == r.path[1]
  <1>8. d[1] = q /\ d[2] = y
    BY <1>7
  <1>9. \/ << p, w >> \in RelationReferenceLocations(documents, keys)
        \/ << p, w >> \in RelationDefinitionLocations(documents, keys)
    <2>1. CASE n \in OfKind(t, {"create_table", "create_view"})
      BY <1>2, <2>1, LocationsAre
    <2>2. CASE n \in FromNames(t)
      <3>1. ~(IsSimplePath(n.path) /\ BindsReference(s.ctes, n.path[1]))
        <4>1. SUFFICES ASSUME IsSimplePath(n.path), BindsReference(s.ctes, n.path[1]) PROVE FALSE
          OBVIOUS
        <4>2. x = w
          BY <1>2, <1>5, <4>1 DEF ToSet
        <4>3. IndexOK(s.text, IndexOf(s, "cte")) /\ IndexOf(s, "cte") = s.ctes
          BY <1>1 DEF Indexed, BindingKinds, IndexOf
        <4>4. Len(s.ctes) \in Nat /\ DOMAIN s.ctes = 1..Len(s.ctes)
          BY <4>3 DEF IndexOK
        <4>5. PICK i \in DOMAIN s.ctes : x \in s.ctes[i].refs
          BY <4>1, <4>2, <4>4, BoundIs
        <4>6. HasSite(s, "cte", x)
          BY <4>3, <4>5, BindingIs DEF Sites
        <4>7. QED
          BY <4>6
      <3>2. QED
        BY <1>2, <2>2, <3>1, LocationsAre
    <2>3. QED
      BY <2>1, <2>2
  <1>10. /\ y \in Tokens(text(q)) /\ ~AmbiguousAtPosition(documents[q], y)
         /\ KindAtPosition(documents[q], ReferenceOrder, y) = NoKind
         /\ Keys(text(q), r.path) \in RelationNameAtPosition(text(q), y)
    BY DeclarationAt
  <1>11. << p, w >> \in References(documents, q, y, TRUE)
    <2>1. keys \in RelationNameAtPosition(text(q), y) /\ RelationDefinitionLocations(documents, keys) # {}
      BY <1>7, <1>10
    <2>. HIDE DEF w, y
    <2>2. QED
      BY <1>9, <1>10, <2>1, ReferencesAre
  <1>12. ASSUME p = q PROVE << p, w >> \in DocumentHighlight(documents, q, y)
    <2>1. Key(text(q), w) = Key(text(q), y)
      <3>1. Keys(t, n.path) = Keys(t, r.path)
        BY <1>2, <1>7, <1>12
      <3>2. 1 \in DOMAIN r.path
        <4>1. r \in NamedNodes(t)
          BY <1>12 DEF NamedNodes, OfKind
        <4> DEFINE path == r.path
        <4>2. path \in Seq(Tokens(t)) \ {<< >>}
          BY <1>1, <4>1, NodePath DEF PathAt
        <4>. HIDE DEF path, t
        <4>3. 1 \in DOMAIN path
          BY <4>2, SimpleKeys
        <4>4. QED
          BY <4>3 DEF path
      <3>3. Keys(t, n.path)[1] = Key(t, w) /\ Keys(t, r.path)[1] = Key(t, y)
        BY <1>5, <3>2 DEF Keys
      <3>4. QED
        BY <1>12, <3>1, <3>3
    <2>2. w \in Tokens(text(q))
      BY <1>5, <1>12
    <2>. HIDE DEF w, y
    <2>3. << q, w >> \in DocumentHighlight(documents, q, y)
      BY <1>10, <2>1, <2>2, HighlightIs
    <2>4. QED
      BY <1>12, <2>3
  <1>. HIDE DEF w, y
  <1>13. QED
    BY <1>3, <1>8, <1>11, <1>12

(* Where Definition goes, References comes back, and the highlights of the *)
(* document do, except from the column of a table or a view and from a     *)
(* result without AS that is a column of another query (Definition,        *)
(* References, and DocumentHighlight in src/handler.go).                   *)
THEOREM DefinitionsInvert == Spec => []DefinitionInvertsReferences
  <1>1. SnapshotsAreParsed => DefinitionInvertsReferences
    <2>1. SUFFICES ASSUME SnapshotsAreParsed, NEW p \in Paths, NEW x \in Tokens(documents[p].text),
                          NEW d \in Definition(documents, p, x),
                          ~MemberOfRelation(documents[p], x), ~AsksColumn(documents[d[1]], d[2])
          PROVE  \E w \in PlacesOf(documents[p].text, x) :
                   /\ << p, w >> \in References(documents, d[1], d[2], TRUE)
                   /\ p = d[1] => << p, w >> \in DocumentHighlight(documents, d[1], d[2])
      <3>1. ASSUME NEW p, NEW w, NEW places, NEW tokens, w \in tokens, << p, w >> \in places
            PROVE  At(p, tokens) \cap places # {}
        BY <3>1 DEF At
      <3>2. ASSUME NEW p, NEW q, NEW y, NEW tokens,
                   \E w \in tokens : /\ << p, w >> \in References(documents, q, y, TRUE)
                                     /\ p = q => << p, w >> \in DocumentHighlight(documents, q, y)
            PROVE  /\ At(p, tokens) \cap References(documents, q, y, TRUE) # {}
                   /\ p = q => At(p, tokens) \cap DocumentHighlight(documents, q, y) # {}
        BY <3>1, <3>2
      <3>3. QED
        BY <3>2 DEF DefinitionInvertsReferences
    <2> DEFINE s == documents[p]
               kind == KindAtPosition(s, DefinitionOrder, x)
               b == BindingAt(s, kind, x)
               unbound == kind = NoKind \/ ImplicitAt(kind, b, x)
    <2>2. /\ ~unbound => ~Ambiguous(kind, b) /\ d = << p, b.at >>
          /\ unbound =>
               \/ \E m \in MemberAtPosition(s.aliases, x) : \E c \in MemberColumn(documents, p, m) :
                    d = << c.path, c.column.at >>
               \/ \E keys \in RelationNameAtPosition(s.text, x) :
                    d \in RelationDefinitionLocations(documents, keys)
      BY DefinitionIs
    <2>3. x \in PlacesOf(s.text, x)
      BY DEF PlacesOf
    <2>4. CASE ~unbound
      <3>1. kind # NoKind /\ ~Ambiguous(kind, b) /\ d = << p, b.at >>
        BY <2>2, <2>4
      <3>2. d[1] = p /\ d[2] = b.at
        BY <3>1
      <3>3. << p, x >> \in References(documents, p, b.at, TRUE)
            /\ << p, x >> \in DocumentHighlight(documents, p, b.at)
        BY <2>1, <3>1, <3>2, BindingFound
      <3>4. QED
        BY <2>3, <3>2, <3>3
    <2>5. CASE \E m \in MemberAtPosition(s.aliases, x) : \E c \in MemberColumn(documents, p, m) :
                 d = << c.path, c.column.at >>
      <3>1. PICK m \in MemberAtPosition(s.aliases, x) : \E c \in MemberColumn(documents, p, m) :
              d = << c.path, c.column.at >>
        BY <2>5
      <3>2. PICK c \in MemberColumn(documents, p, m) : d = << c.path, c.column.at >>
        BY <3>1
      <3>3. m \in s.aliases.members /\ m.at = x
        BY DEF MemberAtPosition
      <3>4. BindingOf(s.aliases.bindings, m.alias).source.table = << >>
        BY <2>1 DEF MemberOfRelation
      <3>5. d[1] = c.path /\ d[2] = c.column.at
        BY <3>2
      <3>6. /\ c.path = p
            /\ \/ AsksColumn(s, c.column.at)
               \/ /\ << p, x >> \in References(documents, p, c.column.at, TRUE)
                  /\ << p, x >> \in DocumentHighlight(documents, p, c.column.at)
        BY <2>1, <3>3, <3>4, MemberFound
      <3>7. QED
        BY <2>1, <2>3, <3>5, <3>6
    <2>6. CASE /\ unbound
               /\ \E keys \in RelationNameAtPosition(s.text, x) :
                    d \in RelationDefinitionLocations(documents, keys)
      <3>1. ~HasSite(s, "cte", x)
        <4>1. kind # "cte"
          BY <2>6 DEF ImplicitAt, NoKind
        <4>2. QED
          BY <4>1, DefinitionKind
      <3>2. PICK keys \in RelationNameAtPosition(s.text, x) : d \in RelationDefinitionLocations(documents, keys)
        BY <2>6
      <3>3. QED
        BY <2>1, <3>1, <3>2, NamedFound
    <2>7. QED
      BY <2>2, <2>4, <2>5, <2>6
  <1>2. QED
    BY <1>1, AlwaysParsed, PTL
================================================================================
