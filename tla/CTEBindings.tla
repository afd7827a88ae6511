------------------------------ MODULE CTEBindings ------------------------------
(***************************************************************************)
(* Common table expressions: the declarations of a text and the table      *)
(* names bound to them (src/cte_bindings.go), and their place in the       *)
(* outline (src/cte_symbols.go).                                           *)
(***************************************************************************)
EXTENDS QuerySyntax

\* A scope with the first n CTEs of a WITH: of one name, the last.
WithCTEs(t, scope, ctes, n) ==
  LET named(key) == {i \in 1..n : Key(t, ctes[i].name) = key}
  IN [key \in DOMAIN scope \cup {Key(t, ctes[i].name) : i \in 1..n} |->
        IF named(key) = {} THEN scope[key] ELSE ctes[Max(named(key))].name]

\* key -> CTE, for every query: those around it, for the body of a CTE only the
\* ones before it, and its own.
CTEScopes(t) ==
  LET Q == Queries(t)
      outer[q \in DOMAIN Q] ==
        LET up == Q[q].up
            seen == IF Q[q].role = "cte" THEN Q[q].at - 1 ELSE Len(Q[up].ctes)
        IN IF Q[q].role = "statement" THEN << >>
           ELSE WithCTEs(t, outer[up], Q[up].ctes, seen)
  IN [q \in DOMAIN Q |-> WithCTEs(t, outer[q], Q[q].ctes, Len(Q[q].ctes))]

\* The simple table names of a FROM.
TableNames(query) ==
  {i \in DOMAIN query.from : query.from[i].kind = "name" /\ IsSimplePath(query.from[i].path)}

\* The CTEs, a CTE after those of its body.
ExtractCTEIndex(t) ==
  LET Q == Queries(t)
      scopes == CTEScopes(t)
      bound == [x \in UNION {{Q[q].from[i].path[1] : i \in TableNames(Q[q])} : q \in DOMAIN Q} |->
                  LET q == CHOOSE q \in DOMAIN Q :
                             \E i \in TableNames(Q[q]) : Q[q].from[i].path[1] = x
                  IN Lookup(scopes[q], Key(t, x))]
      declared == UNION {ToSet(Q[q].ctes) : q \in DOMAIN Q}
      ctes == InOrder(declared, [c \in declared |-> c.end])
      binding(cte) ==
        [at |-> cte.name, end |-> cte.end,
         refs |-> {x \in DOMAIN bound : bound[x] = cte.name},
         shape |-> ExtractQueryColumnFacts(t, cte.query)]
  IN [i \in DOMAIN ctes |-> binding(ctes[i])]

\* The CTE a table name refers to, or 0.
BindingForReference(ctes, x) == SelectInSeq(ctes, LAMBDA b : x \in b.refs)

BindsReference(ctes, x) == BindingForReference(ctes, x) # 0

RangeContains(outer, inner) == outer.at <= inner.at /\ inner.end <= outer.end

\* A mutant: a CTE is listed under the one before it that starts earlier.
PreviousParents(ctes) ==
  LET sorted == InOrder(ToSet(ctes), [b \in ToSet(ctes) |-> b.at])
  IN [x \in {b.at : b \in ToSet(ctes)} |->
        LET i == SelectInSeq(sorted, LAMBDA b : b.at = x)
        IN IF i = 1 THEN NoToken ELSE sorted[i - 1].at]

\* What is left of a stack of CTEs when its top contains the next one.
Containing(stack, b) ==
  SubSeq(stack, 1, SelectLastInSeq(stack, LAMBDA s : RangeContains(s, b)))

\* The outline: the CTE each CTE is listed under, or NoToken.  In order of their
\* starts, each one is pushed on the stack of those that contain it.
CTEParents(ctes) ==
  LET sorted == InOrder(ToSet(ctes), [b \in ToSet(ctes) |-> b.at])
      stack[i \in 0..Len(sorted)] ==
        IF i = 0 THEN << >>
        ELSE Append(Containing(stack[i - 1], sorted[i]), sorted[i])
      parent(i) ==
        LET open == Containing(stack[i - 1], sorted[i])
        IN IF open = << >> THEN NoToken ELSE Last(open).at
  IN [x \in {b.at : b \in ToSet(ctes)} |->
        parent(CHOOSE i \in DOMAIN sorted : sorted[i].at = x)]
================================================================================
