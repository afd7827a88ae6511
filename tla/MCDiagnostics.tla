----------------------------- MODULE MCDiagnostics -----------------------------
(***************************************************************************)
(* Values of the constants of Diagnostics for TLC: a query of column c of  *)
(* T, and texts that declare T, or a second T, in different ways.          *)
(***************************************************************************)
EXTENDS Diagnostics, TLC

Declaration(columns, known, at) ==
  [name |-> "T", columns |-> columns, shapeKnown |-> known, at |-> at]

Text(tables, views, members, own) ==
  [facts |-> [k \in Kinds |-> IF k = "table" THEN tables ELSE views],
   members |-> members, own |-> own]

Member(source) == [column |-> "c", at |-> 1, ambiguous |-> FALSE, source |-> source]

OfT == Member([kind |-> "named", name |-> "T"])
OfCTE == Member([kind |-> "cte", declaration |-> Declaration({"b"}, TRUE, 1)])

MCEmptyText == Text(<< >>, << >>, {}, {})

\* The query, the query after a syntax error and with a CTE, and schemas: T
\* with and without c, T elsewhere, a view T of unknown columns, and the view
\* together with a query.
MCTexts ==
  {MCEmptyText,
   Text(<< >>, << >>, {OfT}, {}),
   Text(<< >>, << >>, {OfCTE}, {"syntax"}),
   Text(<< Declaration({"b"}, TRUE, 1) >>, << >>, {}, {}),
   Text(<< Declaration({"b"}, TRUE, 2) >>, << >>, {}, {}),
   Text(<< Declaration({"b", "c"}, TRUE, 1) >>, << >>, {}, {}),
   Text(<< >>, << Declaration({}, FALSE, 1) >>, {}, {}),
   Text(<< >>, << Declaration({"b"}, TRUE, 1) >>, {OfT}, {})}

\* Paths are interchangeable.
Interchangeable == Permutations(Paths)
================================================================================
