---------------------------- MODULE MCQueryFeatures ----------------------------
(***************************************************************************)
(* Values of the constants of QueryFeatures for TLC: workspaces of a few   *)
(* trees, each with the names that make its bindings meet, miss and shadow *)
(* each other.                                                             *)
(***************************************************************************)
EXTENDS QueryFeatures

\* Two spellings of one name, two others, and one that no text has.
MCNames == {"A", "a", "B", "C", "New"}
MCFold == [n \in MCNames |-> IF n = "a" THEN "A" ELSE n]

\* Two documents in a folder, one in a folder of its own inside that.
F1 == << "w", "f1" >>
F2 == << "w", "f2" >>
F3 == << "w", "v", "f3" >>
MCPaths == {F1, F2, F3}
MCRoots == {<< "w" >>, << "w", "v" >>}

(***************************************************************************)
(* Pieces of trees                                                         *)
(***************************************************************************)
Select == [up |-> 0, role |-> "statement", at |-> 0, stmt |-> 1, ctes |-> << >>,
           exprs |-> {}, group |-> {}, order |-> {}]
Query(sel, items, from) == Select @@ [sel |-> sel, items |-> items, from |-> from]
Sub(query, role, up) == [query EXCEPT !.role = role, !.up = up]
Body(query, up, at) == [query EXCEPT !.role = "cte", !.up = up, !.at = at]

Item(expr) == [expr |-> expr, as |-> NoToken, star |-> FALSE]
ItemAs(expr, as) == [Item(expr) EXCEPT !.as = as]
Star(x) == [Item(<< x >>) EXCEPT !.star = TRUE]

Named(path, as) == [kind |-> "name", path |-> path, as |-> as, offset |-> NoToken]
Derived(query, as) == [kind |-> "query", query |-> query, as |-> as, offset |-> NoToken]
Unnest(as, offset) == [kind |-> "unnest", as |-> as, offset |-> offset]

CTE(name, query, end) == [name |-> name, query |-> query, end |-> end]
Relation(kind, path) == [kind |-> kind, path |-> path, cols |-> << >>, query |-> 0,
                         synonyms |-> FALSE]
Tree(queries, relations) == [queries |-> queries, relations |-> relations, quoted |-> {}]

(***************************************************************************)
(* The trees: a token is its place in the text                             *)
(***************************************************************************)
\* WITH 1 AS (SELECT 3.4 AS 5 FROM 6 AS 7), 8 AS (SELECT 10.11 FROM 12 AS 13)
\* SELECT 15.16, 17.18 AS 19 FROM 20 AS 21, 22 AS 23 ORDER BY 24
Chain == Tree(
  << Body(Query(<< 2, 7 >>, << ItemAs(<< 3, 4 >>, 5) >>, << Named(<< 6 >>, 7) >>), 3, 1),
     Body(Query(<< 9, 13 >>, << Item(<< 10, 11 >>) >>, << Named(<< 12 >>, 13) >>), 3, 2),
     [Query(<< 14, 23 >>, << Item(<< 15, 16 >>), ItemAs(<< 17, 18 >>, 19) >>,
            << Named(<< 20 >>, 21), Named(<< 22 >>, 23) >>)
        EXCEPT !.ctes = << CTE(1, 1, 7), CTE(8, 2, 13) >>, !.order = {<< 24 >>}] >>, << >>)

\* SELECT 2.3, (SELECT 5.6 FROM 7 AS 8 WHERE 9.10 ORDER BY 11.12)
\* FROM 13 AS 14, 15 AS 16
Nest == Tree(
  << Query(<< 1, 16 >>, << Item(<< 2, 3 >>) >>, << Named(<< 13 >>, 14), Named(<< 15 >>, 16) >>),
     [Sub(Query(<< 4, 10 >>, << Item(<< 5, 6 >>) >>, << Named(<< 7 >>, 8) >>), "expr", 1)
        EXCEPT !.exprs = {<< 9, 10 >>}, !.order = {<< 11, 12 >>}] >>, << >>)

\* SELECT 2.3, 4.5 FROM (SELECT 7.8 AS 9 FROM 10 AS 11) AS 12,
\*   (SELECT 14.15 FROM (SELECT 17.18 AS 19 FROM 20 AS 21) AS 22) AS 23
Derive == Tree(
  << Query(<< 1, 23 >>, << Item(<< 2, 3 >>), Item(<< 4, 5 >>) >>,
           << Derived(2, 12), Derived(3, 23) >>),
     Sub(Query(<< 6, 11 >>, << ItemAs(<< 7, 8 >>, 9) >>, << Named(<< 10 >>, 11) >>), "from", 1),
     Sub(Query(<< 13, 22 >>, << Item(<< 14, 15 >>) >>, << Derived(4, 22) >>), "from", 1),
     Sub(Query(<< 16, 21 >>, << ItemAs(<< 17, 18 >>, 19) >>, << Named(<< 20 >>, 21) >>),
         "from", 3) >>, << >>)

\* SELECT 2.3 AS 4, 5.6, 7.8 AS 9 FROM 10 AS 11
\* GROUP BY 12, 13.14 HAVING 15 ORDER BY 16
Results == Tree(
  << [Query(<< 1, 15 >>, << ItemAs(<< 2, 3 >>, 4), Item(<< 5, 6 >>), ItemAs(<< 7, 8 >>, 9) >>,
            << Named(<< 10 >>, 11) >>)
        EXCEPT !.group = {<< 12 >>, << 13, 14 >>, << 15 >>}, !.order = {<< 16 >>}] >>, << >>)

\* CREATE TABLE 1 (2 3, 4 5); CREATE VIEW 6 AS SELECT 8.9 AS 10 FROM 11 AS 12
Schema == Tree(
  << [Query(<< 7, 12 >>, << ItemAs(<< 8, 9 >>, 10) >>, << Named(<< 11 >>, 12) >>)
        EXCEPT !.stmt = 2] >>,
  << [Relation("create_table", << 1 >>) EXCEPT
        !.cols = << [at |-> 2, type |-> 3], [at |-> 4, type |-> 5] >>],
     [Relation("create_view", << 6 >>) EXCEPT !.query = 1] >>)

\* SELECT 2.3 FROM 4 AS 5; INSERT 6 ...;
\* WITH 7 AS (SELECT 9.10 AS 11 FROM 12 AS 13) SELECT 15.16 FROM 17 AS 18
Uses == Tree(
  << Query(<< 1, 5 >>, << Item(<< 2, 3 >>) >>, << Named(<< 4 >>, 5) >>),
     [Body(Query(<< 8, 13 >>, << ItemAs(<< 9, 10 >>, 11) >>, << Named(<< 12 >>, 13) >>), 3, 1)
        EXCEPT !.stmt = 3],
     [Query(<< 14, 18 >>, << Item(<< 15, 16 >>) >>, << Named(<< 17 >>, 18) >>)
        EXCEPT !.stmt = 3, !.ctes = << CTE(7, 2, 13) >>] >>,
  << Relation("table", << 6 >>) >>)

\* SELECT 2.3 FROM 4 AS 5
Plain == Tree(<< Query(<< 1, 5 >>, << Item(<< 2, 3 >>) >>, << Named(<< 4 >>, 5) >>) >>, << >>)

\* CREATE VIEW 1 AS SELECT 3.4 FROM 5 AS 6; CREATE VIEW 7 AS SELECT 9.10 FROM 11 AS 12
Views == Tree(
  << Query(<< 2, 6 >>, << Item(<< 3, 4 >>) >>, << Named(<< 5 >>, 6) >>),
     [Query(<< 8, 12 >>, << Item(<< 9, 10 >>) >>, << Named(<< 11 >>, 12) >>) EXCEPT !.stmt = 2] >>,
  << [Relation("create_view", << 1 >>) EXCEPT !.query = 1],
     [Relation("create_view", << 7 >>) EXCEPT !.query = 2] >>)

\* WITH 1 AS (WITH 2 AS (SELECT 4.5 FROM 6 AS 7) SELECT 9.10 AS 11 FROM 12 AS 13)
\* SELECT 15.*, 16.17 FROM 18 AS 19, (WITH 20 AS (SELECT 22.23 FROM 24 AS 25)
\*   SELECT 27.28 FROM 29 AS 30) AS 31, 32.33 AS 34, UNNEST(..) AS 35 WITH OFFSET AS 36
Inner == Tree(
  << Body(Query(<< 3, 7 >>, << Item(<< 4, 5 >>) >>, << Named(<< 6 >>, 7) >>), 2, 1),
     [Body(Query(<< 8, 13 >>, << ItemAs(<< 9, 10 >>, 11) >>, << Named(<< 12 >>, 13) >>), 3, 1)
        EXCEPT !.ctes = << CTE(2, 1, 7) >>],
     [Query(<< 14, 36 >>, << Star(15), Item(<< 16, 17 >>) >>,
            << Named(<< 18 >>, 19), Derived(5, 31), Named(<< 32, 33 >>, 34), Unnest(35, 36) >>)
        EXCEPT !.ctes = << CTE(1, 2, 13) >>],
     Body(Query(<< 21, 25 >>, << Item(<< 22, 23 >>) >>, << Named(<< 24 >>, 25) >>), 5, 1),
     [Sub(Query(<< 26, 30 >>, << Item(<< 27, 28 >>) >>, << Named(<< 29 >>, 30) >>), "from", 3)
        EXCEPT !.ctes = << CTE(20, 4, 25) >>] >>, << >>)

\* SELECT 2.3 FROM 4.5 AS 6: perhaps an array of a table.
ArrayPath == Tree(
  << Query(<< 1, 6 >>, << Item(<< 2, 3 >>) >>, << Named(<< 4, 5 >>, 6) >>) >>, << >>)

\* WITH 1 AS (SELECT 3.4 AS 5 FROM 6 AS 7)
\* SELECT 9.10 FROM (SELECT 12.13 FROM 14 AS 15) AS 17 ORDER BY 18
Carried == Tree(
  << Body(Query(<< 2, 7 >>, << ItemAs(<< 3, 4 >>, 5) >>, << Named(<< 6 >>, 7) >>), 2, 1),
     [Query(<< 8, 17 >>, << Item(<< 9, 10 >>) >>, << Derived(3, 17) >>)
        EXCEPT !.ctes = << CTE(1, 1, 7) >>, !.order = {<< 18 >>}],
     Sub(Query(<< 11, 15 >>, << Item(<< 12, 13 >>) >>, << Named(<< 14 >>, 15) >>), "from", 2) >>,
  << >>)

\* CREATE TABLE 1.2 (3 4, 5 6); SELECT 8.9 FROM 10.11 AS 12
Qualified == Tree(
  << [Query(<< 7, 12 >>, << Item(<< 8, 9 >>) >>, << Named(<< 10, 11 >>, 12) >>) EXCEPT !.stmt = 2] >>,
  << [Relation("create_table", << 1, 2 >>) EXCEPT
        !.cols = << [at |-> 3, type |-> 4], [at |-> 5, type |-> 6] >>] >>)

\* WITH 1 AS (SELECT 3 AS 4 FROM 5) SELECT 7.8 FROM 9 AS 10 ORDER BY 11
Sorted == Tree(
  << Body(Query(<< 2, 5 >>, << ItemAs(<< 3 >>, 4) >>, << Named(<< 5 >>, NoToken) >>), 2, 1),
     [Query(<< 6, 10 >>, << Item(<< 7, 8 >>) >>, << Named(<< 9 >>, 10) >>)
        EXCEPT !.ctes = << CTE(1, 1, 5) >>, !.order = {<< 11 >>}] >>, << >>)

\* CREATE TABLE 1 (2 3, 4 5)
Typed == Tree(<< >>,
  << [Relation("create_table", << 1 >>) EXCEPT
        !.cols = << [at |-> 2, type |-> 3], [at |-> 4, type |-> 5] >>] >>)

\* ALTER TABLE 1 RENAME TO 2;  a statement that is not parsed;  CREATE TABLE 1
\* with a synonym;  DROP TABLE `1`;  DROP VIEW 1
Boundary == Tree(<< >>, << Relation("table", << 1 >>), Relation("identity", << 1, 2 >>) >>)
Broken == Tree(<< >>, << Relation("bad", << 1 >>) >>)
Synonym == Tree(<< >>, << [Relation("create_table", << 1 >>) EXCEPT !.synonyms = TRUE] >>)
QuotedDrop == [Tree(<< >>, << Relation("table", << 1 >>) >>) EXCEPT !.quoted = {1}]
DropView == Tree(<< >>, << Relation("view", << 1 >>) >>)

(***************************************************************************)
(* The texts: the names of all tokens but a few are fixed                  *)
(***************************************************************************)
\* Every text with the tree in which the tokens of a set have the given name, and
\* those of the domain of free any of the names there.
TextsOf(tree, fixed, free) ==
  LET named == UNION {fixed[n] : n \in DOMAIN fixed}
  IN {tree @@ [names |-> f @@ [x \in named |-> CHOOSE n \in DOMAIN fixed : x \in fixed[n]]] :
      f \in {g \in [DOMAIN free -> MCNames] : \A x \in DOMAIN free : g[x] \in free[x]}}

AB == {"A", "B"}
Empty == Tree(<< >>, << >>) @@ [names |-> << >>]
Alone(texts) == {[p \in MCPaths |-> IF p = F1 THEN t ELSE Empty] : t \in texts}

ChainTexts == TextsOf(Chain,
  [A |-> {1, 22}, B |-> {7, 3, 17, 23}, C |-> {4, 5, 11, 16, 18, 19, 24, 10, 13, 6}],
  8 :> AB @@ 12 :> {"a", "B"} @@ 20 :> AB @@ 15 :> AB @@ 21 :> AB)

NestTexts == TextsOf(Nest, [C |-> {3, 6, 7, 10, 12, 13, 15}],
  2 :> {"a", "B"} @@ 5 :> AB @@ 8 :> AB @@ 9 :> AB @@ 11 :> AB @@ 14 :> {"A", "C"} @@ 16 :> AB)

DeriveTexts == TextsOf(Derive,
  [C |-> {3, 8, 9, 10, 15, 18, 19, 20}, A |-> {7, 11, 12, 17, 21}],
  2 :> AB @@ 4 :> AB @@ 5 :> {"B", "C"} @@ 14 :> AB @@ 22 :> {"a", "B"} @@ 23 :> AB)

ResultsTexts == TextsOf(Results, [C |-> {2, 5, 7, 10, 11}, A |-> {3, 4, 8, 14}],
  6 :> AB @@ 9 :> AB @@ 12 :> {"a", "B"} @@ 13 :> {"B", "C"} @@ 15 :> AB @@ 16 :> AB)

SchemaTexts == TextsOf(Schema, [A |-> {1}, C |-> {3, 2, 5, 9, 8, 12}, B |-> {4}],
  6 :> AB @@ 10 :> {"B", "C"} @@ 11 :> {"a", "B"})

UsesTexts == TextsOf(Uses, [A |-> {6}, B |-> {11, 16}, C |-> {2, 3, 5, 9, 10, 13, 15, 18}],
  4 :> AB @@ 7 :> {"B", "C"} @@ 12 :> AB @@ 17 :> {"B", "C"})

ViewsTexts == TextsOf(Views, [A |-> {1}, C |-> {3, 4, 6, 9, 10, 12}],
  5 :> AB @@ 7 :> AB @@ 11 :> AB)

InnerTexts == TextsOf(Inner,
  [A |-> {1, 32, 15, 16, 19, 31}, B |-> {34, 35},
   C |-> {4, 5, 6, 7, 9, 10, 11, 13, 17, 22, 23, 25, 27, 28, 30, 33, 36}],
  2 :> AB @@ 12 :> AB @@ 18 :> {"a", "B"} @@ 20 :> AB @@ 24 :> AB @@ 29 :> AB)

CarriedTexts == TextsOf(Carried, [A |-> {1, 9}, C |-> {3, 4, 6, 7}],
  5 :> AB @@ 10 :> AB @@ 12 :> AB @@ 13 :> {"a", "B"} @@ 14 :> AB @@ 15 :> AB @@ 17 :> AB @@ 18 :> AB)

QualifiedTexts == TextsOf(Qualified, [A |-> {1, 12}, B |-> {5}, C |-> {2, 4, 6}],
  3 :> AB @@ 8 :> AB @@ 9 :> AB @@ 10 :> {"a", "B"} @@ 11 :> {"B", "C"})

SortedTexts == TextsOf(Sorted, [A |-> {1, 5, 7, 9}],
  3 :> {"B", "C"} @@ 4 :> {"B", "C"} @@ 8 :> {"B", "C"} @@ 10 :> {"A", "C"} @@ 11 :> {"A", "C"})

TypedTexts == TextsOf(Typed, [A |-> {1, 3, 5}, B |-> {2}, C |-> {4}], << >>)

PlainTexts == TextsOf(Plain, [C |-> {2, 3, 5}], 4 :> {"A", "C"})

\* Another document that names the table or the view, in ways that matter.
OtherTexts ==
  PlainTexts \cup TextsOf(ArrayPath, [A |-> {4}, C |-> {2, 3, 5, 6}], << >>)
    \cup UNION {TextsOf(tree, << >>, 1 :> AB @@ (2 :> {"C"})) :
                  tree \in {Boundary, Broken, Synonym, QuotedDrop, DropView}}

SchemaWorkspaces ==
  {(F1 :> s) @@ (F2 :> u) @@ (F3 :> Empty) : s \in SchemaTexts, u \in UsesTexts}
    \cup {(F1 :> s) @@ (F2 :> Empty) @@ (F3 :> o) : s \in SchemaTexts, o \in OtherTexts}
    \cup {(F1 :> s) @@ (F2 :> o) @@ (F3 :> Empty) : s \in SchemaTexts, o \in OtherTexts}
QualifiedWorkspaces ==
  {(F1 :> q) @@ (F2 :> o) @@ (F3 :> Empty) :
     q \in QualifiedTexts, o \in TextsOf(ArrayPath, [A |-> {4}, C |-> {5, 6}], 2 :> {"C"} @@ 3 :> AB)}
SortedWorkspaces ==
  {(F1 :> s) @@ (F2 :> t) @@ (F3 :> Empty) : s \in SortedTexts, t \in TypedTexts}
ViewsWorkspaces ==
  {(F1 :> v) @@ (F2 :> o) @@ (F3 :> Empty) : v \in ViewsTexts, o \in PlainTexts}

MCWorkspaces ==
  Alone(ChainTexts \cup NestTexts \cup DeriveTexts \cup ResultsTexts \cup InnerTexts
          \cup CarriedTexts)
    \cup SchemaWorkspaces \cup QualifiedWorkspaces \cup SortedWorkspaces
    \cup ViewsWorkspaces
================================================================================
