------------------------------- MODULE Relations -------------------------------
(***************************************************************************)
(* Tables and views over all documents: their declarations and columns     *)
(* (src/ddl_facts.go, src/alias_bindings.go), the types of columns         *)
(* (src/query_column_types.go), and the plans for renaming a table         *)
(* (src/table_refactor.go) or a view (src/view_refactor.go).               *)
(*                                                                         *)
(* A relation of a tree is a place outside a FROM that names a table or a  *)
(* view; a path in a FROM names one too, unless a CTE binds it.            *)
(***************************************************************************)
EXTENDS ColumnBindings

CONSTANTS
  Paths, (* The paths of the documents: sequences of directories.          *)
  Roots  (* workspaceRootMap: the folders of the workspace.                *)

\* The FROM entries of a text that name something.
FromNames(t) ==
  UNION {{f \in ToSet(Queries(t)[q].from) : f.kind = "name"} : q \in DOMAIN Queries(t)}

OfKind(t, kinds) == {r \in ToSet(Relations(t)) : r.kind \in kinds}

(***************************************************************************)
(* Facts                                                                   *)
(***************************************************************************)
\* The declarations of the name in all documents.
FactMatches(docs, kind, keys) ==
  UNION {{[path |-> p, relation |-> r] :
            r \in {s \in OfKind(docs[p].text, {kind}) : Keys(docs[p].text, s.path) = keys}}
         : p \in Paths}

ViewShape(docs, match) == ExtractQueryColumnFacts(docs[match.path].text, match.relation.query)

\* The columns of tables of that name, and those of views whose columns are known.
TableColumnFactMatches(docs, keys, key) ==
  UNION {{[path |-> m.path, column |-> c] :
            c \in {d \in ToSet(m.relation.cols) : Key(docs[m.path].text, d.at) = key}}
         : m \in FactMatches(docs, "create_table", keys)}

ViewColumnFactMatches(docs, keys, key) ==
  UNION {{[path |-> m.path, column |-> c] :
            c \in {d \in ToSet(ViewShape(docs, m).columns) : Key(docs[m.path].text, d.at) = key}}
         : m \in FactMatches(docs, "create_view", keys)}

RelationDefinitionLocations(docs, keys) ==
  {<< m.path, m.relation.path[1] >> :
     m \in FactMatches(docs, "create_table", keys) \cup FactMatches(docs, "create_view", keys)}

\* The FROM entries of all documents that name the table or view.
RelationReferenceLocations(docs, keys) ==
  UNION {{<< p, f.path[1] >> :
            f \in {g \in FromNames(docs[p].text) :
                     /\ Keys(docs[p].text, g.path) = keys
                     /\ ~(IsSimplePath(g.path) /\ BindsReference(docs[p].ctes, g.path[1]))}}
         : p \in Paths}

\* The name of the table or view at a token: none or one.
RelationNameAtPosition(t, x) ==
  {Keys(t, r.path) : r \in {s \in OfKind(t, {"create_table", "create_view"}) \cup FromNames(t) :
                              x \in ToSet(s.path)}}

(***************************************************************************)
(* Types                                                                   *)
(***************************************************************************)
\* The types of the columns of any table that have the name.
ColumnDefinitionMatches(docs, key) ==
  UNION {UNION {{<< p, c.type >> : c \in {d \in ToSet(r.cols) : Key(docs[p].text, d.at) = key}}
                : r \in OfKind(docs[p].text, {"create_table"})} : p \in Paths}

OnlyOne(set) == IF Cardinality(set) = 1 THEN set ELSE {}

\* The column of a name that a source in document p has: a column of a query, a
\* column of a table, or nothing.
SourceColumn(docs, p, source, key) ==
  LET shape == IF source.cte # 0 THEN docs[p].ctes[source.cte].shape ELSE source.shape
      tables == TableColumnFactMatches(docs, source.table, key)
      views == ViewColumnFactMatches(docs, source.table, key)
  IN CASE source.cte # 0 \/ source.shape.shapeKnown ->
            {[kind |-> "query", path |-> p, column |-> c] :
               c \in {d \in ToSet(shape.columns) : Key(docs[p].text, d.at) = key}}
       [] source.table # << >> /\ Cardinality(tables) + Cardinality(views) = 1 ->
            {[kind |-> "table", path |-> n.path, column |-> n.column] : n \in tables}
              \cup {[kind |-> "query", path |-> n.path, column |-> n.column] : n \in views}
       [] OTHER -> {}

\* What a member is a column of.
MemberColumn(docs, p, m) ==
  SourceColumn(docs, p, BindingOf(docs[p].aliases.bindings, m.alias).source,
               Key(docs[p].text, m.at))

\* The type of a column of a query: that of the member or the table column it is
\* selected from.  A column met again on the way has none.
QueryColumnTypes(docs) ==
  LET type[p \in Paths, c \in [at : Nat, explicit : BOOLEAN, source : Nat],
           visited \in SUBSET (Paths \X Nat)] ==
        LET members == MemberAtPosition(docs[p].aliases, c.source)
            next == UNION {MemberColumn(docs, p, m) : m \in members}
        IN IF c.source = NoToken \/ << p, c.at >> \in visited THEN {}
           ELSE IF members = {} THEN OnlyOne(ColumnDefinitionMatches(docs, Key(docs[p].text, c.source)))
           ELSE UNION {IF n.kind = "table" THEN {<< n.path, n.column.type >>}
                       ELSE type[n.path, n.column, visited \cup {<< p, c.at >>}] : n \in next}
  IN type

(***************************************************************************)
(* Plans                                                                   *)
(***************************************************************************)
\* Where a token names a table that can be renamed, or a view.
TableSites(t) ==
  {r.path[1] : r \in {s \in OfKind(t, {"create_table", "table"}) \cup FromNames(t) :
                        IsSimplePath(s.path)}}
ViewSites(t) ==
  {r.path[1] : r \in {s \in OfKind(t, {"create_view", "view"}) \cup FromNames(t) :
                        IsSimplePath(s.path)}}

Mentions(t, r, key) == \E i \in DOMAIN r.path : Key(t, r.path[i]) = key

\* A FROM path of several identifiers may be an array of the row of a table.
InFromPath(t, key) == \E f \in FromNames(t) : ~IsSimplePath(f.path) /\ Mentions(t, f, key)

\* A statement that declares a CTE of the name and has a FROM that names it.
CTEIntrudes(t, key) ==
  LET Q == Queries(t)
  IN \E q, r \in DOMAIN Q :
       /\ Q[q].stmt = Q[r].stmt
       /\ \E i \in DOMAIN Q[q].ctes : Key(t, Q[q].ctes[i].name) = key
       /\ \E i \in TableNames(Q[r]) : Key(t, Q[r].from[i].path[1]) = key

\* The document makes renaming the table unsafe.
TableUnsafe(t, key) ==
  \/ \E x \in TableSites(t) \cap Quoted(t) : Key(t, x) = key
  \/ \E r \in OfKind(t, {"create_view"}) : Keys(t, r.path) = << key >>
  \/ \E r \in OfKind(t, {"create_table"}) : Keys(t, r.path) = << key >> /\ r.synonyms
  \/ \E r \in OfKind(t, {"identity", "bad"}) : Mentions(t, r, key)
  \/ InFromPath(t, key)
  \/ CTEIntrudes(t, key)

ViewUnsafe(t, key) ==
  \/ \E x \in ViewSites(t) \cap Quoted(t) : Key(t, x) = key
  \/ \E r \in OfKind(t, {"create_table"}) : Keys(t, r.path) = << key >>
  \/ \E r \in OfKind(t, {"bad"}) : Mentions(t, r, key)
  \/ InFromPath(t, key)

\* The innermost folder of a path, or the empty path.
WorkspaceRootForPath(p) ==
  LET roots == {r \in Roots : IsPrefix(r, p)}
  IN IF roots = {} THEN << >> ELSE CHOOSE r \in roots : \A s \in roots : Len(s) <= Len(r)

\* The sites of a rename in each document.  It is offered if no document makes it
\* unsafe, the name is declared once, and all sites are in one folder.
RefactorPlan(docs, kind, sites, unsafe) ==
  LET names == UNION {{<< p, x >> : x \in sites[p]} : p \in Paths}
      declared == {n \in names :
                     \E r \in OfKind(docs[n[1]].text, {kind}) : r.path = << n[2] >>}
  IN [sites |-> names,
      ok |-> /\ unsafe = {} /\ Cardinality(declared) = 1
             /\ Cardinality({WorkspaceRootForPath(n[1]) : n \in names}) <= 1]

TableRefactorPlan(docs, key) ==
  RefactorPlan(docs, "create_table",
    [p \in Paths |-> {x \in TableSites(docs[p].text) : Key(docs[p].text, x) = key}],
    {p \in Paths : TableUnsafe(docs[p].text, key)})

\* A mutant: whatever has the name of the view is renamed.
ViewPlanThroughCTEs(docs, key) ==
  RefactorPlan(docs, "create_view",
    [p \in Paths |-> {x \in ViewSites(docs[p].text) : Key(docs[p].text, x) = key}],
    {p \in Paths : ViewUnsafe(docs[p].text, key)})

\* A name that a CTE binds is not one of the view.
ViewRefactorPlan(docs, key) ==
  RefactorPlan(docs, "create_view",
    [p \in Paths |-> {x \in ViewSites(docs[p].text) :
                        Key(docs[p].text, x) = key /\ ~BindsReference(docs[p].ctes, x)}],
    {p \in Paths : ViewUnsafe(docs[p].text, key)})

HasSimpleRelationDeclaration(docs, key) ==
  \E p \in Paths : \E r \in OfKind(docs[p].text, {"create_table", "create_view"}) :
    Keys(docs[p].text, r.path) = << key >>
================================================================================
