----------------------------- MODULE QueryFeatures -----------------------------
(***************************************************************************)
(* The requests about names (src/handler.go): references, highlights,      *)
(* definitions, types, lenses, member completion, unknown columns, and the *)
(* three that change a name: PrepareRename, Rename, LinkedEditingRange.    *)
(*                                                                         *)
(* Each is one critical section over the stored snapshots.  The editor     *)
(* asks for a rename, applies the edits, and sends the new texts, which    *)
(* the server parses again.                                                *)
(***************************************************************************)
EXTENDS Relations

CONSTANTS
  Workspaces, (* The texts of the documents a session starts with.         *)
  MaxRenames  (* Bound on the renames of a session.                        *)

\* The texts are trees of memefish with a name for each token.
ASSUME WorkspaceAssumption ==
  LET texts == UNION {{w[p] : p \in Paths} : w \in Workspaces}
  IN /\ \A t \in texts :
          /\ t = [queries |-> t.queries, relations |-> t.relations, quoted |-> t.quoted,
                  names |-> t.names]
          /\ t.names \in [DOMAIN t.names -> Names]
     /\ \A tree \in {<< t.queries, t.relations, DOMAIN t.names >> : t \in texts} :
          WellFormed(tree[1], tree[2], tree[3])

VARIABLES
  documents, (* path -> its snapshot                                       *)
  renamed    (* the renames applied, with the tokens they edited             *)

vars == << documents, renamed >>

(***************************************************************************)
(* The binding at a token                                                  *)
(***************************************************************************)
IndexOf(s, kind) ==
  CASE kind = "cte" -> s.ctes
    [] kind = "cteColumn" -> s.cteColumns
    [] kind = "derivedColumn" -> s.derivedColumns
    [] kind = "alias" -> s.aliases.bindings
    [] kind = "selectAlias" -> s.selectAliases.bindings

\* The kind of the first index, in a given order, with a site at the token.
NoKind == "none"
KindAtPosition(s, order, x) ==
  LET i == SelectInSeq(order, LAMBDA kind : SiteAtPosition(IndexOf(s, kind), x) # 0)
  IN IF i = 0 THEN NoKind ELSE order[i]

BindingAt(s, kind, x) == IndexOf(s, kind)[SiteAtPosition(IndexOf(s, kind), x)]

AmbiguousAtPosition(s, x) == x \in s.selectAliases.ambiguous

\* Mutants: the result of a SELECT before the column it is; members only.
ResultsFirst == << "alias", "selectAlias", "cteColumn", "derivedColumn" >>
ResultsBeforeColumns == << "cte", "selectAlias", "cteColumn", "derivedColumn", "alias" >>
NoOrder == << >>

\* The orders in which the requests ask the indexes.
ReferenceOrder == << "cte", "cteColumn", "derivedColumn", "alias", "selectAlias" >>
DefinitionOrder == << "cte", "alias", "selectAlias" >>
RenameOrder == << "alias", "cteColumn", "derivedColumn", "selectAlias" >>
TypeOrder == << "cteColumn", "derivedColumn" >>

At(p, tokens) == {p} \X tokens

\* Whether the binding may be asked about: one of several of the same name in
\* one place may not.
Ambiguous(kind, b) == kind \in {"alias", "selectAlias"} /\ b.ambiguous

(***************************************************************************)
(* Requests that read                                                      *)
(***************************************************************************)
References(docs, p, x, includeDeclaration) ==
  LET s == docs[p]
      kind == KindAtPosition(s, ReferenceOrder, x)
      b == BindingAt(s, kind, x)
      names == {keys \in RelationNameAtPosition(s.text, x) :
                  RelationDefinitionLocations(docs, keys) # {}}
  IN CASE AmbiguousAtPosition(s, x) -> {}
       [] ~AmbiguousAtPosition(s, x) /\ kind # NoKind ->
            IF Ambiguous(kind, b) THEN {}
            ELSE At(p, IF includeDeclaration THEN Sites(b) ELSE b.refs)
       [] OTHER -> UNION {RelationReferenceLocations(docs, keys)
                            \cup (IF includeDeclaration THEN RelationDefinitionLocations(docs, keys)
                                  ELSE {}) : keys \in names}

\* What is no binding is highlighted wherever the name is written.
DocumentHighlight(docs, p, x) ==
  LET s == docs[p]
      kind == KindAtPosition(s, ReferenceOrder, x)
  IN IF AmbiguousAtPosition(s, x) \/ kind # NoKind THEN References(docs, p, x, TRUE)
     ELSE At(p, {y \in Tokens(s.text) : Key(s.text, y) = Key(s.text, x)})

\* A result without AS declares nothing: it is looked up as what it is.
ImplicitAt(kind, b, x) == kind = "selectAlias" /\ ~b.ambiguous /\ ~b.explicit /\ x = b.at

Definition(docs, p, x) ==
  LET s == docs[p]
      kind == KindAtPosition(s, DefinitionOrder, x)
      b == BindingAt(s, kind, x)
      members == MemberAtPosition(s.aliases, x)
      implicit == ImplicitAt(kind, b, x)
  IN CASE AmbiguousAtPosition(s, x) -> {}
       [] ~AmbiguousAtPosition(s, x) /\ kind # NoKind /\ ~implicit ->
            IF Ambiguous(kind, b) THEN {} ELSE {<< p, b.at >>}
       [] ~AmbiguousAtPosition(s, x) /\ (kind = NoKind \/ implicit) /\ members # {} ->
            UNION {{<< c.path, c.column.at >> : c \in MemberColumn(docs, p, m)} : m \in members}
       [] OTHER -> UNION {RelationDefinitionLocations(docs, keys) :
                            keys \in RelationNameAtPosition(s.text, x)}

\* A column of a table is its type; anything else that is no member is the type of
\* the only table column of that name.
TypeDefinition(docs, p, x) ==
  LET s == docs[p]
      kind == KindAtPosition(s, TypeOrder, x)
      members == MemberAtPosition(s.aliases, x)
      columns == IF kind # NoKind
                 THEN {[kind |-> "query", path |-> p, column |-> BindingAt(s, kind, x).column]}
                 ELSE UNION {MemberColumn(docs, p, m) : m \in members}
  IN CASE AmbiguousAtPosition(s, x) -> {}
       [] ~AmbiguousAtPosition(s, x) /\ (kind # NoKind \/ members # {}) ->
            UNION {IF c.kind = "table" THEN {<< c.path, c.column.type >>}
                   ELSE QueryColumnTypes(docs)[c.path, c.column, {}] : c \in columns}
       [] OTHER -> OnlyOne(ColumnDefinitionMatches(docs, Key(s.text, x)))

\* What Hover shows: a column, the only table or view of a name, or else the only
\* table column of that name, whatever it is that has the name there.
Hover(docs, p, x) ==
  LET s == docs[p]
      members == MemberAtPosition(s.aliases, x)
      relations == {keys \in RelationNameAtPosition(s.text, x) :
                      /\ IsSimplePath(keys)
                      /\ Cardinality(RelationDefinitionLocations(docs, keys)) = 1}
      columns(q) == UNION {{<< q, c.at >> : c \in {d \in ToSet(r.cols) :
                              Key(docs[q].text, d.at) = Key(s.text, x)}}
                           : r \in OfKind(docs[q].text, {"create_table"})}
  IN CASE AmbiguousAtPosition(s, x) -> {}
       [] ~AmbiguousAtPosition(s, x) /\ members # {} ->
            UNION {{<< c.path, c.column.at >> : c \in MemberColumn(docs, p, m)} : m \in members}
       [] ~AmbiguousAtPosition(s, x) /\ members = {} /\ relations # {} ->
            UNION {RelationDefinitionLocations(docs, keys) : keys \in relations}
       [] OTHER -> OnlyOne(UNION {columns(q) : q \in Paths})

\* A mutant: the declaration is counted, too.
LensOfSites(docs, p) == {[at |-> b.at, count |-> Cardinality(Sites(b))] : b \in ToSet(docs[p].ctes)}

\* The lens of a declaration: how often it is referred to, nothing for never.
CodeLens(docs, p) ==
  LET s == docs[p]
      relations == {r \in OfKind(s.text, {"create_table", "create_view"}) : IsSimplePath(r.path)}
      lens(x, references) == [at |-> x, count |-> Cardinality(references)]
  IN {l \in {lens(r.path[1], RelationReferenceLocations(docs, Keys(s.text, r.path))) : r \in relations}
              \cup {lens(b.at, b.refs) : b \in ToSet(s.ctes)} : l.count # 0}

\* A mutant: a table is preferred to a view of its name.
TableColumnsFirst(docs, p, b) ==
  LET s == docs[p]
      shape == IF b.source.cte # 0 THEN s.ctes[b.source.cte].shape ELSE b.source.shape
      tables == FactMatches(docs, "create_table", b.source.table)
  IN IF b.source.cte # 0 \/ b.source.shape.shapeKnown
     THEN [known |-> shape.shapeKnown, keys |-> {Key(s.text, c.at) : c \in ToSet(shape.columns)}]
     ELSE [known |-> tables # {},
           keys |-> UNION {{Key(docs[m.path].text, c.at) : c \in ToSet(m.relation.cols)}
                           : m \in tables}]

\* What is known of the columns of an alias: their names, or nothing.
KnownColumns(docs, p, b) ==
  LET s == docs[p]
      shape == IF b.source.cte # 0 THEN s.ctes[b.source.cte].shape ELSE b.source.shape
      tables == FactMatches(docs, "create_table", b.source.table)
      views == FactMatches(docs, "create_view", b.source.table)
      keys(path, columns) == {Key(docs[path].text, c.at) : c \in ToSet(columns)}
  IN CASE b.source.cte # 0 \/ b.source.shape.shapeKnown ->
            [known |-> shape.shapeKnown, keys |-> keys(p, shape.columns)]
       [] /\ b.source.cte = 0 /\ b.source.table # << >>
          /\ Cardinality(tables) + Cardinality(views) = 1 ->
            [known |-> views = {} \/ \E v \in views : ViewShape(docs, v).shapeKnown,
             keys |-> UNION ({keys(m.path, m.relation.cols) : m \in tables}
                               \cup {keys(m.path, ViewShape(docs, m).columns) : m \in views})]
       [] OTHER -> [known |-> FALSE, keys |-> {}]

\* The columns completion offers after a qualifier, before the member x.
AliasMemberCompletionItems(docs, p, qualifier, x) ==
  LET s == docs[p]
      alias == BindingAtPosition(s.text, s.aliases, Key(s.text, qualifier), qualifier)
  IN IF AmbiguousAtPosition(s, qualifier) \/ AmbiguousAtPosition(s, x) \/ alias = NoToken THEN {}
     ELSE KnownColumns(docs, p, BindingOf(s.aliases.bindings, alias)).keys

\* The members that are diagnosed as columns their source does not have.
UnknownColumns(docs, p) ==
  LET s == docs[p]
      columns(m) == KnownColumns(docs, p, BindingOf(s.aliases.bindings, m.alias))
  IN {m.at : m \in {n \in s.aliases.members :
        /\ ~AmbiguousAtPosition(s, n.at) /\ columns(n).known
        /\ Key(s.text, n.at) \notin columns(n).keys}}

(***************************************************************************)
(* Requests that change a name                                             *)
(***************************************************************************)
\* The plan for the table or view at a token: a view before a table.
RelationPlan(docs, p, x) ==
  LET t == docs[p].text
      at(sites, plan) == IF x \in sites \ Quoted(t) THEN plan ELSE [sites |-> {}, ok |-> FALSE]
      orElse(plan, other) == IF plan.ok THEN plan ELSE other
  IN orElse(at(ViewSites(t), ViewRefactorPlan(docs, Key(t, x))),
            at(TableSites(t), TableRefactorPlan(docs, Key(t, x))))

\* What the three requests have in common: what can be renamed at a token, and
\* where it is written.
RenameTarget(docs, p, x) ==
  LET s == docs[p]
      kind == KindAtPosition(s, RenameOrder, x)
      target(ok, k, sites) == IF ok THEN [kind |-> k, sites |-> sites]
                              ELSE [kind |-> NoKind, sites |-> {}]
      ofBinding(b) == target(~b.ambiguous /\ b.explicit, kind, At(p, Sites(b)))
      ofPlan(plan) == target(plan.ok, "relation", plan.sites)
  IN CASE AmbiguousAtPosition(s, x) -> target(FALSE, NoKind, {})
       [] ~AmbiguousAtPosition(s, x) /\ kind # NoKind -> ofBinding(BindingAt(s, kind, x))
       [] OTHER -> ofPlan(RelationPlan(docs, p, x))

PrepareRename(docs, p, x) == RenameTarget(docs, p, x).kind # NoKind

RenameConflicts(docs, p, x, kind, name) ==
  LET s == docs[p]
      key == Fold[name]
      b == BindingAt(s, kind, x)
  IN CASE kind = "alias" -> AliasRenameConflicts(s.aliases, b, key)
       [] kind \in {"cteColumn", "derivedColumn"} ->
            ColumnRenameConflicts(s.text, IndexOf(s, kind), b, key)
       [] kind = "selectAlias" ->
            SelectAliasRenameConflicts(s.text, s.selectAliases.bindings, b, key)
       [] kind = "relation" -> Key(s.text, x) # key /\ HasSimpleRelationDeclaration(docs, key)

\* The tokens a rename edits: none if there is nothing to rename or the name is
\* taken.
RenameEdits(docs, p, x, name) ==
  LET edits(target) ==
        IF target.kind = NoKind THEN {}
        ELSE IF RenameConflicts(docs, p, x, target.kind, name) THEN {} ELSE target.sites
  IN edits(RenameTarget(docs, p, x))

\* The tokens edited together as one is typed in: for a table or a view, those of
\* this document that are spelled the same.
LinkedEditingRange(docs, p, x) ==
  LET name(y) == docs[p].text.names[y]
      ranges(target) ==
        {n[2] : n \in {m \in target.sites :
                         target.kind = "relation" => m[1] = p /\ name(m[2]) = name(x)}}
      severalOf(tokens) == IF Cardinality(tokens) < 2 THEN {} ELSE tokens
  IN severalOf(ranges(RenameTarget(docs, p, x)))

(***************************************************************************)
(* Sessions                                                                *)
(***************************************************************************)
Init == /\ \E w \in Workspaces : documents = [p \in Paths |-> ParseDocumentSnapshot(w[p])]
        /\ renamed = << >>

\* The documents after edits of some tokens, the others as they were.
Edited(edits, name) ==
  [p \in Paths |->
     LET here == {n[2] : n \in {e \in edits : e[1] = p}}
     IN IF here = {} THEN documents[p]
        ELSE ParseDocumentSnapshot(Rewrite(documents[p].text, here, name))]

\* The editor asks to rename what is at a token, and gets edits.
Rename(p, x, name) ==
  \E edits \in {RenameEdits(documents, p, x, name)} :
    /\ Len(renamed) < MaxRenames
    /\ edits # {}
    /\ name # documents[p].text.names[x]
    /\ documents' = Edited(edits, name)
    /\ renamed' = Append(renamed, [kind |-> RenameTarget(documents, p, x).kind, name |-> name,
                                   edits |-> edits])

Next ==
  \E p \in Paths : \E x \in Tokens(documents[p].text), name \in Names :
    Rename(p, x, name)

Spec == Init /\ [][Next]_vars

(***************************************************************************)
(* Properties                                                              *)
(***************************************************************************)
ColumnKinds == {"cteColumn", "derivedColumn"}
BindingKinds == ColumnKinds \cup {"cte", "alias", "selectAlias"}

\* The bindings of columns that a token is a site of, by kind and place.
ColumnsAt(s, x) ==
  UNION {{<< kind, i >> : i \in {j \in DOMAIN IndexOf(s, kind) : x \in Sites(IndexOf(s, kind)[j])}}
         : kind \in ColumnKinds}

\* A token that is a column of one query and, selected without AS, declares a
\* column of another.
Reexported(s, x) == Cardinality(ColumnsAt(s, x)) > 1

\* A token that asks for a column of a CTE or of a query in a FROM.
AsksColumn(s, x) == \E kind \in ColumnKinds : \E b \in ToSet(IndexOf(s, kind)) : x \in b.refs

\* A name of several identifiers is answered as one place, that of the first.
PlacesOf(t, x) ==
  {x} \cup {r.path[1] : r \in {n \in OfKind(t, {"create_table", "create_view"}) \cup FromNames(t) :
                                x \in ToSet(n.path)}}

\* A token that is selected without AS, and so names a result.
NamesResult(s, x) == \E b \in ToSet(s.selectAliases.bindings) : b.at = x /\ ~b.explicit

\* A token that asks for a result which is selected without AS and is no column of
\* a CTE or of a query in a FROM.
AsksResult(s, x) ==
  /\ ColumnsAt(s, x) = {}
  /\ \E b \in ToSet(s.selectAliases.bindings) : x \in b.refs /\ ~b.explicit

\* A member of a table or a view.
MemberOfRelation(s, x) ==
  \E m \in MemberAtPosition(s.aliases, x) :
    BindingOf(s.aliases.bindings, m.alias).source.table # << >>

\* The sites of an index are tokens of the text, spelled like their declaration,
\* and a token is a site of one CTE, alias or result at most.
TypeOK ==
  \A p \in Paths : \A kind \in BindingKinds :
    LET s == documents[p]
        index == IndexOf(s, kind)
    IN /\ \A i \in DOMAIN index : \A x \in Sites(index[i]) :
            x \in Tokens(s.text) /\ Key(s.text, x) = Key(s.text, index[i].at)
       /\ kind \notin ColumnKinds =>
            \A i, j \in DOMAIN index : i # j => Sites(index[i]) \cap Sites(index[j]) = {}

\* A rename can be started from each place it edits, with the same outcome, edits
\* all that References lists, and covers what is edited while typing.  At a name
\* bound to a CTE, Rename offers a view of that name: it edits other places.
RenameAgreesWithReferences ==
  \A p \in Paths : \A x \in Tokens(documents[p].text) :
    LET s == documents[p]
        target == RenameTarget(documents, p, x)
    IN PrepareRename(documents, p, x) /\ ~BindsReference(s.ctes, x) =>
         /\ << p, x >> \in target.sites
         /\ At(p, LinkedEditingRange(documents, p, x)) \subseteq target.sites
         /\ References(documents, p, x, TRUE) \subseteq target.sites
         /\ \A n \in target.sites :
              \/ RenameTarget(documents, n[1], n[2]) = target
              \/ AmbiguousAtPosition(documents[n[1]], n[2])
              \/ Reexported(documents[n[1]], n[2])

\* Where Definition goes, References comes back, and so do the highlights of the
\* document, except from the column of a table or a view and from a result without
\* AS that is a column of another query: there References answers for that column.
DefinitionInvertsReferences ==
  \A p \in Paths : \A x \in Tokens(documents[p].text) :
    \A d \in Definition(documents, p, x) :
      \/ MemberOfRelation(documents[p], x)
      \/ AsksColumn(documents[d[1]], d[2])
      \/ LET found(places) == At(p, PlacesOf(documents[p].text, x)) \cap places # {}
         IN /\ found(References(documents, d[1], d[2], TRUE))
            /\ p = d[1] => found(DocumentHighlight(documents, d[1], d[2]))

\* Completion, which finds the alias by position, sees the alias that the index
\* found by scope; Definition finds what completion offers, unless the table has two
\* columns of the name, and nothing else unless the table or view is declared twice;
\* Hover shows what Definition finds, at a simple name of a table or a view also, unless
\* a CTE binds it; a column diagnosed as unknown has no definition.
MembersAgree ==
  \A p \in Paths :
    LET s == documents[p]
        t == s.text
        declaredTwice(alias) ==
          LET keys == BindingOf(s.aliases.bindings, alias).source.table
          IN Cardinality(RelationDefinitionLocations(documents, keys)) > 1
        columnTwice(alias, key) ==
          LET keys == BindingOf(s.aliases.bindings, alias).source.table
          IN \E m \in FactMatches(documents, "create_table", keys) :
               \E c, d \in {e \in ToSet(m.relation.cols) :
                              Key(documents[m.path].text, e.at) = key} : c # d
        ambiguousResult(x) ==
          \E b \in ToSet(s.selectAliases.bindings) : b.at = x /\ b.ambiguous
        shown(x) == Hover(documents, p, x)
        defined(x) == Definition(documents, p, x)
        relations == {f.path[1] : f \in {g \in FromNames(t) : IsSimplePath(g.path)}}
    IN /\ \A x \in {y \in relations : ~BindsReference(s.ctes, y)} :
            Cardinality(defined(x)) = 1 => shown(x) = defined(x)
       /\ \A q \in DOMAIN Queries(t) : \A w \in {v \in QualifiedPaths(t, q) : Len(v.path) >= 2} :
            LET z == w.path[1]
                x == w.path[2]
                alias == Lookup(s.aliases.scopes[q], Key(t, z))
                offered == Key(t, x) \in AliasMemberCompletionItems(documents, p, z, x)
            IN /\ x \in UnknownColumns(documents, p) => defined(x) = {}
               /\ BindingAtPosition(t, s.aliases, Key(t, z), z) = alias
               /\ (alias # NoToken /\ ~AmbiguousAtPosition(s, z) /\ ~ambiguousResult(x)) =>
                    /\ shown(x) = defined(x)
                    /\ offered => defined(x) # {} \/ columnTwice(alias, Key(t, x))
                    /\ defined(x) # {} => offered \/ declaredTwice(alias)

\* The type of a column asked for is the type of the column it is defined as: the
\* two are looked up in different ways.  Not so in an ORDER BY, where a result without
\* AS is the definition of its name, and its type is that of the name alone.
TypesFollowDefinitions ==
  \A p \in Paths : \A x \in {y \in Tokens(documents[p].text) : ~AsksResult(documents[p], y)} :
    \A d \in Definition(documents, p, x) :
      (\E kind \in ColumnKinds : SiteAtPosition(IndexOf(documents[d[1]], kind), d[2]) # 0) =>
        TypeDefinition(documents, p, x) = TypeDefinition(documents, d[1], d[2])

\* A lens counts what References lists, and the declaration of a name that is no path
\* has one if and only if there is something to list.
LensesCountReferences ==
  \A p \in Paths :
    LET s == documents[p]
        relations == {r \in OfKind(s.text, {"create_table", "create_view"}) : IsSimplePath(r.path)}
        declared == {b.at : b \in ToSet(s.ctes)} \cup {r.path[1] : r \in relations}
    IN \A x \in declared :
         {l.count : l \in {k \in CodeLens(documents, p) : k.at = x}}
           = {Cardinality(References(documents, p, x, FALSE))} \ {0}

\* The outline lists a CTE under the innermost one that contains it.
OutlineNestsCTEs ==
  \A p \in Paths : \A b \in ToSet(documents[p].ctes) :
    LET around == {a \in ToSet(documents[p].ctes) : a # b /\ RangeContains(a, b)}
    IN CTEParents(documents[p].ctes)[b.at] =
         IF around = {} THEN NoToken ELSE Max({a.at : a \in around})

Bindings(docs, p, kind) == {<< b.at, b.refs >> : b \in ToSet(IndexOf(docs[p], kind))}

\* No text has the name.
Fresh(name) ==
  \A p \in Paths : \A x \in Tokens(documents[p].text) : Key(documents[p].text, x) # Fold[name]

\* A rename to a name that is new everywhere leaves every binding as it was: what
\* referred to a declaration refers to it, nothing else does.  A column that is
\* selected without AS takes its results and the columns they declare with it.
FreshRenameKeepsBindings ==
  [][LET r == Last(renamed')
         edited(P(_, _)) == \E n \in r.edits : P(documents[n[1]], n[2])
     IN Fresh(r.name) =>
          /\ ~edited(Reexported) =>
               \A p \in Paths : \A kind \in BindingKinds \ {"selectAlias"} :
                 Bindings(documents', p, kind) = Bindings(documents, p, kind)
          /\ ~edited(NamesResult) =>
               \A p \in Paths :
                 /\ Bindings(documents', p, "selectAlias") = Bindings(documents, p, "selectAlias")
                 /\ \A x \in Tokens(documents[p].text) :
                      ~MemberOfRelation(documents[p], x) =>
                        Definition(documents', p, x) = Definition(documents, p, x)]_vars

\* Whatever name the server accepts for a table alias, no reference to any alias
\* is taken over by another, as long as no alias was declared twice.
AliasRenameCapturesNothing ==
  [][LET index(docs, p) == docs[p].aliases.bindings
         unique(p) == \A i \in DOMAIN index(documents, p) : ~index(documents, p)[i].ambiguous
     IN Last(renamed').kind = "alias" =>
          \A p \in {f \in Paths : unique(f)} : \A i \in DOMAIN index(documents, p) :
            index(documents, p)[i].refs \subseteq index(documents', p)[i].refs]_vars
================================================================================
