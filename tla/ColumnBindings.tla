----------------------------- MODULE ColumnBindings ----------------------------
(***************************************************************************)
(* The columns of CTEs (src/cte_column_bindings.go) and of queries in a    *)
(* FROM (src/derived_column_bindings.go): where they are declared and      *)
(* asked for, and the index of a document (src/document_store.go).         *)
(***************************************************************************)
EXTENDS AliasBindings

\* A mutant: the members of the aliases, whatever their names.
AnyMember(t, i, shape, aliases, selectAliases, owners) ==
  [k \in DOMAIN shape.columns |->
     [at |-> shape.columns[k].at, scope |-> i, explicit |-> shape.columns[k].explicit,
      ambiguous |-> FALSE, column |-> shape.columns[k],
      refs |-> {m.at : m \in {n \in aliases.members : n.alias \in owners}}]]

\* The columns of the i-th CTE or alias.  A column is asked for as a member of some
\* aliases, and as a result of its own SELECT.
ColumnBindingsOf(t, i, shape, aliases, selectAliases, owners) ==
  LET members(c) == {m.at : m \in {n \in aliases.members :
                       n.alias \in owners /\ Key(t, n.at) = Key(t, c.at)}}
      results(c) == UNION {b.refs : b \in {s \in ToSet(selectAliases.bindings) : s.at = c.at}}
  IN [k \in DOMAIN shape.columns |->
        LET c == shape.columns[k]
        IN [at |-> c.at, scope |-> i, explicit |-> c.explicit, ambiguous |-> FALSE,
            column |-> c, refs |-> members(c) \cup results(c)]]

ExtractCTEColumnIndex(t, ctes, aliases, selectAliases) ==
  FlattenSeq([i \in DOMAIN ctes |->
    ColumnBindingsOf(t, i, ctes[i].shape, aliases, selectAliases,
                     {b.at : b \in {a \in ToSet(aliases.bindings) : a.source.cte = i}})])

\* An alias that is declared twice has no columns.
ExtractDerivedColumnIndex(t, aliases, selectAliases) ==
  FlattenSeq([i \in DOMAIN aliases.bindings |->
    LET b == aliases.bindings[i]
    IN ColumnBindingsOf(t, i, IF b.ambiguous THEN NoColumns ELSE b.source.shape,
                        aliases, selectAliases, {b.at})])

ColumnRenameConflicts(t, index, b, key) ==
  \E i \in DOMAIN index : /\ index[i].scope = b.scope /\ index[i].at # b.at
                          /\ Key(t, index[i].at) = key

\* The indexes of a snapshot, each made of those before it.
ParseDocumentSnapshot(t) ==
  LET columns(ctes, aliases, selectAliases) ==
        [text |-> t, ctes |-> ctes, aliases |-> aliases, selectAliases |-> selectAliases,
         cteColumns |-> ExtractCTEColumnIndex(t, ctes, aliases, selectAliases),
         derivedColumns |-> ExtractDerivedColumnIndex(t, aliases, selectAliases)]
      results(ctes, aliases) == columns(ctes, aliases, ExtractSelectAliasIndex(t, aliases))
      members(ctes) == results(ctes, ExtractAliasIndex(t, ctes))
  IN members(ExtractCTEIndex(t))
================================================================================
