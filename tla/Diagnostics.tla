------------------------------ MODULE Diagnostics ------------------------------
(***************************************************************************)
(* Pull diagnostics: the Diagnostic and DiagnosticWorkspace requests       *)
(* (src/handler.go) over the diagnostics and result ids that               *)
(* src/semantic_diagnostics.go computes.                                   *)
(*                                                                         *)
(* A text is what the diagnostics see of it: the tables and views it       *)
(* declares (the facts of src/ddl_facts.go), the members alias.column it   *)
(* uses, and the diagnostics that depend on nothing else (syntax errors,   *)
(* ordinals, duplicate names).  What is hashed stands for its hash.        *)
(*                                                                         *)
(* A request reads its snapshots in one critical section and computes each *)
(* report in one of its own, under the schema of that moment; the store    *)
(* may change in between.  The client has one request out at a time, in    *)
(* which it names the result id it holds for each document.                *)
(***************************************************************************)
EXTENDS Naturals, Sequences

CONSTANTS
  Paths,     (* The file paths of the documents.                           *)
  Texts,     (* The contents a document may have.                          *)
  EmptyText, (* The content of a document that has none.                   *)
  NoText,    (* What documents holds for a path that is not tracked.       *)
  NoReport,  (* What the client holds for a document it never pulled.      *)
  NoPull,    (* No request is being handled.                               *)
  Names,     (* The names of tables and views.                             *)
  Columns,   (* The names of columns.                                      *)
  Places,    (* The places in a text.                                      *)
  MaxChanges (* Bound on the changes of the store in a behaviour.          *)

Kinds == {"table", "view"}

Declarations == [name : Names, columns : SUBSET Columns, shapeKnown : BOOLEAN,
                 at : Places]

\* Where a member looks for its column: in a CTE or a derived table of the
\* same text, or in whatever table or view has the name.
Sources == [kind : {"cte", "derived"}, declaration : Declarations]
             \cup [kind : {"named"}, name : Names]

Members == [column : Columns, at : Places, ambiguous : BOOLEAN, source : Sources]

\* The columns of a table are always known; a view whose columns are known has
\* one at least.
ASSUME DiagnosticsAssumption ==
  /\ EmptyText \in Texts
  /\ NoText \notin Texts
  /\ \A t \in Texts :
       /\ t.facts \in [Kinds -> Seq(Declarations)]
       /\ t.members \in SUBSET Members
       /\ \A i \in 1 .. Len(t.facts["table"]) : t.facts["table"][i].shapeKnown
       /\ \A i \in 1 .. Len(t.facts["view"]) :
            t.facts["view"][i].shapeKnown => t.facts["view"][i].columns # {}

ASSUME BoundAssumption == MaxChanges \in Nat

VARIABLES
  documents, (* path -> the text of the stored snapshot, or NoText         *)
  held,      (* path -> the report the client holds, or NoReport           *)
  pull,      (* the request being handled, or NoPull                       *)
  changes    (* number of changes of the store                             *)

vars == << documents, held, pull, changes >>

Stores == [Paths -> Texts \cup {NoText}]

\* Mutant: a missing snapshot is used as it is.
TextOfSnapshot(d, p) == d[p]

\* A path without a snapshot is parsed from the empty string.
TextOf(d, p) == IF d[p] = NoText THEN EmptyText ELSE d[p]

Tracked(d) == {p \in Paths : d[p] # NoText}

------------------------------------------------------------------------------
(* What a document is told, under the schema of the store d.               *)

Facts(d, p, k) == TextOf(d, p).facts[k]

\* The declarations of the tracked documents: kind, path, place in the facts.
Declared(d) ==
  UNION {{<< k, p, i >> : i \in 1 .. Len(Facts(d, p, k))} : k \in Kinds, p \in Tracked(d)}

DeclarationAt(d, l) == Facts(d, l[2], l[1])[l[3]]

FactMatches(d, n) == {l \in Declared(d) : DeclarationAt(d, l).name = n}

Lacks(declaration, column) ==
  declaration.shapeKnown /\ column \notin declaration.columns

UnknownColumn(m, kind, path, declaration) ==
  [member |-> m, kind |-> kind, path |-> path, declaredAt |-> declaration.at]

\* Members of the text's own CTEs and derived tables.
MissingLocally(t) ==
  {m \in t.members : /\ ~m.ambiguous
                     /\ m.source.kind # "named"
                     /\ Lacks(m.source.declaration, m.column)}

UnknownLocally(p, t) ==
  {UnknownColumn(m, m.source.kind, p, m.source.declaration) : m \in MissingLocally(t)}

\* Member m looks into the one table or view that has the name, in whichever
\* document, and location l is it.
Misses(d, m, l) ==
  /\ ~m.ambiguous
  /\ m.source.kind = "named"
  /\ FactMatches(d, m.source.name) = {l}
  /\ Lacks(DeclarationAt(d, l), m.column)

MissingIn(t, d) == {x \in t.members \X Declared(d) : Misses(d, x[1], x[2])}

UnknownInSchema(t, d) ==
  {UnknownColumn(x[1], x[2][1], x[2][2], DeclarationAt(d, x[2])) : x \in MissingIn(t, d)}

Items(p, t, d) ==
  [own |-> t.own, unknown |-> UnknownLocally(p, t) \cup UnknownInSchema(t, d)]

------------------------------------------------------------------------------
(* What a result id is the hash of: the text, and what there is to know of *)
(* the schema.                                                             *)

SchemaEntry(declaration) ==
  [name |-> declaration.name,
   columns |-> IF declaration.shapeKnown THEN declaration.columns ELSE {}]

\* Mutant: the schema's names only.
FingerprintOfNames(d) ==
  [p \in Paths |-> [k \in Kinds |->
     IF p \in Tracked(d)
     THEN [i \in 1 .. Len(Facts(d, p, k)) |-> Facts(d, p, k)[i].name]
     ELSE << >>]]

Fingerprint(d) ==
  [p \in Paths |-> [k \in Kinds |->
     IF p \in Tracked(d)
     THEN [i \in 1 .. Len(Facts(d, p, k)) |-> SchemaEntry(Facts(d, p, k)[i])]
     ELSE << >>]]

\* Mutant: the text only.
ResultIDOfText(t, d) == << t >>

ResultID(t, d) == << t, Fingerprint(d) >>

Report(p, t, d) == [id |-> ResultID(t, d), items |-> Items(p, t, d)]

------------------------------------------------------------------------------
Init ==
  /\ documents = [p \in Paths |-> NoText]
  /\ held = [p \in Paths |-> NoReport]
  /\ pull = NoPull
  /\ changes = 0

\* A request that has read its snapshots.  overtaken is history: the store has
\* changed since.
Begun(workspace, snapshots) ==
  [workspace |-> workspace, snapshots |-> snapshots,
   reports |-> [p \in {} |-> NoReport], overtaken |-> FALSE]

\* The textDocument/diagnostic request for path p.
Diagnostic(p) ==
  /\ pull = NoPull
  /\ pull' = Begun(FALSE, [q \in {p} |-> TextOf(documents, q)])
  /\ UNCHANGED << documents, held, changes >>

\* The workspace/diagnostic request.
DiagnosticWorkspace ==
  /\ pull = NoPull
  /\ pull' = Begun(TRUE, [q \in Tracked(documents) |-> documents[q]])
  /\ UNCHANGED << documents, held, changes >>

\* One report: the diagnostics of the snapshot under the schema of now.
ComputeReport(p) ==
  /\ pull # NoPull
  /\ p \in DOMAIN pull.snapshots \ DOMAIN pull.reports
  /\ LET report == Report(p, pull.snapshots[p], documents)
     IN  pull' = [pull EXCEPT !.reports = [q \in {p} \cup DOMAIN pull.reports |->
                    IF q = p THEN report ELSE pull.reports[q]]]
  /\ UNCHANGED << documents, held, changes >>

\* A report is "unchanged" if the client named its result id.
Unchanged(p) == held[p] # NoReport /\ held[p].id = pull.reports[p].id

\* All reports are made and sent; the client replaces what it holds by each
\* that is not "unchanged".
Reply ==
  /\ pull # NoPull
  /\ DOMAIN pull.reports = DOMAIN pull.snapshots
  /\ held' = [p \in Paths |-> IF p \in DOMAIN pull.reports /\ ~Unchanged(p)
                              THEN pull.reports[p] ELSE held[p]]
  /\ pull' = NoPull
  /\ UNCHANGED << documents, changes >>

\* The client gave up a workspace request before its last report.
Cancel ==
  /\ pull # NoPull
  /\ pull.workspace
  /\ DOMAIN pull.reports # DOMAIN pull.snapshots
  /\ pull' = NoPull
  /\ UNCHANGED << documents, held, changes >>

\* Another handler changes the store: a snapshot is installed or forgotten
\* (SyncHandlers has how).
StoreChange(p, t) ==
  /\ changes < MaxChanges
  /\ t # documents[p]
  /\ documents' = [documents EXCEPT ![p] = t]
  /\ pull' = IF pull = NoPull THEN NoPull ELSE [pull EXCEPT !.overtaken = TRUE]
  /\ changes' = changes + 1
  /\ UNCHANGED held

Next ==
  \/ \E p \in Paths : Diagnostic(p) \/ ComputeReport(p)
  \/ DiagnosticWorkspace \/ Reply \/ Cancel
  \/ \E p \in Paths, t \in Texts \cup {NoText} : StoreChange(p, t)

Spec == Init /\ [][Next]_vars

------------------------------------------------------------------------------
IsReport(r) ==
  /\ DOMAIN r = {"id", "items"} /\ DOMAIN r.items = {"own", "unknown"}
  /\ r.id[1] \in Texts
  /\ r.items.own = r.id[1].own
  /\ \A x \in r.items.unknown : x.member \in r.id[1].members /\ x.path \in Paths

IsPull(r) ==
  /\ r.workspace \in BOOLEAN /\ r.overtaken \in BOOLEAN
  /\ DOMAIN r.snapshots \in SUBSET Paths
  /\ DOMAIN r.reports \in SUBSET DOMAIN r.snapshots
  /\ \A p \in DOMAIN r.snapshots : r.snapshots[p] \in Texts
  /\ \A p \in DOMAIN r.reports : IsReport(r.reports[p])

(* The types: what is reported belongs to the text the result id names,    *)
(* and reports are made for the snapshots of the request.                  *)
TypeOK ==
  /\ documents \in Stores
  /\ DOMAIN held = Paths
  /\ \A p \in Paths : held[p] = NoReport \/ IsReport(held[p])
  /\ pull = NoPull \/ IsPull(pull)
  /\ changes \in 0 .. MaxChanges

\* Diagnostics but for the place of the declaration they point to.
Unplaced(items) ==
  [own |-> items.own, unknown |-> {<< x.member, x.kind, x.path >> : x \in items.unknown}]

(* A report is called "unchanged" only if the client holds the diagnostics *)
(* that were computed for it, up to the place of the declaration in their  *)
(* related information: however the schema changed between two requests,   *)
(* or within one, the result id tells.                                     *)
UnchangedMeansSame ==
  pull # NoPull => \A p \in DOMAIN pull.reports :
    Unchanged(p) => Unplaced(held[p].items) = Unplaced(pull.reports[p].items)

(* The same with the place: the client is not left with a link to where a  *)
(* declaration used to be.                                                 *)
UnchangedMeansIdentical ==
  pull # NoPull => \A p \in DOMAIN pull.reports :
    Unchanged(p) => held[p].items = pull.reports[p].items

(* Whatever the client held before, also from a request that the store     *)
(* overtook, a request during which the store did not change leaves it     *)
(* with the diagnostics of now for every document it asked for.            *)
PulledIsCurrent == [][
  Reply /\ ~pull.overtaken => \A p \in DOMAIN pull.snapshots :
    Unplaced(held'[p].items) = Unplaced(Items(p, TextOf(documents, p), documents))
  ]_vars
================================================================================
