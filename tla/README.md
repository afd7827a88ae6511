# Verification of memefish-lsp

memefish-lsp is a language server for Spanner GoogleSQL: an editor sends it
documents, files and folders over JSON-RPC, it parses them with memefish and
answers with diagnostics, navigation, completion and edits. This directory holds
TLA+ modules that model its stateful core and the algorithms behind its requests, the
TLC configurations that check them on small instances, and proofs checked by TLAPS. References such as
`document_store.go:103` are to the repository's source.

## 1. Inventory

| Part | Source | State | Operations |
| --- | --- | --- | --- |
| Document store | `document_store.go` | six maps by path (snapshot, newest revision, content, statements, open, indexed) under `fileContentMu` | reserve a revision, install a snapshot, forget, set origin, look up |
| Synchronization and publication | `document_store.go`, `handler.go:2556-2709` | the diagnostics the client was last sent; `diagnosticPublishMu` | DidOpen, DidChange, DidSave, DidClose, updateDocument, publishDocumentDiagnostics, clearDiagnostics |
| Workspace index | `handler.go:2711-2838`, `2874-2990` | `workspaceRootMap`, `workspaceFileMap`, the disk | file events, folder walks, restore on close, folder removal |
| Server lifecycle | `main.go`, `handler.go:2327-2335` | `afterInitialize`, two `afterShutdown` flags, the connection's queues | New, Preempt, Initialize, Shutdown, Exit |
| Pull diagnostics | `handler.go:2569-2654`, `semantic_diagnostics.go` | result ids held by the client | Diagnostic, DiagnosticWorkspace |
| Semantic diagnostics | `semantic_diagnostics.go` | none (a function of the store) | unknown columns, duplicate CTEs and aliases, ordinals, schema fingerprint |
| Text index | `text_index.go` | line starts of a text | offset to UTF-16 position and back |
| Name bindings | `cte_bindings.go`, `cte_column_bindings.go`, `cte_symbols.go`, `alias_bindings.go`, `derived_column_bindings.go`, `select_alias_bindings.go` | declarations and references of a snapshot | resolve, rename sites, conflicts |
| DDL facts | `ddl_facts.go` | tables, views, columns of a snapshot | extraction from the statements |
| Query column types | `query_column_types.go` | none | type of a view's column, recursively |
| Refactorings | `table_refactor.go`, `view_refactor.go`, `handler.go` | none | edits of a rename over all documents |
| Semantic tokens | `handler.go:2397-2560` | previous result | full, range, delta |
| Signature help | `signature_help.go`, `handler.go:630-708` | none | the call in the tree, or a scan of tokens |
| Formatting, selections, word at the cursor | `handler.go:99-130`, `710-902`, `1190-1283` | none | document, range, ranges and on-type formatting; selection ranges; completion's prefix |
| Navigation, lenses, member completion, rename | `handler.go:934-1062`, `1208-1965`, `2142-2239` | none | references, highlights, definition, type, hover, lens, prepare, rename, linked editing |
| Other features | `handler.go` | none | folding, inlay hints, code actions, symbols, keyword completion |
| AST walk, dispatch wrapper, word lists | `ast_walk.go`, `lspabst/`, `wordlist.go` | none | guard around the parser's walker; generated forwarding; data |

How they interact. The connection (a library) has a reader goroutine, which
calls `Server.Preempt` for every message, and a handler goroutine, which runs
handlers one at a time in the order of arrival. Handlers call the store; the store
is guarded by `fileContentMu`, and `diagnosticPublishMu` is taken before it while
diagnostics are computed and sent. The disk changes under the server at any time.
The query features read one snapshot each and keep nothing.

What makes it hard: a document has three sources (the editor's buffer, the file,
the folder walk) whose updates overlap; parsing and reading happen outside the
locks, so each result may be stale when it arrives; an origin is kept in three
places; the client's view of the diagnostics is a sequence of messages that must
not go back in time; the reader decides about messages whose predecessors have
not been handled yet. What makes each part correct is stated by the properties
below; the hazards they answer are in `PROJECT.json`, each at its line.

## 2. Modules

| Module | Models |
| --- | --- |
| `AbstractStore` | What the store promises: one register per path; a write takes the newest revision, lands only while it is the newest, once; closing and removal make the write in flight fail. |
| `DocumentStore` | The six maps and the critical sections of `document_store.go` as operators. |
| `SyncHandlers` | The handlers as processes over the store. One action per critical section, file read or client call. Refines `AbstractStore`. |
| `EditorSession` | `SyncHandlers` composed with an editor that keeps the protocol, an ordered connection, and the disk. |
| `ServerLifecycle` | Preempt in the reader, Shutdown and Exit, the handler goroutine. |
| `SyncProofs` | Proofs about `DocumentStore` and the types and maps of `SyncHandlers`. |
| `RevisionProofs` | Proofs about the revisions, open documents and publications of `SyncHandlers`, and that it implements `AbstractStore`. |
| `SessionProofs` | Proofs about `EditorSession`. |
| `Diagnostics` | Pull diagnostics: reports and result ids over a changing store. |
| `DiagnosticsProofs` | Proofs about `Diagnostics`. |
| `LifecycleProofs` | Proofs about `ServerLifecycle`. |
| `QuerySyntax` | The syntax trees that the binders look at, and the columns of a SELECT. |
| `CTEBindings`, `AliasBindings`, `ColumnBindings` | The five indexes of a document: CTEs, table aliases, results of SELECTs, columns of CTEs and of derived tables. |
| `Relations` | Tables, views and their columns over all documents, the types of columns, the plans of a table or view rename. |
| `QueryFeatures` | The requests about names as operators, and `Rename` as an action: asked, applied, parsed again. |
| `QueryProofs` | Proofs about the indexes of `CTEBindings`, `AliasBindings` and `ColumnBindings`, and the requests of `QueryFeatures`: lenses, outline, rename, references, definition, highlights. |
| `NumberLemmas` | Lemmas about numbers, recursive functions, least and greatest elements, finite sets and concatenated sequences. |
| `TextIndex` | Byte offsets and UTF-16 positions of a text, and the editor's view of the same. |
| `TextFeatures` | Semantic tokens, formatting, selections, signature help and the word at the cursor; the formatting requests are actions. |
| `TextProofs` | Proofs about `TextIndex` and `TextFeatures`: positions, formatting, selections, the word at the cursor. |
| `MCSyncHandlers`, `MCEditorSession`, `MCDiagnostics`, `MCQueryFeatures`, `MCTextFeatures` | Values of constants for TLC. |

`EditorSession` extends `SyncHandlers`, which extends `DocumentStore` and instantiates
`AbstractStore`. `QueryFeatures` extends `Relations`, `ColumnBindings`, `AliasBindings`,
`CTEBindings` and `QuerySyntax`, in this order, as `handler.go` uses the others;
`TextFeatures` extends `TextIndex`.

### Correspondence

A variable of `DocumentStore` has the name of the field of `Handler` it stands
for. `documents[path] == nil` is `NoSnapshot`, a missing map entry is `NoText` or
absence from a set. A snapshot is a record of path, text, version, revision and
origin; the statements, facts, bindings and diagnostics that
`parseDocumentSnapshot` derives are functions of the text, so the text stands for
them (`parsedMap` holds the text that was parsed). The pointer comparison of
`publishDocumentDiagnostics` is equality of records; `RevisionsIdentifySnapshots`
is what makes that the same thing.

`task[h]` in `SyncHandlers` is what goroutine h has left to do: the head of `todo`
is the operation it is in, whose `doc` holds the operation's local variables, and
`pc` is the point it has reached.

| Code | Actions |
| --- | --- |
| `updateDocument` | `ReserveUpdate`, `InstallUpdate` or `InstallRejected`, then publication |
| `publishDocumentDiagnostics` | `BeginPublish` (both locks, current) then `SendDiagnostics` (client call, unlock), or `SkipPublish` |
| `DidSave` | `LoadSaveVersion`, then `updateDocument` |
| `DidClose` | `CloseDocument`, the restore if it is indexed, `ClearDiagnostics` |
| `indexWorkspaceFile` | `SkipIndex` or `StartIndex`, `ReadFile` or `ReadFileFails` |
| `restoreWorkspaceFile` | `ReadFile`, or `ReadFileFails` and `ForgetLostFile` |
| `storeWorkspaceDocument` | `StoreReserve`, `StoreRecheck`, `InstallIndexed`; `StoreAbandoned` or `InstallRejected` |
| `removeWorkspaceFile` | `RemoveWorkspaceFile` |
| `indexWorkspaceFolder` | `AddFolder` or `AddFolderFails`, then `WalkNext` per file, `WalkDone` |
| `removeWorkspaceFolder` | `RemoveFolder` |

A notification that loops (`DidChangeWatchedFiles`, `DidRenameFiles`,
`DidChangeWorkspaceFolders`) is a sequence of these operations. The folders of
`Initialize` are added by the same operation.

In `ServerLifecycle` a message is its number in `sent`. The reader has taken the first `read` of them and
let `passed` through; of these the handler goroutine has taken `started` and is done with `finished`, at most one
fewer. `Initialize` runs only if its parameters decode: the dispatcher, which is not in the repository, answers others with an
error, while Preempt (`main.go:105-111`) has set `afterInitialize` and only logs. "handled" is either answer. Preempt's
return for a cancelled context (`main.go:90-92`) is left out: nothing in the repository cancels one, and the library does when the
connection can write no more, so that there is nobody to answer.

In `Diagnostics`, a text is the record of what the diagnostics see of it: the tables and
views it declares (`documentFacts`), the members `alias.column` it uses with the source
their alias is bound to, and the diagnostics that depend on nothing else.
`Diagnostic(p)` and `DiagnosticWorkspace` are the first critical section of the two
requests, `ComputeReport` one of the following ones, `Reply` the answer as the client takes
it, `Cancel` the `ctx.Err()` return. `documents` is the store as `AbstractStore` promises it,
so a change is one step.

In `QueryFeatures` a text is its syntax tree and a name for each of its identifiers. An
identifier is a token, a number that grows along the text, and stands for its range and for
every position in it; a declaration or reference *is* its token. `ParseDocumentSnapshot` builds the five
indexes in the order of `parseDocumentSnapshot`, each from those before it, and every request is
an operator of the stored snapshots, the document and the token. The five `siteAtPosition` functions are
`SiteAtPosition`; the order in which a request asks the indexes is a sequence
(`ReferenceOrder`, `RenameOrder`, ...), since that is what differs between them. `PrepareRename`, `Rename`
and `LinkedEditingRange` repeat one chain of cases in the code: `RenameTarget`. A
`relation` of a tree is a place outside a FROM that names a table or a view; its kind says what the
refactorings make of it (`create_table`, `create_view`, `table`, `view`: sites; `identity`: a
rename or a synonym; `bad`: not parsed).

In `TextFeatures` a text is a sequence of pieces (tokens, spaces, comments), each with its runes. Names of
operators are those of the functions. The tree refers to tokens by number, so it survives a change of
spaces. `Applied` is the editor: it applies the edits of an answer, all at once, to its own text by its own positions.
`PiecesOK`, `StatementsOK` and `NodesOK` say what memefish makes of a text: pieces that are not empty,
identifiers with no letter before them, statements with a semicolon between two, nodes that nest or follow one another.

### Abstractions

- Texts are model values: two are enough to tell old from new.
- A walk visits its files in any order (`WalkDir`: lexical) and lists them when it
  starts; a file that appears in a directory during the walk is not seen, one that
  disappears fails to be read.
- Not modelled: cancellation of a walk, transient read errors of a file that is
  there, URIs of other schemes, publication errors, a nil client, DidSave without
  text and DidChange without changes (both return at once).
- A result id is the tuple of what is hashed. A fingerprint has the set of a declaration's
  columns, without their order and types: the real one is finer. The reports of a workspace
  request are made in any order (the code: by path).
- A publication carries, besides what is sent, the revision it belongs to, and a
  clear that of its close: history kept for `PublicationsInRevisionOrder`.
- `shown` is what the client has received; messages to it are in order.

Of `QueryFeatures` (the first group is what the code does, and the model keeps):

- A table alias is renamed where the index has a reference: an `a.x` in the ORDER BY of
  the statement, a bare `a` in an expression and a FROM path `a.arr` are not in it, and keep the
  old name. A path qualified by an alias is not answered at all in GROUP BY, HAVING and ORDER BY
  ("ambiguous"). An `a.x` in an ORDER BY inside a SELECT is bound to the aliases of the SELECT around it.
- An alias may be renamed to a name that was declared twice or that an unbound qualifier has;
  linked editing checks no conflict. A renamed table may get the name of a CTE and be captured;
  qualifiers `Table.col` are not edited. At a name bound to a CTE, Rename offers a view of that name and
  Hover shows a table of it. The properties exclude these cases one by one, each in a condition
  of its own.
- A column of a CTE or derived table selected without AS declares a column of the query around it; a rename
  of the inner one breaks the outer one (`Reexported`, `NamesResult`). A name in an ORDER BY is bound to a result; if
  the result is such a column, Definition goes there and References, asked there, answers for the inner
  column (`AsksColumn`), and its type is found by its name alone (`AsksResult`). The results of a view are renamed in the view only.
- Hover and the lenses know simple names of tables and views only; Definition and References also those of
  several identifiers, each as one place (`PlacesOf`).
- With a table and a view of one name, completion offers nothing while Definition may find
  the column. A column that a table declares twice is offered, and Definition finds neither. TypeDefinition, at a name that is no column or member, goes by the name of the column alone.
- Simplified: compound queries, LIMIT, pipe syntax and column lists of CTEs are left out; `EqualFold` and
  `ToUpper` are the same; a function name in GROUP BY is an identifier like any other. Sites of two
  columns at one token are taken in the order of their making (`slices.SortFunc` leaves it open for long lists).
  Completion's repair of an incomplete text is not modelled.

Of `TextFeatures`:

- memefish is external: `LexerSeq` gives the tokens up to one that cannot be read, `ParseStatements` the
  statements of a text that is parsed, and printing gives a statement's tokens with one space between. That
  it prints the tokens it read is assumed; that it drops comments and layout is modelled.
- A lone carriage return ends a line for an LSP client, and not for `newTextIndex`. The texts have no such one.
- Offsets inside a rune are modelled (`utf16Length` counts its bytes), positions are checked at borders of
  runes, which is what memefish gives.
- Tokens at one place may be sent in any order by `slices.SortFunc`; the model's sort keeps theirs.
  Modifiers are left out; a token that overlaps another (a type, and the keyword in it) is sent.
- Selecting from a sequence is `Sifted`, a recursive function, where a proof is about it, and `SelectSeq` elsewhere.
- The scan of tokens takes a grouping parenthesis for a call and counts the commas of an array:
  `HelpWhileTyping` leaves positions after those out.

### How many handlers

The connection runs handlers one by one, so the program is the instance with one
handler, and it is the one `EditorSession` is checked with. The locks, revisions
and rechecks of the store are written for more than one (and tested so,
`document_store_test.go`, `TestDocumentStoreRejectsStaleInstallAndPublication`):
`SyncHandlers` is checked with two and proved for any number. What the store
promises with several is `AbstractStore` and the properties of `sync_safety`; with
several handlers the stronger properties of `EditorSession` do not hold, since two
notifications of one document could be handled in either order.

## 3. Runs

| Run | Question | Instance |
| --- | --- | --- |
| `sync_safety` | Do the store's promises hold in every interleaving? | 2 handlers, 1 path in 1 folder, 2 texts, 4 notifications |
| `sync_liveness` | Does every handler finish? | the same, 2 notifications, fair |
| `session_safety` | Do store and diagnostics match editor and disk when all is handled? | 1 handler, 2 paths, 2 overlapping folders, 2 texts, 4 notifications, 2 versions |
| `session_liveness` | Is every edit answered? | 1 handler, 2 paths, 1 folder, 3 notifications, fair |
| `closed_files_indexed` | Is a closed file of a folder indexed? (No.) | as `session_safety` |
| `only_workspace_files` | Are only files of folders indexed? (No.) | as `session_safety` |
| `lifecycle` | What runs before Initialize; what becomes of each message? | 4 messages of any kind, fair |
| `pull_diagnostics` | Is "unchanged" true; is a client that pulls up to date? | 2 paths, 8 texts, 3 changes, any number of requests |
| `unchanged_identical` | Does "unchanged" hold of places too? (No.) | as `pull_diagnostics` |
| `query_features` | Do the requests about a name agree, and does a rename keep the bindings? | 3 documents in 2 folders, 19 trees, alone or with one another, over 4 names (14,700 states), 1 rename |
| `text_features` | Are positions the editor's, and does formatting keep the text? | 5 trees, every mix of nothing, line break and two comments at 1 to 3 gaps, 2 formatting requests |
| `exit_code` | Does the exit code tell whether Shutdown came first? (No.) | 4 messages |

What they show:

- `StoreConsistent`: content, statements, origin and the two sets agree after every
  critical section. `RevisionsIdentifySnapshots`: no two handlers hold the same
  revision of a path. `NewestWins`: what is installed is the newest reserved.
  `OpenBuffersAreTheEditors`: the index never replaces the text of an open path.
  `PublicationsInRevisionOrder`: the client never gets diagnostics of an older
  revision after those of a newer one (of the empty list that a close sends it says nothing). `ImplementsAbstractStore`: the refinement.
- `OpenBuffersStored`, `DiagnosticsMatchBuffers`, `ClosedDocumentsMatchDisk`,
  `UntouchedFilesIndexed`: once all messages are handled, open documents are as in
  the editor, diagnostics are those of the buffers and versions, closed documents
  are as on disk, and every file of a folder that was never opened is indexed.
- `EditsAreDiagnosed`, `NotificationsFinish`, `CallsAnswered`: progress.
- `UnchangedMeansSame`, `PulledIsCurrent`: an "unchanged" report is given only for the
  diagnostics the client holds, up to the place of a declaration they point to; a request
  the store does not change under leaves the client with what is current.
- `RenameAgreesWithReferences`, `DefinitionInvertsReferences`, `MembersAgree`,
  `TypesFollowDefinitions`, `LensesCountReferences`: what different requests say of one name agrees,
  although each finds it in its own way. `OutlineNestsCTEs`: the stack of `cteDocumentSymbols` gives the
  nesting of ranges. `FreshRenameKeepsBindings`: a rename to a new name, of anything, in all documents,
  leaves every declaration with its references. `AliasRenameCapturesNothing`: any name the server
  accepts for an alias takes no reference from another alias.
- `PositionsAreTheEditors`, `TokensDecode`, `SelectionsNest`, `WordAtCursor`: positions, token
  deltas, selections and words are what the editor, computing with its own lines, sees.
  `FormattingEditsFit`, `FormattingKeepsText`: edits of several ranges can be applied together, formatting
  loses no token and no comment, and formatting a document twice is formatting it once.
  `HelpWhileTyping`: signature help does not change when the closing parenthesis is typed.
- `InitializeRunsFirst`: although the reader marks the server initialized before the
  handler ran, order keeps every other handler behind it: the Initialize sent before has been answered, and
  has run if its parameters decode. If they do not, later handlers do run, on a server that has indexed no folder and
  has no token legend: the guard of Preempt promises no more than that an Initialize arrived.
  `LetThroughByPlace`: what is sent behind an Initialize is neither dropped nor refused because that
  Initialize has not run yet, and what is sent ahead of it never gets through. After a Shutdown it promises nothing, since
  the flag that should refuse requests then is never set (`exit_code`).

### Bounds

`MaxDeliveries` bounds the notifications of a behaviour, `MaxVersion` the versions of
a buffer, `MaxMessages` the messages of a session. Two handlers with four
notifications put an update or index operation of one handler between any two
steps of the other and still leave a close and a reopen; a path's revisions do not
relate to those of another path, so one path is enough there. Four notifications
reach add folder, open, close, file event, and the removal of an overlapping
folder; two paths and two folders, one inside the other, are what folder removal
distinguishes. Three changes of two documents put a query and two versions of its schema in the store
in any order, before, between and within requests. Symmetry is used for texts, handlers
and (in `MCDiagnostics`) paths, in runs with no liveness property.

In `MCQueryFeatures` each tree puts two declarations that can have one name in every relation the binders tell
apart: two CTEs in a chain, one inside another, one in a derived table; an alias beside, inside and
around another; a derived table in a derived table; results with and without AS, twice, and asked for in GROUP BY,
HAVING and ORDER BY; a table and a view of one name, in one document or in two folders, next to each thing
that makes a rename unsafe; two views that select from each other; a column of a CTE carried through a derived table to
an ORDER BY; a table whose name has two identifiers. Two names and a spelling are
enough for "same", "same but for case" and "different", a third and a fresh one for the targets of a rename.
After one rename the texts are of the same families again, so `MaxRenames` is 1. In `MCTextFeatures` the runes have
one to four bytes and one or two units, and `MaxFormats` is 2: to format again what was formatted.
The ranges asked for begin and end where a statement or a comment does, or the text.

### Fairness

Weak fairness of each handler's steps: the Go scheduler runs a goroutine that can go
on, both mutexes are held for finite sections, and the client is assumed to take what
it is sent. A handler waiting for `diagnosticPublishMu` is disabled while it is held, and
weak fairness is enough because `Idle` is reached again and again once the bounded
notifications are used up and before that holders leave without waiting for it.
The connection hands over what has arrived (`Receive`, `StartHandler`, `Preempt`).
Nothing is assumed of the editor or of the disk.

## 4. Disagreements found

- `ClosedFilesIndexed` fails: `forgetDocumentLocked` (`document_store.go:194`) leaves
  a closed document in `openDocumentMap`; from then on it counts as open and is
  never indexed. Shortest trace: open a file, close it, add its folder.
- `OnlyWorkspaceFilesIndexed` fails: `indexWorkspaceFile` (`handler.go:2727`) never
  asks whether the path is in a workspace folder, contrary to `TODO.md:55`.
- `ExitCodeTellsShutdown` fails: `Preempt` reads `Server.afterShutdown` (`main.go:98`),
  which nothing sets; the process exits with 1 even after a Shutdown, and requests
  after Shutdown are let through.

- `UnchangedMeansIdentical` fails: the schema fingerprint (`semantic_diagnostics.go:314`) has no
  places, the diagnostics have (`RelatedInformation`). A table that moves within its document
  leaves the result ids of the documents that use it, and the client keeps the old link.

## 5. Proofs

`SyncProofs` proves, for any sets of paths, texts, handlers and folders:

- `TypeCorrect`: `Spec => []TypeOK`. The type invariant says of every handler that its
  operation may be at its `pc` (`WellPlaced`) and that from `store`, `recheck` and
  `install` on its text is known; it is what shows that the error path of a file read
  never stores a snapshot without text.
- `StoreStaysConsistent`: `Spec => []StoreConsistent`.

The argument: `Inv == TypeOK /\ StoreConsistent` is inductive. The first part of the module shows
that each critical section, called where its precondition holds, keeps `StoreOK`; the
precondition of `ForgetDocument` (the path is not indexed) is what `CloseDocument` looks
up, and that of `SetDocumentOrigin` (the path has a snapshot) follows from
`StoreConsistent` for an indexed path, which is why the types alone are not enough.
The second takes the actions one by one, with one lemma per group of handlers.

`RevisionProofs` proves, with the same generality:

- `RevisionsAreUnique`: `Spec => []RevisionsIdentifySnapshots`.
- `NewestSnapshotWins`: `Spec => NewestWins`.
- `StoreImplementsAbstract`: `Spec => ImplementsAbstractStore`, the refinement.

The argument: as far as revisions go an action does one of four things (`Kinds`): it is
local, reserves a revision, installs a snapshot, or retires what is in flight.
`StepKinds` sorts the actions; everything after it looks at the four kinds only. The
inductive invariant is `RevisionInv == Inv /\ Numbers /\ MutexOK`. `Numbers` has three
parts, each of which the next needs: `HeldOnce` (two handlers never hold one revision of
a path: why at most one write is the newest, so that one register bit per path is
enough in the refinement), `HeldWithinCounter` (no revision held is above the counter:
why a new reservation is held once), and `NotYetStored` (a snapshot in flight is not
the stored one: why an install strictly increases the revision). `MutexOK` says that
the handler that sends is the one that holds `diagnosticPublishMu`.

and, in its second half:

- `IndexKeepsOpenBuffers`: `Spec => OpenBuffersAreTheEditors`.
- `PublicationsAreInOrder`: `Spec => PublicationsInRevisionOrder`.

The inductive invariant is `PublicationInv == RevisionInv /\ Openness /\ InOrder`. `Openness`: what the index makes
has the origin "workspace" alone (`IndexedOrigin`), and a snapshot in flight that is the newest of an open
path is marked open (`OpenKept`). The second is why an install never takes "open" away, and it needs
`RevisionInv`: a close retires what is in flight, so that nothing reserved before it is the newest after it.
`InOrder` compares revisions. Nothing shown is newer than the counter (`ShownWithin`), nor is what a close is going to clear
(`ClearsWithin`); what is being sent was current when the locks were taken, and only newer snapshots replaced it
(`SendersBehind`); what is still to be published is newer than what is shown (`Ahead`) and than every close whose
clearing is still to come (`AheadOfClears`). The last two hold although the snapshot lock is released
between install and publication, because `BeginPublish` asks again whether its snapshot is the stored one.

`SessionProofs` proves, for any paths, folders, disks, texts and versions, and any number of notifications:

- `SessionKeepsTypes`: `SessionSpec => []EditorTypeOK`, for any number of handlers.
- `OpenBuffersAreStored`: `SessionSpec => []OpenBuffersStored`, `DiagnosticsAreTheBuffers`: `[]DiagnosticsMatchBuffers`,
  `ClosedDocumentsAreTheDisk`: `[]ClosedDocumentsMatchDisk`, `FilesAreIndexed`: `[]UntouchedFilesIndexed`,
  for `Handlers = {h}`. The connection runs handlers one at a time; with two these properties are false, since two
  notifications of one document may be handled in either order.

The properties speak of the moment when all is handled; the invariants say what is true on the way there.

- `BufferInv(h) == SessionTypes /\ HandlerOK(h) /\ QueueOK /\ CalmOK(h)`. `SessionTypes` is `Inv` (above) and the
  types of the editor. `HandlerOK` is what it means to work alone: the handler has one operation, or one of three pairs (`Shape`);
  what it read or reserved is still so (`Steady`: the revision is the newest, the snapshot the stored one);
  only SQL files are indexed (`Indexed`). `QueueOK`: the last notification on its way that opens, changes or
  closes a path agrees with the buffer, and so do saves behind it (`QueueAgrees`). It is stated of the notifications
  that no later one overrules, which is what stays true when the editor goes on typing. `CalmOK`: of a path with no such
  notification left, either the handler is at work on it and carries what the buffer has (`Saving`, `Closing`), or store and
  client match the buffer (`Matches`).
- `DiskInv(h) == BufferInv(h) /\ ReadFresh(h) /\ FreshOK(h)`. A text that was read, or is stored for a closed document,
  is what the disk has, or the difference will be reported or is being handled (`Reported`, `Mine`). Both are needed: the
  disk may change between the read and the install (`ReadFresh`), and after it (`FreshOK`).
- `FilesInv(h) == BufferInv(h) /\ Untouched(h) /\ ReportsLast /\ FilesOK(h)`. A path the editor never opened is known open nowhere
  (`Untouched`); if a file was removed and is there again, the last report on its way says so (`ReportsLast`); a file of a
  recorded folder that is not indexed is the handler's own next work: it is indexing it, or the walk that will reach it is running
  or comes next in the notice (`FilesOK`).

`DiagnosticsProofs` proves, for any documents, texts and schemas:

- `ResultIDDetermines`: texts and stores with one result id have the same diagnostics, up to
  places. This is where the fingerprint's choice matters: it gives a view of unknown shape
  no columns, which is told from every known shape because a known one has a column
  (`DiagnosticsAssumption`, from `extractQueryColumnFacts` over a non-empty SELECT list).
- `UnchangedIsHonest`: `Spec => []UnchangedMeansSame`; `PullsAreCurrent`: `Spec => PulledIsCurrent`.
  The inductive invariant `DiagnosticsInv` says that every report the client holds or a request has
  made is the report of some text under some store, and, if nothing has overtaken the
  request, of those of now.
- `PullsKeepTypes`: `Spec => []TypeOK`, from the same invariant: what was made as the report of a text has a report's type.

`LifecycleProofs` proves, for any number of messages of any kind, in any order:

- `PlaceDecides`: `Spec => []LetThroughByPlace`; `InitializeIsFirst`: `Spec => []InitializeRunsFirst`.
  The inductive invariant `IInv` adds three things. `GateInv`: `afterInitialize` says whether an Initialize is
  among the messages read, and each of these was let through. `OrderInv`: what was let through is in the order it was sent,
  and is handled one by one; that is where the handler goroutine being one, and in order, is needed. `FinishedInv`: what is
  finished is answered if it was a call, and an Initialize that decodes has run. So an Initialize sent before the message
  being handled stands before it in the queue, and is finished.

`TextProofs` proves, for any set of runes of one to four bytes and one or two units, and every text of them:

- `PositionsAgree`: `position` and `byteOffset` agree with the editor (`EditorPositions`, `EditorOffset`) at every border of
  runes and at every place, and `byteOffset` says "not ok" exactly of places the text does not have.
- `OffsetsRoundTrip`: `byteOffset(position(o)) = o`.
- `PositionsStayTheEditors`: `Spec => []PositionsAreTheEditors`: so it stays, through any sequence of edits.
- `FormattingKeepsEveryText`: `Spec => FormattingKeepsText`, for formatting of a document, a range, two ranges or as one types.
- `FormattingEditsAlwaysFit`: `Spec => []FormattingEditsFit`; `SelectionsAlwaysNest`: `Spec => []SelectionsNest`;
  `WordAlwaysAtCursor`: `Spec => []WordAtCursor`.

The index and the editor compute differently: the first keeps the line starts and searches them, the second steps
through the text. Both are related to the prefixes of the text. `Layout` says how bytes, units and places of the prefixes
grow from one to the next; `Lines` that the recorded starts are the ends of the prefixes up to a line break, in order.
From the two follows which line a prefix ends in (`LineAt`), which prefixes a line has (`LineRunes`), and so what
`position` (`PositionOfPrefix`) and `byteOffset` (`OffsetOfPlace`) return. The functions are recursive on the length; induction
over it does not need a theorem with an operator parameter: the least number outside a given set
(`LeastNumber`, from `WFMin` and `NatLessThanWellFounded`) gives `UpTo`, and `Recursion` that a recursive function is what its equation
says; all three are in `NumberLemmas`.
The other four start from the inductive invariant `TextInv`: the text is what `newLexer` makes of its pieces, the pieces are
`PiecesOK`, and with its tokens the statements and nodes of its syntax are `StatementsOK` and `NodesOK`. Without the clauses about
memefish a step need not keep them: an edit of a range that is no statement may tear a token, and two identifiers that an
edit leaves side by side are one. TLC checks `TextInv` at the start of every session of `text_features`, as
`DocumentsAssumption`. That a step keeps it takes these facts:

- The places of pieces go up with them (`PlaceOrder`), so ranges of nodes overlap, contain one another and touch
  a position as the numbers of their pieces do (`SpanOrder`, `NodeIs`).
- What `Sifted` has is what the increasing list of its places has (`SiftedAt`, `AtLists`); so tokens and comments are numbered by
  the pieces (`LexerIs`), and what is kept of a text is kept of its parts (`OfTwo`).
- Edits are spans of pieces, ordered and disjoint (`StatementSpans`), each with the tokens and comments of what it replaces
  (`StatementSpan`); replacing such spans keeps the tokens, the comments and the gaps between words (`StatementEditsKeep`).
- Formatting a document makes a text with the same tokens and a last semicolon (`FormattedText`, `DocumentText`); what memefish
  prints of that is itself (`FormatSame`, `DocumentKeeps`).

For `SelectionsNest`, the walk down the tree misses no node that has the position inside (`FoundAre`), and of two nodes found, one of
them with the position inside, the later is in the earlier (`AroundContained`), so that narrowing drops none (`NarrowStep`). For
`WordAtCursor`, the runes of an identifier are letters back to its start and no letter is before it (`WordStartIs`).

`QueryProofs` proves, for any workspace of well-formed trees over any names, and any number of renames:

- `AlwaysParsed`: `Spec => []SnapshotsAreParsed`: every stored snapshot is what the server parses from a well-formed
  text. This is the inductive invariant; a rename only changes names of the same trees. The other theorems say what
  holds of all such snapshots.
- `OutlineIsNested`: `Spec => []OutlineNestsCTEs`. The CTEs on the stack are those whose ranges contain the last one
  (`Nested`, `Ascending`, `StackIs`), so its top is the innermost one around the next.
- `SitesAreTokens`: `Spec => []TypeOK`: the sites of every binding are tokens of one name, and a token is a site of one CTE, one alias
  and one result at most.
- `LensesCount`: `Spec => []LensesCountReferences`: what a lens counts is what References lists, for CTEs, tables and views.

The argument: a token is written in one place of a tree (`WrittenOnce`, `OnePlace`), and the place tells what kind of thing it
can be (`Marked`, `MarkedApart`): a declared CTE is no table name, an alias of a table no part of an expression. What a scope has for a
key is a declaration of that key: by recursion up the query tree for CTEs and aliases (`QueryTree`, `CTEScopesAre`, `AliasScopesAre`), from which
each reference has the name of its declaration. An index is a concatenation of what each query or binding makes (`FlattenedSequences`),
so that two of its entries come from two places, and declare two tokens (`IndexesCTEs`, `IndexesAliases`, `IndexesResults`, `IndexOK`). With the
kinds of places this shows that the sites of two bindings are disjoint (`SitesApart`). For a lens, no other index has a site at the
declaration (`CTEReferences`), or none at all (`RelationReferences`), so References answers with the references that are counted.

and that the requests agree:

- `RenamesAgree`: `Spec => []RenameAgreesWithReferences`; `DefinitionsInvert`: `Spec => []DefinitionInvertsReferences`.

Each request asks the indexes in an order of its own, so the argument is about which of them can have a token at all. `SitesMarked` gives
the kind of place the sites of an index have, whence the order matters for three pairs only (`NamesApart`, `CTEsApart`, `AliasesApart`,
`ColumnsHere`); within an index, a token is a site of one binding (`DeclaredOnce`, `ColumnOnce`: two columns of one name in a CTE have two declarations).
From this Rename and References, asked at two sites of one binding, ask the same index and get the same binding (`SameRename`,
`SameReferences`). For tables and views the sites are nodes of the tree with the key of the plan (`SitesAreNodes`, `PathOnce`), and the plan
depends on the key alone (`ViewPlanIs`, `TablePlanIs`, `PlanAgrees`). `DefinitionIs` sorts what Definition may answer: a declaration of the index
that has the token (`BindingFound`), the column of a member (`MemberFound`), or the places of a table or view (`NamedFound`);
each is taken back to the token asked for.

Assumptions: `StoreAssumption` (`NoText` and `NoSnapshot` are not a text or a snapshot),
`SyncAssumption` (the types of the constants) and `RegisterAssumption` (`NoSnapshot` is not
the value of a register either); `WalkAssumption` (a walk lists SQL files under its root: `handler.go:2904-2922`);
`BufferAssumption` (`Closed` is no buffer); `DiagnosticsAssumption` (the shape of texts), `BoundAssumption` (the bound on changes is
a number); `LifecycleAssumption` (the bound on messages is a number); `RuneAssumption` (a rune has one to four bytes, one or
two units and no more units than bytes, a line break one of each), `PrintedAssumption` (the blank and the semicolon are runes and, like a line
break, no letters), `DocumentsAssumption` (the texts a session starts with are texts of memefish: `PiecesOK`, `StatementsOK`, `NodesOK`);
`FoldAssumption` (upper case is the upper case of itself); `WorkspaceAssumption` (the texts are trees of memefish, `WellFormed`: nodes have their
parts, the way up from a query ends at a statement, ranges of CTEs nest or follow one another, the body of a CTE and a query in a FROM are used there only, an identifier is written in one place).
TLC evaluates it on every workspace of `query_features`.

Only model-checked:

- Liveness and fairness (`NotificationsFinish`, `EditsAreDiagnosed`, `CallsAnswered`), which are out of the prover's reach.
- `MembersAgree` of `QueryFeatures`: it compares completion, hover and the unknown-column diagnostic, each of which looks up a
  relation's columns in its own way. `TypesFollowDefinitions`: a column's type is computed by recursion over what was visited.
  `FreshRenameKeepsBindings`, `AliasRenameCapturesNothing`: they compare what is bound before and after a rename, for which the lemmas
  would have to say of every scope all that it has, not only that what it has is right.
- `TokensDecode` and `HelpWhileTyping` of `TextFeatures`: they depend on what `SelectSeq`, `SortSeq` and folds return, of which the
  prover has no definition.

## 6. Not modelled, and the plan

`PROJECT.json` lists every component with its status. Not modelled:

- Folding, inlay hints, code actions, document and workspace symbols, keyword completion, function
  documentation: lists read off one tree, with wording and layout; nothing in them depends on order or on
  another request. `appendWorkspaceCompletionItemsLocked` and `repairedAliasBinding` (completion
  after a dot in a text that is not parsed, by inserting an identifier) are left for later.
- Diagnostics of ordinals and duplicate names: functions of one statement.
- `SetClient` (`main.go:73`) against a first message: one step at start-up; a connection that breaks.
- A divergence of code that the repository repeats: the chains of PrepareRename, Rename and LinkedEditingRange are one operator
  (`RenameTarget`), and so are the columns known to completion and to the unknown-column diagnostic (`KnownColumns`). The copies
  are the same today. Of what stops a rename of a table or a view, the properties would notice a missing check for a CTE
  or a second declaration; those for quoted names, synonyms, unparsed clauses and folders are modelled only.
- `lspabst/` (generated forwarding with logging), `ast_walk.go`, `wordlist.go` (data).
