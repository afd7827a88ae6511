----------------------------- MODULE SyncHandlers -----------------------------
(***************************************************************************)
(* The handlers that keep the document store in step with the editor and   *)
(* with the disk (src/handler.go, src/document_store.go): DidOpen,         *)
(* DidChange, DidSave, DidClose, the file and folder notifications and the *)
(* folder walk of Initialize.                                              *)
(*                                                                         *)
(* A notification becomes a sequence of operations (the loops of the       *)
(* handlers); task[h] holds what handler goroutine h has left to do, the   *)
(* local variables of the operation it is in being the fields of the       *)
(* head's snapshot.  One action is one critical section of fileContentMu,  *)
(* one critical section of diagnosticPublishMu (split where it releases    *)
(* fileContentMu and calls the client), or one file read.                  *)
(*                                                                         *)
(* Handlers is the set of goroutines that may run handlers at once.  The   *)
(* dispatcher of main.go (a library) runs them one by one: one handler.    *)
(* The store's locks, revisions and rechecks are written, and tested, for  *)
(* more: two handlers.                                                     *)
(***************************************************************************)
EXTENDS DocumentStore, Sequences

CONSTANTS
  Handlers,     (* The goroutines that run handlers.                       *)
  NoHandler,    (* The holder of a free mutex.                             *)
  Roots,        (* The workspace folders.                                  *)
  Inside,       (* Inside[r]: the paths below folder r.                    *)
  Walked,       (* Walked[r]: those a walk of r visits (SQL files outside  *)
                (* ignored directories).                                   *)
  SQLFiles,     (* The paths with a .sql or .memefish extension.           *)
  Versions,     (* The version numbers the editor may send.                *)
  MaxDeliveries (* Bound on the notifications delivered in a behaviour.    *)

ASSUME SyncAssumption ==
  /\ NoHandler \notin Handlers
  /\ Inside \in [Roots -> SUBSET Paths]
  /\ Walked \in [Roots -> SUBSET Paths]
  /\ SQLFiles \in SUBSET Paths
  /\ Versions \in SUBSET Nat
  /\ MaxDeliveries \in Nat

\* A walk visits files below its folder and passes the SQL files on.
ASSUME WalkAssumption == \A r \in Roots : Walked[r] \subseteq Inside[r] \cap SQLFiles

VARIABLES
  workspaceRootMap,    (* the indexed workspace folders                     *)
  diagnosticPublishMu, (* the handler that holds it, or NoHandler           *)
  task,                (* handler -> [pc, todo]                             *)
  disk,                (* path -> content of the file, or NoText            *)
  shown,               (* path -> the diagnostics the client last received: *)
                       (* of which text, under which version, and, for the  *)
                       (* properties, at which revision                     *)
  delivered            (* number of notifications delivered                 *)

handlerVars == << workspaceRootMap, diagnosticPublishMu, task, shown, delivered >>
vars == << storeVars, handlerVars, disk >>

EditOps == [kind : {"update", "save"}, doc : Snapshots]
FileOps == [kind : {"close", "restore", "clear", "index", "remove"}, doc : Drafts]
FolderOps == [kind : {"addFolder", "removeFolder"}, root : Roots]
WalkOps == [kind : {"walk"}, paths : SUBSET Paths]
Ops == EditOps \cup FileOps \cup FolderOps \cup WalkOps

PCs == {"next", "reserve", "install", "publish", "send",
        "read", "lost", "store", "recheck"}

Tasks == [pc : PCs, todo : Seq(Ops)]

\* Which operations can be at a pc, and from where on their text is known.
Allowed(pc, op) ==
  /\ pc = "reserve" => op.kind = "save"
  /\ pc \in {"publish", "send"} => op.kind \in {"update", "save"}
  /\ pc = "read" => op.kind = "index"
  /\ pc = "lost" => op.kind = "restore"
  /\ pc \in {"store", "recheck"} => op.kind \in {"index", "restore"}
  /\ pc = "install" => op.kind \in {"update", "save", "index", "restore"}
  /\ pc \in {"store", "recheck", "install"} => op.doc.text # NoText

WellPlaced(t) == t.pc # "next" => t.todo # << >> /\ Allowed(t.pc, Head(t.todo))

NoDiagnostics(revision) == [text |-> NoText, version |-> 0, revision |-> revision]

TypeOK ==
  /\ StoreTypeOK
  /\ workspaceRootMap \in SUBSET Roots
  /\ diagnosticPublishMu \in Handlers \cup {NoHandler}
  /\ task \in [Handlers -> Tasks]
  /\ \A h \in Handlers : WellPlaced(task[h])
  /\ disk \in [Paths -> Texts \cup {NoText}]
  /\ shown \in [Paths -> [text : Texts \cup {NoText}, version : Nat, revision : Nat]]
  /\ delivered \in Nat

Init ==
  /\ StoreInit
  /\ workspaceRootMap = {}
  /\ diagnosticPublishMu = NoHandler
  /\ task = [h \in Handlers |-> [pc |-> "next", todo |-> << >>]]
  /\ disk \in [Paths -> Texts \cup {NoText}]
  /\ shown = [p \in Paths |-> NoDiagnostics(0)]
  /\ delivered = 0

------------------------------------------------------------------------------
(* The notifications.                                                      *)

Op(kind, p, text, version) ==
  [kind |-> kind, doc |-> [path |-> p, text |-> text, version |-> version,
                           revision |-> 0, origin |-> {}]]

\* Full-text sync: a change carries the whole text, like an open.
DidOpen(p, text, version)   == << Op("update", p, text, version) >>
DidChange(p, text, version) == << Op("update", p, text, version) >>
DidSave(p, text)            == << Op("save", p, text, 0) >>
DidClose(p)                 == << Op("close", p, NoText, 0) >>

\* DidCreateFiles, DidDeleteFiles and DidChangeWatchedFiles loop over these.
IndexFile(p)  == Op("index", p, NoText, 0)
RemoveFile(p) == Op("remove", p, NoText, 0)

DidRenameFiles(old, new) == << RemoveFile(old), IndexFile(new) >>

Folder(kind, r) == [kind |-> kind, root |-> r]

\* Removed folders go first, then the added ones are walked.
DidChangeWorkspaceFolders(removed, added) ==
  << Folder("removeFolder", removed), Folder("addFolder", added) >>

Notifications ==
  {DidOpen(p, t, v) : p \in Paths, t \in Texts, v \in Versions}
    \cup {DidSave(p, t) : p \in Paths, t \in Texts}
    \cup {DidClose(p) : p \in Paths}
    \cup {<< IndexFile(p) >> : p \in Paths}
    \cup {<< RemoveFile(p) >> : p \in Paths}
    \cup {DidRenameFiles(p, q) : p \in Paths, q \in Paths}
    \cup {<< Folder("addFolder", r) >> : r \in Roots}
    \cup {<< Folder("removeFolder", r) >> : r \in Roots}
    \cup {DidChangeWorkspaceFolders(r, s) : r \in Roots, s \in Roots}

------------------------------------------------------------------------------
(* Where a handler is.                                                     *)

Idle(h) == task[h].todo = << >>
OpOf(h) == Head(task[h].todo)
Doc(h)  == OpOf(h).doc

At(h, kind, pc) ==
  /\ ~Idle(h)
  /\ OpOf(h).kind = kind
  /\ task[h].pc = pc

Updates(h)  == ~Idle(h) /\ OpOf(h).kind \in {"update", "save"}
Indexing(h) == ~Idle(h) /\ OpOf(h).kind \in {"index", "restore"}

\* The operation goes on at pc, its local variables being those of doc.
Continue(h, pc, doc) ==
  task' = [task EXCEPT ![h] =
             [pc |-> pc,
              todo |-> << [kind |-> OpOf(h).kind, doc |-> doc] >> \o Tail(@.todo)]]

\* The operation is over; the ones in its place, if any, come next.
FinishWith(h, ops) ==
  task' = [task EXCEPT ![h] = [pc |-> "next", todo |-> ops \o Tail(@.todo)]]

Finish(h) == FinishWith(h, << >>)

\* What most steps leave alone.
Quiet == UNCHANGED << workspaceRootMap, diagnosticPublishMu, disk, shown, delivered >>

Begin(h, ops) ==
  /\ Idle(h)
  /\ task' = [task EXCEPT ![h] = [pc |-> "next", todo |-> ops]]
  /\ delivered' = delivered + 1

------------------------------------------------------------------------------
(* updateDocument: reserve, parse, install, publish.                       *)

\* Mutant: a save publishes its diagnostics without the document's version.
SaveWithoutVersion(h) ==
  /\ At(h, "save", "next")
  /\ Continue(h, "reserve", Doc(h))
  /\ UNCHANGED storeVars
  /\ Quiet

\* DidSave looks the version up in a critical section of its own.
LoadSaveVersion(h) ==
  /\ At(h, "save", "next")
  /\ LET p == Doc(h).path
     IN  Continue(h, "reserve", [Doc(h) EXCEPT
           !.version = IF Stored(p) THEN documents[p].version ELSE 0])
  /\ UNCHANGED storeVars
  /\ Quiet

\* mutateOrigin: opens and changes mark the document open, a save does not.
MutateOrigin(kind, origin) ==
  IF kind = "update" THEN origin \cup {"open"} ELSE origin

ReserveUpdate(h) ==
  /\ At(h, "update", "next") \/ At(h, "save", "reserve")
  /\ LET p == Doc(h).path
     IN  /\ ReserveRevision(p)
         /\ Continue(h, "install", Stamped(Doc(h), NextRevision(p),
              MutateOrigin(OpOf(h).kind, DocumentOrigin(p))))
  /\ Quiet

\* Parsing happens between the reservation and this step.
InstallUpdate(h) ==
  /\ Updates(h) /\ task[h].pc = "install"
  /\ Installable(Doc(h))
  /\ InstallSnapshot(Doc(h))
  /\ Continue(h, "publish", Doc(h))
  /\ Quiet

InstallRejected(h) ==
  /\ task[h].pc = "install"
  /\ ~Installable(Doc(h))
  /\ Finish(h)
  /\ UNCHANGED storeVars
  /\ Quiet

\* Mutant: the snapshot is published without looking whether it is still current.
CurrentUnchecked(h) == TRUE

\* current == snapshot, decided with both mutexes held.
Current(h) == documents[Doc(h).path] = Doc(h)

BeginPublish(h) ==
  /\ task[h].pc = "publish"
  /\ diagnosticPublishMu = NoHandler
  /\ Current(h)
  /\ diagnosticPublishMu' = h
  /\ Continue(h, "send", Doc(h))
  /\ UNCHANGED << storeVars, workspaceRootMap, disk, shown, delivered >>

SkipPublish(h) ==
  /\ task[h].pc = "publish"
  /\ diagnosticPublishMu = NoHandler
  /\ ~Current(h)
  /\ Finish(h)
  /\ UNCHANGED storeVars
  /\ Quiet

DiagnosticsOf(doc) == [text |-> doc.text, version |-> doc.version, revision |-> doc.revision]

\* Mutant: diagnosticPublishMu stays locked.
SendWithoutUnlock(h) ==
  /\ task[h].pc = "send"
  /\ shown' = [shown EXCEPT ![Doc(h).path] = DiagnosticsOf(Doc(h))]
  /\ Finish(h)
  /\ UNCHANGED << storeVars, workspaceRootMap, diagnosticPublishMu, disk, delivered >>

SendDiagnostics(h) ==
  /\ task[h].pc = "send"
  /\ shown' = [shown EXCEPT ![Doc(h).path] = DiagnosticsOf(Doc(h))]
  /\ diagnosticPublishMu' = NoHandler
  /\ Finish(h)
  /\ UNCHANGED << storeVars, workspaceRootMap, disk, delivered >>

------------------------------------------------------------------------------
(* DidClose.                                                               *)

\* Mutant: an indexed document that is closed keeps the text of its buffer.
CloseWithoutRestore(h) ==
  /\ At(h, "close", "next")
  /\ LET p == Doc(h).path
         origin == DocumentOrigin(p) \ {"open"}
     IN  IF "workspace" \in origin THEN SetDocumentOrigin(p, origin) ELSE ForgetDocument(p)
  /\ FinishWith(h, << [kind |-> "clear", doc |-> Doc(h)] >>)
  /\ Quiet

CloseDocument(h) ==
  /\ At(h, "close", "next")
  /\ LET p == Doc(h).path
         origin == DocumentOrigin(p) \ {"open"}
         clear == [kind |-> "clear", doc |-> [Doc(h) EXCEPT !.revision = NextRevision(p)]]
         restore == Op("restore", p, NoText, 0)
     IN  IF "workspace" \in origin
         THEN /\ SetDocumentOrigin(p, origin)
              /\ FinishWith(h, << restore, clear >>)
         ELSE /\ ForgetDocument(p)
              /\ FinishWith(h, << clear >>)
  /\ Quiet

\* clearDiagnostics publishes an empty list, whatever is stored by now.
ClearDiagnostics(h) ==
  /\ At(h, "clear", "next")
  /\ diagnosticPublishMu = NoHandler
  /\ shown' = [shown EXCEPT ![Doc(h).path] = NoDiagnostics(Doc(h).revision)]
  /\ Finish(h)
  /\ UNCHANGED << storeVars, workspaceRootMap, diagnosticPublishMu, disk, delivered >>

------------------------------------------------------------------------------
(* indexWorkspaceFile, restoreWorkspaceFile and storeWorkspaceDocument.    *)

SkipIndex(h) ==
  /\ At(h, "index", "next")
  /\ Doc(h).path \notin SQLFiles \/ Doc(h).path \in openDocumentMap
  /\ Finish(h)
  /\ UNCHANGED storeVars
  /\ Quiet

StartIndex(h) ==
  /\ At(h, "index", "next")
  /\ Doc(h).path \in SQLFiles \ openDocumentMap
  /\ Continue(h, "read", Doc(h))
  /\ UNCHANGED storeVars
  /\ Quiet

\* os.ReadFile, outside the locks.
Reading(h) == At(h, "index", "read") \/ At(h, "restore", "next")

ReadFile(h) ==
  /\ Reading(h)
  /\ disk[Doc(h).path] # NoText
  /\ Continue(h, "store", [Doc(h) EXCEPT !.text = disk[Doc(h).path]])
  /\ UNCHANGED storeVars
  /\ Quiet

\* Mutant: the error of ReadFile is ignored.
ReadErrorIgnored(h) ==
  /\ Reading(h)
  /\ disk[Doc(h).path] = NoText
  /\ Continue(h, "store", Doc(h))
  /\ UNCHANGED storeVars
  /\ Quiet

\* indexWorkspaceFile gives up and keeps what was indexed before;
\* restoreWorkspaceFile goes on to forget the file.
ReadFileFails(h) ==
  /\ Reading(h)
  /\ disk[Doc(h).path] = NoText
  /\ IF OpOf(h).kind = "restore" THEN Continue(h, "lost", Doc(h)) ELSE Finish(h)
  /\ UNCHANGED storeVars
  /\ Quiet

ForgetLostFile(h) ==
  /\ task[h].pc = "lost"
  /\ LET p == Doc(h).path
     IN  IF p \in openDocumentMap THEN UNCHANGED storeVars ELSE LeaveWorkspace({p})
  /\ Finish(h)
  /\ Quiet

StoreOpen(h) == Doc(h).path \in openDocumentMap

StoreReserve(h) ==
  /\ task[h].pc = "store"
  /\ ~StoreOpen(h)
  /\ ReserveRevision(Doc(h).path)
  /\ Continue(h, "recheck",
       Stamped(Doc(h), NextRevision(Doc(h).path), {"workspace"}))
  /\ Quiet

StoreRecheck(h) ==
  /\ task[h].pc = "recheck"
  /\ ~StoreOpen(h)
  /\ documentRevisions[Doc(h).path] = Doc(h).revision
  /\ Continue(h, "install", Doc(h))
  /\ UNCHANGED storeVars
  /\ Quiet

\* Found open, before the reservation or after the parse, or overtaken.
StoreAbandoned(h) ==
  /\ \/ task[h].pc \in {"store", "recheck"} /\ StoreOpen(h)
     \/ task[h].pc = "recheck" /\ documentRevisions[Doc(h).path] # Doc(h).revision
  /\ Finish(h)
  /\ UNCHANGED storeVars
  /\ Quiet

\* The index publishes nothing.
InstallIndexed(h) ==
  /\ Indexing(h) /\ task[h].pc = "install"
  /\ Installable(Doc(h))
  /\ InstallSnapshot(Doc(h))
  /\ Finish(h)
  /\ Quiet

RemoveWorkspaceFile(h) ==
  /\ At(h, "remove", "next")
  /\ LeaveWorkspace({Doc(h).path})
  /\ Finish(h)
  /\ Quiet

------------------------------------------------------------------------------
(* Workspace folders.                                                      *)

\* The files a walk of folder r lists.
Listing(r) == {p \in Walked[r] : disk[p] # NoText}

AddFolder(h) ==
  /\ At(h, "addFolder", "next")
  /\ LET r == OpOf(h).root
     IN  /\ workspaceRootMap' = workspaceRootMap \cup {r}
         /\ FinishWith(h, << [kind |-> "walk", paths |-> Listing(r)] >>)
  /\ UNCHANGED << storeVars, diagnosticPublishMu, disk, shown, delivered >>

\* os.Stat finds no directory: the folder is not recorded.
AddFolderFails(h) ==
  /\ At(h, "addFolder", "next")
  /\ \A p \in Inside[OpOf(h).root] : disk[p] = NoText
  /\ Finish(h)
  /\ UNCHANGED storeVars
  /\ Quiet

\* WalkDir visits in lexical order; here the listed files come in any order.
WalkNext(h) ==
  /\ At(h, "walk", "next")
  /\ \E p \in OpOf(h).paths :
       FinishWith(h, << IndexFile(p),
                        [kind |-> "walk", paths |-> OpOf(h).paths \ {p}] >>)
  /\ UNCHANGED storeVars
  /\ Quiet

WalkDone(h) ==
  /\ At(h, "walk", "next")
  /\ OpOf(h).paths = {}
  /\ Finish(h)
  /\ UNCHANGED storeVars
  /\ Quiet

PathInWorkspace(p, roots) == \E r \in roots : p \in Inside[r]

\* Mutant: the folder's files go even if another folder has them too.
RemoveFolderAndAllBelow(h) ==
  /\ At(h, "removeFolder", "next")
  /\ workspaceRootMap' = workspaceRootMap \ {OpOf(h).root}
  /\ LeaveWorkspace(workspaceFileMap \cap Inside[OpOf(h).root])
  /\ Finish(h)
  /\ UNCHANGED << diagnosticPublishMu, disk, shown, delivered >>

RemoveFolder(h) ==
  /\ At(h, "removeFolder", "next")
  /\ LET roots == workspaceRootMap \ {OpOf(h).root}
     IN  /\ workspaceRootMap' = roots
         /\ LeaveWorkspace({p \in workspaceFileMap : ~PathInWorkspace(p, roots)})
  /\ Finish(h)
  /\ UNCHANGED << diagnosticPublishMu, disk, shown, delivered >>

------------------------------------------------------------------------------
Step(h) ==
  \/ LoadSaveVersion(h) \/ ReserveUpdate(h) \/ InstallUpdate(h) \/ InstallRejected(h)
  \/ BeginPublish(h) \/ SkipPublish(h) \/ SendDiagnostics(h)
  \/ CloseDocument(h) \/ ClearDiagnostics(h)
  \/ SkipIndex(h) \/ StartIndex(h) \/ ReadFile(h) \/ ReadFileFails(h)
  \/ ForgetLostFile(h) \/ StoreReserve(h) \/ StoreRecheck(h) \/ StoreAbandoned(h)
  \/ InstallIndexed(h) \/ RemoveWorkspaceFile(h)
  \/ AddFolder(h) \/ AddFolderFails(h) \/ WalkNext(h) \/ WalkDone(h) \/ RemoveFolder(h)

\* The dispatcher starts a handler for a notification.
Deliver(h) ==
  /\ delivered < MaxDeliveries
  /\ \E ops \in Notifications : Begin(h, ops)
  /\ UNCHANGED << storeVars, workspaceRootMap, diagnosticPublishMu, disk, shown >>

\* Files change under the server at any time.
DiskChange ==
  /\ \E p \in Paths : \E content \in (Texts \cup {NoText}) \ {disk[p]} :
       disk' = [disk EXCEPT ![p] = content]
  /\ UNCHANGED << storeVars, handlerVars >>

Next == DiskChange \/ \E h \in Handlers : Deliver(h) \/ Step(h)

Spec == Init /\ [][Next]_vars

\* The scheduler runs every handler that can go on; nobody has to send anything.
Fairness == \A h \in Handlers : WF_vars(Step(h))

FairSpec == Spec /\ Fairness

------------------------------------------------------------------------------
(* A handler holds diagnosticPublishMu exactly while it sends, and two     *)
(* handlers never hold the same revision of a path: the revision a handler *)
(* carries identifies its snapshot, which is what comparing snapshots by   *)
(* pointer in publishDocumentDiagnostics relies on.                        *)
Reserved(h) ==
  ~Idle(h) /\ task[h].pc \in {"install", "publish", "send", "recheck"}

RevisionsIdentifySnapshots ==
  /\ \A h \in Handlers : task[h].pc = "send" <=> diagnosticPublishMu = h
  /\ \A g, h \in Handlers :
       g # h /\ Reserved(g) /\ Reserved(h) /\ Doc(g).path = Doc(h).path
         => Doc(g).revision # Doc(h).revision
  /\ \A h \in Handlers : Reserved(h) =>
       Doc(h).revision <= documentRevisions[Doc(h).path]

(* Whatever the interleaving of reservations, parses and installs, a       *)
(* snapshot that appears in the store is the newest one reserved for its   *)
(* path, and is newer than the one it replaces (installDocumentSnapshot    *)
(* rejects the others).                                                    *)
NewestWins == [][
  \A p \in Paths : documents'[p] \notin {documents[p], NoSnapshot} =>
    /\ documents'[p].revision = documentRevisions'[p]
    /\ Stored(p) => documents[p].revision < documents'[p].revision
  ]_vars

(* Indexing never overwrites what the editor has open: while a path is     *)
(* recorded as open its text changes only at the hand of an open, change   *)
(* or save, and only a close stops its being open.                         *)
OpenBuffersAreTheEditors == [][
  \A p \in openDocumentMap :
    /\ Stored(p) /\ documents'[p] # NoSnapshot /\ documents'[p].text # documents[p].text
         => \E h \in Handlers : Updates(h) /\ documents'[p] = Doc(h)
    /\ p \notin openDocumentMap'
         => \E h \in Handlers : At(h, "close", "next") /\ Doc(h).path = p
  ]_vars

(* The client never sees diagnostics go back in time: what is published    *)
(* for a path belongs to a later revision than the last publication for    *)
(* it, and, after the empty list of a close, to a later one than the       *)
(* close.                                                                  *)
PublicationsInRevisionOrder == [][
  \A p \in Paths : shown'[p] # shown[p] /\ shown'[p].text # NoText
    => shown'[p].revision > shown[p].revision
  ]_vars

(* No handler waits forever for diagnosticPublishMu or stops half way:     *)
(* every notification is handled to its end.                               *)
NotificationsFinish == \A h \in Handlers : []<>Idle(h)

------------------------------------------------------------------------------
(* The abstract store this one implements: its registers hold the stored   *)
(* texts, and a write is in flight from its reservation to its install.    *)
Registered == [content : Texts, revision : Nat]

ASSUME RegisterAssumption == NoSnapshot \notin Registered

WritesNewest(h, p) ==
  /\ ~Idle(h) /\ task[h].pc \in {"recheck", "install"}
  /\ Doc(h).path = p
  /\ Doc(h).revision = documentRevisions[p]

RegisterOf(p) ==
  IF Stored(p)
  THEN [content |-> documents[p].text, revision |-> documents[p].revision]
  ELSE NoSnapshot

Store == INSTANCE AbstractStore WITH
  Contents <- Texts,
  Nothing  <- NoSnapshot,
  value    <- [p \in Paths |-> RegisterOf(p)],
  latest   <- documentRevisions,
  writing  <- {p \in Paths : \E h \in Handlers : WritesNewest(h, p)}

(* Opens, changes, saves, closes, index reads and removals, interleaved at *)
(* every critical section, act on the store as reserved writes and         *)
(* retirements of a register do: no write that was overtaken lands, and a  *)
(* document that was closed or removed is not brought back by one.         *)
ImplementsAbstractStore == Store!Spec
==============================================================================
