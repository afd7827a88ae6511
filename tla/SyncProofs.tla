----------------------------- MODULE SyncProofs -----------------------------
(***************************************************************************)
(* Proofs about DocumentStore, each critical section of which keeps the    *)
(* store well typed and its maps in agreement, and about SyncHandlers: its *)
(* types, the agreement of the maps and the identity of snapshots, for any *)
(* number of handlers, paths, folders and notifications.                   *)
(***************************************************************************)
EXTENDS SyncHandlers, TLAPS

------------------------------------------------------------------------------
(* The critical sections of the store.                                     *)

StoreOK == StoreTypeOK /\ StoreConsistent

(* The empty maps of NewHandler agree.                                     *)
LEMMA StoreInitOK == StoreInit => StoreOK
  BY StoreAssumption, SMT
     DEF StoreInit, StoreOK, StoreTypeOK, StoreConsistent, PathConsistent, Stored

(* The origin documentOriginLocked computes consists of the two flags, and *)
(* in a store whose maps agree they are what the two maps say.             *)
LEMMA DocumentOriginType ==
  ASSUME StoreTypeOK, NEW p \in Paths
  PROVE  DocumentOrigin(p) \in SUBSET Origins
  BY SMT DEF StoreTypeOK, DocumentOrigin, Stored, Snapshots, SnapshotsOf, Origins

(* In a store whose maps agree the origin is what the two maps say.        *)
LEMMA DocumentOriginFlags ==
  ASSUME StoreOK, NEW p \in Paths
  PROVE  /\ "open" \in DocumentOrigin(p) <=> p \in openDocumentMap
         /\ "workspace" \in DocumentOrigin(p) <=> p \in workspaceFileMap
  BY SMT DEF StoreOK, StoreConsistent, PathConsistent, DocumentOrigin

(* Taking a revision.                                                      *)
LEMMA ReserveRevisionOK ==
  ASSUME StoreOK, NEW p \in Paths, ReserveRevision(p)
  PROVE  StoreOK'
  BY SMT DEF StoreOK, StoreTypeOK, StoreConsistent, PathConsistent, Stored,
             ReserveRevision, NextRevision, Snapshots, SnapshotsOf

(* Installing a snapshot.                                                  *)
LEMMA InstallSnapshotOK ==
  ASSUME StoreOK, NEW s \in Snapshots, Installable(s), InstallSnapshot(s)
  PROVE  StoreOK'
  <1>1. s.path \in Paths /\ s.text \in Texts /\ s # NoSnapshot
    BY StoreAssumption, SMT DEF Snapshots, SnapshotsOf
  <1>2. StoreTypeOK'
    BY <1>1, SMT DEF StoreOK, StoreTypeOK, InstallSnapshot, SetOriginMaps
  <1>3. ASSUME NEW p \in Paths
        PROVE  PathConsistent(p)'
    <2>1. CASE p = s.path
      BY <1>1, <2>1, SMT DEF StoreOK, StoreTypeOK, PathConsistent, Stored, Installable,
         InstallSnapshot, SetOriginMaps, Snapshots, SnapshotsOf
    <2>2. CASE p # s.path
      BY <1>1, <2>2, SMT DEF StoreOK, StoreTypeOK, StoreConsistent, PathConsistent,
         Stored, InstallSnapshot, SetOriginMaps
    <2>3. QED
      BY <2>1, <2>2
  <1>4. QED
    BY <1>2, <1>3 DEF StoreOK, StoreConsistent

(* Forgetting a document that is not indexed (CloseDocument looks).        *)
LEMMA ForgetDocumentOK ==
  ASSUME StoreOK, NEW p \in Paths, p \notin workspaceFileMap, ForgetDocument(p)
  PROVE  StoreOK'
  BY SMT DEF StoreOK, StoreTypeOK, StoreConsistent, PathConsistent, Stored,
             ForgetDocument, NextRevision, Snapshots, SnapshotsOf

(* The copy with another origin is a snapshot of the next revision.        *)
LEMMA RebrandedType ==
  ASSUME StoreTypeOK, NEW p \in Paths, NEW o \in SUBSET Origins
  PROVE  /\ Rebranded(p, o) \in Snapshots \cup {NoSnapshot}
         /\ Rebranded(p, o) = NoSnapshot <=> documents[p] = NoSnapshot
         /\ Stored(p) => /\ Rebranded(p, o).path = documents[p].path
                         /\ Rebranded(p, o).text = documents[p].text
                         /\ Rebranded(p, o).origin = o
                         /\ Rebranded(p, o).revision = NextRevision(p)
  BY StoreAssumption, SMT DEF StoreTypeOK, Rebranded, Stamped, Stored, NextRevision,
     Snapshots, SnapshotsOf

(* Giving a stored document another origin.                                *)
LEMMA SetDocumentOriginOK ==
  ASSUME StoreOK, NEW p \in Paths, NEW o \in SUBSET Origins, Stored(p),
         SetDocumentOrigin(p, o)
  PROVE  StoreOK'
  <1>1. StoreTypeOK'
    BY RebrandedType, SMT DEF StoreOK, StoreTypeOK, SetDocumentOrigin, SetOriginMaps,
       NextRevision
  <1>2. ASSUME NEW q \in Paths
        PROVE  PathConsistent(q)'
    <2>1. CASE q = p
      BY <2>1, RebrandedType, SMT DEF StoreOK, StoreTypeOK, StoreConsistent,
         PathConsistent, Stored, SetDocumentOrigin, SetOriginMaps, NextRevision
    <2>2. CASE q # p
      BY <2>2, SMT DEF StoreOK, StoreTypeOK, StoreConsistent, PathConsistent,
         Stored, SetDocumentOrigin, SetOriginMaps
    <2>3. QED
      BY <2>1, <2>2
  <1>3. QED
    BY <1>1, <1>2 DEF StoreOK, StoreConsistent

(* Any set of paths leaving the index at once.                             *)
LEMMA LeaveWorkspaceOK ==
  ASSUME StoreOK, NEW gone \in SUBSET Paths, LeaveWorkspace(gone)
  PROVE  StoreOK'
  <1> DEFINE openly(p) == DocumentOrigin(p) \ {"workspace"}
  <1>1. ASSUME NEW p \in Paths PROVE openly(p) \in SUBSET Origins
    BY DocumentOriginType DEF StoreOK
  <1>2. \A p \in Paths :
          documents'[p] = IF p \in gone \ openDocumentMap THEN NoSnapshot
                          ELSE IF p \in gone THEN Rebranded(p, openly(p))
                          ELSE documents[p]
    BY SMT DEF LeaveWorkspace
  <1>3. StoreTypeOK'
    <2>1. documents' \in [Paths -> Snapshots \cup {NoSnapshot}]
      BY <1>1, RebrandedType, SMT DEF StoreOK, StoreTypeOK, LeaveWorkspace
    <2>2. QED
      BY <2>1, SMT DEF StoreOK, StoreTypeOK, LeaveWorkspace, NextRevision
  <1>4. ASSUME NEW p \in Paths
        PROVE  PathConsistent(p)'
    <2>1. CASE p \notin gone
      BY <1>2, <2>1, SMT DEF StoreOK, StoreTypeOK, StoreConsistent, PathConsistent,
         Stored, LeaveWorkspace
    <2>2. CASE p \in gone \ openDocumentMap
      BY <1>2, <2>2, SMT DEF StoreOK, StoreTypeOK, PathConsistent, Stored, LeaveWorkspace
    <2>3. CASE p \in gone \cap openDocumentMap
      BY <1>1, <1>2, <2>3, DocumentOriginFlags, RebrandedType, SMT DEF StoreOK,
         StoreTypeOK, StoreConsistent, PathConsistent, Stored, LeaveWorkspace, NextRevision
    <2>4. QED
      BY <2>1, <2>2, <2>3
  <1>5. QED
    BY <1>3, <1>4 DEF StoreOK, StoreConsistent

------------------------------------------------------------------------------
(* Tasks.                                                                  *)

(* Taking from and adding to the front of a sequence of operations.        *)
LEMMA SequenceFacts ==
  ASSUME NEW S, NEW t \in Seq(S)
  PROVE  /\ t # << >> => Head(t) \in S /\ Tail(t) \in Seq(S)
         /\ \A u \in Seq(S) : u \o t \in Seq(S)
         /\ \A x \in S : /\ << x >> \o t \in Seq(S)
                         /\ << x >> \o t # << >>
                         /\ Head(<< x >> \o t) = x
  BY SMT

(* The head of a handler's list is an operation.                           *)
LEMMA TaskFacts ==
  ASSUME TypeOK, NEW h \in Handlers, ~Idle(h)
  PROVE  /\ OpOf(h) \in Ops
         /\ Tail(task[h].todo) \in Seq(Ops)
         /\ task[h].pc \in PCs
  BY SequenceFacts, SMT DEF TypeOK, Idle, OpOf, Tasks

(* An operation's fields, by its kind.                                     *)
LEMMA OpFacts ==
  ASSUME NEW op \in Ops
  PROVE  /\ op.kind \in {"update", "save"} => op.doc \in Snapshots
         /\ op.kind \in {"close", "restore", "clear", "index", "remove"} => op.doc \in Drafts
         /\ op.kind \in {"addFolder", "removeFolder"} => op.root \in Roots
         /\ op.kind = "walk" => op.paths \in SUBSET Paths
  BY SMT DEF Ops, EditOps, FileOps, FolderOps, WalkOps

(* Continue and FinishWith replace one task by a well-typed one.           *)
LEMMA ContinueTask ==
  ASSUME TypeOK, NEW h \in Handlers, ~Idle(h), NEW pc \in PCs, NEW doc,
         [kind |-> OpOf(h).kind, doc |-> doc] \in Ops,
         Continue(h, pc, doc)
  PROVE  /\ task' \in [Handlers -> Tasks]
         /\ task'[h].pc = pc
         /\ task'[h].todo # << >>
         /\ Head(task'[h].todo) = [kind |-> OpOf(h).kind, doc |-> doc]
         /\ \A g \in Handlers \ {h} : task'[g] = task[g]
  <1> DEFINE op == [kind |-> OpOf(h).kind, doc |-> doc]
             todo == << op >> \o Tail(task[h].todo)
             t == [pc |-> pc, todo |-> todo]
  <1>1. todo \in Seq(Ops) /\ todo # << >> /\ Head(todo) = op
    BY TaskFacts, SequenceFacts
  <1>2. t \in Tasks /\ t.pc = pc /\ t.todo = todo
    BY <1>1 DEF Tasks
  <1>3. task' = [task EXCEPT ![h] = t]
    BY DEF Continue
  <1> HIDE DEF op, todo, t
  <1>4. task' \in [Handlers -> Tasks] /\ task'[h] = t
        /\ \A g \in Handlers \ {h} : task'[g] = task[g]
    BY <1>2, <1>3 DEF TypeOK
  <1>5. QED
    BY <1>1, <1>2, <1>4 DEF op

(* FinishWith leaves a well-typed task at pc "next".                       *)
LEMMA FinishTask ==
  ASSUME TypeOK, NEW h \in Handlers, ~Idle(h), NEW ops \in Seq(Ops),
         FinishWith(h, ops)
  PROVE  /\ task' \in [Handlers -> Tasks]
         /\ task'[h].pc = "next"
         /\ \A g \in Handlers \ {h} : task'[g] = task[g]
  <1> DEFINE todo == ops \o Tail(task[h].todo)
             t == [pc |-> "next", todo |-> todo]
  <1>1. todo \in Seq(Ops)
    BY TaskFacts, SequenceFacts
  <1>2. t \in Tasks /\ t.pc = "next"
    BY <1>1 DEF Tasks, PCs
  <1>3. task' = [task EXCEPT ![h] = t]
    BY DEF FinishWith
  <1> HIDE DEF todo, t
  <1>4. QED
    BY <1>2, <1>3 DEF TypeOK

TasksOK == task \in [Handlers -> Tasks] /\ \A h \in Handlers : WellPlaced(task[h])

(* An operation may go on at a pc that allows it.                          *)
LEMMA ContinueOK ==
  ASSUME TypeOK, NEW h \in Handlers, ~Idle(h), NEW pc \in PCs, NEW doc,
         [kind |-> OpOf(h).kind, doc |-> doc] \in Ops,
         Continue(h, pc, doc),
         Allowed(pc, [kind |-> OpOf(h).kind, doc |-> doc])
  PROVE  TasksOK'
  <1> DEFINE op == [kind |-> OpOf(h).kind, doc |-> doc]
  <1>1. WellPlaced(task'[h])
    <2>1. task'[h].pc = pc /\ task'[h].todo # << >> /\ Head(task'[h].todo) = op
      BY ContinueTask
    <2>2. QED
      BY <2>1 DEF WellPlaced
  <1>2. \A g \in Handlers \ {h} : WellPlaced(task'[g])
    BY ContinueTask DEF TypeOK
  <1>3. QED
    BY <1>1, <1>2, ContinueTask DEF TasksOK

(* An operation may always end, others taking its place.                   *)
LEMMA FinishOK ==
  ASSUME TypeOK, NEW h \in Handlers, ~Idle(h), NEW ops \in Seq(Ops),
         FinishWith(h, ops)
  PROVE  TasksOK'
  <1>1. WellPlaced(task'[h])
    BY FinishTask DEF WellPlaced
  <1>2. \A g \in Handlers \ {h} : WellPlaced(task'[g])
    BY FinishTask DEF TypeOK
  <1>3. QED
    BY <1>1, <1>2, FinishTask DEF TasksOK

(* An operation may end with none in its place.                            *)
LEMMA FinishEmptyOK ==
  ASSUME TypeOK, NEW h \in Handlers, ~Idle(h), Finish(h)
  PROVE  TasksOK'
  <1>1. << >> \in Seq(Ops)
    BY SMT
  <1>2. QED
    BY <1>1, FinishOK DEF Finish

------------------------------------------------------------------------------
(* The inductive invariant: types and the agreement of the maps.           *)

Inv == TypeOK /\ StoreConsistent

OthersOK ==
  /\ workspaceRootMap \in SUBSET Roots
  /\ diagnosticPublishMu \in Handlers \cup {NoHandler}
  /\ disk \in [Paths -> Texts \cup {NoText}]
  /\ shown \in [Paths -> [text : Texts \cup {NoText}, version : Nat, revision : Nat]]
  /\ delivered \in Nat

(* The invariant is that of the store, of the tasks and of the rest.       *)
LEMMA InvParts == Inv <=> StoreOK /\ TasksOK /\ OthersOK
  BY DEF Inv, TypeOK, StoreOK, TasksOK, OthersOK

(* A step that leaves the six maps alone.                                  *)
LEMMA StoreUnchangedOK ==
  ASSUME StoreOK, UNCHANGED storeVars
  PROVE  StoreOK'
  BY DEF StoreOK, StoreTypeOK, StoreConsistent, PathConsistent, Stored, storeVars

(* A step that leaves the other variables alone.                           *)
LEMMA OthersUnchangedOK ==
  ASSUME OthersOK, Quiet
  PROVE  OthersOK'
  BY DEF OthersOK, Quiet

(* Steps that leave the store and everything else but the task alone.      *)
LEMMA TaskStepOK ==
  ASSUME Inv, UNCHANGED storeVars, Quiet, TasksOK'
  PROVE  Inv'
  BY InvParts, StoreUnchangedOK, OthersUnchangedOK DEF Inv, TypeOK, StoreOK, TasksOK, OthersOK

(* Steps that change the store and the task.                               *)
LEMMA StoreStepOK ==
  ASSUME Inv, StoreOK', Quiet, TasksOK'
  PROVE  Inv'
  BY InvParts, OthersUnchangedOK DEF Inv, TypeOK, StoreOK, TasksOK, OthersOK

(* What is known of the operation of a handler at some point.              *)
LEMMA AtFacts ==
  ASSUME TypeOK, NEW h \in Handlers, ~Idle(h)
  PROVE  /\ Updates(h) => Doc(h) \in Snapshots
         /\ Indexing(h) => Doc(h) \in Drafts
         /\ task[h].pc \in {"publish", "send"} => Updates(h)
         /\ task[h].pc \in {"store", "recheck"} => Indexing(h)
         /\ task[h].pc = "lost" => OpOf(h).kind = "restore"
         /\ task[h].pc = "install" => Updates(h) \/ Indexing(h)
         /\ task[h].pc \in {"store", "recheck", "install"} => Doc(h).text # NoText
  <1>1. WellPlaced(task[h]) /\ OpOf(h) \in Ops
    BY TaskFacts DEF TypeOK
  <1>2. QED
    BY <1>1, OpFacts, SMT DEF WellPlaced, Allowed, Updates, Indexing, Doc, OpOf

(* A draft whose text was read is a snapshot that may be stored.           *)
LEMMA DraftWithText ==
  ASSUME NEW doc \in Drafts, doc.text # NoText
  PROVE  doc \in Snapshots
  BY SMT DEF Drafts, Snapshots, SnapshotsOf

(* Stamping a revision and an origin keeps the type.                       *)
LEMMA StampedType ==
  ASSUME NEW revision \in Nat, NEW o \in SUBSET Origins
  PROVE  /\ \A doc \in Snapshots : Stamped(doc, revision, o) \in Snapshots
         /\ \A doc \in Drafts : Stamped(doc, revision, o) \in Drafts
  BY SMT DEF Snapshots, Drafts, SnapshotsOf, Stamped

(* Opens, changes and saves carry whole snapshots.                         *)
LEMMA EditOp ==
  ASSUME NEW kind \in {"update", "save"}, NEW doc \in Snapshots
  PROVE  [kind |-> kind, doc |-> doc] \in Ops
  BY DEF Ops, EditOps

(* Operations on files may carry a draft.                                  *)
LEMMA FileOp ==
  ASSUME NEW kind \in {"close", "restore", "clear", "index", "remove"}, NEW doc \in Drafts
  PROVE  [kind |-> kind, doc |-> doc] \in Ops
  BY DEF Ops, FileOps

(* Only a busy handler is anywhere but at "next".                          *)
LEMMA BusyAt ==
  ASSUME TypeOK, NEW h \in Handlers, task[h].pc # "next"
  PROVE  ~Idle(h)
  BY DEF TypeOK, WellPlaced, Idle

(* A snapshot is a draft whose text is known.                              *)
LEMMA SnapshotsAreDrafts == Snapshots \subseteq Drafts
  BY SMT DEF Snapshots, Drafts, SnapshotsOf

------------------------------------------------------------------------------
(* updateDocument.                                                         *)

(* The steps of updateDocument, for opens, changes and saves.              *)
LEMMA UpdateStepsOK ==
  ASSUME Inv, NEW h \in Handlers,
         \/ LoadSaveVersion(h) \/ ReserveUpdate(h) \/ InstallUpdate(h)
         \/ InstallRejected(h) \/ BeginPublish(h) \/ SkipPublish(h)
         \/ SendDiagnostics(h)
  PROVE  Inv'
  <1> USE InvParts
  <1>0. TypeOK
    BY DEF Inv
  <1>1. CASE LoadSaveVersion(h)
    <2>1. ~Idle(h) /\ OpOf(h).kind = "save" /\ Updates(h)
      BY <1>1 DEF LoadSaveVersion, At, Updates
    <2>2. PICK doc \in Snapshots : Continue(h, "reserve", doc)
      <3>1. Doc(h) \in Snapshots /\ Doc(h).path \in Paths
        BY <1>0, <2>1, AtFacts, SMT DEF Snapshots, SnapshotsOf
      <3>2. Stored(Doc(h).path) => documents[Doc(h).path].version \in Nat
        BY <3>1, SMT DEF StoreOK, StoreTypeOK, Stored, Snapshots, SnapshotsOf
      <3>3. \A v \in Nat : [Doc(h) EXCEPT !.version = v] \in Snapshots
        BY <3>1, SMT DEF Snapshots, SnapshotsOf
      <3>4. QED
        BY <1>1, <3>2, <3>3, SMT DEF LoadSaveVersion
    <2>3. TasksOK'
      BY <1>0, <2>1, <2>2, ContinueOK, EditOp DEF PCs, Allowed
    <2>4. QED
      BY <1>1, <2>3, TaskStepOK DEF LoadSaveVersion
  <1>2. CASE ReserveUpdate(h)
    <2>1. ~Idle(h) /\ OpOf(h).kind \in {"update", "save"} /\ Updates(h)
      BY <1>2 DEF ReserveUpdate, At, Updates
    <2>2. Doc(h) \in Snapshots /\ Doc(h).path \in Paths
      BY <1>0, <2>1, AtFacts, SMT DEF Snapshots, SnapshotsOf
    <2> DEFINE p == Doc(h).path
               o == MutateOrigin(OpOf(h).kind, DocumentOrigin(p))
               doc == Stamped(Doc(h), NextRevision(p), o)
    <2>3. o \in SUBSET Origins
      BY <2>2, DocumentOriginType DEF MutateOrigin, Origins, StoreOK
    <2>4. NextRevision(p) \in Nat
      BY <2>2, SMT DEF StoreOK, StoreTypeOK, NextRevision
    <2>5. doc \in Snapshots /\ doc.text # NoText
      BY <2>2, <2>3, <2>4, StampedType, StoreAssumption, SMT DEF Snapshots, SnapshotsOf
    <2>6. ReserveRevision(p) /\ Continue(h, "install", doc) /\ Quiet
      BY <1>2 DEF ReserveUpdate
    <2> HIDE DEF doc
    <2>7. TasksOK'
      BY <1>0, <2>1, <2>5, <2>6, ContinueOK, EditOp DEF PCs, Allowed
    <2>8. QED
      BY <2>2, <2>6, <2>7, ReserveRevisionOK, StoreStepOK
  <1>3. CASE InstallUpdate(h)
    <2>1. ~Idle(h) /\ OpOf(h).kind \in {"update", "save"} /\ Updates(h)
      BY <1>3 DEF InstallUpdate, Updates
    <2>2. Doc(h) \in Snapshots
      BY <1>0, <2>1, AtFacts
    <2>3. TasksOK'
      BY <1>0, <1>3, <2>1, <2>2, ContinueOK, EditOp DEF InstallUpdate, PCs, Allowed
    <2>4. QED
      BY <1>3, <2>2, <2>3, InstallSnapshotOK, StoreStepOK DEF InstallUpdate
  <1>4. CASE InstallRejected(h)
    BY <1>0, <1>4, BusyAt, FinishEmptyOK, TaskStepOK DEF InstallRejected
  <1>5. CASE BeginPublish(h)
    <2>1. ~Idle(h) /\ Updates(h)
      BY <1>0, <1>5, BusyAt, AtFacts DEF BeginPublish
    <2>2. Doc(h) \in Snapshots /\ OpOf(h).kind \in {"update", "save"}
      BY <1>0, <2>1, AtFacts DEF Updates
    <2>3. TasksOK'
      BY <1>0, <1>5, <2>1, <2>2, ContinueOK, EditOp DEF BeginPublish, PCs, Allowed
    <2>4. StoreOK' /\ OthersOK'
      BY <1>5, StoreUnchangedOK DEF BeginPublish, OthersOK
    <2>5. QED
      BY <2>3, <2>4 DEF Inv, TypeOK, StoreOK, TasksOK, OthersOK
  <1>6. CASE SkipPublish(h)
    BY <1>0, <1>6, BusyAt, FinishEmptyOK, TaskStepOK DEF SkipPublish
  <1>7. CASE SendDiagnostics(h)
    <2>1. ~Idle(h) /\ Updates(h)
      BY <1>0, <1>7, BusyAt, AtFacts DEF SendDiagnostics
    <2>2. Doc(h) \in Snapshots
      BY <1>0, <2>1, AtFacts
    <2>3. DiagnosticsOf(Doc(h)) \in
            [text : Texts \cup {NoText}, version : Nat, revision : Nat]
      BY <2>2, SMT DEF DiagnosticsOf, Snapshots, SnapshotsOf
    <2>4. TasksOK'
      BY <1>0, <1>7, <2>1, FinishEmptyOK DEF SendDiagnostics
    <2>5. StoreOK' /\ OthersOK'
      BY <1>7, <2>3, StoreUnchangedOK DEF SendDiagnostics, OthersOK
    <2>6. QED
      BY <2>4, <2>5 DEF Inv, TypeOK, StoreOK, TasksOK, OthersOK
  <1>8. QED
    BY <1>1, <1>2, <1>3, <1>4, <1>5, <1>6, <1>7

------------------------------------------------------------------------------
(* DidClose.                                                               *)

(* The operations the handlers make of a notification.                     *)
LEMMA DraftOp ==
  ASSUME NEW kind \in {"close", "restore", "clear", "index", "remove"},
         NEW p \in Paths, NEW text \in Texts \cup {NoText}, NEW version \in Nat
  PROVE  Op(kind, p, text, version) \in Ops
  BY SMT DEF Op, Ops, FileOps, Drafts, SnapshotsOf, Origins

(* The steps of DidClose: the indexed document stays, another is forgotten. *)
LEMMA CloseStepsOK ==
  ASSUME Inv, NEW h \in Handlers, CloseDocument(h) \/ ClearDiagnostics(h)
  PROVE  Inv'
  <1> USE InvParts
  <1>0. TypeOK
    BY DEF Inv
  <1>1. CASE CloseDocument(h)
    <2>1. ~Idle(h) /\ OpOf(h).kind = "close"
      BY <1>1 DEF CloseDocument, At
    <2>2. Doc(h) \in Drafts /\ Doc(h).path \in Paths
      BY <1>0, <2>1, TaskFacts, OpFacts, SMT DEF Doc, Drafts, SnapshotsOf
    <2> DEFINE p == Doc(h).path
               origin == DocumentOrigin(p) \ {"open"}
               clear == [kind |-> "clear", doc |-> [Doc(h) EXCEPT !.revision = NextRevision(p)]]
               restore == Op("restore", p, NoText, 0)
    <2>3. NextRevision(p) \in Nat /\ origin \in SUBSET Origins
      BY <2>2, DocumentOriginType, SMT DEF StoreOK, StoreTypeOK, NextRevision
    <2>4. clear \in Ops
      <3>1. [Doc(h) EXCEPT !.revision = NextRevision(p)] \in Drafts
        BY <2>2, <2>3, SMT DEF Drafts, SnapshotsOf
      <3>2. QED
        BY <3>1, FileOp
    <2>5. restore \in Ops
      BY <2>2, DraftOp
    <2>6. << restore, clear >> \in Seq(Ops) /\ << clear >> \in Seq(Ops)
      <3> HIDE DEF restore, clear
      <3>1. QED
        BY <2>4, <2>5, SMT
    <2>7. CASE "workspace" \in origin
      <3>1. SetDocumentOrigin(p, origin) /\ FinishWith(h, << restore, clear >>) /\ Quiet
        BY <1>1, <2>7 DEF CloseDocument
      <3>2. p \in workspaceFileMap
        BY <2>2, <2>7, DocumentOriginFlags
      <3>3. Stored(p)
        BY <2>2, <3>2 DEF StoreOK, StoreConsistent, PathConsistent
      <3>4. StoreOK'
        BY <2>2, <2>3, <3>1, <3>3, SetDocumentOriginOK
      <3>5. TasksOK'
        BY <1>0, <2>1, <2>6, <3>1, FinishOK
      <3>6. QED
        BY <3>1, <3>4, <3>5, StoreStepOK
    <2>8. CASE "workspace" \notin origin
      <3>1. ForgetDocument(p) /\ FinishWith(h, << clear >>) /\ Quiet
        BY <1>1, <2>8 DEF CloseDocument
      <3>2. p \notin workspaceFileMap
        BY <2>2, <2>8, DocumentOriginFlags
      <3>3. StoreOK'
        BY <2>2, <3>1, <3>2, ForgetDocumentOK
      <3>4. TasksOK'
        BY <1>0, <2>1, <2>6, <3>1, FinishOK
      <3>5. QED
        BY <3>1, <3>3, <3>4, StoreStepOK
    <2>9. QED
      BY <2>7, <2>8
  <1>2. CASE ClearDiagnostics(h)
    <2>1. ~Idle(h) /\ OpOf(h).kind = "clear"
      BY <1>2 DEF ClearDiagnostics, At
    <2>2. Doc(h) \in Drafts
      BY <1>0, <2>1, TaskFacts, OpFacts DEF Doc
    <2>3. NoDiagnostics(Doc(h).revision) \in
            [text : Texts \cup {NoText}, version : Nat, revision : Nat]
      BY <2>2, SMT DEF NoDiagnostics, Drafts, SnapshotsOf
    <2>4. TasksOK'
      BY <1>0, <1>2, <2>1, FinishEmptyOK DEF ClearDiagnostics
    <2>5. StoreOK' /\ OthersOK'
      BY <1>2, <2>3, StoreUnchangedOK DEF ClearDiagnostics, OthersOK
    <2>6. QED
      BY <2>4, <2>5 DEF Inv, TypeOK, StoreOK, TasksOK, OthersOK
  <1>3. QED
    BY <1>1, <1>2

------------------------------------------------------------------------------
(* Indexing, restoring and removing a file.                                *)

(* The steps of indexWorkspaceFile, restoreWorkspaceFile, removeWorkspaceFile. *)
LEMMA IndexStepsOK ==
  ASSUME Inv, NEW h \in Handlers,
         \/ SkipIndex(h) \/ StartIndex(h) \/ ReadFile(h) \/ ReadFileFails(h)
         \/ ForgetLostFile(h) \/ StoreReserve(h) \/ StoreRecheck(h)
         \/ StoreAbandoned(h) \/ InstallIndexed(h) \/ RemoveWorkspaceFile(h)
  PROVE  Inv'
  <1> USE InvParts
  <1>0. TypeOK
    BY DEF Inv
  <1>1. CASE SkipIndex(h)
    BY <1>0, <1>1, FinishEmptyOK, TaskStepOK DEF SkipIndex, At
  <1>2. CASE StartIndex(h)
    <2>1. ~Idle(h) /\ OpOf(h).kind = "index" /\ Doc(h) \in Drafts
      BY <1>0, <1>2, AtFacts DEF StartIndex, At, Indexing
    <2>2. TasksOK'
      BY <1>0, <1>2, <2>1, ContinueOK, FileOp DEF StartIndex, PCs, Allowed
    <2>3. QED
      BY <1>2, <2>2, TaskStepOK DEF StartIndex
  <1>3. CASE ReadFile(h)
    <2>1. ~Idle(h) /\ OpOf(h).kind \in {"index", "restore"} /\ Doc(h) \in Drafts
      BY <1>0, <1>3, AtFacts DEF ReadFile, Reading, At, Indexing
    <2> DEFINE doc == [Doc(h) EXCEPT !.text = disk[Doc(h).path]]
    <2>2. doc \in Drafts /\ doc.text # NoText
      BY <1>3, <2>1, SMT DEF ReadFile, OthersOK, Drafts, SnapshotsOf
    <2>3. Continue(h, "store", doc)
      BY <1>3 DEF ReadFile
    <2> HIDE DEF doc
    <2>4. TasksOK'
      BY <1>0, <2>1, <2>2, <2>3, ContinueOK, FileOp DEF PCs, Allowed
    <2>5. QED
      BY <1>3, <2>4, TaskStepOK DEF ReadFile
  <1>4. CASE ReadFileFails(h)
    <2>1. ~Idle(h) /\ OpOf(h).kind \in {"index", "restore"} /\ Doc(h) \in Drafts
      BY <1>0, <1>4, AtFacts DEF ReadFileFails, Reading, At, Indexing
    <2>2. CASE OpOf(h).kind = "restore"
      <3>1. TasksOK'
        BY <1>0, <1>4, <2>1, <2>2, ContinueOK, FileOp DEF ReadFileFails, PCs, Allowed
      <3>2. QED
        BY <1>4, <3>1, TaskStepOK DEF ReadFileFails
    <2>3. CASE OpOf(h).kind # "restore"
      BY <1>0, <1>4, <2>1, <2>3, FinishEmptyOK, TaskStepOK DEF ReadFileFails
    <2>4. QED
      BY <2>2, <2>3
  <1>5. CASE ForgetLostFile(h)
    <2>1. ~Idle(h) /\ OpOf(h).kind = "restore"
      BY <1>0, <1>5, BusyAt, AtFacts DEF ForgetLostFile
    <2>2. Doc(h).path \in Paths
      BY <1>0, <2>1, AtFacts, SMT DEF Indexing, Drafts, SnapshotsOf
    <2>3. StoreOK'
      BY <1>5, <2>2, LeaveWorkspaceOK, StoreUnchangedOK DEF ForgetLostFile
    <2>4. QED
      BY <1>0, <1>5, <2>1, <2>3, FinishEmptyOK, StoreStepOK DEF ForgetLostFile
  <1>6. CASE StoreReserve(h)
    <2>1. ~Idle(h) /\ OpOf(h).kind \in {"index", "restore"}
          /\ Doc(h) \in Snapshots /\ Doc(h).text # NoText
      BY <1>0, <1>6, BusyAt, AtFacts, DraftWithText DEF StoreReserve, Indexing
    <2>2. Doc(h).path \in Paths
      BY <2>1, SMT DEF Snapshots, SnapshotsOf
    <2>3. NextRevision(Doc(h).path) \in Nat
      BY <2>2, SMT DEF StoreOK, StoreTypeOK, NextRevision
    <2> DEFINE doc == Stamped(Doc(h), NextRevision(Doc(h).path), {"workspace"})
    <2>4. doc \in Drafts /\ doc.text # NoText
      BY <2>1, <2>3, StampedType, SnapshotsAreDrafts DEF Origins, Stamped
    <2>5. ReserveRevision(Doc(h).path) /\ Continue(h, "recheck", doc) /\ Quiet
      BY <1>6 DEF StoreReserve
    <2> HIDE DEF doc
    <2>6. TasksOK'
      BY <1>0, <2>1, <2>4, <2>5, ContinueOK, FileOp DEF PCs, Allowed
    <2>7. QED
      BY <2>2, <2>5, <2>6, ReserveRevisionOK, StoreStepOK
  <1>7. CASE StoreRecheck(h)
    <2>1. ~Idle(h) /\ OpOf(h).kind \in {"index", "restore"}
          /\ Doc(h) \in Drafts /\ Doc(h).text # NoText
      BY <1>0, <1>7, BusyAt, AtFacts DEF StoreRecheck, Indexing
    <2>2. TasksOK'
      BY <1>0, <1>7, <2>1, ContinueOK, FileOp DEF StoreRecheck, PCs, Allowed
    <2>3. QED
      BY <1>7, <2>2, TaskStepOK DEF StoreRecheck
  <1>8. CASE StoreAbandoned(h)
    BY <1>0, <1>8, BusyAt, FinishEmptyOK, TaskStepOK DEF StoreAbandoned
  <1>9. CASE InstallIndexed(h)
    <2>1. ~Idle(h) /\ Doc(h) \in Snapshots
      BY <1>0, <1>9, BusyAt, AtFacts, DraftWithText DEF InstallIndexed, Indexing
    <2>2. QED
      BY <1>0, <1>9, <2>1, InstallSnapshotOK, FinishEmptyOK, StoreStepOK DEF InstallIndexed
  <1>10. CASE RemoveWorkspaceFile(h)
    <2>1. ~Idle(h) /\ OpOf(h).kind = "remove"
      BY <1>10 DEF RemoveWorkspaceFile, At
    <2>2. Doc(h).path \in Paths
      BY <1>0, <2>1, TaskFacts, OpFacts, SMT DEF Doc, Drafts, SnapshotsOf
    <2>3. StoreOK'
      BY <1>10, <2>2, LeaveWorkspaceOK DEF RemoveWorkspaceFile
    <2>4. QED
      BY <1>0, <1>10, <2>1, <2>3, FinishEmptyOK, StoreStepOK DEF RemoveWorkspaceFile
  <1>11. QED
    BY <1>1, <1>2, <1>3, <1>4, <1>5, <1>6, <1>7, <1>8, <1>9, <1>10

------------------------------------------------------------------------------
(* Folders.                                                                *)

(* The steps that walk a folder, and its removal.                          *)
LEMMA FolderStepsOK ==
  ASSUME Inv, NEW h \in Handlers,
         \/ AddFolder(h) \/ AddFolderFails(h) \/ WalkNext(h) \/ WalkDone(h)
         \/ RemoveFolder(h)
  PROVE  Inv'
  <1> USE InvParts
  <1>0. TypeOK
    BY DEF Inv
  <1>1. CASE AddFolder(h)
    <2>1. ~Idle(h) /\ OpOf(h).root \in Roots
      BY <1>0, <1>1, TaskFacts, OpFacts DEF AddFolder, At
    <2> DEFINE walk == [kind |-> "walk", paths |-> Listing(OpOf(h).root)]
    <2>2. walk \in Ops
      <3>1. Listing(OpOf(h).root) \in SUBSET Paths
        BY <2>1, SyncAssumption, SMT DEF Listing
      <3>2. QED
        BY <3>1 DEF Ops, WalkOps
    <2>3. FinishWith(h, << walk >>)
      BY <1>1 DEF AddFolder
    <2> HIDE DEF walk
    <2>4. << walk >> \in Seq(Ops)
      BY <2>2, SMT
    <2>5. TasksOK'
      BY <1>0, <2>1, <2>3, <2>4, FinishOK
    <2>6. StoreOK' /\ OthersOK'
      BY <1>1, <2>1, StoreUnchangedOK DEF AddFolder, OthersOK
    <2>7. QED
      BY <2>5, <2>6 DEF Inv, TypeOK, StoreOK, TasksOK, OthersOK
  <1>2. CASE AddFolderFails(h)
    BY <1>0, <1>2, FinishEmptyOK, TaskStepOK DEF AddFolderFails, At
  <1>3. CASE WalkNext(h)
    <2>1. ~Idle(h) /\ OpOf(h).paths \in SUBSET Paths
      BY <1>0, <1>3, TaskFacts, OpFacts DEF WalkNext, At
    <2> DEFINE rest(p) == [kind |-> "walk", paths |-> OpOf(h).paths \ {p}]
    <2>2. PICK p \in OpOf(h).paths : FinishWith(h, << IndexFile(p), rest(p) >>)
      BY <1>3 DEF WalkNext
    <2>3. IndexFile(p) \in Ops /\ rest(p) \in Ops
      <3>1. IndexFile(p) \in Ops
        BY <2>1, <2>2, DraftOp DEF IndexFile
      <3>2. rest(p) \in Ops
        BY <2>1 DEF Ops, WalkOps
      <3>3. QED
        BY <3>1, <3>2
    <2> HIDE DEF rest
    <2>4. << IndexFile(p), rest(p) >> \in Seq(Ops)
      BY <2>3, SMT
    <2>5. TasksOK'
      BY <1>0, <2>1, <2>2, <2>4, FinishOK
    <2>6. QED
      BY <1>3, <2>5, TaskStepOK DEF WalkNext
  <1>4. CASE WalkDone(h)
    BY <1>0, <1>4, FinishEmptyOK, TaskStepOK DEF WalkDone, At
  <1>5. CASE RemoveFolder(h)
    <2>1. ~Idle(h)
      BY <1>5 DEF RemoveFolder, At
    <2>2. PICK gone \in SUBSET workspaceFileMap : LeaveWorkspace(gone)
      BY <1>5 DEF RemoveFolder
    <2>3. gone \in SUBSET Paths
      BY <2>2 DEF StoreOK, StoreTypeOK
    <2>4. StoreOK'
      BY <2>2, <2>3, LeaveWorkspaceOK
    <2>5. TasksOK'
      BY <1>0, <1>5, <2>1, FinishEmptyOK DEF RemoveFolder
    <2>6. OthersOK'
      BY <1>5 DEF RemoveFolder, OthersOK
    <2>7. QED
      BY <2>4, <2>5, <2>6 DEF Inv, TypeOK, StoreOK, TasksOK, OthersOK
  <1>6. QED
    BY <1>1, <1>2, <1>3, <1>4, <1>5

------------------------------------------------------------------------------
(* The environment, and the theorems.                                      *)

(* Every notification is a list of operations.                             *)
LEMMA NotificationsType == Notifications \subseteq Seq(Ops)
  <1> USE SyncAssumption
  <1>1. ASSUME NEW p \in Paths, NEW t \in Texts, NEW v \in Nat,
               NEW kind \in {"update", "save"}
        PROVE  << Op(kind, p, t, v) >> \in Seq(Ops)
    <2>1. Op(kind, p, t, v) \in Ops
      BY SMT DEF Op, Ops, EditOps, Snapshots, SnapshotsOf, Origins
    <2>2. QED
      BY <2>1, SMT
  <1>2. ASSUME NEW p \in Paths
        PROVE  /\ Op("close", p, NoText, 0) \in Ops
               /\ IndexFile(p) \in Ops /\ RemoveFile(p) \in Ops
    BY DraftOp DEF IndexFile, RemoveFile
  <1>3. ASSUME NEW r \in Roots
        PROVE  Folder("addFolder", r) \in Ops /\ Folder("removeFolder", r) \in Ops
    BY DEF Folder, Ops, FolderOps
  <1>4. \A x \in Ops : << x >> \in Seq(Ops)
    BY SMT
  <1>5. \A x, y \in Ops : << x, y >> \in Seq(Ops)
    BY SMT
  <1>6. SUFFICES ASSUME NEW ops \in Notifications
                 PROVE  ops \in Seq(Ops)
    OBVIOUS
  <1>7. CASE \E p \in Paths, t \in Texts, v \in Versions : ops = DidOpen(p, t, v)
    BY <1>1, <1>7 DEF DidOpen
  <1>8. CASE \E p \in Paths, t \in Texts : ops = DidSave(p, t)
    BY <1>1, <1>8 DEF DidSave
  <1>9. CASE \E p \in Paths : ops = DidClose(p)
    BY <1>2, <1>4, <1>9 DEF DidClose
  <1>10. CASE \E p \in Paths : ops = << IndexFile(p) >>
    BY <1>2, <1>4, <1>10
  <1>11. CASE \E p \in Paths : ops = << RemoveFile(p) >>
    BY <1>2, <1>4, <1>11
  <1>12. CASE \E p, q \in Paths : ops = DidRenameFiles(p, q)
    BY <1>2, <1>5, <1>12 DEF DidRenameFiles
  <1>13. CASE \E r \in Roots : ops = << Folder("addFolder", r) >>
    BY <1>3, <1>4, <1>13
  <1>14. CASE \E r \in Roots : ops = << Folder("removeFolder", r) >>
    BY <1>3, <1>4, <1>14
  <1>15. CASE \E r, s \in Roots : ops = DidChangeWorkspaceFolders(r, s)
    BY <1>3, <1>5, <1>15 DEF DidChangeWorkspaceFolders
  <1>16. QED
    BY <1>6, <1>7, <1>8, <1>9, <1>10, <1>11, <1>12, <1>13, <1>14, <1>15 DEF Notifications

(* Starting a handler.                                                     *)
LEMMA BeginOK ==
  ASSUME TypeOK, NEW h \in Handlers, NEW ops \in Seq(Ops), Begin(h, ops)
  PROVE  TasksOK' /\ delivered' \in Nat
  <1> DEFINE t == [pc |-> "next", todo |-> ops]
  <1>2. t \in Tasks /\ t.pc = "next"
    BY DEF Tasks, PCs
  <1>3. task' = [task EXCEPT ![h] = t] /\ delivered' = delivered + 1
    BY DEF Begin
  <1> HIDE DEF t
  <1>4. task' \in [Handlers -> Tasks] /\ task'[h] = t
        /\ \A g \in Handlers \ {h} : task'[g] = task[g]
    BY <1>2, <1>3 DEF TypeOK
  <1>5. QED
    BY <1>2, <1>3, <1>4 DEF TypeOK, TasksOK, WellPlaced

(* The invariant holds of a server that has just started.                  *)
LEMMA InitOK == Init => Inv
  <1> SUFFICES ASSUME Init PROVE Inv
    OBVIOUS
  <1>1. StoreOK
    BY StoreInitOK DEF Init
  <1>2. TasksOK
    <2>1. << >> \in Seq(Ops)
      BY SMT
    <2>2. [pc |-> "next", todo |-> << >>] \in Tasks
      BY <2>1 DEF Tasks, PCs
    <2>3. QED
      BY <2>2 DEF Init, TasksOK, WellPlaced
  <1>3. OthersOK
    BY SMT DEF Init, OthersOK, NoDiagnostics
  <1>4. QED
    BY <1>1, <1>2, <1>3, InvParts

(* Every step of a handler, of the dispatcher and of the disk keeps the invariant. *)
LEMMA NextOK == Inv /\ [Next]_vars => Inv'
  <1> SUFFICES ASSUME Inv, [Next]_vars PROVE Inv'
    OBVIOUS
  <1> USE InvParts
  <1>0. TypeOK
    BY DEF Inv
  <1>1. ASSUME NEW h \in Handlers, Step(h)
        PROVE  Inv'
    BY <1>1, UpdateStepsOK, CloseStepsOK, IndexStepsOK, FolderStepsOK DEF Step
  <1>2. ASSUME NEW h \in Handlers, Deliver(h)
        PROVE  Inv'
    <2>1. PICK ops \in Notifications : Begin(h, ops)
      BY <1>2 DEF Deliver
    <2>2. TasksOK' /\ delivered' \in Nat
      BY <1>0, <2>1, NotificationsType, BeginOK
    <2>3. StoreOK' /\ OthersOK'
      BY <1>2, <2>2, StoreUnchangedOK DEF Deliver, OthersOK
    <2>4. QED
      BY <2>2, <2>3 DEF Inv, TypeOK, StoreOK, TasksOK, OthersOK
  <1>3. CASE DiskChange
    <2>1. StoreOK' /\ OthersOK'
      BY <1>3, StoreUnchangedOK DEF DiskChange, OthersOK, handlerVars
    <2>2. TasksOK'
      BY <1>3 DEF DiskChange, handlerVars, TasksOK, WellPlaced
    <2>3. QED
      BY <2>1, <2>2 DEF Inv, TypeOK, StoreOK, TasksOK, OthersOK
  <1>4. CASE UNCHANGED vars
    <2>1. StoreOK' /\ OthersOK'
      BY <1>4, StoreUnchangedOK DEF vars, OthersOK, handlerVars
    <2>2. TasksOK'
      BY <1>4 DEF vars, handlerVars, TasksOK, WellPlaced
    <2>3. QED
      BY <2>1, <2>2 DEF Inv, TypeOK, StoreOK, TasksOK, OthersOK
  <1>5. QED
    BY <1>1, <1>2, <1>3, <1>4 DEF Next

(* The handlers keep their types: in particular a snapshot is never stored *)
(* without a text, so a failed read of a file never reaches the store.     *)
THEOREM TypeCorrect == Spec => []TypeOK
  <1>1. Inv => TypeOK
    BY DEF Inv
  <1>2. QED
    BY <1>1, InitOK, NextOK, PTL DEF Spec

(* In every interleaving the store's maps agree with one another.          *)
THEOREM StoreStaysConsistent == Spec => []StoreConsistent
  <1>1. Inv => StoreConsistent
    BY DEF Inv
  <1>2. QED
    BY <1>1, InitOK, NextOK, PTL DEF Spec
=============================================================================
