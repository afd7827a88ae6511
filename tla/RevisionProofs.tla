---------------------------- MODULE RevisionProofs ----------------------------
(***************************************************************************)
(* Proofs about the revisions of SyncHandlers: they identify snapshots,    *)
(* the newest wins, and the store implements AbstractStore, for any number *)
(* of handlers, paths, folders and notifications.                          *)
(*                                                                         *)
(* What an action does to revisions is one of four things: nothing, to     *)
(* reserve one, to install the snapshot of one, or to retire those in      *)
(* flight.  StepKinds sorts the actions; all that follows looks at the     *)
(* four kinds only.                                                        *)
(***************************************************************************)
EXTENDS SyncProofs

\* A handler with a write in flight.
Writing(h) == ~Idle(h) /\ task[h].pc \in {"recheck", "install"}

OthersWait(h) == \A g \in Handlers \ {h} : task'[g] = task[g]

LocalStep(h) ==
  /\ UNCHANGED << documents, documentRevisions >>
  /\ Reserved(h)' => Reserved(h) /\ Doc(h)' = Doc(h)
  /\ Writing(h)' => Writing(h)
  /\ Reserved(h)' /\ Writing(h) => Writing(h)'

ReserveStep(h) ==
  /\ ~Reserved(h)
  /\ Writing(h)'
  /\ Doc(h)'.path \in Paths
  /\ Doc(h)'.revision = NextRevision(Doc(h)'.path)
  /\ ReserveRevision(Doc(h)'.path)

InstallStep(h) ==
  /\ Writing(h)
  /\ Doc(h) \in Snapshots
  /\ Installable(Doc(h))
  /\ InstallSnapshot(Doc(h))
  /\ ~Writing(h)'
  /\ Reserved(h)' => Doc(h)' = Doc(h)

Retires(kept, lost) ==
  \A p \in Paths :
    /\ documentRevisions'[p] = IF p \in kept \cup lost THEN NextRevision(p)
                               ELSE documentRevisions[p]
    /\ p \in lost => documents'[p] = NoSnapshot
    /\ p \in kept => /\ Stored(p)' <=> Stored(p)
                     /\ Stored(p) => /\ documents'[p].text = documents[p].text
                                     /\ documents'[p].revision = NextRevision(p)
    /\ p \notin kept \cup lost => documents'[p] = documents[p]

RetireStep(h) ==
  /\ ~Reserved(h) /\ ~Reserved(h)'
  /\ \E kept, lost \in SUBSET Paths : kept \cap lost = {} /\ Retires(kept, lost)

Kinds(h) ==
  /\ OthersWait(h)
  /\ LocalStep(h) \/ ReserveStep(h) \/ InstallStep(h) \/ RetireStep(h)

------------------------------------------------------------------------------
(* What Continue and FinishWith leave to be seen of the task.              *)
LEMMA ContinueView ==
  ASSUME TypeOK, NEW h \in Handlers, ~Idle(h), NEW pc, NEW doc, Continue(h, pc, doc)
  PROVE  /\ OthersWait(h)
         /\ ~Idle(h)'
         /\ task'[h].pc = pc
         /\ Doc(h)' = doc
  <1> DEFINE op == [kind |-> OpOf(h).kind, doc |-> doc]
             rest == Tail(task[h].todo)
             t == [pc |-> pc, todo |-> << op >> \o rest]
  <1>1. rest \in Seq(Ops \cup {op})
    <2>1. rest \in Seq(Ops)
      BY TaskFacts
    <2> HIDE DEF rest, op
    <2>2. QED
      BY <2>1, SMT
  <1>2. t.todo # << >> /\ Head(t.todo) = op /\ t.pc = pc
    <2> HIDE DEF rest, op
    <2>1. op \in Ops \cup {op}
      OBVIOUS
    <2>2. QED
      BY <1>1, <2>1, SequenceFacts
  <1>3. task' = [task EXCEPT ![h] = t]
    BY DEF Continue
  <1> HIDE DEF t
  <1>4. task'[h] = t /\ OthersWait(h)
    BY <1>3 DEF TypeOK, OthersWait
  <1>5. QED
    BY <1>2, <1>4 DEF Idle, Doc, OpOf

(* After FinishWith nothing is reserved.                                   *)
LEMMA FinishView ==
  ASSUME TypeOK, NEW h \in Handlers, NEW ops, FinishWith(h, ops)
  PROVE  OthersWait(h) /\ task'[h].pc = "next" /\ ~Reserved(h)' /\ ~Writing(h)'
  <1>1. OthersWait(h) /\ task'[h].pc = "next"
    BY DEF TypeOK, FinishWith, OthersWait
  <1>2. QED
    BY <1>1 DEF Reserved, Writing

(* A step that leaves the store alone and ends its operation.              *)
LEMMA FinishIsLocal ==
  ASSUME TypeOK, NEW h \in Handlers, NEW ops, FinishWith(h, ops), UNCHANGED storeVars
  PROVE  Kinds(h)
  BY FinishView DEF Kinds, LocalStep, storeVars

(* A step that leaves the store alone and goes on before any reservation.  *)
LEMMA PreparationIsLocal ==
  ASSUME TypeOK, NEW h \in Handlers, ~Idle(h), NEW doc,
         NEW pc \in {"reserve", "read", "lost", "store"},
         Continue(h, pc, doc), UNCHANGED storeVars
  PROVE  Kinds(h)
  BY ContinueView DEF Kinds, LocalStep, storeVars, Reserved, Writing

(* One path retired, its snapshot forgotten.                               *)
LEMMA ForgetRetires ==
  ASSUME StoreOK, NEW p \in Paths, ForgetDocument(p)
  PROVE  Retires({}, {p})
  BY SMT DEF StoreOK, StoreTypeOK, ForgetDocument, Retires, NextRevision

(* One path retired, its snapshot kept.                                    *)
LEMMA OriginRetires ==
  ASSUME StoreOK, NEW p \in Paths, NEW o \in SUBSET Origins, SetDocumentOrigin(p, o)
  PROVE  Retires({p}, {})
  BY RebrandedType, SMT DEF StoreOK, StoreTypeOK, SetDocumentOrigin, Retires,
     NextRevision, Stored

(* Several paths retired, the open ones kept.                              *)
LEMMA LeaveRetires ==
  ASSUME StoreOK, NEW gone \in SUBSET Paths, LeaveWorkspace(gone)
  PROVE  Retires(gone \cap openDocumentMap, gone \ openDocumentMap)
  <1> DEFINE openly(p) == DocumentOrigin(p) \ {"workspace"}
  <1>1. ASSUME NEW p \in Paths PROVE openly(p) \in SUBSET Origins
    BY DocumentOriginType DEF StoreOK
  <1>2. \A p \in Paths :
          /\ documents'[p] = IF p \in gone \ openDocumentMap THEN NoSnapshot
                             ELSE IF p \in gone THEN Rebranded(p, openly(p))
                             ELSE documents[p]
          /\ documentRevisions'[p] = IF p \in gone THEN NextRevision(p)
                                     ELSE documentRevisions[p]
    BY SMT DEF LeaveWorkspace
  <1>3. \A p \in Paths :
          /\ Rebranded(p, openly(p)) = NoSnapshot <=> documents[p] = NoSnapshot
          /\ Stored(p) => /\ Rebranded(p, openly(p)).text = documents[p].text
                          /\ Rebranded(p, openly(p)).revision = NextRevision(p)
    BY <1>1, RebrandedType DEF StoreOK
  <1> HIDE DEF openly
  <1>4. QED
    BY <1>2, <1>3 DEF Retires, Stored

(* Ending an operation with a retirement.                                  *)
LEMMA FinishIsRetire ==
  ASSUME TypeOK, NEW h \in Handlers, ~Reserved(h), NEW ops, FinishWith(h, ops),
         NEW kept \in SUBSET Paths, NEW lost \in SUBSET Paths,
         kept \cap lost = {}, Retires(kept, lost)
  PROVE  Kinds(h)
  BY FinishView DEF Kinds, RetireStep

------------------------------------------------------------------------------
(* The actions, by kind.                                                   *)

(* Taking a revision for the snapshot the handler goes on with.            *)
LEMMA ReservingSteps ==
  ASSUME Inv, NEW h \in Handlers, ReserveUpdate(h) \/ StoreReserve(h)
  PROVE  OthersWait(h) /\ ReserveStep(h)
  <1> USE InvParts
  <1>0. TypeOK
    BY DEF Inv
  <1>1. PICK pc, o :
          /\ pc \in {"install", "recheck"}
          /\ Continue(h, pc, Stamped(Doc(h), NextRevision(Doc(h).path), o))
          /\ ReserveRevision(Doc(h).path)
    BY DEF ReserveUpdate, StoreReserve
  <1>2. ~Idle(h) /\ ~Reserved(h)
    BY <1>0, BusyAt DEF ReserveUpdate, StoreReserve, At, Reserved
  <1>3. Updates(h) \/ Indexing(h)
    BY <1>0, <1>2, AtFacts DEF ReserveUpdate, StoreReserve, At, Updates
  <1>4. Doc(h) \in Snapshots \cup Drafts
    BY <1>0, <1>2, <1>3, AtFacts
  <1>5. Doc(h).path \in Paths
    BY <1>4, SMT DEF Snapshots, Drafts, SnapshotsOf
  <1> DEFINE doc == Stamped(Doc(h), NextRevision(Doc(h).path), o)
  <1>6. doc.path = Doc(h).path /\ doc.revision = NextRevision(Doc(h).path)
    BY DEF Stamped
  <1>7. OthersWait(h) /\ ~Idle(h)' /\ task'[h].pc = pc /\ Doc(h)' = doc
    BY <1>0, <1>1, <1>2, ContinueView
  <1> HIDE DEF doc
  <1>8. Writing(h)'
    BY <1>1, <1>7 DEF Writing
  <1>9. QED
    BY <1>1, <1>2, <1>5, <1>6, <1>7, <1>8 DEF ReserveStep

(* Installing the snapshot of a reservation.                               *)
LEMMA InstallingSteps ==
  ASSUME Inv, NEW h \in Handlers, InstallUpdate(h) \/ InstallIndexed(h)
  PROVE  OthersWait(h) /\ InstallStep(h)
  <1> USE InvParts
  <1>0. TypeOK
    BY DEF Inv
  <1>1. ~Idle(h) /\ Writing(h) /\ Doc(h) \in Snapshots
    BY <1>0, BusyAt, AtFacts, DraftWithText
       DEF InstallUpdate, InstallIndexed, Writing, Updates, Indexing
  <1>2. Installable(Doc(h)) /\ InstallSnapshot(Doc(h))
    BY DEF InstallUpdate, InstallIndexed
  <1>3. CASE InstallUpdate(h)
    <2>1. OthersWait(h) /\ task'[h].pc = "publish" /\ Doc(h)' = Doc(h)
      BY <1>0, <1>1, <1>3, ContinueView DEF InstallUpdate
    <2>2. QED
      BY <1>1, <1>2, <2>1 DEF InstallStep, Writing
  <1>4. CASE InstallIndexed(h)
    <2>1. OthersWait(h) /\ ~Reserved(h)' /\ ~Writing(h)'
      BY <1>0, <1>4, FinishView DEF InstallIndexed, Finish
    <2>2. QED
      BY <1>1, <1>2, <2>1 DEF InstallStep
  <1>5. QED
    BY <1>3, <1>4

(* Steps that leave the store alone and go on.                             *)
LEMMA ContinuingSteps ==
  ASSUME Inv, NEW h \in Handlers,
         \/ LoadSaveVersion(h) \/ StartIndex(h) \/ ReadFile(h)
         \/ BeginPublish(h) \/ StoreRecheck(h)
  PROVE  Kinds(h)
  <1>0. TypeOK
    BY DEF Inv
  <1>1. CASE LoadSaveVersion(h) \/ StartIndex(h) \/ ReadFile(h)
    <2>1. ~Idle(h) /\ UNCHANGED storeVars
      BY <1>1 DEF LoadSaveVersion, StartIndex, ReadFile, Reading, At
    <2>2. \E doc : \E pc \in {"reserve", "read", "lost", "store"} : Continue(h, pc, doc)
      BY <1>1 DEF LoadSaveVersion, StartIndex, ReadFile
    <2>3. QED
      BY <1>0, <2>1, <2>2, PreparationIsLocal
  <1>2. CASE BeginPublish(h)
    <2>1. ~Idle(h) /\ Reserved(h) /\ ~Writing(h) /\ UNCHANGED storeVars
      BY <1>0, <1>2, BusyAt DEF BeginPublish, Reserved, Writing
    <2>2. OthersWait(h) /\ task'[h].pc = "send" /\ Doc(h)' = Doc(h)
      BY <1>0, <1>2, <2>1, ContinueView DEF BeginPublish
    <2>3. ~Writing(h)'
      BY <2>2 DEF Writing
    <2>4. QED
      BY <2>1, <2>2, <2>3 DEF Kinds, LocalStep, storeVars
  <1>3. CASE StoreRecheck(h)
    <2>1. ~Idle(h) /\ Reserved(h) /\ Writing(h) /\ UNCHANGED storeVars
      BY <1>0, <1>3, BusyAt DEF StoreRecheck, Reserved, Writing
    <2>2. OthersWait(h) /\ ~Idle(h)' /\ task'[h].pc = "install" /\ Doc(h)' = Doc(h)
      BY <1>0, <1>3, <2>1, ContinueView DEF StoreRecheck
    <2>3. Writing(h)'
      BY <2>2 DEF Writing
    <2>4. QED
      BY <2>1, <2>2, <2>3 DEF Kinds, LocalStep, storeVars
  <1>4. QED
    BY <1>1, <1>2, <1>3

(* Steps that leave the store alone and end their operation.               *)
LEMMA FinishingSteps ==
  ASSUME Inv, NEW h \in Handlers,
         \/ InstallRejected(h) \/ SkipPublish(h) \/ SendDiagnostics(h)
         \/ ClearDiagnostics(h) \/ SkipIndex(h) \/ StoreAbandoned(h)
         \/ AddFolder(h) \/ AddFolderFails(h) \/ WalkNext(h) \/ WalkDone(h)
  PROVE  Kinds(h)
  <1>1. UNCHANGED storeVars
    BY DEF InstallRejected, SkipPublish, SendDiagnostics, ClearDiagnostics, SkipIndex,
       StoreAbandoned, AddFolder, AddFolderFails, WalkNext, WalkDone
  <1>2. \E ops : FinishWith(h, ops)
    BY DEF InstallRejected, SkipPublish, SendDiagnostics, ClearDiagnostics, SkipIndex,
       StoreAbandoned, AddFolder, AddFolderFails, WalkNext, WalkDone, Finish
  <1>3. QED
    BY <1>1, <1>2, FinishIsLocal DEF Inv

(* A failed read goes on or ends, as the operation has it.                 *)
LEMMA FailingRead ==
  ASSUME Inv, NEW h \in Handlers, ReadFileFails(h)
  PROVE  Kinds(h)
  <1>1. TypeOK /\ ~Idle(h) /\ UNCHANGED storeVars
    BY DEF Inv, ReadFileFails, Reading, At
  <1>2. Continue(h, "lost", Doc(h)) \/ FinishWith(h, << >>)
    BY DEF ReadFileFails, Finish
  <1>3. QED
    BY <1>1, <1>2, PreparationIsLocal, FinishIsLocal

(* Steps that close a document or take files out of the index.             *)
LEMMA RetiringSteps ==
  ASSUME Inv, NEW h \in Handlers,
         \/ CloseDocument(h) \/ ForgetLostFile(h) \/ RemoveWorkspaceFile(h)
         \/ RemoveFolder(h)
  PROVE  Kinds(h)
  <1> USE InvParts
  <1>0. TypeOK /\ ~Idle(h) /\ ~Reserved(h)
    BY BusyAt DEF Inv, CloseDocument, ForgetLostFile, RemoveWorkspaceFile, RemoveFolder,
       At, Reserved
  <1>1. PICK ops : FinishWith(h, ops)
    BY DEF CloseDocument, ForgetLostFile, RemoveWorkspaceFile, RemoveFolder, Finish
  <1>2. CASE CloseDocument(h)
    <2>1. OpOf(h).kind = "close"
      BY <1>2 DEF CloseDocument, At
    <2>2. Doc(h).path \in Paths
      BY <1>0, <2>1, TaskFacts, OpFacts, SMT DEF Doc, Drafts, SnapshotsOf
    <2> DEFINE p == Doc(h).path
               origin == DocumentOrigin(p) \ {"open"}
    <2>3. origin \in SUBSET Origins
      BY <2>2, DocumentOriginType DEF StoreOK
    <2>4. SetDocumentOrigin(p, origin) \/ ForgetDocument(p)
      BY <1>2 DEF CloseDocument
    <2>5. Retires({p}, {}) \/ Retires({}, {p})
      BY <2>2, <2>3, <2>4, ForgetRetires, OriginRetires
    <2>6. QED
      BY <1>0, <1>1, <2>2, <2>5, FinishIsRetire
  <1>3. ASSUME NEW gone \in SUBSET Paths, LeaveWorkspace(gone)
        PROVE  Kinds(h)
    <2> DEFINE kept == gone \cap openDocumentMap
               lost == gone \ openDocumentMap
    <2>1. kept \in SUBSET Paths /\ lost \in SUBSET Paths /\ kept \cap lost = {}
      OBVIOUS
    <2>2. Retires(kept, lost)
      BY <1>3, LeaveRetires
    <2> HIDE DEF kept, lost
    <2>3. QED
      BY <1>0, <1>1, <2>1, <2>2, FinishIsRetire
  <1>4. CASE ForgetLostFile(h)
    <2>1. OpOf(h).kind = "restore"
      BY <1>0, <1>4, AtFacts DEF ForgetLostFile
    <2>2. Doc(h).path \in Paths
      BY <1>0, <2>1, AtFacts, SMT DEF Indexing, Drafts, SnapshotsOf
    <2>3. UNCHANGED storeVars \/ LeaveWorkspace({Doc(h).path})
      BY <1>4 DEF ForgetLostFile
    <2>4. QED
      BY <1>0, <1>1, <1>3, <2>2, <2>3, FinishIsLocal
  <1>5. CASE RemoveWorkspaceFile(h)
    <2>1. OpOf(h).kind = "remove"
      BY <1>5 DEF RemoveWorkspaceFile, At
    <2>2. Doc(h).path \in Paths
      BY <1>0, <2>1, TaskFacts, OpFacts, SMT DEF Doc, Drafts, SnapshotsOf
    <2>3. QED
      BY <1>3, <1>5, <2>2 DEF RemoveWorkspaceFile
  <1>6. CASE RemoveFolder(h)
    <2>1. PICK gone \in SUBSET workspaceFileMap : LeaveWorkspace(gone)
      BY <1>6 DEF RemoveFolder
    <2>2. gone \in SUBSET Paths
      BY <2>1 DEF StoreOK, StoreTypeOK
    <2>3. QED
      BY <1>3, <2>1, <2>2
  <1>7. QED
    BY <1>2, <1>4, <1>5, <1>6

(* Every step of a handler is of one of the four kinds.                    *)
LEMMA StepKinds ==
  ASSUME Inv, NEW h \in Handlers, Step(h)
  PROVE  Kinds(h)
  <1>1. InstallUpdate(h) \/ InstallIndexed(h) => Kinds(h)
    BY InstallingSteps DEF Kinds
  <1>2. ReserveUpdate(h) \/ StoreReserve(h) => Kinds(h)
    BY ReservingSteps DEF Kinds
  <1>3. QED
    BY <1>1, <1>2, ContinuingSteps, FinishingSteps, FailingRead, RetiringSteps
       DEF Step

(* The dispatcher and the disk change nothing that is reserved.            *)
LEMMA OtherSteps ==
  ASSUME Inv
  PROVE  /\ \A h \in Handlers : Deliver(h) => Kinds(h)
         /\ DiskChange => UNCHANGED << task, documents, documentRevisions >>
  <1>1. ASSUME NEW h \in Handlers, Deliver(h) PROVE Kinds(h)
    <2>1. PICK ops : Begin(h, ops)
      BY <1>1 DEF Deliver
    <2>2. task'[h].pc = "next" /\ OthersWait(h)
      BY <2>1 DEF Begin, Inv, TypeOK, OthersWait
    <2>3. Idle(h) /\ UNCHANGED storeVars
      BY <1>1, <2>1 DEF Deliver, Begin
    <2>4. QED
      BY <2>2, <2>3 DEF Kinds, LocalStep, Reserved, Writing, storeVars
  <1>2. QED
    BY <1>1 DEF DiskChange, handlerVars, storeVars

------------------------------------------------------------------------------
(* The inductive invariant: no revision is held twice, none is newer than  *)
(* the counter, and a write in flight has another than what is stored.     *)

HeldOnce == \A g, h \in Handlers :
  g # h /\ Reserved(g) /\ Reserved(h) /\ Doc(g).path = Doc(h).path
    => Doc(g).revision # Doc(h).revision

HeldWithinCounter == \A h \in Handlers :
  Reserved(h) => Doc(h).revision <= documentRevisions[Doc(h).path]

NotYetStored == \A h \in Handlers :
  Writing(h) /\ Stored(Doc(h).path)
    => documents[Doc(h).path].revision # Doc(h).revision

Numbers == HeldOnce /\ HeldWithinCounter /\ NotYetStored

(* What a handler holds is a snapshot of some path, with a number.         *)
LEMMA ReservedDoc ==
  ASSUME TypeOK, NEW h \in Handlers, Reserved(h)
  PROVE  Doc(h).path \in Paths /\ Doc(h).revision \in Nat
  <1>1. Doc(h) \in Snapshots \cup Drafts
    BY AtFacts DEF Reserved
  <1>2. QED
    BY <1>1, SMT DEF Snapshots, Drafts, SnapshotsOf

(* The handlers that wait hold what they held.                             *)
LEMMA WaitingView ==
  ASSUME NEW h \in Handlers, OthersWait(h), NEW g \in Handlers \ {h}
  PROVE  /\ Reserved(g)' <=> Reserved(g)
         /\ Writing(g)' <=> Writing(g)
         /\ Doc(g)' = Doc(g)
  BY DEF OthersWait, Reserved, Writing, Doc, OpOf, Idle

(* A write in flight is a reservation.                                     *)
LEMMA WritingIsReserved == \A h \in Handlers : Writing(h) => Reserved(h)
  BY DEF Writing, Reserved

(* Stored revisions and counters are numbers, and the counter is ahead.    *)
LEMMA StoredNumbers ==
  ASSUME StoreOK, NEW p \in Paths
  PROVE  /\ documentRevisions[p] \in Nat
         /\ Stored(p) => /\ documents[p].revision \in Nat
                         /\ documents[p].revision <= documentRevisions[p]
  BY SMT DEF StoreOK, StoreTypeOK, StoreConsistent, PathConsistent, Stored,
     Snapshots, SnapshotsOf

(* A local step moves no number.                                           *)
LEMMA LocalNumbers ==
  ASSUME Inv, Numbers, NEW h \in Handlers, OthersWait(h), LocalStep(h)
  PROVE  Numbers'
  <1>1. \A g \in Handlers : /\ Reserved(g)' => Reserved(g) /\ Doc(g)' = Doc(g)
                            /\ Writing(g)' => Writing(g) /\ Doc(g)' = Doc(g)
    BY WaitingView, WritingIsReserved DEF LocalStep, Writing, Reserved
  <1>2. QED
    BY <1>1 DEF Numbers, HeldOnce, HeldWithinCounter, NotYetStored, LocalStep, Stored

(* A reservation is newer than all that is held or stored.                 *)
LEMMA ReserveNumbers ==
  ASSUME Inv, Numbers, NEW h \in Handlers, OthersWait(h), ReserveStep(h)
  PROVE  Numbers'
  <1> USE InvParts
  <1>1. PICK p \in Paths :
          /\ Doc(h)'.path = p /\ Doc(h)'.revision = documentRevisions[p] + 1
          /\ documents' = documents
          /\ documentRevisions' = [documentRevisions EXCEPT ![p] = documentRevisions[p] + 1]
    BY DEF ReserveStep, ReserveRevision, NextRevision
  <1>2. /\ \A q \in Paths : documentRevisions[q] \in Nat
        /\ documentRevisions'[p] = documentRevisions[p] + 1
        /\ \A q \in Paths : documentRevisions[q] <= documentRevisions'[q]
    BY <1>1, SMT DEF StoreOK, StoreTypeOK
  <1>3. ASSUME NEW g \in Handlers \ {h}, Reserved(g)'
        PROVE  /\ Reserved(g) /\ Doc(g)' = Doc(g)
               /\ Doc(g).path \in Paths /\ Doc(g).revision \in Nat
               /\ Doc(g).revision <= documentRevisions[Doc(g).path]
               /\ Writing(g)' <=> Writing(g)
    BY <1>3, WaitingView, ReservedDoc DEF Numbers, HeldWithinCounter, Inv
  <1>4. HeldOnce'
    <2>1. ASSUME NEW g \in Handlers \ {h}, Reserved(g)', Doc(g)'.path = p
          PROVE  Doc(g)'.revision # Doc(h)'.revision
      BY <1>1, <1>2, <1>3, <2>1, SMT
    <2>2. ASSUME NEW f \in Handlers \ {h}, NEW g \in Handlers \ {h}, f # g,
                 Reserved(f)', Reserved(g)', Doc(f)'.path = Doc(g)'.path
          PROVE  Doc(f)'.revision # Doc(g)'.revision
      BY <1>3, <2>2 DEF Numbers, HeldOnce
    <2>3. QED
      BY <1>1, <2>1, <2>2 DEF HeldOnce
  <1>5. HeldWithinCounter'
    <2>1. ASSUME NEW g \in Handlers, Reserved(g)'
          PROVE  Doc(g)'.revision <= documentRevisions'[Doc(g)'.path]
      <3>1. CASE g = h
        BY <1>1, <1>2, <3>1, SMT
      <3>2. CASE g # h
        <4>1. /\ Doc(g)' = Doc(g) /\ Doc(g).path \in Paths /\ Doc(g).revision \in Nat
              /\ Doc(g).revision <= documentRevisions[Doc(g).path]
          BY <1>3, <2>1, <3>2
        <4>2. documentRevisions[Doc(g).path] <= documentRevisions'[Doc(g).path]
              /\ documentRevisions'[Doc(g).path] \in Nat
          BY <1>1, <1>2, <4>1, SMT DEF StoreOK, StoreTypeOK
        <4>3. QED
          BY <1>2, <4>1, <4>2, SMT
      <3>3. QED
        BY <3>1, <3>2
    <2>2. QED
      BY <2>1 DEF HeldWithinCounter
  <1>6. NotYetStored'
    <2>1. Stored(p) => documents[p].revision # Doc(h)'.revision
      BY <1>1, <1>2, StoredNumbers, SMT
    <2>2. ASSUME NEW g \in Handlers \ {h}, Writing(g)', Stored(Doc(g).path)'
          PROVE  documents'[Doc(g)'.path].revision # Doc(g)'.revision
      BY <1>1, <2>2, WaitingView DEF Numbers, NotYetStored, Stored
    <2>3. QED
      BY <1>1, <2>1, <2>2 DEF NotYetStored, Stored
  <1>7. QED
    BY <1>4, <1>5, <1>6 DEF Numbers

(* After an install the writes in flight still have other revisions.       *)
LEMMA InstallNumbers ==
  ASSUME Inv, Numbers, NEW h \in Handlers, OthersWait(h), InstallStep(h)
  PROVE  Numbers'
  <1>1. /\ documents' = [documents EXCEPT ![Doc(h).path] = Doc(h)]
        /\ documentRevisions' = documentRevisions
        /\ Reserved(h)
    BY DEF InstallStep, InstallSnapshot, Writing, Reserved
  <1>2. \A g \in Handlers : Reserved(g)' => Reserved(g) /\ Doc(g)' = Doc(g)
    BY <1>1, WaitingView DEF InstallStep
  <1>3. HeldOnce' /\ HeldWithinCounter'
    BY <1>1, <1>2 DEF Numbers, HeldOnce, HeldWithinCounter
  <1>4. ASSUME NEW g \in Handlers, Writing(g)', Stored(Doc(g).path)'
        PROVE  documents'[Doc(g)'.path].revision # Doc(g)'.revision
    <2>1. g # h /\ Writing(g) /\ Reserved(g) /\ Doc(g)' = Doc(g)
      BY <1>4, WaitingView, WritingIsReserved DEF InstallStep
    <2>2. Doc(g).path \in Paths /\ Doc(h).path \in Paths
      BY <1>1, <2>1, ReservedDoc DEF Inv
    <2>3. documents \in [Paths -> Snapshots \cup {NoSnapshot}]
      BY DEF Inv, TypeOK, StoreTypeOK
    <2>4. CASE Doc(g).path = Doc(h).path
      BY <1>1, <2>1, <2>2, <2>3, <2>4 DEF Numbers, HeldOnce
    <2>5. CASE Doc(g).path # Doc(h).path
      BY <1>1, <1>4, <2>1, <2>2, <2>3, <2>5 DEF Numbers, NotYetStored, Stored
    <2>6. QED
      BY <2>4, <2>5
  <1>5. QED
    BY <1>3, <1>4 DEF Numbers, NotYetStored

(* A retirement moves what is stored past all that is held.                *)
LEMMA RetireNumbers ==
  ASSUME Inv, Numbers, NEW h \in Handlers, OthersWait(h), RetireStep(h)
  PROVE  Numbers'
  <1> USE InvParts
  <1>1. PICK kept \in SUBSET Paths, lost \in SUBSET Paths :
          kept \cap lost = {} /\ Retires(kept, lost)
    BY DEF RetireStep
  <1>2. ASSUME NEW g \in Handlers, Reserved(g)'
        PROVE  /\ g # h /\ Reserved(g) /\ Doc(g)' = Doc(g)
               /\ Doc(g).path \in Paths /\ Doc(g).revision \in Nat
               /\ Doc(g).revision <= documentRevisions[Doc(g).path]
    BY <1>2, WaitingView, ReservedDoc DEF RetireStep, Numbers, HeldWithinCounter, Inv
  <1>3. HeldOnce'
    BY <1>2 DEF Numbers, HeldOnce
  <1>4. HeldWithinCounter'
    <2>1. ASSUME NEW g \in Handlers, Reserved(g)'
          PROVE  Doc(g).revision <= documentRevisions'[Doc(g).path]
      <3>1. documentRevisions[Doc(g).path] \in Nat
        BY <1>2, <2>1, StoredNumbers
      <3>2. documentRevisions'[Doc(g).path]
              \in {documentRevisions[Doc(g).path], documentRevisions[Doc(g).path] + 1}
        BY <1>1, <1>2, <2>1 DEF Retires, NextRevision
      <3>3. QED
        BY <1>2, <2>1, <3>1, <3>2, SMT
    <2>2. QED
      BY <1>2, <2>1 DEF HeldWithinCounter
  <1>5. ASSUME NEW g \in Handlers, Writing(g)', Stored(Doc(g).path)'
        PROVE  documents'[Doc(g)'.path].revision # Doc(g)'.revision
    <2> DEFINE p == Doc(g).path
               revision == Doc(g).revision
    <2>1. Reserved(g)'
      BY <1>5 DEF Writing, Reserved
    <2>2. /\ Doc(g)' = Doc(g) /\ p \in Paths /\ revision \in Nat
          /\ revision <= documentRevisions[p] /\ Writing(g)
      BY <1>2, <1>5, <2>1, WaitingView
    <2>3. documentRevisions[p] \in Nat
      BY <2>2, StoredNumbers
    <2>4. CASE p \in kept
      <3>1. documents'[p].revision = documentRevisions[p] + 1
        BY <1>1, <1>5, <2>2, <2>4 DEF Retires, NextRevision
      <3>2. QED
        BY <2>2, <2>3, <3>1, SMT
    <2>5. CASE p \in lost
      BY <1>1, <1>5, <2>2, <2>5 DEF Retires, Stored
    <2>6. CASE p \notin kept \cup lost
      BY <1>1, <1>5, <2>2, <2>6 DEF Retires, Stored, Numbers, NotYetStored
    <2>7. QED
      BY <2>4, <2>5, <2>6
  <1>6. QED
    BY <1>3, <1>4, <1>5 DEF Numbers, NotYetStored

------------------------------------------------------------------------------
(* The publication mutex.                                                  *)

MutexOK == \A h \in Handlers : task[h].pc = "send" <=> diagnosticPublishMu = h

(* A handler at "send" holds the mutex, and nobody else does.              *)
LEMMA MutexStep ==
  ASSUME Inv, MutexOK, NEW h \in Handlers, Step(h)
  PROVE  MutexOK'
  <1>0. TypeOK
    BY DEF Inv
  <1>1. CASE BeginPublish(h)
    <2>1. ~Idle(h)
      BY <1>0, <1>1, BusyAt DEF BeginPublish
    <2>2. OthersWait(h) /\ task'[h].pc = "send"
      BY <1>0, <1>1, <2>1, ContinueView DEF BeginPublish
    <2>3. diagnosticPublishMu = NoHandler /\ diagnosticPublishMu' = h
      BY <1>1 DEF BeginPublish
    <2>4. QED
      BY <2>2, <2>3, SyncAssumption DEF MutexOK, OthersWait
  <1>2. CASE SendDiagnostics(h)
    <2>1. OthersWait(h) /\ task'[h].pc = "next"
      BY <1>0, <1>2, FinishView DEF SendDiagnostics, Finish
    <2>2. diagnosticPublishMu = h /\ diagnosticPublishMu' = NoHandler
      BY <1>2 DEF SendDiagnostics, MutexOK
    <2>3. QED
      BY <2>1, <2>2, SyncAssumption DEF MutexOK, OthersWait
  <1>3. ASSUME task[h].pc # "send", diagnosticPublishMu' = diagnosticPublishMu,
               \/ \E ops : FinishWith(h, ops)
               \/ ~Idle(h) /\ \E doc : \E pc \in PCs \ {"send"} : Continue(h, pc, doc)
        PROVE  MutexOK'
    <2>1. OthersWait(h) /\ task'[h].pc # "send"
      BY <1>0, <1>3, FinishView, ContinueView
    <2>2. QED
      BY <1>3, <2>1 DEF MutexOK, OthersWait
  <1>4. CASE \/ LoadSaveVersion(h) \/ ReserveUpdate(h) \/ InstallUpdate(h)
             \/ StartIndex(h) \/ ReadFile(h) \/ StoreReserve(h) \/ StoreRecheck(h)
    <2>1. task[h].pc # "send" /\ diagnosticPublishMu' = diagnosticPublishMu /\ ~Idle(h)
      BY <1>0, <1>4, BusyAt DEF LoadSaveVersion, ReserveUpdate, InstallUpdate, StartIndex,
         ReadFile, Reading, StoreReserve, StoreRecheck, At, Quiet
    <2>2. \E doc : \E pc \in PCs \ {"send"} : Continue(h, pc, doc)
      BY <1>4 DEF LoadSaveVersion, ReserveUpdate, InstallUpdate, StartIndex, ReadFile,
         StoreReserve, StoreRecheck, PCs
    <2>3. QED
      BY <1>3, <2>1, <2>2
  <1>5. CASE \/ InstallRejected(h) \/ SkipPublish(h) \/ ClearDiagnostics(h)
             \/ SkipIndex(h) \/ ForgetLostFile(h) \/ StoreAbandoned(h)
             \/ InstallIndexed(h) \/ RemoveWorkspaceFile(h) \/ CloseDocument(h)
    <2>1. task[h].pc # "send" /\ diagnosticPublishMu' = diagnosticPublishMu
      BY <1>5 DEF InstallRejected, SkipPublish, ClearDiagnostics, SkipIndex,
         ForgetLostFile, StoreAbandoned, InstallIndexed, RemoveWorkspaceFile,
         CloseDocument, At, Quiet
    <2>2. \E ops : FinishWith(h, ops)
      BY <1>5 DEF InstallRejected, SkipPublish, ClearDiagnostics, SkipIndex,
         ForgetLostFile, StoreAbandoned, InstallIndexed, RemoveWorkspaceFile,
         CloseDocument, Finish
    <2>3. QED
      BY <1>3, <2>1, <2>2
  <1>6. CASE AddFolder(h) \/ AddFolderFails(h) \/ WalkNext(h) \/ WalkDone(h) \/ RemoveFolder(h)
    <2>1. task[h].pc # "send" /\ diagnosticPublishMu' = diagnosticPublishMu
      BY <1>6 DEF AddFolder, AddFolderFails, WalkNext, WalkDone, RemoveFolder, At, Quiet
    <2>2. \E ops : FinishWith(h, ops)
      BY <1>6 DEF AddFolder, AddFolderFails, WalkNext, WalkDone, RemoveFolder, Finish
    <2>3. QED
      BY <1>3, <2>1, <2>2
  <1>7. CASE ReadFileFails(h)
    <2>1. task[h].pc # "send" /\ diagnosticPublishMu' = diagnosticPublishMu /\ ~Idle(h)
      BY <1>7 DEF ReadFileFails, Reading, At, Quiet
    <2>2. FinishWith(h, << >>) \/ Continue(h, "lost", Doc(h))
      BY <1>7 DEF ReadFileFails, Finish
    <2>3. QED
      BY <1>3, <2>1, <2>2 DEF PCs
  <1>8. QED
    BY <1>1, <1>2, <1>4, <1>5, <1>6, <1>7 DEF Step

------------------------------------------------------------------------------
(* The theorems about revisions.                                           *)

RevisionInv == Inv /\ Numbers /\ MutexOK

LEMMA RevisionInitOK == Init => RevisionInv
  <1> SUFFICES ASSUME Init PROVE RevisionInv
    OBVIOUS
  <1>1. \A h \in Handlers : task[h].pc = "next" /\ diagnosticPublishMu # h
    BY SyncAssumption DEF Init
  <1>2. QED
    BY <1>1, InitOK DEF RevisionInv, Numbers, HeldOnce, HeldWithinCounter, NotYetStored,
       MutexOK, Reserved, Writing

LEMMA RevisionNextOK == RevisionInv /\ [Next]_vars => RevisionInv'
  <1> SUFFICES ASSUME RevisionInv, [Next]_vars PROVE RevisionInv'
    OBVIOUS
  <1>0. Inv /\ Numbers /\ MutexOK /\ Inv'
    BY NextOK DEF RevisionInv
  <1>1. ASSUME NEW h \in Handlers, Kinds(h)
        PROVE  Numbers'
    BY <1>0, <1>1, LocalNumbers, ReserveNumbers, InstallNumbers, RetireNumbers DEF Kinds
  <1>2. ASSUME NEW h \in Handlers, Step(h)
        PROVE  RevisionInv'
    BY <1>0, <1>1, <1>2, StepKinds, MutexStep DEF RevisionInv
  <1>3. ASSUME NEW h \in Handlers, Deliver(h)
        PROVE  RevisionInv'
    <2>1. Numbers'
      BY <1>0, <1>1, <1>3, OtherSteps
    <2>2. PICK ops : Begin(h, ops)
      BY <1>3 DEF Deliver
    <2>3. task'[h].pc = "next" /\ OthersWait(h) /\ task[h].pc = "next"
      BY <1>0, <2>2 DEF Begin, Inv, TypeOK, OthersWait, WellPlaced, Idle
    <2>4. MutexOK'
      BY <1>0, <1>3, <2>3 DEF Deliver, MutexOK, OthersWait
    <2>5. QED
      BY <1>0, <2>1, <2>4 DEF RevisionInv
  <1>4. CASE DiskChange \/ UNCHANGED vars
    <2>1. UNCHANGED << task, documents, documentRevisions, diagnosticPublishMu >>
      BY <1>4 DEF DiskChange, vars, storeVars, handlerVars
    <2>2. Numbers' /\ MutexOK'
      BY <1>0, <2>1 DEF Numbers, HeldOnce, HeldWithinCounter, NotYetStored, MutexOK,
         Reserved, Writing, Doc, OpOf, Idle, Stored
    <2>3. QED
      BY <1>0, <2>2 DEF RevisionInv
  <1>5. QED
    BY <1>2, <1>3, <1>4 DEF Next

(* A revision identifies one snapshot, however handlers interleave, so the *)
(* comparison of pointers before publishing means what it is meant to.     *)
THEOREM RevisionsAreUnique == Spec => []RevisionsIdentifySnapshots
  <1>1. RevisionInv => RevisionsIdentifySnapshots
    BY DEF RevisionInv, RevisionsIdentifySnapshots, Numbers, HeldOnce,
       HeldWithinCounter, MutexOK
  <1>2. QED
    BY <1>1, RevisionInitOK, RevisionNextOK, PTL DEF Spec

(* The step of NewestWins, for a handler.                                  *)
LEMMA NewestWinsStep ==
  ASSUME RevisionInv, NEW h \in Handlers, Kinds(h),
         NEW p \in Paths, documents'[p] \notin {documents[p], NoSnapshot}
  PROVE  /\ documents'[p].revision = documentRevisions'[p]
         /\ Stored(p) => documents[p].revision < documents'[p].revision
  <1> USE InvParts
  <1>0. Inv /\ Numbers
    BY DEF RevisionInv
  <1>1. CASE LocalStep(h) \/ ReserveStep(h)
    BY <1>1 DEF LocalStep, ReserveStep, ReserveRevision
  <1>2. CASE InstallStep(h)
    <2>1. /\ documents' = [documents EXCEPT ![Doc(h).path] = Doc(h)]
          /\ documentRevisions' = documentRevisions
          /\ documentRevisions[Doc(h).path] = Doc(h).revision
          /\ Writing(h)
      BY <1>2 DEF InstallStep, InstallSnapshot, Installable
    <2>2. p = Doc(h).path /\ documents'[p] = Doc(h)
      BY <1>0, <2>1 DEF StoreOK, StoreTypeOK
    <2>3. Stored(p) => documents[p].revision # Doc(h).revision
      BY <1>0, <2>1, <2>2 DEF Numbers, NotYetStored
    <2>4. QED
      BY <1>0, <2>1, <2>2, <2>3, StoredNumbers, SMT
  <1>3. CASE RetireStep(h)
    <2>1. PICK kept \in SUBSET Paths, lost \in SUBSET Paths : Retires(kept, lost)
      BY <1>3 DEF RetireStep
    <2>2. p \in kept /\ p \notin lost /\ Stored(p)' /\ Stored(p)
      BY <2>1 DEF Retires, Stored
    <2>3. documentRevisions'[p] = documentRevisions[p] + 1
          /\ documents'[p].revision = documentRevisions[p] + 1
      BY <2>1, <2>2 DEF Retires, NextRevision
    <2>4. QED
      BY <1>0, <2>2, <2>3, StoredNumbers, SMT
  <1>4. QED
    BY <1>1, <1>2, <1>3 DEF Kinds

(* Whatever is stored is the newest reserved, and newer than what it       *)
(* replaces, for any number of concurrent writers.                         *)
THEOREM NewestSnapshotWins == Spec => NewestWins
  <1> DEFINE Wins == \A p \in Paths : documents'[p] \notin {documents[p], NoSnapshot} =>
               /\ documents'[p].revision = documentRevisions'[p]
               /\ Stored(p) => documents[p].revision < documents'[p].revision
  <1>1. RevisionInv /\ [Next]_vars => [Wins]_vars
    <2> SUFFICES ASSUME RevisionInv, Next PROVE Wins
      OBVIOUS
    <2>1. ASSUME NEW h \in Handlers, Deliver(h) \/ Step(h)
          PROVE  Wins
      <3>1. Kinds(h)
        BY <2>1, StepKinds, OtherSteps DEF RevisionInv
      <3>2. QED
        BY <3>1, NewestWinsStep
    <2>2. CASE DiskChange
      BY <2>2 DEF DiskChange, storeVars
    <2>3. QED
      BY <2>1, <2>2 DEF Next
  <1>2. QED
    BY <1>1, RevisionInitOK, RevisionNextOK, PTL DEF Spec, NewestWins

------------------------------------------------------------------------------
(* The refinement.                                                         *)

Registers == [p \in Paths |-> RegisterOf(p)]
InFlight == {p \in Paths : \E h \in Handlers : WritesNewest(h, p)}

(* Which writes are newest depends on the handlers' writes and counters.   *)
LEMMA NewestView ==
  ASSUME NEW h \in Handlers, NEW p \in Paths
  PROVE  WritesNewest(h, p) <=> /\ Writing(h)
                                /\ Doc(h).path = p
                                /\ Doc(h).revision = documentRevisions[p]
  BY DEF WritesNewest, Writing

(* At most one write of a path is the newest.                              *)
LEMMA OneNewest ==
  ASSUME Numbers, NEW p \in Paths, NEW g \in Handlers, NEW h \in Handlers,
         WritesNewest(g, p), WritesNewest(h, p)
  PROVE  g = h
  BY NewestView, WritingIsReserved DEF Numbers, HeldOnce

(* An empty store is the empty registers.                                  *)
LEMMA InitRefines == Init => Store!Init
  <1> SUFFICES ASSUME Init PROVE Store!Init
    OBVIOUS
  <1>1. \A p \in Paths : RegisterOf(p) = NoSnapshot
    BY DEF Init, StoreInit, RegisterOf, Stored
  <1>2. InFlight = {}
    BY DEF Init, InFlight, WritesNewest
  <1>3. QED
    BY <1>1, <1>2 DEF Store!Init, Init, StoreInit, InFlight

(* A local step is a stutter of the registers, or gives up a write.        *)
LEMMA LocalRefines ==
  ASSUME RevisionInv, NEW h \in Handlers, OthersWait(h), LocalStep(h)
  PROVE  [Store!Next]_(Store!registers)
  <1>0. Numbers
    BY DEF RevisionInv
  <1>1. Registers' = Registers /\ documentRevisions' = documentRevisions
    BY DEF LocalStep, Registers, RegisterOf, Stored
  <1>2. ASSUME NEW g \in Handlers \ {h}, NEW p \in Paths
        PROVE  WritesNewest(g, p)' <=> WritesNewest(g, p)
    BY <1>1, WaitingView, NewestView DEF WritesNewest, OthersWait, Idle, Doc, OpOf
  <1>3. CASE Writing(h)' <=> Writing(h)
    <2>1. ASSUME NEW p \in Paths PROVE WritesNewest(h, p)' <=> WritesNewest(h, p)
      BY <1>1, <1>3 DEF WritesNewest, Writing, LocalStep, Reserved
    <2>2. InFlight' = InFlight
      BY <1>2, <2>1 DEF InFlight
    <2>3. QED
      BY <1>1, <2>2 DEF Store!registers, Registers, InFlight
  <1>4. CASE Writing(h) /\ ~Writing(h)'
    <2>1. ASSUME NEW p \in Paths PROVE ~WritesNewest(h, p)'
      BY <1>4 DEF WritesNewest, Writing
    <2>2. CASE \E p \in Paths : WritesNewest(h, p)
      <3>1. PICK p \in Paths : WritesNewest(h, p)
        BY <2>2
      <3>2. \A q \in Paths \ {p} : ~WritesNewest(h, q)
        BY <3>1 DEF WritesNewest
      <3>3. \A g \in Handlers \ {h} : ~WritesNewest(g, p)
        BY <1>0, <3>1, OneNewest
      <3>4. InFlight' = InFlight \ {p} /\ p \in InFlight
        BY <1>2, <2>1, <3>1, <3>2, <3>3 DEF InFlight
      <3>5. Store!Abandon(p)
        BY <1>1, <3>4 DEF Store!Abandon, Registers, InFlight
      <3>6. QED
        BY <3>5 DEF Store!Next
    <2>3. CASE \A p \in Paths : ~WritesNewest(h, p)
      <3>1. InFlight' = InFlight
        BY <1>2, <2>1, <2>3 DEF InFlight
      <3>2. QED
        BY <1>1, <3>1 DEF Store!registers, Registers, InFlight
    <2>4. QED
      BY <2>2, <2>3
  <1>5. QED
    BY <1>3, <1>4 DEF LocalStep

(* A reservation puts the path's write in flight.                          *)
LEMMA ReserveRefines ==
  ASSUME RevisionInv, NEW h \in Handlers, OthersWait(h), ReserveStep(h)
  PROVE  Store!Next
  <1>1. PICK p \in Paths :
          /\ Doc(h)'.path = p /\ Doc(h)'.revision = documentRevisions[p] + 1
          /\ documents' = documents
          /\ documentRevisions' = [documentRevisions EXCEPT ![p] = documentRevisions[p] + 1]
    BY DEF ReserveStep, ReserveRevision, NextRevision
  <1>2. Registers' = Registers
    BY <1>1 DEF Registers, RegisterOf, Stored
  <1>3. documentRevisions \in [Paths -> Nat]
    BY DEF RevisionInv, Inv, TypeOK, StoreTypeOK
  <1>4. WritesNewest(h, p)'
    BY <1>1, <1>3 DEF WritesNewest, ReserveStep, Writing
  <1>5. ASSUME NEW q \in Paths \ {p}, NEW g \in Handlers
        PROVE  WritesNewest(g, q)' <=> WritesNewest(g, q)
    <2>1. documentRevisions'[q] = documentRevisions[q]
      BY <1>1, <1>3
    <2>2. CASE g = h
      BY <1>1, <2>2, WritingIsReserved DEF WritesNewest, ReserveStep, Writing
    <2>3. CASE g # h
      BY <2>1, <2>3 DEF OthersWait, WritesNewest, Idle, Doc, OpOf
    <2>4. QED
      BY <2>2, <2>3
  <1>6. InFlight' = InFlight \cup {p}
    BY <1>4, <1>5 DEF InFlight
  <1>7. Store!Reserve(p)
    BY <1>1, <1>2, <1>6 DEF Store!Reserve, Registers, InFlight
  <1>8. QED
    BY <1>7 DEF Store!Next

(* An install writes the register its revision was reserved for.           *)
LEMMA InstallRefines ==
  ASSUME RevisionInv, NEW h \in Handlers, OthersWait(h), InstallStep(h)
  PROVE  Store!Next
  <1>0. Numbers
    BY DEF RevisionInv
  <1>1. PICK s \in Snapshots : s = Doc(h)
    BY DEF InstallStep
  <1>2. s.path \in Paths /\ s.text \in Texts /\ s # NoSnapshot
    BY StoreAssumption, SMT DEF Snapshots, SnapshotsOf
  <1> DEFINE p == s.path
  <1>3. /\ documents' = [documents EXCEPT ![p] = s]
        /\ documentRevisions' = documentRevisions
        /\ documentRevisions[p] = s.revision
    BY <1>1 DEF InstallStep, InstallSnapshot, Installable
  <1>4. documents \in [Paths -> Snapshots \cup {NoSnapshot}]
    BY DEF RevisionInv, Inv, TypeOK, StoreTypeOK
  <1>5. Registers' = [Registers EXCEPT ![p] =
                        [content |-> s.text, revision |-> documentRevisions[p]]]
    <2>1. \A q \in Paths : RegisterOf(q)' =
            IF q = p THEN [content |-> s.text, revision |-> documentRevisions[p]]
            ELSE RegisterOf(q)
      BY <1>2, <1>3, <1>4 DEF RegisterOf, Stored
    <2>2. QED
      BY <1>2, <2>1 DEF Registers
  <1>6. WritesNewest(h, p)
    BY <1>1, <1>3 DEF WritesNewest, InstallStep, Writing
  <1>7. \A g \in Handlers \ {h} : ~WritesNewest(g, p)
    BY <1>0, <1>2, <1>6, OneNewest
  <1>8. \A q \in Paths : ~WritesNewest(h, q)'
    BY DEF WritesNewest, InstallStep, Writing
  <1>9. \A q \in Paths \ {p} : ~WritesNewest(h, q)
    BY <1>6 DEF WritesNewest
  <1>10. ASSUME NEW g \in Handlers \ {h}, NEW q \in Paths
         PROVE  WritesNewest(g, q)' <=> WritesNewest(g, q)
    BY <1>3 DEF OthersWait, WritesNewest, Idle, Doc, OpOf
  <1>11. InFlight' = InFlight \ {p} /\ p \in InFlight
    BY <1>2, <1>6, <1>7, <1>8, <1>9, <1>10 DEF InFlight
  <1>12. Store!Write(p, s.text)
    BY <1>3, <1>5, <1>11 DEF Store!Write, Registers, InFlight
  <1>13. QED
    BY <1>2, <1>12 DEF Store!Next

(* A retirement ends the writes in flight of its paths.                    *)
LEMMA RetireRefines ==
  ASSUME RevisionInv, Inv', NEW h \in Handlers, OthersWait(h), RetireStep(h)
  PROVE  Store!Next
  <1>0. Numbers /\ Inv
    BY DEF RevisionInv
  <1>1. PICK kept \in SUBSET Paths, lost \in SUBSET Paths :
          kept \cap lost = {} /\ Retires(kept, lost)
    BY DEF RetireStep
  <1>2. /\ documentRevisions \in [Paths -> Nat] /\ documentRevisions' \in [Paths -> Nat]
        /\ documents \in [Paths -> Snapshots \cup {NoSnapshot}]
    BY DEF RevisionInv, Inv, TypeOK, StoreTypeOK
  <1>3. documentRevisions' = [p \in Paths |-> IF p \in kept \cup lost
                               THEN documentRevisions[p] + 1 ELSE documentRevisions[p]]
    BY <1>1, <1>2 DEF Retires, NextRevision
  <1>4. ASSUME NEW p \in Paths
        PROVE  RegisterOf(p)' =
                 IF p \in lost THEN NoSnapshot
                 ELSE IF p \in kept /\ RegisterOf(p) # NoSnapshot
                      THEN [RegisterOf(p) EXCEPT !.revision = documentRevisions[p] + 1]
                 ELSE RegisterOf(p)
    <2>1. CASE p \in lost
      BY <1>1, <2>1 DEF Retires, RegisterOf, Stored
    <2>2. CASE p \notin kept \cup lost
      BY <1>1, <2>2 DEF Retires, RegisterOf, Stored
    <2>3. CASE p \in kept /\ ~Stored(p)
      BY <1>1, <2>3 DEF Retires, RegisterOf
    <2>4. CASE p \in kept /\ Stored(p)
      <3>1. RegisterOf(p)' = [content |-> documents[p].text,
                              revision |-> documentRevisions[p] + 1]
        BY <1>1, <2>4 DEF Retires, RegisterOf, NextRevision
      <3>2. RegisterOf(p) = [content |-> documents[p].text,
                             revision |-> documents[p].revision]
        BY <2>4 DEF RegisterOf
      <3>3. p \notin lost
        BY <1>1, <2>4
      <3>4. RegisterOf(p) # NoSnapshot
        <4>1. documents[p].text \in Texts /\ documents[p].revision \in Nat
          BY <1>2, <2>4, SMT DEF Stored, Snapshots, SnapshotsOf
        <4>2. RegisterOf(p) \in Registered
          BY <3>2, <4>1 DEF Registered
        <4>3. QED
          BY <4>2, RegisterAssumption
      <3>5. QED
        BY <2>4, <3>1, <3>2, <3>3, <3>4
    <2>5. QED
      BY <2>1, <2>2, <2>3, <2>4
  <1>5. \A p \in Paths, g \in Handlers :
          WritesNewest(g, p)' <=> WritesNewest(g, p) /\ p \notin kept \cup lost
    <2> SUFFICES ASSUME NEW p \in Paths, NEW g \in Handlers
                 PROVE  WritesNewest(g, p)' <=> WritesNewest(g, p) /\ p \notin kept \cup lost
      OBVIOUS
    <2>1. CASE g = h
      BY <2>1, WritingIsReserved DEF WritesNewest, RetireStep, Reserved
    <2>2. CASE g # h
      <3>1. WritesNewest(g, p)' <=> /\ Writing(g) /\ Doc(g).path = p
                                    /\ Doc(g).revision = documentRevisions'[p]
        BY <2>2 DEF OthersWait, WritesNewest, Writing, Idle, Doc, OpOf
      <3>2. WritesNewest(g, p) <=> /\ Writing(g) /\ Doc(g).path = p
                                   /\ Doc(g).revision = documentRevisions[p]
        BY NewestView
      <3>3. Writing(g) /\ Doc(g).path = p =>
              Doc(g).revision \in Nat /\ Doc(g).revision <= documentRevisions[p]
        BY <1>0, WritingIsReserved, ReservedDoc DEF Numbers, HeldWithinCounter, Inv
      <3>4. CASE p \in kept \cup lost
        <4>1. documentRevisions'[p] = documentRevisions[p] + 1 /\ documentRevisions[p] \in Nat
          BY <1>2, <1>3, <3>4
        <4>2. ~(Writing(g) /\ Doc(g).path = p /\ Doc(g).revision = documentRevisions'[p])
          BY <3>3, <4>1, SMT
        <4>3. QED
          BY <3>1, <3>4, <4>2
      <3>5. CASE p \notin kept \cup lost
        BY <1>2, <1>3, <3>1, <3>2, <3>5
      <3>6. QED
        BY <3>4, <3>5
    <2>3. QED
      BY <2>1, <2>2
  <1>6. InFlight' = InFlight \ (kept \cup lost)
    BY <1>5 DEF InFlight
  <1>7. Registers' = [p \in Paths |->
          IF p \in lost THEN NoSnapshot
          ELSE IF p \in kept /\ Registers[p] # NoSnapshot
               THEN [Registers[p] EXCEPT !.revision = documentRevisions[p] + 1]
          ELSE Registers[p]]
    BY <1>4 DEF Registers
  <1>8. Store!Retire(kept, lost)
    BY <1>3, <1>6, <1>7 DEF Store!Retire, Registers, InFlight
  <1>9. QED
    BY <1>1, <1>8 DEF Store!Next

(* However many handlers run, the document store acts as the registers of  *)
(* AbstractStore: no overtaken write lands, nothing closed or removed      *)
(* comes back.                                                             *)
THEOREM StoreImplementsAbstract == Spec => ImplementsAbstractStore
  <1>1. RevisionInv /\ [Next]_vars => [Store!Next]_(Store!registers)
    <2> SUFFICES ASSUME RevisionInv, [Next]_vars PROVE [Store!Next]_(Store!registers)
      OBVIOUS
    <2>0. Inv /\ Inv'
      BY NextOK DEF RevisionInv
    <2>1. ASSUME NEW h \in Handlers, Deliver(h) \/ Step(h)
          PROVE  [Store!Next]_(Store!registers)
      <3>1. Kinds(h)
        BY <2>0, <2>1, StepKinds, OtherSteps
      <3>2. QED
        BY <2>0, <3>1, LocalRefines, ReserveRefines, InstallRefines, RetireRefines DEF Kinds
    <2>2. CASE DiskChange \/ UNCHANGED vars
      <3>1. UNCHANGED << task, documents, documentRevisions >>
        BY <2>2 DEF DiskChange, vars, storeVars, handlerVars
      <3>2. Registers' = Registers /\ InFlight' = InFlight
        BY <3>1 DEF Registers, RegisterOf, Stored, InFlight, WritesNewest, Idle, Doc, OpOf
      <3>3. QED
        BY <3>1, <3>2 DEF Store!registers, Registers, InFlight
    <2>3. QED
      BY <2>1, <2>2 DEF Next
  <1>2. QED
    BY <1>1, InitRefines, RevisionInitOK, RevisionNextOK, PTL
       DEF Spec, ImplementsAbstractStore, Store!Spec

------------------------------------------------------------------------------
(***************************************************************************)
(* What the handlers do to the editor's own documents: the index never     *)
(* overwrites an open buffer, and diagnostics are published in the order   *)
(* of their revisions.                                                     *)
(***************************************************************************)

\* The operations a handler has left, and those that will clear diagnostics.
Elements(s) == {s[i] : i \in 1 .. Len(s)}
Clears(h) == {op \in Elements(task[h].todo) : op.kind = "clear"}

\* A parsed update that will be installed if nothing overtakes it, one that is
\* installed and will be published if nothing overtakes it, and both.
Newest(h) ==
  /\ Updates(h) /\ task[h].pc = "install"
  /\ Doc(h).revision = documentRevisions[Doc(h).path]
Live(h) == Updates(h) /\ task[h].pc = "publish" /\ Current(h)
ToPublish(h) == Newest(h) \/ Live(h)

------------------------------------------------------------------------------
(* The inductive invariant.                                                *)

\* What the index makes says so; what a save makes knows whether it is open.
IndexedOrigin == \A h \in Handlers :
  Indexing(h) /\ task[h].pc \in {"recheck", "install"} => Doc(h).origin = {"workspace"}

OpenKept == \A h \in Handlers :
  Newest(h) /\ Doc(h).path \in openDocumentMap => "open" \in Doc(h).origin

Openness == IndexedOrigin /\ OpenKept

\* Nothing shown, and nothing a close will clear, is newer than the counter.
ShownWithin == \A p \in Paths : shown[p].revision <= documentRevisions[p]

ClearsWithin == \A h \in Handlers : \A op \in Clears(h) :
  op.doc.path \in Paths /\ op.doc.revision \in Nat
    /\ op.doc.revision <= documentRevisions[op.doc.path]

\* What is being sent was current: only newer snapshots replaced it since.
SendersBehind == \A h \in Handlers :
  task[h].pc = "send" /\ Stored(Doc(h).path)
    => Doc(h).revision <= documents[Doc(h).path].revision

\* What is going to be published is newer than what is shown, and than every
\* close whose clearing is still to come.
Ahead == \A h \in Handlers :
  ToPublish(h) \/ task[h].pc = "send" => shown[Doc(h).path].revision < Doc(h).revision

AheadOfClears == \A g, h \in Handlers : ToPublish(h) =>
  \A op \in Clears(g) : op.doc.path = Doc(h).path => op.doc.revision < Doc(h).revision

InOrder == ShownWithin /\ ClearsWithin /\ SendersBehind /\ Ahead /\ AheadOfClears

PublicationInv == RevisionInv /\ Openness /\ InOrder

------------------------------------------------------------------------------
(* Sequences of operations.                                                *)

(* The elements of a concatenation come from its parts, those of a tail    *)
(* from the whole.                                                         *)
LEMMA ElementsFacts ==
  ASSUME NEW S, NEW t \in Seq(S)
  PROVE  /\ \A u \in Seq(S) : Elements(u \o t) \subseteq Elements(u) \cup Elements(t)
         /\ t # << >> => Head(t) \in Elements(t) /\ Elements(Tail(t)) \subseteq Elements(t)
  <1>1. ASSUME NEW u \in Seq(S), NEW i \in 1 .. Len(u \o t)
        PROVE  (u \o t)[i] \in Elements(u) \cup Elements(t)
    <2>1. CASE i <= Len(u)
      <3>1. i \in 1 .. Len(u) /\ (u \o t)[i] = u[i]
        BY <2>1, SMT
      <3>2. QED
        BY <3>1 DEF Elements
    <2>2. CASE i > Len(u)
      <3>1. i - Len(u) \in 1 .. Len(t) /\ (u \o t)[i] = t[i - Len(u)]
        BY <2>2, SMT
      <3>2. QED
        BY <3>1 DEF Elements
    <2>3. QED
      BY <2>1, <2>2, SMT
  <1>2. ASSUME t # << >>
        PROVE  Head(t) \in Elements(t) /\ Elements(Tail(t)) \subseteq Elements(t)
    <2>1. 1 \in 1 .. Len(t) /\ Head(t) = t[1]
      BY <1>2, SMT
    <2>2. ASSUME NEW i \in 1 .. Len(Tail(t))
          PROVE  i + 1 \in 1 .. Len(t) /\ Tail(t)[i] = t[i + 1]
      BY <1>2, SMT
    <2>3. QED
      BY <2>1, <2>2 DEF Elements
  <1>3. QED
    BY <1>1, <1>2 DEF Elements

(* The elements of the lists a handler puts in the place of an operation.  *)
LEMMA ShortElements ==
  ASSUME NEW x, NEW y
  PROVE  /\ Elements(<< >>) = {}
         /\ Elements(<< x >>) = {x}
         /\ Elements(<< x, y >>) = {x, y}
  <1>1. 1 .. Len(<< >>) = {} /\ 1 .. Len(<< x >>) = {1} /\ 1 .. Len(<< x, y >>) = {1, 2}
    BY SMT
  <1>2. << x >>[1] = x /\ << x, y >>[1] = x /\ << x, y >>[2] = y
    BY SMT
  <1>3. Elements(<< >>) = {}
    BY <1>1 DEF Elements
  <1>4. Elements(<< x >>) = {x}
    BY <1>1, <1>2 DEF Elements
  <1>5. Elements(<< x, y >>) = {x, y}
    BY <1>1, <1>2 DEF Elements
  <1>6. QED
    BY <1>3, <1>4, <1>5

(* What FinishWith leaves was to be done before or was put in its place.   *)
LEMMA FinishElements ==
  ASSUME TypeOK, NEW h \in Handlers, ~Idle(h), NEW ops \in Seq(Ops), FinishWith(h, ops)
  PROVE  Elements(task'[h].todo) \subseteq Elements(ops) \cup Elements(task[h].todo)
  <1> DEFINE rest == Tail(task[h].todo)
  <1>1. task[h].todo \in Seq(Ops) /\ task[h].todo # << >>
    BY DEF TypeOK, Tasks, Idle
  <1>2. rest \in Seq(Ops)
    BY TaskFacts
  <1>3. task'[h].todo = ops \o rest
    BY DEF TypeOK, FinishWith
  <1>4. Elements(rest) \subseteq Elements(task[h].todo)
    BY <1>1, ElementsFacts
  <1> HIDE DEF rest
  <1>5. Elements(ops \o rest) \subseteq Elements(ops) \cup Elements(rest)
    BY <1>2, ElementsFacts
  <1>6. QED
    BY <1>3, <1>4, <1>5

(* Continue keeps the kind of the operation and the others.                *)
LEMMA ContinueElements ==
  ASSUME TypeOK, NEW h \in Handlers, ~Idle(h), NEW pc, NEW doc, Continue(h, pc, doc)
  PROVE  /\ OpOf(h)'.kind = OpOf(h).kind
         /\ OpOf(h).kind # "clear" => Clears(h)' \subseteq Clears(h)
  <1> DEFINE op == [kind |-> OpOf(h).kind, doc |-> doc]
             rest == Tail(task[h].todo)
  <1>1. task[h].todo \in Seq(Ops) /\ task[h].todo # << >> /\ rest \in Seq(Ops)
    BY TaskFacts DEF TypeOK, Tasks, Idle
  <1>2. task'[h].todo = << op >> \o rest
    BY DEF TypeOK, Continue
  <1>3. rest \in Seq(Ops \cup {op}) /\ << op >> \in Seq(Ops \cup {op})
    <2>1. rest \in Seq(Ops)
      BY <1>1
    <2> HIDE DEF rest, op
    <2>2. QED
      BY <2>1, SMT
  <1>4. op.kind = OpOf(h).kind
    OBVIOUS
  <1>5. Elements(rest) \subseteq Elements(task[h].todo)
    BY <1>1, ElementsFacts
  <1> HIDE DEF op, rest
  <1>6. Head(task'[h].todo) = op
    BY <1>2, <1>3, SequenceFacts
  <1>7. Elements(task'[h].todo) \subseteq {op} \cup Elements(task[h].todo)
    <2>1. Elements(<< op >> \o rest) \subseteq Elements(<< op >>) \cup Elements(rest)
      BY <1>3, ElementsFacts
    <2>2. Elements(<< op >>) = {op}
      BY ShortElements
    <2>3. QED
      BY <1>2, <1>5, <2>1, <2>2
  <1>8. QED
    BY <1>4, <1>6, <1>7 DEF OpOf, Clears

------------------------------------------------------------------------------
(* What a step of a handler may do to its pc, its list, the client's view  *)
(* and the open documents.                                                 *)

\* Which step has led to a pc.
PcFrom(h) ==
  /\ task'[h].pc = "send" => BeginPublish(h)
  /\ task'[h].pc = "publish" => InstallUpdate(h)
  /\ task'[h].pc = "install" => ReserveUpdate(h) \/ StoreRecheck(h)
  /\ task'[h].pc = "recheck" => StoreReserve(h)

\* Clears to come are not added to, but by a close, which retires its path.
ClearsFrom(h) == \A op \in Clears(h)' :
  \/ op \in Clears(h)
  \/ /\ op.doc.path \in Paths
     /\ op.doc.revision = NextRevision(op.doc.path)
     /\ documentRevisions'[op.doc.path] = NextRevision(op.doc.path)
     /\ documents'[op.doc.path] # NoSnapshot
          => documents'[op.doc.path].revision = NextRevision(op.doc.path)
     /\ task'[h].pc = "next"

\* The step that may go on at a pc.
LeadsTo(h, pc) ==
  \/ pc \in {"reserve", "read", "lost", "store"}
  \/ pc = "send" /\ BeginPublish(h)
  \/ pc = "publish" /\ InstallUpdate(h)
  \/ pc = "install" /\ (ReserveUpdate(h) \/ StoreRecheck(h))
  \/ pc = "recheck" /\ StoreReserve(h)

(* A step that goes on with an update, a save, an index or a restore.      *)
LEMMA ContinueFrom ==
  ASSUME TypeOK, NEW h \in Handlers, ~Idle(h), OpOf(h).kind # "clear",
         NEW pc, LeadsTo(h, pc), NEW doc, Continue(h, pc, doc)
  PROVE  PcFrom(h) /\ ClearsFrom(h)
  <1>1. task'[h].pc = pc /\ Clears(h)' \subseteq Clears(h)
    BY ContinueView, ContinueElements
  <1>2. PcFrom(h)
    BY <1>1 DEF PcFrom, LeadsTo
  <1>3. QED
    BY <1>1, <1>2 DEF ClearsFrom

(* A step that ends its operation, with no clear in its place.             *)
LEMMA FinishFrom ==
  ASSUME TypeOK, NEW h \in Handlers, ~Idle(h), NEW ops \in Seq(Ops), FinishWith(h, ops),
         \A op \in Elements(ops) : op.kind # "clear"
  PROVE  PcFrom(h) /\ ClearsFrom(h)
  <1>1. task'[h].pc = "next"
    BY FinishView
  <1>2. Clears(h)' \subseteq Clears(h)
    BY FinishElements DEF Clears
  <1>3. QED
    BY <1>1, <1>2 DEF PcFrom, ClearsFrom

(* A step that ends its operation, with nothing in its place.              *)
LEMMA FinishEmptyFrom ==
  ASSUME TypeOK, NEW h \in Handlers, ~Idle(h), Finish(h)
  PROVE  PcFrom(h) /\ ClearsFrom(h)
  <1>1. << >> \in Seq(Ops)
    BY SMT
  <1>2. Elements(<< >>) = {}
    BY ShortElements
  <1>3. QED
    BY <1>1, <1>2, FinishFrom DEF Finish

(* Which steps go on, and from where.                                      *)
LEMMA ContinuersFrom ==
  ASSUME TypeOK, NEW h \in Handlers,
         \/ LoadSaveVersion(h) \/ ReserveUpdate(h) \/ InstallUpdate(h) \/ BeginPublish(h)
         \/ StartIndex(h) \/ ReadFile(h) \/ StoreReserve(h) \/ StoreRecheck(h)
  PROVE  PcFrom(h) /\ ClearsFrom(h)
  <1>1. ~Idle(h)
    BY BusyAt DEF LoadSaveVersion, ReserveUpdate, InstallUpdate, BeginPublish, StartIndex,
       ReadFile, Reading, StoreReserve, StoreRecheck, At
  <1>2. OpOf(h).kind \in {"update", "save", "index", "restore"}
    BY <1>1, AtFacts DEF LoadSaveVersion, ReserveUpdate, InstallUpdate, BeginPublish,
       StartIndex, ReadFile, Reading, StoreReserve, StoreRecheck, At, Updates, Indexing
  <1>3. PICK pc, doc : Continue(h, pc, doc) /\ LeadsTo(h, pc)
    BY DEF LeadsTo, LoadSaveVersion, ReserveUpdate, InstallUpdate, BeginPublish, StartIndex,
       ReadFile, StoreReserve, StoreRecheck
  <1>4. QED
    BY <1>1, <1>2, <1>3, ContinueFrom

(* Which steps end an operation, closes and folders apart.                 *)
LEMMA FinishersFrom ==
  ASSUME TypeOK, NEW h \in Handlers,
         \/ InstallRejected(h) \/ SkipPublish(h) \/ SendDiagnostics(h)
         \/ ClearDiagnostics(h) \/ SkipIndex(h) \/ ReadFileFails(h)
         \/ ForgetLostFile(h) \/ StoreAbandoned(h) \/ InstallIndexed(h)
         \/ RemoveWorkspaceFile(h) \/ AddFolderFails(h) \/ WalkDone(h) \/ RemoveFolder(h)
  PROVE  PcFrom(h) /\ ClearsFrom(h)
  <1>1. ~Idle(h)
    BY BusyAt DEF InstallRejected, SkipPublish, SendDiagnostics, ClearDiagnostics, SkipIndex,
       ReadFileFails, Reading, ForgetLostFile, StoreAbandoned, InstallIndexed,
       RemoveWorkspaceFile, AddFolderFails, WalkDone, RemoveFolder, At
  <1>2. CASE ReadFileFails(h)
    <2>1. OpOf(h).kind \in {"index", "restore"}
      BY <1>2 DEF ReadFileFails, Reading, At
    <2>2. Continue(h, "lost", Doc(h)) \/ Finish(h)
      BY <1>2 DEF ReadFileFails
    <2>3. LeadsTo(h, "lost")
      BY DEF LeadsTo
    <2>4. QED
      BY <1>1, <2>1, <2>2, <2>3, ContinueFrom, FinishEmptyFrom
  <1>3. CASE ~ReadFileFails(h)
    <2>1. Finish(h)
      BY <1>3 DEF InstallRejected, SkipPublish, SendDiagnostics, ClearDiagnostics, SkipIndex,
         ForgetLostFile, StoreAbandoned, InstallIndexed,
         RemoveWorkspaceFile, AddFolderFails, WalkDone, RemoveFolder
    <2>2. QED
      BY <1>1, <2>1, FinishEmptyFrom
  <1>4. QED
    BY <1>2, <1>3

(* A walk of a folder, on the way to its files.                            *)
LEMMA WalkersFrom ==
  ASSUME TypeOK, NEW h \in Handlers, AddFolder(h) \/ WalkNext(h)
  PROVE  PcFrom(h) /\ ClearsFrom(h)
  <1>1. CASE AddFolder(h)
    <2>1. ~Idle(h) /\ OpOf(h).root \in Roots
      BY <1>1, TaskFacts, OpFacts DEF AddFolder, At
    <2> DEFINE walk == [kind |-> "walk", paths |-> Listing(OpOf(h).root)]
    <2>2. walk \in Ops /\ walk.kind # "clear"
      <3>1. Listing(OpOf(h).root) \in SUBSET Paths
        BY <2>1, SyncAssumption, SMT DEF Listing
      <3>2. QED
        BY <3>1 DEF Ops, WalkOps
    <2>3. FinishWith(h, << walk >>)
      BY <1>1 DEF AddFolder
    <2> HIDE DEF walk
    <2>4. << walk >> \in Seq(Ops)
      BY <2>2, SMT
    <2>5. Elements(<< walk >>) = {walk}
      BY ShortElements
    <2>6. QED
      BY <2>1, <2>2, <2>3, <2>4, <2>5, FinishFrom
  <1>2. CASE WalkNext(h)
    <2>1. ~Idle(h) /\ OpOf(h).paths \in SUBSET Paths
      BY <1>2, TaskFacts, OpFacts DEF WalkNext, At
    <2> DEFINE rest(p) == [kind |-> "walk", paths |-> OpOf(h).paths \ {p}]
    <2>2. PICK p \in OpOf(h).paths : FinishWith(h, << IndexFile(p), rest(p) >>)
      BY <1>2 DEF WalkNext
    <2> DEFINE walk == rest(p)
               index == IndexFile(p)
    <2>3. index \in Ops /\ walk \in Ops /\ walk.kind # "clear" /\ index.kind # "clear"
      <3>1. index \in Ops
        BY <2>1, <2>2, DraftOp DEF IndexFile
      <3>2. walk \in Ops
        BY <2>1 DEF Ops, WalkOps
      <3>3. QED
        BY <3>1, <3>2 DEF IndexFile, Op
    <2>4. FinishWith(h, << index, walk >>)
      BY <2>2
    <2> HIDE DEF rest, walk, index
    <2>5. << index, walk >> \in Seq(Ops)
      BY <2>3, SMT
    <2>6. Elements(<< index, walk >>) = {index, walk}
      BY ShortElements
    <2>7. QED
      BY <2>1, <2>3, <2>4, <2>5, <2>6, FinishFrom
  <1>3. QED
    BY <1>1, <1>2

(* A close leaves its clearing behind, and retires the path under the same *)
(* revision.                                                               *)
LEMMA CloseFrom ==
  ASSUME Inv, NEW h \in Handlers, CloseDocument(h)
  PROVE  PcFrom(h) /\ ClearsFrom(h)
  <1> USE InvParts
  <1>0. TypeOK
    BY DEF Inv
  <1>1. ~Idle(h) /\ OpOf(h).kind = "close"
    BY DEF CloseDocument, At
  <1>2. Doc(h) \in Drafts /\ Doc(h).path \in Paths
    BY <1>0, <1>1, TaskFacts, OpFacts, SMT DEF Doc, Drafts, SnapshotsOf
  <1> DEFINE p == Doc(h).path
             origin == DocumentOrigin(p) \ {"open"}
             clear == [kind |-> "clear", doc |-> [Doc(h) EXCEPT !.revision = NextRevision(p)]]
             restore == Op("restore", p, NoText, 0)
  <1>3. NextRevision(p) \in Nat /\ origin \in SUBSET Origins
    BY <1>2, DocumentOriginType, SMT DEF StoreOK, StoreTypeOK, NextRevision
  <1>4. /\ clear \in Ops /\ clear.doc.path = p /\ clear.doc.revision = NextRevision(p)
        /\ restore \in Ops /\ restore.kind # "clear"
    <2>1. /\ [Doc(h) EXCEPT !.revision = NextRevision(p)] \in Drafts
          /\ [Doc(h) EXCEPT !.revision = NextRevision(p)].path = p
          /\ [Doc(h) EXCEPT !.revision = NextRevision(p)].revision = NextRevision(p)
      BY <1>2, <1>3, SMT DEF Drafts, SnapshotsOf
    <2>2. QED
      BY <1>2, <2>1, FileOp, DraftOp DEF Op
  <1>5. /\ SetDocumentOrigin(p, origin) \/ ForgetDocument(p)
        /\ FinishWith(h, << restore, clear >>) \/ FinishWith(h, << clear >>)
    BY DEF CloseDocument
  <1>6. /\ documentRevisions'[p] = NextRevision(p)
        /\ documents'[p] # NoSnapshot => documents'[p].revision = NextRevision(p)
    <2>1. Retires({p}, {}) \/ Retires({}, {p})
      BY <1>2, <1>3, <1>5, ForgetRetires, OriginRetires
    <2>2. QED
      BY <1>2, <2>1 DEF Retires, Stored
  <1> HIDE DEF clear, restore, origin
  <1>7. << restore, clear >> \in Seq(Ops) /\ << clear >> \in Seq(Ops)
    BY <1>4, SMT
  <1>8. Elements(<< restore, clear >>) = {restore, clear} /\ Elements(<< clear >>) = {clear}
    BY ShortElements
  <1>9. task'[h].pc = "next"
        /\ Elements(task'[h].todo) \subseteq {restore, clear} \cup Elements(task[h].todo)
    BY <1>0, <1>1, <1>5, <1>7, <1>8, FinishView, FinishElements
  <1>10. \A op \in Clears(h)' : op \in Clears(h) \/ op = clear
    BY <1>4, <1>9 DEF Clears
  <1>11. QED
    BY <1>2, <1>4, <1>6, <1>9, <1>10 DEF PcFrom, ClearsFrom

(* Every step of a handler.                                                *)
LEMMA StepFrom ==
  ASSUME Inv, NEW h \in Handlers, Step(h)
  PROVE  PcFrom(h) /\ ClearsFrom(h)
  BY ContinuersFrom, FinishersFrom, WalkersFrom, CloseFrom DEF Step, Inv

(* Only sending and clearing show anything.                                *)
LEMMA ShownFrom ==
  ASSUME NEW h \in Handlers, Step(h)
  PROVE  shown' = shown \/ SendDiagnostics(h) \/ ClearDiagnostics(h)
  BY DEF Step, LoadSaveVersion, ReserveUpdate, InstallUpdate, InstallRejected, BeginPublish,
     SkipPublish, CloseDocument, SkipIndex, StartIndex, ReadFile, ReadFileFails,
     ForgetLostFile, StoreReserve, StoreRecheck, StoreAbandoned, InstallIndexed,
     RemoveWorkspaceFile, AddFolder, AddFolderFails, WalkNext, WalkDone, RemoveFolder, Quiet

(* Only installs and closes change which documents are open, and only of   *)
(* their own path.                                                         *)
LEMMA OpenFrom ==
  ASSUME Inv, NEW h \in Handlers, Step(h)
  PROVE  \/ openDocumentMap' = openDocumentMap
         \/ /\ InstallStep(h)
            /\ openDocumentMap' = IF "open" \in Doc(h).origin
                                  THEN openDocumentMap \cup {Doc(h).path}
                                  ELSE openDocumentMap \ {Doc(h).path}
         \/ /\ At(h, "close", "next")
            /\ openDocumentMap' = openDocumentMap \ {Doc(h).path}
  <1>1. CASE InstallUpdate(h) \/ InstallIndexed(h)
    <2>1. InstallSnapshot(Doc(h)) /\ Installable(Doc(h))
      BY <1>1 DEF InstallUpdate, InstallIndexed
    <2>2. InstallStep(h)
      BY <1>1, InstallingSteps
    <2>3. QED
      BY <2>1, <2>2 DEF InstallSnapshot, SetOriginMaps
  <1>2. CASE CloseDocument(h)
    <2> DEFINE origin == DocumentOrigin(Doc(h).path) \ {"open"}
    <2>1. At(h, "close", "next")
      BY <1>2 DEF CloseDocument
    <2>2. SetDocumentOrigin(Doc(h).path, origin) \/ ForgetDocument(Doc(h).path)
      BY <1>2 DEF CloseDocument
    <2>3. "open" \notin origin
      OBVIOUS
    <2> HIDE DEF origin
    <2>4. QED
      BY <2>1, <2>2, <2>3 DEF SetDocumentOrigin, ForgetDocument, SetOriginMaps
  <1>3. CASE ~(InstallUpdate(h) \/ InstallIndexed(h) \/ CloseDocument(h))
    BY <1>3 DEF Step, LoadSaveVersion, ReserveUpdate, InstallRejected, BeginPublish,
       SkipPublish, SendDiagnostics, ClearDiagnostics, SkipIndex, StartIndex, ReadFile,
       ReadFileFails, ForgetLostFile, StoreReserve, StoreRecheck, StoreAbandoned,
       RemoveWorkspaceFile, AddFolder, AddFolderFails, WalkNext, WalkDone, RemoveFolder,
       ReserveRevision, LeaveWorkspace, storeVars
  <1>4. QED
    BY <1>1, <1>2, <1>3

------------------------------------------------------------------------------
(* How counters and stored snapshots move, seen from a handler that waits. *)

(* Counters never go back.                                                 *)
LEMMA CountersGrow ==
  ASSUME Inv, NEW h \in Handlers, Kinds(h), NEW p \in Paths
  PROVE  /\ documentRevisions[p] \in Nat /\ documentRevisions'[p] \in Nat
         /\ documentRevisions[p] <= documentRevisions'[p]
  <1> USE InvParts
  <1>1. documentRevisions[p] \in Nat
    BY StoredNumbers
  <1>2. documentRevisions'[p] \in {documentRevisions[p], documentRevisions[p] + 1}
    <2>1. CASE LocalStep(h) \/ InstallStep(h)
      BY <2>1 DEF LocalStep, InstallStep, InstallSnapshot
    <2>2. CASE ReserveStep(h)
      BY <2>2 DEF ReserveStep, ReserveRevision, NextRevision, StoreOK, StoreTypeOK
    <2>3. CASE RetireStep(h)
      BY <2>3 DEF RetireStep, Retires, NextRevision
    <2>4. QED
      BY <2>1, <2>2, <2>3 DEF Kinds
  <1>3. QED
    BY <1>1, <1>2, SMT

(* What a handler holds has a path and numbers that compare.               *)
LEMMA HeldNumbers ==
  ASSUME Inv, Numbers, NEW h \in Handlers, Reserved(h)
  PROVE  /\ Doc(h).path \in Paths /\ Doc(h).revision \in Nat
         /\ documentRevisions[Doc(h).path] \in Nat
         /\ Doc(h).revision <= documentRevisions[Doc(h).path]
  <1>1. Doc(h).path \in Paths /\ Doc(h).revision \in Nat
    BY ReservedDoc DEF Inv
  <1>2. QED
    BY <1>1, InvParts, StoredNumbers DEF Numbers, HeldWithinCounter

(* What is to be published or sent is held.                                *)
LEMMA ToPublishIsReserved ==
  ASSUME TypeOK, NEW h \in Handlers, ToPublish(h) \/ task[h].pc = "send"
  PROVE  Reserved(h) /\ Updates(h) /\ Doc(h) \in Snapshots
  BY BusyAt, AtFacts DEF ToPublish, Newest, Live, Reserved, Updates

(* A snapshot that a step of h puts in the store is nobody else's.         *)
LEMMA StoredIsNotHeld ==
  ASSUME RevisionInv, NEW h \in Handlers, Kinds(h), NEW g \in Handlers \ {h}, Reserved(g),
         documents'[Doc(g).path] # documents[Doc(g).path]
  PROVE  documents'[Doc(g).path] # Doc(g) \/ documents'[Doc(g).path] = NoSnapshot
  <1> USE InvParts
  <1> DEFINE p == Doc(g).path
  <1>0. Inv /\ Numbers
    BY DEF RevisionInv
  <1>1. p \in Paths /\ Doc(g).revision \in Nat /\ Doc(g).revision <= documentRevisions[p]
        /\ documentRevisions[p] \in Nat
    BY <1>0, HeldNumbers
  <1>2. CASE LocalStep(h) \/ ReserveStep(h)
    BY <1>2 DEF LocalStep, ReserveStep, ReserveRevision
  <1>3. CASE InstallStep(h)
    <2>1. documents' = [documents EXCEPT ![Doc(h).path] = Doc(h)] /\ Reserved(h)
      BY <1>3, WritingIsReserved DEF InstallStep, InstallSnapshot
    <2>2. p = Doc(h).path /\ documents'[p] = Doc(h)
      BY <1>0, <1>1, <2>1 DEF StoreOK, StoreTypeOK
    <2>3. Doc(h).revision # Doc(g).revision
      BY <1>0, <2>1, <2>2 DEF Numbers, HeldOnce
    <2>4. QED
      BY <2>2, <2>3
  <1>4. CASE RetireStep(h)
    <2>1. PICK kept \in SUBSET Paths, lost \in SUBSET Paths : Retires(kept, lost)
      BY <1>4 DEF RetireStep
    <2>2. CASE p \in lost
      BY <1>1, <2>1, <2>2 DEF Retires
    <2>3. CASE p \in kept /\ Stored(p)
      <3>1. documents'[p].revision = documentRevisions[p] + 1
        BY <1>1, <2>1, <2>3 DEF Retires, NextRevision
      <3>2. documents'[p].revision # Doc(g).revision
        BY <1>1, <3>1, SMT
      <3>3. QED
        BY <3>2
    <2>4. CASE p \in kept /\ ~Stored(p)
      BY <1>1, <2>1, <2>4 DEF Retires, Stored
    <2>5. QED
      BY <1>1, <2>1, <2>2, <2>3, <2>4 DEF Retires
  <1>5. QED
    BY <1>2, <1>3, <1>4 DEF Kinds

(* Another handler's step makes no snapshot one that is to be published.   *)
LEMMA WaitingToPublish ==
  ASSUME RevisionInv, NEW h \in Handlers, Kinds(h), NEW g \in Handlers \ {h}, ToPublish(g)'
  PROVE  ToPublish(g) /\ (Newest(g)' => Newest(g)) /\ Doc(g)' = Doc(g)
  <1>0. Inv /\ Numbers /\ TypeOK
    BY DEF RevisionInv, Inv
  <1>1. task'[g] = task[g]
    BY DEF Kinds, OthersWait
  <1>2. Doc(g)' = Doc(g) /\ Updates(g)' = Updates(g) /\ Reserved(g)' = Reserved(g)
    BY <1>1 DEF Doc, OpOf, Updates, Idle, Reserved
  <1>3. Reserved(g)
    BY <1>1, <1>2 DEF ToPublish, Newest, Live, Reserved, Updates
  <1>4. Newest(g)' => Newest(g)
    <2> SUFFICES ASSUME Newest(g)' PROVE Newest(g)
      OBVIOUS
    <2>1. Doc(g).revision = documentRevisions'[Doc(g).path]
      BY <1>2 DEF Newest
    <2>2. /\ Doc(g).revision <= documentRevisions[Doc(g).path]
          /\ documentRevisions[Doc(g).path] <= documentRevisions'[Doc(g).path]
          /\ documentRevisions[Doc(g).path] \in Nat
          /\ documentRevisions'[Doc(g).path] \in Nat
      BY <1>0, <1>3, HeldNumbers, CountersGrow
    <2>3. Doc(g).revision = documentRevisions[Doc(g).path]
      BY <2>1, <2>2, SMT
    <2>4. QED
      BY <1>1, <1>2, <2>3 DEF Newest
  <1>5. Live(g)' => Live(g)
    <2> SUFFICES ASSUME Live(g)' PROVE Live(g)
      OBVIOUS
    <2>1. Updates(g) /\ task[g].pc = "publish" /\ documents'[Doc(g).path] = Doc(g)
      BY <1>1, <1>2 DEF Live, Current
    <2>2. Doc(g) # NoSnapshot
      BY <1>0, <2>1, AtFacts, StoreAssumption DEF Updates
    <2>3. documents[Doc(g).path] = Doc(g)
      BY <1>3, <2>1, <2>2, StoredIsNotHeld
    <2>4. QED
      BY <2>1, <2>3 DEF Live, Current
  <1>6. QED
    BY <1>2, <1>4, <1>5 DEF ToPublish

(* A handler's own step makes its snapshot one that is to be published by  *)
(* reserving its revision; installing it keeps it one.                     *)
LEMMA OwnToPublish ==
  ASSUME Inv, NEW h \in Handlers, Step(h), ToPublish(h)'
  PROVE  \/ /\ ReserveUpdate(h) /\ ReserveStep(h)
         \/ ToPublish(h) /\ Doc(h)' = Doc(h)
  <1> USE InvParts
  <1>0. TypeOK
    BY DEF Inv
  <1>1. PcFrom(h)
    BY StepFrom
  <1>2. CASE task'[h].pc = "install"
    <2>1. CASE ReserveUpdate(h)
      BY <2>1, ReservingSteps
    <2>2. CASE StoreRecheck(h)
      <3>1. ~Idle(h) /\ OpOf(h).kind \in {"index", "restore"} /\ Continue(h, "install", Doc(h))
        BY <1>0, <2>2, BusyAt, AtFacts DEF StoreRecheck, Indexing
      <3>2. OpOf(h)'.kind \in {"index", "restore"}
        BY <1>0, <3>1, ContinueElements
      <3>3. ~Updates(h)'
        BY <3>2 DEF Updates
      <3>4. QED
        BY <3>3 DEF ToPublish, Newest, Live
    <2>3. QED
      BY <1>1, <1>2, <2>1, <2>2 DEF PcFrom
  <1>3. CASE task'[h].pc = "publish"
    <2>1. InstallUpdate(h)
      BY <1>1, <1>3 DEF PcFrom
    <2>2. Newest(h)
      BY <2>1 DEF InstallUpdate, Newest, Installable
    <2>3. Doc(h)' = Doc(h)
      BY <1>0, <2>1, ContinueView DEF InstallUpdate, Updates
    <2>4. QED
      BY <2>2, <2>3 DEF ToPublish
  <1>4. QED
    BY <1>2, <1>3 DEF ToPublish, Newest, Live

------------------------------------------------------------------------------
(* The index and the open documents.                                       *)

(* Steps keep what is known of the origins of snapshots being made.        *)
LEMMA OpennessStep ==
  ASSUME RevisionInv, Openness, NEW h \in Handlers, Step(h)
  PROVE  Openness'
  <1> USE InvParts
  <1>0. Inv /\ TypeOK /\ Numbers /\ Kinds(h) /\ PcFrom(h) /\ OthersWait(h)
    BY StepKinds, StepFrom DEF RevisionInv, Inv, Kinds
  <1>1. \A g \in Handlers \ {h} : task'[g] = task[g]
    BY <1>0 DEF OthersWait
  <1>2. IndexedOrigin'
    <2>1. ASSUME Indexing(h)', task'[h].pc \in {"recheck", "install"}
          PROVE  Doc(h)'.origin = {"workspace"}
      <3>1. CASE StoreReserve(h)
        <4>1. ~Idle(h)
          BY <1>0, <3>1, BusyAt DEF StoreReserve
        <4>2. Doc(h)' = Stamped(Doc(h), NextRevision(Doc(h).path), {"workspace"})
          BY <1>0, <3>1, <4>1, ContinueView DEF StoreReserve
        <4>3. QED
          BY <4>2 DEF Stamped
      <3>2. CASE StoreRecheck(h)
        <4>1. ~Idle(h) /\ Indexing(h) /\ task[h].pc = "recheck"
          BY <1>0, <3>2, BusyAt, AtFacts DEF StoreRecheck
        <4>2. Doc(h)' = Doc(h)
          BY <1>0, <3>2, <4>1, ContinueView DEF StoreRecheck
        <4>3. QED
          BY <4>1, <4>2 DEF Openness, IndexedOrigin
      <3>3. CASE ReserveUpdate(h)
        <4>1. ~Idle(h) /\ OpOf(h).kind \in {"update", "save"}
          BY <3>3 DEF ReserveUpdate, At
        <4>2. OpOf(h)'.kind \in {"update", "save"}
          BY <1>0, <3>3, <4>1, ContinueElements DEF ReserveUpdate
        <4>3. QED
          BY <2>1, <4>2 DEF Indexing
      <3>4. QED
        BY <1>0, <2>1, <3>1, <3>2, <3>3 DEF PcFrom
    <2>2. ASSUME NEW g \in Handlers \ {h}, Indexing(g)', task'[g].pc \in {"recheck", "install"}
          PROVE  Doc(g)'.origin = {"workspace"}
      BY <1>1, <2>2 DEF Openness, IndexedOrigin, Indexing, Doc, OpOf, Idle
    <2>3. QED
      BY <2>1, <2>2 DEF IndexedOrigin
  <1>3. OpenKept'
    <2>1. ASSUME Newest(h)', Doc(h)'.path \in openDocumentMap'
          PROVE  "open" \in Doc(h)'.origin
      <3>1. task'[h].pc = "install" /\ Updates(h)'
        BY <2>1 DEF Newest
      <3>2. ~StoreRecheck(h)
        <4> SUFFICES ASSUME StoreRecheck(h) PROVE FALSE
          OBVIOUS
        <4>1. ~Idle(h) /\ OpOf(h).kind \in {"index", "restore"}
          BY <1>0, BusyAt, AtFacts DEF StoreRecheck, Indexing
        <4>2. OpOf(h)'.kind \in {"index", "restore"}
          BY <1>0, <4>1, ContinueElements DEF StoreRecheck
        <4>3. QED
          BY <3>1, <4>2 DEF Updates
      <3>3. ReserveUpdate(h)
        BY <1>0, <3>1, <3>2 DEF PcFrom
      <3>4. ~Idle(h) /\ ReserveRevision(Doc(h).path)
            /\ Doc(h)' = Stamped(Doc(h), NextRevision(Doc(h).path),
                           MutateOrigin(OpOf(h).kind, DocumentOrigin(Doc(h).path)))
        BY <1>0, <3>3, ContinueView DEF ReserveUpdate, At
      <3>5. Doc(h).path \in openDocumentMap
        BY <2>1, <3>4 DEF Stamped, ReserveRevision
      <3>6. "open" \in DocumentOrigin(Doc(h).path)
        BY <3>5 DEF DocumentOrigin
      <3>7. QED
        BY <3>4, <3>6 DEF Stamped, MutateOrigin
    <2>2. ASSUME NEW g \in Handlers \ {h}, Newest(g)', Doc(g)'.path \in openDocumentMap'
          PROVE  "open" \in Doc(g)'.origin
      <3>1. Newest(g) /\ Doc(g)' = Doc(g)
        BY <1>0, <2>2, WaitingToPublish DEF ToPublish
      <3>2. CASE Doc(g).path \in openDocumentMap
        BY <3>1, <3>2 DEF Openness, OpenKept
      <3>3. CASE Doc(g).path \notin openDocumentMap
        <4>1. InstallStep(h) /\ Doc(h).path = Doc(g).path
          BY <1>0, <2>2, <3>1, <3>3, OpenFrom
        <4>2. Doc(h).revision = documentRevisions[Doc(g).path] /\ Reserved(h)
          BY <4>1, WritingIsReserved DEF InstallStep, Installable
        <4>3. Doc(g).revision = documentRevisions[Doc(g).path] /\ Reserved(g)
          BY <3>1 DEF Newest, Reserved, Updates
        <4>4. QED
          BY <1>0, <4>1, <4>2, <4>3 DEF Numbers, HeldOnce
      <3>4. QED
        BY <3>2, <3>3
    <2>3. QED
      BY <2>1, <2>2 DEF OpenKept
  <1>4. QED
    BY <1>2, <1>3 DEF Openness

(* The step of OpenBuffersAreTheEditors, for a handler.                    *)
LEMMA OpenBuffersStep ==
  ASSUME RevisionInv, Openness, NEW h \in Handlers, Step(h), NEW p \in openDocumentMap
  PROVE  /\ Stored(p) /\ documents'[p] # NoSnapshot /\ documents'[p].text # documents[p].text
              => Updates(h) /\ documents'[p] = Doc(h)
         /\ p \notin openDocumentMap' => At(h, "close", "next") /\ Doc(h).path = p
  <1> USE InvParts
  <1>0. Inv /\ TypeOK /\ Kinds(h) /\ p \in Paths
    BY StepKinds DEF RevisionInv, Inv, StoreOK, StoreTypeOK
  <1>1. ASSUME InstallStep(h), Doc(h).path = p
        PROVE  Updates(h) /\ "open" \in Doc(h).origin
    <2>1. /\ ~Idle(h) /\ task[h].pc \in {"recheck", "install"}
          /\ Doc(h).origin = {"workspace"} => p \notin openDocumentMap
          /\ Doc(h).revision = documentRevisions[p]
      BY <1>1 DEF InstallStep, Writing, Installable
    <2>2. ~Indexing(h)
      BY <2>1 DEF Openness, IndexedOrigin
    <2>3. Updates(h) /\ task[h].pc = "install"
      BY <1>0, <2>1, <2>2, AtFacts
    <2>4. QED
      BY <1>1, <2>1, <2>3 DEF Newest, Openness, OpenKept
  <1>2. ASSUME Stored(p), documents'[p] # NoSnapshot, documents'[p].text # documents[p].text
        PROVE  Updates(h) /\ documents'[p] = Doc(h)
    <2>1. CASE LocalStep(h) \/ ReserveStep(h)
      BY <1>2, <2>1 DEF LocalStep, ReserveStep, ReserveRevision
    <2>2. CASE InstallStep(h)
      <3>1. documents' = [documents EXCEPT ![Doc(h).path] = Doc(h)]
        BY <2>2 DEF InstallStep, InstallSnapshot
      <3>2. Doc(h).path = p /\ documents'[p] = Doc(h)
        BY <1>0, <1>2, <3>1 DEF StoreOK, StoreTypeOK
      <3>3. QED
        BY <1>1, <2>2, <3>2
    <2>3. CASE RetireStep(h)
      BY <1>0, <1>2, <2>3 DEF RetireStep, Retires
    <2>4. QED
      BY <1>0, <2>1, <2>2, <2>3 DEF Kinds
  <1>3. ASSUME p \notin openDocumentMap'
        PROVE  At(h, "close", "next") /\ Doc(h).path = p
    BY <1>0, <1>1, <1>3, OpenFrom
  <1>4. QED
    BY <1>2, <1>3

------------------------------------------------------------------------------
(* The order of publications.                                              *)

(* A handler that clears has the clear at the head of its list.            *)
LEMMA ClearingOp ==
  ASSUME TypeOK, NEW h \in Handlers, ClearDiagnostics(h)
  PROVE  OpOf(h) \in Clears(h)
  <1>1. task[h].todo \in Seq(Ops) /\ task[h].todo # << >> /\ OpOf(h).kind = "clear"
    BY DEF ClearDiagnostics, At, Idle, TypeOK, Tasks
  <1>2. OpOf(h) \in Elements(task[h].todo)
    BY <1>1, ElementsFacts DEF OpOf
  <1>3. QED
    BY <1>1, <1>2 DEF Clears

(* Steps keep all that is to be published ahead of what is shown, and of   *)
(* the closes whose clearing is still to come.                             *)
LEMMA InOrderStep ==
  ASSUME RevisionInv, InOrder, NEW h \in Handlers, Step(h)
  PROVE  InOrder'
  <1> USE InvParts
  <1>0. /\ Inv /\ Inv' /\ TypeOK /\ Numbers /\ MutexOK
        /\ Kinds(h) /\ PcFrom(h) /\ ClearsFrom(h)
        /\ \A g \in Handlers \ {h} : task'[g] = task[g]
    BY StepKinds, StepFrom, NextOK DEF RevisionInv, Inv, Kinds, OthersWait, Next
  <1>1. \A p \in Paths : /\ documentRevisions[p] \in Nat /\ documentRevisions'[p] \in Nat
                         /\ documentRevisions[p] <= documentRevisions'[p]
                         /\ shown[p].revision \in Nat /\ shown'[p].revision \in Nat
    <2>1. \A p \in Paths : shown[p].revision \in Nat /\ shown'[p].revision \in Nat
      <3>1. \A d \in [text : Texts \cup {NoText}, version : Nat, revision : Nat] :
              d.revision \in Nat
        BY SMT
      <3>2. /\ shown \in [Paths -> [text : Texts \cup {NoText}, version : Nat, revision : Nat]]
            /\ shown' \in [Paths -> [text : Texts \cup {NoText}, version : Nat, revision : Nat]]
        BY <1>0 DEF Inv, TypeOK
      <3>3. QED
        BY <3>1, <3>2
    <2>2. QED
      BY <1>0, <2>1, CountersGrow
  <1>2. \A g \in Handlers : \A op \in Clears(g)' :
          \/ op \in Clears(g)
          \/ /\ g = h /\ task'[h].pc = "next"
             /\ op.doc.path \in Paths
             /\ op.doc.revision = documentRevisions[op.doc.path] + 1
             /\ documentRevisions'[op.doc.path] = documentRevisions[op.doc.path] + 1
             /\ documents'[op.doc.path] # NoSnapshot
                  => documents'[op.doc.path].revision = documentRevisions[op.doc.path] + 1
    BY <1>0 DEF ClearsFrom, Clears, NextRevision
  <1>3. ClearsWithin'
    <2> SUFFICES ASSUME NEW g \in Handlers, NEW op \in Clears(g)'
                 PROVE  /\ op.doc.path \in Paths /\ op.doc.revision \in Nat
                        /\ op.doc.revision <= documentRevisions'[op.doc.path]
      BY DEF ClearsWithin
    <2>1. CASE op \in Clears(g)
      <3>1. /\ op.doc.path \in Paths /\ op.doc.revision \in Nat
            /\ op.doc.revision <= documentRevisions[op.doc.path]
        BY <2>1 DEF InOrder, ClearsWithin
      <3>2. QED
        BY <1>1, <3>1, SMT
    <2>2. CASE op \notin Clears(g)
      <3>1. /\ op.doc.path \in Paths
            /\ op.doc.revision = documentRevisions[op.doc.path] + 1
            /\ documentRevisions'[op.doc.path] = documentRevisions[op.doc.path] + 1
        BY <1>2, <2>2
      <3>2. QED
        BY <1>1, <3>1, SMT
    <2>3. QED
      BY <2>1, <2>2
  <1>4. SendersBehind'
    <2> SUFFICES ASSUME NEW g \in Handlers, task'[g].pc = "send", Stored(Doc(g).path)'
                 PROVE  Doc(g)'.revision <= documents'[Doc(g)'.path].revision
      BY DEF SendersBehind
    <2>1. CASE g = h
      <3>1. BeginPublish(h)
        BY <1>0, <2>1 DEF PcFrom
      <3>2. ~Idle(h) /\ documents[Doc(h).path] = Doc(h) /\ documents' = documents
        BY <1>0, <3>1, BusyAt DEF BeginPublish, Current, storeVars
      <3>3. Doc(h)' = Doc(h)
        BY <1>0, <3>1, <3>2, ContinueView DEF BeginPublish
      <3>4. Doc(h).revision \in Nat
        BY <1>0, <3>1, <3>2, ReservedDoc DEF BeginPublish, Reserved
      <3>5. QED
        BY <2>1, <3>2, <3>3, <3>4, SMT
    <2>2. CASE g # h
      <3>1. task[g].pc = "send" /\ Doc(g)' = Doc(g)
        BY <1>0, <2>2 DEF Doc, OpOf
      <3>2. /\ Doc(g).path \in Paths /\ Doc(g).revision \in Nat
            /\ Doc(g).revision <= documentRevisions[Doc(g).path]
        BY <1>0, <3>1, ToPublishIsReserved, HeldNumbers
      <3>3. CASE documents'[Doc(g).path] = documents[Doc(g).path]
        BY <3>1, <3>3 DEF InOrder, SendersBehind, Stored
      <3>4. CASE documents'[Doc(g).path] # documents[Doc(g).path]
        <4>1. documents'[Doc(g).path].revision = documentRevisions'[Doc(g).path]
          BY <1>0, <3>1, <3>2, <3>4, NewestWinsStep DEF Stored
        <4>2. QED
          BY <1>1, <3>1, <3>2, <4>1, SMT
      <3>5. QED
        BY <3>3, <3>4
    <2>3. QED
      BY <2>1, <2>2
  <1>5. ASSUME NEW g \in Handlers, ToPublish(g)'
        PROVE  \/ /\ g = h /\ shown' = shown /\ Doc(g)'.path \in Paths
                  /\ Doc(g)'.revision = documentRevisions[Doc(g)'.path] + 1
               \/ ToPublish(g) /\ Doc(g)' = Doc(g)
    <2>1. CASE g # h
      BY <1>0, <1>5, <2>1, WaitingToPublish
    <2>2. CASE g = h
      BY <1>0, <1>5, <2>2, OwnToPublish DEF ReserveStep, NextRevision, ReserveUpdate, Quiet
    <2>3. QED
      BY <2>1, <2>2
  <1>6. AheadOfClears'
    <2> SUFFICES ASSUME NEW f \in Handlers, NEW g \in Handlers, ToPublish(g)',
                        NEW op \in Clears(f)', op.doc.path = Doc(g)'.path
                 PROVE  op.doc.revision < Doc(g)'.revision
      BY DEF AheadOfClears
    <2>1. CASE op \in Clears(f)
      <3>1. /\ op.doc.path \in Paths /\ op.doc.revision \in Nat
            /\ op.doc.revision <= documentRevisions[op.doc.path]
        BY <2>1 DEF InOrder, ClearsWithin
      <3>2. CASE Doc(g)'.revision = documentRevisions[Doc(g)'.path] + 1
        BY <1>1, <3>1, <3>2, SMT
      <3>3. CASE ToPublish(g) /\ Doc(g)' = Doc(g)
        BY <2>1, <3>3 DEF InOrder, AheadOfClears
      <3>4. QED
        BY <1>5, <3>2, <3>3
    <2>2. CASE op \notin Clears(f)
      <3> DEFINE p == op.doc.path
      <3>1. /\ f = h /\ task'[h].pc = "next" /\ p \in Paths
            /\ documentRevisions'[p] = documentRevisions[p] + 1
            /\ documents'[p] # NoSnapshot => documents'[p].revision = documentRevisions[p] + 1
        BY <1>2, <2>2
      <3>2. g # h
        BY <3>1 DEF ToPublish, Newest, Live
      <3>3. Doc(g)' = Doc(g) /\ Reserved(g) /\ Doc(g) \in Snapshots
        BY <1>0, <3>2, WaitingToPublish, ToPublishIsReserved
      <3>4. Doc(g).revision \in Nat /\ Doc(g).revision <= documentRevisions[p]
        BY <1>0, <3>3, HeldNumbers
      <3>5. Doc(g).revision # documentRevisions[p] + 1
        BY <1>1, <3>1, <3>4, SMT
      <3>6. CASE Newest(g)'
        BY <3>1, <3>3, <3>5, <3>6 DEF Newest
      <3>7. CASE Live(g)'
        <4>1. documents'[p] = Doc(g) /\ Doc(g) # NoSnapshot
          BY <3>3, <3>7, StoreAssumption DEF Live, Current
        <4>2. QED
          BY <3>1, <3>5, <4>1
      <3>8. QED
        BY <3>6, <3>7 DEF ToPublish
    <2>3. QED
      BY <2>1, <2>2
  <1>7. CASE shown' = shown
    <2>1. ShownWithin'
      <3> SUFFICES ASSUME NEW p \in Paths
                   PROVE  shown'[p].revision <= documentRevisions'[p]
        BY DEF ShownWithin
      <3>1. shown[p].revision <= documentRevisions[p]
        BY DEF InOrder, ShownWithin
      <3>2. QED
        BY <1>1, <1>7, <3>1, SMT
    <2>2. ASSUME NEW g \in Handlers, ToPublish(g)' \/ task'[g].pc = "send"
          PROVE  shown'[Doc(g)'.path].revision < Doc(g)'.revision
      <3>1. CASE ToPublish(g)'
        <4>1. CASE /\ Doc(g)'.path \in Paths
                   /\ Doc(g)'.revision = documentRevisions[Doc(g)'.path] + 1
          <5>1. shown[Doc(g)'.path].revision <= documentRevisions[Doc(g)'.path]
            BY <4>1 DEF InOrder, ShownWithin
          <5>2. QED
            BY <1>1, <1>7, <4>1, <5>1, SMT
        <4>2. CASE ToPublish(g) /\ Doc(g)' = Doc(g)
          BY <1>7, <4>2 DEF InOrder, Ahead
        <4>3. QED
          BY <1>5, <3>1, <4>1, <4>2
      <3>2. CASE task'[g].pc = "send" /\ g = h
        <4>1. BeginPublish(h)
          BY <1>0, <3>2 DEF PcFrom
        <4>2. ~Idle(h) /\ Live(h)
          BY <1>0, <4>1, BusyAt, AtFacts DEF BeginPublish, Live
        <4>3. Doc(h)' = Doc(h)
          BY <1>0, <4>1, <4>2, ContinueView DEF BeginPublish
        <4>4. QED
          BY <1>7, <3>2, <4>2, <4>3 DEF InOrder, Ahead, ToPublish
      <3>3. CASE task'[g].pc = "send" /\ g # h
        BY <1>0, <1>7, <3>3 DEF InOrder, Ahead, Doc, OpOf
      <3>4. QED
        BY <2>2, <3>1, <3>2, <3>3
    <2>3. QED
      BY <1>3, <1>4, <1>6, <2>1, <2>2 DEF InOrder, Ahead
  <1>8. CASE SendDiagnostics(h) \/ ClearDiagnostics(h)
    <2> DEFINE p == Doc(h).path
               r == Doc(h).revision
    <2>1. /\ p \in Paths /\ r \in Nat /\ r <= documentRevisions[p]
          /\ documentRevisions' = documentRevisions
          /\ \E d : d.revision = r /\ shown' = [shown EXCEPT ![p] = d]
      <3>1. CASE SendDiagnostics(h)
        <4>1. Reserved(h)
          BY <1>0, <3>1, ToPublishIsReserved DEF SendDiagnostics
        <4>2. DiagnosticsOf(Doc(h)).revision = r
          BY DEF DiagnosticsOf
        <4>3. QED
          BY <1>0, <3>1, <4>1, <4>2, HeldNumbers DEF SendDiagnostics, storeVars
      <3>2. CASE ClearDiagnostics(h)
        <4>1. OpOf(h) \in Clears(h)
          BY <1>0, <3>2, ClearingOp
        <4>2. NoDiagnostics(r).revision = r
          BY DEF NoDiagnostics
        <4>3. QED
          BY <3>2, <4>1, <4>2 DEF InOrder, ClearsWithin, Doc, ClearDiagnostics, storeVars
      <3>3. QED
        BY <1>8, <3>1, <3>2
    <2>2. /\ shown'[p].revision = r
          /\ \A q \in Paths \ {p} : shown'[q] = shown[q]
      BY <1>0, <2>1 DEF OthersOK
    <2>3. task'[h].pc = "next"
      BY <1>0, <1>8, FinishView DEF SendDiagnostics, ClearDiagnostics, Finish
    <2>4. ShownWithin'
      BY <2>1, <2>2 DEF ShownWithin, InOrder
    <2>5. ASSUME NEW g \in Handlers, ToPublish(g)' \/ task'[g].pc = "send"
          PROVE  shown'[Doc(g)'.path].revision < Doc(g)'.revision
      <3>1. g # h
        BY <2>3, <2>5 DEF ToPublish, Newest, Live
      <3>2. Doc(g)' = Doc(g) /\ (ToPublish(g) \/ task[g].pc = "send")
        BY <1>0, <2>5, <3>1, WaitingToPublish DEF Doc, OpOf
      <3>3. Reserved(g) /\ Doc(g).path \in Paths /\ Doc(g).revision \in Nat
            /\ Doc(g).revision <= documentRevisions[Doc(g).path]
        BY <1>0, <3>2, ToPublishIsReserved, HeldNumbers
      <3>4. CASE Doc(g).path # p
        BY <2>2, <3>2, <3>3, <3>4 DEF InOrder, Ahead
      <3>5. CASE Doc(g).path = p /\ SendDiagnostics(h)
        <4>1. diagnosticPublishMu = h /\ task[g].pc # "send" /\ Reserved(h)
          BY <1>0, <3>1, <3>5, ToPublishIsReserved DEF MutexOK, SendDiagnostics
        <4>2. r # Doc(g).revision
          BY <1>0, <3>1, <3>3, <3>5, <4>1 DEF Numbers, HeldOnce
        <4>3. CASE Newest(g)
          <5>1. Doc(g).revision = documentRevisions[p]
            BY <3>5, <4>3 DEF Newest
          <5>2. QED
            BY <2>1, <2>2, <3>2, <3>3, <3>5, <4>2, <5>1, SMT
        <4>4. CASE Live(g)
          <5>1. documents[p] = Doc(g) /\ Stored(p)
            BY <1>0, <3>2, <3>5, <4>1, <4>4, ToPublishIsReserved, StoreAssumption
               DEF Live, Current, Stored
          <5>2. r <= Doc(g).revision
            BY <3>5, <5>1 DEF InOrder, SendersBehind, SendDiagnostics
          <5>3. QED
            BY <2>1, <2>2, <3>2, <3>3, <3>5, <4>2, <5>2, SMT
        <4>5. QED
          BY <3>2, <4>1, <4>3, <4>4 DEF ToPublish
      <3>6. CASE Doc(g).path = p /\ ClearDiagnostics(h)
        <4>1. diagnosticPublishMu # g
          BY <3>6, SyncAssumption DEF ClearDiagnostics
        <4>2. ToPublish(g)
          BY <1>0, <3>2, <4>1 DEF MutexOK
        <4>3. OpOf(h) \in Clears(h)
          BY <1>0, <3>6, ClearingOp
        <4>4. r < Doc(g).revision
          BY <3>6, <4>2, <4>3 DEF InOrder, AheadOfClears, Doc
        <4>5. QED
          BY <2>2, <3>2, <3>6, <4>4
      <3>7. QED
        BY <1>8, <3>4, <3>5, <3>6
    <2>6. QED
      BY <1>3, <1>4, <1>6, <2>4, <2>5 DEF InOrder, Ahead
  <1>9. QED
    BY <1>7, <1>8, ShownFrom

------------------------------------------------------------------------------
(* The theorems.                                                           *)

(* Nothing is open, shown or to be published when the server starts.       *)
LEMMA PublicationInitOK == Init => PublicationInv
  <1> SUFFICES ASSUME Init PROVE PublicationInv
    OBVIOUS
  <1>1. \A h \in Handlers : task[h].pc = "next" /\ task[h].todo = << >>
    BY DEF Init
  <1>2. \A h \in Handlers : Clears(h) = {}
    BY <1>1, ShortElements DEF Clears
  <1>3. \A p \in Paths : shown[p].revision = 0 /\ documentRevisions[p] = 0
    BY DEF Init, StoreInit, NoDiagnostics
  <1>4. ShownWithin
    <2>1. 0 <= 0
      BY SMT
    <2>2. QED
      BY <1>3, <2>1 DEF ShownWithin
  <1>5. QED
    BY <1>1, <1>2, <1>4, RevisionInitOK DEF PublicationInv, Openness, IndexedOrigin,
       OpenKept, InOrder, ClearsWithin, SendersBehind, Ahead, AheadOfClears, ToPublish,
       Newest, Live

(* No notification asks for a clear of its own.                            *)
LEMMA NoticesDoNotClear ==
  ASSUME NEW ops \in Notifications, NEW op \in Elements(ops)
  PROVE  op.kind # "clear"
  <1>1. \A kind, p, text, version : Op(kind, p, text, version).kind = kind
    BY DEF Op
  <1>2. \A kind, r : Folder(kind, r).kind = kind
    BY DEF Folder
  <1>3. PICK x, y :
          /\ x.kind # "clear" /\ y.kind # "clear"
          /\ ops = << x >> \/ ops = << x, y >>
    <2>1. CASE \E p \in Paths, t \in Texts, v \in Versions : ops = DidOpen(p, t, v)
      BY <1>1, <2>1 DEF DidOpen
    <2>2. CASE \E p \in Paths, t \in Texts : ops = DidSave(p, t)
      BY <1>1, <2>2 DEF DidSave
    <2>3. CASE \E p \in Paths : ops \in {DidClose(p), << IndexFile(p) >>, << RemoveFile(p) >>}
      BY <1>1, <2>3 DEF DidClose, IndexFile, RemoveFile
    <2>4. CASE \E p, q \in Paths : ops = DidRenameFiles(p, q)
      BY <1>1, <2>4 DEF DidRenameFiles, IndexFile, RemoveFile
    <2>5. CASE \E r \in Roots : ops \in {<< Folder("addFolder", r) >>, << Folder("removeFolder", r) >>}
      BY <1>2, <2>5
    <2>6. CASE \E r, q \in Roots : ops = DidChangeWorkspaceFolders(r, q)
      BY <1>2, <2>6 DEF DidChangeWorkspaceFolders
    <2>7. QED
      BY <2>1, <2>2, <2>3, <2>4, <2>5, <2>6 DEF Notifications
  <1>4. Elements(<< x >>) = {x} /\ Elements(<< x, y >>) = {x, y}
    BY ShortElements
  <1>5. QED
    BY <1>3, <1>4

(* Every step of a handler, of the dispatcher and of the disk keeps the invariant. *)
LEMMA PublicationNextOK == PublicationInv /\ [Next]_vars => PublicationInv'
  <1> SUFFICES ASSUME PublicationInv, [Next]_vars PROVE PublicationInv'
    OBVIOUS
  <1>0. RevisionInv /\ Openness /\ InOrder /\ RevisionInv'
    BY RevisionNextOK DEF PublicationInv
  <1>1. ASSUME NEW h \in Handlers, Step(h)
        PROVE  PublicationInv'
    BY <1>0, <1>1, OpennessStep, InOrderStep DEF PublicationInv
  <1>2. ASSUME NEW h \in Handlers, Deliver(h)
        PROVE  PublicationInv'
    <2>1. PICK ops \in Notifications : Begin(h, ops)
      BY <1>2 DEF Deliver
    <2>2. /\ task' = [task EXCEPT ![h] = [pc |-> "next", todo |-> ops]]
          /\ task \in [Handlers -> Tasks]
      BY <1>0, <2>1 DEF Begin, RevisionInv, Inv, TypeOK
    <2>3. /\ task'[h].pc = "next" /\ task'[h].todo = ops
          /\ \A g \in Handlers \ {h} : task'[g] = task[g]
      BY <2>2
    <2>4. Clears(h)' = {}
      BY <2>3, NoticesDoNotClear DEF Clears
    <2>5. \A g \in Handlers \ {h} : Clears(g)' = Clears(g)
      BY <2>3 DEF Clears
    <2>6. UNCHANGED << storeVars, shown >>
      BY <1>2 DEF Deliver
    <2>7. Openness'
      BY <1>0, <2>3, <2>6 DEF Openness, IndexedOrigin, OpenKept, Newest, Updates, Indexing,
         Doc, OpOf, Idle, storeVars
    <2>8. \A g \in Handlers :
            /\ ToPublish(g)' => g # h /\ ToPublish(g)
            /\ task'[g].pc = "send" => g # h /\ task[g].pc = "send"
            /\ g # h => Doc(g)' = Doc(g)
      BY <2>3, <2>6 DEF ToPublish, Newest, Live, Updates, Current, Doc, OpOf, Idle, storeVars
    <2>9. InOrder'
      BY <1>0, <2>4, <2>5, <2>6, <2>8 DEF InOrder, ShownWithin, ClearsWithin, SendersBehind,
         Ahead, AheadOfClears, Stored, storeVars
    <2>10. QED
      BY <1>0, <2>7, <2>9 DEF PublicationInv
  <1>3. CASE DiskChange \/ UNCHANGED vars
    <2>1. UNCHANGED << storeVars, task, shown >>
      BY <1>3 DEF DiskChange, vars, handlerVars
    <2>2. Openness' /\ InOrder'
      BY <1>0, <2>1 DEF Openness, IndexedOrigin, OpenKept, InOrder, ShownWithin,
         ClearsWithin, SendersBehind, Ahead, AheadOfClears, ToPublish, Newest, Live,
         Clears, Updates, Indexing, Current, Stored, Doc, OpOf, Idle, storeVars
    <2>3. QED
      BY <1>0, <2>2 DEF PublicationInv
  <1>4. QED
    BY <1>1, <1>2, <1>3 DEF Next

(* Indexing never overwrites an open buffer and only a close ends its      *)
(* being open, for any number of handlers in any interleaving.             *)
THEOREM IndexKeepsOpenBuffers == Spec => OpenBuffersAreTheEditors
  <1> DEFINE Kept == \A p \in openDocumentMap :
        /\ Stored(p) /\ documents'[p] # NoSnapshot /\ documents'[p].text # documents[p].text
             => \E h \in Handlers : Updates(h) /\ documents'[p] = Doc(h)
        /\ p \notin openDocumentMap'
             => \E h \in Handlers : At(h, "close", "next") /\ Doc(h).path = p
  <1>1. PublicationInv /\ [Next]_vars => [Kept]_vars
    <2> SUFFICES ASSUME PublicationInv, Next PROVE Kept
      OBVIOUS
    <2>1. ASSUME NEW h \in Handlers, Step(h)
          PROVE  Kept
      BY <2>1, OpenBuffersStep DEF PublicationInv
    <2>2. CASE DiskChange \/ \E h \in Handlers : Deliver(h)
      BY <2>2 DEF DiskChange, Deliver, storeVars
    <2>3. QED
      BY <2>1, <2>2 DEF Next
  <1>2. QED
    BY <1>1, PublicationInitOK, PublicationNextOK, PTL DEF Spec, OpenBuffersAreTheEditors

(* The client never sees diagnostics go back in time, for any number of    *)
(* handlers in any interleaving.                                           *)
THEOREM PublicationsAreInOrder == Spec => PublicationsInRevisionOrder
  <1> DEFINE Ordered == \A p \in Paths :
        shown'[p] # shown[p] /\ shown'[p].text # NoText
          => shown'[p].revision > shown[p].revision
  <1>1. PublicationInv /\ [Next]_vars => [Ordered]_vars
    <2> SUFFICES ASSUME PublicationInv, Next, NEW p \in Paths,
                        shown'[p] # shown[p], shown'[p].text # NoText
                 PROVE  shown'[p].revision > shown[p].revision
      OBVIOUS
    <2>0. TypeOK /\ InOrder
      BY DEF PublicationInv, RevisionInv, Inv
    <2>1. PICK h \in Handlers : SendDiagnostics(h) \/ ClearDiagnostics(h)
      BY ShownFrom DEF Next, DiskChange, Deliver, handlerVars
    <2>2. CASE SendDiagnostics(h)
      <3>1. /\ shown' = [shown EXCEPT ![Doc(h).path] = DiagnosticsOf(Doc(h))]
            /\ task[h].pc = "send"
        BY <2>2 DEF SendDiagnostics
      <3>2. Doc(h).path = p /\ shown'[p] = DiagnosticsOf(Doc(h))
        BY <2>0, <3>1 DEF TypeOK
      <3>3. shown[p].revision < Doc(h).revision
        BY <2>0, <3>1, <3>2 DEF InOrder, Ahead
      <3>4. QED
        BY <3>2, <3>3 DEF DiagnosticsOf
    <2>3. CASE ClearDiagnostics(h)
      <3>1. shown' = [shown EXCEPT ![Doc(h).path] = NoDiagnostics(Doc(h).revision)]
        BY <2>3 DEF ClearDiagnostics
      <3>2. shown'[p] = NoDiagnostics(Doc(h).revision)
        BY <2>0, <3>1 DEF TypeOK
      <3>3. QED
        BY <3>2 DEF NoDiagnostics
    <2>4. QED
      BY <2>1, <2>2, <2>3
  <1>2. QED
    BY <1>1, PublicationInitOK, PublicationNextOK, PTL DEF Spec, PublicationsInRevisionOrder
==============================================================================
