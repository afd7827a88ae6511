---------------------------- MODULE SessionProofs ----------------------------
(***************************************************************************)
(* Proofs about EditorSession.  The types hold for any set of handlers;    *)
(* what an editor finds when all is handled is proved for one handler, as  *)
(* main.go runs them, and for any paths, texts, folders and lengths of the *)
(* session.                                                                *)
(***************************************************************************)
EXTENDS EditorSession, RevisionProofs

------------------------------------------------------------------------------
(* Types.                                                                  *)

EditorOK ==
  /\ buffer \in [Paths -> Buffers \cup {Closed}]
  /\ opened \in SUBSET Paths
  /\ folders \in SUBSET Roots
  /\ dirty \in SUBSET Paths
  /\ inbox \in Seq(Seq(Ops))

SessionTypes == Inv /\ EditorOK

(* What the editor sends: one operation, or the two of a rename.           *)
Sent == {"update", "save", "close", "index", "remove", "addFolder", "removeFolder"}

IsNotice(n) ==
  \/ \E op \in Ops : op.kind \in Sent /\ n = << op >>
  \/ \E op, next \in Ops : /\ op.kind = "remove" /\ next.kind = "index"
                           /\ n = << op, next >>

(* The notifications of the editor's actions are such notices.             *)
LEMMA NoticeFacts ==
  ASSUME NEW p \in Paths
  PROVE  /\ \A t \in Texts, v \in Nat : /\ IsNotice(DidOpen(p, t, v))
                                        /\ IsNotice(DidChange(p, t, v))
         /\ \A t \in Texts : IsNotice(DidSave(p, t))
         /\ IsNotice(DidClose(p))
         /\ IsNotice(<< IndexFile(p) >>) /\ IsNotice(<< RemoveFile(p) >>)
         /\ \A q \in Paths : IsNotice(DidRenameFiles(p, q))
  <1>1. ASSUME NEW t \in Texts, NEW v \in Nat, NEW kind \in {"update", "save"}
        PROVE  Op(kind, p, t, v) \in Ops /\ Op(kind, p, t, v).kind = kind
    BY SMT DEF Op, Ops, EditOps, Snapshots, SnapshotsOf, Origins
  <1>2. ASSUME NEW q \in Paths, NEW kind \in {"close", "index", "remove"}
        PROVE  Op(kind, q, NoText, 0) \in Ops /\ Op(kind, q, NoText, 0).kind = kind
    BY DraftOp DEF Op
  <1>4. \A op \in Ops : op.kind \in Sent => IsNotice(<< op >>)
    BY DEF IsNotice
  <1>5. \A op, next \in Ops :
          op.kind = "remove" /\ next.kind = "index" => IsNotice(<< op, next >>)
    BY DEF IsNotice
  <1>6. \A t \in Texts, v \in Nat : IsNotice(DidOpen(p, t, v)) /\ IsNotice(DidChange(p, t, v))
    BY <1>1, <1>4 DEF DidOpen, DidChange, Sent
  <1>7. \A t \in Texts : IsNotice(DidSave(p, t))
    BY <1>1, <1>4 DEF DidSave, Sent
  <1>8. /\ IsNotice(DidClose(p))
        /\ IsNotice(<< IndexFile(p) >>) /\ IsNotice(<< RemoveFile(p) >>)
    BY <1>2, <1>4 DEF DidClose, IndexFile, RemoveFile, Sent
  <1>9. \A q \in Paths : IsNotice(DidRenameFiles(p, q))
    BY <1>2, <1>5 DEF DidRenameFiles, IndexFile, RemoveFile
  <1>10. QED
    BY <1>6, <1>7, <1>8, <1>9

(* A notice is a list of operations, which begins with one the editor sent. *)
LEMMA NoticeType ==
  ASSUME NEW n, IsNotice(n)
  PROVE  /\ n \in Seq(Ops) /\ n # << >>
         /\ Head(n) \in Ops /\ Head(n).kind \in Sent
         /\ \/ Tail(n) = << >>
            \/ Head(n).kind = "remove" /\ \E op \in Ops : op.kind = "index" /\ Tail(n) = << op >>
  <1>1. \A x \in Ops : << x >> \in Seq(Ops) /\ << x >> # << >> /\ Head(<< x >>) = x
                       /\ Tail(<< x >>) = << >>
    BY SMT
  <1>2. \A x, y \in Ops : << x, y >> \in Seq(Ops) /\ << x, y >> # << >>
                          /\ Head(<< x, y >>) = x /\ Tail(<< x, y >>) = << y >>
    BY SMT
  <1>3. CASE \E op \in Ops : op.kind \in Sent /\ n = << op >>
    BY <1>1, <1>3
  <1>4. CASE \E op, next \in Ops : op.kind = "remove" /\ next.kind = "index" /\ n = << op, next >>
    <2>1. PICK op \in Ops, next \in Ops : /\ op.kind = "remove" /\ next.kind = "index"
                                          /\ n = << op, next >>
      BY <1>4
    <2>2. n \in Seq(Ops) /\ n # << >> /\ Head(n) = op /\ Tail(n) = << next >>
      BY <1>2, <2>1
    <2>3. QED
      BY <2>1, <2>2 DEF Sent
  <1>5. QED
    BY <1>3, <1>4 DEF IsNotice

(* What the steps of the editor have in common.                            *)
EditorView ==
  /\ ServerUnchanged
  /\ disk' \in [Paths -> Texts \cup {NoText}]
  /\ buffer' \in [Paths -> Buffers \cup {Closed}]
  /\ opened \subseteq opened' /\ opened' \in SUBSET Paths
  /\ folders' \in SUBSET Roots
  /\ dirty' \in SUBSET Paths
  /\ inbox' = inbox \/ \E n : IsNotice(n) /\ inbox' = Append(inbox, n)

(* Every step of the editor is of this form.                               *)
LEMMA EditorSteps ==
  ASSUME SessionTypes, EditorNext
  PROVE  EditorView
  <1> USE DEF Post
  <1>0. disk \in [Paths -> Texts \cup {NoText}] /\ EditorOK
    BY DEF SessionTypes, Inv, TypeOK
  <1>1. ASSUME NEW p \in Paths, EditorOpen(p) PROVE EditorView
    <2>1. PICK t \in Texts : /\ buffer' = [buffer EXCEPT ![p] = [text |-> t, version |-> 1]]
                             /\ inbox' = Append(inbox, DidOpen(p, t, 1))
      BY <1>1 DEF EditorOpen
    <2>2. [text |-> t, version |-> 1] \in Buffers /\ IsNotice(DidOpen(p, t, 1))
      BY NoticeFacts DEF Buffers
    <2>3. QED
      BY <1>0, <1>1, <2>1, <2>2 DEF EditorOpen, EditorOK, EditorView
  <1>2. ASSUME NEW p \in Paths, EditorChange(p) PROVE EditorView
    <2> DEFINE v == buffer[p].version + 1
    <2>1. PICK t \in Texts : /\ buffer' = [buffer EXCEPT ![p] = [text |-> t, version |-> v]]
                             /\ inbox' = Append(inbox, DidChange(p, t, v))
      BY <1>2 DEF EditorChange
    <2>2. v \in Nat
      BY <1>0, <1>2, SMT DEF EditorChange, Open, EditorOK, Buffers
    <2>3. [text |-> t, version |-> v] \in Buffers /\ IsNotice(DidChange(p, t, v))
      BY <2>2, NoticeFacts DEF Buffers
    <2> HIDE DEF v
    <2>4. QED
      BY <1>0, <1>2, <2>1, <2>3 DEF EditorChange, EditorOK, EditorView
  <1>3. ASSUME NEW p \in Paths, EditorSave(p) PROVE EditorView
    <2>1. buffer[p].text \in Texts
      BY <1>0, <1>3, SMT DEF EditorSave, Open, EditorOK, Buffers
    <2>2. IsNotice(DidSave(p, buffer[p].text))
      BY <2>1, NoticeFacts
    <2>3. QED
      BY <1>0, <1>3, <2>1, <2>2 DEF EditorSave, EditorOK, EditorView
  <1>4. ASSUME NEW p \in Paths, EditorClose(p) PROVE EditorView
    <2>1. IsNotice(DidClose(p))
      BY NoticeFacts
    <2>2. QED
      BY <1>0, <1>4, <2>1 DEF EditorClose, EditorOK, EditorView
  <1>5. ASSUME NEW p \in Paths, FileChange(p) PROVE EditorView
    BY <1>0, <1>5 DEF FileChange, EditorOK, EditorView
  <1>6. ASSUME NEW p \in Paths, ReportFile(p) PROVE EditorView
    <2>1. IsNotice(<< IndexFile(p) >>) /\ IsNotice(<< RemoveFile(p) >>)
      BY NoticeFacts
    <2>2. \E n : IsNotice(n) /\ inbox' = Append(inbox, n)
      BY <1>6, <2>1 DEF ReportFile
    <2>3. QED
      BY <1>0, <1>6, <2>2 DEF ReportFile, EditorOK, EditorView
  <1>7. ASSUME NEW r \in Roots, EditorAddFolder(r) \/ EditorRemoveFolder(r) PROVE EditorView
    <2>1. /\ IsNotice(<< Folder("addFolder", r) >>)
          /\ IsNotice(<< Folder("removeFolder", r) >>)
      BY DEF IsNotice, Sent, Folder, Ops, FolderOps
    <2>2. QED
      BY <1>0, <1>7, <2>1 DEF EditorAddFolder, EditorRemoveFolder, EditorOK, EditorView
  <1>8. ASSUME NEW p \in Paths, NEW q \in Paths, EditorRename(p, q) PROVE EditorView
    <2>1. IsNotice(DidRenameFiles(p, q))
      BY NoticeFacts
    <2>2. QED
      BY <1>0, <1>8, <2>1 DEF EditorRename, EditorOK, EditorView
  <1>9. QED
    BY <1>1, <1>2, <1>3, <1>4, <1>5, <1>6, <1>7, <1>8 DEF EditorNext

(* The session keeps its types.                                            *)
LEMMA SessionTypesStep ==
  ASSUME SessionTypes, [SessionNext]_sessionVars
  PROVE  SessionTypes'
  <1> USE InvParts
  <1>0. Inv /\ TypeOK /\ EditorOK
    BY DEF SessionTypes, Inv
  <1>1. CASE EditorNext
    <2>1. EditorView
      BY <1>1, EditorSteps
    <2>2. StoreOK' /\ OthersOK'
      BY <1>0, <2>1, StoreUnchangedOK DEF EditorView, ServerUnchanged, handlerVars, OthersOK
    <2>3. TasksOK'
      BY <1>0, <2>1 DEF EditorView, ServerUnchanged, handlerVars, TasksOK, WellPlaced
    <2>4. inbox' \in Seq(Seq(Ops))
      <3>1. \A n \in Seq(Ops) : Append(inbox, n) \in Seq(Seq(Ops))
        BY <1>0, SMT DEF EditorOK
      <3>2. QED
        BY <1>0, <2>1, <3>1, NoticeType DEF EditorView, EditorOK
    <2>5. QED
      BY <2>1, <2>2, <2>3, <2>4
         DEF EditorView, EditorOK, SessionTypes, Inv, TypeOK, StoreOK, TasksOK, OthersOK
  <1>2. ASSUME NEW h \in Handlers, Receive(h)
        PROVE  SessionTypes'
    <2>1. Head(inbox) \in Seq(Ops) /\ Tail(inbox) \in Seq(Seq(Ops))
      BY <1>0, <1>2, SequenceFacts DEF Receive, EditorOK
    <2>2. TasksOK' /\ delivered' \in Nat
      BY <1>0, <1>2, <2>1, BeginOK DEF Receive
    <2>3. StoreOK' /\ OthersOK'
      BY <1>0, <1>2, <2>2, StoreUnchangedOK DEF Receive, OthersOK
    <2>4. EditorOK'
      BY <1>0, <1>2, <2>1 DEF Receive, EditorOK
    <2>5. QED
      BY <2>2, <2>3, <2>4 DEF SessionTypes, Inv, TypeOK, StoreOK, TasksOK, OthersOK
  <1>3. ASSUME NEW h \in Handlers, Handle(h)
        PROVE  SessionTypes'
    <2>1. Inv'
      BY <1>0, <1>3, UpdateStepsOK, CloseStepsOK, IndexStepsOK, FolderStepsOK
         DEF Handle, Step
    <2>2. EditorOK'
      BY <1>0, <1>3 DEF Handle, editorVars, EditorOK
    <2>3. QED
      BY <2>1, <2>2 DEF SessionTypes
  <1>4. CASE UNCHANGED sessionVars
    <2>1. StoreOK' /\ OthersOK'
      BY <1>0, <1>4, StoreUnchangedOK DEF sessionVars, vars, handlerVars, OthersOK
    <2>2. TasksOK'
      BY <1>0, <1>4 DEF sessionVars, vars, handlerVars, TasksOK, WellPlaced
    <2>3. EditorOK'
      BY <1>0, <1>4 DEF sessionVars, editorVars, EditorOK
    <2>4. QED
      BY <2>1, <2>2, <2>3 DEF SessionTypes, Inv, TypeOK, StoreOK, TasksOK, OthersOK
  <1>5. QED
    BY <1>1, <1>2, <1>3, <1>4 DEF SessionNext, AwaitInput

(* A session starts with its types.                                        *)
LEMMA SessionTypesInit == SessionInit => SessionTypes
  <1>1. << >> \in Seq(Seq(Ops))
    BY SMT
  <1>2. QED
    BY <1>1, InitOK DEF SessionInit, SessionTypes, EditorOK

(* The editor, the notifications on their way and the handlers that take   *)
(* them keep their types, however many handlers take them.                 *)
THEOREM SessionKeepsTypes == SessionSpec => []EditorTypeOK
  <1>1. SessionTypes => EditorTypeOK
    BY DEF SessionTypes, EditorOK, EditorTypeOK, Inv
  <1>2. QED
    BY <1>1, SessionTypesInit, SessionTypesStep, PTL DEF SessionSpec

------------------------------------------------------------------------------
(* What a handler does to its list of operations.                          *)

Rest(h) == Tail(task[h].todo)
Alone(h) == Rest(h) = << >>
FollowedBy(h, kind) == \E op \in Ops : op.kind = kind /\ Rest(h) = << op >>

(* The operation goes on; it is over and the next one begins.              *)
GoesOn(h) ==
  /\ ~Idle(h)'
  /\ OpOf(h)'.kind = OpOf(h).kind
  /\ Doc(h)'.path = Doc(h).path
  /\ Rest(h)' = Rest(h)
Ends(h) == task'[h].pc = "next" /\ task'[h].todo = Rest(h)

(* The head and the tail of short lists.                                   *)
LEMMA ShortLists ==
  ASSUME NEW S, NEW x \in S, NEW y \in S
  PROVE  /\ << x >> # << >> /\ Head(<< x >>) = x /\ Tail(<< x >>) = << >>
         /\ << x, y >> # << >> /\ Head(<< x, y >>) = x /\ Tail(<< x, y >>) = << y >>
         /\ << x >> \in Seq(S) /\ << x, y >> \in Seq(S)
         /\ \A t \in Seq(S) : Tail(<< x >> \o t) = t /\ << >> \o t = t
         /\ \A t \in Seq(S) : t \o << >> = t
  BY SMT

(* Continue leaves the rest of the list alone.                             *)
LEMMA ContinueGoesOn ==
  ASSUME TypeOK, NEW h \in Handlers, ~Idle(h), NEW pc, NEW doc, Continue(h, pc, doc)
  PROVE  /\ ~Idle(h)'
         /\ task'[h].pc = pc
         /\ OpOf(h)' = [kind |-> OpOf(h).kind, doc |-> doc]
         /\ Doc(h)' = doc
         /\ Rest(h)' = Rest(h)
         /\ doc.path = Doc(h).path => GoesOn(h)
  <1> DEFINE op == [kind |-> OpOf(h).kind, doc |-> doc]
             rest == Tail(task[h].todo)
             todo == << op >> \o rest
  <1>1. rest \in Seq(Ops)
    BY TaskFacts
  <1>2. op.kind = OpOf(h).kind /\ op.doc = doc
    OBVIOUS
  <1>3. task'[h].pc = pc /\ task'[h].todo = todo
    BY DEF Continue, TypeOK
  <1> HIDE DEF op, rest
  <1>4. todo # << >> /\ Head(todo) = op /\ Tail(todo) = rest
    <2>1. rest \in Seq(Ops \cup {op}) /\ op \in Ops \cup {op}
      BY <1>1, SMT
    <2>2. QED
      BY <2>1, ShortLists, SequenceFacts
  <1>5. Rest(h) = rest
    BY DEF Rest, rest
  <1> HIDE DEF todo
  <1>6. ~Idle(h)' /\ OpOf(h)' = op /\ Doc(h)' = doc /\ Rest(h)' = rest
    BY <1>2, <1>3, <1>4 DEF Idle, OpOf, Doc, Rest
  <1>7. QED
    BY <1>2, <1>3, <1>5, <1>6 DEF GoesOn, op

(* Finish passes on to the rest of the list.                               *)
LEMMA FinishEnds ==
  ASSUME TypeOK, NEW h \in Handlers, ~Idle(h), Finish(h)
  PROVE  Ends(h)
  <1> DEFINE rest == Tail(task[h].todo)
  <1>1. rest \in Seq(Ops)
    BY TaskFacts
  <1>2. task'[h].pc = "next" /\ task'[h].todo = << >> \o rest
    BY DEF Finish, FinishWith, TypeOK
  <1> HIDE DEF rest
  <1>3. << >> \o rest = rest
    BY <1>1, SMT
  <1>4. QED
    BY <1>2, <1>3 DEF Ends, Rest, rest

(* FinishWith starts its operations when no others wait.                   *)
LEMMA FinishWithAlone ==
  ASSUME TypeOK, NEW h \in Handlers, Alone(h), NEW ops \in Seq(Ops), FinishWith(h, ops)
  PROVE  task'[h].pc = "next" /\ task'[h].todo = ops
  <1>1. task'[h].pc = "next" /\ task'[h].todo = ops \o Rest(h)
    BY DEF FinishWith, TypeOK, Rest
  <1>2. ops \o << >> = ops
    BY SMT
  <1>3. QED
    BY <1>1, <1>2 DEF Alone

(* The steps that go on with an operation.                                 *)
LEMMA ContinuersGoOn ==
  ASSUME Inv, NEW h \in Handlers,
         \/ LoadSaveVersion(h) \/ ReserveUpdate(h) \/ InstallUpdate(h) \/ BeginPublish(h)
         \/ StartIndex(h) \/ ReadFile(h) \/ StoreReserve(h) \/ StoreRecheck(h)
         \/ ReadFileFails(h) /\ OpOf(h).kind = "restore"
  PROVE  ~Idle(h) /\ GoesOn(h)
  <1>0. TypeOK
    BY DEF Inv
  <1>1. ~Idle(h) /\ (Updates(h) \/ Indexing(h))
    BY <1>0, BusyAt, AtFacts DEF LoadSaveVersion, ReserveUpdate, InstallUpdate, BeginPublish,
       StartIndex, ReadFile, StoreReserve, StoreRecheck, ReadFileFails, Reading, At,
       Updates, Indexing
  <1>2. /\ \A v : [Doc(h) EXCEPT !.version = v].path = Doc(h).path
        /\ \A t : [Doc(h) EXCEPT !.text = t].path = Doc(h).path
        /\ \A r, o : Stamped(Doc(h), r, o).path = Doc(h).path
    <2>1. Doc(h) \in Drafts
      BY <1>0, <1>1, AtFacts, SnapshotsAreDrafts
    <2>2. QED
      BY <2>1, SMT DEF Drafts, SnapshotsOf, Stamped
  <1>3. \E pc, doc : Continue(h, pc, doc) /\ doc.path = Doc(h).path
    <2>1. CASE LoadSaveVersion(h)
      BY <1>2, <2>1 DEF LoadSaveVersion
    <2>2. CASE ReserveUpdate(h)
      BY <1>2, <2>2 DEF ReserveUpdate
    <2>3. CASE ReadFile(h)
      BY <1>2, <2>3 DEF ReadFile
    <2>4. CASE StoreReserve(h)
      BY <1>2, <2>4 DEF StoreReserve
    <2>5. CASE \/ InstallUpdate(h) \/ BeginPublish(h) \/ StartIndex(h) \/ StoreRecheck(h)
               \/ ReadFileFails(h) /\ OpOf(h).kind = "restore"
      BY <2>5 DEF InstallUpdate, BeginPublish, StartIndex, StoreRecheck, ReadFileFails
    <2>6. QED
      BY <2>1, <2>2, <2>3, <2>4, <2>5
  <1>4. QED
    BY <1>0, <1>1, <1>3, ContinueGoesOn

(* The steps that end an operation and put none in its place.              *)
LEMMA FinishersEnd ==
  ASSUME Inv, NEW h \in Handlers,
         \/ InstallRejected(h) \/ SkipPublish(h) \/ SendDiagnostics(h)
         \/ ClearDiagnostics(h) \/ SkipIndex(h) \/ ForgetLostFile(h)
         \/ StoreAbandoned(h) \/ InstallIndexed(h) \/ RemoveWorkspaceFile(h)
         \/ AddFolderFails(h) \/ WalkDone(h) \/ RemoveFolder(h)
         \/ ReadFileFails(h) /\ OpOf(h).kind # "restore"
  PROVE  ~Idle(h) /\ Ends(h)
  <1>0. TypeOK
    BY DEF Inv
  <1>1. ~Idle(h)
    BY <1>0, BusyAt DEF InstallRejected, SkipPublish, SendDiagnostics, ClearDiagnostics,
       SkipIndex, ForgetLostFile, StoreAbandoned, InstallIndexed, RemoveWorkspaceFile,
       AddFolderFails, WalkDone, RemoveFolder, ReadFileFails, Reading, At
  <1>2. Finish(h)
    BY DEF InstallRejected, SkipPublish, SendDiagnostics, ClearDiagnostics, SkipIndex,
       ForgetLostFile, StoreAbandoned, InstallIndexed, RemoveWorkspaceFile,
       AddFolderFails, WalkDone, RemoveFolder, ReadFileFails
  <1>3. QED
    BY <1>0, <1>1, <1>2, FinishEnds

(* What follows a close: the file of an indexed document is read again     *)
(* before its diagnostics are cleared.                                     *)
RestoresNext(h, p) ==
  /\ OpOf(h)'.kind = "restore"
  /\ \E op \in Ops : op.kind = "clear" /\ op.doc.path = p /\ Rest(h)' = << op >>
  /\ p \in workspaceFileMap
  /\ SetDocumentOrigin(p, DocumentOrigin(p) \ {"open"})
ClearsNext(h, p) ==
  /\ OpOf(h)'.kind = "clear"
  /\ Alone(h)'
  /\ p \notin workspaceFileMap
  /\ ForgetDocument(p)

(* Where CloseDocument leaves the handler: with the restore of the file,   *)
(* or with the clearing of its diagnostics.                                *)
LEMMA CloseLeaves ==
  ASSUME Inv, NEW h \in Handlers, Alone(h), CloseDocument(h)
  PROVE  /\ ~Idle(h) /\ ~Idle(h)' /\ task'[h].pc = "next"
         /\ Doc(h).path \in Paths /\ Doc(h)'.path = Doc(h).path
         /\ RestoresNext(h, Doc(h).path) \/ ClearsNext(h, Doc(h).path)
  <1> USE InvParts
  <1>0. TypeOK
    BY DEF Inv
  <1>1. ~Idle(h) /\ OpOf(h).kind = "close"
    BY DEF CloseDocument, At
  <1>2. Doc(h) \in Drafts /\ Doc(h).path \in Paths
    BY <1>0, <1>1, TaskFacts, OpFacts, SMT DEF Doc, Drafts, SnapshotsOf
  <1> DEFINE p == Doc(h).path
             origin == DocumentOrigin(p) \ {"open"}
             doc == [Doc(h) EXCEPT !.revision = NextRevision(p)]
             clear == [kind |-> "clear", doc |-> doc]
             restore == Op("restore", p, NoText, 0)
  <1>3. NextRevision(p) \in Nat
    BY <1>2, SMT DEF StoreOK, StoreTypeOK, NextRevision
  <1>4. doc \in Drafts /\ doc.path = p
    BY <1>2, <1>3, SMT DEF Drafts, SnapshotsOf
  <1>5. clear \in Ops /\ clear.kind = "clear" /\ clear.doc.path = p
    BY <1>4, FileOp
  <1>6. restore \in Ops /\ restore.kind = "restore" /\ restore.doc.path = p
    BY <1>2, DraftOp DEF Op
  <1>7. "workspace" \in origin <=> p \in workspaceFileMap
    BY <1>2, DocumentOriginFlags
  <1>8. IF "workspace" \in origin
        THEN SetDocumentOrigin(p, origin) /\ FinishWith(h, << restore, clear >>)
        ELSE ForgetDocument(p) /\ FinishWith(h, << clear >>)
    BY DEF CloseDocument
  <1> HIDE DEF restore, clear, doc
  <1>9. CASE "workspace" \in origin
    <2>1. task'[h].pc = "next" /\ task'[h].todo = << restore, clear >>
      BY <1>0, <1>5, <1>6, <1>8, <1>9, ShortLists, FinishWithAlone
    <2>2. ~Idle(h)' /\ OpOf(h)' = restore /\ Rest(h)' = << clear >>
      BY <1>5, <1>6, <2>1, ShortLists DEF Idle, OpOf, Rest
    <2>3. Doc(h)'.path = p
      BY <1>6, <2>2 DEF Doc
    <2>4. RestoresNext(h, p)
      BY <1>5, <1>6, <1>7, <1>8, <1>9, <2>2 DEF RestoresNext
    <2>5. QED
      BY <1>1, <1>2, <2>1, <2>2, <2>3, <2>4
  <1>10. CASE "workspace" \notin origin
    <2>1. task'[h].pc = "next" /\ task'[h].todo = << clear >>
      BY <1>0, <1>5, <1>8, <1>10, ShortLists, FinishWithAlone
    <2>2. ~Idle(h)' /\ OpOf(h)' = clear /\ Alone(h)'
      BY <1>5, <2>1, ShortLists DEF Idle, OpOf, Rest, Alone
    <2>3. Doc(h)'.path = p
      BY <1>5, <2>2 DEF Doc
    <2>4. ClearsNext(h, p)
      BY <1>5, <1>7, <1>8, <1>10, <2>2 DEF ClearsNext
    <2>5. QED
      BY <1>1, <1>2, <2>1, <2>2, <2>3, <2>4
  <1>11. QED
    BY <1>9, <1>10

(* What follows the recording of a folder: the walk of what it lists.      *)
LEMMA AddLeaves ==
  ASSUME Inv, NEW h \in Handlers, Alone(h), AddFolder(h)
  PROVE  /\ ~Idle(h) /\ ~Idle(h)' /\ task'[h].pc = "next" /\ Alone(h)'
         /\ OpOf(h)'.kind = "walk" /\ OpOf(h)'.paths = Listing(OpOf(h).root)
  <1>0. TypeOK
    BY DEF Inv
  <1>1. ~Idle(h) /\ OpOf(h).root \in Roots
    BY <1>0, TaskFacts, OpFacts DEF AddFolder, At
  <1> DEFINE walk == [kind |-> "walk", paths |-> Listing(OpOf(h).root)]
  <1>2. walk \in Ops
    <2>1. Listing(OpOf(h).root) \in SUBSET Paths
      BY <1>1, SyncAssumption, SMT DEF Listing
    <2>2. QED
      BY <2>1 DEF Ops, WalkOps
  <1>3. FinishWith(h, << walk >>)
    BY DEF AddFolder
  <1>4. walk.kind = "walk" /\ walk.paths = Listing(OpOf(h).root)
    OBVIOUS
  <1> HIDE DEF walk
  <1>5. task'[h].pc = "next" /\ task'[h].todo = << walk >>
    BY <1>0, <1>2, <1>3, ShortLists, FinishWithAlone
  <1>6. ~Idle(h)' /\ OpOf(h)' = walk /\ Alone(h)'
    BY <1>2, <1>5, ShortLists DEF Idle, OpOf, Rest, Alone
  <1>7. QED
    BY <1>1, <1>4, <1>5, <1>6

(* What a walk does next: the indexing of a file, then the rest of it.     *)
LEMMA WalkLeaves ==
  ASSUME Inv, NEW h \in Handlers, Alone(h), WalkNext(h)
  PROVE  /\ ~Idle(h) /\ ~Idle(h)' /\ task'[h].pc = "next"
         /\ OpOf(h)'.kind = "index" /\ Doc(h)'.path \in OpOf(h).paths
         /\ \E op \in Ops : /\ op.kind = "walk"
                            /\ op.paths = OpOf(h).paths \ {Doc(h)'.path}
                            /\ Rest(h)' = << op >>
  <1>0. TypeOK
    BY DEF Inv
  <1>1. ~Idle(h) /\ OpOf(h).paths \in SUBSET Paths
    BY <1>0, TaskFacts, OpFacts DEF WalkNext, At
  <1> DEFINE walk(p) == [kind |-> "walk", paths |-> OpOf(h).paths \ {p}]
  <1>2. PICK p \in OpOf(h).paths : FinishWith(h, << IndexFile(p), walk(p) >>)
    BY DEF WalkNext
  <1>3. IndexFile(p) \in Ops /\ IndexFile(p).kind = "index" /\ IndexFile(p).doc.path = p
    BY <1>1, <1>2, DraftOp DEF IndexFile, Op
  <1>4. walk(p) \in Ops /\ walk(p).kind = "walk" /\ walk(p).paths = OpOf(h).paths \ {p}
    BY <1>1 DEF Ops, WalkOps
  <1> HIDE DEF walk
  <1>5. task'[h].pc = "next" /\ task'[h].todo = << IndexFile(p), walk(p) >>
    BY <1>0, <1>2, <1>3, <1>4, ShortLists, FinishWithAlone
  <1>6. ~Idle(h)' /\ OpOf(h)' = IndexFile(p) /\ Rest(h)' = << walk(p) >>
    BY <1>3, <1>4, <1>5, ShortLists DEF Idle, OpOf, Rest
  <1>7. Doc(h)'.path = p
    BY <1>3, <1>6 DEF Doc
  <1>8. QED
    BY <1>1, <1>2, <1>3, <1>4, <1>5, <1>6, <1>7

------------------------------------------------------------------------------
(* A handler that works alone.                                             *)

(* The lists a handler ever has: an operation, and after some another one. *)
Shape(h) == ~Idle(h) =>
  /\ OpOf(h).kind = "restore" =>
       \E op \in Ops : op.kind = "clear" /\ op.doc.path = Doc(h).path /\ Rest(h) = << op >>
  /\ OpOf(h).kind = "index" => Alone(h) \/ FollowedBy(h, "walk")
  /\ OpOf(h).kind = "remove" => Alone(h) \/ FollowedBy(h, "index")
  /\ OpOf(h).kind \notin {"restore", "index", "remove"} => Alone(h)

(* What the handler has read or reserved still holds, nobody else having   *)
(* written since; and the index knows SQL files only.                      *)
Steady(h) == ~Idle(h) =>
  /\ task[h].pc \in {"recheck", "install"} => Doc(h).revision = documentRevisions[Doc(h).path]
  /\ task[h].pc \in {"publish", "send"} => documents[Doc(h).path] = Doc(h)
  /\ OpOf(h).kind = "restore" => Doc(h).path \in SQLFiles \ openDocumentMap
  /\ OpOf(h).kind = "index" /\ task[h].pc # "next" => Doc(h).path \in SQLFiles \ openDocumentMap
  /\ Indexing(h) /\ task[h].pc \in {"recheck", "install"} => Doc(h).origin = {"workspace"}
  /\ Updates(h) /\ task[h].pc = "install" /\ "workspace" \in Doc(h).origin
       => Doc(h).path \in SQLFiles
Indexed == workspaceFileMap \subseteq SQLFiles

HandlerOK(h) == Shape(h) /\ Steady(h) /\ Indexed

(* When an operation ends, what waited behind it begins, alone.            *)
Passes(h) ==
  \/ Idle(h)' /\ Alone(h)
  \/ /\ ~Idle(h)' /\ Alone(h)' /\ task'[h].pc = "next"
     /\ OpOf(h)' \in Ops /\ Rest(h) = << OpOf(h)' >>
     /\ \/ /\ OpOf(h).kind = "restore" /\ OpOf(h)'.kind = "clear"
           /\ Doc(h)'.path = Doc(h).path
        \/ OpOf(h).kind = "index" /\ OpOf(h)'.kind = "walk"
        \/ OpOf(h).kind = "remove" /\ OpOf(h)'.kind = "index"

(* An operation that ends hands over to the next of the notice, or leaves  *)
(* the handler idle.                                                       *)
LEMMA EndPasses ==
  ASSUME NEW h \in Handlers, Shape(h), ~Idle(h), Ends(h)
  PROVE  Passes(h)
  <1>1. ASSUME NEW op \in Ops, Rest(h) = << op >>
        PROVE  ~Idle(h)' /\ OpOf(h)' = op /\ Alone(h)'
    <2>1. task'[h].todo = << op >>
      BY <1>1 DEF Ends
    <2>2. << op >> # << >> /\ Head(<< op >>) = op /\ Tail(<< op >>) = << >>
      BY ShortLists
    <2>3. QED
      BY <2>1, <2>2 DEF Idle, OpOf, Alone, Rest
  <1>2. CASE Alone(h)
    BY <1>2 DEF Ends, Alone, Idle, Passes
  <1>3. CASE ~Alone(h)
    <2>1. PICK op \in Ops :
            /\ Rest(h) = << op >>
            /\ \/ OpOf(h).kind = "restore" /\ op.kind = "clear" /\ op.doc.path = Doc(h).path
               \/ OpOf(h).kind = "index" /\ op.kind = "walk"
               \/ OpOf(h).kind = "remove" /\ op.kind = "index"
      BY <1>3 DEF Shape, FollowedBy
    <2>2. ~Idle(h)' /\ OpOf(h)' = op /\ Alone(h)'
      BY <1>1, <2>1
    <2>3. QED
      BY <2>1, <2>2 DEF Passes, Ends, Doc
  <1>4. QED
    BY <1>2, <1>3

(* The steps of a handler keep the shape of its list.                      *)
LEMMA ShapeStep ==
  ASSUME Inv, NEW h \in Handlers, Shape(h), Step(h)
  PROVE  Shape(h)'
  <1>1. CASE GoesOn(h) /\ ~Idle(h)
    BY <1>1 DEF GoesOn, Shape, Alone, FollowedBy
  <1>2. CASE Ends(h) /\ ~Idle(h)
    <2>1. Passes(h)
      BY <1>2, EndPasses
    <2>2. QED
      BY <2>1 DEF Passes, Shape
  <1>3. CASE CloseDocument(h)
    <2>1. Alone(h)
      BY <1>3 DEF CloseDocument, At, Shape
    <2>2. QED
      BY <1>3, <2>1, CloseLeaves DEF RestoresNext, ClearsNext, Shape
  <1>4. CASE AddFolder(h)
    <2>1. Alone(h)
      BY <1>4 DEF AddFolder, At, Shape
    <2>2. QED
      BY <1>4, <2>1, AddLeaves DEF Shape
  <1>5. CASE WalkNext(h)
    <2>1. Alone(h)
      BY <1>5 DEF WalkNext, At, Shape
    <2>2. QED
      BY <1>5, <2>1, WalkLeaves DEF Shape, FollowedBy
  <1>6. QED
    BY <1>1, <1>2, <1>3, <1>4, <1>5, ContinuersGoOn, FinishersEnd DEF Step

(* After an operation has ended the handler holds nothing.                 *)
LEMMA EndIsSteady ==
  ASSUME NEW h \in Handlers, Passes(h)
  PROVE  Steady(h)'
  BY DEF Passes, Steady, Updates, Indexing

(* The operation that goes on, at its new pc and with its new draft.       *)
LEMMA ContinueOp ==
  ASSUME Inv, NEW h \in Handlers, ~Idle(h), NEW pc, NEW doc, Continue(h, pc, doc)
  PROVE  /\ ~Idle(h)' /\ task'[h].pc = pc /\ Doc(h)' = doc
         /\ OpOf(h)'.kind = OpOf(h).kind
         /\ Updates(h)' <=> Updates(h)
         /\ Indexing(h)' <=> Indexing(h)
  <1>1. TypeOK
    BY DEF Inv
  <1>2. ~Idle(h)' /\ task'[h].pc = pc /\ Doc(h)' = doc
    BY <1>1, ContinueGoesOn
  <1>3. OpOf(h)'.kind = OpOf(h).kind
    BY <1>1, ContinueGoesOn
  <1>4. QED
    BY <1>2, <1>3 DEF Updates, Indexing

(* The steps of updateDocument: nothing has come between a reservation and *)
(* the install, nor between the install and the publication.               *)
LEMMA UpdateIsSteady ==
  ASSUME Inv, NEW h \in Handlers, HandlerOK(h),
         \/ LoadSaveVersion(h) \/ ReserveUpdate(h) \/ InstallUpdate(h) \/ BeginPublish(h)
  PROVE  Steady(h)' /\ Indexed'
  <1> USE InvParts
  <1>0. TypeOK /\ Steady(h) /\ Indexed
    BY DEF Inv, HandlerOK
  <1>1. ~Idle(h) /\ OpOf(h).kind \in {"update", "save"} /\ Updates(h) /\ ~Indexing(h)
    BY <1>0, BusyAt, AtFacts DEF LoadSaveVersion, ReserveUpdate, InstallUpdate, BeginPublish,
       At, Updates, Indexing
  <1>2. Doc(h) \in Snapshots /\ Doc(h).path \in Paths
    BY <1>0, <1>1, AtFacts, SMT DEF Snapshots, SnapshotsOf
  <1>3. CASE LoadSaveVersion(h)
    <2>1. PICK doc : Continue(h, "reserve", doc)
      BY <1>3 DEF LoadSaveVersion
    <2>2. QED
      BY <1>0, <1>1, <1>3, <2>1, ContinueOp DEF LoadSaveVersion, Steady, Indexed, storeVars
  <1>4. CASE ReserveUpdate(h)
    <2> DEFINE p == Doc(h).path
               o == MutateOrigin(OpOf(h).kind, DocumentOrigin(p))
               doc == Stamped(Doc(h), NextRevision(p), o)
    <2>1. ReserveRevision(p) /\ Continue(h, "install", doc)
      BY <1>4 DEF ReserveUpdate
    <2>2. doc.path = p /\ doc.revision = NextRevision(p) /\ doc.origin = o
      BY DEF Stamped
    <2>3. "workspace" \in o => p \in SQLFiles
      BY <1>0, <1>2, DocumentOriginFlags DEF MutateOrigin, Indexed
    <2>4. documentRevisions'[p] = NextRevision(p) /\ workspaceFileMap' = workspaceFileMap
      BY <1>0, <1>2, <2>1 DEF ReserveRevision, TypeOK, StoreTypeOK
    <2> HIDE DEF doc, o
    <2>5. /\ ~Idle(h)' /\ task'[h].pc = "install" /\ Doc(h)' = doc
          /\ OpOf(h)'.kind = OpOf(h).kind /\ ~Indexing(h)'
      BY <1>1, <2>1, ContinueOp
    <2>6. QED
      BY <1>0, <1>1, <2>2, <2>3, <2>4, <2>5 DEF Steady, Indexed
  <1>5. CASE InstallUpdate(h)
    <2>1. /\ ~Idle(h)' /\ task'[h].pc = "publish" /\ Doc(h)' = Doc(h)
          /\ OpOf(h)'.kind = OpOf(h).kind /\ ~Indexing(h)'
      BY <1>1, <1>5, ContinueOp DEF InstallUpdate
    <2>2. documents'[Doc(h).path] = Doc(h)
      BY <1>0, <1>2, <1>5 DEF InstallUpdate, InstallSnapshot, TypeOK, StoreTypeOK
    <2>3. "workspace" \in Doc(h).origin => Doc(h).path \in SQLFiles
      BY <1>0, <1>1, <1>5 DEF InstallUpdate, Steady
    <2>4. Indexed'
      BY <1>0, <1>5, <2>3 DEF InstallUpdate, InstallSnapshot, SetOriginMaps, Indexed
    <2>5. QED
      BY <1>1, <2>1, <2>2, <2>4 DEF Steady
  <1>6. CASE BeginPublish(h)
    <2>1. /\ ~Idle(h)' /\ task'[h].pc = "send" /\ Doc(h)' = Doc(h)
          /\ OpOf(h)'.kind = OpOf(h).kind /\ ~Indexing(h)'
      BY <1>1, <1>6, ContinueOp DEF BeginPublish
    <2>2. QED
      BY <1>0, <1>1, <1>6, <2>1 DEF BeginPublish, Current, Steady, Indexed, storeVars
  <1>7. QED
    BY <1>3, <1>4, <1>5, <1>6

(* The steps of the index that go on: a file it reads stays an SQL file    *)
(* that is not open.                                                       *)
LEMMA IndexIsSteady ==
  ASSUME Inv, NEW h \in Handlers, HandlerOK(h),
         \/ StartIndex(h) \/ ReadFile(h) \/ StoreReserve(h) \/ StoreRecheck(h)
         \/ ReadFileFails(h) /\ OpOf(h).kind = "restore"
  PROVE  Steady(h)' /\ Indexed'
  <1> USE InvParts
  <1>0. TypeOK /\ Steady(h) /\ Indexed
    BY DEF Inv, HandlerOK
  <1>1. ~Idle(h) /\ OpOf(h).kind \in {"index", "restore"} /\ Indexing(h) /\ ~Updates(h)
    BY <1>0, BusyAt, AtFacts DEF StartIndex, ReadFile, StoreReserve, StoreRecheck,
       ReadFileFails, Reading, At, Updates, Indexing
  <1>2. Doc(h) \in Drafts /\ Doc(h).path \in Paths
    BY <1>0, <1>1, AtFacts, SMT DEF Drafts, SnapshotsOf
  <1>3. Doc(h).path \in SQLFiles \ openDocumentMap
    BY <1>0, <1>1 DEF StartIndex, ReadFile, StoreReserve, StoreRecheck,
       ReadFileFails, Reading, At, Steady
  <1>4. openDocumentMap' = openDocumentMap /\ Indexed'
    BY <1>0 DEF StartIndex, ReadFile, StoreReserve, StoreRecheck, ReadFileFails,
       ReserveRevision, storeVars, Indexed
  <1>5. CASE \/ StartIndex(h) \/ ReadFile(h)
             \/ ReadFileFails(h) /\ OpOf(h).kind = "restore"
    <2>1. PICK pc, doc : /\ pc \in {"read", "store", "lost"}
                         /\ Continue(h, pc, doc) /\ doc.path = Doc(h).path
      <3>1. \A t : [Doc(h) EXCEPT !.text = t].path = Doc(h).path
        BY <1>2, SMT DEF Drafts, SnapshotsOf
      <3>2. CASE StartIndex(h)
        <4>1. Continue(h, "read", Doc(h))
          BY <3>2 DEF StartIndex
        <4>2. QED
          BY <4>1
      <3>3. CASE ReadFile(h)
        <4> DEFINE doc == [Doc(h) EXCEPT !.text = disk[Doc(h).path]]
        <4>1. Continue(h, "store", doc)
          BY <3>3 DEF ReadFile
        <4>2. doc.path = Doc(h).path
          BY <3>1
        <4> HIDE DEF doc
        <4>3. QED
          BY <4>1, <4>2
      <3>4. CASE ReadFileFails(h) /\ OpOf(h).kind = "restore"
        <4>1. Continue(h, "lost", Doc(h))
          BY <3>4 DEF ReadFileFails
        <4>2. QED
          BY <4>1
      <3>5. QED
        BY <1>5, <3>2, <3>3, <3>4
    <2>2. QED
      BY <1>1, <1>3, <1>4, <2>1, ContinueOp DEF Steady
  <1>6. CASE StoreReserve(h)
    <2> DEFINE p == Doc(h).path
               doc == Stamped(Doc(h), NextRevision(p), {"workspace"})
    <2>1. ReserveRevision(p) /\ Continue(h, "recheck", doc)
      BY <1>6 DEF StoreReserve
    <2>2. doc.path = p /\ doc.revision = NextRevision(p) /\ doc.origin = {"workspace"}
      BY DEF Stamped
    <2>3. documentRevisions'[p] = NextRevision(p)
      BY <1>0, <1>2, <2>1 DEF ReserveRevision, TypeOK, StoreTypeOK
    <2> HIDE DEF doc
    <2>4. QED
      BY <1>1, <1>3, <1>4, <2>1, <2>2, <2>3, ContinueOp DEF Steady
  <1>7. CASE StoreRecheck(h)
    <2>1. task[h].pc = "recheck" /\ Continue(h, "install", Doc(h)) /\ UNCHANGED storeVars
      BY <1>7 DEF StoreRecheck
    <2>2. Doc(h).origin = {"workspace"} /\ Doc(h).revision = documentRevisions[Doc(h).path]
      BY <1>0, <1>1, <2>1 DEF Steady
    <2>3. QED
      BY <1>1, <1>3, <1>4, <2>1, <2>2, ContinueOp DEF Steady, storeVars
  <1>8. QED
    BY <1>5, <1>6, <1>7

(* The steps that end an operation leave SQL files in the index.           *)
LEMMA EndersKeepIndex ==
  ASSUME Inv, NEW h \in Handlers, HandlerOK(h),
         \/ InstallRejected(h) \/ SkipPublish(h) \/ SendDiagnostics(h)
         \/ ClearDiagnostics(h) \/ SkipIndex(h) \/ ForgetLostFile(h)
         \/ StoreAbandoned(h) \/ InstallIndexed(h) \/ RemoveWorkspaceFile(h)
         \/ AddFolderFails(h) \/ WalkDone(h) \/ RemoveFolder(h)
         \/ AddFolder(h) \/ WalkNext(h) \/ ReadFileFails(h)
  PROVE  Indexed'
  <1>0. Indexed
    BY DEF HandlerOK
  <1>1. CASE \/ InstallRejected(h) \/ SkipPublish(h) \/ SendDiagnostics(h)
             \/ ClearDiagnostics(h) \/ SkipIndex(h) \/ StoreAbandoned(h)
             \/ AddFolderFails(h) \/ WalkDone(h) \/ AddFolder(h) \/ WalkNext(h)
             \/ ReadFileFails(h)
    BY <1>0, <1>1 DEF InstallRejected, SkipPublish, SendDiagnostics, ClearDiagnostics,
       SkipIndex, StoreAbandoned, AddFolderFails, WalkDone, AddFolder, WalkNext,
       ReadFileFails, storeVars, Indexed
  <1>2. CASE ForgetLostFile(h) \/ RemoveWorkspaceFile(h) \/ RemoveFolder(h)
    BY <1>0, <1>2 DEF ForgetLostFile, RemoveWorkspaceFile, RemoveFolder, LeaveWorkspace,
       storeVars, Indexed
  <1>3. CASE InstallIndexed(h)
    <2>1. Doc(h).path \in SQLFiles
      BY <1>3 DEF HandlerOK, Steady, InstallIndexed, Indexing
    <2>2. QED
      BY <1>0, <1>3, <2>1 DEF InstallIndexed, InstallSnapshot, SetOriginMaps, Indexed
  <1>4. QED
    BY <1>1, <1>2, <1>3

(* A handler that works alone stays as described.                          *)
LEMMA HandlerStep ==
  ASSUME Inv, NEW h \in Handlers, HandlerOK(h), Step(h)
  PROVE  HandlerOK(h)'
  <1>0. Shape(h) /\ Steady(h) /\ Indexed
    BY DEF HandlerOK
  <1>1. Shape(h)'
    BY <1>0, ShapeStep
  <1>2. CASE \/ LoadSaveVersion(h) \/ ReserveUpdate(h) \/ InstallUpdate(h) \/ BeginPublish(h)
    BY <1>1, <1>2, UpdateIsSteady DEF HandlerOK
  <1>3. CASE \/ StartIndex(h) \/ ReadFile(h) \/ StoreReserve(h) \/ StoreRecheck(h)
             \/ ReadFileFails(h) /\ OpOf(h).kind = "restore"
    BY <1>1, <1>3, IndexIsSteady DEF HandlerOK
  <1>4. CASE \/ InstallRejected(h) \/ SkipPublish(h) \/ SendDiagnostics(h)
             \/ ClearDiagnostics(h) \/ SkipIndex(h) \/ ForgetLostFile(h)
             \/ StoreAbandoned(h) \/ InstallIndexed(h) \/ RemoveWorkspaceFile(h)
             \/ AddFolderFails(h) \/ WalkDone(h) \/ RemoveFolder(h)
             \/ ReadFileFails(h) /\ OpOf(h).kind # "restore"
    <2>1. Passes(h)
      BY <1>0, <1>4, FinishersEnd, EndPasses
    <2>2. Steady(h)'
      BY <2>1, EndIsSteady
    <2>3. Indexed'
      BY <1>4, EndersKeepIndex
    <2>4. QED
      BY <1>1, <2>2, <2>3 DEF HandlerOK
  <1>5. CASE CloseDocument(h)
    <2>1. Alone(h)
      BY <1>0, <1>5 DEF CloseDocument, At, Shape
    <2> DEFINE p == Doc(h).path
    <2>2. /\ ~Idle(h)' /\ task'[h].pc = "next" /\ p \in Paths /\ Doc(h)'.path = p
          /\ RestoresNext(h, p) \/ ClearsNext(h, p)
      BY <1>5, <2>1, CloseLeaves
    <2> HIDE DEF p
    <2>3. CASE RestoresNext(h, p)
      <3>1. /\ openDocumentMap' = openDocumentMap \ {p}
            /\ workspaceFileMap' \subseteq workspaceFileMap \cup {p}
        BY <2>3 DEF RestoresNext, SetDocumentOrigin, SetOriginMaps
      <3>2. p \in SQLFiles /\ Indexed'
        BY <1>0, <2>3, <3>1 DEF RestoresNext, Indexed
      <3>3. Steady(h)'
        BY <2>2, <2>3, <3>1, <3>2 DEF RestoresNext, Steady, Updates, Indexing
      <3>4. QED
        BY <1>1, <3>2, <3>3 DEF HandlerOK
    <2>4. CASE ClearsNext(h, p)
      BY <1>0, <1>1, <2>2, <2>4
         DEF ClearsNext, ForgetDocument, Steady, Updates, Indexing, Indexed, HandlerOK
    <2>5. QED
      BY <2>2, <2>3, <2>4
  <1>6. CASE AddFolder(h) \/ WalkNext(h)
    <2>1. Alone(h)
      BY <1>0, <1>6 DEF AddFolder, WalkNext, At, Shape
    <2>2. ~Idle(h)' /\ task'[h].pc = "next" /\ OpOf(h)'.kind \in {"walk", "index"}
      BY <1>6, <2>1, AddLeaves, WalkLeaves
    <2>3. Steady(h)'
      BY <2>2 DEF Steady, Updates, Indexing
    <2>4. QED
      BY <1>1, <1>6, <2>3, EndersKeepIndex DEF HandlerOK
  <1>7. QED
    BY <1>2, <1>3, <1>4, <1>5, <1>6 DEF Step

(* Alone, a handler is never overtaken: what it parsed it installs, and    *)
(* what it installed it publishes.                                         *)
LEMMA NeverOvertaken ==
  ASSUME Inv, NEW h \in Handlers, HandlerOK(h)
  PROVE  /\ ~SkipPublish(h)
         /\ ~StoreAbandoned(h)
         /\ InstallRejected(h) => /\ Updates(h) /\ Doc(h).origin = {"workspace"}
                                  /\ Doc(h).path \in openDocumentMap
  <1>0. TypeOK /\ Steady(h)
    BY DEF Inv, HandlerOK
  <1>1. ~SkipPublish(h)
    BY <1>0, BusyAt DEF SkipPublish, Current, Steady
  <1>2. ~StoreAbandoned(h)
    BY <1>0, BusyAt, AtFacts DEF StoreAbandoned, StoreOpen, Steady, Indexing
  <1>3. ASSUME InstallRejected(h)
        PROVE  /\ Updates(h) /\ Doc(h).origin = {"workspace"}
               /\ Doc(h).path \in openDocumentMap
    <2>1. /\ task[h].pc = "install" /\ ~Idle(h)
          /\ Updates(h) \/ Indexing(h)
      BY <1>0, <1>3, BusyAt, AtFacts DEF InstallRejected
    <2>2. Doc(h).revision = documentRevisions[Doc(h).path]
      BY <1>0, <2>1 DEF Steady
    <2>3. Doc(h).origin = {"workspace"} /\ Doc(h).path \in openDocumentMap
      BY <1>3, <2>2 DEF InstallRejected, Installable
    <2>4. Indexing(h) => Doc(h).path \notin openDocumentMap
      BY <1>0, <2>1 DEF Steady, Indexing
    <2>5. QED
      BY <2>1, <2>3, <2>4
  <1>4. QED
    BY <1>1, <1>2, <1>3

------------------------------------------------------------------------------
(* The notifications on their way.                                         *)

About(op, kinds, p) == op.kind \in kinds /\ op.doc.path = p

(* The notices that open, change or close p; the ones behind the i-th.     *)
Lifecycle(n, p) == About(Head(n), {"update", "close"}, p)
Settled(p, i) == \A j \in i + 1 .. Len(inbox) : ~Lifecycle(inbox[j], p)
Calm(p) == \A i \in 1 .. Len(inbox) : ~Lifecycle(inbox[i], p)

(* What the last notices about p say of it is what the editor shows.       *)
Agrees(op, p) ==
  /\ About(op, {"update"}, p) =>
       Open(p) /\ buffer[p] = [text |-> op.doc.text, version |-> op.doc.version]
  /\ About(op, {"close"}, p) => ~Open(p)
  /\ About(op, {"save"}, p) => Open(p) /\ buffer[p].text = op.doc.text

QueueAgrees == \A p \in Paths : \A i \in 1 .. Len(inbox) :
  Settled(p, i) => Agrees(Head(inbox[i]), p)

InboxOK == \A i \in 1 .. Len(inbox) : IsNotice(inbox[i])

QueueOK == InboxOK /\ QueueAgrees

(* The sequences Append and Tail make.                                     *)
LEMMA AppendFacts ==
  ASSUME NEW S, NEW t \in Seq(S), NEW n
  PROVE  /\ Len(t) \in Nat /\ Len(Append(t, n)) = Len(t) + 1
         /\ Append(t, n)[Len(t) + 1] = n
         /\ \A i \in 1 .. Len(t) : Append(t, n)[i] = t[i]
  BY SMT

(* What taking the head of a sequence leaves.                              *)
LEMMA TailFacts ==
  ASSUME NEW S, NEW t \in Seq(S), t # << >>
  PROVE  /\ Len(t) \in Nat /\ Len(t) > 0 /\ Len(Tail(t)) = Len(t) - 1
         /\ Head(t) = t[1]
         /\ \A i \in 1 .. Len(t) - 1 : Tail(t)[i] = t[i + 1]
  BY SMT

(* A notice that is posted.                                                *)
LEMMA PostedQueue ==
  ASSUME EditorOK, NEW n, inbox' = Append(inbox, n)
  PROVE  /\ \A p : Calm(p)' <=> Calm(p) /\ ~Lifecycle(n, p)
         /\ InboxOK /\ IsNotice(n) => InboxOK'
         /\ \A p, i : i \in 1 .. Len(inbox) =>
              (Settled(p, i)' <=> Settled(p, i) /\ ~Lifecycle(n, p))
  <1> DEFINE k == Len(inbox)
  <1>1. /\ k \in Nat /\ Len(inbox') = k + 1 /\ inbox'[k + 1] = n
        /\ \A i \in 1 .. k : inbox'[i] = inbox[i]
    BY AppendFacts DEF EditorOK
  <1> HIDE DEF k
  <1>2. \A j : j \in 1 .. k + 1 <=> j \in 1 .. k \/ j = k + 1
    BY <1>1, SMT
  <1>3. ASSUME NEW p
        PROVE  Calm(p)' <=> Calm(p) /\ ~Lifecycle(n, p)
    BY <1>1, <1>2 DEF Calm, Lifecycle, k
  <1>4. InboxOK /\ IsNotice(n) => InboxOK'
    BY <1>1, <1>2 DEF InboxOK, k
  <1>5. ASSUME NEW p, NEW i \in 1 .. k
        PROVE  Settled(p, i)' <=> Settled(p, i) /\ ~Lifecycle(n, p)
    <2>1. /\ \A j : j \in i + 1 .. k + 1 <=> j \in i + 1 .. k \/ j = k + 1
          /\ \A j \in i + 1 .. k : j \in 1 .. k
      BY <1>1, SMT
    <2>2. QED
      BY <1>1, <2>1 DEF Settled, Lifecycle, k
  <1>6. QED
    BY <1>3, <1>4, <1>5 DEF k

(* The queue agrees with the editor after a post that agrees with it, if   *)
(* the buffer changes of the path that the notice is about only.           *)
LEMMA PostKeepsQueue ==
  ASSUME EditorOK, QueueOK, NEW n, IsNotice(n), inbox' = Append(inbox, n),
         \A p \in Paths : Agrees(Head(n), p)',
         \A p \in Paths : Lifecycle(n, p) \/ buffer'[p] = buffer[p]
  PROVE  QueueOK'
  <1> DEFINE k == Len(inbox)
  <1>1. /\ k \in Nat /\ Len(inbox') = k + 1 /\ inbox'[k + 1] = n
        /\ \A i \in 1 .. k : inbox'[i] = inbox[i]
    BY AppendFacts DEF EditorOK
  <1>2. ASSUME NEW p \in Paths, NEW i \in 1 .. Len(inbox'), Settled(p, i)'
        PROVE  Agrees(Head(inbox[i]), p)'
    <2>1. CASE i \in 1 .. k
      <3>1. Settled(p, i) /\ ~Lifecycle(n, p)
        BY <1>2, <2>1, PostedQueue
      <3>2. Agrees(Head(inbox[i]), p) /\ buffer'[p] = buffer[p]
        BY <2>1, <3>1 DEF QueueOK, QueueAgrees
      <3>3. inbox'[i] = inbox[i]
        BY <1>1, <2>1
      <3>4. QED
        BY <3>2, <3>3 DEF Agrees, Open
    <2>2. CASE i = k + 1
      BY <1>1, <2>2
    <2>3. QED
      BY <1>1, <1>2, <2>1, <2>2, SMT
  <1>3. InboxOK'
    BY PostedQueue DEF QueueOK
  <1>4. QED
    BY <1>2, <1>3 DEF QueueOK, QueueAgrees

(* A notice that is received.                                              *)
LEMMA TakenQueue ==
  ASSUME EditorOK, inbox # << >>, inbox' = Tail(inbox)
  PROVE  /\ \A p : Calm(p) <=> Calm(p)' /\ ~Lifecycle(Head(inbox), p)
         /\ \A p : Calm(p)' <=> Settled(p, 1)
         /\ Len(inbox) \in Nat /\ 1 \in 1 .. Len(inbox) /\ Head(inbox) = inbox[1]
         /\ InboxOK => InboxOK' /\ IsNotice(Head(inbox))
         /\ \A p, i : i \in 1 .. Len(inbox') =>
              /\ i + 1 \in 1 .. Len(inbox) /\ inbox'[i] = inbox[i + 1]
              /\ Settled(p, i)' <=> Settled(p, i + 1)
  <1> DEFINE k == Len(inbox)
  <1>1. /\ k \in Nat /\ k > 0 /\ Len(inbox') = k - 1 /\ Head(inbox) = inbox[1]
        /\ \A i \in 1 .. k - 1 : inbox'[i] = inbox[i + 1]
    BY TailFacts DEF EditorOK
  <1> HIDE DEF k
  <1>2. /\ \A j \in 1 .. k - 1 : j + 1 \in 1 + 1 .. k /\ j + 1 \in 1 .. k
        /\ \A j \in 1 + 1 .. k : j - 1 \in 1 .. k - 1 /\ (j - 1) + 1 = j
        /\ \A j \in 1 .. k : j = 1 \/ j \in 1 + 1 .. k
        /\ 1 \in 1 .. k
        /\ \A j \in 1 + 1 .. k : j \in 1 .. k
    BY <1>1, SMT
  <1>3. \A j \in 1 + 1 .. k : inbox[j] = inbox'[j - 1]
    BY <1>1, <1>2
  <1>4. ASSUME NEW p
        PROVE  Calm(p)' <=> Settled(p, 1)
    BY <1>1, <1>2, <1>3 DEF Calm, Settled, Lifecycle, k
  <1>5. ASSUME NEW p
        PROVE  Calm(p) <=> Settled(p, 1) /\ ~Lifecycle(Head(inbox), p)
    BY <1>1, <1>2 DEF Calm, Settled, Lifecycle, k
  <1>6. InboxOK => InboxOK' /\ IsNotice(Head(inbox))
    BY <1>1, <1>2 DEF InboxOK, k
  <1>7. ASSUME NEW p, NEW i \in 1 .. k - 1
        PROVE  Settled(p, i)' <=> Settled(p, i + 1)
    <2>1. /\ \A j \in i + 1 .. k - 1 : j \in 1 .. k - 1 /\ j + 1 \in (i + 1) + 1 .. k
          /\ \A j \in (i + 1) + 1 .. k : j - 1 \in i + 1 .. k - 1 /\ (j - 1) + 1 = j
      BY <1>1, SMT
    <2>2. /\ \A j \in i + 1 .. k - 1 : inbox'[j] = inbox[j + 1]
          /\ \A j \in (i + 1) + 1 .. k : inbox[j] = inbox'[j - 1]
      BY <1>1, <2>1
    <2>3. Settled(p, i)' <=> \A j \in i + 1 .. k - 1 : ~Lifecycle(inbox'[j], p)
      BY <1>1 DEF Settled, Lifecycle
    <2>4. Settled(p, i + 1) <=> \A j \in (i + 1) + 1 .. k : ~Lifecycle(inbox[j], p)
      BY DEF Settled, k
    <2>5. ASSUME \A j \in i + 1 .. k - 1 : ~Lifecycle(inbox'[j], p),
                 NEW j \in (i + 1) + 1 .. k
          PROVE  ~Lifecycle(inbox[j], p)
      BY <2>1, <2>2, <2>5
    <2>6. ASSUME \A j \in (i + 1) + 1 .. k : ~Lifecycle(inbox[j], p),
                 NEW j \in i + 1 .. k - 1
          PROVE  ~Lifecycle(inbox'[j], p)
      BY <2>1, <2>2, <2>6
    <2>7. QED
      BY <2>3, <2>4, <2>5, <2>6
  <1>8. QED
    BY <1>1, <1>2, <1>4, <1>5, <1>6, <1>7 DEF k

(* Receiving keeps what the rest of the queue says.                        *)
LEMMA TakeKeepsQueue ==
  ASSUME EditorOK, QueueOK, inbox # << >>, inbox' = Tail(inbox), buffer' = buffer
  PROVE  QueueOK'
  <1>1. InboxOK'
    BY TakenQueue DEF QueueOK
  <1>2. ASSUME NEW p \in Paths, NEW i \in 1 .. Len(inbox'), Settled(p, i)'
        PROVE  Agrees(Head(inbox[i]), p)'
    <2>1. i + 1 \in 1 .. Len(inbox) /\ inbox'[i] = inbox[i + 1] /\ Settled(p, i + 1)
      BY <1>2, TakenQueue
    <2>2. Agrees(Head(inbox[i + 1]), p)
      BY <2>1 DEF QueueOK, QueueAgrees
    <2>3. QED
      BY <2>1, <2>2 DEF Agrees, Open
  <1>3. QED
    BY <1>1, <1>2 DEF QueueOK, QueueAgrees

(* The fields of an operation, and the first one of a notice.              *)
LEMMA OpFields ==
  ASSUME NEW kind, NEW p, NEW t, NEW v
  PROVE  /\ Op(kind, p, t, v).kind = kind /\ Op(kind, p, t, v).doc.path = p
         /\ Op(kind, p, t, v).doc.text = t /\ Op(kind, p, t, v).doc.version = v
  BY DEF Op

(* The heads of the short notices.                                         *)
LEMMA FirstOf ==
  ASSUME NEW x, NEW y
  PROVE  Head(<< x >>) = x /\ Head(<< x, y >>) = x
  <1>1. x \in {x, y} /\ y \in {x, y}
    OBVIOUS
  <1>2. QED
    BY <1>1, ShortLists

(* What a step of the editor keeps of the paths that stay calm.            *)
QueueStep ==
  /\ QueueOK'
  /\ \A p \in Paths : Calm(p)' => Calm(p) /\ buffer'[p] = buffer[p]

(* A post after which the last notices agree with the buffers.             *)
LEMMA PostStep ==
  ASSUME EditorOK, QueueOK, NEW n, IsNotice(n), inbox' = Append(inbox, n),
         \A p \in Paths : Agrees(Head(n), p)',
         \A p \in Paths : Lifecycle(n, p) \/ buffer'[p] = buffer[p]
  PROVE  QueueStep
  BY PostKeepsQueue, PostedQueue DEF QueueStep

(* The posts of operations that say nothing of a buffer.                   *)
LEMMA SilentPost ==
  ASSUME EditorOK, QueueOK, NEW n, IsNotice(n), inbox' = Append(inbox, n),
         Head(n).kind \notin {"update", "close", "save"}, buffer' = buffer
  PROVE  QueueStep
  <1>1. \A p \in Paths : Agrees(Head(n), p)'
    BY DEF Agrees, About
  <1>2. QED
    BY <1>1, PostStep

(* Every step of the editor.                                               *)
LEMMA EditorQueue ==
  ASSUME SessionTypes, QueueOK, EditorNext
  PROVE  QueueStep
  <1> USE DEF Post
  <1>0. EditorOK
    BY DEF SessionTypes
  <1>1. ASSUME NEW p \in Paths, EditorOpen(p) PROVE QueueStep
    <2>1. PICK t \in Texts : /\ buffer' = [buffer EXCEPT ![p] = [text |-> t, version |-> 1]]
                             /\ inbox' = Append(inbox, DidOpen(p, t, 1))
      BY <1>1 DEF EditorOpen
    <2> DEFINE op == Op("update", p, t, 1)
    <2>2. IsNotice(<< op >>) /\ inbox' = Append(inbox, << op >>)
      BY <2>1, NoticeFacts DEF DidOpen
    <2>3. /\ op.kind = "update" /\ op.doc.path = p /\ op.doc.text = t /\ op.doc.version = 1
          /\ Head(<< op >>) = op
      BY OpFields, FirstOf
    <2> HIDE DEF op
    <2>4. /\ buffer'[p] = [text |-> t, version |-> 1] /\ Open(p)'
          /\ \A q \in Paths \ {p} : buffer'[q] = buffer[q]
      BY <1>0, <2>1, BufferAssumption DEF EditorOK, Open, Buffers
    <2>5. \A q \in Paths : Agrees(Head(<< op >>), q)'
      BY <2>3, <2>4 DEF Agrees, About
    <2>6. \A q \in Paths : Lifecycle(<< op >>, q) \/ buffer'[q] = buffer[q]
      BY <2>3, <2>4 DEF Lifecycle, About
    <2>7. QED
      BY <1>0, <2>2, <2>5, <2>6, PostStep
  <1>2. ASSUME NEW p \in Paths, EditorChange(p) PROVE QueueStep
    <2> DEFINE v == buffer[p].version + 1
    <2>1. PICK t \in Texts : /\ buffer' = [buffer EXCEPT ![p] = [text |-> t, version |-> v]]
                             /\ inbox' = Append(inbox, DidChange(p, t, v))
      BY <1>2 DEF EditorChange
    <2>2. v \in Nat
      BY <1>0, <1>2, SMT DEF EditorChange, Open, EditorOK, Buffers
    <2>3. PICK w \in Nat : w = v
      BY <2>2
    <2> HIDE DEF v
    <2> DEFINE op == Op("update", p, t, w)
    <2>4. IsNotice(<< op >>) /\ inbox' = Append(inbox, << op >>)
      BY <2>1, <2>3, NoticeFacts DEF DidChange
    <2>5. /\ op.kind = "update" /\ op.doc.path = p /\ op.doc.text = t /\ op.doc.version = w
          /\ Head(<< op >>) = op
      BY OpFields, FirstOf
    <2> HIDE DEF op
    <2>6. /\ buffer'[p] = [text |-> t, version |-> w] /\ Open(p)'
          /\ \A q \in Paths \ {p} : buffer'[q] = buffer[q]
      BY <1>0, <2>1, <2>3, BufferAssumption DEF EditorOK, Open, Buffers
    <2>7. \A q \in Paths : Agrees(Head(<< op >>), q)'
      BY <2>5, <2>6 DEF Agrees, About
    <2>8. \A q \in Paths : Lifecycle(<< op >>, q) \/ buffer'[q] = buffer[q]
      BY <2>5, <2>6 DEF Lifecycle, About
    <2>9. QED
      BY <1>0, <2>4, <2>7, <2>8, PostStep
  <1>3. ASSUME NEW p \in Paths, EditorSave(p) PROVE QueueStep
    <2>1. buffer[p].text \in Texts /\ Open(p) /\ buffer' = buffer
      BY <1>0, <1>3, SMT DEF EditorSave, Open, EditorOK, Buffers
    <2>2. PICK t \in Texts : t = buffer[p].text
      BY <2>1
    <2> DEFINE op == Op("save", p, t, 0)
    <2>3. IsNotice(<< op >>) /\ inbox' = Append(inbox, << op >>)
      BY <1>3, <2>2, NoticeFacts DEF EditorSave, DidSave
    <2>4. op.kind = "save" /\ op.doc.path = p /\ op.doc.text = t /\ Head(<< op >>) = op
      BY OpFields, FirstOf
    <2> HIDE DEF op
    <2>5. \A q \in Paths : Agrees(Head(<< op >>), q)'
      BY <2>1, <2>2, <2>4 DEF Agrees, About, Open
    <2>6. QED
      BY <1>0, <2>1, <2>3, <2>5, PostStep
  <1>4. ASSUME NEW p \in Paths, EditorClose(p) PROVE QueueStep
    <2> DEFINE op == Op("close", p, NoText, 0)
    <2>1. IsNotice(<< op >>) /\ inbox' = Append(inbox, << op >>)
      BY <1>4, NoticeFacts DEF EditorClose, DidClose
    <2>2. op.kind = "close" /\ op.doc.path = p /\ Head(<< op >>) = op
      BY OpFields, FirstOf
    <2> HIDE DEF op
    <2>3. ~Open(p)' /\ \A q \in Paths \ {p} : buffer'[q] = buffer[q]
      BY <1>0, <1>4 DEF EditorClose, EditorOK, Open
    <2>4. \A q \in Paths : Agrees(Head(<< op >>), q)'
      BY <2>2, <2>3 DEF Agrees, About
    <2>5. \A q \in Paths : Lifecycle(<< op >>, q) \/ buffer'[q] = buffer[q]
      BY <2>2, <2>3 DEF Lifecycle, About
    <2>6. QED
      BY <1>0, <2>1, <2>4, <2>5, PostStep
  <1>5. ASSUME NEW p \in Paths, FileChange(p) PROVE QueueStep
    BY <1>5 DEF FileChange, QueueStep, QueueOK, InboxOK, QueueAgrees, Settled, Agrees,
       Calm, Open
  <1>6. ASSUME NEW p \in Paths, ReportFile(p) PROVE QueueStep
    <2>1. PICK n : /\ n \in {<< IndexFile(p) >>, << RemoveFile(p) >>}
                   /\ inbox' = Append(inbox, n)
      BY <1>6 DEF ReportFile
    <2>2. IsNotice(n)
      BY <2>1, NoticeFacts
    <2>3. Head(n).kind \in {"index", "remove"}
      BY <2>1, FirstOf, OpFields DEF IndexFile, RemoveFile
    <2>4. QED
      BY <1>0, <1>6, <2>1, <2>2, <2>3, SilentPost DEF ReportFile
  <1>7. ASSUME NEW r \in Roots, EditorAddFolder(r) \/ EditorRemoveFolder(r) PROVE QueueStep
    <2>1. PICK kind \in {"addFolder", "removeFolder"} : inbox' = Append(inbox, << Folder(kind, r) >>)
      BY <1>7 DEF EditorAddFolder, EditorRemoveFolder
    <2>2. IsNotice(<< Folder(kind, r) >>) /\ Head(<< Folder(kind, r) >>).kind = kind
      BY FirstOf DEF IsNotice, Sent, Folder, Ops, FolderOps
    <2>3. buffer' = buffer
      BY <1>7 DEF EditorAddFolder, EditorRemoveFolder
    <2>4. QED
      BY <1>0, <2>1, <2>2, <2>3, SilentPost
  <1>8. ASSUME NEW p \in Paths, NEW q \in Paths, EditorRename(p, q) PROVE QueueStep
    <2>1. /\ inbox' = Append(inbox, DidRenameFiles(p, q)) /\ IsNotice(DidRenameFiles(p, q))
          /\ buffer' = buffer
      BY <1>8, NoticeFacts DEF EditorRename
    <2>2. Head(DidRenameFiles(p, q)).kind = "remove"
      BY FirstOf, OpFields DEF DidRenameFiles, RemoveFile
    <2>3. QED
      BY <1>0, <2>1, <2>2, SilentPost
  <1>9. QED
    BY <1>1, <1>2, <1>3, <1>4, <1>5, <1>6, <1>7, <1>8 DEF EditorNext

------------------------------------------------------------------------------
(* The documents of a path nothing more is said of.                        *)

EditKinds == {"update", "save", "close", "restore", "clear"}
Works(h, kinds, p) == ~Idle(h) /\ About(OpOf(h), kinds, p)

(* A closed document is stored as an indexed file or not at all.           *)
AsClosed(p) == Stored(p) => p \in workspaceFileMap \ openDocumentMap

Matches(p) ==
  IF Open(p)
  THEN /\ Stored(p) /\ p \in openDocumentMap
       /\ documents[p].text = buffer[p].text /\ documents[p].version = buffer[p].version
       /\ ShownOf(p) = buffer[p]
  ELSE shown[p].text = NoText /\ AsClosed(p)

(* While an open, a change or a save of p is handled the handler carries   *)
(* the text of the buffer, and, once it knows it, the version; a save      *)
(* finds the document open, so that its snapshot is marked open too.       *)
Saving(h, p) ==
  /\ Open(p) /\ Doc(h).text = buffer[p].text
  /\ At(h, "save", "next") \/ Doc(h).version = buffer[p].version
  /\ At(h, "save", "next") => Stored(p) /\ documents[p].version = buffer[p].version
  /\ OpOf(h).kind = "save" /\ task[h].pc \in {"next", "reserve"} => p \in openDocumentMap
  /\ task[h].pc \in {"install", "publish", "send"} => "open" \in Doc(h).origin

(* While a close of p is handled.                                          *)
Closing(h, p) == ~Open(p) /\ (OpOf(h).kind # "close" => AsClosed(p))

PathOK(h, p) ==
  /\ Works(h, {"update", "save"}, p) => Saving(h, p)
  /\ Works(h, {"close", "restore", "clear"}, p) => Closing(h, p)
  /\ ~Works(h, EditKinds, p) => Matches(p)

CalmOK(h) == \A p \in Paths : Calm(p) => PathOK(h, p)

(* A step that leaves p alone.                                             *)
SameAt(p) ==
  /\ documents'[p] = documents[p] /\ shown'[p] = shown[p]
  /\ p \in openDocumentMap' <=> p \in openDocumentMap
  /\ p \in workspaceFileMap' <=> p \in workspaceFileMap

(* The document of a path is where it was.                                 *)
LEMMA StillMatches ==
  ASSUME NEW p \in Paths, SameAt(p), buffer'[p] = buffer[p]
  PROVE  /\ Matches(p)' <=> Matches(p)
         /\ AsClosed(p)' <=> AsClosed(p)
         /\ Open(p)' <=> Open(p)
  BY DEF SameAt, Matches, AsClosed, Stored, ShownOf, Open

(* A step works on the path of its operation only, the removal of a folder *)
(* excepted.                                                               *)
LEMMA Elsewhere ==
  ASSUME Inv, NEW h \in Handlers, Step(h), ~RemoveFolder(h), NEW p \in Paths,
         ~Works(h, EditKinds \cup {"index", "remove"}, p)
  PROVE  SameAt(p)
  <1> USE InvParts
  <1>0. TypeOK /\ StoreTypeOK
    BY DEF Inv, TypeOK
  <1>1. CASE UNCHANGED << documents, openDocumentMap, workspaceFileMap, shown >>
    BY <1>1 DEF SameAt
  <1>2. CASE \/ LoadSaveVersion(h) \/ ReserveUpdate(h) \/ InstallRejected(h)
             \/ BeginPublish(h) \/ SkipPublish(h) \/ SkipIndex(h) \/ StartIndex(h)
             \/ ReadFile(h) \/ ReadFileFails(h) \/ StoreReserve(h) \/ StoreRecheck(h)
             \/ StoreAbandoned(h) \/ AddFolder(h) \/ AddFolderFails(h) \/ WalkNext(h)
             \/ WalkDone(h)
    BY <1>1, <1>2 DEF LoadSaveVersion, ReserveUpdate, InstallRejected, BeginPublish,
       SkipPublish, SkipIndex, StartIndex, ReadFile, ReadFileFails, StoreReserve,
       StoreRecheck, StoreAbandoned, AddFolder, AddFolderFails, WalkNext, WalkDone,
       ReserveRevision, storeVars, Quiet
  <1>3. CASE InstallUpdate(h) \/ InstallIndexed(h)
    <2>1. InstallSnapshot(Doc(h)) /\ shown' = shown /\ Doc(h).path # p
      BY <1>0, <1>3, BusyAt DEF InstallUpdate, InstallIndexed, Quiet, Updates, Indexing,
         Works, About, Doc, EditKinds
    <2>2. QED
      BY <1>0, <2>1 DEF InstallSnapshot, SetOriginMaps, StoreTypeOK, SameAt
  <1>4. CASE SendDiagnostics(h) \/ ClearDiagnostics(h)
    <2>1. Doc(h).path # p
      BY <1>0, <1>4, BusyAt, AtFacts DEF SendDiagnostics, ClearDiagnostics, At, Updates,
         Works, About, Doc, EditKinds
    <2>2. QED
      BY <1>0, <1>4, <2>1 DEF SendDiagnostics, ClearDiagnostics, storeVars, SameAt, TypeOK
  <1>5. CASE CloseDocument(h)
    <2>1. Doc(h).path # p
      BY <1>5 DEF CloseDocument, At, Works, About, Doc, EditKinds
    <2>2. /\ shown' = shown
          /\ \/ ForgetDocument(Doc(h).path)
             \/ SetDocumentOrigin(Doc(h).path, DocumentOrigin(Doc(h).path) \ {"open"})
      BY <1>5 DEF CloseDocument, Quiet
    <2>3. QED
      BY <1>0, <2>1, <2>2
         DEF ForgetDocument, SetDocumentOrigin, SetOriginMaps, StoreTypeOK, SameAt
  <1>6. CASE ForgetLostFile(h) \/ RemoveWorkspaceFile(h)
    <2>1. Doc(h).path # p
      BY <1>0, <1>6, BusyAt, AtFacts DEF ForgetLostFile, RemoveWorkspaceFile, At,
         Works, About, Doc, EditKinds
    <2>2. shown' = shown /\ (LeaveWorkspace({Doc(h).path}) \/ UNCHANGED storeVars)
      BY <1>6 DEF ForgetLostFile, RemoveWorkspaceFile, Quiet
    <2>3. QED
      BY <2>1, <2>2 DEF LeaveWorkspace, storeVars, SameAt
  <1>7. QED
    BY <1>2, <1>3, <1>4, <1>5, <1>6 DEF Step

(* No step turns to a buffer whose notification it is not handling.        *)
LEMMA StaysElsewhere ==
  ASSUME Inv, NEW h \in Handlers, Shape(h), Step(h), NEW p, ~Works(h, EditKinds, p)
  PROVE  ~Works(h, EditKinds, p)'
  <1>1. CASE GoesOn(h) /\ ~Idle(h)
    BY <1>1 DEF GoesOn, Works, About, Doc
  <1>2. CASE Ends(h) /\ ~Idle(h)
    <2>1. Passes(h)
      BY <1>2, EndPasses
    <2>2. QED
      BY <1>2, <2>1 DEF Passes, Works, About, Doc, EditKinds
  <1>3. CASE CloseDocument(h)
    <2>1. Alone(h)
      BY <1>3 DEF CloseDocument, At, Shape
    <2>2. QED
      BY <1>3, <2>1, CloseLeaves DEF CloseDocument, At, Works, About, Doc, EditKinds
  <1>4. CASE AddFolder(h) \/ WalkNext(h)
    <2>1. Alone(h)
      BY <1>4 DEF AddFolder, WalkNext, At, Shape
    <2>2. OpOf(h)'.kind \in {"walk", "index"}
      BY <1>4, <2>1, AddLeaves, WalkLeaves
    <2>3. QED
      BY <2>2 DEF Works, About, EditKinds
  <1>5. QED
    BY <1>1, <1>2, <1>3, <1>4, ContinuersGoOn, FinishersEnd DEF Step

(* The steps an operation can be in, by its kind.                          *)
LEMMA ByKind ==
  ASSUME Inv, NEW h \in Handlers, Step(h)
  PROVE  /\ ~Idle(h)
         /\ Updates(h) => \/ LoadSaveVersion(h) \/ ReserveUpdate(h) \/ InstallUpdate(h)
                          \/ InstallRejected(h) \/ BeginPublish(h) \/ SkipPublish(h)
                          \/ SendDiagnostics(h)
         /\ OpOf(h).kind = "close" => CloseDocument(h)
         /\ OpOf(h).kind = "clear" => ClearDiagnostics(h)
         /\ Indexing(h) => \/ SkipIndex(h) /\ OpOf(h).kind = "index"
                           \/ StartIndex(h) /\ OpOf(h).kind = "index"
                           \/ ForgetLostFile(h) /\ OpOf(h).kind = "restore"
                           \/ ReadFile(h) \/ ReadFileFails(h)
                           \/ StoreReserve(h) \/ StoreRecheck(h)
                           \/ StoreAbandoned(h) \/ InstallIndexed(h) \/ InstallRejected(h)
         /\ OpOf(h).kind = "remove" => RemoveWorkspaceFile(h)
         /\ OpOf(h).kind = "addFolder" => AddFolder(h) \/ AddFolderFails(h)
         /\ OpOf(h).kind = "walk" => WalkNext(h) \/ WalkDone(h)
  <1>0. TypeOK
    BY DEF Inv
  <1>1. CASE \/ LoadSaveVersion(h) \/ ReserveUpdate(h) \/ InstallUpdate(h)
             \/ BeginPublish(h) \/ SkipPublish(h) \/ SendDiagnostics(h)
    BY <1>0, <1>1, BusyAt, AtFacts DEF LoadSaveVersion, ReserveUpdate, InstallUpdate,
       BeginPublish, SkipPublish, SendDiagnostics, At, Updates, Indexing
  <1>2. CASE InstallRejected(h)
    BY <1>0, <1>2, BusyAt, AtFacts DEF InstallRejected, Updates, Indexing
  <1>3. CASE CloseDocument(h) \/ ClearDiagnostics(h) \/ RemoveWorkspaceFile(h)
    BY <1>3 DEF CloseDocument, ClearDiagnostics, RemoveWorkspaceFile, At, Updates, Indexing
  <1>4. CASE SkipIndex(h) \/ StartIndex(h) \/ ReadFile(h) \/ ReadFileFails(h)
    BY <1>4 DEF SkipIndex, StartIndex, ReadFile, ReadFileFails, Reading, At, Updates, Indexing
  <1>5. CASE ForgetLostFile(h)
    BY <1>0, <1>5, BusyAt, AtFacts DEF ForgetLostFile, Updates, Indexing
  <1>6. CASE \/ StoreReserve(h) \/ StoreRecheck(h) \/ StoreAbandoned(h) \/ InstallIndexed(h)
    BY <1>0, <1>6, BusyAt, AtFacts DEF StoreReserve, StoreRecheck, StoreAbandoned,
       InstallIndexed, Updates, Indexing
  <1>7. CASE \/ AddFolder(h) \/ AddFolderFails(h) \/ WalkNext(h) \/ WalkDone(h)
             \/ RemoveFolder(h)
    BY <1>7 DEF AddFolder, AddFolderFails, WalkNext, WalkDone, RemoveFolder, At,
       Updates, Indexing
  <1>8. QED
    BY <1>1, <1>2, <1>3, <1>4, <1>5, <1>6, <1>7 DEF Step

(* The handling of an open, a change or a save ends with the diagnostics   *)
(* of the buffer.                                                          *)
LEMMA UpdatePath ==
  ASSUME SessionTypes, NEW h \in Handlers, HandlerOK(h), Step(h), buffer' = buffer,
         NEW p \in Paths, Works(h, {"update", "save"}, p), Saving(h, p)
  PROVE  PathOK(h, p)'
  <1> USE InvParts
  <1>0. /\ Inv /\ TypeOK /\ StoreOK /\ EditorOK /\ Shape(h) /\ Steady(h)
        /\ ~Idle(h) /\ Updates(h) /\ OpOf(h).kind \in {"update", "save"} /\ Doc(h).path = p
        /\ Open(p)
    BY DEF SessionTypes, Inv, HandlerOK, Works, About, Updates, Doc, Saving
  <1>1. Doc(h) \in Snapshots
    BY <1>0, AtFacts
  <1>2. /\ Open(p)' <=> Open(p)
        /\ buffer'[p] = buffer[p]
    BY DEF Open
  <1>3. ASSUME NEW pc, NEW doc, Continue(h, pc, doc), doc.path = p, doc.text = Doc(h).text,
               doc.version = buffer[p].version, pc # "next",
               OpOf(h).kind = "save" /\ pc = "reserve" => p \in openDocumentMap',
               pc \in {"install", "publish", "send"} => "open" \in doc.origin
        PROVE  PathOK(h, p)'
    <2>1. ~Idle(h)' /\ task'[h].pc = pc /\ Doc(h)' = doc /\ OpOf(h)'.kind = OpOf(h).kind
      BY <1>0, <1>3, ContinueOp
    <2>2. Saving(h, p)'
      BY <1>0, <1>2, <1>3, <2>1 DEF Saving, At
    <2>3. OpOf(h)'.doc.path = p
      BY <1>3, <2>1 DEF Doc
    <2>4. QED
      BY <1>0, <2>1, <2>2, <2>3 DEF PathOK, Works, About, EditKinds
  <1>4. CASE LoadSaveVersion(h)
    <2>1. At(h, "save", "next")
      BY <1>4 DEF LoadSaveVersion
    <2>2. Stored(p) /\ documents[p].version = buffer[p].version /\ p \in openDocumentMap
      BY <2>1 DEF Saving, At
    <2> DEFINE doc == [Doc(h) EXCEPT !.version = documents[p].version]
    <2>3. Continue(h, "reserve", doc) /\ openDocumentMap' = openDocumentMap
      BY <1>0, <1>4, <2>2 DEF LoadSaveVersion, storeVars
    <2>4. doc.path = p /\ doc.text = Doc(h).text /\ doc.version = documents[p].version
      BY <1>0, <1>1, SMT DEF Snapshots, SnapshotsOf
    <2> HIDE DEF doc
    <2>5. QED
      BY <1>3, <2>2, <2>3, <2>4
  <1>5. CASE ReserveUpdate(h)
    <2> DEFINE o == MutateOrigin(OpOf(h).kind, DocumentOrigin(p))
               doc == Stamped(Doc(h), NextRevision(p), o)
    <2>1. Continue(h, "install", doc)
      BY <1>0, <1>5 DEF ReserveUpdate
    <2>2. doc.path = p /\ doc.text = Doc(h).text /\ doc.version = Doc(h).version /\ doc.origin = o
      BY <1>0 DEF Stamped
    <2>3. Doc(h).version = buffer[p].version
      BY <1>5 DEF ReserveUpdate, At, Saving
    <2>4. "open" \in o
      <3>1. CASE OpOf(h).kind = "update"
        BY <3>1 DEF MutateOrigin
      <3>2. CASE OpOf(h).kind = "save"
        <4>1. p \in openDocumentMap
          BY <1>5, <3>2 DEF ReserveUpdate, At, Saving
        <4>2. "open" \in DocumentOrigin(p)
          BY <1>0, <4>1, DocumentOriginFlags
        <4>3. QED
          BY <3>2, <4>2 DEF MutateOrigin
      <3>3. QED
        BY <1>0, <3>1, <3>2
    <2> HIDE DEF doc, o
    <2>5. QED
      BY <1>3, <2>1, <2>2, <2>3, <2>4
  <1>6. CASE InstallUpdate(h) \/ BeginPublish(h)
    <2>1. PICK pc \in {"publish", "send"} : Continue(h, pc, Doc(h))
      BY <1>6 DEF InstallUpdate, BeginPublish
    <2>2. Doc(h).version = buffer[p].version /\ "open" \in Doc(h).origin
      BY <1>0, <1>6 DEF InstallUpdate, BeginPublish, Saving, At
    <2>3. QED
      BY <1>0, <1>3, <2>1, <2>2
  <1>7. CASE InstallRejected(h)
    BY <1>0, <1>7, NeverOvertaken DEF InstallRejected, Saving
  <1>8. CASE SendDiagnostics(h)
    <2>1. task[h].pc = "send" /\ shown' = [shown EXCEPT ![p] = DiagnosticsOf(Doc(h))]
          /\ UNCHANGED storeVars
      BY <1>0, <1>8 DEF SendDiagnostics
    <2>2. documents[p] = Doc(h) /\ Stored(p)
      BY <1>0, <1>1, <2>1, StoreAssumption DEF Steady, Stored
    <2>3. Doc(h).text = buffer[p].text /\ Doc(h).version = buffer[p].version
          /\ "open" \in Doc(h).origin
      BY <2>1 DEF Saving, At
    <2>4. p \in openDocumentMap
      BY <1>0, <2>2, <2>3 DEF StoreOK, StoreConsistent, PathConsistent
    <2>5. shown'[p] = DiagnosticsOf(Doc(h))
      BY <1>0, <2>1 DEF TypeOK
    <2>6. ShownOf(p)' = buffer[p]
      <3>1. buffer[p] \in Buffers
        BY <1>0 DEF EditorOK, Open
      <3>2. buffer[p] = [text |-> buffer[p].text, version |-> buffer[p].version]
        BY <3>1, SMT DEF Buffers
      <3>3. QED
        BY <2>3, <2>5, <3>2 DEF ShownOf, DiagnosticsOf
    <2>7. Matches(p)'
      BY <1>0, <1>2, <2>1, <2>2, <2>3, <2>4, <2>6 DEF Matches, Stored, storeVars
    <2>8. Passes(h)
      BY <1>0, <1>8, FinishersEnd, EndPasses
    <2>9. Idle(h)'
      BY <1>0, <2>8 DEF Passes
    <2>10. QED
      BY <2>7, <2>9 DEF PathOK, Works
  <1>9. QED
    BY <1>0, <1>4, <1>5, <1>6, <1>7, <1>8, ByKind, NeverOvertaken

(* A path that leaves the index is stored as an open document, or not at all. *)
LEMMA LeavingPath ==
  ASSUME StoreOK, NEW p \in Paths, NEW gone, LeaveWorkspace(gone)
  PROVE  /\ p \notin gone => /\ documents'[p] = documents[p]
                             /\ p \in workspaceFileMap' <=> p \in workspaceFileMap
         /\ p \in openDocumentMap => /\ Stored(p)' <=> Stored(p)
                                     /\ Stored(p) =>
                                          /\ documents'[p].text = documents[p].text
                                          /\ documents'[p].version = documents[p].version
         /\ p \in gone /\ p \notin openDocumentMap => ~Stored(p)'
         /\ openDocumentMap' = openDocumentMap
  <1>1. /\ documents'[p] = IF p \in gone \ openDocumentMap THEN NoSnapshot
                           ELSE IF p \in gone \cap openDocumentMap
                           THEN Rebranded(p, DocumentOrigin(p) \ {"workspace"})
                           ELSE documents[p]
        /\ workspaceFileMap' = workspaceFileMap \ gone
        /\ openDocumentMap' = openDocumentMap
    BY DEF LeaveWorkspace
  <1>2. DocumentOrigin(p) \ {"workspace"} \in SUBSET Origins
    BY DocumentOriginType DEF StoreOK
  <1> DEFINE copy == Rebranded(p, DocumentOrigin(p) \ {"workspace"})
  <1>3. copy = NoSnapshot <=> documents[p] = NoSnapshot
    BY <1>2, RebrandedType DEF StoreOK
  <1>4. Stored(p) => copy.text = documents[p].text /\ copy.version = documents[p].version
    BY DEF Rebranded, Stamped
  <1> HIDE DEF copy
  <1>5. CASE p \in gone \ openDocumentMap
    BY <1>1, <1>5 DEF Stored
  <1>6. CASE p \in gone \cap openDocumentMap
    BY <1>1, <1>3, <1>4, <1>6 DEF Stored, copy
  <1>7. CASE p \notin gone
    BY <1>1, <1>7 DEF Stored
  <1>8. QED
    BY <1>1, <1>5, <1>6, <1>7

(* A file that is indexed is stored as a closed one.                       *)
LEMMA IndexedPath ==
  ASSUME Inv, NEW h \in Handlers, Steady(h), InstallIndexed(h), NEW p, Doc(h).path = p
  PROVE  /\ AsClosed(p)' /\ p \in workspaceFileMap'
         /\ documents'[p] = Doc(h) /\ shown' = shown
  <1>1. Doc(h).origin = {"workspace"} /\ InstallSnapshot(Doc(h)) /\ shown' = shown
    BY DEF InstallIndexed, Steady, Indexing, Quiet
  <1>2. p \in Paths
    BY AtFacts, SMT DEF Inv, InstallIndexed, Indexing, Drafts, SnapshotsOf
  <1>3. documents'[p] = Doc(h)
    BY <1>1, <1>2 DEF InstallSnapshot, Inv, TypeOK, StoreTypeOK
  <1>4. p \in workspaceFileMap' \ openDocumentMap'
    BY <1>1 DEF InstallSnapshot, SetOriginMaps
  <1>5. QED
    BY <1>1, <1>3, <1>4 DEF AsClosed

(* The steps of the index but the last leave the documents alone.          *)
LEMMA IndexingLeaves ==
  ASSUME Inv, NEW h \in Handlers, HandlerOK(h), Step(h), Indexing(h),
         ~InstallIndexed(h), ~ForgetLostFile(h), NEW p \in Paths
  PROVE  SameAt(p)
  <1>1. \/ SkipIndex(h) \/ StartIndex(h) \/ ReadFile(h) \/ ReadFileFails(h)
        \/ StoreReserve(h) \/ StoreRecheck(h) \/ StoreAbandoned(h) \/ InstallRejected(h)
    BY ByKind
  <1>2. QED
    BY <1>1 DEF SkipIndex, StartIndex, ReadFile, ReadFileFails, StoreReserve, StoreRecheck,
       StoreAbandoned, InstallRejected, ReserveRevision, storeVars, Quiet, SameAt

(* The handling of a close ends with no diagnostics, and with the document *)
(* stored as an indexed file or not at all.                                *)
LEMMA ClosePath ==
  ASSUME SessionTypes, NEW h \in Handlers, HandlerOK(h), Step(h), buffer' = buffer,
         NEW p \in Paths, Works(h, {"close", "restore", "clear"}, p), Closing(h, p)
  PROVE  PathOK(h, p)'
  <1> USE InvParts
  <1>0. /\ Inv /\ TypeOK /\ StoreOK /\ StoreTypeOK /\ EditorOK /\ Shape(h) /\ Steady(h)
        /\ ~Idle(h) /\ OpOf(h).kind \in {"close", "restore", "clear"} /\ Doc(h).path = p
        /\ ~Open(p) /\ ~Open(p)'
    BY DEF SessionTypes, Inv, TypeOK, HandlerOK, Works, About, Doc, Closing, Open
  <1>1. ASSUME ~Idle(h)', OpOf(h)'.kind \in {"restore", "clear"}, Doc(h)'.path = p, AsClosed(p)'
        PROVE  PathOK(h, p)'
    BY <1>0, <1>1 DEF PathOK, Works, About, Doc, Closing, EditKinds
  <1>2. CASE OpOf(h).kind = "close"
    <2>1. CloseDocument(h) /\ Alone(h)
      BY <1>0, <1>2, ByKind DEF Shape
    <2>2. /\ ~Idle(h)' /\ Doc(h)'.path = p
          /\ RestoresNext(h, p) \/ ClearsNext(h, p)
      BY <1>0, <2>1, CloseLeaves
    <2>3. CASE RestoresNext(h, p)
      <3>1. "workspace" \in DocumentOrigin(p) \ {"open"}
        BY <1>0, <2>3, DocumentOriginFlags DEF RestoresNext
      <3>2. p \in workspaceFileMap' \ openDocumentMap'
        BY <2>3, <3>1 DEF RestoresNext, SetDocumentOrigin, SetOriginMaps
      <3>3. QED
        BY <1>1, <2>2, <2>3, <3>2 DEF AsClosed, RestoresNext
    <2>4. CASE ClearsNext(h, p)
      <3>1. ~Stored(p)'
        <4>1. ForgetDocument(p)
          BY <2>4 DEF ClearsNext
        <4>2. QED
          BY <1>0, <4>1 DEF ForgetDocument, StoreTypeOK, Stored
      <3>2. QED
        BY <1>1, <2>2, <2>4, <3>1 DEF AsClosed, ClearsNext
    <2>5. QED
      BY <2>2, <2>3, <2>4
  <1>3. CASE OpOf(h).kind = "clear"
    <2>1. ClearDiagnostics(h)
      BY <1>0, <1>3, ByKind
    <2>2. Passes(h)
      BY <1>0, <2>1, FinishersEnd, EndPasses
    <2>3. Idle(h)'
      BY <1>3, <2>2 DEF Passes
    <2>4. shown'[p] = NoDiagnostics(Doc(h).revision) /\ UNCHANGED storeVars
      BY <1>0, <2>1 DEF ClearDiagnostics, TypeOK
    <2>5. shown'[p].text = NoText /\ AsClosed(p)'
      BY <1>3, <2>4 DEF NoDiagnostics, Closing, AsClosed, Stored, storeVars
    <2>6. QED
      BY <1>0, <2>3, <2>5 DEF PathOK, Works, Matches
  <1>4. CASE OpOf(h).kind = "restore"
    <2>1. Indexing(h) /\ ~Updates(h) /\ AsClosed(p) /\ p \notin openDocumentMap
      BY <1>0, <1>4 DEF Indexing, Updates, Closing, Steady
    <2>2. PICK op \in Ops : op.kind = "clear" /\ op.doc.path = p /\ Rest(h) = << op >>
      BY <1>0, <1>4 DEF Shape
    <2>3. ~Alone(h)
      BY <2>2, ShortLists DEF Alone
    <2>4. CASE ForgetLostFile(h)
      <3>1. Passes(h)
        BY <1>0, <2>4, FinishersEnd, EndPasses
      <3>2. ~Idle(h)' /\ OpOf(h)'.kind = "clear" /\ Doc(h)'.path = p
        BY <1>0, <1>4, <2>3, <3>1 DEF Passes
      <3>3. LeaveWorkspace({p})
        BY <1>0, <2>1, <2>4 DEF ForgetLostFile
      <3>4. ~Stored(p)'
        BY <1>0, <2>1, <3>3, LeavingPath
      <3>5. QED
        BY <1>1, <3>2, <3>4 DEF AsClosed
    <2>5. CASE InstallIndexed(h)
      <3>1. Passes(h)
        BY <1>0, <2>5, FinishersEnd, EndPasses
      <3>2. ~Idle(h)' /\ OpOf(h)'.kind = "clear" /\ Doc(h)'.path = p
        BY <1>0, <1>4, <2>3, <3>1 DEF Passes
      <3>3. AsClosed(p)'
        BY <1>0, <2>5, IndexedPath
      <3>4. QED
        BY <1>1, <3>2, <3>3
    <2>6. CASE \/ ReadFile(h) \/ ReadFileFails(h) \/ StoreReserve(h) \/ StoreRecheck(h)
      <3>1. GoesOn(h)
        BY <1>0, <1>4, <2>6, ContinuersGoOn
      <3>2. SameAt(p)
        BY <2>6 DEF ReadFile, ReadFileFails, StoreReserve, StoreRecheck, ReserveRevision,
           storeVars, Quiet, SameAt
      <3>3. AsClosed(p)'
        BY <2>1, <3>2, StillMatches
      <3>4. QED
        BY <1>0, <1>1, <1>4, <3>1, <3>3 DEF GoesOn
    <2>7. QED
      BY <1>0, <1>4, <2>1, <2>4, <2>5, <2>6, ByKind, NeverOvertaken
  <1>5. QED
    BY <1>0, <1>2, <1>3, <1>4

(* The handling of anything else leaves what the editor sees of p.         *)
LEMMA OtherPath ==
  ASSUME SessionTypes, NEW h \in Handlers, HandlerOK(h), Step(h), buffer' = buffer,
         NEW p \in Paths, ~Works(h, EditKinds, p), Matches(p)
  PROVE  PathOK(h, p)'
  <1> USE InvParts
  <1>0. Inv /\ TypeOK /\ StoreOK /\ Shape(h) /\ Steady(h)
    BY DEF SessionTypes, Inv, HandlerOK
  <1>1. Matches(p)' => PathOK(h, p)'
    <2>1. ~Works(h, EditKinds, p)'
      BY <1>0, StaysElsewhere
    <2>2. QED
      BY <2>1 DEF PathOK, Works, About, EditKinds
  <1>2. buffer'[p] = buffer[p] /\ (Open(p)' <=> Open(p))
    BY DEF Open
  <1>3. CASE SameAt(p)
    BY <1>1, <1>2, <1>3, StillMatches
  <1>4. ASSUME NEW gone, LeaveWorkspace(gone), shown' = shown
        PROVE  Matches(p)'
    <2>1. CASE Open(p)
      <3>1. Stored(p) /\ p \in openDocumentMap
        BY <2>1 DEF Matches
      <3>2. /\ Stored(p)' /\ p \in openDocumentMap'
            /\ documents'[p].text = documents[p].text
            /\ documents'[p].version = documents[p].version
        BY <1>0, <1>4, <3>1, LeavingPath
      <3>3. QED
        BY <1>2, <1>4, <2>1, <3>2 DEF Matches, ShownOf
    <2>2. CASE ~Open(p)
      <3>1. shown[p].text = NoText /\ AsClosed(p)
        BY <2>2 DEF Matches
      <3>2. AsClosed(p)'
        BY <1>0, <1>4, <3>1, LeavingPath DEF AsClosed, Stored
      <3>3. QED
        BY <1>2, <1>4, <2>2, <3>1, <3>2 DEF Matches
    <2>3. QED
      BY <2>1, <2>2
  <1>5. CASE RemoveFolder(h)
    BY <1>1, <1>4, <1>5 DEF RemoveFolder
  <1>6. CASE RemoveWorkspaceFile(h)
    BY <1>1, <1>4, <1>6 DEF RemoveWorkspaceFile, Quiet
  <1>7. CASE InstallIndexed(h) /\ Doc(h).path = p
    <2>1. ~Idle(h) /\ OpOf(h).kind = "index" /\ task[h].pc = "install"
      BY <1>7 DEF InstallIndexed, Indexing, Works, About, Doc, EditKinds
    <2>2. ~Open(p)
      BY <1>0, <1>7, <2>1 DEF Steady, Matches
    <2>3. AsClosed(p)' /\ shown' = shown
      BY <1>0, <1>7, IndexedPath
    <2>4. QED
      BY <1>1, <1>2, <2>2, <2>3 DEF Matches
  <1>8. CASE Works(h, {"index"}, p) /\ ~InstallIndexed(h)
    <2>1. Indexing(h) /\ ~ForgetLostFile(h)
      BY <1>0, <1>8, BusyAt, AtFacts DEF Works, About, Indexing, ForgetLostFile
    <2>2. SameAt(p)
      BY <1>0, <1>8, <2>1, IndexingLeaves
    <2>3. QED
      BY <1>3, <2>2
  <1>9. QED
    <2>1. CASE Works(h, {"index"}, p)
      BY <1>7, <1>8, <2>1 DEF Works, About, Doc
    <2>2. CASE Works(h, {"remove"}, p)
      BY <1>0, <1>6, <2>2, ByKind DEF Works, About
    <2>3. CASE ~Works(h, {"index"}, p) /\ ~Works(h, {"remove"}, p) /\ ~RemoveFolder(h)
      BY <1>0, <1>3, <2>3, Elsewhere DEF Works, About
    <2>4. QED
      BY <1>5, <2>1, <2>2, <2>3

(* A step of the handler keeps the agreement with the buffers.             *)
LEMMA PathStep ==
  ASSUME SessionTypes, NEW h \in Handlers, HandlerOK(h), Step(h), buffer' = buffer,
         NEW p \in Paths, PathOK(h, p)
  PROVE  PathOK(h, p)'
  <1>1. CASE Works(h, {"update", "save"}, p)
    BY <1>1, UpdatePath DEF PathOK
  <1>2. CASE Works(h, {"close", "restore", "clear"}, p)
    BY <1>2, ClosePath DEF PathOK
  <1>3. CASE ~Works(h, EditKinds, p)
    BY <1>3, OtherPath DEF PathOK
  <1>4. QED
    BY <1>1, <1>2, <1>3 DEF Works, About, EditKinds

------------------------------------------------------------------------------
(* The editor finds its buffers again.                                     *)

BufferInv(h) == SessionTypes /\ HandlerOK(h) /\ QueueOK /\ CalmOK(h)

(* What a handler finds that takes the oldest notice.                      *)
LEMMA Received ==
  ASSUME SessionTypes, InboxOK, NEW h \in Handlers, Receive(h)
  PROVE  /\ ~Idle(h)' /\ Idle(h)
         /\ task'[h].pc = "next"
         /\ IsNotice(Head(inbox)) /\ OpOf(h)' = Head(Head(inbox))
         /\ OpOf(h)'.kind \in Sent
         /\ Rest(h)' = Tail(Head(inbox))
         /\ inbox # << >> /\ inbox' = Tail(inbox)
         /\ UNCHANGED << storeVars, disk, shown, buffer, opened, dirty, workspaceRootMap >>
  <1>1. EditorOK /\ TypeOK
    BY DEF SessionTypes, Inv
  <1>2. /\ Idle(h) /\ inbox # << >> /\ inbox' = Tail(inbox)
        /\ UNCHANGED << storeVars, disk, shown, buffer, opened, dirty, workspaceRootMap >>
    BY DEF Receive, Begin
  <1>3. IsNotice(Head(inbox))
    BY <1>1, <1>2, TakenQueue
  <1>4. task'[h].pc = "next" /\ task'[h].todo = Head(inbox)
    BY <1>1 DEF Receive, Begin, TypeOK
  <1>5. Head(inbox) # << >> /\ Head(Head(inbox)).kind \in Sent
    BY <1>3, NoticeType
  <1>6. QED
    BY <1>2, <1>3, <1>4, <1>5 DEF Idle, OpOf, Rest

(* A handler starts on a notice in the shape described.                    *)
LEMMA ReceivedHandler ==
  ASSUME SessionTypes, InboxOK, NEW h \in Handlers, HandlerOK(h), Receive(h)
  PROVE  HandlerOK(h)'
  <1> DEFINE n == Head(inbox)
  <1>1. /\ ~Idle(h)' /\ task'[h].pc = "next" /\ IsNotice(n)
        /\ OpOf(h)' = Head(n) /\ OpOf(h)'.kind \in Sent /\ Rest(h)' = Tail(n)
        /\ UNCHANGED storeVars
    BY Received
  <1> HIDE DEF n
  <1>2. \/ Tail(n) = << >>
        \/ Head(n).kind = "remove" /\ \E op \in Ops : op.kind = "index" /\ Tail(n) = << op >>
    BY <1>1, NoticeType
  <1>3. Shape(h)'
    BY <1>1, <1>2 DEF Shape, Alone, FollowedBy, Sent
  <1>4. Steady(h)'
    BY <1>1 DEF Steady, Updates, Indexing, Sent
  <1>5. Indexed'
    BY <1>1 DEF HandlerOK, Indexed, storeVars
  <1>6. QED
    BY <1>3, <1>4, <1>5 DEF HandlerOK

(* A notice that is the last word on p agrees with the buffer; one that    *)
(* says nothing of it leaves what agreed before.                           *)
LEMMA ReceivedPath ==
  ASSUME SessionTypes, QueueOK, NEW h \in Handlers, HandlerOK(h), CalmOK(h), Receive(h),
         NEW p \in Paths, Calm(p)'
  PROVE  PathOK(h, p)'
  <1> DEFINE op == Head(Head(inbox))
  <1>0. EditorOK /\ QueueAgrees /\ InboxOK
    BY DEF SessionTypes, QueueOK
  <1>1. /\ Idle(h) /\ ~Idle(h)' /\ task'[h].pc = "next" /\ OpOf(h)' = op /\ op.kind \in Sent
        /\ inbox # << >> /\ inbox' = Tail(inbox)
        /\ UNCHANGED << storeVars, shown, buffer >>
    BY <1>0, Received
  <1>2. Agrees(op, p)
    <2>1. Settled(p, 1) /\ 1 \in 1 .. Len(inbox) /\ Head(inbox) = inbox[1]
      BY <1>0, <1>1, TakenQueue
    <2>2. QED
      BY <1>0, <2>1 DEF QueueAgrees
  <1>3. Calm(p) <=> ~About(op, {"update", "close"}, p)
    BY <1>0, <1>1, TakenQueue DEF Lifecycle
  <1> HIDE DEF op
  <1>4. Doc(h)' = op.doc
    BY <1>1 DEF Doc
  <1>5. /\ Open(p)' <=> Open(p)
        /\ buffer'[p] = buffer[p]
        /\ Matches(p)' <=> Matches(p)
    BY <1>1 DEF Open, Matches, AsClosed, Stored, ShownOf, storeVars
  <1>6. CASE About(op, {"update"}, p)
    <2>1. /\ Open(p) /\ op.kind = "update" /\ op.doc.path = p
          /\ buffer[p] = [text |-> op.doc.text, version |-> op.doc.version]
      BY <1>2, <1>6 DEF Agrees, About
    <2>2. buffer[p].text = op.doc.text /\ buffer[p].version = op.doc.version
      BY <2>1
    <2>3. Saving(h, p)'
      BY <1>1, <1>4, <1>5, <2>1, <2>2 DEF Saving, At
    <2>4. QED
      BY <1>1, <2>1, <2>3 DEF PathOK, Works, About, EditKinds
  <1>7. CASE About(op, {"close"}, p)
    <2>1. ~Open(p) /\ op.kind = "close" /\ op.doc.path = p
      BY <1>2, <1>7 DEF Agrees, About
    <2>2. Closing(h, p)'
      BY <1>1, <1>5, <2>1 DEF Closing
    <2>3. QED
      BY <1>1, <2>1, <2>2 DEF PathOK, Works, About, EditKinds
  <1>8. CASE ~About(op, {"update", "close"}, p)
    <2>1. Matches(p)
      BY <1>1, <1>3, <1>8 DEF CalmOK, PathOK, Works
    <2>2. CASE About(op, {"save"}, p)
      <3>1. /\ Open(p) /\ buffer[p].text = op.doc.text /\ op.kind = "save" /\ op.doc.path = p
        BY <1>2, <2>2 DEF Agrees, About
      <3>2. /\ Stored(p)' /\ documents'[p].version = buffer[p].version /\ p \in openDocumentMap'
        BY <1>1, <2>1, <3>1 DEF Matches, Stored, storeVars
      <3>3. Saving(h, p)'
        BY <1>1, <1>4, <1>5, <3>1, <3>2 DEF Saving, At
      <3>4. QED
        BY <1>1, <3>1, <3>3 DEF PathOK, Works, About, EditKinds
    <2>3. CASE ~About(op, {"save"}, p)
      <3>1. ~Works(h, EditKinds, p)'
        BY <1>1, <1>8, <2>3 DEF Works, About, EditKinds, Sent
      <3>2. QED
        BY <1>5, <2>1, <3>1 DEF PathOK, Works, About, EditKinds
    <2>4. QED
      BY <2>2, <2>3
  <1>9. QED
    BY <1>6, <1>7, <1>8 DEF About

(* The server waits while the editor acts.                                 *)
LEMMA ServerWaits ==
  ASSUME NEW h \in Handlers, ServerUnchanged
  PROVE  /\ HandlerOK(h)' <=> HandlerOK(h)
         /\ \A p \in Paths : buffer'[p] = buffer[p] => (PathOK(h, p)' <=> PathOK(h, p))
  <1> USE DEF ServerUnchanged, storeVars, handlerVars
  <1>1. Shape(h)' <=> Shape(h)
    BY DEF Shape, Idle, OpOf, Doc, Rest, Alone, FollowedBy
  <1>2. Steady(h)' <=> Steady(h)
    BY DEF Steady, Idle, OpOf, Doc, Updates, Indexing
  <1>3. ASSUME NEW p \in Paths, buffer'[p] = buffer[p]
        PROVE  PathOK(h, p)' <=> PathOK(h, p)
    <2>1. \A kinds : Works(h, kinds, p)' <=> Works(h, kinds, p)
      BY DEF Works, Idle, OpOf, About
    <2>2. Saving(h, p)' <=> Saving(h, p)
      BY <1>3 DEF Saving, Open, Doc, OpOf, At, Idle, Stored
    <2>3. Closing(h, p)' <=> Closing(h, p)
      BY <1>3 DEF Closing, Open, OpOf, AsClosed, Stored
    <2>4. Matches(p)' <=> Matches(p)
      BY <1>3 DEF Matches, Open, AsClosed, Stored, ShownOf
    <2>5. QED
      BY <2>1, <2>2, <2>3, <2>4 DEF PathOK
  <1>4. Indexed' <=> Indexed
    BY DEF Indexed
  <1>5. QED
    BY <1>1, <1>2, <1>3, <1>4 DEF HandlerOK

(* Every step of a session with one handler.                               *)
LEMMA BufferNext ==
  ASSUME NEW h, Handlers = {h}, BufferInv(h), [SessionNext]_sessionVars
  PROVE  BufferInv(h)'
  <1>0. /\ h \in Handlers /\ SessionTypes /\ SessionTypes' /\ HandlerOK(h) /\ QueueOK
        /\ CalmOK(h) /\ EditorOK /\ Inv
    BY SessionTypesStep DEF BufferInv, SessionTypes
  <1>1. CASE EditorNext
    <2>1. ServerUnchanged /\ QueueStep
      BY <1>0, <1>1, EditorSteps, EditorQueue DEF EditorView
    <2>2. QueueOK' /\ \A p \in Paths : Calm(p)' => Calm(p) /\ buffer'[p] = buffer[p]
      BY <2>1 DEF QueueStep
    <2>3. HandlerOK(h)' /\ \A p \in Paths : Calm(p)' => PathOK(h, p)'
      BY <1>0, <2>1, <2>2, ServerWaits DEF CalmOK
    <2>4. QED
      BY <1>0, <2>2, <2>3 DEF BufferInv, CalmOK
  <1>2. CASE Receive(h)
    <2>1. InboxOK /\ inbox # << >> /\ inbox' = Tail(inbox) /\ buffer' = buffer
      BY <1>0, <1>2 DEF QueueOK, Receive
    <2>2. QueueOK'
      BY <1>0, <2>1, TakeKeepsQueue
    <2>3. HandlerOK(h)'
      BY <1>0, <1>2, <2>1, ReceivedHandler
    <2>4. \A p \in Paths : Calm(p)' => PathOK(h, p)'
      BY <1>0, <1>2, ReceivedPath
    <2>5. QED
      BY <1>0, <2>2, <2>3, <2>4 DEF BufferInv, CalmOK
  <1>3. CASE Handle(h)
    <2>1. Step(h) /\ buffer' = buffer /\ inbox' = inbox
      BY <1>3 DEF Handle, editorVars
    <2>2. QueueOK'
      BY <1>0, <2>1 DEF QueueOK, InboxOK, QueueAgrees, Settled, Agrees, Open
    <2>3. HandlerOK(h)'
      BY <1>0, <2>1, HandlerStep
    <2>4. \A p \in Paths : Calm(p)' => PathOK(h, p)'
      BY <1>0, <2>1, PathStep DEF Calm, CalmOK
    <2>5. QED
      BY <1>0, <2>2, <2>3, <2>4 DEF BufferInv, CalmOK
  <1>4. CASE UNCHANGED sessionVars
    <2>1. ServerUnchanged /\ buffer' = buffer /\ inbox' = inbox
      BY <1>4 DEF sessionVars, vars, editorVars, ServerUnchanged
    <2>2. QueueOK'
      BY <1>0, <2>1 DEF QueueOK, InboxOK, QueueAgrees, Settled, Agrees, Open
    <2>3. HandlerOK(h)' /\ \A p \in Paths : Calm(p)' => PathOK(h, p)'
      BY <1>0, <2>1, ServerWaits DEF Calm, CalmOK
    <2>4. QED
      BY <1>0, <2>2, <2>3 DEF BufferInv, CalmOK
  <1>5. QED
    BY <1>1, <1>2, <1>3, <1>4, Handlers = {h} DEF SessionNext, AwaitInput

(* The invariant at the start of a session.                                *)
LEMMA BufferInit ==
  ASSUME NEW h, Handlers = {h}, SessionInit
  PROVE  BufferInv(h)
  <1>1. SessionTypes /\ h \in Handlers
    BY SessionTypesInit
  <1>2. Len(inbox) = 0 /\ 1 .. 0 = {}
    BY SMT DEF SessionInit
  <1>3. QueueOK
    BY <1>2 DEF QueueOK, InboxOK, QueueAgrees
  <1>4. Idle(h)
    BY <1>1 DEF SessionInit, Init, Idle
  <1>5. HandlerOK(h)
    BY <1>4 DEF HandlerOK, Shape, Steady, Indexed, SessionInit, Init, StoreInit
  <1>6. ASSUME NEW p \in Paths PROVE Matches(p)
    BY DEF Matches, Open, AsClosed, Stored, SessionInit, Init, StoreInit, NoDiagnostics
  <1>7. CalmOK(h)
    BY <1>4, <1>6 DEF CalmOK, PathOK, Works
  <1>8. QED
    BY <1>1, <1>3, <1>5, <1>7 DEF BufferInv

(* When all is handled, nothing more is said of any path.                  *)
LEMMA QuiescentMatches ==
  ASSUME NEW h \in Handlers, BufferInv(h), Quiescent, NEW p \in Paths
  PROVE  Matches(p) /\ PathConsistent(p)
  <1>1. Calm(p) /\ Idle(h)
    BY SMT DEF Quiescent, Calm
  <1>2. QED
    BY <1>1 DEF BufferInv, CalmOK, PathOK, Works, SessionTypes, Inv, StoreConsistent

(* When all is handled the server has every open document as the editor    *)
(* has it, in whatever order opens, changes, saves, closes, file events,   *)
(* renames and folder changes reached it.                                  *)
THEOREM OpenBuffersAreStored ==
  ASSUME NEW h, Handlers = {h}
  PROVE  SessionSpec => []OpenBuffersStored
  <1>1. SessionInit => BufferInv(h)
    BY BufferInit
  <1>2. BufferInv(h) /\ [SessionNext]_sessionVars => BufferInv(h)'
    BY BufferNext
  <1>3. BufferInv(h) => OpenBuffersStored
    <2>1. SUFFICES ASSUME BufferInv(h), Quiescent, NEW p \in Paths, Open(p)
                   PROVE  /\ Stored(p)
                          /\ documents[p].text = buffer[p].text
                          /\ documents[p].version = buffer[p].version
                          /\ "open" \in documents[p].origin
      BY DEF OpenBuffersStored
    <2>2. Matches(p) /\ PathConsistent(p)
      BY <2>1, QuiescentMatches
    <2>3. QED
      BY <2>1, <2>2 DEF Matches, PathConsistent
  <1>4. QED
    BY <1>1, <1>2, <1>3, PTL DEF SessionSpec

(* When all is handled the client shows the diagnostics of its buffers and *)
(* of nothing else.                                                        *)
THEOREM DiagnosticsAreTheBuffers ==
  ASSUME NEW h, Handlers = {h}
  PROVE  SessionSpec => []DiagnosticsMatchBuffers
  <1>1. SessionInit => BufferInv(h)
    BY BufferInit
  <1>2. BufferInv(h) /\ [SessionNext]_sessionVars => BufferInv(h)'
    BY BufferNext
  <1>3. BufferInv(h) => DiagnosticsMatchBuffers
    BY QuiescentMatches DEF DiagnosticsMatchBuffers, Matches
  <1>4. QED
    BY <1>1, <1>2, <1>3, PTL DEF SessionSpec

------------------------------------------------------------------------------
(* What is stored of closed documents is what the disk has.                *)

(* An operation of that kind on p is among those of the notice; is queued; *)
(* is under way or next.                                                   *)
Has(n, kind, p) ==
  \/ About(Head(n), {kind}, p)
  \/ \E op \in Ops : About(op, {kind}, p) /\ Tail(n) = << op >>
Queued(kind, p) == \E i \in 1 .. Len(inbox) : Has(inbox[i], kind, p)
Mine(h, kind, p) == ~Idle(h) /\ Has(task[h].todo, kind, p)

(* A text of p is what the disk has, or the editor has told or is going to *)
(* tell that it no longer is.                                              *)
Reported(text, p) ==
  \/ text = disk[p]
  \/ p \in dirty
  \/ Queued("remove", p)
  \/ disk[p] # NoText /\ Queued("index", p)

(* What was read of a file is still so, or will be read again.             *)
ReadFresh(h) ==
  Indexing(h) /\ task[h].pc \in {"store", "recheck", "install"}
    => Reported(Doc(h).text, Doc(h).path)

StoredFresh(h, p) ==
  \/ Reported(documents[p].text, p)
  \/ Mine(h, "remove", p)
  \/ disk[p] # NoText /\ Mine(h, "index", p)

(* Between the close of an indexed document and the restoring of its file, *)
(* and while it is open, the store has the text of the buffer instead.     *)
FreshOK(h) == \A p \in Paths :
  Calm(p) /\ ~Open(p) /\ Stored(p) /\ ~Works(h, {"close", "restore"}, p) => StoredFresh(h, p)

DiskInv(h) == BufferInv(h) /\ ReadFresh(h) /\ FreshOK(h)

(* What is queued after a post and after a notice was received.            *)
LEMMA PostedOps ==
  ASSUME EditorOK, NEW n, inbox' = Append(inbox, n), NEW kind, NEW p
  PROVE  Queued(kind, p)' <=> Queued(kind, p) \/ Has(n, kind, p)
  <1> DEFINE k == Len(inbox)
  <1>1. /\ k \in Nat /\ Len(inbox') = k + 1 /\ inbox'[k + 1] = n
        /\ \A i \in 1 .. k : inbox'[i] = inbox[i]
    BY AppendFacts DEF EditorOK
  <1> HIDE DEF k
  <1>2. \A j : j \in 1 .. k + 1 <=> j \in 1 .. k \/ j = k + 1
    BY <1>1, SMT
  <1>3. QED
    BY <1>1, <1>2 DEF Queued, Has, k

(* What is queued is queued behind the head, or is part of it.             *)
LEMMA TakenOps ==
  ASSUME EditorOK, inbox # << >>, inbox' = Tail(inbox), NEW kind, NEW p
  PROVE  Queued(kind, p) <=> Queued(kind, p)' \/ Has(Head(inbox), kind, p)
  <1> DEFINE k == Len(inbox)
  <1>1. /\ k \in Nat /\ k > 0 /\ Len(inbox') = k - 1 /\ Head(inbox) = inbox[1]
        /\ \A i \in 1 .. k - 1 : inbox'[i] = inbox[i + 1]
    BY TailFacts DEF EditorOK
  <1> HIDE DEF k
  <1>2. /\ \A j \in 1 .. k - 1 : j + 1 \in 1 .. k
        /\ \A j \in 1 .. k : j = 1 \/ (j - 1 \in 1 .. k - 1 /\ (j - 1) + 1 = j)
        /\ 1 \in 1 .. k
    BY <1>1, SMT
  <1>3. \A j \in 1 .. k : j = 1 \/ (j - 1 \in 1 .. k - 1 /\ inbox[j] = inbox'[j - 1])
    BY <1>1, <1>2
  <1>4. ASSUME Queued(kind, p)
        PROVE  Queued(kind, p)' \/ Has(Head(inbox), kind, p)
    <2>1. PICK j \in 1 .. k : Has(inbox[j], kind, p)
      BY <1>4 DEF Queued, k
    <2>2. QED
      BY <1>1, <1>3, <2>1 DEF Queued, Has
  <1>5. ASSUME Queued(kind, p)'
        PROVE  Queued(kind, p)
    <2>1. PICK j \in 1 .. k - 1 : Has(inbox'[j], kind, p)
      BY <1>1, <1>5 DEF Queued, Has
    <2>2. QED
      BY <1>1, <1>2, <2>1 DEF Queued, Has, k
  <1>6. Has(Head(inbox), kind, p) => Queued(kind, p)
    BY <1>1, <1>2 DEF Queued, k
  <1>7. QED
    BY <1>4, <1>5, <1>6

(* The operations of the notices of the editor.                            *)
LEMMA HasFacts ==
  ASSUME NEW p \in Paths
  PROVE  /\ Has(<< IndexFile(p) >>, "index", p)
         /\ Has(<< RemoveFile(p) >>, "remove", p)
         /\ \A q \in Paths : /\ Has(DidRenameFiles(q, p), "index", p)
                             /\ Has(DidRenameFiles(p, q), "remove", p)
  <1>1. \A q \in Paths : /\ IndexFile(q) \in Ops /\ About(IndexFile(q), {"index"}, q)
                         /\ RemoveFile(q) \in Ops /\ About(RemoveFile(q), {"remove"}, q)
    BY DraftOp, OpFields DEF IndexFile, RemoveFile, About
  <1>2. ASSUME NEW q \in Paths, NEW r \in Paths
        PROVE  /\ Head(DidRenameFiles(q, r)) = RemoveFile(q)
               /\ Tail(DidRenameFiles(q, r)) = << IndexFile(r) >>
    BY <1>1, ShortLists DEF DidRenameFiles
  <1>3. QED
    BY <1>1, <1>2, FirstOf DEF Has

(* The editor reports, or will report, every change of the disk; and what  *)
(* it will report it goes on to report.                                    *)
LEMMA DiskReported ==
  ASSUME SessionTypes, EditorNext, NEW p \in Paths
  PROVE  /\ \A text : disk'[p] # disk[p] => Reported(text, p)'
         /\ \A text : Reported(text, p) => Reported(text, p)'
  <1> USE DEF Post
  <1>0. EditorOK /\ disk \in [Paths -> Texts \cup {NoText}]
    BY DEF SessionTypes, Inv, TypeOK
  <1>1. \A kind : Queued(kind, p) => Queued(kind, p)'
    <2>1. inbox' = inbox \/ \E n : inbox' = Append(inbox, n)
      BY EditorSteps DEF EditorView
    <2>2. CASE inbox' = inbox
      BY <2>2 DEF Queued
    <2>3. QED
      BY <1>0, <2>1, <2>2, PostedOps
  <1>2. ASSUME disk'[p] = disk[p], dirty \subseteq dirty', NEW text, Reported(text, p)
        PROVE  Reported(text, p)'
    BY <1>1, <1>2 DEF Reported
  <1>3. ASSUME p \in dirty', NEW text PROVE Reported(text, p)'
    BY <1>3 DEF Reported
  <1>4. ASSUME NEW q \in Paths, EditorOpen(q) \/ EditorChange(q) \/ EditorClose(q)
        PROVE  disk' = disk /\ dirty' = dirty
    BY <1>4 DEF EditorOpen, EditorChange, EditorClose
  <1>5. ASSUME NEW q \in Paths, EditorSave(q) \/ FileChange(q)
        PROVE  p \in dirty' \/ (disk'[p] = disk[p] /\ dirty \subseteq dirty')
    BY <1>0, <1>5 DEF EditorSave, FileChange
  <1>6. ASSUME NEW r \in Roots, EditorAddFolder(r) \/ EditorRemoveFolder(r)
        PROVE  disk' = disk /\ dirty' = dirty
    BY <1>6 DEF EditorAddFolder, EditorRemoveFolder
  <1>7. ASSUME NEW q \in Paths, ReportFile(q)
        PROVE  disk' = disk /\ \A text : Reported(text, p) => Reported(text, p)'
    <2>1. CASE q # p
      <3>1. \A text : Reported(text, p) => Reported(text, p)'
        BY <1>1, <1>7, <2>1 DEF ReportFile, Reported
      <3>2. QED
        BY <1>7, <3>1 DEF ReportFile
    <2>2. CASE q = p /\ disk[p] = NoText
      <3>1. disk' = disk /\ inbox' = Append(inbox, << RemoveFile(p) >>)
        BY <1>7, <2>2 DEF ReportFile
      <3>2. Queued("remove", p)'
        BY <1>0, <3>1, PostedOps, HasFacts
      <3>3. QED
        BY <3>1, <3>2 DEF Reported
    <2>3. CASE q = p /\ disk[p] # NoText
      <3>1. disk' = disk /\ inbox' = Append(inbox, << IndexFile(p) >>)
        BY <1>7, <2>3 DEF ReportFile
      <3>2. Queued("index", p)'
        BY <1>0, <3>1, PostedOps, HasFacts
      <3>3. QED
        BY <2>3, <3>1, <3>2 DEF Reported
    <2>4. QED
      BY <2>1, <2>2, <2>3
  <1>8. ASSUME NEW q \in Paths, NEW r \in Paths, EditorRename(q, r)
        PROVE  \/ disk'[p] = disk[p] /\ dirty' = dirty
               \/ \A text : Reported(text, p)'
    <2>1. /\ disk' = [disk EXCEPT ![q] = NoText, ![r] = disk[q]] /\ disk[q] # NoText
          /\ inbox' = Append(inbox, DidRenameFiles(q, r)) /\ dirty' = dirty
          /\ disk[r] = NoText
      BY <1>8 DEF EditorRename
    <2>2. CASE p = q
      <3>1. Queued("remove", p)'
        BY <1>0, <2>1, <2>2, PostedOps, HasFacts
      <3>2. QED
        BY <3>1 DEF Reported
    <2>3. CASE p = r
      <3>1. Queued("index", p)'
        BY <1>0, <2>1, <2>3, PostedOps, HasFacts
      <3>2. disk'[p] # NoText
        BY <1>0, <2>1, <2>3
      <3>3. QED
        BY <3>1, <3>2 DEF Reported
    <2>4. CASE p # q /\ p # r
      BY <1>0, <2>1, <2>4
    <2>5. QED
      BY <2>2, <2>3, <2>4
  <1>9. QED
    BY <1>2, <1>3, <1>4, <1>5, <1>6, <1>7, <1>8 DEF EditorNext

(* The operation under way and the one behind it.                          *)
LEMMA MineFacts ==
  ASSUME NEW h \in Handlers, NEW kind, NEW p
  PROVE  /\ Works(h, {kind}, p) => Mine(h, kind, p)
         /\ Mine(h, kind, p) /\ ~Works(h, {kind}, p)
              => \E op \in Ops : About(op, {kind}, p) /\ Rest(h) = << op >>
  BY DEF Works, Mine, Has, OpOf, Rest

(* What a handler has to do with a file it still has to do after a step on *)
(* something else.                                                         *)
LEMMA MineStep ==
  ASSUME Inv, NEW h \in Handlers, Shape(h), Step(h), NEW kind, NEW p,
         Mine(h, kind, p), ~Works(h, {kind}, p)
  PROVE  Mine(h, kind, p)'
  <1>1. PICK op \in Ops : About(op, {kind}, p) /\ Rest(h) = << op >>
    BY MineFacts
  <1>2. ~Alone(h)
    BY <1>1, ShortLists DEF Alone
  <1>3. CASE GoesOn(h)
    BY <1>1, <1>3 DEF GoesOn, Mine, Has, Rest, Idle
  <1>4. CASE Ends(h) /\ ~Idle(h)
    <2>1. Passes(h)
      BY <1>4, EndPasses
    <2>2. ~Idle(h)' /\ << op >> = << OpOf(h)' >>
      BY <1>1, <1>2, <2>1 DEF Passes
    <2>3. Head(<< op >>) = Head(<< OpOf(h)' >>)
      BY <2>2
    <2>4. op = OpOf(h)'
      BY <2>3, FirstOf
    <2>5. QED
      BY <1>1, <2>2, <2>4 DEF Mine, Has, OpOf
  <1>5. CASE CloseDocument(h) \/ AddFolder(h) \/ WalkNext(h)
    BY <1>2, <1>5 DEF CloseDocument, AddFolder, WalkNext, At, Shape
  <1>6. QED
    BY <1>3, <1>4, <1>5, ContinuersGoOn, FinishersEnd DEF Step

(* The handler takes up what the notice says.                              *)
LEMMA ReceivedMine ==
  ASSUME SessionTypes, InboxOK, NEW h \in Handlers, Receive(h), NEW p
  PROVE  /\ \A kind : Has(Head(inbox), kind, p) => Mine(h, kind, p)'
         /\ \A kind : Queued(kind, p) <=> Queued(kind, p)' \/ Has(Head(inbox), kind, p)
         /\ \A text : Reported(text, p) => \/ Reported(text, p)'
                                           \/ Mine(h, "remove", p)'
                                           \/ disk'[p] # NoText /\ Mine(h, "index", p)'
  <1>1. /\ ~Idle(h)' /\ OpOf(h)' = Head(Head(inbox)) /\ Rest(h)' = Tail(Head(inbox))
        /\ inbox # << >> /\ inbox' = Tail(inbox) /\ UNCHANGED << disk, dirty >>
    BY Received
  <1>2. \A kind : Has(Head(inbox), kind, p) => Mine(h, kind, p)'
    BY <1>1 DEF Mine, Has, OpOf, Rest
  <1>3. \A kind : Queued(kind, p) <=> Queued(kind, p)' \/ Has(Head(inbox), kind, p)
    BY <1>1, TakenOps DEF SessionTypes
  <1>4. QED
    BY <1>1, <1>2, <1>3 DEF Reported

(* A handler carries the text it read and no other.                        *)
LEMMA ReadFreshStep ==
  ASSUME SessionTypes, NEW h \in Handlers, ReadFresh(h), Handle(h)
  PROVE  ReadFresh(h)'
  <1>0. Inv /\ TypeOK /\ Step(h)
    BY DEF SessionTypes, Inv, Handle
  <1>1. \A text, p : disk'[p] = disk[p] => (Reported(text, p)' <=> Reported(text, p))
    BY DEF Handle, editorVars, Reported, Queued
  <1>2. CASE ReadFile(h)
    <2>1. ~Idle(h) /\ Doc(h) \in Drafts
      BY <1>0, <1>2, AtFacts DEF ReadFile, Reading, At, Indexing
    <2> DEFINE doc == [Doc(h) EXCEPT !.text = disk[Doc(h).path]]
    <2>2. Continue(h, "store", doc) /\ disk' = disk
      BY <1>2 DEF ReadFile, Quiet
    <2>3. doc.text = disk[Doc(h).path] /\ doc.path = Doc(h).path
      BY <2>1, SMT DEF Drafts, SnapshotsOf
    <2> HIDE DEF doc
    <2>4. Doc(h)' = doc
      BY <1>0, <2>1, <2>2, ContinueOp
    <2>5. Doc(h)'.text = disk'[Doc(h)'.path]
      BY <2>2, <2>3, <2>4
    <2>6. QED
      BY <2>5 DEF ReadFresh, Reported
  <1>3. CASE StoreReserve(h) \/ StoreRecheck(h)
    <2>1. ~Idle(h) /\ Indexing(h) /\ task[h].pc \in {"store", "recheck", "install"}
      BY <1>0, <1>3, BusyAt, AtFacts DEF StoreReserve, StoreRecheck
    <2>2. PICK pc, doc : /\ Continue(h, pc, doc)
                         /\ doc.path = Doc(h).path /\ doc.text = Doc(h).text
      BY <1>3 DEF StoreReserve, StoreRecheck, Stamped
    <2>3. Doc(h)' = doc /\ disk' = disk
      BY <1>0, <1>3, <2>1, <2>2, ContinueOp DEF StoreReserve, StoreRecheck, Quiet
    <2>4. Reported(doc.text, doc.path)
      BY <2>1, <2>2 DEF ReadFresh
    <2>5. QED
      BY <1>1, <2>3, <2>4 DEF ReadFresh
  <1>4. CASE \/ LoadSaveVersion(h) \/ ReserveUpdate(h) \/ InstallUpdate(h) \/ BeginPublish(h)
    <2>1. Updates(h) /\ ~Idle(h)
      BY <1>0, <1>4, BusyAt, AtFacts DEF LoadSaveVersion, ReserveUpdate, InstallUpdate,
         BeginPublish, At, Updates
    <2>2. OpOf(h)'.kind = OpOf(h).kind
      BY <1>0, <1>4, ContinuersGoOn DEF GoesOn
    <2>3. QED
      BY <2>1, <2>2 DEF ReadFresh, Updates, Indexing
  <1>5. ASSUME StartIndex(h) \/ (ReadFileFails(h) /\ OpOf(h).kind = "restore")
        PROVE  ReadFresh(h)'
    <2>1. PICK pc \in {"read", "lost"} : Continue(h, pc, Doc(h)) /\ ~Idle(h)
      BY <1>5 DEF StartIndex, ReadFileFails, Reading, At
    <2>2. task'[h].pc = pc
      BY <1>0, <2>1, ContinueOp
    <2>3. QED
      BY <2>1, <2>2 DEF ReadFresh
  <1>6. CASE task'[h].pc = "next"
    BY <1>6 DEF ReadFresh
  <1>7. CASE CloseDocument(h) \/ AddFolder(h) \/ WalkNext(h)
    <2>1. PICK ops : FinishWith(h, ops)
      BY <1>7 DEF CloseDocument, AddFolder, WalkNext
    <2>2. QED
      BY <1>0, <1>6, <2>1, FinishView
  <1>8. CASE \/ InstallRejected(h) \/ SkipPublish(h) \/ SendDiagnostics(h)
             \/ ClearDiagnostics(h) \/ SkipIndex(h) \/ ForgetLostFile(h)
             \/ StoreAbandoned(h) \/ InstallIndexed(h) \/ RemoveWorkspaceFile(h)
             \/ AddFolderFails(h) \/ WalkDone(h) \/ RemoveFolder(h)
             \/ ReadFileFails(h) /\ OpOf(h).kind # "restore"
    BY <1>0, <1>6, <1>8, FinishersEnd DEF Ends
  <1>9. CASE ReadFileFails(h)
    BY <1>5, <1>8, <1>9
  <1>10. LoadSaveVersion(h) \/ ReserveUpdate(h) \/ InstallUpdate(h) \/ BeginPublish(h)
           => ReadFresh(h)'
    BY <1>4
  <1>11. StoreReserve(h) \/ StoreRecheck(h) => ReadFresh(h)'
    BY <1>3
  <1>12. StartIndex(h) => ReadFresh(h)'
    BY <1>5
  <1>13. CloseDocument(h) \/ AddFolder(h) \/ WalkNext(h) => ReadFresh(h)'
    BY <1>7
  <1>14. QED
    BY <1>0, <1>2, <1>8, <1>9, <1>10, <1>11, <1>12, <1>13 DEF Step

(* A step elsewhere leaves a stored text as fresh as it was.               *)
LEMMA FreshElsewhere ==
  ASSUME Inv, NEW h \in Handlers, Shape(h), Handle(h), NEW p,
         ~Works(h, {"index"}, p), ~Works(h, {"remove"}, p),
         documents'[p] = documents[p], StoredFresh(h, p)
  PROVE  StoredFresh(h, p)'
  <1>1. Step(h) /\ UNCHANGED << disk, dirty, inbox >>
    <2>1. Step(h) /\ UNCHANGED editorVars
      BY DEF Handle
    <2>2. disk' = disk
      BY <2>1 DEF Step, LoadSaveVersion, ReserveUpdate, InstallUpdate, InstallRejected,
         BeginPublish, SkipPublish, SendDiagnostics, CloseDocument, ClearDiagnostics,
         SkipIndex, StartIndex, ReadFile, ReadFileFails, ForgetLostFile, StoreReserve,
         StoreRecheck, StoreAbandoned, InstallIndexed, RemoveWorkspaceFile, AddFolder,
         AddFolderFails, WalkNext, WalkDone, RemoveFolder, Quiet
    <2>3. QED
      BY <2>1, <2>2 DEF editorVars
  <1>2. /\ Mine(h, "index", p) => Mine(h, "index", p)'
        /\ Mine(h, "remove", p) => Mine(h, "remove", p)'
    BY <1>1, MineStep
  <1>3. QED
    BY <1>1, <1>2 DEF StoredFresh, Reported, Queued

(* A step of the handler keeps the stored texts fresh.                     *)
LEMMA FreshStep ==
  ASSUME NEW h \in Handlers, BufferInv(h), ReadFresh(h), FreshOK(h), Handle(h)
  PROVE  FreshOK(h)'
  <1> SUFFICES ASSUME NEW p \in Paths, Calm(p)', ~Open(p)', Stored(p)',
                      ~Works(h, {"close", "restore"}, p)'
               PROVE  StoredFresh(h, p)'
    BY DEF FreshOK
  <1>0. /\ SessionTypes /\ Inv /\ StoreOK /\ StoreTypeOK /\ HandlerOK(h) /\ Shape(h)
        /\ Steady(h) /\ Indexed /\ Step(h) /\ ~Idle(h) /\ UNCHANGED << buffer, dirty, inbox >>
    BY ByKind, InvParts DEF BufferInv, SessionTypes, HandlerOK, Handle, editorVars, Inv,
       StoreOK
  <1>1. ~Open(p) /\ Calm(p) /\ PathOK(h, p)
    BY <1>0 DEF Open, Calm, BufferInv, CalmOK
  <1>2. ASSUME documents'[p] = documents[p], ~Works(h, {"close", "restore"}, p)
        PROVE  StoredFresh(h, p)
    BY <1>1, <1>2 DEF FreshOK, Stored
  <1>3. ASSUME documents'[p] = documents[p], ~Works(h, {"close", "restore"}, p),
               ~Works(h, {"index"}, p), ~Works(h, {"remove"}, p)
        PROVE  StoredFresh(h, p)'
    BY <1>0, <1>2, <1>3, FreshElsewhere
  <1>4. Stored(p) /\ ~Works(h, EditKinds, p) => p \in workspaceFileMap \ openDocumentMap
    BY <1>1 DEF PathOK, Matches, AsClosed
  <1>5. ASSUME NEW gone, LeaveWorkspace(gone), p \in gone
        PROVE  Stored(p) /\ p \in openDocumentMap
    BY <1>0, <1>5, LeavingPath
  <1>6. CASE Works(h, {"close"}, p)
    <2>1. CloseDocument(h) /\ Alone(h) /\ Doc(h).path = p
      BY <1>0, <1>6, ByKind DEF Works, About, Doc, Shape
    <2>2. /\ ~Idle(h)' /\ Doc(h)'.path = p
          /\ RestoresNext(h, p) \/ ClearsNext(h, p)
      BY <1>0, <2>1, CloseLeaves
    <2>3. CASE RestoresNext(h, p)
      BY <2>2, <2>3 DEF RestoresNext, Works, About, Doc
    <2>4. CASE ClearsNext(h, p)
      <3>1. ForgetDocument(p)
        BY <2>4 DEF ClearsNext
      <3>2. QED
        BY <1>0, <3>1 DEF ForgetDocument, StoreTypeOK, Stored
    <2>5. QED
      BY <2>2, <2>3, <2>4
  <1>7. CASE InstallIndexed(h) /\ Doc(h).path = p
    <2>1. documents'[p] = Doc(h) /\ disk' = disk
      BY <1>0, <1>7, IndexedPath DEF InstallIndexed, Quiet
    <2>2. Reported(Doc(h).text, p)
      BY <1>7 DEF ReadFresh, InstallIndexed
    <2>3. QED
      BY <1>0, <2>1, <2>2 DEF StoredFresh, Reported, Queued
  <1>8. CASE Works(h, {"restore"}, p) /\ ~InstallIndexed(h)
    <2>1. /\ OpOf(h).kind = "restore" /\ Doc(h).path = p /\ Indexing(h) /\ ~Updates(h)
          /\ p \notin openDocumentMap
      BY <1>0, <1>8 DEF Works, About, Doc, Indexing, Updates, Steady
    <2>2. CASE ForgetLostFile(h)
      BY <1>0, <1>5, <2>1, <2>2 DEF ForgetLostFile
    <2>3. CASE ReadFile(h) \/ ReadFileFails(h) \/ StoreReserve(h) \/ StoreRecheck(h)
      <3>1. GoesOn(h)
        BY <1>0, <2>1, <2>3, ContinuersGoOn
      <3>2. QED
        BY <2>1, <3>1 DEF GoesOn, Works, About, Doc
    <2>4. QED
      BY <1>0, <1>8, <2>1, <2>2, <2>3, ByKind, NeverOvertaken
  <1>9. CASE Works(h, {"clear"}, p)
    <2>1. ClearDiagnostics(h)
      BY <1>0, <1>9, ByKind DEF Works, About
    <2>2. documents' = documents
      BY <2>1 DEF ClearDiagnostics, storeVars
    <2>3. QED
      BY <1>3, <1>9, <2>2 DEF Works, About
  <1>10. CASE Works(h, {"update", "save"}, p)
    BY <1>1, <1>10 DEF PathOK, Saving
  <1>11. CASE Works(h, {"index"}, p) /\ ~InstallIndexed(h)
    <2>1. /\ OpOf(h).kind = "index" /\ Doc(h).path = p /\ Indexing(h) /\ ~Updates(h)
          /\ ~ForgetLostFile(h) /\ ~Works(h, EditKinds, p) /\ ~Works(h, {"remove"}, p)
          /\ ~Works(h, {"close", "restore"}, p)
      BY <1>0, <1>11, BusyAt, AtFacts DEF Works, About, Doc, Indexing, Updates,
         ForgetLostFile, EditKinds, Inv
    <2>2. SameAt(p)
      BY <1>0, <1>11, <2>1, IndexingLeaves
    <2>3. documents'[p] = documents[p] /\ StoredFresh(h, p)
      BY <1>2, <2>1, <2>2 DEF SameAt
    <2>4. p \in SQLFiles \ openDocumentMap
      BY <1>0, <1>4, <2>1, <2>3 DEF Stored, Indexed
    <2>5. disk' = disk
      BY <1>0, <2>1, ByKind, NeverOvertaken, <1>11 DEF SkipIndex, StartIndex, ReadFile,
         ReadFileFails, StoreReserve, StoreRecheck, Quiet
    <2>6. Mine(h, "remove", p) => Mine(h, "remove", p)'
      BY <1>0, <2>1, MineStep
    <2>7. CASE StartIndex(h) \/ ReadFile(h) \/ StoreReserve(h) \/ StoreRecheck(h)
      <3>1. GoesOn(h)
        BY <1>0, <2>7, ContinuersGoOn
      <3>2. Works(h, {"index"}, p)'
        BY <2>1, <3>1 DEF GoesOn, Works, About, Doc
      <3>3. Mine(h, "index", p)'
        BY <3>2 DEF Works, Mine, Has, OpOf
      <3>4. QED
        BY <1>0, <2>3, <2>5, <2>6, <3>3 DEF StoredFresh, Reported, Queued
    <2>8. CASE ReadFileFails(h)
      <3>1. disk[p] = NoText
        BY <2>1, <2>8 DEF ReadFileFails
      <3>2. QED
        BY <1>0, <2>3, <2>5, <2>6, <3>1 DEF StoredFresh, Reported, Queued
    <2>9. ~SkipIndex(h)
      BY <2>1, <2>4 DEF SkipIndex
    <2>10. QED
      BY <1>0, <1>11, <2>1, <2>7, <2>8, <2>9, ByKind, NeverOvertaken
  <1>12. CASE Works(h, {"remove"}, p)
    <2>1. LeaveWorkspace({p})
      BY <1>0, <1>12, ByKind DEF Works, About, RemoveWorkspaceFile, Doc
    <2>2. Stored(p) /\ p \in openDocumentMap
      BY <1>5, <2>1
    <2>3. QED
      BY <1>4, <1>12, <2>2 DEF Works, About, EditKinds
  <1>13. CASE RemoveFolder(h)
    <2>1. ~Works(h, EditKinds \cup {"index", "remove"}, p)
      BY <1>13 DEF RemoveFolder, At, Works, About, EditKinds
    <2>2. PICK gone : LeaveWorkspace(gone)
      BY <1>13 DEF RemoveFolder
    <2>3. p \notin gone
      BY <1>4, <1>5, <2>1, <2>2 DEF Works, About
    <2>4. documents'[p] = documents[p]
      BY <1>0, <2>2, <2>3, LeavingPath
    <2>5. QED
      BY <1>3, <2>1, <2>4 DEF Works, About, EditKinds
  <1>14. CASE ~RemoveFolder(h) /\ ~Works(h, EditKinds \cup {"index", "remove"}, p)
    <2>1. SameAt(p)
      BY <1>0, <1>14, Elsewhere
    <2>2. QED
      BY <1>3, <1>14, <2>1 DEF SameAt, Works, About, EditKinds
  <1>15. QED
    BY <1>6, <1>7, <1>8, <1>9, <1>10, <1>11, <1>12, <1>13, <1>14
       DEF Works, About, EditKinds, Doc

(* The disk changes, and the editor reports it: the handler has still read *)
(* what is reported, and has still stored what is.                         *)
LEMMA FreshEditor ==
  ASSUME NEW h \in Handlers, DiskInv(h), EditorNext
  PROVE  ReadFresh(h)' /\ FreshOK(h)'
  <1>0. /\ SessionTypes /\ QueueOK /\ TypeOK /\ ServerUnchanged /\ QueueStep
        /\ task' = task /\ documents' = documents
    BY EditorSteps, EditorQueue DEF DiskInv, BufferInv, EditorView, SessionTypes, Inv,
       ServerUnchanged, storeVars, handlerVars
  <1>1. /\ Idle(h)' <=> Idle(h)
        /\ OpOf(h)' = OpOf(h) /\ Doc(h)' = Doc(h) /\ (Indexing(h)' <=> Indexing(h))
        /\ \A kind, p : /\ Mine(h, kind, p)' <=> Mine(h, kind, p)
                        /\ \A kinds : Works(h, kinds, p)' <=> Works(h, kinds, p)
    BY <1>0 DEF Idle, OpOf, Doc, Indexing, Mine, Has, Works, About
  <1>2. ReadFresh(h)'
    <2>1. SUFFICES ASSUME Indexing(h), task[h].pc \in {"store", "recheck", "install"}
                   PROVE  Reported(Doc(h).text, Doc(h).path)'
      BY <1>0, <1>1 DEF ReadFresh
    <2>2. PICK p, text : p = Doc(h).path /\ text = Doc(h).text
      OBVIOUS
    <2>3. p \in Paths
      BY <1>0, <2>1, <2>2, AtFacts, SMT DEF Indexing, Drafts, SnapshotsOf
    <2>4. Reported(text, p)
      BY <2>1, <2>2 DEF DiskInv, ReadFresh
    <2>5. Reported(text, p)'
      BY <1>0, <2>3, <2>4, DiskReported
    <2>6. QED
      BY <1>1, <2>2, <2>5
  <1>3. ASSUME NEW p \in Paths, Calm(p)', ~Open(p)', Stored(p)',
               ~Works(h, {"close", "restore"}, p)'
        PROVE  StoredFresh(h, p)'
    <2>1. Calm(p) /\ ~Open(p) /\ Stored(p) /\ ~Works(h, {"close", "restore"}, p)
      BY <1>0, <1>1, <1>3 DEF QueueStep, Open, Stored
    <2>2. StoredFresh(h, p)
      BY <2>1 DEF DiskInv, FreshOK
    <2>3. /\ \A text : disk'[p] # disk[p] => Reported(text, p)'
          /\ \A text : Reported(text, p) => Reported(text, p)'
      BY <1>0, DiskReported
    <2>4. CASE disk'[p] # disk[p]
      BY <1>0, <2>3, <2>4 DEF StoredFresh
    <2>5. CASE disk'[p] = disk[p]
      BY <1>0, <1>1, <2>2, <2>3, <2>5 DEF StoredFresh
    <2>6. QED
      BY <2>4, <2>5
  <1>4. QED
    BY <1>2, <1>3 DEF FreshOK

(* The handler receives a notice: what was on its way is now to be done.   *)
LEMMA FreshReceive ==
  ASSUME NEW h \in Handlers, DiskInv(h), Receive(h)
  PROVE  ReadFresh(h)' /\ FreshOK(h)'
  <1>0. /\ SessionTypes /\ EditorOK /\ QueueAgrees /\ InboxOK
    BY DEF DiskInv, BufferInv, SessionTypes, QueueOK
  <1>1. /\ ~Idle(h)' /\ Idle(h) /\ task'[h].pc = "next" /\ OpOf(h)' = Head(Head(inbox))
        /\ inbox # << >> /\ inbox' = Tail(inbox)
        /\ documents' = documents /\ buffer' = buffer
    BY <1>0, Received DEF storeVars
  <1>2. ReadFresh(h)'
    BY <1>1 DEF ReadFresh
  <1>3. ASSUME NEW p \in Paths, Calm(p)', ~Open(p)', Stored(p)',
               ~Works(h, {"close", "restore"}, p)'
        PROVE  StoredFresh(h, p)'
    <2>1. ~Open(p) /\ Stored(p) /\ ~Works(h, {"close", "restore"}, p)
      BY <1>1, <1>3 DEF Open, Stored, Works
    <2>2. Calm(p)
      <3>1. /\ Calm(p) <=> ~About(Head(Head(inbox)), {"update", "close"}, p)
            /\ Agrees(Head(Head(inbox)), p)
        BY <1>0, <1>1, <1>3, TakenQueue DEF Lifecycle, QueueAgrees
      <3>2. ~About(Head(Head(inbox)), {"update"}, p)
        BY <2>1, <3>1 DEF Agrees
      <3>3. ~About(Head(Head(inbox)), {"close"}, p)
        BY <1>1, <1>3 DEF Works, About
      <3>4. QED
        BY <3>1, <3>2, <3>3 DEF About
    <2>3. StoredFresh(h, p) /\ ~Mine(h, "remove", p) /\ ~Mine(h, "index", p)
      BY <1>1, <2>1, <2>2 DEF DiskInv, FreshOK, Mine
    <2>4. PICK text : text = documents[p].text
      OBVIOUS
    <2>5. Reported(text, p)
      BY <2>3, <2>4 DEF StoredFresh
    <2>6. \/ Reported(text, p)'
          \/ Mine(h, "remove", p)'
          \/ disk'[p] # NoText /\ Mine(h, "index", p)'
      BY <1>0, <2>5, ReceivedMine
    <2>7. QED
      BY <1>1, <2>4, <2>6 DEF StoredFresh
  <1>4. QED
    BY <1>2, <1>3 DEF FreshOK

(* Every step of a session with one handler keeps what is stored of closed *)
(* documents what the disk has, or a report on its way.                    *)
LEMMA DiskNext ==
  ASSUME NEW h, Handlers = {h}, DiskInv(h), [SessionNext]_sessionVars
  PROVE  DiskInv(h)'
  <1>0. h \in Handlers /\ BufferInv(h) /\ ReadFresh(h) /\ FreshOK(h) /\ SessionTypes
    BY DEF DiskInv, BufferInv
  <1>1. BufferInv(h)'
    BY <1>0, BufferNext
  <1>2. CASE EditorNext
    BY <1>0, <1>1, <1>2, FreshEditor DEF DiskInv
  <1>3. CASE Receive(h)
    BY <1>0, <1>1, <1>3, FreshReceive DEF DiskInv
  <1>4. CASE Handle(h)
    BY <1>0, <1>1, <1>4, ReadFreshStep, FreshStep DEF DiskInv
  <1>5. CASE UNCHANGED sessionVars
    <2>1. /\ UNCHANGED << task, disk, dirty, inbox, buffer, documents >>
      BY <1>5 DEF sessionVars, vars, editorVars, storeVars, handlerVars
    <2>2. \A text, p : Reported(text, p)' <=> Reported(text, p)
      BY <2>1 DEF Reported, Queued
    <2>3. ReadFresh(h)'
      BY <1>0, <2>1, <2>2 DEF ReadFresh, Indexing, Idle, OpOf, Doc
    <2>4. FreshOK(h)'
      BY <1>0, <2>1, <2>2 DEF FreshOK, StoredFresh, Mine, Works, Idle, OpOf, Open, Stored, Calm
    <2>5. QED
      BY <1>1, <2>3, <2>4 DEF DiskInv
  <1>6. QED
    BY <1>2, <1>3, <1>4, <1>5, Handlers = {h} DEF SessionNext, AwaitInput

(* When all is handled the store has no text of an abandoned buffer, of a  *)
(* deleted file or of an older state of the disk.                          *)
THEOREM ClosedDocumentsAreTheDisk ==
  ASSUME NEW h, Handlers = {h}
  PROVE  SessionSpec => []ClosedDocumentsMatchDisk
  <1>1. SessionInit => DiskInv(h)
    <2>1. SUFFICES ASSUME SessionInit PROVE DiskInv(h)
      OBVIOUS
    <2>2. BufferInv(h) /\ h \in Handlers
      BY <2>1, BufferInit
    <2>3. Idle(h) /\ \A p \in Paths : ~Stored(p)
      BY <2>1, <2>2 DEF SessionInit, Init, StoreInit, Idle, Stored
    <2>4. QED
      BY <2>2, <2>3 DEF DiskInv, ReadFresh, Indexing, FreshOK
  <1>2. DiskInv(h) /\ [SessionNext]_sessionVars => DiskInv(h)'
    BY DiskNext
  <1>3. DiskInv(h) => ClosedDocumentsMatchDisk
    <2>1. SUFFICES ASSUME DiskInv(h), Quiescent, NEW p \in Paths, ~Open(p), Stored(p)
                   PROVE  documents[p].text = disk[p] /\ documents[p].origin = {"workspace"}
      BY DEF ClosedDocumentsMatchDisk
    <2>2. BufferInv(h) /\ h \in Handlers /\ Inv /\ StoreOK /\ StoreTypeOK
      BY <2>1, InvParts DEF DiskInv, BufferInv, SessionTypes, Inv, StoreOK
    <2>3. Matches(p) /\ PathConsistent(p)
      BY <2>1, <2>2, QuiescentMatches
    <2>4. documents[p].origin = {"workspace"}
      <3>1. p \in workspaceFileMap \ openDocumentMap
        BY <2>1, <2>3 DEF Matches, AsClosed
      <3>2. "open" \notin documents[p].origin /\ "workspace" \in documents[p].origin
        BY <2>1, <2>3, <3>1 DEF PathConsistent
      <3>3. documents[p].origin \in SUBSET Origins
        BY <2>1, <2>2, SMT DEF StoreTypeOK, Stored, Snapshots, SnapshotsOf
      <3>4. QED
        BY <3>2, <3>3 DEF Origins
    <2>5. documents[p].text = disk[p]
      <3>1. Idle(h) /\ dirty = {} /\ Calm(p) /\ \A kind : ~Queued(kind, p)
        <4>1. Idle(h) /\ dirty = {} /\ inbox = << >>
          BY <2>1, <2>2 DEF Quiescent
        <4>2. Len(inbox) = 0 /\ 1 .. 0 = {}
          BY <4>1, SMT
        <4>3. QED
          BY <4>1, <4>2 DEF Calm, Queued
      <3>2. StoredFresh(h, p)
        BY <2>1, <3>1 DEF DiskInv, FreshOK, Works
      <3>3. QED
        BY <3>1, <3>2 DEF StoredFresh, Reported, Mine
    <2>6. QED
      BY <2>4, <2>5
  <1>4. QED
    BY <1>1, <1>2, <1>3, PTL DEF SessionSpec

------------------------------------------------------------------------------
(* The files of the workspace that the editor never opened are indexed.    *)

(* The editor has not opened p, and no part of the server knows of an open *)
(* document there.                                                         *)
Touches(n, p) == About(Head(n), EditKinds, p)
Untouched(h) == \A p \in Paths \ opened :
  /\ ~Open(p) /\ p \notin openDocumentMap
  /\ ~Works(h, EditKinds, p)
  /\ \A i \in 1 .. Len(inbox) : ~Touches(inbox[i], p)

(* The last report of p on its way says that there is a file.              *)
IndexQueued(p) == \E i \in 1 .. Len(inbox) :
  /\ Has(inbox[i], "index", p)
  /\ \A j \in i + 1 .. Len(inbox) : ~Has(inbox[j], "remove", p)
ReportsLast == \A p \in Paths :
  p \notin dirty /\ disk[p] # NoText /\ Queued("remove", p) => IndexQueued(p)

(* The handler is going to index p, or to walk a folder that lists it.     *)
WalksTo(op, p) == op.kind = "walk" /\ p \in op.paths
ToIndex(h, p) ==
  \/ Mine(h, "index", p)
  \/ ~Idle(h) /\ WalksTo(OpOf(h), p)
  \/ ~Idle(h) /\ \E op \in Ops : WalksTo(op, p) /\ Rest(h) = << op >>

(* A file of a recorded folder that is not indexed is going to be.         *)
FilesOK(h) == \A p \in Paths \ opened :
  Listable(p) /\ p \notin dirty /\ ~IndexQueued(p)
    => ToIndex(h, p) \/ (p \in workspaceFileMap /\ ~Works(h, {"remove"}, p))

FilesInv(h) == BufferInv(h) /\ Untouched(h) /\ ReportsLast /\ FilesOK(h)

(* What a post and a receipt do to the last report.                        *)
LEMMA PostedIndex ==
  ASSUME EditorOK, NEW n, inbox' = Append(inbox, n), NEW p
  PROVE  /\ Has(n, "index", p) => IndexQueued(p)'
         /\ IndexQueued(p) /\ ~Has(n, "remove", p) => IndexQueued(p)'
         /\ (\A i \in 1 .. Len(inbox) : ~Touches(inbox[i], p)) /\ ~Touches(n, p)
              => \A i \in 1 .. Len(inbox') : ~Touches(inbox'[i], p)
  <1> DEFINE k == Len(inbox)
  <1>1. /\ k \in Nat /\ Len(inbox') = k + 1 /\ inbox'[k + 1] = n
        /\ \A i \in 1 .. k : inbox'[i] = inbox[i]
    BY AppendFacts DEF EditorOK
  <1> HIDE DEF k
  <1>2. /\ \A j : j \in 1 .. k + 1 <=> j \in 1 .. k \/ j = k + 1
        /\ (k + 1) + 1 .. k + 1 = {}
        /\ \A i \in 1 .. k : \A j : j \in i + 1 .. k + 1 <=> j \in i + 1 .. k \/ j = k + 1
        /\ \A i \in 1 .. k : \A j \in i + 1 .. k : j \in 1 .. k
    BY <1>1, SMT
  <1>3. Has(n, "index", p) => IndexQueued(p)'
    BY <1>1, <1>2 DEF IndexQueued, Has
  <1>4. ASSUME IndexQueued(p), ~Has(n, "remove", p)
        PROVE  IndexQueued(p)'
    <2>1. PICK i \in 1 .. k : /\ Has(inbox[i], "index", p)
                              /\ \A j \in i + 1 .. k : ~Has(inbox[j], "remove", p)
      BY <1>4 DEF IndexQueued, k
    <2>2. i \in 1 .. Len(inbox') /\ Has(inbox'[i], "index", p)
      BY <1>1, <1>2, <2>1
    <2>3. \A j \in i + 1 .. Len(inbox') : ~Has(inbox'[j], "remove", p)
      BY <1>1, <1>2, <1>4, <2>1
    <2>4. QED
      BY <2>2, <2>3 DEF IndexQueued, Has
  <1>5. (\A i \in 1 .. k : ~Touches(inbox[i], p)) /\ ~Touches(n, p)
          => \A i \in 1 .. k + 1 : ~Touches(inbox'[i], p)
    BY <1>1, <1>2
  <1>6. QED
    BY <1>1, <1>3, <1>4, <1>5 DEF k

(* The last report, if it is not the one received, stays on its way.       *)
LEMMA TakenIndex ==
  ASSUME EditorOK, inbox # << >>, inbox' = Tail(inbox), NEW p
  PROVE  /\ IndexQueued(p) =>
              IndexQueued(p)' \/ (Has(Head(inbox), "index", p) /\ ~Queued("remove", p)')
         /\ (\A i \in 1 .. Len(inbox) : ~Touches(inbox[i], p)) =>
              /\ ~Touches(Head(inbox), p)
              /\ \A i \in 1 .. Len(inbox') : ~Touches(inbox'[i], p)
  <1> DEFINE k == Len(inbox)
  <1>1. /\ k \in Nat /\ k > 0 /\ Len(inbox') = k - 1 /\ Head(inbox) = inbox[1]
        /\ \A i \in 1 .. k - 1 : inbox'[i] = inbox[i + 1]
    BY TailFacts DEF EditorOK
  <1> HIDE DEF k
  <1>2. /\ \A j \in 1 .. k - 1 : j + 1 \in 1 .. k /\ j + 1 \in 1 + 1 .. k
        /\ \A j \in 1 .. k : j = 1 \/ (j - 1 \in 1 .. k - 1 /\ (j - 1) + 1 = j)
        /\ 1 \in 1 .. k
        /\ \A i \in 1 .. k : \A j \in (i - 1) + 1 .. k - 1 : j + 1 \in i + 1 .. k /\ (i # 1 => j \in 1 .. k - 1)
    BY <1>1, SMT
  <1>3. ASSUME IndexQueued(p)
        PROVE  IndexQueued(p)' \/ (Has(Head(inbox), "index", p) /\ ~Queued("remove", p)')
    <2>1. PICK i \in 1 .. k : /\ Has(inbox[i], "index", p)
                              /\ \A j \in i + 1 .. k : ~Has(inbox[j], "remove", p)
      BY <1>3 DEF IndexQueued, k
    <2>2. CASE i = 1
      <3>1. \A j \in 1 .. k - 1 : ~Has(inbox'[j], "remove", p)
        BY <1>1, <1>2, <2>1, <2>2
      <3>2. QED
        BY <1>1, <2>1, <2>2, <3>1 DEF Queued, Has
    <2>3. CASE i # 1
      <3>1. i - 1 \in 1 .. k - 1 /\ inbox'[i - 1] = inbox[i]
        BY <1>1, <1>2, <2>3
      <3>2. \A j \in (i - 1) + 1 .. k - 1 : ~Has(inbox'[j], "remove", p)
        BY <1>1, <1>2, <2>1, <2>3
      <3>3. QED
        BY <1>1, <2>1, <3>1, <3>2 DEF IndexQueued, Has
    <2>4. QED
      BY <2>2, <2>3
  <1>4. (\A i \in 1 .. k : ~Touches(inbox[i], p)) =>
          /\ ~Touches(Head(inbox), p)
          /\ \A i \in 1 .. k - 1 : ~Touches(inbox'[i], p)
    BY <1>1, <1>2
  <1>5. QED
    BY <1>1, <1>3, <1>4 DEF k

(* The operations of a notice of one, and of two.                          *)
LEMMA HasOneOrTwo ==
  ASSUME NEW op \in Ops, NEW kind, NEW p
  PROVE  /\ Has(<< op >>, kind, p) <=> About(op, {kind}, p)
         /\ \A next \in Ops :
              Has(<< op, next >>, kind, p) <=> About(op, {kind}, p) \/ About(next, {kind}, p)
  <1>1. /\ Head(<< op >>) = op /\ Tail(<< op >>) = << >>
        /\ \A next \in Ops : /\ Head(<< op, next >>) = op
                             /\ Tail(<< op, next >>) = << next >>
                             /\ << next >> # << >>
    BY ShortLists
  <1>2. \A next \in Ops, x \in Ops : << next >> = << x >> => next = x
    <2>1. \A next \in Ops, x \in Ops : Head(<< next >>) = next /\ Head(<< x >>) = x
      BY ShortLists
    <2>2. QED
      BY <2>1
  <1>3. QED
    BY <1>1, <1>2 DEF Has

(* What the editor sends about its buffers and about its folders removes   *)
(* no file from the index.                                                 *)
LEMMA EditNotices ==
  ASSUME SessionTypes, NEW q \in Paths,
         EditorOpen(q) \/ EditorChange(q) \/ EditorSave(q) \/ EditorClose(q)
  PROVE  \E n : /\ IsNotice(n) /\ inbox' = Append(inbox, n)
                /\ Head(n).kind \in {"update", "save", "close"} /\ Head(n).doc.path = q
  <1> USE DEF Post
  <1>0. EditorOK
    BY DEF SessionTypes
  <1>1. ASSUME NEW n, NEW kind \in {"update", "save", "close"}, NEW t, NEW v, IsNotice(n),
               n = << Op(kind, q, t, v) >>
        PROVE  /\ IsNotice(n)
               /\ Head(n).kind \in {"update", "save", "close"} /\ Head(n).doc.path = q
    BY <1>1, FirstOf, OpFields
  <1>2. CASE EditorOpen(q)
    <2>1. PICK t \in Texts : inbox' = Append(inbox, DidOpen(q, t, 1))
      BY <1>2 DEF EditorOpen
    <2>2. QED
      BY <1>1, <2>1, NoticeFacts DEF DidOpen
  <1>3. CASE EditorChange(q)
    <2>1. PICK t \in Texts : inbox' = Append(inbox, DidChange(q, t, buffer[q].version + 1))
      BY <1>3 DEF EditorChange
    <2>2. buffer[q].version + 1 \in Nat
      BY <1>0, <1>3, SMT DEF EditorChange, Open, EditorOK, Buffers
    <2>3. PICK w \in Nat : w = buffer[q].version + 1
      BY <2>2
    <2>4. QED
      BY <1>1, <2>1, <2>3, NoticeFacts DEF DidChange
  <1>4. CASE EditorSave(q)
    <2>1. buffer[q].text \in Texts
      BY <1>0, <1>4, SMT DEF EditorSave, Open, EditorOK, Buffers
    <2>2. PICK t \in Texts : t = buffer[q].text
      BY <2>1
    <2>3. QED
      BY <1>1, <1>4, <2>2, NoticeFacts DEF EditorSave, DidSave
  <1>5. CASE EditorClose(q)
    BY <1>1, <1>5, NoticeFacts DEF EditorClose, DidClose
  <1>6. QED
    BY <1>2, <1>3, <1>4, <1>5

(* A change of the folders posts a notice that says so.                    *)
LEMMA FolderNotices ==
  ASSUME NEW r \in Roots, EditorAddFolder(r) \/ EditorRemoveFolder(r)
  PROVE  \E n : /\ IsNotice(n) /\ inbox' = Append(inbox, n)
                /\ Head(n).kind \in {"addFolder", "removeFolder"}
  <1>1. PICK kind \in {"addFolder", "removeFolder"} : inbox' = Append(inbox, << Folder(kind, r) >>)
    BY DEF EditorAddFolder, EditorRemoveFolder, Post
  <1>2. IsNotice(<< Folder(kind, r) >>) /\ Head(<< Folder(kind, r) >>).kind = kind
    BY FirstOf DEF IsNotice, Sent, Folder, Ops, FolderOps
  <1>3. QED
    BY <1>1, <1>2

(* A notice that does not begin with a deletion has none: only a rename    *)
(* has two parts.                                                          *)
LEMMA RemovesNothing ==
  ASSUME NEW n, IsNotice(n), Head(n).kind # "remove", NEW p
  PROVE  ~Has(n, "remove", p)
  <1>1. PICK op \in Ops : n = << op >> \/ (op.kind = "remove" /\ \E next \in Ops : n = << op, next >>)
    BY DEF IsNotice
  <1>2. Head(n) = op
    BY <1>1, FirstOf
  <1>3. n = << op >>
    BY <1>1, <1>2
  <1>4. QED
    BY <1>2, <1>3, HasOneOrTwo DEF About

(* A file that is not to be reported is as it was, or its report is the    *)
(* last one.                                                               *)
LEMMA EditorReports ==
  ASSUME SessionTypes, EditorNext, NEW p \in Paths, p \notin dirty', disk'[p] # NoText
  PROVE  \/ IndexQueued(p)'
         \/ /\ disk'[p] = disk[p] /\ p \notin dirty
            /\ Queued("remove", p)' => Queued("remove", p)
            /\ IndexQueued(p) => IndexQueued(p)'
  <1> DEFINE Goal == \/ IndexQueued(p)'
                     \/ /\ disk'[p] = disk[p] /\ p \notin dirty
                        /\ Queued("remove", p)' => Queued("remove", p)
                        /\ IndexQueued(p) => IndexQueued(p)'
  <1>0. EditorOK /\ disk \in [Paths -> Texts \cup {NoText}]
    BY DEF SessionTypes, Inv, TypeOK
  <1>1. ASSUME NEW n, inbox' = Append(inbox, n), ~Has(n, "remove", p),
               disk'[p] = disk[p], p \notin dirty
        PROVE  Goal
    BY <1>0, <1>1, PostedOps, PostedIndex
  <1>2. ASSUME NEW n, inbox' = Append(inbox, n), Has(n, "index", p)
        PROVE  Goal
    BY <1>0, <1>2, PostedIndex
  <1>3. ASSUME NEW q \in Paths
        PROVE  /\ IndexFile(q) \in Ops /\ RemoveFile(q) \in Ops
               /\ IndexFile(q).kind = "index" /\ IndexFile(q).doc.path = q
               /\ RemoveFile(q).kind = "remove" /\ RemoveFile(q).doc.path = q
    BY DraftOp, OpFields DEF IndexFile, RemoveFile
  <1> HIDE DEF Goal
  <1>4. ASSUME NEW q \in Paths, EditorOpen(q) \/ EditorChange(q) \/ EditorClose(q)
        PROVE  Goal
    <2>1. PICK n : /\ IsNotice(n) /\ inbox' = Append(inbox, n)
                   /\ Head(n).kind \in {"update", "save", "close"}
      BY <1>4, EditNotices
    <2>2. ~Has(n, "remove", p)
      BY <2>1, RemovesNothing
    <2>3. disk' = disk /\ dirty' = dirty
      BY <1>4 DEF EditorOpen, EditorChange, EditorClose
    <2>4. QED
      BY <1>1, <2>1, <2>2, <2>3
  <1>5. ASSUME NEW q \in Paths, EditorSave(q)
        PROVE  Goal
    <2>1. PICK n : /\ IsNotice(n) /\ inbox' = Append(inbox, n)
                   /\ Head(n).kind \in {"update", "save", "close"}
      BY <1>5, EditNotices
    <2>2. ~Has(n, "remove", p)
      BY <2>1, RemovesNothing
    <2>3. q # p /\ disk'[p] = disk[p] /\ p \notin dirty
      BY <1>0, <1>5 DEF EditorSave
    <2>4. QED
      BY <1>1, <2>1, <2>2, <2>3
  <1>6. ASSUME NEW q \in Paths, FileChange(q)
        PROVE  Goal
    <2>1. q # p /\ disk'[p] = disk[p] /\ p \notin dirty /\ inbox' = inbox
      BY <1>0, <1>6 DEF FileChange
    <2>2. QED
      BY <2>1 DEF Goal, Queued, IndexQueued
  <1>7. ASSUME NEW q \in Paths, ReportFile(q)
        PROVE  Goal
    <2>1. disk' = disk /\ (q # p => p \notin dirty)
      BY <1>7 DEF ReportFile
    <2>2. PICK op : /\ op = IF disk[q] = NoText THEN RemoveFile(q) ELSE IndexFile(q)
                    /\ inbox' = Append(inbox, << op >>)
      BY <1>7 DEF ReportFile
    <2>3. op \in Ops /\ op.doc.path = q /\ (disk[q] # NoText => op.kind = "index")
      BY <1>3, <2>2
    <2>4. CASE q = p
      <3>1. Has(<< op >>, "index", p)
        BY <2>1, <2>3, <2>4, HasOneOrTwo DEF About
      <3>2. QED
        BY <1>2, <2>2, <3>1
    <2>5. CASE q # p
      <3>1. ~Has(<< op >>, "remove", p)
        BY <2>3, <2>5, HasOneOrTwo DEF About
      <3>2. QED
        BY <1>1, <2>1, <2>2, <2>5, <3>1
    <2>6. QED
      BY <2>4, <2>5
  <1>8. ASSUME NEW r \in Roots, EditorAddFolder(r) \/ EditorRemoveFolder(r)
        PROVE  Goal
    <2>1. PICK n : /\ IsNotice(n) /\ inbox' = Append(inbox, n)
                   /\ Head(n).kind \in {"addFolder", "removeFolder"}
      BY <1>8, FolderNotices
    <2>2. ~Has(n, "remove", p)
      BY <2>1, RemovesNothing
    <2>3. disk' = disk /\ dirty' = dirty
      BY <1>8 DEF EditorAddFolder, EditorRemoveFolder
    <2>4. QED
      BY <1>1, <2>1, <2>2, <2>3
  <1>9. ASSUME NEW old \in Paths, NEW new \in Paths, EditorRename(old, new)
        PROVE  Goal
    <2>1. /\ disk' = [disk EXCEPT ![old] = NoText, ![new] = disk[old]]
          /\ dirty' = dirty /\ disk[old] # NoText /\ disk[new] = NoText
          /\ inbox' = Append(inbox, << RemoveFile(old), IndexFile(new) >>)
      BY <1>9 DEF EditorRename, Post, DidRenameFiles
    <2>2. p # old
      BY <1>0, <2>1
    <2>3. CASE p = new
      <3>1. Has(<< RemoveFile(old), IndexFile(new) >>, "index", p)
        BY <1>3, <2>3, HasOneOrTwo DEF About
      <3>2. QED
        BY <1>2, <2>1, <3>1
    <2>4. CASE p # new
      <3>1. ~Has(<< RemoveFile(old), IndexFile(new) >>, "remove", p)
        <4>1. /\ RemoveFile(old) \in Ops /\ IndexFile(new) \in Ops
              /\ ~About(RemoveFile(old), {"remove"}, p)
              /\ ~About(IndexFile(new), {"remove"}, p)
          BY <1>3, <2>2, <2>4 DEF About
        <4>2. QED
          BY <4>1, HasOneOrTwo
      <3>2. disk'[p] = disk[p]
        BY <1>0, <2>1, <2>2, <2>4
      <3>3. QED
        BY <1>1, <2>1, <3>1, <3>2
    <2>5. QED
      BY <2>3, <2>4
  <1>10. Goal
    BY <1>4, <1>5, <1>6, <1>7, <1>8, <1>9 DEF EditorNext
  <1>11. QED
    BY <1>10 DEF Goal

(* The editor's steps leave what it has not opened untouched.              *)
LEMMA UntouchedEditor ==
  ASSUME NEW h \in Handlers, SessionTypes, Untouched(h), EditorNext
  PROVE  Untouched(h)'
  <1>0. /\ EditorOK /\ ServerUnchanged /\ opened \subseteq opened'
        /\ openDocumentMap' = openDocumentMap /\ task' = task
    BY EditorSteps DEF SessionTypes, EditorView, ServerUnchanged, storeVars, handlerVars
  <1> SUFFICES ASSUME NEW p \in Paths \ opened'
               PROVE  /\ ~Open(p)' /\ p \notin openDocumentMap'
                      /\ ~Works(h, EditKinds, p)'
                      /\ \A i \in 1 .. Len(inbox') : ~Touches(inbox'[i], p)
    BY DEF Untouched, Touches
  <1>1. /\ ~Open(p) /\ p \notin openDocumentMap
        /\ ~Works(h, EditKinds, p)
        /\ \A i \in 1 .. Len(inbox) : ~Touches(inbox[i], p)
    BY <1>0 DEF Untouched
  <1>2. p \notin openDocumentMap' /\ ~Works(h, EditKinds, p)'
    BY <1>0, <1>1 DEF Works, Idle, OpOf
  <1>3. ASSUME NEW n, inbox' = Append(inbox, n), ~Touches(n, p)
        PROVE  \A i \in 1 .. Len(inbox') : ~Touches(inbox'[i], p)
    BY <1>0, <1>1, <1>3, PostedIndex
  <1> DEFINE Goal == ~Open(p)' /\ \A i \in 1 .. Len(inbox') : ~Touches(inbox'[i], p)
  <1>4. ASSUME NEW q \in Paths, EditorOpen(q) \/ EditorChange(q) \/ EditorSave(q) \/ EditorClose(q)
        PROVE  Goal
    <2>1. PICK n : inbox' = Append(inbox, n) /\ Head(n).doc.path = q
      BY <1>4, EditNotices
    <2>2. q # p
      <3>1. EditorOpen(q) => q \in opened'
        BY DEF EditorOpen
      <3>2. EditorChange(q) \/ EditorSave(q) \/ EditorClose(q) => Open(q)
        BY DEF EditorChange, EditorSave, EditorClose
      <3>3. QED
        BY <1>1, <1>4, <3>1, <3>2
    <2>3. ~Touches(n, p)
      BY <2>1, <2>2 DEF Touches, About
    <2>4. buffer'[p] = buffer[p]
      BY <1>0, <1>4, <2>2 DEF EditorOpen, EditorChange, EditorSave, EditorClose, EditorOK
    <2>5. QED
      BY <1>1, <1>3, <2>1, <2>3, <2>4 DEF Open
  <1>5. ASSUME NEW q \in Paths, FileChange(q)
        PROVE  Goal
    BY <1>1, <1>5 DEF FileChange, Open
  <1>6. ASSUME NEW n, inbox' = Append(inbox, n), Head(n).kind \notin EditKinds, buffer' = buffer
        PROVE  Goal
    BY <1>1, <1>3, <1>6 DEF Touches, About, Open
  <1>7. ASSUME NEW q \in Paths, ReportFile(q)
        PROVE  Goal
    <2>1. PICK op : /\ op \in {RemoveFile(q), IndexFile(q)}
                    /\ inbox' = Append(inbox, << op >>) /\ buffer' = buffer
      BY <1>7 DEF ReportFile
    <2>2. Head(<< op >>).kind \notin EditKinds
      BY <2>1, FirstOf, OpFields DEF RemoveFile, IndexFile, EditKinds
    <2> HIDE DEF Goal
    <2>3. QED
      BY <1>6, <2>1, <2>2
  <1>8. ASSUME NEW r \in Roots, EditorAddFolder(r) \/ EditorRemoveFolder(r)
        PROVE  Goal
    <2>1. PICK n : inbox' = Append(inbox, n) /\ Head(n).kind \in {"addFolder", "removeFolder"}
      BY <1>8, FolderNotices
    <2>2. buffer' = buffer /\ Head(n).kind \notin EditKinds
      BY <1>8, <2>1 DEF EditorAddFolder, EditorRemoveFolder, EditKinds
    <2> HIDE DEF Goal
    <2>3. QED
      BY <1>6, <2>1, <2>2
  <1>9. ASSUME NEW old \in Paths, NEW new \in Paths, EditorRename(old, new)
        PROVE  Goal
    <2>1. inbox' = Append(inbox, DidRenameFiles(old, new)) /\ buffer' = buffer
      BY <1>9 DEF EditorRename, Post
    <2>2. Head(DidRenameFiles(old, new)).kind \notin EditKinds
      BY FirstOf, OpFields DEF DidRenameFiles, RemoveFile, EditKinds
    <2> HIDE DEF Goal
    <2>3. QED
      BY <1>6, <2>1, <2>2
  <1> HIDE DEF Goal
  <1>10. Goal
    BY <1>4, <1>5, <1>7, <1>8, <1>9 DEF EditorNext
  <1>11. QED
    BY <1>2, <1>10 DEF Goal

(* What waits behind an operation stays or begins.                         *)
LEMMA RestStep ==
  ASSUME Inv, NEW h \in Handlers, Shape(h), Step(h), NEW op \in Ops, Rest(h) = << op >>
  PROVE  ~Idle(h)' /\ (Rest(h)' = << op >> \/ OpOf(h)' = op)
  <1>1. ~Alone(h)
    BY ShortLists DEF Alone
  <1>2. CASE GoesOn(h)
    BY <1>2 DEF GoesOn
  <1>3. CASE Ends(h) /\ ~Idle(h)
    <2>1. ~Idle(h)' /\ << op >> = << OpOf(h)' >>
      BY <1>1, <1>3, EndPasses DEF Passes
    <2>2. Head(<< op >>) = Head(<< OpOf(h)' >>)
      BY <2>1
    <2>3. QED
      BY <2>1, <2>2, FirstOf
  <1>4. CASE CloseDocument(h) \/ AddFolder(h) \/ WalkNext(h)
    BY <1>1, <1>4 DEF CloseDocument, AddFolder, WalkNext, At, Shape
  <1>5. QED
    BY <1>2, <1>3, <1>4, ContinuersGoOn, FinishersEnd DEF Step

(* No step turns to the removal of a file.                                 *)
LEMMA NoRemovalBegins ==
  ASSUME Inv, NEW h \in Handlers, Shape(h), Step(h), NEW p, ~Works(h, {"remove"}, p)
  PROVE  ~Works(h, {"remove"}, p)'
  <1>1. CASE GoesOn(h) /\ ~Idle(h)
    BY <1>1 DEF GoesOn, Works, About, Doc
  <1>2. CASE Ends(h) /\ ~Idle(h)
    BY <1>2, EndPasses DEF Passes, Works, About
  <1>3. CASE CloseDocument(h)
    <2>1. Alone(h)
      BY <1>3 DEF CloseDocument, At, Shape
    <2>2. OpOf(h)'.kind \in {"restore", "clear"}
      BY <1>3, <2>1, CloseLeaves DEF RestoresNext, ClearsNext
    <2>3. QED
      BY <2>2 DEF Works, About
  <1>4. CASE AddFolder(h) \/ WalkNext(h)
    <2>1. Alone(h)
      BY <1>4 DEF AddFolder, WalkNext, At, Shape
    <2>2. OpOf(h)'.kind \in {"walk", "index"}
      BY <1>4, <2>1, AddLeaves, WalkLeaves
    <2>3. QED
      BY <2>2 DEF Works, About
  <1>5. QED
    BY <1>1, <1>2, <1>3, <1>4, ContinuersGoOn, FinishersEnd DEF Step

(* The handler leaves what the editor has not opened untouched.            *)
LEMMA UntouchedStep ==
  ASSUME NEW h \in Handlers, SessionTypes, HandlerOK(h), Untouched(h), Handle(h)
  PROVE  Untouched(h)'
  <1>0. Inv /\ Shape(h) /\ Steady(h) /\ Step(h) /\ UNCHANGED << buffer, opened, inbox >>
    BY DEF SessionTypes, HandlerOK, Handle, editorVars
  <1> SUFFICES ASSUME NEW p \in Paths \ opened
               PROVE  p \notin openDocumentMap' /\ ~Works(h, EditKinds, p)'
    BY <1>0 DEF Untouched, Open, Touches
  <1>1. p \notin openDocumentMap /\ ~Works(h, EditKinds, p)
    BY DEF Untouched
  <1>2. ~Works(h, EditKinds, p)'
    BY <1>0, <1>1, StaysElsewhere
  <1>3. p \notin openDocumentMap'
    <2>1. CASE InstallStep(h) /\ "open" \in Doc(h).origin
      <3>1. /\ ~Idle(h) /\ task[h].pc \in {"recheck", "install"}
            /\ Doc(h).origin # {"workspace"}
        BY <2>1 DEF InstallStep, Writing
      <3>2. ~Indexing(h)
        BY <1>0, <3>1 DEF Steady
      <3>3. Updates(h)
        BY <1>0, <3>1, <3>2, BusyAt, AtFacts DEF Indexing, Updates, Inv
      <3>4. Doc(h).path # p
        BY <1>1, <3>3 DEF Updates, Works, About, Doc, EditKinds
      <3>5. openDocumentMap' \subseteq openDocumentMap \cup {Doc(h).path}
        BY <1>0, OpenFrom
      <3>6. QED
        BY <1>1, <3>4, <3>5
    <2>2. CASE ~(InstallStep(h) /\ "open" \in Doc(h).origin)
      <3>1. openDocumentMap' \subseteq openDocumentMap
        BY <1>0, <2>2, OpenFrom
      <3>2. QED
        BY <1>1, <3>1
    <2>3. QED
      BY <2>1, <2>2
  <1>4. QED
    BY <1>2, <1>3

(* Only the steps for folders change the recorded ones, and none the disk. *)
LEMMA FoldersFrom ==
  ASSUME NEW h \in Handlers, Step(h)
  PROVE  /\ disk' = disk
         /\ workspaceRootMap' = workspaceRootMap \/ AddFolder(h) \/ RemoveFolder(h)
  BY DEF Step, LoadSaveVersion, ReserveUpdate, InstallUpdate, InstallRejected,
     BeginPublish, SkipPublish, SendDiagnostics, CloseDocument, ClearDiagnostics,
     SkipIndex, StartIndex, ReadFile, ReadFileFails, ForgetLostFile, StoreReserve,
     StoreRecheck, StoreAbandoned, InstallIndexed, RemoveWorkspaceFile, AddFolder,
     AddFolderFails, WalkNext, WalkDone, RemoveFolder, Quiet

(* What a handler alone with its operation has to index.                   *)
LEMMA AloneToIndex ==
  ASSUME NEW h \in Handlers, Alone(h), NEW p
  PROVE  ToIndex(h, p) => Works(h, {"index"}, p) \/ (~Idle(h) /\ WalksTo(OpOf(h), p))
  <1>1. \A op \in Ops : Rest(h) # << op >>
    BY ShortLists DEF Alone
  <1>2. QED
    BY <1>1 DEF ToIndex, Mine, Has, Works, OpOf, Rest

(* The handler indexes what it has to, and keeps the rest for later.       *)
LEMMA FilesStep ==
  ASSUME NEW h \in Handlers, SessionTypes, HandlerOK(h), Untouched(h), FilesOK(h), Handle(h)
  PROVE  FilesOK(h)'
  <1>0. /\ Inv /\ StoreOK /\ Shape(h) /\ Steady(h) /\ Indexed /\ Step(h) /\ ~Idle(h)
        /\ UNCHANGED << dirty, opened, inbox, disk >>
    BY ByKind, InvParts, FoldersFrom DEF SessionTypes, HandlerOK, Handle, editorVars, Inv
  <1> SUFFICES ASSUME NEW p \in Paths \ opened, Listable(p)', p \notin dirty, ~IndexQueued(p)
               PROVE  ToIndex(h, p)' \/ (p \in workspaceFileMap' /\ ~Works(h, {"remove"}, p)')
    BY <1>0 DEF FilesOK, IndexQueued, Has
  <1>1. disk[p] # NoText /\ p \notin openDocumentMap /\ ~Works(h, EditKinds, p)
    BY <1>0 DEF Listable, Untouched
  <1>2. Listable(p) => ToIndex(h, p) \/ (p \in workspaceFileMap /\ ~Works(h, {"remove"}, p))
    BY DEF FilesOK
  <1>3. ~Works(h, {"remove"}, p) => ~Works(h, {"remove"}, p)'
    BY <1>0, NoRemovalBegins
  <1>4. Works(h, {"index"}, p)' => ToIndex(h, p)'
    BY DEF Works, ToIndex, Mine, Has, OpOf
  <1>5. \A r \in Roots : p \in Walked[r] => p \in Inside[r] /\ p \in SQLFiles
    BY WalkAssumption
  <1>6. CASE AddFolder(h)
    <2>1. Alone(h) /\ ~Works(h, {"remove"}, p) /\ ~Works(h, {"index"}, p) /\ ~WalksTo(OpOf(h), p)
      BY <1>0, <1>6 DEF AddFolder, At, Shape, Works, About, WalksTo
    <2>2. ~Idle(h)' /\ OpOf(h)'.kind = "walk" /\ OpOf(h)'.paths = Listing(OpOf(h).root)
      BY <1>0, <1>6, <2>1, AddLeaves
    <2>3. CASE p \in Walked[OpOf(h).root]
      <3>1. p \in Listing(OpOf(h).root)
        BY <1>1, <2>3 DEF Listing
      <3>2. QED
        BY <2>2, <3>1 DEF ToIndex, WalksTo
    <2>4. CASE p \notin Walked[OpOf(h).root]
      <3>1. Listable(p)
        BY <1>0, <1>6, <2>4 DEF AddFolder, Listable
      <3>2. p \in workspaceFileMap
        BY <1>2, <2>1, <3>1, AloneToIndex
      <3>3. workspaceFileMap' = workspaceFileMap
        BY <1>6 DEF AddFolder, storeVars
      <3>4. QED
        BY <1>3, <2>1, <3>2, <3>3
    <2>5. QED
      BY <2>3, <2>4
  <1>7. CASE RemoveFolder(h)
    <2>1. Alone(h) /\ ~Works(h, {"remove"}, p) /\ ~Works(h, {"index"}, p) /\ ~WalksTo(OpOf(h), p)
      BY <1>0, <1>7 DEF RemoveFolder, At, Shape, Works, About, WalksTo
    <2> DEFINE gone == {q \in workspaceFileMap : ~PathInWorkspace(q, workspaceRootMap')}
    <2>2. LeaveWorkspace(gone) /\ workspaceRootMap' \subseteq workspaceRootMap
      BY <1>7 DEF RemoveFolder
    <2>3. Listable(p) /\ PathInWorkspace(p, workspaceRootMap')
      <3>1. PICK r \in workspaceRootMap' : p \in Walked[r]
        BY DEF Listable
      <3>2. r \in workspaceRootMap /\ r \in Roots
        BY <1>0, <2>2, <3>1 DEF Inv, TypeOK
      <3>3. QED
        BY <1>1, <1>5, <3>1, <3>2 DEF Listable, PathInWorkspace
    <2>4. p \in workspaceFileMap /\ p \notin gone
      BY <1>2, <2>1, <2>3, AloneToIndex
    <2> HIDE DEF gone
    <2>5. p \in workspaceFileMap'
      BY <1>0, <2>2, <2>4, LeavingPath
    <2>6. QED
      BY <1>3, <2>1, <2>5
  <1>8. ASSUME ~AddFolder(h), ~RemoveFolder(h)
        PROVE  /\ Listable(p)
               /\ ToIndex(h, p) \/ (p \in workspaceFileMap /\ ~Works(h, {"remove"}, p))
    <2>1. workspaceRootMap' = workspaceRootMap
      BY <1>0, <1>8, FoldersFrom
    <2>2. Listable(p)
      BY <1>0, <2>1 DEF Listable
    <2>3. QED
      BY <1>2, <2>2
  <1>9. CASE Works(h, {"index"}, p)
    <2>1. /\ OpOf(h).kind = "index" /\ Doc(h).path = p /\ Indexing(h) /\ ~Updates(h)
          /\ ~AddFolder(h) /\ ~RemoveFolder(h) /\ ~Works(h, {"remove"}, p)
      BY <1>0, <1>9 DEF Works, About, Doc, Indexing, Updates, AddFolder, RemoveFolder, At
    <2>2. p \in SQLFiles
      <3>1. PICK r \in workspaceRootMap : p \in Walked[r]
        BY <1>8, <2>1 DEF Listable
      <3>2. r \in Roots
        BY <1>0, <3>1 DEF Inv, TypeOK
      <3>3. QED
        BY <1>5, <3>1, <3>2
    <2>3. CASE StartIndex(h) \/ ReadFile(h) \/ StoreReserve(h) \/ StoreRecheck(h)
      <3>1. GoesOn(h)
        BY <1>0, <2>3, ContinuersGoOn
      <3>2. QED
        BY <1>4, <2>1, <3>1 DEF GoesOn, Works, About, Doc
    <2>4. CASE InstallIndexed(h)
      BY <1>0, <1>3, <2>1, <2>4, IndexedPath
    <2>5. ~SkipIndex(h) /\ ~ReadFileFails(h)
      BY <1>1, <2>1, <2>2 DEF SkipIndex, ReadFileFails
    <2>6. QED
      BY <1>0, <2>1, <2>3, <2>4, <2>5, ByKind, NeverOvertaken
  <1>10. CASE WalkNext(h) \/ WalkDone(h)
    <2>1. /\ OpOf(h).kind = "walk" /\ Alone(h) /\ ~AddFolder(h) /\ ~RemoveFolder(h)
          /\ ~Works(h, {"remove"}, p) /\ ~Works(h, {"index"}, p)
      BY <1>0, <1>10 DEF WalkNext, WalkDone, At, Shape, Works, About, AddFolder, RemoveFolder
    <2>2. workspaceFileMap' = workspaceFileMap
      BY <1>10 DEF WalkNext, WalkDone, storeVars
    <2>3. CASE WalkNext(h) /\ p \in OpOf(h).paths
      <3>1. /\ ~Idle(h)' /\ OpOf(h)'.kind = "index"
            /\ \E op \in Ops : /\ op.kind = "walk"
                               /\ op.paths = OpOf(h).paths \ {Doc(h)'.path}
                               /\ Rest(h)' = << op >>
        BY <1>0, <2>1, <2>3, WalkLeaves
      <3>2. CASE Doc(h)'.path = p
        BY <1>4, <3>1, <3>2 DEF Works, About, Doc
      <3>3. CASE Doc(h)'.path # p
        BY <2>3, <3>1, <3>3 DEF ToIndex, WalksTo
      <3>4. QED
        BY <3>2, <3>3
    <2>4. CASE p \notin OpOf(h).paths
      <3>1. p \in workspaceFileMap
        BY <1>8, <2>1, <2>4, AloneToIndex DEF WalksTo
      <3>2. QED
        BY <1>3, <2>1, <2>2, <3>1
    <2>5. QED
      BY <1>10, <2>3, <2>4 DEF WalkDone
  <1>11. CASE /\ ~AddFolder(h) /\ ~RemoveFolder(h) /\ ~Works(h, {"index"}, p)
              /\ ~WalkNext(h) /\ ~WalkDone(h)
    <2>1. CASE Mine(h, "index", p)
      BY <1>0, <1>11, <2>1, MineStep DEF ToIndex
    <2>2. ~(~Idle(h) /\ WalksTo(OpOf(h), p))
      BY <1>0, <1>11, ByKind DEF WalksTo
    <2>3. ASSUME NEW op \in Ops, WalksTo(op, p), Rest(h) = << op >>
          PROVE  ToIndex(h, p)'
      <3>1. ~Idle(h)' /\ (Rest(h)' = << op >> \/ OpOf(h)' = op)
        BY <1>0, <2>3, RestStep
      <3>2. QED
        BY <2>3, <3>1 DEF ToIndex, WalksTo
    <2>4. CASE p \in workspaceFileMap /\ ~Works(h, {"remove"}, p)
      <3>1. SameAt(p)
        BY <1>0, <1>1, <1>11, <2>4, Elsewhere DEF Works, About, EditKinds
      <3>2. QED
        BY <1>3, <2>4, <3>1 DEF SameAt
    <2>5. QED
      BY <1>8, <1>11, <2>1, <2>2, <2>3, <2>4 DEF ToIndex
  <1>12. QED
    BY <1>6, <1>7, <1>9, <1>10, <1>11

(* The editor's steps: a file that changes is reported, and the report is  *)
(* the last one.                                                           *)
LEMMA FilesEditor ==
  ASSUME NEW h \in Handlers, FilesInv(h), EditorNext
  PROVE  Untouched(h)' /\ ReportsLast' /\ FilesOK(h)'
  <1>0. /\ SessionTypes /\ Untouched(h) /\ ServerUnchanged /\ opened \subseteq opened'
        /\ task' = task /\ UNCHANGED << workspaceFileMap, workspaceRootMap >>
    BY EditorSteps DEF FilesInv, BufferInv, EditorView, ServerUnchanged, storeVars, handlerVars
  <1>1. Untouched(h)'
    BY <1>0, UntouchedEditor
  <1>2. ASSUME NEW p \in Paths, p \notin dirty', disk'[p] # NoText, ~IndexQueued(p)'
        PROVE  /\ disk'[p] = disk[p] /\ p \notin dirty /\ ~IndexQueued(p)
               /\ Queued("remove", p)' => Queued("remove", p)
    BY <1>0, <1>2, EditorReports
  <1>3. ReportsLast'
    BY <1>2 DEF FilesInv, ReportsLast
  <1>4. ASSUME NEW p \in Paths \ opened', Listable(p)', p \notin dirty', ~IndexQueued(p)'
        PROVE  ToIndex(h, p)' \/ (p \in workspaceFileMap' /\ ~Works(h, {"remove"}, p)')
    <2>1. Listable(p) /\ p \notin dirty /\ ~IndexQueued(p)
      BY <1>0, <1>2, <1>4 DEF Listable
    <2>2. ToIndex(h, p) \/ (p \in workspaceFileMap /\ ~Works(h, {"remove"}, p))
      BY <1>0, <1>4, <2>1 DEF FilesInv, FilesOK
    <2>3. QED
      BY <1>0, <2>2 DEF ToIndex, Mine, Works, Idle, OpOf, Rest
  <1>5. QED
    BY <1>1, <1>3, <1>4 DEF FilesOK

(* The handler receives a notice: a removal that says nothing new is       *)
(* followed by the report that does.                                       *)
LEMMA FilesReceive ==
  ASSUME NEW h \in Handlers, FilesInv(h), Receive(h)
  PROVE  Untouched(h)' /\ ReportsLast' /\ FilesOK(h)'
  <1> DEFINE n == Head(inbox)
  <1>0. /\ SessionTypes /\ InboxOK /\ EditorOK /\ Untouched(h) /\ ReportsLast /\ FilesOK(h)
    BY DEF FilesInv, BufferInv, SessionTypes, QueueOK
  <1>1. /\ ~Idle(h)' /\ Idle(h) /\ OpOf(h)' = Head(n)
        /\ inbox # << >> /\ inbox' = Tail(inbox)
        /\ UNCHANGED << storeVars, disk, buffer, opened, dirty, workspaceRootMap >>
    BY <1>0, Received
  <1>2. /\ \A kind, p : Has(n, kind, p) => Mine(h, kind, p)'
        /\ \A kind, p : Queued(kind, p) <=> Queued(kind, p)' \/ Has(n, kind, p)
    BY <1>0, ReceivedMine
  <1>3. \A p : /\ IndexQueued(p) =>
                    IndexQueued(p)' \/ (Has(n, "index", p) /\ ~Queued("remove", p)')
               /\ (\A i \in 1 .. Len(inbox) : ~Touches(inbox[i], p)) =>
                    /\ ~Touches(n, p)
                    /\ \A i \in 1 .. Len(inbox') : ~Touches(inbox'[i], p)
    BY <1>0, <1>1, TakenIndex
  <1> HIDE DEF n
  <1>4. Untouched(h)'
    <2>1. ASSUME NEW p \in Paths \ opened
          PROVE  /\ ~Open(p)' /\ p \notin openDocumentMap'
                 /\ ~Works(h, EditKinds, p)'
                 /\ \A i \in 1 .. Len(inbox') : ~Touches(inbox'[i], p)
      <3>1. ~Open(p)' /\ p \notin openDocumentMap'
        BY <1>0, <1>1 DEF Untouched, Open, storeVars
      <3>2. ~Touches(n, p) /\ \A i \in 1 .. Len(inbox') : ~Touches(inbox'[i], p)
        BY <1>0, <1>3 DEF Untouched
      <3>3. ~Works(h, EditKinds, p)'
        BY <1>1, <3>2 DEF Touches, Works, About
      <3>4. QED
        BY <3>1, <3>2, <3>3
    <2>2. QED
      BY <1>1, <2>1 DEF Untouched, Touches
  <1>5. ReportsLast'
    <2>1. SUFFICES ASSUME NEW p \in Paths, p \notin dirty, disk[p] # NoText,
                          Queued("remove", p)'
                   PROVE  IndexQueued(p)'
      BY <1>1 DEF ReportsLast
    <2>2. IndexQueued(p)
      BY <1>0, <1>2, <2>1 DEF ReportsLast
    <2>3. QED
      BY <1>3, <2>1, <2>2
  <1>6. ASSUME NEW p \in Paths \ opened, Listable(p), p \notin dirty, ~IndexQueued(p)'
        PROVE  ToIndex(h, p)' \/ (p \in workspaceFileMap' /\ ~Works(h, {"remove"}, p)')
    <2>1. CASE IndexQueued(p)
      <3>1. Has(n, "index", p)
        BY <1>3, <1>6, <2>1
      <3>2. QED
        BY <1>2, <3>1 DEF ToIndex
    <2>2. CASE ~IndexQueued(p)
      <3>1. p \in workspaceFileMap
        BY <1>0, <1>1, <1>6, <2>2 DEF FilesOK, ToIndex, Mine
      <3>2. ~Queued("remove", p)
        BY <1>0, <1>6, <2>2 DEF ReportsLast, Listable
      <3>3. ~Has(n, "remove", p)
        BY <1>2, <3>2
      <3>4. ~Works(h, {"remove"}, p)'
        BY <1>1, <3>3 DEF Has, Works, About
      <3>5. QED
        BY <1>1, <3>1, <3>4 DEF storeVars
    <2>3. QED
      BY <2>1, <2>2
  <1>7. FilesOK(h)'
    BY <1>1, <1>6 DEF FilesOK, Listable
  <1>8. QED
    BY <1>4, <1>5, <1>7

(* Every step of a session with one handler keeps the files indexed, or    *)
(* about to be.                                                            *)
LEMMA FilesNext ==
  ASSUME NEW h, Handlers = {h}, FilesInv(h), [SessionNext]_sessionVars
  PROVE  FilesInv(h)'
  <1>0. /\ h \in Handlers /\ BufferInv(h) /\ SessionTypes /\ HandlerOK(h)
        /\ Untouched(h) /\ ReportsLast /\ FilesOK(h)
    BY DEF FilesInv, BufferInv
  <1>1. BufferInv(h)'
    BY <1>0, BufferNext
  <1>2. CASE EditorNext
    BY <1>0, <1>1, <1>2, FilesEditor DEF FilesInv
  <1>3. CASE Receive(h)
    BY <1>0, <1>1, <1>3, FilesReceive DEF FilesInv
  <1>4. CASE Handle(h)
    <2>1. disk' = disk /\ dirty' = dirty /\ inbox' = inbox
      BY <1>0, <1>4, FoldersFrom DEF Handle, editorVars
    <2>2. ReportsLast'
      BY <1>0, <2>1 DEF ReportsLast, Queued, IndexQueued
    <2>3. Untouched(h)' /\ FilesOK(h)'
      BY <1>0, <1>4, UntouchedStep, FilesStep
    <2>4. QED
      BY <1>1, <2>2, <2>3 DEF FilesInv
  <1>5. CASE UNCHANGED sessionVars
    <2>1. /\ UNCHANGED << task, disk, dirty, inbox, buffer, opened, workspaceRootMap >>
          /\ UNCHANGED << openDocumentMap, workspaceFileMap >>
      BY <1>5 DEF sessionVars, vars, editorVars, storeVars, handlerVars
    <2>2. Untouched(h)'
      BY <1>0, <2>1 DEF Untouched, Open, Works, Idle, OpOf, Touches
    <2>3. ReportsLast'
      BY <1>0, <2>1 DEF ReportsLast, Queued, IndexQueued
    <2>4. FilesOK(h)'
      BY <1>0, <2>1 DEF FilesOK, Listable, IndexQueued, ToIndex, Mine, Works, Idle, OpOf, Rest
    <2>5. QED
      BY <1>1, <2>2, <2>3, <2>4 DEF FilesInv
  <1>6. QED
    BY <1>2, <1>3, <1>4, <1>5, Handlers = {h} DEF SessionNext, AwaitInput

(* When all is handled every SQL file of a recorded folder that the editor *)
(* never opened is indexed, however the walks, the reports and the removal *)
(* of folders were interleaved with the changes of the disk.               *)
THEOREM FilesAreIndexed ==
  ASSUME NEW h, Handlers = {h}
  PROVE  SessionSpec => []UntouchedFilesIndexed
  <1>1. SessionInit => FilesInv(h)
    <2>1. SUFFICES ASSUME SessionInit PROVE FilesInv(h)
      OBVIOUS
    <2>2. BufferInv(h) /\ h \in Handlers
      BY <2>1, BufferInit
    <2>3. /\ Idle(h) /\ openDocumentMap = {} /\ workspaceRootMap = {}
          /\ \A p \in Paths : ~Open(p)
      BY <2>1, <2>2 DEF SessionInit, Init, StoreInit, Idle, Open
    <2>4. Len(inbox) = 0 /\ 1 .. 0 = {}
      BY <2>1, SMT DEF SessionInit
    <2>5. Untouched(h) /\ ReportsLast /\ FilesOK(h)
      BY <2>3, <2>4 DEF Untouched, Works, ReportsLast, Queued, FilesOK, Listable
    <2>6. QED
      BY <2>2, <2>5 DEF FilesInv
  <1>2. FilesInv(h) /\ [SessionNext]_sessionVars => FilesInv(h)'
    BY FilesNext
  <1>3. FilesInv(h) => UntouchedFilesIndexed
    <2>1. SUFFICES ASSUME FilesInv(h), Quiescent, NEW p \in Paths \ opened, Listable(p)
                   PROVE  p \in workspaceFileMap
      BY DEF UntouchedFilesIndexed
    <2>2. Idle(h) /\ dirty = {} /\ inbox = << >>
      BY <2>1, Handlers = {h} DEF Quiescent
    <2>3. Len(inbox) = 0 /\ 1 .. 0 = {}
      BY <2>2, SMT
    <2>4. ~IndexQueued(p) /\ ~ToIndex(h, p)
      BY <2>2, <2>3 DEF IndexQueued, ToIndex, Mine
    <2>5. QED
      BY <2>1, <2>2, <2>4 DEF FilesInv, FilesOK
  <1>4. QED
    BY <1>1, <1>2, <1>3, PTL DEF SessionSpec
=============================================================================
