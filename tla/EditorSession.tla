---------------------------- MODULE EditorSession ----------------------------
(***************************************************************************)
(* A session of one editor with the server: the editor opens, changes,     *)
(* saves and closes documents, adds and removes workspace folders, and     *)
(* reports the changes of files; its notifications reach the handlers of   *)
(* SyncHandlers through the connection, in order.  With one handler this   *)
(* is the program as main.go runs it.                                      *)
(*                                                                         *)
(* The editor is external.  It keeps the protocol: it opens what is closed,*)
(* changes and closes what is open, and numbers the versions of a document *)
(* upwards.  It reports a changed file some time after the change, by what *)
(* it then finds on disk.                                                  *)
(***************************************************************************)
EXTENDS SyncHandlers, FiniteSets

CONSTANTS
  Closed,    (* The buffer of a path that is not open.          *)
  MaxVersion (* Bound on the versions of a document the editor makes. *)

VARIABLES
  buffer,  (* path -> what the editor shows: [text, version], or Closed    *)
  opened,  (* the paths the editor has opened so far                       *)
  folders, (* the editor's workspace folders                               *)
  dirty,   (* the files that changed on disk and were not reported yet     *)
  inbox    (* the notifications on their way, oldest first                 *)

editorVars == << buffer, opened, folders, dirty, inbox >>
sessionVars == << vars, editorVars >>

Buffers == [text : Texts, version : Nat]

ASSUME BufferAssumption == Closed \notin Buffers

EditorTypeOK ==
  /\ TypeOK
  /\ buffer \in [Paths -> Buffers \cup {Closed}]
  /\ opened \in SUBSET Paths
  /\ folders \in SUBSET Roots
  /\ dirty \in SUBSET Paths
  /\ inbox \in Seq(Seq(Ops))

SessionInit ==
  /\ Init
  /\ buffer = [p \in Paths |-> Closed]
  /\ opened = {}
  /\ folders = {}
  /\ dirty = {}
  /\ inbox = << >>

Open(p) == buffer[p] # Closed

\* MaxDeliveries bounds the notifications of a session, a change of a file
\* counting as the report it calls for.
CanPost(reports) ==
  delivered + Len(inbox) + Cardinality(dirty \cup reports) < MaxDeliveries

Post(ops) ==
  /\ CanPost({})
  /\ inbox' = Append(inbox, ops)

ServerUnchanged == UNCHANGED << storeVars, handlerVars >>

------------------------------------------------------------------------------
\* A file is opened with its content; a new one with any.
EditorOpen(p) ==
  /\ ~Open(p)
  /\ \E t \in Texts :
       /\ disk[p] \in {t, NoText}
       /\ buffer' = [buffer EXCEPT ![p] = [text |-> t, version |-> 1]]
       /\ Post(DidOpen(p, t, 1))
  /\ opened' = opened \cup {p}
  /\ UNCHANGED << folders, dirty, disk >>
  /\ ServerUnchanged

EditorChange(p) ==
  /\ Open(p) /\ buffer[p].version < MaxVersion
  /\ \E t \in Texts \ {buffer[p].text} :
       /\ buffer' = [buffer EXCEPT ![p] = [text |-> t, version |-> @.version + 1]]
       /\ Post(DidChange(p, t, buffer[p].version + 1))
  /\ UNCHANGED << opened, folders, dirty, disk >>
  /\ ServerUnchanged

EditorSave(p) ==
  /\ Open(p) /\ disk[p] # buffer[p].text
  /\ CanPost({p})
  /\ disk' = [disk EXCEPT ![p] = buffer[p].text]
  /\ dirty' = dirty \cup {p}
  /\ Post(DidSave(p, buffer[p].text))
  /\ UNCHANGED << buffer, opened, folders >>
  /\ ServerUnchanged

EditorClose(p) ==
  /\ Open(p)
  /\ buffer' = [buffer EXCEPT ![p] = Closed]
  /\ Post(DidClose(p))
  /\ UNCHANGED << opened, folders, dirty, disk >>
  /\ ServerUnchanged

\* The folders of Initialize are added before anything else is sent.
EditorAddFolder(r) ==
  /\ r \notin folders
  /\ folders' = folders \cup {r}
  /\ Post(<< Folder("addFolder", r) >>)
  /\ UNCHANGED << buffer, opened, dirty, disk >>
  /\ ServerUnchanged

EditorRemoveFolder(r) ==
  /\ r \in folders
  /\ folders' = folders \ {r}
  /\ Post(<< Folder("removeFolder", r) >>)
  /\ UNCHANGED << buffer, opened, dirty, disk >>
  /\ ServerUnchanged

\* The user renames a closed file in the editor.
EditorRename(old, new) ==
  /\ disk[old] # NoText /\ disk[new] = NoText
  /\ ~Open(old) /\ ~Open(new)
  /\ disk' = [disk EXCEPT ![old] = NoText, ![new] = disk[old]]
  /\ Post(DidRenameFiles(old, new))
  /\ UNCHANGED << buffer, opened, folders, dirty >>
  /\ ServerUnchanged

\* Another program writes, creates or deletes a file.
FileChange(p) ==
  /\ CanPost({p})
  /\ \E content \in (Texts \cup {NoText}) \ {disk[p]} :
       disk' = [disk EXCEPT ![p] = content]
  /\ dirty' = dirty \cup {p}
  /\ UNCHANGED << buffer, opened, folders, inbox >>
  /\ ServerUnchanged

\* DidChangeWatchedFiles, DidCreateFiles or DidDeleteFiles.
ReportFile(p) ==
  /\ p \in dirty
  /\ dirty' = dirty \ {p}
  /\ inbox' = Append(inbox,
       << IF disk[p] = NoText THEN RemoveFile(p) ELSE IndexFile(p) >>)
  /\ UNCHANGED << buffer, opened, folders, disk >>
  /\ ServerUnchanged

\* The dispatcher hands the oldest notification to a free handler.
Receive(h) ==
  /\ inbox # << >>
  /\ Begin(h, Head(inbox))
  /\ inbox' = Tail(inbox)
  /\ UNCHANGED << storeVars, workspaceRootMap, diagnosticPublishMu, disk, shown,
                  buffer, opened, folders, dirty >>

Handle(h) == Step(h) /\ UNCHANGED editorVars

EditorNext ==
  \/ \E p \in Paths : \/ EditorOpen(p) \/ EditorChange(p) \/ EditorSave(p)
                      \/ EditorClose(p) \/ FileChange(p) \/ ReportFile(p)
  \/ \E r \in Roots : EditorAddFolder(r) \/ EditorRemoveFolder(r)
  \/ \E p, q \in Paths : EditorRename(p, q)

\* Nothing is under way; the editor may have nothing more to say.
Quiescent ==
  /\ inbox = << >>
  /\ dirty = {}
  /\ \A h \in Handlers : Idle(h)

AwaitInput == Quiescent /\ UNCHANGED sessionVars

SessionNext ==
  \/ EditorNext
  \/ \E h \in Handlers : Receive(h) \/ Handle(h)
  \/ AwaitInput

SessionSpec == SessionInit /\ [][SessionNext]_sessionVars

\* The server reads and handles what arrives; the editor owes it nothing.
SessionFairness == \A h \in Handlers : WF_sessionVars(Receive(h) \/ Handle(h))

FairSession == SessionSpec /\ SessionFairness

------------------------------------------------------------------------------
(* When all is handled the server has of every open document the text and  *)
(* the version the editor has, and regards it as open.                     *)
OpenBuffersStored == Quiescent =>
  \A p \in Paths : Open(p) =>
    /\ Stored(p)
    /\ documents[p].text = buffer[p].text
    /\ documents[p].version = buffer[p].version
    /\ "open" \in documents[p].origin

(* When all is handled the diagnostics the client last received for a path *)
(* are those of the text and version in its buffer, and none if it is      *)
(* closed, whatever opens, saves, closes, reads of the disk and file       *)
(* events came between.                                                    *)
ShownOf(p) == [text |-> shown[p].text, version |-> shown[p].version]

DiagnosticsMatchBuffers == Quiescent =>
  \A p \in Paths :
    IF Open(p) THEN ShownOf(p) = buffer[p] ELSE shown[p].text = NoText

(* When all is handled, what the store has of a closed document is the     *)
(* content of its file: no text of an abandoned buffer, of a deleted file  *)
(* or of an older state of the disk is left for the other features to use. *)
ClosedDocumentsMatchDisk == Quiescent =>
  \A p \in Paths : ~Open(p) /\ Stored(p) =>
    /\ documents[p].text = disk[p]
    /\ documents[p].origin = {"workspace"}

(* When all is handled, every SQL file of a recorded workspace folder that *)
(* the editor never opened is indexed, however walks, file events, renames *)
(* and the removal of an overlapping folder were interleaved with changes  *)
(* of the disk.                                                            *)
Listable(p) == disk[p] # NoText /\ \E r \in workspaceRootMap : p \in Walked[r]

UntouchedFilesIndexed == Quiescent =>
  \A p \in Paths \ opened : Listable(p) => p \in workspaceFileMap

(* Every edit is answered: a buffer's diagnostics arrive unless it changes *)
(* or closes first.                                                        *)
EditsAreDiagnosed ==
  \A p \in Paths, t \in Texts, v \in Versions :
    LET b == [text |-> t, version |-> v]
    IN  (buffer[p] = b) ~> (buffer[p] # b \/ ShownOf(p) = b)

------------------------------------------------------------------------------
(* What the repository says and the code does not do.                      *)

(* TODO.md:40, "Workspace file events: update the index when SQL files are *)
(* created, changed, renamed, or deleted", and :38-39 for folders: once    *)
(* all is handled, a closed SQL file of a recorded folder is indexed.      *)
ClosedFilesIndexed == Quiescent =>
  \A p \in Paths : ~Open(p) /\ Listable(p) => p \in workspaceFileMap

(* TODO.md:55, "only .sql and .memefish files under file-scheme workspace  *)
(* folders are indexed": once all is handled, an indexed file is below a   *)
(* workspace folder of the editor.                                         *)
OnlyWorkspaceFilesIndexed == Quiescent =>
  \A p \in workspaceFileMap : \E r \in folders : p \in Inside[r]
==============================================================================
