---------------------------- MODULE DocumentStore ----------------------------
(***************************************************************************)
(* The server's document store: the six maps that fileContentMu guards and *)
(* the critical sections that change them (src/document_store.go).  An     *)
(* operator that primes the maps stands for one critical section, or for   *)
(* the part of one that a ...Locked helper performs; the handlers of       *)
(* SyncHandlers.tla call them.                                             *)
(*                                                                         *)
(* What the parser derives from a text (statements, facts, indexes) is a   *)
(* function of the text, so a text stands for it: parsedMap holds the text *)
(* whose statements it keeps.  The code compares snapshots by pointer; a   *)
(* revision of a path is given to one snapshot only, so equal records are  *)
(* the same snapshot.                                                      *)
(***************************************************************************)
EXTENDS Naturals

CONSTANTS
  Paths,      (* The file paths of the documents.                      *)
  Texts,      (* The contents a document or a file may have.           *)
  NoText,     (* The content of a file, or map entry, that is missing. *)
  NoSnapshot  (* documents[path] == nil.                               *)

VARIABLES
  documents,         (* path -> the stored snapshot, or NoSnapshot      *)
  documentRevisions, (* path -> the newest revision handed out          *)
  fileToContentMap,  (* path -> the stored text, or NoText              *)
  parsedMap,         (* path -> the text of the stored statements       *)
  openDocumentMap,   (* the paths recorded as open in the editor        *)
  workspaceFileMap   (* the paths recorded as indexed workspace files   *)

storeVars == << documents, documentRevisions, fileToContentMap, parsedMap,
                openDocumentMap, workspaceFileMap >>

Origins == {"open", "workspace"}

SnapshotsOf(texts) == [path : Paths, text : texts, version : Nat,
                       revision : Nat, origin : SUBSET Origins]

\* What is stored; and what a handler has of a snapshot it is still making.
Snapshots == SnapshotsOf(Texts)
Drafts == SnapshotsOf(Texts \cup {NoText})

ASSUME StoreAssumption == NoText \notin Texts /\ NoSnapshot \notin Snapshots

StoreTypeOK ==
  /\ documents \in [Paths -> Snapshots \cup {NoSnapshot}]
  /\ documentRevisions \in [Paths -> Nat]
  /\ fileToContentMap \in [Paths -> Texts \cup {NoText}]
  /\ parsedMap \in [Paths -> Texts \cup {NoText}]
  /\ openDocumentMap \in SUBSET Paths
  /\ workspaceFileMap \in SUBSET Paths

StoreInit ==
  /\ documents = [p \in Paths |-> NoSnapshot]
  /\ documentRevisions = [p \in Paths |-> 0]
  /\ fileToContentMap = [p \in Paths |-> NoText]
  /\ parsedMap = [p \in Paths |-> NoText]
  /\ openDocumentMap = {}
  /\ workspaceFileMap = {}

------------------------------------------------------------------------------
Stored(p) == documents[p] # NoSnapshot

\* The origin of a path: what its snapshot says and what the two maps say.
DocumentOrigin(p) ==
  (IF Stored(p) THEN documents[p].origin ELSE {})
    \cup {o \in {"open"} : p \in openDocumentMap}
    \cup {o \in {"workspace"} : p \in workspaceFileMap}

\* A writer takes the path's next revision before it parses.
NextRevision(p) == documentRevisions[p] + 1

\* A snapshot under a revision and an origin taken for it.
Stamped(s, revision, o) ==
  [path |-> s.path, text |-> s.text, version |-> s.version,
   revision |-> revision, origin |-> o]

\* Mutant: the counter is read but not advanced.
ReserveSameRevision(p) == UNCHANGED storeVars

ReserveRevision(p) ==
  /\ documentRevisions' = [documentRevisions EXCEPT ![p] = NextRevision(p)]
  /\ UNCHANGED << documents, fileToContentMap, parsedMap, openDocumentMap,
                  workspaceFileMap >>

\* The two maps after an operation that gives path p the origin o.
SetOriginMaps(p, o) ==
  /\ openDocumentMap' = IF "open" \in o THEN openDocumentMap \cup {p}
                                        ELSE openDocumentMap \ {p}
  /\ workspaceFileMap' = IF "workspace" \in o THEN workspaceFileMap \cup {p}
                                              ELSE workspaceFileMap \ {p}

\* Mutants: a stale snapshot is stored; any snapshot is stored.
InstallableStale(s) == s.origin = {"workspace"} => s.path \notin openDocumentMap
InstallableAlways(s) == TRUE

\* A parsed snapshot is stored only if no revision was handed out since its
\* own, and one that only the index asked for never over an open document.
Installable(s) ==
  /\ documentRevisions[s.path] = s.revision
  /\ s.origin = {"workspace"} => s.path \notin openDocumentMap

InstallSnapshot(s) ==
  /\ documents' = [documents EXCEPT ![s.path] = s]
  /\ fileToContentMap' = [fileToContentMap EXCEPT ![s.path] = s.text]
  /\ parsedMap' = [parsedMap EXCEPT ![s.path] = s.text]
  /\ SetOriginMaps(s.path, s.origin)
  /\ UNCHANGED documentRevisions

\* Mutant: forgetting leaves the revision, and the writes in flight, valid.
ForgetWithoutRevision(p) ==
  /\ documents' = [documents EXCEPT ![p] = NoSnapshot]
  /\ fileToContentMap' = [fileToContentMap EXCEPT ![p] = NoText]
  /\ parsedMap' = [parsedMap EXCEPT ![p] = NoText]
  /\ UNCHANGED << documentRevisions, openDocumentMap, workspaceFileMap >>

\* Forgetting takes a revision too, which makes reservations in flight stale.
\* It leaves openDocumentMap and workspaceFileMap as they are.
ForgetDocument(p) ==
  /\ documentRevisions' = [documentRevisions EXCEPT ![p] = NextRevision(p)]
  /\ documents' = [documents EXCEPT ![p] = NoSnapshot]
  /\ fileToContentMap' = [fileToContentMap EXCEPT ![p] = NoText]
  /\ parsedMap' = [parsedMap EXCEPT ![p] = NoText]
  /\ UNCHANGED << openDocumentMap, workspaceFileMap >>

\* Mutant: the copy keeps the old origin.
RebrandedOldOrigin(p, o) ==
  IF Stored(p) THEN Stamped(documents[p], NextRevision(p), documents[p].origin)
  ELSE NoSnapshot

\* The copy of p's snapshot that setDocumentOriginLocked stores in its place.
Rebranded(p, o) ==
  IF Stored(p) THEN Stamped(documents[p], NextRevision(p), o) ELSE NoSnapshot

SetDocumentOrigin(p, o) ==
  /\ documentRevisions' = [documentRevisions EXCEPT ![p] = NextRevision(p)]
  /\ documents' = [documents EXCEPT ![p] = Rebranded(p, o)]
  /\ SetOriginMaps(p, o)
  /\ UNCHANGED << fileToContentMap, parsedMap >>

\* Mutant: leaving the index forgets an open document too.
LeaveForgettingOpen(gone) ==
  /\ documentRevisions' = [p \in Paths |-> IF p \in gone
                             THEN NextRevision(p) ELSE documentRevisions[p]]
  /\ documents' = [p \in Paths |-> IF p \in gone THEN NoSnapshot ELSE documents[p]]
  /\ fileToContentMap' = [p \in Paths |-> IF p \in gone THEN NoText ELSE fileToContentMap[p]]
  /\ parsedMap' = [p \in Paths |-> IF p \in gone THEN NoText ELSE parsedMap[p]]
  /\ workspaceFileMap' = workspaceFileMap \ gone
  /\ UNCHANGED openDocumentMap

\* The paths in gone leave the index: an open one stays, as an open document
\* only; any other is forgotten.  removeWorkspaceFile and the loop of
\* removeWorkspaceFolder, under one lock.
LeaveWorkspace(gone) ==
  LET kept == gone \cap openDocumentMap
      lost == gone \ openDocumentMap
      Openly(p) == DocumentOrigin(p) \ {"workspace"}
  IN  /\ documentRevisions' = [p \in Paths |-> IF p \in gone
                                 THEN NextRevision(p) ELSE documentRevisions[p]]
      /\ documents' = [p \in Paths |->
                         IF p \in lost THEN NoSnapshot
                         ELSE IF p \in kept THEN Rebranded(p, Openly(p))
                         ELSE documents[p]]
      /\ fileToContentMap' = [p \in Paths |-> IF p \in lost
                                THEN NoText ELSE fileToContentMap[p]]
      /\ parsedMap' = [p \in Paths |-> IF p \in lost
                                THEN NoText ELSE parsedMap[p]]
      /\ workspaceFileMap' = workspaceFileMap \ gone
      /\ UNCHANGED openDocumentMap

------------------------------------------------------------------------------
PathConsistent(p) ==
  IF Stored(p)
  THEN /\ documents[p].path = p
       /\ fileToContentMap[p] = documents[p].text
       /\ parsedMap[p] = documents[p].text
       /\ "open" \in documents[p].origin <=> p \in openDocumentMap
       /\ "workspace" \in documents[p].origin <=> p \in workspaceFileMap
       /\ documents[p].revision <= documentRevisions[p]
  ELSE /\ fileToContentMap[p] = NoText
       /\ parsedMap[p] = NoText
       /\ p \notin workspaceFileMap

(* The maps never disagree, whichever critical sections ran: a path has    *)
(* content and statements exactly when it has a snapshot, those of that    *)
(* snapshot; the snapshot's origin is what the two maps say of the path;   *)
(* an indexed path has a snapshot; and no snapshot is newer than the last  *)
(* revision handed out.  (A path may be in openDocumentMap with no         *)
(* snapshot: forgetDocumentLocked leaves it there.)                        *)
StoreConsistent == \A p \in Paths : PathConsistent(p)
==============================================================================
