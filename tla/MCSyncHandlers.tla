--------------------------- MODULE MCSyncHandlers ---------------------------
(***************************************************************************)
(* SyncHandlers for TLC: one path, listed in one folder, and two handlers. *)
(* Revisions, origins and mutexes never relate two paths, so one path is   *)
(* enough for the interleavings; folders of several files are checked in   *)
(* MCEditorSession.                                                        *)
(***************************************************************************)
EXTENDS SyncHandlers, TLC

CONSTANTS f1, outer

MCInside == [x \in Roots |-> {f1}]
MCWalked == [x \in Roots |-> {f1}]
MCSQLFiles == {f1}
MCVersions == {1}

\* Handlers and texts are interchangeable; no ordering of either is used.
Interchangeable == Permutations(Handlers) \cup Permutations(Texts)
==============================================================================
