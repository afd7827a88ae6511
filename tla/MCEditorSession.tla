--------------------------- MODULE MCEditorSession ---------------------------
(***************************************************************************)
(* EditorSession for TLC: two files, f1 in the folder outer and f2 in      *)
(* outer and in the folder inner inside it; one handler.                   *)
(***************************************************************************)
EXTENDS EditorSession, TLC

CONSTANTS f1, f2, outer, inner

MCInside == [x \in Roots |-> IF x = outer THEN {f1, f2} ELSE {f2}]
MCWalked == MCInside
MCSQLFiles == {f1, f2}
MCVersions == 1 .. MaxVersion

TextSymmetry == Permutations(Texts)
==============================================================================
