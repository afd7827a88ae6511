---------------------------- MODULE AbstractStore ----------------------------
(***************************************************************************)
(* What the document store promises, one register per path: a write takes  *)
(* the path's next revision first, lands only while that revision is still *)
(* the newest and only once, and everything else that touches the path     *)
(* (closing, leaving the index) takes a revision of its own, so it makes   *)
(* the write in flight fail; such a step keeps the content or drops it but *)
(* never brings one back.                                                  *)
(***************************************************************************)
EXTENDS Naturals

CONSTANTS
  Paths,    (* The registers.                    *)
  Contents, (* What a register may hold.         *)
  Nothing   (* The value of a register not held. *)

VARIABLES
  value,  (* path -> [content, revision], or Nothing                       *)
  latest, (* path -> the newest revision taken                             *)
  writing (* the paths whose newest revision is that of a write in flight  *)

registers == << value, latest, writing >>

Init ==
  /\ value = [p \in Paths |-> Nothing]
  /\ latest = [p \in Paths |-> 0]
  /\ writing = {}

Reserve(p) ==
  /\ latest' = [latest EXCEPT ![p] = latest[p] + 1]
  /\ writing' = writing \cup {p}
  /\ UNCHANGED value

Write(p, content) ==
  /\ p \in writing
  /\ value' = [value EXCEPT ![p] = [content |-> content, revision |-> latest[p]]]
  /\ writing' = writing \ {p}
  /\ UNCHANGED latest

Abandon(p) ==
  /\ p \in writing
  /\ writing' = writing \ {p}
  /\ UNCHANGED << value, latest >>

Retire(kept, lost) ==
  /\ latest' = [p \in Paths |-> IF p \in kept \cup lost THEN latest[p] + 1 ELSE latest[p]]
  /\ value' = [p \in Paths |->
                 IF p \in lost THEN Nothing
                 ELSE IF p \in kept /\ value[p] # Nothing
                      THEN [value[p] EXCEPT !.revision = latest[p] + 1]
                 ELSE value[p]]
  /\ writing' = writing \ (kept \cup lost)

Next ==
  \/ \E p \in Paths : Reserve(p) \/ Abandon(p)
  \/ \E p \in Paths, content \in Contents : Write(p, content)
  \/ \E kept, lost \in SUBSET Paths : kept \cap lost = {} /\ Retire(kept, lost)

Spec == Init /\ [][Next]_registers
==============================================================================
