--------------------------- MODULE ServerLifecycle ---------------------------
(***************************************************************************)
(* The life of the server process (src/main.go): New connects and only     *)
(* then gives the handler its client; the connection's reader passes every *)
(* message to Preempt, which lets it through, answers it, drops it or ends *)
(* the process; what was let through is handled one by one, in order, by   *)
(* the connection's handler goroutine (a library).  Shutdown and Exit are  *)
(* the handlers of src/handler.go.                                         *)
(*                                                                         *)
(* A message is the number of its place in what the editor has sent.  Each *)
(* method is a call or a notification as the protocol has it, and the      *)
(* connection holds: Preempt's ctx.Err() return, for a call whose context  *)
(* the library cancelled because it can write no more, is left out.        *)
(***************************************************************************)
EXTENDS Naturals, Sequences

CONSTANT MaxMessages (* Bound on the messages the editor sends. *)

ASSUME LifecycleAssumption == MaxMessages \in Nat

VARIABLES
  sent,                 (* the messages the editor has sent                *)
  read,                 (* how many of them the reader has taken           *)
  passed,               (* the numbers of those it let through, in order   *)
  started,              (* how many of these the handler goroutine took    *)
  finished,             (* how many of these it is done with               *)
  replies,              (* the replies sent, << number, outcome >>         *)
  afterInitialize,      (* Server.afterInitialize                          *)
  serverAfterShutdown,  (* Server.afterShutdown                            *)
  handlerAfterShutdown, (* Handler.afterShutdown                           *)
  initializeDone,       (* Handler.Initialize has run and returned         *)
  exitCode              (* {}, or the code the process exited with as {0|1} *)

readerVars == << read, passed, afterInitialize, serverAfterShutdown, exitCode >>
handlerVars == << started, finished, handlerAfterShutdown, initializeDone >>
vars == << sent, replies, readerVars, handlerVars >>

Calls == {"initialize", "shutdown", "request"}
Notices == {"exit", "didChange"}

\* Whether the parameters of Initialize decode; those of the others do not matter here.
Messages == {m \in [method : Calls \cup Notices, decodes : BOOLEAN] :
               m.method = "initialize" \/ m.decodes}

\* "handled" is what the dispatcher answers: a handler's result or an error.
Outcomes == {"handled", "beforeInitialize", "invalidRequest"}

TypeOK ==
  /\ sent \in Seq(Messages) /\ Len(sent) <= MaxMessages
  /\ read \in 0 .. Len(sent)
  /\ passed \in Seq(1 .. read)
  /\ started \in 0 .. Len(passed)
  /\ finished \in 0 .. started
  /\ replies \subseteq (1 .. read) \X Outcomes
  /\ {afterInitialize, serverAfterShutdown, handlerAfterShutdown, initializeDone}
       \subseteq BOOLEAN
  /\ exitCode \in {{}, {0}, {1}}

Init ==
  /\ sent = << >> /\ read = 0
  /\ passed = << >> /\ started = 0 /\ finished = 0
  /\ replies = {}
  /\ afterInitialize = FALSE
  /\ serverAfterShutdown = FALSE
  /\ handlerAfterShutdown = FALSE
  /\ initializeDone = FALSE
  /\ exitCode = {}

Running == exitCode = {}
IsCall(m) == m.method \in Calls

\* The editor, which need not keep to the protocol.
Send ==
  /\ Running
  /\ Len(sent) < MaxMessages
  /\ \E m \in Messages : sent' = Append(sent, m)
  /\ UNCHANGED << replies, readerVars, handlerVars >>

------------------------------------------------------------------------------
(* Server.Preempt, in the reader.                                          *)

Incoming == read + 1

Reads(m) ==
  /\ Running
  /\ read < Len(sent)
  /\ m = sent[Incoming]
  /\ read' = Incoming
  /\ UNCHANGED << sent, serverAfterShutdown, handlerVars >>

ExitCode == IF serverAfterShutdown THEN 0 ELSE 1

PreemptExit(m) ==
  /\ Reads(m)
  /\ m.method = "exit"
  /\ exitCode' = {ExitCode}
  /\ UNCHANGED << passed, replies, afterInitialize >>

\* Mutants: everything is let through before Initialize; nothing until it has run.
RefusalOnlyAfterShutdown(m) ==
  IF m.method # "initialize" /\ serverAfterShutdown THEN {"invalidRequest"} ELSE {}

RefusalUntilInitialized(m) ==
  IF m.method = "initialize" THEN {}
  ELSE IF serverAfterShutdown THEN {"invalidRequest"}
  ELSE IF ~initializeDone THEN {"beforeInitialize"}
  ELSE {}

\* What the two guards of Preempt answer to a call, if anything.
Refusal(m) ==
  IF m.method = "initialize" THEN {}
  ELSE IF serverAfterShutdown THEN {"invalidRequest"}
  ELSE IF ~afterInitialize THEN {"beforeInitialize"}
  ELSE {}

\* Mutant: a refused call gets no answer.
PreemptDrop(m) ==
  /\ Reads(m)
  /\ m.method # "exit" /\ Refusal(m) # {}
  /\ UNCHANGED << passed, replies, afterInitialize, exitCode >>

PreemptRefuse(m) ==
  /\ Reads(m)
  /\ m.method # "exit"
  /\ \E outcome \in Refusal(m) :
       replies' = IF IsCall(m) THEN replies \cup {<< Incoming, outcome >>} ELSE replies
  /\ UNCHANGED << passed, afterInitialize, exitCode >>

\* An Initialize whose parameters do not decode is only logged, and let through.
PreemptPass(m) ==
  /\ Reads(m)
  /\ m.method # "exit"
  /\ Refusal(m) = {}
  /\ afterInitialize' = (afterInitialize \/ m.method = "initialize")
  /\ passed' = Append(passed, Incoming)
  /\ UNCHANGED << replies, exitCode >>

------------------------------------------------------------------------------
(* The handler goroutine.                                                  *)

Handling == finished < started
Handled == passed[started]

StartHandler ==
  /\ Running
  /\ ~Handling /\ started < Len(passed)
  /\ started' = started + 1
  /\ UNCHANGED << sent, replies, readerVars, finished, handlerAfterShutdown, initializeDone >>

\* Initialize runs if the dispatcher can decode its parameters.
Initialize(m) == initializeDone' = (initializeDone \/ (m.method = "initialize" /\ m.decodes))

\* Shutdown sets the handler's own flag.
Shutdown(m) == handlerAfterShutdown' = (handlerAfterShutdown \/ m.method = "shutdown")

FinishHandler ==
  /\ Running
  /\ Handling
  /\ finished' = started
  /\ LET m == sent[Handled]
     IN  /\ Initialize(m)
         /\ Shutdown(m)
         /\ replies' = IF IsCall(m) THEN replies \cup {<< Handled, "handled" >>} ELSE replies
  /\ UNCHANGED << sent, readerVars, started >>

Preempt == \E m \in Messages : PreemptExit(m) \/ PreemptRefuse(m) \/ PreemptPass(m)

\* The process is gone, or has nothing to do.
Rest ==
  /\ ~Running \/ (read = Len(sent) /\ finished = Len(passed))
  /\ UNCHANGED vars

Next == Send \/ Preempt \/ StartHandler \/ FinishHandler \/ Rest

Spec == Init /\ [][Next]_vars

\* The reader and the handler goroutine keep running; the editor may fall silent.
FairSpec == Spec /\ WF_vars(Preempt) /\ WF_vars(StartHandler \/ FinishHandler)

------------------------------------------------------------------------------
Sends(method, i) == sent[i].method = method

\* A message is, or comes after, an Initialize.
FollowsInitialize(i) == \E j \in 1 .. i : Sends("initialize", j)

\* The reader let the message through.
LetThrough(i) == \E k \in 1 .. Len(passed) : passed[k] = i

(* When the handler of any other message starts, every Initialize sent     *)
(* before it has been answered, and there is one; if the parameters of one *)
(* decode, Handler.Initialize has returned: the indexed folders and the    *)
(* token legend are there.  The reader let the message through as soon as  *)
(* it had seen an Initialize.                                              *)
InitializeRunsFirst ==
  Handling /\ ~Sends("initialize", Handled) =>
    /\ FollowsInitialize(Handled)
    /\ \A i \in 1 .. Handled : Sends("initialize", i) =>
         /\ << i, "handled" >> \in replies
         /\ sent[i].decodes => initializeDone

(* What becomes of a message depends on its place and on nothing that the  *)
(* handlers have done by then: what is sent behind an Initialize, answered *)
(* or not, is let through (until a Shutdown is sent), a notification not   *)
(* dropped and a call not refused; what is sent ahead of the first never   *)
(* is, and a call is told so.                                              *)
LetThroughByPlace ==
  \A i \in 1 .. read :
    /\ LetThrough(i) => FollowsInitialize(i)
    /\ FollowsInitialize(i) /\ (\A j \in 1 .. i : ~Sends("shutdown", j))
         => LetThrough(i) \/ Sends("exit", i)
    /\ IsCall(sent[i]) =>
         (<< i, "beforeInitialize" >> \in replies <=> ~FollowsInitialize(i))

(* Every call the editor sends is answered, unless the process ends.       *)
CallsAnswered ==
  \A i \in 1 .. MaxMessages :
    (i <= Len(sent) /\ IsCall(sent[i]))
      ~> (~Running \/ \E outcome \in Outcomes : << i, outcome >> \in replies)

(* src/handler.go:2333, Exit: "os.Exit(lo.Ternary(h.afterShutdown, 0, 1))":*)
(* a process told to exit after a Shutdown exits with 0, any other with 1. *)
ExitCodeTellsShutdown ==
  ~Running => (exitCode = {0} <=> handlerAfterShutdown)
==============================================================================
