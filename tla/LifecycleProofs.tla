--------------------------- MODULE LifecycleProofs ---------------------------
(***************************************************************************)
(* Proofs about ServerLifecycle, for any number of messages: what becomes  *)
(* of a message depends on its place, and no handler but that of           *)
(* Initialize starts before the Initialize sent ahead of it was answered.  *)
(*                                                                         *)
(* The flag the reader tests says whether there is an Initialize in what   *)
(* it has read; every Initialize is let through, and what is let through   *)
(* keeps its order and is handled one by one.  So an Initialize ahead of   *)
(* the message being handled is among those that are finished.             *)
(***************************************************************************)
EXTENDS ServerLifecycle, TLAPS

\* The flags of the reader.
GateInv ==
  /\ afterInitialize <=> FollowsInitialize(read)
  /\ ~serverAfterShutdown
  /\ \A i \in 1 .. read : Sends("initialize", i) => LetThrough(i)

\* The queue of what was let through.
OrderInv ==
  /\ \A j, k \in 1 .. Len(passed) : j < k => passed[j] < passed[k]
  /\ started <= finished + 1

\* What has been handled.
FinishedInv ==
  \A k \in 1 .. finished :
    /\ IsCall(sent[passed[k]]) => << passed[k], "handled" >> \in replies
    /\ Sends("initialize", passed[k]) /\ sent[passed[k]].decodes => initializeDone

IInv == TypeOK /\ GateInv /\ OrderInv /\ FinishedInv /\ LetThroughByPlace

------------------------------------------------------------------------------
\* What an Append does to a sequence.
LEMMA AppendElements ==
  ASSUME NEW S, NEW s \in Seq(S), NEW e \in S
  PROVE  /\ Append(s, e) \in Seq(S)
         /\ Len(s) \in Nat
         /\ Len(Append(s, e)) = Len(s) + 1
         /\ \A i \in 1 .. Len(s) : Append(s, e)[i] = s[i]
         /\ Append(s, e)[Len(s) + 1] = e
  OBVIOUS

\* A sequence of elements of a set is one of those of a larger set.
LEMMA SeqGrows ==
  ASSUME NEW S, NEW T, S \subseteq T, NEW s \in Seq(S)
  PROVE  s \in Seq(T)
  OBVIOUS

\* The counters are numbers, and the places they count are places of messages.
LEMMA Places ==
  ASSUME TypeOK
  PROVE  /\ Len(sent) \in Nat /\ read \in Nat /\ read <= Len(sent)
         /\ Len(passed) \in Nat /\ started \in Nat /\ finished \in Nat
         /\ started <= Len(passed) /\ finished <= started
         /\ \A i \in 1 .. Len(sent) : sent[i] \in Messages
         /\ \A k \in 1 .. Len(passed) : passed[k] \in 1 .. read
<1>1. sent \in Seq(Messages) /\ read \in 0 .. Len(sent) /\ passed \in Seq(1 .. read)
      /\ started \in 0 .. Len(passed) /\ finished \in 0 .. started
  BY DEF TypeOK
<1> QED
  BY <1>1

\* The flags of the server are Booleans.
Flags == {afterInitialize, serverAfterShutdown, handlerAfterShutdown, initializeDone}

\* A server that has started has read, handled and answered nothing.
LEMMA InitInv == Init => IInv
<1> SUFFICES ASSUME Init PROVE IInv
  OBVIOUS
<1>1. TypeOK
  <2>1. Flags \subseteq BOOLEAN
    BY Zenon DEF Init, Flags
  <2>2. << >> \in Seq(Messages) /\ << >> \in Seq(1 .. 0) /\ Len(<< >>) = 0
    OBVIOUS
  <2>3. 0 <= MaxMessages /\ 0 \in 0 .. 0
    BY LifecycleAssumption
  <2>4. sent \in Seq(Messages) /\ Len(sent) <= MaxMessages /\ passed \in Seq(1 .. read)
    BY <2>2, <2>3 DEF Init
  <2>5. read \in 0 .. Len(sent) /\ started \in 0 .. Len(passed) /\ finished \in 0 .. started
    BY <2>2, <2>3 DEF Init
  <2>6. replies \subseteq (1 .. read) \X Outcomes /\ exitCode \in {{}, {0}, {1}}
    BY DEF Init
  <2> QED
    BY <2>1, <2>4, <2>5, <2>6, Zenon DEF TypeOK, Flags
<1>2. GateInv /\ LetThroughByPlace
  BY DEF Init, GateInv, LetThroughByPlace, FollowsInitialize
<1>3. OrderInv /\ FinishedInv
  BY DEF Init, OrderInv, FinishedInv
<1> QED
  BY <1>1, <1>2, <1>3 DEF IInv

\* What is sent is read later.
LEMMA SendInv == IInv /\ Send => IInv'
<1> SUFFICES ASSUME IInv, Send PROVE IInv'
  OBVIOUS
<1>1. PICK m \in Messages : sent' = Append(sent, m)
  BY DEF Send
<1>2. /\ sent' \in Seq(Messages) /\ Len(sent) \in Nat /\ Len(sent') = Len(sent) + 1
      /\ \A i \in 1 .. Len(sent) : sent'[i] = sent[i]
  <2>1. sent \in Seq(Messages)
    BY DEF IInv, TypeOK
  <2> QED
    BY <1>1, <2>1, AppendElements
<1>3. /\ replies' = replies /\ read' = read /\ passed' = passed /\ started' = started
      /\ finished' = finished /\ afterInitialize' = afterInitialize
      /\ serverAfterShutdown' = serverAfterShutdown /\ exitCode' = exitCode
      /\ handlerAfterShutdown' = handlerAfterShutdown /\ initializeDone' = initializeDone
  BY DEF Send, readerVars, handlerVars
<1>4. /\ read \in Nat /\ read <= Len(sent) /\ Len(passed) \in Nat /\ started \in Nat
      /\ finished \in Nat /\ started <= Len(passed) /\ finished <= started
      /\ \A k \in 1 .. Len(passed) : passed[k] \in 1 .. read
  BY Places DEF IInv
<1>5. \A i \in 1 .. read : sent'[i] = sent[i]
  BY <1>2, <1>4
<1>6. TypeOK'
  <2>1. Len(sent') <= MaxMessages
    BY <1>2, LifecycleAssumption DEF Send
  <2>2. read \in 0 .. Len(sent')
    BY <1>2, <1>4
  <2>3. /\ passed \in Seq(1 .. read) /\ started \in 0 .. Len(passed) /\ finished \in 0 .. started
        /\ replies \subseteq (1 .. read) \X Outcomes /\ exitCode \in {{}, {0}, {1}}
    BY DEF IInv, TypeOK
  <2>4. Flags' \subseteq BOOLEAN
    BY <1>3, Zenon DEF IInv, TypeOK, Flags
  <2> QED
    BY <1>2, <1>3, <2>1, <2>2, <2>3, <2>4, Zenon DEF TypeOK, Flags
<1>7. \A i \in 1 .. read : FollowsInitialize(i)' <=> FollowsInitialize(i)
  <2> SUFFICES ASSUME NEW i \in 1 .. read PROVE FollowsInitialize(i)' <=> FollowsInitialize(i)
    OBVIOUS
  <2>1. \A j \in 1 .. i : sent'[j] = sent[j]
    BY <1>4, <1>5
  <2> QED
    BY <2>1 DEF FollowsInitialize, Sends
<1>8. GateInv'
  <2>1. FollowsInitialize(read)' <=> FollowsInitialize(read)
    BY <1>3, <1>4, <1>5 DEF FollowsInitialize, Sends
  <2> QED
    BY <1>3, <1>5, <2>1 DEF IInv, GateInv, Sends, LetThrough
<1>9. OrderInv'
  BY <1>3 DEF IInv, OrderInv
<1>10. FinishedInv'
  <2>1. \A k \in 1 .. finished : sent'[passed[k]] = sent[passed[k]]
    BY <1>4, <1>5
  <2> QED
    BY <1>3, <2>1 DEF IInv, FinishedInv, Sends, IsCall
<1>11. LetThroughByPlace'
  <2> SUFFICES ASSUME NEW i \in 1 .. read
               PROVE  /\ LetThrough(i)' => FollowsInitialize(i)'
                      /\ FollowsInitialize(i)' /\ (\A j \in 1 .. i : ~Sends("shutdown", j)')
                           => LetThrough(i)' \/ Sends("exit", i)'
                      /\ IsCall(sent[i])' =>
                           (<< i, "beforeInitialize" >> \in replies <=> ~FollowsInitialize(i)')
    BY <1>3, Zenon DEF LetThroughByPlace
  <2>1. sent'[i] = sent[i] /\ \A j \in 1 .. i : sent'[j] = sent[j]
    BY <1>4, <1>5
  <2>2. (Sends("exit", i)' <=> Sends("exit", i))
        /\ \A j \in 1 .. i : Sends("shutdown", j)' <=> Sends("shutdown", j)
    BY <2>1 DEF Sends
  <2>3. LetThrough(i)' <=> LetThrough(i)
    BY <1>3 DEF LetThrough
  <2>4. IsCall(sent[i])' <=> IsCall(sent[i])
    BY <2>1 DEF IsCall
  <2> QED
    BY <1>7, <2>2, <2>3, <2>4 DEF IInv, LetThroughByPlace
<1> QED
  BY <1>6, <1>8, <1>9, <1>10, <1>11 DEF IInv

------------------------------------------------------------------------------
(* The reader.                                                             *)

\* What a step of the reader leaves alone, and what the message it takes is.
LEMMA ReadsKeeps ==
  ASSUME IInv, NEW m \in Messages, Reads(m)
  PROVE  /\ sent' = sent /\ started' = started /\ finished' = finished
         /\ serverAfterShutdown' = serverAfterShutdown
         /\ handlerAfterShutdown' = handlerAfterShutdown /\ initializeDone' = initializeDone
         /\ read' = read + 1 /\ read' = Incoming /\ read' \in 1 .. Len(sent)
         /\ m = sent[read + 1]
         /\ read \in Nat /\ Len(sent) \in Nat
         /\ \A i \in 1 .. read' : i \in 1 .. read \/ i = read + 1
         /\ \A i \in 1 .. read : FollowsInitialize(i)' <=> FollowsInitialize(i)
         /\ FollowsInitialize(read)' <=> afterInitialize \/ m.method = "initialize"
         /\ \A i : i = read + 1 =>
              (FollowsInitialize(i)' <=> afterInitialize \/ m.method = "initialize")
<1>1. /\ sent' = sent /\ started' = started /\ finished' = finished
      /\ serverAfterShutdown' = serverAfterShutdown
      /\ handlerAfterShutdown' = handlerAfterShutdown /\ initializeDone' = initializeDone
      /\ read' = read + 1 /\ read' = Incoming /\ m = sent[read + 1] /\ read < Len(sent)
  BY DEF Reads, Incoming, handlerVars
<1>2. read \in Nat /\ Len(sent) \in Nat
  BY Places DEF IInv
<1>3. read' \in 1 .. Len(sent) /\ \A i \in 1 .. read' : i \in 1 .. read \/ i = read + 1
  BY <1>1, <1>2
<1>4. \A i \in 1 .. read : FollowsInitialize(i)' <=> FollowsInitialize(i)
  BY <1>1 DEF FollowsInitialize, Sends
<1>5. (\E j \in 1 .. read + 1 : sent[j].method = "initialize")
        <=> afterInitialize \/ m.method = "initialize"
  <2>1. \A j : j \in 1 .. read + 1 <=> j \in 1 .. read \/ j = read + 1
    BY <1>2
  <2>2. afterInitialize <=> \E j \in 1 .. read : sent[j].method = "initialize"
    BY DEF IInv, GateInv, FollowsInitialize, Sends
  <2> QED
    BY <1>1, <2>1, <2>2
<1>6. FollowsInitialize(read)' <=> afterInitialize \/ m.method = "initialize"
  BY <1>1, <1>5 DEF FollowsInitialize, Sends
<1>7. \A i : i = read + 1 =>
        (FollowsInitialize(i)' <=> afterInitialize \/ m.method = "initialize")
  BY <1>1, <1>5 DEF FollowsInitialize, Sends
<1> QED
  BY <1>1, <1>2, <1>3, <1>4, <1>6, <1>7

\* A message that is not let through leaves the queue alone.
LEMMA NotPassed ==
  ASSUME IInv, NEW m \in Messages, Reads(m), m.method # "initialize",
         passed' = passed, afterInitialize' = afterInitialize,
         \/ replies' = replies
         \/ \E outcome \in Outcomes \ {"handled"} : replies' = replies \cup {<< read + 1, outcome >>},
         exitCode' \in {{}, {0}, {1}}
  PROVE  TypeOK' /\ GateInv' /\ OrderInv' /\ FinishedInv'
<1>1. TypeOK'
  <2>1. sent' \in Seq(Messages) /\ Len(sent') <= MaxMessages /\ read' \in 0 .. Len(sent')
    BY ReadsKeeps DEF IInv, TypeOK
  <2>2. 1 .. read \subseteq 1 .. read' /\ read + 1 \in 1 .. read'
    BY ReadsKeeps
  <2>3. passed' \in Seq(1 .. read')
    <3>1. passed \in Seq(1 .. read)
      BY DEF IInv, TypeOK
    <3> QED
      BY <2>2, <3>1, SeqGrows
  <2>4. replies' \subseteq (1 .. read') \X Outcomes
    BY <2>2 DEF IInv, TypeOK
  <2>5. started' \in 0 .. Len(passed') /\ finished' \in 0 .. started'
    BY ReadsKeeps DEF IInv, TypeOK
  <2>6. Flags' \subseteq BOOLEAN
    <3>1. /\ serverAfterShutdown' = serverAfterShutdown
          /\ handlerAfterShutdown' = handlerAfterShutdown /\ initializeDone' = initializeDone
      BY ReadsKeeps
    <3> QED
      BY <3>1, Zenon DEF IInv, TypeOK, Flags
  <2> QED
    BY <2>1, <2>3, <2>4, <2>5, <2>6, Zenon DEF TypeOK, Flags
<1>2. GateInv'
  <2>1. afterInitialize' <=> FollowsInitialize(read)'
    BY ReadsKeeps
  <2>2. ~serverAfterShutdown'
    BY ReadsKeeps DEF IInv, GateInv
  <2>3. ASSUME NEW i \in 1 .. read', Sends("initialize", i)' PROVE LetThrough(i)'
    <3>1. sent' = sent /\ m = sent[read + 1] /\ (i \in 1 .. read \/ i = read + 1)
      BY ReadsKeeps
    <3>2. i \in 1 .. read /\ Sends("initialize", i)
      BY <2>3, <3>1 DEF Sends
    <3> QED
      BY <3>2 DEF IInv, GateInv, LetThrough
  <2> QED
    BY <2>1, <2>2, <2>3 DEF GateInv
<1>3. OrderInv'
  BY ReadsKeeps DEF IInv, OrderInv
<1>4. FinishedInv'
  <2>1. replies \subseteq replies'
    OBVIOUS
  <2> QED
    BY <2>1, ReadsKeeps DEF IInv, FinishedInv, Sends, IsCall
<1> QED
  BY <1>1, <1>2, <1>3, <1>4

\* The process ends; what was read before keeps its fate.
LEMMA PreemptExitInv ==
  ASSUME IInv, NEW m \in Messages, PreemptExit(m)
  PROVE  IInv'
<1>1. /\ Reads(m) /\ m.method = "exit" /\ passed' = passed /\ replies' = replies
      /\ afterInitialize' = afterInitialize /\ exitCode' \in {{}, {0}, {1}}
  BY DEF PreemptExit, ExitCode
<1>2. TypeOK' /\ GateInv' /\ OrderInv' /\ FinishedInv'
  BY <1>1, NotPassed
<1>3. LetThroughByPlace'
  <2> SUFFICES ASSUME NEW i \in 1 .. read'
               PROVE  /\ LetThrough(i)' => FollowsInitialize(i)'
                      /\ FollowsInitialize(i)' /\ (\A j \in 1 .. i : ~Sends("shutdown", j)')
                           => LetThrough(i)' \/ Sends("exit", i)'
                      /\ IsCall(sent[i])' =>
                           (<< i, "beforeInitialize" >> \in replies' <=> ~FollowsInitialize(i)')
    BY Zenon DEF LetThroughByPlace
  <2>1. sent' = sent /\ m = sent[read + 1] /\ (i \in 1 .. read \/ i = read + 1)
    BY <1>1, ReadsKeeps
  <2>2. CASE i \in 1 .. read
    <3>1. FollowsInitialize(i)' <=> FollowsInitialize(i)
      BY <1>1, <2>2, ReadsKeeps
    <3> QED
      BY <1>1, <2>1, <2>2, <3>1 DEF IInv, LetThroughByPlace, LetThrough, Sends, IsCall
  <2>3. CASE i = read + 1
    <3>1. ~LetThrough(i)'
      <4>1. \A k \in 1 .. Len(passed) : passed[k] \in 1 .. read
        BY Places DEF IInv
      <4>2. read \in Nat
        BY <1>1, ReadsKeeps
      <4> QED
        BY <1>1, <2>3, <4>1, <4>2 DEF LetThrough
    <3>2. Sends("exit", i)' /\ ~IsCall(sent[i])'
      BY <1>1, <2>1, <2>3 DEF Sends, IsCall, Calls
    <3> QED
      BY <3>1, <3>2
  <2> QED
    BY <2>1, <2>2, <2>3
<1> QED
  BY <1>2, <1>3 DEF IInv

\* What is refused was sent ahead of the first Initialize.
LEMMA PreemptRefuseInv ==
  ASSUME IInv, NEW m \in Messages, PreemptRefuse(m)
  PROVE  IInv'
<1> DEFINE e == << read + 1, "beforeInitialize" >>
<1>1. /\ Reads(m) /\ passed' = passed /\ afterInitialize' = afterInitialize
      /\ exitCode' = exitCode
  BY DEF PreemptRefuse
<1>2. m.method # "initialize" /\ ~afterInitialize
  BY DEF PreemptRefuse, Refusal, IInv, GateInv
<1>3. replies' = IF IsCall(m) THEN replies \cup {e} ELSE replies
  BY DEF PreemptRefuse, Refusal, IInv, GateInv, Incoming
<1>4. TypeOK' /\ GateInv' /\ OrderInv' /\ FinishedInv'
  <2>1. exitCode' \in {{}, {0}, {1}}
    BY <1>1 DEF IInv, TypeOK
  <2>2. \/ replies' = replies
        \/ \E outcome \in Outcomes \ {"handled"} : replies' = replies \cup {<< read + 1, outcome >>}
    BY <1>3 DEF Outcomes
  <2> QED
    BY <1>1, <1>2, <2>1, <2>2, NotPassed
<1>5. LetThroughByPlace'
  <2> SUFFICES ASSUME NEW i \in 1 .. read'
               PROVE  /\ LetThrough(i)' => FollowsInitialize(i)'
                      /\ FollowsInitialize(i)' /\ (\A j \in 1 .. i : ~Sends("shutdown", j)')
                           => LetThrough(i)' \/ Sends("exit", i)'
                      /\ IsCall(sent[i])' =>
                           (<< i, "beforeInitialize" >> \in replies' <=> ~FollowsInitialize(i)')
    BY Zenon DEF LetThroughByPlace
  <2>1. CASE i \in 1 .. read
    <3>1. sent' = sent /\ (FollowsInitialize(i)' <=> FollowsInitialize(i))
      BY <1>1, <2>1, ReadsKeeps
    <3>2. << i, "beforeInitialize" >> \in replies' <=> << i, "beforeInitialize" >> \in replies
      <4>1. i # read + 1
        BY <1>1, <2>1, ReadsKeeps
      <4> QED
        BY <1>3, <4>1
    <3> QED
      BY <1>1, <2>1, <3>1, <3>2 DEF IInv, LetThroughByPlace, LetThrough, Sends, IsCall
  <2>2. CASE i = read + 1
    <3>1. ~FollowsInitialize(i)' /\ sent' = sent /\ m = sent[i]
      BY <1>1, <1>2, <2>2, ReadsKeeps
    <3>2. ~LetThrough(i)'
      <4>1. \A k \in 1 .. Len(passed) : passed[k] \in 1 .. read
        BY Places DEF IInv
      <4>2. read \in Nat
        BY <1>1, ReadsKeeps
      <4> QED
        BY <1>1, <2>2, <4>1, <4>2 DEF LetThrough
    <3>3. IsCall(m) => e \in replies'
      BY <1>3
    <3> QED
      BY <2>2, <3>1, <3>2, <3>3 DEF IsCall
  <2> QED
    BY <1>1, <2>1, <2>2, ReadsKeeps
<1> QED
  BY <1>4, <1>5 DEF IInv

\* What is let through is the last in the queue, and is or follows an Initialize.
LEMMA PreemptPassInv ==
  ASSUME IInv, NEW m \in Messages, PreemptPass(m)
  PROVE  IInv'
<1>1. /\ Reads(m) /\ m.method # "exit" /\ replies' = replies /\ exitCode' = exitCode
      /\ passed' = Append(passed, read + 1)
      /\ afterInitialize' = (afterInitialize \/ m.method = "initialize")
  BY DEF PreemptPass, Incoming
<1>2. afterInitialize' 
  BY <1>1 DEF PreemptPass, Refusal, IInv, GateInv
<1>3. /\ read \in Nat /\ read' = read + 1 /\ sent' = sent /\ m = sent[read + 1]
      /\ started' = started /\ finished' = finished
      /\ \A i \in 1 .. read' : i \in 1 .. read \/ i = read + 1
  BY <1>1, ReadsKeeps
<1>4. /\ passed' \in Seq(1 .. read') /\ Len(passed) \in Nat /\ Len(passed') = Len(passed) + 1
      /\ \A k \in 1 .. Len(passed) : passed'[k] = passed[k]
      /\ passed'[Len(passed) + 1] = read + 1
  <2>1. 1 .. read \subseteq 1 .. read' /\ read + 1 \in 1 .. read'
    BY <1>3
  <2>2. passed \in Seq(1 .. read')
    <3>1. passed \in Seq(1 .. read)
      BY DEF IInv, TypeOK
    <3> QED
      BY <2>1, <3>1, SeqGrows
  <2> QED
    BY <1>1, <2>1, <2>2, AppendElements
<1>5. /\ \A k \in 1 .. Len(passed) : passed[k] \in 1 .. read
      /\ started \in Nat /\ finished \in Nat /\ started <= Len(passed) /\ finished <= started
  BY Places DEF IInv
<1>6. TypeOK'
  <2>1. sent' \in Seq(Messages) /\ Len(sent') <= MaxMessages /\ read' \in 0 .. Len(sent')
    BY <1>1, ReadsKeeps DEF IInv, TypeOK
  <2>2. replies' \subseteq (1 .. read') \X Outcomes
    BY <1>1, <1>3 DEF IInv, TypeOK
  <2>3. started' \in 0 .. Len(passed') /\ finished' \in 0 .. started'
    BY <1>3, <1>4, <1>5
  <2>4. Flags' \subseteq BOOLEAN
    <3>1. /\ serverAfterShutdown' = serverAfterShutdown
          /\ handlerAfterShutdown' = handlerAfterShutdown /\ initializeDone' = initializeDone
      BY <1>1, ReadsKeeps
    <3>2. afterInitialize' \in BOOLEAN
      BY <1>1
    <3> QED
      BY <3>1, <3>2, Zenon DEF IInv, TypeOK, Flags
  <2>5. exitCode' \in {{}, {0}, {1}}
    BY <1>1 DEF IInv, TypeOK
  <2> QED
    BY <1>4, <2>1, <2>2, <2>3, <2>4, <2>5, Zenon DEF TypeOK, Flags
<1>7. /\ \A i : i = read + 1 => LetThrough(i)'
      /\ \A i \in 1 .. read : LetThrough(i)' <=> LetThrough(i)
  <2>1. \A i : i = read + 1 => LetThrough(i)'
    BY <1>4 DEF LetThrough
  <2>2. ASSUME NEW i \in 1 .. read PROVE LetThrough(i)' <=> LetThrough(i)
    <3>1. LetThrough(i) => LetThrough(i)'
      BY <1>4 DEF LetThrough
    <3>2. ASSUME NEW k \in 1 .. Len(passed'), passed'[k] = i PROVE k \in 1 .. Len(passed)
      BY <1>3, <1>4, <3>2
    <3> QED
      BY <1>4, <3>1, <3>2 DEF LetThrough
  <2> QED
    BY <2>1, <2>2
<1>8. GateInv'
  <2>2. afterInitialize' <=> FollowsInitialize(read)'
    BY <1>1, ReadsKeeps
  <2>3. ~serverAfterShutdown'
    BY <1>1, ReadsKeeps DEF IInv, GateInv
  <2>4. \A i \in 1 .. read' : Sends("initialize", i)' => LetThrough(i)'
    BY <1>3, <1>7 DEF IInv, GateInv, Sends
  <2> QED
    BY <2>2, <2>3, <2>4 DEF GateInv
<1>9. OrderInv'
  <2>1. ASSUME NEW j \in 1 .. Len(passed'), NEW k \in 1 .. Len(passed'), j < k
        PROVE  passed'[j] < passed'[k]
    <3>1. j \in 1 .. Len(passed) /\ passed'[j] = passed[j] /\ passed[j] \in 1 .. read
      BY <1>4, <1>5, <2>1
    <3>2. CASE k \in 1 .. Len(passed)
      BY <1>4, <2>1, <3>1, <3>2 DEF IInv, OrderInv
    <3>3. CASE k = Len(passed) + 1
      BY <1>3, <1>4, <3>1, <3>3
    <3> QED
      BY <1>4, <3>2, <3>3
  <2> QED
    BY <1>3, <2>1 DEF IInv, OrderInv
<1>10. FinishedInv'
  <2>1. \A k \in 1 .. finished : passed'[k] = passed[k]
    BY <1>4, <1>5
  <2>2. initializeDone' = initializeDone
    BY <1>1, ReadsKeeps
  <2> QED
    BY <1>1, <1>3, <2>1, <2>2 DEF IInv, FinishedInv, Sends, IsCall
<1>11. LetThroughByPlace'
  <2> SUFFICES ASSUME NEW i \in 1 .. read'
               PROVE  /\ LetThrough(i)' => FollowsInitialize(i)'
                      /\ FollowsInitialize(i)' /\ (\A j \in 1 .. i : ~Sends("shutdown", j)')
                           => LetThrough(i)' \/ Sends("exit", i)'
                      /\ IsCall(sent[i])' =>
                           (<< i, "beforeInitialize" >> \in replies' <=> ~FollowsInitialize(i)')
    BY Zenon DEF LetThroughByPlace
  <2>1. CASE i \in 1 .. read
    <3>1. /\ FollowsInitialize(i)' <=> FollowsInitialize(i)
          /\ LetThrough(i)' <=> LetThrough(i)
      BY <1>1, <1>7, <2>1, ReadsKeeps
    <3> QED
      BY <1>1, <1>3, <2>1, <3>1 DEF IInv, LetThroughByPlace, Sends, IsCall
  <2>2. CASE i = read + 1
    <3>1. FollowsInitialize(i)' /\ LetThrough(i)'
      BY <1>1, <1>2, <1>7, <2>2, ReadsKeeps
    <3>2. << i, "beforeInitialize" >> \notin replies'
      <4>1. replies \subseteq (1 .. read) \X Outcomes
        BY DEF IInv, TypeOK
      <4>2. i \notin 1 .. read
        BY <1>3, <2>2
      <4> QED
        BY <1>1, <4>1, <4>2
    <3> QED
      BY <3>1, <3>2
  <2> QED
    BY <1>3, <2>1, <2>2
<1> QED
  BY <1>6, <1>8, <1>9, <1>10, <1>11 DEF IInv

------------------------------------------------------------------------------
(* The handler goroutine.                                                  *)

\* A handler starts when the one before it is done.
LEMMA StartHandlerInv == IInv /\ StartHandler => IInv'
<1> SUFFICES ASSUME IInv, StartHandler PROVE IInv'
  OBVIOUS
<1>1. /\ sent' = sent /\ replies' = replies /\ read' = read /\ passed' = passed
      /\ afterInitialize' = afterInitialize /\ serverAfterShutdown' = serverAfterShutdown
      /\ exitCode' = exitCode /\ finished' = finished
      /\ handlerAfterShutdown' = handlerAfterShutdown /\ initializeDone' = initializeDone
      /\ started' = started + 1 /\ ~(finished < started) /\ started < Len(passed)
  BY DEF StartHandler, readerVars, Handling
<1>2. started \in Nat /\ finished \in Nat /\ Len(passed) \in Nat /\ finished <= started
  BY Places DEF IInv
<1>3. TypeOK'
  <2>1. started' \in 0 .. Len(passed) /\ finished \in 0 .. started'
    BY <1>1, <1>2
  <2>2. Flags' \subseteq BOOLEAN
    BY <1>1, Zenon DEF IInv, TypeOK, Flags
  <2> QED
    BY <1>1, <2>1, <2>2, Zenon DEF IInv, TypeOK, Flags
<1>4. GateInv' /\ LetThroughByPlace'
  BY <1>1 DEF IInv, GateInv, LetThroughByPlace, FollowsInitialize, LetThrough, Sends, IsCall
<1>5. OrderInv'
  BY <1>1, <1>2 DEF IInv, OrderInv
<1>6. FinishedInv'
  BY <1>1 DEF IInv, FinishedInv, Sends, IsCall
<1> QED
  BY <1>3, <1>4, <1>5, <1>6 DEF IInv

\* What was handled is answered if it was a call.
LEMMA FinishHandlerInv == IInv /\ FinishHandler => IInv'
<1> SUFFICES ASSUME IInv, FinishHandler PROVE IInv'
  OBVIOUS
<1> DEFINE n == passed[started]
           m == sent[n]
<1>1. /\ sent' = sent /\ read' = read /\ passed' = passed /\ started' = started
      /\ afterInitialize' = afterInitialize /\ serverAfterShutdown' = serverAfterShutdown
      /\ exitCode' = exitCode /\ finished' = started /\ finished < started
  BY DEF FinishHandler, readerVars, Handling
<1>2. /\ initializeDone' = (initializeDone \/ (m.method = "initialize" /\ m.decodes))
      /\ handlerAfterShutdown' = (handlerAfterShutdown \/ m.method = "shutdown")
      /\ replies' = IF IsCall(m) THEN replies \cup {<< n, "handled" >>} ELSE replies
  BY DEF FinishHandler, Initialize, Shutdown, Handled
<1>3. /\ started \in Nat /\ finished \in Nat /\ started <= Len(passed) /\ Len(passed) \in Nat
      /\ n \in 1 .. read /\ m \in Messages
      /\ \A k \in 1 .. started : k \in 1 .. finished \/ k = started
  <2>1. /\ started \in Nat /\ finished \in Nat /\ started <= Len(passed) /\ Len(passed) \in Nat
        /\ read \in Nat /\ Len(sent) \in Nat /\ read <= Len(sent)
        /\ \A k \in 1 .. Len(passed) : passed[k] \in 1 .. read
        /\ \A i \in 1 .. Len(sent) : sent[i] \in Messages
    BY Places DEF IInv
  <2>2. started \in 1 .. Len(passed)
    BY <1>1, <2>1
  <2>3. n \in 1 .. read
    BY <2>1, <2>2
  <2>4. n \in 1 .. Len(sent)
    BY <2>1, <2>3
  <2>5. m \in Messages
    BY <2>1, <2>4
  <2>6. started <= finished + 1
    BY DEF IInv, OrderInv
  <2>7. \A k \in 1 .. started : k \in 1 .. finished \/ k = started
    BY <2>1, <2>6
  <2> QED
    BY <2>1, <2>3, <2>5, <2>7
<1>4. replies \subseteq replies' /\ (IsCall(m) => << n, "handled" >> \in replies')
  BY <1>2
<1>5. \A i : << i, "beforeInitialize" >> \in replies' <=> << i, "beforeInitialize" >> \in replies
  BY <1>2
<1> HIDE DEF n, m
<1>6. TypeOK'
  <2>1. finished' \in 0 .. started'
    BY <1>1, <1>3
  <2>2. replies' \subseteq (1 .. read) \X Outcomes
    <3>1. replies \subseteq (1 .. read) \X Outcomes /\ "handled" \in Outcomes
      BY DEF IInv, TypeOK, Outcomes
    <3> QED
      BY <1>2, <1>3, <3>1
  <2>3. Flags' \subseteq BOOLEAN
    <3>1. initializeDone' \in BOOLEAN /\ handlerAfterShutdown' \in BOOLEAN
      BY <1>2
    <3> QED
      BY <1>1, <3>1, Zenon DEF IInv, TypeOK, Flags
  <2> QED
    BY <1>1, <2>1, <2>2, <2>3, Zenon DEF IInv, TypeOK, Flags
<1>7. GateInv'
  BY <1>1 DEF IInv, GateInv, FollowsInitialize, LetThrough, Sends
<1>8. LetThroughByPlace'
  <2>1. ASSUME NEW i
        PROVE  /\ FollowsInitialize(i)' <=> FollowsInitialize(i)
               /\ LetThrough(i)' <=> LetThrough(i)
               /\ Sends("exit", i)' <=> Sends("exit", i)
               /\ Sends("shutdown", i)' <=> Sends("shutdown", i)
               /\ IsCall(sent[i])' <=> IsCall(sent[i])
    BY <1>1 DEF FollowsInitialize, LetThrough, Sends, IsCall
  <2> QED
    BY <1>1, <1>5, <2>1, Zenon DEF IInv, LetThroughByPlace
<1>9. OrderInv'
  BY <1>1, <1>3 DEF IInv, OrderInv
<1>10. FinishedInv'
  <2> SUFFICES ASSUME NEW k \in 1 .. started
               PROVE  /\ IsCall(sent[passed[k]]) => << passed[k], "handled" >> \in replies'
                      /\ Sends("initialize", passed[k]) /\ sent[passed[k]].decodes
                           => initializeDone'
    BY <1>1 DEF FinishedInv, Sends, IsCall
  <2>1. CASE k \in 1 .. finished
    BY <1>2, <1>4, <2>1 DEF IInv, FinishedInv
  <2>2. CASE k = started
    BY <1>2, <1>4, <2>2 DEF Sends, n, m
  <2> QED
    BY <1>3, <2>1, <2>2
<1> QED
  BY <1>6, <1>7, <1>8, <1>9, <1>10 DEF IInv

------------------------------------------------------------------------------
\* Every step keeps the invariant.
LEMMA StepInv == IInv /\ [Next]_vars => IInv'
<1> SUFFICES ASSUME IInv, [Next]_vars PROVE IInv'
  OBVIOUS
<1>1. CASE Send
  BY <1>1, SendInv
<1>2. CASE Preempt
  <2>1. PICK m \in Messages : PreemptExit(m) \/ PreemptRefuse(m) \/ PreemptPass(m)
    BY <1>2 DEF Preempt
  <2> QED
    BY <2>1, PreemptExitInv, PreemptRefuseInv, PreemptPassInv
<1>3. CASE StartHandler
  BY <1>3, StartHandlerInv
<1>4. CASE FinishHandler
  BY <1>4, FinishHandlerInv
<1>5. CASE Rest \/ UNCHANGED vars
  <2>1. UNCHANGED << sent, replies, read, passed, afterInitialize, serverAfterShutdown,
                     exitCode, started, finished, handlerAfterShutdown, initializeDone >>
    BY <1>5 DEF Rest, vars, readerVars, handlerVars
  <2>2. TypeOK'
    BY <2>1, Zenon DEF IInv, TypeOK
  <2>3. GateInv' /\ LetThroughByPlace'
    BY <2>1 DEF IInv, GateInv, LetThroughByPlace, FollowsInitialize, LetThrough, Sends, IsCall
  <2>4. OrderInv' /\ FinishedInv'
    BY <2>1 DEF IInv, OrderInv, FinishedInv, Sends, IsCall
  <2> QED
    BY <2>2, <2>3, <2>4 DEF IInv
<1> QED
  BY <1>1, <1>2, <1>3, <1>4, <1>5 DEF Next

\* The invariant holds of every state of the server.
THEOREM LifecycleInvariant == Spec => []IInv
<1> QED
  BY InitInv, StepInv, PTL DEF Spec

\* However many messages the editor sends, what Preempt makes of each is decided by
\* its place among them, and by no race of the reader with the handlers.
THEOREM PlaceDecides == Spec => []LetThroughByPlace
<1>1. IInv => LetThroughByPlace
  BY DEF IInv
<1> QED
  BY <1>1, LifecycleInvariant, PTL

\* However far the reader runs ahead, a handler starts only when every Initialize
\* sent before its message was answered, and has run if its parameters decode.
THEOREM InitializeIsFirst == Spec => []InitializeRunsFirst
<1>1. IInv => InitializeRunsFirst
  <2> SUFFICES ASSUME IInv, Handling, ~Sends("initialize", Handled)
               PROVE  /\ FollowsInitialize(Handled)
                      /\ \A i \in 1 .. Handled : Sends("initialize", i) =>
                           /\ << i, "handled" >> \in replies
                           /\ sent[i].decodes => initializeDone
    BY DEF InitializeRunsFirst
  <2> DEFINE n == passed[started]
  <2>1. /\ started \in 1 .. Len(passed) /\ finished \in Nat /\ Len(passed) \in Nat
        /\ started <= finished + 1 /\ n \in 1 .. read /\ read \in Nat
    BY Places DEF IInv, OrderInv, Handling
  <2>2. Handled = n
    BY DEF Handled
  <2>4. FollowsInitialize(n)
    BY <2>1 DEF IInv, LetThroughByPlace, LetThrough
  <2>5. ASSUME NEW i \in 1 .. n, Sends("initialize", i)
        PROVE  << i, "handled" >> \in replies /\ (sent[i].decodes => initializeDone)
    <3>1. i \in 1 .. read
      BY <2>1
    <3>2. PICK k \in 1 .. Len(passed) : passed[k] = i
      BY <2>5, <3>1 DEF IInv, GateInv, LetThrough
    <3>3. i # n
      BY <2>2, <2>5
    <3>4. k < started
      <4>1. started < k => n < i
        BY <2>1, <3>2 DEF IInv, OrderInv
      <4>2. k # started
        BY <3>2, <3>3
      <4> QED
        BY <2>1, <4>1, <4>2
    <3>5. k \in 1 .. finished
      BY <2>1, <3>4
    <3>6. IsCall(sent[i])
      BY <2>5 DEF IsCall, Calls, Sends
    <3> QED
      BY <2>5, <3>2, <3>5, <3>6 DEF IInv, FinishedInv
  <2> QED
    BY <2>2, <2>4, <2>5
<1> QED
  BY <1>1, LifecycleInvariant, PTL
================================================================================
