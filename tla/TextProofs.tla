------------------------------- MODULE TextProofs -------------------------------
(***************************************************************************)
(* Proofs about TextIndex and TextFeatures: byte offsets and the editor's  *)
(* positions are the same places in every text; formatting, selections and *)
(* the word at the cursor, which are found in both, are what they should   *)
(* be in every text that a session can come to.                            *)
(***************************************************************************)
EXTENDS TextFeatures, NumberLemmas, SequenceTheorems

------------------------------------------------------------------------------
(* What the recursive functions of TextIndex compute.                      *)
Sized == [DOMAIN Bytes -> 1..4]

(* The sizes of prefixes: each rune adds its own.                          *)
LEMMA SizesAdd ==
  ASSUME NEW runes \in Seq(DOMAIN Bytes), NEW size \in Sized
  PROVE  /\ Sizes(size, runes) \in [0..Len(runes) -> Nat]
         /\ Sizes(size, runes)[0] = 0
         /\ \A n \in 1..Len(runes) :
              Sizes(size, runes)[n] = Sizes(size, runes)[n - 1] + size[runes[n]]
  <1> DEFINE N == Len(runes)
             Is(g) == g = [n \in 0..N |-> IF n = 0 THEN 0 ELSE g[n - 1] + size[runes[n]]]
             sum == CHOOSE g : Is(g)
             step == [n \in 1..N |-> [x \in Nat |-> x + size[runes[n]]]]
  <1>1. N \in Nat /\ \A n \in 1..N : size[runes[n]] \in Nat
    BY DEF Sized
  <1>2. \E f \in [0..N -> Nat] : FollowsSteps(f, N, 0, step)
    <2>1. step \in [1..N -> [Nat -> Nat]]
      BY <1>1
    <2>. HIDE DEF N, step
    <2>2. QED
      BY <1>1, <2>1, Recursion
  <1>3. PICK f \in [0..N -> Nat] : f[0] = 0 /\ \A n \in 1..N : f[n] = step[n][f[n - 1]]
    BY <1>2 DEF FollowsSteps
  <1>4. \A n \in 1..N : n - 1 \in 0..N /\ f[n - 1] \in Nat
    <2>1. \A n \in 1..N : n - 1 \in 0..N
      BY <1>1
    <2>2. QED
      BY <1>3, <2>1
  <1>5. \A n \in 1..N : f[n] = f[n - 1] + size[runes[n]]
    BY <1>3, <1>4
  <1>. HIDE DEF N, step
  <1>6. Is(f)
    <2>1. \A n \in 0..N : n = 0 \/ n \in 1..N
      BY <1>1
    <2>2. QED
      BY <1>3, <1>5, <2>1
  <1>7. Is(sum)
    <2>. HIDE DEF Is
    <2> QED
      BY <1>6
  <1>. HIDE DEF sum
  <1>8. \A n \in 0..N : sum[n] = f[n]
    <2> DEFINE S == {m \in 0..N : sum[m] = f[m]}
    <2>1. 0 \in 0..N /\ \A n \in 1..N : n \in 0..N /\ n # 0
      BY <1>1
    <2>2. 0 \in S
      BY <1>3, <1>7, <2>1
    <2>3. \A n \in 1..N : n - 1 \in S => n \in S
      BY <1>5, <1>7, <2>1
    <2>4. \A n \in 0..N : n \in S
      <3>. HIDE DEF S
      <3> QED
        BY <1>1, <2>2, <2>3, UpTo
    <2>5. QED
      BY <2>4
  <1>9. Sizes(size, runes) = [n \in 0..N |-> sum[n]]
    BY DEF Sizes, sum, N
  <1>10. 0 \in 0..N /\ \A n \in 1..N : n \in 0..N
    BY <1>1
  <1>11. \A n \in 0..N : Sizes(size, runes)[n] = f[n]
    BY <1>8, <1>9
  <1>12. Sizes(size, runes) = f
    BY <1>8, <1>9
  <1>13. QED
    BY <1>3, <1>5, <1>12 DEF N

Places == [line : Nat, character : Nat]

NextPlace(pos, r) ==
  IF r = Newline THEN [line |-> pos.line + 1, character |-> 0]
  ELSE [line |-> pos.line, character |-> pos.character + Units[r]]

(* Where the editor sees the ends of prefixes.                             *)
LEMMA PositionsAdvance ==
  ASSUME NEW runes \in Seq(DOMAIN Bytes)
  PROVE  /\ EditorPositions(runes) \in [0..Len(runes) -> Places]
         /\ EditorPositions(runes)[0] = [line |-> 0, character |-> 0]
         /\ \A n \in 1..Len(runes) :
              EditorPositions(runes)[n] = NextPlace(EditorPositions(runes)[n - 1], runes[n])
  <1> DEFINE N == Len(runes)
             origin == [line |-> 0, character |-> 0]
             next(pos, r) == IF r = Newline THEN [line |-> pos.line + 1, character |-> 0]
                             ELSE [pos EXCEPT !.character = @ + Units[r]]
             Is(g) == g = [n \in 0..N |-> IF n = 0 THEN origin ELSE next(g[n - 1], runes[n])]
             positions == CHOOSE g : Is(g)
             step == [n \in 1..N |-> [x \in Places |-> NextPlace(x, runes[n])]]
  <1>1. N \in Nat /\ origin \in Places /\ \A n \in 1..N : runes[n] \in DOMAIN Bytes
    BY DEF Places
  <1>2. ASSUME NEW x \in Places, NEW r \in DOMAIN Bytes
        PROVE  NextPlace(x, r) \in Places /\ next(x, r) = NextPlace(x, r)
    <2>1. Units[r] \in Nat /\ x.line \in Nat /\ x.character \in Nat
      BY RuneAssumption DEF Places
    <2>2. x = [line |-> x.line, character |-> x.character]
      BY DEF Places
    <2>3. [x EXCEPT !.character = @ + Units[r]]
            = [line |-> x.line, character |-> x.character + Units[r]]
      BY DEF Places
    <2>4. QED
      BY <2>1, <2>3 DEF NextPlace, Places
  <1>. HIDE DEF next, origin
  <1>3. \E f \in [0..N -> Places] : FollowsSteps(f, N, origin, step)
    <2>1. step \in [1..N -> [Places -> Places]]
      BY <1>1, <1>2
    <2>. HIDE DEF N, step
    <2>2. QED
      BY <1>1, <2>1, Recursion
  <1>4. PICK f \in [0..N -> Places] : f[0] = origin /\ \A n \in 1..N : f[n] = step[n][f[n - 1]]
    BY <1>3 DEF FollowsSteps
  <1>5. \A n \in 1..N : n - 1 \in 0..N /\ f[n - 1] \in Places
    BY <1>1, <1>4
  <1>6. \A n \in 1..N : f[n] = NextPlace(f[n - 1], runes[n])
    BY <1>4, <1>5
  <1>7. \A n \in 1..N : f[n] = next(f[n - 1], runes[n])
    BY <1>1, <1>2, <1>5, <1>6
  <1>. HIDE DEF N, step
  <1>8. Is(f)
    <2>1. \A n \in 0..N : n = 0 \/ n \in 1..N
      BY <1>1
    <2>2. QED
      BY <1>4, <1>7, <2>1
  <1>9. Is(positions)
    <2>. HIDE DEF Is
    <2> QED
      BY <1>8
  <1>. HIDE DEF positions
  <1>10. \A n \in 0..N : positions[n] = f[n]
    <2> DEFINE S == {m \in 0..N : positions[m] = f[m]}
    <2>1. 0 \in 0..N /\ \A n \in 1..N : n \in 0..N /\ n # 0
      BY <1>1
    <2>2. 0 \in S
      BY <1>4, <1>9, <2>1
    <2>3. \A n \in 1..N : n - 1 \in S => n \in S
      BY <1>7, <1>9, <2>1
    <2>4. \A n \in 0..N : n \in S
      <3>. HIDE DEF S
      <3> QED
        BY <1>1, <2>2, <2>3, UpTo
    <2>5. QED
      BY <2>4
  <1>11. EditorPositions(runes) = [n \in 0..N |-> positions[n]]
    BY DEF EditorPositions, positions, N, next, origin
  <1>12. EditorPositions(runes) = f
    BY <1>10, <1>11
  <1>13. QED
    BY <1>4, <1>6, <1>12 DEF N, origin

NextStarts(starts, r, b) == IF r = Newline THEN Append(starts, b) ELSE starts

(* The starts of the lines of prefixes: each newline adds one.             *)
LEMMA LinesStart ==
  ASSUME NEW runes \in Seq(DOMAIN Bytes)
  PROVE  \E f \in [0..Len(runes) -> Seq(Nat)] :
           /\ f[0] = << 0 >>
           /\ \A n \in 1..Len(runes) :
                f[n] = NextStarts(f[n - 1], runes[n], Sizes(Bytes, runes)[n])
           /\ newTextIndex(runes).lineStarts = f[Len(runes)]
  <1> DEFINE N == Len(runes)
             bytes == Sizes(Bytes, runes)
             next(s, n) == IF runes[n] = Newline THEN Append(s, bytes[n]) ELSE s
             Is(g) == g = [n \in 0..N |-> IF n = 0 THEN << 0 >>
                                          ELSE IF runes[n] = Newline
                                               THEN Append(g[n - 1], bytes[n]) ELSE g[n - 1]]
             starts == CHOOSE g : Is(g)
             step == [n \in 1..N |-> [s \in Seq(Nat) |-> next(s, n)]]
  <1>1. N \in Nat /\ bytes \in [0..N -> Nat] /\ << 0 >> \in Seq(Nat)
    <2>1. Bytes \in Sized
      BY RuneAssumption DEF Sized
    <2>2. QED
      BY <2>1, SizesAdd
  <1>2. newTextIndex(runes).lineStarts = starts[N]
    BY DEF newTextIndex
  <1>. HIDE DEF N, bytes
  <1>3. ASSUME NEW n \in 1..N, NEW s \in Seq(Nat) PROVE next(s, n) \in Seq(Nat)
    <2>1. n \in 0..N
      BY <1>1
    <2>2. bytes[n] \in Nat
      BY <1>1, <2>1
    <2>3. QED
      BY <2>2
  <1>4. \E f \in [0..N -> Seq(Nat)] : FollowsSteps(f, N, << 0 >>, step)
    <2>. HIDE DEF next
    <2>1. step \in [1..N -> [Seq(Nat) -> Seq(Nat)]]
      BY <1>3
    <2>. HIDE DEF step
    <2>2. QED
      BY <1>1, <2>1, Recursion
  <1>5. PICK f \in [0..N -> Seq(Nat)] :
          f[0] = << 0 >> /\ \A n \in 1..N : f[n] = step[n][f[n - 1]]
    BY <1>4 DEF FollowsSteps
  <1>6. \A n \in 1..N : n - 1 \in 0..N /\ f[n - 1] \in Seq(Nat)
    <2>1. \A n \in 1..N : n - 1 \in 0..N
      BY <1>1
    <2>2. QED
      BY <1>5, <2>1
  <1>7. \A n \in 1..N : f[n] = next(f[n - 1], n)
    <2>. HIDE DEF next
    <2>1. QED
      BY <1>5, <1>6
  <1>. HIDE DEF step
  <1>8. Is(f)
    <2>1. \A n \in 0..N : n = 0 \/ n \in 1..N
      BY <1>1
    <2>2. QED
      BY <1>5, <1>7, <2>1
  <1>9. Is(starts)
    <2>. HIDE DEF Is
    <2> QED
      BY <1>8
  <1>. HIDE DEF starts
  <1>10. \A n \in 0..N : starts[n] = f[n]
    <2> DEFINE S == {m \in 0..N : starts[m] = f[m]}
    <2>1. 0 \in 0..N /\ \A n \in 1..N : n \in 0..N /\ n # 0
      BY <1>1
    <2>2. 0 \in S
      BY <1>5, <1>9, <2>1
    <2>3. \A n \in 1..N : n - 1 \in S => n \in S
      BY <1>7, <1>9, <2>1
    <2>4. \A n \in 0..N : n \in S
      <3>. HIDE DEF S
      <3> QED
        BY <1>1, <2>2, <2>3, UpTo
    <2>5. QED
      BY <2>4
  <1>11. newTextIndex(runes).lineStarts = f[N]
    <2>1. N \in 0..N
      BY <1>1
    <2>2. QED
      BY <1>2, <1>10, <2>1
  <1>12. QED
    BY <1>5, <1>7, <1>11 DEF N, bytes, NextStarts

------------------------------------------------------------------------------
(* A text, seen from its prefixes: NL are those that end with a newline, B *)
(* their bytes, U their units, P where they end.                           *)
Layout(N, NL, B, U, P) ==
  /\ N \in Nat /\ NL \subseteq 1..N
  /\ B \in [0..N -> Nat] /\ U \in [0..N -> Nat] /\ P \in [0..N -> Places]
  /\ B[0] = 0 /\ P[0] = [line |-> 0, character |-> 0]
  /\ \A n \in 1..N : B[n - 1] < B[n] /\ U[n - 1] < U[n]
  /\ \A n \in NL : B[n] = B[n - 1] + 1 /\ P[n] = [line |-> P[n - 1].line + 1, character |-> 0]
  /\ \A n \in (1..N) \ NL :
       P[n] = [line |-> P[n - 1].line,
               character |-> P[n - 1].character + (U[n] - U[n - 1])]

\* The start of line l is prefix k.
StartsLine(NL, P, k, l) == P[k] = [line |-> l - 1, character |-> 0] /\ (k = 0 \/ k \in NL)

Lines(N, NL, B, P, S) ==
  /\ S \in Seq(Nat)
  /\ Len(S) = P[N].line + 1
  /\ \A l \in 1..Len(S) : \E k \in 0..N : S[l] = B[k] /\ StartsLine(NL, P, k, l)

(* What grows at each step grows.                                          *)
LEMMA Increasing ==
  ASSUME NEW N \in Nat, NEW B \in [0..N -> Nat], \A n \in 1..N : B[n - 1] < B[n]
  PROVE  \A m, n \in 0..N : m < n => B[m] < B[n]
  <1> DEFINE S == {n \in 0..N : \A m \in 0..N : m < n => B[m] < B[n]}
  <1>1. 0 \in S
    OBVIOUS
  <1>2. ASSUME NEW n \in 1..N, n - 1 \in S PROVE n \in S
    <2>1. \A m \in 0..N : m < n - 1 => B[m] < B[n - 1]
      BY <1>2
    <2>2. /\ n \in 0..N /\ n - 1 \in 0..N /\ B[n - 1] < B[n] /\ B[n] \in Nat
          /\ B[n - 1] \in Nat /\ \A m \in 0..N : B[m] \in Nat
      OBVIOUS
    <2>3. \A m \in 0..N : m < n => m < n - 1 \/ m = n - 1
      OBVIOUS
    <2>4. ASSUME NEW m \in 0..N, m < n PROVE B[m] < B[n]
      <3>1. CASE m = n - 1
        BY <2>2, <3>1
      <3>2. CASE m < n - 1
        <4>1. B[m] < B[n - 1] /\ B[m] \in Nat
          BY <2>1, <3>2
        <4>2. QED
          BY <2>2, <4>1
      <3>3. QED
        BY <2>3, <2>4, <3>1, <3>2
    <2>5. QED
      BY <2>2, <2>4
  <1>3. \A n \in 0..N : n \in S
    <2>. HIDE DEF S
    <2>1. \A n \in 1..N : n - 1 \in S => n \in S
      BY <1>2
    <2>2. QED
      BY <1>1, <2>1, UpTo
  <1>4. QED
    BY <1>3

(* Along a text lines only go up, and in a line characters are units.      *)
LEMMA LinesAdvance ==
  ASSUME NEW N, NEW NL, NEW B, NEW U, NEW P, Layout(N, NL, B, U, P)
  PROVE  \A n \in 0..N : \A m \in 0..n :
           /\ P[m].line <= P[n].line
           /\ P[m].line = P[n].line => P[n].character = P[m].character + (U[n] - U[m])
  <1> DEFINE Ahead(m, n) ==
               /\ P[m].line <= P[n].line
               /\ P[m].line = P[n].line => P[n].character = P[m].character + (U[n] - U[m])
             S == {n \in 0..N : \A m \in 0..n : Ahead(m, n)}
  <1>1. /\ N \in Nat /\ NL \subseteq 1..N
        /\ \A n \in 0..N : P[n].line \in Nat /\ P[n].character \in Nat /\ U[n] \in Nat
    BY DEF Layout, Places
  <1>2. \A n \in 0..N : Ahead(n, n)
    BY <1>1
  <1>3. 0 \in S
    BY <1>1, <1>2
  <1>4. ASSUME NEW n \in 1..N, n - 1 \in S PROVE n \in S
    <2>1. n \in 0..N /\ n - 1 \in 0..N /\ \A m \in 0..(n - 1) : m \in 0..N
      BY <1>1
    <2>2. /\ P[n].line \in Nat /\ P[n].character \in Nat /\ U[n] \in Nat
          /\ P[n - 1].line \in Nat /\ P[n - 1].character \in Nat /\ U[n - 1] \in Nat
      BY <1>1, <2>1
    <2>3. \/ P[n].line = P[n - 1].line + 1
          \/ /\ P[n].line = P[n - 1].line
             /\ P[n].character = P[n - 1].character + (U[n] - U[n - 1])
      <3>1. CASE n \in NL
        <4>1. P[n] = [line |-> P[n - 1].line + 1, character |-> 0]
          BY <3>1 DEF Layout
        <4>2. QED
          BY <4>1
      <3>2. CASE n \notin NL
        <4>1. P[n] = [line |-> P[n - 1].line,
                      character |-> P[n - 1].character + (U[n] - U[n - 1])]
          BY <3>2 DEF Layout
        <4>2. QED
          BY <4>1
      <3>3. QED
        BY <3>1, <3>2
    <2>4. ASSUME NEW m \in 0..(n - 1) PROVE Ahead(m, n)
      <3>1. Ahead(m, n - 1)
        BY <1>4
      <3>2. P[m].line \in Nat /\ P[m].character \in Nat /\ U[m] \in Nat
        BY <1>1, <2>1
      <3>3. QED
        BY <2>2, <2>3, <3>1, <3>2
    <2>5. \A m \in 0..n : m = n \/ m \in 0..(n - 1)
      BY <2>1
    <2>6. \A m \in 0..n : Ahead(m, n)
      <3>. HIDE DEF Ahead
      <3> QED
        BY <1>2, <2>1, <2>4, <2>5
    <2>7. QED
      BY <2>1, <2>6
  <1>5. \A n \in 0..N : n \in S
    <2>. HIDE DEF S
    <2>1. \A n \in 1..N : n - 1 \in S => n \in S
      BY <1>4
    <2>2. QED
      BY <1>1, <1>3, <2>1, UpTo
  <1>6. QED
    BY <1>5

Newlines(runes) == {n \in 1..Len(runes) : runes[n] = Newline}

(* Every text has such a layout.                                           *)
LEMMA TextLayout ==
  ASSUME NEW runes \in Seq(DOMAIN Bytes)
  PROVE  Layout(Len(runes), Newlines(runes), Sizes(Bytes, runes), Sizes(Units, runes),
                EditorPositions(runes))
  <1> DEFINE N == Len(runes)
             B == Sizes(Bytes, runes)
             U == Sizes(Units, runes)
             P == EditorPositions(runes)
  <1>1. Bytes \in Sized /\ Units \in Sized
    <2>1. Units \in [DOMAIN Bytes -> 1..4]
      <3>1. \A r \in DOMAIN Bytes : Units[r] \in 1..4
        BY RuneAssumption
      <3>2. QED
        BY <3>1, RuneAssumption
    <2>2. QED
      BY <2>1, RuneAssumption DEF Sized
  <1>2. /\ N \in Nat
        /\ \A n \in 1..N : runes[n] \in DOMAIN Bytes
    OBVIOUS
  <1>3. \A n \in 1..N : Bytes[runes[n]] \in 1..4 /\ Units[runes[n]] \in 1..4
    BY <1>1, <1>2 DEF Sized
  <1>4. /\ B \in [0..N -> Nat] /\ B[0] = 0
        /\ \A n \in 1..N : B[n] = B[n - 1] + Bytes[runes[n]]
    BY <1>1, SizesAdd
  <1>5. /\ U \in [0..N -> Nat] /\ U[0] = 0
        /\ \A n \in 1..N : U[n] = U[n - 1] + Units[runes[n]]
    BY <1>1, SizesAdd
  <1>6. /\ P \in [0..N -> Places] /\ P[0] = [line |-> 0, character |-> 0]
        /\ \A n \in 1..N : P[n] = NextPlace(P[n - 1], runes[n])
    BY PositionsAdvance
  <1>. HIDE DEF N, B, U, P
  <1>7. \A n \in 1..N : n - 1 \in 0..N /\ n \in 0..N
    BY <1>2
  <1>8. \A n \in 1..N : B[n - 1] \in Nat /\ U[n - 1] \in Nat /\ B[n] \in Nat /\ U[n] \in Nat
    BY <1>4, <1>5, <1>7
  <1>9. ASSUME NEW n \in 1..N
        PROVE  B[n - 1] < B[n] /\ U[n - 1] < U[n] /\ Units[runes[n]] = U[n] - U[n - 1]
    <2>1. /\ B[n - 1] \in Nat /\ U[n - 1] \in Nat
          /\ Bytes[runes[n]] \in 1..4 /\ Units[runes[n]] \in 1..4
      BY <1>3, <1>8
    <2>2. B[n] = B[n - 1] + Bytes[runes[n]] /\ U[n] = U[n - 1] + Units[runes[n]]
      BY <1>4, <1>5
    <2>3. B[n - 1] < B[n]
      BY <2>1, <2>2
    <2>4. U[n - 1] < U[n] /\ Units[runes[n]] = U[n] - U[n - 1]
      BY <2>1, <2>2
    <2>5. QED
      BY <2>3, <2>4
  <1>10. \A n \in Newlines(runes) : n \in 1..N /\ runes[n] = Newline
    BY DEF Newlines, N
  <1>11. ASSUME NEW n \in Newlines(runes)
         PROVE  B[n] = B[n - 1] + 1 /\ P[n] = [line |-> P[n - 1].line + 1, character |-> 0]
    <2>1. n \in 1..N /\ runes[n] = Newline /\ Bytes[Newline] = 1
      BY <1>10, RuneAssumption
    <2>2. B[n] = B[n - 1] + 1
      BY <1>4, <2>1
    <2>3. QED
      BY <1>6, <2>1, <2>2 DEF NextPlace
  <1>12. \A n \in (1..N) \ Newlines(runes) : runes[n] # Newline
    BY DEF Newlines, N
  <1>13. \A n \in (1..N) \ Newlines(runes) :
           P[n] = [line |-> P[n - 1].line,
                   character |-> P[n - 1].character + (U[n] - U[n - 1])]
    BY <1>6, <1>9, <1>12 DEF NextPlace
  <1>14. Newlines(runes) \subseteq 1..N
    BY <1>10
  <1>15. QED
    BY <1>2, <1>4, <1>5, <1>6, <1>9, <1>11, <1>13, <1>14 DEF Layout, N, B, U, P

(* ... and its lines start where newTextIndex says.                        *)
LEMMA TextLines ==
  ASSUME NEW runes \in Seq(DOMAIN Bytes)
  PROVE  Lines(Len(runes), Newlines(runes), Sizes(Bytes, runes), EditorPositions(runes),
               newTextIndex(runes).lineStarts)
  <1> DEFINE N == Len(runes)
             NL == Newlines(runes)
             B == Sizes(Bytes, runes)
             U == Sizes(Units, runes)
             P == EditorPositions(runes)
             S == newTextIndex(runes).lineStarts
  <1>1. PICK f \in [0..N -> Seq(Nat)] :
          /\ f[0] = << 0 >>
          /\ \A n \in 1..N : f[n] = NextStarts(f[n - 1], runes[n], B[n])
          /\ S = f[N]
    BY LinesStart
  <1>2. Layout(N, NL, B, U, P)
    BY TextLayout
  <1>3. \A n \in 1..N : n \in NL <=> runes[n] = Newline
    BY DEF Newlines
  <1>. HIDE DEF N, NL, B, U, P, S
  <1> DEFINE T == {n \in 0..N : Lines(n, NL, B, P, f[n])}
  <1>4. N \in Nat /\ NL \subseteq 1..N /\ B[0] = 0 /\ P[0] = [line |-> 0, character |-> 0]
    BY <1>2 DEF Layout
  <1>5. 0 \in T
    <2>1. << 0 >> \in Seq(Nat) /\ Len(<< 0 >>) = 1 /\ << 0 >>[1] = 0
      OBVIOUS
    <2>2. P[0].line + 1 = 1 /\ P[0] = [line |-> 1 - 1, character |-> 0] /\ 0 \in 0..0
      BY <1>4
    <2>3. \A l \in 1..1 : << 0 >>[l] = B[0] /\ StartsLine(NL, P, 0, l)
      BY <1>4, <2>1, <2>2 DEF StartsLine
    <2>4. Lines(0, NL, B, P, << 0 >>)
      BY <2>1, <2>2, <2>3 DEF Lines
    <2>5. QED
      BY <1>1, <1>4, <2>4
  <1>6. ASSUME NEW n \in 1..N, n - 1 \in T PROVE n \in T
    <2>1. n \in 0..N /\ n - 1 \in 0..N /\ \A k \in 0..(n - 1) : k \in 0..n
      BY <1>4
    <2>2. Lines(n - 1, NL, B, P, f[n - 1])
      BY <1>6
    <2>3. f[n - 1] \in Seq(Nat) /\ Len(f[n - 1]) = P[n - 1].line + 1
      BY <2>2 DEF Lines
    <2>4. P[n - 1].line \in Nat /\ P[n].line \in Nat /\ B[n] \in Nat
      BY <1>2, <2>1 DEF Layout, Places
    <2>5. CASE n \in NL
      <3>1. P[n] = [line |-> P[n - 1].line + 1, character |-> 0]
        BY <1>2, <2>5 DEF Layout
      <3>2. f[n] = Append(f[n - 1], B[n])
        BY <1>1, <1>3, <2>5 DEF NextStarts
      <3>3. /\ f[n] \in Seq(Nat) /\ Len(f[n]) = Len(f[n - 1]) + 1
            /\ \A l \in 1..Len(f[n - 1]) : f[n][l] = f[n - 1][l]
            /\ f[n][Len(f[n])] = B[n]
        BY <2>3, <2>4, <3>2
      <3>4. Len(f[n]) = P[n].line + 1
        BY <2>3, <3>1, <3>3
      <3>5. ASSUME NEW l \in 1..Len(f[n])
            PROVE  \E k \in 0..n : f[n][l] = B[k] /\ StartsLine(NL, P, k, l)
        <4>1. CASE l = Len(f[n])
          <5>1. l - 1 = P[n - 1].line + 1
            BY <2>3, <2>4, <3>3, <4>1
          <5>2. StartsLine(NL, P, n, l)
            BY <2>5, <3>1, <5>1 DEF StartsLine
          <5>3. n \in 0..n
            BY <2>1
          <5>4. QED
            BY <3>3, <4>1, <5>2, <5>3
        <4>2. CASE l # Len(f[n])
          <5>1. l \in 1..Len(f[n - 1])
            BY <2>3, <2>4, <3>3, <4>2
          <5>2. PICK k \in 0..(n - 1) : f[n - 1][l] = B[k] /\ StartsLine(NL, P, k, l)
            BY <2>2, <5>1 DEF Lines
          <5>3. QED
            BY <2>1, <3>3, <5>1, <5>2
        <4>3. QED
          BY <4>1, <4>2
      <3>6. Lines(n, NL, B, P, f[n])
        BY <3>3, <3>4, <3>5 DEF Lines
      <3>7. QED
        BY <2>1, <3>6
    <2>6. CASE n \notin NL
      <3>1. P[n].line = P[n - 1].line
        <4>1. P[n] = [line |-> P[n - 1].line,
                      character |-> P[n - 1].character + (U[n] - U[n - 1])]
          BY <1>2, <2>6 DEF Layout
        <4>2. QED
          BY <4>1
      <3>2. f[n] = f[n - 1]
        BY <1>1, <1>3, <2>6 DEF NextStarts
      <3>3. \A l \in 1..Len(f[n]) : \E k \in 0..n : f[n][l] = B[k] /\ StartsLine(NL, P, k, l)
        BY <2>1, <2>2, <3>2 DEF Lines
      <3>4. Lines(n, NL, B, P, f[n])
        BY <2>3, <3>1, <3>2, <3>3 DEF Lines
      <3>5. QED
        BY <2>1, <3>4
    <2>7. QED
      BY <2>5, <2>6
  <1>7. \A n \in 0..N : n \in T
    <2>. HIDE DEF T
    <2>1. \A n \in 1..N : n - 1 \in T => n \in T
      BY <1>6
    <2>2. QED
      BY <1>4, <1>5, <2>1, UpTo
  <1>8. Lines(N, NL, B, P, f[N])
    BY <1>4, <1>7
  <1>9. QED
    BY <1>1, <1>8 DEF N, NL, B, P, S

------------------------------------------------------------------------------
(* What an index of such a text finds.                                     *)
IsIndex(index, N, B, U, S) ==
  /\ DOMAIN index.bytes = 0..N
  /\ Len(index.runes) = N
  /\ index.bytes = B /\ index.units = U /\ index.lineStarts = S

(* The runes before an offset: up to the first that ends after it.         *)
LEMMA RunesBeforeIs ==
  ASSUME NEW N, NEW NL, NEW B, NEW U, NEW P, NEW S, Layout(N, NL, B, U, P),
         NEW index, IsIndex(index, N, B, U, S),
         NEW m \in 0..N, NEW o \in Int, B[m] <= o, m < N => o < B[m + 1]
  PROVE  RunesBefore(index, o) = m
  <1> DEFINE T == {n \in 0..N : B[n] <= o}
  <1>1. /\ N \in Nat /\ B \in [0..N -> Nat]
        /\ \A n, k \in 0..N : n < k => B[n] < B[k]
    <2>1. N \in Nat /\ B \in [0..N -> Nat] /\ \A n \in 1..N : B[n - 1] < B[n]
      BY DEF Layout
    <2>2. QED
      BY <2>1, Increasing
  <1>2. RunesBefore(index, o) = Max(T)
    BY DEF RunesBefore, IsIndex
  <1>3. ASSUME NEW n \in T PROVE n <= m
    <2>1. SUFFICES ASSUME m < n PROVE FALSE
      BY <1>1
    <2>2. m < N /\ m + 1 \in 0..N /\ (m + 1 = n \/ m + 1 < n) /\ n \in 0..N
      BY <1>1, <2>1
    <2>3. B[m + 1] <= B[n] /\ B[n] <= o /\ o < B[m + 1] /\ B[n] \in Nat /\ B[m + 1] \in Nat
      BY <1>1, <2>2
    <2>4. QED
      BY <2>3
  <1>4. m \in T /\ T \subseteq Int
    BY <1>1
  <1>. HIDE DEF T
  <1>5. QED
    BY <1>2, <1>3, <1>4, MaxIs

(* Exactly the prefixes from where a line starts reach it.                 *)
LEMMA LineBegins ==
  ASSUME NEW N, NEW NL, NEW B, NEW U, NEW P, Layout(N, NL, B, U, P),
         NEW k \in 0..N, NEW l \in Nat, StartsLine(NL, P, k, l), NEW n \in 0..N
  PROVE  k <= n <=> l - 1 <= P[n].line
  <1>1. N \in Nat /\ \A m \in 0..N : P[m].line \in Nat
    BY DEF Layout, Places
  <1>2. P[k].line = l - 1 /\ P[n].line \in Nat
    BY <1>1 DEF StartsLine
  <1>3. ASSUME k <= n PROVE l - 1 <= P[n].line
    <2>1. k \in 0..n
      BY <1>1, <1>3
    <2>2. QED
      BY <1>2, <2>1, LinesAdvance
  <1>4. ASSUME n < k PROVE P[n].line < l - 1
    <2>1. k \in NL
      BY <1>1, <1>4 DEF StartsLine
    <2>2. P[k] = [line |-> P[k - 1].line + 1, character |-> 0]
      BY <2>1 DEF Layout
    <2>3. n \in 0..(k - 1) /\ k - 1 \in 0..N
      BY <1>1, <1>4
    <2>4. P[n].line <= P[k - 1].line /\ P[k - 1].line \in Nat
      BY <1>1, <2>3, LinesAdvance
    <2>5. P[k].line = P[k - 1].line + 1
      BY <2>2
    <2>6. QED
      BY <1>2, <2>4, <2>5
  <1>5. k <= n \/ n < k
    BY <1>1
  <1>6. QED
    BY <1>1, <1>2, <1>3, <1>4, <1>5

(* The last line that starts at or before an offset is the one it is in.   *)
LEMMA LineAt ==
  ASSUME NEW N, NEW NL, NEW B, NEW U, NEW P, NEW S,
         Layout(N, NL, B, U, P), Lines(N, NL, B, P, S), NEW n \in 0..N
  PROVE  /\ P[n].line + 1 \in 1..Len(S)
         /\ \A i \in 1..Len(S) : S[i] <= B[n] <=> i <= P[n].line + 1
  <1> DEFINE l == P[n].line + 1
  <1>1. /\ N \in Nat /\ B \in [0..N -> Nat] /\ P[n].line \in Nat /\ P[N].line \in Nat
        /\ \A m, k \in 0..N : m < k => B[m] < B[k]
    <2>1. N \in Nat /\ B \in [0..N -> Nat] /\ \A m \in 1..N : B[m - 1] < B[m]
      BY DEF Layout
    <2>2. P[n].line \in Nat /\ P[N].line \in Nat
      <3>1. N \in 0..N
        BY <2>1
      <3>2. QED
        BY <3>1 DEF Layout, Places
    <2>3. QED
      BY <2>1, <2>2, Increasing
  <1>2. l \in 1..Len(S)
    <2>1. N \in 0..N /\ n \in 0..N
      BY <1>1
    <2>2. P[n].line <= P[N].line
      BY <2>1, LinesAdvance
    <2>3. Len(S) = P[N].line + 1
      BY DEF Lines
    <2>4. P[n].line \in Nat /\ P[N].line \in Nat
      BY <1>1
    <2>5. QED
      BY <2>2, <2>3, <2>4
  <1>3. ASSUME NEW i \in 1..Len(S) PROVE S[i] <= B[n] <=> i <= l
    <2>1. PICK k \in 0..N : S[i] = B[k] /\ StartsLine(NL, P, k, i)
      BY DEF Lines
    <2>2. i \in Nat /\ (k <= n <=> i - 1 <= P[n].line)
      <3>1. i \in Nat
        <4>1. Len(S) \in Nat
          BY DEF Lines
        <4>2. QED
          BY <4>1
      <3>2. QED
        BY <2>1, <3>1, LineBegins
    <2>3. k <= n <=> B[k] <= B[n]
      <3>1. B[k] \in Nat /\ B[n] \in Nat /\ (k < n => B[k] < B[n]) /\ (n < k => B[n] < B[k])
        BY <1>1
      <3>2. k < n \/ k = n \/ n < k
        BY <1>1
      <3>3. QED
        BY <1>1, <3>1, <3>2
    <2>4. i - 1 <= P[n].line <=> i <= l
      BY <1>1, <2>2
    <2>5. QED
      BY <2>1, <2>2, <2>3, <2>4
  <1>4. QED
    BY <1>2, <1>3

(* A byte offset between two runes is, for the server, where the editor    *)
(* sees it.                                                                *)
LEMMA PositionOfPrefix ==
  ASSUME NEW N, NEW NL, NEW B, NEW U, NEW P, NEW S,
         Layout(N, NL, B, U, P), Lines(N, NL, B, P, S),
         NEW index, IsIndex(index, N, B, U, S), NEW n \in 0..N
  PROVE  position(index, B[n]) = P[n]
  <1> DEFINE clamped == Min({Max({B[n], 0}), Size(index)})
             T == {i \in 1..Len(index.lineStarts) : index.lineStarts[i] <= clamped}
             line == SelectLastInSeq(index.lineStarts, LAMBDA s : s <= clamped)
             l == P[n].line + 1
  <1>1. /\ N \in Nat /\ B \in [0..N -> Nat] /\ B[n] \in Nat /\ B[N] \in Nat /\ N \in 0..N
        /\ \A m, k \in 0..N : m < k => B[m] < B[k]
    <2>1. N \in Nat /\ B \in [0..N -> Nat] /\ \A m \in 1..N : B[m - 1] < B[m]
      BY DEF Layout
    <2>2. N \in 0..N
      BY <2>1
    <2>3. QED
      BY <2>1, <2>2, Increasing
  <1>2. P[n] = [line |-> P[n].line, character |-> P[n].character]
    BY DEF Layout, Places
  <1>3. /\ P[n].line \in Nat /\ P[n].character \in Nat
        /\ \A m \in 0..N : U[m] \in Nat /\ P[m].character \in Nat
    BY DEF Layout, Places
  <1>4. clamped = B[n]
    <2>1. Size(index) = B[N]
      BY DEF Size, IsIndex
    <2>2. B[n] <= B[N]
      BY <1>1
    <2>3. Max({B[n], 0}) = B[n]
      <3>1. {B[n], 0} \subseteq Int /\ B[n] \in {B[n], 0} /\ \A y \in {B[n], 0} : y <= B[n]
        BY <1>1
      <3>2. QED
        BY <3>1, MaxIs
    <2>4. Min({B[n], B[N]}) = B[n]
      <3>1. {B[n], B[N]} \subseteq Int /\ B[n] \in {B[n], B[N]}
            /\ \A y \in {B[n], B[N]} : B[n] <= y
        BY <1>1, <2>2
      <3>2. QED
        BY <3>1, MinIs
    <2>5. QED
      BY <2>1, <2>3, <2>4
  <1>5. position(index, B[n])
          = [line |-> line - 1, character |-> utf16Length(index, index.lineStarts[line], clamped)]
    BY DEF position
  <1>6. line = IF T # {} THEN Max(T) ELSE 0
    BY DEF SelectLastInSeq
  <1>. HIDE DEF clamped, line
  <1>7. l \in 1..Len(S) /\ \A i \in 1..Len(S) : S[i] <= B[n] <=> i <= l
    BY LineAt
  <1>8. line = l
    <2>1. T = {i \in 1..Len(S) : S[i] <= B[n]}
      BY <1>4 DEF IsIndex
    <2>. HIDE DEF T
    <2>2. l \in T /\ T \subseteq Int /\ \A i \in T : i <= l
      BY <1>7, <2>1
    <2>. HIDE DEF l
    <2>3. QED
      BY <1>6, <2>2, MaxIs
  <1>9. PICK k \in 0..N : S[l] = B[k] /\ StartsLine(NL, P, k, l)
    BY <1>7 DEF Lines
  <1>10. k <= n
    <2>1. l \in Nat /\ l - 1 <= P[n].line
      BY <1>3
    <2>. HIDE DEF l
    <2>2. QED
      BY <1>9, <2>1, LineBegins
  <1>11. P[n].character = U[n] - U[k]
    <2>1. P[k].line = P[n].line /\ P[k].character = 0
      BY <1>3, <1>9 DEF StartsLine
    <2>2. k \in 0..n
      BY <1>1, <1>10
    <2>3. P[n].character = P[k].character + (U[n] - U[k])
      BY <2>1, <2>2, LinesAdvance
    <2>4. QED
      BY <1>3, <2>1, <2>3
  <1>12. \A m \in 0..N : RunesBefore(index, B[m]) = m
    <2>1. ASSUME NEW m \in 0..N PROVE RunesBefore(index, B[m]) = m
      <3>1. B[m] \in Int /\ B[m] <= B[m]
        BY <1>1
      <3>2. ASSUME m < N PROVE B[m] < B[m + 1]
        <4>1. m + 1 \in 0..N /\ m < m + 1
          BY <1>1, <3>2
        <4>2. QED
          BY <1>1, <4>1
      <3>3. QED
        BY <3>1, <3>2, RunesBeforeIs
    <2>2. QED
      BY <2>1
  <1>13. utf16Length(index, index.lineStarts[line], clamped) = P[n].character
    <2>1. RunesBefore(index, S[l]) = k /\ RunesBefore(index, B[n]) = n
      BY <1>9, <1>12
    <2>2. utf16Length(index, S[l], B[n]) = U[n] - U[k] + B[n] - B[n]
      BY <2>1 DEF utf16Length, IsIndex
    <2>3. index.lineStarts[line] = S[l]
      BY <1>8 DEF IsIndex
    <2>4. U[n] \in Nat /\ U[k] \in Nat
      BY <1>3
    <2>5. QED
      BY <1>1, <1>4, <1>11, <2>2, <2>3, <2>4
  <1>14. line - 1 = P[n].line
    BY <1>3, <1>8
  <1>15. QED
    BY <1>2, <1>5, <1>13, <1>14

(* The prefixes that end in a line: from where it starts to the next.      *)
LEMMA LineRunes ==
  ASSUME NEW N, NEW NL, NEW B, NEW U, NEW P, NEW S,
         Layout(N, NL, B, U, P), Lines(N, NL, B, P, S), NEW l \in 1..Len(S)
  PROVE  \E k, e \in 0..N :
           /\ S[l] = B[k] /\ P[k].character = 0 /\ k <= e
           /\ l = Len(S) => e = N
           /\ l # Len(S) => B[e] = S[l + 1] - 1
           /\ \A n \in 0..N : P[n].line = l - 1 <=> n \in k..e
  <1>1. /\ N \in Nat /\ N \in 0..N /\ NL \subseteq 1..N
        /\ \A n \in 0..N : P[n].line \in Nat /\ B[n] \in Nat
    BY DEF Layout, Places
  <1>2. Len(S) = P[N].line + 1 /\ l \in Nat /\ Len(S) \in Nat /\ 1 <= l /\ l <= Len(S)
    <2>1. Len(S) \in Nat /\ Len(S) = P[N].line + 1
      BY DEF Lines
    <2>2. QED
      BY <2>1
  <1>3. PICK k \in 0..N : S[l] = B[k] /\ StartsLine(NL, P, k, l)
    BY DEF Lines
  <1>4. P[k].line = l - 1 /\ P[k].character = 0
    BY <1>3 DEF StartsLine
  <1>5. \A n \in 0..N : k <= n <=> l - 1 <= P[n].line
    BY <1>2, <1>3, LineBegins
  <1>6. CASE l = Len(S)
    <2>1. \A n \in 0..N : P[n].line <= P[N].line
      BY <1>1, LinesAdvance
    <2>2. \A n \in 0..N : n \in k..N <=> k <= n
      BY <1>1
    <2>3. ASSUME NEW n \in 0..N PROVE P[n].line = l - 1 <=> n \in k..N
      <3>1. P[n].line \in Nat /\ P[N].line \in Nat /\ P[n].line <= P[N].line
        BY <1>1, <2>1
      <3>2. QED
        BY <1>2, <1>5, <1>6, <2>2, <3>1
    <2>4. k <= N
      BY <1>1
    <2>5. QED
      BY <1>1, <1>3, <1>4, <1>6, <2>3, <2>4
  <1>7. CASE l # Len(S)
    <2>1. l + 1 \in 1..Len(S) /\ l + 1 \in Nat
      BY <1>2, <1>7
    <2>2. PICK j \in 0..N : S[l + 1] = B[j] /\ StartsLine(NL, P, j, l + 1)
      BY <2>1 DEF Lines
    <2>3. P[j].line = l
      BY <1>2, <2>2 DEF StartsLine
    <2>4. \A n \in 0..N : j <= n <=> l <= P[n].line
      <3>1. \A n \in 0..N : j <= n <=> (l + 1) - 1 <= P[n].line
        BY <2>1, <2>2, LineBegins
      <3>2. (l + 1) - 1 = l
        BY <1>2
      <3>3. QED
        BY <3>1, <3>2
    <2>5. j \in NL
      <3>1. P[0].line = 0
        BY DEF Layout
      <3>2. j # 0
        BY <1>2, <2>3, <3>1
      <3>3. QED
        BY <2>2, <3>2 DEF StartsLine
    <2>6. B[j] = B[j - 1] + 1 /\ j - 1 \in 0..N
      <3>1. B[j] = B[j - 1] + 1
        BY <2>5 DEF Layout
      <3>2. QED
        BY <1>1, <2>5, <3>1
    <2>7. B[j - 1] = S[l + 1] - 1
      <3>1. B[j - 1] \in Nat
        BY <1>1, <2>6
      <3>2. QED
        BY <2>2, <2>6, <3>1
    <2>8. \A n \in 0..N : n \in k..(j - 1) <=> k <= n /\ ~(j <= n)
      BY <1>1
    <2>9. ASSUME NEW n \in 0..N PROVE P[n].line = l - 1 <=> n \in k..(j - 1)
      <3>1. P[n].line \in Nat
        BY <1>1
      <3>2. P[n].line = l - 1 <=> l - 1 <= P[n].line /\ ~(l <= P[n].line)
        BY <1>2, <3>1
      <3>3. QED
        BY <1>5, <2>4, <2>8, <3>2
    <2>10. k <= j - 1
      <3>1. k \in k..(j - 1)
        BY <1>4, <2>9
      <3>2. QED
        BY <1>1, <3>1
    <2>11. QED
      BY <1>3, <1>4, <1>7, <2>6, <2>7, <2>9, <2>10
  <1>8. QED
    BY <1>6, <1>7

(* The offset of any position is that of the last prefix that the editor   *)
(* sees at or before it, and ok exactly if the two are one place.          *)
LEMMA OffsetOfPlace ==
  ASSUME NEW N, NEW NL, NEW B, NEW U, NEW P, NEW S,
         Layout(N, NL, B, U, P), Lines(N, NL, B, P, S),
         NEW index, IsIndex(index, N, B, U, S), NEW pos \in Places
  PROVE  /\ byteOffset(index, pos).ok <=> \E n \in 0..N : pos = P[n]
         /\ byteOffset(index, pos).offset = B[EditorOffset(P, pos)]
  <1> DEFINE last == pos.line + 1 = Len(index.lineStarts)
             end == IF last THEN Size(index) ELSE index.lineStarts[pos.line + 2] - 1
             first == RunesBefore(index, index.lineStarts[pos.line + 1])
             reached == Max({n \in first..RunesBefore(index, end) :
                               index.units[n] - index.units[first] <= pos.character})
             l == pos.line + 1
             T == {n \in 0..N : ~Before(pos, P[n])}
  <1>1. /\ N \in Nat /\ N \in 0..N
        /\ B \in [0..N -> Nat] /\ U \in [0..N -> Nat] /\ P \in [0..N -> Places]
        /\ \A n \in 0..N : B[n] \in Nat /\ U[n] \in Nat
        /\ \A n \in 0..N : P[n].line \in Nat /\ P[n].character \in Nat
        /\ \A n \in 0..N : P[n] = [line |-> P[n].line, character |-> P[n].character]
    <2>1. /\ N \in Nat
          /\ B \in [0..N -> Nat] /\ U \in [0..N -> Nat] /\ P \in [0..N -> Places]
      BY DEF Layout
    <2>2. ASSUME NEW q \in Places
          PROVE  /\ q.line \in Nat /\ q.character \in Nat
                 /\ q = [line |-> q.line, character |-> q.character]
      BY DEF Places
    <2>3. \A n \in 0..N : B[n] \in Nat /\ U[n] \in Nat /\ P[n] \in Places
      BY <2>1
    <2>4. QED
      BY <2>1, <2>2, <2>3
  <1>2. /\ \A m, n \in 0..N : m < n => B[m] < B[n]
        /\ \A m, n \in 0..N : m < n => U[m] < U[n]
    <2>1. \A n \in 1..N : B[n - 1] < B[n] /\ U[n - 1] < U[n]
      BY DEF Layout
    <2>2. QED
      BY <1>1, <2>1, Increasing
  <1>3. /\ pos.line \in Nat /\ pos.character \in Nat
        /\ pos = [line |-> pos.line, character |-> pos.character]
    BY DEF Places
  <1>4. byteOffset(index, pos) =
          IF pos.line >= Len(index.lineStarts) THEN [offset |-> Size(index), ok |-> FALSE]
          ELSE [offset |-> index.bytes[reached],
                ok |-> index.units[reached] - index.units[first] = pos.character]
    BY DEF byteOffset
  <1>5. EditorOffset(P, pos) = Max(T)
    BY <1>1 DEF EditorOffset
  <1>6. Size(index) = B[N] /\ index.lineStarts = S /\ index.units = U /\ index.bytes = B
    BY DEF Size, IsIndex
  <1>7. Len(S) = P[N].line + 1 /\ Len(S) \in Nat
    BY DEF Lines
  <1>8. CASE pos.line >= Len(S)
    <2>1. \A n \in 0..N : P[n].line <= P[N].line
      BY <1>1, LinesAdvance
    <2>2. \A n \in 0..N : P[n].line < pos.line
      BY <1>1, <1>3, <1>7, <1>8, <2>1
    <2>3. N \in T
      BY <1>1, <1>3, <2>2 DEF Before
    <2>4. Max(T) = N
      <3>1. T \subseteq Int /\ \A n \in T : n <= N
        BY <1>1
      <3>. HIDE DEF T
      <3>2. QED
        BY <2>3, <3>1, MaxIs
    <2>5. ~ \E n \in 0..N : pos = P[n]
      BY <1>1, <1>3, <2>2
    <2>6. byteOffset(index, pos) = [offset |-> B[N], ok |-> FALSE]
      BY <1>4, <1>6, <1>8
    <2>7. QED
      BY <1>5, <2>4, <2>5, <2>6
  <1>9. CASE pos.line < Len(S)
    <2>1. l \in 1..Len(S) /\ l - 1 = pos.line
      BY <1>3, <1>7, <1>9
    <2>2. PICK k, e \in 0..N :
            /\ S[l] = B[k] /\ P[k].character = 0 /\ k <= e
            /\ l = Len(S) => e = N
            /\ l # Len(S) => B[e] = S[l + 1] - 1
            /\ \A n \in 0..N : P[n].line = l - 1 <=> n \in k..e
      <3>. HIDE DEF l
      <3> QED
        BY <2>1, LineRunes
    <2>3. ASSUME NEW n \in 0..N PROVE P[n].line = pos.line <=> n \in k..e
      BY <2>1, <2>2
    <2>4. first = k
      <3>1. B[k] \in Int /\ B[k] <= B[k]
        BY <1>1
      <3>2. ASSUME k < N PROVE B[k] < B[k + 1]
        <4>1. k + 1 \in 0..N /\ k < k + 1
          <5>1. N \in Nat /\ k \in 0..N
            BY <1>1
          <5>2. QED
            BY <3>2, <5>1
        <4>2. QED
          BY <1>2, <4>1
      <3>3. RunesBefore(index, B[k]) = k
        BY <3>1, <3>2, RunesBeforeIs
      <3>4. QED
        BY <1>6, <2>2, <3>3
    <2>5. RunesBefore(index, end) = e
      <3>1. end = B[e]
        <4>1. CASE l = Len(S)
          BY <1>6, <2>2, <4>1
        <4>2. CASE l # Len(S)
          <5>1. pos.line + 2 = l + 1
            BY <1>3
          <5>2. end = S[l + 1] - 1
            BY <1>6, <4>2, <5>1
          <5>3. QED
            BY <2>2, <4>2, <5>2
        <4>3. QED
          BY <4>1, <4>2
      <3>2. B[e] \in Int /\ B[e] <= B[e]
        BY <1>1
      <3>3. ASSUME e < N PROVE B[e] < B[e + 1]
        <4>1. e + 1 \in 0..N /\ e < e + 1
          <5>1. N \in Nat /\ e \in 0..N
            BY <1>1
          <5>2. QED
            BY <3>3, <5>1
        <4>2. QED
          BY <1>2, <4>1
      <3>. HIDE DEF end
      <3>4. QED
        BY <3>1, <3>2, <3>3, RunesBeforeIs
    <2> DEFINE R == {n \in k..e : U[n] - U[k] <= pos.character}
    <2>6. reached = Max(R)
      BY <1>6, <2>4, <2>5
    <2>7. \A n \in k..e : n \in 0..N /\ P[n].line = pos.line /\ P[n].character = U[n] - U[k]
      <3>1. ASSUME NEW n \in k..e
            PROVE  n \in 0..N /\ P[n].line = pos.line /\ P[n].character = U[n] - U[k]
        <4>1. n \in 0..N /\ k \in 0..n /\ k \in k..e
          <5>1. N \in Nat /\ k \in 0..N /\ e \in 0..N /\ k <= e
            BY <1>1, <2>2
          <5>2. QED
            BY <5>1
        <4>2. P[n].line = pos.line /\ P[k].line = pos.line
          BY <2>3, <4>1
        <4>3. P[n].character = P[k].character + (U[n] - U[k])
          BY <4>1, <4>2, LinesAdvance
        <4>4. U[n] \in Nat /\ U[k] \in Nat
          BY <1>1, <4>1
        <4>5. QED
          BY <2>2, <4>1, <4>2, <4>3, <4>4
      <3>2. QED
        BY <3>1
    <2>8. k \in R
      <3>1. k \in k..e
        BY <1>1, <2>2
      <3>2. U[k] \in Nat
        BY <1>1
      <3>3. U[k] - U[k] <= pos.character
        BY <1>3, <3>2
      <3>4. QED
        BY <3>1, <3>3
    <2> DEFINE r == Max(R)
    <2>9. r \in R /\ \A n \in R : n <= r
      <3>1. R \subseteq 0..N
        BY <2>7
      <3>. HIDE DEF R
      <3>2. QED
        BY <1>1, <2>8, <3>1, HasMax
    <2>. HIDE DEF r, first, reached, end
    <2>10. r \in 0..N /\ r \in k..e /\ P[r].line = pos.line /\ P[r].character = U[r] - U[k]
           /\ P[r].character <= pos.character
      BY <2>7, <2>9
    <2>11. Max(T) = r
      <3>1. r \in T
        <4>1. P[r].line \in Nat /\ P[r].character \in Nat
          BY <1>1, <2>10
        <4>2. ~Before(pos, P[r])
          BY <1>3, <2>10, <4>1 DEF Before
        <4>3. QED
          BY <2>10, <4>2
      <3>2. ASSUME NEW n \in T PROVE n <= r
        <4>1. SUFFICES ASSUME r < n PROVE FALSE
          BY <2>10
        <4>2. n \in 0..N /\ ~Before(pos, P[n])
          OBVIOUS
        <4>3. P[r].line <= P[n].line
          <5>1. r \in 0..n
            BY <2>10, <4>1, <4>2
          <5>2. QED
            BY <4>2, <5>1, LinesAdvance
        <4>4. P[n].line = pos.line /\ P[n].character <= pos.character
          <5>1. P[n].line \in Nat /\ P[n].character \in Nat
            BY <1>1, <4>2
          <5>2. QED
            BY <1>3, <2>10, <4>2, <4>3, <5>1 DEF Before
        <4>5. n \in k..e
          BY <2>3, <4>2, <4>4
        <4>6. n \in R
          BY <2>7, <4>4, <4>5
        <4>7. n <= r
          BY <2>9, <4>6
        <4>8. QED
          BY <2>10, <4>1, <4>2, <4>7
      <3>3. T \subseteq Int
        BY <1>1
      <3>. HIDE DEF T
      <3>4. QED
        BY <3>1, <3>2, <3>3, MaxIs
    <2>12. byteOffset(index, pos) = [offset |-> B[r], ok |-> U[r] - U[k] = pos.character]
      <3>1. ~(pos.line >= Len(index.lineStarts))
        BY <1>3, <1>6, <1>7, <1>9
      <3>2. byteOffset(index, pos)
              = [offset |-> index.bytes[reached],
                 ok |-> index.units[reached] - index.units[first] = pos.character]
        BY <1>4, <3>1
      <3>3. reached = r /\ first = k
        BY <2>4, <2>6 DEF r
      <3>4. QED
        BY <1>6, <3>2, <3>3
    <2>13. ASSUME U[r] - U[k] = pos.character PROVE \E n \in 0..N : pos = P[n]
      <3>1. P[r] = pos
        BY <1>1, <1>3, <2>10, <2>13
      <3>2. QED
        BY <2>10, <3>1
    <2>14. ASSUME NEW n \in 0..N, pos = P[n] PROVE U[r] - U[k] = pos.character
      <3>1. n \in k..e
        BY <2>3, <2>14
      <3>2. U[n] - U[k] = pos.character
        BY <2>7, <2>14, <3>1
      <3>3. n \in R
        BY <1>3, <3>1, <3>2
      <3>4. n <= r
        BY <2>9, <3>3
      <3>5. n = r \/ U[n] < U[r]
        BY <1>2, <2>10, <3>4
      <3>6. U[n] \in Nat /\ U[r] \in Nat /\ U[k] \in Nat
        BY <1>1, <2>2, <2>10
      <3>7. U[r] - U[k] <= pos.character
        BY <2>10
      <3>8. QED
        BY <1>3, <3>2, <3>5, <3>6, <3>7
    <2>15. /\ byteOffset(index, pos).ok <=> U[r] - U[k] = pos.character
           /\ byteOffset(index, pos).offset = B[r]
      <3> DEFINE same == U[r] - U[k] = pos.character
                 at == byteOffset(index, pos)
      <3>1. at = [offset |-> B[r], ok |-> same]
        BY <2>12
      <3>2. same \in BOOLEAN
        OBVIOUS
      <3>. HIDE DEF same, at
      <3>3. at.offset = B[r] /\ at.ok = same
        BY <3>1
      <3>4. (at.ok <=> same) /\ at.offset = B[r]
        BY <3>2, <3>3
      <3>5. QED
        BY <3>4 DEF same, at
    <2>16. QED
      BY <1>5, <2>11, <2>13, <2>14, <2>15
  <1>10. QED
    BY <1>3, <1>7, <1>8, <1>9

------------------------------------------------------------------------------
(* The index of a text, with the layout and the lines it has.              *)
LEMMA IndexOfText ==
  ASSUME NEW runes \in Seq(DOMAIN Bytes)
  PROVE  IsIndex(newTextIndex(runes), Len(runes), Sizes(Bytes, runes), Sizes(Units, runes),
                 newTextIndex(runes).lineStarts)
  <1>1. /\ newTextIndex(runes).runes = runes
        /\ newTextIndex(runes).bytes = Sizes(Bytes, runes)
        /\ newTextIndex(runes).units = Sizes(Units, runes)
    BY DEF newTextIndex
  <1>2. DOMAIN Sizes(Bytes, runes) = 0..Len(runes)
    <2>1. Bytes \in Sized
      BY RuneAssumption DEF Sized
    <2>2. QED
      BY <2>1, SizesAdd
  <1>3. QED
    BY <1>1, <1>2 DEF IsIndex

(* However the runes of a text are sized and wherever its lines break:     *)
(* textIndex.position has each offset between two runes where the editor   *)
(* has it, and textIndex.byteOffset has each of the editor's places at its *)
(* offset, and refuses what is none.                                       *)
THEOREM PositionsAgree ==
  ASSUME NEW runes \in Seq(DOMAIN Bytes)
  PROVE  LET index == newTextIndex(runes)
             positions == EditorPositions(runes)
         IN /\ \A n \in 0..Len(runes) : position(index, index.bytes[n]) = positions[n]
            /\ \A pos \in Places :
                 /\ byteOffset(index, pos).ok <=> \E n \in 0..Len(runes) : pos = positions[n]
                 /\ byteOffset(index, pos).offset = index.bytes[EditorOffset(positions, pos)]
  <1> DEFINE N == Len(runes)
             NL == Newlines(runes)
             B == Sizes(Bytes, runes)
             U == Sizes(Units, runes)
             P == EditorPositions(runes)
             index == newTextIndex(runes)
             S == index.lineStarts
  <1>1. Layout(N, NL, B, U, P) /\ Lines(N, NL, B, P, S) /\ IsIndex(index, N, B, U, S)
    BY TextLayout, TextLines, IndexOfText
  <1>2. index.bytes = B
    BY <1>1 DEF IsIndex
  <1>. HIDE DEF N, NL, B, U, P, index, S
  <1>3. \A n \in 0..N : position(index, B[n]) = P[n]
    BY <1>1, PositionOfPrefix
  <1>4. \A pos \in Places : /\ byteOffset(index, pos).ok <=> \E n \in 0..N : pos = P[n]
                            /\ byteOffset(index, pos).offset = B[EditorOffset(P, pos)]
    BY <1>1, OffsetOfPlace
  <1>5. QED
    BY <1>2, <1>3, <1>4 DEF N, P, index

(* So what textIndex converts to a position it converts back: no offset    *)
(* between two runes is lost on the way to the editor.                     *)
THEOREM OffsetsRoundTrip ==
  ASSUME NEW runes \in Seq(DOMAIN Bytes), NEW n \in 0..Len(runes)
  PROVE  LET index == newTextIndex(runes)
             at == byteOffset(index, position(index, index.bytes[n]))
         IN at.ok /\ at.offset = index.bytes[n]
  <1> DEFINE N == Len(runes)
             U == Sizes(Units, runes)
             P == EditorPositions(runes)
             index == newTextIndex(runes)
             T == {m \in 0..N : ~Before(P[n], P[m])}
  <1>1. Layout(N, Newlines(runes), Sizes(Bytes, runes), U, P)
    BY TextLayout
  <1>2. /\ position(index, index.bytes[n]) = P[n]
        /\ \A pos \in Places : /\ byteOffset(index, pos).ok <=> \E m \in 0..N : pos = P[m]
                               /\ byteOffset(index, pos).offset = index.bytes[EditorOffset(P, pos)]
    BY PositionsAgree
  <1>3. n \in 0..N
    OBVIOUS
  <1>. HIDE DEF N, U, P, index
  <1>4. /\ N \in Nat /\ P \in [0..N -> Places] /\ U \in [0..N -> Nat]
        /\ \A m \in 1..N : U[m - 1] < U[m]
        /\ \A m \in 0..N : P[m].line \in Nat /\ P[m].character \in Nat /\ U[m] \in Nat
    BY <1>1 DEF Layout, Places
  <1>5. \A m, k \in 0..N : m < k => U[m] < U[k]
    BY <1>4, Increasing
  <1>6. n \in T
    BY <1>3, <1>4 DEF Before
  <1>7. ASSUME NEW m \in T PROVE m <= n
    <2>1. SUFFICES ASSUME n < m PROVE FALSE
      BY <1>3, <1>4
    <2>2. m \in 0..N /\ n \in 0..m /\ ~Before(P[n], P[m])
      BY <1>3, <1>4, <2>1
    <2>3. /\ P[n].line <= P[m].line
          /\ P[n].line = P[m].line => P[m].character = P[n].character + (U[m] - U[n])
      BY <1>1, <2>2, LinesAdvance
    <2>4. U[n] < U[m]
      BY <1>3, <1>5, <2>1, <2>2
    <2>5. /\ P[n].line \in Nat /\ P[n].character \in Nat /\ U[n] \in Nat
          /\ P[m].line \in Nat /\ P[m].character \in Nat /\ U[m] \in Nat
      BY <1>3, <1>4, <2>2
    <2>6. CASE P[n].line = P[m].line
      <3>1. P[n].character < P[m].character
        BY <2>3, <2>4, <2>5, <2>6
      <3>2. QED
        BY <2>2, <2>6, <3>1 DEF Before
    <2>7. CASE P[n].line # P[m].line
      <3>1. P[n].line < P[m].line
        BY <2>3, <2>5, <2>7
      <3>2. QED
        BY <2>2, <3>1 DEF Before
    <2>8. QED
      BY <2>6, <2>7
  <1>8. Max(T) = n
    <2>1. T \subseteq Int
      BY <1>4
    <2>. HIDE DEF T
    <2>2. QED
      BY <1>6, <1>7, <2>1, MaxIs
  <1>9. EditorOffset(P, P[n]) = n
    BY <1>4, <1>8 DEF EditorOffset
  <1>10. P[n] \in Places
    BY <1>3, <1>4
  <1>11. QED
    BY <1>2, <1>3, <1>9, <1>10 DEF index

(* The places of a document are the editor's, in every text of runes.      *)
LEMMA TextPlaces ==
  ASSUME NEW runes \in Seq(DOMAIN Bytes), text.index = newTextIndex(runes)
  PROVE  PositionsAreTheEditors
  <1> DEFINE index == newTextIndex(runes)
             positions == EditorPositions(runes)
             end == position(index, Size(index))
             places == {positions[n] : n \in 0..Len(runes)}
             grid == [line : 0..(end.line + 1),
                      character : 0..(Max({p.character : p \in places}) + 1)]
  <1>1. text.index = index /\ index.runes = runes /\ Boundaries = 0..Len(runes)
    BY DEF newTextIndex, Boundaries
  <1>2. /\ \A n \in 0..Len(runes) : position(index, index.bytes[n]) = positions[n]
        /\ \A pos \in Places :
             /\ byteOffset(index, pos).ok <=> \E n \in 0..Len(runes) : pos = positions[n]
             /\ byteOffset(index, pos).offset = index.bytes[EditorOffset(positions, pos)]
    BY PositionsAgree
  <1>3. ASSUME NEW pos \in grid PROVE pos \in Places
    BY DEF Places
  <1>. HIDE DEF index, positions, grid
  <1>4. ASSUME NEW pos \in Places
        PROVE  LET at == byteOffset(index, pos)
               IN /\ at.ok <=> pos \in places
                  /\ at.offset = index.bytes[EditorOffset(positions, pos)]
    BY <1>2
  <1>5. /\ \A n \in Boundaries : position(text.index, text.index.bytes[n]) = positions[n]
        /\ \A pos \in grid :
             LET at == byteOffset(text.index, pos)
             IN /\ at.ok <=> pos \in places
                /\ at.offset = text.index.bytes[EditorOffset(positions, pos)]
    BY <1>1, <1>2, <1>3, <1>4
  <1>6. positions = EditorPositions(text.index.runes)
    BY <1>1 DEF positions
  <1>7. grid = [line : 0..(position(text.index, Size(text.index)).line + 1),
                character : 0..(Max({p.character : p \in places}) + 1)]
    BY <1>1 DEF grid
  <1>8. places = {positions[n] : n \in Boundaries}
    BY <1>1
  <1>. HIDE DEF places
  <1>9. QED
    BY <1>5, <1>6, <1>7, <1>8 DEF PositionsAreTheEditors

------------------------------------------------------------------------------
(***************************************************************************)
(* Pieces and tokens                                                       *)
(***************************************************************************)
(* What is sifted is made from the first place to the last.                *)
SiftSteps(F, s, places) ==
  /\ F[0] = << >>
  /\ \A n \in 1..Len(s) :
       F[n] = IF n \in places THEN Append(F[n - 1], s[n]) ELSE F[n - 1]

LEMMA SiftedSteps ==
  ASSUME NEW V, NEW s \in Seq(V), NEW places
  PROVE  \E F \in [0..Len(s) -> Seq(V)] : SiftSteps(F, s, places) /\ Sifted(s, places) = F[Len(s)]
  <1> DEFINE N == Len(s)
             Is(g) == g = [n \in 0..N |-> IF n = 0 THEN << >>
                                          ELSE IF n \in places THEN Append(g[n - 1], s[n])
                                          ELSE g[n - 1]]
             sifted == CHOOSE g : Is(g)
             step == [n \in 1..N |-> [r \in Seq(V) |-> IF n \in places THEN Append(r, s[n]) ELSE r]]
  <1>1. N \in Nat /\ << >> \in Seq(V) /\ \A n \in 1..N : s[n] \in V
    OBVIOUS
  <1>2. PICK F \in [0..N -> Seq(V)] : FollowsSteps(F, N, << >>, step)
    <2>1. \A n \in 1..N : \A r \in Seq(V) :
            (IF n \in places THEN Append(r, s[n]) ELSE r) \in Seq(V)
      BY <1>1
    <2>2. step \in [1..N -> [Seq(V) -> Seq(V)]]
      <3>. HIDE DEF N
      <3> QED
        BY <2>1
    <2>. HIDE DEF N, step
    <2>3. QED
      BY <1>1, <2>2, Recursion
  <1>3. F[0] = << >>
    BY <1>2 DEF FollowsSteps
  <1>4. \A n \in 1..N : F[n] = IF n \in places THEN Append(F[n - 1], s[n]) ELSE F[n - 1]
    <2>1. TAKE n \in 1..N
    <2>2. F[n - 1] \in Seq(V)
      BY <1>1
    <2>3. step[n][F[n - 1]] = IF n \in places THEN Append(F[n - 1], s[n]) ELSE F[n - 1]
      <3>. HIDE DEF N
      <3> QED
        BY <2>2
    <2>4. F[n] = step[n][F[n - 1]]
      <3>. HIDE DEF step
      <3> QED
        BY <1>2 DEF FollowsSteps
    <2>5. QED
      BY <2>3, <2>4
  <1>. HIDE DEF N, step
  <1>5. Is(F)
    <2>1. \A n \in 0..N : n = 0 \/ n \in 1..N
      BY <1>1
    <2>2. \A n \in 0..N : F[n] = IF n = 0 THEN << >>
                                 ELSE IF n \in places THEN Append(F[n - 1], s[n]) ELSE F[n - 1]
      BY <1>3, <1>4, <2>1
    <2>3. QED
      BY <2>2
  <1>6. Is(sifted)
    <2>. HIDE DEF Is
    <2> QED
      BY <1>5
  <1>. HIDE DEF sifted
  <1>7. \A n \in 0..N : sifted[n] = F[n]
    <2> DEFINE S == {m \in 0..N : sifted[m] = F[m]}
    <2>1. 0 \in 0..N /\ \A n \in 1..N : n \in 0..N /\ n # 0
      BY <1>1
    <2>2. 0 \in S
      BY <1>3, <1>6, <2>1
    <2>3. \A n \in 1..N : n - 1 \in S => n \in S
      BY <1>4, <1>6, <2>1
    <2>4. \A n \in 0..N : n \in S
      <3>. HIDE DEF S
      <3> QED
        BY <1>1, <2>2, <2>3, UpTo
    <2>5. QED
      BY <2>4
  <1>8. Sifted(s, places) = F[N]
    <2>1. Sifted(s, places) = sifted[N]
      BY DEF Sifted, sifted, N
    <2>2. N \in 0..N
      BY <1>1
    <2>3. QED
      BY <1>7, <2>1, <2>2
  <1>9. QED
    BY <1>3, <1>4, <1>8 DEF N, SiftSteps

(* One element more is sifted by itself.                                   *)
LEMMA SiftedSame ==
  ASSUME NEW V, NEW s \in Seq(V), NEW x \in V, NEW places, NEW others,
         NEW m, m = Len(s) + 1,
         \A n \in 1..Len(s) : n \in places <=> n \in others
  PROVE  /\ Sifted(s, places) \in Seq(V)
         /\ Sifted(s, places) = Sifted(s, others)
         /\ Sifted(Append(s, x), places) =
              IF m \in places THEN Append(Sifted(s, others), x) ELSE Sifted(s, others)
  <1> DEFINE N == Len(s)
             u == Append(s, x)
  <1>1. N \in Nat /\ N \in 0..N /\ u \in Seq(V) /\ Len(u) = N + 1
        /\ u[N + 1] = x /\ \A n \in 1..N : u[n] = s[n]
    OBVIOUS
  <1>2. PICK F \in [0..N -> Seq(V)] : SiftSteps(F, s, others) /\ Sifted(s, others) = F[N]
    BY SiftedSteps
  <1>3. PICK G \in [0..N -> Seq(V)] : SiftSteps(G, s, places) /\ Sifted(s, places) = G[N]
    BY SiftedSteps
  <1>4. PICK H \in [0..(N + 1) -> Seq(V)] : SiftSteps(H, u, places) /\ Sifted(u, places) = H[N + 1]
    <2>. HIDE DEF u, N
    <2>1. \E H \in [0..Len(u) -> Seq(V)] : SiftSteps(H, u, places) /\ Sifted(u, places) = H[Len(u)]
      BY <1>1, SiftedSteps
    <2>2. QED
      BY <1>1, <2>1
  <1>5. \A n \in 1..N : n \in places <=> n \in others
    OBVIOUS
  <1>. HIDE DEF N, u
  <1> DEFINE S == {n \in 0..N : F[n] = G[n] /\ H[n] = F[n]}
  <1>6. 0 \in S
    BY <1>1, <1>2, <1>3, <1>4 DEF SiftSteps
  <1>7. ASSUME NEW n \in 1..N, n - 1 \in S PROVE n \in S
    <2>1. n \in 1..(N + 1) /\ n \in 0..N /\ u[n] = s[n] /\ (n \in places <=> n \in others)
      <3>1. N \in Nat
        BY <1>1
      <3>2. n \in 1..(N + 1) /\ n \in 0..N
        <4>. HIDE DEF S
        <4> QED
          BY <3>1
      <3>3. u[n] = s[n] /\ (n \in places <=> n \in others)
        BY <1>1, <1>5, Zenon
      <3>4. QED
        BY <3>2, <3>3
    <2>2. F[n] = IF n \in others THEN Append(F[n - 1], s[n]) ELSE F[n - 1]
      BY <1>2 DEF SiftSteps, N
    <2>3. G[n] = IF n \in places THEN Append(G[n - 1], s[n]) ELSE G[n - 1]
      BY <1>3 DEF SiftSteps, N
    <2>4. H[n] = IF n \in places THEN Append(H[n - 1], u[n]) ELSE H[n - 1]
      BY <1>1, <1>4, <2>1 DEF SiftSteps
    <2>5. F[n - 1] = G[n - 1] /\ H[n - 1] = F[n - 1]
      BY <1>7
    <2>6. QED
      BY <2>1, <2>2, <2>3, <2>4, <2>5
  <1>8. \A n \in 1..N : n - 1 \in S => n \in S
    BY <1>7
  <1>9. N \in S
    <2>1. \A n \in 0..N : n \in S
      <3>. HIDE DEF S
      <3> QED
        BY <1>1, <1>6, <1>8, UpTo
    <2>2. QED
      BY <1>1, <2>1
  <1>10. Sifted(s, places) = Sifted(s, others) /\ Sifted(s, others) \in Seq(V)
    BY <1>1, <1>2, <1>3, <1>9
  <1>11. H[N + 1] = IF N + 1 \in places THEN Append(H[N], x) ELSE H[N]
    <2>1. N + 1 \in 1..(N + 1) /\ (N + 1) - 1 = N
      BY <1>1
    <2>2. H[N + 1] = IF N + 1 \in places THEN Append(H[(N + 1) - 1], u[N + 1]) ELSE H[(N + 1) - 1]
      BY <1>1, <1>4, <2>1 DEF SiftSteps
    <2>3. QED
      BY <1>1, <2>1, <2>2
  <1>12. H[N] = Sifted(s, others)
    BY <1>2, <1>9
  <1>13. QED
    BY <1>4, <1>10, <1>11, <1>12 DEF N, u

LEMMA SiftedMore ==
  ASSUME NEW V, NEW s \in Seq(V), NEW x \in V, NEW places,
         NEW m, m = Len(s) + 1
  PROVE  /\ Sifted(s, places) \in Seq(V)
         /\ Sifted(Append(s, x), places) =
              IF m \in places THEN Append(Sifted(s, places), x) ELSE Sifted(s, places)
  <1> DEFINE others == places
  <1>1. \A n \in 1..Len(s) : n \in places <=> n \in others
    OBVIOUS
  <1>2. Sifted(s, others) = Sifted(s, places)
    OBVIOUS
  <1>. HIDE DEF others
  <1>3. Sifted(s, places) \in Seq(V)
    BY <1>1, SiftedSame
  <1>4. Sifted(Append(s, x), places) =
          IF m \in places THEN Append(Sifted(s, others), x) ELSE Sifted(s, others)
    BY <1>1, SiftedSame
  <1>5. QED
    BY <1>2, <1>3, <1>4

LEMMA SiftedNothing ==
  ASSUME NEW places
  PROVE  Sifted(<< >>, places) = << >>
  <1>1. << >> \in Seq({}) /\ Len(<< >>) = 0
    OBVIOUS
  <1>2. PICK F \in [0..Len(<< >>) -> Seq({})] :
          SiftSteps(F, << >>, places) /\ Sifted(<< >>, places) = F[Len(<< >>)]
    BY <1>1, SiftedSteps
  <1>3. QED
    BY <1>1, <1>2 DEF SiftSteps

(* The places up to n, in order.                                           *)
At(n, places) == Sifted([i \in 1..n |-> i], places)

Lists(A, n, places) ==
  /\ A \in Seq(Nat)
  /\ \A k \in 1..Len(A) : A[k] \in 1..n /\ A[k] \in places
  /\ \A j, k \in 1..Len(A) : j < k => A[j] < A[k]
  /\ \A i \in 1..n : i \in places => \E k \in 1..Len(A) : A[k] = i

LEMMA AtMore ==
  ASSUME NEW places
  PROVE  /\ At(0, places) = << >>
         /\ \A n \in Nat : /\ At(n, places) \in Seq(Nat)
                           /\ At(n + 1, places) = IF n + 1 \in places
                                                  THEN Append(At(n, places), n + 1)
                                                  ELSE At(n, places)
  <1>1. At(0, places) = << >>
    <2>1. [i \in 1..0 |-> i] = << >>
      OBVIOUS
    <2>2. QED
      BY <2>1, SiftedNothing DEF At
  <1>2. ASSUME NEW n \in Nat
        PROVE  /\ At(n, places) \in Seq(Nat)
               /\ At(n + 1, places) = IF n + 1 \in places THEN Append(At(n, places), n + 1)
                                      ELSE At(n, places)
    <2> DEFINE s == [i \in 1..n |-> i]
               u == [i \in 1..(n + 1) |-> i]
               x == n + 1
               m == n + 1
               V == Nat
    <2>1. s \in Seq(V) /\ Len(s) = n /\ x \in V
      OBVIOUS
    <2>2. u = Append(s, x)
      OBVIOUS
    <2>3. At(n, places) = Sifted(s, places) /\ At(n + 1, places) = Sifted(u, places)
      BY DEF At
    <2>4. m = Len(s) + 1
      BY <2>1
    <2>. HIDE DEF s, u, x, m, V
    <2>5. Sifted(s, places) \in Seq(V)
      BY <2>1, <2>4, SiftedMore
    <2>6. Sifted(Append(s, x), places) =
            IF m \in places THEN Append(Sifted(s, places), x) ELSE Sifted(s, places)
      BY <2>1, <2>4, SiftedMore
    <2>7. QED
      BY <2>2, <2>3, <2>5, <2>6 DEF x, m, V
  <1>3. QED
    BY <1>1, <1>2

LEMMA AtLists ==
  ASSUME NEW places, NEW N \in Nat
  PROVE  Lists(At(N, places), N, places)
  <1> DEFINE S == {n \in 0..N : Lists(At(n, places), n, places)}
  <1>1. 0 \in S
    <2>1. At(0, places) = << >>
      BY AtMore
    <2>2. Lists(<< >>, 0, places)
      BY DEF Lists
    <2>3. QED
      BY <2>1, <2>2
  <1>2. ASSUME NEW n \in 1..N, n - 1 \in S PROVE n \in S
    <2> DEFINE A == At(n - 1, places)
               B == At(n, places)
    <2>1. Lists(A, n - 1, places) /\ n - 1 \in Nat /\ (n - 1) + 1 = n
      BY <1>2
    <2>2. B = IF n \in places THEN Append(A, n) ELSE A
      BY <2>1, AtMore
    <2>. HIDE DEF A, B
    <2>3. /\ A \in Seq(Nat) /\ Len(A) \in Nat
          /\ \A k \in 1..Len(A) : A[k] \in 1..(n - 1) /\ A[k] \in places
          /\ \A j, k \in 1..Len(A) : j < k => A[j] < A[k]
          /\ \A i \in 1..(n - 1) : i \in places => \E k \in 1..Len(A) : A[k] = i
      BY <2>1 DEF Lists
    <2>4. CASE n \in places
      <3>1. /\ B \in Seq(Nat) /\ Len(B) = Len(A) + 1 /\ B[Len(A) + 1] = n
            /\ \A k \in 1..Len(A) : B[k] = A[k]
        BY <2>2, <2>3, <2>4
      <3>2. \A k \in 1..Len(B) : k \in 1..Len(A) \/ k = Len(A) + 1
        BY <2>3, <3>1
      <3>3. ASSUME NEW k \in 1..Len(B) PROVE B[k] \in 1..n /\ B[k] \in places
        <4>1. CASE k \in 1..Len(A)
          <5>1. B[k] = A[k] /\ A[k] \in 1..(n - 1) /\ A[k] \in places
            BY <2>3, <3>1, <4>1
          <5>2. QED
            BY <5>1
        <4>2. CASE k = Len(A) + 1
          BY <2>4, <3>1, <4>2
        <4>3. QED
          BY <3>2, <4>1, <4>2
      <3>4. ASSUME NEW j \in 1..Len(B), NEW k \in 1..Len(B), j < k PROVE B[j] < B[k]
        <4>0. j \in 1..Len(A)
          <5> DEFINE l == Len(A)
          <5>1. l \in Nat /\ j \in 1..(l + 1) /\ k \in 1..(l + 1)
            BY <2>3, <3>1
          <5>. HIDE DEF l
          <5>2. j \in 1..l
            BY <3>4, <5>1
          <5>3. QED
            BY <5>2 DEF l
        <4>1. j \in 1..Len(A) /\ B[j] = A[j] /\ A[j] \in 1..(n - 1)
          BY <2>3, <3>1, <4>0
        <4>2. CASE k \in 1..Len(A)
          BY <2>3, <3>1, <3>4, <4>1, <4>2
        <4>3. CASE k = Len(A) + 1
          BY <3>1, <4>1, <4>3
        <4>4. QED
          BY <3>2, <4>2, <4>3
      <3>5. ASSUME NEW i \in 1..n, i \in places PROVE \E k \in 1..Len(B) : B[k] = i
        <4>1. CASE i = n
          BY <2>3, <3>1, <4>1
        <4>2. CASE i # n
          <5>1. i \in 1..(n - 1)
            BY <4>2
          <5>2. PICK k \in 1..Len(A) : A[k] = i
            BY <2>3, <3>5, <5>1
          <5>3. QED
            BY <2>3, <3>1, <5>2
        <4>3. QED
          BY <4>1, <4>2
      <3>6. QED
        BY <3>1, <3>3, <3>4, <3>5 DEF Lists, B
    <2>5. CASE n \notin places
      <3>1. B = A
        BY <2>2, <2>5
      <3>2. \A k \in 1..Len(A) : A[k] \in 1..n
        BY <2>3
      <3>3. \A i \in 1..n : i \in places => i \in 1..(n - 1)
        BY <2>5
      <3>4. Lists(B, n, places)
        BY <2>3, <3>1, <3>2, <3>3 DEF Lists
      <3>5. QED
        BY <3>4 DEF B
    <2>6. QED
      BY <2>4, <2>5
  <1>3. \A n \in 1..N : n - 1 \in S => n \in S
    BY <1>2
  <1>4. \A n \in 0..N : n \in S
    <2>. HIDE DEF S
    <2> QED
      BY <1>1, <1>3, UpTo
  <1>5. QED
    BY <1>4

(* The places up to a number are the first of all.                         *)
LEMMA AtPrefix ==
  ASSUME NEW places, NEW N \in Nat, NEW m \in 0..N
  PROVE  /\ Len(At(m, places)) <= Len(At(N, places))
         /\ \A k \in 1..Len(At(m, places)) : At(N, places)[k] = At(m, places)[k]
  <1> DEFINE A == At(m, places)
             Begins(n) == /\ Len(A) <= Len(At(n, places))
                          /\ \A k \in 1..Len(A) : At(n, places)[k] = A[k]
             S == {n \in 0..N : n < m \/ Begins(n)}
  <1>0. A \in Seq(Nat) /\ Len(A) \in Nat
    <2>1. m \in Nat
      OBVIOUS
    <2>2. A \in Seq(Nat)
      BY <2>1, AtMore
    <2>3. QED
      BY <2>2
  <1>1. 0 \in S
    <2>1. CASE m = 0
      BY <1>0, <2>1
    <2>2. CASE m # 0
      BY <2>2
    <2>3. QED
      BY <2>1, <2>2
  <1>2. ASSUME NEW n \in 1..N, n - 1 \in S PROVE n \in S
    <2> DEFINE B == At(n - 1, places)
               C == At(n, places)
    <2>1. CASE n < m
      BY <2>1
    <2>2. CASE n = m
      BY <1>0, <2>2
    <2>3. CASE n > m
      <3>1. Begins(n - 1)
        BY <1>2, <2>3
      <3>2. n - 1 \in Nat /\ (n - 1) + 1 = n
        OBVIOUS
      <3>3. B \in Seq(Nat) /\ C = IF n \in places THEN Append(B, n) ELSE B
        BY <3>2, AtMore
      <3>4. Len(A) <= Len(B) /\ \A k \in 1..Len(A) : B[k] = A[k]
        BY <3>1
      <3>. HIDE DEF A, B, C
      <3>5. Len(A) <= Len(C) /\ \A k \in 1..Len(A) : C[k] = A[k]
        <4>1. Len(B) \in Nat /\ Len(A) \in Nat /\ n \in Nat
          BY <1>0, <3>3
        <4>2. Len(B) <= Len(C) /\ \A k \in 1..Len(B) : C[k] = B[k]
          <5>1. CASE n \in places
            BY <3>3, <4>1, <5>1
          <5>2. CASE n \notin places
            BY <3>3, <4>1, <5>2
          <5>3. QED
            BY <5>1, <5>2
        <4>3. Len(C) \in Nat
          BY <3>3, <4>1
        <4>4. QED
          BY <3>4, <4>1, <4>2, <4>3
      <3>6. QED
        BY <3>5 DEF C
    <2>4. QED
      BY <2>1, <2>2, <2>3
  <1>3. \A n \in 1..N : n - 1 \in S => n \in S
    BY <1>2
  <1>4. N \in S
    <2>. HIDE DEF S
    <2> QED
      BY <1>1, <1>3, UpTo
  <1>5. QED
    BY <1>4

(* What is sifted out of a sequence is what it has at those places.        *)
LEMMA SiftedAt ==
  ASSUME NEW V, NEW s \in Seq(V), NEW places
  PROVE  Sifted(s, places) = [k \in 1..Len(At(Len(s), places)) |-> s[At(Len(s), places)[k]]]
  <1> DEFINE N == Len(s)
             prefix(n) == [i \in 1..n |-> s[i]]
             picked(n) == [k \in 1..Len(At(n, places)) |-> s[At(n, places)[k]]]
             S == {n \in 0..N : Sifted(prefix(n), places) = picked(n)}
  <1>0. N \in Nat
    OBVIOUS
  <1>1. 0 \in S
    <2>1. prefix(0) = << >>
      OBVIOUS
    <2>2. At(0, places) = << >>
      BY AtMore
    <2>3. picked(0) = << >>
      BY <2>2
    <2>4. Sifted(prefix(0), places) = << >>
      <3>. HIDE DEF prefix
      <3> QED
        BY <2>1, SiftedNothing
    <2>5. Sifted(prefix(0), places) = picked(0)
      <3>. HIDE DEF prefix, picked
      <3> QED
        BY <2>3, <2>4
    <2>6. 0 \in 0..N
      BY <1>0
    <2>7. QED
      BY <2>5, <2>6
  <1>2. ASSUME NEW n \in 1..N, n - 1 \in S PROVE n \in S
    <2> DEFINE u == prefix(n - 1)
               x == s[n]
               A == At(n - 1, places)
               B == At(n, places)
    <2>1. n - 1 \in Nat /\ (n - 1) + 1 = n /\ n \in 0..N /\ n \in Nat
      OBVIOUS
    <2>2. u \in Seq(V) /\ x \in V /\ n = Len(u) + 1
      OBVIOUS
    <2>3. prefix(n) = Append(u, x)
      OBVIOUS
    <2>4. A \in Seq(Nat) /\ B = IF n \in places THEN Append(A, n) ELSE A
      BY <2>1, AtMore
    <2>5. Sifted(u, places) = [k \in 1..Len(A) |-> s[A[k]]]
      BY <1>2
    <2>6. Sifted(Append(u, x), places) =
            IF n \in places THEN Append(Sifted(u, places), x) ELSE Sifted(u, places)
      <3>. HIDE DEF u, x
      <3> QED
        BY <2>2, SiftedMore
    <2>. HIDE DEF u, A, B, prefix
    <2>7. Sifted(prefix(n), places) = [k \in 1..Len(B) |-> s[B[k]]]
      <3>1. CASE n \in places
        <4>1. B = Append(A, n) /\ Len(B) = Len(A) + 1 /\ Len(A) \in Nat
              /\ B[Len(A) + 1] = n /\ \A k \in 1..Len(A) : B[k] = A[k]
          BY <2>4, <3>1
        <4>2. Append([k \in 1..Len(A) |-> s[A[k]]], x) = [k \in 1..Len(B) |-> s[B[k]]]
          BY <4>1
        <4>3. QED
          BY <2>3, <2>5, <2>6, <3>1, <4>2
      <3>2. CASE n \notin places
        BY <2>3, <2>4, <2>5, <2>6, <3>2
      <3>3. QED
        BY <3>1, <3>2
    <2>8. QED
      BY <2>1, <2>7 DEF B
  <1>3. \A n \in 1..N : n - 1 \in S => n \in S
    BY <1>2
  <1>4. N \in S
    <2>. HIDE DEF S, N
    <2>1. \A n \in 0..N : n \in S
      BY <1>0, <1>1, <1>3, UpTo
    <2>2. QED
      BY <1>0, <2>1
  <1>5. prefix(N) = s
    OBVIOUS
  <1>6. QED
    BY <1>4, <1>5

(* The elements of a sequence that are of a kind.                          *)
Of(s, K) == Sifted(s, {i \in DOMAIN s : s[i] \in K})

LEMMA OfNothing ==
  ASSUME NEW K
  PROVE  Of(<< >>, K) = << >>
  <1>1. QED
    BY SiftedNothing DEF Of

LEMMA OfMore ==
  ASSUME NEW V, NEW K, NEW s \in Seq(V), NEW x \in V
  PROVE  /\ Of(s, K) \in Seq(V)
         /\ x \in K => Of(Append(s, x), K) = Append(Of(s, K), x)
         /\ x \notin K => Of(Append(s, x), K) = Of(s, K)
  <1> DEFINE u == Append(s, x)
             m == Len(s) + 1
             places == {i \in DOMAIN u : u[i] \in K}
             others == {i \in DOMAIN s : s[i] \in K}
  <1>1. /\ Len(s) \in Nat /\ DOMAIN s = 1..Len(s) /\ DOMAIN u = 1..m /\ u[m] = x
        /\ \A n \in 1..Len(s) : u[n] = s[n]
    OBVIOUS
  <1>2. m = Len(s) + 1
    OBVIOUS
  <1>3. m \in places <=> x \in K
    BY <1>1
  <1>4. \A n \in 1..Len(s) : n \in places <=> n \in others
    BY <1>1
  <1>5. Of(s, K) = Sifted(s, others) /\ Of(u, K) = Sifted(Append(s, x), places)
    BY DEF Of
  <1>. HIDE DEF m, places, others, u
  <1>6. Sifted(s, places) \in Seq(V) /\ Sifted(s, places) = Sifted(s, others)
    BY <1>2, <1>4, SiftedSame
  <1>7. Sifted(Append(s, x), places) =
          IF m \in places THEN Append(Sifted(s, others), x) ELSE Sifted(s, others)
    BY <1>2, <1>4, SiftedSame
  <1>8. QED
    BY <1>3, <1>5, <1>6, <1>7 DEF u

LEMMA AppendConcat ==
  ASSUME NEW V, NEW s \in Seq(V), NEW u \in Seq(V), NEW x \in V
  PROVE  s \o Append(u, x) = Append(s \o u, x)
  <1>1. << x >> \in Seq(V) /\ s \o u \in Seq(V)
    OBVIOUS
  <1>2. Append(u, x) = u \o << x >>
    BY AppendIsConcat
  <1>3. Append(s \o u, x) = (s \o u) \o << x >>
    BY <1>1, AppendIsConcat
  <1>4. (s \o u) \o << x >> = s \o (u \o << x >>)
    BY <1>1, ConcatAssociative
  <1>5. QED
    BY <1>2, <1>3, <1>4

LEMMA OfIs ==
  ASSUME NEW V, NEW K, NEW r \in Seq(V)
  PROVE  Of(r, K) \in Seq(V)
  <1>1. CASE V = {}
    <2>1. r = << >>
      BY <1>1
    <2>2. QED
      BY <2>1, OfNothing
  <1>2. CASE V # {}
    <2>1. PICK x : x \in V
      BY <1>2
    <2>2. QED
      BY <2>1, OfMore
  <1>3. QED
    BY <1>1, <1>2

LEMMA OfTwo ==
  ASSUME NEW V, NEW K, NEW s \in Seq(V), NEW u \in Seq(V)
  PROVE  Of(s \o u, K) = Of(s, K) \o Of(u, K)
  <1> DEFINE N == Len(u)
             prefix(n) == [i \in 1..n |-> u[i]]
             S == {n \in 0..N : Of(s \o prefix(n), K) = Of(s, K) \o Of(prefix(n), K)}
  <1>0. N \in Nat /\ Of(<< >>, K) = << >> /\ \A r \in Seq(V) : Of(r, K) \in Seq(V)
    <2>1. N \in Nat
      OBVIOUS
    <2>2. Of(<< >>, K) = << >>
      BY OfNothing
    <2>3. ASSUME NEW r \in Seq(V) PROVE Of(r, K) \in Seq(V)
      BY OfIs
    <2>4. QED
      BY <2>1, <2>2, <2>3
  <1>1. 0 \in S
    <2>1. prefix(0) = << >>
      OBVIOUS
    <2>2. s \o prefix(0) = s /\ Of(prefix(0), K) = << >> /\ Of(s, K) \o << >> = Of(s, K)
      BY <1>0, <2>1
    <2>3. QED
      BY <1>0, <2>2
  <1>2. ASSUME NEW n \in 1..N, n - 1 \in S PROVE n \in S
    <2> DEFINE p == prefix(n - 1)
               x == u[n]
               r == s \o p
    <2>1. p \in Seq(V) /\ x \in V /\ n \in 0..N
      OBVIOUS
    <2>2. prefix(n) = Append(p, x)
      OBVIOUS
    <2>3. r \in Seq(V) /\ s \o Append(p, x) = Append(r, x)
      <3>. HIDE DEF p, x
      <3>1. r \in Seq(V)
        BY <2>1
      <3>2. QED
        BY <2>1, <3>1, AppendConcat
    <2>4. Of(r, K) = Of(s, K) \o Of(p, K)
      BY <1>2
    <2>. HIDE DEF p, x, r, prefix
    <2>5. Of(s, K) \in Seq(V) /\ Of(p, K) \in Seq(V)
      BY <1>0, <2>1
    <2>6. CASE x \in K
      <3>1. Of(Append(r, x), K) = Append(Of(r, K), x) /\ Of(Append(p, x), K) = Append(Of(p, K), x)
        BY <2>1, <2>3, <2>6, OfMore
      <3>2. Append(Of(s, K) \o Of(p, K), x) = Of(s, K) \o Append(Of(p, K), x)
        <4> DEFINE a == Of(s, K)
                   b == Of(p, K)
        <4>1. a \in Seq(V) /\ b \in Seq(V)
          BY <2>5
        <4>. HIDE DEF a, b
        <4>2. a \o Append(b, x) = Append(a \o b, x)
          BY <2>1, <4>1, AppendConcat
        <4>3. QED
          BY <4>2 DEF a, b
      <3>3. Of(Append(r, x), K) = Of(s, K) \o Of(Append(p, x), K)
        BY <2>4, <3>1, <3>2
      <3>4. QED
        BY <2>1, <2>2, <2>3, <3>3
    <2>7. CASE x \notin K
      <3>1. Of(Append(r, x), K) = Of(r, K) /\ Of(Append(p, x), K) = Of(p, K)
        BY <2>1, <2>3, <2>7, OfMore
      <3>2. QED
        BY <2>1, <2>2, <2>3, <2>4, <3>1
    <2>8. QED
      BY <2>6, <2>7
  <1>3. \A n \in 1..N : n - 1 \in S => n \in S
    BY <1>2
  <1>4. N \in S
    <2>. HIDE DEF S, N
    <2>1. \A n \in 0..N : n \in S
      BY <1>0, <1>1, <1>3, UpTo
    <2>2. QED
      BY <1>0, <2>1
  <1>5. prefix(N) = u
    OBVIOUS
  <1>6. QED
    BY <1>0, <1>4, <1>5

------------------------------------------------------------------------------
(* The runes of a text, piece by piece.                                    *)
LEMMA PiecesAre ==
  ASSUME NEW P, PiecesOK(P)
  PROVE  /\ Len(P) \in Nat /\ DOMAIN P = 1..Len(P) /\ P \in Seq(ToSet(P))
         /\ \A i \in 1..Len(P) : /\ P[i].runes \in Seq(DOMAIN Bytes) /\ P[i].runes # << >>
                                 /\ Len(P[i].runes) \in Nat \ {0}
  <1>1. P \in Seq(ToSet(P))
    BY DEF PiecesOK
  <1>2. Len(P) \in Nat /\ DOMAIN P = 1..Len(P)
    BY <1>1
  <1>3. ASSUME NEW i \in 1..Len(P)
        PROVE  /\ P[i].runes \in Seq(DOMAIN Bytes) /\ P[i].runes # << >>
               /\ Len(P[i].runes) \in Nat \ {0}
    <2>1. P[i].runes \in Seq(DOMAIN Bytes) \ {<< >>}
      BY <1>2 DEF PiecesOK
    <2>2. ASSUME NEW r \in Seq(DOMAIN Bytes), r # << >> PROVE Len(r) \in Nat \ {0}
      BY <2>2
    <2>3. QED
      BY <2>1, <2>2
  <1>4. QED
    BY <1>1, <1>2, <1>3

LEMMA EndsAre ==
  ASSUME NEW P, PiecesOK(P)
  PROVE  /\ Ends(P) \in [0..Len(P) -> Nat] /\ Ends(P)[0] = 0
         /\ \A i \in 1..Len(P) : /\ Ends(P)[i] = Ends(P)[i - 1] + Len(P[i].runes)
                                 /\ Ends(P)[i - 1] < Ends(P)[i]
  <1> DEFINE N == Len(P)
             Is(g) == g = [n \in 0..N |-> IF n = 0 THEN 0 ELSE g[n - 1] + Len(P[n].runes)]
             ends == CHOOSE g : Is(g)
             step == [n \in 1..N |-> [x \in Nat |-> x + Len(P[n].runes)]]
  <1>1. N \in Nat /\ \A n \in 1..N : Len(P[n].runes) \in Nat \ {0}
    BY PiecesAre
  <1>2. \E f \in [0..N -> Nat] : FollowsSteps(f, N, 0, step)
    <2>1. step \in [1..N -> [Nat -> Nat]]
      BY <1>1
    <2>. HIDE DEF N, step
    <2>2. QED
      BY <1>1, <2>1, Recursion
  <1>3. PICK f \in [0..N -> Nat] : f[0] = 0 /\ \A n \in 1..N : f[n] = step[n][f[n - 1]]
    BY <1>2 DEF FollowsSteps
  <1>4. \A n \in 1..N : n - 1 \in 0..N /\ f[n - 1] \in Nat
    <2>1. \A n \in 1..N : n - 1 \in 0..N
      BY <1>1
    <2>2. QED
      BY <1>3, <2>1
  <1>5. \A n \in 1..N : f[n] = f[n - 1] + Len(P[n].runes)
    BY <1>3, <1>4
  <1>. HIDE DEF N, step
  <1>6. Is(f)
    <2>1. \A n \in 0..N : n = 0 \/ n \in 1..N
      BY <1>1
    <2>2. QED
      BY <1>3, <1>5, <2>1
  <1>7. Is(ends)
    <2>. HIDE DEF Is
    <2> QED
      BY <1>6
  <1>. HIDE DEF ends
  <1>8. \A n \in 0..N : ends[n] = f[n]
    <2> DEFINE S == {m \in 0..N : ends[m] = f[m]}
    <2>1. 0 \in 0..N /\ \A n \in 1..N : n \in 0..N /\ n # 0
      BY <1>1
    <2>2. 0 \in S
      BY <1>3, <1>7, <2>1
    <2>3. \A n \in 1..N : n - 1 \in S => n \in S
      BY <1>5, <1>7, <2>1
    <2>4. \A n \in 0..N : n \in S
      <3>. HIDE DEF S
      <3> QED
        BY <1>1, <2>2, <2>3, UpTo
    <2>5. QED
      BY <2>4
  <1>9. Ends(P) = [n \in 0..N |-> ends[n]]
    BY DEF Ends, ends, N
  <1>10. Ends(P) = f
    BY <1>8, <1>9
  <1>11. \A n \in 1..N : f[n - 1] < f[n]
    <2>1. TAKE n \in 1..N
    <2>2. f[n - 1] \in Nat /\ Len(P[n].runes) \in Nat \ {0} /\ f[n] = f[n - 1] + Len(P[n].runes)
      BY <1>1, <1>4, <1>5
    <2>3. QED
      BY <2>2
  <1>12. QED
    BY <1>3, <1>5, <1>10, <1>11 DEF N

LEMMA RunesAre ==
  ASSUME NEW P, PiecesOK(P)
  PROVE  /\ Runes(P) \in Seq(DOMAIN Bytes)
         /\ Len(Runes(P)) = Ends(P)[Len(P)]
         /\ \A i \in 1..Len(P) : \A k \in 1..Len(P[i].runes) :
              Runes(P)[Ends(P)[i - 1] + k] = P[i].runes[k]
  <1> DEFINE M == Len(P)
             E == Ends(P)
             V == DOMAIN Bytes
             seqs == [i \in 1..M |-> P[i].runes]
  <1>1. M \in Nat /\ DOMAIN P = 1..M
        /\ \A i \in 1..M : P[i].runes \in Seq(V) /\ Len(P[i].runes) \in Nat
    BY PiecesAre
  <1>2. /\ E \in [0..M -> Nat] /\ E[0] = 0
        /\ \A i \in 1..M : E[i] = E[i - 1] + Len(P[i].runes)
    BY EndsAre
  <1>3. Runes(P) = FlattenSeq(seqs)
    BY <1>1 DEF Runes
  <1>4. seqs \in [1..M -> Seq(V)] /\ \A i \in 1..M : seqs[i] = P[i].runes
    BY <1>1
  <1>. HIDE DEF M, E, V, seqs
  <1>5. PICK F : Accumulates(F, M, V, seqs) /\ FlattenSeq(seqs) = F[M]
    BY <1>1, <1>4, Flattening
  <1>6. /\ F \in [0..M -> Seq(V)] /\ F[0] = << >>
        /\ \A n \in 1..M : F[n] = F[n - 1] \o seqs[n]
    BY <1>5 DEF Accumulates
  <1>7. ASSUME NEW n \in 1..M
        PROVE  /\ F[n - 1] \in Seq(V) /\ seqs[n] \in Seq(V)
               /\ Len(F[n]) = Len(F[n - 1]) + Len(seqs[n])
               /\ \A k \in 1..Len(seqs[n]) : F[n][Len(F[n - 1]) + k] = seqs[n][k]
    <2> DEFINE a == F[n - 1]
               b == seqs[n]
               c == F[n]
    <2>0. n - 1 \in 0..M
      BY <1>1
    <2>1. a \in Seq(V) /\ b \in Seq(V) /\ c = a \o b
      BY <1>4, <1>6, <2>0
    <2>. HIDE DEF a, b, c
    <2>2. Len(c) = Len(a) + Len(b) /\ \A k \in 1..Len(b) : c[Len(a) + k] = b[k]
      BY <2>1
    <2>3. QED
      BY <2>1, <2>2 DEF a, b, c
  <1>8. \A n \in 0..M : Len(F[n]) = E[n]
    <2> DEFINE S == {n \in 0..M : Len(F[n]) = E[n]}
    <2>1. 0 \in S
      BY <1>1, <1>2, <1>6
    <2>2. ASSUME NEW n \in 1..M, n - 1 \in S PROVE n \in S
      <3>1. Len(F[n]) = Len(F[n - 1]) + Len(seqs[n])
        BY <1>7
      <3>2. Len(F[n - 1]) = E[n - 1] /\ E[n] = E[n - 1] + Len(seqs[n])
        BY <1>2, <1>4, <2>2
      <3>3. n \in 0..M
        BY <1>1
      <3>4. QED
        BY <3>1, <3>2, <3>3
    <2>3. \A n \in 0..M : n \in S
      <3>. HIDE DEF S
      <3> QED
        BY <1>1, <2>1, <2>2, UpTo
    <2>4. QED
      BY <2>3
  <1>9. M \in 0..M
    BY <1>1
  <1>10. \A m, n \in 0..M : m <= n => \A k \in 1..Len(F[m]) : F[n][k] = F[m][k]
    <2>1. M \in Nat /\ seqs \in [1..M -> Seq(V)] /\ Accumulates(F, M, V, seqs)
      BY <1>1, <1>4, <1>5
    <2>2. Grows(F, M)
      BY <2>1, Accumulated
    <2>3. QED
      BY <2>2 DEF Grows
  <1>11. ASSUME NEW i \in 1..M, NEW k \in 1..Len(P[i].runes)
         PROVE  F[M][E[i - 1] + k] = P[i].runes[k]
    <2>1. i \in 0..M /\ i - 1 \in 0..M /\ i <= M
      BY <1>1
    <2>2. Len(F[i]) = E[i] /\ Len(F[i - 1]) = E[i - 1] /\ E[i - 1] \in Nat
      BY <1>2, <1>8, <2>1
    <2>3. E[i] = E[i - 1] + Len(P[i].runes) /\ Len(P[i].runes) \in Nat
      BY <1>1, <1>2
    <2>4. E[i - 1] + k \in 1..Len(F[i])
      <3> DEFINE e == E[i - 1]
                 l == Len(P[i].runes)
      <3>1. e \in Nat /\ l \in Nat /\ k \in 1..l /\ Len(F[i]) = e + l
        BY <2>2, <2>3
      <3>. HIDE DEF e, l
      <3>2. e + k \in 1..Len(F[i])
        BY <3>1
      <3>3. QED
        BY <3>2 DEF e
    <2>5. F[M][E[i - 1] + k] = F[i][E[i - 1] + k]
      BY <1>9, <1>10, <2>1, <2>4
    <2>6. F[i][E[i - 1] + k] = seqs[i][k]
      BY <1>4, <1>7, <2>2
    <2>7. QED
      BY <1>4, <2>5, <2>6
  <1>12. F[M] \in Seq(V) /\ Len(F[M]) = E[M]
    BY <1>6, <1>8, <1>9
  <1>13. \A i \in 1..M : \A k \in 1..Len(P[i].runes) : F[M][E[i - 1] + k] = P[i].runes[k]
    BY <1>11
  <1>14. QED
    BY <1>3, <1>5, <1>12, <1>13 DEF M, E, V

------------------------------------------------------------------------------
(* Where the editor sees the ends of the pieces.                           *)
Place(P, i) == EditorPositions(Runes(P))[Ends(P)[i]]

(* The editor's places go up with the runes before them.                   *)
LEMMA PositionsGrow ==
  ASSUME NEW runes \in Seq(DOMAIN Bytes), NEW P, P = EditorPositions(runes)
  PROVE  \A m, n \in 0..Len(runes) : P[m] \in Places /\ (Before(P[m], P[n]) <=> m < n)
  <1> DEFINE N == Len(runes)
             U == Sizes(Units, runes)
             NL == Newlines(runes)
             B == Sizes(Bytes, runes)
  <1>1. Layout(N, NL, B, U, P)
    BY TextLayout
  <1>. HIDE DEF N, U, NL, B
  <1>2. /\ N \in Nat /\ P \in [0..N -> Places] /\ U \in [0..N -> Nat]
        /\ \A m \in 1..N : U[m - 1] < U[m]
    BY <1>1 DEF Layout
  <1>3. \A m \in 0..N : P[m] \in Places /\ P[m].line \in Nat /\ P[m].character \in Nat
    BY <1>2 DEF Places
  <1>4. \A m, k \in 0..N : m < k => U[m] < U[k]
    BY <1>2, Increasing
  <1>5. ASSUME NEW m \in 0..N, NEW n \in 0..N, m < n
        PROVE  Before(P[m], P[n]) /\ ~Before(P[n], P[m])
    <2>1. m \in 0..n
      BY <1>2, <1>5
    <2>2. /\ P[m].line <= P[n].line
          /\ P[m].line = P[n].line => P[n].character = P[m].character + (U[n] - U[m])
      BY <1>1, <2>1, LinesAdvance
    <2>3. U[m] < U[n] /\ U[m] \in Nat /\ U[n] \in Nat
      BY <1>2, <1>4, <1>5
    <2>4. /\ P[m].line \in Nat /\ P[m].character \in Nat
          /\ P[n].line \in Nat /\ P[n].character \in Nat
      BY <1>3
    <2>5. \/ P[m].line < P[n].line
          \/ P[m].line = P[n].line /\ P[m].character < P[n].character
      <3> DEFINE a == P[m].line
                 b == P[n].line
                 c == P[m].character
                 d == P[n].character
                 u == U[m]
                 v == U[n]
      <3>1. /\ a \in Nat /\ b \in Nat /\ c \in Nat /\ d \in Nat /\ u \in Nat /\ v \in Nat
            /\ u < v /\ a <= b /\ (a = b => d = c + (v - u))
        BY <2>2, <2>3, <2>4
      <3>. HIDE DEF a, b, c, d, u, v
      <3>2. a < b \/ (a = b /\ c < d)
        BY <3>1
      <3>3. QED
        BY <3>2 DEF a, b, c, d
    <2>6. Before(P[m], P[n])
      BY <2>5 DEF Before
    <2>7. ~Before(P[n], P[m])
      <3> DEFINE a == P[m].line
                 b == P[n].line
                 c == P[m].character
                 d == P[n].character
      <3>1. a \in Nat /\ b \in Nat /\ c \in Nat /\ d \in Nat /\ (a < b \/ (a = b /\ c < d))
        BY <2>4, <2>5
      <3>. HIDE DEF a, b, c, d
      <3>2. ~(b < a \/ (b = a /\ d < c))
        BY <3>1
      <3>3. QED
        BY <3>2 DEF Before, a, b, c, d
    <2>8. QED
      BY <2>6, <2>7
  <1>6. ASSUME NEW m \in 0..N, NEW n \in 0..N PROVE Before(P[m], P[n]) <=> m < n
    <2>1. CASE m < n
      BY <1>5, <2>1
    <2>2. CASE n < m
      BY <1>2, <1>5, <2>2
    <2>3. CASE m = n
      BY <1>3, <2>3 DEF Before
    <2>4. QED
      BY <1>2, <2>1, <2>2, <2>3
  <1>7. \A m, n \in 0..N : Before(P[m], P[n]) <=> m < n
    BY <1>6
  <1>8. \A m, n \in 0..N : P[m] \in Places /\ (Before(P[m], P[n]) <=> m < n)
    BY <1>3, <1>7
  <1>9. QED
    BY <1>8 DEF N

LEMMA EditorOffsetIs ==
  ASSUME NEW runes \in Seq(DOMAIN Bytes), NEW n \in 0..Len(runes)
  PROVE  EditorOffset(EditorPositions(runes), EditorPositions(runes)[n]) = n
  <1> DEFINE P == EditorPositions(runes)
             T == {m \in DOMAIN P : ~Before(P[n], P[m])}
             N == Len(runes)
  <1>1. DOMAIN P = 0..N /\ N \in Nat
    BY PositionsAdvance
  <1>2. \A m, k \in 0..N : Before(P[m], P[k]) <=> m < k
    BY PositionsGrow
  <1>3. EditorOffset(P, P[n]) = Max(T)
    BY DEF EditorOffset
  <1>4. n \in 0..N
    OBVIOUS
  <1>. HIDE DEF P, N
  <1>5. n \in T /\ T \subseteq Int /\ \A m \in T : m <= n
    BY <1>1, <1>2, <1>4
  <1>. HIDE DEF T
  <1>6. Max(T) = n
    BY <1>5, MaxIs
  <1>7. QED
    BY <1>3, <1>6 DEF P

LEMMA EndsGrow ==
  ASSUME NEW P, PiecesOK(P)
  PROVE  /\ \A i \in 0..Len(P) : Ends(P)[i] \in 0..Len(Runes(P))
         /\ \A i, j \in 0..Len(P) : Ends(P)[i] < Ends(P)[j] <=> i < j
  <1> DEFINE M == Len(P)
             E == Ends(P)
  <1>1. M \in Nat /\ E \in [0..M -> Nat] /\ \A i \in 1..M : E[i - 1] < E[i]
    BY PiecesAre, EndsAre
  <1>2. Len(Runes(P)) = E[M]
    BY RunesAre
  <1>. HIDE DEF M, E
  <1>3. \A i, j \in 0..M : i < j => E[i] < E[j]
    BY <1>1, Increasing
  <1>4. \A i \in 0..M : E[i] \in Nat
    BY <1>1
  <1>5. ASSUME NEW i \in 0..M, NEW j \in 0..M PROVE E[i] < E[j] <=> i < j
    <2>1. i < j \/ i = j \/ j < i
      BY <1>1
    <2>2. E[i] \in Nat /\ E[j] \in Nat /\ (i < j => E[i] < E[j]) /\ (j < i => E[j] < E[i])
      BY <1>3, <1>4
    <2>3. QED
      BY <1>1, <2>1, <2>2
  <1>6. ASSUME NEW i \in 0..M PROVE E[i] \in 0..E[M]
    <2>1. M \in 0..M /\ (i < M \/ i = M)
      BY <1>1
    <2>2. E[i] \in Nat /\ E[M] \in Nat /\ (i < M => E[i] < E[M])
      BY <1>3, <1>4, <2>1
    <2>3. QED
      BY <2>1, <2>2
  <1>7. \A i \in 0..M : E[i] \in 0..E[M]
    BY <1>6
  <1>8. \A i, j \in 0..M : E[i] < E[j] <=> i < j
    BY <1>5
  <1>9. QED
    BY <1>2, <1>7, <1>8 DEF M, E

(* The editor has the ends of the pieces in their order.                   *)
LEMMA PlaceOrder ==
  ASSUME NEW P, PiecesOK(P)
  PROVE  /\ \A i \in 0..Len(P) : Place(P, i) \in Places
         /\ \A i, j \in 0..Len(P) : /\ Before(Place(P, i), Place(P, j)) <=> i < j
                                    /\ NotAfter(Place(P, i), Place(P, j)) <=> i <= j
  <1> DEFINE M == Len(P)
             E == Ends(P)
             R == Runes(P)
             Q == EditorPositions(R)
             K == Len(R)
  <1>1. R \in Seq(DOMAIN Bytes) /\ M \in Nat
    BY PiecesAre, RunesAre
  <1>2. \A m, n \in 0..K : Q[m] \in Places /\ (Before(Q[m], Q[n]) <=> m < n)
    <2>. HIDE DEF R
    <2> QED
      BY <1>1, PositionsGrow
  <1>3. /\ \A i \in 0..M : E[i] \in 0..K
        /\ \A i, j \in 0..M : E[i] < E[j] <=> i < j
    BY EndsGrow
  <1>4. \A i \in 0..M : Place(P, i) = Q[E[i]]
    BY DEF Place
  <1>. HIDE DEF M, E, R, Q, K
  <1>5. \A i \in 0..M : Place(P, i) \in Places
    BY <1>2, <1>3, <1>4
  <1>6. \A i, j \in 0..M : Before(Place(P, i), Place(P, j)) <=> i < j
    <2>1. TAKE i, j \in 0..M
    <2>2. E[i] \in 0..K /\ E[j] \in 0..K /\ (E[i] < E[j] <=> i < j)
      BY <1>3
    <2>3. QED
      BY <1>2, <1>4, <2>2
  <1>7. \A i, j \in 0..M : NotAfter(Place(P, i), Place(P, j)) <=> i <= j
    <2>1. TAKE i, j \in 0..M
    <2>2. NotAfter(Place(P, i), Place(P, j)) <=> ~(j < i)
      BY <1>6 DEF NotAfter
    <2>3. QED
      BY <1>1, <2>2
  <1>8. QED
    BY <1>5, <1>6, <1>7 DEF M

(* Positions are ordered.                                                  *)
LEMMA PlacesOrdered ==
  ASSUME NEW a \in Places, NEW b \in Places, NEW c \in Places
  PROVE  /\ NotAfter(a, a)
         /\ NotAfter(a, b) /\ NotAfter(b, c) => NotAfter(a, c)
         /\ NotAfter(a, b) /\ Before(b, c) => Before(a, c)
         /\ Before(a, b) /\ NotAfter(b, c) => Before(a, c)
  <1>1. /\ a.line \in Nat /\ a.character \in Nat /\ b.line \in Nat /\ b.character \in Nat
        /\ c.line \in Nat /\ c.character \in Nat
    BY DEF Places
  <1>2. QED
    BY <1>1 DEF NotAfter, Before

------------------------------------------------------------------------------
(* What newLexer has of a text: its pieces, at their places.               *)
ByteEnd(P, i) == Sizes(Bytes, Runes(P))[Ends(P)[i]]
Span(P, i, j) == [start |-> Place(P, i - 1), end |-> Place(P, j)]
Placed(P, i) == [piece |-> P[i], start |-> ByteEnd(P, i - 1), end |-> ByteEnd(P, i),
                 range |-> Span(P, i, i)]

CodeAt(P) == At(Len(P), CodePlaces(P))
CommentsAt(P) == At(Len(P), CommentPlaces(P))

LEMMA CodeIs ==
  ASSUME NEW P, PiecesOK(P)
  PROVE  /\ Code(P) = [k \in 1..Len(CodeAt(P)) |-> P[CodeAt(P)[k]]]
         /\ Comments(P) = [k \in 1..Len(CommentsAt(P)) |-> P[CommentsAt(P)[k]]]
         /\ Code(P) \in Seq(ToSet(P)) /\ Comments(P) \in Seq(ToSet(P))
         /\ Len(Code(P)) = Len(CodeAt(P)) /\ Len(Comments(P)) = Len(CommentsAt(P))
         /\ Lists(CodeAt(P), Len(P), CodePlaces(P))
         /\ Lists(CommentsAt(P), Len(P), CommentPlaces(P))
  <1>1. P \in Seq(ToSet(P)) /\ Len(P) \in Nat /\ DOMAIN P = 1..Len(P)
    BY PiecesAre
  <1> DEFINE V == ToSet(P)
  <1>. HIDE DEF V
  <1>2. ASSUME NEW A, NEW places, Lists(A, Len(P), places)
        PROVE  [k \in 1..Len(A) |-> P[A[k]]] \in Seq(V) /\ Len([k \in 1..Len(A) |-> P[A[k]]]) = Len(A)
    <2>1. Len(A) \in Nat /\ \A k \in 1..Len(A) : A[k] \in 1..Len(P)
      BY <1>2 DEF Lists
    <2>2. \A i \in 1..Len(P) : P[i] \in V
      BY <1>1 DEF ToSet, V
    <2>3. QED
      BY <2>1, <2>2
  <1>3. Lists(CodeAt(P), Len(P), CodePlaces(P)) /\ Lists(CommentsAt(P), Len(P), CommentPlaces(P))
    BY <1>1, AtLists DEF CodeAt, CommentsAt
  <1>4. Code(P) = [k \in 1..Len(CodeAt(P)) |-> P[CodeAt(P)[k]]]
    BY <1>1, SiftedAt DEF CodeAt, Code, V
  <1>5. Comments(P) = [k \in 1..Len(CommentsAt(P)) |-> P[CommentsAt(P)[k]]]
    BY <1>1, SiftedAt DEF CommentsAt, Comments, V
  <1>6. Code(P) \in Seq(V) /\ Len(Code(P)) = Len(CodeAt(P))
    BY <1>2, <1>3, <1>4
  <1>7. Comments(P) \in Seq(V) /\ Len(Comments(P)) = Len(CommentsAt(P))
    BY <1>2, <1>3, <1>5
  <1>8. QED
    BY <1>3, <1>4, <1>5, <1>6, <1>7 DEF V

TokensOf(P) == [k \in 1..Len(CodeAt(P)) |-> Placed(P, CodeAt(P)[k])]
CommentsOf(P) == [k \in 1..Len(CommentsAt(P)) |-> Placed(P, CommentsAt(P)[k])]

LEMMA LexerIs ==
  ASSUME NEW P, PiecesOK(P), NEW syntax, NEW t, t = newLexer(syntax, P)
  PROVE  /\ t.syntax = syntax /\ t.pieces = P /\ t.index = newTextIndex(Runes(P))
         /\ t.tokens = TokensOf(P) /\ t.comments = CommentsOf(P)
  <1> DEFINE M == Len(P)
             R == Runes(P)
             E == Ends(P)
             index == newTextIndex(R)
             end(i) == index.bytes[E[i]]
             ranges == [i \in DOMAIN P |->
                          [piece |-> P[i], start |-> end(i - 1), end |-> end(i),
                           range |-> rangeByByteOffsets(index, end(i - 1), end(i))]]
             placed == [i \in 1..M |-> Placed(P, i)]
             V == {placed[i] : i \in 1..M}
  <1>1. M \in Nat /\ DOMAIN P = 1..M /\ R \in Seq(DOMAIN Bytes)
    BY PiecesAre, RunesAre
  <1>2. index.bytes = Sizes(Bytes, R)
    BY DEF newTextIndex
  <1>3. \A n \in 0..Len(R) : position(index, index.bytes[n]) = EditorPositions(R)[n]
    <2>. HIDE DEF R
    <2> QED
      BY <1>1, PositionsAgree
  <1>4. \A i \in 0..M : E[i] \in 0..Len(R)
    BY EndsGrow
  <1>5. \A i \in 0..M : position(index, end(i)) = Place(P, i) /\ end(i) = ByteEnd(P, i)
    <2>1. TAKE i \in 0..M
    <2>2. position(index, index.bytes[E[i]]) = EditorPositions(R)[E[i]]
      BY <1>3, <1>4
    <2>3. QED
      BY <1>2, <2>2 DEF Place, ByteEnd
  <1>6. \A i \in 1..M : ranges[i] = Placed(P, i)
    <2>1. TAKE i \in 1..M
    <2>2. i \in 0..M /\ i - 1 \in 0..M
      BY <1>1
    <2>3. /\ position(index, end(i)) = Place(P, i) /\ end(i) = ByteEnd(P, i)
          /\ position(index, end(i - 1)) = Place(P, i - 1) /\ end(i - 1) = ByteEnd(P, i - 1)
      BY <1>5, <2>2
    <2>4. rangeByByteOffsets(index, end(i - 1), end(i)) = Span(P, i, i)
      BY <2>3 DEF rangeByByteOffsets, Span
    <2>5. QED
      BY <1>1, <2>3, <2>4 DEF Placed
  <1>7. ranges = placed
    BY <1>1, <1>6
  <1>8. /\ t.syntax = syntax /\ t.pieces = P /\ t.index = index
        /\ t.tokens = Sifted(ranges, CodePlaces(P))
        /\ t.comments = Sifted(ranges, CommentPlaces(P))
    BY DEF newLexer
  <1>9. placed \in Seq(V) /\ Len(placed) = M
    BY <1>1
  <1>10. CodeAt(P) = At(M, CodePlaces(P)) /\ CommentsAt(P) = At(M, CommentPlaces(P))
    BY DEF CodeAt, CommentsAt
  <1>11. /\ \A k \in 1..Len(CodeAt(P)) : placed[CodeAt(P)[k]] = Placed(P, CodeAt(P)[k])
         /\ \A k \in 1..Len(CommentsAt(P)) : placed[CommentsAt(P)[k]] = Placed(P, CommentsAt(P)[k])
    <2>1. Lists(CodeAt(P), M, CodePlaces(P)) /\ Lists(CommentsAt(P), M, CommentPlaces(P))
      BY CodeIs
    <2>. HIDE DEF M
    <2>2. QED
      BY <2>1 DEF Lists
  <1>. HIDE DEF index, ranges, placed, V, M
  <1>12. t.tokens = [k \in 1..Len(CodeAt(P)) |-> placed[CodeAt(P)[k]]]
    BY <1>7, <1>8, <1>9, <1>10, SiftedAt
  <1>13. t.comments = [k \in 1..Len(CommentsAt(P)) |-> placed[CommentsAt(P)[k]]]
    BY <1>7, <1>8, <1>9, <1>10, SiftedAt
  <1>14. QED
    BY <1>8, <1>11, <1>12, <1>13 DEF index, R, TokensOf, CommentsOf

------------------------------------------------------------------------------
(* The pieces of a kind in the beginning of a text.                        *)
Begin(P, n) == [i \in 1..n |-> P[i]]
PlacesOf(P, K) == {i \in DOMAIN P : P[i] \in K}
Count(n, places) == Len(At(n, places))

LEMMA OfBegin ==
  ASSUME NEW V, NEW P \in Seq(V), NEW K, NEW n \in 0..Len(P)
  PROVE  /\ Count(n, PlacesOf(P, K)) \in 0..Len(Of(P, K)) /\ Len(Of(P, K)) \in Nat
         /\ Of(Begin(P, n), K) = [k \in 1..Count(n, PlacesOf(P, K)) |-> Of(P, K)[k]]
  <1> DEFINE N == Len(P)
             places == PlacesOf(P, K)
             A == At(N, places)
             C == At(n, places)
             u == Begin(P, n)
             others == PlacesOf(u, K)
  <1>1. N \in Nat /\ n \in 0..N /\ n \in Nat /\ DOMAIN P = 1..N
    OBVIOUS
  <1>2. u \in Seq(V) /\ Len(u) = n /\ DOMAIN u = 1..n /\ \A i \in 1..n : u[i] = P[i] /\ i \in 1..N
    <2>1. \A i \in 1..n : i \in 1..N /\ P[i] \in V
      BY <1>1
    <2>2. QED
      BY <1>1, <2>1 DEF Begin
  <1>3. \A i \in 1..n : i \in others <=> i \in places
    BY <1>1, <1>2 DEF PlacesOf
  <1>4. Of(P, K) = Sifted(P, places) /\ Of(u, K) = Sifted(u, others)
    BY DEF Of, PlacesOf
  <1>5. Lists(C, n, places) /\ Lists(A, N, places)
    BY <1>1, AtLists
  <1>6. Len(C) <= Len(A) /\ \A k \in 1..Len(C) : A[k] = C[k]
    BY <1>1, AtPrefix
  <1>7. Count(n, places) = Len(C)
    BY DEF Count
  <1>8. Sifted(P, places) = [k \in 1..Len(A) |-> P[A[k]]]
    BY SiftedAt
  <1>. HIDE DEF N, places, A, C, u, others
  <1>9. Sifted(u, others) = Sifted(u, places)
    BY <1>2, <1>3, SiftedSame
  <1>10. Sifted(u, places) = [k \in 1..Len(C) |-> u[C[k]]]
    BY <1>2, SiftedAt DEF C
  <1>11. Len(C) \in Nat /\ Len(A) \in Nat /\ \A k \in 1..Len(C) : C[k] \in 1..n
    BY <1>5 DEF Lists
  <1>12. \A k \in 1..Len(C) : u[C[k]] = Sifted(P, places)[k]
    <2>1. TAKE k \in 1..Len(C)
    <2>2. k \in 1..Len(A) /\ A[k] = C[k]
      BY <1>6, <1>11
    <2>3. QED
      BY <1>2, <1>8, <1>11, <2>2
  <1>13. Len(Sifted(P, places)) = Len(A)
    BY <1>8, <1>11
  <1>14. QED
    BY <1>4, <1>6, <1>7, <1>9, <1>10, <1>11, <1>12, <1>13 DEF u, places

LEMMA CountIs ==
  ASSUME NEW places, NEW N \in Nat, NEW A, A = At(N, places), NEW k \in 1..Len(A)
  PROVE  Count(A[k], places) = k /\ Count(A[k] - 1, places) = k - 1
  <1> DEFINE n == A[k]
             B == At(n, places)
             C == At(n - 1, places)
  <1>1. /\ A \in Seq(Nat) /\ Len(A) \in Nat
        /\ \A j \in 1..Len(A) : A[j] \in 1..N /\ A[j] \in places
        /\ \A i, j \in 1..Len(A) : i < j => A[i] < A[j]
    BY AtLists DEF Lists
  <1>2. n \in 1..N /\ n \in places /\ n \in 0..N /\ n \in Nat /\ n - 1 \in Nat /\ (n - 1) + 1 = n
    <2>1. n \in 1..N /\ n \in places
      BY <1>1
    <2>. HIDE DEF n
    <2>2. n \in 0..N /\ n \in Nat /\ n - 1 \in Nat /\ (n - 1) + 1 = n
      BY <2>1
    <2>3. QED
      BY <2>1, <2>2
  <1>3. Lists(B, n, places) /\ Len(B) <= Len(A) /\ \A j \in 1..Len(B) : A[j] = B[j]
    BY <1>2, AtLists, AtPrefix
  <1>4. C \in Seq(Nat) /\ B = Append(C, n)
    <2>1. At((n - 1) + 1, places) = Append(At(n - 1, places), (n - 1) + 1)
      <3> DEFINE h == n - 1
      <3>1. h \in Nat /\ h + 1 \in places
        BY <1>2
      <3>. HIDE DEF h
      <3>2. At(h + 1, places) = Append(At(h, places), h + 1)
        BY <3>1, AtMore
      <3>3. QED
        BY <3>2 DEF h
    <2>2. QED
      BY <1>2, <2>1, AtMore
  <1>. HIDE DEF n, B, C
  <1>5. Len(B) = Len(C) + 1 /\ Len(C) \in Nat
    BY <1>4
  <1>6. Len(B) \in Nat /\ \A j \in 1..Len(B) : B[j] \in 1..n
    BY <1>3 DEF Lists
  <1>7. PICK j \in 1..Len(B) : B[j] = n
    <2>1. n \in 1..n
      BY <1>2
    <2>2. QED
      BY <1>2, <1>3, <2>1 DEF Lists
  <1>8. j = k
    <2>1. j \in 1..Len(A)
      BY <1>1, <1>3, <1>6
    <2>2. A[j] = n /\ A[k] = n
      BY <1>3, <1>7 DEF n
    <2>3. j < k \/ j = k \/ k < j
      BY <1>1, <2>1
    <2>4. (j < k => A[j] < A[k]) /\ (k < j => A[k] < A[j])
      BY <1>1, <2>1
    <2>5. ~(n < n)
      BY <1>2
    <2>6. QED
      BY <2>2, <2>3, <2>4, <2>5
  <1>9. Len(B) = k
    <2>1. SUFFICES ASSUME k < Len(B) PROVE FALSE
      BY <1>6, <1>7, <1>8
    <2>2. k + 1 \in 1..Len(B) /\ k + 1 \in 1..Len(A) /\ k < k + 1
      BY <1>1, <1>3, <1>6, <2>1
    <2>3. B[k + 1] \in 1..n /\ A[k + 1] = B[k + 1] /\ A[k] < A[k + 1]
      BY <1>1, <1>3, <1>6, <2>2
    <2>4. n < A[k + 1] /\ A[k + 1] \in 1..n
      BY <2>3 DEF n
    <2>5. QED
      BY <1>2, <2>4
  <1>10. Len(C) = k - 1
    BY <1>5, <1>9
  <1>11. QED
    BY <1>9, <1>10 DEF Count, B, C, n

LEMMA CountSame ==
  ASSUME NEW places, NEW m \in Nat, NEW N \in Nat, m <= N,
         \A i \in (m + 1)..N : i \notin places
  PROVE  At(m, places) = At(N, places)
  <1> DEFINE S == {n \in 0..N : n <= m \/ At(n, places) = At(m, places)}
  <1>1. 0 \in S
    OBVIOUS
  <1>2. ASSUME NEW n \in 1..N, n - 1 \in S PROVE n \in S
    <2>1. CASE n <= m
      BY <2>1
    <2>2. CASE n > m
      <3>1. n - 1 \in Nat /\ (n - 1) + 1 = n /\ n \notin places
        BY <2>2
      <3>2. At(n, places) = At(n - 1, places)
        BY <3>1, AtMore
      <3>3. CASE n - 1 = m
        BY <3>2, <3>3
      <3>4. CASE n - 1 # m
        <4>1. ~(n - 1 <= m)
          BY <2>2, <3>4
        <4>2. QED
          BY <1>2, <3>2, <4>1
      <3>5. QED
        BY <3>3, <3>4
    <2>3. QED
      BY <2>1, <2>2
  <1>3. \A n \in 1..N : n - 1 \in S => n \in S
    BY <1>2
  <1>4. \A n \in 0..N : n \in S
    <2>. HIDE DEF S
    <2> QED
      BY <1>1, <1>3, UpTo
  <1>5. N \in S
    BY <1>4
  <1>6. CASE N = m
    BY <1>6
  <1>7. CASE N # m
    BY <1>5, <1>7
  <1>8. QED
    BY <1>6, <1>7

------------------------------------------------------------------------------
(* A text after edits: the pieces of each span are replaced by new ones.   *)
AreSpans(S, M, V) ==
  /\ \A s \in S : s.first \in 1..M /\ s.last \in (s.first)..M /\ s.new \in Seq(V)
  /\ \A s, u \in S : s = u \/ s.last < u.first \/ u.last < s.first

Replacement(P, S, i) ==
  IF {s \in S : i \in (s.first)..(s.last)} = {} THEN << P[i] >>
  ELSE IF {s \in S : s.first = i} = {} THEN << >>
  ELSE (CHOOSE s \in {s \in S : s.first = i} : TRUE).new

Replaced(P, S) == FlattenSeq([i \in DOMAIN P |-> Replacement(P, S, i)])

Replaces(F, P, S, V) ==
  /\ F \in [0..Len(P) -> Seq(V)] /\ F[0] = << >>
  /\ \A n \in 1..Len(P) :
       /\ (\A s \in S : n \notin (s.first)..(s.last)) => F[n] = F[n - 1] \o << P[n] >>
       /\ \A s \in S : /\ s.first = n => F[n] = F[n - 1] \o s.new
                       /\ s.first < n /\ n <= s.last => F[n] = F[n - 1]

LEMMA ReplacedSteps ==
  ASSUME NEW V, NEW P \in Seq(V), NEW S, AreSpans(S, Len(P), V)
  PROVE  \E F : Replaces(F, P, S, V) /\ Replaced(P, S) = F[Len(P)]
  <1> DEFINE M == Len(P)
             seqs == [i \in 1..M |-> Replacement(P, S, i)]
  <1>1. M \in Nat /\ DOMAIN P = 1..M /\ \A i \in 1..M : P[i] \in V
    OBVIOUS
  <1>2. /\ \A s \in S : s.first \in 1..M /\ s.last \in (s.first)..M /\ s.new \in Seq(V)
        /\ \A s, u \in S : s = u \/ s.last < u.first \/ u.last < s.first
    BY DEF AreSpans
  <1>. HIDE DEF M
  <1>3. ASSUME NEW n \in 1..M, \A s \in S : n \notin (s.first)..(s.last)
        PROVE  Replacement(P, S, n) = << P[n] >> /\ Replacement(P, S, n) \in Seq(V)
    <2>1. {s \in S : n \in (s.first)..(s.last)} = {}
      BY <1>3
    <2>2. Replacement(P, S, n) = << P[n] >>
      BY <2>1 DEF Replacement
    <2>3. P[n] \in V
      BY <1>1
    <2>4. QED
      BY <2>2, <2>3
  <1>4. ASSUME NEW n \in 1..M, NEW s \in S, s.first = n
        PROVE  Replacement(P, S, n) = s.new /\ Replacement(P, S, n) \in Seq(V)
    <2> DEFINE from == {u \in S : u.first = n}
               x == CHOOSE u \in from : TRUE
    <2>1. s \in {u \in S : n \in (u.first)..(u.last)}
      BY <1>2, <1>4
    <2>2. s \in from
      BY <1>4
    <2>3. \A u \in from : u = s
      <3>1. TAKE u \in from
      <3>2. u \in S /\ u.first = n
        OBVIOUS
      <3>3. /\ u.first \in 1..M /\ u.last \in (u.first)..M
            /\ s.first \in 1..M /\ s.last \in (s.first)..M
        BY <1>2, <3>2
      <3>4. ~(u.last < s.first) /\ ~(s.last < u.first)
        BY <1>1, <1>4, <3>2, <3>3
      <3>5. QED
        BY <1>2, <3>2, <3>4
    <2>. HIDE DEF from
    <2>4. x \in from
      BY <2>2
    <2>5. x = s
      BY <2>3, <2>4
    <2>6. Replacement(P, S, n) = x.new
      BY <2>1, <2>2 DEF Replacement, from
    <2>7. QED
      BY <1>2, <2>5, <2>6
  <1>5. ASSUME NEW n \in 1..M, NEW s \in S, s.first < n, n <= s.last
        PROVE  Replacement(P, S, n) = << >> /\ Replacement(P, S, n) \in Seq(V)
    <2>1. s.first \in 1..M /\ s.last \in (s.first)..M
      BY <1>2
    <2>2. s \in {u \in S : n \in (u.first)..(u.last)}
      BY <1>1, <1>5, <2>1
    <2>3. \A u \in S : u.first # n
      <3>1. SUFFICES ASSUME NEW u \in S, u.first = n PROVE FALSE
        OBVIOUS
      <3>2. u.first \in 1..M /\ u.last \in (u.first)..M
        BY <1>2
      <3>3. u # s /\ ~(s.last < u.first) /\ ~(u.last < s.first)
        BY <1>1, <1>5, <2>1, <3>1, <3>2
      <3>4. QED
        BY <1>2, <3>3
    <2>4. {u \in S : u.first = n} = {}
      BY <2>3
    <2>5. Replacement(P, S, n) = << >>
      BY <2>2, <2>4 DEF Replacement
    <2>6. QED
      BY <2>5
  <1>6. \A n \in 1..M : Replacement(P, S, n) \in Seq(V)
    <2>1. TAKE n \in 1..M
    <2>2. CASE \A s \in S : n \notin (s.first)..(s.last)
      BY <1>3, <2>2
    <2>3. CASE \E s \in S : n \in (s.first)..(s.last)
      <3>1. PICK s \in S : n \in (s.first)..(s.last)
        BY <2>3
      <3>2. s.first \in 1..M /\ s.last \in (s.first)..M
        BY <1>2
      <3>3. n <= s.last /\ (s.first = n \/ s.first < n)
        BY <1>1, <3>1, <3>2
      <3>4. QED
        BY <1>4, <1>5, <3>3
    <2>4. QED
      BY <2>2, <2>3
  <1>7. seqs \in [1..M -> Seq(V)] /\ \A n \in 1..M : seqs[n] = Replacement(P, S, n)
    BY <1>6
  <1>8. Replaced(P, S) = FlattenSeq(seqs)
    BY <1>1 DEF Replaced
  <1>. HIDE DEF seqs
  <1>9. PICK F : Accumulates(F, M, V, seqs) /\ FlattenSeq(seqs) = F[M]
    BY <1>1, <1>7, Flattening
  <1>10. /\ F \in [0..M -> Seq(V)] /\ F[0] = << >>
         /\ \A n \in 1..M : F[n] = F[n - 1] \o Replacement(P, S, n)
    BY <1>7, <1>9 DEF Accumulates
  <1>11. ASSUME NEW n \in 1..M, \A s \in S : n \notin (s.first)..(s.last)
         PROVE  F[n] = F[n - 1] \o << P[n] >>
    BY <1>3, <1>10, <1>11
  <1>12. ASSUME NEW n \in 1..M, NEW s \in S
         PROVE  /\ s.first = n => F[n] = F[n - 1] \o s.new
                /\ s.first < n /\ n <= s.last => F[n] = F[n - 1]
    <2>1. ASSUME s.first = n PROVE F[n] = F[n - 1] \o s.new
      BY <1>4, <1>10, <2>1
    <2>2. ASSUME s.first < n, n <= s.last PROVE F[n] = F[n - 1]
      <3>1. Replacement(P, S, n) = << >>
        BY <1>5, <2>2
      <3>2. F[n - 1] \in Seq(V)
        <4>1. n - 1 \in 0..M
          BY <1>1
        <4>2. QED
          BY <1>10, <4>1
      <3>3. F[n - 1] \o << >> = F[n - 1]
        BY <3>2
      <3>4. QED
        BY <1>10, <3>1, <3>3
    <2>3. QED
      BY <2>1, <2>2
  <1>13. \A n \in 1..M : (\A s \in S : n \notin (s.first)..(s.last)) => F[n] = F[n - 1] \o << P[n] >>
    BY <1>11
  <1>14. \A n \in 1..M : \A s \in S : /\ s.first = n => F[n] = F[n - 1] \o s.new
                                      /\ s.first < n /\ n <= s.last => F[n] = F[n - 1]
    BY <1>12
  <1>15. Replaces(F, P, S, V)
    BY <1>10, <1>13, <1>14 DEF Replaces, M
  <1>16. QED
    BY <1>8, <1>9, <1>15 DEF M

(* Spans that keep what they have of a kind keep it in the text.           *)
SpansKeep(P, S, K) ==
  \A s \in S : Of(Begin(P, s.first - 1), K) \o Of(s.new, K) = Of(Begin(P, s.last), K)

LEMMA ReplacedKeeps ==
  ASSUME NEW V, NEW P \in Seq(V), NEW S, AreSpans(S, Len(P), V), NEW K, SpansKeep(P, S, K)
  PROVE  Replaced(P, S) \in Seq(V) /\ Of(Replaced(P, S), K) = Of(P, K)
  <1> DEFINE M == Len(P)
             Covers(s, n) == s.first <= n /\ n <= s.last
  <1>0. M \in Nat /\ M \in 0..M
    OBVIOUS
  <1>1. /\ M \in Nat /\ M \in 0..M /\ Begin(P, 0) = << >> /\ Begin(P, M) = P
        /\ \A n \in 0..M : Begin(P, n) \in Seq(V)
    BY DEF Begin
  <1>2. /\ \A s \in S : s.first \in 1..M /\ s.last \in (s.first)..M /\ s.new \in Seq(V)
        /\ \A s, u \in S : s = u \/ s.last < u.first \/ u.last < s.first
    BY DEF AreSpans
  <1>3. PICK F : Replaces(F, P, S, V) /\ Replaced(P, S) = F[M]
    BY ReplacedSteps
  <1>4. /\ F \in [0..M -> Seq(V)] /\ F[0] = << >>
        /\ \A n \in 1..M :
             /\ (\A s \in S : n \notin (s.first)..(s.last)) => F[n] = F[n - 1] \o << P[n] >>
             /\ \A s \in S : /\ s.first = n => F[n] = F[n - 1] \o s.new
                             /\ s.first < n /\ n <= s.last => F[n] = F[n - 1]
    BY <1>3 DEF Replaces
  <1>5. ASSUME NEW n \in 1..M
        PROVE  /\ n - 1 \in 0..M /\ F[n - 1] \in Seq(V) /\ << P[n] >> \in Seq(V)
               /\ Begin(P, n - 1) \in Seq(V) /\ Begin(P, n) = Begin(P, n - 1) \o << P[n] >>
    <2>1. n - 1 \in 0..M
      BY <1>1
    <2>2. P[n] \in V
      OBVIOUS
    <2>3. Begin(P, n) = Begin(P, n - 1) \o << P[n] >>
      BY <1>1, <2>1 DEF Begin
    <2>4. F[n - 1] \in Seq(V) /\ << P[n] >> \in Seq(V)
      BY <1>4, <2>1, <2>2
    <2>5. Begin(P, n - 1) \in Seq(V)
      BY <1>1, <2>1
    <2>6. QED
      BY <2>1, <2>3, <2>4, <2>5
  <1>. HIDE DEF M
  <1> DEFINE T == {n \in 0..M :
                     /\ \A s \in S : Covers(s, n) => Of(F[n], K) = Of(Begin(P, s.last), K)
                     /\ (\A s \in S : ~Covers(s, n)) => Of(F[n], K) = Of(Begin(P, n), K)}
  <1>6. 0 \in T
    <2>1. \A s \in S : ~Covers(s, 0)
      BY <1>1, <1>2
    <2>2. QED
      BY <1>1, <1>4, <2>1
  <1>7. ASSUME NEW n \in 1..M, n - 1 \in T, \A s \in S : Covers(s, n - 1) => s.last = n - 1
        PROVE  Of(F[n - 1], K) = Of(Begin(P, n - 1), K)
    <2>1. CASE \E s \in S : Covers(s, n - 1)
      BY <1>7, <2>1
    <2>2. CASE \A s \in S : ~Covers(s, n - 1)
      BY <1>7, <2>2
    <2>3. QED
      BY <2>1, <2>2
  <1>8. ASSUME NEW n \in 1..M, n - 1 \in T PROVE n \in T
    <2>1. CASE \A s \in S : ~Covers(s, n)
      <3>1. \A s \in S : Covers(s, n - 1) => s.last = n - 1
        <4>1. TAKE s \in S
        <4>2. s.first \in 1..M /\ s.last \in (s.first)..M /\ ~Covers(s, n)
          BY <1>2, <2>1
        <4>3. QED
          BY <1>0, <4>2
      <3>2. \A s \in S : n \notin (s.first)..(s.last)
        BY <1>2, <2>1
      <3>3. F[n] = F[n - 1] \o << P[n] >>
        BY <1>4, <3>2
      <3>4. Of(F[n - 1], K) = Of(Begin(P, n - 1), K)
        BY <1>7, <1>8, <3>1
      <3> DEFINE a == F[n - 1]
                 b == << P[n] >>
                 c == Begin(P, n - 1)
      <3>5. a \in Seq(V)
        BY <1>5
      <3>5b. b \in Seq(V)
        BY <1>5
      <3>5c. c \in Seq(V)
        BY <1>5
      <3>6. F[n] = a \o b /\ Begin(P, n) = c \o b /\ Of(a, K) = Of(c, K)
        BY <1>5, <3>3, <3>4
      <3>. HIDE DEF a, b, c
      <3>7. Of(a \o b, K) = Of(a, K) \o Of(b, K)
        BY <3>5, <3>5b, OfTwo
      <3>8. Of(c \o b, K) = Of(c, K) \o Of(b, K)
        BY <3>5b, <3>5c, OfTwo
      <3>9. Of(F[n], K) = Of(Begin(P, n), K)
        BY <3>6, <3>7, <3>8
      <3>10. n \in 0..M
        BY <1>1
      <3>11. QED
        BY <2>1, <3>9, <3>10
    <2>2. CASE \E s \in S : s.first = n
      <3>1. PICK s \in S : s.first = n
        BY <2>2
      <3>2. s.last \in n..M /\ s.new \in Seq(V)
        BY <1>2, <3>1
      <3>3. \A u \in S : Covers(u, n) => u = s
        <4>1. TAKE u \in S
        <4>2. u.first \in 1..M /\ u.last \in (u.first)..M
          BY <1>2
        <4>3. Covers(u, n) => ~(s.last < u.first) /\ ~(u.last < s.first)
          BY <1>0, <3>1, <3>2, <4>2
        <4>4. QED
          BY <1>2, <4>3
      <3>4. \A u \in S : Covers(u, n - 1) => u.last = n - 1
        <4>1. TAKE u \in S
        <4>2. u.first \in 1..M /\ u.last \in (u.first)..M
          BY <1>2
        <4>3. Covers(u, n - 1) => u.first < n
          BY <1>0, <4>2
        <4>4. Covers(u, n - 1) => ~(n <= u.last)
          BY <1>0, <3>1, <3>3, <4>2, <4>3
        <4>5. QED
          BY <1>0, <4>2, <4>4
      <3>5. Of(F[n - 1], K) = Of(Begin(P, n - 1), K)
        BY <1>7, <1>8, <3>4
      <3>6. F[n] = F[n - 1] \o s.new
        BY <1>4, <3>1
      <3> DEFINE a == F[n - 1]
                 b == s.new
      <3>7. a \in Seq(V) /\ b \in Seq(V) /\ F[n] = a \o b
        BY <1>5, <3>2, <3>6
      <3>8. Of(Begin(P, n - 1), K) \o Of(b, K) = Of(Begin(P, s.last), K)
        BY <3>1 DEF SpansKeep
      <3>9. Of(a, K) = Of(Begin(P, n - 1), K)
        BY <3>5
      <3>. HIDE DEF a, b
      <3>10. Of(a \o b, K) = Of(a, K) \o Of(b, K)
        BY <3>7, OfTwo
      <3>11. Of(F[n], K) = Of(Begin(P, s.last), K)
        BY <3>7, <3>8, <3>9, <3>10
      <3>12. n \in 0..M /\ Covers(s, n)
        BY <1>0, <3>1, <3>2
      <3>13. QED
        BY <3>3, <3>11, <3>12
    <2>3. CASE \E s \in S : s.first < n /\ n <= s.last
      <3>1. PICK s \in S : s.first < n /\ n <= s.last
        BY <2>3
      <3>2. s.first \in 1..M /\ s.last \in (s.first)..M
        BY <1>2
      <3>3. \A u \in S : Covers(u, n) => u = s
        <4>1. TAKE u \in S
        <4>2. u.first \in 1..M /\ u.last \in (u.first)..M
          BY <1>2
        <4>3. Covers(u, n) => ~(s.last < u.first) /\ ~(u.last < s.first)
          BY <1>0, <3>1, <3>2, <4>2
        <4>4. QED
          BY <1>2, <4>3
      <3>4. Covers(s, n - 1) /\ Covers(s, n) /\ n \in 0..M
        BY <1>0, <3>1, <3>2
      <3>5. F[n] = F[n - 1]
        BY <1>4, <3>1
      <3>6. Of(F[n], K) = Of(Begin(P, s.last), K)
        BY <1>8, <3>4, <3>5
      <3>7. QED
        BY <3>3, <3>4, <3>6
    <2>4. ASSUME NEW s \in S, Covers(s, n) PROVE s.first = n \/ (s.first < n /\ n <= s.last)
      BY <1>1, <1>2, <2>4
    <2>5. QED
      BY <2>1, <2>2, <2>3, <2>4
  <1>9. \A n \in 1..M : n - 1 \in T => n \in T
    BY <1>8
  <1>10. M \in T
    <2>1. \A n \in 0..M : n \in T
      <3>. HIDE DEF T
      <3> QED
        BY <1>1, <1>6, <1>9, UpTo
    <2>2. QED
      BY <1>1, <2>1
  <1>11. \A s \in S : Covers(s, M) => s.last = M
    BY <1>1, <1>2
  <1>12. Of(F[M], K) = Of(P, K)
    BY <1>1, <1>10, <1>11
  <1>13. QED
    BY <1>1, <1>3, <1>4, <1>12

(* No word is the end of a longer one.                                     *)
IsWord(piece) == piece.kind = "ident" /\ ToSet(piece.runes) \subseteq WordRunes
EndsApart(piece) == Last(piece.runes) \notin WordRunes
WordsApart(P) == \A i \in 1..Len(P) : IsWord(P[i]) /\ i > 1 => EndsApart(P[i - 1])

LEMMA ConcatApart ==
  ASSUME NEW V, NEW a \in Seq(V), NEW b \in Seq(V), WordsApart(a), WordsApart(b),
         NEW x, a # << >> => x = a[Len(a)],
         NEW y, b # << >> => y = b[1],
         a # << >> /\ b # << >> /\ IsWord(y) => EndsApart(x)
  PROVE  WordsApart(a \o b)
  <1> DEFINE c == a \o b
             m == Len(a)
             n == Len(b)
  <1>1. /\ m \in Nat /\ n \in Nat /\ Len(c) = m + n
        /\ \A i \in 1..m : c[i] = a[i]
        /\ \A i \in 1..n : c[m + i] = b[i]
    OBVIOUS
  <1>2. (m # 0 => a # << >>) /\ (n # 0 => b # << >>)
    OBVIOUS
  <1>. HIDE DEF c, m, n
  <1>3. ASSUME NEW i \in 1..(m + n), i > 1, IsWord(c[i]) PROVE EndsApart(c[i - 1])
    <2>1. CASE i <= m
      <3>1. i \in 1..m /\ i - 1 \in 1..m
        BY <1>1, <1>3, <2>1
      <3>2. c[i] = a[i] /\ c[i - 1] = a[i - 1]
        BY <1>1, <3>1
      <3>3. QED
        BY <1>3, <3>1, <3>2 DEF WordsApart, m
    <2>2. CASE i = m + 1
      <3>1. m \in 1..m /\ 1 \in 1..n /\ i - 1 = m /\ m # 0 /\ n # 0
        BY <1>1, <1>3, <2>2
      <3>2. c[i] = b[1] /\ c[i - 1] = a[m]
        BY <1>1, <2>2, <3>1
      <3>3. a # << >> /\ b # << >> /\ y = b[1] /\ x = a[m]
        BY <1>2, <3>1 DEF m
      <3>4. QED
        BY <1>3, <3>2, <3>3
    <2>3. CASE i > m + 1
      <3> DEFINE j == i - m
      <3>1. j \in 1..n /\ j - 1 \in 1..n /\ j > 1 /\ m + j = i /\ m + (j - 1) = i - 1
        BY <1>1, <1>3, <2>3
      <3>. HIDE DEF j
      <3>2. c[i] = b[j] /\ c[i - 1] = b[j - 1]
        BY <1>1, <3>1
      <3>3. QED
        BY <1>3, <3>1, <3>2 DEF WordsApart, n
    <2>4. QED
      BY <1>1, <2>1, <2>2, <2>3
  <1>4. \A i \in 1..Len(c) : IsWord(c[i]) /\ i > 1 => EndsApart(c[i - 1])
    BY <1>1, <1>3
  <1>5. QED
    BY <1>4 DEF WordsApart, c

SpansApart(P, S) ==
  \A s \in S :
    /\ s.new # << >> /\ s.new[1] = P[s.first] /\ WordsApart(s.new)
    /\ s.last < Len(P) => ~IsWord(P[s.last + 1]) /\ \A u \in S : u.first # s.last + 1

(* Spans that begin with what they replace and end before what is no word  *)
(* keep words apart.                                                       *)
LEMMA ReplacedApart ==
  ASSUME NEW V, NEW P \in Seq(V), NEW S, AreSpans(S, Len(P), V),
         WordsApart(P), SpansApart(P, S)
  PROVE  WordsApart(Replaced(P, S))
  <1> DEFINE M == Len(P)
             Covers(s, n) == s.first <= n /\ n <= s.last
  <1>1. M \in Nat /\ \A n \in 1..M : P[n] \in V
    OBVIOUS
  <1>2. /\ \A s \in S : s.first \in 1..M /\ s.last \in (s.first)..M /\ s.new \in Seq(V)
        /\ \A s, u \in S : s = u \/ s.last < u.first \/ u.last < s.first
    BY DEF AreSpans
  <1>3. PICK F : Replaces(F, P, S, V) /\ Replaced(P, S) = F[M]
    BY ReplacedSteps
  <1>4. /\ F \in [0..M -> Seq(V)] /\ F[0] = << >>
        /\ \A n \in 1..M :
             /\ (\A s \in S : n \notin (s.first)..(s.last)) => F[n] = F[n - 1] \o << P[n] >>
             /\ \A s \in S : /\ s.first = n => F[n] = F[n - 1] \o s.new
                             /\ s.first < n /\ n <= s.last => F[n] = F[n - 1]
    BY <1>3 DEF Replaces
  <1>5. \A s \in S : /\ s.new # << >> /\ s.new[1] = P[s.first] /\ WordsApart(s.new)
                     /\ s.last < M => ~IsWord(P[s.last + 1]) /\ \A u \in S : u.first # s.last + 1
    BY DEF SpansApart
  <1>6. \A n \in 1..M : IsWord(P[n]) /\ n > 1 => EndsApart(P[n - 1])
    BY DEF WordsApart
  <1>. HIDE DEF M
  <1> DEFINE T == {n \in 0..M :
                     /\ WordsApart(F[n])
                     /\ n # 0 => F[n] # << >>
                     /\ n # 0 /\ (\A s \in S : ~Covers(s, n)) => F[n][Len(F[n])] = P[n]}
  <1>7. 0 \in T
    <2>1. WordsApart(<< >>)
      BY DEF WordsApart
    <2>2. QED
      BY <1>1, <1>4, <2>1
  <1>8. ASSUME NEW n \in 1..M, n - 1 \in T, NEW b \in Seq(V), b # << >>, b[1] = P[n],
               WordsApart(b), F[n] = F[n - 1] \o b,
               \/ \A s \in S : ~Covers(s, n)
               \/ \E s \in S : s.first = n
        PROVE  WordsApart(F[n]) /\ F[n] # << >> /\ F[n][Len(F[n])] = b[Len(b)]
    <2> DEFINE a == F[n - 1]
               x == a[Len(a)]
               y == b[1]
    <2>0. n - 1 \in 0..M
      BY <1>1
    <2>1. a \in Seq(V) /\ WordsApart(a) /\ (n - 1 # 0 => a # << >>) /\ (n - 1 = 0 => a = << >>)
      BY <1>4, <1>8, <2>0
    <2>2. ASSUME a # << >>, IsWord(y) PROVE EndsApart(x)
      <3>1. n > 1 /\ n - 1 # 0 /\ n - 1 \in 1..M /\ n - 1 < M /\ (n - 1) + 1 = n
        BY <1>1, <2>1, <2>2
      <3>2. EndsApart(P[n - 1])
        BY <1>6, <1>8, <2>2, <3>1
      <3>3. ASSUME NEW s \in S, Covers(s, n - 1) PROVE FALSE
        <4>1. s.first \in 1..M /\ s.last \in (s.first)..M
          BY <1>2
        <4>2. ~(s.last = n - 1)
          <5>1. SUFFICES ASSUME s.last = n - 1 PROVE FALSE
            OBVIOUS
          <5>2. s.last < M /\ s.last + 1 = n
            BY <3>1, <5>1
          <5>3. ~IsWord(P[n])
            BY <1>5, <5>2
          <5>4. QED
            BY <1>8, <2>2, <5>3
        <4>3. Covers(s, n) /\ s.first # n
          BY <1>1, <3>3, <4>1, <4>2
        <4>4. PICK u \in S : u.first = n
          BY <1>8, <4>3
        <4>5. u.first \in 1..M /\ u.last \in (u.first)..M
          BY <1>2
        <4>6. s # u /\ ~(s.last < u.first) /\ ~(u.last < s.first)
          BY <1>1, <4>1, <4>3, <4>4, <4>5
        <4>7. QED
          BY <1>2, <4>6
      <3>4. a[Len(a)] = P[n - 1]
        BY <1>8, <3>1, <3>3
      <3>5. QED
        BY <3>2, <3>4
    <2>. HIDE DEF a, x, y
    <2>3. F[n] = a \o b /\ x = a[Len(a)] /\ y = b[1]
      BY <1>8 DEF a, x, y
    <2>4. WordsApart(a \o b)
      BY <1>8, <2>1, <2>2, <2>3, ConcatApart
    <2>5. a \o b # << >> /\ (a \o b)[Len(a \o b)] = b[Len(b)]
      <3>1. Len(a) \in Nat /\ Len(b) \in Nat /\ Len(b) > 0 /\ Len(a \o b) = Len(a) + Len(b)
        BY <1>8, <2>1
      <3>2. (a \o b)[Len(a) + Len(b)] = b[Len(b)]
        BY <1>8, <2>1, <3>1
      <3>3. QED
        BY <3>1, <3>2
    <2>6. QED
      BY <2>3, <2>4, <2>5
  <1>9. ASSUME NEW n \in 1..M, n - 1 \in T PROVE n \in T
    <2>0. n \in 0..M /\ n # 0
      BY <1>1
    <2>1. CASE \A s \in S : ~Covers(s, n)
      <3> DEFINE b == << P[n] >>
      <3>1. b \in Seq(V) /\ b # << >> /\ b[1] = P[n] /\ b[Len(b)] = P[n]
        BY <1>1
      <3>2. WordsApart(b)
        BY DEF WordsApart
      <3>3. \A s \in S : n \notin (s.first)..(s.last)
        BY <1>2, <2>1
      <3>4. F[n] = F[n - 1] \o b
        BY <1>4, <3>3
      <3>. HIDE DEF b
      <3>5. WordsApart(F[n]) /\ F[n] # << >> /\ F[n][Len(F[n])] = b[Len(b)]
        BY <1>8, <1>9, <2>1, <3>1, <3>2, <3>4
      <3>6. QED
        BY <2>0, <3>1, <3>5
    <2>2. CASE \E s \in S : s.first = n
      <3>1. PICK s \in S : s.first = n
        BY <2>2
      <3> DEFINE b == s.new
      <3>2. b \in Seq(V) /\ b # << >> /\ b[1] = P[n] /\ WordsApart(b)
        BY <1>2, <1>5, <3>1
      <3>3. F[n] = F[n - 1] \o b
        BY <1>4, <3>1
      <3>4. s.last \in n..M
        BY <1>2, <3>1
      <3>5. Covers(s, n)
        BY <1>1, <3>1, <3>4
      <3>. HIDE DEF b, Covers
      <3>6. WordsApart(F[n]) /\ F[n] # << >>
        BY <1>8, <1>9, <2>2, <3>2, <3>3
      <3>7. QED
        BY <2>0, <3>5, <3>6
    <2>3. CASE \E s \in S : s.first < n /\ n <= s.last
      <3>1. PICK s \in S : s.first < n /\ n <= s.last
        BY <2>3
      <3>2. F[n] = F[n - 1]
        BY <1>4, <3>1
      <3>3. s.first \in 1..M
        BY <1>2
      <3>4. n - 1 # 0 /\ Covers(s, n)
        BY <1>1, <3>1, <3>3
      <3>5. WordsApart(F[n]) /\ F[n] # << >>
        BY <1>9, <3>2, <3>4
      <3>. HIDE DEF Covers
      <3>6. QED
        BY <2>0, <3>4, <3>5
    <2>4. ASSUME NEW s \in S, Covers(s, n) PROVE s.first = n \/ (s.first < n /\ n <= s.last)
      BY <1>1, <1>2, <2>4
    <2>5. QED
      BY <2>1, <2>2, <2>3, <2>4
  <1>10. \A n \in 1..M : n - 1 \in T => n \in T
    BY <1>9
  <1>11. M \in T
    <2>1. \A n \in 0..M : n \in T
      <3>. HIDE DEF T
      <3> QED
        BY <1>1, <1>7, <1>10, UpTo
    <2>2. M \in 0..M
      BY <1>1
    <2>3. QED
      BY <2>1, <2>2
  <1>12. QED
    BY <1>3, <1>11

(* Where an edit begins and ends.                                          *)
FirstOf(P, pos) ==
  1 + Max({i \in DOMAIN Ends(P) :
             Ends(P)[i] <= EditorOffset(EditorPositions(Runes(P)), pos)})
LastOf(P, pos) ==
  Min({i \in DOMAIN Ends(P) : Ends(P)[i] >= EditorOffset(EditorPositions(Runes(P)), pos)})
SpanOf(P, e) ==
  [first |-> FirstOf(P, e.range.start), last |-> LastOf(P, e.range.end), new |-> e.new]
SpansOf(P, edits) == {SpanOf(P, e) : e \in ToSet(edits)}

LEMMA AppliedIs ==
  ASSUME NEW P, NEW edits
  PROVE  Applied(P, edits) = Replaced(P, SpansOf(P, edits))
  <1> DEFINE ends == Ends(P)
             positions == EditorPositions(Runes(P))
             after(n) == 1 + Max({i \in DOMAIN ends : ends[i] <= n})
             upTo(n) == Min({i \in DOMAIN ends : ends[i] >= n})
             spans == {[first |-> after(EditorOffset(positions, e.range.start)),
                        last |-> upTo(EditorOffset(positions, e.range.end)),
                        new |-> e.new] : e \in ToSet(edits)}
             over(i) == {s \in spans : i \in s.first..s.last}
             from(i) == {s \in spans : s.first = i}
             pieces == [i \in DOMAIN P |-> IF over(i) = {} THEN << P[i] >>
                                           ELSE IF from(i) = {} THEN << >>
                                           ELSE (CHOOSE s \in from(i) : TRUE).new]
  <1>1. Applied(P, edits) = FlattenSeq(pieces)
    BY DEF Applied
  <1>2. spans = SpansOf(P, edits)
    BY DEF SpansOf, SpanOf, FirstOf, LastOf
  <1>3. \A i \in DOMAIN P : pieces[i] = Replacement(P, spans, i)
    <2>. HIDE DEF spans
    <2> QED
      BY DEF Replacement
  <1>4. pieces = [i \in DOMAIN P |-> Replacement(P, spans, i)]
    <2>. HIDE DEF spans
    <2> QED
      BY DEF Replacement
  <1>. HIDE DEF spans, pieces
  <1>5. QED
    BY <1>1, <1>2, <1>4 DEF Replaced

LEMMA SpanFrom ==
  ASSUME NEW P, PiecesOK(P), NEW a \in 1..Len(P), NEW b \in a..Len(P)
  PROVE  FirstOf(P, Span(P, a, b).start) = a /\ LastOf(P, Span(P, a, b).end) = b
  <1> DEFINE M == Len(P)
             E == Ends(P)
             R == Runes(P)
             Q == EditorPositions(R)
             before == {i \in 0..M : E[i] <= E[a - 1]}
             behind == {i \in 0..M : E[i] >= E[b]}
  <1>1. M \in Nat /\ R \in Seq(DOMAIN Bytes) /\ a - 1 \in 0..M /\ b \in 0..M
    BY PiecesAre, RunesAre
  <1>2. /\ \A i \in 0..M : E[i] \in 0..Len(R)
        /\ \A i, j \in 0..M : E[i] < E[j] <=> i < j
    BY EndsGrow
  <1>3. DOMAIN E = 0..M
    BY EndsAre
  <1>4. EditorOffset(Q, Q[E[a - 1]]) = E[a - 1] /\ EditorOffset(Q, Q[E[b]]) = E[b]
    <2>1. E[a - 1] \in 0..Len(R) /\ E[b] \in 0..Len(R)
      BY <1>1, <1>2
    <2>. HIDE DEF R, E
    <2>2. QED
      BY <1>1, <2>1, EditorOffsetIs
  <1>5. Span(P, a, b).start = Q[E[a - 1]] /\ Span(P, a, b).end = Q[E[b]]
    BY DEF Span, Place
  <1>. HIDE DEF M, E, R, Q
  <1>6. a - 1 \in before /\ \A i \in before : i <= a - 1
    <2>1. \A i \in 0..M : E[i] \in Nat
      BY <1>2
    <2>2. ASSUME NEW i \in before PROVE i <= a - 1
      <3>1. ~(E[a - 1] < E[i])
        BY <1>1, <2>1
      <3>2. ~(a - 1 < i)
        BY <1>1, <1>2, <3>1
      <3>3. QED
        BY <1>1, <3>2
    <2>3. QED
      BY <1>1, <2>1, <2>2
  <1>7. b \in behind /\ \A i \in behind : b <= i
    <2>1. \A i \in 0..M : E[i] \in Nat
      BY <1>2
    <2>2. ASSUME NEW i \in behind PROVE b <= i
      <3>1. ~(E[i] < E[b])
        BY <1>1, <2>1
      <3>2. ~(i < b)
        BY <1>1, <1>2, <3>1
      <3>3. QED
        BY <1>1, <3>2
    <2>3. QED
      BY <1>1, <2>1, <2>2
  <1>8. before \subseteq Int /\ behind \subseteq Int
    BY <1>1
  <1>9. FirstOf(P, Span(P, a, b).start) = 1 + Max(before)
    BY <1>3, <1>4, <1>5 DEF FirstOf, E, Q, R
  <1>10. LastOf(P, Span(P, a, b).end) = Min(behind)
    BY <1>3, <1>4, <1>5 DEF LastOf, E, Q, R
  <1>. HIDE DEF before, behind
  <1>11. Max(before) = a - 1
    BY <1>6, <1>8, MaxIs
  <1>12. Min(behind) = b
    BY <1>7, <1>8, MinIs
  <1>13. QED
    BY <1>1, <1>9, <1>10, <1>11, <1>12

------------------------------------------------------------------------------
(* What is printed of a statement.                                         *)
PieceSet(P) == ToSet(P) \cup {Space, LineBreak, Semicolon}
CodeSet(V) == {x \in V : IsCode(x)}
CommentSet(V) == {x \in V : x.kind = "comment"}

LEMMA PrintedPieces ==
  /\ EndsApart(Space) /\ EndsApart(LineBreak) /\ EndsApart(Semicolon)
  /\ ~IsWord(Space) /\ ~IsWord(LineBreak) /\ ~IsWord(Semicolon)
  /\ ~IsCode(Space) /\ ~IsCode(LineBreak) /\ IsCode(Semicolon)
  /\ Space.kind # "comment" /\ LineBreak.kind # "comment" /\ Semicolon.kind # "comment"
  /\ \A x \in {Space, LineBreak, Semicolon} : x.runes \in Seq(DOMAIN Bytes) \ {<< >>}
  <1>1. Blank \in DOMAIN Bytes /\ Semi \in DOMAIN Bytes /\ Newline \in DOMAIN Bytes
        /\ Blank \notin WordRunes /\ Semi \notin WordRunes /\ Newline \notin WordRunes
    <2>1. Blank \in DOMAIN Bytes /\ Semi \in DOMAIN Bytes
      BY PrintedAssumption
    <2>2. Newline \in DOMAIN Bytes
      BY RuneAssumption
    <2>3. Blank \notin WordRunes /\ Semi \notin WordRunes /\ Newline \notin WordRunes
      BY PrintedAssumption
    <2>4. QED
      BY <2>1, <2>2, <2>3
  <1>2. \A r : Last(<< r >>) = r
    BY DEF Last
  <1>0. Space.runes = << Blank >> /\ LineBreak.runes = << Newline >> /\ Semicolon.runes = << Semi >>
    <2>1. Space.runes = << Blank >>
      BY DEF Space
    <2>2. LineBreak.runes = << Newline >>
      BY DEF LineBreak
    <2>3. Semicolon.runes = << Semi >>
      BY DEF Semicolon
    <2>4. QED
      BY <2>1, <2>2, <2>3
  <1>3. EndsApart(Space) /\ EndsApart(LineBreak) /\ EndsApart(Semicolon)
    BY <1>0, <1>1, <1>2 DEF EndsApart
  <1>4. ~IsWord(Space) /\ ~IsWord(LineBreak) /\ ~IsWord(Semicolon)
    BY DEF IsWord, Space, LineBreak, Semicolon
  <1>5. ~IsCode(Space) /\ ~IsCode(LineBreak) /\ IsCode(Semicolon)
    BY DEF IsCode, Trivia, Space, LineBreak, Semicolon
  <1>6. Space.kind # "comment" /\ LineBreak.kind # "comment" /\ Semicolon.kind # "comment"
    BY DEF Space, LineBreak, Semicolon
  <1>7. \A x \in {Space, LineBreak, Semicolon} : x.runes \in Seq(DOMAIN Bytes) \ {<< >>}
    <2>1. ASSUME NEW r \in DOMAIN Bytes PROVE << r >> \in Seq(DOMAIN Bytes) \ {<< >>}
      OBVIOUS
    <2>2. /\ << Blank >> \in Seq(DOMAIN Bytes) \ {<< >>}
          /\ << Semi >> \in Seq(DOMAIN Bytes) \ {<< >>}
          /\ << Newline >> \in Seq(DOMAIN Bytes) \ {<< >>}
      BY <1>1, <2>1
    <2>3. QED
      BY <1>0, <2>2
  <1>8. QED
    BY <1>3, <1>4, <1>5, <1>6, <1>7

LEMMA OfOne ==
  ASSUME NEW V, NEW K, NEW x \in V
  PROVE  /\ x \in K => Of(<< x >>, K) = << x >>
         /\ x \notin K => Of(<< x >>, K) = << >>
  <1> DEFINE s == << >>
  <1>1. s \in Seq(V) /\ << x >> = Append(s, x) /\ Of(s, K) = s
    BY OfNothing
  <1>. HIDE DEF s
  <1>2. (x \in K => Of(Append(s, x), K) = Append(Of(s, K), x))
        /\ (x \notin K => Of(Append(s, x), K) = Of(s, K))
    BY <1>1, OfMore
  <1>3. QED
    BY <1>1, <1>2 DEF s

(* The code and the comments of a text are its pieces of these kinds.      *)
LEMMA CodeOf ==
  ASSUME NEW V, NEW P \in Seq(V)
  PROVE  /\ Code(P) = Of(P, CodeSet(V)) /\ CodePlaces(P) = PlacesOf(P, CodeSet(V))
         /\ Comments(P) = Of(P, CommentSet(V)) /\ CommentPlaces(P) = PlacesOf(P, CommentSet(V))
  <1>1. \A i \in DOMAIN P : P[i] \in V
    OBVIOUS
  <1>2. CodePlaces(P) = PlacesOf(P, CodeSet(V)) /\ CommentPlaces(P) = PlacesOf(P, CommentSet(V))
    BY <1>1 DEF CodePlaces, CommentPlaces, PlacesOf, CodeSet, CommentSet
  <1>3. QED
    BY <1>2 DEF Code, Comments, Of, PlacesOf

LEMMA CodePieces ==
  ASSUME NEW P, PiecesOK(P), NEW k \in 1..Len(Code(P))
  PROVE  /\ Code(P)[k] \in ToSet(P) /\ IsCode(Code(P)[k])
         /\ CodeAt(P)[k] \in 1..Len(P) /\ Code(P)[k] = P[CodeAt(P)[k]]
  <1> DEFINE A == CodeAt(P)
  <1>1. /\ Code(P) = [j \in 1..Len(A) |-> P[A[j]]] /\ Len(Code(P)) = Len(A)
        /\ Lists(A, Len(P), CodePlaces(P))
    BY CodeIs
  <1>2. DOMAIN P = 1..Len(P)
    BY PiecesAre
  <1>. HIDE DEF A
  <1>3. A[k] \in 1..Len(P) /\ A[k] \in CodePlaces(P)
    BY <1>1 DEF Lists
  <1>4. Code(P)[k] = P[A[k]]
    BY <1>1
  <1>5. QED
    BY <1>2, <1>3, <1>4 DEF CodePlaces, ToSet, A

(* ... its tokens, a space between two, and no comment.                    *)
Between(P, a, b) == [k \in 1..(b - a + 1) |-> Code(P)[a + k - 1]]

LEMMA FormattedStatement ==
  ASSUME NEW P, PiecesOK(P), NEW syntax, NEW t, t = newLexer(syntax, P),
         NEW stmt, stmt.last \in 1..Len(Code(P)), stmt.first \in 1..(stmt.last),
         NEW V, V = PieceSet(P), NEW W, W = formatStatement(t, stmt)
  PROVE  /\ W \in Seq(V) /\ W # << >> /\ W[1] = Code(P)[stmt.first] /\ WordsApart(W)
         /\ Of(W, CodeSet(V)) = Between(P, stmt.first, stmt.last)
         /\ Of(W, CommentSet(V)) = << >>
  <1> DEFINE first == stmt.first
             n == stmt.last - stmt.first + 1
             C == Code(P)
             seqs == [k \in 1..n |-> (IF k = 1 THEN << >> ELSE << Space >>)
                                       \o << t.tokens[first + k - 1].piece >>]
             token(k) == C[first + k - 1]
             K == CodeSet(V)
             H == CommentSet(V)
  <1>0. /\ Len(C) \in Nat /\ first \in Nat /\ n \in Nat /\ n > 0
        /\ \A k \in 1..n : first + k - 1 \in 1..Len(C)
    <2>1. Len(C) \in Nat
      BY CodeIs
    <2> DEFINE x == stmt.first
               y == stmt.last
               N == Len(C)
    <2>2. y \in 1..N /\ x \in 1..y /\ N \in Nat
      BY <2>1
    <2>. HIDE DEF x, y, N
    <2>3. /\ x \in Nat /\ y - x + 1 \in Nat /\ y - x + 1 > 0
          /\ \A k \in 1..(y - x + 1) : x + k - 1 \in 1..N
      BY <2>2
    <2>4. QED
      BY <2>2, <2>3 DEF x, y, N
  <1>1. \A k \in 1..n : t.tokens[first + k - 1].piece = token(k)
    <2>1. TAKE k \in 1..n
    <2>2. Len(C) = Len(CodeAt(P)) /\ C = [j \in 1..Len(CodeAt(P)) |-> P[CodeAt(P)[j]]]
      BY CodeIs
    <2>3. t.tokens = [j \in 1..Len(CodeAt(P)) |-> Placed(P, CodeAt(P)[j])]
      BY LexerIs DEF TokensOf
    <2> DEFINE j == first + k - 1
    <2>4. j \in 1..Len(CodeAt(P))
      BY <1>0, <2>2
    <2>. HIDE DEF j, C
    <2>5. t.tokens[j] = Placed(P, CodeAt(P)[j]) /\ C[j] = P[CodeAt(P)[j]]
      BY <2>2, <2>3, <2>4
    <2>6. QED
      BY <2>5 DEF j, Placed
  <1>2. \A k \in 1..n : token(k) \in V /\ IsCode(token(k))
    BY <1>0, CodePieces DEF PieceSet
  <1>3. Space \in V /\ W = FlattenSeq(seqs)
    BY DEF PieceSet, formatStatement
  <1>4. /\ \A x \in V : x \in K <=> IsCode(x)
        /\ \A x \in V : x \in H <=> x.kind = "comment"
    BY DEF CodeSet, CommentSet
  <1>5. \A k \in 1..n : token(k) \in K /\ token(k) \notin H
    BY <1>2, <1>4 DEF IsCode, Trivia
  <1>6. Space \notin K /\ Space \notin H
    BY <1>3, <1>4, PrintedPieces
  <1>. HIDE DEF first, n, C, seqs, token, K, H
  <1>7. \A k \in 1..n : seqs[k] = IF k = 1 THEN << token(k) >> ELSE << Space >> \o << token(k) >>
    <2>1. TAKE k \in 1..n
    <2>2. << >> \o << token(k) >> = << token(k) >>
      OBVIOUS
    <2>3. QED
      BY <1>1, <2>2 DEF seqs
  <1>8. seqs \in [1..n -> Seq(V)]
    <2>1. ASSUME NEW c \in V PROVE << c >> \in Seq(V) /\ << Space >> \o << c >> \in Seq(V)
      BY <1>3
    <2>2. \A k \in 1..n : seqs[k] \in Seq(V)
      BY <1>2, <1>7, <2>1
    <2>3. QED
      BY <2>2 DEF seqs
  <1>9. PICK F : Accumulates(F, n, V, seqs) /\ FlattenSeq(seqs) = F[n]
    BY <1>0, <1>8, Flattening
  <1>10. /\ F \in [0..n -> Seq(V)] /\ F[0] = << >>
         /\ \A k \in 1..n : F[k] = F[k - 1] \o seqs[k]
    BY <1>9 DEF Accumulates
  <1> DEFINE T == {k \in 0..n :
                     /\ Of(F[k], K) = [j \in 1..k |-> token(j)]
                     /\ Of(F[k], H) = << >>
                     /\ WordsApart(F[k])
                     /\ k # 0 => F[k] # << >> /\ F[k][1] = token(1)}
  <1>11. 0 \in T
    <2>1. WordsApart(<< >>) /\ Of(<< >>, K) = << >> /\ Of(<< >>, H) = << >>
      BY OfNothing DEF WordsApart
    <2>2. [j \in 1..0 |-> token(j)] = << >>
      OBVIOUS
    <2>3. QED
      BY <1>0, <1>10, <2>1, <2>2
  <1>12. ASSUME NEW k \in 1..n, k - 1 \in T PROVE k \in T
    <2> DEFINE a == F[k - 1]
               b == seqs[k]
               c == token(k)
    <2>0. k - 1 \in 0..n /\ k \in 0..n /\ k \in Nat
      BY <1>0
    <2>1. /\ a \in Seq(V) /\ b \in Seq(V) /\ c \in V /\ F[k] = a \o b
          /\ c \in K /\ c \notin H
      BY <1>2, <1>5, <1>8, <1>10, <2>0
    <2>2. /\ Of(a, K) = [j \in 1..(k - 1) |-> token(j)]
          /\ Of(a, H) = << >> /\ WordsApart(a)
          /\ k # 1 => a # << >> /\ a[1] = token(1)
      BY <1>12, <2>0
    <2>3. k = 1 => b = << c >> /\ a = << >>
      <3>1. SUFFICES ASSUME k = 1 PROVE b = << c >> /\ a = << >>
        OBVIOUS
      <3>2. k - 1 = 0
        BY <3>1
      <3>3. a = << >>
        BY <1>10, <3>2
      <3>4. b = << c >>
        BY <1>7, <3>1
      <3>5. QED
        BY <3>3, <3>4
    <2>4. k # 1 => b = << Space >> \o << c >>
      BY <1>7
    <2>. HIDE DEF a, b, c
    <2>5. Of(<< c >>, K) = << c >> /\ Of(<< c >>, H) = << >>
      BY <2>1, OfOne
    <2>6. Of(<< Space >>, K) = << >> /\ Of(<< Space >>, H) = << >>
      BY <1>3, <1>6, OfOne
    <2>7. Of(b, K) = << c >> /\ Of(b, H) = << >>
      <3>1. CASE k = 1
        BY <2>3, <2>5, <3>1
      <3>2. CASE k # 1
        <4> DEFINE x == << Space >>
                   y == << c >>
        <4>1. x \in Seq(V) /\ y \in Seq(V) /\ b = x \o y
          BY <1>3, <2>1, <2>4, <3>2
        <4>. HIDE DEF x, y
        <4>2. Of(x \o y, K) = Of(x, K) \o Of(y, K)
          BY <4>1, OfTwo
        <4>3. Of(x \o y, H) = Of(x, H) \o Of(y, H)
          BY <4>1, OfTwo
        <4>4. Of(b, K) = << >> \o << c >> /\ Of(b, H) = << >> \o << >>
          BY <2>5, <2>6, <4>1, <4>2, <4>3 DEF x, y
        <4>5. QED
          BY <4>4
      <3>3. QED
        BY <3>1, <3>2
    <2>8. Of(F[k], K) = [j \in 1..k |-> token(j)]
      <3>1. Of(a \o b, K) = Of(a, K) \o Of(b, K)
        BY <2>1, OfTwo
      <3>2. [j \in 1..(k - 1) |-> token(j)] \o << c >> = [j \in 1..k |-> token(j)]
        BY <2>0 DEF c
      <3>3. QED
        BY <2>1, <2>2, <2>7, <3>1, <3>2
    <2>9. Of(F[k], H) = << >>
      <3>1. Of(a \o b, H) = Of(a, H) \o Of(b, H)
        BY <2>1, OfTwo
      <3>2. QED
        BY <2>1, <2>2, <2>7, <3>1
    <2>10. WordsApart(b) /\ b # << >> /\ (k = 1 => b[1] = c) /\ (k # 1 => b[1] = Space)
      <3>1. CASE k = 1
        <4>1. b = << c >> /\ Len(<< c >>) = 1 /\ << c >>[1] = c
          BY <2>3, <3>1
        <4>2. \A i \in 1..1 : ~(i > 1)
          OBVIOUS
        <4>3. WordsApart(b)
          BY <4>1, <4>2 DEF WordsApart
        <4>4. QED
          BY <3>1, <4>1, <4>3
      <3>2. CASE k # 1
        <4>1. b = << Space, c >>
          BY <2>4, <3>2
        <4>2. Len(b) = 2 /\ b[1] = Space /\ b[2] = c
          BY <4>1
        <4>3. \A i \in 1..2 : i > 1 => i = 2 /\ i - 1 = 1
          OBVIOUS
        <4>4. WordsApart(b)
          BY <4>2, <4>3, PrintedPieces DEF WordsApart
        <4>5. QED
          BY <3>2, <4>1, <4>4
      <3>3. QED
        BY <3>1, <3>2
    <2>11. WordsApart(a \o b)
      <3> DEFINE x == a[Len(a)]
                 y == b[1]
      <3>1. ~(a # << >> /\ IsWord(y))
        BY <2>3, <2>10, PrintedPieces
      <3>2. x = a[Len(a)] /\ y = b[1]
        OBVIOUS
      <3>. HIDE DEF x, y
      <3>3. QED
        BY <2>1, <2>2, <2>10, <3>1, <3>2, ConcatApart
    <2>12. F[k] # << >> /\ F[k][1] = token(1)
      <3>1. CASE k = 1
        <4>1. F[k] = << c >>
          BY <2>1, <2>3, <3>1
        <4>2. QED
          BY <3>1, <4>1 DEF c
      <3>2. CASE k # 1
        <4>1. a # << >> /\ a[1] = token(1)
          BY <2>2, <3>2
        <4>2. a \o b # << >> /\ (a \o b)[1] = a[1]
          BY <2>1, <4>1
        <4>3. QED
          BY <2>1, <4>1, <4>2
      <3>3. QED
        BY <3>1, <3>2
    <2>13. WordsApart(F[k])
      BY <2>1, <2>11
    <2>14. QED
      BY <2>0, <2>8, <2>9, <2>12, <2>13
  <1>13. \A k \in 1..n : k - 1 \in T => k \in T
    BY <1>12
  <1>14. n \in T
    <2>1. \A k \in 0..n : k \in T
      <3>. HIDE DEF T
      <3> QED
        BY <1>0, <1>11, <1>13, UpTo
    <2>2. n \in 0..n
      BY <1>0
    <2>3. QED
      BY <2>1, <2>2
  <1>15. n # 0 /\ n \in 0..n
    BY <1>0
  <1>16. W = F[n] /\ W \in Seq(V)
    BY <1>3, <1>9, <1>10, <1>15
  <1>17. token(1) = C[first]
    <2>1. first + 1 - 1 = first
      BY <1>0
    <2>2. QED
      BY <2>1 DEF token
  <1>18. /\ Of(W, K) = [j \in 1..n |-> token(j)] /\ Of(W, H) = << >> /\ WordsApart(W)
         /\ W # << >> /\ W[1] = C[first]
    BY <1>14, <1>15, <1>16, <1>17
  <1>19. QED
    BY <1>16, <1>18 DEF n, token, K, H, C, first, Between

------------------------------------------------------------------------------
(* Where statements are.                                                   *)
LEMMA SpanOrder ==
  ASSUME NEW P, PiecesOK(P), NEW a \in 1..Len(P), NEW b \in 1..Len(P),
         NEW c \in 1..Len(P), NEW d \in 1..Len(P)
  PROVE  /\ rangesOverlap(Span(P, a, b), Span(P, c, d)) <=> a <= d /\ c <= b
         /\ rangeContains(Span(P, a, b), Span(P, c, d)) <=> a <= c /\ d <= b
         /\ Span(P, a, b) = Span(P, c, d) => a = c /\ b = d
         /\ Span(P, a, b).start \in Places /\ Span(P, a, b).end \in Places
  <1> DEFINE M == Len(P)
             Q(i) == Place(P, i)
  <1>1. M \in Nat /\ \A i \in 1..M : i \in 0..M /\ i - 1 \in 0..M
    BY PiecesAre
  <1>2. \A i \in 0..M : Q(i) \in Places
    BY PlaceOrder
  <1>3. \A i, j \in 0..M : Before(Q(i), Q(j)) <=> i < j
    BY PlaceOrder
  <1>4. \A i, j \in 0..M : NotAfter(Q(i), Q(j)) <=> i <= j
    BY PlaceOrder
  <1>5. /\ Span(P, a, b).start = Q(a - 1) /\ Span(P, a, b).end = Q(b)
        /\ Span(P, c, d).start = Q(c - 1) /\ Span(P, c, d).end = Q(d)
    BY DEF Span
  <1>. HIDE DEF M, Q
  <1>6. a \in 1..M /\ b \in 1..M /\ c \in 1..M /\ d \in 1..M
    BY DEF M
  <1>7. a - 1 \in 0..M /\ c - 1 \in 0..M /\ b \in 0..M /\ d \in 0..M
    BY <1>1, <1>6
  <1>8. /\ Before(Q(a - 1), Q(d)) <=> a - 1 < d
        /\ Before(Q(c - 1), Q(b)) <=> c - 1 < b
        /\ NotAfter(Q(a - 1), Q(c - 1)) <=> a - 1 <= c - 1
        /\ NotAfter(Q(d), Q(b)) <=> d <= b
    BY <1>3, <1>4, <1>7
  <1>9. rangesOverlap(Span(P, a, b), Span(P, c, d)) <=> a <= d /\ c <= b
    <2>1. rangesOverlap(Span(P, a, b), Span(P, c, d)) <=> a - 1 < d /\ c - 1 < b
      BY <1>5, <1>8 DEF rangesOverlap
    <2>2. (a - 1 < d <=> a <= d) /\ (c - 1 < b <=> c <= b)
      BY <1>1, <1>6
    <2>3. QED
      BY <2>1, <2>2
  <1>10. rangeContains(Span(P, a, b), Span(P, c, d)) <=> a <= c /\ d <= b
    <2>1. rangeContains(Span(P, a, b), Span(P, c, d)) <=> a - 1 <= c - 1 /\ d <= b
      BY <1>5, <1>8 DEF rangeContains
    <2>2. a - 1 <= c - 1 <=> a <= c
      BY <1>1, <1>6
    <2>3. QED
      BY <2>1, <2>2
  <1>11. ASSUME Span(P, a, b) = Span(P, c, d) PROVE a = c /\ b = d
    <2>1. Q(a - 1) = Q(c - 1) /\ Q(b) = Q(d)
      BY <1>5, <1>11
    <2>2. \A i \in 0..M : ~Before(Q(i), Q(i))
      BY <1>1, <1>3
    <2>3. /\ Before(Q(a - 1), Q(c - 1)) <=> a - 1 < c - 1
          /\ Before(Q(c - 1), Q(a - 1)) <=> c - 1 < a - 1
          /\ Before(Q(b), Q(d)) <=> b < d
          /\ Before(Q(d), Q(b)) <=> d < b
      BY <1>3, <1>7
    <2>4. ~(a - 1 < c - 1) /\ ~(c - 1 < a - 1) /\ ~(b < d) /\ ~(d < b)
      BY <1>7, <2>1, <2>2, <2>3
    <2>5. QED
      BY <1>1, <1>6, <2>4
  <1>12. QED
    BY <1>2, <1>5, <1>7, <1>9, <1>10, <1>11

LEMMA StatementsAre ==
  ASSUME NEW code, Len(code) \in Nat, NEW stmts, StatementsOK(stmts, code), NEW n, n = Len(stmts)
  PROVE  /\ n \in Nat /\ DOMAIN stmts = 1..n
         /\ \A i \in 1..n : /\ stmts[i].first \in 1..Len(code) /\ stmts[i].last \in 1..Len(code)
                            /\ stmts[i].first <= stmts[i].last
                            /\ stmts[i].last < Len(code) => code[stmts[i].last + 1] = Semicolon
         /\ \A i, j \in 1..n : i < j => stmts[i].last + 1 < stmts[j].first
  <1> DEFINE L == Len(code)
             f(i) == stmts[i].first
             l(i) == stmts[i].last
  <1>1. n \in Nat /\ DOMAIN stmts = 1..n
    <2>1. stmts \in Seq(ToSet(stmts))
      BY DEF StatementsOK
    <2>2. QED
      BY <2>1
  <1>2. \A i \in 1..n : /\ l(i) \in 1..L /\ f(i) \in 1..l(i)
                        /\ f(i) = IF i = 1 THEN 1 ELSE l(i - 1) + 2
                        /\ l(i) < L => code[l(i) + 1] = Semicolon
    BY <1>1 DEF StatementsOK
  <1>0. L \in Nat
    OBVIOUS
  <1>. HIDE DEF L, f, l
  <1>3. \A i \in 1..n : f(i) \in 1..L /\ l(i) \in 1..L /\ f(i) <= l(i)
    <2>1. TAKE i \in 1..n
    <2>2. l(i) \in 1..L /\ f(i) \in 1..l(i)
      BY <1>2
    <2>3. QED
      BY <1>0, <2>2
  <1> DEFINE T == {j \in 0..n : \A i \in 1..n : i < j => l(i) + 1 < f(j)}
  <1>4. 0 \in T
    BY <1>1
  <1>5. ASSUME NEW j \in 1..n, j - 1 \in T PROVE j \in T
    <2>1. ASSUME NEW i \in 1..n, i < j PROVE l(i) + 1 < f(j)
      <3>1. j # 1 /\ j - 1 \in 1..n
        BY <1>1, <2>1
      <3>2. f(j) = l(j - 1) + 2
        BY <1>2, <3>1
      <3>3. /\ l(j - 1) \in Nat /\ f(j - 1) <= l(j - 1) /\ f(j - 1) \in Nat /\ l(i) \in Nat
            /\ f(j) \in Nat
        <4>1. \A k \in 1..n : f(k) \in Nat /\ l(k) \in Nat /\ f(k) <= l(k)
          <5>1. \A m \in 1..L : m \in Nat
            OBVIOUS
          <5>2. QED
            BY <1>3, <5>1
        <4>2. QED
          BY <3>1, <4>1
      <3>4. CASE i = j - 1
        BY <3>2, <3>3, <3>4
      <3>5. CASE i # j - 1
        <4>1. i < j - 1
          BY <1>1, <2>1, <3>5
        <4>2. l(i) + 1 < f(j - 1)
          BY <1>5, <4>1
        <4> DEFINE a == l(i)
                   b == f(j - 1)
                   c == l(j - 1)
                   d == f(j)
        <4>3. a \in Nat /\ b \in Nat /\ c \in Nat /\ a + 1 < b /\ b <= c /\ d = c + 2
          BY <3>2, <3>3, <4>2
        <4>. HIDE DEF a, b, c, d
        <4>4. a + 1 < d
          BY <4>3
        <4>5. QED
          BY <4>4 DEF a, d
      <3>6. QED
        BY <3>4, <3>5
    <2>2. j \in 0..n
      BY <1>1
    <2>3. QED
      BY <2>1, <2>2
  <1>6. \A j \in 1..n : j - 1 \in T => j \in T
    BY <1>5
  <1>7. \A j \in 0..n : j \in T
    <2>. HIDE DEF T
    <2> QED
      BY <1>1, <1>4, <1>6, UpTo
  <1>8. \A i, j \in 1..n : i < j => l(i) + 1 < f(j)
    BY <1>1, <1>7
  <1>9. QED
    BY <1>1, <1>2, <1>3, <1>8 DEF f, l, L

LEMMA NodeRange ==
  ASSUME NEW P, PiecesOK(P), NEW syntax, NEW t, t = newLexer(syntax, P),
         NEW node, node.first \in 1..Len(Code(P)), node.last \in 1..Len(Code(P))
  PROVE  /\ rangeByNode(t, node) = Span(P, CodeAt(P)[node.first], CodeAt(P)[node.last])
         /\ CodeAt(P)[node.first] \in 1..Len(P) /\ CodeAt(P)[node.last] \in 1..Len(P)
  <1> DEFINE A == CodeAt(P)
  <1>1. t.tokens = [k \in 1..Len(A) |-> Placed(P, A[k])]
    BY LexerIs DEF TokensOf
  <1>2. Len(Code(P)) = Len(A)
    BY CodeIs
  <1>3. A[node.first] \in 1..Len(P) /\ A[node.last] \in 1..Len(P)
    BY CodePieces
  <1>. HIDE DEF A
  <1>4. t.tokens[node.first] = Placed(P, A[node.first]) /\ t.tokens[node.last] = Placed(P, A[node.last])
    BY <1>1, <1>2
  <1>5. QED
    BY <1>3, <1>4 DEF rangeByNode, Placed, Span, A

(* The tokens are at their places, in order.                               *)
LEMMA CodeAtGrows ==
  ASSUME NEW P, PiecesOK(P), NEW A, A = CodeAt(P)
  PROVE  /\ Len(A) \in Nat
         /\ \A k \in 1..Len(A) : A[k] \in 1..Len(P)
         /\ \A j, k \in 1..Len(A) : (A[j] < A[k] <=> j < k) /\ (A[j] <= A[k] <=> j <= k)
         /\ \A i \in 1..Len(P) : IsCode(P[i]) => \E k \in 1..Len(A) : A[k] = i
  <1>1. Lists(A, Len(P), CodePlaces(P))
    BY CodeIs
  <1>2. Len(P) \in Nat /\ DOMAIN P = 1..Len(P)
    BY PiecesAre
  <1>3. /\ Len(A) \in Nat /\ \A k \in 1..Len(A) : A[k] \in 1..Len(P)
        /\ \A j, k \in 1..Len(A) : j < k => A[j] < A[k]
        /\ \A i \in 1..Len(P) : i \in CodePlaces(P) => \E k \in 1..Len(A) : A[k] = i
    BY <1>1 DEF Lists
  <1>4. \A j, k \in 1..Len(A) : (A[j] < A[k] <=> j < k) /\ (A[j] <= A[k] <=> j <= k)
    <2>1. TAKE j, k \in 1..Len(A)
    <2>2. A[j] \in Nat /\ A[k] \in Nat /\ (j < k => A[j] < A[k]) /\ (k < j => A[k] < A[j])
      BY <1>2, <1>3
    <2>3. j < k \/ j = k \/ k < j
      BY <1>3
    <2>4. QED
      BY <1>3, <2>2, <2>3
  <1>5. \A i \in 1..Len(P) : IsCode(P[i]) => i \in CodePlaces(P)
    BY <1>2 DEF CodePlaces
  <1>6. QED
    BY <1>3, <1>4, <1>5

------------------------------------------------------------------------------
(* Edits of whole statements.                                              *)
IsStatementEdit(t, stmts, e) ==
  \E i \in DOMAIN stmts :
    /\ e.range = rangeByNode(t, stmts[i]) /\ e.new = formatStatement(t, stmts[i])
    /\ \A c \in ToSet(t.comments) : ~rangesOverlap(e.range, c.range)

IsStatementSpan(P, t, stmt, s) ==
  /\ s = [first |-> CodeAt(P)[stmt.first], last |-> CodeAt(P)[stmt.last],
          new |-> formatStatement(t, stmt)]
  /\ \A j \in (s.first)..(s.last) : j \notin CommentPlaces(P)

(* They replace the pieces of a statement, and no comment.                 *)
LEMMA EditOfStatement ==
  ASSUME NEW P, PiecesOK(P), NEW syntax, NEW t, t = newLexer(syntax, P),
         NEW stmts, StatementsOK(stmts, Code(P)), NEW e, IsStatementEdit(t, stmts, e)
  PROVE  \E i \in 1..Len(stmts) : IsStatementSpan(P, t, stmts[i], SpanOf(P, e))
  <1> DEFINE A == CodeAt(P)
             C == CommentsAt(P)
             M == Len(P)
  <1>1. PICK i \in DOMAIN stmts :
          /\ e.range = rangeByNode(t, stmts[i]) /\ e.new = formatStatement(t, stmts[i])
          /\ \A c \in ToSet(t.comments) : ~rangesOverlap(e.range, c.range)
    BY DEF IsStatementEdit
  <1>2. Len(Code(P)) \in Nat /\ Len(Code(P)) = Len(A)
    BY CodeIs
  <1>3. /\ DOMAIN stmts = 1..Len(stmts)
        /\ stmts[i].first \in 1..Len(Code(P)) /\ stmts[i].last \in 1..Len(Code(P))
        /\ stmts[i].first <= stmts[i].last
    BY <1>1, <1>2, StatementsAre
  <1> DEFINE stmt == stmts[i]
             a == A[stmt.first]
             b == A[stmt.last]
  <1>4. rangeByNode(t, stmt) = Span(P, a, b) /\ a \in 1..M /\ b \in 1..M
    BY <1>3, NodeRange
  <1>5. a <= b /\ M \in Nat
    BY <1>2, <1>3, CodeAtGrows, PiecesAre
  <1>6. b \in a..M
    BY <1>4, <1>5
  <1>7. SpanOf(P, e) = [first |-> a, last |-> b, new |-> formatStatement(t, stmt)]
    <2>. HIDE DEF a, b
    <2>1. FirstOf(P, Span(P, a, b).start) = a /\ LastOf(P, Span(P, a, b).end) = b
      BY <1>4, <1>6, SpanFrom
    <2>2. QED
      BY <1>1, <1>4, <2>1 DEF SpanOf
  <1>8. ASSUME NEW j \in a..b, j \in CommentPlaces(P) PROVE FALSE
    <2>1. j \in 1..M
      BY <1>4, <1>5, <1>8
    <2>2. Lists(C, M, CommentPlaces(P))
      BY CodeIs
    <2>3. PICK k \in 1..Len(C) : C[k] = j
      BY <1>8, <2>1, <2>2 DEF Lists
    <2>4. t.comments = [m \in 1..Len(C) |-> Placed(P, C[m])]
      BY LexerIs DEF CommentsOf
    <2>. HIDE DEF a, b, M, C
    <2>5. DOMAIN t.comments = 1..Len(C) /\ t.comments[k] = Placed(P, j)
      BY <2>3, <2>4
    <2>6. t.comments[k] \in ToSet(t.comments)
      BY <2>5 DEF ToSet
    <2>7. ~rangesOverlap(Span(P, a, b), Placed(P, j).range)
      BY <1>1, <1>4, <2>5, <2>6
    <2>8. Placed(P, j).range = Span(P, j, j)
      BY DEF Placed
    <2>9. a \in 1..M /\ b \in 1..M /\ j \in 1..M /\ a <= j /\ j <= b
      BY <1>4, <1>8, <2>1
    <2>10. rangesOverlap(Span(P, a, b), Span(P, j, j))
      BY <2>9, SpanOrder DEF M
    <2>11. QED
      BY <2>7, <2>8, <2>10
  <1>9. IsStatementSpan(P, t, stmt, SpanOf(P, e))
    <2> DEFINE s == SpanOf(P, e)
    <2>1. s.first = a /\ s.last = b
      BY <1>7
    <2>2. \A j \in (s.first)..(s.last) : j \notin CommentPlaces(P)
      BY <1>8, <2>1
    <2>3. QED
      BY <1>7, <2>2 DEF IsStatementSpan
  <1>10. QED
    BY <1>3, <1>9

KeepsOf(P, s, K) == Of(Begin(P, s.first - 1), K) \o Of(s.new, K) = Of(Begin(P, s.last), K)

LEMMA StatementSpan ==
  ASSUME NEW P, PiecesOK(P), NEW syntax, NEW t, t = newLexer(syntax, P),
         NEW stmts, StatementsOK(stmts, Code(P)), NEW i \in 1..Len(stmts),
         NEW s, IsStatementSpan(P, t, stmts[i], s), NEW V, V = PieceSet(P)
  PROVE  /\ s.first \in 1..Len(P) /\ s.last \in (s.first)..Len(P) /\ s.new \in Seq(V)
         /\ KeepsOf(P, s, CodeSet(V)) /\ KeepsOf(P, s, CommentSet(V))
         /\ s.new # << >> /\ s.new[1] = P[s.first] /\ WordsApart(s.new)
         /\ s.last < Len(P) => ~IsWord(P[s.last + 1])
  <1> DEFINE A == CodeAt(P)
             M == Len(P)
             C == Code(P)
             x == stmts[i].first
             y == stmts[i].last
             a == A[x]
             b == A[y]
             W == formatStatement(t, stmts[i])
             K == CodeSet(V)
             H == CommentSet(V)
  <1>1. /\ Len(C) \in Nat /\ Len(C) = Len(A) /\ C = [k \in 1..Len(A) |-> P[A[k]]]
    BY CodeIs
  <1>2. /\ x \in 1..Len(C) /\ y \in 1..Len(C) /\ x <= y
        /\ y < Len(C) => C[y + 1] = Semicolon
    BY <1>1, StatementsAre
  <1>3. M \in Nat /\ DOMAIN P = 1..M /\ P \in Seq(V)
    <2>1. P \in Seq(ToSet(P)) /\ M \in Nat /\ DOMAIN P = 1..M
      BY PiecesAre
    <2>2. ToSet(P) \subseteq V
      BY DEF PieceSet
    <2>3. QED
      BY <2>1, <2>2
  <1>4. /\ \A k \in 1..Len(A) : A[k] \in 1..M
        /\ \A j, k \in 1..Len(A) : (A[j] < A[k] <=> j < k) /\ (A[j] <= A[k] <=> j <= k)
        /\ \A j \in 1..M : IsCode(P[j]) => \E k \in 1..Len(A) : A[k] = j
    BY CodeAtGrows
  <1>5. s.first = a /\ s.last = b /\ s.new = W /\ \A j \in a..b : j \notin CommentPlaces(P)
    BY DEF IsStatementSpan
  <1>6. y \in 1..Len(C) /\ x \in 1..y
    BY <1>1, <1>2
  <1>7. /\ W \in Seq(V) /\ W # << >> /\ W[1] = C[x] /\ WordsApart(W)
        /\ Of(W, K) = [k \in 1..(y - x + 1) |-> C[x + k - 1]]
        /\ Of(W, H) = << >>
    <2> DEFINE stmt == stmts[i]
    <2>1. stmt.last \in 1..Len(Code(P)) /\ stmt.first \in 1..(stmt.last)
      BY <1>6
    <2>2. W = formatStatement(t, stmt)
      OBVIOUS
    <2>3. Of(W, CodeSet(V)) = Between(P, stmt.first, stmt.last)
      <3>. HIDE DEF stmt, W
      <3> QED
        BY <2>1, <2>2, FormattedStatement
    <2>4. W \in Seq(V) /\ W # << >> /\ W[1] = Code(P)[stmt.first] /\ WordsApart(W)
          /\ Of(W, CommentSet(V)) = << >>
      <3>. HIDE DEF stmt, W
      <3> QED
        BY <2>1, <2>2, FormattedStatement
    <2>. HIDE DEF W
    <2>5. QED
      BY <2>3, <2>4 DEF Between
  <1>8. /\ C = Of(P, K) /\ CodePlaces(P) = PlacesOf(P, K)
        /\ CommentPlaces(P) = PlacesOf(P, H)
    BY <1>3, CodeOf
  <1>9. A = At(M, CodePlaces(P))
    BY DEF CodeAt
  <1>. HIDE DEF A, M, C, W, K, H, x, y
  <1>10. a \in 1..M /\ b \in a..M
    <2>1. a \in 1..M /\ b \in 1..M /\ a <= b
      BY <1>1, <1>2, <1>4
    <2>2. QED
      BY <1>3, <2>1
  <1>11. Of(Begin(P, a - 1), K) \o Of(W, K) = Of(Begin(P, b), K)
    <2>1. Count(a - 1, CodePlaces(P)) = x - 1 /\ Count(b, CodePlaces(P)) = y
      <3>1. x \in 1..Len(A) /\ y \in 1..Len(A)
        BY <1>1, <1>2
      <3>2. QED
        BY <1>3, <1>9, <3>1, CountIs
    <2> DEFINE m == a - 1
               places == CodePlaces(P)
    <2>2. m \in 0..M /\ b \in 0..M
      <3>. HIDE DEF a, b
      <3> QED
        BY <1>3, <1>10
    <2>. HIDE DEF places, m, a, b
    <2>6. m \in 0..Len(P) /\ b \in 0..Len(P) /\ places = PlacesOf(P, K)
      BY <1>8, <2>2 DEF places, M
    <2>7. Of(Begin(P, m), K) = [k \in 1..Count(m, places) |-> Of(P, K)[k]]
      BY <1>3, <2>6, OfBegin
    <2>8. Of(Begin(P, b), K) = [k \in 1..Count(b, places) |-> Of(P, K)[k]]
      BY <1>3, <2>6, OfBegin
    <2>9. Count(m, places) = x - 1 /\ Count(b, places) = y
      BY <2>1 DEF m, places
    <2>3. Of(Begin(P, m), K) = [k \in 1..(x - 1) |-> C[k]]
      BY <1>8, <2>7, <2>9
    <2>4. Of(Begin(P, b), K) = [k \in 1..y |-> C[k]]
      BY <1>8, <2>8, <2>9
    <2>5. [k \in 1..(x - 1) |-> C[k]] \o [k \in 1..(y - x + 1) |-> C[x + k - 1]]
            = [k \in 1..y |-> C[k]]
      BY <1>1, <1>6
    <2>10. QED
      BY <1>7, <2>3, <2>4, <2>5 DEF m
  <1>12. Of(Begin(P, a - 1), H) \o Of(W, H) = Of(Begin(P, b), H)
    <2>1. a - 1 \in Nat /\ b \in Nat /\ a - 1 <= b /\ a - 1 \in 0..M /\ b \in 0..M
          /\ (a - 1) + 1 = a
      <3>. HIDE DEF a, b
      <3> QED
        BY <1>3, <1>10
    <2> DEFINE m == a - 1
               places == CommentPlaces(P)
    <2>2. \A j \in (m + 1)..b : j \notin places
      BY <1>5, <2>1
    <2>. HIDE DEF places, m, a, b
    <2>3. m \in Nat /\ b \in Nat /\ m <= b
      BY <2>1 DEF m
    <2>4. At(m, places) = At(b, places)
      BY <2>2, <2>3, CountSame
    <2>5. Count(m, places) = Count(b, places)
      BY <2>4 DEF Count
    <2>6. m \in 0..Len(P) /\ b \in 0..Len(P) /\ places = PlacesOf(P, H)
      BY <1>8, <2>1 DEF m, places, M
    <2>7. Of(Begin(P, m), H) = [k \in 1..Count(m, places) |-> Of(P, H)[k]]
      BY <1>3, <2>6, OfBegin
    <2>8. Of(Begin(P, b), H) = [k \in 1..Count(b, places) |-> Of(P, H)[k]]
      BY <1>3, <2>6, OfBegin
    <2>9. Begin(P, m) \in Seq(V)
      BY <1>3, <2>6 DEF Begin
    <2>10. Of(Begin(P, m), H) \in Seq(V)
      BY <2>9, OfIs
    <2>11. Of(Begin(P, m), H) \o << >> = Of(Begin(P, m), H)
      BY <2>10
    <2>12. QED
      BY <1>7, <2>5, <2>7, <2>8, <2>11 DEF m
  <1>13. W[1] = P[a]
    BY <1>1, <1>2, <1>7
  <1>14. ASSUME b < M PROVE ~IsWord(P[b + 1])
    <2>1. b + 1 \in 1..M
      BY <1>3, <1>10, <1>14
    <2>2. CASE IsCode(P[b + 1])
      <3>1. PICK k \in 1..Len(A) : A[k] = b + 1
        BY <1>4, <2>1, <2>2
      <3>2. y \in 1..Len(A) /\ y + 1 \in Nat
        BY <1>1, <1>2
      <3>3. y < k
        <4>1. b < b + 1
          BY <1>3, <1>10
        <4>2. QED
          BY <1>4, <3>1, <3>2, <4>1
      <3>4. y + 1 \in 1..Len(A) /\ y < y + 1 /\ y + 1 <= k
        BY <1>1, <3>2, <3>3
      <3>5. A[y] < A[y + 1] /\ A[y + 1] <= A[k] /\ A[y + 1] \in 1..M
        BY <1>4, <3>1, <3>2, <3>4
      <3>6. A[y + 1] = b + 1
        <4> DEFINE c == A[y + 1]
        <4>3. a \in Nat /\ b \in Nat
          <5>. HIDE DEF a, b
          <5> QED
            BY <1>3, <1>10
        <4>4. c \in Nat
          BY <1>3, <3>5
        <4>5. b < c /\ c <= b + 1
          BY <3>1, <3>5
        <4>1. b \in Nat /\ c \in Nat /\ b < c /\ c <= b + 1
          BY <4>3, <4>4, <4>5
        <4>. HIDE DEF b, c
        <4>2. c = b + 1
          BY <4>1
        <4>6. QED
          BY <4>2 DEF c
      <3>7. y < Len(C)
        BY <1>1, <3>2, <3>4
      <3>8. C[y + 1] = P[b + 1]
        BY <1>1, <3>4, <3>6
      <3>9. P[b + 1] = Semicolon
        BY <1>2, <3>7, <3>8
      <3>10. QED
        BY <3>9, PrintedPieces
    <2>3. CASE ~IsCode(P[b + 1])
      BY <2>3 DEF IsCode, Trivia, IsWord
    <2>4. QED
      BY <2>2, <2>3
  <1>. HIDE DEF a, b
  <1>15. s.new \in Seq(V) /\ s.new # << >> /\ WordsApart(s.new) /\ s.new[1] = P[s.first]
    BY <1>5, <1>7, <1>13
  <1>16. s.first \in 1..M /\ s.last \in (s.first)..M
    BY <1>5, <1>10
  <1>17. s.last < M => ~IsWord(P[s.last + 1])
    BY <1>5, <1>14
  <1>18. /\ Of(Begin(P, s.first - 1), K) \o Of(s.new, K) = Of(Begin(P, s.last), K)
         /\ Of(Begin(P, s.first - 1), H) \o Of(s.new, H) = Of(Begin(P, s.last), H)
    BY <1>5, <1>11, <1>12
  <1>19. QED
    BY <1>15, <1>16, <1>17, <1>18 DEF M, K, H, KeepsOf

LEMMA SpansOrdered ==
  ASSUME NEW P, PiecesOK(P), NEW t, NEW stmts, StatementsOK(stmts, Code(P)),
         NEW i \in 1..Len(stmts), NEW j \in 1..Len(stmts), i < j,
         NEW s, IsStatementSpan(P, t, stmts[i], s), NEW u, IsStatementSpan(P, t, stmts[j], u)
  PROVE  s.last + 1 < u.first /\ s.last \in Nat /\ u.first \in Nat
  <1> DEFINE A == CodeAt(P)
             y == stmts[i].last
             x == stmts[j].first
  <1>1. Len(Code(P)) \in Nat /\ Len(Code(P)) = Len(A)
    BY CodeIs
  <1>2. x \in 1..Len(A) /\ y \in 1..Len(A) /\ y + 1 < x
    BY <1>1, StatementsAre
  <1>3. /\ Len(A) \in Nat
        /\ \A k \in 1..Len(A) : A[k] \in Nat
        /\ \A l, k \in 1..Len(A) : A[l] < A[k] <=> l < k
    <2>1. /\ Len(A) \in Nat
          /\ \A k \in 1..Len(A) : A[k] \in 1..Len(P)
          /\ \A l, k \in 1..Len(A) : (A[l] < A[k] <=> l < k) /\ (A[l] <= A[k] <=> l <= k)
      BY CodeAtGrows
    <2>2. QED
      BY <2>1
  <1>4. s.last = A[y] /\ u.first = A[x]
    BY DEF IsStatementSpan
  <1>. HIDE DEF A, x, y
  <1>5. y + 1 \in 1..Len(A) /\ y < y + 1
    BY <1>2, <1>3
  <1>6. A[y] < A[y + 1] /\ A[y + 1] < A[x]
    BY <1>2, <1>3, <1>5
  <1>7. A[y] \in Nat /\ A[y + 1] \in Nat /\ A[x] \in Nat
    BY <1>2, <1>3, <1>5
  <1>8. QED
    BY <1>4, <1>6, <1>7

(* Edits of statements replace separate parts of a text, each with the same *)
(* tokens.                                                                 *)
LEMMA StatementSpans ==
  ASSUME NEW P, PiecesOK(P), NEW syntax, NEW t, t = newLexer(syntax, P),
         NEW stmts, StatementsOK(stmts, Code(P)),
         NEW edits, \A e \in ToSet(edits) : IsStatementEdit(t, stmts, e),
         NEW V, V = PieceSet(P), NEW S, S = SpansOf(P, edits)
  PROVE  /\ AreSpans(S, Len(P), V) /\ SpansApart(P, S)
         /\ SpansKeep(P, S, CodeSet(V)) /\ SpansKeep(P, S, CommentSet(V))
  <1> DEFINE N == Len(stmts)
             M == Len(P)
             Is(i, s) == IsStatementSpan(P, t, stmts[i], s)
  <1>1. ASSUME NEW s \in S PROVE \E i \in 1..N : Is(i, s)
    <2>1. PICK e \in ToSet(edits) : s = SpanOf(P, e)
      BY <1>1 DEF SpansOf
    <2>2. IsStatementEdit(t, stmts, e)
      BY <2>1
    <2>3. QED
      BY <2>1, <2>2, EditOfStatement
  <1>2. N \in Nat /\ M \in Nat
    <2>1. Len(Code(P)) \in Nat
      BY CodeIs
    <2>2. QED
      BY <2>1, StatementsAre, PiecesAre
  <1>3. ASSUME NEW i \in 1..N, NEW s, Is(i, s)
        PROVE  /\ s.first \in 1..M /\ s.last \in (s.first)..M /\ s.new \in Seq(V)
               /\ s.new # << >> /\ s.new[1] = P[s.first] /\ WordsApart(s.new)
               /\ s.last < M => ~IsWord(P[s.last + 1])
    BY <1>3, StatementSpan
  <1>4. ASSUME NEW i \in 1..N, NEW s, Is(i, s)
        PROVE  KeepsOf(P, s, CodeSet(V))
    BY <1>4, StatementSpan
  <1>5. ASSUME NEW i \in 1..N, NEW s, Is(i, s)
        PROVE  KeepsOf(P, s, CommentSet(V))
    BY <1>5, StatementSpan
  <1>6. ASSUME NEW i \in 1..N, NEW j \in 1..N, NEW s, Is(i, s), NEW u, Is(j, u), i < j
        PROVE  s.last + 1 < u.first /\ s.last \in Nat /\ u.first \in Nat
    BY <1>6, SpansOrdered
  <1>7. ASSUME NEW i \in 1..N, NEW s, Is(i, s), NEW u, Is(i, u) PROVE s = u
    BY <1>7 DEF IsStatementSpan
  <1>. HIDE DEF Is
  <1>8. ASSUME NEW s \in S, NEW u \in S
        PROVE  (s = u \/ s.last < u.first \/ u.last < s.first) /\ u.first # s.last + 1
    <2>1. PICK i \in 1..N : Is(i, s)
      BY <1>1
    <2>2. PICK j \in 1..N : Is(j, u)
      BY <1>1
    <2>3. s.first \in 1..M /\ s.last \in (s.first)..M /\ u.first \in 1..M /\ u.last \in (u.first)..M
      BY <1>3, <2>1, <2>2
    <2>4. i < j => s.last + 1 < u.first
      BY <1>6, <2>1, <2>2
    <2>5. j < i => u.last + 1 < s.first
      BY <1>6, <2>1, <2>2
    <2>6. i = j => s = u
      BY <1>7, <2>1, <2>2
    <2> DEFINE a == s.first
               b == s.last
               c == u.first
               d == u.last
    <2>7. /\ a \in Nat /\ b \in Nat /\ c \in Nat /\ d \in Nat /\ a <= b /\ c <= d
          /\ (i < j => b + 1 < c) /\ (j < i => d + 1 < a) /\ (i = j => a = c)
      <3>1. /\ a \in Nat /\ c \in Nat /\ b \in Nat /\ d \in Nat /\ a <= b /\ c <= d
        <4>. HIDE DEF a, b, c, d
        <4>1. a \in 1..M /\ b \in a..M /\ c \in 1..M /\ d \in c..M
          BY <2>3 DEF a, b, c, d
        <4>2. QED
          BY <1>2, <4>1
      <3>2. QED
        BY <2>4, <2>5, <2>6, <3>1
    <2>. HIDE DEF a, b, c, d
    <2>8. i < j \/ j < i \/ i = j
      BY <1>2
    <2>9. (i = j \/ b < c \/ d < a) /\ c # b + 1
      BY <2>7, <2>8
    <2>10. QED
      BY <2>6, <2>9 DEF a, b, c, d
  <1>9. AreSpans(S, M, V)
    <2>1. ASSUME NEW s \in S PROVE s.first \in 1..M /\ s.last \in (s.first)..M /\ s.new \in Seq(V)
      BY <1>1, <1>3
    <2>2. QED
      BY <1>8, <2>1 DEF AreSpans
  <1>10. SpansApart(P, S)
    <2>1. ASSUME NEW s \in S
          PROVE  /\ s.new # << >> /\ s.new[1] = P[s.first] /\ WordsApart(s.new)
                 /\ s.last < M => ~IsWord(P[s.last + 1])
      BY <1>1, <1>3
    <2>2. QED
      BY <1>8, <2>1 DEF SpansApart, M
  <1>11. SpansKeep(P, S, CodeSet(V))
    BY <1>1, <1>4 DEF SpansKeep, KeepsOf
  <1>12. SpansKeep(P, S, CommentSet(V))
    BY <1>1, <1>5 DEF SpansKeep, KeepsOf
  <1>13. QED
    BY <1>9, <1>10, <1>11, <1>12 DEF M

(* A text of the pieces of another, with the printed ones.                 *)
LEMMA WordsOf ==
  ASSUME NEW P, PiecesOK(P)
  PROVE  WordsApart(P) /\ P \in Seq(PieceSet(P))
  <1>1. P \in Seq(ToSet(P)) /\ DOMAIN P = 1..Len(P)
    BY PiecesAre
  <1>2. ToSet(P) \subseteq PieceSet(P)
    BY DEF PieceSet
  <1>3. P \in Seq(PieceSet(P))
    BY <1>1, <1>2
  <1>4. WordsApart(P)
    BY <1>1 DEF PiecesOK, WordsApart, IsWord, EndsApart
  <1>5. QED
    BY <1>3, <1>4

LEMMA PiecesKept ==
  ASSUME NEW P, PiecesOK(P), NEW R \in Seq(PieceSet(P)), WordsApart(R)
  PROVE  PiecesOK(R)
  <1> DEFINE V == PieceSet(P)
  <1>1. \A x \in V : x.runes \in Seq(DOMAIN Bytes) \ {<< >>}
    <2>1. TAKE x \in V
    <2>2. CASE x \in ToSet(P)
      <3>1. PICK i \in DOMAIN P : x = P[i]
        BY <2>2 DEF ToSet
      <3>2. QED
        BY <3>1 DEF PiecesOK
    <2>3. CASE x \in {Space, LineBreak, Semicolon}
      BY <2>3, PrintedPieces
    <2>4. QED
      BY <2>2, <2>3 DEF PieceSet
  <1>. HIDE DEF V
  <1>2. R \in Seq(V) /\ DOMAIN R = 1..Len(R) /\ Len(R) \in Nat
    BY DEF V
  <1>3. R \in Seq(ToSet(R))
    BY <1>2 DEF ToSet
  <1>4. \A i \in DOMAIN R : R[i].runes \in Seq(DOMAIN Bytes) \ {<< >>}
    BY <1>1, <1>2
  <1>5. \A i \in DOMAIN R :
          R[i].kind = "ident" /\ ToSet(R[i].runes) \subseteq WordRunes /\ i > 1 =>
            Last(R[i - 1].runes) \notin WordRunes
    BY <1>2 DEF WordsApart, IsWord, EndsApart
  <1>6. QED
    BY <1>3, <1>4, <1>5 DEF PiecesOK

(* The text after edits of statements has the same tokens and comments.    *)
LEMMA StatementEditsKeep ==
  ASSUME NEW P, PiecesOK(P), NEW syntax, NEW t, t = newLexer(syntax, P),
         NEW stmts, StatementsOK(stmts, Code(P)),
         NEW edits, \A e \in ToSet(edits) : IsStatementEdit(t, stmts, e),
         NEW R, R = Applied(P, edits)
  PROVE  PiecesOK(R) /\ Code(R) = Code(P) /\ Comments(R) = Comments(P)
  <1> DEFINE V == PieceSet(P)
             S == SpansOf(P, edits)
  <1>1. R = Replaced(P, S)
    BY AppliedIs
  <1>2. P \in Seq(V) /\ WordsApart(P)
    BY WordsOf
  <1>3. /\ AreSpans(S, Len(P), V) /\ SpansApart(P, S)
        /\ SpansKeep(P, S, CodeSet(V)) /\ SpansKeep(P, S, CommentSet(V))
    BY StatementSpans
  <1>. HIDE DEF S, V
  <1>4. R \in Seq(V) /\ Of(R, CodeSet(V)) = Of(P, CodeSet(V))
    BY <1>1, <1>2, <1>3, ReplacedKeeps
  <1>5. Of(R, CommentSet(V)) = Of(P, CommentSet(V))
    BY <1>1, <1>2, <1>3, ReplacedKeeps
  <1>6. WordsApart(R)
    BY <1>1, <1>2, <1>3, ReplacedApart
  <1>7. PiecesOK(R)
    BY <1>4, <1>6, PiecesKept DEF V
  <1>8. Code(P) = Of(P, CodeSet(V)) /\ Comments(P) = Of(P, CommentSet(V))
    BY <1>2, CodeOf
  <1>9. Code(R) = Of(R, CodeSet(V)) /\ Comments(R) = Of(R, CommentSet(V))
    BY <1>4, CodeOf
  <1>10. QED
    BY <1>4, <1>5, <1>7, <1>8, <1>9

------------------------------------------------------------------------------
(* The edits of the formatting requests are edits of statements.           *)
LEMMA SiftedIs ==
  ASSUME NEW V, NEW s \in Seq(V), NEW places
  PROVE  /\ Sifted(s, places) \in Seq(V)
         /\ Lists(At(Len(s), places), Len(s), places)
         /\ Len(Sifted(s, places)) = Len(At(Len(s), places))
  <1> DEFINE N == Len(s)
             A == At(N, places)
  <1>1. N \in Nat /\ \A i \in 1..N : s[i] \in V
    OBVIOUS
  <1>2. Lists(A, N, places)
    BY <1>1, AtLists
  <1>3. Sifted(s, places) = [k \in 1..Len(A) |-> s[A[k]]]
    BY SiftedAt
  <1>. HIDE DEF A, N
  <1>4. Len(A) \in Nat /\ \A k \in 1..Len(A) : A[k] \in 1..N
    BY <1>2 DEF Lists
  <1>5. [k \in 1..Len(A) |-> s[A[k]]] \in Seq(V) /\ Len([k \in 1..Len(A) |-> s[A[k]]]) = Len(A)
    BY <1>1, <1>4
  <1>6. QED
    BY <1>2, <1>3, <1>5 DEF A, N

LEMMA Parsed ==
  ASSUME NEW t, NEW code, StatementsOK(Syntax[t.syntax].statements, code), Len(code) \in Nat
  PROVE  /\ StatementsOK(ParseStatements(t), code)
         /\ ToSet(ParseStatements(t)) \subseteq ToSet(Syntax[t.syntax].statements)
  <1> DEFINE none == << >>
  <1>1. none \in Seq(ToSet(none)) /\ DOMAIN none = {} /\ ToSet(none) = {}
    BY DEF ToSet
  <1>2. StatementsOK(none, code)
    <2>. HIDE DEF none
    <2> QED
      BY <1>1 DEF StatementsOK
  <1>3. ParseStatements(t) = none \/ ParseStatements(t) = Syntax[t.syntax].statements
    BY DEF ParseStatements
  <1>. HIDE DEF none
  <1>4. QED
    BY <1>1, <1>2, <1>3

(* The edit of a statement.                                                *)
EditOf(t, stmt) == [range |-> rangeByNode(t, stmt), new |-> formatStatement(t, stmt)]

Uncommented(t, range) == \A c \in ToSet(t.comments) : ~rangesOverlap(range, c.range)

Within(targets, range) == \E target \in targets : rangeContains(target, range)

EditsOf(t, stmts, targets) ==
  {EditOf(t, stmt) : stmt \in {x \in ToSet(stmts) : /\ Uncommented(t, rangeByNode(t, x))
                                                    /\ Within(targets, rangeByNode(t, x))}}

LEMMA AreStatementEdits ==
  ASSUME NEW t, NEW stmts, NEW targets, NEW e \in EditsOf(t, stmts, targets)
  PROVE  IsStatementEdit(t, stmts, e)
  <1>1. PICK stmt \in ToSet(stmts) : e = EditOf(t, stmt) /\ Uncommented(t, rangeByNode(t, stmt))
    BY DEF EditsOf
  <1>2. PICK i \in DOMAIN stmts : stmt = stmts[i]
    BY <1>1 DEF ToSet
  <1>3. QED
    BY <1>1, <1>2 DEF EditOf, Uncommented, IsStatementEdit

IsRange(range) == range.start \in Places /\ range.end \in Places

(* A comment that is not in a range is not in a part of it.                *)
LEMMA NoComment ==
  ASSUME NEW outer, IsRange(outer), NEW inner, IsRange(inner), rangeContains(outer, inner),
         NEW c, IsRange(c), rangesOverlap(inner, c)
  PROVE  rangesOverlap(outer, c)
  <1>1. /\ NotAfter(outer.start, inner.start) /\ NotAfter(inner.end, outer.end)
        /\ Before(inner.start, c.end) /\ Before(c.start, inner.end)
    BY DEF rangeContains, rangesOverlap
  <1>2. Before(outer.start, c.end)
    BY <1>1, PlacesOrdered DEF IsRange
  <1>3. Before(c.start, outer.end)
    BY <1>1, PlacesOrdered DEF IsRange
  <1>4. QED
    BY <1>2, <1>3 DEF rangesOverlap

(* The ranges of the statements and the comments of a text.                *)
LEMMA RangesAre ==
  ASSUME NEW P, PiecesOK(P), NEW syntax, NEW t, t = newLexer(syntax, P),
         NEW stmts, StatementsOK(stmts, Code(P))
  PROVE  /\ \A stmt \in ToSet(stmts) : IsRange(rangeByNode(t, stmt))
         /\ \A c \in ToSet(t.comments) : IsRange(c.range)
  <1> DEFINE M == Len(P)
             C == CommentsAt(P)
  <1>1. ASSUME NEW a \in 1..M, NEW b \in 1..M PROVE IsRange(Span(P, a, b))
    BY SpanOrder DEF IsRange
  <1>2. ASSUME NEW stmt \in ToSet(stmts) PROVE IsRange(rangeByNode(t, stmt))
    <2>1. PICK i \in DOMAIN stmts : stmt = stmts[i]
      BY <1>2 DEF ToSet
    <2>2. Len(Code(P)) \in Nat
      BY CodeIs
    <2>3. stmt.first \in 1..Len(Code(P)) /\ stmt.last \in 1..Len(Code(P))
      BY <2>1, <2>2, StatementsAre
    <2>4. QED
      BY <1>1, <2>3, NodeRange
  <1>3. ASSUME NEW c \in ToSet(t.comments) PROVE IsRange(c.range)
    <2>1. t.comments = [k \in 1..Len(C) |-> Placed(P, C[k])]
      BY LexerIs DEF CommentsOf
    <2>2. Lists(C, M, CommentPlaces(P))
      BY CodeIs
    <2>3. PICK k \in 1..Len(C) : c = Placed(P, C[k])
      BY <1>3, <2>1 DEF ToSet
    <2>4. C[k] \in 1..M
      BY <2>2 DEF Lists
    <2>5. c.range = Span(P, C[k], C[k])
      BY <2>3 DEF Placed
    <2>6. QED
      BY <1>1, <2>4, <2>5
  <1>4. QED
    BY <1>2, <1>3

LEMMA RangeEdits ==
  ASSUME NEW P, PiecesOK(P), NEW syntax, NEW t, t = newLexer(syntax, P),
         NEW stmts, stmts = ParseStatements(t), StatementsOK(stmts, Code(P)),
         NEW target, IsRange(target), NEW targets, target \in targets
  PROVE  rangeFormattingEdits(t, target) \in Seq(EditsOf(t, stmts, targets))
  <1> DEFINE places == {i \in DOMAIN stmts :
                          stmts[i].sql /\ rangeContains(target, rangeByNode(t, stmts[i]))}
             formatted == Sifted(stmts, places)
             N == Len(stmts)
             A == At(N, places)
             E == EditsOf(t, stmts, targets)
             edits == [i \in DOMAIN formatted |-> EditOf(t, formatted[i])]
  <1>1. rangeFormattingEdits(t, target) = IF rangeHasComments(t, target) THEN << >> ELSE edits
    BY DEF rangeFormattingEdits, EditOf
  <1>2. CASE rangeHasComments(t, target)
    BY <1>1, <1>2
  <1>3. CASE ~rangeHasComments(t, target)
    <2>1. \A c \in ToSet(t.comments) : ~rangesOverlap(target, c.range)
      BY <1>3 DEF rangeHasComments
    <2>2. stmts \in Seq(ToSet(stmts)) /\ DOMAIN stmts = 1..N /\ N \in Nat
      BY DEF StatementsOK
    <2>3. /\ \A stmt \in ToSet(stmts) : IsRange(rangeByNode(t, stmt))
          /\ \A c \in ToSet(t.comments) : IsRange(c.range)
      BY RangesAre
    <2>4. ASSUME NEW stmt \in ToSet(stmts), rangeContains(target, rangeByNode(t, stmt))
          PROVE  EditOf(t, stmt) \in E
      <3>1. Uncommented(t, rangeByNode(t, stmt))
        <4>1. ASSUME NEW c \in ToSet(t.comments), rangesOverlap(rangeByNode(t, stmt), c.range)
              PROVE  FALSE
          <5>1. rangesOverlap(target, c.range)
            BY <2>3, <2>4, <4>1, NoComment
          <5>2. QED
            BY <2>1, <5>1
        <4>2. QED
          BY <4>1 DEF Uncommented
      <3>2. Within(targets, rangeByNode(t, stmt))
        BY <2>4 DEF Within
      <3>3. QED
        BY <3>1, <3>2 DEF EditsOf
    <2>5. Lists(A, N, places) /\ Len(formatted) = Len(A) /\ formatted \in Seq(ToSet(stmts))
      BY <2>2, SiftedIs
    <2>6. formatted = [k \in 1..Len(A) |-> stmts[A[k]]]
      <3>. HIDE DEF places
      <3>1. Sifted(stmts, places) = [k \in 1..Len(At(Len(stmts), places)) |->
                                       stmts[At(Len(stmts), places)[k]]]
        BY <2>2, SiftedAt
      <3>2. QED
        BY <3>1
    <2>. HIDE DEF E, A, formatted
    <2>7. \A k \in 1..Len(A) : A[k] \in places
      BY <2>5 DEF Lists
    <2>8. ASSUME NEW k \in DOMAIN formatted PROVE EditOf(t, formatted[k]) \in E
      <3>1. k \in 1..Len(A)
        BY <2>6
      <3>2. A[k] \in DOMAIN stmts /\ rangeContains(target, rangeByNode(t, stmts[A[k]]))
        BY <2>7, <3>1
      <3>3. stmts[A[k]] \in ToSet(stmts)
        BY <3>2 DEF ToSet
      <3>4. formatted[k] = stmts[A[k]]
        BY <2>6, <3>1
      <3>5. QED
        BY <2>4, <3>2, <3>3, <3>4
    <2>9. edits \in Seq(E)
      <3>1. DOMAIN formatted = 1..Len(A) /\ Len(A) \in Nat
        BY <2>5, <2>6 DEF Lists
      <3>2. QED
        BY <2>8, <3>1
    <2>10. QED
      BY <1>1, <1>3, <2>9 DEF E
  <1>4. QED
    BY <1>2, <1>3

(* The ranges that are asked for begin and end at the ends of pieces.      *)
LEMMA ByteEnds ==
  ASSUME NEW P, PiecesOK(P), NEW i \in 0..Len(P)
  PROVE  position(newTextIndex(Runes(P)), ByteEnd(P, i)) = Place(P, i) /\ Place(P, i) \in Places
  <1> DEFINE R == Runes(P)
             E == Ends(P)
             index == newTextIndex(R)
  <1>1. R \in Seq(DOMAIN Bytes) /\ E[i] \in 0..Len(R)
    BY RunesAre, EndsGrow
  <1>2. position(index, index.bytes[E[i]]) = EditorPositions(R)[E[i]]
    <2>. HIDE DEF R, E
    <2> QED
      BY <1>1, PositionsAgree
  <1>3. index.bytes = Sizes(Bytes, R)
    BY DEF newTextIndex
  <1>4. Place(P, i) \in Places
    BY PlaceOrder
  <1>5. QED
    BY <1>2, <1>3, <1>4 DEF Place, ByteEnd

LEMMA TargetsAre ==
  ASSUME NEW P, PiecesOK(P), NEW syntax, NEW t, t = newLexer(syntax, P),
         StatementsOK(Syntax[syntax].statements, Code(P)), NEW target \in Targets(t)
  PROVE  IsRange(target)
  <1> DEFINE M == Len(P)
             stmts == Syntax[syntax].statements
             A == CodeAt(P)
             C == CommentsAt(P)
             places == {0, Size(t.index)} \cup {c.start : c \in ToSet(t.comments)}
                  \cup UNION {{NodeStart(t, s), NodeEnd(t, s)} : s \in ToSet(stmts)}
  <1>0. M \in Nat
    BY PiecesAre
  <1>1. /\ t.syntax = syntax /\ t.index = newTextIndex(Runes(P))
        /\ t.tokens = [k \in 1..Len(A) |-> Placed(P, A[k])]
        /\ t.comments = [k \in 1..Len(C) |-> Placed(P, C[k])]
    BY LexerIs DEF TokensOf, CommentsOf
  <1>2. 0 = ByteEnd(P, 0)
    <2>1. Ends(P)[0] = 0 /\ Runes(P) \in Seq(DOMAIN Bytes)
      BY EndsAre, RunesAre
    <2>2. Bytes \in Sized
      BY RuneAssumption DEF Sized
    <2>3. Sizes(Bytes, Runes(P))[0] = 0
      BY <2>1, <2>2, SizesAdd
    <2>4. QED
      BY <2>1, <2>3 DEF ByteEnd
  <1>3. Size(t.index) = ByteEnd(P, M)
    <2>1. Len(Runes(P)) = Ends(P)[M]
      BY RunesAre
    <2>2. t.index.bytes = Sizes(Bytes, Runes(P)) /\ t.index.runes = Runes(P)
      BY <1>1 DEF newTextIndex
    <2>3. QED
      BY <2>1, <2>2 DEF Size, ByteEnd
  <1>4. ASSUME NEW c \in ToSet(t.comments) PROVE \E i \in 0..M : c.start = ByteEnd(P, i)
    <2>1. Lists(C, M, CommentPlaces(P))
      BY CodeIs
    <2>2. PICK k \in 1..Len(C) : c = Placed(P, C[k])
      BY <1>1, <1>4 DEF ToSet
    <2>3. C[k] \in 1..M
      BY <2>1 DEF Lists
    <2>4. C[k] - 1 \in 0..M
      BY <1>0, <2>3
    <2>5. c.start = ByteEnd(P, C[k] - 1)
      BY <2>2 DEF Placed
    <2>6. QED
      BY <2>4, <2>5
  <1>5. ASSUME NEW s \in ToSet(stmts)
        PROVE  /\ \E i \in 0..M : NodeStart(t, s) = ByteEnd(P, i)
               /\ \E i \in 0..M : NodeEnd(t, s) = ByteEnd(P, i)
    <2>1. PICK i \in DOMAIN stmts : s = stmts[i]
      BY <1>5 DEF ToSet
    <2>2. Len(Code(P)) \in Nat /\ Len(Code(P)) = Len(A)
      BY CodeIs
    <2>3. s.first \in 1..Len(A) /\ s.last \in 1..Len(A)
      <3>. HIDE DEF stmts, A
      <3>1. DOMAIN stmts = 1..Len(stmts)
        BY <2>2, StatementsAre DEF stmts
      <3>2. \A k \in 1..Len(stmts) : /\ stmts[k].first \in 1..Len(Code(P))
                                     /\ stmts[k].last \in 1..Len(Code(P))
        BY <2>2, StatementsAre DEF stmts
      <3>3. QED
        BY <2>1, <2>2, <3>1, <3>2
    <2>4. A[s.first] \in 1..M /\ A[s.last] \in 1..M
      BY <2>3, CodeAtGrows
    <2>5. t.tokens[s.first] = Placed(P, A[s.first]) /\ t.tokens[s.last] = Placed(P, A[s.last])
      BY <1>1, <2>3
    <2>6. NodeStart(t, s) = ByteEnd(P, A[s.first] - 1) /\ NodeEnd(t, s) = ByteEnd(P, A[s.last])
      BY <2>5 DEF NodeStart, NodeEnd, Placed
    <2>. HIDE DEF A, M
    <2>7. A[s.first] - 1 \in 0..M /\ A[s.last] \in 0..M
      BY <1>0, <2>4
    <2>8. QED
      BY <2>6, <2>7
  <1>6. ASSUME NEW p \in places PROVE \E i \in 0..M : p = ByteEnd(P, i)
    <2>1. CASE p = 0
      BY <1>0, <1>2, <2>1
    <2>2. CASE p = Size(t.index)
      BY <1>0, <1>3, <2>2
    <2>3. CASE p \in {c.start : c \in ToSet(t.comments)}
      BY <1>4, <2>3
    <2>4. CASE p \in UNION {{NodeStart(t, s), NodeEnd(t, s)} : s \in ToSet(stmts)}
      <3>1. PICK s \in ToSet(stmts) : p \in {NodeStart(t, s), NodeEnd(t, s)}
        BY <2>4
      <3>. HIDE DEF stmts
      <3>2. QED
        BY <1>5, <3>1
    <2>5. QED
      BY <2>1, <2>2, <2>3, <2>4
  <1>7. ASSUME NEW p \in places PROVE position(t.index, p) \in Places
    <2>1. PICK i \in 0..M : p = ByteEnd(P, i)
      BY <1>6
    <2>2. position(newTextIndex(Runes(P)), ByteEnd(P, i)) \in Places
      BY ByteEnds
    <2>3. QED
      BY <1>1, <2>1, <2>2
  <1>8. PICK p \in places \X places : target = rangeByByteOffsets(t.index, p[1], p[2])
    BY <1>1 DEF Targets
  <1>9. p[1] \in places /\ p[2] \in places
    BY <1>8
  <1>. HIDE DEF places
  <1>10. QED
    BY <1>7, <1>8, <1>9 DEF rangeByByteOffsets, IsRange

(* Statements do not overlap.                                              *)
LEMMA StatementsApart ==
  ASSUME NEW P, PiecesOK(P), NEW syntax, NEW t, t = newLexer(syntax, P),
         NEW stmts, StatementsOK(stmts, Code(P)), NEW x \in ToSet(stmts), NEW y \in ToSet(stmts),
         rangesOverlap(rangeByNode(t, x), rangeByNode(t, y))
  PROVE  x = y
  <1> DEFINE A == CodeAt(P)
             M == Len(P)
             L == Len(A)
  <1>1. PICK i \in DOMAIN stmts : x = stmts[i]
    BY DEF ToSet
  <1>2. PICK j \in DOMAIN stmts : y = stmts[j]
    BY DEF ToSet
  <1>3. Len(Code(P)) = L /\ L \in Nat
    BY CodeIs
  <1>4. /\ x.first \in 1..L /\ x.last \in 1..L /\ y.first \in 1..L /\ y.last \in 1..L
        /\ i \in Nat /\ j \in Nat
        /\ i < j => x.last + 1 < y.first
        /\ j < i => y.last + 1 < x.first
    <2>1. Len(stmts) \in Nat /\ DOMAIN stmts = 1..Len(stmts)
      BY <1>3, StatementsAre
    <2>2. \A k \in 1..Len(stmts) : /\ stmts[k].first \in 1..Len(Code(P))
                                   /\ stmts[k].last \in 1..Len(Code(P))
      BY <1>3, StatementsAre
    <2>3. \A k, m \in 1..Len(stmts) : k < m => stmts[k].last + 1 < stmts[m].first
      BY <1>3, StatementsAre
    <2>. HIDE DEF L
    <2>4. i \in Nat /\ j \in Nat
      BY <2>1
    <2>5. x.first \in 1..L /\ x.last \in 1..L /\ y.first \in 1..L /\ y.last \in 1..L
      BY <1>1, <1>2, <1>3, <2>1, <2>2
    <2>6. i < j => x.last + 1 < y.first
      BY <1>1, <1>2, <2>1, <2>3
    <2>7. j < i => y.last + 1 < x.first
      BY <1>1, <1>2, <2>1, <2>3
    <2>8. QED
      BY <2>4, <2>5, <2>6, <2>7
  <1> DEFINE a == x.first
             b == x.last
             c == y.first
             d == y.last
  <1>5. rangeByNode(t, x) = Span(P, A[a], A[b]) /\ A[a] \in 1..M /\ A[b] \in 1..M
    BY <1>3, <1>4, NodeRange
  <1>6. rangeByNode(t, y) = Span(P, A[c], A[d]) /\ A[c] \in 1..M /\ A[d] \in 1..M
    BY <1>3, <1>4, NodeRange
  <1>7. A[a] <= A[d] /\ A[c] <= A[b]
    <2>. HIDE DEF A, a, b, c, d
    <2>1. rangesOverlap(Span(P, A[a], A[b]), Span(P, A[c], A[d]))
      BY <1>5, <1>6
    <2>2. QED
      BY <1>5, <1>6, <2>1, SpanOrder
  <1>8. \A k, m \in 1..L : A[k] <= A[m] <=> k <= m
    BY CodeAtGrows
  <1>. HIDE DEF A, M, L
  <1>9. a <= d /\ c <= b
    BY <1>4, <1>7, <1>8
  <1>10. /\ a \in Nat /\ b \in Nat /\ c \in Nat /\ d \in Nat
         /\ (i < j => b + 1 < c) /\ (j < i => d + 1 < a)
    <2>1. a \in 1..L /\ b \in 1..L /\ c \in 1..L /\ d \in 1..L
      BY <1>4
    <2>2. (i < j => b + 1 < c) /\ (j < i => d + 1 < a)
      BY <1>4
    <2>. HIDE DEF a, b, c, d
    <2>3. QED
      BY <1>3, <2>1, <2>2
  <1>. HIDE DEF a, b, c, d
  <1>11. i = j
    BY <1>4, <1>9, <1>10
  <1>12. QED
    BY <1>1, <1>2, <1>11

(* Of the edits for two ranges no two are of the same statement.           *)
DifferentRanges(edits) == \A i, j \in DOMAIN edits : j < i => edits[j].range # edits[i].range

LEMMA RangesEdits ==
  ASSUME NEW P, PiecesOK(P), NEW syntax, NEW t, t = newLexer(syntax, P),
         NEW stmts, stmts = ParseStatements(t), StatementsOK(stmts, Code(P)),
         NEW a, IsRange(a), NEW b, IsRange(b),
         NEW edits, edits = RangesFormatting(t, << a, b >>)
  PROVE  /\ edits \in Seq(EditsOf(t, stmts, {a, b}))
         /\ DifferentRanges(edits)
  <1> DEFINE E == EditsOf(t, stmts, {a, b})
             targets == << a, b >>
             seqs == [i \in 1..2 |-> rangeFormattingEdits(t, targets[i])]
             all == FlattenSeq(seqs)
             places == {i \in DOMAIN all : \A j \in 1..(i - 1) : all[j].range # all[i].range}
             N == Len(all)
             A == At(N, places)
  <1>1. seqs \in [1..2 -> Seq(E)]
    <2>1. \A i \in 1..2 : targets[i] \in {a, b} /\ IsRange(targets[i])
      OBVIOUS
    <2>. HIDE DEF targets, E
    <2>2. ASSUME NEW i \in 1..2 PROVE rangeFormattingEdits(t, targets[i]) \in Seq(E)
      BY <2>1, RangeEdits DEF E
    <2>3. QED
      BY <2>2
  <1>2. edits = Sifted(all, places)
    <2>1. seqs = [i \in DOMAIN targets |-> rangeFormattingEdits(t, targets[i])]
      OBVIOUS
    <2>. HIDE DEF seqs
    <2>2. QED
      BY <2>1 DEF RangesFormatting
  <1>3. all \in Seq(E)
    <2>. HIDE DEF seqs, E
    <2>1. 2 \in Nat
      OBVIOUS
    <2>2. QED
      BY <1>1, <2>1, Flattened
  <1>. HIDE DEF E, all
  <1>4. edits \in Seq(E) /\ Lists(A, N, places) /\ Len(edits) = Len(A)
    <2>. HIDE DEF places
    <2> QED
      BY <1>2, <1>3, SiftedIs
  <1>5. edits = [k \in 1..Len(A) |-> all[A[k]]]
    <2>. HIDE DEF places
    <2>1. Sifted(all, places) = [k \in 1..Len(At(Len(all), places)) |->
                                   all[At(Len(all), places)[k]]]
      BY <1>3, SiftedAt
    <2>2. QED
      BY <1>2, <2>1
  <1>. HIDE DEF A
  <1>6. /\ \A k \in 1..Len(A) : A[k] \in 1..N /\ A[k] \in places
        /\ \A j, k \in 1..Len(A) : j < k => A[j] < A[k]
    BY <1>4 DEF Lists
  <1>7. N \in Nat
    BY <1>3
  <1>. HIDE DEF N
  <1>8. ASSUME NEW i \in DOMAIN edits, NEW j \in DOMAIN edits, j < i
        PROVE  edits[j].range # edits[i].range
    <2>1. i \in 1..Len(A) /\ j \in 1..Len(A)
      BY <1>5
    <2>2. A[j] < A[i] /\ A[j] \in 1..N /\ A[i] \in 1..N /\ A[i] \in places
      BY <1>6, <1>8, <2>1
    <2>3. A[j] \in 1..(A[i] - 1)
      BY <1>7, <2>2
    <2>4. all[A[j]].range # all[A[i]].range
      BY <2>2, <2>3
    <2>5. edits[j] = all[A[j]] /\ edits[i] = all[A[i]]
      BY <1>5, <2>1
    <2>6. QED
      BY <2>4, <2>5
  <1>9. QED
    BY <1>4, <1>8 DEF E, DifferentRanges

LEMMA OnTypeEdits ==
  ASSUME NEW P, PiecesOK(P), NEW syntax, NEW t, t = newLexer(syntax, P),
         NEW stmts, stmts = ParseStatements(t), StatementsOK(stmts, Code(P)), NEW pos,
         NEW e \in ToSet(OnTypeFormatting(t, pos))
  PROVE  IsStatementEdit(t, stmts, e)
  <1> DEFINE places == {i \in DOMAIN stmts :
                          stmts[i].sql /\ NotAfter(rangeByNode(t, stmts[i]).end, pos)}
             ended == Sifted(stmts, places)
             last == Last(ended)
             edit == [range |-> rangeByNode(t, last), new |-> formatStatement(t, last)]
             none == << >>
  <1>1. OnTypeFormatting(t, pos) =
          IF ended = << >> \/ rangeHasComments(t, rangeByNode(t, last)) THEN none ELSE << edit >>
    BY DEF OnTypeFormatting
  <1>. HIDE DEF edit, ended, places
  <1>2. ToSet(none) = {} /\ ToSet(<< edit >>) = {edit}
    BY DEF ToSet
  <1>. HIDE DEF none, last
  <1>3. ended # << >> /\ ~rangeHasComments(t, rangeByNode(t, last)) /\ e = edit
    BY <1>1, <1>2
  <1>4. ended \in Seq(ToSet(stmts))
    <2>1. stmts \in Seq(ToSet(stmts))
      BY DEF StatementsOK
    <2>2. QED
      BY <2>1, SiftedIs DEF ended
  <1>5. last \in ToSet(stmts)
    <2>1. ended[Len(ended)] \in ToSet(stmts)
      BY <1>3, <1>4
    <2>2. QED
      BY <2>1 DEF last, Last
  <1>6. PICK i \in DOMAIN stmts : last = stmts[i]
    BY <1>5 DEF ToSet
  <1>7. \A c \in ToSet(t.comments) : ~rangesOverlap(rangeByNode(t, last), c.range)
    BY <1>3 DEF rangeHasComments
  <1>8. e.range = rangeByNode(t, last) /\ e.new = formatStatement(t, last)
    BY <1>3 DEF edit
  <1>9. QED
    BY <1>6, <1>7, <1>8 DEF IsStatementEdit

------------------------------------------------------------------------------
(* A document that is formatted as a whole.                                *)
Ended(C, x) == [k \in 1..(x + 1) |-> IF k <= x THEN C[k] ELSE Semicolon]

LEMMA EndedBy ==
  ASSUME NEW C, Len(C) \in Nat, NEW x \in 1..Len(C), NEW f \in 1..x
  PROVE  Begin(C, f - 1) \o ([k \in 1..(x - f + 1) |-> C[f + k - 1]] \o << Semicolon >>)
           = Ended(C, x)
  <1> DEFINE n == x - f + 1
             m == f - 1
             a == [k \in 1..m |-> C[k]]
             b == [k \in 1..n |-> C[f + k - 1]]
             c == << Semicolon >>
             V == {C[k] : k \in 1..Len(C)} \cup {Semicolon}
             d == b \o c
             e == [k \in 1..(x + 1) |-> IF k <= x THEN C[k] ELSE Semicolon]
  <1>1. /\ x \in Nat /\ f \in Nat /\ n \in Nat /\ m \in Nat /\ m + n = x /\ f = m + 1
        /\ \A k \in 1..m : k \in 1..Len(C)
        /\ \A k \in 1..n : f + k - 1 \in 1..Len(C) /\ f + k - 1 = m + k
    OBVIOUS
  <1>. HIDE DEF n, m
  <1>2. a \in Seq(V) /\ Len(a) = m /\ \A k \in 1..m : a[k] = C[k]
    BY <1>1
  <1>3. b \in Seq(V) /\ Len(b) = n /\ \A k \in 1..n : b[k] = C[m + k]
    BY <1>1
  <1>4. c \in Seq(V) /\ Len(c) = 1 /\ c[1] = Semicolon
    OBVIOUS
  <1>. HIDE DEF a, b, c, V
  <1>5. d \in Seq(V) /\ Len(d) = n + 1 /\ (\A k \in 1..n : d[k] = C[m + k]) /\ d[n + 1] = Semicolon
    <2>0. b \in Seq(V) /\ c \in Seq(V)
      BY <1>3, <1>4
    <2>1. d \in Seq(V) /\ Len(d) = Len(b) + Len(c)
      BY <2>0
    <2>2. /\ \A k \in 1..Len(b) : d[k] = b[k]
          /\ \A k \in 1..Len(c) : d[Len(b) + k] = c[k]
      BY <2>0
    <2>. HIDE DEF d
    <2>3. d \in Seq(V) /\ Len(d) = n + 1
      BY <1>3, <1>4, <2>1
    <2>4. \A k \in 1..n : d[k] = C[m + k]
      BY <1>3, <2>2
    <2>5. d[n + 1] = Semicolon
      BY <1>1, <1>3, <1>4, <2>2
    <2>6. QED
      BY <2>3, <2>4, <2>5
  <1>. HIDE DEF d
  <1>6. /\ a \o d = [k \in 1..Len(a \o d) |-> (a \o d)[k]] /\ Len(a \o d) = x + 1
        /\ \A k \in 1..m : (a \o d)[k] = a[k]
        /\ \A k \in 1..(n + 1) : (a \o d)[m + k] = d[k]
    <2>1. Len(a \o d) = m + (n + 1)
      BY <1>2, <1>5
    <2>2. m + (n + 1) = x + 1
      BY <1>1
    <2>3. \A k \in 1..m : (a \o d)[k] = a[k]
      BY <1>2, <1>5
    <2>4. \A k \in 1..(n + 1) : (a \o d)[m + k] = d[k]
      BY <1>1, <1>2, <1>5
    <2>5. a \o d \in Seq(V)
      BY <1>2, <1>5
    <2>6. a \o d = [k \in 1..Len(a \o d) |-> (a \o d)[k]]
      <3> DEFINE w == a \o d
      <3>1. w \in Seq(V)
        BY <2>5
      <3>. HIDE DEF w
      <3>2. w = [k \in 1..Len(w) |-> w[k]]
        BY <3>1
      <3>3. QED
        BY <3>2 DEF w
    <2>7. QED
      BY <2>1, <2>2, <2>3, <2>4, <2>6
  <1>7. ASSUME NEW k \in 1..(x + 1) PROVE (a \o d)[k] = IF k <= x THEN C[k] ELSE Semicolon
    <2>1. CASE k \in 1..m
      <3>1. k <= x
        BY <1>1, <2>1
      <3>2. (a \o d)[k] = C[k]
        BY <1>2, <1>6, <2>1
      <3>3. QED
        BY <3>1, <3>2
    <2>2. CASE k \notin 1..m
      <3> DEFINE j == k - m
      <3>1. j \in 1..(n + 1) /\ m + j = k /\ (j = n + 1 <=> k = x + 1) /\ (k <= x <=> j \in 1..n)
        BY <1>1, <2>2
      <3>. HIDE DEF j
      <3>2. (a \o d)[k] = d[j]
        BY <1>6, <3>1
      <3>3. CASE k <= x
        BY <1>5, <3>1, <3>2, <3>3
      <3>4. CASE ~(k <= x)
        <4>1. j = n + 1
          BY <1>1, <3>1, <3>4
        <4>2. QED
          BY <1>5, <3>2, <3>4, <4>1
      <3>5. QED
        BY <3>3, <3>4
    <2>3. QED
      BY <2>1, <2>2
  <1>8. a \o d = e
    BY <1>6, <1>7
  <1>9. QED
    BY <1>8 DEF a, d, b, c, n, m, Begin, Ended

(* What it ends in.                                                        *)
LEMMA EndedIs ==
  ASSUME NEW C, C \in Seq(ToSet(C)), NEW x \in 1..Len(C), x < Len(C) => C[x + 1] = Semicolon
  PROVE  /\ x = Len(C) => Ended(C, x) = Append(C, Semicolon)
         /\ x < Len(C) => Ended(C, x) = Begin(C, x + 1)
         /\ x + 1 = Len(C) => Ended(C, x) = C
  <1>1. Len(C) \in Nat /\ C = [k \in 1..Len(C) |-> C[k]]
    OBVIOUS
  <1>2. ASSUME x = Len(C) PROVE Ended(C, x) = Append(C, Semicolon)
    <2> DEFINE D == Append(C, Semicolon)
               L == Len(C)
    <2>1. D \in Seq(ToSet(C) \cup {Semicolon}) /\ Len(D) = L + 1 /\ D[L + 1] = Semicolon
          /\ \A k \in 1..L : D[k] = C[k]
      OBVIOUS
    <2>2. L \in Nat
      BY <1>1
    <2>. HIDE DEF D, L
    <2>3. D = [k \in 1..(L + 1) |-> D[k]]
      BY <2>1
    <2>4. \A k \in 1..(L + 1) : D[k] = IF k <= L THEN C[k] ELSE Semicolon
      <3>1. \A k \in 1..(L + 1) : k \in 1..L \/ k = L + 1
        BY <2>2
      <3>2. \A k \in 1..L : k <= L
        BY <2>2
      <3>3. ~(L + 1 <= L)
        BY <2>2
      <3>4. QED
        BY <2>1, <3>1, <3>2, <3>3
    <2>5. D = Ended(C, L)
      BY <2>3, <2>4 DEF Ended
    <2>6. QED
      BY <1>2, <2>5 DEF D, L
  <1>3. ASSUME x < Len(C) PROVE Ended(C, x) = Begin(C, x + 1)
    <2>1. \A k \in 1..(x + 1) : k <= x \/ k = x + 1
      BY <1>1
    <2>2. QED
      BY <1>3, <2>1 DEF Ended, Begin
  <1>4. ASSUME x + 1 = Len(C) PROVE Ended(C, x) = C
    <2>1. x < Len(C) /\ Begin(C, x + 1) = [k \in 1..Len(C) |-> C[k]]
      BY <1>1, <1>4 DEF Begin
    <2>2. QED
      BY <1>1, <1>3, <2>1
  <1>5. QED
    BY <1>2, <1>3, <1>4

(* The last semicolon leaves statements and nodes where they are.          *)
LEMMA StatementsGrow ==
  ASSUME NEW C, C \in Seq(ToSet(C)), NEW stmts, StatementsOK(stmts, C), stmts # << >>,
         stmts[Len(stmts)].last = Len(C), NEW D, D = Append(C, Semicolon)
  PROVE  StatementsOK(stmts, D)
  <1> DEFINE L == Len(C)
             N == Len(stmts)
             f(i) == stmts[i].first
             l(i) == stmts[i].last
  <1>1. L \in Nat /\ Len(D) = L + 1 /\ D[L + 1] = Semicolon /\ \A k \in 1..L : D[k] = C[k]
    OBVIOUS
  <1>2. stmts \in Seq(ToSet(stmts)) /\ N \in Nat /\ DOMAIN stmts = 1..N
    BY DEF StatementsOK
  <1>3. \A i \in 1..N :
          /\ l(i) \in 1..L /\ f(i) \in 1..l(i)
          /\ f(i) = IF i = 1 THEN 1 ELSE l(i - 1) + 2
          /\ l(i) < L => C[l(i) + 1] = Semicolon
          /\ l(i) + 1 >= L <=> i = N
    BY <1>2 DEF StatementsOK
  <1>4. l(N) = L
    OBVIOUS
  <1>. HIDE DEF L, N, l, f
  <1>5. ASSUME NEW i \in 1..N
        PROVE  /\ l(i) \in 1..(L + 1) /\ f(i) \in 1..l(i)
               /\ l(i) < L + 1 => D[l(i) + 1] = Semicolon
               /\ l(i) + 1 >= L + 1 <=> i = N
    <2> DEFINE x == l(i)
    <2>1. x \in 1..L /\ f(i) \in 1..x /\ (x < L => C[x + 1] = Semicolon) /\ (x + 1 >= L <=> i = N)
      BY <1>3
    <2>2. i = N => x = L
      BY <1>4
    <2>. HIDE DEF x
    <2>3. x \in 1..(L + 1) /\ (x + 1 >= L + 1 <=> i = N)
      BY <1>1, <2>1, <2>2
    <2>4. x < L + 1 => D[x + 1] = Semicolon
      <3>1. CASE x < L
        <4>1. x + 1 \in 1..L
          BY <1>1, <2>1, <3>1
        <4>2. QED
          BY <1>1, <2>1, <3>1, <4>1
      <3>2. CASE x = L
        BY <1>1, <3>2
      <3>3. QED
        BY <1>1, <2>1, <3>1, <3>2
    <2>5. QED
      BY <2>1, <2>3, <2>4 DEF x
  <1>6. QED
    <2> DEFINE M == Len(D)
    <2>1. M = L + 1
      BY <1>1
    <2>. HIDE DEF M
    <2>2. \A i \in DOMAIN stmts :
            /\ l(i) \in 1..M /\ f(i) \in 1..l(i)
            /\ f(i) = IF i = 1 THEN 1 ELSE l(i - 1) + 2
            /\ l(i) < M => D[l(i) + 1] = Semicolon
            /\ l(i) + 1 >= M <=> i = N
      BY <1>2, <1>3, <1>5, <2>1
    <2>3. QED
      BY <1>2, <2>2 DEF StatementsOK, f, l, N, M

LEMMA NodesGrow ==
  ASSUME NEW C, NEW D, Len(C) \in Nat, Len(D) = Len(C) + 1, NEW nodes, NodesOK(nodes, C)
  PROVE  NodesOK(nodes, D)
  <1>1. nodes \in Seq(ToSet(nodes)) /\ \A i \in 1..Len(C) : i \in 1..Len(D)
    BY DEF NodesOK
  <1>2. QED
    BY <1>1 DEF NodesOK

LEMMA FormattedEnd ==
  ASSUME NEW P, NEW V, V = PieceSet(P), NEW c, c = << Semicolon, LineBreak >>
  PROVE  /\ c \in Seq(V) /\ Of(c, CodeSet(V)) = << Semicolon >> /\ Of(c, CommentSet(V)) = << >>
         /\ WordsApart(c) /\ c # << >> /\ c[1] = Semicolon /\ c[Len(c)] = LineBreak
  <1> DEFINE K == CodeSet(V)
             H == CommentSet(V)
             a == << Semicolon >>
             b == << LineBreak >>
  <1>1. Semicolon \in V /\ LineBreak \in V
    BY DEF PieceSet
  <1>2. /\ \A x \in V : x \in K <=> IsCode(x)
        /\ \A x \in V : x \in H <=> x.kind = "comment"
    BY DEF CodeSet, CommentSet
  <1>3. IsCode(Semicolon) /\ ~IsCode(LineBreak)
    BY PrintedPieces
  <1>4. Semicolon.kind # "comment" /\ LineBreak.kind # "comment"
    BY PrintedPieces
  <1>5. ~IsWord(LineBreak) /\ ~IsWord(Semicolon)
    BY PrintedPieces
  <1>. HIDE DEF K, H
  <1>6. c \in Seq(V) /\ a \in Seq(V) /\ b \in Seq(V) /\ c = a \o b /\ Len(c) = 2
    BY <1>1
  <1>7. Of(a, K) = a /\ Of(a, H) = << >>
    BY <1>1, <1>2, <1>3, <1>4, OfOne
  <1>8. Of(b, K) = << >> /\ Of(b, H) = << >>
    BY <1>1, <1>2, <1>3, <1>4, OfOne
  <1>9. Of(c, K) = a
    <2>1. Of(c, K) = Of(a, K) \o Of(b, K)
      <3>. HIDE DEF a, b
      <3> QED
        BY <1>6, OfTwo
    <2>2. a \o << >> = a
      BY <1>6
    <2>3. QED
      BY <1>7, <1>8, <2>1, <2>2
  <1>10. Of(c, H) = << >>
    <2>1. Of(c, H) = Of(a, H) \o Of(b, H)
      <3>. HIDE DEF a, b
      <3> QED
        BY <1>6, OfTwo
    <2>2. << >> \o << >> = << >>
      OBVIOUS
    <2>3. QED
      BY <1>7, <1>8, <2>1, <2>2
  <1>11. c[1] = Semicolon /\ c[2] = LineBreak /\ c # << >>
    OBVIOUS
  <1>12. WordsApart(c)
    <2>1. \A i \in 1..2 : i = 1 \/ i = 2
      OBVIOUS
    <2>2. QED
      BY <1>5, <1>6, <1>11, <2>1 DEF WordsApart
  <1>13. QED
    BY <1>6, <1>9, <1>10, <1>11, <1>12 DEF K, H

LEMMA ConcatLast ==
  ASSUME NEW V, NEW a \in Seq(V), NEW c \in Seq(V), c # << >>
  PROVE  a \o c \in Seq(V) /\ a \o c # << >> /\ (a \o c)[Len(a \o c)] = c[Len(c)]
  <1> DEFINE m == Len(a)
             n == Len(c)
             w == a \o c
  <1>1. m \in Nat /\ n \in Nat /\ n # 0 /\ w \in Seq(V) /\ Len(w) = m + n
        /\ \A k \in 1..n : w[m + k] = c[k]
    OBVIOUS
  <1>. HIDE DEF m, n, w
  <1>2. n \in 1..n /\ Len(w) # 0
    BY <1>1
  <1>3. w[Len(w)] = c[n] /\ w # << >>
    BY <1>1, <1>2
  <1>4. QED
    BY <1>1, <1>3 DEF m, n, w

Line(t, stmt) == formatStatement(t, stmt) \o << Semicolon, LineBreak >>

IsLine(W, P, stmt, V) ==
  /\ W \in Seq(V) /\ W # << >> /\ W[Len(W)] = LineBreak /\ WordsApart(W)
  /\ Of(W, CodeSet(V)) = Between(P, stmt.first, stmt.last) \o << Semicolon >>
  /\ Of(W, CommentSet(V)) = << >>

LEMMA FormattedLine ==
  ASSUME NEW P, PiecesOK(P), NEW syntax, NEW t, t = newLexer(syntax, P),
         NEW stmt, stmt.last \in 1..Len(Code(P)), stmt.first \in 1..(stmt.last)
  PROVE  IsLine(Line(t, stmt), P, stmt, PieceSet(P))
  <1> DEFINE V == PieceSet(P)
             W == Line(t, stmt)
             K == CodeSet(V)
             H == CommentSet(V)
             a == formatStatement(t, stmt)
             c == << Semicolon, LineBreak >>
  <1>1. a \in Seq(V) /\ a # << >> /\ WordsApart(a)
    BY FormattedStatement
  <1>2. Of(a, K) = Between(P, stmt.first, stmt.last)
    BY FormattedStatement
  <1>3. Of(a, H) = << >>
    BY FormattedStatement
  <1>4. c \in Seq(V) /\ Of(c, K) = << Semicolon >> /\ Of(c, H) = << >> /\ WordsApart(c)
        /\ c # << >> /\ c[1] = Semicolon /\ c[Len(c)] = LineBreak
    BY FormattedEnd
  <1>5. W = a \o c
    BY DEF Line
  <1>6. ~IsWord(Semicolon)
    BY PrintedPieces
  <1>. HIDE DEF a, c, K, H
  <1>7. W \in Seq(V) /\ W # << >> /\ W[Len(W)] = c[Len(c)]
    <2>1. a \in Seq(V) /\ c \in Seq(V) /\ c # << >>
      BY <1>1, <1>4
    <2>2. a \o c \in Seq(V) /\ a \o c # << >> /\ (a \o c)[Len(a \o c)] = c[Len(c)]
      BY <2>1, ConcatLast
    <2>3. QED
      BY <1>5, <2>2
  <1>13. a \in Seq(V) /\ c \in Seq(V)
    BY <1>1, <1>4
  <1>8. Of(W, K) = Of(a, K) \o Of(c, K)
    <2>1. Of(a \o c, K) = Of(a, K) \o Of(c, K)
      BY <1>13, OfTwo
    <2>2. QED
      BY <1>5, <2>1
  <1>9. Of(W, H) = Of(a, H) \o Of(c, H)
    <2>1. Of(a \o c, H) = Of(a, H) \o Of(c, H)
      BY <1>13, OfTwo
    <2>2. QED
      BY <1>5, <2>1
  <1>10. Of(W, H) = << >>
    <2>1. << >> \o << >> = << >>
      OBVIOUS
    <2>2. QED
      BY <1>3, <1>4, <1>9, <2>1
  <1>11. WordsApart(W)
    <2> DEFINE x == a[Len(a)]
               y == c[1]
    <2>1. ~IsWord(y) /\ x = a[Len(a)] /\ y = c[1]
      BY <1>4, <1>6
    <2>. HIDE DEF x, y
    <2>2. QED
      BY <1>1, <1>4, <1>5, <2>1, ConcatApart
  <1>12. QED
    BY <1>2, <1>4, <1>7, <1>8, <1>10, <1>11 DEF K, H, W, V, IsLine

LEMMA FormattedText ==
  ASSUME NEW P, PiecesOK(P), NEW syntax, NEW t, t = newLexer(syntax, P),
         NEW stmts, StatementsOK(stmts, Code(P)), NEW N, N = Len(stmts), N > 0,
         NEW V, V = PieceSet(P), NEW seqs,
         seqs = [i \in 1..N |-> Line(t, stmts[i])], NEW W, W = FlattenSeq(seqs)
  PROVE  /\ W \in Seq(V) /\ WordsApart(W)
         /\ Of(W, CodeSet(V)) = Ended(Code(P), stmts[N].last)
         /\ Of(W, CommentSet(V)) = << >>
  <1> DEFINE C == Code(P)
             L == Len(C)
             K == CodeSet(V)
             H == CommentSet(V)
             f(i) == stmts[i].first
             l(i) == stmts[i].last
  <1>1. L \in Nat /\ C \in Seq(ToSet(P))
    BY CodeIs
  <1>2. /\ N \in Nat /\ N \in 0..N
        /\ \A i \in 1..N : /\ l(i) \in 1..L /\ f(i) \in 1..l(i)
                           /\ f(i) = IF i = 1 THEN 1 ELSE l(i - 1) + 2
                           /\ l(i) < L => C[l(i) + 1] = Semicolon
    <2>1. stmts \in Seq(ToSet(stmts))
      BY DEF StatementsOK
    <2>2. N \in Nat /\ N \in 0..N /\ DOMAIN stmts = 1..N
      BY <2>1
    <2>3. QED
      BY <2>2 DEF StatementsOK
  <1>. HIDE DEF C, L, K, H, f, l
  <1>3. ASSUME NEW i \in 1..N
        PROVE  /\ seqs[i] \in Seq(V) /\ seqs[i] # << >> /\ seqs[i][Len(seqs[i])] = LineBreak
               /\ WordsApart(seqs[i])
               /\ Of(seqs[i], K) = Between(P, f(i), l(i)) \o << Semicolon >>
               /\ Of(seqs[i], H) = << >>
    <2> DEFINE stmt == stmts[i]
    <2>1. stmt.last \in 1..Len(Code(P)) /\ stmt.first \in 1..(stmt.last)
      BY <1>2 DEF f, l, C, L
    <2>2. seqs[i] = Line(t, stmt)
      OBVIOUS
    <2>. HIDE DEF stmt
    <2>3. IsLine(Line(t, stmt), P, stmt, PieceSet(P))
      BY <2>1, FormattedLine
    <2>4. IsLine(seqs[i], P, stmt, V)
      BY <2>2, <2>3
    <2>5. QED
      BY <2>4 DEF stmt, f, l, K, H, IsLine
  <1>4. seqs \in [1..N -> Seq(V)]
    <2>1. \A i \in 1..N : seqs[i] \in Seq(V)
      BY <1>3
    <2>2. QED
      BY <2>1
  <1>5. PICK F : Accumulates(F, N, V, seqs) /\ W = F[N]
    <2>1. \E F : Accumulates(F, N, V, seqs) /\ FlattenSeq(seqs) = F[N]
      <3>1. N \in Nat
        BY <1>2
      <3>2. QED
        BY <1>4, <3>1, Flattening, ZenonT(60)
    <2>2. QED
      BY <2>1
  <1>6. /\ F \in [0..N -> Seq(V)] /\ F[0] = << >>
        /\ \A n \in 1..N : F[n] = F[n - 1] \o seqs[n]
    BY <1>5 DEF Accumulates
  <1> DEFINE Good(n) == /\ WordsApart(F[n]) /\ Of(F[n], H) = << >>
                        /\ n > 0 => /\ Of(F[n], K) = Ended(C, l(n)) /\ F[n] # << >>
                                    /\ F[n][Len(F[n])] = LineBreak
                        /\ n = 0 => Of(F[n], K) = << >>
             T == {n \in 0..N : Good(n)}
  <1>7. 0 \in T
    <2>1. WordsApart(<< >>)
      BY DEF WordsApart
    <2>2. Of(<< >>, H) = << >> /\ Of(<< >>, K) = << >>
      BY OfNothing
    <2>3. QED
      BY <1>2, <1>6, <2>1, <2>2
  <1>8. ASSUME NEW n \in 1..N, n - 1 \in T PROVE n \in T
    <2> DEFINE a == F[n - 1]
               b == seqs[n]
    <2>1. n - 1 \in 0..N /\ n \in 0..N /\ n > 0 /\ n - 1 \in Nat
      BY <1>2
    <2>2. a \in Seq(V) /\ b \in Seq(V) /\ F[n] = a \o b
      BY <1>3, <1>6, <2>1
    <2>3. b # << >> /\ b[Len(b)] = LineBreak /\ WordsApart(b) /\ Of(b, H) = << >>
          /\ Of(b, K) = Between(P, f(n), l(n)) \o << Semicolon >>
      BY <1>3
    <2>4. Good(n - 1)
      BY <1>8
    <2>. HIDE DEF a, b
    <2>5. F[n] # << >> /\ F[n][Len(F[n])] = LineBreak
      <3>1. a \o b # << >> /\ (a \o b)[Len(a \o b)] = b[Len(b)]
        BY <2>2, <2>3, ConcatLast
      <3>2. QED
        BY <2>2, <2>3, <3>1
    <2>6. Of(F[n], H) = << >>
      <3>1. Of(F[n], H) = Of(a, H) \o Of(b, H)
        BY <2>2, OfTwo
      <3>2. << >> \o << >> = << >>
        OBVIOUS
      <3>3. QED
        BY <2>3, <2>4, <3>1, <3>2 DEF a
    <2>7. WordsApart(F[n])
      <3> DEFINE x == LineBreak
                 y == b[1]
      <3>1. a # << >> => x = a[Len(a)]
        <4>1. n - 1 = 0 => a = << >>
          BY <1>6 DEF a
        <4>2. n - 1 > 0 => a[Len(a)] = LineBreak
          BY <2>4 DEF a
        <4>3. QED
          BY <2>1, <4>1, <4>2
      <3>2. EndsApart(x) /\ y = b[1] /\ WordsApart(a)
        BY <2>4, PrintedPieces DEF a
      <3>. HIDE DEF x, y
      <3>3. QED
        BY <2>2, <2>3, <3>1, <3>2, ConcatApart
    <2>8. Of(a, K) = Begin(C, f(n) - 1)
      <3>1. CASE n = 1
        <4>1. f(n) - 1 = 0 /\ n - 1 = 0
          BY <1>2, <3>1
        <4>2. Of(a, K) = << >>
          BY <2>4, <4>1 DEF a
        <4>3. Begin(C, 0) = << >>
          BY DEF Begin
        <4>4. QED
          BY <4>1, <4>2, <4>3
      <3>2. CASE n # 1
        <4>1. n - 1 \in 1..N /\ n - 1 > 0
          BY <1>2, <3>2
        <4> DEFINE y == l(n - 1)
                   g == f(n)
        <4>2. y \in 1..L /\ (y < L => C[y + 1] = Semicolon)
          BY <1>2, <4>1
        <4>3. g = y + 2 /\ g \in 1..l(n) /\ l(n) \in 1..L
          BY <1>2, <3>2
        <4>4. Of(a, K) = Ended(C, y)
          BY <2>4, <4>1 DEF a
        <4>. HIDE DEF y, g
        <4>5. y < L /\ g - 1 = y + 1
          BY <1>1, <4>2, <4>3
        <4>6. Ended(C, y) = Begin(C, y + 1)
          <5>1. \A k \in 1..(y + 1) : k <= y \/ k = y + 1
            BY <1>1, <4>2
          <5>2. QED
            BY <4>2, <4>5, <5>1 DEF Ended, Begin
        <4>7. QED
          BY <4>4, <4>5, <4>6 DEF g
      <3>3. QED
        BY <3>1, <3>2
    <2>9. Of(F[n], K) = Ended(C, l(n))
      <3>1. Of(F[n], K) = Of(a, K) \o Of(b, K)
        BY <2>2, OfTwo
      <3>2. Of(b, K) = [k \in 1..(l(n) - f(n) + 1) |-> C[f(n) + k - 1]] \o << Semicolon >>
        BY <2>3 DEF Between, C
      <3> DEFINE x == l(n)
                 g == f(n)
      <3>3. x \in 1..L /\ g \in 1..x
        BY <1>2
      <3>. HIDE DEF x, g
      <3>4. Begin(C, g - 1) \o ([k \in 1..(x - g + 1) |-> C[g + k - 1]] \o << Semicolon >>)
              = Ended(C, x)
        BY <1>1, <3>3, EndedBy DEF L
      <3>5. QED
        BY <2>8, <3>1, <3>2, <3>4 DEF x, g
    <2>10. QED
      BY <2>1, <2>5, <2>6, <2>7, <2>9
  <1>9. \A n \in 1..N : n - 1 \in T => n \in T
    BY <1>8
  <1>10. N \in T
    <2>1. \A n \in 0..N : n \in T
      <3>. HIDE DEF T
      <3> QED
        BY <1>2, <1>7, <1>9, UpTo
    <2>2. QED
      BY <1>2, <2>1
  <1>11. W \in Seq(V)
    BY <1>2, <1>5, <1>6
  <1>12. QED
    BY <1>5, <1>10, <1>11 DEF K, H, C, l

(* An edit of the whole text.                                              *)
LEMMA WholeText ==
  ASSUME NEW V, NEW P \in Seq(V), P # << >>, NEW W \in Seq(V), NEW s,
         s.first = 1, s.last = Len(P), s.new = W
  PROVE  Replaced(P, {s}) = W
  <1> DEFINE M == Len(P)
             S == {s}
  <1>1. M \in Nat /\ M > 0 /\ 1 \in 1..M /\ M \in 1..M /\ M \in 0..M
    <2>1. M \in Nat /\ M # 0
      OBVIOUS
    <2>. HIDE DEF M
    <2>2. QED
      BY <2>1
  <1>2. AreSpans(S, M, V)
    <2>. HIDE DEF M
    <2>1. s.first \in 1..M /\ s.last \in (s.first)..M /\ s.new \in Seq(V)
      BY <1>1 DEF M
    <2>2. QED
      BY <2>1 DEF AreSpans
  <1>3. PICK F : Replaces(F, P, S, V) /\ Replaced(P, S) = F[M]
    BY <1>2, ReplacedSteps
  <1>4. /\ F \in [0..M -> Seq(V)] /\ F[0] = << >>
        /\ \A n \in 1..M : /\ 1 = n => F[n] = F[n - 1] \o W
                           /\ 1 < n /\ n <= M => F[n] = F[n - 1]
    BY <1>3 DEF Replaces
  <1>. HIDE DEF M, S
  <1> DEFINE T == {n \in 0..M : n = 0 \/ F[n] = W}
  <1>5. 0 \in T
    BY <1>1
  <1>6. ASSUME NEW n \in 1..M, n - 1 \in T PROVE n \in T
    <2>1. n \in 0..M
      BY <1>1
    <2>2. CASE n = 1
      <3>1. n - 1 = 0 /\ F[n] = F[n - 1] \o W
        BY <1>4, <2>2
      <3>2. << >> \o W = W
        OBVIOUS
      <3>3. QED
        BY <1>4, <2>1, <3>1, <3>2
    <2>3. CASE n # 1
      <3>1. 1 < n /\ n <= M /\ n - 1 # 0
        BY <1>1, <2>3
      <3>2. F[n] = F[n - 1]
        BY <1>4, <3>1
      <3>3. QED
        BY <1>6, <2>1, <3>1, <3>2
    <2>4. QED
      BY <2>2, <2>3
  <1>7. \A n \in 1..M : n - 1 \in T => n \in T
    BY <1>6
  <1>8. \A n \in 0..M : n \in T
    <2>. HIDE DEF T
    <2> QED
      BY <1>1, <1>5, <1>7, UpTo
  <1>9. F[M] = W
    BY <1>1, <1>8
  <1>10. QED
    BY <1>3, <1>9 DEF S

FormattedOf(t, stmts) == FlattenSeq([i \in DOMAIN stmts |-> Line(t, stmts[i])])

LEMMA FormattingIs ==
  ASSUME NEW t, NEW stmts, stmts = ParseStatements(t), NEW whole,
         whole = [start |-> [line |-> 0, character |-> 0], end |-> documentEndPosition(t)]
  PROVE  /\ stmts = << >> \/ FormattedOf(t, stmts) = t.pieces => Formatting(t) = << >>
         /\ Formatting(t) # << >> =>
              /\ Formatting(t) = << [range |-> whole, new |-> FormattedOf(t, stmts)] >>
              /\ stmts # << >> /\ t.comments = << >>
  <1> DEFINE seqs == [i \in DOMAIN stmts |->
                        formatStatement(t, stmts[i]) \o << Semicolon, LineBreak >>]
             W == FlattenSeq(seqs)
             edit == << [range |-> whole, new |-> W] >>
  <1>1. Formatting(t) = IF \/ documentHasComments(t) \/ stmts = << >>
                           \/ \E i \in DOMAIN stmts : ~stmts[i].sql
                           \/ W = t.pieces
                        THEN << >> ELSE edit
    BY DEF Formatting
  <1>2. W = FormattedOf(t, stmts)
    BY DEF FormattedOf, Line
  <1>. HIDE DEF edit, W
  <1>3. QED
    BY <1>1, <1>2 DEF edit, documentHasComments

(* The text after Formatting.                                              *)
LEMMA DocumentText ==
  ASSUME NEW P, PiecesOK(P), NEW syntax, NEW t, t = newLexer(syntax, P),
         NEW stmts, stmts = ParseStatements(t), StatementsOK(stmts, Code(P)),
         NEW edits, edits = Formatting(t), edits # << >>,
         NEW W, W = FormattedOf(t, stmts)
  PROVE  Applied(P, edits) = W
  <1> DEFINE M == Len(P)
             V == PieceSet(P)
             N == Len(stmts)
             whole == [start |-> [line |-> 0, character |-> 0], end |-> documentEndPosition(t)]
             e == [range |-> whole, new |-> W]
  <1>1. edits = << e >> /\ stmts # << >>
    <2>1. whole = [start |-> [line |-> 0, character |-> 0], end |-> documentEndPosition(t)]
      OBVIOUS
    <2>. HIDE DEF whole
    <2>2. QED
      BY <2>1, FormattingIs
  <1>2. N \in Nat /\ N > 0 /\ DOMAIN stmts = 1..N
    <2>1. stmts \in Seq(ToSet(stmts))
      BY DEF StatementsOK
    <2>2. QED
      BY <1>1, <2>1
  <1>3. M \in Nat /\ M > 0 /\ P \in Seq(V)
    <2>1. Len(Code(P)) \in Nat
      BY CodeIs
    <2>2. \A i \in 1..Len(stmts) : stmts[i].first \in 1..Len(Code(P))
      BY <2>1, StatementsAre
    <2>3. 1 \in 1..N
      BY <1>2
    <2>4. stmts[1].first \in 1..Len(Code(P))
      BY <2>2, <2>3
    <2>5. CodeAt(P)[stmts[1].first] \in 1..Len(P)
      BY <2>4, CodePieces
    <2>6. M \in Nat /\ P \in Seq(V)
      BY PiecesAre, WordsOf
    <2>. HIDE DEF M
    <2>7. M > 0
      BY <2>5, <2>6 DEF M
    <2>8. QED
      BY <2>6, <2>7
  <1>4. W \in Seq(V)
    <2> DEFINE seqs == [i \in 1..N |-> Line(t, stmts[i])]
    <2>1. W = FlattenSeq(seqs)
      BY <1>2 DEF FormattedOf
    <2>2. seqs = [i \in 1..N |-> Line(t, stmts[i])]
      OBVIOUS
    <2>. HIDE DEF seqs
    <2>3. QED
      BY <1>2, <2>1, <2>2, FormattedText
  <1>5. t.index = newTextIndex(Runes(P))
    BY LexerIs
  <1>6. whole = Span(P, 1, M)
    <2>1. 0 \in 0..M /\ M \in 0..M
      BY <1>3
    <2>2. position(t.index, ByteEnd(P, M)) = Place(P, M)
      BY <1>5, <2>1, ByteEnds
    <2>3. Size(t.index) = ByteEnd(P, M)
      <3>1. Len(Runes(P)) = Ends(P)[M]
        BY RunesAre
      <3>2. t.index.bytes = Sizes(Bytes, Runes(P)) /\ t.index.runes = Runes(P)
        BY <1>5 DEF newTextIndex
      <3>3. QED
        BY <3>1, <3>2 DEF Size, ByteEnd
    <2>4. Place(P, 0) = [line |-> 0, character |-> 0]
      <3>1. Ends(P)[0] = 0 /\ Runes(P) \in Seq(DOMAIN Bytes)
        BY EndsAre, RunesAre
      <3>2. EditorPositions(Runes(P))[0] = [line |-> 0, character |-> 0]
        BY <3>1, PositionsAdvance
      <3>3. QED
        BY <3>1, <3>2 DEF Place
    <2>5. 1 - 1 = 0
      OBVIOUS
    <2>6. QED
      BY <2>2, <2>3, <2>4, <2>5 DEF documentEndPosition, Span
  <1>7. SpanOf(P, e).first = 1 /\ SpanOf(P, e).last = M /\ SpanOf(P, e).new = W
    <2>1. 1 \in 1..M /\ M \in 1..M
      BY <1>3
    <2>2. FirstOf(P, Span(P, 1, M).start) = 1 /\ LastOf(P, Span(P, 1, M).end) = M
      BY <2>1, SpanFrom
    <2>. HIDE DEF M, whole
    <2>3. QED
      BY <1>6, <2>2 DEF SpanOf
  <1>8. SpansOf(P, edits) = {SpanOf(P, e)}
    <2>. HIDE DEF e
    <2>1. ToSet(<< e >>) = {e}
      BY DEF ToSet
    <2>2. QED
      BY <1>1, <2>1 DEF SpansOf
  <1>9. P # << >>
    BY <1>3
  <1>10. Applied(P, edits) = Replaced(P, SpansOf(P, edits))
    BY AppliedIs
  <1> DEFINE s == SpanOf(P, e)
  <1>. HIDE DEF s, e, V
  <1>11. Replaced(P, {s}) = W
    BY <1>3, <1>4, <1>7, <1>9, WholeText DEF s
  <1>12. QED
    BY <1>8, <1>10, <1>11 DEF s

(* What is printed of a statement depends on its tokens only.              *)
LEMMA TokenPieces ==
  ASSUME NEW P, PiecesOK(P), NEW syntax, NEW t, t = newLexer(syntax, P), NEW k \in 1..Len(Code(P))
  PROVE  t.tokens[k].piece = Code(P)[k]
  <1>1. Len(Code(P)) = Len(CodeAt(P)) /\ Code(P) = [j \in 1..Len(CodeAt(P)) |-> P[CodeAt(P)[j]]]
    BY CodeIs
  <1>2. t.tokens = [j \in 1..Len(CodeAt(P)) |-> Placed(P, CodeAt(P)[j])]
    BY LexerIs DEF TokensOf
  <1>3. k \in 1..Len(CodeAt(P))
    BY <1>1
  <1>4. t.tokens[k] = Placed(P, CodeAt(P)[k]) /\ Code(P)[k] = P[CodeAt(P)[k]]
    BY <1>1, <1>2, <1>3
  <1>5. QED
    BY <1>4 DEF Placed

LEMMA FormatSame ==
  ASSUME NEW P, PiecesOK(P), NEW R, PiecesOK(R), NEW syntax, NEW t, t = newLexer(syntax, P),
         NEW u, u = newLexer(syntax, R), NEW stmt, stmt.last \in Nat, stmt.first \in Nat \ {0},
         \A k \in 1..(stmt.last) : /\ k \in 1..Len(Code(P)) /\ k \in 1..Len(Code(R))
                                   /\ Code(P)[k] = Code(R)[k]
  PROVE  formatStatement(u, stmt) = formatStatement(t, stmt)
  <1> DEFINE first == stmt.first
             last == stmt.last
             n == last - first + 1
  <1>1. ASSUME NEW k \in 1..n
        PROVE  t.tokens[first + k - 1].piece = u.tokens[first + k - 1].piece
    <2> DEFINE j == first + k - 1
    <2>1. j \in 1..last
      <3>1. first \in Nat \ {0} /\ last \in Nat
        OBVIOUS
      <3>. HIDE DEF first, last
      <3>2. QED
        BY <3>1
    <2>. HIDE DEF j, n, first
    <2>2. j \in 1..Len(Code(P)) /\ j \in 1..Len(Code(R)) /\ Code(P)[j] = Code(R)[j]
      BY <2>1
    <2>3. t.tokens[j].piece = Code(P)[j]
      BY <2>2, TokenPieces
    <2>4. u.tokens[j].piece = Code(R)[j]
      BY <2>2, TokenPieces
    <2>5. QED
      BY <2>2, <2>3, <2>4 DEF j
  <1> DEFINE seq(x) == [k \in 1..n |-> (IF k = 1 THEN << >> ELSE << Space >>)
                                         \o << x.tokens[first + k - 1].piece >>]
  <1>2. seq(u) = seq(t)
    <2>. HIDE DEF n, first
    <2> QED
      BY <1>1
  <1>3. formatStatement(u, stmt) = FlattenSeq(seq(u)) /\ formatStatement(t, stmt) = FlattenSeq(seq(t))
    BY DEF formatStatement
  <1>. HIDE DEF seq
  <1>4. QED
    BY <1>2, <1>3

(* Formatting a document keeps its tokens, adds the last semicolon at most, *)
(* and has nothing to do on what it made.                                  *)
LEMMA DocumentKeeps ==
  ASSUME NEW P, PiecesOK(P), NEW syntax, NEW t, t = newLexer(syntax, P),
         NEW stmts, stmts = Syntax[syntax].statements, StatementsOK(stmts, Code(P)),
         NEW edits, edits = Formatting(t), edits # << >>, NEW R, R = Applied(P, edits)
  PROVE  /\ PiecesOK(R) /\ Comments(R) = Comments(P) /\ StatementsOK(stmts, Code(R))
         /\ Code(R) = Code(P) \/ Code(R) = Append(Code(P), Semicolon)
         /\ Formatting(newLexer(syntax, R)) = << >>
  <1> DEFINE C == Code(P)
             L == Len(C)
             V == PieceSet(P)
             N == Len(stmts)
             W == FormattedOf(t, stmts)
             x == stmts[N].last
             whole == [start |-> [line |-> 0, character |-> 0], end |-> documentEndPosition(t)]
  <1>1. C \in Seq(ToSet(P)) /\ L \in Nat
    BY CodeIs
  <1>2. t.syntax = syntax /\ t.comments = CommentsOf(P)
    BY LexerIs
  <1>3. ParseStatements(t) = stmts /\ stmts # << >> /\ t.comments = << >>
    <2> DEFINE parsed == ParseStatements(t)
    <2>1. parsed = << >> \/ parsed = stmts
      BY <1>2 DEF ParseStatements
    <2>2. parsed = ParseStatements(t)
      OBVIOUS
    <2>3. whole = [start |-> [line |-> 0, character |-> 0], end |-> documentEndPosition(t)]
      OBVIOUS
    <2>. HIDE DEF parsed, whole
    <2>4. parsed # << >> /\ t.comments = << >>
      BY <2>2, <2>3, FormattingIs
    <2>5. QED
      BY <2>1, <2>2, <2>4
  <1>4. R = W
    <2>. HIDE DEF W
    <2> QED
      BY <1>3, DocumentText DEF W
  <1>5. N \in Nat /\ N > 0 /\ DOMAIN stmts = 1..N
    <2>1. stmts \in Seq(ToSet(stmts))
      BY DEF StatementsOK
    <2>2. QED
      BY <1>3, <2>1
  <1>6. /\ R \in Seq(V) /\ WordsApart(R) /\ Of(R, CodeSet(V)) = Ended(C, x)
        /\ Of(R, CommentSet(V)) = << >>
    <2> DEFINE seqs == [i \in 1..N |-> Line(t, stmts[i])]
    <2>1. W = FlattenSeq(seqs)
      BY <1>5 DEF FormattedOf
    <2>2. seqs = [i \in 1..N |-> Line(t, stmts[i])]
      OBVIOUS
    <2>. HIDE DEF seqs, W, V, N
    <2>3. R = FlattenSeq(seqs) /\ N = Len(stmts) /\ V = PieceSet(P)
      BY <1>4, <2>1 DEF N, V
    <2>4. QED
      BY <1>5, <2>2, <2>3, FormattedText
  <1>7. PiecesOK(R)
    BY <1>6, PiecesKept
  <1>8. Code(R) = Ended(C, x) /\ Comments(R) = << >>
    <2>. HIDE DEF V
    <2> QED
      BY <1>6, CodeOf
  <1>9. Comments(P) = << >>
    <2>1. Len(CommentsAt(P)) = 0
      <3>1. Len(CommentsOf(P)) = 0
        BY <1>2, <1>3
      <3>2. Len(CommentsAt(P)) \in Nat
        BY CodeIs DEF Lists
      <3>3. QED
        BY <3>1, <3>2 DEF CommentsOf
    <2>2. Len(Comments(P)) = 0 /\ Comments(P) \in Seq(ToSet(P))
      BY <2>1, CodeIs
    <2>3. QED
      BY <2>2
  <1>10. /\ x \in 1..L /\ (x < L => C[x + 1] = Semicolon) /\ x + 1 >= L
         /\ \A i \in 1..N : stmts[i].last \in 1..L /\ stmts[i].first \in 1..(stmts[i].last)
    <2>. HIDE DEF N, C
    <2>1. N \in 1..N
      BY <1>5
    <2>2. /\ stmts[N].last \in 1..Len(C)
          /\ stmts[N].last < Len(C) => C[stmts[N].last + 1] = Semicolon
          /\ stmts[N].last + 1 >= Len(C)
      BY <1>5, <2>1 DEF StatementsOK, N, C
    <2>3. \A i \in 1..N : stmts[i].last \in 1..L /\ stmts[i].first \in 1..(stmts[i].last)
      BY <1>5 DEF StatementsOK, C
    <2>4. QED
      BY <2>2, <2>3
  <1>11. C \in Seq(ToSet(C))
    BY <1>1 DEF ToSet
  <1>12. /\ x = L => Code(R) = Append(C, Semicolon)
         /\ x + 1 = L => Code(R) = C
         /\ x = L \/ x + 1 = L
    <2>. HIDE DEF C, x
    <2>1. x = L => Ended(C, x) = Append(C, Semicolon)
      BY <1>10, <1>11, EndedIs
    <2>2. x + 1 = L => Ended(C, x) = C
      BY <1>10, <1>11, EndedIs
    <2>3. x = L \/ x + 1 = L
      BY <1>1, <1>10
    <2>4. QED
      BY <1>8, <2>1, <2>2, <2>3
  <1>13. StatementsOK(stmts, Code(R))
    <2>1. CASE x = L
      <3> DEFINE D == Code(R)
      <3>1. D = Append(C, Semicolon)
        BY <1>12, <2>1
      <3>2. stmts[Len(stmts)].last = Len(C)
        BY <2>1
      <3>. HIDE DEF D, C
      <3>3. QED
        BY <1>3, <1>11, <3>1, <3>2, StatementsGrow DEF C, D
    <2>2. CASE x + 1 = L
      BY <1>12, <2>2
    <2>3. QED
      BY <1>12, <2>1, <2>2
  <1>14. \A k \in 1..L : k \in 1..Len(Code(R)) /\ C[k] = Code(R)[k]
    <2>1. ASSUME NEW D, D = Append(C, Semicolon), NEW k \in 1..L
          PROVE  k \in 1..Len(D) /\ C[k] = D[k]
      <3>. HIDE DEF C
      <3>1. Len(D) = L + 1 /\ \A j \in 1..L : D[j] = C[j]
        BY <1>11, <2>1
      <3>. HIDE DEF L
      <3>2. QED
        BY <1>1, <2>1, <3>1
    <2>2. CASE Code(R) = C
      BY <2>2
    <2>3. CASE Code(R) = Append(C, Semicolon)
      BY <2>1, <2>3
    <2>4. QED
      BY <1>12, <2>2, <2>3
  <1> DEFINE u == newLexer(syntax, R)
  <1>15. u.pieces = R /\ u.syntax = syntax
    BY <1>7, LexerIs
  <1>16. FormattedOf(u, stmts) = R
    <2>1. ASSUME NEW i \in 1..N PROVE Line(u, stmts[i]) = Line(t, stmts[i])
      <3> DEFINE stmt == stmts[i]
      <3>1. stmt.last \in 1..L /\ stmt.first \in 1..(stmt.last)
        BY <1>10
      <3>2. u = newLexer(syntax, R)
        OBVIOUS
      <3>. HIDE DEF stmt, u, C, L, N
      <3>3. stmt.last \in Nat /\ stmt.first \in Nat \ {0}
        BY <1>1, <3>1
      <3>4. \A k \in 1..(stmt.last) : k \in 1..L
        BY <1>1, <3>1
      <3>5. \A k \in 1..(stmt.last) : /\ k \in 1..Len(Code(P)) /\ k \in 1..Len(Code(R))
                                      /\ Code(P)[k] = Code(R)[k]
        BY <1>14, <3>4 DEF L, C
      <3>6. formatStatement(u, stmt) = formatStatement(t, stmt)
        BY <1>7, <3>2, <3>3, <3>5, FormatSame
      <3>7. QED
        BY <3>6 DEF Line, stmt
    <2>. HIDE DEF u
    <2>2. FormattedOf(u, stmts) = FormattedOf(t, stmts)
      BY <1>5, <2>1 DEF FormattedOf
    <2>3. QED
      BY <1>4, <2>2
  <1>17. Formatting(u) = << >>
    <2> DEFINE parsed == ParseStatements(u)
               end == [start |-> [line |-> 0, character |-> 0], end |-> documentEndPosition(u)]
    <2>1. parsed = << >> \/ parsed = stmts
      BY <1>15 DEF ParseStatements
    <2>2. parsed = ParseStatements(u)
      OBVIOUS
    <2>3. end = [start |-> [line |-> 0, character |-> 0], end |-> documentEndPosition(u)]
      OBVIOUS
    <2>. HIDE DEF parsed, end, u
    <2>4. parsed = << >> \/ FormattedOf(u, parsed) = u.pieces => Formatting(u) = << >>
      BY <2>2, <2>3, FormattingIs
    <2>5. QED
      BY <1>15, <1>16, <2>1, <2>4
  <1>18. QED
    BY <1>7, <1>8, <1>9, <1>12, <1>13, <1>17

------------------------------------------------------------------------------
(* Sessions.  A text is what newLexer makes of its pieces, and memefish    *)
(* finds its statements and nodes in it: no edit changes that.             *)
TextSound(syntax, P) ==
  /\ PiecesOK(P)
  /\ StatementsOK(Syntax[syntax].statements, Code(P))
  /\ NodesOK(Syntax[syntax].nodes, Code(P))

TextInv == text = newLexer(text.syntax, text.pieces) /\ TextSound(text.syntax, text.pieces)

LEMMA TextStarts == Init => TextInv
  <1>1. SUFFICES ASSUME Init PROVE TextInv
    OBVIOUS
  <1>2. PICK d \in Documents : text = newLexer(d.syntax, d.pieces)
    BY <1>1 DEF Init
  <1>3. /\ PiecesOK(d.pieces)
        /\ StatementsOK(Syntax[d.syntax].statements, Code(d.pieces))
        /\ NodesOK(Syntax[d.syntax].nodes, Code(d.pieces))
    BY DocumentsAssumption
  <1>4. text.syntax = d.syntax /\ text.pieces = d.pieces
    BY <1>2, <1>3, LexerIs
  <1>5. QED
    BY <1>2, <1>3, <1>4 DEF TextInv, TextSound

LEMMA TextParsed ==
  ASSUME TextInv, NEW stmts, stmts = ParseStatements(text)
  PROVE  /\ StatementsOK(stmts, Code(text.pieces))
         /\ ToSet(stmts) \subseteq ToSet(Syntax[text.syntax].statements)
  <1>1. StatementsOK(Syntax[text.syntax].statements, Code(text.pieces))
    BY DEF TextInv, TextSound
  <1>2. Len(Code(text.pieces)) \in Nat
    BY CodeIs DEF TextInv, TextSound
  <1>3. QED
    BY <1>1, <1>2, Parsed

(* A step that edits statements.                                           *)
LEMMA StatementsStep ==
  ASSUME TextInv, NEW edits, \A e \in ToSet(edits) : IsStatementEdit(text, ParseStatements(text), e),
         NEW request, Format(request, edits)
  PROVE  /\ TextInv' /\ asked'.last = request
         /\ Code(text'.pieces) = Code(text.pieces) /\ Comments(text'.pieces) = Comments(text.pieces)
  <1> DEFINE P == text.pieces
             syntax == text.syntax
             stmts == ParseStatements(text)
             R == Applied(P, edits)
  <1>1. /\ text = newLexer(syntax, P) /\ PiecesOK(P)
        /\ StatementsOK(Syntax[syntax].statements, Code(P))
        /\ NodesOK(Syntax[syntax].nodes, Code(P))
    BY DEF TextInv, TextSound
  <1>2. StatementsOK(stmts, Code(P))
    BY TextParsed
  <1>3. text' = newLexer(syntax, R) /\ asked'.last = request
    BY DEF Format
  <1>. HIDE DEF P, syntax, stmts, R
  <1>4. PiecesOK(R) /\ Code(R) = Code(P) /\ Comments(R) = Comments(P)
    BY <1>1, <1>2, StatementEditsKeep DEF stmts, R
  <1>5. text'.syntax = syntax /\ text'.pieces = R
    BY <1>3, <1>4, LexerIs
  <1>6. TextSound(syntax, R)
    BY <1>1, <1>4 DEF TextSound
  <1>7. TextInv'
    BY <1>3, <1>5, <1>6 DEF TextInv
  <1>8. QED
    BY <1>3, <1>4, <1>5, <1>7 DEF P

LEMMA DocumentStep ==
  ASSUME TextInv, FormatDocument
  PROVE  /\ TextInv' /\ Comments(text'.pieces) = Comments(text.pieces)
         /\ Code(text'.pieces) \in {Code(text.pieces), Append(Code(text.pieces), Semicolon)}
         /\ Formatting(text') = << >>
  <1> DEFINE P == text.pieces
             syntax == text.syntax
             stmts == Syntax[syntax].statements
             nodes == Syntax[syntax].nodes
             edits == Formatting(text)
             R == Applied(P, edits)
  <1>1. /\ text = newLexer(syntax, P) /\ PiecesOK(P)
        /\ StatementsOK(stmts, Code(P)) /\ NodesOK(nodes, Code(P))
    BY DEF TextInv, TextSound
  <1>2. text' = newLexer(syntax, R) /\ edits # << >>
    BY DEF FormatDocument, Format
  <1>3. stmts = Syntax[syntax].statements /\ edits = Formatting(text) /\ R = Applied(P, edits)
    OBVIOUS
  <1>. HIDE DEF P, syntax, stmts, nodes, R, edits
  <1>4. PiecesOK(R) /\ Comments(R) = Comments(P) /\ StatementsOK(stmts, Code(R))
    BY <1>1, <1>2, <1>3, DocumentKeeps
  <1>5. Code(R) = Code(P) \/ Code(R) = Append(Code(P), Semicolon)
    BY <1>1, <1>2, <1>3, DocumentKeeps
  <1>6. Formatting(newLexer(syntax, R)) = << >>
    BY <1>1, <1>2, <1>3, DocumentKeeps
  <1>7. text'.syntax = syntax /\ text'.pieces = R
    BY <1>2, <1>4, LexerIs
  <1>8. NodesOK(nodes, Code(R))
    <2>1. Code(P) \in Seq(ToSet(P)) /\ Len(Code(P)) \in Nat
      BY <1>1, CodeIs
    <2>2. Len(Append(Code(P), Semicolon)) = Len(Code(P)) + 1
      BY <2>1
    <2>3. CASE Code(R) = Code(P)
      BY <1>1, <2>3
    <2>4. CASE Code(R) = Append(Code(P), Semicolon)
      BY <1>1, <2>1, <2>2, <2>4, NodesGrow
    <2>5. QED
      BY <1>5, <2>3, <2>4
  <1>9. TextSound(syntax, R)
    BY <1>4, <1>8 DEF TextSound, stmts, nodes
  <1>10. TextInv'
    BY <1>2, <1>7, <1>9 DEF TextInv
  <1>11. QED
    BY <1>2, <1>4, <1>5, <1>6, <1>7, <1>10 DEF P

LEMMA TextStep ==
  ASSUME TextInv, Next
  PROVE  /\ TextInv' /\ Comments(text'.pieces) = Comments(text.pieces)
         /\ Code(text'.pieces) \in {Code(text.pieces), Append(Code(text.pieces), Semicolon)}
         /\ asked'.last = "document" => Formatting(text') = << >>
  <1> DEFINE P == text.pieces
             syntax == text.syntax
             stmts == ParseStatements(text)
  <1>1. /\ text = newLexer(syntax, P) /\ PiecesOK(P) /\ StatementsOK(stmts, Code(P))
        /\ StatementsOK(Syntax[syntax].statements, Code(P)) /\ stmts = ParseStatements(text)
    BY TextParsed DEF TextInv, TextSound
  <1>. HIDE DEF P, syntax, stmts
  <1>2. \A target \in Targets(text) : IsRange(target)
    BY <1>1, TargetsAre
  <1>3. ASSUME NEW targets, NEW edits \in Seq(EditsOf(text, stmts, targets))
        PROVE  \A e \in ToSet(edits) : IsStatementEdit(text, stmts, e)
    <2>1. ASSUME NEW e \in ToSet(edits) PROVE IsStatementEdit(text, stmts, e)
      <3>1. e \in EditsOf(text, stmts, targets)
        BY <2>1 DEF ToSet
      <3>2. QED
        BY <3>1, AreStatementEdits
    <2>2. QED
      BY <2>1
  <1>4. CASE FormatDocument
    BY <1>4, DocumentStep
  <1>5. ASSUME NEW target \in Targets(text), FormatRange(target)
        PROVE  /\ TextInv' /\ asked'.last = "range"
               /\ Code(text'.pieces) = Code(text.pieces) /\ Comments(text'.pieces) = Comments(text.pieces)
    <2> DEFINE edits == rangeFormattingEdits(text, target)
    <2>1. Format("range", edits)
      BY <1>5 DEF FormatRange
    <2>2. edits \in Seq(EditsOf(text, stmts, {target}))
      BY <1>1, <1>2, RangeEdits
    <2>. HIDE DEF edits
    <2>3. \A e \in ToSet(edits) : IsStatementEdit(text, stmts, e)
      BY <1>3, <2>2
    <2>4. QED
      BY <2>1, <2>3, StatementsStep DEF stmts
  <1>6. ASSUME FormatRanges
        PROVE  /\ TextInv' /\ asked'.last = "range"
               /\ Code(text'.pieces) = Code(text.pieces) /\ Comments(text'.pieces) = Comments(text.pieces)
    <2>1. PICK edits \in {RangesFormatting(text, << a, b >>) : a, b \in Targets(text)} :
            Format("range", edits)
      BY <1>6 DEF FormatRanges
    <2>2. PICK a \in Targets(text), b \in Targets(text) : edits = RangesFormatting(text, << a, b >>)
      BY <2>1
    <2>3. edits \in Seq(EditsOf(text, stmts, {a, b}))
      BY <1>1, <1>2, <2>2, RangesEdits
    <2>4. \A e \in ToSet(edits) : IsStatementEdit(text, stmts, e)
      BY <1>3, <2>3
    <2>5. QED
      BY <2>1, <2>4, StatementsStep DEF stmts
  <1>7. ASSUME NEW r, FormatOnType(r)
        PROVE  /\ TextInv' /\ asked'.last = "type"
               /\ Code(text'.pieces) = Code(text.pieces) /\ Comments(text'.pieces) = Comments(text.pieces)
    <2> DEFINE edits == OnTypeFormatting(text, r.range.end)
    <2>1. Format("type", edits)
      BY <1>7 DEF FormatOnType
    <2>2. \A e \in ToSet(edits) : IsStatementEdit(text, stmts, e)
      BY <1>1, OnTypeEdits
    <2>. HIDE DEF edits
    <2>3. QED
      BY <2>1, <2>2, StatementsStep DEF stmts
  <1>8. QED
    BY <1>4, <1>5, <1>6, <1>7 DEF Next

(* In a session a text keeps its tokens: TextInv is inductive.             *)
LEMMA TextStays == Spec => []TextInv
  <1>1. TextInv /\ [Next]_vars => TextInv'
    <2>1. ASSUME TextInv, UNCHANGED vars PROVE TextInv'
      BY <2>1 DEF TextInv, vars
    <2>2. QED
      BY <2>1, TextStep
  <1>2. QED
    BY <1>1, TextStarts, PTL DEF Spec

(* Formatting, of a document, of a range, of several or as one types, in   *)
(* whatever order it is asked for and whatever text it is asked of, loses  *)
(* no token and no comment and adds nothing but the last semicolon; what   *)
(* Formatting has made it leaves alone.                                    *)
THEOREM FormattingKeepsEveryText == Spec => FormattingKeepsText
  <1>1. TextInv /\ [Next]_vars =>
          [/\ Code(text'.pieces) \in {Code(text.pieces), Append(Code(text.pieces), Semicolon)}
           /\ Comments(text'.pieces) = Comments(text.pieces)
           /\ asked'.last = "document" => Formatting(text') = << >>]_vars
    BY TextStep
  <1>2. QED
    BY <1>1, TextStays, PTL DEF Spec, FormattingKeepsText

(* Whatever text a session has come to, the edits for two ranges replace   *)
(* whole statements without a comment, each one within a range asked for,  *)
(* and no two of them overlap.                                             *)
THEOREM FormattingEditsAlwaysFit == Spec => []FormattingEditsFit
  <1>1. ASSUME TextInv PROVE FormattingEditsFit
    <2> DEFINE P == text.pieces
               syntax == text.syntax
               stmts == ParseStatements(text)
    <2>1. /\ text = newLexer(syntax, P) /\ PiecesOK(P) /\ StatementsOK(stmts, Code(P))
          /\ StatementsOK(Syntax[syntax].statements, Code(P)) /\ stmts = ParseStatements(text)
          /\ ToSet(stmts) \subseteq ToSet(Syntax[syntax].statements)
      BY <1>1, TextParsed DEF TextInv, TextSound
    <2> DEFINE ranges == {rangeByNode(text, s) : s \in ToSet(Syntax[text.syntax].statements)}
    <2>0. ToSet(stmts) \subseteq ToSet(Syntax[text.syntax].statements)
      BY <2>1
    <2>. HIDE DEF P, syntax, stmts
    <2>2. \A target \in Targets(text) : IsRange(target)
      BY <2>1, TargetsAre
    <2>3. ASSUME NEW a \in Targets(text), NEW b \in Targets(text), NEW edits,
                 edits = RangesFormatting(text, << a, b >>), NEW i \in DOMAIN edits
          PROVE  /\ edits[i].range \in ranges
                 /\ rangeContains(a, edits[i].range) \/ rangeContains(b, edits[i].range)
                 /\ \A c \in ToSet(text.comments) : ~rangesOverlap(edits[i].range, c.range)
                 /\ \A j \in 1..(i - 1) : ~rangesOverlap(edits[j].range, edits[i].range)
      <3> DEFINE E == EditsOf(text, stmts, {a, b})
      <3>1. edits \in Seq(E)
        BY <2>1, <2>2, <2>3, RangesEdits
      <3>2. DifferentRanges(edits)
        BY <2>1, <2>2, <2>3, RangesEdits
      <3>3. \A k \in DOMAIN edits : edits[k] \in E
        <4>. HIDE DEF E
        <4> QED
          BY <3>1
      <3>4. DOMAIN edits = 1..Len(edits) /\ Len(edits) \in Nat
        <4>. HIDE DEF E
        <4> QED
          BY <3>1
      <3>5. ASSUME NEW k \in DOMAIN edits
            PROVE  \E x \in ToSet(stmts) : /\ edits[k].range = rangeByNode(text, x)
                                           /\ Uncommented(text, rangeByNode(text, x))
                                           /\ Within({a, b}, rangeByNode(text, x))
        BY <3>3 DEF EditsOf, EditOf
      <3>6. PICK x \in ToSet(stmts) : /\ edits[i].range = rangeByNode(text, x)
                                      /\ Uncommented(text, rangeByNode(text, x))
                                      /\ Within({a, b}, rangeByNode(text, x))
        BY <3>5
      <3>7. edits[i].range \in ranges
        BY <2>0, <3>6
      <3>8. ASSUME NEW j \in 1..(i - 1), rangesOverlap(edits[j].range, edits[i].range) PROVE FALSE
        <4>1. j \in DOMAIN edits /\ j < i
          BY <3>4, <3>8
        <4>2. PICK y \in ToSet(stmts) : edits[j].range = rangeByNode(text, y)
          BY <3>5, <4>1
        <4>3. y = x
          BY <2>1, <3>6, <3>8, <4>2, StatementsApart
        <4>4. QED
          BY <3>2, <3>6, <4>1, <4>2, <4>3 DEF DifferentRanges
      <3>9. QED
        BY <3>6, <3>7, <3>8 DEF Uncommented, Within
    <2>4. QED
      BY <2>3 DEF FormattingEditsFit
  <1>2. QED
    BY <1>1, TextStays, PTL

(* In a session, whatever is asked for in whatever order, and however the  *)
(* text was changed by what Formatting, RangeFormatting, RangesFormatting  *)
(* and OnTypeFormatting answered: its offsets and positions are the        *)
(* editor's.                                                               *)
THEOREM PositionsStayTheEditors == Spec => []PositionsAreTheEditors
  <1>1. ASSUME TextInv PROVE PositionsAreTheEditors
    <2> DEFINE P == text.pieces
    <2>1. text = newLexer(text.syntax, P) /\ PiecesOK(P)
      BY <1>1 DEF TextInv, TextSound
    <2>. HIDE DEF P
    <2>2. Runes(P) \in Seq(DOMAIN Bytes)
      BY <2>1, RunesAre
    <2>3. newLexer(text.syntax, P).index = newTextIndex(Runes(P))
      BY DEF newLexer
    <2>4. QED
      BY <2>1, <2>2, <2>3, TextPlaces
  <1>2. QED
    BY <1>1, TextStays, PTL

------------------------------------------------------------------------------
(***************************************************************************)
(* The word at the cursor                                                  *)
(***************************************************************************)
(* An identifier that is found is a piece that touches the position.       *)
LEMMA IdentifierIs ==
  ASSUME NEW P, PiecesOK(P), NEW syntax, NEW t, t = newLexer(syntax, P),
         NEW pos, NEW found, found = identifierAtPositionWithRange(t, pos), found # << >>
  PROVE  \E i \in 1..Len(P) : /\ Head(found) = Placed(P, i) /\ P[i].kind = "ident"
                              /\ rangeIncludesPosition(Span(P, i, i), pos)
  <1> DEFINE S == {Placed(P, i) : i \in 1..Len(P)}
             A == CodeAt(P)
             T == t.tokens
             L == LexerSeq(t)
             bads == {k \in 1..Len(T) : T[k].piece.kind = "bad"}
             bad == SelectInSeq(T, LAMBDA r : r.piece.kind = "bad")
             places == {k \in DOMAIN L : L[k].piece.kind = "ident"
                                           /\ rangeIncludesPosition(L[k].range, pos)}
             B == At(Len(L), places)
  <1>1. T = [k \in 1..Len(A) |-> Placed(P, A[k])]
    BY LexerIs DEF TokensOf
  <1>2. Len(A) \in Nat /\ \A k \in 1..Len(A) : A[k] \in 1..Len(P)
    BY CodeAtGrows
  <1>3. T \in Seq(S)
    <2>. HIDE DEF A, T
    <2> QED
      BY <1>1, <1>2
  <1>4. bad = IF bads # {} THEN Min(bads) ELSE 0
    BY DEF SelectInSeq
  <1>5. L = IF bad = 0 THEN T ELSE SubSeq(T, 1, bad - 1)
    BY DEF LexerSeq
  <1>6. found = Sifted(L, places)
    BY DEF identifierAtPositionWithRange
  <1>7. Len(T) \in Nat /\ bads \subseteq 1..Len(T)
    <2>. HIDE DEF S, T
    <2> QED
      BY <1>3
  <1>8. B = At(Len(L), places) /\ places \subseteq
          {k \in DOMAIN L : L[k].piece.kind = "ident" /\ rangeIncludesPosition(L[k].range, pos)}
    OBVIOUS
  <1>9. \A s \in S : \E i \in 1..Len(P) : s = Placed(P, i)
    OBVIOUS
  <1>. HIDE DEF S, A, T, L, bads, bad, places, B
  <1>10. bad \in 0..Len(T)
    <2>1. CASE bads = {}
      BY <1>4, <1>7, <2>1
    <2>2. CASE bads # {}
      <3>1. bads \subseteq Nat
        BY <1>7
      <3>2. Min(bads) \in bads
        BY <2>2, <3>1, HasMin
      <3>3. \A k \in bads : k \in 0..Len(T)
        BY <1>7
      <3>4. QED
        BY <1>4, <2>2, <3>2, <3>3
    <2>3. QED
      BY <2>1, <2>2
  <1>11. L \in Seq(S)
    <2>1. CASE bad = 0
      BY <1>3, <1>5, <2>1
    <2>2. CASE bad # 0
      <3>1. bad - 1 \in 0..Len(T) /\ L = SubSeq(T, 1, bad - 1)
        BY <1>5, <1>7, <1>10, <2>2
      <3>2. QED
        BY <1>3, <3>1
    <2>3. QED
      BY <2>1, <2>2
  <1>12. found = [k \in 1..Len(B) |-> L[B[k]]]
    BY <1>6, <1>8, <1>11, SiftedAt
  <1>13. Lists(B, Len(L), places)
    BY <1>8, <1>11, SiftedIs
  <1>14. /\ Len(B) \in Nat /\ \A k \in 1..Len(B) : B[k] \in 1..Len(L) /\ B[k] \in places
    BY <1>13 DEF Lists
  <1>15. 1 \in 1..Len(B) /\ Head(found) = L[B[1]]
    <2>1. Len(B) # 0
      BY <1>12, <1>14
    <2>2. QED
      BY <1>12, <1>14, <2>1
  <1>16. L[B[1]] \in S
    BY <1>11, <1>14, <1>15
  <1>17. PICK i \in 1..Len(P) : L[B[1]] = Placed(P, i)
    BY <1>9, <1>16
  <1>18. L[B[1]].piece.kind = "ident" /\ rangeIncludesPosition(L[B[1]].range, pos)
    BY <1>8, <1>14, <1>15
  <1>19. QED
    BY <1>15, <1>17, <1>18 DEF Placed

(* The runes before the end of a rune are those up to it.                  *)
LEMMA RunesBeforeOwn ==
  ASSUME NEW N, NEW NL, NEW B, NEW U, NEW P, NEW S, Layout(N, NL, B, U, P),
         NEW index, IsIndex(index, N, B, U, S), NEW m \in 0..N
  PROVE  RunesBefore(index, B[m]) = m
  <1>1. N \in Nat /\ B \in [0..N -> Nat] /\ \A k \in 1..N : B[k - 1] < B[k]
    BY DEF Layout
  <1>2. B[m] \in Int /\ B[m] <= B[m]
    BY <1>1
  <1>3. ASSUME m < N PROVE B[m] < B[m + 1]
    <2>1. m + 1 \in 1..N /\ (m + 1) - 1 = m
      BY <1>1, <1>3
    <2>2. QED
      BY <1>1, <2>1
  <1>4. QED
    BY <1>2, <1>3, RunesBeforeIs

LEMMA RunesBeforeEnd ==
  ASSUME NEW runes \in Seq(DOMAIN Bytes), NEW n \in 0..Len(runes)
  PROVE  RunesBefore(newTextIndex(runes), Sizes(Bytes, runes)[n]) = n
  <1>1. /\ Layout(Len(runes), Newlines(runes), Sizes(Bytes, runes), Sizes(Units, runes),
                  EditorPositions(runes))
        /\ IsIndex(newTextIndex(runes), Len(runes), Sizes(Bytes, runes), Sizes(Units, runes),
                   newTextIndex(runes).lineStarts)
    BY TextLayout, IndexOfText
  <1>2. QED
    BY <1>1, RunesBeforeOwn

(* The letters before a place in an identifier begin where it does.        *)
LEMMA WordStartIs ==
  ASSUME NEW P, PiecesOK(P), NEW t, t.index = newTextIndex(Runes(P)),
         NEW i \in 1..Len(P), IsWord(P[i]),
         NEW n \in 0..Len(Runes(P)), Ends(P)[i - 1] <= n, n <= Ends(P)[i]
  PROVE  WordStart(t, t.index.bytes[n]) = ByteEnd(P, i - 1)
  <1> DEFINE E == Ends(P)
             R == Runes(P)
             N == Len(R)
             index == newTextIndex(R)
             B == Sizes(Bytes, R)
             U == Sizes(Units, R)
             Q == EditorPositions(R)
             S == index.lineStarts
             e == E[i - 1]
             Starts(m) == /\ \A k \in (m + 1)..n : R[k] \in WordRunes
                          /\ m = 0 \/ R[m] \notin WordRunes
             start == CHOOSE m \in 0..n : Starts(m)
  <1>1. R \in Seq(DOMAIN Bytes) /\ N \in Nat /\ Len(P) \in Nat
    BY RunesAre, PiecesAre
  <1>3. index.bytes = B /\ index.runes = R
    BY DEF newTextIndex
  <1>4. RunesBefore(index, B[n]) = n
    <2>1. n \in 0..Len(R)
      OBVIOUS
    <2>. HIDE DEF R
    <2>2. QED
      BY <1>1, <2>1, RunesBeforeEnd
  <1>5. WordStart(t, B[n]) = B[start]
    BY <1>3, <1>4 DEF WordStart
  <1>6. /\ E \in [0..Len(P) -> Nat] /\ E[0] = 0
        /\ \A j \in 1..Len(P) : E[j] = E[j - 1] + Len(P[j].runes)
    BY EndsAre
  <1>7. \A j \in 1..Len(P) : \A k \in 1..Len(P[j].runes) : R[E[j - 1] + k] = P[j].runes[k]
    BY RunesAre
  <1>8. \A j \in 1..Len(P) : Len(P[j].runes) \in Nat \ {0}
    BY PiecesAre
  <1>9. e \in Nat /\ e <= n /\ n \in Nat /\ n <= e + Len(P[i].runes)
    <2>1. i - 1 \in 0..Len(P)
      BY <1>1
    <2>2. e \in Nat /\ E[i] = e + Len(P[i].runes)
      BY <1>6, <2>1
    <2>3. n \in Nat /\ e <= n /\ n <= E[i]
      <3>. HIDE DEF R, e
      <3>1. n \in 0..N
        BY DEF R
      <3>2. QED
        BY <1>1, <3>1 DEF e
    <2>. HIDE DEF e
    <2>4. QED
      BY <2>2, <2>3
  <1>10. ASSUME NEW k \in (e + 1)..n PROVE R[k] \in WordRunes
    <2> DEFINE l == Len(P[i].runes)
               j == k - e
    <2>1. l \in Nat
      BY <1>8
    <2>2. j \in 1..l /\ e + j = k
      <3>1. e \in Nat /\ n \in Nat /\ n <= e + l /\ k \in (e + 1)..n
        BY <1>9
      <3>. HIDE DEF e, l
      <3>2. QED
        BY <2>1, <3>1
    <2>. HIDE DEF j
    <2>3. R[k] = P[i].runes[j]
      BY <1>7, <2>2
    <2>4. P[i].runes[j] \in ToSet(P[i].runes)
      <3>1. P[i].runes \in Seq(DOMAIN Bytes)
        BY PiecesAre
      <3>2. QED
        BY <2>2, <3>1 DEF ToSet
    <2>5. QED
      BY <2>3, <2>4 DEF IsWord
  <1>11. e = 0 \/ R[e] \notin WordRunes
    <2>1. CASE i = 1
      BY <1>6, <2>1
    <2>2. CASE i # 1
      <3> DEFINE h == i - 1
                 l == Len(P[h].runes)
      <3>1. h \in 1..Len(P) /\ i > 1 /\ i \in DOMAIN P
        BY <1>1, <2>2, PiecesAre
      <3>2. Last(P[h].runes) \notin WordRunes
        BY <3>1 DEF PiecesOK, IsWord
      <3>3. l \in Nat \ {0} /\ e = E[h - 1] + l
        BY <1>6, <1>8, <3>1
      <3>4. R[E[h - 1] + l] = P[h].runes[l]
        <4>. HIDE DEF h
        <4>1. l \in 1..Len(P[h].runes)
          BY <3>3
        <4>2. QED
          BY <1>7, <3>1, <4>1
      <3>5. Last(P[h].runes) = P[h].runes[l]
        BY DEF Last
      <3>6. QED
        BY <3>2, <3>3, <3>4, <3>5
    <2>3. QED
      BY <2>1, <2>2
  <1>. HIDE DEF E, R, N, index, B, U, Q, S, e
  <1>12. e \in 0..n /\ Starts(e)
    BY <1>9, <1>10, <1>11
  <1>13. ASSUME NEW m \in 0..n, Starts(m) PROVE m = e
    <2>1. CASE m < e
      <3>1. e \in (m + 1)..n /\ e # 0
        BY <1>9, <2>1
      <3>2. QED
        BY <1>11, <1>13, <3>1
    <2>2. CASE e < m
      <3>1. m \in (e + 1)..n /\ m # 0
        BY <1>9, <2>2
      <3>2. QED
        BY <1>10, <1>13, <3>1
    <2>3. QED
      BY <1>9, <2>1, <2>2
  <1>14. start = e
    <2>. HIDE DEF Starts
    <2> QED
      BY <1>12, <1>13
  <1>15. t.index.bytes = B
    BY <1>3 DEF index, R
  <1>16. QED
    BY <1>5, <1>14, <1>15 DEF ByteEnd, e, E, B, R

(* Whatever text a session has come to: where an unquoted identifier is at *)
(* the cursor, completion replaces its part before the cursor, though it   *)
(* looks for letters in the bytes and the other requests for tokens.       *)
THEOREM WordAlwaysAtCursor == Spec => []WordAtCursor
  <1>1. ASSUME TextInv PROVE WordAtCursor
    <2> DEFINE P == text.pieces
               R == Runes(P)
               N == Len(R)
               Q == EditorPositions(R)
               index == newTextIndex(R)
    <2>1. text = newLexer(text.syntax, P) /\ PiecesOK(P)
      BY <1>1 DEF TextInv, TextSound
    <2>2. R \in Seq(DOMAIN Bytes) /\ N \in Nat /\ Len(P) \in Nat
      BY <2>1, RunesAre, PiecesAre
    <2>3. newLexer(text.syntax, P).index = index
      BY DEF newLexer
    <2>4. text.index = index /\ text.index = newTextIndex(Runes(P)) /\ index.runes = R
      BY <2>1, <2>3 DEF newTextIndex
    <2>. HIDE DEF P
    <2>5. ASSUME NEW n \in 0..N, NEW found, found = identifierAtPositionWithRange(text, Q[n]),
                 found # << >>, ToSet(Head(found).piece.runes) \subseteq WordRunes
          PROVE  completionPrefixAt(text, Q[n])
                   = [start |-> Head(found).start, end |-> index.bytes[n]]
      <3>1. PICK i \in 1..Len(P) : /\ Head(found) = Placed(P, i) /\ P[i].kind = "ident"
                                   /\ rangeIncludesPosition(Span(P, i, i), Q[n])
        <4> DEFINE pos == Q[n]
        <4>. HIDE DEF pos
        <4>1. \E i \in 1..Len(P) : /\ Head(found) = Placed(P, i) /\ P[i].kind = "ident"
                                   /\ rangeIncludesPosition(Span(P, i, i), pos)
          BY <2>1, <2>5, IdentifierIs DEF pos
        <4>2. QED
          BY <4>1 DEF pos
      <3>2. IsWord(P[i]) /\ Head(found).start = ByteEnd(P, i - 1)
        BY <2>5, <3>1 DEF IsWord, Placed
      <3>3. i \in 0..Len(P) /\ i - 1 \in 0..Len(P)
        BY <2>2
      <3>4. Ends(P)[i - 1] \in 0..N /\ Ends(P)[i] \in 0..N
        BY <2>1, <3>3, EndsGrow
      <3>5. ~Before(Q[n], Q[Ends(P)[i - 1]]) /\ ~Before(Q[Ends(P)[i]], Q[n])
        BY <3>1 DEF rangeIncludesPosition, Span, NotAfter, Place
      <3>6. \A m, k \in 0..N : Before(Q[m], Q[k]) <=> m < k
        <4>. HIDE DEF R
        <4> QED
          BY <2>2, PositionsGrow
      <3>7. Ends(P)[i - 1] <= n /\ n <= Ends(P)[i]
        <4> DEFINE a == Ends(P)[i - 1]
                   b == Ends(P)[i]
        <4>1. a \in 0..N /\ b \in 0..N /\ ~Before(Q[n], Q[a]) /\ ~Before(Q[b], Q[n])
          BY <3>4, <3>5
        <4>. HIDE DEF a, b, N, Q
        <4>2. ~(n < a) /\ ~(b < n)
          BY <3>6, <4>1
        <4>3. a <= n /\ n <= b
          BY <2>2, <4>1, <4>2
        <4>4. QED
          BY <4>3 DEF a, b
      <3>8. WordStart(text, index.bytes[n]) = ByteEnd(P, i - 1)
        BY <2>1, <2>4, <3>2, <3>7, WordStartIs
      <3>9. byteOffset(index, Q[n]).ok /\ byteOffset(index, Q[n]).offset = index.bytes[n]
        <4>1. n \in 0..Len(R)
          OBVIOUS
        <4>. HIDE DEF R
        <4>2. position(index, index.bytes[n]) = Q[n]
          BY <2>2, <4>1, PositionsAgree
        <4>3. /\ byteOffset(index, position(index, index.bytes[n])).ok
              /\ byteOffset(index, position(index, index.bytes[n])).offset = index.bytes[n]
          BY <2>2, <4>1, OffsetsRoundTrip
        <4>4. QED
          BY <4>2, <4>3
      <3>10. QED
        BY <2>4, <3>2, <3>8, <3>9 DEF completionPrefixAt
    <2>6. Boundaries = 0..N /\ EditorPositions(text.index.runes) = Q
      BY <2>4 DEF Boundaries
    <2>. HIDE DEF R, N, Q, index
    <2>7. QED
      BY <2>4, <2>5, <2>6 DEF WordAtCursor
  <1>2. QED
    BY <1>1, TextStays, PTL

------------------------------------------------------------------------------
(***************************************************************************)
(* Selections                                                              *)
(***************************************************************************)
(* The runes before a node, and those up to its end.                       *)
Begins(P, node) == Ends(P)[CodeAt(P)[node.first] - 1]
Stops(P, node) == Ends(P)[CodeAt(P)[node.last]]

Around(range, pos) == Before(range.start, pos) /\ Before(pos, range.end)

LEMMA NodeIs ==
  ASSUME NEW P, PiecesOK(P), NEW syntax, NEW t, t = newLexer(syntax, P),
         NEW node, node.last \in 1..Len(Code(P)), node.first \in 1..node.last
  PROVE  /\ rangeByNode(t, node) = Span(P, CodeAt(P)[node.first], CodeAt(P)[node.last])
         /\ Begins(P, node) \in 0..Len(Runes(P)) /\ Stops(P, node) \in 0..Len(Runes(P))
         /\ \A n \in 0..Len(Runes(P)) :
              /\ rangeIncludesPosition(rangeByNode(t, node), EditorPositions(Runes(P))[n])
                   <=> Begins(P, node) <= n /\ n <= Stops(P, node)
              /\ Around(rangeByNode(t, node), EditorPositions(Runes(P))[n])
                   <=> Begins(P, node) < n /\ n < Stops(P, node)
  <1> DEFINE A == CodeAt(P)
             L == Len(A)
             M == Len(P)
             R == Runes(P)
             N == Len(R)
             Q == EditorPositions(R)
             a == node.first
             b == node.last
             s == Begins(P, node)
             e == Stops(P, node)
             r == rangeByNode(t, node)
  <1>1. /\ L \in Nat /\ Len(Code(P)) = L /\ M \in Nat /\ R \in Seq(DOMAIN Bytes) /\ N \in Nat
    BY CodeAtGrows, CodeIs, PiecesAre, RunesAre
  <1>2. b \in 1..L /\ a \in 1..L
    <2>1. b \in 1..L /\ a \in 1..b
      BY <1>1
    <2>. HIDE DEF a, b, L
    <2>2. QED
      BY <1>1, <2>1
  <1>3. A[a] \in 1..M /\ A[b] \in 1..M
    BY <1>2, CodeAtGrows
  <1>4. A[a] - 1 \in 0..M /\ A[b] \in 0..M
    <2>. HIDE DEF A, M, a, b
    <2> QED
      BY <1>1, <1>3
  <1>5. t.tokens = [k \in 1..Len(A) |-> Placed(P, A[k])]
    BY LexerIs DEF TokensOf
  <1>6. r = Span(P, A[a], A[b])
    <2>1. t.tokens[a] = Placed(P, A[a]) /\ t.tokens[b] = Placed(P, A[b])
      <3>. HIDE DEF A, a, b
      <3> QED
        BY <1>2, <1>5 DEF L
    <2>2. QED
      BY <2>1 DEF rangeByNode, Placed, Span
  <1>7. s \in 0..N /\ e \in 0..N
    BY <1>4, EndsGrow DEF Begins, Stops
  <1>8. r.start = Q[s] /\ r.end = Q[e]
    BY <1>6 DEF Span, Place, Begins, Stops
  <1>9. \A m, k \in 0..N : Before(Q[m], Q[k]) <=> m < k
    <2>. HIDE DEF R
    <2> QED
      BY <1>1, PositionsGrow
  <1>. HIDE DEF s, e, r, N, Q, R
  <1>10. ASSUME NEW n \in 0..N
         PROVE  /\ rangeIncludesPosition(r, Q[n]) <=> s <= n /\ n <= e
                /\ Around(r, Q[n]) <=> s < n /\ n < e
    <2>1. /\ Before(Q[n], Q[s]) <=> n < s
          /\ Before(Q[e], Q[n]) <=> e < n
          /\ Before(Q[s], Q[n]) <=> s < n
          /\ Before(Q[n], Q[e]) <=> n < e
      BY <1>7, <1>9
    <2>2. (~(n < s) <=> s <= n) /\ (~(e < n) <=> n <= e)
      BY <1>1, <1>7
    <2>3. rangeIncludesPosition(r, Q[n]) <=> ~Before(Q[n], Q[s]) /\ ~Before(Q[e], Q[n])
      BY <1>8 DEF rangeIncludesPosition, NotAfter
    <2>4. Around(r, Q[n]) <=> Before(Q[s], Q[n]) /\ Before(Q[n], Q[e])
      BY <1>8 DEF Around
    <2>5. QED
      BY <2>1, <2>2, <2>3, <2>4
  <1>11. \A n \in 0..N : /\ rangeIncludesPosition(r, Q[n]) <=> s <= n /\ n <= e
                         /\ Around(r, Q[n]) <=> s < n /\ n < e
    BY <1>10
  <1>12. QED
    BY <1>6, <1>7, <1>11 DEF r, s, e, N, Q, R, A, a, b

(* Nodes, each in the one above it; and of two that include a position,    *)
(* one of them properly, the later is in the earlier.                      *)
NodeAt(nodes, code, i) ==
  /\ nodes[i].last \in 1..Len(code) /\ nodes[i].first \in 1..nodes[i].last
  /\ nodes[i].up \in 0..(i - 1)

LEMMA NodesAre ==
  ASSUME NEW nodes, NEW code, NodesOK(nodes, code)
  PROVE  /\ Len(nodes) \in Nat /\ DOMAIN nodes = 1..Len(nodes) /\ nodes \in Seq(ToSet(nodes))
         /\ \A i \in 1..Len(nodes) : NodeAt(nodes, code, i)
  <1>1. nodes \in Seq(ToSet(nodes))
    BY DEF NodesOK
  <1>2. Len(nodes) \in Nat /\ DOMAIN nodes = 1..Len(nodes)
    BY <1>1
  <1>3. QED
    BY <1>1, <1>2 DEF NodesOK, NodeAt

LEMMA NodesNest ==
  ASSUME NEW P, PiecesOK(P), NEW syntax, NEW t, t = newLexer(syntax, P),
         NEW nodes, NodesOK(nodes, Code(P)), NEW i \in 1..Len(nodes)
  PROVE  /\ nodes[i].up # 0 =>
              /\ Begins(P, nodes[nodes[i].up]) <= Begins(P, nodes[i])
              /\ Stops(P, nodes[i]) <= Stops(P, nodes[nodes[i].up])
         /\ \A j \in 1..(i - 1) :
              \/ rangeContains(rangeByNode(t, nodes[j]), rangeByNode(t, nodes[i]))
              \/ Stops(P, nodes[i]) <= Begins(P, nodes[j])
              \/ Stops(P, nodes[j]) <= Begins(P, nodes[i])
  <1> DEFINE A == CodeAt(P)
             L == Len(A)
             M == Len(P)
             E == Ends(P)
             N == Len(nodes)
             within(x, y) == y.first <= x.first /\ x.last <= y.last
  <1>1. L \in Nat /\ Len(Code(P)) = L /\ M \in Nat /\ E \in [0..M -> Nat]
    BY CodeAtGrows, CodeIs, PiecesAre, EndsAre
  <1>2. /\ \A k \in 1..L : A[k] \in 1..M
        /\ \A j, k \in 1..L : (A[j] < A[k] <=> j < k) /\ (A[j] <= A[k] <=> j <= k)
    BY CodeAtGrows
  <1>3. \A j, k \in 0..M : E[j] < E[k] <=> j < k
    BY EndsGrow
  <1>4. N \in Nat /\ DOMAIN nodes = 1..N /\ \A j \in 1..N : NodeAt(nodes, Code(P), j)
    BY NodesAre
  <1>5. \A j \in 1..N : nodes[j].last \in 1..L /\ nodes[j].first \in 1..L
                        /\ nodes[j].first <= nodes[j].last
    <2>1. TAKE j \in 1..N
    <2> DEFINE a == nodes[j].first
               b == nodes[j].last
    <2>2. b \in 1..L /\ a \in 1..b
      BY <1>1, <1>4 DEF NodeAt
    <2>. HIDE DEF a, b, L
    <2>3. a \in 1..L /\ a <= b
      BY <1>1, <2>2
    <2>4. QED
      BY <2>2, <2>3 DEF a, b
  <1>. HIDE DEF A, L, M, E, N
  <1>6. \A j, k \in 0..M : j <= k => E[j] <= E[k]
    <2>1. TAKE j, k \in 0..M
    <2>2. E[j] \in Nat /\ E[k] \in Nat /\ (E[k] < E[j] <=> k < j)
      BY <1>1, <1>3
    <2>3. QED
      BY <1>1, <2>2
  <1>7. ASSUME NEW x, NEW y, x.first \in 1..L, x.last \in 1..L, y.first \in 1..L, y.last \in 1..L,
               within(x, y)
        PROVE  Begins(P, y) <= Begins(P, x) /\ Stops(P, x) <= Stops(P, y)
    <2>1. A[y.first] <= A[x.first] /\ A[x.last] <= A[y.last]
      BY <1>2, <1>7
    <2>2. A[y.first] \in 1..M /\ A[x.first] \in 1..M /\ A[y.last] \in 1..M /\ A[x.last] \in 1..M
      BY <1>2, <1>7
    <2>3. /\ A[y.first] - 1 \in 0..M /\ A[x.first] - 1 \in 0..M /\ A[y.last] \in 0..M
          /\ A[x.last] \in 0..M /\ A[y.first] - 1 <= A[x.first] - 1
      <3>1. ASSUME NEW a \in 1..M, NEW c \in 1..M, NEW b \in 1..M, NEW d \in 1..M, a <= c
            PROVE  a - 1 \in 0..M /\ c - 1 \in 0..M /\ b \in 0..M /\ d \in 0..M /\ a - 1 <= c - 1
        BY <1>1, <3>1
      <3>2. QED
        BY <2>1, <2>2, <3>1
    <2>4. E[A[y.first] - 1] <= E[A[x.first] - 1] /\ E[A[x.last]] <= E[A[y.last]]
      BY <1>6, <2>1, <2>3
    <2>5. QED
      BY <2>4 DEF Begins, Stops, E, A
  <1>8. ASSUME NEW x, NEW y, x.last \in 1..L, y.first \in 1..L, x.last < y.first
        PROVE  Stops(P, x) <= Begins(P, y)
    <2>1. A[x.last] < A[y.first] /\ A[x.last] \in 1..M /\ A[y.first] \in 1..M
      BY <1>2, <1>8
    <2>2. A[x.last] \in 0..M /\ A[y.first] - 1 \in 0..M /\ A[x.last] <= A[y.first] - 1
      BY <1>1, <2>1
    <2>3. E[A[x.last]] <= E[A[y.first] - 1]
      BY <1>6, <2>2
    <2>4. QED
      BY <2>3 DEF Begins, Stops, E, A
  <1> DEFINE u == nodes[i].up
  <1>9. u # 0 => u \in 1..N /\ within(nodes[i], nodes[u])
    <2>1. i \in DOMAIN nodes /\ u \in 0..(i - 1)
      BY <1>4 DEF NodeAt, N
    <2>2. u # 0 => within(nodes[i], nodes[u])
      BY <2>1 DEF NodesOK
    <2>3. i \in 1..N
      BY DEF N
    <2>. HIDE DEF u
    <2>4. u # 0 => u \in 1..N
      BY <1>4, <2>1, <2>3
    <2>5. QED
      BY <2>2, <2>4 DEF u
  <1>10. u # 0 => Begins(P, nodes[u]) <= Begins(P, nodes[i]) /\ Stops(P, nodes[i]) <= Stops(P, nodes[u])
    <2>1. i \in 1..N
      BY DEF N
    <2>. HIDE DEF u
    <2>2. QED
      BY <1>5, <1>7, <1>9, <2>1
  <1>11. ASSUME NEW j \in 1..(i - 1)
         PROVE  \/ rangeContains(rangeByNode(t, nodes[j]), rangeByNode(t, nodes[i]))
                \/ Stops(P, nodes[i]) <= Begins(P, nodes[j])
                \/ Stops(P, nodes[j]) <= Begins(P, nodes[i])
    <2> DEFINE x == nodes[i]
               y == nodes[j]
    <2>1. i \in 1..N /\ j \in 1..N
      <3>1. i \in 1..N
        BY DEF N
      <3>2. QED
        BY <1>4, <3>1
    <2>2. /\ x.first \in 1..L /\ x.last \in 1..L /\ y.first \in 1..L /\ y.last \in 1..L
          /\ x.first <= x.last /\ y.first <= y.last
      BY <1>5, <2>1
    <2>3. within(x, y) \/ x.last < y.first \/ y.last < x.first
      BY <1>4, <2>1 DEF NodesOK
    <2>4. CASE within(x, y)
      <3>1. /\ rangeByNode(t, x) = Span(P, A[x.first], A[x.last])
            /\ rangeByNode(t, y) = Span(P, A[y.first], A[y.last])
        <4>1. NodeAt(nodes, Code(P), i) /\ NodeAt(nodes, Code(P), j)
          BY <1>4, <2>1
        <4>2. /\ x.last \in 1..Len(Code(P)) /\ x.first \in 1..x.last
              /\ y.last \in 1..Len(Code(P)) /\ y.first \in 1..y.last
          BY <4>1 DEF NodeAt
        <4>. HIDE DEF x, y
        <4>3. QED
          BY <4>2, NodeIs DEF A
      <3>2. A[y.first] <= A[x.first] /\ A[x.last] <= A[y.last]
        BY <1>2, <2>2, <2>4
      <3>3. A[y.first] \in 1..M /\ A[x.first] \in 1..M /\ A[y.last] \in 1..M /\ A[x.last] \in 1..M
        BY <1>2, <2>2
      <3> DEFINE a == A[y.first]
                 b == A[y.last]
                 c == A[x.first]
                 d == A[x.last]
      <3>. HIDE DEF a, b, c, d
      <3>4. a \in 1..Len(P) /\ b \in 1..Len(P) /\ c \in 1..Len(P) /\ d \in 1..Len(P)
        BY <3>3 DEF a, b, c, d, M
      <3>5. a <= c /\ d <= b
        BY <3>2 DEF a, b, c, d
      <3>6. rangeContains(Span(P, a, b), Span(P, c, d))
        BY <3>4, <3>5, SpanOrder
      <3>7. QED
        BY <3>1, <3>6 DEF a, b, c, d
    <2>5. CASE x.last < y.first
      <3>. HIDE DEF x, y
      <3>1. Stops(P, x) <= Begins(P, y)
        BY <1>8, <2>2, <2>5
      <3>2. QED
        BY <3>1 DEF x, y
    <2>6. CASE y.last < x.first
      <3>. HIDE DEF x, y
      <3>1. Stops(P, y) <= Begins(P, x)
        BY <1>8, <2>2, <2>6
      <3>2. QED
        BY <3>1 DEF x, y
    <2>7. QED
      BY <2>3, <2>4, <2>5, <2>6
  <1>12. QED
    BY <1>10, <1>11

(* A node is visited if it is to be and the one above it is visited.       *)
Visits(g, N, up, I) == \A i \in 0..N : g[i] <=> (i = 0 \/ (i \in I /\ g[up[i]]))

LEMMA VisitedExists ==
  ASSUME NEW N \in Nat, NEW up, \A i \in 1..N : up[i] \in 0..(i - 1), NEW I
  PROVE  \E g \in [0..N -> BOOLEAN] : Visits(g, N, up, I)
  <1> DEFINE D == 0..N
             V == {0, 1}
             first == [i \in D |-> 1]
             step == [i \in D |-> [v \in V |-> IF i \in I /\ v = 1 THEN 1 ELSE 0]]
  <1>1. IsFiniteSet(D)
    BY FS_Interval
  <1>2. IsTree(D, {0}, up)
    <2>1. {0} \subseteq D /\ \A i \in D \ {0} : i \in 1..N
      OBVIOUS
    <2>2. \A i \in D \ {0} : up[i] \in D /\ up[i] < i
      <3>1. TAKE i \in D \ {0}
      <3>2. i \in 1..N /\ up[i] \in 0..(i - 1)
        BY <2>1
      <3>3. QED
        BY <3>2
    <2>3. ASSUME NEW S \in SUBSET D, S # {} PROVE \E q \in S : q \in {0} \/ up[q] \notin S
      <3>1. S \subseteq Nat
        OBVIOUS
      <3>2. PICK q \in S : \A m \in S : q <= m
        BY <2>3, <3>1, LeastNumber
      <3>3. CASE q = 0
        BY <3>3
      <3>4. CASE q # 0
        <4>1. up[q] \in D /\ up[q] < q
          BY <2>2, <3>4
        <4>2. ~(q <= up[q])
          BY <3>1, <4>1
        <4>3. QED
          BY <3>2, <4>2
      <3>5. QED
        BY <3>3, <3>4
    <2>. HIDE DEF D
    <2>4. QED
      BY <2>1, <2>2, <2>3 DEF IsTree
  <1>3. first \in [D -> V] /\ step \in [D -> [V -> V]]
    OBVIOUS
  <1>4. PICK f \in [D -> V] : ClimbsTree(f, D, {0}, up, first, step)
    <2>. HIDE DEF D, V, first, step
    <2> QED
      BY <1>1, <1>2, <1>3, TreeRecursion
  <1> DEFINE g == [i \in D |-> f[i] = 1]
  <1>5. ASSUME NEW i \in 0..N PROVE g[i] <=> (i = 0 \/ (i \in I /\ g[up[i]]))
    <2>1. f[i] = IF i \in {0} THEN first[i] ELSE step[i][f[up[i]]]
      BY <1>4 DEF ClimbsTree
    <2>2. CASE i = 0
      BY <2>1, <2>2
    <2>3. CASE i # 0
      <3>1. i \in 1..N
        BY <2>3
      <3>2. up[i] \in D
        <4>1. up[i] \in 0..(i - 1)
          BY <3>1
        <4>2. QED
          BY <3>1, <4>1
      <3>3. f[up[i]] \in V /\ f[i] = step[i][f[up[i]]]
        BY <2>1, <2>3, <3>2
      <3>4. step[i][f[up[i]]] = IF i \in I /\ f[up[i]] = 1 THEN 1 ELSE 0
        BY <3>3
      <3>5. f[i] = 1 <=> i \in I /\ f[up[i]] = 1
        BY <3>3, <3>4
      <3>6. QED
        BY <2>3, <3>2, <3>5
    <2>4. QED
      BY <2>2, <2>3
  <1>6. g \in [0..N -> BOOLEAN]
    OBVIOUS
  <1>7. QED
    BY <1>5, <1>6 DEF Visits

Picks(s, A) == [k \in 1..Len(A) |-> s[A[k]]]

LEMMA SiftedPicks ==
  ASSUME NEW V, NEW s \in Seq(V), NEW places
  PROVE  Sifted(s, places) = Picks(s, At(Len(s), places))
  BY SiftedAt DEF Picks

(* The nodes that are found, by their numbers B: they include the          *)
(* position, and of those that have it inside none is missed.              *)
Finds(B, t, nodes, pos, found) ==
  /\ Len(B) \in Nat /\ found = [k \in 1..Len(B) |-> nodes[B[k]]]
  /\ \A k \in 1..Len(B) : /\ B[k] \in 1..Len(nodes)
                          /\ rangeIncludesPosition(rangeByNode(t, nodes[B[k]]), pos)
  /\ \A j, k \in 1..Len(B) : j < k => B[j] < B[k]
  /\ \A i \in 1..Len(nodes) : Around(rangeByNode(t, nodes[i]), pos) => \E k \in 1..Len(B) : B[k] = i

LEMMA FoundAre ==
  ASSUME NEW P, PiecesOK(P), NEW syntax, NEW t, t = newLexer(syntax, P),
         NEW nodes, nodes = Syntax[syntax].nodes, NodesOK(nodes, Code(P)),
         NEW n \in 0..Len(Runes(P)), NEW pos, pos = EditorPositions(Runes(P))[n]
  PROVE  \E B : Finds(B, t, nodes, pos, findNodesByPos(t, pos))
  <1> DEFINE N == Len(nodes)
             includes(i) == rangeIncludesPosition(rangeByNode(t, nodes[i]), pos)
             around(i) == Around(rangeByNode(t, nodes[i]), pos)
             Is(g) == g = [i \in 0..N |-> i = 0 \/ (includes(i) /\ g[nodes[i].up])]
             visited == CHOOSE g : Is(g)
             places == {i \in DOMAIN nodes : visited[i]}
             B == At(N, places)
             up == [i \in 1..N |-> nodes[i].up]
             I == {i \in 1..N : includes(i)}
  <1>1. /\ N \in Nat /\ DOMAIN nodes = 1..N /\ nodes \in Seq(ToSet(nodes))
        /\ \A i \in 1..N : NodeAt(nodes, Code(P), i)
    BY NodesAre
  <1>2. \A i \in 1..N : up[i] \in 0..(i - 1) /\ up[i] = nodes[i].up
    BY <1>1 DEF NodeAt
  <1>3. t.syntax = syntax
    BY LexerIs
  <1>4. findNodesByPos(t, pos) = Sifted(nodes, places)
    BY <1>3 DEF findNodesByPos
  <1>5. \A i \in 1..N : i \in I <=> includes(i)
    OBVIOUS
  <1>6. \A i \in 1..N : includes(i) \in BOOLEAN
    BY DEF rangeIncludesPosition
  <1>7. Is(visited)
    <2>1. PICK g \in [0..N -> BOOLEAN] : Visits(g, N, up, I)
      <3>. HIDE DEF N, up, I
      <3> QED
        BY <1>1, <1>2, VisitedExists
    <2>2. ASSUME NEW i \in 0..N PROVE g[i] = (i = 0 \/ (includes(i) /\ g[nodes[i].up]))
      <3>1. g[i] <=> (i = 0 \/ (i \in I /\ g[up[i]]))
        BY <2>1 DEF Visits
      <3>2. CASE i = 0
        <4>1. g[i] \in BOOLEAN
          BY <2>1
        <4>2. QED
          BY <3>1, <3>2, <4>1
      <3>3. CASE i # 0
        <4>1. i \in 1..N
          <5>. HIDE DEF N
          <5> QED
            BY <1>1, <3>3
        <4>2. (i \in I <=> includes(i)) /\ up[i] = nodes[i].up
          BY <1>2, <1>5, <4>1
        <4>3. g[i] \in BOOLEAN
          BY <2>1
        <4>. HIDE DEF includes, I, up
        <4>4. QED
          BY <3>1, <3>3, <4>2, <4>3
      <3>4. QED
        BY <3>2, <3>3
    <2>3. Is(g)
      <3>. HIDE DEF includes, N
      <3> QED
        BY <2>1, <2>2
    <2>. HIDE DEF Is
    <2>4. QED
      BY <2>3
  <1>8. \A i \in 0..N : visited[i] = (i = 0 \/ (includes(i) /\ visited[nodes[i].up]))
    <2>. HIDE DEF visited, includes, N
    <2> QED
      BY <1>7
  <1>. HIDE DEF visited
  <1>9. Lists(B, N, places)
    BY <1>1, SiftedIs
  <1>10. findNodesByPos(t, pos) = [k \in 1..Len(B) |-> nodes[B[k]]]
    <2> DEFINE p == places
    <2>1. findNodesByPos(t, pos) = Sifted(nodes, p) /\ B = At(Len(nodes), p)
      BY <1>4
    <2>. HIDE DEF p, B
    <2>2. nodes \in Seq(ToSet(nodes))
      BY <1>1
    <2>3. Sifted(nodes, p) = Picks(nodes, B)
      BY <2>1, <2>2, SiftedPicks
    <2>4. QED
      BY <2>1, <2>3 DEF Picks
  <1>11. \A i \in places : i \in 1..N /\ includes(i)
    <2>1. TAKE i \in places
    <2>2. i \in 1..N /\ visited[i]
      BY <1>1
    <2>3. i \in 0..N /\ i # 0
      <3>. HIDE DEF N
      <3> QED
        BY <1>1, <2>2
    <2>4. QED
      BY <1>8, <2>2, <2>3
  <1>12. ASSUME NEW i \in 1..N, around(i)
         PROVE  nodes[i].up = 0 \/ (nodes[i].up \in 1..(i - 1) /\ around(nodes[i].up))
    <2> DEFINE u == nodes[i].up
               R == Runes(P)
    <2>1. u \in 0..(i - 1)
      BY <1>2
    <2>2. CASE u = 0
      BY <2>2
    <2>3. CASE u # 0
      <3>1. u \in 1..(i - 1) /\ u \in 1..N
        <4>. HIDE DEF N, u
        <4> QED
          BY <1>1, <2>1, <2>3
      <3>2. NodeAt(nodes, Code(P), i) /\ NodeAt(nodes, Code(P), u)
        BY <1>1, <3>1
      <3>3. Begins(P, nodes[i]) < n /\ n < Stops(P, nodes[i])
        <4>1. nodes[i].last \in 1..Len(Code(P)) /\ nodes[i].first \in 1..nodes[i].last
          BY <3>2 DEF NodeAt
        <4>2. QED
          BY <1>12, <4>1, NodeIs
      <3>4. Begins(P, nodes[u]) <= Begins(P, nodes[i]) /\ Stops(P, nodes[i]) <= Stops(P, nodes[u])
        BY <2>3, NodesNest
      <3>5. nodes[u].last \in 1..Len(Code(P)) /\ nodes[u].first \in 1..nodes[u].last
        BY <3>2 DEF NodeAt
      <3>6. nodes[i].last \in 1..Len(Code(P)) /\ nodes[i].first \in 1..nodes[i].last
        BY <3>2 DEF NodeAt
      <3>7. /\ Begins(P, nodes[i]) \in 0..Len(R) /\ Stops(P, nodes[i]) \in 0..Len(R)
            /\ Begins(P, nodes[u]) \in 0..Len(R) /\ Stops(P, nodes[u]) \in 0..Len(R)
        <4>. HIDE DEF u
        <4> QED
          BY <3>5, <3>6, NodeIs
      <3>8. Begins(P, nodes[u]) < n /\ n < Stops(P, nodes[u])
        <4> DEFINE a == Begins(P, nodes[i])
                   b == Stops(P, nodes[i])
                   c == Begins(P, nodes[u])
                   d == Stops(P, nodes[u])
        <4>1. /\ a \in Nat /\ b \in Nat /\ c \in Nat /\ d \in Nat /\ n \in Nat
              /\ a < n /\ n < b /\ c <= a /\ b <= d
          BY <3>3, <3>4, <3>7
        <4>. HIDE DEF a, b, c, d
        <4>2. c < n /\ n < d
          BY <4>1
        <4>3. QED
          BY <4>2 DEF c, d
      <3>9. around(u)
        <4> DEFINE node == nodes[u]
        <4>. HIDE DEF node, u
        <4>1. Around(rangeByNode(t, node), pos)
          BY <3>5, <3>8, NodeIs DEF node
        <4>2. QED
          BY <4>1 DEF node
      <3>10. QED
        BY <3>1, <3>9
    <2>4. QED
      BY <2>2, <2>3
  <1>13. ASSUME NEW i \in 1..N, around(i) PROVE includes(i)
    <2>1. nodes[i].last \in 1..Len(Code(P)) /\ nodes[i].first \in 1..nodes[i].last
      BY <1>1 DEF NodeAt
    <2>2. Begins(P, nodes[i]) < n /\ n < Stops(P, nodes[i])
      BY <1>13, <2>1, NodeIs
    <2>3. Begins(P, nodes[i]) \in Nat /\ Stops(P, nodes[i]) \in Nat
      <3>1. Begins(P, nodes[i]) \in 0..Len(Runes(P)) /\ Stops(P, nodes[i]) \in 0..Len(Runes(P))
        BY <2>1, NodeIs
      <3>2. QED
        BY <3>1
    <2>4. Begins(P, nodes[i]) <= n /\ n <= Stops(P, nodes[i])
      BY <2>2, <2>3
    <2>5. QED
      BY <2>1, <2>4, NodeIs
  <1> DEFINE T == {m \in 0..N : \A i \in 1..m : around(i) => visited[i]}
  <1>14. \A m \in 0..N : m \in T
    <2>1. 0 \in T
      <3>. HIDE DEF N
      <3> QED
        BY <1>1
    <2>2. ASSUME NEW m \in 1..N, m - 1 \in T PROVE m \in T
      <3>1. \A i \in 1..(m - 1) : around(i) => visited[i]
        BY <2>2
      <3>2. m \in 0..N /\ m \in 1..N /\ \A i \in 1..m : i = m \/ i \in 1..(m - 1)
        <4>. HIDE DEF N
        <4> QED
          BY <1>1
      <3>3. around(m) => visited[m]
        <4>. SUFFICES ASSUME around(m) PROVE visited[m]
          OBVIOUS
        <4> DEFINE u == nodes[m].up
        <4>1. includes(m)
          BY <1>13
        <4>2. visited[m] = (m = 0 \/ (includes(m) /\ visited[u]))
          BY <1>8, <3>2
        <4>3. CASE u = 0
          <5>1. 0 \in 0..N
            <6>. HIDE DEF N
            <6> QED
              BY <1>1
          <5>2. visited[0] = (0 = 0 \/ (includes(0) /\ visited[nodes[0].up]))
            BY <1>8, <5>1
          <5>. HIDE DEF includes, u
          <5>3. visited[0]
            BY <5>2
          <5>4. QED
            BY <4>1, <4>2, <4>3, <5>3
        <4>4. CASE u \in 1..(m - 1) /\ around(u)
          <5>1. visited[u]
            BY <3>1, <4>4
          <5>. HIDE DEF includes, u
          <5>2. QED
            BY <4>1, <4>2, <5>1
        <4>5. QED
          BY <1>12, <4>3, <4>4
      <3>. HIDE DEF around
      <3>4. QED
        BY <3>1, <3>2, <3>3
    <2>3. \A m \in 1..N : m - 1 \in T => m \in T
      BY <2>2
    <2>. HIDE DEF T, N
    <2>4. QED
      BY <1>1, <2>1, <2>3, UpTo
  <1>15. \A i \in 1..N : around(i) => i \in places
    <2>1. N \in T
      <3>. HIDE DEF T, N
      <3> QED
        BY <1>1, <1>14
    <2>. HIDE DEF around
    <2>2. QED
      BY <1>1, <2>1
  <1>. HIDE DEF places, B, N
  <1>16. /\ Len(B) \in Nat
         /\ \A k \in 1..Len(B) : B[k] \in 1..N /\ B[k] \in places
         /\ \A j, k \in 1..Len(B) : j < k => B[j] < B[k]
         /\ \A i \in 1..N : i \in places => \E k \in 1..Len(B) : B[k] = i
    BY <1>9 DEF Lists
  <1>17. \A k \in 1..Len(B) : B[k] \in 1..N /\ includes(B[k])
    BY <1>11, <1>16
  <1>18. Finds(B, t, nodes, pos, findNodesByPos(t, pos))
    BY <1>10, <1>15, <1>16, <1>17 DEF Finds, N
  <1>19. QED
    BY <1>18

(* What is made of the first k ranges: each of what is selected is one of  *)
(* them and contains the next, and none with the position inside is missed. *)
Narrowed(s, k, q, pos) ==
  /\ k > 0 => s # << >>
  /\ \A i \in 1..Len(s) : \E j \in 1..k : s[i] = q[j]
  /\ \A i \in 1..(Len(s) - 1) : s[i] # s[i + 1] /\ rangeContains(s[i], s[i + 1])
  /\ \A j \in 1..k : Around(q[j], pos) => \E i \in 1..Len(s) : s[i] = q[j]

Narrowing(s, r) ==
  IF s # << >> /\ (r = Last(s) \/ ~rangeContains(Last(s), r)) THEN s ELSE Append(s, r)

LEMMA NarrowStep ==
  ASSUME NEW V, NEW k \in Nat \ {0}, NEW q, q[k] \in V, NEW pos, NEW s \in Seq(V),
         Narrowed(s, k - 1, q, pos),
         Around(q[k], pos) => \A j \in 1..(k - 1) : rangeContains(q[j], q[k])
  PROVE  Narrowed(Narrowing(s, q[k]), k, q, pos)
  <1> DEFINE r == q[k]
             u == Narrowing(s, r)
             n == Len(s)
             last == Last(s)
  <1>1. /\ n \in Nat /\ (s # << >> <=> n > 0) /\ last = s[n]
        /\ \A j \in 1..k : j = k \/ j \in 1..(k - 1)
        /\ \A j \in 1..(k - 1) : j \in 1..k
    BY DEF Last
  <1>2. k \in 1..k
    OBVIOUS
  <1>3. /\ \A i \in 1..n : \E j \in 1..(k - 1) : s[i] = q[j]
        /\ \A i \in 1..(n - 1) : s[i] # s[i + 1] /\ rangeContains(s[i], s[i + 1])
        /\ \A j \in 1..(k - 1) : Around(q[j], pos) => \E i \in 1..n : s[i] = q[j]
    BY DEF Narrowed
  <1>4. CASE s # << >> /\ (r = last \/ ~rangeContains(last, r))
    <2>1. u = s /\ n \in 1..n
      BY <1>1, <1>4 DEF Narrowing
    <2>2. PICK j \in 1..(k - 1) : last = q[j]
      BY <1>1, <1>3, <2>1
    <2>3. Around(q[k], pos) => \E i \in 1..n : s[i] = q[k]
      BY <1>1, <1>4, <2>1, <2>2
    <2>4. Narrowed(s, k, q, pos)
      <3>1. \A i \in 1..n : \E h \in 1..k : s[i] = q[h]
        BY <1>1, <1>3
      <3>2. \A h \in 1..k : Around(q[h], pos) => \E i \in 1..n : s[i] = q[h]
        BY <1>1, <1>3, <2>3
      <3>3. QED
        BY <1>3, <1>4, <3>1, <3>2 DEF Narrowed
    <2>5. QED
      BY <2>1, <2>4
  <1>5. CASE ~(s # << >> /\ (r = last \/ ~rangeContains(last, r)))
    <2>1. u = Append(s, r)
      BY <1>5 DEF Narrowing
    <2>. HIDE DEF u, last
    <2>2. /\ Len(u) = n + 1 /\ u[n + 1] = r /\ u # << >>
          /\ \A i \in 1..n : u[i] = s[i]
      BY <2>1
    <2>. HIDE DEF r, n
    <2>3. \A i \in 1..(n + 1) : i = n + 1 \/ i \in 1..n
      BY <1>1
    <2>4. \A i \in 1..n : i \in 1..(n + 1)
      BY <1>1
    <2>5. \A i \in 1..Len(u) : \E j \in 1..k : u[i] = q[j]
      <3>1. ASSUME NEW i \in 1..(n + 1) PROVE \E j \in 1..k : u[i] = q[j]
        <4>1. CASE i = n + 1
          BY <1>2, <2>2, <4>1 DEF r
        <4>2. CASE i \in 1..n
          <5>1. PICK j \in 1..(k - 1) : s[i] = q[j]
            BY <1>3, <4>2
          <5>2. u[i] = q[j] /\ j \in 1..k
            BY <1>1, <2>2, <4>2, <5>1
          <5>3. QED
            BY <5>2
        <4>3. QED
          BY <2>3, <4>1, <4>2
      <3>2. QED
        BY <2>2, <3>1
    <2>6. \A i \in 1..(Len(u) - 1) : u[i] # u[i + 1] /\ rangeContains(u[i], u[i + 1])
      <3>1. ASSUME NEW i \in 1..n PROVE u[i] # u[i + 1] /\ rangeContains(u[i], u[i + 1])
        <4>1. CASE i = n
          <5>1. u[i] = last /\ u[i + 1] = r /\ n > 0
            BY <1>1, <2>2, <4>1
          <5>2. QED
            BY <1>1, <1>5, <5>1
        <4>2. CASE i # n
          <5>1. i \in 1..(n - 1) /\ i + 1 \in 1..n
            BY <1>1, <4>2
          <5>2. QED
            BY <1>3, <2>2, <5>1
        <4>3. QED
          BY <4>1, <4>2
      <3>2. Len(u) - 1 = n
        BY <1>1, <2>2
      <3>3. QED
        BY <3>1, <3>2
    <2>7. \A j \in 1..k : Around(q[j], pos) => \E i \in 1..Len(u) : u[i] = q[j]
      <3>1. ASSUME NEW j \in 1..k, Around(q[j], pos) PROVE \E i \in 1..(n + 1) : u[i] = q[j]
        <4>1. CASE j = k
          <5>1. n + 1 \in 1..(n + 1)
            BY <1>1
          <5>2. QED
            BY <2>2, <4>1, <5>1 DEF r
        <4>2. CASE j \in 1..(k - 1)
          <5>1. PICK i \in 1..n : s[i] = q[j]
            BY <1>3, <3>1, <4>2
          <5>2. QED
            BY <2>2, <2>4, <5>1
        <4>3. QED
          BY <1>1, <4>1, <4>2
      <3>2. QED
        BY <2>2, <3>1
    <2>8. QED
      BY <2>2, <2>5, <2>6, <2>7 DEF Narrowed, r, u
  <1>6. QED
    BY <1>4, <1>5

(* The selections are what the ranges of the nodes found are narrowed to.  *)
LEMMA SelectionsAre ==
  ASSUME NEW V, NEW t, NEW pos, NEW found, found = findNodesByPos(t, pos),
         Len(found) \in Nat \ {0},
         NEW q, q = [k \in 1..Len(found) |-> rangeByNode(t, found[k])],
         \A k \in 1..Len(found) : q[k] \in V,
         \A k \in 1..Len(found) :
           Around(q[k], pos) => \A j \in 1..(k - 1) : rangeContains(q[j], q[k])
  PROVE  /\ selectionRangeAtPosition(t, pos) \in Seq(V)
         /\ Narrowed(selectionRangeAtPosition(t, pos), Len(found), q, pos)
  <1> DEFINE K == Len(found)
             narrowed(ranges, r) ==
               IF ranges # << >> /\ (r = Last(ranges) \/ ~rangeContains(Last(ranges), r))
               THEN ranges ELSE Append(ranges, r)
             Is(g) == g = [n \in 0..K |-> IF n = 0 THEN << >>
                                          ELSE narrowed(g[n - 1], rangeByNode(t, found[n]))]
             ranges == CHOOSE g : Is(g)
             step == [n \in 1..K |-> [s \in Seq(V) |-> Narrowing(s, q[n])]]
  <1>1. K \in Nat \ {0} /\ \A n \in 1..K : q[n] = rangeByNode(t, found[n]) /\ q[n] \in V
    OBVIOUS
  <1>2. \A n \in 1..K : \A s \in Seq(V) : Narrowing(s, q[n]) \in Seq(V)
    BY <1>1 DEF Narrowing
  <1>3. \A s : \A n \in 1..K : narrowed(s, rangeByNode(t, found[n])) = Narrowing(s, q[n])
    BY <1>1 DEF Narrowing
  <1>4. selectionRangeAtPosition(t, pos) = ranges[K]
    <2>1. found # << >>
      OBVIOUS
    <2>2. QED
      BY <2>1 DEF selectionRangeAtPosition
  <1>. HIDE DEF narrowed, K
  <1>5. PICK f \in [0..K -> Seq(V)] : FollowsSteps(f, K, << >>, step)
    <2>1. step \in [1..K -> [Seq(V) -> Seq(V)]] /\ << >> \in Seq(V)
      BY <1>2
    <2>. HIDE DEF step
    <2>2. QED
      BY <1>1, <2>1, Recursion
  <1>6. f[0] = << >> /\ \A n \in 1..K : n - 1 \in 0..K /\ f[n] = Narrowing(f[n - 1], q[n])
    <2>1. \A n \in 1..K : n - 1 \in 0..K
      BY <1>1
    <2>2. \A n \in 1..K : f[n] = step[n][f[n - 1]] /\ f[n - 1] \in Seq(V)
      BY <1>5, <2>1 DEF FollowsSteps
    <2>3. f[0] = << >>
      BY <1>5 DEF FollowsSteps
    <2>4. QED
      BY <2>1, <2>2, <2>3
  <1>7. \A n \in 0..K : n = 0 \/ n \in 1..K
    BY <1>1
  <1>8. Is(f)
    <2>1. ASSUME NEW n \in 0..K
          PROVE  f[n] = IF n = 0 THEN << >> ELSE narrowed(f[n - 1], rangeByNode(t, found[n]))
      <3>1. CASE n = 0
        BY <1>6, <3>1
      <3>2. CASE n \in 1..K
        <4>1. n # 0
          BY <1>1, <3>2
        <4>2. f[n] = Narrowing(f[n - 1], q[n])
          BY <1>6, <3>2
        <4>3. narrowed(f[n - 1], rangeByNode(t, found[n])) = Narrowing(f[n - 1], q[n])
          BY <1>3, <3>2
        <4>4. QED
          BY <4>1, <4>2, <4>3
      <3>3. QED
        BY <1>7, <3>1, <3>2
    <2>2. QED
      BY <1>5, <2>1
  <1>9. Is(ranges)
    <2>. HIDE DEF Is
    <2> QED
      BY <1>8
  <1>. HIDE DEF ranges
  <1>10. \A n \in 0..K : ranges[n] = f[n]
    <2> DEFINE S == {m \in 0..K : ranges[m] = f[m]}
    <2>1. 0 \in 0..K /\ \A n \in 1..K : n \in 0..K /\ n # 0
      BY <1>1
    <2>2. 0 \in S
      BY <1>6, <1>9, <2>1
    <2>3. ASSUME NEW n \in 1..K, n - 1 \in S PROVE n \in S
      <3>1. ranges[n] = narrowed(ranges[n - 1], rangeByNode(t, found[n]))
        BY <1>9, <2>1
      <3>2. ranges[n] = Narrowing(f[n - 1], q[n])
        BY <1>3, <2>3, <3>1
      <3>3. QED
        BY <1>6, <2>1, <3>2
    <2>4. \A n \in 1..K : n - 1 \in S => n \in S
      BY <2>3
    <2>5. \A n \in 0..K : n \in S
      <3>. HIDE DEF S
      <3> QED
        BY <1>1, <2>2, <2>4, UpTo
    <2>6. QED
      BY <2>5
  <1> DEFINE T == {n \in 0..K : Narrowed(f[n], n, q, pos)}
  <1>11. \A n \in 0..K : n \in T
    <2>1. 0 \in T
      <3>1. 0 \in 0..K /\ Len(<< >>) = 0 /\ \A i \in 1..0 : FALSE
        BY <1>1
      <3>2. \A i \in 1..(0 - 1) : FALSE
        OBVIOUS
      <3>3. Narrowed(<< >>, 0, q, pos)
        BY <3>1, <3>2 DEF Narrowed
      <3>4. QED
        BY <1>6, <3>1, <3>3
    <2>2. ASSUME NEW n \in 1..K, n - 1 \in T PROVE n \in T
      <3>1. Narrowed(f[n - 1], n - 1, q, pos) /\ f[n - 1] \in Seq(V) /\ n \in 0..K
        BY <1>1, <1>5, <1>6, <2>2
      <3>2. n \in Nat \ {0} /\ q[n] \in V
        BY <1>1
      <3>3. Around(q[n], pos) => \A j \in 1..(n - 1) : rangeContains(q[j], q[n])
        BY DEF K
      <3>4. Narrowed(Narrowing(f[n - 1], q[n]), n, q, pos)
        BY <3>1, <3>2, <3>3, NarrowStep
      <3>5. QED
        BY <1>6, <3>1, <3>4
    <2>3. \A n \in 1..K : n - 1 \in T => n \in T
      BY <2>2
    <2>. HIDE DEF T
    <2>4. QED
      BY <1>1, <2>1, <2>3, UpTo
  <1>12. K \in 0..K
    BY <1>1
  <1>13. ranges[K] \in Seq(V) /\ Narrowed(ranges[K], K, q, pos)
    BY <1>5, <1>10, <1>11, <1>12
  <1>14. QED
    BY <1>4, <1>13 DEF K

(* Of two nodes that include a position, the later one properly, the later *)
(* is in the earlier.                                                      *)
LEMMA AroundContained ==
  ASSUME NEW P, PiecesOK(P), NEW syntax, NEW t, t = newLexer(syntax, P),
         NEW nodes, NodesOK(nodes, Code(P)),
         NEW n \in 0..Len(Runes(P)), NEW pos, pos = EditorPositions(Runes(P))[n],
         NEW i \in 1..Len(nodes), NEW j \in 1..(i - 1),
         Around(rangeByNode(t, nodes[i]), pos),
         rangeIncludesPosition(rangeByNode(t, nodes[j]), pos)
  PROVE  rangeContains(rangeByNode(t, nodes[j]), rangeByNode(t, nodes[i]))
  <1> DEFINE a == Begins(P, nodes[i])
             b == Stops(P, nodes[i])
             c == Begins(P, nodes[j])
             d == Stops(P, nodes[j])
             N == Len(Runes(P))
             x == nodes[i]
             y == nodes[j]
             code == Code(P)
  <1>1. NodeAt(nodes, Code(P), i) /\ NodeAt(nodes, Code(P), j)
    <2>1. Len(nodes) \in Nat /\ \A k \in 1..Len(nodes) : NodeAt(nodes, Code(P), k)
      BY NodesAre
    <2>2. j \in 1..Len(nodes)
      BY <2>1
    <2>3. QED
      BY <2>1, <2>2
  <1>2. /\ x.last \in 1..Len(code) /\ x.first \in 1..x.last
        /\ y.last \in 1..Len(code) /\ y.first \in 1..y.last
    BY <1>1 DEF NodeAt
  <1>3. a < n /\ n < b /\ a \in 0..N /\ b \in 0..N
    <2>. HIDE DEF x
    <2>1. Around(rangeByNode(t, x), pos)
      BY DEF x
    <2>2. Begins(P, x) < n /\ n < Stops(P, x)
      BY <1>2, <2>1, NodeIs
    <2>3. Begins(P, x) \in 0..N /\ Stops(P, x) \in 0..N
      BY <1>2, NodeIs
    <2>4. QED
      BY <2>2, <2>3 DEF x
  <1>4. c <= n /\ n <= d /\ c \in 0..N /\ d \in 0..N
    <2>. HIDE DEF y
    <2>1. rangeIncludesPosition(rangeByNode(t, y), pos)
      BY DEF y
    <2>2. Begins(P, y) <= n /\ n <= Stops(P, y)
      BY <1>2, <2>1, NodeIs
    <2>3. Begins(P, y) \in 0..N /\ Stops(P, y) \in 0..N
      BY <1>2, NodeIs
    <2>4. QED
      BY <2>2, <2>3 DEF y
  <1>5. \/ rangeContains(rangeByNode(t, nodes[j]), rangeByNode(t, nodes[i]))
        \/ b <= c
        \/ d <= a
    BY NodesNest
  <1>6. n \in Nat
    OBVIOUS
  <1>. HIDE DEF a, b, c, d, N
  <1>7. ~(b <= c) /\ ~(d <= a)
    BY <1>3, <1>4, <1>6
  <1>8. QED
    BY <1>5, <1>7

(* Whatever text a session has come to: the selections at a position, from *)
(* the widest, each contain the next and the position, and no node that    *)
(* has the position inside is missed.                                      *)
THEOREM SelectionsAlwaysNest == Spec => []SelectionsNest
  <1>1. ASSUME TextInv PROVE SelectionsNest
    <2> DEFINE P == text.pieces
               R == Runes(P)
               N == Len(R)
               Q == EditorPositions(R)
               nodes == Syntax[text.syntax].nodes
    <2>1. text = newLexer(text.syntax, P) /\ PiecesOK(P) /\ NodesOK(nodes, Code(P))
      BY <1>1 DEF TextInv, TextSound
    <2>2. R \in Seq(DOMAIN Bytes) /\ N \in Nat
      BY <2>1, RunesAre
    <2>3. text.index.runes = R
      <3>1. newLexer(text.syntax, P).index.runes = R
        BY DEF newLexer, newTextIndex
      <3>2. QED
        BY <2>1, <3>1
    <2>4. DOMAIN Q = 0..N /\ \A m, k \in 0..N : Before(Q[m], Q[k]) <=> m < k
      <3>. HIDE DEF R
      <3>1. Q \in [0..N -> Places]
        BY <2>2, PositionsAdvance
      <3>2. \A m, k \in 0..N : Before(Q[m], Q[k]) <=> m < k
        BY <2>2, PositionsGrow
      <3>3. QED
        BY <3>1, <3>2
    <2>5. Len(nodes) \in Nat /\ DOMAIN nodes = 1..Len(nodes)
      BY <2>1, NodesAre
    <2>6. nodes = Syntax[text.syntax].nodes
      OBVIOUS
    <2>. HIDE DEF P, nodes
    <2>7. ASSUME NEW pos \in Range(Q), NEW ranges, ranges = selectionRangeAtPosition(text, pos)
          PROVE  /\ \A i \in DOMAIN ranges : rangeIncludesPosition(ranges[i], pos)
                 /\ \A i \in 1..(Len(ranges) - 1) :
                      ranges[i] # ranges[i + 1] /\ rangeContains(ranges[i], ranges[i + 1])
                 /\ \A node \in ToSet(nodes) :
                      Before(rangeByNode(text, node).start, pos)
                        /\ Before(pos, rangeByNode(text, node).end) =>
                          rangeByNode(text, node) \in ToSet(ranges)
      <3> DEFINE found == findNodesByPos(text, pos)
                 r(i) == rangeByNode(text, nodes[i])
      <3>1. PICK n \in 0..N : pos = Q[n]
        BY <2>4, <2>7 DEF Range
      <3>2. \E B : Finds(B, text, nodes, pos, found)
        <4>1. n \in 0..Len(Runes(P)) /\ pos = EditorPositions(Runes(P))[n]
          BY <3>1
        <4>2. QED
          BY <2>1, <2>6, <4>1, FoundAre
      <3>3. PICK B : Finds(B, text, nodes, pos, found)
        BY <3>2
      <3> DEFINE K == Len(B)
                 q == [k \in 1..K |-> r(B[k])]
                 V == {r(i) : i \in 1..Len(nodes)}
      <3>4. /\ K \in Nat /\ found = [k \in 1..K |-> nodes[B[k]]]
            /\ \A k \in 1..K : B[k] \in 1..Len(nodes) /\ rangeIncludesPosition(r(B[k]), pos)
            /\ \A j, k \in 1..K : j < k => B[j] < B[k]
            /\ \A i \in 1..Len(nodes) : Around(r(i), pos) => \E k \in 1..K : B[k] = i
        BY <3>3 DEF Finds
      <3>5. ASSUME NEW node \in ToSet(nodes), Before(rangeByNode(text, node).start, pos),
                   Before(pos, rangeByNode(text, node).end)
            PROVE  \E k \in 1..K : rangeByNode(text, node) = r(B[k]) /\ Around(r(B[k]), pos)
        <4>1. PICK i \in 1..Len(nodes) : node = nodes[i]
          BY <2>5 DEF ToSet
        <4>2. Around(r(i), pos)
          BY <3>5, <4>1 DEF Around
        <4>3. PICK k \in 1..K : B[k] = i
          BY <3>4, <4>2
        <4>4. QED
          BY <4>1, <4>2, <4>3
      <3>6. CASE K = 0
        <4>1. found = << >>
          BY <3>4, <3>6
        <4>2. ranges = << [start |-> pos, end |-> pos] >>
          BY <2>7, <4>1 DEF selectionRangeAtPosition
        <4>3. ~Before(pos, pos)
          BY <2>2, <2>4, <3>1
        <4>4. /\ \A i \in DOMAIN ranges : i = 1
              /\ \A i \in 1..(Len(ranges) - 1) : FALSE
          BY <4>2
        <4>5. rangeIncludesPosition(ranges[1], pos)
          BY <4>2, <4>3 DEF rangeIncludesPosition, NotAfter
        <4>6. \A k \in 1..K : FALSE
          BY <3>6
        <4>7. QED
          BY <3>5, <4>4, <4>5, <4>6
      <3>7. CASE K # 0
        <4>1. Len(found) = K /\ K \in Nat \ {0} /\ found = findNodesByPos(text, pos)
              /\ \A k \in 1..K : found[k] = nodes[B[k]]
          <5>. HIDE DEF K
          <5> QED
            BY <3>4, <3>7
        <4>2. q = [k \in 1..Len(found) |-> rangeByNode(text, found[k])]
          BY <4>1
        <4>3. \A k \in 1..K : q[k] = r(B[k]) /\ q[k] \in V
          BY <3>4
        <4>4. ASSUME NEW k \in 1..K, Around(q[k], pos), NEW j \in 1..(k - 1)
              PROVE  rangeContains(q[j], q[k])
          <5>1. j \in 1..K /\ j < k
            <6>. HIDE DEF K
            <6> QED
              BY <3>4
          <5>2. B[j] \in 1..Len(nodes) /\ B[k] \in 1..Len(nodes) /\ B[j] < B[k]
            BY <3>4, <5>1
          <5> DEFINE x == B[k]
                     y == B[j]
          <5>3. x \in 1..Len(nodes) /\ y \in 1..(x - 1)
            <6>. HIDE DEF x, y
            <6>1. x \in 1..Len(nodes) /\ y \in 1..Len(nodes) /\ y < x
              BY <5>2 DEF x, y
            <6>2. QED
              BY <2>5, <6>1
          <5>4. Around(r(x), pos) /\ rangeIncludesPosition(r(y), pos)
            BY <3>4, <4>3, <4>4, <5>1
          <5>5. n \in 0..Len(Runes(P)) /\ pos = EditorPositions(Runes(P))[n]
            BY <3>1
          <5>. HIDE DEF x, y
          <5>6. rangeContains(r(y), r(x))
            BY <2>1, <5>3, <5>4, <5>5, AroundContained
          <5>7. QED
            BY <4>3, <5>1, <5>6 DEF x, y
        <4>5. \A k \in 1..K : Around(q[k], pos) => \A j \in 1..(k - 1) : rangeContains(q[j], q[k])
          BY <4>4
        <4>. HIDE DEF q, V, K, found, r
        <4>6. ranges \in Seq(V) /\ Narrowed(ranges, K, q, pos)
          <5>1. \A k \in 1..Len(found) : q[k] \in V
            BY <4>1, <4>3
          <5>2. \A k \in 1..Len(found) :
                  Around(q[k], pos) => \A j \in 1..(k - 1) : rangeContains(q[j], q[k])
            BY <4>1, <4>5
          <5>3. Len(found) \in Nat \ {0}
            BY <4>1
          <5>4. /\ selectionRangeAtPosition(text, pos) \in Seq(V)
                /\ Narrowed(selectionRangeAtPosition(text, pos), Len(found), q, pos)
            BY <4>1, <4>2, <5>1, <5>2, <5>3, SelectionsAre
          <5>5. QED
            BY <2>7, <4>1, <5>4
        <4>7. DOMAIN ranges = 1..Len(ranges)
          BY <4>6
        <4>8. \A i \in 1..Len(ranges) : \E j \in 1..K : ranges[i] = q[j]
          BY <4>6 DEF Narrowed
        <4>9. \A i \in DOMAIN ranges : rangeIncludesPosition(ranges[i], pos)
          BY <3>4, <4>3, <4>7, <4>8
        <4>10. \A i \in 1..(Len(ranges) - 1) :
                 ranges[i] # ranges[i + 1] /\ rangeContains(ranges[i], ranges[i + 1])
          BY <4>6 DEF Narrowed
        <4>11. \A j \in 1..K : Around(q[j], pos) => \E i \in 1..Len(ranges) : ranges[i] = q[j]
          BY <4>6 DEF Narrowed
        <4>12. \A j \in 1..K : Around(q[j], pos) => q[j] \in ToSet(ranges)
          BY <4>7, <4>11 DEF ToSet
        <4>13. QED
          BY <3>5, <4>3, <4>9, <4>10, <4>12
      <3>8. QED
        BY <3>6, <3>7
    <2>8. EditorPositions(text.index.runes) = Q
      BY <2>3
    <2>. HIDE DEF Q
    <2>9. QED
      BY <2>6, <2>7, <2>8 DEF SelectionsNest
  <1>2. QED
    BY <1>1, TextStays, PTL
================================================================================
