----------------------------- MODULE NumberLemmas ------------------------------
(***************************************************************************)
(* Lemmas that proofs about several modules share: induction over the      *)
(* natural numbers and over trees, minima and maxima, and sequences of     *)
(* sequences.                                                              *)
(*                                                                         *)
(* The library's induction theorems have an operator as a parameter; WFMin *)
(* has none, and gives induction over a set.                               *)
(***************************************************************************)
EXTENDS Integers, SequencesExt, WellFoundedInduction, FiniteSetTheorems, TLAPS

LessThan == {x \in Nat \X Nat : x[1] < x[2]}

(* The natural numbers are well ordered.                                   *)
LEMMA LeastNumber ==
  ASSUME NEW T, T \subseteq Nat, T # {}
  PROVE  \E n \in T : \A m \in T : n <= m
  <1>1. IsWellFoundedOn(LessThan, Nat)
    BY NatLessThanWellFounded DEF OpToRel, LessThan
  <1>2. PICK n \in T : \A m \in T : << m, n >> \notin LessThan
    BY <1>1, WFMin
  <1>3. \A m \in T : m \in Nat /\ n \in Nat /\ ~(m < n)
    BY <1>2 DEF LessThan
  <1>4. QED
    BY <1>3

(* Induction up to a number: S stands for what is to be shown.             *)
LEMMA UpTo ==
  ASSUME NEW N \in Nat, NEW S, 0 \in S, \A n \in 1..N : n - 1 \in S => n \in S
  PROVE  \A n \in 0..N : n \in S
  <1>1. SUFFICES ASSUME (0..N) \ S # {} PROVE FALSE
    OBVIOUS
  <1>2. (0..N) \ S \subseteq Nat
    OBVIOUS
  <1>3. PICK n \in (0..N) \ S : \A m \in (0..N) \ S : n <= m
    BY <1>1, <1>2, LeastNumber
  <1>4. n \in 1..N /\ n - 1 \in 0..N /\ ~(n <= n - 1)
    BY <1>3
  <1>5. n - 1 \in S
    BY <1>3, <1>4
  <1>6. QED
    BY <1>3, <1>4, <1>5

FollowsSteps(f, N, first, step) ==
  f[0] = first /\ \A n \in 1..N : f[n] = step[n][f[n - 1]]

(* A function on the numbers up to N is defined by its first value and a   *)
(* step from each value to the next.                                       *)
LEMMA Recursion ==
  ASSUME NEW N \in Nat, NEW V, NEW first \in V, NEW step \in [1..N -> [V -> V]]
  PROVE  \E f \in [0..N -> V] : FollowsSteps(f, N, first, step)
  <1> DEFINE Is(n, f) == f[0] = first /\ \A m \in 1..n : f[m] = step[m][f[m - 1]]
             S == {n \in 0..N : \E f \in [0..n -> V] : Is(n, f)}
  <1>1. 0 \in S
    <2>1. [m \in 0..0 |-> first] \in [0..0 -> V] /\ Is(0, [m \in 0..0 |-> first])
      OBVIOUS
    <2>. HIDE DEF Is
    <2>2. QED
      BY <2>1
  <1>2. ASSUME NEW n \in 1..N, n - 1 \in S PROVE n \in S
    <2>1. PICK f \in [0..(n - 1) -> V] : Is(n - 1, f)
      BY <1>2
    <2> DEFINE g == [m \in 0..n |-> IF m = n THEN step[n][f[n - 1]] ELSE f[m]]
    <2>2. step[n][f[n - 1]] \in V
      OBVIOUS
    <2>3. g \in [0..n -> V]
      BY <2>2
    <2>4. g[0] = first /\ \A m \in 1..(n - 1) : g[m] = step[m][g[m - 1]]
      BY <2>1
    <2>5. g[n] = step[n][g[n - 1]]
      OBVIOUS
    <2>6. \A m \in 1..n : m = n \/ m \in 1..(n - 1)
      OBVIOUS
    <2>7. Is(n, g)
      <3>. HIDE DEF g
      <3> QED
        BY <2>4, <2>5, <2>6
    <2>8. n \in 0..N
      OBVIOUS
    <2>. HIDE DEF Is, g
    <2>9. QED
      BY <2>3, <2>7, <2>8
  <1>3. N \in S
    <2>. HIDE DEF S
    <2>1. \A n \in 1..N : n - 1 \in S => n \in S
      BY <1>2
    <2>2. N \in 0..N
      OBVIOUS
    <2>3. QED
      BY <1>1, <2>1, <2>2, UpTo
  <1>4. QED
    BY <1>3 DEF FollowsSteps

(* The maximum of a set is what it is at least as large as.                *)
LEMMA MaxIs ==
  ASSUME NEW S, S \subseteq Int, NEW x \in S, \A y \in S : y <= x
  PROVE  Max(S) = x
  <1> DEFINE Is(z) == z \in S /\ \A y \in S : z >= y
  <1>1. Max(S) = CHOOSE z : Is(z)
    BY DEF Max
  <1>2. Is(x)
    OBVIOUS
  <1>3. Is(Max(S))
    <2>. HIDE DEF Is
    <2> QED
      BY <1>1, <1>2
  <1>4. Max(S) \in Int /\ x \in Int /\ Max(S) <= x /\ x <= Max(S)
    <2>. HIDE DEF Max
    <2> QED
      BY <1>3
  <1>5. QED
    BY <1>4

(* The minimum of a set is what it is at most as large as.                 *)
LEMMA MinIs ==
  ASSUME NEW S, S \subseteq Int, NEW x \in S, \A y \in S : x <= y
  PROVE  Min(S) = x
  <1> DEFINE Is(z) == z \in S /\ \A y \in S : z <= y
  <1>1. Min(S) = CHOOSE z : Is(z)
    BY DEF Min
  <1>2. Is(x)
    OBVIOUS
  <1>3. Is(Min(S))
    <2>. HIDE DEF Is
    <2> QED
      BY <1>1, <1>2
  <1>4. Min(S) \in Int /\ x \in Int /\ Min(S) <= x /\ x <= Min(S)
    <2>. HIDE DEF Min
    <2> QED
      BY <1>3
  <1>5. QED
    BY <1>4

(* A set of numbers up to N has a maximum.                                 *)
LEMMA HasMax ==
  ASSUME NEW N \in Nat, NEW S, S \subseteq 0..N, S # {}
  PROVE  Max(S) \in S /\ \A y \in S : y <= Max(S)
  <1> DEFINE T == {N - y : y \in S}
  <1>1. T \subseteq Nat /\ T # {}
    <2>1. ASSUME NEW u \in T PROVE u \in Nat
      <3>1. PICK y \in S : u = N - y
        OBVIOUS
      <3>2. y \in 0..N
        OBVIOUS
      <3>3. QED
        BY <3>1, <3>2
    <2>2. PICK y : y \in S
      OBVIOUS
    <2>3. N - y \in T
      BY <2>2
    <2>4. QED
      BY <2>1, <2>3
  <1>2. PICK t \in T : \A u \in T : t <= u
    <2>. HIDE DEF T
    <2> QED
      BY <1>1, LeastNumber
  <1>3. PICK x \in S : t = N - x
    BY <1>2
  <1>4. ASSUME NEW y \in S PROVE y <= x
    <2>1. N - x <= N - y
      BY <1>2, <1>3
    <2>2. QED
      BY <2>1
  <1>5. S \subseteq Int
    OBVIOUS
  <1>6. Max(S) = x
    BY <1>3, <1>4, <1>5, MaxIs
  <1>7. QED
    BY <1>4, <1>6

(* A set of natural numbers has a minimum.                                 *)
LEMMA HasMin ==
  ASSUME NEW S, S \subseteq Nat, S # {}
  PROVE  Min(S) \in S /\ \A y \in S : Min(S) <= y
  <1>1. PICK x \in S : \A y \in S : x <= y
    BY LeastNumber
  <1>2. S \subseteq Int
    OBVIOUS
  <1>3. Min(S) = x
    BY <1>1, <1>2, MinIs
  <1>4. QED
    BY <1>1, <1>3

------------------------------------------------------------------------------
(***************************************************************************)
(* Trees: from every element of D the way up, over up, ends at a root.     *)
(***************************************************************************)
IsTree(D, roots, up) ==
  /\ roots \subseteq D
  /\ \A q \in D \ roots : up[q] \in D
  /\ \A S \in SUBSET D : S # {} => \E q \in S : q \in roots \/ up[q] \notin S

(* What is true of the roots, and of whatever is below what it is true of, *)
(* is true of all.                                                         *)
LEMMA TreeInduction ==
  ASSUME NEW D, NEW roots, NEW up, IsTree(D, roots, up),
         NEW T, \A q \in D : (q \in roots \/ up[q] \in T) => q \in T
  PROVE  D \subseteq T
  <1>1. SUFFICES ASSUME D \ T # {} PROVE FALSE
    OBVIOUS
  <1>2. PICK q \in D \ T : q \in roots \/ up[q] \notin D \ T
    BY <1>1 DEF IsTree
  <1>3. QED
    BY <1>2 DEF IsTree

ClimbsTree(f, D, roots, up, first, step) ==
  \A q \in D : f[q] = IF q \in roots THEN first[q] ELSE step[q][f[up[q]]]

(* A function on a finite tree is defined by its values at the roots and a *)
(* step from each value to those below.                                    *)
LEMMA TreeRecursion ==
  ASSUME NEW D, IsFiniteSet(D), NEW roots, NEW up, IsTree(D, roots, up),
         NEW V, NEW first \in [D -> V], NEW step \in [D -> [V -> V]]
  PROVE  \E f \in [D -> V] : ClimbsTree(f, D, roots, up, first, step)
  <1> DEFINE Closed(T) == \A q \in T : q \notin roots => up[q] \in T
             Solves(T, f) == \A q \in T :
               f[q] = IF q \in roots THEN first[q] ELSE step[q][f[up[q]]]
             Solved == {T \in SUBSET D : Closed(T) /\ \E f \in [T -> V] : Solves(T, f)}
             left == {Cardinality(D \ T) : T \in Solved}
  <1>1. \A T \in SUBSET D : IsFiniteSet(D \ T) /\ Cardinality(D \ T) \in Nat
    <2>1. ASSUME NEW T \in SUBSET D PROVE IsFiniteSet(D \ T) /\ Cardinality(D \ T) \in Nat
      <3>1. D \ T \in SUBSET D
        OBVIOUS
      <3>2. IsFiniteSet(D \ T)
        BY <3>1, FS_Subset
      <3>3. QED
        BY <3>2, FS_CardinalityType
    <2>2. QED
      BY <2>1
  <1>2. {} \in Solved
    <2>1. [q \in {} |-> first[q]] \in [{} -> V]
      OBVIOUS
    <2>2. Solves({}, [q \in {} |-> first[q]]) /\ Closed({})
      OBVIOUS
    <2>. HIDE DEF Solves, Closed
    <2>3. QED
      BY <2>1, <2>2
  <1>3. PICK n \in left : \A m \in left : n <= m
    <2>1. left \subseteq Nat /\ left # {}
      <3>. HIDE DEF Closed, Solves
      <3>1. Solved \subseteq SUBSET D
        OBVIOUS
      <3>. HIDE DEF Solved
      <3>2. QED
        BY <1>1, <1>2, <3>1
    <2>. HIDE DEF left
    <2>2. QED
      BY <2>1, LeastNumber
  <1>4. PICK T \in Solved : n = Cardinality(D \ T)
    BY <1>3
  <1>5. T \subseteq D /\ Closed(T)
    OBVIOUS
  <1>6. PICK f \in [T -> V] : Solves(T, f)
    OBVIOUS
  <1>7. T = D
    <2>1. SUFFICES ASSUME D \ T # {} PROVE FALSE
      BY <1>5
    <2>2. PICK q \in D \ T : q \in roots \/ up[q] \notin D \ T
      BY <2>1 DEF IsTree
    <2>3. q \notin roots => up[q] \in T
      BY <2>2 DEF IsTree
    <2> DEFINE value == IF q \in roots THEN first[q] ELSE step[q][f[up[q]]]
               g == [r \in T \cup {q} |-> IF r = q THEN value ELSE f[r]]
    <2>4. value \in V
      BY <1>6, <2>2, <2>3
    <2>5. g \in [T \cup {q} -> V]
      <3>. HIDE DEF value
      <3> QED
        BY <1>6, <2>4
    <2>6. Closed(T \cup {q})
      BY <1>5, <2>3
    <2>7. Solves(T \cup {q}, g)
      <3>1. ASSUME NEW r \in T \cup {q}
            PROVE  g[r] = IF r \in roots THEN first[r] ELSE step[r][g[up[r]]]
        <4>1. CASE r = q
          <5>1. r \notin roots => g[up[r]] = f[up[q]]
            BY <2>2, <2>3, <4>1
          <5>2. g[r] = value
            BY <4>1
          <5>. HIDE DEF g
          <5>3. QED
            BY <4>1, <5>1, <5>2
        <4>2. CASE r # q
          <5>1. r \in T /\ g[r] = f[r]
            BY <4>2
          <5>2. r \notin roots => up[r] \in T /\ up[r] # q
            BY <1>5, <2>2, <5>1
          <5>3. r \notin roots => g[up[r]] = f[up[r]]
            BY <5>2
          <5>4. f[r] = IF r \in roots THEN first[r] ELSE step[r][f[up[r]]]
            BY <1>6, <5>1
          <5>. HIDE DEF g
          <5>5. QED
            BY <5>1, <5>3, <5>4
        <4>3. QED
          BY <4>1, <4>2
      <3>. HIDE DEF g
      <3>2. QED
        BY <3>1
    <2>8. T \cup {q} \in Solved
      <3>. HIDE DEF Closed, Solves, g
      <3>1. T \cup {q} \in SUBSET D
        BY <1>5, <2>2
      <3>2. QED
        BY <2>5, <2>6, <2>7, <3>1
    <2>9. Cardinality(D \ (T \cup {q})) < n
      <3>1. D \ (T \cup {q}) = (D \ T) \ {q}
        OBVIOUS
      <3>2. IsFiniteSet(D \ T) /\ Cardinality(D \ T) \in Nat
        BY <1>1, <1>5
      <3>3. Cardinality((D \ T) \ {q}) = Cardinality(D \ T) - 1
        BY <2>2, <3>2, FS_RemoveElement
      <3>. HIDE DEF Solved, left, g, Closed, Solves
      <3>4. n = Cardinality(D \ T)
        BY <1>4
      <3> DEFINE m == Cardinality(D \ (T \cup {q}))
      <3>5. m = n - 1 /\ n \in Nat
        BY <3>1, <3>2, <3>3, <3>4
      <3>. HIDE DEF m
      <3>6. m < n
        BY <3>5
      <3>7. QED
        BY <3>6 DEF m
    <2>10. Cardinality(D \ (T \cup {q})) \in left
      <3>. HIDE DEF Solved
      <3> QED
        BY <2>8
    <2>11. n \in Nat /\ Cardinality(D \ (T \cup {q})) \in Nat
      BY <1>1, <1>4, <1>5, <2>2
    <2>12. n <= Cardinality(D \ (T \cup {q}))
      <3>. HIDE DEF left
      <3> QED
        BY <1>3, <2>10
    <2>13. QED
      BY <2>9, <2>11, <2>12
  <1>8. QED
    BY <1>6, <1>7 DEF ClimbsTree

------------------------------------------------------------------------------
(***************************************************************************)
(* The elements of a sequence F are those of the first n sequences of      *)
(* seqs: the i-th one is element place[i] of sequence piece[i].            *)
(***************************************************************************)
Concatenates(F, seqs, n, piece, place) ==
  /\ piece \in [DOMAIN F -> 1..n] /\ place \in [DOMAIN F -> Nat]
  /\ \A i \in DOMAIN F : place[i] \in DOMAIN seqs[piece[i]] /\ F[i] = seqs[piece[i]][place[i]]
  /\ \A i, j \in DOMAIN F : piece[i] = piece[j] /\ place[i] = place[j] => i = j
  /\ \A k \in 1..n : \A m \in DOMAIN seqs[k] :
       \E i \in DOMAIN F : piece[i] = k /\ place[i] = m

(* The concatenation of one sequence more.                                 *)
LEMMA ConcatenateOne ==
  ASSUME NEW V, NEW N \in Nat, NEW seqs \in [1..N -> Seq(V)], NEW n \in 1..N,
         NEW F \in Seq(V), NEW piece, NEW place, Concatenates(F, seqs, n - 1, piece, place)
  PROVE  \E p, q : Concatenates(F \o seqs[n], seqs, n, p, q)
  <1> DEFINE G == F \o seqs[n]
             p == [i \in DOMAIN G |-> IF i <= Len(F) THEN piece[i] ELSE n]
             q == [i \in DOMAIN G |-> IF i <= Len(F) THEN place[i] ELSE i - Len(F)]
  <1>1. /\ Len(F) \in Nat /\ DOMAIN F = 1..Len(F)
        /\ Len(seqs[n]) \in Nat /\ DOMAIN seqs[n] = 1..Len(seqs[n])
        /\ DOMAIN G = 1..(Len(F) + Len(seqs[n]))
        /\ \A i \in DOMAIN G : G[i] = IF i <= Len(F) THEN F[i] ELSE seqs[n][i - Len(F)]
    OBVIOUS
  <1>2. \A i \in DOMAIN F : piece[i] \in 1..(n - 1) /\ place[i] \in Nat
    BY DEF Concatenates
  <1>. HIDE DEF G
  <1>3. \A i \in DOMAIN G : \/ i \in DOMAIN F /\ p[i] = piece[i] /\ q[i] = place[i] /\ G[i] = F[i]
                           \/ /\ ~(i <= Len(F)) /\ i - Len(F) \in DOMAIN seqs[n]
                              /\ p[i] = n /\ q[i] = i - Len(F) /\ G[i] = seqs[n][i - Len(F)]
    BY <1>1
  <1>4. \A i \in DOMAIN F : i \in DOMAIN G /\ p[i] = piece[i] /\ q[i] = place[i]
    BY <1>1
  <1>5. \A m \in DOMAIN seqs[n] : m + Len(F) \in DOMAIN G /\ p[m + Len(F)] = n /\ q[m + Len(F)] = m
    BY <1>1
  <1>6. p \in [DOMAIN G -> 1..n] /\ q \in [DOMAIN G -> Nat]
    <2>1. \A i \in DOMAIN G : p[i] \in 1..n /\ q[i] \in Nat
      BY <1>1, <1>2, <1>3
    <2>2. QED
      BY <2>1
  <1>. HIDE DEF p, q
  <1>7. \A i \in DOMAIN G : q[i] \in DOMAIN seqs[p[i]] /\ G[i] = seqs[p[i]][q[i]]
    <2>1. ASSUME NEW i \in DOMAIN G
          PROVE  q[i] \in DOMAIN seqs[p[i]] /\ G[i] = seqs[p[i]][q[i]]
      <3>1. CASE i \in DOMAIN F /\ p[i] = piece[i] /\ q[i] = place[i] /\ G[i] = F[i]
        <4>1. place[i] \in DOMAIN seqs[piece[i]] /\ F[i] = seqs[piece[i]][place[i]]
          BY <3>1 DEF Concatenates
        <4>2. QED
          BY <3>1, <4>1
      <3>2. QED
        BY <1>3, <3>1
    <2>2. QED
      BY <2>1
  <1>8. ASSUME NEW i \in DOMAIN G, NEW j \in DOMAIN G, p[i] = p[j], q[i] = q[j]
        PROVE  i = j
    <2>1. CASE i \in DOMAIN F /\ j \in DOMAIN F
      BY <1>4, <1>8, <2>1 DEF Concatenates
    <2>2. CASE i \in DOMAIN F /\ j \notin DOMAIN F
      <3>1. p[i] \in 1..(n - 1) /\ p[j] = n
        BY <1>2, <1>3, <1>4, <2>2
      <3>2. QED
        BY <1>8, <3>1
    <2>3. CASE i \notin DOMAIN F /\ j \in DOMAIN F
      <3>1. p[j] \in 1..(n - 1) /\ p[i] = n
        BY <1>2, <1>3, <1>4, <2>3
      <3>2. QED
        BY <1>8, <3>1
    <2>4. CASE i \notin DOMAIN F /\ j \notin DOMAIN F
      <3>1. q[i] = i - Len(F) /\ q[j] = j - Len(F) /\ i \in Int /\ j \in Int
        BY <1>1, <1>3, <2>4
      <3>2. Len(F) \in Nat
        BY <1>1
      <3>3. i - Len(F) = j - Len(F)
        BY <1>8, <3>1
      <3>4. QED
        BY <3>1, <3>2, <3>3
    <2>5. QED
      BY <2>1, <2>2, <2>3, <2>4
  <1>9. ASSUME NEW k \in 1..n, NEW m \in DOMAIN seqs[k]
        PROVE  \E i \in DOMAIN G : p[i] = k /\ q[i] = m
    <2>1. CASE k = n
      BY <1>5, <2>1
    <2>2. CASE k # n
      <3>1. k \in 1..(n - 1)
        BY <2>2
      <3>2. PICK i \in DOMAIN F : piece[i] = k /\ place[i] = m
        BY <3>1 DEF Concatenates
      <3>3. QED
        BY <1>4, <3>2
    <2>3. QED
      BY <2>1, <2>2
  <1>10. Concatenates(G, seqs, n, p, q)
    BY <1>6, <1>7, <1>8, <1>9 DEF Concatenates
  <1>11. QED
    BY <1>10 DEF G

(* FlattenSeq concatenates.                                                *)
LEMMA Flattened ==
  ASSUME NEW V, NEW N \in Nat, NEW seqs \in [1..N -> Seq(V)]
  PROVE  /\ FlattenSeq(seqs) \in Seq(V)
         /\ \E piece, place : Concatenates(FlattenSeq(seqs), seqs, N, piece, place)
  <1>1. seqs \in Seq(Seq(V)) /\ Len(seqs) = N
    OBVIOUS
  <1>2. CASE N = 0
    <2>1. FlattenSeq(seqs) = seqs /\ seqs \in Seq(V) /\ DOMAIN seqs = {}
      BY <1>1, <1>2 DEF FlattenSeq
    <2>2. Concatenates(seqs, seqs, N, seqs, seqs)
      <3>1. seqs \in [DOMAIN seqs -> 1..N] /\ seqs \in [DOMAIN seqs -> Nat]
        BY <2>1
      <3>2. QED
        BY <1>2, <2>1, <3>1 DEF Concatenates
    <2>3. QED
      BY <2>1, <2>2
  <1>3. CASE N # 0
    <2> DEFINE Is(h) == h = [i \in 1..N |-> IF i = 1 THEN seqs[i] ELSE h[i - 1] \o seqs[i]]
               flatten == CHOOSE h : Is(h)
               step == [i \in 1..N |-> [s \in Seq(V) |-> s \o seqs[i]]]
    <2>1. FlattenSeq(seqs) = flatten[N]
      BY <1>1, <1>3 DEF FlattenSeq
    <2>2. Is(flatten)
      <3>1. << >> \in Seq(V) /\ step \in [1..N -> [Seq(V) -> Seq(V)]]
        <4>1. \A i \in 1..N : \A s \in Seq(V) : s \o seqs[i] \in Seq(V)
          OBVIOUS
        <4>2. QED
          BY <4>1
      <3>2. PICK f \in [0..N -> Seq(V)] : FollowsSteps(f, N, << >>, step)
        <4>. HIDE DEF step
        <4> QED
          BY <3>1, Recursion
      <3> DEFINE h == [i \in 1..N |-> f[i]]
      <3>3. ASSUME NEW i \in 1..N
            PROVE  f[i] = IF i = 1 THEN seqs[i] ELSE h[i - 1] \o seqs[i]
        <4>1. i - 1 \in 0..N /\ f[i - 1] \in Seq(V) /\ f[i] = f[i - 1] \o seqs[i]
          <5>1. i - 1 \in 0..N
            OBVIOUS
          <5>2. f[i - 1] \in Seq(V)
            BY <5>1
          <5>3. step[i][f[i - 1]] = f[i - 1] \o seqs[i]
            BY <5>2
          <5>4. f[i] = step[i][f[i - 1]]
            <6>. HIDE DEF step
            <6> QED
              BY <3>2 DEF FollowsSteps
          <5>5. QED
            BY <5>1, <5>2, <5>3, <5>4
        <4>2. CASE i = 1
          <5>1. f[i - 1] = << >> /\ seqs[i] \in Seq(V)
            BY <3>2, <4>2 DEF FollowsSteps
          <5>2. QED
            BY <4>1, <4>2, <5>1
        <4>3. CASE i # 1
          <5>1. h[i - 1] = f[i - 1]
            BY <4>3
          <5>2. QED
            BY <4>1, <4>3, <5>1
        <4>4. QED
          BY <4>2, <4>3
      <3>4. Is(h)
        BY <3>3
      <3>. HIDE DEF Is
      <3>5. QED
        BY <3>4
    <2> DEFINE S == {i \in 0..N : i # 0 => /\ flatten[i] \in Seq(V)
                                         /\ \E p, q : Concatenates(flatten[i], seqs, i, p, q)}
    <2>3. 0 \in S
      OBVIOUS
    <2>4. ASSUME NEW n \in 1..N, n - 1 \in S PROVE n \in S
      <3>1. CASE n = 1
        <4> HIDE DEF flatten
        <4>1. flatten[1] = seqs[1] /\ seqs[1] \in Seq(V) /\ 1 \in 1..N
          <5>1. 1 \in 1..N
            BY <1>3
          <5>2. QED
            BY <2>2, <5>1
        <4>. HIDE DEF flatten
        <4>2. << >> \in Seq(V) /\ << >> \o seqs[1] = seqs[1] /\ DOMAIN << >> = {}
          BY <4>1
        <4>3. Concatenates(<< >>, seqs, 1 - 1, << >>, << >>)
          <5>1. << >> \in [DOMAIN << >> -> 1..(1 - 1)] /\ << >> \in [DOMAIN << >> -> Nat]
            OBVIOUS
          <5>2. QED
            BY <4>2, <5>1 DEF Concatenates
        <4>4. \E p, q : Concatenates(seqs[1], seqs, 1, p, q)
          <5>1. \E p, q : Concatenates(<< >> \o seqs[1], seqs, 1, p, q)
            BY <4>1, <4>2, <4>3, ConcatenateOne
          <5>2. QED
            BY <4>2, <5>1
        <4>5. QED
          BY <3>1, <4>1, <4>4
      <3>2. CASE n # 1
        <4>1. flatten[n] = flatten[n - 1] \o seqs[n]
          BY <2>2, <3>2
        <4>. HIDE DEF flatten
        <4>2. flatten[n - 1] \in Seq(V)
          BY <2>4, <3>2
        <4>3. PICK p, q : Concatenates(flatten[n - 1], seqs, n - 1, p, q)
          BY <2>4, <3>2
        <4>4. \E r, s : Concatenates(flatten[n], seqs, n, r, s)
          BY <4>1, <4>2, <4>3, ConcatenateOne
        <4>5. flatten[n] \in Seq(V)
          BY <4>1, <4>2
        <4>6. QED
          BY <4>4, <4>5
      <3>3. QED
        BY <3>1, <3>2
    <2>5. N \in S
      <3>1. \A n \in 1..N : n - 1 \in S => n \in S
        BY <2>4
      <3>. HIDE DEF S
      <3>2. \A n \in 0..N : n \in S
        BY <2>3, <3>1, UpTo
      <3>3. QED
        BY <3>2
    <2>6. QED
      BY <1>3, <2>1, <2>5
  <1>4. QED
    BY <1>2, <1>3

(* So it does whatever the elements of the sequences are.                  *)
LEMMA FlattenedSequences ==
  ASSUME NEW N \in Nat, NEW seqs, seqs = [k \in 1..N |-> seqs[k]],
         NEW length \in [1..N -> Nat],
         \A k \in 1..N : seqs[k] = [m \in 1..length[k] |-> seqs[k][m]]
  PROVE  LET F == FlattenSeq(seqs)
         IN /\ Len(F) \in Nat /\ DOMAIN F = 1..Len(F) /\ F = [i \in 1..Len(F) |-> F[i]]
            /\ \E piece, place : Concatenates(F, seqs, N, piece, place)
  <1> DEFINE V == UNION {{seqs[k][m] : m \in 1..length[k]} : k \in 1..N}
  <1>1. ASSUME NEW k \in 1..N PROVE seqs[k] \in Seq(V)
    <2>1. \A m \in 1..length[k] : seqs[k][m] \in V
      OBVIOUS
    <2>. HIDE DEF V
    <2>2. seqs[k] \in [1..length[k] -> V]
      BY <2>1
    <2>3. QED
      BY <2>2
  <1>. HIDE DEF V
  <1>2. seqs \in [1..N -> Seq(V)]
    BY <1>1
  <1> DEFINE F == FlattenSeq(seqs)
  <1>3. F \in Seq(V) /\ \E piece, place : Concatenates(F, seqs, N, piece, place)
    BY <1>2, Flattened
  <1>. HIDE DEF F
  <1>4. Len(F) \in Nat /\ DOMAIN F = 1..Len(F) /\ F = [i \in 1..Len(F) |-> F[i]]
    BY <1>3
  <1>5. QED
    BY <1>3, <1>4 DEF F

(* A concatenation is made from the first sequence to the last.            *)
Accumulates(F, N, V, seqs) ==
  /\ F \in [0..N -> Seq(V)]
  /\ F[0] = << >>
  /\ \A n \in 1..N : F[n] = F[n - 1] \o seqs[n]

LEMMA Flattening ==
  ASSUME NEW V, NEW N \in Nat, NEW seqs \in [1..N -> Seq(V)]
  PROVE  \E F : Accumulates(F, N, V, seqs) /\ FlattenSeq(seqs) = F[N]
  <1> DEFINE step == [i \in 1..N |-> [s \in Seq(V) |-> s \o seqs[i]]]
  <1>1. seqs \in Seq(Seq(V)) /\ Len(seqs) = N
    OBVIOUS
  <1>2. << >> \in Seq(V) /\ step \in [1..N -> [Seq(V) -> Seq(V)]]
    <2>1. \A i \in 1..N : \A s \in Seq(V) : s \o seqs[i] \in Seq(V)
      OBVIOUS
    <2>2. QED
      BY <2>1
  <1>3. PICK F \in [0..N -> Seq(V)] : FollowsSteps(F, N, << >>, step)
    <2>. HIDE DEF step
    <2> QED
      BY <1>2, Recursion
  <1>4. \A n \in 1..N : F[n] = F[n - 1] \o seqs[n]
    <2>1. TAKE n \in 1..N
    <2>2. F[n - 1] \in Seq(V)
      OBVIOUS
    <2>3. step[n][F[n - 1]] = F[n - 1] \o seqs[n]
      BY <2>2
    <2>4. F[n] = step[n][F[n - 1]]
      <3>. HIDE DEF step
      <3> QED
        BY <1>3 DEF FollowsSteps
    <2>5. QED
      BY <2>3, <2>4
  <1>5. F[0] = << >>
    BY <1>3 DEF FollowsSteps
  <1>6. Accumulates(F, N, V, seqs)
    BY <1>4, <1>5 DEF Accumulates
  <1>7. FlattenSeq(seqs) = F[N]
    <2>1. CASE N = 0
      <3>1. FlattenSeq(seqs) = seqs /\ seqs = << >>
        BY <1>1, <2>1 DEF FlattenSeq
      <3>2. QED
        BY <1>5, <2>1, <3>1
    <2>2. CASE N # 0
      <3> DEFINE Is(h) == h = [i \in 1..N |-> IF i = 1 THEN seqs[i] ELSE h[i - 1] \o seqs[i]]
                 flatten == CHOOSE h : Is(h)
                 g == [i \in 1..N |-> F[i]]
      <3>1. FlattenSeq(seqs) = flatten[N]
        BY <1>1, <2>2 DEF FlattenSeq
      <3>2. ASSUME NEW i \in 1..N PROVE F[i] = IF i = 1 THEN seqs[i] ELSE g[i - 1] \o seqs[i]
        <4>1. CASE i = 1
          <5>1. F[i] = F[i - 1] \o seqs[i]
            BY <1>4
          <5>2. F[i - 1] = << >>
            BY <1>5, <4>1
          <5>3. << >> \o seqs[i] = seqs[i]
            OBVIOUS
          <5>4. QED
            BY <4>1, <5>1, <5>2, <5>3
        <4>2. CASE i # 1
          <5>1. F[i] = F[i - 1] \o seqs[i]
            BY <1>4
          <5>2. g[i - 1] = F[i - 1]
            BY <4>2
          <5>3. QED
            BY <4>2, <5>1, <5>2
        <4>3. QED
          BY <4>1, <4>2
      <3>3. Is(g)
        BY <3>2
      <3>4. Is(flatten)
        <4>. HIDE DEF Is, g
        <4> QED
          BY <3>3
      <3>. HIDE DEF flatten, g
      <3> DEFINE S == {n \in 0..N : n # 0 => flatten[n] = F[n]}
      <3>5. 0 \in S
        OBVIOUS
      <3>6. ASSUME NEW n \in 1..N, n - 1 \in S PROVE n \in S
        <4>1. CASE n = 1
          <5>1. flatten[n] = seqs[n] /\ seqs[n] \in Seq(V)
            BY <3>4, <4>1
          <5>2. F[n] = F[n - 1] \o seqs[n]
            BY <1>4
          <5>3. F[n - 1] = << >>
            BY <1>5, <4>1
          <5>4. << >> \o seqs[n] = seqs[n]
            OBVIOUS
          <5>5. flatten[n] = F[n] /\ n \in 0..N
            BY <5>1, <5>2, <5>3, <5>4
          <5>6. QED
            BY <5>5
        <4>2. CASE n # 1
          <5>1. flatten[n] = flatten[n - 1] \o seqs[n]
            BY <3>4, <4>2
          <5>2. flatten[n - 1] = F[n - 1]
            BY <3>6, <4>2
          <5>3. F[n] = F[n - 1] \o seqs[n]
            BY <1>4
          <5>4. flatten[n] = F[n] /\ n \in 0..N
            BY <5>1, <5>2, <5>3
          <5>5. QED
            BY <5>4
        <4>3. QED
          BY <4>1, <4>2
      <3>7. \A n \in 1..N : n - 1 \in S => n \in S
        BY <3>6
      <3>8. \A n \in 0..N : n \in S
        <4>. HIDE DEF S
        <4> QED
          BY <3>5, <3>7, UpTo
      <3>9. QED
        BY <2>2, <3>1, <3>8
    <2>3. QED
      BY <2>1, <2>2
  <1>8. QED
    BY <1>6, <1>7

(* What a concatenation has got stays where it is.                         *)
Grows(F, N) ==
  \A m, n \in 0..N : m <= n =>
    /\ Len(F[m]) \in Nat /\ Len(F[n]) \in Nat /\ Len(F[m]) <= Len(F[n])
    /\ \A k \in 1..Len(F[m]) : F[n][k] = F[m][k]

LEMMA Accumulated ==
  ASSUME NEW V, NEW N \in Nat, NEW seqs \in [1..N -> Seq(V)], NEW F, Accumulates(F, N, V, seqs)
  PROVE  Grows(F, N)
  <1> DEFINE Begins(m, n) == /\ Len(F[m]) <= Len(F[n])
                             /\ \A k \in 1..Len(F[m]) : F[n][k] = F[m][k]
             S == {n \in 0..N : \A m \in 0..N : m <= n => Begins(m, n)}
  <1>1. /\ F \in [0..N -> Seq(V)]
        /\ \A n \in 1..N : F[n] = F[n - 1] \o seqs[n]
        /\ \A n \in 0..N : F[n] \in Seq(V) /\ Len(F[n]) \in Nat
    <2>1. F \in [0..N -> Seq(V)] /\ \A n \in 1..N : F[n] = F[n - 1] \o seqs[n]
      BY DEF Accumulates
    <2>2. \A n \in 0..N : F[n] \in Seq(V) /\ Len(F[n]) \in Nat
      <3>1. TAKE n \in 0..N
      <3>2. F[n] \in Seq(V)
        BY <2>1
      <3>3. QED
        BY <3>2
    <2>3. QED
      BY <2>1, <2>2
  <1>2. \A n \in 0..N : Begins(n, n)
    BY <1>1
  <1>3. 0 \in S
    <2>1. \A m \in 0..N : m <= 0 => m = 0
      OBVIOUS
    <2>. HIDE DEF Begins
    <2>2. QED
      BY <1>2, <2>1
  <1>4. ASSUME NEW n \in 1..N, n - 1 \in S PROVE n \in S
    <2>1. n \in 0..N /\ n - 1 \in 0..N
      OBVIOUS
    <2>2. Begins(n - 1, n)
      <3> DEFINE a == F[n - 1]
                 b == seqs[n]
                 c == F[n]
      <3>1. a \in Seq(V) /\ b \in Seq(V) /\ c = a \o b
        BY <1>1, <2>1
      <3>. HIDE DEF a, b, c
      <3>2. Len(a) <= Len(c) /\ \A k \in 1..Len(a) : c[k] = a[k]
        BY <3>1
      <3>3. QED
        BY <3>2 DEF a, c
    <2>3. ASSUME NEW m \in 0..N, m <= n - 1 PROVE Begins(m, n)
      <3>1. Begins(m, n - 1)
        BY <1>4, <2>3
      <3>2. Len(F[m]) \in Nat /\ Len(F[n - 1]) \in Nat /\ Len(F[n]) \in Nat
        BY <1>1, <2>1
      <3>3. \A k \in 1..Len(F[m]) : k \in 1..Len(F[n - 1])
        BY <3>1, <3>2
      <3>4. Len(F[m]) <= Len(F[n])
        <4> DEFINE x == Len(F[m])
                   y == Len(F[n - 1])
                   z == Len(F[n])
        <4>1. x <= y /\ y <= z /\ x \in Nat /\ y \in Nat /\ z \in Nat
          BY <2>2, <3>1, <3>2
        <4>. HIDE DEF x, y, z
        <4>2. x <= z
          BY <4>1
        <4>3. QED
          BY <4>2 DEF x, z
      <3>5. \A k \in 1..Len(F[m]) : F[n][k] = F[m][k]
        BY <2>2, <3>1, <3>3
      <3>6. QED
        BY <3>4, <3>5
    <2>4. \A m \in 0..N : m <= n => m = n \/ m <= n - 1
      OBVIOUS
    <2>. HIDE DEF Begins
    <2>5. QED
      BY <1>2, <2>1, <2>3, <2>4
  <1>5. \A n \in 1..N : n - 1 \in S => n \in S
    BY <1>4
  <1>6. \A n \in 0..N : n \in S
    <2>. HIDE DEF S
    <2> QED
      BY <1>3, <1>5, UpTo
  <1>7. ASSUME NEW m \in 0..N, NEW n \in 0..N, m <= n PROVE Begins(m, n)
    BY <1>6, <1>7
  <1>. HIDE DEF S, Begins
  <1>8. \A m, n \in 0..N : m <= n => Begins(m, n)
    BY <1>7
  <1>9. QED
    BY <1>1, <1>8 DEF Begins, Grows

================================================================================
