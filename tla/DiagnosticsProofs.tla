--------------------------- MODULE DiagnosticsProofs ---------------------------
(***************************************************************************)
(* Proofs about Diagnostics: a result id determines the diagnostics it     *)
(* stands for, up to the places of declarations, whatever the documents    *)
(* are; so "unchanged" is never wrong about anything else.                 *)
(***************************************************************************)
EXTENDS Diagnostics, TLAPS

(* The facts of a tracked document are sequences of declarations.          *)
LEMMA FactsAreDeclarations ==
  ASSUME NEW d \in Stores, NEW p \in Tracked(d), NEW k \in Kinds
  PROVE  /\ Facts(d, p, k) \in Seq(Declarations)
         /\ k = "table" => \A i \in 1 .. Len(Facts(d, p, k)) : Facts(d, p, k)[i].shapeKnown
         /\ k = "view" => \A i \in 1 .. Len(Facts(d, p, k)) :
              Facts(d, p, k)[i].shapeKnown => Facts(d, p, k)[i].columns # {}
  <1>1. p \in Paths /\ d[p] # NoText /\ d[p] \in Texts
    BY DEF Tracked, Stores
  <1>2. TextOf(d, p) \in Texts
    BY <1>1 DEF TextOf
  <1>3. Facts(d, p, k) = TextOf(d, p).facts[k]
    BY DEF Facts
  <1>. HIDE DEF Facts
  <1>4. TextOf(d, p).facts \in [Kinds -> Seq(Declarations)]
    BY <1>2, DiagnosticsAssumption
  <1>5. Facts(d, p, k) \in Seq(Declarations)
    BY <1>3, <1>4
  <1>6. CASE k = "table"
    BY <1>2, <1>3, <1>5, <1>6, DiagnosticsAssumption
  <1>7. CASE k = "view"
    BY <1>2, <1>3, <1>5, <1>7, DiagnosticsAssumption
  <1>8. QED
    BY <1>6, <1>7 DEF Kinds

(* Declared, by its members.                                               *)
LEMMA DeclaredMembers ==
  ASSUME NEW d \in Stores
  PROVE  /\ \A l \in Declared(d) :
              /\ l = << l[1], l[2], l[3] >>
              /\ l[1] \in Kinds /\ l[2] \in Tracked(d)
              /\ l[3] \in 1 .. Len(Facts(d, l[2], l[1]))
         /\ \A k \in Kinds, p \in Tracked(d) :
              \A i \in 1 .. Len(Facts(d, p, k)) : << k, p, i >> \in Declared(d)
  <1> DEFINE Of(k, p) == {<< k, p, i >> : i \in 1 .. Len(Facts(d, p, k))}
  <1>1. Declared(d) = UNION {Of(k, p) : k \in Kinds, p \in Tracked(d)}
    BY DEF Declared
  <1>2. ASSUME NEW l \in Declared(d)
        PROVE  \E k \in Kinds, p \in Tracked(d) : l \in Of(k, p)
    <2>. HIDE DEF Of
    <2> QED
      BY <1>1, <1>2
  <1>3. ASSUME NEW k \in Kinds, NEW p \in Tracked(d), NEW l \in Of(k, p)
        PROVE  l \in Declared(d)
    <2>. HIDE DEF Of
    <2> QED
      BY <1>1, <1>3
  <1>4. ASSUME NEW k \in Kinds, NEW p \in Tracked(d), NEW l \in Of(k, p)
        PROVE  /\ l = << l[1], l[2], l[3] >>
               /\ l[1] = k /\ l[2] = p /\ l[3] \in 1 .. Len(Facts(d, p, k))
    OBVIOUS
  <1>5. ASSUME NEW k \in Kinds, NEW p \in Tracked(d), NEW i \in 1 .. Len(Facts(d, p, k))
        PROVE  << k, p, i >> \in Of(k, p)
    OBVIOUS
  <1>. HIDE DEF Of
  <1>6. QED
    BY <1>2, <1>3, <1>4, <1>5

(* Stores of one fingerprint have, at the same locations, declarations of  *)
(* the same names that lack the same columns.                              *)
LEMMA SameSchema ==
  ASSUME NEW d \in Stores, NEW e \in Stores, Fingerprint(d) = Fingerprint(e),
         NEW l \in Declared(d)
  PROVE  /\ l \in Declared(e)
         /\ DeclarationAt(d, l).name = DeclarationAt(e, l).name
         /\ \A c \in Columns :
              Lacks(DeclarationAt(d, l), c) <=> Lacks(DeclarationAt(e, l), c)
  <1> DEFINE k == l[1]
             p == l[2]
             i == l[3]
             D == Facts(d, p, k)
             E == Facts(e, p, k)
  <1>1. l = << k, p, i >> /\ k \in Kinds /\ p \in Tracked(d) /\ i \in 1 .. Len(D)
    BY DeclaredMembers
  <1>2. p \in Paths
    BY <1>1 DEF Tracked
  <1>3. D \in Seq(Declarations)
    BY <1>1, FactsAreDeclarations
  <1>. HIDE DEF k, p, i
  <1>4. Fingerprint(d)[p][k] = [j \in 1 .. Len(D) |-> SchemaEntry(D[j])]
    BY <1>1, <1>2 DEF Fingerprint
  <1>5. p \in Tracked(e)
    <2>1. SUFFICES ASSUME p \notin Tracked(e) PROVE FALSE
      OBVIOUS
    <2>2. Fingerprint(e)[p][k] = << >>
      BY <1>1, <1>2, <2>1 DEF Fingerprint
    <2>3. DOMAIN [j \in 1 .. Len(D) |-> SchemaEntry(D[j])] = {}
      BY <1>4, <2>2
    <2>4. QED
      BY <1>1, <2>3
  <1>6. Fingerprint(e)[p][k] = [j \in 1 .. Len(E) |-> SchemaEntry(E[j])]
    BY <1>1, <1>2, <1>5 DEF Fingerprint
  <1>7. E \in Seq(Declarations)
    BY <1>1, <1>5, FactsAreDeclarations
  <1>8. i \in 1 .. Len(E) /\ SchemaEntry(D[i]) = SchemaEntry(E[i])
    <2>1. [j \in 1 .. Len(D) |-> SchemaEntry(D[j])] = [j \in 1 .. Len(E) |-> SchemaEntry(E[j])]
      BY <1>4, <1>6
    <2>. HIDE DEF D, E
    <2>2. 1 .. Len(D) = 1 .. Len(E)
      BY <2>1
    <2>3. QED
      BY <1>1, <2>1, <2>2
  <1>9. l \in Declared(e)
    BY <1>1, <1>5, <1>8, DeclaredMembers
  <1>10. D[i] \in Declarations /\ E[i] \in Declarations
    <2>. HIDE DEF D, E
    <2> QED
      BY <1>1, <1>3, <1>7, <1>8
  <1>11. D[i].shapeKnown <=> E[i].shapeKnown
    <2>1. CASE k = "table"
      BY <1>1, <1>5, <1>8, <2>1, FactsAreDeclarations
    <2>2. CASE k = "view"
      <3>1. D[i].shapeKnown => D[i].columns # {}
        BY <1>1, <2>2, FactsAreDeclarations
      <3>2. E[i].shapeKnown => E[i].columns # {}
        BY <1>1, <1>5, <1>8, <2>2, FactsAreDeclarations
      <3>3. QED
        BY <1>8, <3>1, <3>2 DEF SchemaEntry
    <2>3. QED
      BY <1>1, <2>1, <2>2 DEF Kinds
  <1>12. DeclarationAt(d, l) = D[i] /\ DeclarationAt(e, l) = E[i]
    BY <1>1 DEF DeclarationAt, k, p, i
  <1>13. QED
    BY <1>8, <1>9, <1>10, <1>11, <1>12 DEF SchemaEntry, Lacks

(* ... so the same name matches the same declarations, and the same        *)
(* members of a text miss their column.                                    *)
LEMMA SameMissing ==
  ASSUME NEW t \in Texts, NEW d \in Stores, NEW e \in Stores,
         Fingerprint(d) = Fingerprint(e)
  PROVE  MissingIn(t, d) = MissingIn(t, e)
  <1>1. Declared(d) = Declared(e)
    <2>1. \A l \in Declared(d) : l \in Declared(e)
      BY SameSchema
    <2>2. \A l \in Declared(e) : l \in Declared(d)
      BY SameSchema
    <2>3. QED
      BY <2>1, <2>2
  <1>2. \A n \in Names : FactMatches(d, n) = FactMatches(e, n)
    BY <1>1, SameSchema DEF FactMatches
  <1>3. \A m \in t.members : m.source.kind = "named" => m.source.name \in Names
    BY DiagnosticsAssumption DEF Members, Sources
  <1>4. \A m \in t.members : m.column \in Columns
    BY DiagnosticsAssumption DEF Members
  <1>5. \A m \in t.members, l \in Declared(d) :
          Lacks(DeclarationAt(d, l), m.column) <=> Lacks(DeclarationAt(e, l), m.column)
    BY <1>4, SameSchema
  <1>6. QED
    BY <1>1, <1>2, <1>3, <1>5 DEF MissingIn, Misses

\* The diagnostics of t without places, when the members in M miss in the schema.
ShownOf(p, t, M) ==
  [own |-> t.own,
   unknown |-> {<< x.member, x.kind, x.path >> : x \in UnknownLocally(p, t)}
                 \cup {<< x[1], x[2][1], x[2][2] >> : x \in M}]

(* What is left of a text's diagnostics without the places of declarations.*)
LEMMA UnplacedItems ==
  ASSUME NEW p \in Paths, NEW t \in Texts, NEW d \in Stores
  PROVE  Unplaced(Items(p, t, d)) = ShownOf(p, t, MissingIn(t, d))
  <1>1. {<< x.member, x.kind, x.path >> : x \in UnknownInSchema(t, d)}
          = {<< x[1], x[2][1], x[2][2] >> : x \in MissingIn(t, d)}
    <2> DEFINE U(x) == UnknownColumn(x[1], x[2][1], x[2][2], DeclarationAt(d, x[2]))
    <2>1. \A x : /\ U(x).member = x[1] /\ U(x).kind = x[2][1]
                 /\ U(x).path = x[2][2]
      BY DEF UnknownColumn
    <2>2. UnknownInSchema(t, d) = {U(x) : x \in MissingIn(t, d)}
      BY DEF UnknownInSchema
    <2> DEFINE V(x) == << x.member, x.kind, x.path >>
               W(x) == << x[1], x[2][1], x[2][2] >>
    <2>3. \A x : V(U(x)) = W(x)
      BY <2>1
    <2>4. ASSUME NEW M PROVE {V(y) : y \in {U(x) : x \in M}} = {W(x) : x \in M}
      <3>. HIDE DEF U, V, W
      <3>1. QED
        BY <2>3
    <2>5. QED
      BY <2>2, <2>4
  <1>2. QED
    BY <1>1 DEF Unplaced, Items, ShownOf

(* A result id determines the diagnostics, up to places.                   *)
THEOREM ResultIDDetermines ==
  ASSUME NEW p \in Paths, NEW t \in Texts, NEW u \in Texts,
         NEW d \in Stores, NEW e \in Stores, ResultID(t, d) = ResultID(u, e)
  PROVE  Unplaced(Items(p, t, d)) = Unplaced(Items(p, u, e))
  <1>1. t = u /\ Fingerprint(d) = Fingerprint(e)
    BY DEF ResultID
  <1>2. MissingIn(t, d) = MissingIn(t, e)
    BY <1>1, SameMissing
  <1>3. Unplaced(Items(p, t, d)) = Unplaced(Items(p, t, e))
    BY <1>2, UnplacedItems
  <1>4. QED
    BY <1>1, <1>3

------------------------------------------------------------------------------
(* The inductive invariant: what the client holds, and what a request has  *)
(* reported, are reports of some text under some store; if the store has   *)
(* not changed since the request began, of the texts and the store of now. *)
Made(p, r) == \E t \in Texts, d \in Stores : r = Report(p, t, d)

HeldMade == \A p \in Paths : held[p] = NoReport \/ Made(p, held[p])

PullMade ==
  /\ DOMAIN pull = {"workspace", "snapshots", "reports", "overtaken"}
  /\ DOMAIN pull.snapshots \subseteq Paths
  /\ DOMAIN pull.reports \subseteq DOMAIN pull.snapshots
  /\ \A p \in DOMAIN pull.snapshots : pull.snapshots[p] \in Texts
  /\ \A p \in DOMAIN pull.reports : Made(p, pull.reports[p])

PullCurrent ==
  /\ \A p \in DOMAIN pull.snapshots : pull.snapshots[p] = TextOf(documents, p)
  /\ \A p \in DOMAIN pull.reports :
       pull.reports[p] = Report(p, TextOf(documents, p), documents)

DiagnosticsInv ==
  /\ documents \in Stores
  /\ HeldMade
  /\ pull # NoPull => PullMade
  /\ pull # NoPull /\ ~pull.overtaken => PullCurrent

(* Reports of one id, made for one path, say the same.                     *)
LEMMA SameIDSameItems ==
  ASSUME NEW p \in Paths, NEW r, NEW s, Made(p, r), Made(p, s), r.id = s.id
  PROVE  Unplaced(r.items) = Unplaced(s.items)
  <1>1. PICK t \in Texts, d \in Stores : r = Report(p, t, d)
    BY DEF Made
  <1>2. PICK u \in Texts, e \in Stores : s = Report(p, u, e)
    BY DEF Made
  <1>3. ResultID(t, d) = ResultID(u, e)
    BY <1>1, <1>2 DEF Report
  <1>4. Unplaced(Items(p, t, d)) = Unplaced(Items(p, u, e))
    BY <1>3, ResultIDDetermines
  <1>5. QED
    BY <1>1, <1>2, <1>4 DEF Report

(* A report called "unchanged" has the diagnostics the client holds, up to *)
(* places.                                                                 *)
LEMMA UnchangedSame ==
  ASSUME DiagnosticsInv, pull # NoPull, NEW p \in DOMAIN pull.reports, Unchanged(p)
  PROVE  Unplaced(held[p].items) = Unplaced(pull.reports[p].items)
  <1>1. p \in Paths /\ Made(p, pull.reports[p])
    BY DEF DiagnosticsInv, PullMade
  <1>2. Made(p, held[p]) /\ held[p].id = pull.reports[p].id
    BY <1>1 DEF DiagnosticsInv, HeldMade, Unchanged
  <1>3. QED
    BY <1>1, <1>2, SameIDSameItems

(* A lookup in the store gives a text: the empty one where there is none.  *)
LEMMA TextOfType ==
  ASSUME NEW d \in Stores, NEW p \in Paths
  PROVE  TextOf(d, p) \in Texts
  BY DiagnosticsAssumption DEF TextOf, Stores

(* A request that just began has reported nothing, and read what is stored. *)
LEMMA BegunOK ==
  ASSUME DiagnosticsInv, NEW w \in BOOLEAN, NEW Q \in SUBSET Paths,
         pull' = Begun(w, [q \in Q |-> TextOf(documents, q)]),
         UNCHANGED << documents, held >>
  PROVE  DiagnosticsInv'
  <1>1. /\ pull'.snapshots = [q \in Q |-> TextOf(documents, q)]
        /\ DOMAIN pull'.reports = {}
        /\ DOMAIN pull' = {"workspace", "snapshots", "reports", "overtaken"}
    BY DEF Begun
  <1>2. HeldMade' /\ documents' \in Stores
    BY DEF DiagnosticsInv, HeldMade
  <1>3. PullMade'
    BY <1>1, TextOfType DEF DiagnosticsInv, PullMade
  <1>4. PullCurrent'
    BY <1>1 DEF PullCurrent
  <1>5. QED
    BY <1>2, <1>3, <1>4 DEF DiagnosticsInv

(* ComputeReport adds the report of the text that the request read.        *)
LEMMA ComputeReportOK ==
  ASSUME DiagnosticsInv, NEW p \in Paths, ComputeReport(p)
  PROVE  DiagnosticsInv'
  <1> DEFINE report == Report(p, pull.snapshots[p], documents)
             more == [q \in {p} \cup DOMAIN pull.reports |->
                        IF q = p THEN report ELSE pull.reports[q]]
  <1>1. pull # NoPull /\ p \in DOMAIN pull.snapshots
    BY DEF ComputeReport
  <1>2. pull' = [pull EXCEPT !.reports = more] /\ UNCHANGED << documents, held >>
    BY DEF ComputeReport
  <1>3. PullMade /\ documents \in Stores
    BY <1>1 DEF DiagnosticsInv
  <1>4. Made(p, report) /\ report = Report(p, pull.snapshots[p], documents)
    BY <1>1, <1>3 DEF Made, PullMade
  <1>. HIDE DEF report
  <1>5. /\ pull'.snapshots = pull.snapshots
        /\ pull'.overtaken = pull.overtaken
        /\ pull'.reports = more
        /\ DOMAIN pull' = DOMAIN pull
    <2>. HIDE DEF more
    <2> QED
      BY <1>2, <1>3 DEF PullMade
  <1>6. /\ DOMAIN more = {p} \cup DOMAIN pull.reports
        /\ more[p] = report
        /\ \A q \in DOMAIN pull.reports : q # p => more[q] = pull.reports[q]
    OBVIOUS
  <1>. HIDE DEF more
  <1>7. PullMade'
    BY <1>1, <1>3, <1>4, <1>5, <1>6 DEF PullMade, Made
  <1>8. ~pull.overtaken => PullCurrent'
    <2>1. SUFFICES ASSUME ~pull.overtaken PROVE PullCurrent'
      OBVIOUS
    <2>2. PullCurrent
      BY <1>1, <2>1 DEF DiagnosticsInv
    <2>3. report = Report(p, TextOf(documents, p), documents)
      BY <1>1, <1>4, <2>2 DEF PullCurrent
    <2>4. \A q \in DOMAIN more : more[q] = Report(q, TextOf(documents, q), documents)
      BY <1>6, <2>2, <2>3 DEF PullCurrent
    <2>5. QED
      BY <1>2, <1>5, <2>2, <2>4 DEF PullCurrent
  <1>9. QED
    BY <1>2, <1>5, <1>7, <1>8 DEF DiagnosticsInv, HeldMade

(* Reply gives the client reports of the request, or leaves those it       *)
(* holds.                                                                  *)
LEMMA ReplyOK ==
  ASSUME DiagnosticsInv, Reply
  PROVE  DiagnosticsInv'
  <1>1. pull' = NoPull /\ documents' = documents /\ pull # NoPull
    BY DEF Reply
  <1>2. ASSUME NEW p \in Paths PROVE held'[p] = NoReport \/ Made(p, held'[p])
    <2>1. \/ held'[p] = held[p]
          \/ p \in DOMAIN pull.reports /\ held'[p] = pull.reports[p]
      BY DEF Reply
    <2>2. QED
      BY <1>1, <2>1 DEF DiagnosticsInv, HeldMade, PullMade
  <1>3. HeldMade'
    BY <1>2 DEF HeldMade
  <1>4. QED
    BY <1>1, <1>3 DEF DiagnosticsInv

(* A change of the store spoils no report that was made, and marks the     *)
(* request as overtaken.                                                   *)
LEMMA StoreChangeOK ==
  ASSUME DiagnosticsInv, NEW p \in Paths, NEW t \in Texts \cup {NoText}, StoreChange(p, t)
  PROVE  DiagnosticsInv'
  <1>1. documents' \in Stores
    BY DEF DiagnosticsInv, StoreChange, Stores
  <1>2. HeldMade'
    BY DEF DiagnosticsInv, StoreChange, HeldMade
  <1>3. CASE pull = NoPull
    BY <1>1, <1>2, <1>3 DEF DiagnosticsInv, StoreChange
  <1>4. CASE pull # NoPull
    <2>1. pull' = [pull EXCEPT !.overtaken = TRUE] /\ PullMade
      BY <1>4 DEF StoreChange, DiagnosticsInv
    <2>2. /\ pull'.snapshots = pull.snapshots /\ pull'.reports = pull.reports
          /\ DOMAIN pull' = DOMAIN pull /\ pull'.overtaken
      BY <2>1 DEF PullMade
    <2>3. PullMade'
      BY <2>1, <2>2 DEF PullMade
    <2>4. QED
      BY <1>1, <1>2, <2>2, <2>3 DEF DiagnosticsInv
  <1>5. QED
    BY <1>3, <1>4

(* Every step keeps the invariant.                                         *)
LEMMA DiagnosticsStepOK ==
  ASSUME DiagnosticsInv, [Next]_vars
  PROVE  DiagnosticsInv'
  <1>1. ASSUME NEW p \in Paths, Diagnostic(p) PROVE DiagnosticsInv'
    BY <1>1, BegunOK, {p} \in SUBSET Paths DEF Diagnostic
  <1>2. CASE DiagnosticWorkspace
    <2>1. \A q \in Tracked(documents) : TextOf(documents, q) = documents[q]
      BY DEF Tracked, TextOf
    <2>2. [q \in Tracked(documents) |-> documents[q]]
            = [q \in Tracked(documents) |-> TextOf(documents, q)]
      BY <2>1
    <2>3. Tracked(documents) \in SUBSET Paths
      BY DEF Tracked
    <2>4. QED
      BY <1>2, <2>2, <2>3, BegunOK DEF DiagnosticWorkspace
  <1>3. CASE Cancel
    BY <1>3 DEF Cancel, DiagnosticsInv, HeldMade
  <1>4. CASE UNCHANGED vars
    BY <1>4 DEF vars, DiagnosticsInv, HeldMade, PullMade, PullCurrent
  <1>5. QED
    BY <1>1, <1>2, <1>3, <1>4, ComputeReportOK, ReplyOK, StoreChangeOK DEF Next

(* It holds at first: nothing was reported.                                *)
LEMMA DiagnosticsInitOK == Init => DiagnosticsInv
  BY DEF Init, DiagnosticsInv, HeldMade, Stores

(* Hence it holds always.                                                  *)
LEMMA DiagnosticsInvariant == Spec => []DiagnosticsInv
  BY DiagnosticsInitOK, DiagnosticsStepOK, PTL DEF Spec

(* However the schema changes between and during requests, a report is     *)
(* called "unchanged" only when the diagnostics of Diagnostic and          *)
(* DiagnosticWorkspace are those the client holds, up to places.           *)
THEOREM UnchangedIsHonest == Spec => []UnchangedMeansSame
  <1>1. DiagnosticsInv => UnchangedMeansSame
    BY UnchangedSame DEF UnchangedMeansSame
  <1>2. QED
    BY <1>1, DiagnosticsInvariant, PTL

(* A request that the store did not overtake leaves the client with the    *)
(* diagnostics of now, whatever it held before.                            *)
THEOREM PullsAreCurrent == Spec => PulledIsCurrent
  <1> DEFINE Now(p) == Items(p, TextOf(documents, p), documents)
             Good == Reply /\ ~pull.overtaken => \A p \in DOMAIN pull.snapshots :
                       Unplaced(held'[p].items) = Unplaced(Now(p))
  <1>1. ASSUME DiagnosticsInv, Reply, ~pull.overtaken, NEW p \in DOMAIN pull.snapshots
        PROVE  Unplaced(held'[p].items) = Unplaced(Now(p))
    <2>1. pull # NoPull /\ p \in DOMAIN pull.reports /\ p \in Paths
      BY <1>1 DEF Reply, DiagnosticsInv, PullMade
    <2>2. pull.reports[p] = Report(p, TextOf(documents, p), documents)
      BY <1>1, <2>1 DEF DiagnosticsInv, PullCurrent
    <2>3. pull.reports[p].items = Now(p)
      BY <2>2 DEF Report
    <2>4. CASE Unchanged(p)
      <3>1. held'[p] = held[p]
        BY <1>1, <2>1, <2>4 DEF Reply
      <3>2. QED
        BY <1>1, <2>1, <2>3, <2>4, <3>1, UnchangedSame
    <2>5. CASE ~Unchanged(p)
      <3>1. held'[p] = pull.reports[p]
        BY <1>1, <2>1, <2>5 DEF Reply
      <3>2. QED
        BY <2>3, <3>1
    <2>6. QED
      BY <2>4, <2>5
  <1>2. DiagnosticsInv => [Good]_vars
    BY <1>1
  <1>3. QED
    BY <1>2, DiagnosticsInvariant, PTL DEF PulledIsCurrent

------------------------------------------------------------------------------
(* The declarations and members a diagnostic names are in the documents:   *)
(* the types, which need what DiagnosticsInv says of the reports.          *)
Flags ==
  /\ DOMAIN held = Paths
  /\ pull # NoPull => pull.workspace \in BOOLEAN /\ pull.overtaken \in BOOLEAN
  /\ changes \in 0 .. MaxChanges

(* A diagnostic is about a member of the text, and links to a document.    *)
LEMMA UnknownAreMembers ==
  ASSUME NEW p \in Paths, NEW t \in Texts, NEW d \in Stores,
         NEW x \in UnknownLocally(p, t) \cup UnknownInSchema(t, d)
  PROVE  x.member \in t.members /\ x.path \in Paths
  <1>1. ASSUME x \in UnknownLocally(p, t) PROVE x.member \in t.members /\ x.path \in Paths
    <2>1. PICK m \in MissingLocally(t) :
            x = UnknownColumn(m, m.source.kind, p, m.source.declaration)
      BY <1>1 DEF UnknownLocally
    <2>2. m \in t.members
      BY <2>1 DEF MissingLocally
    <2>3. QED
      BY <2>1, <2>2 DEF UnknownColumn
  <1>2. ASSUME x \in UnknownInSchema(t, d) PROVE x.member \in t.members /\ x.path \in Paths
    <2>1. PICK y \in MissingIn(t, d) :
            x = UnknownColumn(y[1], y[2][1], y[2][2], DeclarationAt(d, y[2]))
      BY <1>2 DEF UnknownInSchema
    <2>2. y[1] \in t.members /\ y[2] \in Declared(d)
      BY <2>1 DEF MissingIn
    <2>3. y[2][2] \in Paths
      BY <2>2, DeclaredMembers DEF Tracked
    <2>4. QED
      BY <2>1, <2>2, <2>3 DEF UnknownColumn
  <1>3. QED
    BY <1>1, <1>2

(* A report that was made is a report.                                     *)
LEMMA MadeIsReport ==
  ASSUME NEW p \in Paths, NEW r, Made(p, r)
  PROVE  IsReport(r)
  <1>1. PICK t \in Texts, d \in Stores : r = Report(p, t, d)
    BY DEF Made
  <1>2. /\ DOMAIN r = {"id", "items"} /\ r.id = ResultID(t, d)
        /\ r.items = Items(p, t, d)
    BY <1>1 DEF Report
  <1>3. r.id[1] = t
    BY <1>2 DEF ResultID
  <1>4. /\ DOMAIN r.items = {"own", "unknown"} /\ r.items.own = t.own
        /\ r.items.unknown = UnknownLocally(p, t) \cup UnknownInSchema(t, d)
    BY <1>2 DEF Items
  <1>5. QED
    BY <1>2, <1>3, <1>4, UnknownAreMembers DEF IsReport

(* What the invariant says of the reports gives their types.               *)
LEMMA InvariantsType == DiagnosticsInv /\ Flags => TypeOK
  <1> SUFFICES ASSUME DiagnosticsInv, Flags PROVE TypeOK
    OBVIOUS
  <1>1. \A p \in Paths : held[p] = NoReport \/ IsReport(held[p])
    BY MadeIsReport DEF DiagnosticsInv, HeldMade
  <1>2. ASSUME pull # NoPull PROVE IsPull(pull)
    <2>1. PullMade
      BY <1>2 DEF DiagnosticsInv
    <2>2. \A p \in DOMAIN pull.reports : IsReport(pull.reports[p])
      BY <2>1, MadeIsReport DEF PullMade
    <2>3. QED
      BY <1>2, <2>1, <2>2 DEF PullMade, Flags, IsPull
  <1>3. QED
    BY <1>1, <1>2 DEF DiagnosticsInv, Flags, TypeOK

(* The flags of a request, the domain of held and the count of changes.    *)
LEMMA FlagsStepOK ==
  ASSUME DiagnosticsInv, Flags, [Next]_vars
  PROVE  Flags'
  <1>1. ASSUME NEW p \in Paths, Diagnostic(p) PROVE Flags'
    BY <1>1 DEF Diagnostic, Begun, Flags
  <1>2. CASE DiagnosticWorkspace
    BY <1>2 DEF DiagnosticWorkspace, Begun, Flags
  <1>3. ASSUME NEW p \in Paths, ComputeReport(p) PROVE Flags'
    <2>1. pull # NoPull /\ PullMade
      BY <1>3 DEF ComputeReport, DiagnosticsInv
    <2>2. PICK m : pull' = [pull EXCEPT !.reports = m]
      BY <1>3 DEF ComputeReport
    <2>3. pull'.workspace = pull.workspace /\ pull'.overtaken = pull.overtaken
      BY <2>1, <2>2 DEF PullMade
    <2>4. UNCHANGED << held, changes >>
      BY <1>3 DEF ComputeReport
    <2>5. QED
      BY <2>1, <2>3, <2>4 DEF Flags
  <1>4. CASE Reply
    BY <1>4 DEF Reply, Flags
  <1>5. CASE Cancel
    BY <1>5 DEF Cancel, Flags
  <1>6. ASSUME NEW p \in Paths, NEW t \in Texts \cup {NoText}, StoreChange(p, t)
        PROVE  Flags'
    <2>1. changes' \in 0 .. MaxChanges
      BY <1>6, BoundAssumption DEF StoreChange, Flags
    <2>2. ASSUME pull # NoPull PROVE pull'.workspace \in BOOLEAN /\ pull'.overtaken \in BOOLEAN
      <3>1. pull' = [pull EXCEPT !.overtaken = TRUE] /\ PullMade
        BY <1>6, <2>2 DEF StoreChange, DiagnosticsInv
      <3>2. pull'.workspace = pull.workspace /\ pull'.overtaken = TRUE
        BY <3>1 DEF PullMade
      <3>3. QED
        BY <2>2, <3>2 DEF Flags
    <2>3. held' = held /\ (pull = NoPull => pull' = NoPull)
      BY <1>6 DEF StoreChange
    <2>4. QED
      BY <2>1, <2>2, <2>3 DEF Flags
  <1>7. CASE UNCHANGED vars
    BY <1>7 DEF vars, Flags
  <1>8. QED
    BY <1>1, <1>2, <1>3, <1>4, <1>5, <1>6, <1>7 DEF Next

(* Whatever the documents are and however the store changes under a        *)
(* request, each report Diagnostic and DiagnosticWorkspace make or the     *)
(* client holds is about the text its result id names, and every           *)
(* diagnostic in it links to a document: the types.                        *)
THEOREM PullsKeepTypes == Spec => []TypeOK
  <1>1. Init => Flags
    BY BoundAssumption DEF Init, Flags
  <1>2. Spec => []Flags
    BY <1>1, FlagsStepOK, DiagnosticsInvariant, PTL DEF Spec
  <1>3. QED
    BY <1>2, DiagnosticsInvariant, InvariantsType, PTL
================================================================================
