----------------------------- MODULE ScanRowsProofs -----------------------------
(***************************************************************************)
(* What scans leave behind, for any findings and scans.  What an execution *)
(* has loaded and not yet stored of a row is the row's count, unless a     *)
(* version moved, which fails its store, or a deletion moved the row,      *)
(* which is recorded; and of the rows a deletion's UPDATE has left, those  *)
(* not stored since were seen by its scan alone.  Triage that is run again,*)
(* for any number of requests and any limits: a task that runs has stamped *)
(* the row since it started, and ends before the watchdog's limit.  And    *)
(* tickets, for any boards, retries and upsets: of the fan-outs that hold  *)
(* a row at most one can still commit it, the one whose scan the row is    *)
(* anchored to, so a second ticket is filed next to another fan-out or     *)
(* after its marker was lost.                                              *)
(***************************************************************************)
EXTENDS ScanHistory, TicketFanout, RetroTriage, FiniteSetTheorems, WellFoundedInduction, TLAPS

\* An execution has seen a row when it has stored it, and stores it once.
SeenInOrder ==
    /\ created \in Seq(PastScans)
    /\ sightings \in [PastFindings -> SUBSET Executions]
    /\ \A f \in PastFindings : \A e \in sightings[f] : e[1] \in Made /\ e[2] <= attempt[e[1]]
    /\ \A s \in PastScans : \A f \in pending[s] :
          s \in There /\ attempt[s] > 0 /\ <<s, attempt[s]>> \notin sightings[f]
    /\ \A f \in PastFindings \ SeenRows : sightings[f] = {}
    /\ \A f \in SeenRows \ moved : anchor[f] \in Seers(f)

\* An execution holds only what it has yet to store.
HoldsPending ==
    \A s \in PastScans, f \in PastFindings :
        f \notin pending[s] => memory[s][f] = 0 /\ f \notin aged[s]

\* A count that was loaded and can be stored is still that of the row.
LoadedIsCurrent ==
    \A s \in PastScans, f \in PastFindings :
        memory[s][f] > 0 /\ f \notin aged[s] =>
            /\ f \in SeenRows /\ memory[s][f] <= Cardinality(sightings[f])
            /\ f \notin moved => memory[s][f] = count[f]

\* What an UPDATE holds locked will be moved to a scan there is; of what it has left, a
\* row that was not stored since was seen by no other scan there is.
DeletionInv ==
    /\ \A s \in PastScans : /\ deletion[s] # "none" => s \in There
                            /\ deletion[s] = "chosen" => survivor[s] # s
    /\ \A f \in kept : /\ deletion[anchor[f]] = "updated" /\ count[f] > 1
                       /\ survivor[anchor[f]] \in There \ {anchor[f]}
    /\ \A f \in SeenRows \ (moved \cup late \cup kept) :
          deletion[anchor[f]] = "updated" => Seers(f) \subseteq gone \cup {anchor[f]}

HistoryIInv ==
    /\ HistoryTypeOK /\ CountIsSightings /\ SeenInOrder /\ HoldsPending
    /\ LoadedIsCurrent /\ DeletionInv

-----------------------------------------------------------------------------
(* The newest scan *)

\* Numbers up to a bound have a least one.
LEMMA Least ==
    ASSUME NEW N \in Nat, NEW T \in SUBSET (1 .. N), T # {}
    PROVE  \E m \in T : \A n \in T : m <= n
<1> DEFINE I    == 1 .. N
           O    == StrictSubsetOrdering(I)
           Segs == {1 .. m : m \in T}
<1>1. IsFiniteSet(I)
  BY FS_Interval
<1>2. FiniteSubsetsOf(I) = SUBSET I
  BY <1>1, FS_FiniteSubsetsOfFinite
<1>3. IsWellFoundedOn(O, SUBSET I)
  BY <1>2, FS_StrictSubsetOrderingWellFounded
<1>4. Segs \subseteq SUBSET I /\ Segs # {}
  <2>1. \A m \in T : 1 .. m \subseteq I
    OBVIOUS
  <2> HIDE DEF I
  <2> QED BY <2>1
<1>5. PICK x \in Segs : \A y \in Segs : ~(<<y, x>> \in O)
  <2> HIDE DEF O, Segs, I
  <2> QED BY <1>3, <1>4, WFMin
<1>6. PICK m \in T : x = 1 .. m
  OBVIOUS
<1>7. ASSUME NEW n \in T PROVE m <= n
  <2> SUFFICES ASSUME n < m PROVE FALSE
    OBVIOUS
  <2>1. 1 .. n \subseteq 1 .. m /\ 1 .. n # 1 .. m
    OBVIOUS
  <2>2. 1 .. n \in SUBSET I /\ 1 .. m \in SUBSET I /\ 1 .. n \in Segs
    OBVIOUS
  <2>3. <<1 .. n, x>> \in O
    BY <1>6, <2>1, <2>2 DEF StrictSubsetOrdering
  <2> QED BY <1>5, <2>2, <2>3
<1> QED BY <1>7

\* Of the scans of a set, one was created last.
LEMMA NewestIsOneOfThem ==
    ASSUME created \in Seq(PastScans), NEW S, S \cap Made # {}
    PROVE  Newest(S) \in S
<1> DEFINE N == Len(created)
           T == {n \in 1 .. N : created[N + 1 - n] \in S}
<1>1. N \in Nat OBVIOUS
<1>2. T \in SUBSET (1 .. N) OBVIOUS
<1>3. T # {}
  <2>1. PICK i \in 1 .. N : created[i] \in S BY DEF Made
  <2>2. N + 1 - i \in 1 .. N /\ N + 1 - (N + 1 - i) = i BY <1>1, <2>1
  <2> QED BY <2>1, <2>2
<1>4. PICK m \in T : \A n \in T : m <= n
  <2> HIDE DEF N, T
  <2> QED BY <1>1, <1>2, <1>3, Least
<1> DEFINE i == N + 1 - m
<1>5. i \in 1 .. N /\ created[i] \in S BY <1>1, <1>4
<1>6. \A j \in i + 1 .. N : created[j] \notin S
  <2> SUFFICES ASSUME NEW j \in i + 1 .. N, created[j] \in S PROVE FALSE
    OBVIOUS
  <2>1. N + 1 - j \in 1 .. N /\ N + 1 - (N + 1 - j) = j /\ N + 1 - j < m BY <1>1, <1>2, <1>4
  <2>2. N + 1 - j \in T BY <2>1
  <2> QED BY <1>1, <1>4, <2>1, <2>2
<1>7. \E k \in 1 .. Len(created) : /\ created[k] \in S
                                   /\ \A j \in k + 1 .. Len(created) : created[j] \notin S
  BY <1>5, <1>6
<1> QED BY <1>7 DEF Newest

-----------------------------------------------------------------------------
(* Counting *)

LEMMA ExecutionsFinite ==
    ASSUME HistoryScans
    PROVE  IsFiniteSet(Executions) /\ Cardinality(Executions) \in Nat
<1>1. IsFiniteSet(1 .. MaxReruns + 1)
  BY FS_Interval DEF HistoryScans
<1>2. IsFiniteSet(Executions)
  BY <1>1, FS_Product DEF HistoryScans, Executions
<1> QED BY <1>2, FS_CardinalityType

LEMMA SeenAreFew ==
    ASSUME HistoryScans, NEW S \in SUBSET Executions
    PROVE  IsFiniteSet(S) /\ Cardinality(S) \in 0 .. Cardinality(Executions)
<1>1. IsFiniteSet(S) /\ Cardinality(S) <= Cardinality(Executions) BY ExecutionsFinite, FS_Subset
<1>2. Cardinality(S) \in Nat BY <1>1, FS_CardinalityType
<1> QED BY <1>1, <1>2, ExecutionsFinite

LEMMA SeenOnceMore ==
    ASSUME HistoryScans, NEW S \in SUBSET Executions, NEW e \in Executions \ S
    PROVE  /\ Cardinality(S \cup {e}) = Cardinality(S) + 1
           /\ Cardinality(S) + 1 \in 1 .. Cardinality(Executions)
<1>1. IsFiniteSet(S) /\ Cardinality(S) \in Nat BY SeenAreFew
<1>2. Cardinality(S \cup {e}) = Cardinality(S) + 1 BY <1>1, FS_AddElement
<1>3. S \cup {e} \in SUBSET Executions OBVIOUS
<1>4. Cardinality(S \cup {e}) \in 0 .. Cardinality(Executions) BY <1>3, SeenAreFew
<1> QED BY <1>1, <1>2, <1>4, ExecutionsFinite

LEMMA MadeAppend ==
    ASSUME NEW s \in PastScans, created \in Seq(PastScans), created' = Append(created, s)
    PROVE  created' \in Seq(PastScans) /\ Made' = Made \cup {s} /\ Len(created') = Len(created) + 1
<1>1. created' \in Seq(PastScans) /\ Len(created') = Len(created) + 1 OBVIOUS
<1>2. /\ \A i \in 1 .. Len(created) : created'[i] = created[i]
      /\ created'[Len(created) + 1] = s
  OBVIOUS
<1>3. 1 .. Len(created') = (1 .. Len(created)) \cup {Len(created) + 1}
  <2>1. Len(created) \in Nat OBVIOUS
  <2> QED BY <1>1, <2>1
<1>4. Made' = Made \cup {s} BY <1>2, <1>3 DEF Made
<1> QED BY <1>1, <1>4

LEMMA HistoryTypes ==
    ASSUME HistoryScans, HistoryIInv
    PROVE  /\ Made \in SUBSET PastScans /\ There \subseteq Made /\ gone \subseteq Made
           /\ count \in [PastFindings -> Nat] /\ memory \in [PastScans -> [PastFindings -> Nat]]
           /\ \A f \in PastFindings : sightings[f] \in SUBSET Executions
           /\ \A f \in PastFindings : Cardinality(sightings[f]) \in Nat
           /\ SeenRows \subseteq PastFindings /\ There \subseteq PastScans /\ NoAnchor \notin There
<1>1. Cardinality(Executions) \in Nat BY ExecutionsFinite
<1>2. Made \in SUBSET PastScans /\ There \subseteq Made /\ gone \subseteq Made
  BY DEF HistoryIInv, HistoryTypeOK, There
<1>3. count \in [PastFindings -> Nat] /\ memory \in [PastScans -> [PastFindings -> Nat]]
  BY <1>1 DEF HistoryIInv, HistoryTypeOK
<1>4. \A f \in PastFindings : sightings[f] \in SUBSET Executions
  BY DEF HistoryIInv, SeenInOrder
<1>5. \A f \in PastFindings : Cardinality(sightings[f]) \in Nat
  BY <1>1, <1>4, SeenAreFew
<1> QED BY <1>2, <1>3, <1>4, <1>5 DEF SeenRows, HistoryScans

\* An execution number is an execution's.
LEMMA AtHand ==
    ASSUME HistoryScans, HistoryIInv, NEW s \in PastScans, attempt[s] > 0
    PROVE  <<s, attempt[s]>> \in Executions
<1>1. attempt[s] \in 0 .. reruns + 1 /\ reruns \in 0 .. MaxReruns /\ MaxReruns \in Nat
  BY DEF HistoryIInv, HistoryTypeOK, HistoryScans
<1>2. attempt[s] \in 1 .. MaxReruns + 1 BY <1>1
<1> QED BY <1>2 DEF Executions

-----------------------------------------------------------------------------
LEMMA HistoryBegins == ASSUME HistoryScans, HistoryInit PROVE HistoryIInv
<1> USE DEF HistoryInit
<1>1. Made = {} /\ SeenRows = {} /\ There = {} /\ Len(created) = 0 BY DEF Made, SeenRows, There
<1>2. Cardinality({}) = 0 BY FS_EmptySet
<1>3. Cardinality(Executions) \in Nat BY ExecutionsFinite
<1>4. HistoryTypeOK BY <1>1, <1>2, <1>3 DEF HistoryTypeOK, NoCount, HistoryScans
<1>5. CountIsSightings BY <1>1 DEF CountIsSightings
<1>6. SeenInOrder BY <1>1 DEF SeenInOrder
<1>7. HoldsPending BY DEF HoldsPending, NoCount
<1>8. LoadedIsCurrent BY DEF LoadedIsCurrent, NoCount
<1>9. DeletionInv BY <1>1 DEF DeletionInv
<1> QED BY <1>4, <1>5, <1>6, <1>7, <1>8, <1>9 DEF HistoryIInv

LEMMA BeginKeeps ==
    ASSUME HistoryScans, HistoryIInv, NEW s \in PastScans, BeginScan(s)
    PROVE  HistoryIInv'
<1> USE DEF HistoryIInv
<1>1. /\ s \notin Made /\ created' = Append(created, s) /\ living' = living \cup {s}
      /\ UNCHANGED <<attempt, reruns, pending, memory, aged, anchor, count, sightings, moved,
                     gone, deletion, survivor, kept, late>>
  BY DEF BeginScan, holdVars, seenVars, deletionVars
<1>2. created' \in Seq(PastScans) /\ Made' = Made \cup {s} /\ Len(created') = Len(created) + 1
  BY <1>1, MadeAppend DEF SeenInOrder
<1>3. Len(created') = Cardinality(Made')
  <2>1. Made \in SUBSET PastScans BY HistoryTypes
  <2>2. IsFiniteSet(Made) BY <2>1, FS_Subset DEF HistoryScans
  <2>3. Cardinality(Made \cup {s}) = Cardinality(Made) + 1 BY <1>1, <2>2, FS_AddElement
  <2> QED BY <1>2, <2>3 DEF HistoryTypeOK
<1>4. There' = There \cup {s} BY <1>1, <1>2, HistoryTypes DEF There
<1>5. SeenRows' = SeenRows BY <1>1 DEF SeenRows
<1>6. \A f \in PastFindings : Seers(f)' = Seers(f) BY <1>1 DEF Seers
<1>7. HistoryTypeOK'
  <2>1. Made' \subseteq PastScans /\ living' \subseteq There' /\ gone' \subseteq Made'
    BY <1>1, <1>2, <1>4 DEF HistoryTypeOK
  <2>2. anchor' \in [PastFindings -> There' \cup {NoAnchor}] BY <1>1, <1>4 DEF HistoryTypeOK
  <2> QED BY <1>1, <1>3, <1>5, <2>1, <2>2 DEF HistoryTypeOK, Executions
<1>8. CountIsSightings' BY <1>1, <1>5 DEF CountIsSightings
<1>9. SeenInOrder' BY <1>1, <1>2, <1>4, <1>5, <1>6, HistoryTypes DEF SeenInOrder, Executions
<1>10. HoldsPending' BY <1>1 DEF HoldsPending
<1>11. LoadedIsCurrent' BY <1>1, <1>5 DEF LoadedIsCurrent
<1>12. DeletionInv' BY <1>1, <1>4, <1>5, <1>6, HistoryTypes DEF DeletionInv
<1> QED BY <1>7, <1>8, <1>9, <1>10, <1>11, <1>12

LEMMA ExecuteKeeps ==
    ASSUME HistoryScans, HistoryIInv, NEW s \in PastScans, ExecuteScan(s)
    PROVE  HistoryIInv'
<1> USE DEF HistoryIInv
<1>1. /\ s \in There /\ pending[s] = {}
      /\ attempt' = [attempt EXCEPT ![s] = @ + 1] /\ living' = living \cup {s}
      /\ pending' = [pending EXCEPT ![s] = PastFindings]
      /\ memory' = [memory EXCEPT ![s] = count] /\ aged' = [aged EXCEPT ![s] = {}]
      /\ UNCHANGED <<created, anchor, count, sightings, moved, gone, deletion, survivor, kept, late>>
  BY DEF ExecuteScan, seenVars, deletionVars
<1>2. Made' = Made /\ There' = There /\ SeenRows' = SeenRows BY <1>1 DEF Made, There, SeenRows
<1>3. \A f \in PastFindings : Seers(f)' = Seers(f) BY <1>1 DEF Seers
<1>4. /\ reruns' \in 0 .. MaxReruns /\ attempt' \in [PastScans -> 0 .. reruns' + 1]
      /\ attempt'[s] = attempt[s] + 1 /\ attempt[s] \in Nat
      /\ \A t \in PastScans \ {s} : attempt'[t] = attempt[t]
  <2>1. /\ MaxReruns \in Nat /\ reruns \in 0 .. MaxReruns
        /\ attempt \in [PastScans -> 0 .. reruns + 1]
    BY DEF HistoryTypeOK, HistoryScans
  <2>2. CASE attempt[s] = 0
    <3>1. reruns' = reruns BY <2>2 DEF ExecuteScan
    <3> QED BY <2>1, <2>2, <3>1, <1>1
  <2>3. CASE attempt[s] # 0
    <3>1. reruns < MaxReruns /\ reruns' = reruns + 1 BY <2>3 DEF ExecuteScan
    <3> QED BY <2>1, <2>3, <3>1, <1>1
  <2> QED BY <2>2, <2>3
<1>5. HistoryTypeOK'
  <2>1. memory' \in [PastScans -> [PastFindings -> 0 .. Cardinality(Executions)]]
    BY <1>1 DEF HistoryTypeOK
  <2>2. pending' \in [PastScans -> SUBSET PastFindings] /\ aged' \in [PastScans -> SUBSET PastFindings]
    BY <1>1 DEF HistoryTypeOK
  <2> QED BY <1>1, <1>2, <1>4, <2>1, <2>2 DEF HistoryTypeOK, Executions
<1>6. CountIsSightings' BY <1>1, <1>2 DEF CountIsSightings
<1>7. SeenInOrder'
  <2>1. \A f \in PastFindings : \A e \in sightings[f] :
           e[1] \in Made /\ e[1] \in PastScans /\ e[2] \in Nat /\ e[2] <= attempt[e[1]]
    BY HistoryTypes DEF SeenInOrder, Executions, HistoryScans
  <2>2. \A f \in PastFindings : \A e \in sightings'[f] : e[1] \in Made' /\ e[2] <= attempt'[e[1]]
    <3> SUFFICES ASSUME NEW f \in PastFindings, NEW e \in sightings[f] PROVE e[2] <= attempt'[e[1]]
      BY <1>1, <1>2, <2>1
    <3>1. CASE e[1] = s BY <3>1, <2>1, <1>4
    <3>2. CASE e[1] # s BY <3>2, <2>1, <1>4
    <3> QED BY <3>1, <3>2
  <2>3. \A t \in PastScans : \A f \in pending'[t] :
           t \in There' /\ attempt'[t] > 0 /\ <<t, attempt'[t]>> \notin sightings'[f]
    <3> SUFFICES ASSUME NEW t \in PastScans, NEW f \in pending'[t]
                 PROVE  t \in There /\ attempt'[t] > 0 /\ <<t, attempt'[t]>> \notin sightings[f]
      BY <1>1, <1>2
    <3>1. f \in PastFindings BY <1>5 DEF HistoryTypeOK
    <3>2. CASE t = s
      <4>1. <<s, attempt'[s]>> \in sightings[f] => attempt'[s] <= attempt[s] BY <2>1, <3>1
      <4> QED BY <3>2, <4>1, <1>1, <1>4
    <3>3. CASE t # s
      <4>1. pending'[t] = pending[t] /\ attempt'[t] = attempt[t] BY <3>3, <1>1, <1>4 DEF HistoryTypeOK
      <4> QED BY <4>1 DEF SeenInOrder
    <3> QED BY <3>2, <3>3
  <2> QED BY <1>1, <1>2, <1>3, <2>2, <2>3, HistoryTypes DEF SeenInOrder, Executions
<1>8. HoldsPending'
  BY <1>1 DEF HoldsPending, HistoryTypeOK
<1>9. LoadedIsCurrent'
  <2> SUFFICES ASSUME NEW t \in PastScans, NEW f \in PastFindings, memory'[t][f] > 0, f \notin aged'[t]
               PROVE  /\ f \in SeenRows /\ memory'[t][f] <= Cardinality(sightings[f])
                      /\ f \notin moved => memory'[t][f] = count[f]
    BY <1>1, <1>2 DEF LoadedIsCurrent
  <2>1. CASE t = s
    <3>1. memory'[t][f] = count[f] BY <2>1, <1>1 DEF HistoryTypeOK
    <3> QED BY <3>1 DEF HistoryTypeOK
  <2>2. CASE t # s
    <3>1. memory'[t][f] = memory[t][f] /\ aged'[t] = aged[t] BY <2>2, <1>1 DEF HistoryTypeOK
    <3> QED BY <3>1 DEF LoadedIsCurrent
  <2> QED BY <2>1, <2>2
<1>10. DeletionInv' BY <1>1, <1>2, <1>3, HistoryTypes DEF DeletionInv
<1> QED BY <1>5, <1>6, <1>7, <1>8, <1>9, <1>10

LEMMA EndKeeps ==
    ASSUME HistoryScans, HistoryIInv, NEW s \in PastScans, EndScan(s)
    PROVE  HistoryIInv'
<1> USE DEF HistoryIInv
<1>1. /\ living' = living \ {s}
      /\ UNCHANGED <<created, attempt, reruns, pending, memory, aged, anchor, count, sightings,
                     moved, gone, deletion, survivor, kept, late>>
  BY DEF EndScan, holdVars, seenVars, deletionVars
<1>2. Made' = Made /\ There' = There /\ SeenRows' = SeenRows BY <1>1 DEF Made, There, SeenRows
<1>3. \A f \in PastFindings : Seers(f)' = Seers(f) BY <1>1 DEF Seers
<1>4. HistoryTypeOK' BY <1>1, <1>2 DEF HistoryTypeOK, Executions
<1>5. CountIsSightings' BY <1>1, <1>2 DEF CountIsSightings
<1>6. SeenInOrder' BY <1>1, <1>2, <1>3, HistoryTypes DEF SeenInOrder, Executions
<1>7. HoldsPending' BY <1>1 DEF HoldsPending
<1>8. LoadedIsCurrent' BY <1>1, <1>2 DEF LoadedIsCurrent
<1>9. DeletionInv' BY <1>1, <1>2, <1>3, HistoryTypes DEF DeletionInv
<1> QED BY <1>4, <1>5, <1>6, <1>7, <1>8, <1>9

\* An execution that lets go of rows keeps those it has left as they were.
LEMMA HoldsLess ==
    ASSUME HistoryScans, HistoryIInv, NEW s \in PastScans, NEW F \in SUBSET pending[s], Holds(s, F)
    PROVE  /\ pending' \in [PastScans -> SUBSET PastFindings]
           /\ memory' \in [PastScans -> [PastFindings -> 0 .. Cardinality(Executions)]]
           /\ pending'[s] = F
           /\ \A t \in PastScans \ {s} : pending'[t] = pending[t] /\ memory'[t] = memory[t]
           /\ \A f \in F : memory'[s][f] = memory[s][f]
           /\ \A f \in PastFindings \ F : memory'[s][f] = 0
<1>1. /\ pending \in [PastScans -> SUBSET PastFindings]
      /\ memory \in [PastScans -> [PastFindings -> 0 .. Cardinality(Executions)]]
      /\ Cardinality(Executions) \in Nat
  BY ExecutionsFinite DEF HistoryIInv, HistoryTypeOK
<1>2. /\ pending' = [pending EXCEPT ![s] = F]
      /\ memory' = [memory EXCEPT ![s] = [f \in PastFindings |-> IF f \in F THEN memory[s][f] ELSE 0]]
  BY <1>1 DEF Holds
<1>3. F \subseteq PastFindings BY <1>1
<1>4. [f \in PastFindings |-> IF f \in F THEN memory[s][f] ELSE 0]
          \in [PastFindings -> 0 .. Cardinality(Executions)]
  BY <1>1
<1> QED BY <1>1, <1>2, <1>3, <1>4

LEMMA StopKeeps ==
    ASSUME HistoryScans, HistoryIInv, NEW s \in PastScans, Stop(s)
    PROVE  HistoryIInv'
<1> USE DEF HistoryIInv
<1>1. /\ Holds(s, {}) /\ aged' = [aged EXCEPT ![s] = {}]
      /\ UNCHANGED <<created, living, attempt, reruns, anchor, count, sightings, moved,
                     gone, deletion, survivor, kept, late>>
  BY DEF Stop, runVars, seenVars, deletionVars
<1>2. Made' = Made /\ There' = There /\ SeenRows' = SeenRows BY <1>1 DEF Made, There, SeenRows
<1>3. \A f \in PastFindings : Seers(f)' = Seers(f) BY <1>1 DEF Seers
<1>4. /\ pending' \in [PastScans -> SUBSET PastFindings]
      /\ memory' \in [PastScans -> [PastFindings -> 0 .. Cardinality(Executions)]]
      /\ pending'[s] = {}
      /\ \A t \in PastScans \ {s} : pending'[t] = pending[t] /\ memory'[t] = memory[t]
      /\ \A f \in PastFindings : memory'[s][f] = 0
  BY <1>1, HoldsLess
<1>5. /\ aged' \in [PastScans -> SUBSET PastFindings] /\ aged'[s] = {}
      /\ \A t \in PastScans \ {s} : aged'[t] = aged[t]
  BY <1>1 DEF HistoryTypeOK
<1>6. HistoryTypeOK' BY <1>1, <1>2, <1>4, <1>5 DEF HistoryTypeOK, Executions
<1>7. CountIsSightings' BY <1>1, <1>2 DEF CountIsSightings
<1>8. SeenInOrder' BY <1>1, <1>2, <1>3, <1>4, HistoryTypes DEF SeenInOrder, Executions
<1>9. HoldsPending' BY <1>4, <1>5 DEF HoldsPending
<1>10. LoadedIsCurrent' BY <1>1, <1>2, <1>4, <1>5 DEF LoadedIsCurrent
<1>11. DeletionInv' BY <1>1, <1>2, <1>3, HistoryTypes DEF DeletionInv
<1> QED BY <1>6, <1>7, <1>8, <1>9, <1>10, <1>11

LEMMA StoreKeeps ==
    ASSUME HistoryScans, HistoryIInv, NEW s \in PastScans, NEW F \in SUBSET PastFindings, StoreSeen(s, F)
    PROVE  HistoryIInv'
<1> USE DEF HistoryIInv
<1> DEFINE left == IF s \in PastHooks THEN {} ELSE pending[s] \ F
           me   == <<s, attempt[s]>>
<1>1. /\ F # {} /\ F \subseteq pending[s] /\ F \cap kept = {}
      /\ \A f \in F : IF memory[s][f] = 0 THEN f \notin SeenRows ELSE f \in SeenRows \ aged[s]
      /\ anchor' = [f \in PastFindings |-> IF f \in F /\ (s \notin PastHooks \/ f \notin SeenRows) THEN s
                                           ELSE anchor[f]]
      /\ count' = [f \in PastFindings |-> IF f \in F THEN memory[s][f] + 1 ELSE count[f]]
      /\ sightings' = [f \in PastFindings |-> IF f \in F THEN sightings[f] \cup {me} ELSE sightings[f]]
      /\ late' = (late \ F) \cup {f \in F : deletion[anchor'[f]] = "updated"}
      /\ Holds(s, left)
      /\ aged' = [t \in PastScans |-> IF t = s THEN aged[s] \cap left
                                      ELSE aged[t] \cup {f \in F : memory[t][f] > 0}]
      /\ UNCHANGED <<created, living, attempt, reruns, moved, gone, deletion, survivor, kept>>
  BY DEF StoreSeen, CountedAgain, runVars
<1>2. Made' = Made /\ There' = There BY <1>1 DEF Made, There
<1>3. s # NoAnchor /\ s \in There /\ s \in Made /\ attempt[s] > 0 /\ me \in Executions
  <2>1. s \in There /\ attempt[s] > 0 BY <1>1 DEF SeenInOrder
  <2> QED BY <2>1, HistoryTypes, AtHand
<1>4. SeenRows' = SeenRows \cup F BY <1>1, <1>3 DEF SeenRows
<1>5. left \in SUBSET pending[s] OBVIOUS
<1>6. /\ pending' \in [PastScans -> SUBSET PastFindings]
      /\ memory' \in [PastScans -> [PastFindings -> 0 .. Cardinality(Executions)]]
      /\ pending'[s] = left
      /\ \A t \in PastScans \ {s} : pending'[t] = pending[t] /\ memory'[t] = memory[t]
      /\ \A f \in left : memory'[s][f] = memory[s][f]
      /\ \A f \in PastFindings \ left : memory'[s][f] = 0
  <2> HIDE DEF left
  <2> QED BY <1>1, <1>5, HoldsLess
<1>7. /\ aged' \in [PastScans -> SUBSET PastFindings]
      /\ aged'[s] = aged[s] \cap left
      /\ \A t \in PastScans \ {s} : aged'[t] = aged[t] \cup {f \in F : memory[t][f] > 0}
  BY <1>1 DEF HistoryTypeOK
<1>8. left \cap F = {} OBVIOUS
<1> HIDE DEF left
<1>9. \A f \in F : /\ count'[f] \in 1 .. Cardinality(Executions)
                   /\ count'[f] <= Cardinality(sightings'[f])
                   /\ f \notin moved => count'[f] = Cardinality(sightings'[f])
                   /\ f \notin SeenRows => f \notin moved
  <2> SUFFICES ASSUME NEW f \in F
               PROVE  /\ count'[f] \in 1 .. Cardinality(Executions)
                      /\ count'[f] <= Cardinality(sightings'[f])
                      /\ f \notin moved => count'[f] = Cardinality(sightings'[f])
                      /\ f \notin SeenRows => f \notin moved
    OBVIOUS
  <2> DEFINE n == Cardinality(sightings[f])
             m == memory[s][f]
  <2>1. sightings[f] \in SUBSET Executions /\ me \in Executions \ sightings[f]
    BY <1>1, <1>3, HistoryTypes DEF SeenInOrder
  <2>2. sightings'[f] = sightings[f] \cup {me} /\ count'[f] = m + 1 BY <1>1
  <2> HIDE DEF me
  <2>3. Cardinality(sightings'[f]) = n + 1 /\ n + 1 \in 1 .. Cardinality(Executions)
    BY <2>1, <2>2, SeenOnceMore
  <2>4. m \in Nat /\ n \in Nat /\ Cardinality(Executions) \in Nat BY HistoryTypes, ExecutionsFinite
  <2>5. CASE m = 0
    <3>1. f \notin SeenRows BY <2>5, <1>1
    <3>2. sightings[f] = {} /\ f \notin moved BY <3>1 DEF SeenInOrder, HistoryTypeOK
    <3>3. n = 0 BY <3>2, FS_EmptySet
    <3> HIDE DEF n, m
    <3> QED BY <2>2, <2>3, <2>4, <2>5, <3>2, <3>3
  <2>6. CASE m # 0
    <3>1. f \in SeenRows \ aged[s] /\ m > 0 BY <2>4, <2>6, <1>1
    <3>2. m <= n BY <3>1 DEF LoadedIsCurrent
    <3>3. f \notin moved => m = count[f] BY <3>1 DEF LoadedIsCurrent
    <3>4. f \notin moved => m = n BY <3>1, <3>3 DEF CountIsSightings
    <3> HIDE DEF n, m
    <3> QED BY <2>2, <2>3, <2>4, <3>1, <3>2, <3>4
  <2> QED BY <2>5, <2>6
<1>10. \A f \in PastFindings \ F : /\ count'[f] = count[f] /\ sightings'[f] = sightings[f]
                                   /\ anchor'[f] = anchor[f] /\ Seers(f)' = Seers(f)
  BY <1>1 DEF Seers
<1>11. HistoryTypeOK'
  <2>1. anchor' \in [PastFindings -> There' \cup {NoAnchor}] BY <1>1, <1>2, <1>3 DEF HistoryTypeOK
  <2>2. count' \in [PastFindings -> 0 .. Cardinality(Executions)]
    <3>1. \A f \in PastFindings : count'[f] \in 0 .. Cardinality(Executions)
      BY <1>9, <1>10 DEF HistoryTypeOK
    <3>2. count' = [f \in PastFindings |-> count'[f]] BY <1>1
    <3> QED BY <3>1, <3>2
  <2>3. \A f \in PastFindings : /\ (f \in SeenRows') <=> (count'[f] > 0)
                                /\ count'[f] <= Cardinality(sightings'[f])
    <3> SUFFICES ASSUME NEW f \in PastFindings
                 PROVE  /\ (f \in SeenRows') <=> (count'[f] > 0)
                        /\ count'[f] <= Cardinality(sightings'[f])
      OBVIOUS
    <3>1. CASE f \in F BY <3>1, <1>4, <1>9
    <3>2. CASE f \notin F BY <3>2, <1>4, <1>10 DEF HistoryTypeOK
    <3> QED BY <3>1, <3>2
  <2>4. /\ Made' \subseteq PastScans /\ Len(created') = Cardinality(Made') /\ gone' \subseteq Made'
        /\ living' \subseteq There'
        /\ moved' \subseteq SeenRows' /\ kept' \subseteq SeenRows' /\ late' \subseteq SeenRows'
    BY <1>1, <1>2, <1>4 DEF HistoryTypeOK
  <2> QED BY <1>1, <1>6, <1>7, <2>1, <2>2, <2>3, <2>4 DEF HistoryTypeOK, Executions
<1>12. CountIsSightings'
  <2> SUFFICES ASSUME NEW f \in SeenRows', f \notin moved PROVE count'[f] = Cardinality(sightings'[f])
    BY <1>1 DEF CountIsSightings
  <2>1. CASE f \in F BY <2>1, <1>9
  <2>2. CASE f \notin F BY <2>2, <1>4, <1>10 DEF CountIsSightings, SeenRows
  <2> QED BY <2>1, <2>2
<1>13. SeenInOrder'
  <2>1. sightings' \in [PastFindings -> SUBSET Executions'] BY <1>1, <1>3, HistoryTypes DEF Executions
  <2>2. \A f \in PastFindings : \A e \in sightings'[f] : e[1] \in Made' /\ e[2] <= attempt'[e[1]]
    <3> SUFFICES ASSUME NEW f \in PastFindings, NEW e \in sightings'[f]
                 PROVE  e[1] \in Made /\ e[2] <= attempt[e[1]]
      BY <1>1, <1>2
    <3>1. e \in sightings[f] \/ e = me BY <1>1
    <3>2. CASE e = me
      <4>1. attempt[s] <= attempt[s] BY <1>3, HistoryTypes DEF HistoryTypeOK
      <4> QED BY <3>2, <4>1, <1>3
    <3>3. CASE e \in sightings[f] BY <3>3 DEF SeenInOrder
    <3> QED BY <3>1, <3>2, <3>3
  <2>3. \A t \in PastScans : \A f \in pending'[t] :
           t \in There' /\ attempt'[t] > 0 /\ <<t, attempt'[t]>> \notin sightings'[f]
    <3> SUFFICES ASSUME NEW t \in PastScans, NEW f \in pending'[t]
                 PROVE  t \in There /\ attempt[t] > 0 /\ <<t, attempt[t]>> \notin sightings'[f]
      BY <1>1, <1>2
    <3>1. f \in pending[t] /\ (t = s => f \notin F) BY <1>5, <1>6, <1>8
    <3>2. t \in There /\ attempt[t] > 0 /\ <<t, attempt[t]>> \notin sightings[f] /\ f \in PastFindings
      BY <3>1 DEF SeenInOrder, HistoryTypeOK
    <3>3. CASE t = s BY <3>1, <3>2, <3>3, <1>10
    <3>4. CASE t # s BY <3>2, <3>4, <1>1
    <3> QED BY <3>3, <3>4
  <2>4. \A f \in PastFindings \ SeenRows' : sightings'[f] = {} BY <1>4, <1>10 DEF SeenInOrder
  <2>5. \A f \in SeenRows' \ moved' : anchor'[f] \in Seers(f)'
    <3> SUFFICES ASSUME NEW f \in SeenRows', f \notin moved PROVE anchor'[f] \in Seers(f)'
      BY <1>1
    <3>1. f \in PastFindings BY DEF SeenRows
    <3>2. CASE f \in F
      <4>1. anchor'[f] = s \/ (anchor'[f] = anchor[f] /\ f \in SeenRows) BY <3>2, <1>1
      <4>2. sightings'[f] = sightings[f] \cup {me} /\ me[1] = s BY <3>1, <3>2, <1>1
      <4>3. s \in Seers(f)' /\ Seers(f) \subseteq Seers(f)'
        <5> HIDE DEF me
        <5> QED BY <4>2 DEF Seers
      <4> QED BY <4>1, <4>3 DEF SeenInOrder
    <3>3. CASE f \notin F BY <3>1, <3>3, <1>4, <1>10 DEF SeenInOrder
    <3> QED BY <3>2, <3>3
  <2> QED BY <1>1, <2>1, <2>2, <2>3, <2>4, <2>5 DEF SeenInOrder
<1>14. HoldsPending'
  <2> SUFFICES ASSUME NEW t \in PastScans, NEW f \in PastFindings, f \notin pending'[t]
               PROVE  memory'[t][f] = 0 /\ f \notin aged'[t]
    BY DEF HoldsPending
  <2>1. CASE t = s BY <2>1, <1>6, <1>7
  <2>2. CASE t # s
    <3>1. memory'[t] = memory[t] /\ memory[t][f] = 0 /\ f \notin aged[t] BY <2>2, <1>6 DEF HoldsPending
    <3> QED BY <2>2, <3>1, <1>7
  <2> QED BY <2>1, <2>2
<1>15. LoadedIsCurrent'
  <2> SUFFICES ASSUME NEW t \in PastScans, NEW f \in PastFindings, memory'[t][f] > 0, f \notin aged'[t]
               PROVE  /\ f \in SeenRows' /\ memory'[t][f] <= Cardinality(sightings'[f])
                      /\ f \notin moved => memory'[t][f] = count'[f]
    BY <1>1 DEF LoadedIsCurrent
  <2>1. memory'[t][f] = memory[t][f] /\ f \notin aged[t] /\ f \notin F
    <3>1. CASE t = s
      <4>1. f \in left BY <3>1, <1>6
      <4> QED BY <3>1, <4>1, <1>6, <1>7, <1>8
    <3>2. CASE t # s BY <3>2, <1>6, <1>7
    <3> QED BY <3>1, <3>2
  <2> QED BY <2>1, <1>4, <1>10 DEF LoadedIsCurrent
<1>16. DeletionInv'
  <2>1. \A f \in kept : /\ deletion[anchor'[f]] = "updated" /\ count'[f] > 1
                        /\ survivor[anchor'[f]] \in There \ {anchor'[f]}
    BY <1>1, <1>10, HistoryTypes DEF DeletionInv, HistoryTypeOK
  <2>2. ASSUME NEW f \in SeenRows' \ (moved \cup late' \cup kept), deletion[anchor'[f]] = "updated"
        PROVE  Seers(f)' \subseteq gone \cup {anchor'[f]}
    <3>1. f \notin F BY <2>2, <1>1
    <3>2. f \in SeenRows \ (moved \cup late \cup kept) /\ f \in PastFindings
      BY <2>2, <3>1, <1>1, <1>4, HistoryTypes
    <3> QED BY <2>2, <3>1, <3>2, <1>10 DEF DeletionInv
  <2> QED BY <1>1, <1>2, <2>1, <2>2 DEF DeletionInv
<1> QED BY <1>11, <1>12, <1>13, <1>14, <1>15, <1>16

-----------------------------------------------------------------------------
(* Deletions *)

\* A row that an UPDATE leaves was seen by one scan only.
LEMMA SeenByOne ==
    ASSUME HistoryScans, HistoryIInv, NEW f \in SeenRows \ moved, ~Preserved(f)
    PROVE  Seers(f) = {anchor[f]}
<1> USE DEF HistoryIInv
<1>1. f \in PastFindings BY DEF SeenRows
<1>2. count[f] = Cardinality(sightings[f]) /\ count[f] \in Nat /\ count[f] > 0
  BY <1>1, HistoryTypes DEF CountIsSightings, HistoryTypeOK
<1>3. Cardinality(sightings[f]) = 1 BY <1>2 DEF Preserved
<1>4. IsFiniteSet(sightings[f]) BY <1>1, HistoryTypes, SeenAreFew
<1>5. PICK e : sightings[f] = {e} BY <1>3, <1>4, FS_Singleton
<1>6. anchor[f] \in Seers(f) BY DEF SeenInOrder
<1> QED BY <1>5, <1>6 DEF Seers

\* The steps of a deletion that commit nothing leave everything but DeletionInv alone.
LEMMA QuietKeeps ==
    ASSUME HistoryScans, HistoryIInv,
           UNCHANGED <<created, living, attempt, reruns, pending, memory, aged, anchor, count,
                       sightings, moved, gone>>,
           deletion' \in [PastScans -> {"none", "chosen", "updated"}],
           survivor' \in [PastScans -> PastScans \cup {NoAnchor}],
           kept' \subseteq SeenRows, late' \subseteq SeenRows, DeletionInv'
    PROVE  HistoryIInv'
<1> USE DEF HistoryIInv
<1>1. Made' = Made /\ There' = There /\ SeenRows' = SeenRows BY DEF Made, There, SeenRows
<1>2. \A f \in PastFindings : Seers(f)' = Seers(f) BY DEF Seers
<1>3. HistoryTypeOK' BY <1>1 DEF HistoryTypeOK, Executions
<1>4. CountIsSightings' BY <1>1 DEF CountIsSightings
<1>5. SeenInOrder' BY <1>1, <1>2, HistoryTypes DEF SeenInOrder, Executions
<1>6. HoldsPending' BY DEF HoldsPending
<1>7. LoadedIsCurrent' BY <1>1 DEF LoadedIsCurrent
<1> QED BY <1>3, <1>4, <1>5, <1>6, <1>7

LEMMA SelectKeeps ==
    ASSUME HistoryScans, HistoryIInv, NEW s \in PastScans, SelectSurvivor(s)
    PROVE  HistoryIInv'
<1> USE DEF HistoryIInv
<1>1. /\ s \in There /\ deletion[s] = "none"
      /\ UNCHANGED <<created, living, attempt, reruns, pending, memory, aged, anchor, count,
                     sightings, moved, gone, kept, late>>
      /\ IF Survivors(s) = {}
         THEN deletion' = [deletion EXCEPT ![s] = "updated"] /\ survivor' = survivor
         ELSE /\ deletion' = [deletion EXCEPT ![s] = "chosen"]
              /\ survivor' = [survivor EXCEPT ![s] = Newest(Survivors(s))]
  BY DEF SelectSurvivor, runVars, holdVars, seenVars
<1>2. Survivors(s) # {} => Newest(Survivors(s)) \in There \ {s}
  <2>1. Survivors(s) \subseteq Made BY DEF Survivors, There
  <2> QED BY <2>1, NewestIsOneOfThem DEF SeenInOrder, Survivors
<1>3. /\ deletion' \in [PastScans -> {"none", "chosen", "updated"}]
      /\ survivor' \in [PastScans -> PastScans \cup {NoAnchor}]
  BY <1>1, <1>2, HistoryTypes DEF HistoryTypeOK
<1>4. Made' = Made /\ There' = There /\ SeenRows' = SeenRows BY <1>1 DEF Made, There, SeenRows
<1>5. \A f \in PastFindings : Seers(f)' = Seers(f) BY <1>1 DEF Seers
<1>6. \A t \in PastScans \ {s} : deletion'[t] = deletion[t] /\ survivor'[t] = survivor[t]
  BY <1>1 DEF HistoryTypeOK
<1>7. \A f \in SeenRows : anchor[f] \in There /\ anchor[f] \in PastScans
  BY HistoryTypes DEF HistoryTypeOK, SeenRows
<1>8. DeletionInv'
  <2>1. \A t \in PastScans : /\ deletion'[t] # "none" => t \in There
                             /\ deletion'[t] = "chosen" => survivor'[t] # t
    <3> SUFFICES ASSUME NEW t \in PastScans
                 PROVE  /\ deletion'[t] # "none" => t \in There
                        /\ deletion'[t] = "chosen" => survivor'[t] # t
      OBVIOUS
    <3>1. CASE t = s BY <3>1, <1>1, <1>2, <1>3 DEF HistoryTypeOK, Survivors
    <3>2. CASE t # s BY <3>2, <1>6 DEF DeletionInv
    <3> QED BY <3>1, <3>2
  <2>2. \A f \in kept : /\ deletion'[anchor[f]] = "updated" /\ count[f] > 1
                        /\ survivor'[anchor[f]] \in There \ {anchor[f]}
    <3> SUFFICES ASSUME NEW f \in kept
                 PROVE  /\ deletion'[anchor[f]] = "updated" /\ count[f] > 1
                        /\ survivor'[anchor[f]] \in There \ {anchor[f]}
      OBVIOUS
    <3>1. f \in SeenRows /\ deletion[anchor[f]] = "updated" BY DEF DeletionInv, HistoryTypeOK
    <3> QED BY <3>1, <1>1, <1>6, <1>7 DEF DeletionInv
  <2>3. ASSUME NEW f \in SeenRows \ (moved \cup late \cup kept), deletion'[anchor[f]] = "updated"
        PROVE  Seers(f) \subseteq gone \cup {anchor[f]}
    <3>1. CASE anchor[f] = s
      <4>1. Survivors(s) = {} BY <2>3, <3>1, <1>1, <1>3 DEF HistoryTypeOK
      <4>2. f \in PastFindings /\ Seers(f) \subseteq Made
        BY HistoryTypes DEF SeenInOrder, Seers
      <4> QED BY <3>1, <4>1, <4>2 DEF Survivors, There
    <3>2. CASE anchor[f] # s BY <2>3, <3>2, <1>6, <1>7 DEF DeletionInv
    <3> QED BY <3>1, <3>2
  <2>4. \A f \in SeenRows : f \in PastFindings BY HistoryTypes
  <2> QED BY <1>1, <1>4, <1>5, <2>1, <2>2, <2>3, <2>4 DEF DeletionInv
<1> QED BY <1>1, <1>3, <1>8, QuietKeeps DEF HistoryTypeOK

LEMMA UpdateKeeps ==
    ASSUME HistoryScans, HistoryIInv, NEW s \in PastScans, UpdateKept(s)
    PROVE  HistoryIInv'
<1> USE DEF HistoryIInv
<1> DEFINE ours == {f \in PastFindings : anchor[f] = s /\ Preserved(f)}
<1>1. /\ deletion[s] = "chosen" /\ (ours # {} => survivor[s] \in There)
      /\ deletion' = [deletion EXCEPT ![s] = "updated"] /\ kept' = kept \cup ours
      /\ survivor' = [survivor EXCEPT ![s] = IF ours = {} THEN NoAnchor ELSE survivor[s]]
      /\ UNCHANGED <<created, living, attempt, reruns, pending, memory, aged, anchor, count,
                     sightings, moved, gone, late>>
  BY DEF UpdateKept, runVars, holdVars, seenVars, HistoryTypeOK
<1>2. Made' = Made /\ There' = There /\ SeenRows' = SeenRows BY <1>1 DEF Made, There, SeenRows
<1>3. \A f \in PastFindings : Seers(f)' = Seers(f) BY <1>1 DEF Seers
<1>4. s \in There /\ s # NoAnchor BY <1>1, HistoryTypes DEF DeletionInv
<1>5. \A f \in SeenRows : anchor[f] \in PastScans /\ f \in PastFindings
  BY HistoryTypes DEF HistoryTypeOK, SeenRows
<1>6. \A t \in PastScans \ {s} : deletion'[t] = deletion[t] /\ survivor'[t] = survivor[t]
  BY <1>1 DEF HistoryTypeOK
<1>7. deletion'[s] = "updated" /\ (ours # {} => survivor'[s] = survivor[s]) BY <1>1 DEF HistoryTypeOK
<1>8. ours \subseteq SeenRows BY <1>4 DEF SeenRows
<1>9. \A f \in ours : anchor[f] = s /\ count[f] > 1 BY DEF Preserved
<1> HIDE DEF ours
<1>10. DeletionInv'
  <2>1. \A t \in PastScans : /\ deletion'[t] # "none" => t \in There
                             /\ deletion'[t] = "chosen" => survivor'[t] # t
    BY <1>4, <1>6, <1>7 DEF DeletionInv
  <2>2. \A f \in kept' : /\ deletion'[anchor[f]] = "updated" /\ count[f] > 1
                         /\ survivor'[anchor[f]] \in There \ {anchor[f]}
    <3> SUFFICES ASSUME NEW f \in kept'
                 PROVE  /\ deletion'[anchor[f]] = "updated" /\ count[f] > 1
                        /\ survivor'[anchor[f]] \in There \ {anchor[f]}
      OBVIOUS
    <3>1. CASE f \in kept
      <4>1. f \in SeenRows /\ deletion[anchor[f]] = "updated" BY <3>1 DEF DeletionInv, HistoryTypeOK
      <4>2. anchor[f] # s BY <4>1, <1>1
      <4> QED BY <3>1, <4>1, <4>2, <1>5, <1>6 DEF DeletionInv
    <3>2. CASE f \in ours
      <4>1. survivor[s] \in There /\ survivor'[s] = survivor[s] BY <3>2, <1>1, <1>7
      <4>2. survivor[s] # s BY <1>1 DEF DeletionInv
      <4> QED BY <3>2, <4>1, <4>2, <1>7, <1>9
    <3> QED BY <3>1, <3>2, <1>1
  <2>3. ASSUME NEW f \in SeenRows \ (moved \cup late \cup kept'), deletion'[anchor[f]] = "updated"
        PROVE  Seers(f) \subseteq gone \cup {anchor[f]}
    <3>1. f \in PastFindings BY <1>5
    <3>2. CASE anchor[f] = s
      <4>1. f \notin ours BY <2>3, <1>1
      <4>2. ~Preserved(f) BY <3>1, <3>2, <4>1 DEF ours
      <4>3. Seers(f) = {s} BY <3>2, <4>2, <2>3, SeenByOne
      <4> QED BY <3>2, <4>3
    <3>3. CASE anchor[f] # s BY <2>3, <3>3, <1>1, <1>5, <1>6 DEF DeletionInv
    <3> QED BY <3>2, <3>3
  <2> QED BY <1>1, <1>2, <1>3, <1>5, <2>1, <2>2, <2>3 DEF DeletionInv
<1> QED BY <1>1, <1>2, <1>8, <1>10, QuietKeeps DEF HistoryTypeOK

LEMMA DeleteFailsKeeps ==
    ASSUME HistoryScans, HistoryIInv, NEW s \in PastScans, DeleteFails(s)
    PROVE  HistoryIInv'
<1> USE DEF HistoryIInv
<1>1. /\ deletion' = [deletion EXCEPT ![s] = "none"] /\ survivor' = [survivor EXCEPT ![s] = NoAnchor]
      /\ kept' = {f \in kept : anchor[f] # s} /\ late' = {f \in late : anchor[f] # s}
      /\ UNCHANGED <<created, living, attempt, reruns, pending, memory, aged, anchor, count,
                     sightings, moved, gone>>
  BY DEF DeleteFails, DeleteEnds, runVars, holdVars, seenVars
<1>2. Made' = Made /\ There' = There /\ SeenRows' = SeenRows BY <1>1 DEF Made, There, SeenRows
<1>3. \A f \in PastFindings : Seers(f)' = Seers(f) BY <1>1 DEF Seers
<1>4. \A f \in SeenRows : anchor[f] \in PastScans /\ f \in PastFindings
  BY HistoryTypes DEF HistoryTypeOK, SeenRows
<1>5. /\ deletion'[s] = "none"
      /\ \A t \in PastScans \ {s} : deletion'[t] = deletion[t] /\ survivor'[t] = survivor[t]
  BY <1>1 DEF HistoryTypeOK
<1>6. DeletionInv'
  <2>1. \A t \in PastScans : /\ deletion'[t] # "none" => t \in There
                             /\ deletion'[t] = "chosen" => survivor'[t] # t
    BY <1>5 DEF DeletionInv
  <2>2. \A f \in kept' : /\ deletion'[anchor[f]] = "updated" /\ count[f] > 1
                         /\ survivor'[anchor[f]] \in There \ {anchor[f]}
    BY <1>1, <1>4, <1>5 DEF DeletionInv, HistoryTypeOK
  <2>3. ASSUME NEW f \in SeenRows \ (moved \cup late' \cup kept'), deletion'[anchor[f]] = "updated"
        PROVE  Seers(f) \subseteq gone \cup {anchor[f]}
    <3>1. anchor[f] # s BY <2>3, <1>5
    <3> QED BY <2>3, <3>1, <1>1, <1>4, <1>5 DEF DeletionInv
  <2> QED BY <1>1, <1>2, <1>3, <1>4, <2>1, <2>2, <2>3 DEF DeletionInv
<1> QED BY <1>1, <1>6, QuietKeeps DEF HistoryTypeOK

LEMMA FinishKeeps ==
    ASSUME HistoryScans, HistoryIInv, NEW s \in PastScans, DeleteLost(s)
    PROVE  HistoryIInv'
<1> USE DEF HistoryIInv
<1> DEFINE ours == {f \in PastFindings : anchor[f] = s}
           keep == ours \cap kept
           lost == ours \ kept
<1>1. /\ deletion[s] = "updated" /\ \A f \in kept : survivor[anchor[f]] # s
      /\ anchor' = [f \in PastFindings |-> IF f \in keep THEN survivor[s]
                                           ELSE IF f \in lost THEN NoAnchor ELSE anchor[f]]
      /\ count' = [f \in PastFindings |-> IF f \in keep THEN count[f] - 1
                                          ELSE IF f \in lost THEN 0 ELSE count[f]]
      /\ sightings' = [f \in PastFindings |-> IF f \in lost THEN {} ELSE sightings[f]]
      /\ moved' = (moved \cup keep) \ lost
      /\ Holds(s, {})
      /\ aged' = [t \in PastScans |-> IF t = s THEN {}
                                      ELSE aged[t] \cup {f \in lost : memory[t][f] > 0}]
      /\ gone' = gone \cup {s} /\ living' = living \ {s}
      /\ UNCHANGED <<created, attempt, reruns>>
      /\ deletion' = [deletion EXCEPT ![s] = "none"] /\ survivor' = [survivor EXCEPT ![s] = NoAnchor]
      /\ kept' = {f \in kept : anchor[f] # s} /\ late' = {f \in late : anchor[f] # s}
  BY DEF DeleteLost, DeleteEnds
<1>2. Made' = Made /\ There' = There \ {s} BY <1>1 DEF Made, There
<1>3. s \in There /\ s # NoAnchor BY <1>1, HistoryTypes DEF DeletionInv
<1>4. keep # {} => survivor[s] \in There' /\ survivor[s] # NoAnchor
  BY <1>2, HistoryTypes DEF DeletionInv
<1>5. /\ keep \subseteq PastFindings /\ lost \subseteq PastFindings /\ keep \cap lost = {}
      /\ keep \subseteq SeenRows /\ lost \subseteq SeenRows
      /\ \A f \in keep : count[f] > 1 /\ anchor[f] = s
      /\ \A f \in lost : anchor[f] = s
      /\ \A f \in PastFindings : anchor[f] = s => f \in keep \cup lost
      /\ kept' = kept \ keep
  BY <1>1, <1>3 DEF DeletionInv, SeenRows, HistoryTypeOK
<1> HIDE DEF ours, keep, lost
<1>6. SeenRows' = SeenRows \ lost BY <1>1, <1>4, <1>5 DEF SeenRows
<1>7. \A f \in keep : /\ count'[f] = count[f] - 1 /\ count'[f] > 0 /\ count'[f] <= count[f]
                      /\ count'[f] \in 0 .. Cardinality(Executions)
  BY <1>1, <1>5, ExecutionsFinite DEF HistoryTypeOK
<1>8. \A f \in lost : count'[f] = 0 /\ sightings'[f] = {} BY <1>1, <1>5
<1>9. \A f \in PastFindings \ lost : sightings'[f] = sightings[f] /\ Seers(f)' = Seers(f)
  BY <1>1 DEF Seers
<1>10. \A f \in PastFindings \ (keep \cup lost) : count'[f] = count[f] /\ anchor'[f] = anchor[f]
  BY <1>1
<1>11. /\ pending' \in [PastScans -> SUBSET PastFindings]
       /\ memory' \in [PastScans -> [PastFindings -> 0 .. Cardinality(Executions)]]
       /\ pending'[s] = {}
       /\ \A t \in PastScans \ {s} : pending'[t] = pending[t] /\ memory'[t] = memory[t]
       /\ \A f \in PastFindings : memory'[s][f] = 0
  BY <1>1, HoldsLess
<1>12. /\ aged' \in [PastScans -> SUBSET PastFindings] /\ aged'[s] = {}
       /\ \A t \in PastScans \ {s} : aged'[t] = aged[t] \cup {f \in lost : memory[t][f] > 0}
  BY <1>1, <1>5 DEF HistoryTypeOK
<1>13. HistoryTypeOK'
  <2>1. anchor' \in [PastFindings -> There' \cup {NoAnchor}]
    <3>1. \A f \in PastFindings : anchor'[f] \in There' \cup {NoAnchor}
      <4> SUFFICES ASSUME NEW f \in PastFindings PROVE anchor'[f] \in There' \cup {NoAnchor}
        OBVIOUS
      <4>1. CASE f \in keep BY <4>1, <1>1, <1>4
      <4>2. CASE f \in lost BY <4>2, <1>1, <1>5
      <4>3. CASE f \notin keep \cup lost BY <4>3, <1>2, <1>5, <1>10 DEF HistoryTypeOK
      <4> QED BY <4>1, <4>2, <4>3
    <3>2. anchor' = [f \in PastFindings |-> anchor'[f]] BY <1>1
    <3> QED BY <3>1, <3>2
  <2>2. count' \in [PastFindings -> 0 .. Cardinality(Executions)]
    <3>1. \A f \in PastFindings : count'[f] \in 0 .. Cardinality(Executions)
      <4>1. \A f \in lost : count'[f] \in 0 .. Cardinality(Executions) BY <1>8, ExecutionsFinite
      <4>2. \A f \in PastFindings \ (keep \cup lost) : count'[f] \in 0 .. Cardinality(Executions)
        BY <1>10 DEF HistoryTypeOK
      <4> QED BY <1>7, <4>1, <4>2
    <3>2. count' = [f \in PastFindings |-> count'[f]] BY <1>1
    <3> QED BY <3>1, <3>2
  <2>3. \A f \in PastFindings : /\ (f \in SeenRows') <=> (count'[f] > 0)
                                /\ count'[f] <= Cardinality(sightings'[f])
    <3> SUFFICES ASSUME NEW f \in PastFindings
                 PROVE  /\ (f \in SeenRows') <=> (count'[f] > 0)
                        /\ count'[f] <= Cardinality(sightings'[f])
      OBVIOUS
    <3>1. CASE f \in keep
      <4>1. count[f] \in Nat /\ Cardinality(sightings[f]) \in Nat BY HistoryTypes
      <4>2. count[f] <= Cardinality(sightings[f]) BY DEF HistoryTypeOK
      <4>3. f \in SeenRows' /\ f \notin lost BY <3>1, <1>5, <1>6
      <4> QED BY <3>1, <4>1, <4>2, <4>3, <1>7, <1>9
    <3>2. CASE f \in lost BY <3>2, <1>6, <1>8, FS_EmptySet
    <3>3. CASE f \notin keep \cup lost BY <3>3, <1>6, <1>9, <1>10 DEF HistoryTypeOK
    <3> QED BY <3>1, <3>2, <3>3
  <2>4. /\ Made' \subseteq PastScans /\ Len(created') = Cardinality(Made') /\ gone' \subseteq Made'
        /\ living' \subseteq There'
    BY <1>1, <1>2, <1>3, HistoryTypes DEF HistoryTypeOK
  <2>5. moved' \subseteq SeenRows' /\ kept' \subseteq SeenRows' /\ late' \subseteq SeenRows'
    BY <1>1, <1>5, <1>6 DEF HistoryTypeOK
  <2>6. /\ deletion' \in [PastScans -> {"none", "chosen", "updated"}]
        /\ survivor' \in [PastScans -> PastScans \cup {NoAnchor}]
        /\ reruns' \in 0 .. MaxReruns /\ attempt' \in [PastScans -> 0 .. reruns' + 1]
    BY <1>1 DEF HistoryTypeOK
  <2> QED BY <1>11, <1>12, <2>1, <2>2, <2>3, <2>4, <2>5, <2>6 DEF HistoryTypeOK, Executions
<1>14. \A f \in PastFindings :
          f \in SeenRows' \ moved' => f \in SeenRows \ moved /\ f \notin keep \cup lost
  BY <1>1, <1>5, <1>6
<1>15. SeenRows' \subseteq PastFindings BY DEF SeenRows
<1>16. CountIsSightings' BY <1>9, <1>10, <1>14, <1>15 DEF CountIsSightings
<1>17. SeenInOrder'
  <2>1. created' \in Seq(PastScans) /\ sightings' \in [PastFindings -> SUBSET Executions']
    BY <1>1, HistoryTypes DEF SeenInOrder, Executions
  <2>2. \A f \in PastFindings : \A e \in sightings'[f] : e[1] \in Made' /\ e[2] <= attempt'[e[1]]
    BY <1>1, <1>2, <1>8, <1>9 DEF SeenInOrder
  <2>3. \A t \in PastScans : \A f \in pending'[t] :
           t \in There' /\ attempt'[t] > 0 /\ <<t, attempt'[t]>> \notin sightings'[f]
    <3> SUFFICES ASSUME NEW t \in PastScans, NEW f \in pending'[t]
                 PROVE  t \in There' /\ attempt[t] > 0 /\ <<t, attempt[t]>> \notin sightings'[f]
      BY <1>1
    <3>1. t # s /\ f \in pending[t] /\ f \in PastFindings BY <1>11
    <3>2. sightings'[f] \subseteq sightings[f] BY <3>1, <1>8, <1>9
    <3> QED BY <3>1, <3>2, <1>2 DEF SeenInOrder
  <2>4. \A f \in PastFindings \ SeenRows' : sightings'[f] = {} BY <1>6, <1>8, <1>9 DEF SeenInOrder
  <2>5. \A f \in SeenRows' \ moved' : anchor'[f] \in Seers(f)'
    BY <1>9, <1>10, <1>14, <1>15 DEF SeenInOrder
  <2> QED BY <2>1, <2>2, <2>3, <2>4, <2>5 DEF SeenInOrder
<1>18. HoldsPending'
  <2> SUFFICES ASSUME NEW t \in PastScans, NEW f \in PastFindings, f \notin pending'[t]
               PROVE  memory'[t][f] = 0 /\ f \notin aged'[t]
    BY DEF HoldsPending
  <2>1. CASE t = s BY <2>1, <1>11, <1>12
  <2>2. CASE t # s
    <3>1. memory'[t] = memory[t] /\ memory[t][f] = 0 /\ f \notin aged[t] BY <2>2, <1>11 DEF HoldsPending
    <3> QED BY <2>2, <3>1, <1>12
  <2> QED BY <2>1, <2>2
<1>19. LoadedIsCurrent'
  <2> SUFFICES ASSUME NEW t \in PastScans, NEW f \in PastFindings, memory'[t][f] > 0, f \notin aged'[t]
               PROVE  /\ f \in SeenRows' /\ memory'[t][f] <= Cardinality(sightings'[f])
                      /\ f \notin moved' => memory'[t][f] = count'[f]
    BY DEF LoadedIsCurrent
  <2>1. t # s /\ memory'[t] = memory[t] /\ f \notin aged[t] /\ f \notin lost BY <1>11, <1>12
  <2>2. f \in SeenRows' /\ memory[t][f] <= Cardinality(sightings'[f])
    BY <2>1, <1>6, <1>9 DEF LoadedIsCurrent
  <2>3. f \notin moved' => memory[t][f] = count'[f]
    BY <2>1, <2>2, <1>10, <1>14 DEF LoadedIsCurrent
  <2> QED BY <2>1, <2>2, <2>3
<1>20. DeletionInv'
  <2>1. /\ deletion'[s] = "none"
        /\ \A t \in PastScans \ {s} : deletion'[t] = deletion[t] /\ survivor'[t] = survivor[t]
    BY <1>1 DEF HistoryTypeOK
  <2>2. \A t \in PastScans : /\ deletion'[t] # "none" => t \in There'
                             /\ deletion'[t] = "chosen" => survivor'[t] # t
    BY <2>1, <1>2 DEF DeletionInv
  <2>3. \A f \in SeenRows : anchor[f] \in PastScans /\ f \in PastFindings
    BY HistoryTypes DEF HistoryTypeOK, SeenRows
  <2>4. \A f \in kept' : /\ deletion'[anchor'[f]] = "updated" /\ count'[f] > 1
                         /\ survivor'[anchor'[f]] \in There' \ {anchor'[f]}
    <3> SUFFICES ASSUME NEW f \in kept'
                 PROVE  /\ deletion'[anchor'[f]] = "updated" /\ count'[f] > 1
                        /\ survivor'[anchor'[f]] \in There' \ {anchor'[f]}
      OBVIOUS
    <3>1. f \in kept /\ anchor[f] # s /\ f \in SeenRows BY <1>1 DEF HistoryTypeOK
    <3>2. f \notin keep \cup lost /\ anchor'[f] = anchor[f] /\ count'[f] = count[f]
      BY <3>1, <2>3, <1>5, <1>10
    <3> QED BY <3>1, <3>2, <2>1, <2>3, <1>1, <1>2 DEF DeletionInv
  <2>5. ASSUME NEW f \in SeenRows' \ (moved' \cup late' \cup kept'), deletion'[anchor'[f]] = "updated"
        PROVE  Seers(f)' \subseteq gone' \cup {anchor'[f]}
    <3>1. f \in SeenRows \ moved /\ f \notin keep \cup lost /\ f \in PastFindings
      BY <2>5, <1>14, <1>15
    <3>2. anchor'[f] = anchor[f] /\ Seers(f)' = Seers(f) /\ anchor[f] # s BY <3>1, <1>5, <1>9, <1>10
    <3>3. f \notin late /\ f \notin kept BY <2>5, <3>2, <1>1
    <3> QED BY <2>5, <3>1, <3>2, <3>3, <2>1, <2>3, <1>1 DEF DeletionInv
  <2> QED BY <2>2, <2>4, <2>5 DEF DeletionInv
<1> QED BY <1>13, <1>16, <1>17, <1>18, <1>19, <1>20

-----------------------------------------------------------------------------
LEMMA HistoryStutters == ASSUME HistoryScans, HistoryIInv, UNCHANGED historyVars PROVE HistoryIInv'
<1> USE DEF HistoryIInv
<1>1. UNCHANGED <<created, living, attempt, reruns, pending, memory, aged, anchor, count,
                  sightings, moved, gone, deletion, survivor, kept, late>>
  BY DEF historyVars, runVars, holdVars, seenVars, deletionVars
<1>2. SeenRows' = SeenRows /\ There' = There BY <1>1 DEF SeenRows, There, Made
<1>3. \A f \in PastFindings : Seers(f)' = Seers(f) BY <1>1 DEF Seers
<1>4. DeletionInv' BY <1>1, <1>2, <1>3, HistoryTypes DEF DeletionInv
<1> QED BY <1>1, <1>4, QuietKeeps DEF HistoryTypeOK

LEMMA HistoryKeeps == HistoryScans /\ HistoryIInv /\ [HistoryNext]_historyVars => HistoryIInv'
BY HistoryStutters, BeginKeeps, ExecuteKeeps, EndKeeps, StopKeeps, StoreKeeps, SelectKeeps, UpdateKeeps,
   FinishKeeps, DeleteFailsKeeps DEF HistoryNext

LEMMA HistoryIInvHolds == ASSUME HistoryScans PROVE HistorySpec => []HistoryIInv
BY HistoryBegins, HistoryKeeps, PTL DEF HistorySpec

\* Rows are anchored to scans that exist, count one sighting at least and no more than
\* there were, and until a deletion moves them exactly the executions that stored them:
\* for any number of scans, webhooks, executions, findings and deletions.
THEOREM CountsAreSightings == ASSUME HistoryScans PROVE HistorySpec => []HistoryInv
<1>1. HistoryIInv => HistoryInv BY DEF HistoryIInv, HistoryInv
<1> QED BY <1>1, HistoryIInvHolds, PTL

LEMMA LostWithTheLast ==
    ASSUME HistoryScans, HistoryIInv, [HistoryNext]_historyVars,
           NEW f \in SeenRows \ (moved \cup late), anchor'[f] = NoAnchor
    PROVE  Seers(f) \subseteq gone'
<1> USE DEF HistoryIInv
<1>1. f \in PastFindings /\ anchor[f] # NoAnchor BY DEF SeenRows
<1>2. PICK s \in PastScans : DeleteLost(s)
  <2>1. anchor' # anchor BY <1>1
  <2>2. ~UNCHANGED historyVars BY <2>1 DEF historyVars, seenVars
  <2>3. ASSUME NEW s \in PastScans, \/ BeginScan(s) \/ ExecuteScan(s) \/ EndScan(s) \/ Stop(s)
                                    \/ SelectSurvivor(s) \/ UpdateKept(s) \/ DeleteFails(s)
        PROVE FALSE
    BY <2>1, <2>3 DEF BeginScan, ExecuteScan, EndScan, Stop, SelectSurvivor, UpdateKept, DeleteFails, seenVars
  <2>4. ASSUME NEW s \in PastScans, NEW F \in SUBSET PastFindings, StoreSeen(s, F) PROVE FALSE
    <3>1. anchor'[f] \in {s, anchor[f]} BY <1>1, <2>4 DEF StoreSeen
    <3> QED BY <3>1, <1>1 DEF HistoryScans
  <2> QED BY <2>2, <2>3, <2>4 DEF HistoryNext
<1>3. /\ deletion[s] = "updated" /\ gone' = gone \cup {s}
      /\ anchor' = [g \in PastFindings |->
                       IF g \in {h \in PastFindings : anchor[h] = s} \cap kept THEN survivor[s]
                       ELSE IF g \in {h \in PastFindings : anchor[h] = s} \ kept THEN NoAnchor
                       ELSE anchor[g]]
  BY <1>2 DEF DeleteLost
<1>4. anchor[f] = s BY <1>1, <1>3
<1>5. f \notin kept
  <2>1. f \in kept => survivor[s] \in There /\ anchor'[f] = survivor[s] BY <1>1, <1>3, <1>4 DEF DeletionInv
  <2> QED BY <2>1, HistoryTypes
<1> QED BY <1>3, <1>4, <1>5 DEF DeletionInv

\* While no deletion has moved it, a row goes only with the last of the scans that saw it,
\* unless it was stored between the UPDATE and the DELETE of its scan's deletion.
THEOREM RowsOutliveTheirScans == ASSUME HistoryScans PROVE HistorySpec => UnmovedRowsOutlive
<1>1. ASSUME HistoryIInv, [HistoryNext]_historyVars
      PROVE  [\A f \in SeenRows \ (moved \cup late) :
                 anchor'[f] = NoAnchor => Seers(f) \subseteq gone']_historyVars
  BY <1>1, LostWithTheLast
<1> QED BY <1>1, HistoryIInvHolds, PTL DEF HistorySpec, UnmovedRowsOutlive

-----------------------------------------------------------------------------
(* Triage that is run again *)

RetroTypeOK ==
    /\ silence \in Nat /\ runAge \in Nat /\ taskAge \in [Calls -> Nat]
    /\ call \in [Calls -> {"none", "asked", "queued", "running", "done"}]

\* A task that runs has stamped the row since it started.
StampedSince ==
    \A c \in Running : /\ silence <= taskAge[c] /\ runAge <= taskAge[c]
                       /\ taskAge[c] <= TaskTimeLimit

RetroIInv == RetroTypeOK /\ StampedSince

LEMMA RetroBegins == RetroLimits /\ RetroInit => RetroIInv
BY DEF RetroLimits, RetroInit, RetroIInv, RetroTypeOK, StampedSince, Running

\* A task that goes anywhere but on, while the row stays or is stamped.
LEMMA TaskGoes ==
    ASSUME RetroLimits, RetroIInv, NEW c \in Calls,
           NEW to \in {"none", "asked", "queued", "done"}, Go(c, to),
           silence' \in {0, silence}, UNCHANGED <<runAge, taskAge>>
    PROVE  RetroIInv'
BY DEF RetroLimits, RetroIInv, RetroTypeOK, StampedSince, Running, Go

LEMMA TasksStay ==
    ASSUME RetroLimits, RetroIInv, UNCHANGED <<call, runAge, taskAge>>, silence' \in {0, silence}
    PROVE  RetroIInv'
BY DEF RetroLimits, RetroIInv, RetroTypeOK, StampedSince, Running

LEMMA StartKeeps ==
    ASSUME RetroLimits, RetroIInv, NEW c \in Calls, StartTask(c)
    PROVE  RetroIInv'
BY DEF RetroLimits, RetroIInv, RetroTypeOK, StampedSince, Running, StartTask, Stamps, Go

LEMMA PassKeeps ==
    ASSUME RetroLimits, RetroIInv, Pass
    PROVE  RetroIInv'
<1>1. /\ \A c \in Running : taskAge[c] < TaskTimeLimit /\ taskAge'[c] = taskAge[c] + 1
      /\ silence' \in {silence, silence + 1} /\ runAge' \in {runAge, runAge + 1}
      /\ taskAge' = [c \in Calls |-> IF c \in Running THEN taskAge[c] + 1 ELSE taskAge[c]]
      /\ call' = call
  BY DEF Pass, Running
<1>2. Running' = Running /\ Running \subseteq Calls BY <1>1 DEF Running
<1>3. RetroTypeOK' BY <1>1 DEF RetroIInv, RetroTypeOK
<1>4. StampedSince' BY <1>1, <1>2 DEF RetroIInv, RetroTypeOK, StampedSince, RetroLimits
<1> QED BY <1>3, <1>4 DEF RetroIInv

LEMMA RetroKeeps == RetroLimits /\ RetroIInv /\ [RetroNext]_retroVars => RetroIInv'
<1> SUFFICES ASSUME RetroLimits, RetroIInv, RetroNext PROVE RetroIInv'
  BY TasksStay DEF retroVars
<1>1. ASSUME NEW c \in Calls, Ask(c) \/ Dispatch(c) \/ DispatchUnwritten(c) PROVE RetroIInv'
  BY <1>1, TaskGoes DEF Ask, Dispatch, DispatchUnwritten
<1>2. ASSUME NEW c \in Calls, StartTask(c) PROVE RetroIInv' BY <1>2, StartKeeps
<1>3. ASSUME NEW c \in Calls,
             StartFails(c) \/ Beat(c) \/ FinishTask(c) \/ HardLimit(c) \/ WorkerDies(c)
      PROVE  RetroIInv'
  BY <1>3, TaskGoes, TasksStay DEF StartFails, Beat, FinishTask, HardLimit, WorkerDies
<1>4. ASSUME Cancel \/ Watchdog PROVE RetroIInv'
  <2>1. Queued \cup Running \subseteq Calls BY DEF Queued, Running
  <2> QED BY <1>4, <2>1, TaskGoes, TasksStay DEF Cancel, Watchdog
<1>5. ASSUME Pass PROVE RetroIInv' BY <1>5, PassKeeps
<1> QED BY <1>1, <1>2, <1>3, <1>4, <1>5 DEF RetroNext

\* The watchdog fails no row whose triage runs, for any number of requests and any limits
\* in the order the code has them in.
THEOREM NoLiveRunIsReaped == ASSUME RetroLimits PROVE RetroSpec => NoLiveRunReaped
<1>1. RetroIInv /\ Watchdog => Running = {}
  BY DEF RetroIInv, RetroTypeOK, StampedSince, Watchdog, RetroLimits, Running
<1>2. RetroIInv => [Watchdog => Running = {}]_retroVars BY <1>1
<1> QED BY <1>2, RetroBegins, RetroKeeps, PTL DEF RetroSpec, NoLiveRunReaped

-----------------------------------------------------------------------------
(* Tickets *)


Tasks == {"none", "unsent", "queued", "running", "waiting", "done", "dead"}

\* Who can still commit a row is the scan it is anchored to, and knows its tags.
HoldersAreCurrent ==
    \A s \in TicketScans : \A f \in objects[s] \ touched[s] : scanOf[f] = s /\ loaded[s][f] = tags[f]

\* Only what is held has been loaded.
MarkersOfOthers ==
    \A s \in TicketScans, p \in Pairs :
        p[1] \in objects[s] /\ p[2] \in tags[p[1]] /\ p[2] \notin loaded[s][p[1]]
            => p \in forgotten

\* What one fan-out has filed and can commit, another that holds the row knows, or
\* it is one of those that were filed side by side.
FiledOfOthers ==
    \A s, t \in TicketScans, p \in Pairs :
        s # t /\ p \in filed[t] /\ p[1] \in objects[s] /\ p[1] \notin touched[t]
            => p \in forgotten

TicketIInv ==
    /\ TicketTypeOK /\ MarkersAreTrue /\ TicketsAreRemembered /\ DuplicateNeedsLoss
    /\ HoldersAreCurrent /\ MarkersOfOthers /\ FiledOfOthers

-----------------------------------------------------------------------------
LEMMA TicketsBegin == TicketBounds /\ TicketInit => TicketIInv
BY DEF TicketInit, TicketIInv, TicketTypeOK, MarkersAreTrue, TicketsAreRemembered,
       DuplicateNeedsLoss, HoldersAreCurrent, MarkersOfOthers, FiledOfOthers, TicketBounds,
       NoTags, Pairs, RowsOf, TicketRows, HasMarker

\* The pair of a row and a board.
LEMMA PairParts ==
    \A p \in Pairs : p[1] \in TicketFindings /\ p[2] \in Boards /\ p = <<p[1], p[2]>>
BY DEF Pairs

\* What is held belongs to a run.
LEMMA HoldersRun ==
    ASSUME TicketTypeOK, NEW s \in TicketScans, NEW f \in objects[s]
    PROVE  task[s] = "running" /\ f \in TicketFindings
BY DEF TicketTypeOK, TicketRows

\* A row and a board that a run visits.
LEMMA VisitedIsHeld ==
    ASSUME TicketTypeOK, NEW s \in TicketScans, NEW p \in todo[s] \cup filed[s]
    PROVE  p \in Pairs /\ p[1] \in objects[s] /\ task[s] = "running"
<1>1. p \in Pairs BY DEF TicketTypeOK
<1>2. p[1] \in RowsOf(filed[s] \cup todo[s]) BY DEF RowsOf
<1> QED BY <1>1, <1>2 DEF TicketTypeOK

-----------------------------------------------------------------------------
(* Scans and people *)

LEMMA ScanEndsKeeps ==
    ASSUME TicketBounds, TicketIInv, NEW s \in TicketScans, NEW F \in SUBSET TicketFindings,
           NEW W \in SUBSET TicketFindings, ScanEnds(s, F, W)
    PROVE  TicketIInv'
<1> USE DEF TicketIInv, ScanEnds, TaskTo
<1>1. \A t \in TicketScans : touched'[t] = touched[t] \cup (F \cap objects[t])
  BY DEF Touches, TicketBounds
<1>2. \A f \in TicketFindings : scanOf'[f] = IF f \in F THEN s ELSE scanOf[f] OBVIOUS
<1>3. TicketRows' = TicketRows \cup F BY <1>2 DEF TicketRows, TicketBounds
<1>4. objects[s] = {} BY DEF TicketTypeOK
<1>5. TicketTypeOK'
  <2>1. scanOf' \in [TicketFindings -> TicketScans \cup {Unscanned}] BY DEF TicketTypeOK
  <2>2. worthy' \subseteq TicketRows' BY <1>3 DEF TicketTypeOK
  <2>3. task' \in [TicketScans -> Tasks] BY DEF TicketTypeOK, Tasks
  <2>4. objects' \in [TicketScans -> SUBSET TicketRows'] BY <1>3 DEF TicketTypeOK
  <2>5. touched' \in [TicketScans -> SUBSET TicketFindings]
    BY DEF TicketTypeOK, Touches, TicketBounds
  <2>6. \A t \in TicketScans : task'[t] # "running" => objects'[t] = {} BY <1>4 DEF TicketTypeOK
  <2>7. \A t \in TicketScans : touched'[t] \cup RowsOf(filed'[t] \cup todo'[t]) \subseteq objects'[t]
    BY <1>1 DEF TicketTypeOK
  <2> QED BY <2>1, <2>2, <2>3, <2>4, <2>5, <2>6, <2>7 DEF TicketTypeOK, Tasks
<1>6. MarkersAreTrue' BY DEF MarkersAreTrue, HasMarker, TicketTypeOK
<1>7. TicketsAreRemembered' BY DEF TicketsAreRemembered, TicketTypeOK
<1>8. DuplicateNeedsLoss' BY DEF DuplicateNeedsLoss
<1>9. HoldersAreCurrent' BY <1>1, <1>2, HoldersRun DEF HoldersAreCurrent
<1>10. MarkersOfOthers' BY DEF MarkersOfOthers
<1>11. FiledOfOthers' BY <1>1 DEF FiledOfOthers
<1> QED BY <1>5, <1>6, <1>7, <1>8, <1>9, <1>10, <1>11

LEMMA RuleKeeps ==
    ASSUME TicketBounds, TicketIInv, NEW f \in TicketFindings, Rule(f)
    PROVE  TicketIInv'
<1> USE DEF TicketIInv, Rule
<1>1. \A t \in TicketScans : touched'[t] = touched[t] \cup ({f} \cap objects[t])
  BY DEF Touches, TicketBounds
<1>2. TicketTypeOK'
  <2>1. worthy' \subseteq TicketRows' BY DEF TicketTypeOK, TicketRows
  <2>2. touched' \in [TicketScans -> SUBSET TicketFindings] BY DEF TicketTypeOK, Touches, TicketBounds
  <2>3. upsets' \in 0 .. MaxUpsets BY DEF TicketTypeOK, Upset, TicketBounds
  <2>4. objects' \in [TicketScans -> SUBSET TicketRows'] BY DEF TicketTypeOK, TicketRows
  <2>5. \A t \in TicketScans : touched'[t] \cup RowsOf(filed'[t] \cup todo'[t]) \subseteq objects'[t]
    BY <1>1 DEF TicketTypeOK
  <2> QED BY <2>1, <2>2, <2>3, <2>4, <2>5 DEF TicketTypeOK
<1>3. MarkersAreTrue' BY DEF MarkersAreTrue, HasMarker
<1>4. TicketsAreRemembered' BY DEF TicketsAreRemembered
<1>5. DuplicateNeedsLoss' BY DEF DuplicateNeedsLoss
<1>6. HoldersAreCurrent' BY <1>1 DEF HoldersAreCurrent
<1>7. MarkersOfOthers' BY DEF MarkersOfOthers
<1>8. FiledOfOthers' BY <1>1 DEF FiledOfOthers
<1> QED BY <1>2, <1>3, <1>4, <1>5, <1>6, <1>7, <1>8

LEMMA EditTagsKeeps ==
    ASSUME TicketBounds, TicketIInv, NEW f \in TicketFindings, NEW left \in SUBSET Boards,
           EditTags(f, left)
    PROVE  TicketIInv'
<1> USE DEF TicketIInv, EditTags
<1>1. \A t \in TicketScans : touched'[t] = touched[t] \cup ({f} \cap objects[t])
  BY DEF Touches, TicketBounds
<1>2. \A g \in TicketFindings : tags'[g] = IF g = f THEN left ELSE tags[g] BY DEF TicketTypeOK
<1>3. \A g \in TicketFindings : tags'[g] \subseteq tags[g] BY <1>2
<1>4. \A p \in Pairs : p[2] \in tags[p[1]] /\ p[2] \notin tags'[p[1]] => p \in forgotten'
  BY <1>2, PairParts
<1>5. TicketTypeOK'
  <2>1. tags' \in [TicketFindings -> SUBSET Boards] BY DEF TicketTypeOK
  <2>2. touched' \in [TicketScans -> SUBSET TicketFindings] BY DEF TicketTypeOK, Touches, TicketBounds
  <2>3. upsets' \in 0 .. MaxUpsets BY DEF TicketTypeOK, Upset, TicketBounds
  <2>4. objects' \in [TicketScans -> SUBSET TicketRows'] /\ worthy' \subseteq TicketRows' BY DEF TicketTypeOK, TicketRows
  <2>5. \A t \in TicketScans : touched'[t] \cup RowsOf(filed'[t] \cup todo'[t]) \subseteq objects'[t]
    <3> SUFFICES ASSUME NEW t \in TicketScans
                 PROVE  touched[t] \cup ({f} \cap objects[t]) \cup RowsOf(filed[t] \cup todo[t])
                            \subseteq objects[t]
      BY <1>1
    <3> QED BY DEF TicketTypeOK
  <2>6. forgotten' \subseteq Pairs BY DEF TicketTypeOK, Pairs
  <2> QED BY <2>1, <2>2, <2>3, <2>4, <2>5, <2>6 DEF TicketTypeOK
<1>6. MarkersAreTrue' BY <1>3, PairParts DEF MarkersAreTrue, HasMarker
<1>7. TicketsAreRemembered' BY <1>4 DEF TicketsAreRemembered
<1>8. DuplicateNeedsLoss' BY DEF DuplicateNeedsLoss
<1>9. HoldersAreCurrent' BY <1>1, <1>2, HoldersRun DEF HoldersAreCurrent
<1>10. MarkersOfOthers' BY <1>3, PairParts DEF MarkersOfOthers
<1>11. FiledOfOthers' BY <1>1 DEF FiledOfOthers
<1> QED BY <1>5, <1>6, <1>7, <1>8, <1>9, <1>10, <1>11

-----------------------------------------------------------------------------
(* The task *)

LEMMA LoadKeeps ==
    ASSUME TicketBounds, TicketIInv, NEW s \in TicketScans, Load(s)
    PROVE  TicketIInv'
<1> USE DEF TicketIInv, Load, TaskTo
<1> DEFINE F == {f \in TicketFindings : scanOf[f] = s}
<1>1. /\ objects' = [objects EXCEPT ![s] = F] /\ objects[s] = {}
      /\ loaded' = [loaded EXCEPT ![s] = [f \in TicketFindings |-> IF f \in F THEN tags[f] ELSE {}]]
      /\ todo' = [todo EXCEPT ![s] = (F \cap worthy) \X Boards]
  BY DEF TicketTypeOK
<1>2. /\ touched' = [touched EXCEPT ![s] = {}] /\ filed' = [filed EXCEPT ![s] = {}]
      /\ task' = [task EXCEPT ![s] = "running"]
      /\ UNCHANGED <<scanOf, worthy, tags, tries, tickets, forgotten, upsets>>
  BY DEF rowVars
<1>3. F \subseteq TicketRows /\ \A f \in F : scanOf[f] = s BY DEF TicketRows, TicketBounds
<1> HIDE DEF F, Load
<1>4. TicketTypeOK'
  <2>1. objects' \in [TicketScans -> SUBSET TicketRows] BY <1>1, <1>3 DEF TicketTypeOK
  <2>2. todo' \in [TicketScans -> SUBSET Pairs] BY <1>1, <1>3 DEF TicketTypeOK, Pairs, TicketRows
  <2>3. loaded' \in [TicketScans -> [TicketFindings -> SUBSET Boards]] BY <1>1 DEF TicketTypeOK
  <2>4. /\ task' \in [TicketScans -> Tasks] /\ filed' \in [TicketScans -> SUBSET Pairs]
        /\ touched' \in [TicketScans -> SUBSET TicketFindings]
    BY <1>2 DEF TicketTypeOK, Tasks
  <2>5. \A t \in TicketScans : touched'[t] \cup RowsOf(filed'[t] \cup todo'[t]) \subseteq objects'[t]
    <3> SUFFICES ASSUME NEW t \in TicketScans
                 PROVE  touched'[t] \cup RowsOf(filed'[t] \cup todo'[t]) \subseteq objects'[t]
      OBVIOUS
    <3>1. CASE t = s
      <4>1. /\ touched'[t] = {} /\ filed'[t] = {} /\ objects'[t] = F
            /\ todo'[t] = (F \cap worthy) \X Boards
        BY <3>1, <1>1, <1>2 DEF TicketTypeOK
      <4> QED BY <4>1 DEF RowsOf
    <3>2. CASE t # s
      BY <3>2, <1>1, <1>2 DEF TicketTypeOK, RowsOf
    <3> QED BY <3>1, <3>2
  <2>6. \A t \in TicketScans : task'[t] # "running" => objects'[t] = {}
    BY <1>1, <1>2 DEF TicketTypeOK
  <2>7. TicketRows' = TicketRows BY <1>2 DEF TicketRows
  <2> QED BY <1>2, <2>1, <2>2, <2>3, <2>4, <2>5, <2>6, <2>7 DEF TicketTypeOK, Tasks
<1>5. \A t \in TicketScans \ {s} : /\ objects'[t] = objects[t] /\ loaded'[t] = loaded[t]
                                   /\ touched'[t] = touched[t] /\ filed'[t] = filed[t]
                                   /\ task'[t] = task[t]
  BY <1>1, <1>2 DEF TicketTypeOK
<1>6. /\ objects'[s] = F /\ touched'[s] = {} /\ filed'[s] = {} /\ filed[s] = {}
      /\ \A f \in F : loaded'[s][f] = tags[f]
      /\ \A f \in TicketFindings : loaded'[s][f] \subseteq tags[f]
  <2>1. filed[s] = {} BY <1>1, VisitedIsHeld DEF TicketTypeOK
  <2> QED BY <1>1, <1>2, <2>1 DEF TicketTypeOK, F
<1>7. MarkersAreTrue' BY <1>2, <1>5, <1>6, PairParts DEF MarkersAreTrue, HasMarker
<1>8. TicketsAreRemembered' BY <1>2, <1>5, <1>6 DEF TicketsAreRemembered
<1>9. DuplicateNeedsLoss' BY <1>2 DEF DuplicateNeedsLoss
<1>10. HoldersAreCurrent' BY <1>2, <1>3, <1>5, <1>6 DEF HoldersAreCurrent
<1>11. MarkersOfOthers' BY <1>2, <1>5, <1>6 DEF MarkersOfOthers
<1>12. FiledOfOthers'
  <2> SUFFICES ASSUME NEW t \in TicketScans, NEW u \in TicketScans, NEW p \in Pairs,
                      t # u, p \in filed'[u], p[1] \in objects'[t], p[1] \notin touched'[u]
               PROVE  p \in forgotten
    BY <1>2 DEF FiledOfOthers
  <2>1. u # s /\ p \in filed[u] /\ p[1] \notin touched[u] BY <1>5, <1>6
  <2>2. CASE t = s
    <3>1. scanOf[p[1]] = s BY <2>2, <1>3, <1>6
    <3>2. p[1] \in objects[u] BY <2>1, VisitedIsHeld
    <3> QED BY <2>1, <3>1, <3>2 DEF HoldersAreCurrent
  <2>3. CASE t # s
    BY <2>1, <2>3, <1>5 DEF FiledOfOthers
  <2> QED BY <2>2, <2>3
<1> QED BY <1>4, <1>7, <1>8, <1>9, <1>10, <1>11, <1>12

\* The types after a visit.
LEMMA VisitTypes ==
    ASSUME TicketTypeOK, UNCHANGED <<scanOf, worthy, tags, task, tries, loaded, objects, touched>>,
           todo' \in [TicketScans -> SUBSET Pairs], filed' \in [TicketScans -> SUBSET Pairs],
           \A t \in TicketScans : RowsOf(filed'[t] \cup todo'[t]) \subseteq RowsOf(filed[t] \cup todo[t]),
           tickets' \in [Pairs -> Nat], forgotten' \subseteq Pairs, upsets' \in 0 .. MaxUpsets
    PROVE  TicketTypeOK'
<1>1. TicketRows' = TicketRows BY DEF TicketRows
<1>2. \A t \in TicketScans : touched'[t] \cup RowsOf(filed'[t] \cup todo'[t]) \subseteq objects'[t]
  BY DEF TicketTypeOK
<1>3. /\ scanOf' \in [TicketFindings -> TicketScans \cup {Unscanned}] /\ worthy' \subseteq TicketRows'
      /\ tags' \in [TicketFindings -> SUBSET Boards] /\ tries' \in [TicketScans -> 0 .. MaxRetries]
      /\ task' \in [TicketScans -> Tasks]
  BY <1>1 DEF TicketTypeOK, Tasks
<1>4. /\ loaded' \in [TicketScans -> [TicketFindings -> SUBSET Boards]]
      /\ objects' \in [TicketScans -> SUBSET TicketRows'] /\ touched' \in [TicketScans -> SUBSET TicketFindings]
      /\ \A t \in TicketScans : task'[t] # "running" => objects'[t] = {}
  BY <1>1 DEF TicketTypeOK
<1> QED BY <1>2, <1>3, <1>4 DEF TicketTypeOK, Tasks

LEMMA PassOverKeeps ==
    ASSUME TicketBounds, TicketIInv, NEW s \in TicketScans, NEW p \in Pairs, PassOver(s, p)
    PROVE  TicketIInv'
<1> USE DEF TicketIInv, PassOver, Visit, rowVars
<1>1. TicketTypeOK'
  <2>1. todo' \in [TicketScans -> SUBSET Pairs] /\ \A t \in TicketScans : todo'[t] \subseteq todo[t]
    BY DEF TicketTypeOK
  <2>2. \A t \in TicketScans : RowsOf(filed[t] \cup todo'[t]) \subseteq RowsOf(filed[t] \cup todo[t])
    BY <2>1 DEF RowsOf
  <2>3. /\ filed' \in [TicketScans -> SUBSET Pairs] /\ tickets' \in [Pairs -> Nat]
        /\ forgotten' \subseteq Pairs /\ upsets' \in 0 .. MaxUpsets
    BY DEF TicketTypeOK
  <2> QED BY <2>1, <2>2, <2>3, VisitTypes
<1>2. MarkersAreTrue' BY DEF MarkersAreTrue, HasMarker
<1>3. TicketsAreRemembered' BY DEF TicketsAreRemembered
<1>4. DuplicateNeedsLoss' BY DEF DuplicateNeedsLoss
<1>5. HoldersAreCurrent' BY DEF HoldersAreCurrent
<1>6. MarkersOfOthers' BY DEF MarkersOfOthers
<1>7. FiledOfOthers' BY DEF FiledOfOthers
<1> QED BY <1>1, <1>2, <1>3, <1>4, <1>5, <1>6, <1>7

LEMMA SendKeeps ==
    ASSUME TicketBounds, TicketIInv, NEW s \in TicketScans, NEW p \in Pairs,
           NEW made \in BOOLEAN, NEW ok \in BOOLEAN, Send(s, p, made, ok)
    PROVE  TicketIInv'
<1> USE DEF TicketIInv
<1>1. /\ task[s] = "running" /\ p \in todo[s] /\ todo' = [todo EXCEPT ![s] = @ \ {p}]
      /\ ~HasMarker(s, p)
      /\ UNCHANGED <<scanOf, worthy, tags, task, tries, loaded, objects, touched>>
  BY DEF Send, Visit, rowVars
<1>2. p[1] \in objects[s] BY <1>1, VisitedIsHeld
<1>3. /\ \A q \in Pairs \ {p} : tickets'[q] = tickets[q]
      /\ tickets'[p] = IF made THEN tickets[p] + 1 ELSE tickets[p]
      /\ tickets' \in [Pairs -> Nat]
  BY DEF Send, TicketTypeOK
<1>4. \A t \in TicketScans : filed'[t] = IF t = s /\ Marks(p, ok) THEN filed[t] \cup {p} ELSE filed[t]
  BY DEF Send, TicketTypeOK
<1>5. /\ forgotten' \in {forgotten, forgotten \cup {p}}
      /\ made /\ (~Marks(p, ok) \/ Overlaps(s, p[1])) => p \in forgotten'
      /\ Marks(p, ok) => made
  BY DEF Send, Marks
<1>6. TicketTypeOK'
  <2>1. todo' \in [TicketScans -> SUBSET Pairs] /\ \A t \in TicketScans : todo'[t] \subseteq todo[t]
    BY <1>1 DEF TicketTypeOK
  <2>2. filed' \in [TicketScans -> SUBSET Pairs] BY DEF Send, TicketTypeOK
  <2>3. \A t \in TicketScans : RowsOf(filed'[t] \cup todo'[t]) \subseteq RowsOf(filed[t] \cup todo[t])
    BY <1>1, <1>4, <2>1 DEF RowsOf
  <2>4. upsets' \in 0 .. MaxUpsets BY DEF Send, TicketTypeOK, Upset, TicketBounds
  <2>5. forgotten' \subseteq Pairs BY <1>5 DEF TicketTypeOK
  <2> QED BY <1>1, <1>3, <2>1, <2>2, <2>3, <2>4, <2>5, VisitTypes
<1>8. ASSUME NEW q \in Pairs, tickets[q] > 0 PROVE tickets'[q] > 0
  <2>1. tickets[q] \in Nat BY DEF TicketTypeOK
  <2>2. CASE q = p BY <1>3, <1>8, <2>1, <2>2
  <2>3. CASE q # p BY <1>3, <1>8, <2>3
  <2> QED BY <2>2, <2>3
<1>9. MarkersAreTrue'
  <2>1. made => tickets'[p] > 0 BY <1>3 DEF TicketTypeOK
  <2>2. \A q \in Pairs : q[2] \in tags[q[1]] => tickets'[q] > 0
    BY <1>8 DEF MarkersAreTrue
  <2>3. \A t \in TicketScans, q \in Pairs : task[t] = "running" /\ q[2] \in loaded[t][q[1]]
                                              => tickets'[q] > 0
    BY <1>8 DEF MarkersAreTrue, HasMarker
  <2>4. \A t \in TicketScans, q \in Pairs : task[t] = "running" /\ q \in filed'[t] => tickets'[q] > 0
    <3> SUFFICES ASSUME NEW t \in TicketScans, NEW q \in Pairs, task[t] = "running", q \in filed'[t]
                 PROVE  tickets'[q] > 0
      OBVIOUS
    <3>1. q \in filed[t] \/ (q = p /\ made)
      <4>1. CASE t = s /\ Marks(p, ok) BY <4>1, <1>4, <1>5
      <4>2. CASE ~(t = s /\ Marks(p, ok)) BY <4>2, <1>4
      <4> QED BY <4>1, <4>2
    <3>2. q \in filed[t] => tickets[q] > 0 BY DEF MarkersAreTrue, HasMarker
    <3> QED BY <3>1, <3>2, <1>8, <2>1
  <2> QED BY <1>1, <2>2, <2>3, <2>4 DEF MarkersAreTrue, HasMarker
<1>10. TicketsAreRemembered'
  <2> SUFFICES ASSUME NEW q \in Pairs, tickets'[q] > 0, q \notin forgotten'
               PROVE  \/ q[2] \in tags[q[1]]
                      \/ \E t \in TicketScans : task[t] = "running" /\ q \in filed'[t]
    BY <1>1 DEF TicketsAreRemembered
  <2>1. CASE tickets[q] > 0 BY <2>1, <1>4, <1>5 DEF TicketsAreRemembered
  <2>2. CASE ~(tickets[q] > 0)
    <3>1. q = p /\ made BY <2>2, <1>3
    <3>2. Marks(p, ok) BY <3>1, <1>5
    <3> QED BY <3>1, <3>2, <1>1, <1>4
  <2> QED BY <2>1, <2>2
<1>11. DuplicateNeedsLoss'
  <2> SUFFICES ASSUME NEW q \in Pairs, tickets'[q] > 1, q \notin forgotten'
               PROVE  FALSE
    BY DEF DuplicateNeedsLoss
  <2>1. q \notin forgotten /\ ~(tickets[q] > 1) BY <1>5 DEF DuplicateNeedsLoss
  <2>2. q = p /\ made /\ tickets[p] > 0 BY <2>1, <1>3 DEF TicketTypeOK
  <2>3. ~Overlaps(s, p[1]) BY <2>2, <1>5
  <2>4. CASE p[2] \in tags[p[1]]
    BY <2>1, <2>2, <2>4, <1>1, <1>2 DEF MarkersOfOthers, HasMarker
  <2>5. CASE \E t \in TicketScans : task[t] = "running" /\ p \in filed[t]
    <3>1. PICK t \in TicketScans : task[t] = "running" /\ p \in filed[t] BY <2>5
    <3>2. t # s BY <3>1, <1>1 DEF HasMarker
    <3>3. p[1] \in objects[t] BY <3>1, VisitedIsHeld
    <3> QED BY <2>3, <3>1, <3>2, <3>3 DEF Overlaps
  <2> QED BY <2>1, <2>2, <2>4, <2>5 DEF TicketsAreRemembered
<1>12. HoldersAreCurrent' BY <1>1 DEF HoldersAreCurrent
<1>13. MarkersOfOthers' BY <1>1, <1>5 DEF MarkersOfOthers
<1>14. FiledOfOthers'
  <2> SUFFICES ASSUME NEW t \in TicketScans, NEW u \in TicketScans, NEW q \in Pairs,
                      t # u, q \in filed'[u], q[1] \in objects[t], q[1] \notin touched[u]
               PROVE  q \in forgotten'
    BY <1>1 DEF FiledOfOthers
  <2>1. CASE q \in filed[u] BY <2>1, <1>5 DEF FiledOfOthers
  <2>2. CASE q \notin filed[u]
    <3>1. u = s /\ q = p /\ Marks(p, ok) BY <2>2, <1>4
    <3>2. Overlaps(s, p[1]) BY <3>1, HoldersRun DEF Overlaps
    <3> QED BY <3>1, <3>2, <1>5
  <2> QED BY <2>1, <2>2
<1> QED BY <1>6, <1>9, <1>10, <1>11, <1>12, <1>13, <1>14

LEMMA DropsFacts ==
    ASSUME TicketTypeOK, NEW s \in TicketScans, Drops(s)
    PROVE  /\ \A t \in TicketScans \ {s} : /\ todo'[t] = todo[t] /\ filed'[t] = filed[t]
                                           /\ objects'[t] = objects[t] /\ loaded'[t] = loaded[t]
           /\ todo'[s] = {} /\ filed'[s] = {} /\ objects'[s] = {} /\ loaded'[s] = NoTags
           /\ todo' \in [TicketScans -> SUBSET Pairs] /\ filed' \in [TicketScans -> SUBSET Pairs]
           /\ objects' \in [TicketScans -> SUBSET TicketRows]
           /\ loaded' \in [TicketScans -> [TicketFindings -> SUBSET Boards]]
<1>1. NoTags \in [TicketFindings -> SUBSET Boards] BY DEF NoTags
<1> QED BY <1>1 DEF TicketTypeOK, Drops

LEMMA CommitKeeps ==
    ASSUME TicketBounds, TicketIInv, NEW s \in TicketScans, Commit(s)
    PROVE  TicketIInv'
<1> USE DEF TicketIInv
<1> DEFINE F == RowsOf(filed[s])
<1>1. /\ task[s] = "running" /\ task' = [task EXCEPT ![s] = "done"] /\ F \cap touched[s] = {}
      /\ tags' = [f \in TicketFindings |-> IF f \in F THEN NewTags(s, f) ELSE tags[f]]
      /\ touched' = [t \in TicketScans |-> IF t = s THEN {} ELSE touched[t] \cup (F \cap objects[t])]
      /\ Drops(s) /\ UNCHANGED <<scanOf, worthy, tries, tickets, forgotten, upsets>>
  BY DEF Commit, TaskTo, Conflict
<1>2. F \subseteq objects[s] BY VisitedIsHeld DEF RowsOf
<1>3. \A f \in F : f \in TicketFindings /\ scanOf[f] = s /\ loaded[s][f] = tags[f]
  BY <1>1, <1>2, HoldersRun DEF HoldersAreCurrent
<1>4. \A p \in Pairs : p \in filed[s] => p[1] \in F BY DEF RowsOf
<1> HIDE DEF F
<1>5. \A p \in Pairs : p[2] \in tags'[p[1]] <=> p[2] \in tags[p[1]] \/ p \in filed[s]
  BY <1>1, <1>3, <1>4, PairParts DEF NewTags
<1>6. TicketTypeOK'
  <2>1. tags' \in [TicketFindings -> SUBSET Boards] BY <1>1 DEF TicketTypeOK, NewTags
  <2>2. task' \in [TicketScans -> Tasks] BY <1>1 DEF TicketTypeOK, Tasks
  <2>3. touched' \in [TicketScans -> SUBSET TicketFindings] BY <1>1, <1>3 DEF TicketTypeOK
  <2>4. TicketRows' = TicketRows BY <1>1 DEF TicketRows
  <2>5. \A t \in TicketScans : touched'[t] \cup RowsOf(filed'[t] \cup todo'[t]) \subseteq objects'[t]
    <3> SUFFICES ASSUME NEW t \in TicketScans
                 PROVE  touched'[t] \cup RowsOf(filed'[t] \cup todo'[t]) \subseteq objects'[t]
      OBVIOUS
    <3>1. CASE t = s BY <3>1, <1>1, DropsFacts DEF RowsOf
    <3>2. CASE t # s
      <4>1. /\ touched'[t] = touched[t] \cup (F \cap objects[t]) /\ filed'[t] = filed[t]
            /\ todo'[t] = todo[t] /\ objects'[t] = objects[t]
        BY <3>2, <1>1, DropsFacts
      <4> QED BY <4>1 DEF TicketTypeOK
    <3> QED BY <3>1, <3>2
  <2>6. \A t \in TicketScans : task'[t] # "running" => objects'[t] = {}
    BY <1>1, DropsFacts DEF TicketTypeOK
  <2>7. /\ scanOf' \in [TicketFindings -> TicketScans \cup {Unscanned}] /\ worthy' \subseteq TicketRows'
        /\ tries' \in [TicketScans -> 0 .. MaxRetries] /\ upsets' \in 0 .. MaxUpsets
        /\ tickets' \in [Pairs -> Nat] /\ forgotten' \subseteq Pairs
    BY <1>1, <2>4 DEF TicketTypeOK
  <2>8. /\ todo' \in [TicketScans -> SUBSET Pairs] /\ filed' \in [TicketScans -> SUBSET Pairs]
        /\ objects' \in [TicketScans -> SUBSET TicketRows'] /\ loaded' \in [TicketScans -> [TicketFindings -> SUBSET Boards]]
    BY <1>1, <2>4, DropsFacts
  <2> QED BY <2>1, <2>2, <2>3, <2>5, <2>6, <2>7, <2>8 DEF TicketTypeOK, Tasks
<1>7. \A t \in TicketScans \ {s} : /\ touched'[t] = touched[t] \cup (F \cap objects[t]) /\ task'[t] = task[t]
                                   /\ filed'[t] = filed[t] /\ objects'[t] = objects[t]
                                   /\ loaded'[t] = loaded[t]
  BY <1>1, DropsFacts DEF TicketTypeOK
<1>8. task'[s] = "done" /\ filed'[s] = {} /\ objects'[s] = {} BY <1>1, DropsFacts DEF TicketTypeOK
<1>9. \A p \in filed[s] : p \in Pairs /\ tickets[p] > 0
  BY <1>1 DEF TicketTypeOK, MarkersAreTrue, HasMarker
<1>10. MarkersAreTrue'
  BY <1>1, <1>5, <1>7, <1>8, <1>9 DEF MarkersAreTrue, HasMarker
<1>11. TicketsAreRemembered' BY <1>1, <1>5, <1>7, <1>8 DEF TicketsAreRemembered
<1>12. DuplicateNeedsLoss' BY <1>1 DEF DuplicateNeedsLoss
<1>13. HoldersAreCurrent' BY <1>1, <1>7, <1>8, HoldersRun DEF HoldersAreCurrent
<1>14. MarkersOfOthers'
  <2> SUFFICES ASSUME NEW t \in TicketScans, NEW p \in Pairs, p[1] \in objects'[t],
                      p[2] \in tags'[p[1]], p[2] \notin loaded'[t][p[1]]
               PROVE  p \in forgotten
    BY <1>1 DEF MarkersOfOthers
  <2>1. t # s /\ p[1] \in objects[t] /\ p[2] \notin loaded[t][p[1]] BY <1>7, <1>8
  <2>2. CASE p[2] \in tags[p[1]] BY <2>1, <2>2 DEF MarkersOfOthers
  <2>3. CASE p \in filed[s]
    <3>1. p[1] \notin touched[s] BY <2>3, <1>1, <1>4
    <3> QED BY <2>1, <2>3, <3>1 DEF FiledOfOthers
  <2> QED BY <2>2, <2>3, <1>5
<1>15. FiledOfOthers' BY <1>1, <1>7, <1>8 DEF FiledOfOthers
<1> QED BY <1>6, <1>10, <1>11, <1>12, <1>13, <1>14, <1>15

\* A run that is over without a commit has forgotten what it filed.
LEMMA RunsOver ==
    ASSUME TicketBounds, TicketIInv, NEW s \in TicketScans, Drops(s),
           NEW to \in Tasks \ {"running"}, task' = [task EXCEPT ![s] = to],
           touched' = [touched EXCEPT ![s] = {}], forgotten' = forgotten \cup filed[s],
           UNCHANGED <<rowVars, tickets>>,
           upsets' \in 0 .. MaxUpsets, tries' \in [TicketScans -> 0 .. MaxRetries]
    PROVE  TicketIInv'
<1> USE DEF TicketIInv, rowVars
<1>1. \A t \in TicketScans \ {s} : /\ touched'[t] = touched[t] /\ task'[t] = task[t]
                                   /\ filed'[t] = filed[t] /\ objects'[t] = objects[t]
                                   /\ loaded'[t] = loaded[t] /\ todo'[t] = todo[t]
  <2>1. \A t \in TicketScans \ {s} : touched'[t] = touched[t] /\ task'[t] = task[t]
    BY DEF TicketTypeOK
  <2> QED BY <2>1, DropsFacts
<1>2. /\ task'[s] # "running" /\ filed'[s] = {} /\ objects'[s] = {} /\ touched'[s] = {}
      /\ todo'[s] = {}
  <2>1. touched'[s] = {} /\ task'[s] = to BY DEF TicketTypeOK
  <2> QED BY <2>1, DropsFacts
<1>3. TicketTypeOK'
  <2>1. task' \in [TicketScans -> Tasks] /\ touched' \in [TicketScans -> SUBSET TicketFindings]
    BY DEF TicketTypeOK, Tasks
  <2>2. TicketRows' = TicketRows BY DEF TicketRows
  <2>3. \A t \in TicketScans : touched'[t] \cup RowsOf(filed'[t] \cup todo'[t]) \subseteq objects'[t]
    BY <1>1, <1>2 DEF TicketTypeOK, RowsOf
  <2>4. \A t \in TicketScans : task'[t] # "running" => objects'[t] = {} BY <1>1, <1>2 DEF TicketTypeOK
  <2>5. forgotten' \subseteq Pairs BY DEF TicketTypeOK
  <2> QED BY DropsFacts, <2>1, <2>2, <2>3, <2>4, <2>5 DEF TicketTypeOK, Tasks
<1>4. MarkersAreTrue' BY <1>1, <1>2 DEF MarkersAreTrue, HasMarker
<1>5. TicketsAreRemembered' BY <1>1, <1>2 DEF TicketsAreRemembered
<1>6. DuplicateNeedsLoss' BY DEF DuplicateNeedsLoss
<1>7. HoldersAreCurrent' BY <1>1, <1>2 DEF HoldersAreCurrent
<1>8. MarkersOfOthers' BY <1>1, <1>2 DEF MarkersOfOthers
<1>9. FiledOfOthers' BY <1>1, <1>2 DEF FiledOfOthers
<1> QED BY <1>3, <1>4, <1>5, <1>6, <1>7, <1>8, <1>9

LEMMA FailsKeeps ==
    ASSUME TicketBounds, TicketIInv, NEW s \in TicketScans, Fails(s)
    PROVE  TicketIInv'
<1>1. tries' \in [TicketScans -> 0 .. MaxRetries] /\ upsets' \in 0 .. MaxUpsets
  BY DEF Fails, CountsRetry, TicketIInv, TicketTypeOK, TicketBounds
<1>2. PICK to \in {"waiting", "dead"} : task' = [task EXCEPT ![s] = to]
  BY DEF Fails, TaskTo
<1> QED BY <1>1, <1>2, RunsOver DEF Fails, Tasks

LEMMA CrashKeeps ==
    ASSUME TicketBounds, TicketIInv, NEW s \in TicketScans, Crash(s)
    PROVE  TicketIInv'
<1>1. tries' \in [TicketScans -> 0 .. MaxRetries] /\ upsets' \in 0 .. MaxUpsets
  BY DEF Crash, Upset, TicketIInv, TicketTypeOK, TicketBounds
<1>2. task' = [task EXCEPT ![s] = "queued"] BY DEF Crash, TaskTo
<1> QED BY <1>1, <1>2, RunsOver DEF Crash, Tasks

LEMMA CountdownKeeps ==
    ASSUME TicketBounds, TicketIInv, NEW s \in TicketScans, Countdown(s)
    PROVE  TicketIInv'
<1> USE DEF TicketIInv, Countdown, TaskTo, rowVars, workVars
<1>1. TicketTypeOK'
  <2>1. task' \in [TicketScans -> Tasks] BY DEF TicketTypeOK, Tasks
  <2>2. \A t \in TicketScans : task'[t] # "running" => objects[t] = {} BY DEF TicketTypeOK
  <2> QED BY <2>1, <2>2 DEF TicketTypeOK, Tasks, TicketRows
<1>2. \A t \in TicketScans : task'[t] = "running" <=> task[t] = "running" BY DEF TicketTypeOK
<1>3. MarkersAreTrue' BY <1>2 DEF MarkersAreTrue, HasMarker
<1>4. TicketsAreRemembered' BY <1>2 DEF TicketsAreRemembered
<1>5. DuplicateNeedsLoss' BY DEF DuplicateNeedsLoss
<1>6. HoldersAreCurrent' BY DEF HoldersAreCurrent
<1>7. MarkersOfOthers' BY DEF MarkersOfOthers
<1>8. FiledOfOthers' BY DEF FiledOfOthers
<1> QED BY <1>1, <1>3, <1>4, <1>5, <1>6, <1>7, <1>8

-----------------------------------------------------------------------------
LEMMA TicketsStutter ==
    ASSUME TicketIInv, UNCHANGED ticketVars
    PROVE  TicketIInv'
<1> USE DEF TicketIInv, ticketVars, rowVars, workVars
<1>1. TicketTypeOK' BY DEF TicketTypeOK, TicketRows
<1>2. MarkersAreTrue' BY DEF MarkersAreTrue, HasMarker
<1>3. TicketsAreRemembered' BY DEF TicketsAreRemembered
<1>4. DuplicateNeedsLoss' BY DEF DuplicateNeedsLoss
<1>5. HoldersAreCurrent' BY DEF HoldersAreCurrent
<1>6. MarkersOfOthers' BY DEF MarkersOfOthers
<1>7. FiledOfOthers' BY DEF FiledOfOthers
<1> QED BY <1>1, <1>2, <1>3, <1>4, <1>5, <1>6, <1>7

LEMMA TicketsKeep == TicketBounds /\ TicketIInv /\ [TicketNext]_ticketVars => TicketIInv'
<1> SUFFICES ASSUME TicketBounds, TicketIInv, TicketNext PROVE TicketIInv'
  BY TicketsStutter
<1>1. ASSUME NEW s \in TicketScans, FanoutStep(s) PROVE TicketIInv'
  BY <1>1, LoadKeeps, PassOverKeeps, SendKeeps, CommitKeeps, FailsKeeps, CountdownKeeps
     DEF FanoutStep
<1>2. ASSUME NEW s \in TicketScans, Crash(s) PROVE TicketIInv' BY <1>2, CrashKeeps
<1>3. ASSUME NEW s \in TicketScans, NEW F \in SUBSET TicketFindings, NEW W \in SUBSET TicketFindings,
             ScanEnds(s, F, W)
      PROVE  TicketIInv'
  BY <1>3, ScanEndsKeeps
<1>4. ASSUME NEW f \in TicketFindings, Rule(f) PROVE TicketIInv' BY <1>4, RuleKeeps
<1>5. ASSUME NEW f \in TicketFindings, NEW left \in SUBSET Boards, EditTags(f, left)
      PROVE  TicketIInv'
  BY <1>5, EditTagsKeeps
<1> QED BY <1>1, <1>2, <1>3, <1>4, <1>5 DEF TicketNext

LEMMA TicketIInvHolds == ASSUME TicketBounds PROVE TicketSpec => []TicketIInv
BY TicketsBegin, TicketsKeep, PTL DEF TicketSpec

\* Markers and tickets agree: the dispatcher passes over no finding that has no ticket,
\* and what was filed and is not lost is in the tags or about to be committed, for any
\* number of findings, boards, scans, retries and upsets.
THEOREM TicketsAgree == ASSUME TicketBounds PROVE TicketSpec => []TicketInv
<1>1. TicketIInv => TicketInv BY DEF TicketIInv, TicketInv
<1> QED BY <1>1, TicketIInvHolds, PTL

\* A second ticket is filed for a finding only after the marker of the first was lost, or
\* was filed next to another fan-out of the same finding.
THEOREM DuplicatesNeedALoss == ASSUME TicketBounds PROVE TicketSpec => []DuplicateNeedsLoss
<1>1. TicketIInv => DuplicateNeedsLoss BY DEF TicketIInv
<1> QED BY <1>1, TicketIInvHolds, PTL
=============================================================================
