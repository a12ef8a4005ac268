-------------------------- MODULE SuppressionsProofs --------------------------
(***************************************************************************)
(* Suppression for any findings, rules, admins and scans.  A rule takes only *)
(* visible rows, though it decides by what its session remembers: whatever *)
(* was hidden since the session loaded it was either hidden by a write that *)
(* makes the session's commit fail, or the session knows.  A deletion holds *)
(* its rows until it commits, so nothing that is not a race joins them.     *)
(***************************************************************************)
EXTENDS Suppressions, FiniteSetTheorems, WellFoundedInduction, TLAPS

Used == Live \cup deleted

Phases == {"idle", "storing", "stored", "ruled", "passed"}

RowTypes ==
    /\ rows \subseteq Findings /\ hidden \subseteq rows /\ raced \subseteq hidden
    /\ reason \in [Findings -> Reasons]

RuleTypes ==
    /\ scope \in [Rules -> SUBSET Findings] /\ active \subseteq Live
    /\ review \in [Rules -> {"none", "pending", "approved", "rejected"}]
    /\ deleted \subseteq Rules \ Live

SessionTypes ==
    /\ phase \in [Scans -> Phases] /\ known \in [Scans -> [Rules -> SUBSET Findings]]
    /\ held \in [Scans -> SUBSET rows] /\ stale \in [Scans -> SUBSET rows]
    /\ dim \in [Scans -> SUBSET rows] /\ found \in [Scans -> SUBSET rows]
    /\ \A s \in Scans : /\ stale[s] \cup dim[s] \subseteq held[s]
                        /\ phase[s] = "idle" => held[s] = {}

DeskTypes ==
    /\ desk \in [Admins -> Requests]
    /\ scans \in 0 .. MaxScans /\ requests \in 0 .. MaxRequests

\* A row that is not stored has no reason yet; one hidden by a rule names one that was made.
UnstoredHaveNoReason == \A f \in Findings \ rows : reason[f] = "none"
HiddenByUsed == \A f \in hidden : reason[f] \in Rules => reason[f] \in Used

RowsInv ==
    /\ ReasonsMatch /\ OrphansNeedARace /\ PendingHidesNothing
    /\ UnstoredHaveNoReason /\ HiddenByUsed

\* What a session holds, nobody having written it since, and is hidden, it knows so.
HeldAreKnown ==
    \A s \in Scans : \A f \in (held[s] \ stale[s]) \cap hidden : f \in dim[s]

FoundAreHeld ==
    \A s \in Scans : /\ phase[s] \in {"stored", "ruled"} => found[s] \subseteq held[s]
                     /\ phase[s] = "idle" => found[s] = {}

SessionsInv == HeldAreKnown /\ FoundAreHeld

Deleting(a) == desk[a].doing = "delete"

\* A deletion under way has all rows of its rule but those of races, and no other.
DeletesOwn ==
    /\ \A a \in Admins : Deleting(a) =>
          /\ desk[a].rule \in Rules
          /\ desk[a].rows \subseteq HiddenBy(desk[a].rule)
          /\ HiddenBy(desk[a].rule) \ raced \subseteq desk[a].rows
    /\ \A a, b \in Admins :
          a # b /\ Deleting(a) /\ Deleting(b) => desk[a].rows \cap desk[b].rows = {}

\* A proposal is not active, whoever edits it knows what it is, no scan knows it.
PendingIsInert ==
    /\ \A r \in Rules : review[r] = "pending" => r \in Used \ active
    /\ \A a \in Admins : desk[a].doing = "edit" =>
          /\ desk[a].rule \in Used
          /\ review[desk[a].rule] = "pending" => desk[a].pend
    /\ \A s \in Scans, r \in Rules : known[s][r] # {} => r \in Used /\ review[r] # "pending"

SuppressionIInv ==
    SuppressionTypeOK /\ RowsInv /\ SessionsInv /\ DeletesOwn /\ PendingIsInert

\* The properties of a step.
OwnReasons ==
    /\ \A f \in hidden : reason'[f] # reason[f] =>
          \/ f \notin hidden' /\ reason'[f] = "none"
          \/ /\ reason'[f] = "verified"
             /\ \E s \in Scans : /\ phase[s] = "storing" /\ phase'[s] # "storing"
                                 /\ f \in held[s] \ stale[s]
    /\ \A f \in hidden \ hidden' :
          \/ reason[f] = "verified"
          \/ \E a \in Admins : desk[a] # desk'[a] /\ reason[f] = desk[a].rule

-----------------------------------------------------------------------------
(* The first rule of an order *)

\* Numbers up to a bound have a least one.
LEMMA Least ==
    ASSUME NEW N \in Nat, NEW T \in SUBSET (1 .. N), T # {}
    PROVE  \E m \in T : \A n \in T : m <= n
<1> DEFINE I    == 1 .. N
           O    == StrictSubsetOrdering(I)
           Segs == {1 .. m : m \in T}
<1>1. IsFiniteSet(I)
  BY FS_Interval
<1>2. FiniteSubsetsOf(I) = SUBSET I
  BY <1>1, FS_FiniteSubsetsOfFinite
<1>3. IsWellFoundedOn(O, SUBSET I)
  BY <1>2, FS_StrictSubsetOrderingWellFounded
<1>4. Segs \subseteq SUBSET I /\ Segs # {}
  <2>1. \A m \in T : 1 .. m \subseteq I
    OBVIOUS
  <2> HIDE DEF I
  <2> QED BY <2>1
<1>5. PICK x \in Segs : \A y \in Segs : ~(<<y, x>> \in O)
  <2> HIDE DEF O, Segs, I
  <2> QED BY <1>3, <1>4, WFMin
<1>6. PICK m \in T : x = 1 .. m
  OBVIOUS
<1>7. ASSUME NEW n \in T PROVE m <= n
  <2> SUFFICES ASSUME n < m PROVE FALSE
    OBVIOUS
  <2>1. 1 .. n \subseteq 1 .. m /\ 1 .. n # 1 .. m
    OBVIOUS
  <2>2. 1 .. n \in SUBSET I /\ 1 .. m \in SUBSET I /\ 1 .. n \in Segs
    OBVIOUS
  <2>3. <<1 .. n, x>> \in O
    BY <1>6, <2>1, <2>2 DEF StrictSubsetOrdering
  <2> QED BY <1>5, <2>2, <2>3
<1> QED BY <1>7

\* Of the rules that match a row, an order names a first.
LEMMA FirstRule ==
    ASSUME NEW order \in Orders, NEW M \in SUBSET Rules, M # {}
    PROVE  \E r \in M : \A q \in M : order[r] <= order[q]
<1> DEFINE N == Cardinality(Rules)
           T == {order[r] : r \in M}
<1>1. N \in Nat
  BY SuppressionBounds, FS_CardinalityType
<1>2. order \in [Rules -> 1 .. N]
  BY DEF Orders
<1>3. T \in SUBSET (1 .. N) /\ T # {}
  <2> HIDE DEF N
  <2> QED BY <1>2
<1>4. PICK m \in T : \A n \in T : m <= n
  <2> HIDE DEF N, T
  <2> QED BY <1>1, <1>3, Least
<1> QED BY <1>4

\* Pass to of scan s takes the rows W, row f with rule by[f].
Took(s, to, K, W, by) ==
    /\ \A f \in W : f \in K[by[f]]
    /\ W \cap stale[s] = {} /\ W \cap Locked = {}
    /\ hidden' = hidden \cup W
    /\ reason' = [f \in Findings |-> IF f \in W THEN by[f] ELSE reason[f]]
    /\ raced' = raced \cup {f \in W : by[f] \in Dying
                              \/ (by[f] \in Live /\ Enabled[by[f]] # K[by[f]])}
    /\ Moves(s, to, found[s], dim[s] \cup W)
    /\ Written(s, W)

TookSome(s, to, F, K, there) ==
    \E W \in SUBSET (F \ dim[s]) : \E by \in [W -> there] : Took(s, to, K, W, by)

\* What a pass of the rules does to the rows, without the choice it is defined by.
LEMMA ApplyFacts ==
    ASSUME NEW s \in Scans, NEW to, NEW F \in SUBSET Findings, NEW K \in [Rules -> SUBSET Findings],
           NEW there \in SUBSET Rules, NEW order \in Orders, Apply(s, to, F, K, there, order)
    PROVE  TookSome(s, to, F, K, there)
<1> DEFINE W     == {f \in F \ dim[s] : \E r \in Rules : f \in K[r]}
           by[f \in W] == CHOOSE r \in Rules :
                          /\ f \in K[r]
                          /\ \A q \in Rules : f \in K[q] => order[r] <= order[q]
<1>1. ASSUME NEW f \in W
      PROVE  by[f] \in Rules /\ f \in K[by[f]]
  <2> DEFINE M == {r \in Rules : f \in K[r]}
  <2>1. M \in SUBSET Rules /\ M # {}
    OBVIOUS
  <2>2. \E r \in M : \A q \in M : order[r] <= order[q]
    <3> HIDE DEF M
    <3> QED BY <2>1, FirstRule
  <2>3. by[f] = CHOOSE r \in Rules : /\ f \in K[r]
                                     /\ \A q \in Rules : f \in K[q] => order[r] <= order[q]
    OBVIOUS
  <2>4. \E r \in Rules : /\ f \in K[r]
                         /\ \A q \in Rules : f \in K[q] => order[r] <= order[q]
    BY <2>2
  <2> HIDE DEF by
  <2> QED BY <2>3, <2>4
<1>2. /\ W \cap stale[s] = {} /\ W \cap Locked = {}
      /\ \A f \in W : by[f] \in there
      /\ hidden' = hidden \cup W
      /\ reason' = [f \in Findings |-> IF f \in W THEN by[f] ELSE reason[f]]
      /\ raced' = raced \cup {f \in W : by[f] \in Dying
                                \/ (by[f] \in Live /\ Enabled[by[f]] # K[by[f]])}
      /\ Moves(s, to, found[s], dim[s] \cup W)
      /\ Written(s, W)
  BY DEF Apply, Clash
<1>3. W \in SUBSET (F \ dim[s]) /\ by \in [W -> there]
  <2>1. W \in SUBSET (F \ dim[s])
    OBVIOUS
  <2>2. by = [f \in W |-> by[f]]
    OBVIOUS
  <2> HIDE DEF by, W
  <2> QED BY <1>2, <2>1, <2>2
<1> HIDE DEF by, W
<1>4. Took(s, to, K, W, by)
  BY <1>1, <1>2 DEF Took
<1> QED BY <1>3, <1>4 DEF TookSome

-----------------------------------------------------------------------------
(* What sessions hold *)

LEMMA TypeParts == SuppressionTypeOK <=> RowTypes /\ RuleTypes /\ SessionTypes /\ DeskTypes
BY DEF SuppressionTypeOK, RowTypes, RuleTypes, SessionTypes, DeskTypes, Phases

LEMMA TypePartsNext ==
    SuppressionTypeOK' <=> RowTypes' /\ RuleTypes' /\ SessionTypes' /\ DeskTypes'
BY DEF SuppressionTypeOK, RowTypes, RuleTypes, SessionTypes, DeskTypes, Phases, Live, Reasons, Requests

\* What a step of scan s leaves each session with.
MoveLeaves(s, p, F, D, W) ==
    \A t \in Scans :
        /\ phase'[t] = IF t = s THEN p ELSE phase[t]
        /\ held'[t] = IF t # s THEN held[t] ELSE IF p = "idle" THEN {} ELSE held[s] \cup F
        /\ dim'[t] = IF t # s THEN dim[t] ELSE IF p = "idle" THEN {} ELSE D
        /\ found'[t] = IF t # s THEN found[t] ELSE IF p = "idle" THEN {} ELSE F
        /\ stale'[t] = IF phase'[t] = "idle" THEN {}
                       ELSE IF t = s THEN stale[t] ELSE stale[t] \cup (W \cap held[t])

LEMMA MoveAt ==
    ASSUME SessionTypes, NEW s \in Scans, NEW p \in Phases, NEW F, NEW D, NEW W,
           Moves(s, p, F, D), Written(s, W)
    PROVE  MoveLeaves(s, p, F, D, W)
<1> SUFFICES ASSUME NEW t \in Scans
             PROVE  /\ phase'[t] = IF t = s THEN p ELSE phase[t]
                    /\ held'[t] = IF t # s THEN held[t] ELSE IF p = "idle" THEN {} ELSE held[s] \cup F
                    /\ dim'[t] = IF t # s THEN dim[t] ELSE IF p = "idle" THEN {} ELSE D
                    /\ found'[t] = IF t # s THEN found[t] ELSE IF p = "idle" THEN {} ELSE F
                    /\ stale'[t] = IF phase'[t] = "idle" THEN {}
                                   ELSE IF t = s THEN stale[t] ELSE stale[t] \cup (W \cap held[t])
  BY DEF MoveLeaves
<1>1. stale'[t] = IF phase'[t] = "idle" THEN {}
                  ELSE IF t = s THEN stale[t] ELSE stale[t] \cup (W \cap held[t])
  BY DEF Written
<1>2. phase'[t] = IF t = s THEN p ELSE phase[t]
  BY DEF SessionTypes, Moves
<1>3. /\ held'[t] = IF t # s THEN held[t] ELSE IF p = "idle" THEN {} ELSE held[s] \cup F
      /\ dim'[t] = IF t # s THEN dim[t] ELSE IF p = "idle" THEN {} ELSE D
      /\ found'[t] = IF t # s THEN found[t] ELSE IF p = "idle" THEN {} ELSE F
  BY DEF SessionTypes, Moves
<1> QED BY <1>1, <1>2, <1>3

\* A scan that stores F and writes W goes on.
LEMMA MoveTypes ==
    ASSUME SessionTypes, NEW s \in Scans, NEW p \in Phases, NEW F, NEW D, NEW W,
           rows \subseteq rows', F \subseteq rows', p # "idle" => D \subseteq held[s] \cup F,
           Moves(s, p, F, D), Written(s, W)
    PROVE  SessionTypes'
<1>0. MoveLeaves(s, p, F, D, W)
  BY MoveAt
<1>1. phase' \in [Scans -> Phases] /\ known' \in [Scans -> [Rules -> SUBSET Findings]]
  BY DEF SessionTypes, Moves, Nothing
<1>2. held' \in [Scans -> SUBSET rows'] /\ found' \in [Scans -> SUBSET rows']
  BY DEF SessionTypes, Moves
<1>3. dim' \in [Scans -> SUBSET rows']
  BY DEF SessionTypes, Moves
<1>4. stale' \in [Scans -> SUBSET rows']
  BY DEF SessionTypes, Written
<1>5. ASSUME NEW t \in Scans
      PROVE  /\ stale'[t] \cup dim'[t] \subseteq held'[t]
             /\ phase'[t] = "idle" => held'[t] = {}
  <2>1. stale[t] \cup dim[t] \subseteq held[t] /\ (phase[t] = "idle" => held[t] = {})
    BY DEF SessionTypes
  <2> QED BY <1>0, <2>1 DEF MoveLeaves
<1> QED BY <1>1, <1>2, <1>3, <1>4, <1>5 DEF SessionTypes

\* What is hidden is hidden by its own write, or was written under the others.
LEMMA MoveSessions ==
    ASSUME SessionTypes, SessionsInv, NEW s \in Scans, NEW p \in Phases, NEW F, NEW D, NEW W,
           hidden' \subseteq hidden \cup W,
           p # "idle" => ((held[s] \cup F) \ stale[s]) \cap hidden' \subseteq D,
           Moves(s, p, F, D), Written(s, W)
    PROVE  SessionsInv'
<1>0. MoveLeaves(s, p, F, D, W)
  BY MoveAt
<1>1. ASSUME NEW t \in Scans, NEW f \in held'[t] \ stale'[t], f \in hidden'
      PROVE  f \in dim'[t]
  <2>1. CASE t = s
    BY <1>0, <1>1, <2>1 DEF MoveLeaves
  <2>2. CASE t # s
    <3>1. f \in held[t] \ stale[t] /\ f \in hidden
      <4>1. phase[t] = "idle" => held[t] = {}
        BY DEF SessionTypes
      <4> QED BY <1>0, <1>1, <2>2, <4>1 DEF MoveLeaves
    <3>2. dim'[t] = dim[t]
      BY <1>0, <2>2 DEF MoveLeaves
    <3> QED BY <3>1, <3>2 DEF SessionsInv, HeldAreKnown
  <2> QED BY <2>1, <2>2
<1>2. ASSUME NEW t \in Scans
      PROVE  /\ phase'[t] \in {"stored", "ruled"} => found'[t] \subseteq held'[t]
             /\ phase'[t] = "idle" => found'[t] = {}
  <2>1. CASE t = s
    BY <1>0, <2>1 DEF MoveLeaves
  <2>2. CASE t # s
    BY <1>0, <2>2 DEF MoveLeaves, SessionsInv, FoundAreHeld
  <2> QED BY <2>1, <2>2
<1> QED BY <1>1, <1>2 DEF SessionsInv, HeldAreKnown, FoundAreHeld

\* Requests write under every session.
LEMMA RehideSessions ==
    ASSUME SessionTypes, SessionsInv, NEW r, NEW U, NEW W, NEW saw, Rehide(r, U, W, saw)
    PROVE  SessionTypes' /\ SessionsInv'
<1>1. stale' = [t \in Scans |-> IF phase[t] = "idle" THEN {} ELSE stale[t] \cup (W \cap held[t])]
  <2>1. NoRule \notin Scans
    BY SuppressionBounds
  <2> QED BY <2>1 DEF Rehide, Written
<1>2. /\ phase' = phase /\ known' = known /\ held' = held /\ dim' = dim /\ found' = found
      /\ rows' = rows /\ hidden' = (hidden \ U) \cup W
  BY DEF Rehide
<1>3. ASSUME NEW t \in Scans
      PROVE  /\ stale'[t] \in SUBSET rows
             /\ stale'[t] \cup dim[t] \subseteq held[t]
             /\ phase[t] # "idle" => stale[t] \cup (W \cap held[t]) \subseteq stale'[t]
  <2>1. /\ stale[t] \cup dim[t] \subseteq held[t] /\ stale[t] \in SUBSET rows
        /\ held[t] \in SUBSET rows /\ (phase[t] = "idle" => held[t] = {})
    BY DEF SessionTypes
  <2>2. stale'[t] = IF phase[t] = "idle" THEN {} ELSE stale[t] \cup (W \cap held[t])
    BY <1>1
  <2> QED BY <2>1, <2>2
<1>4. stale' \in [Scans -> SUBSET rows']
  BY <1>1, <1>2, <1>3
<1>5. SessionTypes'
  BY <1>2, <1>3, <1>4 DEF SessionTypes
<1>6. ASSUME NEW t \in Scans, NEW f \in held[t] \ stale'[t], f \in hidden'
      PROVE  f \in dim[t]
  <2>1. phase[t] = "idle" => held[t] = {}
    BY DEF SessionTypes
  <2>2. f \in held[t] \ stale[t] /\ f \in hidden
    BY <1>2, <1>3, <1>6, <2>1
  <2> QED BY <2>2 DEF SessionsInv, HeldAreKnown
<1>7. HeldAreKnown'
  BY <1>2, <1>6 DEF HeldAreKnown
<1>8. FoundAreHeld'
  BY <1>2 DEF SessionsInv, FoundAreHeld
<1> QED BY <1>5, <1>7, <1>8 DEF SessionsInv

-----------------------------------------------------------------------------
(* Requests *)

StepHolds == SuppressionIInv' /\ OwnReasons

\* Steps that write no row and no rule.
LEMMA QuietRows ==
    ASSUME SuppressionIInv, UNCHANGED <<ruleVars, findingVars, raced>>
    PROVE  RowTypes' /\ RuleTypes' /\ RowsInv' /\ OwnReasons
<1>1. /\ scope' = scope /\ active' = active /\ review' = review /\ deleted' = deleted
      /\ rows' = rows /\ hidden' = hidden /\ reason' = reason /\ raced' = raced
  BY DEF ruleVars, findingVars
<1>2. RowTypes' /\ RuleTypes'
  BY <1>1, TypeParts DEF SuppressionIInv, RowTypes, RuleTypes, Live
<1>3. RowsInv'
  BY <1>1 DEF SuppressionIInv, RowsInv, ReasonsMatch, OrphansNeedARace, PendingHidesNothing,
             UnstoredHaveNoReason, HiddenByUsed, Visible, Used, Live
<1>4. OwnReasons
  BY <1>1 DEF OwnReasons
<1> QED BY <1>2, <1>3, <1>4

\* Steps of no scan, which write no row.
LEMMA QuietSessions ==
    ASSUME SuppressionIInv, UNCHANGED <<findingVars, sessionVars>>
    PROVE  SessionTypes' /\ SessionsInv'
<1>1. /\ rows' = rows /\ hidden' = hidden
      /\ phase' = phase /\ known' = known /\ held' = held /\ stale' = stale
      /\ dim' = dim /\ found' = found
  BY DEF findingVars, sessionVars
<1>2. SessionTypes'
  BY <1>1, TypeParts DEF SuppressionIInv, SessionTypes
<1>3. SessionsInv'
  BY <1>1 DEF SuppressionIInv, SessionsInv, HeldAreKnown, FoundAreHeld
<1> QED BY <1>2, <1>3

\* Steps of no deletion, which write no row.
LEMMA QuietDeletions ==
    ASSUME SuppressionIInv, UNCHANGED <<findingVars, desk, raced>>
    PROVE  DeletesOwn'
BY DEF SuppressionIInv, DeletesOwn, Deleting, HiddenBy, findingVars

\* A row that is hidden has the reason of a rule only if the rule was made.
LEMMA UnusedHidesNothing ==
    ASSUME SuppressionIInv, NEW r \in Rules, Unused(r)
    PROVE  /\ r \notin Used /\ HiddenBy(r) = {} /\ review[r] # "pending" /\ r \notin active
           /\ \A s \in Scans : known[s][r] = {}
           /\ \A a \in Admins : desk[a].doing = "edit" => desk[a].rule # r
<1>1. r \notin Used
  BY DEF Unused, Used
<1>2. HiddenBy(r) = {}
  BY <1>1 DEF SuppressionIInv, RowsInv, HiddenByUsed, HiddenBy
<1>3. r \notin active
  BY <1>1 DEF SuppressionIInv, SuppressionTypeOK, Used
<1> QED BY <1>1, <1>2, <1>3 DEF SuppressionIInv, PendingIsInert

LEMMA LearnedRule ==
    ASSUME SuppressionIInv, NEW r \in Rules, NEW S \in Criteria, NEW proposed \in BOOLEAN,
           AddLearned(r, S, proposed)
    PROVE  /\ RuleTypes' /\ Used' = Used \cup {r} /\ deleted' = deleted
           /\ scope'[r] = S /\ review'[r] = IF proposed THEN "pending" ELSE "none"
           /\ active' = (IF proposed THEN active ELSE active \cup {r})
           /\ \A q \in Rules \ {r} : scope'[q] = scope[q] /\ review'[q] = review[q]
<1>1. /\ scope \in [Rules -> SUBSET Findings] /\ active \subseteq Live
      /\ review \in [Rules -> {"none", "pending", "approved", "rejected"}]
      /\ deleted \subseteq Rules \ Live
  BY DEF SuppressionIInv, SuppressionTypeOK
<1>2. S \subseteq Findings /\ S # {}
  BY DEF Criteria
<1>3. /\ scope'[r] = S /\ review'[r] = IF proposed THEN "pending" ELSE "none"
      /\ \A q \in Rules \ {r} : scope'[q] = scope[q] /\ review'[q] = review[q]
  BY <1>1 DEF AddLearned
<1>4. /\ active' = (IF proposed THEN active ELSE active \cup {r})
      /\ deleted' = deleted /\ r \notin Live \cup deleted
  BY DEF AddLearned, Unused
<1>5. Live' = Live \cup {r}
  BY <1>2, <1>3 DEF Live
<1>6. Used' = Used \cup {r}
  BY <1>4, <1>5 DEF Used
<1>7. scope' \in [Rules -> SUBSET Findings]
  BY <1>1, <1>2 DEF AddLearned
<1>8. review' \in [Rules -> {"none", "pending", "approved", "rejected"}]
  BY <1>1 DEF AddLearned
<1>9. RuleTypes'
  <2>1. active' \subseteq Live' /\ deleted' \subseteq Rules \ Live'
    BY <1>1, <1>4, <1>5
  <2> QED BY <1>7, <1>8, <2>1 DEF RuleTypes
<1> QED BY <1>3, <1>4, <1>6, <1>9

LEMMA LearnHolds ==
    ASSUME SuppressionIInv, NEW a \in Admins, NEW r \in Rules, NEW S \in Criteria,
           NEW proposed \in BOOLEAN, Learn(a, r, S, proposed)
    PROVE  StepHolds
<1>1. /\ AddLearned(r, S, proposed) /\ Request(a)
      /\ UNCHANGED <<findingVars, sessionVars, desk, raced, scans>>
  BY DEF Learn
<1>2. Unused(r)
  BY <1>1 DEF AddLearned
<1>3. /\ r \notin Used /\ HiddenBy(r) = {} /\ review[r] # "pending" /\ r \notin active
      /\ \A s \in Scans : known[s][r] = {}
      /\ \A b \in Admins : desk[b].doing = "edit" => desk[b].rule # r
  BY <1>2, UnusedHidesNothing
<1>4. /\ RuleTypes' /\ Used' = Used \cup {r} /\ deleted' = deleted
      /\ scope'[r] = S /\ review'[r] = IF proposed THEN "pending" ELSE "none"
      /\ active' = (IF proposed THEN active ELSE active \cup {r})
      /\ \A q \in Rules \ {r} : scope'[q] = scope[q] /\ review'[q] = review[q]
  BY <1>1, LearnedRule
<1>5. /\ rows' = rows /\ hidden' = hidden /\ reason' = reason /\ raced' = raced
      /\ known' = known /\ desk' = desk /\ scans' = scans
  BY <1>1 DEF findingVars, sessionVars
<1>6. SessionTypes' /\ SessionsInv'
  BY <1>1, QuietSessions
<1>7. DeletesOwn'
  BY <1>1, QuietDeletions
<1>8. RowTypes' /\ DeskTypes'
  <2>1. RowTypes'
    BY <1>5, TypeParts DEF SuppressionIInv, RowTypes
  <2>2. requests' \in 0 .. MaxRequests
    BY <1>1, SuppressionBounds DEF Request, SuppressionIInv, SuppressionTypeOK
  <2>3. DeskTypes'
    BY <1>5, <2>2, TypeParts DEF SuppressionIInv, DeskTypes
  <2> QED BY <2>1, <2>3
<1>9. RowsInv'
  <2>1. ReasonsMatch' /\ UnstoredHaveNoReason' /\ HiddenByUsed'
    BY <1>4, <1>5 DEF SuppressionIInv, RowsInv, ReasonsMatch, UnstoredHaveNoReason,
                      HiddenByUsed, Visible
  <2>2. ASSUME NEW f \in hidden, reason[f] \in Rules
        PROVE  reason[f] # r
    BY <1>3, <2>2 DEF HiddenBy
  <2>3. OrphansNeedARace'
    BY <1>4, <1>5, <2>2 DEF SuppressionIInv, RowsInv, OrphansNeedARace
  <2>4. PendingHidesNothing'
    BY <1>4, <1>5, <2>2 DEF SuppressionIInv, RowsInv, PendingHidesNothing
  <2> QED BY <2>1, <2>3, <2>4 DEF RowsInv
<1>10. PendingIsInert'
  <2>1. ASSUME NEW q \in Rules, review'[q] = "pending"
        PROVE  q \in Used' \ active'
    BY <1>3, <1>4, <2>1 DEF SuppressionIInv, PendingIsInert
  <2>2. ASSUME NEW b \in Admins, desk[b].doing = "edit"
        PROVE  /\ desk[b].rule \in Used'
               /\ review'[desk[b].rule] = "pending" => desk[b].pend
    <3>1. desk[b].rule \in Used \ {r} /\ desk[b].rule \in Rules
      BY <1>3, <2>2 DEF SuppressionIInv, PendingIsInert, SuppressionTypeOK, Used, Live
    <3> QED BY <1>4, <2>2, <3>1 DEF SuppressionIInv, PendingIsInert
  <2>3. ASSUME NEW s \in Scans, NEW q \in Rules, known[s][q] # {}
        PROVE  q \in Used' /\ review'[q] # "pending"
    BY <1>3, <1>4, <2>3 DEF SuppressionIInv, PendingIsInert
  <2> QED BY <1>5, <2>1, <2>2, <2>3 DEF PendingIsInert
<1>11. OwnReasons
  BY <1>5 DEF OwnReasons
<1>12. SuppressionTypeOK'
  BY <1>4, <1>6, <1>8, TypePartsNext
<1> QED BY <1>6, <1>7, <1>9, <1>10, <1>11, <1>12 DEF StepHolds, SuppressionIInv

\* Rule r takes W, having given U back; saw is FALSE if it may not match W any more.
Takes(r, U, W, saw) ==
    \A f \in hidden' :
        IF f \in W THEN reason'[f] = r /\ (saw \/ f \in raced')
                   ELSE /\ f \in hidden \ U /\ reason'[f] = reason[f]
                        /\ f \in raced => f \in raced'

\* A rule takes visible rows after its own came back; no deletion under way sees it.
LEMMA RehideHolds ==
    ASSUME SuppressionIInv, NEW r \in Rules, NEW U, NEW W, NEW saw,
           Rehide(r, U, W, saw), U \subseteq HiddenBy(r), W \subseteq Visible \cup U,
           \A b \in Admins : desk'[b].doing = "delete" => desk'[b] = desk[b]
    PROVE  /\ RowTypes' /\ SessionTypes' /\ SessionsInv' /\ DeletesOwn'
           /\ ReasonsMatch' /\ UnstoredHaveNoReason'
           /\ rows' = rows /\ known' = known /\ scans' = scans
           /\ Takes(r, U, W, saw)
           /\ \A f \in hidden : reason'[f] # reason[f] => f \notin hidden' /\ reason'[f] = "none"
           /\ hidden \ hidden' \subseteq HiddenBy(r)
<1>1. /\ rows \subseteq Findings /\ hidden \subseteq rows /\ raced \subseteq hidden
      /\ reason \in [Findings -> Reasons]
  BY DEF SuppressionIInv, SuppressionTypeOK
<1>2. /\ (U \cup W) \cap Locked = {} /\ hidden' = (hidden \ U) \cup W
      /\ reason' = [f \in Findings |-> IF f \in W THEN r ELSE IF f \in U THEN "none" ELSE reason[f]]
      /\ rows' = rows /\ known' = known /\ scans' = scans
  BY DEF Rehide
<1>3. raced' = (raced \ U) \cup (IF saw /\ r \notin Dying THEN {} ELSE W)
  BY DEF Rehide
<1>4. U \subseteq hidden /\ W \subseteq rows /\ W \cap hidden \subseteq U
  BY <1>1 DEF HiddenBy, Visible
<1>5. \A f \in U : reason[f] = r
  BY DEF HiddenBy
<1>6. SessionTypes' /\ SessionsInv'
  <2>1. SessionTypes /\ SessionsInv
    BY TypeParts DEF SuppressionIInv
  <2> QED BY <2>1, RehideSessions
<1>7. RowTypes'
  <2>1. reason' \in [Findings -> Reasons]
    BY <1>1, <1>2 DEF Reasons
  <2>2. hidden' \subseteq rows' /\ raced' \subseteq hidden'
    BY <1>1, <1>2, <1>3, <1>4
  <2> QED BY <1>1, <1>2, <2>1, <2>2 DEF RowTypes
<1>8. Takes(r, U, W, saw)
  BY <1>1, <1>2, <1>3, <1>4 DEF Takes
<1>9. \A f \in hidden : reason'[f] # reason[f] => f \notin hidden' /\ reason'[f] = "none"
  BY <1>1, <1>2, <1>4, <1>5 DEF HiddenBy
<1>10. ReasonsMatch'
  <2>1. "none" \notin Rules /\ r # "none"
    BY SuppressionBounds
  <2>2. ASSUME NEW f \in hidden' PROVE reason'[f] # "none"
    BY <1>8, <2>1, <2>2 DEF Takes, SuppressionIInv, RowsInv, ReasonsMatch
  <2>3. ASSUME NEW f \in rows' \ hidden' PROVE reason'[f] \notin Rules
    <3>1. f \in Findings /\ f \notin W /\ (f \in U \/ f \in Visible)
      BY <1>1, <1>2, <2>3 DEF Visible
    <3>2. CASE f \in U
      BY <1>2, <2>1, <3>1, <3>2
    <3>3. CASE f \notin U
      BY <1>2, <3>1, <3>3 DEF SuppressionIInv, RowsInv, ReasonsMatch
    <3> QED BY <3>2, <3>3
  <2> QED BY <2>2, <2>3 DEF ReasonsMatch, Visible
<1>11. UnstoredHaveNoReason'
  BY <1>1, <1>2, <1>4 DEF SuppressionIInv, RowsInv, UnstoredHaveNoReason
<1>12. DeletesOwn'
  <2>1. ASSUME NEW b \in Admins, desk'[b].doing = "delete"
        PROVE  /\ desk'[b] = desk[b] /\ Deleting(b) /\ desk[b].rows \subseteq Locked
               /\ desk[b].rule \in Dying
    BY <2>1 DEF Deleting, Locked, Dying
  <2>2. ASSUME NEW b \in Admins, desk'[b].doing = "delete"
        PROVE  /\ desk'[b].rule \in Rules
               /\ \A f \in desk'[b].rows : f \in hidden' /\ reason'[f] = desk'[b].rule
               /\ \A f \in hidden' : reason'[f] = desk'[b].rule /\ f \notin raced' => f \in desk'[b].rows
    <3> DEFINE q == desk[b].rule
    <3>1. /\ q \in Rules /\ q \in Dying /\ desk'[b] = desk[b]
          /\ \A f \in desk[b].rows : f \notin U \cup W
      <4>1. q \in Rules
        BY <2>1, <2>2 DEF SuppressionIInv, DeletesOwn
      <4>2. \A f \in desk[b].rows : f \notin U \cup W
        BY <1>2, <2>1, <2>2
      <4> QED BY <2>1, <2>2, <4>1, <4>2
    <3>2. /\ \A f \in desk[b].rows : f \in hidden /\ reason[f] = q
          /\ \A f \in hidden : reason[f] = q /\ f \notin raced => f \in desk[b].rows
      BY <2>1, <2>2 DEF SuppressionIInv, DeletesOwn, HiddenBy
    <3> HIDE DEF q
    <3>3. \A f \in desk[b].rows : f \in hidden' /\ reason'[f] = q
      BY <1>1, <1>2, <3>1, <3>2
    <3>4. ASSUME NEW f \in hidden', reason'[f] = q, f \notin raced'
          PROVE  f \in desk[b].rows
      <4>1. CASE f \in W
        BY <1>3, <1>8, <3>1, <3>4, <4>1 DEF Takes
      <4>2. CASE f \notin W
        BY <1>8, <3>2, <3>4, <4>2 DEF Takes
      <4> QED BY <4>1, <4>2
    <3> USE DEF q
    <3> QED BY <3>1, <3>3, <3>4
  <2>3. ASSUME NEW b \in Admins, NEW c \in Admins, b # c,
               desk'[b].doing = "delete", desk'[c].doing = "delete"
        PROVE  desk'[b].rows \cap desk'[c].rows = {}
    BY <2>1, <2>3 DEF SuppressionIInv, DeletesOwn
  <2> QED BY <2>2, <2>3 DEF DeletesOwn, Deleting, HiddenBy
<1>13. hidden \ hidden' \subseteq HiddenBy(r)
  BY <1>2
<1> QED BY <1>2, <1>6, <1>7, <1>8, <1>9, <1>10, <1>11, <1>12, <1>13

\* The rows that change hands, if their rule holds for them and the other rules stay.
LEMMA RehideRows ==
    ASSUME SuppressionIInv, NEW r \in Rules, NEW U, NEW W, NEW saw,
           Takes(r, U, W, saw), ReasonsMatch', UnstoredHaveNoReason',
           \A q \in Rules \ {r} : /\ q \in active => q \in active'
                                  /\ scope'[q] = scope[q] /\ review'[q] = review[q],
           Used \subseteq Used',
           \A f \in W : /\ saw => r \in active' /\ f \in scope'[r]
                        /\ r \in Used' /\ review'[r] # "pending",
           \A f \in HiddenBy(r) \ (U \cup W) :
              /\ f \notin raced => r \in active' /\ f \in scope'[r]
              /\ review'[r] # "pending"
    PROVE  RowsInv'
<1>1. ASSUME NEW f \in hidden', reason'[f] \in Rules
      PROVE  /\ f \notin raced' => reason'[f] \in active' /\ f \in scope'[reason'[f]]
             /\ review'[reason'[f]] # "pending" /\ reason'[f] \in Used'
  <2>1. CASE f \in W
    <3>1. reason'[f] = r /\ (saw \/ f \in raced')
      BY <2>1 DEF Takes
    <3> QED BY <2>1, <3>1
  <2>2. CASE f \notin W
    <3>1. f \in hidden \ U /\ reason'[f] = reason[f] /\ (f \in raced => f \in raced')
      BY <2>2 DEF Takes
    <3>2. CASE reason[f] = r
      <4>1. f \in HiddenBy(r) \ (U \cup W)
        BY <2>2, <3>1, <3>2 DEF HiddenBy
      <4>2. r \in Used
        BY <3>1, <3>2 DEF SuppressionIInv, RowsInv, HiddenByUsed
      <4> QED BY <3>1, <3>2, <4>1, <4>2
    <3>3. CASE reason[f] # r
      <4>1. /\ f \notin raced => reason[f] \in active /\ f \in scope[reason[f]]
            /\ review[reason[f]] # "pending" /\ reason[f] \in Used
        BY <1>1, <3>1 DEF SuppressionIInv, RowsInv, OrphansNeedARace, PendingHidesNothing,
                          HiddenByUsed
      <4> QED BY <1>1, <3>1, <3>3, <4>1
    <3> QED BY <3>2, <3>3
  <2> QED BY <2>1, <2>2
<1>2. OrphansNeedARace'
  BY <1>1 DEF OrphansNeedARace
<1>3. PendingHidesNothing' /\ HiddenByUsed'
  BY <1>1 DEF PendingHidesNothing, HiddenByUsed
<1> QED BY <1>2, <1>3 DEF RowsInv

LEMMA CreateHolds ==
    ASSUME SuppressionIInv, NEW a \in Admins, NEW r \in Rules, NEW S \in Criteria,
           Create(a, r, S)
    PROVE  StepHolds
<1> DEFINE W == S \cap Visible
<1>1. /\ scope \in [Rules -> SUBSET Findings] /\ active \subseteq Live /\ deleted \subseteq Rules \ Live
      /\ review \in [Rules -> {"none", "pending", "approved", "rejected"}]
      /\ desk \in [Admins -> Requests] /\ scans \in 0 .. MaxScans /\ requests \in 0 .. MaxRequests
  BY DEF SuppressionIInv, SuppressionTypeOK
<1>2. /\ Unused(r) /\ Request(a) /\ Rehide(r, {}, W, TRUE)
      /\ scope' = [scope EXCEPT ![r] = S] /\ active' = active \cup {r}
      /\ review' = review /\ deleted' = deleted /\ desk' = desk
  BY DEF Create
<1>3. /\ r \notin Used /\ HiddenBy(r) = {} /\ review[r] # "pending" /\ r \notin active
      /\ \A s \in Scans : known[s][r] = {}
      /\ \A b \in Admins : desk[b].doing = "edit" => desk[b].rule # r
  BY <1>2, UnusedHidesNothing
<1>4. S \subseteq Findings /\ S # {}
  BY DEF Criteria
<1>5. scope'[r] = S /\ \A q \in Rules \ {r} : scope'[q] = scope[q]
  BY <1>1, <1>2
<1>6. Live' = Live \cup {r}
  BY <1>4, <1>5 DEF Live
<1>7. Used' = Used \cup {r}
  BY <1>2, <1>6 DEF Used
<1>8. RuleTypes'
  <2>1. scope' \in [Rules -> SUBSET Findings]
    BY <1>1, <1>2, <1>4
  <2>2. active' \subseteq Live' /\ deleted' \subseteq Rules \ Live'
    BY <1>1, <1>2, <1>3, <1>6 DEF Used
  <2> QED BY <1>1, <1>2, <2>1, <2>2 DEF RuleTypes
<1>9. /\ RowTypes' /\ SessionTypes' /\ SessionsInv' /\ DeletesOwn'
      /\ ReasonsMatch' /\ UnstoredHaveNoReason' /\ Takes(r, {}, W, TRUE)
      /\ rows' = rows /\ known' = known /\ scans' = scans
      /\ \A f \in hidden : reason'[f] # reason[f] => f \notin hidden' /\ reason'[f] = "none"
      /\ hidden \ hidden' \subseteq HiddenBy(r)
  <2> HIDE DEF W
  <2>1. {} \subseteq HiddenBy(r) /\ W \subseteq Visible \cup {}
    BY DEF W
  <2>2. \A b \in Admins : desk'[b].doing = "delete" => desk'[b] = desk[b]
    BY <1>2
  <2>3. Rehide(r, {}, W, TRUE)
    BY <1>2 DEF W
  <2> DEFINE U == {}
             saw == TRUE
  <2>4. U \subseteq HiddenBy(r) /\ W \subseteq Visible \cup U /\ Rehide(r, U, W, saw)
    BY <2>1, <2>3
  <2> HIDE DEF U, saw
  <2>5. /\ RowTypes' /\ SessionTypes' /\ SessionsInv' /\ DeletesOwn'
        /\ ReasonsMatch' /\ UnstoredHaveNoReason' /\ Takes(r, U, W, saw)
        /\ rows' = rows /\ known' = known /\ scans' = scans
        /\ \A f \in hidden : reason'[f] # reason[f] => f \notin hidden' /\ reason'[f] = "none"
        /\ hidden \ hidden' \subseteq HiddenBy(r)
    BY <2>2, <2>4, RehideHolds
  <2> QED BY <2>5 DEF U, saw
<1>10. RowsInv'
  <2>1. \A q \in Rules \ {r} : /\ q \in active => q \in active'
                               /\ scope'[q] = scope[q] /\ review'[q] = review[q]
    BY <1>2, <1>5
  <2>2. \A f \in W : /\ TRUE => r \in active' /\ f \in scope'[r]
                     /\ r \in Used' /\ review'[r] # "pending"
    BY <1>2, <1>3, <1>5, <1>7
  <2>3. \A f \in HiddenBy(r) \ ({} \cup W) :
           /\ f \notin raced => r \in active' /\ f \in scope'[r]
           /\ review'[r] # "pending"
    BY <1>3
  <2>4. Used \subseteq Used'
    BY <1>7
  <2> HIDE DEF W
  <2> QED BY <1>9, <2>1, <2>2, <2>3, <2>4, RehideRows
<1>11. PendingIsInert'
  <2>1. ASSUME NEW q \in Rules, review'[q] = "pending"
        PROVE  q \in Used' \ active'
    BY <1>2, <1>3, <1>7, <2>1 DEF SuppressionIInv, PendingIsInert
  <2>2. ASSUME NEW b \in Admins, desk[b].doing = "edit"
        PROVE  /\ desk[b].rule \in Used'
               /\ review'[desk[b].rule] = "pending" => desk[b].pend
    BY <1>2, <1>7, <2>2 DEF SuppressionIInv, PendingIsInert
  <2>3. ASSUME NEW s \in Scans, NEW q \in Rules, known[s][q] # {}
        PROVE  q \in Used' /\ review'[q] # "pending"
    BY <1>2, <1>7, <2>3 DEF SuppressionIInv, PendingIsInert
  <2> QED BY <1>2, <1>9, <2>1, <2>2, <2>3 DEF PendingIsInert
<1>12. DeskTypes'
  <2>1. requests' \in 0 .. MaxRequests
    BY <1>1, <1>2, SuppressionBounds DEF Request
  <2> QED BY <1>1, <1>2, <1>9, <2>1 DEF DeskTypes
<1>13. OwnReasons
  BY <1>3, <1>9 DEF OwnReasons
<1>14. SuppressionTypeOK'
  BY <1>8, <1>9, <1>12, TypePartsNext
<1> QED BY <1>9, <1>10, <1>11, <1>13, <1>14 DEF StepHolds, SuppressionIInv

\* An edit under way names a rule there was, with its criteria as they were read.
LEMMA EditFacts ==
    ASSUME SuppressionIInv, NEW a \in Admins, desk[a].doing = "edit", desk[a].rule \in Live
    PROVE  /\ desk[a].rule \in Rules /\ desk[a].rows \subseteq Findings
           /\ desk[a].was \in BOOLEAN /\ desk[a].pend \in BOOLEAN
           /\ review[desk[a].rule] = "pending" => desk[a].pend /\ desk[a].rule \notin active
<1>1. desk[a] \in Requests
  BY DEF SuppressionIInv, SuppressionTypeOK
<1>2. desk[a].rule \in Rules
  BY DEF Live
<1>3. review[desk[a].rule] = "pending" => desk[a].pend /\ desk[a].rule \notin active
  BY <1>2 DEF SuppressionIInv, PendingIsInert
<1> QED BY <1>1, <1>2, <1>3 DEF Requests

\* The request that ends leaves the others as they are.
LEMMA DeskCleared ==
    ASSUME SuppressionIInv, NEW a \in Admins, desk' = [desk EXCEPT ![a] = Idle]
    PROVE  /\ desk' \in [Admins -> Requests]
           /\ desk'[a].doing = "nothing"
           /\ \A b \in Admins \ {a} : desk'[b] = desk[b]
           /\ \A b \in Admins : desk'[b].doing = "delete" => desk'[b] = desk[b]
<1>1. desk \in [Admins -> Requests]
  BY DEF SuppressionIInv, SuppressionTypeOK
<1>2. Idle \in Requests /\ Idle.doing = "nothing"
  BY DEF Idle, Requests
<1>3. desk'[a] = Idle /\ \A b \in Admins \ {a} : desk'[b] = desk[b]
  BY <1>1
<1>4. desk' \in [Admins -> Requests]
  BY <1>1, <1>2
<1>5. "nothing" # "delete"
  OBVIOUS
<1> HIDE DEF Idle
<1> QED BY <1>2, <1>3, <1>4, <1>5

\* A request that ends, and makes no rule pending.
LEMMA DeskClearedInert ==
    ASSUME SuppressionIInv, NEW a \in Admins, desk' = [desk EXCEPT ![a] = Idle],
           known' = known, Used \subseteq Used',
           \A q \in Rules : review'[q] = "pending" => review[q] = "pending" /\ q \notin active'
    PROVE  PendingIsInert'
<1>1. /\ desk'[a].doing = "nothing"
      /\ \A b \in Admins \ {a} : desk'[b] = desk[b]
  BY DeskCleared
<1>2. ASSUME NEW q \in Rules, review'[q] = "pending"
      PROVE  q \in Used' \ active'
  BY <1>2 DEF SuppressionIInv, PendingIsInert
<1>3. ASSUME NEW b \in Admins, desk'[b].doing = "edit"
      PROVE  /\ desk'[b].rule \in Used'
             /\ review'[desk'[b].rule] = "pending" => desk'[b].pend
  <2>1. desk'[b] = desk[b] /\ desk[b].rule \in Used
    <3>1. b # a
      BY <1>1, <1>3
    <3> QED BY <1>1, <1>3, <3>1 DEF SuppressionIInv, PendingIsInert
  <2>2. desk[b].rule \in Rules
    BY <2>1 DEF Used, Live, SuppressionIInv, SuppressionTypeOK
  <2> QED BY <1>3, <2>1, <2>2 DEF SuppressionIInv, PendingIsInert
<1>4. ASSUME NEW s \in Scans, NEW q \in Rules, known'[s][q] # {}
      PROVE  q \in Used' /\ review'[q] # "pending"
  BY <1>4 DEF SuppressionIInv, PendingIsInert
<1> QED BY <1>2, <1>3, <1>4 DEF PendingIsInert

LEMMA EditHolds ==
    ASSUME SuppressionIInv, NEW a \in Admins, NEW on \in BOOLEAN, NEW to \in Criteria,
           Edit(a, on, to)
    PROVE  StepHolds
<1> DEFINE d    == desk[a]
           r    == d.rule
           now  == IF on # d.was THEN on ELSE r \in active
           crit == to # d.rows
           S    == IF crit THEN to ELSE scope[r]
           U    == IF IF now THEN crit ELSE d.was THEN HiddenBy(r) ELSE {}
           W    == IF now /\ (~d.was \/ crit) THEN S \cap (Visible \cup U) ELSE {}
           saw  == TRUE
<1>1. /\ scope \in [Rules -> SUBSET Findings] /\ active \subseteq Live /\ deleted \subseteq Rules \ Live
      /\ review \in [Rules -> {"none", "pending", "approved", "rejected"}]
      /\ scans \in 0 .. MaxScans /\ requests \in 0 .. MaxRequests
  BY DEF SuppressionIInv, SuppressionTypeOK
<1>2. /\ d.doing = "edit" /\ r \in Live /\ ~(d.pend /\ on)
      /\ active' = (IF now THEN active \cup {r} ELSE active \ {r})
      /\ scope' = [scope EXCEPT ![r] = S] /\ desk' = [desk EXCEPT ![a] = Idle]
      /\ review' = review /\ deleted' = deleted /\ requests' = requests
  BY DEF Edit, IsApproval
<1>3. Rehide(r, U, W, TRUE)
  BY DEF Edit
<1>4. /\ r \in Rules /\ d.was \in BOOLEAN
      /\ review[r] = "pending" => d.pend /\ r \notin active
  BY <1>2, EditFacts
<1>5. S \subseteq Findings /\ S # {}
  BY <1>1, <1>2, <1>4 DEF Criteria, Live
<1>6. U \subseteq HiddenBy(r) /\ W \subseteq Visible \cup U /\ W \subseteq S
  OBVIOUS
<1>7. /\ now /\ crit => U = HiddenBy(r)
      /\ ~now => W = {} /\ (r \notin active \/ U = HiddenBy(r))
      /\ ~crit => S = scope[r]
  BY <1>4
<1>8. review[r] = "pending" => ~now
  BY <1>2, <1>4
<1> HIDE DEF now, crit, S, U, W, saw
<1>9. scope'[r] = S /\ \A q \in Rules \ {r} : scope'[q] = scope[q]
  BY <1>1, <1>2, <1>4
<1>10. Live' = Live /\ Used' = Used
  <2>1. Live' = Live
    BY <1>2, <1>4, <1>5, <1>9 DEF Live
  <2> QED BY <1>2, <2>1 DEF Used
<1>11. RuleTypes'
  <2>1. scope' \in [Rules -> SUBSET Findings]
    BY <1>1, <1>2, <1>5
  <2>2. active' \subseteq Live' /\ deleted' \subseteq Rules \ Live'
    BY <1>1, <1>2, <1>10
  <2> QED BY <1>1, <1>2, <2>1, <2>2 DEF RuleTypes
<1>12. /\ desk' \in [Admins -> Requests] /\ desk'[a].doing = "nothing"
       /\ \A b \in Admins : desk'[b].doing = "delete" => desk'[b] = desk[b]
  BY <1>2, DeskCleared
<1>13. /\ RowTypes' /\ SessionTypes' /\ SessionsInv' /\ DeletesOwn'
       /\ ReasonsMatch' /\ UnstoredHaveNoReason' /\ Takes(r, U, W, saw)
       /\ rows' = rows /\ known' = known /\ scans' = scans
       /\ \A f \in hidden : reason'[f] # reason[f] => f \notin hidden' /\ reason'[f] = "none"
       /\ hidden \ hidden' \subseteq HiddenBy(r)
  <2>1. Rehide(r, U, W, saw)
    BY <1>3 DEF saw
  <2> HIDE DEF d, r
  <2> QED BY <1>4, <1>6, <1>12, <2>1, RehideHolds
<1>14. RowsInv'
  <2>1. \A q \in Rules \ {r} : /\ q \in active => q \in active'
                               /\ scope'[q] = scope[q] /\ review'[q] = review[q]
    BY <1>2, <1>9
  <2>2. ASSUME NEW f \in W
        PROVE  /\ saw => r \in active' /\ f \in scope'[r]
               /\ r \in Used' /\ review'[r] # "pending"
    <3>1. now
      BY <1>7, <2>2
    <3> QED BY <1>2, <1>6, <1>8, <1>9, <1>10, <2>2, <3>1 DEF Used
  <2>3. ASSUME NEW f \in HiddenBy(r) \ (U \cup W)
        PROVE  /\ f \notin raced => r \in active' /\ f \in scope'[r]
               /\ review'[r] # "pending"
    <3>1. f \in hidden /\ reason[f] = r
      BY <2>3 DEF HiddenBy
    <3>2. /\ f \notin raced => r \in active /\ f \in scope[r]
          /\ review[r] # "pending"
      BY <1>4, <3>1 DEF SuppressionIInv, RowsInv, OrphansNeedARace, PendingHidesNothing
    <3>3. CASE now
      <4>1. ~crit
        BY <1>7, <2>3, <3>3
      <4> QED BY <1>2, <1>7, <1>9, <3>2, <3>3, <4>1
    <3>4. CASE ~now
      BY <1>2, <1>7, <2>3, <3>2, <3>4
    <3> QED BY <3>3, <3>4
  <2> HIDE DEF d, r
  <2> QED BY <1>4, <1>10, <1>13, <2>1, <2>2, <2>3, RehideRows
<1>15. PendingIsInert'
  <2>1. ASSUME NEW q \in Rules, review'[q] = "pending"
        PROVE  review[q] = "pending" /\ q \notin active'
    <3>1. review[q] = "pending" /\ q \notin active
      BY <1>2, <2>1 DEF SuppressionIInv, PendingIsInert
    <3> QED BY <1>2, <1>8, <3>1
  <2> HIDE DEF d, r
  <2> QED BY <1>2, <1>10, <1>13, <2>1, DeskClearedInert
<1>16. DeskTypes'
  BY <1>1, <1>2, <1>12, <1>13 DEF DeskTypes
<1>17. OwnReasons
  <2>1. ASSUME NEW f \in hidden \ hidden'
        PROVE  desk[a] # desk'[a] /\ reason[f] = desk[a].rule
    BY <1>2, <1>12, <1>13, <2>1 DEF HiddenBy
  <2> QED BY <1>13, <2>1 DEF OwnReasons
<1>18. SuppressionTypeOK'
  BY <1>11, <1>13, <1>16, TypePartsNext
<1> QED BY <1>13, <1>14, <1>15, <1>17, <1>18 DEF StepHolds, SuppressionIInv

LEMMA DecideHolds ==
    ASSUME SuppressionIInv, NEW a \in Admins, NEW approve \in BOOLEAN, Decide(a, approve)
    PROVE  StepHolds
<1> DEFINE d   == desk[a]
           r   == d.rule
           U   == {}
           W   == IF approve THEN d.rows \cap Visible ELSE {}
           saw == d.rows = scope[r]
<1>1. /\ scope \in [Rules -> SUBSET Findings] /\ active \subseteq Live /\ deleted \subseteq Rules \ Live
      /\ review \in [Rules -> {"none", "pending", "approved", "rejected"}]
      /\ scans \in 0 .. MaxScans /\ requests \in 0 .. MaxRequests
  BY DEF SuppressionIInv, SuppressionTypeOK
<1>2. /\ d.doing = "edit" /\ r \in Live
      /\ review' = [review EXCEPT ![r] = IF approve THEN "approved" ELSE "rejected"]
      /\ active' = (IF approve THEN active \cup {r} ELSE active)
      /\ desk' = [desk EXCEPT ![a] = Idle]
      /\ scope' = scope /\ deleted' = deleted /\ requests' = requests
  BY DEF Decide
<1>3. Rehide(r, U, W, saw)
  BY DEF Decide
<1>4. r \in Rules /\ d.rows \subseteq Findings
  BY <1>2, EditFacts
<1>5. U \subseteq HiddenBy(r) /\ W \subseteq Visible \cup U
  OBVIOUS
<1>6. U = {} /\ \A f \in W : approve /\ f \in d.rows
  OBVIOUS
<1>7. saw => d.rows = scope[r]
  OBVIOUS
<1> HIDE DEF U, W, saw
<1>8. /\ review'[r] \in {"approved", "rejected"}
      /\ \A q \in Rules \ {r} : review'[q] = review[q]
  BY <1>1, <1>2, <1>4
<1>9. Live' = Live /\ Used' = Used
  BY <1>2 DEF Live, Used
<1>10. RuleTypes'
  <2>1. review' \in [Rules -> {"none", "pending", "approved", "rejected"}]
    BY <1>1, <1>2
  <2>2. active' \subseteq Live' /\ deleted' \subseteq Rules \ Live'
    BY <1>1, <1>2, <1>9
  <2> QED BY <1>1, <1>2, <2>1, <2>2 DEF RuleTypes
<1>11. /\ desk' \in [Admins -> Requests]
       /\ \A b \in Admins : desk'[b].doing = "delete" => desk'[b] = desk[b]
  BY <1>2, DeskCleared
<1>12. /\ RowTypes' /\ SessionTypes' /\ SessionsInv' /\ DeletesOwn'
       /\ ReasonsMatch' /\ UnstoredHaveNoReason' /\ Takes(r, U, W, saw)
       /\ rows' = rows /\ known' = known /\ scans' = scans
       /\ \A f \in hidden : reason'[f] # reason[f] => f \notin hidden' /\ reason'[f] = "none"
       /\ hidden \ hidden' \subseteq HiddenBy(r)
  <2> HIDE DEF d, r
  <2> QED BY <1>3, <1>4, <1>5, <1>11, RehideHolds
<1>13. RowsInv'
  <2>1. \A q \in Rules \ {r} : /\ q \in active => q \in active'
                               /\ scope'[q] = scope[q] /\ review'[q] = review[q]
    BY <1>2, <1>8
  <2>2. ASSUME NEW f \in W
        PROVE  /\ saw => r \in active' /\ f \in scope'[r]
               /\ r \in Used' /\ review'[r] # "pending"
    <3>1. r \in Used' /\ r \in active'
      BY <1>2, <1>6, <1>9, <2>2 DEF Used
    <3>2. saw => f \in scope'[r]
      BY <1>2, <1>6, <1>7, <2>2
    <3> QED BY <1>8, <3>1, <3>2
  <2>3. ASSUME NEW f \in HiddenBy(r) \ (U \cup W)
        PROVE  /\ f \notin raced => r \in active' /\ f \in scope'[r]
               /\ review'[r] # "pending"
    <3>1. f \in hidden /\ reason[f] = r
      BY <2>3 DEF HiddenBy
    <3>2. f \notin raced => r \in active /\ f \in scope[r]
      BY <1>4, <3>1 DEF SuppressionIInv, RowsInv, OrphansNeedARace
    <3> QED BY <1>2, <1>8, <3>2
  <2> HIDE DEF d, r
  <2> QED BY <1>4, <1>9, <1>12, <2>1, <2>2, <2>3, RehideRows
<1>14. PendingIsInert'
  <2>1. ASSUME NEW q \in Rules, review'[q] = "pending"
        PROVE  review[q] = "pending" /\ q \notin active'
    <3>1. q # r /\ review[q] = "pending"
      BY <1>8, <2>1
    <3>2. q \notin active
      BY <3>1 DEF SuppressionIInv, PendingIsInert
    <3> QED BY <1>2, <3>1, <3>2
  <2> HIDE DEF d, r
  <2> QED BY <1>2, <1>9, <1>12, <2>1, DeskClearedInert
<1>15. DeskTypes'
  BY <1>1, <1>2, <1>11, <1>12 DEF DeskTypes
<1>16. OwnReasons
  <2>1. hidden \subseteq hidden'
    BY <1>3, <1>6 DEF Rehide
  <2> QED BY <1>12, <2>1 DEF OwnReasons
<1>17. SuppressionTypeOK'
  BY <1>10, <1>12, <1>15, TypePartsNext
<1> QED BY <1>12, <1>13, <1>14, <1>16, <1>17 DEF StepHolds, SuppressionIInv

LEMMA OpenHolds ==
    ASSUME SuppressionIInv, NEW a \in Admins, NEW r \in Rules, Open(a, r)
    PROVE  StepHolds
<1> DEFINE to == [doing |-> "edit", rule |-> r, was |-> r \in active,
                  pend |-> review[r] = "pending", rows |-> scope[r]]
<1>1. /\ r \in Live /\ Request(a) /\ desk' = [desk EXCEPT ![a] = to]
      /\ UNCHANGED <<ruleVars, findingVars, sessionVars, raced, scans>>
  BY DEF Open
<1>2. /\ desk \in [Admins -> Requests] /\ scans \in 0 .. MaxScans /\ requests \in 0 .. MaxRequests
      /\ scope \in [Rules -> SUBSET Findings]
  BY DEF SuppressionIInv, SuppressionTypeOK
<1>3. to \in Requests /\ to.doing = "edit" /\ to.rule = r /\ to.pend = (review[r] = "pending")
  BY <1>2 DEF Requests
<1> HIDE DEF to
<1>4. desk'[a] = to /\ \A b \in Admins \ {a} : desk'[b] = desk[b]
  BY <1>1, <1>2
<1>5. /\ scope' = scope /\ active' = active /\ review' = review /\ deleted' = deleted
      /\ hidden' = hidden /\ reason' = reason /\ raced' = raced /\ known' = known
  BY <1>1 DEF ruleVars, findingVars, sessionVars
<1>6. RowTypes' /\ RuleTypes' /\ RowsInv' /\ OwnReasons
  BY <1>1, QuietRows
<1>7. SessionTypes' /\ SessionsInv'
  BY <1>1, QuietSessions
<1>8. DeskTypes'
  <2>1. desk' \in [Admins -> Requests]
    BY <1>1, <1>2, <1>3
  <2>2. requests' \in 0 .. MaxRequests
    BY <1>1, <1>2, SuppressionBounds DEF Request
  <2> QED BY <1>1, <1>2, <2>1, <2>2 DEF DeskTypes
<1>9. DeletesOwn'
  <2>1. ASSUME NEW b \in Admins, desk'[b].doing = "delete"
        PROVE  b # a /\ desk'[b] = desk[b]
    BY <1>3, <1>4, <2>1
  <2> QED BY <1>5, <2>1 DEF SuppressionIInv, DeletesOwn, Deleting, HiddenBy
<1>10. PendingIsInert'
  <2>1. Used' = Used
    BY <1>5 DEF Used, Live
  <2>2. ASSUME NEW b \in Admins, desk'[b].doing = "edit"
        PROVE  /\ desk'[b].rule \in Used'
               /\ review'[desk'[b].rule] = "pending" => desk'[b].pend
    <3>1. CASE b = a
      BY <1>1, <1>3, <1>4, <1>5, <2>1, <3>1 DEF Used
    <3>2. CASE b # a
      BY <1>4, <1>5, <2>1, <2>2, <3>2 DEF SuppressionIInv, PendingIsInert
    <3> QED BY <3>1, <3>2
  <2>3. \A q \in Rules : review'[q] = "pending" => q \in Used' \ active'
    BY <1>5, <2>1 DEF SuppressionIInv, PendingIsInert
  <2>4. \A s \in Scans, q \in Rules : known'[s][q] # {} => q \in Used' /\ review'[q] # "pending"
    BY <1>5, <2>1 DEF SuppressionIInv, PendingIsInert
  <2> QED BY <2>2, <2>3, <2>4 DEF PendingIsInert
<1>11. SuppressionTypeOK'
  BY <1>6, <1>7, <1>8, TypePartsNext
<1> QED BY <1>6, <1>7, <1>9, <1>10, <1>11 DEF StepHolds, SuppressionIInv

LEMMA BeginDeleteHolds ==
    ASSUME SuppressionIInv, NEW a \in Admins, NEW r \in Rules, BeginDelete(a, r)
    PROVE  StepHolds
<1> DEFINE to == [doing |-> "delete", rule |-> r, was |-> FALSE, pend |-> FALSE,
                  rows |-> HiddenBy(r)]
<1>1. /\ r \in Live /\ Request(a) /\ desk' = [desk EXCEPT ![a] = to]
      /\ HiddenBy(r) \cap Locked = {}
      /\ UNCHANGED <<ruleVars, findingVars, sessionVars, raced, scans>>
  BY DEF BeginDelete, Restores
<1>2. /\ desk \in [Admins -> Requests] /\ scans \in 0 .. MaxScans /\ requests \in 0 .. MaxRequests
      /\ rows \subseteq Findings /\ hidden \subseteq rows
  BY DEF SuppressionIInv, SuppressionTypeOK
<1>3. to \in Requests /\ to.doing = "delete" /\ to.rule = r /\ to.rows = HiddenBy(r)
  BY <1>2 DEF Requests, HiddenBy
<1> HIDE DEF to
<1>4. desk'[a] = to /\ \A b \in Admins \ {a} : desk'[b] = desk[b]
  BY <1>1, <1>2
<1>5. /\ scope' = scope /\ active' = active /\ review' = review /\ deleted' = deleted
      /\ hidden' = hidden /\ reason' = reason /\ raced' = raced /\ known' = known
  BY <1>1 DEF ruleVars, findingVars, sessionVars
<1>6. RowTypes' /\ RuleTypes' /\ RowsInv' /\ OwnReasons
  BY <1>1, QuietRows
<1>7. SessionTypes' /\ SessionsInv'
  BY <1>1, QuietSessions
<1>8. DeskTypes'
  <2>1. desk' \in [Admins -> Requests]
    BY <1>1, <1>2, <1>3
  <2>2. requests' \in 0 .. MaxRequests
    BY <1>1, <1>2, SuppressionBounds DEF Request
  <2> QED BY <1>1, <1>2, <2>1, <2>2 DEF DeskTypes
<1>9. DeletesOwn'
  <2>1. \A q : HiddenBy(q)' = HiddenBy(q)
    BY <1>5 DEF HiddenBy
  <2>2. ASSUME NEW b \in Admins, Deleting(b), b # a
        PROVE  HiddenBy(r) \cap desk[b].rows = {}
    BY <1>1, <2>2 DEF Locked, Deleting
  <2>3. ASSUME NEW b \in Admins, desk'[b].doing = "delete"
        PROVE  /\ desk'[b].rule \in Rules
               /\ desk'[b].rows \subseteq HiddenBy(desk'[b].rule)
               /\ HiddenBy(desk'[b].rule) \ raced \subseteq desk'[b].rows
    <3>1. CASE b = a
      BY <1>3, <1>4, <3>1
    <3>2. CASE b # a
      BY <1>4, <2>3, <3>2 DEF SuppressionIInv, DeletesOwn, Deleting
    <3> QED BY <3>1, <3>2
  <2>4. ASSUME NEW b \in Admins, NEW c \in Admins, b # c,
               desk'[b].doing = "delete", desk'[c].doing = "delete"
        PROVE  desk'[b].rows \cap desk'[c].rows = {}
    <3>1. CASE b = a
      BY <1>3, <1>4, <2>2, <2>4, <3>1 DEF Deleting
    <3>2. CASE c = a
      BY <1>3, <1>4, <2>2, <2>4, <3>2 DEF Deleting
    <3>3. CASE b # a /\ c # a
      BY <1>4, <2>4, <3>3 DEF SuppressionIInv, DeletesOwn, Deleting
    <3> QED BY <3>1, <3>2, <3>3
  <2> QED BY <1>5, <2>3, <2>4 DEF DeletesOwn, Deleting, HiddenBy
<1>10. PendingIsInert'
  <2>1. Used' = Used
    BY <1>5 DEF Used, Live
  <2>2. ASSUME NEW b \in Admins, desk'[b].doing = "edit"
        PROVE  /\ desk'[b].rule \in Used'
               /\ review'[desk'[b].rule] = "pending" => desk'[b].pend
    <3>1. b # a
      BY <1>3, <1>4, <2>2
    <3> QED BY <1>4, <1>5, <2>1, <2>2, <3>1 DEF SuppressionIInv, PendingIsInert
  <2>3. \A q \in Rules : review'[q] = "pending" => q \in Used' \ active'
    BY <1>5, <2>1 DEF SuppressionIInv, PendingIsInert
  <2>4. \A s \in Scans, q \in Rules : known'[s][q] # {} => q \in Used' /\ review'[q] # "pending"
    BY <1>5, <2>1 DEF SuppressionIInv, PendingIsInert
  <2> QED BY <2>2, <2>3, <2>4 DEF PendingIsInert
<1>11. SuppressionTypeOK'
  BY <1>6, <1>7, <1>8, TypePartsNext
<1> QED BY <1>6, <1>7, <1>9, <1>10, <1>11 DEF StepHolds, SuppressionIInv

LEMMA DropHolds ==
    ASSUME SuppressionIInv, NEW a \in Admins, Drop(a)
    PROVE  StepHolds
<1>1. /\ desk' = [desk EXCEPT ![a] = Idle]
      /\ UNCHANGED <<ruleVars, findingVars, sessionVars, raced, scans, requests>>
  BY DEF Drop
<1>2. /\ desk' \in [Admins -> Requests] /\ desk'[a].doing = "nothing"
      /\ \A b \in Admins : desk'[b].doing = "delete" => desk'[b] = desk[b]
  BY <1>1, DeskCleared
<1>3. /\ scope' = scope /\ active' = active /\ review' = review /\ deleted' = deleted
      /\ hidden' = hidden /\ reason' = reason /\ raced' = raced /\ known' = known
  BY <1>1 DEF ruleVars, findingVars, sessionVars
<1>4. RowTypes' /\ RuleTypes' /\ RowsInv' /\ OwnReasons
  BY <1>1, QuietRows
<1>5. SessionTypes' /\ SessionsInv'
  BY <1>1, QuietSessions
<1>6. DeskTypes'
  BY <1>1, <1>2, TypeParts DEF SuppressionIInv, DeskTypes
<1>7. DeletesOwn'
  BY <1>2, <1>3 DEF SuppressionIInv, DeletesOwn, Deleting, HiddenBy
<1>8. PendingIsInert'
  <2>1. Used' = Used
    BY <1>3 DEF Used, Live
  <2>2. \A q \in Rules : review'[q] = "pending" => review[q] = "pending" /\ q \notin active'
    BY <1>3 DEF SuppressionIInv, PendingIsInert
  <2> QED BY <1>1, <1>3, <2>1, <2>2, DeskClearedInert
<1>9. SuppressionTypeOK'
  BY <1>4, <1>5, <1>6, TypePartsNext
<1> QED BY <1>4, <1>5, <1>7, <1>8, <1>9 DEF StepHolds, SuppressionIInv

LEMMA FinishDeleteHolds ==
    ASSUME SuppressionIInv, NEW a \in Admins, FinishDelete(a)
    PROVE  StepHolds
<1> DEFINE U == desk[a].rows
           r == desk[a].rule
<1>1. /\ rows \subseteq Findings /\ hidden \subseteq rows /\ raced \subseteq hidden
      /\ reason \in [Findings -> Reasons] /\ active \subseteq Live /\ deleted \subseteq Rules \ Live
      /\ scope \in [Rules -> SUBSET Findings] /\ scans \in 0 .. MaxScans /\ requests \in 0 .. MaxRequests
      /\ review \in [Rules -> {"none", "pending", "approved", "rejected"}]
  BY DEF SuppressionIInv, SuppressionTypeOK
<1>2. /\ Deleting(a) /\ scope' = [scope EXCEPT ![r] = {}]
      /\ active' = active \ {r} /\ deleted' = deleted \cup {r}
      /\ hidden' = hidden \ U /\ raced' = raced \ U
      /\ reason' = [f \in Findings |-> IF f \in U THEN "none" ELSE reason[f]]
      /\ desk' = [desk EXCEPT ![a] = Idle]
  BY DEF FinishDelete, Deleting
<1>3. /\ review' = review /\ rows' = rows /\ scans' = scans /\ requests' = requests
      /\ phase' = phase /\ known' = known /\ held' = held /\ stale' = stale
      /\ dim' = dim /\ found' = found
  BY DEF FinishDelete, sessionVars
<1>4. /\ r \in Rules /\ \A f \in U : f \in hidden /\ reason[f] = r
      /\ \A f \in hidden : reason[f] = r /\ f \notin raced => f \in U
  BY <1>2 DEF SuppressionIInv, DeletesOwn, HiddenBy
<1>5. /\ desk' \in [Admins -> Requests] /\ desk'[a].doing = "nothing"
      /\ \A b \in Admins : desk'[b].doing = "delete" => desk'[b] = desk[b]
  BY <1>2, DeskCleared
<1>6. "none" \notin Rules
  BY SuppressionBounds
<1>7. scope'[r] = {} /\ \A q \in Rules \ {r} : scope'[q] = scope[q]
  BY <1>1, <1>2, <1>4
<1>8. \A f \in Findings : reason'[f] = IF f \in U THEN "none" ELSE reason[f]
  BY <1>2
<1> HIDE DEF U, r
<1>9. Live' = Live \ {r}
  BY <1>7 DEF Live
<1>10. Used' = Used \cup {r}
  BY <1>2, <1>9 DEF Used
<1>11. RowTypes'
  <2>1. reason' \in [Findings -> Reasons]
    BY <1>1, <1>2 DEF Reasons
  <2> QED BY <1>1, <1>2, <1>3, <2>1 DEF RowTypes
<1>12. RuleTypes'
  <2>1. scope' \in [Rules -> SUBSET Findings]
    BY <1>1, <1>2
  <2>2. active' \subseteq Live' /\ deleted' \subseteq Rules \ Live'
    BY <1>1, <1>2, <1>4, <1>9
  <2> QED BY <1>1, <1>3, <2>1, <2>2 DEF RuleTypes
<1>13. SessionTypes' /\ SessionsInv'
  <2>1. SessionTypes'
    BY <1>3, TypeParts DEF SuppressionIInv, SessionTypes
  <2>2. SessionsInv'
    BY <1>2, <1>3 DEF SuppressionIInv, SessionsInv, HeldAreKnown, FoundAreHeld
  <2> QED BY <2>1, <2>2
<1>14. RowsInv'
  <2>1. ReasonsMatch'
    <3>1. \A f \in hidden' : reason'[f] # "none"
      BY <1>1, <1>2, <1>8 DEF SuppressionIInv, RowsInv, ReasonsMatch
    <3>2. \A f \in rows' \ hidden' : reason'[f] \notin Rules
      BY <1>1, <1>2, <1>3, <1>6, <1>8 DEF SuppressionIInv, RowsInv, ReasonsMatch, Visible
    <3> QED BY <3>1, <3>2 DEF ReasonsMatch, Visible
  <2>2. ASSUME NEW f \in hidden', reason'[f] \in Rules
        PROVE  /\ f \notin raced' => reason'[f] \in active' /\ f \in scope'[reason'[f]]
               /\ review'[reason'[f]] # "pending" /\ reason'[f] \in Used'
    <3>1. f \in hidden /\ f \notin U /\ reason'[f] = reason[f] /\ (f \in raced => f \in raced')
      BY <1>1, <1>2, <1>8, <2>2
    <3>2. /\ f \notin raced => reason[f] \in active /\ f \in scope[reason[f]]
          /\ review[reason[f]] # "pending" /\ reason[f] \in Used
      BY <2>2, <3>1 DEF SuppressionIInv, RowsInv, OrphansNeedARace, PendingHidesNothing, HiddenByUsed
    <3>3. f \notin raced => reason[f] # r
      BY <1>4, <3>1
    <3> QED BY <1>2, <1>3, <1>7, <1>10, <2>2, <3>1, <3>2, <3>3
  <2>3. UnstoredHaveNoReason'
    BY <1>3, <1>8 DEF SuppressionIInv, RowsInv, UnstoredHaveNoReason
  <2>4. OrphansNeedARace'
    BY <2>2 DEF OrphansNeedARace
  <2>5. PendingHidesNothing' /\ HiddenByUsed'
    BY <2>2 DEF PendingHidesNothing, HiddenByUsed
  <2> QED BY <2>1, <2>3, <2>4, <2>5 DEF RowsInv
<1>15. DeletesOwn'
  <2>1. ASSUME NEW b \in Admins, desk'[b].doing = "delete"
        PROVE  desk'[b] = desk[b] /\ b # a /\ Deleting(b) /\ desk[b].rows \cap U = {}
    <3>1. desk'[b] = desk[b] /\ b # a /\ Deleting(b)
      BY <1>5, <2>1 DEF Deleting
    <3> QED BY <1>2, <3>1 DEF SuppressionIInv, DeletesOwn, U
  <2>2. ASSUME NEW b \in Admins, desk'[b].doing = "delete"
        PROVE  /\ desk'[b].rule \in Rules
               /\ \A f \in desk'[b].rows : f \in hidden' /\ reason'[f] = desk'[b].rule
               /\ \A f \in hidden' : reason'[f] = desk'[b].rule /\ f \notin raced' => f \in desk'[b].rows
    <3>1. /\ desk[b].rule \in Rules
          /\ \A f \in desk[b].rows : f \in hidden /\ reason[f] = desk[b].rule
          /\ \A f \in hidden : reason[f] = desk[b].rule /\ f \notin raced => f \in desk[b].rows
      BY <2>1, <2>2 DEF SuppressionIInv, DeletesOwn, HiddenBy
    <3>2. desk'[b] = desk[b] /\ desk[b].rows \cap U = {}
      BY <2>1, <2>2
    <3>3. \A f \in desk[b].rows : f \in hidden' /\ reason'[f] = desk[b].rule
      BY <1>1, <1>2, <1>8, <3>1, <3>2
    <3>4. ASSUME NEW f \in hidden', reason'[f] = desk[b].rule, f \notin raced'
          PROVE  f \in desk[b].rows
      BY <1>1, <1>2, <1>8, <3>1, <3>4
    <3> QED BY <3>1, <3>2, <3>3, <3>4
  <2>3. ASSUME NEW b \in Admins, NEW c \in Admins, b # c,
               desk'[b].doing = "delete", desk'[c].doing = "delete"
        PROVE  desk'[b].rows \cap desk'[c].rows = {}
    BY <2>1, <2>3 DEF SuppressionIInv, DeletesOwn
  <2> QED BY <2>2, <2>3 DEF DeletesOwn, Deleting, HiddenBy
<1>16. PendingIsInert'
  <2>1. \A q \in Rules : review'[q] = "pending" => review[q] = "pending" /\ q \notin active'
    BY <1>2, <1>3 DEF SuppressionIInv, PendingIsInert
  <2> QED BY <1>2, <1>3, <1>10, <2>1, DeskClearedInert
<1>17. DeskTypes'
  BY <1>1, <1>3, <1>5 DEF DeskTypes
<1>18. OwnReasons
  <2>1. \A f \in hidden : reason'[f] # reason[f] => f \notin hidden' /\ reason'[f] = "none"
    BY <1>1, <1>2, <1>8
  <2>2. ASSUME NEW f \in hidden \ hidden'
        PROVE  desk[a] # desk'[a] /\ reason[f] = desk[a].rule
    <3>1. f \in U /\ reason[f] = r
      BY <1>2, <1>4, <2>2
    <3> QED BY <1>2, <1>5, <3>1 DEF Deleting, r
  <2> QED BY <2>1, <2>2 DEF OwnReasons
<1>19. SuppressionTypeOK'
  BY <1>11, <1>12, <1>13, <1>17, TypePartsNext
<1> QED BY <1>13, <1>14, <1>15, <1>16, <1>18, <1>19 DEF StepHolds, SuppressionIInv

-----------------------------------------------------------------------------
(* Scans *)

LEMMA EnabledRules ==
    ASSUME SuppressionIInv
    PROVE  /\ Enabled \in [Rules -> SUBSET Findings]
           /\ \A r \in Rules : Enabled[r] # {} =>
                 r \in Used /\ r \in active /\ review[r] # "pending" /\ Enabled[r] = scope[r]
<1>1. scope \in [Rules -> SUBSET Findings] /\ active \subseteq Live
  BY DEF SuppressionIInv, SuppressionTypeOK
<1>2. \A r \in Rules : Enabled[r] = IF r \in active /\ review[r] # "pending" THEN scope[r] ELSE {}
  BY DEF Enabled
<1>3. Enabled \in [Rules -> SUBSET Findings]
  BY <1>1 DEF Enabled
<1> QED BY <1>1, <1>2, <1>3 DEF Used

\* Steps of scans that change no rule and no desk; what they load is no proposal.
LEMMA ScanInert ==
    ASSUME SuppressionIInv, UNCHANGED <<ruleVars, desk>>,
           \A s \in Scans, r \in Rules :
              known'[s][r] # {} => known[s][r] # {} \/ Enabled[r] # {}
    PROVE  PendingIsInert' /\ RuleTypes'
<1>1. scope' = scope /\ active' = active /\ review' = review /\ deleted' = deleted /\ desk' = desk
  BY DEF ruleVars
<1>2. RuleTypes'
  BY <1>1, TypeParts DEF SuppressionIInv, RuleTypes, Live
<1>3. Used' = Used
  BY <1>1 DEF Used, Live
<1>4. ASSUME NEW s \in Scans, NEW r \in Rules, known'[s][r] # {}
      PROVE  r \in Used /\ review[r] # "pending"
  BY <1>4, EnabledRules DEF SuppressionIInv, PendingIsInert
<1>5. PendingIsInert'
  BY <1>1, <1>3, <1>4 DEF SuppressionIInv, PendingIsInert
<1> QED BY <1>2, <1>5

LEMMA BeginHolds ==
    ASSUME SuppressionIInv, NEW s \in Scans, Begin(s)
    PROVE  StepHolds
<1> DEFINE H == IF s \in Hooks THEN {} ELSE rows
           D == IF s \in Hooks THEN {} ELSE hidden
           p == IF s \in Hooks THEN "ruled" ELSE "storing"
<1>1. /\ SessionTypes /\ SessionsInv /\ hidden \subseteq rows
      /\ scans \in 0 .. MaxScans /\ requests \in 0 .. MaxRequests /\ desk \in [Admins -> Requests]
  BY TypeParts DEF SuppressionIInv, RowTypes, DeskTypes
<1>2. /\ phase[s] = "idle" /\ scans < MaxScans /\ scans' = scans + 1
      /\ phase' = [phase EXCEPT ![s] = p] /\ known' = [known EXCEPT ![s] = Enabled]
      /\ held' = [held EXCEPT ![s] = H] /\ dim' = [dim EXCEPT ![s] = D]
      /\ UNCHANGED <<ruleVars, findingVars, raced>>
  BY DEF Begin
<1>3. stale' = stale /\ found' = found /\ desk' = desk /\ requests' = requests
  BY DEF Begin
<1>4. rows' = rows /\ hidden' = hidden /\ reason' = reason /\ raced' = raced
  BY <1>2 DEF findingVars
<1>5. H \subseteq rows /\ D \subseteq H /\ H \cap hidden \subseteq D /\ p \in {"ruled", "storing"}
  BY <1>1
<1> HIDE DEF H, D, p
<1>6. held[s] = {} /\ stale[s] = {} /\ found[s] = {}
  BY <1>1, <1>2 DEF SessionTypes, SessionsInv, FoundAreHeld
<1>7. ASSUME NEW t \in Scans
      PROVE  IF t = s THEN phase'[t] = p /\ held'[t] = H /\ dim'[t] = D /\ known'[t] = Enabled
             ELSE phase'[t] = phase[t] /\ held'[t] = held[t] /\ dim'[t] = dim[t] /\ known'[t] = known[t]
  BY <1>1, <1>2 DEF SessionTypes
<1>8. SessionTypes'
  <2>1. phase' \in [Scans -> Phases]
    BY <1>1, <1>2, <1>5 DEF SessionTypes, Phases
  <2>2. known' \in [Scans -> [Rules -> SUBSET Findings]]
    BY <1>1, <1>2, EnabledRules DEF SessionTypes
  <2>3. held' \in [Scans -> SUBSET rows'] /\ dim' \in [Scans -> SUBSET rows']
    BY <1>1, <1>2, <1>4, <1>5 DEF SessionTypes
  <2>4. stale' \in [Scans -> SUBSET rows'] /\ found' \in [Scans -> SUBSET rows']
    BY <1>1, <1>3, <1>4 DEF SessionTypes
  <2>5. ASSUME NEW t \in Scans
        PROVE  /\ stale'[t] \cup dim'[t] \subseteq held'[t]
               /\ phase'[t] = "idle" => held'[t] = {}
    <3>1. /\ stale[t] \cup dim[t] \subseteq held[t]
          /\ phase[t] = "idle" => held[t] = {}
      BY <1>1 DEF SessionTypes
    <3> QED BY <1>3, <1>5, <1>6, <1>7, <3>1
  <2> QED BY <2>1, <2>2, <2>3, <2>4, <2>5 DEF SessionTypes
<1>9. SessionsInv'
  <2>1. ASSUME NEW t \in Scans, NEW f \in (held'[t] \ stale'[t]) \cap hidden'
        PROVE  f \in dim'[t]
    <3>1. t = s => f \in dim'[t]
      BY <1>4, <1>5, <1>7, <2>1
    <3>2. t # s => f \in dim'[t]
      BY <1>1, <1>3, <1>4, <1>7, <2>1 DEF SessionsInv, HeldAreKnown
    <3> QED BY <3>1, <3>2
  <2>2. ASSUME NEW t \in Scans
        PROVE  /\ phase'[t] \in {"stored", "ruled"} => found'[t] \subseteq held'[t]
               /\ phase'[t] = "idle" => found'[t] = {}
    <3>1. /\ phase[t] \in {"stored", "ruled"} => found[t] \subseteq held[t]
          /\ phase[t] = "idle" => found[t] = {}
      BY <1>1 DEF SessionsInv, FoundAreHeld
    <3> QED BY <1>3, <1>6, <1>7, <3>1
  <2> QED BY <2>1, <2>2 DEF SessionsInv, HeldAreKnown, FoundAreHeld
<1>10. RowTypes' /\ RowsInv' /\ OwnReasons
  BY <1>2, QuietRows
<1>11. DeletesOwn'
  <2>1. UNCHANGED <<findingVars, desk, raced>>
    BY <1>2, <1>3
  <2> QED BY <2>1, QuietDeletions
<1>12. PendingIsInert' /\ RuleTypes'
  <2>1. \A t \in Scans, r \in Rules :
           known'[t][r] # {} => known[t][r] # {} \/ Enabled[r] # {}
    BY <1>7
  <2>2. UNCHANGED <<ruleVars, desk>>
    BY <1>2, <1>3
  <2> QED BY <2>1, <2>2, ScanInert
<1>13. DeskTypes'
  <2>1. scans' \in 0 .. MaxScans
    BY <1>1, <1>2, SuppressionBounds
  <2> QED BY <1>1, <1>3, <2>1 DEF DeskTypes
<1>14. SuppressionTypeOK'
  BY <1>8, <1>10, <1>12, <1>13, TypePartsNext
<1> QED BY <1>9, <1>10, <1>11, <1>12, <1>14 DEF StepHolds, SuppressionIInv

\* Steps of scans that write nothing but what the scan remembers.
LEMMA RememberHolds ==
    ASSUME SuppressionIInv, UNCHANGED <<ruleVars, findingVars, desk, raced, scans, requests>>,
           SessionTypes', SessionsInv',
           \A s \in Scans, r \in Rules :
              known'[s][r] # {} => known[s][r] # {} \/ Enabled[r] # {}
    PROVE  StepHolds
<1>1. RowTypes' /\ RowsInv' /\ OwnReasons
  <2>1. UNCHANGED <<ruleVars, findingVars, raced>>
    OBVIOUS
  <2> QED BY <2>1, QuietRows
<1>2. DeletesOwn'
  <2>1. UNCHANGED <<findingVars, desk, raced>>
    OBVIOUS
  <2> QED BY <2>1, QuietDeletions
<1>3. PendingIsInert' /\ RuleTypes'
  <2>1. UNCHANGED <<ruleVars, desk>>
    OBVIOUS
  <2> QED BY <2>1, ScanInert
<1>4. DeskTypes'
  BY TypeParts DEF SuppressionIInv, DeskTypes
<1>5. SuppressionTypeOK'
  BY <1>1, <1>3, <1>4, TypePartsNext
<1> QED BY <1>1, <1>2, <1>3, <1>5 DEF StepHolds, SuppressionIInv

LEMMA LoadRulesHolds ==
    ASSUME SuppressionIInv, NEW s \in Scans, LoadRules(s)
    PROVE  StepHolds
<1>1. SessionTypes /\ SessionsInv
  BY TypeParts DEF SuppressionIInv
<1>2. /\ phase[s] = "stored" /\ phase' = [phase EXCEPT ![s] = "ruled"]
      /\ known' = [known EXCEPT ![s] = Enabled]
      /\ UNCHANGED <<ruleVars, findingVars, held, stale, dim, found, desk, raced, scans, requests>>
  BY DEF LoadRules
<1>3. rows' = rows /\ hidden' = hidden
  BY <1>2 DEF findingVars
<1>4. ASSUME NEW t \in Scans
      PROVE  IF t = s THEN phase'[t] = "ruled" /\ known'[t] = Enabled
             ELSE phase'[t] = phase[t] /\ known'[t] = known[t]
  BY <1>1, <1>2 DEF SessionTypes
<1>5. SessionTypes'
  <2>1. phase' \in [Scans -> Phases]
    BY <1>1, <1>2 DEF SessionTypes, Phases
  <2>2. known' \in [Scans -> [Rules -> SUBSET Findings]]
    BY <1>1, <1>2, EnabledRules DEF SessionTypes
  <2>3. ASSUME NEW t \in Scans
        PROVE  /\ stale'[t] \cup dim'[t] \subseteq held'[t]
               /\ phase'[t] = "idle" => held'[t] = {}
    BY <1>1, <1>2, <1>4 DEF SessionTypes
  <2> QED BY <1>1, <1>2, <1>3, <2>1, <2>2, <2>3 DEF SessionTypes
<1>6. SessionsInv'
  <2>1. HeldAreKnown'
    BY <1>1, <1>2, <1>3 DEF SessionsInv, HeldAreKnown
  <2>2. FoundAreHeld'
    BY <1>1, <1>2, <1>4 DEF SessionsInv, FoundAreHeld
  <2> QED BY <2>1, <2>2 DEF SessionsInv
<1>7. \A t \in Scans, r \in Rules :
         known'[t][r] # {} => known[t][r] # {} \/ Enabled[r] # {}
  BY <1>4
<1>8. UNCHANGED <<ruleVars, findingVars, desk, raced, scans, requests>>
  BY <1>2
<1> QED BY <1>5, <1>6, <1>7, <1>8, RememberHolds

LEMMA PassLostHolds ==
    ASSUME SuppressionIInv, NEW s \in Scans, PassLost(s)
    PROVE  StepHolds
<1>1. SessionTypes /\ SessionsInv
  BY TypeParts DEF SuppressionIInv
<1>2. /\ phase[s] = "ruled" /\ phase' = [phase EXCEPT ![s] = "passed"]
      /\ held' = [held EXCEPT ![s] = {}] /\ stale' = [stale EXCEPT ![s] = {}]
      /\ dim' = [dim EXCEPT ![s] = {}]
      /\ UNCHANGED <<ruleVars, findingVars, known, found, desk, raced, scans, requests>>
  BY DEF PassLost
<1>3. rows' = rows /\ hidden' = hidden
  BY <1>2 DEF findingVars
<1>4. ASSUME NEW t \in Scans
      PROVE  IF t = s THEN phase'[t] = "passed" /\ held'[t] = {} /\ stale'[t] = {} /\ dim'[t] = {}
             ELSE /\ phase'[t] = phase[t] /\ held'[t] = held[t]
                  /\ stale'[t] = stale[t] /\ dim'[t] = dim[t]
  BY <1>1, <1>2 DEF SessionTypes
<1>5. SessionTypes'
  <2>1. phase' \in [Scans -> Phases]
    BY <1>1, <1>2 DEF SessionTypes, Phases
  <2>2. /\ held' \in [Scans -> SUBSET rows'] /\ stale' \in [Scans -> SUBSET rows']
        /\ dim' \in [Scans -> SUBSET rows'] /\ found' \in [Scans -> SUBSET rows']
    BY <1>1, <1>2, <1>3 DEF SessionTypes
  <2>3. ASSUME NEW t \in Scans
        PROVE  /\ stale'[t] \cup dim'[t] \subseteq held'[t]
               /\ phase'[t] = "idle" => held'[t] = {}
    BY <1>1, <1>4 DEF SessionTypes
  <2> QED BY <1>1, <1>2, <2>1, <2>2, <2>3 DEF SessionTypes
<1>6. SessionsInv'
  <2>1. HeldAreKnown'
    BY <1>1, <1>3, <1>4 DEF SessionsInv, HeldAreKnown
  <2>2. ASSUME NEW t \in Scans
        PROVE  /\ phase'[t] \in {"stored", "ruled"} => found'[t] \subseteq held'[t]
               /\ phase'[t] = "idle" => found'[t] = {}
    BY <1>1, <1>2, <1>4 DEF SessionsInv, FoundAreHeld
  <2> QED BY <2>1, <2>2 DEF SessionsInv, FoundAreHeld
<1>7. UNCHANGED <<ruleVars, findingVars, desk, raced, scans, requests>>
  BY <1>2
<1>8. \A t \in Scans, r \in Rules :
         known'[t][r] # {} => known[t][r] # {} \/ Enabled[r] # {}
  BY <1>2
<1> QED BY <1>5, <1>6, <1>7, <1>8, RememberHolds

\* A scan that goes on keeps the rules it knew, or forgets them.
LEMMA MoveKnown ==
    ASSUME SuppressionIInv, NEW s \in Scans, NEW p \in Phases, NEW F, NEW D, Moves(s, p, F, D)
    PROVE  \A t \in Scans, r \in Rules : known'[t][r] # {} => known[t][r] # {}
<1>1. known \in [Scans -> [Rules -> SUBSET Findings]]
  BY DEF SuppressionIInv, SuppressionTypeOK
<1>2. known' = [known EXCEPT ![s] = IF p = "idle" THEN Nothing ELSE known[s]]
  BY DEF Moves
<1>3. \A r \in Rules : Nothing[r] = {}
  BY DEF Nothing
<1> QED BY <1>1, <1>2, <1>3

LEMMA AbortHolds ==
    ASSUME SuppressionIInv, NEW s \in Scans, Abort(s)
    PROVE  StepHolds
<1> DEFINE F == {}
           p == "idle"
<1>1. /\ Moves(s, p, F, F) /\ Written(s, F)
      /\ UNCHANGED <<ruleVars, findingVars, desk, raced, scans, requests>>
  BY DEF Abort
<1>2. SessionTypes /\ SessionsInv /\ rows' = rows /\ hidden' = hidden
  BY <1>1, TypeParts DEF SuppressionIInv, findingVars
<1>3. p \in Phases /\ p = "idle" /\ F = {}
  BY DEF Phases
<1> HIDE DEF F, p
<1>4. /\ rows \subseteq rows' /\ F \subseteq rows' /\ F \subseteq held[s] \cup F
      /\ hidden' \subseteq hidden \cup F
  BY <1>2, <1>3
<1>5. SessionTypes'
  BY <1>1, <1>2, <1>3, <1>4, MoveTypes
<1>6. SessionsInv'
  BY <1>1, <1>2, <1>3, <1>4, MoveSessions
<1>7. \A t \in Scans, r \in Rules : known'[t][r] # {} => known[t][r] # {}
  BY <1>1, <1>3, MoveKnown
<1> QED BY <1>1, <1>5, <1>6, <1>7, RememberHolds

\* A pass took only visible rows; each has a rule that matches it, as the pass knew it.
Passed(K, there) ==
    \A f \in hidden' :
        \/ f \in hidden /\ reason'[f] = reason[f] /\ (f \in raced => f \in raced')
        \/ \E q \in there :
              /\ reason'[f] = q /\ f \in K[q]
              /\ q \in Live /\ Enabled[q] # K[q] => f \in raced'

LEMMA ApplyHolds ==
    ASSUME SuppressionIInv, NEW s \in Scans, NEW p \in Phases, NEW F \in SUBSET Findings,
           NEW K \in [Rules -> SUBSET Findings], NEW there \in SUBSET Rules, NEW order \in Orders,
           Apply(s, p, F, K, there, order), F \cap rows \subseteq held[s], F \subseteq rows',
           rows \subseteq rows', rows' \subseteq Findings, found[s] \subseteq held[s],
           p # "idle" => F \subseteq held[s], desk' = desk
    PROVE  /\ RowTypes' /\ SessionTypes' /\ SessionsInv' /\ DeletesOwn' /\ OwnReasons
           /\ ReasonsMatch' /\ UnstoredHaveNoReason' /\ Passed(K, there)
           /\ \A t \in Scans, r \in Rules : known'[t][r] # {} => known[t][r] # {}
<1>1. /\ rows \subseteq Findings /\ hidden \subseteq rows /\ raced \subseteq hidden
      /\ reason \in [Findings -> Reasons]
  BY DEF SuppressionIInv, SuppressionTypeOK
<1>0. PICK W \in SUBSET (F \ dim[s]) : \E by \in [W -> there] : Took(s, p, K, W, by)
  <2>1. TookSome(s, p, F, K, there)
    BY ApplyFacts
  <2> QED BY <2>1 DEF TookSome
<1>01. PICK by \in [W -> there] : Took(s, p, K, W, by)
  BY <1>0
<1>2. /\ \A f \in W : f \in K[by[f]]
      /\ W \cap stale[s] = {} /\ W \cap Locked = {}
      /\ hidden' = hidden \cup W
      /\ reason' = [f \in Findings |-> IF f \in W THEN by[f] ELSE reason[f]]
      /\ raced' = raced \cup {f \in W : by[f] \in Dying
                                \/ (by[f] \in Live /\ Enabled[by[f]] # K[by[f]])}
      /\ Moves(s, p, found[s], dim[s] \cup W)
      /\ Written(s, W)
  BY <1>01 DEF Took
<1>3. W \cap hidden = {}
  <2>1. ASSUME NEW f \in W, f \in hidden PROVE FALSE
    <3>1. f \in held[s] \ stale[s] /\ f \notin dim[s]
      BY <1>1, <1>2, <2>1
    <3> QED BY <2>1, <3>1 DEF SuppressionIInv, SessionsInv, HeldAreKnown
  <2> QED BY <2>1
<1>4. SessionTypes /\ SessionsInv
  BY TypeParts DEF SuppressionIInv
<1>5. dim[s] \subseteq held[s] /\ held[s] \subseteq rows
  BY <1>4 DEF SessionTypes
<1>6. SessionTypes'
  <2>1. p # "idle" => dim[s] \cup W \subseteq held[s] \cup found[s]
    BY <1>2, <1>5
  <2>2. found[s] \subseteq rows'
    BY <1>5
  <2>3. Moves(s, p, found[s], dim[s] \cup W) /\ Written(s, W)
    BY <1>2
  <2> QED BY <1>4, <2>1, <2>2, <2>3, MoveTypes
<1>7. SessionsInv'
  <2>1. ASSUME NEW f \in ((held[s] \cup found[s]) \ stale[s]) \cap hidden'
        PROVE  f \in dim[s] \cup W
    <3>1. f \in held[s] \ stale[s] /\ (f \in hidden \/ f \in W)
      BY <1>2, <2>1
    <3> QED BY <1>4, <3>1 DEF SessionsInv, HeldAreKnown
  <2>2. hidden' \subseteq hidden \cup W
    BY <1>2
  <2>3. Moves(s, p, found[s], dim[s] \cup W) /\ Written(s, W)
    BY <1>2
  <2> QED BY <1>4, <2>1, <2>2, <2>3, MoveSessions
<1>8. /\ \A f \in W : /\ f \in hidden' /\ reason'[f] = by[f] /\ by[f] \in there /\ f \in K[by[f]]
                      /\ by[f] \in Dying => f \in raced'
                      /\ by[f] \in Live /\ Enabled[by[f]] # K[by[f]] => f \in raced'
      /\ \A f \in Findings \ W : reason'[f] = reason[f] /\ (f \in hidden' => f \in hidden)
  <2>1. ASSUME NEW f \in W
        PROVE  /\ f \in hidden' /\ reason'[f] = by[f] /\ by[f] \in there /\ f \in K[by[f]]
               /\ by[f] \in Dying => f \in raced'
               /\ by[f] \in Live /\ Enabled[by[f]] # K[by[f]] => f \in raced'
    BY <1>2, <2>1
  <2>2. \A f \in Findings \ W : reason'[f] = reason[f] /\ (f \in hidden' => f \in hidden)
    BY <1>2
  <2> QED BY <2>1, <2>2
<1>9. hidden \subseteq hidden' /\ raced \subseteq raced' /\ raced' \subseteq raced \cup W
      /\ hidden' = hidden \cup W
  BY <1>2
<1>10. RowTypes'
  <2>1. reason' \in [Findings -> Reasons]
    <3>1. \A f \in W : by[f] \in Reasons
      BY <1>2 DEF Reasons
    <3> QED BY <1>1, <1>2, <3>1
  <2>2. hidden' \subseteq rows' /\ raced' \subseteq hidden'
    BY <1>1, <1>2, <1>9
  <2> QED BY <2>1, <2>2 DEF RowTypes
<1>11. OwnReasons
  BY <1>1, <1>3, <1>8, <1>9 DEF OwnReasons
<1>12. ReasonsMatch'
  <2>1. "none" \notin Rules
    BY SuppressionBounds
  <2>2. ASSUME NEW f \in hidden' PROVE reason'[f] # "none"
    <3>1. CASE f \in W
      BY <1>8, <2>1, <3>1
    <3>2. CASE f \notin W
      BY <1>1, <1>8, <1>9, <3>2 DEF SuppressionIInv, RowsInv, ReasonsMatch
    <3> QED BY <3>1, <3>2
  <2>3. ASSUME NEW f \in rows' \ hidden' PROVE reason'[f] \notin Rules
    <3>1. f \in Findings \ W /\ f \notin hidden
      BY <1>9, <2>3
    <3>2. CASE f \in rows
      BY <1>8, <3>1, <3>2 DEF SuppressionIInv, RowsInv, ReasonsMatch, Visible
    <3>3. CASE f \notin rows
      BY <1>8, <2>1, <3>1, <3>3 DEF SuppressionIInv, RowsInv, UnstoredHaveNoReason
    <3> QED BY <3>2, <3>3
  <2> QED BY <2>2, <2>3 DEF ReasonsMatch, Visible
<1>13. UnstoredHaveNoReason'
  BY <1>8 DEF SuppressionIInv, RowsInv, UnstoredHaveNoReason
<1>14. Passed(K, there)
  BY <1>1, <1>8, <1>9 DEF Passed
<1>15. DeletesOwn'
  <2>1. ASSUME NEW b \in Admins, Deleting(b)
        PROVE  /\ \A f \in desk[b].rows : f \in hidden' /\ reason'[f] = desk[b].rule
               /\ \A f \in hidden' : reason'[f] = desk[b].rule /\ f \notin raced' => f \in desk[b].rows
    <3> DEFINE q == desk[b].rule
    <3>1. /\ q \in Dying
          /\ \A f \in desk[b].rows : f \in hidden /\ reason[f] = q
          /\ \A f \in hidden : reason[f] = q /\ f \notin raced => f \in desk[b].rows
      BY <2>1 DEF SuppressionIInv, DeletesOwn, HiddenBy, Dying, Deleting
    <3> HIDE DEF q
    <3>2. \A f \in desk[b].rows : f \in hidden' /\ reason'[f] = q
      BY <1>1, <1>3, <1>8, <1>9, <3>1
    <3>3. ASSUME NEW f \in hidden', reason'[f] = q, f \notin raced'
          PROVE  f \in desk[b].rows
      BY <1>1, <1>8, <1>9, <3>1, <3>3
    <3> USE DEF q
    <3> QED BY <3>2, <3>3
  <2> QED BY <2>1 DEF SuppressionIInv, DeletesOwn, Deleting, HiddenBy
<1>16. \A t \in Scans, r \in Rules : known'[t][r] # {} => known[t][r] # {}
  BY <1>2, MoveKnown
<1> QED BY <1>6, <1>7, <1>10, <1>11, <1>12, <1>13, <1>14, <1>15, <1>16

\* The rules are those the scan loaded; what they hide, they hide still or in a race.
LEMMA PassedRows ==
    ASSUME SuppressionIInv, NEW s \in Scans, UNCHANGED ruleVars, Passed(known[s], Live),
           ReasonsMatch', UnstoredHaveNoReason'
    PROVE  RowsInv'
<1>1. scope' = scope /\ active' = active /\ review' = review /\ deleted' = deleted
  BY DEF ruleVars
<1>2. Used' = Used
  BY <1>1 DEF Used, Live
<1>3. ASSUME NEW f \in hidden', reason'[f] \in Rules
      PROVE  /\ f \notin raced' => reason'[f] \in active /\ f \in scope[reason'[f]]
             /\ review[reason'[f]] # "pending" /\ reason'[f] \in Used
  <2>1. CASE f \in hidden /\ reason'[f] = reason[f] /\ (f \in raced => f \in raced')
    BY <1>3, <2>1 DEF SuppressionIInv, RowsInv, OrphansNeedARace, PendingHidesNothing, HiddenByUsed
  <2>2. ASSUME NEW q \in Live,
               reason'[f] = q, f \in known[s][q], Enabled[q] # known[s][q] => f \in raced'
        PROVE  /\ f \notin raced' => q \in active /\ f \in scope[q]
               /\ review[q] # "pending" /\ q \in Used
    <3>1. q \in Rules /\ q \in Used
      BY DEF Live, Used
    <3>2. review[q] # "pending"
      BY <2>2, <3>1 DEF SuppressionIInv, PendingIsInert
    <3>3. f \notin raced' => q \in active /\ f \in scope[q]
      BY <2>2, <3>1, EnabledRules
    <3> QED BY <3>1, <3>2, <3>3
  <2> QED BY <2>1, <2>2 DEF Passed
<1>4. OrphansNeedARace'
  BY <1>1, <1>3 DEF OrphansNeedARace
<1>5. PendingHidesNothing' /\ HiddenByUsed'
  BY <1>1, <1>2, <1>3 DEF PendingHidesNothing, HiddenByUsed
<1> QED BY <1>4, <1>5 DEF RowsInv

LEMMA PassHolds ==
    ASSUME SuppressionIInv, NEW s \in Scans, NEW order \in Orders, Pass(s, order)
    PROVE  StepHolds
<1> DEFINE p == "passed"
           F == found[s]
           K == known[s]
<1>1. /\ phase[s] = "ruled" /\ Apply(s, p, F, K, Live, order)
      /\ UNCHANGED <<ruleVars, rows, desk, scans, requests>>
  BY DEF Pass
<1>2. /\ rows \subseteq Findings /\ found[s] \subseteq rows /\ K \in [Rules -> SUBSET Findings]
      /\ Live \in SUBSET Rules
  BY DEF SuppressionIInv, SuppressionTypeOK, Live
<1>3. found[s] \subseteq held[s]
  BY <1>1 DEF SuppressionIInv, SessionsInv, FoundAreHeld
<1>4. /\ p \in Phases /\ F \in SUBSET Findings /\ F \cap rows \subseteq held[s] /\ F \subseteq rows'
      /\ rows \subseteq rows' /\ rows' \subseteq Findings /\ (p # "idle" => F \subseteq held[s])
      /\ desk' = desk
  BY <1>1, <1>2, <1>3 DEF Phases
<1> HIDE DEF p, F, K
<1>5. /\ RowTypes' /\ SessionTypes' /\ SessionsInv' /\ DeletesOwn' /\ OwnReasons
      /\ ReasonsMatch' /\ UnstoredHaveNoReason' /\ Passed(K, Live)
      /\ \A t \in Scans, r \in Rules : known'[t][r] # {} => known[t][r] # {}
  BY <1>1, <1>2, <1>3, <1>4, ApplyHolds, Zenon
<1>6. RowsInv'
  <2>1. UNCHANGED ruleVars
    BY <1>1
  <2> QED BY <1>5, <2>1, PassedRows DEF K
<1>7. PendingIsInert' /\ RuleTypes'
  <2>1. UNCHANGED <<ruleVars, desk>>
    BY <1>1
  <2> QED BY <1>5, <2>1, ScanInert
<1>8. DeskTypes'
  BY <1>1, TypeParts DEF SuppressionIInv, DeskTypes
<1>9. SuppressionTypeOK'
  BY <1>5, <1>7, <1>8, TypePartsNext
<1> QED BY <1>5, <1>6, <1>7, <1>9 DEF StepHolds, SuppressionIInv

LEMMA HookStoreHolds ==
    ASSUME SuppressionIInv, NEW s \in Scans, NEW F \in Criteria, NEW order \in Orders,
           HookStore(s, F, order)
    PROVE  StepHolds
<1> DEFINE p == "idle"
           K == known[s]
<1>1. /\ phase[s] = "ruled" /\ F \cap rows = {} /\ rows' = rows \cup F
      /\ Apply(s, p, F, K, Live, order) /\ UNCHANGED <<ruleVars, desk, scans, requests>>
  BY DEF HookStore
<1>2. /\ rows \subseteq Findings /\ K \in [Rules -> SUBSET Findings] /\ Live \in SUBSET Rules
  BY DEF SuppressionIInv, SuppressionTypeOK, Live
<1>3. found[s] \subseteq held[s]
  BY <1>1 DEF SuppressionIInv, SessionsInv, FoundAreHeld
<1>4. /\ p \in Phases /\ F \in SUBSET Findings /\ F \cap rows \subseteq held[s] /\ F \subseteq rows'
      /\ rows \subseteq rows' /\ rows' \subseteq Findings /\ (p # "idle" => F \subseteq held[s])
      /\ desk' = desk
  BY <1>1, <1>2, <1>3 DEF Phases, Criteria
<1> HIDE DEF p, K
<1>5. /\ RowTypes' /\ SessionTypes' /\ SessionsInv' /\ DeletesOwn' /\ OwnReasons
      /\ ReasonsMatch' /\ UnstoredHaveNoReason' /\ Passed(K, Live)
      /\ \A t \in Scans, r \in Rules : known'[t][r] # {} => known[t][r] # {}
  BY <1>1, <1>2, <1>3, <1>4, ApplyHolds, Zenon
<1>6. RowsInv'
  <2>1. UNCHANGED ruleVars
    BY <1>1
  <2> QED BY <1>5, <2>1, PassedRows DEF K
<1>7. PendingIsInert' /\ RuleTypes'
  <2>1. UNCHANGED <<ruleVars, desk>>
    BY <1>1
  <2> QED BY <1>5, <2>1, ScanInert
<1>8. DeskTypes'
  BY <1>1, TypeParts DEF SuppressionIInv, DeskTypes
<1>9. SuppressionTypeOK'
  BY <1>5, <1>7, <1>8, TypePartsNext
<1> QED BY <1>5, <1>6, <1>7, <1>9 DEF StepHolds, SuppressionIInv

LEMMA LearnAndPassHolds ==
    ASSUME SuppressionIInv, NEW s \in Scans, NEW r \in Rules, NEW S \in Criteria,
           NEW proposed \in BOOLEAN, NEW order \in Orders, LearnAndPass(s, r, S, proposed, order)
    PROVE  StepHolds
<1> DEFINE p     == "passed"
           F     == found[s]
           K     == [known[s] EXCEPT ![r] = IF proposed THEN {} ELSE S]
           there == Live \cup {r}
<1>1. /\ phase[s] = "ruled" /\ AddLearned(r, S, proposed) /\ Apply(s, p, F, K, there, order)
      /\ UNCHANGED <<rows, desk, scans, requests>>
  BY DEF LearnAndPass
<1>2. Unused(r)
  BY <1>1 DEF AddLearned
<1>3. /\ r \notin Used /\ HiddenBy(r) = {} /\ review[r] # "pending" /\ r \notin active
      /\ \A t \in Scans : known[t][r] = {}
      /\ \A b \in Admins : desk[b].doing = "edit" => desk[b].rule # r
  BY <1>2, UnusedHidesNothing
<1>4. /\ RuleTypes' /\ Used' = Used \cup {r} /\ deleted' = deleted
      /\ scope'[r] = S /\ review'[r] = IF proposed THEN "pending" ELSE "none"
      /\ active' = (IF proposed THEN active ELSE active \cup {r})
      /\ \A q \in Rules \ {r} : scope'[q] = scope[q] /\ review'[q] = review[q]
  BY <1>1, LearnedRule, Zenon
<1>5. /\ rows \subseteq Findings /\ found[s] \subseteq rows /\ known[s] \in [Rules -> SUBSET Findings]
      /\ S \subseteq Findings
  BY DEF SuppressionIInv, SuppressionTypeOK, Criteria
<1>6. /\ K \in [Rules -> SUBSET Findings] /\ there \in SUBSET Rules
      /\ K[r] = (IF proposed THEN {} ELSE S) /\ \A q \in Rules \ {r} : K[q] = known[s][q]
  BY <1>5 DEF Live
<1>7. found[s] \subseteq held[s]
  BY <1>1 DEF SuppressionIInv, SessionsInv, FoundAreHeld
<1>8. /\ p \in Phases /\ F \in SUBSET Findings /\ F \cap rows \subseteq held[s] /\ F \subseteq rows'
      /\ rows \subseteq rows' /\ rows' \subseteq Findings /\ (p # "idle" => F \subseteq held[s])
      /\ desk' = desk
  BY <1>1, <1>5, <1>7 DEF Phases
<1>9. there \subseteq Live \cup {r} /\ r \notin Live
  BY <1>3 DEF Used
<1> HIDE DEF p, F, K, there
<1>10. /\ RowTypes' /\ SessionTypes' /\ SessionsInv' /\ DeletesOwn' /\ OwnReasons
       /\ ReasonsMatch' /\ UnstoredHaveNoReason' /\ Passed(K, there)
       /\ \A t \in Scans, q \in Rules : known'[t][q] # {} => known[t][q] # {}
  BY <1>1, <1>6, <1>7, <1>8, ApplyHolds, Zenon
<1>11. RowsInv'
  <2>1. ASSUME NEW f \in hidden', reason'[f] \in Rules
        PROVE  /\ f \notin raced' => reason'[f] \in active' /\ f \in scope'[reason'[f]]
               /\ review'[reason'[f]] # "pending" /\ reason'[f] \in Used'
    <3>1. CASE f \in hidden /\ reason'[f] = reason[f] /\ (f \in raced => f \in raced')
      <4>1. /\ f \notin raced => reason[f] \in active /\ f \in scope[reason[f]]
            /\ review[reason[f]] # "pending" /\ reason[f] \in Used
        BY <2>1, <3>1 DEF SuppressionIInv, RowsInv, OrphansNeedARace, PendingHidesNothing, HiddenByUsed
      <4>2. reason[f] \in Rules \ {r}
        BY <1>3, <2>1, <3>1, <4>1
      <4> QED BY <1>4, <3>1, <4>1, <4>2
    <3>2. ASSUME NEW q \in there, reason'[f] = q, f \in K[q],
                 q \in Live /\ Enabled[q] # K[q] => f \in raced'
          PROVE  /\ f \notin raced' => q \in active' /\ f \in scope'[q]
                 /\ review'[q] # "pending" /\ q \in Used'
      <4>1. CASE q = r
        BY <1>4, <1>6, <3>2, <4>1
      <4>2. CASE q # r
        <5>1. q \in Rules \ {r} /\ q \in Live /\ q \in Used /\ f \in known[s][q] /\ K[q] = known[s][q]
          BY <1>6, <1>9, <3>2, <4>2 DEF Used
        <5>2. review[q] # "pending"
          BY <5>1 DEF SuppressionIInv, PendingIsInert
        <5>3. f \notin raced' => q \in active /\ f \in scope[q]
          BY <3>2, <5>1, EnabledRules
        <5> QED BY <1>4, <5>1, <5>2, <5>3
      <4> QED BY <4>1, <4>2
    <3> QED BY <1>10, <3>1, <3>2 DEF Passed
  <2>2. OrphansNeedARace'
    BY <2>1 DEF OrphansNeedARace
  <2>3. PendingHidesNothing' /\ HiddenByUsed'
    BY <2>1 DEF PendingHidesNothing, HiddenByUsed
  <2> QED BY <1>10, <2>2, <2>3 DEF RowsInv
<1>12. PendingIsInert'
  <2>1. ASSUME NEW q \in Rules, review'[q] = "pending"
        PROVE  q \in Used' \ active'
    BY <1>3, <1>4, <2>1 DEF SuppressionIInv, PendingIsInert
  <2>2. ASSUME NEW b \in Admins, desk[b].doing = "edit"
        PROVE  /\ desk[b].rule \in Used'
               /\ review'[desk[b].rule] = "pending" => desk[b].pend
    <3>1. desk[b].rule \in Used \ {r} /\ desk[b].rule \in Rules
      BY <1>3, <2>2 DEF SuppressionIInv, PendingIsInert, SuppressionTypeOK, Used, Live
    <3> QED BY <1>4, <2>2, <3>1 DEF SuppressionIInv, PendingIsInert
  <2>3. ASSUME NEW t \in Scans, NEW q \in Rules, known'[t][q] # {}
        PROVE  q \in Used' /\ review'[q] # "pending"
    <3>1. known[t][q] # {} /\ q # r
      BY <1>3, <1>10, <2>3
    <3> QED BY <1>4, <3>1 DEF SuppressionIInv, PendingIsInert
  <2> QED BY <1>8, <2>1, <2>2, <2>3 DEF PendingIsInert
<1>13. DeskTypes'
  BY <1>1, TypeParts DEF SuppressionIInv, DeskTypes
<1>14. SuppressionTypeOK'
  BY <1>4, <1>10, <1>13, TypePartsNext
<1> QED BY <1>10, <1>11, <1>12, <1>14 DEF StepHolds, SuppressionIInv

LEMMA StoreHolds ==
    ASSUME SuppressionIInv, NEW s \in Scans, NEW F \in Criteria, NEW Dead \in SUBSET F,
           NEW Alive \in SUBSET F, Store(s, F, Dead, Alive)
    PROVE  StepHolds
<1> DEFINE back == {f \in Alive \cap held[s] : ComesBack(s, f)}
           p    == IF F \subseteq held[s] THEN "idle" ELSE "stored"
           D    == (dim[s] \cup Dead) \ back
<1>1. /\ rows \subseteq Findings /\ hidden \subseteq rows /\ raced \subseteq hidden
      /\ reason \in [Findings -> Reasons] /\ F \subseteq Findings
  BY DEF SuppressionIInv, SuppressionTypeOK, Criteria
<1>2. /\ F \cap rows \subseteq held[s] /\ Dead \cap Alive = {} /\ F \cap Locked = {}
      /\ rows' = rows \cup F /\ hidden' = (hidden \cup (Dead \ dim[s])) \ back
      /\ raced' = raced \ (Dead \cup back)
      /\ Moves(s, p, F, D) /\ Written(s, F)
      /\ UNCHANGED <<ruleVars, desk, scans, requests>>
  BY DEF Store
<1>3. back \subseteq Alive /\ \A f \in back : reason[f] = "verified"
  BY DEF ComesBack
<1>4. \A f \in Findings : reason'[f] = IF f \in back THEN "none"
                                      ELSE IF f \in Dead THEN "verified" ELSE reason[f]
  BY DEF Store, VerifiedReason
<1>5. p \in Phases /\ D \subseteq dim[s] \cup Dead /\ (dim[s] \cup Dead) \ back \subseteq D
  BY DEF Phases
<1>6. reason' \in [Findings -> Reasons]
  <2>1. reason' = [f \in Findings |-> IF f \in back THEN "none" ELSE VerifiedReason(Dead)[f]]
    BY DEF Store
  <2> QED BY <1>1, <1>4, <2>1 DEF Reasons
<1> HIDE DEF back, p, D
<1>7. SessionTypes /\ SessionsInv /\ dim[s] \subseteq held[s]
  BY TypeParts DEF SuppressionIInv, SessionTypes
<1>8. SessionTypes'
  <2>1. /\ rows \subseteq rows' /\ F \subseteq rows'
        /\ p # "idle" => D \subseteq held[s] \cup F
    BY <1>2, <1>5, <1>7
  <2>2. Moves(s, p, F, D) /\ Written(s, F)
    BY <1>2
  <2> QED BY <1>5, <1>7, <2>1, <2>2, MoveTypes
<1>9. SessionsInv'
  <2>1. ASSUME NEW f \in ((held[s] \cup F) \ stale[s]) \cap hidden'
        PROVE  f \in D
    <3>1. f \notin back /\ (f \in Dead \/ f \in hidden)
      BY <1>2, <2>1
    <3>2. CASE f \in Dead
      BY <1>5, <3>1, <3>2
    <3>3. CASE f \in hidden
      <4>1. f \in held[s] \ stale[s]
        BY <1>1, <1>2, <2>1, <3>3
      <4>2. f \in dim[s]
        BY <1>7, <3>3, <4>1 DEF SessionsInv, HeldAreKnown
      <4> QED BY <1>5, <3>1, <4>2
    <3> QED BY <3>1, <3>2, <3>3
  <2>2. hidden' \subseteq hidden \cup F
    BY <1>2
  <2>3. Moves(s, p, F, D) /\ Written(s, F)
    BY <1>2
  <2> QED BY <1>5, <1>7, <2>1, <2>2, <2>3, MoveSessions
<1>10. PendingIsInert' /\ RuleTypes'
  <2>1. \A t \in Scans, r \in Rules : known'[t][r] # {} => known[t][r] # {}
    BY <1>2, <1>5, MoveKnown
  <2>2. UNCHANGED <<ruleVars, desk>>
    BY <1>2
  <2> QED BY <2>1, <2>2, ScanInert
<1>11. RowTypes'
  BY <1>1, <1>2, <1>3, <1>6 DEF RowTypes
<1>12. "none" \notin Rules /\ "verified" \notin Rules
  BY SuppressionBounds
<1>13. \A f \in hidden' : reason'[f] \in Rules =>
          f \in hidden /\ reason'[f] = reason[f] /\ (f \in raced => f \in raced')
  BY <1>1, <1>2, <1>4, <1>12
<1>14. RowsInv'
  <2>1. ASSUME NEW f \in hidden' PROVE reason'[f] # "none"
    BY <1>1, <1>2, <1>4, <2>1 DEF SuppressionIInv, RowsInv, ReasonsMatch
  <2>2. ASSUME NEW f \in rows' \ hidden' PROVE reason'[f] \notin Rules
    <3>1. CASE f \in back \cup Dead
      BY <1>1, <1>2, <1>4, <1>12, <2>2, <3>1
    <3>2. CASE f \notin back \cup Dead /\ f \in rows
      <4>1. f \in Visible /\ reason'[f] = reason[f]
        BY <1>1, <1>2, <1>4, <2>2, <3>2 DEF Visible
      <4> QED BY <4>1 DEF SuppressionIInv, RowsInv, ReasonsMatch
    <3>3. CASE f \notin back \cup Dead /\ f \notin rows
      BY <1>1, <1>2, <1>4, <1>12, <2>2, <3>3 DEF SuppressionIInv, RowsInv, UnstoredHaveNoReason
    <3> QED BY <3>1, <3>2, <3>3
  <2>3. UnstoredHaveNoReason'
    BY <1>2, <1>3, <1>4 DEF SuppressionIInv, RowsInv, UnstoredHaveNoReason
  <2>4. scope' = scope /\ active' = active /\ review' = review /\ deleted' = deleted
    BY <1>2 DEF ruleVars
  <2>5. OrphansNeedARace'
    BY <1>13, <2>4 DEF SuppressionIInv, RowsInv, OrphansNeedARace
  <2>6. PendingHidesNothing'
    BY <1>13, <2>4 DEF SuppressionIInv, RowsInv, PendingHidesNothing
  <2>7. HiddenByUsed'
    BY <1>13, <2>4 DEF SuppressionIInv, RowsInv, HiddenByUsed, Used, Live
  <2> QED BY <2>1, <2>2, <2>3, <2>5, <2>6, <2>7 DEF RowsInv, ReasonsMatch, Visible
<1>15. DeletesOwn'
  <2>1. desk' = desk
    BY <1>2
  <2>2. ASSUME NEW b \in Admins, Deleting(b)
        PROVE  /\ \A f \in desk[b].rows : f \in hidden' /\ reason'[f] = desk[b].rule
               /\ \A f \in hidden' : reason'[f] = desk[b].rule /\ f \notin raced' => f \in desk[b].rows
    <3>1. /\ desk[b].rule \in Rules /\ \A f \in desk[b].rows : f \notin F
          /\ \A f \in desk[b].rows : f \in hidden /\ reason[f] = desk[b].rule
          /\ \A f \in hidden : reason[f] = desk[b].rule /\ f \notin raced => f \in desk[b].rows
      <4>1. desk[b].rows \subseteq Locked
        BY <2>2 DEF Locked, Deleting
      <4> QED BY <1>2, <2>2, <4>1 DEF SuppressionIInv, DeletesOwn, HiddenBy
    <3> QED BY <1>1, <1>2, <1>3, <1>4, <1>13, <3>1
  <2> QED BY <2>1, <2>2 DEF SuppressionIInv, DeletesOwn, Deleting, HiddenBy
<1>16. OwnReasons
  <2>1. phase[s] = "storing" /\ phase'[s] # "storing" /\ F \cap stale[s] = {}
    <3>1. phase \in [Scans -> Phases]
      BY DEF SuppressionIInv, SuppressionTypeOK, Phases
    <3>2. p \in {"idle", "stored"}
      BY DEF p
    <3> QED BY <1>2, <3>1, <3>2 DEF Store, Moves, Clash
  <2>2. ASSUME NEW f \in hidden, reason'[f] # reason[f]
        PROVE  \/ f \notin hidden' /\ reason'[f] = "none"
               \/ reason'[f] = "verified" /\ f \in held[s] \ stale[s]
    <3>1. f \in Findings /\ f \in rows
      BY <1>1
    <3>2. CASE f \in back
      BY <1>2, <1>4, <3>1, <3>2
    <3>3. CASE f \notin back
      BY <1>2, <1>4, <2>1, <2>2, <3>1, <3>3
    <3> QED BY <3>2, <3>3
  <2>3. \A f \in hidden \ hidden' : reason[f] = "verified"
    BY <1>2, <1>3
  <2> QED BY <2>1, <2>2, <2>3 DEF OwnReasons
<1>17. DeskTypes'
  BY <1>2, TypeParts DEF SuppressionIInv, DeskTypes
<1>18. SuppressionTypeOK'
  BY <1>8, <1>10, <1>11, <1>17, TypePartsNext
<1> QED BY <1>9, <1>10, <1>14, <1>15, <1>16, <1>18 DEF StepHolds, SuppressionIInv

LEMMA CorrelateHolds ==
    ASSUME SuppressionIInv, NEW s \in Scans, NEW keep \in Findings, Correlate(s, keep)
    PROVE  StepHolds
<1> DEFINE D == (Twins \cap Visible) \ {keep}
           F == {}
           p == "idle"
<1>1. /\ rows \subseteq Findings /\ hidden \subseteq rows /\ raced \subseteq hidden
      /\ reason \in [Findings -> Reasons]
  BY DEF SuppressionIInv, SuppressionTypeOK
<1>2. /\ Moves(s, p, F, F) /\ Written(s, D) /\ hidden' = hidden \cup (D \ dim[s])
      /\ reason' = [f \in Findings |-> IF f \in D THEN "duplicate" ELSE reason[f]]
      /\ raced' = raced \ D /\ rows' = rows
      /\ UNCHANGED <<ruleVars, desk, scans, requests>>
  BY DEF Correlate
<1>3. D \subseteq rows /\ D \cap hidden = {}
  BY DEF Visible
<1>4. p \in Phases /\ p = "idle" /\ F = {}
  BY DEF Phases
<1> HIDE DEF D, F, p
<1>5. \A f \in Findings : reason'[f] = IF f \in D THEN "duplicate" ELSE reason[f]
  BY <1>2
<1>6. SessionTypes /\ SessionsInv
  BY TypeParts DEF SuppressionIInv
<1>7. SessionTypes' /\ SessionsInv'
  <2>1. /\ rows \subseteq rows' /\ F \subseteq rows' /\ F \subseteq held[s] \cup F
        /\ hidden' \subseteq hidden \cup D
    BY <1>2, <1>4
  <2>2. Moves(s, p, F, F) /\ Written(s, D)
    BY <1>2
  <2>3. SessionTypes'
    BY <1>4, <1>6, <2>1, <2>2, MoveTypes
  <2>4. SessionsInv'
    BY <1>4, <1>6, <2>1, <2>2, MoveSessions
  <2> QED BY <2>3, <2>4
<1>8. PendingIsInert' /\ RuleTypes'
  <2>1. \A t \in Scans, r \in Rules : known'[t][r] # {} => known[t][r] # {}
    BY <1>2, <1>4, MoveKnown
  <2>2. UNCHANGED <<ruleVars, desk>>
    BY <1>2
  <2> QED BY <2>1, <2>2, ScanInert
<1>9. RowTypes'
  <2>1. reason' \in [Findings -> Reasons]
    BY <1>1, <1>2 DEF Reasons
  <2> QED BY <1>1, <1>2, <1>3, <2>1 DEF RowTypes
<1>10. "duplicate" \notin Rules
  BY SuppressionBounds
<1>11. \A f \in hidden' : reason'[f] \in Rules =>
          f \in hidden /\ reason'[f] = reason[f] /\ (f \in raced => f \in raced')
  BY <1>1, <1>2, <1>3, <1>5, <1>10
<1>12. RowsInv'
  <2>1. ASSUME NEW f \in hidden' PROVE reason'[f] # "none"
    BY <1>1, <1>2, <1>3, <1>5, <2>1 DEF SuppressionIInv, RowsInv, ReasonsMatch
  <2>2. ASSUME NEW f \in rows' \ hidden' PROVE reason'[f] \notin Rules
    BY <1>1, <1>2, <1>5, <1>10, <2>2 DEF SuppressionIInv, RowsInv, ReasonsMatch, Visible
  <2>3. UnstoredHaveNoReason'
    BY <1>2, <1>3, <1>5 DEF SuppressionIInv, RowsInv, UnstoredHaveNoReason
  <2>4. scope' = scope /\ active' = active /\ review' = review /\ deleted' = deleted
    BY <1>2 DEF ruleVars
  <2>5. OrphansNeedARace'
    BY <1>11, <2>4 DEF SuppressionIInv, RowsInv, OrphansNeedARace
  <2>6. PendingHidesNothing'
    BY <1>11, <2>4 DEF SuppressionIInv, RowsInv, PendingHidesNothing
  <2>7. HiddenByUsed'
    BY <1>11, <2>4 DEF SuppressionIInv, RowsInv, HiddenByUsed, Used, Live
  <2> QED BY <2>1, <2>2, <2>3, <2>5, <2>6, <2>7 DEF RowsInv, ReasonsMatch, Visible
<1>13. DeletesOwn'
  <2>1. desk' = desk
    BY <1>2
  <2>2. ASSUME NEW b \in Admins, Deleting(b)
        PROVE  /\ \A f \in desk[b].rows : f \in hidden' /\ reason'[f] = desk[b].rule
               /\ \A f \in hidden' : reason'[f] = desk[b].rule /\ f \notin raced' => f \in desk[b].rows
    <3>1. /\ desk[b].rule \in Rules
          /\ \A f \in desk[b].rows : f \in hidden /\ reason[f] = desk[b].rule
          /\ \A f \in hidden : reason[f] = desk[b].rule /\ f \notin raced => f \in desk[b].rows
      BY <2>2 DEF SuppressionIInv, DeletesOwn, HiddenBy
    <3> QED BY <1>1, <1>2, <1>3, <1>5, <1>11, <3>1
  <2> QED BY <2>1, <2>2 DEF SuppressionIInv, DeletesOwn, Deleting, HiddenBy
<1>14. OwnReasons
  BY <1>1, <1>2, <1>3, <1>5 DEF OwnReasons
<1>15. DeskTypes'
  BY <1>2, TypeParts DEF SuppressionIInv, DeskTypes
<1>16. SuppressionTypeOK'
  BY <1>7, <1>8, <1>9, <1>15, TypePartsNext
<1> QED BY <1>7, <1>8, <1>12, <1>13, <1>14, <1>16 DEF StepHolds, SuppressionIInv

-----------------------------------------------------------------------------
(* The specification *)

LEMMA SuppressionInitHolds == SuppressionInit => SuppressionIInv
<1> SUFFICES ASSUME SuppressionInit PROVE SuppressionIInv
  OBVIOUS
<1>1. /\ scope = Nothing /\ active = {} /\ review = [r \in Rules |-> "none"] /\ deleted = {}
      /\ rows = {} /\ hidden = {} /\ reason = [f \in Findings |-> "none"] /\ raced = {}
      /\ phase = [s \in Scans |-> "idle"] /\ known = [s \in Scans |-> Nothing]
      /\ held = [s \in Scans |-> {}] /\ stale = [s \in Scans |-> {}]
      /\ dim = [s \in Scans |-> {}] /\ found = [s \in Scans |-> {}]
      /\ desk = [a \in Admins |-> Idle] /\ scans = 0 /\ requests = 0
  BY DEF SuppressionInit
<1>2. Nothing \in [Rules -> SUBSET Findings] /\ \A r \in Rules : Nothing[r] = {}
  BY DEF Nothing
<1>3. Idle \in Requests /\ Idle.doing = "nothing"
  BY DEF Idle, Requests
<1> HIDE DEF Nothing, Idle
<1>4. RowTypes /\ RuleTypes
  BY <1>1, <1>2 DEF RowTypes, RuleTypes, Reasons
<1>5. SessionTypes
  BY <1>1, <1>2 DEF SessionTypes, Phases
<1>6. DeskTypes
  BY <1>1, <1>3, SuppressionBounds DEF DeskTypes
<1>7. RowsInv
  BY <1>1, SuppressionBounds DEF RowsInv, ReasonsMatch, OrphansNeedARace, PendingHidesNothing,
                                 UnstoredHaveNoReason, HiddenByUsed, Visible
<1>8. SessionsInv
  BY <1>1 DEF SessionsInv, HeldAreKnown, FoundAreHeld
<1>9. DeletesOwn /\ PendingIsInert
  <2>1. \A a \in Admins : desk[a].doing = "nothing"
    BY <1>1, <1>3
  <2>2. \A s \in Scans, r \in Rules : known[s][r] = {}
    BY <1>1, <1>2
  <2> QED BY <1>1, <2>1, <2>2 DEF DeletesOwn, Deleting, PendingIsInert
<1> QED BY <1>4, <1>5, <1>6, <1>7, <1>8, <1>9, TypeParts DEF SuppressionIInv

LEMMA SuppressionStep ==
    SuppressionIInv /\ [SuppressionNext]_suppressionVars => StepHolds
<1> SUFFICES ASSUME SuppressionIInv, [SuppressionNext]_suppressionVars
             PROVE  StepHolds
  OBVIOUS
<1>1. ASSUME NEW a \in Admins, AdminStep(a) PROVE StepHolds
  <2>1. ASSUME NEW r \in Rules, Open(a, r) PROVE StepHolds
    BY <2>1, OpenHolds
  <2>2. ASSUME NEW r \in Rules, BeginDelete(a, r) PROVE StepHolds
    BY <2>2, BeginDeleteHolds
  <2>3. ASSUME NEW r \in Rules, NEW S \in Criteria, Create(a, r, S) PROVE StepHolds
    BY <2>3, CreateHolds
  <2>4. ASSUME NEW r \in Rules, NEW S \in Criteria, NEW proposed \in BOOLEAN,
               Learn(a, r, S, proposed)
        PROVE  StepHolds
    BY <2>4, LearnHolds
  <2>5. ASSUME NEW on \in BOOLEAN, NEW to \in Criteria, Edit(a, on, to) PROVE StepHolds
    BY <2>5, EditHolds
  <2>6. ASSUME NEW approve \in BOOLEAN, Decide(a, approve) PROVE StepHolds
    BY <2>6, DecideHolds
  <2>7. CASE FinishDelete(a)
    BY <2>7, FinishDeleteHolds
  <2>8. CASE Drop(a)
    BY <2>8, DropHolds
  <2> QED BY <1>1, <2>1, <2>2, <2>3, <2>4, <2>5, <2>6, <2>7, <2>8, Zenon DEF AdminStep
<1>2. ASSUME NEW s \in Scans, ScanStep(s) PROVE StepHolds
  <2>1. CASE Begin(s)
    BY <2>1, BeginHolds
  <2>2. ASSUME NEW F \in Criteria, NEW Dead \in SUBSET F, NEW Alive \in SUBSET F,
               Store(s, F, Dead, Alive)
        PROVE  StepHolds
    BY <2>2, StoreHolds
  <2>3. CASE LoadRules(s)
    BY <2>3, LoadRulesHolds
  <2>4. ASSUME NEW order \in Orders, Pass(s, order) PROVE StepHolds
    BY <2>4, PassHolds
  <2>5. ASSUME NEW order \in Orders, NEW r \in Rules, NEW S \in Criteria, NEW proposed \in BOOLEAN,
               LearnAndPass(s, r, S, proposed, order)
        PROVE  StepHolds
    BY <2>5, LearnAndPassHolds
  <2>6. ASSUME NEW order \in Orders, NEW F \in Criteria, HookStore(s, F, order) PROVE StepHolds
    BY <2>6, HookStoreHolds
  <2>7. CASE PassLost(s)
    BY <2>7, PassLostHolds
  <2>8. ASSUME NEW keep \in Findings, Correlate(s, keep) PROVE StepHolds
    BY <2>8, CorrelateHolds
  <2>9. CASE Abort(s)
    BY <2>9, AbortHolds
  <2>10. CASE \E F \in Criteria : \E Dead, Alive \in SUBSET F : Store(s, F, Dead, Alive)
    BY <2>2, <2>10
  <2>11. ASSUME NEW order \in Orders,
                \/ Pass(s, order)
                \/ \E r \in Rules, S \in Criteria, proposed \in BOOLEAN :
                      LearnAndPass(s, r, S, proposed, order)
                \/ \E F \in Criteria : HookStore(s, F, order)
         PROVE  StepHolds
    BY <2>4, <2>5, <2>6, <2>11, Zenon
  <2> QED BY <1>2, <2>1, <2>3, <2>7, <2>8, <2>9, <2>10, <2>11, Zenon DEF ScanStep
<1>3. CASE UNCHANGED suppressionVars
  <2>1. UNCHANGED <<ruleVars, findingVars, sessionVars, desk, raced, scans, requests>>
    BY <1>3 DEF suppressionVars
  <2>2. SessionTypes' /\ SessionsInv'
    BY <2>1, QuietSessions
  <2>3. known' = known
    BY <2>1 DEF sessionVars
  <2> QED BY <2>1, <2>2, <2>3, RememberHolds
<1> QED BY <1>1, <1>2, <1>3 DEF SuppressionNext

\* What is hidden is hidden for a reason that holds.
THEOREM SuppressionsAreSound == SuppressionSpec => []SuppressionInv
<1>1. SuppressionInit => SuppressionIInv
  BY SuppressionInitHolds
<1>2. SuppressionIInv /\ [SuppressionNext]_suppressionVars => SuppressionIInv'
  BY SuppressionStep DEF StepHolds
<1>3. SuppressionIInv => SuppressionInv
  BY DEF SuppressionIInv, SuppressionInv, RowsInv
<1> QED BY <1>1, <1>2, <1>3, PTL DEF SuppressionSpec

\* Only verification takes a row another one hid, and each brings back only its own.
THEOREM ReasonsStayTheirs == SuppressionSpec => ReasonsAreOwn
<1>1. SuppressionInit => SuppressionIInv
  BY SuppressionInitHolds
<1>2. SuppressionIInv /\ [SuppressionNext]_suppressionVars => SuppressionIInv'
  BY SuppressionStep DEF StepHolds
<1>3. SuppressionIInv /\ [SuppressionNext]_suppressionVars =>
         [\A f \in hidden : reason'[f] # reason[f] =>
            \/ f \notin hidden' /\ reason'[f] = "none"
            \/ /\ reason'[f] = "verified"
               /\ \E s \in Scans : /\ phase[s] = "storing" /\ phase'[s] # "storing"
                                   /\ f \in held[s] \ stale[s]]_suppressionVars
  BY SuppressionStep DEF StepHolds, OwnReasons
<1>4. SuppressionIInv /\ [SuppressionNext]_suppressionVars =>
         [\A f \in hidden \ hidden' :
            \/ reason[f] = "verified"
            \/ \E a \in Admins : desk[a] # desk'[a] /\ reason[f] = desk[a].rule]_suppressionVars
  BY SuppressionStep DEF StepHolds, OwnReasons
<1>5. SuppressionSpec => OnlyVerificationTakes
  BY <1>1, <1>2, <1>3, PTL DEF SuppressionSpec, OnlyVerificationTakes
<1>6. SuppressionSpec => OnlyOwnReverted
  BY <1>1, <1>2, <1>4, PTL DEF SuppressionSpec, OnlyOwnReverted
<1> QED BY <1>5, <1>6 DEF ReasonsAreOwn

=============================================================================
