--------------------------- MODULE SourceScanProofs ---------------------------
(***************************************************************************)
(* Scans of a source, for every number of items, jobs and faults.  Safety  *)
(* uses only Init and Next.  SourceIInv says who has the lock, what a walk *)
(* has accounted for, and that no cursor, neither the stored one nor one   *)
(* that a session loaded, has passed a change that is not stored.          *)
(***************************************************************************)
EXTENDS SourceScan, TLAPS

\* Only the sweeper takes the lock from an execution that works.
LockHeld == \A j \in Jobs : Working(j) /\ j \notin slipped => lock = j

\* A full walk has seen, or knows it could not read, what it is past.
FullWalkAccounts ==
    \A j \in Jobs, i \in Items :
        pc[j] = "scan" /\ full[j] /\ i \notin todo[j] => i \in seen[j] \cup unread[j]

StampsPast ==
    /\ \A i \in Items : stamp[i] <= time
    /\ cursor <= time
    /\ \A j \in Jobs : view[j].cursor <= time /\ cur[j] <= time

Waiting(i) == 0 < stamp[i] /\ stored[i] < stamp[i]

Covers(v) == \A i \in Items : Waiting(i) /\ stamp[i] <= v => i \in gaps

\* What a walk is past is stored, in its batch, or known to be missing.
WalkAccounts ==
    \A j \in Jobs, i \in Items :
        pc[j] = "scan" /\ i \notin todo[j] /\ Waiting(i)
            => i \in gaps \/ i \in unread[j] \/ batch[j][i] = stamp[i]

CursorsCover == Covers(cursor) /\ \A j \in Jobs : Covers(view[j].cursor)

SourceIInv ==
    /\ SourceTypeOK /\ LockHeld /\ FullWalkAccounts /\ StampsPast /\ WalkAccounts /\ CursorsCover

LEMMA SourceInitIInv ==
    SourceInit => SourceIInv
  BY NoJobAssumption, BoundsAssumption
  DEF SourceInit, SourceIInv, SourceTypeOK, LockHeld, FullWalkAccounts, StampsPast, WalkAccounts,
      CursorsCover, Covers, Waiting, Working, Nothing, NoView, Items, Verdicts

-----------------------------------------------------------------------------
(* Groups of actions that touch the same part of the state *)

\* Rows, messages and bounds.
RowStep(j) ==
    \/ Dispatch(j) \/ DispatchCommit(j) \/ DispatchAbort(j) \/ Trigger(j) \/ LoadMissing(j)
    \/ (Watchdog(j) \/ Cancel(j)) /\ UNCHANGED <<pc, scanVars, slipped>>

\* An execution of the job is over, or its work is, and nothing is stored.
OverStep(j) ==
    \/ SkipConcurrent(j) \/ StartFails(j) \/ PreflightFails(j) \/ FailHard(j) \/ Release(j)
    \/ Crash(j) \/ HardLimit(j) \/ ((Watchdog(j) \/ Cancel(j)) /\ pc'[j] = "idle" /\ NoLocals(j))

\* One item of the walk.
VisitStep(j, i) == Read(j, i) \/ PassOver(j, i) \/ ReadFails(j, i) \/ ScanFails(j, i)

\* What was read is stored.
StoreStep(j) == CommitBatch(j) \/ Finish(j) \/ Fail(j)

\* Nothing happens, or time passes.
Still == UNCHANGED sourceScanVars \/ Pass

LEMMA SourceSteps ==
    ASSUME SourceTypeOK, [SourceNext]_sourceScanVars
    PROVE  \/ Still
           \/ \E i \in Items : Change(i) \/ Remove(i) \/ Decide(i)
           \/ \E j \in Jobs : \/ RowStep(j) \/ Load(j) \/ Acquire(j) \/ Start(j) \/ OverStep(j)
                              \/ StoreStep(j) \/ LockSweep(j)
                              \/ \E i \in Items : VisitStep(j, i)
  <1>1. ASSUME NEW j \in Jobs, Watchdog(j) \/ Cancel(j)
        PROVE  RowStep(j) \/ OverStep(j)
    BY <1>1 DEF Watchdog, Cancel, Revoke, RowStep, OverStep, SourceTypeOK
  <1>. QED
    BY <1>1
    DEF SourceNext, JobStep, Message, Lock, Walk, RowStep, OverStep, VisitStep, StoreStep, Still

LEMMA RowStepTouches ==
    ASSUME SourceTypeOK, NEW j \in Jobs, RowStep(j)
    PROVE  /\ UNCHANGED <<contentVars, findingVars, cursor, lock, pc, scanVars, historyVars>>
           /\ full' = full \/ (pc[j] = "idle" /\ \E b \in BOOLEAN : full' = [full EXCEPT ![j] = b])
           /\ SourceTypeOK'
  <1>1. UNCHANGED <<contentVars, findingVars, cursor, lock, pc, scanVars, historyVars>>
    BY DEF RowStep, Dispatch, DispatchDue, DispatchSweep, DispatchCommit, DispatchAbort, Trigger,
           LoadMissing, Watchdog, Cancel, historyVars, scanVars
  <1>2. faults' \in 0 .. MaxFaults /\ scans' \in 0 .. MaxScans
    BY BoundsAssumption
    DEF RowStep, Dispatch, DispatchDue, DispatchSweep, DispatchCommit, DispatchAbort, Trigger,
        LoadMissing, Watchdog, Cancel, SourceTypeOK, Fault, NewRow, boundVars
  <1>3. /\ full' = full \/ (pc[j] = "idle" /\ \E b \in BOOLEAN : full' = [full EXCEPT ![j] = b])
        /\ tid' = tid \/ \E b \in BOOLEAN : tid' = [tid EXCEPT ![j] = b]
        /\ age' = age \/ age' = [age EXCEPT ![j] = 0]
    BY DEF RowStep, Dispatch, DispatchDue, DispatchSweep, DispatchCommit, DispatchAbort, Trigger,
           LoadMissing, Watchdog, Cancel, NewRow, Gone, rowVars
  <1>4. row' = row \/ \E r \in {"none", "flushed", "pending", "ended"} : row' = [row EXCEPT ![j] = r]
    BY DEF RowStep, Dispatch, DispatchDue, DispatchSweep, DispatchCommit, DispatchAbort, Trigger,
           LoadMissing, Watchdog, Cancel, NewRow, rowVars
  <1>5. msg' \in {msg, msg \cup {j}, msg \ {j}}
    BY DEF RowStep, Dispatch, DispatchDue, DispatchSweep, DispatchCommit, DispatchAbort, Trigger,
           LoadMissing, Watchdog, Cancel, Revoke
  <1>6. /\ full' \in [Jobs -> BOOLEAN] /\ tid' \in [Jobs -> BOOLEAN] /\ msg' \subseteq Jobs
        /\ row' \in [Jobs -> {"none", "flushed"} \cup Active \cup Settled]
        /\ age' \in [Jobs -> 0 .. StallThreshold]
    <2>1. full' \in [Jobs -> BOOLEAN] /\ tid' \in [Jobs -> BOOLEAN]
      BY <1>3 DEF SourceTypeOK
    <2>2. row' \in [Jobs -> {"none", "flushed"} \cup Active \cup Settled]
      BY <1>4 DEF SourceTypeOK, Active, Settled
    <2>3. age' \in [Jobs -> 0 .. StallThreshold]
      <3>1. 0 \in 0 .. StallThreshold /\ age \in [Jobs -> 0 .. StallThreshold]
        BY BoundsAssumption DEF SourceTypeOK
      <3>. QED  BY <1>3, <3>1
    <2>. QED  BY <2>1, <2>2, <2>3, <1>5 DEF SourceTypeOK
  <1>7. SourceTypeOK'
    BY <1>1, <1>2, <1>6 DEF SourceTypeOK, contentVars, findingVars, scanVars, historyVars
  <1>. QED  BY <1>1, <1>3, <1>7

LocalsTypeOK ==
    /\ view \in [Jobs -> [cursor : 0 .. MaxStamp, running : BOOLEAN]]
    /\ todo \in [Jobs -> SUBSET Items] /\ seen \in [Jobs -> SUBSET Items]
    /\ unread \in [Jobs -> SUBSET Items] /\ batch \in [Jobs -> [Items -> 0 .. MaxStamp]]
    /\ cur \in [Jobs -> 0 .. MaxStamp] /\ slipped \subseteq Jobs

LEMMA NoLocalsType ==
    ASSUME LocalsTypeOK, NEW j \in Jobs, NoLocals(j)
    PROVE  LocalsTypeOK'
  <1>1. Nothing \in [Items -> 0 .. MaxStamp] /\ 0 \in 0 .. MaxStamp
        /\ NoView \in [cursor : 0 .. MaxStamp, running : BOOLEAN]
    BY BoundsAssumption DEF Nothing, NoView
  <1>2. view' \in [Jobs -> [cursor : 0 .. MaxStamp, running : BOOLEAN]]
    BY <1>1 DEF LocalsTypeOK, NoLocals
  <1>3. batch' \in [Jobs -> [Items -> 0 .. MaxStamp]] /\ cur' \in [Jobs -> 0 .. MaxStamp]
    BY <1>1 DEF LocalsTypeOK, NoLocals
  <1>4. /\ todo' \in [Jobs -> SUBSET Items] /\ seen' \in [Jobs -> SUBSET Items]
        /\ unread' \in [Jobs -> SUBSET Items] /\ slipped' \subseteq Jobs
    BY DEF LocalsTypeOK, NoLocals
  <1>. QED  BY <1>2, <1>3, <1>4 DEF LocalsTypeOK

LEMMA OverStepTouches ==
    ASSUME SourceTypeOK, NEW j \in Jobs, OverStep(j)
    PROVE  /\ UNCHANGED <<contentVars, findingVars, cursor, gaps, full>>
           /\ NoLocals(j)
           /\ \E p \in {"idle", "release"} : pc' = [pc EXCEPT ![j] = p]
           /\ lock' \in {lock, NoJob} /\ (lock' # lock => lock = j)
           /\ SourceTypeOK'
  <1>. USE BoundsAssumption DEF Fault, boundVars, rowVars
  <1>1. /\ UNCHANGED <<contentVars, findingVars, cursor, gaps, full, tid, age>>
        /\ NoLocals(j)
        /\ lock' \in {lock, NoJob} /\ (lock' # lock => lock = j)
        /\ row' = row \/ row' = [row EXCEPT ![j] = "ended"]
        /\ msg' \in {msg, msg \cup {j}, msg \ {j}}
    BY DEF OverStep, SkipConcurrent, StartFails, PreflightFails, FailHard, Release, Crash,
           HardLimit, Dies, Watchdog, Cancel, Revoke, NoLocals, SourceTypeOK
  <1>2. \E p \in {"idle", "release"} : pc' = [pc EXCEPT ![j] = p]
    <2>1. CASE (Watchdog(j) \/ Cancel(j)) /\ pc'[j] = "idle"
      <3>1. pc' = pc \/ pc' = [pc EXCEPT ![j] = "idle"]
        BY <2>1 DEF Watchdog, Cancel, Revoke
      <3>2. pc' = pc => pc' = [pc EXCEPT ![j] = "idle"]
        BY <2>1 DEF SourceTypeOK
      <3>. QED  BY <3>1, <3>2
    <2>. QED
      BY <2>1
      DEF OverStep, SkipConcurrent, StartFails, PreflightFails, FailHard, Release, Crash,
          HardLimit, Dies
  <1>3. faults' \in 0 .. MaxFaults /\ scans' \in 0 .. MaxScans
    BY DEF OverStep, SkipConcurrent, StartFails, PreflightFails, FailHard, Release, Crash,
           HardLimit, Watchdog, Cancel, SourceTypeOK
  <1>4. SourceTypeOK'
    <2>1. row' \in [Jobs -> {"none", "flushed"} \cup Active \cup Settled]
          /\ pc' \in [Jobs -> {"idle", "lock", "start", "scan", "release"}]
      <3>1. row' \in [Jobs -> {"none", "flushed"} \cup Active \cup Settled]
        BY <1>1 DEF SourceTypeOK, Settled
      <3>2. pc' \in [Jobs -> {"idle", "lock", "start", "scan", "release"}]
        BY <1>2 DEF SourceTypeOK
      <3>. QED  BY <3>1, <3>2
    <2>2. LocalsTypeOK'
      BY <1>1, NoLocalsType DEF SourceTypeOK, LocalsTypeOK
    <2>3. \A k \in Jobs : todo'[k] # {} \/ batch'[k] # Nothing => pc'[k] = "scan"
      BY <1>1, <1>2 DEF NoLocals, SourceTypeOK
    <2>. QED
      BY <1>1, <1>3, <2>1, <2>2, <2>3
      DEF SourceTypeOK, LocalsTypeOK, contentVars, findingVars
  <1>. QED  BY <1>1, <1>2, <1>4

LEMMA VisitStepTouches ==
    ASSUME SourceTypeOK, NEW j \in Jobs, NEW i \in Items, VisitStep(j, i)
    PROVE  /\ UNCHANGED <<contentVars, findingVars, cursor, rowVars, lock, pc, view, historyVars>>
           /\ pc[j] = "scan" /\ todo' = [todo EXCEPT ![j] = @ \ {i}]
           /\ \/ seen' = [seen EXCEPT ![j] = @ \cup {i}] /\ unread' = unread
                 /\ batch' = [batch EXCEPT ![j][i] = stamp[i]]
                 /\ cur' = [cur EXCEPT ![j] = Later(@, stamp[i])]
              \/ /\ seen' = seen /\ batch' = batch /\ cur' = cur /\ stamp[i] <= Base(j)
                 /\ unread' = [unread EXCEPT ![j] = IF stamp[i] = 0 THEN @ \cup {i} ELSE @]
              \/ /\ unread' = [unread EXCEPT ![j] = @ \cup {i}] /\ batch' = batch
                 /\ \/ seen' = seen /\ cur' = cur
                    \/ /\ seen' = [seen EXCEPT ![j] = @ \cup {i}]
                       /\ cur' = [cur EXCEPT ![j] = Later(@, stamp[i])]
           /\ SourceTypeOK'
  <1>1. /\ UNCHANGED <<contentVars, findingVars, cursor, rowVars, lock, pc, view, historyVars, msg>>
        /\ pc[j] = "scan" /\ todo' = [todo EXCEPT ![j] = @ \ {i}]
    BY DEF VisitStep, Read, PassOver, ReadFails, ScanFails, Visiting
  <1>2. \/ seen' = [seen EXCEPT ![j] = @ \cup {i}] /\ unread' = unread
           /\ batch' = [batch EXCEPT ![j][i] = stamp[i]]
           /\ cur' = [cur EXCEPT ![j] = Later(@, stamp[i])]
        \/ /\ seen' = seen /\ batch' = batch /\ cur' = cur /\ stamp[i] <= Base(j)
           /\ unread' = [unread EXCEPT ![j] = IF stamp[i] = 0 THEN @ \cup {i} ELSE @]
        \/ /\ unread' = [unread EXCEPT ![j] = @ \cup {i}] /\ batch' = batch
           /\ \/ seen' = seen /\ cur' = cur
              \/ /\ seen' = [seen EXCEPT ![j] = @ \cup {i}]
                 /\ cur' = [cur EXCEPT ![j] = Later(@, stamp[i])]
    <2>1. Base(j) \in Nat /\ stamp[i] \in Nat
      BY BoundsAssumption DEF Base, SourceTypeOK
    <2>. QED  BY <2>1 DEF VisitStep, Read, PassOver, ReadFails, ScanFails, Visiting, Newer
  <1>3. faults' \in 0 .. MaxFaults /\ scans' \in 0 .. MaxScans
    BY BoundsAssumption
    DEF VisitStep, Read, PassOver, ReadFails, ScanFails, SourceTypeOK, Fault, boundVars
  <1>4. /\ seen' \in [Jobs -> SUBSET Items] /\ unread' \in [Jobs -> SUBSET Items]
        /\ todo' \in [Jobs -> SUBSET Items]
    <2>1. seen' \in [Jobs -> SUBSET Items]
      <3>1. seen' = seen \/ seen' = [seen EXCEPT ![j] = seen[j] \cup {i}]
        BY <1>2
      <3>2. seen[j] \cup {i} \in SUBSET Items /\ seen \in [Jobs -> SUBSET Items]
        BY DEF SourceTypeOK
      <3>. QED  BY <3>1, <3>2
    <2>2. unread' \in [Jobs -> SUBSET Items]
      BY <1>2 DEF SourceTypeOK
    <2>. QED  BY <1>1, <2>1, <2>2 DEF SourceTypeOK
  <1>5. /\ batch' \in [Jobs -> [Items -> 0 .. MaxStamp]] /\ cur' \in [Jobs -> 0 .. MaxStamp]
        /\ \A k \in Jobs \ {j} : todo'[k] = todo[k] /\ batch'[k] = batch[k]
    <2>1. stamp[i] \in 0 .. MaxStamp /\ Later(cur[j], stamp[i]) \in 0 .. MaxStamp
      BY DEF SourceTypeOK, Later
    <2>2. cur' \in [Jobs -> 0 .. MaxStamp]
      BY <1>2, <2>1 DEF SourceTypeOK
    <2>3. batch' = batch \/ batch' = [batch EXCEPT ![j] = [batch[j] EXCEPT ![i] = stamp[i]]]
      BY <1>2 DEF SourceTypeOK
    <2>4. [batch[j] EXCEPT ![i] = stamp[i]] \in [Items -> 0 .. MaxStamp]
      BY <2>1 DEF SourceTypeOK
    <2>5. batch' \in [Jobs -> [Items -> 0 .. MaxStamp]]
      BY <2>3, <2>4 DEF SourceTypeOK
    <2>. QED  BY <1>1, <2>2, <2>3, <2>5 DEF SourceTypeOK
  <1>6. SourceTypeOK'
    BY <1>1, <1>3, <1>4, <1>5
    DEF SourceTypeOK, contentVars, findingVars, rowVars, historyVars
  <1>. QED  BY <1>1, <1>2, <1>6

\* Storing keeps and adds; gaps that are stored now are none.
LEMMA StoreStepTouches ==
    ASSUME SourceTypeOK, NEW j \in Jobs, StoreStep(j)
    PROVE  /\ UNCHANGED <<contentVars, full, lock>>
           /\ stored' = Stored(j)
           /\ \E U \in SUBSET unread[j] : gaps' = StillMissing(gaps \cup {i \in U : stamp[i] > 0})
           /\ pc[j] = "scan"
           /\ \/ CommitBatch(j)
              \/ /\ NoLocals(j) /\ pc' = [pc EXCEPT ![j] = "release"]
                 /\ cursor' = cursor \/ (Finish(j) /\ cursor' = cur[j])
           /\ SourceTypeOK'
  <1>1. /\ UNCHANGED <<contentVars, full, lock, tid, age, msg>>
        /\ stored' = Stored(j) /\ pc[j] = "scan"
    BY DEF StoreStep, CommitBatch, Finish, Fail, rowVars
  <1>2. \/ CommitBatch(j)
        \/ /\ NoLocals(j) /\ pc' = [pc EXCEPT ![j] = "release"]
           /\ row' = [row EXCEPT ![j] = "ended"]
           /\ cursor' = cursor \/ (Finish(j) /\ cursor' = cur[j])
    BY DEF StoreStep, Finish, Fail, WriteSyncState
  <1>3. PICK U \in SUBSET unread[j] : gaps' = StillMissing(gaps \cup {i \in U : stamp[i] > 0})
    <2>1. CASE Finish(j)
      <3>1. gaps' = StillMissing(gaps \cup {i \in unread[j] : stamp[i] > 0})
        BY <2>1 DEF Finish
      <3>2. unread[j] \in SUBSET unread[j]
        OBVIOUS
      <3>. QED  BY <3>1, <3>2
    <2>2. CASE CommitBatch(j) \/ Fail(j)
      <3>1. gaps' = StillMissing(gaps)
        BY <2>2 DEF CommitBatch, Fail
      <3>2. gaps = gaps \cup {i \in {} : stamp[i] > 0} /\ {} \in SUBSET unread[j]
        OBVIOUS
      <3>. QED  BY <3>1, <3>2
    <2>. QED  BY <2>1, <2>2 DEF StoreStep
  <1>4. faults' \in 0 .. MaxFaults /\ scans' \in 0 .. MaxScans
    BY BoundsAssumption
    DEF StoreStep, CommitBatch, Finish, Fail, SourceTypeOK, Fault, boundVars
  <1>5. stored' \in [Items -> 0 .. MaxStamp] /\ gaps' \subseteq Items
    BY <1>1, <1>3 DEF SourceTypeOK, Stored, StillMissing, Later
  <1>6. verdict' \in [Items -> Verdicts]
    <2>1. Found(j) \in [Items -> Verdicts]
      BY DEF Found, SourceTypeOK, Verdicts
    <2>. QED  BY <2>1 DEF StoreStep, CommitBatch, Finish, Fail, Verdicts
  <1>7. SourceTypeOK'
    <2>1. CASE CommitBatch(j)
      <3>1. Nothing \in [Items -> 0 .. MaxStamp]
        BY BoundsAssumption DEF Nothing
      <3>2. batch' = [batch EXCEPT ![j] = Nothing]
            /\ UNCHANGED <<cursor, rowVars, msg, pc, view, todo, seen, unread, cur, slipped>>
        BY <2>1 DEF CommitBatch
      <3>. QED
        BY <1>1, <1>4, <1>5, <1>6, <3>1, <3>2 DEF SourceTypeOK, contentVars, rowVars
    <2>2. CASE NoLocals(j) /\ pc' = [pc EXCEPT ![j] = "release"]
               /\ row' = [row EXCEPT ![j] = "ended"] /\ cursor' \in {cursor, cur[j]}
      <3>1. LocalsTypeOK'
        BY <2>2, NoLocalsType DEF SourceTypeOK, LocalsTypeOK
      <3>2. cursor' \in 0 .. MaxStamp /\ row' \in [Jobs -> {"none", "flushed"} \cup Active \cup Settled]
            /\ pc' \in [Jobs -> {"idle", "lock", "start", "scan", "release"}]
        BY <2>2 DEF SourceTypeOK, Settled
      <3>3. \A k \in Jobs : todo'[k] # {} \/ batch'[k] # Nothing => pc'[k] = "scan"
        BY <2>2 DEF NoLocals, SourceTypeOK
      <3>. QED
        BY <1>1, <1>4, <1>5, <1>6, <3>1, <3>2, <3>3 DEF SourceTypeOK, LocalsTypeOK, contentVars
    <2>. QED  BY <1>2, <2>1, <2>2
  <1>. QED  BY <1>1, <1>2, <1>3, <1>7

-----------------------------------------------------------------------------
(* The invariant, conjunct by conjunct *)

\* The one-line steps of the lock, and of an execution's start.
LEMMA LockStepType ==
    ASSUME SourceTypeOK, NEW j \in Jobs, Load(j) \/ Acquire(j) \/ Start(j) \/ LockSweep(j)
    PROVE  SourceTypeOK'
  <1>. USE BoundsAssumption DEF SourceTypeOK, contentVars, findingVars, rowVars, historyVars,
           boundVars, scanVars
  <1>1. CASE Load(j)
    BY <1>1 DEF Load
  <1>2. CASE Acquire(j)
    BY <1>2 DEF Acquire
  <1>3. CASE Start(j)
    <2>1. /\ Nothing \in [Items -> 0 .. MaxStamp] /\ Base(j) \in 0 .. MaxStamp
          /\ "running" \in {"none", "flushed"} \cup Active \cup Settled
      BY DEF Nothing, Base, Active
    <2>2. row' = row \/ row' = [row EXCEPT ![j] = "running"]
      BY <1>3 DEF Start
    <2>3. row' \in [Jobs -> {"none", "flushed"} \cup Active \cup Settled]
      BY <2>1, <2>2
    <2>. QED  BY <1>3, <2>1, <2>3 DEF Start
  <1>4. CASE LockSweep(j)
    BY <1>4 DEF LockSweep
  <1>. QED  BY <1>1, <1>2, <1>3, <1>4

LEMMA OutsideType ==
    ASSUME SourceTypeOK, NEW i \in Items, Change(i) \/ Remove(i) \/ Decide(i)
    PROVE  SourceTypeOK'
  <1>. USE BoundsAssumption DEF SourceTypeOK, findingVars, rowVars, historyVars, boundVars,
           scanVars, contentVars, Fault
  <1>1. CASE Change(i)
    BY <1>1 DEF Change
  <1>2. CASE Remove(i)
    BY <1>2 DEF Remove
  <1>3. CASE Decide(i)
    BY <1>3 DEF Decide, Verdicts
  <1>. QED  BY <1>1, <1>2, <1>3

LEMMA SourceTypeStep ==
    ASSUME SourceTypeOK, [SourceNext]_sourceScanVars
    PROVE  SourceTypeOK'
  <1>1. CASE UNCHANGED sourceScanVars
    BY <1>1
    DEF SourceTypeOK, sourceScanVars, contentVars, findingVars, rowVars, historyVars, boundVars,
        scanVars
  <1>2. CASE Pass
    BY <1>2, BoundsAssumption
    DEF Pass, Aging, SourceTypeOK, contentVars, findingVars, historyVars, boundVars, scanVars
  <1>. QED
    BY <1>1, <1>2, SourceSteps, OutsideType, RowStepTouches, OverStepTouches, VisitStepTouches,
       StoreStepTouches, LockStepType
    DEF Still

LEMMA LockHeldStep ==
    ASSUME SourceTypeOK, LockHeld, [SourceNext]_sourceScanVars
    PROVE  LockHeld'
  <1>. USE NoJobAssumption DEF LockHeld, Working
  <1>1. CASE Still \/ \E i \in Items : Change(i) \/ Remove(i) \/ Decide(i)
    BY <1>1 DEF Still, Pass, sourceScanVars, Change, Remove, Decide, historyVars
  <1>2. ASSUME NEW j \in Jobs, RowStep(j)
        PROVE  LockHeld'
    BY <1>2, RowStepTouches DEF historyVars
  <1>3. ASSUME NEW j \in Jobs, OverStep(j)
        PROVE  LockHeld'
    <2>1. /\ \E p \in {"idle", "release"} : pc' = [pc EXCEPT ![j] = p]
          /\ slipped' = slipped \ {j} /\ lock' \in {lock, NoJob} /\ (lock' # lock => lock = j)
      BY <1>3, OverStepTouches DEF NoLocals
    <2>. QED  BY <2>1 DEF SourceTypeOK
  <1>4. ASSUME NEW j \in Jobs, StoreStep(j)
        PROVE  LockHeld'
    <2>1. lock' = lock /\ (CommitBatch(j) \/ (NoLocals(j) /\ pc' = [pc EXCEPT ![j] = "release"]))
      BY <1>4, StoreStepTouches
    <2>2. CASE CommitBatch(j)
      BY <2>1, <2>2 DEF CommitBatch
    <2>3. CASE NoLocals(j) /\ pc' = [pc EXCEPT ![j] = "release"]
      BY <2>1, <2>3 DEF NoLocals, SourceTypeOK
    <2>. QED  BY <2>1, <2>2, <2>3
  <1>5. ASSUME NEW j \in Jobs, Load(j) \/ Acquire(j) \/ Start(j) \/ LockSweep(j)
        PROVE  LockHeld'
    BY <1>5 DEF Load, Acquire, Start, LockSweep, historyVars, SourceTypeOK
  <1>6. ASSUME NEW j \in Jobs, NEW i \in Items, VisitStep(j, i)
        PROVE  LockHeld'
    BY <1>6, VisitStepTouches DEF historyVars
  <1>. QED  BY <1>1, <1>2, <1>3, <1>4, <1>5, <1>6, SourceSteps

LEMMA FullWalkStep ==
    ASSUME SourceTypeOK, FullWalkAccounts, [SourceNext]_sourceScanVars
    PROVE  FullWalkAccounts'
  <1>. USE DEF FullWalkAccounts
  <1>1. CASE Still \/ \E i \in Items : Change(i) \/ Remove(i) \/ Decide(i)
    BY <1>1 DEF Still, Pass, sourceScanVars, Change, Remove, Decide, scanVars, rowVars
  <1>2. ASSUME NEW j \in Jobs, RowStep(j)
        PROVE  FullWalkAccounts'
    BY <1>2, RowStepTouches DEF scanVars, SourceTypeOK
  <1>3. ASSUME NEW j \in Jobs, OverStep(j)
        PROVE  FullWalkAccounts'
    <2>1. /\ \E p \in {"idle", "release"} : pc' = [pc EXCEPT ![j] = p]
          /\ NoLocals(j) /\ full' = full
      BY <1>3, OverStepTouches
    <2>. QED  BY <2>1 DEF SourceTypeOK, NoLocals
  <1>4. ASSUME NEW j \in Jobs, StoreStep(j)
        PROVE  FullWalkAccounts'
    <2>1. full' = full /\ (CommitBatch(j) \/ (NoLocals(j) /\ pc' = [pc EXCEPT ![j] = "release"]))
      BY <1>4, StoreStepTouches
    <2>2. CASE CommitBatch(j)
      BY <2>1, <2>2 DEF CommitBatch
    <2>3. CASE NoLocals(j) /\ pc' = [pc EXCEPT ![j] = "release"]
      BY <2>1, <2>3 DEF NoLocals, SourceTypeOK
    <2>. QED  BY <2>1, <2>2, <2>3
  <1>5. ASSUME NEW j \in Jobs, Load(j) \/ Acquire(j) \/ LockSweep(j)
        PROVE  FullWalkAccounts'
    BY <1>5 DEF Load, Acquire, LockSweep, scanVars, rowVars, SourceTypeOK
  <1>6. ASSUME NEW j \in Jobs, Start(j)
        PROVE  FullWalkAccounts'
    BY <1>6 DEF Start, SourceTypeOK
  <1>7. ASSUME NEW j \in Jobs, NEW i \in Items, VisitStep(j, i)
        PROVE  FullWalkAccounts'
    <2>1. /\ full' = full /\ pc' = pc /\ todo' = [todo EXCEPT ![j] = @ \ {i}]
          /\ (stamp[i] <= Base(j) /\ full[j]) => stamp[i] = 0
      BY <1>7, VisitStepTouches DEF rowVars, Base, SourceTypeOK
    <2>2. /\ \A k \in Jobs : seen[k] \subseteq seen'[k] /\ unread[k] \subseteq unread'[k]
          /\ full[j] => i \in seen'[j] \cup unread'[j]
      <3>1. CASE seen' = [seen EXCEPT ![j] = @ \cup {i}] /\ unread' = unread
        BY <3>1 DEF SourceTypeOK
      <3>2. CASE /\ seen' = seen /\ stamp[i] <= Base(j)
                 /\ unread' = [unread EXCEPT ![j] = IF stamp[i] = 0 THEN @ \cup {i} ELSE @]
        <4>1. full[j] => unread' = [unread EXCEPT ![j] = @ \cup {i}]
          BY <2>1, <3>2
        <4>. QED  BY <3>2, <4>1 DEF SourceTypeOK
      <3>3. CASE /\ unread' = [unread EXCEPT ![j] = @ \cup {i}]
                 /\ seen' = seen \/ seen' = [seen EXCEPT ![j] = @ \cup {i}]
        <4>1. \A k \in Jobs : unread[k] \subseteq unread'[k] /\ i \in unread'[j]
          BY <3>3 DEF SourceTypeOK
        <4>2. CASE seen' = [seen EXCEPT ![j] = @ \cup {i}]
          BY <4>1, <4>2 DEF SourceTypeOK
        <4>. QED  BY <3>3, <4>1, <4>2
      <3>. QED  BY <1>7, <3>1, <3>2, <3>3, VisitStepTouches
    <2>. QED  BY <2>1, <2>2 DEF SourceTypeOK
  <1>. QED  BY <1>1, <1>2, <1>3, <1>4, <1>5, <1>6, <1>7, SourceSteps

\* A session loads the cursor that is stored.
LEMMA LoadedCursor ==
    ASSUME SourceTypeOK, NEW j \in Jobs, Load(j) \/ Acquire(j) \/ Start(j) \/ LockSweep(j)
    PROVE  \A k \in Jobs : view'[k].cursor \in {view[k].cursor, cursor}
  <1>1. CASE Load(j)
    BY <1>1 DEF Load, SourceTypeOK
  <1>2. CASE Acquire(j) \/ Start(j) \/ LockSweep(j)
    BY <1>2 DEF Acquire, Start, LockSweep, scanVars
  <1>. QED  BY <1>1, <1>2

LEMMA StampsPastStep ==
    ASSUME SourceTypeOK, StampsPast, [SourceNext]_sourceScanVars
    PROVE  StampsPast'
  <1>. USE DEF StampsPast
  <1>1. CASE Still \/ \E i \in Items : Remove(i) \/ Decide(i)
    <2>1. CASE Still \/ \E i \in Items : Decide(i)
      BY <2>1 DEF Still, Pass, sourceScanVars, Decide, scanVars, contentVars
    <2>2. ASSUME NEW i \in Items, Remove(i)
          PROVE  StampsPast'
      <3>1. /\ UNCHANGED <<time, cursor, view, cur>>
            /\ \A k \in Items : stamp'[k] = IF k = i THEN 0 ELSE stamp[k]
        BY <2>2 DEF Remove, scanVars, SourceTypeOK
      <3>2. 0 <= time
        BY BoundsAssumption DEF SourceTypeOK
      <3>. QED  BY <3>1, <3>2
    <2>. QED  BY <1>1, <2>1, <2>2
  <1>2. ASSUME NEW i \in Items, Change(i)
        PROVE  StampsPast'
    BY <1>2 DEF Change, SourceTypeOK, scanVars
  <1>3. ASSUME NEW j \in Jobs, RowStep(j)
        PROVE  StampsPast'
    BY <1>3, RowStepTouches DEF contentVars, scanVars
  <1>4. ASSUME NEW j \in Jobs, OverStep(j)
        PROVE  StampsPast'
    <2>1. NoLocals(j) /\ UNCHANGED <<contentVars, cursor>>
      BY <1>4, OverStepTouches
    <2>. QED  BY <2>1 DEF SourceTypeOK, NoLocals, NoView, contentVars
  <1>5. ASSUME NEW j \in Jobs, StoreStep(j)
        PROVE  StampsPast'
    <2>1. /\ UNCHANGED contentVars
          /\ \/ CommitBatch(j)
             \/ NoLocals(j) /\ (cursor' = cursor \/ cursor' = cur[j])
      BY <1>5, StoreStepTouches
    <2>2. CASE CommitBatch(j)
      BY <2>1, <2>2 DEF CommitBatch, contentVars
    <2>3. CASE NoLocals(j) /\ (cursor' = cursor \/ cursor' = cur[j])
      BY <2>1, <2>3 DEF NoLocals, NoView, SourceTypeOK, contentVars
    <2>. QED  BY <2>1, <2>2, <2>3
  <1>6. ASSUME NEW j \in Jobs, Load(j) \/ Acquire(j) \/ LockSweep(j)
        PROVE  StampsPast'
    <2>1. UNCHANGED <<contentVars, cursor, cur>>
      BY <1>6 DEF Load, Acquire, LockSweep, scanVars
    <2>2. \A k \in Jobs : view'[k].cursor \in {view[k].cursor, cursor}
      BY <1>6, LoadedCursor
    <2>. QED  BY <2>1, <2>2 DEF contentVars
  <1>7. ASSUME NEW j \in Jobs, Start(j)
        PROVE  StampsPast'
    BY <1>7 DEF Start, Base, SourceTypeOK, contentVars
  <1>8. ASSUME NEW j \in Jobs, NEW i \in Items, VisitStep(j, i)
        PROVE  StampsPast'
    <2>1. /\ UNCHANGED <<contentVars, cursor, view>>
          /\ cur' = cur \/ cur' = [cur EXCEPT ![j] = Later(@, stamp[i])]
      BY <1>8, VisitStepTouches
    <2>. QED  BY <2>1 DEF SourceTypeOK, Later, contentVars
  <1>. QED  BY <1>1, <1>2, <1>3, <1>4, <1>5, <1>6, <1>7, <1>8, SourceSteps

\* Storing moves no change past a cursor.
LEMMA StoringCovers ==
    ASSUME SourceIInv, NEW j \in Jobs, StoreStep(j)
    PROVE  /\ \A i \in Items : Waiting(i)' => Waiting(i) /\ (i \in gaps => i \in gaps')
           /\ \A i \in Items : stamp'[i] = stamp[i]
           /\ \A i \in Items : Waiting(i)' => batch[j][i] # stamp[i]
  <1>1. /\ stamp' = stamp /\ stored' = Stored(j)
        /\ \E U \in SUBSET unread[j] : gaps' = StillMissing(gaps \cup {i \in U : stamp[i] > 0})
    BY StoreStepTouches DEF SourceIInv, contentVars
  <1>2. ASSUME NEW i \in Items
        PROVE  /\ stored[i] \in Nat /\ stamp[i] \in Nat /\ batch[j][i] \in Nat
               /\ stored'[i] = Later(stored[i], batch[j][i])
    BY <1>1, BoundsAssumption DEF SourceIInv, SourceTypeOK, Stored
  <1>3. ASSUME NEW i \in Items, stored'[i] < stamp[i]
        PROVE  stored[i] < stamp[i] /\ batch[j][i] # stamp[i]
    BY <1>2, <1>3 DEF Later
  <1>4. ASSUME NEW i \in gaps, stored'[i] # stamp[i]
        PROVE  i \in gaps'
    BY <1>1, <1>4 DEF StillMissing
  <1>5. ASSUME NEW i \in Items, stored'[i] < stamp[i], i \in gaps
        PROVE  i \in gaps'
    <2>1. stored'[i] # stamp[i]
      BY <1>2, <1>5 DEF Later
    <2>. QED  BY <1>4, <1>5, <2>1
  <1>. QED  BY <1>1, <1>3, <1>5 DEF Waiting

\* A walk that is finished has covered what its own cursor is past.
LEMMA FinishCovers ==
    ASSUME SourceIInv, NEW j \in Jobs, Finish(j), NEW i \in Items, Waiting(i)'
    PROVE  i \in gaps'
  <1>1. /\ i \notin todo[j] /\ pc[j] = "scan" /\ stamp' = stamp
        /\ gaps' = StillMissing(gaps \cup {k \in unread[j] : stamp[k] > 0})
    BY DEF Finish, contentVars
  <1>2. Waiting(i) /\ batch[j][i] # stamp[i] /\ (i \in gaps => i \in gaps')
    BY StoringCovers DEF StoreStep
  <1>3. CASE i \in unread[j]
    <2>1. stored'[i] # stamp[i] /\ stamp[i] > 0
      BY <1>1, BoundsAssumption DEF Waiting, SourceIInv, SourceTypeOK
    <2>. QED  BY <1>1, <1>3, <2>1 DEF StillMissing
  <1>. QED  BY <1>1, <1>2, <1>3 DEF SourceIInv, WalkAccounts

LEMMA WalkAccountsStep ==
    ASSUME SourceIInv, [SourceNext]_sourceScanVars
    PROVE  WalkAccounts'
  <1>. USE DEF SourceIInv, WalkAccounts, Waiting
  <1>1. CASE Still
    BY <1>1 DEF Still, Pass, sourceScanVars, contentVars, findingVars, scanVars, historyVars
  <1>2. ASSUME NEW i \in Items, Change(i) \/ Remove(i) \/ Decide(i)
        PROVE  WalkAccounts'
    <2>1. CASE Change(i)
      <3>1. /\ UNCHANGED <<pc, todo, unread, batch, stored>>
            /\ \A k \in Items \ {i} : stamp'[k] = stamp[k]
            /\ \A k \in Items \ {i} : k \in gaps => k \in gaps'
            /\ Behind(i) => i \in gaps'
        BY <2>1 DEF Change, findingVars, scanVars, SourceTypeOK
      <3>. QED  BY <3>1 DEF Behind
    <2>2. CASE Remove(i)
      <3>1. /\ UNCHANGED <<pc, todo, unread, batch, stored>> /\ gaps' = gaps \ {i}
            /\ \A k \in Items : stamp'[k] = IF k = i THEN 0 ELSE stamp[k]
        BY <2>2 DEF Remove, findingVars, scanVars, SourceTypeOK
      <3>. QED  BY <3>1
    <2>3. CASE Decide(i)
      BY <2>3 DEF Decide, contentVars, scanVars, historyVars
    <2>. QED  BY <1>2, <2>1, <2>2, <2>3
  <1>3. ASSUME NEW j \in Jobs, RowStep(j)
        PROVE  WalkAccounts'
    BY <1>3, RowStepTouches DEF contentVars, findingVars, scanVars, historyVars
  <1>4. ASSUME NEW j \in Jobs, OverStep(j)
        PROVE  WalkAccounts'
    <2>1. /\ \E p \in {"idle", "release"} : pc' = [pc EXCEPT ![j] = p]
          /\ NoLocals(j) /\ UNCHANGED <<contentVars, findingVars, gaps>>
      BY <1>4, OverStepTouches
    <2>. QED  BY <2>1 DEF SourceTypeOK, NoLocals, contentVars, findingVars
  <1>5. ASSUME NEW j \in Jobs, StoreStep(j)
        PROVE  WalkAccounts'
    <2>1. \A i \in Items : /\ stamp'[i] = stamp[i]
                           /\ Waiting(i)' => /\ Waiting(i) /\ (i \in gaps => i \in gaps')
                                             /\ batch[j][i] # stamp[i]
      BY <1>5, StoringCovers
    <2>2. \/ CommitBatch(j)
          \/ NoLocals(j) /\ pc' = [pc EXCEPT ![j] = "release"]
      BY <1>5, StoreStepTouches
    <2>. HIDE DEF Waiting
    <2>3. /\ \A k \in Jobs \ {j} : batch'[k] = batch[k] /\ todo'[k] = todo[k]
                                    /\ unread'[k] = unread[k] /\ pc'[k] = pc[k]
          /\ pc'[j] = "scan" => pc[j] = "scan" /\ todo'[j] = todo[j] /\ unread'[j] = unread[j]
      BY <2>2 DEF CommitBatch, NoLocals, SourceTypeOK
    <2>. QED  BY <2>1, <2>3
  <1>6. ASSUME NEW j \in Jobs, Load(j) \/ Acquire(j) \/ LockSweep(j)
        PROVE  WalkAccounts'
    BY <1>6
    DEF Load, Acquire, LockSweep, scanVars, contentVars, findingVars, historyVars, SourceTypeOK
  <1>7. ASSUME NEW j \in Jobs, Start(j)
        PROVE  WalkAccounts'
    BY <1>7 DEF Start, contentVars, findingVars, historyVars, SourceTypeOK
  <1>8. ASSUME NEW j \in Jobs, NEW i \in Items, VisitStep(j, i)
        PROVE  WalkAccounts'
    <2>1. /\ UNCHANGED <<stamp, stored, gaps, pc>> /\ todo' = [todo EXCEPT ![j] = @ \ {i}]
      BY <1>8, VisitStepTouches DEF contentVars, findingVars, historyVars
    <2>2. \/ unread' = unread /\ batch' = [batch EXCEPT ![j][i] = stamp[i]]
          \/ /\ batch' = batch /\ stamp[i] <= Base(j)
             /\ unread' = [unread EXCEPT ![j] = IF stamp[i] = 0 THEN @ \cup {i} ELSE @]
          \/ batch' = batch /\ unread' = [unread EXCEPT ![j] = @ \cup {i}]
      BY <1>8, VisitStepTouches
    <2>3. /\ \A k \in Jobs : unread[k] \subseteq unread'[k]
          /\ \A k \in Jobs, m \in Items : k # j \/ m # i => batch'[k][m] = batch[k][m]
      <3>1. batch' = batch \/ batch' = [batch EXCEPT ![j][i] = stamp[i]]
        BY <2>2
      <3>2. /\ unread' \in [Jobs -> SUBSET Items] /\ unread \in [Jobs -> SUBSET Items]
            /\ \A k \in Jobs : k # j => unread'[k] = unread[k]
            /\ unread[j] \subseteq unread'[j]
        BY <1>8, <2>2, VisitStepTouches DEF SourceTypeOK
      <3>3. \A k \in Jobs, m \in Items : k # j \/ m # i => batch'[k][m] = batch[k][m]
        BY <3>1 DEF SourceTypeOK
      <3>. QED  BY <3>2, <3>3
    <2>4. Waiting(i) => i \in gaps \/ i \in unread'[j] \/ batch'[j][i] = stamp[i]
      <3>1. CASE batch' = [batch EXCEPT ![j][i] = stamp[i]]
        BY <3>1 DEF SourceTypeOK
      <3>2. CASE stamp[i] <= Base(j)
        <4>1. stamp[i] > 0 => stamp[i] <= view[j].cursor
          BY <3>2, BoundsAssumption DEF Base, SourceTypeOK
        <4>. QED  BY <4>1 DEF CursorsCover, Covers
      <3>3. CASE unread' = [unread EXCEPT ![j] = @ \cup {i}]
        BY <3>3 DEF SourceTypeOK
      <3>. QED  BY <2>2, <3>1, <3>2, <3>3
    <2>5. \A k \in Jobs : todo'[k] = IF k = j THEN todo[j] \ {i} ELSE todo[k]
      BY <2>1 DEF SourceTypeOK
    <2>. QED  BY <2>1, <2>3, <2>4, <2>5
  <1>. QED  BY <1>1, <1>2, <1>3, <1>4, <1>5, <1>6, <1>7, <1>8, SourceSteps

LEMMA CursorsCoverStep ==
    ASSUME SourceIInv, [SourceNext]_sourceScanVars
    PROVE  CursorsCover'
  <1>. USE DEF SourceIInv, CursorsCover, Covers
  <1>1. CASE Still
    BY <1>1 DEF Still, Pass, sourceScanVars, contentVars, findingVars, scanVars, historyVars, Waiting
  <1>2. ASSUME NEW i \in Items, Change(i) \/ Remove(i) \/ Decide(i)
        PROVE  CursorsCover'
    <2>1. CASE Change(i)
      <3>1. /\ UNCHANGED <<cursor, view, stored>> /\ stamp'[i] = time + 1
            /\ \A k \in Items \ {i} : stamp'[k] = stamp[k] /\ (k \in gaps => k \in gaps')
        BY <2>1 DEF Change, findingVars, scanVars, SourceTypeOK
      <3>2. /\ time \in Nat /\ cursor \in Nat /\ \A j \in Jobs : view[j].cursor \in Nat
            /\ cursor <= time /\ \A j \in Jobs : view[j].cursor <= time
        BY BoundsAssumption DEF StampsPast, SourceTypeOK
      <3>3. ~(stamp'[i] <= cursor) /\ \A j \in Jobs : ~(stamp'[i] <= view[j].cursor)
        BY <3>1, <3>2
      <3>. QED  BY <3>1, <3>3 DEF Waiting
    <2>2. CASE Remove(i)
      <3>1. /\ UNCHANGED <<cursor, view, stored>> /\ gaps' = gaps \ {i}
            /\ \A k \in Items : stamp'[k] = IF k = i THEN 0 ELSE stamp[k]
        BY <2>2 DEF Remove, findingVars, scanVars, SourceTypeOK
      <3>. QED  BY <3>1 DEF Waiting
    <2>3. CASE Decide(i)
      BY <2>3 DEF Decide, contentVars, scanVars, historyVars, Waiting
    <2>. QED  BY <1>2, <2>1, <2>2, <2>3
  <1>3. ASSUME NEW j \in Jobs, RowStep(j)
        PROVE  CursorsCover'
    BY <1>3, RowStepTouches DEF contentVars, findingVars, scanVars, historyVars, Waiting
  <1>4. ASSUME NEW j \in Jobs, OverStep(j)
        PROVE  CursorsCover'
    <2>1. NoLocals(j) /\ UNCHANGED <<contentVars, findingVars, gaps, cursor>>
      BY <1>4, OverStepTouches
    <2>2. \A k \in Jobs : view'[k] = IF k = j THEN NoView ELSE view[k]
      BY <2>1 DEF NoLocals, SourceTypeOK
    <2>3. \A i \in Items : Waiting(i) => ~(stamp[i] <= NoView.cursor)
      BY BoundsAssumption DEF Waiting, NoView, SourceTypeOK
    <2>. QED  BY <2>1, <2>2, <2>3 DEF contentVars, findingVars, Waiting
  <1>5. ASSUME NEW j \in Jobs, StoreStep(j)
        PROVE  CursorsCover'
    <2>1. \A i \in Items : /\ stamp'[i] = stamp[i]
                           /\ Waiting(i)' => Waiting(i) /\ (i \in gaps => i \in gaps')
      BY <1>5, StoringCovers
    <2>2. \A k \in Jobs : view'[k] \in {view[k], NoView}
      <3>1. CommitBatch(j) \/ NoLocals(j)
        BY <1>5, StoreStepTouches
      <3>2. view' = view \/ view' = [view EXCEPT ![j] = NoView]
        BY <3>1 DEF CommitBatch, NoLocals
      <3>. QED  BY <3>2 DEF SourceTypeOK
    <2>3. \A i \in Items : Waiting(i) => ~(stamp[i] <= NoView.cursor)
      BY BoundsAssumption DEF Waiting, NoView, SourceTypeOK
    <2>4. cursor' = cursor \/ Finish(j)
      BY <1>5 DEF StoreStep, CommitBatch, Fail
    <2>5. Finish(j) => \A i \in Items : Waiting(i)' => i \in gaps'
      BY FinishCovers
    <2>. QED  BY <2>1, <2>2, <2>3, <2>4, <2>5
  <1>6. ASSUME NEW j \in Jobs, Load(j) \/ Acquire(j) \/ Start(j) \/ LockSweep(j)
        PROVE  CursorsCover'
    <2>1. UNCHANGED <<stamp, stored, gaps, cursor>>
      BY <1>6 DEF Load, Acquire, Start, LockSweep, contentVars, findingVars, historyVars
    <2>2. \A k \in Jobs : view'[k].cursor \in {view[k].cursor, cursor}
      BY <1>6, LoadedCursor
    <2>. QED  BY <2>1, <2>2 DEF Waiting
  <1>7. ASSUME NEW j \in Jobs, NEW i \in Items, VisitStep(j, i)
        PROVE  CursorsCover'
    BY <1>7, VisitStepTouches DEF contentVars, findingVars, historyVars, Waiting
  <1>. QED  BY <1>1, <1>2, <1>3, <1>4, <1>5, <1>6, <1>7, SourceSteps

-----------------------------------------------------------------------------
(* Theorems *)

THEOREM SourceIInvHolds == SourceSpec => []SourceIInv
  <1>1. SourceIInv /\ [SourceNext]_sourceScanVars => SourceIInv'
    BY SourceTypeStep, LockHeldStep, FullWalkStep, StampsPastStep, WalkAccountsStep,
       CursorsCoverStep
    DEF SourceIInv
  <1>. QED  BY SourceInitIInv, <1>1, PTL DEF SourceSpec

\* No way out of an execution leaves its session's work behind.
THEOREM SourceTypeCorrect == SourceSpec => []SourceTypeOK
  <1>1. SourceIInv => SourceTypeOK
    BY DEF SourceIInv
  <1>. QED  BY <1>1, SourceIInvHolds, PTL

\* Two executions work on the source only if the lock was swept under one of them.
THEOREM SourceIsScannedOnce == SourceSpec => []OneScanPerSource
  <1>1. SourceIInv => OneScanPerSource
    BY DEF SourceIInv, LockHeld, OneScanPerSource
  <1>. QED  BY <1>1, SourceIInvHolds, PTL

\* Through crashes, stale views and overlapping scans, the cursor passes no change
\* that is not stored, but those a walk was past already or could not read.
THEOREM CursorPassesNothing == SourceSpec => []CursorCovers
  <1>1. SourceIInv => CursorCovers
    BY DEF SourceIInv, CursorsCover, Covers, Waiting, CursorCovers
  <1>. QED  BY <1>1, SourceIInvHolds, PTL

\* verdict changes only where a person decides and where findings are stored.
LEMMA VerdictStep ==
    ASSUME SourceTypeOK, [SourceNext]_sourceScanVars, verdict' # verdict
    PROVE  \/ \E i \in Items : Decide(i)
           \/ \E j \in Jobs : StoreStep(j)
  <1>1. ASSUME NEW j \in Jobs, Load(j) \/ Acquire(j) \/ Start(j) \/ LockSweep(j)
        PROVE  verdict' = verdict
    BY <1>1 DEF Load, Acquire, Start, LockSweep, findingVars
  <1>2. ASSUME NEW i \in Items, Change(i) \/ Remove(i)
        PROVE  verdict' = verdict
    BY <1>2 DEF Change, Remove, findingVars
  <1>3. Still => verdict' = verdict
    BY DEF Still, Pass, sourceScanVars, findingVars
  <1>. QED
    BY <1>1, <1>2, <1>3, SourceSteps, RowStepTouches, OverStepTouches, VisitStepTouches
    DEF findingVars

\* What a step that stores findings does to a verdict.
LEMMA VerdictOfStore ==
    ASSUME SourceIInv, NEW j \in Jobs, StoreStep(j), NEW i \in Items
    PROVE  /\ verdict[i] = "decided" => verdict'[i] = "decided"
           /\ verdict'[i] = "deleted" /\ verdict[i] # "deleted" => full[j] /\ i \in unread[j]
  <1>1. /\ Found(j)[i] = IF verdict[i] = "none" /\ batch[j][i] > 0 THEN "open" ELSE verdict[i]
        /\ verdict' = Found(j) \/ Finish(j)
    BY DEF Found, StoreStep, CommitBatch, Fail
  <1>2. Finish(j) => verdict'[i] = IF i \in Tombstoned(j) THEN "deleted" ELSE Found(j)[i]
    BY DEF Finish
  <1>3. i \in Tombstoned(j) => Found(j)[i] = "open" /\ full[j] /\ i \notin seen[j]
    BY DEF Tombstoned
  <1>4. Finish(j) /\ full[j] => i \in seen[j] \cup unread[j]
    BY DEF Finish, SourceIInv, FullWalkAccounts
  <1>. QED  BY <1>1, <1>2, <1>3, <1>4

\* No scan takes back what a person decided.
THEOREM ScansKeepDecisions == SourceSpec => DecisionsKept
  <1>1. ASSUME SourceIInv, [SourceNext]_sourceScanVars, verdict' # verdict, NEW i \in Items,
               verdict[i] = "decided"
        PROVE  verdict'[i] = "decided"
    <2>1. ASSUME NEW k \in Items, Decide(k)
          PROVE  verdict'[i] = "decided"
      BY <1>1, <2>1 DEF Decide, SourceIInv, SourceTypeOK
    <2>. QED  BY <1>1, <2>1, VerdictStep, VerdictOfStore DEF SourceIInv
  <1>2. SourceIInv /\ [SourceNext]_sourceScanVars
          => [\A i \in Items : verdict[i] = "decided" => verdict'[i] = "decided"]_verdict
    BY <1>1
  <1>. QED  BY <1>2, SourceIInvHolds, PTL DEF SourceSpec, DecisionsKept

\* Only a full sweep that could not see an item resolves its finding.
THEOREM TombstonesHaveCause == SourceSpec => TombstoneHasCause
  <1>1. ASSUME SourceIInv, [SourceNext]_sourceScanVars, verdict' # verdict, NEW i \in Items,
               verdict'[i] = "deleted", verdict[i] # "deleted"
        PROVE  \E j \in Jobs : full[j] /\ i \in unread[j]
    <2>1. ~ \E k \in Items : Decide(k)
      BY <1>1 DEF Decide, SourceIInv, SourceTypeOK
    <2>. QED  BY <1>1, <2>1, VerdictStep, VerdictOfStore DEF SourceIInv
  <1>2. SourceIInv /\ [SourceNext]_sourceScanVars
          => [\A i \in Items : verdict'[i] = "deleted" /\ verdict[i] # "deleted"
                => \E j \in Jobs : full[j] /\ i \in unread[j]]_verdict
    BY <1>1
  <1>. QED  BY <1>2, SourceIInvHolds, PTL DEF SourceSpec, TombstoneHasCause

=============================================================================
