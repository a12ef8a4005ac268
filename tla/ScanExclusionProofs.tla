------------------------- MODULE ScanExclusionProofs -------------------------
(***************************************************************************)
(* Theorems about the scan lifecycle and its exclusion, for every number   *)
(* of scans, keys, worker processes and tokens, and for every setting of   *)
(* the thresholds: types first, then ExclusionInv, which is inductive; two *)
(* working executions without a lapse would own one lock value with one    *)
(* token.  Last, the gauge of the CPU slots, kept beside the lock, for any *)
(* number of walks.                                                        *)
(***************************************************************************)
EXTENDS ScanExclusion, ScanCpuSlots, FiniteSetTheorems, TLAPS

\* The token an acquisition draws is a token, and one nobody is using.
LEMMA FreshTokenIsFresh ==
    ASSUME Tokens \ UsedTokens # {}
    PROVE  FreshToken \in Tokens /\ FreshToken \notin UsedTokens
  <1>1. \E t \in Tokens : t \notin UsedTokens
    OBVIOUS
  <1>. QED  BY <1>1 DEF FreshToken

-----------------------------------------------------------------------------
(* Type correctness. *)

LEMMA InitTypeOK == Init => TypeOK
  BY KeyOfType, NullsDistinct, TimesNat
  DEF Init, TypeOK, RowStates, Statuses, Labels, BeforeLock, InTry, Working,
      OwnsToken, NoTokenYet, Requests

LEMMA ApiTypeOK ==
    ASSUME TypeOK, NEW j \in Jobs, Api(j)
    PROVE  TypeOK'
  <1>. USE TimesNat DEF TypeOK, RowStates, Statuses, Active, Requests, apiUnchanged, execVars,
           beatVars, rowVars, redisVars, CommitStatus
  <1>1. CASE Submit(j)  BY <1>1 DEF Submit
  <1>2. CASE SubmitCommit(j)  BY <1>2 DEF SubmitCommit
  <1>3. CASE SubmitAbort(j)  BY <1>3 DEF SubmitAbort, Incident
  <1>4. CASE Cancel(j)  BY <1>4, KeyOfType DEF Cancel, Incident, FreeLock
  <1>5. CASE CancelCommit(j)  BY <1>5 DEF CancelCommit
  <1>6. CASE Delete(j)  BY <1>6 DEF Delete, Incident
  <1>7. CASE DeleteCommit(j)  BY <1>7 DEF DeleteCommit
  <1>8. CASE RequestAbort(j)  BY <1>8 DEF RequestAbort, Incident
  <1>. QED  BY <1>1, <1>2, <1>3, <1>4, <1>5, <1>6, <1>7, <1>8 DEF Api
LEMMA BrokerTypeOK ==
    ASSUME TypeOK, NEW w \in Workers, Broker(w)
    PROVE  TypeOK'
  <1>. USE NullsDistinct, TimesNat
       DEF TypeOK, Labels, BeforeLock, InTry, Working, OwnsToken, NoTokenYet, At, Goto,
           Vanish, Incident, brokerUnchanged, execVars, beatVars, rowVars, redisVars
  <1>1. CASE \E j \in Jobs : Take(w, j)  BY <1>1 DEF Take
  <1>2. CASE Crash(w)  BY <1>2 DEF Crash
  <1>3. CASE DuplicateDelivery(w)  BY <1>3 DEF DuplicateDelivery
  <1>4. CASE HardLimit(w)  BY <1>4 DEF HardLimit
  <1>5. CASE RevokeHeard(w)  BY <1>5 DEF RevokeHeard
  <1>. QED  BY <1>1, <1>2, <1>3, <1>4, <1>5 DEF Broker

LEMMA ExecuteTypeOK ==
    ASSUME TypeOK, NEW w \in Workers, Execute(w)
    PROVE  TypeOK'
  <1>. USE NullsDistinct, TimesNat
       DEF TypeOK, RowStates, Statuses, Active, Labels, BeforeLock, InTry, Working, OwnsToken,
           NoTokenYet, At, Goto, workerUnchanged, phaseUnchanged, rowVars, redisVars, beatVars
  <1>1. CASE LoadMissing(w)  BY <1>1 DEF LoadMissing
  <1>2. CASE SkipDuplicate(w)  BY <1>2 DEF SkipDuplicate
  <1>3. CASE Load(w)  BY <1>3 DEF Load, Exists
  <1>4. CASE AcquireFree(w)  BY <1>4, FreshTokenIsFresh, KeyOfType DEF AcquireFree, SetLock, Key, LockValues
  <1>5. CASE AcquireBusy(w)  BY <1>5 DEF AcquireBusy
  <1>6. CASE Probe(w)  BY <1>6 DEF Probe
  <1>7. CASE Retake(w)  BY <1>7, FreshTokenIsFresh, KeyOfType DEF Retake, SetLock, Key, LockValues
  <1>8. CASE Coalesce(w)  BY <1>8 DEF Coalesce, CommitStatus, OrmStatus
  <1>9. CASE Start(w)  BY <1>9 DEF Start, CommitPhase, OrmStatus
  <1>10. CASE Progress(w)  BY <1>10 DEF Progress, CommitPhase, OrmStatus
  <1>11. CASE NoContent(w)  BY <1>11 DEF NoContent, CommitStatus, OrmStatus
  <1>12. CASE StartTriage(w)  BY <1>12 DEF StartTriage, EndPhase, CommitPhase
  <1>13. CASE SkipTriage(w)  BY <1>13 DEF SkipTriage
  <1>14. CASE TriageProgress(w)  BY <1>14 DEF TriageProgress, CommitPhase, OrmStatus
  <1>15. CASE TriageDone(w)  BY <1>15 DEF TriageDone, CommitPhase
  <1>16. CASE FinalCheck(w)  BY <1>16 DEF FinalCheck
  <1>17. CASE Complete(w)  BY <1>17 DEF Complete, EndPhase, CommitPhase
  <1>18. CASE Raise(w)  BY <1>18 DEF Raise, Incident
  <1>19. CASE RaiseDeleted(w)  BY <1>19 DEF RaiseDeleted
  <1>20. CASE FailOwnSession(w)  BY <1>20 DEF FailOwnSession, CommitStatus, OrmStatus
  <1>21. CASE ForceRead(w)  BY <1>21 DEF ForceRead, AfterForce
  <1>22. CASE ForceStamp(w)  BY <1>22 DEF ForceStamp, CommitStatus, OrmStatus, AfterForce
  <1>23. CASE Release(w)  BY <1>23, KeyOfType DEF Release, Incident, FreeLock, Key
  <1>24. CASE Ack(w)  BY <1>24 DEF Ack, Vanish
  <1>. QED  BY <1>1, <1>2, <1>3, <1>4, <1>5, <1>6, <1>7, <1>8, <1>9, <1>10, <1>11, <1>12, <1>13, <1>14, <1>15, <1>16, <1>17, <1>18, <1>19, <1>20, <1>21, <1>22, <1>23, <1>24 DEF Execute

LEMMA BeatTypeOK == TypeOK /\ Beat => TypeOK'
  <1>. SUFFICES ASSUME TypeOK, Beat PROVE TypeOK'
    OBVIOUS
  <1>. USE TimesNat DEF TypeOK, beatUnchanged, execVars, rowVars, redisVars
  <1>1. CASE WatchdogSelect  BY <1>1 DEF WatchdogSelect
  <1>2. CASE WatchdogCommit  BY <1>2 DEF WatchdogCommit, RowStates, Statuses
  <1>3. CASE \E k \in Keys : SweepRead(k)  BY <1>3 DEF SweepRead
  <1>4. CASE \E k \in Keys : SweepRelease(k)  BY <1>4 DEF SweepRelease, FreeLock
  <1>. QED  BY <1>1, <1>2, <1>3, <1>4 DEF Beat

LEMMA TickTypeOK == TypeOK /\ Tick => TypeOK'
  BY TimesNat DEF TypeOK, Tick, UpTo, At, beatVars

LEMMA NextTypeOK ==
    ASSUME TypeOK, [Next]_vars
    PROVE  TypeOK'
  <1>1. CASE \E j \in Jobs : Api(j)  BY <1>1, ApiTypeOK
  <1>2. CASE \E w \in Workers : Broker(w)  BY <1>2, BrokerTypeOK
  <1>3. CASE \E w \in Workers : Execute(w)  BY <1>3, ExecuteTypeOK
  <1>4. CASE Beat  BY <1>4, BeatTypeOK
  <1>5. CASE Tick  BY <1>5, TickTypeOK
  <1>6. CASE UNCHANGED vars
    BY <1>6 DEF vars, rowVars, execVars, redisVars, beatVars, TypeOK
  <1>. QED  BY <1>1, <1>2, <1>3, <1>4, <1>5, <1>6 DEF Next

\* Every reachable state is well typed: in particular a process holds a lock
\* token exactly from acquiring the scan lock to leaving its finally block.
THEOREM TypeCorrect == Spec => []TypeOK
  BY InitTypeOK, NextTypeOK, PTL DEF Spec


-----------------------------------------------------------------------------

(* Tokens. *)

LEMMA TokensStep ==
    ASSUME TypeOK, TokensUnique, [Next]_vars
    PROVE  TokensUnique'
  <1>. USE NullsDistinct, KeyOfType
       DEF TypeOK, TokensUnique, Key, PayloadOf, LockValues
  <1>1. ASSUME NEW j \in Jobs, Api(j) PROVE TokensUnique'
    BY <1>1 DEF Api, Submit, SubmitCommit, SubmitAbort, Cancel, CancelCommit, Delete,
                DeleteCommit, RequestAbort, FreeLock, apiUnchanged, execVars, redisVars, beatVars
  <1>2. ASSUME NEW w \in Workers, Broker(w) PROVE TokensUnique'
    <2>. USE DEF brokerUnchanged, redisVars, beatVars
    <2>1. CASE \E j \in Jobs : Take(w, j)
      <3>. PICK j \in Jobs : Take(w, j)
        BY <2>1
      <3>1. tok[w] = NoToken
        BY DEF Take, At, NoTokenYet
      <3>. QED  BY <3>1 DEF Take
    <2>2. CASE Vanish(w) /\ UNCHANGED <<lock, sweep>>
      BY <2>2 DEF Vanish
    <2>3. CASE DuplicateDelivery(w)
      BY <2>3 DEF DuplicateDelivery, execVars
    <2>. QED  BY <1>2, <2>1, <2>2, <2>3 DEF Broker, Crash, HardLimit, RevokeHeard
  <1>3. ASSUME NEW w \in Workers, Execute(w) PROVE TokensUnique'
    <2>1. CASE AcquireFree(w) \/ Retake(w)
      <3>. DEFINE t == FreshToken
                  k == KeyOf[job[w]]
      <3>1. t \in Tokens /\ t \notin UsedTokens
        BY <2>1, FreshTokenIsFresh DEF AcquireFree, Retake
      <3>2. job[w] \in Jobs /\ k \in Keys
        BY <2>1 DEF AcquireFree, Retake, At
      <3>3. /\ tok'   = [tok EXCEPT ![w] = t]
            /\ lock'  = [lock EXCEPT ![k] = [holder |-> job[w], token |-> t]]
            /\ UNCHANGED <<job, sweep>>
        BY <2>1 DEF AcquireFree, Retake, SetLock, workerUnchanged, beatVars
      <3>4. /\ \A v \in Workers : tok[v] # t
            /\ \A x \in Keys : lock[x] # NoLock => lock[x].token # t
            /\ \A x \in Keys : sweep[x] # NoLock => sweep[x].token # t
        BY <3>1 DEF UsedTokens
      <3>. HIDE DEF t, k
      <3>5. ASSUME NEW v \in Workers, NEW u \in Workers, v # u, tok'[v] # NoToken
            PROVE  tok'[v] # tok'[u]
        BY <3>1, <3>3, <3>4, <3>5
      <3>6. ASSUME NEW v \in Workers, NEW x \in Keys, lock'[x] # NoLock, lock'[x].token = tok'[v]
            PROVE  x = KeyOf[job[v]] /\ lock'[x] = [holder |-> job[v], token |-> tok'[v]]
        <4>1. CASE x = k /\ v = w  BY <4>1, <3>2, <3>3 DEF k
        <4>2. CASE x # k /\ v # w  BY <4>2, <3>3, <3>6
        <4>3. CASE (x = k /\ v # w) \/ (x # k /\ v = w)  BY <4>3, <3>2, <3>3, <3>4, <3>6
        <4>. QED  BY <4>1, <4>2, <4>3
      <3>7. ASSUME NEW v \in Workers, NEW x \in Keys, sweep'[x] # NoLock, sweep'[x].token = tok'[v]
            PROVE  x = KeyOf[job[v]] /\ sweep'[x] = [holder |-> job[v], token |-> tok'[v]]
        BY <3>3, <3>4, <3>7
      <3>. QED  BY <3>3, <3>5, <3>6, <3>7
    <2>2. CASE Release(w)
      BY <2>2 DEF Release, FreeLock, workerUnchanged, redisVars, beatVars, At, Goto
    <2>3. CASE Ack(w)
      BY <2>3 DEF Ack, Vanish, redisVars, beatVars, At, NoTokenYet
    <2>4. CASE UNCHANGED <<job, tok, lock, sweep>>
      BY <2>4
    <2>. QED
      BY <1>3, <2>1, <2>2, <2>3, <2>4
      DEF Execute, LoadMissing, SkipDuplicate, Load, AcquireBusy, Probe, Coalesce, Start,
          Progress, NoContent, StartTriage, SkipTriage, TriageProgress, TriageDone, FinalCheck,
          Complete, EndPhase, Raise, RaiseDeleted, FailOwnSession, ForceRead, ForceStamp,
          workerUnchanged, phaseUnchanged, redisVars, beatVars
  <1>4. CASE Beat
    <2>. USE DEF beatUnchanged, execVars, redisVars
    <2>1. CASE WatchdogSelect
      BY <2>1 DEF WatchdogSelect
    <2>2. CASE WatchdogCommit
      BY <2>2 DEF WatchdogCommit
    <2>3. CASE \E k \in Keys : SweepRead(k)
      BY <2>3 DEF SweepRead
    <2>4. CASE \E k \in Keys : SweepRelease(k)
      BY <2>4 DEF SweepRelease, FreeLock
    <2>. QED  BY <1>4, <2>1, <2>2, <2>3, <2>4 DEF Beat
  <1>5. CASE Tick
    BY <1>5 DEF Tick, beatVars
  <1>6. CASE UNCHANGED vars
    BY <1>6 DEF vars, execVars, redisVars, beatVars
  <1>. QED  BY <1>1, <1>2, <1>3, <1>4, <1>5, <1>6 DEF Next

-----------------------------------------------------------------------------
(* The row leaves PENDING for good when its first execution starts. *)

LEMMA PendingStep ==
    ASSUME TypeOK, PendingIsFirst, [Next]_vars
    PROVE  PendingIsFirst'
  <1>. USE DEF TypeOK, PendingIsFirst, PreStart, Working
  <1>1. ASSUME NEW j \in Jobs, Api(j) PROVE PendingIsFirst'
    <2>. USE DEF apiUnchanged, execVars, rowVars, CommitStatus
    <2>1. CASE Submit(j)  BY <2>1 DEF Submit
    <2>2. CASE SubmitCommit(j)  BY <2>2 DEF SubmitCommit
    <2>3. CASE SubmitAbort(j)  BY <2>3 DEF SubmitAbort
    <2>4. CASE Cancel(j)  BY <2>4 DEF Cancel
    <2>5. CASE CancelCommit(j)  BY <2>5 DEF CancelCommit
    <2>6. CASE Delete(j)  BY <2>6 DEF Delete
    <2>7. CASE DeleteCommit(j)  BY <2>7 DEF DeleteCommit
    <2>8. CASE RequestAbort(j)  BY <2>8 DEF RequestAbort
    <2>. QED  BY <1>1, <2>1, <2>2, <2>3, <2>4, <2>5, <2>6, <2>7, <2>8 DEF Api
  <1>2. ASSUME NEW w \in Workers, Broker(w) PROVE PendingIsFirst'
    <2>. USE DEF brokerUnchanged, rowVars
    <2>1. CASE \E j \in Jobs : Take(w, j)  BY <2>1 DEF Take, Goto
    <2>2. CASE Crash(w)  BY <2>2 DEF Crash, Vanish
    <2>3. CASE HardLimit(w)  BY <2>3 DEF HardLimit, Vanish
    <2>4. CASE RevokeHeard(w)  BY <2>4 DEF RevokeHeard, Vanish
    <2>5. CASE DuplicateDelivery(w)  BY <2>5 DEF DuplicateDelivery, execVars
    <2>. QED  BY <1>2, <2>1, <2>2, <2>3, <2>4, <2>5 DEF Broker
  <1>3. ASSUME NEW w \in Workers, Execute(w) PROVE PendingIsFirst'
    <2>. USE DEF At, Goto, workerUnchanged, phaseUnchanged, rowVars, CommitStatus, CommitPhase, OrmStatus, Exists, Statuses
    <2>1. CASE LoadMissing(w) \/ SkipDuplicate(w)  BY <2>1 DEF LoadMissing, SkipDuplicate
    <2>2. CASE Load(w)  BY <2>2 DEF Load
    <2>3. CASE AcquireFree(w) \/ Retake(w)  BY <2>3 DEF AcquireFree, Retake
    <2>4. CASE AcquireBusy(w) \/ Probe(w)  BY <2>4 DEF AcquireBusy, Probe
    <2>5. CASE Coalesce(w)  BY <2>5 DEF Coalesce
    <2>6. CASE Start(w)  BY <2>6 DEF Start
    <2>7. CASE Progress(w) \/ NoContent(w)  BY <2>7 DEF Progress, NoContent
    <2>8. CASE StartTriage(w) \/ SkipTriage(w)  BY <2>8 DEF StartTriage, SkipTriage, EndPhase
    <2>9. CASE TriageProgress(w)  BY <2>9 DEF TriageProgress
    <2>10. CASE TriageDone(w) \/ Complete(w)  BY <2>10 DEF TriageDone, Complete, EndPhase
    <2>11. CASE FinalCheck(w)  BY <2>11 DEF FinalCheck
    <2>12. CASE Raise(w) \/ RaiseDeleted(w)  BY <2>12 DEF Raise, RaiseDeleted
    <2>13. CASE FailOwnSession(w)  BY <2>13 DEF FailOwnSession
    <2>14. CASE ForceRead(w)  BY <2>14 DEF ForceRead, AfterForce
    <2>15. CASE ForceStamp(w)  BY <2>15 DEF ForceStamp, AfterForce
    <2>16. CASE Release(w)  BY <2>16 DEF Release
    <2>17. CASE Ack(w)  BY <2>17 DEF Ack, Vanish
    <2>. QED  BY <1>3, <2>1, <2>2, <2>3, <2>4, <2>5, <2>6, <2>7, <2>8, <2>9, <2>10, <2>11,
                 <2>12, <2>13, <2>14, <2>15, <2>16, <2>17 DEF Execute
  <1>4. CASE Beat
    BY <1>4 DEF Beat, WatchdogSelect, WatchdogCommit, SweepRead, SweepRelease, Exists, Statuses,
                beatUnchanged, execVars, rowVars
  <1>5. CASE Tick
    BY <1>5 DEF Tick
  <1>6. CASE UNCHANGED vars
    BY <1>6 DEF vars, rowVars, execVars
  <1>. QED  BY <1>1, <1>2, <1>3, <1>4, <1>5, <1>6 DEF Next

-----------------------------------------------------------------------------
(* What a step of the lifecycle can do to an execution. *)

\* The try block is entered by the two ways to acquire.
LEMMA EnterByLock ==
    ASSUME TypeOK, [Next]_vars, NEW w \in Workers, pc[w] \notin InTry, pc'[w] \in InTry
    PROVE  AcquireFree(w) \/ Retake(w)
  <1>. USE DEF TypeOK, InTry, Working, Acquiring
  <1>1. ASSUME NEW j \in Jobs, Api(j) PROVE FALSE
    BY <1>1 DEF Api, Submit, SubmitCommit, SubmitAbort, Cancel, CancelCommit, Delete,
                DeleteCommit, RequestAbort, apiUnchanged, execVars
  <1>2. ASSUME NEW v \in Workers, Broker(v) PROVE FALSE
    BY <1>2 DEF Broker, Take, Crash, DuplicateDelivery, HardLimit, RevokeHeard, Vanish,
                Goto, execVars
  <1>3. ASSUME NEW v \in Workers, Execute(v)
        PROVE  v = w /\ (AcquireFree(v) \/ Retake(v))
    BY <1>3 DEF Execute, LoadMissing, SkipDuplicate, Load, AcquireFree, AcquireBusy, Probe, Retake,
          Coalesce, Start, Progress, NoContent, StartTriage, SkipTriage, TriageProgress, TriageDone,
          FinalCheck, Complete, EndPhase, Raise, RaiseDeleted, FailOwnSession, ForceRead, ForceStamp,
          AfterForce, Release, Ack, Vanish, At, Goto
  <1>4. ~Beat /\ ~Tick /\ ~UNCHANGED vars
    BY DEF Beat, WatchdogSelect, WatchdogCommit, SweepRead, SweepRelease, beatUnchanged, Tick,
           vars, execVars
  <1>. QED  BY <1>1, <1>2, <1>3, <1>4 DEF Next

\* ... with the lock just written.
LEMMA EnterTry ==
    ASSUME TypeOK, [Next]_vars, NEW w \in Workers, pc[w] \notin InTry, pc'[w] \in InTry
    PROVE  Owns(w)' /\ pc'[w] = "start"
  <1>1. AcquireFree(w) \/ Retake(w)
    BY EnterByLock
  <1>2. job[w] \in Jobs /\ KeyOf[job[w]] \in Keys
    BY <1>1, KeyOfType DEF AcquireFree, Retake, At, TypeOK
  <1>3. /\ pc' = [pc EXCEPT ![w] = "start"] /\ job' = job
        /\ tok' = [tok EXCEPT ![w] = FreshToken]
        /\ lock' = [lock EXCEPT ![KeyOf[job[w]]] = [holder |-> job[w], token |-> FreshToken]]
    BY <1>1 DEF AcquireFree, Retake, SetLock, Goto, Key, workerUnchanged
  <1>. QED  BY <1>2, <1>3 DEF Owns, Key, PayloadOf, TypeOK

\* Only Load lets a delivery past the duplicate guard.
LEMMA EnterAcquiring ==
    ASSUME TypeOK, [Next]_vars, NEW w \in Workers, pc[w] \notin Acquiring, pc'[w] \in Acquiring
    PROVE  Load(w)
  <1>. USE DEF TypeOK, InTry, Working, Acquiring
  <1>1. ASSUME NEW j \in Jobs, Api(j) PROVE FALSE
    BY <1>1 DEF Api, Submit, SubmitCommit, SubmitAbort, Cancel, CancelCommit, Delete,
                DeleteCommit, RequestAbort, apiUnchanged, execVars
  <1>2. ASSUME NEW v \in Workers, Broker(v) PROVE FALSE
    BY <1>2 DEF Broker, Take, Crash, DuplicateDelivery, HardLimit, RevokeHeard, Vanish,
                Goto, execVars
  <1>3. ASSUME NEW v \in Workers, Execute(v)
        PROVE  v = w /\ Load(v)
    BY <1>3 DEF Execute, LoadMissing, SkipDuplicate, Load, AcquireFree, AcquireBusy, Probe, Retake,
          Coalesce, Start, Progress, NoContent, StartTriage, SkipTriage, TriageProgress, TriageDone,
          FinalCheck, Complete, EndPhase, Raise, RaiseDeleted, FailOwnSession, ForceRead, ForceStamp,
          AfterForce, Release, Ack, Vanish, At, Goto
  <1>4. ~Beat /\ ~Tick /\ ~UNCHANGED vars
    BY DEF Beat, WatchdogSelect, WatchdogCommit, SweepRead, SweepRelease, beatUnchanged, Tick,
           vars, execVars
  <1>. QED  BY <1>1, <1>2, <1>3, <1>4 DEF Next

\* While it goes on, an execution keeps its scan, and its token once it has one.
LEMMA KeepsIdentity ==
    ASSUME TypeOK, [Next]_vars, NEW w \in Workers, pc[w] # "idle", pc'[w] # "idle"
    PROVE  /\ job'[w] = job[w]
           /\ pc[w] \in InTry /\ pc'[w] \in InTry => tok'[w] = tok[w]
  <1>. USE DEF TypeOK, InTry, Working
  <1>1. ASSUME NEW j \in Jobs, Api(j) PROVE UNCHANGED <<job, tok>>
    BY <1>1 DEF Api, Submit, SubmitCommit, SubmitAbort, Cancel, CancelCommit, Delete,
                DeleteCommit, RequestAbort, apiUnchanged, execVars
  <1>2. ASSUME NEW v \in Workers, Broker(v) PROVE job'[w] = job[w] /\ tok'[w] = tok[w]
    BY <1>2 DEF Broker, Take, Crash, DuplicateDelivery, HardLimit, RevokeHeard, Vanish,
                At, Goto, execVars
  <1>3. ASSUME NEW v \in Workers, Execute(v)
        PROVE  job'[w] = job[w] /\ (pc[w] \in InTry /\ pc'[w] \in InTry => tok'[w] = tok[w])
    BY <1>3 DEF Execute, LoadMissing, SkipDuplicate, Load, AcquireFree, AcquireBusy, Probe, Retake,
          Coalesce, Start, Progress, NoContent, StartTriage, SkipTriage, TriageProgress, TriageDone,
          FinalCheck, Complete, EndPhase, Raise, RaiseDeleted, FailOwnSession, ForceRead, ForceStamp,
          AfterForce, Release, Ack, Vanish, At, Goto, SetLock, workerUnchanged, phaseUnchanged
  <1>4. CASE Beat \/ Tick \/ UNCHANGED vars
    BY <1>4 DEF Beat, WatchdogSelect, WatchdogCommit, SweepRead, SweepRelease, beatUnchanged, Tick,
           vars, execVars
  <1>. QED  BY <1>1, <1>2, <1>3, <1>4 DEF Next

\* The five ways to lose the lock from inside the try block.
LEMMA LosesLock ==
    ASSUME TypeOK, TokensUnique, [Next]_vars, NEW w \in Workers, Owns(w), pc'[w] \in InTry
    PROVE  \/ Owns(w)'
           \/ Evicted(w)
           \/ sweep[Key(w)] = PayloadOf(w)
           \/ \E v \in Workers \ {w} : Retake(v) /\ Key(v) = Key(w)
  <1>. USE NullsDistinct, KeyOfType DEF TypeOK, Key, PayloadOf, LockValues
  <1>1. job'[w] = job[w] /\ tok'[w] = tok[w] /\ tok[w] \in Tokens /\ job[w] \in Jobs
    BY KeepsIdentity DEF Owns, InTry, Working, OwnsToken
  <1>2. CASE lock'[Key(w)] = lock[Key(w)]
    BY <1>1, <1>2 DEF Owns
  <1>3. CASE lock'[Key(w)] # lock[Key(w)]
    <2>1. ASSUME NEW j \in Jobs, Api(j) PROVE Evicted(w)
      BY <1>1, <1>3, <2>1 DEF Api, Submit, SubmitCommit, SubmitAbort, Cancel, CancelCommit, Delete,
                  DeleteCommit, RequestAbort, FreeLock, Evicted, redisVars
    <2>2. ASSUME NEW v \in Workers, Broker(v) PROVE FALSE
      BY <1>3, <2>2 DEF Broker, Take, Crash, DuplicateDelivery, HardLimit, RevokeHeard,
                        brokerUnchanged, redisVars
    <2>3. ASSUME NEW v \in Workers, Execute(v)
          PROVE  \/ AcquireFree(v)
                 \/ Retake(v)
                 \/ Release(v)
      BY <1>3, <2>3 DEF Execute, LoadMissing, SkipDuplicate, Load, AcquireBusy, Probe,
          Coalesce, Start, Progress, NoContent, StartTriage, SkipTriage, TriageProgress, TriageDone,
          FinalCheck, Complete, EndPhase, Raise, RaiseDeleted, FailOwnSession, ForceRead, ForceStamp,
          Ack, workerUnchanged, phaseUnchanged, redisVars
    <2>4. ASSUME NEW v \in Workers, AcquireFree(v) PROVE FALSE
      BY <1>1, <1>3, <2>4 DEF AcquireFree, SetLock, Owns
    <2>5. ASSUME NEW v \in Workers, Retake(v) PROVE v # w /\ Key(v) = Key(w)
      BY <1>1, <1>3, <2>5 DEF Retake, SetLock, Owns, At, InTry, Working
    <2>6. ASSUME NEW v \in Workers, Release(v) PROVE FALSE
      <3>1. v # w /\ lock[Key(v)] = PayloadOf(v) /\ Key(v) = Key(w)
        BY <1>1, <1>3, <2>6 DEF Release, FreeLock, Owns, InTry, Working, redisVars
      <3>. QED  BY <1>1, <3>1 DEF Owns, TokensUnique
    <2>7. CASE Beat
      BY <1>1, <1>3, <2>7 DEF Beat, WatchdogSelect, WatchdogCommit, SweepRead, SweepRelease, FreeLock,
                              Owns, redisVars
    <2>8. CASE Tick
      BY <1>1, <1>3, <2>8 DEF Tick, Evicted
    <2>9. CASE UNCHANGED vars
      BY <1>3, <2>9 DEF vars, redisVars
    <2>. QED  BY <2>1, <2>2, <2>3, <2>4, <2>5, <2>6, <2>7, <2>8, <2>9 DEF Next
  <1>. QED  BY <1>2, <1>3

-----------------------------------------------------------------------------
(* The history variable remembers every lapse until firm ground is reached. *)

LEMMA Noted ==
    ASSUME Note, NEW w \in Workers, pc'[w] \in Tracked, ~FirmGround(w)',
           w \in excused \/ Lapsed(w)' \/ Together(w)' \/ Evicted(w) \/ Robs(w) \/ Robbed(w)
    PROVE  w \in excused'
  BY DEF Note

LEMMA LapseStep ==
    ASSUME Note
    PROVE  LapseIsNoted'
  <1>. SUFFICES ASSUME NEW w \in Workers, pc'[w] \in InTry, Lapsed(w)' \/ Together(w)'
                PROVE  w \in excused'
    BY DEF LapseIsNoted
  <1>. QED  BY Noted DEF FirmGround, Tracked

\* A second delivery passes the guard only if the row no longer looks alive,
\* or the first has not marked it RUNNING yet.
LEMMA RivalStep ==
    ASSUME TypeOK, PendingIsFirst, RivalledIsExcused, [Next]_vars, Note
    PROVE  RivalledIsExcused'
  <1>. SUFFICES ASSUME NEW v \in Workers, NEW w \in Workers, v # w,
                       pc'[v] \in Acquiring, pc'[w] \in InTry, job'[v] = job'[w]
                PROVE  w \in excused'
    BY DEF RivalledIsExcused
  <1>1. pc'[w] \in Tracked /\ ~FirmGround(w)'
    BY DEF FirmGround, Acquiring, PreStart, Tracked
  <1>2. ASSUME pc[v] \in Acquiring, pc[w] \in InTry
        PROVE  w \in excused
    <2>1. job'[v] = job[v] /\ job'[w] = job[w]
      BY <1>2, KeepsIdentity DEF Acquiring, InTry, Working
    <2>. QED  BY <1>2, <2>1 DEF RivalledIsExcused
  <1>3. ASSUME pc[w] \notin InTry
        PROVE  Together(w)'
    <2>1. pc'[w] = "start"
      BY <1>3, EnterTry
    <2>. QED  BY <2>1 DEF Together, PreStart, Acquiring
  <1>4. ASSUME pc[v] \notin Acquiring, pc[w] \in InTry
        PROVE  Lapsed(w)' \/ Together(w)'
    <2>1. Load(v)
      BY <1>4, EnterAcquiring
    <2>2. /\ UNCHANGED <<status, silence, job>>
          /\ pc'[w] = pc[w]
          /\ Exists(job[v]) /\ ~IsDuplicateLiveExecution(job[v])
      BY <2>1 DEF Load, Goto, rowVars, workerUnchanged, TypeOK
    <2>3. CASE pc[w] = "start"
      BY <2>2, <2>3 DEF Together, PreStart, Acquiring
    <2>4. CASE pc[w] \in Working
      <3>1. job[w] = job[v] /\ status[job[w]] # "PENDING"
        BY <2>2, <2>4 DEF PendingIsFirst
      <3>2. job[w] \in Jobs
        BY <2>4 DEF TypeOK, Working
      <3>3. status[job[w]] \notin Active \/ silence[job[w]] >= StallThreshold
        BY <2>2, <3>1, <3>2, TimesNat DEF IsDuplicateLiveExecution, Active, TypeOK
      <3>. QED  BY <1>4, <2>2, <3>3 DEF Lapsed
    <2>. QED  BY <1>4, <2>3, <2>4 DEF InTry
  <1>. QED  BY <1>1, <1>2, <1>3, <1>4, Noted

\* Only SweepRead puts a value in the sweeper's hands.
LEMMA SweepChange ==
    ASSUME TypeOK, [Next]_vars, NEW k \in Keys, sweep'[k] # sweep[k], sweep'[k] # NoLock
    PROVE  SweepRead(k)
  <1>. USE DEF TypeOK
  <1>1. ASSUME NEW j \in Jobs, Api(j) PROVE FALSE
    BY <1>1 DEF Api, Submit, SubmitCommit, SubmitAbort, Cancel, CancelCommit, Delete,
                DeleteCommit, RequestAbort, apiUnchanged, beatVars
  <1>2. ASSUME NEW v \in Workers, Broker(v) PROVE FALSE
    BY <1>2 DEF Broker, Take, Crash, DuplicateDelivery, HardLimit, RevokeHeard,
                brokerUnchanged, beatVars
  <1>3. ASSUME NEW v \in Workers, Execute(v) PROVE FALSE
    BY <1>3 DEF Execute, LoadMissing, SkipDuplicate, Load, AcquireFree, AcquireBusy, Probe, Retake,
          Coalesce, Start, Progress, NoContent, StartTriage, SkipTriage, TriageProgress, TriageDone,
          FinalCheck, Complete, EndPhase, Raise, RaiseDeleted, FailOwnSession, ForceRead, ForceStamp,
          Release, Ack, workerUnchanged, phaseUnchanged, beatVars
  <1>4. CASE Beat
    BY <1>4 DEF Beat, WatchdogSelect, WatchdogCommit, SweepRead, SweepRelease
  <1>5. CASE Tick \/ UNCHANGED vars
    BY <1>5 DEF Tick, vars, beatVars
  <1>. QED  BY <1>1, <1>2, <1>3, <1>4, <1>5 DEF Next

\* The token drawn on entry is unknown to the sweeper.
LEMMA EntersUnswept ==
    ASSUME TypeOK, [Next]_vars, NEW w \in Workers, pc[w] \notin InTry, pc'[w] \in InTry,
           NEW k \in Keys, sweep'[k] # NoLock
    PROVE  sweep'[k] # PayloadOf(w)'
  <1>1. AcquireFree(w) \/ Retake(w)
    BY EnterByLock
  <1>2. FreshToken \notin UsedTokens /\ tok'[w] = FreshToken /\ sweep' = sweep
    BY <1>1, FreshTokenIsFresh DEF AcquireFree, Retake, SetLock, TypeOK, workerUnchanged, beatVars
  <1>3. sweep[k].token # tok'[w]
    BY <1>2 DEF UsedTokens
  <1>. QED  BY <1>2, <1>3 DEF PayloadOf

\* The sweeper picks a lock only when the row of the execution that wrote it
\* has lapsed, and that execution is remembered until the sweeper lets go.
LEMMA SweepStep ==
    ASSUME TypeOK, TokensUnique, LapseIsNoted, SweptIsExcused, [Next]_vars, Note, TypeOK'
    PROVE  SweptIsExcused'
  <1>. SUFFICES ASSUME NEW w \in Workers, pc'[w] \in InTry, sweep'[Key(w)'] = PayloadOf(w)'
                PROVE  w \in excused'
    BY DEF SweptIsExcused
  <1>. DEFINE k == Key(w)'
  <1>1. job'[w] \in Jobs /\ tok'[w] \in Tokens /\ k \in Keys
    BY KeyOfType DEF TypeOK, InTry, Working, OwnsToken, Key
  <1>2. sweep'[k] \in LockValues /\ sweep'[k] # NoLock
    BY <1>1, NullsDistinct DEF PayloadOf, LockValues
  <1>3. pc'[w] \in Tracked /\ ~FirmGround(w)'
    BY DEF FirmGround, Owns, Tracked
  <1>4. CASE pc[w] \in InTry
    <2>1. job'[w] = job[w] /\ tok'[w] = tok[w] /\ k = Key(w) /\ PayloadOf(w)' = PayloadOf(w)
      BY <1>4, KeepsIdentity DEF InTry, Working, Key, PayloadOf
    <2>2. CASE sweep'[k] = sweep[k]
      BY <1>3, <1>4, <2>1, <2>2, Noted DEF SweptIsExcused
    <2>3. CASE sweep'[k] # sweep[k]
      <3>1. SweepRead(k)
        BY <1>1, <1>2, <2>3, SweepChange
      <3>2. lock[k] = PayloadOf(w) /\ UNCHANGED <<status, silence, pc, job>>
        BY <1>1, <2>1, <3>1 DEF SweepRead, TypeOK, rowVars, beatUnchanged, execVars
      <3>3. status[job[w]] \notin Active \/ silence[job[w]] >= StallThreshold
        BY <1>1, <2>1, <3>1, <3>2, TimesNat
        DEF SweepRead, IsLockReleasable, PayloadOf, Exists, Terminal, Active, Statuses, Silent, TypeOK
      <3>4. Lapsed(w)'
        BY <1>4, <3>2, <3>3 DEF Lapsed
      <3>. QED  BY <1>3, <3>4, Noted
    <2>. QED  BY <2>2, <2>3
  <1>5. CASE pc[w] \notin InTry
    BY <1>1, <1>2, <1>5, EntersUnswept
  <1>. QED  BY <1>4, <1>5

\* Inside the try block, an execution owns its lock or has an excuse.
LEMMA OwnerStep ==
    ASSUME TypeOK, TokensUnique, OwnerOrExcused, SweptIsExcused, RivalledIsExcused,
           [Next]_vars, Note
    PROVE  OwnerOrExcused'
  <1>. SUFFICES ASSUME NEW w \in Workers, pc'[w] \in InTry, ~Owns(w)'
                PROVE  w \in excused'
    BY DEF OwnerOrExcused
  <1>1. pc[w] \in InTry
    BY EnterTry
  <1>2. pc'[w] \in Tracked /\ ~FirmGround(w)'
    BY DEF FirmGround, Tracked
  <1>3. CASE ~Owns(w)
    BY <1>1, <1>2, <1>3, Noted DEF OwnerOrExcused
  <1>4. CASE Owns(w)
    <2>1. CASE Evicted(w)
      BY <1>2, <2>1, Noted
    <2>2. CASE sweep[Key(w)] = PayloadOf(w)
      BY <1>1, <1>2, <2>2, Noted DEF SweptIsExcused
    <2>3. ASSUME NEW v \in Workers \ {w}, Retake(v), Key(v) = Key(w)
          PROVE  w \in excused'
      <3>1. CASE job[v] = job[w]
        <4>1. w \in excused
          BY <1>1, <2>3, <3>1 DEF RivalledIsExcused, Acquiring, Retake, At
        <4>. QED  BY <1>2, <4>1, Noted
      <3>2. CASE job[v] # job[w]
        <4>1. HolderOf(Key(v)) = job[w] /\ job[w] # NoJob
          BY <1>1, <1>4, <2>3, KeyOfType, NullsDistinct
          DEF HolderOf, Owns, PayloadOf, LockValues, TypeOK, Key, InTry, Working, OwnsToken
        <4>2. Robbed(w)
          BY <1>4, <2>3, <3>2, <4>1 DEF Robbed, Robs
        <4>. QED  BY <1>2, <4>2, Noted
      <3>. QED  BY <3>1, <3>2
    <2>. QED  BY <1>4, <2>1, <2>2, <2>3, LosesLock
  <1>. QED  BY <1>3, <1>4

-----------------------------------------------------------------------------
LEMMA InitExclusionInv == HistInit => TypeOK /\ ExclusionInv
  <1>. SUFFICES ASSUME HistInit PROVE ExclusionInv
    BY InitTypeOK DEF HistInit
  <1>. QED
    BY NullsDistinct
    DEF HistInit, Init, ExclusionInv, TokensUnique, OwnerOrExcused, LapseIsNoted, SweptIsExcused,
        RivalledIsExcused, PendingIsFirst, InTry, Working, PreStart, Acquiring

LEMMA StutterExclusionInv ==
    ASSUME ExclusionInv, UNCHANGED histVars
    PROVE  ExclusionInv'
  BY DEF histVars, vars, rowVars, execVars, redisVars, beatVars, ExclusionInv, TokensUnique,
         OwnerOrExcused, LapseIsNoted, SweptIsExcused, RivalledIsExcused, PendingIsFirst,
         Owns, Lapsed, Together, Key, PayloadOf

\* ExclusionInv is inductive.
THEOREM ExclusionInvHolds == HistSpec => [](TypeOK /\ ExclusionInv)
  <1>1. TypeOK /\ ExclusionInv /\ [HistNext]_histVars => (TypeOK /\ ExclusionInv)'
    <2>. SUFFICES ASSUME TypeOK, ExclusionInv, [HistNext]_histVars
                  PROVE  TypeOK' /\ ExclusionInv'
      OBVIOUS
    <2>1. TypeOK'
      BY NextTypeOK DEF HistNext, histVars
    <2>2. CASE HistNext
      <3>1. [Next]_vars /\ Note
        BY <2>2 DEF HistNext
      <3>2. /\ TokensUnique /\ OwnerOrExcused /\ LapseIsNoted
            /\ SweptIsExcused /\ RivalledIsExcused /\ PendingIsFirst
        BY DEF ExclusionInv
      <3>3. TokensUnique'
        BY <3>1, <3>2, TokensStep
      <3>4. OwnerOrExcused'
        BY <3>1, <3>2, OwnerStep
      <3>5. LapseIsNoted'
        BY <3>1, LapseStep
      <3>6. SweptIsExcused'
        BY <2>1, <3>1, <3>2, SweepStep
      <3>7. RivalledIsExcused'
        BY <3>1, <3>2, RivalStep
      <3>8. PendingIsFirst'
        BY <3>1, <3>2, PendingStep
      <3>. QED  BY <2>1, <3>3, <3>4, <3>5, <3>6, <3>7, <3>8 DEF ExclusionInv
    <2>3. CASE UNCHANGED histVars
      BY <2>1, <2>3, StutterExclusionInv
    <2>. QED  BY <2>1, <2>2, <2>3
  <1>. QED  BY InitExclusionInv, <1>1, PTL DEF HistSpec

\* Two executions without a lapse behind them both own the value under their
\* key, so they hold one token, so they are one.
LEMMA InvGivesExclusion ==
    ASSUME TypeOK, ExclusionInv
    PROVE  Exclusion /\ SameScanOnce
  <1>1. ASSUME NEW v \in Workers, NEW w \in Workers, v # w, pc[v] \in Working, pc[w] \in Working,
               Key(v) = Key(w), v \notin excused, w \notin excused
        PROVE  FALSE
    <2>1. lock[Key(v)] = PayloadOf(v) /\ lock[Key(w)] = PayloadOf(w)
      BY <1>1 DEF ExclusionInv, OwnerOrExcused, Owns, InTry
    <2>2. tok[v] = tok[w]
      BY <1>1, <2>1 DEF PayloadOf
    <2>3. tok[v] # NoToken
      BY <1>1, NullsDistinct DEF TypeOK, OwnsToken, InTry, Working
    <2>. QED  BY <1>1, <2>2, <2>3 DEF ExclusionInv, TokensUnique
  <1>. QED  BY <1>1 DEF Exclusion, SameScanOnce, Key

\* No two scans of one repository and branch work at the same time unless one
\* of them has lost its claim: the lease ran out, a cancel freed it, its row
\* looked dead to the sweeper, or it was overwritten by a late duplicate.
THEOREM ScansExclude == HistSpec => []Exclusion
  BY ExclusionInvHolds, InvGivesExclusion, PTL

\* Nor is one scan executed twice at a time without such a lapse.
THEOREM ScansRunOnce == HistSpec => []SameScanOnce
  BY ExclusionInvHolds, InvGivesExclusion, PTL

-----------------------------------------------------------------------------
\* The compare-and-delete of one execution never removes the value another
\* execution put under the key.
LEMMA ReleaseStep ==
    ASSUME TypeOK, TokensUnique, [Next]_vars,
           NEW v \in Workers, NEW w \in Workers, v # w,
           pc[v] \in {"release", "unwind"}, pc'[v] # pc[v],
           tok[w] # NoToken, lock[Key(w)] = PayloadOf(w)
    PROVE  lock'[Key(w)] = lock[Key(w)]
  <1>. USE DEF TypeOK
  <1>1. ASSUME NEW j \in Jobs, Api(j) PROVE FALSE
    BY <1>1 DEF Api, Submit, SubmitCommit, SubmitAbort, Cancel, CancelCommit, Delete,
                DeleteCommit, RequestAbort, apiUnchanged, execVars
  <1>2. ASSUME NEW u \in Workers, Broker(u) PROVE lock' = lock
    BY <1>2 DEF Broker, Take, Crash, DuplicateDelivery, HardLimit, RevokeHeard,
                brokerUnchanged, redisVars
  <1>3. ASSUME NEW u \in Workers, Execute(u) PROVE Release(v)
    BY <1>3 DEF Execute, LoadMissing, SkipDuplicate, Load, AcquireFree, AcquireBusy, Probe, Retake,
          Coalesce, Start, Progress, NoContent, StartTriage, SkipTriage, TriageProgress, TriageDone,
          FinalCheck, Complete, EndPhase, Raise, RaiseDeleted, FailOwnSession, ForceRead, ForceStamp,
          AfterForce, Release, Ack, Vanish, At, Goto, BeforeLock, InTry, Working
  <1>4. ASSUME Release(v) PROVE lock'[Key(w)] = lock[Key(w)]
    <2>1. CASE lock[Key(v)] # PayloadOf(v)
      BY <1>4, <2>1 DEF Release, redisVars
    <2>2. CASE lock[Key(v)] = PayloadOf(v)
      <3>1. Key(v) # Key(w)
        BY <2>2 DEF PayloadOf, TokensUnique
      <3>2. job[w] \in Jobs /\ Key(w) \in Keys
        BY KeyOfType DEF NoTokenYet, Key
      <3>. QED  BY <1>4, <3>1, <3>2 DEF Release, FreeLock, redisVars
    <2>. QED  BY <2>1, <2>2
  <1>5. ~Beat /\ ~Tick /\ ~UNCHANGED vars
    BY DEF Beat, WatchdogSelect, WatchdogCommit, SweepRead, SweepRelease, beatUnchanged, Tick,
           vars, execVars
  <1>. QED  BY <1>1, <1>2, <1>3, <1>4, <1>5 DEF Next

\* A finished scan never frees the lock of a scan that is still working.
THEOREM ReleasesAreOwn == HistSpec => ReleasesOnlyItsOwn
  <1>1. TypeOK /\ ExclusionInv /\ [HistNext]_histVars =>
          [\A v, w \in Workers :
             (/\ v # w /\ pc[v] \in {"release", "unwind"} /\ pc'[v] # pc[v]
              /\ tok[w] # NoToken /\ lock[Key(w)] = PayloadOf(w))
                => lock'[Key(w)] = lock[Key(w)]]_vars
    BY ReleaseStep DEF ExclusionInv, HistNext, histVars
  <1>. QED  BY ExclusionInvHolds, <1>1, PTL DEF HistSpec, ReleasesOnlyItsOwn

-----------------------------------------------------------------------------
\* Of the steps that leave the triage or the final check, those that commit keep
\* the status the row has, and the final check leads to COMPLETED only if that is
\* not CANCELLED.
LEMMA LeavesTriage ==
    ASSUME TypeOK, [Next]_vars, NEW w \in Workers,
           pc[w] \in {"triage", "final"}, pc'[w] # pc[w], status[job[w]] = "CANCELLED"
    PROVE  status'[job[w]] = "CANCELLED" /\ pc'[w] # "complete"
  <1>. USE DEF TypeOK
  <1>1. ASSUME NEW u \in Workers, Broker(u) PROVE status' = status /\ pc'[w] # "complete"
    BY <1>1 DEF Broker, Take, Crash, DuplicateDelivery, HardLimit, RevokeHeard, Vanish, Goto,
                brokerUnchanged, rowVars, execVars
  <1>2. ASSUME NEW u \in Workers, Execute(u)
        PROVE  TriageProgress(w) \/ TriageDone(w) \/ FinalCheck(w) \/ Raise(w) \/ RaiseDeleted(w)
    BY <1>2 DEF Execute, LoadMissing, SkipDuplicate, Load, AcquireFree, AcquireBusy, Probe, Retake,
          Coalesce, Start, Progress, NoContent, StartTriage, SkipTriage, TriageProgress, TriageDone,
          FinalCheck, Complete, EndPhase, Raise, RaiseDeleted, FailOwnSession, ForceRead, ForceStamp,
          Release, Ack, Vanish, At, Goto
  <1>3. CASE TriageProgress(w) \/ TriageDone(w)
    BY <1>3 DEF TriageProgress, TriageDone, CommitPhase, Goto, rowVars
  <1>4. CASE FinalCheck(w)
    BY <1>4 DEF FinalCheck, Goto, rowVars
  <1>5. CASE Raise(w) \/ RaiseDeleted(w)
    BY <1>5 DEF Raise, RaiseDeleted, Goto, rowVars
  <1>6. ~Beat /\ ~Tick /\ ~UNCHANGED vars /\ \A j \in Jobs : ~Api(j)
    BY DEF Beat, WatchdogSelect, WatchdogCommit, SweepRead, SweepRelease, beatUnchanged, Tick,
           vars, execVars, Api, Submit, SubmitCommit, SubmitAbort, Cancel, CancelCommit, Delete,
           DeleteCommit, RequestAbort, apiUnchanged
  <1>. QED  BY <1>1, <1>2, <1>3, <1>4, <1>5, <1>6 DEF Next

\* A cancel that is committed while a scan is in triage, or before its final
\* check, is honoured: the execution neither overwrites it nor completes.
THEOREM CancelsSurviveTriage == Spec => CancelSurvivesTriage
  <1>1. TypeOK /\ [Next]_vars =>
          [\A w \in Workers :
             (/\ pc[w] \in {"triage", "final"} /\ pc'[w] # pc[w]
              /\ status[job[w]] = "CANCELLED")
                => status'[job[w]] = "CANCELLED" /\ pc'[w] # "complete"]_vars
    BY LeavesTriage
  <1>. QED  BY TypeCorrect, <1>1, PTL DEF Spec, CancelSurvivesTriage

-----------------------------------------------------------------------------
(* CPU slots, for any number of walks.                                     *)

SlotTypeOK ==
    /\ gauge \in Nat /\ counting \in SUBSET Nat /\ short \in BOOLEAN
    /\ counted \in SUBSET Walks /\ share \in [Walks -> Nat]

SlotIInv == SlotTypeOK /\ GaugeCovers

\* A larger part of the cores is for fewer.
LEMMA QuotientFacts ==
    ASSUME NEW b \in Nat, NEW n \in Nat \ {0}
    PROVE  /\ b \div n \in Nat /\ n * (b \div n) <= b /\ b < n * (b \div n) + n
  OBVIOUS

LEMMA ProductsGrow ==
    ASSUME NEW m \in Nat, NEW n \in Nat, m <= n, NEW q \in Nat
    PROVE  m * q <= n * q
  OBVIOUS

LEMMA QuotientsShrink ==
    ASSUME NEW b \in Nat, NEW m \in Nat \ {0}, NEW n \in Nat \ {0}, m <= n
    PROVE  b \div n <= b \div m
  <1>. DEFINE p == b \div m
              q == b \div n
  <1>1. p \in Nat /\ m * p <= b /\ b < m * p + m
    BY QuotientFacts
  <1>2. q \in Nat /\ n * q <= b
    BY QuotientFacts
  <1>3. m * q <= n * q
    BY <1>2, ProductsGrow
  <1>. HIDE DEF p, q
  <1>4. ASSUME q >= p + 1 PROVE FALSE
    <2>1. (p + 1) * m <= q * m
      BY <1>1, <1>2, <1>4, ProductsGrow
    <2>. QED  BY <1>1, <1>2, <1>3, <2>1
  <1>. QED  BY <1>1, <1>2, <1>4 DEF p, q

LEMMA ShareIsNat == \A n \in Nat : Share(n) \in Nat
  BY SlotAssumption, QuotientFacts DEF Share, Larger

LEMMA SharesShrink ==
    ASSUME NEW m \in Nat \ {0}, NEW n \in Nat \ {0}, m <= n
    PROVE  Share(n) <= Share(m)
  <1>1. Budget \div n <= Budget \div m /\ Budget \div n \in Nat /\ Budget \div m \in Nat
    BY SlotAssumption, QuotientsShrink, QuotientFacts
  <1>2. Larger(1, m) = m /\ Larger(1, n) = n
    BY DEF Larger
  <1>. QED  BY <1>1, <1>2 DEF Share, Larger

\* Walks that raised the gauge are numbered: one more, and one less.
LEMMA CountedFacts ==
    ASSUME counted \in SUBSET Walks
    PROVE  /\ Cardinality(counted) \in Nat
           /\ \A w \in Walks \ counted :
                 Cardinality(counted \cup {w}) = Cardinality(counted) + 1
           /\ \A w \in counted : Cardinality(counted \ {w}) = Cardinality(counted) - 1
           /\ \A w \in Walks : /\ Cardinality(counted \ {w}) \in Nat
                               /\ Cardinality(counted \ {w}) <= Cardinality(counted)
  <1>1. IsFiniteSet(counted)
    BY SlotAssumption, FS_Subset
  <1>2. Cardinality(counted) \in Nat
    BY <1>1, FS_CardinalityType
  <1>3. ASSUME NEW w \in counted PROVE Cardinality(counted \ {w}) = Cardinality(counted) - 1
    BY <1>1, FS_RemoveElement
  <1>4. ASSUME NEW w \in Walks
        PROVE  /\ Cardinality(counted \ {w}) \in Nat
               /\ Cardinality(counted \ {w}) <= Cardinality(counted)
    BY <1>1, FS_Subset, FS_CardinalityType
  <1>. QED  BY <1>1, <1>2, <1>3, <1>4, FS_AddElement

\* A step that no lapse excuses must leave the gauge high enough; one with a lapse
\* records it.
LEMMA ShortfallCovers ==
    ASSUME gauge' \in Nat, Cardinality(counted)' \in Nat,
           \/ Shortfall(TRUE)
           \/ Shortfall(FALSE) /\ (~short => gauge' >= Cardinality(counted)')
    PROVE  short' \in BOOLEAN /\ GaugeCovers'
  <1>. DEFINE below == gauge' < Cardinality(counted')
  <1>1. CASE Shortfall(TRUE)
    <2>1. short' = (TRUE /\ below)
      BY <1>1 DEF Shortfall
    <2>2. ~below => gauge' >= Cardinality(counted)'
      OBVIOUS
    <2>. QED  BY <2>1, <2>2, Zenon DEF GaugeCovers
  <1>2. CASE Shortfall(FALSE) /\ (~short => gauge' >= Cardinality(counted)')
    <2>1. short' = (short /\ below)
      BY <1>2 DEF Shortfall
    <2>2. ~below => gauge' >= Cardinality(counted)'
      OBVIOUS
    <2>. QED  BY <1>2, <2>1, <2>2, Zenon DEF GaugeCovers
  <1>. QED  BY <1>1, <1>2

LEMMA SlotInitIInv == SlotInit => SlotIInv
  <1>. SUFFICES ASSUME SlotInit PROVE SlotIInv
    OBVIOUS
  <1>1. /\ gauge = 0 /\ counted = {} /\ counting = {} /\ short = FALSE
        /\ share = [w \in Walks |-> 0]
    BY DEF SlotInit
  <1>2. gauge >= Cardinality(counted)
    BY <1>1, FS_EmptySet
  <1>. QED  BY <1>1, <1>2 DEF SlotIInv, SlotTypeOK, GaugeCovers

\* Who leaves has no process.
LEMMA LeaversShares ==
    ASSUME SlotTypeOK, NEW w \in Walks, LeaveSlot(w)
    PROVE  share' \in [Walks -> Nat] /\ \A v \in Walks \ {w} : share'[v] = share[v]
  BY DEF LeaveSlot, SlotTypeOK

LEMMA SlotNextIInv == SlotIInv /\ [SlotNext]_slotVars => SlotIInv'
  <1>. SUFFICES ASSUME SlotIInv, [SlotNext]_slotVars PROVE SlotIInv'
    OBVIOUS
  <1>t. /\ gauge \in Nat /\ counting \in SUBSET Nat /\ counted \in SUBSET Walks
        /\ Cardinality(counted) \in Nat
        /\ ~short => gauge >= Cardinality(counted)
    BY CountedFacts DEF SlotIInv, SlotTypeOK, GaugeCovers
  <1>1. ASSUME NEW w \in Walks, TakeSlot(w) PROVE SlotIInv'
    <2>1. /\ gauge' = gauge + 1 /\ counted' = counted \cup {w} /\ w \notin counted
          /\ counting' = counting /\ Shortfall(FALSE)
      BY <1>1 DEF TakeSlot
    <2>0. share' \in [Walks -> Nat]
      BY <1>1, <2>1, <1>t, ShareIsNat DEF TakeSlot, SlotIInv, SlotTypeOK
    <2>2. Cardinality(counted)' = Cardinality(counted) + 1
      BY <2>1, <1>t, CountedFacts
    <2>3. gauge' \in Nat /\ Cardinality(counted)' \in Nat /\ counted' \in SUBSET Walks
      BY <2>1, <2>2, <1>t
    <2>4. ~short => gauge' >= Cardinality(counted)'
      BY <2>1, <2>2, <1>t
    <2>. QED  BY <2>0, <2>1, <2>3, <2>4, <1>t, ShortfallCovers DEF SlotIInv, SlotTypeOK
  <1>2. ASSUME NEW w \in Walks, TakeSlotUncounted(w) PROVE SlotIInv'
    BY <1>2 DEF TakeSlotUncounted, GaugeCovers, SlotIInv, SlotTypeOK
  <1>3. ASSUME NEW w \in Walks, GiveBack(w) PROVE SlotIInv'
    <2>1. /\ gauge' = IF gauge > 0 THEN gauge - 1 ELSE 0
          /\ counted' = counted \ {w} /\ w \in counted \cup uncounted
          /\ counting' = counting /\ Shortfall(w \in uncounted)
      BY <1>3 DEF GiveBack, LeaveSlot
    <2>0. share' \in [Walks -> Nat]
      BY <1>3, LeaversShares DEF GiveBack, SlotIInv
    <2>2. gauge' \in Nat /\ Cardinality(counted)' \in Nat /\ counted' \in SUBSET Walks
      BY <2>1, <1>t, CountedFacts
    <2>3. CASE w \in uncounted
      <3>1. Shortfall(TRUE)
        BY <2>1, <2>3, Zenon DEF Shortfall
      <3>. QED  BY <2>0, <2>1, <2>2, <3>1, <1>t, ShortfallCovers DEF SlotIInv, SlotTypeOK
    <2>4. CASE w \notin uncounted
      <3>1. Shortfall(FALSE)
        BY <2>1, <2>4, Zenon DEF Shortfall
      <3>2. Cardinality(counted)' = Cardinality(counted) - 1
        BY <2>1, <2>4, <1>t, CountedFacts
      <3>3. ~short => gauge' >= Cardinality(counted)'
        BY <2>1, <2>2, <3>2, <1>t
      <3>. QED  BY <2>0, <2>1, <2>2, <3>1, <3>3, <1>t, ShortfallCovers DEF SlotIInv, SlotTypeOK
    <2>. QED  BY <2>3, <2>4
  <1>4. ASSUME NEW w \in Walks, Leak(w) PROVE SlotIInv'
    <2>1. /\ gauge' = gauge /\ counted' = counted \ {w}
          /\ counting' = counting /\ Shortfall(FALSE)
      BY <1>4 DEF Leak, LeaveSlot
    <2>0. share' \in [Walks -> Nat]
      BY <1>4, LeaversShares DEF Leak, SlotIInv
    <2>2. Cardinality(counted)' \in Nat /\ Cardinality(counted)' <= Cardinality(counted)
      BY <2>1, <1>t, CountedFacts
    <2>3. gauge' \in Nat /\ counted' \in SUBSET Walks
      BY <2>1, <1>t
    <2>4. ~short => gauge' >= Cardinality(counted)'
      BY <2>1, <2>2, <1>t
    <2>. QED  BY <2>0, <2>1, <2>2, <2>3, <2>4, <1>t, ShortfallCovers DEF SlotIInv, SlotTypeOK
  <1>5. ASSUME NEW n \in 0 .. MaxGauge, CountRows(n) PROVE SlotIInv'
    BY <1>5 DEF CountRows, walkVars, GaugeCovers, SlotIInv, SlotTypeOK
  <1>6. CASE Reconcile \/ Expire
    <2>1. counted' = counted /\ share' = share /\ Shortfall(TRUE)
      BY <1>6 DEF Reconcile, Expire, walkVars
    <2>2. gauge' \in Nat /\ counting' \in SUBSET Nat
      <3>1. CASE Reconcile  BY <3>1, <1>t DEF Reconcile
      <3>2. CASE Expire  BY <3>2, <1>t DEF Expire
      <3>. QED  BY <1>6, <3>1, <3>2
    <2>3. Cardinality(counted)' \in Nat
      BY <2>1, <1>t
    <2>. QED  BY <2>1, <2>2, <2>3, <1>t, ShortfallCovers DEF SlotIInv, SlotTypeOK
  <1>7. CASE UNCHANGED slotVars
    BY <1>7 DEF slotVars, walkVars, GaugeCovers, SlotIInv, SlotTypeOK
  <1>. QED  BY <1>1, <1>2, <1>3, <1>4, <1>5, <1>6, <1>7 DEF SlotNext

\* The gauge covers the walks that raised it, whatever dies, floors or races, but
\* where it was overwritten, forgotten or lowered by a walk it did not count.
THEOREM GaugeCoversWalks == SlotSpec => []GaugeCovers
  BY SlotInitIInv, SlotNextIInv, PTL DEF SlotSpec, SlotIInv

\* The n-th largest pool is an n-th of the cores or less.
RanksHold == \A n \in Nat \ {0} : Cardinality(MoreThanOneOf(n)) < n

LEMMA FewerHaveMore ==
    ASSUME SlotTypeOK, NEW S \in SUBSET counted, NEW T \in SUBSET S
    PROVE  /\ IsFiniteSet(S) /\ Cardinality(T) \in Nat /\ Cardinality(S) \in Nat
           /\ Cardinality(T) <= Cardinality(S)
  <1>1. IsFiniteSet(S)
    BY SlotAssumption, FS_Subset DEF SlotTypeOK
  <1>. QED  BY <1>1, FS_Subset, FS_CardinalityType

\* Nobody joins those with more than a part, but where that many walks have come.
LEMMA RanksStay ==
    ASSUME SlotTypeOK, RanksHold, NEW n \in Nat \ {0},
           MoreThanOneOf(n)' \subseteq MoreThanOneOf(n)
    PROVE  Cardinality(MoreThanOneOf(n)') < n
  <1>1. MoreThanOneOf(n) \in SUBSET counted
    BY DEF MoreThanOneOf
  <1>2. Cardinality(MoreThanOneOf(n)') <= Cardinality(MoreThanOneOf(n))
        /\ Cardinality(MoreThanOneOf(n)') \in Nat /\ Cardinality(MoreThanOneOf(n)) \in Nat
    BY <1>1, FewerHaveMore
  <1>. QED  BY <1>2 DEF RanksHold

LEMMA TakingKeepsRanks ==
    ASSUME SlotIInv, SlotIInv', RanksHold, NEW w \in Walks, TakeSlot(w)
    PROVE  RanksHold'
  <1>. SUFFICES ASSUME NEW n \in Nat \ {0} PROVE Cardinality(MoreThanOneOf(n)') < n
    BY DEF RanksHold
  <1>t. SlotTypeOK /\ SlotTypeOK'
    BY DEF SlotIInv
  <1>1. /\ gauge' = gauge + 1 /\ gauge \in Nat
        /\ counted' = counted \cup {w} /\ w \notin counted
        /\ share' = [share EXCEPT ![w] = Share(gauge + 1)]
        /\ unsure' = IF short THEN unsure \cup {w} ELSE unsure
    BY <1>t DEF TakeSlot, SlotTypeOK
  <1>2. \A v \in MoreThanOneOf(n)' : v # w => v \in MoreThanOneOf(n)
    BY <1>1, <1>t DEF MoreThanOneOf, SlotTypeOK
  <1>3. CASE w \notin MoreThanOneOf(n)'
    <2>1. MoreThanOneOf(n)' \subseteq MoreThanOneOf(n)
      BY <1>2, <1>3
    <2>. QED  BY <2>1, <1>t, RanksStay
  <1>4. CASE w \in MoreThanOneOf(n)'
    <2>1. Share(gauge + 1) > Share(n) /\ ~short
      <3>1. w \notin unsure' /\ share'[w] > Share(n)
        BY <1>4 DEF MoreThanOneOf
      <3>. QED  BY <1>1, <1>t, <3>1 DEF SlotTypeOK
    <2>2. ~(n <= gauge + 1)
      <3>1. SUFFICES ASSUME n <= gauge + 1 PROVE FALSE
        OBVIOUS
      <3>2. Share(gauge + 1) <= Share(n)
        BY <1>1, <3>1, SharesShrink
      <3>. QED  BY <1>1, <2>1, <3>2, ShareIsNat
    <2>3. Cardinality(counted') <= gauge + 1
      <3>1. Cardinality(counted \cup {w}) = Cardinality(counted) + 1
            /\ Cardinality(counted) \in Nat
        BY <1>1, <1>t, CountedFacts DEF SlotTypeOK
      <3>2. gauge >= Cardinality(counted)
        BY <2>1 DEF SlotIInv, GaugeCovers
      <3>. QED  BY <1>1, <3>1, <3>2
    <2>4. Cardinality(MoreThanOneOf(n)') <= Cardinality(counted')
          /\ Cardinality(MoreThanOneOf(n)') \in Nat /\ Cardinality(counted') \in Nat
      <3>1. IsFiniteSet(counted') /\ MoreThanOneOf(n)' \subseteq counted'
        BY <1>t, SlotAssumption, FS_Subset DEF SlotTypeOK, MoreThanOneOf
      <3>. QED  BY <3>1, FS_Subset, FS_CardinalityType
    <2>. QED  BY <1>1, <2>2, <2>3, <2>4
  <1>. QED  BY <1>3, <1>4

LEMMA RanksNext == SlotIInv /\ RanksHold /\ [SlotNext]_slotVars => RanksHold'
  <1>. SUFFICES ASSUME SlotIInv, RanksHold, [SlotNext]_slotVars PROVE RanksHold'
    OBVIOUS
  <1>t. SlotTypeOK /\ SlotIInv'
    BY SlotNextIInv DEF SlotIInv
  <1>1. ASSUME NEW w \in Walks, TakeSlot(w) PROVE RanksHold'
    BY <1>1, <1>t, TakingKeepsRanks
  <1>2. ASSUME \A n \in Nat : MoreThanOneOf(n)' \subseteq MoreThanOneOf(n)
        PROVE  RanksHold'
    <2>1. SUFFICES ASSUME NEW n \in Nat \ {0} PROVE Cardinality(MoreThanOneOf(n)') < n
      BY DEF RanksHold
    <2>. QED  BY <1>2, <1>t, RanksStay
  <1>3. ASSUME NEW w \in Walks, TakeSlotUncounted(w) PROVE RanksHold'
    <2>1. \A n \in Nat : MoreThanOneOf(n)' \subseteq MoreThanOneOf(n)
      BY <1>3, <1>t DEF TakeSlotUncounted, MoreThanOneOf, SlotTypeOK
    <2>. QED  BY <2>1, <1>2
  <1>4. ASSUME NEW w \in Walks, GiveBack(w) \/ Leak(w) PROVE RanksHold'
    <2>1. LeaveSlot(w)
      BY <1>4 DEF GiveBack, Leak
    <2>2. /\ counted' = counted \ {w} /\ unsure' = unsure \ {w}
          /\ \A v \in Walks \ {w} : share'[v] = share[v]
      BY <2>1, <1>t, LeaversShares DEF LeaveSlot
    <2>3. \A n \in Nat : MoreThanOneOf(n)' \subseteq MoreThanOneOf(n)
      BY <2>2, <1>t DEF MoreThanOneOf, SlotTypeOK
    <2>. QED  BY <2>3, <1>2
  <1>5. CASE UNCHANGED walkVars
    <2>1. \A n \in Nat : MoreThanOneOf(n)' \subseteq MoreThanOneOf(n)
      BY <1>5 DEF MoreThanOneOf, walkVars
    <2>. QED  BY <2>1, <1>2
  <1>6. CASE Reconcile \/ Expire \/ \E n \in 0 .. MaxGauge : CountRows(n)
    BY <1>5, <1>6 DEF Reconcile, Expire, CountRows
  <1>. QED  BY <1>1, <1>3, <1>4, <1>5, <1>6 DEF SlotNext, slotVars

\* The sum of the pools: the n-th largest has an n-th of the cores or less, for every n,
\* of the walks that began while the gauge was right.
THEOREM PoolsStayBounded == SlotSpec => []PoolsBounded
  <1>1. SlotInit => RanksHold
    <2>1. SUFFICES ASSUME SlotInit, NEW n \in Nat \ {0}
                   PROVE  Cardinality(MoreThanOneOf(n)) < n
      BY DEF RanksHold
    <2>2. MoreThanOneOf(n) = {}
      BY <2>1 DEF SlotInit, MoreThanOneOf
    <2>. QED  BY <2>2, FS_EmptySet
  <1>2. RanksHold => PoolsBounded
    <2>1. Cardinality(Walks) \in Nat
      BY SlotAssumption, FS_CardinalityType
    <2>. QED  BY <2>1 DEF RanksHold, PoolsBounded
  <1>. QED  BY <1>1, <1>2, SlotInitIInv, SlotNextIInv, RanksNext, PTL DEF SlotSpec

\* The gauge covers its walks, and the pools keep their ranks.
THEOREM SlotsStayInBounds == SlotSpec => []SlotsInv
BY GaugeCoversWalks, PoolsStayBounded, PTL DEF SlotsInv
=============================================================================
