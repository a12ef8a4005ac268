---------------------------- MODULE ScanLifecycle ----------------------------
(***************************************************************************)
(* The life of a repository scan: the scan_jobs row the API, the worker    *)
(* and the beat tasks all write, the Celery message that carries the scan, *)
(* the worker executions that run it, and the Redis lock that keeps two    *)
(* scans off one (repository, branch).                                     *)
(*                                                                         *)
(* What is kept: every read, commit, guard and early return that touches   *)
(* the row's status, its heartbeat, or the lock, in the code's order, with *)
(* a step of its own wherever another process can run in between.  What is *)
(* abstracted: what a phase computes (clone, walk, findings, verdicts).    *)
(*                                                                         *)
(* Time is counted in units the model does not name; each threshold of the *)
(* code is a constant in those units, and ages saturate one unit past the  *)
(* last threshold that reads them.                                         *)
(***************************************************************************)
EXTENDS Naturals, FiniteSets

CONSTANTS
    Jobs,            \* scan_jobs ids
    Keys,            \* Redis lock keys: one per (repository, branch)
    KeyOf,           \* the key a job's repository and branch select
    Workers,         \* prefork child processes
    Tokens,          \* secrets.token_hex(8): never repeats while in use
    NoJob, NoToken, NoLock,
    StallThreshold,  \* _stale_scan_threshold_seconds
    AbsoluteLimit,   \* _stale_scan_threshold_hours
    LockTTL,         \* DEFAULT_LOCK_TTL_SECONDS
    TaskTimeLimit,   \* SCAN_TASK_TIME_LIMIT
    ZombieSilence,   \* the 5 minutes of cancel_scan
    Kinds,           \* the incidents that may happen, of IncidentKinds
    MaxIncidents     \* bound: how many of them in one behaviour

Statuses == {"PENDING", "RUNNING", "ANALYZING", "COMPLETED", "FAILED", "CANCELLED"}
Active   == {"PENDING", "RUNNING", "ANALYZING"}
Terminal == {"COMPLETED", "FAILED", "CANCELLED"}

\* "absent": no committed row yet; "deleted": rolled back or removed for good.
RowStates == Statuses \cup {"absent", "deleted"}

LockValues == [holder : Jobs, token : Tokens]

BeforeLock == {"load", "lock", "probe", "retake", "coalesce"}
Working    == {"scan", "triage", "final", "complete"}
InTry      == Working \cup {"start"}
Labels     == BeforeLock \cup InTry \cup
              {"idle", "failing", "stamp", "release", "unwind", "fallback", "ack"}

\* With the payload of the lock in hand, and before it exists.
OwnsToken  == InTry \cup {"failing", "release", "unwind"}
NoTokenYet == BeforeLock \cup {"idle", "fallback", "ack"}

Requests == {"none", "submitting", "cancelling", "aborting", "deleting"}

\* What users and failures may add to a scan: a process killed, a message
\* delivered twice, an exception, a transaction or a Redis call that fails,
\* a cancel request, a delete request.
IncidentKinds == {"crash", "duplicate", "raise", "abort", "redis", "cancel", "delete"}

ASSUME KeyOfType     == KeyOf \in [Jobs -> Keys]
ASSUME NullsDistinct == NoJob \notin Jobs /\ NoToken \notin Tokens /\ NoLock \notin LockValues
ASSUME TimesNat      == /\ StallThreshold \in Nat \ {0}
                        /\ AbsoluteLimit  \in Nat \ {0}
                        /\ LockTTL        \in Nat \ {0}
                        /\ TaskTimeLimit  \in Nat \ {0}
                        /\ ZombieSilence  \in Nat
                        /\ MaxIncidents   \in Nat
ASSUME KindsKnown    == Kinds \subseteq IncidentKinds

VARIABLES
    status,    \* scan_jobs.status as committed
    silence,   \* age of COALESCE(heartbeat_at, created_at)
    age,       \* age of created_at
    pc,        \* where a worker process is in run_scan_job
    job,       \* the scan_job_id it was called with
    loaded,    \* the status its ORM session read before it took the lock
    tok,       \* the lock token it owns, if any
    ran,       \* time since Celery started the task
    lock,      \* the Redis value under each lock key
    ttl,       \* time each key has left
    queue,     \* undelivered messages per job
    revoked,   \* jobs whose task id control.revoke has broadcast
    request,   \* the API request in progress on each row
    reaping,   \* rows the watchdog has selected and not yet committed
    sweep,     \* the value the lock sweeper read and found releasable, per key
    budget     \* incidents still allowed

rowVars   == <<status, silence, age>>
execVars  == <<pc, job, loaded, tok, ran>>
redisVars == <<lock, ttl>>
beatVars  == <<reaping, sweep>>
vars      == <<rowVars, execVars, redisVars, queue, revoked, request, beatVars, budget>>

-----------------------------------------------------------------------------
(* Rows, executions and lock values *)

Exists(j) == status[j] \in Statuses

\* _cleanup_stale_running_scans clamps the stall threshold to the backstop.
StallCutoff == IF StallThreshold > AbsoluteLimit THEN AbsoluteLimit ELSE StallThreshold

Silent(j) == silence[j] > StallThreshold

\* Mutant: a scan no worker ever started is not watched.
AbandonedWhileRunning(j) == /\ status[j] \in {"RUNNING", "ANALYZING"}
                            /\ silence[j] > StallCutoff \/ age[j] > AbsoluteLimit

\* Non-terminal and without progress, or past the absolute backstop.
Abandoned(j) == /\ status[j] \in Active
                /\ \/ silence[j] > StallCutoff
                   \/ age[j] > AbsoluteLimit

\* Mutant: ANALYZING is not recognised as a running state.
IsDuplicateOfRunning(j) == status[j] = "RUNNING" /\ silence[j] < StallThreshold

\* A RUNNING or ANALYZING row with a fresh heartbeat: another execution of
\* the same scan is taken to be alive.  (heartbeat_at is NULL only while the
\* row is PENDING: the commit that makes it RUNNING carries one.)
IsDuplicateLiveExecution(j) == /\ status[j] \in {"RUNNING", "ANALYZING"}
                               /\ silence[j] < StallThreshold

\* Mutant: the sweeper forgets that ANALYZING is a live state.
IsNotScanning(j) == status[j] \notin {"PENDING", "RUNNING"} \/ Silent(j)

\* The sweeper's verdict on a lock's holder: gone, done, or a zombie.
IsLockReleasable(j) == \/ ~Exists(j)
                       \/ status[j] \in Terminal
                       \/ Silent(j)

HolderOf(k) == IF lock[k] = NoLock THEN NoJob ELSE lock[k].holder

Key(w) == KeyOf[job[w]]

\* The payload an execution wrote: only an equal value is ever deleted.
PayloadOf(w) == [holder |-> job[w], token |-> tok[w]]

UsedTokens == {tok[w] : w \in Workers}
              \cup {lock[k].token : k \in {x \in Keys : lock[x] # NoLock}}
              \cup {sweep[k].token : k \in {x \in Keys : sweep[x] # NoLock}}

\* Which unused token is drawn does not matter, so the model draws one.
FreshToken == CHOOSE t \in Tokens : t \notin UsedTokens

Incident(kind) == kind \in Kinds /\ budget > 0 /\ budget' = budget - 1

FreeLock(k) == /\ lock' = [lock EXCEPT ![k] = NoLock]
               /\ ttl'  = [ttl EXCEPT ![k] = 0]

\* An execution stops without unwinding: nothing of the task's code runs.
Vanish(w) == /\ pc'     = [pc EXCEPT ![w] = "idle"]
             /\ job'    = [job EXCEPT ![w] = NoJob]
             /\ loaded' = [loaded EXCEPT ![w] = "absent"]
             /\ tok'    = [tok EXCEPT ![w] = NoToken]
             /\ ran'    = [ran EXCEPT ![w] = 0]

Goto(w, label) == pc' = [pc EXCEPT ![w] = label]

At(w, label) == pc[w] = label

\* A commit that carries a new heartbeat.
CommitPhase(j, s) == /\ status'  = [status EXCEPT ![j] = s]
                     /\ silence' = [silence EXCEPT ![j] = 0]
                     /\ UNCHANGED age

\* A commit without one.  Only the age of an active row's heartbeat is ever
\* read, so the model keeps 0 for the others.
CommitStatus(j, s) == /\ status'  = [status EXCEPT ![j] = s]
                      /\ silence' = IF s \in Active THEN silence
                                    ELSE [silence EXCEPT ![j] = 0]
                      /\ UNCHANGED age

\* SQLAlchemy sends only changed columns: assigning the status the session
\* loaded writes no status at all.
OrmStatus(w, s) == IF loaded[w] = s THEN status[job[w]] ELSE s

-----------------------------------------------------------------------------
Init == /\ status  = [j \in Jobs |-> "absent"]
        /\ silence = [j \in Jobs |-> 0]
        /\ age     = [j \in Jobs |-> 0]
        /\ pc      = [w \in Workers |-> "idle"]
        /\ job     = [w \in Workers |-> NoJob]
        /\ loaded  = [w \in Workers |-> "absent"]
        /\ tok     = [w \in Workers |-> NoToken]
        /\ ran     = [w \in Workers |-> 0]
        /\ lock    = [k \in Keys |-> NoLock]
        /\ ttl     = [k \in Keys |-> 0]
        /\ queue   = [j \in Jobs |-> 0]
        /\ revoked = {}
        /\ request = [j \in Jobs |-> "none"]
        /\ reaping = {}
        /\ sweep   = [k \in Keys |-> NoLock]
        /\ budget  = MaxIncidents

-----------------------------------------------------------------------------
(* The API.  A request is a read and a commit at its end (get_db), with    *)
(* side effects on the broker and Redis in between; one request per row is *)
(* in progress at a time (bound).                                          *)

apiUnchanged == UNCHANGED <<execVars, beatVars>>

\* trigger_scan: the message is published before the row is committed.
Submit(j) ==
    /\ status[j] = "absent" /\ request[j] = "none"
    /\ request' = [request EXCEPT ![j] = "submitting"]
    /\ queue'   = [queue EXCEPT ![j] = @ + 1]
    /\ UNCHANGED <<rowVars, redisVars, revoked, budget>> /\ apiUnchanged

SubmitCommit(j) ==
    /\ request[j] = "submitting"
    /\ request' = [request EXCEPT ![j] = "none"]
    /\ CommitStatus(j, "PENDING")
    /\ UNCHANGED <<redisVars, queue, revoked, budget>> /\ apiUnchanged

\* The commit fails or the API process dies: the transaction is rolled back.
SubmitAbort(j) ==
    /\ request[j] = "submitting"
    /\ Incident("abort")
    /\ request' = [request EXCEPT ![j] = "none"]
    /\ CommitStatus(j, "deleted")
    /\ UNCHANGED <<redisVars, queue, revoked>> /\ apiUnchanged

\* cancel_scan up to its commit: the row is read, the task revoked, the
\* scan's own lock deleted (or not, when Redis fails: the code goes on).  The
\* silence it judges is that of updated_at, which every heartbeat moves.
Cancel(j) ==
    /\ request[j] = "none" /\ status[j] \in Active
    /\ Incident("cancel")
    /\ request' = [request EXCEPT ![j] =
                     IF silence[j] > ZombieSilence THEN "aborting" ELSE "cancelling"]
    /\ revoked' = revoked \cup {j}
    /\ IF HolderOf(KeyOf[j]) = j
         THEN FreeLock(KeyOf[j]) \/ UNCHANGED redisVars
         ELSE UNCHANGED redisVars
    /\ UNCHANGED <<rowVars, queue>> /\ apiUnchanged

\* The commit does not look at the row again: whatever a worker wrote since
\* the read is overwritten.
CancelCommit(j) ==
    /\ request[j] \in {"cancelling", "aborting"}
    /\ request' = [request EXCEPT ![j] = "none"]
    /\ CommitStatus(j, IF request[j] = "aborting" THEN "FAILED" ELSE "CANCELLED")
    /\ UNCHANGED <<redisVars, queue, revoked, budget>> /\ apiUnchanged

\* delete_scan: only a terminal row is accepted; the DELETE is by id alone.
Delete(j) ==
    /\ request[j] = "none" /\ status[j] \in Terminal
    /\ Incident("delete")
    /\ request' = [request EXCEPT ![j] = "deleting"]
    /\ UNCHANGED <<rowVars, redisVars, queue, revoked>> /\ apiUnchanged

DeleteCommit(j) ==
    /\ request[j] = "deleting"
    /\ request' = [request EXCEPT ![j] = "none"]
    /\ CommitStatus(j, "deleted")
    /\ UNCHANGED <<redisVars, queue, revoked, budget>> /\ apiUnchanged

\* A cancel or delete, counted already, whose transaction never commits.
RequestAbort(j) ==
    /\ request[j] \in {"cancelling", "aborting", "deleting"}
    /\ "abort" \in Kinds
    /\ request' = [request EXCEPT ![j] = "none"]
    /\ UNCHANGED <<rowVars, redisVars, queue, revoked, budget>> /\ apiUnchanged

-----------------------------------------------------------------------------
(* The broker: at-least-once delivery to prefork children, acks_late.      *)

brokerUnchanged == UNCHANGED <<rowVars, redisVars, revoked, request, beatVars>>

Take(w, j) ==
    /\ At(w, "idle") /\ queue[j] > 0
    /\ queue' = [queue EXCEPT ![j] = @ - 1]
    /\ job'   = [job EXCEPT ![w] = j]
    /\ Goto(w, "load")
    /\ UNCHANGED <<loaded, tok, ran, budget>> /\ brokerUnchanged

\* SIGKILL, OOM or a container restart: task_reject_on_worker_lost puts the
\* message back; no finally block runs, so the lock stays.
Crash(w) ==
    /\ ~At(w, "idle") /\ Incident("crash")
    /\ queue'  = [queue EXCEPT ![job[w]] = @ + 1]
    /\ Vanish(w) /\ brokerUnchanged

\* A second copy of a message still being executed.
DuplicateDelivery(w) ==
    /\ ~At(w, "idle") /\ Incident("duplicate")
    /\ queue'  = [queue EXCEPT ![job[w]] = @ + 1]
    /\ UNCHANGED execVars /\ brokerUnchanged

\* Celery's hard limit kills the child and acknowledges the message.
HardLimit(w) ==
    /\ ~At(w, "idle") /\ ran[w] = TaskTimeLimit
    /\ Vanish(w)
    /\ UNCHANGED <<queue, budget>> /\ brokerUnchanged

\* A worker that heard a revoke terminates the running task and drops the
\* message; one that missed it never takes this step.
RevokeHeard(w) ==
    /\ ~At(w, "idle") /\ job[w] \in revoked
    /\ Vanish(w)
    /\ UNCHANGED <<queue, budget>> /\ brokerUnchanged

-----------------------------------------------------------------------------
(* run_scan_job and _run_scan_job, before the lock is held.                *)

workerUnchanged == UNCHANGED <<job, ran, queue, revoked, request, beatVars>>

LoadMissing(w) ==
    /\ At(w, "load") /\ ~Exists(job[w])
    /\ Goto(w, "ack")
    /\ UNCHANGED <<rowVars, loaded, tok, redisVars, budget>> /\ workerUnchanged

SkipDuplicate(w) ==
    /\ At(w, "load") /\ IsDuplicateLiveExecution(job[w])
    /\ Goto(w, "ack")
    /\ UNCHANGED <<rowVars, loaded, tok, redisVars, budget>> /\ workerUnchanged

Load(w) ==
    /\ At(w, "load") /\ Exists(job[w]) /\ ~IsDuplicateLiveExecution(job[w])
    /\ loaded' = [loaded EXCEPT ![w] = status[job[w]]]
    /\ Goto(w, "lock")
    /\ UNCHANGED <<rowVars, tok, redisVars, budget>> /\ workerUnchanged

\* The payload is written with the TTL by one Redis command.
SetLock(w, t) ==
    /\ lock' = [lock EXCEPT ![Key(w)] = [holder |-> job[w], token |-> t]]
    /\ ttl'  = [ttl EXCEPT ![Key(w)] = LockTTL]
    /\ tok'  = [tok EXCEPT ![w] = t]

\* SET NX EX succeeds.
AcquireFree(w) ==
    /\ At(w, "lock") /\ lock[Key(w)] = NoLock
    /\ Tokens \ UsedTokens # {}
    /\ SetLock(w, FreshToken)
    /\ Goto(w, "start")
    /\ UNCHANGED <<rowVars, loaded, budget>> /\ workerUnchanged

AcquireBusy(w) ==
    /\ At(w, "lock") /\ lock[Key(w)] # NoLock
    /\ Goto(w, "probe")
    /\ UNCHANGED <<rowVars, loaded, tok, redisVars, budget>> /\ workerUnchanged

\* GET after the failed SET NX: our own holder means a previous execution of
\* this same scan; anything else, or a key gone meanwhile, means coalesce.
Probe(w) ==
    /\ At(w, "probe")
    /\ Goto(w, IF HolderOf(Key(w)) = job[w] THEN "retake" ELSE "coalesce")
    /\ UNCHANGED <<rowVars, loaded, tok, redisVars, budget>> /\ workerUnchanged

\* A plain SET: whatever is under the key by now is overwritten.
Retake(w) ==
    /\ At(w, "retake")
    /\ Tokens \ UsedTokens # {}
    /\ SetLock(w, FreshToken)
    /\ Goto(w, "start")
    /\ UNCHANGED <<rowVars, loaded, budget>> /\ workerUnchanged

Coalesce(w) ==
    /\ At(w, "coalesce") /\ Exists(job[w])
    /\ CommitStatus(job[w], OrmStatus(w, "CANCELLED"))
    /\ Goto(w, "ack")
    /\ UNCHANGED <<loaded, tok, redisVars, budget>> /\ workerUnchanged

-----------------------------------------------------------------------------
(* _run_scan_job with the lock held.  A commit on a row that was deleted   *)
(* raises (StaleDataError): those outcomes are Raise.                      *)

phaseUnchanged == UNCHANGED <<tok, redisVars, budget>> /\ workerUnchanged

Start(w) ==
    /\ At(w, "start") /\ Exists(job[w])
    /\ CommitPhase(job[w], OrmStatus(w, "RUNNING"))
    /\ loaded' = [loaded EXCEPT ![w] = "absent"]
    /\ Goto(w, "scan")
    /\ phaseUnchanged

\* From here on the session holds the status it wrote last, so each later
\* status is a change and is sent, whatever the row says by then.
EndPhase(w, from, s, to) ==
    /\ At(w, from) /\ Exists(job[w])
    /\ CommitPhase(job[w], s)
    /\ Goto(w, to)
    /\ UNCHANGED loaded /\ phaseUnchanged

\* Clone, fetch, analysis, history and file walk report progress by a
\* heartbeat commit.  On the main session it is followed by the cancellation
\* checkpoint, but every callback of these phases catches Exception,
\* ScanCancelled included; the walk writes through a session of its own with
\* no checkpoint.  Either way a cancelled scan goes on.
Progress(w) ==
    /\ At(w, "scan") /\ Exists(job[w])
    /\ CommitPhase(job[w], status[job[w]])
    /\ UNCHANGED <<pc, loaded>> /\ phaseUnchanged

\* Nothing to scan: no checkout and no URL, or the clone left nothing.
NoContent(w) ==
    /\ At(w, "scan") /\ Exists(job[w])
    /\ CommitStatus(job[w], "FAILED")
    /\ Goto(w, "release")
    /\ UNCHANGED loaded /\ phaseUnchanged

StartTriage(w) == EndPhase(w, "scan", "ANALYZING", "triage")

\* No AI model, or nothing left to triage: at most a progress commit.
SkipTriage(w) ==
    /\ At(w, "scan")
    /\ Goto(w, "final")
    /\ UNCHANGED <<rowVars, loaded>> /\ phaseUnchanged

\* The checkpoint that is honoured: heartbeat commit, then the row's status.
TriageProgress(w) ==
    /\ At(w, "triage") /\ Exists(job[w])
    /\ CommitPhase(job[w], status[job[w]])
    /\ Goto(w, IF status[job[w]] = "CANCELLED" THEN "release" ELSE "triage")
    /\ UNCHANGED loaded /\ phaseUnchanged

\* Mutant: the end of triage writes the phase's status once more.
TriageDoneAnalyzing(w) == EndPhase(w, "triage", "ANALYZING", "final")

\* Triage ended, or failed and the scan goes on with unreviewed findings;
\* the commit of a failure carries no heartbeat.
TriageDone(w) ==
    /\ At(w, "triage") /\ Exists(job[w])
    /\ CommitPhase(job[w], status[job[w]]) \/ UNCHANGED rowVars
    /\ Goto(w, "final")
    /\ UNCHANGED loaded /\ phaseUnchanged

\* Re-read the row before claiming success.
FinalCheck(w) ==
    /\ At(w, "final")
    /\ Goto(w, IF status[job[w]] = "CANCELLED" THEN "release" ELSE "complete")
    /\ UNCHANGED <<rowVars, loaded>> /\ phaseUnchanged

Complete(w) == EndPhase(w, "complete", "COMPLETED", "release")

-----------------------------------------------------------------------------
(* Failure and exit.                                                       *)

\* An exception, the soft time limit included, at any point.
Raise(w) ==
    /\ pc[w] \in BeforeLock \cup InTry
    /\ Incident("raise")
    /\ Goto(w, IF pc[w] \in InTry THEN "failing" ELSE "fallback")
    /\ UNCHANGED <<rowVars, loaded, tok, redisVars>> /\ workerUnchanged

\* A commit of a row that was deleted meanwhile raises StaleDataError.
RaiseDeleted(w) ==
    /\ pc[w] \in {"coalesce"} \cup InTry /\ ~Exists(job[w])
    /\ Goto(w, IF pc[w] \in InTry THEN "failing" ELSE "fallback")
    /\ UNCHANGED <<rowVars, loaded>> /\ phaseUnchanged

\* The inner handler, on the scan's own session: rollback, then FAILED
\* whatever the row says now.
FailOwnSession(w) ==
    /\ At(w, "failing") /\ Exists(job[w])
    /\ CommitStatus(job[w], "FAILED")
    /\ Goto(w, "unwind")
    /\ UNCHANGED loaded /\ phaseUnchanged

\* Where _force_terminal_failure returns to: the inner handler still owns
\* the lock, the outer one is the end of the task.
AfterForce(w) == IF tok[w] = NoToken THEN "ack" ELSE "unwind"

\* _force_terminal_failure on a fresh session: inside the inner handler when
\* its own session is unusable, and again from run_scan_job.  It reads ...
ForceRead(w) ==
    /\ pc[w] \in {"failing", "fallback"}
    /\ Goto(w, IF status[job[w]] \in Active THEN "stamp" ELSE AfterForce(w))
    /\ UNCHANGED <<rowVars, loaded>> /\ phaseUnchanged

\* ... and writes in a later step.
ForceStamp(w) ==
    /\ At(w, "stamp")
    /\ IF Exists(job[w]) THEN CommitStatus(job[w], "FAILED") ELSE UNCHANGED rowVars
    /\ Goto(w, AfterForce(w))
    /\ UNCHANGED loaded /\ phaseUnchanged

\* Mutant: the release compares the scan's id and not the whole payload.
ReleaseByHolder(w) ==
    /\ pc[w] \in {"release", "unwind"}
    /\ IF HolderOf(Key(w)) = job[w] THEN FreeLock(Key(w)) ELSE UNCHANGED redisVars
    /\ tok' = [tok EXCEPT ![w] = NoToken]
    /\ Goto(w, IF At(w, "unwind") THEN "fallback" ELSE "ack")
    /\ UNCHANGED <<rowVars, loaded, budget>> /\ workerUnchanged

\* Mutant: the token outlives the lock.
ReleaseKeepsToken(w) ==
    /\ pc[w] \in {"release", "unwind"}
    /\ IF lock[Key(w)] = PayloadOf(w) THEN FreeLock(Key(w)) ELSE UNCHANGED redisVars
    /\ Goto(w, IF At(w, "unwind") THEN "fallback" ELSE "ack")
    /\ UNCHANGED <<rowVars, loaded, tok, budget>> /\ workerUnchanged

\* The finally block: compare-and-delete on the whole payload; an error of
\* Redis is swallowed and leaves the key.
Release(w) ==
    /\ pc[w] \in {"release", "unwind"}
    /\ IF lock[Key(w)] = PayloadOf(w)
         THEN \/ FreeLock(Key(w)) /\ UNCHANGED budget
              \/ Incident("redis") /\ UNCHANGED redisVars
         ELSE UNCHANGED <<redisVars, budget>>
    /\ tok' = [tok EXCEPT ![w] = NoToken]
    /\ Goto(w, IF At(w, "unwind") THEN "fallback" ELSE "ack")
    /\ UNCHANGED <<rowVars, loaded>> /\ workerUnchanged

\* acks_late: the message is acknowledged when the task has returned.
Ack(w) ==
    /\ At(w, "ack")
    /\ Vanish(w)
    /\ UNCHANGED <<rowVars, redisVars, queue, revoked, request, beatVars, budget>>

-----------------------------------------------------------------------------
(* Celery beat.                                                            *)

beatUnchanged == UNCHANGED <<execVars, queue, request, budget>>

\* _cleanup_stale_running_scans: one SELECT ...
WatchdogSelect ==
    /\ reaping = {}
    /\ reaping' = {j \in Jobs : Abandoned(j)}
    /\ reaping' # {}
    /\ UNCHANGED <<rowVars, redisVars, revoked, sweep>> /\ beatUnchanged

\* ... a SIGKILL revoke per row, and one commit for all of them, by id.  A
\* row deleted since the SELECT fails the commit for the whole batch.
WatchdogCommit ==
    /\ reaping # {}
    /\ IF \A j \in reaping : Exists(j)
         THEN /\ status'  = [j \in Jobs |-> IF j \in reaping THEN "FAILED" ELSE status[j]]
              /\ silence' = [j \in Jobs |-> IF j \in reaping THEN 0 ELSE silence[j]]
         ELSE UNCHANGED <<status, silence>>
    /\ revoked' = revoked \cup reaping
    /\ reaping' = {}
    /\ UNCHANGED <<age, redisVars, sweep>> /\ beatUnchanged

\* cleanup_stale_locks, one key at a time: GET and the verdict on the holder ...
SweepRead(k) ==
    /\ lock[k] # NoLock /\ sweep[k] = NoLock
    /\ IsLockReleasable(lock[k].holder)
    /\ sweep' = [sweep EXCEPT ![k] = lock[k]]
    /\ UNCHANGED <<rowVars, redisVars, revoked, reaping>> /\ beatUnchanged

\* ... then compare-and-delete of the value that was read.
SweepRelease(k) ==
    /\ sweep[k] # NoLock
    /\ sweep' = [sweep EXCEPT ![k] = NoLock]
    /\ IF lock[k] = sweep[k]
         THEN FreeLock(k)
         ELSE UNCHANGED redisVars
    /\ UNCHANGED <<rowVars, revoked, reaping>> /\ beatUnchanged

-----------------------------------------------------------------------------
(* Time.  Redis expires a key whose time is up; Celery does not let a task *)
(* run past its hard limit.                                                *)

UpTo(n, bound) == IF n < bound THEN n + 1 ELSE n

Tick ==
    /\ \A w \in Workers : At(w, "idle") \/ ran[w] < TaskTimeLimit
    /\ ran'     = [w \in Workers |-> IF At(w, "idle") THEN 0 ELSE ran[w] + 1]
    /\ silence' = [j \in Jobs |-> IF status[j] \in Active THEN UpTo(silence[j], StallThreshold + 1) ELSE 0]
    /\ age'     = [j \in Jobs |-> IF Exists(j) THEN UpTo(age[j], AbsoluteLimit + 1) ELSE 0]
    /\ ttl'     = [k \in Keys |-> IF ttl[k] = 0 THEN 0 ELSE ttl[k] - 1]
    /\ lock'    = [k \in Keys |-> IF ttl[k] <= 1 THEN NoLock ELSE lock[k]]
    /\ UNCHANGED <<status, pc, job, loaded, tok, queue, revoked, request, beatVars, budget>>

-----------------------------------------------------------------------------
Api(j) == \/ Submit(j) \/ SubmitCommit(j) \/ SubmitAbort(j)
          \/ Cancel(j) \/ CancelCommit(j)
          \/ Delete(j) \/ DeleteCommit(j)
          \/ RequestAbort(j)

Broker(w) == \/ \E j \in Jobs : Take(w, j)
             \/ Crash(w) \/ DuplicateDelivery(w)
             \/ HardLimit(w) \/ RevokeHeard(w)

Execute(w) == \/ LoadMissing(w) \/ SkipDuplicate(w) \/ Load(w)
              \/ AcquireFree(w) \/ Retake(w) \/ AcquireBusy(w) \/ Probe(w) \/ Coalesce(w)
              \/ Start(w) \/ Progress(w) \/ NoContent(w)
              \/ StartTriage(w) \/ SkipTriage(w)
              \/ TriageProgress(w) \/ TriageDone(w)
              \/ FinalCheck(w) \/ Complete(w)
              \/ Raise(w) \/ RaiseDeleted(w) \/ FailOwnSession(w) \/ ForceRead(w) \/ ForceStamp(w)
              \/ Release(w) \/ Ack(w)

Beat == \/ WatchdogSelect \/ WatchdogCommit
        \/ \E k \in Keys : SweepRead(k) \/ SweepRelease(k)

Next == \/ \E j \in Jobs : Api(j)
        \/ \E w \in Workers : Broker(w) \/ Execute(w)
        \/ Beat
        \/ Tick

Spec == Init /\ [][Next]_vars

(* Beat runs the watchdog every minute, time passes, and Celery enforces   *)
(* its hard limit.  Users, workers and the sweeper owe nothing.            *)
Fairness == /\ WF_vars(Tick)
            /\ WF_vars(WatchdogSelect)
            /\ WF_vars(WatchdogCommit)
            /\ \A w \in Workers : WF_vars(HardLimit(w))

FairSpec == Spec /\ Fairness

-----------------------------------------------------------------------------
(* Properties                                                              *)

\* Every variable keeps its type; a process is bound to a scan exactly while
\* it executes one, and owns a lock token from acquiring to releasing.
TypeOK ==
    /\ status  \in [Jobs -> RowStates]
    /\ silence \in [Jobs -> 0..(StallThreshold + 1)]
    /\ age     \in [Jobs -> 0..(AbsoluteLimit + 1)]
    /\ pc      \in [Workers -> Labels]
    /\ job     \in [Workers -> Jobs \cup {NoJob}]
    /\ loaded  \in [Workers -> Statuses \cup {"absent"}]
    /\ tok     \in [Workers -> Tokens \cup {NoToken}]
    /\ ran     \in [Workers -> 0..TaskTimeLimit]
    /\ lock    \in [Keys -> LockValues \cup {NoLock}]
    /\ ttl     \in [Keys -> 0..LockTTL]
    /\ queue   \in [Jobs -> Nat]
    /\ revoked \subseteq Jobs
    /\ request \in [Jobs -> Requests]
    /\ reaping \subseteq Jobs
    /\ sweep   \in [Keys -> LockValues \cup {NoLock}]
    /\ budget  \in Nat
    /\ \A w \in Workers : /\ pc[w] = "idle" <=> job[w] = NoJob
                          /\ pc[w] \in OwnsToken => tok[w] \in Tokens
                          /\ pc[w] \in NoTokenYet => tok[w] = NoToken

\* An execution that leaves the finally block of repo_scan_lock never removes
\* a lock another execution acquired, whoever holds the key by then: the
\* compare-and-delete is on the whole payload, not on the scan's id.
ReleasesOnlyItsOwn ==
    [][\A v, w \in Workers :
         (/\ v # w /\ pc[v] \in {"release", "unwind"} /\ pc'[v] # pc[v]
          /\ tok[w] # NoToken /\ lock[Key(w)] = PayloadOf(w))
            => lock'[Key(w)] = lock[Key(w)]]_vars

\* A cancel that commits while an execution is in AI triage or before its final
\* check survives whatever that execution does next, and the execution does not
\* go on to claim success (_raise_if_cancelled, the re-read before COMPLETED).
CancelSurvivesTriage ==
    [][\A w \in Workers :
         (/\ pc[w] \in {"triage", "final"} /\ pc'[w] # pc[w]
          /\ status[job[w]] = "CANCELLED")
            => status'[job[w]] = "CANCELLED" /\ pc'[w] # "complete"]_vars

\* Whatever crashes, hangs, races or gets lost, a submitted scan ends up in a
\* terminal state and stays out of the running ones (the watchdog's promise).
EveryScanSettles == \A j \in Jobs : <>[](status[j] \notin Active)

(* Claims the repository makes that the code does not keep. *)

\* A cancelled scan stays cancelled (run_scan_job's cancellation contract).
CancelIsFinal ==
    [][\A j \in Jobs : status[j] = "CANCELLED" => status'[j] \in {"CANCELLED", "deleted"}]_vars

=============================================================================
