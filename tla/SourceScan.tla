------------------------------ MODULE SourceScan ------------------------------
(***************************************************************************)
(* Scans of a source that is not a repository: the beat tasks that         *)
(* dispatch them, run_source_scan with the S3 adapter, the source's lock,  *)
(* its sync_state cursor, and the findings of its items.                   *)
(*                                                                         *)
(* A source has items; each change of one gives it a new stamp, and its    *)
(* content holds one secret.  stored says up to which change an item was   *)
(* scanned and its finding committed.  An incremental scan visits every    *)
(* item and reads those newer than the cursor; a full sweep reads all and  *)
(* resolves the findings of items it has not seen.                         *)
(*                                                                         *)
(* Abstracted: what a scan of an item finds, live validation, muted rules, *)
(* suppressions (module FindingTriage), statistics.  The lock's tokens are   *)
(* those of ScanLifecycle; here its value is the job, and a sweep's        *)
(* compare-and-delete is one step.                                         *)
(***************************************************************************)
EXTENDS Naturals

CONSTANTS
    NumItems,    \* keys of the bucket, in the order it lists them
    Jobs,        \* scan_jobs of the source that exist at a time
    NoJob,       \* the lock is free
    MaxStamp,    \* bound: changes of the source's content
    MaxScans,    \* bound: scans of the source
    MaxFaults,   \* bound: errors, crashes and requests of users together
    StallThreshold  \* silence after which a row counts as stalled

ASSUME NoJobAssumption   == NoJob \notin Jobs
ASSUME BoundsAssumption  ==
    /\ NumItems \in Nat /\ MaxStamp \in Nat /\ MaxScans \in Nat /\ MaxFaults \in Nat
    /\ StallThreshold \in Nat

VARIABLES
    stamp,     \* when an item was last changed, 0 if there is none
    time,      \* the last stamp given
    stored,    \* the change of an item whose finding is committed
    verdict,   \* classification of the item's finding
    cursor,    \* sync_state.last_modified_after
    lock,      \* vooda:source_scan:lock
    row,       \* scan_jobs.status; "flushed" is inserted but not committed
    full,      \* config.force_full
    tid,       \* celery_task_id is stored
    age,       \* since created_at, counted up to the stall threshold
    msg,       \* jobs with a message in the queue
    pc,        \* where the execution of a job is
    view,      \* what its session loaded of the source and of the row
    todo,      \* items not visited yet
    seen,      \* seen_locators
    unread,    \* history: items it did not read although it had to
    batch,     \* items read since the last commit, with the stamp read
    cur,       \* the adapter's updated cursor
    gaps,      \* history: changes no finished walk will find again
    slipped,   \* history: executions whose lock was swept under them
    faults,    \* faults still allowed
    scans      \* scans dispatched

Items == 1 .. NumItems

contentVars  == <<stamp, time>>
findingVars  == <<stored, verdict>>
rowVars      == <<row, full, tid, age>>
scanVars     == <<view, todo, seen, unread, batch, cur>>
historyVars  == <<gaps, slipped>>
boundVars    == <<faults, scans>>
sourceScanVars == <<contentVars, findingVars, cursor, rowVars, lock, msg, pc, scanVars,
                    historyVars, boundVars>>

Active   == {"pending", "running"}
Settled  == {"ended"}    \* completed, failed or cancelled: nothing here depends on which
Visible(j) == row[j] \in Active \cup Settled

\* Classifications a sweep may resolve; "decided" stands for a person's verdict.
Verdicts == {"none", "open", "decided", "deleted"}

Nothing   == [i \in Items |-> 0]
NoView    == [cursor |-> 0, running |-> FALSE]

\* A job whose row has ended, and that nothing else of it is left of, makes room.
Gone(j) == row[j] \in {"none"} \cup Settled /\ lock # j /\ pc[j] = "idle" /\ j \notin msg

Working(j) == pc[j] \in {"start", "scan"}

\* An execution ends or begins: its locals are gone.
NoLocals(j) ==
    /\ view' = [view EXCEPT ![j] = NoView] /\ todo' = [todo EXCEPT ![j] = {}]
    /\ seen' = [seen EXCEPT ![j] = {}] /\ unread' = [unread EXCEPT ![j] = {}]
    /\ batch' = [batch EXCEPT ![j] = Nothing] /\ cur' = [cur EXCEPT ![j] = 0]
    /\ slipped' = slipped \ {j}

SourceInit ==
    /\ stamp = Nothing /\ time = 0
    /\ stored = Nothing /\ verdict = [i \in Items |-> "none"]
    /\ cursor = 0
    /\ lock = NoJob
    /\ row = [j \in Jobs |-> "none"] /\ full = [j \in Jobs |-> FALSE]
    /\ tid = [j \in Jobs |-> FALSE] /\ age = [j \in Jobs |-> 0]
    /\ msg = {} /\ pc = [j \in Jobs |-> "idle"]
    /\ view = [j \in Jobs |-> NoView] /\ todo = [j \in Jobs |-> {}]
    /\ seen = [j \in Jobs |-> {}] /\ unread = [j \in Jobs |-> {}]
    /\ batch = [j \in Jobs |-> Nothing] /\ cur = [j \in Jobs |-> 0]
    /\ gaps = {} /\ slipped = {}
    /\ faults = MaxFaults /\ scans = 0

Fault == faults > 0 /\ faults' = faults - 1 /\ scans' = scans

-----------------------------------------------------------------------------
(* The source, its owner, and time *)

\* A walk that is past the item does not see the change, and may move the
\* cursor over it.
Behind(i) == \E j \in Jobs : pc[j] = "scan" /\ i \notin todo[j]

Change(i) ==
    /\ time < MaxStamp
    /\ time' = time + 1 /\ stamp' = [stamp EXCEPT ![i] = time + 1]
    /\ gaps' = IF Behind(i) THEN gaps \cup {i} ELSE gaps \ {i}
    /\ UNCHANGED <<findingVars, cursor, rowVars, lock, msg, pc, scanVars, slipped, boundVars>>

Remove(i) ==
    /\ stamp[i] > 0 /\ Fault
    /\ stamp' = [stamp EXCEPT ![i] = 0] /\ gaps' = gaps \ {i}
    /\ UNCHANGED <<time, findingVars, cursor, rowVars, lock, msg, pc, scanVars,
                   slipped>>

\* A person accepts the risk or confirms a false positive.
Decide(i) ==
    /\ verdict[i] = "open" /\ Fault
    /\ verdict' = [verdict EXCEPT ![i] = "decided"]
    /\ UNCHANGED <<contentVars, stored, cursor, rowVars, lock, msg, pc, scanVars,
                   historyVars>>

\* Time passes.  A source scan never stamps heartbeat_at, so that its row is
\* silent since it was created; it is counted up to the threshold.
Aging(j) == ~Gone(j) /\ age[j] < StallThreshold

Pass ==
    /\ \E j \in Jobs : Aging(j)
    /\ age' = [j \in Jobs |-> IF Aging(j) THEN age[j] + 1 ELSE age[j]]
    /\ UNCHANGED <<contentVars, findingVars, cursor, row, full, tid, lock, msg, pc, scanVars,
                   historyVars, boundVars>>

Stalled(j) == age[j] = StallThreshold

-----------------------------------------------------------------------------
(* Dispatch *)

NewRow(j, status, isFull, withId) ==
    /\ Gone(j) /\ scans < MaxScans /\ scans' = scans + 1
    /\ row'  = [row EXCEPT ![j] = status]
    /\ full' = [full EXCEPT ![j] = isFull]
    /\ tid'  = [tid EXCEPT ![j] = withId]
    /\ age'  = [age EXCEPT ![j] = 0]

\* _trigger_due_sources: the message leaves before the row is committed, and
\* the source stays due until some scan of it has ended.  Any time may pass
\* between two steps, so the source may be due, and overdue for a sweep, in any.
DispatchDue(j) ==
    /\ NewRow(j, "flushed", FALSE, TRUE)
    /\ msg' = msg \cup {j}
    /\ UNCHANGED <<contentVars, findingVars, cursor, lock, pc, scanVars, historyVars, faults>>

\* _run_weekly_source_full_sweep: the same, with force_full; its rows are
\* committed together when all sources have been dispatched, 30 s apart.
DispatchSweep(j) ==
    /\ NewRow(j, "flushed", TRUE, TRUE)
    /\ msg' = msg \cup {j}
    /\ UNCHANGED <<contentVars, findingVars, cursor, lock, pc, scanVars, historyVars, faults>>

DispatchCommit(j) ==
    /\ row[j] = "flushed"
    /\ row' = [row EXCEPT ![j] = "pending"]
    /\ UNCHANGED <<contentVars, findingVars, cursor, full, tid, age, lock, msg, pc,
                   scanVars, historyVars, boundVars>>

\* The beat task dies or its commit fails: the message is out, the row is not.
DispatchAbort(j) ==
    /\ row[j] = "flushed" /\ Fault
    /\ row' = [row EXCEPT ![j] = "none"]
    /\ UNCHANGED <<contentVars, findingVars, cursor, full, tid, age, lock, msg, pc,
                   scanVars, historyVars>>

\* trigger_source_scan: refused while the lock is taken, commits before it
\* sends, ignores a send that fails, and never stores the task's id.
Trigger(j) ==
    /\ lock = NoJob /\ faults > 0 /\ faults' = faults - 1
    /\ NewRow(j, "pending", FALSE, FALSE)
    /\ msg' \in {msg, msg \cup {j}}
    /\ UNCHANGED <<contentVars, findingVars, cursor, lock, pc, scanVars, historyVars>>

-----------------------------------------------------------------------------
(* An execution of run_source_scan *)

Base(j) == IF full[j] THEN 0 ELSE view[j].cursor

\* source_scan_no_job: the row is not committed yet, the message is acknowledged.
LoadMissing(j) ==
    /\ j \in msg /\ pc[j] = "idle" /\ ~Visible(j)
    /\ msg' = msg \ {j}
    /\ UNCHANGED <<contentVars, findingVars, cursor, rowVars, lock, pc, scanVars,
                   historyVars, boundVars>>

\* The source is loaded before the lock is taken, whatever the row says.
Load(j) ==
    /\ j \in msg /\ pc[j] = "idle" /\ Visible(j)
    /\ msg' = msg \ {j} /\ pc' = [pc EXCEPT ![j] = "lock"]
    /\ view' = [view EXCEPT ![j] = [cursor |-> cursor, running |-> row[j] = "running"]]
    /\ UNCHANGED <<contentVars, findingVars, cursor, rowVars, lock, todo, seen, unread,
                   batch, cur, historyVars, boundVars>>

Acquire(j) ==
    /\ pc[j] = "lock" /\ lock \in {NoJob, j}
    /\ lock' = j /\ pc' = [pc EXCEPT ![j] = "start"]
    /\ UNCHANGED <<contentVars, findingVars, cursor, rowVars, msg, scanVars,
                   historyVars, boundVars>>

SkipConcurrent(j) ==
    /\ pc[j] = "lock" /\ lock \notin {NoJob, j}
    /\ row' = [row EXCEPT ![j] = "ended"] /\ pc' = [pc EXCEPT ![j] = "idle"]
    /\ NoLocals(j)
    /\ UNCHANGED <<contentVars, findingVars, cursor, full, tid, age, lock, msg, gaps, boundVars>>

\* The commit of RUNNING, which changes nothing in a session that loaded RUNNING.
Start(j) ==
    /\ pc[j] = "start"
    /\ row' = IF view[j].running THEN row ELSE [row EXCEPT ![j] = "running"]
    /\ pc' = [pc EXCEPT ![j] = "scan"]
    /\ todo' = [todo EXCEPT ![j] = Items]
    /\ seen' = [seen EXCEPT ![j] = {}] /\ unread' = [unread EXCEPT ![j] = {}]
    /\ batch' = [batch EXCEPT ![j] = Nothing]
    /\ cur' = [cur EXCEPT ![j] = Base(j)]
    /\ UNCHANGED <<contentVars, findingVars, cursor, full, tid, age, lock, msg, view,
                   historyVars, boundVars>>

\* An error between the lock and the first try block: nobody frees the lock.
StartFails(j) ==
    /\ pc[j] = "start" /\ Fault
    /\ pc' = [pc EXCEPT ![j] = "idle"]
    /\ NoLocals(j)
    /\ UNCHANGED <<contentVars, findingVars, cursor, rowVars, lock, msg, gaps>>

\* The adapter cannot be built, or its preflight fails (which stamps last_scan_at).
PreflightFails(j) ==
    /\ pc[j] = "scan" /\ todo[j] = Items /\ Fault
    /\ row' = [row EXCEPT ![j] = "ended"] /\ pc' = [pc EXCEPT ![j] = "release"]
    /\ NoLocals(j)
    /\ UNCHANGED <<contentVars, findingVars, cursor, full, tid, age,
                   lock, msg, gaps>>

Visiting(j, i) == pc[j] = "scan" /\ i \in todo[j] /\ \A k \in todo[j] : i <= k
Newer(j, i)    == stamp[i] > Base(j)

Later(a, b) == IF a > b THEN a ELSE b

Read(j, i) ==
    /\ Visiting(j, i) /\ Newer(j, i)
    /\ todo'  = [todo EXCEPT ![j] = @ \ {i}]
    /\ seen'  = [seen EXCEPT ![j] = @ \cup {i}]
    /\ batch' = [batch EXCEPT ![j][i] = stamp[i]]
    /\ cur'   = [cur EXCEPT ![j] = Later(@, stamp[i])]
    /\ UNCHANGED <<contentVars, findingVars, cursor, rowVars, lock, msg, pc, view,
                   unread, historyVars, boundVars>>

\* Not in the listing, or not newer than the cursor.
PassOver(j, i) ==
    /\ Visiting(j, i) /\ ~Newer(j, i)
    /\ todo'   = [todo EXCEPT ![j] = @ \ {i}]
    /\ unread' = [unread EXCEPT ![j] = IF stamp[i] = 0 THEN @ \cup {i} ELSE @]
    /\ UNCHANGED <<contentVars, findingVars, cursor, rowVars, lock, msg, pc, view, seen,
                   batch, cur, historyVars, boundVars>>

\* get_object fails: the adapter goes on with the next object.
ReadFails(j, i) ==
    /\ Visiting(j, i) /\ Newer(j, i) /\ Fault
    /\ todo'   = [todo EXCEPT ![j] = @ \ {i}]
    /\ unread' = [unread EXCEPT ![j] = @ \cup {i}]
    /\ UNCHANGED <<contentVars, findingVars, cursor, rowVars, lock, msg, pc, view, seen,
                   batch, cur, historyVars>>

\* The scanner fails on the content: seen, and passed by the cursor, without a finding.
ScanFails(j, i) ==
    /\ Visiting(j, i) /\ Newer(j, i) /\ Fault
    /\ todo'   = [todo EXCEPT ![j] = @ \ {i}]
    /\ seen'   = [seen EXCEPT ![j] = @ \cup {i}]
    /\ unread' = [unread EXCEPT ![j] = @ \cup {i}]
    /\ cur'    = [cur EXCEPT ![j] = Later(@, stamp[i])]
    /\ UNCHANGED <<contentVars, findingVars, cursor, rowVars, lock, msg, pc, view,
                   batch, historyVars>>

-----------------------------------------------------------------------------
(* The end of an execution *)

\* Every 50 items, and at the end: what was read is committed.  A finding that
\* exists keeps its classification.
Stored(j) == [i \in Items |-> Later(stored[i], batch[j][i])]

Found(j) == [i \in Items |-> IF verdict[i] = "none" /\ batch[j][i] > 0 THEN "open"
                             ELSE verdict[i]]

StillMissing(G) == {i \in G : stored'[i] # stamp[i]}

CommitBatch(j) ==
    /\ pc[j] = "scan" /\ batch[j] # Nothing
    /\ stored' = Stored(j) /\ batch' = [batch EXCEPT ![j] = Nothing]
    /\ verdict' = Found(j)
    /\ gaps' = StillMissing(gaps)
    /\ UNCHANGED <<contentVars, cursor, rowVars, lock, msg, pc, view, todo, seen, unread,
                   cur, slipped, boundVars>>

\* sync_state is written whole, and only if it differs from what was loaded.
WriteSyncState(j) == cursor' = IF cur[j] = view[j].cursor THEN cursor ELSE cur[j]

\* Mutant: the pass runs after an incremental scan too.
TombstonedByAnyScan(j) == {i \in Items : Found(j)[i] = "open" /\ i \notin seen[j]}

\* The tombstone pass of a full sweep resolves open findings of items not seen.
Tombstoned(j) ==
    IF full[j] THEN {i \in Items : Found(j)[i] = "open" /\ i \notin seen[j]} ELSE {}

Finish(j) ==
    /\ pc[j] = "scan" /\ todo[j] = {}
    /\ stored' = Stored(j) /\ NoLocals(j)
    /\ verdict' = [i \in Items |-> IF i \in Tombstoned(j) THEN "deleted" ELSE Found(j)[i]]
    /\ gaps' = StillMissing(gaps \cup {i \in unread[j] : stamp[i] > 0})
    /\ WriteSyncState(j)
    /\ row' = [row EXCEPT ![j] = "ended"] /\ pc' = [pc EXCEPT ![j] = "release"]
    /\ UNCHANGED <<contentVars, full, tid, age, lock, msg, boundVars>>

\* Mutant: a walk that failed writes the cursor like one that finished.
FailAdvances(j) ==
    /\ pc[j] = "scan" /\ Fault
    /\ stored' = Stored(j) /\ NoLocals(j)
    /\ verdict' = Found(j)
    /\ gaps' = StillMissing(gaps)
    /\ WriteSyncState(j)
    /\ row' = [row EXCEPT ![j] = "ended"] /\ pc' = [pc EXCEPT ![j] = "release"]
    /\ UNCHANGED <<contentVars, full, tid, age, lock, msg>>

\* An exception of the walk: what was read is committed, the cursor is not.
Fail(j) ==
    /\ pc[j] = "scan" /\ Fault
    /\ stored' = Stored(j) /\ NoLocals(j)
    /\ verdict' = Found(j)
    /\ gaps' = StillMissing(gaps)
    /\ row' = [row EXCEPT ![j] = "ended"] /\ pc' = [pc EXCEPT ![j] = "release"]
    /\ UNCHANGED <<contentVars, cursor, full, tid, age, lock, msg>>

\* A database error: the handler's own commit fails too, the row stays running.
FailHard(j) ==
    /\ pc[j] = "scan" /\ Fault
    /\ pc' = [pc EXCEPT ![j] = "release"]
    /\ NoLocals(j)
    /\ UNCHANGED <<contentVars, findingVars, cursor, rowVars, lock, msg, gaps>>

\* Mutant: the finally block deletes the key without comparing.
ReleaseBlindly(j) ==
    /\ pc[j] = "release"
    /\ lock' = NoJob
    /\ pc' = [pc EXCEPT ![j] = "idle"]
    /\ NoLocals(j)
    /\ UNCHANGED <<contentVars, findingVars, cursor, rowVars, msg, gaps, boundVars>>

\* Compare-and-delete: a lock that was swept and taken by another stays his.
Release(j) ==
    /\ pc[j] = "release"
    /\ lock' = IF lock = j THEN NoJob ELSE lock
    /\ pc' = [pc EXCEPT ![j] = "idle"]
    /\ NoLocals(j)
    /\ UNCHANGED <<contentVars, findingVars, cursor, rowVars, msg, gaps,
                   boundVars>>

Dies(j) == pc' = [pc EXCEPT ![j] = "idle"]

\* The worker is lost: acks_late and reject_on_worker_lost queue the message again.
Crash(j) ==
    /\ pc[j] # "idle" /\ Fault
    /\ Dies(j) /\ msg' = msg \cup {j}
    /\ NoLocals(j)
    /\ UNCHANGED <<contentVars, findingVars, cursor, rowVars, lock, gaps>>

\* The hard time limit, or a send that was lost: nothing is queued again.
HardLimit(j) ==
    /\ pc[j] # "idle" /\ Fault
    /\ Dies(j)
    /\ NoLocals(j)
    /\ UNCHANGED <<contentVars, findingVars, cursor, rowVars, lock, msg, gaps>>

-----------------------------------------------------------------------------
(* The watchdog, the cancel button and the lock sweeper *)

\* A revoke reaches the execution or the message of a task whose id was stored.
Revoke(j) ==
    \/ UNCHANGED <<pc, msg, scanVars, slipped>>
    \/ /\ tid[j]
       /\ pc' = [pc EXCEPT ![j] = "idle"] /\ msg' = msg \ {j} /\ NoLocals(j)

\* Mutant: a row whose message was lost before any worker took it is not watched.
WatchdogOfRunning(j) ==
    /\ row[j] = "running" /\ Stalled(j)
    /\ row' = [row EXCEPT ![j] = "ended"]
    /\ Revoke(j)
    /\ UNCHANGED <<contentVars, findingVars, cursor, full, tid, age, lock, gaps, boundVars>>

\* _cleanup_stale_running_scans: no progress since the row was created.  The
\* absolute limit is never the shorter of the two.
Watchdog(j) ==
    /\ row[j] \in Active /\ Stalled(j)
    /\ row' = [row EXCEPT ![j] = "ended"]
    /\ Revoke(j)
    /\ UNCHANGED <<contentVars, findingVars, cursor, full, tid, age,
                   lock, gaps, boundVars>>

\* Of a source that feeds a repository; the source's lock is left alone.
Cancel(j) ==
    /\ row[j] \in Active /\ Fault
    /\ row' = [row EXCEPT ![j] = "ended"]
    /\ Revoke(j)
    /\ UNCHANGED <<contentVars, findingVars, cursor, full, tid, age, lock, gaps>>

\* Mutant: only the locks of scans that are not over are looked at.
LockSweepOfActive(j) ==
    /\ lock = j /\ row[j] \in Active /\ Stalled(j)
    /\ lock' = NoJob
    /\ slipped' = IF Working(j) THEN slipped \cup {j} ELSE slipped
    /\ UNCHANGED <<contentVars, findingVars, cursor, rowVars, msg, pc, scanVars, gaps, boundVars>>

\* _is_lock_releasable: the holder's row is gone, over, or a zombie's.
Releasable(j) == ~Visible(j) \/ row[j] \in Settled \/ Stalled(j)

LockSweep(j) ==
    /\ lock = j /\ Releasable(j)
    /\ lock' = NoJob
    /\ slipped' = IF Working(j) THEN slipped \cup {j} ELSE slipped
    /\ UNCHANGED <<contentVars, findingVars, cursor, rowVars, msg, pc, scanVars, gaps, boundVars>>

-----------------------------------------------------------------------------
Dispatch(j)  == DispatchDue(j) \/ DispatchSweep(j)
Message(j)   == LoadMissing(j) \/ Load(j)
Lock(j)      == Acquire(j) \/ SkipConcurrent(j)
Walk(j)      == Start(j) \/ Finish(j) \/ Release(j)
                \/ \E i \in Items : Read(j, i) \/ PassOver(j, i)

JobStep(j) ==
    \/ Dispatch(j) \/ DispatchCommit(j) \/ DispatchAbort(j) \/ Trigger(j)
    \/ Message(j) \/ Lock(j) \/ Walk(j) \/ CommitBatch(j)
    \/ StartFails(j) \/ PreflightFails(j) \/ Fail(j) \/ FailHard(j)
    \/ \E i \in Items : ReadFails(j, i) \/ ScanFails(j, i)
    \/ Crash(j) \/ HardLimit(j)
    \/ Watchdog(j) \/ Cancel(j) \/ LockSweep(j)

SourceNext ==
    \/ \E j \in Jobs : JobStep(j)
    \/ \E i \in Items : Change(i) \/ Remove(i) \/ Decide(i)
    \/ Pass

\* Time passes and beat sends its two sweeps.  Nothing is expected of workers,
\* which may hang, of the queue, of the transaction that dispatches, of users.
SourceFairness ==
    /\ WF_sourceScanVars(Pass)
    /\ \A j \in Jobs : WF_sourceScanVars(Watchdog(j)) /\ WF_sourceScanVars(LockSweep(j))

SourceSpec == SourceInit /\ [][SourceNext]_sourceScanVars /\ SourceFairness

-----------------------------------------------------------------------------
(* Properties *)

\* Every variable has its type, and only a walk has items to visit or to commit:
\* no way out of an execution leaves its session's work behind.
SourceTypeOK ==
    /\ stamp \in [Items -> 0 .. MaxStamp] /\ time \in 0 .. MaxStamp
    /\ stored \in [Items -> 0 .. MaxStamp] /\ verdict \in [Items -> Verdicts]
    /\ cursor \in 0 .. MaxStamp
    /\ lock \in Jobs \cup {NoJob}
    /\ row \in [Jobs -> {"none", "flushed"} \cup Active \cup Settled]
    /\ full \in [Jobs -> BOOLEAN] /\ tid \in [Jobs -> BOOLEAN]
    /\ age \in [Jobs -> 0 .. StallThreshold]
    /\ msg \subseteq Jobs /\ pc \in [Jobs -> {"idle", "lock", "start", "scan", "release"}]
    /\ view \in [Jobs -> [cursor : 0 .. MaxStamp, running : BOOLEAN]]
    /\ todo \in [Jobs -> SUBSET Items] /\ seen \in [Jobs -> SUBSET Items]
    /\ unread \in [Jobs -> SUBSET Items] /\ batch \in [Jobs -> [Items -> 0 .. MaxStamp]]
    /\ cur \in [Jobs -> 0 .. MaxStamp]
    /\ gaps \subseteq Items /\ slipped \subseteq Jobs
    /\ faults \in 0 .. MaxFaults /\ scans \in 0 .. MaxScans
    /\ \A j \in Jobs : todo[j] # {} \/ batch[j] # Nothing => pc[j] = "scan"

\* Two executions work on the source at once only if the sweeper freed the lock
\* under one of them, whose row had ended or was silent for the stall threshold.
OneScanPerSource ==
    \A j, k \in Jobs : j # k /\ Working(j) /\ Working(k) => {j, k} \cap slipped # {}

\* The cursor never passes a change whose finding is not committed, through
\* crashes, stale views and overlapping scans, except a change the walk was
\* already past or could not read.
CursorCovers ==
    \A i \in Items : 0 < stamp[i] /\ stamp[i] <= cursor /\ stored[i] < stamp[i] => i \in gaps

\* No scan, sweep or rescan takes a person's verdict back.
DecisionsKept ==
    [][\A i \in Items : verdict[i] = "decided" => verdict'[i] = "decided"]_verdict

\* A finding is resolved as deleted only by a full sweep that found the item
\* absent, or failed to read it.
TombstoneHasCause ==
    [][\A i \in Items : verdict'[i] = "deleted" /\ verdict[i] # "deleted"
          => \E j \in Jobs : full[j] /\ i \in unread[j]]_verdict

\* When no more scans are dispatched, the source's lock is free for good, whatever
\* died or hung while it held it, whoever took it again for a row that was over.
SourceNotWedged == <>[](lock = NoJob)

\* And every row has ended for good: those whose message was acknowledged before
\* they were committed, those whose worker hangs, those a zombie opened again.
SourceRowsSettle == \A j \in Jobs : <>[](row[j] \notin Active)
=============================================================================
