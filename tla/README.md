# A verification project for vooda.ai

vooda.ai is a self-hosted secret scanner: a FastAPI application takes requests,
Celery workers clone repositories and scan them, Celery beat repairs what the
workers leave behind, PostgreSQL keeps the rows, Redis carries the broker, the
locks, the caches and the live progress.  This directory holds TLA+ models of
the parts of it whose correctness depends on the order in which those processes
act, the TLC configurations that check them, and TLAPS proofs about them.

## 1. The system: components, state, operations

| component | state it keeps | operations | what is hard |
|---|---|---|---|
| Scan job lifecycle (`apps/worker/tasks.py`, `routers/repositories.py`, `models/scan.py`) | `scan_jobs`: status, heartbeat, progress, task id | trigger, run (8 phases), cancel, delete, force-fail, time out | six writers of one column, each a read and a later write in another transaction |
| Repository scan lock (`services/repo_scan/concurrency.py`) | one Redis key per (repository, branch) with a TTL | acquire, re-entrant take, release, sweep | a lease without renewal or fencing; frees and takes race |
| Watchdog and sweeper (beat tasks in `tasks.py`) | none of their own | reap abandoned rows, free orphaned locks | decide on a row, act later, on a batch |
| Celery broker and workers (`celery_app.py`) | messages, prefork children | deliver, acknowledge late, requeue a lost worker's message, hard limit, revoke | at least once; revoke is a broadcast that may be missed |
| Scan CPU slots (`repo_scan/concurrency.py`) | a Redis counter | claim a share, give it back, reconcile | leaks, drift, a sum that is to stay near a budget |
| Source scans (`services/source_scanners` with 27 adapters, `tasks._run_source_scan`) | `sync_state` cursor, a Redis lock, findings per item | dispatch (schedule, sweep, request), walk, tombstone, sweep the lock | the cursor must not pass items that were not stored |
| Webhook scans (`services/webhooks`, `tasks._run_webhook_scan`) | the shared clone, the branch's watermark | dispatch, check a commit out, scan a diff | no lock; lost pushes; pushes that overtake one another |
| Scheduler (`services/scheduler/engine.py`) | last run per repository and source | find what is due, dispatch, record | dispatch before commit; in-place change of a JSON column |
| AI triage (`services/ai_triage`, `tasks.run_ai_triage_retro`) | verdicts on findings | group, run a batch under a concurrency bound, apply; run again on a finished scan | partial failure, cancel in the middle of a batch, a row that returns to life |
| Secret verification (`services/secret_verification`) | cache of verdicts, token buckets | batch with a deadline, cache, rate limit | stragglers at the deadline, stale verdicts, clocks of several hosts |
| Notifications and tickets (`services/notifications`, `services/ticketing`, `tasks.dispatch_findings_to_tickets`) | delivery rows, markers in findings' tags | send, retry with backoff, dead-letter; file one ticket per finding and board | a crash between sending and recording |
| Finding state (`core/finding_*.py`, ADR 0001) | classification, provenance, lifecycle | triage, decide, suppress, reopen | who may overwrite whom |
| Incidents (`tasks._upsert_secret_incident`, `routers/incidents.py`) | one row per secret | upsert by scans, versioned edit by people | scans racing with people and with each other |
| Suppressions (`services/suppressions`, `routers/suppressions.py`), decision cache, learning, correlation | rules, reasons of hidden rows, remembered verdicts | apply, unapply, review, replay, invalidate | precedence and staleness; Core UPDATEs under sessions |
| File cache, checkpoints (`repo_branch_checkpoints`, `git_history.py`) | per-file results, last scanned commit and rule pack per branch, removed-from-code markers | warm, flush, advance, mark | a checkpoint ahead of what was stored |
| Findings import (`routers/imports.py`, `tasks._run_import_scan`) | idempotency keys, payloads, findings, incidents' counts | accept, replay, store | redelivery; imports of one finding side by side |
| Detection engine, reporting, integrations, web and CLI clients | - | text matching, rendering, calls to other services | not protocols: left out |

Interaction.  The API publishes a Celery message and commits the row afterwards
(in that order).  A prefork child takes the message, loads the row, takes the
Redis lock, commits phase after phase, and releases the lock in a `finally`
block; the message is acknowledged when the task returns.  Cancel and delete
requests, the watchdog and the sweeper act on the same row and key from other
processes, and learn what the worker did only from the database and Redis.

What makes each component correct, in a sentence: a scan ends, once, in a
terminal state that says what happened; two scans do not work on one checkout; a
cancel is respected; a released or swept lock is the one that was meant; the sum
of the pools stays within the budget; a cursor or checkpoint never passes work
that was not stored; a notification is delivered or reported lost; a person's
decision is not undone by a machine.

## 2. Modules

| module | what it is |
|---|---|
| `ScanLifecycle` | the scan row, the message, the executions, the lock, the beat tasks, time; its properties |
| `ScanExclusion` | the same system with a history variable, the inductive invariant of the lock, and what the lock promises |
| `ScanCpuSlots` | the gauge of file walks and the shares of the cores |
| `NotificationRetries` | failed notifications, the retry task's batches, the version column |
| `NotificationPromise` | what the retry queue promises of one failed notification, without runs, locks and versions |
| `SourceScan` | scans of a bucket: dispatch, lock, walk, cursor, tombstones, the beat tasks that repair them |
| `SourceWalk` | how 27 adapters page through a source, compare, skip and fail |
| `RepoCheckpoint` | incremental scans: watermark and rule pack per branch, the shared clone, webhook scans, markers |
| `FindingTriage` | who decides about a finding: people, cascades, scans, replayed decisions, the AI |
| `SecretVerification` | verification passes, their cache, rotation events, the inline verification of a scan |
| `RateLimiter` | the token bucket in Redis the workers share |
| `FindingsImport` | the import request with its key, the task, the findings and the incidents' counts |
| `Suppressions` | what hides a finding and what brings it back: rules, verification, correlation |
| `ScanHistory` | counts and anchors of findings whose scans are deleted |
| `TicketFanout` | tickets for the findings of a scan, and the markers that remember them |
| `RetroTriage` | AI triage that is run again on a finished scan |
| `ScanExclusionProofs` | theorems of `ScanLifecycle`, `ScanExclusion` and `ScanCpuSlots` |
| `NotificationRetriesProofs` | theorems of `NotificationRetries`, with the refinement of `NotificationPromise` |
| `SourceScanProofs` | theorems of `SourceScan` |
| `SourceWalkProofs` | theorems of `SourceWalk` |
| `RepoCheckpointProofs` | theorems of `RepoCheckpoint` |
| `FindingRowsProofs` | theorems of `FindingTriage`, `FindingsImport`, `SecretVerification` and `RateLimiter` |
| `SuppressionsProofs` | theorems of `Suppressions` |
| `ScanRowsProofs` | theorems of `ScanHistory`, `RetroTriage` and `TicketFanout` |
| `MCScan`, `MCScanExclusion`, `MCNotificationRetries`, `MCSource`, `MCSourceWalk`, `MCCheckpoint` | values of the constants for TLC |
| `MCRedelivery`, `MCParts`, `MCRows`, `MCSettles` | several modules in one run: the initial state chooses the one that moves |

`ScanExclusion` extends `ScanLifecycle`, and `NotificationRetries` instantiates
`NotificationPromise`.  The others share only Celery, Redis and the database, and
within the database no row that two of them write in a way either depends on;
where they meet (an import and a scan upsert the same incident, a scan's
verification and its store write one row) the module that owns the property
has the other's writes as actions, or lists them as left out.

### How `ScanLifecycle` corresponds to the code

*The row.*  `status`, `silence` (age of `COALESCE(heartbeat_at, created_at)`) and
`age` (of `created_at`) are the row as committed.  `CommitPhase` is a commit that
carries a heartbeat, `CommitStatus` one that does not.  SQLAlchemy sends only
columns whose value changed, so an assignment of the status a session already
holds writes nothing: `OrmStatus`, which matters for a row loaded as `CANCELLED`
or `RUNNING`.  `loaded` is what the session holds until its first commit.

*The API.*  `Submit`/`SubmitCommit` are `trigger_scan` before and after its
commit; `Cancel`/`CancelCommit` are `cancel_scan` (revoke and release of the
scan's own lock in the first step, the status in the second, decided from the
row read in the first); `Delete`/`DeleteCommit` are `delete_scan`.
`SubmitAbort` and `RequestAbort` are requests whose transaction never commits.

*The worker.*  `pc` is the place in `run_scan_job`:

| `pc` | code |
|---|---|
| load | `_run_scan_job` up to the duplicate guard |
| lock, probe, retake, coalesce | `repo_scan_lock.__aenter__`: `SET NX`, `GET`, the plain `SET`; the handler of `LockNotAcquired` |
| start | the commit of RUNNING |
| scan | clone, fetch, analysis, history, file walk, storing: heartbeats only |
| triage | `_run_ai_triage`, with the honoured cancellation checkpoint |
| final, complete | the re-read of the status; the commit of COMPLETED |
| failing, stamp, unwind, fallback | the inner `except`, `_force_terminal_failure`, the `finally`, the handlers of `run_scan_job` |
| release, ack | the `finally` of a normal exit or a cancel; return of the task |

There is a step of its own wherever another process can run between two effects
of the code: between the `SET NX` and the `GET`, between the `GET` and the plain
`SET`, between the read and the write of `_force_terminal_failure`, between the
final re-read and the COMPLETED commit.

*The broker.*  `Take`, `Ack` (late), `Crash` (the message goes back:
`task_reject_on_worker_lost`), `DuplicateDelivery`, `HardLimit` (the message is
acknowledged), `RevokeHeard`, which a worker that misses the broadcast never
takes.

*Beat.*  `WatchdogSelect` and `WatchdogCommit` are
`_cleanup_stale_running_scans`, a SELECT and one commit for the batch, which fails
as a whole when a row of it was deleted.  `SweepRead` and `SweepRelease` are
`cleanup_stale_locks` per key.

*Time.*  `Tick` ages rows, leases and tasks by a unit.  A threshold of the code
is a constant of the model, and only the order of the thresholds and how many
steps fit between them matter.  Ages saturate one unit past the last comparison
that reads them.

*Abstracted or left out.*  What phases compute; progress percentages, messages,
audit rows, notifications.  The FAILED branch for a scan whose repository row is
gone.  `stats.run_started_at`, which only retro triage writes.  The cancel's GET
and compare-and-delete are one step or a failure.  A `SET NX` that succeeds but
whose reply is lost.  The batch limit of 500 rows of the watchdog.  The broker's
visibility timeout (16200 s) exceeds the task's hard limit, so it never
redelivers a running scan by itself; `DuplicateDelivery` stands for every other
source of a second copy (an operator's retry, a redeployment).  The post-scan
dispatch of verification and tickets.

### How `NotificationRetries` corresponds to the code

*The row.*  `status`, `attempts`, `version` are columns of
`notification_deliveries` as committed; `place` is the row's rank by
`next_retry_at` among the due ones, which is all the task's ORDER BY and LIMIT
read of it; `config` is whether its integration still exists.

*A run of the task.*  `Select` loads the batch into `mem`, the session's objects.
Rows are treated oldest first.  `LookUp` is the query for the integration; it
autoflushes the rows changed so far (`dirty` becomes `held`: written, locked, not
committed), which waits for another run's lock (`FlushRuns`) and fails on a
version that moved (`FlushMatches`, `Collide`).  A row whose `integration_config_id`
was NULL when loaded makes no query and no flush (`SkipUnbound`).  `Send` is the
channel call and the verdict on its result, `Commit` the one commit for the
batch, `End` what closing the session forgets.  The sends of a batch that
collides or crashes stay sent: delivery is at least once.

*Abstracted.*  Messages and channels; the lengths of the backoffs (a rescheduled
row becomes due some time later); two rows never share a rank; each row has an
integration of its own.  The in-app bell, routing, and the first dispatch up to
its failure are left out.

### How `SourceScan` corresponds to the code

*The source.*  An item is a key of the bucket; `stamp` is its LastModified as a
count of changes.  `stored` says up to which change its finding is committed,
`verdict` is the finding's classification as the tombstone pass sees it.

*Dispatch.*  `DispatchDue` and `DispatchSweep` flush the row and send the message;
`DispatchCommit` follows later, for sweeps after all other sources (`DispatchAbort`
when it never does).  `Trigger`, the request, commits first and stores no task id.

*An execution.*  `Load` reads source and row before the lock; `Acquire`,
`SkipConcurrent` are the two outcomes of the lock; `Start` commits RUNNING.
`Read`, `PassOver`, `ReadFails` and `ScanFails` are what can happen to an
object, `CommitBatch` the commit every 50 items (here after any number), `Finish` the
last transaction: findings, cursor, tombstones, status.  `Fail` is the handler of
an exception (which commits the batch but not the cursor), `FailHard` a handler
that fails too, `StartFails` an error before the try block, after which the lock
stays.  An execution is ended from outside by `Crash` (the message goes back or is
lost), `HardLimit`, and `Revoke`, with which the watchdog and a cancel send the signal
that a worker may miss.

*Repair.*  `Watchdog` reaps an active row that is silent for the threshold (`Stalled`),
`LockSweep` frees a lock whose row is terminal or silent (`Releasable`).  A source scan never
stamps a heartbeat, so that a row is silent since it was created: `age` counts that time
up to `StallThreshold`, which is `STALE_SCAN_THRESHOLD_MINUTES`, 90 unless the environment
says otherwise; `Pass` is time.  The watchdog's absolute limit is never the shorter one,
since the code clamps the other to it.  The lease of the lock, 2h20m, is longer than the
sweep ever leaves it, and is not modelled.  `Gone` lets the slot of a finished job serve the source's next scan, so that a run
of two slots may see three scans.

*Left out.*  Adapters other than S3, which `SourceWalk` has; verification and suppression of what is
found; statistics and errors kept on the source.  A listing is in key order, as
S3's is.

### How `RepoCheckpoint` corresponds to the code

A commit is its tree.  Scans of one repository share one clone directory:
`Refresh` fetches and checks out the branch (or the default branch when the fetch of
the branch fails), `ScanStale` is a failed refresh, `Plan` reads HEAD, the
watermark and the rule pack and decides between a full walk and a diff, `Walk`
stores findings, `MarkRemoved` writes the removed-from-code markers, `Stamp` is
the final commit with the watermark.  `StartWebhookScan`, `FinishWebhookScan` and
`FailWebhookScan` are `_run_webhook_scan`, which takes no lock.  `Abort` is every
way in which a requested scan ends without its final commit.  `whole` in a
watermark is history: its chain of diffs goes back to a walk of a whole tree.

*Left out.*  The file cache, an exact memo of path, content and pack; history
scans; the initial clone; the legacy `last_scanned_commit`; rows with a NULL
branch; two fetches that overwrite each other's FETCH_HEAD; a `git checkout` whose
failure is ignored; the class of closed findings, which are not marked.

### How `FindingTriage` corresponds to the code

`class` is `normalized_findings.classification`, `closed` whether its status is a
closed one, `named` whether it has a provenance.  `Write` is what
`set_classification` and `mirror_lifecycle` do to an object and a cascade's Core
UPDATE does in its statement; only the former bumps the version column (`Bump`).
`TriageFinding`, `BulkTriage`, `PatchIncident` and `DeleteRows` are the requests.  A
scan goes through phases: `StoreScan` is its store; `SelectReview`, `Lookup` and
`CommitReplay` are step 4d, which selects the scan's rows that need review, awaits
`lookup_cache` for one after the other, and writes and commits the objects that were hit;
`LoseReplay` is its handler of errors, a StaleDataError among them.  `LoadForAi` loads
what needs review in the repository, and `AiApply` is everything the AI phase writes,
from the objects it loaded minutes ago; `Over` is every way in which a scan ends without
another commit.  `loaded` are the objects of the phase, `stale` those whose version an ORM
write has moved since: a cascade's Core UPDATE moves none.

*Abstracted.*  A lookup's query flushes what was written so far, and locks those
rows until the commit; the model writes them at the commit, where the code's earlier
flush could only fail sooner.  What the AI phase does is one step, so that the moment
between its SELECT of the incident and its write is merged with it.  Exclusion of test
files.

### How `SecretVerification` corresponds to the code

A pass is one run of `_verify_findings_batch`: `Skip`, `FromCache`, `AskProvider`,
`NoAnswer` are the four ways in which the loop treats a finding, `CommitSome` and
`FinishPass` its commits, in which a version that moved ends the pass.  `VerifyInline`
is `_verify_batch` of a scan, whose deadline leaves some findings without an answer;
`StoreInline` the merge of its statuses into the rows, which writes no rotation event.  `Reverify` is the check after
a rotation, which has no raw secret to ask with and so fails.  `Paired` are the
findings a pass can ask about (those with both halves of a credential pair); the
pass has no raw secret of the others, so only the cache can answer for them.

### How `RateLimiter` corresponds to the code

`Acquire` reads the caller's clock; `TakeToken` and `FindEmpty` are the Lua script
with its two results, which both store the caller's time; `Wake` is the one
retry; `FailOpen` a Redis that does not answer.  A caller's time may be
`MaxDelay` old when its script runs, which also stands for a clock that is that
far behind.  `back` sums the ticks by which last_refill was moved back.

### How `FindingsImport` corresponds to the code

`Ask`, `Insert`, `LoseRace`, `CommitRequest` are the import endpoint around its
query, its flush on the unique index, and its commit, with the message sent in
between.  `Take` runs any row but a completed one.  `LookUp` is the query by
stability id with its autoflush, `Upsert` the INSERT ON CONFLICT that locks the
incident, `Finish` counts and commits.  `FailStale` (a version moved),
`FailAmbiguous` (two rows for one id), `FailDeadlock` and `FailOther` roll back and
fail the row; `Die`, `Watchdog` and `Cancel` come from outside.

### How `ScanCpuSlots` corresponds to the code

`TakeSlot` is the INCR and the share of its result, `TakeSlotUncounted` the
failure of Redis (one process), `GiveBack` the DECR with its floor, `Leak` a walk
that dies, `CountRows` and `Reconcile` the two halves of the beat task, `Expire`
the TTL.  The count is any number: rows are pending, analyzing or of other kinds
of scan, and rows of walks may have been reaped.

### How `Suppressions` corresponds to the code

*Rules.*  `scope` is the set of findings a rule's criteria match ({} is no row),
`active` and `review` its two switches; `Enabled` is `_active_rules`, which leaves out
a proposal.  `Create` and `Learn` are the creating requests and the learning pass,
`Open`/`Edit` and `Open`/`Decide` the requests that load a rule and write it afterwards
(`desk` is what they have read), `BeginDelete` and `FinishDelete` the deletion around
its commit, `Drop` a request that fails.  `Rehide` is `unapply_rule` and then
`apply_rule_to_existing`: the first is a Core UPDATE, which moves no version.

*Scans.*  `Store` keeps the rows of a scan with what verification says of them (`Dead`,
`Alive`), `LoadRules`, `Pass` and `LearnAndPass` are the rules at the end of a scan
that created something, `Correlate` hides all but one of the twins, `HookStore` the
one transaction of a webhook or source scan.  `Clash` is the version check of a
commit, `PassLost` and `Abort` what happens when it fails.

*Abstracted or left out.*  How criteria match; preview and counts of matches; chunks
of a store.

### How `RetroTriage` corresponds to the code

`Ask` and `Dispatch` are `trigger_ai_triage_retro` before and after the message is
published, `DispatchUnwritten` a request that fails in between.  `StartTask` is the head of
`run_ai_triage_retro`, which takes the row whatever it says and stamps heartbeat and
`stats.run_started_at`; `Beat` is the progress callback, which notices a cancel and has
its exception swallowed; `FinishTask`, `StartFails`, `HardLimit` and `WorkerDies` are
the ways out.  `silence` and `runAge` saturate at the watchdog's two limits.

### How `ScanHistory` corresponds to the code

`anchor` is `scan_job_id`, `count` is `scan_count`.

*Scans.*  `BeginScan` is the request; `ExecuteScan` an execution of its message, the first
or, when the message is delivered again and the row's heartbeat is not fresh, another: it
loads the rows it will find, with their counts.  `StoreSeen` is a commit of a chunk of
them (a webhook commits all at once): a requested scan moves the anchor, a webhook does
not, each increments the count it loaded.  A row whose version has moved since fails the
commit.  `Stop` is an execution that is over, `EndScan` the end of the row, in any order,
since rows are reaped and cancelled under live executions.

*A deletion* is `delete_scan`, statement by statement: `SelectSurvivor` has the check of
the status and the newest other scan, `UpdateKept` the UPDATE that moves rows counted more
than once (and locks them until the end: `kept`), `DeleteLost` the DELETEs with the
commit, `DeleteFails` the rollback.  Several may be under way.  A foreign key makes the
DELETE of a scan wait while rows of another's UPDATE refer to it, and fails an UPDATE
whose survivor is gone.

`sightings` (the executions that stored a row), `moved` and `late` are history.

*Left out.*  Two executions of one scan at a time, which `ScanLifecycle` has; source scans
and imports, whose stores count as a webhook's or a scan's does.

### How `TicketFanout` corresponds to the code

`Load` is the query of the fan-out task, `PassOver`, `Send` and `Drops` what the
dispatcher does with one row and one board, `Commit` the single commit of the
markers, `Conflict` a row somebody wrote meanwhile, `Fails` and `Countdown` the retry
with its delay, `Crash` a lost worker, whose message comes back without a retry being
counted.  `ScanEnds` is a scan (the fan-out is sent only if it created something),
`Rule` and `EditTags` are people.  A board is `Keyed` if its answer holds a key the
dispatcher looks for.  Routing and push rules are the set `worthy`.

### How `SourceWalk` corresponds to the code

`SourceScan` has the scan around one adapter; `SourceWalk` reduces the scan to `Start`,
`Finish` and `Fail`, and has the adapters: each is a record of how it walks (`Profile`,
one per adapter, the fields explained at the head of the module).  `ReadItem`,
`ReadFails`, `PageFails`, `PlacesFail` and `EndPlace` are the steps of the loops, with
`Filtered` and `Raised` for the comparison with the cursor and its advance, and
`NextPage` for what the next request returns when the list has changed meanwhile.  `Put`
and `Remove` are the source itself.

The factory of this edition makes fourteen of the adapters (`Wired`); the other
thirteen are in the tree, with no way to reach them, and walk by the same rules.

*Abstracted or left out.*  A page is one item, an item one secret; comments and
attachments of an item; filters by name, type and size; credentials, formats and
connection tests; the per-adapter limits on the bytes of an item.

### How `NotificationPromise` relates to the queue

`hopeless` is refined by the rows whose integration is gone or whose payload is
broken; `status` and `attempts` are the committed columns.  A commit of a batch is one
`Record`; everything a run does before is a stutter.

## 3. Properties and runs

All runs set `CHECK_DEADLOCK FALSE`: users owe the system nothing, so with no
scan or delivery left and no incident left to happen it may stop.

| run | properties | instance |
|---|---|---|
| `scan_two_jobs` | `Exclusion` | 2 scans of one branch, 2 workers, 1 key, all times 1, one cancel |
| `scan_redelivery` | `TypeOK`, `SameScanOnce`, `ReleasesOnlyItsOwn`, `CancelSurvivesTriage`; `HistoryInv`, `UnmovedRowsOutlive` | 1 scan, 2 workers, any two incidents of all seven kinds; 1 finding, 2 scans and a webhook, one execution again, a deletion of each |
| `scan_settles` | `EveryScanSettles`, under fairness | 1 scan, 2 workers, any one incident |
| `notification_retries` | `DeadLetterIsEarned`, `RowsMoveForward`, `ImplementsPromise`, and `EveryDeliverySettles` under fairness | 2 deliveries, one with a broken payload, 2 overlapping runs, 2 retries, a batch of 2, one worker death |
| `source_scans` | `OneScanPerSource`, `CursorCovers`, `TombstoneHasCause` | 2 objects, 2 jobs, 3 scans, 2 changes, one fault of any kind |
| `source_walks` | `WalkInv`, `SweepsAreSound` | 13 adapters, 2 items in 2 places or on 2 pages, 2 times, one fault |
| `settles` | `SweepsCatchUp`, `SourceNotWedged`, `SourceRowsSettle`, `RetroSettles`, under fairness, and `NoLiveRunReaped` | walks of 2 adapters, 2 items, 1 time, one fault; scans of 1 object, 2 jobs, 2 scans, one fault; 2 requests for triage, limits 1, 2 and 3, two faults |
| `repo_checkpoints` | `CheckpointInv`, `PackIsHonest`, `FullScanSetsMarkers` | 2 files, 2 branches, 2 rule packs, 2 pushes, 2 requested scans |
| `parts` | `PersonalVerdictKept`, `MachinesNeverOverrule`, `ReplayIsFaithful`; `VerificationInv`, `EventOnTheTurn`; `GrantsBounded`; `OneJobPerKey`, `CompletedMeansStored`, `DuplicateNeedsOverlap`, `CountsAreExact`; `SlotsInv` | 2 findings and scans; 2 credentials and passes; 2 callers; 3 imports of 2 items; 3 walks |
| `rows` | `SuppressionInv`, `ReasonsAreOwn`; `TicketInv`, `DuplicateNeedsLoss` | 2 twins, 2 rules, 2 admins, a scan and a webhook, 2 scans, 2 requests; 2 findings, 2 boards, 2 scans, one retry, one upset |
| `cancel_is_final` | expects a violation of `CancelIsFinal` | 1 scan |
| `sweep_resolves_only_deleted` | expects a violation of `SweepResolvesOnlyDeleted` | one S3 source |

The last two check a sentence of the repository that the code does not keep, and the
trace is the counterexample: the first commit of a scan overwrites a cancel whose
revoke was missed, and an object that could not be read is resolved as deleted.

`scan_redelivery`, `parts`, `rows` and `settles` hold modules that share no variable.
`part` is chosen in the initial state and never changes, and only the chosen module's next-state relation
is enabled, so each is explored by itself from its own initial states, under its
own properties.

*Exclusion and its excuses.*  Unconditional mutual exclusion is false in the
code, by its own design: the lock is a lease.  `ScanExclusion` therefore records
in `excused` the executions that have had a lapse since they last stood on firm
ground.  A lapse is one of: the lease ran out while held; a cancel freed it; the
row became terminal or silent, so the sweeper may free it; a second delivery of
the same scan got past the duplicate guard before the first had marked the row
RUNNING; a late re-entrant take overwrote another scan's lock.  An execution
loses the excuse when it again owns its lock on a live row with nobody about to
act on that lock (`FirmGround`).  `Exclusion` and `SameScanOnce` say there is no other way:
a missing state in the sweeper's verdict or in the duplicate guard breaks them.

*Cancellation.*  `CancelSurvivesTriage` is the part of the contract the code
keeps: once a cancel commits while the scan is in triage or before its final
check, the execution neither overwrites it nor claims success.  The part it does
not keep is the run `cancel_is_final`.

*Settling.*  `EveryScanSettles` is `<>[]`: the row leaves the running states and
stays out, although a zombie execution may reopen a reaped row.  Fairness is
weak, on `Tick` (time passes), on `WatchdogSelect` and `WatchdogCommit` (beat runs
the task every minute), and on `HardLimit` (Celery's parent process kills the
child).  Nothing is assumed of users, of workers (a worker may hang anywhere) or
of the sweeper.

*Retries.*  `RowsMoveForward` is what the version column is for: with runs of the
task overlapping, a settled delivery stays settled and attempts are counted one
by one.  `DeadLetterIsEarned` pins the budget: one dispatch and
`MAX_RETRY_ATTEMPTS` retries, so six attempts in all (the docstring of
`notification_delivery.py` counts five).  `EveryDeliverySettles` assumes weak
fairness of the clock, of starting some run (beat, every minute) and of each
run's next step (every channel call has a timeout); it holds although a
collision forgets a whole batch, because whoever caused it has committed.

*Sources.*  `OneScanPerSource`: two executions walk one source only if the
lock of one was swept under it, whose row had ended (reaped or cancelled under the
execution) or was silent for the threshold.  `CursorCovers`:
every item whose last change is not newer than the cursor is stored in that change,
unless it is in `gaps`: it could not be read, or changed behind a walk that then
moved the cursor over it; a walk that fails must not move the cursor.
`TombstoneHasCause`: only an open finding becomes "item
deleted", and only in a full sweep that found its item gone or could not read it.
`SourceNotWedged` (in the end the lock is free for good) and `SourceRowsSettle` (every
row is out of the running states for good) assume that time passes (`WF(Pass)`) and that
beat runs the watchdog and the lock sweep every few minutes (weak fairness of
`Watchdog(j)` and `LockSweep(j)`, which wait for the threshold or for a row that has ended);
nothing of workers, messages, dispatchers, users, `HardLimit` or `Crash`.  Executions may
outlive their rows, hold or take locks after them and die anywhere, and requeued messages
start late.

*Walks.* `WalkInv` is the types and `PassedWithCause`, which is `CursorCovers` for every
adapter: an item that the next incremental walk will skip, and that was not read in its
last change, was unreadable, or has the same time as a cursor or as the item a walk stood
at when it changed, or is not listed yet (GitHub Actions lists runs that are completed), or
is compared by something other than its change, or its cursor comes from a walk that was
cut short or stirred, by an adapter whose cursor does not say what it covered (`Resumes`
are those it does). `SweepsAreSound` has two parts, which say what a full sweep may do
wrong (only where pages are counted can a change shift them: `Shifts`), and that one which
was not cut does nothing wrong. `SweepsCatchUp` assumes `WF(Step)`, because workers go on
and requests time out, and `SF(Start(TRUE))`, because the weekly sweep comes again however
often it found the source busy; the source has to rest in the end.

*Watermarks.* `CheckpointInv` is the types and `WatermarkCovers`: if the chain behind a
watermark is unbroken, every file of its commit was scanned and stored, although other
scans check out other commits in the same clone meanwhile. `PackIsHonest` says the same of
the rule pack the watermark names. `FullScanSetsMarkers` is stated for scans with which no
other interfered (`alone`), because a shared working tree defeats it otherwise.

*Verdicts.*  `PersonalVerdictKept`: a closing verdict a person gave to a finding is
changed only by a person who rules on that finding again, whatever an AI phase
holds in memory: the version column does it.  `MachinesNeverOverrule`: the same of
the incident and of the decision cache.  `ReplayIsFaithful`: a decision is
replayed only on the code it was made for, only closes what a person decided to close,
and takes away an opinion or a cascade: one that committed between the replay's selection
and its commit is overwritten, since it moved no version.  The status of a row can then
contradict its class, as it can after a verdict of the AI.

*Hidden rows.*  `SuppressionInv`: the two columns that hide a row agree; a rule that is
switched off, edited or deleted leaves no row behind, unless a session had read it before
(`raced`); a proposal hides nothing, with several requests on it.  `ReasonsAreOwn`: a rule
takes visible rows only, and each of rules, verification and correlation brings back only
its own, although the Core UPDATEs of requests change rows under sessions that hold them.
Verification does take rows that are another's: the store gives a row it finds dead the
reason `verified_inactive`, whoever had hidden it (`OnlyVerificationTakes` allows that and
nothing else).  When the credential is live again the row comes back, although the rule
that first hid it still matches.

*Retro triage.*  `NoLiveRunReaped`: the stamps at the start protect a running triage
from the watchdog; what they do not protect is the time in the queue.  `RetroSettles`
assumes weak fairness of the watchdog, of time and, per task, of the pool's hard limit.

*Counts.*  `HistoryInv`: anchors exist, and the count of a row that no deletion has moved
is the number of executions that stored it, however their chunks, webhooks and deletions
overlap: an increment that was computed from an older count fails on the version.  It is not
the number of scans: a scan that is executed again counts again.  `UnmovedRowsOutlive` is
what a deletion owes such a row: it goes only when every scan that saw it is deleted.  Not
so a row stored between the UPDATE and the DELETE of the scan it is anchored to (`late`),
which is lost.

*Tickets.*  `TicketInv`: a marker stands for a ticket, so no finding is passed over that
has none, and a ticket that is not forgotten has its marker.  `DuplicateNeedsLoss`: a second
ticket is filed only if the marker of the first was never committed, was committed too
late, or was taken away by an edit of the tags.

*Verification.*  `EventOnTheTurn`: two passes over one row record a rotation once, and every
turn to inactive is recorded but those a scan's store makes.
`VerificationInv`: one TTL after a rotation no row is still fresh and active,
although answers travel through a cache and rows copy each other's dates.

*The bucket.*  `GrantsBounded`: tokens granted are at most the capacity plus the
rate times the time passed, plus what moved clocks gave away twice.

*Imports.*  `OneJobPerKey`, `CompletedMeansStored`, `DuplicateNeedsOverlap` and
`CountsAreExact`: what remains true when requests, redeliveries, deadlocks and
rollbacks overlap.

*CPU slots.* `SlotsInv` has two parts. `GaugeCovers`: the gauge is below the walks only
after a lapse (beat wrote an older count, the key ran out, an uncounted walk lowered it).
`PoolsBounded`: the n-th largest pool is an n-th of the cores or less, so that n pools are
at most the sum of the shares of ranks 1 to n, which is what the code guarantees in place
of its budget.

*Bounds.*  Two workers and two scans are the fewest that can contend; the lock
protocol relates two executions at a time, and the theorems below cover any
number.  `MaxIncidents` bounds crashes, duplicates, exceptions, failed
transactions, Redis errors, cancels and deletes together, and `Kinds` says which
may happen.  One request per row is in progress at a time.  The thresholds are
1 or 2: each run lets every one of them be reached.  Five tokens suffice for two
owners, the lock, the sweeper and one to draw.  Symmetry covers scans and
workers in the runs that check safety only; tokens are drawn by `CHOOSE`.  For
the retry queue two rows and two runs are the fewest with which a collision on
one row forgets the result of another; two retries let a row be rescheduled and
exhausted; `MaxCrashes` bounds worker deaths.

Sources: two jobs and one fault let a second scan meet every state the first can be left
in, and the third scan what both leave behind; two objects give the walk an item behind it
and one ahead. `StallThreshold` is 1 in `source_scans`, so that a row may be reaped or a
lock swept from any place of an execution, and 2 in `settles`. Adapters: two items in two
places let a place fail, be skipped or be cut while the other is read; two items in one
place in two pages let a page shift, be missed or lie beyond the bound; two times let an
item change during and after a walk. Runs that are listed late, and ties within a day of
Jira's, take three and four times to matter: the theorems cover them, and TLC can be shown
them one adapter at a time (`MaxTime` 3 for GitHub Actions; 4, and two pages, for Jira).
`Sources` of the run has one adapter per profile that differs in a field the instance can
tell apart, each in the shape (two places, or two pages of one place) in which more can go
wrong. In `settles` there is one time, since the source has to rest anyway, and one fault
before it does.

Checkpoints: two pushes and two requested scans let a push be lost and a later one be
scanned; a third rule pack would only repeat the second.  In `parts`, `MaxScans` = 2
gives two overlapping scans, or a scan and a rescan, `MaxRequests` = 2 a verdict and another
one; the clock of the verification reaches past one TTL twice; the bucket's time
exceeds the lifetime of its key; three imports are two that collide and one that comes
after; three walks are enough for two ranks and a late-comer.

Rules: two requests (`MaxRequests` = 2) on rules, with a scan and a webhook under way; the
two findings are twins, so each can also be hidden as the other's duplicate. Tickets: one
retry and one upset let a marker be lost and looked for again. History: one row, two scans
and a webhook, one of them executed once more (`MaxReruns`): a row is stored, stored
again, moved, and moved again or lost by a deletion that another overlaps. Rows do not
meet in it but in a chunk, which the theorems cover. Retro triage: two requests, with
limits that are 1, 2 and 3 steps apart. The lists of incidents (`MaxFaults`, `MaxUpsets`)
are budgets for faults, not for ordinary steps.

### What the code does otherwise than its comments or documents say

Met while modelling, besides the two runs that expect a violation; `tasks.py` is
`apps/worker/tasks.py`.

*Scans.*
- The lease of a lock is 8400 s while its task may run 14400 s (`concurrency.py:66`), so the
  lock need not outlast its scan: `Exclusion` has to excuse it.
- The requeued message of a killed scan is dropped as a duplicate while the heartbeat of the
  dead execution is fresh (`tasks.py:3350`).
- The shares of the CPU slots add up to more than the budget (a half after a whole); a claim
  whose INCR failed is still given back, and reconciliation overwrites newer claims.
- A scan that is executed again after its chunks were committed counts its rows again
  (`tasks.py:3350`, `4899`, `5129`): `scan_count` is the number of executions, so that
  `delete_scan` keeps rows that only the deleted scan saw, of which it says "the finding
  predates this scan" (`repositories.py:2046`).
- `delete_scan` selects the survivor, updates and deletes under READ COMMITTED.  A webhook
  that counts a row between the UPDATE and the DELETE loses it with the scan it is anchored
  to, and so is a row lost that is moved to a scan whose own deletion is past its UPDATE.
- `delete_scan` lowers the counts of the rows anchored to the deleted scan only.  A row
  moved by it has lost a sighting and can go with the next deletion although a scan that saw
  it is left.  `last_seen_scan_job_id` may name a scan that is gone.

*Sources.*
- `scheduler/engine.py:162` changes a loaded JSONB value in place and assigns it back:
  `last_scheduled_scan` is never written.
- The rows of a weekly sweep are committed after their messages are sent, all at the end.
- `trigger_source_scan` stores no `celery_task_id`, and source scans stamp no heartbeat, so a
  cancel cannot revoke them and the watchdog sees silence.
- An item that changes behind the walk is passed by the cursor; the archive marks of
  `sync_state` are replaced by whoever saves last.
- Adapters: pages that fail quietly, bounds on pages that also cut full sweeps, dates compared
  as text (Azure), answers 429 that end a walk (`docs/slack-integration.md:344`), edits that are
  not seen (Slack), runs that had not finished (GitHub Actions).

*Watermarks.*
- A webhook scan stores no rule pack, and a NULL pack does not force a full walk, so the next
  scan is incremental and stamps its own; the first webhook of a branch scans a diff and stamps
  a watermark all the same; one that is lost is passed by the next.
- Scans of two branches share a checkout, so a watermark may be another branch's commit.
- `get_diff_files` returns an empty list when git fails.

*Verdicts.*
- The AI phase replaces a verdict that arrived by a cascade while it was thinking, because the
  cascade's Core UPDATE moves no version (`tasks.py:7457`, `7501`).
- A person who triages one finding of an AI batch fails the commit of the batch.
- A lapsed acceptance never returns to the queue (`finding.py:236`), nor does a resolved item
  that reappears (`RESOLVED_ITEM_DELETED`).
- A replay selects its rows, awaits a lookup for each, and writes (`tasks.py:5556`, `5605`,
  `5678`): it replaces a verdict a cascade committed meanwhile, and leaves the status the
  cascade wrote.
- Reopening in bulk or by incident leaves the decision cache as it was.
- A verdict below the threshold is cached and replayed as LIKELY; the replay knows no
  classification for rotated and test credentials.
- The store of AI decisions is refused over an expired decision of a person: the finding
  is analysed again by every scan.
- `expected_version` guards the incident's row but not the rows its Core UPDATEs change.

*Verification, rules, tickets, notifications, imports, retro triage.*
- The inline store turns a credential inactive without the event `rotation_event.py:12` promises;
  re-verification has no raw secret to ask with; a straggler of `_verify_batch` is marked active
  and counted as an error.
- An unknown validity in an incident's upsert resets one that was verified;
  `validation_status` is never written after the insert.
- A caller with an older clock moves `last_refill` back, which gives the same time twice.
- `verified_inactive` replaces the reason of a row another one hid (`tasks.py:4959`), where
  the comment above says "only touch rows WE suppressed": when the credential is live
  again the row comes back though the rule still matches.  A scan
  that read a rule before its deletion hides rows for it afterwards.  An approval and a
  rejection at once leave a rejected rule switched on.  The next scan applies rules only if
  it created something.
- Tickets of a board whose answer has no known key get no marker; markers are committed only
  at the end; `update_tags` drops those it did not see, and takes any tag, a marker typed by hand too, which
  `EditTags` does not model; the fan-out is sent only if a
  scan created something.  A lost worker is not counted as a retry (`celery_app.py:94`).
- `notification_delivery.py:24` says the fifth attempt dead-letters; the sixth does.  A dead
  letter for want of an integration has no audit event (`tasks.py:9274`).
- No unique constraint on `stability_id`: concurrent imports duplicate a row.  A request that
  repeats the key of a failed import gets the failed job; a cancelled import becomes COMPLETED.
- Retro triage swallows a cancel (`cancellation.py:12` asks handlers to re-raise it), can be
  dispatched twice, and its row is reaped while the task is queued.

## 4. Proofs

The theorems hold for every value of the constants that satisfies the named assumptions:
any sets of scans, keys, workers, findings, rules, admins, boards, and any thresholds and
bounds that are natural numbers.  The assumptions are the `ASSUME`s of the modules, and
`HistoryScans`, `TicketBounds` and `RetroLimits`, which the theorems of those three
modules name as hypotheses and which `MCRedelivery`, `MCRows` and `MCSettles` assume; TLC evaluates all of them.
Only these say more than that a constant has its type: null values are not members of
the sets they stand beside; `Rows`, `Walks` and `PastScans` are finite; `MaxRetryAttempts`,
`BatchLimit`, `CommitEvery`, `TTL`, `Budget` and the thresholds of scans are positive;
a bucket's key lives as long as an empty bucket takes to fill
(`Capacity <= Rate * (KeyTTL - MaxDelay)`: the key expires after 3600 s, and every bucket of
`PROVIDER_BUCKETS` fills within three); and a task of retro triage is
killed before the watchdog would fail its row
(`TaskTimeLimit < StallThreshold <= AbsoluteLimit`: 3600 s, 5400 s and four hours unless the
environment says otherwise).

| theorem | property | inductive invariant |
|---|---|---|
| `TypeCorrect`, `ScansExclude`, `ScansRunOnce`, `ReleasesAreOwn`, `CancelsSurviveTriage` | `TypeOK`, `Exclusion`, `SameScanOnce`, `ReleasesOnlyItsOwn`, `CancelSurvivesTriage` | `TypeOK`, `ExclusionInv` (`ExclusionInvHolds`) |
| `GaugeCoversWalks`, `PoolsStayBounded`, `SlotsStayInBounds` | `SlotsInv` | `SlotIInv`, `RanksHold` |
| `RetryTypeCorrect`, `DeadLettersAreEarned`, `RowsOnlyMoveForward`, `RetriesImplementPromise` | `DeadLetterIsEarned`, `RowsMoveForward`, `ImplementsPromise` | `RetryInv` (`RetryInvHolds`), `AttemptsCounted` |
| `SourceTypeCorrect`, `SourceIsScannedOnce`, `CursorPassesNothing`, `ScansKeepDecisions`, `TombstonesHaveCause` | `OneScanPerSource`, `CursorCovers`, `TombstoneHasCause` | `SourceIInv` |
| `WalkKeepsInv`, `SweepsStaySound` | `WalkInv`, `SweepsAreSound` | `MarksIInv`, `WalkIInv` |
| `WatermarksCover`, `PacksAreHonest`, `MarkersAreThoseOfTheCommit` | `CheckpointInv`, `PackIsHonest`, `FullScanSetsMarkers` | `CheckpointIInv` |
| `TriageTypeCorrect`, `ConfirmationsNameActor`, `StatusStaysInStep`, `PersonalVerdictsStay`, `MachinesOverruleNobody`, `ReplaysAreFaithful` | `PersonalVerdictKept`, `MachinesNeverOverrule`, `ReplayIsFaithful` | `TriageIInv` |
| `ActiveVerdictsGoStale`, `EventsOnTheTurn` | `VerificationInv`, `EventOnTheTurn` | `VerifyIInv` |
| `GrantsStayBounded` | `GrantsBounded` | `BucketIInv` |
| `KeysMakeOneJob`, `CompletedIsStored`, `OnlyRacesDuplicate`, `CountsStayExact` | `OneJobPerKey`, `CompletedMeansStored`, `DuplicateNeedsOverlap`, `CountsAreExact` | `ImportIInv`, `CountIInv` |
| `SuppressionsAreSound`, `ReasonsStayTheirs` | `SuppressionInv`, `ReasonsAreOwn` | `SuppressionIInv` |
| `CountsAreSightings`, `RowsOutliveTheirScans` | `HistoryInv`, `UnmovedRowsOutlive` | `HistoryIInv` |
| `TicketsAgree`, `DuplicatesNeedALoss` | `TicketInv`, `DuplicateNeedsLoss` | `TicketIInv` |
| `NoLiveRunIsReaped` | `NoLiveRunReaped` | `RetroIInv` |

Some theorems state a property of a module that no run names, since the theorem covers
every instance: `ConfirmedNamesActor` and `StatusInStep` (the columns of a verdict are
written together, by all writers), `DecisionsKept` (a scan of a source changes a verdict in no
way but a tombstone), and the type invariants of `NotificationRetries`, `SourceScan` and
`FindingTriage`.

### The arguments

*The lock.*  `Exclusion` is not inductive: a step that starts the second execution is only
excluded because the first still owns the lock.  `ExclusionInv` adds what makes it so,
one part per way in which ownership can be lost: tokens name one execution
(`TokensUnique`), whoever works owns its lock or is excused (`OwnerOrExcused`), a lapse
is noted while it lasts (`LapseIsNoted`), the sweeper only holds values of excused
executions (`SweptIsExcused`), a second delivery past the guard means that the
first is excused (`RivalledIsExcused`), and a row is PENDING only before its first
execution (`PendingIsFirst`).  The proof has a lemma per part; those about ownership
split on how a step can touch the lock (`LosesLock`), the others on the step that
enters the state they speak of.  `CancelsSurviveTriage` needs types only: the one way on from
triage is through the check that reads the status again (`LeavesTriage`).

*The gauge.*  One step changes the gauge and the set of walks that raised it together,
or records a lapse; the cardinality of the set moves by one (`CountedFacts`).  A walk that
begins at gauge `g` gets one part of `g`, which is more than one part of `n` only for
`n > g` (`SharesShrink`); while the gauge covers the walks there are at most `g` of them, so
fewer than `n` have more than that (`RanksHold`, with `n` any rank).

*The retry queue.*  `RowsMoveForward` needs to know what a run that is about to commit has in
memory.  `RetryInv` says it: a flushed row is locked by one run and current
(`LocksExclusive`); a run whose version of a row is current saw it waiting, and
counts at most one attempt more (`CurrentIsPending`), so a commit that passes the
version check only changes waiting rows; verdicts in memory are justified before
they reach the disk (`VerdictsJustified`, `BudgetKept`); a due row is waiting
(`DueIsPending`).  `CommitFacts` collects what a commit may assume.  For the refinement,
`AttemptsCounted` says that what a run means to write of a current row is one attempt
more, judged by the budget, or the end of a row that cannot be sent: a commit then is one
`Record` of the promise per row, and every other step a stutter.

*A source.*  Only the sweeper takes the lock from an execution that works (`LockHeld`).  What
a walk is past is stored, in its batch, or recorded as missing (`WalkAccounts`; for a full
walk, seen or unread: `FullWalkAccounts`), and no cursor, neither the stored one nor one
that a session has loaded, is ahead of a change that is not stored (`CursorsCover`).

*Walks.*  Whatever the paging, turning a page leaves all but its item ahead (`TurnedAhead`), and
while something is ahead the next page has an item (`PagesGoOn`).  So a walk that was neither
cut nor shifted has read all that it is past, or knows what it could not fetch (`WalkCovers`);
with `BaseIsOwn`, a sweep that ends so has read everything listed.  For the cursors,
`MarksIInv` adds what holds of walks that are cut as well: cursors of items are never ahead of
them (`ItemMarks`); a walk in order of change has read all up to where it stands, of what no
ghost accounts for (`OrderCovers`), and therefore its marks pass nothing but what is of the
very time it began with (`NextPasses`).  An item that changes while the walk stands at a later
rank is one the ghost `tied` has to name: without it `OrderCovers` is not inductive, and
with Jira, whose cursor names a day, a later page then moves the cursor past the item.  The
least rank ahead exists by the well-foundedness of the finite subsets of an interval (`Least`).

*Watermarks.*  A watermark vouches for its commit because the scan that moved it vouched for
its base and stored the difference (`Vouched`); what is in a tree is in the tree before
it or in the difference (`PresentSplits`); and findings are never taken back, so what a
scan vouches for survives the steps of the others.  `AloneHolds` follows a scan nobody
interferes with through its phases: the clone stays at its head, and the markers become
those of its commit.

*Verdicts.*  A person's closing verdict has moved the row's version, so an AI phase that
holds it cannot commit it (`PersonMovesVersion`), and only a person's decision in the cache
closes a finding (`CacheJustified`).

*Imports.*  Keys are unique once a row is inserted, committed or not (`KeyOnce`); every item of
a payload is still to do, was looked up and missed, or is stored (`PayloadCovered`); what two
tasks missed, or one missed and another stored, was raced for (`RacesRecorded`); and the
incidents of what a task has missed are locked by it (`MissedAreHeld`), so nobody counts
them meanwhile.

*Verification.*  A pass's copy of a row that no other session moved is the row
(`PassesInStep`); an answer that says "active" was given before the rotation, and once any
was given after it the cache says "inactive" (`AnswersSound`); what a scan has in hand is in
the cache as well (`InlineIsCached`).

*The bucket.*  While the key is there, what was granted and what is left are paid for by the
capacity and the time up to `last_refill`; once it is forgotten, what was granted is
paid for by time alone, so that a full bucket may begin (`Paid`).

*Rules.*  A rule takes only visible rows although it decides by what its session
remembers: whatever was hidden since was either hidden by a write that makes the
session's commit fail, or the session knows (`HeldAreKnown`).  A deletion under way has all rows
of its rule but those of races (`DeletesOwn`), and a proposal is known to no scan and to
whoever edits it (`PendingIsInert`).  That the first matching rule of an order exists is
shown from the well-foundedness of its finite subsets.

*Counts.*  An execution stores what it has yet to store, and has not stored it before
(`HoldsPending`, `SeenInOrder`); what it has loaded of a row is the row's count, unless a version
moved, which fails its store, or a deletion moved the row, which is recorded
(`LoadedIsCurrent`).  A deletion past its UPDATE has locked all its rows that count more
than one, but for late ones (`DeletionInv`): what it takes otherwise has one sighting, its own.

*Tickets.*  Of all runs that hold a row at most one can still commit it, the one of the scan
it is anchored to, and that one knows its tags (`HoldersAreCurrent`); a marker that a run holding
the row does not know belongs to a ticket that was filed twice or forgotten
(`MarkersOfOthers`), and so does one another run has filed and can commit (`FiledOfOthers`).

*Retro triage.*  A task that runs has stamped the row since it started (`StampedSince`), and
ends before the watchdog's limits.

### What is only model-checked

- Liveness: `EveryScanSettles`, `EveryDeliverySettles`, `SourceNotWedged`, `SourceRowsSettle`,
  `RetroSettles`, `SweepsCatchUp`.  Fairness speaks of ENABLED, which the prover does not have.

## 5. What is not modelled, and what comes next

Not modelled: secret detection (pattern matching over text); the checks of providers, the
channels and the formats of integrations (network calls and rendering); reports; live
progress, on which no state depends; authentication and caching of the API; the web and
command line clients.  Of modelled components: due times and the history schedule of the
scheduler; the batch runner of AI triage, its prompts and the parsing of answers; the file
cache, an exact memo; routing of notifications by scope; ownership, notes and SLA of
incidents; bulk invalidation of the decision cache; the grouping of findings by learning
and correlation.  Each is named where its module is described.

Next, in this order:

1. `ScanRow`, the abstract life of a scan's row (submitted, running, settled, reopened),
   with `ScanLifecycle` shown to implement it.
2. The scheduler's due times, with the write that is lost; the first dispatch of a notification
   with its rules and scopes; the batch runner of AI triage.
