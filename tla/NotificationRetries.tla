------------------------- MODULE NotificationRetries -------------------------
(***************************************************************************)
(* The retry queue of failed notifications: notification_deliveries rows,  *)
(* the beat task that re-sends the due ones in batches, and the version    *)
(* column that keeps two runs of the task from overwriting each other.     *)
(*                                                                         *)
(* A run of the task loads a batch, sends row by row, and commits once.    *)
(* In between, SQLAlchemy flushes the rows changed so far whenever the     *)
(* session queries again (autoflush): the flush takes PostgreSQL's row     *)
(* locks, waits for another run's, and fails on a row whose version moved. *)
(*                                                                         *)
(* Abstracted: the channels (a send is one of three outcomes), the length  *)
(* of each backoff (a rescheduled row becomes due some time later).        *)
(***************************************************************************)
EXTENDS Naturals, FiniteSets

CONSTANTS
    Rows,               \* deliveries: one per notification and channel
    Retriers,           \* runs of process_notification_retries_task at a time
    Garbled,            \* rows whose stored payload cannot be rebuilt
    MaxRetryAttempts,   \* MAX_RETRY_ATTEMPTS
    BatchLimit,         \* BATCH_LIMIT
    MaxCrashes          \* bound: how often a worker dies

ASSUME RowsFinite  == IsFiniteSet(Rows) /\ Garbled \subseteq Rows
ASSUME LimitsNat   == MaxRetryAttempts \in Nat \ {0} /\ BatchLimit \in Nat \ {0} /\ MaxCrashes \in Nat

VARIABLES
    status,    \* notification_deliveries.status, "none" before the row exists
    attempts,  \* attempt_count
    version,   \* the optimistic-lock column
    place,     \* rank among the due rows by next_retry_at, 0 if not due
    config,    \* does the row's integration still exist
    audited,   \* rows with a notification_dead_lettered audit event
    phase,     \* where a run of the task is
    todo,      \* rows of its batch not treated yet
    mem,       \* its objects: the row as loaded, then as changed
    dirty,     \* rows changed in memory only
    held,      \* rows flushed: written and locked, not committed
    crashes    \* worker deaths still allowed

rowVars == <<status, attempts, version, place, config, audited>>
runVars == <<phase, todo, mem, dirty, held>>
vars    == <<rowVars, runVars, crashes>>

Terminal == {"succeeded", "dead_lettered", "permanent_failure"}
Statuses == Terminal \cup {"pending_retry"}

Objects == [version : Nat, attempts : Nat, status : Statuses, place : Nat,
            bound : BOOLEAN,   \* integration_config_id is not NULL
            audit : BOOLEAN]   \* an audit event is added in the same session

Unloaded == [version |-> 0, attempts |-> 0, status |-> "pending_retry", place |-> 0,
             bound |-> FALSE, audit |-> FALSE]

\* _is_retryable_error sorts failures into transient and permanent ones.
Outcomes == {"success", "transient", "permanent"}

-----------------------------------------------------------------------------
(* Rows *)

Due == {r \in Rows : place[r] > 0}

\* The ranks left when the rows of R are no longer due.
WithoutRows(R) == [r \in Rows |->
    IF r \in Due \ R THEN Cardinality({q \in Due \ R : place[q] <= place[r]}) ELSE 0]

\* Mutant: the last retry is never made.
BudgetSpentEarly(a) == a >= MaxRetryAttempts

\* attempt_count includes the first, failed dispatch.
BudgetSpent(a) == a > MaxRetryAttempts

Init == /\ status   = [r \in Rows |-> "none"]
        /\ attempts = [r \in Rows |-> 0]
        /\ version  = [r \in Rows |-> 0]
        /\ place    = [r \in Rows |-> 0]
        /\ config   = [r \in Rows |-> TRUE]
        /\ audited  = {}
        /\ phase    = [w \in Retriers |-> "idle"]
        /\ todo     = [w \in Retriers |-> {}]
        /\ mem      = [w \in Retriers |-> [r \in Rows |-> Unloaded]]
        /\ dirty    = [w \in Retriers |-> {}]
        /\ held     = [w \in Retriers |-> {}]
        /\ crashes  = MaxCrashes

\* A dispatch failed: the row starts with one attempt, or is final at once
\* when the error is permanent.
PersistFailure(r) ==
    /\ status[r] = "none"
    /\ status'   = [status EXCEPT ![r] = "pending_retry"] \/
       status'   = [status EXCEPT ![r] = "permanent_failure"]
    /\ attempts' = [attempts EXCEPT ![r] = 1]
    /\ version'  = [version EXCEPT ![r] = 1]
    /\ UNCHANGED <<place, config, audited, runVars, crashes>>

\* next_retry_at has passed.
BecomeDue(r) ==
    /\ status[r] = "pending_retry" /\ place[r] = 0
    /\ place' = [place EXCEPT ![r] = Cardinality(Due) + 1]
    /\ UNCHANGED <<status, attempts, version, config, audited, runVars, crashes>>

\* A user deletes the integration: ON DELETE SET NULL updates the row outside
\* the ORM, after any lock on it, and leaves its version alone.
DeleteConfig(r) ==
    /\ status[r] # "none" /\ config[r]
    /\ \A w \in Retriers : r \notin held[w]
    /\ config' = [config EXCEPT ![r] = FALSE]
    /\ UNCHANGED <<status, attempts, version, place, audited, runVars, crashes>>

-----------------------------------------------------------------------------
(* One run of _process_notification_retries *)

\* The run ends; what it had in memory is gone.
End(w) == /\ phase' = [phase EXCEPT ![w] = "idle"]
          /\ todo'  = [todo EXCEPT ![w] = {}]
          /\ mem'   = [mem EXCEPT ![w] = [r \in Rows |-> Unloaded]]
          /\ dirty' = [dirty EXCEPT ![w] = {}]
          /\ held'  = [held EXCEPT ![w] = {}]

\* The oldest due rows, up to the limit, as committed.
Select(w) ==
    LET batch == {r \in Rows : place[r] \in 1..BatchLimit}
    IN  /\ phase[w] = "idle" /\ batch # {}
        /\ phase' = [phase EXCEPT ![w] = "loop"]
        /\ todo'  = [todo EXCEPT ![w] = batch]
        /\ mem'   = [mem EXCEPT ![w] = [r \in Rows |->
                       IF r \in batch
                         THEN [version |-> version[r], attempts |-> attempts[r],
                               status |-> "pending_retry", place |-> place[r],
                               bound |-> config[r], audit |-> FALSE]
                         ELSE Unloaded]]
        /\ UNCHANGED <<rowVars, dirty, held, crashes>>

IsNext(w, r) == r \in todo[w] /\ \A q \in todo[w] : mem[w][r].place <= mem[w][q].place

\* An UPDATE waits while another run's transaction has the row.
FlushRuns(w) == \A r \in dirty[w], v \in Retriers \ {w} : r \notin held[v]

\* Mutant: no version_id_col, so an UPDATE matches the row by its id alone.
MatchesById(w) == TRUE

\* UPDATE ... WHERE version = the one that was loaded.
FlushMatches(w) == \A r \in dirty[w] : version[r] = mem[w][r].version

\* The row is treated: its object carries the verdict.
Conclude(w, r, s, a, audit) ==
    /\ mem'  = [mem EXCEPT ![w][r] = [@ EXCEPT !.status = s, !.attempts = a, !.audit = audit]]
    /\ todo' = [todo EXCEPT ![w] = @ \ {r}]

\* integration_config_id is NULL: no query, hence no flush.
SkipUnbound(w, r) ==
    /\ phase[w] = "loop" /\ IsNext(w, r) /\ ~mem[w][r].bound
    /\ Conclude(w, r, "dead_lettered", mem[w][r].attempts, FALSE)
    /\ dirty' = [dirty EXCEPT ![w] = @ \cup {r}]
    /\ UNCHANGED <<rowVars, phase, held, crashes>>

\* Mutant: a row without its integration is passed over instead of ended.
LookUpPasses(w, r) ==
    /\ phase[w] = "loop" /\ IsNext(w, r) /\ mem[w][r].bound
    /\ FlushRuns(w) /\ FlushMatches(w)
    /\ held' = [held EXCEPT ![w] = @ \cup dirty[w]]
    /\ dirty' = [dirty EXCEPT ![w] = {}]
    /\ IF ~config[r] \/ r \in Garbled
         THEN todo' = [todo EXCEPT ![w] = @ \ {r}] /\ UNCHANGED <<phase, mem>>
         ELSE phase' = [phase EXCEPT ![w] = "sending"] /\ UNCHANGED <<todo, mem>>
    /\ UNCHANGED <<rowVars, crashes>>

\* The query for the integration flushes the rows changed so far.  Without
\* an integration, or with a payload that cannot be rebuilt, the row is
\* dead-lettered on the spot.
LookUp(w, r) ==
    /\ phase[w] = "loop" /\ IsNext(w, r) /\ mem[w][r].bound
    /\ FlushRuns(w) /\ FlushMatches(w)
    /\ held' = [held EXCEPT ![w] = @ \cup dirty[w]]
    /\ IF ~config[r] \/ r \in Garbled
         THEN /\ Conclude(w, r, "dead_lettered", mem[w][r].attempts, FALSE)
              /\ dirty' = [dirty EXCEPT ![w] = {r}]
              /\ UNCHANGED phase
         ELSE /\ phase' = [phase EXCEPT ![w] = "sending"]
              /\ dirty' = [dirty EXCEPT ![w] = {}]
              /\ UNCHANGED <<todo, mem>>
    /\ UNCHANGED <<rowVars, crashes>>

\* Mutant: only an attempt that failed is counted.
SendUncounted(w, r, outcome) ==
    LET a == IF outcome = "success" THEN mem[w][r].attempts ELSE mem[w][r].attempts + 1
    IN  /\ phase[w] = "sending" /\ IsNext(w, r)
        /\ \/ outcome = "success"   /\ Conclude(w, r, "succeeded", a, FALSE)
           \/ outcome = "permanent" /\ Conclude(w, r, "permanent_failure", a, FALSE)
           \/ /\ outcome = "transient"
              /\ IF BudgetSpent(a) THEN Conclude(w, r, "dead_lettered", a, TRUE)
                                   ELSE Conclude(w, r, "pending_retry", a, FALSE)
        /\ phase' = [phase EXCEPT ![w] = "loop"]
        /\ dirty' = [dirty EXCEPT ![w] = @ \cup {r}]
        /\ UNCHANGED <<rowVars, held, crashes>>

\* _send_to_channel and the verdict on its result.
Send(w, r, outcome) ==
    LET a == mem[w][r].attempts + 1
    IN  /\ phase[w] = "sending" /\ IsNext(w, r)
        /\ \/ outcome = "success"   /\ Conclude(w, r, "succeeded", a, FALSE)
           \/ outcome = "permanent" /\ Conclude(w, r, "permanent_failure", a, FALSE)
           \/ /\ outcome = "transient"
              /\ IF BudgetSpent(a) THEN Conclude(w, r, "dead_lettered", a, TRUE)
                                   ELSE Conclude(w, r, "pending_retry", a, FALSE)
        /\ phase' = [phase EXCEPT ![w] = "loop"]
        /\ dirty' = [dirty EXCEPT ![w] = @ \cup {r}]
        /\ UNCHANGED <<rowVars, held, crashes>>

\* One commit for the batch.  Every row of it is now final or due later.
Commit(w) ==
    LET batch == dirty[w] \cup held[w]
    IN  /\ phase[w] = "loop" /\ todo[w] = {}
        /\ FlushRuns(w) /\ FlushMatches(w)
        /\ status'   = [r \in Rows |-> IF r \in batch THEN mem[w][r].status ELSE status[r]]
        /\ attempts' = [r \in Rows |-> IF r \in batch THEN mem[w][r].attempts ELSE attempts[r]]
        /\ version'  = [r \in Rows |-> IF r \in batch THEN version[r] + 1 ELSE version[r]]
        /\ place'    = WithoutRows(batch)
        /\ audited'  = audited \cup {r \in batch : mem[w][r].audit}
        /\ End(w)
        /\ UNCHANGED <<config, crashes>>

\* StaleDataError, in the loop (uncaught) or at the commit (rolled back):
\* the whole batch is forgotten, sends included.
Collide(w) ==
    /\ phase[w] = "loop"
    /\ todo[w] = {} \/ \E r \in Rows : IsNext(w, r) /\ mem[w][r].bound
    /\ FlushRuns(w) /\ ~FlushMatches(w)
    /\ End(w)
    /\ UNCHANGED <<rowVars, crashes>>

\* The worker dies; its transaction is rolled back.
Crash(w) ==
    /\ phase[w] # "idle" /\ crashes > 0
    /\ crashes' = crashes - 1
    /\ End(w)
    /\ UNCHANGED rowVars

-----------------------------------------------------------------------------
Treat(w) == \/ \E r \in Rows : SkipUnbound(w, r) \/ LookUp(w, r)
            \/ \E r \in Rows, outcome \in Outcomes : Send(w, r, outcome)
            \/ Commit(w) \/ Collide(w)

Next == \/ \E r \in Rows : PersistFailure(r) \/ BecomeDue(r) \/ DeleteConfig(r)
        \/ \E w \in Retriers : Select(w) \/ Treat(w) \/ Crash(w)

Spec == Init /\ [][Next]_vars

(* Beat starts the task every minute, each send has a timeout, and time    *)
(* passes.  Which outcome a send has, and what users do, is up to them.    *)
Fairness == /\ \A r \in Rows : WF_vars(BecomeDue(r))
            /\ WF_vars(\E w \in Retriers : Select(w))
            /\ \A w \in Retriers : WF_vars(Treat(w))

FairSpec == Spec /\ Fairness

-----------------------------------------------------------------------------
(* Properties *)

\* Every variable keeps its type; a run has rows and locks only while it is
\* running, and each row of its batch in one place.
TypeOK == /\ status   \in [Rows -> Statuses \cup {"none"}]
          /\ attempts \in [Rows -> Nat]
          /\ version  \in [Rows -> Nat]
          /\ place    \in [Rows -> Nat]
          /\ config   \in [Rows -> BOOLEAN]
          /\ audited  \subseteq Rows
          /\ phase    \in [Retriers -> {"idle", "loop", "sending"}]
          /\ todo     \in [Retriers -> SUBSET Rows]
          /\ mem      \in [Retriers -> [Rows -> Objects]]
          /\ dirty    \in [Retriers -> SUBSET Rows]
          /\ held     \in [Retriers -> SUBSET Rows]
          /\ crashes  \in Nat
          /\ \A w \in Retriers :
               /\ phase[w] = "idle" => todo[w] = {} /\ dirty[w] = {} /\ held[w] = {}
               /\ todo[w] \cap (dirty[w] \cup held[w]) = {}
               /\ dirty[w] \cap held[w] = {}

\* Rows a run has treated and means to write.
Changed(w) == dirty[w] \cup held[w]

\* A row's lock is with one run, which read the row as it is.
LocksExclusive ==
    \A w \in Retriers : \A r \in held[w] :
        /\ version[r] = mem[w][r].version
        /\ \A v \in Retriers \ {w} : r \notin held[v]

\* A run whose version of a row is current saw it waiting for a retry, and
\* means to count at most the one attempt it made.
CurrentIsPending ==
    \A w \in Retriers : \A r \in todo[w] \cup Changed(w) :
        /\ mem[w][r].version <= version[r]
        /\ mem[w][r].version = version[r] =>
             /\ status[r] = "pending_retry"
             /\ r \in todo[w] => mem[w][r].attempts = attempts[r]
             /\ mem[w][r].attempts \in {attempts[r], attempts[r] + 1}

\* Only a spent budget, a deleted integration or a broken payload ends a
\* delivery as dead-lettered: on disk, and in a run's memory.
Hopeless(r) == ~config[r] \/ r \in Garbled

VerdictsJustified ==
    \A w \in Retriers : \A r \in todo[w] \cup Changed(w) :
        /\ ~mem[w][r].bound => ~config[r]
        /\ r \in todo[w] => mem[w][r].status = "pending_retry"
        /\ mem[w][r].status = "dead_lettered" => BudgetSpent(mem[w][r].attempts) \/ Hopeless(r)
        /\ mem[w][r].status = "pending_retry" => mem[w][r].attempts \in 1..MaxRetryAttempts

\* A waiting row has been tried, and has retries left.
BudgetKept == \A r \in Rows : status[r] = "pending_retry" => attempts[r] \in 1..MaxRetryAttempts

\* Due rows are waiting rows.
DueIsPending == \A r \in Due : status[r] = "pending_retry"

\* A row that does not exist yet has no history.
NoneIsFresh == \A r \in Rows : status[r] = "none" => attempts[r] = 0 /\ version[r] = 0

\* The inductive invariant of the version column and the retry budget.
RetryInv == /\ LocksExclusive
            /\ CurrentIsPending
            /\ VerdictsJustified
            /\ BudgetKept
            /\ DueIsPending
            /\ NoneIsFresh

\* Two runs of the task never overwrite each other's result: a settled row
\* stays as it is, and a row's attempts are counted one by one (version_id_col).
RowsMoveForward ==
    [][\A r \in Rows :
         /\ status[r] \in Terminal => status'[r] = status[r] /\ attempts'[r] = attempts[r]
         /\ attempts'[r] \in {attempts[r], attempts[r] + 1}]_vars

\* No delivery is given up before its last retry, unless its integration is
\* gone or its payload cannot be rebuilt (MAX_RETRY_ATTEMPTS, dead_lettered).
DeadLetterIsEarned ==
    \A r \in Rows : status[r] = "dead_lettered" => attempts[r] = MaxRetryAttempts + 1 \/ Hopeless(r)

\* Whatever collides or crashes, a delivery that failed is sent or reported
\* lost: it does not wait for ever (process_notification_retries_task).
EveryDeliverySettles == \A r \in Rows : status[r] = "pending_retry" ~> status[r] \in Terminal

Promise == INSTANCE NotificationPromise WITH hopeless <- {r \in Rows : Hopeless(r)}

\* The queue does what it promises: overlapping runs, flushes, collisions and
\* crashes all come down to attempts counted and judged one by one.
ImplementsPromise == Promise!PromiseSpec
=============================================================================
