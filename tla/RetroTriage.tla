----------------------------- MODULE RetroTriage ------------------------------
(***************************************************************************)
(* Triage that is run again on a completed scan: the request that hands    *)
(* the scan's row back to the worker, the task, and what meets it: a       *)
(* second request, cancel, the watchdog, the death of the worker.          *)
(*                                                                         *)
(* The row keeps the heartbeat and the age of the original scan until the  *)
(* task starts.  Both ages are counted up to the limit that matters.       *)
(***************************************************************************)
EXTENDS Naturals

CONSTANTS
    Calls,             \* requests, each with its task
    StallThreshold,    \* silence after which the watchdog fails a row
    AbsoluteLimit,     \* age of a run after which it does
    TaskTimeLimit,     \* after which the pool kills the task
    MaxRetroFaults     \* bound: worker deaths and cancels

\* What the constants are.
RetroLimits ==
    /\ StallThreshold \in Nat /\ AbsoluteLimit \in Nat /\ MaxRetroFaults \in Nat
    /\ TaskTimeLimit \in Nat /\ TaskTimeLimit < StallThreshold
    /\ StallThreshold <= AbsoluteLimit

VARIABLES
    status,
    silence,    \* since heartbeat_at
    runAge,     \* since stats.run_started_at, or created_at
    call,       \* a request and its task
    taskAge,    \* how long the task has run
    retroFaults

retroVars == <<status, silence, runAge, call, taskAge, retroFaults>>

Running == {c \in Calls : call[c] = "running"}
Queued  == {c \in Calls : call[c] = "queued"}

Go(c, to) == call' = [call EXCEPT ![c] = to]

RetroInit ==
    /\ status = "COMPLETED"
    /\ silence \in {0, StallThreshold} /\ runAge \in {silence, AbsoluteLimit}
    /\ call = [c \in Calls |-> "none"] /\ taskAge = [c \in Calls |-> 0] /\ retroFaults = 0

-----------------------------------------------------------------------------
(* trigger_ai_triage_retro *)

\* "AI triage can only run on a completed scan".
Ask(c) ==
    /\ call[c] = "none" /\ status = "COMPLETED" /\ Go(c, "asked")
    /\ UNCHANGED <<status, silence, runAge, taskAge, retroFaults>>

\* The task is published, then the row written.
Dispatch(c) ==
    /\ call[c] = "asked" /\ Go(c, "queued") /\ status' = "ANALYZING"
    /\ UNCHANGED <<silence, runAge, taskAge, retroFaults>>

\* The request fails between the two.
DispatchUnwritten(c) ==
    /\ call[c] = "asked" /\ Go(c, "queued")
    /\ retroFaults < MaxRetroFaults /\ retroFaults' = retroFaults + 1
    /\ UNCHANGED <<status, silence, runAge, taskAge>>

-----------------------------------------------------------------------------
(* run_ai_triage_retro *)

\* Mutant: the run has the age of the scan.
StampsHeartOnly == silence' = 0 /\ runAge' = runAge

\* heartbeat_at and stats.run_started_at of this run.
Stamps == silence' = 0 /\ runAge' = 0

\* The row is taken whatever it says.
StartTask(c) ==
    /\ call[c] = "queued" /\ Go(c, "running")
    /\ status' = "ANALYZING" /\ Stamps
    /\ taskAge' = [taskAge EXCEPT ![c] = 0] /\ UNCHANGED retroFaults

Ends == status' = "COMPLETED"

\* The repository is gone or cannot be cloned: "AI triage failed".
StartFails(c) ==
    /\ call[c] = "queued" /\ Go(c, "done") /\ Ends
    /\ UNCHANGED <<silence, runAge, taskAge, retroFaults>>

\* _stamp_heartbeat_main in _triage_progress; a cancelled row is noticed, raises
\* ScanCancelled, and the handler for any exception completes the row.
Beat(c) ==
    /\ call[c] = "running" /\ silence' = 0
    /\ IF status = "CANCELLED" THEN Ends /\ Go(c, "done") ELSE UNCHANGED <<status, call>>
    /\ UNCHANGED <<runAge, taskAge, retroFaults>>

\* Triage is over, or an error or the soft time limit ends it.
FinishTask(c) ==
    /\ call[c] = "running" /\ Go(c, "done") /\ Ends /\ silence' \in {0, silence}
    /\ UNCHANGED <<runAge, taskAge, retroFaults>>

\* The pool's hard limit: acknowledged, the row stays as it is.
HardLimit(c) ==
    /\ call[c] = "running" /\ taskAge[c] = TaskTimeLimit /\ Go(c, "done")
    /\ UNCHANGED <<status, silence, runAge, taskAge, retroFaults>>

\* The worker dies: the message goes back to the queue, or was acknowledged.
WorkerDies(c) ==
    /\ call[c] = "running" /\ retroFaults < MaxRetroFaults /\ retroFaults' = retroFaults + 1
    /\ \/ Go(c, "queued")
       \/ Go(c, "done")
    /\ UNCHANGED <<status, silence, runAge, taskAge>>

-----------------------------------------------------------------------------
\* cancel_scan; the revoke of the task is heard or is not.  After five silent
\* minutes the row is failed instead.
Cancel ==
    /\ status = "ANALYZING" /\ retroFaults < MaxRetroFaults /\ retroFaults' = retroFaults + 1
    /\ status' \in IF silence = 0 THEN {"CANCELLED"} ELSE {"CANCELLED", "FAILED"}
    /\ \/ UNCHANGED call
       \/ \E c \in Queued \cup Running : Go(c, "done")
    /\ UNCHANGED <<silence, runAge, taskAge>>

\* Mutant: a row that is only being analysed is not a running scan.
NonTerminalShort == {"PENDING", "RUNNING"}

NonTerminal == {"PENDING", "RUNNING", "ANALYZING"}

\* _cleanup_stale_running_scans, which revokes the task of the row too.
Watchdog ==
    /\ status \in NonTerminal /\ (silence >= StallThreshold \/ runAge >= AbsoluteLimit)
    /\ status' = "FAILED"
    /\ \/ UNCHANGED call
       \/ \E c \in Queued \cup Running : Go(c, "done")
    /\ UNCHANGED <<silence, runAge, taskAge, retroFaults>>

\* Time passes; no task outlives its limit.
Pass ==
    /\ \A c \in Running : taskAge[c] < TaskTimeLimit
    /\ silence < StallThreshold \/ runAge < AbsoluteLimit \/ Running # {}
    /\ silence' = IF silence < StallThreshold THEN silence + 1 ELSE silence
    /\ runAge' = IF runAge < AbsoluteLimit THEN runAge + 1 ELSE runAge
    /\ taskAge' = [c \in Calls |-> IF c \in Running THEN taskAge[c] + 1 ELSE taskAge[c]]
    /\ UNCHANGED <<status, call, retroFaults>>

-----------------------------------------------------------------------------
RetroNext ==
    \/ \E c \in Calls : \/ Ask(c) \/ Dispatch(c) \/ DispatchUnwritten(c)
                        \/ StartTask(c) \/ StartFails(c) \/ Beat(c) \/ FinishTask(c)
                        \/ HardLimit(c) \/ WorkerDies(c)
    \/ Cancel \/ Watchdog \/ Pass

\* Beat sends the watchdog, the pool its limit, and time goes on.  A queue may
\* be stuck and a triage hang.
RetroFairness ==
    /\ WF_retroVars(Watchdog) /\ WF_retroVars(Pass)
    /\ \A c \in Calls : WF_retroVars(HardLimit(c))

RetroSpec == RetroInit /\ [][RetroNext]_retroVars /\ RetroFairness

-----------------------------------------------------------------------------
(* Properties *)

\* The watchdog fails no row whose triage runs, however old the scan is and
\* whatever other requests, restarts and redeliveries there were.
NoLiveRunReaped == [][Watchdog => Running = {}]_retroVars

\* "Never leave the job stuck in ANALYZING": by whatever way triage ends, the row
\* leaves it.
RetroSettles == status = "ANALYZING" ~> status # "ANALYZING"
=============================================================================
