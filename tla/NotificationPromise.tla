------------------------- MODULE NotificationPromise -------------------------
(***************************************************************************)
(* What the retry queue promises of a failed notification, without runs,   *)
(* locks and versions: it is tried again, each attempt is counted once,    *)
(* and only a spent budget or a hopeless row ends it undelivered.          *)
(* NotificationRetries implements it.                                      *)
(***************************************************************************)
EXTENDS Naturals

CONSTANTS Rows, MaxRetryAttempts

VARIABLES
    status, attempts,
    hopeless    \* rows whose integration is gone or whose payload is broken

promiseVars == <<status, attempts, hopeless>>

PromiseInit ==
    /\ status = [r \in Rows |-> "none"] /\ attempts = [r \in Rows |-> 0]
    /\ hopeless \subseteq Rows

Fail(r) ==
    /\ status[r] = "none"
    /\ \E s \in {"pending_retry", "permanent_failure"} : status' = [status EXCEPT ![r] = s]
    /\ attempts' = [attempts EXCEPT ![r] = 1]
    /\ UNCHANGED hopeless

LoseHope(r) ==
    /\ hopeless' = hopeless \cup {r}
    /\ UNCHANGED <<status, attempts>>

\* One more attempt, with its verdict.
Tried(r) ==
    /\ attempts'[r] = attempts[r] + 1
    /\ \/ status'[r] \in {"succeeded", "permanent_failure"}
       \/ status'[r] = "pending_retry" /\ attempts'[r] <= MaxRetryAttempts
       \/ status'[r] = "dead_lettered" /\ attempts'[r] > MaxRetryAttempts

\* Ended without an attempt.
Abandoned(r) ==
    /\ r \in hopeless
    /\ status'[r] = "dead_lettered" /\ attempts'[r] = attempts[r]

\* A batch: some waiting rows have their result, all at once.
Record ==
    /\ \A r \in Rows :
          \/ status'[r] = status[r] /\ attempts'[r] = attempts[r]
          \/ status[r] = "pending_retry" /\ (Tried(r) \/ Abandoned(r))
    /\ status' = [r \in Rows |-> status'[r]] /\ attempts' = [r \in Rows |-> attempts'[r]]
    /\ UNCHANGED hopeless

PromiseNext == Record \/ \E r \in Rows : Fail(r) \/ LoseHope(r)

PromiseSpec == PromiseInit /\ [][PromiseNext]_promiseVars
=============================================================================
