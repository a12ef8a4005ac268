---------------------------- MODULE FindingsImport ----------------------------
(***************************************************************************)
(* Findings that CLI and CI clients found themselves: the import endpoint  *)
(* with its idempotency key, the task that stores a payload, and the       *)
(* incidents it aggregates the findings into.  Pipelines of one repository *)
(* run side by side, so do their imports.                                  *)
(*                                                                         *)
(* An import is stored in one transaction.  Per item it looks the finding  *)
(* up by stability_id, which no constraint makes unique, and upserts the   *)
(* incident, whose row is locked from then on until the transaction ends.  *)
(*                                                                         *)
(* Left out: redaction, the contents of rows, items without a hash (they   *)
(* have no incident), a repository that is gone, and the repository scans  *)
(* and deletions that write the same tables.  A request without a key is   *)
(* one with a key of its own.                                              *)
(***************************************************************************)
EXTENDS Naturals, Functions

CONSTANTS
    Items,       \* findings, by stability_id
    Secrets,     \* incidents, by secret_hash
    SecretOf,    \* the secret an item is an occurrence of
    Imports,     \* import jobs
    Keys,        \* idempotency keys
    Payloads,    \* the sets of items that clients send
    Nobody, NoItem,
    MaxUpsets    \* bound: worker deaths, errors and cancels

ASSUME ImportAssumption ==
    /\ SecretOf \in [Items -> Secrets] /\ Payloads \subseteq SUBSET Items
    /\ Nobody \notin Imports /\ NoItem \notin Items
    /\ MaxUpsets \in Nat

VARIABLES
    row,        \* scan_jobs.status; "asked": the request found no job of its key,
                \* "flushed": inserted but not committed
    key,        \* scan_jobs.idempotency_key
    payload,    \* imported_findings of the job
    msg,        \* jobs with a message in the queue
    storing,    \* jobs a task is storing
    todo,       \* the task: items it has not treated
    missed,     \* items it looked up and did not find
    found,      \* items it looked up and loaded
    at,         \* the item between its lookup and its upsert
    outdated,      \* loaded findings another task has updated since
    holder,     \* the transaction that has an incident's row locked
    rows,       \* normalized_findings: rows per stability_id
    count,      \* secret_incidents.occurrence_count; 0 is no row
    raced,      \* history: items two tasks missed before either stored them
    upsets

requestVars == <<key, payload>>
taskVars    == <<storing, todo, missed, found, at>>
storeVars   == <<rows, count>>
importVars  == <<row, requestVars, msg, taskVars, outdated, holder, storeVars, raced, upsets>>

Visible(j)    == row[j] \notin {"none", "asked", "flushed"}
KeyTaken(j)   == \E i \in Imports : Visible(i) /\ key[i] = key[j]
KeyPending(j) == \E i \in Imports : row[i] = "flushed" /\ key[i] = key[j]
OccurrencesOf(n, s) == [f \in {g \in Items : SecretOf[g] = s} |-> n[f]]
Occurrences(n, s) == SumFunction(OccurrencesOf(n, s))

\* Nothing is stored, and each count is the sum over no rows.
ImportInit ==
    /\ row = [j \in Imports |-> "none"] /\ key \in [Imports -> Keys]
    /\ payload = [j \in Imports |-> {}] /\ msg = {}
    /\ storing = {} /\ todo = [j \in Imports |-> {}]
    /\ missed = [j \in Imports |-> {}] /\ found = [j \in Imports |-> {}]
    /\ at = [j \in Imports |-> NoItem] /\ outdated = [j \in Imports |-> {}]
    /\ holder = [s \in Secrets |-> Nobody]
    /\ rows = [f \in Items |-> 0] /\ count = [s \in Secrets |-> Occurrences(rows, s)]
    /\ raced = {} /\ upsets = 0

Upset == upsets < MaxUpsets /\ upsets' = upsets + 1

-----------------------------------------------------------------------------
(* The request *)

\* A request whose key has a job already is a replay and changes nothing.
Ask(j, P) ==
    /\ row[j] = "none" /\ j \notin msg /\ ~KeyTaken(j)
    /\ row' = [row EXCEPT ![j] = "asked"] /\ payload' = [payload EXCEPT ![j] = P]
    /\ UNCHANGED <<key, msg, taskVars, outdated, holder, storeVars, raced, upsets>>

\* Mutant: the key is only looked up, nothing makes it unique.
InsertUnchecked(j) ==
    /\ row[j] = "asked"
    /\ row' = [row EXCEPT ![j] = "flushed"] /\ msg' = msg \cup {j}
    /\ UNCHANGED <<requestVars, taskVars, outdated, holder, storeVars, raced, upsets>>

\* The flush waits for an uncommitted row with its key; the message leaves
\* before the commit.
Insert(j) ==
    /\ row[j] = "asked" /\ ~KeyPending(j) /\ ~KeyTaken(j)
    /\ row' = [row EXCEPT ![j] = "flushed"] /\ msg' = msg \cup {j}
    /\ UNCHANGED <<requestVars, taskVars, outdated, holder, storeVars, raced, upsets>>

\* IntegrityError: the request answers with the job that was first.
LoseRace(j) ==
    /\ row[j] = "asked" /\ KeyTaken(j)
    /\ row' = [row EXCEPT ![j] = "none"] /\ payload' = [payload EXCEPT ![j] = {}]
    /\ UNCHANGED <<key, msg, taskVars, outdated, holder, storeVars, raced, upsets>>

CommitRequest(j) ==
    /\ row[j] = "flushed" /\ row' = [row EXCEPT ![j] = "pending"]
    /\ UNCHANGED <<requestVars, msg, taskVars, outdated, holder, storeVars, raced, upsets>>

AbortRequest(j) ==
    /\ row[j] = "flushed" /\ Upset
    /\ row' = [row EXCEPT ![j] = "none"] /\ payload' = [payload EXCEPT ![j] = {}]
    /\ UNCHANGED <<key, msg, taskVars, outdated, holder, storeVars, raced>>

-----------------------------------------------------------------------------
(* The task *)

\* No row yet, or a completed one: the message is acknowledged.
TakeNothing(j) ==
    /\ j \in msg /\ j \notin storing /\ (~Visible(j) \/ row[j] = "completed")
    /\ msg' = msg \ {j}
    /\ UNCHANGED <<row, requestVars, taskVars, outdated, holder, storeVars, raced, upsets>>

\* Any other row runs, a failed or cancelled one too.
Take(j) ==
    /\ j \in msg /\ j \notin storing /\ Visible(j) /\ row[j] # "completed"
    /\ msg' = msg \ {j} /\ row' = [row EXCEPT ![j] = "running"]
    /\ storing' = storing \cup {j} /\ todo' = [todo EXCEPT ![j] = payload[j]]
    /\ UNCHANGED <<requestVars, missed, found, at, outdated, holder, storeVars, raced, upsets>>

\* A query flushes the findings updated so far, each checked by its version.
FlushFails(j) == (found[j] \ {at[j]}) \cap outdated[j] # {}

\* Mutant: the lookup goes by the job that stored the finding.
LookUpOfJob(j, f) ==
    /\ j \in storing /\ at[j] = NoItem /\ f \in todo[j] /\ ~FlushFails(j)
    /\ at' = [at EXCEPT ![j] = f]
    /\ missed' = [missed EXCEPT ![j] = @ \cup {f}] /\ found' = found
    /\ raced' = IF \E i \in Imports \ {j} : f \in missed[i] THEN raced \cup {f} ELSE raced
    /\ UNCHANGED <<row, requestVars, msg, storing, todo, outdated, holder, storeVars, upsets>>

LookUp(j, f) ==
    /\ j \in storing /\ at[j] = NoItem /\ f \in todo[j] /\ ~FlushFails(j)
    /\ rows[f] <= 1
    /\ at' = [at EXCEPT ![j] = f]
    /\ IF rows[f] = 0 THEN missed' = [missed EXCEPT ![j] = @ \cup {f}] /\ found' = found
                      ELSE found' = [found EXCEPT ![j] = @ \cup {f}] /\ missed' = missed
    /\ raced' = IF rows[f] = 0 /\ \E i \in Imports \ {j} : f \in missed[i]
                THEN raced \cup {f} ELSE raced
    /\ UNCHANGED <<row, requestVars, msg, storing, todo, outdated, holder, storeVars, upsets>>

\* INSERT ON CONFLICT waits for whoever has the incident's row locked.
Upsert(j) ==
    /\ j \in storing /\ at[j] # NoItem /\ holder[SecretOf[at[j]]] \in {Nobody, j}
    /\ holder' = [holder EXCEPT ![SecretOf[at[j]]] = j]
    /\ todo' = [todo EXCEPT ![j] = @ \ {at[j]}] /\ at' = [at EXCEPT ![j] = NoItem]
    /\ UNCHANGED <<row, requestVars, msg, storing, missed, found, outdated, storeVars, raced,
                   upsets>>

\* The transaction of a task is over.
EndTask(j) ==
    /\ storing' = storing \ {j} /\ todo' = [todo EXCEPT ![j] = {}]
    /\ missed' = [missed EXCEPT ![j] = {}] /\ found' = [found EXCEPT ![j] = {}]
    /\ at' = [at EXCEPT ![j] = NoItem]
    /\ holder' = [s \in Secrets |-> IF holder[s] = j THEN Nobody ELSE holder[s]]

StoredBy(j) == [f \in Items |-> IF f \in missed[j] THEN rows[f] + 1 ELSE rows[f]]

\* Mutant: the count is read before the new findings are flushed.
CountedBeforeFlush(j) ==
    [s \in Secrets |-> IF holder[s] = j THEN Occurrences(rows, s) ELSE count[s]]

\* occurrence_count is counted anew from the rows.
Counted(j) ==
    [s \in Secrets |-> IF holder[s] = j THEN Occurrences(StoredBy(j), s) ELSE count[s]]

\* Mutant: an item that cannot be stored is passed over.
FinishEarly(j) ==
    /\ j \in storing /\ at[j] = NoItem /\ ~FlushFails(j)
    /\ rows' = StoredBy(j) /\ count' = Counted(j)
    /\ row' = [row EXCEPT ![j] = "completed"] /\ EndTask(j)
    /\ outdated' = [i \in Imports |-> IF i = j THEN {} ELSE outdated[i] \cup (found[j] \cap found[i])]
    /\ UNCHANGED <<requestVars, msg, raced, upsets>>

\* Findings, counts and the status are one commit.
Finish(j) ==
    /\ j \in storing /\ todo[j] = {} /\ at[j] = NoItem /\ ~FlushFails(j)
    /\ rows' = StoredBy(j) /\ count' = Counted(j)
    /\ row' = [row EXCEPT ![j] = "completed"] /\ EndTask(j)
    /\ outdated' = [i \in Imports |-> IF i = j THEN {} ELSE outdated[i] \cup (found[j] \cap found[i])]
    /\ UNCHANGED <<requestVars, msg, raced, upsets>>

-----------------------------------------------------------------------------
(* What goes wrong *)

Waits(i, k) == at[i] # NoItem /\ holder[SecretOf[at[i]]] = k /\ k # i

\* PostgreSQL finds the cycle and aborts one of its transactions.
Deadlocked(j) ==
    \E S \in SUBSET Imports :
        /\ j \in S
        /\ \A i \in S : (\E k \in S : Waits(i, k)) /\ (\E k \in S : Waits(k, i))

\* MultipleResultsFound
Ambiguous(j) == at[j] = NoItem /\ \E f \in todo[j] : rows[f] > 1

\* Roll back, read the row again, fail it; the message is acknowledged.
Abandon(j) ==
    /\ j \in storing /\ EndTask(j)
    /\ row' = [row EXCEPT ![j] = "failed"] /\ outdated' = [outdated EXCEPT ![j] = {}]
    /\ UNCHANGED <<requestVars, msg, storeVars, raced>>

FailStale(j)     == FlushFails(j) /\ Abandon(j) /\ UNCHANGED upsets
FailAmbiguous(j) == ~FlushFails(j) /\ Ambiguous(j) /\ Abandon(j) /\ UNCHANGED upsets
FailDeadlock(j)  == Deadlocked(j) /\ Abandon(j) /\ UNCHANGED upsets
FailOther(j)     == Abandon(j) /\ Upset

\* The worker is lost and the message queued again; or the hard limit, or an error
\* of the handler itself, and it is not.
Die(j) ==
    /\ j \in storing /\ Upset /\ EndTask(j)
    /\ outdated' = [outdated EXCEPT ![j] = {}] /\ msg' \in {msg, msg \cup {j}}
    /\ UNCHANGED <<row, requestVars, storeVars, raced>>

\* The watchdog fails a row no task stamps; a cancel writes any active row, and
\* its revoke may be missed.
Watchdog(j) ==
    /\ row[j] \in {"pending", "running"} /\ j \notin storing
    /\ row' = [row EXCEPT ![j] = "failed"]
    /\ UNCHANGED <<requestVars, msg, taskVars, outdated, holder, storeVars, raced, upsets>>

Cancel(j) ==
    /\ row[j] \in {"pending", "running"} /\ Upset
    /\ row' = [row EXCEPT ![j] = "cancelled"]
    /\ \/ UNCHANGED <<msg, taskVars, outdated, holder>>
       \/ msg' = msg \ {j} /\ EndTask(j) /\ outdated' = [outdated EXCEPT ![j] = {}]
    /\ UNCHANGED <<requestVars, storeVars, raced>>

-----------------------------------------------------------------------------
ImportNext ==
    \E j \in Imports :
        \/ \E P \in Payloads : Ask(j, P)
        \/ Insert(j) \/ LoseRace(j) \/ CommitRequest(j) \/ AbortRequest(j)
        \/ TakeNothing(j) \/ Take(j)
        \/ \E f \in Items : LookUp(j, f)
        \/ Upsert(j) \/ Finish(j)
        \/ FailStale(j) \/ FailAmbiguous(j) \/ FailDeadlock(j) \/ FailOther(j)
        \/ Die(j) \/ Watchdog(j) \/ Cancel(j)

ImportSpec == ImportInit /\ [][ImportNext]_importVars

-----------------------------------------------------------------------------
(* Properties *)

\* One client request, retried and racing with itself, makes one import job.
OneJobPerKey ==
    \A i, j \in Imports : i # j /\ Visible(i) /\ Visible(j) => key[i] # key[j]

\* What an import reports as completed is stored, whatever was redelivered, aborted
\* or cancelled before.
CompletedMeansStored ==
    \A j \in Imports : row[j] = "completed" => \A f \in payload[j] : rows[f] > 0

\* A finding is stored twice only if two tasks looked it up before either had
\* stored it: imports one after the other, and redeliveries, never duplicate.
DuplicateNeedsOverlap == \A f \in Items : rows[f] > 1 => f \in raced

\* An incident counts exactly the occurrences stored, also after imports that
\* overlapped, duplicated a row, or were rolled back.
CountsAreExact == \A s \in Secrets : count[s] = Occurrences(rows, s)
=============================================================================
