---------------------------- MODULE ScanExclusion ----------------------------
(***************************************************************************)
(* What the scan lock promises, stated over whole histories.               *)
(*                                                                         *)
(* The lock is a lease without fencing, so two executions can work on one  *)
(* checkout: the lease runs out, a cancel frees it, the sweeper frees it   *)
(* after the row looked dead, a late duplicate overwrites it.  `excused`   *)
(* remembers which executions have had such a lapse since they last stood  *)
(* on firm ground; everything else must keep scans apart.                  *)
(***************************************************************************)
EXTENDS ScanLifecycle

VARIABLE excused   \* history: executions with a lapse behind them

histVars == <<vars, excused>>

PreStart == {"lock", "probe", "retake", "start"}
Tracked  == PreStart \cup InTry

\* The row invites the sweeper and duplicate deliveries to ignore it.
Lapsed(w) == /\ pc[w] \in InTry
             /\ \/ status[job[w]] \notin Active
                \/ silence[job[w]] >= StallThreshold

\* Two deliveries of one scan were both past the duplicate guard before
\* either had marked the row RUNNING.
Together(w) == /\ pc[w] \in PreStart
               /\ \E v \in Workers \ {w} : pc[v] \in PreStart /\ job[v] = job[w]

Owns(w) == pc[w] \in InTry /\ lock[Key(w)] = PayloadOf(w)

\* Holding the lock, on a live row, with nobody about to act on that lock.
FirmGround(w) == /\ Owns(w)
                 /\ ~Lapsed(w) /\ ~Together(w)
                 /\ sweep[Key(w)] # lock[Key(w)]
                 /\ \A v \in Workers \ {w} :
                      /\ pc[v] \in PreStart => job[v] # job[w]
                      /\ pc[v] = "retake" => Key(v) # Key(w)

\* The lease of w ran out, or a cancel request freed it.
Evicted(w) == /\ Owns(w) /\ lock'[Key(w)] = NoLock
              /\ Tick \/ \E j \in Jobs : Cancel(j)

\* v, answering a lock it saw held by its own scan, overwrites another's.
Robs(v) == Retake(v) /\ HolderOf(Key(v)) \notin {NoJob, job[v]}

Robbed(w) == Owns(w) /\ \E v \in Workers : Robs(v) /\ Key(v) = Key(w)

Note == excused' = {w \in Workers :
                      /\ pc'[w] \in Tracked
                      /\ ~FirmGround(w)'
                      /\ \/ w \in excused
                         \/ Lapsed(w)' \/ Together(w)'
                         \/ Evicted(w) \/ Robs(w) \/ Robbed(w)}

HistInit == Init /\ excused = {}
HistNext == Next /\ Note
HistSpec == HistInit /\ [][HistNext]_histVars

-----------------------------------------------------------------------------
(* Why exclusion holds: the inductive invariant, part by part. *)

\* Past the duplicate guard, the lock not yet acquired.
Acquiring == {"lock", "probe", "retake"}

\* A token names one execution, wherever it is found.
TokensUnique ==
    /\ \A v, w \in Workers : v # w /\ tok[v] # NoToken => tok[v] # tok[w]
    /\ \A w \in Workers, k \in Keys :
         /\ lock[k] # NoLock /\ lock[k].token = tok[w] => k = Key(w) /\ lock[k] = PayloadOf(w)
         /\ sweep[k] # NoLock /\ sweep[k].token = tok[w] => k = Key(w) /\ sweep[k] = PayloadOf(w)

OwnerOrExcused == \A w \in Workers : pc[w] \in InTry => Owns(w) \/ w \in excused

LapseIsNoted == \A w \in Workers :
    pc[w] \in InTry /\ (Lapsed(w) \/ Together(w)) => w \in excused

\* The sweeper only ever goes after executions that have lapsed ...
SweptIsExcused == \A w \in Workers :
    pc[w] \in InTry /\ sweep[Key(w)] = PayloadOf(w) => w \in excused

\* ... and so does a second delivery of the same scan.
RivalledIsExcused == \A v, w \in Workers :
    v # w /\ pc[v] \in Acquiring /\ pc[w] \in InTry /\ job[v] = job[w] => w \in excused

\* A row is PENDING only until the first execution starts, and for ever after
\* a session that saw it otherwise.
PendingIsFirst ==
    /\ \A j \in Jobs : request[j] = "submitting" => status[j] = "absent"
    /\ \A w \in Workers :
         /\ pc[w] \in Working => status[job[w]] \notin {"absent", "PENDING"}
         /\ pc[w] \in PreStart \cup {"coalesce"} =>
              /\ status[job[w]] # "absent" /\ loaded[w] # "absent"
              /\ loaded[w] # "PENDING" => status[job[w]] # "PENDING"

\* What every step of the lifecycle preserves, and exclusion follows from.
ExclusionInv == /\ TokensUnique
                /\ OwnerOrExcused
                /\ LapseIsNoted
                /\ SweptIsExcused
                /\ RivalledIsExcused
                /\ PendingIsFirst

-----------------------------------------------------------------------------
\* Two executions of different scans work on one repository and branch only
\* if one of them has a lapse behind it (repo_scan_lock, cleanup_stale_locks).
Exclusion ==
    \A v, w \in Workers :
        (pc[v] \in Working /\ pc[w] \in Working /\ job[v] # job[w] /\ Key(v) = Key(w))
            => v \in excused \/ w \in excused

\* One scan is executed twice at a time only if the earlier execution had a
\* lapse, or both deliveries raced past the guard (_is_duplicate_live_execution).
SameScanOnce ==
    \A v, w \in Workers :
        (v # w /\ pc[v] \in Working /\ pc[w] \in Working /\ job[v] = job[w])
            => v \in excused \/ w \in excused


=============================================================================
