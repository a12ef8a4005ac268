------------------------------- MODULE MCSettles -------------------------------
(* What must end: the way back of a source whose cursor passed something, scans of *)
(* a source and their lock, and triage that is run again.  The three parts share   *)
(* nothing, and the initial state says which of them moves.                        *)
EXTENDS SourceWalk, RetroTriage

CONSTANTS
    NumObjects, Jobs, NoJob, MaxStamp, MaxScans, MaxUpsets

VARIABLES
    stamp, time, stored, verdict, cursor, lock, row, full, tid, age, msg, pc, view, todo, seen,
    missed, batch, cur, gaps, slipped, upsets, scans,
    part

Scan == INSTANCE SourceScan WITH
    NumItems <- NumObjects, MaxFaults <- MaxUpsets, unread <- missed, faults <- upsets

ASSUME RetroBounds == RetroLimits

\* One place with two pages.
MCNumPlaces == [s \in Sources |-> 1]
MCCap       == [s \in Sources |-> 2]

scanVars == <<stamp, time, stored, verdict, cursor, lock, row, full, tid, age, msg, pc, view, todo,
              seen, missed, batch, cur, gaps, slipped, upsets, scans>>
settlesVars == <<vars, scanVars, retroVars, part>>

\* A part that does not move has no time to pass.
SettlesInit ==
    /\ part \in {"walk", "scan", "retro"}
    /\ Init /\ Scan!SourceInit /\ RetroInit
    /\ part # "walk" => source = CHOOSE s \in Sources : TRUE
    /\ part # "retro" => silence = StallThreshold /\ runAge = AbsoluteLimit

SettlesNext ==
    /\ UNCHANGED part
    /\ \/ part = "walk" /\ Next /\ UNCHANGED <<scanVars, retroVars>>
       \/ part = "scan" /\ Scan!SourceNext /\ UNCHANGED <<vars, retroVars>>
       \/ part = "retro" /\ RetroNext /\ UNCHANGED <<vars, scanVars>>

\* The weekly sweep, in the part that has one.
Sweep == part = "walk" /\ Start(TRUE)

SettlesFairness ==
    /\ WF_vars(Step) /\ SF_vars(Sweep)
    /\ Scan!SourceFairness /\ RetroFairness

SettlesSpec == SettlesInit /\ [][SettlesNext]_settlesVars /\ SettlesFairness

\* SourceScan: once no scan is dispatched, the lock is free for good.
SourceNotWedged == Scan!SourceNotWedged

\* SourceScan: and no row is active any more.
SourceRowsSettle == Scan!SourceRowsSettle
================================================================================
