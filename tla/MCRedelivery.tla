------------------------------ MODULE MCRedelivery ------------------------------
(* Scans whose message comes again, in two parts that share no state: the one scan *)
(* and its workers, and what executions and deletions of past scans leave of the   *)
(* findings.  The initial state says which one moves.                              *)
EXTENDS MCScanExclusion, ScanHistory

CONSTANT Twofold    \* two past scans that are alike

VARIABLE part

ASSUME PastBounds == HistoryScans

redeliveryVars == <<histVars, historyVars, part>>

RedeliveryInit == HistInit /\ HistoryInit /\ part \in {"scan", "history"}

RedeliveryNext ==
    /\ UNCHANGED part
    /\ \/ part = "scan" /\ HistNext /\ UNCHANGED historyVars
       \/ part = "history" /\ HistoryNext /\ UNCHANGED histVars

RedeliverySpec == RedeliveryInit /\ [][RedeliveryNext]_redeliveryVars

\* No state has values of both parts, so processes and past scans change places
\* together.
RedeliverySymmetry ==
    {p \in Permutations(Workers \cup Twofold) :
        \/ \A x \in Workers \cup Twofold : p[x] = x
        \/ \A S \in {Workers, Twofold} : \A x \in S : p[x] \in S \ {x}}
=============================================================================
