------------------------------- MODULE MCScan -------------------------------
(* Small instances of the scan lifecycle for TLC. *)
EXTENDS ScanLifecycle, TLC

CONSTANTS j1, j2, w1, w2, k1, t1, t2, t3, t4, t5

MCJobs    == {j1, j2}
MCOneJob  == {j1}
MCKeys    == {k1}
MCKeyOf   == [j \in Jobs |-> k1]   \* every scan of one repository and branch
MCWorkers == {w1, w2}
\* Two tokens owned, one in the lock, one read by the sweeper, one to draw.
MCTokens  == {t1, t2, t3, t4, t5}

\* Scans are alike, and so are processes.  Tokens are drawn by CHOOSE.
Sym == Permutations(Jobs) \cup Permutations(Workers)
=============================================================================
