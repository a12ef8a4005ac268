------------------------------- MODULE MCSource -------------------------------
\* Two jobs that are interchangeable; safety needs no fairness.
EXTENDS SourceScan, TLC

JobSymmetry == Permutations(Jobs)

SafeSpec == SourceInit /\ [][SourceNext]_sourceScanVars
=============================================================================
