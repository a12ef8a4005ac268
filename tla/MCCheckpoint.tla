------------------------------ MODULE MCCheckpoint ------------------------------
EXTENDS RepoCheckpoint, TLC

\* Files are alike; branches are not: one is the default branch.
FileSymmetry == Permutations(Files)
=============================================================================
