----------------------------- MODULE MCRecords -----------------------------
\* Records on a few threads, which are interchangeable.
EXTENDS Records, TLC

Symmetry == Permutations(Thread)
=============================================================================
