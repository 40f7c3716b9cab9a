--------------------------- MODULE MCLeaseElection --------------------------
EXTENDS LeaseElection, TLC

\* The processes are interchangeable: safety runs may use symmetry.
ProcSymmetry == Permutations(Proc)

=============================================================================
