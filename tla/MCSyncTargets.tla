--------------------------- MODULE MCSyncTargets ---------------------------
EXTENDS SyncTargets, TLC

\* The two worker goroutines run the same loop.
WorkerSymmetry == Permutations(Workers)

=============================================================================
