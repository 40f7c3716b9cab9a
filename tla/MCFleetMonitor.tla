--------------------------- MODULE MCFleetMonitor ---------------------------
(* FleetMonitor for TLC: the .cfg files give Proc and Clusters as sets of  *)
(* model values, and the sets MasterChoices the masters are chosen from.  *)
EXTENDS FleetMonitor, TLC

\* Sound when MasterChoices is closed under permutations of Proc: no
\* action or property singles out a process.
ProcSymmetry == Permutations(Proc)
=============================================================================
