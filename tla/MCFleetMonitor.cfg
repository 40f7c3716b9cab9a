\* One master and two other hub processes that register (at any point of
\* the master's cycle), heartbeat, crash, restart and shut down; three
\* Worker UIDs, so a restart is possible only while a process has not
\* started yet. One cluster is created, is written twice by the health
\* reconciler (made healthy, then healthy or not again: the second write
\* is the one that conflicts with a placement in flight) and is deleted.
\* The master choices are closed under permutations of the processes, so
\* the processes are a symmetry set.
CONSTANTS
    NoWorker = NoWorker
    Proc = {p1, p2, p3}
    Clusters = {c1}
    MasterChoices = {{p1}, {p2}, {p3}}
    MaxStarts = 3
    MaxReconciles = 2
SPECIFICATION Spec
INVARIANT TypeOK
INVARIANT BackRefListed
PROPERTY AssignOnlyOrphans
SYMMETRY ProcSymmetry
