\* Three hub processes campaign for the faros-hub lease; renewals fail,
\* processes crash, shut down and restart.
CONSTANTS
    NoLeader = NoLeader
    Proc = {p1, p2, p3}
    MaxStops = 2
SPECIFICATION FairSpec
PROPERTY ImplementsLeaderLease
\* Once every process's RunOrDie has returned and no stop is left, the
\* election takes no further step while the processes run on: that state
\* is the point of AlwaysEventuallyLeader, not a fault of the model.
CHECK_DEADLOCK FALSE
