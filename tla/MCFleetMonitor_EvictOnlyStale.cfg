\* EvictOnlyStale, checked alone: TLC reports the shortest behaviour of the code that breaks it.
CONSTANTS
    NoWorker = NoWorker
    Proc = {p1, p2}
    Clusters = {c1}
    MasterChoices = {{p1}}
    MaxStarts = 3
    MaxReconciles = 2
SPECIFICATION Spec
PROPERTY EvictOnlyStale
