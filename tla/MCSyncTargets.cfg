\* Two workers (Start(ctx, 2)); a bootstrap SyncTarget and one without the
\* label; two writes by others, two reconciles with an effect, one panic.
CONSTANTS
    Keys = {k1, k2}
    Bootstrapped = {k1}
    Workers = {w1, w2}
    MaxWrites = 2
    MaxEffects = 2
    MaxCrashes = 1
    NoKey = NoKey
SPECIFICATION FairSpec
INVARIANT NoConcurrentProcessing
PROPERTY ChangesReconciled
\* With the writes used up and the queue drained, the workers block in
\* queue.Get: the controller idles, which is its normal state.
CHECK_DEADLOCK FALSE
