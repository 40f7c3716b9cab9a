---------------------------- MODULE SyncTargets ----------------------------
(***************************************************************************)
(* The SyncTargets controller, pkg/controllers/workloads/synctargets: an  *)
(* informer feeds a rate-limiting work queue, two workers take keys and   *)
(* run process (lister Get, the bootstrap label filter, reconcile,        *)
(* patchIfNeeded).                                                        *)
(*                                                                         *)
(* A SyncTarget is abstracted to existence, resourceVersion, generation  *)
(* and a status value. The controller's reconcile is not part of this     *)
(* repository: its effect on the copy (status changed, spec changed,      *)
(* requeue asked, error returned) is a free choice, bounded by            *)
(* MaxEffects. The work queue is client-go's: a key is queued at most    *)
(* once (dirty), and a key being processed is held back until Done.      *)
(***************************************************************************)
EXTENDS Naturals, Sequences, SequencesExt

CONSTANTS Keys,          \* SyncTarget keys
          Bootstrapped,  \* keys whose object has the bootstrap label "true"
          Workers,       \* worker goroutines (Start(ctx, 2))
          MaxWrites,     \* bound on writes by others (users, the syncer)
          MaxEffects,    \* bound on reconciles with an effect
          MaxCrashes,    \* bound on process restarts after a panic
          NoKey

ASSUME Bootstrapped \subseteq Keys

VARIABLES obj,      \* the SyncTarget in the API server
          cache,    \* the informer's copy, read by the lister
          watch,    \* versions of each object not yet delivered by the watch
          wq,       \* the work queue: queue, dirty, processing
          waiting,  \* keys given to AddRateLimited, not yet re-added
          wk,       \* each worker: idle, or between reconcile and patch
          seen,     \* <<generation, status>> of the last error-free process
          writes, effects, crashes

vars == <<obj, cache, watch, wq, waiting, wk, seen, writes, effects, crashes>>

Obj == [exists: BOOLEAN, rv: Nat, gen: Nat, st: BOOLEAN]
IdleWk == [pc |-> "idle", key |-> NoKey]

Init ==
    /\ obj = [k \in Keys |-> [exists |-> TRUE, rv |-> 1, gen |-> 1, st |-> FALSE]]
    /\ cache = obj
    /\ watch = [k \in Keys |-> <<>>]
    \* the initial List: AddFunc enqueues every object
    /\ wq = [queue |-> SetToSeq(Keys), dirty |-> Keys, processing |-> {}]
    /\ waiting = {}
    /\ wk = [w \in Workers |-> IdleWk]
    /\ seen = [k \in Keys |-> <<0, FALSE>>]
    /\ writes = 0 /\ effects = 0 /\ crashes = 0

-----------------------------------------------------------------------------
(* client-go workqueue: Add, Get, Done. *)

Add(q, k) ==
    IF k \in q.dirty THEN q
    ELSE [q EXCEPT !.dirty = @ \cup {k},
                   !.queue = IF k \in q.processing THEN @ ELSE Append(@, k)]

Done(q, k) ==
    [q EXCEPT !.processing = @ \ {k},
              !.queue = IF k \in q.dirty THEN Append(@, k) ELSE @]

Get(q) ==
    [q EXCEPT !.queue = Tail(@), !.dirty = @ \ {Head(q.queue)},
              !.processing = @ \cup {Head(q.queue)}]

\* A write to the API server: a new resourceVersion, and a watch event.
Write(k, new) ==
    /\ obj' = [obj EXCEPT ![k] = [new EXCEPT !.rv = obj[k].rv + 1]]
    /\ watch' = [watch EXCEPT ![k] = Append(@, obj'[k])]

-----------------------------------------------------------------------------
(* Other writers. *)

OtherWrite(k) ==
    /\ obj[k].exists
    /\ writes < MaxWrites
    /\ writes' = writes + 1
    /\ \/ Write(k, [obj[k] EXCEPT !.gen = @ + 1])   \* spec update
       \/ Write(k, [obj[k] EXCEPT !.st = ~@])       \* status update
       \/ Write(k, obj[k])                          \* labels, annotations
       \/ Write(k, [obj[k] EXCEPT !.exists = FALSE]) \* delete
    /\ UNCHANGED <<cache, wq, waiting, wk, seen, effects, crashes>>

-----------------------------------------------------------------------------
(* The informer delivers the next event of a key and runs the handlers:   *)
(* DeleteFunc enqueues; UpdateFunc is enqueueUpdate.                      *)

enqueueUpdate(old, new) ==
    /\ old.rv # new.rv
    /\ old.gen # new.gen \/ old.st # new.st

Deliver(k) ==
    /\ watch[k] # <<>>
    /\ LET new == Head(watch[k]) IN
       /\ cache' = [cache EXCEPT ![k] = new]
       /\ wq' = IF ~new.exists \/ enqueueUpdate(cache[k], new) THEN Add(wq, k) ELSE wq
    /\ watch' = [watch EXCEPT ![k] = Tail(@)]
    /\ UNCHANGED <<obj, waiting, wk, seen, writes, effects, crashes>>

\* The rate limiter's delay passes: the key is added again.
RateLimitExpires(k) ==
    /\ k \in waiting
    /\ waiting' = waiting \ {k}
    /\ wq' = Add(wq, k)
    /\ UNCHANGED <<obj, cache, watch, wk, seen, writes, effects, crashes>>

-----------------------------------------------------------------------------
(* A worker: processNextWorkItem. *)

\* Lister NotFound or no bootstrap label: process returns (false, nil), and
\* the key is Done and forgotten.
Skipped(k) == ~cache[k].exists \/ k \notin Bootstrapped

processGetEarlyDone(w) ==
    /\ wk[w] = IdleWk
    /\ wq.queue # <<>>
    /\ LET k == Head(wq.queue) IN
       IF Skipped(k)
       THEN /\ wq' = Done(Get(wq), k)
            /\ UNCHANGED <<wk, effects>>
       ELSE \E stCh, specCh, requeue, err \in BOOLEAN :
            /\ effects' = IF stCh \/ specCh \/ requeue \/ err THEN effects + 1 ELSE effects
            /\ effects' <= MaxEffects
            /\ stCh /\ specCh => crashes < MaxCrashes
            /\ wq' = Done(Get(wq), k)
            /\ wk' = [wk EXCEPT ![w] = [pc |-> "patch", key |-> k, old |-> cache[k],
                                        stCh |-> stCh, specCh |-> specCh,
                                        requeue |-> requeue, err |-> err]]
    /\ UNCHANGED <<obj, cache, watch, waiting, seen, writes, crashes>>

\* queue.Get; process: lister Get, label filter, DeepCopy, then reconcile
\* on the copy, whose effects are chosen here.
processGet(w) ==
    /\ wk[w] = IdleWk
    /\ wq.queue # <<>>
    /\ LET k == Head(wq.queue) IN
       IF Skipped(k)
       THEN /\ wq' = Done(Get(wq), k)
            /\ UNCHANGED <<wk, effects>>
       ELSE \E stCh, specCh, requeue, err \in BOOLEAN :
            /\ effects' = IF stCh \/ specCh \/ requeue \/ err THEN effects + 1 ELSE effects
            /\ effects' <= MaxEffects
            /\ stCh /\ specCh => crashes < MaxCrashes
            /\ wq' = Get(wq)
            /\ wk' = [wk EXCEPT ![w] = [pc |-> "patch", key |-> k, old |-> cache[k],
                                        stCh |-> stCh, specCh |-> specCh,
                                        requeue |-> requeue, err |-> err]]
    /\ UNCHANGED <<obj, cache, watch, waiting, seen, writes, crashes>>

\* The copy after reconcile.
Reconciled(s) ==
    [s.old EXCEPT !.gen = IF s.specCh THEN @ + 1 ELSE @,
                  !.st = IF s.stCh THEN ~@ ELSE @]

\* The merge patch carries the lister copy's resourceVersion: it fails on
\* a newer object (Conflict) and on a deleted one (NotFound).
PatchFails(s) == ~obj[s.key].exists \/ obj[s.key].rv # s.old.rv

processPatchNoRetry(w) ==
    /\ wk[w].pc = "patch"
    /\ ~(wk[w].stCh /\ wk[w].specCh)
    /\ LET s == wk[w]
           k == s.key
           patched == (s.stCh \/ s.specCh) /\ ~PatchFails(s)
           errs == s.err \/ ((s.stCh \/ s.specCh) /\ PatchFails(s)) IN
       /\ IF patched THEN Write(k, Reconciled(s)) ELSE UNCHANGED <<obj, watch>>
       /\ wq' = Done(IF ~errs /\ s.requeue THEN Add(wq, k) ELSE wq, k)
       /\ UNCHANGED waiting
       /\ seen' = IF errs THEN seen ELSE [seen EXCEPT ![k] = <<s.old.gen, s.old.st>>]
    /\ wk' = [wk EXCEPT ![w] = IdleWk]
    /\ UNCHANGED <<cache, writes, effects, crashes>>

\* patchIfNeeded (only one of spec and status changed), then the error
\* handling of processNextWorkItem: an error (reconcile's or the patch's)
\* is AddRateLimited, else a requeue is Add; the deferred Done.
processPatch(w) ==
    /\ wk[w].pc = "patch"
    /\ ~(wk[w].stCh /\ wk[w].specCh)
    /\ LET s == wk[w]
           k == s.key
           patched == (s.stCh \/ s.specCh) /\ ~PatchFails(s)
           errs == s.err \/ ((s.stCh \/ s.specCh) /\ PatchFails(s)) IN
       /\ IF patched THEN Write(k, Reconciled(s)) ELSE UNCHANGED <<obj, watch>>
       /\ wq' = Done(IF ~errs /\ s.requeue THEN Add(wq, k) ELSE wq, k)
       /\ waiting' = IF errs THEN waiting \cup {k} ELSE waiting
       /\ seen' = IF errs THEN seen ELSE [seen EXCEPT ![k] = <<s.old.gen, s.old.st>>]
    /\ wk' = [wk EXCEPT ![w] = IdleWk]
    /\ UNCHANGED <<cache, writes, effects, crashes>>

\* patchIfNeeded panics when spec and status both changed. The panic is
\* re-raised by wait.Until's HandleCrash: the process exits, and its
\* restart lists every SyncTarget again (AddFunc enqueues each).
PatchPanic(w) ==
    /\ wk[w].pc = "patch"
    /\ wk[w].stCh /\ wk[w].specCh
    /\ crashes < MaxCrashes
    /\ crashes' = crashes + 1
    /\ cache' = obj
    /\ watch' = [k \in Keys |-> <<>>]
    /\ LET live == {k \in Keys : obj[k].exists} IN
       wq' = [queue |-> SetToSeq(live), dirty |-> live, processing |-> {}]
    /\ waiting' = {}
    /\ wk' = [v \in Workers |-> IdleWk]
    /\ UNCHANGED <<obj, seen, writes, effects>>

-----------------------------------------------------------------------------
Next ==
    \/ \E k \in Keys : OtherWrite(k) \/ Deliver(k) \/ RateLimitExpires(k)
    \/ \E w \in Workers : processGet(w) \/ processPatch(w) \/ PatchPanic(w)

Spec == Init /\ [][Next]_vars

\* The watch delivers every event, the rate limiter's delay ends, and the
\* worker goroutines (wait.Until) keep taking keys and finish a process.
FairSpec ==
    /\ Spec
    /\ \A k \in Keys : WF_vars(Deliver(k)) /\ WF_vars(RateLimitExpires(k))
    /\ \A w \in Workers : WF_vars(processGet(w)) /\ WF_vars(processPatch(w))
                          /\ WF_vars(PatchPanic(w))

-----------------------------------------------------------------------------
(* Properties *)

TypeOK ==
    /\ obj \in [Keys -> Obj] /\ cache \in [Keys -> Obj]
    /\ wq.dirty \subseteq Keys /\ wq.processing \subseteq Keys
    /\ waiting \subseteq Keys
    /\ \A w \in Workers : wk[w] = IdleWk \/ wk[w].key \in Keys

\* The work queue never hands one key to two workers at once: a key is
\* processed again only after the deferred Done of the earlier process.
NoConcurrentProcessing ==
    \A v, w \in Workers :
        (v # w /\ wk[v].pc = "patch" /\ wk[w].pc = "patch") => wk[v].key # wk[w].key

\* Every change of a bootstrap SyncTarget's generation or status is
\* reconciled: an error-free process eventually reads it, whatever
\* conflicts, errors and events in flight come between.
Pending(k) == obj[k].exists /\ <<obj[k].gen, obj[k].st>> # seen[k]

ChangesReconciled == \A k \in Bootstrapped : Pending(k) ~> ~Pending(k)

=============================================================================
