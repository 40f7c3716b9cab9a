--------------------------- MODULE LeaseElection ---------------------------
(***************************************************************************)
(* master() in pkg/monitor/master.go: every hub process runs client-go's   *)
(* leaderelection.RunOrDie once, on a LeaseLock named faros-hub with its   *)
(* POD_NAME as identity (LeaseDuration 60s, RenewDeadline 15s, RetryPeriod *)
(* 5s, ReleaseOnCancel). The callbacks flip the process's isMaster flag,   *)
(* which runWorker reads with no synchronisation.                          *)
(*                                                                         *)
(* RunOrDie: acquire (retry every RetryPeriod until the lease is free, or  *)
(* is our own identity's), then `go OnStartedLeading(ctx)`, then renew     *)
(* until a renewal misses RenewDeadline; on return the deferred            *)
(* OnStoppedLeading runs and RunOrDie is over. Nothing calls it again.     *)
(*                                                                         *)
(* Time is abstracted: a lease whose holder is not renewing expires        *)
(* (LeaseExpires), whether the holder crashed, stopped or finished. A      *)
(* renewal fails only after RenewDeadline (15s) without a successful       *)
(* update; renew then calls release() (ReleaseOnCancel), which clears the  *)
(* record unless that update fails too, and only then does the deferred   *)
(* OnStoppedLeading run. The model keeps the order, not the durations.     *)
(***************************************************************************)
EXTENDS Naturals, FiniteSets

CONSTANTS Proc, NoLeader,
          MaxStops   \* bound on crashes and shutdowns in a behaviour

VARIABLES lease,     \* HolderIdentity of the faros-hub Lease, or NoLeader
          up,        \* the process runs
          elector,   \* where its RunOrDie is: acquire, renew, stopped, done
          started,   \* the OnStartedLeading goroutine: idle, pending, ran
          isMaster,  \* mon.isMaster
          stops      \* crashes and shutdowns so far (bounded by MaxStops)

vars == <<lease, up, elector, started, isMaster, stops>>

Leading(p) == up[p] /\ lease = p /\ elector[p] = "renew"
Campaigning(p) == up[p] /\ elector[p] = "acquire"

\* A new process: Run -> master() -> go RunOrDie, isMaster false.
Init ==
    /\ lease = NoLeader
    /\ up = [p \in Proc |-> TRUE]
    /\ elector = [p \in Proc |-> "acquire"]
    /\ started = [p \in Proc |-> "idle"]
    /\ isMaster = [p \in Proc |-> FALSE]
    /\ stops = 0

TryAcquireIgnoringHolder(p) ==
    /\ Campaigning(p)
    /\ lease' = p
    /\ elector' = [elector EXCEPT ![p] = "renew"]
    /\ started' = [started EXCEPT ![p] = "pending"]
    /\ UNCHANGED <<up, isMaster, stops>>

\* acquire: tryAcquireOrRenew succeeds when nobody holds the lease or the
\* record names our own identity (a restarted pod); then
\* `go OnStartedLeading(ctx)` is launched and renew begins.
TryAcquire(p) ==
    /\ Campaigning(p)
    /\ lease \in {NoLeader, p}
    /\ lease' = p
    /\ elector' = [elector EXCEPT ![p] = "renew"]
    /\ started' = [started EXCEPT ![p] = "pending"]
    /\ UNCHANGED <<up, isMaster, stops>>

\* LeaseDuration passes with no renewal from the holder.
LeaseExpires ==
    /\ lease # NoLeader
    /\ ~up[lease] \/ elector[lease] # "renew"
    /\ lease' = NoLeader
    /\ UNCHANGED <<up, elector, started, isMaster, stops>>

\* OnStartedLeading, whenever its goroutine gets to run.
RunStarted(p) ==
    /\ up[p]
    /\ started[p] = "pending"
    /\ isMaster' = [isMaster EXCEPT ![p] = TRUE]
    /\ started' = [started EXCEPT ![p] = "ran"]
    /\ UNCHANGED <<lease, up, elector, stops>>

\* renew: no successful tryAcquireOrRenew within RenewDeadline (the API
\* server is unreachable or slow); with ReleaseOnCancel renew then calls
\* release(), which writes an empty holder; that update may fail as well,
\* and the record keeps our identity until it expires.
RenewFails(p) ==
    /\ up[p]
    /\ elector[p] = "renew"
    /\ elector' = [elector EXCEPT ![p] = "stopped"]
    /\ lease' \in IF lease = p THEN {NoLeader, p} ELSE {lease}
    /\ UNCHANGED <<up, started, isMaster, stops>>

\* The deferred OnStoppedLeading sets isMaster to false; RunOrDie returns
\* and the goroutine master() started ends.
StoppedLeading(p) ==
    /\ up[p]
    /\ elector[p] = "stopped"
    /\ isMaster' = [isMaster EXCEPT ![p] = FALSE]
    /\ elector' = [elector EXCEPT ![p] = "done"]
    /\ UNCHANGED <<lease, up, started, stops>>

\* The process dies; its memory, isMaster included, is gone.
Crash(p) ==
    /\ up[p]
    /\ stops < MaxStops
    /\ stops' = stops + 1
    /\ up' = [up EXCEPT ![p] = FALSE]
    /\ isMaster' = [isMaster EXCEPT ![p] = FALSE]
    /\ started' = [started EXCEPT ![p] = "idle"]
    /\ UNCHANGED <<lease, elector>>

\* hub(): SIGTERM cancels ctx; with ReleaseOnCancel a renewing holder
\* clears the lease record before OnStoppedLeading, and the process exits.
Shutdown(p) ==
    /\ up[p]
    /\ stops < MaxStops
    /\ stops' = stops + 1
    /\ lease' = IF Leading(p) THEN NoLeader ELSE lease
    /\ up' = [up EXCEPT ![p] = FALSE]
    /\ isMaster' = [isMaster EXCEPT ![p] = FALSE]
    /\ started' = [started EXCEPT ![p] = "idle"]
    /\ UNCHANGED elector

\* The pod is started again: Run -> master() -> a new RunOrDie.
Restart(p) ==
    /\ ~up[p]
    /\ up' = [up EXCEPT ![p] = TRUE]
    /\ elector' = [elector EXCEPT ![p] = "acquire"]
    /\ UNCHANGED <<lease, started, isMaster, stops>>

Next ==
    \/ LeaseExpires
    \/ \E p \in Proc :
          \/ TryAcquire(p) \/ RunStarted(p) \/ RenewFails(p) \/ StoppedLeading(p)
          \/ Crash(p) \/ Shutdown(p) \/ Restart(p)

Spec == Init /\ [][Next]_vars

\* acquire retries every RetryPeriod while ctx lives; time passes, so an
\* unrenewed lease expires; the Go scheduler eventually runs a launched
\* goroutine and a deferred call; Kubernetes restarts a pod that exited.
\* Renewal failures, crashes and shutdowns are the environment's: no fairness.
FairSpec ==
    /\ Spec
    /\ WF_vars(LeaseExpires)
    /\ \A p \in Proc : /\ WF_vars(TryAcquire(p))
                       /\ WF_vars(RunStarted(p))
                       /\ WF_vars(StoppedLeading(p))
                       /\ WF_vars(Restart(p))

-----------------------------------------------------------------------------
(* Properties *)

\* The election implements LeaderLease: the lease holder that is renewing
\* is the leader, a live process whose RunOrDie has returned is retired,
\* and a retired process does not lead again before it restarts.
Leader == IF lease # NoLeader /\ Leading(lease) THEN lease ELSE NoLeader

LL == INSTANCE LeaderLease
        WITH leader <- Leader,
             retired <- {p \in Proc : up[p] /\ elector[p] \in {"stopped", "done"}},
             alive <- {p \in Proc : up[p]}

ImplementsLeaderLease == LL!Spec

\* Spec 4.1: the arbiter retries forever and never stops; so with the
\* processes running, some process leads again and again.
AlwaysEventuallyLeader == []<>(\E p \in Proc : Leading(p))

=============================================================================
