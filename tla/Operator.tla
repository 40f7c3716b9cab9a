------------------------------ MODULE Operator ------------------------------
(***************************************************************************)
(* `faros deploy <type>` and the operator it installs.                     *)
(*                                                                         *)
(* deploy (cmd/faros/deploy.go, pkg/operator/deploy) walks the sorted      *)
(* resource list once: Ensure each object; for a CRD, poll until it is     *)
(* Established (one minute) and refresh the API resources. The error of   *)
(* Ensure is kept only on the CRD path: for any other object it is         *)
(* overwritten before it is read.                                          *)
(*                                                                         *)
(* The operator (cmd/faros/operator.go) is a controller manager, started   *)
(* by Kubernetes once the Deployment exists, running the Config and        *)
(* Network controllers, one worker each. A controller's work queue         *)
(* receives the key of every watched object at each write to it (status   *)
(* writes included) and the whole list when the manager starts; a key      *)
(* added while its reconcile runs is held dirty and queued again by Done;  *)
(* RequeueAfter and errors put the key in `waiting` until its delay ends.  *)
(*                                                                         *)
(* Reconcilers read through the client, not a cache. The Network           *)
(* reconciler reads the spec, then checks each URL over HTTP (5s each),    *)
(* then writes the condition: the spec may change in between.             *)
(***************************************************************************)
EXTENDS Naturals, Sequences, FiniteSets

CONSTANTS Deployment,   \* "operator" or "hub", the argument of faros deploy
          Urls,         \* URLs a Network spec may list
          Reachable,    \* the URLs whose HEAD request succeeds
          InitialUrls,  \* the URL list of the Network object in the assets
          MaxSpecEdits, \* bound on users' edits of the Network spec
          MaxCrashes    \* bound on crashes of the operator pod

ASSUME Deployment \in {"operator", "hub"}
ASSUME Reachable \subseteq Urls /\ InitialUrls \subseteq Urls

CRDs == {"configs", "networks"}
ConfigNames == {"cluster", "hub"}      \* SingletonClusterConfigObjectName, SingletonHubConfigObjectName
NetworkKey == "cluster"                \* the Network SingletonObjectName
Cond == {"none", "True", "False"}

VARIABLES crd,         \* crd[r]: none, created or established
          deployment,  \* the faros-operator Deployment exists
          config,      \* config[n]: the Config named n: exists, Healthy condition
          network,     \* the Network "cluster": exists, spec URLs, InternetReachable
          step,        \* deploy: index of the resource in hand, or Len(Plan) + 1
          stage,       \* deploy: ensure or poll (the CRD path)
          result,      \* deploy: running, ok or err
          up,          \* the operator pod runs
          cq,          \* the Config controller's work queue: queued keys
          nq,          \* the Network controller's work queue: queued keys
          ndirty,      \* the Network key was added while it was being processed
          waiting,     \* waiting[c]: keys of controller c in a requeue delay
          nw,          \* the Network reconcile in flight: idle, or the condition it checked
          edits,       \* spec edits so far
          crashes      \* operator crashes so far

vars == <<crd, deployment, config, network, step, stage, result, up,
          cq, nq, ndirty, waiting, nw, edits, crashes>>
EnvVars == <<edits, crashes>>

-----------------------------------------------------------------------------
\* The config object of the deployment type (resources), appended to the
\* static assets of the role and the shared ones, sorted so that CRDs come
\* before the objects of their kinds.
ConfigName == IF Deployment = "operator" THEN "cluster" ELSE "hub"
Plan == <<"configs", "networks", "deployment", "network", "config">>
KindOf == [r \in {"network", "config"} |-> IF r = "network" THEN "networks" ELSE "configs"]

\* check(): a HEAD request; any error (unreachable, timeout) is a failure.
check(u) == u \in Reachable

ReachCondAnyAnswers(U) == IF \E u \in U : check(u) THEN "True" ELSE "False"

\* Reconcile's URL loop: True when no URL failed its check.
ReachCond(U) == IF \A u \in U : check(u) THEN "True" ELSE "False"

\* isCRDEstablished: Established and NamesAccepted are both true.
isCRDEstablished(r) == crd[r] = "established"

\* IsReady(name): the operator Deployment is ready and every condition
\* type of the Config named name is present and true.
IsReady(n) == up /\ config[n].exists /\ config[n].healthy

Init ==
    /\ crd = [r \in CRDs |-> "none"]
    /\ deployment = FALSE
    /\ config = [n \in ConfigNames |-> [exists |-> FALSE, healthy |-> FALSE]]
    /\ network = [exists |-> FALSE, urls |-> {}, cond |-> "none"]
    /\ step = 1 /\ stage = "ensure" /\ result = "running"
    /\ up = FALSE
    /\ cq = {} /\ nq = {} /\ ndirty = FALSE
    /\ waiting = [c \in {"config", "network"} |-> {}]
    /\ nw = "idle"
    /\ edits = 0 /\ crashes = 0

\* A write to a watched object adds its key to the controller's queue (the
\* watches of SetupWithManager); nothing is watched while the pod is down.
ConfigWatch(n) == cq' = IF up THEN cq \cup {n} ELSE cq
NetworkWatch ==
    /\ nq' = IF up /\ nw = "idle" THEN nq \cup {NetworkKey} ELSE nq
    /\ ndirty' = ((up /\ nw # "idle") \/ ndirty)

-----------------------------------------------------------------------------
(* deploy *)

\* dh.Ensure of the next object, which may fail. A custom resource needs
\* its CRD served. On the CRD path the poll decides; otherwise the error
\* is overwritten by the switch and the loop goes on.
DeployEnsure ==
    /\ result = "running" /\ stage = "ensure" /\ step <= Len(Plan)
    /\ LET r == Plan[step] IN
       /\ \/ /\ r \in CRDs
             /\ crd' = [crd EXCEPT ![r] = IF @ = "none" THEN "created" ELSE @]
             /\ UNCHANGED <<deployment, config, network, cq, nq, ndirty>>
          \/ /\ r = "deployment"
             /\ deployment' = TRUE
             /\ UNCHANGED <<crd, config, network, cq, nq, ndirty>>
          \/ /\ r = "network"
             /\ isCRDEstablished(KindOf[r])
             /\ network' = [exists |-> TRUE, urls |-> InitialUrls, cond |-> "none"]
             /\ NetworkWatch
             /\ UNCHANGED <<crd, deployment, config, cq>>
          \/ /\ r = "config"
             /\ isCRDEstablished(KindOf[r])
             /\ config' = [config EXCEPT ![ConfigName].exists = TRUE]
             /\ ConfigWatch(ConfigName)
             /\ UNCHANGED <<crd, deployment, network, nq, ndirty>>
          \/ /\ UNCHANGED <<crd, deployment, config, network, cq, nq, ndirty>>
       /\ IF r \in CRDs THEN stage' = "poll" /\ UNCHANGED step
                        ELSE step' = step + 1 /\ UNCHANGED stage
    /\ UNCHANGED <<result, up, waiting, nw, edits, crashes>>

DeployPollTimeoutIgnored ==
    /\ result = "running" /\ stage = "poll"
    /\ LET r == Plan[step] IN
       \/ /\ crd[r] = "none"
          /\ result' = "err" /\ UNCHANGED <<step, stage>>
       \/ /\ crd[r] \in {"created", "established"}
          /\ step' = step + 1 /\ stage' = "ensure" /\ UNCHANGED result
    /\ UNCHANGED <<crd, deployment, config, network, up, cq, nq, ndirty, waiting, nw, edits, crashes>>

\* wait.PollImmediate on the CRD: a Get error (it was never created) ends
\* deploy; Established goes on after RefreshAPIResources, which may fail;
\* a CRD not established within a minute ends deploy.
DeployPoll ==
    /\ result = "running" /\ stage = "poll"
    /\ LET r == Plan[step] IN
       \/ /\ crd[r] = "none"
          /\ result' = "err" /\ UNCHANGED <<step, stage>>
       \/ /\ isCRDEstablished(r)
          /\ \/ step' = step + 1 /\ stage' = "ensure" /\ UNCHANGED result
             \/ result' = "err" /\ UNCHANGED <<step, stage>>
       \/ /\ crd[r] = "created"
          /\ result' = "err" /\ UNCHANGED <<step, stage>>
    /\ UNCHANGED <<crd, deployment, config, network, up, cq, nq, ndirty, waiting, nw, edits, crashes>>

\* CreateOrUpdate returns nil after the last object; deploy returns.
DeployReturns ==
    /\ result = "running" /\ step = Len(Plan) + 1
    /\ result' = "ok"
    /\ UNCHANGED <<crd, deployment, config, network, step, stage, up,
                   cq, nq, ndirty, waiting, nw, edits, crashes>>

-----------------------------------------------------------------------------
(* The API server, Kubernetes and users. *)

Establish(r) ==
    /\ crd[r] = "created"
    /\ crd' = [crd EXCEPT ![r] = "established"]
    /\ UNCHANGED <<deployment, config, network, step, stage, result, up,
                   cq, nq, ndirty, waiting, nw, edits, crashes>>

\* operator(): the manager starts both controllers; their informers list
\* every existing object and queue its key.
OperatorStart ==
    /\ ~up /\ deployment
    /\ up' = TRUE
    /\ cq' = {n \in ConfigNames : config[n].exists}
    /\ nq' = IF network.exists THEN {NetworkKey} ELSE {}
    /\ UNCHANGED <<crd, deployment, config, network, step, stage, result,
                   ndirty, waiting, nw, edits, crashes>>

\* The pod dies: queues, delays and the reconcile in flight are gone.
OperatorCrash ==
    /\ up /\ crashes < MaxCrashes
    /\ crashes' = crashes + 1
    /\ up' = FALSE
    /\ cq' = {} /\ nq' = {} /\ ndirty' = FALSE /\ nw' = "idle"
    /\ waiting' = [c \in {"config", "network"} |-> {}]
    /\ UNCHANGED <<crd, deployment, config, network, step, stage, result, edits>>

\* A user sets the URL list of the Network spec (as the e2e test does).
EditUrls(U) ==
    /\ network.exists /\ edits < MaxSpecEdits /\ U # network.urls
    /\ edits' = edits + 1
    /\ network' = [network EXCEPT !.urls = U]
    /\ NetworkWatch
    /\ UNCHANGED <<crd, deployment, config, step, stage, result, up, cq, waiting, nw, crashes>>

\* A requeue delay (RequeueAfter or the rate limiter) ends.
RequeueConfig(n) ==
    /\ up /\ n \in waiting["config"]
    /\ waiting' = [waiting EXCEPT !["config"] = @ \ {n}]
    /\ cq' = cq \cup {n}
    /\ UNCHANGED <<crd, deployment, config, network, step, stage, result, up,
                   nq, ndirty, nw, edits, crashes>>

RequeueNetwork ==
    /\ up /\ NetworkKey \in waiting["network"]
    /\ waiting' = [waiting EXCEPT !["network"] = @ \ {NetworkKey}]
    /\ NetworkWatch
    /\ UNCHANGED <<crd, deployment, config, network, step, stage, result, up,
                   cq, nw, edits, crashes>>

-----------------------------------------------------------------------------
(* The Config controller *)

configSetConditionOfHub(n) == IF config["hub"].exists THEN "hub" ELSE "none"

\* setCondition: RetryOnConflict of Get, SetCondition, setStaticStatus
\* (which always reports a change) and UpdateStatus. The object it Gets is
\* SingletonClusterConfigObjectName, whatever Config is reconciled; a
\* conflict is retried on a fresh Get. Defined as the object it writes,
\* or "none" when the Get fails.
configSetCondition(n) == IF config["cluster"].exists THEN "cluster" ELSE "none"

\* Reconcile of a Config key (only the two singleton names are handled):
\* Get it, setCondition Healthy; an error is requeued by the rate limiter,
\* success with RequeueAfter a minute. The status write is itself an event.
ConfigReconcile(n) ==
    /\ up /\ n \in cq
    /\ LET w == configSetCondition(n) IN
       /\ config[n].exists
       /\ config' = IF w = "none" THEN config ELSE [config EXCEPT ![w].healthy = TRUE]
       /\ cq' = (cq \ {n}) \cup (IF w = "none" THEN {} ELSE {w})
       /\ waiting' = [waiting EXCEPT !["config"] = @ \cup {n}]
    /\ UNCHANGED <<crd, deployment, network, step, stage, result, up, nq, ndirty, nw, edits, crashes>>

-----------------------------------------------------------------------------
(* The Network controller *)

\* Reconcile: Get the Network, check every URL of its spec and pick the
\* InternetReachable status from the failures.
NetworkGet ==
    /\ up /\ nw = "idle" /\ NetworkKey \in nq
    /\ nq' = nq \ {NetworkKey}
    /\ nw' = ReachCond(network.urls)
    /\ UNCHANGED <<crd, deployment, config, network, step, stage, result, up,
                   cq, ndirty, waiting, edits, crashes>>

\* setCondition on a fresh Get (conflicts retried), always an UpdateStatus;
\* reconcile returns RequeueAfter a minute, and Done queues the key again
\* if it was added meanwhile: by this very status write, at least.
NetworkSetCondition ==
    /\ up /\ nw # "idle"
    /\ network' = [network EXCEPT !.cond = nw]
    /\ nq' = nq \cup {NetworkKey}
    /\ ndirty' = FALSE
    /\ nw' = "idle"
    /\ waiting' = [waiting EXCEPT !["network"] = @ \cup {NetworkKey}]
    /\ UNCHANGED <<crd, deployment, config, step, stage, result, up, cq, edits, crashes>>

-----------------------------------------------------------------------------
Next ==
    \/ DeployEnsure \/ DeployPoll \/ DeployReturns
    \/ \E r \in CRDs : Establish(r)
    \/ OperatorStart \/ OperatorCrash
    \/ \E U \in SUBSET Urls : EditUrls(U)
    \/ \E n \in ConfigNames : RequeueConfig(n) \/ ConfigReconcile(n)
    \/ RequeueNetwork \/ NetworkGet \/ NetworkSetCondition

Spec == Init /\ [][Next]_vars

\* deploy runs to its end; the API server establishes a created CRD (the
\* poll allows it a minute, so it may also time out); Kubernetes starts the
\* pod of an existing Deployment; requeue delays end; a controller's one
\* worker keeps taking keys. Users and crashes owe nothing.
FairSpec ==
    /\ Spec
    /\ WF_vars(DeployEnsure) /\ WF_vars(DeployPoll) /\ WF_vars(DeployReturns)
    /\ \A r \in CRDs : WF_vars(Establish(r))
    /\ WF_vars(OperatorStart)
    /\ \A n \in ConfigNames : WF_vars(RequeueConfig(n)) /\ WF_vars(ConfigReconcile(n))
    /\ WF_vars(RequeueNetwork) /\ WF_vars(NetworkGet) /\ WF_vars(NetworkSetCondition)

-----------------------------------------------------------------------------
(* Properties *)

TypeOK ==
    /\ crd \in [CRDs -> {"none", "created", "established"}]
    /\ deployment \in BOOLEAN
    /\ config \in [ConfigNames -> [exists: BOOLEAN, healthy: BOOLEAN]]
    /\ network \in [exists: BOOLEAN, urls: SUBSET Urls, cond: Cond]
    /\ step \in 1..Len(Plan) + 1 /\ stage \in {"ensure", "poll"}
    /\ result \in {"running", "ok", "err"}
    /\ up \in BOOLEAN /\ cq \subseteq ConfigNames /\ nq \subseteq {NetworkKey}
    /\ nw \in {"idle", "True", "False"}
    /\ waiting \in [{"config", "network"} -> SUBSET (ConfigNames \cup {NetworkKey})]

\* The reference: InternetReachable is true exactly when every URL answers.
AllAnswer(U) == IF U \subseteq Reachable THEN "True" ELSE "False"

\* The e2e test's expectation of the Network controller: once the operator
\* is deployed, whatever URL list the spec is left with, InternetReachable
\* comes to say whether all of them answer. The reconcile reads the spec
\* before its slow checks and writes after them, and a crash loses the
\* queue; neither may leave a stale condition for good.
NetworkConditionTracksSpec ==
    \A U \in SUBSET Urls :
        (deployment /\ network.exists /\ network.urls = U)
            ~> (network.urls # U \/ network.cond = AllAnswer(U))

\* What deploy's (disabled) readiness wait polls for: once the operator
\* Deployment and the Config of the deployment type exist, IsReady of that
\* Config eventually holds: the pod runs and the Config is Healthy.
DeployedConfigReady ==
    (deployment /\ config[ConfigName].exists) ~> IsReady(ConfigName)

\* What the poll of CreateOrUpdate guarantees: when faros deploy reports
\* success, every CRD it created is Established. A failed Ensure of a
\* CRD and a CRD not established within the poll's minute each end deploy
\* with an error, whatever the interleaving with the API server. (A failed
\* RefreshAPIResources also ends it with an error, but only after the CRD
\* is Established, so this property does not tell that case apart.)
DeployOkEstablished ==
    result = "ok" => \A r \in CRDs : isCRDEstablished(r)

====
