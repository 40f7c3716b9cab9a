---------------------------- MODULE FleetMonitor ----------------------------
(***************************************************************************)
(* The hub's worker fleet: the Worker and Cluster records in the API       *)
(* server, the per-process self-registration and heartbeat loop            *)
(* (pkg/operator/controllers/workers), and the master's monitor loop       *)
(* (pkg/monitor/worker.go): checkIdleWorkers, then balance =               *)
(* balanceWorkers (prune) followed by balanceClusters (assign orphans).    *)
(*                                                                         *)
(* Every store call of the code is one step, so a record read by one       *)
(* actor may be written by another before the read copy is written back.   *)
(* Optimistic concurrency (resourceVersion) is modelled by the set         *)
(* `current` of <<reader, record>> pairs whose copy is still the latest    *)
(* version: any write to a record removes every pair naming it, and a      *)
(* conditional UpdateStatus succeeds only if its pair is still there.      *)
(*                                                                         *)
(* Which processes run the monitor loop as master is chosen at the start  *)
(* (masters, one of MasterChoices) and fixed; the lease that decides it   *)
(* is modelled in its own module. A master registered its Worker before   *)
(* its loop started (hub.go), so masters start registered; every other   *)
(* process registers whenever it starts, in the middle of a cycle too.    *)
(***************************************************************************)
EXTENDS Naturals, FiniteSets

CONSTANTS
    Proc,        \* hub processes; a process registers the Worker named after it (POD_NAME)
    Clusters,    \* Cluster UIDs; a UID is created at most once
    MasterChoices, \* the sets of processes whose isMaster flag may be set
    MaxStarts,   \* bound on process (re)starts: every start consumes a Worker UID
    MaxReconciles, \* bound on the health reconciler's status writes
    NoWorker     \* model value: no Worker record under this name

ASSUME \A M \in MasterChoices : M \subseteq Proc /\ Cardinality(M) <= MaxStarts

VARIABLES
    worker,      \* worker[n]: the Worker record named n, or NoWorker
    cluster,     \* cluster[c]: the Cluster record with UID c
    nextUID,     \* the UID the API server gives the next created Worker
    ping,        \* ping[p]: where process p's heartbeat loop is
    pingFails,   \* consecutive failed heartbeats of p, saturating at MissesToStale
    pingCopy,    \* pingCopy[p]: Status.Clusters of the copy ping read (wCopy)
    current,     \* <<reader, record>> pairs whose read copy is still the latest version
    mpc,         \* mpc[m]: where master m's monitor loop is
    sweepTodo,   \* workers checkIdleWorkers listed as stale and has not deleted yet
    snapW,       \* snapW[m]: the Worker list of m's current balance cycle
    snapC,       \* snapC[m]: the Cluster list of m's current balance cycle
    ghosts,      \* <<worker, cluster>> pairs balanceWorkers still has to prune
    orphans,     \* staleClusters balanceClusters still has to place
    load,        \* load[m][n]: the in-memory workerRef count of n
    target,      \* target[m]: the worker Get copy and cluster of the placement in flight
    masters,     \* the processes whose isMaster flag is set (fixed)
    reconciles   \* status writes of the health reconciler so far

vars == <<worker, cluster, nextUID, ping, pingFails, pingCopy, current,
          mpc, sweepTodo, snapW, snapC, ghosts, orphans, load, target, masters, reconciles>>

-----------------------------------------------------------------------------
UID == 1..MaxStarts
NoUID == 0                         \* Status.WorkerUID == ""

\* LastHeartbeatTime: nil until the first ping, then fresh or older than the
\* 5 minute TTL of checkIdleWorkers.
Heartbeat == {"nil", "fresh", "stale"}

\* Pings are 2 minutes apart and the TTL is 5 minutes: once two pings in a row
\* have failed, the last successful one may be older than the TTL.
MissesToStale == 2

WorkerRec == [uid: UID, clusters: SUBSET Clusters, hb: Heartbeat]
ClusterRec == [state: {"none", "live", "gone"}, healthy: BOOLEAN,
               workerUID: UID \cup {NoUID}]
WorkerView == [uid: UID, clusters: SUBSET Clusters]
NoTarget == [name |-> NoWorker, cluster |-> NoWorker, uid |-> NoUID, clusters |-> {}]

\* Records and readers of the optimistic-concurrency bookkeeping.
W(n) == <<"worker", n>>
C(c) == <<"cluster", c>>
PingRead(p) == <<"ping", p>>
GetRead(m) == <<"get", m>>
ListRead(m) == <<"list", m>>

\* A write bumps the record's resourceVersion: every copy read before is stale.
AfterWrite(cur, r) == {x \in cur : x[2] # r}
\* Reader rd drops its old copies and now holds the latest version of rs.
AfterRead(cur, rd, rs) == {x \in cur : x[1] # rd} \cup {<<rd, r>> : r \in rs}

Exists(n) == worker[n] # NoWorker
Live(c) == cluster[c].state = "live"
Up(p) == ping[p] # "down"

\* isHealthy: the Healthy condition is true.
isHealthy(c) == cluster[c].healthy

-----------------------------------------------------------------------------
(* The process starts with a fresh store: every master has registered.    *)
\* The masters registered in some order and got UIDs 1..|masters|.
InitUIDs == {f \in [masters -> 1..Cardinality(masters)] :
                \A a, b \in masters : f[a] = f[b] => a = b}

Init ==
    /\ masters \in MasterChoices
    /\ \E f \in InitUIDs :
          worker = [n \in Proc |-> IF n \in masters
                                     THEN [uid |-> f[n], clusters |-> {}, hb |-> "nil"]
                                     ELSE NoWorker]
    /\ cluster = [c \in Clusters |-> [state |-> "none", healthy |-> FALSE, workerUID |-> NoUID]]
    /\ nextUID = Cardinality(masters) + 1
    /\ ping = [p \in Proc |-> IF p \in masters THEN "get" ELSE "down"]
    /\ pingFails = [p \in Proc |-> 0]
    /\ pingCopy = [p \in Proc |-> {}]
    /\ current = {}
    /\ mpc = [m \in masters |-> "tick"]
    /\ sweepTodo = [m \in masters |-> {}]
    /\ snapW = [m \in masters |-> [n \in Proc |-> NoWorker]]
    /\ snapC = [m \in masters |-> [c \in Clusters |-> cluster[c]]]
    /\ ghosts = [m \in masters |-> {}]
    /\ orphans = [m \in masters |-> {}]
    /\ load = [m \in masters |-> [n \in {} |-> 0]]
    /\ target = [m \in masters |-> NoTarget]
    /\ reconciles = 0

PingVars == <<pingCopy>>
MonitorVars == <<mpc, sweepTodo, snapW, snapC, ghosts, orphans, load, target>>

-----------------------------------------------------------------------------
(***************************************************************************)
(* Self-registration and heartbeat (workers_controller.go, hub.go).        *)
(***************************************************************************)

\* hub(): NewReconciler -> registerWorker creates the Worker named p and
\* starts ping. Create fails with AlreadyExists when a record of an earlier
\* run of the same POD_NAME is still there; hub() shadows that error, so the
\* process runs on with no heartbeat loop.
Register(p) ==
    /\ ping[p] = "down"
    /\ nextUID <= MaxStarts
    /\ nextUID' = nextUID + 1
    /\ \/ /\ ~Exists(p)
          /\ worker' = [worker EXCEPT ![p] = [uid |-> nextUID, clusters |-> {}, hb |-> "nil"]]
          /\ ping' = [ping EXCEPT ![p] = "get"]
          /\ current' = AfterWrite(current, W(p))
       \/ /\ Exists(p)
          /\ ping' = [ping EXCEPT ![p] = "noping"]
          /\ UNCHANGED <<worker, current>>
    /\ pingFails' = [pingFails EXCEPT ![p] = 0]
    /\ UNCHANGED <<cluster, pingCopy>>
    /\ UNCHANGED MonitorVars

MissedPingOffByOne(p) ==
    IF Exists(p) /\ worker[p].hb = "fresh"
      THEN IF pingFails[p] <= MissesToStale THEN pingFails[p] + 1 ELSE pingFails[p]
      ELSE 0

\* A failed heartbeat. Misses are counted only while the heartbeat is
\* fresh, the only time they are read; the next success resets them.
MissedPing(p) ==
    IF Exists(p) /\ worker[p].hb = "fresh"
      THEN IF pingFails[p] < MissesToStale THEN pingFails[p] + 1 ELSE pingFails[p]
      ELSE 0

\* ping, top of the loop: Get the own Worker and DeepCopy it. On NotFound
\* the client returns an empty object, whose UpdateStatus below then fails.
PingGet(p) ==
    /\ ping[p] = "get"
    /\ ping' = [ping EXCEPT ![p] = "update"]
    /\ current' = AfterRead(current, PingRead(p), IF Exists(p) THEN {W(p)} ELSE {})
    /\ pingCopy' = [pingCopy EXCEPT ![p] = IF Exists(p) THEN worker[p].clusters ELSE {}]
    /\ UNCHANGED <<worker, cluster, nextUID, pingFails>>
    /\ UNCHANGED MonitorVars

\* A heartbeat written with no resourceVersion precondition (an Update or
\* Patch of the whole status): the copy's Status.Clusters replace the record's.
PingUpdateUnconditional(p) ==
    /\ ping[p] = "update"
    /\ ping' = [ping EXCEPT ![p] = "get"]
    /\ pingCopy' = [pingCopy EXCEPT ![p] = {}]
    /\ \/ /\ Exists(p)
          /\ worker' = [worker EXCEPT ![p].hb = "fresh", ![p].clusters = pingCopy[p]]
          /\ current' = AfterRead(AfterWrite(current, W(p)), PingRead(p), {})
          /\ pingFails' = [pingFails EXCEPT ![p] = 0]
       \/ /\ ~Exists(p)
          /\ pingFails' = [pingFails EXCEPT ![p] = MissedPing(p)]
          /\ current' = AfterRead(current, PingRead(p), {})
          /\ UNCHANGED worker
    /\ UNCHANGED <<cluster, nextUID>>
    /\ UNCHANGED MonitorVars

\* ping: set LastHeartbeatTime = now on the copy and UpdateStatus it. A
\* conflict is retried with the same copy, so it fails every attempt; the
\* error is only logged and the loop waits for the next tick.
PingUpdate(p) ==
    /\ ping[p] = "update"
    /\ ping' = [ping EXCEPT ![p] = "get"]
    /\ pingCopy' = [pingCopy EXCEPT ![p] = {}]
    /\ \/ /\ <<PingRead(p), W(p)>> \in current
          /\ worker' = [worker EXCEPT ![p].hb = "fresh", ![p].clusters = pingCopy[p]]
          /\ current' = AfterWrite(current, W(p))
          /\ pingFails' = [pingFails EXCEPT ![p] = 0]
       \/ /\ <<PingRead(p), W(p)>> \notin current
          /\ pingFails' = [pingFails EXCEPT ![p] = MissedPing(p)]
          /\ current' = AfterRead(current, PingRead(p), {})
          /\ UNCHANGED worker
    /\ UNCHANGED <<cluster, nextUID>>
    /\ UNCHANGED MonitorVars

\* Five minutes pass without a successful heartbeat: the process is down,
\* runs without a ping loop, or its last pings failed. A nil
\* LastHeartbeatTime never ages: metav1.Time.Before is false on nil.
HeartbeatExpires(p) ==
    /\ Exists(p)
    /\ worker[p].hb = "fresh"
    /\ ping[p] \in {"down", "noping"} \/ pingFails[p] = MissesToStale
    /\ worker' = [worker EXCEPT ![p].hb = "stale"]
    /\ pingFails' = [pingFails EXCEPT ![p] = 0]
    /\ UNCHANGED <<cluster, nextUID, ping, pingCopy, current>>
    /\ UNCHANGED MonitorVars

\* The process dies; its Worker record stays behind.
Crash(p) ==
    /\ p \notin masters
    /\ Up(p)
    /\ ping' = [ping EXCEPT ![p] = "down"]
    /\ current' = AfterRead(current, PingRead(p), {})
    /\ pingCopy' = [pingCopy EXCEPT ![p] = {}]
    /\ UNCHANGED <<worker, cluster, nextUID, pingFails>>
    /\ UNCHANGED MonitorVars

\* Graceful shutdown: runWorker's goroutine deregisters (deletes) the Worker
\* once ctx is cancelled, then the process exits.
Shutdown(p) ==
    /\ p \notin masters
    /\ Up(p)
    /\ worker' = [worker EXCEPT ![p] = NoWorker]
    /\ ping' = [ping EXCEPT ![p] = "down"]
    /\ current' = AfterRead(AfterWrite(current, W(p)), PingRead(p), {})
    /\ pingCopy' = [pingCopy EXCEPT ![p] = {}]
    /\ UNCHANGED <<cluster, nextUID, pingFails>>
    /\ UNCHANGED MonitorVars

-----------------------------------------------------------------------------
(***************************************************************************)
(* Cluster records are created, deleted and health-checked by others.      *)
(***************************************************************************)

CreateCluster(c) ==
    /\ cluster[c].state = "none"
    /\ cluster' = [cluster EXCEPT ![c].state = "live"]
    /\ current' = AfterWrite(current, C(c))
    /\ UNCHANGED <<worker, nextUID, ping, pingFails, pingCopy>>
    /\ UNCHANGED MonitorVars

DeleteCluster(c) ==
    /\ Live(c)
    /\ cluster' = [cluster EXCEPT ![c].state = "gone"]
    /\ current' = AfterWrite(current, C(c))
    /\ UNCHANGED <<worker, nextUID, ping, pingFails, pingCopy>>
    /\ UNCHANGED MonitorVars

\* checkKubeConfigSecret: Get the kubeconfig Secret, parse it, and Get
\* kube-system through it. Its outcome (reachable or not) is the world's.
checkKubeConfigSecret == BOOLEAN

\* setCondition: in RetryOnConflict, Get the Cluster, set the condition;
\* setStaticStatus always reports a change, so UpdateStatus always runs.
\* A write that changes the condition bumps the resourceVersion. One that
\* rewrites the same value bumps it only if Conditions.SetCondition (in
\* pkg/util/status, not in this tree) changes a timestamp; the API server
\* skips a write that changes nothing. So either may happen.
\* The re-read keeps the rest of the status.
setCondition(c, h) ==
    /\ cluster' = [cluster EXCEPT ![c].healthy = h]
    /\ \/ current' = AfterWrite(current, C(c))
       \/ /\ h = cluster[c].healthy
          /\ current' = current

\* Cluster.reconcileConfig: Healthy false when the check fails, true else.
ReconcileCluster(c) ==
    /\ Live(c)
    /\ reconciles < MaxReconciles
    /\ reconciles' = reconciles + 1
    /\ \E h \in checkKubeConfigSecret : setCondition(c, h)
    /\ UNCHANGED <<worker, nextUID, ping, pingFails, pingCopy>>
    /\ UNCHANGED MonitorVars

-----------------------------------------------------------------------------
(***************************************************************************)
(* The master's monitor loop, runWorker: on every 30s tick, while          *)
(* isMaster, checkIdleWorkers then balance. Errors end the step's function *)
(* and are logged; the loop goes on at the next tick. A panic is recovered *)
(* by runWorker's deferred recover.Panic, which returns: the loop is over. *)
(* The lists and copies of a cycle are dropped as soon as the code no      *)
(* longer reads them.                                                      *)
(***************************************************************************)

NoSnapW == [n \in Proc |-> NoWorker]
NoLoad == [n \in {} |-> 0]
NoSnapC == [c \in Clusters |-> [state |-> "none", healthy |-> FALSE, workerUID |-> NoUID]]

\* The cycle ends (done, or an error returned): wait for the next tick.
\* m's lists and copies are garbage from here on.
EndCycle(m, pc) ==
    /\ mpc' = [mpc EXCEPT ![m] = pc]
    /\ sweepTodo' = [sweepTodo EXCEPT ![m] = {}]
    /\ snapW' = [snapW EXCEPT ![m] = NoSnapW]
    /\ snapC' = [snapC EXCEPT ![m] = NoSnapC]
    /\ ghosts' = [ghosts EXCEPT ![m] = {}]
    /\ orphans' = [orphans EXCEPT ![m] = {}]
    /\ load' = [load EXCEPT ![m] = NoLoad]
    /\ target' = [target EXCEPT ![m] = NoTarget]

DropReads(cur, m) == {x \in cur : x[1] \notin {GetRead(m), ListRead(m)}}

StaleWorkers == {n \in Proc : Exists(n) /\ worker[n].hb = "stale"}

\* checkIdleWorkers: List the Workers and keep those whose heartbeat is
\* older than the TTL.
SweepList(m) ==
    /\ mpc[m] = "tick"
    /\ mpc' = [mpc EXCEPT ![m] = "sweep"]
    /\ sweepTodo' = [sweepTodo EXCEPT ![m] = StaleWorkers]
    /\ UNCHANGED <<worker, cluster, nextUID, ping, pingFails, pingCopy, current>>
    /\ UNCHANGED <<snapW, snapC, ghosts, orphans, load, target>>

\* checkIdleWorkers: Delete a listed Worker by name, with no precondition
\* on its version. NotFound returns the error and skips the rest.
SweepDelete(m, n) ==
    /\ mpc[m] = "sweep"
    /\ n \in sweepTodo[m]
    /\ \/ /\ Exists(n)
          /\ worker' = [worker EXCEPT ![n] = NoWorker]
          /\ current' = AfterWrite(current, W(n))
          /\ sweepTodo' = [sweepTodo EXCEPT ![m] = @ \ {n}]
       \/ /\ ~Exists(n)
          /\ sweepTodo' = [sweepTodo EXCEPT ![m] = {}]
          /\ UNCHANGED <<worker, current>>
    /\ UNCHANGED <<cluster, nextUID, ping, pingFails, pingCopy, mpc>>
    /\ UNCHANGED <<snapW, snapC, ghosts, orphans, load, target>>

\* balance: List the Workers.
ListWorkers(m) ==
    /\ mpc[m] = "sweep"
    /\ sweepTodo[m] = {}
    /\ mpc' = [mpc EXCEPT ![m] = "listC"]
    /\ snapW' = [snapW EXCEPT ![m] =
                    [n \in Proc |-> IF Exists(n)
                                      THEN [uid |-> worker[n].uid, clusters |-> worker[n].clusters]
                                      ELSE NoWorker]]
    /\ UNCHANGED <<worker, cluster, nextUID, ping, pingFails, pingCopy, current>>
    /\ UNCHANGED <<sweepTodo, snapC, ghosts, orphans, load, target>>

\* balanceClusters, on the lists sw and sc taken at the start of balance
\* and with cur the read bookkeeping after the store call that led here.
\* It builds workerList (a count per listed worker) and staleClusters, and
\* places nothing when there is no stale cluster. With stale clusters and
\* an empty workerList, workerList[0] panics (index out of range); the
\* panic unwinds balance and is recovered in runWorker, which returns.
\* From here on only the counts and the stale clusters' list copies are read.
ListedNames(sw) == {n \in Proc : sw[n] # NoWorker}
ListedHealthy(sc) == {c \in Clusters : sc[c].state = "live" /\ sc[c].healthy}
\* A healthy cluster counts toward n's workerRef when its WorkerUID is n's UID.
CountedFor(sw, sc, n) == {c \in ListedHealthy(sc) : sc[c].workerUID = sw[n].uid}
\* staleClusters: healthy clusters whose WorkerUID is no listed worker's UID.
StaleClusters(sw, sc) == {c \in ListedHealthy(sc) :
                             \A n \in ListedNames(sw) : sc[c].workerUID # sw[n].uid}

balanceClusters(m, sw, sc, cur) ==
    LET stale == StaleClusters(sw, sc) IN
    \/ /\ stale = {}
       /\ EndCycle(m, "tick")
       /\ current' = DropReads(cur, m)
    \/ /\ stale # {}
       /\ ListedNames(sw) = {}
       /\ EndCycle(m, "dead")
       /\ current' = DropReads(cur, m)
    \/ /\ stale # {}
       /\ ListedNames(sw) # {}
       /\ mpc' = [mpc EXCEPT ![m] = "assign"]
       /\ orphans' = [orphans EXCEPT ![m] = stale]
       /\ load' = [load EXCEPT ![m] =
                      [n \in ListedNames(sw) |-> Cardinality(CountedFor(sw, sc, n))]]
       /\ snapW' = [snapW EXCEPT ![m] = NoSnapW]
       /\ snapC' = [snapC EXCEPT ![m] = NoSnapC]
       /\ ghosts' = [ghosts EXCEPT ![m] = {}]
       /\ current' = {x \in cur : x[1] # ListRead(m) \/ x[2] \in {C(c) : c \in stale}}
       /\ UNCHANGED <<sweepTodo, target>>

\* balance: List the Clusters. balanceWorkers then walks every listed
\* worker's Status.Clusters for UIDs missing from this list.
Ghosts(sw) == {nc \in Proc \X Clusters :
                  /\ sw[nc[1]] # NoWorker
                  /\ nc[2] \in sw[nc[1]].clusters
                  /\ ~Live(nc[2])}

ListClusters(m) ==
    /\ mpc[m] = "listC"
    /\ LET cur == AfterRead(current, ListRead(m), {C(c) : c \in {d \in Clusters : Live(d)}}) IN
       \/ /\ Ghosts(snapW[m]) # {}
          /\ mpc' = [mpc EXCEPT ![m] = "prune"]
          /\ snapC' = [snapC EXCEPT ![m] = cluster]
          /\ ghosts' = [ghosts EXCEPT ![m] = Ghosts(snapW[m])]
          /\ current' = cur
          /\ UNCHANGED <<sweepTodo, snapW, orphans, load, target>>
       \/ /\ Ghosts(snapW[m]) = {}
          /\ balanceClusters(m, snapW[m], cluster, cur)
    /\ UNCHANGED <<worker, cluster, nextUID, ping, pingFails, pingCopy>>

\* balanceWorkers: RetryOnConflict(Get the Worker by name, removeUID,
\* UpdateStatus): a conflict re-reads, so the step is one read-modify-write.
\* A failed Get returns the error and ends balance before balanceClusters.
removeUID(n, c) == [worker EXCEPT ![n].clusters = @ \ {c}]

Prune(m, n, c) ==
    /\ mpc[m] = "prune"
    /\ <<n, c>> \in ghosts[m]
    /\ \/ /\ Exists(n)
          /\ worker' = removeUID(n, c)
          /\ ghosts[m] # {<<n, c>>}
          /\ current' = AfterWrite(current, W(n))
          /\ ghosts' = [ghosts EXCEPT ![m] = @ \ {<<n, c>>}]
          /\ UNCHANGED <<mpc, sweepTodo, snapW, snapC, orphans, load, target>>
       \/ /\ Exists(n)
          /\ worker' = removeUID(n, c)
          /\ ghosts[m] = {<<n, c>>}
          /\ balanceClusters(m, snapW[m], snapC[m], AfterWrite(current, W(n)))
       \/ /\ ~Exists(n)
          /\ EndCycle(m, "tick")
          /\ current' = DropReads(current, m)
          /\ UNCHANGED worker
    /\ UNCHANGED <<cluster, nextUID, ping, pingFails, pingCopy>>

\* sort.Sort(workerList) and workerList[0]: a least-loaded listed worker;
\* sort.Sort is not stable, so any of the tied ones.
LeastLoaded(m) == {n \in DOMAIN load[m] : \A k \in DOMAIN load[m] : load[m][n] <= load[m][k]}

\* balanceClusters, per stale cluster: Get workerList[0] by name and append
\* the cluster's UID to the copy. A failed Get ends balance.
PickWorker(m, c, n) ==
    /\ mpc[m] = "assign"
    /\ c \in orphans[m]
    /\ n \in LeastLoaded(m)
    /\ \/ /\ Exists(n)
          /\ mpc' = [mpc EXCEPT ![m] = "updateW"]
          /\ target' = [target EXCEPT ![m] =
                           [name |-> n, cluster |-> c, uid |-> worker[n].uid,
                            clusters |-> worker[n].clusters \cup {c}]]
          /\ current' = AfterRead(current, GetRead(m), {W(n)})
          /\ UNCHANGED <<sweepTodo, snapW, snapC, ghosts, orphans, load>>
       \/ /\ ~Exists(n)
          /\ EndCycle(m, "tick")
          /\ current' = DropReads(current, m)
    /\ UNCHANGED <<worker, cluster, nextUID, ping, pingFails, pingCopy>>

\* RetryOnConflict, first call: UpdateStatus of the Worker copy. On a
\* conflict every retry sends the same copy again, so balance fails.
UpdateWorker(m) ==
    /\ mpc[m] = "updateW"
    /\ LET n == target[m].name IN
       \/ /\ <<GetRead(m), W(n)>> \in current
          /\ worker' = [worker EXCEPT ![n].clusters = target[m].clusters]
          /\ current' = AfterWrite(current, W(n))
          /\ mpc' = [mpc EXCEPT ![m] = "updateC"]
          /\ UNCHANGED <<sweepTodo, snapW, snapC, ghosts, orphans, load, target>>
       \/ /\ <<GetRead(m), W(n)>> \notin current
          /\ EndCycle(m, "tick")
          /\ current' = DropReads(current, m)
          /\ UNCHANGED worker
    /\ UNCHANGED <<cluster, nextUID, ping, pingFails, pingCopy>>

\* The Cluster written with no resourceVersion precondition (a Patch of
\* Status.WorkerUID): the placement no longer notices that the listed
\* cluster has changed since the List.
UpdateClusterUnconditional(m) ==
    /\ mpc[m] = "updateC"
    /\ LET c == target[m].cluster
           n == target[m].name IN
       \/ /\ Live(c)
          /\ cluster' = [cluster EXCEPT ![c].workerUID = target[m].uid]
          /\ orphans[m] # {c}
          /\ current' = AfterWrite(current, C(c))
          /\ load' = [load EXCEPT ![m][n] = @ + 1]
          /\ orphans' = [orphans EXCEPT ![m] = @ \ {c}]
          /\ mpc' = [mpc EXCEPT ![m] = "assign"]
          /\ target' = [target EXCEPT ![m] = NoTarget]
          /\ UNCHANGED <<sweepTodo, snapW, snapC, ghosts>>
       \/ /\ Live(c)
          /\ cluster' = [cluster EXCEPT ![c].workerUID = target[m].uid]
          /\ orphans[m] = {c}
          /\ EndCycle(m, "tick")
          /\ current' = DropReads(AfterWrite(current, C(c)), m)
       \/ /\ ~Live(c)
          /\ EndCycle(m, "tick")
          /\ current' = DropReads(current, m)
          /\ UNCHANGED cluster
    /\ UNCHANGED <<worker, nextUID, ping, pingFails, pingCopy>>

\* RetryOnConflict, then: set the listed Cluster's WorkerUID and UpdateStatus
\* it. On a conflict the retry re-sends the Worker copy, whose version the
\* first call already bumped, so every retry fails and balance returns the
\* error with the Worker's write in place. On success workerList[0].c++; after the last
\* stale cluster balance is done.
UpdateCluster(m) ==
    /\ mpc[m] = "updateC"
    /\ LET c == target[m].cluster
           n == target[m].name IN
       \/ /\ <<ListRead(m), C(c)>> \in current
          /\ cluster' = [cluster EXCEPT ![c].workerUID = target[m].uid]
          /\ orphans[m] # {c}
          /\ current' = AfterWrite(current, C(c))
          /\ load' = [load EXCEPT ![m][n] = @ + 1]
          /\ orphans' = [orphans EXCEPT ![m] = @ \ {c}]
          /\ mpc' = [mpc EXCEPT ![m] = "assign"]
          /\ target' = [target EXCEPT ![m] = NoTarget]
          /\ UNCHANGED <<sweepTodo, snapW, snapC, ghosts>>
       \/ /\ <<ListRead(m), C(c)>> \in current
          /\ cluster' = [cluster EXCEPT ![c].workerUID = target[m].uid]
          /\ orphans[m] = {c}
          /\ EndCycle(m, "tick")
          /\ current' = DropReads(AfterWrite(current, C(c)), m)
       \/ /\ <<ListRead(m), C(c)>> \notin current
          /\ EndCycle(m, "tick")
          /\ current' = DropReads(current, m)
          /\ UNCHANGED cluster
    /\ UNCHANGED <<worker, nextUID, ping, pingFails, pingCopy>>

-----------------------------------------------------------------------------
ProcessStep ==
    \E p \in Proc : \/ Register(p) \/ PingGet(p) \/ PingUpdate(p)
                    \/ HeartbeatExpires(p) \/ Crash(p) \/ Shutdown(p)

MonitorStep(m) ==
    \/ SweepList(m)
    \/ \E n \in Proc : SweepDelete(m, n)
    \/ ListWorkers(m)
    \/ ListClusters(m)
    \/ \E n \in Proc, c \in Clusters : Prune(m, n, c)
    \/ \E c \in Clusters, n \in Proc : PickWorker(m, c, n)
    \/ UpdateWorker(m)
    \/ UpdateCluster(m)

\* No step changes which processes are masters; only the health
\* reconciler's writes count against MaxReconciles.
Next ==
    /\ \/ ProcessStep /\ UNCHANGED reconciles
       \/ \E c \in Clusters : (CreateCluster(c) \/ DeleteCluster(c)) /\ UNCHANGED reconciles
       \/ \E c \in Clusters : ReconcileCluster(c)
       \/ \E m \in masters : MonitorStep(m) /\ UNCHANGED reconciles
    /\ UNCHANGED masters

Spec == Init /\ [][Next]_vars

-----------------------------------------------------------------------------
(* Properties *)

TypeOK ==
    /\ worker \in [Proc -> WorkerRec \cup {NoWorker}]
    /\ cluster \in [Clusters -> ClusterRec]
    /\ nextUID \in 1..MaxStarts + 1
    /\ reconciles \in 0..MaxReconciles
    /\ ping \in [Proc -> {"down", "noping", "get", "update"}]
    /\ pingFails \in [Proc -> 0..MissesToStale]
    /\ pingCopy \in [Proc -> SUBSET Clusters]
    /\ masters \in MasterChoices
    /\ mpc \in [masters -> {"tick", "sweep", "listC", "prune", "assign",
                            "updateW", "updateC", "dead"}]
    /\ sweepTodo \in [masters -> SUBSET Proc]
    /\ snapW \in [masters -> [Proc -> WorkerView \cup {NoWorker}]]
    /\ snapC \in [masters -> [Clusters -> ClusterRec]]
    /\ ghosts \in [masters -> SUBSET (Proc \X Clusters)]
    /\ orphans \in [masters -> SUBSET Clusters]
    /\ \A m \in masters : DOMAIN load[m] \subseteq Proc /\ \A n \in DOMAIN load[m] : load[m][n] \in 0..Cardinality(Clusters)

\* The cluster's back-reference and the worker's list agree: a live cluster
\* whose Status.WorkerUID is the UID of an existing Worker is in that
\* Worker's Status.Clusters. Heartbeats rewrite the whole Worker status
\* while balance appends to it, and balance writes the Worker before the
\* Cluster; a lost list entry leaves a cluster owned by nobody's list.
BackRefListed ==
    \A c \in Clusters, n \in Proc :
        (Live(c) /\ Exists(n) /\ cluster[c].workerUID = worker[n].uid)
            => c \in worker[n].clusters

\* P3: no cluster is in the Status.Clusters of two existing Workers.
NoDoubleAssignment ==
    \A c \in Clusters, n1, n2 \in Proc :
        (n1 # n2 /\ Exists(n1) /\ Exists(n2)) =>
            ~(c \in worker[n1].clusters /\ c \in worker[n2].clusters)

\* With one master, a cluster that is not an orphan at the time of the
\* write (unhealthy, or assigned to an existing Worker) never has its
\* WorkerUID changed: balanceClusters decides from the Worker and Cluster
\* lists of worker.go:150-186, which may be stale by the write at :186;
\* only the version check of that UpdateStatus stops a stale decision.
\* (With two masters it fails: a Worker that registers after one master's
\* Worker List is given the cluster by the other master, and the first
\* then lists the Clusters, finds the new UID unknown and takes it over.)
Orphan(c) ==
    /\ Live(c)
    /\ isHealthy(c)
    /\ \A n \in Proc : Exists(n) => worker[n].uid # cluster[c].workerUID

AssignOnlyOrphans ==
    [][\A c \in Clusters :
         cluster'[c].workerUID # cluster[c].workerUID => Orphan(c)]_vars

\* checkIdleWorkers evicts only dead workers: the Worker of a running
\* process is deleted only while its heartbeat is older than the TTL.
\* The TTL is checked on the List, the Delete is by name.
EvictOnlyStale ==
    [][\A n \in Proc :
         (Exists(n) /\ ~Exists(n)' /\ Up(n)') => worker[n].hb = "stale"]_vars

\* The monitor loop outlives every cycle: runWorker never returns while
\* the process runs (spec 4.4: no live worker is a valid state).
MonitorLoopAlive == \A m \in masters : mpc[m] # "dead"

=============================================================================
