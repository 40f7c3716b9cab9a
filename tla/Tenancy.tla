------------------------------ MODULE Tenancy ------------------------------
(***************************************************************************)
(* Organizations and workspaces: the REST handlers of pkg/service that    *)
(* create and delete them in the store, and the organizations controller  *)
(* (pkg/controllers/tenancy/organizations) that backs each Organization   *)
(* with a kcp Workspace of the same name, guarded by a finalizer.         *)
(*                                                                         *)
(* A REST request is one of a few concurrent handler runs (Req); each     *)
(* handler is split at its store writes, and the reads before a write are *)
(* taken together with the check they feed. Faros Workspaces are stored   *)
(* under GetWorkspaceName(organization, workspace), taken here as the     *)
(* pair of names. The reconcile chain's changes to the Organization are   *)
(* persisted when reconcile returns, and the key is requeued when a       *)
(* reconciler asks for it or fails; Organization writes by the REST       *)
(* handlers enqueue the key.                                              *)
(***************************************************************************)
EXTENDS Naturals

CONSTANTS Users,      \* authenticated users
          OrgNames,   \* organization names
          WsNames,    \* workspace names inside an organization
          Compute,    \* "compute", the workspace createOrganization adds
          Req,        \* concurrent REST requests
          MaxGen,     \* bound on Organization creations in a behaviour
          NoOrg, NoWs, NoReq

ASSUME Compute \in WsNames

VARIABLES org,    \* Organization objects by name
          ws,     \* faros Workspace objects by (organization, workspace) name
          kcp,    \* the kcp Workspace of each organization: none, active, deleting
          queue,  \* organization keys in the controller's work queue
          req,    \* the state of each REST request
          gens    \* createOrganization requests past their check so far

vars == <<org, ws, kcp, queue, req, gens>>

OrgRec == [owner: Users, finalizer: BOOLEAN, deleting: BOOLEAN, ready: BOOLEAN]
\* owner: who created the workspace, a history field (OrganizationRef
\* names the organization only) used to state who may delete it.
WsRec == [owner: Users]
Idle == [pc |-> "idle", user |-> NoReq, o |-> NoReq, w |-> NoReq]
ReqRec == [pc: {"co_create", "co_compute", "do_delete", "cw_create", "dw_delete"},
           user: Users, o: OrgNames, w: WsNames \cup {NoReq}]

Exists(o) == org[o] # NoOrg
IsOwner(o, u) == Exists(o) /\ org[o].owner = u

Init ==
    /\ org = [o \in OrgNames |-> NoOrg]
    /\ ws = [o \in OrgNames |-> [w \in WsNames |-> NoWs]]
    /\ kcp = [o \in OrgNames |-> "none"]
    /\ queue = {}
    /\ req = [r \in Req |-> Idle]
    /\ gens = 0

Done(r) == req' = [req EXCEPT ![r] = Idle]

-----------------------------------------------------------------------------
(* REST handlers, routes_organizations.go and routes_workspaces.go.        *)
(* A failed check answers 400/403/404/409/500 and changes nothing: only    *)
(* the runs that reach a write are steps here.                             *)

\* createOrganization: GetOrganization finds no such name (else 409).
createOrganization(r, u, o) ==
    /\ req[r] = Idle
    /\ ~Exists(o)
    /\ gens < MaxGen
    /\ gens' = gens + 1
    /\ req' = [req EXCEPT ![r] = [pc |-> "co_create", user |-> u, o |-> o, w |-> NoReq]]
    /\ UNCHANGED <<org, ws, kcp, queue>>

\* CreateOrganization with the user as the only owner; AlreadyExists (a
\* concurrent create won) answers 500. Then the response is written.
createOrganizationWrite(r) ==
    /\ req[r].pc = "co_create"
    /\ LET o == req[r].o IN
       \/ /\ Exists(o)
          /\ Done(r)
          /\ UNCHANGED <<org, queue>>
       \/ /\ ~Exists(o)
          /\ org' = [org EXCEPT ![o] = [owner |-> req[r].user, finalizer |-> FALSE,
                                        deleting |-> FALSE, ready |-> FALSE]]
          /\ queue' = queue \cup {o}
          /\ req' = [req EXCEPT ![r].pc = "co_compute"]
    /\ UNCHANGED <<ws, kcp, gens>>

\* After the response: CreateWorkspace "compute", best effort; an error
\* (the name is taken) is only logged.
createComputeWorkspace(r) ==
    /\ req[r].pc = "co_compute"
    /\ LET o == req[r].o IN
       ws' = IF ws[o][Compute] = NoWs
               THEN [ws EXCEPT ![o][Compute] = [owner |-> req[r].user]]
               ELSE ws
    /\ Done(r)
    /\ UNCHANGED <<org, kcp, queue, gens>>

\* deleteOrganization: GetOrganization and IsOwner (else 500/403).
deleteOrganization(r, u, o) ==
    /\ req[r] = Idle
    /\ IsOwner(o, u)
    /\ req' = [req EXCEPT ![r] = [pc |-> "do_delete", user |-> u, o |-> o, w |-> NoReq]]
    /\ UNCHANGED <<org, ws, kcp, queue, gens>>

\* DeleteOrganization by name: with the finalizer on, the API server only
\* sets the deletion timestamp; without it the object is gone. NotFound
\* answers 500. The organization's Workspaces are left alone.
deleteOrganizationWrite(r) ==
    /\ req[r].pc = "do_delete"
    /\ LET o == req[r].o IN
       \/ /\ Exists(o)
          /\ org' = [org EXCEPT ![o] = IF @.finalizer THEN [@ EXCEPT !.deleting = TRUE]
                                                      ELSE NoOrg]
          /\ queue' = queue \cup {o}
       \/ /\ ~Exists(o)
          /\ UNCHANGED <<org, queue>>
    /\ Done(r)
    /\ UNCHANGED <<ws, kcp, gens>>

\* createWorkspace: GetOrganization and IsOwner (else 500/403), then
\* GetWorkspace of the name finds nothing (else 409).
createWorkspace(r, u, o, w) ==
    /\ req[r] = Idle
    /\ IsOwner(o, u)
    /\ ws[o][w] = NoWs
    /\ req' = [req EXCEPT ![r] = [pc |-> "cw_create", user |-> u, o |-> o, w |-> w]]
    /\ UNCHANGED <<org, ws, kcp, queue, gens>>

\* CreateWorkspace; AlreadyExists answers 500.
createWorkspaceWrite(r) ==
    /\ req[r].pc = "cw_create"
    /\ LET o == req[r].o
           w == req[r].w IN
       ws' = IF ws[o][w] = NoWs THEN [ws EXCEPT ![o][w] = [owner |-> req[r].user]] ELSE ws
    /\ Done(r)
    /\ UNCHANGED <<org, kcp, queue, gens>>

\* deleteWorkspace: GetOrganization and IsOwner (else 500/403), then
\* GetWorkspace of the name (else 500).
deleteWorkspace(r, u, o, w) ==
    /\ req[r] = Idle
    /\ IsOwner(o, u)
    /\ ws[o][w] # NoWs
    /\ req' = [req EXCEPT ![r] = [pc |-> "dw_delete", user |-> u, o |-> o, w |-> w]]
    /\ UNCHANGED <<org, ws, kcp, queue, gens>>

\* DeleteWorkspace by name; NotFound answers 500.
deleteWorkspaceWrite(r) ==
    /\ req[r].pc = "dw_delete"
    /\ ws' = [ws EXCEPT ![req[r].o][req[r].w] = NoWs]
    /\ Done(r)
    /\ UNCHANGED <<org, kcp, queue, gens>>

-----------------------------------------------------------------------------
(* The organizations controller: one reconcile of a queued key.            *)
(* Create chain: finalizerAdd (adds the finalizer and stops with a         *)
(* requeue), then kcpWorkspace (createOrganizationWorkspace: Get the kcp   *)
(* Workspace, Create it on NotFound; an existing one, even one being       *)
(* deleted, is taken as is; then mark Ready). Delete chain:                *)
(* kcpWorkspaceDelete (deleteWorkspaces: Get the kcp Workspace, an error   *)
(* stops with a requeue; then deleteOrganizationWorkspace), then           *)
(* finalizerRemove, after which the API server removes the Organization.  *)

\* organizations_reconciler_finalizer.go reconcile: add the finalizer and
\* StopAndRequeue, so the key stays queued.
finalizerAddNoRequeue(o) ==
    /\ ~org[o].finalizer
    /\ org' = [org EXCEPT ![o].finalizer = TRUE]
    /\ queue' = queue \ {o}
    /\ UNCHANGED kcp

finalizerAdd(o) ==
    /\ ~org[o].finalizer
    /\ org' = [org EXCEPT ![o].finalizer = TRUE]
    /\ UNCHANGED <<queue, kcp>>

\* With the finalizer on: createOrganizationWorkspace creates the kcp
\* Workspace on NotFound and takes an existing one (even one being
\* deleted) as is; the condition Ready is marked true; Continue.
kcpWorkspace(o) ==
    /\ org[o].finalizer
    /\ kcp' = [kcp EXCEPT ![o] = IF @ = "none" THEN "active" ELSE @]
    /\ org' = [org EXCEPT ![o].ready = TRUE]
    /\ queue' = queue \ {o}

deleteChainIgnoringError(o) ==
    /\ org' = [org EXCEPT ![o] = NoOrg]
    /\ queue' = queue \ {o}
    /\ UNCHANGED kcp

\* kcpWorkspaceDelete: deleteWorkspaces Gets the kcp Workspace, and an
\* error (NotFound included) ends the chain with StopAndRequeue and no
\* change; else deleteOrganizationWorkspace deletes it. Then
\* finalizerRemove, and the API server removes the Organization.
deleteChain(o) ==
    /\ kcp[o] # "none"
    /\ kcp' = [kcp EXCEPT ![o] = "deleting"]
    /\ org' = [org EXCEPT ![o] = NoOrg]
    /\ queue' = queue \ {o}

\* One reconcile of a queued key; lister NotFound drops it. The chain is
\* picked by the deletion timestamp.
ReconcileOrg(o) ==
    /\ o \in queue
    /\ \/ /\ ~Exists(o)
          /\ queue' = queue \ {o}
          /\ UNCHANGED <<org, kcp>>
       \/ Exists(o) /\ ~org[o].deleting /\ (finalizerAdd(o) \/ kcpWorkspace(o))
       \/ Exists(o) /\ org[o].deleting /\ deleteChain(o)
    /\ UNCHANGED <<ws, req, gens>>

\* kcp finishes deleting a Workspace.
KcpWorkspaceGone(o) ==
    /\ kcp[o] = "deleting"
    /\ kcp' = [kcp EXCEPT ![o] = "none"]
    /\ UNCHANGED <<org, ws, queue, req, gens>>

-----------------------------------------------------------------------------
Next ==
    \/ \E r \in Req, u \in Users, o \in OrgNames :
          \/ createOrganization(r, u, o)
          \/ deleteOrganization(r, u, o)
          \/ \E w \in WsNames : createWorkspace(r, u, o, w) \/ deleteWorkspace(r, u, o, w)
    \/ \E r \in Req :
          \/ createOrganizationWrite(r) \/ createComputeWorkspace(r)
          \/ deleteOrganizationWrite(r) \/ createWorkspaceWrite(r) \/ deleteWorkspaceWrite(r)
    \/ \E o \in OrgNames : ReconcileOrg(o) \/ KcpWorkspaceGone(o)

Spec == Init /\ [][Next]_vars

\* Controller workers take every queued key (two threads, rate-limited
\* requeues); kcp completes a Workspace deletion. Users owe nothing, and a
\* request in flight finishes: the handler runs to its end.
FairSpec ==
    /\ Spec
    /\ \A o \in OrgNames : WF_vars(ReconcileOrg(o)) /\ WF_vars(KcpWorkspaceGone(o))
    /\ \A r \in Req : WF_vars(createOrganizationWrite(r) \/ createComputeWorkspace(r)
                              \/ deleteOrganizationWrite(r) \/ createWorkspaceWrite(r)
                              \/ deleteWorkspaceWrite(r))

-----------------------------------------------------------------------------
(* Properties *)

TypeOK ==
    /\ org \in [OrgNames -> OrgRec \cup {NoOrg}]
    /\ ws \in [OrgNames -> [WsNames -> WsRec \cup {NoWs}]]
    /\ kcp \in [OrgNames -> {"none", "active", "deleting"}]
    /\ queue \subseteq OrgNames
    /\ req \in [Req -> ReqRec \cup {Idle}]
    /\ gens \in 0..MaxGen

\* The finalizer guards the kcp Workspace: while an organization's kcp
\* Workspace is active, its Organization exists and carries the finalizer,
\* so the Organization cannot vanish and leave the Workspace behind.
KcpWorkspaceGuarded ==
    \A o \in OrgNames : kcp[o] = "active" => Exists(o) /\ org[o].finalizer

\* An Organization that is not being deleted becomes Ready: finalizerAdd's
\* StopAndRequeue brings the key back for kcpWorkspace.
OrgBecomesReady ==
    \A o \in OrgNames :
        (Exists(o) /\ ~org[o].deleting) ~> (~Exists(o) \/ org[o].deleting \/ org[o].ready)

\* A deleted Organization goes away: the delete chain deletes the kcp
\* Workspace and removes the finalizer.
DeletionCompletes ==
    \A o \in OrgNames : (Exists(o) /\ org[o].deleting) ~> ~Exists(o)

\* A Ready Organization that is not being deleted is backed by an active
\* kcp Workspace (kcpWorkspace marks Ready only after the Workspace is
\* there).
ReadyBackedByWorkspace ==
    \A o \in OrgNames :
        (Exists(o) /\ ~org[o].deleting /\ org[o].ready) => kcp[o] = "active"

=============================================================================
