\* Two users, one organization name, "compute" and one other workspace
\* name, two concurrent requests, two Organization creations (so a name
\* is deleted and created again).
CONSTANTS
    Users = {u1, u2}
    OrgNames = {o1}
    Compute = compute
    WsNames = {compute, w1}
    Req = {r1, r2}
    MaxGen = 2
    NoOrg = NoOrg
    NoWs = NoWs
    NoReq = NoReq
SPECIFICATION Spec
INVARIANT ReadyBackedByWorkspace
\* Once both creations are used and the organization is gone, no request
\* can change anything: the service waits for requests, which is not a
\* fault of the code.
CHECK_DEADLOCK FALSE
