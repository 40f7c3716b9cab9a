\* `faros deploy operator`, any Ensure failing or not, CRDs established
\* or timing out; two operator crashes; three edits of the Network URL
\* list over two reachable URLs and an unreachable one. Deploy can fail before the
\* Deployment exists, and then nothing runs: the system really stops.
CONSTANTS
    Deployment = "operator"
    Urls <- MCUrls
    Reachable <- MCReachable
    InitialUrls <- MCInitialUrls
    MaxSpecEdits = 3
    MaxCrashes = 2
SPECIFICATION FairSpec
INVARIANT DeployOkEstablished
PROPERTY NetworkConditionTracksSpec
PROPERTY DeployedConfigReady
CHECK_DEADLOCK FALSE
