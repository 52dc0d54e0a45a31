\* One of the daemon's parts at a time, scheduled fairly.
SPECIFICATION DaemonSpec
CONSTANTS
    k1 = k1
    k2 = k2
    NoCall = NoCall
    Calls = {k1}
    Guides = {}
    MaxGen = 2
    MaxEpoch = 3
    MaxFaults = 2
    MaxRefusals = 1
    MaxActivations = 1
    MaxRestores = 1
    f1 = f1
    f2 = f2
    Frontends = {f1, f2}
    Elder = Elder
    Nobody = Nobody
    MaxLifeFaults = 1
    Connections = {1, 2, 3}
    Identities <- MCIdentities
    MaxClients = 2
    MaxQueued = 1
    MaxStorage = 1
    N = 3
    Failing = {1}
    Cap = 2
    MaxWrites = 5
    MaxAborts = 1
INVARIANTS SuccessIsDurable ServingIsReachable FailsOnlyWhenDisturbed LimitsBind
PROPERTIES OnceOnlySpec NoIdleExitUnderClient EveryoneIsAnswered QueuedWorkEnds
CHECK_DEADLOCK FALSE
