\* A restore while the worker holds a job: the sequence numbers start over.
SPECIFICATION FairSpec
CONSTANTS
    m1 = m1
    m2 = m2
    NoJob = NoJob
    Memories = {m1, m2}
    Backups  <- MCBackups
    Modes = {FALSE}
    MaxRev = 2
    MaxConf = 1
    MaxCommits = 3
    MaxGen = 2
    MaxFaults = 1
    MaxEmbedFails = 0
INVARIANTS LagTellsTruth
CHECK_DEADLOCK FALSE
