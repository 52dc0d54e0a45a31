\* An embedding failure while the memory is updated.
SPECIFICATION FairSpec
CONSTANTS
    m1 = m1
    m2 = m2
    NoJob = NoJob
    Memories = {m1, m2}
    Backups = {}
    Modes = {FALSE}
    MaxRev = 2
    MaxConf = 1
    MaxCommits = 3
    MaxGen = 1
    MaxFaults = 1
    MaxEmbedFails = 1
INVARIANTS PendingJobIsCurrent
CHECK_DEADLOCK FALSE
