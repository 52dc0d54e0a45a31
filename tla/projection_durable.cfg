\* Commands, kills, failed table calls, power failures after a barrier; restarts
\* with and without an embedder.
SPECIFICATION FairDurableSpec
CONSTANTS
    m1 = m1
    m2 = m2
    NoJob = NoJob
    Memories = {m1, m2}
    Backups = {}
    Modes = {TRUE, FALSE}
    MaxRev = 2
    MaxConf = 1
    MaxCommits = 3
    MaxGen = 1
    MaxFaults = 1
    MaxEmbedFails = 0
    LoseCommands = FALSE
INVARIANTS NothingIsLost PendingJobIsCurrent
PROPERTY CatchesUp
CHECK_DEADLOCK FALSE
