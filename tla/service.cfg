\* One module of the service at a time.
SPECIFICATION ServiceSpec
CONSTANTS
    HostChannels = {"x", "y"}
    HostCalls <- SessionCalls
    Kind <- SessionKind
    Outcome <- SessionOutcome
    Program <- SessionProgram
    Failures = 1
    MaxSends = 2
    MaxHostFaults = 2
    MemoryIds = {"a", "b", "c"}
    Texts = {"t", "u", "v"}
    Full = 2
    Overlap <- TextsThatOverlap
    Calls <- MemoryCalls
    Op <- MemoryOp
    CallSets <- CallsTogether
    Channels = {x, y}
    Ttl = 0
    IdleTime = 1
    Lifetime = 2
    MaxClock = 1
    MaxWrites = 1
    MaxPreviews = 2
    MaxSessions = 1
    MaxCutFaults = 1
    ProjectIds = {"p", "q"}
    Roots = {"x", "y"}
    Slugs = {"shop", "old"}
    None = None
    ProjectCalls <- ClaimsMade
    Claim <- ProjectClaim
    Together <- ClaimsTogether
    Legacy = {"shop", "old"}
    MaxRestores = 1
    Builds <- AllBuilds
    MaxOpens = 4
    MaxCrashes = 2
    \* the first, the last one without evidence, and the current one
    Schemas = {1, 6, 8}
    FlawSets <- PairsOfFlaws
    Exports = {"e", "f"}
    Large = {"g"}
    MaxBackupFaults = 2
    Provisions = {"c", "d"}
    Starts = {"s"}
    MaxBad = 1
    MaxCacheKills = 1
    Processes <- FileProcesses
    ProcessKind <- FileKind
    Brings <- FileBrings
    ProcessesTogether <- FilesTogether
    Versions = {1, 2, 3}
    MaxTouches = 2
    MaxKills = 1
INVARIANT ServiceTypeOK
INVARIANT RecordedOnce
INVARIANT ChannelIsolation
INVARIANT GraphIsSound
INVARIANT RecordsAgree
INVARIANT TwinsOnlyWhenMissed
INVARIANT AgreesWithOracle
INVARIANT NoWriteLostUnseen
INVARIANT ReplacesWhatWasShown
INVARIANT NoContextSpansCut
INVARIANT OwnersAgree
INVARIANT TwoCallsAgree
INVARIANT ImportIsHonest
INVARIANT StoreIsMigrated
INVARIANT LoadsWhatItVerified
INVARIANT PublishedIsWhole
INVARIANT FilesKeepTheirOwner
PROPERTY TerminalIsFinal
SYMMETRY Symmetric
CHECK_DEADLOCK FALSE
