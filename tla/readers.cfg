\* A cutover, a restore under the worker, a request to recall, a text to cut, guides: one at a time.
SPECIFICATION ReadersSpec
CONSTANTS
    m1 = m1
    m2 = m2
    Nothing = Nothing
    NoJob = NoJob
    Mems = {m1, m2}
    Memories = {m1, m2}
    Backups <- TwoBackups
    Modes = {FALSE}
    MaxConf = 1
    MaxCommits = 2
    MaxFaults = 1
    MaxEmbedFails = 1
    MaxGens = 3
    MaxRevs = 2
    Confidences = {1, 2}
    MaxGen = 2
    MaxRev = 2
    MaxWrites = 2
    MaxRestores = 1
    GuideNames = {"go", "golang", "rust"}
    GuideMemories = {"m"}
    GuideCalls <- EachGuideCall
    GuideOp <- GuidesAsked
    Alike <- OneInAnother
    GuideSends <- UpdateTwice
    Ids = {1, 2, 3}
    Stores <- StoresToRecall
    Tools = {"search", "query", "browse", "tfidf", "id", "ids"}
    Limit = 2
    MaxChanges = 2
    MemoryIds = {1, 2, 3}
    Statements = {"use", "avoid", "other"}
    Clash <- UseOrAvoid
    AtStart <- UseBefore
    MaxEdits = 2
    MaxReplacements = 1
    MaxFailures = 1
INVARIANT OneActiveOnePipeline
INVARIANT ActiveIsServed
INVARIANT NoPhantomRow
INVARIANT ServesWhatWasEligible
INVARIANT BundlesHold
INVARIANT CompleteUnlessOvertaken
INVARIANT PiecesTile
INVARIANT ConflictsAreSeen
INVARIANT LinksHold
INVARIANT NoUpdateLost
PROPERTY ReaperSparesActive
CHECK_DEADLOCK FALSE
