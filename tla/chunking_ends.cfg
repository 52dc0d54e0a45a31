\* A line that is too long, of letters that take two bytes.
SPECIFICATION FairSpec
CONSTANTS
    Letters = {"plain", "wide"}
    MaxLetters = 4
    Window = 3
    Leads = {1}
PROPERTY ChunkingEnds
CHECK_DEADLOCK FALSE
