\* One change, projected while a search is put together.
SPECIFICATION RecallSpec
CONSTANTS
    Ids <- MCIds
    Stores <- MCStores
    Tools = {"search"}
    Limit = 3
    MaxChanges = 1
INVARIANT NeverFalselyComplete
CHECK_DEADLOCK FALSE
