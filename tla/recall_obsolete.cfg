\* A search that nothing disturbs, in each of the stores.
SPECIFICATION RecallSpec
CONSTANTS
    Ids <- MCIds
    Stores <- MCStores
    Tools = {"search"}
    Limit = 3
    MaxChanges = 0
INVARIANT ObsoleteExcluded
CHECK_DEADLOCK FALSE
