SPECIFICATION FairSpec
CONSTANTS
    IDs = {"e1", "e2", "e3", "e4"}
    Stored <- MCStored
    Hints = {"h1", "h2"}
    Filters = {{}, {"h1"}, {"h1", "h2"}, {"", "h2"}}
    PageSize = 1
    MaxWrites = 2
    MaxFaults = 1
INVARIANTS StableListedOnce IDsOnce
PROPERTIES ListReturns
CHECK_DEADLOCK FALSE
