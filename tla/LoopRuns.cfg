SPECIFICATION FairSpec
CONSTANTS
    Kinds <- MCKinds
    Watched <- MCWatched
    Ignored <- MCIgnored
    MaxVersion = 1
    MaxFaults = 1
INVARIANTS
    WaitsForTimer
PROPERTIES
    KeepsReconciling
    ChangesReconciled
    CancelReturns
\* Run returns when it is cancelled, and then nothing is left to do.
CHECK_DEADLOCK FALSE
