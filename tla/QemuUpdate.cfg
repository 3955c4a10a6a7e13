\* Updates that are tried again until they succeed, with one failing call.
SPECIFICATION FairSpec
CONSTANTS
    disk = disk
    grown = grown
    tpm = tpm
    device = device
    option = option
    fresh = fresh
    pool = pool
    ha = ha
    foreign = foreign
    Moves <- OneMove
    Resizes <- OneResize
    TpmMoves <- OneTpm
    Recreates <- OneRecreate
    Options <- OneOption
    NewDisks <- OneNewDisk
    Pool = pool
    Ha = ha
    Foreign = foreign
    MaxFaults = 1
PROPERTIES
    Converges
    ImplementsReconfiguration
INVARIANTS
    OkMeansInForce
    RebootMeansSaved
    PowerPreserved
    DeletedBeforeCreated
\* The update is over when it returns without an error.
CHECK_DEADLOCK FALSE
