\* Every kind of item, two calls on the same object.
SPECIFICATION Spec
CONSTANTS
    Nil = Nil
    Strings <- AllStrings
    Kinds <- AllKinds
    Contents <- ContentsOf
    MaxPort = 2
    MinMtu = 2
    MaxMtu = 2
    MaxDelay = 30
    MaxCalls = 2
    MaxOthers = 1
    MaxFaults = 1
    Asked <- AskedOf
    Items <- ItemsOf
    Foreign <- ForeignTo
INVARIANT OkReadsBack
INVARIANT NoLostUpdate
INVARIANT AloneIsAccepted
INVARIANT ResendIsHarmless
\* The run is over when the calls have returned.
CHECK_DEADLOCK FALSE
