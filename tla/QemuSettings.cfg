\* Every part of the settings, one call, one change by somebody else.
SPECIFICATION Spec
CONSTANTS
    Nil = Nil
    Strings <- AllStrings
    aes = aes
    pcid = pcid
    k1 = k1
    k2 = k2
    MaxCapacity = 3
    MaxShares = 2
    Flags <- TwoFlags
    Spelling <- Spelled
    MaxCores = 2
    MaxSockets = 4
    MaxLimit = 3
    MaxUnits = 3
    MaxUint = 3
    Snippets <- TwoSnippets
    Nics <- ZeroAndFour
    MaxNic = 3
    Invalid = "invalid"
    Serials <- ZeroAndFour
    MaxSerial = 3
    Devices <- ZeroAndOne
    RandomMac = 9
    AgentTypes <- BothTypes
    LowerCase <- Lowered
    Tags <- TwoTags
    Parts <- AllParts
    Majors <- SevenAndEight
    VmId = 1
    MaxOthers = 1
    MaxFaults = 1
    Stored <- StoredOf
    Foreign <- ForeignTo
    Asked <- AskedOf
INVARIANT OkIsExact
INVARIANT ValidIsAccepted
INVARIANT ResendIsHarmless
\* The run is over when the call has returned.
CHECK_DEADLOCK FALSE
