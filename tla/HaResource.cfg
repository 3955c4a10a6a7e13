\* Two references, a lost request, a change by somebody else.
SPECIFICATION HaSpec
SYMMETRY SymRefs
CONSTANTS
    r1 = r1
    r2 = r2
    started = started
    stopped = stopped
    g = g
    Nothing = Nothing
    Refs <- TwoRefs
    States <- TwoStates
    Started = started
    Asked <- ThreeSettings
    Groups <- OneGroup
    MaxLost = 1
    MaxOthers = 1
INVARIANT OkIsExact
INVARIANT FailureIsHalfway
\* A goroutine that has panicked makes no further calls.
CHECK_DEADLOCK FALSE
