\* Two clients at once, one failing request.
SPECIFICATION Spec
CONSTANTS
    i1 = i1
    i2 = i2
    p1 = p1
    p2 = p2
    c1 = c1
    c2 = c2
    NoPool = NoPool
    Guests <- TwoGuests
    Pools <- TwoPools
    Clients <- TwoClients
    Kinds <- FiveKinds
    Versions <- SevenAndEight
    MaxFaults = 1
    MayDelete = TRUE
INVARIANT UnsharedIsExact
INVARIANT AloneIsAccepted
PROPERTY NeverDropped
\* The run is over when every call has returned.
CHECK_DEADLOCK FALSE
