\* One client adds guests on a server of version 7.
SPECIFICATION Spec
CONSTANTS
    i1 = i1
    i2 = i2
    p1 = p1
    p2 = p2
    c1 = c1
    c2 = c2
    NoPool = NoPool
    Guests <- TwoGuests
    Pools <- TwoPools
    Clients <- OneClient
    Kinds <- OnlyAdd
    Versions <- Seven
    MaxFaults = 0
    MayDelete = FALSE
INVARIANT AddNeverRefused
\* The run is over when every call has returned.
CHECK_DEADLOCK FALSE
