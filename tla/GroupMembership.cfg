\* Two clients at once, one failing request, one request by someone else.
SPECIFICATION Spec
CONSTANTS
    u1 = u1
    u2 = u2
    g1 = g1
    g2 = g2
    c1 = c1
    c2 = c2
    Users <- TwoUsers
    Groups <- TwoGroups
    Clients <- TwoClients
    Kinds <- FourKinds
    MaxFaults = 1
    MaxOthers = 1
INVARIANTS
    UnsharedIsExact
    AloneIsExact
    NothingHalfWritten
SYMMETRY Symmetry
\* The run is over when every call has returned.
CHECK_DEADLOCK FALSE
