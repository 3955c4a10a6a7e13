\* Two clients create guests at once, with at most one lost call.
SPECIFICATION FairSpec
CONSTANTS
    a = a
    b = b
    volume1 = volume1
    volume2 = volume2
    disk = disk
    Clients <- TwoClients
    MaxId = 2
    Volumes <- OneVolume
    Grows <- OneDisk
    Pool = pool
    Resource = resource
    Ha = ha
    Group = group
    NoOne = noone
    Other = other
    MaxFaults = 1
PROPERTIES
    EveryCreateReturns
    ImplementsGuestRegistry
INVARIANTS
    SuccessIsComplete
    NeverAnothersGuest
    
\* The run is over when every call has returned.
CHECK_DEADLOCK FALSE
