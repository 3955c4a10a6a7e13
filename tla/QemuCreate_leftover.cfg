\* One client, at most one lost call: the volumes of a guest that was not created.
SPECIFICATION Spec
CONSTANTS
    a = a
    b = b
    volume1 = volume1
    volume2 = volume2
    disk = disk
    Clients <- OneClient
    MaxId = 2
    Volumes <- TwoVolumes
    Grows <- OneDisk
    Pool = pool
    Resource = resource
    Ha = ha
    Group = group
    NoOne = noone
    Other = other
    MaxFaults = 1
INVARIANTS
    NothingLeftBehind
\* The run is over when every call has returned.
CHECK_DEADLOCK FALSE
