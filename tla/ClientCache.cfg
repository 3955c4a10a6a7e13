\* Two goroutines, an upgrade, a change of permissions, a failing fetch.
SPECIFICATION CacheSpec
SYMMETRY SymThreads
CONSTANTS
    t1 = t1
    t2 = t2
    vms = vms
    guest = guest
    audit = audit
    SysPowerMgmt = SysPowerMgmt
    Threads <- TwoThreads
    Items <- OneItem
    Category = vms
    Privs <- Audit
    MaxVersion = 2
    MaxChanges = 1
    MaxFaults = 1
INVARIANT RealUnlessFailed
INVARIANT PassIsTrue
INVARIANT RefusalIsTrue
