\* Two slots, two requests that are lost or given up on.
SPECIFICATION Spec
CONSTANTS
    s1 = s1
    s2 = s2
    a = a
    b = b
    o = o
    p = p
    Slots <- TwoSlots
    Storages <- TwoStorages
    Options <- TwoOptions
    Gibibyte = 2
    Numbers = {0, 1, 2, 3}
    Situations <- AllSituations
    MaxFaults = 2
INVARIANT SlotsAsWanted
INVARIANT RepeatIsNothing
INVARIANT RefusedOnlyInvalid
PROPERTY DataKept
PROPERTY TpmKept
PROPERTY ImplementsReconfiguration
PROPERTY ImplementsAttachedDisks
