----------------------------- MODULE QemuMemory -----------------------------
(* The memory of a virtual machine (config_qemu_memory.go).                 *)
EXTENDS Optional, Naturals

CONSTANTS MaxCapacity,  \* qemuMemoryCapacity_Max, 4178944
          MaxShares     \* qemuMemoryShares_Max, 50000

ASSUME QemuMemoryAssumption == {MaxCapacity, MaxShares} \subseteq Nat

\* The struct, and the parameters of a guest, which has memory and no minimum
\* above it.
MemoryObjects ==
    [capacity : {Nil} \cup Nat, minimum : {Nil} \cup Nat, shares : {Nil} \cup Nat]

MemoryParams ==
    {p \in [memory : 1..MaxCapacity, balloon : {Nil} \cup Nat,
            shares : {Nil} \cup 0..MaxShares] :
        p.balloon # Nil => p.balloon <= p.memory}

NoMemory == [memory |-> Nil, balloon |-> Nil, shares |-> Nil]

\* QemuMemory.mapToAPI.  A capacity below the current minimum takes the minimum
\* with it, and like a minimum of 0 it ends the shares.
MemoryToApi(want, cur) ==
    LET lowers == /\ cur # Nil /\ want.minimum = Nil /\ want.capacity # Nil
                  /\ cur.minimum # Nil /\ cur.minimum > want.capacity
        ends == lowers \/ (cur # Nil /\ want.minimum = 0) IN
    Request([memory |-> IF cur = Nil THEN Or(want.capacity, want.minimum)
                        ELSE want.capacity,
             balloon |-> IF lowers THEN want.capacity ELSE want.minimum,
             shares |-> IF ends \/ want.shares = 0 THEN Nil ELSE want.shares],
            IF ends \/ (cur # Nil /\ want.shares = 0) THEN {"shares"} ELSE {})

\* QemuMemory.mapToSDK.
MemoryToSdk(params) ==
    [capacity |-> params.memory, minimum |-> params.balloon, shares |-> params.shares]

\* Mutant: a minimum is compared with the current capacity only.
MemoryValid_mut(want, cur) ==
    /\ want.minimum # Nil =>
          /\ want.minimum <= MaxCapacity
          /\ cur # Nil /\ cur.capacity # Nil => want.minimum <= cur.capacity
    /\ want.capacity # Nil => want.capacity \in 1..MaxCapacity
    /\ ~(want.capacity = Nil /\ cur = Nil /\ want.minimum \in {Nil, 0})
    /\ want.shares # Nil => want.shares = 0

\* QemuMemory.Validate and that of its three fields.
MemoryValid(want, cur) ==
    LET has(f) == IF cur = Nil THEN Nil ELSE cur[f]
        capacity == Or(Or(want.capacity, has("capacity")), Or(want.minimum, 0))
        minimum == Or(Or(want.minimum, has("minimum")), 0) IN
    /\ want.minimum # Nil =>
          /\ want.minimum <= MaxCapacity
          /\ want.capacity # Nil => want.minimum <= want.capacity
    /\ want.capacity # Nil => want.capacity \in 1..MaxCapacity
    /\ capacity # 0
    /\ want.shares # Nil => /\ want.shares <= MaxShares
                            /\ want.shares > 0 => capacity # minimum
=============================================================================
