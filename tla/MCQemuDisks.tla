----------------------------- MODULE MCQemuDisks -----------------------------
(* QemuDisks for TLC: two slots and two storages, so that disks can take   *)
(* each other's names; a gibibyte of two units, so that some sizes are no  *)
(* multiple of it.  Everything that two slots may hold is combined with    *)
(* everything that may be wanted of them; a TPM is combined with a disk.   *)
EXTENDS QemuDisks, FiniteSets, TLC

CONSTANTS s1, s2, a, b, o, p

TwoSlots == {s1, s2}
TwoStorages == {a, b}
TwoOptions == {o, p}
NoDrive == [at |-> a, kind |-> "cdrom"]

\* The devices of a slot, as a value with its size, and wanted ones.
Sizes == 1..3
HeldDisks == [kind : {"disk"}, at : Storages, size : Sizes, opt : {o}]
Held == {Empty, NoDrive, [kind |-> "cloudinit", at |-> a]} \cup HeldDisks
Asked ==
    {Ignored, Empty, NoDrive, [kind |-> "passthrough", at |-> a]}
    \cup [kind : {"cloudinit"}, at : Storages]
    \cup [kind : {"disk"}, at : Storages, size : Sizes, opt : {o}]
    \cup [kind : {"disk"}, at : {a}, size : {3}, opt : {p}]

\* The server with the devices held, each disk on a volume of its own; the
\* second disk at a storage has number 1.
Number(held, s) ==
    IF s = s2 /\ IsDisk(held[s1]) /\ held[s1].at = held[s2].at THEN 1 ELSE 0

Situation(held, t, w, wt) ==
    LET disks == {s \in Slots : IsDisk(held[s])}
        name(s) == <<held[s].at, Number(held, s)>> IN
    [slots |-> [s \in Slots |->
        IF s \in disks THEN [kind |-> "disk", at |-> held[s].at, id |-> Number(held, s),
                             opt |-> held[s].opt]
        ELSE held[s]],
     volumes |-> [n \in {name(s) : s \in disks} |->
        LET s == CHOOSE s \in disks : name(s) = n IN [size |-> held[s].size, data |-> s]],
     tpm |-> t, want |-> w, wantTpm |-> wt]

OneCloudInit(drives) == Cardinality({s \in Slots : drives[s].kind = "cloudinit"}) <= 1

DiskSituations ==
    {Situation(held, Empty, w, Ignored) :
        held \in {f \in [Slots -> Held] : OneCloudInit(f)}, w \in [Slots -> Asked]}

\* A TPM, in all spellings of its version, and a disk that stays, moves, or is
\* made anew.
WithTpm ==
    {Situation([s \in Slots |-> [kind |-> "disk", at |-> a, size |-> 2, opt |-> o]], t,
               [s \in Slots |-> w], wt) :
        t \in {Empty} \cup [kind : {"tpm"}, at : Storages, version : Versions, data : {Tpm}],
        w \in [kind : {"disk"}, at : Storages, size : {1, 2}, opt : {o}],
        wt \in [kind : {"tpm", "delete"}, at : Storages, version : Spellings]}

AllSituations == DiskSituations \cup WithTpm
=============================================================================
