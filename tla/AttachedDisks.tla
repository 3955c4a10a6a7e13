---------------------------- MODULE AttachedDisks ----------------------------
(***************************************************************************)
(* What an update may do to the devices in the slots of a stopped guest,   *)
(* as if disks had no names: a disk that can stay is moved to the storage  *)
(* it is wanted at, grown to the size it is wanted with and given the      *)
(* options it is wanted with, and nothing else happens to it; any other    *)
(* disk that is wanted is a new one.  An update that fails may have done   *)
(* any of it, one that succeeds has done all.  QemuDisks, where a move     *)
(* renames the disk and a disk is set by a name that was read earlier,     *)
(* implements this specification.                                          *)
(***************************************************************************)
EXTENDS Naturals

CONSTANTS Slots,
          Devices,   \* what a slot can hold; a disk has its size and its data
          Wanted,    \* what can be wanted of it
          Empty, Ignored,
          Blank,     \* the data of a new disk
          Gibibyte   \* new disks are made of whole gibibytes, or small

VARIABLES device,    \* device[s]: what slot s holds
          want,      \* want[s]: what is wanted of it
          result     \* "none" while an update runs, and how it returned

vars == <<device, want, result>>

TypeOK ==
    /\ device \in [Slots -> Devices]
    /\ want \in [Slots -> Wanted]
    /\ result \in {"none", "ok", "error"}

CloudInits(f) == {s \in Slots : f[s].kind = "cloudinit"}
AtMostOne(S) == \A s, t \in S : s = t

Init ==
    /\ device \in [Slots -> Devices] /\ AtMostOne(CloudInits(device))
    /\ want \in [Slots -> Wanted]
    /\ result = "none"

IsDisk(d) == d.kind = "disk"

\* The disk in s can stay.
Stays(s) == IsDisk(want[s]) /\ IsDisk(device[s]) /\ device[s].size <= want[s].size

Move ==
    \E s \in Slots :
        /\ Stays(s) /\ device[s].at # want[s].at
        /\ device' = [device EXCEPT ![s].at = want[s].at]

Grow ==
    \E s \in Slots :
        /\ Stays(s)
        /\ device' = [device EXCEPT ![s].size = want[s].size]

\* A cloud-init drive that is wanted in another slot makes room.
Detach ==
    \E S \in SUBSET (CloudInits(device) \ CloudInits(want)) :
        /\ CloudInits(want) # {}
        /\ device' = [s \in Slots |-> IF s \in S THEN Empty ELSE device[s]]

NewDisk(w) ==
    [kind |-> "disk", at |-> w.at, opt |-> w.opt, data |-> Blank,
     size |-> IF w.size % Gibibyte = 0 THEN w.size ELSE 0]

\* What becomes of the device in s when all are set.
Set(s) ==
    LET w == want[s] IN
    \/ w = Ignored /\ device'[s] = device[s]
    \/ w # Ignored /\ ~IsDisk(w) /\ device'[s] = w
    \/ /\ Stays(s) /\ device[s].at = w.at /\ device[s].size = w.size
       /\ device'[s] = [device[s] EXCEPT !.opt = w.opt]
    \/ IsDisk(w) /\ ~Stays(s) /\ device'[s] = NewDisk(w)

\* All slots are set at once.
SetAll ==
    /\ device' \in [Slots -> Devices]
    /\ AtMostOne(CloudInits(device'))
    /\ \A s \in Slots : Set(s)

\* A request is carried out or not, and the update goes on or fails.
Request ==
    /\ result = "none"
    /\ Move \/ Grow \/ Detach \/ SetAll \/ UNCHANGED device
    /\ result' \in {"none", "error"}
    /\ UNCHANGED want

Met(s) ==
    LET w == want[s]
        d == device[s] IN
    \/ w = Ignored
    \/ ~IsDisk(w) /\ d = w
    \/ IsDisk(w) /\ IsDisk(d) /\ <<d.at, d.opt, d.size>> = <<w.at, w.opt, w.size>>

Succeed ==
    /\ result = "none" /\ result' = "ok"
    /\ \A s \in Slots : Met(s)
    /\ UNCHANGED <<device, want>>

\* A move or a growth that an update gave up goes on after it has returned.
Outlive ==
    /\ result = "error"
    /\ Move \/ Grow
    /\ UNCHANGED <<want, result>>

\* The caller calls Update once more, with the same configuration.
Again == result # "none" /\ result' = "none" /\ UNCHANGED <<device, want>>

Next == Request \/ Succeed \/ Outlive \/ Again

Spec == Init /\ [][Next]_vars
=============================================================================
