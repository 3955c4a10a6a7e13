------------------------------ MODULE QemuDisks ------------------------------
(***************************************************************************)
(* How an update of a guest gets the devices in its disk slots, and its    *)
(* TPM state, to be as wanted (proxmox/config_qemu_disk*.go,               *)
(* config_qemu_tpm.go, and the part of setAdvanced that uses them).        *)
(* QemuUpdate has the order of the calls and what a running guest makes of *)
(* them; here the guest is stopped and the values count: which disks are   *)
(* moved and resized, what is sent for each slot, and which volume it      *)
(* names.                                                                  *)
(*                                                                         *)
(* A volume is named by its storage and a number that the server chooses,  *)
(* so moving a disk changes its name, perhaps to one that another volume   *)
(* had a moment ago.                                                       *)
(***************************************************************************)
EXTENDS Naturals

CONSTANTS Slots,
          Storages,   \* storages, each with a format
          Options,    \* the rest of a disk's settings
          Gibibyte,   \* in the unit of the sizes
          Numbers,    \* the numbers of volumes
          Situations, \* what the server may have and what may be wanted of it
          MaxFaults   \* requests that are lost, there or back, or not waited for

Tpm == "tpmstate0"

\* What a slot can hold on the server, and a volume.
Empty == [kind |-> "empty"]
Drives == [kind : {"cdrom", "cloudinit", "passthrough"}, at : Storages]
Disks == [kind : {"disk"}, at : Storages, id : Numbers, opt : Options]
Devices == {Empty} \cup Drives \cup Disks
Blank == "blank"
Volumes == [size : Nat, data : Slots \cup {Blank}]

\* A disk as it is reported, with its size.
ReadDisks == [kind : {"disk"}, at : Storages, id : Numbers, opt : Options, size : Nat]

\* What can be wanted of a slot: a nil pointer, a struct without a subtype, or
\* a device.
Ignored == [kind |-> "ignored"]
WantedDisks == [kind : {"disk"}, at : Storages, size : Nat \ {0}, opt : Options]
Wanted == {Ignored, Empty} \cup Drives \cup WantedDisks

\* A TPM state, and what can be wanted of it; a version may be nil, and may be
\* spelled in several ways.
Versions == {"v1.2", "v2.0"}
Spellings == Versions \cup {"1.2", "2.0", "nil"}  \* "2" and "v2" are as "2.0"
TpmStates == {Empty} \cup [kind : {"tpm"}, at : Storages, version : Versions,
                          data : {Tpm, Blank}]
WantedTpm == {Ignored} \cup [kind : {"tpm", "delete"}, at : Storages, version : Spellings]

IsDisk(d) == d.kind = "disk"
Name(d) == <<d.at, d.id>>
AtMostOne(S) == \A s, t \in S : s = t
CloudInits(drives) == {s \in Slots : drives[s].kind = "cloudinit"}

\* The server has each disk on a volume of its own, and one cloud-init drive.
InOrder(h) ==
    /\ h.slots \in [Slots -> Devices]
    /\ DOMAIN h.volumes \subseteq Storages \X Numbers
    /\ h.volumes \in [DOMAIN h.volumes -> Volumes]
    /\ \A s \in Slots : IsDisk(h.slots[s]) => Name(h.slots[s]) \in DOMAIN h.volumes
    /\ \A s, t \in Slots : IsDisk(h.slots[s]) /\ IsDisk(h.slots[t]) /\ s # t
                           => Name(h.slots[s]) # Name(h.slots[t])
    /\ AtMostOne(CloudInits(h.slots))
    /\ h.tpm \in TpmStates

ASSUME QemuDisksAssumption ==
    /\ Tpm \notin Slots
    /\ Gibibyte \in Nat \ {0}
    /\ Numbers \subseteq Nat
    /\ MaxFaults \in Nat
    /\ \A c \in Situations :
          InOrder(c) /\ c.want \in [Slots -> Wanted] /\ c.wantTpm \in WantedTpm

VARIABLES
    slots,    \* slots[s]: what slot s holds
    volumes,  \* volumes[n]: the size and the data of the volume named n
    tpm,      \* the TPM state
    late,     \* moves and growths that still run, though the update gave them up
    want,     \* newConfig.Disks
    wantTpm,  \* newConfig.TPM
    current,  \* currentConfig: its disks and its TPM
    pc,       \* the next request of the update, or how it returned
    todo,     \* the disks a loop has still to move or resize, or what is to be
              \* deleted before the update
    faults

server == <<slots, volumes, tpm>>
vars == <<server, late, want, wantTpm, current, pc, todo, faults>>

\* What is a task at the server.
Op(k, s) == [kind |-> k, slot |-> s]
Tasks == [kind : {"move", "resize"}, slot : Slots] \cup {Op("move", Tpm)}

Returned == {"ok", "error"}

Now == [slots |-> slots, volumes |-> volumes, tpm |-> tpm]

TypeOK ==
    /\ InOrder(Now)
    /\ late \subseteq Tasks
    /\ want \in [Slots -> Wanted] /\ wantTpm \in WantedTpm
    /\ current \in [slots : [Slots -> {Empty} \cup Drives \cup ReadDisks], tpm : TpmStates]
    /\ pc \in {"read", "move", "resize", "tpm", "delete", "reread", "put", "grow"}
              \cup Returned
    /\ todo \subseteq Slots \cup {Tpm}
    /\ faults \in 0..MaxFaults

Init ==
    /\ \E c \in Situations :
          /\ slots = c.slots /\ volumes = c.volumes /\ tpm = c.tpm
          /\ want = c.want /\ wantTpm = c.wantTpm
    /\ late = {}
    /\ current = [slots |-> [s \in Slots |-> Empty], tpm |-> Empty]
    /\ pc = "read"
    /\ todo = {}
    /\ faults = 0

-----------------------------------------------------------------------------
(* The lists an update works through, from the configuration c it read.    *)

\* Mutant: a disk that has its size already is taken to be another one.
Fits_mut(w, d) == IsDisk(w) /\ IsDisk(d) /\ w.size > d.size

\* The disk wanted need not be smaller than the one there is.
Fits(w, d) == IsDisk(w) /\ IsDisk(d) /\ w.size >= d.size

\* markChanges
ToMove(c) == {s \in Slots : Fits(want[s], c.slots[s]) /\ want[s].at # c.slots[s].at}

ToResize(c) == {s \in Slots : Fits(want[s], c.slots[s]) /\ want[s].size > c.slots[s].size}

\* Mutant: only a disk in a slot that had none is grown.
ToGrow_mut(c) ==
    {s \in Slots : IsDisk(want[s]) /\ want[s].size % Gibibyte # 0 /\ ~IsDisk(c.slots[s])}

\* selectInitialResize: the new disks that were not made with their full size.
ToGrow(c) ==
    {s \in Slots : IsDisk(want[s]) /\ want[s].size % Gibibyte # 0 /\ ~Fits(want[s], c.slots[s])}

\* Mutant: the drive is removed only from a slot of which something is wanted.
CloudInitRemove_mut(c) ==
    {s \in CloudInits(c.slots) \ CloudInits(want) : CloudInits(want) # {} /\ want[s] # Ignored}

\* cloudInitRemove: a cloud-init drive that is wanted in another slot.
CloudInitRemove(c) ==
    {s \in CloudInits(c.slots) \ CloudInits(want) : CloudInits(want) # {}}

\* TpmVersion.mapToApi
MapVersion(v) == IF v \in {"v1.2", "1.2"} THEN v ELSE "v2.0"

\* TpmState.markChanges: a TPM that is to be there and is.
TpmStays(c) == wantTpm.kind = "tpm" /\ c.tpm # Empty

\* Mutant: the versions are compared as they are spelled.
TpmReplaced_mut(c) ==
    TpmStays(c) /\ wantTpm.version \notin {"nil", c.tpm.version}

TpmReplaced(c) ==
    TpmStays(c) /\ wantTpm.version # "nil" /\ MapVersion(wantTpm.version) # c.tpm.version

TpmMoved(c) == TpmStays(c) /\ ~TpmReplaced(c) /\ wantTpm.at # c.tpm.at

-----------------------------------------------------------------------------
(* What is sent: nothing, a deletion or a value.                           *)

Nothing == [kind |-> "nothing"]
Deletion == [kind |-> "deletion"]

\* A new disk of some gibibytes, or of 0.001 GiB, which is nothing here.
NewDisk(w) ==
    [kind |-> "new", at |-> w.at, opt |-> w.opt,
     size |-> IF w.size % Gibibyte = 0 THEN w.size ELSE 0]

\* formatDisk: the volume by its number, in the storage wanted.
SameDisk(w, d) == [kind |-> "disk", at |-> w.at, id |-> d.id, opt |-> w.opt]

\* Mutant: a disk that stays is always sent.
Param_mut(w, d) ==
    CASE w = Ignored -> Nothing
      [] w = Empty -> IF d = Empty THEN Nothing ELSE Deletion
      [] w.kind \in {"cdrom", "cloudinit", "passthrough"} -> IF w = d THEN Nothing ELSE w
      [] IsDisk(w) -> IF Fits(w, d) THEN SameDisk(w, d) ELSE NewDisk(w)

\* qemuStorage.mapToApiValues, for w where d is.
Param(w, d) ==
    CASE w = Ignored -> Nothing
      [] w = Empty -> IF d = Empty THEN Nothing ELSE Deletion
      [] w.kind \in {"cdrom", "cloudinit", "passthrough"} -> IF w = d THEN Nothing ELSE w
      [] IsDisk(w) -> IF ~Fits(w, d) THEN NewDisk(w)
                      ELSE IF w.at = d.at /\ w.opt = d.opt THEN Nothing
                      ELSE SameDisk(w, d)

Params(c) == [s \in Slots |-> Param(want[s], c.slots[s])]

\* TpmState.mapToApi
TpmParam(c) ==
    CASE wantTpm.kind = "delete" -> Deletion
      [] wantTpm.kind = "tpm" /\ c.tpm = Empty ->
            [kind |-> "tpm", at |-> wantTpm.at, version |-> MapVersion(wantTpm.version),
             data |-> Blank]
      [] OTHER -> Nothing

-----------------------------------------------------------------------------
(* The server.                                                             *)

Carried(h) == slots' = h.slots /\ volumes' = h.volumes /\ tpm' = h.tpm

\* A request is carried out and leaves the server as in h, is refused, or is
\* lost.
Request(accepted, h, next, rest) ==
    /\ \/ accepted /\ Carried(h) /\ pc' = next /\ todo' = rest /\ UNCHANGED faults
       \/ ~accepted /\ pc' = "error" /\ UNCHANGED <<server, todo, faults>>
       \/ /\ faults < MaxFaults
          /\ faults' = faults + 1
          /\ pc' = "error"
          /\ UNCHANGED server \/ (accepted /\ Carried(h))
          /\ UNCHANGED todo
    /\ UNCHANGED <<late, want, wantTpm, current>>

\* Nothing is moved to where it is, a disk is only grown, and no two tasks work on
\* the same one.
Possible(op) ==
    /\ \A l \in late : l.slot # op.slot
    /\ CASE op.slot = Tpm -> tpm # Empty /\ tpm.at # wantTpm.at
         [] op.slot \in Slots /\ op.kind = "move" ->
               IsDisk(slots[op.slot]) /\ slots[op.slot].at # want[op.slot].at
         [] op.slot \in Slots /\ op.kind = "resize" ->
               /\ IsDisk(slots[op.slot])
               /\ volumes[Name(slots[op.slot])].size <= want[op.slot].size

\* The request for a task that leaves the server as in h; or WaitForCompletion
\* runs out of patience, and the task goes on.
Run(op, h, next, rest) ==
    \/ Request(Possible(op), h, next, rest)
    \/ /\ Possible(op) /\ faults < MaxFaults
       /\ late' = late \cup {op}
       /\ faults' = faults + 1
       /\ pc' = "error"
       /\ UNCHANGED <<server, want, wantTpm, current, todo>>

\* The lowest number that no volume at a storage has, if names are taken.
IsNext(n, at, taken) ==
    <<at, n>> \notin taken /\ \A i \in Numbers : i < n => <<at, i>> \in taken

\* A volume gets a copy at another storage under the number n; the original is
\* deleted.
Moved(s, at, n) ==
    LET old == Name(slots[s])
        new == <<at, n>> IN
    [Now EXCEPT
        !.slots[s].at = at, !.slots[s].id = n,
        !.volumes = [m \in (DOMAIN volumes \ {old}) \cup {new} |->
                        IF m = new THEN volumes[old] ELSE volumes[m]]]

Resized(s, size) == [Now EXCEPT !.volumes[Name(slots[s])].size = size]

TpmMovedTo(at) == [Now EXCEPT !.tpm.at = at]

\* A task that nobody waits for ends, or fails.  The copy that a move makes has
\* its name by the end of it.
LateTask ==
    /\ \E op \in late :
          /\ late' = late \ {op}
          /\ \/ UNCHANGED server
             \/ /\ op.slot \in Slots /\ op.kind = "move"
                /\ \E n \in Numbers :
                      /\ IsNext(n, want[op.slot].at, DOMAIN volumes)
                      /\ Carried(Moved(op.slot, want[op.slot].at, n))
             \/ /\ op.slot \in Slots /\ op.kind = "resize"
                /\ Carried(Resized(op.slot, want[op.slot].size))
             \/ op.slot = Tpm /\ Carried(TpmMovedTo(wantTpm.at))
    /\ UNCHANGED <<want, wantTpm, current, pc, todo, faults>>

\* The numbers that the new disks among these parameters get, one disk after
\* another.
Numberings(params) ==
    LET new == {s \in Slots : params[s].kind = "new"} IN
    {f \in [new -> Numbers] : \A s \in new :
        IsNext(f[s], params[s].at,
               DOMAIN volumes \cup {<<params[t].at, f[t]>> : t \in new \ {s}})}

\* What a slot has after a parameter.  The volume it had is kept, as an unused
\* disk.
Given(s, p, f) ==
    CASE p.kind = "new" -> [kind |-> "disk", at |-> p.at, id |-> f[s], opt |-> p.opt]
      [] p.kind = "deletion" -> Empty
      [] p.kind = "nothing" -> slots[s]
      [] OTHER -> p

\* The server after a PUT with these parameters.
After(params, tpmParam, f) ==
    LET new(s) == <<params[s].at, f[s]>>
        of(n) == CHOOSE s \in DOMAIN f : new(s) = n IN
    [slots |-> [s \in Slots |-> Given(s, params[s], f)],
     volumes |-> [n \in DOMAIN volumes \cup {new(s) : s \in DOMAIN f} |->
                     IF n \in DOMAIN volumes THEN volumes[n]
                     ELSE [size |-> params[of(n)].size, data |-> Blank]],
     tpm |-> CASE tpmParam.kind = "tpm" -> tpmParam
               [] tpmParam.kind = "deletion" -> Empty
               [] OTHER -> tpm]

\* A PUT, which leaves the server as in h, may only name volumes that exist,
\* leaves at most one cloud-init drive, and makes a TPM of a version that the
\* server knows.
Accepts(params, tpmParam, h) ==
    /\ \A s \in Slots : IsDisk(params[s]) => Name(params[s]) \in DOMAIN volumes
    /\ AtMostOne(CloudInits(h.slots))
    /\ tpmParam.kind = "tpm" => tpmParam.version \in Versions

-----------------------------------------------------------------------------
(* The update.                                                             *)

\* mapToStruct: a disk is reported with its size.
MapToStruct(d) ==
    IF IsDisk(d)
    THEN [kind |-> "disk", at |-> d.at, id |-> d.id, opt |-> d.opt, size |-> volumes[Name(d)].size]
    ELSE d

\* NewConfigQemuFromApi
Report == [slots |-> [s \in Slots |-> MapToStruct(slots[s])], tpm |-> tpm]

\* Validate: a TPM needs a version when there is none yet, even if it is to be
\* deleted.
Valid(c) ==
    /\ AtMostOne(CloudInits(want))
    /\ wantTpm # Ignored /\ c.tpm = Empty => wantTpm.version # "nil"

\* The step that reads fails.
ReadFails ==
    /\ faults < MaxFaults
    /\ faults' = faults + 1
    /\ pc' = "error"
    /\ UNCHANGED <<current, todo>>

\* The start of Update: the configuration is read, the new one is validated
\* against it, and markDiskChanges lists what is to be moved.
Read ==
    /\ pc = "read"
    /\ \/ /\ current' = Report
          /\ IF Valid(Report) THEN pc' = "move" /\ todo' = ToMove(Report)
             ELSE pc' = "error" /\ UNCHANGED todo
          /\ UNCHANGED faults
       \/ ReadFails
    /\ UNCHANGED <<server, late, want, wantTpm>>

\* All disks of a list have been sent, one after another: the next list is.
ListDone(step, next, rest) ==
    /\ pc = step /\ todo = {}
    /\ pc' = next /\ todo' = rest
    /\ UNCHANGED <<server, late, want, wantTpm, current, faults>>

\* qemuDiskMove.move, with delete.
Move ==
    \/ /\ pc = "move"
       /\ \E s \in todo, n \in Numbers :
            /\ IsNext(n, want[s].at, DOMAIN volumes)
            /\ Run(Op("move", s), Moved(s, want[s].at, n), "move", todo \ {s})
    \/ ListDone("move", "resize", ToResize(current))

\* One disk of the list is grown.
Resizes(step, next) ==
    \/ /\ pc = step
       /\ \E s \in todo :
            Run(Op("resize", s), Resized(s, want[s].size), step, todo \ {s})
    \/ ListDone(step, next, {})

\* resizeDisks
Resize == Resizes("resize", "tpm")

\* markChanges of the TPM: it is moved, or it is deleted with the cloud-init
\* drive and is gone from currentConfig.
MoveTpm ==
    /\ pc = "tpm"
    /\ \/ TpmMoved(current)
          /\ Run(Op("move", Tpm), TpmMovedTo(wantTpm.at), "delete", CloudInitRemove(current))
       \/ /\ ~TpmMoved(current)
          /\ pc' = "delete"
          /\ todo' = CloudInitRemove(current) \cup (IF TpmReplaced(current) THEN {Tpm} ELSE {})
          /\ current' = IF TpmReplaced(current) THEN [current EXCEPT !.tpm = Empty] ELSE current
          /\ UNCHANGED <<server, late, want, wantTpm, faults>>

\* Mutant: the configuration is read again only after a resize.
AfterDelete_mut == IF ToResize(current) # {} THEN "reread" ELSE "put"

\* Moving a disk changes its identifier.
AfterDelete == IF ToMove(current) # {} THEN "reread" ELSE "put"

\* PUT of itemsToDeleteBeforeUpdate.
Delete ==
    /\ pc = "delete"
    /\ \/ /\ todo # {}
          /\ Request(TRUE,
                     [Now EXCEPT !.slots = [s \in Slots |-> IF s \in todo THEN Empty ELSE @[s]],
                                 !.tpm = IF Tpm \in todo THEN Empty ELSE @],
                     AfterDelete, {})
       \/ /\ todo = {}
          /\ pc' = AfterDelete
          /\ UNCHANGED <<server, late, want, wantTpm, current, todo, faults>>

Reread ==
    /\ pc = "reread"
    /\ \/ current' = Report /\ pc' = "put" /\ UNCHANGED <<todo, faults>>
       \/ ReadFails
    /\ UNCHANGED <<server, late, want, wantTpm>>

\* mapToAPI and PutWithTask.
Put ==
    /\ pc = "put"
    /\ \E f \in Numberings(Params(current)) :
          LET h == After(Params(current), TpmParam(current), f) IN
          Request(Accepts(Params(current), TpmParam(current), h), h, "grow", ToGrow(current))

\* resizeNewDisks
Grow == Resizes("grow", "ok")

\* The caller calls Update once more, with the same configuration.
Again ==
    /\ pc \in Returned
    /\ pc' = "read" /\ todo' = {}
    /\ UNCHANGED <<server, late, want, wantTpm, current, faults>>

Next ==
    \/ Read \/ Move \/ Resize \/ MoveTpm \/ Delete \/ Reread \/ Put \/ Grow
    \/ Again \/ LateTask

Spec == Init /\ [][Next]_vars

-----------------------------------------------------------------------------
(* Properties.                                                             *)

\* w is what the server has as d.
Meets(w, d) ==
    CASE w = Ignored -> TRUE
      [] IsDisk(w) -> /\ IsDisk(d) /\ <<w.at, w.opt>> = <<d.at, d.opt>>
                      /\ volumes[Name(d)].size = w.size
      [] OTHER -> w = d

\* The version that is meant.
Means(v) == CASE v = "1.2" -> "v1.2" [] v = "2.0" -> "v2.0" [] OTHER -> v

\* 1.2 is the one spelling that Validate takes and that is not sent as the server
\* spells it: with it a TPM is deleted by every update, and the server refuses
\* to make it anew.
Misspelled == wantTpm.kind = "tpm" /\ wantTpm.version = "1.2"

MeetsTpm ==
    CASE wantTpm.kind = "tpm" -> /\ tpm.kind = "tpm" /\ tpm.at = wantTpm.at
                                 /\ Means(wantTpm.version) \in {tpm.version, "nil"}
      [] wantTpm.kind = "delete" -> tpm = Empty
      [] OTHER -> TRUE

\* An update that returns without an error has brought every slot and the TPM
\* to what was wanted, whatever an earlier one that failed has left: disks
\* that are moved and grown at once, made anew, or made small and not grown.  No
\* update does so whose TPM is misspelled, however often it is repeated.
SlotsAsWanted ==
    pc = "ok" => ~Misspelled /\ MeetsTpm /\ \A s \in Slots : Meets(want[s], slots[s])

\* Applying the same configuration again has nothing to do.
RepeatIsNothing ==
    pc = "ok" =>
        LET c == Report IN
        /\ ToMove(c) \cup ToResize(c) \cup ToGrow(c) \cup CloudInitRemove(c) = {}
        /\ \A s \in Slots : Params(c)[s] = Nothing

\* A slot keeps its data, through moves that change the names of volumes and
\* through updates that fail, unless something else is wanted there or a
\* smaller disk.
DataKept ==
    [][\A s \in Slots :
        LET d == Report.slots[s] IN
        (IsDisk(d) /\ (want[s] = Ignored \/ Fits(want[s], d))) =>
            /\ IsDisk(slots'[s])
            /\ volumes'[Name(slots'[s])].data = volumes[Name(d)].data]_vars

\* An update of which no request is lost is never refused by the server, in
\* whatever way the devices change places, unless Validate refused it or the
\* version of the TPM is misspelled.
RefusedOnlyInvalid == pc = "error" /\ faults = 0 => ~Valid(current) \/ Misspelled

\* A TPM that is to stay and has the version wanted.
SameTpm ==
    /\ tpm # Empty /\ wantTpm.kind # "delete"
    /\ wantTpm.kind = "tpm" => Means(wantTpm.version) \in {tpm.version, "nil"}

\* What the comment of TpmState.Version says ("Changing version will delete the
\* current tpmstate and create a new one.") is so when the version is spelled as
\* the server spells it or as any other that Validate takes, but for 1.2: the TPM
\* keeps its data through every step.  With 1.2 it is lost, and at one step only,
\* where the update deletes what it takes for another version.
TpmKept ==
    [][SameTpm => \/ tpm' # Empty /\ tpm'.data = tpm.data
                  \/ Misspelled /\ pc = "delete" /\ Tpm \in todo /\ tpm' = Empty]_vars

\* The refinement mapping to what an update promises: the guest is stopped, so
\* that what is recorded is in force.
Promised == Slots \cup {t \in {Tpm} : ~Misspelled}
Achieved == {s \in Slots : Meets(want[s], slots[s])} \cup {t \in {Tpm} : MeetsTpm /\ ~Misspelled}

Promise == INSTANCE Reconfiguration WITH
               Changes <- Slots \cup {Tpm}, Excused <- {}, Last <- {},
               asked <- Promised,
               recorded <- Achieved, inForce <- Achieved,
               result <- IF pc \in Returned THEN pc ELSE "none"

\* A slot or a TPM that is as wanted stays so through every step: moves, growth,
\* deletions and PUTs that are for others, failures, repetitions and tasks that
\* end late.  Nothing is promised of a TPM whose version is misspelled.
ImplementsReconfiguration == Promise!Spec

\* The refinement mapping to the devices without names: a disk has the size and
\* the data of its volume.
Device(s) ==
    LET d == slots[s] IN
    IF IsDisk(d)
    THEN [kind |-> "disk", at |-> d.at, opt |-> d.opt,
          size |-> volumes[Name(d)].size, data |-> volumes[Name(d)].data]
    ELSE d

Attached == INSTANCE AttachedDisks WITH
                Devices <- {Empty} \cup Drives
                           \cup [kind : {"disk"}, at : Storages, opt : Options, size : Nat,
                                 data : Slots \cup {Blank}],
                device <- [s \in Slots |-> Device(s)],
                result <- IF pc \in Returned THEN pc ELSE "none"

\* Moves rename disks, possibly to a name that another one had before, and the
\* PUT names them as they were read: still no disk ever gets another one's place,
\* data, size or options, nor does anything change that need not.
ImplementsAttachedDisks == Attached!Spec
==============================================================================
