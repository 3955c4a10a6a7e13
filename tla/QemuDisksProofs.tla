--------------------------- MODULE QemuDisksProofs ---------------------------
(***************************************************************************)
(* Proofs about QemuDisks, for any slots, storages, options, numbers, any  *)
(* situations that are in order, and any number of lost requests and       *)
(* repetitions.  The argument relates the configuration that was read to   *)
(* the server: until the configuration is read again each request makes    *)
(* them differ in a known way (Matches), and when the PUT is computed they *)
(* differ in nothing that it depends on (Known).  A task that outlives its *)
(* update can only do what the next one finds to be done too (Alive, Due): *)
(* that one is refused, or it finds the disk as it wanted it (Overtaken).  *)
(***************************************************************************)
EXTENDS QemuDisks, TLAPS

Size(s) == volumes[Name(slots[s])].size

\* What is left of the list at each step.
Listed ==
    /\ pc = "move" => todo \subseteq ToMove(current)
    /\ pc = "resize" => todo \subseteq ToResize(current)
    /\ pc = "delete" => todo \ {Tpm} = CloudInitRemove(current)
    /\ pc = "grow" => todo \subseteq {s \in Slots : IsDisk(want[s])}
    /\ pc = "ok" => todo = {}

\* The disk in s can become the one that is wanted.
CanStay(s) == IsDisk(slots[s]) /\ IsDisk(want[s]) /\ Size(s) <= want[s].size

\* The TPM is of the version that is wanted, if one is.
RightVersion(t) == wantTpm.version = "nil" \/ MapVersion(wantTpm.version) = t.version

\* What a task that was given up still works on.
Alive(op) ==
    IF op.slot = Tpm
    THEN /\ wantTpm.kind = "tpm" /\ tpm # Empty
         /\ tpm.at # wantTpm.at /\ RightVersion(tpm)
    ELSE /\ CanStay(op.slot)
         /\ op.kind = "move" => slots[op.slot].at # want[op.slot].at

\* How far an update can come while it runs: not past its own request for the
\* same, unless the disk had the size wanted before.
Due(op) ==
    \/ pc \in {"read", "error"}
    \/ op.slot = Tpm /\ pc \in {"move", "resize", "tpm"}
    \/ op.slot \in Slots /\ op.kind = "move" /\ pc = "move" /\ op.slot \in todo
    \/ /\ op.slot \in Slots /\ op.kind = "resize"
       /\ \/ Size(op.slot) = want[op.slot].size
          \/ pc = "move" /\ op.slot \in ToResize(current)
          \/ pc = "resize" /\ op.slot \in todo

\* A task that an earlier update gave up has moved the disk of s after this one
\* had read that it was to be moved.
Overtaken(s) == s \in todo /\ CanStay(s) /\ slots[s].at = want[s].at /\ faults # 0

\* The slot s before the deletion, against what was read of it: disks that are
\* through have been moved and grown, others perhaps grown by an earlier task.
Matches(s) ==
    LET d == current.slots[s]
        moved == s \in ToMove(current) /\ ~(pc = "move" /\ s \in todo)
        grown == /\ s \in ToResize(current) /\ pc # "move"
                 /\ ~(pc = "resize" /\ s \in todo) IN
    IF IsDisk(d)
    THEN /\ IsDisk(slots[s])
         /\ moved => slots[s].at = want[s].at
         /\ ~moved => Name(slots[s]) = Name(d) /\ slots[s].opt = d.opt
         /\ \/ ~grown /\ Size(s) = d.size
            \/ s \in ToResize(current) /\ Size(s) = want[s].size
    ELSE slots[s] = d

\* After the deletion a cloud-init drive is where one is wanted, if one is, and
\* disks that can stay are at their storage and have their size.
Prepared(s) ==
    /\ s \in CloudInits(slots) \ CloudInits(want) => CloudInits(want) = {}
    /\ IsDisk(slots[s]) /\ IsDisk(want[s]) /\ Size(s) <= want[s].size =>
          slots[s].at = want[s].at /\ Size(s) = want[s].size

\* The slot s before the PUT, against what was read of it.
Known(s) ==
    LET d == current.slots[s] IN
    IF IsDisk(d)
    THEN /\ IsDisk(slots[s])
         /\ Name(slots[s]) = Name(d) /\ slots[s].opt = d.opt /\ d.size <= Size(s)
         /\ Fits(want[s], d) => slots[s].at = want[s].at /\ Size(s) = want[s].size
    ELSE \/ slots[s] = d
         \/ slots[s] = Empty /\ d.kind = "cloudinit" /\ want[s].kind # "cloudinit"

\* The slot s after the PUT.
Reached(s) ==
    \/ want[s] = Ignored
    \/ slots[s] = want[s] /\ ~IsDisk(want[s])
    \/ /\ IsDisk(want[s]) /\ IsDisk(slots[s])
       /\ slots[s].at = want[s].at /\ slots[s].opt = want[s].opt
       /\ Size(s) <= want[s].size
       /\ s \notin todo => Size(s) = want[s].size

\* How far the slot s has come.
Progress(s) ==
    /\ pc = "move" => Matches(s) \/ Overtaken(s)
    /\ pc \in {"resize", "tpm", "delete"} => Matches(s)
    /\ pc \in {"reread", "put"} => Prepared(s)
    /\ pc = "put" => Known(s)
    /\ pc \in {"grow", "ok"} => Reached(s)

\* A TPM that is there and is to be there is the one wanted.
TpmFits ==
    wantTpm.kind = "tpm" /\ tpm # Empty =>
        tpm.at = wantTpm.at /\ RightVersion(tpm)

\* How far the TPM has come.
TpmProgress ==
    /\ pc \in {"move", "resize", "tpm"} =>
          \/ current.tpm = tpm
          \/ TpmMoved(current) /\ tpm # Empty /\ tpm.at = wantTpm.at /\ faults # 0
    /\ pc = "delete" =>
          IF Tpm \in todo
          THEN /\ current.tpm = Empty /\ tpm # Empty
               /\ wantTpm.kind = "tpm" /\ wantTpm.version # "nil"
               /\ MapVersion(wantTpm.version) # tpm.version
          ELSE (current.tpm = Empty <=> tpm = Empty) /\ TpmFits
    /\ pc \in {"reread", "put"} => TpmFits
    /\ pc = "put" => (current.tpm = Empty <=> tpm = Empty)
    /\ pc \in {"grow", "ok"} => MeetsTpm /\ ~Misspelled

IInv ==
    /\ TypeOK
    /\ Listed
    /\ \A s \in Slots : Progress(s)
    /\ TpmProgress
    /\ \A op \in late : Alive(op) /\ Due(op) /\ faults # 0
    /\ \A op, l \in late : op.slot = l.slot => op = l
    /\ pc \notin {"read", "ok", "error"} => AtMostOne(CloudInits(want))
    /\ RefusedOnlyInvalid

-----------------------------------------------------------------------------
(* What the values are.                                                    *)

\* A device is told apart by its kind.
LEMMA Kinds ==
  /\ Empty.kind = "empty" /\ Ignored.kind = "ignored"
  /\ \A d \in Drives : d.kind \in {"cdrom", "cloudinit", "passthrough"} /\ d.at \in Storages
  /\ \A d \in Disks : /\ IsDisk(d) /\ d.at \in Storages /\ d.id \in Numbers /\ d.opt \in Options
                      /\ Name(d) \in Storages \X Numbers
  /\ \A d \in ReadDisks : /\ IsDisk(d) /\ d.at \in Storages /\ d.id \in Numbers
                          /\ d.opt \in Options /\ d.size \in Nat
  /\ \A d \in WantedDisks : /\ IsDisk(d) /\ d.at \in Storages /\ d.opt \in Options
                            /\ d.size \in Nat \ {0}
  /\ \A d \in TpmStates : /\ d.kind = "empty" => d = Empty
                          /\ d # Empty => /\ d.kind = "tpm" /\ d.at \in Storages
                                          /\ d.version \in Versions /\ d.data \in {Tpm, Blank}
  /\ \A d \in WantedTpm : /\ d.kind = "ignored" => d = Ignored
                          /\ d # Ignored => /\ d.kind \in {"tpm", "delete"} /\ d.at \in Storages
                                            /\ d.version \in Spellings
BY DEF Empty, Ignored, Drives, Disks, ReadDisks, WantedDisks, IsDisk, Name, TpmStates, WantedTpm

\* What the kind says of a device in a slot, of one that was read and of one
\* that is wanted.
LEMMA Shapes ==
  /\ \A d \in Devices : /\ IsDisk(d) => d \in Disks
                        /\ d.kind = "empty" => d = Empty
                        /\ ~IsDisk(d) /\ d # Empty => d \in Drives
  /\ \A d \in {Empty} \cup Drives \cup ReadDisks :
        /\ IsDisk(d) => d \in ReadDisks
        /\ d.kind = "empty" => d = Empty
        /\ ~IsDisk(d) /\ d # Empty => d \in Drives
  /\ \A d \in Wanted : /\ IsDisk(d) => d \in WantedDisks
                       /\ d.kind = "empty" => d = Empty
                       /\ d.kind = "ignored" => d = Ignored
                       /\ ~IsDisk(d) /\ d # Empty /\ d # Ignored => d \in Drives
BY Kinds DEF Devices, Wanted, IsDisk

\* What is known of the server's state when it is in order.
LEMMA Order ==
  TypeOK <=>
    /\ slots \in [Slots -> Devices]
    /\ DOMAIN volumes \subseteq Storages \X Numbers
    /\ volumes \in [DOMAIN volumes -> Volumes]
    /\ \A s \in Slots : IsDisk(slots[s]) => Name(slots[s]) \in DOMAIN volumes
    /\ \A s, t \in Slots : IsDisk(slots[s]) /\ IsDisk(slots[t]) /\ s # t
                           => Name(slots[s]) # Name(slots[t])
    /\ AtMostOne(CloudInits(slots))
    /\ tpm \in TpmStates
    /\ late \subseteq Tasks
    /\ want \in [Slots -> Wanted] /\ wantTpm \in WantedTpm
    /\ current \in [slots : [Slots -> {Empty} \cup Drives \cup ReadDisks], tpm : TpmStates]
    /\ pc \in {"read", "move", "resize", "tpm", "delete", "reread", "put", "grow"}
              \cup Returned
    /\ todo \subseteq Slots \cup {Tpm}
    /\ faults \in 0..MaxFaults
BY DEF TypeOK, InOrder, Now

-----------------------------------------------------------------------------
(* What a request does to the server.                                      *)

\* The slot s and its volume stay as they are.
Kept(s) ==
    /\ slots'[s] = slots[s]
    /\ IsDisk(slots[s]) => volumes'[Name(slots[s])] = volumes[Name(slots[s])]

\* A disk that is moved keeps its size, its data and its options.
MoveDone(s, at) ==
    /\ InOrder(Now)' /\ tpm' = tpm
    /\ IsDisk(slots'[s]) /\ slots'[s].at = at /\ slots'[s].opt = slots[s].opt
    /\ volumes'[Name(slots'[s])] = volumes[Name(slots[s])]
    /\ \A t \in Slots \ {s} : Kept(t)

\* Moving the disk of s brings it to a new volume with the old one's size and
\* data, and leaves the other slots and the order of the server alone.
LEMMA MoveEffect ==
  ASSUME TypeOK, NEW s \in Slots, NEW at \in Storages, NEW n \in Numbers, IsDisk(slots[s]),
         IsNext(n, at, DOMAIN volumes), Carried(Moved(s, at, n))
  PROVE  MoveDone(s, at)
<1> DEFINE old == Name(slots[s])
           new == <<at, n>>
<1>1. /\ slots' = [slots EXCEPT ![s].at = at, ![s].id = n]
      /\ volumes' = [m \in (DOMAIN volumes \ {old}) \cup {new} |->
                        IF m = new THEN volumes[old] ELSE volumes[m]]
      /\ tpm' = tpm
  BY DEF Carried, Moved, Now
<1>2. slots[s] \in Disks /\ old \in DOMAIN volumes /\ new \notin DOMAIN volumes
  BY Order, Shapes DEF IsNext
<1>3. /\ slots'[s] \in Disks /\ IsDisk(slots'[s]) /\ Name(slots'[s]) = new
      /\ slots'[s].at = at /\ slots'[s].opt = slots[s].opt
  BY <1>1, <1>2, Order DEF Disks, Name, IsDisk
<1>4. volumes'[new] = volumes[old]
  BY <1>1
<1>5. ASSUME NEW t \in Slots \ {s} PROVE Kept(t)
  <2>1. slots'[t] = slots[t]
    BY <1>1, Order
  <2>2. IsDisk(slots[t]) => Name(slots[t]) \in DOMAIN volumes \ {old}
    BY <1>2, <1>5, Order
  <2>3. QED BY <1>1, <1>2, <2>1, <2>2 DEF Kept
<1>6. InOrder(Now)'
  <2>1. slots' \in [Slots -> Devices]
    BY <1>1, <1>3, Order DEF Devices
  <2>2. /\ DOMAIN volumes' \subseteq Storages \X Numbers
        /\ volumes' \in [DOMAIN volumes' -> Volumes]
    BY <1>1, <1>2, Order
  <2>3. \A t \in Slots : IsDisk(slots'[t]) => Name(slots'[t]) \in DOMAIN volumes'
    BY <1>1, <1>2, <1>3, <1>5, Order DEF Kept
  <2>4. ASSUME NEW t \in Slots, NEW u \in Slots, IsDisk(slots'[t]), IsDisk(slots'[u]), t # u
        PROVE  Name(slots'[t]) # Name(slots'[u])
    BY <1>2, <1>3, <1>5, <2>4, Order DEF Kept
  <2>5. AtMostOne(CloudInits(slots'))
    BY <1>3, <1>5, Order DEF AtMostOne, CloudInits, Kept, IsDisk
  <2>6. QED BY <1>1, <2>1, <2>2, <2>3, <2>4, <2>5, Order DEF InOrder, Now
<1>7. QED BY <1>1, <1>3, <1>4, <1>5, <1>6 DEF MoveDone

\* A disk that is grown is the same but for its size.
ResizeDone(s, size) ==
    /\ InOrder(Now)' /\ tpm' = tpm /\ slots' = slots
    /\ volumes'[Name(slots[s])].size = size
    /\ volumes'[Name(slots[s])].data = volumes[Name(slots[s])].data
    /\ \A t \in Slots \ {s} : Kept(t)

\* Growing the disk of s changes the size of its volume and nothing else.
LEMMA ResizeEffect ==
  ASSUME TypeOK, NEW s \in Slots, NEW size \in Nat, IsDisk(slots[s]),
         Carried(Resized(s, size))
  PROVE  ResizeDone(s, size)
<1>1. /\ slots' = slots /\ tpm' = tpm
      /\ volumes' = [volumes EXCEPT ![Name(slots[s])].size = size]
  BY DEF Carried, Resized, Now
<1>2. DOMAIN volumes' = DOMAIN volumes /\ Name(slots[s]) \in DOMAIN volumes
  BY <1>1, Order
<1>3. /\ volumes'[Name(slots[s])] \in Volumes
      /\ volumes'[Name(slots[s])].size = size
      /\ volumes'[Name(slots[s])].data = volumes[Name(slots[s])].data
  <2>1. volumes[Name(slots[s])] \in Volumes
    BY <1>2, Order
  <2>2. QED BY <1>1, <1>2, <2>1 DEF Volumes
<1>4. \A m \in DOMAIN volumes \ {Name(slots[s])} : volumes'[m] = volumes[m]
  BY <1>1, <1>2
<1>5. \A t \in Slots \ {s} : Kept(t)
  BY <1>1, <1>4, Order DEF Kept
<1>6. volumes' \in [DOMAIN volumes' -> Volumes]
  BY <1>1, <1>2, <1>3, <1>4, Order
<1>7. InOrder(Now)'
  BY <1>1, <1>2, <1>6, Order DEF InOrder, Now
<1>8. QED BY <1>1, <1>3, <1>5, <1>7 DEF ResizeDone

\* The slots to be deleted are empty, the others as they were.
DeleteDone ==
    /\ InOrder(Now)'
    /\ tpm' = IF Tpm \in todo THEN Empty ELSE tpm
    /\ volumes' = volumes
    /\ \A s \in Slots : slots'[s] = IF s \in todo THEN Empty ELSE slots[s]

\* The deletion empties the slots and the TPM it names and takes no volume.
LEMMA DeleteEffect ==
  ASSUME TypeOK,
         Carried([Now EXCEPT !.slots = [s \in Slots |-> IF s \in todo THEN Empty ELSE @[s]],
                             !.tpm = IF Tpm \in todo THEN Empty ELSE @])
  PROVE  DeleteDone
<1>1. /\ slots' = [s \in Slots |-> IF s \in todo THEN Empty ELSE slots[s]]
      /\ tpm' = IF Tpm \in todo THEN Empty ELSE tpm
      /\ volumes' = volumes
  BY DEF Carried, Now
<1>2. /\ slots' \in [Slots -> Devices] /\ tpm' \in TpmStates
      /\ \A s \in Slots : IsDisk(slots'[s]) => slots'[s] = slots[s]
      /\ \A s \in Slots : slots'[s].kind = "cloudinit" => slots'[s] = slots[s]
  BY <1>1, Order, Kinds DEF Devices, TpmStates, IsDisk
<1>3. AtMostOne(CloudInits(slots'))
  BY <1>2, Order DEF AtMostOne, CloudInits
<1>4. InOrder(Now)'
  BY <1>1, <1>2, <1>3, Order DEF InOrder, Now
<1>5. QED BY <1>1, <1>4 DEF DeleteDone

-----------------------------------------------------------------------------
(* The PUT.                                                                *)

\* What is sent for a slot about which enough is known: nothing when it is as
\* wanted, and never a name that is not its own.
Sent(s, p) ==
    LET w == want[s] IN
    \/ p = Nothing /\ (w = Ignored \/ (slots[s] = w /\ ~IsDisk(w)))
    \/ p = Nothing /\ IsDisk(w) /\ IsDisk(slots[s]) /\ slots[s].at = w.at /\ slots[s].opt = w.opt
                   /\ Size(s) = w.size
    \/ p = Deletion /\ w = Empty
    \/ p = w /\ w \in Drives
    \/ /\ p = NewDisk(w) /\ IsDisk(w) /\ ~Fits(w, current.slots[s])
       /\ ~(IsDisk(slots[s]) /\ Size(s) <= w.size)
    \/ /\ p = SameDisk(w, slots[s]) /\ IsDisk(w) /\ IsDisk(slots[s])
       /\ slots[s].at = w.at /\ Size(s) = w.size

\* The names and sizes of disks.
LEMMA DiskTypes ==
  ASSUME TypeOK, NEW s \in Slots
  PROVE  /\ IsDisk(slots[s]) => slots[s] \in Disks /\ Size(s) \in Nat
         /\ IsDisk(current.slots[s]) => current.slots[s] \in ReadDisks /\ current.slots[s].size \in Nat
         /\ IsDisk(want[s]) => want[s] \in WantedDisks /\ want[s].size \in Nat \ {0}
<1>1. IsDisk(slots[s]) => slots[s] \in Disks /\ Name(slots[s]) \in DOMAIN volumes
  BY Order, Shapes
<1>2. IsDisk(slots[s]) => Size(s) \in Nat
  BY <1>1, Order DEF Size, Volumes
<1>3. /\ current.slots[s] \in {Empty} \cup Drives \cup ReadDisks
      /\ want[s] \in Wanted
  BY Order
<1>4. QED BY <1>1, <1>2, <1>3, Shapes, Kinds

\* What the PUT says of s, computed from what was read of it, is right for what
\* s now holds.
LEMMA ParamSent ==
  ASSUME TypeOK, NEW s \in Slots, Known(s)
  PROVE  Sent(s, Params(current)[s])
<1> DEFINE w == want[s]
           d == current.slots[s]
           p == Param(w, d)
<1>1. Params(current)[s] = p
  BY DEF Params
<1>2. /\ d \in {Empty} \cup Drives \cup ReadDisks /\ slots[s] \in Devices /\ w \in Wanted
      /\ IsDisk(slots[s]) => Size(s) \in Nat
      /\ IsDisk(w) => w.size \in Nat
      /\ IsDisk(d) => d.size \in Nat
  BY Order, DiskTypes
<1>3. CASE w = Ignored
  <2>1. p = Nothing
    BY <1>3, Kinds DEF Param, IsDisk
  <2>2. QED BY <1>1, <1>3, <2>1 DEF Sent
<1>4. CASE w = Empty
  <2>1. w # Ignored /\ ~IsDisk(w) /\ w \notin Drives
    BY <1>4, Kinds DEF IsDisk
  <2>2. p = IF d = Empty THEN Nothing ELSE Deletion
    BY <1>4, <2>1, Kinds DEF Param, IsDisk
  <2>3. d = Empty => slots[s] = Empty
    BY Kinds DEF Known, IsDisk
  <2>4. QED BY <1>1, <1>4, <2>1, <2>2, <2>3 DEF Sent
<1>5. CASE w \in Drives
  <2>1. w # Ignored /\ w # Empty /\ ~IsDisk(w) /\ w.kind \in {"cdrom", "cloudinit", "passthrough"}
    BY <1>5, Kinds DEF IsDisk
  <2>2. p = IF w = d THEN Nothing ELSE w
    BY <2>1 DEF Param
  <2>3. w = d => slots[s] = w
    BY <2>1 DEF Known
  <2>4. QED BY <1>1, <1>5, <2>1, <2>2, <2>3 DEF Sent
<1>6. CASE IsDisk(w)
  <2>1. /\ w # Ignored /\ w # Empty
        /\ w.kind \notin {"cdrom", "cloudinit", "passthrough"}
    BY <1>6, Kinds DEF IsDisk
  <2>2. p = IF ~Fits(w, d) THEN NewDisk(w)
            ELSE IF w.at = d.at /\ w.opt = d.opt THEN Nothing ELSE SameDisk(w, d)
    BY <1>6, <2>1 DEF Param
  <2>3. CASE ~Fits(w, d)
    <3>1. ~(IsDisk(slots[s]) /\ Size(s) <= w.size)
      <4>1. CASE IsDisk(d)
        BY <1>2, <1>6, <2>3, <4>1 DEF Known, Fits
      <4>2. CASE ~IsDisk(d)
        BY <4>2, Kinds DEF Known, IsDisk
      <4>3. QED BY <4>1, <4>2
    <3>2. QED BY <1>1, <1>6, <2>2, <2>3, <3>1 DEF Sent
  <2>4. CASE Fits(w, d)
    <3>1. /\ IsDisk(d) /\ IsDisk(slots[s]) /\ slots[s].at = w.at /\ Size(s) = w.size
          /\ slots[s].opt = d.opt /\ Name(slots[s]) = Name(d)
      BY <2>4 DEF Known, Fits
    <3>2. slots[s].id = d.id /\ slots[s].at = d.at
      BY <3>1 DEF Name
    <3>3. SameDisk(w, d) = SameDisk(w, slots[s])
      BY <3>2 DEF SameDisk
    <3>4. QED BY <1>1, <1>6, <2>2, <2>4, <3>1, <3>3 DEF Sent
  <2>5. QED BY <2>3, <2>4
<1>7. QED BY <1>2, <1>3, <1>4, <1>5, <1>6, Shapes

\* What the PUT makes of a slot: it leaves it alone, or it becomes as wanted, but
\* that a new disk may be made small.
PutSlot(s) ==
    LET w == want[s] IN
    \/ w = Ignored /\ Kept(s)
    \/ w # Ignored /\ ~IsDisk(w) /\ slots'[s] = w
    \/ /\ IsDisk(w) /\ IsDisk(slots'[s]) /\ slots'[s].at = w.at /\ slots'[s].opt = w.opt
       /\ IsDisk(slots[s]) /\ Size(s) = w.size
       /\ Name(slots'[s]) = Name(slots[s])
       /\ volumes'[Name(slots'[s])] = volumes[Name(slots[s])]
    \/ /\ IsDisk(w) /\ IsDisk(slots'[s]) /\ slots'[s].at = w.at /\ slots'[s].opt = w.opt
       /\ ~Fits(w, current.slots[s]) /\ ~(IsDisk(slots[s]) /\ Size(s) <= w.size)
       /\ volumes'[Name(slots'[s])] = [size |-> IF w.size % Gibibyte = 0 THEN w.size ELSE 0,
                                       data |-> Blank]

TpmAfter ==
    LET p == TpmParam(current) IN
    tpm' = CASE p.kind = "tpm" -> p [] p.kind = "deletion" -> Empty [] OTHER -> tpm

PutDone ==
    /\ InOrder(Now)' /\ TpmAfter
    /\ \A s \in Slots : PutSlot(s)

\* Parameters are told apart by their kinds.
LEMMA ParamKinds ==
  /\ Nothing.kind = "nothing" /\ Deletion.kind = "deletion"
  /\ \A w : /\ NewDisk(w).kind = "new" /\ NewDisk(w).at = w.at /\ NewDisk(w).opt = w.opt
            /\ NewDisk(w).size = IF w.size % Gibibyte = 0 THEN w.size ELSE 0
  /\ \A w, d : /\ SameDisk(w, d).kind = "disk" /\ SameDisk(w, d).at = w.at
               /\ SameDisk(w, d).id = d.id /\ SameDisk(w, d).opt = w.opt
BY DEF Nothing, Deletion, NewDisk, SameDisk

\* The volumes of new disks get names that no other volume has.
LEMMA NewNames ==
  ASSUME NEW params, NEW f \in Numberings(params)
  PROVE  /\ DOMAIN f = {s \in Slots : params[s].kind = "new"}
         /\ \A s \in DOMAIN f : f[s] \in Numbers /\ <<params[s].at, f[s]>> \notin DOMAIN volumes
         /\ \A s, t \in DOMAIN f : s # t => <<params[s].at, f[s]>> # <<params[t].at, f[t]>>
BY DEF Numberings, IsNext

\* What becomes of the volumes: those there were stay, and each new disk has one.
LEMMA NewVolumes ==
  ASSUME NEW params, NEW p, NEW f \in Numberings(params), Carried(After(params, p, f))
  PROVE  /\ volumes' = [n \in DOMAIN volumes' |-> volumes'[n]]
         /\ DOMAIN volumes' = DOMAIN volumes \cup {<<params[s].at, f[s]>> : s \in DOMAIN f}
         /\ \A n \in DOMAIN volumes : volumes'[n] = volumes[n]
         /\ \A s \in DOMAIN f :
               volumes'[<<params[s].at, f[s]>>] = [size |-> params[s].size, data |-> Blank]
<1> DEFINE new(s) == <<params[s].at, f[s]>>
           of(n) == CHOOSE s \in DOMAIN f : new(s) = n
<1>1. volumes' = [n \in DOMAIN volumes \cup {new(s) : s \in DOMAIN f} |->
                     IF n \in DOMAIN volumes THEN volumes[n]
                     ELSE [size |-> params[of(n)].size, data |-> Blank]]
  BY DEF Carried, After
<1>2. ASSUME NEW s \in DOMAIN f PROVE of(new(s)) = s
  <2>1. \A t \in DOMAIN f : new(t) = new(s) => t = s
    BY DEF Numberings, IsNext
  <2> HIDE DEF new
  <2>2. \E t \in DOMAIN f : new(t) = new(s)
    OBVIOUS
  <2>3. of(new(s)) \in DOMAIN f /\ new(of(new(s))) = new(s)
    BY <2>2, Zenon
  <2>4. QED BY <2>1, <2>3
<1>3. ASSUME NEW s \in DOMAIN f
      PROVE  volumes'[new(s)] = [size |-> params[s].size, data |-> Blank]
  <2>1. new(s) \notin DOMAIN volumes
    BY NewNames
  <2> HIDE DEF new, of
  <2>2. QED BY <1>1, <1>2, <2>1
<1> HIDE DEF of
<1>4. QED BY <1>1, <1>3

\* A PUT the server carries out gives every slot what is wanted of it: a disk that
\* stays keeps its volume, a new one gets one of its own.
LEMMA PutEffect ==
  ASSUME TypeOK, \A s \in Slots : Known(s), NEW f \in Numberings(Params(current)),
         Carried(After(Params(current), TpmParam(current), f)),
         Accepts(Params(current), TpmParam(current), After(Params(current), TpmParam(current), f))
  PROVE  PutDone
<1> DEFINE ps == Params(current)
           new(s) == <<ps[s].at, f[s]>>
<1>1. slots' = [s \in Slots |-> Given(s, ps[s], f)] /\ TpmAfter
  BY DEF Carried, After, TpmAfter
<1>2. /\ DOMAIN f = {s \in Slots : ps[s].kind = "new"}
      /\ \A s \in DOMAIN f : f[s] \in Numbers /\ new(s) \notin DOMAIN volumes
      /\ \A s, t \in DOMAIN f : s # t => new(s) # new(t)
  BY NewNames
<1>3. /\ volumes' = [n \in DOMAIN volumes' |-> volumes'[n]]
      /\ DOMAIN volumes' = DOMAIN volumes \cup {new(s) : s \in DOMAIN f}
      /\ \A n \in DOMAIN volumes : volumes'[n] = volumes[n]
      /\ \A s \in DOMAIN f : volumes'[new(s)] = [size |-> ps[s].size, data |-> Blank]
  BY NewVolumes
<1>4. ASSUME NEW s \in Slots
      PROVE  /\ Sent(s, ps[s])
             /\ slots[s] \in Devices /\ want[s] \in Wanted
             /\ IsDisk(slots[s]) => slots[s] \in Disks /\ Name(slots[s]) \in DOMAIN volumes
             /\ IsDisk(want[s]) => want[s] \in WantedDisks /\ want[s].size \in Nat \ {0}
  BY ParamSent, DiskTypes, Order
<1> HIDE DEF ps

\* Each slot: what it gets, of which type, and which name.
<1>5. ASSUME NEW s \in Slots
      PROVE  /\ PutSlot(s) /\ slots'[s] \in Devices
             /\ IsDisk(slots'[s]) =>
                   \/ IsDisk(slots[s]) /\ Name(slots'[s]) = Name(slots[s])
                   \/ s \in DOMAIN f /\ Name(slots'[s]) = new(s)
             /\ s \in DOMAIN f => ps[s].size \in Nat /\ ps[s].at \in Storages
  <2>0. /\ slots'[s] = Given(s, ps[s], f)
        /\ s \in DOMAIN f <=> ps[s].kind = "new"
        /\ Sent(s, ps[s])
    BY <1>1, <1>2, <1>4
  <2>1. CASE ps[s] = Nothing
    <3>1. slots'[s] = slots[s] /\ s \notin DOMAIN f /\ Kept(s)
      BY <1>3, <1>4, <2>0, <2>1, ParamKinds DEF Given, Kept
    <3>2. PutSlot(s)
      BY <1>3, <1>4, <2>0, <2>1, <3>1, ParamKinds, Kinds DEF Sent, PutSlot, Kept, IsDisk
    <3>3. QED BY <1>4, <3>1, <3>2
  <2>2. CASE ps[s] = Deletion
    <3>1. slots'[s] = Empty /\ s \notin DOMAIN f /\ want[s] = Empty
      BY <2>0, <2>2, ParamKinds, Kinds DEF Given, Sent, IsDisk
    <3>2. QED BY <3>1, Kinds DEF PutSlot, Devices, IsDisk
  <2>3. CASE ps[s] = want[s] /\ want[s] \in Drives
    <3>1. slots'[s] = want[s] /\ s \notin DOMAIN f
      BY <2>0, <2>3, Kinds DEF Given
    <3>2. QED BY <2>3, <3>1, Kinds DEF PutSlot, Devices, IsDisk
  <2>4. CASE ps[s] = NewDisk(want[s]) /\ IsDisk(want[s])
    <3> DEFINE w == want[s]
    <3>1. /\ slots'[s] = [kind |-> "disk", at |-> w.at, id |-> f[s], opt |-> w.opt]
          /\ s \in DOMAIN f /\ new(s) = <<w.at, f[s]>>
          /\ ps[s].size = IF w.size % Gibibyte = 0 THEN w.size ELSE 0
      BY <2>0, <2>4, ParamKinds DEF Given
    <3>2. /\ w \in WantedDisks /\ w.size \in Nat /\ f[s] \in Numbers
          /\ w.at \in Storages /\ w.opt \in Options
      BY <1>2, <1>4, <2>4, <3>1, Kinds
    <3>3. slots'[s] \in Disks /\ IsDisk(slots'[s]) /\ Name(slots'[s]) = new(s)
      BY <3>1, <3>2 DEF Disks, IsDisk, Name
    <3>4. volumes'[Name(slots'[s])] = [size |-> IF w.size % Gibibyte = 0 THEN w.size ELSE 0,
                                       data |-> Blank]
      <4>1. volumes'[new(s)] = [size |-> ps[s].size, data |-> Blank]
        BY <1>3, <3>1
      <4> HIDE DEF new
      <4>2. QED BY <3>1, <3>3, <4>1
    <3>5. ~Fits(w, current.slots[s]) /\ ~(IsDisk(slots[s]) /\ Size(s) <= w.size)
      BY <2>0, <2>4, ParamKinds, Kinds DEF Sent, IsDisk
    <3>6. ps[s].size \in Nat /\ ps[s].at \in Storages
      BY <2>4, <3>1, <3>2, ParamKinds
    <3>7. PutSlot(s)
      BY <2>4, <3>1, <3>3, <3>4, <3>5 DEF PutSlot
    <3>8. QED BY <3>1, <3>3, <3>6, <3>7 DEF Devices
  <2>5. CASE /\ ps[s] = SameDisk(want[s], slots[s]) /\ IsDisk(want[s]) /\ IsDisk(slots[s])
             /\ slots[s].at = want[s].at /\ Size(s) = want[s].size
    <3>1. slots'[s] = ps[s] /\ s \notin DOMAIN f
      BY <2>0, <2>5, ParamKinds DEF Given
    <3>2. /\ slots'[s] = [kind |-> "disk", at |-> want[s].at, id |-> slots[s].id, opt |-> want[s].opt]
          /\ slots[s].id \in Numbers /\ want[s].at \in Storages /\ want[s].opt \in Options
      BY <1>4, <2>5, <3>1, Kinds DEF SameDisk
    <3>3. slots'[s] \in Disks /\ IsDisk(slots'[s]) /\ Name(slots'[s]) = Name(slots[s])
      BY <2>5, <3>2 DEF Disks, IsDisk, Name
    <3>4. volumes'[Name(slots'[s])] = volumes[Name(slots[s])]
      BY <1>3, <1>4, <2>5, <3>3
    <3>5. QED BY <2>5, <3>1, <3>2, <3>3, <3>4 DEF PutSlot, Devices
  <2>6. QED BY <2>0, <2>1, <2>2, <2>3, <2>4, <2>5 DEF Sent
<1>6. slots' \in [Slots -> Devices]
  BY <1>1, <1>5
<1>7. DOMAIN volumes' \subseteq Storages \X Numbers
  BY <1>2, <1>3, <1>5, Order
<1>8. volumes' \in [DOMAIN volumes' -> Volumes]
  <2>1. ASSUME NEW s \in DOMAIN f PROVE volumes'[new(s)] \in Volumes
    <3>1. ps[s].size \in Nat
      BY <1>2, <1>5
    <3>2. volumes'[new(s)] = [size |-> ps[s].size, data |-> Blank]
      BY <1>3
    <3> HIDE DEF new
    <3>3. QED BY <3>1, <3>2 DEF Volumes
  <2>2. \A n \in DOMAIN volumes' : volumes'[n] \in Volumes
    BY <1>3, <2>1, Order
  <2>3. QED BY <1>3, <2>2
<1>9. \A s \in Slots : IsDisk(slots'[s]) => Name(slots'[s]) \in DOMAIN volumes'
  BY <1>3, <1>4, <1>5
<1>10. ASSUME NEW s \in Slots, NEW t \in Slots, IsDisk(slots'[s]), IsDisk(slots'[t]), s # t
       PROVE  Name(slots'[s]) # Name(slots'[t])
  <2>1. \/ IsDisk(slots[s]) /\ Name(slots'[s]) = Name(slots[s])
        \/ s \in DOMAIN f /\ Name(slots'[s]) = new(s)
    BY <1>5, <1>10
  <2>2. \/ IsDisk(slots[t]) /\ Name(slots'[t]) = Name(slots[t])
        \/ t \in DOMAIN f /\ Name(slots'[t]) = new(t)
    BY <1>5, <1>10
  <2> HIDE DEF new
  <2>3. QED BY <1>2, <1>4, <1>10, <2>1, <2>2, Order
<1>11. AtMostOne(CloudInits(slots'))
  BY DEF Accepts, Carried
<1>12. tpm' \in TpmStates
  <2> DEFINE p == TpmParam(current)
  <2>1. p.kind = "tpm" => p \in TpmStates
    <3>1. SUFFICES ASSUME p.kind = "tpm" PROVE p \in TpmStates
      OBVIOUS
    <3>2. wantTpm.kind = "tpm" /\ p.version \in Versions
      BY <3>1, Order, Kinds DEF TpmParam, Accepts, Deletion, Nothing
    <3>3. p = [kind |-> "tpm", at |-> wantTpm.at, version |-> MapVersion(wantTpm.version),
               data |-> Blank]
      BY <3>1, <3>2 DEF TpmParam, Nothing
    <3>4. wantTpm.at \in Storages
      BY <3>2, Order, Kinds
    <3>5. QED BY <3>2, <3>3, <3>4 DEF TpmStates
  <2>2. QED BY <1>1, <2>1, Order DEF TpmAfter, TpmStates
<1>13. InOrder(Now)'
  BY <1>6, <1>7, <1>8, <1>9, <1>10, <1>11, <1>12 DEF InOrder, Now
<1>14. QED BY <1>1, <1>5, <1>13 DEF PutDone

\* When enough is known the server takes the PUT: a disk is named as it is, and
\* a cloud-init drive that changes its slot is gone from the old one.
LEMMA PutAccepted ==
  ASSUME TypeOK, \A s \in Slots : Known(s) /\ Prepared(s), AtMostOne(CloudInits(want)),
         ~Misspelled, NEW f \in Numberings(Params(current))
  PROVE  Accepts(Params(current), TpmParam(current),
                 After(Params(current), TpmParam(current), f))
<1> DEFINE ps == Params(current)
           h == After(ps, TpmParam(current), f)
<1>1. h.slots = [s \in Slots |-> Given(s, ps[s], f)]
  BY DEF After
<1>2. ASSUME NEW s \in Slots PROVE Sent(s, ps[s]) /\ want[s] \in Wanted
  BY ParamSent, Order
<1> HIDE DEF ps, h
<1>3. ASSUME NEW s \in Slots, IsDisk(ps[s])
      PROVE  Name(ps[s]) \in DOMAIN volumes
  <2>1. /\ ps[s] = SameDisk(want[s], slots[s]) /\ IsDisk(slots[s])
        /\ slots[s].at = want[s].at
    BY <1>2, <1>3, ParamKinds, Kinds DEF Sent, IsDisk
  <2>2. Name(ps[s]) = Name(slots[s])
    BY <2>1, ParamKinds DEF Name
  <2>3. QED BY <2>1, <2>2, Order
<1>4. ASSUME NEW s \in Slots, h.slots[s].kind = "cloudinit"
      PROVE  s \in CloudInits(want) \/ (s \in CloudInits(slots) /\ want[s].kind # "cloudinit")
  <2>1. Given(s, ps[s], f).kind = "cloudinit"
    BY <1>1, <1>4
  <2>2. CASE ps[s] = Nothing
    <3>1. slots[s].kind = "cloudinit"
      BY <2>1, <2>2, ParamKinds DEF Given
    <3>2. QED BY <3>1 DEF CloudInits
  <2>3. CASE ps[s] = Deletion
    BY <2>1, <2>3, ParamKinds, Kinds DEF Given
  <2>4. CASE ps[s] = want[s] /\ want[s] \in Drives
    BY <2>1, <2>4, Kinds DEF Given, CloudInits
  <2>5. CASE ps[s] = NewDisk(want[s])
    BY <2>1, <2>5, ParamKinds DEF Given
  <2>6. CASE ps[s] = SameDisk(want[s], slots[s])
    BY <2>1, <2>6, ParamKinds DEF Given
  <2>7. QED BY <1>2, <2>2, <2>3, <2>4, <2>5, <2>6 DEF Sent
<1>5. AtMostOne(CloudInits(h.slots))
  <2>1. SUFFICES ASSUME NEW s \in CloudInits(h.slots), NEW t \in CloudInits(h.slots)
                 PROVE  s = t
    BY DEF AtMostOne
  <2>2. /\ s \in Slots /\ t \in Slots
        /\ s \in CloudInits(want) \/ (s \in CloudInits(slots) /\ want[s].kind # "cloudinit")
        /\ t \in CloudInits(want) \/ (t \in CloudInits(slots) /\ want[t].kind # "cloudinit")
    BY <1>4, <2>1 DEF CloudInits
  <2>3. \A u \in CloudInits(slots) : want[u].kind # "cloudinit" => CloudInits(want) = {}
    BY DEF Prepared, CloudInits
  <2>4. AtMostOne(CloudInits(slots))
    BY Order
  <2>5. QED BY <2>2, <2>3, <2>4 DEF AtMostOne
<1>6. TpmParam(current).kind = "tpm" => TpmParam(current).version \in Versions
  <2>1. SUFFICES ASSUME TpmParam(current).kind = "tpm"
                 PROVE  TpmParam(current).version \in Versions
    OBVIOUS
  <2>2. /\ wantTpm.kind = "tpm"
        /\ TpmParam(current).version = MapVersion(wantTpm.version)
    BY <2>1 DEF TpmParam, Deletion, Nothing
  <2>3. wantTpm.version # "1.2"
    BY <2>2 DEF Misspelled
  <2>4. QED BY <2>2, <2>3 DEF MapVersion, Versions
<1>7. QED BY <1>3, <1>5, <1>6 DEF Accepts, ps, h

-----------------------------------------------------------------------------
(* The steps of the update.                                                *)

\* The lists depend on what is wanted and what was read of the slots.
LEMMA SameLists ==
  ASSUME want' = want, current'.slots = current.slots
  PROVE  /\ ToMove(current)' = ToMove(current) /\ ToResize(current)' = ToResize(current)
         /\ ToGrow(current)' = ToGrow(current)
         /\ CloudInitRemove(current)' = CloudInitRemove(current)
         /\ CloudInits(want)' = CloudInits(want)
BY DEF ToMove, ToResize, ToGrow, CloudInitRemove, CloudInits, Fits, IsDisk

\* What the operations of an update are.
LEMMA Operations ==
  /\ \A k, s : Op(k, s).kind = k /\ Op(k, s).slot = s
  /\ \A s \in Slots : Op("move", s) \in Tasks /\ Op("resize", s) \in Tasks /\ s # Tpm
  /\ Op("move", Tpm) \in Tasks
  /\ \A op \in Tasks : \/ op.slot = Tpm /\ op.slot \notin Slots
                       \/ op.slot \in Slots /\ op.slot # Tpm /\ op.kind \in {"move", "resize"}
BY QemuDisksAssumption DEF Tasks, Op

\* A task goes on with what it works on while that is left alone.
LEMMA Elsewhere ==
  ASSUME TypeOK, NEW op \in late, Alive(op), UNCHANGED <<want, wantTpm>>,
         IF op.slot = Tpm THEN tpm' = tpm ELSE Kept(op.slot)
  PROVE  Alive(op)' /\ (op.slot \in Slots => Size(op.slot)' = Size(op.slot))
<1>1. op \in Tasks
  BY DEF TypeOK
<1>2. CASE op.slot = Tpm
  BY <1>1, <1>2, Operations DEF Alive, RightVersion, MapVersion
<1>3. CASE op.slot # Tpm
  <2>1. Kept(op.slot) /\ CanStay(op.slot)
    BY <1>3 DEF Alive
  <2>2. slots'[op.slot] = slots[op.slot] /\ Size(op.slot)' = Size(op.slot)
    BY <2>1 DEF Kept, CanStay, Size
  <2>3. QED BY <1>3, <2>1, <2>2 DEF Alive, CanStay, IsDisk
<1>4. QED BY <1>2, <1>3

\* So do all of them while the server is left alone, or changed in another slot.
LEMMA AllElsewhere ==
  ASSUME TypeOK, \A op \in late : Alive(op), UNCHANGED <<want, wantTpm>>,
         \/ UNCHANGED server
         \/ \E s \in Slots : /\ tpm' = tpm /\ \A t \in Slots \ {s} : Kept(t)
                             /\ \A op \in late : op.slot # s
         \/ UNCHANGED <<slots, volumes>> /\ \A op \in late : op.slot # Tpm
  PROVE  \A op \in late : Alive(op)' /\ (op.slot \in Slots => Size(op.slot)' = Size(op.slot))
<1> SUFFICES ASSUME NEW op \in late
             PROVE  IF op.slot = Tpm THEN tpm' = tpm ELSE Kept(op.slot)
  BY Elsewhere
<1>1. op \in Tasks
  BY DEF TypeOK
<1>2. QED BY <1>1, Operations DEF Kept, server

\* Nothing has to be known of an update that has failed, but of what still runs.
LEMMA Failure ==
  ASSUME TypeOK, InOrder(Now)', pc' = "error", UNCHANGED <<want, wantTpm, current, todo>>,
         faults' \in 0..MaxFaults, faults' # 0 \/ Misspelled,
         late' \subseteq Tasks, \A op \in late' : Alive(op)' /\ faults' # 0,
         \A op, l \in late' : op.slot = l.slot => op = l
  PROVE  IInv'
<1>1. TypeOK'
  BY DEF TypeOK, Returned
<1>2. Listed' /\ TpmProgress' /\ (\A s \in Slots : Progress(s)')
  BY DEF Listed, TpmProgress, Progress
<1>3. RefusedOnlyInvalid'
  BY DEF RefusedOnlyInvalid, Misspelled
<1>4. \A op \in late' : Due(op)'
  BY DEF Due
<1>5. QED BY <1>1, <1>2, <1>3, <1>4 DEF IInv

\* A request succeeds, or it fails and the server is in order, provided that it
\* is one it accepts and that it leaves the server in order.
LEMMA Outcome ==
  ASSUME IInv, NEW accepted, NEW h, NEW next, NEW rest, Request(accepted, h, next, rest),
         faults = 0 /\ ~Misspelled => accepted,
         accepted /\ Carried(h) => InOrder(Now)' /\ \A op \in late : Alive(op)'
  PROVE  /\ UNCHANGED <<want, wantTpm, current>>
         /\ \/ /\ accepted /\ Carried(h) /\ pc' = next /\ todo' = rest
               /\ UNCHANGED <<late, faults>>
            \/ IInv'
<1>0. /\ TypeOK /\ faults \in 0..MaxFaults /\ MaxFaults \in Nat /\ late \subseteq Tasks
      /\ \A op \in late : Alive(op) /\ faults # 0
      /\ \A op, l \in late : op.slot = l.slot => op = l
  BY QemuDisksAssumption DEF IInv, TypeOK
<1>1. \/ accepted /\ Carried(h) /\ pc' = next /\ todo' = rest /\ faults' = faults
      \/ ~accepted /\ pc' = "error" /\ UNCHANGED <<server, todo, faults>>
      \/ /\ faults < MaxFaults /\ faults' = faults + 1 /\ pc' = "error"
         /\ UNCHANGED server \/ (accepted /\ Carried(h))
         /\ UNCHANGED todo
  BY DEF Request, Carried
<1>2. UNCHANGED <<late, want, wantTpm, current>>
  BY DEF Request
<1>3. UNCHANGED server => InOrder(Now)' /\ \A op \in late : Alive(op)'
  <2>1. UNCHANGED server => \A op \in late : Alive(op)'
    BY <1>0, <1>2, AllElsewhere
  <2>2. QED BY <1>0, <2>1 DEF TypeOK, InOrder, Now, server
<1>5. CASE ~accepted /\ pc' = "error" /\ UNCHANGED <<server, todo, faults>>
  BY <1>0, <1>2, <1>3, <1>5, Failure
<1>6. CASE /\ faults < MaxFaults /\ faults' = faults + 1 /\ pc' = "error"
           /\ UNCHANGED server \/ (accepted /\ Carried(h))
           /\ UNCHANGED todo
  <2>1. faults' \in 0..MaxFaults /\ faults' # 0
    BY <1>0, <1>6
  <2>2. InOrder(Now)' /\ \A op \in late : Alive(op)'
    BY <1>3, <1>6
  <2>3. QED BY <1>0, <1>2, <1>6, <2>1, <2>2, Failure
<1>7. QED BY <1>1, <1>2, <1>5, <1>6

\* So does a task, or it is given up and goes on.
LEMMA TaskOutcome ==
  ASSUME IInv, NEW op \in Tasks, NEW h, NEW next, NEW rest, Run(op, h, next, rest),
         faults = 0 /\ ~Misspelled => Possible(op),
         Possible(op) => Alive(op),
         Possible(op) /\ Carried(h) => InOrder(Now)' /\ \A l \in late : Alive(l)'
  PROVE  /\ UNCHANGED <<want, wantTpm, current>>
         /\ \/ /\ Possible(op) /\ Carried(h) /\ pc' = next /\ todo' = rest
               /\ UNCHANGED <<late, faults>>
            \/ IInv'
<1>1. CASE Request(Possible(op), h, next, rest)
  <2> DEFINE accepted == Possible(op)
  <2>1. /\ Request(accepted, h, next, rest) /\ (faults = 0 /\ ~Misspelled => accepted)
        /\ accepted /\ Carried(h) => InOrder(Now)' /\ \A l \in late : Alive(l)'
    BY <1>1
  <2> HIDE DEF accepted
  <2>2. /\ UNCHANGED <<want, wantTpm, current>>
        /\ \/ /\ accepted /\ Carried(h) /\ pc' = next /\ todo' = rest
              /\ UNCHANGED <<late, faults>>
           \/ IInv'
    BY <2>1, Outcome
  <2>3. QED BY <2>2 DEF accepted
<1>2. CASE /\ Possible(op) /\ faults < MaxFaults
           /\ late' = late \cup {op} /\ faults' = faults + 1 /\ pc' = "error"
           /\ UNCHANGED <<server, want, wantTpm, current, todo>>
  <2>1. /\ TypeOK /\ faults' \in 0..MaxFaults /\ faults' # 0 /\ late' \subseteq Tasks
        /\ \A l \in late : Alive(l)
        /\ \A l, m \in late' : l.slot = m.slot => l = m
    BY <1>2, QemuDisksAssumption DEF IInv, TypeOK, Possible
  <2>2. InOrder(Now)'
    BY <1>2, <2>1 DEF TypeOK, InOrder, Now, server
  <2>3. Alive(op)'
    <3>1. Alive(op)
      BY <1>2
    <3>2. QED BY <1>2, <3>1 DEF Alive, CanStay, Size, RightVersion, MapVersion, server
  <2>4. \A l \in late : Alive(l)'
    BY <1>2, <2>1, AllElsewhere
  <2>5. QED BY <1>2, <2>1, <2>2, <2>3, <2>4, Failure
<1>3. QED BY <1>1, <1>2 DEF Run

\* An update that is at the same step was not refused before it.
LEMMA SameRefusal ==
  ASSUME RefusedOnlyInvalid, UNCHANGED <<want, wantTpm, current, pc, faults>>
  PROVE  RefusedOnlyInvalid'
BY DEF RefusedOnlyInvalid, Valid, CloudInits, Misspelled

\* Whether a TPM is to be moved depends on what is wanted and what was read of it.
LEMMA SameMove ==
  ASSUME wantTpm' = wantTpm, current'.tpm = current.tpm
  PROVE  TpmMoved(current)' <=> TpmMoved(current)
BY DEF TpmMoved, TpmStays, TpmReplaced, MapVersion

\* A disk is moved, and nothing else changes of it nor of other slots.
LEMMA MoveStep == IInv /\ Move => IInv'
<1> SUFFICES ASSUME IInv, Move PROVE IInv'
  OBVIOUS
<1>0. /\ TypeOK /\ pc = "move" /\ todo \subseteq ToMove(current)
      /\ \A s \in Slots : Matches(s) \/ Overtaken(s)
      /\ \A op \in late : op \in Tasks /\ Alive(op) /\ Due(op) /\ faults # 0
  BY DEF IInv, TypeOK, Listed, Progress, Move, ListDone
<1>1. ASSUME NEW s \in todo, NEW n \in Numbers, IsNext(n, want[s].at, DOMAIN volumes),
             Run(Op("move", s), Moved(s, want[s].at, n), "move", todo \ {s})
      PROVE  IInv'
  <2>1. /\ s \in Slots /\ s \in ToMove(current) /\ want[s].at \in Storages
        /\ IsDisk(want[s]) /\ IsDisk(current.slots[s]) /\ want[s].at # current.slots[s].at
        /\ want[s].size >= current.slots[s].size
        /\ want[s].size \in Nat /\ current.slots[s].size \in Nat
    BY <1>0, <1>1, DiskTypes, Kinds DEF ToMove, Fits
  <2> DEFINE op == Op("move", s)
  <2>a. op \in Tasks /\ op.slot = s /\ op.kind = "move" /\ s # Tpm
    BY <2>1, Operations
  <2> HIDE DEF op
  <2>b. /\ Matches(s) => IsDisk(slots[s]) /\ slots[s].at # want[s].at /\ CanStay(s)
        /\ Overtaken(s) => faults # 0 /\ slots[s].at = want[s].at
    <3>1. Matches(s) => /\ IsDisk(slots[s]) /\ Name(slots[s]) = Name(current.slots[s])
                        /\ Size(s) \in {current.slots[s].size, want[s].size}
      BY <1>0, <1>1, <2>1 DEF Matches
    <3>2. QED BY <1>0, <2>1, <3>1 DEF Name, CanStay, Overtaken
  <2>2. /\ faults = 0 => Possible(op)
        /\ Possible(op) => /\ CanStay(s) /\ slots[s].at # want[s].at /\ Alive(op) /\ Matches(s)
                           /\ \A l \in late : l.slot # s
    <3>1. Possible(op) <=> /\ \A l \in late : l.slot # s
                           /\ IsDisk(slots[s]) /\ slots[s].at # want[s].at
      BY <2>1, <2>a DEF Possible
    <3>2. QED BY <1>0, <2>1, <2>a, <2>b, <3>1 DEF Alive
  <2>3. Possible(op) /\ Carried(Moved(s, want[s].at, n)) => MoveDone(s, want[s].at)
    BY <1>0, <1>1, <2>1, <2>2, MoveEffect DEF CanStay
  <2>c. UNCHANGED <<want, wantTpm>> /\ Possible(op) /\ MoveDone(s, want[s].at) =>
           \A l \in late : Alive(l)' /\ (l.slot \in Slots => Size(l.slot)' = Size(l.slot))
    BY <1>0, <2>1, <2>2, AllElsewhere DEF MoveDone
  <2>4. /\ UNCHANGED <<want, wantTpm, current>>
        /\ \/ /\ Possible(op) /\ Carried(Moved(s, want[s].at, n))
              /\ pc' = "move" /\ todo' = todo \ {s} /\ UNCHANGED <<late, faults>>
           \/ IInv'
    <3>1. Run(op, Moved(s, want[s].at, n), "move", todo \ {s})
      BY <1>1 DEF op
    <3>2. UNCHANGED <<want, wantTpm>>
      BY <3>1 DEF Run, Request
    <3>3. Possible(op) /\ Carried(Moved(s, want[s].at, n)) =>
             InOrder(Now)' /\ \A l \in late : Alive(l)'
      BY <2>3, <2>c, <3>2 DEF MoveDone
    <3>4. QED BY <2>2, <2>a, <3>1, <3>3, TaskOutcome
  <2>5. SUFFICES ASSUME Possible(op), MoveDone(s, want[s].at), pc' = "move", todo' = todo \ {s},
                        UNCHANGED <<late, faults>>
                 PROVE  IInv'
    BY <2>3, <2>4
  <2>6. TypeOK'
    BY <1>0, <2>4, <2>5 DEF TypeOK, MoveDone
  <2>7. ASSUME NEW t \in Slots PROVE Matches(t)' \/ Overtaken(t)'
    <3>1. CASE t = s
      <4>1. /\ IsDisk(current.slots[s])
            /\ \/ Size(s) = current.slots[s].size
               \/ s \in ToResize(current) /\ Size(s) = want[s].size
        BY <1>0, <2>1, <2>2, <2>5 DEF Matches
      <4>2. Size(s)' = Size(s)
        BY <2>5 DEF MoveDone, Size
      <4>3. QED BY <2>1, <2>4, <2>5, <3>1, <4>1, <4>2, SameLists DEF Matches, MoveDone
    <3>2. CASE t # s
      <4>1. Kept(t) /\ (Matches(t) \/ Overtaken(t))
        BY <1>0, <2>5, <2>7, <3>2 DEF MoveDone
      <4>2. slots'[t] = slots[t] /\ (IsDisk(slots[t]) => Size(t)' = Size(t))
        BY <4>1 DEF Kept, Size
      <4>3. Matches(t) => Matches(t)'
        BY <1>0, <2>4, <2>5, <3>2, <4>2, SameLists DEF Matches
      <4>4. Overtaken(t) => Overtaken(t)'
        BY <2>4, <2>5, <3>2, <4>2 DEF Overtaken, CanStay
      <4>5. QED BY <4>1, <4>3, <4>4
    <3>3. QED BY <3>1, <3>2
  <2>8. Listed' /\ (\A t \in Slots : Progress(t)')
    BY <1>0, <2>4, <2>5, <2>7, SameLists DEF Listed, Progress
  <2>9. TpmProgress'
    BY <1>0, <2>4, <2>5, SameMove DEF IInv, TpmProgress, MoveDone
  <2>d. ASSUME NEW l \in late PROVE Alive(l)' /\ Due(l)'
    <3>1. /\ Alive(l)' /\ Due(l) /\ l.slot # s
          /\ (l.slot \in Slots => Size(l.slot)' = Size(l.slot))
      BY <1>0, <2>c, <2>2, <2>4, <2>5
    <3>2. QED BY <1>0, <2>4, <2>5, <3>1, SameLists DEF Due
  <2>10. QED BY <1>0, <2>4, <2>5, <2>6, <2>8, <2>9, <2>d, SameLists DEF IInv, RefusedOnlyInvalid
<1>2. CASE ListDone("move", "resize", ToResize(current))
  <2>1. /\ pc' = "resize" /\ todo = {} /\ todo' = ToResize(current)
        /\ UNCHANGED <<server, late, want, wantTpm, current, faults>>
    BY <1>2 DEF ListDone
  <2>2. TypeOK'
    BY <1>0, <2>1 DEF TypeOK, InOrder, Now, server, ToResize
  <2>3. ASSUME NEW t \in Slots PROVE Matches(t)'
    BY <1>0, <2>1, <2>3, SameLists DEF Matches, Overtaken, Size, server
  <2>4. Listed' /\ (\A t \in Slots : Progress(t)')
    BY <2>1, <2>3, SameLists DEF Listed, Progress
  <2>5. TpmProgress'
    BY <1>0, <2>1, SameMove DEF IInv, TpmProgress, server
  <2>6. ASSUME NEW l \in late PROVE Alive(l)' /\ Due(l)'
    <3>1. Alive(l)' /\ (l.slot \in Slots => Size(l.slot)' = Size(l.slot))
      BY <1>0, <2>1, AllElsewhere
    <3>2. QED BY <1>0, <2>1, <3>1, Operations DEF Due
  <2>7. QED BY <1>0, <2>1, <2>2, <2>4, <2>5, <2>6, SameLists DEF IInv, RefusedOnlyInvalid
<1>3. QED BY <1>1, <1>2 DEF Move

\* The request to grow the disk of s, which can stay: it fails, or the disk is grown
\* and no task works on it.
LEMMA ResizeRun ==
  ASSUME IInv, NEW s \in Slots, IsDisk(want[s]), NEW next, NEW rest,
         Run(Op("resize", s), Resized(s, want[s].size), next, rest),
         faults = 0 /\ ~Misspelled => CanStay(s)
  PROVE  /\ UNCHANGED <<want, wantTpm, current>>
         /\ \/ /\ CanStay(s) /\ ResizeDone(s, want[s].size)
               /\ \A l \in late : Alive(l)' /\ (l.slot \in Slots => Size(l.slot)' = Size(l.slot))
               /\ \A l \in late : l.slot # s
               /\ pc' = next /\ todo' = rest /\ UNCHANGED <<late, faults>>
            \/ IInv'
<1> DEFINE op == Op("resize", s)
<1>1. op \in Tasks /\ op.slot = s /\ op.kind = "resize" /\ s # Tpm
  BY Operations
<1>2. Run(op, Resized(s, want[s].size), next, rest)
  OBVIOUS
<1> HIDE DEF op
<1>3. /\ TypeOK /\ want[s].size \in Nat
      /\ \A l \in late : Alive(l) /\ faults # 0
  BY DiskTypes DEF IInv
<1>4. Possible(op) <=> CanStay(s) /\ \A l \in late : l.slot # s
  BY <1>1 DEF Possible, CanStay, Size
<1>5. Possible(op) => Alive(op)
  BY <1>1, <1>4 DEF Alive
<1>6. UNCHANGED <<want, wantTpm>>
  BY <1>2 DEF Run, Request
<1>7. Possible(op) /\ Carried(Resized(s, want[s].size)) =>
         /\ ResizeDone(s, want[s].size)
         /\ \A l \in late : Alive(l)' /\ (l.slot \in Slots => Size(l.slot)' = Size(l.slot))
  <2>1. SUFFICES ASSUME CanStay(s), \A l \in late : l.slot # s, Carried(Resized(s, want[s].size))
                 PROVE  /\ ResizeDone(s, want[s].size)
                        /\ \A l \in late : Alive(l)' /\ (l.slot \in Slots => Size(l.slot)' = Size(l.slot))
    BY <1>4
  <2>2. ResizeDone(s, want[s].size)
    BY <1>3, <2>1, ResizeEffect DEF CanStay
  <2>3. tpm' = tpm /\ \A t \in Slots \ {s} : Kept(t)
    BY <2>2 DEF ResizeDone
  <2>4. QED BY <1>3, <1>6, <2>1, <2>2, <2>3, AllElsewhere
<1>8. Possible(op) /\ Carried(Resized(s, want[s].size)) => InOrder(Now)' /\ \A l \in late : Alive(l)'
  BY <1>7 DEF ResizeDone
<1>9. faults = 0 /\ ~Misspelled => Possible(op)
  BY <1>3, <1>4
<1>10. /\ UNCHANGED <<want, wantTpm, current>>
       /\ \/ /\ Possible(op) /\ Carried(Resized(s, want[s].size)) /\ pc' = next /\ todo' = rest
             /\ UNCHANGED <<late, faults>>
          \/ IInv'
  BY <1>1, <1>2, <1>5, <1>8, <1>9, TaskOutcome
<1>11. QED BY <1>4, <1>7, <1>10

\* A disk that was there is grown, and nothing else changes.
LEMMA ResizeStep == IInv /\ Resize => IInv'
<1> SUFFICES ASSUME IInv, Resize PROVE IInv'
  OBVIOUS
<1>0. /\ TypeOK /\ pc = "resize" /\ todo \subseteq ToResize(current)
      /\ \A s \in Slots : Matches(s)
      /\ \A op \in late : op \in Tasks /\ Alive(op) /\ Due(op) /\ faults # 0
  BY DEF IInv, TypeOK, Listed, Progress, Resize, Resizes, ListDone
<1>1. ASSUME NEW s \in todo,
             Run(Op("resize", s), Resized(s, want[s].size), "resize", todo \ {s})
      PROVE  IInv'
  <2>1. /\ s \in Slots /\ s \in ToResize(current)
        /\ IsDisk(want[s]) /\ IsDisk(current.slots[s]) /\ want[s].size > current.slots[s].size
        /\ want[s].size \in Nat /\ current.slots[s].size \in Nat
    BY <1>0, <1>1, DiskTypes DEF ToResize, Fits
  <2>2. CanStay(s)
    BY <1>0, <2>1 DEF Matches, CanStay
  <2>4. /\ UNCHANGED <<want, wantTpm, current>>
        /\ \/ /\ ResizeDone(s, want[s].size)
              /\ \A l \in late : Alive(l)' /\ (l.slot \in Slots => Size(l.slot)' = Size(l.slot))
              /\ \A l \in late : l.slot # s
              /\ pc' = "resize" /\ todo' = todo \ {s} /\ UNCHANGED <<late, faults>>
           \/ IInv'
    BY <1>1, <2>1, <2>2, ResizeRun
  <2>5. SUFFICES ASSUME ResizeDone(s, want[s].size),
                        \A l \in late : Alive(l)' /\ (l.slot \in Slots => Size(l.slot)' = Size(l.slot)),
                        \A l \in late : l.slot # s,
                        pc' = "resize", todo' = todo \ {s}, UNCHANGED <<late, faults>>
                 PROVE  IInv'
    BY <2>4
  <2>6. TypeOK'
    BY <1>0, <2>4, <2>5 DEF TypeOK, ResizeDone
  <2>7. ASSUME NEW t \in Slots PROVE Matches(t)'
    <3>1. CASE t = s
      <4>1. /\ IsDisk(current.slots[s]) /\ Size(s)' = want[s].size
            /\ slots' = slots
        BY <2>1, <2>5 DEF ResizeDone, Size
      <4>2. QED BY <1>0, <2>1, <2>4, <2>5, <3>1, <4>1, SameLists DEF Matches
    <3>2. CASE t # s
      <4>1. Kept(t) /\ Matches(t)
        BY <1>0, <2>5, <2>7, <3>2 DEF ResizeDone
      <4>2. slots'[t] = slots[t] /\ (IsDisk(slots[t]) => Size(t)' = Size(t))
        BY <4>1 DEF Kept, Size
      <4>3. QED BY <1>0, <2>4, <2>5, <3>2, <4>1, <4>2, SameLists DEF Matches
    <3>3. QED BY <3>1, <3>2
  <2>8. Listed' /\ (\A t \in Slots : Progress(t)')
    BY <1>0, <2>4, <2>5, <2>7, SameLists DEF Listed, Progress
  <2>9. TpmProgress'
    BY <1>0, <2>4, <2>5, SameMove DEF IInv, TpmProgress, ResizeDone
  <2>10. ASSUME NEW l \in late PROVE Alive(l)' /\ Due(l)'
    <3>1. /\ Alive(l)' /\ Due(l) /\ l.slot # s
          /\ (l.slot \in Slots => Size(l.slot)' = Size(l.slot))
      BY <1>0, <2>5
    <3>2. QED BY <1>0, <2>4, <2>5, <3>1, SameLists DEF Due
  <2>11. QED BY <1>0, <2>4, <2>5, <2>6, <2>8, <2>9, <2>10, SameLists DEF IInv, RefusedOnlyInvalid
<1>2. CASE ListDone("resize", "tpm", {})
  <2>1. /\ pc' = "tpm" /\ todo = {} /\ todo' = {}
        /\ UNCHANGED <<server, late, want, wantTpm, current, faults>>
    BY <1>2 DEF ListDone
  <2>2. TypeOK'
    BY <1>0, <2>1 DEF TypeOK, InOrder, Now, server
  <2>3. ASSUME NEW t \in Slots PROVE Matches(t)'
    BY <1>0, <2>1, <2>3, SameLists DEF Matches, Size, server
  <2>4. Listed' /\ (\A t \in Slots : Progress(t)')
    BY <2>1, <2>3, SameLists DEF Listed, Progress
  <2>5. TpmProgress'
    BY <1>0, <2>1, SameMove DEF IInv, TpmProgress, server
  <2>6. ASSUME NEW l \in late PROVE Alive(l)' /\ Due(l)'
    <3>1. Alive(l)' /\ (l.slot \in Slots => Size(l.slot)' = Size(l.slot))
      BY <1>0, <2>1, AllElsewhere
    <3>2. QED BY <1>0, <2>1, <3>1, Operations DEF Due
  <2>7. QED BY <1>0, <2>1, <2>2, <2>4, <2>5, <2>6, SameLists DEF IInv, RefusedOnlyInvalid
<1>3. QED BY <1>1, <1>2 DEF Resize, Resizes

\* A TPM that is moved is the same but for its storage.
LEMMA TpmEffect ==
  ASSUME TypeOK, Carried(TpmMovedTo(wantTpm.at)), tpm # Empty, wantTpm.kind = "tpm"
  PROVE  /\ slots' = slots /\ volumes' = volumes
         /\ tpm' = [tpm EXCEPT !.at = wantTpm.at]
         /\ tpm' \in TpmStates /\ tpm' # Empty /\ tpm'.at = wantTpm.at
         /\ tpm'.version = tpm.version
         /\ InOrder(Now)'
<1>1. slots' = slots /\ volumes' = volumes /\ tpm' = [tpm EXCEPT !.at = wantTpm.at]
  BY DEF Carried, TpmMovedTo, Now
<1>2. wantTpm.at \in Storages
  BY Order, Kinds
<1>3. tpm \in [kind : {"tpm"}, at : Storages, version : Versions, data : {Tpm, Blank}]
  BY Order DEF TpmStates
<1>4. /\ tpm' \in [kind : {"tpm"}, at : Storages, version : Versions, data : {Tpm, Blank}]
      /\ tpm'.at = wantTpm.at /\ tpm'.version = tpm.version
  BY <1>1, <1>2, <1>3
<1>5. tpm' \in TpmStates /\ tpm' # Empty
  BY <1>4, Kinds DEF TpmStates
<1>6. InOrder(Now)'
  BY <1>1, <1>5 DEF TypeOK, InOrder, Now
<1>7. QED BY <1>1, <1>4, <1>5, <1>6

\* The TPM is moved, or what is to be deleted is listed.
LEMMA MoveTpmStep == IInv /\ MoveTpm => IInv'
<1> SUFFICES ASSUME IInv, MoveTpm PROVE IInv'
  OBVIOUS
<1>0. /\ TypeOK /\ pc = "tpm" /\ \A s \in Slots : Matches(s)
      /\ \/ current.tpm = tpm
         \/ TpmMoved(current) /\ tpm # Empty /\ tpm.at = wantTpm.at /\ faults # 0
      /\ AtMostOne(CloudInits(want))
      /\ \A op \in late : op \in Tasks /\ Alive(op) /\ Due(op) /\ faults # 0
  BY DEF IInv, TypeOK, Progress, TpmProgress, MoveTpm
<1>1. CASE /\ TpmMoved(current)
           /\ Run(Op("move", Tpm), TpmMovedTo(wantTpm.at), "delete", CloudInitRemove(current))
  <2> DEFINE op == Op("move", Tpm)
  <2>1. op \in Tasks /\ op.slot = Tpm /\ op.kind = "move"
    BY Operations
  <2>2. Run(op, TpmMovedTo(wantTpm.at), "delete", CloudInitRemove(current))
    BY <1>1
  <2> HIDE DEF op
  <2>3. wantTpm.kind = "tpm" /\ (current.tpm = tpm => /\ tpm # Empty /\ RightVersion(tpm)
                                                     /\ tpm.at # wantTpm.at)
    BY <1>1 DEF TpmMoved, TpmReplaced, TpmStays, RightVersion
  <2>4. Possible(op) <=> /\ \A l \in late : l.slot # Tpm
                         /\ tpm # Empty /\ tpm.at # wantTpm.at
    BY <2>1, QemuDisksAssumption DEF Possible
  <2>5. /\ faults = 0 => Possible(op)
        /\ Possible(op) => Alive(op) /\ tpm # Empty /\ RightVersion(tpm) /\ current.tpm = tpm
    BY <1>0, <2>1, <2>3, <2>4 DEF Alive
  <2>6. UNCHANGED <<want, wantTpm>>
    BY <2>2 DEF Run, Request
  <2>7. Possible(op) /\ Carried(TpmMovedTo(wantTpm.at)) =>
           /\ slots' = slots /\ volumes' = volumes
           /\ tpm' \in TpmStates /\ tpm' # Empty /\ tpm'.at = wantTpm.at
           /\ tpm'.version = tpm.version
           /\ InOrder(Now)'
    BY <1>0, <2>3, <2>5, TpmEffect
  <2>8. Possible(op) /\ Carried(TpmMovedTo(wantTpm.at)) =>
           \A l \in late : Alive(l)' /\ (l.slot \in Slots => Size(l.slot)' = Size(l.slot))
    BY <1>0, <2>4, <2>6, <2>7, AllElsewhere
  <2>9. /\ UNCHANGED <<want, wantTpm, current>>
        /\ \/ /\ Possible(op) /\ Carried(TpmMovedTo(wantTpm.at))
              /\ pc' = "delete" /\ todo' = CloudInitRemove(current) /\ UNCHANGED <<late, faults>>
           \/ IInv'
    BY <2>1, <2>2, <2>5, <2>7, <2>8, TaskOutcome
  <2>10. SUFFICES ASSUME Possible(op), Carried(TpmMovedTo(wantTpm.at)), pc' = "delete",
                         todo' = CloudInitRemove(current), UNCHANGED <<late, faults>>
                  PROVE  IInv'
    BY <2>9
  <2>11. Tpm \notin todo' /\ todo' \subseteq Slots
    BY <2>10, QemuDisksAssumption DEF CloudInitRemove, CloudInits
  <2>12. TypeOK'
    BY <1>0, <2>7, <2>9, <2>10, <2>11 DEF TypeOK
  <2>13. TpmProgress'
    <3>1. TpmFits' /\ current'.tpm # Empty
      BY <2>5, <2>7, <2>9, <2>10 DEF TpmFits, RightVersion, MapVersion
    <3>2. QED BY <2>7, <2>10, <2>11, <3>1 DEF TpmProgress
  <2>14. ASSUME NEW t \in Slots PROVE Matches(t)'
    BY <1>0, <2>7, <2>9, <2>10, <2>14, SameLists DEF Matches, Size
  <2>15. Listed' /\ (\A t \in Slots : Progress(t)')
    BY <1>0, <2>9, <2>10, <2>11, <2>14, SameLists DEF Listed, Progress
  <2>16. ASSUME NEW l \in late PROVE Alive(l)' /\ Due(l)'
    <3>1. /\ Alive(l)' /\ Due(l) /\ l.slot # Tpm
          /\ (l.slot \in Slots => Size(l.slot)' = Size(l.slot))
      BY <1>0, <2>4, <2>8, <2>10
    <3>2. QED BY <1>0, <2>9, <2>10, <3>1 DEF Due
  <2>17. QED BY <1>0, <2>9, <2>10, <2>12, <2>13, <2>15, <2>16, SameLists
            DEF IInv, RefusedOnlyInvalid
<1>2. CASE /\ ~TpmMoved(current)
           /\ pc' = "delete"
           /\ todo' = CloudInitRemove(current) \cup (IF TpmReplaced(current) THEN {Tpm} ELSE {})
           /\ current' = IF TpmReplaced(current) THEN [current EXCEPT !.tpm = Empty] ELSE current
           /\ UNCHANGED <<server, late, want, wantTpm, faults>>
  <2>0. current.tpm = tpm
    BY <1>0, <1>2
  <2>1. /\ current'.slots = current.slots
        /\ current'.tpm = IF TpmReplaced(current) THEN Empty ELSE tpm
        /\ current' \in [slots : [Slots -> {Empty} \cup Drives \cup ReadDisks], tpm : TpmStates]
    BY <1>0, <1>2, <2>0 DEF TypeOK, TpmStates
  <2>2. /\ todo' \ {Tpm} = CloudInitRemove(current)
        /\ Tpm \in todo' <=> TpmReplaced(current)
        /\ todo' \subseteq Slots \cup {Tpm}
    BY <1>2, QemuDisksAssumption DEF CloudInitRemove, CloudInits
  <2>3. TypeOK'
    BY <1>0, <1>2, <2>1, <2>2 DEF TypeOK, InOrder, Now, server
  <2>4. TpmProgress'
    <3>1. CASE TpmReplaced(current)
      BY <1>0, <1>2, <2>0, <2>1, <2>2, <3>1 DEF TpmProgress, TpmReplaced, TpmStays, MapVersion, server
    <3>2. CASE ~TpmReplaced(current)
      <4>1. current'.tpm = tpm /\ Tpm \notin todo'
        BY <2>1, <2>2, <3>2
      <4>2. TpmFits'
        BY <1>2, <2>0, <3>2
           DEF TpmFits, RightVersion, TpmMoved, TpmReplaced, TpmStays, MapVersion, server
      <4>3. QED BY <1>2, <4>1, <4>2 DEF TpmProgress, server
    <3>3. QED BY <3>1, <3>2
  <2>5. ASSUME NEW t \in Slots PROVE Matches(t)'
    BY <1>0, <1>2, <2>1, <2>5, SameLists DEF Matches, Size, server
  <2>6. Listed' /\ (\A t \in Slots : Progress(t)')
    BY <1>2, <2>1, <2>2, <2>5, SameLists DEF Listed, Progress
  <2>7. ASSUME NEW l \in late PROVE Alive(l)' /\ Due(l)'
    <3>1. Alive(l)' /\ (l.slot \in Slots => Size(l.slot)' = Size(l.slot))
      BY <1>0, <1>2, AllElsewhere
    <3>2. l.slot # Tpm
      BY <1>0, <1>2, <2>0 DEF Alive, RightVersion, TpmMoved, TpmReplaced, TpmStays
    <3>3. QED BY <1>0, <1>2, <3>1, <3>2 DEF Due
  <2>8. QED BY <1>0, <1>2, <2>1, <2>3, <2>4, <2>6, <2>7, SameLists DEF IInv, RefusedOnlyInvalid
<1>3. QED BY <1>1, <1>2 DEF MoveTpm

\* After the loops no task works on anything that has not the size wanted.
LEMMA DueLate ==
  ASSUME IInv, pc \notin {"read", "error", "move", "resize", "tpm"}, NEW op \in late
  PROVE  /\ op.slot \in Slots /\ op.slot # Tpm /\ op.kind = "resize"
         /\ IsDisk(slots[op.slot]) /\ IsDisk(want[op.slot]) /\ CanStay(op.slot)
         /\ Size(op.slot) = want[op.slot].size
<1>1. op \in Tasks /\ Alive(op) /\ Due(op)
  BY DEF IInv, TypeOK
<1>2. op.slot \in Slots /\ op.slot # Tpm /\ op.kind = "resize" /\ Size(op.slot) = want[op.slot].size
  BY <1>1, Operations DEF Due
<1>3. QED BY <1>1, <1>2 DEF Alive, CanStay

\* It stays alive while what it works on is kept.
LEMMA DueKept ==
  ASSUME IInv, pc \notin {"read", "error", "move", "resize", "tpm"}, UNCHANGED <<want, wantTpm>>,
         \A s \in Slots : CanStay(s) /\ Size(s) = want[s].size => CanStay(s)' /\ Size(s)' = want[s].size
  PROVE  \A op \in late : Alive(op)' /\ Due(op)'
<1>1. SUFFICES ASSUME NEW op \in late PROVE Alive(op)' /\ Due(op)'
  OBVIOUS
<1>2. /\ op.slot \in Slots /\ op.slot # Tpm /\ op.kind = "resize"
      /\ CanStay(op.slot) /\ Size(op.slot) = want[op.slot].size
  BY DueLate
<1>3. QED BY <1>2 DEF Alive, Due

\* The deletion is not for disks.
LEMMA DeletedKept ==
  ASSUME IInv, pc = "delete", DeleteDone, UNCHANGED want, NEW s \in Slots, IsDisk(slots[s])
  PROVE  Kept(s) /\ (CanStay(s) => CanStay(s)') /\ Size(s)' = Size(s)
<1>1. s \in todo => s \in CloudInitRemove(current) /\ Matches(s)
  BY QemuDisksAssumption DEF IInv, Listed, Progress
<1>2. s \notin todo
  BY <1>1 DEF Matches, CloudInitRemove, CloudInits, IsDisk
<1>3. slots'[s] = slots[s] /\ volumes' = volumes
  BY <1>2 DEF DeleteDone
<1>4. QED BY <1>3 DEF Kept, CanStay, Size

\* What has been deleted is gone, and the PUT is made from what was read before
\* only if no disk was moved.
LEMMA Deleted ==
  ASSUME IInv, pc = "delete", DeleteDone, pc' = AfterDelete, todo' = {}, faults' = faults,
         UNCHANGED <<late, want, wantTpm, current>>
  PROVE  IInv'
<1>0. /\ TypeOK /\ todo \ {Tpm} = CloudInitRemove(current) /\ \A s \in Slots : Matches(s)
      /\ AtMostOne(CloudInits(want)) /\ TpmProgress
  BY DEF IInv, Listed, Progress
<1>1. pc' = (IF ToMove(current) = {} THEN "put" ELSE "reread")
  BY DEF AfterDelete
<1>2. TypeOK'
  BY <1>0, <1>1 DEF TypeOK, DeleteDone

\* A slot is empty if it held a cloud-init drive that has to go.
<1>3. ASSUME NEW s \in Slots
      PROVE  IF s \in CloudInitRemove(current)
             THEN /\ slots'[s] = Empty /\ current.slots[s].kind = "cloudinit"
                  /\ want[s].kind # "cloudinit" /\ ~IsDisk(current.slots[s])
             ELSE slots'[s] = slots[s] /\ Size(s)' = Size(s)
  <2>1. s \in todo <=> s \in CloudInitRemove(current)
    BY <1>0, QemuDisksAssumption
  <2>2. QED BY <2>1 DEF DeleteDone, CloudInitRemove, CloudInits, IsDisk, Size
<1>4. ASSUME NEW s \in Slots
      PROVE  /\ IsDisk(slots'[s]) <=> IsDisk(current.slots[s])
             /\ IsDisk(slots'[s]) =>
                   /\ current.slots[s].size <= Size(s)' /\ Size(s)' \in Nat
                   /\ Fits(want[s], current.slots[s]) =>
                         slots'[s].at = want[s].at /\ Size(s)' = want[s].size
                   /\ s \notin ToMove(current) =>
                         Name(slots'[s]) = Name(current.slots[s]) /\ slots'[s].opt = current.slots[s].opt
  <2>1. CASE s \in CloudInitRemove(current)
    BY <1>3, <2>1, Kinds DEF IsDisk
  <2>2. CASE s \notin CloudInitRemove(current)
    <3>1. slots'[s] = slots[s] /\ Size(s)' = Size(s) /\ Matches(s)
      BY <1>0, <1>3, <2>2
    <3>2. CASE ~IsDisk(current.slots[s])
      BY <3>1, <3>2 DEF Matches
    <3>3. CASE IsDisk(current.slots[s])
      <4>1. /\ IsDisk(slots[s])
            /\ s \in ToMove(current) => slots[s].at = want[s].at
            /\ s \notin ToMove(current) =>
                  Name(slots[s]) = Name(current.slots[s]) /\ slots[s].opt = current.slots[s].opt
            /\ Size(s) = IF s \in ToResize(current) THEN want[s].size ELSE current.slots[s].size
        BY <1>0, <3>1, <3>3 DEF Matches
      <4>2. /\ current.slots[s].size \in Nat /\ Size(s) \in Nat
            /\ IsDisk(want[s]) => want[s].size \in Nat
        BY <1>0, <3>3, <4>1, DiskTypes
      <4>3. Fits(want[s], current.slots[s]) => slots[s].at = want[s].at
        BY <4>1 DEF ToMove, Name
      <4>4. QED BY <3>1, <3>3, <4>1, <4>2, <4>3 DEF ToResize, Fits
    <3>4. QED BY <3>2, <3>3
  <2>3. QED BY <2>1, <2>2
<1>5. ASSUME NEW s \in Slots PROVE Prepared(s)'
  <2>1. s \in CloudInits(slots') /\ s \notin CloudInits(want) => CloudInits(want) = {}
    <3>1. SUFFICES ASSUME slots'[s].kind = "cloudinit", s \notin CloudInits(want)
                   PROVE  CloudInits(want) = {}
      BY DEF CloudInits
    <3>2. s \notin CloudInitRemove(current) /\ slots[s] = slots'[s]
      BY <1>3, <3>1, Kinds
    <3>3. current.slots[s].kind = "cloudinit"
      BY <1>0, <3>1, <3>2 DEF Matches, IsDisk
    <3>4. QED BY <3>1, <3>2, <3>3 DEF CloudInitRemove, CloudInits
  <2>2. IsDisk(slots'[s]) /\ IsDisk(want[s]) /\ Size(s)' <= want[s].size =>
          slots'[s].at = want[s].at /\ Size(s)' = want[s].size
    <3>1. IsDisk(slots'[s]) /\ IsDisk(want[s]) /\ Size(s)' <= want[s].size =>
             Fits(want[s], current.slots[s])
      BY <1>0, <1>4, DiskTypes DEF Fits
    <3>2. QED BY <1>4, <3>1
  <2>3. QED BY <2>1, <2>2, SameLists DEF Prepared, CloudInits
<1>6. ASSUME NEW s \in Slots, pc' = "put" PROVE Known(s)'
  <2>1. s \notin ToMove(current)
    BY <1>1, <1>6
  <2>2. CASE IsDisk(current.slots[s])
    BY <1>4, <2>1, <2>2 DEF Known, Fits, IsDisk
  <2>3. CASE ~IsDisk(current.slots[s])
    BY <1>0, <1>3, <2>3 DEF Known, Matches
  <2>4. QED BY <2>2, <2>3
<1>7. Listed' /\ (\A s \in Slots : Progress(s)')
  BY <1>1, <1>5, <1>6 DEF Listed, Progress
<1>8. TpmProgress'
  <2>1. tpm' = (IF Tpm \in todo THEN Empty ELSE tpm)
    BY DEF DeleteDone
  <2>2. TpmFits' /\ (current.tpm = Empty <=> tpm' = Empty)
    BY <1>0, <2>1 DEF TpmProgress, TpmFits, RightVersion, MapVersion
  <2>3. QED BY <1>1, <2>2 DEF TpmProgress
<1>9. \A op \in late : Alive(op)' /\ Due(op)'
  BY DeletedKept, DueKept DEF CanStay
<1>10. QED BY <1>0, <1>1, <1>2, <1>7, <1>8, <1>9, SameLists DEF IInv, RefusedOnlyInvalid

\* The deletion keeps the invariant, also when there is nothing to delete and no
\* request is made.
LEMMA DeleteStep == IInv /\ Delete => IInv'
<1> SUFFICES ASSUME IInv, Delete PROVE IInv'
  OBVIOUS
<1> DEFINE h == [Now EXCEPT !.slots = [s \in Slots |-> IF s \in todo THEN Empty ELSE @[s]],
                            !.tpm = IF Tpm \in todo THEN Empty ELSE @]
<1>0. TypeOK /\ pc = "delete"
  BY DEF IInv, Delete
<1>1. CASE Request(TRUE, h, AfterDelete, {})
  <2>1. Carried(h) => DeleteDone
    BY <1>0, DeleteEffect
  <2> HIDE DEF h
  <2>2. UNCHANGED <<want, wantTpm>>
    BY <1>1 DEF Request
  <2>3. DeleteDone => InOrder(Now)' /\ \A op \in late : Alive(op)'
    BY <1>0, <2>2, DeletedKept, DueKept DEF DeleteDone, CanStay
  <2>4. /\ UNCHANGED <<want, wantTpm, current>>
        /\ \/ Carried(h) /\ pc' = AfterDelete /\ todo' = {} /\ UNCHANGED <<late, faults>>
           \/ IInv'
    BY <1>1, <2>1, <2>3, Outcome
  <2>5. QED BY <1>0, <2>1, <2>4, Deleted
<1>2. CASE todo = {} /\ pc' = AfterDelete /\ UNCHANGED <<server, late, want, wantTpm, current, todo, faults>>
  <2>1. DeleteDone
    BY <1>0, <1>2 DEF DeleteDone, TypeOK, InOrder, Now, server
  <2>2. QED BY <1>0, <1>2, <2>1, Deleted
<1>3. QED BY <1>1, <1>2 DEF Delete

\* What is read of a slot is what the slot has.
LEMMA Reported ==
  ASSUME TypeOK, NEW s \in Slots
  PROVE  LET d == Report.slots[s] IN
         /\ d \in {Empty} \cup Drives \cup ReadDisks
         /\ IsDisk(d) <=> IsDisk(slots[s])
         /\ IsDisk(d) => Name(d) = Name(slots[s]) /\ d.at = slots[s].at /\ d.opt = slots[s].opt
                         /\ d.size = Size(s)
         /\ ~IsDisk(d) => d = slots[s]
<1>1. Report.slots[s] = MapToStruct(slots[s]) /\ slots[s] \in Devices
  BY Order DEF Report
<1>2. CASE IsDisk(slots[s])
  <2>1. Report.slots[s] = [kind |-> "disk", at |-> slots[s].at, id |-> slots[s].id,
                           opt |-> slots[s].opt, size |-> Size(s)]
    BY <1>1, <1>2 DEF MapToStruct, Size
  <2>2. /\ slots[s].at \in Storages /\ slots[s].id \in Numbers /\ slots[s].opt \in Options
        /\ Size(s) \in Nat
    BY <1>2, DiskTypes, Kinds
  <2>3. QED BY <1>2, <2>1, <2>2 DEF IsDisk, Name, ReadDisks
<1>3. CASE ~IsDisk(slots[s])
  <2>1. slots[s] \in {Empty} \cup Drives
    BY <1>1, <1>3, Shapes
  <2>2. QED BY <1>1, <1>3, <2>1 DEF MapToStruct
<1>4. QED BY <1>2, <1>3

\* The type of what is read.
LEMMA ReportType ==
  ASSUME TypeOK
  PROVE  /\ Report \in [slots : [Slots -> {Empty} \cup Drives \cup ReadDisks], tpm : TpmStates]
         /\ Report.tpm = tpm
<1>1. Report.slots \in [Slots -> {Empty} \cup Drives \cup ReadDisks]
  BY Reported DEF Report
<1>2. QED BY <1>1, Order DEF Report

\* A step that reads and fails.
LEMMA ReadFailure ==
  ASSUME IInv, ReadFails, UNCHANGED <<server, late, want, wantTpm>>
  PROVE  IInv'
<1>1. TypeOK /\ InOrder(Now)' /\ late' \subseteq Tasks
  BY DEF IInv, TypeOK, InOrder, Now, server
<1>2. faults' \in 0..MaxFaults /\ faults' # 0
  BY <1>1, QemuDisksAssumption DEF TypeOK, ReadFails
<1>3. \A op \in late : Alive(op)'
  BY <1>1, AllElsewhere DEF IInv
<1>4. \A op, l \in late : op.slot = l.slot => op = l
  BY DEF IInv
<1>5. QED BY <1>1, <1>2, <1>3, <1>4, Failure DEF ReadFails

\* The start: what was read is what is there.
LEMMA ReadStep == IInv /\ Read => IInv'
<1> SUFFICES ASSUME IInv, Read PROVE IInv'
  OBVIOUS
<1>0. /\ TypeOK /\ UNCHANGED <<server, late, want, wantTpm>> /\ InOrder(Now)' /\ pc = "read"
      /\ late \subseteq Tasks
  BY DEF IInv, Read, TypeOK, InOrder, Now, server
<1>a. \A op \in late : op \in Tasks /\ Alive(op) /\ faults # 0
  BY <1>0 DEF IInv
<1>b. \A op \in late : Alive(op)' /\ (op.slot \in Slots => Size(op.slot)' = Size(op.slot))
  BY <1>0, <1>a, AllElsewhere
<1>1. CASE /\ current' = Report
           /\ IF Valid(Report) THEN pc' = "move" /\ todo' = ToMove(Report)
              ELSE pc' = "error" /\ UNCHANGED todo
           /\ UNCHANGED faults
  <2>1. CASE Valid(Report)
    <3>1. pc' = "move" /\ todo' = ToMove(Report) /\ current' = Report /\ faults' = faults
      BY <1>1, <2>1
    <3>2. ToMove(current)' = ToMove(Report) /\ ToResize(current)' = ToResize(Report)
      BY <1>0, <3>1 DEF ToMove, ToResize
    <3>3. TypeOK'
      BY <1>0, <3>1, ReportType DEF TypeOK, ToMove
    <3>4. ASSUME NEW s \in Slots PROVE Matches(s)'
      BY <1>0, <3>1, <3>2, Reported DEF Matches, Size, server
    <3>5. Listed' /\ (\A s \in Slots : Progress(s)')
      BY <3>1, <3>2, <3>4 DEF Listed, Progress
    <3>6. TpmProgress'
      BY <1>0, <3>1, ReportType DEF TpmProgress, server
    <3>7. AtMostOne(CloudInits(want))'
      BY <1>0, <2>1 DEF Valid, CloudInits
    <3>8. ASSUME NEW op \in late PROVE Due(op)'
      <4> DEFINE s == op.slot
      <4>1. CASE s = Tpm
        BY <3>1, <4>1 DEF Due
      <4>2. CASE s # Tpm
        <5>1. /\ s \in Slots /\ op.kind \in {"move", "resize"} /\ CanStay(s)
              /\ op.kind = "move" => slots[s].at # want[s].at
          <6>1. op \in Tasks /\ Alive(op)
            BY <1>a
          <6>2. s \in Slots /\ op.kind \in {"move", "resize"}
            BY <4>2, <6>1, Operations
          <6>3. QED BY <4>2, <6>1, <6>2 DEF Alive
        <5>2. /\ IsDisk(Report.slots[s]) /\ IsDisk(want[s]) /\ Report.slots[s].at = slots[s].at
              /\ Report.slots[s].size = Size(s) /\ Size(s) <= want[s].size
              /\ Size(s) \in Nat /\ want[s].size \in Nat
          BY <1>0, <5>1, Reported, DiskTypes DEF CanStay
        <5>3. CASE op.kind = "move"
          BY <3>1, <5>1, <5>2, <5>3 DEF Due, ToMove, Fits
        <5>4. CASE op.kind = "resize"
          <6>1. Size(s) = want[s].size \/ s \in ToResize(Report)
            BY <5>1, <5>2 DEF ToResize, Fits
          <6>2. Size(s)' = Size(s) /\ want' = want /\ pc' = "move"
            BY <1>0, <1>b, <3>1, <5>1
          <6>3. QED BY <3>2, <5>1, <5>4, <6>1, <6>2 DEF Due
        <5>5. QED BY <5>1, <5>3, <5>4
      <4>3. QED BY <4>1, <4>2
    <3>9. \A op, l \in late : op.slot = l.slot => op = l
      BY DEF IInv
    <3>10. RefusedOnlyInvalid'
      BY <3>1 DEF RefusedOnlyInvalid
    <3>11. \A op \in late' : Alive(op)' /\ Due(op)' /\ faults' # 0
      BY <1>0, <1>a, <1>b, <3>1, <3>8
    <3>12. late' = late
      BY <1>0
    <3>13. QED BY <3>3, <3>5, <3>6, <3>7, <3>9, <3>10, <3>11, <3>12 DEF IInv
  <2>2. CASE ~Valid(Report)
    <3>1. pc' = "error" /\ UNCHANGED <<todo, faults>> /\ current' = Report
      BY <1>1, <2>2
    <3>2. TypeOK'
      BY <1>0, <3>1, ReportType DEF TypeOK, Returned
    <3>3. ~Valid(current)'
      BY <1>0, <2>2, <3>1 DEF Valid, CloudInits
    <3>4. \A op, l \in late : op.slot = l.slot => op = l
      BY DEF IInv
    <3>5. \A op \in late' : Alive(op)' /\ Due(op)' /\ faults' # 0
      BY <1>0, <1>a, <1>b, <3>1 DEF Due
    <3>6. late' = late
      BY <1>0
    <3>7. QED BY <3>1, <3>2, <3>3, <3>4, <3>5, <3>6
             DEF IInv, Listed, Progress, TpmProgress, RefusedOnlyInvalid
  <2>3. QED BY <2>1, <2>2
<1>2. CASE ReadFails
  BY <1>0, <1>2, ReadFailure
<1>3. QED BY <1>1, <1>2 DEF Read

\* After moves the PUT is made from what is there.
LEMMA RereadStep == IInv /\ Reread => IInv'
<1> SUFFICES ASSUME IInv, Reread PROVE IInv'
  OBVIOUS
<1>0. /\ TypeOK /\ pc = "reread" /\ UNCHANGED <<server, late, want, wantTpm>> /\ InOrder(Now)'
      /\ \A s \in Slots : Prepared(s)
      /\ TpmFits /\ AtMostOne(CloudInits(want))
  BY DEF IInv, Reread, Progress, TpmProgress, TypeOK, InOrder, Now, server
<1>1. CASE current' = Report /\ pc' = "put" /\ UNCHANGED <<todo, faults>>
  <2>1. TypeOK'
    BY <1>0, <1>1, ReportType DEF TypeOK
  <2>2. ASSUME NEW s \in Slots PROVE Known(s)'
    <3>1. /\ IsDisk(Report.slots[s]) => Report.slots[s].size = Size(s) /\ Size(s) \in Nat
          /\ Size(s)' = Size(s) /\ slots' = slots /\ want' = want /\ current' = Report
      BY <1>0, <1>1, Reported, DiskTypes DEF Size, server
    <3>2. Fits(want[s], Report.slots[s]) => slots[s].at = want[s].at /\ Size(s) = want[s].size
      BY <1>0, <3>1, Reported DEF Prepared, Fits
    <3>3. CASE IsDisk(Report.slots[s])
      BY <1>0, <3>1, <3>2, <3>3, Reported DEF Known, Fits, IsDisk
    <3>4. CASE ~IsDisk(Report.slots[s])
      BY <1>0, <3>1, <3>4, Reported DEF Known
    <3>5. QED BY <3>3, <3>4
  <2>3. ASSUME NEW s \in Slots PROVE Prepared(s)'
    BY <1>0, <2>3 DEF Prepared, CloudInits, Size, server
  <2>4. Listed' /\ (\A s \in Slots : Progress(s)')
    BY <1>1, <2>2, <2>3 DEF Listed, Progress
  <2>5. TpmProgress'
    BY <1>0, <1>1, ReportType DEF TpmProgress, TpmFits, RightVersion, MapVersion, server
  <2>6. AtMostOne(CloudInits(want))'
    BY <1>0 DEF CloudInits
  <2>7. \A op \in late : Alive(op)' /\ Due(op)'
    BY <1>0, DueKept DEF CanStay, Size, server
  <2>8. QED BY <1>0, <1>1, <2>1, <2>4, <2>5, <2>6, <2>7 DEF IInv, RefusedOnlyInvalid
<1>2. CASE ReadFails
  BY <1>0, <1>2, ReadFailure
<1>3. QED BY <1>1, <1>2 DEF Reread

\* A PUT leaves a disk that can stay and has the size wanted.
LEMMA PutKept ==
  ASSUME IInv, PutDone, UNCHANGED want, NEW s \in Slots, CanStay(s), Size(s) = want[s].size
  PROVE  CanStay(s)' /\ Size(s)' = want[s].size
<1>1. PutSlot(s) /\ IsDisk(want[s]) /\ IsDisk(slots[s]) /\ want[s] # Ignored
      /\ want[s].size \in Nat
  BY Kinds, DiskTypes DEF IInv, PutDone, CanStay, IsDisk
<1>2. /\ IsDisk(slots'[s]) /\ Size(s) <= want[s].size
      /\ volumes'[Name(slots'[s])] = volumes[Name(slots[s])]
  BY <1>1 DEF PutSlot
<1>3. QED BY <1>1, <1>2 DEF CanStay, Size

\* The PUT brings every slot to what is wanted, but for the sizes of the disks
\* that are then grown.
LEMMA PutStep == IInv /\ Put => IInv'
<1> SUFFICES ASSUME IInv, Put PROVE IInv'
  OBVIOUS
<1>0. /\ TypeOK /\ pc = "put" /\ (\A s \in Slots : Known(s) /\ Prepared(s))
      /\ TpmFits /\ (current.tpm = Empty <=> tpm = Empty)
      /\ AtMostOne(CloudInits(want))
  BY DEF IInv, Put, Progress, TpmProgress
<1> DEFINE h(f) == After(Params(current), TpmParam(current), f)
<1>1. PICK f \in Numberings(Params(current)) :
         Request(Accepts(Params(current), TpmParam(current), h(f)), h(f), "grow", ToGrow(current))
  BY DEF Put
<1> DEFINE accepted == Accepts(Params(current), TpmParam(current), h(f))
<1>2. accepted /\ Carried(h(f)) => PutDone
  BY <1>0, PutEffect
<1>3. ~Misspelled => accepted
  BY <1>0, PutAccepted
<1>a. Request(accepted, h(f), "grow", ToGrow(current))
  BY <1>1
<1> HIDE DEF h, accepted
<1>b. UNCHANGED <<want, wantTpm>> /\ PutDone => InOrder(Now)' /\ \A op \in late : Alive(op)' /\ Due(op)'
  BY <1>0, PutKept, DueKept DEF PutDone
<1>4. /\ UNCHANGED <<want, wantTpm, current>>
      /\ \/ /\ accepted /\ Carried(h(f))
            /\ pc' = "grow" /\ todo' = ToGrow(current) /\ UNCHANGED <<late, faults>>
         \/ IInv'
  <2>1. UNCHANGED <<want, wantTpm>>
    BY <1>a DEF Request
  <2>2. accepted /\ Carried(h(f)) => InOrder(Now)' /\ \A op \in late : Alive(op)'
    BY <1>2, <1>b, <2>1
  <2>3. QED BY <1>a, <1>3, <2>2, Outcome
<1>5. SUFFICES ASSUME accepted, PutDone, pc' = "grow", todo' = ToGrow(current),
                      UNCHANGED <<late, faults>>
               PROVE  IInv'
  BY <1>2, <1>4
<1>6. TypeOK'
  BY <1>0, <1>4, <1>5 DEF TypeOK, PutDone, ToGrow
<1>7. ASSUME NEW s \in Slots PROVE Reached(s)'
  <2>1. PutSlot(s) /\ want' = want /\ current' = current
    BY <1>4, <1>5 DEF PutDone
  <2>2. /\ IsDisk(want[s]) => want[s].size \in Nat \ {0}
        /\ IsDisk(slots[s]) => Size(s) \in Nat
    BY <1>0, DiskTypes
  <2>3. s \in todo' <=> IsDisk(want[s]) /\ want[s].size % Gibibyte # 0 /\ ~Fits(want[s], current.slots[s])
    BY <1>5 DEF ToGrow
  <2>4. CASE want[s] = Ignored
    BY <2>1, <2>4 DEF Reached
  <2>5. CASE ~IsDisk(want[s]) /\ slots'[s] = want[s]
    BY <2>1, <2>5 DEF Reached
  <2>6. CASE /\ IsDisk(want[s]) /\ IsDisk(slots'[s])
             /\ slots'[s].at = want[s].at /\ slots'[s].opt = want[s].opt
             /\ volumes'[Name(slots'[s])] = volumes[Name(slots[s])] /\ Size(s) = want[s].size
    <3>1. Size(s)' = want[s].size
      BY <2>6 DEF Size
    <3>2. QED BY <2>1, <2>2, <2>6, <3>1 DEF Reached
  <2>7. CASE /\ IsDisk(want[s]) /\ IsDisk(slots'[s])
             /\ slots'[s].at = want[s].at /\ slots'[s].opt = want[s].opt
             /\ ~Fits(want[s], current.slots[s])
             /\ volumes'[Name(slots'[s])].size = IF want[s].size % Gibibyte = 0 THEN want[s].size ELSE 0
    <3>1. Size(s)' = IF s \in todo' THEN 0 ELSE want[s].size
      BY <2>3, <2>7 DEF Size
    <3>2. QED BY <2>1, <2>2, <2>7, <3>1 DEF Reached
  <2>8. QED BY <2>1, <2>4, <2>5, <2>6, <2>7 DEF PutSlot
<1>8. Listed' /\ (\A s \in Slots : Progress(s)')
  BY <1>4, <1>5, <1>7 DEF Listed, Progress, ToGrow
<1>9. MeetsTpm' /\ ~Misspelled'
  <2>1. TpmAfter /\ wantTpm' = wantTpm /\ wantTpm \in WantedTpm /\ tpm \in TpmStates
    BY <1>0, <1>4, <1>5, Order DEF PutDone
  <2>2. CASE wantTpm.kind = "delete"
    BY <2>1, <2>2 DEF TpmAfter, TpmParam, Deletion, MeetsTpm, Misspelled
  <2>3. CASE wantTpm.kind = "tpm" /\ current.tpm = Empty
    <3>1. TpmParam(current) = [kind |-> "tpm", at |-> wantTpm.at,
                               version |-> MapVersion(wantTpm.version), data |-> Blank]
      BY <2>3 DEF TpmParam
    <3>2. tpm' = TpmParam(current)
      BY <2>1, <3>1 DEF TpmAfter
    <3>3. MapVersion(wantTpm.version) \in Versions
      BY <1>5, <3>1 DEF accepted, Accepts
    <3>4. wantTpm.version \in Spellings
      BY <2>1, <2>3, Kinds
    <3>5. /\ Means(wantTpm.version) \in {MapVersion(wantTpm.version), "nil"}
          /\ wantTpm.version # "1.2"
      BY <3>3, <3>4 DEF Means, MapVersion, Versions, Spellings
    <3>6. QED BY <2>1, <2>3, <3>1, <3>2, <3>5 DEF MeetsTpm, Misspelled
  <2>4. CASE wantTpm.kind = "tpm" /\ current.tpm # Empty
    <3>1. TpmParam(current) = Nothing /\ tpm' = tpm /\ tpm # Empty
      BY <1>0, <2>1, <2>4 DEF TpmParam, TpmAfter, Nothing
    <3>2. /\ tpm.kind = "tpm" /\ tpm.at = wantTpm.at /\ tpm.version \in Versions
          /\ wantTpm.version = "nil" \/ MapVersion(wantTpm.version) = tpm.version
          /\ wantTpm.version \in Spellings
      BY <1>0, <2>1, <2>4, <3>1, Kinds DEF TpmFits, RightVersion
    <3>3. Means(wantTpm.version) \in {tpm.version, "nil"} /\ wantTpm.version # "1.2"
      BY <3>2 DEF Means, MapVersion, Versions, Spellings
    <3>4. QED BY <2>1, <2>4, <3>1, <3>2, <3>3 DEF MeetsTpm, Misspelled
  <2>5. CASE wantTpm.kind \notin {"tpm", "delete"}
    BY <2>1, <2>5 DEF MeetsTpm, Misspelled
  <2>6. QED BY <2>2, <2>3, <2>4, <2>5
<1>10. QED BY <1>0, <1>4, <1>5, <1>6, <1>8, <1>9, <1>b, SameLists
          DEF IInv, TpmProgress, RefusedOnlyInvalid

\* A disk that was made small is grown, and nothing else changes.
LEMMA GrowStep == IInv /\ Grow => IInv'
<1> SUFFICES ASSUME IInv, Grow PROVE IInv'
  OBVIOUS
<1>0. /\ TypeOK /\ pc = "grow" /\ todo \subseteq {s \in Slots : IsDisk(want[s])}
      /\ (\A s \in Slots : Reached(s)) /\ MeetsTpm /\ ~Misspelled /\ AtMostOne(CloudInits(want))
  BY DEF IInv, Listed, Progress, TpmProgress, Grow, Resizes, ListDone
<1>1. ASSUME NEW s \in todo,
             Run(Op("resize", s), Resized(s, want[s].size), "grow", todo \ {s})
      PROVE  IInv'
  <2>1. s \in Slots /\ IsDisk(want[s]) /\ want[s].size \in Nat /\ Reached(s)
    BY <1>0, <1>1, DiskTypes
  <2>2. CanStay(s)
    BY <2>1, Kinds DEF Reached, CanStay, IsDisk
  <2>4. /\ UNCHANGED <<want, wantTpm, current>>
        /\ \/ /\ ResizeDone(s, want[s].size)
              /\ \A l \in late : Alive(l)' /\ (l.slot \in Slots => Size(l.slot)' = Size(l.slot))
              /\ pc' = "grow" /\ todo' = todo \ {s} /\ UNCHANGED <<late, faults>>
           \/ IInv'
    BY <1>1, <2>1, <2>2, ResizeRun
  <2>5. SUFFICES ASSUME ResizeDone(s, want[s].size),
                        \A l \in late : Alive(l)' /\ (l.slot \in Slots => Size(l.slot)' = Size(l.slot)),
                        pc' = "grow", todo' = todo \ {s}, UNCHANGED <<late, faults>>
                 PROVE  IInv'
    BY <2>4
  <2>6. TypeOK'
    BY <1>0, <2>4, <2>5 DEF TypeOK, ResizeDone
  <2>7. ASSUME NEW t \in Slots PROVE Reached(t)'
    <3>1. CASE t = s
      <4>1. Size(s)' = want[s].size /\ slots' = slots /\ want' = want
        BY <2>4, <2>5 DEF ResizeDone, Size
      <4>2. QED BY <2>1, <3>1, <4>1, Kinds DEF Reached, IsDisk
    <3>2. CASE t # s
      <4>1. Kept(t) /\ Reached(t)
        BY <1>0, <2>5, <2>7, <3>2 DEF ResizeDone
      <4>2. slots'[t] = slots[t] /\ (IsDisk(slots[t]) => Size(t)' = Size(t))
        BY <4>1 DEF Kept, Size
      <4>3. QED BY <2>4, <2>5, <3>2, <4>1, <4>2 DEF Reached
    <3>3. QED BY <3>1, <3>2
  <2>8. Listed' /\ (\A t \in Slots : Progress(t)')
    BY <1>0, <2>4, <2>5, <2>7 DEF Listed, Progress
  <2>9. TpmProgress'
    BY <1>0, <2>4, <2>5 DEF TpmProgress, MeetsTpm, Means, Misspelled, ResizeDone
  <2>10. ASSUME NEW l \in late PROVE Alive(l)' /\ Due(l)'
    <3>1. /\ l.slot \in Slots /\ l.kind = "resize" /\ Size(l.slot) = want[l.slot].size
          /\ Alive(l)' /\ Size(l.slot)' = Size(l.slot)
      BY <1>0, <2>5, DueLate
    <3>2. QED BY <2>4, <3>1 DEF Due
  <2>11. QED BY <1>0, <2>4, <2>5, <2>6, <2>8, <2>9, <2>10, SameLists DEF IInv, RefusedOnlyInvalid
<1>2. CASE ListDone("grow", "ok", {})
  <2>1. /\ pc' = "ok" /\ todo = {} /\ todo' = {}
        /\ UNCHANGED <<server, late, want, wantTpm, current, faults>>
    BY <1>2 DEF ListDone
  <2>2. TypeOK'
    BY <1>0, <2>1 DEF TypeOK, InOrder, Now, server, Returned
  <2>3. ASSUME NEW t \in Slots PROVE Reached(t)'
    BY <1>0, <2>1, <2>3 DEF Reached, Size, server
  <2>4. Listed' /\ (\A t \in Slots : Progress(t)') /\ TpmProgress'
    BY <1>0, <2>1, <2>3 DEF Listed, Progress, TpmProgress, MeetsTpm, Means, Misspelled, server
  <2>5. \A op \in late : Alive(op)' /\ Due(op)'
    BY <1>0, <2>1, DueKept DEF CanStay, Size, server
  <2>6. QED BY <2>1, <2>2, <2>4, <2>5 DEF IInv, RefusedOnlyInvalid
<1>3. QED BY <1>1, <1>2 DEF Grow, Resizes

\* Nothing else matters to an update that goes on than what it sees and how far it
\* is.
LEMMA Unseen ==
  ASSUME IInv, UNCHANGED <<server, want, wantTpm, current, pc, todo, faults>>, late' \subseteq late
  PROVE  IInv'
<1>1. TypeOK'
  BY DEF IInv, TypeOK, InOrder, Now, server
<1>2. Listed' /\ \A s \in Slots : Progress(s)'
  <2>1. ASSUME NEW s \in Slots PROVE Progress(s)'
    <3>1. Progress(s)
      BY DEF IInv
    <3>2. (Matches(s) => Matches(s)') /\ (Overtaken(s) => Overtaken(s)')
      BY SameLists DEF Matches, Overtaken, CanStay, Size, server
    <3>3. (Prepared(s) => Prepared(s)') /\ (Known(s) => Known(s)') /\ (Reached(s) => Reached(s)')
      BY DEF Prepared, Known, Reached, Size, Fits, CloudInits, server
    <3>4. QED BY <3>1, <3>2, <3>3 DEF Progress
  <2>2. Listed'
    BY SameLists DEF IInv, Listed
  <2>3. QED BY <2>1, <2>2
<1>3. TpmProgress'
  BY SameMove DEF IInv, TpmProgress, TpmFits, RightVersion, MeetsTpm, Means, MapVersion, Misspelled, server
<1>4. (AtMostOne(CloudInits(want)))' <=> AtMostOne(CloudInits(want))
  BY SameLists
<1>5. RefusedOnlyInvalid'
  BY SameRefusal DEF IInv
<1>6. ASSUME NEW op \in late PROVE Alive(op)' /\ Due(op)'
  <2>1. Alive(op) /\ Due(op)
    BY DEF IInv
  <2>2. Alive(op)'
    BY <2>1 DEF Alive, CanStay, Size, RightVersion, MapVersion, server
  <2>3. Due(op)'
    BY <2>1, SameLists DEF Due, Size, server
  <2>4. QED BY <2>2, <2>3
<1>7. QED BY <1>1, <1>2, <1>3, <1>4, <1>5, <1>6 DEF IInv

\* Growing a disk that has the size already is nothing.
LEMMA GrownBefore ==
  ASSUME TypeOK, NEW s \in Slots, IsDisk(slots[s]), Carried(Resized(s, Size(s)))
  PROVE  UNCHANGED server
<1>1. /\ slots' = slots /\ tpm' = tpm
      /\ volumes' = [volumes EXCEPT ![Name(slots[s])].size = Size(s)]
  BY DEF Carried, Resized, Now
<1>2. /\ Name(slots[s]) \in DOMAIN volumes /\ volumes[Name(slots[s])] \in Volumes
      /\ volumes \in [DOMAIN volumes -> Volumes]
  BY Order
<1>3. [volumes[Name(slots[s])] EXCEPT !.size = Size(s)] = volumes[Name(slots[s])]
  BY <1>2 DEF Volumes, Size
<1>4. QED BY <1>1, <1>2, <1>3 DEF server

\* What a task that nobody waits for can do when it ends: it does what it was asked
\* to, unless that is done already.
LEMMA LateEffect ==
  ASSUME IInv, NEW op \in late,
         \/ UNCHANGED server
         \/ /\ op.slot \in Slots /\ op.kind = "move"
            /\ \E n \in Numbers :
                  /\ IsNext(n, want[op.slot].at, DOMAIN volumes)
                  /\ Carried(Moved(op.slot, want[op.slot].at, n))
         \/ /\ op.slot \in Slots /\ op.kind = "resize"
            /\ Carried(Resized(op.slot, want[op.slot].size))
         \/ op.slot = Tpm /\ Carried(TpmMovedTo(wantTpm.at))
  PROVE  \/ UNCHANGED server
         \/ /\ op.slot \in Slots /\ op.kind = "move" /\ CanStay(op.slot)
            /\ slots[op.slot].at # want[op.slot].at /\ MoveDone(op.slot, want[op.slot].at)
         \/ /\ op.slot \in Slots /\ op.kind = "resize" /\ CanStay(op.slot)
            /\ Size(op.slot) # want[op.slot].size /\ ResizeDone(op.slot, want[op.slot].size)
         \/ /\ op.slot = Tpm /\ wantTpm.kind = "tpm" /\ tpm # Empty /\ tpm.at # wantTpm.at
            /\ RightVersion(tpm) /\ Carried(TpmMovedTo(wantTpm.at))
<1>1. TypeOK /\ op \in Tasks /\ Alive(op)
  BY DEF IInv, TypeOK
<1>2. ASSUME op.slot \in Slots PROVE op.slot # Tpm
  BY <1>2, QemuDisksAssumption
<1>3. ASSUME op.slot \in Slots, op.kind = "move", NEW n \in Numbers,
             IsNext(n, want[op.slot].at, DOMAIN volumes),
             Carried(Moved(op.slot, want[op.slot].at, n))
      PROVE  /\ CanStay(op.slot) /\ slots[op.slot].at # want[op.slot].at
             /\ MoveDone(op.slot, want[op.slot].at)
  <2>1. CanStay(op.slot) /\ slots[op.slot].at # want[op.slot].at
    BY <1>1, <1>2, <1>3 DEF Alive
  <2>2. IsDisk(slots[op.slot]) /\ want[op.slot].at \in Storages
    BY <1>1, <1>3, <2>1, DiskTypes, Kinds DEF CanStay
  <2>3. QED BY <1>1, <1>3, <2>1, <2>2, MoveEffect
<1>4. ASSUME op.slot \in Slots, op.kind = "resize", Carried(Resized(op.slot, want[op.slot].size))
      PROVE  \/ UNCHANGED server
             \/ /\ CanStay(op.slot) /\ Size(op.slot) # want[op.slot].size
                /\ ResizeDone(op.slot, want[op.slot].size)
  <2>1. CanStay(op.slot) /\ IsDisk(slots[op.slot]) /\ want[op.slot].size \in Nat
    BY <1>1, <1>2, <1>4, DiskTypes DEF Alive, CanStay
  <2>2. CASE Size(op.slot) = want[op.slot].size
    BY <1>1, <1>4, <2>1, <2>2, GrownBefore
  <2>3. ResizeDone(op.slot, want[op.slot].size)
    BY <1>1, <1>4, <2>1, ResizeEffect
  <2>4. QED BY <2>1, <2>2, <2>3
<1>5. op.slot = Tpm => wantTpm.kind = "tpm" /\ tpm # Empty /\ tpm.at # wantTpm.at /\ RightVersion(tpm)
  BY <1>1 DEF Alive
<1>6. QED BY <1>3, <1>4, <1>5

\* A task that ends late has done what the update has still before it, or what the
\* next one will find.
LEMMA LateStep == IInv /\ LateTask => IInv'
<1> SUFFICES ASSUME IInv, LateTask PROVE IInv'
  OBVIOUS
<1>0. /\ TypeOK /\ UNCHANGED <<want, wantTpm, current, pc, todo, faults>>
      /\ \A l \in late : l \in Tasks /\ Alive(l) /\ Due(l) /\ faults # 0
      /\ \A l, m \in late : l.slot = m.slot => l = m
  BY DEF IInv, TypeOK, LateTask
<1>1. PICK op \in late :
         /\ late' = late \ {op}
         /\ \/ UNCHANGED server
            \/ /\ op.slot \in Slots /\ op.kind = "move" /\ CanStay(op.slot)
               /\ slots[op.slot].at # want[op.slot].at /\ MoveDone(op.slot, want[op.slot].at)
            \/ /\ op.slot \in Slots /\ op.kind = "resize" /\ CanStay(op.slot)
               /\ Size(op.slot) # want[op.slot].size /\ ResizeDone(op.slot, want[op.slot].size)
            \/ /\ op.slot = Tpm /\ wantTpm.kind = "tpm" /\ tpm # Empty /\ tpm.at # wantTpm.at
               /\ RightVersion(tpm) /\ Carried(TpmMovedTo(wantTpm.at))
  BY LateEffect DEF LateTask
<1>2. CASE UNCHANGED server
  BY <1>0, <1>1, <1>2, Unseen
<1> DEFINE s == op.slot
<1>3. /\ \A l \in late' : l.slot # s
      /\ late' \subseteq late /\ op \in late /\ Due(op)
  BY <1>0, <1>1
<1>4. RefusedOnlyInvalid' /\ Listed' /\ ((AtMostOne(CloudInits(want)))' <=> AtMostOne(CloudInits(want)))
  BY <1>0, SameRefusal, SameLists DEF IInv, Listed

\* A slot is as it was, or its disk was moved or grown.
<1>5. ASSUME InOrder(Now)', TpmProgress', \A t \in Slots : Progress(t)',
             \A l \in late' : Alive(l)' /\ (l.slot \in Slots => Size(l.slot)' = Size(l.slot))
      PROVE  IInv'
  <2>1. TypeOK'
    BY <1>0, <1>3, <1>5 DEF TypeOK
  <2>2. \A l \in late' : Due(l)'
    BY <1>0, <1>3, <1>5, SameLists DEF Due
  <2>3. QED BY <1>0, <1>3, <1>4, <1>5, <2>1, <2>2 DEF IInv
<1>6. ASSUME s \in Slots, CanStay(s), InOrder(Now)', tpm' = tpm, \A t \in Slots \ {s} : Kept(t),
             pc \in {"read", "error", "move", "resize"}, Progress(s)'
      PROVE  IInv'
  <2>1. TpmProgress'
    BY <1>0, <1>6, SameMove DEF IInv, TpmProgress
  <2>2. ASSUME NEW t \in Slots PROVE Progress(t)'
    <3>1. CASE t = s
      BY <1>6, <3>1
    <3>2. CASE t # s
      <4>1. Progress(t) /\ slots'[t] = slots[t] /\ (IsDisk(slots[t]) => Size(t)' = Size(t))
        BY <1>6, <3>2 DEF IInv, Kept, Size
      <4>2. Matches(t) => Matches(t)'
        BY <1>0, <4>1, SameLists DEF Matches
      <4>3. Overtaken(t) => Overtaken(t)'
        BY <1>0, <4>1 DEF Overtaken, CanStay
      <4>4. QED BY <1>0, <1>6, <4>1, <4>2, <4>3 DEF Progress
    <3>3. QED BY <3>1, <3>2
  <2>3. \A l \in late' : Alive(l)' /\ (l.slot \in Slots => Size(l.slot)' = Size(l.slot))
    <3>1. ASSUME NEW l \in late'
          PROVE  IF l.slot = Tpm THEN tpm' = tpm ELSE Kept(l.slot)
      BY <1>0, <1>3, <1>6, <3>1, Operations
    <3>2. QED BY <1>0, <1>3, <3>1, Elsewhere
  <2>4. QED BY <1>5, <1>6, <2>1, <2>2, <2>3
<1>7. CASE /\ s \in Slots /\ op.kind = "move" /\ CanStay(s)
           /\ slots[s].at # want[s].at /\ MoveDone(s, want[s].at)
  <2>1. pc \in {"read", "error"} \/ (pc = "move" /\ s \in todo)
    BY <1>3, <1>7, QemuDisksAssumption DEF Due
  <2>2. CanStay(s)' /\ slots'[s].at = want[s].at
    BY <1>0, <1>7 DEF MoveDone, CanStay, Size
  <2>3. Progress(s)'
    BY <1>0, <1>1, <2>1, <2>2 DEF Progress, Overtaken
  <2>4. QED BY <1>6, <1>7, <2>1, <2>3 DEF MoveDone
<1>8. CASE /\ s \in Slots /\ op.kind = "resize" /\ CanStay(s)
           /\ Size(s) # want[s].size /\ ResizeDone(s, want[s].size)
  <2>1. \/ pc \in {"read", "error"}
        \/ pc \in {"move", "resize"} /\ s \in ToResize(current) /\ (pc = "resize" => s \in todo)
    BY <1>3, <1>8, QemuDisksAssumption DEF Due, IInv, Listed
  <2>2. /\ slots' = slots /\ Size(s)' = want[s].size /\ IsDisk(want[s]) /\ IsDisk(slots[s])
        /\ want[s].size \in Nat
    BY <1>0, <1>8, DiskTypes DEF ResizeDone, CanStay, Size
  <2>3. CASE pc \in {"read", "error"}
    BY <1>0, <1>6, <1>8, <2>3 DEF Progress, ResizeDone
  <2>4. CASE pc \in {"move", "resize"} /\ s \in ToResize(current)
    <3>1. Progress(s)
      BY <1>8 DEF IInv
    <3>2. Matches(s) => Matches(s)'
      BY <1>0, <2>2, <2>4, SameLists DEF Matches, ToResize, Fits
    <3>3. Overtaken(s) => Overtaken(s)'
      BY <1>0, <2>2 DEF Overtaken, CanStay
    <3>4. Progress(s)'
      BY <1>0, <2>4, <3>1, <3>2, <3>3 DEF Progress
    <3>5. QED BY <1>6, <1>8, <2>4, <3>4 DEF ResizeDone
  <2>5. QED BY <2>1, <2>3, <2>4
<1>9. CASE /\ s = Tpm /\ wantTpm.kind = "tpm" /\ tpm # Empty /\ tpm.at # wantTpm.at
           /\ RightVersion(tpm) /\ Carried(TpmMovedTo(wantTpm.at))
  <2>1. /\ slots' = slots /\ volumes' = volumes /\ tpm' # Empty /\ tpm'.at = wantTpm.at
        /\ InOrder(Now)'
    BY <1>0, <1>9, TpmEffect
  <2>2. pc \in {"read", "error", "move", "resize", "tpm"}
    BY <1>3, <1>9, QemuDisksAssumption DEF Due
  <2>3. TpmProgress'
    <3>1. pc \in {"move", "resize", "tpm"} => TpmMoved(current)
      BY <1>9 DEF IInv, TpmProgress, RightVersion, TpmMoved, TpmReplaced, TpmStays
    <3>2. QED BY <1>0, <1>1, <2>1, <2>2, <3>1, SameMove DEF TpmProgress
  <2>4. ASSUME NEW t \in Slots PROVE Progress(t)'
    <3>1. Progress(t) /\ Size(t)' = Size(t)
      BY <2>1 DEF IInv, Size
    <3>2. (Matches(t) => Matches(t)') /\ (Overtaken(t) => Overtaken(t)')
      BY <1>0, <2>1, <3>1, SameLists DEF Matches, Overtaken, CanStay
    <3>3. QED BY <1>0, <2>2, <3>1, <3>2 DEF Progress
  <2>5. \A l \in late' : Alive(l)' /\ (l.slot \in Slots => Size(l.slot)' = Size(l.slot))
    <3>1. ASSUME NEW l \in late'
          PROVE  IF l.slot = Tpm THEN tpm' = tpm ELSE Kept(l.slot)
      BY <1>3, <1>9, <2>1 DEF Kept
    <3>2. QED BY <1>0, <1>3, <3>1, Elsewhere
  <2>6. QED BY <1>5, <2>1, <2>3, <2>4, <2>5
<1>10. QED BY <1>1, <1>2, <1>7, <1>8, <1>9

\* The invariant is inductive.
LEMMA Initial == Init => IInv
<1> SUFFICES ASSUME Init PROVE IInv
  OBVIOUS
<1>1. PICK c \in Situations : /\ slots = c.slots /\ volumes = c.volumes /\ tpm = c.tpm
                              /\ want = c.want /\ wantTpm = c.wantTpm
  BY DEF Init
<1>2. InOrder(Now) /\ want \in [Slots -> Wanted] /\ wantTpm \in WantedTpm
  BY <1>1, QemuDisksAssumption DEF InOrder, Now
<1>3. TypeOK
  BY <1>2, QemuDisksAssumption DEF Init, TypeOK, TpmStates
<1>4. QED BY <1>3 DEF Init, IInv, Listed, Progress, TpmProgress, RefusedOnlyInvalid

\* Every step keeps the invariant.
LEMMA Inductive == IInv /\ [Next]_vars => IInv'
<1> SUFFICES ASSUME IInv, [Next]_vars PROVE IInv'
  OBVIOUS
<1>1. CASE Again
  <2>1. TypeOK'
    BY <1>1 DEF IInv, Again, TypeOK, InOrder, Now, server
  <2>2. \A op \in late : Alive(op)' /\ Due(op)'
    <3>1. \A op \in late : Alive(op)'
      BY <1>1, AllElsewhere DEF IInv, Again
    <3>2. QED BY <1>1, <3>1 DEF Again, Due
  <2>3. QED BY <1>1, <2>1, <2>2 DEF IInv, Again, Listed, Progress, TpmProgress, RefusedOnlyInvalid
<1>2. CASE UNCHANGED vars
  BY <1>2, Unseen DEF vars
<1>3. QED
  BY <1>1, <1>2, ReadStep, MoveStep, ResizeStep, MoveTpmStep, DeleteStep, RereadStep, PutStep,
     GrowStep, LateStep DEF Next

\* So it holds in every state of every behaviour.
LEMMA Invariance == Spec => []IInv
BY Initial, Inductive, PTL DEF Spec

-----------------------------------------------------------------------------
(* What a step does to the data of the disks and of the TPM.               *)

\* A slot from which nothing else is wanted, nor a smaller disk.
Stays(s) == IsDisk(slots[s]) /\ (want[s] = Ignored \/ (IsDisk(want[s]) /\ Size(s) <= want[s].size))

DataStays(s) ==
    /\ IsDisk(slots'[s])
    /\ volumes'[Name(slots'[s])].data = volumes[Name(slots[s])].data

\* A request that does not leave the server as it was has been accepted and
\* carried out, with or without a reply.
LEMMA Effect ==
  ASSUME NEW accepted, NEW h, NEW next, NEW rest, Request(accepted, h, next, rest)
  PROVE  UNCHANGED server \/ (accepted /\ Carried(h))
BY DEF Request, Carried, server

\* So has the request for a task.
LEMMA TaskEffect ==
  ASSUME NEW op, NEW h, NEW next, NEW rest, Run(op, h, next, rest)
  PROVE  UNCHANGED server \/ (Possible(op) /\ Carried(h))
<1>1. CASE Request(Possible(op), h, next, rest)
  <2> DEFINE accepted == Possible(op)
  <2>1. Request(accepted, h, next, rest)
    BY <1>1
  <2> HIDE DEF accepted
  <2>2. UNCHANGED server \/ (accepted /\ Carried(h))
    BY <2>1, Effect
  <2>3. QED BY <2>2 DEF accepted
<1>2. QED BY <1>1 DEF Run, server

\* The steps that have an effect on the server.
LEMMA Effects ==
  ASSUME IInv, [Next]_vars
  PROVE  \/ UNCHANGED server
         \/ \E s \in Slots : /\ pc # "ok" /\ MoveDone(s, want[s].at)
                             /\ CanStay(s) /\ slots[s].at # want[s].at
         \/ \E s \in Slots : pc # "ok" /\ ResizeDone(s, want[s].size) /\ CanStay(s)
         \/ /\ pc # "ok" /\ UNCHANGED <<slots, volumes>>
            /\ tpm # Empty /\ tpm' = [tpm EXCEPT !.at = wantTpm.at]
         \/ pc = "delete" /\ DeleteDone
         \/ pc = "put" /\ PutDone
<1>0. /\ TypeOK
      /\ pc = "move" => todo \subseteq ToMove(current)
      /\ pc = "resize" => todo \subseteq ToResize(current)
      /\ pc = "grow" => todo \subseteq {s \in Slots : IsDisk(want[s])}
      /\ pc = "put" => \A s \in Slots : Known(s)
      /\ \A s \in Slots : IsDisk(want[s]) => want[s].size \in Nat /\ want[s].at \in Storages
  BY DiskTypes, Kinds DEF IInv, Listed, Progress
<1>1. CASE Move
  <2>1. CASE UNCHANGED server
    BY <2>1
  <2>2. ASSUME NEW s \in todo, NEW n \in Numbers, IsNext(n, want[s].at, DOMAIN volumes), pc = "move",
               Run(Op("move", s), Moved(s, want[s].at, n), "move", todo \ {s})
        PROVE  \/ UNCHANGED server
               \/ /\ s \in Slots /\ MoveDone(s, want[s].at)
                  /\ CanStay(s) /\ slots[s].at # want[s].at
    <3>1. s \in Slots /\ want[s].at \in Storages
      BY <1>0, <2>2 DEF ToMove, Fits
    <3>2. \/ UNCHANGED server
          \/ Possible(Op("move", s)) /\ Carried(Moved(s, want[s].at, n))
      BY <2>2, TaskEffect
    <3>3. Possible(Op("move", s)) => IsDisk(slots[s]) /\ slots[s].at # want[s].at
      <4> DEFINE op == Op("move", s)
      <4>1. op.slot = s /\ op.kind = "move" /\ s # Tpm
        BY <3>1, Operations
      <4> HIDE DEF op
      <4>2. Possible(op) => IsDisk(slots[s]) /\ slots[s].at # want[s].at
        BY <3>1, <4>1 DEF Possible
      <4>3. QED BY <4>2 DEF op
    <3>4. IsDisk(slots[s]) /\ slots[s].at # want[s].at => CanStay(s)
      <4>1. Matches(s) \/ Overtaken(s)
        BY <2>2, <3>1 DEF IInv, Progress
      <4>2. /\ IsDisk(want[s]) /\ IsDisk(current.slots[s]) /\ want[s].size >= current.slots[s].size
            /\ want[s].size \in Nat /\ current.slots[s].size \in Nat
        BY <1>0, <2>2, <3>1, DiskTypes DEF ToMove, Fits
      <4>3. QED BY <4>1, <4>2 DEF CanStay, Matches, Overtaken
    <3>5. QED BY <1>0, <2>2, <3>1, <3>2, <3>3, <3>4, MoveEffect
  <2>3. QED BY <1>1, <2>1, <2>2 DEF Move, ListDone
<1>2. ASSUME NEW step \in {"resize", "grow"}, NEW next, Resizes(step, next)
      PROVE  \/ UNCHANGED server
             \/ \E s \in Slots : pc = step /\ ResizeDone(s, want[s].size) /\ CanStay(s)
  <2>1. ASSUME NEW s \in todo, pc = step,
               Run(Op("resize", s), Resized(s, want[s].size), step, todo \ {s})
        PROVE  UNCHANGED server \/ (s \in Slots /\ ResizeDone(s, want[s].size) /\ CanStay(s))
    <3>1. s \in Slots /\ want[s].size \in Nat /\ IsDisk(want[s])
      BY <1>0, <1>2, <2>1 DEF ToResize, Fits
    <3>2. \/ UNCHANGED server
          \/ Possible(Op("resize", s)) /\ Carried(Resized(s, want[s].size))
      BY <2>1, TaskEffect
    <3>3. Possible(Op("resize", s)) => IsDisk(slots[s]) /\ Size(s) <= want[s].size
      <4> DEFINE op == Op("resize", s)
      <4>1. op.slot = s /\ op.kind = "resize" /\ s # Tpm
        BY <3>1, Operations
      <4> HIDE DEF op
      <4>2. Possible(op) => IsDisk(slots[s]) /\ Size(s) <= want[s].size
        BY <3>1, <4>1 DEF Possible, Size
      <4>3. QED BY <4>2 DEF op
    <3>4. QED BY <1>0, <3>1, <3>2, <3>3, ResizeEffect DEF CanStay
  <2>2. QED BY <1>2, <2>1 DEF Resizes, ListDone
<1>3. CASE MoveTpm
  <2>1. CASE TpmMoved(current)
             /\ Run(Op("move", Tpm), TpmMovedTo(wantTpm.at), "delete", CloudInitRemove(current))
    <3>1. \/ UNCHANGED server
          \/ Possible(Op("move", Tpm)) /\ Carried(TpmMovedTo(wantTpm.at))
      BY <2>1, TaskEffect
    <3>2. Possible(Op("move", Tpm)) => tpm # Empty
      BY Operations DEF Possible
    <3>3. wantTpm.kind = "tpm"
      BY <2>1 DEF TpmMoved, TpmStays
    <3>4. QED BY <1>0, <1>3, <3>1, <3>2, <3>3, TpmEffect DEF MoveTpm
  <2>2. QED BY <1>3, <2>1 DEF MoveTpm
<1>4. CASE Delete
  <2> DEFINE h == [Now EXCEPT !.slots = [s \in Slots |-> IF s \in todo THEN Empty ELSE @[s]],
                              !.tpm = IF Tpm \in todo THEN Empty ELSE @]
  <2>1. CASE Request(TRUE, h, AfterDelete, {})
    <3>1. Carried(h) => DeleteDone
      BY <1>0, DeleteEffect
    <3> HIDE DEF h
    <3>2. UNCHANGED server \/ Carried(h)
      BY <2>1, Effect
    <3>3. QED BY <1>4, <3>1, <3>2 DEF Delete
  <2>2. QED BY <1>4, <2>1 DEF Delete
<1>5. CASE Put
  <2> DEFINE h(f) == After(Params(current), TpmParam(current), f)
             accepted(f) == Accepts(Params(current), TpmParam(current), h(f))
  <2>1. PICK f \in Numberings(Params(current)) :
           Request(accepted(f), h(f), "grow", ToGrow(current))
    BY <1>5 DEF Put
  <2>2. pc = "put" /\ (accepted(f) /\ Carried(h(f)) => PutDone)
    BY <1>0, <1>5, PutEffect DEF Put
  <2> HIDE DEF h, accepted
  <2>3. UNCHANGED server \/ (accepted(f) /\ Carried(h(f)))
    BY <2>1, Effect
  <2>4. QED BY <2>2, <2>3
<1>6. CASE Read \/ Reread \/ Again \/ UNCHANGED vars
  BY <1>6 DEF Read, Reread, Again, vars, server
<1>7. CASE LateTask
  <2>1. PICK op \in late :
           \/ UNCHANGED server
           \/ /\ op.slot \in Slots /\ op.kind = "move" /\ CanStay(op.slot)
              /\ slots[op.slot].at # want[op.slot].at /\ MoveDone(op.slot, want[op.slot].at)
           \/ /\ op.slot \in Slots /\ op.kind = "resize" /\ CanStay(op.slot)
              /\ Size(op.slot) # want[op.slot].size /\ ResizeDone(op.slot, want[op.slot].size)
           \/ /\ op.slot = Tpm /\ wantTpm.kind = "tpm" /\ tpm # Empty /\ tpm.at # wantTpm.at
              /\ RightVersion(tpm) /\ Carried(TpmMovedTo(wantTpm.at))
    BY <1>7, LateEffect DEF LateTask
  <2>2. pc = "ok" => op.slot \in Slots /\ op.kind = "resize" /\ op.slot # Tpm
                     /\ Size(op.slot) = want[op.slot].size
    BY DueLate
  <2>3. CASE op.slot = Tpm /\ wantTpm.kind = "tpm" /\ tpm # Empty /\ Carried(TpmMovedTo(wantTpm.at))
    BY <1>0, <2>2, <2>3, TpmEffect
  <2>4. QED BY <2>1, <2>2, <2>3
<1>8. QED BY <1>1, <1>2, <1>3, <1>4, <1>5, <1>6, <1>7 DEF Next, Resize, Grow

\* The data in a slot is moved with its disk, and stays when it is grown, when
\* other slots are emptied and when the disk is sent by its name.
LEMMA DataStep ==
  ASSUME IInv, [Next]_vars, NEW s \in Slots, Stays(s)
  PROVE  DataStays(s)
<1>0. TypeOK /\ IsDisk(slots[s])
  BY DEF IInv, Stays
<1>1. CASE UNCHANGED server
  BY <1>0, <1>1 DEF DataStays, server
<1>2. CASE Kept(s)
  BY <1>0, <1>2 DEF DataStays, Kept
<1>3. ASSUME NEW t \in Slots, MoveDone(t, want[t].at) PROVE DataStays(s)
  <2>1. CASE t = s
    BY <1>3, <2>1 DEF MoveDone, DataStays
  <2>2. CASE t # s
    BY <1>2, <1>3, <2>2 DEF MoveDone
  <2>3. QED BY <2>1, <2>2
<1>4. ASSUME NEW t \in Slots, ResizeDone(t, want[t].size) PROVE DataStays(s)
  <2>1. CASE t = s
    BY <1>0, <1>4, <2>1 DEF ResizeDone, DataStays
  <2>2. CASE t # s
    BY <1>2, <1>4, <2>2 DEF ResizeDone
  <2>3. QED BY <2>1, <2>2
<1>5. CASE UNCHANGED <<slots, volumes>>
  BY <1>0, <1>5 DEF DataStays
<1>6. CASE pc = "delete" /\ DeleteDone
  <2>1. s \in todo => s \in CloudInitRemove(current) /\ Matches(s)
    BY <1>6, QemuDisksAssumption DEF IInv, Listed, Progress
  <2>2. s \notin todo
    BY <1>0, <2>1 DEF Matches, CloudInitRemove, CloudInits, IsDisk
  <2>3. QED BY <1>0, <1>6, <2>2 DEF DeleteDone, DataStays
<1>7. CASE pc = "put" /\ PutDone
  <2>1. PutSlot(s)
    BY <1>7 DEF PutDone
  <2>2. want[s] = Ignored => ~IsDisk(want[s])
    BY Kinds DEF IsDisk
  <2>3. QED BY <1>0, <1>2, <2>1, <2>2 DEF PutSlot, Stays, DataStays
<1>8. QED BY <1>1, <1>3, <1>4, <1>5, <1>6, <1>7, Effects

\* The data of a TPM of the wanted version is deleted at one step only: where an
\* update takes 1.2 without its v for another version.
LEMMA TpmStep ==
  ASSUME IInv, [Next]_vars, SameTpm
  PROVE  \/ tpm' # Empty /\ tpm'.data = tpm.data
         \/ Misspelled /\ pc = "delete" /\ Tpm \in todo /\ tpm' = Empty
<1>0. /\ TypeOK /\ TpmProgress
      /\ tpm # Empty /\ wantTpm.kind # "delete"
      /\ wantTpm.kind = "tpm" => Means(wantTpm.version) \in {tpm.version, "nil"}
      /\ tpm \in [kind : {"tpm"}, at : Storages, version : Versions, data : {Tpm, Blank}]
  BY Order DEF IInv, TpmStates, SameTpm
<1>1. CASE tpm' = tpm
  BY <1>0, <1>1
<1>2. ASSUME NEW s \in Slots, MoveDone(s, want[s].at) \/ ResizeDone(s, want[s].size)
      PROVE  tpm' = tpm
  BY <1>2 DEF MoveDone, ResizeDone
<1>3. CASE tpm' = [tpm EXCEPT !.at = wantTpm.at]
  <2>1. tpm'.kind = "tpm" /\ tpm'.data = tpm.data
    BY <1>0, <1>3
  <2>2. QED BY <2>1, Kinds
<1>4. CASE pc = "delete" /\ DeleteDone
  <2>1. Tpm \in todo => Misspelled
    <3>1. SUFFICES ASSUME Tpm \in todo, ~Misspelled PROVE FALSE
      OBVIOUS
    <3>2. /\ wantTpm.kind = "tpm" /\ wantTpm.version # "nil"
          /\ MapVersion(wantTpm.version) # tpm.version
      BY <1>0, <1>4, <3>1 DEF TpmProgress
    <3>3. wantTpm.version \in Spellings \ {"1.2"}
      BY <1>0, <3>1, <3>2, Order, Kinds DEF Misspelled
    <3>4. Means(wantTpm.version) = MapVersion(wantTpm.version)
      BY <3>2, <3>3 DEF Means, MapVersion, Spellings, Versions
    <3>5. Means(wantTpm.version) \in {tpm.version, "nil"}
      BY <1>0, <3>2
    <3>6. QED BY <3>2, <3>3, <3>4, <3>5 DEF MapVersion, Spellings, Versions
  <2>2. QED BY <1>1, <1>4, <2>1 DEF DeleteDone
<1>5. CASE pc = "put" /\ PutDone
  <2>1. current.tpm # Empty /\ TpmAfter
    BY <1>0, <1>5 DEF TpmProgress, PutDone
  <2>2. TpmParam(current) = Nothing
    BY <1>0, <2>1 DEF TpmParam
  <2>3. QED BY <1>1, <2>1, <2>2 DEF TpmAfter, Nothing
<1>6. QED BY <1>1, <1>2, <1>3, <1>4, <1>5, Effects DEF server

-----------------------------------------------------------------------------
\* Each disk of the server keeps a volume of its own, there is at most one
\* cloud-init drive, and the variables keep their types.
THEOREM TypeCorrect == Spec => []TypeOK
<1>1. IInv => TypeOK
  BY DEF IInv
<1>2. QED BY <1>1, Invariance, PTL

\* SlotsAsWanted: whatever was lost before, an update that returns without an
\* error has brought every slot and the TPM to what was wanted; one that wants the
\* version 1.2 of a TPM never returns so.
THEOREM AsWanted == Spec => []SlotsAsWanted
<1>1. IInv => SlotsAsWanted
  <2> SUFFICES ASSUME IInv, pc = "ok"
             PROVE  ~Misspelled /\ MeetsTpm /\ \A s \in Slots : Meets(want[s], slots[s])
    BY DEF SlotsAsWanted
  <2>1. ~Misspelled /\ MeetsTpm /\ todo = {} /\ \A s \in Slots : Reached(s)
    BY DEF IInv, Listed, TpmProgress, Progress
  <2>2. ASSUME NEW s \in Slots PROVE Meets(want[s], slots[s])
    <3>1. Reached(s) /\ s \notin todo
      BY <2>1
    <3>2. QED BY <3>1, Kinds DEF Reached, Meets, Size, IsDisk
  <2>3. QED BY <2>1, <2>2
<1>2. QED BY <1>1, Invariance, PTL

\* RepeatIsNothing: what an update that succeeded has left makes the next one,
\* for the same configuration, move, grow, delete and send nothing.
THEOREM NothingLeft == Spec => []RepeatIsNothing
<1>1. IInv => RepeatIsNothing
  <2> SUFFICES ASSUME IInv, pc = "ok"
               PROVE  /\ ToMove(Report) \cup ToResize(Report) \cup ToGrow(Report)
                             \cup CloudInitRemove(Report) = {}
                      /\ \A s \in Slots : Params(Report)[s] = Nothing
    BY DEF RepeatIsNothing
  <2>1. TypeOK /\ todo = {} /\ \A s \in Slots : Reached(s)
    BY DEF IInv, Listed, Progress
  <2>2. ASSUME NEW s \in Slots
        PROVE  LET w == want[s]
                   d == Report.slots[s] IN
               \/ w = Ignored
               \/ ~IsDisk(w) /\ d = w
               \/ /\ IsDisk(w) /\ IsDisk(d) /\ d.at = w.at /\ d.opt = w.opt /\ d.size = w.size
                  /\ w.size \in Nat
    <3>1. Reached(s) /\ s \notin todo
      BY <2>1
    <3>2. CASE want[s] = Ignored
      BY <3>2
    <3>3. CASE slots[s] = want[s] /\ ~IsDisk(want[s])
      BY <2>1, <3>3, Reported
    <3>4. CASE /\ IsDisk(want[s]) /\ IsDisk(slots[s]) /\ Size(s) = want[s].size
               /\ slots[s].at = want[s].at /\ slots[s].opt = want[s].opt
      BY <2>1, <3>4, Reported, DiskTypes
    <3>5. QED BY <3>1, <3>2, <3>3, <3>4 DEF Reached
  <2>3. ToMove(Report) \cup ToResize(Report) \cup ToGrow(Report) = {}
    BY <2>2, Kinds DEF ToMove, ToResize, ToGrow, Fits, IsDisk
  <2>4. CloudInitRemove(Report) = {}
    <3>1. SUFFICES ASSUME NEW s \in CloudInitRemove(Report) PROVE FALSE
      OBVIOUS
    <3>2. PICK t \in CloudInits(want) : TRUE
      BY <3>1 DEF CloudInitRemove
    <3>3. /\ s \in Slots /\ t \in Slots /\ s # t
          /\ Report.slots[s].kind = "cloudinit" /\ want[t].kind = "cloudinit"
      BY <3>1, <3>2 DEF CloudInitRemove, CloudInits
    <3>4. slots[s].kind = "cloudinit"
      BY <2>1, <3>3, Reported DEF IsDisk
    <3>5. Report.slots[t] = want[t] /\ ~IsDisk(Report.slots[t])
      BY <2>2, <3>3, Kinds DEF IsDisk
    <3>6. slots[t].kind = "cloudinit"
      BY <2>1, <3>3, <3>5, Reported
    <3>7. AtMostOne(CloudInits(slots))
      BY <2>1, Order
    <3>8. QED BY <3>3, <3>4, <3>6, <3>7 DEF AtMostOne, CloudInits
  <2>5. ASSUME NEW s \in Slots PROVE Params(Report)[s] = Nothing
    <3> DEFINE w == want[s]
               d == Report.slots[s]
    <3>1. Params(Report)[s] = Param(w, d) /\ w \in Wanted
      BY <2>1, Order DEF Params
    <3>2. CASE w = Ignored
      BY <3>1, <3>2, Kinds DEF Param, IsDisk
    <3>3. CASE ~IsDisk(w) /\ w # Ignored /\ d = w
      <4>1. w = Empty \/ w \in Drives
        BY <3>1, <3>3, Shapes
      <4>2. QED BY <3>1, <3>3, <4>1, Kinds DEF Param, IsDisk
    <3>4. CASE /\ IsDisk(w) /\ IsDisk(d) /\ d.at = w.at /\ d.opt = w.opt /\ d.size = w.size
               /\ w.size \in Nat
      <4>1. Fits(w, d)
        BY <3>4 DEF Fits
      <4>2. /\ w # Ignored /\ w # Empty
            /\ w.kind \notin {"cdrom", "cloudinit", "passthrough"}
        BY <3>4, Kinds DEF IsDisk
      <4>3. QED BY <3>1, <3>4, <4>1, <4>2 DEF Param
    <3>5. QED BY <2>2, <3>2, <3>3, <3>4
  <2>6. QED BY <2>3, <2>4, <2>5
<1>2. QED BY <1>1, Invariance, PTL

\* DataKept: no step of any update, whether it fails or not, takes the data from
\* a slot of which nothing else is wanted, nor a smaller disk.
THEOREM DataPreserved == Spec => DataKept
<1>1. IInv /\ [Next]_vars =>
       [\A s \in Slots :
          LET d == Report.slots[s] IN
          (IsDisk(d) /\ (want[s] = Ignored \/ Fits(want[s], d))) =>
              /\ IsDisk(slots'[s])
              /\ volumes'[Name(slots'[s])].data = volumes[Name(d)].data]_vars
  <2> SUFFICES ASSUME IInv, [Next]_vars, NEW s \in Slots, IsDisk(Report.slots[s]),
                      want[s] = Ignored \/ Fits(want[s], Report.slots[s])
               PROVE  /\ IsDisk(slots'[s])
                      /\ volumes'[Name(slots'[s])].data = volumes[Name(Report.slots[s])].data
    OBVIOUS
  <2>1. /\ IsDisk(slots[s]) /\ Name(Report.slots[s]) = Name(slots[s])
        /\ Report.slots[s].size = Size(s)
    BY Reported DEF IInv
  <2>2. TypeOK /\ Size(s) \in Nat /\ (IsDisk(want[s]) => want[s].size \in Nat)
    BY <2>1, DiskTypes DEF IInv
  <2>3. Stays(s)
    BY <2>1, <2>2 DEF Stays, Fits
  <2>4. DataStays(s)
    BY <2>3, DataStep
  <2>5. QED BY <2>1, <2>4 DEF DataStays
<1>2. QED BY <1>1, Invariance, PTL DEF Spec, DataKept

\* RefusedOnlyInvalid: however the devices change places, the server takes every
\* request of an update that Validate lets begin and of which none is lost,
\* unless a TPM is asked for with the version 1.2, which the server does not know
\* under this name.
THEOREM NeverRefused == Spec => []RefusedOnlyInvalid
<1>1. IInv => RefusedOnlyInvalid
  BY DEF IInv
<1>2. QED BY <1>1, Invariance, PTL

\* TpmKept: a TPM that has the wanted version keeps its data through every step,
\* however the version is spelled; with the spelling 1.2 it is lost, but at no
\* other step than the one that deletes what was taken for another version.
THEOREM TpmPreserved == Spec => TpmKept
<1>1. IInv /\ [Next]_vars =>
         [SameTpm => \/ tpm' # Empty /\ tpm'.data = tpm.data
                     \/ Misspelled /\ pc = "delete" /\ Tpm \in todo /\ tpm' = Empty]_vars
  BY TpmStep
<1>2. QED BY <1>1, Invariance, PTL DEF Spec, TpmKept

-----------------------------------------------------------------------------
(* The refinement of Reconfiguration.                                      *)

\* What is wanted never changes, and an update that has returned is only called
\* once more, which leaves the server alone.
LEMMA CallStep ==
  ASSUME [Next]_vars
  PROVE  /\ UNCHANGED <<want, wantTpm>>
         /\ pc \in Returned /\ pc' # pc => pc' = "read" /\ UNCHANGED server
BY DEF Next, Read, Move, Resize, Resizes, MoveTpm, Delete, Reread, Put, Grow, Again, LateTask,
       ListDone, Request, Run, vars, server, Returned

\* A slot that is as wanted stays so: its disk is neither moved nor grown, it is
\* not emptied, and what the PUT says of it is what it has.
LEMMA MeetsStep ==
  ASSUME IInv, [Next]_vars, NEW s \in Slots, Meets(want[s], slots[s])
  PROVE  Meets(want[s], slots[s])'
<1> DEFINE w == want[s]
<1>0. /\ TypeOK /\ w' = w /\ w \in Wanted
      /\ w # Ignored /\ ~IsDisk(w) => slots[s] = w
      /\ IsDisk(w) => /\ IsDisk(slots[s]) /\ slots[s].at = w.at /\ slots[s].opt = w.opt
                      /\ Size(s) = w.size /\ w.size \in Nat
  BY CallStep, Order, Kinds, DiskTypes DEF IInv, Meets, Size, IsDisk
<1>1. CASE w = Ignored
  BY <1>0, <1>1, Kinds DEF Meets, IsDisk
<1>2. CASE w # Ignored /\ (UNCHANGED server \/ UNCHANGED <<slots, volumes>> \/ Kept(s))
  BY <1>0, <1>2, Kinds DEF Meets, Kept, server, Size, IsDisk
<1>3. ASSUME w # Ignored, NEW t \in Slots, CanStay(t), MoveDone(t, want[t].at)
      PROVE  Meets(want[s], slots[s])'
  <2>1. CASE t = s
    <3>1. IsDisk(w)
      BY <1>3, <2>1 DEF CanStay
    <3>2. QED BY <1>0, <1>3, <2>1, <3>1, Kinds DEF MoveDone, Meets, Size, IsDisk
  <2>2. CASE t # s
    BY <1>2, <1>3, <2>2 DEF MoveDone
  <2>3. QED BY <2>1, <2>2
<1>4. ASSUME w # Ignored, NEW t \in Slots, ResizeDone(t, want[t].size)
      PROVE  Meets(want[s], slots[s])'
  <2>1. CASE t = s
    BY <1>0, <1>4, <2>1, Kinds DEF ResizeDone, Meets, Size, IsDisk
  <2>2. CASE t # s
    BY <1>2, <1>4, <2>2 DEF ResizeDone
  <2>3. QED BY <2>1, <2>2
<1>5. CASE w # Ignored /\ pc = "delete" /\ DeleteDone
  <2>1. s \in todo => s \in CloudInitRemove(current) /\ Matches(s)
    BY <1>5, QemuDisksAssumption DEF IInv, Listed, Progress
  <2>2. s \notin todo
    BY <1>0, <1>5, <2>1 DEF Matches, CloudInitRemove, CloudInits, IsDisk
  <2>3. QED BY <1>2, <1>5, <2>2 DEF DeleteDone, Kept
<1>6. CASE w # Ignored /\ pc = "put" /\ PutDone
  <2>1. PutSlot(s)
    BY <1>6 DEF PutDone
  <2>2. CASE IsDisk(w)
    BY <1>0, <1>6, <2>1, <2>2, Kinds DEF PutSlot, Meets, Size, IsDisk
  <2>3. CASE ~IsDisk(w)
    BY <1>0, <1>6, <2>1, <2>3 DEF PutSlot, Meets
  <2>4. QED BY <2>2, <2>3
<1>7. QED BY <1>1, <1>2, <1>3, <1>4, <1>5, <1>6, Effects

\* A TPM that is as wanted stays so, unless its version is spelled in the way that
\* the server does not know.
LEMMA MeetsTpmStep ==
  ASSUME IInv, [Next]_vars, ~Misspelled, MeetsTpm
  PROVE  MeetsTpm'
<1>0. /\ TypeOK /\ TpmProgress /\ wantTpm' = wantTpm
      /\ wantTpm \in WantedTpm /\ tpm \in TpmStates
  BY CallStep, Order DEF IInv
<1>1. CASE tpm' = tpm
  BY <1>0, <1>1 DEF MeetsTpm
<1>2. ASSUME NEW s \in Slots, MoveDone(s, want[s].at) \/ ResizeDone(s, want[s].size)
      PROVE  tpm' = tpm
  BY <1>2 DEF MoveDone, ResizeDone
<1>3. CASE wantTpm.kind = "tpm"
  <2>1. tpm # Empty /\ Means(wantTpm.version) \in {tpm.version, "nil"} /\ tpm.at = wantTpm.at
    BY <1>0, <1>3, Kinds DEF MeetsTpm
  <2>2. CASE tpm' = [tpm EXCEPT !.at = wantTpm.at]
    <3>1. tpm' = tpm
      BY <1>0, <2>1, <2>2 DEF TpmStates
    <3>2. QED BY <1>1, <3>1
  <2>3. CASE pc = "delete" /\ DeleteDone
    <3>1. Tpm \notin todo
      <4>1. SUFFICES ASSUME Tpm \in todo PROVE FALSE
        OBVIOUS
      <4>2. wantTpm.version # "nil" /\ MapVersion(wantTpm.version) # tpm.version
        BY <1>0, <2>3, <4>1 DEF TpmProgress
      <4>3. wantTpm.version \in Spellings \ {"1.2"}
        BY <1>0, <1>3, Kinds DEF Misspelled
      <4>4. QED BY <2>1, <4>2, <4>3 DEF Means, MapVersion, Spellings, Versions
    <3>2. QED BY <1>1, <2>3, <3>1 DEF DeleteDone
  <2>4. CASE pc = "put" /\ PutDone
    <3>1. current.tpm # Empty /\ TpmAfter
      BY <1>0, <2>1, <2>4 DEF TpmProgress, PutDone
    <3>2. TpmParam(current) = Nothing
      BY <1>3, <3>1 DEF TpmParam
    <3>3. QED BY <1>1, <3>1, <3>2 DEF TpmAfter, Nothing
  <2>5. QED BY <1>1, <1>2, <2>2, <2>3, <2>4, Effects DEF server
<1>4. CASE wantTpm.kind = "delete"
  <2>1. tpm = Empty
    BY <1>4 DEF MeetsTpm
  <2>2. CASE pc = "put" /\ PutDone
    BY <1>1, <1>4, <2>1, <2>2 DEF PutDone, TpmAfter, TpmParam, Deletion
  <2>3. CASE pc = "delete" /\ DeleteDone
    BY <1>1, <2>1, <2>3 DEF DeleteDone
  <2>4. QED BY <1>1, <1>2, <2>1, <2>2, <2>3, Effects DEF server
<1>5. CASE wantTpm.kind \notin {"tpm", "delete"}
  BY <1>0, <1>5 DEF MeetsTpm
<1>6. QED BY <1>3, <1>4, <1>5

\* A step of the update is a step of the promise.
LEMMA PromiseStep ==
  IInv /\ SlotsAsWanted' /\ [Next]_vars => [Promise!Next]_(Promise!vars)
<1> SUFFICES ASSUME IInv, SlotsAsWanted', [Next]_vars
             PROVE  Promise!Next \/ UNCHANGED Promise!vars
  OBVIOUS
<1>0. (Misspelled' <=> Misspelled) /\ Promised' = Promised
  BY CallStep DEF Misspelled, Promised
<1>1. Achieved \subseteq Achieved' /\ Achieved' \subseteq Promised
  BY <1>0, MeetsStep, MeetsTpmStep DEF Achieved, Promised
<1>2. Promise!Advance /\ Promise!GiveUp
  BY <1>0, <1>1 DEF Promise!Advance, Promise!GiveUp, Promised
<1>3. CASE pc \notin Returned /\ pc' \notin Returned
  BY <1>2, <1>3 DEF Promise!Next, Promise!Work
<1>4. CASE pc \notin Returned /\ pc' = "ok"
  <2>1. Promised \subseteq Achieved'
    BY <1>0, <1>4 DEF SlotsAsWanted, Achieved, Promised
  <2>2. Promised' \subseteq Achieved'
    BY <1>0, <2>1
  <2>3. QED BY <1>2, <1>4, <2>2 DEF Promise!Next, Promise!Succeed, Returned
<1>5. CASE pc \notin Returned /\ pc' = "error"
  BY <1>2, <1>5 DEF Promise!Next, Promise!Fail, Returned
<1>6. CASE pc \in Returned /\ pc' = pc
  BY <1>0, <1>2, <1>6 DEF Promise!Next, Promise!Outlive, Promised, Returned
<1>7. CASE pc \in Returned /\ pc' # pc
  <2>1. pc' = "read" /\ UNCHANGED <<server, want, wantTpm>>
    BY <1>7, CallStep
  <2>2. UNCHANGED Achieved
    BY <1>0, <2>1 DEF Achieved, server, Meets, MeetsTpm
  <2>3. QED BY <1>0, <1>7, <2>1, <2>2 DEF Promise!Next, Promise!Again, Promised, Returned
<1>8. QED BY <1>3, <1>4, <1>5, <1>6, <1>7 DEF Returned

\* Refinement: no step of any update, nor a task that ends late, undoes what a slot
\* or the TPM has of what is wanted, and an update that returns without an error
\* leaves nothing undone; but nothing is promised of a TPM whose version is
\* spelled 1.2.
THEOREM Refinement == Spec => ImplementsReconfiguration
<1>1. Init => Promise!Init
  BY DEF Init, Promise!Init, Achieved, Promised, Returned
<1>2. QED
  BY <1>1, Invariance, AsWanted, PromiseStep, PTL
     DEF Spec, ImplementsReconfiguration, Promise!Spec

-----------------------------------------------------------------------------
(* The refinement of AttachedDisks.                                        *)

\* The refinement mapping, slot by slot.
LEMMA DeviceOf ==
  ASSUME TypeOK, NEW s \in Slots
  PROVE  /\ IsDisk(Device(s)) <=> IsDisk(slots[s])
         /\ IsDisk(slots[s]) => Device(s) = [kind |-> "disk", at |-> slots[s].at, opt |-> slots[s].opt,
                                             size |-> Size(s),
                                             data |-> volumes[Name(slots[s])].data]
         /\ ~IsDisk(slots[s]) => Device(s) = slots[s]
         /\ Device(s).kind = slots[s].kind
         /\ Device(s) \in {Empty} \cup Drives
                          \cup [kind : {"disk"}, at : Storages, opt : Options, size : Nat,
                                data : Slots \cup {Blank}]
<1>1. CASE IsDisk(slots[s])
  <2>1. slots[s] \in Disks /\ volumes[Name(slots[s])] \in Volumes
    BY <1>1, Order, DiskTypes
  <2>2. QED BY <1>1, <2>1, Kinds DEF Device, Size, IsDisk, Volumes
<1>2. CASE ~IsDisk(slots[s])
  BY <1>2, Order, Shapes DEF Device, IsDisk
<1>3. QED BY <1>1, <1>2

\* A slot that is kept with its volume holds the same device.
LEMMA DeviceKept ==
  ASSUME TypeOK, NEW s \in Slots, Kept(s)
  PROVE  Device(s)' = Device(s)
BY DEF Kept, Device
Attachment == [s \in Slots |-> Device(s)]

\* What the abstract specification says of a disk that can stay.
LEMMA StaysOf ==
  ASSUME TypeOK, NEW s \in Slots
  PROVE  Attached!Stays(s) <=> CanStay(s)
<1>1. Attachment[s] = Device(s)
  BY DEF Attachment
<1>2. QED BY <1>1, DeviceOf DEF Attached!Stays, Attached!IsDisk, CanStay, IsDisk, Attachment

\* A disk that is moved changes its name, and its storage alone.
LEMMA AttachedMove ==
  ASSUME TypeOK, NEW s \in Slots, MoveDone(s, want[s].at), CanStay(s),
         slots[s].at # want[s].at
  PROVE  Attached!Move
<1>1. Device(s).at = slots[s].at /\ Device(s)' = [Device(s) EXCEPT !.at = want[s].at]
  <2>1. Device(s) = [kind |-> "disk", at |-> slots[s].at, opt |-> slots[s].opt,
                     size |-> Size(s), data |-> volumes[Name(slots[s])].data]
    BY DeviceOf DEF CanStay
  <2>2. Device(s)' = [kind |-> "disk", at |-> want[s].at, opt |-> slots[s].opt,
                      size |-> Size(s), data |-> volumes[Name(slots[s])].data]
    BY DEF Device, MoveDone, Size
  <2>3. QED BY <2>1, <2>2
<1>2. \A t \in Slots \ {s} : Device(t)' = Device(t)
  BY DeviceKept DEF MoveDone
<1>3. Attachment' = [Attachment EXCEPT ![s].at = want[s].at]
  BY <1>1, <1>2 DEF Attachment
<1>4. Attachment[s].at # want[s].at /\ Attached!Stays(s)
  BY <1>1, StaysOf DEF Attachment
<1>5. QED BY <1>3, <1>4 DEF Attached!Move, Attachment

\* A disk that is grown changes its size alone.
LEMMA AttachedGrow ==
  ASSUME TypeOK, NEW s \in Slots, ResizeDone(s, want[s].size), CanStay(s)
  PROVE  Attached!Grow
<1>1. Device(s)' = [Device(s) EXCEPT !.size = want[s].size]
  <2>1. Device(s) = [kind |-> "disk", at |-> slots[s].at, opt |-> slots[s].opt,
                     size |-> Size(s), data |-> volumes[Name(slots[s])].data]
    BY DeviceOf DEF CanStay
  <2>2. Device(s)' = [kind |-> "disk", at |-> slots[s].at, opt |-> slots[s].opt,
                      size |-> want[s].size, data |-> volumes[Name(slots[s])].data]
    BY DEF Device, ResizeDone, CanStay
  <2>3. QED BY <2>1, <2>2
<1>2. \A t \in Slots \ {s} : Device(t)' = Device(t)
  BY DeviceKept DEF ResizeDone
<1>3. Attachment' = [Attachment EXCEPT ![s].size = want[s].size]
  BY <1>1, <1>2 DEF Attachment
<1>4. QED BY <1>3, StaysOf DEF Attached!Grow, Attachment

\* What is deleted before the PUT is a cloud-init drive that is wanted elsewhere, if
\* it is not the TPM alone.
LEMMA AttachedDetach ==
  ASSUME IInv, pc = "delete", DeleteDone
  PROVE  Attached!Detach \/ UNCHANGED Attachment
<1>1. /\ TypeOK /\ todo \ {Tpm} = CloudInitRemove(current)
      /\ \A s \in Slots : Matches(s)
  BY DEF IInv, Listed, Progress
<1> DEFINE S == CloudInitRemove(current)
<1>2. \A s \in Slots : s \in todo <=> s \in S
  BY <1>1, QemuDisksAssumption
<1>3. \A s \in S : /\ s \in Slots /\ slots[s].kind = "cloudinit" /\ s \notin CloudInits(want)
                   /\ CloudInits(want) # {}
  BY <1>1 DEF CloudInitRemove, CloudInits, Matches, IsDisk
<1>4. Attachment' = [s \in Slots |-> IF s \in S THEN Empty ELSE Attachment[s]]
  BY <1>2, Kinds DEF DeleteDone, Device, IsDisk, Attachment
<1>5. S \subseteq Attached!CloudInits(Attachment) \ Attached!CloudInits(want)
  BY <1>1, <1>3, DeviceOf DEF Attached!CloudInits, CloudInits, Attachment
<1>6. CASE S = {}
  BY <1>4, <1>6 DEF Attachment
<1>7. CASE S # {}
  <2>1. CloudInits(want) # {} /\ CloudInits(want) = Attached!CloudInits(want)
    BY <1>3, <1>7 DEF CloudInits, Attached!CloudInits
  <2> HIDE DEF S
  <2>2. QED BY <1>4, <1>5, <2>1 DEF Attached!Detach, Attachment
<1>8. QED BY <1>6, <1>7

\* A PUT sets every device as it may be set, although it names disks by what was
\* read of them.
LEMMA AttachedSet ==
  ASSUME TypeOK, TypeOK', PutDone, UNCHANGED want
  PROVE  Attached!SetAll
<1>1. Attachment' \in [Slots -> {Empty} \cup Drives
                                 \cup [kind : {"disk"}, at : Storages, opt : Options, size : Nat,
                                       data : Slots \cup {Blank}]]
  <2>1. \A s \in Slots : IsDisk(slots'[s]) => slots'[s] \in Disks /\ volumes'[Name(slots'[s])] \in Volumes
    <3>1. /\ slots' \in [Slots -> Devices]
          /\ volumes' \in [DOMAIN volumes' -> Volumes]
          /\ \A s \in Slots : IsDisk(slots'[s]) => Name(slots'[s]) \in DOMAIN volumes'
      BY DEF TypeOK, InOrder, Now
    <3>2. QED BY <3>1, Shapes
  <2>2. \A s \in Slots : ~IsDisk(slots'[s]) => slots'[s] \in {Empty} \cup Drives
    BY Shapes DEF TypeOK, InOrder, Now
  <2>3. QED BY <2>1, <2>2, Kinds DEF Attachment, Device, Volumes
<1>2. Attached!AtMostOne(Attached!CloudInits(Attachment'))
  <2>1. \A s \in Slots : Attachment'[s].kind = slots'[s].kind
    BY DEF Attachment, Device, IsDisk
  <2>2. AtMostOne(CloudInits(slots'))
    BY DEF TypeOK, InOrder, Now
  <2>3. QED BY <2>1, <2>2 DEF AtMostOne, CloudInits, Attached!AtMostOne, Attached!CloudInits
<1>3. ASSUME NEW s \in Slots PROVE Attached!Set(s)
  <2> DEFINE w == want[s]
  <2>1. /\ PutSlot(s) /\ Attachment[s] = Device(s) /\ Attachment'[s] = Device(s)'
        /\ Attached!Stays(s) <=> CanStay(s)
    BY StaysOf DEF PutDone, Attachment
  <2>2. CASE w = Ignored /\ Kept(s)
    BY <2>1, <2>2, DeviceKept DEF Attached!Set, Attachment
  <2>3. CASE w # Ignored /\ ~IsDisk(w) /\ slots'[s] = w
    <3>1. Device(s)' = w
      BY <2>3 DEF Device
    <3>2. QED BY <2>1, <2>3, <3>1 DEF Attached!Set, Attached!IsDisk, IsDisk, Attachment
  <2>4. CASE /\ IsDisk(w) /\ IsDisk(slots'[s]) /\ slots'[s].at = w.at /\ slots'[s].opt = w.opt
             /\ IsDisk(slots[s]) /\ Size(s) = w.size
             /\ Name(slots'[s]) = Name(slots[s])
             /\ volumes'[Name(slots'[s])] = volumes[Name(slots[s])]
    <3>1. Device(s) = [kind |-> "disk", at |-> slots[s].at, opt |-> slots[s].opt,
                       size |-> w.size, data |-> volumes[Name(slots[s])].data]
      BY <2>4, DeviceOf
    <3>2. Device(s)' = [kind |-> "disk", at |-> w.at, opt |-> w.opt,
                        size |-> w.size, data |-> volumes[Name(slots[s])].data]
      BY <2>4 DEF Device, Size
    <3>3. slots[s].at = w.at
      BY <2>4 DEF Name
    <3>4. CanStay(s)
      BY <2>4, DiskTypes DEF CanStay
    <3>5. QED BY <2>1, <3>1, <3>2, <3>3, <3>4 DEF Attached!Set, Attachment
  <2>5. CASE /\ IsDisk(w) /\ IsDisk(slots'[s]) /\ slots'[s].at = w.at /\ slots'[s].opt = w.opt
             /\ ~(IsDisk(slots[s]) /\ Size(s) <= w.size)
             /\ volumes'[Name(slots'[s])] = [size |-> IF w.size % Gibibyte = 0 THEN w.size ELSE 0,
                                             data |-> Blank]
    <3>1. Device(s)' = [kind |-> "disk", at |-> w.at, opt |-> w.opt, data |-> Blank,
                        size |-> IF w.size % Gibibyte = 0 THEN w.size ELSE 0]
      BY <2>5 DEF Device
    <3>2. ~CanStay(s)
      BY <2>5 DEF CanStay
    <3>3. QED BY <2>1, <2>5, <3>1, <3>2
             DEF Attached!Set, Attached!NewDisk, Attached!IsDisk, IsDisk, Attachment
  <2>6. QED BY <2>1, <2>2, <2>3, <2>4, <2>5 DEF PutSlot
<1>4. QED BY <1>1, <1>2, <1>3 DEF Attached!SetAll, Attachment

\* A request leads to where its caller goes on, or to the error.
LEMMA Requested ==
  ASSUME NEW accepted, NEW h, NEW next, NEW rest, Request(accepted, h, next, rest)
  PROVE  pc' \in {next, "error"}
BY DEF Request

\* So does the request for a task.
LEMMA TaskRequested ==
  ASSUME NEW op, NEW h, NEW next, NEW rest, Run(op, h, next, rest)
  PROVE  pc' \in {next, "error"}
BY DEF Run, Request

\* A call ends without an error when its last list is empty, with no request.
LEMMA EndOfCall ==
  ASSUME [Next]_vars, pc # "ok", pc' = "ok"
  PROVE  UNCHANGED server
<1>1. ~(Read \/ Reread \/ Again \/ LateTask \/ UNCHANGED vars)
  BY DEF Read, ReadFails, Reread, Again, LateTask, vars
<1>2. ~(Move \/ Resize)
  BY TaskRequested DEF Move, Resize, Resizes, ListDone
<1>3. ~MoveTpm
  <2>1. ASSUME Run(Op("move", Tpm), TpmMovedTo(wantTpm.at), "delete", CloudInitRemove(current))
        PROVE  FALSE
    BY <2>1, TaskRequested
  <2>2. QED BY <2>1 DEF MoveTpm
<1>4. ~Delete
  <2>1. AfterDelete # "ok"
    BY DEF AfterDelete
  <2>2. ASSUME Request(TRUE,
                       [Now EXCEPT !.slots = [s \in Slots |-> IF s \in todo THEN Empty ELSE @[s]],
                                   !.tpm = IF Tpm \in todo THEN Empty ELSE @],
                       AfterDelete, {})
        PROVE  FALSE
    BY <2>1, <2>2, Requested
  <2>3. QED BY <2>1, <2>2 DEF Delete
<1>5. ~Put
  BY Requested DEF Put
<1>6. CASE Grow
  <2>1. ASSUME NEW s \in todo,
               Run(Op("resize", s), Resized(s, want[s].size), "grow", todo \ {s})
        PROVE  FALSE
    BY <2>1, TaskRequested
  <2>2. QED BY <1>6, <2>1 DEF Grow, Resizes, ListDone, server
<1>7. QED BY <1>1, <1>2, <1>3, <1>4, <1>5, <1>6 DEF Next

\* A step of the update is one of the abstract one.
LEMMA AttachedStep ==
  IInv /\ IInv' /\ SlotsAsWanted' /\ [Next]_vars => [Attached!Next]_(Attached!vars)
<1> SUFFICES ASSUME IInv, IInv', SlotsAsWanted', [Next]_vars
             PROVE  Attached!Next \/ UNCHANGED Attached!vars
  OBVIOUS
<1>1. TypeOK /\ TypeOK' /\ UNCHANGED want
  BY CallStep DEF IInv
<1>2. UNCHANGED <<slots, volumes>> => UNCHANGED Attachment
  BY DEF Attachment, Device
<1>3. \/ UNCHANGED Attachment
      \/ pc # "ok" /\ (Attached!Move \/ Attached!Grow)
      \/ pc \in {"delete", "put"} /\ (Attached!Detach \/ Attached!SetAll)
  BY <1>1, <1>2, AttachedMove, AttachedGrow, AttachedDetach, AttachedSet, Effects DEF server
<1>4. CASE pc \notin Returned /\ pc' # "ok"
  BY <1>1, <1>3, <1>4 DEF Attached!Next, Attached!Request, Attachment, Returned
<1>5. CASE pc \notin Returned /\ pc' = "ok"
  <2>1. UNCHANGED <<slots, volumes>>
    <3>1. pc # "ok"
      BY <1>5 DEF Returned
    <3>2. UNCHANGED server
      BY <1>5, <3>1, EndOfCall
    <3>3. QED BY <3>2 DEF server
  <2>2. ASSUME NEW s \in Slots PROVE Attached!Met(s)
    <3>1. Meets(want[s], slots[s]) /\ Attachment[s] = Device(s)
      BY <1>1, <1>5, <2>1 DEF SlotsAsWanted, Meets, Attachment
    <3>2. CASE want[s] = Ignored
      BY <3>2 DEF Attached!Met
    <3>3. CASE want[s] # Ignored /\ ~IsDisk(want[s])
      <4>1. Device(s) = want[s]
        BY <1>1, <3>1, <3>3, DeviceOf DEF Meets
      <4>2. QED BY <3>1, <3>3, <4>1 DEF Attached!Met, Attached!IsDisk, IsDisk, Attachment
    <3>4. CASE want[s] # Ignored /\ IsDisk(want[s])
      <4>1. /\ IsDisk(slots[s]) /\ <<want[s].at, want[s].opt>> = <<slots[s].at, slots[s].opt>>
            /\ Size(s) = want[s].size
        BY <3>1, <3>4 DEF Meets, Size
      <4>2. /\ IsDisk(Device(s)) /\ Device(s).at = want[s].at /\ Device(s).opt = want[s].opt
            /\ Device(s).size = want[s].size
        BY <1>1, <4>1, DeviceOf
      <4>3. QED BY <3>1, <3>4, <4>2 DEF Attached!Met, Attached!IsDisk, IsDisk, Attachment
    <3>5. QED BY <3>2, <3>3, <3>4
  <2>3. QED BY <1>1, <1>2, <1>5, <2>1, <2>2
           DEF Attached!Next, Attached!Succeed, Attachment, Returned
<1>6. CASE pc \in Returned
  <2>1. pc' = pc \/ (pc' = "read" /\ UNCHANGED server)
    BY <1>6, CallStep
  <2>2. CASE pc' = "read" /\ UNCHANGED server
    BY <1>1, <1>2, <1>6, <2>2 DEF Attached!Next, Attached!Again, Attachment, server, Returned
  <2>3. CASE pc' = pc
    <3>1. UNCHANGED Attachment \/ (pc = "error" /\ (Attached!Move \/ Attached!Grow))
      BY <1>3, <1>6 DEF Returned
    <3>2. CASE UNCHANGED Attachment
      BY <1>1, <2>3, <3>2 DEF Attached!vars, Attachment
    <3>3. CASE pc = "error" /\ (Attached!Move \/ Attached!Grow)
      BY <1>1, <2>3, <3>3 DEF Attached!Next, Attached!Outlive, Returned
    <3>4. QED BY <3>1, <3>2, <3>3
  <2>4. QED BY <2>1, <2>2, <2>3
<1>7. QED BY <1>4, <1>5, <1>6

\* NamesDoNotMatter: the update treats each disk as if it had no name, through
\* moves that rename disks and updates that fail anywhere.
THEOREM NamesDoNotMatter == Spec => ImplementsAttachedDisks
<1>1. Init => Attached!Init
  <2> SUFFICES ASSUME Init PROVE Attached!Init
    OBVIOUS
  <2>1. TypeOK
    BY Initial DEF IInv
  <2>2. /\ \A s \in Slots : Device(s) \in {Empty} \cup Drives
                           \cup [kind : {"disk"}, at : Storages, opt : Options, size : Nat,
                                 data : Slots \cup {Blank}]
        /\ \A s \in Slots : Attachment[s].kind = slots[s].kind
    BY <2>1, DeviceOf DEF Attachment
  <2>3. AtMostOne(CloudInits(slots)) /\ want \in [Slots -> Wanted] /\ pc \notin Returned
    BY <2>1, Order DEF Init, Returned
  <2>4. Attached!AtMostOne(Attached!CloudInits(Attachment))
    BY <2>2, <2>3 DEF AtMostOne, CloudInits, Attached!AtMostOne, Attached!CloudInits
  <2>5. QED BY <2>2, <2>3, <2>4 DEF Attached!Init, Attachment
<1>2. QED
  BY <1>1, Invariance, AsWanted, AttachedStep, PTL DEF Spec, ImplementsAttachedDisks, Attached!Spec
==============================================================================
