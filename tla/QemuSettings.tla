---------------------------- MODULE QemuSettings ----------------------------
(***************************************************************************)
(* The settings of a virtual machine, one part of them at a time: what a   *)
(* call makes of the parameters the server has (ConfigQemu.mapToStruct,    *)
(* Validate and mapToAPI in proxmox/config_qemu.go, with those of the      *)
(* parts).  Update reads the settings, checks what is wanted against them, *)
(* computes one PUT from both and sends it.  The digest that the server    *)
(* returns is never sent back, so that a change that somebody makes in     *)
(* between goes unnoticed.  A program may want a few fields, or send back  *)
(* what it read with another call before.                                  *)
(***************************************************************************)
EXTENDS QemuMemory, QemuCpu, CloudInit, QemuDevices

CONSTANTS Parts,
          Majors,      \* the major versions the server may have
          VmId,
          MaxOthers,   \* changes that others make
          MaxFaults,   \* requests that are lost, there or back
          Stored(_, _, _),  \* the parameters of a part that a guest may have
          Foreign(_, _),    \* those of them that others may write
          Asked(_, _)    \* what callers want of a part

AllParts == {"memory", "cpu", "cloudinit", "agent", "serials", "tags",
             "net", "usb", "hostpci", "options", "vga", "rng", "efi"}

\* The objects that describe a part, and the parameters that a guest may have of
\* it.
Objects(p) ==
    CASE p = "memory" -> MemoryObjects
      [] p = "cpu" -> CpuObjects
      [] p = "cloudinit" -> CloudInitObjects
      [] p = "agent" -> AgentObjects
      [] p = "serials" -> [Serials -> {Nil} \cup PortObjects]
      [] p = "tags" -> Seq(Strings)
      [] p = "net" -> [Devices -> {Nil} \cup NetObjects]
      [] p = "usb" -> [Devices -> {Nil} \cup UsbObjects]
      [] p = "hostpci" -> [Devices -> {Nil} \cup PciObjects]
      [] p = "options" -> OptionObjects
      [] p \in {"vga", "rng"} -> WordObjects
      [] p = "efi" -> EfiObjects

Guests(p, v) ==
    CASE p = "memory" -> MemoryParams
      [] p = "cpu" -> CpuParams
      [] p = "cloudinit" -> CloudInitParams(v)
      [] p = "agent" -> [agent : {Nil} \cup AgentParams]
      [] p = "serials" ->
            [serial : {f \in [Serials -> {Nil} \cup PortParams] :
                          \A i \in Serials : f[i] # Nil => i <= MaxSerial}]
      [] p = "tags" -> [tags : {Nil} \cup TagParams]
      [] p = "net" -> [net : [Devices -> {Nil} \cup NetParams]]
      [] p = "usb" -> [usb : [Devices -> {Nil} \cup UsbParams]]
      [] p = "hostpci" -> [hostpci : [Devices -> {Nil} \cup PciParams]]
      [] p = "options" -> OptionParams
      [] p = "vga" -> [vga : {Nil} \cup WordParams]
      [] p = "rng" -> [rng : {Nil} \cup WordParams]
      [] p = "efi" -> [efi : {Nil} \cup EfiParams]

\* What a guest has of it that is not there yet.
Nothing(p) ==
    CASE p = "memory" -> NoMemory
      [] p = "cpu" -> NoCpu
      [] p = "cloudinit" -> NoCloudInit
      [] p = "serials" -> [serial |-> [i \in Serials |-> Nil]]
      [] p \in {"net", "usb", "hostpci"} -> [q \in {p} |-> [d \in Devices |-> Nil]]
      [] p = "options" -> [q \in DOMAIN OptionDefaults |-> Nil]
      [] OTHER -> [q \in {p} |-> Nil]

ASSUME QemuSettingsAssumption ==
    /\ Parts \subseteq AllParts
    /\ Majors \subseteq Nat
    /\ {MaxOthers, MaxFaults} \subseteq Nat
    /\ Devices \subseteq Nat /\ VmId \in Nat
    /\ \A p \in Parts, v \in Majors :
          /\ Stored(p, TRUE, v) \cup Foreign(p, v) \subseteq Guests(p, v)
          /\ Stored(p, FALSE, v) \subseteq {Nothing(p)}
          /\ Asked(p, v) \subseteq Objects(p)

\* Nil is no value of any field or parameter.
ASSUME NilAssumption ==
    /\ Nil \notin BOOLEAN /\ Nil \notin Int
    /\ \A p \in AllParts : Nil \notin Objects(p)
    /\ Nil \notin CpuValues /\ Nil \notin [Flags -> {Nil, -1, 1}]
    /\ \A S \in SUBSET (0..MaxUint) : S # Nil
    /\ \A R \in SUBSET ((0..MaxUint) \X (0..MaxUint)) : R # Nil
    /\ Nil \notin [Snippets -> {Nil} \cup Strings]
    /\ Nil \notin IpObjects /\ Nil \notin [v4 : {Nil} \cup IpObjects, v6 : {Nil} \cup IpObjects]
    /\ Nil \notin [v4 : [ip : {Nil} \cup Strings, gw : {Nil} \cup Strings],
                  v6 : [ip : {Nil} \cup Strings, gw : {Nil} \cup Strings]]
    /\ Nil \notin PortObjects /\ Nil \notin NetObjects
    /\ Nil \notin UsbObjects /\ Nil \notin PciObjects
    /\ Nil \notin [type : {Nil} \cup Strings, memory : {Nil} \cup Nat, bare : BOOLEAN]
    /\ Nil \notin [storage : {Nil} \cup Texts, type : {Nil} \cup Texts, named : BOOLEAN,
                  volume : Texts]

VARIABLES
    part, major,
    params,  \* the parameters of the guest, Nil those it does not have
    exists,  \* the guest exists; if not, the call is Create
    held,    \* what the program read before its call, Nil if nothing
    pc, want,
    seen,    \* what the call read, Nil for Create
    before,  \* params when it did
    now,     \* params when the server got the PUT
    others, faults

call == <<held, want, seen, before, now>>
vars == <<part, major, params, exists, pc, call, others, faults>>

-----------------------------------------------------------------------------
\* ConfigQemu.mapToStruct.  Devices and ports are nil when there is none.
Devs(f) == IF \A d \in DOMAIN f : f[d] = Nil THEN Nil ELSE f

ToSdk(ps) ==
    CASE part = "memory" -> MemoryToSdk(ps)
      [] part = "cpu" -> CpuToSdk(ps)
      [] part = "cloudinit" -> CloudInitToSdk(ps)
      [] part = "agent" -> IF ps.agent = Nil THEN Nil ELSE AgentToSdk(ps.agent)
      [] part = "serials" -> SerialsToSdk(ps.serial)
      [] part = "tags" -> IF ps.tags = Nil THEN Nil ELSE TagsToSdk(ps.tags)
      [] part = "net" -> Devs(ps.net)
      [] part = "usb" -> Devs([d \in Devices |-> IF ps.usb[d] = Nil THEN Nil
                                                ELSE UsbToSdk(d, ps.usb[d])])
      [] part = "hostpci" -> PcisToSdk(ps.hostpci)
      [] part = "options" -> OptionsToSdk(ps)
      [] part = "vga" -> VgaToSdk(ps.vga)
      [] part = "rng" -> RngToSdk
      [] part = "efi" -> EfiToSdk(ps.efi)

\* ConfigQemu.mapToAPI.  Devices are sent whole and never deleted.
ToApi(w, cur) ==
    CASE part = "memory" -> MemoryToApi(w, cur)
      [] part = "cpu" -> CpuToApi(w, cur, major)
      [] part = "cloudinit" -> CloudInitToApi(w, cur, major)
      [] part = "agent" -> Request([agent |-> AgentToApi(w, cur)], {})
      [] part = "serials" -> Request([serial |-> SerialsToApi(w, cur)], {})
      [] part = "tags" -> Request([tags |-> TagsToApi(w)], {})
      [] part = "net" ->
            Request([net |-> Request([d \in Devices |->
                        IF w[d] = Nil THEN Nil ELSE NetToApi(VmId, d, w[d])], {})], {})
      [] part = "usb" ->
            Request([usb |-> Request([d \in Devices |->
                        IF w[d] = Nil THEN Nil ELSE UsbToApi(w[d])], {})], {})
      [] part = "hostpci" ->
            Request([hostpci |-> Request([d \in Devices |->
                        IF w[d] = Nil THEN Nil ELSE PciToApi(w[d])], {})], {})
      [] part = "options" -> Request(OptionsToApi(w, cur), {})
      [] part = "vga" -> Request([vga |-> VgaToApi(w)], {})
      [] part = "rng" -> Request([rng |-> RngToApi(w)], {})
      [] part = "efi" -> Request([efi |-> EfiToApi(w)], {})

\* The two places of mapToAPI that panic.
Panics(w, cur) ==
    \/ part = "cloudinit" /\ SnippetPanics(w.custom, IF cur = Nil THEN Nil ELSE cur.custom)
    \/ part = "net" /\ \E d \in Devices : NetPanics(w[d])

\* ConfigQemu.Validate; it looks at no device of the last three kinds.
Valid(w, cur) ==
    CASE part = "memory" -> MemoryValid(w, cur)
      [] part = "cpu" -> CpuValid(w, cur, major)
      [] part = "cloudinit" -> CloudInitValid(w, major)
      [] part = "agent" -> AgentValid(w)
      [] part = "serials" -> SerialsValid(w)
      [] part = "tags" -> TagsValid(w)
      [] OTHER -> TRUE

-----------------------------------------------------------------------------
\* The server.  A parameter with several values inside is a function of them.
Indexed == {"ipconfig", "serial", "net", "usb", "hostpci"}

Merge(set, delete, old) ==
    [p \in DOMAIN old |-> IF p \in delete THEN Nil ELSE Or(set[p], old[p])]

\* Empty tags are none, and so is an empty description.
Carry(request, ps) ==
    [p \in DOMAIN ps |->
        IF p \in request.delete THEN Nil
        ELSE IF p \in Indexed
        THEN Merge(request.set[p].set, request.set[p].delete, ps[p])
        ELSE IF p = "tags" /\ request.set[p] = <<>> THEN Nil
        ELSE IF p = "description" /\ request.set[p] = "" THEN Nil
        ELSE Or(request.set[p], ps[p])]

\* The server refuses a minimum above the capacity, half a snippet, a device
\* with a key it does not know or with nothing in it, and an EFI disk without a
\* storage or with the volume named twice.
Accepts(request, ps) ==
    LET after == Carry(request, ps) IN
    /\ \A p \in request.delete : request.set[p] = Nil
    /\ part = "memory" /\ request.set.balloon # Nil /\ after.memory # Nil =>
          after.balloon <= after.memory
    /\ part = "cloudinit" => \A k \in Snippets : after.cicustom[k] # "half"
    /\ part = "usb" => \A d \in Devices : after.usb[d] # Nil =>
          after.usb[d].id = Nil /\ after.usb[d].host # Nil
    /\ part = "hostpci" => \A d \in Devices : after.hostpci[d] # Nil =>
          after.hostpci[d].id = Nil
    /\ part = "efi" /\ request.set.efi # Nil =>
          request.set.efi.storage # Nil /\ ~request.set.efi.named

-----------------------------------------------------------------------------
Init ==
    /\ part \in Parts /\ major \in Majors /\ exists \in BOOLEAN
    /\ params \in Stored(part, exists, major)
    /\ held = Nil /\ want = Nil /\ seen = Nil
    /\ before = Nil /\ now = Nil
    /\ pc = "idle" /\ others = 0 /\ faults = 0

\* NewConfigQemuFromApi, called by the program.
Load ==
    /\ pc = "idle" /\ exists /\ held = Nil
    /\ held' = ToSdk(params)
    /\ UNCHANGED <<part, major, params, exists, pc, want, seen, before, now, others, faults>>

\* ConfigQemu.Create and ConfigQemu.Update.  The part is skipped if it is nil.
Call ==
    /\ pc = "idle"
    /\ want' \in Asked(part, major) \cup ({held} \ {Nil})
    /\ pc' = IF exists THEN "read" ELSE "check"
    /\ UNCHANGED <<part, major, params, exists, held, seen, before, now, others, faults>>

Read ==
    /\ pc = "read"
    /\ seen' = ToSdk(params) /\ before' = params
    /\ pc' = "check"
    /\ UNCHANGED <<part, major, params, exists, held, want, now, others, faults>>

Check ==
    /\ pc = "check"
    /\ pc' = IF Valid(want, seen) THEN "put" ELSE "refused"
    /\ UNCHANGED <<part, major, params, exists, call, others, faults>>

\* mapToAPI and the PUT, or the POST of Create.
Put ==
    /\ pc = "put"
    /\ now' = params
    /\ IF Panics(want, seen)
       THEN pc' = "panic" /\ UNCHANGED <<params, faults>>
       ELSE LET request == ToApi(want, seen)
                after == IF Accepts(request, params) THEN Carry(request, params) ELSE params IN
            \/ /\ params' = after
               /\ pc' = IF Accepts(request, params) THEN "ok" ELSE "rejected"
               /\ UNCHANGED faults
            \/ /\ faults < MaxFaults /\ faults' = faults + 1
               /\ params' \in {params, after}
               /\ pc' = "lost"
    /\ UNCHANGED <<part, major, exists, held, want, seen, before, others>>

\* Another program changes the guest.
Other ==
    /\ exists /\ others < MaxOthers
    /\ held # Nil \/ pc \in {"check", "put"}
    /\ pc \in {"idle", "check", "put"}
    /\ params' \in Foreign(part, major) \ {params}
    /\ others' = others + 1
    /\ UNCHANGED <<part, major, exists, pc, call, faults>>

Next == Load \/ Call \/ Read \/ Check \/ Put \/ Other

Spec == Init /\ [][Next]_vars

-----------------------------------------------------------------------------
(* Properties.                                                             *)

\* The settings of a part one by one, each with the parameter it is in.
Leaves ==
    CASE part = "cpu" -> {<<p>> : p \in (DOMAIN params \ {"cpu"}) \cup {"type"}}
                         \cup ({"flag"} \X Flags)
      [] part = "cloudinit" -> {<<p>> : p \in DOMAIN params \ {"cicustom", "ipconfig"}}
                               \cup ({"custom"} \X Snippets)
                               \cup (Nics \X {"v4", "v6"} \X {"ip", "gw"})
      [] part = "agent" -> {<<"enable">>, <<"freeze">>, <<"trim">>, <<"type">>}
      [] part \in {"memory", "tags", "options", "vga", "rng", "efi"} ->
            {<<p>> : p \in DOMAIN params}
      [] part = "serials" -> {<<i>> : i \in Serials}
      [] OTHER -> {<<d>> : d \in Devices}

\* The settings that share a parameter with others, so that they are sent with
\* them, as they were read.
Shared(l) ==
    part = "agent" \/ Len(l) > 1 \/ (part = "cpu" /\ l = <<"type">>)

\* What the server has of a setting.
Value(ps, l) ==
    LET in(r, f) == IF r = Nil THEN Nil ELSE r[f] IN
    CASE part = "cpu" /\ Len(l) = 2 -> IF ps.cpu = Nil THEN Nil ELSE ps.cpu.flags[l[2]]
      [] part = "cpu" /\ l = <<"type">> -> NonEmpty(in(ps.cpu, "type"))
      [] part = "cpu" /\ l = <<"affinity">> ->
            IF ps.affinity \in {Nil, {}} THEN Nil ELSE AffinityToSdk(ps.affinity)
      [] part = "cloudinit" /\ Len(l) = 2 -> ps.cicustom[l[2]]
      [] part = "cloudinit" /\ Len(l) = 3 ->
            IF ps.ipconfig[l[1]] = Nil THEN Nil ELSE ps.ipconfig[l[1]][l[2]][l[3]]
      [] part = "agent" -> IF l = <<"enable">> THEN in(ps.agent, "enable") = TRUE
                           ELSE in(ps.agent, l[1])
      [] part = "serials" -> ps.serial[l[1]]
      [] part \in {"net", "usb", "hostpci"} -> ps[part][l[1]]
      [] OTHER -> ps[l[1]]

\* The field of the SDK for a parameter.
Field(p) ==
    CASE p = "memory" -> "capacity" [] p = "balloon" -> "minimum"
      [] p = "cpulimit" -> "limit"  [] p = "cpuunits" -> "units" [] p = "vcpus" -> "vcores"
      [] p = "ciuser" -> "user"     [] p = "cipassword" -> "password"
      [] p = "ciupgrade" -> "upgrade" [] p = "sshkeys" -> "keys"
      [] p = "searchdomain" -> "domain" [] p = "nameserver" -> "servers"
      [] OTHER -> p

Had(l) == Value(IF exists THEN before ELSE now, l)

\* A minimum does not stay above the capacity; without a balloon, or with one
\* that had to be lowered, an update ends the shares.
Lowers == /\ exists /\ want.minimum = Nil /\ want.capacity # Nil
          /\ before.balloon # Nil /\ before.balloon > want.capacity
EndsShares == exists /\ (Lowers \/ want.minimum = 0)

\* The settings a call asks for.
IsAsked(l) ==
    CASE part = "memory" /\ l = <<"memory">> /\ ~exists ->
            want.capacity # Nil \/ want.minimum # Nil
      [] part = "memory" /\ l = <<"balloon">> -> want.minimum # Nil \/ Lowers
      [] part = "memory" /\ l = <<"shares">> -> want.shares # Nil \/ EndsShares
      [] part = "cpu" /\ Len(l) = 2 -> want.flags # Nil /\ want.flags[l[2]] # Nil
      [] part = "cloudinit" /\ Len(l) = 2 -> want.custom # Nil /\ want.custom[l[2]] # Nil
      [] part = "cloudinit" /\ Len(l) = 3 ->
            /\ want.ipconfig[l[1]] # Nil /\ want.ipconfig[l[1]][l[2]] # Nil
            /\ LET ip == want.ipconfig[l[1]][l[2]] IN
               ip.dhcp \/ ip.slaac
               \/ IF l[3] = "gw" THEN ip.gateway # Nil
                  ELSE ip.address # Nil \/ Had(l) \in {"dhcp", "auto"}
      [] part = "tags" -> TRUE
      [] part \in {"serials", "net", "usb", "hostpci"} -> want[l[1]] # Nil
      [] part = "options" /\ l \in {<<"name">>, <<"boot">>} -> want[l[1]] # ""
      [] part \in {"vga", "rng"} -> NonEmpty(want.type) # Nil \/ NonZero(want.memory) # Nil
      [] part = "efi" -> \E f \in DOMAIN want : want[f] # Nil
      [] OTHER -> want[Field(l[1])] # Nil

\* The value the server has then.
Wanted(l) ==
    CASE part = "memory" /\ l = <<"memory">> -> Or(want.capacity, want.minimum)
      [] part = "memory" /\ l = <<"balloon">> -> Or(want.minimum, want.capacity)
      [] part = "memory" /\ l = <<"shares">> -> IF EndsShares THEN Nil ELSE NonZero(want.shares)
      [] part = "cpu" /\ Len(l) = 2 -> NonZero(want.flags[l[2]])
      [] part = "cpu" /\ l = <<"type">> -> NonEmpty(Canonical(want.type, major))
      [] part = "cpu" /\ l = <<"affinity">> -> IF want.affinity = {} THEN Nil ELSE want.affinity
      [] part = "cpu" /\ l = <<"cpulimit">> -> NonZero(Tenths(want.limit))
      [] part = "cpu" /\ l \in {<<"cpuunits">>, <<"vcpus">>} -> NonZero(want[Field(l[1])])
      [] part = "cloudinit" /\ Len(l) = 2 ->
            IF want.custom[l[2]] = "gone" THEN Nil ELSE want.custom[l[2]]
      [] part = "cloudinit" /\ Len(l) = 3 ->
            LET ip == want.ipconfig[l[1]][l[2]] IN
            IF ip.dhcp \/ ip.slaac
            THEN IF l[3] = "gw" THEN Nil ELSE IF ip.dhcp THEN "dhcp" ELSE "auto"
            ELSE IF l[3] = "gw" THEN NonEmpty(ip.gateway)
            ELSE IF ip.address = Nil THEN Nil ELSE NonEmpty(ip.address)
      [] part = "cloudinit" /\ Len(l) = 1 /\ l # <<"ciupgrade">> -> NonEmpty(want[Field(l[1])])
      [] part = "agent" /\ l = <<"type">> -> NonEmpty(ToLower(want.type))
      [] part = "serials" -> IF want[l[1]].delete THEN Nil
                             ELSE IF want[l[1]].socket THEN "socket" ELSE want[l[1]].path
      [] part = "tags" -> IF want = <<>> THEN Nil ELSE want
      [] part = "net" -> NetToApi(VmId, l[1], want[l[1]])
      [] part = "usb" -> UsbToApi(want[l[1]])
      [] part = "hostpci" -> PciToApi(want[l[1]])
      [] part = "options" /\ l = <<"description">> -> NonEmpty(want.description)
      [] part \in {"vga", "rng"} ->
            [type |-> NonEmpty(want.type), memory |-> NonZero(want.memory), bare |-> FALSE]
      [] part = "efi" -> [storage |-> want.storage, type |-> want.type, named |-> FALSE,
                          volume |-> "new"]
      [] OTHER -> want[Field(l[1])]

\* The settings of which nothing is promised: the type of the processor when it
\* is asked to be "" or when flags are asked for and the table does not have
\* the current type, which is lost then; ciupgrade before version 8.
Lost(l) ==
    \/ /\ part = "cpu" /\ l = <<"type">>
       /\ \/ want.type = ""
          \/ want.type = Nil /\ want.flags # Nil /\ Had(l) # Nil
             /\ Canonical(Had(l), major) # Had(l)
    \/ part = "cloudinit" /\ l = <<"ciupgrade">> /\ major < 8

\* What a call that succeeds makes of a setting: the server has it as it was
\* asked for, unless the call saw it so already and somebody changed it since;
\* one that was not asked for is as it was when the PUT arrived, or, when it
\* shares its parameter with one that was asked for, as the call read it.
Settled(l) ==
    ~Lost(l) =>
        IF IsAsked(l)
        THEN \/ Value(params, l) = Wanted(l)
             \/ Had(l) = Wanted(l) /\ Value(params, l) = Value(now, l)
        ELSE \/ Value(params, l) = Value(now, l)
             \/ Shared(l) /\ Value(params, l) = Had(l)

\* After a call that succeeds every setting is as it was asked for, and nothing
\* else changed.
OkIsExact == pc = "ok" => \A l \in Leaves : Settled(l)

\* What Validate accepts and the server or mapToAPI does not, when nobody else
\* changed the guest: a minimum above the capacity that is in force, half a
\* snippet, some of the snippets of a guest that has others, network, USB and
\* PCI devices and an EFI disk as mapToStruct reads them, and an EFI disk
\* without a storage.
Unsendable ==
    \/ part = "memory" /\ want.capacity = Nil /\ want.minimum > before.memory
    \/ part = "cloudinit" /\ want.custom # Nil
       /\ \E k \in Snippets : want.custom[k] = "half" \/ want.custom[k] = Nil
    \/ part = "net" /\ \E d \in Devices : want[d] # Nil /\ want[d].bridge = Nil
    \/ part = "usb" /\ \E d \in Devices : want[d] # Nil
          /\ (NonZero(want[d].id) # Nil \/ want[d].host = Nil)
    \/ part = "hostpci" /\ \E d \in Devices : want[d] # Nil /\ want[d].id # Nil
    \/ part = "efi" /\ (want.volume # Nil \/ (want.storage = Nil /\ want.type # Nil))

\* A call that nobody interferes with is accepted by the server if Validate
\* accepts it, apart from those.
ValidIsAccepted ==
    pc \in {"rejected", "panic"} => (exists /\ now # before) \/ Unsendable

\* What Validate refuses of settings as they were read: a type the table does
\* not have, shares that a guest has without effect, a number of cores or sockets
\* that is none or too large once it was read, and more virtual cores than the
\* cores that were read.
Unrepeatable ==
    \/ part = "memory" /\ want.capacity = want.minimum /\ want.shares # Nil
    \/ /\ part = "cpu"
       /\ \/ want.type # Nil /\ ~TypeValid(want.type, major)
          \/ want.cores # Nil /\ want.cores \notin 1..MaxCores
          \/ want.sockets # Nil /\ want.sockets \notin 1..MaxSockets
          \/ want.vcores # Nil /\ ~VcoresValid(want, want)

\* What a setting of the processor is after it was sent back.  Cores, sockets
\* and virtual cores that do not fit their fields come back as other numbers, and
\* a limit comes back without its fraction, or not at all if it is below one.
SentBack(l) ==
    LET had == Value(before, l) IN
    IF l \in {<<"cores">>, <<"sockets">>} THEN Narrow(had, Uint8)
    ELSE IF l = <<"vcpus">> THEN NonZero(Narrow(had, Uint16))
    ELSE IF l = <<"cpulimit">> THEN NonZero(Tenths(LimitToSdk(had)))
    ELSE IF l = <<"cpuunits">> THEN NonZero(had)
    ELSE IF l = <<"type">> /\ had # Nil THEN Canonical(had, major)
    ELSE had

\* Sending back what was read succeeds and changes nothing, if nobody else did
\* and the guest has nothing that cannot be sent back, except that a processor
\* gets other numbers when its own do not fit their fields.  Otherwise only shares without a
\* balloon and numbers that are 0, which say as much as none, are dropped, the
\* ranges of an affinity may be put in another way, the type of a processor is
\* spelled as in the table, options the guest does not have get the values that
\* defaults gives them, and a display written as a bare word loses it.
ResendIsHarmless ==
    (want # Nil /\ want = held /\ others = 0 /\ pc \in {"ok", "refused", "rejected", "panic"})
    => \/ pc = "ok" /\ params = before
       \/ /\ pc = "ok" /\ part = "memory"
          /\ params = [before EXCEPT !.shares = IF want.minimum = 0 THEN Nil ELSE NonZero(@)]
       \/ /\ pc = "ok" /\ part = "cpu"
          /\ \A l \in Leaves : Value(params, l) = SentBack(l)
       \/ /\ pc = "ok" /\ part = "options"
          /\ \A p \in DOMAIN params : params[p] = before[p] \/
                 (before[p] = Nil /\ params[p] = OptionDefaults[p])
       \/ /\ pc = "ok" /\ part = "vga" /\ before.vga.bare
          /\ params.vga = [type |-> Nil, memory |-> before.vga.memory, bare |-> FALSE]
       \/ pc = "refused" /\ Unrepeatable
       \/ pc \in {"rejected", "panic"} /\ Unsendable
=============================================================================
