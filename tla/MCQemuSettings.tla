--------------------------- MODULE MCQemuSettings ---------------------------
(* QemuSettings for TLC: for each part the parameters that a guest may     *)
(* have, a few that others write, and what callers ask for; every bound is *)
(* a small number that is passed by one.                                   *)
EXTENDS QemuSettings

CONSTANTS aes, pcid, k1, k2

AllStrings == STRING
TwoFlags == {aes, pcid}
TwoSnippets == {k1, k2}
SevenAndEight == {7, 8}
Spelled == [epyc |-> "EPYC", nahalemibrs |-> "Nahalem-IRBS"]
Zero == {0}
ZeroAndOne == {0, 1}
ZeroAndFour == {0, 4}
BothTypes == {"isa", "virtio"}
Lowered == [VirtIO |-> "virtio", Serial |-> "serial"]
TwoTags == {"a", "b"}

MaybeIn(S) == S \cup {Nil}

-----------------------------------------------------------------------------
MemoryStored == [memory : MaybeIn({1, 2, 3}), balloon : MaybeIn({0, 1, 2}),
                 shares : MaybeIn({0, 1, 2})]
MemoryAsked == [capacity : MaybeIn({0, 1, 2, 4}), minimum : MaybeIn({0, 1, 2, 4}),
                shares : MaybeIn({0, 1, 3})]

CpuValuesStored ==
    [type : {"host", "epyc", "EPYC-v3", "Nehalem", ""},
     flags : [Flags -> {Nil, 1}] \cup {[f \in Flags |-> -1]}]
CpuStored ==
    {[NoCpu EXCEPT !.cpu = c, !.cores = 1] : c \in MaybeIn(CpuValuesStored)}
    \cup {[NoCpu EXCEPT !.cores = a, !.sockets = b, !.vcpus = v] :
              a \in MaybeIn({1, 2, 3, 256, 257}), b \in MaybeIn({1, 2, 5, 258}),
              v \in MaybeIn({0, 1, 2, 65536, 65537})}
    \cup {[NoCpu EXCEPT !.affinity = a, !.cpulimit = l, !.cpuunits = u, !.numa = n] :
              a \in {Nil, {}, {<<0, 0>>, <<2, 3>>}, {<<0, 1>>, <<1, 2>>}},
              l \in {Nil, 0, 5, 10, 15}, u \in {Nil, 0, 1},
              n \in {Nil, 0}}

NothingOfCpu == [affinity |-> Nil, cores |-> Nil, limit |-> Nil, numa |-> Nil,
                 sockets |-> Nil, type |-> Nil, flags |-> Nil, units |-> Nil,
                 vcores |-> Nil]
CpuAsked(version) ==
    {[NothingOfCpu EXCEPT !.type = t, !.flags = f, !.cores = a] :
        t \in {Nil, "", "host", "epyc", "EPYC-v3", "IvyBridge-IBRS", "Nehalem"},
        f \in {Nil} \cup [Flags -> {Nil, 0, 1}] \cup {[g \in Flags |-> -1], [g \in Flags |-> 2]},
        a \in {Nil, 1}}
    \cup IF version = 7 THEN {} ELSE
    {[NothingOfCpu EXCEPT !.cores = a, !.sockets = b, !.vcores = v] :
        a \in MaybeIn(0..3), b \in MaybeIn({0, 1, 2, 5}), v \in MaybeIn({0, 1, 2, 3})}
    \cup {[NothingOfCpu EXCEPT !.affinity = s, !.limit = l, !.units = u, !.numa = n,
                               !.cores = 1] :
        s \in {Nil, {}, {0, 1, 3}}, l \in MaybeIn({0, 2, 4}), u \in MaybeIn({0, 2, 4}),
        n \in {Nil, 1}}

-----------------------------------------------------------------------------
Addresses4 == [ip : {Nil, "a"}, gw : {Nil, "g"}] \cup {[ip |-> "dhcp", gw |-> Nil]}
Addresses6 == Addresses4 \cup {[ip |-> "auto", gw |-> Nil]}
Interfaces == MaybeIn([v4 : Addresses4, v6 : Addresses6]
                      \ {[v4 |-> NoAddress, v6 |-> NoAddress]})
CloudInitStored(version) ==
    {[NoCloudInit EXCEPT !.cicustom = c, !.ciuser = u] :
        c \in [Snippets -> MaybeIn({"full"})], u \in {Nil, "u"}}
    \cup {[NoCloudInit EXCEPT !.nameserver = s, !.searchdomain = d, !.cipassword = w,
                              !.sshkeys = k] :
        s \in {Nil, "s"}, d \in {Nil, "d"}, w \in {Nil, "w"}, k \in {Nil, "k"}}
    \cup {[NoCloudInit EXCEPT !.ipconfig[0] = i] : i \in Interfaces}
    \cup {[NoCloudInit EXCEPT !.ciupgrade = b] : b \in IF version = 7 THEN {} ELSE BOOLEAN}

NothingOfCloudInit == [custom |-> Nil, user |-> Nil, password |-> Nil, upgrade |-> Nil,
                       keys |-> Nil, domain |-> Nil, servers |-> Nil,
                       ipconfig |-> [n \in Nics |-> Nil]]
Ips(a, g) == {i \in [address : a, gateway : g, dhcp : BOOLEAN, slaac : {FALSE}] : TRUE}
Ips4 == Ips({Nil, "", "b", "invalid"}, {Nil, "", "h"})
Ips6 == {[i EXCEPT !.slaac = s] : i \in Ips({Nil, "", "b"}, {Nil, "", "h"}), s \in BOOLEAN}
CloudInitAsked ==
    {[NothingOfCloudInit EXCEPT !.custom = c, !.user = u] :
        c \in [Snippets -> MaybeIn({"full", "half", "gone"})], u \in MaybeIn({"", "v"})}
    \cup {[NothingOfCloudInit EXCEPT !.servers = s, !.domain = d, !.password = w, !.keys = k] :
        s \in {Nil, "", "t"}, d \in {Nil, "", "e"}, w \in {Nil, "", "x"}, k \in {Nil, "", "l"}}
    \cup {[NothingOfCloudInit EXCEPT !.upgrade = b] : b \in BOOLEAN}
    \cup {[NothingOfCloudInit EXCEPT !.ipconfig[0] = [v4 |-> i, v6 |-> j]] :
        i \in MaybeIn(Ips4), j \in {Nil, [NoIp EXCEPT !.dhcp = TRUE]}}
    \cup {[NothingOfCloudInit EXCEPT !.ipconfig[0] = [v4 |-> i, v6 |-> j]] :
        i \in {Nil, [NoIp EXCEPT !.gateway = "h"]}, j \in MaybeIn(Ips6)}
    \cup {[NothingOfCloudInit EXCEPT !.ipconfig[4] = [v4 |-> Nil, v6 |-> Nil]]}

-----------------------------------------------------------------------------
AgentStored == MaybeIn([enable : BOOLEAN, freeze : MaybeIn(BOOLEAN), trim : {Nil, TRUE},
                        type : {Nil, "isa"}])
AgentAsked == [enable : MaybeIn(BOOLEAN), freeze : MaybeIn(BOOLEAN), trim : {Nil, FALSE},
               type : {Nil, "", "virtio", "VirtIO", "Serial"}]

Ports == [delete : BOOLEAN, path : {"", "/dev/y", "invalid"}, socket : BOOLEAN]
PortsAsked == {f \in [Serials -> MaybeIn(Ports)] : f[4] = Nil \/ f[0] = Nil}
PortsStored == {f \in [Serials -> {Nil, "socket", "/dev/x"}] : f[4] = Nil}

TagsAsked == {<<>>, <<"a">>, <<"b", "a">>, <<"a", "a">>, <<"invalid">>}

NicsStored == [Devices -> MaybeIn([model : {"e1000"}, firewall : BOOLEAN, mac : {7},
                                   bridge : {Nil, "vmbr0"}])]
NicsAsked == [Devices -> MaybeIn([model : {"virtio"}, firewall : BOOLEAN,
                                  mac : {NoMac, Repeatable, 8}, bridge : {"nat", "vmbr1"}])]
UsbsStored == [Devices -> MaybeIn([id : {Nil}, host : {"spice", "h"}])]
UsbsAsked == [Devices -> MaybeIn([id : {0}, host : {"h", "i"}])]
PcisStored == [Devices -> MaybeIn([id : {Nil}, host : {"p", "q"}])]
PcisAsked == [Devices -> MaybeIn([id : {Nil}, host : {"p", "r"}])]

OptionsStored == [name : {"n"}, boot : {Nil, "b"}, onboot : MaybeIn(BOOLEAN),
                  description : {Nil, "d"}]
OptionsAsked == [name : {"", "m"}, boot : {"", "c"}, onboot : MaybeIn(BOOLEAN),
                 description : {Nil, "", "e"}]
Words == [type : {"t"}, memory : {Nil, 1}, bare : BOOLEAN]
         \cup [type : {Nil}, memory : {1}, bare : {FALSE}]
WordsAsked == [type : {Nil, "", "u"}, memory : {Nil, 0, 2}]
EfisStored == [storage : {"s"}, type : {Nil, "t"}, named : {FALSE}, volume : {"old"}]
EfisAsked == [storage : {Nil, "s", "r"}, type : {Nil, "u"}, volume : {Nil}]

DevicesStored(p) ==
    CASE p = "net" -> NicsStored [] p = "usb" -> UsbsStored [] p = "hostpci" -> PcisStored

\* The version matters to the processor and to cloud-init only.
StoredOf(p, there, v) ==
    CASE p \notin {"cpu", "cloudinit"} /\ v = 7 -> {}
      [] p = "memory" -> IF there THEN {m \in MemoryStored :
                             m.memory # Nil /\ (m.balloon = Nil \/ m.balloon <= m.memory)}
                         ELSE {[memory |-> Nil, balloon |-> Nil, shares |-> Nil]}
      [] p = "cpu" -> IF there THEN CpuStored ELSE {NoCpu}
      [] p = "cloudinit" -> IF there THEN CloudInitStored(v) ELSE {NoCloudInit}
      [] p = "agent" -> {[agent |-> a] : a \in IF there THEN AgentStored ELSE {Nil}}
      [] p = "serials" -> {[serial |-> f] : f \in
             IF there THEN PortsStored ELSE {[i \in Serials |-> Nil]}}
      [] p = "tags" -> {[tags |-> t] : t \in IF there THEN {Nil, <<"a">>} ELSE {Nil}}
      [] p = "options" ->
             IF there THEN OptionsStored ELSE {[o \in DOMAIN OptionDefaults |-> Nil]}
      [] p = "vga" -> {[vga |-> w] : w \in IF there THEN MaybeIn(Words) ELSE {Nil}}
      [] p = "rng" -> {[rng |-> w] : w \in
             IF there THEN {Nil, [type |-> "t", memory |-> 1, bare |-> FALSE]} ELSE {Nil}}
      [] p = "efi" -> {[efi |-> e] : e \in IF there THEN MaybeIn(EfisStored) ELSE {Nil}}
      [] OTHER -> {[q \in {p} |-> f] : f \in
             IF there THEN DevicesStored(p) ELSE {[d \in Devices |-> Nil]}}

\* Other programs leave nothing, or all there can be.
ForeignTo(p, v) ==
    CASE p = "memory" -> {[memory |-> 1, balloon |-> Nil, shares |-> Nil],
                          [memory |-> 3, balloon |-> 2, shares |-> 2]}
      [] p = "cpu" -> {[NoCpu EXCEPT !.cores = 1],
                       [affinity |-> {<<1, 1>>}, cores |-> 2, cpulimit |-> 10, numa |-> 1,
                        sockets |-> 2, cpuunits |-> 1, vcpus |-> 3,
                        cpu |-> [type |-> "host", flags |-> [f \in Flags |-> 1]]]}
      [] p = "cloudinit" -> {NoCloudInit,
                             [NoCloudInit EXCEPT !.cicustom = [k \in Snippets |-> "full"],
                                 !.ciupgrade = IF v = 7 THEN Nil ELSE TRUE,
                                 !.ciuser = "v", !.cipassword = "w", !.sshkeys = "k",
                                 !.nameserver = "s", !.searchdomain = "d",
                                 !.ipconfig[0] = [v4 |-> [ip |-> "dhcp", gw |-> Nil],
                                                  v6 |-> [ip |-> "a", gw |-> "g"]]]}
      [] p = "agent" -> {[agent |-> Nil]}
      [] p = "serials" -> {[serial |-> [i \in Serials |-> IF i = 0 THEN "socket" ELSE Nil]]}
      [] p = "tags" -> {[tags |-> <<"b">>]}
      [] p = "net" -> {[net |-> [d \in Devices |-> Nil]]}
      [] p = "usb" -> {[usb |-> [d \in Devices |-> Nil]]}
      [] p = "hostpci" -> {[hostpci |-> [d \in Devices |-> Nil]]}
      [] p = "options" -> {[name |-> "o", boot |-> "x", onboot |-> FALSE, description |-> "y"]}
      [] OTHER -> {[q \in {p} |-> Nil]}

AskedOf(p, v) ==
    CASE p = "memory" -> MemoryAsked
      [] p = "cpu" -> CpuAsked(v)
      [] p = "cloudinit" -> CloudInitAsked
      [] p = "agent" -> AgentAsked
      [] p = "serials" -> PortsAsked
      [] p = "tags" -> TagsAsked
      [] p = "net" -> NicsAsked
      [] p = "usb" -> UsbsAsked
      [] p = "hostpci" -> PcisAsked
      [] p = "options" -> OptionsAsked
      [] p \in {"vga", "rng"} -> WordsAsked
      [] p = "efi" -> EfisAsked
=============================================================================
