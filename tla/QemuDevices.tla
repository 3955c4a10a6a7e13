----------------------------- MODULE QemuDevices -----------------------------
(* The guest agent, the serial ports, the tags, the plain options and the   *)
(* devices of a virtual machine (config_qemu_guestagent.go,                 *)
(* config_qemu_serial.go, type_tag.go and config_qemu.go).  Network, USB    *)
(* and PCI devices, the display, the random number generator and the EFI    *)
(* disk are maps of the keys and values that the server writes; they are    *)
(* only ever set.                                                           *)
EXTENDS Optional, Integers, Sequences

CONSTANTS Serials, MaxSerial,   \* the serial ids that are used; 3
          Devices,              \* the ids of the devices
          RandomMac,            \* the address that is drawn
          AgentTypes,           \* isa and virtio
          LowerCase,            \* LowerCase[t]: t in lower case, for some t that
                                \* are not
          Tags                  \* the tags that are valid

ASSUME QemuDevicesAssumption ==
    /\ {"socket", "invalid", "nat", "spice", "cdn", "new"} \subseteq Texts
    /\ Serials \subseteq Nat /\ MaxSerial \in Nat /\ RandomMac \in Nat
    /\ AgentTypes \subseteq Texts /\ Tags \subseteq Strings
    /\ DOMAIN LowerCase \subseteq Texts \ AgentTypes
    /\ \A t \in DOMAIN LowerCase : LowerCase[t] \in Texts

\* The structs, and the parameters of a guest.
AgentObjects == [enable : {Nil} \cup BOOLEAN, freeze : {Nil} \cup BOOLEAN,
                 trim : {Nil} \cup BOOLEAN, type : {Nil} \cup Strings]
AgentParams == [enable : BOOLEAN, freeze : {Nil} \cup BOOLEAN,
                trim : {Nil} \cup BOOLEAN, type : {Nil} \cup AgentTypes]

PortObjects == [delete : BOOLEAN, path : Strings, socket : BOOLEAN]
PortParams == Texts \ {"invalid"}

TagParams == {t \in Seq(Tags) : t # <<>> /\ \A i, j \in DOMAIN t : i < j => t[i] # t[j]}

NetObjects == [model : Strings, firewall : BOOLEAN, mac : Int,
               bridge : {Nil} \cup Strings]
NetParams == [model : Strings, firewall : BOOLEAN, mac : Nat,
              bridge : {Nil} \cup (Texts \ {"nat"})]

UsbObjects == [id : {Nil} \cup Nat, host : {Nil} \cup Texts]
UsbParams == [id : {Nil}, host : Texts]
PciObjects == [id : {Nil} \cup Nat, host : Texts]
PciParams == [id : {Nil}, host : Texts]

OptionObjects == [name : Strings, boot : Strings, onboot : {Nil} \cup BOOLEAN,
                  description : {Nil} \cup Strings]
OptionParams == [name : {Nil} \cup Texts, boot : {Nil} \cup Texts,
                 onboot : {Nil} \cup BOOLEAN, description : {Nil} \cup Texts]

WordObjects == [type : {Nil} \cup Strings, memory : {Nil} \cup Nat]
WordParams ==
    {w \in [type : {Nil} \cup Texts, memory : {Nil} \cup (Nat \ {0}), bare : BOOLEAN] :
        IF w.bare THEN w.type # Nil ELSE w.type # Nil \/ w.memory # Nil}

EfiObjects == [storage : {Nil} \cup Texts, type : {Nil} \cup Texts, volume : {Nil} \cup Texts]
EfiParams == [storage : Texts, type : {Nil} \cup Texts, named : BOOLEAN, volume : Texts]

\* strings.ToLower.
ToLower(t) == IF t \in DOMAIN LowerCase THEN LowerCase[t] ELSE t

\* QemuGuestAgent.mapToAPI: each part as asked or as it was, in one value.
AgentToApi(want, cur) ==
    LET part(f) == Or(want[f], IF cur = Nil THEN Nil ELSE cur[f]) IN
    [enable |-> part("enable") = TRUE, freeze |-> part("freeze"),
     trim |-> part("trim"), type |-> NonEmpty(ToLower(part("type")))]

\* QemuGuestAgent.mapToSDK.
AgentToSdk(param) == param

\* QemuGuestAgentType.Validate.
AgentValid(want) == want.type \in {Nil, ""} \/ ToLower(want.type) \in AgentTypes

\* SerialInterface.mapToAPI: the path, or "socket".
PortToApi(port) == IF port.socket THEN "socket" ELSE port.path

\* SerialInterfaces.mapToAPI.  Without any port yet nothing can be deleted; a
\* port that stays as it is is not sent.
SerialsToApi(want, cur) ==
    LET had(i) == IF cur = Nil THEN Nil ELSE cur[i]
        asked == {i \in Serials : want[i] # Nil}
        same(i) == /\ had(i) # Nil
                   /\ had(i).path = want[i].path /\ had(i).socket = want[i].socket IN
    Request([i \in Serials |->
                IF i \in asked /\ ~want[i].delete /\ ~same(i)
                THEN PortToApi(want[i]) ELSE Nil],
            {i \in asked : want[i].delete /\ had(i) # Nil})

\* SerialInterfaces.mapToSDK: nil without any port.
SerialsToSdk(params) ==
    IF \A i \in Serials : params[i] = Nil THEN Nil
    ELSE [i \in Serials |->
             IF params[i] = Nil THEN Nil
             ELSE [delete |-> FALSE, socket |-> params[i] = "socket",
                   path |-> IF params[i] = "socket" THEN "" ELSE params[i]]]

\* SerialInterfaces.Validate; a path is valid when it begins with "/dev/".
SerialsValid(want) ==
    \A i \in Serials : want[i] # Nil =>
        /\ i <= MaxSerial
        /\ \/ want[i].delete
           \/ /\ (want[i].path = "") = want[i].socket
              /\ want[i].path # "invalid"

\* Tag.mapToApi joins the tags with ";", "" without any, and mapToSDK splits
\* them.
TagsToApi(want) == want
TagsToSdk(param) == param

\* Tag.validate: valid tags, none of them twice.
TagsValid(want) ==
    /\ \A i \in 1..Len(want) : want[i] \in Tags
    /\ \A i, j \in 1..Len(want) : i < j => want[i] # want[j]

-----------------------------------------------------------------------------
\* The last three bytes of the MAC address that "repeatable" asks for.
RepeatableMac(vmid, nic) == (vmid * 32 + nic) % 16777216

\* A MAC address is its last three bytes; "" and "repeatable" are requests.
NoMac == -1
Repeatable == -2

\* CreateQemuNetworksParams: without an address it draws one, and writes it to
\* the caller's map.  "nat" is a network card without a bridge.
NetToApi(vmid, nic, want) ==
    [model |-> want.model, firewall |-> want.firewall,
     mac |-> IF want.mac = Repeatable THEN RepeatableMac(vmid, nic)
             ELSE IF want.mac = NoMac THEN RandomMac ELSE want.mac,
     bridge |-> IF want.bridge = "nat" THEN Nil ELSE want.bridge]

\* What mapToStruct reads of a network card without a bridge has none, and
\* CreateQemuNetworksParams asserts that the bridge is a string.
NetPanics(want) == want # Nil /\ want.bridge = Nil

\* FormatUsbParam writes every key that has a value, "id" included unless it is
\* 0; mapToStruct reads "host=x" as the host x, and no host from "spice".
UsbToApi(want) == [id |-> NonZero(want.id), host |-> want.host]

UsbToSdk(id, param) ==
    [id |-> id, host |-> IF param.host = "spice" THEN Nil ELSE param.host]

\* CreateQemuPCIsParams writes every key.
PciToApi(want) == want

\* mapToStruct looks for the number in "hostpci0" with the wrong pattern: every
\* device gets the id 0, and only one of them is kept.
PcisToSdk(params) ==
    LET hosts == {params[d].host : d \in {e \in Devices : params[e] # Nil}} IN
    IF hosts = {} THEN Nil
    ELSE [d \in Devices |-> IF d = 0 THEN [id |-> 0, host |-> CHOOSE h \in hosts : TRUE]
                            ELSE Nil]

-----------------------------------------------------------------------------
(* Plain options and the devices that there is one of.                     *)

\* ConfigQemu.defaults: what is read of an option that the guest does not have.
OptionDefaults == [name |-> "", boot |-> "cdn", onboot |-> TRUE, description |-> Nil]

OptionsToSdk(params) == [p \in DOMAIN params |-> Or(params[p], OptionDefaults[p])]

\* A text that is empty is not sent, so that none but the description can be
\* taken away; an empty description only goes to a guest that has one.
OptionsToApi(want, cur) ==
    [name |-> NonEmpty(want.name), boot |-> NonEmpty(want.boot), onboot |-> want.onboot,
     description |-> IF want.description = "" /\ (cur = Nil \/ cur.description = Nil)
                     THEN Nil ELSE want.description]

\* createDeviceParam leaves out what is empty, 0 or false, and all of the device
\* if nothing is left.  A bare word is a value without its key.
Word(type, memory) ==
    LET w == [type |-> NonEmpty(type), memory |-> NonZero(memory), bare |-> FALSE] IN
    IF w.type = Nil /\ w.memory = Nil THEN Nil ELSE w

VgaToApi(want) == Word(want.type, want.memory)

\* readDeviceConfig finds no key in a bare word, and no value.
VgaToSdk(param) ==
    IF param = Nil THEN [type |-> Nil, memory |-> Nil]
    ELSE [type |-> IF param.bare THEN Nil ELSE param.type, memory |-> param.memory]

\* CreateQemuRngParams; mapToStruct does not read this device.
RngToApi(want) == Word(want.type, want.memory)
RngToSdk == [type |-> Nil, memory |-> Nil]

\* CreateQemuEfiParams asks for a new volume, and sends the name of the volume
\* that mapToStruct read as well.
EfiToApi(want) ==
    IF \A f \in DOMAIN want : want[f] = Nil THEN Nil
    ELSE [storage |-> want.storage, type |-> want.type, named |-> want.volume # Nil,
          volume |-> "new"]
EfiToSdk(param) ==
    IF param = Nil THEN [storage |-> Nil, type |-> Nil, volume |-> Nil]
    ELSE [storage |-> param.storage, type |-> param.type, volume |-> param.volume]
=============================================================================
