------------------------------ MODULE SdnItems ------------------------------
(***************************************************************************)
(* The software-defined network (proxmox/config_sdn_zone.go, _vnet.go,     *)
(* _subnet.go and _dns.go): zones, their vnets, the subnets of a vnet, and *)
(* DNS servers.  An object is                                              *)
(*   [type, cidr, fields, delete, digest]                                  *)
(* with the fields of its kind, "" those that are not given, the names of  *)
(* the fields to delete, and the digest that an update is based on, Nil if *)
(* it is based on none.  A digest stands for the item it was made of.  The *)
(* zone of a vnet and the vnet of a subnet are not fields here: there is   *)
(* one of them, or none.                                                   *)
(***************************************************************************)
EXTENDS Optional

SdnKinds == {"zone", "vnet", "subnet", "dns"}

ZoneTypes == {"evpn", "qinq", "simple", "vlan", "vxlan"}
VlanProtocols == {"802.1q", "802.1ad"}

\* The strings that the code itself makes.
ASSUME SdnItemsAssumption == {"", "subnet"} \subseteq Strings

\* The fields that a program sets, by their JSON keys: those that a check or a
\* conversion looks at and, for the others, one or two that are passed on.
SdnFields(kind) ==
    CASE kind = "zone" -> {"bridge", "tag", "vlan-protocol", "peers", "controller", "vrf-vxlan",
                          "advertise-subnets"}
      [] kind = "vnet" -> {"alias", "tag", "vlanaware"}
      [] kind = "subnet" -> {"gateway", "snat", "dnszoneprefix"}
      [] kind = "dns" -> {"key", "url", "ttl", "reversemaskv6"}

\* Objects of dns have no list of fields to delete.
SdnObjects(kind) ==
    [type : {Nil} \cup Strings, cidr : {"valid", "invalid"},
     fields : [SdnFields(kind) -> Strings],
     delete : IF kind = "dns" THEN {{}} ELSE SUBSET SdnFields(kind), digest : {Nil}]

Networks(kind) ==
    [type : {Nil} \cup Strings, fields : [SdnFields(kind) -> {Nil} \cup (Strings \ {""})]]

\* Of these keys an empty value is sent too, for want of omitempty.
AlwaysSent(kind) == IF kind = "dns" THEN {"key", "url"} ELSE {}

\* What a new zone has to have.
ZoneNeeds(t) ==
    CASE t = "vlan" -> {"bridge"} [] t = "qinq" -> {"bridge", "tag", "vlan-protocol"}
      [] t = "vxlan" -> {"peers"} [] t = "evpn" -> {"controller"} [] OTHER -> {}

\* A negative vrf-vxlan ("invalid") is looked for in a new evpn zone only.
ZoneValid(o, create) ==
    /\ o.type \in ZoneTypes
    /\ create => \A f \in ZoneNeeds(o.type) : o.fields[f] # ""
    /\ create /\ o.type = "evpn" => o.fields["vrf-vxlan"] # "invalid"
    /\ o.fields["vlan-protocol"] \in VlanProtocols \cup {""}

VNetValid(o) == o.fields.alias # "invalid" /\ o.fields.tag # ""

\* The CIDR that is looked at is the object's, which Create overwrites.
SubnetValid(o, create) ==
    /\ create => o.cidr = "valid"
    /\ o.fields.gateway # "invalid"

DnsValid(o) == o.type = "powerdns" /\ o.fields.ttl # ""

SdnValid(kind, o, create) ==
    CASE kind = "zone" -> ZoneValid(o, create)     [] kind = "vnet" -> VNetValid(o)
      [] kind = "subnet" -> SubnetValid(o, create) [] kind = "dns" -> DnsValid(o)

SdnToApi_mut(kind, o, create) ==  \* the digest is not sent
    [named |-> kind \in {"vnet", "dns"},
     type |-> CASE kind \in {"zone", "vnet"} -> Nil
                [] kind = "subnet" -> IF create THEN "subnet" ELSE ""
                [] kind = "dns" -> o.type,
     set |-> [f \in SdnFields(kind) |-> NonEmpty(o.fields[f])],
     delete |-> o.delete \cup IF create THEN {}
                             ELSE {f \in AlwaysSent(kind) : o.fields[f] = ""},
     digest |-> Nil]

SdnToApi_unnamed(kind, o, create) ==  \* vnets lose their name too
    [named |-> kind = "dns",
     type |-> CASE kind \in {"zone", "vnet"} -> Nil
                [] kind = "subnet" -> IF create THEN "subnet" ELSE ""
                [] kind = "dns" -> o.type,
     set |-> [f \in SdnFields(kind) |-> NonEmpty(o.fields[f])],
     delete |-> o.delete \cup IF create THEN {}
                             ELSE {f \in AlwaysSent(kind) : o.fields[f] = ""},
     digest |-> o.digest]

\* The mapToApiValues: zones lose their name and type, subnets their CIDR, by
\* which a POST would name them; an update of a subnet has an empty type.
SdnToApi(kind, o, create) ==
    [named |-> kind \in {"vnet", "dns"},
     type |-> CASE kind \in {"zone", "vnet"} -> Nil
                [] kind = "subnet" -> IF create THEN "subnet" ELSE ""
                [] kind = "dns" -> o.type,
     set |-> [f \in SdnFields(kind) |-> NonEmpty(o.fields[f])],
     delete |-> o.delete \cup IF create THEN {}
                             ELSE {f \in AlwaysSent(kind) : o.fields[f] = ""},
     digest |-> o.digest]

\* Create and Update leave the object with the CIDR it was called with.
SdnAfter(kind, o) == IF kind = "subnet" THEN [o EXCEPT !.cidr = "valid"] ELSE o

\* The server.
SdnCarry(kind, r, item) ==
    IF item = Nil THEN [type |-> r.type, fields |-> r.set]
    ELSE [item EXCEPT !.fields = [f \in DOMAIN @ |->
             IF f \in r.delete THEN Nil ELSE Or(r.set[f], @[f])]]

SdnAccepts(kind, r, item) ==
    /\ kind = "zone" => r.set["vrf-vxlan"] # "invalid"
    /\ IF item = Nil THEN r.named /\ r.delete = {}
       ELSE /\ r.digest = Nil \/ r.digest = item
            /\ \A f \in r.delete : r.set[f] = Nil
=============================================================================
