---------------------------- MODULE MCConfigItems ----------------------------
(* ConfigItems for TLC: every kind of item.  Of each the program makes one  *)
(* or two plain objects and those that differ from them in one thing; the   *)
(* same goes for the items.                                                 *)
EXTENDS ConfigItems, TLC

AllStrings == STRING

AllKinds == StorageTypes \cup Services \cup SdnKinds

Maybe(S) == S \cup {Nil}

ContentsOf ==
    LET all == {"backup", "rootdir", "images", "iso", "snippets", "vztmpl"}
        images == {"rootdir", "images"} IN
    [t \in StorageTypes |->
        CASE t \in {"directory", "nfs", "smb"} -> all
          [] t = "glusterfs" -> all \ {"rootdir"}
          [] t = "cephfs" -> all \ images
          [] t \in {"iscsi", "zfs-over-iscsi"} -> {"images"}
          [] t = "pbs" -> {"backup"}
          [] OTHER -> images]

-----------------------------------------------------------------------------
\* Storages.  The fields of another provider's struct are nil.
PlainSpecs(t) ==
    LET spec(p) == [f \in Fields(t) |->
                       CASE f = "iscsiprovider" -> p
                         [] f \in {"nowritecache", "comstar_hg", "comstar_tg", "lio_tpg"} ->
                               IF f \in OfProvider(p) THEN "1" ELSE Nil
                         [] OTHER -> "1"] IN
    IF t = "zfs-over-iscsi" THEN {spec(p) : p \in Providers} ELSE {spec("none")}

SpecsAsked(t) ==
    LET provided == {"nowritecache", "comstar_hg", "comstar_tg", "lio_tpg"} IN
    PlainSpecs(t)
    \cup {[s EXCEPT ![f] = v] : s \in PlainSpecs(t), f \in Fields(t) \ provided,
                                v \in {"0", "", Nil, "invalid"}}
    \cup {[f \in Fields(t) |-> IF f \in provided THEN Nil ELSE s[f]] : s \in PlainSpecs(t)}
    \cup {[f \in Fields(t) |-> IF f \in provided /\ s[f] # Nil THEN "0" ELSE s[f]] : s \in PlainSpecs(t)}
    \cup {[f \in Fields(t) |-> IF f \in provided /\ s[f] # Nil /\ f # "nowritecache" THEN "" ELSE s[f]]
             : s \in PlainSpecs(t)}
    \cup {[f \in Fields(t) |-> IF f \in provided THEN "1" ELSE s[f]] : s \in PlainSpecs(t)}
    \cup {[f \in Fields(t) |-> IF f \in Pointers(t) THEN Nil ELSE s[f]] : s \in PlainSpecs(t)}
    \cup {[f \in Fields(t) |-> IF f = "namespace" THEN v ELSE s[f]] :
             s \in PlainSpecs(t), v \in {"/", "/ns"}}

\* Only a few values can be invalid.
SpecOf(t, s) ==
    s \in Specs(t) /\ \A f \in Fields(t) : s[f] = "invalid" => f \in {"options", "smbversion", "port"}

StorageAsked(t) ==
    LET plain(s) == [type |-> t, enable |-> TRUE, nodes |-> "", content |-> Contents[t],
                     keep |-> Nil, spec |-> s]
        one == plain(CHOOSE s \in PlainSpecs(t) : TRUE) IN
    {plain(s) : s \in {s \in SpecsAsked(t) : SpecOf(t, s)}}
    \cup {[one EXCEPT !.spec = Nil, !.content = c, !.keep = k] :
             c \in {Nil, Contents[t]}, k \in {Nil, "all"}}
    \cup {[one EXCEPT !.content = c] : c \in {Nil, {}, {"images"}, {"backup", "images"}}}
    \cup {[one EXCEPT !.keep = k, !.nodes = n, !.enable = FALSE] :
             k \in {"all", "full", "part"}, n \in {"", "n1"}}
    \cup {[one EXCEPT !.type = "dir"]}

ItemOf(t, s) ==
    [type |-> ApiType(t), disable |-> Nil, nodes |-> Nil, prune |-> Nil,
     content |-> IF Hardcoded(t) THEN HardContent(t) ELSE {"images", "backup"} \cap Contents[t],
     params |-> [f \in Fields(t) |-> IF f = "iscsiprovider" THEN ApiProvider(s[f]) ELSE s[f]]]

\* The server does without anything but what is fixed or required.
StorageItems(t) ==
    LET optional == Fields(t) \ (Fixed(t) \cup Required(t))
        plain == {ItemOf(t, s) : s \in PlainSpecs(t)}
        one == CHOOSE i \in plain : TRUE IN
    plain
    \cup {[i EXCEPT !.params[f] = Nil] : i \in plain, f \in optional}
    \cup {[i EXCEPT !.params = [f \in Fields(t) |-> IF f \in optional /\ f \notin Plain(t)
                                                     /\ f # "nowritecache" THEN Nil ELSE @[f]]] :
             i \in plain}
    \cup {[one EXCEPT !.disable = "1", !.nodes = "n1"], [one EXCEPT !.content = {}]}
    \cup {[one EXCEPT !.prune = p] :
             p \in IF "backup" \in Contents[t] THEN {"all", "full", "part"} ELSE {}}
    \cup (IF t = "nfs" THEN {[one EXCEPT !.params["options"] = v] : v \in {"invalid", "bare"}} ELSE {})
    \cup (IF t = "smb" THEN {[one EXCEPT !.params["smbversion"] = "default"]} ELSE {})
    \cup {[one EXCEPT !.params[f] = "2"] : f \in Fixed(t) \ {"iscsiprovider"}}

-----------------------------------------------------------------------------
MetricsAsked ==
    LET plain == [type |-> "graphite", server |-> "s", port |-> 1, mtu |-> 2, timeout |-> 1,
                  enable |-> TRUE, graphite |-> [path |-> "p", proto |-> "tcp"],
                  influx |-> [prefix |-> "x", bucket |-> "b", body |-> 1, token |-> "t",
                              proto |-> "http"]]
        two == {plain, [plain EXCEPT !.type = "influxdb"]} IN
    two
    \cup {[o EXCEPT !.port = n] : o \in two, n \in {0, 2, 3}}
    \cup {[o EXCEPT !.mtu = n, !.timeout = m] : o \in two, n \in {1, 3}, m \in {0, -1}}
    \cup {[o EXCEPT !.server = "", !.enable = FALSE] : o \in two}
    \cup {[o EXCEPT !.enable = FALSE, !.graphite.path = "", !.influx.prefix = "",
                    !.influx.bucket = "", !.influx.token = ""] : o \in two}
    \cup {[o EXCEPT !.influx.body = 0] : o \in two}
    \cup {[o EXCEPT !.influx.proto = "tcp"] : o \in two}
    \cup {[o EXCEPT !.graphite.proto = "http"] : o \in two}
    \cup {[plain EXCEPT !.type = "other"]}

MetricsItems ==
    LET graphite == [type |-> "graphite", server |-> "r", port |-> 2, mtu |-> Nil,
                     timeout |-> Nil, disable |-> Nil,
                     graphite |-> [path |-> "q", proto |-> Nil], influx |-> NoInflux]
        influx == [graphite EXCEPT !.type = "influxdb", !.graphite = NoGraphite,
                      !.influx = [NoInflux EXCEPT !.prefix = "y", !.bucket = "c", !.body = 3,
                                                  !.token = "u"]] IN
    {graphite, influx, [influx EXCEPT !.disable = TRUE, !.mtu = 2, !.influx.token = Nil]}

AcmeAsked == [api : {"a"}, data : {"", "d"}, enable : BOOLEAN, nodes : {"", "n1"},
              delay : {-1, 0, 30, 31}]
AcmeItems == [api : {"b"}, data : Maybe({"e"}), disable : Maybe({TRUE}),
              nodes : Maybe({"n2"}), delay : Maybe({0})]

-----------------------------------------------------------------------------
\* The network: each field given, left out, or deleted.
SdnAsked(k) ==
    LET types == IF k = "zone" THEN {"simple", "qinq", "vlan", "evpn", "other"}
                 ELSE IF k = "dns" THEN {"powerdns", "other"} ELSE {Nil}
        fields == {[f \in SdnFields(k) |->
                       IF f \notin given THEN "" ELSE IF f = "vlan-protocol" THEN "802.1q" ELSE v] :
                      given \in {g \in SUBSET SdnFields(k) :
                                    k # "zone" \/ g = {"controller", "vrf-vxlan"}
                                    \/ g \subseteq {"bridge", "tag", "vlan-protocol"}},
                      v \in {"1", "invalid"}} IN
    {[type |-> t, cidr |-> c, fields |-> g, delete |-> d, digest |-> Nil] :
        t \in types, c \in IF k = "subnet" THEN {"valid", "invalid"} ELSE {"valid"},
        g \in fields, d \in {{}} \cup IF k = "dns" THEN {} ELSE {{CHOOSE f \in SdnFields(k) : TRUE}}}

NetworkItems(k) ==
    {[type |-> IF k = "dns" THEN "powerdns" ELSE IF k = "zone" THEN "vlan" ELSE Nil,
      fields |-> [f \in SdnFields(k) |-> v]] : v \in {"2", Nil}}

-----------------------------------------------------------------------------
AskedOf(k) ==
    CASE k \in StorageTypes -> StorageAsked(k)
      [] k = "metrics" -> MetricsAsked
      [] k = "acme" -> AcmeAsked
      [] OTHER -> SdnAsked(k)

ItemsOf(k) ==
    CASE k \in StorageTypes -> StorageItems(k)
      [] k = "metrics" -> MetricsItems
      [] k = "acme" -> AcmeItems
      [] OTHER -> NetworkItems(k)

\* Others make a plain storage, or a disabled one without what is optional.
ForeignTo(k) ==
    IF k \notin StorageTypes THEN ItemsOf(k)
    ELSE LET i == ItemOf(k, CHOOSE s \in PlainSpecs(k) : TRUE) IN
         {i, [i EXCEPT !.disable = "1", !.content = {},
                       !.params = [f \in Fields(k) |-> IF f \in Pointers(k) THEN Nil ELSE @[f]]]}
=============================================================================
