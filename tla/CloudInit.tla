------------------------------ MODULE CloudInit ------------------------------
(* The cloud-init settings of a virtual machine                            *)
(* (config_qemu_cloudinit.go).  Only deleting a setting depends on whether  *)
(* the guest has any of them: mapToSDK returns nil when it has none.        *)
EXTENDS Optional, Naturals

CONSTANTS Snippets,   \* the snippets of cicustom: meta, network, user, vendor
          Nics,       \* the ids of network interfaces that are used
          MaxNic,     \* 31
          Invalid     \* an address that is none

ASSUME CloudInitAssumption ==
    /\ {"gone", "half", "dhcp", "auto"} \subseteq Texts
    /\ Nics \subseteq Nat /\ MaxNic \in Nat

NoSnippets == [k \in Snippets |-> Nil]

\* CloudInitCustom.mapToAPI takes a snippet that is not asked for from the
\* current ones.  It dereferences it there without a look: with some snippets
\* set and this one not, that panics.
SnippetPanics(want, cur) ==
    /\ want # Nil /\ cur # Nil
    /\ \E k \in Snippets : want[k] = Nil /\ cur[k] = Nil

\* A snippet is "full", or "gone" without storage and path, or "half" with only
\* one of the two; only "gone" removes it.
SnippetsToApi(want, cur) ==
    [k \in Snippets |->
        LET s == Or(want[k], IF cur = Nil THEN Nil ELSE cur[k]) IN
        IF s = "gone" THEN Nil ELSE s]

\* The fields of CloudInitIPv4Config and CloudInitIPv6Config; only the latter
\* has slaac.
NoIp == [address |-> Nil, gateway |-> Nil, dhcp |-> FALSE, slaac |-> FALSE]
NoAddress == [ip |-> Nil, gw |-> Nil]

\* The struct.
Volumes == Strings \ {"", "gone", "half"}
IpObjects == [address : {Nil} \cup Strings, gateway : {Nil} \cup Strings,
              dhcp : BOOLEAN, slaac : BOOLEAN]

CloudInitObjects ==
    [custom : {Nil} \cup [Snippets -> {Nil, "gone", "half"} \cup Volumes],
     upgrade : {Nil} \cup BOOLEAN, user : {Nil} \cup Strings,
     password : {Nil} \cup Strings, keys : {Nil} \cup Strings,
     domain : {Nil} \cup Strings, servers : {Nil} \cup Strings,
     ipconfig : [Nics -> {Nil} \cup [v4 : {Nil} \cup IpObjects, v6 : {Nil} \cup IpObjects]]]

\* The parameters of a guest.  A gateway goes with an address, if there is one,
\* and the upgrade came with version 8.
Addresses ==
    {a \in [ip : {Nil} \cup (Texts \ {Invalid}), gw : {Nil} \cup (Texts \ {Invalid})] :
        a.ip \in {"dhcp", "auto"} => a.gw = Nil}
NicParams == [v4 : Addresses, v6 : Addresses] \ {[v4 |-> NoAddress, v6 |-> NoAddress]}

CloudInitParams(major) ==
    {p \in [cicustom : [Snippets -> {Nil} \cup Volumes], ciupgrade : {Nil} \cup BOOLEAN,
            ipconfig : [Nics -> {Nil} \cup NicParams], ciuser : {Nil} \cup Texts,
            cipassword : {Nil} \cup Texts, searchdomain : {Nil} \cup Texts,
            nameserver : {Nil} \cup Texts, sshkeys : {Nil} \cup Texts] :
        /\ p.ciupgrade # Nil => major >= 8
        /\ \A n \in Nics : p.ipconfig[n] # Nil => n <= MaxNic}

NoCloudInit == [cicustom |-> NoSnippets, ciupgrade |-> Nil,
                ipconfig |-> [n \in Nics |-> Nil], ciuser |-> Nil,
                cipassword |-> Nil, searchdomain |-> Nil, nameserver |-> Nil,
                sshkeys |-> Nil]

\* The mapToAPI of both, cur = Nil on creation.
IpToApi(want, cur) ==
    LET kept(f) == IF cur = Nil THEN Nil ELSE cur[f]
        sent(f) == NonEmpty(Or(want[f], kept(f))) IN
    IF want.dhcp THEN [ip |-> "dhcp", gw |-> Nil]
    ELSE IF want.slaac THEN [ip |-> "auto", gw |-> Nil]
    ELSE [ip |-> sent("address"), gw |-> sent("gateway")]

\* Mutant: a family that is not asked for is left out.
NicToApi_mut(want, cur) ==
    LET family(f) == IF want[f] # Nil THEN IpToApi(want[f], IF cur = Nil THEN Nil ELSE cur[f])
                     ELSE NoAddress IN
    [v4 |-> family("v4"), v6 |-> family("v6")]

\* CloudInitNetworkConfig.mapToAPI: a family that is not asked for is sent as
\* it was read.
NicToApi(want, cur) ==
    LET family(f) ==
            IF want[f] # Nil THEN IpToApi(want[f], IF cur = Nil THEN Nil ELSE cur[f])
            ELSE IF cur = Nil \/ cur[f] = Nil THEN NoAddress
            ELSE IpToApi(cur[f], Nil) IN
    [v4 |-> family("v4"), v6 |-> family("v6")]

\* Mutant: "dhcp" is read as an address too.
IpToSdk_mut(param) ==
    IF param = NoAddress THEN Nil
    ELSE [address |-> param.ip, gateway |-> param.gw,
          dhcp |-> param.ip = "dhcp", slaac |-> param.ip = "auto"]

\* One family in CloudInitNetworkConfig.mapToSDK.
IpToSdk(param) ==
    IF param = NoAddress THEN Nil
    ELSE [address |-> IF param.ip \in {"dhcp", "auto"} THEN Nil ELSE param.ip,
          gateway |-> param.gw,
          dhcp |-> param.ip = "dhcp", slaac |-> param.ip = "auto"]

NicToSdk(param) == [v4 |-> IpToSdk(param.v4), v6 |-> IpToSdk(param.v6)]

\* The Validate of both.
IpValid(want) ==
    /\ ~(want.dhcp /\ want.slaac)
    /\ \A f \in {"address", "gateway"} :
          NonEmpty(want[f]) # Nil => ~want.dhcp /\ ~want.slaac /\ want[f] # Invalid

NicValid(id, want) ==
    /\ id <= MaxNic
    /\ want.v4 # Nil => IpValid(want.v4)
    /\ want.v6 # Nil => IpValid(want.v6)

\* CloudInitNetworkInterfaces.mapToAPI.
NicsToApi(want, cur) ==
    LET had(n) == IF cur = Nil THEN Nil ELSE cur.ipconfig[n]
        sent == [n \in Nics |-> IF want[n] = Nil THEN Nil ELSE NicToApi(want[n], had(n))]
        empty(n) == sent[n] = [v4 |-> NoAddress, v6 |-> NoAddress] IN
    Request([n \in Nics |-> IF empty(n) THEN Nil ELSE sent[n]],
            {n \in Nics : empty(n) /\ had(n) # Nil})

\* CloudInit.mapToAPI.  ciupgrade is sent from version 8 on; nothing is deleted
\* on creation.
CloudInitToApi(want, cur, major) ==
    Request([ciuser |-> NonEmpty(want.user), cipassword |-> NonEmpty(want.password),
             searchdomain |-> NonEmpty(want.domain), nameserver |-> NonEmpty(want.servers),
             sshkeys |-> NonEmpty(want.keys),
             cicustom |-> IF want.custom = Nil THEN Nil
                          ELSE SnippetsToApi(want.custom, IF cur = Nil THEN Nil ELSE cur.custom),
             ciupgrade |-> IF major >= 8 THEN want.upgrade ELSE Nil,
             ipconfig |-> NicsToApi(want.ipconfig, cur)],
            {p \in {"ciuser", "cipassword", "searchdomain", "nameserver", "sshkeys"} :
                \/ p = "ciuser" /\ want.user = "" /\ cur # Nil
                \/ p = "cipassword" /\ want.password = "" /\ cur # Nil
                \/ p = "searchdomain" /\ want.domain = "" /\ cur # Nil
                \/ p = "nameserver" /\ want.servers = "" /\ cur # Nil
                \/ p = "sshkeys" /\ want.keys = "" /\ cur # Nil})

\* CloudInit.mapToSDK: nil without any of the settings.  Name servers and
\* search domain are both set as soon as there is one of them.
CloudInitToSdk(params) ==
    LET dns == params.nameserver # Nil \/ params.searchdomain # Nil
        custom == IF params.cicustom = NoSnippets THEN Nil ELSE params.cicustom
        config ==
            [custom |-> custom, user |-> params.ciuser, password |-> params.cipassword,
             upgrade |-> params.ciupgrade, keys |-> params.sshkeys,
             domain |-> IF dns THEN Or(params.searchdomain, "") ELSE Nil,
             servers |-> IF dns THEN Or(params.nameserver, "") ELSE Nil,
             ipconfig |-> [n \in Nics |-> IF params.ipconfig[n] = Nil THEN Nil
                                          ELSE NicToSdk(params.ipconfig[n])]] IN
    IF /\ \A f \in DOMAIN config \ {"ipconfig"} : config[f] = Nil
       /\ \A n \in Nics : config.ipconfig[n] = Nil
    THEN Nil ELSE config

\* CloudInit.Validate.  Of a snippet only the characters of its path are looked
\* at.
CloudInitValid(want, major) ==
    /\ want.upgrade = TRUE => major >= 8
    /\ \A n \in Nics : want.ipconfig[n] # Nil => NicValid(n, want.ipconfig[n])
=============================================================================
