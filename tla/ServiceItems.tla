---------------------------- MODULE ServiceItems ----------------------------
(***************************************************************************)
(* Two items that are set, whether or not they are there: metric servers   *)
(* (proxmox/config_metrics.go) and ACME plugins (config_acme_plugin.go).   *)
(* The object of a metric server is                                        *)
(*   [type, server, port, mtu, timeout, enable, graphite, influx]          *)
(* with the structs of both types, of which only the one of its type is    *)
(* used; an item has the parameters of both, Nil those of the other type.  *)
(***************************************************************************)
EXTENDS Integers, Optional

CONSTANTS MaxPort, MinMtu, MaxMtu, MaxDelay

MetricsTypes == {"graphite", "influxdb"}

\* The strings that the code itself makes or compares with.
ASSUME ServiceItemsAssumption ==
    MetricsTypes \cup {"", "proxmox", "udp", "tcp", "http", "https"} \subseteq Strings

NoInflux == [prefix |-> Nil, bucket |-> Nil, body |-> Nil, token |-> Nil, proto |-> Nil]
NoGraphite == [path |-> Nil, proto |-> Nil]

MetricsObjects ==
    [type : Strings, server : Strings, port : Int, mtu : Int, timeout : Int, enable : BOOLEAN,
     graphite : {Nil} \cup [path : Strings, proto : Strings],
     influx : {Nil} \cup [prefix : Strings, bucket : Strings, body : Int, token : Strings,
                         proto : Strings]]

\* The metric servers there may be: the parameters of one type, none of them
\* empty.
MetricsServers ==
    LET Text == {Nil} \cup (Strings \ {""}) IN
    {i \in [type : MetricsTypes, server : Strings \ {""}, port : Int, mtu : {Nil} \cup Int,
            timeout : {Nil} \cup Int, disable : {Nil} \cup BOOLEAN,
            graphite : [path : Text, proto : {Nil, "udp", "tcp"}],
            influx : [prefix : Text, bucket : Text, body : {Nil} \cup Int, token : Text,
                      proto : {Nil, "udp", "http", "https"}]] :
        IF i.type = "graphite" THEN i.influx = NoInflux ELSE i.graphite = NoGraphite}

\* ValidateMetrics reads both structs.
MetricsPanics(o) ==
    /\ o.type \in MetricsTypes /\ o.server # ""
    /\ \/ o.graphite = Nil
       \/ o.graphite.proto \in {"udp", "tcp"} /\ o.influx = Nil

MetricsValid(o) ==
    /\ o.type \in MetricsTypes /\ o.server # ""
    /\ o.graphite.proto \in {"udp", "tcp"}
    /\ o.influx.proto \in {"udp", "http", "https"} /\ o.influx.body >= 1
    /\ o.port \in 1..MaxPort /\ o.mtu \in MinMtu..MaxMtu /\ o.timeout >= 0

\* RemoveMetricsNestedStructs, called by CreateMetrics and UpdateMetrics.
MetricsAfter(o) ==
    [o EXCEPT !.graphite = IF o.type # "graphite" THEN Nil ELSE @,
              !.influx = IF o.type = "graphite" THEN Nil ELSE @]

\* mapToApiValues, of an object without the struct of the other type.
MetricsToApi(o, create) ==
    [set |-> [type |-> IF create THEN o.type ELSE Nil,
              server |-> o.server, port |-> o.port, mtu |-> o.mtu, timeout |-> o.timeout,
              disable |-> ~o.enable,
              graphite |-> IF o.graphite = Nil THEN NoGraphite
                           ELSE [o.graphite EXCEPT !.path = NonEmpty(@)],
              influx |-> IF o.influx = Nil THEN NoInflux
                         ELSE [o.influx EXCEPT !.prefix = NonEmpty(@), !.token = NonEmpty(@),
                                               !.bucket = NonEmpty(@)]],
     delete |-> IF o.graphite # Nil THEN IF o.graphite.path = "" THEN {"path"} ELSE {}
                ELSE {f \in {"prefix", "bucket"} : o.influx[f] = ""}]

MergeFields(set, delete, old) ==
    [f \in DOMAIN old |-> IF f \in delete THEN Nil ELSE Or(set[f], old[f])]

\* The server refuses the parameters of the other type.
MetricsAccepts(r, item) ==
    item # Nil => IF item.type = "graphite" THEN r.set.influx = NoInflux
                  ELSE r.set.graphite = NoGraphite

MetricsCarry(r, item) ==
    IF item = Nil THEN r.set
    ELSE [f \in DOMAIN item |->
             CASE f \in {"graphite", "influx"} -> MergeFields(r.set[f], r.delete, item[f])
               [] OTHER -> Or(r.set[f], item[f])]

DefaultBody == 25 * 1000 * 1000

\* NewConfigMetricsFromApi: what is missing is as InstantiateConfigMetrics has it.
MetricsToSdk(item) ==
    MetricsAfter(
        [type |-> item.type, server |-> item.server, port |-> item.port,
         mtu |-> Or(item.mtu, 1500), timeout |-> Or(item.timeout, 1),
         enable |-> item.disable # TRUE,
         graphite |-> [path |-> Or(item.graphite.path, "proxmox"),
                       proto |-> Or(item.graphite.proto, "udp")],
         influx |-> [prefix |-> Or(item.influx.prefix, ""),
                     bucket |-> Or(item.influx.bucket, "proxmox"),
                     body |-> Or(item.influx.body, DefaultBody), token |-> "",
                     proto |-> Or(item.influx.proto, "udp")]])

-----------------------------------------------------------------------------
(* ACME plugins: [api, data, enable, nodes, delay].                        *)

AcmeObjects == [api : Strings, data : Strings, enable : BOOLEAN, nodes : Strings, delay : Int]

AcmePlugins ==
    [api : Strings, data : {Nil} \cup (Strings \ {""}), disable : {Nil} \cup BOOLEAN,
     nodes : {Nil} \cup (Strings \ {""}), delay : {Nil} \cup 0..MaxDelay]

AcmeValid(o) == o.delay \in 0..MaxDelay

\* A POST leaves out what is empty, a PUT sends it.  The server decodes data.
AcmeToApi(o) ==
    [api |-> o.api, data |-> NonEmpty(o.data), disable |-> ~o.enable,
     nodes |-> NonEmpty(o.nodes), delay |-> o.delay]

AcmeToSdk_mut(item) ==  \* a delay that is not set is none
    [api |-> item.api, data |-> Or(item.data, ""), enable |-> item.disable # TRUE,
     nodes |-> "", delay |-> Or(item.delay, 0)]

\* NewConfigAcmePluginFromApi does not read the nodes.
AcmeToSdk(item) ==
    [api |-> item.api, data |-> Or(item.data, ""), enable |-> item.disable # TRUE,
     nodes |-> "", delay |-> Or(item.delay, 30)]
=============================================================================
