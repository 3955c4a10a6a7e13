----------------------------- MODULE ConfigItems -----------------------------
(***************************************************************************)
(* One item of the cluster's configuration and a program that describes it *)
(* with an object and calls CreateWithValidate, UpdateWithValidate,        *)
(* SetMetrics, SetAcmePlugin or Delete, on its own or with other programs  *)
(* at work.  All of them ask the server what is there and then write, in   *)
(* requests of their own.  The methods of all but ACME plugins change the  *)
(* object they are called on, which the program may then use again.        *)
(***************************************************************************)
EXTENDS StorageItem, ServiceItems, SdnItems

CONSTANTS Kinds,
          MaxCalls, MaxOthers, MaxFaults,
          Asked(_),   \* the objects that programs make
          Items(_),   \* the items there may be
          Foreign(_)  \* those of them that others may put in place later

Services == {"metrics", "acme"}

Objects(k) ==
    CASE k \in StorageTypes -> StorageObjects(k)
      [] k = "metrics" -> MetricsObjects
      [] k = "acme" -> AcmeObjects
      [] OTHER -> SdnObjects(k)

ServerItems(k) ==
    CASE k \in StorageTypes -> Storages(k)
      [] k = "metrics" -> MetricsServers
      [] k = "acme" -> AcmePlugins
      [] OTHER -> Networks(k)

ASSUME ConfigItemsAssumption ==
    /\ Kinds \subseteq StorageTypes \cup Services \cup SdnKinds
    /\ {MaxCalls, MaxOthers, MaxFaults} \subseteq Nat
    /\ \A k \in Kinds : Asked(k) \subseteq Objects(k) /\ Items(k) \cup Foreign(k) \subseteq ServerItems(k)
    /\ \A t \in Kinds \cap StorageTypes :
          /\ Contents[t] \subseteq Strings
          /\ Hardcoded(t) => HardContent(t) \subseteq Contents[t]
    /\ MaxDelay \in Nat /\ MaxDelay >= 30

ASSUME NilAssumption ==
    /\ Nil \notin BOOLEAN /\ Nil \notin Int
    /\ \A t \in Kinds \cap StorageTypes : Nil \notin Specs(t) /\ \A c \in SUBSET Contents[t] : c # Nil
    /\ \A k \in Kinds : Nil \notin Objects(k) /\ Nil \notin ServerItems(k)

VARIABLES
    kind,    \* of the item; of a storage, its type
    item,    \* what the server has, Nil if nothing
    parent,  \* the zone of the vnet, or the vnet of the subnet, is there
    obj,     \* the object
    basis,   \* the item that the object was read from
    pc, op, result,
    asked,   \* the object when the call began
    creates, \* the call writes with POST
    enables, \* a storage is created disabled, and enabled afterwards
    current, \* what an update of a storage read
    at,      \* the item when the write arrived
    left,    \* and after it
    calls, others, faults

object == <<obj, basis>>
call == <<op, asked, creates, enables, current, at, left>>
vars == <<kind, item, parent, object, pc, result, call, calls, others, faults>>

Storage == kind \in StorageTypes
Parented == kind \in {"vnet", "subnet"}

-----------------------------------------------------------------------------
\* What the call finds wrong with the object, and where it panics.
Valid(o) ==
    CASE Storage -> StorageValid(o, current)
      [] kind = "metrics" -> MetricsValid(o)
      [] kind = "acme" -> AcmeValid(o)
      [] OTHER -> SdnValid(kind, o, creates)

Panics(o) ==
    \/ Storage /\ StoragePanics(o, current)
    \/ kind = "metrics" /\ MetricsPanics(o)

\* The object after the call; Create disables it if it has to enable it later.
Used(o) ==
    CASE Storage -> StorageAfter([o EXCEPT !.enable = @ /\ ~creates], creates)
      [] kind = "metrics" -> MetricsAfter(o)
      [] kind = "acme" -> o
      [] OTHER -> SdnAfter(kind, o)

\* The request of an object that was used.
ToApi(o) ==
    CASE Storage -> StorageToApi([o EXCEPT !.enable = @ /\ ~creates], creates)
      [] kind = "metrics" -> MetricsToApi(MetricsAfter(o), creates)
      [] kind = "acme" -> AcmeToApi(o)
      [] OTHER -> SdnToApi(kind, o, creates)

Carry(r) ==
    CASE Storage -> StorageCarry(r, item)
      [] kind = "metrics" -> MetricsCarry(r, item)
      [] kind = "acme" -> r
      [] OTHER -> SdnCarry(kind, r, item)

\* The server's answer: whether it may carry out the request, or refuse it.
MayAccept(r) ==
    /\ creates <=> item = Nil
    /\ kind = "metrics" => MetricsAccepts(r, item)
    /\ kind \in SdnKinds => SdnAccepts(kind, r, item)
    /\ Parented => parent
MayRefuse(r) == ~MayAccept(r) \/ (kind = "subnet" /\ r.type = "")

-----------------------------------------------------------------------------
Init ==
    /\ kind \in Kinds
    /\ item \in Items(kind) \cup {Nil}
    /\ parent \in IF Parented /\ item = Nil THEN BOOLEAN ELSE {TRUE}
    /\ obj \in Asked(kind) /\ basis = Nil
    /\ pc = "idle" /\ op = "none" /\ result = "none"
    /\ asked = Nil /\ creates = FALSE /\ enables = FALSE /\ current = Nil
    /\ at = Nil /\ left = Nil
    /\ calls = 0 /\ others = 0 /\ faults = 0

Return(r) == pc' = "done" /\ result' = r
Crash == Return("panic")

\* NewConfigStorageFromApi, NewConfigMetricsFromApi and
\* NewConfigAcmePluginFromApi, called by the program.  Of an item of the
\* network it reads the digest.
Load ==
    /\ pc = "idle" /\ calls = 0 /\ basis = Nil /\ item # Nil
    /\ IF Storage /\ StorageUnreadable(item)
       THEN Crash /\ UNCHANGED object
       ELSE /\ obj' = CASE Storage -> StorageToSdk(item)
                        [] kind = "metrics" -> MetricsToSdk(item)
                        [] kind = "acme" -> AcmeToSdk(item)
                        [] OTHER -> [obj EXCEPT !.digest = item]
            /\ basis' = item
            /\ UNCHANGED <<pc, result>>
    /\ UNCHANGED <<kind, item, parent, call, calls, others, faults>>

\* The first step of a call.  Metric servers and ACME plugins are validated
\* before anything is asked; of a subnet the vnet comes first.
Call ==
    /\ pc \in {"idle", "done"} /\ result # "panic" /\ calls < MaxCalls
    /\ calls' = calls + 1
    /\ op' \in {"delete"} \cup IF kind \in Services THEN {"set"} ELSE {"create", "update"}
    /\ asked' = obj /\ creates' = (op' = "create") /\ enables' = FALSE
    /\ current' = Nil /\ at' = Nil /\ left' = Nil
    /\ CASE op' = "delete" -> pc' = "write" /\ result' = "none"
         [] op' = "set" /\ Panics(obj) -> Crash
         [] op' = "set" /\ ~Panics(obj) /\ ~Valid(obj) -> Return("refused")
         [] OTHER -> pc' = (IF kind = "subnet" THEN "parent" ELSE "list") /\ result' = "none"
    /\ UNCHANGED <<kind, item, parent, object, others, faults>>

\* A list that cannot be read, three times in a row, is used nevertheless.
ListFails ==
    /\ pc \in {"list", "parent"} /\ faults < MaxFaults
    /\ faults' = faults + 1
    /\ Crash
    /\ UNCHANGED <<kind, item, parent, object, call, calls, others>>

\* CheckSDNZoneExistance for a vnet, CheckSDNVNetExistance for a subnet.
Parent ==
    /\ pc = "parent"
    /\ IF ~parent THEN Return("refused")
       ELSE pc' = (IF kind = "subnet" THEN "list" ELSE "check") /\ UNCHANGED result
    /\ UNCHANGED <<kind, item, parent, object, call, calls, others, faults>>

\* Whether the item is there.  The subnets of a vnet that is gone are no list.
List ==
    /\ pc = "list"
    /\ creates' = IF op = "set" THEN item = Nil ELSE creates
    /\ IF kind = "subnet" /\ ~parent THEN Crash
       ELSE IF op # "set" /\ (creates <=> item # Nil) THEN Return("refused")
       ELSE /\ UNCHANGED result
            /\ pc' = CASE op = "set" -> "write"
                       [] kind = "vnet" -> "parent"
                       [] Storage /\ op = "update" -> "current"
                       [] OTHER -> "check"
    /\ UNCHANGED <<kind, item, parent, object, op, asked, enables, current, at, left,
                   calls, others, faults>>

\* Validate reads the storage that is to be updated, if the type is one.
Current ==
    /\ pc = "current"
    /\ IF obj.type \notin StorageTypes \/ item = Nil
       THEN Return("refused") /\ UNCHANGED current
       ELSE IF StorageUnreadable(item) THEN Crash /\ UNCHANGED current
       ELSE current' = StorageToSdk(item) /\ pc' = "check" /\ UNCHANGED result
    /\ UNCHANGED <<kind, item, parent, object, op, asked, creates, enables, at, left,
                   calls, others, faults>>

\* The rest of Validate.
Check ==
    /\ pc = "check"
    /\ IF Panics(obj) THEN Crash
       ELSE IF Valid(obj) THEN pc' = "write" /\ UNCHANGED result
       ELSE Return("refused")
    /\ UNCHANGED <<kind, item, parent, object, call, calls, others, faults>>

\* The answer to a request that makes after of the item, or gets lost on one of
\* its ways.
Answered(accepts, refuses, after, next, r) ==
    \/ accepts /\ item' = after /\ pc' = next /\ result' = r /\ UNCHANGED faults
    \/ refuses /\ Return("rejected") /\ UNCHANGED <<item, faults>>
    \/ /\ faults < MaxFaults /\ faults' = faults + 1
       /\ item' \in {item} \cup IF accepts THEN {after} ELSE {}
       /\ Return("lost")

\* Create and Update, or Delete.
Write ==
    /\ pc = "write"
    /\ IF op = "delete"
       THEN /\ Answered(item # Nil, item = Nil, Nil, "done", "ok")
            /\ UNCHANGED <<obj, enables>>
       ELSE /\ obj' = Used(obj)
            /\ enables' = (Storage /\ creates /\ obj.enable)
            /\ LET r == ToApi(obj) IN
               Answered(MayAccept(r), MayRefuse(r), IF MayAccept(r) THEN Carry(r) ELSE item,
                        IF enables' THEN "enable" ELSE "done",
                        IF enables' THEN "none" ELSE "ok")
    /\ at' = item /\ left' = item'
    /\ UNCHANGED <<kind, parent, basis, op, asked, creates, current, calls, others>>

\* The last request of Create, EnableStorage.
Enable ==
    /\ pc = "enable"
    /\ Answered(item # Nil, item = Nil,
                IF item = Nil THEN Nil ELSE [item EXCEPT !.disable = "0"], "done", "ok")
    /\ left' = IF result' = "ok" THEN [left EXCEPT !.disable = item'.disable] ELSE left
    /\ UNCHANGED <<kind, parent, object, op, asked, creates, enables, current, at, calls, others>>

\* Another program; it takes no parent away that has a child.
Other ==
    /\ others < MaxOthers /\ (basis # Nil \/ calls > 0) /\ result # "panic"
    /\ others' = others + 1
    /\ \/ /\ Parented => parent
          /\ item' \in (Foreign(kind) \cup {Nil}) \ {item}
          /\ UNCHANGED parent
       \/ /\ Parented /\ item = Nil
          /\ parent' = ~parent
          /\ UNCHANGED item
    /\ UNCHANGED <<kind, object, pc, result, call, calls, faults>>

Next == Load \/ Call \/ ListFails \/ Parent \/ List \/ Current \/ Check \/ Write
        \/ Enable \/ Other

Spec == Init /\ [][Next]_vars

-----------------------------------------------------------------------------
(* Properties.                                                             *)

Ok(ops) == pc = "done" /\ result = "ok" /\ op \in ops

\* The fields of a storage of which a call says nothing, or which it cannot
\* change: a struct or a provider's struct that is nil or is not that of the
\* provider, a secret or a namespace that is not given, and the block size of
\* zfs-over-iscsi.
Silent(f) ==
    \/ asked.spec = Nil
    \/ /\ f \in GroupFields \cup {"nowritecache", "lio_tpg"}
       /\ f \notin OfProvider(asked.spec.iscsiprovider)
    \/ f \in Secret(kind) \cup Sticky(kind) /\ asked.spec[f] = Nil
    \/ ~creates /\ f \in GroupFields \cup {"nowritecache", "lio_tpg"} /\ asked.spec[f] = Nil
    \/ ~creates /\ kind = "zfs-over-iscsi" /\ f = "blocksize"

\* A storage that was created or updated reads as it was asked for, but for the
\* default in place of an empty preallocation of a directory, which Validate lets
\* pass, and for the slashes before a namespace.  The write cache of comstar reads as
\* on when there is no host group, and the storage cannot
\* be read with an empty block size or pool, or if it could not be before; and
\* what may not change is not as asked for if another storage took its place.
StorageReadsBack ==
    LET read == StorageToSdk(left)
        before == StorageToSdk(at)
        field(f) == IF f \in Secret(kind) THEN left.params[f] ELSE read.spec[f]
        fieldBefore(f) == IF creates THEN Nil
                          ELSE IF f \in Secret(kind) THEN at.params[f] ELSE before.spec[f] IN
    IF StorageUnreadable(left)
    THEN \/ ~creates /\ StorageUnreadable(at)
         \/ asked.spec # Nil /\ \E f \in {"blocksize", "pool"} \cap Fields(kind) : asked.spec[f] = ""
    ELSE /\ read.type = asked.type /\ read.enable = asked.enable /\ read.nodes = asked.nodes
         /\ read.content =
               LET c == IF Hardcoded(kind) THEN HardContent(kind)
                        ELSE IF asked.content = Nil THEN {} ELSE asked.content \cap Contents[kind]
               IN IF c = {} /\ kind # "iscsi" THEN Nil ELSE c
         /\ read.keep = IF "backup" \notin Contents[kind] \/ asked.keep = Nil
                        THEN IF creates THEN Nil ELSE before.keep
                        ELSE IF asked.keep = "all" THEN Nil ELSE asked.keep
         /\ \A f \in Fields(kind) :
               \/ field(f) = IF Silent(f) THEN fieldBefore(f)
                             ELSE IF f \in Defaulted(kind) THEN Or(NonEmpty(asked.spec[f]), Default(kind, f))
                             ELSE IF f \in Secret(kind) THEN NonEmpty(asked.spec[f])
                             ELSE IF f \in Sticky(kind) THEN NonEmpty(TrimLeft(asked.spec[f]))
                             ELSE asked.spec[f]
               \/ f = "nowritecache" /\ left.params.comstar_hg = Nil /\ read.spec[f] = "0"
               \/ /\ ~creates /\ before # current /\ field(f) = fieldBefore(f)
                  /\ f \in Fixed(kind) \cup GroupFields \cup {"nowritecache", "lio_tpg"}

\* So does a metric server; an empty path or bucket reads as the default.
MetricsReadsBack ==
    LET read == MetricsToSdk(left)
        named(a) == IF a = "" THEN "proxmox" ELSE a IN
    /\ \A f \in {"type", "server", "port", "mtu", "timeout", "enable"} : read[f] = asked[f]
    /\ asked.type = "graphite" =>
          read.graphite = [asked.graphite EXCEPT !.path = named(@)]
    /\ asked.type = "influxdb" =>
          /\ read.influx = [asked.influx EXCEPT !.token = "", !.bucket = named(@)]
          /\ left.influx.token =
                Or(NonEmpty(asked.influx.token), IF creates THEN Nil ELSE at.influx.token)

\* And an ACME plugin, but for its nodes, which are not read.
AcmeReadsBack ==
    /\ AcmeToSdk(left) = [asked EXCEPT !.nodes = ""]
    /\ left.nodes = NonEmpty(asked.nodes)

\* An item of the network has the fields that were given; an update leaves the
\* others and the type, unless it deletes them.
SdnIsAsked ==
    /\ \A f \in SdnFields(kind) :
          left.fields[f] =
              IF asked.fields[f] # "" THEN asked.fields[f]
              ELSE IF creates \/ f \in asked.delete \cup AlwaysSent(kind) THEN Nil
              ELSE at.fields[f]
    /\ left.type = IF creates THEN IF kind = "dns" THEN asked.type ELSE Nil ELSE at.type

\* After a call that succeeded the item is as the object asked for when the
\* call began, as the program would read it, and everything the call was silent
\* about is as it was when the write arrived; except that an update that says
\* nothing of the content of a storage leaves it none.
OkReadsBack ==
    Ok({"create", "update", "set"}) =>
        CASE Storage -> StorageReadsBack
          [] kind = "metrics" -> MetricsReadsBack
          [] kind = "acme" -> AcmeReadsBack
          [] OTHER -> SdnIsAsked

\* An update that is based on a digest succeeds only if nobody has changed the
\* item since the digest was read.
NoLostUpdate ==
    Ok({"update"}) /\ kind \in SdnKinds /\ asked.digest # Nil => at = asked.digest

\* Calls of one program alone that are rejected or panic: zones and subnets
\* that are created, as a zone's name and type and a subnet's CIDR are taken
\* out of the request; an update of a subnet, that has an empty type; a stale
\* digest or a field both set and deleted; a negative vrf-vxlan, which is checked
\* for new evpn zones only; a metric server whose object has no struct for the
\* other type, or that is to change its type; a storage that has not all that is
\* read of it, and zfs-over-iscsi without its struct or that of lio.
Unsendable ==
    CASE kind \in SdnKinds ->
            \/ creates /\ (kind \in {"zone", "subnet"} \/ asked.delete # {})
            \/ ~creates /\ kind = "subnet"
            \/ ~creates /\ asked.digest \notin {Nil, item}
            \/ \E f \in asked.delete : asked.fields[f] # ""
            \/ kind = "zone" /\ asked.fields["vrf-vxlan"] = "invalid"
      [] kind = "metrics" -> \/ asked.graphite = Nil \/ asked.influx = Nil
                             \/ item # Nil /\ asked.type # item.type
      [] Storage -> \/ item # Nil /\ StorageUnreadable(item)
                    \/ kind = "zfs-over-iscsi" /\ (asked.spec = Nil \/ asked.spec.lio_tpg = Nil)
      [] OTHER -> FALSE

\* Nothing else that Validate accepts is rejected or panics, when no other
\* program interferes and no request is lost.
AloneIsAccepted ==
    (pc = "done" /\ result \in {"rejected", "panic"} /\ others = 0 /\ faults = 0)
    => Unsendable \/ (op = "delete" /\ item = Nil) \/ op = "none"

\* Sending back a storage or an ACME plugin as it was read succeeds and leaves
\* it as it was: apart from defaults that are now explicit, the content none,
\* the write cache of comstar, and the nodes of an ACME plugin, which are
\* lost.  A storage with a partial retention or with other mount options is
\* refused, and a metric server panics.
ResendIsHarmless ==
    (pc = "done" /\ calls = 1 /\ basis # Nil /\ op \in {"update", "set"} /\ others = 0 /\ faults = 0)
    => CASE Storage /\ result = "ok" ->
            /\ \A f \in {"type", "nodes", "prune"} : item[f] = basis[f]
            /\ (item.disable = "1") <=> (basis.disable = "1")
            /\ item.content = IF Hardcoded(kind) THEN HardContent(kind) ELSE Or(basis.content, {})
            /\ \A f \in Fields(kind) :
                  \/ item.params[f] = basis.params[f]
                  \/ /\ f \in Defaulted(kind) /\ basis.params[f] = Nil
                     /\ item.params[f] = Default(kind, f)
                  \/ f = "smbversion" /\ basis.params[f] = "default" /\ item.params[f] = Nil
                  \/ /\ f = "nowritecache" /\ basis.params.comstar_hg = Nil
                     /\ item.params[f] = "0"
         [] Storage /\ result # "ok" ->
            /\ result = "refused" /\ item = basis
            /\ \/ basis.prune = "part"
               \/ kind = "nfs" /\ basis.params.options = "invalid"
         [] kind = "metrics" -> result = "panic" /\ item = basis
         [] kind = "acme" ->
            /\ result = "ok"
            /\ item = [basis EXCEPT !.nodes = Nil, !.disable = (@ = TRUE), !.delay = Or(@, 30)]
         [] OTHER -> TRUE
=============================================================================
