---------------------------- MODULE StorageItem ----------------------------
(***************************************************************************)
(* A storage backend (proxmox/config_storage.go): the parameters that the  *)
(* server has, the object a program describes it with, and the way from    *)
(* one to the other and back.  An object is                                *)
(*   [type, enable, nodes, content, keep, spec]                            *)
(* where spec is the one struct that was filled, nil or a function of its *)
(* fields, which are named after the parameters; content is the set of     *)
(* what may be stored and keep the backup retention: "all" without a       *)
(* number, "full" with six, "part" with fewer or with a zero.              *)
(***************************************************************************)
EXTENDS Optional

CONSTANTS Contents  \* of each type, storageContentTypes

StorageTypes == {"directory", "lvm", "lvm-thin", "nfs", "smb", "glusterfs", "iscsi",
                 "cephfs", "rbd", "zfs-over-iscsi", "zfs", "pbs"}

\* The strings that the code itself makes or compares with, and those that stand
\* for a class of others here.
ASSUME StorageItemAssumption ==
    StorageTypes \cup {"", "0", "1", "all", "full", "part", "dir", "lvmthin", "cifs", "zfspool",
                      "LIO", "lio", "comstar", "istgt", "iet", "metadata", "4k", "8k", "8007",
                      "backup", "images", "invalid", "bare", "default", "/", "/ns", "ns"} \subseteq Strings

\* RemapToAPI and RemapFromAPI.
ApiType(t) ==
    CASE t = "directory" -> "dir"  [] t = "lvm-thin" -> "lvmthin" [] t = "smb" -> "cifs"
      [] t = "zfs-over-iscsi" -> "zfs" [] t = "zfs" -> "zfspool" [] OTHER -> t

SdkType(t) == CHOOSE s \in StorageTypes : ApiType(s) = t

ApiProvider(p) == IF p = "lio" THEN "LIO" ELSE p
SdkProvider(p) == IF p = "LIO" THEN "lio" ELSE p

-----------------------------------------------------------------------------
(* The fields of the structs.                                              *)

\* Sent by Create only; an update may not change them.
Fixed(t) ==
    CASE t = "directory" -> {"path"}
      [] t = "lvm" -> {"vgname"}
      [] t = "lvm-thin" -> {"vgname", "thinpool"}
      [] t = "nfs" -> {"server", "export"}
      [] t = "smb" -> {"server", "share"}
      [] t = "glusterfs" -> {"volume"}
      [] t = "iscsi" -> {"portal", "target"}
      [] t \in {"cephfs", "rbd"} -> {}
      [] t = "zfs-over-iscsi" -> {"iscsiprovider", "portal", "target", "pool"}
      [] t = "zfs" -> {"pool"}
      [] t = "pbs" -> {"server", "datastore"}

\* Sent by every call, empty or not.
Plain(t) ==
    CASE t \in {"directory", "lvm"} -> {"shared"}
      [] t = "smb" -> {"domain", "username"}
      [] t = "glusterfs" -> {"server"}
      [] t = "cephfs" -> {"monhost", "fs-name", "username"}
      [] t = "rbd" -> {"krbd", "monhost", "pool", "namespace", "username"}
      [] t \in {"zfs-over-iscsi", "zfs"} -> {"sparse"}
      [] t = "pbs" -> {"username"}
      [] OTHER -> {}

\* Pointers that SetDefaults fills.
Defaulted(t) ==
    CASE t \in {"directory", "nfs", "smb", "glusterfs"} -> {"preallocation"}
      [] t \in {"zfs-over-iscsi", "zfs"} -> {"blocksize"}
      [] t = "pbs" -> {"port"}
      [] OTHER -> {}

Default(t, f) ==
    CASE f = "preallocation" -> "metadata"
      [] f = "blocksize" -> IF t = "zfs" THEN "8k" ELSE "4k"
      [] f = "port" -> "8007"

\* Deleted by an update that does not give them.
Clearable(t) ==
    CASE t = "nfs" -> {"options"} [] t = "smb" -> {"smbversion"}
      [] t = "glusterfs" -> {"server2"} [] t = "pbs" -> {"fingerprint"} [] OTHER -> {}

\* Sent when they are given, and never returned.
Secret(t) ==
    CASE t \in {"smb", "pbs"} -> {"password"} [] t \in {"cephfs", "rbd"} -> {"keyring"}
      [] OTHER -> {}

\* Sent when it is given, and never deleted; without the slashes it begins with,
\* for which "/" and "/ns" stand.
Sticky(t) == IF t = "pbs" THEN {"namespace"} ELSE {}
TrimLeft(n) == IF n = "/" THEN "" ELSE IF n = "/ns" THEN "ns" ELSE n

\* The structs of the providers of zfs-over-iscsi, and what Create alone sends.
Providers == {"comstar", "istgt", "lio", "iet"}
OfProvider(p) ==
    CASE p = "comstar" -> {"nowritecache", "comstar_hg", "comstar_tg"}
      [] p = "istgt" -> {"nowritecache"} [] p = "lio" -> {"lio_tpg"} [] OTHER -> {}
GroupFields == {"comstar_hg", "comstar_tg"}

Fields(t) == Fixed(t) \cup Plain(t) \cup Defaulted(t) \cup Clearable(t) \cup Secret(t)
             \cup Sticky(t)
             \cup IF t = "zfs-over-iscsi" THEN UNION {OfProvider(p) : p \in Providers} ELSE {}

\* The struct of the object's type, which is another one once Create has spelled
\* zfs-over-iscsi as zfs.
Struct(o) == IF o.spec # Nil /\ DOMAIN o.spec = Fields(o.type) THEN o.spec ELSE Nil

\* The fields that a program may leave out.
Pointers(t) == Defaulted(t) \cup Clearable(t) \cup Secret(t) \cup Sticky(t)
               \cup IF t = "zfs-over-iscsi" THEN UNION {OfProvider(p) : p \in Providers} ELSE {}

Provided(t, s) == IF t = "zfs-over-iscsi" THEN OfProvider(s.iscsiprovider) ELSE {}

\* The types whose content the SDK decides.
Hardcoded(t) == t \in {"pbs", "zfs-over-iscsi"}
HardContent(t) == IF t = "pbs" THEN {"backup"} ELSE {"images"}

Retentions == {Nil, "all", "full", "part"}

\* The structs of a type.  What is no pointer is given, or Nil if it is left out
\* of a request when it is empty; booleans are never empty; the struct of
\* comstar is there or not.  What a mount option or a version of SMB may be on
\* the server only is "invalid" here.
Specs(t) ==
    {s \in [Fields(t) -> Strings \cup {Nil}] :
        /\ \A f \in Fields(t) :
              /\ s[f] = Nil => f \in Pointers(t)
              /\ s[f] = "" => f \notin Clearable(t) \cup Sticky(t)
                                       \cup {"shared", "krbd", "sparse", "nowritecache"}
        /\ t = "nfs" => s.options # "bare"
        /\ t = "smb" => s.smbversion # "default"
        /\ t = "zfs-over-iscsi" =>
              /\ s.comstar_hg = Nil <=> s.comstar_tg = Nil
              /\ s.comstar_hg # Nil => s.nowritecache # Nil}

\* The objects for a storage of type t.  What is spelled otherwise is no type.
StorageObjects(t) ==
    {o \in [type : Strings, enable : BOOLEAN, nodes : Strings,
            content : {Nil} \cup SUBSET Strings, keep : Retentions, spec : {Nil} \cup Specs(t)] :
        o.type \in StorageTypes => o.type \in {t, ApiType(t)}}

\* The storages of type t that the server has: nothing is empty there, no namespace
\* begins with a slash, and a version of SMB and a port are valid.
Storages(t) ==
    {i \in [type : {ApiType(t)}, disable : {Nil, "0", "1"}, nodes : {Nil} \cup Strings,
            prune : Retentions, content : {Nil} \cup SUBSET Contents[t],
            params : [Fields(t) -> Strings \cup {Nil}]] :
        /\ i.nodes # ""
        /\ \A f \in Fields(t) :
              /\ i.params[f] # "" /\ (i.params[f] = "invalid" => f \notin {"smbversion", "port"})
              /\ f \in Sticky(t) => i.params[f] \notin {"/", "/ns"}}

-----------------------------------------------------------------------------
(* Validate.                                                               *)

\* What no call may leave empty, and what Create needs besides.  An empty password
\* is one.
Required(t) ==
    CASE t = "glusterfs" -> {"server"} [] t \in {"cephfs", "rbd"} -> {"monhost"}
      [] t = "pbs" -> {"username"} [] OTHER -> {}
Needed(t) == Fixed(t) \cup Required(t)

Empty(a) == a \in {Nil, ""}

\* zfs-over-iscsi and lio are looked into without asking whether they are there.
StoragePanics(o, current) ==
    /\ current # Nil /\ o.type = "zfs-over-iscsi" /\ current.type = o.type
    /\ \/ o.spec = Nil
       \/ /\ \A f \in Fixed(o.type) : o.spec[f] = current.spec[f]
          /\ o.spec.iscsiprovider = "lio" /\ o.spec.lio_tpg = Nil

SpecValid(t, s, current) ==
    /\ IF current = Nil
       THEN (\A f \in Needed(t) : ~Empty(s[f])) /\ (t = "pbs" => s.password # Nil)
       ELSE \A f \in Fixed(t) : s[f] = current.spec[f]
    /\ \A f \in Required(t) : ~Empty(s[f])
    /\ \A f \in {"preallocation", "blocksize", "port"} \cap Fields(t) :
          s[f] # "" \/ t \in {"directory", "zfs-over-iscsi"}
    /\ \A f \in {"options", "smbversion", "port"} \cap Fields(t) : s[f] # "invalid"
    /\ t = "zfs-over-iscsi" =>
          /\ s.iscsiprovider \in Providers \/ current # Nil
          /\ current = Nil => \A f \in Provided(t, s) : s[f] # Nil
          /\ (current # Nil /\ s.iscsiprovider = "comstar" /\ s.comstar_hg # Nil) =>
                \A f \in GroupFields : s[f] = current.spec[f]
          /\ s.iscsiprovider = "lio" => ~Empty(s.lio_tpg)

\* Any content passes ConfigStorageContent.Validate: MapStorageContent never
\* returns the empty string that it looks for.
StorageValid(o, current) ==
    /\ o.type \in StorageTypes
    /\ current # Nil => o.type = current.type
    /\ current = Nil => Struct(o) # Nil /\ (o.content # Nil \/ Hardcoded(o.type))
    /\ Struct(o) # Nil => SpecValid(o.type, Struct(o), current)
    /\ o.keep # "part"

-----------------------------------------------------------------------------
(* mapToApiValues.                                                         *)

\* The fields of an object that a request carries.
SentFields(o, create) ==
    LET t == o.type  s == o.spec IN
    IF s = Nil THEN {}
    ELSE Plain(t) \cup (Defaulted(t) \ IF t = "zfs-over-iscsi" /\ ~create THEN {"blocksize"} ELSE {})
         \cup {f \in Clearable(t) \cup Secret(t) \cup Sticky(t) : s[f] # Nil}
         \cup {f \in Provided(t, s) : s[f] # Nil /\ (create \/ f \notin GroupFields)}
         \cup IF create THEN Fixed(t) ELSE {}

SentField(o, f) ==
    CASE f \in Defaulted(o.type) -> Or(o.spec[f], Default(o.type, f))
      [] f = "iscsiprovider" -> ApiProvider(o.spec[f])
      [] f \in Sticky(o.type) -> TrimLeft(o.spec[f])
      [] OTHER -> o.spec[f]

MapContent_mut(o) ==  \* the hard-coded contents are forgotten
    IF o.content = Nil THEN {} ELSE o.content \cap Contents[o.type]

\* The content of the request; none of it is {}.
MapContent(o) ==
    LET content == IF Hardcoded(o.type) THEN HardContent(o.type) ELSE o.content IN
    IF content = Nil THEN {} ELSE content \cap Contents[o.type]

StorageToApi(o, create) ==
    LET sent == SentFields(o, create)
        set == [f \in Fields(o.type) |->
                   IF f \in sent THEN NonEmpty(SentField(o, f)) ELSE Nil] IN
    [type |-> IF create THEN ApiType(o.type) ELSE Nil,
     disable |-> IF o.enable THEN "0" ELSE "1",
     nodes |-> NonEmpty(o.nodes),
     content |-> MapContent(o),
     prune |-> IF "backup" \in Contents[o.type] THEN o.keep ELSE Nil,
     params |-> set,
     delete |-> IF create THEN {}
                ELSE {f \in sent : SentField(o, f) = ""}
                     \cup IF o.spec = Nil THEN {}
                          ELSE {f \in Clearable(o.type) : o.spec[f] = Nil}]

\* The server: a storage has what was sent, and keeps what was not.
StorageCarry(r, item) ==
    [type |-> IF item = Nil THEN r.type ELSE item.type,
     disable |-> r.disable, nodes |-> r.nodes, content |-> r.content,
     prune |-> IF item = Nil THEN r.prune ELSE Or(r.prune, item.prune),
     params |-> IF item = Nil THEN r.params
                ELSE [f \in DOMAIN item.params |->
                         IF f \in r.delete THEN Nil ELSE Or(r.params[f], item.params[f])]]

\* What the call leaves of the object: Create keeps the type as the server
\* spells it.
StorageAfter(o, create) ==
    [o EXCEPT !.type = IF create THEN ApiType(@) ELSE @,
              !.content = IF Hardcoded(o.type) THEN HardContent(o.type) ELSE @,
              !.spec = IF @ = Nil THEN Nil
                       ELSE [f \in DOMAIN @ |->
                                CASE f \in Defaulted(o.type) -> Or(@[f], Default(o.type, f))
                                  [] f = "iscsiprovider" -> ApiProvider(@[f])
                                  [] OTHER -> @[f]]]

-----------------------------------------------------------------------------
(* NewConfigStorageFromApi.                                                *)

\* The parameters that are read without asking whether the server has them;
\* nowritecache is read when there is a comstar_hg.
StorageUnreadable(item) ==
    LET t == SdkType(item.type)
        provider == SdkProvider(item.params.iscsiprovider)
        needs == ({"shared", "krbd", "sparse", "pool"} \cap Plain(t)) \cup Required(t) \cup Fixed(t)
                 \cup IF t # "zfs-over-iscsi" THEN {}
                      ELSE {"blocksize"} \cup
                           IF provider # "comstar" THEN OfProvider(provider)
                           ELSE IF item.params.comstar_hg # Nil THEN {"nowritecache"} ELSE {}
    IN \/ \E f \in needs : item.params[f] = Nil
       \/ t = "nfs" /\ item.params.options = "bare"

ReadField(t, ps, f) ==
    CASE f \in Secret(t) -> Nil
      [] f \in Defaulted(t) -> Or(ps[f], Default(t, f))
      [] f = "iscsiprovider" -> SdkProvider(ps[f])
      [] f \in GroupFields \cup {"nowritecache", "lio_tpg"} ->
            IF f \notin OfProvider(SdkProvider(ps.iscsiprovider)) THEN Nil
            ELSE IF f = "nowritecache" /\ ps.iscsiprovider = "comstar"
            THEN IF ps.comstar_hg = Nil THEN "0" ELSE ps[f]
            ELSE Or(ps[f], "")
      [] f = "smbversion" -> IF ps[f] = "default" THEN Nil ELSE ps[f]
      [] f \in (Clearable(t) \cup Sticky(t)) \ {"smbversion"} -> ps[f]
      [] OTHER -> Or(ps[f], "")

ReadContent(t, content) ==
    IF content \in {Nil, {}} THEN IF content = {} /\ t = "iscsi" THEN {} ELSE Nil
    ELSE content \cap Contents[t]

StorageToSdk(item) ==
    LET t == SdkType(item.type) IN
    [type |-> t, enable |-> item.disable # "1", nodes |-> Or(item.nodes, ""),
     content |-> ReadContent(t, item.content),
     keep |-> IF item.prune = "all" THEN Nil ELSE item.prune,
     spec |-> [f \in Fields(t) |-> ReadField(t, item.params, f)]]
=============================================================================
