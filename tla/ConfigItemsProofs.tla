-------------------------- MODULE ConfigItemsProofs --------------------------
(***************************************************************************)
(* Proofs about ConfigItems, for all objects that programs make and all    *)
(* items there may be, of every kind, and for any number of calls, of      *)
(* writes of other programs and of requests that fail.                     *)
(*                                                                         *)
(* What a call writes was made of an object that Validate had accepted and *)
(* of the item as it was when the call looked, so the properties are       *)
(* proved of the conversions first, kind by kind: what an item becomes     *)
(* when an object is written over it (Carried), what it then reads as      *)
(* (FieldRead and the lemmas on ReadBack), and what becomes of it when     *)
(* what was read is written back (SentBack).  The invariant IInv takes     *)
(* that through the steps of a call: Placed says which call is where,      *)
(* Compared and Checked what it has found out by then, Written what is on  *)
(* the server right after the write, and Alone what nobody can have        *)
(* changed when the program is alone and nothing is lost.                  *)
(***************************************************************************)
EXTENDS ConfigItems, TLAPS

-----------------------------------------------------------------------------
(* The inductive invariant.                                                *)

\* The objects that the program may have, with the digest that it read.
HeldObjects(k) ==
    IF k \notin SdnKinds THEN Objects(k)
    ELSE [type : {Nil} \cup Strings, cidr : {"valid", "invalid"},
          fields : [SdnFields(k) -> Strings], delete : SUBSET SdnFields(k),
          digest : {Nil} \cup Networks(k)]

Ops(k) == {"none", "delete"} \cup IF k \in Services THEN {"set"} ELSE {"create", "update"}

TypeOK ==
    /\ kind \in Kinds
    /\ item \in {Nil} \cup ServerItems(kind) /\ basis \in {Nil} \cup ServerItems(kind)
    /\ parent \in BOOLEAN
    /\ obj \in HeldObjects(kind)
    /\ op \in Ops(kind) /\ creates \in BOOLEAN
    /\ calls \in Nat /\ others \in Nat /\ faults \in Nat

\* A call that has asked something but not written yet.
Busy == pc \in {"parent", "list", "current", "check", "write"}

\* Which calls come where, and that they are on the object.
Placed ==
    /\ pc \in {"idle", "done", "enable"} \/ Busy
    /\ pc = "idle" => result = "none"
    /\ calls = 0 => op = "none" /\ ~Busy /\ pc # "enable"
    /\ Busy => asked = obj /\ op # "none" /\ result = "none"
    /\ op = "delete" => pc \in {"write", "done"}
    /\ kind \notin Services => (creates <=> op = "create")
    /\ pc = "parent" => Parented
    /\ pc = "current" => Storage /\ op = "update"
    /\ pc = "check" => kind \notin Services
    /\ pc = "enable" => Storage /\ op = "create"

\* What an update of a storage compares with.
Compared ==
    /\ op # "update" => current = Nil
    /\ Storage /\ op = "update" /\ pc \in {"check", "write"} => current # Nil /\ current.type = kind

\* What is written was found to be valid.
Checked ==
    op # "delete" /\ (pc = "write" \/ (pc = "list" /\ kind \in Services)) => Valid(obj) /\ ~Panics(obj)

\* The state in which the properties look at a storage that was written,
StorageSent ==
    /\ kind \in StorageTypes \cap Kinds
    /\ creates \in BOOLEAN
    /\ asked \in StorageObjects(kind) /\ asked.type = kind /\ asked.keep # "part"
    /\ asked.spec # Nil => asked.spec \in Specs(kind) /\ SpecValid(kind, asked.spec, current)
    /\ IF creates THEN at = Nil /\ current = Nil /\ asked.spec # Nil
       ELSE at # Nil /\ current # Nil /\ at \in Storages(kind)

StorageWritten == StorageSent /\ left = StorageCarry(StorageToApi(asked, creates), at)

\* before it is enabled,
StorageCreated ==
    /\ StorageSent
    /\ left \in Storages(kind)
    /\ [left EXCEPT !.disable = "0"] = StorageCarry(StorageToApi(asked, creates), at)

\* and at a metric server, an ACME plugin or an item of the network.
MetricsWritten ==
    /\ kind = "metrics"
    /\ asked \in MetricsObjects /\ MetricsValid(asked) /\ ~MetricsPanics(asked)
    /\ creates \in BOOLEAN
    /\ IF creates THEN at = Nil ELSE at # Nil /\ at \in MetricsServers
    /\ MetricsAccepts(MetricsToApi(MetricsAfter(asked), creates), at)
    /\ left = MetricsCarry(MetricsToApi(MetricsAfter(asked), creates), at)

AcmeWritten == asked \in AcmeObjects /\ left = AcmeToApi(asked)

SdnWritten ==
    /\ kind \in SdnKinds
    /\ asked.fields \in [SdnFields(kind) -> Strings] /\ creates \in BOOLEAN
    /\ IF creates THEN at = Nil ELSE at # Nil /\ at \in Networks(kind)
    /\ SdnAccepts(kind, SdnToApi(kind, asked, creates), at)
    /\ left = SdnCarry(kind, SdnToApi(kind, asked, creates), at)

Written ==
    /\ pc = "enable" => StorageCreated
    /\ Ok({"create", "update", "set"}) =>
          CASE Storage -> StorageWritten
            [] kind = "metrics" -> MetricsWritten
            [] kind = "acme" -> AcmeWritten
            [] OTHER -> SdnWritten

\* As long as nobody else has done anything and nothing was lost, the item is
\* as the call has found it,
Found ==
    /\ op # "delete" /\ (pc \in {"current", "check", "write"} \/ (pc = "parent" /\ kind = "vnet")) =>
          (creates <=> item = Nil)
    /\ Busy /\ op # "delete" /\ Parented /\ (IF kind = "vnet" THEN pc \in {"check", "write"} ELSE pc # "parent") =>
          parent
    /\ Storage /\ op = "update" /\ pc \in {"check", "write"} =>
          ~StorageUnreadable(item) /\ current = StorageToSdk(item)
    /\ pc = "enable" => item # Nil

\* and an object that was read is as it was read.
AsRead ==
    (basis # Nil /\ calls <= 1 /\ (calls = 0 \/ Busy)) =>
        /\ item = basis
        /\ Storage => ~StorageUnreadable(basis) /\ obj = StorageToSdk(basis)
        /\ kind = "metrics" => obj = MetricsToSdk(basis)
        /\ kind = "acme" => obj = AcmeToSdk(basis)

Alone == others = 0 /\ faults = 0 => Found /\ AsRead

IInv ==
    /\ TypeOK /\ Placed /\ Compared /\ Checked /\ Written
    /\ Alone /\ AloneIsAccepted /\ ResendIsHarmless

-----------------------------------------------------------------------------
\* The fields of the providers of zfs-over-iscsi.
ProviderFields == GroupFields \cup {"nowritecache", "lio_tpg"}

-----------------------------------------------------------------------------
\* The fields of the structs of the providers.
LEMMA UnionOfProviders == UNION {OfProvider(p) : p \in Providers} = ProviderFields
<1>1. \A p \in Providers : OfProvider(p) \subseteq ProviderFields
  BY DEF OfProvider, Providers, ProviderFields, GroupFields
<1>2. OfProvider("comstar") \cup OfProvider("lio") = ProviderFields /\ {"comstar", "lio"} \subseteq Providers
  BY DEF OfProvider, Providers, ProviderFields, GroupFields
<1>3. QED BY <1>1, <1>2

\* The fields of a type, class by class (Fixed, Plain, Defaulted, Clearable,
\* Secret, Sticky): no field is in two of them, and those that are looked at by
\* their names.
LEMMA FieldClasses ==
  ASSUME NEW t \in StorageTypes
  PROVE  /\ Fixed(t) \cap (Plain(t) \cup Defaulted(t) \cup Clearable(t) \cup Secret(t) \cup Sticky(t)) = {}
         /\ Plain(t) \cap (Defaulted(t) \cup Clearable(t) \cup Secret(t) \cup Sticky(t)) = {}
         /\ Defaulted(t) \cap (Clearable(t) \cup Secret(t) \cup Sticky(t)) = {}
         /\ Clearable(t) \cap (Secret(t) \cup Sticky(t)) = {}
         /\ Secret(t) \cap Sticky(t) = {}
         /\ "iscsiprovider" \in Fields(t) => t = "zfs-over-iscsi" /\ "iscsiprovider" \in Fixed(t)
         /\ "iscsiprovider" \notin Plain(t) \cup Defaulted(t) \cup Clearable(t) \cup Secret(t) \cup Sticky(t)
         /\ "smbversion" \in Fields(t) => t = "smb" /\ "smbversion" \in Clearable(t)
         /\ "options" \in Fields(t) => t = "nfs" /\ "options" \in Clearable(t)
         /\ "port" \in Fields(t) => "port" \in Defaulted(t)
         /\ Fields(t) \cap {"preallocation", "blocksize", "port"} = Defaulted(t)
         /\ Fields(t) = Fixed(t) \cup Plain(t) \cup Defaulted(t) \cup Clearable(t) \cup Secret(t)
                        \cup Sticky(t) \cup IF t = "zfs-over-iscsi" THEN ProviderFields ELSE {}
         /\ ProviderFields \cap (Fixed(t) \cup Plain(t) \cup Defaulted(t) \cup Clearable(t)
                                 \cup Secret(t) \cup Sticky(t)) = {}
         /\ Required(t) \subseteq Plain(t) /\ {"shared", "krbd", "sparse", "pool"} \cap Plain(t) \subseteq Plain(t)
BY UnionOfProviders, SMTT(60) DEF StorageTypes, Fields, Fixed, Plain, Defaulted, Clearable, Secret, Sticky,
                                  Required, ProviderFields, GroupFields

\* The class of one field.
LEMMA ClassOf ==
  ASSUME NEW t \in StorageTypes, NEW f \in Fields(t)
  PROVE  /\ \/ f \in Fixed(t) \/ f \in Plain(t) \/ f \in Defaulted(t) \/ f \in Clearable(t)
            \/ f \in Secret(t) \/ f \in Sticky(t) \/ f \in ProviderFields
         /\ f \in Fixed(t) => /\ f \notin Plain(t) /\ f \notin Defaulted(t) /\ f \notin Clearable(t)
                             /\ f \notin Secret(t) /\ f \notin Sticky(t) /\ f \notin ProviderFields
         /\ f \in Plain(t) => /\ f \notin Defaulted(t) /\ f \notin Clearable(t)
                             /\ f \notin Secret(t) /\ f \notin Sticky(t) /\ f \notin ProviderFields
         /\ f \in Defaulted(t) => /\ f \notin Clearable(t) /\ f \notin Secret(t)
                                 /\ f \notin Sticky(t) /\ f \notin ProviderFields
         /\ f \in Clearable(t) => f \notin Secret(t) /\ f \notin Sticky(t) /\ f \notin ProviderFields
         /\ f \in Secret(t) => f \notin Sticky(t) /\ f \notin ProviderFields
         /\ f \in Sticky(t) => f \notin ProviderFields
         /\ f \in ProviderFields => t = "zfs-over-iscsi"
         /\ f = "iscsiprovider" => t = "zfs-over-iscsi" /\ f \in Fixed(t)
         /\ f = "smbversion" => t = "smb" /\ f \in Clearable(t)
         /\ f = "options" => t = "nfs" /\ f \in Clearable(t)
         /\ f \in Defaulted(t) <=> f \in {"preallocation", "blocksize", "port"}
         /\ f \in Required(t) => f \in Plain(t)
         /\ f \in Pointers(t) => f \notin Fixed(t) /\ f \notin Plain(t)
         /\ f \in GroupFields \/ f = "nowritecache" \/ f = "lio_tpg" <=> f \in ProviderFields
<1>1. f \in Pointers(t) => f \notin Fixed(t) /\ f \notin Plain(t)
  BY FieldClasses, UnionOfProviders DEF Pointers
<1>2. f \in GroupFields \/ f = "nowritecache" \/ f = "lio_tpg" <=> f \in ProviderFields
  BY DEF ProviderFields
<1>3. f \in ProviderFields => t = "zfs-over-iscsi"
  BY FieldClasses
<1>4. f = "smbversion" => t = "smb" /\ f \in Clearable(t)
  BY FieldClasses
<1>5. f = "options" => t = "nfs" /\ f \in Clearable(t)
  BY FieldClasses
<1>6. f = "iscsiprovider" => t = "zfs-over-iscsi" /\ f \in Fixed(t)
  BY FieldClasses
<1>7. f \in Defaulted(t) <=> f \in {"preallocation", "blocksize", "port"}
  BY FieldClasses
<1>8. QED BY <1>1, <1>2, <1>3, <1>4, <1>5, <1>6, <1>7, FieldClasses

\* What the server had of a parameter.
Old(create, i, f) == IF create THEN Nil ELSE i.params[f]

\* What a call leaves of a parameter that it gave as v, if it gave it.
Put(v, old) == IF v = Nil THEN old ELSE NonEmpty(v)

\* A parameter after a call.
Carried(o, create, i, f) == StorageCarry(StorageToApi(o, create), i).params[f]

\* It depends on the class of the field.
CarriedByClass(t, o, create, i, f) ==
    /\ f \in Fixed(t) => Carried(o, create, i, f) = IF create THEN NonEmpty(SentField(o, f)) ELSE Old(create, i, f)
    /\ f \in Plain(t) => Carried(o, create, i, f) = NonEmpty(o.spec[f])
    /\ f \in Defaulted(t) => Carried(o, create, i, f) =
          IF t = "zfs-over-iscsi" /\ ~create THEN Old(create, i, f)
          ELSE NonEmpty(Or(o.spec[f], Default(t, f)))
    /\ f \in Clearable(t) => Carried(o, create, i, f) = o.spec[f]
    /\ f \in Secret(t) => Carried(o, create, i, f) = Put(o.spec[f], Old(create, i, f))
    /\ f \in Sticky(t) => Carried(o, create, i, f) = Put(TrimLeft(o.spec[f]), Old(create, i, f))
    /\ f \in ProviderFields => Carried(o, create, i, f) =
          IF f \in Provided(t, o.spec) /\ (create \/ f \notin GroupFields)
          THEN Put(o.spec[f], Old(create, i, f)) ELSE Old(create, i, f)

\* A storage after the request of an object with a struct, class by class of
\* its fields (StorageToApi, StorageCarry).
LEMMA FieldsCarried ==
  ASSUME NEW t \in StorageTypes, NEW o, NEW create \in BOOLEAN, NEW i, NEW f \in Fields(t),
         o.type = t, o.spec \in Specs(t), o.spec # Nil,
         IF create THEN i = Nil ELSE i # Nil /\ DOMAIN i.params = Fields(t)
  PROVE  CarriedByClass(t, o, create, i, f)
<1> DEFINE r == StorageToApi(o, create)
           sent == SentFields(o, create)
           s == o.spec
           old == Old(create, i, f)
           v == StorageCarry(r, i).params[f]
<1>0. /\ f \in Fixed(t) => f \notin Plain(t) \cup Defaulted(t) \cup Clearable(t) \cup Secret(t) \cup Sticky(t) \cup ProviderFields
      /\ f \in Plain(t) => f \notin Defaulted(t) \cup Clearable(t) \cup Secret(t) \cup Sticky(t) \cup ProviderFields
      /\ f \in Defaulted(t) => f \notin Clearable(t) \cup Secret(t) \cup Sticky(t) \cup ProviderFields
      /\ f \in Clearable(t) => f \notin Secret(t) \cup Sticky(t) \cup ProviderFields
      /\ f \in Secret(t) => f \notin Sticky(t)
      /\ f \in Secret(t) \cup Sticky(t) => f \notin ProviderFields
      /\ f = "iscsiprovider" => f \in Fixed(t)
  BY FieldClasses
<1>1. /\ f \in sent => r.params[f] = NonEmpty(SentField(o, f))
      /\ f \notin sent => r.params[f] = Nil
      /\ create => r.delete = {}
      /\ ~create => (f \in r.delete <=> (f \in sent /\ SentField(o, f) = "") \/ (f \in Clearable(t) /\ s[f] = Nil))
  BY DEF StorageToApi
<1>2. v = IF create THEN r.params[f]
          ELSE IF f \in r.delete THEN Nil ELSE Or(r.params[f], old)
  BY DEF StorageCarry, Old, StorageToApi
<1>3. /\ s[f] \in Strings \cup {Nil}
      /\ s[f] = Nil => f \in Pointers(t)
      /\ s[f] = "" => f \notin Clearable(t) \cup Sticky(t)
  BY DEF Specs
<1>4. /\ f \in Defaulted(t) => SentField(o, f) = Or(s[f], Default(t, f)) /\ Default(t, f) # Nil
      /\ f \notin Defaulted(t) \cup Sticky(t) /\ f # "iscsiprovider" => SentField(o, f) = s[f]
      /\ f \in Sticky(t) => /\ SentField(o, f) = TrimLeft(s[f])
                            /\ TrimLeft(s[f]) = Nil <=> s[f] = Nil
      /\ f = "iscsiprovider" => SentField(o, f) \in {s[f], "LIO"}
  <2>1. CASE f \in Defaulted(t)
    <3>1. f # "iscsiprovider" /\ f \in {"preallocation", "blocksize", "port"}
      BY <2>1, FieldClasses
    <3>2. Default(t, f) \in {"metadata", "8k", "4k", "8007"}
      BY <3>1 DEF Default
    <3>3. SentField(o, f) = Or(s[f], Default(t, f))
      BY <1>0, <2>1, <3>1 DEF SentField
    <3>4. QED BY <1>0, <2>1, <3>1, <3>2, <3>3, OptionalAssumption, StorageItemAssumption
  <2>2. CASE f \notin Defaulted(t)
    <3>1. TrimLeft(s[f]) = Nil <=> s[f] = Nil
      BY OptionalAssumption, StorageItemAssumption DEF TrimLeft
    <3>2. QED BY <1>0, <2>2, <3>1 DEF SentField, ApiProvider
  <2>3. QED BY <2>1, <2>2
<1>5. /\ f \in sent => v = IF SentField(o, f) # Nil THEN NonEmpty(SentField(o, f))
                             ELSE IF f \in Clearable(t) THEN Nil ELSE old
      /\ f \notin sent => v = IF f \in Clearable(t) /\ s[f] = Nil THEN Nil ELSE old
  <2> HIDE DEF r, sent, s, v
  <2>1. f \in Clearable(t) => SentField(o, f) = s[f]
    BY <1>0, <1>4
  <2>2. CASE create
    BY <1>1, <1>2, <2>2 DEF NonEmpty, Old
  <2>3. CASE ~create
    BY <1>1, <1>2, <2>1, <2>3, OptionalAssumption, StorageItemAssumption DEF NonEmpty, Or, Old
  <2>4. QED BY <2>2, <2>3
<1>6. f \in sent <=> \/ f \in Plain(t)
                     \/ f \in Defaulted(t) /\ ~(t = "zfs-over-iscsi" /\ ~create)
                     \/ f \in Clearable(t) \cup Secret(t) \cup Sticky(t) /\ s[f] # Nil
                     \/ f \in Provided(t, s) /\ s[f] # Nil /\ (create \/ f \notin GroupFields)
                     \/ f \in Fixed(t) /\ create
  <2>1. t = "zfs-over-iscsi" => Defaulted(t) = {"blocksize"}
    BY DEF Defaulted
  <2>2. QED BY <2>1 DEF SentFields
<1>7. Provided(t, s) \subseteq IF t = "zfs-over-iscsi" THEN ProviderFields ELSE {}
  BY DEF Provided, OfProvider, ProviderFields, GroupFields
<1>8. Pointers(t) \cap (Fixed(t) \cup Plain(t)) = {}
  BY FieldClasses, UnionOfProviders DEF Pointers
<1> HIDE DEF r, sent, s, v, old
<1>9. ASSUME f \in Fixed(t) PROVE v = IF create THEN NonEmpty(SentField(o, f)) ELSE old
  BY <1>0, <1>3, <1>4, <1>5, <1>6, <1>7, <1>8, <1>9, OptionalAssumption, StorageItemAssumption DEF NonEmpty
<1>10. ASSUME f \in Plain(t) PROVE v = NonEmpty(s[f])
  BY <1>0, <1>3, <1>4, <1>5, <1>6, <1>7, <1>8, <1>10, FieldClasses
<1>11. ASSUME f \in Defaulted(t) PROVE v = IF t = "zfs-over-iscsi" /\ ~create THEN old ELSE NonEmpty(Or(s[f], Default(t, f)))
  BY <1>0, <1>3, <1>4, <1>5, <1>6, <1>7, <1>8, <1>11 DEF Or
<1>12. ASSUME f \in Clearable(t) PROVE v = s[f]
  BY <1>0, <1>3, <1>4, <1>5, <1>6, <1>7, <1>8, <1>12 DEF NonEmpty
<1>13. ASSUME f \in Secret(t) PROVE v = Put(s[f], old)
  BY <1>0, <1>3, <1>4, <1>5, <1>6, <1>7, <1>8, <1>13 DEF Put
<1>16. ASSUME f \in Sticky(t) PROVE v = Put(TrimLeft(s[f]), old)
  BY <1>0, <1>3, <1>4, <1>5, <1>6, <1>7, <1>8, <1>16 DEF Put
<1>14. ASSUME f \in ProviderFields PROVE v = IF f \in Provided(t, s) /\ (create \/ f \notin GroupFields) THEN Put(s[f], old) ELSE old
  BY <1>0, <1>3, <1>4, <1>5, <1>6, <1>7, <1>8, <1>14 DEF Put
<1>15. QED BY <1>9, <1>10, <1>11, <1>12, <1>13, <1>14, <1>16 DEF r, s, v, old, Carried, CarriedByClass

\* An object without a struct leaves every parameter.
LEMMA NothingCarried ==
  ASSUME NEW o, NEW i, o.spec = Nil, i # Nil, DOMAIN i.params = Fields(o.type), NEW f \in Fields(o.type)
  PROVE  StorageCarry(StorageToApi(o, FALSE), i).params[f] = i.params[f]
<1>1. SentFields(o, FALSE) = {}
  BY DEF SentFields
<1>2. StorageToApi(o, FALSE).params[f] = Nil /\ StorageToApi(o, FALSE).delete = {}
  BY <1>1 DEF StorageToApi
<1>3. QED BY <1>2 DEF StorageCarry, Or

\* The types as the server spells them are told apart (SdkType, ApiType).
LEMMA TypeRead == ASSUME NEW t \in StorageTypes PROVE SdkType(ApiType(t)) = t /\ ApiType(t) \in Strings
<1>1. \A s \in StorageTypes : ApiType(s) = ApiType(t) => s = t
  BY DEF StorageTypes, ApiType
<1>2. ApiType(t) \in Strings
  BY StorageItemAssumption DEF StorageTypes, ApiType
<1>3. QED BY <1>1, <1>2 DEF SdkType

\* So does what is read.
ReadByClass(t, ps, f) ==
    /\ f \in Fixed(t) => ReadField(t, ps, f) = IF f = "iscsiprovider" THEN SdkProvider(ps[f]) ELSE Or(ps[f], "")
    /\ f \in Plain(t) => ReadField(t, ps, f) = Or(ps[f], "")
    /\ f \in Defaulted(t) => ReadField(t, ps, f) = Or(ps[f], Default(t, f))
    /\ f \in Clearable(t) => ReadField(t, ps, f) = IF f = "smbversion" /\ ps[f] = "default" THEN Nil ELSE ps[f]
    /\ f \in Secret(t) => ReadField(t, ps, f) = Nil
    /\ f \in Sticky(t) => ReadField(t, ps, f) = ps[f]
    /\ f \in ProviderFields =>
          ReadField(t, ps, f) = IF f \notin OfProvider(SdkProvider(ps.iscsiprovider)) THEN Nil
              ELSE IF f = "nowritecache" /\ ps.iscsiprovider = "comstar"
              THEN IF ps.comstar_hg = Nil THEN "0" ELSE ps[f]
              ELSE Or(ps[f], "")

\* A parameter as it is read, class by class (ReadField).
LEMMA FieldsRead ==
  ASSUME NEW t \in StorageTypes, NEW ps, NEW f \in Fields(t)
  PROVE  ReadByClass(t, ps, f)
<1> USE DEF ReadByClass
<1>1. /\ f = "iscsiprovider" => f \in Fixed(t)
      /\ f = "smbversion" => f \in Clearable(t)
  BY FieldClasses
<1>2. CASE f \in Fixed(t)
  BY <1>1, <1>2, FieldClasses DEF ReadField, ProviderFields
<1>3. CASE f \in Plain(t)
  BY <1>1, <1>3, FieldClasses DEF ReadField, ProviderFields
<1>4. CASE f \in Defaulted(t)
  BY <1>1, <1>4, FieldClasses DEF ReadField, ProviderFields
<1>5. CASE f \in Clearable(t)
  BY <1>1, <1>5, FieldClasses DEF ReadField, ProviderFields
<1>6. CASE f \in Secret(t)
  BY <1>1, <1>6, FieldClasses DEF ReadField, ProviderFields
<1>7. CASE f \in Sticky(t)
  BY <1>1, <1>7, FieldClasses DEF ReadField, ProviderFields
<1>8. CASE f \in ProviderFields
  BY <1>1, <1>8, FieldClasses DEF ReadField, ProviderFields
<1>9. QED BY <1>2, <1>3, <1>4, <1>5, <1>6, <1>7, <1>8, FieldClasses

\* What Validate lets through of the objects for a storage of type t.
LEMMA ValidObject ==
  ASSUME NEW t \in StorageTypes, NEW o \in StorageObjects(t), NEW cur, StorageValid(o, cur),
         cur # Nil => cur.type = t
  PROVE  /\ o.type = t /\ o.keep # "part"
         /\ cur = Nil => o.spec # Nil
         /\ o.spec # Nil => o.spec \in Specs(t) /\ SpecValid(t, o.spec, cur)
<1>1. /\ o.type \in StorageTypes /\ o.type \in {t, ApiType(t)} /\ o.spec \in {Nil} \cup Specs(t)
      /\ o.keep # "part" /\ (cur # Nil => o.type = t) /\ (cur = Nil => Struct(o) # Nil)
      /\ Struct(o) # Nil => SpecValid(o.type, Struct(o), cur)
  BY DEF StorageObjects, StorageValid
<1>2. o.spec # Nil => DOMAIN o.spec = Fields(t)
  BY <1>1 DEF Specs
<1>3. o.type = t
  <2>1. CASE cur # Nil
    BY <1>1, <2>1
  <2>2. CASE cur = Nil
    <3>1. DOMAIN o.spec = Fields(o.type) /\ o.spec # Nil
      BY <1>1, <2>2 DEF Struct
    <3>2. SUFFICES ASSUME o.type # t PROVE FALSE
      OBVIOUS
    <3>3. t = "zfs-over-iscsi" /\ o.type = "zfs"
      BY <1>1, <3>2 DEF ApiType, StorageTypes
    <3>4. "portal" \in Fields("zfs-over-iscsi")
      BY DEF Fields, Fixed
    <3>5. "portal" \notin Fields("zfs")
      BY DEF Fields, Fixed, Plain, Defaulted, Clearable, Secret, Sticky
    <3>6. QED BY <1>2, <3>1, <3>3, <3>4, <3>5
  <2>3. QED BY <2>1, <2>2
<1>4. o.spec # Nil => Struct(o) = o.spec
  BY <1>2, <1>3 DEF Struct
<1>5. QED BY <1>1, <1>3, <1>4 DEF Struct

\* The parts of a storage that are no parameters of its type, before and after.
LEMMA FrameReadsBack ==
  ASSUME NEW t \in StorageTypes \cap Kinds, NEW o \in StorageObjects(t), o.type = t, o.keep # "part",
         NEW create \in BOOLEAN, NEW i, IF create THEN i = Nil ELSE i # Nil /\ i.type = ApiType(t),
         NEW after, after = StorageCarry(StorageToApi(o, create), i)
  PROVE  /\ after.type = ApiType(t)
         /\ StorageToSdk(after).type = t
         /\ StorageToSdk(after).enable = o.enable
         /\ StorageToSdk(after).nodes = o.nodes
         /\ StorageToSdk(after).content =
               LET c == IF Hardcoded(t) THEN HardContent(t)
                        ELSE IF o.content = Nil THEN {} ELSE o.content \cap Contents[t]
               IN IF c = {} /\ t # "iscsi" THEN Nil ELSE c
         /\ StorageToSdk(after).keep = IF "backup" \notin Contents[t] \/ o.keep = Nil
                                       THEN IF create THEN Nil ELSE StorageToSdk(i).keep
                                       ELSE IF o.keep = "all" THEN Nil ELSE o.keep
<1>1. o.enable \in BOOLEAN /\ o.nodes \in Strings /\ o.content \in {Nil} \cup SUBSET Strings
      /\ o.keep \in Retentions
  BY DEF StorageObjects
<1>2. /\ after.type = ApiType(t)
      /\ after.disable = (IF o.enable THEN "0" ELSE "1")
      /\ after.nodes = NonEmpty(o.nodes)
      /\ after.content = MapContent(o)
      /\ after.prune = LET p == IF "backup" \in Contents[t] THEN o.keep ELSE Nil IN
                       IF create THEN p ELSE Or(p, i.prune)
  BY DEF StorageCarry, StorageToApi
<1>3. /\ StorageToSdk(after).type = t
      /\ StorageToSdk(after).enable = (after.disable # "1")
      /\ StorageToSdk(after).nodes = Or(after.nodes, "")
      /\ StorageToSdk(after).content = ReadContent(t, after.content)
      /\ StorageToSdk(after).keep = IF after.prune = "all" THEN Nil ELSE after.prune
      /\ StorageToSdk(i).keep = IF i.prune = "all" THEN Nil ELSE i.prune
  BY <1>2, TypeRead DEF StorageToSdk
<1>4. Or(NonEmpty(o.nodes), "") = o.nodes
  BY <1>1, OptionalAssumption, StorageItemAssumption DEF Or, NonEmpty
<1>5. /\ \A c \in SUBSET Contents[t] : c # Nil
      /\ Hardcoded(t) => HardContent(t) \subseteq Contents[t]
  BY NilAssumption, ConfigItemsAssumption
<1> DEFINE c == IF Hardcoded(t) THEN HardContent(t)
                  ELSE IF o.content = Nil THEN {} ELSE o.content \cap Contents[t]
<1>7. MapContent(o) = c /\ c \in SUBSET Contents[t]
  <2>1. CASE Hardcoded(t)
    <3>1. HardContent(t) # Nil /\ HardContent(t) \cap Contents[t] = HardContent(t)
      BY <1>5, <2>1
    <3>2. QED BY <1>5, <2>1, <3>1 DEF MapContent
  <2>2. CASE ~Hardcoded(t)
    BY <2>2 DEF MapContent
  <2>3. QED BY <2>1, <2>2
<1>8. ReadContent(t, c) = IF c = {} /\ t # "iscsi" THEN Nil ELSE c
  <2> HIDE DEF c
  <2>1. c # Nil /\ c \cap Contents[t] = c
    BY <1>5, <1>7
  <2>2. QED BY <2>1 DEF ReadContent
<1>9. QED
  <2> HIDE DEF c
  <2>1. StorageToSdk(after).content = IF c = {} /\ t # "iscsi" THEN Nil ELSE c
    BY <1>2, <1>3, <1>7, <1>8
  <2>2. StorageToSdk(after).enable = o.enable
    BY <1>1, <1>2, <1>3
  <2>3. StorageToSdk(after).keep = IF "backup" \notin Contents[t] \/ o.keep = Nil
                                   THEN IF create THEN Nil ELSE StorageToSdk(i).keep
                                   ELSE IF o.keep = "all" THEN Nil ELSE o.keep
    BY <1>1, <1>2, <1>3, OptionalAssumption, StorageItemAssumption DEF Or, Retentions
  <2>4. QED BY <1>2, <1>3, <1>4, <2>1, <2>2, <2>3 DEF c

\* A field as the program would read it after and before the call.
FieldRead(f) == IF f \in Secret(kind) THEN left.params[f] ELSE StorageToSdk(left).spec[f]
FieldBefore(f) == IF creates THEN Nil
                  ELSE IF f \in Secret(kind) THEN at.params[f] ELSE StorageToSdk(at).spec[f]

\* A field that reads as before, if somebody put another storage in place.
Replaced(f) ==
    /\ ~creates /\ StorageToSdk(at) # current /\ FieldRead(f) = FieldBefore(f)
    /\ f \in Fixed(kind) \cup GroupFields \cup {"nowritecache", "lio_tpg"}

\* What of a field is asked for, and is read.
Answers(f) ==
    \/ FieldRead(f) = IF Silent(f) THEN FieldBefore(f)
                      ELSE IF f \in Defaulted(kind) THEN Or(NonEmpty(asked.spec[f]), Default(kind, f))
                      ELSE IF f \in Secret(kind) THEN NonEmpty(asked.spec[f])
                      ELSE IF f \in Sticky(kind) THEN NonEmpty(TrimLeft(asked.spec[f]))
                      ELSE asked.spec[f]
    \/ f = "nowritecache" /\ left.params.comstar_hg = Nil /\ StorageToSdk(left).spec[f] = "0"
    \/ Replaced(f)

\* The two sides of what is read, in terms of parameters.
LEMMA Sides ==
  ASSUME StorageWritten, NEW f \in Fields(kind)
  PROVE  /\ left.type = ApiType(kind)
         /\ FieldRead(f) = IF f \in Secret(kind) THEN left.params[f] ELSE ReadField(kind, left.params, f)
         /\ StorageToSdk(left).spec[f] = ReadField(kind, left.params, f)
         /\ FieldBefore(f) = IF creates THEN Nil
                             ELSE IF f \in Secret(kind) THEN at.params[f] ELSE ReadField(kind, at.params, f)
         /\ ~creates => /\ DOMAIN at.params = Fields(kind) /\ DOMAIN left.params = Fields(kind)
                        /\ at.params[f] # "" /\ at.params[f] \in Strings \cup {Nil}
                        /\ StorageToSdk(at).spec[f] = ReadField(kind, at.params, f)
<1>1. left.type = ApiType(kind)
  BY DEF StorageWritten, StorageSent, StorageCarry, StorageToApi, Storages
<1>2. ~creates => /\ at.type = ApiType(kind) /\ DOMAIN at.params = Fields(kind)
                  /\ at.params[f] # "" /\ at.params[f] \in Strings \cup {Nil}
  BY DEF StorageWritten, StorageSent, Storages
<1>3. ~creates => DOMAIN left.params = Fields(kind)
  BY <1>2 DEF StorageWritten, StorageSent, StorageCarry
<1>4. QED
  BY <1>1, <1>2, <1>3, TypeRead DEF StorageToSdk, FieldRead, FieldBefore, StorageWritten, StorageSent

\* A call without a struct leaves every parameter, and so every field.
LEMMA NoStructLeaves ==
  ASSUME StorageWritten, asked.spec = Nil
  PROVE  /\ ~creates /\ left.params = at.params
         /\ \A f \in Fields(kind) : Answers(f)
<1>1. ~creates
  BY DEF StorageWritten, StorageSent
<1>2. \A g \in Fields(kind) : left.params[g] = at.params[g]
  <2>1. ASSUME NEW g \in Fields(kind) PROVE left.params[g] = at.params[g]
    <3>1. DOMAIN at.params = Fields(kind)
      BY <1>1, <2>1, Sides
    <3>2. asked.type = kind /\ at # Nil /\ left = StorageCarry(StorageToApi(asked, FALSE), at)
      BY <1>1 DEF StorageWritten, StorageSent
    <3>3. QED BY ZenonT(60), <2>1, <3>1, <3>2, NothingCarried
  <2>2. QED BY <2>1
<1>3. left.params = at.params
  <2>1. /\ left.params = [g \in Fields(kind) |-> left.params[g]]
        /\ at.params = [g \in Fields(kind) |-> at.params[g]]
    BY <1>1 DEF StorageWritten, StorageSent, StorageCarry, Storages
  <2>2. QED BY <1>2, <2>1
<1>4. ASSUME NEW f \in Fields(kind) PROVE Answers(f)
  <2>1. FieldRead(f) = FieldBefore(f)
    BY <1>1, <1>3, Sides
  <2>2. QED BY <2>1 DEF Answers, Silent
<1>5. QED BY <1>1, <1>3, <1>4

\* What a struct leaves, of fields that do not depend on the provider.
LEMMA StructReadsBack ==
  ASSUME StorageWritten, asked.spec # Nil, ~StorageUnreadable(left),
         NEW f \in Fields(kind), f \notin ProviderFields
  PROVE  Answers(f)
<1> DEFINE s == asked.spec
           v == left.params[f]
           old == Old(creates, at, f)
           now == ReadField(kind, left.params, f)
           before == ReadField(kind, at.params, f)
<1> USE OptionalAssumption, StorageItemAssumption
<1>1. /\ kind \in StorageTypes /\ creates \in BOOLEAN /\ asked.type = kind
      /\ s \in Specs(kind) /\ SpecValid(kind, s, current)
      /\ IF creates THEN at = Nil /\ current = Nil
         ELSE at # Nil /\ current # Nil /\ DOMAIN at.params = Fields(kind)
      /\ left = StorageCarry(StorageToApi(asked, creates), at)
  BY Sides DEF StorageWritten, StorageSent
<1>2. /\ f \in Fixed(kind) => v = IF creates THEN NonEmpty(SentField(asked, f)) ELSE old
      /\ f \in Plain(kind) => v = NonEmpty(s[f])
      /\ f \in Defaulted(kind) =>
            v = IF kind = "zfs-over-iscsi" /\ ~creates THEN old ELSE NonEmpty(Or(s[f], Default(kind, f)))
      /\ f \in Clearable(kind) => v = s[f]
      /\ f \in Secret(kind) => v = Put(s[f], old)
      /\ f \in Sticky(kind) => v = Put(TrimLeft(s[f]), old)
  <2>1. CarriedByClass(kind, asked, creates, at, f)
    BY <1>1, FieldsCarried
  <2>2. QED BY <1>1, <2>1 DEF CarriedByClass, Carried
<1>3. /\ s[f] \in Strings \cup {Nil}
      /\ s[f] = Nil => f \in Pointers(kind)
      /\ s[f] = "" => f \notin Clearable(kind) \cup Sticky(kind)
  BY <1>1 DEF Specs, s
<1>4. /\ \A g \in {"nowritecache", "lio_tpg"} : f # g
      /\ f \notin GroupFields
  BY DEF ProviderFields
<1>5. /\ f \in Pointers(kind) => f \notin Fixed(kind) /\ f \notin Plain(kind)
      /\ f \in Fixed(kind) => /\ f \notin Plain(kind) /\ f \notin Defaulted(kind) /\ f \notin Clearable(kind)
                              /\ f \notin Secret(kind) /\ f \notin Sticky(kind)
      /\ f \in Plain(kind) => /\ f \notin Defaulted(kind) /\ f \notin Clearable(kind)
                              /\ f \notin Secret(kind) /\ f \notin Sticky(kind)
      /\ f \in Defaulted(kind) => f \notin Clearable(kind) /\ f \notin Secret(kind) /\ f \notin Sticky(kind)
      /\ f \in Clearable(kind) => f \notin Secret(kind) /\ f \notin Sticky(kind)
      /\ f \in Secret(kind) => f \notin Sticky(kind)
      /\ f \in Defaulted(kind) <=> f \in {"preallocation", "blocksize", "port"}
      /\ f = "iscsiprovider" => kind = "zfs-over-iscsi" /\ f \in Fixed(kind)
      /\ f = "smbversion" => kind = "smb" /\ f \in Clearable(kind)
  BY <1>1, ClassOf
<1>a. /\ FieldRead(f) = IF f \in Secret(kind) THEN v ELSE now
      /\ StorageToSdk(left).spec[f] = now
      /\ FieldBefore(f) = IF creates THEN Nil
                          ELSE IF f \in Secret(kind) THEN at.params[f] ELSE before
      /\ ~creates => StorageToSdk(at).spec[f] = before
  BY Sides
<1>c. left.type = ApiType(kind)
  BY Sides
<1>b. /\ f \in Fixed(kind) => now = IF f = "iscsiprovider" THEN SdkProvider(v) ELSE Or(v, "")
      /\ f \in Plain(kind) => now = Or(v, "")
      /\ f \in Defaulted(kind) => now = Or(v, Default(kind, f))
      /\ f \in Clearable(kind) => now = IF f = "smbversion" /\ v = "default" THEN Nil ELSE v
      /\ f \in Sticky(kind) => now = v
  <2>1. ReadByClass(kind, left.params, f)
    BY <1>1, FieldsRead
  <2>2. QED BY <2>1 DEF ReadByClass
<1>d. /\ v = at.params[f] /\ (f \in Fixed(kind) \/ f \in Defaulted(kind)) => now = before
      /\ f \in Sticky(kind) => before = at.params[f]
  <2>1. ReadByClass(kind, left.params, f) /\ ReadByClass(kind, at.params, f)
    BY <1>1, FieldsRead
  <2>2. QED BY <2>1 DEF ReadByClass
<1> HIDE DEF s, v, old, now, before
<1>6. CASE f \in Fixed(kind)
  <2>1. f \notin Secret(kind) /\ f \notin Sticky(kind) /\ f \notin Defaulted(kind) /\ s[f] \in Strings
    BY <1>1, <1>3, <1>5, <1>6, <1>5
  <2>2. ~Silent(f)
    <3>1. kind = "zfs-over-iscsi" => f # "blocksize"
      BY <1>6 DEF Fixed
    <3>2. QED BY <2>1, <1>4, <3>1 DEF Silent, s
  <2>3. CASE creates
    <3>1. s[f] # "" /\ (f = "iscsiprovider" => s[f] \in Providers)
      BY <1>1, <1>6, <2>3, <1>5 DEF SpecValid, s, Needed, Empty
    <3>2. CASE f = "iscsiprovider"
      <4>1. v = NonEmpty(ApiProvider(s[f]))
        BY <1>1, <1>2, <1>6, <2>1, <2>3, <3>2 DEF SentField, s
      <4>2. v = ApiProvider(s[f]) /\ SdkProvider(v) = s[f]
        BY <3>1, <3>2, <4>1 DEF NonEmpty, ApiProvider, SdkProvider, Providers
      <4>3. QED BY <1>1, <1>6, <2>1, <2>2, <3>2, <4>2, <1>a, <1>b, <1>d DEF Answers, s
    <3>3. CASE f # "iscsiprovider"
      <4>1. v = s[f]
        BY <1>1, <1>2, <1>6, <2>1, <2>3, <3>1, <3>3 DEF SentField, NonEmpty, s
      <4>2. FieldRead(f) = s[f]
        BY <1>1, <1>6, <2>1, <3>3, <4>1, <1>a, <1>b, <1>d DEF Or
      <4>3. QED BY <2>1, <2>2, <4>2 DEF Answers, s
    <3>4. QED BY <3>2, <3>3
  <2>4. CASE ~creates
    <3>1. s[f] = current.spec[f] /\ v = at.params[f]
      BY <1>1, <1>2, <1>6, <2>4 DEF SpecValid, s, Old, old, v
    <3>2. FieldRead(f) = FieldBefore(f) /\ FieldBefore(f) = StorageToSdk(at).spec[f]
      BY <1>1, <1>6, <2>1, <2>4, <3>1, <1>a, <1>b, <1>d
    <3>3. QED BY <1>6, <2>1, <2>2, <2>4, <3>1, <3>2 DEF Answers, s, Replaced
  <2>5. QED BY <1>1, <2>3, <2>4
<1>7. CASE f \in Plain(kind)
  <2>1. f \notin Secret(kind) /\ f \notin Sticky(kind) /\ f \notin Defaulted(kind) /\ s[f] \in Strings
    BY <1>1, <1>3, <1>5, <1>7, <1>5
  <2>2. ~Silent(f)
    <3>1. f # "blocksize"
      BY <1>1, <2>1, <1>5
    <3>2. QED BY <2>1, <1>4, <3>1 DEF Silent, s
  <2>3. FieldRead(f) = s[f]
    BY <1>1, <1>2, <1>7, <2>1, <1>a, <1>b, <1>d DEF Or, NonEmpty
  <2>4. QED BY <2>1, <2>2, <2>3 DEF Answers, s
<1>8. CASE f \in Defaulted(kind)
  <2>1. f \notin Secret(kind) \cup Sticky(kind) /\ f \in {"preallocation", "blocksize", "port"}
    BY <1>1, <1>8, <1>5
  <2>2. Default(kind, f) \in Strings \ {""}
    <3>1. Default(kind, f) \in {"metadata", "8k", "4k", "8007"}
      BY <2>1 DEF Default
    <3>2. QED BY <3>1
  <2>3. CASE kind = "zfs-over-iscsi" /\ ~creates
    <3>1. f = "blocksize" /\ v = at.params[f]
      BY <1>2, <1>8, <2>3 DEF Defaulted, Old, old, v
    <3>2. FieldRead(f) = FieldBefore(f)
      BY <1>1, <1>8, <2>1, <2>3, <3>1, <1>a, <1>b, <1>d
    <3>3. QED BY <2>3, <3>1, <3>2 DEF Answers, s, Silent
  <2>4. CASE ~(kind = "zfs-over-iscsi" /\ ~creates)
    <3>1. ~Silent(f)
      BY <1>4, <2>1, <2>4 DEF Silent, s
    <3>2. FieldRead(f) = Or(NonEmpty(s[f]), Default(kind, f))
      BY <1>1, <1>2, <1>3, <1>8, <2>1, <2>2, <2>4, <1>a, <1>b, <1>d DEF Or, NonEmpty
    <3>3. QED BY <1>8, <3>1, <3>2 DEF Answers, s
  <2>5. QED BY <2>3, <2>4
<1>9. CASE f \in Clearable(kind)
  <2>1. f \notin Secret(kind) /\ f \notin Sticky(kind) /\ f \notin Defaulted(kind)
    BY <1>1, <1>9, <1>5
  <2>2. ~Silent(f)
    <3>1. f # "blocksize"
      BY <1>1, <2>1, <1>5
    <3>2. QED BY <2>1, <1>4, <3>1 DEF Silent, s
  <2>3. f = "smbversion" => s[f] # "default"
    BY <1>1, <1>5 DEF Specs
  <2>4. FieldRead(f) = s[f]
    BY <1>1, <1>2, <1>9, <2>1, <2>3, <1>a, <1>b, <1>d
  <2>5. QED BY <2>1, <2>2, <2>4 DEF Answers, s
<1>10. CASE f \in Secret(kind)
  <2>1. f \notin Defaulted(kind) \cup Sticky(kind)
    BY <1>1, <1>10, <1>5
  <2>2. FieldRead(f) = Put(s[f], old) /\ FieldBefore(f) = old
    BY <1>1, <1>2, <1>10, <1>a DEF Old, old
  <2>3. s[f] = Nil => Silent(f)
    BY <1>10 DEF Silent, s
  <2>4. s[f] # Nil => ~Silent(f)
    <3>1. f # "blocksize"
      BY <1>1, <2>1, <1>5
    <3>2. QED BY <3>1, <1>4 DEF Silent, s
  <2>5. QED BY <1>10, <2>1, <2>2, <2>3, <2>4 DEF Answers, s, Put
<1>11. CASE f \in Sticky(kind)
  <2>1. f \notin Defaulted(kind) \cup Secret(kind)
    BY <1>1, <1>11, <1>5
  <2>2. FieldRead(f) = Put(TrimLeft(s[f]), old) /\ FieldBefore(f) = old
    BY <1>1, <1>2, <1>11, <2>1, <1>a, <1>b, <1>d DEF Old, old
  <2>5. TrimLeft(s[f]) = Nil <=> s[f] = Nil
    BY DEF TrimLeft
  <2>3. s[f] = Nil => Silent(f)
    BY <1>11 DEF Silent, s
  <2>4. s[f] # Nil => ~Silent(f)
    <3>1. f # "blocksize"
      BY <1>1, <2>1, <1>5
    <3>2. QED BY <3>1, <1>4 DEF Silent, s
  <2>6. QED BY <1>3, <1>11, <2>1, <2>2, <2>3, <2>4, <2>5 DEF Answers, s, Put, NonEmpty
<1>12. QED BY <1>1, <1>6, <1>7, <1>8, <1>9, <1>10, <1>11, ClassOf

\* What a struct leaves, of the fields of zfs-over-iscsi's providers.
LEMMA ProviderReadsBack ==
  ASSUME StorageWritten, asked.spec # Nil, NEW f \in Fields(kind), f \in ProviderFields
  PROVE  Answers(f)
<1> DEFINE s == asked.spec
           p == asked.spec.iscsiprovider
           v == left.params[f]
           now == FieldRead(f)
           before == FieldBefore(f)
           hg == left.params.comstar_hg
           provider == left.params.iscsiprovider
<1> USE OptionalAssumption, StorageItemAssumption
<1>1. /\ kind = "zfs-over-iscsi" /\ kind \in StorageTypes /\ creates \in BOOLEAN /\ asked.type = kind
      /\ s \in Specs(kind) /\ SpecValid(kind, s, current)
      /\ IF creates THEN at = Nil /\ current = Nil
         ELSE at # Nil /\ current # Nil /\ DOMAIN at.params = Fields(kind)
      /\ left = StorageCarry(StorageToApi(asked, creates), at)
  BY Sides, ClassOf DEF StorageWritten, StorageSent
<1>2. {"iscsiprovider", "comstar_hg"} \subseteq Fields(kind) /\ "iscsiprovider" \in Fixed(kind)
      /\ "comstar_hg" \in ProviderFields /\ "comstar_hg" \in GroupFields
  <2>1. "iscsiprovider" \in Fixed(kind)
    BY <1>1 DEF Fixed
  <2>2. "comstar_hg" \in GroupFields /\ "comstar_hg" \in ProviderFields
    BY DEF ProviderFields, GroupFields
  <2>3. Fixed(kind) \subseteq Fields(kind) /\ ProviderFields \subseteq Fields(kind)
    BY <1>1, UnionOfProviders DEF Fields
  <2>4. QED BY <2>1, <2>2, <2>3
<1>3. f \notin Secret(kind) \cup Sticky(kind) \cup Defaulted(kind) \cup Fixed(kind) /\ f # "blocksize"
  BY <1>1, ClassOf
<1>4. v = IF f \in OfProvider(p) /\ (creates \/ f \notin GroupFields)
          THEN Put(s[f], Old(creates, at, f)) ELSE Old(creates, at, f)
  <2>1. CarriedByClass(kind, asked, creates, at, f)
    BY <1>1, FieldsCarried
  <2>2. QED BY <1>1, <2>1 DEF CarriedByClass, Carried, Provided
<1>5. provider = IF creates THEN NonEmpty(ApiProvider(p)) ELSE at.params.iscsiprovider
  <2>1. CarriedByClass(kind, asked, creates, at, "iscsiprovider")
    BY <1>1, <1>2, FieldsCarried
  <2>2. SentField(asked, "iscsiprovider") = ApiProvider(p)
    BY <1>1 DEF SentField, Defaulted, Sticky
  <2>3. QED BY <1>1, <1>2, <1>3, <2>1, <2>2 DEF CarriedByClass, Carried, Old
<1>6. ~creates => hg = at.params.comstar_hg
  <2>1. CarriedByClass(kind, asked, creates, at, "comstar_hg")
    BY <1>1, <1>2, FieldsCarried
  <2>2. QED BY <1>1, <1>2, <2>1 DEF CarriedByClass, Carried, Old
<1>7. now = IF f \notin OfProvider(SdkProvider(provider)) THEN Nil
            ELSE IF f = "nowritecache" /\ provider = "comstar" THEN IF hg = Nil THEN "0" ELSE v
            ELSE Or(v, "")
  <2>1. ReadByClass(kind, left.params, f)
    BY <1>1, FieldsRead
  <2>2. now = ReadField(kind, left.params, f)
    BY <1>3, Sides
  <2>3. QED BY <2>1, <2>2 DEF ReadByClass
<1>8. StorageToSdk(left).spec[f] = now
  BY <1>3, Sides
<1>9. before = IF creates THEN Nil
               ELSE IF f \notin OfProvider(SdkProvider(at.params.iscsiprovider)) THEN Nil
               ELSE IF f = "nowritecache" /\ at.params.iscsiprovider = "comstar"
               THEN IF at.params.comstar_hg = Nil THEN "0" ELSE at.params[f]
               ELSE Or(at.params[f], "")
  <2>1. ReadByClass(kind, at.params, f)
    BY <1>1, FieldsRead
  <2>2. before = IF creates THEN Nil ELSE ReadField(kind, at.params, f)
    BY <1>3, Sides
  <2>3. QED BY <2>1, <2>2 DEF ReadByClass
<1>10. Silent(f) <=> f \notin OfProvider(p) \/ (~creates /\ s[f] = Nil)
  BY <1>1, <1>3 DEF Silent, ProviderFields, s, p
<1>11. /\ s[f] \in Strings \cup {Nil}
       /\ f = "nowritecache" => s[f] # ""
       /\ s.comstar_hg = Nil <=> s.comstar_tg = Nil
  BY <1>1 DEF Specs
<1>12. /\ creates => p \in Providers /\ (f \in OfProvider(p) => s[f] # Nil)
       /\ ~creates => /\ p = current.spec.iscsiprovider
                      /\ p = "comstar" /\ s.comstar_hg # Nil /\ f \in GroupFields => s[f] = current.spec[f]
  BY <1>1, <1>2 DEF SpecValid, Provided
<1>13. f \in ProviderFields => f \in GroupFields \/ f = "nowritecache" \/ f = "lio_tpg"
  BY DEF ProviderFields
<1>14. f \in GroupFields <=> f = "comstar_hg" \/ f = "comstar_tg"
  BY DEF GroupFields
<1>15. f \in GroupFields /\ f \in OfProvider(p) => p = "comstar"
  BY DEF GroupFields, OfProvider
<1>16. Answers(f) <=>
          \/ now = IF Silent(f) THEN before ELSE s[f]
          \/ f = "nowritecache" /\ hg = Nil /\ now = "0"
          \/ ~creates /\ StorageToSdk(at) # current /\ now = before
  <2>1. f \in Fixed(kind) \cup GroupFields \cup {"nowritecache", "lio_tpg"}
    BY <1>13
  <2>2. QED BY <1>3, <1>8, <2>1 DEF Answers, Replaced
<1>17. ~creates => /\ StorageToSdk(at).spec[f] = before
                   /\ StorageToSdk(at).spec.iscsiprovider = SdkProvider(at.params.iscsiprovider)
  <2>1. ReadByClass(kind, at.params, "iscsiprovider")
    BY <1>1, <1>2, FieldsRead
  <2>2. ~creates => /\ StorageToSdk(at).spec["iscsiprovider"] = ReadField(kind, at.params, "iscsiprovider")
                    /\ StorageToSdk(at).spec[f] = ReadField(kind, at.params, f)
    BY <1>2, Sides
  <2>3. before = IF creates THEN Nil ELSE ReadField(kind, at.params, f)
    BY <1>3, Sides
  <2>4. QED BY <1>2, <2>1, <2>2, <2>3 DEF ReadByClass
<1> HIDE DEF s, p, v, now, before, hg, provider
<1>18. CASE creates
  <2>1. provider = ApiProvider(p) /\ SdkProvider(provider) = p /\ (provider = "comstar" <=> p = "comstar")
    BY <1>5, <1>12, <1>18 DEF NonEmpty, ApiProvider, SdkProvider, Providers
  <2>2. CASE f \notin OfProvider(p)
    BY <1>7, <1>9, <1>10, <1>16, <1>18, <2>1, <2>2
  <2>3. CASE f \in OfProvider(p)
    <3>1. s[f] # Nil /\ v = NonEmpty(s[f]) /\ ~Silent(f)
      BY <1>4, <1>10, <1>12, <1>18, <2>3 DEF Put
    <3>2. now = IF f = "nowritecache" /\ p = "comstar" THEN IF hg = Nil THEN "0" ELSE v ELSE Or(v, "")
      BY <1>7, <2>1, <2>3
    <3>3. QED BY <1>11, <1>16, <3>1, <3>2 DEF NonEmpty, Or
  <2>4. QED BY <2>2, <2>3
<1>19. CASE ~creates
  <2>1. provider = at.params.iscsiprovider /\ hg = at.params.comstar_hg
    BY <1>5, <1>6, <1>19
  <2>2. Old(creates, at, f) = at.params[f]
    BY <1>19 DEF Old
  <2>3. v = at.params[f] => now = before
    BY <1>7, <1>9, <1>19, <2>1
  <2>4. CASE f \in OfProvider(p) /\ f \notin GroupFields /\ s[f] # Nil
    <3>1. v = NonEmpty(s[f]) /\ ~Silent(f)
      BY <1>4, <1>10, <2>4 DEF Put
    <3>2. CASE f \notin OfProvider(SdkProvider(provider))
      <4>1. now = before
        BY <1>7, <1>9, <1>19, <2>1, <3>2
      <4>2. StorageToSdk(at) # current
        BY <1>12, <1>17, <1>19, <2>1, <2>4, <3>2
      <4>3. QED BY <1>16, <1>19, <4>1, <4>2
    <3>3. CASE f \in OfProvider(SdkProvider(provider))
      BY <1>7, <1>11, <1>16, <2>4, <3>1, <3>3 DEF NonEmpty, Or
    <3>4. QED BY <3>2, <3>3
  <2>5. CASE ~(f \in OfProvider(p) /\ f \notin GroupFields /\ s[f] # Nil)
    <3>1. v = at.params[f]
      BY <1>4, <1>19, <2>2, <2>5 DEF Put
    <3>2. CASE Silent(f)
      BY <1>16, <2>3, <3>1, <3>2
    <3>3. CASE ~Silent(f)
      <4>1. f \in GroupFields /\ p = "comstar" /\ s[f] # Nil
        BY <1>10, <1>15, <1>19, <2>5, <3>3
      <4>2. s.comstar_hg # Nil
        BY <1>11, <1>14, <4>1
      <4>3. s[f] = current.spec[f]
        BY <1>12, <1>19, <4>1, <4>2
      <4>4. QED BY <1>16, <1>17, <1>19, <2>3, <3>1, <3>3, <4>3
    <3>4. QED BY <3>2, <3>3
  <2>6. QED BY <2>4, <2>5
<1>20. QED BY <1>1, <1>18, <1>19

\* The parameters without which a storage of type t cannot be read.
NeededToRead(t, ps) ==
    ({"shared", "krbd", "sparse", "pool"} \cap Plain(t)) \cup Required(t) \cup Fixed(t)
    \cup IF t # "zfs-over-iscsi" THEN {}
         ELSE {"blocksize"} \cup
              IF SdkProvider(ps.iscsiprovider) # "comstar" THEN OfProvider(SdkProvider(ps.iscsiprovider))
              ELSE IF ps.comstar_hg # Nil THEN {"nowritecache"} ELSE {}

CannotBeRead(t, ps) ==
    \/ \E f \in NeededToRead(t, ps) : ps[f] = Nil
    \/ t = "nfs" /\ ps.options = "bare"

\* StorageUnreadable, of a storage whose type is known.
LEMMA UnreadableByType ==
  ASSUME NEW t \in StorageTypes, NEW i, i.type = ApiType(t)
  PROVE  StorageUnreadable(i) <=> CannotBeRead(t, i.params)
<1>1. SdkType(i.type) = t
  BY TypeRead
<1>2. QED BY <1>1 DEF StorageUnreadable, CannotBeRead, NeededToRead

\* All of them are parameters of the type.
LEMMA NeededAreFields ==
  ASSUME NEW t \in StorageTypes, NEW ps
  PROVE  /\ NeededToRead(t, ps) \subseteq Fields(t)
         /\ \A f \in NeededToRead(t, ps) :
               \/ f \in Fixed(t)
               \/ f \in Plain(t)
               \/ t = "zfs-over-iscsi" /\ f = "blocksize" /\ f \in Defaulted(t)
               \/ t = "zfs-over-iscsi" /\ f \in {"nowritecache", "lio_tpg"}
<1>1. Required(t) \subseteq Plain(t)
  BY FieldClasses
<1>2. \A p : OfProvider(p) # {} /\ p # "comstar" => OfProvider(p) \subseteq {"nowritecache", "lio_tpg"}
  BY DEF OfProvider
<1>3. t = "zfs-over-iscsi" => "blocksize" \in Defaulted(t)
  BY DEF Defaulted
<1>4. \A f \in NeededToRead(t, ps) :
         \/ f \in Fixed(t)
         \/ f \in Plain(t)
         \/ t = "zfs-over-iscsi" /\ f = "blocksize"
         \/ t = "zfs-over-iscsi" /\ f \in {"nowritecache", "lio_tpg"}
  BY <1>1, <1>2 DEF NeededToRead
<1>5. t = "zfs-over-iscsi" => {"nowritecache", "lio_tpg"} \subseteq Fields(t)
  BY UnionOfProviders DEF Fields, ProviderFields
<1>6. Fixed(t) \cup Plain(t) \cup Defaulted(t) \subseteq Fields(t)
  BY DEF Fields
<1>7. QED BY <1>3, <1>4, <1>5, <1>6

\* A storage that was written can be read, unless it could not be before or
\* its block size or pool is empty.
LEMMA UnreadableAfter ==
  ASSUME StorageWritten, StorageUnreadable(left)
  PROVE  \/ ~creates /\ StorageUnreadable(at)
         \/ asked.spec # Nil /\ \E f \in {"blocksize", "pool"} \cap Fields(kind) : asked.spec[f] = ""
<1> DEFINE s == asked.spec
           p == asked.spec.iscsiprovider
<1> USE OptionalAssumption, StorageItemAssumption
<1>1. /\ kind \in StorageTypes /\ creates \in BOOLEAN /\ asked.type = kind
      /\ s # Nil => s \in Specs(kind) /\ SpecValid(kind, s, current)
      /\ IF creates THEN at = Nil /\ current = Nil /\ s # Nil
         ELSE at # Nil /\ current # Nil /\ at.type = ApiType(kind) /\ DOMAIN at.params = Fields(kind)
      /\ left = StorageCarry(StorageToApi(asked, creates), at)
  BY DEF StorageWritten, StorageSent, Storages
<1>2. left.type = ApiType(kind)
  BY <1>1 DEF StorageCarry, StorageToApi
<1>3. CannotBeRead(kind, left.params)
  BY <1>1, <1>2, UnreadableByType
<1>4. SUFFICES ASSUME ~creates => ~CannotBeRead(kind, at.params),
                      s # Nil => \A f \in {"blocksize", "pool"} \cap Fields(kind) : s[f] # ""
               PROVE  FALSE
  BY <1>1, UnreadableByType
<1>5. s # Nil
  BY <1>1, <1>3, <1>4, NoStructLeaves
<1>6. ASSUME NEW f \in Fields(kind) PROVE CarriedByClass(kind, asked, creates, at, f)
  BY <1>1, <1>5, <1>6, FieldsCarried
<1>7. ASSUME NEW f \in Fields(kind)
      PROVE  /\ s[f] \in Strings \cup {Nil}
             /\ s[f] = Nil => f \in Pointers(kind)
             /\ s[f] = "" => f \notin Clearable(kind) \cup {"shared", "krbd", "sparse", "nowritecache"}
  BY <1>1, <1>5, <1>7 DEF Specs
<1>8. CASE kind = "nfs" /\ left.params.options = "bare"
  <2>1. "options" \in Clearable(kind) /\ "options" \in Fields(kind)
    BY <1>8 DEF Fields, Clearable
  <2>2. left.params["options"] = s["options"]
    BY <1>1, <1>6, <2>1 DEF CarriedByClass, Carried
  <2>3. s.options # "bare"
    BY <1>1, <1>5, <1>8 DEF Specs
  <2>4. QED BY <1>8, <2>2, <2>3
<1>9. ASSUME NEW f \in NeededToRead(kind, left.params), left.params[f] = Nil PROVE FALSE
  <2> DEFINE v == left.params[f]
             old == Old(creates, at, f)
  <2>1. /\ f \in Fields(kind)
        /\ \/ f \in Fixed(kind)
           \/ f \in Plain(kind)
           \/ kind = "zfs-over-iscsi" /\ f = "blocksize" /\ f \in Defaulted(kind)
           \/ kind = "zfs-over-iscsi" /\ f \in {"nowritecache", "lio_tpg"}
    BY <1>1, <1>9, NeededAreFields
  <2>2. /\ f \in Fixed(kind) => v = IF creates THEN NonEmpty(SentField(asked, f)) ELSE old
        /\ f \in Plain(kind) => v = NonEmpty(s[f])
        /\ f \in Defaulted(kind) =>
              v = IF kind = "zfs-over-iscsi" /\ ~creates THEN old ELSE NonEmpty(Or(s[f], Default(kind, f)))
        /\ f \in ProviderFields =>
              v = IF f \in Provided(kind, s) /\ (creates \/ f \notin GroupFields) THEN Put(s[f], old) ELSE old
    <3>1. CarriedByClass(kind, asked, creates, at, f)
      BY <1>6, <2>1
    <3>2. QED BY <1>1, <3>1 DEF CarriedByClass, Carried
  <2>3. f \in Pointers(kind) => f \notin Fixed(kind) /\ f \notin Plain(kind)
    BY <1>1, <2>1, ClassOf
  <2>4. v = Nil
    BY <1>9
  <2> HIDE DEF v
  <2>5. CASE f \in Plain(kind)
    <3>1. s[f] = ""
      BY <1>7, <2>1, <2>2, <2>3, <2>4, <2>5 DEF NonEmpty
    <3>2. f \notin Required(kind)
      BY <1>1, <1>5, <3>1 DEF SpecValid, Empty
    <3>3. f \notin {"shared", "krbd", "sparse", "pool", "blocksize", "nowritecache"}
      BY <1>4, <1>5, <1>7, <2>1, <3>1
    <3>4. f \notin Fixed(kind) /\ f \notin ProviderFields
      BY <1>1, <2>1, <2>5, ClassOf
    <3>5. f # "lio_tpg"
      BY <3>4 DEF ProviderFields
    <3>6. \A x : OfProvider(x) # {} /\ x # "comstar" => OfProvider(x) \subseteq {"nowritecache", "lio_tpg"}
      BY DEF OfProvider
    <3>7. QED BY <1>9, <3>2, <3>3, <3>4, <3>5, <3>6 DEF NeededToRead
  <2>6. CASE creates /\ f \in Fixed(kind)
    <3>1. s[f] # "" /\ s[f] # Nil
      BY <1>1, <1>5, <2>6 DEF SpecValid, Needed, Empty
    <3>2. f \notin Defaulted(kind) /\ f \notin Sticky(kind)
      BY <1>1, <2>1, <2>6, ClassOf
    <3>3. SentField(asked, f) \in {s[f], "LIO"}
      BY <1>1, <3>2 DEF SentField, ApiProvider
    <3>4. QED BY <2>2, <2>4, <2>6, <3>1, <3>3 DEF NonEmpty
  <2>7. CASE creates /\ kind = "zfs-over-iscsi" /\ f = "blocksize" /\ f \in Defaulted(kind)
    <3>1. Default(kind, f) = "4k" /\ s[f] # ""
      BY <1>4, <1>5, <2>1, <2>7 DEF Default
    <3>2. QED BY <1>7, <2>1, <2>2, <2>4, <2>7, <3>1 DEF NonEmpty, Or
  <2>8. CASE kind = "zfs-over-iscsi" /\ f \in {"nowritecache", "lio_tpg"} /\ v = NonEmpty(s[f]) /\ s[f] # Nil
             /\ f \in OfProvider(p)
    <3>1. s[f] = ""
      BY <2>4, <2>8 DEF NonEmpty
    <3>2. f = "lio_tpg" /\ p = "lio"
      <4>1. f = "lio_tpg"
        BY <1>7, <2>1, <2>8, <3>1
      <4>2. p = "lio"
        BY <2>8, <4>1 DEF OfProvider
      <4>3. QED BY <4>1, <4>2
    <3>3. ~Empty(s.lio_tpg)
      BY <1>1, <1>5, <2>8, <3>2 DEF SpecValid
    <3>4. QED BY <3>1, <3>2, <3>3 DEF Empty
  <2>9. CASE creates /\ kind = "zfs-over-iscsi" /\ f \in {"nowritecache", "lio_tpg"}
    <3>1. p \in Providers /\ (f \in OfProvider(p) => s[f] # Nil)
      BY <1>1, <1>5, <2>9 DEF SpecValid, Provided
    <3>2. f \in OfProvider(p)
      <4>1. "iscsiprovider" \in Fixed(kind) /\ "iscsiprovider" \in Fields(kind)
        BY <2>9 DEF Fields, Fixed
      <4>2. left.params["iscsiprovider"] = NonEmpty(SentField(asked, "iscsiprovider"))
        BY <1>1, <1>6, <2>9, <4>1 DEF CarriedByClass, Carried
      <4>3. SentField(asked, "iscsiprovider") = ApiProvider(p)
        BY <1>1, <2>9 DEF SentField, Defaulted, Sticky
      <4>4. SdkProvider(left.params.iscsiprovider) = p
        BY <3>1, <4>2, <4>3 DEF NonEmpty, ApiProvider, SdkProvider, Providers
      <4>5. f \notin {"shared", "krbd", "sparse", "pool", "blocksize"}
        BY <2>9
      <4>6. f \notin Fixed(kind) /\ f \notin Plain(kind) /\ f \notin Required(kind)
        <5>1. f \in ProviderFields
          BY <2>9 DEF ProviderFields
        <5>2. QED BY <1>1, <2>1, <5>1, ClassOf
      <4>7. CASE p # "comstar"
        BY <1>9, <4>4, <4>5, <4>6, <4>7 DEF NeededToRead
      <4>8. CASE p = "comstar"
        <5>1. f = "nowritecache"
          BY <1>9, <2>9, <4>4, <4>5, <4>6, <4>8 DEF NeededToRead
        <5>2. QED BY <4>8, <5>1 DEF OfProvider
      <4>9. QED BY <4>7, <4>8
    <3>3. f \in ProviderFields /\ f \in Provided(kind, s)
      BY <2>9, <3>2 DEF ProviderFields, Provided
    <3>4. v = NonEmpty(s[f]) /\ s[f] # Nil
      BY <2>2, <2>9, <3>1, <3>2, <3>3 DEF Put
    <3>5. QED BY <2>8, <2>9, <3>2, <3>4
  <2>10. CASE ~creates /\ f \notin Plain(kind)
    <3>1. kind = "zfs-over-iscsi" => /\ left.params.iscsiprovider = at.params.iscsiprovider
                                     /\ left.params.comstar_hg = at.params.comstar_hg
      <4>1. SUFFICES ASSUME kind = "zfs-over-iscsi"
                     PROVE  /\ left.params["iscsiprovider"] = at.params["iscsiprovider"]
                            /\ left.params["comstar_hg"] = at.params["comstar_hg"]
        OBVIOUS
      <4>2. "iscsiprovider" \in Fixed(kind) /\ "iscsiprovider" \in Fields(kind)
        BY <4>1 DEF Fields, Fixed
      <4>3. "comstar_hg" \in ProviderFields /\ "comstar_hg" \in GroupFields /\ "comstar_hg" \in Fields(kind)
        BY <4>1, UnionOfProviders DEF Fields, ProviderFields, GroupFields
      <4>4. CarriedByClass(kind, asked, creates, at, "iscsiprovider")
            /\ CarriedByClass(kind, asked, creates, at, "comstar_hg")
        BY <1>6, <4>2, <4>3
      <4>5. QED BY <1>1, <2>10, <4>2, <4>3, <4>4 DEF CarriedByClass, Carried, Old
    <3>2. NeededToRead(kind, left.params) = NeededToRead(kind, at.params)
      BY <3>1 DEF NeededToRead
    <3>3. at.params[f] # Nil
      BY <1>4, <1>9, <2>10, <3>2 DEF CannotBeRead
    <3>4. v # old
      BY <2>4, <2>10, <3>3 DEF Old
    <3>5. f \in ProviderFields /\ f \in OfProvider(p) /\ v = NonEmpty(s[f]) /\ s[f] # Nil
      BY <2>1, <2>2, <2>10, <3>4 DEF ProviderFields, Provided, Put
    <3>6. kind = "zfs-over-iscsi" /\ f \in {"nowritecache", "lio_tpg"}
      BY <2>1, <2>2, <2>10, <3>4
    <3>7. QED BY <2>8, <3>5, <3>6
  <2>11. QED BY <1>1, <2>1, <2>5, <2>6, <2>7, <2>9, <2>10
<1>10. QED BY <1>3, <1>8, <1>9 DEF CannotBeRead

\* A storage that was written reads as it was asked for.
LEMMA WrittenReadsBack == ASSUME StorageWritten PROVE StorageReadsBack
<1> DEFINE read == StorageToSdk(left)
           before == StorageToSdk(at)
           field(f) == IF f \in Secret(kind) THEN left.params[f] ELSE read.spec[f]
           fieldBefore(f) == IF creates THEN Nil
                             ELSE IF f \in Secret(kind) THEN at.params[f] ELSE before.spec[f]
           Frame == /\ read.type = asked.type /\ read.enable = asked.enable /\ read.nodes = asked.nodes
                    /\ read.content =
                          LET c == IF Hardcoded(kind) THEN HardContent(kind)
                                   ELSE IF asked.content = Nil THEN {} ELSE asked.content \cap Contents[kind]
                          IN IF c = {} /\ kind # "iscsi" THEN Nil ELSE c
                    /\ read.keep = IF "backup" \notin Contents[kind] \/ asked.keep = Nil
                                   THEN IF creates THEN Nil ELSE before.keep
                                   ELSE IF asked.keep = "all" THEN Nil ELSE asked.keep
           Same(f) == \/ field(f) = IF Silent(f) THEN fieldBefore(f)
                                    ELSE IF f \in Defaulted(kind) THEN Or(NonEmpty(asked.spec[f]), Default(kind, f))
                                    ELSE IF f \in Secret(kind) THEN NonEmpty(asked.spec[f])
                                    ELSE IF f \in Sticky(kind) THEN NonEmpty(TrimLeft(asked.spec[f]))
                                    ELSE asked.spec[f]
                      \/ f = "nowritecache" /\ left.params.comstar_hg = Nil /\ read.spec[f] = "0"
                      \/ /\ ~creates /\ before # current /\ field(f) = fieldBefore(f)
                         /\ f \in Fixed(kind) \cup GroupFields \cup {"nowritecache", "lio_tpg"}
<1>1. ~StorageUnreadable(left) => Frame
  <2>1. /\ kind \in StorageTypes \cap Kinds /\ asked \in StorageObjects(kind) /\ asked.type = kind
        /\ asked.keep # "part" /\ creates \in BOOLEAN
        /\ IF creates THEN at = Nil ELSE at # Nil /\ at.type = ApiType(kind)
        /\ left = StorageCarry(StorageToApi(asked, creates), at)
    BY DEF StorageWritten, StorageSent, Storages
  <2>2. QED BY <2>1, FrameReadsBack
<1>2. ASSUME ~StorageUnreadable(left), NEW f \in Fields(kind) PROVE Same(f)
  <2>1. Answers(f)
    BY <1>2, NoStructLeaves, StructReadsBack, ProviderReadsBack
  <2>2. QED BY <2>1 DEF Answers, Replaced, FieldRead, FieldBefore
<1>3. StorageUnreadable(left) =>
         \/ ~creates /\ StorageUnreadable(at)
         \/ asked.spec # Nil /\ \E f \in {"blocksize", "pool"} \cap Fields(kind) : asked.spec[f] = ""
  BY UnreadableAfter
<1>4. StorageReadsBack <=>
         IF StorageUnreadable(left)
         THEN \/ ~creates /\ StorageUnreadable(at)
              \/ asked.spec # Nil /\ \E f \in {"blocksize", "pool"} \cap Fields(kind) : asked.spec[f] = ""
         ELSE Frame /\ \A f \in Fields(kind) : Same(f)
  BY DEF StorageReadsBack
<1> HIDE DEF Frame, Same
<1>5. QED BY <1>1, <1>2, <1>3, <1>4

-----------------------------------------------------------------------------
\* Nil is no value of any other kind.
LEMMA NilIsNoValue == Nil \notin Strings /\ Nil \notin Int /\ Nil \notin BOOLEAN
BY OptionalAssumption, NilAssumption

\* What is sent of a metric server, what becomes of it, and how it reads: what
\* both types have, and the structs of the two.
FrameSent(o, create, r) ==
    /\ r.set.type = (IF create THEN o.type ELSE Nil)
    /\ r.set.server = o.server /\ r.set.port = o.port /\ r.set.mtu = o.mtu
    /\ r.set.timeout = o.timeout /\ r.set.disable = ~o.enable
GraphiteSent(o, r) ==
    o.type = "graphite" =>
        /\ r.set.graphite.path = NonEmpty(o.graphite.path) /\ r.set.graphite.proto = o.graphite.proto
        /\ r.set.influx = NoInflux
        /\ \A f : f \in r.delete <=> f = "path" /\ o.graphite.path = ""
InfluxSent(o, r) ==
    o.type = "influxdb" =>
        /\ r.set.graphite = NoGraphite
        /\ \A f \in {"prefix", "bucket", "token"} : r.set.influx[f] = NonEmpty(o.influx[f])
        /\ \A f \in {"body", "proto"} : r.set.influx[f] = o.influx[f]
        /\ \A f : f \in r.delete <=> f \in {"prefix", "bucket"} /\ o.influx[f] = ""

FrameLeft ==
    /\ left.type = asked.type /\ left.server = asked.server /\ left.port = asked.port
    /\ left.mtu = asked.mtu /\ left.timeout = asked.timeout /\ left.disable = ~asked.enable
GraphiteLeft ==
    asked.type = "graphite" =>
        /\ left.graphite.path = NonEmpty(asked.graphite.path)
        /\ left.graphite.proto = asked.graphite.proto
InfluxLeft ==
    asked.type = "influxdb" =>
        /\ \A f \in {"prefix", "bucket"} : left.influx[f] = NonEmpty(asked.influx[f])
        /\ \A f \in {"body", "proto"} : left.influx[f] = asked.influx[f]
        /\ left.influx.token = Or(NonEmpty(asked.influx.token), IF creates THEN Nil ELSE at.influx.token)

FrameRead(i, read) ==
    /\ read.type = i.type /\ read.server = i.server /\ read.port = i.port
    /\ read.mtu = Or(i.mtu, 1500) /\ read.timeout = Or(i.timeout, 1)
    /\ read.enable = (i.disable # TRUE)
GraphiteRead(i, read) ==
    i.type = "graphite" =>
        read.graphite = [path |-> Or(i.graphite.path, "proxmox"), proto |-> Or(i.graphite.proto, "udp")]
InfluxRead(i, read) ==
    i.type = "influxdb" =>
        read.influx = [prefix |-> Or(i.influx.prefix, ""), bucket |-> Or(i.influx.bucket, "proxmox"),
                       body |-> Or(i.influx.body, DefaultBody), token |-> "",
                       proto |-> Or(i.influx.proto, "udp")]

\* What is sent (MetricsToApi).
LEMMA MetricsSent ==
  ASSUME NEW o \in MetricsObjects, NEW create \in BOOLEAN, MetricsValid(o), ~MetricsPanics(o),
         NEW r, r = MetricsToApi(MetricsAfter(o), create)
  PROVE  o.type \in MetricsTypes /\ FrameSent(o, create, r) /\ GraphiteSent(o, r) /\ InfluxSent(o, r)
<1>1. o.type \in MetricsTypes /\ o.graphite # Nil /\ o.influx # Nil
  BY DEF MetricsValid, MetricsPanics
<1>2. /\ o.graphite \in [path : Strings, proto : Strings]
      /\ o.influx \in [prefix : Strings, bucket : Strings, body : Int, token : Strings, proto : Strings]
  BY <1>1 DEF MetricsObjects
<1> DEFINE a == MetricsAfter(o)
<1>3. /\ a.type = o.type /\ a.server = o.server /\ a.port = o.port /\ a.mtu = o.mtu
      /\ a.timeout = o.timeout /\ a.enable = o.enable
      /\ a.graphite = IF o.type # "graphite" THEN Nil ELSE o.graphite
      /\ a.influx = IF o.type = "graphite" THEN Nil ELSE o.influx
  BY DEF MetricsAfter, MetricsObjects
<1> HIDE DEF a
<1>4. FrameSent(o, create, r)
  BY <1>3 DEF MetricsToApi, a, FrameSent
<1>5. /\ r.set.graphite = IF a.graphite = Nil THEN NoGraphite
                          ELSE [a.graphite EXCEPT !.path = NonEmpty(@)]
      /\ r.set.influx = IF a.influx = Nil THEN NoInflux
                        ELSE [a.influx EXCEPT !.prefix = NonEmpty(@), !.token = NonEmpty(@),
                                              !.bucket = NonEmpty(@)]
      /\ r.delete = IF a.graphite # Nil THEN IF a.graphite.path = "" THEN {"path"} ELSE {}
                    ELSE {f \in {"prefix", "bucket"} : a.influx[f] = ""}
  BY DEF MetricsToApi, a
<1>6. ASSUME o.type = "graphite" PROVE GraphiteSent(o, r)
  <2>1. a.graphite = o.graphite /\ a.influx = Nil
    BY <1>3, <1>6
  <2>2. r.set.graphite = [o.graphite EXCEPT !.path = NonEmpty(@)] /\ r.set.influx = NoInflux
    BY <1>1, <1>5, <2>1
  <2>3. r.delete = IF o.graphite.path = "" THEN {"path"} ELSE {}
    BY <1>1, <1>5, <2>1
  <2>4. /\ r.set.graphite.path = NonEmpty(o.graphite.path)
        /\ r.set.graphite.proto = o.graphite.proto
    BY <1>2, <2>2
  <2>5. QED BY <2>2, <2>3, <2>4 DEF GraphiteSent
<1>7. ASSUME o.type = "influxdb" PROVE InfluxSent(o, r)
  <2>1. a.graphite = Nil /\ a.influx = o.influx
    BY <1>3, <1>7
  <2>2. r.set.graphite = NoGraphite
        /\ r.set.influx = [o.influx EXCEPT !.prefix = NonEmpty(@), !.token = NonEmpty(@),
                                           !.bucket = NonEmpty(@)]
    BY <1>1, <1>5, <2>1
  <2>3. r.delete = {f \in {"prefix", "bucket"} : o.influx[f] = ""}
    BY <1>1, <1>5, <2>1
  <2>4. /\ \A f \in {"prefix", "bucket", "token"} : r.set.influx[f] = NonEmpty(o.influx[f])
        /\ \A f \in {"body", "proto"} : r.set.influx[f] = o.influx[f]
    BY <1>2, <2>2
  <2>5. QED BY <2>2, <2>3, <2>4 DEF InfluxSent
<1>8. QED BY <1>1, <1>4, <1>6, <1>7 DEF GraphiteSent, InfluxSent

\* What becomes of a metric server (MetricsCarry).
LEMMA MetricsCarried ==
  ASSUME MetricsWritten
  PROVE  asked.type \in MetricsTypes /\ FrameLeft /\ GraphiteLeft /\ InfluxLeft
<1> DEFINE o == asked
           r == MetricsToApi(MetricsAfter(asked), creates)
<1>1. /\ o \in MetricsObjects /\ creates \in BOOLEAN /\ MetricsValid(o) /\ ~MetricsPanics(o)
      /\ MetricsAccepts(r, at) /\ left = MetricsCarry(r, at)
      /\ IF creates THEN at = Nil ELSE at # Nil /\ at \in MetricsServers
  BY DEF MetricsWritten
<1>2. o.type \in MetricsTypes /\ FrameSent(o, creates, r) /\ GraphiteSent(o, r) /\ InfluxSent(o, r)
  BY <1>1, MetricsSent
<1> HIDE DEF r
<1>3. o.graphite.proto \in {"udp", "tcp"} /\ o.graphite # Nil /\ o.influx # Nil
  BY <1>1 DEF MetricsValid, MetricsPanics
<1>4. /\ o.graphite \in [path : Strings, proto : Strings]
      /\ o.influx \in [prefix : Strings, bucket : Strings, body : Int, token : Strings, proto : Strings]
  BY <1>1, <1>3 DEF MetricsObjects
<1>5. /\ o.server # Nil /\ o.port # Nil /\ o.mtu # Nil /\ o.timeout # Nil /\ (~o.enable) # Nil
  BY <1>1, NilIsNoValue DEF MetricsObjects
<1>6. /\ o.graphite.path # Nil /\ o.graphite.proto # Nil
      /\ \A f \in {"prefix", "bucket", "token", "body", "proto"} : o.influx[f] # Nil
  BY <1>4, NilIsNoValue
<1>7. ~creates => /\ at \in MetricsServers /\ at.type = o.type
  <2>1. o.type = "graphite" => r.set.graphite # NoGraphite
    <3>1. NoGraphite.proto = Nil
      BY DEF NoGraphite
    <3>2. o.type = "graphite" => r.set.graphite.proto = o.graphite.proto
      BY <1>2 DEF GraphiteSent
    <3>3. QED BY <1>6, <3>1, <3>2
  <2>2. o.type = "influxdb" => r.set.influx # NoInflux
    <3>1. NoInflux.body = Nil
      BY DEF NoInflux
    <3>2. o.type = "influxdb" => r.set.influx.body = o.influx.body
      <4>1. InfluxSent(o, r)
        BY <1>2
      <4>2. o.type = "influxdb" => \A f \in {"body", "proto"} : r.set.influx[f] = o.influx[f]
        BY <4>1 DEF InfluxSent
      <4>3. QED BY <4>2
    <3>3. o.influx.body # Nil
      BY <1>6
    <3>4. QED BY <3>1, <3>2, <3>3
  <2>3. ~creates => /\ at \in MetricsServers /\ at # Nil
                    /\ at.type = "graphite" => r.set.influx = NoInflux
                    /\ at.type # "graphite" => r.set.graphite = NoGraphite
    BY <1>1 DEF MetricsAccepts
  <2>4. ~creates => at.type \in MetricsTypes
    BY <2>3 DEF MetricsServers
  <2>5. QED BY <1>2, <2>1, <2>2, <2>3, <2>4 DEF MetricsTypes
<1>8. CASE creates
  <2>1. left = r.set
    BY <1>1, <1>8 DEF MetricsCarry
  <2>2. FrameLeft
    BY <1>2, <1>8, <2>1 DEF FrameSent, FrameLeft
  <2>3. GraphiteLeft
    BY <1>2, <2>1 DEF GraphiteSent, GraphiteLeft
  <2>4. InfluxLeft
    BY <1>2, <1>8, <2>1 DEF InfluxSent, InfluxLeft, Or
  <2>5. QED BY <1>2, <2>2, <2>3, <2>4
<1>9. CASE ~creates
  <2>1. /\ DOMAIN at = {"type", "server", "port", "mtu", "timeout", "disable", "graphite", "influx"}
        /\ DOMAIN at.graphite = {"path", "proto"}
        /\ DOMAIN at.influx = {"prefix", "bucket", "body", "token", "proto"}
    BY <1>7, <1>9 DEF MetricsServers
  <2>2. left = [f \in DOMAIN at |-> CASE f \in {"graphite", "influx"} -> MergeFields(r.set[f], r.delete, at[f])
                                      [] OTHER -> Or(r.set[f], at[f])]
    BY <1>1, <1>9 DEF MetricsCarry
  <2>3. FrameLeft
    <3>1. \A f \in {"type", "server", "port", "mtu", "timeout", "disable"} : left[f] = Or(r.set[f], at[f])
      BY <2>1, <2>2
    <3>2. QED BY <1>2, <1>5, <1>7, <1>9, <3>1 DEF Or, FrameSent, FrameLeft
  <2>4. /\ left.graphite = MergeFields(r.set.graphite, r.delete, at.graphite)
        /\ left.influx = MergeFields(r.set.influx, r.delete, at.influx)
    BY <2>1, <2>2
  <2>5. ASSUME o.type = "graphite" PROVE GraphiteLeft
    <3>1. \A f \in {"path", "proto"} :
             left.graphite[f] = IF f \in r.delete THEN Nil ELSE Or(r.set.graphite[f], at.graphite[f])
      BY <2>1, <2>4 DEF MergeFields
    <3>2. QED BY <1>2, <1>6, <2>5, <3>1 DEF NonEmpty, Or, GraphiteSent, GraphiteLeft
  <2>6. ASSUME o.type = "influxdb" PROVE InfluxLeft
    <3>1. \A f \in {"prefix", "bucket", "body", "token", "proto"} :
             left.influx[f] = IF f \in r.delete THEN Nil ELSE Or(r.set.influx[f], at.influx[f])
      BY <2>1, <2>4 DEF MergeFields
    <3>2. /\ \A f \in {"prefix", "bucket", "token"} : r.set.influx[f] = NonEmpty(o.influx[f])
          /\ \A f \in {"body", "proto"} : r.set.influx[f] = o.influx[f]
          /\ \A f : f \in r.delete <=> f \in {"prefix", "bucket"} /\ o.influx[f] = ""
      BY <1>2, <2>6 DEF InfluxSent
    <3>3. \A f \in {"prefix", "bucket"} : left.influx[f] = NonEmpty(o.influx[f])
      BY <1>6, <3>1, <3>2 DEF NonEmpty, Or
    <3>4. \A f \in {"body", "proto"} : left.influx[f] = o.influx[f]
      <4>1. \A f \in {"body", "proto"} : f \notin r.delete
        BY <3>2
      <4>2. \A f \in {"body", "proto"} : r.set.influx[f] # Nil
        BY <1>6, <3>2
      <4>3. \A f \in {"body", "proto"} : left.influx[f] = r.set.influx[f]
        BY <3>1, <4>1, <4>2 DEF Or
      <4>4. QED BY <3>2, <4>3
    <3>5. left.influx.token = Or(NonEmpty(o.influx.token), at.influx.token)
      <4>1. \A f \in {"token"} : f \notin r.delete
        BY <3>2
      <4>2. left.influx["token"] = Or(r.set.influx["token"], at.influx["token"])
        BY <3>1, <4>1
      <4>3. r.set.influx["token"] = NonEmpty(o.influx["token"])
        BY <3>2
      <4>4. QED BY <4>2, <4>3
    <3>6. QED BY <1>9, <3>3, <3>4, <3>5 DEF InfluxLeft
  <2>7. QED BY <1>2, <2>3, <2>5, <2>6 DEF GraphiteLeft, InfluxLeft
<1>10. QED BY <1>1, <1>8, <1>9

\* A metric server as it is read (MetricsToSdk).
LEMMA MetricsRead ==
  ASSUME NEW i, NEW read, read = MetricsToSdk(i)
  PROVE  FrameRead(i, read) /\ GraphiteRead(i, read) /\ InfluxRead(i, read)
<1> DEFINE g == [path |-> Or(i.graphite.path, "proxmox"), proto |-> Or(i.graphite.proto, "udp")]
           x == [prefix |-> Or(i.influx.prefix, ""), bucket |-> Or(i.influx.bucket, "proxmox"),
                 body |-> Or(i.influx.body, DefaultBody), token |-> "", proto |-> Or(i.influx.proto, "udp")]
           mtu == Or(i.mtu, 1500)
           timeout == Or(i.timeout, 1)
<1>1. read = MetricsAfter([type |-> i.type, server |-> i.server, port |-> i.port,
                           mtu |-> mtu, timeout |-> timeout,
                           enable |-> i.disable # TRUE, graphite |-> g, influx |-> x])
  BY DEF MetricsToSdk
<1> HIDE DEF g, x, mtu, timeout
<1>2. /\ read.type = i.type /\ read.server = i.server /\ read.port = i.port
      /\ read.mtu = mtu /\ read.timeout = timeout
      /\ read.enable = (i.disable # TRUE)
      /\ i.type = "graphite" => read.graphite = g
      /\ i.type = "influxdb" => read.influx = x
  BY <1>1 DEF MetricsAfter
<1>3. FrameRead(i, read)
  BY <1>2 DEF FrameRead, mtu, timeout
<1>4. GraphiteRead(i, read)
  BY <1>2 DEF GraphiteRead, g
<1>5. InfluxRead(i, read)
  BY <1>2 DEF InfluxRead, x
<1>6. QED BY <1>3, <1>4, <1>5

\* The struct of influxdb without its token and with another bucket.
LEMMA FiveFields ==
  ASSUME NEW A, NEW B, NEW x \in [prefix : A, bucket : A, body : B, token : A, proto : A], NEW t, NEW b
  PROVE  [x EXCEPT !.token = t, !.bucket = b] =
            [prefix |-> x.prefix, bucket |-> b, body |-> x.body, token |-> t, proto |-> x.proto]
<1> DEFINE y == [x EXCEPT !.token = t]
<1>1. y \in [prefix : A, bucket : A, body : B, token : A \cup {t}, proto : A]
      /\ y.prefix = x.prefix /\ y.body = x.body /\ y.token = t /\ y.proto = x.proto
  OBVIOUS
<1> HIDE DEF y
<1>2. [y EXCEPT !.bucket = b] =
         [prefix |-> y.prefix, bucket |-> b, body |-> y.body, token |-> y.token, proto |-> y.proto]
  BY <1>1
<1>3. QED BY <1>1, <1>2 DEF y

\* The object of an ACME plugin without its nodes.
LEMMA WithoutNodes ==
  ASSUME NEW o \in AcmeObjects, NEW n
  PROVE  [o EXCEPT !.nodes = n] = [api |-> o.api, data |-> o.data, enable |-> o.enable,
                                   nodes |-> n, delay |-> o.delay]
BY DEF AcmeObjects

\* A metric server that was written reads as it was asked for.
LEMMA MetricsReadBack == ASSUME MetricsWritten PROVE MetricsReadsBack
<1> DEFINE read == MetricsToSdk(left)
<1>1. /\ asked \in MetricsObjects
      /\ asked.type = "graphite" => asked.graphite # Nil
      /\ asked.type = "influxdb" => asked.influx # Nil
  BY DEF MetricsWritten, MetricsValid, MetricsPanics
<1>2. asked.type \in MetricsTypes /\ FrameLeft /\ GraphiteLeft /\ InfluxLeft
  BY MetricsCarried
<1>3. FrameRead(left, read) /\ GraphiteRead(left, read) /\ InfluxRead(left, read)
  BY MetricsRead
<1> HIDE DEF read
<1>4. \A f \in {"type", "server", "port", "mtu", "timeout", "enable"} : read[f] = asked[f]
  <2>1. asked.mtu # Nil /\ asked.timeout # Nil /\ asked.enable \in BOOLEAN
    BY <1>1, NilIsNoValue DEF MetricsObjects
  <2>2. Or(asked.mtu, 1500) = asked.mtu /\ Or(asked.timeout, 1) = asked.timeout
    BY <2>1 DEF Or
  <2>3. read.mtu = asked.mtu /\ read.timeout = asked.timeout
    BY <1>2, <1>3, <2>2 DEF FrameRead, FrameLeft
  <2>4. read.enable = asked.enable
    <3>1. read.enable = (left.disable # TRUE) /\ left.disable = ~asked.enable
      BY <1>2, <1>3 DEF FrameRead, FrameLeft
    <3>2. CASE asked.enable = TRUE
      BY <3>1, <3>2
    <3>3. CASE asked.enable = FALSE
      BY <3>1, <3>3
    <3>4. QED BY <2>1, <3>2, <3>3
  <2>5. read.type = asked.type /\ read.server = asked.server /\ read.port = asked.port
    BY <1>2, <1>3 DEF FrameRead, FrameLeft
  <2>6. QED BY <2>3, <2>4, <2>5
<1>5. ASSUME asked.type = "graphite"
      PROVE  read.graphite = [asked.graphite EXCEPT !.path = IF @ = "" THEN "proxmox" ELSE @]
  <2>1. asked.graphite \in [path : Strings, proto : Strings]
    BY <1>1, <1>5 DEF MetricsObjects
  <2>2. left.type = "graphite"
    BY <1>2, <1>5 DEF FrameLeft
  <2>3. read.graphite = [path |-> Or(NonEmpty(asked.graphite.path), "proxmox"),
                         proto |-> Or(asked.graphite.proto, "udp")]
    BY <1>2, <1>3, <1>5, <2>2 DEF GraphiteLeft, GraphiteRead
  <2>4. /\ Or(NonEmpty(asked.graphite.path), "proxmox") =
              IF asked.graphite.path = "" THEN "proxmox" ELSE asked.graphite.path
        /\ Or(asked.graphite.proto, "udp") = asked.graphite.proto
    BY <2>1, NilIsNoValue DEF NonEmpty, Or
  <2> DEFINE path == IF asked.graphite.path = "" THEN "proxmox" ELSE asked.graphite.path
  <2>5. read.graphite = [path |-> path, proto |-> asked.graphite.proto]
    BY <2>3, <2>4
  <2>6. [asked.graphite EXCEPT !.path = IF @ = "" THEN "proxmox" ELSE @] = [asked.graphite EXCEPT !.path = path]
    OBVIOUS
  <2> HIDE DEF path
  <2>7. [asked.graphite EXCEPT !.path = path] = [path |-> path, proto |-> asked.graphite.proto]
    BY <2>1
  <2>8. QED BY <2>5, <2>6, <2>7
<1>6. ASSUME asked.type = "influxdb"
      PROVE  /\ read.influx = [asked.influx EXCEPT !.token = "", !.bucket = IF @ = "" THEN "proxmox" ELSE @]
             /\ left.influx.token = Or(NonEmpty(asked.influx.token), IF creates THEN Nil ELSE at.influx.token)
  <2>1. asked.influx \in [prefix : Strings, bucket : Strings, body : Int, token : Strings, proto : Strings]
    BY <1>1, <1>6 DEF MetricsObjects
  <2>2. left.type = "influxdb"
    BY <1>2, <1>6 DEF FrameLeft
  <2>3. read.influx = [prefix |-> Or(NonEmpty(asked.influx.prefix), ""),
                       bucket |-> Or(NonEmpty(asked.influx.bucket), "proxmox"),
                       body |-> Or(asked.influx.body, DefaultBody), token |-> "",
                       proto |-> Or(asked.influx.proto, "udp")]
    BY <1>2, <1>3, <1>6, <2>2 DEF InfluxLeft, InfluxRead
  <2>4. /\ Or(NonEmpty(asked.influx.prefix), "") = asked.influx.prefix
        /\ Or(NonEmpty(asked.influx.bucket), "proxmox") =
              IF asked.influx.bucket = "" THEN "proxmox" ELSE asked.influx.bucket
        /\ Or(asked.influx.body, DefaultBody) = asked.influx.body
        /\ Or(asked.influx.proto, "udp") = asked.influx.proto
    BY <2>1, NilIsNoValue DEF NonEmpty, Or
  <2> DEFINE x == asked.influx
             bucket == IF x.bucket = "" THEN "proxmox" ELSE x.bucket
  <2>5. read.influx = [prefix |-> x.prefix, bucket |-> bucket, body |-> x.body, token |-> "", proto |-> x.proto]
    BY <2>3, <2>4
  <2>6. [asked.influx EXCEPT !.token = "", !.bucket = IF @ = "" THEN "proxmox" ELSE @] =
           [x EXCEPT !.token = "", !.bucket = bucket]
    OBVIOUS
  <2>7. x \in [prefix : Strings, bucket : Strings, body : Int, token : Strings, proto : Strings]
    BY <2>1
  <2> HIDE DEF x, bucket
  <2>8. [x EXCEPT !.token = "", !.bucket = bucket] =
           [prefix |-> x.prefix, bucket |-> bucket, body |-> x.body, token |-> "", proto |-> x.proto]
    BY <2>7, FiveFields
  <2>9. read.influx = [asked.influx EXCEPT !.token = "", !.bucket = IF @ = "" THEN "proxmox" ELSE @]
    BY <2>5, <2>6, <2>8
  <2>10. left.influx.token = Or(NonEmpty(asked.influx.token), IF creates THEN Nil ELSE at.influx.token)
    BY <1>2, <1>6 DEF InfluxLeft
  <2>11. QED BY <2>9, <2>10
<1>7. QED BY <1>4, <1>5, <1>6 DEF MetricsReadsBack, read

\* An ACME plugin that was written reads as it was asked for.
LEMMA AcmeReadBack == ASSUME AcmeWritten PROVE AcmeReadsBack
<1> USE NilIsNoValue, ServiceItemsAssumption
<1>1. /\ asked = [api |-> asked.api, data |-> asked.data, enable |-> asked.enable,
                  nodes |-> asked.nodes, delay |-> asked.delay]
      /\ asked.data \in Strings /\ asked.enable \in BOOLEAN /\ asked.delay \in Int
      /\ left = [api |-> asked.api, data |-> NonEmpty(asked.data), disable |-> ~asked.enable,
                 nodes |-> NonEmpty(asked.nodes), delay |-> asked.delay]
  BY DEF AcmeWritten, AcmeObjects, AcmeToApi
<1>2. Or(NonEmpty(asked.data), "") = asked.data /\ Or(asked.delay, 30) = asked.delay
      /\ ((~asked.enable) # TRUE) = asked.enable
  BY <1>1 DEF Or, NonEmpty
<1>3. /\ left.api = asked.api /\ left.nodes = NonEmpty(asked.nodes)
      /\ Or(left.data, "") = asked.data /\ Or(left.delay, 30) = asked.delay
      /\ (left.disable # TRUE) = asked.enable
  BY <1>1, <1>2
<1>4. AcmeToSdk(left) = [api |-> asked.api, data |-> asked.data, enable |-> asked.enable,
                         nodes |-> "", delay |-> asked.delay]
  BY <1>3 DEF AcmeToSdk
<1>5. [asked EXCEPT !.nodes = ""] = [api |-> asked.api, data |-> asked.data, enable |-> asked.enable,
                                     nodes |-> "", delay |-> asked.delay]
  BY WithoutNodes DEF AcmeWritten
<1>6. QED BY <1>3, <1>4, <1>5 DEF AcmeReadsBack

\* An item of the network that was written has what was asked for.
LEMMA SdnReadBack == ASSUME SdnWritten PROVE SdnIsAsked
<1> DEFINE r == SdnToApi(kind, asked, creates)
<1> USE OptionalAssumption, SdnItemsAssumption
<1>1. /\ r.named = (kind \in {"vnet", "dns"})
      /\ r.type = CASE kind \in {"zone", "vnet"} -> Nil
                    [] kind = "subnet" -> IF creates THEN "subnet" ELSE ""
                    [] kind = "dns" -> asked.type
      /\ r.set = [f \in SdnFields(kind) |-> NonEmpty(asked.fields[f])]
      /\ r.delete = asked.delete \cup IF creates THEN {} ELSE {f \in AlwaysSent(kind) : asked.fields[f] = ""}
  BY DEF SdnToApi
<1>2. /\ asked.fields \in [SdnFields(kind) -> Strings] /\ creates \in BOOLEAN /\ kind \in SdnKinds
      /\ creates => at = Nil
      /\ ~creates => at # Nil /\ at \in Networks(kind)
      /\ SdnAccepts(kind, r, at) /\ left = SdnCarry(kind, r, at)
  BY DEF SdnWritten
<1> HIDE DEF r
<1>3. CASE creates
  <2>1. at = Nil /\ r.named /\ r.delete = {} /\ left = [type |-> r.type, fields |-> r.set]
    BY <1>2, <1>3 DEF SdnAccepts, SdnCarry
  <2>2. kind \in {"vnet", "dns"} /\ asked.delete = {}
    BY <1>1, <2>1
  <2>3. left.type = IF kind = "dns" THEN asked.type ELSE Nil
    BY <1>1, <2>1, <2>2
  <2>4. \A f \in SdnFields(kind) : left.fields[f] = NonEmpty(asked.fields[f])
    BY <1>1, <2>1
  <2>5. \A f \in SdnFields(kind) :
           left.fields[f] = IF asked.fields[f] # "" THEN asked.fields[f]
                            ELSE IF creates \/ f \in asked.delete \cup AlwaysSent(kind) THEN Nil
                            ELSE at.fields[f]
    BY <1>3, <2>4 DEF NonEmpty
  <2>6. QED BY <1>3, <2>3, <2>5 DEF SdnIsAsked
<1>4. CASE ~creates
  <2>1. at # Nil /\ at \in Networks(kind) /\ \A f \in r.delete : r.set[f] = Nil
    BY <1>2, <1>4 DEF SdnAccepts
  <2>2. DOMAIN at.fields = SdnFields(kind) /\ DOMAIN at = {"type", "fields"}
    BY <2>1 DEF Networks
  <2>3. /\ left.type = at.type
        /\ \A f \in SdnFields(kind) : left.fields[f] = IF f \in r.delete THEN Nil ELSE Or(r.set[f], at.fields[f])
    BY <1>2, <2>1, <2>2 DEF SdnCarry
  <2>4. ASSUME NEW f \in SdnFields(kind)
        PROVE  left.fields[f] = IF asked.fields[f] # "" THEN asked.fields[f]
                                ELSE IF creates \/ f \in asked.delete \cup AlwaysSent(kind) THEN Nil
                                ELSE at.fields[f]
    <3>1. r.set[f] = NonEmpty(asked.fields[f]) /\ asked.fields[f] \in Strings
      BY <1>1, <1>2
    <3>2. f \in r.delete <=> f \in asked.delete \/ (f \in AlwaysSent(kind) /\ asked.fields[f] = "")
      BY <1>1, <1>4
    <3>3. QED BY <1>4, <2>1, <2>3, <3>1, <3>2 DEF NonEmpty, Or
  <2>5. QED BY <1>4, <2>3, <2>4 DEF SdnIsAsked
<1>5. QED BY <1>2, <1>3, <1>4

-----------------------------------------------------------------------------
(* The types of what is made, read and used.                               *)

\* The defaults, and the providers as they are spelled, are strings.
LEMMA SpelledInStrings ==
  /\ \A t, f : f \in {"preallocation", "blocksize", "port"} => Default(t, f) \in Strings \ {"", "invalid"}
  /\ \A p \in Strings : ApiProvider(p) \in Strings /\ SdkProvider(p) \in Strings
  /\ \A p : /\ p # Nil => ApiProvider(p) # Nil /\ SdkProvider(p) # Nil
            /\ p # "" => ApiProvider(p) # "" /\ SdkProvider(p) # ""
BY OptionalAssumption, StorageItemAssumption DEF Default, ApiProvider, SdkProvider

\* A parameter that a call leaves is one that the server may have.
LEMMA CarriedType ==
  ASSUME NEW t \in StorageTypes, NEW o, o.type = t, o.spec \in Specs(t), o.spec # Nil,
         NEW create \in BOOLEAN, NEW cur, SpecValid(t, o.spec, cur),
         NEW i, IF create THEN i = Nil ELSE i # Nil /\ i \in Storages(t), NEW f \in Fields(t)
  PROVE  /\ Carried(o, create, i, f) \in Strings \cup {Nil} /\ Carried(o, create, i, f) # ""
         /\ Carried(o, create, i, f) = "invalid" => f \notin {"smbversion", "port"}
         /\ f \in Sticky(t) => Carried(o, create, i, f) \notin {"/", "/ns"}
<1> USE OptionalAssumption, StorageItemAssumption
<1> DEFINE s == o.spec
           v == Carried(o, create, i, f)
           old == Old(create, i, f)
<1>1. CarriedByClass(t, o, create, i, f)
  <2>1. IF create THEN i = Nil ELSE i # Nil /\ DOMAIN i.params = Fields(t)
    BY DEF Storages
  <2>2. QED BY <2>1, FieldsCarried
<1>2. /\ s[f] \in Strings \cup {Nil}
      /\ s[f] = "" => f \notin Clearable(t) \cup Sticky(t)
      /\ s[f] = "invalid" => f \notin {"smbversion", "port"}
  BY DEF Specs, SpecValid
<1>3. /\ old \in Strings \cup {Nil} /\ old # ""
      /\ old = "invalid" => f \notin {"smbversion", "port"}
      /\ f \in Sticky(t) => old \notin {"/", "/ns"}
  <2>1. CASE create
    BY <2>1 DEF Old
  <2>2. CASE ~create
    <3>1. i \in Storages(t) /\ old = i.params[f]
      BY <2>2 DEF Old
    <3>2. QED BY <3>1 DEF Storages
  <2>3. QED BY <2>1, <2>2
<1> HIDE DEF s, v, old
<1>4. f \in Fixed(t) => v \in {old, NonEmpty(SentField(o, f))} /\ SentField(o, f) \in {s[f], ApiProvider(s[f])}
  <2>1. f \in Fixed(t) => v \in {old, NonEmpty(SentField(o, f))}
    BY <1>1 DEF CarriedByClass, v, old
  <2>2. f \in Fixed(t) => f \notin Defaulted(t) /\ f \notin Sticky(t)
    BY ClassOf
  <2>3. QED BY <2>1, <2>2 DEF SentField, s
<1>5. CASE f \in Fixed(t)
  <2>1. SentField(o, f) \in Strings \cup {Nil}
    BY <1>2, <1>4, <1>5, SpelledInStrings DEF ApiProvider
  <2>2. f \notin {"smbversion", "port"} /\ f \notin Sticky(t)
    BY <1>5, ClassOf
  <2>3. QED BY <1>3, <1>4, <1>5, <2>1, <2>2 DEF NonEmpty, v
<1>6. CASE f \in Plain(t)
  <2>1. v = NonEmpty(s[f])
    BY <1>1, <1>6 DEF CarriedByClass, v, s
  <2>2. f \notin Sticky(t)
    BY <1>6, ClassOf
  <2>3. QED BY <1>2, <2>1, <2>2 DEF NonEmpty, v
<1>7. CASE f \in Defaulted(t)
  <2>1. v \in {old, NonEmpty(Or(s[f], Default(t, f)))}
    BY <1>1, <1>7 DEF CarriedByClass, v, s, old
  <2>2. Default(t, f) \in Strings \ {"", "invalid"}
    BY <1>7, ClassOf, SpelledInStrings
  <2>3. f \notin Sticky(t)
    BY <1>7, ClassOf
  <2>4. QED BY <1>2, <1>3, <2>1, <2>2, <2>3 DEF NonEmpty, Or, v
<1>8. CASE f \in Clearable(t)
  <2>1. v = s[f]
    BY <1>1, <1>8 DEF CarriedByClass, v, s
  <2>2. f \notin Sticky(t)
    BY <1>8, ClassOf
  <2>3. QED BY <1>2, <1>8, <2>1, <2>2 DEF v
<1>9. CASE f \in Secret(t)
  <2>1. v = Put(s[f], old)
    BY <1>1, <1>9 DEF CarriedByClass, v, s, old
  <2>2. f \notin Sticky(t)
    BY <1>9, ClassOf
  <2>3. QED BY <1>2, <1>3, <2>1, <2>2 DEF NonEmpty, Put, v
<1>10. CASE f \in Sticky(t)
  <2>1. v = Put(TrimLeft(s[f]), old)
    BY <1>1, <1>10 DEF CarriedByClass, v, s, old
  <2>2. /\ TrimLeft(s[f]) \in Strings \cup {Nil}
        /\ TrimLeft(s[f]) \notin {"/", "/ns"}
        /\ TrimLeft(s[f]) = "invalid" => s[f] = "invalid"
    BY <1>2 DEF TrimLeft
  <2>3. QED BY <1>2, <1>3, <2>1, <2>2 DEF NonEmpty, Put, v
<1>11. CASE f \in ProviderFields
  <2>1. v \in {old, Put(s[f], old)}
    BY <1>1, <1>11 DEF CarriedByClass, v, s, old
  <2>2. f \notin Sticky(t)
    BY <1>11, ClassOf
  <2>3. QED BY <1>2, <1>3, <2>1, <2>2 DEF NonEmpty, Put, v
<1>12. QED BY <1>5, <1>6, <1>7, <1>8, <1>9, <1>10, <1>11, ClassOf

\* What a call makes of a storage is a storage that the server may have
\* (StorageToApi, StorageCarry).
LEMMA MadeStorage ==
  ASSUME NEW t \in StorageTypes \cap Kinds, NEW o \in StorageObjects(t), o.type = t,
         NEW create \in BOOLEAN, NEW cur, o.spec # Nil => SpecValid(t, o.spec, cur),
         NEW i, IF create THEN i = Nil /\ o.spec # Nil ELSE i # Nil /\ i \in Storages(t)
  PROVE  StorageCarry(StorageToApi(o, create), i) \in Storages(t)
<1> DEFINE after == StorageCarry(StorageToApi(o, create), i)
           disable == IF o.enable THEN "0" ELSE "1"
           nodes == NonEmpty(o.nodes)
           content == MapContent(o)
           prune == after.prune
           params == after.params
<1>1. /\ o.enable \in BOOLEAN /\ o.nodes \in Strings /\ o.keep \in Retentions
      /\ o.spec \in {Nil} \cup Specs(t)
  BY DEF StorageObjects
<1>2. ~create => i.type = ApiType(t) /\ i.prune \in Retentions /\ DOMAIN i.params = Fields(t)
  BY DEF Storages
<1>3. after = [type |-> ApiType(t), disable |-> disable, nodes |-> nodes, content |-> content,
               prune |-> prune, params |-> params]
  BY <1>2 DEF StorageCarry, StorageToApi
<1>4. prune \in Retentions
  BY <1>1, <1>2 DEF StorageCarry, StorageToApi, Or, Retentions
<1>5. content \in SUBSET Contents[t] /\ disable \in {"0", "1"}
  BY DEF MapContent
<1>6. DOMAIN after.params = Fields(t) /\ after.params = [f \in Fields(t) |-> after.params[f]]
  BY <1>2 DEF StorageCarry, StorageToApi
<1> HIDE DEF after, disable, content
<1>7. ASSUME NEW f \in Fields(t)
      PROVE  /\ after.params[f] \in Strings \cup {Nil} /\ after.params[f] # ""
             /\ after.params[f] = "invalid" => f \notin {"smbversion", "port"}
             /\ f \in Sticky(t) => after.params[f] \notin {"/", "/ns"}
  <2>1. CASE o.spec # Nil
    <3>1. o.spec \in Specs(t) /\ SpecValid(t, o.spec, cur) /\ IF create THEN i = Nil ELSE i # Nil /\ i \in Storages(t)
      BY <1>1, <2>1
    <3>2. after.params[f] = Carried(o, create, i, f)
      BY DEF Carried, after
    <3>3. t \in StorageTypes /\ o.type = t /\ o.spec # Nil
      BY <2>1
    <3>4. /\ Carried(o, create, i, f) \in Strings \cup {Nil} /\ Carried(o, create, i, f) # ""
          /\ Carried(o, create, i, f) = "invalid" => f \notin {"smbversion", "port"}
          /\ f \in Sticky(t) => Carried(o, create, i, f) \notin {"/", "/ns"}
      BY ZenonT(60), <3>1, <3>3, CarriedType
    <3>5. QED BY <3>2, <3>4
  <2>2. CASE o.spec = Nil
    <3>1. create = FALSE /\ i # Nil /\ i \in Storages(t) /\ DOMAIN i.params = Fields(o.type) /\ f \in Fields(o.type)
      BY <1>2, <2>2
    <3>2. StorageCarry(StorageToApi(o, FALSE), i).params[f] = i.params[f]
      BY ZenonT(60), <2>2, <3>1, NothingCarried
    <3>4. after.params[f] = i.params[f]
      BY <3>1, <3>2 DEF after
    <3>3. QED BY <3>1, <3>4 DEF Storages
  <2>3. QED BY <2>1, <2>2
<1>8. nodes \in {Nil} \cup Strings /\ nodes # ""
  BY <1>1, OptionalAssumption, StorageItemAssumption DEF NonEmpty
<1> HIDE DEF nodes
<1>9. params \in [Fields(t) -> Strings \cup {Nil}]
  BY <1>6, <1>7
<1> HIDE DEF prune, params
<1>10. after \in [type : {ApiType(t)}, disable : {Nil, "0", "1"}, nodes : {Nil} \cup Strings,
                  prune : Retentions, content : {Nil} \cup SUBSET Contents[t],
                  params : [Fields(t) -> Strings \cup {Nil}]]
  BY <1>3, <1>4, <1>5, <1>8, <1>9
<1>11. after.nodes # ""
  BY <1>3, <1>8
<1>12. QED BY <1>7, <1>10, <1>11 DEF Storages, after

\* The object of a storage with another type, content and struct.
LEMMA SixFields ==
  ASSUME NEW A, NEW B, NEW C, NEW D, NEW E, NEW F,
         NEW o \in [type : A, enable : B, nodes : C, content : D, keep : E, spec : F],
         NEW x, NEW y, NEW z
  PROVE  [o EXCEPT !.type = x, !.content = y, !.spec = z] =
            [type |-> x, enable |-> o.enable, nodes |-> o.nodes, content |-> y, keep |-> o.keep,
             spec |-> z]
<1> DEFINE p == [o EXCEPT !.type = x]
           q == [p EXCEPT !.content = y]
<1>1. p \in [type : {x}, enable : B, nodes : C, content : D, keep : E, spec : F]
      /\ p.enable = o.enable /\ p.nodes = o.nodes /\ p.keep = o.keep
  OBVIOUS
<1>2. [o EXCEPT !.type = x, !.content = y, !.spec = z] = [q EXCEPT !.spec = z]
  OBVIOUS
<1> HIDE DEF p
<1>3. q \in [type : {x}, enable : B, nodes : C, content : {y}, keep : E, spec : F]
      /\ q.enable = o.enable /\ q.nodes = o.nodes /\ q.keep = o.keep
  BY <1>1
<1> HIDE DEF q
<1>4. [q EXCEPT !.spec = z] = [type |-> x, enable |-> o.enable, nodes |-> o.nodes, content |-> y,
                               keep |-> o.keep, spec |-> z]
  BY <1>3
<1>5. QED BY <1>2, <1>4

\* An object that was used is one for the same type (StorageAfter).
LEMMA UsedStorage ==
  ASSUME NEW t \in StorageTypes \cap Kinds, NEW o \in StorageObjects(t), o.type = t,
         NEW create \in BOOLEAN, NEW enable \in BOOLEAN
  PROVE  StorageAfter([o EXCEPT !.enable = enable], create) \in StorageObjects(t)
<1> USE OptionalAssumption, StorageItemAssumption
<1> DEFINE used == StorageAfter([o EXCEPT !.enable = enable], create)
           s == o.spec
           value(u, x, f) == CASE f \in Defaulted(u) -> Or(x[f], Default(u, f))
                               [] f = "iscsiprovider" -> ApiProvider(x[f])
                               [] OTHER -> x[f]
           spec == [f \in DOMAIN s |-> value(t, s, f)]
<1>1. /\ o \in [type : Strings, enable : BOOLEAN, nodes : Strings,
                content : {Nil} \cup SUBSET Strings, keep : Retentions, spec : {Nil} \cup Specs(t)]
      /\ s \in {Nil} \cup Specs(t)
  BY DEF StorageObjects
<1>2. /\ used.type = IF create THEN ApiType(t) ELSE t
      /\ used.enable = enable /\ used.nodes = o.nodes /\ used.keep = o.keep
      /\ used.content = IF Hardcoded(t) THEN HardContent(t) ELSE o.content
      /\ used.spec = IF s = Nil THEN Nil ELSE spec
      /\ used = [type |-> used.type, enable |-> used.enable, nodes |-> used.nodes,
                 content |-> used.content, keep |-> used.keep, spec |-> used.spec]
  <2> DEFINE a == [o EXCEPT !.enable = enable]
  <2>1. /\ a \in [type : Strings, enable : BOOLEAN, nodes : Strings,
                  content : {Nil} \cup SUBSET Strings, keep : Retentions, spec : {Nil} \cup Specs(t)]
        /\ a.type = t /\ a.enable = enable /\ a.nodes = o.nodes /\ a.content = o.content
        /\ a.keep = o.keep /\ a.spec = s
    BY <1>1
  <2>2. used = [a EXCEPT !.type = IF create THEN ApiType(a.type) ELSE a.type,
                         !.content = IF Hardcoded(a.type) THEN HardContent(a.type) ELSE a.content,
                         !.spec = IF a.spec = Nil THEN Nil
                                  ELSE [f \in DOMAIN a.spec |-> value(a.type, a.spec, f)]]
    BY DEF StorageAfter
  <2> HIDE DEF a
  <2>3. used = [a EXCEPT !.type = IF create THEN ApiType(t) ELSE t,
                         !.content = IF Hardcoded(t) THEN HardContent(t) ELSE o.content,
                         !.spec = IF s = Nil THEN Nil ELSE spec]
    <3>1. a.type = t /\ a.spec = s /\ a.content = o.content
      BY <2>1
    <3> HIDE DEF s, value
    <3>2. [f \in DOMAIN a.spec |-> value(a.type, a.spec, f)] = spec
      BY <3>1
    <3> HIDE DEF used, spec
    <3>3. QED BY <2>2, <3>1, <3>2
  <2> HIDE DEF used, s, spec
  <2>4. used = [type |-> IF create THEN ApiType(t) ELSE t, enable |-> a.enable, nodes |-> a.nodes,
                content |-> IF Hardcoded(t) THEN HardContent(t) ELSE o.content, keep |-> a.keep,
                spec |-> IF s = Nil THEN Nil ELSE spec]
    BY <2>1, <2>3, SixFields
  <2>5. QED BY <2>1, <2>4
<1> HIDE DEF used
<1>3. used.type \in Strings /\ used.type \in {t, ApiType(t)}
  BY <1>2, TypeRead DEF StorageTypes
<1>4. used.content \in {Nil} \cup SUBSET Strings
  BY <1>1, <1>2 DEF HardContent
<1>5. ASSUME s # Nil PROVE spec \in Specs(t)
  <2>1. s \in Specs(t) /\ DOMAIN s = Fields(t)
    BY <1>1, <1>5 DEF Specs
  <2>2. ASSUME NEW f \in Fields(t)
        PROVE  /\ value(t, s, f) \in Strings \cup {Nil}
               /\ value(t, s, f) = Nil => f \in Pointers(t)
               /\ value(t, s, f) = "" => s[f] = ""
               /\ f \notin Defaulted(t) /\ f # "iscsiprovider" => value(t, s, f) = s[f]
    <3>1. s[f] \in Strings \cup {Nil} /\ (s[f] = Nil => f \in Pointers(t))
      BY <2>1 DEF Specs
    <3> HIDE DEF s
    <3>2. CASE f \in Defaulted(t)
      <4>1. Default(t, f) \in Strings \ {"", "invalid"} /\ f # "iscsiprovider"
        BY ZenonT(60), <3>2, ClassOf, SpelledInStrings
      <4>2. value(t, s, f) = Or(s[f], Default(t, f))
        BY <3>2, <4>1
      <4> HIDE DEF value
      <4>3. QED BY <3>1, <3>2, <4>1, <4>2 DEF Or
    <3>3. CASE f \notin Defaulted(t) /\ f = "iscsiprovider"
      <4>1. value(t, s, f) = ApiProvider(s[f])
        BY <3>3
      <4> HIDE DEF value
      <4>2. QED BY <3>1, <3>3, <4>1 DEF ApiProvider
    <3>4. CASE f \notin Defaulted(t) /\ f # "iscsiprovider"
      <4>1. value(t, s, f) = s[f]
        BY <3>4
      <4> HIDE DEF value
      <4>2. QED BY <3>1, <3>4, <4>1
    <3>5. QED BY <3>2, <3>3, <3>4
  <2> HIDE DEF value
  <2>3. spec = [f \in Fields(t) |-> value(t, s, f)]
    BY <2>1
  <2>4. \A f \in Fields(t) : f \in {"options", "smbversion", "comstar_hg", "comstar_tg", "nowritecache"} =>
           f \notin Defaulted(t) /\ f # "iscsiprovider"
    BY ClassOf
  <2>5. /\ t = "nfs" => "options" \in Fields(t)
        /\ t = "smb" => "smbversion" \in Fields(t)
        /\ t = "zfs-over-iscsi" => {"comstar_hg", "comstar_tg", "nowritecache"} \subseteq Fields(t)
    BY UnionOfProviders DEF Fields, Clearable, ProviderFields, GroupFields
  <2> HIDE DEF spec, s
  <2>6. spec \in [Fields(t) -> Strings \cup {Nil}]
    BY <2>2, <2>3
  <2>7. /\ t = "nfs" => spec.options = s.options
        /\ t = "smb" => spec.smbversion = s.smbversion
        /\ t = "zfs-over-iscsi" => /\ spec.comstar_hg = s.comstar_hg /\ spec.comstar_tg = s.comstar_tg
                                   /\ spec.nowritecache = s.nowritecache
    BY <2>2, <2>3, <2>4, <2>5
  <2>8. QED BY <2>1, <2>2, <2>3, <2>6, <2>7 DEF Specs
<1>6. QED BY <1>1, <1>2, <1>3, <1>4, <1>5 DEF StorageObjects, used

\* A field that is read is one that an object may have.
LEMMA ReadType ==
  ASSUME NEW t \in StorageTypes, NEW ps \in [Fields(t) -> Strings \cup {Nil}], NEW f \in Fields(t),
         \A g \in Fields(t) : ps[g] # "", ~CannotBeRead(t, ps)
  PROVE  /\ ReadField(t, ps, f) \in Strings \cup {Nil}
         /\ ReadField(t, ps, f) = Nil => f \in Pointers(t)
         /\ ReadField(t, ps, f) = "" => f \notin Clearable(t) \cup Sticky(t)
                                                 \cup {"shared", "krbd", "sparse", "nowritecache"}
<1> USE OptionalAssumption, StorageItemAssumption
<1> DEFINE v == ReadField(t, ps, f)
           p == SdkProvider(ps.iscsiprovider)
<1>1. ReadByClass(t, ps, f)
  BY FieldsRead
<1>2. ps[f] \in Strings \cup {Nil} /\ ps[f] # "" /\ (f \in NeededToRead(t, ps) => ps[f] # Nil)
  BY DEF CannotBeRead
<1>3. /\ f \in Fixed(t) => f \in NeededToRead(t, ps)
      /\ f \in Plain(t) /\ f \in {"shared", "krbd", "sparse"} => f \in NeededToRead(t, ps)
      /\ t = "zfs-over-iscsi" /\ p # "comstar" /\ f \in OfProvider(p) => f \in NeededToRead(t, ps)
  BY DEF NeededToRead
<1>4. f \in Defaulted(t) \cup Clearable(t) \cup Secret(t) \cup Sticky(t) \cup ProviderFields => f \in Pointers(t)
  <2>1. f \in ProviderFields => t = "zfs-over-iscsi"
    BY ClassOf
  <2>2. QED BY <2>1, UnionOfProviders DEF Pointers
<1>5. p = "comstar" <=> ps.iscsiprovider = "comstar"
  BY DEF SdkProvider
<1> HIDE DEF v, p
<1>6. CASE f \in Fixed(t)
  <2>1. v \in {SdkProvider(ps[f]), Or(ps[f], "")} /\ ps[f] # Nil
    BY <1>1, <1>2, <1>3, <1>6 DEF ReadByClass, v
  <2>2. v \in Strings /\ v # ""
    BY <1>2, <2>1, SpelledInStrings DEF SdkProvider, Or
  <2>3. QED BY <2>2 DEF v
<1>7. CASE f \in Plain(t)
  <2>1. v = Or(ps[f], "")
    BY <1>1, <1>7 DEF ReadByClass, v
  <2>2. /\ f \notin Clearable(t) /\ f \notin Sticky(t) /\ f # "nowritecache"
    BY <1>7, ClassOf
  <2>3. QED BY <1>2, <1>3, <1>7, <2>1, <2>2 DEF Or, v
<1>8. CASE f \in Defaulted(t)
  <2>1. v = Or(ps[f], Default(t, f))
    BY <1>1, <1>8 DEF ReadByClass, v
  <2>2. Default(t, f) \in Strings \ {"", "invalid"}
    BY <1>8, ClassOf, SpelledInStrings
  <2>3. QED BY <1>2, <2>1, <2>2 DEF Or, v
<1>9. CASE f \in Clearable(t) \/ f \in Secret(t) \/ f \in Sticky(t)
  <2>1. v \in {Nil, ps[f]}
    BY <1>1, <1>9 DEF ReadByClass, v
  <2>2. QED BY <1>2, <1>4, <1>9, <2>1 DEF v
<1>10. CASE f \in ProviderFields
  <2>1. t = "zfs-over-iscsi" /\ f \notin Clearable(t) /\ f \notin Sticky(t) /\ f \notin {"shared", "krbd", "sparse"}
    BY <1>10, ClassOf DEF ProviderFields, GroupFields
  <2>2. v = IF f \notin OfProvider(p) THEN Nil
            ELSE IF f = "nowritecache" /\ p = "comstar" THEN IF ps.comstar_hg = Nil THEN "0" ELSE ps[f]
            ELSE Or(ps[f], "")
    BY <1>1, <1>5, <1>10 DEF ReadByClass, v, p
  <2>3. QED BY <1>2, <1>3, <1>4, <1>10, <2>1, <2>2 DEF Or, v
<1>11. QED BY <1>6, <1>7, <1>8, <1>9, <1>10, ClassOf

\* The fields of a struct that is read are consistent.
LEMMA ReadSpec ==
  ASSUME NEW t \in StorageTypes, NEW ps \in [Fields(t) -> Strings \cup {Nil}],
         \A g \in Fields(t) : ps[g] # "", ~CannotBeRead(t, ps)
  PROVE  [f \in Fields(t) |-> ReadField(t, ps, f)] \in Specs(t)
<1> USE OptionalAssumption, StorageItemAssumption
<1> DEFINE s == [f \in Fields(t) |-> ReadField(t, ps, f)]
           p == SdkProvider(ps.iscsiprovider)
<1>1. s \in [Fields(t) -> Strings \cup {Nil}]
  BY ReadType
<1>2. \A f \in Fields(t) :
         /\ s[f] = Nil => f \in Pointers(t)
         /\ s[f] = "" => f \notin Clearable(t) \cup Sticky(t) \cup {"shared", "krbd", "sparse", "nowritecache"}
  BY ReadType
<1>3. ASSUME t = "nfs" PROVE s.options # "bare"
  <2>1. "options" \in Fields(t) /\ "options" \in Clearable(t)
    BY <1>3 DEF Fields, Clearable
  <2>2. s["options"] = ps["options"]
    BY ZenonT(60), <2>1, FieldsRead DEF ReadByClass
  <2>3. QED BY <1>3, <2>2 DEF CannotBeRead
<1>4. ASSUME t = "smb" PROVE s.smbversion # "default"
  <2>1. "smbversion" \in Fields(t) /\ "smbversion" \in Clearable(t)
    BY <1>4 DEF Fields, Clearable
  <2>2. \A f \in {"smbversion"} : s[f] = IF ps[f] = "default" THEN Nil ELSE ps[f]
    <3>1. \A f \in {"smbversion"} : ReadByClass(t, ps, f) /\ f \in Clearable(t) /\ s[f] = ReadField(t, ps, f)
      BY <2>1, FieldsRead
    <3> HIDE DEF s
    <3>2. \A f \in {"smbversion"} :
             ReadField(t, ps, f) = IF f = "smbversion" /\ ps[f] = "default" THEN Nil ELSE ps[f]
      BY <3>1 DEF ReadByClass
    <3>3. QED BY <3>1, <3>2
  <2> HIDE DEF s
  <2>3. QED BY <2>2
<1>5. ASSUME t = "zfs-over-iscsi"
      PROVE  (s.comstar_hg = Nil <=> s.comstar_tg = Nil) /\ (s.comstar_hg # Nil => s.nowritecache # Nil)
  <2>1. ProviderFields \subseteq Fields(t)
    BY <1>5, UnionOfProviders DEF Fields
  <2>2. {"comstar_hg", "comstar_tg", "nowritecache"} \subseteq ProviderFields
    BY DEF ProviderFields, GroupFields
  <2>3. \A f \in {"comstar_hg", "comstar_tg", "nowritecache"} :
           s[f] = IF f \notin OfProvider(p) THEN Nil
                  ELSE IF f = "nowritecache" /\ ps.iscsiprovider = "comstar"
                  THEN IF ps.comstar_hg = Nil THEN "0" ELSE ps[f]
                  ELSE Or(ps[f], "")
    <3>1. \A f \in {"comstar_hg", "comstar_tg", "nowritecache"} :
             ReadByClass(t, ps, f) /\ f \in ProviderFields /\ s[f] = ReadField(t, ps, f)
      BY <2>1, <2>2, FieldsRead
    <3> HIDE DEF s
    <3>2. QED BY <3>1 DEF ReadByClass
  <2>4. p = "comstar" <=> ps.iscsiprovider = "comstar"
    BY DEF SdkProvider
  <2>5. p = "comstar" /\ ps.comstar_hg # Nil => "nowritecache" \in NeededToRead(t, ps)
    BY <1>5 DEF NeededToRead
  <2>6. p = "comstar" /\ ps.comstar_hg # Nil => ps["nowritecache"] # Nil
    BY <2>5 DEF CannotBeRead
  <2> HIDE DEF s, p
  <2>7. /\ "comstar_hg" \in OfProvider(p) <=> p = "comstar"
        /\ "comstar_tg" \in OfProvider(p) <=> p = "comstar"
        /\ p = "comstar" => "nowritecache" \in OfProvider(p)
    BY DEF OfProvider
  <2>8. s["comstar_hg"] = Nil <=> p # "comstar"
    BY <2>3, <2>7 DEF Or
  <2>9. s["comstar_tg"] = Nil <=> p # "comstar"
    BY <2>3, <2>7 DEF Or
  <2>10. p = "comstar" => s["nowritecache"] # Nil
    BY <2>3, <2>4, <2>6, <2>7
  <2>11. QED BY <2>8, <2>9, <2>10
<1> HIDE DEF s
<1>6. s \in Specs(t)
  BY <1>1, <1>2, <1>3, <1>4, <1>5 DEF Specs
<1>7. QED BY <1>6 DEF s

\* A storage that is read is described by an object for its type (StorageToSdk).
LEMMA ReadStorage ==
  ASSUME NEW t \in StorageTypes \cap Kinds, NEW i \in Storages(t), ~StorageUnreadable(i)
  PROVE  /\ StorageToSdk(i).type = t /\ StorageToSdk(i) \in StorageObjects(t)
         /\ StorageToSdk(i).spec \in Specs(t) /\ StorageToSdk(i).keep = (IF i.prune = "all" THEN Nil ELSE i.prune)
<1> DEFINE read == StorageToSdk(i)
           spec == [f \in Fields(t) |-> ReadField(t, i.params, f)]
           enable == i.disable # "1"
           nodes == Or(i.nodes, "")
           content == ReadContent(t, i.content)
           keep == IF i.prune = "all" THEN Nil ELSE i.prune
<1>1. /\ i.type = ApiType(t) /\ i.nodes \in {Nil} \cup Strings /\ i.prune \in Retentions
      /\ i.content \in {Nil} \cup SUBSET Contents[t]
      /\ i.params \in [Fields(t) -> Strings \cup {Nil}] /\ \A f \in Fields(t) : i.params[f] # ""
  BY DEF Storages
<1>2. SdkType(i.type) = t
  BY <1>1, TypeRead
<1>3. read = [type |-> t, enable |-> enable, nodes |-> nodes, content |-> content, keep |-> keep, spec |-> spec]
  BY <1>2 DEF StorageToSdk
<1>4. spec \in Specs(t)
  <2>1. ~CannotBeRead(t, i.params)
    BY <1>1, UnreadableByType
  <2>2. QED BY <1>1, <2>1, ReadSpec
<1>5. /\ enable \in BOOLEAN
      /\ nodes \in Strings
      /\ keep \in Retentions
  BY <1>1, StorageItemAssumption DEF Or, Retentions
<1>6. content \in {Nil} \cup SUBSET Strings
  <2>1. Contents[t] \subseteq Strings
    BY ConfigItemsAssumption
  <2>2. QED BY <1>1, <2>1 DEF ReadContent
<1>7. t \in Strings /\ t \in {t, ApiType(t)}
  BY StorageItemAssumption
<1> HIDE DEF spec, enable, nodes, content, keep, read
<1>8. read \in StorageObjects(t)
  BY <1>3, <1>4, <1>5, <1>6, <1>7 DEF StorageObjects
<1>9. QED BY <1>3, <1>4, <1>8 DEF read, keep

\* The parameters of the two types of metric servers.
Text == {Nil} \cup (Strings \ {""})
GraphiteParams == [path : Text, proto : {Nil, "udp", "tcp"}]
InfluxParams == [prefix : Text, bucket : Text, body : {Nil} \cup Int, token : Text,
                 proto : {Nil, "udp", "http", "https"}]

\* The struct of influxdb as it is sent.
LEMMA ThreeFields ==
  ASSUME NEW A, NEW B, NEW x \in [prefix : A, bucket : A, body : B, token : A, proto : A],
         NEW p, NEW k, NEW b
  PROVE  [x EXCEPT !.prefix = p, !.token = k, !.bucket = b] =
            [prefix |-> p, bucket |-> b, body |-> x.body, token |-> k, proto |-> x.proto]
<1> DEFINE y == [x EXCEPT !.prefix = p]
<1>1. y \in [prefix : {p}, bucket : A, body : B, token : A, proto : A]
      /\ y.body = x.body /\ y.proto = x.proto
  OBVIOUS
<1>2. [x EXCEPT !.prefix = p, !.token = k, !.bucket = b] = [[y EXCEPT !.token = k] EXCEPT !.bucket = b]
  OBVIOUS
<1> HIDE DEF y
<1> DEFINE z == [y EXCEPT !.token = k]
<1>3. z \in [prefix : {p}, bucket : A, body : B, token : {k}, proto : A]
      /\ z.body = x.body /\ z.proto = x.proto
  BY <1>1
<1> HIDE DEF z
<1>4. [z EXCEPT !.bucket = b] =
         [prefix |-> p, bucket |-> b, body |-> x.body, token |-> k, proto |-> x.proto]
  BY <1>3
<1>5. QED BY <1>2, <1>4 DEF z

\* The parameters of one type after an update.
LEMMA Merged ==
  ASSUME NEW set, NEW delete, NEW old
  PROVE  /\ set \in GraphiteParams /\ old \in GraphiteParams => MergeFields(set, delete, old) \in GraphiteParams
         /\ set \in InfluxParams /\ old \in InfluxParams => MergeFields(set, delete, old) \in InfluxParams
         /\ MergeFields(NoGraphite, delete, NoGraphite) = NoGraphite
         /\ MergeFields(NoInflux, delete, NoInflux) = NoInflux
<1> DEFINE m == MergeFields(set, delete, old)
<1>1. m = [f \in DOMAIN old |-> IF f \in delete THEN Nil ELSE Or(set[f], old[f])]
  BY DEF MergeFields
<1> HIDE DEF m
<1>2. ASSUME set \in GraphiteParams, old \in GraphiteParams PROVE m \in GraphiteParams
  <2>1. DOMAIN old = {"path", "proto"}
    BY <1>2 DEF GraphiteParams
  <2>2. m = [path |-> m.path, proto |-> m.proto]
    BY <1>1, <2>1
  <2>3. m.path \in Text /\ m.proto \in {Nil, "udp", "tcp"}
    BY <1>1, <1>2, <2>1 DEF GraphiteParams, Text, Or
  <2> DEFINE path == m.path
             proto == m.proto
  <2> HIDE DEF path, proto
  <2>4. m = [path |-> path, proto |-> proto] /\ path \in Text /\ proto \in {Nil, "udp", "tcp"}
    BY <2>2, <2>3 DEF path, proto
  <2>5. QED BY <2>4 DEF GraphiteParams
<1>3. ASSUME set \in InfluxParams, old \in InfluxParams PROVE m \in InfluxParams
  <2>1. DOMAIN old = {"prefix", "bucket", "body", "token", "proto"}
    BY <1>3 DEF InfluxParams
  <2>2. m = [prefix |-> m.prefix, bucket |-> m.bucket, body |-> m.body, token |-> m.token, proto |-> m.proto]
    BY <1>1, <2>1
  <2>3. /\ m.prefix \in Text /\ m.bucket \in Text /\ m.token \in Text
        /\ m.proto \in {Nil, "udp", "http", "https"}
    BY <1>1, <1>3, <2>1 DEF InfluxParams, Text, Or
  <2>4. m.body \in {Nil} \cup Int
    BY <1>1, <1>3, <2>1 DEF InfluxParams, Or
  <2> DEFINE prefix == m.prefix
             bucket == m.bucket
             body == m.body
             token == m.token
             proto == m.proto
  <2> HIDE DEF prefix, bucket, body, token, proto
  <2>5. m = [prefix |-> prefix, bucket |-> bucket, body |-> body, token |-> token, proto |-> proto]
    BY <2>2 DEF prefix, bucket, body, token, proto
  <2>6. /\ prefix \in Text /\ bucket \in Text /\ token \in Text /\ body \in {Nil} \cup Int
        /\ proto \in {Nil, "udp", "http", "https"}
    BY <2>3, <2>4 DEF prefix, bucket, body, token, proto
  <2>7. QED BY <2>5, <2>6 DEF InfluxParams
<1>4. MergeFields(NoGraphite, delete, NoGraphite) = NoGraphite
  BY DEF MergeFields, NoGraphite, Or
<1>5. MergeFields(NoInflux, delete, NoInflux) = NoInflux
  BY DEF MergeFields, NoInflux, Or
<1>6. QED BY <1>2, <1>3, <1>4, <1>5 DEF m

\* The parameters of both types in a request.
LEMMA MetricsRequest ==
  ASSUME NEW o \in MetricsObjects, NEW create \in BOOLEAN, MetricsValid(o), ~MetricsPanics(o),
         NEW r, r = MetricsToApi(MetricsAfter(o), create)
  PROVE  /\ r.set = [type |-> r.set.type, server |-> r.set.server, port |-> r.set.port, mtu |-> r.set.mtu,
                     timeout |-> r.set.timeout, disable |-> r.set.disable,
                     graphite |-> r.set.graphite, influx |-> r.set.influx]
         /\ r.set.graphite \in GraphiteParams /\ r.set.influx \in InfluxParams
<1> USE OptionalAssumption, ServiceItemsAssumption
<1>1. o.type \in MetricsTypes /\ o.graphite # Nil /\ o.influx # Nil
      /\ o.graphite.proto \in {"udp", "tcp"} /\ o.influx.proto \in {"udp", "http", "https"}
  BY DEF MetricsValid, MetricsPanics
<1>2. /\ o.graphite \in [path : Strings, proto : Strings]
      /\ o.influx \in [prefix : Strings, bucket : Strings, body : Int, token : Strings, proto : Strings]
  BY <1>1 DEF MetricsObjects
<1> DEFINE a == MetricsAfter(o)
           set == r.set
<1>3. /\ a.graphite = IF o.type # "graphite" THEN Nil ELSE o.graphite
      /\ a.influx = IF o.type = "graphite" THEN Nil ELSE o.influx
  BY DEF MetricsAfter, MetricsObjects
<1> HIDE DEF a
<1>4. r.set = [type |-> set.type, server |-> set.server, port |-> set.port, mtu |-> set.mtu,
               timeout |-> set.timeout, disable |-> set.disable, graphite |-> set.graphite, influx |-> set.influx]
  BY DEF MetricsToApi
<1>5. /\ r.set.graphite = IF a.graphite = Nil THEN NoGraphite
                          ELSE [a.graphite EXCEPT !.path = NonEmpty(a.graphite.path)]
      /\ r.set.influx = IF a.influx = Nil THEN NoInflux
                        ELSE [a.influx EXCEPT !.prefix = NonEmpty(a.influx.prefix), !.token = NonEmpty(a.influx.token),
                                              !.bucket = NonEmpty(a.influx.bucket)]
  BY DEF MetricsToApi, a
<1>6. NoGraphite \in GraphiteParams /\ NoInflux \in InfluxParams
  BY DEF NoGraphite, NoInflux, GraphiteParams, InfluxParams, Text
<1>7. \A v \in Strings : NonEmpty(v) \in Text
  BY DEF NonEmpty, Text
<1>8. [o.graphite EXCEPT !.path = NonEmpty(o.graphite.path)] \in GraphiteParams
  <2>1. NonEmpty(o.graphite.path) \in Text
    BY <1>2, <1>7
  <2> DEFINE path == NonEmpty(o.graphite.path)
             g == o.graphite
  <2> HIDE DEF path, g
  <2>2. g \in [path : Strings, proto : {"udp", "tcp"}] /\ path \in Text
    BY <1>1, <1>2, <2>1 DEF path, g
  <2>3. [g EXCEPT !.path = path] \in [path : Text, proto : {Nil, "udp", "tcp"}]
    BY <2>2
  <2>4. QED BY <2>3 DEF GraphiteParams, path, g
<1>9. [o.influx EXCEPT !.prefix = NonEmpty(o.influx.prefix), !.token = NonEmpty(o.influx.token),
                       !.bucket = NonEmpty(o.influx.bucket)] \in InfluxParams
  <2>1. NonEmpty(o.influx.prefix) \in Text /\ NonEmpty(o.influx.token) \in Text /\ NonEmpty(o.influx.bucket) \in Text
    BY <1>2, <1>7
  <2> DEFINE p == NonEmpty(o.influx.prefix)
             k == NonEmpty(o.influx.token)
             b == NonEmpty(o.influx.bucket)
             x == o.influx
  <2>2. p \in Text /\ k \in Text /\ b \in Text
    BY <2>1
  <2>3. x \in [prefix : Strings, bucket : Strings, body : Int, token : Strings, proto : Strings]
        /\ x.body \in Int /\ x.proto \in {"udp", "http", "https"}
    BY <1>1, <1>2
  <2> HIDE DEF p, k, b, x
  <2>4. [x EXCEPT !.prefix = p, !.token = k, !.bucket = b] =
            [prefix |-> p, bucket |-> b, body |-> x.body, token |-> k, proto |-> x.proto]
    BY <2>3, ThreeFields
  <2> DEFINE body == x.body
             proto == x.proto
  <2>5. body \in {Nil} \cup Int /\ proto \in {Nil, "udp", "http", "https"}
    BY <2>3
  <2> HIDE DEF body, proto
  <2>6. [prefix |-> p, bucket |-> b, body |-> body, token |-> k, proto |-> proto] \in InfluxParams
    BY <2>2, <2>5 DEF InfluxParams
  <2>7. QED BY <2>4, <2>6 DEF p, k, b, x, body, proto
<1>10. r.set.graphite \in GraphiteParams
  BY <1>3, <1>5, <1>6, <1>8
<1>11. r.set.influx \in InfluxParams
  BY <1>3, <1>5, <1>6, <1>9
<1>12. QED BY <1>4, <1>10, <1>11

\* What a call makes of a metric server is one that the server may have.
LEMMA MadeMetrics ==
  ASSUME NEW o \in MetricsObjects, MetricsValid(o), ~MetricsPanics(o), NEW create \in BOOLEAN,
         NEW i, IF create THEN i = Nil ELSE i # Nil /\ i \in MetricsServers,
         NEW r, r = MetricsToApi(MetricsAfter(o), create), MetricsAccepts(r, i)
  PROVE  MetricsCarry(r, i) \in MetricsServers
<1> USE OptionalAssumption, ServiceItemsAssumption
<1> DEFINE made == MetricsCarry(r, i)
<1>1. o.type \in MetricsTypes /\ FrameSent(o, create, r) /\ GraphiteSent(o, r) /\ InfluxSent(o, r)
  BY MetricsSent
<1>2. r.set = [type |-> r.set.type, server |-> r.set.server, port |-> r.set.port, mtu |-> r.set.mtu,
               timeout |-> r.set.timeout, disable |-> r.set.disable,
               graphite |-> r.set.graphite, influx |-> r.set.influx]
      /\ r.set.graphite \in GraphiteParams /\ r.set.influx \in InfluxParams
  BY MetricsRequest
<1>3. /\ r.set.server \in Strings \ {""} /\ r.set.port \in Int /\ r.set.mtu \in Int
      /\ r.set.timeout \in Int /\ r.set.disable \in BOOLEAN
      /\ r.set.type = (IF create THEN o.type ELSE Nil)
  <2>1. o.server \in Strings \ {""} /\ o.port \in Int /\ o.mtu \in Int /\ o.timeout \in Int /\ o.enable \in BOOLEAN
    BY DEF MetricsObjects, MetricsValid
  <2>2. QED BY <1>1, <2>1 DEF FrameSent
<1>4. ASSUME NEW m, NEW type \in MetricsTypes, NEW server \in Strings \ {""}, NEW port \in Int,
             NEW mtu \in {Nil} \cup Int, NEW timeout \in {Nil} \cup Int, NEW disable \in {Nil} \cup BOOLEAN,
             NEW graphite \in GraphiteParams, NEW influx \in InfluxParams,
             IF type = "graphite" THEN influx = NoInflux ELSE graphite = NoGraphite,
             m = [type |-> type, server |-> server, port |-> port, mtu |-> mtu, timeout |-> timeout,
                  disable |-> disable, graphite |-> graphite, influx |-> influx]
      PROVE  m \in MetricsServers
  <2>1. MetricsServers =
           {s \in [type : MetricsTypes, server : Strings \ {""}, port : Int, mtu : {Nil} \cup Int,
                   timeout : {Nil} \cup Int, disable : {Nil} \cup BOOLEAN,
                   graphite : GraphiteParams, influx : InfluxParams] :
               IF s.type = "graphite" THEN s.influx = NoInflux ELSE s.graphite = NoGraphite}
    BY DEF MetricsServers, GraphiteParams, InfluxParams, Text
  <2> DEFINE Number == {Nil} \cup Int
             Flag == {Nil} \cup BOOLEAN
  <2>2. mtu \in Number /\ timeout \in Number /\ disable \in Flag
    OBVIOUS
  <2> HIDE DEF Number, Flag
  <2>3. m \in [type : MetricsTypes, server : Strings \ {""}, port : Int, mtu : Number, timeout : Number,
               disable : Flag, graphite : GraphiteParams, influx : InfluxParams]
    BY <1>4, <2>2
  <2>4. m.type = type /\ m.influx = influx /\ m.graphite = graphite
    BY <1>4
  <2>5. QED BY <1>4, <2>1, <2>3, <2>4 DEF Number, Flag
<1>5. CASE create
  <2>1. made = r.set
    BY <1>5 DEF MetricsCarry
  <2>2. IF o.type = "graphite" THEN r.set.influx = NoInflux ELSE r.set.graphite = NoGraphite
    <3>1. o.type = "graphite" => r.set.influx = NoInflux
      BY <1>1 DEF GraphiteSent
    <3>2. o.type = "influxdb" => r.set.graphite = NoGraphite
      BY <1>1 DEF InfluxSent
    <3>3. QED BY <1>1, <3>1, <3>2 DEF MetricsTypes
  <2> DEFINE server == r.set.server
             port == r.set.port
             mtu == r.set.mtu
             timeout == r.set.timeout
             disable == r.set.disable
             graphite == r.set.graphite
             influx == r.set.influx
  <2>3. made = [type |-> o.type, server |-> server, port |-> port, mtu |-> mtu, timeout |-> timeout,
                disable |-> disable, graphite |-> graphite, influx |-> influx]
    BY <1>2, <1>3, <1>5, <2>1
  <2>4. /\ server \in Strings \ {""} /\ port \in Int /\ mtu \in Int /\ timeout \in Int
        /\ disable \in BOOLEAN /\ graphite \in GraphiteParams /\ influx \in InfluxParams
        /\ IF o.type = "graphite" THEN influx = NoInflux ELSE graphite = NoGraphite
    BY <1>2, <1>3, <2>2
  <2> HIDE DEF made, server, port, mtu, timeout, disable, graphite, influx
  <2>5. made \in MetricsServers
    BY <1>1, <1>4, <2>3, <2>4
  <2>6. QED BY <2>5 DEF made
<1>6. CASE ~create
  <2>1. i # Nil /\ i \in MetricsServers
    BY <1>6
  <2>2. /\ DOMAIN i = {"type", "server", "port", "mtu", "timeout", "disable", "graphite", "influx"}
        /\ i.type \in MetricsTypes /\ i.graphite \in GraphiteParams /\ i.influx \in InfluxParams
        /\ IF i.type = "graphite" THEN i.influx = NoInflux ELSE i.graphite = NoGraphite
    BY <2>1 DEF MetricsServers, GraphiteParams, InfluxParams, Text
  <2>3. IF i.type = "graphite" THEN r.set.influx = NoInflux ELSE r.set.graphite = NoGraphite
    BY <2>1 DEF MetricsAccepts
  <2> DEFINE graphite == MergeFields(r.set.graphite, r.delete, i.graphite)
             influx == MergeFields(r.set.influx, r.delete, i.influx)
  <2>4. graphite \in GraphiteParams /\ influx \in InfluxParams
    BY <1>2, <2>2, Merged
  <2>5. IF i.type = "graphite" THEN influx = NoInflux ELSE graphite = NoGraphite
    BY <2>2, <2>3, Merged
  <2>6. made = [f \in DOMAIN i |-> CASE f \in {"graphite", "influx"} -> MergeFields(r.set[f], r.delete, i[f])
                                     [] OTHER -> Or(r.set[f], i[f])]
    BY <2>1 DEF MetricsCarry
  <2>7. /\ made.graphite = graphite /\ made.influx = influx
        /\ \A f \in {"type", "server", "port", "mtu", "timeout", "disable"} : made[f] = Or(r.set[f], i[f])
        /\ DOMAIN made = DOMAIN i
    <3> HIDE DEF made
    <3>1. QED BY <2>2, <2>6
  <2>8. made = [type |-> made.type, server |-> made.server, port |-> made.port, mtu |-> made.mtu,
                timeout |-> made.timeout, disable |-> made.disable, graphite |-> graphite, influx |-> influx]
    <3> HIDE DEF made, graphite, influx
    <3> DEFINE value(f) == CASE f \in {"graphite", "influx"} -> MergeFields(r.set[f], r.delete, i[f])
                             [] OTHER -> Or(r.set[f], i[f])
    <3>1. made = [f \in DOMAIN i |-> value(f)]
      BY <2>6
    <3> HIDE DEF value
    <3>2. made = [type |-> value("type"), server |-> value("server"), port |-> value("port"), mtu |-> value("mtu"),
                  timeout |-> value("timeout"), disable |-> value("disable"), graphite |-> value("graphite"),
                  influx |-> value("influx")]
      BY <2>2, <3>1
    <3>3. QED BY <2>7, <3>2
  <2> DEFINE type == made.type
             server == made.server
             port == made.port
             mtu == made.mtu
             timeout == made.timeout
             disable == made.disable
  <2>9. type = i.type
    BY <1>3, <1>6, <2>7 DEF Or
  <2>10. server \in Strings \ {""}
    BY <1>3, <2>7 DEF Or
  <2>11. port \in Int /\ mtu \in Int /\ timeout \in Int
    <3>1. r.set.port # Nil /\ r.set.mtu # Nil /\ r.set.timeout # Nil
      BY <1>3, NilIsNoValue
    <3>2. port = r.set.port /\ mtu = r.set.mtu /\ timeout = r.set.timeout
      BY <2>7, <3>1 DEF Or
    <3>3. QED BY <1>3, <3>2
  <2>12. disable \in BOOLEAN
    <3>1. r.set.disable # Nil
      BY <1>3, NilIsNoValue
    <3>2. disable = r.set.disable
      BY <2>7, <3>1 DEF Or
    <3>3. QED BY <1>3, <3>2
  <2>13. made = [type |-> type, server |-> server, port |-> port, mtu |-> mtu, timeout |-> timeout,
                 disable |-> disable, graphite |-> graphite, influx |-> influx]
    BY <2>8
  <2>14. type \in MetricsTypes /\ IF type = "graphite" THEN influx = NoInflux ELSE graphite = NoGraphite
    BY <2>2, <2>5, <2>9
  <2> HIDE DEF made, type, server, port, mtu, timeout, disable, graphite, influx
  <2>15. made \in MetricsServers
    BY <1>4, <2>4, <2>10, <2>11, <2>12, <2>13, <2>14
  <2>16. QED BY <2>15 DEF made
<1>7. QED BY <1>5, <1>6

\* An object for a metric server that was used is one still (MetricsAfter).
LEMMA UsedMetrics == ASSUME NEW o \in MetricsObjects PROVE MetricsAfter(o) \in MetricsObjects
<1> DEFINE G == {Nil} \cup [path : Strings, proto : Strings]
           X == {Nil} \cup [prefix : Strings, bucket : Strings, body : Int, token : Strings, proto : Strings]
           g == IF o.type # "graphite" THEN Nil ELSE o.graphite
           x == IF o.type = "graphite" THEN Nil ELSE o.influx
<1>1. MetricsObjects = [type : Strings, server : Strings, port : Int, mtu : Int, timeout : Int,
                        enable : BOOLEAN, graphite : G, influx : X]
  BY DEF MetricsObjects
<1>2. MetricsAfter(o) = [o EXCEPT !.graphite = g, !.influx = x]
  BY DEF MetricsAfter
<1>3. Nil \in G /\ Nil \in X
  OBVIOUS
<1> HIDE DEF G, X
<1>4. g \in G /\ x \in X
  BY <1>1, <1>3
<1> HIDE DEF g, x
<1>5. [o EXCEPT !.graphite = g, !.influx = x] \in MetricsObjects
  BY <1>1, <1>4
<1>6. QED BY <1>2, <1>5

\* A metric server that is read is described by an object (MetricsToSdk).
LEMMA ReadMetrics == ASSUME NEW i \in MetricsServers PROVE MetricsToSdk(i) \in MetricsObjects
<1> DEFINE type == i.type
           server == i.server
           port == i.port
           mtu == Or(i.mtu, 1500)
           timeout == Or(i.timeout, 1)
           enable == i.disable # TRUE
           path == Or(i.graphite.path, "proxmox")
           gproto == Or(i.graphite.proto, "udp")
           prefix == Or(i.influx.prefix, "")
           bucket == Or(i.influx.bucket, "proxmox")
           body == Or(i.influx.body, DefaultBody)
           xproto == Or(i.influx.proto, "udp")
           all == [type |-> type, server |-> server, port |-> port, mtu |-> mtu, timeout |-> timeout,
                   enable |-> enable, graphite |-> [path |-> path, proto |-> gproto],
                   influx |-> [prefix |-> prefix, bucket |-> bucket, body |-> body, token |-> "",
                               proto |-> xproto]]
<1>1. MetricsToSdk(i) = MetricsAfter(all)
  BY DEF MetricsToSdk
<1>2. /\ type \in Strings /\ server \in Strings /\ enable \in BOOLEAN
      /\ i.graphite \in GraphiteParams /\ i.influx \in InfluxParams
  BY ServiceItemsAssumption DEF MetricsServers, MetricsTypes, GraphiteParams, InfluxParams, Text
<1>3. DefaultBody \in Int
  BY DEF DefaultBody
<1>4. port \in Int /\ i.mtu \in {Nil} \cup Int /\ i.timeout \in {Nil} \cup Int
  BY DEF MetricsServers
<1>5. mtu \in Int /\ timeout \in Int
  BY <1>4 DEF Or
<1>6. i.influx.body \in {Nil} \cup Int
  BY <1>2 DEF InfluxParams
<1>7. body \in Int
  BY <1>3, <1>6 DEF Or
<1>8. path \in Strings /\ gproto \in Strings
  BY <1>2, ServiceItemsAssumption DEF GraphiteParams, Text, Or
<1>9. /\ i.influx.prefix \in Text /\ i.influx.bucket \in Text /\ i.influx.proto \in {Nil, "udp", "http", "https"}
  BY <1>2 DEF InfluxParams
<1>10. prefix \in Strings /\ bucket \in Strings /\ xproto \in Strings
  BY <1>9, ServiceItemsAssumption DEF Text, Or
<1> HIDE DEF type, server, port, mtu, timeout, enable, path, gproto, prefix, bucket, body, xproto
<1> DEFINE graphite == [path |-> path, proto |-> gproto]
           influx == [prefix |-> prefix, bucket |-> bucket, body |-> body, token |-> "", proto |-> xproto]
           G == {Nil} \cup [path : Strings, proto : Strings]
           X == {Nil} \cup [prefix : Strings, bucket : Strings, body : Int, token : Strings, proto : Strings]
<1>11. graphite \in G /\ influx \in X
  BY <1>7, <1>8, <1>10, ServiceItemsAssumption
<1>12. all = [type |-> type, server |-> server, port |-> port, mtu |-> mtu, timeout |-> timeout,
              enable |-> enable, graphite |-> graphite, influx |-> influx]
  OBVIOUS
<1> HIDE DEF all, graphite, influx, G, X
<1>13. all \in [type : Strings, server : Strings, port : Int, mtu : Int, timeout : Int,
                enable : BOOLEAN, graphite : G, influx : X]
  BY <1>2, <1>4, <1>5, <1>11, <1>12
<1>14. all \in MetricsObjects
  BY <1>13 DEF MetricsObjects, G, X
<1>15. QED BY <1>1, <1>14, UsedMetrics

\* The same of ACME plugins.
LEMMA MadeAcme == ASSUME NEW o \in AcmeObjects, AcmeValid(o) PROVE AcmeToApi(o) \in AcmePlugins
<1>1. o.api \in Strings /\ o.delay \in 0..MaxDelay
  BY DEF AcmeObjects, AcmeValid
<1>2. NonEmpty(o.data) \in Text /\ NonEmpty(o.nodes) \in Text
  BY OptionalAssumption, ServiceItemsAssumption DEF AcmeObjects, NonEmpty, Text
<1>3. (~o.enable) \in {Nil} \cup BOOLEAN
  OBVIOUS
<1> DEFINE data == NonEmpty(o.data)
           nodes == NonEmpty(o.nodes)
           disable == ~o.enable
           delay == o.delay
           Flag == {Nil} \cup BOOLEAN
           Delay == {Nil} \cup 0..MaxDelay
<1>4. AcmeToApi(o) = [api |-> o.api, data |-> data, disable |-> disable, nodes |-> nodes, delay |-> delay]
  BY DEF AcmeToApi
<1>5. disable \in Flag /\ delay \in Delay /\ data \in Text /\ nodes \in Text
  BY <1>1, <1>2, <1>3
<1>6. AcmePlugins = [api : Strings, data : Text, disable : Flag, nodes : Text, delay : Delay]
  BY DEF AcmePlugins, Text
<1> HIDE DEF data, nodes, disable, delay, Flag, Delay
<1>7. QED BY <1>1, <1>4, <1>5, <1>6

\* What is read of an ACME plugin is an object of the SDK.
LEMMA ReadAcme == ASSUME NEW i \in AcmePlugins PROVE AcmeToSdk(i) \in AcmeObjects
<1> DEFINE api == i.api
           data == Or(i.data, "")
           enable == i.disable # TRUE
           delay == Or(i.delay, 30)
           none == ""
<1>1. api \in Strings /\ data \in Strings /\ enable \in BOOLEAN /\ none \in Strings
  BY ServiceItemsAssumption DEF AcmePlugins, Or
<1>2. delay \in Int
  <2>1. i.delay \in {Nil} \cup 0..MaxDelay
    BY DEF AcmePlugins
  <2>2. MaxDelay \in Nat
    BY ConfigItemsAssumption
  <2>3. QED BY <2>1, <2>2 DEF Or
<1>3. AcmeToSdk(i) = [api |-> api, data |-> data, enable |-> enable, nodes |-> none, delay |-> delay]
  BY DEF AcmeToSdk
<1> HIDE DEF api, data, enable, delay, none
<1>4. QED BY <1>1, <1>2, <1>3 DEF AcmeObjects

\* The same of items of the network, whose objects may hold a digest.
LEMMA MadeNetwork ==
  ASSUME NEW k \in SdnKinds, NEW o \in HeldObjects(k), NEW create \in BOOLEAN,
         NEW i, i # Nil => i \in Networks(k), i = Nil => create,
         NEW r, r = SdnToApi(k, o, create)
  PROVE  SdnCarry(k, r, i) \in Networks(k)
<1> USE OptionalAssumption, SdnItemsAssumption
<1>1. /\ o.type \in {Nil} \cup Strings
      /\ o.fields \in [SdnFields(k) -> Strings]
  BY DEF HeldObjects
<1>2. /\ r.type = CASE k \in {"zone", "vnet"} -> Nil
                    [] k = "subnet" -> IF create THEN "subnet" ELSE ""
                    [] k = "dns" -> o.type
      /\ r.set = [f \in SdnFields(k) |-> NonEmpty(o.fields[f])]
  BY DEF SdnToApi
<1>3. r.type \in {Nil} \cup Strings
  BY <1>1, <1>2 DEF SdnKinds
<1>4. \A f \in SdnFields(k) : r.set[f] \in {Nil} \cup (Strings \ {""})
  BY <1>1, <1>2 DEF NonEmpty
<1>5. CASE i = Nil
  <2>1. r.set \in [SdnFields(k) -> {Nil} \cup (Strings \ {""})]
    BY <1>2, <1>4
  <2>2. SdnCarry(k, r, i) = [type |-> r.type, fields |-> r.set]
    BY <1>5 DEF SdnCarry
  <2> DEFINE type == r.type
             fields == r.set
  <2>3. type \in {Nil} \cup Strings /\ fields \in [SdnFields(k) -> {Nil} \cup (Strings \ {""})]
    BY <1>3, <2>1
  <2>4. SdnCarry(k, r, i) = [type |-> type, fields |-> fields]
    BY <2>2
  <2> DEFINE F == [SdnFields(k) -> {Nil} \cup (Strings \ {""})]
             T == {Nil} \cup Strings
  <2>5. Networks(k) = [type : T, fields : F]
    BY DEF Networks
  <2>6. type \in T /\ fields \in F
    BY <2>3
  <2> HIDE DEF type, fields, F, T
  <2>7. QED BY <2>4, <2>5, <2>6
<1>6. CASE i # Nil
  <2>1. i \in Networks(k) /\ i.fields \in [SdnFields(k) -> {Nil} \cup (Strings \ {""})]
    BY <1>6 DEF Networks
  <2> DEFINE fields == [f \in DOMAIN i.fields |-> IF f \in r.delete THEN Nil ELSE Or(r.set[f], i.fields[f])]
  <2>2. fields \in [SdnFields(k) -> {Nil} \cup (Strings \ {""})]
    BY <1>4, <2>1 DEF Or
  <2>3. SdnCarry(k, r, i) = [i EXCEPT !.fields = fields]
    BY <1>6 DEF SdnCarry
  <2> HIDE DEF fields
  <2>4. QED BY <2>1, <2>2, <2>3 DEF Networks
<1>7. QED BY <1>5, <1>6

\* A call on an item of the network leaves the program one of its objects.
LEMMA UsedNetwork ==
  ASSUME NEW k \in SdnKinds, NEW o \in HeldObjects(k)
  PROVE  /\ SdnAfter(k, o) \in HeldObjects(k)
         /\ \A i \in Networks(k) : [o EXCEPT !.digest = i] \in HeldObjects(k)
<1>1. [o EXCEPT !.cidr = "valid"] \in HeldObjects(k)
  BY DEF HeldObjects
<1>2. \A i \in Networks(k) : [o EXCEPT !.digest = i] \in HeldObjects(k)
  BY DEF HeldObjects
<1>3. QED BY <1>1, <1>2 DEF SdnAfter

-----------------------------------------------------------------------------
(* What a call does with an item of each kind.                             *)

\* The kinds are told apart.
LEMMA ByKind ==
  ASSUME kind \in Kinds
  PROVE  /\ Storage \/ kind = "metrics" \/ kind = "acme" \/ kind \in SdnKinds
         /\ Storage => kind \notin Services /\ kind # "metrics" /\ kind # "acme" /\ kind \notin SdnKinds
         /\ kind \in SdnKinds => kind \notin Services /\ kind # "metrics" /\ kind # "acme"
         /\ Parented => kind \in SdnKinds
         /\ kind \in Services <=> kind = "metrics" \/ kind = "acme"
BY ConfigItemsAssumption DEF Storage, StorageTypes, SdnKinds, Services, Parented

\* What the operators of a call are for a storage,
LEMMA OfStorage ==
  ASSUME kind \in Kinds, Storage
  PROVE  /\ HeldObjects(kind) = StorageObjects(kind) /\ ServerItems(kind) = Storages(kind)
         /\ \A o : /\ Valid(o) <=> StorageValid(o, current)
                   /\ Panics(o) <=> StoragePanics(o, current)
                   /\ Used(o) = StorageAfter([o EXCEPT !.enable = @ /\ ~creates], creates)
                   /\ ToApi(o) = StorageToApi([o EXCEPT !.enable = @ /\ ~creates], creates)
         /\ \A r : /\ Carry(r) = StorageCarry(r, item)
                   /\ MayAccept(r) <=> (creates <=> item = Nil)
<1>1. /\ kind \notin Services /\ kind # "metrics" /\ kind # "acme" /\ kind \notin SdnKinds /\ ~Parented
  BY ByKind
<1>2. HeldObjects(kind) = StorageObjects(kind) /\ ServerItems(kind) = Storages(kind)
  BY <1>1 DEF HeldObjects, Objects, ServerItems, Storage
<1>3. \A o : /\ Valid(o) <=> StorageValid(o, current)
             /\ Panics(o) <=> StoragePanics(o, current)
  BY <1>1 DEF Valid, Panics
<1>4. \A o : /\ Used(o) = StorageAfter([o EXCEPT !.enable = @ /\ ~creates], creates)
             /\ ToApi(o) = StorageToApi([o EXCEPT !.enable = @ /\ ~creates], creates)
  BY <1>1 DEF Used, ToApi
<1>5. \A r : /\ Carry(r) = StorageCarry(r, item)
             /\ MayAccept(r) <=> (creates <=> item = Nil)
  BY <1>1 DEF Carry, MayAccept
<1>6. QED BY <1>2, <1>3, <1>4, <1>5

\* for a metric server,
LEMMA OfMetrics ==
  ASSUME kind \in Kinds, kind = "metrics"
  PROVE  /\ HeldObjects(kind) = MetricsObjects /\ ServerItems(kind) = MetricsServers
         /\ \A o : /\ Valid(o) <=> MetricsValid(o)
                   /\ Panics(o) <=> MetricsPanics(o)
                   /\ Used(o) = MetricsAfter(o)
                   /\ ToApi(o) = MetricsToApi(MetricsAfter(o), creates)
         /\ \A r : /\ Carry(r) = MetricsCarry(r, item)
                   /\ MayAccept(r) <=> (creates <=> item = Nil) /\ MetricsAccepts(r, item)
<1>1. kind \notin StorageTypes /\ kind \notin SdnKinds /\ ~Parented /\ ~Storage
  BY DEF StorageTypes, SdnKinds, Storage, Parented
<1>2. HeldObjects(kind) = MetricsObjects /\ ServerItems(kind) = MetricsServers
  BY <1>1 DEF HeldObjects, Objects, ServerItems
<1>3. \A o : (Valid(o) <=> MetricsValid(o)) /\ (Panics(o) <=> MetricsPanics(o))
  BY <1>1 DEF Valid, Panics
<1>4. \A o : Used(o) = MetricsAfter(o) /\ ToApi(o) = MetricsToApi(MetricsAfter(o), creates)
  BY <1>1 DEF Used, ToApi
<1>5. \A r : /\ Carry(r) = MetricsCarry(r, item)
             /\ MayAccept(r) <=> (creates <=> item = Nil) /\ MetricsAccepts(r, item)
  BY <1>1 DEF Carry, MayAccept
<1>6. QED BY <1>2, <1>3, <1>4, <1>5

\* for an ACME plugin,
LEMMA OfAcme ==
  ASSUME kind \in Kinds, kind = "acme"
  PROVE  /\ HeldObjects(kind) = AcmeObjects /\ ServerItems(kind) = AcmePlugins
         /\ \A o : /\ Valid(o) <=> AcmeValid(o)
                   /\ ~Panics(o)
                   /\ Used(o) = o
                   /\ ToApi(o) = AcmeToApi(o)
         /\ \A r : Carry(r) = r /\ (MayAccept(r) <=> (creates <=> item = Nil))
<1>1. kind \notin StorageTypes /\ kind \notin SdnKinds /\ ~Parented /\ ~Storage /\ kind # "metrics"
  BY DEF StorageTypes, SdnKinds, Storage, Parented
<1>2. HeldObjects(kind) = AcmeObjects /\ ServerItems(kind) = AcmePlugins
  BY <1>1 DEF HeldObjects, Objects, ServerItems
<1>3. \A o : (Valid(o) <=> AcmeValid(o)) /\ ~Panics(o)
  BY <1>1 DEF Valid, Panics
<1>4. \A o : Used(o) = o /\ ToApi(o) = AcmeToApi(o)
  BY <1>1 DEF Used, ToApi
<1>5. \A r : Carry(r) = r /\ (MayAccept(r) <=> (creates <=> item = Nil))
  BY <1>1 DEF Carry, MayAccept
<1>6. QED BY <1>2, <1>3, <1>4, <1>5

\* and for an item of the network.
LEMMA OfSdn ==
  ASSUME kind \in Kinds, kind \in SdnKinds
  PROVE  /\ ServerItems(kind) = Networks(kind)
         /\ \A o : /\ Valid(o) <=> SdnValid(kind, o, creates)
                   /\ ~Panics(o)
                   /\ Used(o) = SdnAfter(kind, o)
                   /\ ToApi(o) = SdnToApi(kind, o, creates)
         /\ \A r : /\ Carry(r) = SdnCarry(kind, r, item)
                   /\ MayAccept(r) <=> /\ creates <=> item = Nil
                                       /\ SdnAccepts(kind, r, item)
                                       /\ Parented => parent
<1>1. kind \notin StorageTypes /\ ~Storage /\ kind # "metrics" /\ kind # "acme"
  BY DEF StorageTypes, SdnKinds, Storage
<1>2. ServerItems(kind) = Networks(kind)
  BY <1>1 DEF ServerItems
<1>3. \A o : (Valid(o) <=> SdnValid(kind, o, creates)) /\ ~Panics(o)
  BY <1>1 DEF Valid, Panics
<1>4. \A o : Used(o) = SdnAfter(kind, o) /\ ToApi(o) = SdnToApi(kind, o, creates)
  BY <1>1 DEF Used, ToApi
<1>5. \A r : /\ Carry(r) = SdnCarry(kind, r, item)
             /\ MayAccept(r) <=> /\ creates <=> item = Nil
                                 /\ SdnAccepts(kind, r, item)
                                 /\ Parented => parent
  BY <1>1 DEF Carry, MayAccept
<1>6. QED BY <1>2, <1>3, <1>4, <1>5

\* An object with another "enable" is the same otherwise.
LEMMA EnableOnly ==
  ASSUME NEW t \in StorageTypes, NEW o \in StorageObjects(t), NEW e \in BOOLEAN
  PROVE  /\ [o EXCEPT !.enable = e] \in StorageObjects(t)
         /\ [o EXCEPT !.enable = e].type = o.type /\ [o EXCEPT !.enable = e].enable = e
         /\ [o EXCEPT !.enable = e].nodes = o.nodes /\ [o EXCEPT !.enable = e].content = o.content
         /\ [o EXCEPT !.enable = e].keep = o.keep /\ [o EXCEPT !.enable = e].spec = o.spec
<1> DEFINE C == {Nil} \cup SUBSET Strings
           S == {Nil} \cup Specs(t)
           a == [o EXCEPT !.enable = e]
<1>1. o \in [type : Strings, enable : BOOLEAN, nodes : Strings, content : C, keep : Retentions, spec : S]
      /\ (o.type \in StorageTypes => o.type \in {t, ApiType(t)})
  BY DEF StorageObjects
<1> HIDE DEF C, S
<1>2. /\ a \in [type : Strings, enable : BOOLEAN, nodes : Strings, content : C, keep : Retentions, spec : S]
      /\ a.type = o.type /\ a.enable = e /\ a.nodes = o.nodes /\ a.content = o.content
      /\ a.keep = o.keep /\ a.spec = o.spec
  BY <1>1
<1> HIDE DEF a
<1>3. a \in StorageObjects(t)
  BY <1>1, <1>2 DEF StorageObjects, C, S
<1>4. QED BY <1>2, <1>3 DEF a

\* The object of a call that writes is fit for it.
LEMMA Sendable ==
  ASSUME TypeOK, Placed, Compared, Checked, pc = "write", op # "delete"
  PROVE  /\ Storage => /\ obj \in StorageObjects(kind) /\ obj.type = kind /\ obj.keep # "part"
                       /\ obj.spec # Nil => obj.spec \in Specs(kind) /\ SpecValid(kind, obj.spec, current)
                       /\ creates => current = Nil /\ obj.spec # Nil
                       /\ ~creates => current # Nil
         /\ kind = "metrics" => obj \in MetricsObjects /\ MetricsValid(obj) /\ ~MetricsPanics(obj)
         /\ kind = "acme" => obj \in AcmeObjects /\ AcmeValid(obj)
         /\ kind \in SdnKinds => obj \in HeldObjects(kind)
<1>1. kind \in Kinds /\ obj \in HeldObjects(kind) /\ Valid(obj) /\ ~Panics(obj)
  BY DEF TypeOK, Checked
<1>2. ASSUME Storage
      PROVE  /\ obj \in StorageObjects(kind) /\ obj.type = kind /\ obj.keep # "part"
             /\ obj.spec # Nil => obj.spec \in Specs(kind) /\ SpecValid(kind, obj.spec, current)
             /\ creates => current = Nil /\ obj.spec # Nil
             /\ ~creates => current # Nil
  <2>1. kind \notin Services
    BY <1>1, <1>2, ByKind
  <2>2. op \in {"create", "update"} /\ (creates <=> op = "create")
    BY <2>1 DEF TypeOK, Ops, Placed, Busy
  <2>3. (creates => current = Nil) /\ (~creates => current # Nil /\ current.type = kind)
    BY <1>2, <2>2 DEF Compared
  <2>4. obj \in StorageObjects(kind) /\ StorageValid(obj, current) /\ kind \in StorageTypes
    BY <1>1, <1>2, OfStorage DEF Storage
  <2>5. current # Nil => current.type = kind
    BY <2>3
  <2>6. QED BY <2>3, <2>4, <2>5, ValidObject
<1>3. kind = "metrics" => obj \in MetricsObjects /\ MetricsValid(obj) /\ ~MetricsPanics(obj)
  BY <1>1, OfMetrics
<1>4. kind = "acme" => obj \in AcmeObjects /\ AcmeValid(obj)
  BY <1>1, OfAcme
<1>5. QED BY <1>1, <1>2, <1>3, <1>4

\* What the server makes of a request is an item.
LEMMA Makes ==
  ASSUME TypeOK, Placed, Compared, Checked, pc = "write", op # "delete", MayAccept(ToApi(obj))
  PROVE  Carry(ToApi(obj)) \in ServerItems(kind)
<1> DEFINE r == ToApi(obj)
<1>1. /\ kind \in Kinds /\ creates \in BOOLEAN /\ item \in {Nil} \cup ServerItems(kind)
      /\ creates <=> item = Nil
  BY DEF TypeOK, MayAccept
<1>2. CASE Storage
  <2> DEFINE o == [obj EXCEPT !.enable = @ /\ ~creates]
             e == obj.enable /\ ~creates
  <2>1. /\ obj \in StorageObjects(kind) /\ obj.type = kind
        /\ obj.spec # Nil => SpecValid(kind, obj.spec, current)
        /\ creates => obj.spec # Nil
        /\ kind \in StorageTypes \cap Kinds
    BY <1>1, <1>2, Sendable DEF Storage
  <2>2. o = [obj EXCEPT !.enable = e] /\ e \in BOOLEAN
    OBVIOUS
  <2> HIDE DEF e, o
  <2>3. o \in StorageObjects(kind) /\ o.type = kind /\ o.spec = obj.spec
    BY <2>1, <2>2, EnableOnly
  <2>4. IF creates THEN item = Nil /\ o.spec # Nil ELSE item # Nil /\ item \in Storages(kind)
    BY <1>1, <1>2, <2>1, <2>3, OfStorage
  <2>5. StorageCarry(StorageToApi(o, creates), item) \in Storages(kind)
    BY <1>1, <2>1, <2>3, <2>4, MadeStorage
  <2>6. QED BY <1>1, <1>2, <2>5, OfStorage DEF o
<1>3. CASE kind = "metrics"
  <2>1. obj \in MetricsObjects /\ MetricsValid(obj) /\ ~MetricsPanics(obj)
    BY <1>3, Sendable
  <2>2. r = MetricsToApi(MetricsAfter(obj), creates) /\ MetricsAccepts(r, item)
        /\ Carry(r) = MetricsCarry(r, item) /\ ServerItems(kind) = MetricsServers
    BY <1>1, <1>3, OfMetrics
  <2>3. IF creates THEN item = Nil ELSE item # Nil /\ item \in MetricsServers
    BY <1>1, <2>2
  <2> HIDE DEF r
  <2>4. MetricsCarry(r, item) \in MetricsServers
    BY <1>1, <2>1, <2>2, <2>3, MadeMetrics
  <2>5. QED BY <2>2, <2>4 DEF r
<1>4. CASE kind = "acme"
  BY <1>1, <1>4, Sendable, OfAcme, MadeAcme
<1>5. CASE kind \in SdnKinds
  <2>1. obj \in HeldObjects(kind)
    BY <1>5, Sendable
  <2>2. r = SdnToApi(kind, obj, creates) /\ Carry(r) = SdnCarry(kind, r, item)
        /\ ServerItems(kind) = Networks(kind)
    BY <1>1, <1>5, OfSdn
  <2> HIDE DEF r
  <2>3. SdnCarry(kind, r, item) \in Networks(kind)
    BY <1>1, <1>5, <2>1, <2>2, MadeNetwork
  <2>4. QED BY <2>2, <2>3 DEF r
<1>6. QED BY <1>1, <1>2, <1>3, <1>4, <1>5, ByKind

\* What the call leaves of the object is an object.
LEMMA Uses ==
  ASSUME TypeOK, Placed, Compared, Checked, pc = "write", op # "delete"
  PROVE  Used(obj) \in HeldObjects(kind)
<1>1. kind \in Kinds /\ creates \in BOOLEAN
  BY DEF TypeOK
<1>2. CASE Storage
  <2> DEFINE o == [obj EXCEPT !.enable = @ /\ ~creates]
             e == obj.enable /\ ~creates
  <2>1. obj \in StorageObjects(kind) /\ obj.type = kind /\ kind \in StorageTypes \cap Kinds
    BY <1>1, <1>2, Sendable DEF Storage
  <2>2. o = [obj EXCEPT !.enable = e] /\ e \in BOOLEAN
    OBVIOUS
  <2> HIDE DEF e, o
  <2>3. StorageAfter(o, creates) \in StorageObjects(kind)
    BY <1>1, <2>1, <2>2, UsedStorage
  <2>4. QED BY <1>1, <1>2, <2>3, OfStorage DEF o
<1>3. CASE kind = "metrics"
  BY <1>1, <1>3, Sendable, OfMetrics, UsedMetrics
<1>4. CASE kind = "acme"
  BY <1>1, <1>4, Sendable, OfAcme
<1>5. CASE kind \in SdnKinds
  BY <1>1, <1>5, Sendable, OfSdn, UsedNetwork
<1>6. QED BY <1>1, <1>2, <1>3, <1>4, <1>5, ByKind

\* So is what the program reads.
LEMMA Loads ==
  ASSUME TypeOK, item # Nil, Storage => ~StorageUnreadable(item)
  PROVE  /\ Storage => StorageToSdk(item) \in HeldObjects(kind)
         /\ kind = "metrics" => MetricsToSdk(item) \in HeldObjects(kind)
         /\ kind = "acme" => AcmeToSdk(item) \in HeldObjects(kind)
         /\ kind \in SdnKinds => [obj EXCEPT !.digest = item] \in HeldObjects(kind)
<1>1. kind \in Kinds /\ item \in ServerItems(kind) /\ obj \in HeldObjects(kind)
  BY DEF TypeOK
<1>2. Storage => StorageToSdk(item) \in HeldObjects(kind)
  BY <1>1, OfStorage, ReadStorage DEF Storage
<1>3. kind = "metrics" => MetricsToSdk(item) \in HeldObjects(kind)
  BY <1>1, OfMetrics, ReadMetrics
<1>4. kind = "acme" => AcmeToSdk(item) \in HeldObjects(kind)
  BY <1>1, OfAcme, ReadAcme
<1>5. kind \in SdnKinds => [obj EXCEPT !.digest = item] \in HeldObjects(kind)
  BY <1>1, OfSdn, UsedNetwork
<1>6. QED BY <1>2, <1>3, <1>4, <1>5

-----------------------------------------------------------------------------
(* The steps.                                                              *)

\* What a program or another may start with.
LEMMA MayBe ==
  ASSUME kind \in Kinds
  PROVE  /\ Items(kind) \cup Foreign(kind) \subseteq ServerItems(kind)
         /\ Asked(kind) \subseteq HeldObjects(kind)
         /\ Nil \notin ServerItems(kind)
<1>1. /\ Items(kind) \cup Foreign(kind) \subseteq ServerItems(kind) /\ Asked(kind) \subseteq Objects(kind)
      /\ Nil \notin ServerItems(kind)
  BY ConfigItemsAssumption, NilAssumption
<1>2. Objects(kind) \subseteq HeldObjects(kind)
  <2>1. CASE kind \in SdnKinds
    <3>1. Objects(kind) = SdnObjects(kind)
      BY <2>1, ByKind DEF Objects, Storage
    <3>2. SdnObjects(kind) \subseteq HeldObjects(kind)
      BY <2>1 DEF SdnObjects, HeldObjects
    <3>3. QED BY <3>1, <3>2
  <2>2. CASE kind \notin SdnKinds
    BY <2>2 DEF HeldObjects
  <2>3. QED BY <2>1, <2>2
<1>3. QED BY <1>1, <1>2

\* An item that is enabled is an item.
LEMMA StaysStorage ==
  ASSUME NEW t \in StorageTypes, NEW i \in Storages(t)
  PROVE  [i EXCEPT !.disable = "0"] \in Storages(t) /\ [i EXCEPT !.disable = "0"].disable = "0"
BY DEF Storages

\* Every variable keeps its type.
LEMMA TypeStep == IInv /\ [Next]_vars => TypeOK'
<1> SUFFICES ASSUME IInv, [Next]_vars PROVE TypeOK'
  OBVIOUS
<1>0. TypeOK /\ Placed /\ Compared /\ Checked /\ kind \in Kinds
  BY DEF IInv, TypeOK
<1> USE <1>0
<1>1. ASSUME Load PROVE TypeOK'
  <2>1. /\ UNCHANGED <<kind, item, parent, op, creates, calls, others, faults>>
        /\ obj' \in HeldObjects(kind) /\ basis' \in {basis, item}
    <3>1. CASE Storage /\ StorageUnreadable(item)
      BY <1>1, <3>1 DEF Load, object, call, TypeOK
    <3>2. CASE ~(Storage /\ StorageUnreadable(item))
      <4>1. /\ item # Nil /\ basis' = item
            /\ UNCHANGED <<kind, item, parent, op, creates, calls, others, faults>>
            /\ obj' = CASE Storage -> StorageToSdk(item)
                        [] kind = "metrics" -> MetricsToSdk(item)
                        [] kind = "acme" -> AcmeToSdk(item)
                        [] OTHER -> [obj EXCEPT !.digest = item]
        BY <1>1, <3>2 DEF Load, call
      <4>2. obj' \in HeldObjects(kind)
        BY <3>2, <4>1, Loads, ByKind
      <4>3. QED BY <4>1, <4>2
    <3>3. QED BY <3>1, <3>2
  <2>2. QED BY <2>1 DEF TypeOK
<1>2. ASSUME Call PROVE TypeOK'
  <2>1. /\ UNCHANGED <<kind, item, parent, obj, basis, others, faults>>
        /\ calls' = calls + 1 /\ creates' \in BOOLEAN
        /\ op' \in {"delete"} \cup IF kind \in Services THEN {"set"} ELSE {"create", "update"}
    BY <1>2 DEF Call, object
  <2>2. QED BY <2>1 DEF TypeOK, Ops
<1>3. ASSUME ListFails PROVE TypeOK'
  BY <1>3 DEF ListFails, TypeOK, object, call
<1>4. ASSUME Parent PROVE TypeOK'
  BY <1>4 DEF Parent, TypeOK, object, call
<1>5. ASSUME List PROVE TypeOK'
  BY <1>5 DEF List, TypeOK, object
<1>6. ASSUME Current PROVE TypeOK'
  BY <1>6 DEF Current, TypeOK, object
<1>7. ASSUME Check PROVE TypeOK'
  BY <1>7 DEF Check, TypeOK, object, call
<1>8. ASSUME Write PROVE TypeOK'
  <2>1. /\ UNCHANGED <<kind, parent, basis, op, creates, calls, others>> /\ pc = "write"
        /\ faults' \in {faults, faults + 1}
    BY <1>8 DEF Write, Answered, Return
  <2>2. item' \in {Nil} \cup ServerItems(kind) /\ obj' \in HeldObjects(kind)
    <3>1. CASE op = "delete"
      BY <1>8, <3>1 DEF Write, Answered, TypeOK
    <3>2. CASE op # "delete"
      <4>1. /\ obj' = Used(obj)
            /\ item' \in {item} \cup IF MayAccept(ToApi(obj)) THEN {Carry(ToApi(obj))} ELSE {}
        BY <1>8, <3>2 DEF Write, Answered
      <4>2. QED BY <2>1, <3>2, <4>1, Makes, Uses DEF TypeOK
    <3>3. QED BY <3>1, <3>2
  <2>3. QED BY <2>1, <2>2 DEF TypeOK
<1>9. ASSUME Enable PROVE TypeOK'
  <2>1. /\ UNCHANGED <<kind, parent, obj, basis, op, creates, calls, others>> /\ pc = "enable"
        /\ faults' \in {faults, faults + 1}
        /\ item' \in {item} \cup IF item # Nil THEN {[item EXCEPT !.disable = "0"]} ELSE {}
    BY <1>9 DEF Enable, Answered, Return, object
  <2>2. item' \in {Nil} \cup ServerItems(kind)
    <3>1. Storage
      BY <2>1 DEF Placed
    <3>2. QED BY <2>1, <3>1, OfStorage, StaysStorage DEF TypeOK, Storage
  <2>3. QED BY <2>1, <2>2 DEF TypeOK
<1>10. ASSUME Other PROVE TypeOK'
  <2>1. UNCHANGED <<kind, obj, basis, op, creates, calls, faults>> /\ others' = others + 1
    BY <1>10 DEF Other, object, call
  <2>2. item' \in {Nil} \cup ServerItems(kind) /\ parent' \in BOOLEAN
    BY <1>10, MayBe DEF Other, TypeOK
  <2>3. QED BY <2>1, <2>2 DEF TypeOK
<1>11. CASE UNCHANGED vars
  BY <1>11 DEF vars, TypeOK, object, call
<1>12. QED
  BY <1>1, <1>2, <1>3, <1>4, <1>5, <1>6, <1>7, <1>8, <1>9, <1>10, <1>11 DEF Next

\* A call goes from one place to the next.
LEMMA PlacedStep == IInv /\ [Next]_vars => Placed'
<1> SUFFICES ASSUME IInv, [Next]_vars PROVE Placed'
  OBVIOUS
<1>0. /\ Placed /\ op \in Ops(kind) /\ kind \in Kinds /\ calls \in Nat
      /\ kind \notin Services => op # "set"
      /\ kind \in Services => op \notin {"create", "update"}
  BY ByKind DEF IInv, TypeOK, Ops
<1> USE <1>0
<1>1. ASSUME Load PROVE Placed'
  <2>1. /\ UNCHANGED <<kind, creates, op, calls>> /\ calls = 0 /\ op = "none"
        /\ pc' = "done" \/ (pc' = "idle" /\ result' = "none")
    BY <1>1 DEF Load, Crash, Return, call, Placed
  <2>2. QED BY <2>1 DEF Placed, Busy
<1>2. ASSUME Call PROVE Placed'
  <2>1. /\ UNCHANGED <<kind, obj>> /\ calls' # 0 /\ asked' = obj /\ creates' = (op' = "create")
        /\ op' \in {"delete"} \cup IF kind \in Services THEN {"set"} ELSE {"create", "update"}
        /\ \/ op' = "delete" /\ pc' = "write" /\ result' = "none"
           \/ pc' = "done"
           \/ op' # "delete" /\ pc' = (IF kind = "subnet" THEN "parent" ELSE "list") /\ result' = "none"
    BY <1>2 DEF Call, object, Crash, Return
  <2>2. QED BY <2>1 DEF Placed, Busy, Parented, Services
<1>3. ASSUME ListFails PROVE Placed'
  BY <1>3 DEF ListFails, Placed, Busy, Crash, Return, call
<1>4. ASSUME Parent PROVE Placed'
  <2>1. /\ UNCHANGED <<kind, obj, asked, creates, op, calls>> /\ pc = "parent" /\ op # "delete"
        /\ \/ pc' = "done"
           \/ pc' \in {"list", "check"} /\ result' = "none"
    BY <1>4 DEF Parent, Return, object, call, Placed, Busy
  <2>2. kind \notin Services
    BY <2>1, ByKind DEF Placed
  <2>3. QED BY <2>1, <2>2 DEF Placed, Busy
<1>5. ASSUME List PROVE Placed'
  <2>1. /\ UNCHANGED <<kind, obj, asked, op, calls>> /\ pc = "list"
        /\ op \notin {"delete", "none"} /\ result = "none"
        /\ creates' = IF op = "set" THEN item = Nil ELSE creates
        /\ \/ pc' = "done"
           \/ /\ result' = "none"
              /\ \/ op = "set" /\ pc' = "write"
                 \/ op # "set" /\ kind = "vnet" /\ pc' = "parent"
                 \/ op = "update" /\ Storage /\ pc' = "current"
                 \/ op # "set" /\ pc' = "check"
    <3>1. kind = "vnet" => op # "set" /\ ~Storage
      BY ByKind DEF Parented
    <3>2. QED BY <1>5, <3>1 DEF List, Return, Crash, object, Placed, Busy
  <2>2. QED BY <2>1, ByKind DEF Placed, Busy, Parented, Ops, Storage
<1>6. ASSUME Current PROVE Placed'
  <2>1. /\ UNCHANGED <<kind, obj, asked, creates, op, calls>> /\ pc = "current"
        /\ pc' = "done" \/ (pc' = "check" /\ result' = result)
    BY <1>6 DEF Current, Return, Crash, object
  <2>2. QED BY <2>1, ByKind DEF Placed, Busy, Parented, Ops, Storage
<1>7. ASSUME Check PROVE Placed'
  <2>1. /\ UNCHANGED <<kind, obj, asked, creates, op, calls>> /\ pc = "check"
        /\ pc' = "done" \/ (pc' = "write" /\ result' = result)
    BY <1>7 DEF Check, Return, Crash, object, call
  <2>2. QED BY <2>1 DEF Placed, Busy
<1>8. ASSUME Write PROVE Placed'
  <2>1. /\ UNCHANGED <<kind, asked, creates, op, calls>> /\ pc = "write"
        /\ \/ pc' = "done"
           \/ pc' = "enable" /\ op # "delete" /\ Storage /\ creates
    BY <1>8 DEF Write, Answered, Return
  <2>2. QED BY <2>1, ByKind DEF Placed, Busy, Storage
<1>9. ASSUME Enable PROVE Placed'
  BY <1>9 DEF Enable, Answered, Return, Placed, Busy
<1>10. ASSUME Other PROVE Placed'
  BY <1>10 DEF Other, object, call, Placed, Busy, Parented, Storage
<1>11. CASE UNCHANGED vars
  BY <1>11 DEF vars, object, call, Placed, Busy, Parented, Storage
<1>12. QED
  BY <1>1, <1>2, <1>3, <1>4, <1>5, <1>6, <1>7, <1>8, <1>9, <1>10, <1>11 DEF Next

\* An update of a storage has read it before it is checked.
LEMMA ComparedStep == IInv /\ [Next]_vars => Compared'
<1> SUFFICES ASSUME IInv, [Next]_vars PROVE Compared'
  OBVIOUS
<1>0. TypeOK /\ Placed /\ Compared /\ kind \in Kinds
  BY DEF IInv, TypeOK
<1> USE <1>0
<1>1. ASSUME Load PROVE Compared'
  BY <1>1 DEF Load, Crash, Return, call, Compared, Storage
<1>2. ASSUME Call PROVE Compared'
  <2>1. current' = Nil /\ (op' # "delete" => pc' \in {"done", "parent", "list"})
    BY <1>2 DEF Call, Crash, Return
  <2>2. QED BY <2>1 DEF Compared
<1>3. ASSUME ListFails PROVE Compared'
  BY <1>3 DEF ListFails, Crash, Return, call, Compared
<1>4. ASSUME Parent PROVE Compared'
  <2>1. UNCHANGED <<kind, op, current>> /\ pc = "parent"
    BY <1>4 DEF Parent, call
  <2>2. QED BY <2>1, ByKind DEF Placed, Compared, Storage
<1>5. ASSUME List PROVE Compared'
  <2>1. UNCHANGED <<kind, op, current>> /\ (Storage /\ op = "update" => pc' \in {"done", "current"})
    BY <1>5, ByKind DEF List, Crash, Return, Parented, Storage
  <2>2. QED BY <2>1 DEF Compared, Storage
<1>6. ASSUME Current PROVE Compared'
  <2>1. /\ UNCHANGED <<kind, op>> /\ pc = "current" /\ Storage /\ op = "update"
        /\ \/ pc' = "done"
           \/ item # Nil /\ ~StorageUnreadable(item) /\ current' = StorageToSdk(item)
    BY <1>6 DEF Current, Crash, Return, Placed
  <2>2. ASSUME item # Nil, ~StorageUnreadable(item)
        PROVE  StorageToSdk(item) # Nil /\ StorageToSdk(item).type = kind
    <3>1. item \in Storages(kind) /\ kind \in StorageTypes
      BY <2>1, <2>2, OfStorage DEF TypeOK, Storage
    <3>2. StorageToSdk(item) \in Objects(kind)
      BY <2>2, <3>1, ReadStorage, OfStorage, ByKind DEF HeldObjects, Storage
    <3>3. Nil \notin Objects(kind)
      BY NilAssumption
    <3>4. StorageToSdk(item).type = kind
      BY <3>1, TypeRead DEF StorageToSdk, Storages
    <3>5. QED BY <3>2, <3>3, <3>4
  <2>3. QED BY <2>1, <2>2 DEF Compared
<1>7. ASSUME Check PROVE Compared'
  BY <1>7 DEF Check, Crash, Return, call, Compared, Storage
<1>8. ASSUME Write PROVE Compared'
  BY <1>8 DEF Write, Answered, Return, Compared
<1>9. ASSUME Enable PROVE Compared'
  BY <1>9 DEF Enable, Answered, Return, Compared
<1>10. ASSUME Other PROVE Compared'
  BY <1>10 DEF Other, object, call, Compared, Storage
<1>11. CASE UNCHANGED vars
  BY <1>11 DEF vars, object, call, Compared, Storage
<1>12. QED
  BY <1>1, <1>2, <1>3, <1>4, <1>5, <1>6, <1>7, <1>8, <1>9, <1>10, <1>11 DEF Next

\* Nothing is written that was not found to be valid.
LEMMA CheckedStep == IInv /\ [Next]_vars => Checked'
<1> SUFFICES ASSUME IInv, [Next]_vars PROVE Checked'
  OBVIOUS
<1>0. TypeOK /\ Placed /\ Checked /\ kind \in Kinds
  BY DEF IInv, TypeOK
<1> USE <1>0

\* What is found of a metric server or an ACME plugin does not depend on more.
<1>a. ASSUME kind \in Services, UNCHANGED <<kind, obj>>, Valid(obj), ~Panics(obj)
      PROVE  Valid(obj)' /\ ~Panics(obj)'
  BY <1>a, ByKind DEF Valid, Panics, Storage
<1>b. ASSUME UNCHANGED <<kind, obj, current, creates>>, Valid(obj), ~Panics(obj)
      PROVE  Valid(obj)' /\ ~Panics(obj)'
  BY <1>b DEF Valid, Panics, Storage
<1>1. ASSUME Load PROVE Checked'
  BY <1>1 DEF Load, Crash, Return, Checked
<1>2. ASSUME Call PROVE Checked'
  <2>1. /\ UNCHANGED <<kind, obj>>
        /\ op' # "delete" /\ pc' \in {"write", "list"} /\ kind \in Services => Valid(obj) /\ ~Panics(obj)
        /\ op' # "delete" => pc' # "write"
    BY <1>2 DEF Call, Crash, Return, object
  <2>2. QED BY <1>a, <2>1 DEF Checked
<1>3. ASSUME ListFails PROVE Checked'
  BY <1>3 DEF ListFails, Crash, Return, Checked
<1>4. ASSUME Parent PROVE Checked'
  <2>1. pc' # "write" /\ pc = "parent" /\ kind' = kind
    BY <1>4 DEF Parent, Return
  <2>2. QED BY <2>1, ByKind DEF Checked, Placed
<1>5. ASSUME List PROVE Checked'
  <2>1. /\ UNCHANGED <<kind, obj, op>> /\ pc = "list" /\ pc' # "list"
        /\ pc' = "write" => op = "set"
    BY <1>5 DEF List, Crash, Return, object
  <2>2. op = "set" => kind \in Services
    BY DEF TypeOK, Ops
  <2>3. QED BY <1>a, <2>1, <2>2 DEF Checked
<1>6. ASSUME Current PROVE Checked'
  BY <1>6 DEF Current, Crash, Return, Checked
<1>7. ASSUME Check PROVE Checked'
  <2>1. /\ UNCHANGED <<kind, obj, current, creates>>
        /\ pc' = "done" \/ (pc' = "write" /\ Valid(obj) /\ ~Panics(obj))
    BY <1>7 DEF Check, Crash, Return, object, call
  <2>2. QED BY <1>b, <2>1 DEF Checked
<1>8. ASSUME Write PROVE Checked'
  BY <1>8 DEF Write, Answered, Return, Checked
<1>9. ASSUME Enable PROVE Checked'
  BY <1>9 DEF Enable, Answered, Return, Checked
<1>10. ASSUME Other PROVE Checked'
  <2>1. UNCHANGED <<kind, obj, current, creates, op, pc>>
    BY <1>10 DEF Other, object, call
  <2>2. QED BY <1>b, <2>1 DEF Checked
<1>11. CASE UNCHANGED vars
  <2>1. UNCHANGED <<kind, obj, current, creates, op, pc>>
    BY <1>11 DEF vars, object, call
  <2>2. QED BY <1>b, <2>1 DEF Checked
<1>12. QED
  BY <1>1, <1>2, <1>3, <1>4, <1>5, <1>6, <1>7, <1>8, <1>9, <1>10, <1>11 DEF Next

\* A storage that is created disabled is, once it is enabled, as it would have
\* been created.
LEMMA EnabledLater ==
  ASSUME NEW t \in StorageTypes, NEW o \in StorageObjects(t), o.enable
  PROVE  [StorageCarry(StorageToApi([o EXCEPT !.enable = FALSE], TRUE), Nil) EXCEPT !.disable = "0"]
         = StorageCarry(StorageToApi(o, TRUE), Nil)
<1> DEFINE a == [o EXCEPT !.enable = FALSE]
<1>1. /\ a.type = o.type /\ a.nodes = o.nodes /\ a.content = o.content
      /\ a.keep = o.keep /\ a.spec = o.spec /\ a.enable = FALSE
  BY EnableOnly
<1> HIDE DEF a
<1> DEFINE r == StorageToApi(a, TRUE)
           s == StorageToApi(o, TRUE)
<1>2. SentFields(a, TRUE) = SentFields(o, TRUE) /\ MapContent(a) = MapContent(o)
  BY <1>1 DEF SentFields, MapContent
<1>3. \A f : SentField(a, f) = SentField(o, f)
  BY <1>1 DEF SentField
<1>4. r.type = s.type /\ r.nodes = s.nodes /\ r.content = s.content /\ r.prune = s.prune /\ r.params = s.params
  BY <1>1, <1>2, <1>3 DEF StorageToApi
<1>5. s.disable = "0"
  BY DEF StorageToApi
<1> HIDE DEF r, s
<1>6. /\ StorageCarry(r, Nil) = [type |-> r.type, disable |-> r.disable, nodes |-> r.nodes,
                                 content |-> r.content, prune |-> r.prune, params |-> r.params]
      /\ StorageCarry(s, Nil) = [type |-> s.type, disable |-> s.disable, nodes |-> s.nodes,
                                 content |-> s.content, prune |-> s.prune, params |-> s.params]
  BY DEF StorageCarry
<1>7. [StorageCarry(r, Nil) EXCEPT !.disable = "0"] = StorageCarry(s, Nil)
  BY <1>4, <1>5, <1>6
<1>8. QED BY <1>7 DEF r, s, a

\* What a write that is carried out leaves, item by item.
LEMMA WriteStep ==
  ASSUME TypeOK, Placed, Compared, Checked, pc = "write", op # "delete", MayAccept(ToApi(obj)),
         UNCHANGED <<kind, op, asked, creates, current>>,
         at' = item, left' = Carry(ToApi(obj))
  PROVE  /\ Storage /\ creates /\ obj.enable => StorageCreated'
         /\ Storage /\ ~(creates /\ obj.enable) => StorageWritten'
         /\ kind = "metrics" => MetricsWritten'
         /\ kind = "acme" => AcmeWritten'
         /\ kind \in SdnKinds => SdnWritten'
<1>1. /\ kind \in Kinds /\ creates \in BOOLEAN /\ item \in {Nil} \cup ServerItems(kind)
      /\ creates <=> item = Nil
  BY DEF TypeOK, MayAccept
<1>2. asked' = obj /\ asked = obj
  BY DEF Placed, Busy
<1>3. ASSUME Storage PROVE StorageSent' /\ kind \in StorageTypes /\ obj \in StorageObjects(kind)
  <2>1. kind \in StorageTypes \cap Kinds /\ item \in {Nil} \cup Storages(kind)
    BY <1>1, <1>3, OfStorage DEF Storage
  <2>2. /\ obj \in StorageObjects(kind) /\ obj.type = kind /\ obj.keep # "part"
        /\ obj.spec # Nil => obj.spec \in Specs(kind) /\ SpecValid(kind, obj.spec, current)
        /\ creates => current = Nil /\ obj.spec # Nil
        /\ ~creates => current # Nil
    BY <1>3, Sendable
  <2>3. QED BY <1>1, <1>2, <2>1, <2>2 DEF StorageSent
<1>4. ASSUME Storage, ~(creates /\ obj.enable) PROVE StorageWritten'
  <2>1. obj.enable \in BOOLEAN /\ (obj.enable /\ ~creates) = obj.enable
    BY <1>1, <1>3, <1>4 DEF StorageObjects
  <2>2. [obj EXCEPT !.enable = @ /\ ~creates] = obj
    BY <1>3, <1>4, <2>1 DEF StorageObjects
  <2>3. left' = StorageCarry(StorageToApi(obj, creates), item)
    BY <1>1, <1>4, <2>2, OfStorage
  <2>4. QED BY <1>2, <1>3, <1>4, <2>3 DEF StorageWritten
<1>5. ASSUME Storage, creates, obj.enable PROVE StorageCreated'
  <2>1. obj.enable \in BOOLEAN /\ item = Nil /\ creates = TRUE
    BY <1>1, <1>3, <1>5 DEF StorageObjects
  <2>2. [obj EXCEPT !.enable = @ /\ ~creates] = [obj EXCEPT !.enable = FALSE]
    BY <1>3, <1>5
  <2>3. left' = StorageCarry(StorageToApi([obj EXCEPT !.enable = FALSE], TRUE), Nil)
    BY <1>1, <1>5, <2>1, <2>2, OfStorage
  <2>4. [left' EXCEPT !.disable = "0"] = StorageCarry(StorageToApi(obj, TRUE), Nil)
    BY <1>3, <1>5, <2>3, EnabledLater
  <2>5. left' \in Storages(kind)
    BY <1>1, <1>5, Makes, OfStorage
  <2>6. QED BY <1>2, <1>3, <1>5, <2>1, <2>4, <2>5 DEF StorageCreated
<1>6. ASSUME kind = "metrics" PROVE MetricsWritten'
  <2>1. obj \in MetricsObjects /\ MetricsValid(obj) /\ ~MetricsPanics(obj)
    BY <1>6, Sendable
  <2>2. /\ item \in {Nil} \cup MetricsServers
        /\ MetricsAccepts(MetricsToApi(MetricsAfter(obj), creates), item)
        /\ left' = MetricsCarry(MetricsToApi(MetricsAfter(obj), creates), item)
    BY <1>1, <1>6, OfMetrics
  <2>3. QED BY <1>1, <1>2, <1>6, <2>1, <2>2 DEF MetricsWritten
<1>7. ASSUME kind = "acme" PROVE AcmeWritten'
  BY <1>1, <1>2, <1>7, Sendable, OfAcme DEF AcmeWritten
<1>8. ASSUME kind \in SdnKinds PROVE SdnWritten'
  <2>1. obj.fields \in [SdnFields(kind) -> Strings]
    BY <1>8, Sendable DEF HeldObjects
  <2>2. /\ item \in {Nil} \cup Networks(kind)
        /\ SdnAccepts(kind, SdnToApi(kind, obj, creates), item)
        /\ left' = SdnCarry(kind, SdnToApi(kind, obj, creates), item)
    BY <1>1, <1>8, OfSdn
  <2>3. QED BY <1>1, <1>2, <1>8, <2>1, <2>2 DEF SdnWritten
<1>9. QED BY <1>4, <1>5, <1>6, <1>7, <1>8

\* What a call leaves when it succeeds is what it wrote.
LEMMA WrittenStep == IInv /\ [Next]_vars => Written'
<1> SUFFICES ASSUME IInv, [Next]_vars PROVE Written'
  OBVIOUS
<1>0. TypeOK /\ Placed /\ Compared /\ Checked /\ Written /\ kind \in Kinds
  BY DEF IInv, TypeOK
<1> USE <1>0
<1>a. ASSUME pc' # "enable", ~(pc' = "done" /\ result' = "ok") PROVE Written'
  BY <1>a DEF Written, Ok
<1>b. ASSUME UNCHANGED <<kind, pc, op, result, asked, creates, current, at, left>> PROVE Written'
  BY <1>b DEF Written, Ok, Storage, StorageCreated, StorageWritten, StorageSent, MetricsWritten, AcmeWritten,
              SdnWritten
<1>1. ASSUME Load PROVE Written'
  BY <1>1, <1>a DEF Load, Crash, Return
<1>2. ASSUME Call PROVE Written'
  <2>1. pc' # "enable" /\ ~(pc' = "done" /\ result' = "ok")
    BY <1>2 DEF Call, Crash, Return
  <2>2. QED BY <1>a, <2>1
<1>3. ASSUME ListFails PROVE Written'
  BY <1>3, <1>a DEF ListFails, Crash, Return
<1>4. ASSUME Parent PROVE Written'
  BY <1>4, <1>a DEF Parent, Return
<1>5. ASSUME List PROVE Written'
  <2>1. result = "none"
    BY <1>5 DEF List, Placed, Busy
  <2>2. pc' # "enable" /\ ~(pc' = "done" /\ result' = "ok")
    BY <1>5, <2>1 DEF List, Crash, Return
  <2>3. QED BY <1>a, <2>2
<1>6. ASSUME Current PROVE Written'
  BY <1>6, <1>a DEF Current, Crash, Return
<1>7. ASSUME Check PROVE Written'
  BY <1>7, <1>a DEF Check, Crash, Return
<1>8. ASSUME Write PROVE Written'
  <2>1. /\ UNCHANGED <<kind, op, asked, creates, current>> /\ pc = "write"
        /\ at' = item /\ left' = item'
    BY <1>8 DEF Write
  <2>2. CASE op = "delete"
    <3>1. pc' = "done"
      BY <1>8, <2>2 DEF Write, Answered, Return
    <3>2. QED BY <2>1, <2>2, <3>1 DEF Written, Ok
  <2>3. CASE op # "delete" /\ result' \in {"rejected", "lost"} /\ pc' = "done"
    BY <1>a, <2>3
  <2>4. CASE op # "delete" /\ ~(result' \in {"rejected", "lost"} /\ pc' = "done")
    <3>1. /\ MayAccept(ToApi(obj)) /\ left' = Carry(ToApi(obj))
          /\ \/ Storage /\ creates /\ obj.enable /\ pc' = "enable"
             \/ ~(Storage /\ creates /\ obj.enable) /\ pc' = "done"
      BY <1>8, <2>4 DEF Write, Answered, Return
    <3>2. /\ Storage /\ creates /\ obj.enable => StorageCreated'
          /\ Storage /\ ~(creates /\ obj.enable) => StorageWritten'
          /\ kind = "metrics" => MetricsWritten'
          /\ kind = "acme" => AcmeWritten'
          /\ kind \in SdnKinds => SdnWritten'
      BY <2>1, <2>4, <3>1, WriteStep
    <3>3. QED BY <2>1, <3>1, <3>2, ByKind DEF Written, Ok, Storage
  <2>5. QED BY <2>2, <2>3, <2>4
<1>9. ASSUME Enable PROVE Written'
  <2>1. /\ UNCHANGED <<kind, op, asked, creates, current, at>> /\ pc = "enable" /\ Storage
    BY <1>9 DEF Enable, Placed
  <2>2. CASE result' # "ok"
    BY <1>9, <1>a, <2>2 DEF Enable, Answered, Return
  <2>3. CASE result' = "ok"
    <3>1. /\ item # Nil /\ item' = [item EXCEPT !.disable = "0"] /\ pc' = "done"
          /\ left' = [left EXCEPT !.disable = item'.disable]
      BY <1>9, <2>3 DEF Enable, Answered, Return
    <3>2. item'.disable = "0"
      BY <2>1, <3>1, OfStorage, StaysStorage DEF TypeOK, Storage
    <3>3. StorageCreated
      BY <2>1 DEF Written
    <3>4. StorageWritten'
      BY <2>1, <3>1, <3>2, <3>3 DEF StorageCreated, StorageWritten, StorageSent
    <3>5. QED BY <2>1, <3>1, <3>4, ByKind DEF Written, Storage
  <2>4. QED BY <2>2, <2>3
<1>10. ASSUME Other PROVE Written'
  BY <1>10, <1>b DEF Other, call
<1>11. CASE UNCHANGED vars
  BY <1>11, <1>b DEF vars, call
<1>12. QED
  BY <1>1, <1>2, <1>3, <1>4, <1>5, <1>6, <1>7, <1>8, <1>9, <1>10, <1>11 DEF Next

\* As long as nobody interferes and nothing is lost, the item is as it was found.
LEMMA AloneStep == IInv /\ [Next]_vars => Alone'
<1> SUFFICES ASSUME IInv, [Next]_vars, others' = 0, faults' = 0 PROVE Found' /\ AsRead'
  BY DEF Alone
<1>0. TypeOK /\ Placed /\ Compared /\ Checked /\ Alone /\ kind \in Kinds /\ calls \in Nat
  BY DEF IInv, TypeOK
<1> USE <1>0
<1>a. ASSUME pc' # "enable", ~Busy', calls' # 0 PROVE Found' /\ AsRead'
  BY <1>a DEF Found, AsRead, Busy
<1>b. ASSUME Found, AsRead, UNCHANGED <<kind, item, parent, obj, basis, pc, op, creates, current, calls>>
      PROVE  Found' /\ AsRead'
  BY <1>b DEF Found, AsRead, Busy, Parented, Storage
<1>c. ASSUME AsRead, UNCHANGED <<kind, item, obj, basis, calls>>, Busy PROVE AsRead'
  BY <1>c DEF AsRead, Storage
<1>1. ASSUME Load PROVE Found' /\ AsRead'
  <2>1. calls' = 0 /\ kind' = kind /\ pc' \in {"idle", "done"}
    BY <1>1 DEF Load, Crash, Return
  <2>2. Found'
    BY <2>1 DEF Found, Busy
  <2>3. CASE Storage /\ StorageUnreadable(item)
    <3>1. basis' = Nil
      BY <1>1, <2>3 DEF Load, object
    <3>2. QED BY <2>2, <3>1 DEF AsRead
  <2>4. CASE ~(Storage /\ StorageUnreadable(item))
    <3>1. /\ item' = item /\ basis' = item
          /\ obj' = CASE Storage -> StorageToSdk(item)
                      [] kind = "metrics" -> MetricsToSdk(item)
                      [] kind = "acme" -> AcmeToSdk(item)
                      [] OTHER -> [obj EXCEPT !.digest = item]
      BY <1>1, <2>4 DEF Load
    <3>2. /\ Storage => ~StorageUnreadable(item) /\ obj' = StorageToSdk(item)
          /\ kind = "metrics" => obj' = MetricsToSdk(item)
          /\ kind = "acme" => obj' = AcmeToSdk(item)
      BY <2>4, <3>1, ByKind
    <3>3. QED BY <2>1, <2>2, <3>1, <3>2 DEF AsRead, Storage
  <2>5. QED BY <2>2, <2>3, <2>4
<1>2. ASSUME Call PROVE Found' /\ AsRead'
  <2>1. /\ UNCHANGED <<kind, item, parent, obj, basis, others, faults>> /\ calls' = calls + 1
        /\ op' # "delete" => pc' \in {"done", IF kind = "subnet" THEN "parent" ELSE "list"}
        /\ op' = "delete" => pc' = "write"
    BY <1>2 DEF Call, Crash, Return, object
  <2>2. Found'
    BY <2>1 DEF Found, Parented, Storage, Busy
  <2>3. AsRead
    BY <2>1 DEF Alone
  <2>4. QED BY <2>1, <2>2, <2>3 DEF AsRead, Storage
<1>3. ASSUME ListFails PROVE FALSE
  BY <1>3 DEF ListFails, TypeOK
<1>4. ASSUME Parent PROVE Found' /\ AsRead'
  <2>1. /\ UNCHANGED <<kind, item, parent, obj, basis, op, creates, current, calls, others, faults>>
        /\ pc = "parent"
        /\ \/ pc' = "done"
           \/ parent /\ pc' = (IF kind = "subnet" THEN "list" ELSE "check")
    BY <1>4 DEF Parent, Return, object, call
  <2>2. Parented /\ ~Storage /\ Busy /\ calls # 0 /\ Found /\ AsRead
    BY <2>1, ByKind DEF Placed, Busy, Alone
  <2>3. CASE pc' = "done"
    BY <1>a, <2>1, <2>2, <2>3 DEF Busy
  <2>4. CASE pc' # "done"
    BY <1>c, <2>1, <2>2, <2>4 DEF Found, Parented, Storage
  <2>5. QED BY <2>3, <2>4
<1>5. ASSUME List PROVE Found' /\ AsRead'
  <2>1. /\ UNCHANGED <<kind, item, parent, obj, basis, op, current, calls, others, faults>>
        /\ pc = "list" /\ creates' = IF op = "set" THEN item = Nil ELSE creates
    BY <1>5 DEF List, object
  <2>2. Busy /\ calls # 0 /\ Found /\ AsRead /\ op # "delete" /\ creates \in BOOLEAN
    BY <2>1 DEF Placed, Busy, Alone, TypeOK
  <2>3. kind = "vnet" => op # "set" /\ ~Storage
    BY ByKind DEF Parented, TypeOK, Ops
  <2>4. \/ pc' = "done"
        \/ /\ creates' <=> item = Nil
           /\ kind = "subnet" => parent
           /\ Storage /\ op = "update" => pc' = "current"
           /\ kind = "vnet" => pc' = "parent"
           /\ pc' \in {"write", "parent", "current", "check"}
    BY <1>5, <2>1, <2>2, <2>3, ByKind DEF List, Crash, Return, TypeOK, Ops
  <2>5. CASE pc' = "done"
    BY <1>a, <2>1, <2>2, <2>5 DEF Busy
  <2>6. CASE pc' # "done"
    BY <1>c, <2>1, <2>2, <2>4, <2>6 DEF Found, Parented, Storage
  <2>7. QED BY <2>5, <2>6
<1>6. ASSUME Current PROVE Found' /\ AsRead'
  <2>1. /\ UNCHANGED <<kind, item, parent, obj, basis, op, creates, calls, others, faults>>
        /\ pc = "current"
        /\ \/ pc' = "done"
           \/ ~StorageUnreadable(item) /\ current' = StorageToSdk(item) /\ pc' = "check"
    BY <1>6 DEF Current, Crash, Return, object
  <2>2. Storage /\ ~Parented /\ Busy /\ calls # 0 /\ Found /\ AsRead
    BY <2>1, ByKind DEF Placed, Busy, Alone
  <2>3. CASE pc' = "done"
    BY <1>a, <2>1, <2>2, <2>3 DEF Busy
  <2>4. CASE pc' # "done"
    BY <1>c, <2>1, <2>2, <2>4 DEF Found, Parented, Storage
  <2>5. QED BY <2>3, <2>4
<1>7. ASSUME Check PROVE Found' /\ AsRead'
  <2>1. /\ UNCHANGED <<kind, item, parent, obj, basis, op, creates, current, calls, others, faults>>
        /\ pc = "check" /\ pc' \in {"done", "write"}
    BY <1>7 DEF Check, Crash, Return, object, call
  <2>2. Busy /\ calls # 0 /\ Found /\ AsRead
    BY <2>1 DEF Placed, Busy, Alone
  <2>3. CASE pc' = "done"
    BY <1>a, <2>1, <2>2, <2>3 DEF Busy
  <2>4. CASE pc' # "done"
    BY <1>c, <2>1, <2>2, <2>4 DEF Found, Parented, Storage, Busy
  <2>5. QED BY <2>3, <2>4
<1>8. ASSUME Write PROVE Found' /\ AsRead'
  <2>1. kind' = kind /\ calls' = calls /\ calls # 0 /\ pc = "write" /\ pc' \in {"done", "enable"}
    BY <1>8 DEF Write, Answered, Return, Placed, Busy
  <2>2. pc' = "enable" => item' # Nil
    <3>1. pc' = "enable" => op # "delete" /\ MayAccept(ToApi(obj)) /\ item' = Carry(ToApi(obj))
      BY <1>8 DEF Write, Answered, Return
    <3>2. QED BY <2>1, <3>1, Makes, MayBe
  <2>3. Found' /\ AsRead'
    BY <2>1, <2>2 DEF Found, AsRead, Busy
  <2>4. QED BY <2>3
<1>9. ASSUME Enable PROVE Found' /\ AsRead'
  <2>1. calls' = calls /\ calls # 0 /\ pc' = "done"
    BY <1>9 DEF Enable, Answered, Return, Placed
  <2>2. QED BY <1>a, <2>1 DEF Busy
<1>10. ASSUME Other PROVE FALSE
  BY <1>10 DEF Other, TypeOK
<1>11. CASE UNCHANGED vars
  <2>1. UNCHANGED <<kind, item, parent, obj, basis, pc, op, creates, current, calls, others, faults>>
    BY <1>11 DEF vars, object, call
  <2>2. QED BY <1>b, <2>1 DEF Alone
<1>12. QED
  BY <1>1, <1>2, <1>3, <1>4, <1>5, <1>6, <1>7, <1>8, <1>9, <1>10, <1>11 DEF Next

-----------------------------------------------------------------------------
(* A program alone is accepted.                                            *)

\* The server takes the request for a metric server of the type it has.
LEMMA SameTypeAccepted ==
  ASSUME NEW o, NEW create \in BOOLEAN, NEW i, o.type \in MetricsTypes, o.type = i.type,
         NEW r, r = MetricsToApi(MetricsAfter(o), create), o \in MetricsObjects
  PROVE  MetricsAccepts(r, i)
<1> DEFINE a == MetricsAfter(o)
<1>1. /\ o.type # "graphite" => a.graphite = Nil
      /\ o.type = "graphite" => a.influx = Nil
  BY DEF MetricsAfter, MetricsObjects
<1>2. /\ a.graphite = Nil => r.set.graphite = NoGraphite
      /\ a.influx = Nil => r.set.influx = NoInflux
  BY DEF MetricsToApi
<1>3. QED BY <1>1, <1>2 DEF MetricsAccepts

\* Why the server does not take a request for an item of the network.
LEMMA WhyNotAccepted ==
  ASSUME NEW k \in SdnKinds, NEW o \in HeldObjects(k), NEW create \in BOOLEAN, NEW i,
         create <=> i = Nil, ~SdnAccepts(k, SdnToApi(k, o, create), i)
  PROVE  \/ create /\ (k \in {"zone", "subnet"} \/ o.delete # {})
         \/ ~create /\ o.digest \notin {Nil, i}
         \/ k = "zone" /\ o.fields["vrf-vxlan"] = "invalid"
         \/ \E f \in o.delete : o.fields[f] # ""
<1> DEFINE r == SdnToApi(k, o, create)
<1>1. /\ r.named <=> k \in {"vnet", "dns"}
      /\ r.digest = o.digest
      /\ create => r.delete = o.delete
      /\ r.delete \subseteq o.delete \cup {f \in AlwaysSent(k) : o.fields[f] = ""}
      /\ \A f \in SdnFields(k) : r.set[f] = NonEmpty(o.fields[f])
  BY DEF SdnToApi
<1>2. /\ o.delete \subseteq SdnFields(k) /\ AlwaysSent(k) \subseteq SdnFields(k)
      /\ k = "zone" => "vrf-vxlan" \in SdnFields(k)
  BY DEF HeldObjects, AlwaysSent, SdnFields
<1>3. CASE create
  BY <1>1, <1>3 DEF SdnAccepts, SdnKinds
<1>6. CASE k = "zone" /\ r.set["vrf-vxlan"] = "invalid"
  BY <1>1, <1>2, <1>6, OptionalAssumption, StorageItemAssumption DEF NonEmpty
<1>4. CASE ~create /\ o.digest \in {Nil, i} /\ ~(k = "zone" /\ r.set["vrf-vxlan"] = "invalid")
  <2>1. PICK f \in r.delete : r.set[f] # Nil
    BY <1>1, <1>4 DEF SdnAccepts
  <2>2. f \in o.delete /\ o.fields[f] # ""
    BY <1>1, <1>2, <2>1 DEF NonEmpty
  <2>3. QED BY <2>2
<1>5. QED BY <1>3, <1>4, <1>6

\* What is written and rejected could not have been accepted.
LEMMA RejectedWrite ==
  ASSUME TypeOK, Placed, Compared, Checked, Found, pc = "write", op # "delete", MayRefuse(ToApi(obj))
  PROVE  Unsendable
<1> DEFINE r == ToApi(obj)
<1>1. /\ kind \in Kinds /\ creates \in BOOLEAN /\ asked = obj
      /\ creates <=> item = Nil
      /\ Parented => parent
  BY DEF TypeOK, Placed, Busy, Found
<1>2. ~Storage /\ kind # "acme"
  <2>1. kind # "subnet" \/ r.type # "" => ~MayAccept(r)
    BY DEF MayRefuse
  <2>2. Storage => MayAccept(r)
    BY <1>1, OfStorage
  <2>3. kind = "acme" => MayAccept(r)
    BY <1>1, OfAcme
  <2>4. Storage \/ kind = "acme" => kind # "subnet"
    BY <1>1, ByKind DEF Parented
  <2>5. QED BY <2>1, <2>2, <2>3, <2>4
<1>3. CASE kind = "metrics"
  <2>1. obj \in MetricsObjects /\ MetricsValid(obj)
    BY <1>3, Sendable
  <2>2. ~MetricsAccepts(MetricsToApi(MetricsAfter(obj), creates), item)
    BY <1>1, <1>3, OfMetrics DEF MayRefuse
  <2>3. item # Nil
    BY <2>2 DEF MetricsAccepts
  <2>4. obj.type # item.type
    BY <1>1, <2>1, <2>2, SameTypeAccepted DEF MetricsValid
  <2>5. QED BY <1>1, <1>3, <2>3, <2>4, ByKind DEF Unsendable
<1>4. CASE kind \in SdnKinds
  <2>1. obj \in HeldObjects(kind) /\ r = SdnToApi(kind, obj, creates)
    BY <1>1, <1>4, Sendable, OfSdn
  <2>2. ~SdnAccepts(kind, SdnToApi(kind, obj, creates), item) \/ (kind = "subnet" /\ ~creates)
    <3>1. kind = "subnet" /\ creates => r.type # ""
      BY <2>1 DEF SdnToApi
    <3>2. ~MayAccept(r) \/ (kind = "subnet" /\ r.type = "")
      BY DEF MayRefuse
    <3>3. ~MayAccept(r) => ~SdnAccepts(kind, SdnToApi(kind, obj, creates), item)
      BY <1>1, <1>4, <2>1, OfSdn
    <3>4. QED BY <3>1, <3>2, <3>3
  <2>3. \/ creates /\ (kind \in {"zone", "subnet"} \/ obj.delete # {})
        \/ ~creates /\ kind = "subnet"
        \/ ~creates /\ obj.digest \notin {Nil, item}
        \/ kind = "zone" /\ obj.fields["vrf-vxlan"] = "invalid"
        \/ \E f \in obj.delete : obj.fields[f] # ""
    BY <1>1, <1>4, <2>1, <2>2, WhyNotAccepted
  <2>4. kind # "metrics" /\ ~Storage /\ obj = asked
    BY <1>1, <1>4, ByKind
  <2>5. QED BY <1>4, <2>3, <2>4 DEF Unsendable
<1>5. QED BY <1>1, <1>2, <1>3, <1>4, ByKind

\* No step of a program alone ends in a rejection or a panic that is not one of
\* those that Unsendable names.
LEMMA AcceptedStep == IInv /\ [Next]_vars => AloneIsAccepted'
<1> SUFFICES ASSUME IInv, [Next]_vars, others' = 0, faults' = 0,
                    pc' = "done", result' \in {"rejected", "panic"}
             PROVE  Unsendable' \/ (op' = "delete" /\ item' = Nil) \/ op' = "none"
  BY DEF AloneIsAccepted
<1>0. TypeOK /\ Placed /\ Compared /\ Checked /\ Alone /\ AloneIsAccepted /\ kind \in Kinds /\ calls \in Nat
  BY DEF IInv, TypeOK
<1> USE <1>0
<1>1. ASSUME Load PROVE op' = "none"
  BY <1>1 DEF Load, call, Placed
<1>2. ASSUME Call PROVE Unsendable'
  <2>1. UNCHANGED <<kind, item>> /\ asked' = obj /\ kind \in Services /\ Panics(obj)
    BY <1>2 DEF Call, Crash, Return
  <2>2. kind = "metrics" /\ MetricsPanics(obj)
    BY <2>1, OfMetrics, OfAcme, ByKind
  <2>3. asked'.graphite = Nil \/ asked'.influx = Nil
    BY <2>1, <2>2 DEF MetricsPanics
  <2>4. kind' \notin SdnKinds /\ kind' = "metrics" /\ ~Storage'
    BY <2>1, <2>2, ByKind DEF Storage
  <2>5. QED BY <2>3, <2>4 DEF Unsendable
<1>3. ASSUME ListFails PROVE FALSE
  BY <1>3 DEF ListFails, TypeOK
<1>4. ASSUME Parent PROVE FALSE
  BY <1>4 DEF Parent, Return, Placed, Busy
<1>5. ASSUME List PROVE FALSE
  <2>1. pc = "list" /\ result = "none" /\ op # "delete" /\ Found
    BY <1>5 DEF List, Placed, Busy, Alone
  <2>2. kind = "subnet" => parent
    BY <2>1 DEF Found, Busy, Parented
  <2>3. QED BY <1>5, <2>1, <2>2 DEF List, Return
<1>6. ASSUME Current PROVE Unsendable'
  <2>1. /\ UNCHANGED <<kind, item>> /\ pc = "current" /\ result = "none"
    BY <1>6 DEF Current, Placed, Busy
  <2>2. Storage /\ item # Nil /\ StorageUnreadable(item)
    BY <1>6, <2>1 DEF Current, Return, Crash, Placed
  <2>3. QED BY <2>1, <2>2, ByKind DEF Unsendable, Storage
<1>7. ASSUME Check PROVE Unsendable'
  <2>1. UNCHANGED <<kind, asked>> /\ pc = "check" /\ asked = obj /\ Panics(obj) /\ kind \notin Services
    BY <1>7 DEF Check, Return, Crash, call, Placed, Busy
  <2>2. Storage /\ StoragePanics(obj, current)
    BY <2>1, OfSdn, OfStorage, ByKind
  <2>3. current # Nil /\ current.type = kind
    BY <2>1, <2>2, ByKind DEF StoragePanics, Compared, TypeOK, Ops
  <2>4. kind = "zfs-over-iscsi" /\ (obj.spec = Nil \/ obj.spec.lio_tpg = Nil)
    BY <2>2, <2>3 DEF StoragePanics
  <2>5. QED BY <2>1, <2>2, <2>4, ByKind DEF Unsendable, Storage
<1>8. ASSUME Write PROVE Unsendable' \/ (op' = "delete" /\ item' = Nil)
  <2>1. /\ UNCHANGED <<kind, op, asked, creates, others>> /\ pc = "write" /\ item' = item /\ faults' = faults
    BY <1>8 DEF Write, Answered, Return, TypeOK
  <2>2. CASE op = "delete"
    BY <1>8, <2>1, <2>2 DEF Write, Answered, Return
  <2>3. CASE op # "delete"
    <3>1. MayRefuse(ToApi(obj))
      BY <1>8, <2>3 DEF Write, Answered, Return
    <3>2. Found
      BY <2>1 DEF Alone
    <3>3. Unsendable
      BY <2>1, <2>3, <3>1, <3>2, RejectedWrite
    <3>4. QED BY <2>1, <3>3 DEF Unsendable, Storage
  <2>4. QED BY <2>2, <2>3
<1>9. ASSUME Enable PROVE FALSE
  <2>1. pc = "enable" /\ item = Nil /\ faults' = faults /\ others' = others
    BY <1>9 DEF Enable, Answered, Return
  <2>2. QED BY <2>1 DEF Alone, Found
<1>10. ASSUME Other PROVE FALSE
  BY <1>10 DEF Other, TypeOK
<1>11. CASE UNCHANGED vars
  <2>1. UNCHANGED <<kind, item, pc, op, result, asked, creates, others, faults>>
    BY <1>11 DEF vars, call
  <2>2. QED BY <2>1 DEF AloneIsAccepted, Unsendable, Storage
<1>12. QED
  BY <1>1, <1>2, <1>3, <1>4, <1>5, <1>6, <1>7, <1>8, <1>9, <1>10, <1>11 DEF Next

-----------------------------------------------------------------------------
(* What was read can be sent back.                                         *)

\* A parameter that was read and sent back, class by class.
LEMMA SentBack ==
  ASSUME NEW t \in StorageTypes \cap Kinds, NEW i \in Storages(t), i # Nil, ~StorageUnreadable(i),
         NEW f \in Fields(t)
  PROVE  LET new == StorageCarry(StorageToApi(StorageToSdk(i), FALSE), i).params[f] IN
         \/ new = i.params[f]
         \/ f \in Defaulted(t) /\ i.params[f] = Nil /\ new = Default(t, f)
         \/ f = "smbversion" /\ i.params[f] = "default" /\ new = Nil
         \/ f = "nowritecache" /\ i.params.comstar_hg = Nil /\ new = "0"
<1> DEFINE ps == i.params
           o == StorageToSdk(i)
           old == i.params[f]
           new == Carried(o, FALSE, i, f)
           s == o.spec
           v == o.spec[f]
           p == SdkProvider(ps.iscsiprovider)
<1>1. /\ o.type = t /\ s \in Specs(t) /\ s # Nil
      /\ DOMAIN ps = Fields(t) /\ old \in Strings \cup {Nil} /\ old # ""
  <2>1. o.type = t /\ s \in Specs(t)
    BY ReadStorage
  <2>2. Nil \notin Specs(t)
    BY NilAssumption
  <2>3. QED BY <2>1, <2>2 DEF Storages
<1>2. Old(FALSE, i, f) = old
  BY DEF Old
<1>3. CarriedByClass(t, o, FALSE, i, f)
  BY <1>1, FieldsCarried
<1>4. v = ReadField(t, ps, f)
  <2>1. SdkType(i.type) = t
    BY TypeRead DEF Storages
  <2>2. QED BY <2>1 DEF StorageToSdk
<1>5. ReadByClass(t, ps, f)
  BY FieldsRead
<1> HIDE DEF old, new, s, v, ps, p
<1>6. CASE f \in Fixed(t)
  <2>1. new = old
    BY <1>2, <1>3, <1>6 DEF CarriedByClass, new
  <2>2. QED BY <2>1 DEF new, old, Carried
<1>7. CASE f \in Plain(t)
  <2>1. new = NonEmpty(v) /\ v = Or(old, "")
    BY <1>3, <1>4, <1>5, <1>7 DEF CarriedByClass, ReadByClass, new, s, v, ps, old
  <2>2. new = old
    BY <1>1, <2>1, OptionalAssumption, StorageItemAssumption DEF Or, NonEmpty
  <2>3. QED BY <2>2 DEF new, old, Carried
<1>8. CASE f \in Defaulted(t)
  <2>1. /\ new = (IF t = "zfs-over-iscsi" THEN old ELSE NonEmpty(Or(v, Default(t, f))))
        /\ v = Or(old, Default(t, f))
    BY <1>2, <1>3, <1>4, <1>5, <1>8 DEF CarriedByClass, ReadByClass, new, s, v, ps, old
  <2>2. Default(t, f) # "" /\ Default(t, f) # Nil
    BY ZenonT(60), <1>8, ClassOf, SpelledInStrings, OptionalAssumption
  <2>3. new = old \/ (old = Nil /\ new = Default(t, f))
    BY <1>1, <2>1, <2>2 DEF Or, NonEmpty
  <2>4. QED BY <1>8, <2>3 DEF new, old, Carried
<1>9. CASE f \in Clearable(t)
  <2>1. new = v /\ v = (IF f = "smbversion" /\ old = "default" THEN Nil ELSE old)
    BY <1>3, <1>4, <1>5, <1>9 DEF CarriedByClass, ReadByClass, new, s, v, ps, old
  <2>2. new = old \/ (f = "smbversion" /\ old = "default" /\ new = Nil)
    BY <2>1
  <2>3. QED BY <2>2 DEF new, old, Carried
<1>10. CASE f \in Secret(t) \/ f \in Sticky(t)
  <2>1. new = Put(v, old) /\ v \in {Nil, old}
    <3>1. CASE f \in Secret(t)
      BY <1>2, <1>3, <1>4, <1>5, <3>1 DEF CarriedByClass, ReadByClass, new, s, v, ps, old
    <3>2. CASE f \in Sticky(t)
      <4>1. new = Put(TrimLeft(v), old) /\ v = old
        BY <1>2, <1>3, <1>4, <1>5, <3>2, ClassOf DEF CarriedByClass, ReadByClass, new, s, v, ps, old
      <4>2. old \notin {"/", "/ns"}
        BY <3>2 DEF Storages, old
      <4>3. QED BY <4>1, <4>2 DEF TrimLeft
    <3>3. QED BY <1>10, <3>1, <3>2
  <2>2. new = old
    BY <1>1, <2>1 DEF Put, NonEmpty
  <2>3. QED BY <2>2 DEF new, old, Carried
<1>11. CASE f \in ProviderFields
  <2>1. new = (IF f \in Provided(t, s) /\ f \notin GroupFields THEN Put(v, old) ELSE old)
    BY <1>2, <1>3, <1>11 DEF CarriedByClass, new, s, v
  <2>2. v = (IF f \notin OfProvider(p) THEN Nil
             ELSE IF f = "nowritecache" /\ ps.iscsiprovider = "comstar"
             THEN IF ps.comstar_hg = Nil THEN "0" ELSE old
             ELSE Or(old, ""))
    BY <1>4, <1>5, <1>11 DEF ReadByClass, v, ps, old, p
  <2>3. \/ new = old
        \/ new = Put(v, old) /\ v \in {Nil, old}
        \/ new = Put(v, old) /\ v = ""
        \/ f = "nowritecache" /\ ps.comstar_hg = Nil /\ v = "0" /\ new = Put(v, old)
    BY <2>1, <2>2 DEF Or
  <2>4. v = "" => old = Nil
    BY <1>1, <2>2, OptionalAssumption, StorageItemAssumption DEF Or
  <2>5. new = old \/ (f = "nowritecache" /\ ps.comstar_hg = Nil /\ new = "0")
    BY <1>1, <2>3, <2>4, OptionalAssumption, StorageItemAssumption DEF Put, NonEmpty
  <2>6. QED BY <2>5 DEF new, old, ps, Carried
<1>12. QED BY <1>6, <1>7, <1>8, <1>9, <1>10, <1>11, ClassOf

\* The rest of a storage that was read and sent back.
LEMMA FrameSentBack ==
  ASSUME NEW t \in StorageTypes \cap Kinds, NEW i \in Storages(t), i # Nil, ~StorageUnreadable(i),
         NEW new, new = StorageCarry(StorageToApi(StorageToSdk(i), FALSE), i)
  PROVE  /\ new.type = i.type /\ new.nodes = i.nodes /\ new.prune = i.prune
         /\ (new.disable = "1") <=> (i.disable = "1")
         /\ new.content = IF Hardcoded(t) THEN HardContent(t) ELSE Or(i.content, {})
<1> DEFINE o == StorageToSdk(i)
           r == StorageToApi(o, FALSE)
<1>1. /\ i.type = ApiType(t) /\ i.nodes \in {Nil} \cup Strings /\ i.nodes # ""
      /\ i.prune \in Retentions /\ i.content \in {Nil} \cup SUBSET Contents[t]
  BY DEF Storages
<1>2. o.type = t /\ o.keep = IF i.prune = "all" THEN Nil ELSE i.prune
  BY ReadStorage
<1>3. /\ o.enable = (i.disable # "1") /\ o.nodes = Or(i.nodes, "")
      /\ o.content = ReadContent(t, i.content)
  BY <1>1, TypeRead DEF StorageToSdk
<1>4. /\ r.disable = (IF o.enable THEN "0" ELSE "1") /\ r.nodes = NonEmpty(o.nodes)
      /\ r.content = MapContent(o)
      /\ r.prune = IF "backup" \in Contents[t] THEN o.keep ELSE Nil
  BY <1>2 DEF StorageToApi
<1> HIDE DEF r
<1>5. /\ new.type = i.type /\ new.disable = r.disable /\ new.nodes = r.nodes
      /\ new.content = r.content /\ new.prune = Or(r.prune, i.prune)
  BY DEF StorageCarry, r
<1>6. new.nodes = i.nodes
  BY <1>1, <1>3, <1>4, <1>5 DEF Or, NonEmpty
<1>7. new.prune = i.prune
  BY <1>2, <1>4, <1>5 DEF Or
<1>8. (new.disable = "1") <=> (i.disable = "1")
  BY <1>3, <1>4, <1>5
<1>9. new.content = IF Hardcoded(t) THEN HardContent(t) ELSE Or(i.content, {})
  <2>1. CASE Hardcoded(t)
    <3>1. HardContent(t) \subseteq Contents[t] /\ HardContent(t) # Nil
      BY <2>1, ConfigItemsAssumption, NilAssumption
    <3>2. MapContent(o) = HardContent(t) \cap Contents[t]
      BY <1>2, <2>1, <3>1 DEF MapContent
    <3>3. QED BY <1>4, <1>5, <2>1, <3>1, <3>2
  <2>2. CASE ~Hardcoded(t)
    <3>1. MapContent(o) = IF o.content = Nil THEN {} ELSE o.content \cap Contents[t]
      BY <1>2, <2>2 DEF MapContent
    <3>2. CASE i.content \in {Nil, {}}
      <4>1. o.content \in {Nil, {}}
        BY <1>3, <3>2 DEF ReadContent
      <4>2. MapContent(o) = {}
        BY <3>1, <4>1
      <4>3. Or(i.content, {}) = {}
        BY <3>2 DEF Or
      <4>4. QED BY <1>4, <1>5, <2>2, <4>2, <4>3
    <3>3. CASE i.content \notin {Nil, {}}
      <4>1. o.content = i.content /\ i.content # Nil
        BY <1>1, <1>3, <3>3 DEF ReadContent
      <4>2. QED BY <1>1, <1>4, <1>5, <2>2, <3>1, <4>1 DEF Or
    <3>4. QED BY <3>2, <3>3
  <2>3. QED BY <2>1, <2>2
<1>10. QED BY <1>5, <1>6, <1>7, <1>8, <1>9

\* A storage that was read does not panic, and it is refused only for a partial
\* retention or for other mount options.
LEMMA SentBackIsValid ==
  ASSUME NEW t \in StorageTypes \cap Kinds, NEW i \in Storages(t), i # Nil, ~StorageUnreadable(i),
         NEW o, o = StorageToSdk(i)
  PROVE  /\ ~StoragePanics(o, o)
         /\ ~StorageValid(o, o) => i.prune = "part" \/ (t = "nfs" /\ i.params.options = "invalid")
<1> DEFINE ps == i.params
           s == o.spec
<1>1. /\ o.type = t /\ s \in Specs(t) /\ s # Nil /\ DOMAIN s = Fields(t)
      /\ o.keep = (IF i.prune = "all" THEN Nil ELSE i.prune)
      /\ i.type = ApiType(t) /\ DOMAIN ps = Fields(t)
      /\ \A f \in Fields(t) : /\ ps[f] \in Strings \cup {Nil} /\ ps[f] # ""
                              /\ ps[f] = "invalid" => f \notin {"smbversion", "port"}
  <2>1. Nil \notin Specs(t)
    BY NilAssumption
  <2>2. /\ o.type = t /\ s \in Specs(t)
        /\ o.keep = (IF i.prune = "all" THEN Nil ELSE i.prune)
    BY ReadStorage
  <2>3. DOMAIN s = Fields(t)
    BY <2>2 DEF Specs
  <2>4. /\ i.type = ApiType(t) /\ DOMAIN ps = Fields(t)
        /\ \A f \in Fields(t) : /\ ps[f] \in Strings \cup {Nil} /\ ps[f] # ""
                                /\ ps[f] = "invalid" => f \notin {"smbversion", "port"}
    BY DEF Storages
  <2>5. QED BY <2>1, <2>2, <2>3, <2>4
<1>2. \A f \in Fields(t) : s[f] = ReadField(t, ps, f) /\ ReadByClass(t, ps, f)
  BY <1>1, TypeRead, FieldsRead DEF StorageToSdk
<1>3. ~CannotBeRead(t, ps)
  BY <1>1, UnreadableByType
<1>4. \A f \in NeededToRead(t, ps) : ps[f] # Nil
  BY <1>3 DEF CannotBeRead
<1> HIDE DEF s, ps
<1>5. \A f \in Required(t) : ~Empty(s[f])
  <2>1. TAKE f \in Required(t)
  <2>2. f \in NeededToRead(t, ps) /\ f \in Plain(t) /\ f \in Fields(t)
    BY FieldClasses DEF NeededToRead, Fields
  <2>3. s[f] = Or(ps[f], "") /\ ps[f] # Nil /\ ps[f] # ""
    BY <1>1, <1>2, <1>4, <2>2 DEF ReadByClass
  <2>4. QED BY <2>3 DEF Or, Empty
<1>6. \A f \in {"preallocation", "blocksize", "port"} \cap Fields(t) : s[f] # "" /\ (f = "port" => s[f] # "invalid")
  <2>1. TAKE f \in {"preallocation", "blocksize", "port"} \cap Fields(t)
  <2>2. f \in Defaulted(t)
    BY FieldClasses
  <2>3. s[f] = Or(ps[f], Default(t, f)) /\ ps[f] # "" /\ (f = "port" => ps[f] # "invalid")
    BY <1>1, <1>2, <2>2 DEF ReadByClass
  <2>4. Default(t, f) # "" /\ Default(t, f) # "invalid"
    BY SpelledInStrings
  <2>5. QED BY <2>3, <2>4 DEF Or
<1>7. \A f \in {"smbversion"} \cap Fields(t) : s[f] # "invalid"
  <2>1. TAKE f \in {"smbversion"} \cap Fields(t)
  <2>2. ps[f] # "invalid" /\ f \in Clearable(t) /\ f = "smbversion" /\ s[f] = ReadField(t, ps, f)
        /\ ReadByClass(t, ps, f)
    BY ZenonT(60), <1>1, <1>2, ClassOf
  <2>3. s[f] = (IF ps[f] = "default" THEN Nil ELSE ps[f])
    BY <2>2 DEF ReadByClass
  <2>4. QED BY <2>2, <2>3, OptionalAssumption, StorageItemAssumption
<1>8. \A f \in {"options"} \cap Fields(t) : t = "nfs" /\ s[f] = ps[f]
  BY <1>2, ClassOf DEF ReadByClass
<1>9. ASSUME t = "zfs-over-iscsi", s.iscsiprovider = "lio" PROVE ~Empty(s.lio_tpg)
  <2>1. {"lio_tpg", "iscsiprovider"} \subseteq Fields(t) /\ "lio_tpg" \in ProviderFields
        /\ "iscsiprovider" \in Fixed(t)
    BY <1>9, UnionOfProviders DEF Fields, Fixed, ProviderFields
  <2>2. SdkProvider(ps.iscsiprovider) = "lio"
    <3>1. \A f \in {"iscsiprovider"} : s[f] = SdkProvider(ps[f])
      BY <1>2, <2>1 DEF ReadByClass
    <3>2. QED BY <1>9, <3>1
  <2>3. OfProvider("lio") = {"lio_tpg"}
    BY DEF OfProvider
  <2>4. "lio_tpg" \in NeededToRead(t, ps)
    BY <1>9, <2>2, <2>3 DEF NeededToRead
  <2>5. \A f \in {"lio_tpg"} : s[f] = Or(ps[f], "") /\ ps[f] # Nil /\ ps[f] # ""
    BY ZenonT(60), <1>1, <1>2, <1>4, <2>1, <2>2, <2>3, <2>4 DEF ReadByClass
  <2>6. QED BY <2>5 DEF Or, Empty
<1>10. ~StoragePanics(o, o)
  BY <1>1, <1>9, OptionalAssumption DEF StoragePanics, Empty, s
<1>11. ASSUME i.prune # "part", ~(t = "nfs" /\ ps.options = "invalid") PROVE StorageValid(o, o)
  <2>1. Struct(o) = s /\ o # Nil
    <3>1. o \in Objects(t) /\ Nil \notin Objects(t)
      <4>1. Objects(t) = StorageObjects(t)
        BY DEF Objects, StorageTypes
      <4>2. QED BY <4>1, ReadStorage, NilAssumption
    <3>2. QED BY <1>1, <3>1 DEF Struct, s
  <2>2. SpecValid(t, s, o)
    <3>1. \A f \in Fixed(t) : s[f] = o.spec[f]
      BY DEF s
    <3>2. \A f \in {"options"} \cap Fields(t) : s[f] # "invalid"
      BY <1>8, <1>11
    <3>3. \A f \in GroupFields : s[f] = o.spec[f]
      BY DEF s
    <3>4. QED BY <1>5, <1>6, <1>7, <1>9, <2>1, <3>1, <3>2, <3>3 DEF SpecValid
  <2>3. o.keep # "part"
    BY <1>1, <1>11, OptionalAssumption, StorageItemAssumption
  <2>4. QED BY <1>1, <2>1, <2>2, <2>3 DEF StorageValid
<1>12. QED BY <1>10, <1>11 DEF ps

\* A metric server that was read lacks one of the structs that are looked into.
LEMMA ReadPanics == ASSUME NEW i \in MetricsServers PROVE MetricsPanics(MetricsToSdk(i))
<1> DEFINE o == MetricsToSdk(i)
           proto == Or(i.graphite.proto, "udp")
<1>1. i.type \in MetricsTypes /\ i.server # ""
  BY DEF MetricsServers
<1>2. o.type = i.type /\ o.server = i.server
  BY DEF MetricsToSdk, MetricsAfter
<1>3. o.type # "graphite" => o.graphite = Nil
  BY <1>2 DEF MetricsToSdk, MetricsAfter
<1>4. ASSUME o.type = "graphite" PROVE o.graphite.proto \in {"udp", "tcp"} /\ o.influx = Nil
  <2>1. o.influx = Nil /\ o.graphite.proto = proto
    BY <1>2, <1>4 DEF MetricsToSdk, MetricsAfter
  <2>2. i.graphite.proto \in {Nil, "udp", "tcp"}
    BY DEF MetricsServers
  <2>3. QED BY <2>1, <2>2 DEF Or
<1>5. QED BY <1>1, <1>2, <1>3, <1>4 DEF MetricsPanics

\* The parameters of an ACME plugin, with others for three of them.
LEMMA FiveParams ==
  ASSUME NEW x \in AcmePlugins, NEW n, NEW e, NEW d
  PROVE  [x EXCEPT !.nodes = n, !.disable = e, !.delay = d] =
            [api |-> x.api, data |-> x.data, disable |-> e, nodes |-> n, delay |-> d]
<1> DEFINE A == Strings
           B == {Nil} \cup (Strings \ {""})
           C == {Nil} \cup BOOLEAN
           D == {Nil} \cup 0..MaxDelay
           y == [x EXCEPT !.nodes = n]
<1>0. x \in [api : A, data : B, disable : C, nodes : B, delay : D]
  BY DEF AcmePlugins
<1> HIDE DEF A, B, C, D
<1>1. y \in [api : A, data : B, disable : C, nodes : B \cup {n}, delay : D]
      /\ y.api = x.api /\ y.data = x.data /\ y.nodes = n
  BY <1>0
<1> HIDE DEF y
<1> DEFINE z == [y EXCEPT !.disable = e]
<1>2. z \in [api : A, data : B, disable : C \cup {e}, nodes : B \cup {n}, delay : D]
      /\ z.api = x.api /\ z.data = x.data /\ z.nodes = n /\ z.disable = e
  BY <1>1
<1> HIDE DEF z
<1>3. [z EXCEPT !.delay = d] =
         [api |-> z.api, data |-> z.data, disable |-> z.disable, nodes |-> z.nodes, delay |-> d]
  BY <1>2
<1>4. QED BY <1>2, <1>3 DEF y, z

\* An ACME plugin that was read and is sent back has its defaults, and no nodes.
LEMMA AcmeSentBack ==
  ASSUME NEW i \in AcmePlugins
  PROVE  /\ AcmeValid(AcmeToSdk(i))
         /\ AcmeToApi(AcmeToSdk(i)) =
               [i EXCEPT !.nodes = Nil, !.disable = (@ = TRUE), !.delay = Or(@, 30)]
<1> DEFINE data == i.data
           back == NonEmpty(Or(i.data, ""))
           none == NonEmpty("")
           disable == i.disable = TRUE
           sent == ~(i.disable # TRUE)
           delay == Or(i.delay, 30)
           Flag == {Nil} \cup BOOLEAN
           Delay == {Nil} \cup 0..MaxDelay
<1>1. delay \in 0..MaxDelay
  <2>1. i.delay \in {Nil} \cup 0..MaxDelay /\ MaxDelay \in Nat /\ MaxDelay >= 30
    BY ConfigItemsAssumption DEF AcmePlugins
  <2>2. QED BY <2>1 DEF Or
<1>2. AcmeValid(AcmeToSdk(i))
  BY <1>1 DEF AcmeValid, AcmeToSdk
<1>3. back = data
  BY OptionalAssumption, ServiceItemsAssumption DEF AcmePlugins, Or, NonEmpty
<1>4. none = Nil
  BY DEF NonEmpty
<1>5. sent = disable
  OBVIOUS
<1>6. AcmeToApi(AcmeToSdk(i)) =
         [api |-> i.api, data |-> back, disable |-> sent, nodes |-> none, delay |-> delay]
  BY DEF AcmeToApi, AcmeToSdk
<1>7. i \in [api : Strings, data : Text, disable : Flag, nodes : Text, delay : Delay]
  BY DEF AcmePlugins, Text
<1>8. [i EXCEPT !.nodes = Nil, !.disable = (@ = TRUE), !.delay = Or(@, 30)] =
      [i EXCEPT !.nodes = Nil, !.disable = disable, !.delay = delay]
  BY <1>7
<1> HIDE DEF data, back, none, disable, sent, delay, Flag, Delay
<1>9. [i EXCEPT !.nodes = Nil, !.disable = disable, !.delay = delay] =
      [api |-> i.api, data |-> i.data, disable |-> disable, nodes |-> Nil, delay |-> delay]
  BY FiveParams
<1>10. i.data = data
  BY DEF data
<1>11. QED BY <1>2, <1>3, <1>4, <1>5, <1>6, <1>8, <1>9, <1>10

\* What ResendIsHarmless says of a storage,
SameStorage ==
    /\ \A f \in {"type", "nodes", "prune"} : item[f] = basis[f]
    /\ (item.disable = "1") <=> (basis.disable = "1")
    /\ item.content = IF Hardcoded(kind) THEN HardContent(kind) ELSE Or(basis.content, {})
    /\ \A f \in Fields(kind) :
          \/ item.params[f] = basis.params[f]
          \/ f \in Defaulted(kind) /\ basis.params[f] = Nil /\ item.params[f] = Default(kind, f)
          \/ f = "smbversion" /\ basis.params[f] = "default" /\ item.params[f] = Nil
          \/ f = "nowritecache" /\ basis.params.comstar_hg = Nil /\ item.params[f] = "0"

\* and of a call that has ended.
Harmless ==
    CASE Storage /\ result = "ok" -> SameStorage
      [] Storage /\ result # "ok" ->
            /\ result = "refused" /\ item = basis
            /\ basis.prune = "part" \/ (kind = "nfs" /\ basis.params.options = "invalid")
      [] kind = "metrics" -> result = "panic" /\ item = basis
      [] kind = "acme" ->
            /\ result = "ok"
            /\ item = [basis EXCEPT !.nodes = Nil, !.disable = (@ = TRUE), !.delay = Or(@, 30)]
      [] OTHER -> TRUE

\* The storage that a program sends back is there as it says.
LEMMA StorageResent ==
  ASSUME kind \in Kinds, Storage, basis \in ServerItems(kind), basis # Nil, ~StorageUnreadable(basis),
         UNCHANGED <<kind, basis>>, result' = "ok",
         item' = StorageCarry(StorageToApi(StorageToSdk(basis), FALSE), basis)
  PROVE  Harmless'
<1> DEFINE new == item'
<1>0. new = StorageCarry(StorageToApi(StorageToSdk(basis), FALSE), basis)
  OBVIOUS
<1>1. kind \in StorageTypes \cap Kinds /\ basis \in Storages(kind)
  BY OfStorage DEF Storage
<1>a. new = item'
  OBVIOUS
<1> HIDE DEF new
<1>2. /\ new.type = basis.type /\ new.nodes = basis.nodes /\ new.prune = basis.prune
      /\ (new.disable = "1") <=> (basis.disable = "1")
      /\ new.content = IF Hardcoded(kind) THEN HardContent(kind) ELSE Or(basis.content, {})
  BY <1>0, <1>1, FrameSentBack
<1>3. \A f \in Fields(kind) :
         \/ new.params[f] = basis.params[f]
         \/ f \in Defaulted(kind) /\ basis.params[f] = Nil /\ new.params[f] = Default(kind, f)
         \/ f = "smbversion" /\ basis.params[f] = "default" /\ new.params[f] = Nil
         \/ f = "nowritecache" /\ basis.params.comstar_hg = Nil /\ new.params[f] = "0"
  BY ZenonT(60), <1>0, <1>1, SentBack
<1>4. Storage' /\ kind' = kind /\ basis' = basis /\ new = item'
  BY <1>a DEF Storage
<1>5. \A f \in {"type", "nodes", "prune"} : new[f] = basis[f]
  BY <1>2
<1>6. kind' # "metrics" /\ kind' # "acme"
  BY ByKind
<1>7. SameStorage'
  BY ZenonT(60), <1>2, <1>3, <1>4, <1>5 DEF SameStorage
<1>8. QED BY <1>4, <1>6, <1>7 DEF Harmless

\* A storage that a program sends back is refused for a reason.
LEMMA StorageNotResent ==
  ASSUME kind \in Kinds, Storage, basis \in ServerItems(kind), basis # Nil, ~StorageUnreadable(basis),
         UNCHANGED <<kind, basis, item>>, item = basis, obj = StorageToSdk(basis), current = obj,
         IF Panics(obj) THEN result' = "panic" ELSE ~Valid(obj) /\ result' = "refused"
  PROVE  Harmless'
<1>1. kind \in StorageTypes \cap Kinds /\ basis \in Storages(kind)
  BY OfStorage DEF Storage
<1>2. /\ ~Panics(obj)
      /\ ~Valid(obj) => basis.prune = "part" \/ (kind = "nfs" /\ basis.params.options = "invalid")
  BY <1>1, OfStorage, SentBackIsValid
<1>3. Storage' /\ result' = "refused" /\ ~Valid(obj)
  BY <1>2 DEF Storage
<1>4. basis.prune = "part" \/ (kind = "nfs" /\ basis.params.options = "invalid")
  BY <1>2, <1>3
<1>5. kind' = kind /\ basis' = basis /\ item' = basis'
  OBVIOUS
<1>6. kind' # "metrics" /\ kind' # "acme"
  BY ByKind
<1>7. QED BY <1>3, <1>4, <1>5, <1>6 DEF Harmless

\* No step of a program alone that sends back what it read does any harm.
LEMMA HarmlessStep == IInv /\ [Next]_vars => ResendIsHarmless'
<1> SUFFICES ASSUME IInv, [Next]_vars, others' = 0, faults' = 0, pc' = "done", calls' = 1, basis' # Nil,
                    op' \in {"update", "set"}
             PROVE  Harmless'
  BY DEF ResendIsHarmless, Harmless, SameStorage
<1>0. TypeOK /\ Placed /\ Compared /\ Checked /\ Alone /\ kind \in Kinds /\ calls \in Nat
  BY DEF IInv, TypeOK
<1> USE <1>0

\* As long as the call has not ended, the item and the object are as they were read.
<1>a. ASSUME UNCHANGED <<kind, basis, calls, op>>, others = 0, faults = 0, Busy
      PROVE  /\ Found /\ item = basis /\ basis \in ServerItems(kind)
             /\ Storage => ~StorageUnreadable(basis) /\ obj = StorageToSdk(basis)
             /\ kind = "metrics" => obj = MetricsToSdk(basis)
             /\ kind = "acme" => obj = AcmeToSdk(basis)
  BY <1>a DEF Alone, AsRead, TypeOK
<1>b. ASSUME kind' = kind, kind \in SdnKinds PROVE Harmless'
  <2>1. ~Storage' /\ kind' # "metrics" /\ kind' # "acme"
    BY <1>b, ByKind DEF Storage
  <2>2. QED BY <2>1 DEF Harmless
<1>1. ASSUME Load PROVE FALSE
  BY <1>1 DEF Load
<1>2. ASSUME Call PROVE Harmless'
  <2>1. /\ UNCHANGED <<kind, item, obj, basis, others, faults>> /\ calls = 0
        /\ \/ op' = "set" /\ Panics(obj) /\ result' = "panic"
           \/ op' = "set" /\ ~Panics(obj) /\ ~Valid(obj)
        /\ kind \in Services
    BY <1>2 DEF Call, Crash, Return, object
  <2>2. /\ item = basis /\ basis \in ServerItems(kind)
        /\ kind = "metrics" => obj = MetricsToSdk(basis)
        /\ kind = "acme" => obj = AcmeToSdk(basis)
    BY <2>1 DEF Alone, AsRead, TypeOK
  <2>3. CASE kind = "metrics"
    <3>1. Panics(obj)
      BY <2>2, <2>3, OfMetrics, ReadPanics
    <3>2. ~Storage' /\ kind' = "metrics"
      BY <2>1, <2>3, ByKind DEF Storage
    <3>3. QED BY <2>1, <2>2, <3>1, <3>2 DEF Harmless
  <2>4. CASE kind = "acme"
    BY <2>1, <2>2, <2>4, OfAcme, AcmeSentBack
  <2>5. QED BY <2>1, <2>3, <2>4, ByKind
<1>3. ASSUME ListFails PROVE FALSE
  BY <1>3 DEF ListFails, TypeOK
<1>4. ASSUME Parent PROVE Harmless'
  <2>1. kind' = kind /\ pc = "parent"
    BY <1>4 DEF Parent
  <2>2. QED BY <1>b, <2>1, ByKind DEF Placed
<1>5. ASSUME List PROVE Harmless'
  <2>1. UNCHANGED <<kind, item, obj, basis, op, calls, others, faults>> /\ pc = "list" /\ Busy
    BY <1>5 DEF List, object, Busy
  <2>2. item # Nil /\ (op = "update" => ~creates)
    BY <1>a, <2>1, ByKind DEF Placed, TypeOK, Ops
  <2>3. kind = "subnet"
    BY <1>5, <2>1, <2>2 DEF List, Return
  <2>4. QED BY <1>b, <2>1, <2>3 DEF SdnKinds
<1>6. ASSUME Current PROVE FALSE
  <2>1. UNCHANGED <<kind, item, obj, basis, op, calls, others, faults>> /\ pc = "current" /\ Busy /\ Storage
    BY <1>6 DEF Current, object, Busy, Placed
  <2>2. item # Nil /\ item \in Storages(kind) /\ ~StorageUnreadable(item) /\ obj = StorageToSdk(item)
    BY <1>a, <2>1, OfStorage
  <2>3. obj.type = kind /\ kind \in StorageTypes
    BY <2>1, <2>2, ReadStorage DEF Storage
  <2>4. QED BY <1>6, <2>2, <2>3 DEF Current
<1>7. ASSUME Check PROVE Harmless'
  <2>1. /\ UNCHANGED <<kind, item, obj, basis, op, calls, others, faults>> /\ pc = "check" /\ Busy
        /\ IF Panics(obj) THEN result' = "panic" ELSE ~Valid(obj) /\ result' = "refused"
    BY <1>7 DEF Check, Crash, Return, object, call, Busy
  <2>2. kind \notin Services
    BY <2>1 DEF Placed
  <2>3. CASE Storage
    <3>1. op = "update"
      BY <2>1, <2>2 DEF TypeOK, Ops
    <3>2. item = basis /\ ~StorageUnreadable(basis) /\ obj = StorageToSdk(basis) /\ current = obj
      BY <1>a, <2>1, <2>3, <3>1 DEF Found
    <3>3. QED BY <1>a, <2>1, <2>3, <3>2, StorageNotResent
  <2>4. CASE ~Storage
    BY <1>b, <2>1, <2>2, <2>4, ByKind
  <2>5. QED BY <2>3, <2>4
<1>8. ASSUME Write PROVE Harmless'
  <2>1. /\ UNCHANGED <<kind, basis, op, creates, calls, others>> /\ pc = "write" /\ Busy /\ op # "delete"
        /\ UNCHANGED faults
    BY <1>8 DEF Write, Answered, Return, Busy, TypeOK
  <2>2. /\ Found /\ item = basis /\ basis \in ServerItems(kind)
        /\ Storage => ~StorageUnreadable(basis) /\ obj = StorageToSdk(basis)
        /\ kind = "metrics" => obj = MetricsToSdk(basis)
        /\ kind = "acme" => obj = AcmeToSdk(basis)
    BY <1>a, <2>1
  <2>3. (creates <=> item = Nil) /\ creates = FALSE
    BY <2>1, <2>2 DEF Found, TypeOK
  <2>4. ASSUME MayAccept(ToApi(obj)), ~MayRefuse(ToApi(obj))
        PROVE  item' = Carry(ToApi(obj)) /\ result' = "ok"
    BY <1>8, <2>1, <2>3, <2>4 DEF Write, Answered, Return, TypeOK
  <2>5. CASE Storage
    <3>1. kind # "subnet" /\ MayAccept(ToApi(obj))
      BY <2>3, <2>5, ByKind, OfStorage DEF Parented
    <3>2. item' = Carry(ToApi(obj)) /\ result' = "ok"
      BY <2>4, <3>1 DEF MayRefuse
    <3>3. [obj EXCEPT !.enable = @ /\ ~creates] = obj
      <4>1. obj \in StorageObjects(kind)
        BY <2>5, OfStorage DEF TypeOK
      <4>2. (obj.enable /\ ~creates) = obj.enable
        BY <2>3, <4>1 DEF StorageObjects
      <4>3. QED BY <2>3, <4>1, <4>2 DEF StorageObjects
    <3>4. item' = StorageCarry(StorageToApi(StorageToSdk(basis), FALSE), basis)
      BY <2>2, <2>3, <2>5, <3>2, <3>3, OfStorage
    <3>5. QED BY <2>1, <2>2, <2>5, <3>2, <3>4, StorageResent
  <2>6. CASE kind = "metrics"
    BY <2>1, <2>2, <2>6, Sendable, ReadPanics, OfMetrics
  <2>7. CASE kind = "acme"
    <3>1. kind # "subnet" /\ MayAccept(ToApi(obj))
      BY <2>3, <2>7, OfAcme
    <3>2. item' = Carry(ToApi(obj)) /\ result' = "ok"
      BY <2>4, <3>1 DEF MayRefuse
    <3>3. item' = AcmeToApi(AcmeToSdk(basis))
      BY <2>2, <2>7, <3>2, OfAcme
    <3>4. item' = [basis EXCEPT !.nodes = Nil, !.disable = (@ = TRUE), !.delay = Or(@, 30)]
      BY <2>2, <2>7, <3>3, AcmeSentBack, OfAcme
    <3>5. ~Storage' /\ kind' # "metrics" /\ kind' = "acme" /\ basis' = basis
      BY <2>1, <2>7, ByKind DEF Storage
    <3>6. QED BY <3>2, <3>4, <3>5 DEF Harmless
  <2>8. QED BY <1>b, <2>1, <2>5, <2>6, <2>7, ByKind
<1>9. ASSUME Enable PROVE FALSE
  BY <1>9 DEF Enable, Placed
<1>10. ASSUME Other PROVE FALSE
  BY <1>10 DEF Other, TypeOK
<1>11. CASE UNCHANGED vars
  <2>1. UNCHANGED <<kind, item, basis, pc, op, result, calls, others, faults>>
    BY <1>11 DEF vars, object, call
  <2>2. Harmless
    BY <2>1 DEF IInv, ResendIsHarmless, Harmless, SameStorage
  <2>3. QED BY <2>1, <2>2 DEF Harmless, SameStorage, Storage
<1>12. QED
  BY <1>1, <1>2, <1>3, <1>4, <1>5, <1>6, <1>7, <1>8, <1>9, <1>10, <1>11 DEF Next

-----------------------------------------------------------------------------
(* The theorems.                                                           *)

\* The invariant holds of what a program starts with.
LEMMA InitStep == Init => IInv
<1> SUFFICES ASSUME Init PROVE IInv
  OBVIOUS
<1>1. /\ kind \in Kinds /\ item \in Items(kind) \cup {Nil} /\ obj \in Asked(kind) /\ basis = Nil
      /\ pc = "idle" /\ op = "none" /\ result = "none" /\ creates = FALSE /\ current = Nil
      /\ calls = 0 /\ others = 0 /\ faults = 0
  BY DEF Init
<1>2. parent \in BOOLEAN
  BY DEF Init
<1>3. TypeOK
  BY <1>1, <1>2, MayBe DEF TypeOK, Ops
<1>4. Placed /\ Compared /\ Checked
  BY <1>1 DEF Placed, Busy, Compared, Checked
<1>5. Written
  BY <1>1 DEF Written, Ok
<1>6. Alone
  BY <1>1 DEF Alone, Found, AsRead, Busy
<1>7. AloneIsAccepted /\ ResendIsHarmless
  BY <1>1 DEF AloneIsAccepted, ResendIsHarmless
<1>8. QED BY <1>3, <1>4, <1>5, <1>6, <1>7 DEF IInv

\* It holds in every state that calls, other programs and lost requests lead to.
LEMMA Invariance == Spec => []IInv
<1>1. IInv /\ [Next]_vars => IInv'
  BY TypeStep, PlacedStep, ComparedStep, CheckedStep, WrittenStep, AloneStep, AcceptedStep, HarmlessStep DEF IInv
<1>2. QED BY InitStep, <1>1, PTL DEF Spec

\* The object, the item and what was read of it are always ones that the code
\* and the server can have made.
THEOREM Types == Spec => []TypeOK
<1>1. IInv => TypeOK
  BY DEF IInv
<1>2. QED BY Invariance, <1>1, PTL

\* CreateWithValidate, UpdateWithValidate, SetMetrics and SetAcmePlugin that
\* return no error leave the item as the object says, and what the object is
\* silent about as the write found it, whatever other programs do meanwhile.
THEOREM ReadsBack == Spec => []OkReadsBack
<1>1. ASSUME IInv, Ok({"create", "update", "set"})
      PROVE  /\ Storage => StorageReadsBack
             /\ kind = "metrics" => MetricsReadsBack
             /\ kind = "acme" => AcmeReadsBack
             /\ kind \in SdnKinds => SdnIsAsked
  <2>1. kind \in Kinds
    BY <1>1 DEF IInv, TypeOK
  <2>2. /\ Storage => StorageWritten
        /\ kind = "metrics" => MetricsWritten
        /\ kind = "acme" => AcmeWritten
        /\ kind \in SdnKinds => SdnWritten
    BY <1>1, <2>1, ByKind DEF IInv, Written
  <2>3. QED BY <2>2, WrittenReadsBack, MetricsReadBack, AcmeReadBack, SdnReadBack
<1>2. IInv => OkReadsBack
  <2> SUFFICES ASSUME IInv, Ok({"create", "update", "set"})
               PROVE  CASE Storage -> StorageReadsBack
                        [] kind = "metrics" -> MetricsReadsBack
                        [] kind = "acme" -> AcmeReadsBack
                        [] OTHER -> SdnIsAsked
    BY DEF OkReadsBack
  <2>1. kind \in Kinds
    BY DEF IInv, TypeOK
  <2>2. QED BY <1>1, <2>1, ByKind
<1>3. QED BY Invariance, <1>2, PTL

\* An update of an item of the network that names a digest never overwrites
\* what another program has written since the digest was read.
THEOREM NoneLost == Spec => []NoLostUpdate
<1>1. IInv => NoLostUpdate
  <2> SUFFICES ASSUME IInv, Ok({"update"}), kind \in SdnKinds, asked.digest # Nil
               PROVE  at = asked.digest
    BY DEF NoLostUpdate
  <2>1. kind \in Kinds /\ op = "update" /\ Ok({"create", "update", "set"}) /\ ~Storage
        /\ kind # "metrics" /\ kind # "acme" /\ kind \notin Services
    BY ByKind DEF IInv, TypeOK, Ok
  <2>2. SdnWritten /\ ~creates
    BY <2>1 DEF IInv, Written, Placed
  <2>3. SdnToApi(kind, asked, creates).digest = asked.digest
    BY DEF SdnToApi
  <2>4. QED BY <2>2, <2>3 DEF SdnWritten, SdnAccepts
<1>2. QED BY Invariance, <1>1, PTL

\* What Validate accepts is not rejected and makes nothing panic, as long as the
\* program is alone and nothing is lost, but for the objects that Unsendable
\* names.
THEOREM Accepted == Spec => []AloneIsAccepted
<1>1. IInv => AloneIsAccepted
  BY DEF IInv
<1>2. QED BY Invariance, <1>1, PTL

\* Sending back what NewConfigStorageFromApi or NewConfigAcmePluginFromApi read
\* changes nothing but what ResendIsHarmless names; what NewConfigMetricsFromApi
\* read makes SetMetrics panic, whatever it was.
THEOREM Harmlessness == Spec => []ResendIsHarmless
<1>1. IInv => ResendIsHarmless
  BY DEF IInv
<1>2. QED BY Invariance, <1>1, PTL
==============================================================================
