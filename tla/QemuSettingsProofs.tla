-------------------------- MODULE QemuSettingsProofs --------------------------
(***************************************************************************)
(* Proofs about QemuSettings, for every part, any texts and numbers, any   *)
(* devices, interfaces and flags, and any number of changes by others and  *)
(* of lost requests: a call that succeeds makes exactly what was asked     *)
(* for, what Validate accepts is accepted but for what Unsendable says,    *)
(* and what is read can be sent back.                                      *)
(*                                                                         *)
(* The invariant is small, as there is one request.  What a guest has of a *)
(* part is what a guest may have (Has); what a call read is what the guest *)
(* had then, and Validate has accepted what is about to be sent (Known);   *)
(* what the server has afterwards is what the PUT carried (Answered); and  *)
(* while nobody else changes the guest all of it is true of the guest that *)
(* the program read before (Alone).  The rest is about the conversions,    *)
(* part by part: mapToStruct makes an object that Validate knows, what     *)
(* mapToAPI sends makes each setting as it is asked for or as it was, and  *)
(* mapToAPI after mapToStruct loses nothing but what ResendIsHarmless      *)
(* names.  The processor needs a fact about numbers besides: the ranges of *)
(* an affinity are those between two elements of the set whose neighbours  *)
(* are missing, and each element is in one of them because a bounded set   *)
(* has a smallest and a largest element.                                   *)
(***************************************************************************)
EXTENDS QemuSettings, TLAPS, NaturalsInduction, WellFoundedInduction

-----------------------------------------------------------------------------
(* The inductive invariant.                                                *)

\* What a guest may have of the part before the PUT arrives.
Has(g) == IF exists THEN g \in Guests(part, major) ELSE g = Nothing(part)

TypeOK ==
    /\ part \in Parts /\ major \in Majors /\ exists \in BOOLEAN
    /\ pc \in {"idle", "read", "check", "put", "refused", "ok", "rejected", "panic", "lost"}
    /\ held \in {Nil} \cup Objects(part)
    /\ want \in Objects(part) \/ pc = "idle"
    /\ seen \in {Nil} \cup Objects(part)
    /\ others \in Nat

\* A new guest has nothing and nobody knows of it.
Fresh == ~exists => held = Nil /\ seen = Nil /\ others = 0 /\ pc # "read"

\* What the call read, and what it found of what is wanted.
Known ==
    /\ pc \in {"idle", "read", "check", "put"} => Has(params)
    /\ exists /\ pc \notin {"idle", "read"} => Has(before) /\ seen = ToSdk(before)
    /\ pc = "refused" => ~Valid(want, seen)
    /\ pc \in {"put", "ok", "rejected", "panic"} => Valid(want, seen)

\* What the server made of it.
Answered ==
    /\ pc \in {"ok", "rejected", "panic"} => Has(now)
    /\ pc = "panic" => Panics(want, seen)
    /\ pc \in {"ok", "rejected"} => ~Panics(want, seen)
    /\ pc = "rejected" => ~Accepts(ToApi(want, seen), now)
    /\ pc = "ok" => /\ Accepts(ToApi(want, seen), now)
                    /\ params = Carry(ToApi(want, seen), now)

\* While nobody else changes the guest what was read of it stays true.
Alone ==
    others = 0 =>
        /\ held # Nil /\ pc \in {"idle", "read", "check", "put"} => held = ToSdk(params)
        /\ exists /\ pc \in {"check", "put"} => before = params
        /\ exists /\ pc \in {"ok", "rejected", "panic"} => now = before
        /\ held # Nil /\ pc \in {"check", "put", "refused", "ok", "rejected", "panic"} =>
              held = ToSdk(before)

IInv == TypeOK /\ Fresh /\ Known /\ Answered /\ Alone

-----------------------------------------------------------------------------

\* What the part, the version and the existence of the guest decide.
LEMMA Frame == ASSUME UNCHANGED <<part, major, exists>>, NEW g, NEW w, NEW c, NEW r
    PROVE  /\ Has(g)' <=> Has(g)
           /\ ToSdk(g)' = ToSdk(g)
           /\ ToApi(w, c)' = ToApi(w, c)
           /\ Valid(w, c)' <=> Valid(w, c)
           /\ Panics(w, c)' <=> Panics(w, c)
           /\ Accepts(r, g)' <=> Accepts(r, g)
  BY DEF Has, ToSdk, ToApi, Valid, Panics, Accepts

\* Nil describes no part.
LEMMA NilObjects == ASSUME part \in Parts PROVE Nil \notin Objects(part)
  BY NilAssumption, QemuSettingsAssumption

\* Nil is no text and no number.
LEMMA NilValues == /\ Nil \notin Strings /\ Nil \notin Texts
                   /\ Nil \notin BOOLEAN /\ Nil \notin Int
                   /\ "" \in Strings /\ "" \notin Texts
<1>1. "" \in Strings /\ Nil \notin Strings
  BY QemuCpuAssumption, OptionalAssumption
<1>2. Nil \notin BOOLEAN /\ Nil \notin Int
  BY NilAssumption
<1> QED BY <1>1, <1>2 DEF Texts

\* "" and 0 are the requests to remove a setting, and no parameter is one of them.
LEMMA NonEmptyTexts ==
    /\ \A t \in {Nil} \cup Texts : NonEmpty(t) = t
    /\ \A t \in {Nil} \cup Strings : NonEmpty(t) \in {Nil} \cup Texts
    /\ \A t \in Strings : t # "" => NonEmpty(t) # Nil
    /\ NonEmpty("") = Nil
  BY NilValues DEF NonEmpty, Texts

\* 0 is sent as none.
LEMMA NonZeroNumbers ==
    /\ \A n \in {Nil} \cup (Nat \ {0}) : NonZero(n) = n
    /\ \A n \in {Nil} \cup Nat : NonZero(n) \in {Nil} \cup (Nat \ {0})
    /\ NonZero(0) = Nil
  BY NilValues DEF NonZero

-----------------------------------------------------------------------------
(* The memory.                                                             *)

\* What is read of the memory is an object.
LEMMA MemoryReads == ASSUME part = "memory", NEW g \in MemoryParams
                     PROVE  ToSdk(g) \in MemoryObjects
  BY QemuMemoryAssumption DEF ToSdk, MemoryToSdk, MemoryParams, MemoryObjects

\* Capacity, minimum and shares are as asked for, and nothing else changes.
LEMMA MemoryExact == ASSUME IInv, pc = "ok", part = "memory" PROVE \A l \in Leaves : Settled(l)
<1> USE DEF IInv
<1>1. /\ want \in MemoryObjects
      /\ exists \in BOOLEAN
      /\ IF exists THEN now \in MemoryParams /\ before \in MemoryParams
         ELSE now = NoMemory
      /\ seen = IF exists THEN MemoryToSdk(before) ELSE Nil
      /\ MemoryValid(want, seen)
  BY DEF TypeOK, Known, Answered, Fresh, Objects, Has, Guests, Nothing, Valid, ToSdk
<1>2. params = Carry(MemoryToApi(want, seen), now)
  BY DEF Answered, ToApi
<1>3. now \in [memory : {Nil} \cup Nat, balloon : {Nil} \cup Nat, shares : {Nil} \cup Nat]
  BY <1>1, QemuMemoryAssumption DEF MemoryParams, NoMemory
<1>4. /\ DOMAIN params = {"memory", "balloon", "shares"}
      /\ params.memory = Or(MemoryToApi(want, seen).set.memory, now.memory)
      /\ params.balloon = Or(MemoryToApi(want, seen).set.balloon, now.balloon)
      /\ params.shares = IF "shares" \in MemoryToApi(want, seen).delete THEN Nil
                         ELSE Or(MemoryToApi(want, seen).set.shares, now.shares)
  BY <1>2, <1>3 DEF Carry, Indexed, MemoryToApi, Request
<1>5. ASSUME NEW l \in Leaves PROVE l \in {<<"memory">>, <<"balloon">>, <<"shares">>}
  BY <1>4, <1>5 DEF Leaves
<1>v. ASSUME NEW f, NEW ps PROVE Value(ps, <<f>>) = ps[f] /\ ~Shared(<<f>>) /\ ~Lost(<<f>>)
  BY DEF Value, Shared, Lost
<1>r. exists => /\ seen = [capacity |-> before.memory, minimum |-> before.balloon, shares |-> before.shares]
                /\ before \in [memory : Nat, balloon : {Nil} \cup Nat, shares : {Nil} \cup Nat]
                /\ before.balloon # Nil => before.balloon <= before.memory
  BY <1>1, QemuMemoryAssumption DEF MemoryToSdk, MemoryParams
<1>w. want \in [capacity : {Nil} \cup Nat, minimum : {Nil} \cup Nat, shares : {Nil} \cup Nat]
  BY <1>1 DEF MemoryObjects
<1>x. /\ exists => seen # Nil
      /\ ~exists => seen = Nil /\ now.memory = Nil
  BY <1>1, NilAssumption, MemoryReads, NilObjects DEF NoMemory, TypeOK, ToSdk, Objects
<1>6. Settled(<<"memory">>)
  <2>1. /\ IsAsked(<<"memory">>) <=> IF exists THEN want.capacity # Nil
                                    ELSE want.capacity # Nil \/ want.minimum # Nil
        /\ Wanted(<<"memory">>) = Or(want.capacity, want.minimum)
    BY DEF IsAsked, Wanted, Field
  <2> QED BY <2>1, <1>v, <1>x, <1>4 DEF Settled, MemoryToApi, Request, Or
<1>7. Settled(<<"balloon">>)
  <2>1. /\ IsAsked(<<"balloon">>) <=> want.minimum # Nil \/ Lowers
        /\ Wanted(<<"balloon">>) = Or(want.minimum, want.capacity)
    BY DEF IsAsked, Wanted
  <2> QED BY <2>1, <1>v, <1>x, <1>r, <1>4 DEF Settled, MemoryToApi, Request, Or, Lowers
<1>8. Settled(<<"shares">>)
  <2>1. /\ IsAsked(<<"shares">>) <=> want.shares # Nil \/ EndsShares
        /\ Wanted(<<"shares">>) = IF EndsShares THEN Nil ELSE NonZero(want.shares)
    BY DEF IsAsked, Wanted
  <2>2. now.shares \in {Nil} \cup Nat /\ (~exists => now.shares = Nil)
    BY <1>1, <1>3 DEF NoMemory
  <2> QED BY <2>1, <2>2, <1>v, <1>x, <1>r, <1>w, <1>4, NilAssumption
    DEF Settled, MemoryToApi, Request, Or, Lowers, EndsShares, NonZero
<1> QED BY <1>5, <1>6, <1>7, <1>8

\* The server refuses a minimum only if it is above the capacity in force.
LEMMA MemoryAccepted ==
    ASSUME IInv, part = "memory", pc \in {"rejected", "panic"}
    PROVE  (exists /\ now # before) \/ Unsendable
<1> USE DEF IInv
<1> SUFFICES ASSUME exists => now = before PROVE Unsendable
  OBVIOUS
<1>1. /\ want \in MemoryObjects
      /\ exists \in BOOLEAN
      /\ IF exists THEN now \in MemoryParams /\ before \in MemoryParams
         ELSE now = NoMemory
      /\ seen = IF exists THEN MemoryToSdk(before) ELSE Nil
      /\ MemoryValid(want, seen)
  BY DEF TypeOK, Known, Answered, Fresh, Objects, Has, Guests, Nothing, Valid, ToSdk
<1>2. ~Accepts(MemoryToApi(want, seen), now)
  BY DEF Answered, ToApi, Panics
<1>3. now \in [memory : {Nil} \cup Nat, balloon : {Nil} \cup Nat, shares : {Nil} \cup Nat]
  BY <1>1, QemuMemoryAssumption DEF MemoryParams, NoMemory
<1>r. exists => /\ seen = [capacity |-> before.memory, minimum |-> before.balloon, shares |-> before.shares]
                /\ before \in [memory : Nat, balloon : {Nil} \cup Nat, shares : {Nil} \cup Nat]
                /\ before.balloon # Nil => before.balloon <= before.memory
  BY <1>1, QemuMemoryAssumption DEF MemoryToSdk, MemoryParams
<1>w. want \in [capacity : {Nil} \cup Nat, minimum : {Nil} \cup Nat, shares : {Nil} \cup Nat]
  BY <1>1 DEF MemoryObjects
<1>x. /\ exists => seen # Nil
      /\ ~exists => seen = Nil /\ now.memory = Nil
  BY <1>1, NilAssumption, MemoryReads, NilObjects DEF NoMemory, TypeOK, ToSdk, Objects
<1> DEFINE set == MemoryToApi(want, seen).set
           after == Carry(MemoryToApi(want, seen), now)
<1>4. /\ after.memory = Or(set.memory, now.memory)
      /\ after.balloon = Or(set.balloon, now.balloon)
  BY <1>3 DEF Carry, Indexed, MemoryToApi, Request
<1>5. \A p \in MemoryToApi(want, seen).delete : set[p] = Nil
  BY <1>w, <1>r, <1>x, NilAssumption DEF MemoryToApi, Request
<1>6. set.balloon # Nil /\ after.memory # Nil /\ ~(after.balloon <= after.memory)
  BY <1>2, <1>5 DEF Accepts
<1>7. exists /\ want.capacity = Nil /\ want.minimum > before.memory
  BY <1>6, <1>4, <1>1, <1>3, <1>r, <1>w, <1>x, NilAssumption
  DEF MemoryToApi, Request, Or, MemoryValid
<1> QED BY <1>7 DEF Unsendable

\* Shares without a balloon are what a memory may lose that is sent back.
LEMMA MemoryResend ==
    ASSUME IInv, part = "memory", want = held, others = 0, pc \in {"ok", "refused"}, held # Nil
    PROVE  \/ /\ pc = "ok"
              /\ params = [before EXCEPT !.shares = IF want.minimum = 0 THEN Nil ELSE NonZero(@)]
           \/ pc = "refused" /\ Unrepeatable
<1> USE DEF IInv
<1>1. exists /\ before \in MemoryParams /\ want = MemoryToSdk(before) /\ seen = want /\ seen # Nil
  BY DEF TypeOK, Known, Fresh, Alone, Has, Guests, ToSdk
<1>2. /\ want = [capacity |-> before.memory, minimum |-> before.balloon, shares |-> before.shares]
      /\ before \in [memory : 1..MaxCapacity, balloon : {Nil} \cup Nat, shares : {Nil} \cup 0..MaxShares]
      /\ before.balloon # Nil => before.balloon <= before.memory
  BY <1>1 DEF MemoryToSdk, MemoryParams
<1>3. CASE pc = "refused"
  <2>1. ~MemoryValid(want, seen)
    BY <1>3 DEF Known, Valid
  <2>2. want.shares # Nil /\ want.capacity = Or(want.minimum, 0)
    BY <2>1, <1>1, <1>2, QemuMemoryAssumption, NilAssumption DEF MemoryValid, Or
  <2> QED BY <1>3, <2>2, <1>1, <1>2, QemuMemoryAssumption, NilAssumption DEF Unrepeatable, Or
<1>4. CASE pc = "ok"
  <2>1. params = Carry(MemoryToApi(want, seen), before)
    BY <1>4, <1>1 DEF Answered, ToApi, Alone
  <2>2. /\ DOMAIN params = {"memory", "balloon", "shares"}
        /\ params = [p \in DOMAIN params |-> params[p]]
        /\ params.memory = Or(MemoryToApi(want, seen).set.memory, before.memory)
        /\ params.balloon = Or(MemoryToApi(want, seen).set.balloon, before.balloon)
        /\ params.shares = IF "shares" \in MemoryToApi(want, seen).delete THEN Nil
                           ELSE Or(MemoryToApi(want, seen).set.shares, before.shares)
    BY <2>1, <1>2 DEF Carry, Indexed, MemoryToApi, Request
  <2>3. /\ params.memory = before.memory
        /\ params.balloon = before.balloon
        /\ params.shares = IF want.minimum = 0 THEN Nil ELSE NonZero(before.shares)
    BY <2>2, <1>1, <1>2, QemuMemoryAssumption, NilAssumption
    DEF MemoryToApi, Request, Or, NonZero
  <2> QED BY <1>4, <2>2, <2>3, <1>2
<1> QED BY <1>3, <1>4

-----------------------------------------------------------------------------
(* The guest agent.                                                        *)

\* The types of an agent are in lower case, and what is not stays a text.
LEMMA LowerTypes ==
    /\ \A t \in AgentTypes \cup {Nil, ""} : ToLower(t) = t
    /\ \A t \in {Nil} \cup Strings : ToLower(t) \in {Nil} \cup Strings
  BY QemuDevicesAssumption, NilValues DEF ToLower, Texts

\* What is read of the agent is an object.
LEMMA AgentReads == ASSUME part = "agent", NEW g \in [agent : {Nil} \cup AgentParams]
                    PROVE  ToSdk(g) \in {Nil} \cup AgentObjects
  BY QemuDevicesAssumption DEF ToSdk, AgentToSdk, AgentParams, AgentObjects, Texts

\* The settings of the agent share a parameter: those that are not asked for are
\* sent as they were read.
LEMMA AgentExact == ASSUME IInv, pc = "ok", part = "agent" PROVE \A l \in Leaves : Settled(l)
<1> USE DEF IInv
<1>1. /\ want \in AgentObjects
      /\ IF exists THEN /\ before \in [agent : {Nil} \cup AgentParams]
                        /\ seen = before.agent
         ELSE seen = Nil /\ now.agent = Nil
      /\ DOMAIN now = {"agent"}
  BY DEF TypeOK, Known, Answered, Fresh, Objects, Has, Guests, Nothing, ToSdk, AgentToSdk
<1>2. AgentToApi(want, seen) \in AgentObjects
  <2> DEFINE p(f) == Or(want[f], IF seen = Nil THEN Nil ELSE seen[f])
  <2>1. /\ p("freeze") \in {Nil} \cup BOOLEAN /\ p("trim") \in {Nil} \cup BOOLEAN
        /\ p("type") \in {Nil} \cup Strings
    BY <1>1, QemuDevicesAssumption, NilAssumption DEF AgentObjects, AgentParams, Or, Texts
  <2>2. NonEmpty(ToLower(p("type"))) \in {Nil} \cup Strings
    BY <2>1, LowerTypes DEF NonEmpty
  <2>3. AgentToApi(want, seen) = [enable |-> p("enable") = TRUE, freeze |-> p("freeze"),
                                  trim |-> p("trim"), type |-> NonEmpty(ToLower(p("type")))]
    BY DEF AgentToApi
  <2>4. (p("enable") = TRUE) \in BOOLEAN
    OBVIOUS
  <2> HIDE DEF p
  <2> QED BY <2>1, <2>2, <2>3, <2>4 DEF AgentObjects
<1>3. AgentToApi(want, seen) # Nil
  BY <1>2, NilObjects DEF TypeOK, Objects
<1>4. params.agent = AgentToApi(want, seen)
  BY <1>1, <1>3 DEF Answered, Carry, Indexed, ToApi, Request, Or
<1>5. ASSUME NEW l \in {<<"enable">>, <<"freeze">>, <<"trim">>, <<"type">>}
      PROVE  ~Lost(l) /\ Shared(l)
  BY DEF Lost, Shared
<1>6. Settled(<<"enable">>)
  <2>1. /\ IsAsked(<<"enable">>) <=> want.enable # Nil
        /\ Wanted(<<"enable">>) = want.enable
    BY DEF IsAsked, Wanted, Field
  <2>2. \A ps : Value(ps, <<"enable">>) = ((IF ps.agent = Nil THEN Nil ELSE ps.agent.enable) = TRUE)
    BY DEF Value
  <2> DEFINE sent == Or(want.enable, IF seen = Nil THEN Nil ELSE seen.enable)
  <2>3. Value(params, <<"enable">>) = (sent = TRUE)
    <3>1. params.agent.enable = (sent = TRUE)
      BY <1>4 DEF AgentToApi
    <3>2. Value(params, <<"enable">>) = (params.agent.enable = TRUE)
      BY <2>2, <1>3, <1>4
    <3>3. ((sent = TRUE) = TRUE) = (sent = TRUE)
      OBVIOUS
    <3> QED BY <3>1, <3>2, <3>3
  <2>4. want.enable \in {Nil, TRUE, FALSE}
    BY <1>1 DEF AgentObjects
  <2>5. CASE want.enable # Nil
    <3>1. Value(params, <<"enable">>) = (want.enable = TRUE)
      BY <2>3, <2>5 DEF Or
    <3>2. (want.enable = TRUE) = want.enable
      BY <2>4, <2>5
    <3> QED BY <3>1, <3>2, <2>1, <2>5 DEF Settled
  <2>6. CASE want.enable = Nil
    <3>1. Value(params, <<"enable">>) = Had(<<"enable">>)
      BY <2>2, <2>3, <2>6, <1>1, NilAssumption DEF Had, Or
    <3> QED BY <3>1, <2>1, <2>6, <1>5 DEF Settled
  <2> QED BY <2>5, <2>6
<1>7. \A ps : \A f \in {"freeze", "trim", "type"} :
          Value(ps, <<f>>) = IF ps.agent = Nil THEN Nil ELSE ps.agent[f]
  BY DEF Value
<1>8. Settled(<<"freeze">>) /\ Settled(<<"trim">>)
  <2>1. /\ IsAsked(<<"freeze">>) <=> want.freeze # Nil
        /\ Wanted(<<"freeze">>) = want.freeze
    BY SMTT(30) DEF IsAsked, Wanted, Field
  <2>2. /\ IsAsked(<<"trim">>) <=> want.trim # Nil
        /\ Wanted(<<"trim">>) = want.trim
    BY SMTT(30) DEF IsAsked, Wanted, Field
  <2>3. \A f \in {"freeze", "trim"} : (IsAsked(<<f>>) <=> want[f] # Nil) /\ Wanted(<<f>>) = want[f]
    BY <2>1, <2>2
  <2> QED BY <2>3, <1>7, <1>1, <1>3, <1>4, <1>5 DEF Settled, Had, AgentToApi, Or
<1>9. Settled(<<"type">>)
  <2>1. /\ IsAsked(<<"type">>) <=> want.type # Nil
        /\ Wanted(<<"type">>) = NonEmpty(ToLower(want.type))
    BY DEF IsAsked, Wanted, Field
  <2> DEFINE had == IF seen = Nil THEN Nil ELSE seen.type
  <2>2. Value(params, <<"type">>) = NonEmpty(ToLower(Or(want.type, had)))
    BY <1>7, <1>3, <1>4 DEF AgentToApi
  <2>3. had \in {Nil} \cup AgentTypes
    BY <1>1 DEF AgentParams
  <2>4. had # "" /\ ToLower(had) = had
    BY <2>3, LowerTypes, QemuDevicesAssumption, NilValues DEF Texts
  <2>5. Had(<<"type">>) = had
    BY <1>7, <1>1 DEF Had
  <2> HIDE DEF had
  <2>6. CASE want.type # Nil
    BY <2>1, <2>2, <2>6 DEF Settled, Or
  <2>7. CASE want.type = Nil
    <3>1. Value(params, <<"type">>) = had
      BY <2>2, <2>4, <2>7 DEF Or, NonEmpty
    <3> QED BY <3>1, <2>1, <2>5, <2>7, <1>5 DEF Settled
  <2> QED BY <2>6, <2>7
<1> QED BY <1>6, <1>8, <1>9 DEF Leaves

\* The server has no reason to refuse the settings of the agent.
LEMMA AgentAccepted == ASSUME IInv, part = "agent" PROVE pc \notin {"rejected", "panic"}
  BY DEF IInv, Answered, ToApi, Accepts, Panics, Request

\* The agent is sent back as it was read.
LEMMA AgentResend ==
    ASSUME IInv, part = "agent", want = held, others = 0, pc \in {"ok", "refused"}, held # Nil
    PROVE  pc = "ok" /\ params = before
<1> USE DEF IInv
<1>1. /\ before \in [agent : {Nil} \cup AgentParams]
      /\ want = before.agent /\ seen = want /\ want # Nil
  BY DEF TypeOK, Known, Fresh, Alone, Has, Guests, ToSdk, AgentToSdk
<1>2. want \in AgentParams
  BY <1>1
<1>3. pc = "ok"
  <2>1. AgentValid(want)
    BY <1>2, LowerTypes DEF AgentValid, AgentParams
  <2> QED BY <2>1 DEF Known, Valid
<1>4. AgentToApi(want, seen) = want
  <2>1. ToLower(want.type) = want.type /\ want.type # ""
    BY <1>2, LowerTypes, QemuDevicesAssumption, NilValues DEF AgentParams, Texts
  <2>2. \A f \in {"enable", "freeze", "trim", "type"} :
            Or(want[f], IF seen = Nil THEN Nil ELSE seen[f]) = want[f]
    BY <1>1 DEF Or
  <2>3. AgentToApi(want, seen) = [enable |-> want.enable = TRUE, freeze |-> want.freeze,
                                  trim |-> want.trim, type |-> want.type]
    BY <2>1, <2>2 DEF AgentToApi, NonEmpty
  <2>4. (want.enable = TRUE) = want.enable
    BY <1>2 DEF AgentParams
  <2> QED BY <2>3, <2>4, <1>2 DEF AgentParams
<1>5. exists /\ now = before
  BY <1>3 DEF Fresh, Alone, TypeOK
<1>6. params = [p \in DOMAIN before |-> want]
  BY ZenonT(60), <1>1, <1>3, <1>4, <1>5 DEF Answered, Carry, Indexed, ToApi, Request, Or
<1> QED BY <1>1, <1>3, <1>6

-----------------------------------------------------------------------------
(* The serial ports.                                                       *)

PortsStored == {f \in [Serials -> {Nil} \cup PortParams] :
                   \A i \in Serials : f[i] # Nil => i <= MaxSerial}

\* What is read of a serial port.
LEMMA PortsRead ==
    ASSUME NEW f \in PortsStored, NEW i \in Serials, NEW c, c = SerialsToSdk(f)
    PROVE  /\ c \in {Nil} \cup [Serials -> {Nil} \cup PortObjects]
           /\ f[i] \in {Nil} \cup PortParams
           /\ c # Nil => (c[i] = Nil <=> f[i] = Nil)
           /\ c # Nil /\ c[i] # Nil =>
                 /\ ~c[i].delete
                 /\ c[i].socket <=> f[i] = "socket"
                 /\ c[i].path = IF f[i] = "socket" THEN "" ELSE f[i]
           /\ c = Nil => f[i] = Nil
<1>1. f \in [Serials -> {Nil} \cup PortParams]
  BY DEF PortsStored
<1>2. Nil \notin [Serials -> {Nil} \cup PortObjects]
  BY NilAssumption DEF AllParts, Objects
<1> DEFINE port(j) == IF f[j] = Nil THEN Nil
                      ELSE [delete |-> FALSE, socket |-> f[j] = "socket",
                            path |-> IF f[j] = "socket" THEN "" ELSE f[j]]
<1>3. \A j \in Serials : port(j) \in {Nil} \cup PortObjects
  BY <1>1, QemuDevicesAssumption, QemuCpuAssumption DEF PortParams, PortObjects, Texts
<1>4. [j \in Serials |-> port(j)] \in [Serials -> {Nil} \cup PortObjects]
  BY <1>3
<1>5. c = IF \A j \in Serials : f[j] = Nil THEN Nil ELSE [j \in Serials |-> port(j)]
  BY DEF SerialsToSdk
<1>7. ASSUME port(i) # Nil
      PROVE  /\ f[i] # Nil /\ ~port(i).delete
             /\ port(i).socket <=> f[i] = "socket"
             /\ port(i).path = IF f[i] = "socket" THEN "" ELSE f[i]
  BY <1>7
<1>8. ASSUME f[i] # Nil PROVE port(i) # Nil
  <2>1. (IF f[i] = "socket" THEN "" ELSE f[i]) \in Strings
    BY <1>1, <1>8, QemuCpuAssumption DEF PortParams, Texts
  <2>2. \A b \in BOOLEAN, p \in Strings : [delete |-> FALSE, socket |-> b, path |-> p] \in PortObjects
    BY DEF PortObjects
  <2>3. port(i) \in PortObjects
    BY <1>8, <2>1, <2>2
  <2> QED BY <2>3, NilAssumption
<1> HIDE DEF port
<1>6. /\ c \in {Nil} \cup [Serials -> {Nil} \cup PortObjects]
      /\ c # Nil => c[i] = port(i)
      /\ c = Nil => f[i] = Nil
  BY <1>2, <1>4, <1>5
<1> QED BY <1>1, <1>6, <1>7, <1>8

\* What is read of the serial ports is an object.
LEMMA SerialsReads == ASSUME part = "serials", NEW g \in [serial : PortsStored]
                      PROVE  ToSdk(g) \in {Nil} \cup Objects(part)
<1>1. g.serial \in PortsStored
  OBVIOUS
<1>2. ToSdk(g) = SerialsToSdk(g.serial)
  BY DEF ToSdk
<1>3. CASE Serials = {}
  BY <1>2, <1>3 DEF SerialsToSdk
<1>4. CASE Serials # {}
  BY <1>1, <1>2, <1>4, PortsRead DEF Objects
<1> QED BY <1>3, <1>4

\* What is sent of a port.
LEMMA PortsSent ==
    ASSUME IInv, pc = "ok", part = "serials", NEW i \in Serials
    PROVE  LET had == IF seen = Nil THEN Nil ELSE seen[i]
               same == had # Nil /\ had.path = want[i].path /\ had.socket = want[i].socket IN
           params.serial[i] =
               IF want[i] = Nil \/ (~want[i].delete /\ same) \/ (want[i].delete /\ had = Nil)
               THEN now.serial[i]
               ELSE IF want[i].delete THEN Nil ELSE PortToApi(want[i])
<1> USE DEF IInv
<1>1. want \in [Serials -> {Nil} \cup PortObjects]
  BY DEF TypeOK, Objects
<1>2. want[i] # Nil => PortToApi(want[i]) # Nil
  BY <1>1, OptionalAssumption, QemuDevicesAssumption DEF PortToApi, PortObjects, Texts
<1>3. IF exists THEN now \in [serial : PortsStored] ELSE now = [serial |-> [j \in Serials |-> Nil]]
  BY DEF Answered, Has, Guests, Nothing, PortsStored
<1>4. DOMAIN now = {"serial"} /\ DOMAIN now.serial = Serials
  BY <1>3 DEF PortsStored
<1>5. params.serial = Merge(SerialsToApi(want, seen).set, SerialsToApi(want, seen).delete, now.serial)
  BY <1>4 DEF Answered, Carry, Indexed, ToApi, Request
<1>6. params.serial[i] = IF i \in SerialsToApi(want, seen).delete THEN Nil
                         ELSE Or(SerialsToApi(want, seen).set[i], now.serial[i])
  BY <1>4, <1>5 DEF Merge
<1> QED BY <1>1, <1>2, <1>6 DEF SerialsToApi, Request, Or

\* A serial port is as asked for, deleted or left alone.
LEMMA SerialsExact ==
    ASSUME IInv, pc = "ok", part = "serials"
    PROVE  \A l \in Leaves : Settled(l)
<1> USE DEF IInv
<1> SUFFICES ASSUME NEW i \in Serials PROVE Settled(<<i>>)
  BY DEF Leaves
<1>1. want[i] = Nil \/ want[i] \in PortObjects
  BY DEF TypeOK, Objects
<1>2. IF exists THEN before.serial \in PortsStored /\ seen = SerialsToSdk(before.serial)
      ELSE now.serial[i] = Nil /\ seen = Nil
  BY DEF Known, Answered, Fresh, Has, Guests, Nothing, ToSdk, PortsStored
<1>3. /\ IsAsked(<<i>>) <=> want[i] # Nil
      /\ Wanted(<<i>>) = IF want[i].delete THEN Nil
                         ELSE IF want[i].socket THEN "socket" ELSE want[i].path
      /\ \A ps : Value(ps, <<i>>) = ps.serial[i]
      /\ ~Lost(<<i>>)
  BY DEF IsAsked, Wanted, Value, Lost
<1>4. Valid(want, seen) => SerialsValid(want)
  BY DEF Valid
<1>5. want[i] # Nil => want[i].delete \/ (want[i].path = "") = want[i].socket
  BY <1>4 DEF SerialsValid, Known
<1>6. exists => LET had == IF seen = Nil THEN Nil ELSE seen[i] IN
          /\ had = Nil => before.serial[i] = Nil
          /\ had # Nil => /\ before.serial[i] = IF had.socket THEN "socket" ELSE had.path
  BY <1>2, PortsRead
<1>7. exists => LET had == IF seen = Nil THEN Nil ELSE seen[i] IN
          had # Nil /\ had.path = want[i].path /\ had.socket = want[i].socket =>
             before.serial[i] = IF want[i].socket THEN "socket" ELSE want[i].path
  BY <1>6
<1>8. Had(<<i>>) = IF exists THEN before.serial[i] ELSE now.serial[i]
  BY <1>3 DEF Had
<1>9. CASE want[i] = Nil
  BY <1>9, <1>3, PortsSent DEF Settled
<1>10. CASE want[i] # Nil /\ want[i].delete
  BY <1>10, <1>3, <1>2, <1>6, <1>8, PortsSent DEF Settled
<1>11. CASE want[i] # Nil /\ ~want[i].delete
  BY <1>11, <1>3, <1>2, <1>7, <1>8, PortsSent DEF Settled, PortToApi
<1> QED BY <1>9, <1>10, <1>11

\* The server has no reason to refuse a serial port.
LEMMA SerialsAccepted == ASSUME IInv, part = "serials" PROVE pc \notin {"rejected", "panic"}
  BY DEF IInv, Answered, ToApi, Accepts, Panics, Request

\* Serial ports are sent back as they were read.
LEMMA SerialsResend ==
    ASSUME IInv, part = "serials", want = held, others = 0, pc \in {"ok", "refused"}, held # Nil
    PROVE  pc = "ok" /\ params = before
<1> USE DEF IInv
<1>1. /\ before \in [serial : PortsStored] /\ exists
      /\ want = SerialsToSdk(before.serial) /\ seen = want /\ want # Nil
  BY DEF TypeOK, Known, Fresh, Alone, Has, Guests, ToSdk, PortsStored
<1>2. ASSUME NEW i \in Serials, want[i] # Nil
      PROVE  /\ before.serial[i] \in PortParams /\ i <= MaxSerial
             /\ ~want[i].delete
             /\ want[i].socket <=> before.serial[i] = "socket"
             /\ want[i].path = IF before.serial[i] = "socket" THEN "" ELSE before.serial[i]
             /\ want[i].socket \in BOOLEAN
  <2>1. before.serial \in PortsStored /\ want = SerialsToSdk(before.serial) /\ want # Nil
    BY <1>1
  <2>2. want \in [Serials -> {Nil} \cup PortObjects]
    BY <2>1, PortsRead
  <2> QED BY <1>2, <2>1, <2>2, PortsRead DEF PortsStored, PortObjects
<1>3. SerialsValid(want)
  <2> SUFFICES ASSUME NEW i \in Serials, want[i] # Nil
               PROVE  /\ i <= MaxSerial
                      /\ \/ want[i].delete
                         \/ /\ (want[i].path = "") = want[i].socket
                            /\ want[i].path # "invalid"
    BY DEF SerialsValid
  <2>1. before.serial[i] # "" /\ before.serial[i] # "invalid"
    BY <1>2 DEF PortParams, Texts
  <2>2. want[i].path = IF before.serial[i] = "socket" THEN "" ELSE before.serial[i]
    BY <1>2
  <2>3. want[i].socket = (before.serial[i] = "socket")
    <3>1. want[i].socket \in BOOLEAN
      BY <1>2
    <3> QED BY <3>1, <1>2
  <2>4. (want[i].path = "") = (before.serial[i] = "socket")
    BY <2>1, <2>2
  <2> QED BY <1>2, <2>1, <2>2, <2>3, <2>4
<1>4. pc = "ok" /\ now = before
  BY <1>1, <1>3 DEF Known, Valid, Alone
<1>5. \A i \in Serials : params.serial[i] = before.serial[i]
  <2> SUFFICES ASSUME NEW i \in Serials PROVE params.serial[i] = before.serial[i]
    OBVIOUS
  <2>1. CASE want[i] = Nil
    BY <2>1, <1>4, PortsSent
  <2>2. CASE want[i] # Nil
    <3>1. ~want[i].delete
      BY <2>2, <1>2
    <3> QED BY <3>1, <2>2, <1>1, <1>4, PortsSent
  <2> QED BY <2>1, <2>2
<1>6. params = [serial |-> params.serial] /\ DOMAIN params.serial = Serials
  BY <1>1, <1>4 DEF Answered, Carry, Indexed, ToApi, Request, Merge, PortsStored
<1>7. params.serial = [i \in Serials |-> params.serial[i]]
  BY <1>1, <1>4 DEF Answered, Carry, Indexed, ToApi, Request, Merge, PortsStored
<1>8. before.serial = [i \in Serials |-> before.serial[i]] /\ before = [serial |-> before.serial]
  BY <1>1 DEF PortsStored
<1> QED BY <1>4, <1>5, <1>6, <1>7, <1>8

-----------------------------------------------------------------------------
(* The tags.                                                               *)

\* What is read of the tags is a list of them.
LEMMA TagsReads == ASSUME part = "tags", NEW g \in [tags : {Nil} \cup TagParams]
                   PROVE  ToSdk(g) \in {Nil} \cup Seq(Strings)
<1>1. \A t \in Seq(Tags) : t \in Seq(Strings)
  BY QemuDevicesAssumption
<1> QED BY <1>1 DEF ToSdk, TagsToSdk, TagParams

\* The tags are those that are asked for, also if there are none.
LEMMA TagsExact == ASSUME IInv, pc = "ok", part = "tags" PROVE \A l \in Leaves : Settled(l)
<1> USE DEF IInv
<1>1. /\ want \in Seq(Strings) /\ want # Nil
      /\ DOMAIN now = {"tags"}
  BY NilObjects DEF TypeOK, Answered, Objects, Has, Guests, Nothing
<1>2. /\ params.tags = IF want = <<>> THEN Nil ELSE want
      /\ DOMAIN params = {"tags"}
  BY <1>1 DEF Answered, Carry, Indexed, ToApi, TagsToApi, Request, Or
<1>3. /\ IsAsked(<<"tags">>) /\ ~Lost(<<"tags">>)
      /\ Wanted(<<"tags">>) = IF want = <<>> THEN Nil ELSE want
      /\ Value(params, <<"tags">>) = params.tags
  BY DEF IsAsked, Wanted, Lost, Value
<1> QED BY <1>2, <1>3 DEF Leaves, Settled

\* The server has no reason to refuse tags.
LEMMA TagsAccepted == ASSUME IInv, part = "tags" PROVE pc \notin {"rejected", "panic"}
  BY DEF IInv, Answered, ToApi, Accepts, Panics, Request

\* Tags are sent back as they were read.
LEMMA TagsResend ==
    ASSUME IInv, part = "tags", want = held, others = 0, pc \in {"ok", "refused"}, held # Nil
    PROVE  pc = "ok" /\ params = before
<1> USE DEF IInv
<1>1. /\ before \in [tags : {Nil} \cup TagParams] /\ exists
      /\ want = before.tags /\ want # Nil
  BY DEF TypeOK, Known, Fresh, Alone, Has, Guests, ToSdk, TagsToSdk
<1>2. want \in Seq(Tags) /\ want # <<>> /\ \A i, j \in DOMAIN want : i < j => want[i] # want[j]
  BY <1>1 DEF TagParams
<1>3. TagsValid(want)
  BY <1>2 DEF TagsValid
<1>4. pc = "ok" /\ now = before
  BY <1>1, <1>3 DEF Known, Valid, Alone
<1>5. params.tags = want /\ params = [tags |-> params.tags]
  BY <1>1, <1>2, <1>4 DEF Answered, Carry, Indexed, ToApi, TagsToApi, Request, Or
<1> QED BY <1>1, <1>4, <1>5

-----------------------------------------------------------------------------
(* Network, USB and PCI devices.                                           *)

\* What is read of the network devices is an object.
LEMMA NetReads == ASSUME part = "net", NEW g \in [net : [Devices -> {Nil} \cup NetParams]]
                  PROVE  ToSdk(g) \in {Nil} \cup [Devices -> {Nil} \cup NetObjects]
<1>1. \A n \in NetParams : n \in NetObjects
  <2>1. {Nil} \cup (Texts \ {"nat"}) \subseteq {Nil} \cup Strings
    BY DEF Texts
  <2>2. \A m \in Nat : m \in Int
    OBVIOUS
  <2> QED BY <2>1, <2>2 DEF NetParams, NetObjects
<1>2. g.net \in [Devices -> {Nil} \cup NetObjects]
  BY <1>1
<1> QED BY <1>2 DEF ToSdk, Devs

\* A network device that is wanted is always sent.
LEMMA NetSends == ASSUME NEW d \in Devices, NEW w \in NetObjects
                  PROVE  NetToApi(VmId, d, w) \in NetObjects /\ NetToApi(VmId, d, w) # Nil
<1>1. VmId \in Nat /\ d \in Nat
  BY QemuSettingsAssumption
<1>2. RepeatableMac(VmId, d) \in Int
  BY <1>1 DEF RepeatableMac
<1>3. NetToApi(VmId, d, w) \in NetObjects
  BY <1>2, QemuDevicesAssumption DEF NetToApi, NetObjects
<1> QED BY <1>3, NilAssumption

\* A network device is as sent, or as it was.
LEMMA NetSent == ASSUME IInv, part = "net", pc \in {"ok", "rejected"}, NEW d \in Devices
    PROVE  /\ want[d] = Nil \/ want[d] \in NetObjects
           /\ Carry(ToApi(want, seen), now).net[d] =
                 IF want[d] = Nil THEN now.net[d] ELSE NetToApi(VmId, d, want[d])
<1> DEFINE set == [e \in Devices |-> IF want[e] = Nil THEN Nil ELSE NetToApi(VmId, e, want[e])]
<1>1. /\ want[d] = Nil \/ want[d] \in NetObjects
      /\ DOMAIN now = {"net"} /\ DOMAIN now.net = Devices
  BY DEF IInv, TypeOK, Answered, Objects, Has, Guests, Nothing
<1>2. ToApi(want, seen) = Request([net |-> Request(set, {})], {})
  BY DEF ToApi
<1>3. set[d] = IF want[d] = Nil THEN Nil ELSE NetToApi(VmId, d, want[d])
  OBVIOUS
<1> HIDE DEF set
<1>4. ToApi(want, seen).set.net = Request(set, {}) /\ ToApi(want, seen).delete = {}
  BY <1>2 DEF Request
<1>5. Carry(ToApi(want, seen), now).net = Merge(set, {}, now.net)
  BY <1>1, <1>4 DEF Carry, Indexed, Request
<1>6. Carry(ToApi(want, seen), now).net[d] = Or(set[d], now.net[d])
  BY <1>1, <1>5 DEF Merge
<1> QED BY <1>1, <1>3, <1>6, NetSends DEF Or

\* A network device is as asked for, and the others are left alone.
LEMMA NetExact == ASSUME IInv, pc = "ok", part = "net" PROVE \A l \in Leaves : Settled(l)
<1> USE DEF IInv
<1> SUFFICES ASSUME NEW d \in Devices PROVE Settled(<<d>>)
  BY DEF Leaves
<1>2. params.net[d] = IF want[d] = Nil THEN now.net[d] ELSE NetToApi(VmId, d, want[d])
  BY NetSent DEF Answered
<1>3. /\ IsAsked(<<d>>) <=> want[d] # Nil
      /\ Wanted(<<d>>) = NetToApi(VmId, d, want[d])
      /\ \A ps : Value(ps, <<d>>) = ps.net[d]
      /\ ~Lost(<<d>>)
  BY DEF IsAsked, Wanted, Value, Lost
<1> QED BY <1>2, <1>3 DEF Settled

\* Only a device without a bridge makes mapToAPI panic.
LEMMA NetAccepted == ASSUME IInv, part = "net", pc \in {"rejected", "panic"} PROVE Unsendable
<1>1. pc = "panic"
  BY DEF IInv, Answered, ToApi, Accepts, Request
<1> QED BY <1>1 DEF IInv, Answered, Panics, NetPanics, Unsendable

\* A network device that has a bridge is sent back as it was read.
LEMMA NetResend ==
    ASSUME IInv, part = "net", want = held, others = 0, pc \in {"ok", "refused"}, held # Nil
    PROVE  pc = "ok" /\ params = before
<1> USE DEF IInv
<1>1. /\ before \in [net : [Devices -> {Nil} \cup NetParams]] /\ exists
      /\ want = before.net
  BY DEF TypeOK, Known, Fresh, Alone, Has, Guests, ToSdk, Devs
<1>2. pc = "ok" /\ now = before
  BY <1>1 DEF Known, Valid, Alone
<1>3. ASSUME NEW d \in Devices PROVE params.net[d] = before.net[d]
  <2>1. params.net[d] = IF want[d] = Nil THEN now.net[d] ELSE NetToApi(VmId, d, want[d])
    BY <1>2, NetSent DEF Answered
  <2>2. CASE want[d] = Nil
    BY <2>1, <2>2, <1>1, <1>2
  <2>3. CASE want[d] # Nil
    <3>1. want[d] \in NetParams /\ want[d].bridge # Nil
      BY <2>3, <1>1, <1>2 DEF Answered, Panics, NetPanics
    <3>2. NetToApi(VmId, d, want[d]) = want[d]
      BY <3>1 DEF NetToApi, NetParams, NoMac, Repeatable
    <3> QED BY <2>1, <2>3, <3>2, <1>1
  <2> QED BY <2>2, <2>3
<1>4. params = [net |-> params.net] /\ params.net = [d \in Devices |-> params.net[d]]
  BY ZenonT(60), <1>1, <1>2 DEF Answered, Carry, Indexed, ToApi, Request, Merge
<1>5. before = [net |-> before.net] /\ before.net = [d \in Devices |-> before.net[d]]
  BY <1>1
<1> QED BY <1>2, <1>3, <1>4, <1>5

\* What is read of the USB devices is an object.
LEMMA UsbReads == ASSUME part = "usb", NEW g \in [usb : [Devices -> {Nil} \cup UsbParams]]
                  PROVE  ToSdk(g) \in {Nil} \cup [Devices -> {Nil} \cup UsbObjects]
<1>1. ASSUME NEW d \in Devices, g.usb[d] # Nil PROVE UsbToSdk(d, g.usb[d]) \in UsbObjects
  BY <1>1, QemuSettingsAssumption DEF UsbToSdk, UsbParams, UsbObjects
<1> QED BY <1>1 DEF ToSdk, Devs

\* A USB device that is wanted is always sent.
LEMMA UsbSends == ASSUME NEW w \in UsbObjects PROVE UsbToApi(w) # Nil
<1>1. UsbToApi(w) \in UsbObjects
  BY DEF UsbToApi, UsbObjects, NonZero
<1> QED BY <1>1, NilAssumption

\* A USB device is as sent, or as it was.
LEMMA UsbSent == ASSUME IInv, part = "usb", pc \in {"ok", "rejected"}, NEW d \in Devices
    PROVE  /\ want[d] = Nil \/ want[d] \in UsbObjects
           /\ Carry(ToApi(want, seen), now).usb[d] =
                 IF want[d] = Nil THEN now.usb[d] ELSE UsbToApi(want[d])
<1> DEFINE set == [e \in Devices |-> IF want[e] = Nil THEN Nil ELSE UsbToApi(want[e])]
<1>1. /\ want[d] = Nil \/ want[d] \in UsbObjects
      /\ DOMAIN now = {"usb"} /\ DOMAIN now.usb = Devices
  BY DEF IInv, TypeOK, Answered, Objects, Has, Guests, Nothing
<1>2. ToApi(want, seen) = Request([usb |-> Request(set, {})], {})
  BY DEF ToApi
<1>3. set[d] = IF want[d] = Nil THEN Nil ELSE UsbToApi(want[d])
  OBVIOUS
<1> HIDE DEF set
<1>4. ToApi(want, seen).set.usb = Request(set, {}) /\ ToApi(want, seen).delete = {}
  BY <1>2 DEF Request
<1>5. Carry(ToApi(want, seen), now).usb = Merge(set, {}, now.usb)
  BY <1>1, <1>4 DEF Carry, Indexed, Request
<1>6. Carry(ToApi(want, seen), now).usb[d] = Or(set[d], now.usb[d])
  BY <1>1, <1>5 DEF Merge
<1> QED BY <1>1, <1>3, <1>6, UsbSends DEF Or

\* A USB device is as asked for, and the others are left alone.
LEMMA UsbExact == ASSUME IInv, pc = "ok", part = "usb" PROVE \A l \in Leaves : Settled(l)
<1> USE DEF IInv
<1> SUFFICES ASSUME NEW d \in Devices PROVE Settled(<<d>>)
  BY DEF Leaves
<1>2. params.usb[d] = IF want[d] = Nil THEN now.usb[d] ELSE UsbToApi(want[d])
  BY UsbSent DEF Answered
<1>3. /\ IsAsked(<<d>>) <=> want[d] # Nil
      /\ Wanted(<<d>>) = UsbToApi(want[d])
      /\ \A ps : Value(ps, <<d>>) = ps.usb[d]
      /\ ~Lost(<<d>>)
  BY DEF IsAsked, Wanted, Value, Lost
<1> QED BY <1>2, <1>3 DEF Settled

\* The server refuses only a USB device with an id, or without a host.
LEMMA UsbAccepted == ASSUME IInv, part = "usb", pc \in {"rejected", "panic"} PROVE Unsendable
<1> USE DEF IInv
<1> DEFINE after == Carry(ToApi(want, seen), now)
<1>1. PICK d \in Devices : after.usb[d] # Nil /\ (after.usb[d].id # Nil \/ after.usb[d].host = Nil)
  BY DEF Answered, Panics, Accepts, ToApi, Request
<1>2. after.usb[d] = IF want[d] = Nil THEN now.usb[d] ELSE UsbToApi(want[d])
  BY UsbSent DEF Answered, Panics
<1>3. now.usb[d] # Nil => now.usb[d].id = Nil /\ now.usb[d].host # Nil
  <2>1. now.usb[d] = Nil \/ now.usb[d] \in UsbParams
    BY DEF Answered, Has, Guests, Nothing
  <2> QED BY <2>1, OptionalAssumption DEF UsbParams, Texts
<1>4. want[d] # Nil /\ (NonZero(want[d].id) # Nil \/ want[d].host = Nil)
  BY <1>1, <1>2, <1>3 DEF UsbToApi
<1> QED BY <1>4 DEF Unsendable

\* USB devices as they are read have an id and are refused.
LEMMA UsbResend ==
    ASSUME IInv, part = "usb", want = held, others = 0, pc \in {"ok", "refused"}, held # Nil
    PROVE  pc = "ok" /\ params = before
<1> USE DEF IInv
<1>1. /\ before \in [usb : [Devices -> {Nil} \cup UsbParams]] /\ exists
      /\ want = [d \in Devices |-> IF before.usb[d] = Nil THEN Nil ELSE UsbToSdk(d, before.usb[d])]
  BY DEF TypeOK, Known, Fresh, Alone, Has, Guests, ToSdk, Devs
<1>2. pc = "ok" /\ now = before
  BY <1>1 DEF Known, Valid, Alone
<1>3. ASSUME NEW d \in Devices PROVE params.usb[d] = before.usb[d]
  <2>2. want[d] = Nil \/ want[d] \in UsbObjects
    BY DEF TypeOK, Objects
  <2>3. params.usb[d] = IF want[d] = Nil THEN now.usb[d] ELSE UsbToApi(want[d])
    BY <1>2, UsbSent DEF Answered
  <2>4. CASE before.usb[d] = Nil
    BY <2>3, <2>4, <1>1, <1>2
  <2>5. CASE before.usb[d] # Nil
    <3>1. want[d] = UsbToSdk(d, before.usb[d]) /\ before.usb[d] \in UsbParams
      BY <2>5, <1>1
    <3>2. want[d] # Nil
      BY <3>1, <2>2, NilAssumption, QemuSettingsAssumption DEF UsbToSdk, UsbObjects, UsbParams
    <3>3. params.usb[d] # Nil => params.usb[d].id = Nil /\ params.usb[d].host # Nil
      BY <1>2 DEF Answered, Accepts
    <3>4. params.usb[d] = UsbToApi(want[d]) /\ params.usb[d] # Nil
      BY <2>2, <2>3, <3>2, UsbSends
    <3> QED BY <3>1, <3>3, <3>4 DEF UsbToApi, UsbToSdk, UsbParams
  <2> QED BY <2>4, <2>5
<1>4. params = [usb |-> params.usb] /\ params.usb = [d \in Devices |-> params.usb[d]]
  BY <1>1, <1>2 DEF Answered, Carry, Indexed, ToApi, Request, Merge
<1>5. before = [usb |-> before.usb] /\ before.usb = [d \in Devices |-> before.usb[d]]
  BY <1>1
<1> QED BY <1>2, <1>3, <1>4, <1>5

\* What is read of the PCI devices: they all come with the id 0, so that one is
\* left of them.
LEMMA PcisRead == ASSUME NEW f \in [Devices -> {Nil} \cup PciParams]
                  PROVE  /\ PcisToSdk(f) \in {Nil} \cup [Devices -> {Nil} \cup PciObjects]
                         /\ PcisToSdk(f) # Nil =>
                               \A d \in Devices : IF d = 0 THEN PcisToSdk(f)[d] # Nil /\ PcisToSdk(f)[d].id = 0
                                                  ELSE PcisToSdk(f)[d] = Nil
                         /\ PcisToSdk(f) = Nil => \A d \in Devices : f[d] = Nil
<1> DEFINE hosts == {f[d].host : d \in {e \in Devices : f[e] # Nil}}
           host == CHOOSE h \in hosts : TRUE
           pcis == [d \in Devices |-> IF d = 0 THEN [id |-> 0, host |-> host] ELSE Nil]
<1>1. PcisToSdk(f) = IF hosts = {} THEN Nil ELSE pcis
  BY DEF PcisToSdk
<1>2. hosts = {} => \A d \in Devices : f[d] = Nil
  OBVIOUS
<1>3. ASSUME hosts # {} PROVE host \in Texts
  <2>1. \A h \in hosts : h \in Texts
    BY DEF PciParams
  <2>2. host \in hosts
    BY <1>3
  <2> HIDE DEF hosts, host
  <2> QED BY <2>1, <2>2
<1>4. ASSUME host \in Texts
      PROVE  [id |-> 0, host |-> host] \in PciObjects /\ [id |-> 0, host |-> host] # Nil
  <2> HIDE DEF host
  <2>1. [id |-> 0, host |-> host] \in PciObjects
    BY <1>4 DEF PciObjects
  <2> QED BY <2>1, NilAssumption
<1>5. Nil \notin [Devices -> {Nil} \cup PciObjects]
  BY NilAssumption DEF AllParts, Objects
<1> HIDE DEF hosts, host
<1>6. hosts # {} => /\ pcis \in [Devices -> {Nil} \cup PciObjects]
                    /\ \A d \in Devices : IF d = 0 THEN pcis[d] # Nil /\ pcis[d].id = 0 ELSE pcis[d] = Nil
  BY <1>3, <1>4
<1> HIDE DEF pcis
<1> QED BY <1>1, <1>2, <1>5, <1>6

\* What is read of the PCI devices is an object.
LEMMA PciReads == ASSUME part = "hostpci", NEW g \in [hostpci : [Devices -> {Nil} \cup PciParams]]
                  PROVE  ToSdk(g) \in {Nil} \cup [Devices -> {Nil} \cup PciObjects]
<1>1. ToSdk(g) = PcisToSdk(g.hostpci)
  BY DEF ToSdk
<1> QED BY <1>1, PcisRead

\* A PCI device is as sent, or as it was.
LEMMA PciSent == ASSUME IInv, part = "hostpci", pc \in {"ok", "rejected"}, NEW d \in Devices
    PROVE  /\ want[d] = Nil \/ want[d] \in PciObjects
           /\ Carry(ToApi(want, seen), now).hostpci[d] = Or(want[d], now.hostpci[d])
<1> DEFINE set == [e \in Devices |-> IF want[e] = Nil THEN Nil ELSE PciToApi(want[e])]
<1>1. /\ want[d] = Nil \/ want[d] \in PciObjects
      /\ DOMAIN now = {"hostpci"} /\ DOMAIN now.hostpci = Devices
  BY DEF IInv, TypeOK, Answered, Objects, Has, Guests, Nothing
<1>2. ToApi(want, seen) = Request([hostpci |-> Request(set, {})], {})
  BY DEF ToApi
<1>3. set[d] = want[d]
  BY DEF PciToApi
<1> HIDE DEF set
<1>4. ToApi(want, seen).set.hostpci = Request(set, {}) /\ ToApi(want, seen).delete = {}
  BY <1>2 DEF Request
<1>5. Carry(ToApi(want, seen), now).hostpci = Merge(set, {}, now.hostpci)
  BY <1>1, <1>4 DEF Carry, Indexed, Request
<1>6. Carry(ToApi(want, seen), now).hostpci[d] = Or(set[d], now.hostpci[d])
  BY <1>1, <1>5 DEF Merge
<1> QED BY <1>1, <1>3, <1>6

\* A PCI device is as asked for, and the others are left alone.
LEMMA PciExact == ASSUME IInv, pc = "ok", part = "hostpci" PROVE \A l \in Leaves : Settled(l)
<1> USE DEF IInv
<1> SUFFICES ASSUME NEW d \in Devices PROVE Settled(<<d>>)
  BY DEF Leaves
<1>1. params.hostpci[d] = Or(want[d], now.hostpci[d])
  BY PciSent DEF Answered
<1>2. /\ IsAsked(<<d>>) <=> want[d] # Nil
      /\ Wanted(<<d>>) = want[d]
      /\ \A ps : Value(ps, <<d>>) = ps.hostpci[d]
      /\ ~Lost(<<d>>)
  BY DEF IsAsked, Wanted, Value, Lost, PciToApi
<1> QED BY <1>1, <1>2 DEF Settled, Or

\* The server refuses only a PCI device with an id.
LEMMA PciAccepted ==
    ASSUME IInv, part = "hostpci", pc \in {"rejected", "panic"}
    PROVE  Unsendable
<1> USE DEF IInv
<1> DEFINE after == Carry(ToApi(want, seen), now)
<1>1. PICK d \in Devices : after.hostpci[d] # Nil /\ after.hostpci[d].id # Nil
  BY DEF Answered, Panics, Accepts, ToApi, Request
<1>2. after.hostpci[d] = Or(want[d], now.hostpci[d])
  BY PciSent DEF Answered, Panics
<1>3. now.hostpci[d] # Nil => now.hostpci[d].id = Nil
  <2>1. now.hostpci[d] = Nil \/ now.hostpci[d] \in PciParams
    BY DEF Answered, Has, Guests, Nothing
  <2> QED BY <2>1 DEF PciParams
<1>4. want[d] # Nil /\ want[d].id # Nil
  BY <1>1, <1>2, <1>3 DEF Or
<1> QED BY <1>4 DEF Unsendable

\* PCI devices as they are read have an id and are refused.
LEMMA PciResend ==
    ASSUME IInv, part = "hostpci", want = held, others = 0, pc \in {"ok", "refused"}, held # Nil
    PROVE  pc = "ok" /\ params = before
<1> USE DEF IInv
<1>1. /\ before \in [hostpci : [Devices -> {Nil} \cup PciParams]] /\ exists
      /\ want = PcisToSdk(before.hostpci)
  BY DEF TypeOK, Known, Fresh, Alone, Has, Guests, ToSdk
<1>2. pc = "ok" /\ now = before
  BY <1>1 DEF Known, Valid, Alone
<1>3. ASSUME NEW d \in Devices PROVE params.hostpci[d] = before.hostpci[d]
  <2>1. params.hostpci[d] = Or(want[d], before.hostpci[d])
    BY <1>2, PciSent DEF Answered
  <2>2. params.hostpci[d] # Nil => params.hostpci[d].id = Nil
    BY <1>2 DEF Answered, Accepts
  <2>3. IF d = 0 THEN want[d] # Nil /\ want[d].id = 0 ELSE want[d] = Nil
    BY <1>1, PcisRead
  <2> QED BY <2>1, <2>2, <2>3, NilAssumption DEF Or
<1>4. params = [hostpci |-> params.hostpci] /\ params.hostpci = [d \in Devices |-> params.hostpci[d]]
  BY ZenonT(60), <1>1, <1>2 DEF Answered, Carry, Indexed, ToApi, Request, Merge
<1>5. before = [hostpci |-> before.hostpci] /\ before.hostpci = [d \in Devices |-> before.hostpci[d]]
  BY <1>1
<1> QED BY <1>2, <1>3, <1>4, <1>5

-----------------------------------------------------------------------------
(* The plain options.                                                      *)

\* What is read of the options, with the defaults.
LEMMA OptionsRead == ASSUME NEW g \in OptionParams, NEW o, o = OptionsToSdk(g)
    PROVE  /\ o \in OptionObjects
           /\ o.name = Or(g.name, "") /\ o.boot = Or(g.boot, "cdn")
           /\ o.onboot = Or(g.onboot, TRUE) /\ o.description = g.description
<1>1. DOMAIN g = {"name", "boot", "onboot", "description"}
  BY DEF OptionParams
<1>2. o = [p \in {"name", "boot", "onboot", "description"} |-> Or(g[p], OptionDefaults[p])]
  BY <1>1 DEF OptionsToSdk
<1>3. /\ o.name = Or(g.name, "") /\ o.boot = Or(g.boot, "cdn")
      /\ o.onboot = Or(g.onboot, TRUE) /\ o.description = g.description
  BY <1>2 DEF OptionDefaults, Or
<1>4. o = [name |-> o.name, boot |-> o.boot, onboot |-> o.onboot, description |-> o.description]
  BY <1>2
<1>5. /\ o.name \in Strings /\ o.boot \in Strings
      /\ o.onboot \in {Nil} \cup BOOLEAN /\ o.description \in {Nil} \cup Strings
  BY <1>3, QemuDevicesAssumption, QemuCpuAssumption DEF OptionParams, Or, Texts
<1> QED BY <1>3, <1>4, <1>5 DEF OptionObjects

\* What is read of the options is an object.
LEMMA OptionsReads ==
    ASSUME part = "options", NEW g \in OptionParams
    PROVE  ToSdk(g) \in OptionObjects
<1>1. ToSdk(g) = OptionsToSdk(g)
  BY DEF ToSdk
<1> QED BY <1>1, OptionsRead

\* What is sent of the options.
LEMMA OptionsSent == ASSUME IInv, part = "options", pc = "ok"
    PROVE  /\ want \in OptionObjects
           /\ DOMAIN params = {"name", "boot", "onboot", "description"}
           /\ params = [p \in DOMAIN params |-> params[p]]
           /\ params.name = Or(NonEmpty(want.name), now.name)
           /\ params.boot = Or(NonEmpty(want.boot), now.boot)
           /\ params.onboot = Or(want.onboot, now.onboot)
           /\ params.description =
                 IF want.description = "" /\ (seen = Nil \/ seen.description = Nil) THEN now.description
                 ELSE IF want.description = "" THEN Nil ELSE Or(want.description, now.description)
<1> USE DEF IInv
<1>1. want \in OptionObjects
  BY DEF TypeOK, Objects
<1>2. now \in OptionParams \/ now = [q \in DOMAIN OptionDefaults |-> Nil]
  BY DEF Answered, Has, Guests, Nothing
<1>3. DOMAIN now = {"name", "boot", "onboot", "description"}
  BY <1>2 DEF OptionParams, OptionDefaults
<1>4. params = Carry(Request(OptionsToApi(want, seen), {}), now)
  BY DEF Answered, ToApi
<1>5. Nil # ""
  BY QemuCpuAssumption, OptionalAssumption
<1> QED BY <1>1, <1>3, <1>4, <1>5 DEF Carry, Indexed, Request, OptionsToApi, Or

\* Each option is as asked for, or left alone if it is not.
LEMMA OptionsExact ==
    ASSUME IInv, pc = "ok", part = "options"
    PROVE  \A l \in Leaves : Settled(l)
<1> USE DEF IInv
<1>1. /\ \A ps : /\ Value(ps, <<"name">>) = ps.name /\ Value(ps, <<"boot">>) = ps.boot
                 /\ Value(ps, <<"onboot">>) = ps.onboot
                 /\ Value(ps, <<"description">>) = ps.description
      /\ \A f : ~Shared(<<f>>)
  BY DEF Value, Shared
<1>2. IF exists THEN before \in OptionParams /\ seen = OptionsToSdk(before)
      ELSE seen = Nil /\ now.description = Nil
  BY DEF Known, Answered, Fresh, Has, Guests, Nothing, ToSdk, OptionDefaults
<1>3. exists => seen # Nil /\ seen.description = before.description
  <2>1. exists => ToSdk(before) \in OptionObjects /\ ToSdk(before) = OptionsToSdk(before)
    BY <1>2, OptionsReads DEF ToSdk
  <2> QED BY <1>2, <2>1, OptionsRead, NilAssumption DEF AllParts, Objects
<1>5. /\ IsAsked(<<"name">>) <=> want.name # ""
      /\ Wanted(<<"name">>) = want.name
      /\ IsAsked(<<"boot">>) <=> want.boot # ""
      /\ Wanted(<<"boot">>) = want.boot
      /\ IsAsked(<<"onboot">>) <=> want.onboot # Nil
      /\ Wanted(<<"onboot">>) = want.onboot
      /\ IsAsked(<<"description">>) <=> want.description # Nil
      /\ Wanted(<<"description">>) = NonEmpty(want.description)
  BY DEF IsAsked, Wanted, Field
<1>3a. want.name \in Strings /\ want.boot \in Strings
  BY OptionsSent DEF OptionObjects
<1>4. Settled(<<"name">>)
  <2>1. CASE want.name = ""
    <3>1. params.name = now.name
      BY <2>1, NonEmptyTexts, OptionsSent DEF Or
    <3> QED BY <2>1, <3>1, <1>1, <1>5 DEF Settled
  <2>2. CASE want.name # ""
    BY <2>2, <1>1, <1>3a, <1>5, NonEmptyTexts, OptionsSent DEF Settled, Or, NonEmpty
  <2> QED BY <2>1, <2>2
<1>4b. Settled(<<"boot">>)
  <2>1. CASE want.boot = ""
    <3>1. params.boot = now.boot
      BY <2>1, NonEmptyTexts, OptionsSent DEF Or
    <3> QED BY <2>1, <3>1, <1>1, <1>5 DEF Settled
  <2>2. CASE want.boot # ""
    BY <2>2, <1>1, <1>3a, <1>5, NonEmptyTexts, OptionsSent DEF Settled, Or, NonEmpty
  <2> QED BY <2>1, <2>2
<1>6. Settled(<<"onboot">>)
  BY ZenonT(60), <1>1, <1>5, OptionsSent DEF Settled, Or
<1>7. Settled(<<"description">>)
  <2>1. CASE want.description = ""
    <3>1. Had(<<"description">>) = IF exists THEN before.description ELSE now.description
      BY <1>1 DEF Had
    <3>2. IsAsked(<<"description">>) /\ Wanted(<<"description">>) = Nil
      BY <1>5, <2>1, NilValues DEF NonEmpty
    <3>3. CASE seen = Nil \/ seen.description = Nil
      <4>1. Had(<<"description">>) = Nil /\ params.description = now.description
        BY <3>1, <3>3, <2>1, <1>2, <1>3, OptionsSent
      <4> QED BY <4>1, <3>2, <1>1 DEF Settled
    <3>4. CASE ~(seen = Nil \/ seen.description = Nil)
      <4>1. params.description = Nil
        BY <3>4, <2>1, OptionsSent
      <4> QED BY <4>1, <3>2, <1>1 DEF Settled
    <3> QED BY <3>3, <3>4
  <2>2. CASE want.description # ""
    <3>1. Wanted(<<"description">>) = want.description
      BY <1>5, <2>2 DEF NonEmpty
    <3>2. params.description = Or(want.description, now.description)
      BY <2>2, OptionsSent
    <3> QED BY <3>1, <3>2, <1>1, <1>5 DEF Settled, Or
  <2> QED BY <2>1, <2>2
<1> QED BY <1>4, <1>4b, <1>6, <1>7, OptionsSent DEF Leaves

\* The server has no reason to refuse an option.
LEMMA OptionsAccepted == ASSUME IInv, part = "options" PROVE pc \notin {"rejected", "panic"}
  BY DEF IInv, Answered, ToApi, Accepts, Panics, Request

\* Options are sent back as they were read; those that the guest does not have get
\* their defaults.
LEMMA OptionsResend ==
    ASSUME IInv, part = "options", want = held, others = 0, pc \in {"ok", "refused"}, held # Nil
    PROVE  /\ pc = "ok"
           /\ \A p \in DOMAIN params : params[p] = before[p] \/
                 (before[p] = Nil /\ params[p] = OptionDefaults[p])
<1> USE DEF IInv
<1>1. before \in OptionParams /\ exists /\ want = OptionsToSdk(before)
  BY DEF TypeOK, Known, Fresh, Alone, Has, Guests, ToSdk
<1>2. pc = "ok" /\ now = before
  BY <1>1 DEF Known, Valid, Alone
<1>3. /\ want.name = Or(before.name, "") /\ want.boot = Or(before.boot, "cdn")
      /\ want.onboot = Or(before.onboot, TRUE) /\ want.description = before.description
  BY <1>1, OptionsRead
<1>4. /\ before.name \in {Nil} \cup Texts /\ before.boot \in {Nil} \cup Texts
      /\ before.onboot \in {Nil} \cup BOOLEAN /\ before.description \in {Nil} \cup Texts
  BY <1>1 DEF OptionParams
<1>5. params.name = before.name
  <2>1. CASE before.name = Nil
    BY <2>1, <1>2, <1>3, NonEmptyTexts, OptionsSent DEF Or
  <2>2. CASE before.name # Nil
    BY <2>2, <1>2, <1>3, <1>4, NonEmptyTexts, OptionsSent DEF Or
  <2> QED BY <2>1, <2>2
<1>6. params.boot = before.boot \/ (before.boot = Nil /\ params.boot = "cdn")
  <2>1. CASE before.boot = Nil
    BY <2>1, <1>2, <1>3, NonEmptyTexts, NilValues, QemuDevicesAssumption, OptionsSent DEF Or
  <2>2. CASE before.boot # Nil
    BY <2>2, <1>2, <1>3, <1>4, NonEmptyTexts, OptionsSent DEF Or
  <2> QED BY <2>1, <2>2
<1>7. params.onboot = before.onboot \/ (before.onboot = Nil /\ params.onboot = TRUE)
  BY <1>2, <1>3, OptionsSent DEF Or
<1>8. params.description = before.description
  <2>1. want.description # ""
    BY <1>3, <1>4, NilValues
  <2> QED BY <2>1, <1>2, <1>3, OptionsSent DEF Or
<1>9. /\ OptionDefaults["boot"] = "cdn" /\ OptionDefaults["onboot"] = TRUE
      /\ params["boot"] = params.boot /\ params["onboot"] = params.onboot
  BY DEF OptionDefaults
<1>10. DOMAIN params = {"name", "boot", "onboot", "description"}
  BY <1>2, OptionsSent
<1> QED BY <1>2, <1>5, <1>6, <1>7, <1>8, <1>9, <1>10

-----------------------------------------------------------------------------
(* The display, the random number generator and the EFI disk.              *)

\* What is sent of a device, and what of it if that is what there is.
LEMMA Words == ASSUME NEW w \in WordObjects
    PROVE  Word(w.type, w.memory) =
               IF NonEmpty(w.type) = Nil /\ NonZero(w.memory) = Nil THEN Nil
               ELSE [type |-> NonEmpty(w.type), memory |-> NonZero(w.memory), bare |-> FALSE]
  BY DEF Word

\* A display or generator with a type or a number is sent.
LEMMA WordSent == ASSUME NEW w \in WordObjects, NonEmpty(w.type) # Nil \/ NonZero(w.memory) # Nil
    PROVE  Word(w.type, w.memory) # Nil
<1>1. NonEmpty(w.type) \in {Nil} \cup Strings /\ NonZero(w.memory) \in {Nil} \cup Nat
  BY DEF WordObjects, NonEmpty, NonZero
<1>2. [type |-> NonEmpty(w.type), memory |-> NonZero(w.memory), bare |-> FALSE]
          \in [type : {Nil} \cup Strings, memory : {Nil} \cup Nat, bare : BOOLEAN]
  BY <1>1
<1> QED BY <1>2, NilAssumption DEF Word

\* One with neither is not.
LEMMA NothingSent == Word(Nil, Nil) = Nil
<1>1. NonEmpty(Nil) = Nil
  BY NonEmptyTexts
<1>2. NonZero(Nil) = Nil
  BY NonZeroNumbers
<1> QED BY <1>1, <1>2 DEF Word

\* What is read of the display is an object.
LEMMA VgaReads == ASSUME part = "vga", NEW g \in [vga : {Nil} \cup WordParams]
                  PROVE  ToSdk(g) \in WordObjects
  BY DEF ToSdk, VgaToSdk, WordParams, WordObjects, Texts

\* What is read of the random number generator is an object.
LEMMA RngReads == ASSUME part = "rng", NEW g PROVE ToSdk(g) \in WordObjects
  BY DEF ToSdk, RngToSdk, WordObjects

\* The display, and the generator, are as asked for or left alone.
LEMMA WordExact ==
    ASSUME IInv, pc = "ok", part \in {"vga", "rng"}
    PROVE  \A l \in Leaves : Settled(l)
<1> USE DEF IInv
<1>1. want \in WordObjects /\ DOMAIN now = {part}
  BY DEF TypeOK, Answered, Objects, Has, Guests, Nothing
<1>2. DOMAIN params = {part} /\ params[part] = Or(Word(want.type, want.memory), now[part])
  <2>1. CASE part = "vga"
    BY <2>1, <1>1 DEF Answered, Carry, Indexed, ToApi, Request, VgaToApi
  <2>2. CASE part = "rng"
    BY <2>2, <1>1 DEF Answered, Carry, Indexed, ToApi, Request, RngToApi
  <2> QED BY <2>1, <2>2
<1>3. /\ IsAsked(<<part>>) <=> NonEmpty(want.type) # Nil \/ NonZero(want.memory) # Nil
      /\ Wanted(<<part>>) =
            [type |-> NonEmpty(want.type), memory |-> NonZero(want.memory), bare |-> FALSE]
      /\ \A ps : Value(ps, <<part>>) = ps[part]
      /\ ~Lost(<<part>>)
  BY DEF IsAsked, Wanted, Value, Lost
<1>4. Settled(<<part>>)
  BY <1>1, <1>2, <1>3, Words, WordSent DEF Settled, Or
<1> QED BY <1>2, <1>4 DEF Leaves

\* The server has no reason to refuse them.
LEMMA WordAccepted == ASSUME IInv, part \in {"vga", "rng"} PROVE pc \notin {"rejected", "panic"}
  BY DEF IInv, Answered, ToApi, Accepts, Panics, Request

\* A display is sent back as it was read unless it was written as a bare word.
LEMMA VgaResend ==
    ASSUME IInv, part = "vga", want = held, others = 0, pc \in {"ok", "refused"}, held # Nil
    PROVE  /\ pc = "ok"
           /\ \/ params = before
              \/ before.vga.bare /\ params.vga = [type |-> Nil, memory |-> before.vga.memory, bare |-> FALSE]
<1> USE DEF IInv
<1>1. before \in [vga : {Nil} \cup WordParams] /\ exists /\ want = VgaToSdk(before.vga)
  BY DEF TypeOK, Known, Fresh, Alone, Has, Guests, ToSdk
<1>2. pc = "ok" /\ now = before
  BY <1>1 DEF Known, Valid, Alone
<1>3. want \in WordObjects
  BY DEF TypeOK, Objects
<1>4. /\ params = [vga |-> params.vga] /\ params.vga = Or(Word(want.type, want.memory), before.vga)
      /\ before = [vga |-> before.vga]
  BY <1>1, <1>2 DEF Answered, Carry, Indexed, ToApi, Request, VgaToApi
<1>5. CASE before.vga = Nil
  <2>1. want = [type |-> Nil, memory |-> Nil]
    BY <1>1, <1>5 DEF VgaToSdk
  <2>2. Word(want.type, want.memory) = Nil
    BY <2>1, NothingSent
  <2> QED BY <1>2, <1>4, <2>2 DEF Or
<1>6. CASE before.vga # Nil
  <2>1. /\ before.vga \in [type : {Nil} \cup Texts, memory : {Nil} \cup (Nat \ {0}), bare : BOOLEAN]
        /\ before.vga.bare \/ before.vga.type # Nil \/ before.vga.memory # Nil
    BY <1>1, <1>6 DEF WordParams
  <2>2. want = [type |-> IF before.vga.bare THEN Nil ELSE before.vga.type, memory |-> before.vga.memory]
    BY <1>1, <1>6 DEF VgaToSdk
  <2>3. NonEmpty(want.type) = want.type /\ NonZero(want.memory) = want.memory
    <3>1. want.type \in {Nil} \cup Texts
      BY <2>1, <2>2
    <3>2. want.memory \in {Nil} \cup (Nat \ {0})
      BY <2>1, <2>2
    <3> QED BY <3>1, <3>2, NonEmptyTexts, NonZeroNumbers
  <2>4. CASE want.type = Nil /\ want.memory = Nil
    BY <2>3, <2>4, <1>2, <1>3, <1>4, Words DEF Or
  <2>5. CASE want.type # Nil \/ want.memory # Nil
    <3>1. params.vga = [type |-> want.type, memory |-> want.memory, bare |-> FALSE]
      BY <2>3, <2>5, <1>3, <1>4, Words, WordSent DEF Or
    <3>2. CASE before.vga.bare
      BY <3>1, <3>2, <2>2, <1>2
    <3>3. CASE ~before.vga.bare
      <4>1. before.vga = [type |-> before.vga.type, memory |-> before.vga.memory, bare |-> FALSE]
        BY <2>1, <3>3
      <4>2. params.vga = before.vga
        BY <4>1, <3>1, <3>3, <2>2
      <4> QED BY <4>2, <1>2, <1>4
    <3> QED BY <3>2, <3>3
  <2> QED BY <2>4, <2>5
<1> QED BY <1>5, <1>6

\* The generator is never read, and sending nothing back changes nothing.
LEMMA RngResend ==
    ASSUME IInv, part = "rng", want = held, others = 0, pc \in {"ok", "refused"}, held # Nil
    PROVE  pc = "ok" /\ params = before
<1> USE DEF IInv
<1>1. before \in [rng : {Nil} \cup WordParams] /\ exists /\ want = RngToSdk
  BY DEF TypeOK, Known, Fresh, Alone, Has, Guests, ToSdk
<1>2. pc = "ok" /\ now = before
  BY <1>1 DEF Known, Valid, Alone
<1>3. Word(want.type, want.memory) = Nil
  BY <1>1, NothingSent DEF RngToSdk
<1>4. params = [rng |-> params.rng] /\ params.rng = before.rng /\ before = [rng |-> before.rng]
  BY <1>1, <1>2, <1>3 DEF Answered, Carry, Indexed, ToApi, Request, RngToApi, Or
<1> QED BY <1>2, <1>4

\* What is read of the EFI disk is an object.
LEMMA EfiReads == ASSUME part = "efi", NEW g \in [efi : {Nil} \cup EfiParams]
                  PROVE  ToSdk(g) \in EfiObjects
  BY DEF ToSdk, EfiToSdk, EfiParams, EfiObjects

\* An EFI disk is sent if anything of it is given, its volume with it.
LEMMA EfiSent == ASSUME NEW w \in EfiObjects
    PROVE  /\ EfiToApi(w) = Nil <=> w.storage = Nil /\ w.type = Nil /\ w.volume = Nil
           /\ EfiToApi(w) # Nil => /\ EfiToApi(w).storage = w.storage
                                   /\ EfiToApi(w).named <=> w.volume # Nil
                                   /\ EfiToApi(w).named \/ EfiToApi(w) = [storage |-> w.storage,
                                         type |-> w.type, named |-> FALSE, volume |-> "new"]
<1> DEFINE sent(b) == [storage |-> w.storage, type |-> w.type, named |-> b, volume |-> "new"]
<1>1. \A b \in BOOLEAN : sent(b) \in [storage : {Nil} \cup Texts, type : {Nil} \cup Texts,
                                       named : BOOLEAN, volume : Texts]
  BY QemuDevicesAssumption DEF EfiObjects
<1>2. \A b \in BOOLEAN : sent(b) # Nil
  BY <1>1, NilAssumption
<1>3. DOMAIN w = {"storage", "type", "volume"}
  BY DEF EfiObjects
<1>4. EfiToApi(w) = IF w.storage = Nil /\ w.type = Nil /\ w.volume = Nil THEN Nil
                    ELSE sent(w.volume # Nil)
  BY <1>3 DEF EfiToApi
<1>5. CASE w.volume # Nil
  <2>1. EfiToApi(w) = sent(TRUE)
    <3>1. (w.volume # Nil) = TRUE
      BY <1>5
    <3> QED BY <1>4, <1>5, <3>1
  <2>2. sent(TRUE) # Nil
    BY <1>2
  <2> QED BY <2>1, <2>2, <1>5
<1>6. CASE w.volume = Nil
  <2>1. EfiToApi(w) = IF w.storage = Nil /\ w.type = Nil THEN Nil ELSE sent(FALSE)
    <3>1. (w.volume # Nil) = FALSE
      BY <1>6
    <3> QED BY <1>4, <1>6, <3>1
  <2>2. sent(FALSE) # Nil
    BY <1>2
  <2> QED BY <2>1, <2>2, <1>6
<1> QED BY <1>5, <1>6

\* The disk that a call leaves, and when the server refuses it.
LEMMA EfiState == ASSUME IInv, part = "efi", pc \in {"ok", "rejected"}
    PROVE  /\ want \in EfiObjects
           /\ DOMAIN now = {"efi"}
           /\ Carry(ToApi(want, seen), now) = [efi |-> Or(EfiToApi(want), now.efi)]
           /\ Accepts(ToApi(want, seen), now) <=>
                 (EfiToApi(want) # Nil => EfiToApi(want).storage # Nil /\ ~EfiToApi(want).named)
<1>1. want \in EfiObjects /\ DOMAIN now = {"efi"}
  BY DEF IInv, TypeOK, Answered, Objects, Has, Guests, Nothing
<1>2. ToApi(want, seen) = Request([efi |-> EfiToApi(want)], {})
  BY DEF ToApi
<1> QED BY <1>1, <1>2 DEF Carry, Indexed, Request, Accepts

\* An EFI disk that is asked for is made anew; otherwise it is left alone.
LEMMA EfiExact == ASSUME IInv, pc = "ok", part = "efi" PROVE \A l \in Leaves : Settled(l)
<1> USE DEF IInv
<1>1. /\ want \in EfiObjects /\ params = [efi |-> Or(EfiToApi(want), now.efi)]
      /\ EfiToApi(want) # Nil => EfiToApi(want).storage # Nil /\ ~EfiToApi(want).named
  BY EfiState DEF Answered
<1>2. IsAsked(<<"efi">>) <=> want.storage # Nil \/ want.type # Nil \/ want.volume # Nil
  <2>1. IsAsked(<<"efi">>) <=> \E f \in DOMAIN want : want[f] # Nil
    BY DEF IsAsked
  <2>2. DOMAIN want = {"storage", "type", "volume"}
    BY <1>1 DEF EfiObjects
  <2> QED BY <2>1, <2>2
<1>3. /\ Wanted(<<"efi">>) = [storage |-> want.storage, type |-> want.type, named |-> FALSE,
                              volume |-> "new"]
      /\ Value(params, <<"efi">>) = params.efi /\ Value(now, <<"efi">>) = now.efi
  BY DEF Wanted, Value
<1>4. Settled(<<"efi">>)
  <2>1. CASE want.storage = Nil /\ want.type = Nil /\ want.volume = Nil
    <3>1. EfiToApi(want) = Nil
      BY <1>1, <2>1, EfiSent
    <3>2. params.efi = now.efi
      BY <1>1, <3>1 DEF Or
    <3>3. ~IsAsked(<<"efi">>)
      BY <1>2, <2>1
    <3> QED BY <1>3, <3>2, <3>3 DEF Settled
  <2>2. CASE want.storage # Nil \/ want.type # Nil \/ want.volume # Nil
    <3>1. EfiToApi(want) # Nil
      BY <1>1, <1>2, <2>2, EfiSent
    <3>4. EfiToApi(want) = Wanted(<<"efi">>)
      BY <3>1, <1>1, <1>3, EfiSent
    <3>5. params.efi = EfiToApi(want)
      BY <1>1, <3>1 DEF Or
    <3> QED BY <1>2, <1>3, <2>2, <3>4, <3>5 DEF Settled
  <2> QED BY <2>1, <2>2
<1> QED BY <1>1, <1>4 DEF Leaves

\* The server refuses only an EFI disk that names its volume or has no storage.
LEMMA EfiAccepted == ASSUME IInv, part = "efi", pc \in {"rejected", "panic"} PROVE Unsendable
<1> USE DEF IInv
<1>1. pc = "rejected"
  BY DEF Answered, Panics
<1>2. want \in EfiObjects /\ EfiToApi(want) # Nil /\ (EfiToApi(want).storage = Nil \/ EfiToApi(want).named)
  BY <1>1, EfiState DEF Answered
<1>3. want.volume # Nil \/ (want.storage = Nil /\ want.type # Nil)
  BY <1>2, EfiSent
<1> QED BY <1>3 DEF Unsendable

\* An EFI disk as it is read names its volume and is refused.
LEMMA EfiResend ==
    ASSUME IInv, part = "efi", want = held, others = 0, pc \in {"ok", "refused"}, held # Nil
    PROVE  pc = "ok" /\ params = before
<1> USE DEF IInv
<1>1. before \in [efi : {Nil} \cup EfiParams] /\ exists /\ want = EfiToSdk(before.efi)
  BY DEF TypeOK, Known, Fresh, Alone, Has, Guests, ToSdk
<1>2. pc = "ok" /\ now = before
  BY <1>1 DEF Known, Valid, Alone
<1>3. /\ want \in EfiObjects /\ params = [efi |-> Or(EfiToApi(want), before.efi)]
      /\ EfiToApi(want) # Nil => ~EfiToApi(want).named
  BY <1>2, EfiState DEF Answered
<1>4. want.volume = Nil
  BY <1>3, EfiSent
<1>5. before.efi = Nil
  <2>1. before.efi # Nil => want.volume \in Texts
    BY <1>1 DEF EfiToSdk, EfiParams
  <2> QED BY <2>1, <1>4, NilValues
<1>6. EfiToApi(want) = Nil
  BY <1>1, <1>3, <1>5, EfiSent DEF EfiToSdk
<1> QED BY <1>1, <1>2, <1>3, <1>6 DEF Or

-----------------------------------------------------------------------------
(* Cloud-init: the addresses.                                              *)

\* What an address and a gateway can be on the server.
LEMMA AddressFields == ASSUME NEW a \in Addresses
    PROVE  /\ a = [ip |-> a.ip, gw |-> a.gw]
           /\ a.ip \in {Nil} \cup Texts /\ a.gw \in {Nil} \cup Texts
           /\ a.ip # Nil => a.ip # Invalid
           /\ a.gw # Nil => a.gw # Invalid
           /\ a.ip \in {"dhcp", "auto"} => a.gw = Nil
           /\ a # NoAddress <=> a.ip # Nil \/ a.gw # Nil
<1>1. /\ a \in [ip : {Nil} \cup (Texts \ {Invalid}), gw : {Nil} \cup (Texts \ {Invalid})]
      /\ a.ip \in {"dhcp", "auto"} => a.gw = Nil
  BY DEF Addresses
<1>2. a = [ip |-> a.ip, gw |-> a.gw]
  BY <1>1
<1>3. a = NoAddress <=> a.ip = Nil /\ a.gw = Nil
  BY <1>2 DEF NoAddress
<1> QED BY <1>1, <1>2, <1>3

\* What is read of an address: DHCP and SLAAC become flags, and the rest stays.
LEMMA IpRead == ASSUME NEW a \in Addresses, NEW w, w = IpToSdk(a)
    PROVE  /\ w \in {Nil} \cup IpObjects
           /\ w = Nil <=> a = NoAddress
           /\ w # Nil => /\ w.address = IF a.ip \in {"dhcp", "auto"} THEN Nil ELSE a.ip
                         /\ w.gateway = a.gw
                         /\ w.dhcp <=> a.ip = "dhcp"
                         /\ w.slaac <=> a.ip = "auto"
<1> DEFINE address == IF a.ip \in {"dhcp", "auto"} THEN Nil ELSE a.ip
           ip(b, c) == [address |-> address, gateway |-> a.gw, dhcp |-> b, slaac |-> c]
<1>1. address \in {Nil} \cup Strings /\ a.gw \in {Nil} \cup Strings
  BY AddressFields DEF Texts
<1> HIDE DEF address
<1>2. \A b, c \in BOOLEAN : ip(b, c) \in IpObjects /\ ip(b, c) # Nil
  <2>1. \A b, c \in BOOLEAN : ip(b, c) \in IpObjects
    BY <1>1 DEF IpObjects
  <2> QED BY <2>1, NilAssumption
<1>3. a # NoAddress => w = ip(a.ip = "dhcp", a.ip = "auto")
  BY DEF IpToSdk, address
<1>4. a = NoAddress => w = Nil
  BY DEF IpToSdk
<1>5. CASE a # NoAddress
  <2>1. PICK b \in BOOLEAN : b = (a.ip = "dhcp")
    OBVIOUS
  <2>2. PICK c \in BOOLEAN : c = (a.ip = "auto")
    OBVIOUS
  <2>3. w = ip(b, c)
    BY <1>3, <1>5, <2>1, <2>2
  <2>4. /\ w.address = address /\ w.gateway = a.gw
        /\ w.dhcp = b /\ w.slaac = c
    BY <2>3
  <2>5. w \in IpObjects /\ w # Nil
    BY <1>2, <2>3
  <2> HIDE DEF ip
  <2> QED BY <1>5, <2>1, <2>2, <2>4, <2>5 DEF address
<1> QED BY <1>4, <1>5

\* What is sent of an address.
LEMMA IpSent == ASSUME NEW w, NEW c, NEW s, s = IpToApi(w, c)
    PROVE  /\ s = [ip |-> s.ip, gw |-> s.gw]
           /\ w.dhcp => s.ip = "dhcp" /\ s.gw = Nil
           /\ ~w.dhcp /\ w.slaac => s.ip = "auto" /\ s.gw = Nil
           /\ ~w.dhcp /\ ~w.slaac =>
                 /\ s.ip = NonEmpty(Or(w.address, IF c = Nil THEN Nil ELSE c.address))
                 /\ s.gw = NonEmpty(Or(w.gateway, IF c = Nil THEN Nil ELSE c.gateway))
  BY DEF IpToApi

\* An address that is sent as it was read is the same again.
LEMMA IpBack == ASSUME NEW a \in Addresses, NEW w, w = IpToSdk(a), w # Nil, NEW c \in {Nil, w}
                PROVE  IpToApi(w, c) = a
<1>1. /\ w.address = IF a.ip \in {"dhcp", "auto"} THEN Nil ELSE a.ip
      /\ w.gateway = a.gw
      /\ w.dhcp <=> a.ip = "dhcp"
      /\ w.slaac <=> a.ip = "auto"
  BY IpRead
<1> DEFINE s == IpToApi(w, c)
<1>2. a.gw \in {Nil} \cup Texts /\ a.ip \in {Nil} \cup Texts /\ a = [ip |-> a.ip, gw |-> a.gw]
  BY AddressFields
<1>3. s = [ip |-> s.ip, gw |-> s.gw]
  BY IpSent
<1>4. CASE a.ip \in {"dhcp", "auto"}
  <2>1. a.gw = Nil
    BY <1>4, AddressFields
  <2>2. s.ip = a.ip /\ s.gw = Nil
    BY <1>1, <1>4, IpSent
  <2> QED BY <2>1, <2>2, <1>2, <1>3
<1>5. CASE a.ip \notin {"dhcp", "auto"}
  <2>1. w.address = a.ip /\ ~w.dhcp /\ ~w.slaac
    BY <1>1, <1>5
  <2>2. /\ Or(w.address, IF c = Nil THEN Nil ELSE c.address) = a.ip
        /\ Or(w.gateway, IF c = Nil THEN Nil ELSE c.gateway) = a.gw
    BY <2>1, <1>1 DEF Or
  <2>3. s.ip = NonEmpty(a.ip) /\ s.gw = NonEmpty(a.gw)
    BY <2>1, <2>2, IpSent
  <2>4. s.ip = a.ip /\ s.gw = a.gw
    BY <2>3, <1>2, NonEmptyTexts
  <2> QED BY <2>4, <1>2, <1>3
<1> QED BY <1>4, <1>5

-----------------------------------------------------------------------------
(* Cloud-init: what is read.                                               *)

NicObjects == [v4 : {Nil} \cup IpObjects, v6 : {Nil} \cup IpObjects]

\* What is read of both families of an interface.
LEMMA NicRead == ASSUME NEW a \in NicParams
    PROVE  /\ a = [v4 |-> a.v4, v6 |-> a.v6]
           /\ a.v4 \in Addresses /\ a.v6 \in Addresses
           /\ NicToSdk(a) \in NicObjects /\ NicToSdk(a) # Nil
           /\ NicToSdk(a) = [v4 |-> IpToSdk(a.v4), v6 |-> IpToSdk(a.v6)]
           /\ a # [v4 |-> NoAddress, v6 |-> NoAddress]
<1>1. a \in [v4 : Addresses, v6 : Addresses] /\ a # [v4 |-> NoAddress, v6 |-> NoAddress]
  BY DEF NicParams
<1>2. a = [v4 |-> a.v4, v6 |-> a.v6] /\ a.v4 \in Addresses /\ a.v6 \in Addresses
  BY <1>1
<1>3. NicToSdk(a) = [v4 |-> IpToSdk(a.v4), v6 |-> IpToSdk(a.v6)]
  BY DEF NicToSdk
<1>4. IpToSdk(a.v4) \in {Nil} \cup IpObjects /\ IpToSdk(a.v6) \in {Nil} \cup IpObjects
  BY <1>2, IpRead
<1>5. NicToSdk(a) \in NicObjects
  BY <1>3, <1>4 DEF NicObjects
<1>6. NicToSdk(a) # Nil
  BY <1>5, NilAssumption DEF NicObjects
<1> QED BY <1>1, <1>2, <1>3, <1>5, <1>6

\* What a guest may have of cloud-init.
LEMMA CloudFields == ASSUME NEW g, g \in CloudInitParams(major) \/ g = NoCloudInit
    PROVE  /\ DOMAIN g = {"cicustom", "ciupgrade", "ipconfig", "ciuser", "cipassword",
                          "searchdomain", "nameserver", "sshkeys"}
           /\ g = [p \in DOMAIN g |-> g[p]]
           /\ g.cicustom \in [Snippets -> {Nil} \cup Volumes]
           /\ g.ciupgrade \in {Nil} \cup BOOLEAN
           /\ g.ipconfig \in [Nics -> {Nil} \cup NicParams]
           /\ g.ciuser \in {Nil} \cup Texts /\ g.cipassword \in {Nil} \cup Texts
           /\ g.searchdomain \in {Nil} \cup Texts /\ g.nameserver \in {Nil} \cup Texts
           /\ g.sshkeys \in {Nil} \cup Texts
           /\ g.ciupgrade # Nil => major >= 8
           /\ \A n \in Nics : g.ipconfig[n] # Nil => n <= MaxNic
<1>1. CASE g \in CloudInitParams(major)
  BY <1>1 DEF CloudInitParams
<1>2. CASE g = NoCloudInit
  BY <1>2 DEF NoCloudInit, NoSnippets
<1> QED BY <1>1, <1>2

\* What is read of cloud-init, setting by setting.
LEMMA CloudRead == ASSUME NEW g \in CloudInitParams(major), NEW c, c = CloudInitToSdk(g)
    PROVE  /\ c \in {Nil} \cup CloudInitObjects
           /\ c = Nil => /\ g.cicustom = NoSnippets /\ g.ciuser = Nil /\ g.cipassword = Nil
                         /\ g.ciupgrade = Nil /\ g.sshkeys = Nil
                         /\ g.searchdomain = Nil /\ g.nameserver = Nil
                         /\ \A n \in Nics : g.ipconfig[n] = Nil
           /\ c # Nil => /\ c.custom = IF g.cicustom = NoSnippets THEN Nil ELSE g.cicustom
                         /\ c.user = g.ciuser /\ c.password = g.cipassword
                         /\ c.upgrade = g.ciupgrade /\ c.keys = g.sshkeys
                         /\ c.domain \in {g.searchdomain, ""} /\ (c.domain = "" => g.searchdomain = Nil)
                         /\ c.servers \in {g.nameserver, ""} /\ (c.servers = "" => g.nameserver = Nil)
                         /\ c.ipconfig = [n \in Nics |-> IF g.ipconfig[n] = Nil THEN Nil
                                                         ELSE NicToSdk(g.ipconfig[n])]
<1> DEFINE custom == IF g.cicustom = NoSnippets THEN Nil ELSE g.cicustom
           dns == g.nameserver # Nil \/ g.searchdomain # Nil
           domain == IF dns THEN Or(g.searchdomain, "") ELSE Nil
           servers == IF dns THEN Or(g.nameserver, "") ELSE Nil
           nics == [n \in Nics |-> IF g.ipconfig[n] = Nil THEN Nil ELSE NicToSdk(g.ipconfig[n])]
           config == [custom |-> custom, user |-> g.ciuser, password |-> g.cipassword,
                      upgrade |-> g.ciupgrade, keys |-> g.sshkeys, domain |-> domain,
                      servers |-> servers, ipconfig |-> nics]
<1>1. c = IF /\ \A f \in DOMAIN config \ {"ipconfig"} : config[f] = Nil
             /\ \A n \in Nics : config.ipconfig[n] = Nil
          THEN Nil ELSE config
  BY DEF CloudInitToSdk
<1>2. custom \in {Nil} \cup [Snippets -> {Nil, "gone", "half"} \cup Volumes]
  BY CloudFields
<1>3. /\ domain \in {Nil} \cup Strings /\ servers \in {Nil} \cup Strings
      /\ domain \in {g.searchdomain, ""} /\ (domain = "" => g.searchdomain = Nil)
      /\ servers \in {g.nameserver, ""} /\ (servers = "" => g.nameserver = Nil)
      /\ (domain = Nil => g.searchdomain = Nil) /\ (servers = Nil => g.nameserver = Nil)
  <2>1. g.searchdomain \in {Nil} \cup Texts /\ g.nameserver \in {Nil} \cup Texts
    BY CloudFields
  <2> QED BY <2>1, NilValues DEF Or, Texts
<1>4. nics \in [Nics -> {Nil} \cup NicObjects]
  BY CloudFields, NicRead
<1>5. /\ g.ciuser \in {Nil} \cup Strings /\ g.cipassword \in {Nil} \cup Strings
      /\ g.sshkeys \in {Nil} \cup Strings /\ g.ciupgrade \in {Nil} \cup BOOLEAN
  BY CloudFields DEF Texts
<1>6. (\A n \in Nics : nics[n] = Nil) => \A n \in Nics : g.ipconfig[n] = Nil
  BY CloudFields, NicRead
<1>7. custom = Nil => g.cicustom = NoSnippets
  <2>1. g.cicustom \in [Snippets -> {Nil} \cup Strings]
    <3>1. g.cicustom \in [Snippets -> {Nil} \cup Volumes] /\ \A v \in Volumes : v \in Strings
      BY CloudFields DEF Volumes
    <3> QED BY <3>1
  <2> QED BY <2>1, NilAssumption
<1> HIDE DEF custom, domain, servers, nics
<1>8. config \in CloudInitObjects
  BY <1>2, <1>3, <1>4, <1>5 DEF CloudInitObjects, NicObjects
<1>9. config # Nil
  BY <1>8, NilAssumption DEF AllParts, Objects
<1>10. DOMAIN config = {"custom", "user", "password", "upgrade", "keys", "domain", "servers", "ipconfig"}
  OBVIOUS
<1>11. CASE c = Nil
  <2>1. /\ custom = Nil /\ g.ciuser = Nil /\ g.cipassword = Nil /\ g.ciupgrade = Nil
        /\ g.sshkeys = Nil /\ domain = Nil /\ servers = Nil /\ \A n \in Nics : nics[n] = Nil
    <3> HIDE DEF config
    <3>1. /\ \A f \in DOMAIN config \ {"ipconfig"} : config[f] = Nil
          /\ \A n \in Nics : config.ipconfig[n] = Nil
      BY <1>1, <1>9, <1>11
    <3>2. /\ config.custom = Nil /\ config.user = Nil /\ config.password = Nil
          /\ config.upgrade = Nil /\ config.keys = Nil /\ config.domain = Nil
          /\ config.servers = Nil /\ \A n \in Nics : config.ipconfig[n] = Nil
      BY <3>1, <1>10
    <3>3. /\ config.custom = custom /\ config.user = g.ciuser /\ config.password = g.cipassword
          /\ config.upgrade = g.ciupgrade /\ config.keys = g.sshkeys /\ config.domain = domain
          /\ config.servers = servers /\ config.ipconfig = nics
      BY DEF config
    <3> QED BY <3>2, <3>3
  <2> QED BY <2>1, <1>3, <1>6, <1>7, <1>11
<1>12. CASE c # Nil
  <2>1. c = config
    BY <1>1, <1>12
  <2>2. /\ c.custom = custom /\ c.user = g.ciuser /\ c.password = g.cipassword
        /\ c.upgrade = g.ciupgrade /\ c.keys = g.sshkeys /\ c.domain = domain
        /\ c.servers = servers /\ c.ipconfig = nics
    BY <2>1
  <2>3. c \in CloudInitObjects
    BY <2>1, <1>8
  <2> HIDE DEF config
  <2> QED BY <2>2, <2>3, <1>3, <1>12 DEF custom, nics
<1> QED BY <1>11, <1>12

\* What is read of cloud-init is an object.
LEMMA CloudReads == ASSUME part = "cloudinit", NEW g \in CloudInitParams(major)
                    PROVE  ToSdk(g) \in {Nil} \cup CloudInitObjects
<1>1. ToSdk(g) = CloudInitToSdk(g)
  BY DEF ToSdk
<1> QED BY <1>1, CloudRead

-----------------------------------------------------------------------------
(* Cloud-init: what is sent.                                               *)

\* What the invariant says of a call about cloud-init.
LEMMA CloudState == ASSUME IInv, part = "cloudinit", pc \in {"refused", "ok", "rejected", "panic"}
    PROVE  /\ want \in CloudInitObjects
           /\ exists => before \in CloudInitParams(major) /\ seen = CloudInitToSdk(before)
           /\ ~exists => seen = Nil
           /\ pc # "refused" => /\ now \in CloudInitParams(major) \/ now = NoCloudInit
                                /\ ~exists => now = NoCloudInit
                                /\ CloudInitValid(want, major)
           /\ pc = "refused" => ~CloudInitValid(want, major)
           /\ pc = "ok" => /\ params = Carry(CloudInitToApi(want, seen, major), now)
                           /\ Accepts(CloudInitToApi(want, seen, major), now)
           /\ pc = "rejected" => ~Accepts(CloudInitToApi(want, seen, major), now)
  BY DEF IInv, TypeOK, Known, Answered, Fresh, Objects, Has, Guests, Nothing, Valid, ToSdk,
         ToApi

\* What a family of addresses had.
Kept(n, f) == IF seen = Nil THEN Nil
              ELSE IF seen.ipconfig[n] = Nil THEN Nil ELSE seen.ipconfig[n][f]

\* What is sent of it.
Family(n, f) ==
    IF want.ipconfig[n][f] # Nil THEN IpToApi(want.ipconfig[n][f], Kept(n, f))
    ELSE IF Kept(n, f) = Nil THEN NoAddress ELSE IpToApi(Kept(n, f), Nil)

\* mapToAPI works out the two families of an interface by themselves.
LEMMA NicSent == ASSUME NEW n \in Nics, NEW cur, cur = IF seen = Nil THEN Nil ELSE seen.ipconfig[n]
    PROVE  NicToApi(want.ipconfig[n], cur) = [v4 |-> Family(n, "v4"), v6 |-> Family(n, "v6")]
  BY DEF NicToApi, Family, Kept

\* An address, as it was read.
LEMMA KeptRead == ASSUME IInv, part = "cloudinit", exists, pc \in {"refused", "ok", "rejected", "panic"},
                         NEW n \in Nics, NEW f \in {"v4", "v6"}
    PROVE  IF before.ipconfig[n] = Nil THEN Kept(n, f) = Nil
           ELSE /\ before.ipconfig[n][f] \in Addresses
                /\ Kept(n, f) = IpToSdk(before.ipconfig[n][f])
<1>1. before \in CloudInitParams(major) /\ seen = CloudInitToSdk(before)
  BY CloudState
<1>2. before.ipconfig[n] = Nil \/ before.ipconfig[n] \in NicParams
  BY <1>1, CloudFields
<1>3. seen = Nil => before.ipconfig[n] = Nil
  BY <1>1, CloudRead
<1>4. seen # Nil => seen.ipconfig[n] = IF before.ipconfig[n] = Nil THEN Nil
                                       ELSE NicToSdk(before.ipconfig[n])
  <2>1. seen # Nil => seen.ipconfig = [m \in Nics |-> IF before.ipconfig[m] = Nil THEN Nil
                                                      ELSE NicToSdk(before.ipconfig[m])]
    BY <1>1, CloudRead
  <2> QED BY <2>1
<1>5. CASE before.ipconfig[n] = Nil
  BY <1>3, <1>4, <1>5 DEF Kept
<1>6. CASE before.ipconfig[n] # Nil
  <2> DEFINE a == before.ipconfig[n]
  <2>1. a.v4 \in Addresses /\ a.v6 \in Addresses /\ NicToSdk(a) # Nil
    BY <1>2, <1>6, NicRead
  <2>2. NicToSdk(a).v4 = IpToSdk(a.v4) /\ NicToSdk(a).v6 = IpToSdk(a.v6)
    BY DEF NicToSdk
  <2>3. Kept(n, f) = NicToSdk(a)[f]
    BY <1>3, <1>4, <1>6, <2>1 DEF Kept
  <2> HIDE DEF a
  <2>4. a[f] \in Addresses /\ NicToSdk(a)[f] = IpToSdk(a[f])
    BY <2>1, <2>2
  <2> QED BY <1>6, <2>3, <2>4 DEF a
<1> QED BY <1>5, <1>6

\* A text, as the server has it then.
TextPut(w, old) == IF w = "" /\ seen # Nil THEN Nil ELSE Or(NonEmpty(w), old)

\* The answer, field by field.
LEMMA CloudSent == ASSUME IInv, part = "cloudinit", pc \in {"ok", "rejected"}, NEW after,
                          after = Carry(CloudInitToApi(want, seen, major), now)
    PROVE  /\ DOMAIN after = {"cicustom", "ciupgrade", "ipconfig", "ciuser", "cipassword",
                              "searchdomain", "nameserver", "sshkeys"}
           /\ after = [p \in DOMAIN after |-> after[p]]
           /\ after.ciuser = TextPut(want.user, now.ciuser)
           /\ after.cipassword = TextPut(want.password, now.cipassword)
           /\ after.searchdomain = TextPut(want.domain, now.searchdomain)
           /\ after.nameserver = TextPut(want.servers, now.nameserver)
           /\ after.sshkeys = TextPut(want.keys, now.sshkeys)
           /\ after.ciupgrade = IF major >= 8 THEN Or(want.upgrade, now.ciupgrade) ELSE now.ciupgrade
           /\ after.cicustom = IF want.custom = Nil THEN now.cicustom
                               ELSE Or(SnippetsToApi(want.custom, IF seen = Nil THEN Nil ELSE seen.custom),
                                       now.cicustom)
           /\ after.ipconfig = Merge(NicsToApi(want.ipconfig, seen).set,
                                     NicsToApi(want.ipconfig, seen).delete, now.ipconfig)
<1>1. DOMAIN now = {"cicustom", "ciupgrade", "ipconfig", "ciuser", "cipassword",
                    "searchdomain", "nameserver", "sshkeys"}
  BY CloudState, CloudFields
<1> DEFINE request == CloudInitToApi(want, seen, major)
<1>2. /\ request.set.ciuser = NonEmpty(want.user)
      /\ request.set.cipassword = NonEmpty(want.password)
      /\ request.set.searchdomain = NonEmpty(want.domain)
      /\ request.set.nameserver = NonEmpty(want.servers)
      /\ request.set.sshkeys = NonEmpty(want.keys)
      /\ request.set.ciupgrade = IF major >= 8 THEN want.upgrade ELSE Nil
      /\ request.set.cicustom = IF want.custom = Nil THEN Nil
                 ELSE SnippetsToApi(want.custom, IF seen = Nil THEN Nil ELSE seen.custom)
      /\ request.set.ipconfig = NicsToApi(want.ipconfig, seen)
  BY DEF CloudInitToApi, Request
<1>3. /\ "ciuser" \in request.delete <=> want.user = "" /\ seen # Nil
      /\ "cipassword" \in request.delete <=> want.password = "" /\ seen # Nil
      /\ "searchdomain" \in request.delete <=> want.domain = "" /\ seen # Nil
      /\ "nameserver" \in request.delete <=> want.servers = "" /\ seen # Nil
      /\ "sshkeys" \in request.delete <=> want.keys = "" /\ seen # Nil
      /\ "ciupgrade" \notin request.delete /\ "cicustom" \notin request.delete
      /\ "ipconfig" \notin request.delete
  BY DEF CloudInitToApi, Request
<1> HIDE DEF request
<1>4. after = [p \in DOMAIN now |->
                  IF p \in request.delete THEN Nil
                  ELSE IF p = "ipconfig"
                  THEN Merge(request.set[p].set, request.set[p].delete, now[p])
                  ELSE Or(request.set[p], now[p])]
  BY <1>1 DEF Carry, Indexed, request
<1>5. DOMAIN after = DOMAIN now /\ after = [p \in DOMAIN after |-> after[p]]
  BY <1>4
<1>6. \A p \in DOMAIN now \ {"ipconfig"} :
          after[p] = IF p \in request.delete THEN Nil ELSE Or(request.set[p], now[p])
  BY <1>4
<1>7. after.ipconfig = Merge(request.set.ipconfig.set, request.set.ipconfig.delete, now.ipconfig)
  BY <1>1, <1>3, <1>4
<1>8. /\ after.ciuser = TextPut(want.user, now.ciuser)
      /\ after.cipassword = TextPut(want.password, now.cipassword)
      /\ after.searchdomain = TextPut(want.domain, now.searchdomain)
      /\ after.nameserver = TextPut(want.servers, now.nameserver)
      /\ after.sshkeys = TextPut(want.keys, now.sshkeys)
  BY <1>1, <1>2, <1>3, <1>6 DEF TextPut
<1>9. after.ciupgrade = IF major >= 8 THEN Or(want.upgrade, now.ciupgrade) ELSE now.ciupgrade
  <2>1. after.ciupgrade = Or(request.set.ciupgrade, now.ciupgrade)
    BY <1>1, <1>3, <1>6
  <2> QED BY <2>1, <1>2 DEF Or
<1>10. after.cicustom = IF want.custom = Nil THEN now.cicustom
                        ELSE Or(SnippetsToApi(want.custom, IF seen = Nil THEN Nil ELSE seen.custom),
                                now.cicustom)
  <2>1. after.cicustom = Or(request.set.cicustom, now.cicustom)
    BY <1>1, <1>3, <1>6
  <2> QED BY <2>1, <1>2 DEF Or
<1> QED BY <1>1, <1>2, <1>5, <1>7, <1>8, <1>9, <1>10

\* The snippets are sent together, one that is not asked for as it was read.
LEMMA SnippetsSent == ASSUME NEW w, NEW cur, NEW k \in Snippets,
                             w \in [Snippets -> {Nil, "gone", "half"} \cup Volumes],
                             cur \in {Nil} \cup [Snippets -> {Nil, "gone", "half"} \cup Volumes]
    PROVE  /\ SnippetsToApi(w, cur) # Nil
           /\ SnippetsToApi(w, cur)[k] =
                 LET s == Or(w[k], IF cur = Nil THEN Nil ELSE cur[k]) IN
                 IF s = "gone" THEN Nil ELSE s
<1> DEFINE s(j) == Or(w[j], IF cur = Nil THEN Nil ELSE cur[j])
<1>1. \A j \in Snippets : s(j) \in {Nil} \cup Strings
  BY CloudInitAssumption DEF Or, Volumes, Texts
<1>2. SnippetsToApi(w, cur) = [j \in Snippets |-> IF s(j) = "gone" THEN Nil ELSE s(j)]
  BY DEF SnippetsToApi
<1> HIDE DEF s
<1>3. SnippetsToApi(w, cur) \in [Snippets -> {Nil} \cup Strings]
  BY <1>1, <1>2
<1>4. SnippetsToApi(w, cur) # Nil
  BY <1>3, NilAssumption
<1>5. SnippetsToApi(w, cur)[k] = IF s(k) = "gone" THEN Nil ELSE s(k)
  BY <1>2
<1> QED BY <1>4, <1>5 DEF s

\* The texts and the upgrade are as asked for or left alone.
LEMMA CloudTextsExact ==
    ASSUME IInv, part = "cloudinit", pc = "ok"
    PROVE  /\ Settled(<<"ciuser">>) /\ Settled(<<"cipassword">>) /\ Settled(<<"searchdomain">>)
           /\ Settled(<<"nameserver">>) /\ Settled(<<"sshkeys">>) /\ Settled(<<"ciupgrade">>)
<1>1. params = Carry(CloudInitToApi(want, seen, major), now)
  BY CloudState
<1>2. seen = Nil => IF exists THEN before \in CloudInitParams(major) /\ seen = CloudInitToSdk(before)
                    ELSE now = NoCloudInit
  BY CloudState
<1>3. seen = Nil => LET g == IF exists THEN before ELSE now IN
                    /\ g.ciuser = Nil /\ g.cipassword = Nil /\ g.searchdomain = Nil
                    /\ g.nameserver = Nil /\ g.sshkeys = Nil
  <2>1. seen = Nil /\ exists => /\ before.ciuser = Nil /\ before.cipassword = Nil
                                /\ before.searchdomain = Nil /\ before.nameserver = Nil
                                /\ before.sshkeys = Nil
    BY <1>2, CloudRead
  <2>2. seen = Nil /\ ~exists => /\ now.ciuser = Nil /\ now.cipassword = Nil
                                 /\ now.searchdomain = Nil /\ now.nameserver = Nil
                                 /\ now.sshkeys = Nil
    BY <1>2 DEF NoCloudInit
  <2> QED BY <2>1, <2>2
<1>4. \A p \in {"ciuser", "cipassword", "searchdomain", "nameserver", "sshkeys", "ciupgrade"} :
          \A ps : Value(ps, <<p>>) = ps[p]
  BY DEF Value
<1>5. /\ IsAsked(<<"ciuser">>) <=> want.user # Nil
      /\ Wanted(<<"ciuser">>) = NonEmpty(want.user)
      /\ IsAsked(<<"cipassword">>) <=> want.password # Nil
      /\ Wanted(<<"cipassword">>) = NonEmpty(want.password)
      /\ IsAsked(<<"searchdomain">>) <=> want.domain # Nil
      /\ Wanted(<<"searchdomain">>) = NonEmpty(want.domain)
      /\ IsAsked(<<"nameserver">>) <=> want.servers # Nil
      /\ Wanted(<<"nameserver">>) = NonEmpty(want.servers)
      /\ IsAsked(<<"sshkeys">>) <=> want.keys # Nil
      /\ Wanted(<<"sshkeys">>) = NonEmpty(want.keys)
      /\ IsAsked(<<"ciupgrade">>) <=> want.upgrade # Nil
      /\ Wanted(<<"ciupgrade">>) = want.upgrade
  BY DEF IsAsked, Wanted, Field
<1>6. ASSUME NEW w \in {Nil} \cup Strings, NEW was
      PROVE  /\ w = Nil => TextPut(w, was) = was
             /\ w # Nil => \/ TextPut(w, was) = NonEmpty(w)
                           \/ seen = Nil /\ NonEmpty(w) = Nil /\ TextPut(w, was) = was
  <2>1. CASE w = ""
    <3>1. NonEmpty(w) = Nil /\ w # Nil
      BY <2>1, NonEmptyTexts, NilValues
    <3>2. TextPut(w, was) = IF seen # Nil THEN Nil ELSE was
      BY <2>1, <3>1 DEF TextPut, Or
    <3> QED BY <3>1, <3>2
  <2>2. CASE w = Nil
    <3>1. NonEmpty(w) = Nil /\ w # ""
      BY <2>2, NonEmptyTexts, NilValues
    <3> QED BY <2>2, <3>1 DEF TextPut, Or
  <2>3. CASE w # "" /\ w # Nil
    BY <2>3, NonEmptyTexts DEF TextPut, Or
  <2> QED BY <2>1, <2>2, <2>3
<1>7. /\ want.user \in {Nil} \cup Strings /\ want.password \in {Nil} \cup Strings
      /\ want.domain \in {Nil} \cup Strings /\ want.servers \in {Nil} \cup Strings
      /\ want.keys \in {Nil} \cup Strings
  BY CloudState DEF CloudInitObjects
<1> DEFINE g == IF exists THEN before ELSE now
<1>8. \A p \in {"ciuser", "cipassword", "searchdomain", "nameserver", "sshkeys"} : Had(<<p>>) = g[p]
  BY <1>4 DEF Had
<1>9. /\ params.ciuser = TextPut(want.user, now.ciuser)
      /\ params.cipassword = TextPut(want.password, now.cipassword)
      /\ params.searchdomain = TextPut(want.domain, now.searchdomain)
      /\ params.nameserver = TextPut(want.servers, now.nameserver)
      /\ params.sshkeys = TextPut(want.keys, now.sshkeys)
      /\ params.ciupgrade = IF major >= 8 THEN Or(want.upgrade, now.ciupgrade) ELSE now.ciupgrade
  BY <1>1, CloudSent
<1>10. seen = Nil => /\ g.ciuser = Nil /\ g.cipassword = Nil /\ g.searchdomain = Nil
                     /\ g.nameserver = Nil /\ g.sshkeys = Nil
  BY <1>3
<1> HIDE DEF g
<1>u. Settled(<<"ciuser">>)
  <2>1. /\ want.user = Nil => params.ciuser = now.ciuser
        /\ want.user # Nil => \/ params.ciuser = NonEmpty(want.user)
                              \/ g.ciuser = NonEmpty(want.user) /\ params.ciuser = now.ciuser
    BY <1>6, <1>7, <1>9, <1>10
  <2> QED BY <2>1, <1>4, <1>5, <1>8 DEF Settled
<1>p. Settled(<<"cipassword">>)
  <2>1. /\ want.password = Nil => params.cipassword = now.cipassword
        /\ want.password # Nil => \/ params.cipassword = NonEmpty(want.password)
                                  \/ g.cipassword = NonEmpty(want.password) /\ params.cipassword = now.cipassword
    BY <1>6, <1>7, <1>9, <1>10
  <2> QED BY <2>1, <1>4, <1>5, <1>8 DEF Settled
<1>d. Settled(<<"searchdomain">>)
  <2>1. /\ want.domain = Nil => params.searchdomain = now.searchdomain
        /\ want.domain # Nil => \/ params.searchdomain = NonEmpty(want.domain)
                                \/ g.searchdomain = NonEmpty(want.domain) /\ params.searchdomain = now.searchdomain
    BY <1>6, <1>7, <1>9, <1>10
  <2> QED BY <2>1, <1>4, <1>5, <1>8 DEF Settled
<1>n. Settled(<<"nameserver">>)
  <2>1. /\ want.servers = Nil => params.nameserver = now.nameserver
        /\ want.servers # Nil => \/ params.nameserver = NonEmpty(want.servers)
                                 \/ g.nameserver = NonEmpty(want.servers) /\ params.nameserver = now.nameserver
    BY <1>6, <1>7, <1>9, <1>10
  <2> QED BY <2>1, <1>4, <1>5, <1>8 DEF Settled
<1>k. Settled(<<"sshkeys">>)
  <2>1. /\ want.keys = Nil => params.sshkeys = now.sshkeys
        /\ want.keys # Nil => \/ params.sshkeys = NonEmpty(want.keys)
                              \/ g.sshkeys = NonEmpty(want.keys) /\ params.sshkeys = now.sshkeys
    BY <1>6, <1>7, <1>9, <1>10
  <2> QED BY <2>1, <1>4, <1>5, <1>8 DEF Settled
<1>v. Settled(<<"ciupgrade">>)
  <2>1. Lost(<<"ciupgrade">>) <=> major < 8
    BY DEF Lost
  <2>2. major \in Int
    BY QemuSettingsAssumption DEF IInv, TypeOK
  <2>3. IsAsked(<<"ciupgrade">>) <=> want.upgrade # Nil
    BY <1>5
  <2>4. Wanted(<<"ciupgrade">>) = want.upgrade
    BY <1>5
  <2>5. /\ Value(params, <<"ciupgrade">>) = params.ciupgrade
        /\ Value(now, <<"ciupgrade">>) = now.ciupgrade
    BY <1>4
  <2>6. ~(major < 8) => params.ciupgrade = Or(want.upgrade, now.ciupgrade)
    BY <2>2, <1>9
  <2> QED BY <2>1, <2>3, <2>4, <2>5, <2>6 DEF Settled, Or
<1> QED BY <1>u, <1>p, <1>d, <1>n, <1>k, <1>v

\* Each snippet is as asked for, or as it was read.
LEMMA CloudSnippetsExact ==
    ASSUME IInv, part = "cloudinit", pc = "ok", NEW k \in Snippets PROVE Settled(<<"custom", k>>)
<1>0. Len(<<"custom", k>>) = 2
  OBVIOUS
<1>1. /\ IsAsked(<<"custom", k>>) <=> want.custom # Nil /\ want.custom[k] # Nil
      /\ Wanted(<<"custom", k>>) = IF want.custom[k] = "gone" THEN Nil ELSE want.custom[k]
      /\ \A ps : Value(ps, <<"custom", k>>) = ps.cicustom[k]
      /\ Shared(<<"custom", k>>)
  BY <1>0 DEF IsAsked, Wanted, Value, Shared
<1>2. params.cicustom = IF want.custom = Nil THEN now.cicustom
                        ELSE Or(SnippetsToApi(want.custom, IF seen = Nil THEN Nil ELSE seen.custom),
                                now.cicustom)
  BY CloudState, CloudSent
<1>3. CASE want.custom = Nil
  BY <1>1, <1>2, <1>3 DEF Settled
<1>4. CASE want.custom # Nil
  <2> DEFINE cur == IF seen = Nil THEN Nil ELSE seen.custom
             had == IF cur = Nil THEN Nil ELSE cur[k]
             s == Or(want.custom[k], had)
  <2>1. want.custom \in [Snippets -> {Nil, "gone", "half"} \cup Volumes]
    BY <1>4, CloudState DEF CloudInitObjects
  <2>2. /\ cur \in {Nil} \cup [Snippets -> {Nil, "gone", "half"} \cup Volumes]
        /\ had = Had(<<"custom", k>>) /\ had # "gone"
    <3>1. CASE exists
      <4>1. before \in CloudInitParams(major) /\ seen = CloudInitToSdk(before)
        BY <3>1, CloudState
      <4>2. before.cicustom \in [Snippets -> {Nil} \cup Volumes]
        BY <4>1, CloudFields
      <4>3. cur = IF before.cicustom = NoSnippets THEN Nil ELSE before.cicustom
        BY <4>1, CloudRead
      <4>4. had = before.cicustom[k]
        <5>1. NoSnippets[k] = Nil
          BY DEF NoSnippets
        <5>2. CASE before.cicustom = NoSnippets
          BY <5>1, <5>2, <4>3
        <5>3. CASE before.cicustom # NoSnippets
          <6>1. cur = before.cicustom
            BY <5>3, <4>3
          <6>2. \A v \in Volumes : v \in Strings
            BY DEF Volumes
          <6>3. before.cicustom # Nil
            BY <6>2, <4>2, NilAssumption
          <6> QED BY <6>1, <6>3
        <5> QED BY <5>2, <5>3
      <4>5. before.cicustom[k] # "gone"
        BY <4>2, NilValues, CloudInitAssumption DEF Volumes
      <4> QED BY <3>1, <4>2, <4>3, <4>4, <4>5, <1>1 DEF Had
    <3>2. CASE ~exists
      <4>1. seen = Nil /\ now.cicustom[k] = Nil
        BY <3>2, CloudState DEF NoCloudInit, NoSnippets
      <4> QED BY <3>2, <4>1, <1>1, NilValues, CloudInitAssumption DEF Had
    <3> QED BY <3>1, <3>2
  <2>3. params.cicustom[k] = IF s = "gone" THEN Nil ELSE s
    BY <1>2, <1>4, <2>1, <2>2, SnippetsSent DEF Or
  <2> HIDE DEF had
  <2>4. CASE want.custom[k] = Nil
    BY <2>4, <2>2, <2>3, <1>1 DEF Settled, Or
  <2>5. CASE want.custom[k] # Nil
    BY <2>5, <2>3, <1>1, <1>4 DEF Settled, Or
  <2> QED BY <2>4, <2>5
<1> QED BY <1>3, <1>4

-----------------------------------------------------------------------------
(* Cloud-init: the addresses that are sent.                                *)

\* The address of a family, as a guest has it.
Address(ps, n, f) == IF ps.ipconfig[n] = Nil THEN NoAddress ELSE ps.ipconfig[n][f]
HadAddress(n, f) == Address(IF exists THEN before ELSE now, n, f)

\* Nothing is sent for an interface without an address.
NoNic == [v4 |-> NoAddress, v6 |-> NoAddress]
NicFamilies(n) == [v4 |-> Family(n, "v4"), v6 |-> Family(n, "v6")]

\* An address of which nothing is read is none.
LEMMA NothingKept == ASSUME NEW a \in Addresses, IpToSdk(a) = Nil PROVE a = NoAddress
  BY IpRead

\* What the call read of an address is what the guest had.
LEMMA KeptHad == ASSUME IInv, part = "cloudinit", pc \in {"refused", "ok", "rejected", "panic"},
                        exists \/ pc # "refused", NEW n \in Nics, NEW f \in {"v4", "v6"}
    PROVE  /\ HadAddress(n, f) \in Addresses
           /\ Kept(n, f) = IpToSdk(HadAddress(n, f))
<1>1. NoAddress \in Addresses
  BY NilValues, CloudInitAssumption DEF NoAddress, Addresses
<1>2. IpToSdk(NoAddress) = Nil
  BY DEF IpToSdk
<1>3. CASE exists
  <2>1. HadAddress(n, f) = IF before.ipconfig[n] = Nil THEN NoAddress ELSE before.ipconfig[n][f]
    BY <1>3 DEF HadAddress, Address
  <2> QED BY <2>1, <1>1, <1>2, <1>3, KeptRead
<1>4. CASE ~exists
  <2>1. seen = Nil /\ now = NoCloudInit
    BY <1>4, CloudState
  <2>2. now.ipconfig[n] = Nil
    BY <2>1 DEF NoCloudInit
  <2>3. HadAddress(n, f) = NoAddress
    BY <1>4, <2>2 DEF HadAddress, Address
  <2> QED BY <2>1, <2>3, <1>1, <1>2 DEF Kept
<1> QED BY <1>3, <1>4

\* What is sent of a family is an address and a gateway.
LEMMA FamilyAddress ==
    ASSUME NEW n, NEW f
    PROVE  Family(n, f) = [ip |-> Family(n, f).ip, gw |-> Family(n, f).gw]
<1>1. NoAddress = [ip |-> NoAddress.ip, gw |-> NoAddress.gw]
  BY DEF NoAddress
<1>2. \A w, c : IpToApi(w, c) = [ip |-> IpToApi(w, c).ip, gw |-> IpToApi(w, c).gw]
  BY IpSent
<1> QED BY <1>1, <1>2 DEF Family

\* A family that is not asked for is sent as it was.
LEMMA FamilyKept == ASSUME NEW n, NEW f, NEW a \in Addresses, Kept(n, f) = IpToSdk(a),
                           want.ipconfig[n][f] = Nil
                    PROVE  Family(n, f) = a
<1>1. CASE Kept(n, f) = Nil
  BY <1>1, NothingKept DEF Family
<1>2. CASE Kept(n, f) # Nil
  <2>1. IpToApi(IpToSdk(a), Nil) = a
    BY <1>2, IpBack
  <2> QED BY <1>2, <2>1 DEF Family
<1> QED BY <1>1, <1>2

\* One that is asked for is sent as it was asked for, with what it had where a
\* field is not given.
LEMMA FamilySent == ASSUME NEW n, NEW f, NEW a \in Addresses, Kept(n, f) = IpToSdk(a),
                           NEW w \in IpObjects, want.ipconfig[n][f] = w, NEW s, s = Family(n, f)
    PROVE  /\ w.dhcp => s.ip = "dhcp" /\ s.gw = Nil
           /\ ~w.dhcp /\ w.slaac => s.ip = "auto" /\ s.gw = Nil
           /\ ~w.dhcp /\ ~w.slaac =>
                 /\ w.address # Nil => s.ip = NonEmpty(w.address)
                 /\ w.address = Nil => s.ip = IF a.ip \in {"dhcp", "auto"} THEN Nil ELSE a.ip
                 /\ w.gateway # Nil => s.gw = NonEmpty(w.gateway)
                 /\ w.gateway = Nil => s.gw = a.gw
<1> DEFINE c == Kept(n, f)
<1>1. w # Nil
  BY NilAssumption
<1>2. s = IpToApi(w, c)
  BY <1>1 DEF Family
<1>3. /\ (IF c = Nil THEN Nil ELSE c.address) = IF a.ip \in {"dhcp", "auto"} THEN Nil ELSE a.ip
      /\ (IF c = Nil THEN Nil ELSE c.gateway) = a.gw
  <2>1. CASE c = Nil
    <3>1. a = NoAddress
      BY <2>1, NothingKept
    <3> QED BY <2>1, <3>1, NilValues, CloudInitAssumption DEF NoAddress
  <2>2. CASE c # Nil
    BY <2>2, IpRead
  <2> QED BY <2>1, <2>2
<1> HIDE DEF c
<1>4. a.ip \in {Nil} \cup Texts /\ a.gw \in {Nil} \cup Texts
  BY AddressFields
<1>5. /\ w.dhcp => s.ip = "dhcp" /\ s.gw = Nil
      /\ ~w.dhcp /\ w.slaac => s.ip = "auto" /\ s.gw = Nil
      /\ ~w.dhcp /\ ~w.slaac =>
            /\ s.ip = NonEmpty(Or(w.address, IF c = Nil THEN Nil ELSE c.address))
            /\ s.gw = NonEmpty(Or(w.gateway, IF c = Nil THEN Nil ELSE c.gateway))
  BY <1>2, IpSent
<1>6. NonEmpty(Nil) = Nil /\ NonEmpty(a.ip) = a.ip /\ NonEmpty(a.gw) = a.gw
  BY <1>4, NonEmptyTexts
<1> QED BY <1>3, <1>5, <1>6 DEF Or

\* What is sent of a family are texts.
LEMMA FamilyTyped == ASSUME IInv, part = "cloudinit", pc \in {"ok", "rejected"},
                            NEW n \in Nics, want.ipconfig[n] # Nil, NEW f \in {"v4", "v6"}
                     PROVE  Family(n, f) \in [ip : {Nil} \cup Strings, gw : {Nil} \cup Strings]
<1> DEFINE a == HadAddress(n, f)
           s == Family(n, f)
           w == want.ipconfig[n][f]
<1>1. a \in Addresses /\ Kept(n, f) = IpToSdk(a)
  BY KeptHad
<1>2. s = [ip |-> s.ip, gw |-> s.gw]
  BY FamilyAddress
<1>3. a.ip \in {Nil} \cup Strings /\ a.gw \in {Nil} \cup Strings
  BY <1>1, AddressFields DEF Texts
<1>4. CASE w = Nil
  BY <1>1, <1>2, <1>3, <1>4, FamilyKept
<1>5. CASE w # Nil
  <2> HIDE DEF w, s, a
  <2>1. w \in IpObjects
    <3>1. want.ipconfig \in [Nics -> {Nil} \cup [v4 : {Nil} \cup IpObjects, v6 : {Nil} \cup IpObjects]]
      BY CloudState DEF CloudInitObjects
    <3>2. want.ipconfig[n] \in [v4 : {Nil} \cup IpObjects, v6 : {Nil} \cup IpObjects]
      BY <3>1
    <3> QED BY <3>2, <1>5 DEF w
  <2>2. /\ w.dhcp \in BOOLEAN /\ w.slaac \in BOOLEAN
        /\ w.address \in {Nil} \cup Strings /\ w.gateway \in {Nil} \cup Strings
    BY <2>1 DEF IpObjects
  <2>3. /\ w.dhcp => s.ip = "dhcp" /\ s.gw = Nil
        /\ ~w.dhcp /\ w.slaac => s.ip = "auto" /\ s.gw = Nil
        /\ ~w.dhcp /\ ~w.slaac =>
              /\ w.address # Nil => s.ip = NonEmpty(w.address)
              /\ w.address = Nil => s.ip = IF a.ip \in {"dhcp", "auto"} THEN Nil ELSE a.ip
              /\ w.gateway # Nil => s.gw = NonEmpty(w.gateway)
              /\ w.gateway = Nil => s.gw = a.gw
    BY <2>1, <1>1, FamilySent DEF w, s
  <2>4. /\ NonEmpty(w.address) \in {Nil} \cup Strings
        /\ NonEmpty(w.gateway) \in {Nil} \cup Strings
        /\ "dhcp" \in Strings /\ "auto" \in Strings
    BY <2>2, NonEmptyTexts, CloudInitAssumption DEF Texts
  <2>5. s.ip \in {Nil} \cup Strings /\ s.gw \in {Nil} \cup Strings
    BY <2>2, <2>3, <2>4, <1>3
  <2> QED BY <2>5, <1>2 DEF s
<1> QED BY <1>4, <1>5

\* What the server makes of an interface.
LEMMA NicPut == ASSUME IInv, part = "cloudinit", pc \in {"ok", "rejected"}, NEW n \in Nics, NEW after,
                       after = Carry(CloudInitToApi(want, seen, major), now)
    PROVE  LET had == IF seen = Nil THEN Nil ELSE seen.ipconfig[n] IN
           /\ want.ipconfig[n] = Nil => after.ipconfig[n] = now.ipconfig[n]
           /\ want.ipconfig[n] # Nil /\ NicFamilies(n) # NoNic => after.ipconfig[n] = NicFamilies(n)
           /\ want.ipconfig[n] # Nil /\ NicFamilies(n) = NoNic =>
                 after.ipconfig[n] = IF had # Nil THEN Nil ELSE now.ipconfig[n]
<1> DEFINE had(m) == IF seen = Nil THEN Nil ELSE seen.ipconfig[m]
           sent == [m \in Nics |-> IF want.ipconfig[m] = Nil THEN Nil
                                   ELSE NicToApi(want.ipconfig[m], had(m))]
           empty(m) == sent[m] = NoNic
           request == NicsToApi(want.ipconfig, seen)
<1>1. /\ request.set = [m \in Nics |-> IF empty(m) THEN Nil ELSE sent[m]]
      /\ request.delete = {m \in Nics : empty(m) /\ had(m) # Nil}
  BY DEF NicsToApi, Request, NoNic
<1>2. sent[n] = IF want.ipconfig[n] = Nil THEN Nil ELSE NicFamilies(n)
  BY NicSent DEF NicFamilies
<1>3. request.set[n] = IF sent[n] = NoNic THEN Nil ELSE sent[n]
  BY <1>1
<1>4. n \in request.delete <=> sent[n] = NoNic /\ had(n) # Nil
  BY <1>1
<1> HIDE DEF request, sent
<1>5. NoNic # Nil
  <2>1. NoNic \in [v4 : [ip : {Nil} \cup Strings, gw : {Nil} \cup Strings],
                   v6 : [ip : {Nil} \cup Strings, gw : {Nil} \cup Strings]]
    BY DEF NoNic, NoAddress
  <2> QED BY <2>1, NilAssumption
<1>6. DOMAIN now.ipconfig = Nics
  <2>1. now.ipconfig \in [Nics -> {Nil} \cup NicParams]
    BY CloudState, CloudFields
  <2> QED BY <2>1
<1>7. after.ipconfig[n] = IF n \in request.delete THEN Nil ELSE Or(request.set[n], now.ipconfig[n])
  <2>1. after.ipconfig = Merge(request.set, request.delete, now.ipconfig)
    BY CloudSent DEF request
  <2> QED BY <2>1, <1>6 DEF Merge
<1> HIDE DEF had
<1>8. CASE want.ipconfig[n] = Nil
  <2>1. request.set[n] = Nil /\ n \notin request.delete
    BY <1>8, <1>2, <1>3, <1>4, <1>5
  <2> QED BY <1>8, <2>1, <1>7 DEF Or
<1>9. CASE want.ipconfig[n] # Nil /\ NicFamilies(n) = NoNic
  <2>1. request.set[n] = Nil /\ (n \in request.delete <=> had(n) # Nil)
    BY <1>9, <1>2, <1>3, <1>4
  <2>2. after.ipconfig[n] = IF had(n) # Nil THEN Nil ELSE now.ipconfig[n]
    BY <2>1, <1>7 DEF Or
  <2> QED BY <1>9, <2>2 DEF had
<1>10. CASE want.ipconfig[n] # Nil /\ NicFamilies(n) # NoNic
  <2>1. NicFamilies(n) # Nil
    <3>1. \A g \in {"v4", "v6"} : Family(n, g) \in [ip : {Nil} \cup Strings, gw : {Nil} \cup Strings]
      BY <1>10, FamilyTyped
    <3> QED BY <3>1, NilAssumption DEF NicFamilies
  <2>2. request.set[n] = NicFamilies(n) /\ n \notin request.delete
    BY <1>10, <1>2, <1>3, <1>4
  <2>3. after.ipconfig[n] = NicFamilies(n)
    BY <2>1, <2>2, <1>7 DEF Or
  <2> QED BY <1>10, <2>3
<1> QED BY <1>8, <1>9, <1>10

\* Each address and gateway is as asked for, or as it was read.
LEMMA CloudIpsExact ==
    ASSUME IInv, part = "cloudinit", pc = "ok",
           NEW n \in Nics, NEW f \in {"v4", "v6"}, NEW x \in {"ip", "gw"}
    PROVE  Settled(<<n, f, x>>)
<1> DEFINE l == <<n, f, x>>
           w == want.ipconfig[n][f]
           a == HadAddress(n, f)
           s == Family(n, f)
<1>1. a \in Addresses /\ Kept(n, f) = IpToSdk(a)
  BY KeptHad
<1>2. Len(l) = 3 /\ l[1] = n /\ l[2] = f /\ l[3] = x
  OBVIOUS
<1>3. \A ps : Value(ps, l) = Address(ps, n, f)[x]
  <2>1. \A ps : Value(ps, l) = IF ps.ipconfig[n] = Nil THEN Nil ELSE ps.ipconfig[n][f][x]
    BY <1>2 DEF Value
  <2>2. NoAddress[x] = Nil
    BY DEF NoAddress
  <2> QED BY <2>1, <2>2 DEF Address
<1>4. Had(l) = a[x]
  BY <1>3 DEF Had, HadAddress
<1>5. Shared(l) /\ ~Lost(l)
  BY <1>2 DEF Shared, Lost
<1>6. IsAsked(l) <=> /\ want.ipconfig[n] # Nil /\ w # Nil
                     /\ \/ w.dhcp \/ w.slaac
                        \/ IF x = "gw" THEN w.gateway # Nil
                           ELSE w.address # Nil \/ Had(l) \in {"dhcp", "auto"}
  BY <1>2 DEF IsAsked
<1>7. Wanted(l) = IF w.dhcp \/ w.slaac
                  THEN IF x = "gw" THEN Nil ELSE IF w.dhcp THEN "dhcp" ELSE "auto"
                  ELSE IF x = "gw" THEN NonEmpty(w.gateway)
                  ELSE IF w.address = Nil THEN Nil ELSE NonEmpty(w.address)
  BY <1>2 DEF Wanted
<1> HIDE DEF l, a
<1>8. CASE want.ipconfig[n] = Nil
  <2>1. params.ipconfig[n] = now.ipconfig[n]
    BY <1>8, CloudState, NicPut
  <2>2. Value(params, l) = Value(now, l)
    BY <2>1, <1>3 DEF Address
  <2> QED BY <2>2, <1>6, <1>8 DEF Settled, l
<1>9. CASE want.ipconfig[n] # Nil
  <2>1. IF IsAsked(l) THEN s[x] = Wanted(l) ELSE s[x] = a[x]
    <3>1. CASE w = Nil
      <4>1. s = a
        BY <3>1, <1>1, FamilyKept
      <4> QED BY <4>1, <3>1, <1>6
    <3>2. CASE w # Nil
      <4> HIDE DEF w, s
      <4>1. w \in IpObjects
        <5>1. want.ipconfig \in [Nics -> {Nil} \cup [v4 : {Nil} \cup IpObjects, v6 : {Nil} \cup IpObjects]]
          BY CloudState DEF CloudInitObjects
        <5>2. want.ipconfig[n] \in [v4 : {Nil} \cup IpObjects, v6 : {Nil} \cup IpObjects]
          BY <5>1, <1>9
        <5> QED BY <5>2, <3>2 DEF w
      <4>2. /\ w.dhcp => s.ip = "dhcp" /\ s.gw = Nil
            /\ ~w.dhcp /\ w.slaac => s.ip = "auto" /\ s.gw = Nil
            /\ ~w.dhcp /\ ~w.slaac =>
                  /\ w.address # Nil => s.ip = NonEmpty(w.address)
                  /\ w.address = Nil => s.ip = IF a.ip \in {"dhcp", "auto"} THEN Nil ELSE a.ip
                  /\ w.gateway # Nil => s.gw = NonEmpty(w.gateway)
                  /\ w.gateway = Nil => s.gw = a.gw
        BY <4>1, <1>1, FamilySent DEF w, s
      <4>3. CASE x = "ip"
        BY <4>2, <4>3, <3>2, <1>4, <1>6, <1>7, <1>9
      <4>4. CASE x = "gw"
        BY <4>2, <4>4, <3>2, <1>4, <1>6, <1>7, <1>9
      <4> QED BY <4>3, <4>4
    <3> QED BY <3>1, <3>2
  <2> DEFINE had == IF seen = Nil THEN Nil ELSE seen.ipconfig[n]
  <2>2. /\ NicFamilies(n) # NoNic => params.ipconfig[n] = NicFamilies(n)
        /\ NicFamilies(n) = NoNic => params.ipconfig[n] = IF had # Nil THEN Nil ELSE now.ipconfig[n]
    BY <1>9, CloudState, NicPut
  <2>3. NicFamilies(n)[f] = s /\ NicFamilies(n) \in [v4 : {Family(n, "v4")}, v6 : {Family(n, "v6")}]
    BY DEF NicFamilies
  <2>5. CASE NicFamilies(n) # NoNic
    <3>1. NicFamilies(n) # Nil
      <4>1. \A g \in {"v4", "v6"} : Family(n, g) \in [ip : {Nil} \cup Strings, gw : {Nil} \cup Strings]
        BY <1>9, FamilyTyped
      <4> QED BY <4>1, NilAssumption DEF NicFamilies
    <3>2. Value(params, l) = s[x]
      BY <3>1, <2>2, <2>3, <2>5, <1>3 DEF Address
    <3> QED BY <3>2, <2>1, <1>4, <1>5 DEF Settled, l
  <2>6. CASE NicFamilies(n) = NoNic
    <3>1. s = NoAddress
      BY <2>3, <2>6 DEF NoNic
    <3>2. CASE had # Nil
      <4>1. Value(params, l) = s[x]
        BY <2>2, <2>6, <3>1, <3>2, <1>3 DEF Address
      <4> QED BY <4>1, <2>1, <1>4, <1>5 DEF Settled, l
    <3>3. CASE had = Nil
      <4>1. params.ipconfig[n] = now.ipconfig[n]
        BY <2>2, <2>6, <3>3
      <4>2. Value(params, l) = Value(now, l)
        BY <4>1, <1>3 DEF Address
      <4>3. a = s
        BY <3>1, <3>3, <1>1, NothingKept DEF Kept
      <4> QED BY <4>2, <4>3, <2>1, <1>4, <1>5 DEF Settled, l
    <3> QED BY <3>2, <3>3
  <2> QED BY <2>5, <2>6
<1> QED BY <1>8, <1>9

\* Cloud-init is as asked for, and nothing else changes.
LEMMA CloudExact ==
    ASSUME IInv, pc = "ok", part = "cloudinit"
    PROVE  \A l \in Leaves : Settled(l)
<1>1. Leaves = {<<p>> : p \in DOMAIN params \ {"cicustom", "ipconfig"}}
               \cup ({"custom"} \X Snippets) \cup (Nics \X {"v4", "v6"} \X {"ip", "gw"})
  BY DEF Leaves
<1>2. DOMAIN params = {"cicustom", "ciupgrade", "ipconfig", "ciuser", "cipassword",
                       "searchdomain", "nameserver", "sshkeys"}
  BY CloudState, CloudSent
<1>3. ASSUME NEW p \in DOMAIN params \ {"cicustom", "ipconfig"} PROVE Settled(<<p>>)
  BY <1>2, CloudTextsExact
<1>4. ASSUME NEW l \in {"custom"} \X Snippets PROVE Settled(l)
  <2>1. PICK k \in Snippets : l = <<"custom", k>>
    OBVIOUS
  <2> QED BY <2>1, CloudSnippetsExact
<1>5. ASSUME NEW l \in Nics \X {"v4", "v6"} \X {"ip", "gw"} PROVE Settled(l)
  <2>1. PICK n \in Nics, f \in {"v4", "v6"}, x \in {"ip", "gw"} : l = <<n, f, x>>
    OBVIOUS
  <2> QED BY <2>1, CloudIpsExact
<1> QED BY <1>1, <1>3, <1>4, <1>5

\* The server refuses only half a snippet, and mapToAPI panics only if some snippets
\* are given and not all.
LEMMA CloudAccepted ==
    ASSUME IInv, part = "cloudinit", pc \in {"rejected", "panic"}
    PROVE  Unsendable
<1>1. CASE pc = "panic"
  <2>1. SnippetPanics(want.custom, IF seen = Nil THEN Nil ELSE seen.custom)
    BY <1>1 DEF IInv, Answered, Panics
  <2> QED BY <2>1 DEF SnippetPanics, Unsendable
<1>2. CASE pc = "rejected"
  <2> DEFINE request == CloudInitToApi(want, seen, major)
             after == Carry(request, now)
  <2>1. ~Accepts(request, now)
    BY <1>2, CloudState
  <2>2. \A p \in request.delete : request.set[p] = Nil
    <3>1. /\ request.set.ciuser = NonEmpty(want.user)
          /\ request.set.cipassword = NonEmpty(want.password)
          /\ request.set.searchdomain = NonEmpty(want.domain)
          /\ request.set.nameserver = NonEmpty(want.servers)
          /\ request.set.sshkeys = NonEmpty(want.keys)
      BY DEF CloudInitToApi, Request
    <3>2. /\ request.delete \subseteq {"ciuser", "cipassword", "searchdomain", "nameserver", "sshkeys"}
          /\ "ciuser" \in request.delete => want.user = ""
          /\ "cipassword" \in request.delete => want.password = ""
          /\ "searchdomain" \in request.delete => want.domain = ""
          /\ "nameserver" \in request.delete => want.servers = ""
          /\ "sshkeys" \in request.delete => want.keys = ""
      BY DEF CloudInitToApi, Request
    <3> HIDE DEF request
    <3> QED BY <3>1, <3>2, NonEmptyTexts
  <2> HIDE DEF request
  <2>3. PICK k \in Snippets : after.cicustom[k] = "half"
    BY <2>1, <2>2 DEF Accepts
  <2>4. after.cicustom = IF want.custom = Nil THEN now.cicustom
                         ELSE Or(SnippetsToApi(want.custom, IF seen = Nil THEN Nil ELSE seen.custom),
                                 now.cicustom)
    BY <1>2, CloudSent DEF request
  <2> HIDE DEF after
  <2>5. now.cicustom[k] # "half"
    <3>1. now.cicustom \in [Snippets -> {Nil} \cup Volumes]
      BY <1>2, CloudState, CloudFields
    <3>2. "half" # Nil /\ "half" \notin Volumes
      BY CloudInitAssumption, NilValues DEF Volumes
    <3> QED BY <3>1, <3>2
  <2>6. want.custom # Nil
    BY <2>3, <2>4, <2>5
  <2> DEFINE cur == IF seen = Nil THEN Nil ELSE seen.custom
             s == Or(want.custom[k], IF cur = Nil THEN Nil ELSE cur[k])
  <2>7. want.custom \in [Snippets -> {Nil, "gone", "half"} \cup Volumes]
    BY <2>6, CloudState DEF CloudInitObjects
  <2>8. cur \in {Nil} \cup [Snippets -> {Nil} \cup Volumes]
    <3>1. CASE exists
      <4>1. before \in CloudInitParams(major) /\ seen = CloudInitToSdk(before)
        BY <3>1, <1>2, CloudState
      <4>2. before.cicustom \in [Snippets -> {Nil} \cup Volumes]
        BY <4>1, CloudFields
      <4>3. seen = Nil \/ seen.custom \in {Nil, before.cicustom}
        BY <4>1, CloudRead
      <4> QED BY <4>2, <4>3
    <3>2. CASE ~exists
      BY <3>2, <1>2, CloudState
    <3> QED BY <3>1, <3>2
  <2>9. s = "half"
    <3>1. cur \in {Nil} \cup [Snippets -> {Nil, "gone", "half"} \cup Volumes]
      BY <2>8
    <3>2. /\ SnippetsToApi(want.custom, cur) # Nil
          /\ SnippetsToApi(want.custom, cur)[k] = IF s = "gone" THEN Nil ELSE s
      BY <2>7, <3>1, SnippetsSent
    <3> HIDE DEF s
    <3>3. "half" # Nil
      BY CloudInitAssumption, NilValues
    <3> QED BY <3>2, <3>3, <2>3, <2>4, <2>6 DEF Or
  <2>10. want.custom[k] = "half"
    <3>1. "half" # Nil /\ "half" \notin Volumes
      BY CloudInitAssumption, NilValues DEF Volumes
    <3> QED BY <2>8, <2>9, <3>1 DEF Or
  <2> QED BY <2>6, <2>10 DEF Unsendable
<1> QED BY <1>1, <1>2

\* What was read is accepted by Validate.
LEMMA CloudValid == ASSUME part = "cloudinit", NEW g \in CloudInitParams(major), NEW c,
                           c = CloudInitToSdk(g), c # Nil
                    PROVE  CloudInitValid(c, major)
<1>1. c.upgrade = TRUE => major >= 8
  <2>1. c.upgrade = g.ciupgrade /\ (g.ciupgrade # Nil => major >= 8)
    BY CloudRead, CloudFields
  <2> QED BY <2>1, NilValues
<1>2. ASSUME NEW n \in Nics, c.ipconfig[n] # Nil PROVE NicValid(n, c.ipconfig[n])
  <2> DEFINE a == g.ipconfig[n]
  <2>1. c.ipconfig = [m \in Nics |-> IF g.ipconfig[m] = Nil THEN Nil ELSE NicToSdk(g.ipconfig[m])]
    BY CloudRead
  <2>2. a # Nil /\ c.ipconfig[n] = NicToSdk(a) /\ n <= MaxNic
    BY <1>2, <2>1, CloudFields
  <2>3. a \in NicParams
    BY <2>2, CloudFields
  <2> HIDE DEF a
  <2>4. /\ a.v4 \in Addresses /\ a.v6 \in Addresses
        /\ c.ipconfig[n].v4 = IpToSdk(a.v4) /\ c.ipconfig[n].v6 = IpToSdk(a.v6)
    BY <2>2, <2>3, NicRead DEF NicToSdk
  <2>5. ASSUME NEW b \in Addresses, NEW w, w = IpToSdk(b), w # Nil PROVE IpValid(w)
    <3>1. /\ w.address = IF b.ip \in {"dhcp", "auto"} THEN Nil ELSE b.ip
          /\ w.gateway = b.gw
          /\ w.dhcp <=> b.ip = "dhcp"
          /\ w.slaac <=> b.ip = "auto"
      BY <2>5, IpRead
    <3>2. /\ b.ip \in {Nil} \cup Texts /\ b.gw \in {Nil} \cup Texts
          /\ b.ip # Nil => b.ip # Invalid
          /\ b.gw # Nil => b.gw # Invalid
          /\ b.ip \in {"dhcp", "auto"} => b.gw = Nil
      BY AddressFields
    <3>3. ~(w.dhcp /\ w.slaac)
      BY <3>1
    <3>4. NonEmpty(w.address) = w.address /\ NonEmpty(w.gateway) = w.gateway
      BY <3>1, <3>2, NonEmptyTexts
    <3>5. NonEmpty(w.address) # Nil => ~w.dhcp /\ ~w.slaac /\ w.address # Invalid
      BY <3>1, <3>2, <3>4
    <3>6. NonEmpty(w.gateway) # Nil => ~w.dhcp /\ ~w.slaac /\ w.gateway # Invalid
      BY <3>1, <3>2, <3>4
    <3> QED BY <3>3, <3>5, <3>6 DEF IpValid
  <2> QED BY <2>2, <2>4, <2>5 DEF NicValid
<1> QED BY <1>1, <1>2 DEF CloudInitValid

\* Cloud-init is sent back as it was read.
LEMMA CloudResend ==
    ASSUME IInv, part = "cloudinit", want = held, others = 0, pc \in {"ok", "refused"}, held # Nil
    PROVE  pc = "ok" /\ params = before
<1>1. exists /\ before \in CloudInitParams(major) /\ want = CloudInitToSdk(before) /\ seen = want /\ want # Nil
  BY DEF IInv, TypeOK, Known, Fresh, Alone, Has, Guests, ToSdk
<1>2. pc = "ok"
  BY <1>1, CloudValid, CloudState
<1>3. now = before /\ params = Carry(CloudInitToApi(want, seen, major), now)
  BY <1>1, <1>2, CloudState DEF IInv, Alone
<1>4. /\ DOMAIN before = {"cicustom", "ciupgrade", "ipconfig", "ciuser", "cipassword",
                          "searchdomain", "nameserver", "sshkeys"}
      /\ before = [p \in DOMAIN before |-> before[p]]
      /\ before.cicustom \in [Snippets -> {Nil} \cup Volumes]
      /\ before.ipconfig \in [Nics -> {Nil} \cup NicParams]
      /\ before.ciuser \in {Nil} \cup Texts /\ before.cipassword \in {Nil} \cup Texts
      /\ before.searchdomain \in {Nil} \cup Texts /\ before.nameserver \in {Nil} \cup Texts
      /\ before.sshkeys \in {Nil} \cup Texts
  BY <1>1, CloudFields
<1>5. /\ want.custom = IF before.cicustom = NoSnippets THEN Nil ELSE before.cicustom
      /\ want.user = before.ciuser /\ want.password = before.cipassword
      /\ want.upgrade = before.ciupgrade /\ want.keys = before.sshkeys
      /\ want.domain \in {before.searchdomain, ""}
      /\ want.domain = "" => before.searchdomain = Nil
      /\ want.servers \in {before.nameserver, ""}
      /\ want.servers = "" => before.nameserver = Nil
      /\ want.ipconfig = [n \in Nics |-> IF before.ipconfig[n] = Nil THEN Nil
                                         ELSE NicToSdk(before.ipconfig[n])]
  BY <1>1, CloudRead
<1>6. ASSUME NEW t \in {Nil} \cup Texts, NEW w \in {t, ""}, w = "" => t = Nil
      PROVE  TextPut(w, t) = t
  <2>1. CASE w = ""
    BY <1>6, <2>1, NonEmptyTexts DEF TextPut, Or
  <2>2. CASE w # ""
    BY <1>6, <2>2, NonEmptyTexts DEF TextPut, Or
  <2> QED BY <2>1, <2>2
<1>7. /\ DOMAIN params = DOMAIN before
      /\ params = [p \in DOMAIN params |-> params[p]]
      /\ params.ciuser = TextPut(want.user, before.ciuser)
      /\ params.cipassword = TextPut(want.password, before.cipassword)
      /\ params.searchdomain = TextPut(want.domain, before.searchdomain)
      /\ params.nameserver = TextPut(want.servers, before.nameserver)
      /\ params.sshkeys = TextPut(want.keys, before.sshkeys)
      /\ params.ciupgrade = IF major >= 8 THEN Or(want.upgrade, before.ciupgrade) ELSE before.ciupgrade
      /\ params.cicustom = IF want.custom = Nil THEN before.cicustom
                           ELSE Or(SnippetsToApi(want.custom, IF seen = Nil THEN Nil ELSE seen.custom),
                                   before.cicustom)
      /\ params.ipconfig = Merge(NicsToApi(want.ipconfig, seen).set,
                                 NicsToApi(want.ipconfig, seen).delete, before.ipconfig)
  BY <1>2, <1>3, <1>4, CloudSent
<1>t. ASSUME NEW t \in {Nil} \cup Texts PROVE TextPut(t, t) = t
  <2>1. t # ""
    BY NilValues
  <2> QED BY <2>1, <1>6
<1>8. params.ciuser = before.ciuser /\ params.cipassword = before.cipassword /\ params.sshkeys = before.sshkeys
  <2>1. /\ params.ciuser = TextPut(before.ciuser, before.ciuser)
        /\ params.cipassword = TextPut(before.cipassword, before.cipassword)
        /\ params.sshkeys = TextPut(before.sshkeys, before.sshkeys)
    BY <1>5, <1>7
  <2> QED BY <2>1, <1>4, <1>t
<1>s. TextPut(want.domain, before.searchdomain) = before.searchdomain
  <2> DEFINE t == before.searchdomain
             w == want.domain
  <2>1. t \in {Nil} \cup Texts /\ w \in {t, ""} /\ (w = "" => t = Nil)
    BY <1>4, <1>5
  <2> HIDE DEF t, w
  <2>2. TextPut(w, t) = t
    BY <2>1, <1>6
  <2> QED BY <2>2 DEF t, w
<1>n. TextPut(want.servers, before.nameserver) = before.nameserver
  <2> DEFINE t == before.nameserver
             w == want.servers
  <2>1. t \in {Nil} \cup Texts /\ w \in {t, ""} /\ (w = "" => t = Nil)
    BY <1>4, <1>5
  <2> HIDE DEF t, w
  <2>2. TextPut(w, t) = t
    BY <2>1, <1>6
  <2> QED BY <2>2 DEF t, w
<1>9. params.searchdomain = before.searchdomain /\ params.nameserver = before.nameserver
  BY <1>7, <1>s, <1>n
<1>10. params.ciupgrade = before.ciupgrade
  BY <1>5, <1>7 DEF Or
<1>11. params.cicustom = before.cicustom
  <2>1. CASE want.custom = Nil
    BY <2>1, <1>7
  <2>2. CASE want.custom # Nil
    <3> DEFINE c == before.cicustom
    <3>1. want.custom = c /\ seen.custom = c /\ c # Nil
      BY <2>2, <1>1, <1>5
    <3>2. SnippetsToApi(c, c) = c
      <4>1. \A k \in Snippets : c[k] # "gone"
        <5>1. "gone" # Nil /\ "gone" \notin Volumes
          BY CloudInitAssumption, NilValues DEF Volumes
        <5> QED BY <5>1, <1>4
      <4>2. SnippetsToApi(c, c) = [k \in Snippets |-> c[k]]
        BY <3>1, <4>1 DEF SnippetsToApi, Or
      <4> QED BY <4>2, <1>4
    <3> QED BY <3>1, <3>2, <2>2, <1>1, <1>7 DEF Or
  <2> QED BY <2>1, <2>2
<1>12. params.ipconfig = before.ipconfig
  <2>1. ASSUME NEW n \in Nics PROVE params.ipconfig[n] = before.ipconfig[n]
    <3>1. want.ipconfig[n] = IF before.ipconfig[n] = Nil THEN Nil ELSE NicToSdk(before.ipconfig[n])
      BY <1>5
    <3>2. CASE before.ipconfig[n] = Nil
      BY <3>1, <3>2, <1>2, <1>3, NicPut
    <3>3. CASE before.ipconfig[n] # Nil
      <4> DEFINE a == before.ipconfig[n]
      <4>1. /\ a = [v4 |-> a.v4, v6 |-> a.v6]
            /\ a.v4 \in Addresses /\ a.v6 \in Addresses
            /\ NicToSdk(a) # Nil
            /\ NicToSdk(a) = [v4 |-> IpToSdk(a.v4), v6 |-> IpToSdk(a.v6)]
            /\ a # NoNic
        <5>1. a \in NicParams
          BY <1>4, <3>3
        <5> QED BY <5>1, NicRead DEF NoNic
      <4> HIDE DEF a
      <4>2. want.ipconfig[n] = NicToSdk(a) /\ seen.ipconfig[n] = NicToSdk(a)
        BY <3>1, <3>3, <1>1 DEF a
      <4>3. ASSUME NEW f \in {"v4", "v6"} PROVE Family(n, f) = a[f]
        <5>1. a[f] \in Addresses /\ NicToSdk(a)[f] = IpToSdk(a[f])
          BY <4>1
        <5>2. Kept(n, f) = IpToSdk(a[f]) /\ want.ipconfig[n][f] = IpToSdk(a[f])
          BY <4>1, <4>2, <5>1, <1>1 DEF Kept
        <5>3. CASE IpToSdk(a[f]) = Nil
          BY <5>1, <5>2, <5>3, FamilyKept
        <5>4. CASE IpToSdk(a[f]) # Nil
          BY <5>1, <5>2, <5>4, IpBack DEF Family
        <5> QED BY <5>3, <5>4
      <4>4. NicFamilies(n) = a
        BY <4>1, <4>3 DEF NicFamilies
      <4>5. params.ipconfig[n] = NicFamilies(n)
        BY <4>1, <4>2, <4>4, <1>2, <1>3, NicPut
      <4> QED BY <4>4, <4>5 DEF a
    <3> QED BY <3>2, <3>3
  <2>2. params.ipconfig = [n \in Nics |-> params.ipconfig[n]]
    BY <1>4, <1>7 DEF Merge
  <2> QED BY <2>1, <2>2, <1>4
<1>13. \A p \in DOMAIN before : params[p] = before[p]
  BY <1>4, <1>8, <1>9, <1>10, <1>11, <1>12
<1> QED BY <1>2, <1>4, <1>7, <1>13

-----------------------------------------------------------------------------
(* The processor: an affinity is the same set after it was written as ranges. *)

\* A set of numbers that is not empty has a smallest element.
LEMMA Smallest == ASSUME NEW S \in SUBSET Nat, S # {} PROVE \E n \in S : \A m \in S : n <= m
<1> DEFINE R == {ss \in Nat \X Nat : ss[1] < ss[2]}
<1>1. IsWellFoundedOn(R, Nat)
  BY NatLessThanWellFounded DEF OpToRel
<1>2. PICK n \in S : \A m \in S : ~(<<m, n>> \in R)
  BY <1>1, WFMin
<1>3. ASSUME NEW m \in S PROVE n <= m
  <2>1. <<m, n>> \in Nat \X Nat
    OBVIOUS
  <2>2. ~(m < n)
    BY <1>2, <2>1
  <2> QED BY <2>2
<1> QED BY <1>3

\* A bounded set of numbers that is not empty has a largest element.
LEMMA Largest == ASSUME NEW k \in Nat, NEW S \in SUBSET (0..k), S # {}
                 PROVE  \E n \in S : \A m \in S : m <= n
<1> DEFINE T == {d \in Nat : k - d \in S}
<1>1. T \in SUBSET Nat /\ T # {}
  <2>1. PICK m \in S : TRUE
    OBVIOUS
  <2>2. k - m \in Nat /\ k - (k - m) = m
    OBVIOUS
  <2> QED BY <2>1, <2>2
<1>2. PICK d \in T : \A e \in T : d <= e
  BY <1>1, Smallest
<1>3. ASSUME NEW m \in S PROVE m <= k - d
  <2>1. k - m \in Nat /\ k - (k - m) = m
    OBVIOUS
  <2>2. d <= k - m
    BY <2>1, <1>2
  <2> QED BY <2>2, <1>2
<1> QED BY <1>2, <1>3

\* The ranges that a set of processors is written as are read as the same set.
LEMMA AffinityBack == ASSUME NEW S \in SUBSET (0..MaxUint)
    PROVE  /\ Ranges(S) \in SUBSET ((0..MaxUint) \X (0..MaxUint))
           /\ AffinityToSdk(Ranges(S)) = S
<1>0. MaxUint \in Nat
  BY QemuCpuAssumption
<1>1. Ranges(S) \in SUBSET ((0..MaxUint) \X (0..MaxUint))
  BY DEF Ranges
<1>2. \A r \in Ranges(S) : r[1]..r[2] \subseteq S
  BY DEF Ranges
<1>3. ASSUME NEW x \in S PROVE \E r \in Ranges(S) : x \in r[1]..r[2]
  <2> DEFINE lower == {a \in 0..x : a..x \subseteq S}
             upper == {b \in x..MaxUint : x..b \subseteq S}
  <2>1. x \in Nat /\ x <= MaxUint /\ x \in lower /\ x \in upper
    BY <1>0
  <2>2. PICK lo \in lower : \A a \in lower : lo <= a
    <3>1. lower \in SUBSET Nat /\ lower # {}
      BY <2>1
    <3> QED BY <3>1, Smallest
  <2>3. PICK hi \in upper : \A b \in upper : b <= hi
    <3>1. upper \in SUBSET (0..MaxUint) /\ upper # {}
      BY <2>1
    <3> QED BY <3>1, <1>0, Largest
  <2>4. lo \in Nat /\ hi \in Nat /\ lo <= x /\ x <= hi /\ hi <= MaxUint
    BY <2>1, <2>2, <2>3
  <2>5. lo..hi \subseteq S
    <3>1. ASSUME NEW y \in lo..hi PROVE y \in S
      <4>1. CASE y <= x
        BY <4>1, <2>2, <2>4
      <4>2. CASE x <= y
        BY <4>2, <2>3, <2>4
      <4> QED BY <4>1, <4>2, <2>4
    <3> QED BY <3>1
  <2>6. lo - 1 \notin S
    <3> SUFFICES ASSUME lo - 1 \in S PROVE FALSE
      OBVIOUS
    <3>1. lo - 1 \in 0..x
      BY <2>4
    <3>2. (lo - 1)..x \subseteq S
      <4>1. ASSUME NEW y \in (lo - 1)..x PROVE y \in S
        <5>1. y = lo - 1 \/ y \in lo..hi
          BY <2>4
        <5> QED BY <5>1, <2>5
      <4> QED BY <4>1
    <3>3. lo <= lo - 1
      BY <3>1, <3>2, <2>2
    <3> QED BY <3>3, <2>4
  <2>7. hi + 1 \notin S
    <3> SUFFICES ASSUME hi + 1 \in S PROVE FALSE
      OBVIOUS
    <3>1. hi + 1 \in x..MaxUint
      BY <2>4, <1>0
    <3>2. x..(hi + 1) \subseteq S
      <4>1. ASSUME NEW y \in x..(hi + 1) PROVE y \in S
        <5>1. y = hi + 1 \/ y \in lo..hi
          BY <2>4
        <5> QED BY <5>1, <2>5
      <4> QED BY <4>1
    <3>3. hi + 1 <= hi
      BY <3>1, <3>2, <2>3
    <3> QED BY <3>3, <2>4
  <2>8. <<lo, hi>> \in Ranges(S)
    <3>1. lo \in S /\ hi \in S /\ lo <= hi
      BY <2>4, <2>5
    <3> QED BY <3>1, <2>5, <2>6, <2>7 DEF Ranges
  <2>9. x \in lo..hi
    BY <2>4
  <2> QED BY <2>8, <2>9
<1>4. AffinityToSdk(Ranges(S)) = S
  BY <1>2, <1>3 DEF AffinityToSdk
<1> QED BY <1>1, <1>4

\* The processors in a set of ranges that run upwards: none if there is no range.
LEMMA AffinityRead ==
    ASSUME NEW R \in SUBSET {r \in (0..MaxUint) \X (0..MaxUint) : r[1] <= r[2]}
    PROVE  /\ AffinityToSdk(R) \in SUBSET (0..MaxUint) /\ AffinityToSdk(R) # Nil
           /\ AffinityToSdk(R) = {} <=> R = {}
<1>0. MaxUint \in Nat
  BY QemuCpuAssumption
<1>1. \A r \in R : r[1] \in 0..MaxUint /\ r[2] \in 0..MaxUint /\ r[1] <= r[2]
  OBVIOUS
<1>2. \A r \in R : r[1]..r[2] \subseteq 0..MaxUint /\ r[1] \in r[1]..r[2]
  BY <1>0, <1>1
<1>3. AffinityToSdk(R) \in SUBSET (0..MaxUint)
  BY <1>2 DEF AffinityToSdk
<1>4. AffinityToSdk(R) # Nil
  BY <1>3, NilAssumption
<1>5. R # {} => AffinityToSdk(R) # {}
  BY <1>2 DEF AffinityToSdk
<1>6. R = {} => AffinityToSdk(R) = {}
  BY DEF AffinityToSdk
<1> QED BY <1>3, <1>4, <1>5, <1>6

-----------------------------------------------------------------------------
(* The processor: what is read and what is sent.                           *)

\* What a guest may have of the processor.
LEMMA CpuFields == ASSUME NEW g, g \in CpuParams \/ g = NoCpu
    PROVE  /\ DOMAIN g = {"affinity", "cores", "cpulimit", "numa", "sockets", "cpu", "cpuunits", "vcpus"}
           /\ g.affinity \in {Nil} \cup SUBSET {r \in (0..MaxUint) \X (0..MaxUint) : r[1] <= r[2]}
           /\ g.cores \in {Nil} \cup (Nat \ {0}) /\ g.sockets \in {Nil} \cup (Nat \ {0})
           /\ g.cpulimit \in {Nil} \cup 0..(10 * MaxLimit) /\ g.cpuunits \in {Nil} \cup 0..MaxUnits
           /\ g.numa \in {Nil, 0, 1} /\ g.vcpus \in {Nil} \cup Nat
           /\ g.cpu \in {Nil} \cup CpuValues
<1>1. CASE g \in CpuParams
  BY <1>1 DEF CpuParams
<1>2. CASE g = NoCpu
  BY <1>2 DEF NoCpu
<1> QED BY <1>1, <1>2

\* A processor's type and flags.
LEMMA CpuValueFields == ASSUME NEW v \in CpuValues
    PROVE  v # Nil /\ v.type \in Strings /\ v.flags \in [Flags -> {Nil, -1, 1}]
  BY NilAssumption DEF CpuValues

\* A number that is read fits its field, and only none is read as none.
LEMMA Narrowed == ASSUME NEW n \in {Nil} \cup Nat
    PROVE  /\ Narrow(n, Uint8) \in {Nil} \cup 0..(Uint8 - 1)
           /\ Narrow(n, Uint16) \in {Nil} \cup 0..(Uint16 - 1)
           /\ Narrow(n, Uint8) = Nil => n = Nil
           /\ Narrow(n, Uint16) = Nil => n = Nil
<1>0. \A k \in Int : k # Nil
  BY NilAssumption
<1>1. CASE n = Nil
  BY <1>1 DEF Narrow
<1>2. CASE n \in Nat
  <2> DEFINE a == n % 256
             b == n % 65536
  <2>1. n # Nil
    BY <1>0, <1>2
  <2>2. a \in 0..255 /\ b \in 0..65535
    BY <1>2
  <2>3. a \in Int /\ b \in Int
    BY <1>2
  <2>4. Narrow(n, Uint8) = a /\ Narrow(n, Uint16) = b
    BY <2>1 DEF Narrow, Uint8, Uint16
  <2> HIDE DEF a, b
  <2>5. a # Nil /\ b # Nil
    BY <1>0, <2>3
  <2>6. Uint8 - 1 = 255 /\ Uint16 - 1 = 65535
    BY DEF Uint8, Uint16
  <2> QED BY <2>2, <2>4, <2>5, <2>6
<1> QED BY <1>1, <1>2

\* A limit that is read fits its field.
LEMMA LimitRead ==
    \A n \in {Nil} \cup 0..(10 * MaxLimit) :
        /\ LimitToSdk(n) \in {Nil} \cup 0..MaxLimit
        /\ LimitToSdk(n) \in {Nil} \cup 0..(Uint8 - 1)
        /\ LimitToSdk(n) = Nil <=> n = Nil
<1>1. MaxLimit \in Nat /\ MaxLimit < 256
  BY QemuCpuAssumption DEF Uint8
<1>2. \A n \in 0..(10 * MaxLimit) : n \div 10 \in 0..MaxLimit
  BY <1>1
<1>3. 0..MaxLimit \subseteq 0..255 /\ 0..MaxLimit \subseteq Int
  BY <1>1
<1>4. Nil \notin Int
  BY NilAssumption
<1> QED BY <1>2, <1>3, <1>4 DEF LimitToSdk, Uint8

\* A limit that is written is none only if it was none.
LEMMA TenthsPut == ASSUME NEW n \in {Nil} \cup Nat
    PROVE  /\ Tenths(n) \in {Nil} \cup Nat
           /\ (Tenths(n) = Nil) <=> (n = Nil)
           /\ (Tenths(n) = 0) <=> (n = 0)
<1>0. 0 # Nil
  BY NilAssumption
<1>1. CASE n = Nil
  BY <1>0, <1>1 DEF Tenths
<1>2. CASE n \in Nat
  <2>1. n # Nil
    BY <1>2, NilAssumption
  <2>2. 10 * n \in Nat /\ (10 * n = 0 <=> n = 0)
    BY <1>2
  <2>3. 10 * n # Nil
    BY <2>2, NilAssumption
  <2>4. Tenths(n) = 10 * n
    BY <2>1 DEF Tenths
  <2> QED BY <2>1, <2>2, <2>3, <2>4
<1> QED BY <1>1, <1>2

\* What is read of the processor, setting by setting.
LEMMA CpuRead == ASSUME NEW g \in CpuParams, NEW c, c = CpuToSdk(g)
    PROVE  /\ c \in CpuObjects /\ c # Nil
           /\ c.affinity = IF g.affinity = Nil THEN Nil ELSE AffinityToSdk(g.affinity)
           /\ c.cores = Narrow(g.cores, Uint8) /\ c.limit = LimitToSdk(g.cpulimit)
           /\ c.numa = g.numa /\ c.sockets = Narrow(g.sockets, Uint8)
           /\ c.units = g.cpuunits /\ c.vcores = Narrow(g.vcpus, Uint16)
           /\ c.type = IF g.cpu = Nil THEN Nil ELSE g.cpu.type
           /\ c.flags = IF g.cpu = Nil THEN Nil
                        ELSE IF g.cpu.flags = NoFlags THEN Nil ELSE g.cpu.flags
<1> DEFINE affinity == IF g.affinity = Nil THEN Nil ELSE AffinityToSdk(g.affinity)
           type == IF g.cpu = Nil THEN Nil ELSE g.cpu.type
           flags == IF g.cpu = Nil \/ g.cpu.flags = NoFlags THEN Nil ELSE g.cpu.flags
           cores == Narrow(g.cores, Uint8)
           sockets == Narrow(g.sockets, Uint8)
           vcores == Narrow(g.vcpus, Uint16)
           limit == LimitToSdk(g.cpulimit)
<1>1. c = [affinity |-> affinity, cores |-> cores, limit |-> limit, numa |-> g.numa,
           sockets |-> sockets, units |-> g.cpuunits, vcores |-> vcores,
           type |-> type, flags |-> flags]
  BY DEF CpuToSdk
<1>2. affinity \in {Nil} \cup SUBSET (0..MaxUint)
  BY CpuFields, AffinityRead
<1>3. type \in {Nil} \cup Strings
  BY CpuFields, CpuValueFields
<1>4. flags \in {Nil} \cup [Flags -> {Nil} \cup Int]
  <2>1. CASE g.cpu = Nil
    BY <2>1
  <2>2. CASE g.cpu # Nil
    <3>1. g.cpu.flags \in [Flags -> {Nil, -1, 1}]
      BY <2>2, CpuFields, CpuValueFields
    <3>2. g.cpu.flags \in [Flags -> {Nil} \cup Int]
      BY <3>1
    <3> QED BY <3>2
  <2> QED BY <2>1, <2>2
<1>5. /\ cores \in {Nil} \cup 0..(Uint8 - 1) /\ sockets \in {Nil} \cup 0..(Uint8 - 1)
      /\ vcores \in {Nil} \cup 0..(Uint16 - 1)
      /\ g.numa \in {Nil, 0, 1} /\ g.cpuunits \in {Nil} \cup Nat
  <2>1. \A n \in Nat \ {0} : n \in Nat
    OBVIOUS
  <2> QED BY CpuFields, Narrowed
<1>l. limit \in {Nil} \cup 0..(Uint8 - 1)
  BY CpuFields, LimitRead
<1> HIDE DEF affinity, type, flags, cores, sockets, vcores, limit
<1>6. c \in CpuObjects
  BY <1>1, <1>2, <1>3, <1>4, <1>5, <1>l DEF CpuObjects
<1>7. c # Nil
  BY <1>6, NilAssumption DEF AllParts, Objects
<1>8. /\ c.affinity = affinity /\ c.cores = cores /\ c.limit = limit /\ c.numa = g.numa
      /\ c.sockets = sockets /\ c.units = g.cpuunits /\ c.vcores = vcores
      /\ c.type = type /\ c.flags = flags
  BY <1>1
<1> QED BY <1>6, <1>7, <1>8 DEF affinity, type, flags, cores, sockets, vcores, limit

\* What is read of the processor is an object.
LEMMA CpuReads ==
    ASSUME part = "cpu", NEW g \in CpuParams
    PROVE  ToSdk(g) \in {Nil} \cup CpuObjects
<1>1. ToSdk(g) = CpuToSdk(g)
  BY DEF ToSdk
<1> QED BY <1>1, CpuRead

\* What the invariant says of a call about the processor.
LEMMA CpuState == ASSUME IInv, part = "cpu", pc \in {"refused", "ok", "rejected", "panic"}
    PROVE  /\ want \in CpuObjects
           /\ exists => before \in CpuParams /\ seen = CpuToSdk(before)
           /\ ~exists => seen = Nil
           /\ pc # "refused" => /\ now \in CpuParams \/ now = NoCpu
                                /\ ~exists => now = NoCpu
                                /\ CpuValid(want, seen, major)
           /\ pc = "refused" => ~CpuValid(want, seen, major)
           /\ pc = "ok" => /\ params = Carry(CpuToApi(want, seen, major), now)
                           /\ Accepts(CpuToApi(want, seen, major), now)
           /\ pc = "rejected" => ~Accepts(CpuToApi(want, seen, major), now)
  BY DEF IInv, TypeOK, Known, Answered, Fresh, Objects, Has, Guests, Nothing, Valid, ToSdk,
         ToApi

\* The fields of an object that describes a processor.
LEMMA WantedCpu == ASSUME NEW w \in CpuObjects
    PROVE  /\ w.affinity \in {Nil} \cup SUBSET (0..MaxUint)
           /\ w.cores \in {Nil} \cup Nat /\ w.limit \in {Nil} \cup Nat /\ w.numa \in {Nil, 0, 1}
           /\ w.sockets \in {Nil} \cup Nat /\ w.units \in {Nil} \cup Nat /\ w.vcores \in {Nil} \cup Nat
           /\ w.type \in {Nil} \cup Strings /\ w.flags \in {Nil} \cup [Flags -> {Nil} \cup Int]
<1>1. 0..(Uint8 - 1) \subseteq Nat /\ 0..(Uint16 - 1) \subseteq Nat
  BY DEF Uint8, Uint16
<1>2. /\ w.affinity \in {Nil} \cup SUBSET (0..MaxUint)
      /\ w.cores \in {Nil} \cup 0..(Uint8 - 1) /\ w.limit \in {Nil} \cup 0..(Uint8 - 1)
      /\ w.sockets \in {Nil} \cup 0..(Uint8 - 1) /\ w.vcores \in {Nil} \cup 0..(Uint16 - 1)
      /\ w.numa \in {Nil, 0, 1} /\ w.units \in {Nil} \cup Nat
      /\ w.type \in {Nil} \cup Strings /\ w.flags \in {Nil} \cup [Flags -> {Nil} \cup Int]
  BY DEF CpuObjects
<1> QED BY <1>1, <1>2

\* A number, as the server has it then.
NumberPut(w, drop, old) == IF w = 0 /\ drop THEN Nil ELSE Or(NonZero(w), old)

\* A limit, a unit and virtual cores: 0 takes them away if there are any.
LEMMA NumbersPut == ASSUME NEW w \in {Nil} \cup Nat, NEW drop \in BOOLEAN, NEW old
    PROVE  /\ w = Nil => NumberPut(w, drop, old) = old
           /\ w # Nil => \/ NumberPut(w, drop, old) = NonZero(w)
                         \/ ~drop /\ NonZero(w) = Nil /\ NumberPut(w, drop, old) = old
<1>1. CASE w = Nil
  <2>1. NonZero(Nil) = Nil /\ Nil # 0
    <3>1. Nil # 0
      BY NilAssumption
    <3> QED BY <3>1 DEF NonZero
  <2> QED BY <1>1, <2>1 DEF NumberPut, Or
<1>2. CASE w = 0
  <2>1. NonZero(0) = Nil /\ 0 # Nil
    <3>1. 0 # Nil
      BY NilAssumption
    <3> QED BY <3>1 DEF NonZero
  <2>2. NumberPut(w, drop, old) = IF drop THEN Nil ELSE old
    BY <1>2, <2>1 DEF NumberPut, Or
  <2>3. NonZero(w) = Nil /\ w # Nil
    BY <1>2, <2>1
  <2> QED BY <2>2, <2>3
<1>3. CASE w \in Nat /\ w # 0
  BY <1>3, NilValues DEF NumberPut, NonZero, Or
<1> QED BY <1>1, <1>2, <1>3

\* The answer, parameter by parameter.
LEMMA CpuSent == ASSUME IInv, part = "cpu", pc \in {"ok", "rejected"}, NEW after,
                        after = Carry(CpuToApi(want, seen, major), now)
    PROVE  /\ DOMAIN after = {"affinity", "cores", "cpulimit", "numa", "sockets", "cpu", "cpuunits", "vcpus"}
           /\ after.affinity = Or(IF want.affinity = Nil
                                     \/ (want.affinity = {} /\ ~(seen # Nil /\ seen.affinity # Nil))
                                  THEN Nil ELSE Ranges(want.affinity), now.affinity)
           /\ after.cores = Or(want.cores, now.cores)
           /\ after.numa = Or(want.numa, now.numa)
           /\ after.sockets = Or(want.sockets, now.sockets)
           /\ after.cpulimit = NumberPut(Tenths(want.limit), seen # Nil /\ seen.limit # Nil, now.cpulimit)
           /\ after.cpuunits = NumberPut(want.units, seen # Nil, now.cpuunits)
           /\ after.vcpus = NumberPut(want.vcores, seen # Nil /\ seen.vcores # Nil, now.vcpus)
           /\ after.cpu = Or(CpuParam(want, seen, major), now.cpu)
<1>1. DOMAIN now = {"affinity", "cores", "cpulimit", "numa", "sockets", "cpu", "cpuunits", "vcpus"}
  BY CpuState, CpuFields
<1> DEFINE request == CpuToApi(want, seen, major)
<1>2. /\ request.set.affinity = IF want.affinity = Nil
                                   \/ (want.affinity = {} /\ ~(seen # Nil /\ seen.affinity # Nil))
                                THEN Nil ELSE Ranges(want.affinity)
      /\ request.set.cores = want.cores /\ request.set.numa = want.numa
      /\ request.set.sockets = want.sockets
      /\ request.set.cpulimit = NonZero(Tenths(want.limit))
      /\ request.set.cpuunits = NonZero(want.units)
      /\ request.set.vcpus = NonZero(want.vcores)
      /\ request.set.cpu = CpuParam(want, seen, major)
  BY DEF CpuToApi, Request, AffinityToApi
<1>3. /\ request.delete \subseteq {"cpulimit", "cpuunits", "vcpus"}
      /\ "cpulimit" \in request.delete <=> want.limit = 0 /\ seen # Nil /\ seen.limit # Nil
      /\ "cpuunits" \in request.delete <=> want.units = 0 /\ seen # Nil
      /\ "vcpus" \in request.delete <=> want.vcores = 0 /\ seen # Nil /\ seen.vcores # Nil
  BY DEF CpuToApi, Request
<1> HIDE DEF request
<1>4. after = [p \in DOMAIN now |-> IF p \in request.delete THEN Nil ELSE Or(request.set[p], now[p])]
  BY <1>1 DEF Carry, Indexed, request
<1>5. DOMAIN after = DOMAIN now
  BY <1>4
<1>6. \A p \in DOMAIN now : after[p] = IF p \in request.delete THEN Nil ELSE Or(request.set[p], now[p])
  BY <1>4
<1>7. \A p \in {"affinity", "cores", "numa", "sockets", "cpu"} : after[p] = Or(request.set[p], now[p])
  BY <1>1, <1>3, <1>6
<1>8. after.cpulimit = NumberPut(Tenths(want.limit), seen # Nil /\ seen.limit # Nil, now.cpulimit)
  <2>1. want.limit = 0 <=> Tenths(want.limit) = 0
    BY CpuState, WantedCpu, TenthsPut
  <2> QED BY <2>1, <1>1, <1>2, <1>3, <1>6 DEF NumberPut
<1>9. after.cpuunits = NumberPut(want.units, seen # Nil, now.cpuunits)
  BY <1>1, <1>2, <1>3, <1>6 DEF NumberPut
<1>10. after.vcpus = NumberPut(want.vcores, seen # Nil /\ seen.vcores # Nil, now.vcpus)
  BY <1>1, <1>2, <1>3, <1>6 DEF NumberPut
<1> QED BY <1>1, <1>2, <1>5, <1>7, <1>8, <1>9, <1>10

\* The server has no reason to refuse a processor.
LEMMA CpuAccepted == ASSUME IInv, part = "cpu" PROVE pc \notin {"rejected", "panic"}
<1>1. ASSUME pc = "panic" PROVE FALSE
  BY <1>1 DEF IInv, Answered, Panics
<1>2. ASSUME pc = "rejected" PROVE FALSE
  <2> DEFINE request == CpuToApi(want, seen, major)
  <2>1. ~Accepts(request, now)
    BY <1>2, CpuState
  <2>2. \A p \in request.delete : request.set[p] = Nil
    <3>1. /\ request.set.cpulimit = NonZero(Tenths(want.limit))
          /\ request.set.cpuunits = NonZero(want.units)
          /\ request.set.vcpus = NonZero(want.vcores)
      BY DEF CpuToApi, Request
    <3>2. /\ request.delete \subseteq {"cpulimit", "cpuunits", "vcpus"}
          /\ "cpulimit" \in request.delete => want.limit = 0
          /\ "cpuunits" \in request.delete => want.units = 0
          /\ "vcpus" \in request.delete => want.vcores = 0
      BY DEF CpuToApi, Request
    <3> HIDE DEF request
    <3>3. Tenths(0) = 0
      <4>1. 0 # Nil
        BY NilAssumption
      <4> QED BY <4>1 DEF Tenths
    <3> QED BY <3>1, <3>2, <3>3, NonZeroNumbers
  <2> HIDE DEF request
  <2> QED BY <2>1, <2>2 DEF Accepts
<1> QED BY <1>1, <1>2

-----------------------------------------------------------------------------
(* The processor: its type and its flags, which are sent together.         *)

\* The spelling of a type is a text; a type the table does not have is lost.
LEMMA CanonicalTypes ==
    /\ \A t : Canonical(t, major) \in Strings
    /\ Canonical("", major) = ""
<1>1. Listed(major) \subseteq Strings /\ "" \in Strings
  BY QemuCpuAssumption DEF Listed
<1>2. "" \notin DOMAIN Spelling
  BY QemuCpuAssumption
<1>3. "" \notin Listed(major)
  BY DEF Listed, BaseTypes, V8Types
<1>4. \A t : Canonical(t, major) \in {""} \cup Listed(major)
  BY DEF Canonical
<1>5. Canonical("", major) = ""
  BY <1>2, <1>3 DEF Canonical
<1> QED BY <1>1, <1>4, <1>5

\* What the guest had of the processor, which is what the call read.
CpuHad == IF exists THEN before ELSE now

\* The processor a call started from: the one it read, or none.
LEMMA CpuHas == ASSUME IInv, part = "cpu", pc \in {"refused", "ok", "rejected", "panic"},
                       exists \/ pc # "refused"
    PROVE  /\ CpuHad \in CpuParams \/ CpuHad = NoCpu
           /\ seen = Nil => ~exists /\ CpuHad = NoCpu
           /\ seen # Nil => CpuHad \in CpuParams /\ seen = CpuToSdk(CpuHad)
<1>1. CASE exists
  <2>1. before \in CpuParams /\ seen = CpuToSdk(before)
    BY <1>1, CpuState
  <2>2. seen # Nil
    BY <2>1, CpuRead
  <2> QED BY <2>1, <2>2, <1>1 DEF CpuHad
<1>2. CASE ~exists
  BY <1>2, CpuState DEF CpuHad
<1> QED BY <1>1, <1>2

\* The type and the flags that it had.
HadType == IF CpuHad.cpu = Nil THEN Nil ELSE CpuHad.cpu.type
HadFlags == IF CpuHad.cpu = Nil THEN NoFlags ELSE CpuHad.cpu.flags

\* Its type and its flags are those that were read.
LEMMA CpuHadValues == ASSUME IInv, part = "cpu", pc \in {"refused", "ok", "rejected", "panic"},
                             exists \/ pc # "refused"
    PROVE  /\ HadType \in {Nil} \cup Strings
           /\ HadFlags \in [Flags -> {Nil, -1, 1}]
           /\ HadType = IF seen = Nil THEN Nil ELSE seen.type
           /\ HadFlags = IF seen = Nil THEN NoFlags ELSE Or(seen.flags, NoFlags)
<1>1. CpuHad.cpu \in {Nil} \cup CpuValues
  BY CpuHas, CpuFields
<1>2. HadType \in {Nil} \cup Strings
  BY <1>1, CpuValueFields DEF HadType
<1>3. NoFlags \in [Flags -> {Nil, -1, 1}]
  BY DEF NoFlags
<1>4. HadFlags \in [Flags -> {Nil, -1, 1}]
  BY <1>1, <1>3, CpuValueFields DEF HadFlags
<1>5. CASE seen = Nil
  <2>1. CpuHad.cpu = Nil
    BY <1>5, CpuHas DEF NoCpu
  <2> QED BY <2>1, <1>2, <1>4, <1>5 DEF HadType, HadFlags
<1>6. CASE seen # Nil
  <2>1. CpuHad \in CpuParams /\ seen = CpuToSdk(CpuHad)
    BY <1>6, CpuHas
  <2>2. /\ seen.type = IF CpuHad.cpu = Nil THEN Nil ELSE CpuHad.cpu.type
        /\ seen.flags = IF CpuHad.cpu = Nil THEN Nil
                        ELSE IF CpuHad.cpu.flags = NoFlags THEN Nil ELSE CpuHad.cpu.flags
    BY <2>1, CpuRead
  <2>3. HadType = seen.type
    BY <2>2 DEF HadType
  <2>4. Or(seen.flags, NoFlags) = HadFlags
    <3>1. CpuHad.cpu # Nil => CpuHad.cpu.flags # Nil
      <4>1. CpuHad.cpu # Nil => CpuHad.cpu.flags \in [Flags -> {Nil, -1, 1}]
        BY <1>1, CpuValueFields
      <4> QED BY <4>1, NilAssumption
    <3> QED BY <2>2, <3>1 DEF Or, HadFlags
  <2> QED BY <2>3, <2>4, <1>2, <1>4, <1>6
<1> QED BY <1>5, <1>6

\* The flags of the parameter, and its type.
CpuFlags == [f \in Flags |-> IF want.flags # Nil /\ want.flags[f] # Nil
                             THEN NonZero(want.flags[f]) ELSE HadFlags[f]]
CpuType == IF want.type # Nil THEN Canonical(want.type, major)
           ELSE IF HadType = Nil THEN "" ELSE Canonical(HadType, major)

\* Type and flags are sent together, each as asked for or as it was read; nothing is
\* sent if neither is asked for or nothing is left of them.
LEMMA CpuParamSent == ASSUME IInv, part = "cpu", pc \in {"ok", "rejected"}, NEW p,
                             p = CpuParam(want, seen, major)
    PROVE  /\ CpuType \in Strings /\ CpuFlags \in [Flags -> {Nil, -1, 1}]
           /\ \/ p = Nil /\ want.flags = Nil /\ want.type = Nil
              \/ p = Nil /\ CpuType = "" /\ \A f \in Flags : CpuFlags[f] = Nil /\
                    (want.flags # Nil /\ want.flags[f] # Nil => seen = Nil)
              \/ p = [type |-> CpuType, flags |-> CpuFlags] /\ p # Nil
<1>1. /\ HadType \in {Nil} \cup Strings
      /\ HadFlags \in [Flags -> {Nil, -1, 1}]
      /\ HadType = IF seen = Nil THEN Nil ELSE seen.type
      /\ HadFlags = IF seen = Nil THEN NoFlags ELSE Or(seen.flags, NoFlags)
  BY CpuHadValues
<1>2. want.flags \in {Nil} \cup [Flags -> {Nil} \cup Int] /\ want.type \in {Nil} \cup Strings
  BY CpuState, WantedCpu
<1>3. want.flags # Nil => \A f \in Flags : want.flags[f] \in {-1, 0, 1, Nil}
  BY CpuState DEF CpuValid, TriBools
<1>4. CpuType \in Strings
  BY CanonicalTypes, QemuCpuAssumption DEF CpuType
<1>z. \A n \in {-1, 0, 1, Nil} : NonZero(n) = (IF n = 0 THEN Nil ELSE n) /\ NonZero(n) \in {Nil, -1, 1}
  BY NilAssumption DEF NonZero
<1>5. CpuFlags \in [Flags -> {Nil, -1, 1}]
  BY <1>1, <1>3, <1>z DEF CpuFlags
<1> DEFINE all == [f \in Flags |-> Or(Or(want.flags, NoFlags)[f], HadFlags[f])]
           isSet == \E f \in Flags : all[f] # Nil
           sent == [f \in Flags |-> IF all[f] = 0 THEN Nil ELSE all[f]]
           flagsSet == isSet /\ (seen = Nil => sent # NoFlags)
           asked == Or(want.type, HadType)
           type == IF asked = Nil THEN "" ELSE Canonical(asked, major)
<1>6. p = IF (want.flags = Nil /\ want.type = Nil) \/ (~flagsSet /\ type = "") THEN Nil
          ELSE [type |-> type, flags |-> IF flagsSet THEN sent ELSE NoFlags]
  BY <1>1 DEF CpuParam, FlagsToApi
<1>7. type = CpuType
  BY DEF Or, CpuType
<1>8. \A f \in Flags : all[f] = IF want.flags # Nil /\ want.flags[f] # Nil THEN want.flags[f] ELSE HadFlags[f]
  BY DEF Or, NoFlags
<1> HIDE DEF all, type
<1>9. sent = CpuFlags
  <2>1. \A f \in Flags : sent[f] = CpuFlags[f]
    BY <1>1, <1>3, <1>8, <1>z, NilAssumption DEF CpuFlags
  <2> QED BY <2>1 DEF CpuFlags
<1>10. ASSUME ~flagsSet PROVE /\ sent = NoFlags
                              /\ \A f \in Flags : want.flags # Nil /\ want.flags[f] # Nil => seen = Nil
  <2>1. CASE isSet
    BY <2>1, <1>10, <1>8
  <2>2. CASE ~isSet
    <3>1. \A f \in Flags : all[f] = Nil
      BY <2>2
    <3>2. \A f \in Flags : sent[f] = Nil
      BY <3>1, NilAssumption
    <3>3. sent = NoFlags
      BY <3>2 DEF NoFlags
    <3> QED BY <3>1, <3>3, <1>8
  <2> QED BY <2>1, <2>2
<1>11. \A f \in Flags : NoFlags[f] = Nil
  BY DEF NoFlags
<1>12. [type |-> CpuType, flags |-> CpuFlags] # Nil
  <2>1. [type |-> CpuType, flags |-> CpuFlags] \in CpuValues
    BY <1>4, <1>5 DEF CpuValues
  <2> QED BY <2>1, NilAssumption
<1> HIDE DEF sent, flagsSet
<1>13. CASE want.flags = Nil /\ want.type = Nil
  BY <1>13, <1>4, <1>5, <1>6
<1>14. CASE ~(want.flags = Nil /\ want.type = Nil) /\ ~flagsSet /\ type = ""
  BY <1>14, <1>4, <1>5, <1>6, <1>7, <1>9, <1>10, <1>11
<1>15. CASE ~(want.flags = Nil /\ want.type = Nil) /\ ~(~flagsSet /\ type = "")
  <2>1. p = [type |-> CpuType, flags |-> CpuFlags]
    BY <1>15, <1>6, <1>7, <1>9, <1>10
  <2> QED BY <2>1, <1>4, <1>5, <1>12
<1> QED BY <1>13, <1>14, <1>15

\* The type is as asked for, or as it was read.
LEMMA CpuTypeExact == ASSUME IInv, part = "cpu", pc = "ok" PROVE Settled(<<"type">>)
<1> DEFINE l == <<"type">>
           p == CpuParam(want, seen, major)
<1>1. /\ \A ps : Value(ps, l) = NonEmpty(IF ps.cpu = Nil THEN Nil ELSE ps.cpu.type)
      /\ Shared(l)
      /\ IsAsked(l) <=> want.type # Nil
      /\ Wanted(l) = NonEmpty(Canonical(want.type, major))
      /\ Lost(l) <=> \/ want.type = ""
                     \/ want.type = Nil /\ want.flags # Nil /\ Had(l) # Nil
                        /\ Canonical(Had(l), major) # Had(l)
  BY DEF Value, Shared, IsAsked, Wanted, Lost, Field
<1>2. Had(l) = NonEmpty(HadType) /\ HadType \in {Nil} \cup Strings
  BY <1>1, CpuHadValues DEF Had, HadType, CpuHad
<1> HIDE DEF l
<1>3. params.cpu = Or(p, now.cpu)
  BY CpuState, CpuSent
<1>4. /\ CpuType \in Strings
      /\ \/ p = Nil /\ want.flags = Nil /\ want.type = Nil
         \/ p = Nil /\ CpuType = ""
         \/ p = [type |-> CpuType, flags |-> CpuFlags] /\ p # Nil
  BY CpuParamSent
<1>5. want.type \in {Nil} \cup Strings /\ (want.type # Nil => TypeValid(want.type, major))
  BY CpuState, WantedCpu DEF CpuValid
<1>6. SUFFICES ASSUME ~Lost(l)
               PROVE  IF IsAsked(l) THEN Value(params, l) = Wanted(l)
                      ELSE Value(params, l) = Value(now, l) \/ Value(params, l) = Had(l)
  BY <1>1 DEF Settled, l
<1>7. CASE want.type # Nil
  <2>1. want.type # "" /\ Canonical(want.type, major) # ""
    BY <1>1, <1>5, <1>6, <1>7 DEF TypeValid
  <2>2. CpuType = Canonical(want.type, major)
    BY <1>7 DEF CpuType
  <2>3. params.cpu # Nil /\ params.cpu.type = CpuType
    <3>1. CpuType # ""
      BY <2>1, <2>2
    <3>2. p # Nil /\ p = [type |-> CpuType, flags |-> CpuFlags]
      BY <3>1, <1>4, <1>7
    <3>3. params.cpu = p
      BY <3>2, <1>3 DEF Or
    <3> HIDE DEF p
    <3> QED BY <3>2, <3>3
  <2> QED BY <2>2, <2>3, <1>1, <1>7
<1>8. CASE want.type = Nil
  <2>1. CASE p = Nil
    <3>1. params.cpu = now.cpu
      BY <2>1, <1>3 DEF Or
    <3> QED BY <3>1, <1>1, <1>8
  <2>2. CASE p # Nil
    <3>1. params.cpu # Nil /\ params.cpu.type = CpuType
      <4>1. p = [type |-> CpuType, flags |-> CpuFlags]
        BY <2>2, <1>4
      <4>2. params.cpu = p
        BY <2>2, <1>3 DEF Or
      <4> HIDE DEF p
      <4> QED BY <2>2, <4>1, <4>2
    <3>2. Value(params, l) = NonEmpty(CpuType)
      BY <3>1, <1>1
    <3>3. want.flags # Nil
      BY <2>2, <1>8 DEF CpuParam
    <3>4. CASE HadType \in {Nil, ""}
      <4>1. CpuType = ""
        BY <3>4, <1>8, CanonicalTypes DEF CpuType
      <4>2. Had(l) = Nil
        BY <3>4, <1>2, NonEmptyTexts
      <4> QED BY <4>1, <4>2, <3>2, <1>1, <1>8, NonEmptyTexts
    <3>5. CASE HadType \notin {Nil, ""}
      <4>1. HadType \in Texts
        BY <3>5, <1>2 DEF Texts
      <4>2. Had(l) = HadType /\ Had(l) # Nil
        BY <4>1, <1>2, <3>5, NonEmptyTexts
      <4>3. Canonical(HadType, major) = HadType
        BY <4>2, <3>3, <1>1, <1>6, <1>8
      <4>4. CpuType = HadType
        BY <4>3, <3>5, <1>8 DEF CpuType
      <4>5. Value(params, l) = Had(l)
        BY <4>4, <3>2, <1>2
      <4> QED BY <4>5, <1>1, <1>8
    <3> QED BY <3>4, <3>5
  <2> QED BY <2>1, <2>2
<1> QED BY <1>7, <1>8

\* Each flag is as asked for, or as it was read.
LEMMA CpuFlagsExact ==
    ASSUME IInv, part = "cpu", pc = "ok", NEW f \in Flags
    PROVE  Settled(<<"flag", f>>)
<1> DEFINE l == <<"flag", f>>
           p == CpuParam(want, seen, major)
<1>0. Len(l) = 2 /\ l[2] = f /\ l # <<"ciupgrade">> /\ l # <<"type">>
  OBVIOUS
<1>1. /\ \A ps : Value(ps, l) = IF ps.cpu = Nil THEN Nil ELSE ps.cpu.flags[f]
      /\ Shared(l) /\ ~Lost(l)
      /\ IsAsked(l) <=> want.flags # Nil /\ want.flags[f] # Nil
      /\ Wanted(l) = NonZero(want.flags[f])
  BY <1>0 DEF Value, Shared, IsAsked, Wanted, Lost
<1>2. Had(l) = HadFlags[f]
  <2>1. NoFlags[f] = Nil
    BY DEF NoFlags
  <2> QED BY <2>1, <1>1 DEF Had, HadFlags, CpuHad
<1> HIDE DEF l
<1>3. params.cpu = Or(p, now.cpu)
  BY CpuState, CpuSent
<1>4. \/ p = Nil /\ want.flags = Nil /\ want.type = Nil
      \/ p = Nil /\ CpuFlags[f] = Nil /\ (want.flags # Nil /\ want.flags[f] # Nil => seen = Nil)
      \/ p = [type |-> CpuType, flags |-> CpuFlags] /\ p # Nil
  BY CpuParamSent
<1>5. CpuFlags[f] = IF IsAsked(l) THEN Wanted(l) ELSE Had(l)
  BY <1>1, <1>2 DEF CpuFlags
<1>6. CASE p # Nil
  <2>1. Value(params, l) = CpuFlags[f]
    BY <1>1, <1>3, <1>4, <1>6 DEF Or
  <2> QED BY <2>1, <1>1, <1>5 DEF Settled, l
<1>7. CASE p = Nil
  <2>1. Value(params, l) = Value(now, l)
    BY <1>1, <1>3, <1>7 DEF Or
  <2>2. CASE ~IsAsked(l)
    BY <2>1, <2>2 DEF Settled, l
  <2>3. CASE IsAsked(l)
    <3>1. CpuFlags[f] = Nil /\ seen = Nil
      BY <1>1, <1>4, <1>7, <2>3
    <3>2. Had(l) = Nil
      <4>1. HadFlags = NoFlags
        BY <3>1, CpuHadValues
      <4> QED BY <4>1, <1>2 DEF NoFlags
    <3> QED BY <3>1, <3>2, <2>1, <2>3, <1>5 DEF Settled, l
  <2> QED BY <2>2, <2>3
<1> QED BY <1>6, <1>7

\* The affinity is as asked for, or left alone.
LEMMA CpuAffinityExact == ASSUME IInv, part = "cpu", pc = "ok" PROVE Settled(<<"affinity">>)
<1> DEFINE l == <<"affinity">>
<1>1. /\ \A ps : Value(ps, l) = IF ps.affinity \in {Nil, {}} THEN Nil ELSE AffinityToSdk(ps.affinity)
      /\ ~Lost(l)
      /\ IsAsked(l) <=> want.affinity # Nil
      /\ Wanted(l) = IF want.affinity = {} THEN Nil ELSE want.affinity
  BY DEF Value, IsAsked, Wanted, Lost, Field
<1> HIDE DEF l
<1>2. want.affinity \in {Nil} \cup SUBSET (0..MaxUint)
  BY CpuState, WantedCpu
<1>3. params.affinity = Or(IF want.affinity = Nil
                              \/ (want.affinity = {} /\ ~(seen # Nil /\ seen.affinity # Nil))
                           THEN Nil ELSE Ranges(want.affinity), now.affinity)
  BY CpuState, CpuSent
<1>4. CASE want.affinity = Nil
  <2>1. params.affinity = now.affinity
    BY <1>3, <1>4 DEF Or
  <2>2. Value(params, l) = Value(now, l)
    BY <2>1, <1>1
  <2> QED BY <2>2, <1>1, <1>4 DEF Settled, l
<1>5. ASSUME want.affinity # Nil, want.affinity # {} \/ (seen # Nil /\ seen.affinity # Nil)
      PROVE  Settled(l)
  <2> DEFINE S == want.affinity
  <2>1. S \in SUBSET (0..MaxUint)
    BY <1>2, <1>5
  <2>2. params.affinity = Or(Ranges(S), now.affinity)
    BY <1>3, <1>5
  <2> HIDE DEF S
  <2>3. Ranges(S) \in SUBSET ((0..MaxUint) \X (0..MaxUint)) /\ AffinityToSdk(Ranges(S)) = S
    BY <2>1, AffinityBack
  <2>4. Ranges(S) # Nil
    BY <2>3, NilAssumption
  <2>5. params.affinity = Ranges(S)
    BY <2>2, <2>4 DEF Or
  <2>6. Ranges(S) = {} <=> S = {}
    BY <2>3 DEF Ranges, AffinityToSdk
  <2>7. Value(params, l) = IF S = {} THEN Nil ELSE S
    BY <2>3, <2>4, <2>5, <2>6, <1>1
  <2> QED BY <2>7, <1>1, <1>5 DEF Settled, S, l
<1>6. CASE want.affinity = {} /\ ~(seen # Nil /\ seen.affinity # Nil)
  <2>1. params.affinity = now.affinity
    BY <1>3, <1>6 DEF Or
  <2>2. Value(params, l) = Value(now, l)
    BY <2>1, <1>1
  <2>3. CpuHad.affinity = Nil
    <3>1. CASE seen = Nil
      BY <3>1, CpuHas DEF NoCpu
    <3>2. CASE seen # Nil
      <4>1. CpuHad \in CpuParams /\ seen = CpuToSdk(CpuHad)
        BY <3>2, CpuHas
      <4>2. seen.affinity = IF CpuHad.affinity = Nil THEN Nil ELSE AffinityToSdk(CpuHad.affinity)
        BY <4>1, CpuRead
      <4>3. CpuHad.affinity # Nil => AffinityToSdk(CpuHad.affinity) # Nil
        BY <4>1, CpuFields, AffinityRead
      <4> QED BY <4>2, <4>3, <3>2, <1>6
    <3> QED BY <3>1, <3>2
  <2>4. Had(l) = Nil
    BY <2>3, <1>1 DEF Had, CpuHad
  <2>5. Wanted(l) = Nil
    BY <1>1, <1>6
  <2> QED BY <2>2, <2>4, <2>5, <1>1, <1>6, <1>4 DEF Settled, l
<1> QED BY <1>4, <1>5, <1>6 DEF l

\* Cores, sockets and NUMA are as asked for, or left alone.
LEMMA CpuPlainExact == ASSUME IInv, part = "cpu", pc = "ok", NEW p \in {"cores", "numa", "sockets"}
                       PROVE  Settled(<<p>>)
<1>1. \A ps : Value(ps, <<p>>) = ps[p]
  BY DEF Value
<1>2. IsAsked(<<p>>) <=> want[p] # Nil
  BY DEF IsAsked, Field
<1>3. Wanted(<<p>>) = want[p]
  <2>1. Len(<<p>>) = 1 /\ <<p>>[1] = p
    OBVIOUS
  <2>2. CASE p = "cores"
    BY <2>2, <2>1 DEF Wanted, Field
  <2>3. CASE p = "numa"
    BY <2>3, <2>1 DEF Wanted, Field
  <2>4. CASE p = "sockets"
    BY <2>4, <2>1 DEF Wanted, Field
  <2> QED BY <2>2, <2>3, <2>4
<1>4. params[p] = Or(want[p], now[p])
  BY CpuState, CpuSent
<1> QED BY <1>1, <1>2, <1>3, <1>4 DEF Settled, Or

\* Limit, units and virtual cores are as asked for, or left alone.
LEMMA CpuNumbersExact ==
    ASSUME IInv, part = "cpu", pc = "ok"
    PROVE  Settled(<<"cpulimit">>) /\ Settled(<<"cpuunits">>) /\ Settled(<<"vcpus">>)
<1>1. \A p \in {"cpulimit", "cpuunits", "vcpus"} : \A ps : Value(ps, <<p>>) = ps[p]
  BY DEF Value
<1>2. /\ IsAsked(<<"cpulimit">>) <=> want.limit # Nil
      /\ IsAsked(<<"cpuunits">>) <=> want.units # Nil
      /\ IsAsked(<<"vcpus">>) <=> want.vcores # Nil
  BY DEF IsAsked, Field
<1>3. /\ Wanted(<<"cpulimit">>) = NonZero(Tenths(want.limit))
      /\ Wanted(<<"cpuunits">>) = NonZero(want.units)
      /\ Wanted(<<"vcpus">>) = NonZero(want.vcores)
  BY DEF Wanted, Field
<1>4. /\ params.cpulimit = NumberPut(Tenths(want.limit), seen # Nil /\ seen.limit # Nil, now.cpulimit)
      /\ params.cpuunits = NumberPut(want.units, seen # Nil, now.cpuunits)
      /\ params.vcpus = NumberPut(want.vcores, seen # Nil /\ seen.vcores # Nil, now.vcpus)
  BY CpuState, CpuSent
<1>5. /\ want.limit \in {Nil} \cup Nat /\ want.units \in {Nil} \cup Nat
      /\ want.vcores \in {Nil} \cup Nat
  BY CpuState, WantedCpu
<1>6. /\ ~(seen # Nil /\ seen.limit # Nil) => CpuHad.cpulimit = Nil
      /\ ~(seen # Nil) => CpuHad.cpuunits = Nil
      /\ ~(seen # Nil /\ seen.vcores # Nil) => CpuHad.vcpus = Nil
  <2>1. CASE seen = Nil
    BY <2>1, CpuHas DEF NoCpu
  <2>2. CASE seen # Nil
    <3>1. CpuHad \in CpuParams /\ seen = CpuToSdk(CpuHad)
      BY <2>2, CpuHas
    <3>2. /\ seen.limit = LimitToSdk(CpuHad.cpulimit)
          /\ seen.vcores = Narrow(CpuHad.vcpus, Uint16)
      BY <3>1, CpuRead
    <3>3. seen.limit = Nil => CpuHad.cpulimit = Nil
      BY <3>1, <3>2, CpuFields, LimitRead
    <3>4. seen.vcores = Nil => CpuHad.vcpus = Nil
      BY <3>1, <3>2, CpuFields, Narrowed
    <3> QED BY <2>2, <3>3, <3>4
  <2> QED BY <2>1, <2>2
<1>7. \A p \in {"cpulimit", "cpuunits", "vcpus"} : Had(<<p>>) = CpuHad[p]
  BY <1>1 DEF Had, CpuHad
<1>8. ASSUME NEW w \in {Nil} \cup Nat, NEW drop \in BOOLEAN, NEW old, NEW had, ~drop => had = Nil
      PROVE  /\ w = Nil => NumberPut(w, drop, old) = old
             /\ w # Nil => \/ NumberPut(w, drop, old) = NonZero(w)
                           \/ had = NonZero(w) /\ NumberPut(w, drop, old) = old
  BY <1>8, NumbersPut
<1>c. Settled(<<"cpulimit">>)
  <2> DEFINE drop == seen # Nil /\ seen.limit # Nil
  <2>1. drop \in BOOLEAN /\ (~drop => CpuHad.cpulimit = Nil)
    BY <1>6
  <2> DEFINE tenths == Tenths(want.limit)
  <2>2. params.cpulimit = NumberPut(tenths, drop, now.cpulimit)
    BY <1>4
  <2>4. tenths \in {Nil} \cup Nat /\ (tenths = Nil <=> want.limit = Nil)
    BY <1>5, TenthsPut
  <2> HIDE DEF drop, tenths
  <2>5. /\ tenths = Nil => params.cpulimit = now.cpulimit
        /\ tenths # Nil => \/ params.cpulimit = NonZero(tenths)
                           \/ CpuHad.cpulimit = NonZero(tenths) /\ params.cpulimit = now.cpulimit
    BY <2>1, <2>2, <2>4, NumbersPut
  <2>3. /\ want.limit = Nil => params.cpulimit = now.cpulimit
        /\ want.limit # Nil => \/ params.cpulimit = NonZero(Tenths(want.limit))
                               \/ CpuHad.cpulimit = NonZero(Tenths(want.limit)) /\ params.cpulimit = now.cpulimit
    BY <2>4, <2>5 DEF tenths
  <2> QED BY <2>3, <1>1, <1>2, <1>3, <1>7 DEF Settled
<1>u. Settled(<<"cpuunits">>)
  <2> DEFINE drop == seen # Nil
  <2>1. drop \in BOOLEAN /\ (~drop => CpuHad.cpuunits = Nil)
    BY <1>6
  <2>2. params.cpuunits = NumberPut(want.units, drop, now.cpuunits)
    BY <1>4
  <2> HIDE DEF drop
  <2>3. /\ want.units = Nil => params.cpuunits = now.cpuunits
        /\ want.units # Nil => \/ params.cpuunits = NonZero(want.units)
                               \/ CpuHad.cpuunits = NonZero(want.units) /\ params.cpuunits = now.cpuunits
    BY <2>1, <2>2, <1>5, NumbersPut
  <2> QED BY <2>3, <1>1, <1>2, <1>3, <1>7 DEF Settled
<1>v. Settled(<<"vcpus">>)
  <2> DEFINE drop == seen # Nil /\ seen.vcores # Nil
  <2>1. drop \in BOOLEAN /\ (~drop => CpuHad.vcpus = Nil)
    BY <1>6
  <2>2. params.vcpus = NumberPut(want.vcores, drop, now.vcpus)
    BY <1>4
  <2> HIDE DEF drop
  <2>3. /\ want.vcores = Nil => params.vcpus = now.vcpus
        /\ want.vcores # Nil => \/ params.vcpus = NonZero(want.vcores)
                                \/ CpuHad.vcpus = NonZero(want.vcores) /\ params.vcpus = now.vcpus
    BY <2>1, <2>2, <1>5, NumbersPut
  <2> QED BY <2>3, <1>1, <1>2, <1>3, <1>7 DEF Settled
<1> QED BY <1>c, <1>u, <1>v

\* The settings of a processor.
LEMMA CpuLeaves == ASSUME IInv, pc = "ok", part = "cpu"
    PROVE Leaves = {<<p>> : p \in {"affinity", "cores", "cpulimit", "numa", "sockets",
                                   "cpuunits", "vcpus", "type"}} \cup ({"flag"} \X Flags)
<1>1. DOMAIN params = {"affinity", "cores", "cpulimit", "numa", "sockets", "cpu", "cpuunits", "vcpus"}
  BY CpuState, CpuSent
<1>2. Leaves = {<<p>> : p \in (DOMAIN params \ {"cpu"}) \cup {"type"}} \cup ({"flag"} \X Flags)
  BY DEF Leaves
<1>3. (DOMAIN params \ {"cpu"}) \cup {"type"} =
         {"affinity", "cores", "cpulimit", "numa", "sockets", "cpuunits", "vcpus", "type"}
  BY <1>1
<1> QED BY <1>2, <1>3

\* The processor is as asked for, and nothing else changes.
LEMMA CpuExact == ASSUME IInv, pc = "ok", part = "cpu" PROVE \A l \in Leaves : Settled(l)
<1>1. ASSUME NEW p \in {"affinity", "cores", "cpulimit", "numa", "sockets", "cpuunits", "vcpus", "type"}
      PROVE  Settled(<<p>>)
  BY CpuPlainExact, CpuNumbersExact, CpuAffinityExact, CpuTypeExact
<1>2. ASSUME NEW l \in {"flag"} \X Flags PROVE Settled(l)
  <2>1. PICK f \in Flags : l = <<"flag", f>>
    OBVIOUS
  <2> QED BY <2>1, CpuFlagsExact
<1> QED BY <1>1, <1>2, CpuLeaves

-----------------------------------------------------------------------------
(* The processor, sent back as it was read.                                *)

\* A processor that is sent back is what was read of the guest.
LEMMA CpuSentBack ==
    ASSUME IInv, part = "cpu", want = held, others = 0, pc \in {"ok", "refused"}, held # Nil
    PROVE  /\ exists /\ before \in CpuParams /\ want = CpuToSdk(before) /\ want \in CpuObjects
           /\ seen = want /\ want # Nil
           /\ pc = "ok" => now = before
<1>1. exists /\ before \in CpuParams /\ want = CpuToSdk(before) /\ seen = want
  BY DEF IInv, TypeOK, Known, Fresh, Alone, Has, Guests, ToSdk
<1>2. pc = "ok" => now = before
  BY <1>1 DEF IInv, Alone
<1> QED BY <1>1, <1>2, CpuRead

\* Validate refuses it only for what it says of types, cores and sockets.
LEMMA CpuRefused ==
    ASSUME IInv, part = "cpu", want = held, others = 0, pc = "refused", held # Nil
    PROVE  Unrepeatable
<1>1. before \in CpuParams /\ want = CpuToSdk(before) /\ seen = want /\ want # Nil
  BY CpuSentBack
<1>2. ~CpuValid(want, want, major)
  BY <1>1, CpuState
<1>3. /\ want.limit \in {Nil} \cup 0..MaxLimit
      /\ want.units \in {Nil} \cup 0..MaxUnits
  BY <1>1, CpuRead, CpuFields, LimitRead
<1>4. want.flags # Nil => \A f \in Flags : want.flags[f] \in TriBools \cup {Nil}
  <2>1. want.flags = IF before.cpu = Nil THEN Nil
                     ELSE IF before.cpu.flags = NoFlags THEN Nil ELSE before.cpu.flags
    BY <1>1, CpuRead
  <2>2. before.cpu # Nil => before.cpu.flags \in [Flags -> {Nil, -1, 1}]
    BY <1>1, CpuFields, CpuValueFields
  <2> QED BY <2>1, <2>2 DEF TriBools
<1>5. /\ want.limit # Nil => want.limit <= MaxLimit
      /\ want.units # Nil => want.units <= MaxUnits
  <2>1. want.limit # Nil => want.limit \in 0..MaxLimit
    BY <1>3
  <2>2. want.units # Nil => want.units \in 0..MaxUnits
    BY <1>3
  <2>3. /\ \A k \in 0..MaxLimit : k <= MaxLimit
        /\ \A k \in 0..MaxUnits : k <= MaxUnits
    <3>1. MaxLimit \in Nat /\ MaxUnits \in Nat
      BY QemuCpuAssumption
    <3> QED BY <3>1
  <2> QED BY <2>1, <2>2, <2>3
<1>7. CASE want.cores # Nil /\ want.cores \notin 1..MaxCores
  BY <1>7 DEF Unrepeatable
<1>8. CASE want.sockets # Nil /\ want.sockets \notin 1..MaxSockets
  BY <1>8 DEF Unrepeatable
<1>9. CASE \/ want.type # Nil /\ ~TypeValid(want.type, major)
           \/ want.vcores # Nil /\ ~VcoresValid(want, want)
  BY <1>9 DEF Unrepeatable
<1> QED BY <1>1, <1>2, <1>4, <1>5, <1>7, <1>8, <1>9 DEF CpuValid

\* Its type is spelled as in the table afterwards.
LEMMA CpuTypeBack ==
    ASSUME IInv, part = "cpu", want = held, others = 0, pc = "ok", held # Nil
    PROVE  Value(params, <<"type">>) = SentBack(<<"type">>)
<1> DEFINE l == <<"type">>
           p == CpuParam(want, seen, major)
<1>1. exists /\ before \in CpuParams /\ want = CpuToSdk(before) /\ seen = want /\ want # Nil /\ now = before
  BY CpuSentBack
<1>2. /\ \A ps : Value(ps, l) = NonEmpty(IF ps.cpu = Nil THEN Nil ELSE ps.cpu.type)
      /\ IsAsked(l) <=> want.type # Nil
      /\ Wanted(l) = NonEmpty(Canonical(want.type, major))
      /\ Lost(l) <=> \/ want.type = ""
                     \/ want.type = Nil /\ want.flags # Nil /\ Had(l) # Nil
                        /\ Canonical(Had(l), major) # Had(l)
  BY DEF Value, IsAsked, Wanted, Lost, Field
<1>3. SentBack(l) = IF Value(before, l) # Nil THEN Canonical(Value(before, l), major) ELSE Nil
  BY DEF SentBack
<1> HIDE DEF l
<1>4. HadType = want.type /\ HadType \in {Nil} \cup Strings
  BY <1>1, CpuHadValues
<1>5. Value(before, l) = NonEmpty(HadType)
  BY <1>1, <1>2 DEF HadType, CpuHad
<1>6. params.cpu = Or(p, before.cpu)
  BY <1>1, CpuState, CpuSent
<1>7. p # Nil => p = [type |-> CpuType, flags |-> CpuFlags]
  BY CpuParamSent
<1>8. CASE HadType \in {Nil, ""}
  <2>1. Value(before, l) = Nil
    BY <1>5, <1>8, NonEmptyTexts, NilValues
  <2>2. CpuType = ""
    <3>1. CASE HadType = Nil
      BY <3>1, <1>4 DEF CpuType
    <3>2. CASE HadType # Nil
      <4>1. CpuType = Canonical(HadType, major)
        BY <3>2, <1>4 DEF CpuType
      <4>2. HadType = ""
        BY <3>2, <1>8
      <4> QED BY <4>1, <4>2, CanonicalTypes
    <3> QED BY <3>1, <3>2
  <2>3. CASE p = Nil
    <3>1. params.cpu = before.cpu
      BY <2>3, <1>6 DEF Or
    <3>2. Value(params, l) = Value(before, l)
      BY <3>1, <1>2
    <3> QED BY <3>2, <2>1, <1>3 DEF l
  <2>4. CASE p # Nil
    <3>1. params.cpu # Nil /\ params.cpu.type = CpuType
      <4>1. p = [type |-> CpuType, flags |-> CpuFlags]
        BY <2>4, <1>7
      <4>2. params.cpu = p
        BY <2>4, <1>6 DEF Or
      <4> HIDE DEF p
      <4> QED BY <2>4, <4>1, <4>2
    <3>2. Value(params, l) = NonEmpty("")
      BY <3>1, <2>2, <1>2
    <3> QED BY <3>2, <2>1, <1>3, NonEmptyTexts DEF l
  <2> QED BY <2>3, <2>4
<1>9. CASE HadType \notin {Nil, ""}
  <2>1. HadType \in Texts
    BY <1>4, <1>9 DEF Texts
  <2>2. Value(before, l) = HadType /\ HadType # Nil
    BY <2>1, <1>5, <1>9, NonEmptyTexts
  <2>3. Canonical(HadType, major) # ""
    BY <1>1, <1>4, <1>9, CpuState DEF CpuValid, TypeValid
  <2>4. NonEmpty(Canonical(HadType, major)) = Canonical(HadType, major)
    BY <2>3, CanonicalTypes, NonEmptyTexts DEF Texts
  <2>5. Settled(l)
    BY CpuTypeExact DEF l
  <2>6. \/ Value(params, l) = Wanted(l)
        \/ Had(l) = Wanted(l) /\ Value(params, l) = Value(now, l)
    BY <2>5, <1>2, <1>4, <1>9 DEF Settled
  <2>7. Had(l) = Value(now, l)
    BY <1>1 DEF Had
  <2>8. Value(params, l) = Canonical(HadType, major)
    BY <2>4, <2>6, <2>7, <1>2, <1>4
  <2> QED BY <2>2, <2>8, <1>3 DEF l
<1> QED BY <1>8, <1>9

\* Each setting is as it was, up to numbers that are 0 and the spelling of the type.
LEMMA CpuLeavesBack ==
    ASSUME IInv, part = "cpu", want = held, others = 0, pc = "ok", held # Nil
    PROVE  \A l \in Leaves : Value(params, l) = SentBack(l)
<1>1. exists /\ before \in CpuParams /\ want = CpuToSdk(before) /\ seen = want /\ want # Nil /\ now = before
  BY CpuSentBack
<1>2. \A l : Had(l) = Value(before, l)
  BY <1>1 DEF Had
<1>3. ASSUME NEW l, Settled(l), ~Lost(l)
      PROVE  \/ Value(params, l) = Value(before, l) /\ (IsAsked(l) => Value(before, l) = Wanted(l))
             \/ IsAsked(l) /\ Value(params, l) = Wanted(l)
             \/ ~IsAsked(l) /\ Value(params, l) = Value(before, l)
  BY <1>1, <1>2, <1>3 DEF Settled
<1>4. ASSUME NEW p \in {"cores", "numa", "sockets"} PROVE Value(params, <<p>>) = SentBack(<<p>>)
  <2>1. \A ps : Value(ps, <<p>>) = ps[p]
    BY DEF Value
  <2>2. params[p] = Or(want[p], before[p])
    BY CpuState, CpuSent, <1>1
  <2>3. CASE p = "numa"
    <3>1. want.numa = before.numa
      BY <1>1, CpuRead
    <3>2. SentBack(<<"numa">>) = Value(before, <<"numa">>)
      BY DEF SentBack
    <3> QED BY <2>1, <2>2, <2>3, <3>1, <3>2 DEF Or
  <2>4. CASE p \in {"cores", "sockets"}
    <3>1. want[p] = Narrow(before[p], Uint8)
      BY <2>4, <1>1, CpuRead
    <3>2. want[p] = Nil => before[p] = Nil
      BY <2>4, <3>1, <1>1, CpuFields, Narrowed
    <3>3. SentBack(<<p>>) = Narrow(Value(before, <<p>>), Uint8)
      BY <2>4 DEF SentBack
    <3> QED BY <2>1, <2>2, <3>1, <3>2, <3>3 DEF Or
  <2> QED BY <2>3, <2>4
<1>5. ASSUME NEW p \in {"cpulimit", "cpuunits", "vcpus"}
      PROVE  Value(params, <<p>>) = SentBack(<<p>>)
  <2>1. \A ps : Value(ps, <<p>>) = ps[p]
    BY DEF Value
  <2>2. /\ p = "cpulimit" => SentBack(<<p>>) = NonZero(Tenths(LimitToSdk(before.cpulimit)))
        /\ p = "cpuunits" => SentBack(<<p>>) = NonZero(before.cpuunits)
        /\ p = "vcpus" => SentBack(<<p>>) = NonZero(Narrow(before.vcpus, Uint16))
    BY <2>1 DEF SentBack
  <2>3. ASSUME NEW w \in {Nil} \cup Nat, NEW drop \in BOOLEAN, NEW old,
               w # Nil => drop, w = Nil => old = Nil
        PROVE  NumberPut(w, drop, old) = NonZero(w)
    <3>1. CASE w = Nil
      <4>1. Nil # 0
        BY NilAssumption
      <4>2. NonZero(Nil) = Nil
        BY <4>1 DEF NonZero
      <4> QED BY <2>3, <3>1, <4>2, NumbersPut
    <3>2. CASE w # Nil
      BY <2>3, <3>2, NumbersPut
    <3> QED BY <3>1, <3>2
  <2>4. /\ before.cpulimit \in {Nil} \cup 0..(10 * MaxLimit)
        /\ before.cpuunits \in {Nil} \cup 0..MaxUnits
        /\ before.vcpus \in {Nil} \cup Nat
    BY <1>1, CpuFields
  <2>5. /\ want.limit = LimitToSdk(before.cpulimit) /\ want.units = before.cpuunits
        /\ want.vcores = Narrow(before.vcpus, Uint16)
    BY <1>1, CpuRead
  <2>o. want \in CpuObjects
    BY CpuSentBack
  <2>6. CASE p = "cpulimit"
    <3> DEFINE drop == seen # Nil /\ seen.limit # Nil
               tenths == Tenths(want.limit)
    <3>1. params.cpulimit = NumberPut(tenths, drop, before.cpulimit)
      BY <1>1, CpuState, CpuSent
    <3>2. /\ tenths \in {Nil} \cup Nat /\ drop \in BOOLEAN
          /\ tenths = Nil <=> want.limit = Nil
      BY <2>o, WantedCpu, TenthsPut
    <3>3. tenths # Nil => drop
      BY <1>1, <3>2
    <3>4. tenths = Nil => before.cpulimit = Nil
      BY <3>2, <2>4, <2>5, LimitRead
    <3>5. tenths = Tenths(LimitToSdk(before.cpulimit))
      BY <2>5
    <3> HIDE DEF drop, tenths
    <3>6. params.cpulimit = NonZero(tenths)
      BY <3>1, <3>2, <3>3, <3>4, <2>3
    <3> QED BY <3>5, <3>6, <2>1, <2>2, <2>6
  <2>7. CASE p = "cpuunits"
    <3> DEFINE drop == seen # Nil
    <3>1. params.cpuunits = NumberPut(before.cpuunits, drop, before.cpuunits)
      BY <1>1, <2>5, CpuState, CpuSent
    <3>2. before.cpuunits \in {Nil} \cup Nat
      BY <2>5, <2>o, WantedCpu
    <3>3. drop \in BOOLEAN /\ drop
      BY <1>1
    <3> HIDE DEF drop
    <3>4. params.cpuunits = NonZero(before.cpuunits)
      BY <3>1, <3>2, <3>3, <2>3
    <3> QED BY <3>4, <2>1, <2>2, <2>7
  <2>8. CASE p = "vcpus"
    <3> DEFINE drop == seen # Nil /\ seen.vcores # Nil
    <3>1. params.vcpus = NumberPut(want.vcores, drop, before.vcpus)
      BY <1>1, CpuState, CpuSent
    <3>2. want.vcores \in {Nil} \cup Nat /\ drop \in BOOLEAN /\ (want.vcores # Nil => drop)
      BY <1>1, <2>o, WantedCpu
    <3>3. want.vcores = Nil => before.vcpus = Nil
      BY <2>4, <2>5, Narrowed
    <3> HIDE DEF drop
    <3>4. params.vcpus = NonZero(want.vcores)
      BY <3>1, <3>2, <3>3, <2>3
    <3> QED BY <3>4, <2>1, <2>2, <2>5, <2>8
  <2> QED BY <2>6, <2>7, <2>8
<1>6. Value(params, <<"affinity">>) = SentBack(<<"affinity">>)
  <2> DEFINE l == <<"affinity">>
  <2>1. /\ \A ps : Value(ps, l) = IF ps.affinity \in {Nil, {}} THEN Nil ELSE AffinityToSdk(ps.affinity)
        /\ ~Lost(l)
        /\ IsAsked(l) <=> want.affinity # Nil
        /\ Wanted(l) = IF want.affinity = {} THEN Nil ELSE want.affinity
    BY DEF Value, IsAsked, Wanted, Lost, Field
  <2>2. SentBack(l) = Value(before, l)
    BY DEF SentBack
  <2>3. want.affinity = IF before.affinity = Nil THEN Nil ELSE AffinityToSdk(before.affinity)
    BY <1>1, CpuRead
  <2>4. before.affinity # Nil => /\ AffinityToSdk(before.affinity) # Nil
                                 /\ AffinityToSdk(before.affinity) = {} <=> before.affinity = {}
    BY <1>1, CpuFields, AffinityRead
  <2>5. want.affinity # Nil => Wanted(l) = Value(before, l)
    BY <2>1, <2>3, <2>4
  <2>6. Settled(l)
    BY CpuAffinityExact
  <2> HIDE DEF l
  <2>7. Value(params, l) = Value(before, l)
    BY <2>1, <2>5, <2>6, <1>3
  <2> QED BY <2>2, <2>7 DEF l
<1>7. ASSUME NEW f \in Flags PROVE Value(params, <<"flag", f>>) = SentBack(<<"flag", f>>)
  <2> DEFINE l == <<"flag", f>>
  <2>0. Len(l) = 2 /\ l[2] = f /\ l # <<"ciupgrade">> /\ l # <<"type">>
        /\ l # <<"cpulimit">> /\ l # <<"cpuunits">> /\ l # <<"vcpus">>
        /\ l # <<"cores">> /\ l # <<"sockets">>
    OBVIOUS
  <2>1. /\ \A ps : Value(ps, l) = IF ps.cpu = Nil THEN Nil ELSE ps.cpu.flags[f]
        /\ ~Lost(l)
        /\ IsAsked(l) <=> want.flags # Nil /\ want.flags[f] # Nil
        /\ Wanted(l) = NonZero(want.flags[f])
        /\ SentBack(l) = Value(before, l)
    BY <2>0 DEF Value, IsAsked, Wanted, Lost, SentBack
  <2>2. want.flags = IF before.cpu = Nil THEN Nil
                     ELSE IF before.cpu.flags = NoFlags THEN Nil ELSE before.cpu.flags
    BY <1>1, CpuRead
  <2>3. before.cpu # Nil => before.cpu.flags[f] \in {Nil, -1, 1}
    <3>1. before.cpu # Nil => before.cpu.flags \in [Flags -> {Nil, -1, 1}]
      BY <1>1, CpuFields, CpuValueFields
    <3> QED BY <3>1
  <2>4. \A n \in {Nil, -1, 1} : NonZero(n) = n
    BY NilAssumption DEF NonZero
  <2> HIDE DEF l
  <2>5. IsAsked(l) => Wanted(l) = Value(before, l)
    BY <2>1, <2>2, <2>3, <2>4
  <2>6. Settled(l)
    BY CpuFlagsExact DEF l
  <2>7. Value(params, l) = Value(before, l)
    BY <2>1, <2>5, <2>6, <1>3
  <2> QED BY <2>1, <2>7 DEF l
<1>8. ASSUME NEW p \in {"affinity", "cores", "cpulimit", "numa", "sockets", "cpuunits", "vcpus", "type"}
      PROVE  Value(params, <<p>>) = SentBack(<<p>>)
  BY <1>4, <1>5, <1>6, CpuTypeBack
<1>9. ASSUME NEW l \in {"flag"} \X Flags PROVE Value(params, l) = SentBack(l)
  <2>1. PICK f \in Flags : l = <<"flag", f>>
    OBVIOUS
  <2> QED BY <2>1, <1>7
<1> QED BY <1>8, <1>9, CpuLeaves

\* A processor can be sent back as it was read.
LEMMA CpuResend ==
    ASSUME IInv, part = "cpu", want = held, others = 0, pc \in {"ok", "refused"}, held # Nil
    PROVE  \/ pc = "ok" /\ \A l \in Leaves : Value(params, l) = SentBack(l)
           \/ pc = "refused" /\ Unrepeatable
  BY CpuRefused, CpuLeavesBack

-----------------------------------------------------------------------------
(* The invariant.                                                          *)

\* mapToStruct makes an object of whatever a guest may have.
LEMMA Reads == ASSUME part \in Parts, exists, NEW g, Has(g)
               PROVE  ToSdk(g) \in {Nil} \cup Objects(part)
<1>1. g \in Guests(part, major)
  BY DEF Has
<1>2. part \in AllParts
  BY QemuSettingsAssumption
<1>3. CASE part = "memory"
  BY <1>1, <1>3, MemoryReads DEF Guests, Objects
<1>4. CASE part = "cpu"
  BY <1>1, <1>4, CpuReads DEF Guests, Objects
<1>5. CASE part = "cloudinit"
  BY <1>1, <1>5, CloudReads DEF Guests, Objects
<1>6. CASE part = "agent"
  BY <1>1, <1>6, AgentReads DEF Guests, Objects
<1>7. CASE part = "serials"
  BY <1>1, <1>7, SerialsReads DEF Guests, PortsStored
<1>8. CASE part = "tags"
  BY <1>1, <1>8, TagsReads DEF Guests, Objects
<1>9. CASE part = "net"
  BY <1>1, <1>9, NetReads DEF Guests, Objects
<1>10. CASE part = "usb"
  BY <1>1, <1>10, UsbReads DEF Guests, Objects
<1>11. CASE part = "hostpci"
  BY <1>1, <1>11, PciReads DEF Guests, Objects
<1>12. CASE part = "options"
  BY <1>1, <1>12, OptionsReads DEF Guests, Objects
<1>13. CASE part = "vga"
  BY <1>1, <1>13, VgaReads DEF Guests, Objects
<1>14. CASE part = "rng"
  BY <1>1, <1>14, RngReads DEF Guests, Objects
<1>15. CASE part = "efi"
  BY <1>1, <1>15, EfiReads DEF Guests, Objects
<1> QED BY <1>2, <1>3, <1>4, <1>5, <1>6, <1>7, <1>8, <1>9, <1>10, <1>11, <1>12, <1>13, <1>14,
       <1>15
        DEF AllParts

\* No call has begun.
LEMMA InitInv == Init => IInv
<1>1. ASSUME Init PROVE IInv
  <2>1. params \in Stored(part, exists, major) /\ part \in Parts /\ major \in Majors /\ exists \in BOOLEAN
    BY <1>1 DEF Init
  <2>2. Has(params)
    <3>1. CASE exists
      BY <3>1, <2>1, QemuSettingsAssumption DEF Has
    <3>2. CASE ~exists
      <4>1. exists = FALSE
        BY <3>2, <2>1
      <4> QED BY <3>2, <4>1, <2>1, QemuSettingsAssumption DEF Has
    <3> QED BY <3>1, <3>2
  <2> QED BY <1>1, <2>2 DEF Init, IInv, TypeOK, Fresh, Known, Answered, Alone
<1> QED BY <1>1

\* Every step keeps the invariant: Check decides what is sent, Put what the server
\* makes of it.
LEMMA NextInv == IInv /\ [Next]_vars => IInv'
<1> SUFFICES ASSUME IInv, [Next]_vars PROVE IInv'
  OBVIOUS
<1> USE DEF IInv, TypeOK
<1>0. UNCHANGED <<part, major, exists>>
  BY DEF Next, vars, Load, Call, Read, Check, Put, Other
<1>f. \A g, w, c, r : /\ Has(g)' <=> Has(g)
                      /\ ToSdk(g)' = ToSdk(g)
                      /\ ToApi(w, c)' = ToApi(w, c)
                      /\ Valid(w, c)' <=> Valid(w, c)
                      /\ Panics(w, c)' <=> Panics(w, c)
                      /\ Accepts(r, g)' <=> Accepts(r, g)
  BY <1>0, Frame
<1>n. Nil \notin Objects(part)
  BY NilObjects
<1>a. Foreign(part, major) \subseteq Guests(part, major) /\ Asked(part, major) \subseteq Objects(part)
  BY QemuSettingsAssumption
<1>1. CASE Load
  BY <1>1, <1>0, <1>f, <1>n, Reads DEF Load, Fresh, Known, Answered, Alone
<1>2. CASE Call
  <2>1. want' \in Objects(part) /\ pc = "idle"
    BY <1>2, <1>a DEF Call
  <2>2. pc' = IF exists THEN "read" ELSE "check"
    BY <1>2 DEF Call
  <2>3. UNCHANGED <<params, held, seen, before, now, others>>
    BY <1>2 DEF Call
  <2> QED BY <2>1, <2>2, <2>3, <1>0, <1>f, <1>n DEF Fresh, Known, Answered, Alone
<1>3. CASE Read
  BY <1>3, <1>0, <1>f, <1>n, Reads DEF Read, Fresh, Known, Answered, Alone
<1>4. CASE Check
  BY <1>4, <1>0, <1>f, <1>n DEF Check, call, Fresh, Known, Answered, Alone
<1>5. CASE Put
  BY <1>5, <1>0, <1>f, <1>n DEF Put, Fresh, Known, Answered, Alone
<1>6. CASE Other
  <2>1. exists /\ pc \in {"idle", "check", "put"} /\ others' = others + 1
    BY <1>6 DEF Other
  <2>2. Has(params')
    BY <1>6, <2>1, <1>a DEF Other, Has
  <2>3. UNCHANGED <<pc, held, want, seen, before, now>>
    BY <1>6 DEF Other, call
  <2> QED BY <2>1, <2>2, <2>3, <1>0, <1>f, <1>n DEF Fresh, Known, Answered, Alone
<1>7. CASE UNCHANGED vars
  BY <1>7, <1>0, <1>f DEF vars, call, Fresh, Known, Answered, Alone
<1> QED BY <1>1, <1>2, <1>3, <1>4, <1>5, <1>6, <1>7 DEF Next

\* The guest has what mapToStruct can read, a call knows what it read and what it
\* made of it, and what was read stays true while nobody else changes the guest.
THEOREM Invariant == Spec => []IInv
<1>1. Init => IInv
  BY InitInv
<1>2. IInv /\ [Next]_vars => IInv'
  BY NextInv
<1> QED BY <1>1, <1>2, PTL DEF Spec

-----------------------------------------------------------------------------
(* The properties.                                                         *)

\* ConfigQemu.Create and ConfigQemu.Update: after a call that succeeds each
\* setting is as it was asked for, and no other changed.
THEOREM Exact == Spec => []OkIsExact
<1>1. IInv => OkIsExact
  <2> SUFFICES ASSUME IInv, pc = "ok" PROVE \A l \in Leaves : Settled(l)
    BY DEF OkIsExact
  <2>1. part \in AllParts
    BY QemuSettingsAssumption DEF IInv, TypeOK
  <2> QED BY <2>1, MemoryExact, CpuExact, CloudExact, AgentExact, SerialsExact, TagsExact,
         NetExact,
             UsbExact, PciExact, OptionsExact, WordExact, EfiExact DEF AllParts
<1> QED BY <1>1, Invariant, PTL

\* What the server or mapToAPI does not take, part by part.
LEMMA AcceptedUnlessUnsendable ==
    ASSUME IInv, pc \in {"rejected", "panic"} PROVE (exists /\ now # before) \/ Unsendable
<1>1. part \in AllParts
  BY QemuSettingsAssumption DEF IInv, TypeOK
<1> QED BY <1>1, MemoryAccepted, CpuAccepted, CloudAccepted, AgentAccepted, SerialsAccepted,
           TagsAccepted, NetAccepted, UsbAccepted, PciAccepted, OptionsAccepted, WordAccepted,
           EfiAccepted DEF AllParts

\* ConfigQemu.Validate: what it accepts the server accepts too, unless somebody
\* changed the guest in between, apart from a list of things it does not look at.
THEOREM Accepted == Spec => []ValidIsAccepted
<1>1. IInv => ValidIsAccepted
  BY AcceptedUnlessUnsendable DEF ValidIsAccepted
<1> QED BY <1>1, Invariant, PTL

\* Sending back what NewConfigQemuFromApi read leaves the guest as it is, apart
\* from a list of settings that are written in another way, numbers of a processor
\* that do not fit their fields, and what Validate or the server refuses.
THEOREM Harmless == Spec => []ResendIsHarmless
<1>1. IInv => ResendIsHarmless
  <2> SUFFICES ASSUME IInv, want # Nil, want = held, others = 0,
                      pc \in {"ok", "refused", "rejected", "panic"}
               PROVE  \/ pc = "ok" /\ params = before
                      \/ /\ pc = "ok" /\ part = "memory"
                         /\ params = [before EXCEPT !.shares = IF want.minimum = 0 THEN Nil ELSE NonZero(@)]
                      \/ /\ pc = "ok" /\ part = "cpu"
                         /\ \A l \in Leaves : Value(params, l) = SentBack(l)
                      \/ /\ pc = "ok" /\ part = "options"
                         /\ \A p \in DOMAIN params : params[p] = before[p] \/
                                (before[p] = Nil /\ params[p] = OptionDefaults[p])
                      \/ /\ pc = "ok" /\ part = "vga" /\ before.vga.bare
                         /\ params.vga = [type |-> Nil, memory |-> before.vga.memory, bare |-> FALSE]
                      \/ pc = "refused" /\ Unrepeatable
                      \/ pc \in {"rejected", "panic"} /\ Unsendable
    BY DEF ResendIsHarmless
  <2>1. part \in AllParts
    BY QemuSettingsAssumption DEF IInv, TypeOK
  <2>2. CASE pc \in {"rejected", "panic"}
    <3>1. exists => now = before
      BY <2>2 DEF IInv, Alone
    <3> QED BY <2>2, <3>1, AcceptedUnlessUnsendable
  <2>3. CASE pc \in {"ok", "refused"}
    <3>1. CASE part = "memory"
      BY <2>3, <3>1, MemoryResend
    <3>2. CASE part = "cpu"
      BY <2>3, <3>2, CpuResend
    <3>3. CASE part = "options"
      BY <2>3, <3>3, OptionsResend
    <3>4. CASE part = "vga"
      BY <2>3, <3>4, VgaResend
    <3>5. CASE part \in {"cloudinit", "agent", "serials", "tags", "net", "usb", "hostpci", "rng", "efi"}
      BY <2>3, <3>5, CloudResend, AgentResend, SerialsResend, TagsResend, NetResend, UsbResend,
         PciResend, RngResend, EfiResend
    <3> QED BY <2>1, <3>1, <3>2, <3>3, <3>4, <3>5 DEF AllParts
  <2> QED BY <2>2, <2>3
<1> QED BY <1>1, Invariant, PTL
=============================================================================
