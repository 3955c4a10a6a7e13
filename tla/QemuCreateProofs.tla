-------------------------- MODULE QemuCreateProofs --------------------------
(***************************************************************************)
(* Proofs about QemuCreate, for any number of clients, ids, volumes, disks *)
(* and lost calls.  Two clients may hold the same id, so the argument is   *)
(* about the guest: it belongs to the client whose POST the server took,   *)
(* and as long as the task that makes it has not failed no other client    *)
(* gets past its own POST with that id.  What is missing of a guest is     *)
(* known from the place its creator is at.                                 *)
(***************************************************************************)
EXTENDS QemuCreate, TLAPS

\* The steps after the guest has been made.
Finishing == {"grow", "pool", "permission", "activate", "ha"}

Alive == {"running", "OK", "WARNINGS"}

\* The guest a client has made, and the task that made it.
Owns(c) ==
    /\ pc[c] \in {"nextid", "disks", "post"} => exit[c] = "none"
    /\ pc[c] \in {"disks", "post"} \/ exit[c] # "none" => id[c] \in Ids
    /\ exit[c] \in Alive => owner[id[c]] = c
    /\ \A i \in Ids : owner[i] = c => i = id[c] /\ exit[c] \in Alive
    /\ pc[c] = "wait" => exit[c] # "none"
    /\ pc[c] \in Finishing \cup {"ok"} => exit[c] \in {"OK", "WARNINGS"}
    /\ pc[c] \in Finishing => c \notin direct

\* What a client asks for, and what its guest has of it.
Furnished(c) ==
    /\ Resource \in want[c] <=> Ha \in want[c]
    /\ Group \in want[c] => Ha \notin want[c]
    /\ c \in direct => want[c] = {}
    /\ pc[c] = "grow" => todo[c] \subseteq want[c] /\ want[c] \cap Grows \subseteq has[id[c]] \cup todo[c]
    /\ pc[c] \in Finishing \ {"grow"} => want[c] \cap Grows \subseteq has[id[c]]
    /\ pc[c] \in {"permission", "activate", "ha"} /\ Pool \in want[c] => Pool \in has[id[c]]
    /\ pc[c] = "ha" => Ha \in want[c] /\ (faults = 0 => Resource \in has[id[c]])
    /\ pc[c] = "ok" => want[c] \subseteq has[id[c]]

\* The volumes of a client that has to make them first.
Stored(c) ==
    /\ c \notin direct => created[c] = {} /\ (pc[c] \in {"nextid", "disks"} => todo[c] = {})
    /\ c \in direct =>
          /\ pc[c] = "nextid" => todo[c] = Volumes
          /\ pc[c] = "disks" => todo[c] \subseteq Volumes
          /\ pc[c] = "disks" => \A v \in Volumes \ todo[c] : <<id[c], v>> \in volumes
          /\ pc[c] \in {"post", "wait", "ok"} => \A v \in Volumes : <<id[c], v>> \in volumes

\* Without a lost call an error comes before the guest, after its task failed, or
\* from a group without a state, when all else is done.
Excused(c) ==
    pc[c] = "error" /\ faults = 0 /\ c \notin direct =>
        \/ exit[c] \in {"none", "failed"}
        \/ /\ exit[c] \in {"OK", "WARNINGS"}
           /\ Group \in want[c] /\ want[c] \ {Group} \subseteq has[id[c]]

Mine(c) == Owns(c) /\ Furnished(c) /\ Stored(c) /\ Excused(c)

IInv == TypeOK /\ (\A c \in Clients : Mine(c)) /\ NeverAnothersGuest

-----------------------------------------------------------------------------

\* A call that sets a part of the guest, or is lost or refused, does no more.
LEMMA PartSet ==
  ASSUME TypeOK, NEW c \in Clients, id[c] \in Ids, NEW part \in Parts,
         SetPart(c, part) \/ UNCHANGED server
  PROVE  /\ owner' = owner /\ volumes' = volumes /\ exit' = exit
         /\ has' \in [Ids -> SUBSET Parts]
         /\ \A i \in Ids \ {id[c]} : has'[i] = has[i]
         /\ has[id[c]] \subseteq has'[id[c]] /\ has'[id[c]] \subseteq has[id[c]] \cup {part}
         /\ SetPart(c, part) => part \in has'[id[c]]
BY DEF TypeOK, SetPart, server

\* A call that sets a part has done so, or was lost, and has touched nothing else.
PartDone(c, part, next, onError) ==
    /\ owner' = owner /\ volumes' = volumes /\ exit' = exit
    /\ has' \in [Ids -> SUBSET Parts]
    /\ \A i \in Ids \ {id[c]} : has'[i] = has[i]
    /\ has[id[c]] \subseteq has'[id[c]] /\ has'[id[c]] \subseteq has[id[c]] \cup {part}
    /\ faults' \in 0..MaxFaults /\ (faults' = 0 => faults = 0)
    /\ \/ pc' = [pc EXCEPT ![c] = next] /\ part \in has'[id[c]]
       \/ pc' = [pc EXCEPT ![c] = onError] /\ faults' # 0
       \/ pc' = [pc EXCEPT ![c] = "error"] /\ faults' # 0

\* The calls after the guest has been made find it there and made by the client
\* itself, and never fail but by being lost.
LEMMA PartRequest ==
  ASSUME IInv, NEW c \in Clients, pc[c] \in Finishing, NEW part \in Parts, NEW next, NEW onError,
         \/ SetPart(c, part) /\ Goto(c, next) /\ UNCHANGED faults
         \/ id[c] \in Free
         \/ /\ CanFail /\ faults' = faults + 1 /\ (Goto(c, onError) \/ Goto(c, "error"))
            /\ UNCHANGED server \/ SetPart(c, part)
  PROVE  PartDone(c, part, next, onError)
<1>1. id[c] \in Ids /\ owner[id[c]] = c
  BY DEF IInv, Mine, Owns, Alive, Finishing
<1>2. id[c] \notin Free
  BY <1>1, QemuCreateAssumption DEF Free
<1>3. SetPart(c, part) \/ UNCHANGED server
  BY <1>2
<1>4. faults' \in 0..MaxFaults /\ (faults' = 0 => faults = 0)
  BY <1>2, QemuCreateAssumption DEF CanFail, IInv, TypeOK
<1>5. \/ pc' = [pc EXCEPT ![c] = next] /\ SetPart(c, part)
      \/ pc' = [pc EXCEPT ![c] = onError] /\ faults' # 0
      \/ pc' = [pc EXCEPT ![c] = "error"] /\ faults' # 0
  BY <1>2, QemuCreateAssumption DEF Goto, CanFail, IInv, TypeOK
<1>6. QED BY <1>1, <1>3, <1>4, <1>5, PartSet DEF IInv, PartDone

\* A guest that is to be no resource is none, and so cannot be removed from HA.
LEMMA RemoveRefused ==
  ASSUME IInv, NEW c \in Clients, RemoveHa(c)
  PROVE  UNCHANGED server /\ pc' = [pc EXCEPT ![c] = "error"]
<1>1. pc[c] = "activate" /\ Group \in want[c]
  BY DEF RemoveHa
<1>2. id[c] \in Ids /\ owner[id[c]] = c /\ Resource \notin want[c]
  BY <1>1 DEF IInv, Mine, Owns, Furnished, Alive, Finishing
<1>3. Resource \notin has[id[c]]
  BY <1>2 DEF IInv, NeverAnothersGuest
<1>4. QED BY <1>3 DEF RemoveHa, Request, Goto

-----------------------------------------------------------------------------
\* Every variable keeps its type.
LEMMA TypeStep == IInv /\ [Next]_vars => TypeOK'
<1> SUFFICES ASSUME IInv, [Next]_vars PROVE TypeOK'
  OBVIOUS
<1> USE QemuCreateAssumption DEF IInv, Mine, TypeOK, Goto, CanFail, Steps, Returned
<1>1. ASSUME NEW c \in Clients, NextId(c) PROVE TypeOK'
  <2>1. UNCHANGED <<server, direct, want, todo, created>>
    BY <1>1 DEF NextId
  <2>2. id' \in [Clients -> 0..MaxId]
    BY <1>1 DEF NextId, Free, Ids
  <2>3. current' \in [Clients -> 0..(MaxId + 1)]
    BY <1>1 DEF NextId
  <2>4. pc' \in [Clients -> Steps \cup Returned] /\ faults' \in 0..MaxFaults
    BY <1>1 DEF NextId
  <2>5. QED BY <2>1, <2>2, <2>3, <2>4 DEF server
<1>2. ASSUME NEW c \in Clients, CreateDisks(c) PROVE TypeOK'
  <2>1. UNCHANGED <<owner, has, exit, direct, want, id, current>>
    BY <1>2 DEF CreateDisks, Request, server
  <2>2. id[c] \in Ids
    BY <1>2 DEF CreateDisks, Owns
  <2>9. todo[c] \subseteq Volumes
    BY <1>2 DEF CreateDisks, Stored
  <2>3. volumes' \subseteq Ids \X Volumes
    <3>1. volumes' = volumes \/ \E v \in todo[c] : volumes' = volumes \cup {<<id[c], v>>}
      BY <1>2 DEF CreateDisks, Request, server
    <3>2. QED BY <2>2, <2>9, <3>1
  <2>4. pc' = [pc EXCEPT ![c] = pc'[c]] /\ pc'[c] \in {"disks", "post", "error"}
    BY <1>2 DEF CreateDisks, Request
  <2>5. todo' \in [Clients -> SUBSET (Volumes \cup Grows)]
    <3>1. todo' = todo \/ \E v \in todo[c] : todo' = [todo EXCEPT ![c] = @ \ {v}]
      BY <1>2 DEF CreateDisks
    <3>2. QED BY <3>1
  <2>6. created' \in [Clients -> SUBSET Volumes]
    <3>1. created' = created
             \/ \E v \in todo[c] : created' = [created EXCEPT ![c] = @ \cup {v}]
      BY <1>2 DEF CreateDisks
    <3>2. QED BY <2>9, <3>1
  <2>7. faults' \in 0..MaxFaults
    <3>1. faults' = faults \/ (CanFail /\ faults' = faults + 1)
      BY <1>2 DEF CreateDisks, Request
    <3>2. QED BY <3>1
  <2>8. QED BY ZenonT(60), <2>1, <2>3, <2>4, <2>5, <2>6, <2>7

<1>3. ASSUME NEW c \in Clients, Post(c) PROVE TypeOK'
  <2>1. id[c] \in Ids
    BY <1>3 DEF Post, Owns
  <2>2. UNCHANGED <<has, volumes, direct, want, id, current, todo, created>>
    BY <1>3 DEF Post, Request, server
  <2>3. owner' \in {owner, [owner EXCEPT ![id[c]] = c]}
    BY <1>3 DEF Post, Request, server
  <2>4. exit' \in {exit, [exit EXCEPT ![c] = "running"]}
    BY <1>3 DEF Post, Request, server
  <2>5. pc' = [pc EXCEPT ![c] = pc'[c]] /\ pc'[c] \in {"wait", "error"}
    BY <1>3 DEF Post, Request
  <2>6. faults' \in 0..MaxFaults
    BY <1>3 DEF Post, Request
  <2>7. QED BY <2>1, <2>2, <2>3, <2>4, <2>5, <2>6
<1>4. ASSUME NEW c \in Clients, Wait(c) PROVE TypeOK'
  <2>1. UNCHANGED <<server, direct, want, id, current, created>>
    BY <1>4 DEF Wait
  <2>2. todo' \in [Clients -> SUBSET (Volumes \cup Grows)]
    BY <1>4 DEF Wait
  <2>3. pc' = [pc EXCEPT ![c] = pc'[c]] /\ pc'[c] \in {"ok", "grow", "error"}
    BY <1>4 DEF Wait
  <2>4. faults' \in 0..MaxFaults
    BY <1>4 DEF Wait
  <2>5. QED BY <2>1, <2>2, <2>3, <2>4 DEF server
<1>5. ASSUME NEW c \in Clients, Grow(c) PROVE TypeOK'
  <2>1. UNCHANGED <<direct, want, id, current, created>>
        /\ todo' \in [Clients -> SUBSET (Volumes \cup Grows)]
    BY <1>5 DEF Grow
  <2>2. CASE todo[c] = {}
    BY <1>5, <2>1, <2>2 DEF Grow, server
  <2>3. ASSUME NEW g \in todo[c], Request(c, id[c] \notin Free, SetPart(c, g), "grow", "error")
        PROVE  TypeOK'
    <3>1. g \in Parts /\ pc[c] = "grow"
      BY <1>5 DEF Grow, Furnished
    <3>2. PartDone(c, g, "grow", "error")
      BY <2>3, <3>1, PartRequest DEF Finishing, Request
    <3>3. QED BY <2>1, <3>2 DEF PartDone
  <2>4. QED BY <1>5, <2>2, <2>3 DEF Grow
<1>6. ASSUME NEW c \in Clients, AddToPool(c) PROVE TypeOK'
  <2>1. CASE Pool \in want[c]
    <3>1. PartDone(c, Pool, "permission", "error")
      BY <1>6, <2>1, PartRequest DEF AddToPool, Finishing, Parts, Request
    <3>2. QED BY <1>6, <3>1 DEF AddToPool, PartDone
  <2>2. CASE Pool \notin want[c]
    BY <1>6, <2>2 DEF AddToPool, server
  <2>3. QED BY <2>1, <2>2
<1>7. ASSUME NEW c \in Clients, InsertCachedPermission(c) PROVE TypeOK'
  BY <1>7 DEF InsertCachedPermission, Request, server
<1>8. ASSUME NEW c \in Clients, ActivateHa(c) PROVE TypeOK'
  <2>1. CASE Ha \in want[c]
    <3>1. PartDone(c, Resource, "ha", "ha")
      BY <1>8, <2>1, PartRequest DEF ActivateHa, Finishing, Parts, Request
    <3>2. QED BY <1>8, <3>1 DEF ActivateHa, PartDone
  <2>2. CASE Ha \notin want[c]
    BY <1>8, <2>2 DEF ActivateHa, server
  <2>3. QED BY <2>1, <2>2
<1>9. ASSUME NEW c \in Clients, SetHa(c) PROVE TypeOK'
  <2>1. id[c] \in Ids
    BY <1>9 DEF SetHa, Owns, Finishing
  <2>2. SetPart(c, Ha) \/ UNCHANGED server
    BY <1>9 DEF SetHa, Request
  <2>3. pc' = [pc EXCEPT ![c] = pc'[c]] /\ pc'[c] \in {"ok", "error"} /\ faults' \in 0..MaxFaults
    BY <1>9 DEF SetHa, Request
  <2>4. UNCHANGED <<direct, want, id, current, todo, created>>
    BY <1>9 DEF SetHa
  <2>5. QED BY <2>1, <2>2, <2>3, <2>4, PartSet DEF Parts
<1>10. ASSUME NEW c \in Clients, TaskEnds(c) PROVE TypeOK'
  <2>1. id[c] \in Ids
    BY <1>10 DEF TaskEnds, Owns
  <2>2. QED BY <1>10, <2>1 DEF TaskEnds
<1>11. ASSUME NEW c \in Clients, RemoveHa(c) PROVE TypeOK'
  <2>1. UNCHANGED server /\ pc' = [pc EXCEPT ![c] = "error"]
    BY <1>11, RemoveRefused
  <2>2. faults' \in 0..MaxFaults /\ UNCHANGED <<direct, want, id, current, todo, created>>
    BY <1>11 DEF RemoveHa, Request
  <2>3. QED BY <2>1, <2>2 DEF server
<1>12. CASE UNCHANGED vars
  BY <1>12 DEF vars, server
<1>13. QED
  BY <1>1, <1>2, <1>3, <1>4, <1>5, <1>6, <1>7, <1>8, <1>9, <1>10, <1>11, <1>12 DEF Next, Client

-----------------------------------------------------------------------------
\* Changes that do not concern d: others make or lose guests of their own, a
\* guest of d's gets parts but loses none, volumes are made, calls are lost.
Apart(d) ==
    /\ pc'[d] = pc[d] /\ id'[d] = id[d] /\ todo'[d] = todo[d] /\ created'[d] = created[d]
    /\ want'[d] = want[d] /\ direct' = direct /\ exit'[d] = exit[d]
    /\ \A i \in Ids : owner'[i] = d <=> owner[i] = d
    /\ exit[d] \in Alive => has[id[d]] \subseteq has'[id[d]]
    /\ volumes \subseteq volumes'
    /\ faults' = 0 => faults = 0

\* Nothing the invariant says of a client depends on such changes.
LEMMA ApartKeeps ==
  ASSUME NEW d \in Clients, Mine(d), Apart(d)
  PROVE  Mine(d)'
<1> USE DEF Mine, Apart
<1>1. Owns(d)'
  BY DEF Owns, Alive
<1>2. Furnished(d)'
  BY DEF Furnished, Owns, Finishing, Alive
<1>3. Stored(d)'
  BY DEF Stored
<1>4. Excused(d)'
  BY DEF Excused, Alive
<1>5. QED BY <1>1, <1>2, <1>3, <1>4

\* The steps of c do not concern d.
LEMMA StepApart ==
  ASSUME IInv, NEW c \in Clients, NEW d \in Clients \ {c}, Client(c) \/ TaskEnds(c)
  PROVE  Apart(d)
<1> USE QemuCreateAssumption DEF IInv, Mine, TypeOK, Goto, CanFail
<1>1. UNCHANGED <<want, direct>> /\ pc'[d] = pc[d]
  BY DEF Client, NextId, CreateDisks, Post, Wait, Grow, AddToPool, InsertCachedPermission,
         ActivateHa, RemoveHa, SetHa, TaskEnds, Request
<1>2. id'[d] = id[d] /\ todo'[d] = todo[d] /\ created'[d] = created[d]
  BY DEF Client, NextId, CreateDisks, Post, Wait, Grow, AddToPool, InsertCachedPermission,
         ActivateHa, RemoveHa, SetHa, TaskEnds
<1>3. faults' = 0 => faults = 0
  <2>1. faults' = faults \/ faults' = faults + 1
    BY Zenon DEF Client, NextId, CreateDisks, Post, Wait, Grow, AddToPool,
       InsertCachedPermission, ActivateHa, RemoveHa, SetHa, TaskEnds, Request
  <2>2. QED BY <2>1
<1>4. CASE NextId(c) \/ Wait(c) \/ InsertCachedPermission(c)
  BY <1>1, <1>2, <1>3, <1>4 DEF NextId, Wait, InsertCachedPermission, Request, server, Apart
<1>5. CASE CreateDisks(c)
  <2>1. UNCHANGED <<owner, has, exit>> /\ volumes \subseteq volumes'
    BY <1>5 DEF CreateDisks, Request, server
  <2>2. QED BY <1>1, <1>2, <1>3, <2>1 DEF Apart
<1>6. CASE Post(c)
  <2>1. UNCHANGED <<has, volumes>> /\ exit'[d] = exit[d]
    BY <1>6 DEF Post, Request, server
  <2>2. owner' = owner \/ (owner[id[c]] = NoOne /\ owner' = [owner EXCEPT ![id[c]] = c])
    BY <1>6 DEF Post, Request, server, Free
  <2>3. QED BY <1>1, <1>2, <1>3, <2>1, <2>2 DEF Apart
<1>7. CASE Grow(c) \/ AddToPool(c) \/ ActivateHa(c) \/ SetHa(c)
  <2>1. id[c] \in Ids
    BY <1>7 DEF Grow, AddToPool, ActivateHa, SetHa, Owns, Finishing
  <2>2. UNCHANGED server \/ \E part : SetPart(c, part)
    BY <1>7 DEF Grow, AddToPool, ActivateHa, SetHa, Request
  <2>3. UNCHANGED <<owner, volumes, exit>> /\ \A i \in Ids : has[i] \subseteq has'[i]
    BY <2>1, <2>2 DEF SetPart, server
  <2>4. exit[d] \in Alive => id[d] \in Ids
    BY DEF Owns, Alive
  <2>5. QED BY <1>1, <1>2, <1>3, <2>3, <2>4 DEF Apart
<1>8. CASE RemoveHa(c)
  BY <1>1, <1>2, <1>3, <1>8, RemoveRefused DEF server, Apart
<1>9. CASE TaskEnds(c)
  <2>1. owner[id[c]] = c /\ id[c] \in Ids /\ exit'[d] = exit[d] /\ volumes' = volumes
    BY <1>9 DEF TaskEnds, Owns, Alive
  <2>2. exit[d] \in Alive => id[d] \in Ids \ {id[c]}
    BY <2>1 DEF Owns, Alive
  <2>3. \A i \in Ids : owner'[i] = d <=> owner[i] = d
    BY <1>9, <2>1 DEF TaskEnds
  <2>4. \A i \in Ids \ {id[c]} : has'[i] = has[i]
    BY <1>9, <2>1 DEF TaskEnds
  <2>5. QED BY <1>1, <1>2, <1>3, <2>1, <2>2, <2>3, <2>4 DEF Apart
<1>10. QED BY <1>4, <1>5, <1>6, <1>7, <1>8, <1>9 DEF Client

-----------------------------------------------------------------------------
\* Up to the POST a client has no guest, and an error leaves none behind.
LEMMA BeforeStep ==
  ASSUME IInv, NEW c \in Clients, NextId(c) \/ CreateDisks(c)
  PROVE  Mine(c)' /\ NeverAnothersGuest'
<1> USE QemuCreateAssumption DEF IInv, Mine, TypeOK, Goto, CanFail
<1>1. UNCHANGED <<owner, has, exit, direct, want>> /\ exit[c] = "none" /\ volumes \subseteq volumes'
  BY DEF NextId, CreateDisks, Request, server, Owns
<1>2. NeverAnothersGuest'
  BY <1>1 DEF NeverAnothersGuest
<1>3. \A i \in Ids : owner[i] # c
  BY <1>1 DEF Owns, Alive
<1>4. CASE NextId(c)
  <2>1. UNCHANGED <<volumes, todo, created>> /\ pc[c] = "nextid"
    BY <1>4 DEF NextId, server
  <2>2. \/ pc'[c] = "disks" /\ id'[c] \in Ids
        \/ pc'[c] \in {"nextid", "error"}
    BY <1>4 DEF NextId, Free
  <2>3. pc'[c] = "error" => faults' # 0
    BY <1>4 DEF NextId
  <2>4. Owns(c)'
    BY <1>1, <1>3, <2>1, <2>2 DEF Owns, Alive, Finishing
  <2>5. Furnished(c)'
    BY <1>1, <2>2 DEF Furnished, Finishing
  <2>6. Stored(c)' /\ Excused(c)'
    BY <1>1, <2>1, <2>2, <2>3 DEF Stored, Excused
  <2>7. QED BY <1>2, <2>4, <2>5, <2>6 DEF Mine
<1>5. CASE CreateDisks(c)
  <2>1. pc[c] = "disks" /\ id' = id /\ id[c] \in Ids
    BY <1>5 DEF CreateDisks, Owns
  <2>2. pc'[c] \in {"disks", "post", "error"}
    BY <1>5 DEF CreateDisks, Request
  <2>3. Owns(c)'
    BY <1>1, <1>3, <2>1, <2>2 DEF Owns, Alive, Finishing
  <2>4. Furnished(c)'
    BY <1>1, <2>2 DEF Furnished, Finishing
  <2>5. Stored(c)'
    <3>1. CASE c \notin direct
      BY <1>1, <1>5, <2>1, <3>1 DEF CreateDisks, Stored
    <3>2. CASE c \in direct /\ todo[c] = {}
      BY <1>1, <1>5, <2>1, <2>2, <3>2 DEF CreateDisks, Stored
    <3>3. ASSUME c \in direct, NEW v \in todo[c],
                 todo' = [todo EXCEPT ![c] = @ \ {v}],
                 Request(c, <<id[c], v>> \notin volumes,
                         /\ volumes' = volumes \cup {<<id[c], v>>}
                         /\ UNCHANGED <<owner, has, exit>>,
                         "disks", "error")
          PROVE  Stored(c)'
      <4>1. pc'[c] = "error" \/ (pc'[c] = "disks" /\ <<id[c], v>> \in volumes')
        BY <3>3 DEF Request
      <4>2. QED BY <1>1, <2>1, <3>3, <4>1 DEF Stored
    <3>4. QED BY <1>5, <3>1, <3>2, <3>3 DEF CreateDisks
  <2>6. Excused(c)'
    BY <1>1 DEF Excused
  <2>7. QED BY <1>2, <2>3, <2>4, <2>5, <2>6 DEF Mine
<1>6. QED BY <1>4, <1>5

\* The server takes a POST for a free id only.
LEMMA PostStep ==
  ASSUME IInv, NEW c \in Clients, Post(c)
  PROVE  Mine(c)' /\ NeverAnothersGuest'
<1> USE QemuCreateAssumption DEF IInv, Mine, TypeOK, Goto, CanFail
<1>1. UNCHANGED <<has, volumes, direct, want, id, todo, created>>
  BY DEF Post, Request, server
<1>2. pc[c] = "post" /\ id[c] \in Ids /\ exit[c] = "none" /\ \A i \in Ids : owner[i] # c
  BY DEF Post, Owns, Alive
<1>3. pc'[c] \in {"wait", "error"}
  BY DEF Post, Request
<1>4. \/ owner' = owner /\ exit' = exit /\ pc'[c] = "error"
      \/ /\ owner[id[c]] = NoOne
         /\ owner' = [owner EXCEPT ![id[c]] = c] /\ exit' = [exit EXCEPT ![c] = "running"]
         /\ pc'[c] = "error" => faults' # 0
  BY DEF Post, Request, server, Free
<1>5. Owns(c)'
  BY <1>1, <1>2, <1>3, <1>4 DEF Owns, Alive, Finishing
<1>6. Furnished(c)'
  BY <1>1, <1>3 DEF Furnished, Finishing
<1>7. Stored(c)'
  BY <1>1, <1>2, <1>3 DEF Stored
<1>8. Excused(c)'
  BY <1>2, <1>3, <1>4 DEF Excused
<1>9. NeverAnothersGuest'
  BY <1>1, <1>4 DEF NeverAnothersGuest
<1>10. QED BY <1>5, <1>6, <1>7, <1>8, <1>9 DEF Mine

\* When the task fails its guest is gone; when it ends well its client goes on.
LEMMA TaskStep ==
  ASSUME IInv, NEW c \in Clients, TaskEnds(c) \/ Wait(c)
  PROVE  Mine(c)' /\ NeverAnothersGuest'
<1> USE QemuCreateAssumption DEF IInv, Mine, TypeOK, Goto, CanFail
<1>1. CASE TaskEnds(c)
  <2>1. UNCHANGED <<volumes, direct, want, pc, id, todo, created, faults>> /\ exit[c] = "running"
    BY <1>1 DEF TaskEnds
  <2>2. owner[id[c]] = c /\ id[c] \in Ids /\ \A i \in Ids : owner[i] = c => i = id[c]
    BY <2>1 DEF Owns, Alive
  <2>3. \/ exit'[c] \in {"OK", "WARNINGS"} /\ UNCHANGED <<owner, has>>
        \/ /\ exit'[c] = "failed"
           /\ owner' = [owner EXCEPT ![id[c]] = NoOne] /\ has' = [has EXCEPT ![id[c]] = {}]
    BY <1>1 DEF TaskEnds
  <2>4. pc[c] \notin {"nextid", "disks", "post", "ok"} \cup Finishing
    BY <2>1 DEF Owns
  <2>5. Owns(c)'
    BY <2>1, <2>2, <2>3, <2>4 DEF Owns, Alive
  <2>6. Furnished(c)'
    BY <2>1, <2>4 DEF Furnished, Finishing
  <2>7. Stored(c)'
    BY <2>1 DEF Stored
  <2>8. Excused(c)'
    BY <2>1, <2>3 DEF Excused
  <2>9. NeverAnothersGuest'
    BY <2>1, <2>2, <2>3 DEF NeverAnothersGuest
  <2>10. QED BY <2>5, <2>6, <2>7, <2>8, <2>9 DEF Mine
<1>2. CASE Wait(c)
  <2>1. UNCHANGED <<owner, has, volumes, exit, direct, want, id, created>> /\ pc[c] = "wait"
    BY <1>2 DEF Wait, server
  <2>2. \/ /\ exit[c] \in {"OK", "WARNINGS"}
           /\ pc'[c] = IF c \in direct THEN "ok" ELSE "grow"
           /\ todo'[c] = want[c] \cap Grows
        \/ /\ pc'[c] = "error"
           /\ faults' = 0 /\ c \notin direct => exit[c] = "failed"
    BY <1>2 DEF Wait, DeleteVMDisks, Stored
  <2>3. Owns(c)'
    BY <2>1, <2>2 DEF Owns, Finishing
  <2>4. Furnished(c)'
    BY <2>1, <2>2 DEF Furnished, Finishing
  <2>5. Stored(c)' /\ Excused(c)'
    BY <2>1, <2>2 DEF Stored, Excused
  <2>6. NeverAnothersGuest'
    BY <2>1 DEF NeverAnothersGuest
  <2>7. QED BY <2>3, <2>4, <2>5, <2>6 DEF Mine
<1>3. QED BY <1>1, <1>2

\* A part that the client wants is set of its own guest.
LEMMA FinishStep ==
  ASSUME IInv, NEW c \in Clients, pc[c] \in Finishing,
         UNCHANGED <<owner, volumes, exit, direct, want, id, created>>,
         \A i \in Ids \ {id[c]} : has'[i] = has[i],
         has[id[c]] \subseteq has'[id[c]], has'[id[c]] \subseteq has[id[c]] \cup want[c],
         pc'[c] \in Finishing \cup {"ok", "error"},
         pc'[c] = "error" =>
            faults' # 0 \/ (Group \in want[c] /\ want[c] \ {Group} \subseteq has'[id[c]]),
         Furnished(c)'
  PROVE  Mine(c)' /\ NeverAnothersGuest'
<1> USE QemuCreateAssumption DEF IInv, Mine, TypeOK
<1>1. exit[c] \in {"OK", "WARNINGS"} /\ owner[id[c]] = c /\ id[c] \in Ids /\ c \notin direct
  BY DEF Owns, Alive
<1>2. Owns(c)'
  BY <1>1 DEF Owns, Finishing
<1>3. Stored(c)' /\ Excused(c)'
  BY <1>1 DEF Stored, Excused, Finishing
<1>4. NeverAnothersGuest'
  BY <1>1 DEF NeverAnothersGuest
<1>5. QED BY <1>2, <1>3, <1>4 DEF Mine

\* The steps that furnish a guest: each sets a part that is wanted, or passes.
LEMMA PartsStep ==
  ASSUME IInv, NEW c \in Clients,
         \/ Grow(c) \/ AddToPool(c) \/ InsertCachedPermission(c)
         \/ ActivateHa(c) \/ RemoveHa(c) \/ SetHa(c)
  PROVE  Mine(c)' /\ NeverAnothersGuest'
<1> USE QemuCreateAssumption DEF IInv, Mine, TypeOK, Goto, CanFail
<1>1. pc[c] \in Finishing /\ id[c] \in Ids
  BY DEF Grow, AddToPool, InsertCachedPermission, ActivateHa, RemoveHa, SetHa, Finishing, Owns
<1>2. UNCHANGED <<direct, want, id, created>>
  BY DEF Grow, AddToPool, InsertCachedPermission, ActivateHa, RemoveHa, SetHa
<1>3. CASE Grow(c)
  <2>1. CASE todo[c] = {}
    <3>1. UNCHANGED <<server, todo, faults>> /\ pc' = [pc EXCEPT ![c] = "pool"] /\ pc[c] = "grow"
      BY <1>3, <2>1 DEF Grow
    <3>2. Furnished(c)'
      BY <1>2, <2>1, <3>1 DEF Furnished, Finishing, server
    <3>3. QED BY <1>1, <1>2, <3>1, <3>2, FinishStep DEF server, Finishing
  <2>2. ASSUME NEW g \in todo[c], todo' = [todo EXCEPT ![c] = @ \ {g}],
               Request(c, id[c] \notin Free, SetPart(c, g), "grow", "error")
        PROVE  Mine(c)' /\ NeverAnothersGuest'
    <3>1. pc[c] = "grow" /\ g \in want[c] /\ g \in Parts
      BY <1>3 DEF Grow, Furnished
    <3>2. PartDone(c, g, "grow", "error")
      BY <1>1, <2>2, <3>1, PartRequest DEF Request
    <3>3. Furnished(c)'
      BY <1>1, <1>2, <2>2, <3>1, <3>2 DEF Furnished, Finishing, PartDone
    <3>4. QED BY <1>1, <1>2, <3>1, <3>2, <3>3, FinishStep DEF PartDone, Finishing
  <2>3. QED BY <1>3, <2>1, <2>2 DEF Grow
<1>4. CASE AddToPool(c)
  <2>1. CASE Pool \in want[c]
    <3>1. PartDone(c, Pool, "permission", "error") /\ pc[c] = "pool" /\ todo' = todo
      BY <1>1, <1>4, <2>1, PartRequest DEF AddToPool, Request, Parts
    <3>2. Furnished(c)'
      BY <1>1, <1>2, <3>1 DEF Furnished, Finishing, PartDone
    <3>3. QED BY <1>1, <1>2, <2>1, <3>1, <3>2, FinishStep DEF PartDone, Finishing
  <2>2. CASE Pool \notin want[c]
    <3>1. UNCHANGED <<server, todo, faults>> /\ pc' = [pc EXCEPT ![c] = "permission"]
          /\ pc[c] = "pool"
      BY <1>4, <2>2 DEF AddToPool
    <3>2. Furnished(c)'
      BY <1>2, <2>2, <3>1 DEF Furnished, Finishing, server
    <3>3. QED BY <1>1, <1>2, <3>1, <3>2, FinishStep DEF server, Finishing
  <2>3. QED BY <2>1, <2>2
<1>5. CASE InsertCachedPermission(c)
  <2>1. UNCHANGED <<server, todo>> /\ pc[c] = "permission"
    BY <1>5 DEF InsertCachedPermission, Request
  <2>2. pc'[c] = "activate" \/ (pc'[c] = "error" /\ faults' # 0)
    BY <1>5 DEF InsertCachedPermission, Request
  <2>3. Furnished(c)'
    BY <1>2, <2>1, <2>2 DEF Furnished, Finishing, server
  <2>4. QED BY <1>1, <1>2, <2>1, <2>2, <2>3, FinishStep DEF server, Finishing
<1>6. CASE ActivateHa(c)
  <2>1. CASE Ha \in want[c]
    <3>1. PartDone(c, Resource, "ha", "ha") /\ pc[c] = "activate" /\ todo' = todo
      BY <1>1, <1>6, <2>1, PartRequest DEF ActivateHa, Request, Parts
    <3>2. Furnished(c)'
      BY <1>1, <1>2, <2>1, <3>1 DEF Furnished, Finishing, PartDone
    <3>3. Resource \in want[c]
      BY <2>1 DEF Furnished
    <3>4. QED BY <1>1, <1>2, <3>1, <3>2, <3>3, FinishStep DEF PartDone, Finishing
  <2>2. CASE Ha \notin want[c]
    <3>1. UNCHANGED <<server, todo, faults>> /\ pc' = [pc EXCEPT ![c] = "ok"]
          /\ pc[c] = "activate"
      BY <1>6, <2>2 DEF ActivateHa
    <3>2. want[c] \subseteq has[id[c]]
      BY <1>6, <2>2, <3>1 DEF ActivateHa, Furnished, Finishing, Parts
    <3>3. Furnished(c)'
      BY <1>2, <3>1, <3>2 DEF Furnished, Finishing, server
    <3>4. QED BY <1>1, <1>2, <3>1, <3>3, FinishStep DEF server, Finishing
  <2>3. QED BY <2>1, <2>2
<1>7. CASE SetHa(c)
  <2>1. pc[c] = "ha" /\ todo' = todo /\ (SetPart(c, Ha) \/ UNCHANGED server)
    BY <1>7 DEF SetHa, Request
  <2>2. \/ pc'[c] = "ok" /\ Resource \in has[id[c]] /\ SetPart(c, Ha)
        \/ pc'[c] = "error" /\ faults' # 0
    BY <1>7 DEF SetHa, Request, Furnished
  <2>3. /\ UNCHANGED <<owner, volumes, exit>>
        /\ \A i \in Ids \ {id[c]} : has'[i] = has[i]
        /\ has[id[c]] \subseteq has'[id[c]] /\ has'[id[c]] \subseteq has[id[c]] \cup {Ha}
        /\ SetPart(c, Ha) => Ha \in has'[id[c]]
    BY <1>1, <2>1, PartSet DEF Parts
  <2>4. Ha \in want[c] /\ want[c] \cap Grows \subseteq has[id[c]]
        /\ (Pool \in want[c] => Pool \in has[id[c]]) /\ Group \notin want[c]
    BY <2>1 DEF Furnished, Finishing
  <2>5. want[c] \subseteq Parts
    OBVIOUS
  <2>6. pc'[c] = "ok" => want[c] \subseteq has'[id[c]]
    BY <2>2, <2>3, <2>4, <2>5 DEF Parts
  <2>7. Furnished(c)'
    BY <1>2, <2>1, <2>2, <2>6 DEF Furnished, Finishing
  <2>8. QED BY <1>1, <1>2, <2>2, <2>3, <2>4, <2>7, FinishStep DEF Finishing
<1>8. CASE RemoveHa(c)
  <2>1. UNCHANGED server /\ pc' = [pc EXCEPT ![c] = "error"]
    BY <1>8, RemoveRefused
  <2>2. pc[c] = "activate" /\ Group \in want[c] /\ todo' = todo
    BY <1>8 DEF RemoveHa
  <2>3. want[c] \ {Group} \subseteq has[id[c]]
    BY <2>2 DEF Furnished, Finishing, Parts
  <2>4. Furnished(c)'
    BY <1>2, <2>1 DEF Furnished, Finishing
  <2>5. QED BY <1>1, <1>2, <2>1, <2>2, <2>3, <2>4, FinishStep DEF server, Finishing
<1>9. QED BY <1>3, <1>4, <1>5, <1>6, <1>7, <1>8

-----------------------------------------------------------------------------
\* The guests there were belong to nobody, and nobody has sent anything.
LEMMA Initial == Init => IInv
<1> SUFFICES ASSUME Init PROVE IInv
  OBVIOUS
<1> USE QemuCreateAssumption DEF Init
<1>1. TypeOK
  BY DEF TypeOK, Wants, Steps, Returned
<1>2. ASSUME NEW c \in Clients
      PROVE  Mine(c)
  BY DEF Mine, Owns, Furnished, Stored, Excused, Finishing, Alive, Wants
<1>3. NeverAnothersGuest
  BY DEF NeverAnothersGuest
<1>4. QED BY <1>1, <1>2, <1>3 DEF IInv, Mine

\* A step of c is one of its own kinds, and is apart from every other client.
LEMMA Inductive == IInv /\ [Next]_vars => IInv'
<1> SUFFICES ASSUME IInv, [Next]_vars PROVE IInv'
  OBVIOUS
<1>1. TypeOK'
  BY TypeStep
<1>2. ASSUME NEW c \in Clients, Client(c) \/ TaskEnds(c)
      PROVE  (\A d \in Clients : Mine(d)') /\ NeverAnothersGuest'
  <2>1. Mine(c)' /\ NeverAnothersGuest'
    BY <1>2, BeforeStep, PostStep, TaskStep, PartsStep DEF Client
  <2>2. ASSUME NEW d \in Clients \ {c} PROVE Mine(d)'
    BY <1>2, StepApart, ApartKeeps DEF IInv
  <2>3. QED BY <2>1, <2>2
<1>3. CASE UNCHANGED vars
  <2>1. NeverAnothersGuest'
    BY <1>3 DEF IInv, NeverAnothersGuest, vars, server
  <2>2. \A d \in Clients : Mine(d)'
    BY <1>3, ApartKeeps DEF IInv, Apart, vars, server
  <2>3. QED BY <1>1, <2>1, <2>2 DEF IInv
<1>4. QED BY <1>1, <1>2, <1>3 DEF Next, IInv

-----------------------------------------------------------------------------
\* The variables keep their types, whatever is lost and in which order the
\* clients and the tasks go on.
THEOREM TypeCorrect == Spec => []TypeOK
<1>1. IInv => TypeOK
  BY DEF IInv
<1>2. QED BY Initial, Inductive, <1>1, PTL DEF Spec

\* SuccessIsComplete: a creation that returns without an error has made the guest
\* under its id, with every part and volume it was asked for.
THEOREM Complete == Spec => []SuccessIsComplete
<1>1. IInv => SuccessIsComplete
  BY DEF IInv, Mine, SuccessIsComplete, Owns, Furnished, Stored, Alive
<1>2. QED BY Initial, Inductive, <1>1, PTL DEF Spec

\* NeverAnothersGuest: of any number of clients that are given the same id none
\* sets a part of a guest that another has made.
THEOREM OwnGuestOnly == Spec => []NeverAnothersGuest
<1>1. IInv => NeverAnothersGuest
  BY DEF IInv
<1>2. QED BY Initial, Inductive, <1>1, PTL DEF Spec

\* NoHalfGuestWithoutFault: while no call is lost, ConfigQemu.Create that fails
\* leaves no guest behind, or one that lacks nothing but the HA group that was named
\* without a state.
THEOREM NoHalfGuest == Spec => []NoHalfGuestWithoutFault
<1>1. IInv => NoHalfGuestWithoutFault
  BY DEF IInv, Mine, NoHalfGuestWithoutFault, Owns, Excused, Alive
<1>2. QED BY Initial, Inductive, <1>1, PTL DEF Spec

-----------------------------------------------------------------------------
(* The refinement of GuestRegistry.                                        *)

Task == [c \in Clients |-> IF exit[c] \in {"OK", "WARNINGS"} THEN "made" ELSE exit[c]]
Result == [c \in Clients |-> IF pc[c] \in Returned THEN pc[c] ELSE "none"]

\* A client's step is one of its own call, which has not returned, and changes the
\* guests by taking an id that is free or by a part for the guest it has, if at
\* all.
LEMMA GuestStep ==
  ASSUME IInv, NEW c \in Clients, Client(c)
  PROVE  /\ pc[c] \notin Returned /\ pc' = [pc EXCEPT ![c] = pc'[c]] /\ want' = want
         /\ \/ UNCHANGED <<owner, has, exit>>
            \/ pc[c] = "post" /\ pc'[c] # "ok" /\ Registry!Claim(c)
            \/ pc[c] \in Finishing /\ UNCHANGED <<owner, exit>> /\ Registry!Furnish(c)
<1> USE QemuCreateAssumption DEF IInv, Mine, TypeOK, Goto
<1>1. pc[c] \notin Returned
  BY DEF Client, NextId, CreateDisks, Post, Wait, Grow, AddToPool, InsertCachedPermission,
         ActivateHa, RemoveHa, SetHa, Returned
<1>2. want' = want
  BY DEF Client, NextId, CreateDisks, Post, Wait, Grow, AddToPool, InsertCachedPermission,
         ActivateHa, RemoveHa, SetHa
<1>3. pc' = [pc EXCEPT ![c] = pc'[c]]
  BY ZenonT(60) DEF Client, NextId, CreateDisks, Post, Wait, Grow, AddToPool, InsertCachedPermission,
         ActivateHa, RemoveHa, SetHa, Request
<1>4. CASE NextId(c) \/ CreateDisks(c) \/ Wait(c) \/ InsertCachedPermission(c)
  <2>1. UNCHANGED <<owner, has, exit>>
    BY <1>4 DEF NextId, CreateDisks, Wait, InsertCachedPermission, Request, server
  <2>2. QED BY <1>1, <1>2, <1>3, <2>1
<1>5. CASE Post(c)
  <2>1. pc[c] = "post" /\ exit[c] = "none" /\ id[c] \in Ids /\ pc'[c] \in {"wait", "error"}
    BY <1>5 DEF Post, Owns, Request
  <2>2. \/ UNCHANGED server
        \/ /\ owner[id[c]] = NoOne /\ owner' = [owner EXCEPT ![id[c]] = c]
           /\ exit' = [exit EXCEPT ![c] = "running"] /\ UNCHANGED has
    BY <1>5 DEF Post, Request, Free
  <2>3. CASE /\ owner[id[c]] = NoOne /\ owner' = [owner EXCEPT ![id[c]] = c]
             /\ exit' = [exit EXCEPT ![c] = "running"] /\ UNCHANGED has
    <3>1. Task[c] = "none" /\ Task' = [Task EXCEPT ![c] = "running"]
      BY <2>1, <2>3 DEF Task
    <3>2. QED BY <1>1, <1>2, <1>3, <2>1, <2>3, <3>1 DEF Registry!Claim, Task
  <2>4. QED BY <1>1, <1>2, <1>3, <2>2, <2>3 DEF server
<1>6. CASE Grow(c) \/ AddToPool(c) \/ ActivateHa(c) \/ SetHa(c)
  <2>1. /\ pc[c] \in Finishing /\ id[c] \in Ids /\ owner[id[c]] = c
        /\ exit[c] \in {"OK", "WARNINGS"}
    BY <1>6 DEF Grow, AddToPool, ActivateHa, SetHa, Finishing, Owns, Alive
  <2>2. UNCHANGED server \/ \E part \in want[c] : SetPart(c, part)
    BY <1>6 DEF Grow, AddToPool, ActivateHa, SetHa, Request, Furnished
  <2>3. ASSUME NEW part \in want[c], SetPart(c, part)
        PROVE  UNCHANGED <<owner, exit>> /\ Registry!Furnish(c)
    BY <2>1, <2>3 DEF SetPart, Registry!Furnish
  <2>4. QED BY <1>1, <1>2, <1>3, <2>1, <2>2, <2>3 DEF server
<1>7. CASE RemoveHa(c)
  BY <1>1, <1>2, <1>3, <1>7, RemoveRefused DEF server
<1>8. QED BY <1>4, <1>5, <1>6, <1>7 DEF Client

\* A step of a client is one of the registry: a call that returns without an error
\* has its guest, and the last part of it.
LEMMA CallStep ==
  ASSUME IInv, IInv', NEW c \in Clients, Client(c)
  PROVE  Registry!Request(c) \/ Registry!Succeed(c)
<1>1. /\ pc[c] \notin Returned /\ pc' = [pc EXCEPT ![c] = pc'[c]] /\ want' = want
      /\ \/ UNCHANGED <<owner, has, exit>>
         \/ pc[c] = "post" /\ pc'[c] # "ok" /\ Registry!Claim(c)
         \/ pc[c] \in Finishing /\ UNCHANGED <<owner, exit>> /\ Registry!Furnish(c)
  BY GuestStep
<1>2. Result[c] = "none" /\ Result' = [Result EXCEPT ![c] = Result'[c]]
  BY <1>1 DEF Result, IInv, TypeOK
<1>3. UNCHANGED <<owner, has, exit>> => UNCHANGED Registry!guests
  BY DEF Registry!guests
<1>4. CASE pc'[c] # "ok"
  <2>1. Result'[c] \in {"none", "error"}
    BY <1>4 DEF Result, Returned
  <2>2. Registry!Claim(c) \/ Registry!Furnish(c) \/ UNCHANGED Registry!guests
    BY <1>1, <1>3
  <2>3. QED BY <1>1, <1>2, <2>1, <2>2 DEF Registry!Request, Result
<1>5. CASE pc'[c] = "ok"
  <2>1. Registry!Furnish(c) \/ UNCHANGED Registry!guests
    BY <1>1, <1>3, <1>5
  <2>2. UNCHANGED <<owner, exit>>
    BY <1>1, <1>5
  <2>3. /\ exit'[c] \in {"OK", "WARNINGS"} /\ id'[c] \in Ids /\ owner'[id'[c]] = c
        /\ want'[c] \subseteq has'[id'[c]]
    BY <1>5 DEF IInv, Mine, Owns, Furnished, Alive
  <2>4. Task[c] = "made" /\ \E i \in Ids : owner[i] = c /\ want[c] \subseteq has'[i]
    BY <1>1, <2>2, <2>3 DEF Task
  <2>5. Result'[c] = "ok"
    BY <1>5 DEF Result, Returned
  <2>6. QED BY <1>1, <1>2, <2>1, <2>4, <2>5 DEF Registry!Succeed, Result, Task
<1>6. QED BY <1>4, <1>5

\* The end of a task takes away the guest it was to make, or nothing.
LEMMA RegistryTaskStep ==
  ASSUME IInv, NEW c \in Clients, TaskEnds(c)
  PROVE  Registry!TaskEnds(c)
<1>1. exit[c] = "running" /\ UNCHANGED <<want, pc>>
  BY DEF TaskEnds
<1>2. owner[id[c]] = c /\ id[c] \in Ids
  BY <1>1 DEF IInv, Mine, Owns, Alive
<1>3. Task[c] = "running" /\ Result' = Result
  BY <1>1 DEF Task, Result
<1>4. \/ Task' = [Task EXCEPT ![c] = "made"] /\ UNCHANGED <<owner, has>>
      \/ /\ Task' = [Task EXCEPT ![c] = "failed"]
         /\ owner' = [owner EXCEPT ![id[c]] = NoOne] /\ has' = [has EXCEPT ![id[c]] = {}]
  BY DEF TaskEnds, Task, IInv, TypeOK
<1>5. QED BY <1>1, <1>2, <1>3, <1>4 DEF Registry!TaskEnds, Task, Result

\* Refinement: although an id is found in one request and taken in another, and
\* requests are lost on every way, guests are claimed, furnished and finished as if
\* each client had an id to itself.
THEOREM Refinement == Spec => ImplementsGuestRegistry
<1>1. Init => Registry!Init
  <2> SUFFICES ASSUME Init PROVE Registry!Init
    OBVIOUS
  <2>1. Task = [c \in Clients |-> "none"] /\ Result = [c \in Clients |-> "none"]
    BY DEF Init, Task, Result, Returned
  <2>2. want \in [Clients -> SUBSET Parts]
    BY DEF Init, Wants
  <2>3. QED BY <2>1, <2>2 DEF Init, Registry!Init, Task, Result
<1>2. IInv /\ IInv' /\ [Next]_vars => [Registry!Next]_(Registry!vars)
  <2> SUFFICES ASSUME IInv, IInv', [Next]_vars
               PROVE  Registry!Next \/ UNCHANGED Registry!vars
    OBVIOUS
  <2>1. CASE UNCHANGED vars
    BY <2>1 DEF vars, server, Registry!vars, Registry!guests
  <2>2. QED BY <2>1, CallStep, RegistryTaskStep DEF Next, Registry!Next
<1>3. QED
  BY Initial, Inductive, <1>1, <1>2, PTL DEF Spec, ImplementsGuestRegistry, Registry!Spec
==============================================================================
