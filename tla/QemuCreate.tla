----------------------------- MODULE QemuCreate -----------------------------
(***************************************************************************)
(* Creating a guest: GetNextID, CreateQemuVm (both proxmox/client.go) and  *)
(* the create branch of ConfigQemu.setAdvanced (proxmox/config_qemu.go).   *)
(* The id is chosen by one call, claimed by another and the guest is       *)
(* finished by several more; other clients do the same meanwhile, and what *)
(* an error leaves on the server depends on the call that failed.          *)
(*                                                                         *)
(* CreateQemuVm is also called directly, with volumes it has to make       *)
(* first; setAdvanced never asks for those (no disk it formats carries     *)
(* media=disk).                                                            *)
(***************************************************************************)
EXTENDS Integers

CONSTANTS Clients,
          MaxId,      \* the ids are 1..MaxId (100 and up on the server)
          Volumes,    \* the volumes a direct call asks for
          Grows,      \* new disks whose size is not a whole number of GiB
          Pool,       \* the membership of the pool
          Resource,   \* the guest is an HA resource
          Ha,         \* its HA state, and its group if it is to have one
          Group,      \* an HA group without a state
          NoOne, Other,
          MaxFaults   \* calls that may fail without being rejected

Ids == 1..MaxId
Parts == Grows \cup {Pool, Resource, Ha, Group}

ASSUME QemuCreateAssumption ==
    /\ MaxId \in Nat /\ MaxFaults \in Nat
    /\ NoOne \notin Clients \cup {Other} /\ Other \notin Clients

VARIABLES
    \* the server
    owner,     \* owner[i]: who created the guest with this id, if it exists
    has,       \* has[i]: the parts of its configuration set since
    volumes,   \* <<i, v>>: a volume that exists, made for the guest i
    exit,      \* exit[c]: the status of the task that creates c's guest
    \* the clients
    direct,    \* the clients that call CreateQemuVm themselves
    want,      \* want[c]: the parts c's configuration asks for
    pc, id,
    current,   \* current[c]: the argument of GetNextID
    todo,      \* todo[c]: what the loop of this step has left to do
    created,   \* created[c]: createdDisks
    faults

server == <<owner, has, volumes, exit>>
vars == <<server, direct, want, pc, id, current, todo, created, faults>>

Steps == {"nextid", "disks", "post", "wait", "grow", "pool", "permission",
          "activate", "ha"}
Returned == {"ok", "error"}

TypeOK ==
    /\ owner \in [Ids -> Clients \cup {NoOne, Other}]
    /\ has \in [Ids -> SUBSET Parts]
    /\ volumes \subseteq Ids \X Volumes
    /\ exit \in [Clients -> {"none", "running", "OK", "WARNINGS", "failed"}]
    /\ direct \subseteq Clients
    /\ want \in [Clients -> SUBSET Parts]
    /\ pc \in [Clients -> Steps \cup Returned]
    /\ id \in [Clients -> 0..MaxId]
    /\ current \in [Clients -> 0..(MaxId + 1)]
    /\ todo \in [Clients -> SUBSET (Volumes \cup Grows)]
    /\ created \in [Clients -> SUBSET Volumes]
    /\ faults \in 0..MaxFaults

\* HA is asked for by its state; the resource comes with it.  A configuration may
\* also name a group and no state.
Wants == {w \in SUBSET Parts : (Resource \in w <=> Ha \in w) /\ ~({Ha, Group} \subseteq w)}

Init ==
    /\ owner \in [Ids -> {NoOne, Other}]
    /\ has = [i \in Ids |-> {}]
    /\ volumes = {}
    /\ exit = [c \in Clients |-> "none"]
    /\ direct \in SUBSET Clients
    /\ want \in [Clients -> Wants]
    /\ \A c \in direct : want[c] = {}
    /\ pc = [c \in Clients |-> "nextid"]
    /\ id = [c \in Clients |-> 0]
    /\ current = [c \in Clients |-> 0]
    /\ todo = [c \in Clients |-> IF c \in direct THEN Volumes ELSE {}]
    /\ created = [c \in Clients |-> {}]
    /\ faults = 0

-----------------------------------------------------------------------------
Free == {i \in Ids : owner[i] = NoOne}

CanFail == faults < MaxFaults

Goto(c, step) == pc' = [pc EXCEPT ![c] = step]

\* A call succeeds, is rejected, or is lost on the way there or back.  Where its
\* error is dropped an answer that cannot be read, or the error of a task, still ends
\* the creation.
Request(c, accepted, effect, next, onError) ==
    \/ /\ accepted /\ effect
       /\ Goto(c, next)
       /\ UNCHANGED faults
    \/ /\ ~accepted
       /\ Goto(c, onError)
       /\ UNCHANGED <<server, faults>>
    \/ /\ CanFail
       /\ faults' = faults + 1
       /\ Goto(c, onError) \/ Goto(c, "error")
       /\ \/ UNCHANGED server
          \/ accepted /\ effect

\* A call that sets a part of the guest with c's id, whoever created it.
SetPart(c, part) ==
    /\ has' = [has EXCEPT ![id[c]] = @ \cup {part}]
    /\ UNCHANGED <<owner, volumes, exit>>

\* GetNextID: below 100 the server picks the lowest free id, else it is asked
\* for the one given; it is asked for the next one when it answers 400, for as
\* long as it does.  0 stands for the numbers below 100, MaxId + 1 for those
\* that are no ids.
NextId(c) ==
    /\ pc[c] = "nextid"
    /\ LET found == IF current[c] = 0 THEN Free ELSE Free \cap {current[c]} IN
       \/ /\ \E i \in found :
                (\A j \in found : i <= j) /\ id' = [id EXCEPT ![c] = i]
          /\ Goto(c, "disks")
          /\ UNCHANGED <<current, faults>>
       \/ /\ found = {}
          /\ \E n \in {current[c], current[c] + 1} :
                /\ n = current[c] => n \in {0, MaxId + 1}
                /\ n <= MaxId + 1
                /\ current' = [current EXCEPT ![c] = n]
          /\ UNCHANGED <<pc, id, faults>>
       \/ /\ CanFail
          /\ faults' = faults + 1
          /\ Goto(c, "error")
          /\ UNCHANGED <<id, current>>
    /\ UNCHANGED <<server, direct, want, todo, created>>

\* createVMDisks: its error ends CreateQemuVm, with the volumes made so far.
CreateDisks(c) ==
    /\ pc[c] = "disks"
    /\ \/ \E v \in todo[c] :
             /\ Request(c, <<id[c], v>> \notin volumes,
                        /\ volumes' = volumes \cup {<<id[c], v>>}
                        /\ UNCHANGED <<owner, has, exit>>,
                        "disks", "error")
             /\ todo' = [todo EXCEPT ![c] = @ \ {v}]
             /\ created' = IF pc'[c] = "error" THEN created
                           ELSE [created EXCEPT ![c] = @ \cup {v}]
       \/ /\ todo[c] = {}
          /\ Goto(c, "post")
          /\ UNCHANGED <<server, todo, created, faults>>
    /\ UNCHANGED <<direct, want, id, current>>

\* Mutant: a refused POST is sent again.
Post_again(c) ==
    /\ pc[c] = "post"
    /\ Request(c, id[c] \in Free,
               /\ owner' = [owner EXCEPT ![id[c]] = c]
               /\ exit' = [exit EXCEPT ![c] = "running"]
               /\ UNCHANGED <<has, volumes>>,
               "wait", "post")
    /\ UNCHANGED <<direct, want, id, current, todo, created>>

\* POST /nodes/{node}/qemu, refused when the id has been taken; its error
\* returns at once, before the volumes are looked at.
Post(c) ==
    /\ pc[c] = "post"
    /\ Request(c, id[c] \in Free,
               /\ owner' = [owner EXCEPT ![id[c]] = c]
               /\ exit' = [exit EXCEPT ![c] = "running"]
               /\ UNCHANGED <<has, volumes>>,
               "wait", "error")
    /\ UNCHANGED <<direct, want, id, current, todo, created>>

\* The server makes the guest, or fails and removes what it made of it; the
\* volumes that were there before stay.
TaskEnds(c) ==
    /\ exit[c] = "running"
    /\ \E status \in {"OK", "WARNINGS", "failed"} :
          /\ exit' = [exit EXCEPT ![c] = status]
          /\ IF status = "failed"
             THEN /\ owner' = [owner EXCEPT ![id[c]] = NoOne]
                  /\ has' = [has EXCEPT ![id[c]] = {}]
             ELSE UNCHANGED <<owner, has>>
    /\ UNCHANGED <<volumes, direct, want, pc, id, current, todo, created,
                   faults>>

\* DeleteVMDisks POSTs to the address of each volume, where the server takes
\* only a DELETE: it succeeds when there is nothing to delete.
DeleteVMDisks(c) == created[c] = {}

\* Mutant: when the wait is given up the guest is taken for created.
Wait_mut(c) ==
    /\ pc[c] = "wait"
    /\ \/ exit[c] \in {"OK", "WARNINGS"} /\ UNCHANGED faults
       \/ exit[c] = "running" /\ CanFail /\ faults' = faults + 1
    /\ Goto(c, IF c \in direct THEN "ok" ELSE "grow")
    /\ todo' = [todo EXCEPT ![c] = want[c] \cap Grows]
    /\ UNCHANGED <<server, direct, want, id, current, created>>

\* WaitForCompletion, which may lose patience.  Every status but OK, that of
\* a guest created with warnings too, has the volumes deleted.
Wait(c) ==
    /\ pc[c] = "wait"
    /\ \/ /\ exit[c] = "OK" \/ (exit[c] = "WARNINGS" /\ DeleteVMDisks(c))
          /\ Goto(c, IF c \in direct THEN "ok" ELSE "grow")
          /\ todo' = [todo EXCEPT ![c] = want[c] \cap Grows]
          /\ UNCHANGED faults
       \/ /\ exit[c] = "failed" \/ (exit[c] = "WARNINGS" /\ ~DeleteVMDisks(c))
          /\ Goto(c, "error")
          /\ UNCHANGED <<todo, faults>>
       \/ /\ CanFail
          /\ faults' = faults + 1
          /\ Goto(c, "error")
          /\ UNCHANGED todo
    /\ UNCHANGED <<server, direct, want, id, current, created>>

\* resizeNewDisks.
Grow(c) ==
    /\ pc[c] = "grow"
    /\ \/ \E g \in todo[c] :
             /\ todo' = [todo EXCEPT ![c] = @ \ {g}]
             /\ Request(c, id[c] \notin Free, SetPart(c, g), "grow", "error")
       \/ /\ todo[c] = {}
          /\ Goto(c, "pool")
          /\ UNCHANGED <<server, todo, faults>>
    /\ UNCHANGED <<direct, want, id, current, created>>

\* Mutant: the guest's error is dropped as it is when a guest is updated.
AddToPool_mut(c) ==
    /\ pc[c] = "pool"
    /\ \/ /\ Pool \in want[c]
          /\ Request(c, id[c] \notin Free, SetPart(c, Pool), "permission", "permission")
       \/ /\ Pool \notin want[c]
          /\ Goto(c, "permission")
          /\ UNCHANGED <<server, faults>>
    /\ UNCHANGED <<direct, want, id, current, todo, created>>

\* addGuests_Unsafe, whose error is returned here.
AddToPool(c) ==
    /\ pc[c] = "pool"
    /\ \/ /\ Pool \in want[c]
          /\ Request(c, id[c] \notin Free, SetPart(c, Pool), "permission", "error")
       \/ /\ Pool \notin want[c]
          /\ Goto(c, "permission")
          /\ UNCHANGED <<server, faults>>
    /\ UNCHANGED <<direct, want, id, current, todo, created>>

\* insertCachedPermission asks for the permissions; what becomes of the cache
\* is left out.
InsertCachedPermission(c) ==
    /\ pc[c] = "permission"
    /\ Request(c, TRUE, UNCHANGED server, "activate", "error")
    /\ UNCHANGED <<direct, want, id, current, todo, created>>

\* Mutant: the state is set without the guest being made a resource.
ActivateHa_mut(c) ==
    /\ pc[c] = "activate"
    /\ Group \notin want[c]
    /\ Goto(c, IF Ha \in want[c] THEN "ha" ELSE "ok")
    /\ UNCHANGED <<server, direct, want, id, current, todo, created, faults>>

\* UpdateVMHA on a guest that is new: its first call, whose error is dropped.
ActivateHa(c) ==
    /\ pc[c] = "activate"
    /\ \/ /\ Ha \in want[c]
          /\ Request(c, id[c] \notin Free, SetPart(c, Resource), "ha", "ha")
       \/ /\ want[c] \cap {Ha, Group} = {}
          /\ Goto(c, "ok")
          /\ UNCHANGED <<server, faults>>
    /\ UNCHANGED <<direct, want, id, current, todo, created>>

\* A group without a state differs from what the VmRef has, and the empty state is
\* taken for the wish to remove the resource: DELETE, which the server refuses.
RemoveHa(c) ==
    /\ pc[c] = "activate" /\ Group \in want[c]
    /\ Request(c, Resource \in has[id[c]],
               /\ has' = [has EXCEPT ![id[c]] = @ \ {Resource, Ha}]
               /\ UNCHANGED <<owner, volumes, exit>>,
               "ok", "error")
    /\ UNCHANGED <<direct, want, id, current, todo, created>>

\* The second call of ActivateHa.
SetHa(c) ==
    /\ pc[c] = "ha"
    /\ Request(c, Resource \in has[id[c]], SetPart(c, Ha), "ok", "error")
    /\ UNCHANGED <<direct, want, id, current, todo, created>>

Client(c) ==
    \/ NextId(c) \/ CreateDisks(c) \/ Post(c) \/ Wait(c)
    \/ Grow(c) \/ AddToPool(c) \/ InsertCachedPermission(c)
    \/ ActivateHa(c) \/ RemoveHa(c) \/ SetHa(c)

Next == \E c \in Clients : Client(c) \/ TaskEnds(c)

Spec == Init /\ [][Next]_vars

\* Every goroutine keeps running, and every task ends.
FairSpec == Spec /\ \A c \in Clients : WF_vars(Client(c)) /\ WF_vars(TaskEnds(c))

-----------------------------------------------------------------------------
(* Properties.                                                             *)

\* A creation that returns without an error has made the guest under the id
\* it was given, and the guest has every part it was asked for, although one
\* of the errors on the way is dropped.
SuccessIsComplete ==
    \A c \in Clients : pc[c] = "ok" =>
        /\ owner[id[c]] = c
        /\ exit[c] \in {"OK", "WARNINGS"}
        /\ want[c] \subseteq has[id[c]]
        /\ c \in direct => \A v \in Volumes : <<id[c], v>> \in volumes

\* Two clients are easily given the same id.  None of them ever sets a part
\* of a guest that someone else created: a guest has only what its own
\* creator wants, and the guests that were there before stay as they were.
NeverAnothersGuest ==
    \A i \in Ids : IF owner[i] \in Clients THEN has[i] \subseteq want[owner[i]]
                                           ELSE has[i] = {}

\* While no call is lost, Create fails only before its guest exists: it never leaves
\* one behind that is created but not finished.  The exception is a configuration
\* that names an HA group and no state: its guest is made, has everything else that
\* was asked for, and is reported as an error.
NoHalfGuestWithoutFault ==
    \A c \in Clients \ direct :
        pc[c] = "error" /\ faults = 0 =>
            \A i \in Ids : owner[i] = c =>
                Group \in want[c] /\ want[c] \ {Group} \subseteq has[i]

\* Every creation returns, whatever fails, as long as some id is free: in a
\* cluster that is full GetNextID calls itself for ever.
EveryCreateReturns ==
    \A c \in Clients : <>(pc[c] \in Returned \/ Free = {})

\* The refinement mapping: the task is what its exit status says, and a call has
\* returned when it has.
Registry == INSTANCE GuestRegistry WITH
    task <- [c \in Clients |-> IF exit[c] \in {"OK", "WARNINGS"} THEN "made" ELSE exit[c]],
    result <- [c \in Clients |-> IF pc[c] \in Returned THEN pc[c] ELSE "none"]

\* Ids are taken in one step, although they are found in an earlier one; nobody
\* gets at a guest before it is made, at one that another client has made, or at
\* one whose creation has returned; and no guest disappears but with the failure
\* of the task that was to make it.
ImplementsGuestRegistry == Registry!Spec

\* What the comments of CreateQemuVm ("Delete VM disks if the VM didn't
\* create.") and of DeleteVMDisks say: the volumes made for a guest that was
\* not created are gone.
NothingLeftBehind ==
    \A c \in Clients :
        pc[c] = "error" /\ exit[c] \in {"none", "failed"} =>
            \A v \in created[c] : <<id[c], v>> \notin volumes
=============================================================================
