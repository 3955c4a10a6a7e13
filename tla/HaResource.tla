----------------------------- MODULE HaResource -----------------------------
(***************************************************************************)
(* A guest as a resource of the HA manager, and what a VmRef remembers of  *)
(* it (proxmox/client.go; config_qemu.go and config_lxc.go for the         *)
(* operations).  A VmRef outlives the call it is passed to: the state and  *)
(* the group it has were read by an earlier call or by this one, and       *)
(* UpdateVMHA compares what is wanted with them to find out what to do.    *)
(* They are written when the server says something of them and left alone  *)
(* when it says that there is nothing; UpdateVMHA itself never writes them. *)
(*                                                                         *)
(* There is one guest and any number of references to it, in the hands of  *)
(* goroutines and programs.                                                *)
(***************************************************************************)
EXTENDS Naturals

CONSTANTS Refs,
          States,      \* the states of a resource
          Started,     \* the state the server gives to a new resource
          Groups,      \* the HA groups
          Nothing,     \* "": no resource, no group
          Asked,       \* the settings that callers ask for
          MaxLost,     \* requests that are lost, there or back
          MaxOthers    \* changes of the resource by somebody else

\* What the server has, what a VmRef remembers and what a caller wants of HA.
\* Without a resource the server has neither a state nor a group; a caller that
\* wants none may still name a group, and a VmRef may remember one.
Out == [state |-> Nothing, group |-> Nothing]
Settings == [state : States, group : Groups \cup {Nothing}]
Beliefs == [state : States \cup {Nothing}, group : Groups \cup {Nothing}]

ASSUME HaResourceAssumption ==
    /\ Started \in States
    /\ Nothing \notin States \cup Groups
    /\ Asked \subseteq Beliefs
    /\ {MaxLost, MaxOthers} \subseteq Nat

\* ConfigQemu.Update (its HA) and NewConfigQemuFromApi of a virtual machine;
\* CreateLxc, CloneLxc, UpdateConfig and NewConfigLxcFromApi of a container;
\* DeleteVm of both.
HaKinds(type) ==
    {"delete"} \cup IF type = "qemu" THEN {"qemuRead", "qemuUpdate"}
                    ELSE {"lxcRead", "lxcUpdate", "lxcCreate", "lxcClone"}

Reads == {"qemuRead", "lxcRead"}
Updates == {"qemuUpdate", "lxcUpdate", "lxcCreate", "lxcClone"}
Wants(k) == IF k \in Updates THEN Asked ELSE {Out}

\* In the place of a setting that nothing can be said of.
Unknown == [state |-> "unknown", group |-> "unknown"]

VARIABLES
    type,    \* the type of the guest
    guest,   \* the guest exists
    ha,      \* its resource, Out if it has none
    vmr,     \* vmr[r]: haState and haGroup of the VmRef r
    located, \* located[r]: r has the node and the type of the guest
    place,   \* place[r]: the next request of the call of r, or how it returned
    op,      \* op[r]: the operation
    want,    \* want[r]: the HA settings it is to set
    start,   \* start[r]: ha when the call began, Unknown if others changed it or
             \* the guest since, or if its ReadVMHA failed
    lost, others

cluster == <<type, guest, ha>>
haVars == <<cluster, vmr, located, place, op, want, start, lost, others>>

\* "reboot" is an update that returns that the guest has to be rebooted first.
HaReturned == {"ok", "reboot", "error"}

HaTypeOK ==
    /\ type \in {"qemu", "lxc"} /\ guest \in BOOLEAN
    /\ ha \in Settings \cup {Out} /\ (ha # Out => guest)
    /\ vmr \in [Refs -> Beliefs] /\ located \in [Refs -> BOOLEAN]
    /\ place \in [Refs -> {"idle", "info", "read", "update", "infoAgain", "readAgain",
                           "rest", "create", "compare", "remove", "add", "set", "config",
                           "release", "delete", "panic"} \cup HaReturned]
    /\ op \in [Refs -> HaKinds(type)]
    /\ want \in [Refs -> Beliefs]
    /\ start \in [Refs -> Settings \cup {Out, Unknown}]
    /\ lost \in 0..MaxLost /\ others \in 0..MaxOthers

\* NewVmRef
HaInit ==
    /\ type \in {"qemu", "lxc"} /\ guest \in BOOLEAN
    /\ ha \in Settings \cup {Out} /\ (ha # Out => guest)
    /\ vmr = [r \in Refs |-> Out] /\ located = [r \in Refs |-> FALSE]
    /\ place = [r \in Refs |-> "idle"]
    /\ op = [r \in Refs |-> "delete"] /\ want = [r \in Refs |-> Out]
    /\ start = [r \in Refs |-> Unknown]
    /\ lost = 0 /\ others = 0

-----------------------------------------------------------------------------
(* Requests.                                                               *)

HaGoto(r, step) == place' = [place EXCEPT ![r] = step]

HaFault ==
    /\ lost < MaxLost
    /\ lost' = lost + 1

\* The calls of the other references no longer know what they started from.
Surprise(r) == start' = [d \in Refs |-> IF d = r THEN start[d] ELSE Unknown]

\* A request that makes h of the resource is carried out, refused or lost.
\* Nothing tells a caller how far a lost one came; where it goes on, it may
\* still return an answer that cannot be read and the error of a task.
Change(r, accepted, h, next, onError) ==
    /\ \/ accepted /\ ha' = h /\ Surprise(r) /\ HaGoto(r, next) /\ UNCHANGED lost
       \/ ~accepted /\ HaGoto(r, onError) /\ UNCHANGED <<ha, start, lost>>
       \/ /\ HaFault
          /\ HaGoto(r, onError) \/ HaGoto(r, "error")
          /\ \/ UNCHANGED <<ha, start>>
             \/ accepted /\ ha' = h /\ Surprise(r)
    /\ UNCHANGED <<type, guest, vmr, located, op, want, others>>

\* A goroutine calls an operation, with a VmRef that may have been used before.
HaBegin(r, k, w) ==
    /\ place[r] \in {"idle"} \cup HaReturned
    /\ op' = [op EXCEPT ![r] = k]
    /\ want' = [want EXCEPT ![r] = w]
    /\ start' = [start EXCEPT ![r] = ha]
    /\ HaGoto(r, CASE k \in {"qemuRead", "qemuUpdate"} -> "info"
                 [] k = "lxcRead" -> IF located[r] THEN "read" ELSE "info"
                 [] k = "lxcUpdate" -> "compare"
                 [] k \in {"lxcCreate", "lxcClone"} -> "create"
                 [] k = "delete" -> IF located[r] THEN "release" ELSE "info")
    /\ UNCHANGED <<cluster, vmr, located, lost, others>>

\* GetVmInfo, from CheckVmRef or NewConfigQemuFromApi: the list of guests names
\* the state of a guest that is a resource.  A reader ends there when the guest
\* is locked or its configuration cannot be had.
GetVmInfo(r) ==
    /\ place[r] \in {"info", "infoAgain"}
    /\ \/ /\ guest
          /\ located' = [located EXCEPT ![r] = TRUE]
          /\ vmr' = IF ha = Out THEN vmr
                    ELSE [vmr EXCEPT ![r] = [state |-> ha.state, group |-> @.group]]
          /\ \/ HaGoto(r, IF op[r] = "delete" THEN "release"
                          ELSE IF place[r] = "infoAgain" THEN "readAgain" ELSE "read")
             \/ op[r] # "delete" /\ HaGoto(r, "error")
          /\ UNCHANGED lost
       \/ ~guest /\ HaGoto(r, "error") /\ UNCHANGED <<vmr, located, lost>>
       \/ HaFault /\ HaGoto(r, "error") /\ UNCHANGED <<vmr, located>>
    /\ UNCHANGED <<cluster, op, want, start, others>>

\* ReadVMHA: an answer has the state, and the group if there is one.  No answer,
\* for want of a resource or because the request fails, is no error.
ReadVMHA(r) ==
    /\ place[r] \in {"read", "readAgain"}
    /\ \/ /\ vmr' = IF ha = Out THEN vmr
                    ELSE [vmr EXCEPT ![r] =
                             [state |-> ha.state,
                              group |-> IF ha.group = Nothing THEN @.group ELSE ha.group]]
          /\ UNCHANGED <<start, lost>>
       \/ /\ HaFault
          /\ start' = [start EXCEPT ![r] = Unknown]
          /\ UNCHANGED vmr
    /\ HaGoto(r, IF op[r] \in Reads THEN "ok"
                 ELSE IF place[r] = "readAgain" THEN "rest" ELSE "update")
    /\ UNCHANGED <<cluster, located, op, want, others>>

\* What setAdvanced does before UpdateVMHA (it is modelled in QemuUpdate): the
\* configuration is read again when disks have been moved; the call may fail; and
\* it returns without an error, and without coming to UpdateVMHA, when a reboot is
\* required that the caller did not allow.
Update(r) ==
    /\ place[r] \in {"update", "rest"}
    /\ \/ place[r] = "update" /\ HaGoto(r, "infoAgain")
       \/ \E next \in {"compare", "reboot", "error"} : HaGoto(r, next)
    /\ UNCHANGED <<cluster, vmr, located, op, want, start, lost, others>>

\* POST of CreateLxcContainer or CloneLxcContainer, and the wait for its task.
\* CreateLxcContainer closes the body of the response although a request
\* that is lost has none: it dereferences nil.
Create(r) ==
    /\ place[r] = "create"
    /\ \/ ~guest /\ guest' = TRUE /\ Surprise(r) /\ HaGoto(r, "compare") /\ UNCHANGED lost
       \/ HaGoto(r, "error") /\ UNCHANGED <<guest, start, lost>>
       \/ /\ HaFault
          /\ \/ UNCHANGED <<guest, start>>
             \/ ~guest /\ guest' = TRUE /\ Surprise(r)
          /\ HaGoto(r, "error") \/ (op[r] = "lxcCreate" /\ HaGoto(r, "panic"))
    /\ UNCHANGED <<type, ha, vmr, located, op, want, others>>

-----------------------------------------------------------------------------
(* UpdateVMHA.                                                             *)

\* What follows it.
Done(r) == IF op[r] = "lxcUpdate" THEN "config" ELSE "ok"

\* "Same hastate & hagroup" or the first request.
Compare(r) ==
    /\ place[r] = "compare"
    /\ HaGoto(r, IF vmr[r] = want[r] THEN Done(r)
               ELSE IF want[r].state = Nothing THEN "remove"
               ELSE IF vmr[r].state = Nothing THEN "add"
               ELSE "set")
    /\ UNCHANGED <<cluster, vmr, located, op, want, start, lost, others>>

\* "Remove HA": DELETE /cluster/ha/resources.
Remove(r) ==
    /\ place[r] = "remove"
    /\ Change(r, ha # Out, Out, Done(r), "error")

\* Mutant: a guest that has been made a resource is taken to be as wanted.
Add_mut(r) ==
    /\ place[r] = "add"
    /\ Change(r, guest /\ ha = Out, [state |-> Started, group |-> want[r].group],
              Done(r), "set")

\* "Activate HA": POST /cluster/ha/resources.  Its error is dropped, unless the
\* server has answered and the answer cannot be read or names a task that fails.
Add(r) ==
    /\ place[r] = "add"
    /\ Change(r, guest /\ ha = Out, [state |-> Started, group |-> want[r].group],
              "set", "set")

\* Mutant: state and group are set one after the other, the state first.
Set_mut(r) ==
    /\ place[r] = "set"
    /\ \/ ha.state = want[r].state /\ Change(r, TRUE, want[r], Done(r), "error")
       \/ ha.state # want[r].state
          /\ Change(r, ha # Out, [ha EXCEPT !.state = want[r].state], "set", "error")

\* "Set wanted state": PUT /cluster/ha/resources, with an empty group for none.
Set(r) ==
    /\ place[r] = "set"
    /\ Change(r, ha # Out, want[r], Done(r), "error")

\* SetLxcConfig, the rest of UpdateConfig.
Config(r) ==
    /\ place[r] = "config"
    /\ \/ guest /\ HaGoto(r, "ok") /\ UNCHANGED lost
       \/ HaGoto(r, "error") /\ UNCHANGED lost
       \/ HaFault /\ HaGoto(r, "error")
    /\ UNCHANGED <<cluster, vmr, located, op, want, start, others>>

-----------------------------------------------------------------------------
(* DeleteVmParams.                                                         *)

\* "Remove HA if required"; the error of the request is dropped, as that of Add.
Release(r) ==
    /\ place[r] = "release"
    /\ \/ vmr[r].state # Nothing /\ Change(r, ha # Out, Out, "delete", "delete")
       \/ /\ vmr[r].state = Nothing
          /\ HaGoto(r, "delete")
          /\ UNCHANGED <<cluster, vmr, located, op, want, start, lost, others>>

\* DELETE of the guest, refused while it is a resource.
Delete(r) ==
    /\ place[r] = "delete"
    /\ LET accepted == guest /\ ha = Out IN
       \/ accepted /\ guest' = FALSE /\ Surprise(r) /\ HaGoto(r, "ok") /\ UNCHANGED lost
       \/ ~accepted /\ HaGoto(r, "error") /\ UNCHANGED <<guest, start, lost>>
       \/ /\ HaFault
          /\ HaGoto(r, "error")
          /\ \/ UNCHANGED <<guest, start>>
             \/ accepted /\ guest' = FALSE /\ Surprise(r)
    /\ UNCHANGED <<type, ha, vmr, located, op, want, others>>

\* An administrator, or the HA manager.
Other ==
    /\ others < MaxOthers
    /\ others' = others + 1
    /\ guest
    /\ ha' \in (Settings \cup {Out}) \ {ha}
    /\ start' = [r \in Refs |-> Unknown]
    /\ UNCHANGED <<type, guest, vmr, located, place, op, want, lost>>

HaStep(r) ==
    \/ GetVmInfo(r) \/ ReadVMHA(r) \/ Update(r) \/ Create(r)
    \/ Compare(r) \/ Remove(r) \/ Add(r) \/ Set(r) \/ Config(r)
    \/ Release(r) \/ Delete(r)

HaNext ==
    \/ \E r \in Refs : HaStep(r)
    \/ \E r \in Refs : \E k \in HaKinds(type) : \E w \in Wants(k) : HaBegin(r, k, w)
    \/ Other

HaSpec == HaInit /\ [][HaNext]_haVars

-----------------------------------------------------------------------------
(* Properties.                                                             *)

\* h is what a caller that wants w asked for.
Meets(h, w) == h = IF w.state = Nothing THEN Out ELSE w

\* b remembers a resource or a group that there was no more.
Outlived(b, h) ==
    \/ b.state # Nothing /\ h = Out
    \/ b.group # Nothing /\ h.group = Nothing

\* An update that returns without an error and with no reboot required, and during
\* which nobody else changed the resource, has set what was asked for, whatever the
\* VmRef remembered and although an error on the way is dropped; unless it took the
\* settings for unchanged.  When it has read them first, it is wrong about that only
\* in one way: it remembers something that the guest has lost since.  One that
\* returns that a reboot is required has set nothing, not even in part.
OkIsExact ==
    \A r \in Refs :
        /\ (place[r] = "ok" /\ op[r] \in Updates /\ start[r] # Unknown) =>
              \/ Meets(ha, want[r])
              \/ /\ vmr[r] = want[r]
                 /\ op[r] = "qemuUpdate" => Outlived(vmr[r], start[r])
        /\ (place[r] = "reboot" /\ start[r] # Unknown) => ha = start[r]

\* An update that fails, and during which nobody else changed the resource,
\* leaves it as it was, as asked for, or added with the state that the server
\* gives to a new one: never with the state wanted and another group.
FailureIsHalfway ==
    \A r \in Refs :
        (place[r] = "error" /\ op[r] \in Updates /\ start[r] # Unknown) =>
            \/ ha \in {start[r], [state |-> Started, group |-> want[r].group]}
            \/ Meets(ha, want[r])
=============================================================================
