----------------------------- MODULE QemuUpdate -----------------------------
(***************************************************************************)
(* ConfigQemu.Update (proxmox/config_qemu.go): how one call brings a guest *)
(* to a wanted configuration through a sequence of separate API calls,     *)
(* stopping or rebooting the guest on the way, and what is left behind     *)
(* when one of those calls fails and the whole update is tried again.      *)
(*                                                                         *)
(* A change is an item of one of the classes below and has four values:    *)
(* "old", "gone" (the device was deleted), "small" (a disk that exists but *)
(* not at its size yet) and "new" (as wanted).  The server keeps what is   *)
(* in force (active) apart from what will be in force after the next start *)
(* (saved); a change that cannot be hot-plugged reaches a running guest    *)
(* only as a pending change, saved # active.                               *)
(***************************************************************************)
EXTENDS Integers, FiniteSets

CONSTANTS Moves,      \* disks to move to another storage or format
          Resizes,    \* disks to grow
          TpmMoves,   \* a TPM state to move to another storage
          Recreates,  \* a cloud-init disk in another slot, a TPM of another
                      \* version: deleted before they are created again
          Options,    \* everything the one PUT of the configuration sets
          NewDisks,   \* new disks whose size is not a whole number of GiB
          Pool, Ha,   \* the pool and the HA settings
          Foreign,    \* a setting this update does not touch
          MaxFaults   \* calls that may fail without being rejected

Items == Moves \cup Resizes \cup TpmMoves \cup Recreates \cup Options
            \cup NewDisks \cup {Pool, Ha, Foreign}

\* The classes are disjoint: a disk that is to be moved and to be grown is two
\* items.
ASSUME QemuUpdateAssumption ==
    /\ MaxFaults \in Nat
    /\ IsFiniteSet(Items)
    /\ Moves \cap (Resizes \cup TpmMoves \cup Recreates \cup Options \cup NewDisks) = {}
    /\ Resizes \cap (TpmMoves \cup Recreates \cup Options \cup NewDisks) = {}
    /\ TpmMoves \cap (Recreates \cup Options \cup NewDisks) = {}
    /\ Recreates \cap (Options \cup NewDisks) = {}
    /\ Options \cap NewDisks = {}
    /\ {Pool, Ha, Foreign} \cap
          (Moves \cup Resizes \cup TpmMoves \cup Recreates \cup Options \cup NewDisks) = {}
    /\ Pool # Ha /\ Pool # Foreign /\ Ha # Foreign

VARIABLES
    \* the server
    power,           \* "running" or "stopped"
    active,          \* active[i]: the value of i in force
    saved,           \* saved[i]: the value of i after the next start
    late,            \* tasks that still run, though their caller gave them up
    cold,            \* the items that cannot be hot-plugged into this guest
    \* the update
    want,            \* the items the new configuration changes
    rebootIfNeeded,  \* the parameter of Update
    pc,              \* the next step, or how the call returned
    current,         \* currentConfig, as last read
    todo,            \* what the loop of this step has left to do
    stopped,         \* the local variable: the update shut the guest down
    rebootRequired,  \* the local variable and result
    power0,          \* power when the call began
    retried,         \* this is not the first call
    faults           \* calls that have failed without being rejected

server == <<power, active, saved, late>>
input == <<cold, want, rebootIfNeeded>>
vars == <<server, input, pc, current, todo, stopped, rebootRequired, power0,
          retried, faults>>

Values == {"old", "gone", "small", "new"}
Powers == {"running", "stopped"}
Steps == {"read", "move", "resize", "tpm", "delete", "deleted", "shutdown",
          "reread", "put", "pending", "grow", "pool", "power", "ha"}

\* Update returns (false, nil), (true, nil) or an error.
Returned == {"ok", "reboot", "error"}

\* A call to the server: what it does and the items it does it to.
PowerOps == {"shutdown", "start", "reboot"}
DiskOps == {"move", "resize"}
Op(k, S) == [kind |-> k, items |-> S]
Tasks == [kind : PowerOps, items : {{}}]
            \cup [kind : DiskOps, items : {{i} : i \in Items}]

TypeOK ==
    /\ power \in Powers /\ power0 \in Powers
    /\ active \in [Items -> Values] /\ saved \in [Items -> Values]
    /\ current \in [Items -> Values]
    /\ late \subseteq Tasks
    /\ cold \subseteq Items /\ want \subseteq Items /\ todo \subseteq Items
    /\ pc \in Steps \cup Returned
    /\ {rebootIfNeeded, stopped, rebootRequired, retried} \subseteq BOOLEAN
    /\ faults \in 0..MaxFaults

\* Moving, pools and HA never wait for a restart.  Someone else may have left
\* a change of the guest pending.
Init ==
    /\ power \in Powers
    /\ saved = [i \in Items |-> IF i = Foreign THEN "new" ELSE "old"]
    /\ cold \in SUBSET (Recreates \cup Options \cup NewDisks)
    /\ active \in {saved, [saved EXCEPT ![Foreign] = "old"]}
    /\ power = "stopped" => active = saved
    /\ late = {}
    /\ want \in SUBSET (Items \ {Foreign})
    /\ rebootIfNeeded \in BOOLEAN
    /\ pc = "read"
    /\ current = saved
    /\ todo = {}
    /\ stopped = FALSE
    /\ rebootRequired = FALSE
    /\ power0 = power
    /\ retried = FALSE
    /\ faults = 0

-----------------------------------------------------------------------------
(* The server.                                                             *)

\* The value a call gives to an item.
Target(op, i) ==
    IF op.kind = "delete" THEN "gone"
    ELSE IF op.kind = "put" /\ i \in NewDisks THEN "small"
    ELSE "new"

\* A stopped guest takes every change at once, a running one those that can be
\* hot-plugged; a start or a reboot brings the rest into force.
Carry(op) ==
    IF op.kind \in PowerOps
    THEN /\ power' = IF op.kind = "shutdown" THEN "stopped" ELSE "running"
         /\ active' = saved
         /\ UNCHANGED saved
    ELSE /\ saved' = [i \in Items |->
                        IF i \in op.items THEN Target(op, i) ELSE saved[i]]
         /\ active' = [i \in Items |->
                        IF i \in op.items /\ (power = "running" => i \notin cold)
                        THEN Target(op, i) ELSE active[i]]
         /\ UNCHANGED power

\* A guest is started only when stopped, rebooted or shut down only when
\* running, and one disk is not worked on twice at a time.
Accepts(op) ==
    /\ op.kind = "start" => power = "stopped"
    /\ op.kind \in {"shutdown", "reboot"} => power = "running"
    /\ op.kind = "move" => \A i \in op.items : saved[i] = "old"
    /\ \A l \in late : l.items \cap op.items = {}

\* A task whose caller gave up ends after all, if it still applies.
LateTask ==
    /\ \E op \in late :
          /\ late' = late \ {op}
          /\ \/ Accepts([op EXCEPT !.items = {}]) /\ Carry(op)
             \/ ~Accepts([op EXCEPT !.items = {}]) /\ UNCHANGED <<power, active, saved>>
    /\ UNCHANGED <<input, pc, current, todo, stopped, rebootRequired, power0,
                   retried, faults>>

-----------------------------------------------------------------------------
(* The client.  A call succeeds, is rejected, or fails in a way that tells *)
(* nothing: it was lost, it was carried out and its reply was lost, or it  *)
(* is a task that outlives the patience of WaitForCompletion.              *)

CanFail == faults < MaxFaults

Request(op, next, onError) ==
    \/ /\ Accepts(op)
       /\ Carry(op)
       /\ pc' = next
       /\ UNCHANGED <<late, faults>>
    \/ /\ ~Accepts(op)
       /\ pc' = onError
       /\ UNCHANGED <<server, faults>>
    \/ /\ CanFail
       /\ faults' = faults + 1
       /\ pc' = onError
       /\ \/ UNCHANGED server
          \/ Accepts(op) /\ Carry(op) /\ UNCHANGED late
          \/ /\ Accepts(op)
             /\ op \in Tasks
             /\ late' = late \cup {op}
             /\ UNCHANGED <<power, active, saved>>

\* A GET that fails.
ReadFails ==
    /\ CanFail
    /\ faults' = faults + 1
    /\ pc' = "error"
    /\ UNCHANGED <<server, input, current, todo, stopped, rebootRequired,
                   power0, retried>>

\* What the snapshot still lacks of the wanted items of class S.
Lacking(S, config) == {i \in want \cap S : config[i] = "old"}

\* Mutant: a new disk that an earlier call left small is forgotten.
ToResize_mut(config) == Lacking(Resizes, config)

\* Disks the snapshot has at less than their size: those to resize, and new
\* ones that an earlier call created and did not get to grow.
ToResize(config) ==
    Lacking(Resizes, config)
        \cup {i \in want \cap NewDisks : config[i] = "small"}

\* NewConfigQemuFromApi: the configuration with its pending changes, and the
\* lists markDiskChanges makes of it.
Read ==
    /\ pc = "read"
    /\ \/ /\ current' = saved
          /\ todo' = Lacking(Moves, saved)
          /\ pc' = "move"
          /\ UNCHANGED <<server, input, stopped, rebootRequired, power0,
                         retried, faults>>
       \/ ReadFails

\* One turn of a loop over todo; when nothing is left the next loop begins
\* with the items of its own.
Loop(step, kind, next, nextTodo) ==
    /\ pc = step
    /\ \/ \E i \in todo :
             /\ todo' = todo \ {i}
             /\ Request(Op(kind, {i}), step, "error")
       \/ /\ todo = {}
          /\ pc' = next
          /\ todo' = nextTodo
          /\ UNCHANGED <<server, faults>>
    /\ UNCHANGED <<input, current, stopped, rebootRequired, power0, retried>>

Move == Loop("move", "move", "resize", ToResize(current))
Resize == Loop("resize", "resize", "tpm", Lacking(TpmMoves, current))
MoveTpm == Loop("tpm", "move", "delete", {})

AfterDelete == IF Lacking(Moves, current) # {} THEN "reread" ELSE "put"

\* PUT {"delete": itemsToDeleteBeforeUpdate}, when there are any; the snapshot
\* forgets them.
Delete ==
    /\ pc = "delete"
    /\ LET gone == Lacking(Recreates, current) IN
       \/ /\ gone = {}
          /\ pc' = AfterDelete
          /\ UNCHANGED <<server, current, faults>>
       \/ /\ gone # {}
          /\ Request(Op("delete", gone), "deleted", "error")
          /\ current' = [i \in Items |-> IF i \in gone THEN "gone" ELSE current[i]]
    /\ UNCHANGED <<input, todo, stopped, rebootRequired, power0, retried>>

HasPendingChanges == \E i \in Items : saved[i] # active[i]

\* Mutant: the update goes on with the deletion pending.
CheckDeleted_mut ==
    /\ pc = "deleted"
    /\ rebootRequired' = HasPendingChanges
    /\ pc' = AfterDelete
    /\ UNCHANGED <<server, input, current, todo, stopped, power0, retried, faults>>

\* GuestHasPendingChanges after the deletion: the guest is shut down if it has
\* any, or the update is refused (UnableToUpdateWithoutReboot).
CheckDeleted ==
    /\ pc = "deleted"
    /\ \/ /\ rebootRequired' = HasPendingChanges
          /\ pc' = IF ~HasPendingChanges THEN AfterDelete
                   ELSE IF rebootIfNeeded THEN "shutdown" ELSE "error"
          /\ UNCHANGED <<server, input, current, todo, stopped, power0,
                         retried, faults>>
       \/ ReadFails

\* Mutant: the update does not remember that it shut the guest down.
Shutdown_mut ==
    /\ pc = "shutdown"
    /\ Request(Op("shutdown", {}), AfterDelete, "error")
    /\ rebootRequired' = (pc' = "error")
    /\ UNCHANGED <<input, current, todo, stopped, power0, retried>>

Shutdown ==
    /\ pc = "shutdown"
    /\ Request(Op("shutdown", {}), AfterDelete, "error")
    /\ stopped' = (pc' # "error")
    /\ rebootRequired' = (pc' = "error")
    /\ UNCHANGED <<input, current, todo, power0, retried>>

\* Moving a disk changed its identifier: the configuration is read again.
Reread ==
    /\ pc = "reread"
    /\ \/ /\ current' = saved
          /\ pc' = "put"
          /\ UNCHANGED <<server, input, todo, stopped, rebootRequired, power0,
                         retried, faults>>
       \/ ReadFails

\* Mutant: new disks are sent whether the guest has them or not.
PutItems_anew ==
    (want \cap Options) \cup (want \cap NewDisks)
        \cup {i \in want \cap Recreates : current[i] = "gone"}

\* Mutant: what was deleted is not sent again.
PutItems_mut == (want \cap Options) \cup Lacking(NewDisks, current)

\* What mapToAPI sends: the options, and the devices the snapshot lacks.
PutItems ==
    (want \cap Options) \cup Lacking(NewDisks, current)
        \cup {i \in want \cap Recreates : current[i] = "gone"}

\* The PUT of the configuration.  mapToAPI always returns rebootRequired FALSE.
Put ==
    /\ pc = "put"
    /\ Request(Op("put", PutItems), "pending", "error")
    /\ rebootRequired' = FALSE
    /\ UNCHANGED <<input, current, todo, stopped, power0, retried>>

\* Mutant: an update that needs a restart skips the growing of new disks.
CheckPending_mut ==
    /\ pc = "pending"
    /\ rebootRequired' = (~stopped /\ HasPendingChanges)
    /\ todo' = Lacking(NewDisks, current)
    /\ pc' = IF rebootRequired' THEN "power" ELSE "grow"
    /\ UNCHANGED <<server, input, current, stopped, power0, retried, faults>>

\* The second GuestHasPendingChanges, left out when the guest was shut down.
CheckPending ==
    /\ pc = "pending"
    /\ \/ /\ rebootRequired' = (~stopped /\ HasPendingChanges)
          /\ todo' = Lacking(NewDisks, current)
          /\ pc' = "grow"
          /\ UNCHANGED <<server, input, current, stopped, power0, retried,
                         faults>>
       \/ ~stopped /\ ReadFails

\* resizeNewDisks.
Grow == Loop("grow", "resize", "pool", {})

\* guestSetPool_Unsafe: its error is dropped.
SetPool ==
    /\ pc = "pool"
    /\ \/ /\ Pool \in want /\ current[Pool] = "old"
          /\ Request(Op("pool", {Pool}), "power", "power")
       \/ /\ ~(Pool \in want /\ current[Pool] = "old")
          /\ pc' = "power"
          /\ UNCHANGED <<server, faults>>
    /\ UNCHANGED <<input, current, todo, stopped, rebootRequired, power0,
                   retried>>

\* The guest is started if the update stopped it, else rebooted if it must be
\* and may be.  When it may not, Update returns here, before UpdateVMHA.
SetPower ==
    /\ pc = "power"
    /\ \/ /\ stopped
          /\ Request(Op("start", {}), "ha", "error")
       \/ /\ ~stopped /\ rebootRequired /\ rebootIfNeeded
          /\ Request(Op("reboot", {}), "ha", "error")
       \/ /\ ~stopped /\ rebootRequired /\ ~rebootIfNeeded
          /\ pc' = "reboot"
          /\ UNCHANGED <<server, faults>>
       \/ /\ ~stopped /\ ~rebootRequired
          /\ pc' = "ha"
          /\ UNCHANGED <<server, faults>>
    /\ stopped' = (stopped /\ pc' # "ha")
    /\ rebootRequired' = (rebootRequired /\ pc' # "ha")
    /\ UNCHANGED <<input, current, todo, power0, retried>>

\* UpdateVMHA.
SetHa ==
    /\ pc = "ha"
    /\ \/ /\ Ha \in want /\ saved[Ha] = "old"
          /\ Request(Op("ha", {Ha}), "ok", "error")
       \/ /\ ~(Ha \in want /\ saved[Ha] = "old")
          /\ pc' = "ok"
          /\ UNCHANGED <<server, faults>>
       \/ /\ CanFail
          /\ faults' = faults + 1
          /\ pc' = "error"
          /\ UNCHANGED server
    /\ UNCHANGED <<input, current, todo, stopped, rebootRequired, power0,
                   retried>>

\* The caller tries a failed update again.
Retry ==
    /\ pc = "error"
    /\ pc' = "read"
    /\ retried' = TRUE
    /\ stopped' = FALSE
    /\ rebootRequired' = FALSE
    /\ power0' = power
    /\ todo' = {}
    /\ UNCHANGED <<server, input, current, faults>>

Client ==
    \/ Read \/ Move \/ Resize \/ MoveTpm
    \/ Delete \/ CheckDeleted \/ Shutdown \/ Reread
    \/ Put \/ CheckPending \/ Grow \/ SetPool \/ SetPower \/ SetHa
    \/ Retry

Next == Client \/ LateTask

Spec == Init /\ [][Next]_vars

\* The goroutine of the update keeps running, the caller does not give up, and
\* a task that was started ends.
FairSpec == Spec /\ WF_vars(Client) /\ WF_vars(LateTask)

-----------------------------------------------------------------------------
(* Properties.                                                             *)

\* Whatever failed before, and however often, an update that returns
\* (false, nil) has every change it was asked for in force: nothing is left
\* pending, deleted, or at the wrong size.  The pool is promised only when no
\* call failed, because its error is dropped.
OkMeansInForce ==
    pc = "ok" => \A i \in want : active[i] = "new" \/ (i = Pool /\ faults > 0)

\* An update that returns (true, nil) was called without leave to reboot, has
\* saved every change but those of HA, and the guest does need a restart,
\* unless a task of an earlier call stepped in.
RebootMeansSaved ==
    pc = "reboot" =>
        /\ ~rebootIfNeeded
        /\ \A i \in want : saved[i] = "new" \/ i = Ha \/ (i = Pool /\ faults > 0)
        /\ HasPendingChanges \/ retried

\* A first update that returns no error leaves the guest running or stopped as
\* it found it, whether it had to shut it down, reboot it or do neither.
PowerPreserved ==
    (pc \in {"ok", "reboot"} /\ ~retried) => power = power0

\* Within one update a device that has to be deleted before it is created
\* again is gone from the running guest by the time the PUT creates it.  A retry
\* is left out: an update that was refused for want of a reboot has left its
\* deletion pending, and the next one takes the device for deleted.
DeletedBeforeCreated ==
    (pc = "put" /\ ~retried) =>
        \A i \in PutItems \cap Recreates : active[i] = "gone"

\* When calls stop failing, trying again with leave to reboot ends with every
\* change in force, from whatever state the failed updates left behind.
Converges ==
    rebootIfNeeded =>
        <>[](\A i \in want : active[i] = "new" \/ (i = Pool /\ faults > 0))

\* The refinement mapping to what an update promises.
Promise == INSTANCE Reconfiguration WITH
               Changes <- Items, Excused <- {Pool}, Last <- {Ha},
               asked <- {i \in want : i # Pool \/ faults = 0},
               recorded <- {i \in Items : saved[i] = "new"},
               inForce <- {i \in Items : active[i] = "new"},
               result <- IF pc \in Returned THEN pc ELSE "none"

\* No request, whether it fails, is repeated or outlives its call, undoes a change
\* that was made, by this update, an earlier one or somebody else; and
\* what Update returns is what it has achieved.
ImplementsReconfiguration == Promise!Spec
=============================================================================
