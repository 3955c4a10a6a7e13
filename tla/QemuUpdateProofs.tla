-------------------------- MODULE QemuUpdateProofs --------------------------
(***************************************************************************)
(* Proofs about QemuUpdate, for any items of each class, any number of     *)
(* failing calls and of retries.  The invariant says what is true of the   *)
(* server alone (ServerRight, LateRight), how far the update has brought   *)
(* each class of items at each step (Progress), and how what is in force   *)
(* keeps up with what is saved (InForce); FirstCall is what is known more  *)
(* as long as nothing has failed.                                          *)
(***************************************************************************)
EXTENDS QemuUpdate, TLAPS

\* The steps from one on, in the order of the update.
FromHa == {"ha", "ok"}
FromPower == {"power", "reboot"} \cup FromHa
FromPool == {"pool"} \cup FromPower
FromGrow == {"grow"} \cup FromPool
FromPending == {"pending"} \cup FromGrow
FromDeleted == {"deleted", "shutdown", "reread", "put"} \cup FromPending
FromDelete == {"delete"} \cup FromDeleted
FromTpm == {"tpm"} \cup FromDelete
FromResize == {"resize"} \cup FromTpm
FromMove == {"move"} \cup FromResize
BeforePending == {"move", "resize", "tpm", "delete", "deleted", "shutdown", "reread", "put"}

\* The values the items of each class can have.
Valued(v) ==
    /\ \A i \in Moves \cup Resizes \cup TpmMoves \cup Options \cup {Pool, Ha} : v[i] \in {"old", "new"}
    /\ \A i \in Recreates : v[i] \in {"old", "gone", "new"}
    /\ \A i \in NewDisks : v[i] \in {"old", "small", "new"}

\* A stopped guest has nothing pending, a running one nothing of what can be
\* hot-plugged but what others left, and what was never set is not in force.
ServerRight ==
    /\ cold \subseteq Recreates \cup Options \cup NewDisks
    /\ Foreign \notin want
    /\ Valued(saved)
    /\ power = "stopped" => active = saved
    /\ \A i \in Items \ (cold \cup {Foreign}) : active[i] = saved[i]
    /\ \A i \in NewDisks : saved[i] = "old" => active[i] = "old"

\* Everything but the pool and HA is saved.
AllSaved == \A i \in want \ {Pool, Ha} : saved[i] = "new"

\* A task that outlived its caller works on a disk of the loops, which it finds as
\* wanted when the update is past them; it starts or reboots the guest only if
\* nothing was left to do but that.
LateRight ==
    /\ \A l \in late :
          l.kind \in DiskOps =>
             \A i \in l.items :
                /\ i \in want \cap (Moves \cup Resizes \cup TpmMoves \cup NewDisks)
                /\ i \in NewDisks => saved[i] # "old"
                /\ pc \in FromDelete => saved[i] = "new"
    /\ \A l \in late : l.kind \in {"start", "reboot"} =>
          /\ AllSaved
          /\ pc # "error" => ~stopped
          /\ pc \in FromMove => \A i \in want \cap NewDisks : current[i] = "new"

\* What the loops still have to do.
TodoRight ==
    /\ pc = "move" => todo \subseteq want \cap Moves
    /\ pc = "resize" =>
          todo \subseteq (want \cap Resizes) \cup {i \in want \cap NewDisks : current[i] = "small"}
    /\ pc = "tpm" => todo \subseteq want \cap TpmMoves
    /\ pc = "grow" => todo \subseteq {i \in want \cap NewDisks : current[i] = "old"}

\* The snapshot is what was saved when it was taken; what it has as wanted is so.
SnapshotRight ==
    pc \in FromMove =>
        /\ Valued(current)
        /\ \A i \in Items \ {Foreign} : current[i] = "new" => saved[i] = "new"
        /\ pc \in BeforePending =>
              /\ \A i \in Recreates : current[i] = saved[i]
              /\ \A i \in NewDisks : current[i] = "old" => saved[i] = "old"
        /\ \A i \in NewDisks : current[i] = "small" => saved[i] # "old"

\* How far the update has brought the items of each class.
Progress ==
    /\ \A i \in want \cap Moves :
          /\ pc = "move" => i \in todo \/ saved[i] = "new"
          /\ pc \in FromResize => saved[i] = "new"
    /\ \A i \in want \cap Resizes :
          /\ pc = "resize" => i \in todo \/ saved[i] = "new"
          /\ pc \in FromTpm => saved[i] = "new"
    /\ \A i \in want \cap TpmMoves :
          /\ pc = "tpm" => i \in todo \/ saved[i] = "new"
          /\ pc \in FromDelete => saved[i] = "new"
    /\ \A i \in want \cap Recreates :
          /\ pc \in FromDeleted => saved[i] # "old"
          /\ pc \in FromPending => saved[i] = "new"
    /\ \A i \in want \cap Options :
          pc \in FromPending => saved[i] = "new"
    /\ \A i \in want \cap NewDisks :
          /\ pc = "resize" /\ current[i] = "small" => i \in todo \/ saved[i] = "new"
          /\ pc \in FromTpm /\ current[i] = "small" => saved[i] = "new"
          /\ pc = "pending" => saved[i] # "old"
          /\ pc = "grow" => saved[i] = "new" \/ (i \in todo /\ saved[i] = "small")
          /\ pc \in FromPool => saved[i] = "new"
    /\ Pool \in want /\ pc \in FromPower => saved[Pool] = "new" \/ faults > 0
    /\ Ha \in want /\ pc = "ok" => saved[Ha] = "new"
    /\ pc \in {"deleted", "shutdown"} => ~AllSaved

\* What is in force while the update knows of nothing that waits for a restart.
InForce ==
    /\ pc \in FromMove /\ stopped => power = "stopped"
    /\ pc \in {"read", "reboot"} \cup FromHa => ~stopped
    /\ pc \in {"pending", "grow"} /\ power = "running" =>
          \A i \in want \cap NewDisks \cap cold : current[i] = "old" => active[i] = "old"
    /\ pc \in {"grow", "pool", "power"} /\ ~stopped /\ ~rebootRequired => active = saved
    /\ pc \in FromHa => active = saved
    /\ pc = "reboot" => rebootRequired /\ ~rebootIfNeeded

\* What the first call knows more: nothing runs behind its back.
FirstCall ==
    ~retried /\ pc # "error" =>
        /\ late = {}
        /\ power = IF stopped THEN "stopped" ELSE power0
        /\ stopped => power0 = "running"
        /\ pc \in {"read", "move", "resize", "tpm", "delete"} =>
              \A i \in Recreates : saved[i] = "old"
        /\ pc \in {"reread", "put"} => \A i \in want \cap Recreates : active[i] = saved[i]
        /\ pc \in {"grow", "pool", "power", "reboot"} /\ rebootRequired => HasPendingChanges

IInv ==
    /\ TypeOK /\ ServerRight /\ LateRight
    /\ TodoRight /\ SnapshotRight /\ Progress /\ InForce /\ FirstCall

-----------------------------------------------------------------------------
(* The server.                                                             *)

\* The calls the update makes, each with items of its class.
Fit(op) ==
    /\ op.kind \in PowerOps \cup DiskOps \cup {"delete", "put", "pool", "ha"}
    /\ op.kind \in PowerOps => op.items = {}
    /\ op.kind \in {"start", "reboot"} => AllSaved
    /\ op.items \subseteq want
    /\ op.kind \in DiskOps =>
          /\ op.items \subseteq Moves \cup Resizes \cup TpmMoves \cup NewDisks
          /\ \A i \in op.items \cap NewDisks : saved[i] # "old"
    /\ op.kind = "delete" =>
          op.items \subseteq Recreates /\ \A i \in op.items : saved[i] = "old"
    /\ op.kind = "put" =>
          /\ op.items \subseteq Options \cup Recreates \cup NewDisks
          /\ \A i \in op.items \cap NewDisks : saved[i] = "old"
    /\ op.kind = "pool" => op.items = {Pool}
    /\ op.kind = "ha" => op.items = {Ha}

\* What such a call does to the server.
CarryDone(op) ==
    /\ power' \in Powers /\ active' \in [Items -> Values] /\ saved' \in [Items -> Values]
    /\ \A i \in Items : saved'[i] = IF i \in op.items THEN Target(op, i) ELSE saved[i]
    /\ \A i \in Items : saved[i] = "new" => saved'[i] = "new"
    /\ \A i \in NewDisks : saved[i] # "old" => saved'[i] # "old"
    /\ op.kind \in PowerOps =>
          /\ power' = IF op.kind = "shutdown" THEN "stopped" ELSE "running"
          /\ active' = saved /\ saved' = saved
    /\ op.kind \notin PowerOps =>
          /\ power' = power
          /\ \A i \in Items \ op.items : active'[i] = active[i]
          /\ power = "running" => \A i \in cold : active'[i] = active[i]
          /\ active = saved
             /\ (\A i \in op.items : saved[i] = Target(op, i) \/ (power = "running" => i \notin cold))
             => active' = saved'
    /\ ServerRight'

\* A call that fits the update does this, whatever the server's state.
LEMMA CarryOutcome ==
  ASSUME TypeOK, ServerRight, NEW op, Fit(op), Carry(op), UNCHANGED input
  PROVE  CarryDone(op)
<1> USE DEF input
<1>1. /\ active \in [Items -> Values] /\ saved \in [Items -> Values] /\ power \in Powers
      /\ op.items \subseteq Items /\ op.items \subseteq want /\ want \subseteq Items
      /\ cold \subseteq Items /\ cold' = cold /\ want' = want
  BY DEF TypeOK, Fit
<1>2. CASE op.kind \in PowerOps
  <2>1. /\ power' = IF op.kind = "shutdown" THEN "stopped" ELSE "running"
        /\ active' = saved /\ saved' = saved /\ op.items = {}
    BY <1>2 DEF Carry, Fit
  <2>2. ServerRight'
    BY <1>1, <2>1 DEF ServerRight, Valued
  <2>3. power' \in Powers
    BY <2>1 DEF Powers
  <2>4. QED BY <1>1, <1>2, <2>1, <2>2, <2>3, QemuUpdateAssumption DEF CarryDone, Items
<1>3. CASE op.kind \notin PowerOps
  <2>1. /\ saved' = [i \in Items |-> IF i \in op.items THEN Target(op, i) ELSE saved[i]]
        /\ active' = [i \in Items |->
                        IF i \in op.items /\ (power = "running" => i \notin cold)
                        THEN Target(op, i) ELSE active[i]]
        /\ power' = power
    BY <1>3 DEF Carry
  <2>2. \A i \in Items : Target(op, i) \in Values
    BY DEF Target, Values
  <2>3. active' \in [Items -> Values] /\ saved' \in [Items -> Values]
    BY <1>1, <2>1, <2>2
  <2>4. /\ \A i \in op.items \cap Recreates :
              Target(op, i) = IF op.kind = "delete" THEN "gone" ELSE "new"
        /\ \A i \in op.items \cap NewDisks :
              Target(op, i) = IF op.kind = "put" THEN "small" ELSE "new"
        /\ \A i \in op.items \ (Recreates \cup NewDisks) : Target(op, i) = "new"
    BY <1>3, QemuUpdateAssumption DEF Target, Fit, DiskOps, PowerOps
  <2>5. \A i \in Items : saved[i] = "new" => saved'[i] = "new"
    BY <1>1, <1>3, <2>1, <2>4 DEF Fit, DiskOps, PowerOps
  <2>6. \A i \in NewDisks : saved[i] # "old" => saved'[i] # "old"
    BY <1>1, <1>3, <2>1, <2>4 DEF Fit, Items
  <2>7. ServerRight'
    <3>1. Valued(saved')
      <4>1. \A i \in Moves \cup Resizes \cup TpmMoves \cup Options \cup {Pool, Ha} :
               saved'[i] \in {"old", "new"}
        BY <2>1, <2>4, QemuUpdateAssumption DEF ServerRight, Valued, Items
      <4>2. \A i \in Recreates : saved'[i] \in {"old", "gone", "new"}
        BY <2>1, <2>4 DEF ServerRight, Valued, Items
      <4>3. \A i \in NewDisks : saved'[i] \in {"old", "small", "new"}
        BY <2>1, <2>4 DEF ServerRight, Valued, Items
      <4>4. QED BY <4>1, <4>2, <4>3 DEF Valued
    <3>2. power' = "stopped" => active' = saved'
      BY <1>1, <2>1 DEF ServerRight
    <3>3. \A i \in Items \ (cold \cup {Foreign}) : active'[i] = saved'[i]
      BY <1>1, <2>1 DEF ServerRight
    <3>4. \A i \in NewDisks : saved'[i] = "old" => active'[i] = "old"
      BY <1>1, <2>1, <2>4 DEF ServerRight, Items
    <3>5. QED BY <1>1, <3>1, <3>2, <3>3, <3>4 DEF ServerRight, Valued
  <2>8. active = saved
        /\ (\A i \in op.items : saved[i] = Target(op, i) \/ (power = "running" => i \notin cold))
        => active' = saved'
    BY <1>1, <2>1
  <2>9. /\ \A i \in Items \ op.items : active'[i] = active[i]
        /\ power = "running" => \A i \in cold : active'[i] = active[i]
    BY <1>1, <2>1
  <2>10. QED BY <1>1, <1>3, <2>1, <2>3, <2>5, <2>6, <2>7, <2>8, <2>9 DEF CarryDone
<1>4. QED BY <1>2, <1>3

-----------------------------------------------------------------------------
(* Steps that fail.                                                        *)

\* What is known of the server when the update has returned an error: nothing
\* but that it is in order, and what the tasks that still run may do.
FailedRight ==
    /\ TypeOK /\ ServerRight
    /\ \A l \in late :
          l.kind \in DiskOps =>
             \A i \in l.items :
                /\ i \in want \cap (Moves \cup Resizes \cup TpmMoves \cup NewDisks)
                /\ i \in NewDisks => saved[i] # "old"
    /\ \A l \in late : l.kind \in {"start", "reboot"} => AllSaved

\* After an error the invariant asks for nothing more.
LEMMA FailedIsEnough ==
  ASSUME FailedRight', pc' = "error"
  PROVE  IInv'
BY DEF FailedRight, IInv, LateRight, TodoRight, SnapshotRight, Progress, InForce, FirstCall,
       FromHa, FromPower, FromPool, FromGrow, FromPending, FromDeleted, FromDelete, FromTpm,
       FromResize, FromMove, BeforePending

\* It holds at every place of the update, so that any step may fail.
LEMMA InvIsFailedRight ==
  ASSUME IInv
  PROVE  FailedRight
BY DEF FailedRight, IInv, LateRight

\* A call that fails leaves the server in order, and so does one that fails
\* before it reaches the server.
LEMMA FailedCall ==
  ASSUME FailedRight, NEW op, Fit(op), pc' = "error", UNCHANGED input,
         /\ {rebootIfNeeded, stopped, rebootRequired, retried}' \subseteq BOOLEAN
         /\ todo' \subseteq Items /\ current' \in [Items -> Values] /\ power0' \in Powers
         /\ faults' \in 0..MaxFaults,
         \/ UNCHANGED server
         \/ Carry(op) /\ UNCHANGED late
         \/ op \in Tasks /\ late' = late \cup {op} /\ UNCHANGED <<power, active, saved>>
  PROVE  FailedRight'
<1> USE DEF server, input
<1>1. /\ cold' = cold /\ want' = want
      /\ TypeOK /\ ServerRight /\ want \subseteq Items
  BY DEF FailedRight, TypeOK
<1>2. /\ power' \in Powers /\ active' \in [Items -> Values] /\ saved' \in [Items -> Values]
      /\ \A i \in Items : saved[i] = "new" => saved'[i] = "new"
      /\ \A i \in NewDisks : saved[i] # "old" => saved'[i] # "old"
      /\ ServerRight'
  <2>1. CASE Carry(op)
    BY <1>1, <2>1, CarryOutcome DEF CarryDone
  <2>2. CASE UNCHANGED <<power, active, saved>>
    BY <1>1, <2>2 DEF TypeOK, ServerRight, Valued
  <2>3. QED BY <2>1, <2>2
<1>3. late' \subseteq late \cup {op} /\ late' \subseteq Tasks
  BY DEF FailedRight, TypeOK
<1>4. TypeOK'
  BY <1>1, <1>2, <1>3 DEF TypeOK, Returned
<1>5. AllSaved => AllSaved'
  BY <1>1, <1>2 DEF AllSaved
<1>6. ASSUME NEW l \in late', l.kind \in DiskOps, NEW i \in l.items
      PROVE  /\ i \in want \cap (Moves \cup Resizes \cup TpmMoves \cup NewDisks)
             /\ i \in NewDisks => saved'[i] # "old"
  <2>1. CASE l \in late
    BY <1>2, <1>6, <2>1 DEF FailedRight
  <2>2. CASE l = op
    BY <1>2, <1>6, <2>2 DEF Fit
  <2>3. QED BY <1>3, <2>1, <2>2
<1>7. ASSUME NEW l \in late', l.kind \in {"start", "reboot"}
      PROVE  AllSaved'
  BY <1>3, <1>5, <1>7 DEF FailedRight, Fit
<1>8. QED BY <1>1, <1>2, <1>4, <1>6, <1>7 DEF FailedRight

\* A call succeeds, or it fails and leaves what FailedCall is about.
CallDone(op, next, onError) ==
    /\ faults' \in 0..MaxFaults /\ faults' >= faults
    /\ \/ Accepts(op) /\ CarryDone(op) /\ Carry(op) /\ pc' = next /\ UNCHANGED <<late, faults>>
       \/ /\ pc' = onError
          /\ ~Accepts(op) \/ faults' > 0
          /\ \/ UNCHANGED server
             \/ Carry(op) /\ UNCHANGED late
             \/ op \in Tasks /\ late' = late \cup {op} /\ UNCHANGED <<power, active, saved>>

\* Every outcome of a call is one of those.
LEMMA CallOutcome ==
  ASSUME TypeOK, ServerRight, NEW op, Fit(op), NEW next, NEW onError,
         Request(op, next, onError), UNCHANGED input
  PROVE  CallDone(op, next, onError)
<1>1. \/ Accepts(op) /\ Carry(op) /\ pc' = next /\ UNCHANGED <<late, faults>>
      \/ ~Accepts(op) /\ pc' = onError /\ UNCHANGED <<server, faults>>
      \/ /\ faults < MaxFaults /\ faults' = faults + 1 /\ pc' = onError
         /\ \/ UNCHANGED server
            \/ Carry(op) /\ UNCHANGED late
            \/ op \in Tasks /\ late' = late \cup {op} /\ UNCHANGED <<power, active, saved>>
  BY DEF Request, CanFail
<1>2. Carry(op) => CarryDone(op)
  BY CarryOutcome
<1>3. MaxFaults \in Nat /\ faults \in 0..MaxFaults
  BY QemuUpdateAssumption DEF TypeOK
<1>4. CASE faults' = faults /\ faults' \in 0..MaxFaults
  BY <1>1, <1>2, <1>3, <1>4 DEF CallDone
<1>5. CASE faults' = faults + 1 /\ faults < MaxFaults
  <2>1. faults' \in 0..MaxFaults /\ faults' >= faults /\ faults' > 0
    BY <1>3, <1>5
  <2>2. QED BY <1>1, <1>2, <2>1 DEF CallDone
<1>6. QED BY <1>1, <1>3, <1>4, <1>5

\* When an update returns an error the invariant is that the server is in order.
LEMMA ErrorStep ==
  ASSUME IInv, NEW op, Fit(op), UNCHANGED input, pc' = "error",
         /\ {rebootIfNeeded, stopped, rebootRequired, retried}' \subseteq BOOLEAN
         /\ todo' \subseteq Items /\ current' \in [Items -> Values] /\ power0' \in Powers,
         \E next : next # "error" /\ CallDone(op, next, "error")
  PROVE  IInv'
<1>1. FailedRight'
  BY InvIsFailedRight, FailedCall DEF CallDone
<1>2. QED BY <1>1, FailedIsEnough

\* So it is when nothing was sent at all.
LEMMA ErrorReturn ==
  ASSUME IInv, UNCHANGED <<server, input>>, pc' = "error",
         /\ {rebootIfNeeded, stopped, rebootRequired, retried}' \subseteq BOOLEAN
         /\ todo' \subseteq Items /\ current' \in [Items -> Values] /\ power0' \in Powers
         /\ faults' \in 0..MaxFaults
  PROVE  IInv'
<1>1. FailedRight'
  BY InvIsFailedRight
     DEF server, input, FailedRight, TypeOK, ServerRight, Valued, AllSaved, Returned
<1>2. QED BY <1>1, FailedIsEnough

\* A read that fails leaves the server alone.
LEMMA ReadFailsStep ==
  ASSUME IInv, ReadFails
  PROVE  IInv'
<1>1. TypeOK /\ MaxFaults \in Nat
  BY QemuUpdateAssumption DEF IInv
<1>2. QED BY <1>1, ErrorReturn DEF ReadFails, CanFail, TypeOK, input

\* A task whose caller gave it up does no harm when it ends: what it does was
\* to be done, and has been if the update is past it.
LEMMA LateTaskStep ==
  ASSUME IInv, LateTask
  PROVE  IInv'
<1> USE DEF input
<1>1. /\ UNCHANGED input
      /\ UNCHANGED <<pc, current, todo, stopped, rebootRequired, power0, retried, faults>>
  BY DEF LateTask
<1>2. PICK op \in late :
         late' = late \ {op} /\ (Carry(op) \/ UNCHANGED <<power, active, saved>>)
  BY DEF LateTask
<1>3. TypeOK /\ ServerRight /\ LateRight /\ want \subseteq Items
  BY DEF IInv, TypeOK
<1>4. CASE UNCHANGED <<power, active, saved>>
  BY <1>1, <1>2, <1>4
     DEF IInv, TypeOK, ServerRight, Valued, LateRight, AllSaved, TodoRight, SnapshotRight,
         Progress, InForce, FirstCall, HasPendingChanges
<1>5. CASE Carry(op)
  <2>1. /\ op.kind \in PowerOps => op.items = {}
        /\ op.kind \in PowerOps \cup DiskOps
    BY <1>2, <1>3 DEF TypeOK, Tasks, PowerOps, DiskOps
  <2>2. Fit(op)
    BY <1>2, <1>3, <2>1 DEF LateRight, Fit, PowerOps, DiskOps
  <2>3. CarryDone(op)
    BY <1>1, <1>3, <1>5, <2>2, CarryOutcome
  <2>4. /\ TypeOK' /\ ServerRight'
        /\ \A i \in Items : saved[i] = "new" => saved'[i] = "new"
        /\ \A i \in NewDisks : saved[i] # "old" => saved'[i] # "old"
    BY <1>1, <1>2, <1>3, <2>3 DEF CarryDone, TypeOK
  <2>5. pc \in FromDelete => saved' = saved
    <3>1. CASE op.kind \in PowerOps
      BY <2>3, <3>1 DEF CarryDone
    <3>2. CASE op.kind \in DiskOps /\ pc \in FromDelete
      <4>1. \A i \in op.items : saved[i] = "new"
        BY <1>2, <1>3, <3>2 DEF LateRight
      <4>2. \A i \in Items : saved'[i] = saved[i]
        BY <2>3, <2>4, <4>1 DEF CarryDone
      <4>3. QED BY <1>3, <2>4, <4>2 DEF TypeOK
    <3>3. QED BY <2>1, <3>1, <3>2
  <2>6. AllSaved => AllSaved'
    BY <1>1, <1>3, <2>4 DEF AllSaved
  <2>7. LateRight'
    BY <1>1, <1>2, <1>3, <2>4, <2>6 DEF LateRight, Items
  <2>8. TodoRight'
    BY <1>1 DEF IInv, TodoRight
  <2>9. \A i \in Recreates \cup NewDisks : saved[i] = "old" \/ i \in Recreates => saved'[i] = saved[i]
    <3>1. \A i \in op.items : i \notin Recreates /\ (i \in NewDisks => saved[i] # "old")
      BY <2>1, <2>2, QemuUpdateAssumption DEF Fit
    <3>2. QED BY <2>3, <3>1 DEF CarryDone, Items
  <2>10. SnapshotRight'
    <3>1. UNCHANGED <<pc, current>> /\ SnapshotRight
      BY <1>1 DEF IInv
    <3>2. QED BY <2>4, <2>9, <3>1 DEF SnapshotRight, Valued, Items
  <2>11. Progress'
    <3>1. Progress /\ UNCHANGED <<pc, todo, want, current, faults>>
      BY <1>1 DEF IInv
    <3>2. FromDelete \subseteq FromTpm /\ FromTpm \subseteq FromResize
      BY DEF FromTpm, FromResize
    <3>3. CASE pc \in FromDelete
      BY <2>5, <3>1, <3>3 DEF Progress, AllSaved
    <3>4. CASE pc \notin FromDelete
      BY <1>3, <2>4, <3>1, <3>4
         DEF Progress, FromDelete, FromDeleted, FromPending, FromGrow, FromPool, FromPower, FromHa,
             Items
    <3>5. QED BY <3>3, <3>4
  <2>12. InForce'
    <3>1. InForce /\ UNCHANGED <<pc, stopped, rebootRequired, rebootIfNeeded, current, want, cold>>
      BY <1>1 DEF IInv
    <3>2. pc \in FromMove /\ stopped => power' = "stopped"
      BY <1>2, <1>3, <2>1, <2>3, <3>1
         DEF InForce, CarryDone, LateRight, PowerOps, DiskOps, FromMove, FromResize, FromTpm,
             FromDelete, FromDeleted, FromPending, FromGrow, FromPool, FromPower, FromHa
    <3>3. pc \in {"pending", "grow"} /\ power' = "running" =>
             \A i \in want \cap NewDisks \cap cold : current[i] = "old" => active'[i] = "old"
      <4>1. CASE op.kind \in PowerOps
        BY <1>2, <1>3, <2>3, <4>1
           DEF CarryDone, LateRight, PowerOps, FromMove, FromResize, FromTpm,
               FromDelete, FromDeleted, FromPending, FromGrow
      <4>2. CASE op.kind \in DiskOps
        BY <2>3, <3>1, <4>2 DEF InForce, CarryDone, PowerOps, DiskOps
      <4>3. QED BY <2>1, <4>1, <4>2
    <3>4. active = saved /\ pc \in FromDelete => active' = saved'
      <4>1. CASE op.kind \in PowerOps
        BY <2>3, <4>1 DEF CarryDone
      <4>2. CASE op.kind \in DiskOps /\ pc \in FromDelete
        <5>1. \A i \in op.items : saved[i] = Target(op, i)
          BY <1>2, <1>3, <2>2, <4>2 DEF LateRight, Target, DiskOps
        <5>2. QED BY <2>3, <4>2, <5>1 DEF CarryDone, PowerOps, DiskOps
      <4>3. QED BY <2>1, <4>1, <4>2
    <3>5. {"grow", "pool", "power"} \cup FromHa \subseteq FromDelete
      BY DEF FromDelete, FromDeleted, FromPending, FromGrow, FromPool, FromPower
    <3>6. QED BY <3>1, <3>2, <3>3, <3>4, <3>5 DEF InForce
  <2>13. FirstCall'
    BY <1>1, <1>2 DEF IInv, FirstCall
  <2>14. QED BY <2>4, <2>7, <2>8, <2>10, <2>11, <2>12, <2>13 DEF IInv
<1>6. QED BY <1>2, <1>4, <1>5

-----------------------------------------------------------------------------
(* The loops.                                                              *)

\* Where a step is in the order of the update.
LEMMA Order ==
  /\ FromHa = {"ha", "ok"}
  /\ FromPower = {"power", "reboot", "ha", "ok"}
  /\ FromPool = {"pool", "power", "reboot", "ha", "ok"}
  /\ FromGrow = {"grow", "pool", "power", "reboot", "ha", "ok"}
  /\ FromPending = {"pending", "grow", "pool", "power", "reboot", "ha", "ok"}
  /\ FromDeleted = {"deleted", "shutdown", "reread", "put"} \cup FromPending
  /\ FromDelete = {"delete", "deleted", "shutdown", "reread", "put"} \cup FromPending
  /\ FromTpm = {"tpm", "delete", "deleted", "shutdown", "reread", "put"} \cup FromPending
  /\ FromResize = {"resize"} \cup FromTpm
  /\ FromMove = {"move", "resize"} \cup FromTpm
BY DEF FromHa, FromPower, FromPool, FromGrow, FromPending, FromDeleted, FromDelete, FromTpm,
       FromResize, FromMove

\* One turn of a loop: a disk is moved or resized, or the update has failed.
LEMMA Turn ==
  ASSUME IInv, NEW i \in todo, NEW kind \in DiskOps, NEW step \in {"move", "resize", "tpm", "grow"},
         pc = step, todo' = todo \ {i}, Request(Op(kind, {i}), step, "error"),
         UNCHANGED <<input, current, stopped, rebootRequired, power0, retried>>
  PROVE  IInv'
<1> USE DEF input
<1> DEFINE op == Op(kind, {i})
<1>1. /\ TypeOK /\ ServerRight /\ LateRight /\ TodoRight /\ SnapshotRight
      /\ Progress /\ InForce /\ FirstCall /\ want \subseteq Items
  BY DEF IInv, TypeOK
<1>2. /\ op.kind = kind /\ op.items = {i}
      /\ op.kind \notin PowerOps
  BY DEF Op, DiskOps, PowerOps
<1>3. /\ i \in want /\ i \in Items /\ i \in Moves \cup Resizes \cup TpmMoves \cup NewDisks
      /\ i \in NewDisks => saved[i] # "old" /\ pc \in {"resize", "grow"} /\ i \notin Moves \cup TpmMoves
      /\ i \in NewDisks /\ pc = "resize" => current[i] = "small"
      /\ i \in NewDisks /\ pc = "grow" => current[i] = "old"
      /\ pc = "grow" => i \in NewDisks
  BY <1>1, Order, QemuUpdateAssumption DEF TodoRight, SnapshotRight, Progress
<1>4. Fit(op)
  BY <1>2, <1>3 DEF Fit, DiskOps, PowerOps
<1>5. CallDone(op, step, "error")
  BY <1>1, <1>4, CallOutcome
<1>6. CASE pc' = "error"
  <2>1. /\ {rebootIfNeeded, stopped, rebootRequired, retried}' \subseteq BOOLEAN
        /\ todo' \subseteq Items /\ current' \in [Items -> Values] /\ power0' \in Powers
    BY <1>1 DEF TypeOK
  <2>2. QED BY <1>4, <1>5, <1>6, <2>1, ErrorStep
<1>7. CASE pc' # "error"
  <2>1. /\ CarryDone(op) /\ pc' = pc /\ late' = late /\ faults' = faults
    BY <1>5, <1>7 DEF CallDone
  <2>2. /\ saved'[i] = "new"
        /\ \A j \in Items \ {i} : saved'[j] = saved[j] /\ active'[j] = active[j]
        /\ \A j \in Items : saved[j] = "new" => saved'[j] = "new"
        /\ power' = power
        /\ power = "running" => \A j \in cold : active'[j] = active[j]
        /\ ServerRight'
    BY <1>2, <1>3, <2>1 DEF CarryDone, Target, DiskOps
  <2>3. TypeOK'
    BY <1>1, <1>5, <1>7, <2>1 DEF TypeOK, CarryDone
  <2>4. LateRight'
    <3>1. AllSaved => AllSaved'
      BY <1>1, <2>2 DEF AllSaved
    <3>2. \A j \in NewDisks : saved[j] # "old" => saved'[j] # "old"
      BY <2>1 DEF CarryDone
    <3>3. QED BY <1>1, <2>1, <2>2, <3>1, <3>2 DEF LateRight, Items
  <2>5. TodoRight'
    BY <1>1, <2>1 DEF TodoRight
  <2>6. SnapshotRight'
    <3>1. \A j \in Recreates : saved'[j] = saved[j]
      BY <1>3, <2>2, QemuUpdateAssumption DEF Items
    <3>2. \A j \in NewDisks :
             /\ saved[j] # "old" => saved'[j] # "old"
             /\ pc = "resize" /\ current[j] = "old" => saved'[j] = saved[j]
             /\ pc \in {"move", "tpm"} => saved'[j] = saved[j]
      BY <1>3, <2>1, <2>2 DEF CarryDone, Items
    <3>3. CASE pc \in FromMove
      <4>1. Valued(current') /\ pc' = pc /\ current' = current
        BY <1>1, <2>1, <3>3 DEF SnapshotRight
      <4>2. \A j \in Items \ {Foreign} : current[j] = "new" => saved'[j] = "new"
        BY <1>1, <2>2, <3>3 DEF SnapshotRight
      <4>3. ASSUME NEW j \in NewDisks, current[j] = "small"
            PROVE  saved'[j] # "old"
        <5>1. saved[j] # "old"
          BY <1>1, <3>3, <4>3 DEF SnapshotRight
        <5>2. QED BY <3>2, <5>1
      <4>4. ASSUME pc \in BeforePending
            PROVE  /\ \A j \in Recreates : current[j] = saved'[j]
                   /\ \A j \in NewDisks : current[j] = "old" => saved'[j] = "old"
        <5>1. /\ \A j \in Recreates : current[j] = saved[j]
              /\ \A j \in NewDisks : current[j] = "old" => saved[j] = "old"
          BY <1>1, <3>3, <4>4 DEF SnapshotRight
        <5>2. pc \in {"move", "resize", "tpm"}
          BY <4>4 DEF BeforePending
        <5>3. QED BY <3>1, <3>2, <5>1, <5>2
      <4>5. QED BY <4>1, <4>2, <4>3, <4>4 DEF SnapshotRight, Valued
    <3>4. QED BY <2>1, <3>3 DEF SnapshotRight
  <2>7. Progress'
    BY <1>1, <1>3, <2>1, <2>2, Order DEF Progress
  <2>8. InForce'
    <3>1. pc = "grow" /\ power = "running" /\ i \in cold => active[i] # saved[i]
      BY <1>1, <1>3 DEF InForce, SnapshotRight
    <3>2. pc = "grow" /\ active = saved => active' = saved'
      BY <1>2, <2>1, <3>1 DEF CarryDone
    <3>3. QED BY <1>1, <2>1, <2>2, <3>2, Order DEF InForce
  <2>9. FirstCall'
    <3>1. pc \in {"move", "resize", "tpm"} => \A j \in Recreates : saved'[j] = saved[j]
      BY <1>3, <2>2, QemuUpdateAssumption DEF Items
    <3>2. pc = "grow" /\ HasPendingChanges => HasPendingChanges'
      <4>1. SUFFICES ASSUME pc = "grow", NEW j \in Items, saved[j] # active[j]
                     PROVE  saved'[j] # active'[j]
        BY DEF HasPendingChanges
      <4>2. CASE j # i
        BY <2>2, <4>1, <4>2
      <4>3. CASE j = i
        <5>1. power = "running" /\ i \in cold
          BY <1>1, <1>3, <4>1, <4>3 DEF ServerRight, TypeOK, Powers
        <5>2. active'[i] = "old"
          BY <1>1, <1>3, <2>2, <4>1, <5>1 DEF InForce
        <5>3. QED BY <2>2, <4>3, <5>2
      <4>4. QED BY <4>2, <4>3
    <3>3. QED BY <1>1, <2>1, <2>2, <3>1, <3>2 DEF FirstCall
  <2>10. QED BY <2>2, <2>3, <2>4, <2>5, <2>6, <2>7, <2>8, <2>9 DEF IInv
<1>8. QED BY <1>6, <1>7

\* What stays when a step sends nothing.
LEMMA NothingSent ==
  ASSUME IInv, UNCHANGED <<server, input, power0, retried, faults>>,
         pc' \in Steps \cup Returned, todo' \subseteq Items, current' \in [Items -> Values],
         {stopped', rebootRequired'} \subseteq BOOLEAN,
         pc # "error", stopped' => stopped,
         pc' \in FromMove => \/ current' = saved
                             \/ pc \in FromMove /\ current' = current,
         pc' \in FromDelete => \A l \in late : l.kind \in DiskOps =>
                                  \A i \in l.items : saved[i] = "new"
  PROVE  TypeOK' /\ ServerRight' /\ LateRight'
<1> USE DEF input, server
<1>1. TypeOK /\ ServerRight /\ LateRight
  BY DEF IInv
<1>2. TypeOK'
  BY <1>1 DEF TypeOK
<1>3. ServerRight'
  BY <1>1 DEF ServerRight, Valued
<1>4. LateRight'
  <2>1. AllSaved => AllSaved' /\ \A i \in want \cap NewDisks : saved[i] = "new"
    BY QemuUpdateAssumption DEF AllSaved
  <2>2. QED BY <1>1, <2>1 DEF LateRight
<1>5. QED BY <1>2, <1>3, <1>4

\* The snapshot is taken.
LEMMA ReadStep ==
  ASSUME IInv, Read
  PROVE  IInv'
<1> USE DEF input, server
<1>1. CASE ReadFails
  BY <1>1, ReadFailsStep
<1>2. CASE ~ReadFails
  <2>1. /\ pc = "read" /\ pc' = "move" /\ current' = saved
        /\ todo' = {i \in want \cap Moves : saved[i] = "old"}
        /\ UNCHANGED <<server, input, stopped, rebootRequired, power0, retried, faults>>
    BY <1>2 DEF Read, Lacking
  <2>2. /\ TypeOK /\ ServerRight /\ InForce /\ FirstCall
    BY DEF IInv
  <2>3. TypeOK' /\ ServerRight' /\ LateRight'
    BY <2>1, <2>2, Order, NothingSent DEF TypeOK, Steps
  <2>4. TodoRight'
    BY <2>1 DEF TodoRight
  <2>5. SnapshotRight'
    BY <2>1, <2>2 DEF SnapshotRight, ServerRight, Valued
  <2>6. Progress'
    BY <2>1, <2>2, Order DEF Progress, ServerRight, Valued
  <2>7. InForce' /\ FirstCall'
    BY <2>1, <2>2, Order DEF InForce, FirstCall
  <2>8. QED BY <2>3, <2>4, <2>5, <2>6, <2>7 DEF IInv
<1>3. QED BY <1>1, <1>2

\* A loop ends: all of its items are as wanted, and the next one gets its own.
LEMMA LoopEnds ==
  ASSUME IInv, todo = {},
         UNCHANGED <<server, faults, input, current, stopped, rebootRequired, power0, retried>>,
         \/ pc = "move" /\ pc' = "resize" /\ todo' = ToResize(current)
         \/ pc = "resize" /\ pc' = "tpm" /\ todo' = Lacking(TpmMoves, current)
         \/ pc = "tpm" /\ pc' = "delete" /\ todo' = {}
         \/ pc = "grow" /\ pc' = "pool" /\ todo' = {}
  PROVE  IInv'
<1> USE DEF input, server
<1>1. /\ TypeOK /\ ServerRight /\ LateRight /\ SnapshotRight /\ Progress /\ InForce /\ FirstCall
      /\ pc \in FromMove /\ want \subseteq Items
  BY Order DEF IInv, TypeOK
<1>2. todo' \subseteq want
  BY DEF ToResize, Lacking
<1>3. pc = "tpm" => \A l \in late : l.kind \in DiskOps => \A i \in l.items : saved[i] = "new"
  <2>1. SUFFICES ASSUME pc = "tpm", NEW l \in late, l.kind \in DiskOps, NEW i \in l.items
                 PROVE  saved[i] = "new"
    OBVIOUS
  <2>2. CASE i \in want \cap NewDisks /\ saved[i] # "old"
    <3>1. current[i] \in {"old", "small", "new"} /\ i \in Items \ {Foreign}
      BY <1>1, <2>2, QemuUpdateAssumption DEF SnapshotRight, Valued, Items
    <3>2. QED BY <1>1, <2>1, <2>2, <3>1, Order DEF SnapshotRight, Progress, BeforePending
  <2>3. CASE i \in want \cap (Moves \cup Resizes \cup TpmMoves)
    BY <1>1, <2>1, <2>3, Order DEF Progress
  <2>4. QED BY <1>1, <2>1, <2>2, <2>3 DEF LateRight
<1>4. TypeOK' /\ ServerRight' /\ LateRight'
  <2>1. pc' \in FromDelete =>
           \A l \in late : l.kind \in DiskOps => \A i \in l.items : saved[i] = "new"
    BY <1>1, <1>3, Order DEF LateRight
  <2>2. pc' \in Steps \cup Returned
    BY DEF Steps
  <2>3. QED BY <1>1, <1>2, <2>1, <2>2, NothingSent DEF TypeOK
<1>5. TodoRight'
  BY DEF TodoRight, ToResize, Lacking
<1>6. SnapshotRight'
  BY <1>1, Order DEF SnapshotRight, Valued, BeforePending
<1>7. Progress'
  <2>1. /\ \A i \in want \cap Resizes :
              pc = "move" => i \in todo' \/ saved[i] = "new"
        /\ \A i \in want \cap TpmMoves :
              pc = "resize" => i \in todo' \/ saved[i] = "new"
        /\ \A i \in want \cap NewDisks :
              pc = "move" /\ current[i] = "small" => i \in todo'
    BY <1>1, QemuUpdateAssumption
       DEF SnapshotRight, ServerRight, Valued, ToResize, Lacking
  <2>2. QED BY <1>1, <2>1, Order DEF Progress
<1>8. InForce'
  BY <1>1, Order DEF InForce
<1>9. FirstCall'
  BY <1>1 DEF FirstCall, HasPendingChanges
<1>10. QED BY <1>4, <1>5, <1>6, <1>7, <1>8, <1>9 DEF IInv

\* The four loops.
LEMMA LoopStep ==
  ASSUME IInv, Move \/ Resize \/ MoveTpm \/ Grow
  PROVE  IInv'
<1>1. ASSUME NEW step \in {"move", "resize", "tpm", "grow"}, NEW kind \in DiskOps,
             NEW next, NEW nextTodo, Loop(step, kind, next, nextTodo),
             \/ step = "move" /\ next = "resize" /\ nextTodo = ToResize(current)
             \/ step = "resize" /\ next = "tpm" /\ nextTodo = Lacking(TpmMoves, current)
             \/ step = "tpm" /\ next = "delete" /\ nextTodo = {}
             \/ step = "grow" /\ next = "pool" /\ nextTodo = {}
      PROVE  IInv'
  <2>1. CASE \E i \in todo : todo' = todo \ {i} /\ Request(Op(kind, {i}), step, "error")
    BY <1>1, <2>1, Turn DEF Loop
  <2>2. CASE todo = {} /\ pc' = next /\ todo' = nextTodo /\ UNCHANGED <<server, faults>>
    BY <1>1, <2>2, LoopEnds DEF Loop
  <2>3. QED BY <1>1, <2>1, <2>2 DEF Loop
<1>2. "move" \in DiskOps /\ "resize" \in DiskOps
  BY DEF DiskOps
<1>3. QED BY <1>1, <1>2 DEF Move, Resize, MoveTpm, Grow

-----------------------------------------------------------------------------
(* The rest of the update.                                                 *)

\* What stays when a call after the loops succeeds.
LEMMA CallKeeps ==
  ASSUME IInv, NEW op, CarryDone(op), UNCHANGED <<late, input, power0, retried, faults>>,
         pc' \in Steps \cup Returned, todo' \subseteq Items, current' \in [Items -> Values],
         {stopped', rebootRequired'} \subseteq BOOLEAN,
         pc \in FromDelete, AllSaved => (stopped' => stopped),
         \A i \in NewDisks : current'[i] = current[i]
  PROVE  /\ TypeOK' /\ ServerRight' /\ LateRight'
         /\ pc \in FromMove /\ want \subseteq Items /\ want' = want
<1> USE DEF input
<1>1. TypeOK /\ LateRight /\ want \subseteq Items /\ want' = want
  BY DEF IInv, TypeOK
<1>2. TypeOK' /\ ServerRight'
  BY <1>1 DEF TypeOK, CarryDone
<1>3. pc \in FromMove /\ pc # "error"
  BY Order
<1>4. LateRight'
  <2>1. AllSaved => AllSaved'
    BY <1>1 DEF AllSaved, CarryDone
  <2>2. \A i \in want : saved[i] = "new" => saved'[i] = "new"
    BY <1>1 DEF CarryDone
  <2>3. \A i \in NewDisks : saved[i] # "old" => saved'[i] # "old"
    BY DEF CarryDone
  <2>4. QED BY <1>1, <1>3, <2>1, <2>2, <2>3 DEF LateRight
<1>5. QED BY <1>1, <1>2, <1>3, <1>4

\* The devices to be created again are deleted, or there are none.
LEMMA DeleteStep ==
  ASSUME IInv, Delete
  PROVE  IInv'
<1> USE DEF input
<1> DEFINE gone == Lacking(Recreates, current)
           op == Op("delete", gone)
<1>1. /\ TypeOK /\ ServerRight /\ LateRight /\ TodoRight /\ SnapshotRight
      /\ Progress /\ InForce /\ FirstCall /\ want \subseteq Items
      /\ pc = "delete" /\ pc \in FromMove /\ pc \in FromDelete
  BY Order DEF IInv, TypeOK, Delete
<1>2. /\ gone = {i \in want \cap Recreates : saved[i] = "old"}
      /\ UNCHANGED <<input, todo, stopped, rebootRequired, power0, retried>>
  BY <1>1 DEF Delete, Lacking, SnapshotRight, BeforePending
<1> HIDE DEF gone
<1>3. CASE gone = {} /\ pc' = AfterDelete /\ UNCHANGED <<server, current, faults>>
  <2>1. pc' \in {"reread", "put"} /\ UNCHANGED server
    BY <1>3 DEF AfterDelete
  <2>2. TypeOK' /\ ServerRight' /\ LateRight'
    <3>1. \A l \in late : l.kind \in DiskOps => \A i \in l.items : saved[i] = "new"
      BY <1>1 DEF LateRight
    <3>2. pc' \in Steps \cup Returned
      BY <2>1 DEF Steps
    <3>3. QED BY <1>1, <1>2, <1>3, <3>1, <3>2, NothingSent DEF TypeOK
  <2>3. TodoRight' /\ InForce'
    BY <1>1, <1>2, <1>3, <2>1, Order DEF TodoRight, InForce, server
  <2>4. SnapshotRight'
    BY <1>1, <1>2, <1>3, <2>1, Order DEF SnapshotRight, Valued, BeforePending, server
  <2>5. Progress'
    BY <1>1, <1>2, <1>3, <2>1, Order DEF Progress, server
  <2>6. FirstCall'
    BY <1>1, <1>2, <1>3, <2>1 DEF FirstCall, server
  <2>7. QED BY <2>2, <2>3, <2>4, <2>5, <2>6 DEF IInv
<1>4. CASE /\ gone # {} /\ Request(op, "deleted", "error")
           /\ current' = [i \in Items |-> IF i \in gone THEN "gone" ELSE current[i]]
  <2>1. op.kind = "delete" /\ op.items = gone
    BY DEF Op
  <2>2. Fit(op)
    BY <1>2, <2>1 DEF Fit, PowerOps, DiskOps
  <2>3. CallDone(op, "deleted", "error")
    BY <1>1, <1>2, <1>4, <2>2, CallOutcome
  <2>4. current' \in [Items -> Values]
    BY <1>1, <1>4 DEF TypeOK, Values
  <2>5. CASE pc' = "error"
    BY <1>1, <1>2, <2>2, <2>3, <2>4, <2>5, ErrorStep DEF TypeOK
  <2>6. CASE pc' # "error"
    <3>1. /\ CarryDone(op) /\ pc' = "deleted" /\ late' = late /\ faults' = faults
      BY <2>3, <2>6 DEF CallDone
    <3>2. /\ TypeOK' /\ LateRight' /\ ServerRight'
      <4>1. \A i \in NewDisks : current'[i] = current[i]
        BY <1>2, <1>4, QemuUpdateAssumption DEF Items
      <4>2. QED BY <1>1, <1>2, <2>4, <3>1, <4>1, CallKeeps DEF TypeOK, Steps
    <3>3. /\ \A i \in gone : saved'[i] = "gone" /\ current'[i] = "gone"
          /\ \A i \in Items \ gone : saved'[i] = saved[i] /\ current'[i] = current[i]
          /\ gone \subseteq Items /\ gone \subseteq Recreates /\ power' = power
      BY <1>2, <1>4, <2>1, <3>1 DEF CarryDone, Target, PowerOps, Items
    <3>4. TodoRight' /\ InForce'
      BY <1>1, <1>2, <3>1, <3>3, Order DEF TodoRight, InForce
    <3>5. SnapshotRight'
      <4>1. Valued(current')
        BY <1>1, <3>3, QemuUpdateAssumption DEF SnapshotRight, Valued, Items
      <4>2. \A i \in NewDisks : i \in Items \ gone
        BY <3>3, QemuUpdateAssumption DEF Items
      <4>3. \A i \in Recreates : current'[i] = saved'[i]
        BY <1>1, <3>3 DEF SnapshotRight, BeforePending, Items
      <4>4. QED BY <1>1, <3>1, <3>3, <4>1, <4>2, <4>3 DEF SnapshotRight, Valued, BeforePending
    <3>6. Progress'
      <4>1. ~AllSaved'
        BY <1>2, <1>4, <3>3, QemuUpdateAssumption DEF AllSaved
      <4>2. \A i \in want \cap Recreates : saved'[i] # "old"
        BY <1>1, <1>2, <3>3
      <4>3. \A i \in Items \ Recreates : saved'[i] = saved[i] /\ current'[i] = current[i]
        BY <3>3
      <4>4. QED BY <1>1, <1>2, <3>1, <4>1, <4>2, <4>3, Order, QemuUpdateAssumption
               DEF Progress, Items
    <3>7. FirstCall'
      BY <1>1, <1>2, <3>1, <3>3 DEF FirstCall
    <3>8. QED BY <3>2, <3>4, <3>5, <3>6, <3>7 DEF IInv
  <2>7. QED BY <2>5, <2>6
<1>5. QED BY <1>3, <1>4 DEF Delete, gone

\* The deletion took effect, or the guest is shut down for it, or the update
\* is refused.
LEMMA CheckDeletedStep ==
  ASSUME IInv, CheckDeleted
  PROVE  IInv'
<1> USE DEF input, server
<1>1. CASE ReadFails
  BY <1>1, ReadFailsStep
<1>2. CASE ~ReadFails
  <2>1. /\ pc = "deleted" /\ rebootRequired' = HasPendingChanges
        /\ pc' \in {"reread", "put", "shutdown", "error"}
        /\ pc' \in {"reread", "put"} => ~HasPendingChanges
        /\ UNCHANGED <<server, input, current, todo, stopped, power0, retried, faults>>
    BY <1>2 DEF CheckDeleted, AfterDelete
  <2>2. /\ TypeOK /\ ServerRight /\ LateRight /\ TodoRight /\ SnapshotRight
        /\ Progress /\ InForce /\ FirstCall /\ want \subseteq Items
        /\ pc \in FromMove /\ pc \in FromDelete /\ HasPendingChanges \in BOOLEAN
    BY <2>1, Order DEF IInv, TypeOK, HasPendingChanges
  <2>3. CASE pc' = "error"
    BY <2>1, <2>2, <2>3, ErrorReturn DEF TypeOK
  <2>4. CASE pc' # "error"
    <3>1. TypeOK' /\ ServerRight' /\ LateRight'
      <4>1. \A l \in late : l.kind \in DiskOps => \A i \in l.items : saved[i] = "new"
        BY <2>2 DEF LateRight
      <4>2. pc' \in Steps \cup Returned
        BY <2>1, <2>4 DEF Steps
      <4>3. QED BY <2>1, <2>2, <4>1, <4>2, NothingSent DEF TypeOK
    <3>2. TodoRight' /\ InForce'
      BY <2>1, <2>2, <2>4, Order DEF TodoRight, InForce
    <3>3. SnapshotRight'
      BY <2>1, <2>2, <2>4, Order DEF SnapshotRight, Valued, BeforePending
    <3>4. Progress'
      BY <2>1, <2>2, <2>4, Order DEF Progress, AllSaved
    <3>5. FirstCall'
      BY <2>1, <2>2, <2>4 DEF FirstCall, HasPendingChanges
    <3>6. QED BY <3>1, <3>2, <3>3, <3>4, <3>5 DEF IInv
  <2>5. QED BY <2>3, <2>4
<1>3. QED BY <1>1, <1>2

\* The guest is shut down, which puts the deletion in force.
LEMMA ShutdownStep ==
  ASSUME IInv, Shutdown
  PROVE  IInv'
<1> USE DEF input
<1> DEFINE op == Op("shutdown", {})
<1>1. /\ TypeOK /\ ServerRight /\ LateRight /\ TodoRight /\ SnapshotRight
      /\ Progress /\ InForce /\ FirstCall /\ want \subseteq Items
      /\ pc = "shutdown" /\ pc \in FromMove /\ pc \in FromDelete /\ ~AllSaved
  BY Order DEF IInv, TypeOK, Shutdown, Progress
<1>2. /\ Request(op, AfterDelete, "error")
      /\ stopped' = (pc' # "error") /\ rebootRequired' = (pc' = "error")
      /\ UNCHANGED <<input, current, todo, power0, retried>>
  BY DEF Shutdown
<1>3. op.kind = "shutdown" /\ op.items = {} /\ op.kind \in PowerOps
  BY DEF Op, PowerOps
<1>4. Fit(op)
  BY <1>3 DEF Fit, PowerOps, DiskOps
<1>5. CallDone(op, AfterDelete, "error")
  BY <1>1, <1>2, <1>4, CallOutcome
<1>6. AfterDelete \in {"reread", "put"}
  BY DEF AfterDelete
<1>7. CASE pc' = "error"
  <2>1. stopped' \in BOOLEAN /\ rebootRequired' \in BOOLEAN
    BY <1>2
  <2>2. QED BY <1>1, <1>2, <1>4, <1>5, <1>6, <1>7, <2>1, ErrorStep DEF TypeOK
<1>8. CASE pc' # "error"
  <2>1. /\ CarryDone(op) /\ Accepts(op) /\ pc' = AfterDelete /\ late' = late /\ faults' = faults
        /\ stopped' = TRUE /\ rebootRequired' = FALSE
    BY <1>2, <1>5, <1>8 DEF CallDone
  <2>2. TypeOK' /\ LateRight' /\ ServerRight'
    BY <1>1, <1>2, <1>6, <2>1, CallKeeps DEF TypeOK, Steps
  <2>3. power' = "stopped" /\ active' = saved /\ saved' = saved /\ power = "running"
    BY <1>3, <2>1 DEF CarryDone, Accepts
  <2>4. TodoRight' /\ InForce'
    BY <1>1, <1>2, <1>6, <2>1, <2>3, Order DEF TodoRight, InForce
  <2>5. SnapshotRight'
    BY <1>1, <1>2, <1>6, <2>1, <2>3, Order DEF SnapshotRight, Valued, BeforePending
  <2>6. Progress'
    BY <1>1, <1>2, <1>6, <2>1, <2>3, Order DEF Progress
  <2>7. FirstCall'
    BY <1>1, <1>2, <1>6, <2>1, <2>3 DEF FirstCall
  <2>8. QED BY <2>2, <2>4, <2>5, <2>6, <2>7 DEF IInv
<1>9. QED BY <1>7, <1>8

\* The snapshot is taken again: nothing that the loops finished is small.
LEMMA RereadStep ==
  ASSUME IInv, Reread
  PROVE  IInv'
<1> USE DEF input, server
<1>1. CASE ReadFails
  BY <1>1, ReadFailsStep
<1>2. CASE ~ReadFails
  <2>1. /\ pc = "reread" /\ pc' = "put" /\ current' = saved
        /\ UNCHANGED <<server, input, todo, stopped, rebootRequired, power0, retried, faults>>
    BY <1>2 DEF Reread
  <2>2. /\ TypeOK /\ ServerRight /\ LateRight /\ TodoRight /\ SnapshotRight
        /\ Progress /\ InForce /\ FirstCall /\ pc \in FromMove /\ pc \in FromDelete
    BY <2>1, Order DEF IInv
  <2>3. TypeOK' /\ ServerRight' /\ LateRight'
    <3>1. \A l \in late : l.kind \in DiskOps => \A i \in l.items : saved[i] = "new"
      BY <2>2 DEF LateRight
    <3>2. QED BY <2>1, <2>2, <3>1, NothingSent DEF TypeOK, Steps
  <2>4. TodoRight' /\ InForce'
    BY <2>1, <2>2, Order DEF TodoRight, InForce
  <2>5. SnapshotRight'
    BY <2>1, <2>2 DEF SnapshotRight, ServerRight, Valued
  <2>6. Progress'
    <3>1. \A i \in want \cap NewDisks : saved[i] # "small"
      <4>1. \A i \in NewDisks : i \in Items \ {Foreign}
        BY QemuUpdateAssumption DEF Items
      <4>2. QED BY <2>1, <2>2, <4>1, Order DEF SnapshotRight, Progress, BeforePending, Valued
    <3>2. QED BY <2>1, <2>2, <3>1, Order DEF Progress
  <2>7. FirstCall'
    BY <2>1, <2>2 DEF FirstCall
  <2>8. QED BY <2>3, <2>4, <2>5, <2>6, <2>7 DEF IInv
<1>3. QED BY <1>1, <1>2

\* The PUT saves the options and creates what the snapshot lacks.
LEMMA PutStep ==
  ASSUME IInv, Put
  PROVE  IInv'
<1> USE DEF input
<1> DEFINE op == Op("put", PutItems)
<1>1. /\ TypeOK /\ ServerRight /\ LateRight /\ TodoRight /\ SnapshotRight
      /\ Progress /\ InForce /\ FirstCall /\ want \subseteq Items
      /\ pc = "put" /\ pc \in FromMove /\ pc \in FromDelete
  BY Order DEF IInv, TypeOK, Put
<1>2. /\ Request(op, "pending", "error") /\ rebootRequired' = FALSE
      /\ UNCHANGED <<input, current, todo, stopped, power0, retried>>
  BY DEF Put
<1>3. op.kind = "put" /\ op.items = PutItems
  BY DEF Op
<1>4. /\ \A i \in NewDisks : i \in PutItems <=> i \in want /\ current[i] = "old"
      /\ \A i \in Recreates : i \in PutItems <=> i \in want /\ current[i] = "gone"
      /\ \A i \in Options : i \in PutItems <=> i \in want
      /\ PutItems \subseteq want
      /\ PutItems \subseteq NewDisks \cup Recreates \cup Options
  BY QemuUpdateAssumption DEF PutItems, Lacking
<1>5. Fit(op)
  BY <1>1, <1>3, <1>4 DEF Fit, PowerOps, DiskOps, SnapshotRight, BeforePending
<1>6. CallDone(op, "pending", "error")
  BY <1>1, <1>2, <1>5, CallOutcome
<1>7. CASE pc' = "error"
  BY <1>1, <1>2, <1>5, <1>6, <1>7, ErrorStep DEF TypeOK
<1>8. CASE pc' # "error"
  <2>1. /\ CarryDone(op) /\ pc' = "pending" /\ late' = late /\ faults' = faults
    BY <1>6, <1>8 DEF CallDone
  <2>2. TypeOK' /\ LateRight' /\ ServerRight'
    BY <1>1, <1>2, <2>1, CallKeeps DEF TypeOK, Steps
  <2>3. /\ \A i \in Items : saved[i] = "new" => saved'[i] = "new"
        /\ \A i \in NewDisks : saved[i] # "old" => saved'[i] # "old"
        /\ power' = power
        /\ power = "running" => \A i \in cold : active'[i] = active[i]
    BY <1>3, <2>1 DEF CarryDone, PowerOps
  <2>4. /\ \A i \in PutItems \ NewDisks : saved'[i] = "new"
        /\ \A i \in PutItems \cap NewDisks : saved'[i] = "small"
    BY <1>1, <1>3, <1>4, <2>1 DEF CarryDone, Target
  <2>5. TodoRight'
    BY <2>1 DEF TodoRight
  <2>6. SnapshotRight'
    BY <1>1, <1>2, <2>1, <2>3, Order DEF SnapshotRight, Valued, BeforePending
  <2>7. Progress'
    <3>1. \A i \in want \cap Recreates : saved'[i] = "new"
      <4>1. SUFFICES ASSUME NEW i \in want \cap Recreates
                     PROVE  saved'[i] = "new"
        OBVIOUS
      <4>2. current[i] = saved[i] /\ saved[i] \in {"gone", "new"} /\ i \in Items /\ i \notin NewDisks
        BY <1>1, Order, QemuUpdateAssumption
           DEF SnapshotRight, BeforePending, Progress, ServerRight, Valued
      <4>3. QED BY <1>4, <2>3, <2>4, <4>2
    <3>2. \A i \in want \cap Options : saved'[i] = "new"
      BY <1>4, <2>4, QemuUpdateAssumption
    <3>3. \A i \in want \cap NewDisks : saved'[i] # "old"
      <4>1. SUFFICES ASSUME NEW i \in want \cap NewDisks
                     PROVE  saved'[i] # "old"
        OBVIOUS
      <4>2. current[i] \in {"old", "small", "new"} /\ i \in Items \ {Foreign}
        BY <1>1, QemuUpdateAssumption DEF SnapshotRight, Valued
      <4>3. current[i] # "old" => saved[i] # "old"
        BY <1>1, <4>2 DEF SnapshotRight
      <4>4. QED BY <1>4, <2>3, <2>4, <4>3
    <3>4. QED BY <1>1, <1>2, <2>1, <2>3, <3>1, <3>2, <3>3, Order DEF Progress
  <2>8. InForce'
    BY <1>1, <1>2, <2>1, <2>3, Order DEF InForce, ServerRight, SnapshotRight, BeforePending
  <2>9. FirstCall'
    BY <1>1, <1>2, <2>1, <2>3 DEF FirstCall
  <2>10. QED BY <2>2, <2>5, <2>6, <2>7, <2>8, <2>9 DEF IInv
<1>9. QED BY <1>7, <1>8

\* The update asks whether anything is pending.
LEMMA CheckPendingStep ==
  ASSUME IInv, CheckPending
  PROVE  IInv'
<1> USE DEF input, server
<1>1. CASE ReadFails
  BY <1>1, ReadFailsStep
<1>2. CASE ~ReadFails
  <2>1. /\ pc = "pending" /\ pc' = "grow" /\ rebootRequired' = (~stopped /\ HasPendingChanges)
        /\ todo' = {i \in want \cap NewDisks : current[i] = "old"}
        /\ UNCHANGED <<server, input, current, stopped, power0, retried, faults>>
    BY <1>2 DEF CheckPending, Lacking
  <2>2. /\ TypeOK /\ ServerRight /\ LateRight /\ TodoRight /\ SnapshotRight
        /\ Progress /\ InForce /\ FirstCall /\ pc \in FromMove /\ pc \in FromDelete
        /\ want \subseteq Items /\ rebootRequired' \in BOOLEAN
    BY <2>1, Order DEF IInv, TypeOK
  <2>3. TypeOK' /\ ServerRight' /\ LateRight'
    <3>1. \A l \in late : l.kind \in DiskOps => \A i \in l.items : saved[i] = "new"
      BY <2>2 DEF LateRight
    <3>2. todo' \subseteq Items
      BY <2>1, <2>2
    <3>3. QED BY <2>1, <2>2, <3>1, <3>2, NothingSent DEF TypeOK, Steps
  <2>4. TodoRight'
    BY <2>1 DEF TodoRight
  <2>5. SnapshotRight'
    BY <2>1, <2>2, Order DEF SnapshotRight, Valued, BeforePending
  <2>6. Progress'
    <3>1. \A i \in want \cap NewDisks : saved[i] = "new" \/ (i \in todo' /\ saved[i] = "small")
      <4>1. \A i \in want \cap NewDisks :
               /\ current[i] \in {"old", "small", "new"} /\ i \in Items \ {Foreign}
               /\ saved[i] \in {"small", "new"}
        BY <2>1, <2>2, QemuUpdateAssumption DEF SnapshotRight, Valued, ServerRight, Progress
      <4>2. QED BY <2>1, <2>2, <4>1, Order DEF SnapshotRight, Progress
    <3>2. QED BY <2>1, <2>2, <3>1, Order DEF Progress
  <2>7. InForce'
    <3>1. ~HasPendingChanges => active = saved
      BY <2>2 DEF HasPendingChanges, TypeOK
    <3>2. QED BY <2>1, <2>2, <3>1, Order DEF InForce
  <2>8. FirstCall'
    BY <2>1, <2>2 DEF FirstCall, HasPendingChanges
  <2>9. QED BY <2>3, <2>4, <2>5, <2>6, <2>7, <2>8 DEF IInv
<1>3. QED BY <1>1, <1>2

\* The guest changes its pool, unless the error is dropped.
LEMMA SetPoolStep ==
  ASSUME IInv, SetPool
  PROVE  IInv'
<1> USE DEF input
<1> DEFINE op == Op("pool", {Pool})
<1>1. /\ TypeOK /\ ServerRight /\ LateRight /\ TodoRight /\ SnapshotRight
      /\ Progress /\ InForce /\ FirstCall /\ want \subseteq Items
      /\ pc = "pool" /\ pc \in FromMove /\ pc \in FromDelete
      /\ UNCHANGED <<input, current, todo, stopped, rebootRequired, power0, retried>>
  BY Order DEF IInv, TypeOK, SetPool
<1>2. \A l \in late : l.kind \in DiskOps => \A i \in l.items : saved[i] = "new"
  BY <1>1 DEF LateRight
<1>3. Pool \in Items \ (cold \cup {Foreign}) /\ Pool \notin Recreates
      /\ Pool \notin NewDisks /\ Pool \notin Moves \cup Resizes \cup TpmMoves \cup Options
  BY <1>1, QemuUpdateAssumption DEF Items, ServerRight
<1>4. ASSUME UNCHANGED server, pc' = "power", faults' \in 0..MaxFaults, faults' >= faults,
             Pool \in want => saved[Pool] = "new" \/ faults' > 0
      PROVE  IInv'
  <2> USE DEF server
  <2>1. TypeOK' /\ ServerRight'
    BY <1>1, <1>4 DEF TypeOK, ServerRight, Valued, Steps
  <2>2. LateRight'
    BY <1>1, <1>2, <1>4, Order DEF LateRight, AllSaved
  <2>3. TodoRight' /\ SnapshotRight'
    BY <1>1, <1>4, Order DEF TodoRight, SnapshotRight, Valued, BeforePending
  <2>4. Progress'
    BY <1>1, <1>4, Order DEF Progress
  <2>5. InForce' /\ FirstCall'
    BY <1>1, <1>4, Order DEF InForce, FirstCall, HasPendingChanges
  <2>6. QED BY <2>1, <2>2, <2>3, <2>4, <2>5 DEF IInv
<1>5. CASE pc' = "power" /\ UNCHANGED <<server, faults>> /\ ~(Pool \in want /\ current[Pool] = "old")
  <2>1. Pool \in want => saved[Pool] = "new"
    BY <1>1, <1>3, <1>5 DEF SnapshotRight, Valued
  <2>2. faults' \in 0..MaxFaults /\ faults' >= faults
    BY <1>1, <1>5 DEF TypeOK
  <2>3. QED BY <1>4, <1>5, <2>1, <2>2
<1>6. CASE Pool \in want /\ Request(op, "power", "power")
  <2>1. op.kind = "pool" /\ op.items = {Pool}
    BY DEF Op
  <2>2. Fit(op)
    BY <1>6, <2>1 DEF Fit, PowerOps, DiskOps
  <2>3. CallDone(op, "power", "power") /\ pc' = "power"
    BY <1>1, <1>6, <2>2, CallOutcome DEF CallDone
  <2>4. Accepts(op)
    <3>1. \A l \in late : Pool \notin l.items
      <4>1. SUFFICES ASSUME NEW l \in late, Pool \in l.items
                     PROVE  FALSE
        OBVIOUS
      <4>2. l.kind \in DiskOps
        BY <1>1, <4>1 DEF TypeOK, Tasks
      <4>3. QED BY <1>1, <1>3, <4>1, <4>2 DEF LateRight
    <3>2. QED BY <2>1, <3>1 DEF Accepts
  <2>5. faults' \in 0..MaxFaults /\ faults' >= faults
    BY <2>3 DEF CallDone
  <2>6. CASE UNCHANGED server
    <3>1. saved[Pool] = "new" \/ faults' > 0
      <4>1. CASE CarryDone(op)
        BY <1>3, <2>1, <2>6, <4>1 DEF CarryDone, Target, server
      <4>2. QED BY <2>3, <2>4, <4>1 DEF CallDone
    <3>2. QED BY <1>4, <2>3, <2>5, <2>6, <3>1
  <2>7. CASE Carry(op) /\ UNCHANGED late
    <3>1. CarryDone(op)
      BY <1>1, <2>2, <2>7, CarryOutcome
    <3>2. /\ saved'[Pool] = "new" /\ power' = power /\ ServerRight'
          /\ \A i \in Items \ {Pool} : saved'[i] = saved[i] /\ active'[i] = active[i]
          /\ active = saved => active' = saved'
          /\ active'[Pool] = saved'[Pool] /\ saved[Pool] = active[Pool]
          /\ \A i \in Items : saved[i] = "new" => saved'[i] = "new"
      BY <1>1, <1>3, <2>1, <3>1 DEF CarryDone, Target, PowerOps, ServerRight
    <3>3. TypeOK'
      BY <1>1, <2>3, <2>5, <2>7, <3>1 DEF TypeOK, CarryDone, Steps
    <3>4. LateRight'
      <4>1. AllSaved => AllSaved'
        BY <1>1, <3>2 DEF AllSaved
      <4>2. \A i \in want \cap (Moves \cup Resizes \cup TpmMoves \cup NewDisks) : saved'[i] = saved[i]
        BY <1>1, <1>3, <3>2
      <4>3. QED BY <1>1, <1>2, <2>3, <2>7, <4>1, <4>2, Order DEF LateRight
    <3>5. TodoRight'
      BY <2>3 DEF TodoRight
    <3>6. SnapshotRight'
      <4>1. \A i \in NewDisks : saved'[i] = saved[i]
        BY <1>3, <3>2 DEF Items
      <4>2. QED BY <1>1, <2>3, <3>2, <4>1, Order DEF SnapshotRight, Valued, BeforePending
    <3>7. Progress'
      BY <1>1, <2>3, <3>2, Order DEF Progress
    <3>8. InForce'
      BY <1>1, <2>3, <3>2, Order DEF InForce
    <3>9. FirstCall'
      <4>1. HasPendingChanges => HasPendingChanges'
        BY <3>2 DEF HasPendingChanges
      <4>2. QED BY <1>1, <2>3, <2>7, <3>2, <4>1 DEF FirstCall
    <3>10. QED BY <3>2, <3>3, <3>4, <3>5, <3>6, <3>7, <3>8, <3>9 DEF IInv
  <2>8. op \notin Tasks
    BY <2>1 DEF Tasks, PowerOps, DiskOps
  <2>9. QED BY <2>3, <2>6, <2>7, <2>8 DEF CallDone
<1>7. QED BY <1>5, <1>6 DEF SetPool

\* The guest is started or rebooted, with everything saved, or needs neither,
\* or the update returns that it needs a reboot.
LEMMA SetPowerStep ==
  ASSUME IInv, SetPower
  PROVE  IInv'
<1> USE DEF input
<1>1. /\ TypeOK /\ ServerRight /\ LateRight /\ TodoRight /\ SnapshotRight
      /\ Progress /\ InForce /\ FirstCall /\ want \subseteq Items
      /\ pc = "power" /\ pc \in FromMove /\ pc \in FromDelete
      /\ UNCHANGED <<input, current, todo, power0, retried>>
      /\ stopped' = (stopped /\ pc' # "ha") /\ rebootRequired' = (rebootRequired /\ pc' # "ha")
  BY Order DEF IInv, TypeOK, SetPower
<1>2. {stopped', rebootRequired'} \subseteq BOOLEAN /\ (stopped' => stopped)
  BY <1>1
<1>3. AllSaved
  BY <1>1, Order DEF AllSaved, Progress, ServerRight, Items
<1>4. ASSUME NEW kind \in {"start", "reboot"}, Request(Op(kind, {}), "ha", "error"),
             kind = "start" => stopped, kind = "reboot" => ~stopped
      PROVE  IInv'
  <2> DEFINE op == Op(kind, {})
  <2>1. op.kind = kind /\ op.items = {} /\ op.kind \in PowerOps
    BY DEF Op, PowerOps
  <2>2. Fit(op)
    BY <1>3, <2>1 DEF Fit, PowerOps, DiskOps
  <2>3. CallDone(op, "ha", "error")
    BY <1>1, <1>4, <2>2, CallOutcome
  <2>4. CASE pc' = "error"
    BY <1>1, <1>2, <2>2, <2>3, <2>4, ErrorStep DEF TypeOK
  <2>5. CASE pc' # "error"
    <3>1. /\ CarryDone(op) /\ Accepts(op) /\ pc' = "ha" /\ late' = late /\ faults' = faults
          /\ stopped' = FALSE /\ rebootRequired' = FALSE
      BY <1>1, <2>3, <2>5 DEF CallDone
    <3>2. TypeOK' /\ LateRight' /\ ServerRight'
      BY <1>1, <1>2, <3>1, CallKeeps DEF TypeOK, Steps
    <3>3. /\ power' = "running" /\ active' = saved /\ saved' = saved
          /\ kind = "reboot" => power = "running"
      BY <1>4, <2>1, <3>1 DEF CarryDone, Accepts
    <3>4. TodoRight'
      BY <3>1 DEF TodoRight
    <3>5. SnapshotRight'
      BY <1>1, <3>1, <3>3, Order DEF SnapshotRight, Valued, BeforePending
    <3>6. Progress'
      BY <1>1, <3>1, <3>3, Order DEF Progress
    <3>7. InForce'
      BY <3>1, <3>3, Order DEF InForce
    <3>8. FirstCall'
      BY <1>1, <1>4, <3>1, <3>3 DEF FirstCall
    <3>9. QED BY <3>2, <3>4, <3>5, <3>6, <3>7, <3>8 DEF IInv
  <2>6. QED BY <2>4, <2>5
<1>5. CASE /\ UNCHANGED <<server, faults>>
           /\ \/ ~stopped /\ rebootRequired /\ ~rebootIfNeeded /\ pc' = "reboot"
              \/ ~stopped /\ ~rebootRequired /\ pc' = "ha"
  <2> USE DEF server
  <2>1. TypeOK' /\ ServerRight' /\ LateRight'
    <3>1. \A l \in late : l.kind \in DiskOps => \A i \in l.items : saved[i] = "new"
      BY <1>1 DEF LateRight
    <3>2. pc' \in Steps \cup Returned /\ current' \in [Items -> Values] /\ todo' \subseteq Items
      BY <1>1, <1>5 DEF Steps, Returned, TypeOK
    <3>3. pc # "error"
      BY <1>1
    <3>4. QED BY <1>1, <1>2, <1>5, <3>1, <3>2, <3>3, NothingSent
  <2>2. TodoRight'
    BY <1>5 DEF TodoRight
  <2>3. SnapshotRight'
    BY <1>1, <1>5, Order DEF SnapshotRight, Valued, BeforePending
  <2>4. Progress'
    BY <1>1, <1>5, Order DEF Progress
  <2>5. InForce' /\ FirstCall'
    BY <1>1, <1>5, Order DEF InForce, FirstCall, HasPendingChanges
  <2>6. QED BY <2>1, <2>2, <2>3, <2>4, <2>5 DEF IInv
<1>6. QED BY <1>4, <1>5 DEF SetPower

\* The last call: HA.
LEMMA SetHaStep ==
  ASSUME IInv, SetHa
  PROVE  IInv'
<1> USE DEF input
<1> DEFINE op == Op("ha", {Ha})
<1>1. /\ TypeOK /\ ServerRight /\ LateRight /\ TodoRight /\ SnapshotRight
      /\ Progress /\ InForce /\ FirstCall /\ want \subseteq Items
      /\ pc = "ha" /\ pc \in FromMove /\ pc \in FromDelete
      /\ UNCHANGED <<input, current, todo, stopped, rebootRequired, power0, retried>>
  BY Order DEF IInv, TypeOK, SetHa
<1>2. Ha \in Items \ (cold \cup {Foreign}) /\ Ha # Pool /\ Ha \notin Recreates
      /\ Ha \notin NewDisks \cup Moves \cup Resizes \cup TpmMoves \cup Options
  BY <1>1, QemuUpdateAssumption DEF Items, ServerRight
<1>3. CASE pc' = "error" /\ CanFail /\ faults' = faults + 1 /\ UNCHANGED server
  <2>1. faults' \in 0..MaxFaults
    BY <1>1, <1>3, QemuUpdateAssumption DEF CanFail, TypeOK
  <2>2. QED BY <1>1, <1>3, <2>1, ErrorReturn DEF TypeOK
<1>4. CASE /\ pc' = "ok" /\ UNCHANGED <<server, faults>>
           /\ ~(Ha \in want /\ saved[Ha] = "old")
  <2> USE DEF server
  <2>1. TypeOK' /\ ServerRight' /\ LateRight'
    <3>1. \A l \in late : l.kind \in DiskOps => \A i \in l.items : saved[i] = "new"
      BY <1>1 DEF LateRight
    <3>2. QED BY <1>1, <1>4, <3>1, NothingSent DEF TypeOK, Returned
  <2>2. TodoRight'
    BY <1>4 DEF TodoRight
  <2>3. SnapshotRight'
    BY <1>1, <1>4, Order DEF SnapshotRight, Valued, BeforePending
  <2>4. Progress'
    BY <1>1, <1>4, Order DEF Progress, ServerRight, Valued
  <2>5. InForce' /\ FirstCall'
    BY <1>1, <1>4, Order DEF InForce, FirstCall, HasPendingChanges
  <2>6. QED BY <2>1, <2>2, <2>3, <2>4, <2>5 DEF IInv
<1>5. CASE Ha \in want /\ Request(op, "ok", "error")
  <2>1. op.kind = "ha" /\ op.items = {Ha}
    BY DEF Op
  <2>2. Fit(op)
    BY <1>5, <2>1 DEF Fit, PowerOps, DiskOps
  <2>3. CallDone(op, "ok", "error")
    BY <1>1, <1>5, <2>2, CallOutcome
  <2>4. CASE pc' = "error"
    BY <1>1, <2>2, <2>3, <2>4, ErrorStep DEF TypeOK
  <2>5. CASE pc' # "error"
    <3>1. CarryDone(op) /\ pc' = "ok" /\ late' = late /\ faults' = faults
      BY <2>3, <2>5 DEF CallDone
    <3>2. TypeOK' /\ LateRight' /\ ServerRight'
      BY <1>1, <3>1, CallKeeps DEF TypeOK, Returned
    <3>3. /\ saved'[Ha] = "new" /\ power' = power
          /\ \A i \in Items \ {Ha} : saved'[i] = saved[i]
          /\ active = saved => active' = saved'
          /\ \A i \in Items : saved[i] = "new" => saved'[i] = "new"
      BY <1>1, <1>2, <2>1, <3>1 DEF CarryDone, Target, PowerOps
    <3>4. TodoRight'
      BY <3>1 DEF TodoRight
    <3>5. SnapshotRight'
      <4>1. \A i \in NewDisks : saved'[i] = saved[i]
        BY <1>2, <3>3 DEF Items
      <4>2. QED BY <1>1, <3>1, <3>3, <4>1, Order DEF SnapshotRight, Valued, BeforePending
    <3>6. Progress'
      <4>1. Pool \in Items
        BY DEF Items
      <4>2. QED BY <1>1, <1>2, <3>1, <3>3, <4>1, Order DEF Progress
    <3>7. InForce' /\ FirstCall'
      BY <1>1, <3>1, <3>3, Order DEF InForce, FirstCall
    <3>8. QED BY <3>2, <3>4, <3>5, <3>6, <3>7 DEF IInv
  <2>6. QED BY <2>4, <2>5
<1>6. QED BY <1>3, <1>4, <1>5 DEF SetHa

\* The caller tries again.
LEMMA RetryStep ==
  ASSUME IInv, Retry
  PROVE  IInv'
<1> USE DEF input, server
<1>1. TypeOK /\ ServerRight /\ LateRight
  BY DEF IInv
<1>2. /\ pc = "error" /\ pc' = "read" /\ retried' = TRUE /\ stopped' = FALSE
      /\ rebootRequired' = FALSE /\ power0' = power /\ todo' = {}
      /\ UNCHANGED <<server, input, current, faults>>
  BY DEF Retry
<1>3. TypeOK'
  BY <1>1, <1>2 DEF TypeOK, Steps
<1>4. ServerRight' /\ LateRight'
  BY <1>1, <1>2, Order DEF ServerRight, Valued, LateRight, AllSaved
<1>5. TodoRight' /\ SnapshotRight' /\ Progress' /\ InForce' /\ FirstCall'
  BY <1>2, Order DEF TodoRight, SnapshotRight, Progress, InForce, FirstCall
<1>6. QED BY <1>3, <1>4, <1>5 DEF IInv

-----------------------------------------------------------------------------
(* The invariant and the properties.                                       *)

\* Nothing of what is wanted is there, and nothing runs.
LEMMA Initial == Init => IInv
<1> SUFFICES ASSUME Init PROVE IInv
  OBVIOUS
<1>1. TypeOK
  <2>1. saved \in [Items -> Values] /\ Foreign \in Items
    BY DEF Init, Values, Items
  <2>2. [saved EXCEPT ![Foreign] = "old"] \in [Items -> Values]
    BY <2>1 DEF Values
  <2>3. Recreates \cup Options \cup NewDisks \subseteq Items
    BY DEF Items
  <2>4. active \in [Items -> Values] /\ current \in [Items -> Values]
    BY <2>1, <2>2 DEF Init
  <2>5. cold \subseteq Items /\ want \subseteq Items /\ todo \subseteq Items /\ late \subseteq Tasks
    BY <2>3 DEF Init
  <2>6. faults \in 0..MaxFaults
    BY QemuUpdateAssumption DEF Init
  <2>7. power \in Powers /\ power0 \in Powers /\ pc \in Steps
    BY DEF Init, Powers, Steps
  <2>8. {rebootIfNeeded, stopped, rebootRequired, retried} \subseteq BOOLEAN
    BY DEF Init
  <2>9. QED BY <2>1, <2>4, <2>5, <2>6, <2>7, <2>8 DEF TypeOK
<1>2. ServerRight
  <2>1. /\ \A i \in Items \ {Foreign} : saved[i] = "old" /\ active[i] = "old"
    BY DEF Init
  <2>2. Valued(saved)
    BY <2>1, QemuUpdateAssumption DEF Valued, Items
  <2>3. \A i \in NewDisks : i \in Items \ {Foreign}
    BY QemuUpdateAssumption DEF Items
  <2>4. QED BY <2>1, <2>2, <2>3 DEF Init, ServerRight
<1>3. LateRight /\ TodoRight /\ SnapshotRight /\ Progress /\ InForce
  BY Order DEF Init, LateRight, TodoRight, SnapshotRight, Progress, InForce
<1>4. FirstCall
  <2>1. \A i \in Recreates : saved[i] = "old"
    BY QemuUpdateAssumption DEF Init, Items
  <2>2. QED BY <2>1 DEF Init, FirstCall
<1>5. QED BY <1>1, <1>2, <1>3, <1>4 DEF IInv

\* Every step keeps the invariant.
LEMMA Inductive == IInv /\ [Next]_vars => IInv'
<1> SUFFICES ASSUME IInv, [Next]_vars PROVE IInv'
  OBVIOUS
<1>1. CASE UNCHANGED vars
  BY <1>1 DEF vars, server, input, IInv, TypeOK, ServerRight, Valued, LateRight, AllSaved,
              TodoRight, SnapshotRight, Progress, InForce, FirstCall, HasPendingChanges
<1>2. CASE Client
  BY <1>2, ReadStep, LoopStep, DeleteStep, CheckDeletedStep, ShutdownStep, RereadStep, PutStep,
     CheckPendingStep, SetPoolStep, SetPowerStep, SetHaStep, RetryStep
     DEF Client
<1>3. CASE LateTask
  BY <1>3, LateTaskStep
<1>4. QED BY <1>1, <1>2, <1>3 DEF Next

\* So it holds in every state of every behaviour.
LEMMA Invariance == Spec => []IInv
BY Initial, Inductive, PTL DEF Spec

\* The values of the items, the tasks and the variables of the update keep
\* their types.
THEOREM TypeCorrect == Spec => []TypeOK
<1>1. IInv => TypeOK
  BY DEF IInv
<1>2. QED BY <1>1, Invariance, PTL

\* However many calls failed before, and whatever they left behind, an update
\* that returns (false, nil) has every wanted change in force.
THEOREM OkIsInForce == Spec => []OkMeansInForce
<1>1. ASSUME IInv
      PROVE  OkMeansInForce
  <2>1. SUFFICES ASSUME pc = "ok", NEW i \in want
                 PROVE  active[i] = "new" \/ (i = Pool /\ faults > 0)
    BY DEF OkMeansInForce
  <2>2. active = saved /\ ServerRight /\ Progress /\ i \in Items \ {Foreign}
    BY <1>1, <2>1, Order DEF IInv, InForce, TypeOK, ServerRight
  <2>3. QED BY <2>1, <2>2, Order DEF Progress, Items
<1>2. QED BY <1>1, Invariance, PTL

\* An update that returns (true, nil) has saved all changes but those of HA, was
\* not allowed to reboot the guest, and tells the truth: the guest needs it.
THEOREM RebootIsNeeded == Spec => []RebootMeansSaved
<1>1. ASSUME IInv
      PROVE  RebootMeansSaved
  <2>1. SUFFICES ASSUME pc = "reboot"
                 PROVE  /\ ~rebootIfNeeded
                        /\ \A i \in want : saved[i] = "new" \/ i = Ha \/ (i = Pool /\ faults > 0)
                        /\ HasPendingChanges \/ retried
    BY DEF RebootMeansSaved
  <2>2. /\ ServerRight /\ Progress /\ InForce /\ FirstCall /\ want \subseteq Items \ {Foreign}
    BY <1>1 DEF IInv, TypeOK, ServerRight
  <2>3. QED BY <2>1, <2>2, Order DEF Progress, InForce, FirstCall, Items
<1>2. QED BY <1>1, Invariance, PTL

\* A first update leaves the guest running or stopped as it found it.
THEOREM PowerKept == Spec => []PowerPreserved
<1>1. ASSUME IInv
      PROVE  PowerPreserved
  <2>1. SUFFICES ASSUME pc \in {"ok", "reboot"}, ~retried
                 PROVE  power = power0
    BY DEF PowerPreserved
  <2>2. ~stopped
    BY <1>1, <2>1, Order DEF IInv, InForce
  <2>3. QED BY <1>1, <2>1, <2>2 DEF IInv, FirstCall
<1>2. QED BY <1>1, Invariance, PTL

\* A first update never creates a device again that the guest still has.
THEOREM DeletionFirst == Spec => []DeletedBeforeCreated
<1>1. ASSUME IInv
      PROVE  DeletedBeforeCreated
  <2>1. SUFFICES ASSUME pc = "put", ~retried, NEW i \in PutItems \cap Recreates
                 PROVE  active[i] = "gone"
    BY DEF DeletedBeforeCreated
  <2>2. i \in want \cap Recreates /\ current[i] = "gone"
    BY <2>1, QemuUpdateAssumption DEF PutItems, Lacking
  <2>3. current[i] = saved[i] /\ active[i] = saved[i]
    BY <1>1, <2>1, <2>2, Order DEF IInv, SnapshotRight, BeforePending, FirstCall
  <2>4. QED BY <2>2, <2>3
<1>2. QED BY <1>1, Invariance, PTL

-----------------------------------------------------------------------------
(* The refinement of Reconfiguration.                                      *)

\* Every request of the update fits it, and so does a task that outlived its
\* call; the server changes by nothing else.
LEMMA ServerStep ==
  ASSUME IInv, Next
  PROVE  UNCHANGED <<power, active, saved>> \/ \E op : Fit(op) /\ Carry(op)
<1> USE DEF server
<1>1. /\ LateRight /\ TodoRight /\ SnapshotRight /\ ServerRight /\ Progress /\ InForce
      /\ want \subseteq Items /\ late \subseteq Tasks
  BY DEF IInv, TypeOK
<1>2. ASSUME NEW op, NEW next, NEW onError, Fit(op), Request(op, next, onError)
      PROVE  UNCHANGED <<power, active, saved>> \/ \E o : Fit(o) /\ Carry(o)
  BY <1>2 DEF Request
<1>3. ASSUME NEW step \in {"move", "resize", "tpm", "grow"}, NEW kind \in DiskOps, NEW next,
             NEW rest, Loop(step, kind, next, rest)
      PROVE  UNCHANGED <<power, active, saved>> \/ \E o : Fit(o) /\ Carry(o)
  <2>1. CASE UNCHANGED server
    BY <2>1
  <2>2. ASSUME NEW i \in todo, Request(Op(kind, {i}), step, "error")
        PROVE  UNCHANGED <<power, active, saved>> \/ \E o : Fit(o) /\ Carry(o)
    <3>1. /\ i \in want /\ i \in Moves \cup Resizes \cup TpmMoves \cup NewDisks
          /\ i \in NewDisks => saved[i] # "old"
      BY <1>1, <1>3, Order, QemuUpdateAssumption DEF Loop, TodoRight, SnapshotRight, Progress
    <3>2. Fit(Op(kind, {i}))
      BY <3>1 DEF Fit, Op, DiskOps, PowerOps
    <3>3. QED BY <1>2, <2>2, <3>2
  <2>3. QED BY <1>3, <2>1, <2>2 DEF Loop
<1>4. CASE Move \/ Resize \/ MoveTpm \/ Grow
  BY <1>3, <1>4 DEF Move, Resize, MoveTpm, Grow, DiskOps
<1>5. CASE Read \/ CheckDeleted \/ Reread \/ CheckPending \/ Retry
  BY <1>5 DEF Read, CheckDeleted, Reread, CheckPending, Retry, ReadFails
<1>6. CASE Delete
  <2>1. Fit(Op("delete", Lacking(Recreates, current)))
    BY <1>1, <1>6, Order
       DEF Delete, Fit, Op, Lacking, PowerOps, DiskOps, SnapshotRight, BeforePending
  <2>2. QED BY <1>2, <1>6, <2>1 DEF Delete
<1>7. CASE Shutdown
  <2>1. Fit(Op("shutdown", {}))
    BY DEF Fit, Op, PowerOps, DiskOps
  <2>2. QED BY <1>2, <1>7, <2>1 DEF Shutdown
<1>8. CASE Put
  <2>1. /\ \A i \in PutItems \cap NewDisks : current[i] = "old"
        /\ PutItems \subseteq want \cap (NewDisks \cup Recreates \cup Options)
    BY QemuUpdateAssumption DEF PutItems, Lacking
  <2>2. Fit(Op("put", PutItems))
    BY <1>1, <1>8, <2>1, Order
       DEF Put, Fit, Op, PowerOps, DiskOps, SnapshotRight, BeforePending
  <2>3. QED BY <1>2, <1>8, <2>2 DEF Put
<1>9. CASE SetPool
  <2>1. Pool \in want => Fit(Op("pool", {Pool}))
    BY DEF Fit, Op, PowerOps, DiskOps
  <2>2. QED BY <1>2, <1>9, <2>1 DEF SetPool
<1>10. CASE SetPower
  <2>1. AllSaved
    BY <1>1, <1>10, Order DEF SetPower, AllSaved, Progress, ServerRight, Items
  <2>2. \A kind \in {"start", "reboot"} : Fit(Op(kind, {}))
    BY <2>1 DEF Fit, Op, PowerOps, DiskOps
  <2>3. QED BY <1>2, <1>10, <2>2 DEF SetPower
<1>11. CASE SetHa
  <2>1. Ha \in want => Fit(Op("ha", {Ha}))
    BY DEF Fit, Op, PowerOps, DiskOps
  <2>2. QED BY <1>2, <1>11, <2>1 DEF SetHa
<1>12. CASE LateTask
  <2>1. PICK op \in late : Carry(op) \/ UNCHANGED <<power, active, saved>>
    BY <1>12 DEF LateTask
  <2>2. op.kind \in PowerOps \cup DiskOps /\ (op.kind \in PowerOps => op.items = {})
    BY <1>1 DEF Tasks, PowerOps, DiskOps
  <2>3. Fit(op)
    BY <1>1, <2>2 DEF LateRight, Fit, PowerOps, DiskOps
  <2>4. QED BY <2>1, <2>3
<1>13. QED BY <1>4, <1>5, <1>6, <1>7, <1>8, <1>9, <1>10, <1>11, <1>12 DEF Next, Client

\* What is in force as wanted is saved so.
Recorded == {i \in Items : saved[i] = "new"}
Active == {i \in Items : active[i] = "new"}
Upheld == Active \subseteq Recorded

\* No step undoes anything: what a power operation brings into force is saved.
LEMMA NothingUndone ==
  ASSUME IInv, Upheld, [Next]_vars
  PROVE  Recorded \subseteq Recorded' /\ Active \subseteq Active' /\ Upheld'
<1>1. CASE UNCHANGED <<power, active, saved>>
  BY <1>1 DEF Upheld, Recorded, Active
<1>2. ASSUME NEW op, Fit(op), Carry(op), Next
      PROVE  Recorded \subseteq Recorded' /\ Active \subseteq Active' /\ Upheld'
  <2>1. TypeOK /\ ServerRight /\ UNCHANGED input
    BY <1>2 DEF IInv, Next, Client, Read, Move, Resize, MoveTpm, Grow, Loop, Delete, CheckDeleted,
                Shutdown, Reread, Put, CheckPending, SetPool, SetPower, SetHa, Retry, LateTask,
                ReadFails
  <2>2. \A i \in Items : saved[i] = "new" => saved'[i] = "new"
    BY <1>2, <2>1, CarryOutcome DEF CarryDone
  <2>3. CASE op.kind \in PowerOps
    <3>1. active' = saved /\ saved' = saved
      BY <1>2, <2>3 DEF Carry
    <3>2. QED BY <3>1 DEF Upheld, Recorded, Active
  <2>4. CASE op.kind \notin PowerOps
    <3>1. \A i \in Items : active'[i] = active[i] \/ (i \in op.items /\ active'[i] = Target(op, i)
                                                      /\ saved'[i] = Target(op, i))
      BY <1>2, <2>4 DEF Carry
    <3>2. \A i \in op.items : active[i] = "new" => Target(op, i) = "new"
      <4>1. \A i \in op.items : i \in Items /\ (active[i] = "new" => saved[i] = "new")
        BY <1>2, <2>1 DEF Fit, TypeOK, Upheld, Recorded, Active
      <4>2. QED BY <1>2, <4>1, QemuUpdateAssumption DEF Fit, Target, DiskOps, PowerOps
    <3>3. QED BY <2>2, <3>1, <3>2 DEF Upheld, Recorded, Active
  <2>5. QED BY <2>3, <2>4
<1>3. CASE UNCHANGED vars
  BY <1>1, <1>3 DEF vars, server
<1>4. QED BY <1>1, <1>2, <1>3, ServerStep

\* How an update returns, and that it then waits for its caller.
Result == IF pc \in Returned THEN pc ELSE "none"
Wanted == {i \in want : i # Pool \/ faults = 0}

\* What changes of the call when the server does not matter.
LEMMA CallStep ==
  ASSUME IInv, Next
  PROVE  /\ Wanted' \subseteq Wanted /\ Wanted \ Wanted' \subseteq {Pool}
         /\ \/ pc \notin Returned
            \/ pc' = pc /\ UNCHANGED Wanted
            \/ pc' = "read" /\ UNCHANGED <<Wanted, active, saved>>
<1>1. faults \in Nat /\ want' = want /\ faults' \in {faults, faults + 1}
  <2>1. want' = want
    BY DEF Next, Client, Read, Move, Resize, MoveTpm, Grow, Loop, Delete, CheckDeleted,
           Shutdown, Reread, Put, CheckPending, SetPool, SetPower, SetHa, Retry, LateTask,
           ReadFails, input
  <2>2. faults' \in {faults, faults + 1}
    BY DEF Next, Client, Read, Move, Resize, MoveTpm, Grow, Loop, Delete, CheckDeleted,
           Shutdown, Reread, Put, CheckPending, SetPool, SetPower, SetHa, Retry, LateTask,
           ReadFails, Request
  <2>3. QED BY <2>1, <2>2 DEF IInv, TypeOK
<1>2. faults' = faults \/ faults' # 0
  BY <1>1
<1>3. CASE pc \in Returned
  <2>1. CASE Client
    <3>1. Retry
      BY <1>3, <2>1 DEF Client, Read, Move, Resize, MoveTpm, Grow, Loop, Delete, CheckDeleted,
                        Shutdown, Reread, Put, CheckPending, SetPool, SetPower, SetHa, Returned
    <3>2. QED BY <1>1, <1>2, <3>1 DEF Retry, Wanted, server
  <2>2. CASE LateTask
    BY <1>1, <2>2 DEF LateTask, Wanted
  <2>3. QED BY <2>1, <2>2 DEF Next
<1>4. QED BY <1>1, <1>2, <1>3 DEF Wanted

\* A step of the update is a step of the promise.
LEMMA PromiseStep ==
  IInv /\ IInv' /\ Upheld /\ OkMeansInForce' /\ RebootMeansSaved' /\ [Next]_vars
  => [Promise!Next]_(Promise!vars)
<1> SUFFICES ASSUME IInv, IInv', Upheld, OkMeansInForce', RebootMeansSaved', Next
             PROVE  Promise!Next \/ UNCHANGED Promise!vars
  BY DEF vars, server, input, Promise!vars
<1>1. /\ Recorded \subseteq Recorded' /\ Active \subseteq Active' /\ Active' \subseteq Recorded'
      /\ Recorded' \subseteq Items
  BY NothingUndone DEF Upheld, Recorded
<1>2. Promise!Advance
  BY <1>1 DEF Promise!Advance, Recorded, Active
<1>3. Promise!GiveUp
  BY CallStep DEF Promise!GiveUp, Wanted
<1>4. CASE pc \notin Returned /\ pc' \notin Returned
  BY <1>2, <1>3, <1>4 DEF Promise!Next, Promise!Work
<1>5. CASE pc \notin Returned /\ pc' = "ok"
  <2>1. \A i \in want' : active'[i] = "new" \/ (i = Pool /\ faults' > 0)
    BY <1>5 DEF OkMeansInForce
  <2>2. Wanted' \subseteq Active'
    BY <2>1 DEF Wanted, Active, IInv, TypeOK
  <2>3. QED BY <1>2, <1>3, <1>5, <2>2
           DEF Promise!Next, Promise!Succeed, Wanted, Active, Returned
<1>6. CASE pc \notin Returned /\ pc' = "reboot"
  <2>1. \A i \in want' : saved'[i] = "new" \/ i = Ha \/ (i = Pool /\ faults' > 0)
    BY <1>6 DEF RebootMeansSaved
  <2>2. Wanted' \ {Ha} \subseteq Recorded'
    BY <2>1 DEF Wanted, Recorded, IInv, TypeOK
  <2>3. QED BY <1>2, <1>3, <1>6, <2>2
           DEF Promise!Next, Promise!NeedReboot, Wanted, Recorded, Returned
<1>7. CASE pc \notin Returned /\ pc' = "error"
  BY <1>2, <1>3, <1>7 DEF Promise!Next, Promise!Fail, Returned
<1>8. CASE pc \in Returned /\ pc' = pc /\ UNCHANGED Wanted
  <2>1. Result # "none" /\ UNCHANGED <<Wanted, Result>>
    BY <1>8 DEF Result, Returned
  <2>2. QED BY <1>2, <2>1 DEF Promise!Next, Promise!Outlive, Wanted, Result
<1>9. CASE pc \in Returned /\ pc' = "read" /\ UNCHANGED <<Wanted, active, saved>>
  <2>1. Result # "none" /\ Result' = "none"
    BY <1>9 DEF Result, Returned
  <2>2. QED BY <1>9, <2>1 DEF Promise!Next, Promise!Again, Wanted, Result
<1>10. QED BY <1>4, <1>5, <1>6, <1>7, <1>8, <1>9, CallStep DEF Returned

\* Refinement: an update undoes nothing, whatever fails, is repeated or outlives
\* its call, and returns what it has achieved.
THEOREM Refinement == Spec => ImplementsReconfiguration
<1>1. Init => Promise!Init /\ Upheld
  <2>1. Init => \A i \in Items : active[i] = "new" => saved[i] = "new"
    BY DEF Init
  <2>2. Init => pc \notin Returned /\ want \subseteq Items
    BY DEF Init, Returned
  <2>3. QED BY <2>1, <2>2 DEF Promise!Init, Upheld, Recorded, Active
<1>2. IInv /\ Upheld /\ [Next]_vars => Upheld'
  BY NothingUndone
<1>3. Spec => [](IInv /\ Upheld)
  BY <1>1, <1>2, Invariance, PTL DEF Spec
<1>4. QED
  BY <1>1, <1>3, OkIsInForce, RebootIsNeeded, PromiseStep, PTL
     DEF Spec, ImplementsReconfiguration, Promise!Spec
==============================================================================
