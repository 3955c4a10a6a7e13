---------------------------- MODULE ClientProofs ----------------------------
(***************************************************************************)
(* Proofs about three parts of client.go, TaskCall, ClientCache and        *)
(* HaResource, which share no state.                                       *)
(*                                                                         *)
(* Of TaskCall, for any number of calls and tries and any timeout: its     *)
(* types, its safety invariants and that it implements AsyncOperation.     *)
(* The argument rests on Inv, which ties the place a call is at to what    *)
(* the server made of the try it is making and of those before.            *)
(*                                                                         *)
(* Of ClientCache, for any number of goroutines, items, privileges,        *)
(* upgrades, changes of the permissions and failed fetches.  For the       *)
(* version the argument is that a fetch puts no nil into the goroutine's   *)
(* hands, and none but a version the server has run unless it fails.  For  *)
(* the permissions it is Sourced: every entry of the cache is what the     *)
(* server said of its path at some time, and the entry of the category is  *)
(* from a time of which the cache still has every item: no step takes an   *)
(* item out of the cache and leaves the category in it.                    *)
(*                                                                         *)
(* Of HaResource, for any number of references, states, groups, lost       *)
(* requests and changes by others: its types, and what an update has done  *)
(* when it returns.  The argument rests on Stage: as long as nobody else   *)
(* has changed the resource, what the server has of it is known from the   *)
(* place the call is at; every change by somebody else sets start to       *)
(* Unknown.                                                                *)
(***************************************************************************)
EXTENDS TaskCall, ClientCache, HaResource, TLAPS

-----------------------------------------------------------------------------
(* TaskCall.                                                               *)

\* A call that has not sent anything left no trace; tries are used in order;
\* a try is on the server from the moment it is sent; and, unless the call
\* lost sight of a try, every earlier one is known to be dead.
Trace(c) ==
    /\ pc[c] = "idle" => fault[c] = {} /\ attempt[c] = 1
    /\ \A i \in Attempts : i > attempt[c] => task[c][i] = "none"
    /\ pc[c] \in {"idle", "post"} => task[c][attempt[c]] = "none"
    /\ fault[c] = {} => \A i \in Attempts : i < attempt[c] => task[c][i] \in Dead

\* Where the call is and what the server made of its current try.
Current(c) ==
    LET now == task[c][attempt[c]] IN
    /\ pc[c] = "poll" => now \in Ended \cup {"running"}
    /\ pc[c] = "success" => now \in Effective
    /\ (pc[c] = "error" /\ fault[c] = {}) => now \in Dead \cup {"none"}

Inv == \A c \in Callers : Trace(c) /\ Current(c)

IInv == TypeOK /\ Inv

-----------------------------------------------------------------------------
\* A call has at least one try, and never more than the loop's bound.
LEMMA TriesType == 1 \in Attempts /\ \A k \in Kinds : Tries(k) \in Attempts
  BY TaskCallAssumption DEF Attempts, Kinds, Tries

\* The type invariant of the task layer (all variables of TaskCall).
LEMMA TypeStep == TypeOK /\ [Next]_vars => TypeOK'
<1> SUFFICES ASSUME TypeOK, [Next]_vars PROVE TypeOK'
  OBVIOUS
<1> USE TriesType DEF TypeOK
<1>1. ASSUME NEW c \in Callers, NEW k \in Kinds, Begin(c, k) PROVE TypeOK'
  BY <1>1 DEF Begin, Returned
<1>2. ASSUME NEW c \in Callers, FailTry(c),
             UNCHANGED <<kind, waited, task>>,
             fault' \in [Callers -> SUBSET {"lost", "poll", "timeout"}]
      PROVE  TypeOK'
  <2>1. attempt' \in [Callers -> Attempts]
    <3>1. attempt[c] < Tries(kind[c]) => attempt[c] + 1 \in Attempts
      BY TaskCallAssumption DEF Attempts
    <3>2. QED BY <1>2, <3>1 DEF FailTry, Return
  <2>2. pc' \in [Callers -> {"idle", "post", "await", "poll"} \cup Returned]
    BY <1>2 DEF FailTry, Return, Returned
  <2>3. QED BY <1>2, <2>1, <2>2
<1>3. ASSUME NEW c \in Callers, Send(c) PROVE TypeOK'
  BY <1>3 DEF Send, TaskStates
<1>4. ASSUME NEW c \in Callers, ReplyRejected(c) PROVE TypeOK'
  BY <1>4, <1>2 DEF ReplyRejected
<1>5. ASSUME NEW c \in Callers, ReplyImmediate(c) PROVE TypeOK'
  BY <1>5 DEF ReplyImmediate, Return, Returned
<1>6. ASSUME NEW c \in Callers, ReplyTask(c) PROVE TypeOK'
  BY <1>6 DEF ReplyTask
<1>7. ASSUME NEW c \in Callers, LoseReply(c) PROVE TypeOK'
  BY <1>7, <1>2 DEF LoseReply
<1>8. ASSUME NEW c \in Callers, PollSuccess(c) PROVE TypeOK'
  BY <1>8 DEF PollSuccess, Return, Returned
<1>9. ASSUME NEW c \in Callers, PollFailed(c) PROVE TypeOK'
  BY <1>9, <1>2 DEF PollFailed
<1>10. ASSUME NEW c \in Callers, PollRunning(c) PROVE TypeOK'
  BY <1>10, TaskCallAssumption DEF PollRunning, Sleep
<1>11. ASSUME NEW c \in Callers, PollCutShort(c) PROVE TypeOK'
  BY <1>11, TaskCallAssumption DEF PollCutShort, Sleep
<1>12. ASSUME NEW c \in Callers, PollError(c) PROVE TypeOK'
  BY <1>12, <1>2 DEF PollError
<1>13. ASSUME NEW c \in Callers, Timeout(c) PROVE TypeOK'
  BY <1>13, <1>2 DEF Timeout
<1>14. ASSUME NEW c \in Callers, NEW i \in Attempts, Handle(c, i) PROVE TypeOK'
  BY <1>14 DEF Handle, SetTask, TaskStates, Effective, Dead
<1>15. ASSUME NEW c \in Callers, NEW i \in Attempts, Finish(c, i) PROVE TypeOK'
  BY <1>15 DEF Finish, SetTask, TaskStates, Effective, Dead, Ended, Success
<1>16. CASE UNCHANGED vars
  BY <1>16 DEF vars
<1>17. QED
  BY <1>1, <1>3, <1>4, <1>5, <1>6, <1>7, <1>8, <1>9, <1>10, <1>11, <1>12,
     <1>13, <1>14, <1>15, <1>16
  DEF Next, ClientStep, ServerStep

\* TaskCall!TypeOK holds in every reachable state: each place, try, exit status
\* and fault the code can record is one of those the module lists.
THEOREM TypeCorrect == Spec => []TypeOK
<1>1. Init => TypeOK
  BY TriesType DEF Init, TypeOK, Kinds, TaskStates
<1>2. QED
  BY <1>1, TypeStep, PTL DEF Spec

-----------------------------------------------------------------------------
\* The inductive step of Inv, one step of the code at a time.
LEMMA InvStep == TypeOK /\ Inv /\ [Next]_vars => Inv'
<1> SUFFICES ASSUME TypeOK, Inv, [Next]_vars,
                    NEW d \in Callers
             PROVE  Trace(d)' /\ Current(d)'
  BY DEF Inv
<1> USE TriesType DEF TypeOK, Trace, Current
<1>0. Trace(d) /\ Current(d)
  BY DEF Inv
<1>1. ASSUME NEW c \in Callers, NEW k \in Kinds, Begin(c, k)
      PROVE  Trace(d)' /\ Current(d)'
  BY <1>0, <1>1 DEF Begin

\* A try that fails leaves the call consistent if the call just lost sight of
\* it or the server has declared it dead.
<1>2. ASSUME NEW c \in Callers, FailTry(c), UNCHANGED <<kind, waited, task>>,
             pc[c] \in {"await", "poll"},
             fault' \in [Callers -> SUBSET {"lost", "poll", "timeout"}],
             \A e \in Callers \ {c} : fault'[e] = fault[e],
             \/ fault'[c] # {}
             \/ fault'[c] = fault[c] /\ task[c][attempt[c]] \in Dead
      PROVE  Trace(d)' /\ Current(d)'
  <2>1. CASE d # c
    BY <1>0, <1>2, <2>1 DEF FailTry, Return
  <2>2. CASE d = c /\ attempt[c] < Tries(kind[c])
    <3>1. attempt' = [attempt EXCEPT ![c] = @ + 1] /\ pc' = [pc EXCEPT ![c] = "post"]
      BY <1>2, <2>2 DEF FailTry
    <3>2. attempt[c] + 1 \in Attempts
      BY <2>2, TaskCallAssumption DEF Attempts
    <3>3. \A i \in Attempts : i < attempt[c] + 1 <=> i < attempt[c] \/ i = attempt[c]
      BY DEF Attempts
    <3>4. \A i \in Attempts : i > attempt[c] + 1 => i > attempt[c]
      BY DEF Attempts
    <3>5. attempt[c] + 1 > attempt[c]
      BY DEF Attempts
    <3>6. QED BY <1>0, <1>2, <2>2, <3>1, <3>2, <3>3, <3>4, <3>5
  <2>3. CASE d = c /\ ~(attempt[c] < Tries(kind[c]))
    BY <1>0, <1>2, <2>3 DEF FailTry, Return
  <2>4. QED BY <2>1, <2>2, <2>3
<1>3. ASSUME NEW c \in Callers, Send(c) PROVE Trace(d)' /\ Current(d)'
  BY <1>0, <1>3 DEF Send, Attempts
<1>4. ASSUME NEW c \in Callers, ReplyRejected(c) PROVE Trace(d)' /\ Current(d)'
  BY <1>4, <1>2 DEF ReplyRejected, Dead
<1>5. ASSUME NEW c \in Callers, ReplyImmediate(c) PROVE Trace(d)' /\ Current(d)'
  BY <1>0, <1>5 DEF ReplyImmediate, Return, Effective
<1>6. ASSUME NEW c \in Callers, ReplyTask(c) PROVE Trace(d)' /\ Current(d)'
  BY <1>0, <1>6 DEF ReplyTask
<1>7. ASSUME NEW c \in Callers, LoseReply(c) PROVE Trace(d)' /\ Current(d)'
  BY <1>7, <1>2 DEF LoseReply
<1>8. ASSUME NEW c \in Callers, PollSuccess(c) PROVE Trace(d)' /\ Current(d)'
  BY <1>0, <1>8 DEF PollSuccess, Polling, Return, Effective
<1>9. ASSUME NEW c \in Callers, PollFailed(c) PROVE Trace(d)' /\ Current(d)'
  BY <1>9, <1>2 DEF PollFailed, Polling, Dead
<1>10. ASSUME NEW c \in Callers, PollRunning(c) PROVE Trace(d)' /\ Current(d)'
  BY <1>0, <1>10 DEF PollRunning, Sleep
<1>11. ASSUME NEW c \in Callers, PollCutShort(c) PROVE Trace(d)' /\ Current(d)'
  BY <1>0, <1>11 DEF PollCutShort, Sleep
<1>12. ASSUME NEW c \in Callers, PollError(c) PROVE Trace(d)' /\ Current(d)'
  BY <1>12, <1>2 DEF PollError, Polling
<1>13. ASSUME NEW c \in Callers, Timeout(c) PROVE Trace(d)' /\ Current(d)'
  BY <1>13, <1>2 DEF Timeout

\* The server touches only a try that was sent or is running, so none that is
\* unsent or dead, and it never takes an effect back.
<1>14. ASSUME NEW c \in Callers, NEW i \in Attempts,
              Handle(c, i) \/ Finish(c, i)
       PROVE  Trace(d)' /\ Current(d)'
  <2>1. /\ task[c][i] \in {"sent", "running"}
        /\ \E s \in TaskStates \ {"none", "sent"} :
              task' = [task EXCEPT ![c][i] = s]
        /\ task[c][i] = "running" => task'[c][i] \in Ended
        /\ UNCHANGED <<pc, kind, attempt, waited, fault>>
    BY <1>14 DEF Handle, Finish, SetTask, TaskStates, Ended, Success, Effective, Dead
  <2>2. QED
    BY <1>0, <2>1 DEF Ended, Success, Effective, Dead
<1>15. CASE UNCHANGED vars
  BY <1>0, <1>15 DEF vars
<1>16. QED
  BY <1>1, <1>3, <1>4, <1>5, <1>6, <1>7, <1>8, <1>9, <1>10, <1>11, <1>12,
     <1>13, <1>14, <1>15
  DEF Next, ClientStep, ServerStep

\* The invariant holds in every state of every behaviour.
LEMMA InvAlways == Spec => []IInv
<1>1. Init => IInv
  BY TypeCorrect, TriesType
  DEF Init, IInv, Inv, TypeOK, Trace, Current, Kinds, TaskStates, Returned, Attempts
<1>2. IInv /\ [Next]_vars => IInv'
  BY TypeStep, InvStep DEF IInv
<1>3. QED
  BY <1>1, <1>2, PTL DEF Spec

-----------------------------------------------------------------------------
\* TaskCall!NoRepeatUnlessBlind: StatusChangeVm never repeats an operation that
\* may have happened, unless it lost sight of a try.
THEOREM NoRepeat == Spec => []NoRepeatUnlessBlind
<1>1. IInv => NoRepeatUnlessBlind
  BY DEF IInv, Inv, Trace, NoRepeatUnlessBlind
<1>2. QED
  BY <1>1, InvAlways, PTL

\* TaskCall!SettledOnReturn: WaitForCompletion and StatusChangeVm return a nil
\* error only for an operation the server carried out, and what a call that never
\* lost sight of a try reports is final.
THEOREM Settled == Spec => []SettledOnReturn
<1>1. IInv => SettledOnReturn
  <2> SUFFICES ASSUME IInv, NEW c \in Callers, pc[c] \in Returned, fault[c] = {},
                      NEW i \in Attempts
               PROVE  \/ pc[c] = "success" /\ i = attempt[c]
                      \/ task[c][i] \in Dead \cup {"none"}
    BY DEF SettledOnReturn, IInv, Inv, Current
  <2>1. Trace(c) /\ Current(c)
    BY DEF IInv, Inv
  <2>2. i < attempt[c] \/ i = attempt[c] \/ i > attempt[c]
    BY DEF IInv, TypeOK, Attempts
  <2>3. QED
    BY <2>1, <2>2 DEF Trace, Current, Returned
<1>2. QED
  BY <1>1, InvAlways, PTL

-----------------------------------------------------------------------------
(* Refinement: a call of the task layer is an AsyncOperation.              *)

APhase == [c \in Callers |-> Phase(c)]
AApplied == [c \in Callers |-> {i \in Attempts : task[c][i] \in Effective}]
ABlind == [c \in Callers |-> fault[c] # {}]

\* A step of one call leaves the abstract state of the others alone.
LEMMA RefinementStep == IInv /\ IInv' /\ [Next]_vars => [Op!Next]_(Op!vars)
<1> SUFFICES ASSUME IInv, IInv', [Next]_vars
             PROVE  Op!Next \/ UNCHANGED Op!vars
  OBVIOUS
<1> USE TriesType
<1>a. TypeOK /\ TypeOK'
  BY DEF IInv
<1>b. ASSUME NEW c \in Callers
      PROVE  Trace(c) /\ Current(c) /\ Trace(c)' /\ Current(c)'
  BY DEF IInv, Inv
<1>c. ASSUME UNCHANGED <<APhase, AApplied, ABlind>> PROVE UNCHANGED Op!vars
  BY <1>c DEF Op!vars, APhase, AApplied, ABlind
<1>1. ASSUME NEW c \in Callers, NEW k \in Kinds, Begin(c, k) PROVE Op!Call(c)
  <2>1. APhase' \in {[APhase EXCEPT ![c] = p] : p \in {"pending", "error"}}
    BY <1>1, <1>a DEF Begin, APhase, Phase, TypeOK, Returned
  <2>2. UNCHANGED <<AApplied, ABlind>> /\ APhase[c] = "idle"
    BY <1>1 DEF Begin, AApplied, ABlind, APhase, Phase
  <2>3. QED BY <2>1, <2>2 DEF Op!Call, APhase, AApplied, ABlind

\* A failed try either goes on with the next one or gives the call up.
<1>2. ASSUME NEW c \in Callers, FailTry(c), UNCHANGED <<kind, waited, task>>,
             pc[c] \in {"await", "poll"},
             \A e \in Callers \ {c} : fault'[e] = fault[e],
             \/ fault'[c] # {}
             \/ fault' = fault /\ task[c][attempt[c]] \in Dead
      PROVE  Op!Lose(c) \/ Op!GiveUp(c) \/ UNCHANGED Op!vars
  <2>1. UNCHANGED AApplied /\ APhase[c] = "pending"
    BY <1>2 DEF AApplied, APhase, Phase, Returned
  <2>2. ABlind' = [ABlind EXCEPT ![c] = fault'[c] # {}]
    BY <1>2, <1>a DEF ABlind, TypeOK
  <2>3. CASE attempt[c] < Tries(kind[c])
    <3>1. UNCHANGED APhase
      BY <1>2, <1>a, <2>3 DEF FailTry, APhase, Phase, TypeOK, Returned
    <3>2. CASE fault'[c] # {}
      BY <2>1, <2>2, <3>1, <3>2 DEF Op!Lose, APhase, AApplied, ABlind
    <3>3. CASE fault' = fault
      BY <1>c, <2>1, <3>1, <3>3 DEF ABlind
    <3>4. QED BY <1>2, <3>2, <3>3
  <2>4. CASE ~(attempt[c] < Tries(kind[c]))
    <3>1. APhase' = [APhase EXCEPT ![c] = "error"]
      BY <1>2, <1>a, <2>4 DEF FailTry, Return, APhase, Phase, TypeOK, Returned
    <3>2. (fault'[c] # {}) \/ AApplied[c] = {}
      <4>1. ASSUME fault' = fault, task[c][attempt[c]] \in Dead, fault[c] = {},
                   NEW i \in Attempts
            PROVE  task[c][i] \notin Effective
        <5>1. i < attempt[c] \/ i = attempt[c] \/ i > attempt[c]
          BY <1>a DEF TypeOK, Attempts
        <5>2. QED
          BY <1>b, <4>1, <5>1 DEF Trace, Dead, Effective, Success
      <4>2. QED BY <1>2, <4>1 DEF AApplied
    <3>3. ABlind[c] => fault'[c] # {}
      BY <1>2 DEF ABlind
    <3>4. (fault'[c] # {}) \in BOOLEAN
      OBVIOUS
    <3>5. Op!GiveUp(c)
      BY <2>1, <2>2, <3>1, <3>2, <3>3, <3>4 DEF Op!GiveUp, APhase, AApplied, ABlind
    <3>6. QED BY <3>5
  <2>5. QED BY <2>3, <2>4
<1>3. ASSUME NEW c \in Callers, Send(c) PROVE UNCHANGED Op!vars
  <2>1. \A e \in Callers, i \in Attempts :
           task'[e][i] \in Effective <=> task[e][i] \in Effective
    BY <1>3, <1>a, <1>b DEF Send, TypeOK, Trace, Effective, Success
  <2>2. UNCHANGED <<APhase, AApplied, ABlind>>
    BY <1>3, <1>a, <2>1 DEF Send, APhase, AApplied, ABlind, Phase, TypeOK, Returned
  <2>3. QED BY <1>c, <2>2
<1>4. ASSUME NEW c \in Callers, ReplyImmediate(c) \/ PollSuccess(c)
      PROVE  Op!Succeed(c)
  <2>a. /\ pc[c] \in {"await", "poll"}
        /\ pc' = [pc EXCEPT ![c] = "success"]
        /\ UNCHANGED <<task, fault>>
    BY <1>4 DEF ReplyImmediate, PollSuccess, Polling, Return
  <2>b. APhase' = [APhase EXCEPT ![c] = "success"] /\ APhase[c] = "pending"
    BY <1>a, <2>a DEF APhase, Phase, TypeOK
  <2>1. /\ APhase' = [APhase EXCEPT ![c] = "success"]
        /\ APhase[c] = "pending"
        /\ UNCHANGED <<AApplied, ABlind>>
    BY <2>a, <2>b DEF AApplied, ABlind
  <2>2. attempt[c] \in AApplied[c]
    BY <1>4, <1>a DEF ReplyImmediate, PollSuccess, AApplied, TypeOK, Effective
  <2>3. QED BY <2>1, <2>2 DEF Op!Succeed, APhase, AApplied, ABlind
<1>5. ASSUME NEW c \in Callers,
             ReplyTask(c) \/ PollRunning(c) \/ PollCutShort(c)
      PROVE  UNCHANGED Op!vars
  <2>1. UNCHANGED <<APhase, AApplied, ABlind>>
    BY <1>5, <1>a DEF ReplyTask, PollRunning, PollCutShort, Polling, Sleep,
       APhase, AApplied, ABlind, Phase, TypeOK, Returned
  <2>2. QED BY <1>c, <2>1
<1>6. ASSUME NEW c \in Callers,
             \/ ReplyRejected(c) \/ LoseReply(c) \/ PollFailed(c)
             \/ PollError(c) \/ Timeout(c)
      PROVE  Op!Lose(c) \/ Op!GiveUp(c) \/ UNCHANGED Op!vars
  <2>1. CASE ReplyRejected(c) \/ PollFailed(c)
    BY <1>2, <2>1 DEF ReplyRejected, PollFailed, Polling, Dead
  <2>2. CASE LoseReply(c) \/ PollError(c) \/ Timeout(c)
    <3>1. fault'[c] # {} /\ \A e \in Callers \ {c} : fault'[e] = fault[e]
      <4>1. \E f \in {"lost", "poll", "timeout"} :
               fault' = [fault EXCEPT ![c] = @ \cup {f}]
        BY <2>2 DEF LoseReply, PollError, Timeout
      <4>2. PICK f \in {"lost", "poll", "timeout"} :
               fault' = [fault EXCEPT ![c] = @ \cup {f}]
        BY <4>1
      <4>3. f \in fault'[c]
        BY <1>a, <4>2 DEF TypeOK
      <4>4. QED BY <1>a, <4>2, <4>3 DEF TypeOK
    <3>2. QED
      BY <1>2, <2>2, <3>1 DEF LoseReply, PollError, Timeout, Polling
  <2>3. QED BY <1>6, <2>1, <2>2

\* The server: only a try that is sent or running can take effect, and then
\* either the call is pending and this is its first effect, or it is blind.
<1>7. ASSUME NEW c \in Callers, NEW i \in Attempts,
             Handle(c, i) \/ Finish(c, i)
      PROVE  Op!Apply(c) \/ UNCHANGED Op!vars
  <2>1. PICK s \in TaskStates :
           /\ task[c][i] \in {"sent", "running"}
           /\ task' = [task EXCEPT ![c][i] = s]
           /\ UNCHANGED <<pc, kind, attempt, waited, fault>>
    BY <1>7 DEF Handle, Finish, SetTask, TaskStates, Ended, Effective, Dead, Success
  <2>2. UNCHANGED <<APhase, ABlind>>
    BY <2>1 DEF APhase, ABlind, Phase
  <2>3. task[c][i] \notin Effective
    BY <2>1 DEF Effective, Success
  <2>4. CASE s \in Effective
    <3>1. AApplied' = [AApplied EXCEPT ![c] = @ \cup {i}] /\ i \notin AApplied[c]
      <4>1. \A e \in Callers : AApplied'[e] =
               IF e = c THEN AApplied[c] \cup {i} ELSE AApplied[e]
        BY <1>a, <2>1, <2>4 DEF AApplied, TypeOK
      <4>2. AApplied' = [e \in Callers |-> AApplied'[e]]
        BY DEF AApplied
      <4>3. AApplied = [e \in Callers |-> AApplied[e]]
        BY DEF AApplied
      <4>4. i \notin AApplied[c]
        BY <2>3 DEF AApplied
      <4>5. QED BY <4>1, <4>2, <4>3, <4>4
    <3>2. pc[c] # "idle"
      <4>1. i = 1 \/ i > 1
        BY DEF Attempts
      <4>2. QED BY <1>b, <2>1, <4>1 DEF Trace
    <3>3. ASSUME fault[c] = {} PROVE APhase[c] = "pending" /\ AApplied[c] = {}
      <4>1. i = attempt[c]
        <5>1. i < attempt[c] \/ i = attempt[c] \/ i > attempt[c]
          BY <1>a DEF TypeOK, Attempts
        <5>2. QED BY <1>b, <2>1, <3>3, <5>1 DEF Trace, Dead
      <4>2. pc[c] \in {"await", "poll"}
        BY <1>a, <1>b, <2>1, <3>2, <3>3, <4>1
        DEF Current, Trace, TypeOK, Returned, Effective, Dead, Success
      <4>3. ASSUME NEW j \in Attempts PROVE task[c][j] \notin Effective
        <5>1. j < attempt[c] \/ j = attempt[c] \/ j > attempt[c]
          BY <1>a DEF TypeOK, Attempts
        <5>2. QED
          BY <1>b, <2>3, <3>3, <4>1, <5>1 DEF Trace, Dead, Effective, Success
      <4>4. QED BY <4>2, <4>3 DEF APhase, Phase, AApplied, Returned
    <3>4. APhase[c] # "idle"
      BY <3>2 DEF APhase, Phase, Returned
    <3>5. Op!Apply(c)
      BY <2>2, <3>1, <3>3, <3>4 DEF Op!Apply, APhase, AApplied, ABlind
    <3>6. QED BY <3>5
  <2>5. CASE s \notin Effective
    <3>1. UNCHANGED AApplied
      BY <1>a, <2>1, <2>3, <2>5 DEF AApplied, TypeOK
    <3>2. QED BY <1>c, <2>2, <3>1
  <2>6. QED BY <2>4, <2>5
<1>8. CASE UNCHANGED vars
  <2>1. UNCHANGED <<APhase, AApplied, ABlind>>
    BY <1>8 DEF vars, APhase, AApplied, ABlind, Phase
  <2>2. QED BY <1>c, <2>1
<1>9. QED
  BY <1>1, <1>3, <1>4, <1>5, <1>6, <1>7, <1>8
  DEF Next, ClientStep, ServerStep, Op!Next

\* TaskCall!ImplementsAsyncOperation: whatever is lost, delayed or repeated on
\* the wire, every behaviour of the task layer is one AsyncOperation allows.
THEOREM Refinement == Spec => ImplementsAsyncOperation
<1>1. Init => Op!Init
  <2> SUFFICES ASSUME Init PROVE Op!Init
    OBVIOUS
  <2>1. APhase = [c \in Callers |-> "idle"]
    BY DEF Init, APhase, Phase
  <2>2. AApplied = [c \in Callers |-> {}]
    <3>1. \A c \in Callers, i \in Attempts : task[c][i] \notin Effective
      BY DEF Init, Effective, Success
    <3>2. QED BY <3>1 DEF AApplied
  <2>3. ABlind = [c \in Callers |-> FALSE]
    BY DEF Init, ABlind
  <2>4. QED BY <2>1, <2>2, <2>3 DEF Op!Init, APhase, AApplied, ABlind
<1>2. QED
  BY <1>1, RefinementStep, InvAlways, PTL
  DEF Spec, ImplementsAsyncOperation, Op!Spec

-----------------------------------------------------------------------------
(* ClientCache.                                                            *)

\* l is what the client keeps of g's entry for the path p.
Kept(l, g, p) ==
    /\ p \in DOMAIN g
    /\ \A n \in Privs : l[n] = IF n = SysPowerMgmt THEN 0 ELSE g[p][n]

\* Where the entries of a map come from.
Sourced(map) ==
    /\ \A p \in DOMAIN map : \E g \in been : Kept(map[p], g, p)
    /\ Category \in DOMAIN map =>
          \E g \in been : Kept(map[Category], g, Category) /\ DOMAIN g \subseteq DOMAIN map

\* The calls that come to each step.
Placed(t) ==
    /\ at[t] \in {"nil?", "version", "setVersion", "load"} =>
          call[t].kind \in {"GetVersion", "Version"}
    /\ at[t] \in {"permissions", "setPermissions"} => call[t].kind \in {"Refresh", "Insert"}
    /\ at[t] = "check" => call[t].kind = "Check"

VersionInv ==
    /\ faults = 0 => version \in (1..running) \cup {Nil}
    /\ \A t \in Threads :
          at[t] = "setVersion" =>
             fetched[t] # Nil /\ (faults = 0 => fetched[t] \in 1..running)
    /\ RealUnlessFailed

PermissionInv ==
    /\ granted \in been
    /\ Sourced(permissions)
    /\ \A t \in Threads : at[t] = "setPermissions" => Sourced(extracted[t])
    /\ PassIsTrue
    /\ RefusalIsTrue

CacheInv == CacheTypeOK /\ (\A t \in Threads : Placed(t)) /\ VersionInv /\ PermissionInv

-----------------------------------------------------------------------------
\* What makes a map of permissions, and what is one.
LEMMA MapsDef ==
  /\ \A f \in Maps : /\ DOMAIN f \subseteq Paths
                     /\ f \in [DOMAIN f -> Levels]
                     /\ \A p \in DOMAIN f : f[p] \in Levels
  /\ \A S \in SUBSET Paths : \A f \in [S -> Levels] : f \in Maps
  /\ Empty \in Maps /\ DOMAIN Empty = {}
BY DEF Maps, Empty

\* What is left of a map, and what a client keeps of it, is a map.
LEMMA RestrictType ==
  ASSUME NEW f \in Maps, NEW S
  PROVE  /\ Restrict(f, S \cap DOMAIN f) \in Maps
         /\ Restrict(f, DOMAIN f \ S) \in Maps
<1>1. \A T \in SUBSET DOMAIN f : Restrict(f, T) \in [T -> Levels]
  BY MapsDef DEF Restrict
<1>2. QED BY <1>1, MapsDef

\* What a check reads of a map is a map of the same paths.
LEMMA MapToSDKType ==
  ASSUME NEW f \in Maps
  PROVE  MapToSDK(f) \in Maps /\ DOMAIN MapToSDK(f) = DOMAIN f
<1>1. \A p \in DOMAIN f : [n \in Privs |-> IF n = SysPowerMgmt THEN 0 ELSE f[p][n]] \in Levels
  BY MapsDef DEF Levels, Level
<1>2. MapToSDK(f) \in [DOMAIN f -> Levels]
  BY <1>1 DEF MapToSDK
<1>3. QED BY <1>2, MapsDef

\* Every variable keeps its type.
LEMMA CacheTypeStep == CacheTypeOK /\ [CacheNext]_cacheVars => CacheTypeOK'
<1> SUFFICES ASSUME CacheTypeOK, [CacheNext]_cacheVars PROVE CacheTypeOK'
  OBVIOUS
<1> USE ClientCacheAssumption DEF CacheTypeOK, Goto, Fault, server, cache
<1>1. CASE Upgrade
  BY <1>1 DEF Upgrade, Known
<1>2. CASE Grant
  <2>1. granted' \in Maps
    <3>1. PICK p \in Paths :
             \/ \E l \in Levels : granted' = [q \in DOMAIN granted \cup {p} |->
                                                 IF q = p THEN l ELSE granted[q]]
             \/ granted' = Restrict(granted, DOMAIN granted \ {p})
      BY <1>2 DEF Grant
    <3>2. ASSUME NEW l \in Levels,
                 granted' = [q \in DOMAIN granted \cup {p} |-> IF q = p THEN l ELSE granted[q]]
          PROVE  granted' \in Maps
      <4>1. granted' \in [DOMAIN granted \cup {p} -> Levels]
        BY <3>2, MapsDef
      <4>2. DOMAIN granted \cup {p} \in SUBSET Paths
        BY MapsDef
      <4>3. QED BY <4>1, <4>2, MapsDef
    <3>3. QED BY <3>1, <3>2, RestrictType
  <2>2. QED BY <1>2, <2>1 DEF Grant
<1>3. ASSUME NEW t \in Threads, NEW c \in Calls, Call(t, c) PROVE CacheTypeOK'
  <2>1. at' \in [Threads -> {"version", "nil?", "check", "permissions",
                             "idle", "setVersion", "load", "setPermissions",
                             "ok", "error", "refused"}]
    BY <1>3 DEF Call
  <2>2. QED BY <1>3, <2>1, MapsDef DEF Call
<1>4. ASSUME NEW t \in Threads, CheckNil(t) PROVE CacheTypeOK'
  BY <1>4 DEF CheckNil
<1>5. ASSUME NEW t \in Threads, FetchVersion(t) PROVE CacheTypeOK'
  BY <1>5 DEF FetchVersion
<1>6. ASSUME NEW t \in Threads, StoreVersion(t) PROVE CacheTypeOK'
  BY <1>6 DEF StoreVersion
<1>7. ASSUME NEW t \in Threads, LoadVersion(t) PROVE CacheTypeOK'
  BY <1>7 DEF LoadVersion
<1>8. ASSUME NEW t \in Threads, FetchPermissions(t) PROVE CacheTypeOK'
  BY <1>8, MapToSDKType DEF FetchPermissions
<1>9. ASSUME NEW t \in Threads, StorePermissions(t) PROVE CacheTypeOK'
  <2>1. permissions' \in Maps
    <3> DEFINE item == call[t].path
               inserted == [p \in DOMAIN permissions \cup {item} |->
                               IF p = item THEN extracted[t][p] ELSE permissions[p]]
    <3>1. ASSUME item \in DOMAIN extracted[t] PROVE inserted \in Maps
      <4>1. inserted \in [DOMAIN permissions \cup {item} -> Levels]
        BY <3>1, MapsDef
      <4>2. DOMAIN permissions \cup {item} \in SUBSET Paths
        BY <3>1, MapsDef
      <4>3. QED BY <4>1, <4>2, MapsDef
    <3>2. QED BY <1>9, <3>1 DEF StorePermissions
  <2>2. QED BY <1>9, <2>1 DEF StorePermissions
<1>10. ASSUME NEW t \in Threads, CheckPermissions(t) PROVE CacheTypeOK'
  BY <1>10, RestrictType DEF CheckPermissions
<1>11. CASE UNCHANGED cacheVars
  BY <1>11 DEF cacheVars
<1>12. QED
  BY <1>1, <1>2, <1>3, <1>4, <1>5, <1>6, <1>7, <1>8, <1>9, <1>10, <1>11 DEF CacheNext, Step

\* Every step is taken for the calls it belongs to.
LEMMA PlacedStep ==
  CacheTypeOK /\ (\A t \in Threads : Placed(t)) /\ [CacheNext]_cacheVars
     => \A t \in Threads : Placed(t)'
<1> SUFFICES ASSUME CacheTypeOK, \A t \in Threads : Placed(t), [CacheNext]_cacheVars,
                    NEW d \in Threads
             PROVE  Placed(d)'
  OBVIOUS
<1> USE DEF CacheTypeOK, Goto, Placed
<1>1. ASSUME NEW t \in Threads, NEW c \in Calls, Call(t, c) PROVE Placed(d)'
  <2>1. CASE d = t
    <3>1. call'[d] = c
      BY <1>1, <2>1 DEF Call
    <3>2. \/ at'[d] = "version" /\ c.kind = "GetVersion"
          \/ at'[d] = "nil?" /\ c.kind = "Version"
          \/ at'[d] = "check" /\ c.kind = "Check"
          \/ at'[d] = "permissions" /\ c.kind \in {"Refresh", "Insert"}
      BY <1>1, <2>1 DEF Call, Calls
    <3>3. QED BY <3>1, <3>2
  <2>2. CASE d # t
    BY <1>1, <2>2 DEF Call
  <2>3. QED BY <2>1, <2>2
<1>2. ASSUME NEW t \in Threads, Step(t) PROVE Placed(d)'
  <2>1. call' = call
    BY <1>2 DEF Step, CheckNil, FetchVersion, StoreVersion, LoadVersion, FetchPermissions,
                StorePermissions, CheckPermissions
  <2>2. QED
    BY <1>2, <2>1 DEF Step, CheckNil, FetchVersion, StoreVersion, LoadVersion,
                            FetchPermissions, StorePermissions, CheckPermissions
<1>3. CASE Upgrade \/ Grant \/ UNCHANGED cacheVars
  BY <1>3 DEF Upgrade, Grant, cacheVars
<1>4. QED BY <1>1, <1>2, <1>3 DEF CacheNext

-----------------------------------------------------------------------------
\* No step makes the cached version nil again, or one the server has not run
\* while no fetch has failed.
LEMMA VersionStep ==
  CacheTypeOK /\ (\A t \in Threads : Placed(t)) /\ VersionInv /\ [CacheNext]_cacheVars
     => VersionInv'
<1> SUFFICES ASSUME CacheTypeOK, \A t \in Threads : Placed(t), VersionInv,
                    [CacheNext]_cacheVars
             PROVE  VersionInv'
  OBVIOUS
<1> USE ClientCacheAssumption DEF CacheTypeOK, Goto, Fault, Known, Zero, Nil, server, cache
<1>1. CASE Upgrade
  BY <1>1 DEF Upgrade, VersionInv, RealUnlessFailed, Answered
<1>2. CASE Grant \/ UNCHANGED cacheVars
  BY <1>2 DEF Grant, cacheVars, VersionInv, RealUnlessFailed, Answered
<1>3. ASSUME NEW t \in Threads, NEW c \in Calls, Call(t, c) PROVE VersionInv'
  <2>1. at'[t] \in {"version", "nil?", "check", "permissions"}
    BY <1>3 DEF Call
  <2>2. UNCHANGED <<running, version, faults>>
    BY <1>3 DEF Call
  <2>3. \A d \in Threads \ {t} : at'[d] = at[d] /\ call'[d] = call[d] /\ fetched'[d] = fetched[d]
    BY <1>3 DEF Call
  <2>4. QED BY <2>1, <2>2, <2>3 DEF VersionInv, RealUnlessFailed, Answered
<1>4. ASSUME NEW t \in Threads, CheckNil(t) PROVE VersionInv'
  BY <1>4 DEF CheckNil, VersionInv, RealUnlessFailed, Answered
<1>5. ASSUME NEW t \in Threads, FetchVersion(t) PROVE VersionInv'
  BY <1>5 DEF FetchVersion, VersionInv, RealUnlessFailed, Answered
<1>6. ASSUME NEW t \in Threads, StoreVersion(t) PROVE VersionInv'
  BY <1>6 DEF StoreVersion, VersionInv, RealUnlessFailed, Answered
<1>7. ASSUME NEW t \in Threads, LoadVersion(t) PROVE VersionInv'
  BY <1>7 DEF LoadVersion, VersionInv, RealUnlessFailed, Answered
<1>8. ASSUME NEW t \in Threads, FetchPermissions(t) \/ StorePermissions(t) \/ CheckPermissions(t)
      PROVE  VersionInv'
  <2>1. UNCHANGED <<running, version, call, fetched>> /\ faults' \in Nat
    BY <1>8 DEF FetchPermissions, StorePermissions, CheckPermissions
  <2>2. faults' = 0 => faults = 0
    BY <1>8 DEF FetchPermissions, StorePermissions, CheckPermissions
  <2>3. /\ at'[t] \notin {"setVersion", "load"}
        /\ call[t].kind \notin {"GetVersion", "Version"}
        /\ \A d \in Threads \ {t} : at'[d] = at[d]
    BY <1>8 DEF FetchPermissions, StorePermissions, CheckPermissions, Placed
  <2>4. QED BY <2>1, <2>2, <2>3 DEF VersionInv, RealUnlessFailed, Answered
<1>9. QED
  BY <1>1, <1>2, <1>3, <1>4, <1>5, <1>6, <1>7, <1>8 DEF CacheNext, Step

-----------------------------------------------------------------------------
\* What a fetch returns comes from the server as it is.
LEMMA FetchSourced ==
  ASSUME NEW f \in Maps, f \in been
  PROVE  Sourced(MapToSDK(f))
<1>1. \A p \in DOMAIN f : Kept(MapToSDK(f)[p], f, p)
  BY DEF Kept, MapToSDK
<1>2. DOMAIN MapToSDK(f) = DOMAIN f
  BY DEF MapToSDK
<1>3. QED BY <1>1, <1>2 DEF Sourced

\* A new item changes neither the category in the cache nor the items there are.
LEMMA InsertSourced ==
  ASSUME NEW m, NEW e, NEW item \in Items, item \in DOMAIN e, Sourced(m), Sourced(e)
  PROVE  Sourced([p \in DOMAIN m \cup {item} |-> IF p = item THEN e[p] ELSE m[p]])
<1> DEFINE new == [p \in DOMAIN m \cup {item} |-> IF p = item THEN e[p] ELSE m[p]]
<1>1. DOMAIN new = DOMAIN m \cup {item}
  OBVIOUS
<1>2. \A p \in DOMAIN new : \E g \in been : Kept(new[p], g, p)
  BY DEF Sourced
<1>3. item # Category
  BY ClientCacheAssumption
<1>4. ASSUME Category \in DOMAIN new
      PROVE  \E g \in been : Kept(new[Category], g, Category) /\ DOMAIN g \subseteq DOMAIN new
  <2>1. Category \in DOMAIN m /\ new[Category] = m[Category]
    BY <1>1, <1>3, <1>4
  <2>2. QED BY <1>1, <2>1 DEF Sourced
<1>5. QED BY <1>2, <1>4 DEF Sourced

\* What was true of the server once stays so.
LEMMA BeenGrows ==
  ASSUME NEW m, Sourced(m), been \subseteq been'
  PROVE  Sourced(m)'
BY DEF Sourced, Kept

\* A check that passes with an entry of the item or the category, and one that
\* is refused.
LEMMA CheckIsTrue ==
  ASSUME Sourced(permissions), permissions \in Maps, been \subseteq Maps,
         NEW path \in Paths, NEW needed \in SUBSET Privs,
         NEW map, map = Restrict(permissions, {path, Category} \cap DOMAIN permissions)
  PROVE  /\ Passes(map, path, needed) /\ DOMAIN map # {} =>
               \E g \in been : \A n \in needed : Has(g, path, n)
         /\ ~Passes(map, path, needed) /\ SysPowerMgmt \notin needed =>
               \/ \E g \in been : \E n \in needed : ~Has(g, path, n)
               \/ Overruled(map, path, needed)
<1>1. /\ DOMAIN map = {path, Category} \cap DOMAIN permissions
      /\ \A p \in DOMAIN map : map[p] = permissions[p]
  BY DEF Restrict
<1>2. \A g \in been : \A p \in DOMAIN g : \A n \in Privs : g[p][n] \in 0..2
  BY MapsDef DEF Levels, Level
<1>3. ASSUME Passes(map, path, needed), path \in Items \cap DOMAIN map
      PROVE  \E g \in been : \A n \in needed : Has(g, path, n)
  <2>1. PICK g \in been : Kept(permissions[path], g, path)
    BY <1>1, <1>3 DEF Sourced
  <2>2. \A n \in needed : permissions[path][n] >= 1
    BY <1>1, <1>3 DEF Passes, Includes
  <2>3. \A n \in needed : g[path][n] >= 1
    BY <2>1, <2>2 DEF Kept
  <2>4. QED BY <1>3, <2>1, <2>3 DEF Has, Kept
<1>4. ASSUME Passes(map, path, needed), DOMAIN map # {}, path \notin Items \cap DOMAIN map
      PROVE  \E g \in been : \A n \in needed : Has(g, path, n)
  <2>1. Category \in DOMAIN map
    BY <1>1, <1>4 DEF Paths
  <2>2. PICK g \in been :
           Kept(permissions[Category], g, Category) /\ DOMAIN g \subseteq DOMAIN permissions
    BY <1>1, <2>1 DEF Sourced
  <2>3. path \notin Items \cap DOMAIN g
    BY <1>1, <1>4, <2>2
  <2>4. \A n \in needed : permissions[Category][n] >= 2
    BY <1>1, <1>4, <2>1 DEF Passes, Includes
  <2>5. \A n \in needed : g[Category][n] = 2
    BY <1>2, <2>2, <2>4 DEF Kept
  <2>6. QED BY <2>2, <2>3, <2>5 DEF Has, Kept
<1>5. ASSUME ~Passes(map, path, needed), SysPowerMgmt \notin needed
      PROVE  \/ \E g \in been : \E n \in needed : ~Has(g, path, n)
             \/ Overruled(map, path, needed)
  <2>1. \A p \in DOMAIN permissions : \A n \in Privs : permissions[p][n] \in 0..2
    BY MapsDef DEF Levels, Level
  <2>2. CASE path \in Items \cap DOMAIN map /\ ~Includes(map[path], needed, 1)
    <3>1. PICK n \in needed : permissions[path][n] = 0
      <4>1. PICK n \in needed : ~(permissions[path][n] >= 1)
        BY <1>1, <2>2 DEF Includes
      <4>2. permissions[path][n] \in 0..2
        BY <1>1, <2>1, <2>2
      <4>3. QED BY <4>1, <4>2
    <3>2. PICK g \in been : Kept(permissions[path], g, path)
      BY <1>1, <2>2 DEF Sourced
    <3>3. QED BY <1>5, <2>2, <3>1, <3>2 DEF Kept, Has
  <2>3. CASE /\ Category \in DOMAIN map /\ ~Includes(map[Category], needed, 2)
             /\ path \notin Items \cap DOMAIN map
    <3>1. PICK n \in needed : permissions[Category][n] < 2
      <4>1. PICK n \in needed : ~(permissions[Category][n] >= 2)
        BY <1>1, <2>3 DEF Includes
      <4>2. permissions[Category][n] \in 0..2
        BY <1>1, <2>1, <2>3
      <4>3. QED BY <4>1, <4>2
    <3>2. PICK g \in been :
             Kept(permissions[Category], g, Category) /\ DOMAIN g \subseteq DOMAIN permissions
      BY <1>1, <2>3 DEF Sourced
    <3>3. path \notin Items \cap DOMAIN g
      BY <1>1, <2>3, <3>2
    <3>4. g[Category][n] # 2
      BY <1>5, <3>1, <3>2 DEF Kept
    <3>5. QED BY <3>2, <3>3, <3>4 DEF Has
  <2>4. CASE /\ Category \in DOMAIN map /\ ~Includes(map[Category], needed, 2)
             /\ path \in Items \cap DOMAIN map /\ Includes(map[path], needed, 1)
    BY <2>4 DEF Overruled
  <2>5. QED BY <1>5, <2>2, <2>3, <2>4 DEF Passes
<1>6. QED BY <1>3, <1>4, <1>5

\* The cache stays sourced, and what a check finds in it is true.
LEMMA PermissionStep ==
  CacheTypeOK /\ (\A t \in Threads : Placed(t)) /\ PermissionInv /\ [CacheNext]_cacheVars
     => PermissionInv'
<1> SUFFICES ASSUME CacheTypeOK, \A t \in Threads : Placed(t), PermissionInv,
                    [CacheNext]_cacheVars
             PROVE  PermissionInv'
  OBVIOUS
<1> USE DEF CacheTypeOK, Goto, server, cache
<1>1. been \subseteq been' /\ granted' \in been'
  BY DEF PermissionInv, CacheNext, Step, Upgrade, Grant, Call, CheckNil, FetchVersion, StoreVersion,
         LoadVersion, FetchPermissions, StorePermissions, CheckPermissions, cacheVars
<1>2. ASSUME NEW t \in Threads, StorePermissions(t) PROVE Sourced(permissions)'
  <2>1. Sourced(extracted[t]) /\ Sourced(permissions)
    BY <1>2 DEF StorePermissions, PermissionInv
  <2>2. call[t].kind = "Insert" => call[t].path \in Items
    BY DEF Calls
  <2>3. call[t].kind \in {"Refresh", "Insert"}
    BY <1>2 DEF StorePermissions, Placed
  <2>4. Sourced(permissions')
    <3> DEFINE item == call[t].path
               inserted == [p \in DOMAIN permissions \cup {item} |->
                               IF p = item THEN extracted[t][p] ELSE permissions[p]]
    <3>1. permissions' = IF call[t].kind = "Refresh" THEN extracted[t]
                         ELSE IF item \in DOMAIN extracted[t] THEN inserted
                         ELSE permissions
      BY <1>2 DEF StorePermissions
    <3>2. ASSUME item \in Items, item \in DOMAIN extracted[t] PROVE Sourced(inserted)
      <4> DEFINE old == permissions
                 entries == extracted[t]
      <4>1. Sourced(old) /\ Sourced(entries)
        BY <2>1
      <4> HIDE DEF old, entries, item
      <4>2. item \in Items /\ item \in DOMAIN entries
        BY <3>2 DEF entries
      <4>3. Sourced([p \in DOMAIN old \cup {item} |-> IF p = item THEN entries[p] ELSE old[p]])
        BY ONLY <4>1, <4>2, InsertSourced
      <4>4. QED BY ONLY <4>3 DEF old, entries
    <3> HIDE DEF inserted
    <3>3. QED BY <2>1, <2>2, <2>3, <3>1, <3>2
  <2>5. been' = been
    BY <1>2 DEF StorePermissions
  <2>6. QED BY <2>4, <2>5 DEF Sourced, Kept
<1>3. Sourced(permissions)'
  <2>1. CASE permissions' = permissions
    BY <1>1, <2>1, BeenGrows DEF PermissionInv
  <2>2. CASE \E t \in Threads : StorePermissions(t)
    BY <1>2, <2>2
  <2>3. QED
    BY <2>1, <2>2 DEF CacheNext, Step, Upgrade, Grant, Call, CheckNil, FetchVersion, StoreVersion,
       LoadVersion, FetchPermissions, CheckPermissions, cacheVars
<1>4. ASSUME NEW d \in Threads, at'[d] = "setPermissions" PROVE Sourced(extracted[d])'
  <2>1. CASE at[d] = "setPermissions" /\ extracted'[d] = extracted[d]
    <3>1. Sourced(extracted[d])
      BY <2>1 DEF PermissionInv
    <3>2. QED BY <1>1, <2>1, <3>1 DEF Sourced, Kept
  <2>2. CASE FetchPermissions(d)
    <3>1. extracted'[d] = MapToSDK(granted) /\ been' = been
      BY <1>4, <2>2 DEF FetchPermissions
    <3>2. Sourced(MapToSDK(granted))
      BY FetchSourced DEF PermissionInv
    <3>3. QED BY <3>1, <3>2 DEF Sourced, Kept
  <2>3. (at[d] = "setPermissions" /\ extracted'[d] = extracted[d]) \/ FetchPermissions(d)
    <3>1. ASSUME NEW t \in Threads, NEW c \in Calls, Call(t, c)
          PROVE  at[d] = "setPermissions" /\ extracted'[d] = extracted[d]
      <4>1. at'[t] \in {"version", "nil?", "check", "permissions"}
        BY <1>4, <3>1 DEF Call
      <4>2. QED BY <1>4, <3>1, <4>1 DEF Call
    <3>2. ASSUME NEW t \in Threads, Step(t)
          PROVE  (at[d] = "setPermissions" /\ extracted'[d] = extracted[d]) \/ FetchPermissions(d)
      BY <1>4, <3>2 DEF Step, CheckNil, FetchVersion, StoreVersion, LoadVersion,
         FetchPermissions, StorePermissions, CheckPermissions
    <3>3. CASE Upgrade \/ Grant \/ UNCHANGED cacheVars
      BY <1>4, <3>3 DEF Upgrade, Grant, cacheVars
    <3>4. QED BY <3>1, <3>2, <3>3 DEF CacheNext
  <2>4. QED BY <2>1, <2>2, <2>3
<1>5. ASSUME NEW d \in Threads
      PROVE  \/ CheckPermissions(d)
             \/ UNCHANGED <<at[d], call[d], extracted[d]>>
             \/ at'[d] = "ok" /\ call'[d].kind # "Check"
             \/ at'[d] \notin {"ok", "refused"}
  <2>1. ASSUME NEW t \in Threads, NEW c \in Calls, Call(t, c)
        PROVE  \/ UNCHANGED <<at[d], call[d], extracted[d]>>
               \/ at'[d] \notin {"ok", "refused"}
    <3>1. at'[t] \in {"version", "nil?", "check", "permissions"}
      BY <2>1 DEF Call
    <3>2. QED BY <2>1, <3>1 DEF Call
  <2>2. ASSUME NEW t \in Threads, Step(t), t # d
        PROVE  UNCHANGED <<at[d], call[d], extracted[d]>>
    BY <2>2 DEF Step, CheckNil, FetchVersion, StoreVersion, LoadVersion,
       FetchPermissions, StorePermissions, CheckPermissions
  <2>3. ASSUME Step(d)
        PROVE  \/ CheckPermissions(d)
               \/ at'[d] = "ok" /\ call'[d].kind # "Check"
               \/ at'[d] \notin {"ok", "refused"}
    BY <2>3 DEF Step, CheckNil, FetchVersion, StoreVersion, LoadVersion,
       FetchPermissions, StorePermissions, Placed
  <2>4. CASE Upgrade \/ Grant \/ UNCHANGED cacheVars
    BY <2>4 DEF Upgrade, Grant, cacheVars
  <2>5. QED BY <2>1, <2>2, <2>3, <2>4 DEF CacheNext
<1>6. ASSUME NEW d \in Threads, CheckPermissions(d)
      PROVE  /\ at'[d] = "ok" /\ DOMAIN extracted'[d] # {} =>
                   \E g \in been : \A n \in call[d].needed : Has(g, call[d].path, n)
             /\ at'[d] = "refused" /\ SysPowerMgmt \notin call[d].needed =>
                   \/ \E g \in been : \E n \in call[d].needed : ~Has(g, call[d].path, n)
                   \/ Overruled(extracted'[d], call[d].path, call[d].needed)
             /\ call' = call
  <2> DEFINE map == Restrict(permissions, {call[d].path, Category} \cap DOMAIN permissions)
  <2>1. call[d].path \in Paths /\ call[d].needed \in SUBSET Privs
    BY DEF Calls, Paths
  <2>2. /\ extracted'[d] = map /\ call' = call
        /\ at'[d] = IF Passes(map, call[d].path, call[d].needed) THEN "ok" ELSE "refused"
    BY <1>6 DEF CheckPermissions
  <2>3. Sourced(permissions)
    BY DEF PermissionInv
  <2>4. QED BY <2>1, <2>2, <2>3, CheckIsTrue
<1>7. PassIsTrue'
  BY <1>1, <1>5, <1>6 DEF PassIsTrue, PermissionInv, Has
<1>8. RefusalIsTrue'
  BY <1>1, <1>5, <1>6 DEF RefusalIsTrue, PermissionInv, Has, Overruled, Includes
<1>9. QED BY <1>1, <1>3, <1>4, <1>7, <1>8 DEF PermissionInv

\* The cache is empty and no call has been made.
LEMMA CacheInitial == CacheInit => CacheInv
<1> SUFFICES ASSUME CacheInit PROVE CacheInv
  OBVIOUS
<1> USE ClientCacheAssumption DEF CacheInit, Zero, Nil
<1>1. CacheTypeOK
  BY MapsDef DEF CacheTypeOK, Known, Calls
<1>2. \A t \in Threads : Placed(t)
  BY DEF Placed
<1>3. VersionInv
  BY DEF VersionInv, RealUnlessFailed, Answered
<1>4. PermissionInv
  BY MapsDef DEF PermissionInv, Sourced, PassIsTrue, RefusalIsTrue
<1>5. QED BY <1>1, <1>2, <1>3, <1>4 DEF CacheInv

\* Every part of the invariant is preserved.
LEMMA CacheInductive == CacheInv /\ [CacheNext]_cacheVars => CacheInv'
BY CacheTypeStep, PlacedStep, VersionStep, PermissionStep DEF CacheInv

-----------------------------------------------------------------------------
\* The caches, the server and what goroutines have in their hands keep their
\* types.
THEOREM CacheTypeCorrect == CacheSpec => []CacheTypeOK
<1>1. CacheInv => CacheTypeOK
  BY DEF CacheInv
<1>2. QED BY CacheInitial, CacheInductive, <1>1, PTL DEF CacheSpec

\* RealUnlessFailed: the look at c.version outside the mutex is safe, because no
\* goroutine ever stores nil; and as long as no fetch has failed GetVersion and
\* Version answer with a version that the server has run, whoever stored it.
THEOREM VersionReal == CacheSpec => []RealUnlessFailed
<1>1. CacheInv => RealUnlessFailed
  BY DEF CacheInv, VersionInv
<1>2. QED BY CacheInitial, CacheInductive, <1>1, PTL DEF CacheSpec

\* PassIsTrue: a check that found anything in the cache and passed is right about
\* the server at some time, whatever was refreshed and inserted meanwhile.
THEOREM PassedRightly == CacheSpec => []PassIsTrue
<1>1. CacheInv => PassIsTrue
  BY DEF CacheInv, PermissionInv
<1>2. QED BY CacheInitial, CacheInductive, <1>1, PTL DEF CacheSpec

\* RefusalIsTrue: a check that is refused, and does not ask for SysPowerMgmt,
\* lacked a privilege on the server at some time; or else the cached entry of the
\* category has overruled that of the item, which grants everything.
THEOREM RefusedRightly == CacheSpec => []RefusalIsTrue
<1>1. CacheInv => RefusalIsTrue
  BY DEF CacheInv, PermissionInv
<1>2. QED BY CacheInitial, CacheInductive, <1>1, PTL DEF CacheSpec

-----------------------------------------------------------------------------
(* HaResource.                                                             *)

\* What the POST of "Activate HA" makes.
Added(r) == [state |-> Started, group |-> want[r].group]

\* A VmRef b that was read while the guest had the resource h; it may remember
\* more than that.
Agrees(b, h) ==
    h # Out => b.state = h.state /\ (h.group # Nothing => b.group = h.group)

\* The settings are as asked for, or were taken to be.
HaSettled(r) ==
    \/ Meets(ha, want[r])
    \/ vmr[r] = want[r] /\ (op[r] = "qemuUpdate" => Outlived(vmr[r], start[r]))

\* The operations that come to each request, and what UpdateVMHA has compared.
HaPlaced(r) ==
    /\ place[r] = "create" => op[r] \in {"lxcCreate", "lxcClone"}
    /\ place[r] \in {"compare", "remove", "add", "set", "config"} => op[r] \in Updates
    /\ place[r] = "info" => op[r] \in Reads \cup {"qemuUpdate", "delete"}
    /\ place[r] = "read" => op[r] \in Reads \cup {"qemuUpdate"}
    /\ place[r] \in {"update", "infoAgain", "readAgain", "rest"} => op[r] = "qemuUpdate"
    /\ place[r] \in {"release", "delete"} => op[r] = "delete"
    /\ place[r] = "remove" => want[r].state = Nothing
    /\ place[r] \in {"add", "set"} => want[r].state # Nothing

\* How far a call has come with the resource.
Come(r) ==
    /\ place[r] \in {"info", "read", "update", "infoAgain", "readAgain", "rest", "reboot",
                    "create", "compare", "remove", "add"} => ha = start[r]
    /\ place[r] \in {"update", "infoAgain", "readAgain", "rest"} => Agrees(vmr[r], start[r])
    /\ place[r] = "compare" /\ op[r] = "qemuUpdate" => Agrees(vmr[r], start[r])
    /\ place[r] = "set" => ha \in {start[r], Added(r)}
    /\ place[r] = "config" => HaSettled(r) /\ (ha = start[r] \/ Meets(ha, want[r]))
    /\ place[r] = "ok" /\ op[r] \in Updates => HaSettled(r)
    /\ place[r] = "error" /\ op[r] \in Updates =>
          ha \in {start[r], Added(r)} \/ Meets(ha, want[r])

Stage(r) == HaPlaced(r) /\ (start[r] # Unknown => Come(r))

HaInv == HaTypeOK /\ \A r \in Refs : Stage(r)

-----------------------------------------------------------------------------
\* Every variable keeps its type.
LEMMA HaTypeStep == HaInv /\ [HaNext]_haVars => HaTypeOK'
<1> SUFFICES ASSUME HaInv, [HaNext]_haVars PROVE HaTypeOK'
  OBVIOUS
<1> USE HaResourceAssumption
    DEF HaInv, HaTypeOK, HaGoto, HaFault, Surprise, cluster, HaReturned, Beliefs, Settings, Out
<1>1. ASSUME NEW r \in Refs, NEW k \in HaKinds(type), NEW w \in Wants(k), HaBegin(r, k, w)
      PROVE  HaTypeOK'
  BY <1>1 DEF HaBegin, Wants, HaKinds
<1>2. ASSUME NEW r \in Refs, GetVmInfo(r) PROVE HaTypeOK'
  <2>1. UNCHANGED <<type, guest, ha, op, want, start, others>>
    BY <1>2 DEF GetVmInfo
  <2>2. located' \in [Refs -> BOOLEAN]
    BY <1>2 DEF GetVmInfo
  <2>3. vmr' \in [Refs -> Beliefs]
    BY <1>2 DEF GetVmInfo
  <2>4. /\ place' = [place EXCEPT ![r] = place'[r]]
        /\ place'[r] \in {"release", "read", "readAgain", "error"}
    BY <1>2 DEF GetVmInfo
  <2>5. lost' \in 0..MaxLost
    BY <1>2 DEF GetVmInfo
  <2>6. QED BY ZenonT(60), <2>1, <2>2, <2>3, <2>4, <2>5
<1>3. ASSUME NEW r \in Refs, ReadVMHA(r) PROVE HaTypeOK'
  <2>1. UNCHANGED <<type, guest, ha, located, op, want, others>>
    BY <1>3 DEF ReadVMHA
  <2>2. vmr' \in [Refs -> Beliefs]
    BY <1>3 DEF ReadVMHA
  <2>3. place' = [place EXCEPT ![r] = place'[r]] /\ place'[r] \in {"ok", "update", "rest"}
    BY <1>3 DEF ReadVMHA
  <2>4. start' \in [Refs -> Settings \cup {Out, Unknown}]
    BY <1>3 DEF ReadVMHA
  <2>5. lost' \in 0..MaxLost
    BY <1>3 DEF ReadVMHA
  <2>6. QED BY ZenonT(60), <2>1, <2>2, <2>3, <2>4, <2>5
<1>4. ASSUME NEW r \in Refs, Create(r) PROVE HaTypeOK'
  <2>1. UNCHANGED <<type, ha, vmr, located, op, want, others>>
    BY <1>4 DEF Create
  <2>2. guest' \in BOOLEAN /\ (guest => guest')
    BY <1>4 DEF Create
  <2>3. place' = [place EXCEPT ![r] = place'[r]] /\ place'[r] \in {"compare", "error", "panic"}
    BY <1>4 DEF Create
  <2>4. start' = start \/ Surprise(r)
    BY <1>4 DEF Create
  <2>5. lost' \in 0..MaxLost
    BY <1>4 DEF Create
  <2>6. QED BY SMTT(30), <2>1, <2>2, <2>3, <2>4, <2>5
<1>5. ASSUME NEW r \in Refs, Compare(r) PROVE HaTypeOK'
  BY <1>5 DEF Compare, Done
<1>6. ASSUME NEW r \in Refs, Remove(r) PROVE HaTypeOK'
  BY <1>6 DEF Remove, Change, Done
<1>7. ASSUME NEW r \in Refs, Add(r) PROVE HaTypeOK'
  BY SMTT(30), <1>7 DEF Add, Change
<1>8. ASSUME NEW r \in Refs, Set(r) PROVE HaTypeOK'
  <2>1. UNCHANGED <<type, guest, vmr, located, op, want, others>>
    BY <1>8 DEF Set, Change
  <2>2. want[r] \in Settings
    BY <1>8 DEF Set, Stage, HaPlaced
  <2>3. ha' \in Settings \cup {Out} /\ (ha' # Out => guest')
    BY <1>8, <2>2 DEF Set, Change
  <2>4. place' = [place EXCEPT ![r] = place'[r]] /\ place'[r] \in {"ok", "config", "error"}
    BY <1>8 DEF Set, Change, Done
  <2>5. start' \in [Refs -> Settings \cup {Out, Unknown}]
    BY <1>8 DEF Set, Change
  <2>6. lost' \in 0..MaxLost
    BY <1>8 DEF Set, Change
  <2>7. QED BY ZenonT(60), <2>1, <2>3, <2>4, <2>5, <2>6
<1>9. ASSUME NEW r \in Refs, Config(r) PROVE HaTypeOK'
  BY SMTT(30), <1>9 DEF Config
<1>10. ASSUME NEW r \in Refs, Release(r) PROVE HaTypeOK'
  BY SMTT(30), <1>10 DEF Release, Change
<1>11. ASSUME NEW r \in Refs, Delete(r) PROVE HaTypeOK'
  <2>1. UNCHANGED <<type, ha, vmr, located, op, want, others>>
    BY <1>11 DEF Delete
  <2>2. guest' \in BOOLEAN /\ (ha # Out => guest')
    BY <1>11 DEF Delete
  <2>3. place' = [place EXCEPT ![r] = place'[r]] /\ place'[r] \in {"ok", "error"}
    BY <1>11 DEF Delete
  <2>4. start' = start \/ Surprise(r)
    BY <1>11 DEF Delete
  <2>5. lost' \in 0..MaxLost
    BY <1>11 DEF Delete
  <2>6. QED BY <2>1, <2>2, <2>3, <2>4, <2>5
<1>12. ASSUME NEW r \in Refs, Update(r) PROVE HaTypeOK'
  <2>1. UNCHANGED <<type, guest, ha, vmr, located, op, want, start, lost, others>>
    BY <1>12 DEF Update
  <2>2. /\ place' = [place EXCEPT ![r] = place'[r]]
        /\ place'[r] \in {"infoAgain", "compare", "reboot", "error"}
    BY <1>12 DEF Update
  <2>3. QED BY <2>1, <2>2
<1>13. CASE Other
  BY <1>13 DEF Other
<1>14. CASE UNCHANGED haVars
  BY <1>14 DEF haVars
<1>15. QED
  BY <1>1, <1>2, <1>3, <1>4, <1>5, <1>6, <1>7, <1>8, <1>9, <1>10, <1>11, <1>12, <1>13, <1>14
  DEF HaNext, HaStep

-----------------------------------------------------------------------------
\* A step of another call, or of somebody else, leaves a call where it is and
\* either leaves the resource alone or sets its start to Unknown.
LEMMA ElsewhereKeeps ==
  ASSUME NEW d \in Refs, Stage(d),
         place'[d] = place[d], op'[d] = op[d], want'[d] = want[d], vmr'[d] = vmr[d],
         start'[d] = Unknown \/ (start'[d] = start[d] /\ ha' = ha)
  PROVE  Stage(d)'
<1>1. HaPlaced(d)'
  BY DEF Stage, HaPlaced
<1>2. ASSUME start'[d] # Unknown PROVE Come(d)'
  BY <1>2 DEF Stage, Come, HaSettled, Added, Meets
<1>3. QED BY <1>1, <1>2 DEF Stage

\* The steps of r are elsewhere for every other call.
LEMMA StepElsewhere ==
  ASSUME HaInv, NEW r \in Refs, NEW d \in Refs \ {r},
         HaStep(r) \/ \E k \in HaKinds(type) : \E w \in Wants(k) : HaBegin(r, k, w)
  PROVE  Stage(d)'
<1> USE DEF HaInv, HaTypeOK, HaGoto, HaFault, Surprise
<1>1. place'[d] = place[d] /\ op'[d] = op[d] /\ want'[d] = want[d]
  BY DEF HaStep, HaBegin, GetVmInfo, ReadVMHA, Update, Create, Compare, Remove, Add, Set,
         Config, Release, Delete, Change, cluster
<1>2. vmr'[d] = vmr[d]
  BY DEF HaStep, HaBegin, GetVmInfo, ReadVMHA, Update, Create, Compare, Remove, Add, Set,
         Config, Release, Delete, Change, cluster
<1>3. start'[d] = Unknown \/ (start'[d] = start[d] /\ ha' = ha)
  BY DEF HaStep, HaBegin, GetVmInfo, ReadVMHA, Update, Create, Compare, Remove, Add, Set,
         Config, Release, Delete, Change, cluster
<1>4. QED BY <1>1, <1>2, <1>3, ElsewhereKeeps

\* A call that begins: what the server has is its start.
LEMMA BeginStage ==
  ASSUME HaInv, NEW r \in Refs, NEW k \in HaKinds(type), NEW w \in Wants(k), HaBegin(r, k, w)
  PROVE  Stage(r)'
<1> USE DEF HaInv, HaTypeOK, HaGoto
<1>1. op'[r] = k /\ start'[r] = ha /\ ha' = ha
  BY DEF HaBegin, cluster
<1>2. \/ k \in {"qemuRead", "qemuUpdate"} /\ place'[r] = "info"
      \/ k = "lxcRead" /\ place'[r] \in {"read", "info"}
      \/ k = "lxcUpdate" /\ place'[r] = "compare"
      \/ k \in {"lxcCreate", "lxcClone"} /\ place'[r] = "create"
      \/ k = "delete" /\ place'[r] \in {"release", "info"}
  BY DEF HaBegin, HaKinds
<1>3. HaPlaced(r)'
  BY <1>1, <1>2 DEF HaPlaced, Updates, Reads
<1>4. Come(r)'
  BY <1>1, <1>2 DEF Come, Updates
<1>5. QED BY <1>3, <1>4 DEF Stage

\* The requests before UpdateVMHA leave the resource alone; what the last of them
\* reads agrees with it.
LEMMA ReadStage ==
  ASSUME HaInv, NEW r \in Refs, GetVmInfo(r) \/ ReadVMHA(r) \/ Update(r) \/ Create(r)
  PROVE  Stage(r)'
<1> USE DEF HaInv, HaTypeOK, HaGoto, HaFault, Stage, HaPlaced, Come
<1>1. CASE GetVmInfo(r)
  <2>1. ha' = ha /\ start' = start /\ op' = op /\ want' = want
        /\ place[r] \in {"info", "infoAgain"}
    BY <1>1 DEF GetVmInfo, cluster
  <2>2. \/ place'[r] = "error"
        \/ place[r] = "info" /\ op[r] = "delete" /\ place'[r] = "release"
        \/ place[r] = "info" /\ op[r] # "delete" /\ place'[r] = "read"
        \/ place[r] = "infoAgain" /\ op[r] = "qemuUpdate" /\ place'[r] = "readAgain"
    BY <1>1, <2>1 DEF GetVmInfo
  <2>3. Agrees(vmr[r], ha) => Agrees(vmr'[r], ha)
    BY <1>1 DEF GetVmInfo, Agrees
  <2>4. HaPlaced(r)'
    BY <2>1, <2>2
  <2>5. ASSUME start'[r] # Unknown PROVE Come(r)'
    BY <2>1, <2>2, <2>3, <2>5
  <2>6. QED BY <2>4, <2>5
<1>2. CASE ReadVMHA(r)
  <2>1. ha' = ha /\ op' = op /\ want' = want /\ place[r] \in {"read", "readAgain"}
    BY <1>2 DEF ReadVMHA, cluster
  <2>2. op[r] \in Reads \cup {"qemuUpdate"} /\ (op[r] \in Reads => op[r] \notin Updates)
    BY <2>1 DEF Reads, Updates
  <2>3. \/ op[r] \in Reads /\ place'[r] = "ok"
        \/ op[r] = "qemuUpdate" /\ place'[r] \in {"update", "rest"}
    BY <1>2, <2>2 DEF ReadVMHA
  <2>4. start'[r] = Unknown \/ (start'[r] = start[r] /\ Agrees(vmr'[r], ha))
    BY <1>2 DEF ReadVMHA, Agrees
  <2>5. HaPlaced(r)'
    BY <2>1, <2>3
  <2>6. ASSUME start'[r] # Unknown PROVE Come(r)'
    BY <2>1, <2>2, <2>3, <2>4, <2>6
  <2>7. QED BY <2>5, <2>6
<1>3. CASE Update(r)
  <2>1. UNCHANGED <<ha, start, op, want, vmr>> /\ place[r] \in {"update", "rest"}
    BY <1>3 DEF Update, cluster
  <2>2. place'[r] \in {"infoAgain", "compare", "reboot", "error"} /\ op[r] = "qemuUpdate"
    BY <1>3, <2>1 DEF Update
  <2>3. HaPlaced(r)'
    BY <2>1, <2>2 DEF Updates
  <2>4. ASSUME start'[r] # Unknown PROVE Come(r)'
    BY <2>1, <2>2, <2>4
  <2>5. QED BY <2>3, <2>4
<1>4. CASE Create(r)
  <2>1. ha' = ha /\ op' = op /\ want' = want /\ place[r] = "create"
    BY <1>4 DEF Create
  <2>2. place'[r] \in {"compare", "error", "panic"}
    BY <1>4 DEF Create
  <2>3. start'[r] = start[r]
    BY <1>4 DEF Create, Surprise
  <2>4. op[r] \in Updates /\ op[r] # "qemuUpdate"
    BY <2>1 DEF Updates
  <2>5. QED BY <2>1, <2>2, <2>3, <2>4
<1>5. QED BY <1>1, <1>2, <1>3, <1>4

\* "Same hastate & hagroup" is true, or the VmRef remembers what is gone.
LEMMA CompareStage ==
  ASSUME HaInv, NEW r \in Refs, Compare(r)
  PROVE  Stage(r)'
<1> USE DEF HaInv, HaTypeOK
<1>1. UNCHANGED <<ha, vmr, op, want, start>> /\ place[r] = "compare"
  BY DEF Compare, cluster
<1>2. op[r] \in Updates
  BY <1>1 DEF Stage, HaPlaced
<1>3. place'[r] = IF vmr[r] = want[r] THEN Done(r)
               ELSE IF want[r].state = Nothing THEN "remove"
               ELSE IF vmr[r].state = Nothing THEN "add"
               ELSE "set"
  BY DEF Compare, HaGoto
<1>4. HaPlaced(r)'
  BY <1>1, <1>2, <1>3 DEF HaPlaced, Done
<1>5. ASSUME start[r] # Unknown PROVE Come(r)'
  <2>1. ha = start[r] /\ (op[r] = "qemuUpdate" => Agrees(vmr[r], ha))
    BY <1>1, <1>5 DEF Stage, Come
  <2>2. ASSUME vmr[r] = want[r] PROVE HaSettled(r)
    <3>1. CASE op[r] # "qemuUpdate"
      BY <2>2, <3>1 DEF HaSettled
    <3>2. CASE op[r] = "qemuUpdate" /\ ha = Out
      BY <2>1, <2>2, <3>2 DEF HaSettled, Outlived, Meets, Out
    <3>3. CASE op[r] = "qemuUpdate" /\ ha # Out
      <4>1. ha.state = want[r].state /\ ha.state \in States
        BY <2>1, <2>2, <3>3 DEF Agrees, Settings
      <4>2. want[r].state # Nothing
        BY <4>1, HaResourceAssumption
      <4>3. CASE ha.group = want[r].group
        <5>1. ha = want[r]
          BY <4>1, <4>3, <3>3 DEF Settings, Beliefs
        <5>2. QED BY <5>1, <4>2 DEF HaSettled, Meets
      <4>4. CASE ha.group # want[r].group
        BY <4>4, <2>1, <2>2, <3>3 DEF HaSettled, Outlived, Agrees
      <4>5. QED BY <4>3, <4>4
    <3>4. QED BY <3>1, <3>2, <3>3
  <2>3. HaSettled(r) => HaSettled(r)'
    BY <1>1 DEF HaSettled, Meets, Outlived
  <2>4. QED BY <1>1, <1>3, <2>1, <2>2, <2>3 DEF Come, Done
<1>6. QED BY <1>1, <1>4, <1>5 DEF Stage

\* The requests of UpdateVMHA, and what follows it.
LEMMA ChangeStage ==
  ASSUME HaInv, NEW r \in Refs, Remove(r) \/ Add(r) \/ Set(r) \/ Config(r)
  PROVE  Stage(r)'
<1> USE DEF HaInv, HaTypeOK, HaGoto, HaFault
<1>1. op' = op /\ want' = want /\ vmr' = vmr /\ start'[r] = start[r]
  BY DEF Remove, Add, Set, Config, Change, Surprise
<1>2. op[r] \in Updates
  BY DEF Remove, Add, Set, Config, Stage, HaPlaced
<1>3. CASE Remove(r)
  <2>1. place[r] = "remove" /\ want[r].state = Nothing
    BY <1>3 DEF Remove, Stage, HaPlaced
  <2>2. \/ place'[r] = Done(r) /\ ha' = Out
        \/ place'[r] = "error" /\ ha' \in {ha, Out}
    BY <1>3 DEF Remove, Change
  <2>3. ha' = Out => Meets(ha, want[r])'
    BY <1>1, <2>1 DEF Meets
  <2>4. QED BY <1>1, <1>2, <2>1, <2>2, <2>3 DEF Stage, HaPlaced, Come, HaSettled, Done, Added
<1>4. CASE Add(r)
  <2>1. place[r] = "add" /\ place'[r] \in {"set", "error"}
    BY <1>4 DEF Add, Change
  <2>2. ha' \in {ha, Added(r)}
    BY <1>4 DEF Add, Change, Added
  <2>3. QED BY <1>1, <1>2, <2>1, <2>2 DEF Stage, HaPlaced, Come, Added
<1>5. CASE Set(r)
  <2>1. place[r] = "set" /\ want[r].state # Nothing
    BY <1>5 DEF Set, Stage, HaPlaced
  <2>2. \/ place'[r] = Done(r) /\ ha' = want[r]
        \/ place'[r] = "error" /\ ha' \in {ha, want[r]}
    BY <1>5 DEF Set, Change
  <2>3. ha' = want[r] => Meets(ha, want[r])'
    BY <1>1, <2>1 DEF Meets
  <2>4. QED BY <1>1, <1>2, <2>1, <2>2, <2>3 DEF Stage, HaPlaced, Come, HaSettled, Done, Added
<1>6. CASE Config(r)
  <2>1. place[r] = "config" /\ ha' = ha /\ place'[r] \in {"ok", "error"}
    BY <1>6 DEF Config, cluster
  <2>2. HaSettled(r) => HaSettled(r)'
    BY <1>1, <2>1 DEF HaSettled, Meets, Outlived
  <2>3. Meets(ha, want[r]) => Meets(ha, want[r])'
    BY <1>1, <2>1 DEF Meets
  <2>4. QED BY <1>1, <1>2, <2>1, <2>2, <2>3 DEF Stage, HaPlaced, Come, Added
<1>7. QED BY <1>3, <1>4, <1>5, <1>6

\* DeleteVmParams is no update.
LEMMA DeleteStage ==
  ASSUME HaInv, NEW r \in Refs, Release(r) \/ Delete(r)
  PROVE  Stage(r)'
<1> USE DEF HaInv, HaTypeOK, HaGoto, HaFault
<1>1. op' = op /\ op[r] = "delete" /\ place'[r] \in {"delete", "ok", "error"}
  BY DEF Release, Delete, Change, Stage, HaPlaced, cluster
<1>2. QED BY <1>1 DEF Stage, HaPlaced, Come, Updates

\* A step is one of r, seen from r or from another call, or one of somebody else.
LEMMA HaInductive == HaInv /\ [HaNext]_haVars => HaInv'
<1> SUFFICES ASSUME HaInv, [HaNext]_haVars PROVE HaInv'
  OBVIOUS
<1>1. HaTypeOK'
  BY HaTypeStep
<1>2. ASSUME NEW d \in Refs PROVE Stage(d)'
  <2>1. ASSUME NEW r \in Refs,
               HaStep(r) \/ \E k \in HaKinds(type) : \E w \in Wants(k) : HaBegin(r, k, w)
        PROVE  Stage(d)'
    <3>1. CASE d # r
      BY <2>1, <3>1, StepElsewhere
    <3>2. CASE d = r
      BY <2>1, <3>2, BeginStage, ReadStage, CompareStage, ChangeStage, DeleteStage DEF HaStep
    <3>3. QED BY <3>1, <3>2
  <2>2. CASE Other
    BY <2>2, ElsewhereKeeps DEF Other, HaInv
  <2>3. CASE UNCHANGED haVars
    BY <2>3, ElsewhereKeeps DEF haVars, cluster, HaInv
  <2>4. QED BY <2>1, <2>2, <2>3 DEF HaNext
<1>3. QED BY <1>1, <1>2 DEF HaInv

\* No call has been made.
LEMMA HaInitial == HaInit => HaInv
BY HaResourceAssumption
DEF HaInit, HaInv, HaTypeOK, Stage, HaPlaced, Come, Updates, Beliefs, Settings, Out, HaKinds,
    HaReturned

-----------------------------------------------------------------------------
\* Whatever was lost and whoever else was at work, the variables have their
\* types: the server never has a resource without a guest.
THEOREM HaTypeCorrect == HaSpec => []HaTypeOK
<1>1. HaInv => HaTypeOK
  BY DEF HaInv
<1>2. QED BY HaInitial, HaInductive, <1>1, PTL DEF HaSpec

\* OkIsExact: an update that returns without an error and asks for no reboot has made
\* the resource what was asked for, or took the settings for unchanged.
\* NewConfigQemuFromApi before UpdateVMHA leaves one way to be wrong about that.  An
\* update that asks for a reboot has not touched the resource.
THEOREM ExactUnlessOutlived == HaSpec => []OkIsExact
<1>1. HaInv => OkIsExact
  BY DEF HaInv, Stage, Come, HaSettled, OkIsExact
<1>2. QED BY HaInitial, HaInductive, <1>1, PTL DEF HaSpec

\* FailureIsHalfway: an update that fails has not made the resource a mixture of
\* what it was and what was asked for, because one PUT sets state and group.
THEOREM NoMixture == HaSpec => []FailureIsHalfway
<1>1. HaInv => FailureIsHalfway
  BY DEF HaInv, Stage, Come, Added, FailureIsHalfway
<1>2. QED BY HaInitial, HaInductive, <1>1, PTL DEF HaSpec
=============================================================================
