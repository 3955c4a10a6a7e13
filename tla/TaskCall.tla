------------------------------ MODULE TaskCall ------------------------------
(***************************************************************************)
(* The task layer of the client (proxmox/client.go).  Proxmox answers a    *)
(* request for a long operation with the identifier of a task that runs on *)
(* the server; WaitForCompletion polls that task until it ends, the poll   *)
(* fails or TaskTimeout has been slept away, and StatusChangeVm wraps the  *)
(* whole exchange in a loop of three tries.  The server, the network and   *)
(* every call are separate processes: a request or its reply may be lost,  *)
(* a request whose caller gave up may still be carried out, and a task may *)
(* end at any time or never.                                               *)
(***************************************************************************)
EXTENDS Integers

CONSTANTS Callers,      \* the synchronous calls, one goroutine each
          StatusTries,  \* tries of the loop in StatusChangeVm (3 in the code)
          TaskTimeout,  \* Client.TaskTimeout, in seconds
          Interval      \* TaskStatusCheckInterval, in seconds (2 in the code)

ASSUME TaskCallAssumption ==
    /\ StatusTries \in Nat \ {0}
    /\ TaskTimeout \in Int
    /\ Interval \in Nat \ {0}

VARIABLES
    pc,       \* pc[c]: where the call is
    kind,     \* kind[c]: "status" for StatusChangeVm, "task" for PostWithTask,
              \* PutWithTask, DeleteWithTask and the other users of CheckTask
    attempt,  \* attempt[c]: the try the call is making
    waited,   \* waited[c]: the seconds WaitForCompletion has slept
    task,     \* task[c][i]: what the server made of try i of call c
    fault     \* fault[c]: the ways the call lost sight of one of its tries

vars == <<pc, kind, attempt, waited, task, fault>>

Attempts == 1..StatusTries

Kinds == {"status", "task"}

Tries(k) == IF k = "status" THEN StatusTries ELSE 1

\* The exit statuses of an ended task: rxExitStatusSuccess accepts the first two.
Success == {"OK", "WARNINGS"}
Ended == Success \cup {"failed"}

\* A try took effect / is known to the server as one that never will.
Effective == Success \cup {"immediate"}
Dead == {"rejected", "failed"}

TaskStates == Effective \cup Dead \cup {"none", "sent", "running"}

Returned == {"success", "error"}

TypeOK ==
    /\ pc \in [Callers -> {"idle", "post", "await", "poll"} \cup Returned]
    /\ kind \in [Callers -> Kinds]
    /\ attempt \in [Callers -> Attempts]
    /\ waited \in [Callers -> Nat]
    /\ task \in [Callers -> [Attempts -> TaskStates]]
    /\ fault \in [Callers -> SUBSET {"lost", "poll", "timeout"}]

Init ==
    /\ pc = [c \in Callers |-> "idle"]
    /\ kind = [c \in Callers |-> "task"]
    /\ attempt = [c \in Callers |-> 1]
    /\ waited = [c \in Callers |-> 0]
    /\ task = [c \in Callers |-> [i \in Attempts |-> "none"]]
    /\ fault = [c \in Callers |-> {}]

-----------------------------------------------------------------------------
(* The client.                                                             *)

\* A call begins.  StatusChangeVm first looks the guest up (CheckVmRef) and
\* returns the error of a lookup that fails before it sends anything.
Begin(c, k) ==
    /\ pc[c] = "idle"
    /\ kind' = [kind EXCEPT ![c] = k]
    /\ \/ pc' = [pc EXCEPT ![c] = "post"]
       \/ k = "status" /\ pc' = [pc EXCEPT ![c] = "error"]
    /\ UNCHANGED <<attempt, waited, task, fault>>

\* session.Post, Put or Delete puts the request on the wire.
Send(c) ==
    /\ pc[c] = "post"
    /\ task' = [task EXCEPT ![c][attempt[c]] = "sent"]
    /\ pc' = [pc EXCEPT ![c] = "await"]
    /\ UNCHANGED <<kind, attempt, waited, fault>>

Return(c, result) ==
    /\ pc' = [pc EXCEPT ![c] = result]
    /\ UNCHANGED attempt

\* Mutant: the tries are not counted.
FailTry_loop(c) ==
    IF attempt[c] < Tries(kind[c])
    THEN pc' = [pc EXCEPT ![c] = "post"] /\ UNCHANGED attempt
    ELSE Return(c, "error")

\* The try ended in an error: the loop of StatusChangeVm goes round again
\* while it has tries left, every other call returns the error.
FailTry(c) ==
    IF attempt[c] < Tries(kind[c])
    THEN /\ attempt' = [attempt EXCEPT ![c] = @ + 1]
         /\ pc' = [pc EXCEPT ![c] = "post"]
    ELSE Return(c, "error")

\* A status outside 2xx, or a body with "errors": the error is definite.
ReplyRejected(c) ==
    /\ pc[c] = "await"
    /\ task[c][attempt[c]] = "rejected"
    /\ FailTry(c)
    /\ UNCHANGED <<kind, waited, task, fault>>

\* "data" is null: the server has done the work, there is no task to wait for.
ReplyImmediate(c) ==
    /\ pc[c] = "await"
    /\ task[c][attempt[c]] = "immediate"
    /\ Return(c, "success")
    /\ UNCHANGED <<kind, waited, task, fault>>

\* Mutant: the identifier of a task is taken for its success.
ReplyTask_mut(c) ==
    /\ pc[c] = "await"
    /\ task[c][attempt[c]] \in Ended \cup {"running"}
    /\ Return(c, "success")
    /\ UNCHANGED <<kind, waited, task, fault>>

\* "data" is the identifier of the task: WaitForCompletion starts polling.
ReplyTask(c) ==
    /\ pc[c] = "await"
    /\ task[c][attempt[c]] \in Ended \cup {"running"}
    /\ pc' = [pc EXCEPT ![c] = "poll"]
    /\ waited' = [waited EXCEPT ![c] = 0]
    /\ UNCHANGED <<kind, attempt, task, fault>>

\* The transport fails, the reply is cut short or a gateway answers in the
\* server's place: the same error for the caller, whatever became of the request.
LoseReply(c) ==
    /\ pc[c] = "await"
    /\ fault' = [fault EXCEPT ![c] = @ \cup {"lost"}]
    /\ FailTry(c)
    /\ UNCHANGED <<kind, waited, task>>

Polling(c) == pc[c] = "poll" /\ waited[c] < TaskTimeout

Sleep(c) ==
    /\ waited' = [waited EXCEPT ![c] = @ + Interval]
    /\ UNCHANGED <<pc, attempt>>

\* The poll finds that the task ended well, with or without warnings.
PollSuccess(c) ==
    /\ Polling(c)
    /\ task[c][attempt[c]] \in Success
    /\ Return(c, "success")
    /\ UNCHANGED <<kind, waited, task, fault>>

\* The poll finds an exit status that is neither OK nor WARNINGS.
PollFailed(c) ==
    /\ Polling(c)
    /\ task[c][attempt[c]] = "failed"
    /\ FailTry(c)
    /\ UNCHANGED <<kind, waited, task, fault>>

\* The task has no exit status yet.
PollRunning(c) ==
    /\ Polling(c)
    /\ task[c][attempt[c]] = "running"
    /\ Sleep(c)
    /\ UNCHANGED <<kind, task, fault>>

\* Mutant: a poll that is cut short fails the try.
PollCutShort_mut(c) ==
    /\ Polling(c)
    /\ FailTry(c)
    /\ UNCHANGED <<kind, waited, task, fault>>

\* io.ErrUnexpectedEOF, the one poll error the loop tolerates: it sleeps on.
PollCutShort(c) ==
    /\ Polling(c)
    /\ Sleep(c)
    /\ UNCHANGED <<kind, task, fault>>

\* Any other poll error ends the wait, though the task goes on.
PollError(c) ==
    /\ Polling(c)
    /\ fault' = [fault EXCEPT ![c] = @ \cup {"poll"}]
    /\ FailTry(c)
    /\ UNCHANGED <<kind, waited, task>>

\* Mutant: a task that has not ended in time passes for a success.
Timeout_mut(c) ==
    /\ pc[c] = "poll"
    /\ waited[c] >= TaskTimeout
    /\ fault' = [fault EXCEPT ![c] = @ \cup {"timeout"}]
    /\ Return(c, "success")
    /\ UNCHANGED <<kind, waited, task>>

\* "Wait timeout for": the loop's condition fails, the task is not looked at
\* again.  With TaskTimeout <= 0 it never is.
Timeout(c) ==
    /\ pc[c] = "poll"
    /\ waited[c] >= TaskTimeout
    /\ fault' = [fault EXCEPT ![c] = @ \cup {"timeout"}]
    /\ FailTry(c)
    /\ UNCHANGED <<kind, waited, task>>

-----------------------------------------------------------------------------
(* The server.  It handles a request it received, at any time after it was *)
(* sent, even when its sender has given up, and runs the tasks.            *)

SetTask(c, i, s) ==
    /\ task' = [task EXCEPT ![c][i] = s]
    /\ UNCHANGED <<pc, kind, attempt, waited, fault>>

Handle(c, i) ==
    /\ task[c][i] = "sent"
    /\ \E s \in {"rejected", "immediate", "running"} : SetTask(c, i, s)

Finish(c, i) ==
    /\ task[c][i] = "running"
    /\ \E s \in Ended : SetTask(c, i, s)

-----------------------------------------------------------------------------
ClientStep(c) ==
    \/ Send(c)
    \/ ReplyRejected(c) \/ ReplyImmediate(c) \/ ReplyTask(c) \/ LoseReply(c)
    \/ PollSuccess(c) \/ PollFailed(c) \/ PollRunning(c) \/ PollCutShort(c)
    \/ PollError(c) \/ Timeout(c)

ServerStep(c) == \E i \in Attempts : Handle(c, i) \/ Finish(c, i)

Next ==
    \E c \in Callers :
        \/ \E k \in Kinds : Begin(c, k)
        \/ ClientStep(c)
        \/ ServerStep(c)

Spec == Init /\ [][Next]_vars

\* A goroutine that has begun a call keeps running, and a request it waits for
\* is answered or its connection fails.  Nothing is assumed of the server's
\* tasks: they may run for ever.
FairSpec == Spec /\ \A c \in Callers : WF_vars(ClientStep(c))

-----------------------------------------------------------------------------
(* Properties.                                                             *)

\* A try is made only when the outcome of every earlier one is known to be a
\* failure, as long as the call never lost sight of a try: the loop of
\* StatusChangeVm repeats an operation the guest may have carried out, or still
\* be carrying out, only behind a lost reply, a failed poll or a timeout.  A
\* poll that is cut short is no such event.
NoRepeatUnlessBlind ==
    \A c \in Callers : fault[c] = {} =>
        \A i \in Attempts : i < attempt[c] => task[c][i] \in Dead

\* Success is never reported for a task that is running, failed, or was never
\* started, whatever was lost on the way; and a call that returns without having
\* lost sight of a try has settled its operation: after a success exactly its
\* last try took effect, after an error none did, and no try of it can still take
\* effect.
SettledOnReturn ==
    \A c \in Callers :
        /\ pc[c] = "success" => task[c][attempt[c]] \in Effective
        /\ (pc[c] \in Returned /\ fault[c] = {}) =>
              \A i \in Attempts :
                 \/ pc[c] = "success" /\ i = attempt[c]
                 \/ task[c][i] \in Dead \cup {"none"}

\* Every call returns, even when its task never ends: a wait is bounded by
\* TaskTimeout whatever the polls answer, and the tries are bounded.
EveryCallReturns ==
    \A c \in Callers : (pc[c] # "idle") ~> (pc[c] \in Returned)

\* The refinement mapping to the abstract call.
Phase(c) == IF pc[c] \in {"post", "await", "poll"} THEN "pending" ELSE pc[c]

Op == INSTANCE AsyncOperation WITH
          phase <- [c \in Callers |-> Phase(c)],
          applied <- [c \in Callers |->
                        {i \in Attempts : task[c][i] \in Effective}],
          blind <- [c \in Callers |-> fault[c] # {}]

\* Every step of the task layer is a step of the abstract call or a stutter.
ImplementsAsyncOperation == Op!Spec
=============================================================================
