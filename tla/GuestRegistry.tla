---------------------------- MODULE GuestRegistry ----------------------------
(***************************************************************************)
(* What creating a guest promises, with the search for an id, the volumes  *)
(* and the single requests left out: a client takes an id that is free, in *)
(* one step and once; only this client furnishes the guest, and only when  *)
(* the server has made it; nothing but the failure of the task that makes  *)
(* the guest takes it away again; and a call that returns without an error *)
(* leaves a guest with everything that was asked for, which nobody touches *)
(* any more.  QemuCreate implements this specification.                    *)
(***************************************************************************)
CONSTANTS Clients, Ids, Parts,
          NoOne, Other

VARIABLES owner,   \* owner[i]: who has the guest with this id, if there is one
          has,     \* has[i]: the parts it got from its creator
          task,    \* task[c]: whether the server has made c's guest
          want,    \* want[c]: the parts c's configuration asks for
          result   \* result[c]: how c's call returned, "none" before that

guests == <<owner, has, task>>
vars == <<guests, want, result>>

TypeOK ==
    /\ owner \in [Ids -> Clients \cup {NoOne, Other}]
    /\ has \in [Ids -> SUBSET Parts]
    /\ task \in [Clients -> {"none", "running", "made", "failed"}]
    /\ want \in [Clients -> SUBSET Parts]
    /\ result \in [Clients -> {"none", "ok", "error"}]

Init ==
    /\ owner \in [Ids -> {NoOne, Other}]
    /\ has = [i \in Ids |-> {}]
    /\ task = [c \in Clients |-> "none"]
    /\ want \in [Clients -> SUBSET Parts]
    /\ result = [c \in Clients |-> "none"]

Claim(c) ==
    /\ task[c] = "none"
    /\ \E i \in Ids :
          /\ owner[i] = NoOne
          /\ owner' = [owner EXCEPT ![i] = c]
    /\ task' = [task EXCEPT ![c] = "running"]
    /\ UNCHANGED has

Furnish(c) ==
    /\ task[c] = "made"
    /\ \E i \in Ids, p \in want[c] :
          /\ owner[i] = c
          /\ has' = [has EXCEPT ![i] = @ \cup {p}]
    /\ UNCHANGED <<owner, task>>

\* One request of c's call; the call may go on or return an error, whether the
\* request was carried out or not.
Request(c) ==
    /\ result[c] = "none"
    /\ Claim(c) \/ Furnish(c) \/ UNCHANGED guests
    /\ \E r \in {"none", "error"} : result' = [result EXCEPT ![c] = r]
    /\ UNCHANGED want

\* Every part is there, with the last request at the latest.
Succeed(c) ==
    /\ result[c] = "none" /\ task[c] = "made"
    /\ Furnish(c) \/ UNCHANGED guests
    /\ \E i \in Ids : owner[i] = c /\ want[c] \subseteq has'[i]
    /\ result' = [result EXCEPT ![c] = "ok"]
    /\ UNCHANGED want

\* The server has made the guest, or has failed to and removes it.
TaskEnds(c) ==
    /\ task[c] = "running"
    /\ \/ /\ task' = [task EXCEPT ![c] = "made"]
          /\ UNCHANGED <<owner, has>>
       \/ /\ task' = [task EXCEPT ![c] = "failed"]
          /\ \E i \in Ids :
                /\ owner[i] = c
                /\ owner' = [owner EXCEPT ![i] = NoOne]
                /\ has' = [has EXCEPT ![i] = {}]
    /\ UNCHANGED <<want, result>>

Next == \E c \in Clients : Request(c) \/ Succeed(c) \/ TaskEnds(c)

Spec == Init /\ [][Next]_vars
=============================================================================
