--------------------------- MODULE AsyncOperation ---------------------------
(***************************************************************************)
(* What a synchronous call of the library promises about the asynchronous  *)
(* operation it starts on the Proxmox server, with HTTP, task identifiers  *)
(* and polling left out: a call that succeeds has applied its operation; a *)
(* call applies it at most once, and has settled it by the time it         *)
(* returns, unless it went blind, that is, lost sight of one of its        *)
(* attempts.  TaskCall implements this specification.                      *)
(***************************************************************************)
EXTENDS Integers

CONSTANTS Callers,   \* the synchronous calls
          Attempts   \* the attempts a call may make

VARIABLES phase,     \* phase[c]: where the call is
          applied,   \* applied[c]: the attempts whose operation took effect
          blind      \* blind[c]: the call lost sight of one of its attempts

vars == <<phase, applied, blind>>

TypeOK ==
    /\ phase \in [Callers -> {"idle", "pending", "success", "error"}]
    /\ applied \in [Callers -> SUBSET Attempts]
    /\ blind \in [Callers -> BOOLEAN]

Init ==
    /\ phase = [c \in Callers |-> "idle"]
    /\ applied = [c \in Callers |-> {}]
    /\ blind = [c \in Callers |-> FALSE]

\* The call starts; it may also be refused before anything is sent.
Call(c) ==
    /\ phase[c] = "idle"
    /\ \E p \in {"pending", "error"} : phase' = [phase EXCEPT ![c] = p]
    /\ UNCHANGED <<applied, blind>>

\* The operation takes effect: for the first time while the call is pending,
\* again or later only behind the back of a call that went blind.
Apply(c) ==
    /\ phase[c] # "idle"
    /\ (phase[c] = "pending" /\ applied[c] = {}) \/ blind[c]
    /\ \E i \in Attempts \ applied[c] :
          applied' = [applied EXCEPT ![c] = @ \cup {i}]
    /\ UNCHANGED <<phase, blind>>

\* The call loses sight of an attempt and goes on with another.
Lose(c) ==
    /\ phase[c] = "pending"
    /\ blind' = [blind EXCEPT ![c] = TRUE]
    /\ UNCHANGED <<phase, applied>>

\* The call reports success: its operation took effect.
Succeed(c) ==
    /\ phase[c] = "pending"
    /\ applied[c] # {}
    /\ phase' = [phase EXCEPT ![c] = "success"]
    /\ UNCHANGED <<applied, blind>>

\* The call reports an error: nothing took effect, or it went blind.
GiveUp(c) ==
    /\ phase[c] = "pending"
    /\ \E b \in BOOLEAN :
          /\ blind[c] => b
          /\ applied[c] = {} \/ b
          /\ blind' = [blind EXCEPT ![c] = b]
    /\ phase' = [phase EXCEPT ![c] = "error"]
    /\ UNCHANGED applied

Next == \E c \in Callers :
            Call(c) \/ Apply(c) \/ Lose(c) \/ Succeed(c) \/ GiveUp(c)

Spec == Init /\ [][Next]_vars
=============================================================================
