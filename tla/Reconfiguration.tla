--------------------------- MODULE Reconfiguration ---------------------------
(***************************************************************************)
(* What an update of a guest promises, with its requests and their order   *)
(* left out: it records the changes it is asked for and brings them into   *)
(* force, in any order and number of requests; no update, whether it fails *)
(* or is repeated, undoes one that is recorded or in force; one that       *)
(* returns without an error has all of them in force, and one that says    *)
(* that a restart is required has recorded them.  Updates of one guest     *)
(* follow each other, all with the same changes.                           *)
(*                                                                         *)
(* QemuUpdate and QemuDisks, which look at the same function of the        *)
(* library from two sides, implement this specification.                   *)
(***************************************************************************)
CONSTANTS Changes,
          Excused,  \* those the update may give up without an error
          Last      \* those it makes after it has looked for a restart

VARIABLES asked,    \* the changes asked for and not given up
          recorded, \* the changes that hold from the next start on
          inForce,  \* the changes that hold now
          result    \* "none" while an update runs, and how it returned

vars == <<asked, recorded, inForce, result>>

TypeOK ==
    /\ inForce \subseteq recorded
    /\ {asked, recorded} \subseteq SUBSET Changes
    /\ result \in {"none", "ok", "reboot", "error"}

Init ==
    /\ asked \in SUBSET Changes
    /\ recorded \in SUBSET Changes
    /\ inForce \in SUBSET recorded
    /\ result = "none"

\* A request, or the answer of one that was given up, or of a task that outlived
\* its call: it may achieve something, and it undoes nothing.
Advance ==
    /\ recorded \subseteq recorded'
    /\ inForce \subseteq inForce'
    /\ inForce' \subseteq recorded' /\ recorded' \subseteq Changes

GiveUp == asked' \subseteq asked /\ asked \ asked' \subseteq Excused

\* The update goes on.
Work == result = "none" /\ Advance /\ GiveUp /\ UNCHANGED result

\* Something that an update has started goes on after it has returned.
Outlive == result # "none" /\ Advance /\ UNCHANGED <<asked, result>>

Succeed ==
    /\ result = "none" /\ Advance /\ GiveUp
    /\ asked' \subseteq inForce'
    /\ result' = "ok"

\* The restart that is required is left to the caller.
NeedReboot ==
    /\ result = "none" /\ Advance /\ GiveUp
    /\ asked' \ Last \subseteq recorded'
    /\ result' = "reboot"

Fail == result = "none" /\ Advance /\ GiveUp /\ result' = "error"

\* The caller calls Update once more.
Again == result # "none" /\ result' = "none" /\ UNCHANGED <<asked, recorded, inForce>>

Next == Work \/ Outlive \/ Succeed \/ NeedReboot \/ Fail \/ Again

Spec == Init /\ [][Next]_vars
=============================================================================
