---------------------------- MODULE MCHaResource ----------------------------
(* HaResource for TLC: two references, so that one may be older than what  *)
(* the other has done; two states and one group.                           *)
EXTENDS HaResource, TLC

CONSTANTS r1, r2, started, stopped, g

TwoRefs == {r1, r2}
TwoStates == {started, stopped}
OneGroup == {g}

\* Out of HA; in it, with a group and without.
ThreeSettings == {[state |-> Nothing, group |-> Nothing],
                  [state |-> started, group |-> g], [state |-> stopped, group |-> Nothing]}
SymRefs == Permutations({r1, r2})
=============================================================================
