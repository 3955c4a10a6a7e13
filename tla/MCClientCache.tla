--------------------------- MODULE MCClientCache ---------------------------
(* ClientCache for TLC: two goroutines; a category with one item; one      *)
(* privilege, which is held, held and propagated, or not held although the *)
(* path is listed for another one.                                         *)
EXTENDS ClientCache, TLC

CONSTANTS t1, t2, vms, guest, audit

TwoThreads == {t1, t2}
OneItem == {guest}
Audit == {audit}
SymThreads == Permutations({t1, t2})
=============================================================================
