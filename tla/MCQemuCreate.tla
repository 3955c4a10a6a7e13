---------------------------- MODULE MCQemuCreate ----------------------------
(* QemuCreate for TLC: two clients and two ids, one of which may be taken, *)
(* so that the clients compete for the same id and one may find none.      *)
EXTENDS QemuCreate

CONSTANTS a, b, volume1, volume2, disk

TwoClients == {a, b}
OneClient == {a}
OneVolume == {volume1}
TwoVolumes == {volume1, volume2}
OneDisk == {disk}
=============================================================================
