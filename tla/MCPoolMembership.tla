-------------------------- MODULE MCPoolMembership --------------------------
(* PoolMembership for TLC: two guests and two pools, so that a guest can   *)
(* be in the pool worked on, in the other one or in none.                  *)
EXTENDS PoolMembership

CONSTANTS i1, i2, p1, p2, c1, c2

TwoGuests == {i1, i2}
TwoPools == {p1, p2}
TwoClients == {c1, c2}
OneClient == {c1}
SevenAndEight == {7, 8}
Seven == {7}
OnlyAdd == {"add"}

\* "set" creates and updates.
FiveKinds == {"add", "remove", "guests", "set", "guest"}
=============================================================================
