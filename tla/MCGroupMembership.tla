------------------------- MODULE MCGroupMembership -------------------------
(* GroupMembership for TLC: two clients, two users, two groups, so that    *)
(* two operations can share a user and not a group, or a group and not a   *)
(* user, or both, or nothing.                                              *)
EXTENDS GroupMembership, TLC

CONSTANTS u1, u2, g1, g2, c1, c2

TwoUsers == {u1, u2}
TwoGroups == {g1, g2}
TwoClients == {c1, c2}

\* "clear" is a removal; "set" creates and updates.
FourKinds == {"add", "remove", "members", "set"}
Symmetry == Permutations(TwoUsers) \cup Permutations(TwoGroups)
                \cup Permutations(TwoClients)
=============================================================================
