----------------------------- MODULE MCTaskCall -----------------------------
(* TaskCall for TLC.  Calls share nothing but the server's task list, in   *)
(* which each has tasks of its own, so one call with all its tries is      *)
(* enough; TaskTimeout = 3 and Interval = 2 let a wait make two polls, the *)
(* second of them after a sleep that is not a divisor of the timeout.      *)
EXTENDS TaskCall

CONSTANT c1
OneCaller == {c1}
=============================================================================
