------------------------------ MODULE Optional ------------------------------
(* The pointer fields of the SDK's structs: Nil is a field that is not      *)
(* given, and a parameter that the server does not have.  Strings are the   *)
(* texts that a field or a parameter may be; which, the modules and the     *)
(* configurations that use them say.                                        *)
CONSTANTS Nil, Strings

ASSUME OptionalAssumption == Nil \notin Strings

\* The server keeps no empty text.
Texts == Strings \ {""}

Given(a) == a # Nil

\* if want.f != nil { want.f } else { current.f }
Or(a, b) == IF a # Nil THEN a ELSE b

\* One request: parameters that are set (Nil: not sent) and the "delete" list.
Request(set, delete) == [set |-> set, delete |-> delete]

\* "" and 0 are how a caller asks for a parameter to be removed.
NonEmpty(a) == IF a = "" THEN Nil ELSE a
NonZero(a) == IF a = 0 THEN Nil ELSE a
=============================================================================
