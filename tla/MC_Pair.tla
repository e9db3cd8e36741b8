------------------------------- MODULE MC_Pair -------------------------------
(* Pair with a few devices; the name is all that the rules and the list     *)
(* look at.                                                                 *)
EXTENDS Pair

CONSTANTS a, b, c, other, ip1, u1, u2

OwnUri == [n \in Name |-> IF n = a THEN <<u1>> ELSE <<u2>>]
OneUri == [n \in Name |-> <<u1>>]
AnyAddress == [n \in Name |-> Ip]
OneMoves == [n \in Name |-> IF n = a THEN Ip ELSE {ip1}]
TwoUris == [n \in Name |-> <<u1, u2>>]
=============================================================================
