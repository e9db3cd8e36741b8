----------------------------- MODULE MC_Observe ------------------------------
(* Observe with a device of one or two URIs and a controller that knows     *)
(* only it.                                                                 *)
EXTENDS Observe

CONSTANTS u1, u2

AnyAddress == [n \in Name |-> Ip]
TwoUris == [n \in Name |-> <<u1, u2>>]
OneUri == [n \in Name |-> <<u1>>]
=============================================================================
