------------------------------ MODULE MC_UriObs ------------------------------
(* UriObs on a table of two slots of two entries, with one device more than *)
(* the table holds and as many URIs as a slot has entries.  Nothing in the  *)
(* table depends on which name, address, token or URI is which.             *)
EXTENDS UriObs, TLC

Perms ==
  Permutations(Name) \cup Permutations(Ip) \cup Permutations(Token)
    \cup Permutations(Uri)
=============================================================================
