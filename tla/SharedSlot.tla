----------------------------- MODULE SharedSlot ------------------------------
(***************************************************************************)
(* What a slot of the shared buffer promises to the threads that use it:   *)
(* a bounded row of bytes that each operation changes in one indivisible   *)
(* step.  A byte is known by the thread that wrote it; None wrote zeroes.  *)
(***************************************************************************)
EXTENDS Naturals, Sequences

CONSTANTS Thread, None, Size

VARIABLES
  bytes,     \* the valid contents
  reserved   \* a direct writer holds the slot

Init == bytes = << >> /\ reserved = FALSE

Filled(t, n) == [i \in 1 .. n |-> t]

(* A block is appended whole or not at all. *)
Append_(t, n) ==
  /\ Len(bytes) + n <= Size
  /\ bytes' = bytes \o Filled(t, n)
  /\ UNCHANGED reserved

Reserve(n) ==
  /\ ~reserved
  /\ reserved' = TRUE
  /\ bytes' = Filled(None, n)

(* The direct writer fills what it reserved. *)
Fill(t, n) ==
  /\ reserved
  /\ n <= Len(bytes)
  /\ bytes' = [i \in 1 .. Len(bytes) |-> IF i <= n THEN t ELSE bytes[i]]
  /\ UNCHANGED reserved

Release == reserved' = FALSE /\ bytes' = << >>

Clear == bytes' = << >> /\ UNCHANGED reserved

Next ==
  \/ \E t \in Thread, n \in 1 .. Size : Append_(t, n) \/ Fill(t, n)
  \/ \E n \in 1 .. Size : Reserve(n)
  \/ Release
  \/ Clear

Spec == Init /\ [][Next]_<<bytes, reserved>>
=============================================================================
