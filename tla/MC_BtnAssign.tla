---------------------------- MODULE MC_BtnAssign -----------------------------
(* Three buttons, as on the board; the reset takes fewer clicks and time    *)
(* runs in larger units, the assign mode still outlasting the reset.        *)
EXTENDS BtnAssign
=============================================================================
