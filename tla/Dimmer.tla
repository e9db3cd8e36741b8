------------------------------- MODULE Dimmer -------------------------------
(* The brightness steps of ad_btn_dimControl.c: the step depends on the     *)
(* level, the direction turns at either end.  Pure functions of the tables. *)
EXTENDS Integers, Sequences, FiniteSetsExt

\* threshTab, stepsTab, and the brightest and the darkest level but dark.
IsDimTable(t) ==
    /\ t.min \in Nat /\ t.max \in Nat
    /\ t.thresh \in Seq(0..t.max) /\ t.steps \in Seq(1..t.max)
    /\ Len(t.thresh) = Len(t.steps) /\ Len(t.thresh) > 0
    /\ t.thresh[Len(t.thresh)] = t.max

\* The level is a byte here whatever the caller holds.
getStep(t, level) ==
    LET reached == {i \in DOMAIN t.thresh : level % 256 <= t.thresh[i]}
    IN IF reached = {} THEN 1 ELSE t.steps[Min(reached)]

\* Mutants: the low end is not looked at; the direction stays up at the top.
GetNewValue_NoBottom(t, level, up) ==
    LET step == getStep(t, level)
    IN IF up THEN IF level + step > t.max THEN [level |-> t.max, up |-> FALSE]
                                          ELSE [level |-> level + step, up |-> TRUE]
             ELSE [level |-> (level - step) % 256, up |-> FALSE]
GetNewValue_StaysUp(t, level, up) ==
    [level |-> Min({level + getStep(t, level), t.max}), up |-> TRUE]

\* ad_btn_dim_GetNewValue: the new level, a byte, and the new direction.
GetNewValue(t, level, up) ==
    LET step == getStep(t, level)
        stay(l) == [level |-> l % 256, up |-> up]
        turn(l) == [level |-> l % 256, up |-> ~up]
    IN IF up THEN IF level + step > t.max THEN turn(t.max) ELSE stay(level + step)
             ELSE IF level < t.min THEN turn(0) ELSE stay(level - step)
=============================================================================
