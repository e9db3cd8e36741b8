-------------------------------- MODULE Sweep --------------------------------
(* A panel's button held down: the dimmer's level goes up and down with     *)
(* LongPressTick, while events of the light set it to anything.             *)
EXTENDS Dimmer

CONSTANT DimControl

\* What a table owes its light: levels are bytes, a step down from a level that
\* is not the darkest does not wrap, and out of the darkest it is no further
\* than some step.
IsGentle(t) ==
    /\ t.max <= 255
    /\ \A l \in t.min..t.max : getStep(t, l) <= l
    /\ \E step \in Range(t.steps) : t.min <= step + 1

ASSUME SweepTable == IsDimTable(DimControl) /\ IsGentle(DimControl)

VARIABLES bright, rising
sweepVars == <<bright, rising>>

SweepInit == bright = 0 /\ rising = TRUE
HoldTick == LET new == GetNewValue(DimControl, bright, rising)
            IN bright' = new.level /\ rising' = new.up
Reported == \E l \in 0..DimControl.max : bright' = l /\ UNCHANGED rising
SweepNext == HoldTick \/ Reported
SweepSpec == SweepInit /\ [][SweepNext]_sweepVars

(* The light never flashes: from whatever level it reported, a tick changes *)
(* its brightness by no more than the largest step, at the ends too, where  *)
(* the byte would wrap.                                                     *)
NoFlash == [][HoldTick =>
    \E step \in Range(DimControl.steps) : Max({bright', bright}) - Min({bright', bright}) <= step]_sweepVars

(* A button held long enough reaches full brightness and darkness, again    *)
(* and again: no level traps the dimmer.                                    *)
SweepsThrough ==
    <>[][HoldTick]_sweepVars => []<>(bright = 0) /\ []<>(bright = DimControl.max)
=============================================================================
