----------------------------- MODULE MC_Devices -----------------------------
(* The parts of a panel and of a light, in one run: which device a button   *)
(* controls (BtnAssign); the effects of the strip (Fx), the resources of a  *)
(* light and the panels that use them (Lamp), and the drivers (Strip).      *)
(* They share no state: which of them moves is drawn once, and for Fx what  *)
(* the application does with its second segment.                            *)
EXTENDS BtnAssign, Fx, Lamp, Strip

CONSTANTS Parts, p1, p2

VARIABLES part, use

devicesVars == <<part, use, vars, fxVars, lampVars, stripVars>>

\* The second segment: some modes, and for some of them other speeds or turns.
\* The effects left out only paint their segment or are variants of these.
Pair(modes) == [modes |-> modes, speeds |-> {DefaultSpeed}, turns |-> {FALSE}]
Turned(m) == [modes |-> {m}, speeds |-> {DefaultSpeed}, turns |-> BOOLEAN]
Uses == {Pair({m}) : m \in {8, 32, 45}}
        \cup {Turned(m) : m \in {22, 46, 55}}
        \cup {Pair({0, 1}), Pair({29, 30}), Pair({30, 57})}
        \cup {[modes |-> {25}, speeds |-> {10, DefaultSpeed}, turns |-> {FALSE}]}
InUse == 1 \in Segments => /\ seg[1].callback \in use.modes \cup {NoCallback}
                          /\ seg[1].speed \in use.speeds /\ seg[1].reverse \in use.turns

DevicesInit ==
    /\ part \in Parts /\ use \in Uses
    /\ Init /\ FxInit /\ LampInit /\ StripInit
    /\ part # "fx" => Segments = {0} /\ use = Turned(55)
    /\ part # "btn" => above = "driver"
    /\ part # "lamp" => plays = CHOOSE u \in Users : TRUE
    /\ part # "strip" => driver = CHOOSE d \in Drivers : TRUE

OnlyBtn == part = "btn" /\ UNCHANGED <<part, use, fxVars, lampVars, stripVars>>
OnlyFx == part = "fx" /\ UNCHANGED <<part, use, vars, lampVars, stripVars>>
OnlyLamp == part = "lamp" /\ UNCHANGED <<part, use, vars, fxVars, stripVars>>
OnlyStrip == part = "strip" /\ UNCHANGED <<part, use, vars, fxVars, lampVars>>

DevicesNext ==
    \/ OnlyBtn /\ Next
    \/ OnlyFx /\ FxNext /\ InUse'
    \/ OnlyLamp /\ LampNext
    \/ OnlyStrip /\ StripNext

DevicesSpec == DevicesInit /\ [][DevicesNext]_devicesVars

\* Fx: a static segment beside one with effects of every kind; the division,
\* the borders, the modes, the speed and the direction change at any time.
Kinds == UNION {u.modes : u \in Uses}
OneAndAll == [k \in 0..1 |-> IF k = 0 THEN {0} ELSE Kinds]
TwoSpeeds == [k \in 0..1 |-> IF k = 0 THEN {} ELSE {10, 150}]
OneTurns == [k \in 0..1 |-> IF k = 0 THEN {} ELSE BOOLEAN]

\* Lamp: two panels, three levels, two colours.
TwoPanels == {p1, p2}
FewUsers == {[p \in TwoPanels |-> IF p = p1 THEN {"dimm"} ELSE {"dimm", "rgb"}],
             [p \in TwoPanels |-> IF p = p1 THEN {"on_off"} ELSE {"dimm", "rgb"}],
             [p \in TwoPanels |-> IF p = p1 THEN {"on_off"} ELSE {"on_off", "dimm"}]}
SmallTable == [thresh |-> <<1, 2>>, steps |-> <<1, 1>>, max |-> 2, min |-> 1]
TwoColours == <<2, 1>>
=============================================================================
