-------------------------------- MODULE Lamp --------------------------------
(***************************************************************************)
(* A light and the panels that control it: the click handlers of           *)
(* ad_btn_assign.c, the URI handlers and the colour control of ed_light,   *)
(* and the notification of the other panels.  (What the driver makes of    *)
(* the colours is in module Strip.)                                        *)
(*                                                                         *)
(* The three resources of a light are "on_off", "dimm" and "rgb".  A panel *)
(* keeps its own copy of each (uriState) and derives the next value from   *)
(* it.  CoAP carries messages in order; a restart loses what is under way. *)
(* A colour is one channel of it: the three are handled alike.             *)
(***************************************************************************)
EXTENDS Dimmer

CONSTANTS Panels,
          Users,      \* what users may play with: resources per panel
          Dim,        \* the dimmer's tables
          rgbColorTab, FirstColour,
          NetMax,     \* bound on the messages under way to and from a panel
          LightRestarts

Uris == {"on_off", "dimm", "rgb"}
Levels == 0..Dim.max
ASSUME LampConstants ==
    /\ IsDimTable(Dim)
    /\ Users \subseteq [Panels -> SUBSET Uris]
    /\ rgbColorTab \in Seq(Levels) \ {<< >>} /\ FirstColour \in Levels
    /\ NetMax \in Nat /\ LightRestarts \in Nat

VARIABLES
    uriState,  \* per panel: urisList[].uriState of the light
    index,     \* per panel: the last colour of the table, counted from 0
    dirUp,     \* per panel: the direction of its dimmer
    rgb, rgbDim, dim,   \* the light's ctr
    lit,       \* the colour its LEDs were set to
    commanded, \* per resource: the last value the light acted on
    subscribed, toLamp, toPanel,
    alone,     \* per resource: the last press was not crossed or lost
    plays,     \* the resources each panel's user plays with, drawn once
    lightRestarted

panelVars == <<uriState, index, dirUp>>
light == <<rgb, rgbDim, dim, lit>>
lampVars == <<panelVars, light, commanded, subscribed, toLamp, toPanel, alone, plays, lightRestarted>>

Zeros == [u \in Uris |-> 0]
LampInit ==
    /\ uriState = [p \in Panels |-> Zeros]
    /\ index = [p \in Panels |-> 0]
    /\ dirUp = [p \in Panels |-> TRUE]
    /\ rgb = FirstColour /\ rgbDim = 0 /\ dim = 0 /\ lit = 0
    /\ commanded = Zeros
    /\ subscribed = Panels
    /\ toLamp = [p \in Panels |-> << >>]
    /\ toPanel = [p \in Panels |-> << >>]
    /\ alone = [u \in Uris |-> TRUE]
    /\ plays \in Users /\ lightRestarted = 0

UnderWay(u) == \E p \in Panels :
    \E m \in Range(toLamp[p]) \cup Range(toPanel[p]) : m.uri = u

------------------------------------------------------------------------------
(* The panels.                                                              *)

\* The new value is stored at once; the answer to the PUT is only printed.
Press(p, u, value) ==
    /\ u \in plays[p]
    /\ Len(toLamp[p]) < NetMax
    /\ uriState' = [uriState EXCEPT ![p][u] = value]
    /\ toLamp' = [toLamp EXCEPT ![p] = Append(@, [uri |-> u, value |-> value])]
    /\ alone' = [alone EXCEPT ![u] = ~UnderWay(u)]
    /\ UNCHANGED <<light, commanded, subscribed, toPanel, plays, lightRestarted>>

OneClick(p) ==
    /\ Press(p, "on_off", IF uriState[p]["on_off"] = 0 THEN 1 ELSE 0)
    /\ UNCHANGED <<index, dirUp>>
DoubleClick(p) ==
    LET next == (index[p] + 1) % Len(rgbColorTab)
    IN /\ Press(p, "rgb", rgbColorTab[next + 1])
       /\ index' = [index EXCEPT ![p] = next]
       /\ UNCHANGED dirUp
LongPressTick(p) ==
    LET new == GetNewValue(Dim, uriState[p]["dimm"], dirUp[p])
    IN /\ Press(p, "dimm", new.level)
       /\ dirUp' = [dirUp EXCEPT ![p] = new.up]
       /\ UNCHANGED index

subscribedUrisCallback(p) ==
    /\ toPanel[p] # << >>
    /\ LET m == Head(toPanel[p])
       IN uriState' = [uriState EXCEPT ![p][m.uri] = m.value]
    /\ toPanel' = [toPanel EXCEPT ![p] = Tail(@)]
    /\ UNCHANGED <<index, dirUp, light, commanded, subscribed, toLamp,
                   alone, plays, lightRestarted>>

------------------------------------------------------------------------------
(* The light.                                                               *)

Scaled(colour, level) == (colour * level) \div Dim.max
LightUp(colour) == lit' = colour

onOff(value) ==
    /\ LightUp(IF value = 0 THEN 0 ELSE IF dim = 0 THEN rgb ELSE rgbDim)
    /\ UNCHANGED <<rgb, rgbDim, dim>>
dimSet(value, colour) ==
    /\ dim' = value
    /\ rgbDim' = Scaled(colour, value)
    /\ LightUp(rgbDim')
\* Mutant: a new colour is shown, and the dimmed one kept.
colorSet_NotDimmed(colour) ==
    rgb' = colour /\ LightUp(colour) /\ UNCHANGED <<rgbDim, dim>>
colorSet(colour) ==
    /\ rgb' = colour
    /\ IF dim # 0 THEN dimSet(dim, colour)
                  ELSE LightUp(colour) /\ UNCHANGED <<rgbDim, dim>>

\* Mutant: only the panel that pressed knows.
Handle_Silent(p) ==
    /\ toLamp[p] # << >>
    /\ LET m == Head(toLamp[p])
       IN /\ \/ m.uri = "on_off" /\ onOff(m.value)
             \/ m.uri = "dimm" /\ dimSet(m.value, rgb) /\ UNCHANGED rgb
             \/ m.uri = "rgb" /\ colorSet(m.value)
          /\ commanded' = [commanded EXCEPT ![m.uri] = m.value]
    /\ toLamp' = [toLamp EXCEPT ![p] = Tail(@)]
    /\ UNCHANGED <<panelVars, subscribed, toPanel, alone, plays, lightRestarted>>

\* processUriRequest tells every subscriber but the sender, then the handler
\* of the resource acts.
Handle(p) ==
    /\ toLamp[p] # << >>
    /\ LET m == Head(toLamp[p])
           others == subscribed \ {p}
       IN /\ \A q \in others : Len(toPanel[q]) < NetMax
          /\ toPanel' = [q \in Panels |-> IF q \in others THEN Append(toPanel[q], m)
                                                          ELSE toPanel[q]]
          /\ \/ m.uri = "on_off" /\ onOff(m.value)
             \/ m.uri = "dimm" /\ dimSet(m.value, rgb) /\ UNCHANGED rgb
             \/ m.uri = "rgb" /\ colorSet(m.value)
          /\ commanded' = [commanded EXCEPT ![m.uri] = m.value]
    /\ toLamp' = [toLamp EXCEPT ![p] = Tail(@)]
    /\ UNCHANGED <<panelVars, subscribed, alone, plays, lightRestarted>>

\* The light is switched off and on: it forgets its settings and its
\* subscribers, and what is under way is lost.
LightRestart ==
    /\ lightRestarted < LightRestarts /\ lightRestarted' = lightRestarted + 1
    /\ rgb' = FirstColour /\ rgbDim' = 0 /\ dim' = 0 /\ lit' = 0
    /\ commanded' = Zeros
    /\ subscribed' = {}
    /\ toLamp' = [p \in Panels |-> << >>] /\ toPanel' = toLamp'
    /\ alone' = [u \in Uris |-> FALSE]
    /\ UNCHANGED <<panelVars, plays>>
\* Its announcement made a panel renew its subscriptions (module Observe).
Subscribe(p) ==
    /\ p \notin subscribed
    /\ subscribed' = subscribed \cup {p}
    /\ alone' = [u \in Uris |-> alone[u] /\ ~UnderWay(u) /\ uriState[p][u] = commanded[u]]
    /\ UNCHANGED <<panelVars, light, commanded, toLamp, toPanel, plays, lightRestarted>>

LampNext ==
    \/ \E p \in Panels : \/ OneClick(p) \/ DoubleClick(p) \/ LongPressTick(p)
                         \/ subscribedUrisCallback(p) \/ Handle(p) \/ Subscribe(p)
    \/ LightRestart

LampSpec == LampInit /\ [][LampNext]_lampVars

------------------------------------------------------------------------------
(* The dimmed colour kept for the next switching-on always belongs to the   *)
(* current colour and brightness, whichever was changed last.               *)
DimmedFits == dim # 0 => rgbDim = Scaled(rgb, dim)

(* Whatever was crossed, lost or forgotten before: after one press that was *)
(* handled by itself, all panels and the light agree on that resource.      *)
Resynced == \A u \in Uris : alone[u] /\ ~UnderWay(u) =>
    \A p \in subscribed : uriState[p][u] = commanded[u]

(* "This ensures UI state synchronization across the entire home"           *)
(* (README.md:456): when nothing is under way, every panel holds the value  *)
(* the light acted on last.                                                 *)
PanelsAgree == (\A u \in Uris : ~UnderWay(u)) /\ lightRestarted = 0 =>
    \A p \in subscribed : uriState[p] = commanded
=============================================================================
