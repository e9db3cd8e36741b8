---------------------------- MODULE Light_proofs ----------------------------
(***************************************************************************)
(* The parts of a light: its panels and resources (Lamp), the segments of  *)
(* its strip (Fx) and the strip's drivers (Strip), which run MC_Devices    *)
(* checks together.                                                        *)
(***************************************************************************)
EXTENDS Fx, Lamp, Strip, Lemmas, FiniteSetTheorems, TLAPS

------------------------------------------------------------------------------
(* The panels and the light: their types, and one resource that was left    *)
(* alone by all but its last press.                                         *)
Msg == [uri : Uris, value : Nat]

PanelsOK ==
    /\ uriState \in [Panels -> [Uris -> Nat]]
    /\ index \in [Panels -> Nat] /\ dirUp \in [Panels -> BOOLEAN]
LightOK ==
    /\ rgb \in Nat /\ rgbDim \in Int /\ dim \in Nat /\ lit \in Int
    /\ commanded \in [Uris -> Nat]
NetOK ==
    /\ toLamp \in [Panels -> Seq(Msg)] /\ toPanel \in [Panels -> Seq(Msg)]
    /\ subscribed \subseteq Panels
    /\ alone \in [Uris -> BOOLEAN]
    /\ plays \in [Panels -> SUBSET Uris]
LampTypeOK == PanelsOK /\ LightOK /\ NetOK

\* What a queue holds for a resource.
Holds(q, u) == \E i \in DOMAIN q : q[i].uri = u
AllSay(q, u, v) == \A i \in DOMAIN q : q[i].uri = u => q[i].value = v
Once(q, u) == \A i, j \in DOMAIN q : q[i].uri = u /\ q[j].uri = u => i = j

\* The press is on its way: nothing else is, and the panel holds its value.
PressedAt(p, u) ==
    /\ Holds(toLamp[p], u) /\ Once(toLamp[p], u)
    /\ AllSay(toLamp[p], u, uriState[p][u])
    /\ \A q \in Panels : q # p => ~Holds(toLamp[q], u)
    /\ \A q \in Panels : ~Holds(toPanel[q], u)
\* The light acted on it: every subscriber holds the value or is being told.
Obeyed(u) ==
    /\ \A q \in Panels : ~Holds(toLamp[q], u) /\ AllSay(toPanel[q], u, commanded[u])
    /\ \A q \in subscribed : uriState[q][u] = commanded[u] \/ Holds(toPanel[q], u)
AloneInv == \A u \in Uris : alone[u] => Obeyed(u) \/ \E p \in Panels : PressedAt(p, u)

LampInv == LampTypeOK /\ AloneInv /\ DimmedFits

(* A message is put at the end of a queue and taken from its front. *)
LEMMA Queued ==
    ASSUME NEW q \in Seq(Msg), NEW m \in Msg, NEW u, NEW v
    PROVE  /\ Append(q, m) \in Seq(Msg)
           /\ Holds(Append(q, m), u) <=> Holds(q, u) \/ m.uri = u
           /\ AllSay(Append(q, m), u, v) <=>
                 AllSay(q, u, v) /\ (m.uri = u => m.value = v)
           /\ Once(q, u) /\ (m.uri = u => ~Holds(q, u)) => Once(Append(q, m), u)
<1>1. /\ Append(q, m) \in Seq(Msg) /\ Len(q) \in Nat
      /\ DOMAIN q = 1 .. Len(q) /\ DOMAIN Append(q, m) = 1 .. Len(q) + 1
      /\ Append(q, m)[Len(q) + 1] = m
      /\ \A i \in DOMAIN q : Append(q, m)[i] = q[i]
  OBVIOUS
<1> QED
  BY <1>1 DEF Holds, AllSay, Once

LEMMA Taken ==
    ASSUME NEW q \in Seq(Msg), q # << >>, NEW u, NEW v
    PROVE  /\ Head(q) \in Msg /\ Tail(q) \in Seq(Msg)
           /\ Holds(q, u) <=> Head(q).uri = u \/ Holds(Tail(q), u)
           /\ AllSay(q, u, v) <=>
                 (Head(q).uri = u => Head(q).value = v) /\ AllSay(Tail(q), u, v)
           /\ Once(q, u) =>
                 Once(Tail(q), u) /\ (Head(q).uri = u => ~Holds(Tail(q), u))
<1>1. /\ Head(q) \in Msg /\ Tail(q) \in Seq(Msg) /\ Len(q) \in Nat /\ Len(q) > 0
      /\ DOMAIN q = 1 .. Len(q) /\ DOMAIN Tail(q) = 1 .. Len(q) - 1
      /\ Head(q) = q[1]
      /\ \A i \in 1 .. Len(q) - 1 : Tail(q)[i] = q[i + 1]
  OBVIOUS
<1>2. \A i \in DOMAIN Tail(q) : i + 1 \in DOMAIN q /\ Tail(q)[i] = q[i + 1] /\ i + 1 # 1
  BY <1>1
<1>3. \A i \in DOMAIN q : i = 1 \/ (i - 1 \in DOMAIN Tail(q) /\ Tail(q)[i - 1] = q[i])
  BY <1>1
<1>4. 1 \in DOMAIN q
  BY <1>1
<1>5. Holds(q, u) <=> Head(q).uri = u \/ Holds(Tail(q), u)
  <2>1. ASSUME NEW i \in DOMAIN q, q[i].uri = u, i # 1 PROVE Holds(Tail(q), u)
    BY <1>3, <2>1, Zenon DEF Holds
  <2>2. Holds(Tail(q), u) => Holds(q, u)
    BY <1>2, Zenon DEF Holds
  <2> QED
    BY <1>1, <1>4, <2>1, <2>2, Zenon DEF Holds
<1>6. AllSay(q, u, v) <=> (Head(q).uri = u => Head(q).value = v) /\ AllSay(Tail(q), u, v)
  <2>1. ASSUME AllSay(q, u, v) PROVE AllSay(Tail(q), u, v)
    BY <1>2, <2>1, Zenon DEF AllSay
  <2>2. ASSUME AllSay(Tail(q), u, v), NEW i \in DOMAIN q, i # 1, q[i].uri = u
        PROVE  q[i].value = v
    BY <1>3, <2>2, Zenon DEF AllSay
  <2>3. AllSay(q, u, v) => (Head(q).uri = u => Head(q).value = v)
    BY <1>1, <1>4, Zenon DEF AllSay
  <2>4. ASSUME Head(q).uri = u => Head(q).value = v, AllSay(Tail(q), u, v)
        PROVE  AllSay(q, u, v)
    BY <1>1, <2>2, <2>4, Zenon DEF AllSay
  <2> QED
    BY <2>1, <2>3, <2>4
<1>7. ASSUME Once(q, u)
      PROVE  Once(Tail(q), u) /\ (Head(q).uri = u => ~Holds(Tail(q), u))
  <2>1. Once(Tail(q), u)
    <3>1. SUFFICES ASSUME NEW i \in DOMAIN Tail(q), NEW j \in DOMAIN Tail(q),
                          Tail(q)[i].uri = u, Tail(q)[j].uri = u
                   PROVE  i = j
      BY DEF Once
    <3>2. i + 1 = j + 1
      BY <1>2, <1>7, <3>1, Zenon DEF Once
    <3> QED
      BY <1>1, <3>2
  <2>2. ASSUME Head(q).uri = u, NEW i \in DOMAIN Tail(q), Tail(q)[i].uri = u PROVE FALSE
    BY <1>1, <1>2, <1>4, <1>7, <2>2, Zenon DEF Once
  <2> QED
    BY <2>1, <2>2 DEF Holds
<1> QED
  BY <1>1, <1>5, <1>6, <1>7

(* The new level of a dimmer is a byte. *)
LEMMA NewLevel ==
    ASSUME NEW level \in Nat, NEW up \in BOOLEAN
    PROVE  /\ GetNewValue(Dim, level, up).level \in Nat
           /\ GetNewValue(Dim, level, up).up \in BOOLEAN
<1>1. getStep(Dim, level) \in Nat
  <2> DEFINE reached == {i \in DOMAIN Dim.thresh : level % 256 <= Dim.thresh[i]}
  <2>1. /\ Dim.max \in Nat /\ Dim.thresh \in Seq(0 .. Dim.max) /\ Dim.steps \in Seq(1 .. Dim.max)
        /\ Len(Dim.thresh) = Len(Dim.steps)
    BY LampConstants DEF IsDimTable
  <2>2. CASE reached # {}
    <3>1. reached \in SUBSET Nat
      BY <2>1
    <3>2. Min(reached) \in reached
      BY <2>2, <3>1, MinIsIn
    <3>3. Min(reached) \in DOMAIN Dim.steps
      BY <2>1, <3>2
    <3>4. Dim.steps[Min(reached)] \in 1 .. Dim.max
      BY <2>1, <3>3
    <3>5. getStep(Dim, level) = Dim.steps[Min(reached)]
      BY <2>2 DEF getStep
    <3> QED
      BY <2>1, <3>4, <3>5
  <2>3. CASE reached = {}
    BY <2>3 DEF getStep
  <2> QED
    BY <2>2, <2>3
<1>2. Dim.max \in Nat
  BY LampConstants DEF IsDimTable
<1>3. \A n \in Int : n % 256 \in Nat
  OBVIOUS
<1>4. \E n \in Int, d \in BOOLEAN : GetNewValue(Dim, level, up) = [level |-> n % 256, up |-> d]
  <2> DEFINE step == getStep(Dim, level)
  <2>1. /\ level + step \in Int /\ level - step \in Int /\ Dim.max \in Int /\ 0 \in Int
        /\ (~up) \in BOOLEAN
    BY <1>1, <1>2
  <2>2. \/ GetNewValue(Dim, level, up) = [level |-> Dim.max % 256, up |-> ~up]
        \/ GetNewValue(Dim, level, up) = [level |-> (level + step) % 256, up |-> up]
        \/ GetNewValue(Dim, level, up) = [level |-> 0 % 256, up |-> ~up]
        \/ GetNewValue(Dim, level, up) = [level |-> (level - step) % 256, up |-> up]
    BY Zenon DEF GetNewValue
  <2> HIDE DEF step
  <2> QED
    BY <2>1, <2>2, Zenon
<1> QED
  BY <1>3, <1>4

(* What a press does. *)
Sends(p, u, value) ==
    /\ toLamp' = [toLamp EXCEPT ![p] = Append(@, [uri |-> u, value |-> value])]
    /\ uriState' = [uriState EXCEPT ![p][u] = value]
    /\ alone' = [alone EXCEPT ![u] = ~UnderWay(u)]
    /\ UNCHANGED <<light, commanded, subscribed, toPanel, plays>>

LEMMA Presses ==
    ASSUME LampTypeOK, NEW p \in Panels, OneClick(p) \/ DoubleClick(p) \/ LongPressTick(p)
    PROVE  /\ \E u \in Uris, value \in Nat : Sends(p, u, value)
           /\ index' \in [Panels -> Nat] /\ dirUp' \in [Panels -> BOOLEAN]
<1> USE DEF LampTypeOK, PanelsOK
<1>0. "on_off" \in Uris /\ "dimm" \in Uris /\ "rgb" \in Uris
  BY DEF Uris
<1>1. CASE OneClick(p)
  BY <1>0, <1>1 DEF OneClick, Press, Sends
<1>2. CASE DoubleClick(p)
  <2> DEFINE next == (index[p] + 1) % Len(rgbColorTab)
  <2>1. rgbColorTab \in Seq(Levels) /\ Len(rgbColorTab) \in Nat \ {0} /\ Levels \subseteq Nat
    BY LampConstants DEF Levels, IsDimTable
  <2>2. next \in 0 .. Len(rgbColorTab) - 1
    BY <2>1
  <2>3. rgbColorTab[next + 1] \in Nat
    <3>1. next + 1 \in DOMAIN rgbColorTab
      BY <2>1, <2>2
    <3> HIDE DEF next
    <3>2. rgbColorTab[next + 1] \in Levels
      BY <2>1, <3>1
    <3> QED
      BY <2>1, <3>2
  <2>4. Sends(p, "rgb", rgbColorTab[next + 1])
    BY <1>2 DEF DoubleClick, Press, Sends
  <2>5. index' \in [Panels -> Nat] /\ dirUp' = dirUp
    BY <1>2, <2>1, <2>2 DEF DoubleClick
  <2> HIDE DEF next
  <2> QED
    BY <1>0, <2>3, <2>4, <2>5
<1>3. CASE LongPressTick(p)
  <2> DEFINE new == GetNewValue(Dim, uriState[p]["dimm"], dirUp[p])
  <2>1. new.level \in Nat /\ new.up \in BOOLEAN
    <3>1. uriState[p]["dimm"] \in Nat /\ dirUp[p] \in BOOLEAN
      BY <1>0
    <3> QED
      BY <3>1, NewLevel, Zenon
  <2>2. Sends(p, "dimm", new.level)
    BY <1>3 DEF LongPressTick, Press, Sends
  <2>3. dirUp' = [dirUp EXCEPT ![p] = new.up] /\ index' = index
    BY <1>3 DEF LongPressTick
  <2> HIDE DEF new
  <2> QED
    BY <1>0, <2>1, <2>2, <2>3
<1> QED
  BY <1>1, <1>2, <1>3

(* The light computes the dimmed colour from what it then has. *)
Acts(m) ==
    \/ m.uri = "on_off" /\ onOff(m.value)
    \/ m.uri = "dimm" /\ dimSet(m.value, rgb) /\ UNCHANGED rgb
    \/ m.uri = "rgb" /\ colorSet(m.value)

LEMMA ActsTyped ==
    ASSUME LightOK, NEW m \in Msg, Acts(m)
    PROVE  /\ rgb' \in Nat /\ rgbDim' \in Int /\ dim' \in Nat /\ lit' \in Int
           /\ DimmedFits => DimmedFits'
<1>1. \A c, l \in Nat : Scaled(c, l) \in Int
  <2>1. Dim.max \in Nat \ {0}
    <3>1. /\ Dim.max \in Nat /\ Dim.thresh \in Seq(0 .. Dim.max)
          /\ Dim.steps \in Seq(1 .. Dim.max)
          /\ Len(Dim.thresh) = Len(Dim.steps) /\ Len(Dim.thresh) > 0
      BY LampConstants DEF IsDimTable
    <3>2. Dim.steps[1] \in 1 .. Dim.max
      BY <3>1
    <3> QED
      BY <3>1, <3>2
  <2>2. \A n \in Int, d \in Nat \ {0} : n \div d \in Int
    OBVIOUS
  <2>3. \A c, l \in Nat : c * l \in Int
    OBVIOUS
  <2> QED
    BY <2>1, <2>2, <2>3 DEF Scaled
<1>2. m.value \in Nat
  BY DEF Msg
<1> QED
  BY <1>1, <1>2 DEF Acts, onOff, dimSet, colorSet, LightUp, LightOK, DimmedFits

LEMMA UnderWayIs ==
    ASSUME NEW u
    PROVE  UnderWay(u) <=> \E p \in Panels : Holds(toLamp[p], u) \/ Holds(toPanel[p], u)
    BY DEF UnderWay, Range, Holds

LEMMA LampTypes ==
    ASSUME LampTypeOK
    PROVE  /\ uriState \in [Panels -> [Uris -> Nat]]
           /\ index \in [Panels -> Nat] /\ dirUp \in [Panels -> BOOLEAN]
           /\ toLamp \in [Panels -> Seq(Msg)] /\ toPanel \in [Panels -> Seq(Msg)]
           /\ subscribed \subseteq Panels
           /\ commanded \in [Uris -> Nat] /\ alone \in [Uris -> BOOLEAN]
    BY DEF LampTypeOK, PanelsOK, LightOK, NetOK

(* The last press of a resource is under way... *)
LEMMA SendsKeeps ==
    ASSUME LampTypeOK, AloneInv, NEW p \in Panels, NEW u \in Uris, NEW value \in Nat,
           Sends(p, u, value)
    PROVE  /\ toLamp' \in [Panels -> Seq(Msg)] /\ uriState' \in [Panels -> [Uris -> Nat]]
           /\ alone' \in [Uris -> BOOLEAN]
           /\ AloneInv'
<1> DEFINE m == [uri |-> u, value |-> value]
<1>1. m \in Msg /\ m.uri = u /\ m.value = value
  BY DEF Msg
<1>2. /\ toLamp'[p] = Append(toLamp[p], m)
      /\ \A q \in Panels : q # p => toLamp'[q] = toLamp[q]
  BY LampTypes DEF Sends
<1>3. /\ uriState' \in [Panels -> [Uris -> Nat]]
      /\ uriState'[p][u] = value
      /\ \A q \in Panels, w \in Uris : q # p \/ w # u => uriState'[q][w] = uriState[q][w]
  BY LampTypes DEF Sends
<1>4. /\ alone' \in [Uris -> BOOLEAN]
      /\ alone'[u] => ~UnderWay(u)
      /\ \A w \in Uris : w # u => alone'[w] = alone[w]
  BY LampTypes DEF Sends
<1>5. UNCHANGED <<commanded, subscribed, toPanel>>
  BY DEF Sends
<1> HIDE DEF m
<1>6. toLamp' \in [Panels -> Seq(Msg)]
  <2>1. Append(toLamp[p], m) \in Seq(Msg)
    BY <1>1, LampTypes
  <2> QED
    BY <2>1, LampTypes DEF Sends, m
<1>7. \A w, v :
        /\ Holds(toLamp'[p], w) <=> Holds(toLamp[p], w) \/ w = u
        /\ AllSay(toLamp'[p], w, v) <=> AllSay(toLamp[p], w, v) /\ (w = u => value = v)
        /\ Once(toLamp[p], w) /\ (w = u => ~Holds(toLamp[p], u)) => Once(toLamp'[p], w)
  <2>1. toLamp[p] \in Seq(Msg)
    BY LampTypes
  <2> TAKE w, v
  <2>2. /\ Holds(Append(toLamp[p], m), w) <=> Holds(toLamp[p], w) \/ m.uri = w
        /\ AllSay(Append(toLamp[p], m), w, v) <=>
              AllSay(toLamp[p], w, v) /\ (m.uri = w => m.value = v)
        /\ Once(toLamp[p], w) /\ (m.uri = w => ~Holds(toLamp[p], w)) =>
              Once(Append(toLamp[p], m), w)
    BY <1>1, <2>1, Queued
  <2> QED
    BY <1>1, <1>2, <2>2
<1>8. ASSUME NEW w \in Uris, alone'[w]
      PROVE  Obeyed(w)' \/ \E r \in Panels : PressedAt(r, w)'
  <2>1. CASE w = u
    <3>1. \A q \in Panels : ~Holds(toLamp[q], u) /\ ~Holds(toPanel[q], u)
      BY <1>4, <1>8, <2>1, UnderWayIs
    <3>2. Once(toLamp[p], u) /\ AllSay(toLamp[p], u, value)
      BY <3>1 DEF Once, AllSay, Holds
    <3>3. Holds(toLamp'[p], u) /\ Once(toLamp'[p], u) /\ AllSay(toLamp'[p], u, value)
      BY <1>7, <3>1, <3>2
    <3>4. PressedAt(p, u)'
      BY <1>2, <1>3, <1>5, <3>1, <3>3 DEF PressedAt
    <3> QED
      BY <2>1, <3>4
  <2>2. ASSUME w # u, NEW r \in Panels, PressedAt(r, w) PROVE PressedAt(r, w)'
    <3>1. /\ Holds(toLamp[r], w) /\ Once(toLamp[r], w) /\ AllSay(toLamp[r], w, uriState[r][w])
          /\ \A q \in Panels : q # r => ~Holds(toLamp[q], w)
          /\ \A q \in Panels : ~Holds(toPanel[q], w)
      BY <2>2 DEF PressedAt
    <3>2. uriState'[r][w] = uriState[r][w]
      BY <1>3, <2>2
    <3>3. Holds(toLamp'[r], w) /\ Once(toLamp'[r], w) /\ AllSay(toLamp'[r], w, uriState[r][w])
      BY <1>2, <1>7, <2>2, <3>1
    <3>4. \A q \in Panels : q # r => ~Holds(toLamp'[q], w)
      BY <1>2, <1>7, <2>2, <3>1
    <3> QED
      BY <1>5, <3>1, <3>2, <3>3, <3>4 DEF PressedAt
  <2>3. ASSUME w # u, Obeyed(w) PROVE Obeyed(w)'
    <3>1. \A q \in Panels : ~Holds(toLamp'[q], w)
      BY <1>2, <1>7, <2>3 DEF Obeyed
    <3>2. \A q \in Panels : uriState'[q][w] = uriState[q][w]
      BY <1>3, <2>3
    <3> QED
      BY <1>5, <2>3, <3>1, <3>2, LampTypes DEF Obeyed
  <2> QED
    BY <1>4, <1>8, <2>1, <2>2, <2>3 DEF AloneInv
<1> QED
  BY <1>3, <1>4, <1>6, <1>8 DEF AloneInv

(* ...then the light acts on it and tells the others... *)
LEMMA ToldKeeps ==
    ASSUME LampTypeOK, AloneInv, NEW p \in Panels, subscribedUrisCallback(p)
    PROVE  LampTypeOK' /\ AloneInv'
<1> DEFINE m == Head(toPanel[p])
<1>1. toPanel[p] # << >> /\ toPanel[p] \in Seq(Msg)
  BY LampTypes DEF subscribedUrisCallback
<1>2. m \in Msg /\ Tail(toPanel[p]) \in Seq(Msg) /\ m.uri \in Uris /\ m.value \in Nat
  <2>1. m \in Msg /\ Tail(toPanel[p]) \in Seq(Msg)
    BY <1>1, Taken
  <2> HIDE DEF m
  <2> QED
    BY <2>1 DEF Msg
<1>3. /\ toPanel'[p] = Tail(toPanel[p])
      /\ \A q \in Panels : q # p => toPanel'[q] = toPanel[q]
      /\ toPanel' \in [Panels -> Seq(Msg)]
  BY <1>2, LampTypes DEF subscribedUrisCallback
<1>4. /\ uriState' \in [Panels -> [Uris -> Nat]]
      /\ uriState'[p][m.uri] = m.value
      /\ \A q \in Panels, w \in Uris : q # p \/ w # m.uri => uriState'[q][w] = uriState[q][w]
  BY <1>2, LampTypes DEF subscribedUrisCallback
<1>5. UNCHANGED <<index, dirUp, light, commanded, subscribed, toLamp, alone, plays>>
  BY DEF subscribedUrisCallback
<1>6. \A w, v :
        /\ Holds(toPanel[p], w) <=> m.uri = w \/ Holds(toPanel'[p], w)
        /\ AllSay(toPanel[p], w, v) <=> (m.uri = w => m.value = v) /\ AllSay(toPanel'[p], w, v)
  <2> TAKE w, v
  <2> QED
    BY <1>1, <1>3, Taken, Zenon
<1> HIDE DEF m
<1>7. LampTypeOK'
  BY <1>3, <1>4, <1>5 DEF LampTypeOK, PanelsOK, LightOK, NetOK, light
<1>8. ASSUME NEW w \in Uris, NEW r \in Panels, PressedAt(r, w) PROVE PressedAt(r, w)'
  <2>1. /\ Holds(toLamp[r], w) /\ Once(toLamp[r], w) /\ AllSay(toLamp[r], w, uriState[r][w])
        /\ \A q \in Panels : q # r => ~Holds(toLamp[q], w)
        /\ \A q \in Panels : ~Holds(toPanel[q], w)
    BY <1>8 DEF PressedAt
  <2>2. m.uri # w
    BY <1>6, <2>1
  <2>3. uriState'[r][w] = uriState[r][w]
    BY <1>4, <2>2
  <2>4. \A q \in Panels : ~Holds(toPanel'[q], w)
    BY <1>3, <1>6, <2>1
  <2> QED
    BY <1>5, <2>1, <2>3, <2>4 DEF PressedAt
<1>9. ASSUME NEW w \in Uris, Obeyed(w) PROVE Obeyed(w)'
  <2>1. \A q \in Panels : ~Holds(toLamp'[q], w)
    BY <1>5, <1>9 DEF Obeyed
  <2>2. \A q \in Panels : AllSay(toPanel'[q], w, commanded[w])
    BY <1>3, <1>6, <1>9 DEF Obeyed
  <2>3. ASSUME NEW q \in subscribed
        PROVE  uriState'[q][w] = commanded[w] \/ Holds(toPanel'[q], w)
    <3>1. q \in Panels /\ (uriState[q][w] = commanded[w] \/ Holds(toPanel[q], w))
      BY <1>9, LampTypes DEF Obeyed
    <3>2. CASE q = p /\ m.uri = w
      <4>1. m.value = commanded[w]
        BY <1>6, <1>9, <3>2 DEF Obeyed
      <4> QED
        BY <1>4, <3>2, <4>1
    <3>3. CASE q # p \/ m.uri # w
      BY <1>3, <1>4, <1>6, <3>1, <3>3
    <3> QED
      BY <3>2, <3>3
  <2> QED
    BY <1>5, <2>1, <2>2, <2>3 DEF Obeyed
<1> QED
  BY <1>5, <1>7, <1>8, <1>9 DEF AloneInv

LEMMA HandleKeeps ==
    ASSUME LampTypeOK, AloneInv, NEW p \in Panels, Handle(p)
    PROVE  LampTypeOK' /\ AloneInv' /\ (DimmedFits => DimmedFits')
<1> DEFINE m == Head(toLamp[p])
           others == subscribed \ {p}
<1>1. toLamp[p] # << >> /\ toLamp[p] \in Seq(Msg)
  BY LampTypes DEF Handle
<1>2. m \in Msg /\ Tail(toLamp[p]) \in Seq(Msg) /\ m.uri \in Uris /\ m.value \in Nat
  <2>1. m \in Msg /\ Tail(toLamp[p]) \in Seq(Msg)
    BY <1>1, Taken
  <2> HIDE DEF m
  <2> QED
    BY <2>1 DEF Msg
<1>3. /\ toLamp'[p] = Tail(toLamp[p])
      /\ \A q \in Panels : q # p => toLamp'[q] = toLamp[q]
      /\ toLamp' \in [Panels -> Seq(Msg)]
  BY <1>2, LampTypes DEF Handle
<1>4. toPanel' = [q \in Panels |-> IF q \in others THEN Append(toPanel[q], m) ELSE toPanel[q]]
  BY DEF Handle
<1>5. toPanel' \in [Panels -> Seq(Msg)]
  <2>1. \A q \in Panels : Append(toPanel[q], m) \in Seq(Msg)
    BY <1>2, LampTypes
  <2> HIDE DEF m
  <2> QED
    BY <1>4, <2>1, LampTypes
<1>6. /\ commanded' \in [Uris -> Nat] /\ commanded'[m.uri] = m.value
      /\ \A w \in Uris : w # m.uri => commanded'[w] = commanded[w]
  BY <1>2, LampTypes DEF Handle
<1>7. UNCHANGED <<uriState, index, dirUp, subscribed, alone, plays>>
  BY DEF Handle, panelVars
<1>8. LightOK' /\ (DimmedFits => DimmedFits')
  <2>1. Acts(m)
    BY DEF Handle, Acts
  <2>2. LightOK
    BY DEF LampTypeOK
  <2> HIDE DEF m
  <2> QED
    BY <1>2, <1>6, <2>1, <2>2, ActsTyped DEF LightOK
<1>9. \A w, v :
        /\ Holds(toLamp[p], w) <=> m.uri = w \/ Holds(toLamp'[p], w)
        /\ AllSay(toLamp[p], w, v) <=> (m.uri = w => m.value = v) /\ AllSay(toLamp'[p], w, v)
        /\ Once(toLamp[p], w) =>
              Once(toLamp'[p], w) /\ (m.uri = w => ~Holds(toLamp'[p], w))
  <2> TAKE w, v
  <2>1. /\ Holds(toLamp[p], w) <=> m.uri = w \/ Holds(Tail(toLamp[p]), w)
        /\ AllSay(toLamp[p], w, v) <=>
              (m.uri = w => m.value = v) /\ AllSay(Tail(toLamp[p]), w, v)
        /\ Once(toLamp[p], w) =>
              Once(Tail(toLamp[p]), w) /\ (m.uri = w => ~Holds(Tail(toLamp[p]), w))
    BY <1>1, Taken
  <2> QED
    BY <1>3, <2>1
<1>10. \A q \in others : \A w, v :
        /\ Holds(toPanel'[q], w) <=> Holds(toPanel[q], w) \/ m.uri = w
        /\ AllSay(toPanel'[q], w, v) <=>
              AllSay(toPanel[q], w, v) /\ (m.uri = w => m.value = v)
  <2> HIDE DEF m
  <2>1. \A q \in others : toPanel[q] \in Seq(Msg) /\ toPanel'[q] = Append(toPanel[q], m)
    BY <1>4, LampTypes
  <2> HIDE DEF others
  <2> TAKE q \in others
  <2> TAKE w, v
  <2>2. /\ Holds(Append(toPanel[q], m), w) <=> Holds(toPanel[q], w) \/ m.uri = w
        /\ AllSay(Append(toPanel[q], m), w, v) <=>
              AllSay(toPanel[q], w, v) /\ (m.uri = w => m.value = v)
    BY <1>2, <2>1, Queued
  <2> QED
    BY <2>1, <2>2
<1>11. \A q \in Panels : q \notin others => toPanel'[q] = toPanel[q]
  BY <1>4
<1> HIDE DEF m
<1>12. LampTypeOK'
  BY <1>3, <1>5, <1>6, <1>7, <1>8 DEF LampTypeOK, PanelsOK, NetOK
<1>13. ASSUME NEW w \in Uris, NEW r \in Panels, PressedAt(r, w)
       PROVE  PressedAt(r, w)' \/ Obeyed(w)'
  <2>1. /\ Holds(toLamp[r], w) /\ Once(toLamp[r], w) /\ AllSay(toLamp[r], w, uriState[r][w])
        /\ \A q \in Panels : q # r => ~Holds(toLamp[q], w)
        /\ \A q \in Panels : ~Holds(toPanel[q], w)
    BY <1>13 DEF PressedAt
  <2>2. CASE m.uri = w
    <3>1. p = r /\ m.value = uriState[r][w] /\ commanded'[w] = m.value
      BY <1>6, <1>9, <2>1, <2>2
    <3>2. \A q \in Panels : ~Holds(toLamp'[q], w)
      BY <1>3, <1>9, <2>1, <2>2, <3>1
    <3>3. \A q \in Panels : AllSay(toPanel[q], w, commanded'[w])
      BY <2>1 DEF Holds, AllSay
    <3>4. \A q \in Panels : AllSay(toPanel'[q], w, commanded'[w])
      BY <1>10, <1>11, <3>1, <3>3
    <3>5. \A q \in subscribed : uriState[q][w] = commanded'[w] \/ Holds(toPanel'[q], w)
      BY <1>10, <2>2, <3>1
    <3>6. Obeyed(w)'
      BY <1>7, <3>2, <3>4, <3>5 DEF Obeyed
    <3> QED
      BY <3>6
  <2>3. CASE m.uri # w
    <3>1. \A q \in Panels : ~Holds(toPanel'[q], w)
      BY <1>10, <1>11, <2>1, <2>3
    <3>2. \A q \in Panels : q # r => ~Holds(toLamp'[q], w)
      BY <1>3, <1>9, <2>1
    <3>3. Holds(toLamp'[r], w) /\ Once(toLamp'[r], w) /\ AllSay(toLamp'[r], w, uriState[r][w])
      BY <1>3, <1>9, <2>1, <2>3
    <3>4. PressedAt(r, w)'
      BY <1>7, <3>1, <3>2, <3>3 DEF PressedAt
    <3> QED
      BY <3>4
  <2> QED
    BY <2>2, <2>3
<1>14. ASSUME NEW w \in Uris, Obeyed(w) PROVE Obeyed(w)'
  <2>1. m.uri # w /\ commanded'[w] = commanded[w]
    BY <1>6, <1>9, <1>14 DEF Obeyed
  <2>2. \A q \in Panels : ~Holds(toLamp'[q], w)
    BY <1>3, <1>9, <1>14 DEF Obeyed
  <2>3. \A q \in Panels : AllSay(toPanel'[q], w, commanded[w])
    BY <1>10, <1>11, <1>14, <2>1 DEF Obeyed
  <2>4. \A q \in subscribed : uriState[q][w] = commanded[w] \/ Holds(toPanel'[q], w)
    BY <1>10, <1>11, <1>14, <2>1, LampTypes DEF Obeyed
  <2> QED
    BY <1>7, <2>1, <2>2, <2>3, <2>4 DEF Obeyed
<1> QED
  BY <1>7, <1>8, <1>12, <1>13, <1>14 DEF AloneInv

(* ...and a panel joins in when it agrees already, or nothing is promised.  *)
LEMMA SubscribeKeeps ==
    ASSUME LampTypeOK, AloneInv, NEW p \in Panels, Subscribe(p)
    PROVE  LampTypeOK' /\ AloneInv'
<1>1. /\ UNCHANGED <<uriState, index, dirUp, light, commanded, toLamp, toPanel, plays>>
      /\ subscribed' = subscribed \cup {p}
  BY DEF Subscribe, panelVars
<1>2. /\ alone' \in [Uris -> BOOLEAN]
      /\ \A w \in Uris : alone'[w] => /\ alone[w] /\ ~UnderWay(w)
                                      /\ uriState[p][w] = commanded[w]
  BY LampTypes DEF Subscribe
<1>3. LampTypeOK'
  BY <1>1, <1>2 DEF LampTypeOK, PanelsOK, LightOK, NetOK, light
<1>4. ASSUME NEW w \in Uris, alone'[w] PROVE Obeyed(w)'
  <2>1. \A q \in Panels : ~Holds(toLamp[q], w) /\ ~Holds(toPanel[q], w)
    BY <1>2, <1>4, UnderWayIs
  <2>2. Obeyed(w)
    BY <1>2, <1>4, <2>1 DEF AloneInv, PressedAt
  <2> QED
    BY <1>1, <1>2, <1>4, <2>2 DEF Obeyed
<1> QED
  BY <1>3, <1>4 DEF AloneInv

LEMMA LampInitOK == LampInit => LampInv
<1> SUFFICES ASSUME LampInit PROVE LampInv
  OBVIOUS
<1>1. FirstColour \in Nat /\ Users \subseteq [Panels -> SUBSET Uris]
  BY LampConstants DEF Levels, IsDimTable
<1>2. LampTypeOK
  BY <1>1 DEF LampInit, LampTypeOK, PanelsOK, LightOK, NetOK, Zeros
<1>3. \A u \in Uris : Obeyed(u)
  BY DEF LampInit, Obeyed, Holds, AllSay, Zeros
<1> QED
  BY <1>2, <1>3 DEF LampInv, AloneInv, LampInit, DimmedFits

LEMMA LampStep == LampInv /\ [LampNext]_lampVars => LampInv'
<1> SUFFICES ASSUME LampInv, [LampNext]_lampVars PROVE LampInv'
  OBVIOUS
<1> USE DEF LampInv
<1>1. ASSUME NEW p \in Panels, OneClick(p) \/ DoubleClick(p) \/ LongPressTick(p)
      PROVE  LampInv'
  <2>1. PICK u \in Uris, value \in Nat : Sends(p, u, value)
    BY <1>1, Presses
  <2>2. /\ toLamp' \in [Panels -> Seq(Msg)] /\ uriState' \in [Panels -> [Uris -> Nat]]
        /\ alone' \in [Uris -> BOOLEAN] /\ AloneInv'
    BY <2>1, SendsKeeps
  <2>3. index' \in [Panels -> Nat] /\ dirUp' \in [Panels -> BOOLEAN]
    BY <1>1, Presses
  <2>4. UNCHANGED <<rgb, rgbDim, dim, lit, commanded, subscribed, toPanel, plays>>
    BY <2>1 DEF Sends, light
  <2>5. LampTypeOK'
    BY <2>2, <2>3, <2>4 DEF LampTypeOK, PanelsOK, LightOK, NetOK
  <2> QED
    BY <2>2, <2>4, <2>5 DEF DimmedFits
<1>2. ASSUME NEW p \in Panels, subscribedUrisCallback(p) PROVE LampInv'
  BY <1>2, ToldKeeps DEF subscribedUrisCallback, light, DimmedFits
<1>3. ASSUME NEW p \in Panels, Handle(p) PROVE LampInv'
  BY <1>3, HandleKeeps
<1>4. ASSUME NEW p \in Panels, Subscribe(p) PROVE LampInv'
  BY <1>4, SubscribeKeeps DEF Subscribe, light, DimmedFits
<1>5. CASE LightRestart
  <2>1. FirstColour \in Nat
    BY LampConstants DEF Levels, IsDimTable
  <2>2. LampTypeOK'
    BY <1>5, <2>1 DEF LightRestart, panelVars, LampTypeOK, PanelsOK, LightOK, NetOK, Zeros
  <2> QED
    BY <1>5, <2>2 DEF LightRestart, AloneInv, DimmedFits
<1>6. CASE UNCHANGED lampVars
  <2>1. UNCHANGED <<panelVars, light, commanded, subscribed, toLamp, toPanel, alone, plays>>
    BY <1>6 DEF lampVars
  <2>2. LampTypeOK'
    BY <2>1 DEF LampTypeOK, PanelsOK, LightOK, NetOK, panelVars, light
  <2>3. AloneInv'
    BY <2>1 DEF AloneInv, PressedAt, Obeyed, panelVars
  <2> QED
    BY <2>1, <2>2, <2>3 DEF DimmedFits, light
<1> QED
  BY <1>1, <1>2, <1>3, <1>4, <1>5, <1>6 DEF LampNext

THEOREM LampInductive == LampSpec => []LampInv
  BY LampInitOK, LampStep, PTL DEF LampSpec

(* The dimmed colour is always that of the present colour and brightness.   *)
THEOREM DimmedColourFits == LampSpec => []DimmedFits
<1>1. LampInv => DimmedFits
  BY DEF LampInv
<1> QED
  BY <1>1, LampInductive, PTL

(* One press that nothing crosses brings all panels and the light together, *)
(* for any number of panels and whatever went before.                       *)
THEOREM PressResyncs == LampSpec => []Resynced
<1>1. LampInv => Resynced
  <2> SUFFICES ASSUME LampInv, NEW u \in Uris, alone[u], ~UnderWay(u), NEW p \in subscribed
               PROVE  uriState[p][u] = commanded[u]
    BY DEF Resynced
  <2>1. \A q \in Panels : ~Holds(toLamp[q], u) /\ ~Holds(toPanel[q], u)
    BY UnderWayIs
  <2>2. Obeyed(u)
    BY <2>1 DEF LampInv, AloneInv, PressedAt
  <2> QED
    BY <2>1, <2>2, LampTypes DEF LampInv, Obeyed
<1> QED
  BY <1>1, LampInductive, PTL

------------------------------------------------------------------------------
(* The segments of a strip: what lets an effect stay within its segment.    *)

\* The counters the effects address LEDs with, for the effects that trust them.
StepFits(c, n, step) ==
    /\ c \in 8 .. 13 => step < 2 * n
    /\ c \in {37, 38, 46} => step < n
    /\ c = 45 /\ n >= 2 => step < 2 * n - 2
\* They fit while the borders have not moved since the effect was begun (mv).
Counts(mv, c, n, step) ==
    /\ c \in Chases => step < Leds
    /\ mv # "since" => StepFits(c, n, step)
\* The position drawn last is one of the segment while they never moved.
Drawn(mv, n, aux) == mv = "never" /\ n >= 2 => aux < n

SegmentOK(s) ==
    /\ s \in Segment
    /\ s.start <= s.stop /\ s.stop <= Leds
    /\ s.callback \in -1 .. ModeCount - 1
    /\ s.running => s.callback # NoCallback
Sound(s, mv) ==
    /\ SegmentOK(s)
    /\ Counts(mv, s.callback, Length(s), s.step)
    /\ Drawn(mv, Length(s), s.aux16)

InOrder(f) == \A j, k \in DOMAIN f : j < k => f[j].stop < f[k].start
FxInv ==
    /\ \E n \in 1 .. MaxSegments : seg \in [0 .. n - 1 -> Segment]
    /\ DOMAIN moved = Segments
    /\ \A k \in Segments : Sound(seg[k], moved[k])
    /\ ~overlaid => InOrder(seg)
    /\ StaysHome

\* Roams, of a segment with these borders and counters.
Leaves(s, mv) ==
    LET m == s.callback
    IN \/ m \in Chases \cup {57} /\ Length(s) < Leds
       \/ m \in {20, 21, 29, 30, 45} /\ Length(s) = 1
       \/ m \in {29, 30} /\ mv # "never"
       \/ m \in (8 .. 13) \cup {37, 38, 45, 46} /\ mv = "since"
       \/ m = 0 /\ s.stop = Leds
\* Only mode_static writes LEDs off the strip.
Home(s, mv, leds) ==
    Leaves(s, mv) \/ \A i \in leds : i \in Strip \/ s.callback = 0 => i \in All(s)

\* What an effect that is run may return: it moved its counters on as it
\* trusts them, and unless it may roam it wrote no LED outside the segment.
Keeps(s, mv, o) ==
    /\ o.seg \in Segment
    /\ o.seg.start = s.start /\ o.seg.stop = s.stop
    /\ o.seg.running = s.running /\ o.seg.callback = s.callback
    /\ Counts(mv, s.callback, Length(s), o.seg.step)
    /\ Drawn(mv, Length(s), o.seg.aux16)
    /\ Home(s, mv, o.lit)
AllKeep(s, mv, outcomes) == \A o \in outcomes : Keeps(s, mv, o)

LEMMA SegmentFields ==
    ASSUME NEW s \in Segment
    PROVE  /\ s.start \in Nat /\ s.stop \in Nat /\ s.mode \in Nat /\ s.callback \in Int
           /\ s.call \in Nat /\ s.step \in Nat /\ s.speed \in Nat /\ s.aux16 \in Nat
           /\ s.delay \in Nat
           /\ s.running \in BOOLEAN /\ s.reverse \in BOOLEAN /\ s.cycle \in BOOLEAN
  BY DEF Segment

\* A running segment, and one whose counter its effect does not address with.
Ready(s, mv) == Sound(s, mv) /\ s.running
Plain(s) == s.callback \notin (8 .. 13) \cup Chases \cup {37, 38, 45, 46}

(* The fields an effect may change: the counters, and a delay.              *)
LEMMA MoveKeeps ==
    ASSUME NEW s, NEW mv, NEW t \in Segment, NEW leds,
           t.start = s.start, t.stop = s.stop, t.running = s.running,
           t.callback = s.callback,
           Counts(mv, s.callback, Length(s), t.step), Drawn(mv, Length(s), t.aux16),
           Home(s, mv, leds)
    PROVE  Keeps(s, mv, [seg |-> t, lit |-> leds])
  BY DEF Keeps

LEMMA ToKeeps ==
    ASSUME NEW s, NEW mv, Ready(s, mv), NEW step \in Nat, NEW delay \in Nat, NEW leds,
           Counts(mv, s.callback, Length(s), step), Home(s, mv, leds)
    PROVE  Keeps(s, mv, To(s, step, delay, leds))
<1> DEFINE t == [s EXCEPT !.step = step, !.delay = delay]
<1>1. s \in Segment /\ Drawn(mv, Length(s), s.aux16)
  BY DEF Ready, Sound, SegmentOK
<1>2. /\ t \in Segment
      /\ t.start = s.start /\ t.stop = s.stop /\ t.running = s.running
      /\ t.callback = s.callback
      /\ t.aux16 = s.aux16 /\ t.step = step
  BY <1>1 DEF Segment
<1>3. To(s, step, delay, leds) = [seg |-> t, lit |-> leds]
  BY DEF To
<1> HIDE DEF t
<1> QED
  BY <1>1, <1>2, <1>3, MoveKeeps

LEMMA Remainders ==
    \A n \in Int, d \in Nat \ {0} : n % d \in Nat /\ n % d < d
  OBVIOUS
LEMMA Quotients ==
    \A n \in Nat, d \in Nat \ {0} : n \div d \in Nat /\ (n \div d) * d <= n
  OBVIOUS

LEMMA Shape ==
    ASSUME NEW s, NEW mv, Ready(s, mv)
    PROVE  /\ s \in Segment
           /\ s.start \in Nat /\ s.stop \in Nat /\ s.step \in Nat /\ s.aux16 \in Nat
           /\ s.call \in Nat /\ s.speed \in Nat /\ s.delay \in Nat
           /\ s.reverse \in BOOLEAN /\ s.cycle \in BOOLEAN
           /\ Length(s) = s.stop - s.start + 1 /\ Length(s) \in Nat \ {0}
           /\ s.stop <= Leds /\ s.callback \in 0 .. 57
           /\ Counts(mv, s.callback, Length(s), s.step) /\ Drawn(mv, Length(s), s.aux16)
  BY SegmentFields DEF Ready, Sound, SegmentOK, NoCallback, ModeCount, Length

LEMMA Within ==
    ASSUME NEW s, NEW mv, Ready(s, mv)
    PROVE  /\ \A i \in Int : i \in All(s) <=> s.start <= i /\ i <= s.stop
           /\ \A i \in Any(s) : i \in All(s)
           /\ \A i \in 0 .. Length(s) - 1 : s.start + i \in All(s) /\ s.stop - i \in All(s)
           /\ \A i \in 0 .. Length(s) - 1 : At(s, i) \in All(s)
  BY Shape DEF All, Any, At

LEMMA InsideIsHome ==
    ASSUME NEW s, NEW mv, NEW leds, leds \subseteq All(s)
    PROVE  Home(s, mv, leds)
  BY DEF Home

LEMMA PlainCounts ==
    ASSUME NEW s, Plain(s), NEW mv, NEW n, NEW step
    PROVE  Counts(mv, s.callback, n, step)
  BY DEF Plain, Counts, StepFits

(* The effects that paint it, or LEDs drawn in it, and time themselves.     *)
LEMMA PlainKeeps ==
    ASSUME NEW s, NEW mv, Ready(s, mv), Plain(s), NEW step \in Nat, NEW delay \in Nat,
           NEW leds, leds \subseteq All(s)
    PROVE  Keeps(s, mv, To(s, step, delay, leds))
  BY ToKeeps, PlainCounts, InsideIsHome

(* The effects that paint the whole segment.                                *)
LEMMA PaintKeeps ==
    ASSUME NEW s, NEW mv, Ready(s, mv), Plain(s), NEW step \in Nat
    PROVE  AllKeep(s, mv, Paint(s, step))
  BY Shape, PlainKeeps DEF Paint, AllKeep

LEMMA PaintersKeep ==
    ASSUME NEW s, NEW mv, Ready(s, mv), Plain(s)
    PROVE  /\ AllKeep(s, mv, mode_static(s)) /\ AllKeep(s, mv, mode_random_color(s))
           /\ AllKeep(s, mv, mode_multi_dynamic(s)) /\ AllKeep(s, mv, fire_flicker(s))
           /\ AllKeep(s, mv, mode_hyper_sparkle(s))
           /\ AllKeep(s, mv, mode_rainbow(s)) /\ AllKeep(s, mv, mode_rainbow_cycle(s))
           /\ AllKeep(s, mv, mode_running_lights(s)) /\ AllKeep(s, mv, mode_fade(s))
           /\ AllKeep(s, mv, running(s)) /\ AllKeep(s, mv, tricolor_chase(s))
<1>1. /\ s.step \in Nat /\ (s.step + 1) % Wheel \in Nat
      /\ (s.step + 1) % 4 \in Nat /\ (s.step + 1) % 6 \in Nat
      /\ (IF s.step + 4 > 2 * Wheel - 1 THEN 0 ELSE s.step + 4) \in Nat
  <2>1. s.step \in Nat /\ s.step + 1 \in Int /\ Wheel \in Nat \ {0}
    BY EffectConstants, Shape
  <2>2. (s.step + 1) % Wheel \in Nat
    BY <2>1, Remainders
  <2>3. (s.step + 1) % 4 \in Nat /\ (s.step + 1) % 6 \in Nat
    BY <2>1
  <2> QED
    BY <2>1, <2>2, <2>3
<1>2. \A step \in Nat : AllKeep(s, mv, Paint(s, step))
  BY PaintKeeps
<1> QED
  BY <1>1, <1>2
     DEF mode_static, mode_random_color, mode_multi_dynamic, fire_flicker,
         mode_hyper_sparkle, mode_rainbow, mode_rainbow_cycle, mode_running_lights,
         mode_fade, running, tricolor_chase

LEMMA DrawnKeep ==
    ASSUME NEW s, NEW mv, Ready(s, mv), Plain(s)
    PROVE  /\ AllKeep(s, mv, twinkle_fade(s)) /\ AllKeep(s, mv, fireworks(s))
           /\ AllKeep(s, mv, mode_single_dynamic(s)) /\ AllKeep(s, mv, twinkle(s))
<1>1. s.step \in Nat /\ s.speed \in Nat /\ Any(s) \subseteq All(s) /\ s.stop \in All(s)
  BY Shape, Within
<1> DEFINE paint(leds) == To(s, s.step, s.speed, leds)
<1>0. ASSUME NEW leds, leds \subseteq All(s) PROVE Keeps(s, mv, paint(leds))
  BY <1>0, <1>1, PlainKeeps
<1>2. AllKeep(s, mv, twinkle_fade(s)) /\ AllKeep(s, mv, fireworks(s))
  <2>1. /\ twinkle_fade(s) = {paint(All(s) \cup {i}) : i \in Any(s)}
        /\ fireworks(s) = {paint(All(s) \cup {i}) : i \in Any(s)}
    BY DEF twinkle_fade, fireworks, fade_out
  <2>2. \A i \in Any(s) : All(s) \cup {i} \subseteq All(s)
    BY <1>1
  <2> HIDE DEF paint
  <2> QED
    BY <1>0, <2>1, <2>2 DEF AllKeep
<1>3. AllKeep(s, mv, mode_single_dynamic(s))
  <2>1. \A i \in Any(s) : {i} \cup (IF s.call = 0 THEN {s.stop} ELSE {}) \subseteq All(s)
    BY <1>1
  <2>2. mode_single_dynamic(s) =
          {paint({i} \cup (IF s.call = 0 THEN {s.stop} ELSE {})) : i \in Any(s)}
    BY DEF mode_single_dynamic
  <2> HIDE DEF paint
  <2> QED
    BY <1>0, <2>1, <2>2 DEF AllKeep
<1>4. AllKeep(s, mv, twinkle(s))
  <2> DEFINE few == Larger(1, Leds \div 5)
             many == Larger(1, Leds \div 2)
  <2>1. few \in Nat \ {0} /\ many \in Nat
    BY EffectConstants, Quotients DEF Larger
  <2>2. \A n \in few .. many : n - 1 \in Nat
    BY <2>1
  <2>3. s.step # 0 => s.step - 1 \in Nat
    BY <1>1
  <2>4. twinkle(s) = IF s.step = 0
                     THEN {To(s, n - 1, s.speed, All(s)) : n \in few .. many}
                     ELSE {To(s, s.step - 1, s.speed, {i}) : i \in Any(s)}
    BY DEF twinkle
  <2> HIDE DEF few, many
  <2>5. ASSUME NEW n \in few .. many PROVE Keeps(s, mv, To(s, n - 1, s.speed, All(s)))
    BY <1>1, <2>2, PlainKeeps
  <2>6. ASSUME s.step # 0, NEW i \in Any(s) PROVE Keeps(s, mv, To(s, s.step - 1, s.speed, {i}))
    BY <1>1, <2>3, <2>6, PlainKeeps
  <2> QED
    BY <2>4, <2>5, <2>6 DEF AllKeep
<1> QED
  BY <1>2, <1>3, <1>4

LEMMA TimedKeep ==
    ASSUME NEW s, NEW mv, Ready(s, mv), Plain(s)
    PROVE  /\ \A full \in 1 .. 255 : AllKeep(s, mv, to_color(s, full))
           /\ AllKeep(s, mv, mode_blink(s)) /\ AllKeep(s, mv, mode_strobe(s))
           /\ AllKeep(s, mv, mode_breath(s)) /\ AllKeep(s, mv, mode_multi_strobe(s))
<1>1. s \in Segment /\ s.step \in Nat /\ s.speed \in Nat /\ s.cycle \in BOOLEAN
  BY Shape
<1>2. ASSUME NEW full \in 1 .. 255 PROVE AllKeep(s, mv, to_color(s, full))
  <2> DEFINE up == ~s.cycle /\ s.step < full
             down == s.cycle /\ s.step > 0
             step == IF up THEN s.step + 1 ELSE IF down THEN s.step - 1 ELSE s.step
             cycle == IF up \/ down THEN s.cycle ELSE ~s.cycle
             delay == (s.speed \div full) \div 2
             t == [s EXCEPT !.step = step, !.cycle = cycle, !.delay = delay]
  <2>1. step \in Nat /\ cycle \in BOOLEAN /\ delay \in Nat
    <3>1. s.speed \div full \in Nat
      BY <1>1, Quotients
    <3>2. delay \in Nat
      BY <3>1, Quotients
    <3>3. step \in Nat
      BY <1>1
    <3>4. cycle \in BOOLEAN
      BY <1>1
    <3> QED
      BY <3>2, <3>3, <3>4
  <2>2. to_color(s, full) = {[seg |-> t, lit |-> All(s)]}
    BY <1>1 DEF to_color, Segment
  <2> HIDE DEF step, cycle, delay
  <2>3. /\ t \in Segment /\ t.start = s.start /\ t.stop = s.stop /\ t.running = s.running
        /\ t.callback = s.callback /\ t.aux16 = s.aux16
    BY <1>1, <2>1 DEF Segment
  <2> HIDE DEF t
  <2>4. Keeps(s, mv, [seg |-> t, lit |-> All(s)])
    BY <2>3, PlainCounts, InsideIsHome, MoveKeeps, Shape
  <2> QED
    BY <2>2, <2>4 DEF AllKeep
<1>3. ASSUME NEW strobe \in BOOLEAN PROVE AllKeep(s, mv, blink(s, strobe))
  <2> DEFINE rest == IF s.speed < 20 THEN U32 + s.speed - 20 ELSE s.speed - 20
  <2>1. rest \in Nat /\ s.speed \div 2 \in Nat
    BY <1>1, EffectConstants, Quotients
  <2>2. PICK delay \in {20, rest, s.speed \div 2} : blink(s, strobe) = {To(s, s.step, delay, All(s))}
    BY DEF blink
  <2> QED
    BY <1>1, <2>1, <2>2, PlainKeeps DEF AllKeep
<1>4. AllKeep(s, mv, mode_breath(s))
  <2>1. PICK delay \in Nat, step \in {15, s.step + 2} :
             mode_breath(s) = {To(s, step, delay, All(s))}
    BY DEF mode_breath
  <2> QED
    BY <1>1, <2>1, PlainKeeps DEF AllKeep
<1>5. AllKeep(s, mv, mode_multi_strobe(s))
  <2> DEFINE count == 2 * ((s.speed \div 100) + 1)
             pause == 200 + (9 - (s.speed % 10)) * 100
  <2>1. count \in Nat
    BY <1>1, Quotients
  <2>2. (s.step + 1) % (count + 1) \in Nat
    <3> HIDE DEF count
    <3> QED
      BY <1>1, <2>1, Remainders
  <2>3. pause \in Nat
    BY <1>1, Remainders
  <2>4. PICK delay \in {20, 50, pause} :
             mode_multi_strobe(s) = {To(s, (s.step + 1) % (count + 1), delay, All(s))}
    BY DEF mode_multi_strobe
  <2> HIDE DEF count, pause
  <2> QED
    BY <2>2, <2>3, <2>4, PlainKeeps DEF AllKeep
<1>6. AllKeep(s, mv, mode_blink(s)) /\ AllKeep(s, mv, mode_strobe(s))
  BY <1>3, Zenon DEF mode_blink, mode_strobe
<1> QED
  BY <1>2, <1>4, <1>5, <1>6

(* The effects that address LEDs with their counter.                        *)
LEMMA WipesKeep ==
    ASSUME NEW s, NEW mv, Ready(s, mv), s.callback \in 8 .. 13
    PROVE  /\ AllKeep(s, mv, mode_color_wipe(s)) /\ AllKeep(s, mv, mode_color_wipe_rev(s))
           /\ AllKeep(s, mv, mode_color_wipe_random(s))
           /\ AllKeep(s, mv, mode_color_sweep_random(s))
<1> SUFFICES ASSUME NEW rev \in BOOLEAN PROVE AllKeep(s, mv, color_wipe(s, rev))
  BY Zenon DEF mode_color_wipe, mode_color_wipe_rev, mode_color_wipe_random,
               mode_color_sweep_random
<1> DEFINE n == Length(s)
           off == IF s.step < n THEN s.step ELSE s.step - n
           i == IF rev THEN s.stop - off ELSE s.start + off
           step == (s.step + 1) % (2 * n)
<1>1. n \in Nat \ {0} /\ s.step \in Nat /\ s.speed \in Nat
  BY Shape
<1>2. Home(s, mv, {i})
  <2>1. CASE mv = "since"
    BY <2>1 DEF Home, Leaves
  <2>2. CASE mv # "since"
    <3>1. s.step < 2 * n
      BY <2>2, Shape DEF Counts, StepFits
    <3>2. off \in 0 .. n - 1
      BY <1>1, <3>1
    <3>3. i \in All(s)
      BY <3>2, Within
    <3> QED
      BY <3>3, InsideIsHome
  <2> QED
    BY <2>1, <2>2
<1>3. step \in Nat /\ step < 2 * n
  <2>1. 2 * n \in Nat \ {0} /\ s.step + 1 \in Int
    BY <1>1
  <2> QED
    BY <2>1, Remainders
<1>4. color_wipe(s, rev) = {To(s, step, s.speed, {i})}
  BY DEF color_wipe
<1> HIDE DEF i, step
<1>5. Counts(mv, s.callback, n, step)
  BY <1>3 DEF Counts, StepFits, Chases
<1> QED
  BY <1>1, <1>2, <1>3, <1>4, <1>5, ToKeeps DEF AllKeep

LEMMA ScansKeep ==
    ASSUME NEW s, NEW mv, Ready(s, mv), s.callback \in {20, 21}
    PROVE  AllKeep(s, mv, mode_scan(s)) /\ AllKeep(s, mv, mode_dual_scan(s))
<1> DEFINE n == Length(s)
           off == Dist(ScanStep(s), n - 1)
           step == (ScanStep(s) + 1) % U32
           one == All(s) \cup {At(s, off)}
           two == (s.start .. s.stop - 1) \cup {s.start + off, s.start + n - off - 1}
<1>1. /\ n \in Nat \ {0} /\ s.step \in Nat /\ s.speed \in Nat
      /\ n = s.stop - s.start + 1 /\ s.start \in Nat /\ s.stop \in Nat
  BY Shape
<1>2. step \in Nat
  <2>1. ScanStep(s) + 1 \in Int /\ U32 \in Nat \ {0}
    BY <1>1, EffectConstants DEF ScanStep
  <2> QED
    BY <2>1, Remainders
<1>3. Home(s, mv, one) /\ Home(s, mv, two)
  <2>1. CASE n = 1
    BY <2>1 DEF Home, Leaves
  <2>2. CASE n # 1
    <3>1. off \in 0 .. n - 1
      BY <1>1, <2>2 DEF Dist, ScanStep
    <3> HIDE DEF off
    <3>2. one \subseteq All(s)
      BY <3>1, Within
    <3>3. two \subseteq All(s)
      BY <1>1, <3>1, Within
    <3> QED
      BY <3>2, <3>3, InsideIsHome
  <2> QED
    BY <2>1, <2>2
<1>4. Counts(mv, s.callback, n, step)
  BY PlainCounts DEF Plain, Chases
<1>5. mode_scan(s) = {To(s, step, s.speed, one)}
  BY DEF mode_scan
<1>6. mode_dual_scan(s) = {To(s, step, s.speed, two)}
  BY DEF mode_dual_scan
<1> HIDE DEF one, two, step
<1> QED
  BY <1>1, <1>2, <1>3, <1>4, <1>5, <1>6, ToKeeps DEF AllKeep

LEMMA TheaterKeeps ==
    ASSUME NEW s, NEW mv, Ready(s, mv), Plain(s)
    PROVE  AllKeep(s, mv, mode_theater_chase(s)) /\ AllKeep(s, mv, mode_theater_chase_rainbow(s))
<1> SUFFICES ASSUME NEW rainbow \in BOOLEAN PROVE AllKeep(s, mv, theater_chase(s, rainbow))
  BY Zenon DEF mode_theater_chase, mode_theater_chase_rainbow
<1> DEFINE call == s.call % 3
           step == IF rainbow THEN (s.step + 1) % Wheel ELSE s.step
           t == [s EXCEPT !.call = call, !.delay = s.speed, !.step = step]
           leds == {At(s, i) : i \in 0 .. Length(s) - 1}
<1>1. s \in Segment /\ s.step \in Nat /\ s.speed \in Nat /\ s.call \in Nat
  BY Shape
<1>2. call \in Nat /\ step \in Nat
  <2>1. s.step + 1 \in Int /\ Wheel \in Nat \ {0}
    BY <1>1, EffectConstants
  <2>2. (s.step + 1) % Wheel \in Nat
    BY <2>1, Remainders
  <2> QED
    BY <1>1, <2>2
<1>3. leds \subseteq All(s)
  BY Within
<1>4. theater_chase(s, rainbow) = {[seg |-> t, lit |-> leds]}
  BY <1>1 DEF theater_chase, Segment
<1> HIDE DEF call, step, leds
<1>5. /\ t \in Segment /\ t.start = s.start /\ t.stop = s.stop /\ t.running = s.running
      /\ t.callback = s.callback /\ t.aux16 = s.aux16
  BY <1>1, <1>2 DEF Segment
<1> HIDE DEF t
<1>6. Keeps(s, mv, [seg |-> t, lit |-> leds])
  BY <1>3, <1>5, PlainCounts, InsideIsHome, MoveKeeps, Shape
<1> QED
  BY <1>4, <1>6 DEF AllKeep

(* The sparkles put out the LED drawn last, wherever the borders were then. *)
LEMMA SparklesKeep ==
    ASSUME NEW s, NEW mv, Ready(s, mv), s.callback \in {29, 30}
    PROVE  AllKeep(s, mv, mode_sparkle(s)) /\ AllKeep(s, mv, mode_flash_sparkle(s))
<1> DEFINE n == Length(s)
<1>1. /\ s \in Segment /\ s.speed \in Nat /\ s.aux16 \in Nat /\ n \in Nat \ {0}
      /\ Drawn(mv, n, s.aux16)
  BY Shape
<1>2. ASSUME NEW j \in Nat, Drawn(mv, n, j), NEW leds, Home(s, mv, leds)
      PROVE  Keeps(s, mv, [seg |-> Sparkle(s, j), lit |-> leds])
  <2> DEFINE t == Sparkle(s, j)
  <2>1. /\ t \in Segment /\ t.start = s.start /\ t.stop = s.stop /\ t.running = s.running
        /\ t.callback = s.callback /\ t.aux16 = j
    BY <1>1 DEF Sparkle, Segment
  <2>2. Counts(mv, s.callback, n, t.step)
    BY PlainCounts DEF Plain, Chases
  <2> HIDE DEF t
  <2>3. Keeps(s, mv, [seg |-> t, lit |-> leds])
    BY <1>2, <2>1, <2>2, MoveKeeps
  <2> QED
    BY <2>3 DEF t
<1>3. \A j \in 0 .. n - 1 : j \in Nat /\ Drawn(mv, n, j) /\ s.start + j \in All(s)
  BY <1>1, Within DEF Drawn
<1>4. Leaves(s, mv) \/ s.start + s.aux16 \in All(s)
  <2>1. CASE n = 1 \/ mv # "never"
    BY <2>1 DEF Leaves
  <2>2. CASE n # 1 /\ mv = "never"
    <3>1. s.aux16 \in 0 .. n - 1
      BY <1>1, <2>2 DEF Drawn
    <3> QED
      BY <1>3, <3>1
  <2> QED
    BY <2>1, <2>2
<1>5. AllKeep(s, mv, mode_sparkle(s))
  <2>1. \A j \in 0 .. n - 1 : Home(s, mv, {s.start + s.aux16, s.start + j})
    BY <1>3, <1>4 DEF Home
  <2> QED
    BY <1>2, <1>3, <2>1 DEF mode_sparkle, AllKeep
<1>6. AllKeep(s, mv, mode_flash_sparkle(s))
  <2> DEFINE before == {s.start + s.aux16} \cup (IF s.call = 0 THEN All(s) ELSE {})
  <2>1. Home(s, mv, before) /\ \A j \in 0 .. n - 1 : Home(s, mv, before \cup {s.start + j})
    BY <1>3, <1>4 DEF Home
  <2>2. mode_flash_sparkle(s) =
          {[seg |-> Sparkle(s, s.aux16), lit |-> before]} \cup
          {[seg |-> Sparkle(s, j), lit |-> before \cup {s.start + j}]
             : j \in 0 .. Length(s) - 1}
    BY DEF mode_flash_sparkle
  <2> HIDE DEF before
  <2> QED
    BY <1>1, <1>2, <1>3, <2>1, <2>2 DEF AllKeep
<1> QED
  BY <1>5, <1>6

LEMMA ChaseKeeps ==
    ASSUME NEW s, NEW mv, Ready(s, mv), s.callback \in Chases
    PROVE  AllKeep(s, mv, chase(s))
<1> DEFINE n == Length(s)
           a == s.step
           b == (a + 1) % n
           c == (b + 1) % n
           step == (a + 1) % Leds
           t == [s EXCEPT !.step = step, !.delay = s.speed, !.cycle = b = 0]
           leds == {At(s, a), At(s, b), At(s, c)}
<1>1. /\ s \in Segment /\ n \in Nat \ {0} /\ a \in Nat /\ s.speed \in Nat
      /\ a < Leds /\ Leds \in Nat \ {0} /\ Drawn(mv, n, s.aux16)
  BY Shape, EffectConstants DEF Counts
<1>2. b \in Nat /\ b < n
  BY <1>1, Remainders
<1>3. c \in Nat /\ c < n
  <2> HIDE DEF b, n
  <2> QED
    BY <1>1, <1>2, Remainders
<1>4. step \in Nat /\ step < Leds
  BY <1>1, Remainders
<1>5. Home(s, mv, leds)
  <2>1. CASE n < Leds
    BY <2>1 DEF Home, Leaves
  <2>2. CASE n >= Leds
    <3>1. a \in 0 .. n - 1 /\ b \in 0 .. n - 1 /\ c \in 0 .. n - 1
      BY <1>1, <1>2, <1>3, <2>2
    <3> HIDE DEF a, b, c
    <3>2. leds \subseteq All(s)
      BY <3>1, Within
    <3> QED
      BY <3>2, InsideIsHome
  <2> QED
    BY <1>1, <2>1, <2>2
<1>6. chase(s) = {[seg |-> t, lit |-> leds]}
  BY <1>1 DEF chase, Segment
<1>7. (b = 0) \in BOOLEAN
  OBVIOUS
<1> HIDE DEF leds, step, b, n
<1>8. /\ t \in Segment /\ t.start = s.start /\ t.stop = s.stop /\ t.running = s.running
      /\ t.callback = s.callback /\ t.aux16 = s.aux16 /\ t.step = step
  BY <1>1, <1>4, <1>7 DEF Segment
<1>9. Counts(mv, s.callback, Length(s), step)
  BY <1>4 DEF Counts, StepFits, Chases
<1> HIDE DEF t
<1>10. Keeps(s, mv, [seg |-> t, lit |-> leds])
  BY <1>1, <1>5, <1>8, <1>9, MoveKeeps DEF n
<1> QED
  BY <1>6, <1>10 DEF AllKeep

\* The counter of these effects is a position in the segment, when they may
\* not roam; and the one after it is.
LEMMA Positioned ==
    ASSUME NEW s, NEW mv, Ready(s, mv), s.callback \in {37, 38, 46}
    PROVE  LET n == Length(s)
               m == (s.step + 1) % n
           IN /\ Leaves(s, mv) \/ s.step \in 0 .. n - 1
              /\ s.step \in Nat /\ m \in Nat /\ m \in 0 .. n - 1 /\ s.speed \in Nat
              /\ Counts(mv, s.callback, n, s.step) /\ Counts(mv, s.callback, n, m)
<1> DEFINE n == Length(s)
           m == (s.step + 1) % n
<1>1. /\ n \in Nat \ {0} /\ s.step \in Nat /\ s.speed \in Nat
      /\ Counts(mv, s.callback, n, s.step)
  BY Shape
<1>2. m \in Nat /\ m < n
  BY <1>1, Remainders
<1>3. Leaves(s, mv) \/ s.step < n
  <2>1. CASE mv = "since"
    BY <2>1 DEF Leaves
  <2>2. CASE mv # "since"
    BY <1>1, <2>2 DEF Counts, StepFits
  <2> QED
    BY <2>1, <2>2
<1>4. Counts(mv, s.callback, n, m)
  <2> HIDE DEF m
  <2> QED
    BY <1>1, <1>2 DEF Counts, StepFits, Chases
<1> HIDE DEF m
<1>5. m \in 0 .. n - 1 /\ (Leaves(s, mv) \/ s.step \in 0 .. n - 1)
  BY <1>1, <1>2, <1>3
<1> QED
  BY <1>1, <1>2, <1>4, <1>5 DEF m

LEMMA FlashesKeep ==
    ASSUME NEW s, NEW mv, Ready(s, mv), s.callback \in {37, 38, 46}
    PROVE  /\ AllKeep(s, mv, mode_chase_flash(s))
           /\ AllKeep(s, mv, mode_chase_flash_random(s))
           /\ AllKeep(s, mv, mode_comet(s))
<1> DEFINE n == Length(s)
           m == (s.step + 1) % n
           tail == {s.start + i : i \in 0 .. s.step - 1}
           pair == {s.start + s.step, s.start + m}
           eyes == All(s) \cup {At(s, s.step), At(s, m)}
           dot == All(s) \cup {At(s, s.step)}
<1>1. /\ Leaves(s, mv) \/ s.step \in 0 .. n - 1
      /\ s.step \in Nat /\ m \in Nat /\ m \in 0 .. n - 1 /\ s.speed \in Nat
      /\ Counts(mv, s.callback, n, s.step) /\ Counts(mv, s.callback, n, m)
  BY Positioned
<1>2. ASSUME NEW step \in {s.step, m}, NEW delay \in Nat, NEW leds, Home(s, mv, leds)
      PROVE  Keeps(s, mv, To(s, step, delay, leds))
  <2> HIDE DEF m
  <2>1. step \in Nat /\ Counts(mv, s.callback, n, step)
    BY <1>1
  <2> QED
    BY <1>2, <2>1, ToKeeps
<1> HIDE DEF m
<1>3. /\ Home(s, mv, All(s)) /\ Home(s, mv, eyes) /\ Home(s, mv, dot)
      /\ Home(s, mv, tail) /\ Home(s, mv, tail \cup pair)
  <2>1. CASE Leaves(s, mv)
    BY <2>1 DEF Home
  <2>2. CASE ~Leaves(s, mv)
    <3>1. /\ \A i \in 0 .. n - 1 : s.start + i \in All(s) /\ At(s, i) \in All(s)
          /\ \A i \in 0 .. s.step - 1 : i \in 0 .. n - 1
      BY <1>1, <2>2, Within, Shape
    <3>2. eyes \subseteq All(s) /\ dot \subseteq All(s)
      BY <1>1, <2>2, <3>1
    <3>3. tail \subseteq All(s) /\ tail \cup pair \subseteq All(s)
      BY <1>1, <2>2, <3>1
    <3> QED
      BY <3>2, <3>3, InsideIsHome
  <2> QED
    BY <2>1, <2>2
<1>4. AllKeep(s, mv, mode_chase_flash(s))
  <2>1. \/ mode_chase_flash(s) = {To(s, m, s.speed, All(s))}
        \/ mode_chase_flash(s) = {To(s, s.step, 20, eyes)}
        \/ mode_chase_flash(s) = {To(s, s.step, 30, All(s))}
    BY DEF mode_chase_flash, FlashCount, m
  <2> HIDE DEF eyes
  <2> QED
    BY <1>1, <1>2, <1>3, <2>1 DEF AllKeep
<1>5. AllKeep(s, mv, mode_chase_flash_random(s))
  <2>1. PICK delay \in {20, 30} :
          \/ mode_chase_flash_random(s) = {To(s, m, s.speed, tail)}
          \/ mode_chase_flash_random(s) = {To(s, s.step, delay, tail \cup pair)}
    BY DEF mode_chase_flash_random, m
  <2> HIDE DEF tail, pair
  <2>2. Keeps(s, mv, To(s, m, s.speed, tail))
    BY <1>1, <1>2, <1>3
  <2>3. delay \in Nat
    OBVIOUS
  <2>4. Keeps(s, mv, To(s, s.step, delay, tail \cup pair))
    BY <1>2, <1>3, <2>3
  <2> QED
    BY <2>1, <2>2, <2>4 DEF AllKeep
<1>6. AllKeep(s, mv, mode_comet(s))
  <2>1. mode_comet(s) = {To(s, m, s.speed, dot)}
    BY DEF mode_comet, fade_out, m
  <2> HIDE DEF dot
  <2> QED
    BY <1>1, <1>2, <1>3, <2>1 DEF AllKeep
<1> QED
  BY <1>4, <1>5, <1>6

LEMMA RunningKeeps ==
    ASSUME NEW s, NEW mv, Ready(s, mv), Plain(s)
    PROVE  AllKeep(s, mv, mode_running_random(s))
<1> DEFINE leds == {At(s, i) : i \in (IF s.step = 0 THEN 0 ELSE 1) .. Length(s) - 1}
<1>1. leds \subseteq All(s)
  BY Within
<1>2. PICK step \in Nat : mode_running_random(s) = {To(s, step, s.speed, leds)}
  BY DEF mode_running_random
<1> HIDE DEF leds
<1> QED
  BY <1>1, <1>2, PlainKeeps, Shape DEF AllKeep

LEMMA LarsonKeeps ==
    ASSUME NEW s, NEW mv, Ready(s, mv), s.callback = 45
    PROVE  AllKeep(s, mv, mode_larson_scanner(s))
<1> DEFINE n == Length(s)
           off == IF s.step < n THEN s.step ELSE 2 * n - s.step - 2
           round == IF n = 1 THEN U32 ELSE 2 * n - 2
           step == (s.step + 1) % round
           t == [s EXCEPT !.step = step, !.delay = s.speed, !.cycle = TRUE]
           leds == fade_out(s) \cup {At(s, off)}
<1>1. /\ s \in Segment /\ n \in Nat \ {0} /\ s.step \in Nat /\ s.speed \in Nat
      /\ Counts(mv, 45, n, s.step) /\ Drawn(mv, n, s.aux16)
  BY Shape
<1>2. step \in Nat /\ step < round
  <2>1. round \in Nat \ {0} /\ s.step + 1 \in Int
    BY <1>1, EffectConstants
  <2> HIDE DEF round
  <2> QED
    BY <2>1, Remainders
<1>3. Home(s, mv, leds)
  <2>1. CASE n = 1 \/ mv = "since"
    BY <2>1 DEF Home, Leaves
  <2>2. CASE n # 1 /\ mv # "since"
    <3>1. s.step < 2 * n - 2
      BY <1>1, <2>2 DEF Counts, StepFits
    <3>2. off \in 0 .. n - 1
      BY <1>1, <2>2, <3>1
    <3> HIDE DEF off
    <3>3. leds \subseteq All(s)
      BY <3>2, Within DEF fade_out
    <3> QED
      BY <3>3, InsideIsHome
  <2> QED
    BY <2>1, <2>2
<1>4. mode_larson_scanner(s) = {[seg |-> t, lit |-> leds]}
  BY <1>1 DEF mode_larson_scanner, Segment
<1>5. Counts(mv, 45, n, step)
  <2>1. n >= 2 => step < 2 * n - 2
    BY <1>2
  <2> HIDE DEF step
  <2> QED
    BY <2>1 DEF Counts, StepFits, Chases
<1> HIDE DEF leds, step, n
<1>6. /\ t \in Segment /\ t.start = s.start /\ t.stop = s.stop /\ t.running = s.running
      /\ t.callback = s.callback /\ t.aux16 = s.aux16 /\ t.step = step
  BY <1>1, <1>2 DEF Segment
<1> HIDE DEF t
<1>7. Keeps(s, mv, [seg |-> t, lit |-> leds])
  BY <1>1, <1>3, <1>5, <1>6, MoveKeeps DEF n
<1> QED
  BY <1>4, <1>7 DEF AllKeep

(* The eyes may leave their half of the segment, but one that is as long as *)
(* the strip ends with it.                                                  *)
LEMMA EyesKeep ==
    ASSUME NEW s, NEW mv, Ready(s, mv), s.callback = 57
    PROVE  AllKeep(s, mv, mode_icu(s))
<1> DEFINE n == Length(s)
           half == n \div 2
           dest == s.step
           drawn == IF half = 0 THEN 0 .. Leds ELSE 0 .. half - 1
           goals == IF s.aux16 = dest THEN drawn ELSE {s.aux16}
           toward(g) == CASE g > dest -> dest + 1 [] g < dest -> dest - 1
                          [] OTHER -> dest
           t(g) == [s EXCEPT !.aux16 = g, !.step = toward(g), !.delay = s.speed]
           leds(g) == {s.start + dest, s.start + dest + Leds \div 2,
                      s.start + dest + half, s.start + toward(g),
                      s.start + toward(g) + half}
<1>1. /\ s \in Segment /\ n \in Nat \ {0} /\ dest \in Nat /\ s.speed \in Nat
      /\ n = s.stop - s.start + 1 /\ s.aux16 \in Nat /\ Drawn(mv, n, s.aux16)
      /\ Leds \in Nat \ {0} /\ s.start \in Nat /\ s.stop \in Nat
  BY Shape, EffectConstants
<1>2. half \in Nat /\ (n >= 2 => half <= n /\ half # 0) /\ Leds \div 2 \in Nat
  <2> HIDE DEF n
  <2>1. n \div 2 \in Nat /\ n \div 2 <= n /\ (n >= 2 => n \div 2 # 0)
    BY <1>1
  <2> QED
    BY <1>1, <2>1
<1>3. mode_icu(s) = {[seg |-> t(g), lit |-> leds(g)] : g \in goals}
  BY DEF mode_icu
<1> HIDE DEF half
<1>4. ASSUME NEW g \in goals PROVE Keeps(s, mv, [seg |-> t(g), lit |-> leds(g)])
  <2>1. g \in Nat /\ Drawn(mv, n, g)
    BY <1>1, <1>2 DEF Drawn
  <2>2. toward(g) \in Nat
    BY <1>1, <2>1
  <2> HIDE DEF toward
  <2>3. ASSUME NEW i \in leds(g), i \in Strip, n >= Leds PROVE i \in All(s)
    <3>1. i \in Int /\ i >= s.start
      BY <1>1, <1>2, <2>2, <2>3
    <3> QED
      BY <1>1, <2>3, <3>1, Within DEF Strip
  <2> HIDE DEF leds
  <2>4. Home(s, mv, leds(g))
    <3>1. CASE n < Leds
      BY <3>1 DEF Home, Leaves
    <3>2. CASE n >= Leds
      BY <2>3, <3>2 DEF Home
    <3> QED
      BY <1>1, <3>1, <3>2
  <2> DEFINE u == t(g)
  <2>5. /\ u \in Segment /\ u.start = s.start /\ u.stop = s.stop /\ u.running = s.running
        /\ u.callback = s.callback /\ u.aux16 = g /\ u.step = toward(g)
    BY <1>1, <2>1, <2>2 DEF Segment
  <2>6. Counts(mv, s.callback, n, u.step)
    BY PlainCounts DEF Plain, Chases
  <2> HIDE DEF u
  <2>7. Keeps(s, mv, [seg |-> u, lit |-> leds(g)])
    BY <2>1, <2>4, <2>5, <2>6, MoveKeeps
  <2> QED
    BY <2>7 DEF u
<1> QED
  BY <1>3, <1>4 DEF AllKeep

LEMMA EffectKeeps ==
    ASSUME NEW s, NEW mv, Ready(s, mv)
    PROVE  AllKeep(s, mv, Effect(s))
<1>1. s.callback \in 0 .. 57
  BY Shape
<1>2. CASE s.callback \in Chases
  <2>1. Effect(s) = chase(s)
    BY <1>2 DEF Effect, Chases
  <2> QED
    BY <1>2, <2>1, ChaseKeeps
<1>3. CASE s.callback \in 8 .. 13
  <2>1. Effect(s) \in {mode_color_wipe(s), mode_color_wipe_rev(s),
                      mode_color_wipe_random(s), mode_color_sweep_random(s)}
    BY <1>3 DEF Effect, Chases
  <2> QED
    BY <1>3, <2>1, WipesKeep
<1>4. CASE s.callback \in {37, 38, 46}
  <2>1. Effect(s) \in {mode_chase_flash(s), mode_chase_flash_random(s), mode_comet(s)}
    BY <1>4 DEF Effect, Chases
  <2> QED
    BY <1>4, <2>1, FlashesKeep
<1>5. CASE s.callback = 45
  <2>1. Effect(s) = mode_larson_scanner(s)
    BY <1>5 DEF Effect, Chases
  <2> QED
    BY <1>5, <2>1, LarsonKeeps
<1>6. CASE s.callback \in {20, 21}
  <2>1. Effect(s) \in {mode_scan(s), mode_dual_scan(s)}
    BY <1>6 DEF Effect, Chases
  <2> QED
    BY <1>6, <2>1, ScansKeep
<1>7. CASE s.callback = 57
  <2>1. Effect(s) = mode_icu(s)
    BY <1>7 DEF Effect, Chases
  <2> QED
    BY <1>7, <2>1, EyesKeep
<1>8. CASE Plain(s) /\ s.callback \in 0 .. 7
  <2>1. Effect(s) \in {mode_static(s), to_color(s, Sat), to_color(s, Val), mode_blink(s),
                      mode_strobe(s), mode_breath(s)}
    BY <1>8 DEF Effect, Chases
  <2>2. Sat \in 1 .. 255 /\ Val \in 1 .. 255
    BY EffectConstants
  <2> QED
    BY <1>8, <2>1, <2>2, PaintersKeep, TimedKeep
<1>9. CASE Plain(s) /\ s.callback \in 14 .. 24 /\ s.callback \notin {20, 21}
  <2>1. Effect(s) \in {mode_random_color(s), mode_single_dynamic(s), mode_multi_dynamic(s),
                      mode_rainbow(s), mode_rainbow_cycle(s), mode_fade(s),
                      mode_theater_chase(s), mode_theater_chase_rainbow(s),
                      mode_running_lights(s)}
    BY <1>9 DEF Effect, Chases
  <2> QED
    BY <1>9, <2>1, PaintersKeep, DrawnKeep, TheaterKeeps
<1>10. CASE Plain(s) /\ s.callback \in 25 .. 32
  <2>1. CASE s.callback \in {29, 30}
    <3>1. Effect(s) \in {mode_sparkle(s), mode_flash_sparkle(s)}
      BY <2>1 DEF Effect, Chases
    <3> QED
      BY <2>1, <3>1, SparklesKeep
  <2>2. CASE s.callback \notin {29, 30}
    <3>1. Effect(s) \in {twinkle(s), twinkle_fade(s), mode_hyper_sparkle(s),
                        mode_multi_strobe(s)}
      BY <1>10, <2>2 DEF Effect, Chases
    <3> QED
      BY <1>10, <3>1, PaintersKeep, DrawnKeep, TimedKeep
  <2> QED
    BY <2>1, <2>2
<1>11. CASE Plain(s) /\ s.callback \in 33 .. 56
  <2>1. s.callback \in {42, 43, 44} \cup (47 .. 56) /\ s.callback # 55
    BY <1>11 DEF Plain, Chases
  <2>2. Effect(s) \in {running(s), mode_running_random(s), fireworks(s), fire_flicker(s),
                      tricolor_chase(s)}
    BY <2>1 DEF Effect, Chases
  <2> QED
    BY <1>11, <2>2, PaintersKeep, DrawnKeep, RunningKeeps
<1> QED
  BY <1>1, <1>2, <1>3, <1>4, <1>5, <1>6, <1>7, <1>8, <1>9, <1>10, <1>11 DEF Plain

(* The parts of a divided strip.                                            *)
LEMMA Shares ==
    ASSUME NEW n \in 1 .. MaxSegments, NEW i \in 0 .. n - 1
    PROVE  /\ Division(n, i).start \in Nat /\ Division(n, i).stop \in Nat
           /\ Division(n, i).start <= Division(n, i).stop
           /\ Division(n, i).start <= Leds - 1 /\ Division(n, i).stop <= Leds
           /\ \A j \in 0 .. n - 1 : i < j => Division(n, i).stop < Division(n, j).start
<1> DEFINE share == (Leds + 1) \div n
<1>1. Leds \in Nat \ {0} /\ n \in Nat \ {0} /\ n <= Leds
  BY EffectConstants, FxConstants
<1>2. share \in Nat /\ share * n <= Leds + 1
  BY <1>1, Quotients
<1>3. share >= 1
  <2>1. \A a \in Nat, d \in Nat \ {0} : d <= a => a \div d >= 1
    OBVIOUS
  <2> QED
    BY <1>1, <2>1
<1>4. Division(n, i) = [start |-> i * share, stop |-> (i + 1) * share - 1]
  BY DEF Division, Share
<1>5. \A j \in 0 .. n - 1 : Division(n, j).start = j * share
  BY DEF Division, Share
<1> HIDE DEF share
<1>6. i * share \in Nat /\ (i + 1) * share = i * share + share
  BY <1>2
<1>7. \A a, b, c \in Nat : a <= b => a * c <= b * c
  OBVIOUS
<1>8. (i + 1) * share <= Leds + 1
  BY <1>1, <1>2, <1>7
<1>9. i * share <= Leds - 1
  BY <1>1, <1>2, <1>3, <1>6, <1>8
<1>10. \A j \in 0 .. n - 1 : i < j => (i + 1) * share <= j * share
  BY <1>2, <1>7
<1>11. \A j \in 0 .. n - 1 : j * share \in Int
  BY <1>2
<1> QED
  BY <1>1, <1>2, <1>3, <1>4, <1>5, <1>6, <1>8, <1>9, <1>10, <1>11

LEMMA NewIsSound ==
    ASSUME NEW start \in Nat, NEW stop \in Nat, start <= stop, stop <= Leds
    PROVE  LET t == NewSegment(start, stop)
           IN Sound(t, "never") /\ t \in Segment /\ t.start = start /\ t.stop = stop
<1> DEFINE t == NewSegment(start, stop)
<1>1. DefaultSpeed \in Nat
  BY FxConstants
<1>2. /\ t \in Segment /\ t.start = start /\ t.stop = stop /\ t.callback = -1
      /\ t.running = FALSE /\ t.aux16 = 0
  BY <1>1 DEF NewSegment, Segment, NoCallback
<1> HIDE DEF t
<1>3. SegmentOK(t)
  BY <1>2 DEF SegmentOK, ModeCount
<1>4. Counts("never", t.callback, Length(t), t.step)
  BY <1>2 DEF Counts, StepFits, Chases
<1>5. Drawn("never", Length(t), t.aux16)
  BY <1>2 DEF Drawn, Length
<1> QED
  BY <1>2, <1>3, <1>4, <1>5 DEF Sound, t

LEMMA FxInitOK == FxInit => FxInv
<1> SUFFICES ASSUME FxInit PROVE FxInv
  OBVIOUS
<1>1. PICK n \in 1 .. MaxSegments :
         seg = [i \in 0 .. n - 1 |-> NewSegment(Division(n, i).start,
                                                Clipped(Division(n, i).stop))]
  BY DEF FxInit
<1>2. Leds \in Nat \ {0}
  BY EffectConstants
<1>3. \A i \in 0 .. n - 1 :
         /\ Clipped(Division(n, i).stop) \in Nat
         /\ Division(n, i).start <= Clipped(Division(n, i).stop)
         /\ Clipped(Division(n, i).stop) <= Leds
         /\ Clipped(Division(n, i).stop) <= Division(n, i).stop
  BY <1>2, Shares DEF Clipped
<1>4. \A i \in 0 .. n - 1 :
         /\ Sound(seg[i], "never") /\ seg[i] \in Segment
         /\ seg[i].start = Division(n, i).start
         /\ seg[i].stop = Clipped(Division(n, i).stop)
  BY <1>1, <1>3, Shares, NewIsSound
<1>5. seg \in [0 .. n - 1 -> Segment] /\ Segments = 0 .. n - 1
  BY <1>1, <1>4 DEF Segments
<1>6. ASSUME NEW i \in 0 .. n - 1, NEW j \in 0 .. n - 1, i < j
      PROVE  seg[i].stop < seg[j].start
  <2>1. /\ Division(n, i).stop < Division(n, j).start
        /\ Division(n, i).stop \in Nat /\ Division(n, j).start \in Nat
    BY <1>6, Shares
  <2> QED
    BY <1>3, <1>4, <2>1
<1>7. moved = [k \in Segments |-> "never"] /\ stray = {}
  BY DEF FxInit
<1> QED
  BY <1>4, <1>5, <1>6, <1>7 DEF FxInv, InOrder, StaysHome

LEMMA SegIs ==
    ASSUME FxInv
    PROVE  /\ \A k \in Segments : /\ Sound(seg[k], moved[k]) /\ SegmentOK(seg[k])
                                  /\ seg[k] \in Segment /\ k \in Nat
           /\ \E n \in 1 .. MaxSegments : /\ Segments = 0 .. n - 1
                                          /\ seg \in [0 .. n - 1 -> Segment]
  BY DEF FxInv, Segments, Sound, SegmentOK

LEMMA RedivideKeeps ==
    ASSUME FxInv, NEW n \in 1 .. MaxSegments, Redivide(n),
           \A i \in 0 .. n - 1 : i \in Segments \/ i = n - 1
    PROVE  FxInv'
<1>1. seg' = [i \in 0 .. n - 1 |->
                IF i \in Segments
                THEN [seg[i] EXCEPT !.start = Division(n, i).start,
                                    !.stop = Division(n, i).stop]
                ELSE NewSegment(Division(n, i).start, Leds - 1)]
  BY DEF Redivide
<1>2. moved' = [i \in 0 .. n - 1 |-> IF i \in Segments THEN "since" ELSE "never"]
  BY DEF Redivide
<1>3. ASSUME NEW i \in 0 .. n - 1
      PROVE  /\ Sound(seg'[i], moved'[i]) /\ seg'[i] \in Segment
             /\ seg'[i].start = Division(n, i).start
             /\ i # n - 1 => seg'[i].stop = Division(n, i).stop
  <2>1. /\ Division(n, i).start \in Nat /\ Division(n, i).stop \in Nat
        /\ Division(n, i).start <= Division(n, i).stop
        /\ Division(n, i).start <= Leds - 1 /\ Division(n, i).stop <= Leds
    BY Shares
  <2>2. CASE i \in Segments
    <3> DEFINE s == seg[i]
               a == Division(n, i).start
               b == Division(n, i).stop
               t == [s EXCEPT !.start = a, !.stop = b]
    <3>1. Sound(s, moved[i]) /\ s \in Segment
      BY <2>2, SegIs
    <3>2. seg'[i] = t /\ moved'[i] = "since"
      BY <1>1, <1>2, <2>2
    <3> HIDE DEF s, a, b
    <3>3. /\ t \in Segment /\ t.start = a /\ t.stop = b /\ t.running = s.running
          /\ t.callback = s.callback /\ t.step = s.step
      BY <2>1, <3>1 DEF Segment, a, b
    <3> HIDE DEF t
    <3>4. Sound(t, "since")
      BY <2>1, <3>1, <3>3 DEF Sound, SegmentOK, Counts, Drawn, a, b
    <3> QED
      BY <3>2, <3>3, <3>4 DEF a, b
  <2>3. CASE i \notin Segments
    <3>1. seg'[i] = NewSegment(Division(n, i).start, Leds - 1) /\ i = n - 1
          /\ moved'[i] = "never"
      BY <1>1, <1>2, <2>3
    <3>2. Leds - 1 \in Nat /\ Leds - 1 <= Leds
      BY EffectConstants
    <3> QED
      BY <2>1, <3>1, <3>2, NewIsSound
  <2> QED
    BY <2>2, <2>3
<1>4. Segments' = 0 .. n - 1 /\ seg' \in [0 .. n - 1 -> Segment]
  BY <1>1, <1>3 DEF Segments
<1>5. ASSUME NEW i \in 0 .. n - 1, NEW j \in 0 .. n - 1, i < j
      PROVE  seg'[i].stop < seg'[j].start
  <2>1. i # n - 1
    BY <1>5
  <2> QED
    BY <1>3, <1>5, <2>1, Shares
<1>6. stray' = {} /\ DOMAIN moved' = 0 .. n - 1
  BY <1>2 DEF Redivide
<1> QED
  BY <1>3, <1>4, <1>5, <1>6 DEF FxInv, InOrder, Segments, StaysHome

(* The borders stay; the counters change soundly.                           *)
LEMMA BordersStay ==
    ASSUME FxInv, DOMAIN seg' = Segments, DOMAIN moved' = Segments,
           \A j \in Segments : seg'[j] \in Segment,
           seg' = [j \in DOMAIN seg' |-> seg'[j]],
           \A j \in Segments : /\ Sound(seg'[j], moved'[j])
                               /\ seg'[j].start = seg[j].start /\ seg'[j].stop = seg[j].stop,
           overlaid' = overlaid, StaysHome'
    PROVE  FxInv'
<1>1. PICK n \in 1 .. MaxSegments : Segments = 0 .. n - 1 /\ seg \in [0 .. n - 1 -> Segment]
  BY SegIs
<1>2. seg' \in [0 .. n - 1 -> Segment]
  BY <1>1
<1>3. Segments' = Segments
  BY DEF Segments
<1>4. ~overlaid' => InOrder(seg')
  BY <1>3 DEF FxInv, InOrder, Segments
<1> QED
  BY <1>2, <1>3, <1>4 DEF FxInv

(* One segment changes, and stays clear of the others unless it is put over *)
(* one.                                                                     *)
LEMMA OneChanges ==
    ASSUME FxInv, NEW k \in Segments, NEW t \in Segment, NEW v,
           seg' = [seg EXCEPT ![k] = t], Sound(t, v),
           DOMAIN moved' = Segments, moved'[k] = v,
           \A j \in Segments : j # k => moved'[j] = moved[j],
           ~overlaid' => ~overlaid /\ Between(k, t.start, t.stop),
           stray' = {}
    PROVE  FxInv'
<1>1. PICK n \in 1 .. MaxSegments : Segments = 0 .. n - 1 /\ seg \in [0 .. n - 1 -> Segment]
  BY SegIs
<1>2. seg' \in [0 .. n - 1 -> Segment] /\ Segments' = Segments
  BY <1>1 DEF Segments
<1>3. seg'[k] = t /\ \A j \in Segments : j # k => seg'[j] = seg[j]
  BY <1>1
<1>4. \A j \in Segments : Sound(seg'[j], moved'[j])
  BY <1>3 DEF FxInv
<1>5. ASSUME ~overlaid', NEW i \in Segments, NEW j \in Segments, i < j
      PROVE  seg'[i].stop < seg'[j].start
  <2>1. seg[i].stop < seg[j].start
    BY <1>5 DEF FxInv, InOrder, Segments
  <2> QED
    BY <1>1, <1>3, <1>5, <2>1 DEF Between
<1> QED
  BY <1>2, <1>4, <1>5 DEF FxInv, InOrder, Segments, StaysHome

LEMMA StaysThere ==
    ASSUME FxInv, NEW k \in Segments, NEW t \in Segment, NEW v,
           seg' = [seg EXCEPT ![k] = t], Sound(t, v),
           DOMAIN moved' = Segments, moved'[k] = v,
           \A j \in Segments : j # k => moved'[j] = moved[j],
           t.start = seg[k].start, t.stop = seg[k].stop,
           overlaid' = overlaid, stray' = {}
    PROVE  FxInv'
<1>1. ~overlaid => Between(k, t.start, t.stop)
  BY DEF FxInv, InOrder, Segments, Between
<1> QED
  BY <1>1, OneChanges

(* An effect begun: its counters start anew.                                *)
LEMMA BegunIsSound ==
    ASSUME NEW s, NEW mv, Sound(s, mv), NEW mw, mw = "never" => mv = "never",
           NEW t \in Segment, t.start = s.start, t.stop = s.stop, t.aux16 = s.aux16,
           t.step = 0, t.callback \in 0 .. ModeCount - 1
    PROVE  Sound(t, mw)
<1>1. Length(t) = Length(s)
  BY DEF Length
<1>2. Length(t) \in Nat \ {0} /\ Leds > 0
  <2>1. s.start \in Nat /\ s.stop \in Nat /\ s.start <= s.stop
    BY SegmentFields DEF Sound, SegmentOK
  <2> QED
    BY <2>1, EffectConstants DEF Length
<1>3. SegmentOK(t)
  BY DEF Sound, SegmentOK, ModeCount, NoCallback
<1>4. Counts(mw, t.callback, Length(t), t.step)
  BY <1>2 DEF Counts, StepFits
<1>5. Drawn(mw, Length(t), t.aux16)
  BY <1>1 DEF Sound, Drawn
<1> QED
  BY <1>3, <1>4, <1>5 DEF Sound

LEMMA BegunIs ==
    ASSUME FxInv, NEW k \in Segments, Begun(k)
    PROVE  /\ DOMAIN moved' = Segments
           /\ moved'[k] = "never" => moved[k] = "never"
           /\ \A j \in Segments : j # k => moved'[j] = moved[j]
  BY DEF FxInv, Begun

LEMMA ModesInTable ==
    /\ \A n \in 1 .. MaxSegments : \A k \in 0 .. n - 1 : k \in DOMAIN Modes
    /\ \A k \in DOMAIN Modes : \A m \in Modes[k] :
          m \in 0 .. ModeCount - 1 /\ m \in Nat /\ m \in Int
<1>1. DOMAIN Modes = 0 .. MaxSegments - 1 /\ MaxSegments \in Nat
  BY FxConstants, EffectConstants
<1>2. \A k \in DOMAIN Modes : Modes[k] \subseteq 0 .. ModeCount - 1
  BY FxConstants
<1>3. \A m \in 0 .. ModeCount - 1 : m \in Nat /\ m \in Int
  BY DEF ModeCount
<1> QED
  BY <1>1, <1>2, <1>3

LEMMA SetModeKeeps ==
    ASSUME FxInv, NEW k \in Segments, NEW m \in Modes[k], SetMode(k, m)
    PROVE  FxInv'
<1> DEFINE s == seg[k]
           t == [s EXCEPT !.call = 0, !.step = 0, !.mode = m, !.callback = m]
<1>1. PICK n \in 1 .. MaxSegments : Segments = 0 .. n - 1 /\ seg \in [0 .. n - 1 -> Segment]
  BY SegIs
<1>2. m \in 0 .. ModeCount - 1 /\ m \in Nat /\ m \in Int
  BY <1>1, ModesInTable
<1>3. Sound(s, moved[k]) /\ s \in Segment
  BY SegIs
<1>4. seg' = [seg EXCEPT ![k] = t] /\ stray' = {} /\ overlaid' = overlaid /\ Begun(k)
  BY <1>1 DEF SetMode, Segment
<1>5. /\ t \in Segment /\ t.start = s.start /\ t.stop = s.stop
      /\ t.callback = m /\ t.aux16 = s.aux16 /\ t.step = 0
  BY <1>2, <1>3 DEF Segment
<1> HIDE DEF t
<1>6. Sound(t, moved'[k])
  BY <1>2, <1>3, <1>4, <1>5, BegunIs, BegunIsSound
<1> QED
  BY <1>4, <1>5, <1>6, BegunIs, StaysThere

(* Stepping through the modes: the wrap touches only the mode of the        *)
(* segment served last.                                                     *)
LEMMA StepModeKeeps ==
    ASSUME FxInv, NEW k \in Segments, NEW mode \in Nat, NEW beyond \in BOOLEAN,
           NEW wrapped \in Nat, StepMode(k, mode, beyond, wrapped)
    PROVE  FxInv'
<1> DEFINE s == [seg EXCEPT ![k].call = 0, ![k].step = 0, ![k].mode = mode]
           wrap == IF beyond THEN [s EXCEPT ![actual].mode = wrapped] ELSE s
           new == [seg[k] EXCEPT !.call = 0, !.step = 0, !.mode = mode]
<1>1. PICK n \in 1 .. MaxSegments : Segments = 0 .. n - 1 /\ seg \in [0 .. n - 1 -> Segment]
  BY SegIs
<1>2. PICK m \in UNION {Modes[j] : j \in DOMAIN Modes} :
         seg' = [wrap EXCEPT ![k].callback = m]
  BY DEF StepMode
<1>3. m \in 0 .. ModeCount - 1 /\ m \in Int
  BY <1>2, ModesInTable
<1>4. /\ beyond => actual \in Segments
      /\ Begun(k) /\ stray' = {} /\ overlaid' = overlaid
  BY DEF StepMode
<1>5. /\ new \in Segment /\ new.start = seg[k].start /\ new.stop = seg[k].stop
      /\ new.aux16 = seg[k].aux16 /\ new.step = 0
  BY SegIs DEF Segment
<1>6. s = [seg EXCEPT ![k] = new]
  BY <1>1 DEF Segment
<1> HIDE DEF new
<1>7. /\ s \in [Segments -> Segment] /\ s[k] = new
      /\ \A j \in Segments : j # k => s[j] = seg[j]
  BY <1>1, <1>5, <1>6
<1> HIDE DEF s
<1>8. /\ wrap \in [Segments -> Segment]
      /\ \A j \in Segments : \E a \in Nat : wrap[j] = [s[j] EXCEPT !.mode = a]
  <2>1. CASE beyond
    <3>1. wrap = [s EXCEPT ![actual] = [s[actual] EXCEPT !.mode = wrapped]]
      BY <1>4, <1>7, <2>1
    <3>2. [s[actual] EXCEPT !.mode = wrapped] \in Segment
      BY <1>4, <1>7, <2>1 DEF Segment
    <3>3. \A j \in Segments : s[j] = [s[j] EXCEPT !.mode = s[j].mode] /\ s[j].mode \in Nat
      BY <1>7 DEF Segment
    <3> QED
      BY <1>4, <1>7, <2>1, <3>1, <3>2, <3>3
  <2>2. CASE ~beyond
    <3>1. wrap = s
      BY <2>2
    <3>2. \A j \in Segments : s[j] = [s[j] EXCEPT !.mode = s[j].mode] /\ s[j].mode \in Nat
      BY <1>7 DEF Segment
    <3> QED
      BY <1>7, <3>1, <3>2
  <2> QED
    BY <2>1, <2>2
<1> HIDE DEF wrap
<1>9. ASSUME NEW j \in Segments
      PROVE  /\ wrap[j] \in Segment
             /\ wrap[j].start = s[j].start /\ wrap[j].stop = s[j].stop
             /\ wrap[j].running = s[j].running /\ wrap[j].callback = s[j].callback
             /\ wrap[j].aux16 = s[j].aux16 /\ wrap[j].step = s[j].step
  <2>1. PICK a \in Nat : wrap[j] = [s[j] EXCEPT !.mode = a]
    BY <1>8
  <2>2. s[j] \in Segment
    BY <1>7
  <2> QED
    BY <1>8, <2>1, <2>2 DEF Segment
<1> DEFINE t == [wrap[k] EXCEPT !.callback = m]
<1>10. seg' = [wrap EXCEPT ![k] = t]
  BY <1>2, <1>8
<1>11. /\ t \in Segment /\ t.start = seg[k].start /\ t.stop = seg[k].stop
       /\ t.callback = m /\ t.aux16 = seg[k].aux16 /\ t.step = 0
  BY <1>3, <1>5, <1>7, <1>9 DEF Segment
<1> HIDE DEF t
<1>12. /\ seg' \in [Segments -> Segment] /\ seg'[k] = t
       /\ \A j \in Segments : j # k => seg'[j] = wrap[j]
  BY <1>8, <1>10, <1>11
<1>13. Sound(t, moved'[k])
  BY <1>3, <1>4, <1>11, SegIs, BegunIs, BegunIsSound
<1>14. ASSUME NEW j \in Segments, j # k
       PROVE  /\ Sound(seg'[j], moved'[j])
              /\ seg'[j].start = seg[j].start /\ seg'[j].stop = seg[j].stop
  <2>1. /\ seg'[j] \in Segment /\ seg'[j].start = seg[j].start /\ seg'[j].stop = seg[j].stop
        /\ seg'[j].running = seg[j].running /\ seg'[j].callback = seg[j].callback
        /\ seg'[j].aux16 = seg[j].aux16 /\ seg'[j].step = seg[j].step
    BY <1>7, <1>9, <1>12, <1>14
  <2>2. Sound(seg[j], moved[j]) /\ moved'[j] = moved[j]
    BY <1>4, <1>14, SegIs, BegunIs
  <2> QED
    BY <2>1, <2>2 DEF Sound, SegmentOK, Length
<1>15. StaysHome'
  BY <1>4 DEF StaysHome
<1>16. \A j \in Segments : /\ Sound(seg'[j], moved'[j]) /\ seg'[j] \in Segment
                           /\ seg'[j].start = seg[j].start /\ seg'[j].stop = seg[j].stop
  BY <1>11, <1>12, <1>13, <1>14
<1> QED
  BY <1>4, <1>12, <1>15, <1>16, BegunIs, BordersStay

LEMMA StepsKeep ==
    ASSUME FxInv, NEW k \in Segments, NextMode(k) \/ PrevMode(k)
    PROVE  FxInv'
<1>1. seg[k].mode \in Nat
  BY SegIs, SegmentFields
<1>2. CASE NextMode(k)
  <2> DEFINE mode == (seg[k].mode + 1) % 256
  <2>1. mode \in Nat /\ (mode >= ModeCount) \in BOOLEAN
    BY <1>1
  <2>2. StepMode(k, mode, mode >= ModeCount, 0)
    BY <1>2 DEF NextMode
  <2> HIDE DEF mode
  <2> QED
    BY <2>1, <2>2, StepModeKeeps
<1>3. CASE PrevMode(k)
  <2> DEFINE mode == (seg[k].mode + 255) % 256
  <2>1. mode \in Nat /\ (mode = 0) \in BOOLEAN /\ ModeCount \in Nat
    BY <1>1 DEF ModeCount
  <2>2. StepMode(k, mode, mode = 0, ModeCount)
    BY <1>3 DEF PrevMode
  <2> HIDE DEF mode
  <2> QED
    BY <2>1, <2>2, StepModeKeeps
<1> QED
  BY <1>2, <1>3

(* A segment that is begun, or whose effect goes on, with other settings.   *)
LEMMA SettingsKeep ==
    ASSUME FxInv, NEW k \in Segments,
           \/ \E r \in Turns[k] : SetReverse(k, r)
           \/ \E v \in Int : SetSpeed(k, v)
           \/ Stop(k)
    PROVE  FxInv'
<1> DEFINE s == seg[k]
<1>1. PICK n \in 1 .. MaxSegments : Segments = 0 .. n - 1 /\ seg \in [0 .. n - 1 -> Segment]
  BY SegIs
<1>2. Sound(s, moved[k]) /\ s \in Segment /\ DOMAIN moved = Segments
  BY SegIs DEF FxInv
<1>3. ASSUME NEW t \in Segment, t.start = s.start, t.stop = s.stop,
             t.running => s.running, t.callback = s.callback, t.aux16 = s.aux16,
             t.step = s.step, seg' = [seg EXCEPT ![k] = t],
             stray' = {}, moved' = moved, overlaid' = overlaid
      PROVE  FxInv'
  <2>1. Sound(t, moved[k])
    BY <1>2, <1>3 DEF Sound, SegmentOK, Length
  <2> QED
    BY <1>2, <1>3, <2>1, StaysThere
<1>4. CASE \E r \in Turns[k] : SetReverse(k, r)
  <2>1. PICK r \in BOOLEAN : SetReverse(k, r)
    BY <1>1, <1>4, FxConstants
  <2> DEFINE t == [s EXCEPT !.reverse = r]
  <2>2. /\ t \in Segment /\ t.start = s.start /\ t.stop = s.stop /\ t.running = s.running
        /\ t.callback = s.callback /\ t.aux16 = s.aux16 /\ t.step = s.step
    BY <1>2 DEF Segment
  <2>3. /\ seg' = [seg EXCEPT ![k] = t]
        /\ stray' = {} /\ moved' = moved /\ overlaid' = overlaid
    BY <2>1 DEF SetReverse
  <2> HIDE DEF t
  <2> QED
    BY <1>3, <2>2, <2>3
<1>5. ASSUME NEW v \in Int, SetSpeed(k, v) PROVE FxInv'
  <2> DEFINE t == [s EXCEPT !.speed = InRange(v)]
  <2>1. InRange(v) \in Nat
    BY FxConstants DEF InRange
  <2>2. /\ t \in Segment /\ t.start = s.start /\ t.stop = s.stop /\ t.running = s.running
        /\ t.callback = s.callback /\ t.aux16 = s.aux16 /\ t.step = s.step
    BY <1>2, <2>1 DEF Segment
  <2>3. /\ seg' = [seg EXCEPT ![k] = t]
        /\ stray' = {} /\ moved' = moved /\ overlaid' = overlaid
    BY <1>5 DEF SetSpeed
  <2> HIDE DEF t
  <2> QED
    BY <1>3, <2>2, <2>3
<1>6. CASE Stop(k)
  <2> DEFINE t == [s EXCEPT !.running = FALSE]
  <2>1. /\ t \in Segment /\ t.start = s.start /\ t.stop = s.stop /\ t.running = FALSE
        /\ t.callback = s.callback /\ t.aux16 = s.aux16 /\ t.step = s.step
    BY <1>2 DEF Segment
  <2>2. /\ seg' = [seg EXCEPT ![k] = t]
        /\ stray' = {} /\ moved' = moved /\ overlaid' = overlaid
    BY <1>6 DEF Stop, Stopped
  <2> HIDE DEF t
  <2> QED
    BY <1>3, <2>1, <2>2
<1> QED
  BY <1>4, <1>5, <1>6

(* A step up or down sets the speed.                                        *)
LEMMA SpeedsKeep ==
    ASSUME FxInv, NEW k \in Segments, NEW d \in Int,
           IncreaseSpeed(k, d) \/ DecreaseSpeed(k, d)
    PROVE  FxInv'
<1>1. SpeedServed(k) \subseteq Int
  <2>1. \A j \in Segments : seg[j].speed \in Int
    BY SegIs, SegmentFields
  <2>2. Speeds[k] \subseteq Int
    <3>1. PICK n \in 1 .. MaxSegments : Segments = 0 .. n - 1
      BY SegIs
    <3> QED
      BY <3>1, FxConstants
  <2> QED
    BY <2>1, <2>2 DEF SpeedServed
<1>2. PICK v \in Int : \/ SetSpeed(k, (v + d) % (SpeedMax + 1))
                       \/ SetSpeed(k, (v + SpeedMax + 1 - d) % (SpeedMax + 1))
  BY <1>1 DEF IncreaseSpeed, DecreaseSpeed
<1>3. /\ v + d \in Int /\ v + SpeedMax + 1 - d \in Int
      /\ SpeedMax + 1 \in Nat \ {0}
  BY FxConstants
<1>4. /\ (v + d) % (SpeedMax + 1) \in Int
      /\ (v + SpeedMax + 1 - d) % (SpeedMax + 1) \in Int
  BY <1>3, Remainders
<1> QED
  BY <1>2, <1>4, SettingsKeep

LEMMA StartKeeps ==
    ASSUME FxInv, NEW k \in Segments, Start(k)
    PROVE  FxInv'
<1> DEFINE s == seg[k]
           t == [s EXCEPT !.call = 0, !.step = 0, !.delay = 0, !.running = TRUE]
<1>1. PICK n \in 1 .. MaxSegments : Segments = 0 .. n - 1 /\ seg \in [0 .. n - 1 -> Segment]
  BY SegIs
<1>2. Sound(s, moved[k]) /\ s \in Segment /\ s.callback \in 0 .. ModeCount - 1
  BY SegIs DEF SegmentOK, Start, NoCallback, ModeCount
<1>3. seg' = [seg EXCEPT ![k] = t] /\ stray' = {} /\ overlaid' = overlaid /\ Begun(k)
  BY <1>1, <1>2 DEF Start, Segment
<1>4. /\ t \in Segment /\ t.start = s.start /\ t.stop = s.stop
      /\ t.callback = s.callback /\ t.aux16 = s.aux16 /\ t.step = 0
  BY <1>2 DEF Segment
<1> HIDE DEF t
<1>5. Sound(t, moved'[k])
  BY <1>2, <1>3, <1>4, BegunIs, BegunIsSound
<1> QED
  BY <1>3, <1>4, <1>5, BegunIs, StaysThere

(* Painting a segment stops it, and stays inside one that was served last.  *)
LEMMA ForceKeeps ==
    ASSUME FxInv, NEW k \in Segments, ForceAllColor(k)
    PROVE  FxInv'
<1> DEFINE s == seg[k]
           t == [s EXCEPT !.running = FALSE]
<1>1. Sound(s, moved[k]) /\ s \in Segment /\ DOMAIN moved = Segments
  BY SegIs DEF FxInv
<1>2. PICK n \in LengthServed :
         stray' = Written(k, {s.start + i : i \in 0 .. n - 1} \cap Strip)
  BY DEF ForceAllColor
<1>3. /\ seg' = [seg EXCEPT ![k] = t]
      /\ moved' = moved /\ overlaid' = overlaid /\ actual' = actual
  BY DEF ForceAllColor, Stopped
<1>4. /\ t \in Segment /\ t.start = s.start /\ t.stop = s.stop /\ t.running = FALSE
      /\ t.callback = s.callback /\ t.aux16 = s.aux16 /\ t.step = s.step
  BY <1>1 DEF Segment
<1> HIDE DEF t
<1>5. Sound(t, moved[k])
  BY <1>1, <1>4 DEF Sound, SegmentOK, Length
<1>6. seg'[k] = t /\ DOMAIN seg' = Segments /\ \A j \in Segments : j # k => seg'[j] = seg[j]
  BY <1>3 DEF Segments
<1>7. StaysHome'
  <2>1. ASSUME k = actual PROVE stray' = {}
    <3>1. n = Length(s)
      BY <1>2, <2>1 DEF LengthServed
    <3>2. {s.start + i : i \in 0 .. n - 1} \subseteq All(s)
      <4>1. s.start \in Nat /\ s.stop \in Nat
        BY <1>1, SegmentFields
      <4> QED
        BY <3>1, <4>1 DEF All, Length
    <3> QED
      BY <1>2, <3>2 DEF Written
  <2>2. \A w \in stray' : w[1] = k
    BY <1>2 DEF Written
  <2> QED
    BY <1>3, <1>4, <1>6, <2>1, <2>2 DEF StaysHome
<1>8. \A j \in Segments : /\ Sound(seg'[j], moved'[j]) /\ seg'[j] \in Segment
                          /\ seg'[j].start = seg[j].start /\ seg'[j].stop = seg[j].stop
  BY <1>3, <1>4, <1>5, <1>6, SegIs
<1>9. seg' = [j \in DOMAIN seg' |-> seg'[j]]
  BY <1>3
<1> QED
  BY <1>1, <1>3, <1>6, <1>7, <1>8, <1>9, BordersStay

(* The borders move: the counters no longer fit.                            *)
LEMMA ResizeKeeps ==
    ASSUME FxInv, NEW k \in Segments, NEW a \in Nat, NEW b \in Nat,
           a <= b, b <= Leds, Resize(k, a, b),
           ~overlaid' => ~overlaid /\ Between(k, a, b)
    PROVE  FxInv'
<1> DEFINE s == seg[k]
           t == [s EXCEPT !.start = a, !.stop = b]
<1>1. PICK n \in 1 .. MaxSegments : Segments = 0 .. n - 1 /\ seg \in [0 .. n - 1 -> Segment]
  BY SegIs
<1>2. Sound(s, moved[k]) /\ s \in Segment
  BY SegIs
<1>3. seg' = [seg EXCEPT ![k] = t] /\ stray' = {}
  BY <1>1, <1>2 DEF Resize, Segment
<1>4. /\ t \in Segment /\ t.start = a /\ t.stop = b /\ t.running = s.running
      /\ t.callback = s.callback /\ t.step = s.step
  BY <1>2 DEF Segment
<1> HIDE DEF t
<1>5. Sound(t, "since")
  BY <1>2, <1>4 DEF Sound, SegmentOK, Counts, Drawn
<1>6. /\ DOMAIN moved' = Segments /\ moved'[k] = "since"
      /\ \A j \in Segments : j # k => moved'[j] = moved[j]
  BY DEF FxInv, Resize
<1> QED
  BY <1>3, <1>4, <1>5, <1>6, OneChanges

LEMMA BordersKeep ==
    ASSUME FxInv, NEW k \in Segments,
           \/ SegmentIncreaseStart(k) \/ SegmentDecreaseStart(k)
           \/ SegmentIncreaseEnd(k) \/ SegmentDecreaseEnd(k)
           \/ \E a, b \in Strip : SetSegmentSize(k, a, b)
    PROVE  FxInv'
<1>1. PICK n \in 1 .. MaxSegments : Segments = 0 .. n - 1 /\ seg \in [0 .. n - 1 -> Segment]
  BY SegIs
<1>2. \A j \in Segments : /\ seg[j].start \in Nat /\ seg[j].stop \in Nat
                          /\ seg[j].start <= seg[j].stop /\ seg[j].stop <= Leds
  BY SegIs, SegmentFields DEF SegmentOK
<1>3. ~overlaid => \A i, j \in Segments : i < j => seg[i].stop < seg[j].start
  BY DEF FxInv, InOrder, Segments
<1>4. Leds \in Nat
  BY EffectConstants
<1>5. ASSUME NEW a \in Nat, NEW b \in Nat, Move(k, a, b), a <= b, b <= Leds,
             ~overlaid => Between(k, a, b)
      PROVE  FxInv'
  BY <1>5, ResizeKeeps DEF Move
<1>6. CASE SegmentIncreaseStart(k)
  <2>1. /\ seg[k].start + 1 <= seg[k].stop /\ Move(k, seg[k].start + 1, seg[k].stop)
        /\ seg[k].start + 1 \in Nat
    BY <1>2, <1>6 DEF SegmentIncreaseStart
  <2>2. ~overlaid => Between(k, seg[k].start + 1, seg[k].stop)
    BY <1>1, <1>2, <1>3 DEF Between
  <2> QED
    BY <1>2, <1>5, <2>1, <2>2
<1>7. CASE SegmentDecreaseStart(k)
  <2>1. /\ k > 0 => k - 1 \in Segments /\ seg[k - 1].stop < seg[k].start - 1
        /\ k = 0 => 0 < seg[k].start
        /\ Move(k, seg[k].start - 1, seg[k].stop)
    BY <1>1, <1>7 DEF SegmentDecreaseStart
  <2>2. seg[k].start - 1 \in Nat
    BY <1>1, <1>2, <2>1
  <2>3. ASSUME ~overlaid, NEW j \in Segments, j < k PROVE seg[j].stop < seg[k].start - 1
    <3>1. CASE j = k - 1
      BY <1>1, <2>1, <2>3, <3>1
    <3>2. CASE j # k - 1
      <4>1. k > 0 /\ j < k - 1 /\ k - 1 \in Segments
        BY <1>1, <2>1, <2>3, <3>2
      <4>2. seg[j].stop < seg[k - 1].start
        BY <1>3, <2>3, <4>1
      <4> QED
        BY <1>2, <2>1, <4>1, <4>2
    <3> QED
      BY <3>1, <3>2
  <2>4. ~overlaid => Between(k, seg[k].start - 1, seg[k].stop)
    BY <1>1, <1>3, <2>3 DEF Between
  <2> QED
    BY <1>2, <1>5, <2>1, <2>2, <2>4
<1>8. CASE SegmentIncreaseEnd(k)
  <2>1. /\ k + 1 \in Segments => seg[k].stop < seg[k + 1].start - 1
        /\ k + 1 \notin Segments => seg[k].stop < Leds - 1
        /\ Move(k, seg[k].start, seg[k].stop + 1)
    BY <1>8 DEF SegmentIncreaseEnd
  <2>2. ASSUME ~overlaid, NEW j \in Segments, j > k PROVE seg[k].stop + 1 < seg[j].start
    <3>1. k + 1 \in Segments
      BY <1>1, <2>2
    <3>2. CASE j = k + 1
      BY <1>2, <2>1, <3>1, <3>2
    <3>3. CASE j # k + 1
      <4>1. seg[k + 1].stop < seg[j].start
        BY <1>1, <1>3, <2>2, <3>1, <3>3
      <4> QED
        BY <1>2, <2>1, <3>1, <4>1
    <3> QED
      BY <3>2, <3>3
  <2>3. ~overlaid => Between(k, seg[k].start, seg[k].stop + 1)
    BY <1>3, <2>2 DEF Between
  <2>4. seg[k].stop + 1 <= Leds /\ seg[k].stop + 1 \in Nat /\ seg[k].start <= seg[k].stop + 1
    BY <1>2, <1>4, <2>1
  <2> QED
    BY <1>2, <1>5, <2>1, <2>3, <2>4
<1>9. CASE SegmentDecreaseEnd(k)
  <2>1. /\ seg[k].start <= seg[k].stop - 1 /\ Move(k, seg[k].start, seg[k].stop - 1)
        /\ seg[k].stop - 1 \in Nat /\ seg[k].stop - 1 <= Leds
    BY <1>2, <1>4, <1>9 DEF SegmentDecreaseEnd
  <2>2. ~overlaid => Between(k, seg[k].start, seg[k].stop - 1)
    BY <1>1, <1>2, <1>3 DEF Between
  <2> QED
    BY <1>2, <1>5, <2>1, <2>2
<1>10. CASE \E a, b \in Strip : SetSegmentSize(k, a, b)
  <2>1. PICK a \in Strip, b \in Strip : SetSegmentSize(k, a, b)
    BY <1>10
  <2>2. a \in Nat /\ b \in Nat /\ b <= Leds
    BY <1>4 DEF Strip
  <2>3. a <= b /\ Resize(k, a, b) /\ (~overlaid' => ~overlaid /\ Between(k, a, b))
    BY <2>1 DEF SetSegmentSize
  <2> QED
    BY <2>2, <2>3, ResizeKeeps
<1> QED
  BY <1>6, <1>7, <1>8, <1>9, <1>10

(* Time passes; then the main loop serves the segments that are due.        *)
LEMMA TickKeeps ==
    ASSUME FxInv, SysTickCallback
    PROVE  FxInv'
<1>1. PICK out : /\ seg' = [k \in Segments |-> IF k \in out THEN [seg[k] EXCEPT !.delay = 0]
                                                           ELSE seg[k]]
                 /\ stray' = {} /\ moved' = moved /\ overlaid' = overlaid
  BY DEF SysTickCallback
<1>2. ASSUME NEW k \in Segments
      PROVE  /\ Sound(seg'[k], moved'[k]) /\ seg'[k] \in Segment
             /\ seg'[k].start = seg[k].start /\ seg'[k].stop = seg[k].stop
  <2> DEFINE s == seg[k]
             t == [s EXCEPT !.delay = 0]
  <2>1. Sound(s, moved[k]) /\ s \in Segment
    BY SegIs
  <2>2. /\ t \in Segment /\ t.start = s.start /\ t.stop = s.stop /\ t.running = s.running
        /\ t.callback = s.callback /\ t.aux16 = s.aux16 /\ t.step = s.step
    BY <2>1 DEF Segment
  <2>3. (seg'[k] = t \/ seg'[k] = s) /\ moved'[k] = moved[k]
    BY <1>1
  <2> HIDE DEF t
  <2>4. Sound(t, moved[k])
    BY <2>1, <2>2 DEF Sound, SegmentOK, Length
  <2> QED
    BY <2>1, <2>2, <2>3, <2>4
<1>3. DOMAIN seg' = Segments /\ DOMAIN moved' = Segments /\ StaysHome'
  BY <1>1 DEF FxInv, StaysHome
<1>4. seg' = [j \in DOMAIN seg' |-> seg'[j]]
  BY <1>1
<1> QED
  BY <1>1, <1>2, <1>3, <1>4, BordersStay

\* What is written for a segment that keeps at home is in it.
LEMMA HomeIsUnwritten ==
    ASSUME FxInv, NEW k \in Segments, NEW leds, Home(seg[k], moved[k], leds)
    PROVE  Roams(k) \/ Written(k, Reached(seg[k], leds)) = {}
<1>1. Leaves(seg[k], moved[k]) => Roams(k)
  BY DEF Leaves, Roams
<1>2. ASSUME ~Leaves(seg[k], moved[k]) PROVE Written(k, Reached(seg[k], leds)) = {}
  <2> DEFINE s == seg[k]
  <2>1. \A i \in leds : i \in Strip \/ s.callback = 0 => i \in All(s)
    BY <1>2 DEF Home
  <2>2. s.callback = 0 => \A i \in All(s) : i \in Strip
    <3>1. /\ s.start \in Nat /\ s.stop \in Nat /\ s.stop <= Leds
          /\ s.callback = 0 => s.stop # Leds
      BY <1>2, SegIs, SegmentFields DEF SegmentOK, Leaves
    <3> QED
      BY <3>1, EffectConstants DEF All, Strip
  <2>3. Reached(s, leds) \subseteq All(s) \cap Strip
    BY <2>1, <2>2 DEF Reached
  <2> QED
    BY <2>3 DEF Written
<1> QED
  BY <1>1, <1>2

LEMMA CallbackKeeps ==
    ASSUME FxInv, Callback
    PROVE  FxInv'
<1>1. PICK out \in [Due -> UNION {Effect(seg[k]) : k \in Due}] :
         /\ \A k \in Due : out[k] \in Effect(seg[k])
         /\ seg' = [k \in Segments |->
                      IF k \in Due THEN [out[k].seg EXCEPT !.call = NextCall(out[k].seg)]
                                   ELSE seg[k]]
         /\ stray' = UNION {Written(k, Reached(seg[k], out[k].lit)) : k \in Due}
  BY Zenon DEF Callback
<1>2. moved' = moved /\ overlaid' = overlaid /\ Due \subseteq Segments
  BY DEF Callback, Due
<1>3. ASSUME NEW k \in Due PROVE Keeps(seg[k], moved[k], out[k])
  <2>1. Sound(seg[k], moved[k]) /\ seg[k].running
    BY SegIs DEF Due
  <2>2. AllKeep(seg[k], moved[k], Effect(seg[k]))
    BY <2>1, EffectKeeps DEF Ready
  <2> QED
    BY <1>1, <2>2 DEF AllKeep
<1>4. ASSUME NEW k \in Segments
      PROVE  /\ Sound(seg'[k], moved'[k]) /\ seg'[k] \in Segment
             /\ seg'[k].start = seg[k].start /\ seg'[k].stop = seg[k].stop
             /\ seg'[k].running = seg[k].running /\ seg'[k].callback = seg[k].callback
  <2>1. CASE k \in Due
    <3> DEFINE s == seg[k]
               mv == moved[k]
               u == out[k].seg
               call == NextCall(u)
               t == [u EXCEPT !.call = call]
    <3>1. /\ u \in Segment /\ u.start = s.start /\ u.stop = s.stop /\ u.running = s.running
          /\ u.callback = s.callback /\ Counts(mv, s.callback, Length(s), u.step)
          /\ Drawn(mv, Length(s), u.aux16)
      BY <1>3, <2>1 DEF Keeps
    <3>2. Sound(s, mv)
      BY SegIs
    <3>3. seg'[k] = t /\ moved'[k] = mv
      BY <1>1, <1>2, <2>1
    <3> HIDE DEF s, u, mv
    <3>4. call \in Nat
      BY <3>1, SegmentFields DEF NextCall
    <3> HIDE DEF call
    <3>5. /\ t \in Segment /\ t.start = u.start /\ t.stop = u.stop /\ t.running = u.running
          /\ t.callback = u.callback /\ t.aux16 = u.aux16 /\ t.step = u.step
      BY <3>1, <3>4 DEF Segment
    <3> HIDE DEF t
    <3>6. Sound(t, mv)
      <4>1. Length(t) = Length(s)
        BY <3>1, <3>5 DEF Length
      <4> QED
        BY <3>1, <3>2, <3>5, <4>1 DEF Sound, SegmentOK
    <3> QED
      BY <3>1, <3>3, <3>5, <3>6 DEF s
  <2>2. CASE k \notin Due
    BY <1>1, <1>2, <2>2, SegIs
  <2> QED
    BY <2>1, <2>2
<1>5. StaysHome'
  <2> SUFFICES ASSUME NEW w \in stray', seg'[w[1]].running PROVE Roams(w[1])'
    <3>1. ASSUME NEW w \in stray' PROVE seg'[w[1]].running
      <4>1. PICK k \in Due : w \in Written(k, Reached(seg[k], out[k].lit))
        BY <1>1, <3>1
      <4>2. w[1] = k
        BY <4>1 DEF Written
      <4>3. seg[k].running
        BY DEF Due
      <4> QED
        BY <1>2, <1>4, <4>2, <4>3
    <3> QED
      BY <3>1 DEF StaysHome
  <2>1. PICK k \in Due : w \in Written(k, Reached(seg[k], out[k].lit))
    BY <1>1
  <2>2. w[1] = k /\ k \in Segments
    BY <1>2, <2>1 DEF Written
  <2>3. Home(seg[k], moved[k], out[k].lit)
    BY <1>3 DEF Keeps
  <2>4. Roams(k)
    BY <2>1, <2>2, <2>3, HomeIsUnwritten
  <2>5. /\ seg'[k].start = seg[k].start /\ seg'[k].stop = seg[k].stop
        /\ seg'[k].callback = seg[k].callback /\ moved'[k] = moved[k]
    BY <1>2, <1>4, <2>2
  <2>6. Length(seg'[k]) = Length(seg[k])
    BY <2>5 DEF Length
  <2>7. Roams(k)'
    BY <2>4, <2>5, <2>6 DEF Roams
  <2> QED
    BY <2>2, <2>7
<1>6. DOMAIN seg' = Segments /\ DOMAIN moved' = Segments
  BY <1>1, <1>2 DEF FxInv
<1>7. seg' = [j \in DOMAIN seg' |-> seg'[j]]
  BY <1>1
<1> QED
  BY <1>2, <1>4, <1>5, <1>6, <1>7, BordersStay

LEMMA FxStep ==
    ASSUME FxInv, [FxNext]_fxVars
    PROVE  FxInv'
<1>1. PICK n \in 1 .. MaxSegments : Segments = 0 .. n - 1 /\ seg \in [0 .. n - 1 -> Segment]
  BY SegIs
<1>2. Cardinality(Segments) = n /\ MaxSegments \in Nat
  BY <1>1, FS_Interval, FxConstants, EffectConstants
<1>3. CASE SegmentIncrease
  <2>1. n + 1 \in 1 .. MaxSegments /\ Redivide(n + 1)
    BY <1>2, <1>3 DEF SegmentIncrease
  <2>2. \A i \in 0 .. (n + 1) - 1 : i \in Segments \/ i = (n + 1) - 1
    BY <1>1
  <2> QED
    BY <2>1, <2>2, RedivideKeeps
<1>4. CASE SegmentDecrease
  <2>1. n - 1 \in 1 .. MaxSegments /\ Redivide(n - 1)
    BY <1>2, <1>4 DEF SegmentDecrease
  <2>2. \A i \in 0 .. (n - 1) - 1 : i \in Segments \/ i = (n - 1) - 1
    BY <1>1
  <2> QED
    BY <2>1, <2>2, RedivideKeeps
<1>5. ASSUME NEW k \in Segments,
             \/ \E m \in Modes[k] : SetMode(k, m)
             \/ NextMode(k) \/ PrevMode(k)
             \/ \E r \in Turns[k] : SetReverse(k, r)
             \/ SegmentIncreaseStart(k) \/ SegmentDecreaseStart(k)
             \/ SegmentIncreaseEnd(k) \/ SegmentDecreaseEnd(k)
             \/ \E a, b \in Strip : SetSegmentSize(k, a, b)
             \/ Start(k) \/ Stop(k) \/ ForceAllColor(k)
             \/ \E v \in Speeds[k] : SetSpeed(k, v)
             \/ \E w \in Speeds[k], v \in SpeedServed(k) :
                   IF v < w THEN IncreaseSpeed(k, w - v) ELSE DecreaseSpeed(k, v - w)
      PROVE  FxInv'
  <2>1. Speeds[k] \subseteq Int /\ SpeedServed(k) \subseteq Int
    <3>1. Speeds[k] \subseteq Int
      BY <1>1, FxConstants
    <3>2. \A j \in Segments : seg[j].speed \in Int
      BY SegIs, SegmentFields
    <3> QED
      BY <3>1, <3>2 DEF SpeedServed
  <2>2. ASSUME NEW m \in Modes[k], SetMode(k, m) PROVE FxInv'
    BY <2>2, SetModeKeeps
  <2>3. CASE NextMode(k) \/ PrevMode(k)
    BY <2>3, StepsKeep
  <2>4. CASE \/ \E r \in Turns[k] : SetReverse(k, r)
             \/ \E v \in Speeds[k] : SetSpeed(k, v)
             \/ Stop(k)
    BY <2>1, <2>4, SettingsKeep
  <2>5. CASE \/ SegmentIncreaseStart(k) \/ SegmentDecreaseStart(k)
             \/ SegmentIncreaseEnd(k) \/ SegmentDecreaseEnd(k)
             \/ \E a, b \in Strip : SetSegmentSize(k, a, b)
    BY <2>5, BordersKeep
  <2>6. CASE Start(k)
    BY <2>6, StartKeeps
  <2>7. CASE ForceAllColor(k)
    BY <2>7, ForceKeeps
  <2>8. ASSUME NEW w \in Speeds[k], NEW v \in SpeedServed(k),
               IF v < w THEN IncreaseSpeed(k, w - v) ELSE DecreaseSpeed(k, v - w)
        PROVE  FxInv'
    <3>1. w - v \in Int /\ v - w \in Int
      BY <2>1
    <3>2. CASE IncreaseSpeed(k, w - v)
      BY <3>1, <3>2, SpeedsKeep
    <3>3. CASE DecreaseSpeed(k, v - w)
      BY <3>1, <3>3, SpeedsKeep
    <3> QED
      BY <2>8, <3>2, <3>3
  <2> QED
    BY <1>5, <2>2, <2>3, <2>4, <2>5, <2>6, <2>7, <2>8
<1>6. CASE SysTickCallback
  BY <1>6, TickKeeps
<1>7. CASE Callback
  BY <1>7, CallbackKeeps
<1>8. CASE UNCHANGED fxVars
  <2>1. UNCHANGED <<seg, actual, stray, moved, overlaid>>
    BY <1>8 DEF fxVars
  <2> QED
    BY <2>1 DEF FxInv, Segments, StaysHome, Roams, InOrder
<1> QED
  BY <1>3, <1>4, <1>5, <1>6, <1>7, <1>8 DEF FxNext

THEOREM SegmentsInductive == FxSpec => []FxInv
  BY FxInitOK, FxStep, PTL DEF FxSpec

(* Whatever the application calls, an effect that meets none of the         *)
(* conditions of Roams writes no LED outside its segment: for any strip,    *)
(* any division of it and any effects in it.                                *)
THEOREM EffectsStayHome == FxSpec => []StaysHome
<1>1. FxInv => StaysHome
  BY DEF FxInv
<1> QED
  BY <1>1, SegmentsInductive, PTL

(* Until SetSegmentSize lays one segment over another, the borders stay in  *)
(* order, however they are moved and the strip divided again.               *)
THEOREM BordersInOrder == FxSpec => []SegmentsApart
<1>1. FxInv => SegmentsApart
  BY DEF FxInv, SegmentsApart, Sound, SegmentOK, InOrder, Segments
<1> QED
  BY <1>1, SegmentsInductive, PTL

------------------------------------------------------------------------------
(* The RMT driver: a frame asked for is shown, for any number of LEDs, any  *)
(* depth of the queue and any colours.                                      *)
Frame == [LedIds -> Colours]

StripTypeOK ==
    /\ driver \in {"rmt", "dma"} /\ asked \in BOOLEAN
    /\ led \in Frame /\ timing \in Frame /\ shown \in Frame
    /\ jobs \in Nat /\ pos \in LedIds

\* Between transfers the next one starts at the first LED.
AtRest == jobs = 0 => pos = 0
\* The last transfer of a frame asked for has sent the LEDs before pos; while
\* more than one is owed, a whole one is still to come.
SentSoFar ==
    asked /\ driver = "rmt" =>
        /\ jobs = 0 => shown = led
        /\ jobs = 1 => \A i \in LedIds : i < pos => shown[i] = led[i]

FrameInv == StripTypeOK /\ AtRest /\ SentSoFar

(* The transfer counts the LEDs of the strip round.                         *)
LEMMA RoundTheStrip ==
    ASSUME NEW p \in LedIds
    PROVE  (p + 1) % StripLeds = IF p + 1 = StripLeds THEN 0 ELSE p + 1
<1>. StripLeds \in Nat \ {0} /\ p \in 0 .. StripLeds - 1
  BY StripConstants DEF LedIds
<1>1. CASE p + 1 = StripLeds
  <2>1. StripLeds % StripLeds = 0
    BY SMT
  <2>. QED
    BY <1>1, <2>1
<1>2. CASE p + 1 # StripLeds
  <2>1. p + 1 \in 0 .. StripLeds - 1
    BY <1>2
  <2>. QED
    BY <1>2, <2>1
<1>. QED
  BY <1>1, <1>2

LEMMA SetDiodesTyped ==
    ASSUME NEW f \in Frame, NEW S, NEW c \in [S -> Colours]
    PROVE  SetDiodes(f, c) \in Frame
BY DEF SetDiodes, Frame

LEMMA StartsInOrder == StripInit => FrameInv
<1>. SUFFICES ASSUME StripInit PROVE FrameInv
  OBVIOUS
<1>1. 0 \in LedIds /\ Black \in Colours /\ driver \in {"rmt", "dma"}
  BY StripConstants DEF StripInit, LedIds
<1>2. StripTypeOK
  BY <1>1 DEF StripInit, StripTypeOK, Frame
<1>. QED
  BY <1>2 DEF StripInit, FrameInv, AtRest, SentSoFar

(* Writing colours keeps what a transfer relies on: they are not asked for  *)
(* yet.                                                                     *)
LEMMA WriteKeeps ==
    ASSUME FrameInv, led' \in Frame, timing' \in Frame, asked' = FALSE,
           UNCHANGED <<driver, jobs, pos, shown>>
    PROVE  FrameInv'
BY DEF FrameInv, StripTypeOK, AtRest, SentSoFar

(* Refresh, called with the buffers as they are or just written.            *)
LEMMA RefreshKeeps ==
    ASSUME FrameInv, led' \in Frame, timing' \in Frame, Refresh
    PROVE  FrameInv'
<1>1. /\ jobs' \in Nat \ {0} /\ UNCHANGED <<driver, pos, shown>> /\ asked' = TRUE
      /\ driver = "rmt" => jobs' = jobs + 1
  BY DEF Refresh, FrameInv, StripTypeOK
<1>2. StripTypeOK' /\ AtRest'
  BY <1>1 DEF FrameInv, StripTypeOK, AtRest
<1>3. SentSoFar'
  BY <1>1 DEF FrameInv, StripTypeOK, AtRest, SentSoFar, LedIds
<1>. QED
  BY <1>2, <1>3 DEF FrameInv

(* One LED is sent.                                                         *)
LEMMA TransferKeeps ==
    ASSUME FrameInv, Transfer
    PROVE  FrameInv'
<1>1. /\ jobs > 0 /\ UNCHANGED <<driver, led, timing, asked>>
      /\ jobs' = IF pos' = 0 THEN jobs - 1 ELSE jobs
      /\ shown' = [shown EXCEPT ![pos] = IF driver = "dma" THEN timing[pos] ELSE led[pos]]
  BY DEF Transfer
<1>2. pos' = IF pos + 1 = StripLeds THEN 0 ELSE pos + 1
  BY RoundTheStrip DEF Transfer, FrameInv, StripTypeOK
<1>3. led \in Frame /\ timing \in Frame /\ shown \in Frame /\ pos \in LedIds
  BY DEF FrameInv, StripTypeOK
<1>4. StripLeds \in Nat \ {0} /\ pos \in 0 .. StripLeds - 1 /\ jobs \in Nat
  BY StripConstants DEF FrameInv, StripTypeOK, LedIds
<1>5. StripTypeOK'
  <2>1. shown' \in Frame
    BY <1>1, <1>3 DEF Frame
  <2>2. jobs' \in Nat /\ pos' \in LedIds
    BY <1>1, <1>2, <1>4 DEF LedIds
  <2>. QED
    BY <1>1, <2>1, <2>2 DEF FrameInv, StripTypeOK
<1>6. AtRest'
  BY <1>1, <1>2, <1>4 DEF FrameInv, AtRest
<1>7. ASSUME asked', driver' = "rmt"
      PROVE  /\ jobs' = 0 => shown' = led'
             /\ jobs' = 1 => \A i \in LedIds : i < pos' => shown'[i] = led'[i]
  <2>1. shown' = [shown EXCEPT ![pos] = led[pos]]
    BY <1>1, <1>7
  <2>2. ASSUME jobs = 1, NEW i \in LedIds, i <= pos
        PROVE  shown'[i] = led'[i]
    <3>1. i < pos => shown[i] = led[i]
      BY <1>1, <1>7, <2>2 DEF FrameInv, SentSoFar
    <3>. QED
      BY <1>1, <1>3, <1>4, <2>1, <2>2, <3>1 DEF Frame, LedIds
  <2>3. ASSUME jobs' = 0 PROVE shown' = led'
    <3>1. jobs = 1 /\ pos + 1 = StripLeds
      BY <1>1, <1>2, <1>4, <2>3
    <3>2. \A i \in LedIds : shown'[i] = led'[i]
      BY <2>2, <3>1, <1>4 DEF LedIds
    <3>. QED
      BY <3>2, <1>5 DEF StripTypeOK, Frame
  <2>4. ASSUME jobs' = 1, NEW i \in LedIds, i < pos' PROVE shown'[i] = led'[i]
    <3>1. jobs = 1 /\ i <= pos
      BY <1>1, <1>2, <1>4, <2>4 DEF LedIds
    <3>. QED
      BY <2>2, <3>1
  <2>. QED
    BY <2>3, <2>4
<1>. QED
  BY <1>5, <1>6, <1>7 DEF FrameInv, SentSoFar

LEMMA StripStepKeeps == FrameInv /\ [StripNext]_stripVars => FrameInv'
<1>. SUFFICES ASSUME FrameInv, [StripNext]_stripVars PROVE FrameInv'
  OBVIOUS
<1>. led \in Frame /\ timing \in Frame
  BY DEF FrameInv, StripTypeOK
<1>1. ASSUME NEW i \in LedIds, NEW c \in Colours, SetOneDiode(i, c) PROVE FrameInv'
  <2>1. led' \in Frame /\ timing' \in Frame
    BY <1>1, SetDiodesTyped DEF SetOneDiode, ConvertColor
  <2>. QED
    BY <1>1, <2>1, WriteKeeps DEF SetOneDiode
<1>2. ASSUME NEW i \in LedIds, NEW c \in Colours, SetDiodeColorStruct(i, c) PROVE FrameInv'
  <2>1. led' \in Frame /\ timing' \in Frame
    BY <1>2 DEF SetDiodeColorStruct, Frame
  <2>. QED
    BY <1>2, <2>1, WriteKeeps DEF SetDiodeColorStruct
<1>3. ASSUME NEW i \in LedIds, NEW c \in Colours, SimpleTest(i, c) PROVE FrameInv'
  <2>. DEFINE one == [j \in LedIds |-> IF j = i THEN c ELSE Black]
  <2>1. one \in [LedIds -> Colours]
    BY <1>3, StripConstants
  <2>2. led' \in Frame /\ timing' \in Frame
    BY <1>3, <2>1, SetDiodesTyped DEF SimpleTest, SetAndRefresh, ConvertColor
  <2>. QED
    BY <1>3, <2>2, RefreshKeeps DEF SimpleTest, SetAndRefresh
<1>4. CASE RefreshCall
  BY <1>4, RefreshKeeps DEF RefreshCall
<1>5. CASE Transfer
  BY <1>5, TransferKeeps
<1>6. CASE UNCHANGED stripVars
  BY <1>6 DEF stripVars, FrameInv, StripTypeOK, AtRest, SentSoFar
<1>. QED
  BY <1>1, <1>2, <1>3, <1>4, <1>5, <1>6 DEF StripNext

(* Whatever was written while earlier transfers ran: with the RMT driver,   *)
(* the buffer as it was when Refresh was last called, unchanged since, is   *)
(* on the LEDs when nothing is under way.                                   *)
THEOREM AskedFrameIsShown == StripSpec => []RmtFrameShown
<1>1. FrameInv => RmtFrameShown
  BY DEF FrameInv, SentSoFar, RmtFrameShown, FrameShown
<1>. QED
  BY <1>1, StartsInOrder, StripStepKeeps, PTL DEF StripSpec
=============================================================================
