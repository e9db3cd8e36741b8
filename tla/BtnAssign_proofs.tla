-------------------------- MODULE BtnAssign_proofs ---------------------------
(***************************************************************************)
(* The safety of the button assignment: one mark, deliberate resets, one   *)
(* button per device, what NVS keeps and what a press finds, for any       *)
(* number of buttons, devices, clicks and restarts, and for the order of   *)
(* the two threads each of these needs.                                    *)
(***************************************************************************)
EXTENDS BtnAssign, Lemmas, TLAPS

LEMMA ButtonNat == Button \subseteq Nat /\ 0 \in Button
  BY BtnAssumption DEF Button

LEMMA ConstantTypes ==
  /\ ResetHold \in Button /\ ResetClick \in Button
  /\ ResetClicks \in Nat /\ ResetClicks > 0
  /\ ResetTime \in Nat /\ ResetTime > 0 /\ AssignTime \in Nat /\ AssignTime > 0
  /\ MaxRestart \in Nat
  BY BtnAssumption

LEMMA ResIdleType == ResIdle \in [isLongPress : BOOLEAN, counter : 0 .. ResetClicks - 1]
<1>1. 0 \in 0 .. ResetClicks - 1
  BY ConstantTypes
<1> QED
  BY <1>1 DEF ResIdle

LEMMA InitTypeOK == Init => TypeOK
<1> SUFFICES ASSUME Init PROVE TypeOK
  OBVIOUS
<1>1. SettingsOK
  BY DEF Init, settingsLoad, Empty, SettingsOK, ButtonState
<1>2. TasksOK
  <2>1. DrIdle \in DriverState /\ OtIdle \in ThreadState
    BY ButtonNat DEF DrIdle, OtIdle, DriverState, ThreadState
  <2> QED
    BY <2>1, ResIdleType DEF Init, Off, TasksOK
<1>3. WorldOK
  <2>1. 0 \in 0 .. MaxRestart /\ 0 \in 0 .. ResetClicks /\ 0 \in 0 .. ResetTime + 1
    BY ConstantTypes
  <2> QED
    BY <2>1 DEF Init, WorldOK
<1> QED
  BY <1>1, <1>2, <1>3 DEF TypeOK

(* A write of one field of a button, and a step of either thread. *)
LEMMA SetType ==
  ASSUME btnList \in [Button -> ButtonState], NEW b \in Button, NEW field, NEW value,
         \/ field \in {"mark", "isTaken"} /\ value \in BOOLEAN
         \/ field \in {"dev", "eui"} /\ value \in Device \cup {NoDev},
         set(b, field, value)
  PROVE  btnList' \in [Button -> ButtonState]
<1>1. [btnList[b] EXCEPT ![field] = value] \in ButtonState
  <2>1. btnList[b] \in ButtonState
    OBVIOUS
  <2>2. CASE field = "mark" /\ value \in BOOLEAN
    BY <2>1, <2>2 DEF ButtonState
  <2>3. CASE field = "isTaken" /\ value \in BOOLEAN
    BY <2>1, <2>3 DEF ButtonState
  <2>4. CASE field = "dev" /\ value \in Device \cup {NoDev}
    BY <2>1, <2>4 DEF ButtonState
  <2>5. CASE field = "eui" /\ value \in Device \cup {NoDev}
    BY <2>1, <2>5 DEF ButtonState
  <2> QED
    BY <2>2, <2>3, <2>4, <2>5
<1> QED
  BY <1>1 DEF set

LEMMA UnmarkAllType ==
  ASSUME btnList \in [Button -> ButtonState]
  PROVE  [b \in Button |-> [btnList[b] EXCEPT !.mark = FALSE]] \in [Button -> ButtonState]
<1>1. ASSUME NEW b \in Button PROVE [btnList[b] EXCEPT !.mark = FALSE] \in ButtonState
  BY DEF ButtonState
<1> QED
  BY <1>1

LEMMA DriverStateType ==
  /\ DrIdle \in DriverState
  /\ \A at \in {"idle", "unmark", "mark", "start", "use", "expired", "clear"}, b \in Button :
        [DrIdle EXCEPT !.at = at, !.b = b] \in DriverState
  /\ \A at \in {"idle", "unmark", "mark", "start", "use", "expired", "clear"} :
        /\ [DrIdle EXCEPT !.at = at] \in DriverState
        /\ dr \in DriverState => [dr EXCEPT !.at = at] \in DriverState
<1>1. DrIdle \in DriverState
  BY ButtonNat DEF DriverState, DrIdle
<1>2. \A s \in DriverState :
        \A at \in {"idle", "unmark", "mark", "start", "use", "expired", "clear"} :
          /\ [s EXCEPT !.at = at] \in DriverState
          /\ \A b \in Button : [s EXCEPT !.at = at, !.b = b] \in DriverState
  BY DEF DriverState
<1> QED
  BY <1>1, <1>2

(* Every step keeps the types: those of the driver task... *)
LEMMA DriverTypeOK ==
  ASSUME TypeOK, DriverTask
  PROVE  TypeOK'
<1> USE DEF TypeOK, driverAt, settings, network, user
<1>1. CASE ClickInReset
  <2>1. SettingsOK'
    BY <1>1 DEF ClickInReset, SettingsOK
  <2>2. TasksOK'
    <3>1. dr' \in DriverState
      BY <1>1, DriverStateType DEF ClickInReset, TasksOK
    <3>2. timer' \in {Off, timer}
      BY <1>1 DEF ClickInReset
    <3>3. resHandle' \in [isLongPress : BOOLEAN, counter : 0 .. ResetClicks - 1]
      <4>1. CASE resHandle.counter + 1 < ResetClicks
        <5>1. resHandle.counter + 1 \in 0 .. ResetClicks - 1
          BY <4>1, ConstantTypes DEF TasksOK
        <5> QED
          BY <1>1, <4>1, <5>1 DEF ClickInReset, TasksOK
      <4> QED
        BY <1>1, <4>1, ResIdleType DEF ClickInReset
    <3> QED
      BY <1>1, <3>1, <3>2, <3>3 DEF ClickInReset, TasksOK
  <2>3. WorldOK'
    BY <1>1, ConstantTypes DEF ClickInReset, WorldOK
  <2> QED
    BY <2>1, <2>2, <2>3
<1>2. ASSUME NEW b \in Button, eventOneClick(b) PROVE TypeOK'
  <2>1. dr' \in DriverState
    BY <1>2, DriverStateType DEF eventOneClick
  <2> QED
    BY <1>2, <2>1 DEF eventOneClick, SettingsOK, TasksOK, WorldOK
<1>3. ASSUME NEW b \in Button, DoubleClickOrLongPress(b) PROVE TypeOK'
  <2>1. dr' \in DriverState
    BY <1>3, DriverStateType DEF DoubleClickOrLongPress, event
  <2> QED
    BY <1>3, <2>1 DEF DoubleClickOrLongPress, SettingsOK, TasksOK, WorldOK
<1>4. CASE assignUnmark
  BY <1>4, DriverStateType, UnmarkAllType DEF assignUnmark, SettingsOK, TasksOK, WorldOK
<1>5. CASE assignMark
  <2>1. dr.b \in Button
    BY DEF TasksOK, DriverState
  <2>2. btnList' \in [Button -> ButtonState]
    BY <1>5, <2>1, SetType DEF assignMark, SettingsOK
  <2> QED
    BY <1>5, <2>2, DriverStateType DEF assignMark, SettingsOK, TasksOK, WorldOK
<1>6. CASE assignStart
  <2>1. AssignTime \in 0 .. AssignTime
    BY ConstantTypes
  <2>2. TasksOK'
    BY <1>6, <2>1, DriverStateType DEF assignStart, TasksOK
  <2> QED
    BY <1>6, <2>2 DEF assignStart, SettingsOK, WorldOK
<1>7. CASE UseDevice
  BY <1>7, DriverStateType DEF UseDevice, SettingsOK, TasksOK, WorldOK
<1>8. CASE longPressStart
  <2>1. SettingsOK'
    BY <1>8 DEF longPressStart, SettingsOK
  <2>2. dr' \in DriverState
    BY <1>8, DriverStateType, ConstantTypes DEF longPressStart, event
  <2>3. TasksOK'
    <3>1. ResetTime \in 0 .. ResetTime
      BY ConstantTypes
    <3>2. resHandle' \in [isLongPress : BOOLEAN, counter : 0 .. ResetClicks - 1]
      BY <1>8 DEF longPressStart, TasksOK
    <3> QED
      BY <1>8, <2>2, <3>1, <3>2 DEF longPressStart, TasksOK
  <2>4. WorldOK'
    <3>1. 0 \in 0 .. ResetClicks /\ 0 \in 0 .. ResetTime + 1
      BY ConstantTypes
    <3> QED
      BY <1>8, <3>1 DEF longPressStart, WorldOK
  <2> QED
    BY <2>1, <2>3, <2>4
<1>9. CASE longPressStop
  BY <1>9, ResIdleType DEF longPressStop, resetStop, SettingsOK, TasksOK, WorldOK
<1>10. CASE eventTask
  BY <1>10, DriverStateType DEF eventTask, SettingsOK, TasksOK, WorldOK
<1>11. CASE assignSetFalseAll
  <2>1. SettingsOK'
    BY <1>11, UnmarkAllType DEF assignSetFalseAll, SettingsOK
  <2>2. TasksOK'
    BY <1>11, DriverStateType, ResIdleType DEF assignSetFalseAll, TasksOK
  <2> QED
    BY <1>11, <2>1, <2>2 DEF assignSetFalseAll, WorldOK
<1>12. CASE setDefaultSettings
  <2>1. dr.b \in Button /\ dr.f \in 1 .. 5
    BY DEF TasksOK, DriverState
  <2>2. dr' \in DriverState
    <3>1. CASE dr.f < 5
      <4>1. dr.f + 1 \in 1 .. 5
        BY <2>1, <3>1
      <4> QED
        BY <1>12, <3>1, <4>1 DEF setDefaultSettings, TasksOK, DriverState
    <3>2. CASE ~(dr.f < 5)
      <4>1. CASE dr.b + 1 \in Button
        <5>1. dr' = [dr EXCEPT !.b = dr.b + 1, !.f = 1]
          BY <1>12, <3>2, <4>1 DEF setDefaultSettings
        <5>2. \A s \in DriverState, b \in Button : [s EXCEPT !.b = b] \in DriverState
          BY DEF DriverState
        <5>3. \A s \in DriverState : [s EXCEPT !.f = 1] \in DriverState
          BY DEF DriverState
        <5> QED
          BY <4>1, <5>1, <5>2, <5>3 DEF TasksOK
      <4> QED
        BY <1>12, <3>2, <4>1, DriverStateType DEF setDefaultSettings
    <3> QED
      BY <3>1, <3>2
  <2>3. SettingsOK'
    <3>1. CASE Settings[dr.f] = "nvs"
      BY <1>12, <2>1, <3>1 DEF setDefaultSettings, SettingsOK
    <3>2. CASE Settings[dr.f] # "nvs"
      <4>1. \/ Settings[dr.f] \in {"mark", "isTaken"} /\ Empty[Settings[dr.f]] \in BOOLEAN
            \/ /\ Settings[dr.f] \in {"dev", "eui"}
               /\ Empty[Settings[dr.f]] \in Device \cup {NoDev}
        <5>1. \/ Settings[dr.f] = "mark" \/ Settings[dr.f] = "dev"
              \/ Settings[dr.f] = "eui" \/ Settings[dr.f] = "isTaken"
          BY <2>1, <3>2 DEF Settings
        <5>2. /\ Empty["mark"] = FALSE /\ Empty["isTaken"] = FALSE
              /\ Empty["dev"] = NoDev /\ Empty["eui"] = NoDev
          BY DEF Empty
        <5> QED
          BY <5>1, <5>2
      <4> QED
        BY <1>12, <2>1, <3>2, <4>1, SetType DEF setDefaultSettings, SettingsOK
    <3> QED
      BY <3>1, <3>2
  <2> QED
    BY <1>12, <2>2, <2>3 DEF setDefaultSettings, TasksOK, WorldOK
<1> QED
  BY <1>1, <1>2, <1>3, <1>4, <1>5, <1>6, <1>7, <1>8, <1>9, <1>10, <1>11, <1>12
  DEF DriverTask

(* ...of OpenThread... *)
LEMMA ThreadStateType ==
  ASSUME ot \in ThreadState, NEW at \in {"idle", "find", "known", "again", "marked", "dev",
                                       "eui", "nvs", "taken", "unmark", "stop"}
  PROVE  /\ OtIdle \in ThreadState
         /\ [ot EXCEPT !.at = at] \in ThreadState
         /\ \A d \in Device : [OtIdle EXCEPT !.at = at, !.dev = d] \in ThreadState
         /\ \A b \in Button : [ot EXCEPT !.at = at, !.b = b] \in ThreadState
  BY ButtonNat DEF ThreadState, OtIdle

LEMMA OpenThreadTypeOK ==
  ASSUME TypeOK, OpenThread
  PROVE  TypeOK'
<1> USE DEF TypeOK, threadAt, otherState, settings, network, user
<1>0. ot \in ThreadState /\ ot.b \in Button /\ ot.dev \in Device \cup {NoDev}
  BY DEF TasksOK, ThreadState
<1>1. ASSUME NEW d \in Device, Renewed(d) \/ pairedCallback(d) PROVE TypeOK'
  <2>1. ot' \in ThreadState
    BY <1>0, <1>1, ThreadStateType DEF Renewed, pairedCallback
  <2> QED
    BY <1>1, <2>1 DEF Renewed, pairedCallback, SettingsOK, TasksOK, WorldOK
<1>2. CASE assignDevice
  <2>1. EuiIsExist # {} => Min(EuiIsExist) \in Button
    BY ButtonNat, MinIsIn DEF EuiIsExist
  <2>2. ot' \in ThreadState
    BY <1>0, <1>2, <2>1, ThreadStateType DEF assignDevice
  <2> QED
    BY <1>2, <2>2 DEF assignDevice, SettingsOK, TasksOK, WorldOK
<1>3. CASE assignKnown
  <2>1. ot' \in ThreadState
    BY <1>0, <1>3, ThreadStateType DEF assignKnown, goto, return
  <2>2. btnList' \in [Button -> ButtonState]
    BY <1>0, <1>3, SetType DEF assignKnown, SettingsOK
  <2> QED
    BY <1>3, <2>1, <2>2 DEF assignKnown, goto, return, SettingsOK, TasksOK, WorldOK
<1>4. CASE assignGetTrueMarked
  <2>1. Marked # {} => Min(Marked) \in Button
    BY ButtonNat, MinIsIn DEF Marked
  <2>2. ot' \in ThreadState
    BY <1>0, <1>4, <2>1, ThreadStateType DEF assignGetTrueMarked, return
  <2> QED
    BY <1>4, <2>2 DEF assignGetTrueMarked, return, SettingsOK, TasksOK, WorldOK
<1>5. CASE assignNewDeviceToBtnList
  <2>1. ot' \in ThreadState
    BY <1>0, <1>5, ThreadStateType DEF assignNewDeviceToBtnList, goto
  <2>2. btnList' \in [Button -> ButtonState]
    BY <1>0, <1>5, SetType DEF assignNewDeviceToBtnList, SettingsOK
  <2>3. btnList[ot.b].eui \in Device \cup {NoDev}
    BY <1>0 DEF SettingsOK, ButtonState
  <2> QED
    BY <1>5, <2>1, <2>2, <2>3
    DEF assignNewDeviceToBtnList, goto, SettingsOK, TasksOK, WorldOK
<1>6. CASE assignStop
  BY <1>0, <1>6, ThreadStateType DEF assignStop, return, SettingsOK, TasksOK, WorldOK
<1> QED
  BY <1>1, <1>2, <1>3, <1>4, <1>5, <1>6 DEF OpenThread

(* ...and those of the world around them. *)
LEMMA StepTypeOK == TypeOK /\ [Next]_vars => TypeOK'
<1> SUFFICES ASSUME TypeOK, [Next]_vars PROVE TypeOK'
  OBVIOUS
<1> USE DEF TypeOK, SettingsOK, TasksOK, WorldOK
<1>1. CASE DriverTask
  BY <1>1, DriverTypeOK
<1>2. CASE OpenThread
  BY <1>2, OpenThreadTypeOK
<1>3. ASSUME NEW d \in Device, TurnOn(d) PROVE TypeOK'
  BY <1>3 DEF TurnOn, settings, user
<1>4. CASE Tick
  <2>1. elapsed' \in 0 .. ResetTime + 1
    BY <1>4, ConstantTypes DEF Tick
  <2> QED
    BY <1>4, <2>1, ConstantTypes DEF Tick, settings, network, Off
<1>5. CASE Restart
  <2>1. SettingsOK'
    BY <1>5 DEF Restart, settingsLoad, Empty, ButtonState
  <2>2. TasksOK'
    BY <1>5, DriverStateType, ThreadStateType, ResIdleType DEF Restart
  <2>3. restarted + 1 \in 0 .. MaxRestart
    BY <1>5, ConstantTypes DEF Restart
  <2>4. 0 \in 0 .. ResetClicks /\ 0 \in 0 .. ResetTime + 1
    BY ConstantTypes
  <2> QED
    BY <1>5, <2>1, <2>2, <2>3, <2>4 DEF Restart
<1>6. CASE UNCHANGED vars
  BY <1>6 DEF vars, settings, network, user
<1> QED
  BY <1>1, <1>2, <1>3, <1>4, <1>5, <1>6 DEF Next

(* All variables keep their types. *)
THEOREM TypeCorrect == Spec => []TypeOK
  BY InitTypeOK, StepTypeOK, PTL DEF Spec

(* One mark: a click takes all marks away before it sets its own, and      *)
(* nothing else sets one.                                                   *)
OneMarkInv == OneMark /\ (dr.at = "mark" => Marked = {})

LEMMA SameMarks ==
  ASSUME btnList \in [Button -> ButtonState], NEW b \in Button, NEW value,
         NEW field \in {"dev", "eui", "isTaken"}, set(b, field, value)
  PROVE  Marked' = Marked
<1>1. \A c \in Button : c # b => btnList'[c] = btnList[c]
  BY DEF set
<1>2. btnList'[b] = [btnList[b] EXCEPT ![field] = value]
  BY DEF set
<1>3. btnList'[b].mark = btnList[b].mark
  <2>1. btnList[b] \in ButtonState
    OBVIOUS
  <2> QED
    BY <1>2, <2>1 DEF ButtonState
<1> QED
  BY <1>1, <1>3 DEF Marked

LEMMA OneLess ==
  ASSUME btnList \in [Button -> ButtonState], NEW b \in Button, set(b, "mark", FALSE)
  PROVE  Marked' \subseteq Marked
<1>1. \A c \in Button : c # b => btnList'[c] = btnList[c]
  BY DEF set
<1>2. ~btnList'[b].mark
  <2>1. btnList[b] \in ButtonState
    OBVIOUS
  <2> QED
    BY <2>1 DEF ButtonState, set
<1> QED
  BY <1>1, <1>2 DEF Marked

LEMMA OneMarkStep ==
  ASSUME TypeOK, OneMarkInv, [Next]_vars
  PROVE  OneMarkInv'
<1>0. /\ btnList \in [Button -> ButtonState]
      /\ dr \in DriverState
      /\ dr.b \in Button /\ ot.b \in Button
      /\ dr.f \in 1 .. 5
  BY DEF TypeOK, SettingsOK, TasksOK, DriverState, ThreadState
<1>a. ASSUME Marked' \subseteq Marked, dr' = dr \/ dr'.at # "mark"
      PROVE  OneMarkInv'
  BY <1>a DEF OneMarkInv, OneMark
<1>b. /\ DrIdle.at # "mark"
      /\ \A at \in {"unmark", "use", "clear", "expired"} :
           /\ [DrIdle EXCEPT !.at = at].at # "mark"
           /\ \A b \in Button : [DrIdle EXCEPT !.at = at, !.b = b].at # "mark"
  BY DEF DrIdle
<1>c. btnList' = btnList => Marked' = Marked
  BY DEF Marked
<1>1. CASE UNCHANGED <<btnList, dr>>
  BY <1>1, <1>a DEF Marked
<1>2. CASE btnList' = btnList /\ dr'.at # "mark"
  BY <1>2, <1>a DEF Marked
<1>3. CASE DriverTask
  <2> USE DEF settings
  <2>1. CASE ClickInReset
    BY <2>1, <1>b, <1>1, <1>2 DEF ClickInReset
  <2>2. ASSUME NEW b \in Button, eventOneClick(b) PROVE OneMarkInv'
    BY <2>2, <1>b, <1>2 DEF eventOneClick
  <2>3. ASSUME NEW b \in Button, DoubleClickOrLongPress(b) PROVE OneMarkInv'
    BY <2>3, <1>b, <1>2 DEF DoubleClickOrLongPress, event
  <2>4. CASE assignUnmark
    <3>1. Marked' = {}
      <4>1. ASSUME NEW b \in Button PROVE btnList'[b].mark = FALSE
        <5>1. btnList[b] \in ButtonState
          BY <1>0
        <5> QED
          BY <2>4, <5>1 DEF assignUnmark, ButtonState
      <4> QED
        BY <4>1 DEF Marked
    <3> QED
      BY <3>1 DEF OneMarkInv, OneMark
  <2>5. CASE assignMark
    <3>1. Marked = {}
      BY <2>5 DEF assignMark, driverAt, OneMarkInv
    <3>2. Marked' \subseteq {dr.b}
      BY <1>0, <2>5, <3>1 DEF assignMark, set, Marked
    <3>3. dr'.at # "mark"
      BY <1>0, <2>5 DEF assignMark, DriverState
    <3> QED
      BY <3>2, <3>3 DEF OneMarkInv, OneMark
  <2>6. CASE assignStart
    BY <2>6, <1>b, <1>2 DEF assignStart
  <2>7. CASE UseDevice
    BY <2>7, <1>b, <1>2 DEF UseDevice
  <2>8. CASE longPressStart
    <3>1. dr' \in {DrIdle, [DrIdle EXCEPT !.at = "use", !.b = ResetHold]}
      BY <2>8 DEF longPressStart, event
    <3> QED
      BY <2>8, <3>1, <1>b, <1>2, ConstantTypes DEF longPressStart
  <2>9. CASE longPressStop
    BY <2>9, <1>1 DEF longPressStop
  <2>10. CASE eventTask
    BY <2>10, <1>b, <1>2 DEF eventTask
  <2>11. CASE assignSetFalseAll
    <3>1. ASSUME NEW b \in Button PROVE btnList'[b].mark = FALSE
      <4>1. btnList[b] \in ButtonState
        BY <1>0
      <4> QED
        BY <2>11, <4>1 DEF assignSetFalseAll, ButtonState
    <3> QED
      BY <3>1 DEF OneMarkInv, OneMark, Marked
  <2>12. CASE setDefaultSettings
    <3>1. Marked' \subseteq Marked
      <4>1. CASE Settings[dr.f] = "nvs"
        BY <1>c, <2>12, <4>1 DEF setDefaultSettings
      <4>2. CASE Settings[dr.f] # "nvs"
        <5>1. CASE Settings[dr.f] = "mark"
          <6>1. Empty["mark"] = FALSE
            BY DEF Empty
          <6> QED
            BY <1>0, <2>12, <5>1, <6>1, OneLess DEF setDefaultSettings
        <5>2. CASE Settings[dr.f] # "mark"
          <6>1. Settings[dr.f] \in {"dev", "eui", "isTaken"}
            BY <1>0, <4>2, <5>2 DEF Settings
          <6> QED
            BY <1>0, <2>12, <4>2, <6>1, SameMarks DEF setDefaultSettings
        <5> QED
          BY <5>1, <5>2
      <4> QED
        BY <4>1, <4>2
    <3>2. dr'.at # "mark"
      BY <1>0, <1>b, <2>12 DEF setDefaultSettings, driverAt, DriverState
    <3> QED
      BY <1>a, <3>1, <3>2
  <2> QED
    BY <1>3, <2>1, <2>2, <2>3, <2>4, <2>5, <2>6, <2>7, <2>8, <2>9, <2>10, <2>11, <2>12
    DEF DriverTask
<1>4. CASE OpenThread
  <2> USE DEF settings, otherState
  <2>1. ASSUME NEW d \in Device, Renewed(d) \/ pairedCallback(d) PROVE OneMarkInv'
    BY <2>1, <1>1 DEF Renewed, pairedCallback
  <2>2. CASE assignDevice
    BY <2>2, <1>1 DEF assignDevice
  <2>3. CASE assignKnown
    <3>1. Marked' \subseteq Marked
      BY <1>0, <1>c, <2>3, SameMarks DEF assignKnown
    <3> QED
      BY <1>a, <2>3, <3>1 DEF assignKnown
  <2>4. CASE assignGetTrueMarked
    BY <2>4, <1>1 DEF assignGetTrueMarked
  <2>5. CASE assignNewDeviceToBtnList
    <3>1. Marked' \subseteq Marked
      BY <1>0, <1>c, <2>5, SameMarks, OneLess DEF assignNewDeviceToBtnList
    <3> QED
      BY <1>a, <2>5, <3>1 DEF assignNewDeviceToBtnList
  <2>6. CASE assignStop
    BY <2>6, <1>1 DEF assignStop
  <2> QED
    BY <1>4, <2>1, <2>2, <2>3, <2>4, <2>5, <2>6 DEF OpenThread
<1>5. ASSUME NEW d \in Device, TurnOn(d) PROVE OneMarkInv'
  BY <1>1, <1>5 DEF TurnOn, settings
<1>6. CASE Tick
  BY <1>1, <1>6 DEF Tick, settings
<1>7. CASE Restart
  <2>1. Marked' = {}
    BY <1>7 DEF Restart, Marked, settingsLoad, Empty
  <2> QED
    BY <1>7, <2>1 DEF Restart, DrIdle, OneMarkInv, OneMark
<1>8. CASE UNCHANGED vars
  BY <1>1, <1>8 DEF vars, settings
<1> QED
  BY <1>3, <1>4, <1>5, <1>6, <1>7, <1>8 DEF Next

(* At most one button is marked, so the next device has one place to go. *)
THEOREM AtMostOneMark == Spec => []OneMark
<1>1. Init => OneMarkInv
  BY DEF Init, OneMarkInv, OneMark, Marked, settingsLoad, Empty, DrIdle
<1>2. TypeOK /\ OneMarkInv /\ [Next]_vars => OneMarkInv'
  BY OneMarkStep
<1>3. OneMarkInv => OneMark
  BY DEF OneMarkInv
<1> QED
  BY <1>1, <1>2, <1>3, TypeCorrect, PTL DEF Spec

(* A reset sequence runs only while ResetHold is held, counts from zero     *)
(* and counts nothing but clicks.                                           *)
ResetInv ==
  /\ resHandle.isLongPress => held
  /\ ~resHandle.isLongPress => resHandle.counter = 0
  /\ resHandle.counter <= clicks

LEMMA ResetStep ==
  ASSUME TypeOK, ResetInv, [Next]_vars
  PROVE  ResetInv' /\ (Resets => held /\ clicks + 1 >= ResetClicks)
<1>0. /\ resHandle \in [isLongPress : BOOLEAN, counter : 0 .. ResetClicks - 1]
      /\ dr \in DriverState /\ clicks \in 0 .. ResetClicks
      /\ ResetClicks \in Nat
  BY ConstantTypes DEF TypeOK, TasksOK, WorldOK
<1>a. ResIdle.isLongPress = FALSE /\ ResIdle.counter = 0
  BY DEF ResIdle
<1>b. /\ DrIdle.at # "clear"
      /\ \A at \in {"unmark", "use", "expired"} :
           /\ [DrIdle EXCEPT !.at = at].at # "clear"
           /\ \A b \in Button : [DrIdle EXCEPT !.at = at, !.b = b].at # "clear"
  BY DEF DrIdle
<1>1. CASE UNCHANGED <<resHandle, held, clicks>> /\ (dr' = dr \/ dr'.at # "clear")
  BY <1>1 DEF ResetInv, Resets
<1>2. CASE ClickInReset
  <2>1. CASE resHandle.counter + 1 < ResetClicks
    <3>1. /\ resHandle'.isLongPress = resHandle.isLongPress
          /\ resHandle'.counter = resHandle.counter + 1
          /\ dr' = dr /\ held' = held
      BY <1>0, <1>2, <2>1 DEF ClickInReset
    <3>2. resHandle.counter + 1 <= clicks'
      BY <1>0, <1>2, <2>1 DEF ClickInReset, ResetInv
    <3> QED
      BY <1>2, <3>1, <3>2 DEF ClickInReset, ResetInv, Resets
  <2>2. CASE ~(resHandle.counter + 1 < ResetClicks)
    <3>1. held /\ clicks + 1 >= ResetClicks
      BY <1>0, <1>2, <2>2 DEF ClickInReset, ResetInv
    <3> QED
      BY <1>2, <1>a, <2>2, <3>1 DEF ClickInReset, ResetInv
  <2> QED
    BY <2>1, <2>2
<1>3. CASE longPressStart
  <2>1. /\ resHandle'.isLongPress /\ resHandle'.counter = resHandle.counter
    BY <1>0, <1>3 DEF longPressStart
  <2>2. resHandle.counter <= clicks'
    BY <1>0, <1>3 DEF longPressStart, ResetInv
  <2>3. dr'.at # "clear"
    BY <1>b, <1>3, ConstantTypes DEF longPressStart, event
  <2> QED
    BY <1>3, <2>1, <2>2, <2>3 DEF longPressStart, ResetInv, Resets
<1>4. CASE longPressStop
  BY <1>0, <1>a, <1>4 DEF longPressStop, user, resetStop, ResetInv, Resets
<1>5. CASE assignSetFalseAll
  BY <1>0, <1>a, <1>b, <1>5 DEF assignSetFalseAll, user, ResetInv, Resets
<1>6. CASE DriverTask /\ ~(ClickInReset \/ longPressStart \/ longPressStop
                             \/ assignSetFalseAll)
  <2> USE DEF user
  <2>1. ASSUME NEW b \in Button, eventOneClick(b)
        PROVE  UNCHANGED <<resHandle, held, clicks>> /\ dr'.at # "clear"
    BY <2>1, <1>b DEF eventOneClick
  <2>2. ASSUME NEW b \in Button, DoubleClickOrLongPress(b)
        PROVE  UNCHANGED <<resHandle, held, clicks>> /\ dr'.at # "clear"
    BY <2>2, <1>b DEF DoubleClickOrLongPress, event
  <2>3. CASE assignUnmark
    BY <1>0, <1>1, <2>3 DEF assignUnmark, DriverState
  <2>4. CASE assignMark
    BY <1>0, <1>1, <2>4 DEF assignMark, DriverState
  <2>5. CASE assignStart
    BY <1>1, <1>b, <2>5 DEF assignStart
  <2>6. CASE UseDevice
    BY <1>1, <1>b, <2>6 DEF UseDevice
  <2>7. CASE eventTask
    BY <1>1, <1>b, <2>7 DEF eventTask
  <2>8. CASE setDefaultSettings
    BY <2>8 DEF setDefaultSettings, driverAt, ResetInv, Resets
  <2> QED
    BY <1>1, <1>6, <2>1, <2>2, <2>3, <2>4, <2>5, <2>6, <2>7, <2>8 DEF DriverTask
<1>7. CASE OpenThread
  BY <1>1, <1>7
  DEF OpenThread, otherState, user, Renewed, pairedCallback, assignDevice, assignKnown,
      assignGetTrueMarked, assignNewDeviceToBtnList, assignStop
<1>8. ASSUME NEW d \in Device, TurnOn(d)
      PROVE  UNCHANGED <<resHandle, held, clicks>> /\ dr' = dr
  BY <1>8 DEF TurnOn, user
<1>9. CASE Tick
  BY <1>1, <1>9 DEF Tick
<1>10. CASE Restart
  BY <1>a, <1>10 DEF Restart, DrIdle, ResetInv, Resets
<1>11. CASE UNCHANGED vars
  BY <1>1, <1>11 DEF vars, user
<1> QED
  BY <1>1, <1>2, <1>3, <1>4, <1>5, <1>6, <1>7, <1>8, <1>9, <1>10, <1>11 DEF Next, DriverTask

(* The assignments are erased by nothing but the full number of clicks on   *)
(* one button within one hold of the other, whatever comes in between.      *)
THEOREM ResetOnPurpose == Spec => ResetIsDeliberate
<1>1. Init => ResetInv
  BY DEF Init, ResetInv, ResIdle
<1>2. TypeOK /\ ResetInv /\ [Next]_vars => ResetInv'
  BY ResetStep
<1>3. TypeOK /\ ResetInv /\ [Next]_vars => [Resets => held /\ clicks + 1 >= ResetClicks]_vars
  BY ResetStep
<1> QED
  BY <1>1, <1>2, <1>3, TypeCorrect, PTL DEF Spec, ResetIsDeliberate

-----------------------------------------------------------------------------
(* What one step writes, in the words of the invariants below. *)
Writes(b, field) ==
  \A c \in Button :
    /\ c # b \/ field # "mark" => btnList'[c].mark = btnList[c].mark
    /\ c # b \/ field # "dev" => btnList'[c].dev = btnList[c].dev
    /\ c # b \/ field # "eui" => btnList'[c].eui = btnList[c].eui
    /\ c # b \/ field # "isTaken" => btnList'[c].isTaken = btnList[c].isTaken
Stores(b, value) ==
  \A c \in Button : nvs'[c] = IF c = b THEN value ELSE nvs[c]
WritesNothing == UNCHANGED <<btnList, nvs>>
UnmarksAll ==
  \A c \in Button :
    /\ btnList'[c].mark = FALSE
    /\ btnList'[c].dev = btnList[c].dev
    /\ btnList'[c].eui = btnList[c].eui
    /\ btnList'[c].isTaken = btnList[c].isTaken

LEMMA SetWrites ==
  ASSUME btnList \in [Button -> ButtonState], NEW b \in Button, NEW value,
         NEW field \in {"mark", "dev", "eui", "isTaken"}, set(b, field, value)
  PROVE  Writes(b, field) /\ btnList'[b][field] = value
<1>1. ASSUME NEW c \in Button, c # b PROVE btnList'[c] = btnList[c]
  BY <1>1 DEF set
<1>2. btnList'[b] = [btnList[b] EXCEPT ![field] = value]
  BY DEF set
<1>3. /\ field # "mark" => btnList'[b].mark = btnList[b].mark
      /\ field # "dev" => btnList'[b].dev = btnList[b].dev
      /\ field # "eui" => btnList'[b].eui = btnList[b].eui
      /\ field # "isTaken" => btnList'[b].isTaken = btnList[b].isTaken
      /\ btnList'[b][field] = value
  <2>1. btnList[b] \in ButtonState
    OBVIOUS
  <2>2. CASE field = "mark"
    BY <1>2, <2>1, <2>2 DEF ButtonState
  <2>3. CASE field = "dev"
    BY <1>2, <2>1, <2>3 DEF ButtonState
  <2>4. CASE field = "eui"
    BY <1>2, <2>1, <2>4 DEF ButtonState
  <2>5. CASE field = "isTaken"
    BY <1>2, <2>1, <2>5 DEF ButtonState
  <2> QED
    BY <2>2, <2>3, <2>4, <2>5
<1> QED
  BY <1>1, <1>3 DEF Writes

(* One field of one button that is switched on or off, or gets a device. *)
SwitchesOn(b, field) == Writes(b, field) /\ btnList'[b][field] = TRUE
SwitchesOff(b, field) == Writes(b, field) /\ btnList'[b][field] = FALSE
Gives(b, field, d) == Writes(b, field) /\ btnList'[b][field] = d

LEMMA SetEffects ==
  ASSUME btnList \in [Button -> ButtonState], NEW b \in Button
  PROVE  /\ \A field \in {"mark", "isTaken"} :
              /\ set(b, field, TRUE) => SwitchesOn(b, field)
              /\ set(b, field, FALSE) => SwitchesOff(b, field)
         /\ \A field \in {"dev", "eui"} : \A d : set(b, field, d) => Gives(b, field, d)
  BY SetWrites, Zenon DEF SwitchesOn, SwitchesOff, Gives

LEMMA AllUnmarked ==
  ASSUME btnList \in [Button -> ButtonState],
         btnList' = [b \in Button |-> [btnList[b] EXCEPT !.mark = FALSE]]
  PROVE  UnmarksAll
<1>1. ASSUME NEW c \in Button
      PROVE  /\ btnList'[c].mark = FALSE
             /\ btnList'[c].dev = btnList[c].dev
             /\ btnList'[c].eui = btnList[c].eui
             /\ btnList'[c].isTaken = btnList[c].isTaken
  <2>1. btnList[c] \in ButtonState
    OBVIOUS
  <2>2. btnList'[c] = [btnList[c] EXCEPT !.mark = FALSE]
    OBVIOUS
  <2> QED
    BY <2>1, <2>2 DEF ButtonState
<1> QED
  BY <1>1 DEF UnmarksAll

(* The driver task looks, marks, erases, or leaves the settings alone. *)
Looks ==
  /\ WritesNothing /\ dr.at = "idle"
  /\ \/ dr'.at = "unmark" /\ dr'.b \in Button /\ btnList[dr'.b].eui = NoDev
     \/ dr'.at = "use" /\ dr'.b \in Button /\ btnList[dr'.b].isTaken
Waits ==
  /\ WritesNothing /\ dr.at \notin {"unmark", "mark", "clear"}
  /\ \/ dr' = dr
     \/ dr'.at \in {"idle", "expired"}
     \/ dr'.at = "clear" /\ dr'.f = 1
Unmarks ==
  /\ UnmarksAll /\ UNCHANGED nvs
  /\ \/ dr.at = "unmark" /\ dr'.at = "mark" /\ dr'.b = dr.b
     \/ dr.at = "expired" /\ dr'.at = "idle"
Marks ==
  /\ SwitchesOn(dr.b, "mark") /\ UNCHANGED nvs
  /\ dr.at = "mark" /\ dr'.at = "start"
Erases ==
  /\ dr.at = "clear"
  /\ \/ /\ dr.f = 1 /\ UNCHANGED btnList /\ Stores(dr.b, NoDev)
        /\ dr'.at = "clear" /\ dr'.b = dr.b /\ dr'.f = 2
     \/ /\ dr.f = 2 /\ UNCHANGED nvs /\ SwitchesOff(dr.b, "mark")
        /\ dr'.at = "clear" /\ dr'.b = dr.b /\ dr'.f = 3
     \/ /\ dr.f = 3 /\ UNCHANGED nvs /\ Gives(dr.b, "dev", NoDev)
        /\ dr'.at = "clear" /\ dr'.b = dr.b /\ dr'.f = 4
     \/ /\ dr.f = 4 /\ UNCHANGED nvs /\ Gives(dr.b, "eui", NoDev)
        /\ dr'.at = "clear" /\ dr'.b = dr.b /\ dr'.f = 5
     \/ /\ dr.f = 5 /\ UNCHANGED nvs /\ SwitchesOff(dr.b, "isTaken")
        /\ dr'.at = "idle" \/ (dr'.at = "clear" /\ dr'.f = 1)

LEMMA DriverSteps ==
  ASSUME TypeOK, DriverTask
  PROVE  /\ UNCHANGED <<above, ot, paired>>
         /\ ot.at = "idle" \/ above = "driver"
         /\ Looks \/ Waits \/ Unmarks \/ Marks \/ Erases
<1> USE DEF driverAt, settings, network, user
<1>0. /\ btnList \in [Button -> ButtonState] /\ dr \in DriverState
      /\ dr.b \in Button /\ dr.f \in 1 .. 5
  BY DEF TypeOK, SettingsOK, TasksOK, DriverState
<1>b. /\ DrIdle.at = "idle" /\ DrIdle.f = 1
      /\ [DrIdle EXCEPT !.at = "clear"].at = "clear"
      /\ [DrIdle EXCEPT !.at = "clear"].f = 1
      /\ [DrIdle EXCEPT !.at = "expired"].at = "expired"
      /\ \A at \in {"unmark", "use"}, b \in Button :
           /\ [DrIdle EXCEPT !.at = at, !.b = b].at = at
           /\ [DrIdle EXCEPT !.at = at, !.b = b].b = b
  BY DEF DrIdle
<1>c. \A at \in {"mark", "start"} :
        [dr EXCEPT !.at = at].at = at /\ [dr EXCEPT !.at = at].b = dr.b
  BY <1>0 DEF DriverState
<1>d. btnList' = [b \in Button |-> [btnList[b] EXCEPT !.mark = FALSE]] => UnmarksAll
  BY <1>0, AllUnmarked
<1>e. ASSUME NEW b \in Button, event(b), dr.at = "idle", WritesNothing
      PROVE  Looks \/ Waits
  BY <1>b, <1>e DEF event, Looks, Waits
<1>1. CASE ClickInReset
  BY <1>1, <1>b DEF ClickInReset, Waits, WritesNothing
<1>2. ASSUME NEW b \in Button, eventOneClick(b)
      PROVE  Looks /\ UNCHANGED <<above, ot, paired>> /\ (ot.at = "idle" \/ above = "driver")
  <2>1. \/ /\ btnList[b].eui = NoDev
           /\ dr' = [DrIdle EXCEPT !.at = "unmark", !.b = b]
        \/ /\ btnList[b].isTaken
           /\ dr' = [DrIdle EXCEPT !.at = "use", !.b = b]
    BY <1>2 DEF eventOneClick
  <2>2. dr.at = "idle" /\ WritesNothing
    BY <1>2 DEF eventOneClick, WritesNothing
  <2>3. \/ dr'.at = "unmark" /\ dr'.b = b /\ btnList[b].eui = NoDev
        \/ dr'.at = "use" /\ dr'.b = b /\ btnList[b].isTaken
    <3>1. ASSUME NEW at \in {"unmark", "use"}, dr' = [DrIdle EXCEPT !.at = at, !.b = b]
          PROVE  dr'.at = at /\ dr'.b = b
      BY <1>b, <3>1
    <3> QED
      BY <2>1, <3>1, Zenon
  <2>4. Looks
    BY <2>2, <2>3 DEF Looks, WritesNothing
  <2> QED
    BY <1>2, <2>4 DEF eventOneClick
<1>3. ASSUME NEW b \in Button, DoubleClickOrLongPress(b)
      PROVE  /\ Looks \/ Waits
             /\ UNCHANGED <<above, ot, paired>> /\ (ot.at = "idle" \/ above = "driver")
  BY <1>3, <1>e DEF DoubleClickOrLongPress, WritesNothing
<1>4. CASE assignUnmark
  BY <1>4, <1>c, <1>d DEF assignUnmark, Unmarks
<1>5. CASE assignMark
  BY <1>0, <1>5, <1>c, SetEffects DEF assignMark, Marks
<1>6. CASE assignStart
  BY <1>6, <1>b DEF assignStart, Waits, WritesNothing
<1>7. CASE UseDevice
  BY <1>7, <1>b DEF UseDevice, Waits, WritesNothing
<1>8. CASE longPressStart
  <2>1. Looks \/ Waits
    BY <1>8, <1>e, ConstantTypes DEF longPressStart, WritesNothing
  <2> QED
    BY <1>8, <2>1 DEF longPressStart
<1>9. CASE longPressStop
  BY <1>9 DEF longPressStop, Waits, WritesNothing
<1>10. CASE eventTask
  BY <1>10, <1>b DEF eventTask, Waits, WritesNothing
<1>11. CASE assignSetFalseAll
  BY <1>11, <1>b, <1>d DEF assignSetFalseAll, Unmarks
<1>12. CASE setDefaultSettings
  <2>1. Erases
    <3>1. ASSUME dr.f < 5
          PROVE  dr'.at = dr.at /\ dr'.b = dr.b /\ dr'.f = dr.f + 1
      BY <1>0, <1>12, <3>1 DEF setDefaultSettings, DriverState
    <3>2. Empty["mark"] = FALSE /\ Empty["isTaken"] = FALSE
          /\ Empty["dev"] = NoDev /\ Empty["eui"] = NoDev
      BY DEF Empty
    <3>8. dr.at = "clear"
      BY <1>12 DEF setDefaultSettings
    <3>3. CASE dr.f = 1
      <4>1. Settings[dr.f] = "nvs"
        BY <3>3 DEF Settings
      <4>2. nvs' = [nvs EXCEPT ![dr.b] = NoDev] /\ UNCHANGED btnList
        BY <1>12, <4>1 DEF setDefaultSettings
      <4>3. Stores(dr.b, NoDev)
        BY <4>2 DEF Stores, TypeOK, SettingsOK
      <4> QED
        BY <3>8, <3>1, <3>3, <4>2, <4>3 DEF Erases
    <3>4. CASE dr.f = 2
      <4>1. Settings[dr.f] = "mark"
        BY <3>4 DEF Settings
      <4>2. set(dr.b, "mark", FALSE) /\ UNCHANGED nvs
        BY <1>12, <3>2, <4>1 DEF setDefaultSettings
      <4>5. SwitchesOff(dr.b, "mark")
        BY <1>0, <4>2, SetEffects
      <4>6. dr'.at = "clear" /\ dr'.b = dr.b /\ dr'.f = 3
        BY <3>1, <3>4, <3>8
      <4> QED
        BY <3>4, <3>8, <4>2, <4>5, <4>6, Zenon DEF Erases
    <3>5. CASE dr.f = 3
      <4>1. Settings[dr.f] = "dev"
        BY <3>5 DEF Settings
      <4>2. set(dr.b, "dev", NoDev) /\ UNCHANGED nvs
        BY <1>12, <3>2, <4>1 DEF setDefaultSettings
      <4>5. Gives(dr.b, "dev", NoDev)
        BY <1>0, <4>2, SetEffects
      <4> QED
        BY <3>8, <3>1, <3>5, <4>2, <4>5 DEF Erases
    <3>6. CASE dr.f = 4
      <4>1. Settings[dr.f] = "eui"
        BY <3>6 DEF Settings
      <4>2. set(dr.b, "eui", NoDev) /\ UNCHANGED nvs
        BY <1>12, <3>2, <4>1 DEF setDefaultSettings
      <4>5. Gives(dr.b, "eui", NoDev)
        BY <1>0, <4>2, SetEffects
      <4> QED
        BY <3>8, <3>1, <3>6, <4>2, <4>5 DEF Erases
    <3>7. CASE dr.f = 5
      <4>1. Settings[dr.f] = "isTaken"
        BY <3>7 DEF Settings
      <4>2. set(dr.b, "isTaken", FALSE) /\ UNCHANGED nvs
        BY <1>12, <3>2, <4>1 DEF setDefaultSettings
      <4>5. SwitchesOff(dr.b, "isTaken")
        BY <1>0, <4>2, SetEffects
      <4>3. dr'.at = "idle" \/ (dr'.at = "clear" /\ dr'.f = 1)
        BY <1>0, <1>12, <3>7, <1>b DEF setDefaultSettings, DriverState
      <4> QED
        BY <3>8, <3>7, <4>2, <4>3, <4>5 DEF Erases
    <3> QED
      BY <1>0, <3>3, <3>4, <3>5, <3>6, <3>7
  <2> QED
    BY <1>12, <2>1 DEF setDefaultSettings
<1> QED
  BY <1>1, <1>2, <1>3, <1>4, <1>5, <1>6, <1>7, <1>8, <1>9, <1>10, <1>11, <1>12
  DEF DriverTask, ClickInReset, assignUnmark, assignMark, assignStart, UseDevice,
      longPressStop, eventTask, assignSetFalseAll

(* OpenThread takes the next device, looks for it, and assigns it. *)
Turns(from, to) == ot.at = from /\ ot'.at = to /\ ot'.b = ot.b /\ ot'.dev = ot.dev
Returns(from) == ot.at = from /\ ot'.at = "idle"
Comes ==
  /\ WritesNothing /\ ot.at = "idle" /\ ot'.at = "find"
  /\ ot'.dev \in Device \ paired /\ paired' = paired \cup {ot'.dev}
Finds ==
  /\ WritesNothing /\ ot.at = "find" /\ ot'.dev = ot.dev
  /\ \/ ot'.at = "marked" /\ \A b \in Button : btnList[b].eui # ot.dev
     \/ ot'.at = "known" /\ ot'.b \in Button /\ btnList[ot'.b].eui = ot.dev
Regains ==
  \/ Returns("known") /\ WritesNothing
  \/ Turns("known", "again") /\ Gives(ot.b, "dev", ot.dev) /\ UNCHANGED nvs
  \/ Returns("again") /\ SwitchesOn(ot.b, "isTaken") /\ UNCHANGED nvs
Chooses ==
  /\ WritesNothing
  /\ \/ Returns("marked")
     \/ ot.at = "marked" /\ ot'.at = "dev" /\ ot'.dev = ot.dev /\ ot'.b \in Marked
Assigns ==
  \/ Turns("dev", "eui") /\ Gives(ot.b, "dev", ot.dev) /\ UNCHANGED nvs
  \/ Turns("eui", "nvs") /\ Gives(ot.b, "eui", ot.dev) /\ UNCHANGED nvs
  \/ Turns("nvs", "taken") /\ Stores(ot.b, btnList[ot.b].eui) /\ UNCHANGED btnList
  \/ Turns("taken", "unmark") /\ SwitchesOn(ot.b, "isTaken") /\ UNCHANGED nvs
  \/ Turns("unmark", "stop") /\ SwitchesOff(ot.b, "mark") /\ UNCHANGED nvs
Stops == Returns("stop") /\ WritesNothing

LEMMA ThreadSteps ==
  ASSUME TypeOK, OpenThread
  PROVE  /\ UNCHANGED <<above, dr, held>>
         /\ timer' = timer \/ Returns("stop")
         /\ dr.at = "idle" \/ above = "OpenThread"
         /\ Comes \/ UNCHANGED paired
         /\ \/ Comes \/ Finds \/ Regains \/ Chooses \/ Assigns \/ Stops
            \/ (WritesNothing /\ ot' = ot)
<1> USE DEF threadAt, otherState, settings, user
<1>0. /\ btnList \in [Button -> ButtonState] /\ nvs \in [Button -> Device \cup {NoDev}]
      /\ ot \in ThreadState /\ ot.b \in Button
  BY DEF TypeOK, SettingsOK, TasksOK, ThreadState
<1>a. \A at \in {"known", "again", "marked", "dev", "eui", "nvs", "taken", "unmark", "stop"} :
        /\ [ot EXCEPT !.at = at].at = at
        /\ [ot EXCEPT !.at = at].b = ot.b
        /\ [ot EXCEPT !.at = at].dev = ot.dev
        /\ \A b \in Button : /\ [ot EXCEPT !.at = at, !.b = b].at = at
                             /\ [ot EXCEPT !.at = at, !.b = b].b = b
                             /\ [ot EXCEPT !.at = at, !.b = b].dev = ot.dev
  BY <1>0 DEF ThreadState
<1>b. OtIdle.at = "idle"
  BY DEF OtIdle
<1>c. ASSUME NEW to \in {"again", "eui", "nvs", "taken", "unmark", "stop"}, goto(to)
      PROVE  ot'.at = to /\ ot'.b = ot.b /\ ot'.dev = ot.dev
  BY <1>a, <1>c DEF goto
<1>d. return => ot'.at = "idle"
  BY <1>b DEF return
<1>1. ASSUME NEW d \in Device, Renewed(d)
      PROVE  /\ WritesNothing /\ ot' = ot
             /\ UNCHANGED <<above, dr, held, timer, paired>>
             /\ dr.at = "idle" \/ above = "OpenThread"
  BY <1>1 DEF Renewed, WritesNothing
<1>2. ASSUME NEW d \in Device, pairedCallback(d)
      PROVE  /\ Comes
             /\ UNCHANGED <<above, dr, held, timer>>
             /\ dr.at = "idle" \/ above = "OpenThread"
  <2>1. ot'.at = "find" /\ ot'.dev = d
    BY <1>2 DEF pairedCallback, OtIdle
  <2> QED
    BY <1>2, <2>1 DEF pairedCallback, Comes, WritesNothing
<1>3. CASE assignDevice
  <2>1. CASE EuiIsExist = {}
    <3>1. ot'.at = "marked" /\ ot'.dev = ot.dev
      BY <1>3, <1>a, <2>1 DEF assignDevice
    <3>2. \A b \in Button : btnList[b].eui # ot.dev
      BY <2>1 DEF EuiIsExist
    <3>3. Finds
      BY <1>3, <3>1, <3>2 DEF assignDevice, Finds, WritesNothing
    <3> QED
      BY <1>3, <3>3 DEF assignDevice
  <2>2. CASE EuiIsExist # {}
    <3>1. Min(EuiIsExist) \in EuiIsExist
      BY <2>2, ButtonNat, MinIsIn DEF EuiIsExist
    <3>2. Min(EuiIsExist) \in Button /\ btnList[Min(EuiIsExist)].eui = ot.dev
      BY <3>1 DEF EuiIsExist
    <3>3. ot'.at = "known" /\ ot'.dev = ot.dev /\ ot'.b = Min(EuiIsExist)
      BY <1>3, <1>a, <2>2, <3>2 DEF assignDevice
    <3>4. Finds
      BY <1>3, <3>2, <3>3 DEF assignDevice, Finds, WritesNothing
    <3> QED
      BY <1>3, <3>4 DEF assignDevice
  <2> QED
    BY <2>1, <2>2
<1>4. CASE assignKnown
  <2>1. Regains
    <3>1. CASE ot.at = "known" /\ return /\ UNCHANGED btnList
      <4>1. UNCHANGED nvs
        BY <1>4 DEF assignKnown
      <4> QED
        BY <1>d, <3>1, <4>1 DEF Regains, Returns, WritesNothing
    <3>2. CASE ot.at = "known" /\ goto("again") /\ set(ot.b, "dev", ot.dev)
      <4>1. Turns("known", "again")
        BY <1>c, <3>2 DEF Turns
      <4>2. Gives(ot.b, "dev", ot.dev)
        BY <1>0, <3>2, SetEffects
      <4> QED
        BY <1>4, <4>1, <4>2 DEF assignKnown, Regains
    <3>3. CASE ot.at = "again" /\ return /\ set(ot.b, "isTaken", TRUE)
      <4>1. Returns("again")
        BY <1>d, <3>3 DEF Returns
      <4>2. SwitchesOn(ot.b, "isTaken")
        BY <1>0, <3>3, SetEffects
      <4>3. UNCHANGED nvs
        BY <1>4 DEF assignKnown
      <4> QED
        BY <4>1, <4>2, <4>3, Zenon DEF Regains
    <3> QED
      BY <1>4, <3>1, <3>2, <3>3 DEF assignKnown
  <2> QED
    BY <1>4, <2>1 DEF assignKnown
<1>5. CASE assignGetTrueMarked
  <2>1. Chooses
    <3>1. CASE Marked = {}
      BY <1>5, <1>d, <3>1 DEF assignGetTrueMarked, Chooses, Returns, WritesNothing
    <3>2. CASE Marked # {}
      <4>1. Min(Marked) \in Marked /\ Min(Marked) \in Button
        BY <3>2, ButtonNat, MinIsIn DEF Marked
      <4>2. ot'.at = "dev" /\ ot'.dev = ot.dev /\ ot'.b = Min(Marked)
        <5>1. ot' = [ot EXCEPT !.at = "dev", !.b = Min(Marked)]
          BY <1>5, <3>2 DEF assignGetTrueMarked
        <5>2. ASSUME NEW b \in Button, ot' = [ot EXCEPT !.at = "dev", !.b = b]
              PROVE  ot'.at = "dev" /\ ot'.dev = ot.dev /\ ot'.b = b
          BY <1>a, <5>2
        <5> QED
          BY <4>1, <5>1, <5>2, Zenon
      <4>3. WritesNothing /\ ot.at = "marked"
        BY <1>5 DEF assignGetTrueMarked, WritesNothing
      <4>4. ot'.b \in Marked
        BY <4>1, <4>2
      <4> QED
        BY <4>2, <4>3, <4>4 DEF Chooses
    <3> QED
      BY <3>1, <3>2
  <2> QED
    BY <1>5, <2>1 DEF assignGetTrueMarked
<1>6. CASE assignNewDeviceToBtnList
  <2>1. Assigns
    <3>1. CASE ot.at = "dev" /\ set(ot.b, "dev", ot.dev) /\ goto("eui") /\ UNCHANGED nvs
      <4>1. Turns("dev", "eui")
        BY <1>c, <3>1 DEF Turns
      <4>2. Gives(ot.b, "dev", ot.dev)
        BY <1>0, <3>1, SetEffects
      <4> QED
        BY <3>1, <4>1, <4>2 DEF Assigns
    <3>2. CASE ot.at = "eui" /\ set(ot.b, "eui", ot.dev) /\ goto("nvs") /\ UNCHANGED nvs
      <4>1. Turns("eui", "nvs")
        BY <1>c, <3>2 DEF Turns
      <4>2. Gives(ot.b, "eui", ot.dev)
        BY <1>0, <3>2, SetEffects
      <4> QED
        BY <3>2, <4>1, <4>2 DEF Assigns
    <3>3. CASE /\ ot.at = "nvs" /\ nvs' = [nvs EXCEPT ![ot.b] = btnList[ot.b].eui]
               /\ goto("taken") /\ UNCHANGED btnList
      <4>1. Turns("nvs", "taken")
        BY <1>c, <3>3 DEF Turns
      <4>2. Stores(ot.b, btnList[ot.b].eui)
        BY <1>0, <3>3 DEF Stores
      <4> QED
        BY <3>3, <4>1, <4>2 DEF Assigns
    <3>4. CASE /\ ot.at = "taken" /\ set(ot.b, "isTaken", TRUE)
               /\ goto("unmark") /\ UNCHANGED nvs
      <4>1. Turns("taken", "unmark")
        BY <1>c, <3>4 DEF Turns
      <4>2. SwitchesOn(ot.b, "isTaken")
        BY <1>0, <3>4, SetEffects
      <4> QED
        BY <3>4, <4>1, <4>2, Zenon DEF Assigns
    <3>5. CASE /\ ot.at = "unmark" /\ set(ot.b, "mark", FALSE)
               /\ goto("stop") /\ UNCHANGED nvs
      <4>1. Turns("unmark", "stop")
        BY <1>c, <3>5 DEF Turns
      <4>2. SwitchesOff(ot.b, "mark")
        BY <1>0, <3>5, SetEffects
      <4> QED
        BY <3>5, <4>1, <4>2, Zenon DEF Assigns
    <3> QED
      BY <1>6, <3>1, <3>2, <3>3, <3>4, <3>5 DEF assignNewDeviceToBtnList
  <2> QED
    BY <1>6, <2>1 DEF assignNewDeviceToBtnList
<1>7. CASE assignStop
  BY <1>7, <1>d DEF assignStop, Stops, Returns, WritesNothing
<1> QED
  BY <1>1, <1>2, <1>3, <1>4, <1>5, <1>6, <1>7 DEF OpenThread

(* The rest: a restart brings the EUIs back from NVS, and nothing else      *)
(* touches what the invariants are about.                                   *)
Reloads ==
  /\ \A b \in Button : /\ btnList'[b].mark = FALSE /\ btnList'[b].dev = NoDev
                       /\ btnList'[b].eui = nvs[b] /\ btnList'[b].isTaken = FALSE
  /\ UNCHANGED nvs
  /\ dr'.at = "idle" /\ ot'.at = "idle"
  /\ ~held'

LEMMA OtherSteps ==
  ASSUME TypeOK, [Next]_vars
  PROVE  \/ DriverTask \/ OpenThread
         \/ UNCHANGED <<above, btnList, nvs, dr, ot, paired, held>>
         \/ UNCHANGED above /\ Reloads
<1> USE DEF settings, network, user
<1>1. ASSUME NEW d \in Device, TurnOn(d)
      PROVE  UNCHANGED <<above, btnList, nvs, dr, ot, paired, held, timer>>
  BY <1>1 DEF TurnOn
<1>2. CASE Tick
  BY <1>2 DEF Tick
<1>3. CASE Restart
  BY <1>3 DEF Restart, Reloads, settingsLoad, Empty, DrIdle, OtIdle
<1>4. CASE UNCHANGED vars
  BY <1>4 DEF vars
<1> QED
  BY <1>1, <1>2, <1>3, <1>4 DEF Next

(* One button per device.  A device is handled once between two restarts,   *)
(* when its subscriptions enter the pair list; until the search for its EUI *)
(* it is fresh, and NVS names it only where RAM does.  So one that no       *)
(* button has in RAM is in nobody's NVS either, and the device that is      *)
(* about to be assigned is the only one a button will have twice.           *)
Fresh(d) == d # NoDev /\ (d \notin paired \/ (ot.at = "find" /\ ot.dev = d))
Has(b, d) == btnList[b].eui = d \/ nvs[b] = d

HandledOnce ==
  /\ ot.at # "idle" => ot.dev \in Device \cap paired
  /\ ot.at = "nvs" => btnList[ot.b].eui \in {ot.dev, NoDev}
FreshInRam == \A b \in Button : Fresh(nvs[b]) => btnList[b].eui = nvs[b]
StaleOnly ==
  /\ dr.at = "clear" /\ dr.f > 1 => ~Fresh(nvs[dr.b])
  /\ dr.at \in {"unmark", "mark"} => ~Fresh(nvs[dr.b])
  /\ ot.at \in {"dev", "eui"} => ~Fresh(nvs[ot.b])
  /\ \A b \in Button : btnList[b].mark => ~Fresh(nvs[b])
OneHolder ==
  /\ \A d \in Device, b, c \in Button : Has(b, d) /\ Has(c, d) => b = c
  /\ ot.at \in {"marked", "dev", "eui"} => \A b \in Button : ~Has(b, ot.dev)

HolderInv == HandledOnce /\ FreshInRam /\ StaleOnly /\ OneHolder

(* With the driver above, RAM and NVS differ only at the button that is     *)
(* being assigned or erased, and one that is or will be marked has nothing  *)
(* stored.                                                                  *)
KeptInv ==
  above = "driver" =>
    /\ \A b \in Button :
         \/ btnList[b].eui = nvs[b]
         \/ ot.at = "nvs" /\ b = ot.b
         \/ dr.at = "clear" /\ b = dr.b /\ dr.f \in 2 .. 4
    /\ dr.at = "clear" /\ dr.f \in 2 .. 4 => nvs[dr.b] = NoDev
    /\ dr.at \in {"unmark", "mark"} => nvs[dr.b] = NoDev
    /\ ot.at \in {"dev", "eui", "nvs"} => nvs[ot.b] = NoDev
    /\ \A b \in Button :
         btnList[b].mark => nvs[b] = NoDev \/ (b = ot.b /\ ot.at \in {"taken", "unmark"})

(* With OpenThread above, a button that is taken has the device it is       *)
(* taken by, except while its own fields are being written.                 *)
TakenInv ==
  above = "OpenThread" =>
    /\ \A b \in Button :
         btnList[b].isTaken =>
           \/ btnList[b].dev = btnList[b].eui /\ btnList[b].dev # NoDev
           \/ dr.at = "clear" /\ b = dr.b /\ dr.f \in {4, 5}
           \/ ot.at = "eui" /\ b = ot.b
    /\ dr.at = "use" => btnList[dr.b].isTaken
    /\ ot.at \in {"known", "again", "nvs", "taken"} => btnList[ot.b].eui = ot.dev
    /\ ot.at \in {"again", "eui", "nvs", "taken"} => btnList[ot.b].dev = ot.dev

LEMMA FieldTypes ==
  ASSUME TypeOK
  PROVE  /\ \A b \in Button : /\ btnList[b].eui \in Device \cup {NoDev}
                              /\ nvs[b] \in Device \cup {NoDev}
         /\ dr.b \in Button /\ dr.f \in 1 .. 5
         /\ ot.b \in Button /\ ot.dev \in Device \cup {NoDev}
         /\ above \in {"driver", "OpenThread"} /\ NoDev \notin Device
<1>1. \A b \in Button : btnList[b] \in ButtonState
  BY DEF TypeOK, SettingsOK
<1> QED
  BY <1>1, BtnAssumption
  DEF TypeOK, SettingsOK, TasksOK, WorldOK, DriverState, ThreadState, ButtonState

LEMMA HolderStep ==
  ASSUME TypeOK, HolderInv, [Next]_vars
  PROVE  HolderInv'
<1> USE DEF HolderInv, HandledOnce, FreshInRam, StaleOnly, OneHolder, Fresh, Has
<1>1. CASE DriverTask
  <2>1. UNCHANGED <<above, ot, paired>> /\ (ot.at = "idle" \/ above = "driver")
    BY <1>1, DriverSteps
  <2>2. CASE Looks
    BY <2>1, <2>2, FieldTypes DEF Looks, WritesNothing
  <2>3. CASE Waits
    BY <2>1, <2>3, FieldTypes DEF Waits, WritesNothing
  <2>4. CASE Unmarks
    BY <2>1, <2>4, FieldTypes DEF Unmarks, UnmarksAll
  <2>5. CASE Marks
    <3>1. \A c \in Button : /\ btnList'[c].eui = btnList[c].eui
                            /\ c # dr.b => btnList'[c].mark = btnList[c].mark
      BY <2>5 DEF Marks, SwitchesOn, Writes
    <3>2. dr.at = "mark" /\ dr'.at = "start" /\ UNCHANGED nvs
      BY <2>5 DEF Marks
    <3> QED
      BY <2>1, <3>1, <3>2, FieldTypes
  <2>6. CASE Erases
    <3>1. CASE dr.f = 1
      BY <2>1, <2>6, <3>1, FieldTypes DEF Erases, Stores
    <3>2. CASE dr.f \in {2, 3, 5}
      <4>1. /\ UNCHANGED nvs
            /\ \A c \in Button : /\ btnList'[c].eui = btnList[c].eui
                                 /\ btnList'[c].mark => btnList[c].mark
        BY <2>6, <3>2, FieldTypes DEF Erases, SwitchesOff, Gives, Writes
      <4>2. /\ dr.at = "clear" /\ dr'.at \in {"idle", "clear"}
            /\ dr'.at = "clear" /\ dr'.f > 1 => dr.f > 1 /\ dr'.b = dr.b
        BY <2>6, <3>2 DEF Erases
      <4> QED
        BY <2>1, <4>1, <4>2, FieldTypes
    <3>3. CASE dr.f = 4
      BY <2>1, <2>6, <3>3, FieldTypes DEF Erases, Gives, Writes
    <3> QED
      BY <3>1, <3>2, <3>3, FieldTypes
  <2> QED
    BY <1>1, <2>2, <2>3, <2>4, <2>5, <2>6, DriverSteps
<1>2. CASE OpenThread
  <2>1. UNCHANGED <<above, dr>> /\ (dr.at = "idle" \/ above = "OpenThread")
    BY <1>2, ThreadSteps
  <2>2. CASE Comes
    BY <2>1, <2>2, FieldTypes DEF Comes, WritesNothing
  <2>3. CASE UNCHANGED paired /\ Finds
    BY <2>1, <2>3, FieldTypes DEF Finds, WritesNothing
  <2>4. CASE UNCHANGED paired /\ Regains
    BY <2>1, <2>4, FieldTypes
    DEF Regains, Returns, Turns, SwitchesOn, SwitchesOff, Gives, Writes,
        WritesNothing
  <2>5. CASE UNCHANGED paired /\ Chooses
    BY <2>1, <2>5, FieldTypes DEF Chooses, Returns, Marked, WritesNothing
  <2>6. CASE UNCHANGED paired /\ Assigns
    <3>1. CASE ot.at = "dev"
      BY <2>1, <2>6, <3>1, FieldTypes DEF Assigns, Turns, Gives, Writes
    <3>2. CASE ot.at = "eui"
      <4>1. /\ ot'.at = "nvs" /\ ot'.b = ot.b /\ ot'.dev = ot.dev /\ nvs' = nvs
            /\ btnList'[ot.b].eui = ot.dev /\ ot.dev \in Device
            /\ \A c \in Button : /\ c # ot.b => btnList'[c].eui = btnList[c].eui
                                 /\ btnList'[c].mark = btnList[c].mark
        BY <2>6, <3>2, FieldTypes DEF Assigns, Turns, Gives, Writes
      <4>2. HandledOnce' /\ FreshInRam' /\ StaleOnly'
        BY <2>1, <2>6, <3>2, <4>1, FieldTypes
      <4>3. ASSUME NEW d \in Device, NEW b \in Button, NEW c \in Button, Has(b, d)', Has(c, d)'
            PROVE  b = c
        <5>1. CASE d = ot.dev
          BY <3>2, <4>1, <4>3, <5>1, FieldTypes
        <5>2. CASE d # ot.dev
          BY <4>1, <4>3, <5>2, FieldTypes
        <5> QED
          BY <5>1, <5>2
      <4>4. ot'.at \notin {"marked", "dev", "eui"}
        BY <4>1
      <4>5. OneHolder'
        BY <4>3, <4>4, Zenon
      <4> QED
        BY <4>2, <4>5
    <3>3. CASE ot.at = "nvs"
      BY <2>1, <2>6, <3>3, FieldTypes DEF Assigns, Turns, Stores
    <3>4. CASE ot.at \in {"taken", "unmark"}
      BY <2>1, <2>6, <3>4, FieldTypes
      DEF Assigns, Turns, SwitchesOn, SwitchesOff, Writes
    <3> QED
      BY <2>6, <3>1, <3>2, <3>3, <3>4 DEF Assigns, Turns
  <2>7. CASE UNCHANGED paired /\ (Stops \/ (WritesNothing /\ ot' = ot))
    BY <2>1, <2>7, FieldTypes DEF Stops, Returns, WritesNothing
  <2> QED
    BY <1>2, <2>2, <2>3, <2>4, <2>5, <2>6, <2>7, ThreadSteps
<1>3. CASE UNCHANGED <<above, btnList, nvs, dr, ot, paired>>
  BY <1>3
<1>4. CASE Reloads
  BY <1>4 DEF Reloads
<1> QED
  BY <1>1, <1>2, <1>3, <1>4, OtherSteps


LEMMA KeptStep ==
  ASSUME TypeOK, KeptInv, [Next]_vars
  PROVE  KeptInv'
<1> USE DEF KeptInv
<1>1. CASE DriverTask
  <2>1. UNCHANGED <<above, ot, paired>> /\ (ot.at = "idle" \/ above = "driver")
    BY <1>1, DriverSteps
  <2>2. CASE Looks
    BY <2>1, <2>2, FieldTypes DEF Looks, WritesNothing
  <2>3. CASE Waits
    BY <2>1, <2>3, FieldTypes DEF Waits, WritesNothing
  <2>4. CASE Unmarks
    BY <2>1, <2>4, FieldTypes DEF Unmarks, UnmarksAll
  <2>5. CASE Marks
    BY <2>1, <2>5, FieldTypes DEF Marks, SwitchesOn, Writes
  <2>6. CASE Erases
    <3>1. CASE dr.f = 1
      BY <2>1, <2>6, <3>1, FieldTypes DEF Erases, Stores
    <3>2. CASE dr.f = 2
      BY <2>1, <2>6, <3>2, FieldTypes DEF Erases, SwitchesOff, Writes
    <3>3. CASE dr.f = 3
      BY <2>1, <2>6, <3>3, FieldTypes DEF Erases, Gives, Writes
    <3>4. CASE dr.f = 4
      BY <2>1, <2>6, <3>4, FieldTypes DEF Erases, Gives, Writes
    <3>5. CASE dr.f = 5
      BY <2>1, <2>6, <3>5, FieldTypes DEF Erases, SwitchesOff, Writes
    <3> QED
      BY <3>1, <3>2, <3>3, <3>4, <3>5, FieldTypes
  <2> QED
    BY <1>1, <2>2, <2>3, <2>4, <2>5, <2>6, DriverSteps
<1>2. CASE OpenThread
  <2>1. UNCHANGED <<above, dr>> /\ (dr.at = "idle" \/ above = "OpenThread")
    BY <1>2, ThreadSteps
  <2>2. CASE Comes
    BY <2>1, <2>2, FieldTypes DEF Comes, WritesNothing
  <2>3. CASE Finds
    BY <2>1, <2>3, FieldTypes DEF Finds, WritesNothing
  <2>4. CASE Regains
    BY <2>1, <2>4, FieldTypes
    DEF Regains, Returns, Turns, SwitchesOn, Gives, Writes, WritesNothing
  <2>5. CASE Chooses
    BY <2>1, <2>5, FieldTypes DEF Chooses, Returns, Marked, WritesNothing
  <2>6. CASE Assigns
    <3>1. CASE ot.at = "dev"
      BY <2>1, <2>6, <3>1, FieldTypes DEF Assigns, Turns, Gives, Writes
    <3>2. CASE ot.at = "eui"
      BY <2>1, <2>6, <3>2, FieldTypes DEF Assigns, Turns, Gives, Writes
    <3>3. CASE ot.at = "nvs"
      BY <2>1, <2>6, <3>3, FieldTypes DEF Assigns, Turns, Stores
    <3>4. CASE ot.at = "taken"
      BY <2>1, <2>6, <3>4, FieldTypes DEF Assigns, Turns, SwitchesOn, Writes
    <3>5. CASE ot.at = "unmark"
      BY <2>1, <2>6, <3>5, FieldTypes DEF Assigns, Turns, SwitchesOff, Writes
    <3> QED
      BY <2>6, <3>1, <3>2, <3>3, <3>4, <3>5 DEF Assigns, Turns
  <2>7. CASE Stops \/ (WritesNothing /\ ot' = ot)
    BY <2>1, <2>7, FieldTypes DEF Stops, Returns, WritesNothing
  <2> QED
    BY <1>2, <2>2, <2>3, <2>4, <2>5, <2>6, <2>7, ThreadSteps
<1>3. CASE UNCHANGED <<above, btnList, nvs, dr, ot>>
  BY <1>3
<1>4. CASE UNCHANGED above /\ Reloads
  BY <1>4 DEF Reloads
<1> QED
  BY <1>1, <1>2, <1>3, <1>4, OtherSteps

LEMMA TakenStep ==
  ASSUME TypeOK, HolderInv, TakenInv, [Next]_vars
  PROVE  TakenInv'
<1> USE DEF TakenInv
<1>1. CASE DriverTask
  <2>1. UNCHANGED <<above, ot, paired>> /\ (ot.at = "idle" \/ above = "driver")
    BY <1>1, DriverSteps
  <2>2. CASE Looks
    BY <2>1, <2>2, FieldTypes DEF Looks, WritesNothing
  <2>3. CASE Waits
    BY <2>1, <2>3, FieldTypes DEF Waits, WritesNothing
  <2>4. CASE Unmarks
    BY <2>1, <2>4, FieldTypes DEF Unmarks, UnmarksAll
  <2>5. CASE Marks
    BY <2>1, <2>5, FieldTypes DEF Marks, SwitchesOn, Writes
  <2>6. CASE Erases
    <3>1. CASE dr.f = 1
      BY <2>1, <2>6, <3>1, FieldTypes DEF Erases, Stores
    <3>2. CASE dr.f = 2
      BY <2>1, <2>6, <3>2, FieldTypes DEF Erases, SwitchesOff, Writes
    <3>3. CASE dr.f = 3
      BY <2>1, <2>6, <3>3, FieldTypes DEF Erases, Gives, Writes
    <3>4. CASE dr.f = 4
      BY <2>1, <2>6, <3>4, FieldTypes DEF Erases, Gives, Writes
    <3>5. CASE dr.f = 5
      BY <2>1, <2>6, <3>5, FieldTypes DEF Erases, SwitchesOff, Writes
    <3> QED
      BY <3>1, <3>2, <3>3, <3>4, <3>5, FieldTypes
  <2> QED
    BY <1>1, <2>2, <2>3, <2>4, <2>5, <2>6, DriverSteps
<1>2. CASE OpenThread
  <2>1. UNCHANGED <<above, dr>> /\ (dr.at = "idle" \/ above = "OpenThread")
    BY <1>2, ThreadSteps
  <2>2. CASE Comes
    BY <2>1, <2>2, FieldTypes DEF Comes, WritesNothing
  <2>3. CASE Finds
    BY <2>1, <2>3, FieldTypes DEF Finds, WritesNothing
  <2>4. CASE Regains
    <3>0. ot.dev # NoDev
      BY <2>4, FieldTypes DEF Regains, Returns, Turns, HolderInv, HandledOnce
    <3>1. CASE ot.at = "known"
      BY <2>1, <2>4, <3>0, <3>1, FieldTypes
      DEF Regains, Returns, Turns, Gives, Writes, WritesNothing
    <3>2. CASE ot.at = "again"
      BY <2>1, <2>4, <3>0, <3>2, FieldTypes
      DEF Regains, Returns, Turns, SwitchesOn, Writes
    <3> QED
      BY <2>4, <3>1, <3>2 DEF Regains, Returns, Turns
  <2>5. CASE Chooses
    BY <2>1, <2>5, FieldTypes DEF Chooses, Returns, Marked, WritesNothing
  <2>6. CASE Assigns
    <3>0. ot.dev # NoDev
      BY <2>6, FieldTypes DEF Assigns, Turns, HolderInv, HandledOnce
    <3>1. CASE ot.at = "dev"
      BY <2>1, <2>6, <3>0, <3>1, FieldTypes DEF Assigns, Turns, Gives, Writes
    <3>2. CASE ot.at = "eui"
      BY <2>1, <2>6, <3>0, <3>2, FieldTypes DEF Assigns, Turns, Gives, Writes
    <3>3. CASE ot.at = "nvs"
      BY <2>1, <2>6, <3>0, <3>3, FieldTypes DEF Assigns, Turns, Stores
    <3>4. CASE ot.at = "taken"
      BY <2>1, <2>6, <3>0, <3>4, FieldTypes DEF Assigns, Turns, SwitchesOn, Writes
    <3>5. CASE ot.at = "unmark"
      BY <2>1, <2>6, <3>0, <3>5, FieldTypes DEF Assigns, Turns, SwitchesOff, Writes
    <3> QED
      BY <2>6, <3>1, <3>2, <3>3, <3>4, <3>5 DEF Assigns, Turns
  <2>7. CASE Stops \/ (WritesNothing /\ ot' = ot)
    BY <2>1, <2>7, FieldTypes DEF Stops, Returns, WritesNothing
  <2> QED
    BY <1>2, <2>2, <2>3, <2>4, <2>5, <2>6, <2>7, ThreadSteps
<1>3. CASE UNCHANGED <<above, btnList, nvs, dr, ot>>
  BY <1>3
<1>4. CASE UNCHANGED above /\ Reloads
  BY <1>4 DEF Reloads
<1> QED
  BY <1>1, <1>2, <1>3, <1>4, OtherSteps

(* All of it together. *)
IInv ==
  TypeOK /\ OneMarkInv /\ ResetInv /\ HolderInv /\ KeptInv /\ TakenInv

THEOREM Inductive == Spec => []IInv
<1>1. Init => IInv
  <2> SUFFICES ASSUME Init PROVE IInv
    OBVIOUS
  <2>1. TypeOK
    BY InitTypeOK
  <2>2. /\ \A b \in Button : /\ btnList[b].mark = FALSE /\ btnList[b].isTaken = FALSE
                             /\ btnList[b].eui = NoDev /\ nvs[b] = NoDev
        /\ dr.at = "idle" /\ ot.at = "idle" /\ ~held /\ clicks = 0
        /\ resHandle.isLongPress = FALSE /\ resHandle.counter = 0
    BY DEF Init, settingsLoad, Empty, DrIdle, OtIdle, ResIdle
  <2>3. OneMarkInv /\ ResetInv
    BY <2>2 DEF OneMarkInv, OneMark, Marked, ResetInv
  <2>4. HolderInv
    BY <2>2, BtnAssumption
    DEF HolderInv, HandledOnce, FreshInRam, StaleOnly, OneHolder, Fresh, Has
  <2>5. KeptInv /\ TakenInv
    BY <2>2 DEF KeptInv, TakenInv, Marked
  <2> QED
    BY <2>1, <2>3, <2>4, <2>5 DEF IInv
<1>2. IInv /\ [Next]_vars => IInv'
  BY StepTypeOK, OneMarkStep, ResetStep, HolderStep, KeptStep, TakenStep
  DEF IInv
<1> QED
  BY <1>1, <1>2, PTL DEF Spec

(* A device never has two buttons. *)
THEOREM NoDeviceTwice == Spec => []OneButtonPerDevice
<1>1. IInv => OneButtonPerDevice
  BY FieldTypes DEF IInv, HolderInv, OneHolder, Has, OneButtonPerDevice
<1> QED
  BY <1>1, Inductive, PTL

(* With the driver above OpenThread, what a button has is what a restart    *)
(* brings back...                                                           *)
THEOREM SavedAsHeld == Spec => []StoredIsKept
<1>1. IInv => StoredIsKept
  BY DEF IInv, KeptInv, StoredIsKept
<1> QED
  BY <1>1, Inductive, PTL

(* ...and a reset alone takes a saved device away.                          *)
THEOREM KeptUntilReset == Spec => Remembered
<1> DEFINE Forgotten ==
      above = "driver" =>
        \A b \in Button : nvs[b] # NoDev /\ nvs'[b] # nvs[b] => dr.at = "clear"
<1>1. IInv /\ [Next]_vars => Forgotten
  <2> SUFFICES ASSUME IInv, [Next]_vars, above = "driver",
                      NEW b \in Button, nvs[b] # NoDev, nvs'[b] # nvs[b]
               PROVE  dr.at = "clear"
    OBVIOUS
  <2> USE DEF IInv
  <2>1. CASE DriverTask
    <3>1. nvs' # nvs
      OBVIOUS
    <3> QED
      BY <2>1, <3>1, DriverSteps
      DEF Looks, Waits, Unmarks, Marks, Erases, WritesNothing
  <2>2. CASE OpenThread
    <3>1. nvs' # nvs
      OBVIOUS
    <3>2. ot.at = "nvs" /\ Stores(ot.b, btnList[ot.b].eui)
      BY <2>2, <3>1, ThreadSteps
      DEF Comes, Finds, Regains, Chooses, Assigns, Stops, Turns, WritesNothing
    <3>3. nvs[ot.b] = NoDev
      BY <3>2 DEF KeptInv
    <3> QED
      BY <3>2, <3>3 DEF Stores
  <2>3. nvs' # nvs
    OBVIOUS
  <2> QED
    BY <2>1, <2>2, <2>3, OtherSteps DEF Reloads
<1>2. [Next]_vars /\ Forgotten => [Forgotten]_vars
  OBVIOUS
<1> HIDE DEF Forgotten
<1>3. IInv /\ [Next]_vars => [Forgotten]_vars
  BY <1>1
<1> USE DEF Forgotten
<1> QED
  BY <1>3, Inductive, PTL DEF Spec, Remembered

(* With OpenThread above the driver, a press finds the button's device.     *)
THEOREM PressIsSafe == Spec => []PressFindsDevice
<1>1. IInv => PressFindsDevice
  BY FieldTypes DEF IInv, TakenInv, PressFindsDevice, driverAt
<1> QED
  BY <1>1, Inductive, PTL

=============================================================================
