------------------------------ MODULE BtnAssign ------------------------------
(***************************************************************************)
(* Which device a button controls (ad_btn_assign.c).  A click on a button  *)
(* without a device marks it, and the next new device is assigned to it    *)
(* and its EUI saved to NVS; holding one button while clicking another     *)
(* erases all assignments.                                                 *)
(*                                                                         *)
(* The driver task polls buttons and the timer; OpenThread brings devices. *)
(* No lock protects the list of buttons, so an action is one access to it  *)
(* (a loop that takes away marks counts as one: there is one mark at most),*)
(* and the thread with the higher priority may run between two of them.    *)
(* OpenThread's priority is set by the platform: both orders are modelled. *)
(*                                                                         *)
(* One timer ends the mark and the reset sequence.  Whichever began last   *)
(* has it; a reset sequence given up, and a device assigned, stop it for   *)
(* both: a mark then stays until the next click, device or restart.        *)
(***************************************************************************)
EXTENDS Integers, FiniteSetsExt

CONSTANTS
  Device, NoDev,            \* devices, by EUI; no device, or an empty EUI
  NumOfButtons,             \* AD_BUTTON_NUM_OF_BUTTONS
  ResetHold, ResetClick,    \* OT_BTN_RESET_LONGPRESS_GPIO, _ONE_CLICK_GPIO
  ResetClicks,              \* OT_BTN_RESET_OC_CNT_RESET
  ResetTime, AssignTime,    \* OT_BTN_RESET_TIME_MS, OT_AD_BTN_ASSIGN_TIME_MS
  MaxRestart                \* bound on restarts

Button == 0 .. NumOfButtons - 1

ASSUME BtnAssumption ==
  /\ NoDev \notin Device
  /\ NumOfButtons \in Nat
  /\ {ResetHold, ResetClick} \subseteq Button /\ ResetHold # ResetClick
  /\ {ResetClicks, ResetTime, AssignTime} \subseteq Nat \ {0}
  /\ MaxRestart \in Nat

VARIABLES
  above,      \* the thread with the higher priority
  btnList,    \* mark, device, EUI and isTaken of each button
  nvs,        \* the EUI saved for each button
  timer,      \* what is left of ad_btn_assignTime, or Off
  resHandle,  \* ad_btn_resHandle
  dr,         \* the driver task: where it is, for which button and setting
  ot,         \* ad_btn_assignDevice: where it is, for which device and button
  paired,     \* devices whose subscriptions the pair list holds
  heard,      \* devices that were turned on and not dealt with yet
  held, restarted
VARIABLES     \* what the user did, for the properties
  clicks,     \* clicks on ResetClick during the present hold
  elapsed     \* time since the reset sequence began

settings == <<btnList, nvs>>
network == <<paired, heard, restarted>>
user == <<clicks, elapsed>>
vars == <<above, settings, timer, resHandle, dr, ot, network, held, user>>

Off == -1
Empty == [mark |-> FALSE, dev |-> NoDev, eui |-> NoDev, isTaken |-> FALSE]
ResIdle == [isLongPress |-> FALSE, counter |-> 0]
DrIdle == [at |-> "idle", b |-> 0, f |-> 1]
OtIdle == [at |-> "idle", dev |-> NoDev, b |-> 0]

(* ad_btn_init: the marks and devices are gone, the EUIs are read back.    *)
settingsLoad(stored) == [b \in Button |-> [Empty EXCEPT !.eui = stored[b]]]

Init ==
  /\ above \in {"driver", "OpenThread"}
  /\ nvs = [b \in Button |-> NoDev]
  /\ btnList = settingsLoad(nvs)
  /\ timer = Off
  /\ resHandle = ResIdle
  /\ dr = DrIdle
  /\ ot = OtIdle
  /\ paired = {} /\ heard = {}
  /\ held = FALSE /\ restarted = 0
  /\ clicks = 0 /\ elapsed = 0

driverAt(place) == dr.at = place /\ (ot.at = "idle" \/ above = "driver")
threadAt(place) == ot.at = place /\ (dr.at = "idle" \/ above = "OpenThread")

set(b, field, value) == btnList' = [btnList EXCEPT ![b][field] = value]
Marked == {b \in Button : btnList[b].mark}

-----------------------------------------------------------------------------
(* The driver task.  A single click counts for the reset while ResetHold   *)
(* is held, and the last one that it takes begins to erase...              *)
ClickInReset_OneMore ==
  /\ driverAt("idle")
  /\ resHandle.isLongPress
  /\ IF resHandle.counter + 1 <= ResetClicks
     THEN /\ resHandle' = [resHandle EXCEPT !.counter = @ + 1]
          /\ clicks' = IF clicks < ResetClicks THEN clicks + 1 ELSE clicks
          /\ UNCHANGED <<timer, dr>>
     ELSE /\ resHandle' = ResIdle
          /\ clicks' = 0
          /\ timer' = Off
          /\ dr' = [DrIdle EXCEPT !.at = "clear"]
  /\ UNCHANGED <<above, settings, ot, network, held, elapsed>>
ClickInReset ==
  /\ driverAt("idle")
  /\ resHandle.isLongPress
  /\ IF resHandle.counter + 1 < ResetClicks
     THEN /\ resHandle' = [resHandle EXCEPT !.counter = @ + 1]
          /\ clicks' = IF clicks < ResetClicks THEN clicks + 1 ELSE clicks
          /\ UNCHANGED <<timer, dr>>
     ELSE /\ resHandle' = ResIdle
          /\ clicks' = 0
          /\ timer' = Off
          /\ dr' = [DrIdle EXCEPT !.at = "clear"]
  /\ UNCHANGED <<above, settings, ot, network, held, elapsed>>

(* ...otherwise it marks a button that has no EUI, or controls its device. *)
eventOneClick_UntakenToo(b) ==
  /\ driverAt("idle")
  /\ ~(b = ResetClick /\ resHandle.isLongPress)
  /\ ~(b = ResetHold /\ held)
  /\ dr' = [DrIdle EXCEPT
              !.at = IF ~btnList[b].isTaken THEN "unmark" ELSE "use", !.b = b]
  /\ UNCHANGED <<above, settings, timer, resHandle, ot, network, held, user>>
eventOneClick(b) ==
  /\ driverAt("idle")
  /\ ~(b = ResetClick /\ resHandle.isLongPress)
  /\ ~(b = ResetHold /\ held)
  /\ \/ /\ btnList[b].eui = NoDev
        /\ dr' = [DrIdle EXCEPT !.at = "unmark", !.b = b]
     \/ /\ btnList[b].eui # NoDev
        /\ btnList[b].isTaken
        /\ dr' = [DrIdle EXCEPT !.at = "use", !.b = b]
  /\ UNCHANGED <<above, settings, timer, resHandle, ot, network, held, user>>

(* ad_btn_assignSetTrue: the mark moves here and the timer starts again.   *)
assignUnmark_Kept ==
  /\ driverAt("unmark")
  /\ dr' = [dr EXCEPT !.at = "mark"]
  /\ UNCHANGED <<above, settings, timer, resHandle, ot, network, held, user>>
assignUnmark ==
  /\ driverAt("unmark")
  /\ btnList' = [b \in Button |-> [btnList[b] EXCEPT !.mark = FALSE]]
  /\ dr' = [dr EXCEPT !.at = "mark"]
  /\ UNCHANGED <<above, nvs, timer, resHandle, ot, network, held, user>>

assignMark ==
  /\ driverAt("mark")
  /\ set(dr.b, "mark", TRUE)
  /\ dr' = [dr EXCEPT !.at = "start"]
  /\ UNCHANGED <<above, nvs, timer, resHandle, ot, network, held, user>>

assignStart ==
  /\ driverAt("start")
  /\ timer' = AssignTime
  /\ dr' = DrIdle
  /\ UNCHANGED <<above, settings, resHandle, ot, network, held, user>>

(* ad_btn_event, after a double click and again and again during a long    *)
(* press: a button that has a device controls it.                          *)
event(b) ==
  dr' = IF btnList[b].isTaken THEN [DrIdle EXCEPT !.at = "use", !.b = b]
        ELSE DrIdle

DoubleClickOrLongPress(b) ==
  /\ driverAt("idle")
  /\ b # ResetHold \/ ~held
  /\ event(b)
  /\ UNCHANGED <<above, settings, timer, resHandle, ot, network, held, user>>

(* The device's address and state are read through the pointer.            *)
UseDevice ==
  /\ driverAt("use")
  /\ dr' = DrIdle
  /\ UNCHANGED <<above, settings, timer, resHandle, ot, network, held, user>>

(* A long press of ResetHold begins a reset sequence, unless one runs.     *)
longPressStart ==
  /\ driverAt("idle")
  /\ held' = TRUE
  /\ clicks' = IF held THEN clicks ELSE 0
  /\ IF resHandle.isLongPress THEN UNCHANGED <<resHandle, timer, elapsed>>
     ELSE /\ resHandle' = [resHandle EXCEPT !.isLongPress = TRUE]
          /\ timer' = ResetTime
          /\ elapsed' = 0
  /\ event(ResetHold)
  /\ UNCHANGED <<above, settings, ot, network>>

(* ad_btn_resetStop, when ResetHold is released... *)
resetStop_CounterKept ==
  IF resHandle.isLongPress
  THEN resHandle' = [resHandle EXCEPT !.isLongPress = FALSE] /\ timer' = Off
  ELSE UNCHANGED <<resHandle, timer>>
resetStop ==
  IF resHandle.isLongPress THEN resHandle' = ResIdle /\ timer' = Off
  ELSE UNCHANGED <<resHandle, timer>>

longPressStop ==
  /\ driverAt("idle")
  /\ held
  /\ held' = FALSE
  /\ resetStop
  /\ UNCHANGED <<above, settings, dr, ot, network, user>>

(* ...and when the timer, which does its action once, runs out.            *)
eventTask ==
  /\ driverAt("idle")
  /\ timer = 0
  /\ dr' = [DrIdle EXCEPT !.at = "expired"]
  /\ UNCHANGED <<above, settings, timer, resHandle, ot, network, held, user>>

assignSetFalseAll ==
  /\ driverAt("expired")
  /\ btnList' = [b \in Button |-> [btnList[b] EXCEPT !.mark = FALSE]]
  /\ resHandle' = IF resHandle.isLongPress THEN ResIdle ELSE resHandle
  /\ timer' = Off
  /\ dr' = DrIdle
  /\ UNCHANGED <<above, nvs, ot, network, held, user>>

(* ad_btn_setDefaultSettings: button by button, first in NVS, then in RAM. *)
Settings == <<"nvs", "mark", "dev", "eui", "isTaken">>
setDefaultSettings_RamOnly ==
  LET field == Settings[dr.f] IN
  /\ driverAt("clear")
  /\ IF field = "nvs" THEN UNCHANGED settings
     ELSE set(dr.b, field, Empty[field]) /\ UNCHANGED nvs
  /\ dr' = IF dr.f < 5 THEN [dr EXCEPT !.f = @ + 1]
           ELSE IF dr.b + 1 \in Button THEN [dr EXCEPT !.b = @ + 1, !.f = 1]
           ELSE DrIdle
  /\ UNCHANGED <<above, timer, resHandle, ot, network, held, user>>
setDefaultSettings_StaysTaken ==
  LET field == Settings[dr.f] IN
  /\ driverAt("clear")
  /\ IF field = "nvs" THEN nvs' = [nvs EXCEPT ![dr.b] = NoDev] /\ UNCHANGED btnList
     ELSE set(dr.b, field, Empty[field]) /\ UNCHANGED nvs
  /\ dr' = IF dr.f < 4 THEN [dr EXCEPT !.f = @ + 1]
           ELSE IF dr.b + 1 \in Button THEN [dr EXCEPT !.b = @ + 1, !.f = 1]
           ELSE DrIdle
  /\ UNCHANGED <<above, timer, resHandle, ot, network, held, user>>
setDefaultSettings ==
  LET field == Settings[dr.f] IN
  /\ driverAt("clear")
  /\ IF field = "nvs" THEN nvs' = [nvs EXCEPT ![dr.b] = NoDev] /\ UNCHANGED btnList
     ELSE set(dr.b, field, Empty[field]) /\ UNCHANGED nvs
  /\ dr' = IF dr.f < 5 THEN [dr EXCEPT !.f = @ + 1]
           ELSE IF dr.b + 1 \in Button THEN [dr EXCEPT !.b = @ + 1, !.f = 1]
           ELSE DrIdle
  /\ UNCHANGED <<above, timer, resHandle, ot, network, held, user>>

-----------------------------------------------------------------------------
(* OpenThread.  A device announces itself.  One whose subscriptions the    *)
(* pair list holds is renewed (Pair: AddKnown) and that is all; any other  *)
(* is asked for its URIs, subscribed, and handed to the buttons.           *)
TurnOn(d) ==
  /\ d \notin heard
  /\ heard' = heard \cup {d}
  /\ UNCHANGED <<above, settings, timer, resHandle, dr, ot, paired, restarted,
                 held, user>>

Renewed(d) ==
  /\ threadAt("idle")
  /\ d \in heard \cap paired
  /\ heard' = heard \ {d}
  /\ UNCHANGED <<above, settings, timer, resHandle, dr, ot, paired, restarted,
                 held, user>>

pairedCallback(d) ==
  /\ threadAt("idle")
  /\ d \in heard \ paired
  /\ paired' = paired \cup {d}
  /\ ot' = [OtIdle EXCEPT !.at = "find", !.dev = d]
  /\ UNCHANGED <<above, settings, timer, resHandle, dr, heard, restarted, held,
                 user>>

otherState == UNCHANGED <<above, resHandle, dr, paired, restarted, held, user>>
goto(place) == ot' = [ot EXCEPT !.at = place] /\ UNCHANGED heard
return == ot' = OtIdle /\ heard' = heard \ {ot.dev}

(* ad_btn_assignDevice: is it assigned already?                            *)
EuiIsExist_TakenOnly ==
  {b \in Button : btnList[b].eui = ot.dev /\ btnList[b].isTaken}
EuiIsExist == {b \in Button : btnList[b].eui = ot.dev}

assignDevice ==
  /\ threadAt("find")
  /\ ot' = IF EuiIsExist = {} THEN [ot EXCEPT !.at = "marked"]
           ELSE [ot EXCEPT !.at = "known", !.b = Min(EuiIsExist)]
  /\ UNCHANGED heard
  /\ otherState /\ UNCHANGED <<settings, timer>>

(* It is: after a restart the button gets its device back.                 *)
assignKnown ==
  /\ \/ threadAt("known") /\ btnList[ot.b].isTaken /\ return /\ UNCHANGED btnList
     \/ /\ threadAt("known") /\ ~btnList[ot.b].isTaken /\ goto("again")
        /\ set(ot.b, "dev", ot.dev)
     \/ threadAt("again") /\ return /\ set(ot.b, "isTaken", TRUE)
  /\ otherState /\ UNCHANGED <<nvs, timer>>

(* It is not: it goes to the marked button, if there is one...             *)
assignGetTrueMarked ==
  /\ threadAt("marked")
  /\ IF Marked = {} THEN return
     ELSE ot' = [ot EXCEPT !.at = "dev", !.b = Min(Marked)] /\ UNCHANGED heard
  /\ otherState /\ UNCHANGED <<settings, timer>>

(* ...which takes the pointer, the EUI, in NVS what RAM then holds, and    *)
(* loses its mark;...                                                      *)
assignNewDeviceToBtnList ==
  /\ \/ threadAt("dev") /\ set(ot.b, "dev", ot.dev) /\ goto("eui") /\ UNCHANGED nvs
     \/ threadAt("eui") /\ set(ot.b, "eui", ot.dev) /\ goto("nvs") /\ UNCHANGED nvs
     \/ /\ threadAt("nvs") /\ nvs' = [nvs EXCEPT ![ot.b] = btnList[ot.b].eui]
        /\ goto("taken") /\ UNCHANGED btnList
     \/ /\ threadAt("taken") /\ set(ot.b, "isTaken", TRUE)
        /\ goto("unmark") /\ UNCHANGED nvs
     \/ /\ threadAt("unmark") /\ set(ot.b, "mark", FALSE)
        /\ goto("stop") /\ UNCHANGED nvs
  /\ otherState /\ UNCHANGED timer

(* ...the timer is stopped whatever it runs for.                           *)
assignStop ==
  /\ threadAt("stop")
  /\ timer' = Off
  /\ return
  /\ otherState /\ UNCHANGED settings

-----------------------------------------------------------------------------
(* Handlers take no time, and a timer that is due is dealt with first.     *)
Tick ==
  /\ dr.at = "idle" /\ ot.at = "idle"
  /\ timer # 0
  /\ timer' = IF timer = Off THEN Off ELSE timer - 1
  /\ elapsed' = IF resHandle.isLongPress /\ elapsed <= ResetTime THEN elapsed + 1
                ELSE elapsed
  /\ UNCHANGED <<above, settings, resHandle, dr, ot, network, held, clicks>>

(* Power is lost at any moment; only NVS survives.                         *)
Restart ==
  /\ restarted < MaxRestart
  /\ restarted' = restarted + 1
  /\ btnList' = settingsLoad(nvs)
  /\ timer' = Off
  /\ resHandle' = ResIdle
  /\ dr' = DrIdle /\ ot' = OtIdle
  /\ paired' = {} /\ heard' = {}
  /\ held' = FALSE
  /\ clicks' = 0 /\ elapsed' = 0
  /\ UNCHANGED <<above, nvs>>

DriverTask ==
  \/ ClickInReset
  \/ \E b \in Button : eventOneClick(b) \/ DoubleClickOrLongPress(b)
  \/ assignUnmark \/ assignMark \/ assignStart
  \/ UseDevice
  \/ longPressStart \/ longPressStop
  \/ eventTask \/ assignSetFalseAll
  \/ setDefaultSettings

OpenThread ==
  \/ \E d \in Device : Renewed(d) \/ pairedCallback(d)
  \/ assignDevice \/ assignKnown
  \/ assignGetTrueMarked \/ assignNewDeviceToBtnList \/ assignStop

Next == DriverTask \/ OpenThread \/ (\E d \in Device : TurnOn(d)) \/ Tick \/ Restart

Spec == Init /\ [][Next]_vars

-----------------------------------------------------------------------------
ButtonState == [mark : BOOLEAN, dev : Device \cup {NoDev},
                eui : Device \cup {NoDev}, isTaken : BOOLEAN]
DriverState == [at : {"idle", "unmark", "mark", "start", "use", "expired", "clear"},
                b : Button, f : 1 .. 5]
ThreadState == [at : {"idle", "find", "known", "again", "marked", "dev", "eui",
                      "nvs", "taken", "unmark", "stop"},
                dev : Device \cup {NoDev}, b : Button]

SettingsOK ==
  /\ btnList \in [Button -> ButtonState]
  /\ nvs \in [Button -> Device \cup {NoDev}]
TasksOK ==
  /\ dr \in DriverState /\ ot \in ThreadState
  /\ timer \in {Off} \cup 0 .. ResetTime \cup 0 .. AssignTime
  /\ resHandle \in [isLongPress : BOOLEAN, counter : 0 .. ResetClicks - 1]
WorldOK ==
  /\ above \in {"driver", "OpenThread"}
  /\ paired \subseteq Device /\ heard \subseteq Device
  /\ held \in BOOLEAN /\ restarted \in 0 .. MaxRestart
  /\ clicks \in 0 .. ResetClicks
  /\ elapsed \in 0 .. ResetTime + 1

TypeOK == SettingsOK /\ TasksOK /\ WorldOK

(* A device is assigned to one button, whatever clicks, announcements,     *)
(* resets and restarts come in between: a second one would never get it    *)
(* (assignDevice takes the first that has its EUI).                        *)
OneButtonPerDevice ==
  \A b, c \in Button :
    btnList[b].eui = btnList[c].eui /\ btnList[b].eui # NoDev => b = c

(* The next device goes to the button that was marked last: a click moves  *)
(* the mark, also while a device is being assigned.                        *)
OneMark == \A b, c \in Marked : b = c

(* What RAM holds is what a restart would bring back.  With OpenThread     *)
(* above the driver this fails: a device assigned between the two halves   *)
(* of a button's reset stays in NVS.                                       *)
StoredIsKept ==
  above = "driver" /\ dr.at # "clear" /\ ot.at # "nvs" =>
    \A b \in Button : btnList[b].eui = nvs[b]

(* "The button now 'remembers' this device even after a reboot" (README):  *)
(* only a reset takes it away.  With OpenThread above the driver this      *)
(* fails: a device may come between the click's look at the EUI and its    *)
(* mark, and the next one is assigned over it.                             *)
Remembered ==
  [][above = "driver" =>
       \A b \in Button :
         nvs[b] # NoDev /\ nvs'[b] # nvs[b] => dr.at = "clear"]_vars

(* A press controls the device whose EUI the button has, and never follows *)
(* a null pointer.  With the driver above OpenThread this fails: a reset   *)
(* may come between the pointer and isTaken.                               *)
PressFindsDevice ==
  above = "OpenThread" /\ driverAt("use") =>
    btnList[dr.b].dev = btnList[dr.b].eui /\ btnList[dr.b].dev # NoDev

Resets == dr.at # "clear" /\ dr'.at = "clear"

(* Nothing but the full number of clicks within one hold erases.           *)
ResetIsDeliberate == [][Resets => held /\ clicks + 1 >= ResetClicks]_vars

(* "... click the second button ... 5 times within a specified short time   *)
(* window (10 seconds OT_BTN_RESET_TIME_MS)" (ad_button.h:414): no reset    *)
(* sequence that has taken longer erases.                                   *)
ResetInTime == [][Resets => elapsed <= ResetTime]_vars

(* "1. Press the selected button briefly.  2. Turn on the corresponding    *)
(* device.  3. After a short moment, the device will be assigned to the    *)
(* selected button." (ad_button.h): when a device has been dealt with and  *)
(* a mark is still set, it has a button.                                   *)
AssignProcedure ==
  [][\A d \in heard \ heard' :
       Marked # {} /\ Marked' # {} => \E b \in Button : btnList'[b].eui = d]_vars
=============================================================================
