------------------------------- MODULE Clicks -------------------------------
(***************************************************************************)
(* OneButton: how the polls of one pin become clicks.  The user moves the  *)
(* pin as he likes, a contact may bounce between any two polls.  Poll is   *)
(* OneButtonTask: one state function, which may report to its callback.    *)
(* Time is counted in polls.                                               *)
(***************************************************************************)
EXTENDS Integers

CONSTANTS TimerDebounce, TimerDoubleClick, TimerLongPressStart, TimerLongPressTick

ASSUME ClickTimers ==
    {TimerDebounce, TimerDoubleClick, TimerLongPressStart, TimerLongPressTick} \subseteq Nat

VARIABLES pin,     \* is the button pressed?
          btnState, CoundClick,
          since,   \* time since LastTick; it stops at Eternity
          report,  \* what this poll reported
          releases \* of the pin since the last report of clicks; no more than 3

clickVars == <<pin, btnState, CoundClick, since, report, releases>>

Eternity ==
    LET longest(a, b) == IF a > b THEN a ELSE b
    IN 2 + longest(longest(TimerDebounce, TimerDoubleClick),
                   longest(TimerLongPressStart, TimerLongPressTick))

ClicksInit ==
    /\ pin = FALSE /\ btnState = "IDLE" /\ CoundClick = 0
    /\ since = Eternity /\ report = "none" /\ releases = 0

Touch ==
    /\ pin' = ~pin
    /\ releases' = IF pin /\ releases < 3 THEN releases + 1 ELSE releases
    /\ UNCHANGED <<btnState, CoundClick, since, report>>

Goes(next, time) == btnState' = next /\ since' = time
Silent == report' = "none" /\ UNCHANGED releases

\* Mutant: a single click waits for the second.
Idle_WaitsForSecond(now) ==
    LET time == IF pin THEN 0 ELSE now
    IN /\ Goes(IF CoundClick = 2 THEN "DOUBLECLICK"
               ELSE IF pin THEN "DEBOUNCE" ELSE "IDLE", time)
       /\ Silent /\ UNCHANGED CoundClick

\* A press starts the debouncing; a second click is decided before it.
Idle(now) ==
    LET time == IF pin THEN 0 ELSE now
    IN /\ Goes(IF CoundClick = 2 THEN "DOUBLECLICK"
               ELSE IF CoundClick = 1 /\ time > TimerDoubleClick THEN "ONECLICK"
               ELSE IF pin THEN "DEBOUNCE" ELSE "IDLE", time)
       /\ Silent /\ UNCHANGED CoundClick

Debounce(now) ==
    /\ IF now <= TimerDebounce THEN Goes("DEBOUNCE", now)
       ELSE IF pin THEN Goes("DECIDE", 0) ELSE Goes("IDLE", now)
    /\ Silent /\ UNCHANGED CoundClick

Decide(now) ==
    /\ IF pin
       THEN /\ Goes(IF now > TimerLongPressStart THEN "LONGPRESS" ELSE "DECIDE", now)
            /\ UNCHANGED CoundClick
       ELSE Goes("IDLE", 0) /\ CoundClick' = CoundClick + 1
    /\ Silent

\* Mutant: a reported click stays counted.
Reports_KeepsCount(click, now) ==
    /\ Goes("IDLE", now)
    /\ UNCHANGED CoundClick /\ releases' = 0
    /\ report' = click

Reports(click, now) ==
    /\ Goes("IDLE", now)
    /\ CoundClick' = 0 /\ releases' = 0
    /\ report' = click

LongPress(now) ==
    /\ IF ~pin THEN Goes("IDLE", now) /\ report' = "LongPressStop"
       ELSE IF now > TimerLongPressTick
       THEN Goes("LONGPRESS", 0) /\ report' = "LongPressStart"
       ELSE Goes("LONGPRESS", now) /\ report' = "none"
    /\ UNCHANGED <<CoundClick, releases>>

Poll ==
    LET now == IF since = Eternity THEN since ELSE since + 1
    IN /\ UNCHANGED pin
       /\ \/ btnState = "IDLE" /\ Idle(now)
          \/ btnState = "DEBOUNCE" /\ Debounce(now)
          \/ btnState = "DECIDE" /\ Decide(now)
          \/ btnState = "ONECLICK" /\ Reports("OneClick", now)
          \/ btnState = "DOUBLECLICK" /\ Reports("DoubleClick", now)
          \/ btnState = "LONGPRESS" /\ LongPress(now)

ClicksNext == Touch \/ Poll
ClicksSpec == ClicksInit /\ [][ClicksNext]_clickVars

------------------------------------------------------------------------------
(* Every reported click stands for a release of its own: neither bouncing   *)
(* nor a hold between two clicks makes one press count twice.               *)
ClicksCounted == [][report' # report =>
    /\ report' = "OneClick" => releases >= 1
    /\ report' = "DoubleClick" => releases >= 2]_clickVars

(* Once the button is left alone, no click stays unreported, and a hold has *)
(* ended for the program too.                                               *)
ClicksReported == <>[]~pin => <>[](CoundClick = 0 /\ btnState = "IDLE")
=============================================================================
