--------------------------- MODULE Services_proofs ---------------------------
(***************************************************************************)
(* The components that share no state, as run MC_Services has them: the    *)
(* service and its lease (SrpLease), click detection (Clicks), the level   *)
(* of a held button (Sweep) and the messages (MsgTlv).                     *)
(***************************************************************************)
EXTENDS SrpLease, Clicks, Sweep, MsgTlv, Lemmas, SequenceTheorems, TLAPS

------------------------------------------------------------------------------
(* The lease.                                                               *)
SrpTypeOK ==
    /\ host \in {"toRemove", "toAdd", "registered"}
    /\ svc \in {"absent", "toAdd", "registered"}
    /\ task \in {"none", "sleep", "check", "clear", "add"}
    /\ left \in Nat /\ count \in Int /\ waited \in Nat

OnTime == ~late /\ ~refused

\* A service that was not refused is only missing before the first
\* registration and between the task's two calls.
MissingIsKnown ==
    svc = "absent" => (host = "toRemove" /\ task = "none") \/ task = "add"
HostOnce == host = "toRemove" => task = "none"
\* Lateness is noticed.
WaitIsShort == waited <= Patience

\* The task is ahead of the server: its count has a delay more than what is
\* left, two while it has not yet counted the present one.
Uncounted == IF task = "check" THEN 1 ELSE 0
TaskIsAhead ==
    task # "none" =>
        /\ count <= LeaseInterval + 1
        /\ task \in {"sleep", "check"} => count > LeaseGuard
        /\ task = "clear" => count = LeaseGuard
        /\ svc = "registered" => left + 1 + Uncounted >= count
        /\ svc = "toAdd" => /\ task \in {"sleep", "check"}
                            /\ count + waited >= LeaseInterval + 1 + Uncounted
                            /\ left + waited + 1 >= LeaseGuard
        /\ task = "add" => left + 1 >= LeaseGuard

LeaseInv ==
    /\ SrpTypeOK
    /\ OnTime => MissingIsKnown /\ HostOnce /\ WaitIsShort /\ TaskIsAhead

LEMMA NumbersFit ==
    /\ LeaseInterval \in Nat /\ LeaseGuard \in Nat /\ Patience \in Nat
    /\ Patience + 2 <= LeaseGuard /\ LeaseGuard + Patience <= LeaseInterval
BY SrpConstants, LeaseRoom

LEMMA LeaseStarts == SrpInit => LeaseInv
BY NumbersFit DEF SrpInit, LeaseInv, SrpTypeOK, MissingIsKnown, HostOnce,
   WaitIsShort, TaskIsAhead

LEMMA HostRemovedKeeps == LeaseInv /\ HostRemoved => LeaseInv'
<1>. SUFFICES ASSUME LeaseInv, HostRemoved PROVE LeaseInv'
  OBVIOUS
<1>1. OnTime' => OnTime /\ svc' = "toAdd"
  BY Zenon DEF HostRemoved, OnTime, AddService
<1>. QED
  BY <1>1, NumbersFit DEF HostRemoved, AddService, LeaseInv,
     SrpTypeOK, MissingIsKnown, HostOnce,
     WaitIsShort, TaskIsAhead, Uncounted

LEMMA RegisteredKeeps == LeaseInv /\ Registered => LeaseInv'
<1>. SUFFICES ASSUME LeaseInv, Registered PROVE LeaseInv'
  OBVIOUS
<1>. USE NumbersFit DEF InitCount, LeaseCheckTaskInit, SrpTypeOK
<1>1. OnTime' => OnTime
  BY Zenon DEF Registered, OnTime
<1>2. SrpTypeOK'
  BY DEF Registered, LeaseInv
<1>3. SrpTypeOK /\ waited' = 0 /\ host # "toRemove" /\ host' = "registered"
  BY DEF Registered, LeaseInv
<1>4. ASSUME OnTime' PROVE MissingIsKnown' /\ HostOnce' /\ WaitIsShort'
  BY <1>1, <1>3, <1>4 DEF Registered, LeaseInv, MissingIsKnown, HostOnce, WaitIsShort
<1>5. ASSUME OnTime' PROVE TaskIsAhead'
  <2>1. MissingIsKnown /\ WaitIsShort /\ TaskIsAhead
    BY <1>1, <1>5 DEF LeaseInv
  <2>2. CASE svc = "absent"
    <3>1. /\ task = "add" /\ task' = "add" /\ svc' = "absent"
          /\ UNCHANGED <<left, count>>
      BY <1>3, <2>1, <2>2 DEF Registered, MissingIsKnown
    <3>. QED
      BY <2>1, <3>1 DEF TaskIsAhead
  <2>3. CASE svc # "absent"
    <3>1. svc' = "registered" /\ left' = LeaseInterval
      BY <1>3, <2>3 DEF Registered
    <3>2. CASE task = "none" /\ task' = "check" /\ count' = LeaseInterval + 1
      BY <3>1, <3>2 DEF TaskIsAhead, Uncounted
    <3>3. CASE task' = task /\ count' = count
      BY <1>3, <2>1, <2>3, <3>1, <3>3 DEF TaskIsAhead, Uncounted
    <3>. QED
      BY <3>2, <3>3 DEF Registered
  <2>. QED
    BY <2>2, <2>3
<1>. QED
  BY <1>2, <1>4, <1>5 DEF LeaseInv

LEMMA UpdateKeeps == LeaseInv /\ UpdateHostAddress => LeaseInv'
<1>. SUFFICES ASSUME LeaseInv, UpdateHostAddress PROVE LeaseInv'
  OBVIOUS
<1>1. OnTime' => OnTime
  BY Zenon DEF UpdateHostAddress, OnTime
<1>. QED
  BY <1>1, NumbersFit DEF UpdateHostAddress, LeaseInv,
     SrpTypeOK, MissingIsKnown, HostOnce,
     WaitIsShort, TaskIsAhead, Uncounted

LEMMA CheckKeeps == LeaseInv /\ LeaseCheck => LeaseInv'
<1>. SUFFICES ASSUME LeaseInv, LeaseCheck PROVE LeaseInv'
  OBVIOUS
<1>1. OnTime' => OnTime
  BY Zenon DEF LeaseCheck, OnTime
<1>. QED
  BY <1>1, NumbersFit DEF LeaseCheck, CheckExpiry, LeaseInv,
     SrpTypeOK, MissingIsKnown, HostOnce,
     WaitIsShort, TaskIsAhead, Uncounted

LEMMA ClearKeeps == LeaseInv /\ ClearService => LeaseInv'
<1>. SUFFICES ASSUME LeaseInv, ClearService PROVE LeaseInv'
  OBVIOUS
<1>1. OnTime' => OnTime
  BY Zenon DEF ClearService, OnTime
<1>. QED
  BY <1>1, NumbersFit DEF ClearService, InitCount, LeaseInv,
     SrpTypeOK, MissingIsKnown, HostOnce,
     WaitIsShort, TaskIsAhead, Uncounted

LEMMA AddKeeps == LeaseInv /\ AddAgain => LeaseInv'
<1>. SUFFICES ASSUME LeaseInv, AddAgain PROVE LeaseInv'
  OBVIOUS
<1>1. OnTime' => OnTime /\ svc' = "toAdd"
  BY Zenon DEF AddAgain, OnTime, AddService
<1>. QED
  BY <1>1, NumbersFit DEF AddAgain, AddService, InitCount, LeaseInv,
     SrpTypeOK, MissingIsKnown, HostOnce,
     WaitIsShort, TaskIsAhead, Uncounted

LEMMA TickKeeps == LeaseInv /\ SrpTick => LeaseInv'
<1>. SUFFICES ASSUME LeaseInv, SrpTick PROVE LeaseInv'
  OBVIOUS
<1>1. OnTime' => OnTime /\ ~(waited' > Patience)
  BY Zenon DEF SrpTick, OnTime
<1>. QED
  BY <1>1, NumbersFit DEF SrpTick, Owed, LeaseInv,
     SrpTypeOK, MissingIsKnown, HostOnce,
     WaitIsShort, TaskIsAhead, Uncounted

(* While the server answers in time and the client takes the service back,  *)
(* the lease is never over, for any interval and guard with room for an     *)
(* answer.                                                                  *)
THEOREM LeaseIsHeld == SrpSpec => []LeaseHeld
<1>1. LeaseInv => LeaseHeld
  <2>. SUFFICES ASSUME LeaseInv, task # "none", OnTime PROVE left > 0
    BY Zenon DEF LeaseHeld, OnTime
  <2>. QED
    BY NumbersFit DEF LeaseInv, SrpTypeOK, MissingIsKnown, HostOnce, WaitIsShort,
       TaskIsAhead, Uncounted
<1>2. LeaseInv /\ [SrpNext]_srpVars => LeaseInv'
  <2>1. LeaseInv /\ UNCHANGED srpVars => LeaseInv'
    <3>0. UNCHANGED srpVars => late' = late /\ refused' = refused
      BY Zenon DEF srpVars
    <3>1. UNCHANGED srpVars /\ OnTime' => OnTime
      BY <3>0, Zenon DEF OnTime
    <3>. QED
      BY <3>1 DEF srpVars, LeaseInv, SrpTypeOK, MissingIsKnown, HostOnce,
         WaitIsShort, TaskIsAhead, Uncounted
  <2>. QED
    BY <2>1, HostRemovedKeeps, RegisteredKeeps, UpdateKeeps, CheckKeeps, ClearKeeps,
       AddKeeps, TickKeeps DEF SrpNext
<1>. QED
  BY <1>1, <1>2, LeaseStarts, PTL DEF SrpSpec

------------------------------------------------------------------------------
(* No press is counted twice, whatever the timers are and however the       *)
(* contact bounces.                                                         *)
ClicksTypeOK ==
    /\ pin \in BOOLEAN
    /\ btnState \in {"IDLE", "DEBOUNCE", "DECIDE", "ONECLICK", "DOUBLECLICK", "LONGPRESS"}
    /\ CoundClick \in 0..2
    /\ releases \in 0..3

\* What CoundClick has counted the user has released; a press that is being
\* decided is released once more before it counts.
Counted ==
    /\ CoundClick <= releases
    /\ btnState \in {"DEBOUNCE", "DECIDE", "LONGPRESS"} => CoundClick <= 1
    /\ btnState = "DECIDE" /\ ~pin => CoundClick + 1 <= releases
    /\ btnState = "ONECLICK" => CoundClick = 1
    /\ btnState = "DOUBLECLICK" => CoundClick = 2

CountInv == ClicksTypeOK /\ Counted

LEMMA StartsUncounted == ClicksInit => CountInv
<1>. SUFFICES ASSUME ClicksInit PROVE CountInv
  OBVIOUS
<1>1. pin \in BOOLEAN
  BY Zenon DEF ClicksInit
<1>2. btnState = "IDLE" /\ CoundClick = 0 /\ releases = 0
  BY DEF ClicksInit
<1>. QED
  BY <1>1, <1>2 DEF CountInv, ClicksTypeOK, Counted

LEMMA TouchKeeps == CountInv /\ Touch => CountInv'
BY DEF CountInv, ClicksTypeOK, Counted, Touch

(* A poll in each state.                                                    *)
LEMMA IdleKeeps ==
    ASSUME CountInv, btnState = "IDLE", UNCHANGED pin, NEW now, Idle(now)
    PROVE  CountInv'
<1>. DEFINE time == IF pin THEN 0 ELSE now
<1>1. /\ btnState' = IF CoundClick = 2 THEN "DOUBLECLICK"
                     ELSE IF CoundClick = 1 /\ time > TimerDoubleClick THEN "ONECLICK"
                     ELSE IF pin THEN "DEBOUNCE" ELSE "IDLE"
      /\ UNCHANGED <<releases, CoundClick, pin>>
  BY DEF Idle, Goes, Silent
<1>. HIDE DEF time
<1>. QED
  BY <1>1 DEF CountInv, ClicksTypeOK, Counted

LEMMA DebounceKeeps ==
    ASSUME CountInv, btnState = "DEBOUNCE", UNCHANGED pin, NEW now, Debounce(now)
    PROVE  CountInv'
<1>1. /\ \/ btnState' = "DEBOUNCE"
         \/ btnState' = "DECIDE" /\ pin
         \/ btnState' = "IDLE"
      /\ UNCHANGED <<releases, CoundClick, pin>>
  BY DEF Debounce, Goes, Silent
<1>. QED
  BY <1>1 DEF CountInv, ClicksTypeOK, Counted

LEMMA DecideKeeps ==
    ASSUME CountInv, btnState = "DECIDE", UNCHANGED pin, NEW now, Decide(now)
    PROVE  CountInv'
<1>1. /\ \/ pin /\ btnState' \in {"LONGPRESS", "DECIDE"} /\ UNCHANGED CoundClick
         \/ ~pin /\ btnState' = "IDLE" /\ CoundClick' = CoundClick + 1
      /\ UNCHANGED <<releases, pin>>
  BY DEF Decide, Goes, Silent
<1>. QED
  BY <1>1 DEF CountInv, ClicksTypeOK, Counted

LEMMA LongPressKeeps ==
    ASSUME CountInv, btnState = "LONGPRESS", UNCHANGED pin, NEW now, LongPress(now)
    PROVE  CountInv' /\ report' \notin {"OneClick", "DoubleClick"}
<1>1. /\ btnState' \in {"LONGPRESS", "IDLE"} /\ UNCHANGED <<CoundClick, releases, pin>>
      /\ report' \in {"LongPressStop", "LongPressStart", "none"}
  BY DEF LongPress, Goes
<1>. QED
  BY <1>1 DEF CountInv, ClicksTypeOK, Counted

LEMMA ReportKeeps ==
    ASSUME CountInv, UNCHANGED pin, NEW click, NEW now, Reports(click, now)
    PROVE  CountInv'
BY DEF CountInv, ClicksTypeOK, Counted, Reports, Goes

(* One step: the counts stay right, and a click it reports was released as  *)
(* often as it says.                                                        *)
LEMMA StepCounts ==
    ASSUME CountInv, [ClicksNext]_clickVars
    PROVE  /\ CountInv'
           /\ report' # report =>
                 /\ report' = "OneClick" => releases >= 1
                 /\ report' = "DoubleClick" => releases >= 2
<1>1. CASE Touch
  BY <1>1, TouchKeeps DEF Touch
<1>2. CASE UNCHANGED clickVars
  BY <1>2 DEF clickVars, CountInv, ClicksTypeOK, Counted
<1>3. CASE Poll
  <2>1. PICK now : /\ UNCHANGED pin
                   /\ \/ btnState = "IDLE" /\ Idle(now)
                      \/ btnState = "DEBOUNCE" /\ Debounce(now)
                      \/ btnState = "DECIDE" /\ Decide(now)
                      \/ btnState = "ONECLICK" /\ Reports("OneClick", now)
                      \/ btnState = "DOUBLECLICK" /\ Reports("DoubleClick", now)
                      \/ btnState = "LONGPRESS" /\ LongPress(now)
    BY <1>3, Zenon DEF Poll
  <2>2. CASE btnState = "IDLE" /\ Idle(now)
    BY <2>1, <2>2, IdleKeeps DEF Idle, Silent
  <2>3. CASE btnState = "DEBOUNCE" /\ Debounce(now)
    BY <2>1, <2>3, DebounceKeeps DEF Debounce, Silent
  <2>4. CASE btnState = "DECIDE" /\ Decide(now)
    BY <2>1, <2>4, DecideKeeps DEF Decide, Silent
  <2>5. CASE btnState = "ONECLICK" /\ Reports("OneClick", now)
    <3>1. releases >= 1
      BY <2>5 DEF CountInv, ClicksTypeOK, Counted
    <3>. QED
      BY <2>1, <2>5, <3>1, ReportKeeps DEF Reports
  <2>6. CASE btnState = "DOUBLECLICK" /\ Reports("DoubleClick", now)
    <3>1. releases >= 2
      BY <2>6 DEF CountInv, ClicksTypeOK, Counted
    <3>. QED
      BY <2>1, <2>6, <3>1, ReportKeeps DEF Reports
  <2>7. CASE btnState = "LONGPRESS" /\ LongPress(now)
    BY <2>1, <2>7, LongPressKeeps
  <2>. QED
    BY <2>1, <2>2, <2>3, <2>4, <2>5, <2>6, <2>7
<1>. QED
  BY <1>1, <1>2, <1>3 DEF ClicksNext

(* A click is reported once for a release of its own, a double click for    *)
(* two, whatever the timers.                                                *)
THEOREM ClicksAreReleases == ClicksSpec => ClicksCounted
<1>1. CountInv /\ [ClicksNext]_clickVars => CountInv'
  BY StepCounts
<1>2. CountInv /\ [ClicksNext]_clickVars =>
        [report' # report => /\ report' = "OneClick" => releases >= 1
                             /\ report' = "DoubleClick" => releases >= 2]_clickVars
  BY StepCounts
<1>. QED
  BY <1>1, <1>2, StartsUncounted, PTL DEF ClicksSpec, ClicksCounted

------------------------------------------------------------------------------
(* The dimmer, for any table of bytes in order.                             *)
SweepInv == bright \in 0..DimControl.max /\ rising \in BOOLEAN

LEMMA TableFits ==
    /\ DimControl.min \in Nat /\ DimControl.max \in 0..255
    /\ \A l \in DimControl.min..DimControl.max : getStep(DimControl, l) <= l
    /\ \E step \in Range(DimControl.steps) : DimControl.min <= step + 1
<1>1. /\ DimControl.min \in Nat /\ DimControl.max \in Nat
      /\ \A l \in DimControl.min..DimControl.max : getStep(DimControl, l) <= l
      /\ \E step \in Range(DimControl.steps) : DimControl.min <= step + 1
  BY SweepTable, Zenon DEF IsDimTable, IsGentle
<1>2. DimControl.max <= 255
  BY SweepTable, Zenon DEF IsGentle
<1>3. DimControl.max \in 0..255
  BY <1>1, <1>2
<1> QED
  BY <1>1, <1>3, Zenon

\* The table has a step for every level.
LEMMA StepIsOfTable ==
    ASSUME NEW l \in 0..DimControl.max
    PROVE  getStep(DimControl, l) \in Range(DimControl.steps) \cap Nat
<1> DEFINE reached == {i \in DOMAIN DimControl.thresh : l % 256 <= DimControl.thresh[i]}
<1>0. l % 256 = l
  BY TableFits
<1>1. /\ DimControl.max \in Nat
      /\ DimControl.thresh \in Seq(0..DimControl.max)
      /\ DimControl.steps \in Seq(1..DimControl.max)
      /\ Len(DimControl.thresh) = Len(DimControl.steps) /\ Len(DimControl.thresh) > 0
      /\ DimControl.thresh[Len(DimControl.thresh)] = DimControl.max
  BY SweepTable, Zenon DEF IsDimTable
<1>2. reached \in SUBSET Nat /\ Len(DimControl.thresh) \in reached
  BY <1>0, <1>1
<1>3. Min(reached) \in reached
  BY <1>2, MinIsIn
<1>4. Min(reached) \in DOMAIN DimControl.steps
  BY <1>1, <1>3
<1>5. getStep(DimControl, l) = DimControl.steps[Min(reached)]
  BY <1>2 DEF getStep
<1>6. getStep(DimControl, l) \in Nat
  BY <1>1, <1>4, <1>5
<1>7. getStep(DimControl, l) \in Range(DimControl.steps)
  BY <1>4, <1>5 DEF Range
<1> QED
  BY <1>6, <1>7

\* Down it goes by the step or, below the darkest level, out; up, by the step or
\* by less, at the top.
LEMMA TickStaysNear ==
    ASSUME SweepInv, HoldTick
    PROVE  /\ SweepInv'
           /\ \E step \in Range(DimControl.steps) \cap Nat :
                bright' - bright <= step /\ bright - bright' <= step
<1> DEFINE step == getStep(DimControl, bright)
<1>1. /\ bright \in 0..DimControl.max /\ rising \in BOOLEAN
      /\ DimControl.min \in Nat /\ DimControl.max \in 0..255
      /\ step \in Range(DimControl.steps) \cap Nat
      /\ bright >= DimControl.min => step <= bright
  BY TableFits, StepIsOfTable DEF SweepInv
<1>2. PICK most \in Range(DimControl.steps) : DimControl.min <= most + 1
  BY TableFits
<1>3. most \in Nat
  BY <1>2, SweepTable DEF IsDimTable, Range
<1> HIDE DEF step
<1>4. CASE rising /\ bright + step > DimControl.max
  <2>1. bright' = DimControl.max % 256 /\ rising' = FALSE
    BY <1>4 DEF HoldTick, GetNewValue, step
  <2>2. DimControl.max % 256 = DimControl.max
    BY <1>1
  <2>3. bright' - bright <= step /\ bright - bright' <= step
    BY <1>1, <1>4, <2>1, <2>2
  <2>4. bright' \in 0..DimControl.max
    BY <1>1, <2>1, <2>2
  <2>5. rising' \in BOOLEAN
    BY <2>1
  <2> QED
    BY <1>1, <2>3, <2>4, <2>5 DEF SweepInv
<1>5. CASE rising /\ ~(bright + step > DimControl.max)
  <2>1. bright' = (bright + step) % 256 /\ rising' = rising
    BY <1>5 DEF HoldTick, GetNewValue, step
  <2>2. bright + step \in 0..DimControl.max
    BY <1>1, <1>5
  <2>3. (bright + step) % 256 = bright + step
    BY <1>1, <2>2
  <2>4. bright' - bright <= step /\ bright - bright' <= step
    BY <1>1, <2>1, <2>3
  <2> QED
    BY <1>1, <2>1, <2>2, <2>3, <2>4 DEF SweepInv
<1>6. CASE ~rising /\ bright < DimControl.min
  <2>1. bright' = 0 % 256 /\ rising' = TRUE
    BY <1>6 DEF HoldTick, GetNewValue
  <2> QED
    BY <1>1, <1>2, <1>3, <1>6, <2>1 DEF SweepInv
<1>7. CASE ~rising /\ ~(bright < DimControl.min)
  <2>1. bright' = (bright - step) % 256 /\ rising' = rising
    BY <1>7 DEF HoldTick, GetNewValue, step
  <2>2. (bright - step) % 256 = bright - step
    BY <1>1, <1>7
  <2>3. bright - step \in 0..DimControl.max
    BY <1>1, <1>7
  <2>4. bright' - bright <= step /\ bright - bright' <= step
    BY <1>1, <1>7, <2>1, <2>2
  <2> QED
    BY <1>1, <2>1, <2>2, <2>3, <2>4 DEF SweepInv
<1> QED
  BY <1>1, <1>4, <1>5, <1>6, <1>7

(* A held button never makes the light flash, from whatever level the light *)
(* reported: one tick changes the brightness by a step of the table at most,*)
(* also at both ends, where the byte would wrap.                            *)
THEOREM HeldButtonIsGentle == SweepSpec => NoFlash
<1>1. SweepInit => SweepInv
  BY TableFits DEF SweepInit, SweepInv
<1>2. SweepInv /\ [SweepNext]_sweepVars => SweepInv'
  BY TickStaysNear DEF SweepNext, Reported, SweepInv, sweepVars
<1>3. SweepInv /\ HoldTick =>
        \E step \in Range(DimControl.steps) : Max({bright', bright}) - Min({bright', bright}) <= step
  <2>1. ASSUME NEW x \in Int, NEW y \in Int
        PROVE  (Max({x, y}) = x /\ Min({x, y}) = y) \/ (Max({x, y}) = y /\ Min({x, y}) = x)
    BY DEF Max, Min
  <2> QED
    BY <2>1, TickStaysNear, TableFits DEF SweepInv
<1> QED
  BY <1>1, <1>2, <1>3, PTL DEF SweepSpec, NoFlash

------------------------------------------------------------------------------
(* The messages.  A message is followed block by block: its used bytes    *)
(* are a sum, and a block lies within them.                                 *)
Values == BOOLEAN \cup DevTypes \cup Nat
Block == [key : Nat, length : Nat, value : Values]

(* A sum over a sequence of lengths, as a fold makes it: the sum over a    *)
(* set of positions, the largest last.                                     *)
SumOn(f, base, w, n) ==
  f = [s \in SUBSET (1 .. n) |->
          IF s = {} THEN base ELSE f[s \ {Max(s)}] + Header + w[Max(s)]]

LEMMA SumExists ==
  ASSUME NEW n \in Nat, NEW base \in Nat, NEW w \in [1 .. n -> Nat]
  PROVE  \E f : SumOn(f, base, w, n)
<1> DEFINE step == [i \in 1 .. n |-> [t \in Nat |-> t + Header + w[i]]]
<1>1. step \in [1 .. n -> [Nat -> Nat]]
  BY DEF Header
<1>2. PICK e : FoldOn(e, base, step, Nat, n)
  <2> HIDE DEF step
  <2>. QED
    BY <1>1, FoldExists
<1>3. e \in [SUBSET (1 .. n) -> Nat]
  BY <1>2 DEF FoldOn
<1>4. ASSUME NEW s \in SUBSET (1 .. n), s # {}
      PROVE  e[s] = e[s \ {Max(s)}] + Header + w[Max(s)]
  <2>1. Max(s) \in 1 .. n /\ s \ {Max(s)} \in SUBSET (1 .. n)
    BY <1>4, MaxIsIn
  <2>2. e[s \ {Max(s)}] \in Nat
    BY <1>3, <2>1
  <2>3. e[s] = step[Max(s)][e[s \ {Max(s)}]]
    BY <1>2, <1>4 DEF FoldOn
  <2>. QED
    BY <2>1, <2>2, <2>3
<1>5. e[{}] = base
  BY <1>2 DEF FoldOn
<1>. QED
  BY <1>3, <1>4, <1>5 DEF SumOn

(* Followed position by position. *)
LEMMA SumRuns ==
  ASSUME NEW n \in Nat, NEW base \in Nat, NEW w \in [1 .. n -> Nat], NEW f,
         SumOn(f, base, w, n)
  PROVE  \E g : /\ f[1 .. n] = g[n]
                /\ g[0] = base
                /\ \A i \in 0 .. n : g[i] \in Nat
                /\ \A i \in 1 .. n : g[i] = g[i - 1] + Header + w[i]
<1> DEFINE g == [i \in 0 .. n |-> f[1 .. i]]
           S == {i \in 0 .. n : g[i] \in Nat}
<1>1. ASSUME NEW i \in 1 .. n
      PROVE  g[i] = g[i - 1] + Header + w[i]
  <2>1. Max(1 .. i) = i /\ (1 .. i) \ {i} = 1 .. (i - 1)
    BY MaxOfFirst
  <2>2. 1 .. i \in SUBSET (1 .. n) /\ 1 .. i # {}
    OBVIOUS
  <2>3. f[1 .. i] = f[(1 .. i) \ {Max(1 .. i)}] + Header + w[Max(1 .. i)]
    BY <2>2 DEF SumOn
  <2>4. g[i] = f[1 .. i] /\ g[i - 1] = f[1 .. (i - 1)]
    OBVIOUS
  <2> HIDE DEF g
  <2>5. f[1 .. i] = f[1 .. (i - 1)] + Header + w[i]
    BY <2>1, <2>3
  <2>. QED
    BY <2>4, <2>5
<1>2. g[0] = base
  <2>1. 1 .. 0 = {} /\ {} \in SUBSET (1 .. n)
    OBVIOUS
  <2>2. f[{}] = base
    BY <2>1 DEF SumOn
  <2>. QED
    BY <2>1, <2>2
<1>3. g[n] = f[1 .. n]
  OBVIOUS
<1> HIDE DEF g
<1>4. ASSUME NEW i \in 1 .. n, i - 1 \in S PROVE i \in S
  <2>1. g[i - 1] \in Nat /\ w[i] \in Nat /\ i \in 0 .. n
    BY <1>4
  <2>. QED
    BY <1>1, <2>1 DEF Header
<1>5. 0 \in S
  BY <1>2
<1> HIDE DEF S
<1>6. \A i \in 0 .. n : i \in S
  BY <1>4, <1>5, UpTo
<1>7. \A i \in 0 .. n : g[i] \in Nat
  BY <1>6 DEF S
<1>. QED
  BY <1>1, <1>2, <1>3, <1>7

(* The used bytes, block by block. *)
LEMMA UsedRuns ==
  ASSUME NEW msg \in Seq(Block)
  PROVE  \E g : /\ Used(msg) = g[Len(msg)]
                /\ g[0] = 0
                /\ \A i \in 0 .. Len(msg) : g[i] \in Nat
                /\ \A i \in 1 .. Len(msg) : g[i] = g[i - 1] + Header + msg[i].length
<1> DEFINE n == Len(msg)
           Is(f) == f = [s \in SUBSET DOMAIN msg |->
                            IF s = {} THEN 0
                            ELSE f[s \ {Max(s)}] + Header + msg[Max(s)].length]
           f == CHOOSE f : Is(f)
           w == [i \in 1 .. n |-> msg[i].length]
<1>1. n \in Nat /\ DOMAIN msg = 1 .. n
  OBVIOUS
<1>2. w \in [1 .. n -> Nat]
  <2>1. \A i \in 1 .. n : msg[i] \in Block
    OBVIOUS
  <2>. QED
    BY <2>1 DEF Block
<1>3. Used(msg) = f[1 .. n]
  BY <1>1 DEF Used, FoldLeft, MapThenFoldSet
<1> HIDE DEF n
<1>4. \A e : Is(e) <=> SumOn(e, 0, w, n)
  <2>1. \A s \in SUBSET (1 .. n) : s # {} => msg[Max(s)].length = w[Max(s)]
    BY <1>1, MaxIsIn
  <2> HIDE DEF w
  <2>. QED
    BY <1>1, <2>1 DEF SumOn
<1> HIDE DEF Is, w
<1>5. \E e : Is(e)
  BY <1>1, <1>2, <1>4, SumExists
<1>6. SumOn(f, 0, w, n)
  BY <1>4, <1>5
<1> HIDE DEF f
<1>7. PICK g : /\ f[1 .. n] = g[n]
               /\ g[0] = 0
               /\ \A i \in 0 .. n : g[i] \in Nat
               /\ \A i \in 1 .. n : g[i] = g[i - 1] + Header + w[i]
  <2>1. 0 \in Nat
    OBVIOUS
  <2>2. \A e : SumOn(e, 0, w, n) =>
           \E g : /\ e[1 .. n] = g[n]
                  /\ g[0] = 0
                  /\ \A i \in 0 .. n : g[i] \in Nat
                  /\ \A i \in 1 .. n : g[i] = g[i - 1] + Header + w[i]
    BY <1>1, <1>2, <2>1, SumRuns, Zenon
  <2>. QED
    BY <1>6, <2>2, Zenon
<1>8. \A i \in 1 .. n : w[i] = msg[i].length
  BY DEF w
<1>9. \A i \in 1 .. n : g[i] = g[i - 1] + Header + msg[i].length
  BY <1>7, <1>8
<1>10. n = Len(msg)
  BY DEF n
<1>. QED
  BY <1>3, <1>7, <1>9, <1>10, Zenon

(* The calculated size, value by value. *)
LEMMA CalcRuns ==
  ASSUME NEW lengths \in Seq(Nat)
  PROVE  \E g : /\ calcualeBuffer(lengths) = g[Len(lengths)]
                /\ g[0] = Reserved
                /\ \A i \in 0 .. Len(lengths) : g[i] \in Nat
                /\ \A i \in 1 .. Len(lengths) : g[i] = g[i - 1] + Header + lengths[i]
<1> DEFINE n == Len(lengths)
           f == CHOOSE f : SumOn(f, Reserved, lengths, n)
<1>1. n \in Nat /\ DOMAIN lengths = 1 .. n /\ lengths \in [1 .. n -> Nat] /\ Reserved \in Nat
  BY DEF Reserved
<1>2. calcualeBuffer(lengths) = f[1 .. n]
  BY <1>1 DEF calcualeBuffer, FoldLeft, MapThenFoldSet, SumOn
<1> HIDE DEF n
<1>3. SumOn(f, Reserved, lengths, n)
  BY <1>1, SumExists
<1> HIDE DEF f
<1>4. PICK g : /\ f[1 .. n] = g[n]
               /\ g[0] = Reserved
               /\ \A i \in 0 .. n : g[i] \in Nat
               /\ \A i \in 1 .. n : g[i] = g[i - 1] + Header + lengths[i]
  <2>1. \A e : SumOn(e, Reserved, lengths, n) =>
           \E g : /\ e[1 .. n] = g[n]
                  /\ g[0] = Reserved
                  /\ \A i \in 0 .. n : g[i] \in Nat
                  /\ \A i \in 1 .. n : g[i] = g[i - 1] + Header + lengths[i]
    BY <1>1, SumRuns, Zenon
  <2>. QED
    BY <1>3, <2>1, Zenon
<1>5. n = Len(lengths)
  BY DEF n
<1>. QED
  BY <1>2, <1>4, <1>5, Zenon

LEMMA UsedOfAppend ==
  ASSUME NEW msg \in Seq(Block), NEW b \in Block
  PROVE  Used(Append(msg, b)) = Used(msg) + Header + b.length
<1> DEFINE n == Len(msg)
           long == Append(msg, b)
<1>1. /\ n \in Nat /\ long \in Seq(Block) /\ Len(long) = n + 1 /\ long[n + 1] = b
      /\ \A i \in 1 .. n : long[i] = msg[i]
  OBVIOUS
<1>2. PICK g : /\ Used(msg) = g[Len(msg)]
               /\ g[0] = 0
               /\ \A i \in 0 .. Len(msg) : g[i] \in Nat
               /\ \A i \in 1 .. Len(msg) : g[i] = g[i - 1] + Header + msg[i].length
  BY UsedRuns
<1>3. PICK h : /\ Used(long) = h[Len(long)]
               /\ h[0] = 0
               /\ \A i \in 0 .. Len(long) : h[i] \in Nat
               /\ \A i \in 1 .. Len(long) : h[i] = h[i - 1] + Header + long[i].length
  BY <1>1, UsedRuns
<1> HIDE DEF n, long
<1>5. \A i \in 1 .. n : g[i - 1] = h[i - 1] => g[i] = h[i]
  <2> SUFFICES ASSUME NEW i \in 1 .. n, g[i - 1] = h[i - 1]
               PROVE  g[i] = h[i]
    OBVIOUS
  <2>1. i \in 1 .. Len(long) /\ long[i].length = msg[i].length
    BY <1>1
  <2>. QED
    BY <1>2, <1>3, <2>1 DEF n
<1> DEFINE S == {i \in 0 .. n : g[i] = h[i]}
<1>6. \A i \in 0 .. n : g[i] = h[i]
  <2>1. n \in Nat /\ 0 \in S /\ \A i \in 1 .. n : i - 1 \in S => i \in S
    BY <1>1, <1>2, <1>3, <1>5
  <2> HIDE DEF S
  <2>2. \A i \in 0 .. n : i \in S
    BY <2>1, UpTo
  <2>. QED
    BY <2>2 DEF S
<1>7. n + 1 \in 1 .. Len(long) /\ (n + 1) - 1 = n /\ n \in 0 .. n
  BY <1>1
<1>8. h[n + 1] = h[n] + Header + b.length
  BY <1>1, <1>3, <1>7
<1>9. Used(long) = h[n + 1] /\ Used(msg) = g[n]
  BY <1>1, <1>2, <1>3 DEF n
<1>. QED
  BY <1>6, <1>7, <1>8, <1>9 DEF long

LEMMA UsedIsNat ==
  ASSUME NEW msg \in Seq(Block)
  PROVE  Used(msg) \in Nat
<1>1. Len(msg) \in 0 .. Len(msg)
  OBVIOUS
<1>. QED
  BY <1>1, UsedRuns

LEMMA UsedOfEmpty == Used(<< >>) = 0
<1>1. << >> \in Seq(Block) /\ Len(<< >>) = 0
  OBVIOUS
<1>2. PICK g : /\ Used(<< >>) = g[Len(<< >>)]
               /\ g[0] = 0
               /\ \A i \in 0 .. Len(<< >>) : g[i] \in Nat
               /\ \A i \in 1 .. Len(<< >>) : g[i] = g[i - 1] + Header + << >>[i].length
  BY <1>1, UsedRuns
<1>. QED
  BY <1>1, <1>2

(* A block lies within the used bytes. *)
LEMMA BlocksAreInside ==
  ASSUME NEW msg \in Seq(Block), NEW i \in 1 .. Len(msg)
  PROVE  /\ Used(SubSeq(msg, 1, i - 1)) \in Nat
         /\ Used(SubSeq(msg, 1, i - 1)) + Header + msg[i].length <= Used(msg)
<1> DEFINE n == Len(msg)
           P(k) == Used(SubSeq(msg, 1, k))
<1>1. n \in Nat /\ i \in Nat /\ i \in 1 .. n
  OBVIOUS
<1>2. \A k \in 0 .. n : P(k) \in Nat
  <2>1. \A k \in 0 .. n : SubSeq(msg, 1, k) \in Seq(Block)
    OBVIOUS
  <2>. QED
    BY <2>1, UsedIsNat
<1>3. ASSUME NEW k \in 1 .. n
      PROVE  P(k) = P(k - 1) + Header + msg[k].length /\ msg[k].length \in Nat
  <2>1. /\ SubSeq(msg, 1, k - 1) \in Seq(Block) /\ msg[k] \in Block
        /\ SubSeq(msg, 1, k) = Append(SubSeq(msg, 1, k - 1), msg[k])
    OBVIOUS
  <2>2. msg[k].length \in Nat
    BY <2>1 DEF Block
  <2>. QED
    BY <2>1, <2>2, UsedOfAppend
<1>4. SubSeq(msg, 1, n) = msg
  OBVIOUS
<1> HIDE DEF n, P
<1> DEFINE S == {k \in 0 .. n : k >= i => P(k) >= P(i)}
<1>5. \A k \in 0 .. n : k \in S
  <2>1. 0 \in S
    BY <1>1
  <2>2. ASSUME NEW k \in 1 .. n, k - 1 \in S PROVE k \in S
    <3>1. P(k) = P(k - 1) + Header + msg[k].length /\ msg[k].length \in Nat
      BY <1>3
    <3>2. P(k - 1) \in Nat /\ P(i) \in Nat /\ P(k) \in Nat
      BY <1>1, <1>2
    <3>3. k - 1 >= i => P(k - 1) >= P(i)
      BY <2>2
    <3>4. k \in Nat /\ k \in 0 .. n
      OBVIOUS
    <3>. QED
      BY <1>1, <3>1, <3>2, <3>3, <3>4 DEF Header
  <2> HIDE DEF S
  <2>. QED
    BY <1>1, <2>1, <2>2, UpTo
<1>6. n \in i .. n /\ n \in 0 .. n /\ i \in 0 .. n /\ i - 1 \in 0 .. n
  BY <1>1
<1>7. P(n) >= P(i) /\ P(n) \in Nat /\ P(i) \in Nat /\ P(i - 1) \in Nat
  BY <1>2, <1>5, <1>6
<1>8. P(i) = P(i - 1) + Header + msg[i].length
  BY <1>1, <1>3
<1>9. P(n) = Used(msg) /\ P(i - 1) = Used(SubSeq(msg, 1, i - 1))
  BY <1>4 DEF P
<1>. QED
  BY <1>7, <1>8, <1>9

(* The search stops at the first block that has the key. *)
LEMMA FoundIs ==
  ASSUME NEW msg \in Seq(Block), NEW key
  PROVE  /\ Found(msg, key) \in 0 .. Len(msg)
         /\ Found(msg, key) = 0 => \A i \in 1 .. Len(msg) : msg[i].key # key
         /\ Found(msg, key) # 0 =>
               /\ msg[Found(msg, key)].key = key
               /\ \A i \in 1 .. Len(msg) : msg[i].key = key => Found(msg, key) <= i
<1> DEFINE n == Len(msg)
           Hit(i) == /\ msg[i].key = key
                     /\ Used(SubSeq(msg, 1, i - 1)) + Header <= Used(msg)
           H == [i \in DOMAIN msg |-> Hit(i)]
           I == {i \in 1 .. Len(H) : H[i]}
           K == {i \in 1 .. n : msg[i].key = key}
<1>1. n \in Nat /\ DOMAIN msg = 1 .. n
  OBVIOUS
<1>2. Found(msg, key) = IF I # {} THEN Min(I) ELSE 0
  BY Zenon DEF Found, SelectInSeq
<1>3. ASSUME NEW i \in 1 .. n
      PROVE  Hit(i) <=> msg[i].key = key
  <2>1. msg[i] \in Block /\ Used(msg) \in Nat
    BY UsedIsNat
  <2>2. /\ Used(SubSeq(msg, 1, i - 1)) \in Nat
        /\ Used(SubSeq(msg, 1, i - 1)) + Header + msg[i].length <= Used(msg)
    BY BlocksAreInside
  <2>. QED
    BY <2>1, <2>2 DEF Block, Header
<1>4. Len(H) = n /\ \A i \in 1 .. n : H[i] = Hit(i)
  <2> HIDE DEF Hit
  <2>1. DOMAIN H = 1 .. n
    BY <1>1
  <2>. QED
    BY <1>1, <2>1
<1> HIDE DEF H, Hit
<1>5. I = K
  BY <1>3, <1>4
<1> HIDE DEF I
<1>6. K \in SUBSET Nat
  BY <1>1
<1>7. CASE K = {}
  BY <1>1, <1>2, <1>5, <1>7
<1>8. CASE K # {}
  <2>1. Min(K) \in K /\ \A j \in K : Min(K) <= j
    BY <1>6, <1>8, MinIsIn
  <2>2. Found(msg, key) = Min(K)
    BY <1>2, <1>5, <1>8
  <2>. QED
    BY <1>1, <2>1, <2>2
<1>. QED
  BY <1>7, <1>8

(* What the reader of a message that is not too long gets for a key. *)
LEMMA KeyIsGot ==
  ASSUME NEW msg \in Seq(Block), NEW key, NEW s \in Int, NEW i \in 1 .. Len(msg),
         Used(msg) + Reserved <= s, Used(msg) > Header + 1,
         msg[i].key = key, \A j \in 1 .. i - 1 : msg[j].key # key
  PROVE  keyGet(s, msg, key) =
            [result |-> "exist", length |-> msg[i].length, value |-> msg[i].value]
<1>1. Found(msg, key) = i
  BY FoundIs
<1>2. /\ Used(SubSeq(msg, 1, i - 1)) \in Nat
      /\ Used(SubSeq(msg, 1, i - 1)) + Header + msg[i].length <= Used(msg)
  BY BlocksAreInside
<1>3. msg[i] \in Block /\ Used(msg) \in Nat
  BY UsedIsNat
<1>4. msg[i].length \in Nat
  BY <1>3 DEF Block
<1>5. /\ ~(s < Header + Reserved \/ Used(msg) > s - Reserved)
      /\ ~(Used(msg) < Header + Reserved) /\ i # 0
      /\ ~(Used(SubSeq(msg, 1, i - 1)) + Header + msg[i].length > s - Reserved)
  BY <1>2, <1>3, <1>4 DEF Header, Reserved
<1>. QED
  BY <1>1, <1>5, Zenon DEF keyGet

LEMMA GotIsThere ==
  ASSUME NEW msg \in Seq(Block), NEW key, NEW s,
         keyGet(s, msg, key).result = "exist"
  PROVE  \E i \in 1 .. Len(msg) :
            /\ msg[i].key = key
            /\ keyGet(s, msg, key).length = msg[i].length
            /\ keyGet(s, msg, key).value = msg[i].value
<1> DEFINE i == Found(msg, key)
<1>1. /\ i # 0
      /\ keyGet(s, msg, key) =
            [result |-> "exist", length |-> msg[i].length, value |-> msg[i].value]
  BY DEF keyGet
<1>2. i \in 1 .. Len(msg) /\ msg[i].key = key
  <2>1. i \in 0 .. Len(msg)
    BY FoundIs
  <2>2. msg[i].key = key
    BY <1>1, FoundIs
  <2>. QED
    BY <1>1, <2>1, <2>2
<1>. QED
  BY <1>1, <1>2

(* What is added comes last, and fits. *)
LEMMA AddedIsLast ==
  ASSUME NEW s \in Nat, NEW msg \in Seq(Block), NEW key \in Nat, NEW length \in Nat,
         NEW value \in Values
  PROVE  LET b == [key |-> key, length |-> length, value |-> value]
             next == WithKey(s, msg, key, length, value)
         IN /\ b \in Block /\ next \in Seq(Block)
            /\ keyAdd(s, msg, key, length, value) # "ok" => next = msg
            /\ keyAdd(s, msg, key, length, value) = "ok" =>
                  /\ length >= 1
                  /\ next = Append(msg, b)
                  /\ Used(next) = Used(msg) + Header + length
                  /\ Used(next) + Reserved <= s
<1> DEFINE b == [key |-> key, length |-> length, value |-> value]
<1>1. b \in Block /\ b.length = length
  BY DEF Block
<1>2. Append(msg, b) \in Seq(Block)
  BY <1>1
<1>3. Used(Append(msg, b)) = Used(msg) + Header + length
  BY <1>1, UsedOfAppend
<1>4. Used(msg) \in Nat
  BY UsedIsNat
<1>5. ASSUME keyAdd(s, msg, key, length, value) = "ok"
      PROVE  length >= 1 /\ Used(msg) + Header + length + Reserved <= s
  BY <1>4, <1>5 DEF keyAdd, Header, Reserved
<1>. QED
  BY <1>1, <1>2, <1>3, <1>4, <1>5 DEF WithKey, Header, Reserved

------------------------------------------------------------------------------
(* Keys added one by one: each added key has a first block, which has its  *)
(* value.                                                                  *)
FirstBlock(key) ==
  \E i \in 1 .. Len(blocks) :
      /\ blocks[i].key = key /\ blocks[i].value = added[key]
      /\ \A j \in 1 .. i - 1 : blocks[j].key # key

AddedInv ==
  offered = << >> =>
      /\ size \in Nat /\ blocks \in Seq(Block)
      /\ blocks # << >> => /\ Used(blocks) >= Header + 1
                           /\ Used(blocks) + Reserved <= size
      /\ \A i \in 1 .. Len(blocks) : blocks[i].key \in DOMAIN added
      /\ \A key \in DOMAIN added : FirstBlock(key)

LEMMA AddedStarts == TlvInit => AddedInv
<1>. SUFFICES ASSUME TlvInit PROVE AddedInv
  OBVIOUS
<1>1. size \in Nat
  BY TlvConstants DEF TlvInit
<1>2. DOMAIN added = {} /\ blocks = << >> /\ blocks \in Seq(Block) /\ Len(blocks) = 0
  BY DEF TlvInit
<1>. QED
  BY <1>1, <1>2 DEF AddedInv

LEMMA KeyAddKeeps ==
  ASSUME AddedInv, NEW key \in TlvKeys, NEW length \in TlvLens, NEW value \in BOOLEAN,
         Add(key, length, value)
  PROVE  AddedInv'
<1> DEFINE b == [key |-> key, length |-> length, value |-> value]
           n == Len(blocks)
<1>1. /\ offered = << >> /\ offered' = offered /\ size' = size
      /\ blocks' = WithKey(size, blocks, key, length, value)
      /\ added' = IF keyAdd(size, blocks, key, length, value) = "ok" /\ key \notin DOMAIN added
                  THEN [k \in DOMAIN added \cup {key} |->
                           IF k = key THEN value ELSE added[k]]
                  ELSE added
  BY DEF Add
<1>2. /\ size \in Nat /\ blocks \in Seq(Block)
      /\ blocks # << >> => /\ Used(blocks) >= Header + 1
                           /\ Used(blocks) + Reserved <= size
      /\ \A i \in 1 .. n : blocks[i].key \in DOMAIN added
      /\ \A k \in DOMAIN added : FirstBlock(k)
  BY <1>1 DEF AddedInv
<1>3. key \in Nat /\ length \in Nat /\ value \in Values
  BY TlvConstants DEF Values
<1>4. CASE keyAdd(size, blocks, key, length, value) # "ok"
  <2>1. blocks' = blocks /\ added' = added /\ offered' = offered /\ size' = size
    BY <1>1, <1>4 DEF WithKey
  <2>. QED
    BY <2>1 DEF AddedInv, FirstBlock
<1>5. CASE keyAdd(size, blocks, key, length, value) = "ok"
  <2>1. /\ b \in Block /\ length >= 1 /\ blocks' = Append(blocks, b)
        /\ Used(blocks') = Used(blocks) + Header + length
        /\ Used(blocks') + Reserved <= size
    BY <1>1, <1>2, <1>3, <1>5, AddedIsLast
  <2>2. Used(blocks) \in Nat
    BY <1>2, UsedIsNat
  <2>3. Used(blocks') >= Header + 1
    BY <1>3, <2>1, <2>2 DEF Header
  <2>4. /\ blocks' \in Seq(Block) /\ Len(blocks') = n + 1 /\ n \in Nat
        /\ \A i \in 1 .. n : blocks'[i] = blocks[i]
        /\ blocks'[n + 1] = b
    BY <1>2, <2>1
  <2> HIDE DEF n
  <2>5. /\ DOMAIN added' = DOMAIN added \cup {key}
        /\ \A k \in DOMAIN added : added'[k] = added[k]
        /\ key \notin DOMAIN added => added'[key] = value
    <3>1. CASE key \in DOMAIN added
      BY <1>1, <3>1
    <3>2. CASE key \notin DOMAIN added
      <4>1. added' = [k \in DOMAIN added \cup {key} |->
                           IF k = key THEN value ELSE added[k]]
        BY <1>1, <1>5, <3>2
      <4>. QED
        BY <3>2, <4>1
    <3>. QED
      BY <3>1, <3>2
  <2>6. \A i \in 1 .. Len(blocks') : blocks'[i].key \in DOMAIN added'
    <3> SUFFICES ASSUME NEW i \in 1 .. n + 1 PROVE blocks'[i].key \in DOMAIN added'
      BY <2>4
    <3>1. CASE i = n + 1
      BY <2>4, <2>5, <3>1
    <3>2. CASE i # n + 1
      <4>1. i \in 1 .. n
        BY <2>4, <3>2
      <4>. QED
        BY <1>2, <2>4, <2>5, <4>1
    <3>. QED
      BY <3>1, <3>2
  <2>7. \A k \in DOMAIN added' : FirstBlock(k)'
    <3> SUFFICES ASSUME NEW k \in DOMAIN added' PROVE FirstBlock(k)'
      OBVIOUS
    <3>1. CASE k \in DOMAIN added
      <4>1. PICK i \in 1 .. n : /\ blocks[i].key = k /\ blocks[i].value = added[k]
                                /\ \A j \in 1 .. i - 1 : blocks[j].key # k
        BY <1>2, <3>1 DEF FirstBlock, n
      <4>2. /\ i \in 1 .. Len(blocks') /\ blocks'[i] = blocks[i]
            /\ \A j \in 1 .. i - 1 : blocks'[j] = blocks[j]
        BY <2>4
      <4>3. added'[k] = added[k]
        BY <2>5, <3>1
      <4>. QED
        BY <4>1, <4>2, <4>3 DEF FirstBlock
    <3>2. CASE k \notin DOMAIN added
      <4>1. k = key /\ added'[k] = value
        BY <2>5, <3>2
      <4>2. \A j \in 1 .. n : blocks'[j].key # k
        BY <1>2, <2>4, <3>2
      <4>3. n + 1 \in 1 .. Len(blocks') /\ (n + 1) - 1 = n
        BY <2>4
      <4>4. blocks'[n + 1].key = k /\ blocks'[n + 1].value = added'[k]
        BY <2>4, <4>1
      <4>. QED
        BY <4>2, <4>3, <4>4 DEF FirstBlock
    <3>. QED
      BY <3>1, <3>2
  <2>. QED
    BY <1>1, <1>2, <2>1, <2>3, <2>4, <2>6, <2>7 DEF AddedInv
<1>. QED
  BY <1>4, <1>5

LEMMA AddedHolds == AddedInv => AddedIsFound
<1> SUFFICES ASSUME AddedInv, offered = << >>, NEW key \in DOMAIN added,
                    Used(blocks) # Header + 1
             PROVE  /\ keyGet(size, blocks, key).result = "exist"
                    /\ keyGet(size, blocks, key).value = added[key]
  BY DEF AddedIsFound
<1>1. PICK i \in 1 .. Len(blocks) :
          /\ blocks[i].key = key /\ blocks[i].value = added[key]
          /\ \A j \in 1 .. i - 1 : blocks[j].key # key
  BY DEF AddedInv, FirstBlock
<1>2. blocks \in Seq(Block) /\ size \in Int
  BY DEF AddedInv
<1>3. blocks # << >> /\ Used(blocks) \in Nat
  BY <1>1, <1>2, UsedIsNat
<1>4. Used(blocks) >= Header + 1 /\ Used(blocks) + Reserved <= size
  BY <1>3 DEF AddedInv
<1>5. Used(blocks) > Header + 1
  BY <1>3, <1>4 DEF Header
<1>6. keyGet(size, blocks, key) =
          [result |-> "exist", length |-> blocks[i].length, value |-> blocks[i].value]
  BY <1>1, <1>2, <1>4, <1>5, KeyIsGot
<1>. QED
  BY <1>1, <1>6

(* What was added to a message is found in it, whatever the keys, lengths  *)
(* and buffer (the keyAdd and keyGet of ot_app_msg_tlv.c).                 *)
THEOREM WhatIsAddedIsFound == TlvSpec => []AddedIsFound
<1>1. AddedInv /\ [TlvNext]_tlvVars => AddedInv'
  <2> SUFFICES ASSUME AddedInv, [TlvNext]_tlvVars PROVE AddedInv'
    OBVIOUS
  <2>1. ASSUME NEW key \in TlvKeys, NEW length \in TlvLens, NEW value \in BOOLEAN,
               Add(key, length, value)
        PROVE  AddedInv'
    BY <2>1, KeyAddKeeps
  <2>2. ASSUME NEW uris, NEW short, Exchange(uris, short)
        PROVE  AddedInv'
    BY <2>2 DEF Exchange, AddedInv
  <2>3. CASE UNCHANGED tlvVars
    BY <2>3 DEF tlvVars, AddedInv, FirstBlock
  <2>. QED
    BY <2>1, <2>2, <2>3 DEF TlvNext
<1>. QED
  BY <1>1, AddedStarts, AddedHolds, PTL DEF TlvSpec

------------------------------------------------------------------------------
(* The calculated size is that of a message of these lengths. *)
LEMMA CalcIsUsed ==
  ASSUME NEW lengths \in Seq(Nat), NEW msg \in Seq(Block), Len(lengths) = Len(msg),
         \A k \in 1 .. Len(msg) : lengths[k] = msg[k].length
  PROVE  calcualeBuffer(lengths) = Used(msg) + Reserved
<1> DEFINE n == Len(msg)
<1>1. PICK g : /\ calcualeBuffer(lengths) = g[n]
               /\ g[0] = Reserved
               /\ \A i \in 0 .. n : g[i] \in Nat
               /\ \A i \in 1 .. n : g[i] = g[i - 1] + Header + lengths[i]
  BY CalcRuns
<1>2. PICK h : /\ Used(msg) = h[n]
               /\ h[0] = 0
               /\ \A i \in 0 .. n : h[i] \in Nat
               /\ \A i \in 1 .. n : h[i] = h[i - 1] + Header + msg[i].length
  BY UsedRuns
<1>3. n \in Nat /\ \A i \in 1 .. n : lengths[i] \in Nat /\ lengths[i] = msg[i].length
  OBVIOUS
<1> HIDE DEF n
<1> DEFINE S == {i \in 0 .. n : g[i] = h[i] + Reserved}
<1>4. 0 \in S
  BY <1>1, <1>2, <1>3 DEF Reserved
<1>5. ASSUME NEW i \in 1 .. n, i - 1 \in S PROVE i \in S
  <2>1. i \in 0 .. n /\ i - 1 \in 0 .. n /\ g[i - 1] = h[i - 1] + Reserved
    BY <1>3, <1>5
  <2>2. g[i] = g[i - 1] + Header + lengths[i] /\ h[i] = h[i - 1] + Header + lengths[i]
    BY <1>1, <1>2, <1>3
  <2>3. h[i - 1] \in Nat /\ lengths[i] \in Nat
    BY <1>2, <1>3, <2>1
  <2>. QED
    BY <2>1, <2>2, <2>3 DEF Header, Reserved
<1> HIDE DEF S
<1>6. \A i \in 0 .. n : i \in S
  BY <1>3, <1>4, <1>5, UpTo
<1>7. n \in S
  BY <1>3, <1>6
<1>. QED
  BY <1>1, <1>2, <1>7 DEF S

LEMMA CalcGrows ==
  ASSUME NEW few \in Seq(Nat), NEW many \in Seq(Nat), Len(few) <= Len(many),
         \A k \in 1 .. Len(few) : few[k] <= many[k]
  PROVE  /\ calcualeBuffer(few) \in Nat /\ calcualeBuffer(many) \in Nat
         /\ calcualeBuffer(few) <= calcualeBuffer(many)
         /\ Reserved <= calcualeBuffer(few)
<1> DEFINE n == Len(few)
           m == Len(many)
<1>1. PICK g : /\ calcualeBuffer(few) = g[n]
               /\ g[0] = Reserved
               /\ \A i \in 0 .. n : g[i] \in Nat
               /\ \A i \in 1 .. n : g[i] = g[i - 1] + Header + few[i]
  BY CalcRuns
<1>2. PICK h : /\ calcualeBuffer(many) = h[m]
               /\ h[0] = Reserved
               /\ \A i \in 0 .. m : h[i] \in Nat
               /\ \A i \in 1 .. m : h[i] = h[i - 1] + Header + many[i]
  BY CalcRuns
<1>3. /\ n \in Nat /\ m \in Nat /\ n <= m
      /\ \A i \in 1 .. n : few[i] \in Nat /\ few[i] <= many[i]
      /\ \A i \in 1 .. m : many[i] \in Nat
  OBVIOUS
<1> HIDE DEF n, m
<1> DEFINE S == {i \in 0 .. n : Reserved <= g[i] /\ g[i] <= h[i]}
           R == {i \in 0 .. m : i >= n => h[i] >= h[n]}
<1>4. n \in S
  <2>1. 0 \in S
    BY <1>1, <1>2, <1>3 DEF Reserved
  <2>2. ASSUME NEW i \in 1 .. n, i - 1 \in S PROVE i \in S
    <3>1. /\ i \in 0 .. n /\ i - 1 \in 0 .. n /\ i \in 1 .. m /\ i - 1 \in 0 .. m
          /\ Reserved <= g[i - 1] /\ g[i - 1] <= h[i - 1]
      BY <1>3, <2>2
    <3>2. g[i] = g[i - 1] + Header + few[i] /\ h[i] = h[i - 1] + Header + many[i]
      BY <1>1, <1>2, <3>1
    <3>3. g[i - 1] \in Nat /\ h[i - 1] \in Nat /\ few[i] \in Nat /\ many[i] \in Nat
          /\ few[i] <= many[i]
      BY <1>1, <1>2, <1>3, <3>1
    <3>. QED
      <4>1. Reserved <= g[i]
        <5>1. g[i] >= g[i - 1] /\ g[i] \in Nat /\ Reserved \in Nat
          BY <3>2, <3>3 DEF Header, Reserved
        <5>. QED
          BY <3>1, <3>3, <5>1
      <4>2. g[i] <= h[i]
        <5>1. \A a, b, c, d \in Nat : a <= b /\ c <= d => a + Header + c <= b + Header + d
          BY DEF Header
        <5>2. g[i - 1] + Header + few[i] <= h[i - 1] + Header + many[i]
          BY <3>1, <3>3, <5>1
        <5>. QED
          BY <3>2, <5>2
      <4>. QED
        BY <3>1, <4>1, <4>2
  <2> HIDE DEF S
  <2>3. \A i \in 0 .. n : i \in S
    BY <1>3, <2>1, <2>2, UpTo
  <2>. QED
    BY <1>3, <2>3
<1>5. m \in R
  <2>1. 0 \in R
    BY <1>2, <1>3
  <2>2. ASSUME NEW i \in 1 .. m, i - 1 \in R PROVE i \in R
    <3>1. /\ i \in Nat /\ i \in 0 .. m /\ i - 1 \in 0 .. m /\ n \in 0 .. m
          /\ i - 1 >= n => h[i - 1] >= h[n]
      BY <1>3, <2>2
    <3>2. h[i] = h[i - 1] + Header + many[i] /\ many[i] \in Nat
      BY <1>2, <1>3
    <3>3. h[i] \in Nat /\ h[i - 1] \in Nat /\ h[n] \in Nat
      BY <1>2, <3>1
    <3>4. CASE i - 1 >= n
      <4>1. h[i] >= h[n]
        BY <3>1, <3>2, <3>3, <3>4 DEF Header
      <4>. QED
        BY <3>1, <4>1
    <3>5. CASE ~(i - 1 >= n)
      <4>1. i >= n => i = n
        BY <1>3, <3>1, <3>5
      <4>2. h[n] >= h[n]
        BY <3>3
      <4>. QED
        BY <3>1, <4>1, <4>2
    <3>. QED
      BY <3>4, <3>5
  <2> HIDE DEF R
  <2>3. \A i \in 0 .. m : i \in R
    BY <1>3, <2>1, <2>2, UpTo
  <2>. QED
    BY <1>3, <2>3
<1>6. g[n] \in Nat /\ h[n] \in Nat /\ h[m] \in Nat
  BY <1>1, <1>2, <1>3
<1>7. Reserved <= g[n] /\ g[n] <= h[n] /\ h[m] >= h[n]
  BY <1>3, <1>4, <1>5
<1>. QED
  BY <1>1, <1>2, <1>6, <1>7

(* A list of lists is put in a row list by list. *)
LEMMA FlatIs ==
  ASSUME NEW S, NEW s \in Seq(Seq(S)), Len(s) # 0
  PROVE  \E F : /\ \A i \in 1 .. Len(s) :
                     /\ F[i] = IF i = 1 THEN s[i] ELSE F[i - 1] \o s[i]
                     /\ F[i] \in Seq(S)
                /\ FlattenSeq(s) = F[Len(s)]
<1> DEFINE F == CHOOSE f : f = [i \in 1 .. Len(s) |-> IF i = 1 THEN s[i] ELSE f[i - 1] \o s[i]]
<1>1. FlattenSeq(s) = F[Len(s)]
  BY DEF FlattenSeq
<1>2. Len(s) \in Nat
  OBVIOUS
<1>3. F = [i \in 1 .. Len(s) |-> IF i = 1 THEN s[i] ELSE F[i - 1] \o s[i]]
  BY <1>2, Flattens
<1> HIDE DEF F
<1>4. \A i \in 1 .. Len(s) : /\ F[i] = IF i = 1 THEN s[i] ELSE F[i - 1] \o s[i]
                             /\ F[i] \in Seq(S)
  BY <1>3, FlatRuns
<1>. QED
  BY <1>1, <1>4

LEMMA PairAppended ==
  ASSUME NEW p \in Seq(Nat), NEW q \in Seq(Nat), Len(q) = 2
  PROVE  /\ Len(p \o q) = Len(p) + 2
         /\ (p \o q)[Len(p) + 1] = q[1] /\ (p \o q)[Len(p) + 2] = q[2]
         /\ \A k \in 1 .. Len(p) : (p \o q)[k] = p[k]
<1>1. /\ Len(p \o q) = Len(p) + Len(q)
      /\ \A k \in 1 .. Len(p) + Len(q) :
            (p \o q)[k] = IF k <= Len(p) THEN p[k] ELSE q[k - Len(p)]
  BY ConcatProperties, Zenon
<1>2. Len(p) \in Nat
  OBVIOUS
<1> DEFINE l == Len(p)
           r == p \o q
<1>3. /\ Len(r) = l + 2 /\ l \in Nat
      /\ \A k \in 1 .. l + 2 : r[k] = IF k <= l THEN p[k] ELSE q[k - l]
  BY <1>1, <1>2
<1> HIDE DEF l, r
<1>4. \A k \in 1 .. l : r[k] = p[k]
  BY <1>3
<1>5. r[l + 1] = q[1] /\ r[l + 2] = q[2]
  <2>1. l + 1 \in 1 .. l + 2 /\ l + 2 \in 1 .. l + 2 /\ (l + 1) - l = 1 /\ (l + 2) - l = 2
        /\ ~(l + 1 <= l) /\ ~(l + 2 <= l)
    BY <1>3
  <2>. QED
    BY <1>3, <2>1
<1>. QED
  BY <1>3, <1>4, <1>5 DEF l, r

(* A list of pairs laid out in a row. *)
LEMMA FlatPairs ==
  ASSUME NEW n \in Nat, n # 0, NEW s \in Seq(Seq(Nat)), Len(s) = n,
         \A i \in 1 .. n : Len(s[i]) = 2
  PROVE  /\ FlattenSeq(s) \in Seq(Nat) /\ Len(FlattenSeq(s)) = 2 * n
         /\ \A j \in 1 .. n : /\ FlattenSeq(s)[2 * j - 1] = s[j][1]
                              /\ FlattenSeq(s)[2 * j] = s[j][2]
<1>1. PICK F : /\ \A i \in 1 .. Len(s) :
                     /\ F[i] = IF i = 1 THEN s[i] ELSE F[i - 1] \o s[i]
                     /\ F[i] \in Seq(Nat)
               /\ FlattenSeq(s) = F[Len(s)]
  BY FlatIs
<1> DEFINE Row(i) == /\ Len(F[i]) = 2 * i
                     /\ \A j \in 1 .. i : F[i][2 * j - 1] = s[j][1] /\ F[i][2 * j] = s[j][2]
           S == {i \in 0 .. n : i # 0 => Row(i)}
<1>2. ASSUME NEW i \in 1 .. n, i - 1 \in S PROVE i \in S
  <2>1. s[i] \in Seq(Nat) /\ Len(s[i]) = 2 /\ F[i] \in Seq(Nat) /\ i \in 0 .. n
    BY <1>1
  <2>2. CASE i = 1
    <3>1. F[i] = s[i]
      BY <1>1, <2>2
    <3>2. Row(i)
      BY <2>1, <2>2, <3>1
    <3>. QED
      BY <2>1, <3>2
  <2>3. CASE i # 1
    <3>0. i \in 1 .. Len(s) /\ i - 1 \in 1 .. Len(s)
      BY <2>3
    <3>1. F[i] = F[i - 1] \o s[i] /\ F[i - 1] \in Seq(Nat)
      BY <1>1, <2>3, <3>0
    <3>2. Row(i - 1)
      BY <1>2, <2>3
    <3>3. Len(F[i - 1]) = 2 * (i - 1) /\ i \in Nat
      BY <3>2
    <3>4. /\ Len(F[i]) = Len(F[i - 1]) + 2
          /\ F[i][Len(F[i - 1]) + 1] = s[i][1] /\ F[i][Len(F[i - 1]) + 2] = s[i][2]
          /\ \A k \in 1 .. Len(F[i - 1]) : F[i][k] = F[i - 1][k]
      BY <2>1, <3>1, PairAppended
    <3>5. Len(F[i]) = 2 * i
      BY <3>3, <3>4
    <3>6. ASSUME NEW j \in 1 .. i
          PROVE  F[i][2 * j - 1] = s[j][1] /\ F[i][2 * j] = s[j][2]
      <4>1. CASE j = i
        <5>2. /\ 2 * j - 1 = Len(F[i - 1]) + 1 /\ 2 * j = Len(F[i - 1]) + 2
          BY <3>3, <4>1
        <5>. QED
          BY <3>4, <4>1, <5>2
      <4>2. CASE j # i
        <5>1. /\ j \in 1 .. i - 1 /\ 2 * j - 1 \in 1 .. 2 * (i - 1)
              /\ 2 * j \in 1 .. 2 * (i - 1)
          BY <3>3, <4>2
        <5>3. F[i][2 * j - 1] = F[i - 1][2 * j - 1] /\ F[i][2 * j] = F[i - 1][2 * j]
          BY <3>3, <3>4, <5>1
        <5>. QED
          BY <3>2, <5>1, <5>3
      <4>. QED
        BY <4>1, <4>2
    <3>. QED
      BY <2>1, <3>5, <3>6
  <2>. QED
    BY <2>2, <2>3
<1>3. 0 \in S
  OBVIOUS
<1> HIDE DEF S
<1>4. \A i \in 0 .. n : i \in S
  BY <1>2, <1>3, UpTo
<1>5. Row(n)
  BY <1>4 DEF S
<1>. QED
  BY <1>1, <1>5

(* The lengths of a device's message: the number, then type and path of    *)
(* each resource.                                                          *)
ListLengths(n, w) ==
  <<1>> \o FlattenSeq([i \in 1 .. n |-> <<DevTypeLength, w[i]>>])

LEMMA ListLengthsAre ==
  ASSUME NEW n \in Nat, n # 0, NEW w \in [1 .. n -> Nat]
  PROVE  /\ ListLengths(n, w) \in Seq(Nat) /\ Len(ListLengths(n, w)) = 2 * n + 1
         /\ ListLengths(n, w)[1] = 1
         /\ \A i \in 1 .. n : /\ ListLengths(n, w)[2 * i] = DevTypeLength
                              /\ ListLengths(n, w)[2 * i + 1] = w[i]
<1> DEFINE s == [i \in 1 .. n |-> <<DevTypeLength, w[i]>>]
           flat == FlattenSeq(s)
<1>1. \A i \in 1 .. n : /\ s[i] \in Seq(Nat) /\ Len(s[i]) = 2
                        /\ s[i][1] = DevTypeLength /\ s[i][2] = w[i]
  <2> SUFFICES ASSUME NEW i \in 1 .. n
               PROVE  /\ s[i] \in Seq(Nat) /\ Len(s[i]) = 2
                      /\ s[i][1] = DevTypeLength /\ s[i][2] = w[i]
    OBVIOUS
  <2>1. w[i] \in Nat /\ DevTypeLength \in Nat
    BY DEF DevTypeLength
  <2>2. s[i] = <<DevTypeLength, w[i]>>
    OBVIOUS
  <2> HIDE DEF s
  <2>. QED
    BY <2>1, <2>2
<1>2. s \in Seq(Seq(Nat)) /\ Len(s) = n
  <2>1. s = [i \in 1 .. n |-> s[i]]
    OBVIOUS
  <2> HIDE DEF s
  <2>2. s \in [1 .. n -> Seq(Nat)]
    BY <1>1, <2>1
  <2>. QED
    BY <2>2
<1> HIDE DEF s
<1>3. /\ flat \in Seq(Nat) /\ Len(flat) = 2 * n
      /\ \A j \in 1 .. n : flat[2 * j - 1] = s[j][1] /\ flat[2 * j] = s[j][2]
  BY <1>1, <1>2, FlatPairs
<1> HIDE DEF flat
<1> DEFINE one == <<1>>
           l == one \o flat
<1>4. one \in Seq(Nat) /\ Len(one) = 1 /\ one[1] = 1
  OBVIOUS
<1> HIDE DEF one
<1>5. /\ l \in Seq(Nat) /\ Len(l) = Len(one) + Len(flat)
      /\ \A k \in 1 .. Len(one) + Len(flat) :
             l[k] = IF k <= Len(one) THEN one[k] ELSE flat[k - Len(one)]
  BY <1>3, <1>4, ConcatProperties, Zenon
<1> HIDE DEF l
<1>6. Len(l) = 2 * n + 1 /\ l[1] = 1
  <2>1. Len(l) = 1 + 2 * n /\ 1 \in 1 .. 1 + 2 * n /\ 1 <= 1
    BY <1>3, <1>4, <1>5
  <2>. QED
    BY <1>3, <1>4, <1>5, <2>1
<1>7. ASSUME NEW i \in 1 .. n
      PROVE  l[2 * i] = DevTypeLength /\ l[2 * i + 1] = w[i]
  <2>1. /\ 2 * i \in 1 .. 1 + 2 * n /\ 2 * i + 1 \in 1 .. 1 + 2 * n
        /\ ~(2 * i <= 1) /\ ~(2 * i + 1 <= 1) /\ (2 * i + 1) - 1 = 2 * i
    OBVIOUS
  <2>2. l[2 * i] = flat[2 * i - 1]
    BY <1>3, <1>4, <1>5, <2>1
  <2>3. l[2 * i + 1] = flat[(2 * i + 1) - 1]
    BY <1>3, <1>4, <1>5, <2>1
  <2>. QED
    BY <1>1, <1>3, <2>1, <2>2, <2>3
<1>. QED
  BY <1>5, <1>6, <1>7 DEF l, one, flat, s, ListLengths

------------------------------------------------------------------------------
(* A device's message, whole: the key of a block is its place.             *)
Resource == [devType : DevTypes, path : Paths]

Whole(uris) ==
  [k \in 1 .. 2 * Len(uris) + 1 |->
     [key |-> k - 1,
      length |-> IF k = 1 THEN 1 ELSE IF k % 2 = 0 THEN DevTypeLength
                 ELSE uris[k \div 2].path,
      value |-> IF k = 1 THEN Len(uris) ELSE IF k % 2 = 0 THEN uris[k \div 2].devType
                ELSE uris[k \div 2].path]]

LEMMA WholeIs ==
  ASSUME NEW uris \in Seq(Resource)
  PROVE  /\ Whole(uris) \in Seq(Block) /\ Len(Whole(uris)) = 2 * Len(uris) + 1
         /\ Whole(uris)[1] = [key |-> CountKey, length |-> 1, value |-> Len(uris)]
         /\ \A i \in 1 .. Len(uris) :
               /\ Whole(uris)[2 * i] = [key |-> TypeKey(i), length |-> DevTypeLength,
                                        value |-> uris[i].devType]
               /\ Whole(uris)[2 * i + 1] = [key |-> PathKey(i), length |-> uris[i].path,
                                            value |-> uris[i].path]
         /\ \A k \in 1 .. 2 * Len(uris) + 1 : Whole(uris)[k].key = k - 1
<1> DEFINE n == Len(uris)
           m == Whole(uris)
<1>1. n \in Nat /\ \A i \in 1 .. n : uris[i] \in Resource
  OBVIOUS
<1>2. \A i \in 1 .. n : uris[i].path \in Nat /\ uris[i].devType \in DevTypes
  BY <1>1, TlvConstants DEF Resource
<1> HIDE DEF n
<1>3. /\ DOMAIN m = 1 .. 2 * n + 1
      /\ \A k \in 1 .. 2 * n + 1 :
            m[k] = [key |-> k - 1,
                    length |-> IF k = 1 THEN 1 ELSE IF k % 2 = 0 THEN DevTypeLength
                               ELSE uris[k \div 2].path,
                    value |-> IF k = 1 THEN n ELSE IF k % 2 = 0 THEN uris[k \div 2].devType
                              ELSE uris[k \div 2].path]
  BY DEF Whole, n
<1>4. m = [k \in 1 .. 2 * n + 1 |-> m[k]]
  BY DEF Whole, n
<1> HIDE DEF m
<1>5. ASSUME NEW k \in 1 .. 2 * n + 1 PROVE m[k] \in Block /\ m[k].key = k - 1
  <2>1. k = 1 \/ k \div 2 \in 1 .. n
    BY <1>1
  <2>2. CASE k = 1
    BY <1>1, <1>3, <2>2 DEF Block, Values
  <2>3. CASE k # 1
    <3>1. uris[k \div 2].path \in Nat /\ uris[k \div 2].devType \in DevTypes
      BY <1>2, <2>1, <2>3
    <3>2. k - 1 \in Nat /\ DevTypeLength \in Nat
      BY <1>1 DEF DevTypeLength
    <3>3. CASE k % 2 = 0
      <4>1. m[k] = [key |-> k - 1, length |-> DevTypeLength, value |-> uris[k \div 2].devType]
        BY <1>3, <2>3, <3>3
      <4>. QED
        BY <3>1, <3>2, <4>1 DEF Block, Values
    <3>4. CASE k % 2 # 0
      <4>1. m[k] = [key |-> k - 1, length |-> uris[k \div 2].path, value |-> uris[k \div 2].path]
        BY <1>3, <2>3, <3>4
      <4>. QED
        BY <3>1, <3>2, <4>1 DEF Block, Values
    <3>. QED
      BY <3>3, <3>4
  <2>. QED
    BY <2>2, <2>3
<1>6. m \in Seq(Block) /\ Len(m) = 2 * n + 1
  <2>1. m \in [1 .. 2 * n + 1 -> Block] /\ 2 * n + 1 \in Nat
    BY <1>1, <1>4, <1>5
  <2>. QED
    BY <2>1
<1>7. m[1] = [key |-> CountKey, length |-> 1, value |-> n]
  BY <1>1, <1>3 DEF CountKey
<1>8. ASSUME NEW i \in 1 .. n
      PROVE  /\ m[2 * i] = [key |-> TypeKey(i), length |-> DevTypeLength,
                            value |-> uris[i].devType]
             /\ m[2 * i + 1] = [key |-> PathKey(i), length |-> uris[i].path,
                                value |-> uris[i].path]
  <2>1. /\ 2 * i \in 1 .. 2 * n + 1 /\ 2 * i + 1 \in 1 .. 2 * n + 1
        /\ 2 * i # 1 /\ 2 * i + 1 # 1
        /\ (2 * i) % 2 = 0 /\ (2 * i + 1) % 2 = 1
        /\ (2 * i) \div 2 = i /\ (2 * i + 1) \div 2 = i
        /\ 2 * i - 1 = TypeKey(i) /\ (2 * i + 1) - 1 = PathKey(i)
    BY <1>1 DEF TypeKey, PathKey
  <2>2. m[2 * i] = [key |-> TypeKey(i), length |-> DevTypeLength, value |-> uris[i].devType]
    BY <1>3, <2>1
  <2>3. m[2 * i + 1] = [key |-> PathKey(i), length |-> uris[i].path, value |-> uris[i].path]
    <3>1. (2 * i + 1) % 2 # 0
      BY <2>1
    <3>2. m[2 * i + 1] = [key |-> (2 * i + 1) - 1, length |-> uris[(2 * i + 1) \div 2].path,
                          value |-> uris[(2 * i + 1) \div 2].path]
      <4> HIDE DEF m
      <4>. QED
        BY <1>3, <2>1, <3>1
    <3>. QED
      BY <2>1, <3>2
  <2>. QED
    BY <2>2, <2>3
<1>. QED
  BY <1>5, <1>6, <1>7, <1>8 DEF m, n

LEMMA WholeHas ==
  ASSUME NEW uris \in Seq(Resource)
  PROVE  /\ Whole(uris) \in Seq(Block) /\ Len(Whole(uris)) = 2 * Len(uris) + 1
         /\ Whole(uris)[1].key = CountKey
         /\ Whole(uris)[1].length = 1
         /\ Whole(uris)[1].value = Len(uris)
         /\ \A i \in 1 .. Len(uris) :
               /\ Whole(uris)[2 * i].key = TypeKey(i)
               /\ Whole(uris)[2 * i].length = DevTypeLength
               /\ Whole(uris)[2 * i].value = uris[i].devType
               /\ Whole(uris)[2 * i + 1].key = PathKey(i)
               /\ Whole(uris)[2 * i + 1].length = uris[i].path
               /\ Whole(uris)[2 * i + 1].value = uris[i].path
         /\ \A k \in 1 .. 2 * Len(uris) + 1 : Whole(uris)[k].key = k - 1
<1> DEFINE n == Len(uris)
           m == Whole(uris)
<1>1. /\ m \in Seq(Block) /\ Len(m) = 2 * n + 1
      /\ m[1] = [key |-> CountKey, length |-> 1, value |-> n]
      /\ \A k \in 1 .. 2 * n + 1 : m[k].key = k - 1
  BY WholeIs, Zenon
<1>2. \A i \in 1 .. n :
         /\ m[2 * i] = [key |-> TypeKey(i), length |-> DevTypeLength,
                        value |-> uris[i].devType]
         /\ m[2 * i + 1] = [key |-> PathKey(i), length |-> uris[i].path,
                            value |-> uris[i].path]
  BY WholeIs, Zenon
<1> HIDE DEF m
<1>3. m[1].key = CountKey /\ m[1].length = 1 /\ m[1].value = n
  BY <1>1
<1>4. ASSUME NEW i \in 1 .. n
      PROVE  /\ m[2 * i].key = TypeKey(i)
             /\ m[2 * i].length = DevTypeLength
             /\ m[2 * i].value = uris[i].devType
             /\ m[2 * i + 1].key = PathKey(i)
             /\ m[2 * i + 1].length = uris[i].path
             /\ m[2 * i + 1].value = uris[i].path
  <2> HIDE DEF n
  <2>1. /\ m[2 * i] = [key |-> TypeKey(i), length |-> DevTypeLength,
                       value |-> uris[i].devType]
        /\ m[2 * i + 1] = [key |-> PathKey(i), length |-> uris[i].path,
                           value |-> uris[i].path]
    BY <1>2
  <2>. QED
    BY <2>1
<1>. QED
  BY <1>1, <1>3, <1>4 DEF m

LEMMA SizeIsOfLengths ==
  ASSUME NEW uris \in Seq(Resource)
  PROVE  uriResourcesCalculateBufSize(uris) =
            calcualeBuffer(ListLengths(Len(uris), [i \in 1 .. Len(uris) |-> uris[i].path]))
<1> DEFINE n == Len(uris)
           w == [i \in 1 .. n |-> uris[i].path]
<1>1. DOMAIN uris = 1 .. n /\ \A i \in 1 .. n : w[i] = uris[i].path
  OBVIOUS
<1> HIDE DEF w, n
<1>2. [i \in DOMAIN uris |-> <<DevTypeLength, uris[i].path>>] =
      [i \in 1 .. n |-> <<DevTypeLength, w[i]>>]
  BY <1>1
<1>3. uriResourcesCalculateBufSize(uris) = calcualeBuffer(ListLengths(n, w))
  BY <1>2, Zenon DEF uriResourcesCalculateBufSize, ListLengths
<1>. QED
  BY <1>3 DEF n, w

(* A place in the message of the list is the first one, or belongs to one  *)
(* resource: an even place to its type, an odd one to its path.            *)
LEMMA PlaceIs ==
  ASSUME NEW n \in Nat, NEW k \in 1 .. 2 * n + 1
  PROVE  \/ k = 1
         \/ k \div 2 \in 1 .. n /\ (k = 2 * (k \div 2) \/ k = 2 * (k \div 2) + 1)
OBVIOUS

LEMMA SizeIsOfWhole ==
  ASSUME NEW uris \in Seq(Resource), uris # << >>
  PROVE  /\ uriResourcesCalculateBufSize(uris) = Used(Whole(uris)) + Reserved
         /\ Used(Whole(uris)) \in Nat
<1> DEFINE n == Len(uris)
           w == [i \in 1 .. n |-> uris[i].path]
           l == ListLengths(n, w)
           m == Whole(uris)
<1>1. n \in Nat /\ n # 0 /\ DOMAIN uris = 1 .. n /\ \A i \in 1 .. n : uris[i] \in Resource
  OBVIOUS
<1>2. w \in [1 .. n -> Nat]
  BY <1>1, TlvConstants DEF Resource
<1>4. uriResourcesCalculateBufSize(uris) = calcualeBuffer(l)
  BY SizeIsOfLengths
<1>5. /\ m \in Seq(Block) /\ Len(m) = 2 * n + 1 /\ m[1].length = 1
      /\ \A i \in 1 .. n : m[2 * i].length = DevTypeLength /\ m[2 * i + 1].length = uris[i].path
  BY WholeHas, Zenon
<1>6. \A i \in 1 .. n : w[i] = uris[i].path
  OBVIOUS
<1> HIDE DEF n, w, m
<1>7. /\ l \in Seq(Nat) /\ Len(l) = 2 * n + 1 /\ l[1] = 1
      /\ \A i \in 1 .. n : l[2 * i] = DevTypeLength /\ l[2 * i + 1] = w[i]
  BY <1>1, <1>2, ListLengthsAre
<1> HIDE DEF l
<1>8. ASSUME NEW k \in 1 .. Len(m) PROVE l[k] = m[k].length
  <2>. k \in 1 .. 2 * n + 1
    BY <1>5, Zenon
  <2>1. \/ k = 1
        \/ k \div 2 \in 1 .. n /\ (k = 2 * (k \div 2) \/ k = 2 * (k \div 2) + 1)
    BY <1>1, PlaceIs, Zenon
  <2>2. CASE k = 1
    BY <1>5, <1>7, <2>2
  <2>3. CASE k \div 2 \in 1 .. n /\ k = 2 * (k \div 2)
    BY <1>5, <1>7, <2>3
  <2>4. CASE k \div 2 \in 1 .. n /\ k = 2 * (k \div 2) + 1
    BY <1>5, <1>6, <1>7, <2>4
  <2>. QED
    BY <2>1, <2>2, <2>3, <2>4
<1>9. calcualeBuffer(l) = Used(m) + Reserved
  BY <1>5, <1>7, <1>8, CalcIsUsed
<1>10. Used(m) \in Nat
  BY <1>5, UsedIsNat
<1>. QED
  BY <1>4, <1>9, <1>10 DEF m

(* The list is put into the message resource by resource. *)
Put(s, uris, msg, i) ==
  WithKey(s, WithKey(s, msg, TypeKey(i), DevTypeLength, uris[i].devType),
          PathKey(i), uris[i].path, uris[i].path)

LEMMA PutIsMessage ==
  ASSUME NEW uris \in Seq(Resource), NEW s \in Nat, NEW msg \in Seq(Block),
         NEW i \in 1 .. Len(uris)
  PROVE  /\ WithKey(s, msg, TypeKey(i), DevTypeLength, uris[i].devType) \in Seq(Block)
         /\ Put(s, uris, msg, i) \in Seq(Block)
<1>1. uris[i] \in Resource /\ i \in Nat /\ i >= 1
  OBVIOUS
<1>2. /\ TypeKey(i) \in Nat /\ PathKey(i) \in Nat /\ DevTypeLength \in Nat
      /\ uris[i].devType \in Values /\ uris[i].path \in Values /\ uris[i].path \in Nat
  BY <1>1, TlvConstants DEF Resource, Values, TypeKey, PathKey, DevTypeLength
<1>3. WithKey(s, msg, TypeKey(i), DevTypeLength, uris[i].devType) \in Seq(Block)
  BY <1>2, AddedIsLast
<1>. QED
  BY <1>2, <1>3, AddedIsLast DEF Put

LEMMA CreateRuns ==
  ASSUME NEW uris \in Seq(Resource), NEW s \in Nat
  PROVE  \E g : /\ uriResourcesCreate(s, uris) = g[Len(uris)]
                /\ g[0] = WithKey(s, << >>, CountKey, 1, Len(uris))
                /\ \A i \in 0 .. Len(uris) : g[i] \in Seq(Block)
                /\ \A i \in 1 .. Len(uris) : g[i] = Put(s, uris, g[i - 1], i)
<1> DEFINE n == Len(uris)
           order == [i \in DOMAIN uris |-> i]
           base == WithKey(s, << >>, CountKey, 1, Len(uris))
           Is(f) == f = [c \in SUBSET DOMAIN order |->
                            IF c = {} THEN base
                            ELSE Put(s, uris, f[c \ {Max(c)}], order[Max(c)])]
           f == CHOOSE f : Is(f)
           step == [i \in 1 .. n |-> [msg \in Seq(Block) |-> Put(s, uris, msg, i)]]
<1>1. n \in Nat /\ DOMAIN order = 1 .. n /\ DOMAIN uris = 1 .. n
  OBVIOUS
<1>2. uriResourcesCreate(s, uris) = f[DOMAIN order]
  BY DEF uriResourcesCreate, FoldLeft, MapThenFoldSet, Put
<1>3. base \in Seq(Block)
  <2>1. << >> \in Seq(Block) /\ CountKey \in Nat /\ 1 \in Nat /\ n \in Nat /\ n \in Values
    BY <1>1 DEF CountKey, Values
  <2>. QED
    BY <2>1, AddedIsLast
<1>4. \A i \in 1 .. n : order[i] = i
  BY <1>1
<1> HIDE DEF order, base, n
<1>5. step \in [1 .. n -> [Seq(Block) -> Seq(Block)]]
  BY PutIsMessage DEF n
<1>6. PICK e : FoldOn(e, base, step, Seq(Block), n)
  <2> HIDE DEF step
  <2>. QED
    BY <1>1, <1>3, <1>5, FoldExists
<1>7. e \in [SUBSET (1 .. n) -> Seq(Block)] /\ e[{}] = base
  BY <1>6 DEF FoldOn
<1>8. ASSUME NEW c \in SUBSET (1 .. n), c # {}
      PROVE  e[c] = Put(s, uris, e[c \ {Max(c)}], order[Max(c)])
  <2>1. Max(c) \in 1 .. n /\ c \ {Max(c)} \in SUBSET (1 .. n)
    BY <1>1, <1>8, MaxIsIn
  <2>2. e[c \ {Max(c)}] \in Seq(Block)
    BY <1>7, <2>1
  <2>3. e[c] = step[Max(c)][e[c \ {Max(c)}]]
    BY <1>6, <1>8 DEF FoldOn
  <2>. QED
    BY <1>4, <2>1, <2>2, <2>3
<1> HIDE DEF step
<1>9. Is(e)
  BY <1>1, <1>7, <1>8
<1>10. Is(f)
  BY <1>9
<1> HIDE DEF f
<1> DEFINE g == [i \in 0 .. n |-> f[1 .. i]]
           S == {i \in 0 .. n : g[i] \in Seq(Block)}
<1>11. ASSUME NEW i \in 1 .. n
       PROVE  g[i] = Put(s, uris, g[i - 1], i)
  <2>1. Max(1 .. i) = i /\ (1 .. i) \ {i} = 1 .. (i - 1)
    BY <1>1, MaxOfFirst
  <2>2. 1 .. i \in SUBSET (1 .. n) /\ 1 .. i # {}
    <3>1. i \in 1 .. i /\ 1 .. i \in SUBSET (1 .. n)
      BY <1>1
    <3>. QED
      BY <3>1
  <2>3. f[1 .. i] = Put(s, uris, f[(1 .. i) \ {Max(1 .. i)}], order[Max(1 .. i)])
    BY <1>1, <1>10, <2>2
  <2>4. g[i] = f[1 .. i] /\ g[i - 1] = f[1 .. (i - 1)]
    BY <1>1
  <2> HIDE DEF g
  <2>. QED
    BY <1>4, <2>1, <2>3, <2>4
<1>12. g[0] = base
  <2>1. 1 .. 0 = {} /\ {} \in SUBSET (1 .. n)
    OBVIOUS
  <2>2. f[{}] = base
    BY <1>1, <1>10, <2>1
  <2>. QED
    BY <1>1, <2>1, <2>2
<1>13. uriResourcesCreate(s, uris) = g[n]
  BY <1>1, <1>2
<1> HIDE DEF g
<1>14. \A i \in 0 .. n : g[i] \in Seq(Block)
  <2>1. 0 \in S
    BY <1>1, <1>3, <1>12
  <2>2. ASSUME NEW i \in 1 .. n, i - 1 \in S PROVE i \in S
    <3>1. g[i - 1] \in Seq(Block) /\ i \in 0 .. n
      BY <1>1, <2>2
    <3>2. Put(s, uris, g[i - 1], i) \in Seq(Block)
      BY <3>1, PutIsMessage DEF n
    <3>. QED
      BY <1>11, <3>1, <3>2
  <2> HIDE DEF S
  <2>3. \A i \in 0 .. n : i \in S
    BY <1>1, <2>1, <2>2, UpTo
  <2>. QED
    BY <2>3 DEF S
<1>. QED
  BY <1>11, <1>12, <1>13, <1>14, Zenon DEF base, n

(* A block has the value its key stands for... *)
Right(uris, b) ==
  /\ b.key = CountKey => b.value = Len(uris)
  /\ \A i \in 1 .. Len(uris) :
        /\ b.key = TypeKey(i) => b.value = uris[i].devType
        /\ b.key = PathKey(i) => b.value = uris[i].path
AllRight(uris, msg) == \A k \in 1 .. Len(msg) : Right(uris, msg[k])

LEMMA RightIsAdded ==
  ASSUME NEW uris, NEW s \in Nat, NEW msg \in Seq(Block), AllRight(uris, msg),
         NEW key \in Nat, NEW length \in Nat, NEW value \in Values,
         Right(uris, [key |-> key, length |-> length, value |-> value])
  PROVE  AllRight(uris, WithKey(s, msg, key, length, value))
<1> DEFINE b == [key |-> key, length |-> length, value |-> value]
           next == WithKey(s, msg, key, length, value)
<1>1. next = msg \/ (next = Append(msg, b) /\ b \in Block)
  BY AddedIsLast
<1>2. CASE next = msg
  BY <1>2
<1>3. CASE next = Append(msg, b) /\ b \in Block
  <2> DEFINE long == Append(msg, b)
  <2>1. /\ Len(long) = Len(msg) + 1 /\ Len(msg) \in Nat /\ long[Len(msg) + 1] = b
        /\ \A k \in 1 .. Len(msg) : long[k] = msg[k]
    BY <1>3
  <2>2. Right(uris, b)
    OBVIOUS
  <2> HIDE DEF long, b
  <2>3. \A k \in 1 .. Len(long) : Right(uris, long[k])
    <3> SUFFICES ASSUME NEW k \in 1 .. Len(msg) + 1 PROVE Right(uris, long[k])
      BY <2>1
    <3>1. CASE k = Len(msg) + 1
      BY <2>1, <2>2, <3>1
    <3>2. CASE k # Len(msg) + 1
      <4>1. k \in 1 .. Len(msg)
        BY <2>1, <3>2
      <4>. QED
        BY <2>1, <4>1 DEF AllRight
    <3>. QED
      BY <3>1, <3>2
  <2>4. next = long
    BY <1>3 DEF long, b
  <2>. QED
    BY <2>3, <2>4 DEF AllRight
<1>. QED
  BY <1>1, <1>2, <1>3

(* ...in the message of a device, whatever of it found room. *)
LEMMA CreatedIsRight ==
  ASSUME NEW uris \in Seq(Resource), NEW s \in Nat
  PROVE  /\ uriResourcesCreate(s, uris) \in Seq(Block)
         /\ AllRight(uris, uriResourcesCreate(s, uris))
<1> DEFINE n == Len(uris)
<1>1. PICK g : /\ uriResourcesCreate(s, uris) = g[n]
               /\ g[0] = WithKey(s, << >>, CountKey, 1, n)
               /\ \A i \in 0 .. n : g[i] \in Seq(Block)
               /\ \A i \in 1 .. n : g[i] = Put(s, uris, g[i - 1], i)
  BY CreateRuns
<1>2. n \in Nat /\ \A i \in 1 .. n : uris[i] \in Resource
  OBVIOUS
<1>3. \A i \in 1 .. n : /\ uris[i].path \in Nat /\ uris[i].path \in Values
                        /\ uris[i].devType \in Values
  BY <1>2, TlvConstants DEF Resource, Values
<1>4. n = Len(uris)
  OBVIOUS
<1> HIDE DEF n
<1> DEFINE S == {i \in 0 .. n : AllRight(uris, g[i])}
<1>5. 0 \in S
  <2>1. << >> \in Seq(Block) /\ AllRight(uris, << >>)
    BY DEF AllRight
  <2>2. CountKey \in Nat /\ 1 \in Nat /\ n \in Values
    BY <1>2 DEF CountKey, Values
  <2>3. Right(uris, [key |-> CountKey, length |-> 1, value |-> n])
    BY <1>2, <1>4 DEF Right, CountKey, TypeKey, PathKey
  <2>4. AllRight(uris, g[0])
    BY <1>1, <2>1, <2>2, <2>3, RightIsAdded
  <2>. QED
    BY <1>2, <2>4
<1>6. ASSUME NEW i \in 1 .. n, i - 1 \in S PROVE i \in S
  <2>1. /\ i \in Nat /\ i >= 1 /\ i \in 0 .. n /\ i - 1 \in 0 .. n
        /\ AllRight(uris, g[i - 1])
    BY <1>2, <1>6
  <2>2. g[i - 1] \in Seq(Block)
    BY <1>1, <2>1
  <2>3. TypeKey(i) \in Nat /\ PathKey(i) \in Nat /\ DevTypeLength \in Nat
    BY <2>1 DEF TypeKey, PathKey, DevTypeLength
  <2>4. Right(uris, [key |-> TypeKey(i), length |-> DevTypeLength,
                     value |-> uris[i].devType])
    BY <1>2, <1>4, <2>1 DEF Right, CountKey, TypeKey, PathKey
  <2>5. Right(uris, [key |-> PathKey(i), length |-> uris[i].path, value |-> uris[i].path])
    BY <1>2, <1>4, <2>1 DEF Right, CountKey, TypeKey, PathKey
  <2> DEFINE half == WithKey(s, g[i - 1], TypeKey(i), DevTypeLength, uris[i].devType)
  <2>6. half \in Seq(Block)
    BY <1>4, <2>2, PutIsMessage
  <2>7. AllRight(uris, half)
    BY <1>3, <2>1, <2>2, <2>3, <2>4, RightIsAdded
  <2>8. g[i] = WithKey(s, half, PathKey(i), uris[i].path, uris[i].path)
    BY <1>1 DEF Put
  <2> HIDE DEF half
  <2>9. AllRight(uris, g[i])
    BY <1>3, <2>3, <2>5, <2>6, <2>7, <2>8, RightIsAdded
  <2>. QED
    BY <2>1, <2>9
<1> HIDE DEF S
<1>7. \A i \in 0 .. n : i \in S
  BY <1>2, <1>5, <1>6, UpTo
<1>8. n \in S /\ n \in 0 .. n
  BY <1>2, <1>7
<1>. QED
  BY <1>1, <1>8 DEF S

(* Then what the reader finds is what the device has. *)
LEMMA RightIsParsed ==
  ASSUME NEW uris \in Seq(Resource), NEW msg \in Seq(Block), AllRight(uris, msg),
         NEW s, uriParseMessage(s, msg) # << >>
  PROVE  uriParseMessage(s, msg) = uris
<1> DEFINE number == keyGet(s, msg, CountKey).value
<1>1. /\ keyGet(s, msg, CountKey).result = "exist"
      /\ \A i \in 1 .. number : /\ keyGet(s, msg, TypeKey(i)).result = "exist"
                                /\ keyGet(s, msg, PathKey(i)).result = "exist"
      /\ uriParseMessage(s, msg) =
            [i \in 1 .. number |-> [devType |-> keyGet(s, msg, TypeKey(i)).value,
                                    path |-> keyGet(s, msg, PathKey(i)).value]]
  BY Zenon DEF uriParseMessage
<1>2. number = Len(uris)
  <2>1. PICK k \in 1 .. Len(msg) : msg[k].key = CountKey /\ number = msg[k].value
    BY <1>1, GotIsThere
  <2>. QED
    BY <2>1 DEF AllRight, Right
<1> HIDE DEF number
<1>3. ASSUME NEW i \in 1 .. Len(uris)
      PROVE  /\ keyGet(s, msg, TypeKey(i)).value = uris[i].devType
             /\ keyGet(s, msg, PathKey(i)).value = uris[i].path
  <2>1. PICK k \in 1 .. Len(msg) : /\ msg[k].key = TypeKey(i)
                                   /\ keyGet(s, msg, TypeKey(i)).value = msg[k].value
    BY <1>1, <1>2, GotIsThere
  <2>2. PICK h \in 1 .. Len(msg) : /\ msg[h].key = PathKey(i)
                                   /\ keyGet(s, msg, PathKey(i)).value = msg[h].value
    BY <1>1, <1>2, GotIsThere
  <2>. QED
    BY <2>1, <2>2 DEF AllRight, Right
<1>4. \A i \in 1 .. Len(uris) : uris[i] = [devType |-> uris[i].devType, path |-> uris[i].path]
  <2>1. \A i \in 1 .. Len(uris) : uris[i] \in Resource
    OBVIOUS
  <2>. QED
    BY <2>1 DEF Resource
<1>5. uris = [i \in 1 .. Len(uris) |-> uris[i]]
  OBVIOUS
<1>6. uriParseMessage(s, msg) =
         [i \in 1 .. Len(uris) |-> [devType |-> uris[i].devType, path |-> uris[i].path]]
  BY <1>1, <1>2, <1>3
<1>. QED
  BY <1>4, <1>5, <1>6

------------------------------------------------------------------------------
(* A buffer of the calculated size takes all of it: each block finds the   *)
(* ones before it, none with its key, and room.                            *)
LEMMA NextFits ==
  ASSUME NEW msg \in Seq(Block), NEW k \in 1 .. Len(msg),
         \A j \in 1 .. Len(msg) : msg[j].key = j - 1 /\ msg[j].length >= 1
  PROVE  WithKey(Used(msg) + Reserved, SubSeq(msg, 1, k - 1),
                 msg[k].key, msg[k].length, msg[k].value) = SubSeq(msg, 1, k)
<1> DEFINE p == SubSeq(msg, 1, k - 1)
           s == Used(msg) + Reserved
           l == msg[k].length
<1>1. /\ p \in Seq(Block) /\ Len(p) = k - 1 /\ msg[k] \in Block
      /\ \A j \in 1 .. Len(p) : p[j] = msg[j]
      /\ SubSeq(msg, 1, k) = Append(p, msg[k])
  OBVIOUS
<1>2. /\ Used(p) \in Nat /\ Used(p) + Header + l <= Used(msg)
  BY BlocksAreInside
<1>3. Used(msg) \in Nat /\ l \in Nat /\ l >= 1
  BY <1>1, UsedIsNat DEF Block
<1>4. msg[k] = [key |-> msg[k].key, length |-> msg[k].length, value |-> msg[k].value]
  BY <1>1 DEF Block
<1> HIDE DEF p, s
<1>5. ASSUME keyGet(s, p, msg[k].key).result = "exist" PROVE FALSE
  <2>1. PICK j \in 1 .. Len(p) : p[j].key = msg[k].key
    <3>1. p \in Seq(Block)
      BY <1>1
    <3>2. \A x : keyGet(s, p, x).result = "exist" => \E j \in 1 .. Len(p) : p[j].key = x
      BY <3>1, GotIsThere
    <3>. QED
      BY <1>5, <3>2, Zenon
  <2>2. j \in 1 .. Len(msg) /\ j # k /\ p[j] = msg[j]
    BY <1>1
  <2>3. p[j].key = j - 1 /\ msg[k].key = k - 1
    BY <2>2
  <2>. QED
    BY <2>1, <2>2, <2>3
<1> HIDE DEF l
<1>6. /\ ~(l = 0 \/ s < Header + l + Reserved \/ Used(p) > s - Reserved)
      /\ ~(Header + l > s - Reserved - Used(p))
  BY <1>2, <1>3 DEF Header, Reserved, s
<1>7. keyAdd(s, p, msg[k].key, l, msg[k].value) = "ok"
  BY <1>5, <1>6, Zenon DEF keyAdd
<1>8. WithKey(s, p, msg[k].key, l, msg[k].value) =
         Append(p, [key |-> msg[k].key, length |-> l, value |-> msg[k].value])
  BY <1>7, Zenon DEF WithKey
<1>. QED
  BY <1>1, <1>4, <1>8 DEF p, l, s

LEMMA CreatedIsWhole ==
  ASSUME NEW uris \in Seq(Resource), uris # << >>,
         \A i \in 1 .. Len(uris) : uris[i].path >= 1
  PROVE  uriResourcesCreate(Used(Whole(uris)) + Reserved, uris) = Whole(uris)
<1> DEFINE n == Len(uris)
           m == Whole(uris)
           s == Used(m) + Reserved
<1>1. /\ m \in Seq(Block) /\ Len(m) = 2 * n + 1
      /\ m[1].key = CountKey /\ m[1].length = 1 /\ m[1].value = n
      /\ \A i \in 1 .. n :
            /\ m[2 * i].key = TypeKey(i) /\ m[2 * i].length = DevTypeLength
            /\ m[2 * i].value = uris[i].devType
            /\ m[2 * i + 1].key = PathKey(i) /\ m[2 * i + 1].length = uris[i].path
            /\ m[2 * i + 1].value = uris[i].path
      /\ \A k \in 1 .. 2 * n + 1 : m[k].key = k - 1
  BY WholeHas, Zenon
<1>2. n \in Nat
  OBVIOUS
<1>3. s \in Nat
  BY <1>1, UsedIsNat DEF Reserved
<1>4. PICK g : /\ uriResourcesCreate(s, uris) = g[n]
               /\ g[0] = WithKey(s, << >>, CountKey, 1, n)
               /\ \A i \in 0 .. n : g[i] \in Seq(Block)
               /\ \A i \in 1 .. n : g[i] = Put(s, uris, g[i - 1], i)
  BY <1>3, CreateRuns
<1> HIDE DEF n, m
<1>5. \A k \in 1 .. Len(m) : m[k].length >= 1
  <2> SUFFICES ASSUME NEW k \in 1 .. 2 * n + 1 PROVE m[k].length >= 1
    BY <1>1
  <2>1. \/ k = 1
        \/ k \div 2 \in 1 .. n /\ (k = 2 * (k \div 2) \/ k = 2 * (k \div 2) + 1)
    BY <1>2
  <2>2. CASE k = 1
    BY <1>1, <2>2
  <2>3. CASE k \div 2 \in 1 .. n /\ k = 2 * (k \div 2)
    <3>1. m[k].length = DevTypeLength
      BY <1>1, <2>3
    <3>. QED
      BY <3>1 DEF DevTypeLength
  <2>4. CASE k \div 2 \in 1 .. n /\ k = 2 * (k \div 2) + 1
    <3>1. m[k].length = uris[k \div 2].path
      BY <1>1, <2>4
    <3>. QED
      BY <2>4, <3>1 DEF n
  <2>. QED
    BY <2>1, <2>2, <2>3, <2>4
<1>6. \A k \in 1 .. Len(m) :
         WithKey(s, SubSeq(m, 1, k - 1), m[k].key, m[k].length, m[k].value) = SubSeq(m, 1, k)
  BY <1>1, <1>5, NextFits
<1> HIDE DEF s
<1> DEFINE S == {i \in 0 .. n : g[i] = SubSeq(m, 1, 2 * i + 1)}
<1>7. 0 \in S
  <2>1. 1 \in 1 .. Len(m) /\ SubSeq(m, 1, 1 - 1) = << >> /\ 2 * 0 + 1 = 1
    BY <1>1, <1>2
  <2>2. WithKey(s, SubSeq(m, 1, 1 - 1), m[1].key, m[1].length, m[1].value) = SubSeq(m, 1, 1)
    BY <1>6, <2>1
  <2>3. m[1].key = CountKey /\ m[1].length = 1 /\ m[1].value = n
    BY <1>1
  <2>4. g[0] = SubSeq(m, 1, 1)
    BY <1>4, <2>1, <2>2, <2>3
  <2>. QED
    BY <1>2, <2>1, <2>4
<1>8. ASSUME NEW i \in 1 .. n, i - 1 \in S PROVE i \in S
  <2>1. /\ 2 * i \in 1 .. Len(m) /\ 2 * i + 1 \in 1 .. Len(m) /\ i \in 0 .. n
        /\ 2 * (i - 1) + 1 = 2 * i - 1 /\ (2 * i + 1) - 1 = 2 * i
    BY <1>1, <1>2
  <2>2. g[i - 1] = SubSeq(m, 1, 2 * i - 1)
    BY <1>8, <2>1
  <2>3. /\ m[2 * i].key = TypeKey(i) /\ m[2 * i].length = DevTypeLength
        /\ m[2 * i].value = uris[i].devType
    BY <1>1
  <2>4. /\ m[2 * i + 1].key = PathKey(i) /\ m[2 * i + 1].length = uris[i].path
        /\ m[2 * i + 1].value = uris[i].path
    BY <1>1
  <2>5. WithKey(s, g[i - 1], TypeKey(i), DevTypeLength, uris[i].devType) = SubSeq(m, 1, 2 * i)
    <3>1. WithKey(s, SubSeq(m, 1, 2 * i - 1), m[2 * i].key, m[2 * i].length, m[2 * i].value)
             = SubSeq(m, 1, 2 * i)
      BY <1>6, <2>1
    <3>. QED
      BY <2>2, <2>3, <3>1
  <2>6. WithKey(s, SubSeq(m, 1, 2 * i), PathKey(i), uris[i].path, uris[i].path)
           = SubSeq(m, 1, 2 * i + 1)
    <3>1. WithKey(s, SubSeq(m, 1, (2 * i + 1) - 1), m[2 * i + 1].key, m[2 * i + 1].length,
                  m[2 * i + 1].value) = SubSeq(m, 1, 2 * i + 1)
      BY <1>6, <2>1
    <3>. QED
      BY <2>1, <2>4, <3>1
  <2>7. g[i] = SubSeq(m, 1, 2 * i + 1)
    BY <1>4, <2>5, <2>6 DEF Put
  <2>. QED
    BY <2>1, <2>7
<1> HIDE DEF S
<1>9. \A i \in 0 .. n : i \in S
  BY <1>2, <1>7, <1>8, UpTo
<1>10. n \in S
  BY <1>2, <1>9
<1>11. g[n] = SubSeq(m, 1, 2 * n + 1)
  BY <1>10 DEF S
<1>12. SubSeq(m, 1, 2 * n + 1) = m
  BY <1>1
<1>. QED
  BY <1>4, <1>11, <1>12 DEF s, m

(* And its reader finds every key of it. *)
LEMMA WholeIsParsed ==
  ASSUME NEW uris \in Seq(Resource), uris # << >>,
         \A i \in 1 .. Len(uris) : uris[i].path \in 1 .. UriNameMax,
         NEW s \in Int, Used(Whole(uris)) + Reserved + ParsedSize * Len(uris) <= s
  PROVE  uriParseMessage(s, Whole(uris)) = uris
<1> DEFINE n == Len(uris)
           m == Whole(uris)
<1>1. /\ m \in Seq(Block) /\ Len(m) = 2 * n + 1
      /\ m[1].key = CountKey /\ m[1].length = 1 /\ m[1].value = n
      /\ \A i \in 1 .. n :
            /\ m[2 * i].key = TypeKey(i) /\ m[2 * i].length = DevTypeLength
            /\ m[2 * i].value = uris[i].devType
            /\ m[2 * i + 1].key = PathKey(i) /\ m[2 * i + 1].length = uris[i].path
            /\ m[2 * i + 1].value = uris[i].path
      /\ \A k \in 1 .. 2 * n + 1 : m[k].key = k - 1
  BY WholeHas, Zenon
<1>2. n \in Nat /\ n >= 1
  OBVIOUS
<1>3. \A i \in 1 .. n : uris[i].path >= 1 /\ uris[i].path <= UriNameMax
  BY TlvConstants
<1>4. AllRight(uris, m)
  <2>1. Used(m) + Reserved \in Nat
    BY <1>1, UsedIsNat DEF Reserved
  <2>2. uriResourcesCreate(Used(m) + Reserved, uris) = m
    BY <1>3, CreatedIsWhole
  <2>. QED
    BY <2>1, <2>2, CreatedIsRight
<1> HIDE DEF n, m
<1>5. Used(m) \in Nat /\ ParsedSize * n \in Nat
  <2>1. ParsedSize \in Nat
    BY TlvConstants DEF ParsedSize, DevTypeLength
  <2>. QED
    BY <1>1, <1>2, <2>1, UsedIsNat
<1>6. Used(m) + Reserved <= s /\ ParsedSize * n <= s - (Used(m) + Reserved)
  BY <1>5 DEF m, n, Reserved
<1>7. Used(m) > Header + 1
  <2>1. 2 \in 1 .. Len(m) /\ 2 * 1 = 2 /\ 1 \in 1 .. n
    BY <1>1, <1>2
  <2>2. m[2].length = DevTypeLength
    BY <1>1, <2>1
  <2>3. /\ Used(SubSeq(m, 1, 2 - 1)) \in Nat
        /\ Used(SubSeq(m, 1, 2 - 1)) + Header + m[2].length <= Used(m)
    BY <1>1, <2>1, BlocksAreInside
  <2>. QED
    BY <1>5, <2>2, <2>3 DEF Header, DevTypeLength
<1>8. ASSUME NEW k \in 1 .. 2 * n + 1
      PROVE  keyGet(s, m, m[k].key) =
                [result |-> "exist", length |-> m[k].length, value |-> m[k].value]
  <2>1. \A j \in 1 .. k - 1 : m[j].key # m[k].key
    BY <1>1
  <2>2. k \in 1 .. Len(m)
    BY <1>1
  <2>. QED
    BY <1>1, <1>6, <1>7, <2>1, <2>2, KeyIsGot
<1>9. keyGet(s, m, CountKey) = [result |-> "exist", length |-> 1, value |-> n]
  <2>1. 1 \in 1 .. 2 * n + 1
    BY <1>2
  <2>. QED
    BY <1>1, <1>8, <2>1
<1>10. ASSUME NEW i \in 1 .. n
       PROVE  /\ keyGet(s, m, TypeKey(i)).result = "exist"
              /\ keyGet(s, m, TypeKey(i)).length <= DevTypeLength
              /\ keyGet(s, m, PathKey(i)).result = "exist"
              /\ keyGet(s, m, PathKey(i)).length <= UriNameMax
  <2>1. 2 * i \in 1 .. 2 * n + 1 /\ 2 * i + 1 \in 1 .. 2 * n + 1
    BY <1>2
  <2>2. /\ m[2 * i].key = TypeKey(i) /\ m[2 * i].length = DevTypeLength
        /\ m[2 * i + 1].key = PathKey(i) /\ m[2 * i + 1].length = uris[i].path
    BY <1>1
  <2>3. /\ keyGet(s, m, m[2 * i].key).result = "exist"
        /\ keyGet(s, m, m[2 * i].key).length = m[2 * i].length
        /\ keyGet(s, m, m[2 * i + 1].key).result = "exist"
        /\ keyGet(s, m, m[2 * i + 1].key).length = m[2 * i + 1].length
    <3>1. ASSUME NEW k \in 1 .. 2 * n + 1
          PROVE  /\ keyGet(s, m, m[k].key).result = "exist"
                 /\ keyGet(s, m, m[k].key).length = m[k].length
      <4>1. keyGet(s, m, m[k].key) =
               [result |-> "exist", length |-> m[k].length, value |-> m[k].value]
        BY <1>8, Zenon
      <4>. QED
        BY <4>1
    <3>. QED
      BY <2>1, <3>1
  <2>. QED
    BY <1>3, <2>2, <2>3 DEF DevTypeLength
<1>11. uriParseMessage(s, m) =
          [i \in 1 .. n |-> [devType |-> keyGet(s, m, TypeKey(i)).value,
                             path |-> keyGet(s, m, PathKey(i)).value]]
  <2>1. keyGet(s, m, CountKey).result = "exist" /\ keyGet(s, m, CountKey).value = n
    BY <1>9
  <2>. QED
    BY <1>6, <1>10, <2>1, Zenon DEF uriParseMessage
<1>12. uriParseMessage(s, m) # << >>
  <2>1. DOMAIN uriParseMessage(s, m) = 1 .. n
    BY <1>11
  <2>2. 1 \in 1 .. n /\ DOMAIN << >> = {}
    BY <1>2
  <2>. QED
    BY <2>1, <2>2
<1>. QED
  BY <1>1, <1>4, <1>12, RightIsParsed DEF m

LEMMA TimesGrows ==
  ASSUME NEW a \in Nat, NEW b \in Nat, NEW c \in Nat, b <= c
  PROVE  a * b <= c * a
<1>1. c - b \in Nat /\ c * a = a * b + (c - b) * a
  OBVIOUS
<1>2. (c - b) * a \in Nat /\ a * b \in Nat
  BY <1>1
<1>. QED
  BY <1>1, <1>2

(* The reader's buffer is large enough: no list is longer than the longest. *)
LEMMA ReaderHasRoom ==
  ASSUME NEW uris \in Seq(Resource), uris # << >>, Len(uris) <= UrisPerDevice,
         \A i \in 1 .. Len(uris) : uris[i].path <= UriNameMax
  PROVE  LET payload == uriResourcesCalculateBufSize(uris)
         IN /\ uriParseMessageCalculateBufSize(payload) \in Nat
            /\ payload + ParsedSize * Len(uris) <= uriParseMessageCalculateBufSize(payload)
<1> DEFINE n == Len(uris)
           w == [i \in 1 .. n |-> uris[i].path]
           v == [i \in 1 .. UrisPerDevice |-> UriNameMax]
           few == ListLengths(n, w)
           many == ListLengths(UrisPerDevice, v)
           payload == uriResourcesCalculateBufSize(uris)
<1>1. /\ n \in Nat /\ n # 0 /\ DOMAIN uris = 1 .. n
      /\ \A i \in 1 .. n : uris[i] \in Resource
      /\ UriNameMax \in Nat /\ UrisPerDevice \in Nat /\ UrisPerDevice # 0 /\ n <= UrisPerDevice
  BY TlvConstants
<1>2. w \in [1 .. n -> Nat] /\ \A i \in 1 .. n : w[i] = uris[i].path /\ w[i] <= UriNameMax
  BY <1>1, TlvConstants DEF Resource
<1>3. v \in [1 .. UrisPerDevice -> Nat] /\ \A i \in 1 .. UrisPerDevice : v[i] = UriNameMax
  BY <1>1
<1>4. payload = calcualeBuffer(few)
  BY SizeIsOfLengths
<1>5. uriParseMessageCalculateBufSize(payload) =
         IF payload > calcualeBuffer(many) THEN 0 ELSE payload + UrisPerDevice * ParsedSize
  <2>1. [i \in 1 .. UrisPerDevice |-> <<DevTypeLength, UriNameMax>>] =
        [i \in 1 .. UrisPerDevice |-> <<DevTypeLength, v[i]>>]
    <3> HIDE DEF v
    <3>. QED
      BY <1>3
  <2>. QED
    BY <2>1, Zenon DEF uriParseMessageCalculateBufSize, ListLengths
<1> HIDE DEF n, w, v, payload
<1>6. /\ few \in Seq(Nat) /\ Len(few) = 2 * n + 1 /\ few[1] = 1
      /\ \A i \in 1 .. n : few[2 * i] = DevTypeLength /\ few[2 * i + 1] = w[i]
  BY <1>1, <1>2, ListLengthsAre
<1>7. /\ many \in Seq(Nat) /\ Len(many) = 2 * UrisPerDevice + 1 /\ many[1] = 1
      /\ \A i \in 1 .. UrisPerDevice : many[2 * i] = DevTypeLength /\ many[2 * i + 1] = v[i]
  BY <1>1, <1>3, ListLengthsAre
<1> HIDE DEF few, many
<1>8. ASSUME NEW k \in 1 .. Len(few) PROVE few[k] <= many[k]
  <2>. k \in 1 .. 2 * n + 1
    BY <1>6, Zenon
  <2>1. \/ k = 1
        \/ k \div 2 \in 1 .. n /\ (k = 2 * (k \div 2) \/ k = 2 * (k \div 2) + 1)
    BY <1>1, PlaceIs, Zenon
  <2>2. CASE k = 1
    BY <1>6, <1>7, <2>2
  <2>3. CASE k \div 2 \in 1 .. n /\ k = 2 * (k \div 2)
    <3>1. k \div 2 \in 1 .. UrisPerDevice
      BY <1>1, <2>3
    <3>2. few[k] = DevTypeLength /\ many[k] = DevTypeLength
      BY <1>6, <1>7, <2>3, <3>1
    <3>. QED
      BY <3>2 DEF DevTypeLength
  <2>4. CASE k \div 2 \in 1 .. n /\ k = 2 * (k \div 2) + 1
    <3>1. k \div 2 \in 1 .. UrisPerDevice
      BY <1>1, <2>4
    <3>2. few[k] = w[k \div 2] /\ many[k] = v[k \div 2]
      BY <1>6, <1>7, <2>4, <3>1
    <3>3. w[k \div 2] <= UriNameMax /\ v[k \div 2] = UriNameMax
      BY <1>2, <1>3, <2>4, <3>1
    <3>. QED
      BY <3>2, <3>3
  <2>. QED
    BY <2>1, <2>2, <2>3, <2>4
<1>9. Len(few) <= Len(many)
  BY <1>1, <1>6, <1>7
<1>10. /\ calcualeBuffer(few) \in Nat /\ calcualeBuffer(many) \in Nat
       /\ calcualeBuffer(few) <= calcualeBuffer(many)
  BY <1>6, <1>7, <1>8, <1>9, CalcGrows
<1>11. ParsedSize \in Nat
  BY TlvConstants DEF ParsedSize, DevTypeLength
<1>12. ParsedSize * n <= UrisPerDevice * ParsedSize
  BY <1>1, <1>11, TimesGrows
<1>13. UrisPerDevice * ParsedSize \in Nat /\ ParsedSize * n \in Nat
  BY <1>1, <1>11
<1>14. uriParseMessageCalculateBufSize(payload) = payload + UrisPerDevice * ParsedSize
  BY <1>4, <1>5, <1>10
<1>. QED
  BY <1>4, <1>10, <1>12, <1>13, <1>14 DEF n, payload

LEMMA ExchangeKeeps ==
  ASSUME NEW uris \in SeqOf([devType : DevTypes, path : Paths], UrisPerDevice),
         NEW short \in 0 .. 1, Exchange(uris, short)
  PROVE  ParsedIsOffered'
<1> DEFINE n == Len(uris)
           s == uriResourcesCalculateBufSize(uris) - short
           msg == uriResourcesCreate(s, uris)
           room == uriParseMessageCalculateBufSize(Used(msg) + Reserved)
<1>1. PICK m \in 0 .. UrisPerDevice : uris \in [1 .. m -> Resource]
  BY DEF SeqOf, Resource
<1>2. uris \in Seq(Resource) /\ n <= UrisPerDevice /\ n \in Nat
  <2>1. m \in Nat /\ m <= UrisPerDevice
    BY TlvConstants
  <2>. QED
    BY <1>1, <2>1
<1>3. /\ uris # << >> /\ offered' = uris /\ size' = s
      /\ parsed' = uriParseMessage(room, msg)
  BY DEF Exchange
<1>4. uriResourcesCalculateBufSize(uris) = Used(Whole(uris)) + Reserved /\ Used(Whole(uris)) \in Nat
  BY <1>2, <1>3, SizeIsOfWhole
<1>5. s \in Nat
  BY <1>4 DEF Reserved
<1>6. msg \in Seq(Block) /\ AllRight(uris, msg)
  BY <1>2, <1>5, CreatedIsRight
<1>7. parsed' # << >> => parsed' = offered'
  BY <1>2, <1>3, <1>6, RightIsParsed
<1>8. ASSUME \A i \in 1 .. n : uris[i].path \in 1 .. UriNameMax,
             s = uriResourcesCalculateBufSize(uris)
      PROVE  parsed' = offered'
  <2>1. \A i \in 1 .. n : uris[i].path >= 1 /\ uris[i].path <= UriNameMax
    BY <1>8, TlvConstants
  <2>2. msg = Whole(uris)
    BY <1>2, <1>3, <1>4, <1>8, <2>1, CreatedIsWhole
  <2>3. room = uriParseMessageCalculateBufSize(uriResourcesCalculateBufSize(uris))
    BY <1>4, <2>2
  <2>4. /\ room \in Nat
        /\ uriResourcesCalculateBufSize(uris) + ParsedSize * n <= room
    BY <1>2, <1>3, <2>1, <2>3, ReaderHasRoom
  <2>5. Used(Whole(uris)) + Reserved + ParsedSize * Len(uris) <= room
    BY <1>4, <2>4
  <2>6. uriParseMessage(room, Whole(uris)) = uris
    BY <1>2, <1>3, <1>8, <2>4, <2>5, WholeIsParsed
  <2>. QED
    BY <1>3, <2>2, <2>6
<1>9. DOMAIN uris = 1 .. n
  BY <1>2
<1>. QED
  BY <1>3, <1>7, <1>8, <1>9 DEF ParsedIsOffered

(* A reader has all that the device offers, in its order, or nothing; and   *)
(* all of it if the paths are neither empty nor too long and the buffer has *)
(* the calculated size (otapp_pair_uriResourcesCreate, ..._uriParseMessage). *)
THEOREM OfferedIsParsed == TlvSpec => []ParsedIsOffered
<1>1. TlvInit => ParsedIsOffered
  BY DEF TlvInit, ParsedIsOffered
<1>2. ParsedIsOffered /\ [TlvNext]_tlvVars => ParsedIsOffered'
  <2> SUFFICES ASSUME ParsedIsOffered, [TlvNext]_tlvVars PROVE ParsedIsOffered'
    OBVIOUS
  <2>1. ASSUME NEW key \in TlvKeys, NEW length \in TlvLens, NEW value \in BOOLEAN,
               Add(key, length, value)
        PROVE  ParsedIsOffered'
    BY <2>1 DEF Add, ParsedIsOffered
  <2>2. ASSUME NEW uris \in SeqOf([devType : DevTypes, path : Paths], UrisPerDevice),
               NEW short \in 0 .. 1, Exchange(uris, short)
        PROVE  ParsedIsOffered'
    BY <2>2, ExchangeKeeps
  <2>3. CASE UNCHANGED tlvVars
    BY <2>3 DEF tlvVars, ParsedIsOffered
  <2>. QED
    BY <2>1, <2>2, <2>3 DEF TlvNext
<1>. QED
  BY <1>1, <1>2, PTL DEF TlvSpec

=============================================================================
