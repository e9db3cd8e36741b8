--------------------------------- MODULE Fx ---------------------------------
(***************************************************************************)
(* The effect engine of src/libs/ws2812b/src/ws2812b_fx.c: a strip divided *)
(* into segments, each with an effect (module Effects), a speed and a soft *)
(* timer.  The application calls the WS2812BFX_ functions, the main loop   *)
(* calls WS2812BFX_Callback and the system tick WS2812BFX_SysTickCallback. *)
(* The application calls what it likes for any segment: in particular it   *)
(* resizes and divides while effects run.                                  *)
(*                                                                         *)
(* Several functions read the segment served last (mActualSegment) instead *)
(* of the one asked for.  After a division by fewer it may be gone: what   *)
(* is then read beyond the array is any value; a write there (the wrap in  *)
(* NextMode and PrevMode) is not modelled.                                 *)
(***************************************************************************)
EXTENDS Effects

CONSTANTS MaxSegments,   \* bound on the number of segments
          Modes,         \* the modes the application uses in each segment
          Speeds,        \* the speeds it sets there
          Turns,         \* the directions it sets there
          SpeedMin, SpeedMax, DefaultSpeed

ASSUME FxConstants ==
    /\ MaxSegments \in 1..Leds
    /\ Modes \in [0 .. MaxSegments - 1 -> SUBSET (0 .. ModeCount - 1)]
    /\ Turns \in [0 .. MaxSegments - 1 -> SUBSET BOOLEAN]
    /\ SpeedMin \in Nat /\ SpeedMax \in Nat /\ DefaultSpeed \in SpeedMin..SpeedMax
    /\ Speeds \in [0 .. MaxSegments - 1 -> SUBSET (0..SpeedMax)]

VARIABLES seg,         \* Ws28b12b_Segments, indexed from 0
          actual,      \* mActualSegment
          anyRunning,  \* mRunning
          stray,       \* <<k, i>>: the last call wrote LED i for segment k,
                       \* and it is not an LED of k
          moved,       \* when the borders of a segment were set last: "never",
                       \* "before" or "since" its effect was begun
          overlaid     \* SetSegmentSize put a segment over another since the
                       \* strip was divided

fxVars == <<seg, actual, anyRunning, stray, moved, overlaid>>

Segments == DOMAIN seg
NoCallback == -1       \* a new segment: mModeCallback is NULL

\* Writing these LEDs for segment k, off the strip included.
Written(k, leds) == {<<k, i>> : i \in leds \ (All(seg[k]) \cap Strip)}
\* The driver drops LEDs off the strip, but not where it is given a colour
\* structure, as by mode_static.
Reached(s, leds) == IF s.callback = 0 THEN leds ELSE leds \cap Strip

\* The counters of an effect start anew.
Begun(k) == moved' = [moved EXCEPT ![k] = IF @ = "never" THEN @ ELSE "before"]

NewSegment(start, stop) ==
    [start |-> start, stop |-> stop, running |-> FALSE, mode |-> 0,
     callback |-> NoCallback, reverse |-> FALSE, call |-> 0, step |-> 0,
     speed |-> DefaultSpeed, aux16 |-> 0, cycle |-> FALSE, delay |-> 0]

\* The part of the strip segment i gets when it is divided by n.
Share(n) == (Leds + 1) \div n
Division(n, i) == [start |-> i * Share(n), stop |-> (i + 1) * Share(n) - 1]
Clipped(stop) == IF stop >= Leds THEN Leds - 1 ELSE stop

\* WS2812BFX_Init for the first time.
FxInit ==
    /\ \E n \in 1..MaxSegments :
           seg = [i \in 0 .. n - 1 |-> NewSegment(Division(n, i).start,
                                                  Clipped(Division(n, i).stop))]
    /\ actual = 0
    /\ anyRunning = FALSE
    /\ stray = {} /\ moved = [k \in Segments |-> "never"] /\ overlaid = FALSE

------------------------------------------------------------------------------
(* WS2812BFX_Init again, by one segment more or less.  The stop of a kept   *)
(* segment is not clipped: the code clips the one in the old array.         *)
Redivide(n) ==
    /\ seg' = [i \in 0 .. n - 1 |->
                 IF i \in Segments
                 THEN [seg[i] EXCEPT !.start = Division(n, i).start,
                                     !.stop = Division(n, i).stop]
                 ELSE NewSegment(Division(n, i).start, Leds - 1)]
    /\ moved' = [i \in 0 .. n - 1 |-> IF i \in Segments THEN "since" ELSE "never"]
    /\ overlaid' = FALSE /\ stray' = {}
    /\ UNCHANGED <<actual, anyRunning>>

SegmentIncrease ==
    LET n == Cardinality(Segments)
    IN n < Leds - 1 /\ n < MaxSegments /\ Redivide(n + 1)
SegmentDecrease ==
    LET n == Cardinality(Segments) IN n > 1 /\ Redivide(n - 1)

SetMode(k, m) ==
    /\ seg' = [seg EXCEPT ![k].call = 0, ![k].step = 0, ![k].mode = m,
                          ![k].callback = m]
    /\ Begun(k) /\ stray' = {}
    /\ UNCHANGED <<actual, anyRunning, overlaid>>

\* ActualMode of the segment served last.
ModeServed(s) == IF actual \in DOMAIN s THEN {s[actual].mode} ELSE 0..255

\* Steps the mode of k; the wrap, and the function it gets, go by the mode of
\* the segment served last.  A mode beyond the table has no function, and what
\* is then called is not modelled.  Bound: only modes in use are stepped to.
StepMode(k, mode, beyond, wrapped) ==
    LET s == [seg EXCEPT ![k].call = 0, ![k].step = 0, ![k].mode = mode]
        wrap == IF beyond THEN [s EXCEPT ![actual].mode = wrapped] ELSE s
    IN /\ beyond => actual \in Segments
       /\ wrap[k].mode \in Modes[k]
       /\ \E m \in ModeServed(wrap) \cap UNION {Modes[j] : j \in DOMAIN Modes} :
            seg' = [wrap EXCEPT ![k].callback = m]
       /\ Begun(k) /\ stray' = {}
       /\ UNCHANGED <<actual, anyRunning, overlaid>>
NextMode(k) ==
    LET mode == (seg[k].mode + 1) % 256 IN StepMode(k, mode, mode >= ModeCount, 0)
\* Going down from mode 1 stores ModeCount, and from mode 0 the byte wraps:
\* both are beyond the table.
PrevMode(k) ==
    LET mode == (seg[k].mode + 255) % 256 IN StepMode(k, mode, mode = 0, ModeCount)

SetReverse(k, r) ==
    /\ seg' = [seg EXCEPT ![k].reverse = r]
    /\ stray' = {} /\ UNCHANGED <<actual, anyRunning, moved, overlaid>>

------------------------------------------------------------------------------
(* The borders of a segment; its old LEDs are set black first.              *)

Between(k, start, stop) ==
    \A j \in Segments : /\ j < k => seg[j].stop < start
                        /\ j > k => stop < seg[j].start
Resize(k, start, stop) ==
    /\ seg' = [seg EXCEPT ![k].start = start, ![k].stop = stop]
    /\ moved' = [moved EXCEPT ![k] = "since"]
    /\ stray' = {} /\ UNCHANGED <<actual, anyRunning>>
\* A border moves by one.
Move(k, start, stop) == Resize(k, start, stop) /\ UNCHANGED overlaid

SegmentIncreaseStart(k) ==
    /\ seg[k].stop - seg[k].start > 0
    /\ Move(k, seg[k].start + 1, seg[k].stop)
SegmentDecreaseStart(k) ==
    /\ IF k > 0 THEN seg[k-1].stop < seg[k].start - 1 ELSE 0 < seg[k].start
    /\ Move(k, seg[k].start - 1, seg[k].stop)
\* Mutant: a segment may grow onto its neighbour's first LED.
SegmentIncreaseEnd_Touching(k) ==
    /\ IF k + 1 \in Segments THEN seg[k].stop <= seg[k+1].start - 1
                             ELSE seg[k].stop < Leds - 1
    /\ Move(k, seg[k].start, seg[k].stop + 1)
SegmentIncreaseEnd(k) ==
    /\ IF k + 1 \in Segments THEN seg[k].stop < seg[k+1].start - 1
                             ELSE seg[k].stop < Leds - 1
    /\ Move(k, seg[k].start, seg[k].stop + 1)
SegmentDecreaseEnd(k) ==
    /\ seg[k].stop - seg[k].start > 0
    /\ Move(k, seg[k].start, seg[k].stop - 1)
\* The last LED cannot be asked for; the neighbours are not looked at.
SetSegmentSize(k, start, stop) ==
    /\ start < Leds - 1 /\ stop < Leds - 1 /\ start <= stop
    /\ Resize(k, start, stop)
    /\ overlaid' = (overlaid \/ ~Between(k, start, stop))

------------------------------------------------------------------------------
(* Running and speed.                                                       *)

\* A segment without a mode has no function to call: SetMode comes first.
Start(k) ==
    /\ seg[k].callback # NoCallback
    /\ seg' = [seg EXCEPT ![k].call = 0, ![k].step = 0, ![k].delay = 0,
                          ![k].running = TRUE]
    /\ anyRunning' = TRUE
    /\ Begun(k) /\ stray' = {}
    /\ UNCHANGED <<actual, overlaid>>

IsAnyRunning(s) == \E k \in DOMAIN s : s[k].running
Stopped(k) ==
    /\ seg' = [seg EXCEPT ![k].running = FALSE]
    /\ anyRunning' = (anyRunning /\ IsAnyRunning(seg'))
    /\ UNCHANGED <<actual, moved, overlaid>>
Stop(k) == Stopped(k) /\ stray' = {}

\* Stops the segment and paints as many LEDs as the segment served last has.
LengthServed == IF actual \in Segments THEN {Length(seg[actual])} ELSE 0 .. Leds + 1
ForceAllColor(k) ==
    /\ Stopped(k)
    /\ \E n \in LengthServed :
         stray' = Written(k, {seg[k].start + i : i \in 0 .. n - 1} \cap Strip)

InRange(v) == IF v < SpeedMin THEN SpeedMin
              ELSE IF v > SpeedMax - 1 THEN SpeedMax ELSE v
SetSpeed(k, v) ==
    /\ seg' = [seg EXCEPT ![k].speed = InRange(v)]
    /\ stray' = {} /\ UNCHANGED <<actual, anyRunning, moved, overlaid>>
\* A step up or down from the speed of the segment served last, in 16 bits.
\* Once that is gone it is any speed; bounded here to those set for k.
SpeedServed(k) == IF actual \in Segments THEN {seg[actual].speed} ELSE Speeds[k]
IncreaseSpeed(k, d) ==
    \E v \in SpeedServed(k) : SetSpeed(k, (v + d) % (SpeedMax + 1))
DecreaseSpeed(k, d) ==
    \E v \in SpeedServed(k) : SetSpeed(k, (v + SpeedMax + 1 - d) % (SpeedMax + 1))

------------------------------------------------------------------------------
(* The clock and the main loop.                                             *)

\* Ticks go by until the soft timers of some segments have run out.  The
\* time left to the others is not kept: any of them may be next.
SysTickCallback ==
    LET pending == {k \in Segments : seg[k].delay > 0}
    IN \E out \in SUBSET pending \ {{}} :
         /\ seg' = [k \in Segments |-> IF k \in out THEN [seg[k] EXCEPT !.delay = 0]
                                                    ELSE seg[k]]
         /\ stray' = {} /\ UNCHANGED <<actual, anyRunning, moved, overlaid>>

\* CounterModeCall counts without end.  The effects use its remainders by 2
\* and 9 and whether it is 0: after 18 comes 1; the others tell only the first.
CallUsers == {3, 4, 5, 6, 37, 38}
NextCall(s) == IF s.callback \in CallUsers \cup {22, 23}
               THEN IF s.call < 18 THEN s.call + 1 ELSE 1
               ELSE 1

\* Serves every running segment whose timer has run out, in order.
Due == {k \in Segments : seg[k].delay = 0 /\ seg[k].running}
Callback ==
    /\ anyRunning /\ Due # {}
    /\ \E out \in [Due -> UNION {Effect(seg[k]) : k \in Due}] :
         /\ \A k \in Due : out[k] \in Effect(seg[k])
         /\ seg' = [k \in Segments |->
                      IF k \in Due
                      THEN [out[k].seg EXCEPT !.call = NextCall(out[k].seg)]
                      ELSE seg[k]]
         /\ stray' = UNION {Written(k, Reached(seg[k], out[k].lit)) : k \in Due}
    /\ actual' = Max(Due)
    /\ UNCHANGED <<anyRunning, moved, overlaid>>

FxNext ==
    \/ SegmentIncrease \/ SegmentDecrease
    \/ \E k \in Segments :
          \/ \E m \in Modes[k] : SetMode(k, m)
          \/ NextMode(k) \/ PrevMode(k)
          \/ \E r \in Turns[k] : SetReverse(k, r)
          \/ SegmentIncreaseStart(k) \/ SegmentDecreaseStart(k)
          \/ SegmentIncreaseEnd(k) \/ SegmentDecreaseEnd(k)
          \/ \E a, b \in Strip : SetSegmentSize(k, a, b)
          \/ Start(k) \/ Stop(k) \/ ForceAllColor(k)
          \/ \E v \in Speeds[k] : SetSpeed(k, v)
          \/ \E w \in Speeds[k], v \in SpeedServed(k) :
                IF v < w THEN IncreaseSpeed(k, w - v) ELSE DecreaseSpeed(k, v - w)
    \/ SysTickCallback \/ Callback

FxSpec == FxInit /\ [][FxNext]_fxVars

------------------------------------------------------------------------------
\* What it takes for an effect to leave its segment: the chases and the eyes
\* count over the whole strip; the scanners, and what the eyes leave to a
\* sparkle, need two LEDs; a sparkle puts out an LED drawn before the borders
\* moved; the effects that keep a position trust it when they move meanwhile;
\* and mode_static goes one LED past the strip with a stop past it.
Roams(k) ==
    LET m == seg[k].callback
    IN \/ m \in Chases \cup {57} /\ Length(seg[k]) < Leds
       \/ m \in {20, 21, 29, 30, 45} /\ Length(seg[k]) = 1
       \/ m \in {29, 30} /\ moved[k] # "never"
       \/ m \in (8 .. 13) \cup {37, 38, 45, 46} /\ moved[k] = "since"
       \/ m = 0 /\ seg[k].stop = Leds

(* Nothing else leaves its segment: whatever the application called before, *)
(* and with whatever counters, an LED outside is only written by an effect  *)
(* under the conditions of Roams, and by ForceAllColor for a segment that   *)
(* was not served last.                                                     *)
StaysHome ==
    \A w \in stray : IF seg[w[1]].running THEN Roams(w[1]) ELSE w[1] # actual

(* Segments have LEDs, and stay in order and apart however they are grown,  *)
(* shrunk and divided again, running or not, as long as SetSegmentSize,     *)
(* which does not look at the neighbours, puts none over another.           *)
SegmentsApart ==
    /\ \A k \in Segments : seg[k].start <= seg[k].stop
    /\ ~overlaid => \A j, k \in Segments : j < k => seg[j].stop < seg[k].start
=============================================================================
