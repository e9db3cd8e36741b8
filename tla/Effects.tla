------------------------------ MODULE Effects ------------------------------
(***************************************************************************)
(* The light effects of src/libs/ws2812b/src/ws2812b_fx.c as functions of  *)
(* one segment.  An effect is called when its segment is due; it writes    *)
(* LEDs, moves the segment's counters on and says when it wants to be      *)
(* called again.  Each operator below, named after the function it stands  *)
(* for, is the set of possible outcomes [seg, lit]: the segment after the  *)
(* call and the LED indices written, in any colour.  Colours are not       *)
(* modelled, except for the saturation and value of the effect colour,     *)
(* which mode_white_to_color and mode_black_to_color count to.             *)
(* Two effects divide by zero in a segment of one LED (mode_larson_scanner *)
(* and mode_icu): on the Cortex-M and RISC-V cores the project builds for  *)
(* the remainder is then the dividend.                                     *)
(***************************************************************************)
EXTENDS Integers, FiniteSets, FiniteSetsExt

CONSTANTS Leds,      \* GetNumberOfLeds()
          Wheel,     \* values of a byte (colour wheel, brightness): 256 in the code
          Sat, Val,  \* saturation and value of the effect colour
          U32        \* 2^32: where an unsigned counter or subtraction wraps

ASSUME EffectConstants ==
    /\ Leds \in Nat \ {0} /\ Wheel \in Nat \ {0}
    /\ Sat \in 1..255 /\ Val \in 1..255 /\ U32 \in Nat /\ U32 > 20

Strip == 0 .. Leds - 1

\* struct ws2812bfx_s, without the colours.  callback is mModeCallback, the
\* mode whose function is called; mode is ActualMode.
Segment == [start : Nat, stop : Nat, running : BOOLEAN, mode : Nat,
            callback : Int, reverse : BOOLEAN, call : Nat, step : Nat,
            speed : Nat, aux16 : Nat, cycle : BOOLEAN, delay : Nat]

Length(s) == s.stop - s.start + 1
All(s) == s.start .. s.stop
Any(s) == {s.start + i : i \in 0 .. Length(s) - 1}   \* start + rand() % length
\* The LED i steps into the segment, from the end IS_REVERSE says.
At(s, i) == IF s.reverse THEN s.stop - i ELSE s.start + i
Larger(a, b) == IF a < b THEN b ELSE a
Dist(a, b) == IF a < b THEN b - a ELSE a - b

\* One outcome: counter, delay and written LEDs.
To(s, step, delay, lit) ==
    [seg |-> [s EXCEPT !.step = step, !.delay = delay], lit |-> lit]
\* An effect that paints the whole segment and comes back after speed.
Paint(s, step) == {To(s, step, s.speed, All(s))}

fade_out(s) == All(s)
mode_static(s) == Paint(s, s.step)
mode_random_color(s) == Paint(s, s.step)
mode_multi_dynamic(s) == Paint(s, s.step)
fire_flicker(s) == Paint(s, s.step)
mode_rainbow(s) == Paint(s, (s.step + 1) % Wheel)
mode_rainbow_cycle(s) == Paint(s, (s.step + 1) % Wheel)
mode_running_lights(s) == Paint(s, (s.step + 1) % Wheel)
mode_fade(s) == Paint(s, IF s.step + 4 > 2 * Wheel - 1 THEN 0 ELSE s.step + 4)
running(s) == Paint(s, (s.step + 1) % 4)
\* The code lets the counter grow; only its remainder by 6 is used.
tricolor_chase(s) == Paint(s, (s.step + 1) % 6)
twinkle_fade(s) == {To(s, s.step, s.speed, fade_out(s) \cup {i}) : i \in Any(s)}
fireworks(s) == {To(s, s.step, s.speed, fade_out(s) \cup {i}) : i \in Any(s)}

\* Counts to the saturation (from white) or the value (from black) and back.
to_color(s, full) ==
    LET up == ~s.cycle /\ s.step < full
        down == s.cycle /\ s.step > 0
    IN {[seg |-> [s EXCEPT !.step = IF up THEN @ + 1 ELSE IF down THEN @ - 1 ELSE @,
                           !.cycle = IF up \/ down THEN @ ELSE ~@,
                           !.delay = (s.speed \div full) \div 2],
         lit |-> All(s)]}

\* A strobe is on for 20 ticks and off for the rest of its speed: the
\* subtraction is unsigned when it is stored.
blink(s, strobe) ==
    LET on == s.call % 2 = 0
        rest == IF s.speed < 20 THEN U32 + s.speed - 20 ELSE s.speed - 20
        delay == CASE strobe /\ on -> 20
                   [] strobe /\ ~on -> rest
                   [] OTHER -> s.speed \div 2
    IN {To(s, s.step, delay, All(s))}
mode_blink(s) == blink(s, FALSE)
mode_strobe(s) == blink(s, TRUE)

mode_breath(s) ==
    LET lum == IF s.step > Wheel - 1 THEN 2 * Wheel - 1 - s.step ELSE s.step
        delay == CASE lum = 15 -> 970 [] lum # 15 /\ lum <= 25 -> 38
                   [] lum \in 26..50 -> 36   [] lum \in 51..75 -> 28
                   [] lum \in 76..100 -> 20  [] lum \in 101..125 -> 14
                   [] lum \in 126..150 -> 11 [] OTHER -> 10
        step == s.step + 2
    IN {To(s, IF step > 2 * Wheel - 15 THEN 15 ELSE step, delay, All(s))}

\* One LED per call, first over the segment in one colour, then in the other.
color_wipe(s, rev) ==
    LET n == Length(s)
        off == IF s.step < n THEN s.step ELSE s.step - n
    IN {To(s, (s.step + 1) % (2 * n), s.speed,
           {IF rev THEN s.stop - off ELSE s.start + off})}
mode_color_wipe(s) == color_wipe(s, FALSE)
mode_color_wipe_rev(s) == color_wipe(s, TRUE)
mode_color_wipe_random(s) == color_wipe(s, FALSE)
mode_color_sweep_random(s) == color_wipe(s, TRUE)

\* The first call sets the last LED only (the loop starts at IdStop).
mode_single_dynamic(s) ==
    {To(s, s.step, s.speed, {i} \cup (IF s.call = 0 THEN {s.stop} ELSE {})) : i \in Any(s)}

\* The bound of the scanners is an int compared with an unsigned counter:
\* in a segment of one LED it is -1 and never reached.
ScanStep(s) == IF Length(s) > 1 /\ s.step > 2 * Length(s) - 3 THEN 0 ELSE s.step
mode_scan(s) ==
    LET off == Dist(ScanStep(s), Length(s) - 1)
    IN {To(s, (ScanStep(s) + 1) % U32, s.speed, All(s) \cup {At(s, off)})}
mode_dual_scan(s) ==
    LET off == Dist(ScanStep(s), Length(s) - 1)
    IN {To(s, (ScanStep(s) + 1) % U32, s.speed,
           (s.start .. s.stop - 1) \cup {s.start + off, s.start + Length(s) - off - 1})}

theater_chase(s, rainbow) ==
    {[seg |-> [s EXCEPT !.call = @ % 3, !.delay = s.speed,
                        !.step = IF rainbow THEN (@ + 1) % Wheel ELSE @],
      lit |-> {At(s, i) : i \in 0 .. Length(s) - 1}]}
mode_theater_chase(s) == theater_chase(s, FALSE)
mode_theater_chase_rainbow(s) == theater_chase(s, TRUE)

\* Lights LEDs one by one, as many as it drew when it cleared the segment.
twinkle(s) ==
    LET few == Larger(1, Leds \div 5)
        many == Larger(1, Leds \div 2)
    IN IF s.step = 0
       THEN {To(s, n - 1, s.speed, All(s)) : n \in few .. many}
       ELSE {To(s, s.step - 1, s.speed, {i}) : i \in Any(s)}

\* The sparkles put out the LED lit before, then light one at random.
Sparkle(s, j) == [s EXCEPT !.aux16 = j, !.delay = s.speed]
mode_sparkle(s) ==
    {[seg |-> Sparkle(s, j), lit |-> {s.start + s.aux16, s.start + j}]
        : j \in 0 .. Length(s) - 1}
\* The shorter delay of a flash is overwritten at once by the speed.
mode_flash_sparkle(s) ==
    LET before == {s.start + s.aux16} \cup (IF s.call = 0 THEN All(s) ELSE {})
    IN {[seg |-> Sparkle(s, s.aux16), lit |-> before]} \cup
       {[seg |-> Sparkle(s, j), lit |-> before \cup {s.start + j}]
           : j \in 0 .. Length(s) - 1}
mode_hyper_sparkle(s) == Paint(s, s.step)

mode_multi_strobe(s) ==
    LET count == 2 * ((s.speed \div 100) + 1)
        pause == 200 + (9 - (s.speed % 10)) * 100
        delay == CASE s.step < count /\ s.step % 2 = 0 -> 20
                   [] s.step < count /\ s.step % 2 = 1 -> 50
                   [] OTHER -> pause
    IN {To(s, (s.step + 1) % (count + 1), delay, All(s))}

\* The counter of a chase runs over the whole strip, not over the segment.
chase(s) ==
    LET a == s.step
        b == (a + 1) % Length(s)
        c == (b + 1) % Length(s)
    IN {[seg |-> [s EXCEPT !.step = (@ + 1) % Leds, !.delay = s.speed,
                           !.cycle = b = 0],
         lit |-> {At(s, a), At(s, b), At(s, c)}]}

FlashCount == 4
\* Four flashes of two LEDs, then one LED further.
mode_chase_flash(s) ==
    LET flash == s.call % (2 * FlashCount + 1)
        m == (s.step + 1) % Length(s)
    IN CASE flash = 2 * FlashCount -> {To(s, m, s.speed, All(s))}
         [] flash # 2 * FlashCount /\ flash % 2 = 0 ->
                {To(s, s.step, 20, All(s) \cup {At(s, s.step), At(s, m)})}
         [] OTHER -> {To(s, s.step, 30, All(s))}
mode_chase_flash_random(s) ==
    LET flash == s.call % (2 * FlashCount + 1)
        m == (s.step + 1) % Length(s)
        tail == {s.start + i : i \in 0 .. s.step - 1}
        pair == {s.start + s.step, s.start + m}
    IN IF flash = 2 * FlashCount
       THEN {To(s, m, s.speed, tail)}
       ELSE {To(s, s.step, IF flash % 2 = 0 THEN 20 ELSE 30, tail \cup pair)}

\* Shifts the segment by one LED; every second call brings a new colour in.
mode_running_random(s) ==
    {To(s, IF s.step = 0 THEN 1 ELSE 0, s.speed,
        {At(s, i) : i \in (IF s.step = 0 THEN 0 ELSE 1) .. Length(s) - 1})}

mode_larson_scanner(s) ==
    LET n == Length(s)
        off == IF s.step < n THEN s.step ELSE 2 * n - s.step - 2
        round == IF n = 1 THEN U32 ELSE 2 * n - 2
    IN {[seg |-> [s EXCEPT !.step = (@ + 1) % round, !.delay = s.speed,
                           !.cycle = TRUE],
         lit |-> fade_out(s) \cup {At(s, off)}]}
\* Mutant: the comet leaves the segment by one LED.
mode_comet_OneTooFar(s) ==
    {To(s, (s.step + 1) % (Length(s) + 1), s.speed, fade_out(s) \cup {At(s, s.step)})}
mode_comet(s) ==
    {To(s, (s.step + 1) % Length(s), s.speed, fade_out(s) \cup {At(s, s.step)})}

\* The modes drawn by chase(): 33..36, 39..41 and the bicolor chase.
Chases == {33, 34, 35, 36, 39, 40, 41, 55}

\* Two eyes half a strip apart that wander to a drawn position (aux16) and
\* blink there.  The delays of the pause are overwritten by the speed.  With
\* one LED any number is drawn; those beyond the strip make no difference.
mode_icu(s) ==
    LET half == Length(s) \div 2
        dest == s.step
        drawn == IF half = 0 THEN 0 .. Leds ELSE 0 .. half - 1
        goals == IF s.aux16 = dest THEN drawn ELSE {s.aux16}
        toward(g) == CASE g > dest -> dest + 1 [] g < dest -> dest - 1
                       [] OTHER -> dest
    IN {[seg |-> [s EXCEPT !.aux16 = g, !.step = toward(g), !.delay = s.speed],
         lit |-> {s.start + dest, s.start + dest + Leds \div 2,
                  s.start + dest + half, s.start + toward(g),
                  s.start + toward(g) + half}] : g \in goals}

\* mMode[]: the function of each mode, by number (FX_MODE_... of fx.h).
ModeCount == 58
Effect(s) ==
    CASE s.callback = 0 -> mode_static(s)
      [] s.callback = 1 -> to_color(s, Sat)
      [] s.callback = 2 -> to_color(s, Val)
      [] s.callback \in {3, 4} -> mode_blink(s)
      [] s.callback \in {5, 6} -> mode_strobe(s)
      [] s.callback = 7 -> mode_breath(s)
      [] s.callback \in {8, 9} -> mode_color_wipe(s)
      [] s.callback \in {10, 11} -> mode_color_wipe_rev(s)
      [] s.callback = 12 -> mode_color_wipe_random(s)
      [] s.callback = 13 -> mode_color_sweep_random(s)
      [] s.callback = 14 -> mode_random_color(s)
      [] s.callback = 15 -> mode_single_dynamic(s)
      [] s.callback = 16 -> mode_multi_dynamic(s)
      [] s.callback = 17 -> mode_rainbow(s)
      [] s.callback = 18 -> mode_rainbow_cycle(s)
      [] s.callback = 19 -> mode_fade(s)
      [] s.callback = 20 -> mode_scan(s)
      [] s.callback = 21 -> mode_dual_scan(s)
      [] s.callback = 22 -> mode_theater_chase(s)
      [] s.callback = 23 -> mode_theater_chase_rainbow(s)
      [] s.callback = 24 -> mode_running_lights(s)
      [] s.callback \in {25, 26} -> twinkle(s)
      [] s.callback \in {27, 28} -> twinkle_fade(s)
      [] s.callback = 29 -> mode_sparkle(s)
      [] s.callback = 30 -> mode_flash_sparkle(s)
      [] s.callback = 31 -> mode_hyper_sparkle(s)
      [] s.callback = 32 -> mode_multi_strobe(s)
      [] s.callback \in Chases -> chase(s)
      [] s.callback = 37 -> mode_chase_flash(s)
      [] s.callback = 38 -> mode_chase_flash_random(s)
      [] s.callback \in {42, 43, 49, 54} -> running(s)
      [] s.callback = 44 -> mode_running_random(s)
      [] s.callback = 45 -> mode_larson_scanner(s)
      [] s.callback = 46 -> mode_comet(s)
      [] s.callback \in {47, 48} -> fireworks(s)
      [] s.callback \in 50..52 -> fire_flicker(s)
      [] s.callback \in {53, 56} -> tricolor_chase(s)
      [] s.callback = 57 -> mode_icu(s)
=============================================================================
