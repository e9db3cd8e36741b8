------------------------------- MODULE Strip -------------------------------
(***************************************************************************)
(* The two drivers of the LED strip behind ws2812b_drv_t.                  *)
(*   "rmt"  ws2812b_drv_RMT.c: Refresh queues a transfer of the colour     *)
(*          buffer; the transfer reads the buffer when it runs.            *)
(*   "dma"  ws2812b_drv_tim_dma_stm32.c: SetOneDiode also writes the       *)
(*          timings the DMA sends; Refresh starts the DMA unless it runs.  *)
(* A transfer takes the LEDs one after the other while the program goes on.*)
(***************************************************************************)
EXTENDS Integers

CONSTANTS StripLeds,   \* number of LEDs
          Depth,       \* trans_queue_depth
          Drivers,     \* the drivers the build may choose
          Colours, Black

ASSUME StripConstants ==
    /\ StripLeds \in Nat \ {0} /\ Depth \in Nat \ {0}
    /\ Drivers \subseteq {"rmt", "dma"} /\ Black \in Colours

VARIABLES driver,
          led,      \* wsLedBuffer, ledBuffer.ledColor
          timing,   \* ledBuffer.dma: the colours whose timings it holds
          jobs,     \* transfers accepted and not finished
          pos,      \* the LED the running transfer sends next
          shown,    \* what the LEDs show
          asked     \* Refresh was called after the last change of the buffer

stripVars == <<driver, led, timing, jobs, pos, shown, asked>>
LedIds == 0 .. StripLeds - 1

StripInit ==
    /\ driver \in Drivers
    /\ led = [i \in LedIds |-> Black] /\ timing = led /\ shown = led
    /\ jobs = 0 /\ pos = 0 /\ asked = TRUE

\* f with the LEDs of c set; numbers off the strip are ignored.
SetDiodes(f, c) == [i \in LedIds |-> IF i \in DOMAIN c THEN c[i] ELSE f[i]]
ConvertColor(c) == IF driver = "dma" THEN SetDiodes(timing, c) ELSE timing

\* rmt_transmit waits for room; a running DMA is left alone.
Refresh ==
    /\ IF driver = "rmt" THEN jobs < Depth /\ jobs' = jobs + 1 ELSE jobs' = 1
    /\ asked' = TRUE
    /\ UNCHANGED <<driver, pos, shown>>

SetOneDiode(i, colour) ==
    /\ led' = SetDiodes(led, [j \in {i} |-> colour])
    /\ timing' = ConvertColor([j \in {i} |-> colour])
    /\ asked' = FALSE
    /\ UNCHANGED <<driver, jobs, pos, shown>>
\* Only the buffer: the timings the DMA sends are not converted.
SetDiodeColorStruct(i, colour) ==
    /\ led' = [led EXCEPT ![i] = colour]
    /\ asked' = FALSE
    /\ UNCHANGED <<driver, timing, jobs, pos, shown>>
RefreshCall == Refresh /\ UNCHANGED <<led, timing>>
\* Colours set and Refresh called: ForceAllColor and the simple test.
SetAndRefresh(c) ==
    /\ led' = SetDiodes(led, c)
    /\ timing' = ConvertColor(c)
    /\ Refresh
SimpleTest(n, colour) ==
    SetAndRefresh([i \in LedIds |-> IF i = n THEN colour ELSE Black])

\* Mutant: the transfer ends one LED early.
Transfer_OneShort ==
    /\ jobs > 0
    /\ shown' = [shown EXCEPT ![pos] = IF driver = "dma" THEN timing[pos] ELSE led[pos]]
    /\ pos' = (pos + 1) % (StripLeds - 1)
    /\ jobs' = IF pos' = 0 THEN jobs - 1 ELSE jobs
    /\ UNCHANGED <<driver, led, timing, asked>>
\* One LED of the running transfer; after the last the transfer is complete.
Transfer ==
    /\ jobs > 0
    /\ shown' = [shown EXCEPT ![pos] = IF driver = "dma" THEN timing[pos] ELSE led[pos]]
    /\ pos' = (pos + 1) % StripLeds
    /\ jobs' = IF pos' = 0 THEN jobs - 1 ELSE jobs
    /\ UNCHANGED <<driver, led, timing, asked>>

StripNext ==
    \/ \E i \in LedIds, c \in Colours : \/ SetOneDiode(i, c)
                                        \/ SetDiodeColorStruct(i, c)
                                        \/ SimpleTest(i, c)
    \/ RefreshCall \/ Transfer

StripSpec == StripInit /\ [][StripNext]_stripVars

(* Refresh puts the buffer on the LEDs, as ws2812b_if.h says: when it was   *)
(* called after the last change and nothing is under way, they show it.     *)
FrameShown == jobs = 0 /\ asked => shown = led

(* With the RMT driver they do, although colours change while earlier       *)
(* transfers run and the driver reads the buffer LED by LED.                *)
RmtFrameShown == driver = "rmt" => FrameShown
=============================================================================
