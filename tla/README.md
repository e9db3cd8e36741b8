# A verification of OTApp

OTApp is middleware for devices of a Thread network: it finds other devices,
pairs with those its rules allow, subscribes to their resources over CoAP and is
told when these change. These modules model its protocol and concurrency in
TLA+, check them with TLC on small instances and prove the main invariants with
TLAPS for every size. `PROJECT.json` lists the runs, which source lines each
definition translates, the hazards and the theorems.

## 1. The system

### Threads

| thread | runs | priority |
|---|---|---|
| OpenThread main loop ("OT") | every CoAP, DNS and SRP callback and the state-changed callback | platform's |
| `otapp_pair_task` | takes announcements from a queue of 10, keeps the list of paired devices | 9 |
| `otapp_drv_task` | the device driver: buttons, soft timers, light | 6 |
| SRP lease task | counts the service lease down, refreshes it | 5 |

### Components

| component (source) | state | operations | who calls it, what it calls |
|---|---|---|---|
| subscriber list (`ot_app_coap_uri_obs.c`) | table of 20 devices x 3 URIs: name, address, token, URI index | subscribe, unsubscribe, notify, deleteAll | `processUriRequest` on OT; notify sends CoAP messages |
| CoAP (`ot_app_coap.c`) | transmit buffers, registered resources | processUriRequest, client_send, the request helpers | resource handlers; OpenThread |
| pairing (`ot_app_pair.c`) | list of 10 paired devices x 3 URIs with tokens; queue; static token buffer | addToQueue, the task, DeviceAdd/Delete, well-known/core handler, uriAdd, subSendRequest, subSendUpdateIP | OT puts into the queue and runs the handler, the task works on the same list |
| shared buffer (`ot_app_buffer.c`) | three slots with offset, length, write_lock; one mutex | append, getData, getReadOnly/WriteOnly_ptr, writeUnlock, clear | all handlers on OT; any thread |
| default resources (`ot_app_coap_uri.c`) | - | paring_services, .well-known/core, subscribed_uris | CoAP; queue, buffer, application callback |
| core (`ot_app.c`, `ot_app_drv.c`) | driver object | start-up, state-changed callback | OpenThread; pairing, SRP |
| DNS (`ot_app_dns.c`) | static queue item | browse, resolve, their callbacks | SRP callback; queue |
| SRP client (`ot_app_srp_client.c`) | service record, lease counter | register, refresh, clear, lease task | OT callbacks and a task of its own |
| device name (`ot_app_deviceName.c`) | the device's own full name | set, parse, compare | start-up, pairing, DNS |
| TLV (`ot_app_msg_tlv.c`) | a buffer of the caller | keyAdd, keyGet, space | device resources |
| NVS port (`ot_app_port_nvs.c`) | flash | save, read, erase | button assignment |
| button assignment (`ad_btn_assign.c`) | per button: device pointer, EUI, isTaken, assign mark; reset handle; a soft timer | assign, reset, save, load, clicks and presses | driver task, pairing callback; NVS, CoAP |
| button (`ad_button.c`, `ad_btn_uri.c`, `ad_btn_dimControl.c`) | a value per resource of each light, dimmer direction | press handlers, subscription callback | driver task, OT; CoAP |
| light (`ed_light/*`) | colour, brightness, dimmed colour | on_off, dimm, rgb | CoAP on OT; effect engine |
| click detection (`OneButton.c`) | per button: state, click counter, time stamp | poll | driver task; press handlers |
| effect engine (`ws2812b_fx.c`) | segments of the strip with mode, counters and soft timer | division, modes, speeds, start and stop, main loop, 58 effects | driver task, CoAP handlers, tick; strip driver |
| strip drivers (`ws2812b_drv_RMT.c`, `ws2812b_drv_tim_dma_stm32.c`) | colour buffer, timings, transfer | set LEDs, refresh, transfer complete | effect engine; hardware |
| soft timers, CLI, datasets, ports | - | - | thin wrappers |

### What is hard here

* Two threads, OT and the pair task, work on the list of paired devices without
  a lock; the higher one interrupts the other anywhere.
* A subscription is stored twice, at the controller (token per URI) and at the
  device (token and address per name and URI). Restarts, address changes and
  repeated announcements change one copy and messages must carry it over.
* Each CoAP message is retransmitted by itself: they arrive in any order, or are
  given up, and the program looks at no answer.
* The `.well-known/core` handler fills a slot chosen when the GET was sent.
* The shared buffer checks its lock before it takes its mutex, and handlers
  write through pointers outside it.
* Fixed-size tables refuse, and some callers do not look at the refusal.
* The buttons' list has no lock either: the driver task marks, uses and resets
  buttons while an OpenThread callback assigns a device to one. One timer serves
  both the assign mode and the reset, and power may fail between RAM and NVS.
* The lease task clears the service and adds it again beside the callbacks of the
  SRP client, looks at no result, and counts the lease from another moment than
  the server.
* A panel stores what it sends before the light has seen it, and hears of the
  other panels' presses only.
* The effects address LEDs with counters that outlive changes of mode and size.
* A transfer reads the colours while the program goes on changing them.

### What makes each part correct

* *Subscriber list:* one slot per name, one entry per URI, released storage is
  zero, a slot is held exactly while something is subscribed; what was answered
  as accepted is stored; an event goes to exactly the current subscribers.
* *Shared buffer:* operations are atomic, nothing is written out of range, what
  a handler wrote stays until it leaves, the mutex always comes free.
* *Pairing:* one slot per device; a slot lists its own device's URIs in its own
  device's order; a token means one entry; what was queued is paired.
* *Both ends:* when nothing is under way they agree, unless a message was lost or
  overtaken since the device announced itself; a notification finds the entry it was
  sent for; after the last disturbance everything is subscribed.
* *Buttons:* a device has one button and one button is marked; an assignment
  survives restarts and ends with nothing but a deliberate reset; a press finds
  the device.
* *Service and discovery:* the lease never runs out while the server answers in
  time, the service always comes back, and what the server lists is found.
* *Messages:* what was put in under a key, or as a list of resources, comes out.
* *Light and panels:* after one undisturbed press all agree; the dimmed colour
  belongs to colour and brightness; a held button reaches both ends and never
  makes the light flash.
* *Clicks:* each stands for a press of its own, none stays unreported.
* *Strip:* an effect leaves its segment only in the cases known; segments stay
  apart; a frame that was asked for is shown.

## 2. The modules

| module | models | form |
|---|---|---|
| `SubList` | the table operations of the subscriber list | operators on a table |
| `UriObs` | the list under `otapp_coap_processUriRequest` and the public calls | one action per request; a call is atomic because all run on OT |
| `Registry` | what the list promises: a map from names to address and tokens | abstract specification, implemented by `UriObs` |
| `UriObs_proofs` | theorems about `UriObs` | |
| `Buffer` | one slot of the shared buffer under any number of threads | one action per stretch between two points where another thread may come in |
| `SharedSlot` | what a slot promises: each operation one indivisible step | abstract specification, implemented by `Buffer` |
| `Buffer_proofs` | theorems about `Buffer` | |
| `PairList` | the operations on the list of paired devices | operators on a list |
| `Pair` | OT and the pair task on that list | one action per step of a thread |
| `Pair_proofs` | theorems about `Pair` | |
| `Observe` | `Pair` and a device with a `SubList`, joined by CoAP | composes both with messages, restarts, moves |
| `Observe_proofs` | theorems about `Observe` | extends `Pair_proofs` |
| `BtnAssign` | which device a button controls: driver task, OpenThread callback, timer, NVS, restarts | one action per access to the shared list of buttons |
| `BtnAssign_proofs` | theorems about `BtnAssign` | |
| `SrpLease` | registration at the SRP server and the lease task | one action per callback and per call of the task |
| `Discover` | browse and resolution, started by every registration | extends `SrpLease` |
| `MsgTlv` | `keyAdd`, `keyGet` and the list of a device's resources | operators on a sequence of blocks, and two actions that use them |
| `Dimmer` | step and direction of the brightness | functions of the tables |
| `Sweep` | a held button with the tables of the board | extends `Dimmer` |
| `Lamp` | a light and its panels: presses, handlers, events, restart | extends `Dimmer` |
| `Clicks` | OneButton: polls of a pin become clicks | one action per poll |
| `Services_proofs` | theorems about `SrpLease`, `Clicks`, `Sweep` and `MsgTlv` | |
| `Effects` | every effect as the counters it moves and the LEDs it writes | operators on a segment |
| `Fx` | the engine: segments, modes, speeds, tick, main loop | one action per function; extends `Effects` |
| `Strip` | both drivers of the strip | one action per call and per LED sent |
| `Light_proofs` | theorems about `Lamp`, `Fx` and `Strip` | |
| `Lemmas` | facts that several proofs use, about naturals, folds and flattened sequences | |
| `MC_*` | instances for TLC | |

How state and code correspond: variables have the names of the C objects where
TLA+ allows it (`list` is `otapp_pair_DeviceList`, `subList` is
`oac_obsSubList`, `write_lock` and `current_len` are the fields); operators and
actions have the names of the functions, without the module prefix. The C
searches return an index or a negative code; so do their operators. All-zero
fields are `NoName`, `NoIp`, `NoToken`, `NoUri`.

In `Pair`, `pt` and `ot` say where the two threads are. `uriAddToken` and
`uriAddUri` are separate because the pair task may run between them; so are
`AddKnown` and `ipAddressUpdate`, between which the address is torn (`TornIp`).
`pending` holds the GETs not answered yet, each with the slot given as its
context. `subSendRequestMessages` and `sendSubscribeRequestMessage` say what a
step sends; `Observe` carries it.

In `Observe`, `toPeer` and `toMe` are the messages under way, in the order they were
sent. Every one is a confirmable request, or its answer, that is retransmitted by
itself (`ot_app_coap.c:259`, 295), so any of them may be the next to arrive, and any
but a notification may be given up (`LostToPeer`, `LostToMe`); a notification that is
lost changes nothing. None arrives twice: OpenThread drops a message whose ID it has
seen. A message is also lost if its receiver has left the address it was sent to, or
with a restart. `orderly` records, for the properties only, that since the device's
last announcement (a restart ends with one) nothing was given up, no announcement met
a full queue (`Dropped`), and no message arrived before one it contradicts: an older
register of the same URI with another token or with another address, or an older
announcement with another address. `Preempt` says whether a thread may run while the
other is inside a handler: the code allows it, and `MC_Observe_race.cfg` shows what
happens.

In `BtnAssign`, `dr` and `ot` say where the driver task and `ad_btn_assignDevice`
are, and for which button and device. An action is one access to what both threads
use; a loop that takes away marks is one action because at most one mark is set.
`timer` is what is left of `ad_btn_assignTime`; `Tick` passes time only while no
handler runs. `paired` and `heard` stand for `Pair`: a device whose subscriptions
the list holds is renewed, any other is asked for its URIs and handed to the
buttons. `clicks` and `elapsed` record the clicks and the time since `ResetHold` was
held and appear in properties only. `above` is drawn once: the thread of higher
priority runs between two steps of the other, not the reverse. The driver task has
priority 6 and `ot_app.h:79` wants it below OpenThread, whose priority is the
platform's. Each order has properties that the other breaks:

| order | holds only there | because otherwise |
|---|---|---|
| driver above OpenThread | `StoredIsKept`, `Remembered` | a device comes between the two halves of a button's reset, or between a click's look at the EUI and its mark |
| OpenThread above driver | `PressFindsDevice` | a reset comes between the device pointer and `isTaken` |

So these three state the order they need; the others hold in both.

In `SrpLease`, `host` and `svc` are the client's records, `left` is the lease at
the server and `count` the task's; all times are in delays of the task (five
minutes). `ClearService` and `AddAgain` are two actions because the task holds no
lock. `late` and `refused` record that the server took longer than `Patience` or
the client refused the service: the properties say what happens otherwise.
`Discover` adds the lists the server may show and what was handed to the queue.

In `MsgTlv` a message is its blocks in order; positions are sums of their sizes.
`Exchange` writes a device's resources into a buffer of the size the code
calculates, or one byte less, and reads them as the other end does.

In `Lamp`, `commanded` is the last value the light acted on, and `alone` says of a
resource that its last press was neither crossed nor lost; both appear in properties
only. `Press` reads, stores and sends at once; an event that comes between the read
and the store is as if it came before, since it is overwritten. `Subscribe` stands
for what `Observe` models in full.

In `Effects`, each operator is the set of outcomes of one effect: the segment
after the call and the LEDs written. Where the code draws a random LED the set has one
outcome for each. Colours are left out; so are counters' values beyond the
remainders that are used. In `Fx` the application calls what it likes, whenever it
likes: divisions, sizes and borders of running segments, modes, speeds, stops.
`stray` collects the LEDs written for a segment outside it, those past the end of the
strip included where the driver does not check (`Reached`); `moved` says of a segment
that its borders changed since its effect last ran, or ever, and `overlaid` that
`SetSegmentSize` put one segment over another; these three appear in properties only.
After the strip was divided into fewer segments the code may use the number of one
that is gone (`mActualSegment`): what it reads there, beyond the array, is any value
(`ModeServed`, `SpeedServed`, `LengthServed`).

`MC_Devices` and `MC_Services` each run several modules side by side: the components
share no state, and `part`, drawn once, says which of them moves, so each is
checked by itself and one configuration gives all their constants. `use` of
`MC_Devices` is what the application does with its second segment.

### Definitions with an underscored suffix

`spaceUriIsFree_LastSkipped`, `inside_NotExclusive` and the like are plausible
wrong versions of the definition after them. No specification uses them;
replacing the definition by one of them makes the property it is listed with in
`PROJECT.json` ("mutants") fail.

## 3. The runs

| run | shows | instance |
|---|---|---|
| `uriobs` | the list is in order after any sequence of requests; accepted means stored; the table implements `Registry` | 2 slots x 2 entries, 3 devices, 2 URIs, 2 tokens, 2 addresses |
| `pair` | one slot per device, each with its own URIs, when answers come in any order and sends fail; what was queued is paired or the list is full | 2 slots, 3 allowed devices, one of which changes its address, and one other, queue 1, 2 GETs, 3 tokens |
| `pair_nobufs` | *violation:* two entries share a token when messages run out | 1 device, 2 URIs |
| `observe` | both ends agree when quiet, if since the last announcement nothing was lost or overtaken | 1 URI, 2 addresses of each end, 2 announcements, 1 restart of either, 1 move, 1 message given up |
| `observe_live` | if from some announcement on nothing is lost or overtaken everything is subscribed in the end, for good; notifications find their URI | 2 URIs, 1 announcement, 1 restart, 1 message given up |
| `observe_race` | *violation:* with preemption an old token overtakes the new one | 1 URI, 3 announcements, nothing lost or overtaken |
| `observe_overtaken` | *violation:* without preemption, the older of two registers arrives last | 1 URI, 2 announcements, nothing lost |
| `devices` | buttons: a device has one button, one button is marked, an assignment lasts until a deliberate reset and over restarts, a press finds its device. Light: effects leave their segments only as `Roams` says, segments stay apart; the dimmed colour fits; panels and light agree again; the RMT driver shows the frame asked for | 3 buttons, 2 devices, reset by 2 clicks in 1 tick, assign mode of 2 ticks, 1 restart, both orders of the threads; 3 LEDs, 2 segments; 2 panels, 3 levels, 2 colours, 1 restart; both drivers, 2 LEDs, queue 2 |
| `btn_again` | *violation:* a device that is turned on again is not assigned | the same buttons |
| `btn_window` | *violation:* a reset sequence erases after its window | the same buttons |
| `light_panels` | *violation:* two presses that cross leave the panels with each other's value | the same panels |
| `services` | the lease is held and the service comes back; what is listed is found; messages carry what was put in; clicks are counted and reported; a held button sweeps without a flash. The shared buffer: no length out of range, what a handler wrote stays, `SharedSlot` is implemented, the mutex comes free | lease 7, guard 3, patience 1; lists of 3 names, limit 2; 3 keys, values of 0..2 bytes, 2 resources; short timers; the board's tables; a buffer of 2 bytes, OT and 2 other threads, requests of 1..3 bytes |

Why the bounds are enough: each table meets one device more than it has slots, so
that it fills up, and more than one slot and entry, so that a wrong index shows. A
request of the buffer may be one byte too long. Two answers outstanding are enough
for them to cross, and three messages for one to be overtaken by two. In `observe`,
the queue holds two announcements, which is less than can be made, so that one may
be dropped. `NetMax`, `MaxGets`, `MaxAnnounce`, `MaxRestart`, `MaxMove` and
`MaxLost` bound what is under way and what happens to the devices. Tokens are drawn
from those neither end knows; an instance that has none left waits until a message
is taken; the Observe runs do not check deadlock because a system with these used up
and no subscriber has nothing left to do. Symmetry is used only in `uriobs`, which
has no liveness property. In `devices`, three buttons are those of the board: the
two of the reset and one more; two devices are enough for one to be assigned while
another is; five clicks in ten seconds and an assign mode of forty become two clicks
in one tick and two ticks, which keeps that the assign mode outlasts the reset and
that a reset may be abandoned half-way.

Three LEDs and two segments give a segment of one LED, one of two and
the whole strip. One segment is static, the other has what `Uses` lists: effects of
each kind, two of them in turn where one hands its counters to the other, two speeds
or both directions where these matter. The effects left out only paint their segment
or are variants of these; the proof (section 4) covers all of them. The speeds are the
slowest the engine allows to be set and its default. `Wheel`, `Sat`, `Val` and `U32`
scale a byte, the effect colour and the width of a timer down. For `Lamp`, three plays
of the users cover two
who use the same resource and two who use different ones.

In `services`, the lease of 24 delays, the guard of 4 and a wait of up to 2 become
7, 3 and 1, which keeps the order the proof needs (`LeaseRoom`). The sizes of TLV
buffers are those around each limit of a message of one, two and three blocks, and
the paths include an empty one and one too long. The timers of the buttons keep
their order, and time stops when it exceeds all of them.

### Fairness

* `Buffer`: a thread in its critical section gets on. It makes no blocking call
  there, and a FreeRTOS mutex lends its holder the priority of who waits. No
  thread is assumed to get the mutex it waits for.
* `Pair`: both threads are scheduled, and CoAP ends a confirmable GET with an
  answer or a timeout.
* `Observe`: the same, and that CoAP delivers what is under way, in any order, or
  gives it up; a retransmission does one or the other in the end. It is assumed of all
  but notifications. Nothing is assumed about announcements, restarts, moves, losses or
  events; `EventuallySubscribed` is about behaviours that are orderly from some
  announcement on.
* `MC_Services`: the lease task and time go on; the OpenThread client, which sends
  again until it is answered, gets through in the end (strong fairness of a
  registration, of a browse and of each resolution that is asked for again and
  again); buttons are polled and a held button ticks, as the driver task does in
  its loop. Nothing is assumed about when the server answers.

### What the violations say

* `pair_nobufs`: the handler keeps the token in a static buffer that
  `otapp_coap_client_send` leaves alone when no message can be made, and
  `uriAdd` stores it again for the next URI. The comment in `ad_button.c` says
  a token identifies a device and a URI.
* `observe_race`: the handler sends a new token, the pair task renews the
  subscription with the old one, the handler then stores the new one. The
  device sends its events with a token the controller no longer knows, and
  nothing repairs that before the next announcement.
* `observe_overtaken`: two answers of one device draw two tokens for a URI. The
  register with the first is lost and retransmitted, the one with the second arrives
  before it, and the device keeps the first while the controller keeps the second.
  `otapp_coap_client_send` (`ot_app_coap.c:295`) waits for no answer to the register
  before. The next announcement that is followed by no such accident repairs it
  (`SyncedIfOrderly`).
* `btn_again`: the documented procedure (click, turn the device on, done) works
  only for a device that was not seen since the controller started. One that was
  on before the click, or whose button was reset, is in the pair list with its
  tokens, is renewed, and the buttons are not told.
* `btn_window`: assign mode and reset share one timer. A click on a third button
  while the sequence is under way starts the timer anew for the assign mode
  (`ad_btn_assign.c:357`), a device that is assigned stops it (430), and the clicks that
  follow erase all assignments after the ten seconds `ad_button.h` gives them. It
  still takes the full number of clicks within one hold (`ResetIsDeliberate`).
* `light_panels`: a panel stores its value when its button is pressed, and the light
  tells every panel but the one that pressed. When two presses cross, the panel
  whose press came second hears of the first afterwards and shows it, although the
  light does the second. `README.md:456` of the repository promises that all agree. The next
  press that is not crossed mends it (`Resynced`).

## 4. What is proved

For any number of slots, entries, names, addresses, tokens, threads, bytes,
buttons, clicks, restarts, lease times, LEDs and timers:

| theorem | states |
|---|---|
| `UriObs_proofs!TypeCorrect` | `Spec => []TypeOK` |
| `UriObs_proofs!TableInOrder` | one slot per name, one entry per URI, clean free storage, in use exactly while subscribed, complete when taken |
| `UriObs_proofs!AcceptedSubscriptions` | what was not refused is stored |
| `UriObs_proofs!TableIsRegistry` | the table implements `Registry` (`Spec => ImplementsRegistry`) |
| `Buffer_proofs!LengthsInRange` | `Spec => []TypeOK` |
| `Buffer_proofs!PointerIsSafe` | what a handler wrote stays until it leaves |
| `Buffer_proofs!SlotIsAtomic` | the buffer implements `SharedSlot` (`Spec => ImplementsSlot`) |
| `Pair_proofs!TypeCorrect` | `Spec => []TypeOK` |
| `Pair_proofs!OneSlotPerDevice` | a device never holds two slots |
| `Pair_proofs!SlotsListTheirOwn` | a slot lists its own device's URIs, in that device's order |
| `Observe_proofs!EventsAreUnderstood` | a notification's token leads to the entry of its URI (`~SendFails`) |
| `Observe_proofs!BothEndsAgree` | with nothing under way the device has the controller's tokens and its address (`orderly`, `~SendFails`, `~Preempt`, distinct URIs) |
| `BtnAssign_proofs!TypeCorrect` | `Spec => []TypeOK` |
| `BtnAssign_proofs!AtMostOneMark` | at most one button is marked |
| `BtnAssign_proofs!ResetOnPurpose` | only the full number of clicks within one hold erases |
| `BtnAssign_proofs!NoDeviceTwice` | a device never has two buttons |
| `BtnAssign_proofs!SavedAsHeld` | RAM and flash agree on a button's device (driver above OpenThread) |
| `BtnAssign_proofs!KeptUntilReset` | nothing but a reset takes a device out of flash (the same) |
| `BtnAssign_proofs!PressIsSafe` | a press finds its button's device at every step (OpenThread above) |
| `Services_proofs!LeaseIsHeld` | the lease does not run out while the server answers in time |
| `Light_proofs!DimmedColourFits` | the dimmed colour is that of the colour and the brightness |
| `Light_proofs!PressResyncs` | after a press that nothing crossed, light and panels agree |
| `Light_proofs!EffectsStayHome` | an effect writes outside its segment only as `Roams` says, whatever was called before |
| `Light_proofs!BordersInOrder` | segments have LEDs and stay apart, unless `SetSegmentSize` overlays them |
| `Light_proofs!AskedFrameIsShown` | a frame that was asked for is on the LEDs when nothing is under way (RMT driver) |
| `Services_proofs!ClicksAreReleases` | one click had a release of the pin, a double click two |
| `Services_proofs!HeldButtonIsGentle` | a held button changes the brightness by one step at most |
| `Services_proofs!WhatIsAddedIsFound` | a key that was added to a message is found, with its first value |
| `Services_proofs!OfferedIsParsed` | a reader of a list of resources has all of it, in order, or nothing |

*UriObs.* The five invariants are proved together since each needs others: that
a URI has one entry rests on `uriIsExist`, which compares untaken entries as
well and is right only if these are zero; a name reads back only if the slot was
cleared; `unsubscribe` frees a slot by counting taken entries. Every part but
`OneSlotPerName` speaks of one slot, so the operations are shown to turn a slot
in order into a slot in order, and two table lemmas put it in place. That a
subscription is never lost is a counting argument: the entries taken hold
different served URIs, so while one is missing a slot has room. This uses
`ServedUrisFit`: no device serves more URIs than a slot has entries.
`SubListAssumption` says that the null values are not real ones.

*The registry.* Under that invariant a table has a `Meaning`: for each name in use
the address and the token per URI of its one slot (`View`). A slot that is filled
adds or changes the meaning of one name and one that is released takes its name
along (`PutMeans`, `DropMeans`); within a slot the operations are those of the
registry (`EnrolledMeans`, `RenewedMeans`, `AddedMeans`, `WithdrawnMeans`). That a
refusal is right is again counting: names in use and slots in use are equally many
(`RoomForNames`). Each action is then a step of `Registry` or leaves all it speaks
of alone (`StepRefines`).

*Buffer.* `ReservedUntouched` is not inductive. It needs that the reserved
length is below `current_len` while the pointer is out (`ReservedIsBelow`), that
only OT's operations lower that length (`OnlyOTReserves`: reservation, unlock and
clear are made on OT), and for the types that a copy not yet counted belongs to
the holder of the mutex and fits (`CopiedFits`). The only assumptions are that
OT is a thread and the slot is not empty. For the refinement the same invariant and
two facts are enough: who is inside the buffer asks for at least one byte
(`AsksForBytes`), and what an append has copied is there until it counts it
(`CopiedIsThere`). The copy is a stutter of `SharedSlot`, the new length its append.

*Pair.* A slot is chosen in one step and written in later ones. The strengthening
is that whoever has chosen one still finds its device there: the task
(`TaskOnItsDevice`), the handler (`HandlerOnItsDevice`) and every GET that is out
(`AnswersComeHome`), for a slot that is taken is never released or given to
another. `FreeHasNoUris` lets a new slot begin empty. With this
`NamesUnique` follows from the search that precedes an insertion by the only
thread that inserts, and `OwnUris` from the handler's writing entries in the order
of the answer. Nothing is assumed of the order in which answers come or of sends
that fail; a device offers at most as many URIs as a slot has entries, which `Pair`
assumes of `Offers`.

*Observe.* A token is copied from place to place: the handler's buffer, a
subscription under way, the device's list, a notification, the controller's list, and
from there into renewals. `Says(t, u)` is that some place has token `t` for URI `u`,
where an entry of the controller's list stands for the URI its device offers at that
place even before the URI is stored. The invariant (`ObsInv`) is that no token is for
two URIs (`OneUriPerToken`), with the types of what is under way (`NetOK`), that a
slot not taken holds no tokens of an earlier device (`FreeHasNoTokens`), and the
invariant of `Pair_proofs`. Every step but one says nothing that was not said
before (`SaysNoMore`); the one that draws a token draws one that no place has
(`DrawnIsNew`). The hypothesis is that OpenThread has message buffers, `~SendFails`:
without them the token is not drawn anew and two entries share one, as
`MC_Pair_nobufs.cfg` shows. Preemption does no harm here, so both values of `Preempt` are
covered. That tokens are drawn unused, here by the guard, stands for random numbers of
four bytes. `ObserveAssumption` says that the addresses of `Peer` are among those it
may announce to `Pair`.

`BothEndsAgree` is about the agreement itself. `SyncedWhenQuiet` says nothing of the
states in between, where most of the work is done, so the invariant (`SyncInv`) says
what is going to be: for a token `t` of the controller for URI `u`, `TokenArrives(u, t)`
holds if the last message sent and still on its way to the device about `u` carries `t`,
or, if there is none, the device has `t` for `u`; `AddressArrives` says the same of the
controller's address and the last message of all. Messages arrive in any order, so the
one that arrives need not be the last; but while things are `orderly` it is never one
that overtakes what it contradicts, so what overtakes the last message says the same as
that one (`Received`), and what was said last stays so. `Agreed` claims both for every
token the controller has stored or is about to store (`TokenOf`), as long as things are
orderly, with two exceptions that cannot be done without. While an announcement is under
way, in the queue or in the pair task's hands (`~Settled`), the device may have moved or
lost its list, and nothing is claimed; what is kept is that the last announcement has the
address of the device (`LastNews`, `QueueIsLatest`), so that the list has it in the
end (`ListIsLatest`). And while the task renews entry after entry, nothing is claimed
of those it has yet to come to (`ToBeRenewed`). After a loss or an overtaking nothing is
claimed until the device announces itself again: then the renewals make every claim
anew, so the past need not be known. The device's list has room for what is
sent (`PeerListOK`, `RoomForServed`): it holds only URIs it serves, each in one entry,
and it serves no more than it has entries. Sending adds to the end (`Sent`), the
device takes from any place (`Received`); a move tells every stored token and nothing
else (`AllUpdated`), which takes two flattened sequences apart (`FlatHas`).

Each hypothesis is needed. Overtaken or with preemption a token is lost
(`MC_Observe_overtaken.cfg`, `MC_Observe_race.cfg`), without message buffers two URIs
share one, and a URI offered twice has two tokens at the controller and one at the
device. A message that is given up is not sent again, and an announcement of a new
address that a full queue drops leaves the controller with the old one; the code's
queue has room for ten.

*BtnAssign.* `OneMark` becomes inductive with "between the two loops of
`ad_btn_assignSetTrue` no button is marked" (`OneMarkInv`); every other write of a
button's field leaves the marks alone or takes one away (`SameMarks`, `OneLess`).
`ResetIsDeliberate` rests on `ResetInv`: a sequence runs only while `ResetHold` is
held, is at zero otherwise and never ahead of the user's clicks. That the searches
return a button of the list (`MinIsIn`) uses that sets of naturals are
well-founded. The assumptions are those of the board: the two buttons of the reset
exist and differ, the numbers are positive.
`OneButtonPerDevice` needs `HolderInv`, which speaks of RAM and NVS together
(`Has`): no device has two buttons in the two, one that is about to be assigned has
none, and a device not handled since the start, which the callback may still assign,
is in NVS only where it is in RAM (`FreshInRam`), so that an assignment that the
power cuts short comes back as something or nothing, never as a second one. It
is proved for both orders of the threads. The other three each hold for one order, as
the runs state them: `KeptInv` says at which step a button's RAM and NVS may differ
when the driver cannot be interrupted, `TakenInv` which fields may be half written
when OpenThread cannot be. `Remembered` is an action property and
follows from `KeptInv` at the step that erases.

*SrpLease.* `LeaseInv` says how the task's count and the server's lease are apart: at
most one delay, two while the task has not counted the present one, plus the time
the server owes an answer. With the guard of two delays more than `Patience`
(`LeaseRoom`), the task asks early enough. The board's numbers leave room for an
answer within two delays, ten minutes. Lateness and refusal end the promise.

*Lamp.* A resource whose last press was alone is in one of two conditions
(`AloneInv`): the press is still under way, is the only message about the resource
and the panel shows its value (`PressedAt`), or the light has acted on it and every
subscriber shows the value or has it, and nothing else, coming (`Obeyed`). A restart
or a new press ends the promise and begins another. `DimmedFits` is inductive. The
colour table is assumed not to be empty.

*Fx.* Each effect trusts counters that an earlier one may have left, of another mode
and another size. `FxInv` bounds those counters per effect (`StepFits`), except where
the borders moved since and the effect is one of those that then leave their segment;
it says that segments are in order unless one was overlaid, and that what was painted
astray was painted as `Roams` allows. Every effect has a lemma that it moves its
counters within these bounds and paints in its segment or roams. Nothing is assumed of
the application. `Roams` is the list of the ways out of a segment, each with its
condition: section 5 says what they come from.

*Strip.* `FrameInv` is about the RMT driver. It says of each LED that, once a Refresh
followed the last change, either it shows the buffer or a transfer that has yet to reach it
is under way: a transfer queued behind a running one begins again at the first LED
(`SentSoFar`). The assumptions are a strip and a queue that are not empty. Nothing is
claimed of the DMA driver: a Refresh during a transfer is dropped there
(`ws2812b_drv_tim_dma_stm32.c:498`), and `SetDiodeColorStruct` (404-408) changes the
buffer without converting it to the timings that are sent, so an effect like
`mode_static` shows only after a call that converts. Both are in the model.

*Clicks.* `CountInv` bounds the counter by the releases since the last report, and
ties the state of the debouncing to the counter. It needs nothing of the timers but
that they are natural numbers.

*Sweep.* `HeldButtonIsGentle` holds of every table that is `IsGentle`: levels are
bytes, no step down from a level of at least the minimum wraps, and the minimum is
no further from dark than some step. The table of the board is (TLC evaluates the
assumption).

*Messages.* The place of a block is the sum of the sizes before it, a fold over the
message. A fold is a recursive function of the set of places; that there is one is
shown by building it place by place (`FoldExists` of `Lemmas`). Induction is done
with a set in place of an operator (`UpTo`: what is in the set at 0 and is passed on
is in it at every place), from the least number that is not in it, since the library's
theorem of induction takes an operator. `WhatIsAddedIsFound` rests
on `AddedInv`: a key that was added has a first block, which carries the value it was
first added with, and the blocks fit the buffer. `OfferedIsParsed` has two parts. That
nothing wrong is ever parsed needs no sizes: every block of a device's message carries
what its key stands for (`Right`), whichever blocks were refused. That everything is
parsed needs them: with the calculated size nothing is refused, so the message is
`Whole`, the key of a block is its place, and the reader's buffer, calculated for the
longest list, has room for the shorter one (`ReaderHasRoom`).

Only model-checked is what needs fairness (`EventuallySubscribed` and the other
liveness of `Buffer`, `Pair`, `Discover`, `SrpLease`, `Clicks`, `Sweep`), and ENABLED;
and the violations, which TLC exhibits. Every other property of a passing run is a
theorem.

Three assumptions were made for the proofs: a colour table that is not empty, a
default speed between the slowest and the fastest, and a controller whose name is none
of the names no device has (`Me` of `Observe`). The code has the first two as constants
(`ad_btn_assign.c:46`, `ws2812b_fx.h:117`).

## 5. What is left out, and why

* Message layout, names as strings, printing, argument checks for null pointers:
  data that no property depends on. That a copied name has no terminator is
  modelled (`Garbled`).
* `DeviceGet`, `DeviceDelete` and `DeviceDeleteAll` of the pair list: the firmware
  never calls them. `DeviceGet` takes a negative code for an index when the device
  is unknown (`ot_app_pair.c:270`). With a GET outstanding the answer would be
  written into a freed slot; planned.
* The controller's announcement of itself after a move, which concerns devices
  that would pair with it.
* A second device in `Observe`: devices share only the pair list, whose sharing
  `Pair` checks.
* A full subscriber list is answered OK; the asker cannot know. It is in
  `UriObs` (`reply`), and `Observe` has one controller, for which there is room.
* In `BtnAssign`: a save to NVS that fails (its result is ignored,
  `ad_btn_assign.c:315`), a lookup of a resource that a light does not offer (its
  code is used as an index, line 455), a GET that is lost and repeated with the
  next announcement (`Observe` has it), and the full pair list (`Pair` has it).
  Only the EUI is saved; the repository's `README.md:453` says the token is, too.
* That a mark ends. Assign mode and reset share one timer, and besides what
  `btn_window` shows of it the other direction fails as well: pressing and releasing
  `ResetHold` after a mark starts and stops the timer (`ad_btn_assign.c:218`, 253-255),
  and the button stays marked, until it or another is clicked, a device comes, or the
  controller restarts. The model has it; no property claims that a mark ends.
* An append that saw `write_lock` clear may write after a handler locked the slot
  (`ot_app_buffer.c:157`), against the word of `ot_app_buffer.h:21`; it is harmless
  (theorem `PointerIsSafe`).
* The address in the pair list is copied without a lock (`ot_app_pair.c:383`): the
  torn address is in the model (`TornIp`), a message sent to it is lost.
* In `SrpLease`, the client's own renewal of a lease, which the task is there to
  forestall. In `Discover`, a label of less than 23 characters (a group name of less
  than four, or another vendor's service) ends the loop and hides every device
  behind it (`Shown` says so).
* In `Lamp`: a PUT that is lost without a restart, and the strip itself. Dimming or
  colouring a light that is off turns it on, while the panels keep on_off at 0:
  each resource is taken by itself. The direction of the dimmer is one per panel,
  as in the code.
* In `Fx`, that effects stay in their segments without exception. The exceptions,
  which `Roams` lists, are the code's: a sparkle puts out an LED drawn before a resize,
  now a neighbour's (`ws2812b_fx.c:1404`); the chases count over the whole strip, and
  one in a partial segment runs on over its neighbours (1513), as do the eyes of
  `mode_icu`; a scanner in a segment of one LED divides by zero, and so does
  `mode_icu`; effects that keep a position use it after a resize. A second division
  clips the last stop in the old array (265), so the last segment may end one LED past
  the strip, where `mode_static` writes: `SetDiodeColorStruct` of the RMT driver does
  not look at the number of the LED (`ws2812b_drv_RMT.c:71-74`). `SetSegmentSize` looks
  at no neighbour (495) and refuses the sizes its own example asks for
  (`ws2812b_fx.h:44-45`, `ws2812b_fx.c:499`). `NextMode`, `PrevMode` and the speed
  functions of a segment go by the one served last (391, 402, 755-763), and
  `SetAllRGB` paints as many LEDs as that one has (731). The devices of this repository
  use one segment and no effect. The run includes a strobe at a speed below 20, whose
  timer wraps to 49 days (975). Not modelled: a write beyond the array of segments, and
  a call through a pointer beyond the table of modes (402); the number of segments
  raised before the array is exchanged (296, a tick in between counts down beyond it);
  a handler that paints while `Callback` is about to call the effect (342: one more
  frame of it); divisions by zero for a black or white effect colour (946, 1906).
* In `Strip`: the low-RAM variant of the DMA driver, which is not built, and bit
  timings.
* CLI, datasets, RTOS and OpenThread ports: thin wrappers and constants.

## 6. Plan

1. *(done)* `SubList`, `UriObs`, `Registry`; `Buffer`, `SharedSlot`; `PairList`,
   `Pair`; `Observe`. All invariants and both refinements are proved.
2. *(done)* `BtnAssign`, all its safety proved. Open: its composition with `Pair`
   in place of `paired` and `heard`.
3. *(done)* `SrpLease`, `Discover`, `MsgTlv`, `Clicks`, `Dimmer`, `Sweep`, `Lamp`,
   `Effects`, `Fx`, `Strip`; all their safety proved.
4. `PairDelete`: `Pair` with deletion while a GET is out.
5. `Lamp` as the source of events in place of `Observe`'s `Event`.
