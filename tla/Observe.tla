------------------------------- MODULE Observe -------------------------------
(***************************************************************************)
(* Observing from end to end: a controller (the threads of Pair) and the   *)
(* device it pairs with, Peer, which keeps the subscriber list of SubList. *)
(* Every message is a confirmable request, or the answer to one, with a    *)
(* retransmission of its own: any that is under way may be the next to     *)
(* arrive, and any may be given up.  None arrives twice, for OpenThread    *)
(* drops what has the ID of a message it has seen.                         *)
(*                                                                         *)
(* A subscription is held twice: the controller remembers the token it     *)
(* chose for a URI, the device the token and the address to send to.       *)
(***************************************************************************)
EXTENDS Pair, FiniteSetsExt

CONSTANTS
  Peer, PeerIp,  \* the device and the addresses it may have
  Me, MyIp,      \* the controller and the addresses it may have
  Elsewhere,     \* the address of another controller
  Preempt,       \* whether a thread may run while the other is in a handler
  NetMax,        \* bound on messages under way, each direction
  MaxAnnounce, MaxRestart, MaxMove,  \* bounds on what happens to the devices
  MaxLost        \* bound on messages given up

ASSUME ObserveAssumption ==
  /\ Peer \in Name /\ PeerIp \subseteq Addresses[Peer]
  /\ Elsewhere \notin MyIp
  /\ Me \notin {NoName, "long", "garbled"}
  /\ Preempt \in BOOLEAN
  /\ {NetMax, MaxAnnounce, MaxRestart, MaxMove, MaxLost} \subseteq Nat

VARIABLES
  subList,     \* the device's oac_obsSubList
  myIp,        \* the controller's address
  peerIp,      \* the device's address
  toPeer, toMe,                 \* what is under way, in the order it was sent
  announced, restarted, moved, lost   \* how often, for the bounds
VARIABLE       \* what the network did, for the properties
  orderly      \* since the device's last announcement all that was sent came,
               \* and nothing came before what it contradicts

obsVars ==
  <<vars, subList, myIp, peerIp, toPeer, toMe, announced, restarted, moved, lost,
    orderly>>
counters == <<announced, restarted, moved, lost>>
addresses == <<myIp, peerIp>>

L == INSTANCE SubList WITH
  Name <- {Me}, Ip <- MyIp, LongName <- "long", Garbled <- "garbled",
  DevMax <- 1

ObsInit ==
  /\ Init
  /\ subList = L!EmptyList
  /\ myIp \in MyIp
  /\ peerIp \in PeerIp
  /\ toPeer = << >>
  /\ toMe = << >>
  /\ announced = 0 /\ restarted = 0 /\ moved = 0 /\ lost = 0
  /\ orderly = TRUE

-----------------------------------------------------------------------------
(* The pair task has a higher priority and interrupts the OpenThread       *)
(* thread wherever it is.                                                  *)
MayRun(thread) ==
  IF thread = "pt" THEN Preempt \/ ot.at = "idle"
  ELSE Preempt \/ pt.at = "idle"

send(msgs) ==
  /\ Len(toPeer) + Len(msgs) <= NetMax
  /\ toPeer' = toPeer \o msgs

silent == UNCHANGED <<toPeer, toMe>>

(* Two subscriptions that leave the device with something else when they   *)
(* come the other way round, and two announcements that do so to the       *)
(* controller.                                                             *)
Contradicts(m, n) ==
  /\ "get" \notin {m.kind, n.kind}
  /\ m.from # n.from \/ (m.uri = n.uri /\ m.token # n.token)
ContradictsNews(m, n) ==
  m.kind = "announce" /\ n.kind = "announce" /\ m.from # n.from

PairTaskStep ==
  /\ MayRun("pt")
  /\ \/ (Receive \/ AddNew \/ AddRefused \/ AddKnown \/ ipAddressUpdate) /\ silent
     \/ subSendRequest /\ send(subSendRequestMessages(myIp)) /\ UNCHANGED toMe
     \/ /\ SendGetUri_Well_known
        /\ IF pending' = pending THEN UNCHANGED toPeer
           ELSE send(<< [kind |-> "get", ip |-> list[pt.slot].ip, from |-> myIp] >>)
        /\ UNCHANGED toMe
  /\ UNCHANGED <<subList, addresses, counters, orderly>>

(* Tokens are random: one that is under way or known to the device is not  *)
(* drawn again either.                                                     *)
TokensAbout ==
  {toPeer[k].token : k \in {i \in DOMAIN toPeer : toPeer[i].kind # "get"}}
  \cup {toMe[k].token : k \in {i \in DOMAIN toMe : toMe[i].kind = "event"}}
  \cup {subList[d].uri[e].token : d \in L!Slot, e \in Entry}

HandlerStep ==
  /\ MayRun("ot")
  /\ \/ /\ sendSubscribeRequest
        /\ token' = token \/ token' \notin TokensAbout
        /\ IF token' = token THEN UNCHANGED toPeer
           ELSE send(<< sendSubscribeRequestMessage(myIp) >>)
        /\ UNCHANGED toMe
     \/ (uriAddToken \/ uriAddUri) /\ silent
  /\ UNCHANGED <<subList, addresses, counters, orderly>>

(* A message reaches the controller, unless it was sent to an address the  *)
(* controller has left.  An answer to a GET nobody waits for is ignored,   *)
(* and so is a notification: it changes no subscription.                   *)
Deliver(m) ==
  IF m.kind = "announce" THEN addToQueue(Peer, m.from)
  ELSE IF m.kind = "uris" /\ m.to = myIp /\ pending # << >>
  THEN HandlerUriWellKnown(1)
  ELSE UNCHANGED vars

(* The queue has no room for an announcement and none of that address.     *)
Dropped(m) ==
  /\ m.kind = "announce"
  /\ Len(queue) >= QueueMax
  /\ queue[Len(queue)].ip # m.from

MeReceives(k) ==
  /\ MayRun("ot")
  /\ ot.at = "idle"
  /\ Deliver(toMe[k])
  /\ toMe' = RemoveAt(toMe, k)
  /\ orderly' = (/\ orderly
                 /\ ~Dropped(toMe[k])
                 /\ \A j \in 1 .. k - 1 : ~ContradictsNews(toMe[j], toMe[k]))
  /\ UNCHANGED <<subList, addresses, toPeer, counters>>

(* CoAP gives a GET up that has neither request nor answer under way. *)
GetTimeout ==
  /\ MayRun("ot")
  /\ pending # << >>
  /\ ~ \E k \in DOMAIN toPeer : toPeer[k].kind = "get"
  /\ ~ \E k \in DOMAIN toMe : toMe[k].kind = "uris"
  /\ NoUris(1)
  /\ UNCHANGED <<subList, addresses, toPeer, toMe, counters, orderly>>

(* otapp_pair_subSendUpdateIP: a new address is told to every device with  *)
(* the tokens it knows already, slot by slot and entry by entry.           *)
updateOf(d, e, from) ==
  LET entry == list[d].uris[e] IN
  IF list[d].taken /\ uriTokenIsValid(entry.token)
  THEN << [kind |-> "update", ip |-> list[d].ip, uri |-> entry.uri,
           token |-> entry.token, from |-> from] >>
  ELSE << >>
subSendUpdateIP_NewOnly(from) == << >>
subSendUpdateIP(from) ==
  FlattenSeq([d \in 1 .. DevMax |->
    FlattenSeq([e \in 1 .. UriMax |-> updateOf(d - 1, e - 1, from)])])

Move(ip) ==
  /\ MayRun("ot")
  /\ ot.at = "idle"
  /\ moved < MaxMove
  /\ ip # myIp
  /\ myIp' = ip
  /\ send(subSendUpdateIP(ip))
  /\ moved' = moved + 1
  /\ UNCHANGED <<vars, subList, peerIp, toMe, announced, restarted, lost, orderly>>

-----------------------------------------------------------------------------
(* The device takes what was sent to its address: a GET is answered, a     *)
(* subscription goes to the list.  A path that names no resource goes      *)
(* nowhere.                                                                *)
subscribed(m) ==
  IF m.ip = peerIp /\ m.kind # "get" /\ m.uri # NoUri
  THEN L!subscribeList(subList, m.token, m.uri, m.from, Me) ELSE subList

answered(m) ==
  IF m.ip = peerIp /\ m.kind = "get"
  THEN Append(toMe, [kind |-> "uris", to |-> m.from]) ELSE toMe

PeerReceives(k) ==
  /\ subList' = subscribed(toPeer[k])
  /\ toMe' = answered(toPeer[k])
  /\ toPeer' = RemoveAt(toPeer, k)
  /\ orderly' = (/\ orderly
                 /\ \A j \in 1 .. k - 1 : ~Contradicts(toPeer[j], toPeer[k]))
  /\ UNCHANGED <<vars, addresses, counters>>

(* CoAP gives a message up.  (A notification changes nothing, so there is  *)
(* no need to lose one.)                                                   *)
LostToPeer(k) ==
  /\ lost < MaxLost
  /\ toPeer' = RemoveAt(toPeer, k)
  /\ orderly' = FALSE
  /\ lost' = lost + 1
  /\ UNCHANGED <<vars, subList, addresses, toMe, announced, restarted, moved>>
LostToMe(k) ==
  /\ lost < MaxLost
  /\ toMe[k].kind # "event"
  /\ toMe' = RemoveAt(toMe, k)
  /\ orderly' = FALSE
  /\ lost' = lost + 1
  /\ UNCHANGED <<vars, subList, addresses, toPeer, announced, restarted, moved>>

(* A device that gets an address, a new one or its old one, and holds no   *)
(* subscription of its own puts its name on paring_services of everybody.  *)
announcement(ip) == [kind |-> "announce", from |-> ip, to |-> myIp]

Announce(ip) ==
  /\ announced < MaxAnnounce
  /\ Len(toMe) < NetMax
  /\ peerIp' = ip
  /\ toMe' = Append(toMe, announcement(ip))
  /\ announced' = announced + 1
  /\ orderly' = TRUE
  /\ UNCHANGED <<vars, subList, myIp, toPeer, restarted, moved, lost>>

(* Another controller operates a URI; the subscribers are told. *)
Event(u) ==
  LET told == L!notify(subList, Elsewhere, u) IN
  /\ told # {}
  /\ Len(toMe) + Cardinality(told) <= NetMax
  /\ toMe' = toMe \o SetToSeq({[kind |-> "event", to |-> n.ip, token |-> n.token,
                                uri |-> u] : n \in told})
  /\ UNCHANGED <<vars, subList, addresses, toPeer, counters, orderly>>

(* A restart empties the list, which is in RAM, and may take with it what  *)
(* the device was sending; the device attaches again and announces itself. *)
PeerRestarts_Silently ==
  /\ restarted < MaxRestart
  /\ subList' = L!EmptyList
  /\ toMe' \in {<< >>, toMe}
  /\ restarted' = restarted + 1
  /\ orderly' = TRUE
  /\ UNCHANGED <<vars, addresses, toPeer, announced, moved, lost>>
PeerRestarts ==
  /\ restarted < MaxRestart
  /\ subList' = L!EmptyList
  /\ \E kept \in {<< >>, toMe} :
       toMe' = Append(kept, announcement(peerIp))
  /\ restarted' = restarted + 1
  /\ orderly' = TRUE
  /\ UNCHANGED <<vars, addresses, toPeer, announced, moved, lost>>

(* The controller's list is in RAM too.  What it finds when it browses     *)
(* after its own registration stands for an announcement.                  *)
IRestart ==
  /\ restarted < MaxRestart
  /\ list' = EmptyList /\ queue' = << >> /\ pending' = << >>
  /\ pt' = PtIdle /\ ot' = OtIdle /\ token' = NoToken
  /\ toMe' = << announcement(peerIp) >>
  /\ restarted' = restarted + 1
  /\ orderly' = TRUE
  /\ UNCHANGED <<subList, addresses, toPeer, announced, moved, lost>>

-----------------------------------------------------------------------------
ObsNext ==
  \/ PairTaskStep \/ HandlerStep \/ GetTimeout
  \/ \E k \in DOMAIN toMe : MeReceives(k) \/ LostToMe(k)
  \/ \E k \in DOMAIN toPeer : PeerReceives(k) \/ LostToPeer(k)
  \/ \E ip \in MyIp : Move(ip)
  \/ \E ip \in PeerIp : Announce(ip)
  \/ \E u \in Uri : Event(u)
  \/ PeerRestarts
  \/ IRestart

(* Threads are scheduled, and CoAP delivers a message or gives it up; that *)
(* it does so in the end is assumed of all but notifications.              *)
ObsFairness ==
  /\ WF_obsVars(PairTaskStep)
  /\ WF_obsVars(HandlerStep)
  /\ WF_obsVars(\E k \in DOMAIN toMe : toMe[k].kind # "event" /\ MeReceives(k))
  /\ WF_obsVars(GetTimeout)
  /\ WF_obsVars(\E k \in DOMAIN toPeer : PeerReceives(k))

ObsSpec == ObsInit /\ [][ObsNext]_obsVars /\ ObsFairness

-----------------------------------------------------------------------------
(* The device would send what happens to u to the controller's address,    *)
(* with the token t.                                                       *)
Subscribed(u, t) ==
  \E m \in L!notify(subList, Elsewhere, u) : m.ip = myIp /\ m.token = t

Quiet ==
  /\ toPeer = << >> /\ toMe = << >> /\ pending = << >> /\ queue = << >>
  /\ pt.at = "idle" /\ ot.at = "idle"

(* "This ensures UI state synchronization across the entire home" (README):*)
(* once nothing is under way, every token the controller knows is the one  *)
(* the device uses for that URI, and the device knows where to send.       *)
SyncedWhenQuiet ==
  Quiet => \A d \in Slot, e \in Entry :
             uriTokenIsValid(list[d].uris[e].token)
               => Subscribed(list[d].uris[e].uri, list[d].uris[e].token)

(* That is not so in general: of two subscriptions to one URI the older    *)
(* may come last (ot_app_coap.c:295), or be given up.  But the next        *)
(* announcement repairs it, however many were lost or crossed before, and  *)
(* whatever restarts and moves come in between: its renewals, if they come *)
(* in order, leave both ends with the same.  Threads that interrupt each   *)
(* other (Preempt) break this too.                                         *)
SyncedIfOrderly == orderly => SyncedWhenQuiet

(* A notification that the controller accepts was sent for the URI of the  *)
(* entry that has its token, in whatever order messages come.              *)
EventsFindTheirUri ==
  \A k \in DOMAIN toMe, d \in Slot, e \in Entry :
    /\ toMe[k].kind = "event"
    /\ list[d].uris[e].token = toMe[k].token
    /\ list[d].uris[e].uri # NoUri
    => list[d].uris[e].uri = toMe[k].uri

(* If nothing is lost or overtaken any more after some announcement (an    *)
(* older register that comes last leaves the device with a token the       *)
(* controller has dropped), and no thread interrupts the other's handler   *)
(* (Preempt = FALSE), the controller ends up subscribed to all the device  *)
(* offers, for good; whatever was lost, crossed or restarted before.       *)
AllSubscribed ==
  \A k \in DOMAIN Offers[Peer] :
    \E d \in Slot, e \in Entry :
      /\ list[d].uris[e].uri = Offers[Peer][k]
      /\ Subscribed(Offers[Peer][k], list[d].uris[e].token)
EventuallySubscribed ==
  <>[](orderly /\ announced + restarted > 0) => <>[]AllSubscribed
=============================================================================
