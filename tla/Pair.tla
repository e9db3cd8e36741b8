-------------------------------- MODULE Pair ---------------------------------
(***************************************************************************)
(* Pairing (ot_app_pair.c) as it runs: the OpenThread thread puts          *)
(* announcements into a queue and handles the answers to the controller's  *)
(* GET .well-known/core; the pair task takes announcements out and keeps   *)
(* the device list.  Both work on the list and no lock protects it, so an  *)
(* action is one step of one thread.  The messages a step sends are given  *)
(* by operators, for Observe to carry.                                     *)
(***************************************************************************)
EXTENDS PairList, Sequences, SequencesExt

CONSTANTS
  Allowed,     \* names the pairing rules let through
  Addresses,   \* the addresses a device may announce, one after the other
  Offers,      \* the URIs a device lists in its .well-known/core, in order
  QueueMax,    \* OTAPP_PAIR_QUEUE_LENGTH
  MaxGets,     \* bound on outstanding GETs
  SendFails    \* whether OpenThread may be out of message buffers

ASSUME PairAssumption ==
  /\ Allowed \subseteq Name
  /\ Addresses \in [Name -> SUBSET Ip]
  /\ Offers \in [Name -> Seq(Uri)]
  /\ \A n \in Name : Len(Offers[n]) \in 1 .. UriMax
  /\ QueueMax \in Nat \ {0}
  /\ MaxGets \in Nat \ {0}
  /\ SendFails \in BOOLEAN

VARIABLES
  list,      \* otapp_pair_DeviceList
  queue,     \* otapp_pair_queueHandle
  pt,        \* the pair task: where it is, its queue item, slot and loop
  ot,        \* the .well-known/core handler: where it is, slot, sender, loop
  token,     \* the handler's static token buffer
  pending    \* GETs not answered yet: the slot given as context, the peer

vars == <<list, queue, pt, ot, token, pending>>

PtIdle == [at |-> "idle", name |-> NoName, ip |-> NoIp, slot |-> 0,
           uri |-> 0, count |-> 0]
OtIdle == [at |-> "idle", slot |-> 0, from |-> NoName, uri |-> 0]

Init ==
  /\ list = EmptyList
  /\ queue = << >>
  /\ pt = PtIdle
  /\ ot = OtIdle
  /\ token = NoToken
  /\ pending = << >>

-----------------------------------------------------------------------------
(* A device's name arrives on paring_services or out of a DNS answer.  The *)
(* item is dropped when the queue is full.                                 *)
addToQueue(n, ip) ==
  /\ ot.at = "idle"
  /\ queue' = IF Len(queue) < QueueMax
              THEN Append(queue, [name |-> n, ip |-> ip]) ELSE queue
  /\ UNCHANGED <<list, pt, ot, token, pending>>

(* The pair task takes an item; one that does not match the rules is left. *)
Receive ==
  /\ pt.at = "idle"
  /\ queue # << >>
  /\ queue' = Tail(queue)
  /\ pt' = IF Head(queue).name \in Allowed
           THEN [PtIdle EXCEPT !.at = "add", !.name = Head(queue).name,
                               !.ip = Head(queue).ip]
           ELSE PtIdle
  /\ UNCHANGED <<list, ot, token, pending>>

AddNew_ContextLost ==
  LET d == DeviceAdd(list, pt.name, pt.ip) IN
  /\ pt.at = "add"
  /\ d >= 0
  /\ list' = spaceTake(list, d, pt.name, pt.ip)
  /\ pt' = [pt EXCEPT !.at = "get", !.slot = 0]
  /\ UNCHANGED <<queue, ot, token, pending>>
AddNew ==
  LET d == DeviceAdd(list, pt.name, pt.ip) IN
  /\ pt.at = "add"
  /\ d >= 0
  /\ list' = spaceTake(list, d, pt.name, pt.ip)
  /\ pt' = [pt EXCEPT !.at = "get", !.slot = d]
  /\ UNCHANGED <<queue, ot, token, pending>>

AddRefused ==
  /\ pt.at = "add"
  /\ DeviceAdd(list, pt.name, pt.ip) = NO_SPACE
  /\ pt' = PtIdle
  /\ UNCHANGED <<list, queue, ot, token, pending>>

(* A known device: a changed address is copied over the old one, and the   *)
(* handler may read it meanwhile...                                        *)
AddKnown ==
  LET d == DeviceIsExist(list, pt.name)
      moves == DeviceAdd(list, pt.name, pt.ip) = UPDATED
  IN
  /\ pt.at = "add"
  /\ d # NO_EXIST
  /\ list' = IF moves THEN [list EXCEPT ![d].ip = TornIp] ELSE list
  /\ pt' = [pt EXCEPT !.at = IF moves THEN "moved" ELSE "resend", !.slot = d]
  /\ UNCHANGED <<queue, ot, token, pending>>

ipAddressUpdate ==
  /\ pt.at = "moved"
  /\ list' = [list EXCEPT ![pt.slot].ip = pt.ip]
  /\ pt' = [pt EXCEPT !.at = "resend"]
  /\ UNCHANGED <<queue, ot, token, pending>>

(* ...then every subscription is renewed, entry by entry...                *)
subSendRequest_OneTooFar ==
  LET sent == IF uriTokenIsValid(list[pt.slot].uris[pt.uri].token) THEN 1 ELSE 0
      next == [pt EXCEPT !.uri = @ + 1, !.count = @ + sent]
  IN
  /\ pt.at = "resend"
  /\ pt' = IF next.uri <= UriMax THEN next
           ELSE IF next.count = 0 THEN [next EXCEPT !.at = "get", !.uri = 0]
           ELSE PtIdle
  /\ UNCHANGED <<list, queue, ot, token, pending>>
subSendRequest ==
  LET sent == IF uriTokenIsValid(list[pt.slot].uris[pt.uri].token) THEN 1 ELSE 0
      next == [pt EXCEPT !.uri = @ + 1, !.count = @ + sent]
  IN
  /\ pt.at = "resend"
  /\ pt' = IF next.uri < UriMax THEN next
           ELSE IF next.count = 0 THEN [next EXCEPT !.at = "get", !.uri = 0]
           ELSE PtIdle
  /\ UNCHANGED <<list, queue, ot, token, pending>>

subSendRequestMessages(from) ==
  LET entry == list[pt.slot].uris[pt.uri] IN
  IF uriTokenIsValid(entry.token)
  THEN << [kind |-> "update", ip |-> list[pt.slot].ip, uri |-> entry.uri,
           token |-> entry.token, from |-> from] >>
  ELSE << >>

(* ...and if there was none, or the device is new, its URIs are asked for. *)
SendGetUri_Well_known ==
  /\ pt.at = "get"
  /\ Len(pending) < MaxGets
  /\ \/ pending' = Append(pending, [slot |-> pt.slot, from |-> pt.name])
     \/ SendFails /\ UNCHANGED pending
  /\ pt' = PtIdle
  /\ UNCHANGED <<list, queue, ot, token>>

-----------------------------------------------------------------------------
(* A GET ends without a usable answer: none came, the payload was cut or   *)
(* malformed, or the shared buffer could not be had.                       *)
NoUris(k) ==
  /\ ot.at = "idle"
  /\ pending' = RemoveAt(pending, k)
  /\ UNCHANGED <<list, queue, pt, ot, token>>

(* otapp_pair_responseHandlerUriWellKnown, with the slot the GET was sent  *)
(* for as its context. *)
HandlerUriWellKnown(k) ==
  /\ ot.at = "idle"
  /\ ot' = [at |-> "send", slot |-> pending[k].slot, from |-> pending[k].from,
            uri |-> 0]
  /\ pending' = RemoveAt(pending, k)
  /\ UNCHANGED <<list, queue, pt, token>>

(* Tokens are random: one in use is not drawn again. *)
InUse == {token} \cup {list[d].uris[e].token : d \in Slot, e \in Entry}

(* The subscribe request of one URI.  OpenThread draws its token into the  *)
(* handler's buffer - unless there is no message to draw it for, and then  *)
(* the buffer keeps what it held.                                          *)
sendSubscribeRequest_SameToken ==
  /\ ot.at = "send"
  /\ token' \in IF ot.uri = 0 \/ token = NoToken THEN Token \ InUse ELSE {token}
  /\ ot' = [ot EXCEPT !.at = "token"]
  /\ UNCHANGED <<list, queue, pt, pending>>
sendSubscribeRequest ==
  /\ ot.at = "send"
  /\ \/ token' \in Token \ InUse
     \/ SendFails /\ UNCHANGED token
  /\ ot' = [ot EXCEPT !.at = "token"]
  /\ UNCHANGED <<list, queue, pt, pending>>

sendSubscribeRequestMessage(from) ==
  [kind |-> "register", ip |-> list[ot.slot].ip,
   uri |-> Offers[ot.from][ot.uri + 1], token |-> token', from |-> from]

(* After the last URI the application is told of the device. *)
nextUri ==
  ot' = IF ot.uri + 1 < Len(Offers[ot.from])
        THEN [ot EXCEPT !.at = "send", !.uri = @ + 1] ELSE OtIdle

(* otapp_pair_uriAdd stores the token first, and nothing if it is zero... *)
uriAddToken ==
  /\ ot.at = "token"
  /\ IF uriTokenIsValid(token)
     THEN /\ list' = [list EXCEPT ![ot.slot].uris[ot.uri].token = token]
          /\ ot' = [ot EXCEPT !.at = "uri"]
     ELSE nextUri /\ UNCHANGED list
  /\ UNCHANGED <<queue, pt, token, pending>>

(* ...then the URI. *)
uriAddUri ==
  /\ ot.at = "uri"
  /\ list' = [list EXCEPT ![ot.slot].uris[ot.uri].uri =
                Offers[ot.from][ot.uri + 1]]
  /\ nextUri
  /\ UNCHANGED <<queue, pt, token, pending>>

-----------------------------------------------------------------------------
PairTask ==
  \/ Receive \/ AddNew \/ AddRefused \/ AddKnown \/ ipAddressUpdate
  \/ subSendRequest \/ SendGetUri_Well_known

Handler == sendSubscribeRequest \/ uriAddToken \/ uriAddUri

Answer == \E k \in DOMAIN pending : NoUris(k) \/ HandlerUriWellKnown(k)

Next ==
  \/ \E n \in Name : \E ip \in Addresses[n] : addToQueue(n, ip)
  \/ PairTask
  \/ Handler
  \/ Answer

(* Both threads are scheduled, and CoAP ends every confirmable GET with an *)
(* answer or a timeout.                                                    *)
Fairness ==
  WF_vars(PairTask) /\ WF_vars(Handler) /\ WF_vars(Answer)

Spec == Init /\ [][Next]_vars /\ Fairness

-----------------------------------------------------------------------------
TypeOK ==
  /\ list \in ListType
  /\ queue \in Seq([name : Name, ip : Ip])
  /\ Len(queue) <= QueueMax
  /\ pt \in [at : {"idle", "add", "moved", "resend", "get"},
             name : Name \cup {NoName}, ip : Ip \cup {NoIp},
             slot : Slot, uri : Entry, count : 0 .. UriMax]
  /\ ot \in [at : {"idle", "send", "token", "uri"}, slot : Slot,
             from : Name \cup {NoName}, uri : Entry]
  /\ token \in Token \cup {NoToken}
  /\ pending \in Seq([slot : Slot, from : Name])
  /\ Len(pending) <= MaxGets

(* A device announced any number of times, while its first GET is still    *)
(* out or its answer half handled, holds one slot.                         *)
NamesUnique ==
  \A d1, d2 \in Slot :
    list[d1].taken /\ list[d2].taken /\ d1 # d2 => list[d1].name # list[d2].name

(* The answer of a device fills its own slot: whatever the order in which  *)
(* answers come, a slot lists the URIs its device offers, in its order.    *)
OwnUris ==
  \A d \in Slot, e \in Entry :
    list[d].uris[e].uri # NoUri =>
      /\ list[d].taken
      /\ e < Len(Offers[list[d].name])
      /\ list[d].uris[e].uri = Offers[list[d].name][e + 1]

(* "The 4-byte token uniquely identifies which device/URI sent the update" *)
(* (ad_button.c): otapp_pair_uriStateSet stores a notified state in the    *)
(* first entry that has the token.                                         *)
TokensUnique ==
  \A d1, d2 \in Slot, e1, e2 \in Entry :
    /\ uriTokenIsValid(list[d1].uris[e1].token)
    /\ list[d1].uris[e1].token = list[d2].uris[e2].token
    => <<d1, e1>> = <<d2, e2>>

(* An announcement that was taken into the queue pairs its device, unless  *)
(* the rules forbid it or the list has no room.                            *)
InQueue(n) == \E k \in DOMAIN queue : queue[k].name = n
Known(n) == DeviceIsExist(list, n) # NO_EXIST
QueuedIsPaired ==
  \A n \in Name \cap Allowed :
    InQueue(n) ~> Known(n) \/ DeviceIsFreeSpace(list) = ERROR
=============================================================================
