------------------------------- MODULE UriObs --------------------------------
(***************************************************************************)
(* The observed device: the subscriber list of SubList under the CoAP      *)
(* requests that reach it through otapp_coap_processUriRequest, and under  *)
(* the module's other public calls.  All of it runs on the OpenThread      *)
(* thread, one call at a time, so a call is one action.                    *)
(***************************************************************************)
EXTENDS SubList

(* A device serves no more observable URIs than a slot has entries         *)
(* (ad_light_uri.c: "max uris: OTAPP_PAIRED_URI_MAX").                     *)
ASSUME ServedUrisFit == IsFiniteSet(Uri) /\ Cardinality(Uri) <= UriMax

VARIABLES
  subList,   \* oac_obsSubList
  sent,      \* the subscribed_uris messages of the latest call
  result,    \* what the latest call returned
  reply      \* the CoAP response of the latest call: "OK", "ERROR", "none"

vars == <<subList, sent, result, reply>>

Init ==
  /\ subList = EmptyList
  /\ sent = {}
  /\ result = OK
  /\ reply = "none"

(* A request with an Observe option other than 1 (0 registers, 2 updates). *)
(* The name is the payload, the token and the peer address come with the   *)
(* message.  An invalid one is not answered; any other is answered OK,     *)
(* also when the list was full.                                            *)
SubscribeRequest(n, ip, u, t) ==
  /\ subList' = subscribeList(subList, t, u, ip, n)
  /\ sent' = {}
  /\ result' = subscribeResult(subList, t, u, ip, n)
  /\ reply' = IF result' = ERROR THEN "none" ELSE "OK"

(* Observe = 1, a deregistration, is accepted and not acted upon. *)
DeregisterRequest ==
  /\ sent' = {}
  /\ result' = 0
  /\ reply' = "OK"
  /\ UNCHANGED subList

(* A request without an Observe option changes the resource: every         *)
(* subscriber but the sender is told.                                      *)
PutRequest(ip, u) ==
  /\ sent' = notify(subList, ip, u)
  /\ result' = OK
  /\ reply' = "OK"
  /\ UNCHANGED subList

(* The payload is empty or larger than the handler's buffer. *)
BadPayload ==
  /\ sent' = {}
  /\ result' = ERROR
  /\ reply' = "ERROR"
  /\ UNCHANGED subList

Unsubscribe(n, t) ==
  /\ subList' = unsubscribeList(subList, n, t)
  /\ sent' = {}
  /\ result' = unsubscribeResult(subList, n, t)
  /\ reply' = "none"

DeleteAll ==
  /\ subList' = EmptyList
  /\ sent' = {}
  /\ result' = OK
  /\ reply' = "none"

Next ==
  \/ \E n \in Name \cup {LongName}, ip \in Ip, u \in Uri,
        t \in Token \cup {NoToken} : SubscribeRequest(n, ip, u, t)
  \/ DeregisterRequest
  \/ \E ip \in Ip, u \in Uri : PutRequest(ip, u)
  \/ BadPayload
  \/ \E n \in Name \cup {LongName}, t \in Token : Unsubscribe(n, t)
  \/ DeleteAll

Spec == Init /\ [][Next]_vars

-----------------------------------------------------------------------------
MessageType ==
  [name : Name \cup {NoName, Garbled}, ip : Ip \cup {NoIp},
   token : Token \cup {NoToken}, from : Slot \X Entry]

TypeOK ==
  /\ subList \in ListType
  /\ sent \subseteq MessageType
  /\ result \in -12 .. 7
  /\ reply \in {"OK", "ERROR", "none"}

(* No device holds two slots: the lookup by name that every request starts *)
(* with would otherwise keep refreshing one of them and leave the other    *)
(* with a stale address and token.                                         *)
NamesUnique == OneSlotPerName(subList)

(* A device holds at most one live entry for a URI, so that an event is    *)
(* told to it once.                                                        *)
UrisUnique == \A d \in Slot : OneEntryPerUri(subList[d])

(* Released storage is cleared.  uriIsExist looks at untaken entries too,  *)
(* and a name is copied over the old one without a terminator: both rely   *)
(* on unsubscribe having zeroed what it released.                          *)
FreeIsClean == \A d \in Slot : CleanWhenFree(subList[d])

(* A slot is in use exactly as long as one of its entries is: no slot is   *)
(* held for ever by a device that has no subscription left, and none is    *)
(* given to another device while subscriptions remain in it.               *)
TakenIffSubscribed == \A d \in Slot : InUseWhileSubscribed(subList[d])

(* What is taken is usable: notify sends a real token to a real address    *)
(* on behalf of a name that later requests will find again.                *)
TakenIsComplete == \A d \in Slot : CompleteWhenTaken(subList[d])

(* A subscription that was neither refused nor rejected is in the table    *)
(* with the token and the address it came with: renew ignores what         *)
(* addNewUri answers, so this rests on a slot never being full while one   *)
(* of the served URIs is missing from it.                                  *)
Stored(l, n, ip, u, t) ==
  \E d \in Slot, e \in Entry :
    /\ l[d].taken /\ l[d].name = n /\ l[d].ip = ip
    /\ l[d].uri[e] = [token |-> t, uriIndex |-> u, taken |-> TRUE]

AcceptedIsStored ==
  [][\A n \in Name, ip \in Ip, u \in Uri, t \in Token :
       SubscribeRequest(n, ip, u, t) /\ result' \notin {LIST_FULL, ERROR}
         => Stored(subList', n, ip, u, t)]_vars

-----------------------------------------------------------------------------
(* What the list means to its clients: the registry of Registry.tla. *)
SlotOf(n) == CHOOSE d \in Slot : subList[d].taken /\ subList[d].name = n
Known == {n \in Name : \E d \in Slot : subList[d].taken /\ subList[d].name = n}
UrisOf(d) == {u \in Uri : \E e \in Entry : /\ subList[d].uri[e].taken
                                           /\ subList[d].uri[e].uriIndex = u}
TokenOf(d, u) ==
  subList[d].uri[CHOOSE e \in Entry : /\ subList[d].uri[e].taken
                                      /\ subList[d].uri[e].uriIndex = u].token

Outcome ==
  CASE result > 0 \/ result \in {ADDED_NEW_DEVICE, NO_NEED_UPDATE} -> "stored"
    [] result = LIST_FULL -> "refused"
    [] result = OK -> "done"
    [] OTHER -> "ignored"

R == INSTANCE Registry WITH
  Capacity <- DevMax,
  registry <- [n \in Known |->
                 [ip |-> subList[SlotOf(n)].ip,
                  subs |-> [u \in UrisOf(SlotOf(n)) |-> TokenOf(SlotOf(n), u)]]],
  notified <- {[name |-> m.name, ip |-> m.ip, token |-> m.token] : m \in sent},
  outcome <- Outcome

(* The table implements the registry: a subscription reported as stored is *)
(* stored, it is refused only to a new device when Capacity are known, no  *)
(* request disturbs another device's subscriptions, and an event is     *)
(* sent to exactly the current subscribers at their current addresses.     *)
ImplementsRegistry == R!Spec
=============================================================================
