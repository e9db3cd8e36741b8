------------------------------- MODULE SubList -------------------------------
(***************************************************************************)
(* The subscriber list a device keeps of the peers that observe its URIs   *)
(* (ot_app_coap_uri_obs.c): a table of DevMax device slots, each with      *)
(* UriMax subscription entries.  This module holds the table's operations  *)
(* as operators on the table; UriObs runs them under the CoAP handler and  *)
(* Observe puts them at the far end of a network.                          *)
(*                                                                         *)
(* Names, addresses, tokens and URI indexes are opaque; NoName, NoIp,      *)
(* NoToken and NoUri stand for the all-zero value of each field.           *)
(*                                                                         *)
(* Here and in the other modules a definition with an underscored suffix   *)
(* (spaceUriIsFree_LastSkipped) is a plausible wrong version of the one    *)
(* after it.  Nothing uses it; it stands there to show which property      *)
(* would notice the mistake.                                               *)
(***************************************************************************)
EXTENDS Integers, FiniteSets

CONSTANTS
  Name,       \* full device names that fit the name field
  LongName,   \* a name of OTAPP_DEVICENAME_FULL_SIZE characters or more
  Garbled,    \* what strncpy leaves when it writes over a longer old name
  Ip, Token, Uri,
  NoName, NoIp, NoToken, NoUri,
  DevMax,     \* OAC_URI_OBS_SUBSCRIBERS_MAX_NUM
  UriMax      \* OAC_URI_OBS_PAIRED_URI_MAX

ASSUME SubListAssumption ==
  /\ DevMax \in Nat \ {0}
  /\ UriMax \in Nat \ {0}
  /\ {LongName, Garbled, NoName} \cap Name = {}
  /\ NoName # Garbled
  /\ NoIp \notin Ip
  /\ NoToken \notin Token
  /\ NoUri \notin Uri

Slot == 0 .. DevMax - 1
Entry == 0 .. UriMax - 1

(* Return codes and update masks of oac_obsError_t. *)
OK == -1
ERROR == -2
IS_NOT == -4
TOKEN_NOT_EXIST == -6
LIST_FULL == -7
NOT_SUB_REQUEST == -10
ADDED_NEW_DEVICE == -11
NO_NEED_UPDATE == -12
UPDATE_IP_ADDR == 1
UPDATE_URI_TOKEN == 2
ADD_NEW_URI_MaskShifted == 8
ADD_NEW_URI == 4

EmptyEntry == [token |-> NoToken, uriIndex |-> NoUri, taken |-> FALSE]
EmptySlot ==
  [name |-> NoName, ip |-> NoIp, uri |-> [e \in Entry |-> EmptyEntry],
   taken |-> FALSE]
EmptyList == [d \in Slot |-> EmptySlot]

EntryType ==
  [token : Token \cup {NoToken}, uriIndex : Uri \cup {NoUri}, taken : BOOLEAN]
SlotType ==
  [name : Name \cup {NoName, Garbled}, ip : Ip \cup {NoIp},
   uri : [Entry -> EntryType], taken : BOOLEAN]
ListType == [Slot -> SlotType]

(* The C searches scan upwards and return the first hit, or a code. *)
First(S, none) ==
  IF S = {} THEN none ELSE CHOOSE i \in S : \A j \in S : i <= j

spaceDevNameIsFree(l) == First({d \in Slot : ~l[d].taken}, LIST_FULL)

spaceUriIsFree_LastSkipped(s) ==
  First({e \in 0 .. UriMax - 2 : ~s.uri[e].taken}, LIST_FULL)
spaceUriIsFree(s) == First({e \in Entry : ~s.uri[e].taken}, LIST_FULL)

(* Compares the index of every entry, taken or not. *)
uriIsExist_LastSkipped(s, u) ==
  First({e \in 0 .. UriMax - 2 : s.uri[e].uriIndex = u}, IS_NOT)
uriIsExist(s, u) == First({e \in Entry : s.uri[e].uriIndex = u}, IS_NOT)

tokenIsExist(s, t) ==
  First({e \in Entry : s.uri[e].taken /\ s.uri[e].token = t}, IS_NOT)

devNameFullIsExist_FirstSkipped(l, n) ==
  First({d \in Slot \ {0} : l[d].taken /\ l[d].name = n}, IS_NOT)
devNameFullIsExist(l, n) ==
  First({d \in Slot : l[d].taken /\ l[d].name = n}, IS_NOT)

(* strncpy of strlen bytes writes no terminator: the field reads back as   *)
(* the new name only if what it held was cleared before.                   *)
saveDeviceNameFull(old, n) == IF old \in {NoName, n} THEN n ELSE Garbled

addNewUri(s, t, u) ==
  LET e == spaceUriIsFree(s) IN
  IF e = LIST_FULL THEN s
  ELSE [s EXCEPT !.uri[e] = [token |-> t, uriIndex |-> u, taken |-> TRUE]]

addNewDevice(s, n, ip) ==
  [s EXCEPT !.name = saveDeviceNameFull(@, n), !.ip = ip, !.taken = TRUE]

subscribeIsValidData(t, u, n) == t # NoToken /\ u # NoUri /\ n # LongName

(* A subscription of a device whose slot s is known: the address, then the *)
(* entry of the URI, are brought up to date.  The result of addNewUri is   *)
(* not looked at.                                                          *)
renewed(s, t, u, ip) ==
  LET e == uriIsExist(s, u)
      moved == [s EXCEPT !.ip = ip]
  IN IF e = IS_NOT THEN addNewUri(moved, t, u)
     ELSE [moved EXCEPT !.uri[e].token = t]

updateState(s, t, u, ip) ==
  LET e == uriIsExist(s, u) IN
  (IF s.ip = ip THEN 0 ELSE UPDATE_IP_ADDR)
  + (IF e = IS_NOT THEN ADD_NEW_URI
     ELSE IF s.uri[e].token = t THEN 0 ELSE UPDATE_URI_TOKEN)

(* A subscription of a device that gets slot s. *)
enrolled(s, t, u, ip, n) == addNewUri(addNewDevice(s, n, ip), t, u)

(* The table after a subscription, and what oac_uri_obs_subscribe returns. *)
subscribeList(l, t, u, ip, n) ==
  LET d == devNameFullIsExist(l, n)
      f == spaceDevNameIsFree(l)
  IN IF ~subscribeIsValidData(t, u, n) THEN l
     ELSE IF d # IS_NOT THEN [l EXCEPT ![d] = renewed(@, t, u, ip)]
     ELSE IF f # LIST_FULL THEN [l EXCEPT ![f] = enrolled(@, t, u, ip, n)]
     ELSE l

subscribeResult(l, t, u, ip, n) ==
  LET d == devNameFullIsExist(l, n)
      f == spaceDevNameIsFree(l)
  IN IF ~subscribeIsValidData(t, u, n) THEN ERROR
     ELSE IF d # IS_NOT
     THEN IF updateState(l[d], t, u, ip) = 0 THEN NO_NEED_UPDATE
          ELSE updateState(l[d], t, u, ip)
     ELSE IF f = LIST_FULL \/ spaceUriIsFree(l[f]) = LIST_FULL THEN LIST_FULL
     ELSE ADDED_NEW_DEVICE

(* The device leaves the list with its last subscription. *)
releaseIfUnused_Never(s) == s
releaseIfUnused(s) ==
  IF \E e \in Entry : s.uri[e].taken THEN s
  ELSE [s EXCEPT !.name = NoName, !.ip = NoIp, !.taken = FALSE]

withdrawn_NotCleared(s, t) ==
  LET e == tokenIsExist(s, t) IN
  IF e = IS_NOT THEN s ELSE releaseIfUnused([s EXCEPT !.uri[e].taken = FALSE])
withdrawn(s, t) ==
  LET e == tokenIsExist(s, t) IN
  IF e = IS_NOT THEN s
  ELSE releaseIfUnused([s EXCEPT !.uri[e] = EmptyEntry])

unsubscribeList(l, n, t) ==
  LET d == devNameFullIsExist(l, n) IN
  IF d = IS_NOT THEN l ELSE [l EXCEPT ![d] = withdrawn(@, t)]

unsubscribeResult(l, n, t) ==
  LET d == devNameFullIsExist(l, n) IN
  IF d = IS_NOT THEN ERROR
  ELSE IF tokenIsExist(l[d], t) = IS_NOT THEN TOKEN_NOT_EXIST ELSE OK

(* One PUT subscribed_uris for every live subscription of u whose device   *)
(* is not at the excluded address: the entry's token, then the payload.    *)
notify_SenderToo(l, excluded, u) ==
  {[name |-> l[p[1]].name, ip |-> l[p[1]].ip,
    token |-> l[p[1]].uri[p[2]].token, from |-> p] :
      p \in {q \in Slot \X Entry : /\ l[q[1]].taken
                                   /\ l[q[1]].uri[q[2]].taken
                                   /\ l[q[1]].uri[q[2]].uriIndex = u}}
notify(l, excluded, u) ==
  {[name |-> l[p[1]].name, ip |-> l[p[1]].ip,
    token |-> l[p[1]].uri[p[2]].token, from |-> p] :
      p \in {q \in Slot \X Entry :
               /\ l[q[1]].taken
               /\ l[q[1]].uri[q[2]].taken
               /\ l[q[1]].uri[q[2]].uriIndex = u
               /\ l[q[1]].ip # excluded}}

-----------------------------------------------------------------------------
(* When a slot is in order: released storage is zero, a URI has one entry, *)
(* the slot is in use exactly while an entry is, what is in use is usable. *)
CleanWhenFree(s) ==
  /\ ~s.taken => s.name = NoName /\ s.ip = NoIp
  /\ \A e \in Entry : ~s.uri[e].taken => s.uri[e] = EmptyEntry

OneEntryPerUri(s) ==
  \A e1, e2 \in Entry :
    s.uri[e1].taken /\ s.uri[e2].taken /\ e1 # e2
      => s.uri[e1].uriIndex # s.uri[e2].uriIndex

InUseWhileSubscribed(s) == s.taken <=> \E e \in Entry : s.uri[e].taken

CompleteWhenTaken(s) ==
  /\ s.taken => s.name \in Name /\ s.ip \in Ip
  /\ \A e \in Entry :
       s.uri[e].taken => s.uri[e].token \in Token /\ s.uri[e].uriIndex \in Uri

SlotOK(s) ==
  /\ CleanWhenFree(s)
  /\ OneEntryPerUri(s)
  /\ InUseWhileSubscribed(s)
  /\ CompleteWhenTaken(s)

OneSlotPerName(l) ==
  \A d1, d2 \in Slot :
    l[d1].taken /\ l[d2].taken /\ d1 # d2 => l[d1].name # l[d2].name
=============================================================================
