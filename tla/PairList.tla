------------------------------ MODULE PairList -------------------------------
(***************************************************************************)
(* The list a device keeps of the devices it has paired with               *)
(* (otapp_pair_DeviceList_t of ot_app_pair.c) and the operations on it.    *)
(* An entry of a device's urisList is a URI and the token its             *)
(* notifications carry; NoName, NoIp, NoToken and NoUri are the zeroed     *)
(* fields, TornIp an address half overwritten by a new one.                *)
(***************************************************************************)
EXTENDS Integers

CONSTANTS
  Name,
  Ip, Token, Uri,
  NoName, NoIp, TornIp, NoToken, NoUri,
  DevMax,     \* OTAPP_PAIR_DEVICES_MAX
  UriMax      \* OTAPP_PAIR_URI_MAX

ASSUME PairListAssumption ==
  /\ DevMax \in Nat \ {0}
  /\ UriMax \in Nat \ {0}
  /\ NoName \notin Name
  /\ NoIp \notin Ip /\ TornIp \notin Ip
  /\ NoToken \notin Token
  /\ NoUri \notin Uri

Slot == 0 .. DevMax - 1
Entry == 0 .. UriMax - 1

(* Return codes of ot_app_pair.h. *)
UPDATED == -2
NO_NEED_UPDATE == -3
ERROR == -4
NO_EXIST == -5
NO_SPACE == -8

EmptyEntry == [uri |-> NoUri, token |-> NoToken]
EmptySlot ==
  [name |-> NoName, ip |-> NoIp, uris |-> [e \in Entry |-> EmptyEntry],
   taken |-> FALSE]
EmptyList == [d \in Slot |-> EmptySlot]

ListType ==
  [Slot -> [name : Name \cup {NoName}, ip : Ip \cup {NoIp, TornIp},
            uris : [Entry -> [uri : Uri \cup {NoUri},
                              token : Token \cup {NoToken}]],
            taken : BOOLEAN]]

First(S, none) ==
  IF S = {} THEN none ELSE CHOOSE i \in S : \A j \in S : i <= j

DeviceIsFreeSpace(l) == First({d \in Slot : ~l[d].taken}, ERROR)

DeviceIsExist_FirstSkipped(l, n) ==
  First({d \in Slot \ {0} : l[d].taken /\ l[d].name = n}, NO_EXIST)
DeviceIsExist(l, n) ==
  First({d \in Slot : l[d].taken /\ l[d].name = n}, NO_EXIST)

(* What otapp_pair_DeviceAdd returns: the slot of a new device, or a code. *)
(* OTAPP_PAIR_DEVICE_NAME_TO_LONG is not among them: a name of that length *)
(* is not taken for a device of this group, and is not added.              *)
DeviceAdd(l, n, ip) ==
  LET d == DeviceIsExist(l, n)
      f == DeviceIsFreeSpace(l)
  IN IF d # NO_EXIST
     THEN IF l[d].ip = ip THEN NO_NEED_UPDATE ELSE UPDATED
     ELSE IF f = ERROR THEN NO_SPACE
     ELSE f

spaceTake_Forgotten(l, d, n, ip) == [l EXCEPT ![d].name = n, ![d].ip = ip]
spaceTake(l, d, n, ip) ==
  [l EXCEPT ![d].name = n, ![d].ip = ip, ![d].taken = TRUE]

uriTokenIsValid(t) == t # NoToken
=============================================================================
