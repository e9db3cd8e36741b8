----------------------------- MODULE Pair_proofs -----------------------------
(***************************************************************************)
(* Pairing keeps one slot per device, and in it that device's URIs, for    *)
(* any number of devices, URIs, queued announcements and GETs under way.   *)
(*                                                                         *)
(* A slot is chosen in one step and written in later ones, by either       *)
(* thread or with an answer that comes at any time.  So the invariant says *)
(* that whoever has chosen a slot still finds its device there (Holds):    *)
(* the task, the handler and every GET.                                    *)
(***************************************************************************)
EXTENDS Pair, Lemmas, SequenceTheorems, TLAPS

Holds(d, n) == list[d].taken /\ list[d].name = n

(* The task works on the device of its queue item, and has counted no more *)
(* renewals than it has looked at entries. *)
TaskOnItsDevice ==
  /\ pt.at # "idle" => pt.name \in Name /\ pt.ip \in Ip
  /\ pt.at \in {"moved", "resend", "get"} => Holds(pt.slot, pt.name)
  /\ pt.count <= pt.uri
  /\ pt.at # "resend" => pt.uri = 0

(* The handler fills the slot of the device that answered, as far as its   *)
(* list of URIs goes.                                                      *)
HandlerOnItsDevice ==
  ot.at # "idle" => /\ ot.from \in Name
                    /\ Holds(ot.slot, ot.from)
                    /\ ot.uri < Len(Offers[ot.from])

(* The slot sent along with a GET is that of the device asked.             *)
AnswersComeHome ==
  \A k \in DOMAIN pending : Holds(pending[k].slot, pending[k].from)

FreeHasNoUris ==
  \A d \in Slot : ~list[d].taken => \A e \in Entry : list[d].uris[e].uri = NoUri

IInv ==
  /\ TypeOK
  /\ TaskOnItsDevice /\ HandlerOnItsDevice /\ AnswersComeHome
  /\ NamesUnique /\ FreeHasNoUris /\ OwnUris

-----------------------------------------------------------------------------
(* The operators.                                                          *)

(* A search returns a member of the set it scans, or the code it is given  *)
(* when there is none.                                                     *)
LEMMA FirstFinds ==
  ASSUME NEW S \in SUBSET Nat, NEW none
  PROVE  /\ S = {} => First(S, none) = none
         /\ S # {} => First(S, none) \in S
  BY LeastExists DEF First

LEMMA Ranges ==
  /\ Entry \subseteq Nat /\ Slot \subseteq Nat
  /\ 0 \in Entry /\ 0 \in Slot
  /\ UriMax \in Nat
  BY PairListAssumption DEF Entry, Slot

(* What the searches of otapp_pair_DeviceAdd find in the list.             *)
LEMMA ListSearch ==
  ASSUME NEW n
  PROVE  /\ \/ DeviceIsExist(list, n) \in Slot /\ Holds(DeviceIsExist(list, n), n)
            \/ DeviceIsExist(list, n) = NO_EXIST /\ \A d \in Slot : ~Holds(d, n)
         /\ \/ /\ DeviceIsFreeSpace(list) \in Slot
               /\ ~list[DeviceIsFreeSpace(list)].taken
            \/ DeviceIsFreeSpace(list) = ERROR
<1> DEFINE N == {d \in Slot : list[d].taken /\ list[d].name = n}
           F == {d \in Slot : ~list[d].taken}
<1>1. N \in SUBSET Nat /\ F \in SUBSET Nat
  BY Ranges
<1>2. DeviceIsExist(list, n) = First(N, NO_EXIST)
  BY DEF DeviceIsExist
<1>3. DeviceIsFreeSpace(list) = First(F, ERROR)
  BY DEF DeviceIsFreeSpace
<1>4. /\ (N = {} /\ First(N, NO_EXIST) = NO_EXIST) \/ First(N, NO_EXIST) \in N
      /\ (F = {} /\ First(F, ERROR) = ERROR) \/ First(F, ERROR) \in F
  <2> HIDE DEF N, F
  <2> QED
    BY <1>1, FirstFinds
<1> QED
  BY <1>2, <1>3, <1>4 DEF Holds

(* A new device gets a free slot and had none before.                      *)
LEMMA AddedToFreeSlot ==
  ASSUME NEW n, NEW ip, DeviceAdd(list, n, ip) >= 0
  PROVE  /\ DeviceAdd(list, n, ip) \in Slot
         /\ ~list[DeviceAdd(list, n, ip)].taken
         /\ \A d \in Slot : ~Holds(d, n)
<1>1. /\ UPDATED = -2 /\ NO_NEED_UPDATE = -3 /\ ERROR = -4
      /\ NO_EXIST = -5 /\ NO_SPACE = -8
  BY DEF UPDATED, NO_NEED_UPDATE, ERROR, NO_EXIST, NO_SPACE
<1>2. /\ DeviceIsExist(list, n) = NO_EXIST
      /\ DeviceIsFreeSpace(list) # ERROR
      /\ DeviceAdd(list, n, ip) = DeviceIsFreeSpace(list)
  BY <1>1 DEF DeviceAdd
<1>3. NO_EXIST \notin Slot
  BY <1>1, Ranges
<1> QED
  BY <1>2, <1>3, ListSearch

(* What is left of a sequence when one element is taken out.               *)
LEMMA RemoveAtProperties ==
  ASSUME NEW S, NEW s \in Seq(S), NEW k \in DOMAIN s
  PROVE  /\ RemoveAt(s, k) \in Seq(S)
         /\ Len(RemoveAt(s, k)) = Len(s) - 1
         /\ \A i \in 1 .. Len(s) - 1 :
              RemoveAt(s, k)[i] = IF i < k THEN s[i] ELSE s[i + 1]
         /\ \A i \in DOMAIN RemoveAt(s, k) :
              \E j \in DOMAIN s : RemoveAt(s, k)[i] = s[j]
<1> DEFINE front == SubSeq(s, 1, k - 1)
           back == SubSeq(s, k + 1, Len(s))
<1>1. Len(s) \in Nat /\ k \in 1 .. Len(s) /\ DOMAIN s = 1 .. Len(s)
  BY LenProperties
<1>2. \A i \in 1 .. Len(s) : s[i] \in S
  BY ElementOfSeq
<1>3. /\ front \in Seq(S) /\ Len(front) = k - 1
      /\ \A i \in 1 .. k - 1 : front[i] = s[i]
  <2>1. \A i \in 1 .. k - 1 : s[i] \in S
    BY <1>1, <1>2
  <2> QED
    BY <1>1, <2>1, SubSeqProperties
<1>4. /\ back \in Seq(S) /\ Len(back) = Len(s) - k
      /\ \A i \in 1 .. Len(s) - k : back[i] = s[k + i]
  <2>1. \A i \in k + 1 .. Len(s) : s[i] \in S
    BY <1>1, <1>2
  <2>2. k + 1 \in Int /\ Len(s) \in Int
    BY <1>1
  <2>3. /\ back \in Seq(S)
        /\ Len(back) = IF k + 1 <= Len(s) THEN Len(s) - (k + 1) + 1 ELSE 0
        /\ \A i \in 1 .. Len(s) - (k + 1) + 1 : back[i] = s[(k + 1) + i - 1]
    BY <2>1, <2>2, SubSeqProperties
  <2> QED
    BY <1>1, <2>3
<1>5. RemoveAt(s, k) = front \o back
  BY DEF RemoveAt
<1> HIDE DEF front, back
<1>6. /\ RemoveAt(s, k) \in Seq(S)
      /\ Len(RemoveAt(s, k)) = Len(s) - 1
      /\ \A i \in 1 .. Len(s) - 1 : RemoveAt(s, k)[i] =
           IF i <= k - 1 THEN front[i] ELSE back[i - (k - 1)]
  <2>1. /\ front \o back \in Seq(S)
        /\ Len(front \o back) = Len(front) + Len(back)
        /\ \A i \in 1 .. Len(front) + Len(back) : (front \o back)[i] =
             IF i <= Len(front) THEN front[i] ELSE back[i - Len(front)]
    BY <1>3, <1>4, ConcatProperties
  <2>2. Len(front) + Len(back) = Len(s) - 1
    BY <1>1, <1>3, <1>4
  <2> QED
    BY <1>3, <1>5, <2>1, <2>2
<1>7. ASSUME NEW i \in 1 .. Len(s) - 1
      PROVE  /\ RemoveAt(s, k)[i] = IF i < k THEN s[i] ELSE s[i + 1]
             /\ \E j \in DOMAIN s : RemoveAt(s, k)[i] = s[j]
  <2>1. CASE i <= k - 1
    <3>1. RemoveAt(s, k)[i] = s[i] /\ i \in DOMAIN s /\ i < k
      BY <1>1, <1>3, <1>6, <2>1
    <3> QED
      BY <3>1
  <2>2. CASE i > k - 1
    <3>1. i - (k - 1) \in 1 .. Len(s) - k /\ k + (i - (k - 1)) = i + 1
      BY <1>1, <2>2
    <3>2. RemoveAt(s, k)[i] = s[i + 1] /\ i + 1 \in DOMAIN s
      BY <1>1, <1>4, <1>6, <2>2, <3>1
    <3>3. ~(i < k)
      BY <1>1, <2>2
    <3> QED
      BY <3>2, <3>3
  <2> QED
    BY <1>1, <2>1, <2>2
<1>8. DOMAIN RemoveAt(s, k) = 1 .. Len(s) - 1
  BY <1>6, LenProperties
<1> QED
  BY <1>6, <1>7, <1>8

-----------------------------------------------------------------------------
(* The list.  TypeOK is split into what each variable is.                  *)
DeviceType ==
  [name : Name \cup {NoName}, ip : Ip \cup {NoIp, TornIp},
   uris : [Entry -> [uri : Uri \cup {NoUri}, token : Token \cup {NoToken}]],
   taken : BOOLEAN]
ItemType == [name : Name, ip : Ip]
TaskType ==
  [at : {"idle", "add", "moved", "resend", "get"},
   name : Name \cup {NoName}, ip : Ip \cup {NoIp},
   slot : Slot, uri : Entry, count : 0 .. UriMax]
HandlerType ==
  [at : {"idle", "send", "token", "uri"}, slot : Slot,
   from : Name \cup {NoName}, uri : Entry]
GetType == [slot : Slot, from : Name]

LEMMA Types ==
  TypeOK <=> /\ list \in [Slot -> DeviceType]
             /\ queue \in Seq(ItemType) /\ Len(queue) <= QueueMax
             /\ pt \in TaskType
             /\ ot \in HandlerType
             /\ token \in Token \cup {NoToken}
             /\ pending \in Seq(GetType) /\ Len(pending) <= MaxGets
  BY DEF TypeOK, ListType, DeviceType, ItemType, TaskType, HandlerType, GetType

(* A device keeps its slot. *)
Kept ==
  \A d \in Slot :
    list[d].taken => list'[d].taken /\ list'[d].name = list[d].name

LEMMA OthersStay ==
  ASSUME IInv, Kept
  PROVE  /\ UNCHANGED pt => TaskOnItsDevice'
         /\ UNCHANGED ot => HandlerOnItsDevice'
         /\ UNCHANGED pending => AnswersComeHome'
<1> USE DEF IInv, Holds
<1>1. UNCHANGED pt => TaskOnItsDevice'
  <2>1. pt.slot \in Slot
    BY Types DEF TaskType
  <2> QED
    BY <2>1 DEF TaskOnItsDevice, Kept
<1>2. UNCHANGED ot => HandlerOnItsDevice'
  <2>1. ot.slot \in Slot
    BY Types DEF HandlerType
  <2> QED
    BY <2>1 DEF HandlerOnItsDevice, Kept
<1>3. UNCHANGED pending => AnswersComeHome'
  <2>1. ASSUME NEW k \in DOMAIN pending PROVE pending[k].slot \in Slot
    <3>1. pending[k] \in GetType
      BY Types, LenProperties, ElementOfSeq
    <3> QED
      BY <3>1 DEF GetType
  <2> QED
    BY <2>1 DEF AnswersComeHome, Kept
<1> QED
  BY <1>1, <1>2, <1>3

(* What the properties of the list ask of it.                              *)
ListOK == list \in [Slot -> DeviceType] /\ NamesUnique /\ FreeHasNoUris /\ OwnUris

LEMMA ListOfIInv == IInv => ListOK
  BY Types DEF IInv, ListOK

(* Addresses and tokens may change: names and URIs are what counts.        *)
LEMMA SameDevices ==
  ASSUME ListOK,
         list' \in [Slot -> DeviceType],
         \A d \in Slot :
           /\ list'[d].taken = list[d].taken /\ list'[d].name = list[d].name
           /\ \A e \in Entry : list'[d].uris[e].uri = list[d].uris[e].uri
  PROVE  ListOK' /\ Kept
<1>1. NamesUnique'
  BY DEF ListOK, NamesUnique
<1>2. FreeHasNoUris' /\ OwnUris'
  BY DEF ListOK, FreeHasNoUris, OwnUris
<1> QED
  BY <1>1, <1>2 DEF ListOK, Kept

LEMMA NewDevice ==
  ASSUME ListOK, NEW n \in Name, NEW ip \in Ip, NEW d \in Slot,
         ~list[d].taken, \A c \in Slot : ~Holds(c, n),
         list' = spaceTake(list, d, n, ip)
  PROVE  ListOK' /\ Kept /\ list'[d].taken /\ list'[d].name = n
<1>1. list[d] \in DeviceType
  BY DEF ListOK
<1>2. list' = [list EXCEPT ![d] = [list[d] EXCEPT !.name = n, !.ip = ip, !.taken = TRUE]]
  BY <1>1 DEF spaceTake, ListOK, DeviceType
<1>3. [list[d] EXCEPT !.name = n, !.ip = ip, !.taken = TRUE] \in DeviceType
  BY <1>1 DEF DeviceType
<1>4. list' \in [Slot -> DeviceType]
  BY <1>2, <1>3 DEF ListOK
<1>5. /\ list'[d].taken /\ list'[d].name = n /\ list'[d].uris = list[d].uris
      /\ \A c \in Slot \ {d} : list'[c] = list[c]
  BY <1>1, <1>2 DEF ListOK, DeviceType
<1>6. \A e \in Entry : list'[d].uris[e].uri = NoUri
  BY <1>5 DEF ListOK, FreeHasNoUris
<1>7. NamesUnique'
  BY <1>5 DEF ListOK, NamesUnique, Holds
<1>8. FreeHasNoUris' /\ OwnUris'
  BY <1>5, <1>6 DEF ListOK, FreeHasNoUris, OwnUris
<1> QED
  BY <1>4, <1>5, <1>7, <1>8 DEF ListOK, Kept, Holds

LEMMA NewAddress ==
  ASSUME ListOK, NEW d \in Slot, NEW ip \in Ip \cup {NoIp, TornIp},
         list' = [list EXCEPT ![d].ip = ip]
  PROVE  ListOK' /\ Kept
<1>1. list[d] \in DeviceType
  BY DEF ListOK
<1>2. [list[d] EXCEPT !.ip = ip] \in DeviceType
  BY <1>1 DEF DeviceType
<1>3. list' \in [Slot -> DeviceType]
  BY <1>2 DEF ListOK
<1>4. \A c \in Slot :
        /\ list'[c].taken = list[c].taken /\ list'[c].name = list[c].name
        /\ list'[c].uris = list[c].uris
  BY <1>1 DEF ListOK, DeviceType
<1> QED
  BY <1>3, <1>4, SameDevices

(* An entry is written; the rest of the list stays.                        *)
EntryType == [uri : Uri \cup {NoUri}, token : Token \cup {NoToken}]
WithEntry(d, e, new) == [list EXCEPT ![d].uris[e] = new]
WithToken(d, e, t) == [list EXCEPT ![d].uris[e].token = t]
WithUri(d, e, u) == [list EXCEPT ![d].uris[e].uri = u]

LEMMA EntryWritten ==
  ASSUME ListOK, NEW d \in Slot, NEW e \in Entry, NEW new \in EntryType,
         list' = WithEntry(d, e, new)
  PROVE  /\ list' \in [Slot -> DeviceType]
         /\ \A c \in Slot :
              list'[c].taken = list[c].taken /\ list'[c].name = list[c].name
         /\ \A c \in Slot, f \in Entry :
              list'[c].uris[f] = IF c = d /\ f = e THEN new ELSE list[c].uris[f]
<1>1. list[d] \in DeviceType /\ list[d].uris \in [Entry -> EntryType]
  BY DEF ListOK, DeviceType, EntryType
<1> DEFINE device == [list[d] EXCEPT !.uris = [list[d].uris EXCEPT ![e] = new]]
<1>2. list' = [list EXCEPT ![d] = device]
  BY <1>1 DEF ListOK, DeviceType, WithEntry
<1>3. [list[d].uris EXCEPT ![e] = new] \in [Entry -> EntryType]
  BY <1>1
<1>4. /\ device \in DeviceType
      /\ device.taken = list[d].taken /\ device.name = list[d].name
      /\ device.uris = [list[d].uris EXCEPT ![e] = new]
  BY <1>1, <1>3 DEF DeviceType, EntryType
<1> HIDE DEF device
<1>5. /\ list' \in [Slot -> DeviceType]
      /\ list'[d] = device /\ \A c \in Slot \ {d} : list'[c] = list[c]
  BY <1>2, <1>4 DEF ListOK
<1>6. \A f \in Entry : device.uris[f] = IF f = e THEN new ELSE list[d].uris[f]
  BY <1>1, <1>4
<1> QED
  BY <1>4, <1>5, <1>6

LEMMA EntryOf ==
  ASSUME ListOK, NEW d \in Slot, NEW e \in Entry
  PROVE  /\ list[d].uris[e] \in EntryType
         /\ \A t \in Token \cup {NoToken} :
              /\ [list[d].uris[e] EXCEPT !.token = t] \in EntryType
              /\ [list[d].uris[e] EXCEPT !.token = t].uri = list[d].uris[e].uri
              /\ WithToken(d, e, t)
                   = WithEntry(d, e, [list[d].uris[e] EXCEPT !.token = t])
         /\ \A u \in Uri \cup {NoUri} :
              /\ [list[d].uris[e] EXCEPT !.uri = u] \in EntryType
              /\ [list[d].uris[e] EXCEPT !.uri = u].uri = u
              /\ WithUri(d, e, u)
                   = WithEntry(d, e, [list[d].uris[e] EXCEPT !.uri = u])
<1>1. list[d] \in DeviceType /\ list[d].uris[e] \in EntryType
  BY DEF ListOK, DeviceType, EntryType
<1> QED
  BY <1>1 DEF ListOK, DeviceType, EntryType, WithEntry, WithToken, WithUri

LEMMA NewToken ==
  ASSUME ListOK, NEW d \in Slot, NEW e \in Entry, NEW t \in Token \cup {NoToken},
         list' = WithToken(d, e, t)
  PROVE  ListOK' /\ Kept
<1> DEFINE new == [list[d].uris[e] EXCEPT !.token = t]
<1>1. /\ new \in EntryType /\ new.uri = list[d].uris[e].uri
      /\ list' = WithEntry(d, e, new)
  BY EntryOf
<1> HIDE DEF new
<1>2. /\ list' \in [Slot -> DeviceType]
      /\ \A c \in Slot :
           list'[c].taken = list[c].taken /\ list'[c].name = list[c].name
      /\ \A c \in Slot, f \in Entry :
           list'[c].uris[f] = IF c = d /\ f = e THEN new ELSE list[c].uris[f]
  BY <1>1, EntryWritten
<1> QED
  BY <1>1, <1>2, SameDevices

(* The URI is the one that its device lists at this place.                 *)
LEMMA NewUri ==
  ASSUME ListOK, NEW d \in Slot, NEW e \in Entry, NEW n \in Name,
         Holds(d, n), e < Len(Offers[n]),
         list' = WithUri(d, e, Offers[n][e + 1])
  PROVE  ListOK' /\ Kept
<1> DEFINE u == Offers[n][e + 1]
           new == [list[d].uris[e] EXCEPT !.uri = u]
<1>1. u \in Uri
  <2>1. Offers[n] \in Seq(Uri) /\ Len(Offers[n]) \in Nat /\ e \in Nat
    BY PairAssumption, LenProperties, Ranges
  <2>2. e + 1 \in 1 .. Len(Offers[n])
    BY <2>1
  <2> QED
    BY <2>1, <2>2, ElementOfSeq
<1>2. /\ new \in EntryType /\ new.uri = u
      /\ list' = WithEntry(d, e, new)
  BY <1>1, EntryOf
<1> HIDE DEF new
<1>3. /\ list' \in [Slot -> DeviceType]
      /\ \A c \in Slot :
           list'[c].taken = list[c].taken /\ list'[c].name = list[c].name
      /\ \A c \in Slot, f \in Entry :
           list'[c].uris[f] = IF c = d /\ f = e THEN new ELSE list[c].uris[f]
  BY <1>2, EntryWritten
<1>4. NamesUnique'
  BY <1>3 DEF ListOK, NamesUnique
<1>5. FreeHasNoUris'
  BY <1>3 DEF ListOK, FreeHasNoUris, Holds
<1>6. OwnUris'
  <2> SUFFICES ASSUME NEW c \in Slot, NEW f \in Entry, list'[c].uris[f].uri # NoUri
               PROVE  /\ list'[c].taken
                      /\ f < Len(Offers[list'[c].name])
                      /\ list'[c].uris[f].uri = Offers[list'[c].name][f + 1]
    BY DEF OwnUris
  <2>1. CASE c = d /\ f = e
    BY <1>2, <1>3, <2>1 DEF Holds
  <2>2. CASE ~(c = d /\ f = e)
    BY <1>3, <2>2 DEF ListOK, OwnUris
  <2> QED
    BY <2>1, <2>2
<1> QED
  BY <1>3, <1>4, <1>5, <1>6 DEF ListOK, Kept

-----------------------------------------------------------------------------
(* The initial state.                                                      *)
LEMMA InitIInv == Init => IInv
<1> SUFFICES ASSUME Init PROVE IInv
  OBVIOUS
<1> USE DEF Init
<1>1. EmptySlot \in DeviceType
  BY DEF EmptySlot, EmptyEntry, DeviceType
<1>2. \A d \in Slot : list[d] = EmptySlot
  BY DEF EmptyList
<1>3. EmptySlot.taken = FALSE /\ \A e \in Entry : EmptySlot.uris[e].uri = NoUri
  BY DEF EmptySlot, EmptyEntry
<1>4. TypeOK
  <2>1. list \in [Slot -> DeviceType]
    BY <1>1 DEF EmptyList
  <2>2. queue \in Seq(ItemType) /\ Len(queue) <= QueueMax
    BY EmptySeq, PairAssumption
  <2>3. pending \in Seq(GetType) /\ Len(pending) <= MaxGets
    BY EmptySeq, PairAssumption
  <2>4. pt \in TaskType /\ ot \in HandlerType
    BY Ranges DEF PtIdle, OtIdle, TaskType, HandlerType
  <2> QED
    BY <2>1, <2>2, <2>3, <2>4, Types
<1>5. TaskOnItsDevice /\ HandlerOnItsDevice /\ AnswersComeHome
  BY DEF PtIdle, OtIdle, TaskOnItsDevice, HandlerOnItsDevice, AnswersComeHome
<1>6. NamesUnique /\ FreeHasNoUris /\ OwnUris
  BY <1>2, <1>3 DEF NamesUnique, FreeHasNoUris, OwnUris
<1> QED
  BY <1>4, <1>5, <1>6 DEF IInv

(* A step is put together from what it does to the list and to each of the *)
(* other variables.                                                        *)
LEMMA Assembled ==
  ASSUME ListOK',
         queue' \in Seq(ItemType), Len(queue') <= QueueMax,
         pt' \in TaskType, ot' \in HandlerType,
         token' \in Token \cup {NoToken},
         pending' \in Seq(GetType), Len(pending') <= MaxGets,
         TaskOnItsDevice', HandlerOnItsDevice', AnswersComeHome'
  PROVE  IInv'
<1>1. TypeOK'
  BY DEF ListOK, TypeOK, ListType, DeviceType, ItemType, TaskType, HandlerType, GetType
<1> QED
  BY <1>1 DEF ListOK, IInv

(* What holds before a step, for the variables it leaves alone.            *)
LEMMA Before ==
  ASSUME IInv
  PROVE  /\ ListOK
         /\ queue \in Seq(ItemType) /\ Len(queue) <= QueueMax
         /\ pt \in TaskType /\ ot \in HandlerType
         /\ token \in Token \cup {NoToken}
         /\ pending \in Seq(GetType) /\ Len(pending) <= MaxGets
         /\ TaskOnItsDevice /\ HandlerOnItsDevice /\ AnswersComeHome
  BY ListOfIInv, Types DEF IInv

LEMMA SameList == ListOK /\ UNCHANGED list => ListOK' /\ Kept
<1> SUFFICES ASSUME ListOK, UNCHANGED list PROVE ListOK' /\ Kept
  OBVIOUS
<1> QED
  BY SameDevices DEF ListOK

-----------------------------------------------------------------------------
(* The pair task.                                                          *)
LEMMA QueueStep ==
  ASSUME IInv, NEW n \in Name, NEW ip \in Ip, addToQueue(n, ip)
  PROVE  IInv'
<1> USE DEF addToQueue
<1>1. ListOK' /\ Kept
  BY Before, SameList
<1>2. queue' \in Seq(ItemType) /\ Len(queue') <= QueueMax
  <2>1. [name |-> n, ip |-> ip] \in ItemType
    BY DEF ItemType
  <2>2. CASE Len(queue) < QueueMax
    <3>1. /\ Append(queue, [name |-> n, ip |-> ip]) \in Seq(ItemType)
          /\ Len(Append(queue, [name |-> n, ip |-> ip])) = Len(queue) + 1
      BY <2>1, Before, AppendProperties
    <3> QED
      BY <2>2, <3>1, Before, LenProperties, PairAssumption
  <2>3. CASE ~(Len(queue) < QueueMax)
    BY <2>3, Before
  <2> QED
    BY <2>2, <2>3
<1> QED
  BY <1>1, <1>2, Before, OthersStay, Assembled

LEMMA ReceiveStep ==
  ASSUME IInv, Receive
  PROVE  IInv'
<1>1. ListOK' /\ Kept
  BY Before, SameList DEF Receive
<1>2. PICK item \in ItemType : item = Head(queue)
  BY Before, HeadTailProperties DEF Receive
<1>3. queue' \in Seq(ItemType) /\ Len(queue') <= QueueMax
  <2>1. Tail(queue) \in Seq(ItemType) /\ Len(Tail(queue)) = Len(queue) - 1
    BY Before, HeadTailProperties DEF Receive
  <2> QED
    BY <2>1, Before, LenProperties, PairAssumption DEF Receive
<1>4. \/ pt' = PtIdle
      \/ pt' = [at |-> "add", name |-> item.name, ip |-> item.ip, slot |-> 0,
                uri |-> 0, count |-> 0]
  BY <1>2 DEF Receive, PtIdle
<1>5. pt' \in TaskType /\ TaskOnItsDevice'
  <2>1. item.name \in Name /\ item.ip \in Ip
    BY DEF ItemType
  <2>2. pt' \in TaskType
    BY <1>4, <2>1, Ranges DEF PtIdle, TaskType
  <2>3. TaskOnItsDevice'
    BY <1>4, <2>1 DEF PtIdle, TaskOnItsDevice
  <2> QED
    BY <2>2, <2>3
<1>6. UNCHANGED <<ot, token, pending>>
  BY DEF Receive
<1> QED
  BY <1>1, <1>3, <1>5, <1>6, Before, OthersStay, Assembled

LEMMA AddNewStep ==
  ASSUME IInv, AddNew
  PROVE  IInv'
<1> DEFINE d == DeviceAdd(list, pt.name, pt.ip)
<1>1. /\ pt.at = "add" /\ d >= 0
      /\ list' = spaceTake(list, d, pt.name, pt.ip)
      /\ pt' = [pt EXCEPT !.at = "get", !.slot = d]
      /\ UNCHANGED <<queue, ot, token, pending>>
  BY DEF AddNew
<1>2. pt.name \in Name /\ pt.ip \in Ip
  BY <1>1, Before DEF TaskOnItsDevice
<1>3. d \in Slot /\ ~list[d].taken /\ \A c \in Slot : ~Holds(c, pt.name)
  BY <1>1, AddedToFreeSlot
<1> HIDE DEF d
<1>4. ListOK' /\ Kept /\ list'[d].taken /\ list'[d].name = pt.name
  BY <1>1, <1>2, <1>3, Before, NewDevice
<1>5. pt' \in TaskType /\ TaskOnItsDevice'
  BY <1>1, <1>2, <1>3, <1>4, Before DEF TaskType, TaskOnItsDevice, Holds
<1> QED
  BY <1>1, <1>4, <1>5, Before, OthersStay, Assembled

LEMMA AddRefusedStep ==
  ASSUME IInv, AddRefused
  PROVE  IInv'
<1> USE DEF AddRefused
<1>1. ListOK' /\ Kept
  BY Before, SameList
<1>2. pt' \in TaskType /\ TaskOnItsDevice'
  BY Ranges DEF PtIdle, TaskType, TaskOnItsDevice
<1> QED
  BY <1>1, <1>2, Before, OthersStay, Assembled

LEMMA AddKnownStep ==
  ASSUME IInv, AddKnown
  PROVE  IInv'
<1> DEFINE d == DeviceIsExist(list, pt.name)
           moves == DeviceAdd(list, pt.name, pt.ip) = UPDATED
<1>1. /\ pt.at = "add" /\ d # NO_EXIST
      /\ list' = IF moves THEN [list EXCEPT ![d].ip = TornIp] ELSE list
      /\ pt' = [pt EXCEPT !.at = IF moves THEN "moved" ELSE "resend", !.slot = d]
      /\ UNCHANGED <<queue, ot, token, pending>>
  BY DEF AddKnown
<1>2. pt.name \in Name /\ pt.ip \in Ip /\ pt.uri = 0
  BY <1>1, Before DEF TaskOnItsDevice
<1>3. d \in Slot /\ Holds(d, pt.name)
  BY <1>1, ListSearch
<1> HIDE DEF d, moves
<1>4. ListOK' /\ Kept
  <2>1. CASE moves
    BY <1>1, <1>3, <2>1, Before, NewAddress
  <2>2. CASE ~moves
    BY <1>1, <2>2, Before, SameList
  <2> QED
    BY <2>1, <2>2
<1>5. list'[d].taken /\ list'[d].name = pt.name
  BY <1>3, <1>4 DEF Holds, Kept
<1>6. pt' \in TaskType /\ TaskOnItsDevice'
  BY <1>1, <1>2, <1>3, <1>5, Before DEF TaskType, TaskOnItsDevice, Holds
<1> QED
  BY <1>1, <1>4, <1>6, Before, OthersStay, Assembled

LEMMA AddressStep ==
  ASSUME IInv, ipAddressUpdate
  PROVE  IInv'
<1> USE DEF ipAddressUpdate
<1>1. /\ pt.slot \in Slot /\ pt.name \in Name /\ pt.ip \in Ip /\ pt.uri = 0
      /\ Holds(pt.slot, pt.name)
  BY Before DEF TaskType, TaskOnItsDevice
<1>2. ListOK' /\ Kept
  BY <1>1, Before, NewAddress
<1>3. list'[pt.slot].taken /\ list'[pt.slot].name = pt.name
  BY <1>1, <1>2 DEF Holds, Kept
<1>4. pt' \in TaskType /\ TaskOnItsDevice'
  BY <1>1, <1>3, Before DEF TaskType, TaskOnItsDevice, Holds
<1> QED
  BY <1>2, <1>4, Before, OthersStay, Assembled

LEMMA RenewStep ==
  ASSUME IInv, subSendRequest
  PROVE  IInv'
<1> DEFINE sent == IF uriTokenIsValid(list[pt.slot].uris[pt.uri].token) THEN 1 ELSE 0
           next == [pt EXCEPT !.uri = @ + 1, !.count = @ + sent]
<1>1. /\ pt.at = "resend"
      /\ pt' = IF next.uri < UriMax THEN next
               ELSE IF next.count = 0 THEN [next EXCEPT !.at = "get", !.uri = 0]
               ELSE PtIdle
      /\ UNCHANGED <<list, queue, ot, token, pending>>
  BY DEF subSendRequest
<1>2. ListOK' /\ Kept
  BY <1>1, Before, SameList
<1>3. /\ pt \in TaskType /\ pt.uri \in Nat /\ pt.count \in Nat
      /\ pt.uri < UriMax /\ pt.count <= pt.uri
      /\ pt.name \in Name /\ pt.ip \in Ip
      /\ Holds(pt.slot, pt.name)
  <2>1. pt.uri \in Entry /\ pt.count \in 0 .. UriMax
    BY Before DEF TaskType
  <2> QED
    BY <1>1, <2>1, Before, Ranges DEF TaskOnItsDevice, Entry
<1>4. sent \in {0, 1}
  OBVIOUS
<1> HIDE DEF sent
<1>5. /\ next.uri = pt.uri + 1 /\ next.count = pt.count + sent
      /\ next = [pt EXCEPT !.uri = pt.uri + 1, !.count = pt.count + sent]
  BY <1>3 DEF TaskType
<1> HIDE DEF next
<1>6. pt' \in TaskType /\ TaskOnItsDevice'
  <2>1. CASE next.uri < UriMax
    <3>1. pt.uri + 1 \in Entry /\ pt.count + sent \in 0 .. UriMax
      BY <1>3, <1>4, <1>5, <2>1, Ranges DEF Entry
    <3>2. pt' = [pt EXCEPT !.uri = pt.uri + 1, !.count = pt.count + sent]
      BY <1>1, <1>5, <2>1
    <3>3. pt' \in TaskType
      BY <1>3, <3>1, <3>2 DEF TaskType
    <3>4. /\ pt'.at = "resend" /\ pt'.name = pt.name /\ pt'.ip = pt.ip
          /\ pt'.slot = pt.slot
          /\ pt'.count = pt.count + sent /\ pt'.uri = pt.uri + 1
      BY <1>1, <1>3, <3>2 DEF TaskType
    <3>5. pt'.count <= pt'.uri
      BY <1>3, <1>4, <3>4
    <3> QED
      BY <1>1, <1>3, <3>3, <3>4, <3>5 DEF TaskOnItsDevice, Holds
  <2>2. CASE ~(next.uri < UriMax) /\ next.count = 0
    <3> DEFINE Counting == [at : {"resend"}, name : Name \cup {NoName},
                            ip : Ip \cup {NoIp}, slot : Slot, uri : Nat, count : Nat]
    <3>1. /\ next \in Counting
          /\ next.name = pt.name /\ next.ip = pt.ip /\ next.slot = pt.slot
      <4>1. pt.uri + 1 \in Nat /\ pt.count + sent \in Nat
        BY <1>3, <1>4
      <4> QED
        BY <1>1, <1>3, <1>5, <4>1 DEF TaskType
    <3>2. pt' = [next EXCEPT !.at = "get", !.uri = 0] /\ next.count = 0
      BY <1>1, <2>2
    <3>3. pt' \in TaskType
      <4>1. 0 \in Entry /\ 0 \in 0 .. UriMax
        BY Ranges
      <4>2. ASSUME NEW c \in Counting, c.count = 0
            PROVE  [c EXCEPT !.at = "get", !.uri = 0] \in TaskType
        BY <4>1, <4>2 DEF TaskType
      <4> QED
        BY <3>1, <3>2, <4>2
    <3>4. /\ pt'.at = "get" /\ pt'.name = pt.name /\ pt'.ip = pt.ip
          /\ pt'.slot = pt.slot /\ pt'.count = 0 /\ pt'.uri = 0
      BY <3>1, <3>2
    <3> QED
      BY <1>1, <1>3, <3>3, <3>4 DEF TaskOnItsDevice, Holds
  <2>3. CASE pt' = PtIdle
    BY <2>3, Ranges DEF PtIdle, TaskType, TaskOnItsDevice
  <2> QED
    BY <1>1, <2>1, <2>2, <2>3
<1> QED
  BY <1>1, <1>2, <1>6, Before, OthersStay, Assembled

LEMMA GetStep ==
  ASSUME IInv, SendGetUri_Well_known
  PROVE  IInv'
<1>1. ListOK' /\ Kept
  BY Before, SameList DEF SendGetUri_Well_known
<1>2. pt' \in TaskType /\ TaskOnItsDevice'
  BY Ranges DEF SendGetUri_Well_known, PtIdle, TaskType, TaskOnItsDevice
<1>3. /\ pending' \in Seq(GetType) /\ Len(pending') <= MaxGets
      /\ AnswersComeHome'
  <2>1. CASE UNCHANGED pending
    BY <1>1, <2>1, Before, OthersStay
  <2>2. CASE pending' = Append(pending, [slot |-> pt.slot, from |-> pt.name])
    <3> DEFINE get == [slot |-> pt.slot, from |-> pt.name]
    <3>1. get \in GetType /\ Holds(get.slot, get.from)
      BY Before DEF SendGetUri_Well_known, TaskOnItsDevice, TaskType, GetType
    <3> HIDE DEF get
    <3>2. /\ pending' \in Seq(GetType) /\ Len(pending') = Len(pending) + 1
          /\ \A k \in 1 .. Len(pending) : pending'[k] = pending[k]
          /\ pending'[Len(pending) + 1] = get
      BY <2>2, <3>1, Before, AppendProperties DEF get
    <3>3. /\ Len(pending) \in Nat /\ DOMAIN pending = 1 .. Len(pending)
          /\ DOMAIN pending' = 1 .. Len(pending) + 1
      BY <3>2, Before, LenProperties
    <3>4. Len(pending') <= MaxGets
      BY <3>2, <3>3, PairAssumption DEF SendGetUri_Well_known
    <3>5. UNCHANGED list
      BY DEF SendGetUri_Well_known
    <3>6. ASSUME NEW k \in DOMAIN pending'
          PROVE  list[pending'[k].slot].taken
                 /\ list[pending'[k].slot].name = pending'[k].from
      <4>1. CASE k \in DOMAIN pending
        BY <3>2, <3>3, <4>1, Before DEF AnswersComeHome, Holds
      <4>2. CASE k = Len(pending) + 1
        BY <3>1, <3>2, <4>2 DEF Holds
      <4> QED
        BY <3>3, <4>1, <4>2
    <3> QED
      BY <3>2, <3>4, <3>5, <3>6 DEF AnswersComeHome, Holds
  <2> QED
    BY <2>1, <2>2 DEF SendGetUri_Well_known
<1>4. UNCHANGED <<queue, ot, token>>
  BY DEF SendGetUri_Well_known
<1> QED
  BY <1>1, <1>2, <1>3, <1>4, Before, OthersStay, Assembled

-----------------------------------------------------------------------------
(* The handler.                                                            *)

(* An answer is taken out of those that are due.                           *)
LEMMA Answered ==
  ASSUME IInv, NEW k \in DOMAIN pending, UNCHANGED list,
         pending' = RemoveAt(pending, k)
  PROVE  /\ pending' \in Seq(GetType) /\ Len(pending') <= MaxGets
         /\ AnswersComeHome'
         /\ pending[k] \in GetType /\ Holds(pending[k].slot, pending[k].from)
<1>1. /\ pending' \in Seq(GetType) /\ Len(pending') = Len(pending) - 1
      /\ \A i \in DOMAIN pending' : \E j \in DOMAIN pending : pending'[i] = pending[j]
  BY Before, RemoveAtProperties
<1>2. Len(pending) \in Nat /\ pending[k] \in GetType
  BY Before, LenProperties, ElementOfSeq
<1>3. Len(pending') <= MaxGets
  BY <1>1, <1>2, Before, PairAssumption
<1>4. Holds(pending[k].slot, pending[k].from)
  BY Before DEF AnswersComeHome
<1>5. AnswersComeHome'
  BY <1>1, Before DEF AnswersComeHome, Holds
<1> QED
  BY <1>1, <1>2, <1>3, <1>4, <1>5

LEMMA NoUrisStep ==
  ASSUME IInv, NEW k \in DOMAIN pending, NoUris(k)
  PROVE  IInv'
<1>1. ListOK' /\ Kept
  BY Before, SameList DEF NoUris
<1>2. /\ pending' \in Seq(GetType) /\ Len(pending') <= MaxGets
      /\ AnswersComeHome'
  BY Answered DEF NoUris
<1>3. UNCHANGED <<queue, pt, ot, token>>
  BY DEF NoUris
<1> QED
  BY <1>1, <1>2, <1>3, Before, OthersStay, Assembled

LEMMA AnswerStep ==
  ASSUME IInv, NEW k \in DOMAIN pending, HandlerUriWellKnown(k)
  PROVE  IInv'
<1>1. ListOK' /\ Kept
  BY Before, SameList DEF HandlerUriWellKnown
<1>2. /\ pending' \in Seq(GetType) /\ Len(pending') <= MaxGets
      /\ AnswersComeHome'
      /\ pending[k] \in GetType /\ Holds(pending[k].slot, pending[k].from)
  BY Answered DEF HandlerUriWellKnown
<1>3. UNCHANGED <<list, queue, pt, token>>
  BY DEF HandlerUriWellKnown
<1>4. ot' = [at |-> "send", slot |-> pending[k].slot, from |-> pending[k].from,
             uri |-> 0]
  BY DEF HandlerUriWellKnown
<1>5. ot' \in HandlerType
  BY <1>2, <1>4, Ranges DEF HandlerType, GetType
<1>6. HandlerOnItsDevice'
  <2>1. pending[k].from \in Name
    BY <1>2 DEF GetType
  <2>2. 0 < Len(Offers[pending[k].from])
    BY <2>1, PairAssumption, PairListAssumption
  <2> QED
    BY <1>2, <1>3, <1>4, <2>1, <2>2 DEF HandlerOnItsDevice, Holds
<1> QED
  BY <1>1, <1>2, <1>3, <1>5, <1>6, Before, OthersStay, Assembled

(* Where the handler is while it works through the URIs of an answer.      *)
LEMMA AtEntry ==
  ASSUME IInv, ot.at # "idle"
  PROVE  /\ ot.slot \in Slot /\ ot.uri \in Entry /\ ot.from \in Name
         /\ Holds(ot.slot, ot.from)
         /\ ot.uri < Len(Offers[ot.from])
         /\ Len(Offers[ot.from]) \in Nat /\ Len(Offers[ot.from]) <= UriMax
<1>1. ot.slot \in Slot /\ ot.uri \in Entry
  BY Before DEF HandlerType
<1>2. ot.from \in Name /\ Holds(ot.slot, ot.from) /\ ot.uri < Len(Offers[ot.from])
  BY Before DEF HandlerOnItsDevice
<1>3. Len(Offers[ot.from]) \in 1 .. UriMax
  BY <1>2, PairAssumption
<1> QED
  BY <1>1, <1>2, <1>3, Ranges

(* It goes from place to place...                                          *)
LEMMA HandlerMoves ==
  ASSUME IInv, Kept, ot.at # "idle", NEW place \in {"token", "uri"},
         ot' = [ot EXCEPT !.at = place]
  PROVE  ot' \in HandlerType /\ HandlerOnItsDevice'
<1>1. ot' \in HandlerType
  BY Before DEF HandlerType
<1>2. /\ ot'.slot = ot.slot /\ ot'.from = ot.from /\ ot'.uri = ot.uri
      /\ ot'.at # "idle"
  BY Before DEF HandlerType
<1> QED
  BY <1>1, <1>2, AtEntry DEF HandlerOnItsDevice, Holds, Kept

(* ...and from URI to URI, to the last.                                    *)
LEMMA HandlerNext ==
  ASSUME IInv, Kept, ot.at # "idle", nextUri
  PROVE  ot' \in HandlerType /\ HandlerOnItsDevice'
<1>1. CASE ot.uri + 1 < Len(Offers[ot.from])
  <2>1. ot' = [ot EXCEPT !.at = "send", !.uri = ot.uri + 1]
    BY <1>1, Before DEF nextUri, HandlerType
  <2>2. ot.uri + 1 \in Entry
    BY <1>1, AtEntry, Ranges DEF Entry
  <2>3. ot' \in HandlerType
    BY <2>1, <2>2, Before DEF HandlerType
  <2>4. ot'.slot = ot.slot /\ ot'.from = ot.from /\ ot'.uri = ot.uri + 1
    BY <2>1, Before DEF HandlerType
  <2> QED
    BY <1>1, <2>3, <2>4, AtEntry DEF HandlerOnItsDevice, Holds, Kept
<1>2. CASE ~(ot.uri + 1 < Len(Offers[ot.from]))
  BY <1>2, Ranges DEF nextUri, OtIdle, HandlerType, HandlerOnItsDevice
<1> QED
  BY <1>1, <1>2

LEMMA SendStep ==
  ASSUME IInv, sendSubscribeRequest
  PROVE  IInv'
<1>1. ListOK' /\ Kept
  BY Before, SameList DEF sendSubscribeRequest
<1>2. token' \in Token \cup {NoToken}
  BY Before DEF sendSubscribeRequest
<1>3. ot' \in HandlerType /\ HandlerOnItsDevice'
  BY <1>1, HandlerMoves DEF sendSubscribeRequest
<1>4. UNCHANGED <<list, queue, pt, pending>>
  BY DEF sendSubscribeRequest
<1> QED
  BY <1>1, <1>2, <1>3, <1>4, Before, OthersStay, Assembled

LEMMA AddTokenStep ==
  ASSUME IInv, uriAddToken
  PROVE  IInv'
<1>1. /\ ot.at = "token" /\ ot.at # "idle"
      /\ UNCHANGED <<queue, pt, token, pending>>
  BY DEF uriAddToken
<1>2. ListOK' /\ Kept /\ ot' \in HandlerType /\ HandlerOnItsDevice'
  <2>1. CASE uriTokenIsValid(token)
    <3>1. list' = WithToken(ot.slot, ot.uri, token)
      BY <2>1 DEF uriAddToken, WithToken
    <3>2. ListOK' /\ Kept
      BY <1>1, <3>1, AtEntry, Before, NewToken
    <3> QED
      BY <1>1, <2>1, <3>2, HandlerMoves DEF uriAddToken
  <2>2. CASE ~uriTokenIsValid(token)
    <3>1. ListOK' /\ Kept
      BY <2>2, Before, SameList DEF uriAddToken
    <3> QED
      BY <1>1, <2>2, <3>1, HandlerNext DEF uriAddToken
  <2> QED
    BY <2>1, <2>2
<1> QED
  BY <1>1, <1>2, Before, OthersStay, Assembled

LEMMA AddUriStep ==
  ASSUME IInv, uriAddUri
  PROVE  IInv'
<1>1. /\ ot.at = "uri" /\ ot.at # "idle"
      /\ UNCHANGED <<queue, pt, token, pending>>
  BY DEF uriAddUri
<1>2. list' = WithUri(ot.slot, ot.uri, Offers[ot.from][ot.uri + 1])
  BY DEF uriAddUri, WithUri
<1>3. ListOK' /\ Kept
  BY <1>1, <1>2, AtEntry, Before, NewUri
<1>4. ot' \in HandlerType /\ HandlerOnItsDevice'
  BY <1>1, <1>3, HandlerNext DEF uriAddUri
<1> QED
  BY <1>1, <1>3, <1>4, Before, OthersStay, Assembled

-----------------------------------------------------------------------------
LEMMA NextIInv == IInv /\ [Next]_vars => IInv'
<1> SUFFICES ASSUME IInv, [Next]_vars PROVE IInv'
  OBVIOUS
<1>1. CASE \E n \in Name : \E ip \in Addresses[n] : addToQueue(n, ip)
  <2>1. \A n \in Name : Addresses[n] \subseteq Ip
    BY PairAssumption
  <2> QED
    BY <1>1, <2>1, QueueStep
<1>2. CASE PairTask
  BY <1>2, ReceiveStep, AddNewStep, AddRefusedStep, AddKnownStep, AddressStep,
     RenewStep, GetStep DEF PairTask
<1>3. CASE Handler
  BY <1>3, SendStep, AddTokenStep, AddUriStep DEF Handler
<1>4. CASE Answer
  BY <1>4, NoUrisStep, AnswerStep DEF Answer
<1>5. CASE UNCHANGED vars
  <2>1. ListOK' /\ Kept
    BY <1>5, Before, SameList DEF vars
  <2>2. UNCHANGED <<queue, pt, ot, token, pending>>
    BY <1>5 DEF vars
  <2> QED
    BY <2>1, <2>2, Before, OthersStay, Assembled
<1> QED
  BY <1>1, <1>2, <1>3, <1>4, <1>5 DEF Next

(* The inductive invariant holds of every behaviour of the two threads.    *)
THEOREM Inductive == Spec => []IInv
<1>1. Init => IInv
  BY InitIInv
<1>2. IInv /\ [Next]_vars => IInv'
  BY NextIInv
<1> QED
  BY <1>1, <1>2, PTL DEF Spec

(* Indices stay inside the list and the slots, the queue and the GETs      *)
(* under way inside their limits.                                          *)
THEOREM TypeCorrect == Spec => []TypeOK
<1>1. IInv => TypeOK
  BY DEF IInv
<1> QED
  BY <1>1, Inductive, PTL

(* However often a device is announced, it holds one slot.                 *)
THEOREM OneSlotPerDevice == Spec => []NamesUnique
<1>1. IInv => NamesUnique
  BY DEF IInv
<1> QED
  BY <1>1, Inductive, PTL

(* In whatever order the answers come, a slot lists what its own device    *)
(* offers, in the device's order.                                          *)
THEOREM SlotsListTheirOwn == Spec => []OwnUris
<1>1. IInv => OwnUris
  BY DEF IInv
<1> QED
  BY <1>1, Inductive, PTL
=============================================================================
