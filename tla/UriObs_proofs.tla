---------------------------- MODULE UriObs_proofs ----------------------------
(***************************************************************************)
(* Proofs about the subscriber list, for every size of the table and every *)
(* set of names, addresses, tokens and URIs.                               *)
(*                                                                         *)
(* The invariant is local to a slot but for OneSlotPerName.  So each       *)
(* operation is first shown to turn a slot in order into a slot in order   *)
(* (Enrolled, Renewed, Withdrawn), then the table lemmas put the new slot  *)
(* in its place.  The same way, Meaning says what registry a table stands  *)
(* for, and each operation is shown to do to the meaning what it promises. *)
(***************************************************************************)
EXTENDS UriObs, Lemmas, FiniteSetTheorems, TLAPS

(* A search returns a member of the set it scans, or the code it is given  *)
(* when there is none.                                                     *)
LEMMA FirstFinds ==
  ASSUME NEW S \in SUBSET Nat, NEW none
  PROVE  /\ S = {} => First(S, none) = none
         /\ S # {} => First(S, none) \in S
  BY LeastExists DEF First

LEMMA Ranges == Entry \subseteq Nat /\ Slot \subseteq Nat /\ 0 \in Entry
BY SubListAssumption DEF Entry, Slot

(* The two searches over a slot, with what the code compares.              *)
LEMMA EntrySearch ==
  ASSUME NEW s \in SlotType, NEW u
  PROVE  /\ \/ uriIsExist(s, u) \in Entry /\ s.uri[uriIsExist(s, u)].uriIndex = u
            \/ uriIsExist(s, u) = IS_NOT /\ \A e \in Entry : s.uri[e].uriIndex # u
         /\ \/ spaceUriIsFree(s) \in Entry /\ ~s.uri[spaceUriIsFree(s)].taken
            \/ spaceUriIsFree(s) = LIST_FULL /\ \A e \in Entry : s.uri[e].taken
         /\ \/ /\ tokenIsExist(s, u) \in Entry
               /\ s.uri[tokenIsExist(s, u)].taken
               /\ s.uri[tokenIsExist(s, u)].token = u
            \/ tokenIsExist(s, u) = IS_NOT
<1>. DEFINE U == {e \in Entry : s.uri[e].uriIndex = u}
            F == {e \in Entry : ~s.uri[e].taken}
            T == {e \in Entry : s.uri[e].taken /\ s.uri[e].token = u}
<1>1. U \in SUBSET Nat /\ F \in SUBSET Nat /\ T \in SUBSET Nat
  BY Ranges
<1>2. /\ uriIsExist(s, u) = First(U, IS_NOT)
      /\ spaceUriIsFree(s) = First(F, LIST_FULL)
      /\ tokenIsExist(s, u) = First(T, IS_NOT)
  BY DEF uriIsExist, spaceUriIsFree, tokenIsExist
<1>3. /\ (U = {} /\ First(U, IS_NOT) = IS_NOT) \/ First(U, IS_NOT) \in U
      /\ (F = {} /\ First(F, LIST_FULL) = LIST_FULL) \/ First(F, LIST_FULL) \in F
      /\ (T = {} /\ First(T, IS_NOT) = IS_NOT) \/ First(T, IS_NOT) \in T
  <2>. HIDE DEF U, F, T
  <2>. QED
    BY <1>1, FirstFinds
<1>. QED
  BY <1>2, <1>3

(* The searches over the table. *)
LEMMA SlotSearch ==
  ASSUME NEW l \in ListType, NEW n
  PROVE  /\ \/ /\ devNameFullIsExist(l, n) \in Slot
               /\ l[devNameFullIsExist(l, n)].taken
               /\ l[devNameFullIsExist(l, n)].name = n
            \/ /\ devNameFullIsExist(l, n) = IS_NOT
               /\ \A d \in Slot : l[d].taken => l[d].name # n
         /\ \/ spaceDevNameIsFree(l) \in Slot /\ ~l[spaceDevNameIsFree(l)].taken
            \/ spaceDevNameIsFree(l) = LIST_FULL /\ \A d \in Slot : l[d].taken
<1>. DEFINE N == {d \in Slot : l[d].taken /\ l[d].name = n}
            F == {d \in Slot : ~l[d].taken}
<1>1. N \in SUBSET Nat /\ F \in SUBSET Nat
  BY Ranges
<1>2. /\ devNameFullIsExist(l, n) = First(N, IS_NOT)
      /\ spaceDevNameIsFree(l) = First(F, LIST_FULL)
  BY DEF devNameFullIsExist, spaceDevNameIsFree
<1>3. /\ (N = {} /\ First(N, IS_NOT) = IS_NOT) \/ First(N, IS_NOT) \in N
      /\ (F = {} /\ First(F, LIST_FULL) = LIST_FULL) \/ First(F, LIST_FULL) \in F
  <2>. HIDE DEF N, F
  <2>. QED
    BY <1>1, FirstFinds
<1>. QED
  BY <1>2, <1>3

(* Storing a subscription for a URI the slot has no entry for.             *)
LEMMA Added ==
  ASSUME NEW s \in SlotType, NEW t \in Token, NEW u \in Uri,
         s.taken, s.name \in Name, s.ip \in Ip,
         \A e \in Entry : /\ ~s.uri[e].taken => s.uri[e] = EmptyEntry
                          /\ s.uri[e].taken => /\ s.uri[e].token \in Token
                                               /\ s.uri[e].uriIndex \in Uri
                          /\ s.uri[e].uriIndex # u,
         OneEntryPerUri(s)
  PROVE  /\ addNewUri(s, t, u) \in SlotType
         /\ SlotOK(addNewUri(s, t, u))
         /\ addNewUri(s, t, u).name = s.name
         /\ addNewUri(s, t, u).taken
<1>. DEFINE f == spaceUriIsFree(s)
            new == [token |-> t, uriIndex |-> u, taken |-> TRUE]
            r == addNewUri(s, t, u)
<1>1. CASE f = LIST_FULL /\ \A e \in Entry : s.uri[e].taken
  <2>1. r = s
    BY <1>1 DEF addNewUri
  <2>2. \E e \in Entry : s.uri[e].taken
    BY <1>1, Ranges
  <2>. QED
    BY <2>1, <2>2 DEF SlotOK, CleanWhenFree, InUseWhileSubscribed, CompleteWhenTaken
<1>2. CASE f \in Entry /\ ~s.uri[f].taken
  <2>1. r = [s EXCEPT !.uri[f] = new]
    BY <1>2, Ranges DEF addNewUri, LIST_FULL
  <2>2. new \in EntryType
    BY DEF EntryType
  <2>3. r \in SlotType
    BY <1>2, <2>1, <2>2 DEF SlotType
  <2>4. /\ r.name = s.name /\ r.ip = s.ip /\ r.taken
        /\ r.uri[f] = new
        /\ \A e \in Entry : e # f => r.uri[e] = s.uri[e]
    BY <1>2, <2>1 DEF SlotType
  <2>5. CleanWhenFree(r)
    BY <2>4 DEF CleanWhenFree
  <2>6. OneEntryPerUri(r)
    BY <2>4 DEF OneEntryPerUri
  <2>7. InUseWhileSubscribed(r)
    BY <1>2, <2>4 DEF InUseWhileSubscribed
  <2>8. CompleteWhenTaken(r)
    BY <2>4 DEF CompleteWhenTaken
  <2>. QED
    BY <2>3, <2>4, <2>5, <2>6, <2>7, <2>8 DEF SlotOK
<1>. QED
  BY <1>1, <1>2, EntrySearch

(* A free slot given to a new device is in order and holds that device.    *)
LEMMA Enrolled ==
  ASSUME NEW s \in SlotType, SlotOK(s), ~s.taken,
         NEW t \in Token, NEW u \in Uri, NEW ip \in Ip, NEW n \in Name
  PROVE  /\ enrolled(s, t, u, ip, n) \in SlotType
         /\ SlotOK(enrolled(s, t, u, ip, n))
         /\ enrolled(s, t, u, ip, n).name = n
<1>. DEFINE r == addNewDevice(s, n, ip)
<1>1. s.name = NoName /\ \A e \in Entry : s.uri[e] = EmptyEntry
  BY DEF SlotOK, CleanWhenFree, InUseWhileSubscribed
<1>2. r = [s EXCEPT !.name = n, !.ip = ip, !.taken = TRUE]
  BY <1>1 DEF addNewDevice, saveDeviceNameFull
<1>3. /\ r \in SlotType /\ r.name = n /\ r.ip = ip /\ r.taken
      /\ r.uri = s.uri
  BY <1>2 DEF SlotType
<1>4. \A e \in Entry : ~r.uri[e].taken /\ r.uri[e].uriIndex # u
  BY <1>1, <1>3, SubListAssumption DEF EmptyEntry
<1>5. OneEntryPerUri(r)
  BY <1>4 DEF OneEntryPerUri
<1>. QED
  BY <1>1, <1>3, <1>4, <1>5, Added DEF enrolled

(* Refreshing the slot of a known device keeps it in order and keeps its   *)
(* device.                                                                 *)
LEMMA Renewed ==
  ASSUME NEW s \in SlotType, SlotOK(s), s.taken,
         NEW t \in Token, NEW u \in Uri, NEW ip \in Ip
  PROVE  /\ renewed(s, t, u, ip) \in SlotType
         /\ SlotOK(renewed(s, t, u, ip))
         /\ renewed(s, t, u, ip).name = s.name
<1>. DEFINE m == [s EXCEPT !.ip = ip]
            f == uriIsExist(s, u)
            r == renewed(s, t, u, ip)
<1>1. /\ m \in SlotType /\ m.name = s.name /\ m.ip = ip /\ m.taken
      /\ m.uri = s.uri
  BY DEF SlotType
<1>2. OneEntryPerUri(m)
  BY <1>1 DEF OneEntryPerUri, SlotOK
<1>3. CASE f = IS_NOT /\ \A e \in Entry : s.uri[e].uriIndex # u
  <2>1. r = addNewUri(m, t, u)
    BY <1>3 DEF renewed
  <2>2. m.name \in Name
    BY <1>1 DEF SlotOK, CompleteWhenTaken
  <2>3. \A e \in Entry : /\ ~m.uri[e].taken => m.uri[e] = EmptyEntry
                         /\ m.uri[e].taken => /\ m.uri[e].token \in Token
                                              /\ m.uri[e].uriIndex \in Uri
                         /\ m.uri[e].uriIndex # u
    BY <1>1, <1>3 DEF SlotOK, CleanWhenFree, CompleteWhenTaken
  <2>. HIDE DEF m
  <2>4. /\ addNewUri(m, t, u) \in SlotType
        /\ SlotOK(addNewUri(m, t, u))
        /\ addNewUri(m, t, u).name = m.name
    BY <1>1, <1>2, <2>2, <2>3, Added
  <2>. QED
    BY <1>1, <2>1, <2>4
<1>4. CASE f \in Entry /\ s.uri[f].uriIndex = u
  <2>1. r = [m EXCEPT !.uri[f].token = t]
    BY <1>4, Ranges DEF renewed, IS_NOT
  <2>2. s.uri[f].taken
    BY <1>4, SubListAssumption DEF SlotOK, CleanWhenFree, EmptyEntry
  <2>3. s.uri[f] \in EntryType
    BY <1>4 DEF SlotType
  <2>. DEFINE new == [s.uri[f] EXCEPT !.token = t]
  <2>11. /\ new \in EntryType
         /\ new.token = t /\ new.taken /\ new.uriIndex = u
    BY <1>4, <2>2, <2>3 DEF EntryType
  <2>12. r = [m EXCEPT !.uri = [s.uri EXCEPT ![f] = new]]
    BY <1>1, <2>1
  <2>13. [s.uri EXCEPT ![f] = new] \in [Entry -> EntryType]
    BY <2>11 DEF SlotType
  <2>. HIDE DEF new
  <2>4. r \in SlotType
    BY <1>1, <2>12, <2>13 DEF SlotType
  <2>5. /\ r.name = s.name /\ r.ip = ip /\ r.taken
        /\ r.uri[f] = new
        /\ \A e \in Entry : e # f => r.uri[e] = s.uri[e]
    BY <1>1, <1>4, <2>12 DEF SlotType
  <2>6. r.uri[f].token = t /\ r.uri[f].taken /\ r.uri[f].uriIndex = u
    BY <2>5, <2>11
  <2>7. CleanWhenFree(r)
    BY <2>5, <2>6 DEF CleanWhenFree, SlotOK
  <2>8. OneEntryPerUri(r)
    BY <1>4, <2>2, <2>5, <2>6 DEF OneEntryPerUri, SlotOK
  <2>9. InUseWhileSubscribed(r)
    BY <1>4, <2>5, <2>6 DEF InUseWhileSubscribed
  <2>10. CompleteWhenTaken(r)
    BY <1>4, <2>5, <2>6 DEF CompleteWhenTaken, SlotOK
  <2>. QED
    BY <2>4, <2>5, <2>7, <2>8, <2>9, <2>10 DEF SlotOK
<1>. QED
  BY <1>3, <1>4, EntrySearch
(* Ending a subscription keeps the slot in order; it keeps its device      *)
(* unless the slot is released.                                            *)
LEMMA Withdrawn ==
  ASSUME NEW s \in SlotType, SlotOK(s), s.taken, NEW t \in Token
  PROVE  /\ withdrawn(s, t) \in SlotType
         /\ SlotOK(withdrawn(s, t))
         /\ withdrawn(s, t).taken => withdrawn(s, t).name = s.name
<1>. DEFINE f == tokenIsExist(s, t)
            m == [s EXCEPT !.uri[f] = EmptyEntry]
            r == withdrawn(s, t)
<1>1. CASE f = IS_NOT
  BY <1>1 DEF withdrawn
<1>2. CASE f \in Entry /\ s.uri[f].taken
  <2>1. r = releaseIfUnused(m)
    BY <1>2, Ranges DEF withdrawn, IS_NOT
  <2>2. EmptyEntry \in EntryType
    BY DEF EmptyEntry, EntryType
  <2>3. m = [s EXCEPT !.uri = [s.uri EXCEPT ![f] = EmptyEntry]]
    OBVIOUS
  <2>4. /\ m \in SlotType
        /\ m.name = s.name /\ m.ip = s.ip /\ m.taken
        /\ m.uri[f] = EmptyEntry
        /\ \A e \in Entry : e # f => m.uri[e] = s.uri[e]
    BY <1>2, <2>2, <2>3 DEF SlotType
  <2>5. /\ CleanWhenFree(s) /\ CompleteWhenTaken(s) /\ OneEntryPerUri(s)
        /\ ~EmptyEntry.taken
    BY DEF SlotOK, EmptyEntry
  <2>6. OneEntryPerUri(m)
    BY <2>4, <2>5 DEF OneEntryPerUri
  <2>. HIDE DEF m
  <2>9. CleanWhenFree(m) /\ CompleteWhenTaken(m)
    BY <2>4, <2>5 DEF CleanWhenFree, CompleteWhenTaken
  <2>7. CASE \E e \in Entry : m.uri[e].taken
    <3>1. r = m
      BY <2>1, <2>7 DEF releaseIfUnused
    <3>2. SlotOK(m)
      BY <2>4, <2>6, <2>7, <2>9 DEF SlotOK, InUseWhileSubscribed
    <3>. HIDE DEF r
    <3>. QED
      BY <2>4, <3>1, <3>2 DEF r
  <2>8. CASE ~\E e \in Entry : m.uri[e].taken
    <3>1. r = [m EXCEPT !.name = NoName, !.ip = NoIp, !.taken = FALSE]
      BY <2>1, <2>8 DEF releaseIfUnused
    <3>2. /\ r \in SlotType /\ r.name = NoName /\ r.ip = NoIp /\ ~r.taken
          /\ r.uri = m.uri
      BY <2>4, <3>1 DEF SlotType
    <3>. HIDE DEF r
    <3>3. CleanWhenFree(r) /\ InUseWhileSubscribed(r)
      BY <2>8, <2>9, <3>2 DEF CleanWhenFree, InUseWhileSubscribed
    <3>4. OneEntryPerUri(r) /\ CompleteWhenTaken(r)
      BY <2>8, <3>2 DEF OneEntryPerUri, CompleteWhenTaken
    <3>5. SlotOK(r)
      BY <3>3, <3>4 DEF SlotOK
    <3>. QED
      BY <3>2, <3>5 DEF r
  <2>. QED
    BY <2>7, <2>8
<1>. QED
  BY <1>1, <1>2, EntrySearch

-----------------------------------------------------------------------------
ListOK(l) ==
  /\ l \in ListType
  /\ \A d \in Slot : SlotOK(l[d])
  /\ OneSlotPerName(l)

(* Putting a slot in order at a place where its name cannot collide.       *)
LEMMA Placed ==
  ASSUME NEW l, ListOK(l), NEW d \in Slot, NEW s \in SlotType, SlotOK(s),
         \A c \in Slot : c # d /\ l[c].taken /\ s.taken => l[c].name # s.name
  PROVE  ListOK([l EXCEPT ![d] = s])
<1>. DEFINE r == [l EXCEPT ![d] = s]
<1>1. r \in ListType
  BY DEF ListOK, ListType
<1>2. r[d] = s /\ \A c \in Slot : c # d => r[c] = l[c]
  BY DEF ListOK, ListType
<1>3. OneSlotPerName(r)
  BY <1>2 DEF OneSlotPerName, ListOK
<1>. QED
  BY <1>1, <1>2, <1>3 DEF ListOK

LEMMA SubscribeKeeps ==
  ASSUME NEW l, ListOK(l), NEW t \in Token \cup {NoToken}, NEW u \in Uri,
         NEW ip \in Ip, NEW n \in Name \cup {LongName}
  PROVE  ListOK(subscribeList(l, t, u, ip, n))
<1>. DEFINE d == devNameFullIsExist(l, n)
            f == spaceDevNameIsFree(l)
            r == subscribeList(l, t, u, ip, n)
<1>1. l \in ListType /\ \A c \in Slot : l[c] \in SlotType /\ SlotOK(l[c])
  BY DEF ListOK, ListType
<1>2. CASE ~subscribeIsValidData(t, u, n)
  BY <1>2 DEF subscribeList
<1>3. CASE subscribeIsValidData(t, u, n)
  <2>1. t \in Token /\ n \in Name
    BY <1>3 DEF subscribeIsValidData
  <2>2. CASE d \in Slot /\ l[d].taken /\ l[d].name = n
    <3>. DEFINE s == renewed(l[d], t, u, ip)
    <3>1. r = [l EXCEPT ![d] = s]
      BY <1>3, <2>2, Ranges DEF subscribeList, IS_NOT
    <3>2. s \in SlotType /\ SlotOK(s) /\ s.name = l[d].name
      BY <1>1, <2>1, <2>2, Renewed
    <3>3. \A c \in Slot : c # d /\ l[c].taken /\ s.taken => l[c].name # s.name
      BY <2>2, <3>2 DEF ListOK, OneSlotPerName
    <3>. HIDE DEF s, d, r
    <3>4. ListOK([l EXCEPT ![d] = s])
      BY <2>2, <3>2, <3>3, Placed
    <3>. QED
      BY <3>1, <3>4 DEF r
  <2>3. CASE d = IS_NOT /\ \A c \in Slot : l[c].taken => l[c].name # n
    <3>. DEFINE s == enrolled(l[f], t, u, ip, n)
    <3>1. CASE f = LIST_FULL
      BY <1>3, <2>3, <3>1 DEF subscribeList
    <3>2. CASE f \in Slot /\ ~l[f].taken
      <4>1. r = [l EXCEPT ![f] = s]
        BY <1>3, <2>3, <3>2, Ranges DEF subscribeList, LIST_FULL
      <4>2. s \in SlotType /\ SlotOK(s) /\ s.name = n
        BY <1>1, <2>1, <3>2, Enrolled
      <4>3. \A c \in Slot : c # f /\ l[c].taken /\ s.taken => l[c].name # s.name
        BY <2>3, <4>2
      <4>. HIDE DEF s, f, r
      <4>4. ListOK([l EXCEPT ![f] = s])
        BY <3>2, <4>2, <4>3, Placed
      <4>. QED
        BY <4>1, <4>4 DEF r
    <3>. QED
      BY <1>1, <3>1, <3>2, SlotSearch
  <2>. QED
    BY <1>1, <2>2, <2>3, SlotSearch
<1>. QED
  BY <1>2, <1>3

LEMMA UnsubscribeKeeps ==
  ASSUME NEW l, ListOK(l), NEW n \in Name \cup {LongName}, NEW t \in Token
  PROVE  ListOK(unsubscribeList(l, n, t))
<1>. DEFINE d == devNameFullIsExist(l, n)
            s == withdrawn(l[d], t)
<1>1. l \in ListType /\ \A c \in Slot : l[c] \in SlotType /\ SlotOK(l[c])
  BY DEF ListOK, ListType
<1>2. CASE d = IS_NOT
  BY <1>2 DEF unsubscribeList
<1>3. CASE d \in Slot /\ l[d].taken
  <2>1. unsubscribeList(l, n, t) = [l EXCEPT ![d] = s]
    BY <1>3, Ranges DEF unsubscribeList, IS_NOT
  <2>2. s \in SlotType /\ SlotOK(s) /\ (s.taken => s.name = l[d].name)
    BY <1>1, <1>3, Withdrawn
  <2>3. \A c \in Slot : c # d /\ l[c].taken /\ s.taken => l[c].name # s.name
    BY <1>3, <2>2 DEF ListOK, OneSlotPerName
  <2>. HIDE DEF s, d
  <2>4. ListOK([l EXCEPT ![d] = s])
    BY <1>3, <2>2, <2>3, Placed
  <2>. QED
    BY <2>1, <2>4
<1>. QED
  BY <1>1, <1>2, <1>3, SlotSearch
-----------------------------------------------------------------------------
LEMMA InitOK == Init => ListOK(subList) /\ sent = {} /\ result = OK
<1>. SUFFICES ASSUME Init PROVE ListOK(subList)
  BY DEF Init
<1>1. EmptyEntry \in EntryType
  BY DEF EmptyEntry, EntryType
<1>2. EmptySlot \in SlotType
  BY <1>1 DEF EmptySlot, SlotType
<1>3. SlotOK(EmptySlot)
  BY DEF EmptySlot, EmptyEntry, SlotOK, CleanWhenFree, OneEntryPerUri,
         InUseWhileSubscribed, CompleteWhenTaken
<1>4. subList = [d \in Slot |-> EmptySlot]
  BY DEF Init, EmptyList
<1>5. OneSlotPerName(subList)
  BY <1>4 DEF OneSlotPerName, EmptySlot
<1>6. subList \in ListType /\ \A d \in Slot : SlotOK(subList[d])
  BY <1>2, <1>3, <1>4 DEF ListType
<1>. QED
  BY <1>5, <1>6 DEF ListOK

(* Every call keeps the table in order, whoever makes it and whatever it   *)
(* asks for.                                                               *)
LEMMA StepKeeps == ListOK(subList) /\ [Next]_vars => ListOK(subList)'
<1>. SUFFICES ASSUME ListOK(subList), [Next]_vars
              PROVE  ListOK(subList')
  BY DEF ListOK, OneSlotPerName
<1>1. ASSUME NEW n \in Name \cup {LongName}, NEW ip \in Ip, NEW u \in Uri,
             NEW t \in Token \cup {NoToken}, SubscribeRequest(n, ip, u, t)
      PROVE  ListOK(subList')
  BY <1>1, SubscribeKeeps DEF SubscribeRequest
<1>2. CASE DeregisterRequest
  BY <1>2 DEF DeregisterRequest
<1>3. ASSUME NEW ip \in Ip, NEW u \in Uri, PutRequest(ip, u)
      PROVE  ListOK(subList')
  BY <1>3 DEF PutRequest
<1>4. CASE BadPayload
  BY <1>4 DEF BadPayload
<1>5. ASSUME NEW n \in Name \cup {LongName}, NEW t \in Token, Unsubscribe(n, t)
      PROVE  ListOK(subList')
  BY <1>5, UnsubscribeKeeps DEF Unsubscribe
<1>6. CASE DeleteAll
  <2>1. ListOK(EmptyList)
    <3>1. EmptySlot \in SlotType /\ SlotOK(EmptySlot)
      BY DEF EmptySlot, EmptyEntry, EntryType, SlotType, SlotOK, CleanWhenFree,
             OneEntryPerUri, InUseWhileSubscribed, CompleteWhenTaken
    <3>. QED
      BY <3>1 DEF ListOK, ListType, EmptyList, OneSlotPerName, EmptySlot
  <2>. QED
    BY <1>6, <2>1 DEF DeleteAll
<1>7. CASE UNCHANGED vars
  BY <1>7 DEF vars
<1>. QED
  BY <1>1, <1>2, <1>3, <1>4, <1>5, <1>6, <1>7 DEF Next
LEMMA MessagesTyped ==
  ASSUME NEW l \in ListType, NEW ip, NEW u
  PROVE  notify(l, ip, u) \subseteq MessageType
<1>. SUFFICES ASSUME NEW p \in Slot \X Entry
              PROVE  [name |-> l[p[1]].name, ip |-> l[p[1]].ip,
                      token |-> l[p[1]].uri[p[2]].token, from |-> p]
                       \in MessageType
  BY DEF notify
<1>1. l[p[1]] \in SlotType
  BY DEF ListType
<1>2. l[p[1]].uri[p[2]] \in EntryType
  BY <1>1 DEF SlotType
<1>. QED
  BY <1>1, <1>2 DEF SlotType, EntryType, MessageType

LEMMA ResultsTyped ==
  ASSUME NEW l, NEW t, NEW u, NEW ip, NEW n
  PROVE  /\ subscribeResult(l, t, u, ip, n) \in -12 .. 7
         /\ unsubscribeResult(l, n, t) \in -12 .. 7
<1>1. ASSUME NEW s PROVE updateState(s, t, u, ip) \in 0 .. 7
  BY DEF updateState, UPDATE_IP_ADDR, UPDATE_URI_TOKEN, ADD_NEW_URI
<1>. QED
  BY <1>1 DEF subscribeResult, unsubscribeResult, OK, ERROR, TOKEN_NOT_EXIST,
              LIST_FULL, ADDED_NEW_DEVICE, NO_NEED_UPDATE

LEMMA StepTyped == ListOK(subList) /\ TypeOK /\ [Next]_vars => TypeOK'
<1>. SUFFICES ASSUME ListOK(subList), TypeOK, [Next]_vars PROVE TypeOK'
  OBVIOUS
<1>1. subList' \in ListType
  BY StepKeeps DEF ListOK
<1>2. ASSUME NEW n \in Name \cup {LongName}, NEW ip \in Ip, NEW u \in Uri,
             NEW t \in Token \cup {NoToken}, SubscribeRequest(n, ip, u, t)
      PROVE  TypeOK'
  <2>1. result' \in -12 .. 7
    BY <1>2, ResultsTyped DEF SubscribeRequest
  <2>. QED
    BY <1>1, <1>2, <2>1 DEF SubscribeRequest, TypeOK
<1>3. CASE DeregisterRequest \/ BadPayload \/ DeleteAll
  BY <1>1, <1>3 DEF DeregisterRequest, BadPayload, DeleteAll, TypeOK, OK, ERROR
<1>4. ASSUME NEW ip \in Ip, NEW u \in Uri, PutRequest(ip, u) PROVE TypeOK'
  <2>1. sent' \subseteq MessageType
    BY <1>4, MessagesTyped DEF PutRequest, TypeOK
  <2>. QED
    BY <1>1, <1>4, <2>1 DEF PutRequest, TypeOK, OK
<1>5. ASSUME NEW n \in Name \cup {LongName}, NEW t \in Token, Unsubscribe(n, t)
      PROVE  TypeOK'
  <2>1. result' \in -12 .. 7
    BY <1>5, ResultsTyped DEF Unsubscribe
  <2>. QED
    BY <1>1, <1>5, <2>1 DEF Unsubscribe, TypeOK
<1>6. CASE UNCHANGED vars
  BY <1>6 DEF vars, TypeOK
<1>. QED
  BY <1>2, <1>3, <1>4, <1>5, <1>6 DEF Next

(* Type correctness of the observed device: every field of the table, the  *)
(* messages and the result stay in range for every size of the table.      *)
THEOREM TypeCorrect == Spec => []TypeOK
<1>1. Init => ListOK(subList) /\ TypeOK
  BY InitOK DEF Init, TypeOK, ListOK, OK
<1>2. ListOK(subList) /\ TypeOK /\ [Next]_vars => ListOK(subList)' /\ TypeOK'
  BY StepKeeps, StepTyped
<1>. QED
  BY <1>1, <1>2, PTL DEF Spec

LEMMA ListAlwaysOK == Spec => []ListOK(subList)
<1>1. Init => ListOK(subList)
  BY InitOK
<1>. QED
  BY <1>1, StepKeeps, PTL DEF Spec

(* The table is in order after every sequence of calls: one slot for a     *)
(* name, one live entry for a URI, released storage zeroed, a slot in use  *)
(* exactly while it holds a subscription, and nothing incomplete in use.   *)
THEOREM TableInOrder ==
  Spec => [](/\ NamesUnique /\ UrisUnique
             /\ FreeIsClean /\ TakenIffSubscribed /\ TakenIsComplete)
<1>1. ListOK(subList) => (/\ NamesUnique /\ UrisUnique
                          /\ FreeIsClean /\ TakenIffSubscribed /\ TakenIsComplete)
  BY DEF ListOK, SlotOK, NamesUnique, UrisUnique, FreeIsClean,
         TakenIffSubscribed, TakenIsComplete
<1>. QED
  BY <1>1, ListAlwaysOK, PTL
-----------------------------------------------------------------------------
(* A slot in order has room for every served URI it does not hold yet:     *)
(* its taken entries are for different URIs, and there are no more served  *)
(* URIs than entries.                                                      *)
LEMMA RoomForServed ==
  ASSUME NEW s \in SlotType, SlotOK(s), NEW u \in Uri,
         \A e \in Entry : s.uri[e].uriIndex # u
  PROVE  spaceUriIsFree(s) \in Entry /\ ~s.uri[spaceUriIsFree(s)].taken
<1>1. SUFFICES ASSUME \A e \in Entry : s.uri[e].taken PROVE FALSE
  BY EntrySearch
<1>. DEFINE f == [e \in Entry |-> s.uri[e].uriIndex]
            Others == Uri \ {u}
<1>2. f \in [Entry -> Others]
  BY <1>1 DEF SlotOK, CompleteWhenTaken
<1>3. IsFiniteSet(Entry) /\ Cardinality(Entry) = UriMax
  BY FS_Interval, SubListAssumption DEF Entry
<1>4. IsFiniteSet(Others) /\ Cardinality(Others) = Cardinality(Uri) - 1
  BY FS_RemoveElement, ServedUrisFit
<1>5. Cardinality(Others) < Cardinality(Entry)
  BY <1>3, <1>4, ServedUrisFit, FS_CardinalityType, SubListAssumption
<1>6. \E x, y \in Entry : x # y /\ f[x] = f[y]
  <2>. HIDE DEF f, Others
  <2>. QED
    BY <1>2, <1>3, <1>4, <1>5, FS_PigeonHole
<1>. QED
  BY <1>1, <1>6 DEF SlotOK, OneEntryPerUri

LEMMA AddedIsThere ==
  ASSUME NEW s \in SlotType, NEW t, NEW u,
         spaceUriIsFree(s) \in Entry
  PROVE  /\ addNewUri(s, t, u).uri[spaceUriIsFree(s)]
              = [token |-> t, uriIndex |-> u, taken |-> TRUE]
         /\ addNewUri(s, t, u).name = s.name
         /\ addNewUri(s, t, u).ip = s.ip
         /\ addNewUri(s, t, u).taken = s.taken
<1>. DEFINE f == spaceUriIsFree(s)
            new == [token |-> t, uriIndex |-> u, taken |-> TRUE]
<1>1. addNewUri(s, t, u) = [s EXCEPT !.uri = [s.uri EXCEPT ![f] = new]]
  BY Ranges DEF addNewUri, LIST_FULL
<1>. QED
  BY <1>1 DEF SlotType

LEMMA RenewedIsThere ==
  ASSUME NEW s \in SlotType, SlotOK(s), s.taken,
         NEW t \in Token, NEW u \in Uri, NEW ip \in Ip
  PROVE  /\ renewed(s, t, u, ip).name = s.name
         /\ renewed(s, t, u, ip).ip = ip
         /\ renewed(s, t, u, ip).taken
         /\ \E e \in Entry : renewed(s, t, u, ip).uri[e]
                               = [token |-> t, uriIndex |-> u, taken |-> TRUE]
<1>. DEFINE m == [s EXCEPT !.ip = ip]
            f == uriIsExist(s, u)
            r == renewed(s, t, u, ip)
<1>1. /\ m \in SlotType /\ m.name = s.name /\ m.ip = ip /\ m.taken
      /\ m.uri = s.uri
  BY DEF SlotType
<1>2. CASE f = IS_NOT /\ \A e \in Entry : s.uri[e].uriIndex # u
  <2>1. r = addNewUri(m, t, u)
    BY <1>2 DEF renewed
  <2>2. spaceUriIsFree(m) \in Entry
    <3>1. spaceUriIsFree(s) \in Entry
      BY <1>2, RoomForServed
    <3>2. spaceUriIsFree(m) = spaceUriIsFree(s)
      BY <1>1 DEF spaceUriIsFree
    <3>. QED
      BY <3>1, <3>2
  <2>. HIDE DEF m
  <2>. QED
    BY <1>1, <2>1, <2>2, AddedIsThere
<1>3. CASE f \in Entry /\ s.uri[f].uriIndex = u
  <2>. DEFINE new == [s.uri[f] EXCEPT !.token = t]
  <2>1. s.uri[f].taken
    BY <1>3, SubListAssumption DEF SlotOK, CleanWhenFree, EmptyEntry
  <2>2. s.uri[f] \in EntryType
    BY <1>3 DEF SlotType
  <2>3. new = [token |-> t, uriIndex |-> u, taken |-> TRUE]
    <3>. DEFINE x == s.uri[f]
    <3>1. x \in EntryType /\ x.uriIndex = u /\ x.taken = TRUE
      BY <1>3, <2>1, <2>2 DEF EntryType
    <3>2. new = [x EXCEPT !.token = t]
      OBVIOUS
    <3>. HIDE DEF x, new
    <3>. QED
      BY <3>1, <3>2 DEF EntryType
  <2>4. r = [m EXCEPT !.uri = [s.uri EXCEPT ![f] = new]]
    BY <1>1, <1>3, Ranges DEF renewed, IS_NOT
  <2>. HIDE DEF new, m
  <2>5. r.name = s.name /\ r.ip = ip /\ r.taken /\ r.uri[f] = new
    BY <1>1, <1>3, <2>4 DEF SlotType
  <2>. QED
    BY <1>3, <2>3, <2>5
<1>. QED
  BY <1>2, <1>3, EntrySearch

LEMMA EnrolledIsThere ==
  ASSUME NEW s \in SlotType, SlotOK(s), ~s.taken,
         NEW t \in Token, NEW u \in Uri, NEW ip \in Ip, NEW n \in Name
  PROVE  /\ enrolled(s, t, u, ip, n).name = n
         /\ enrolled(s, t, u, ip, n).ip = ip
         /\ enrolled(s, t, u, ip, n).taken
         /\ \E e \in Entry : enrolled(s, t, u, ip, n).uri[e]
                               = [token |-> t, uriIndex |-> u, taken |-> TRUE]
<1>. DEFINE m == addNewDevice(s, n, ip)
<1>1. s.name = NoName /\ \A e \in Entry : ~s.uri[e].taken
  BY DEF SlotOK, CleanWhenFree, InUseWhileSubscribed
<1>2. m = [s EXCEPT !.name = n, !.ip = ip, !.taken = TRUE]
  BY <1>1 DEF addNewDevice, saveDeviceNameFull
<1>3. /\ m \in SlotType /\ m.name = n /\ m.ip = ip /\ m.taken
      /\ m.uri = s.uri
  BY <1>2 DEF SlotType
<1>4. enrolled(s, t, u, ip, n) = addNewUri(m, t, u)
  BY DEF enrolled
<1>. HIDE DEF m
<1>5. spaceUriIsFree(m) \in Entry
  BY <1>1, <1>3, EntrySearch, Ranges
<1>. QED
  BY <1>3, <1>4, <1>5, AddedIsThere
LEMMA AcceptedStep ==
  ASSUME ListOK(subList),
         NEW n \in Name, NEW ip \in Ip, NEW u \in Uri, NEW t \in Token,
         SubscribeRequest(n, ip, u, t), result' \notin {LIST_FULL, ERROR}
  PROVE  Stored(subList', n, ip, u, t)
<1>. DEFINE d == devNameFullIsExist(subList, n)
            f == spaceDevNameIsFree(subList)
<1>1. subList \in ListType /\ \A c \in Slot : subList[c] \in SlotType /\ SlotOK(subList[c])
  BY DEF ListOK, ListType
<1>2. /\ subList' = subscribeList(subList, t, u, ip, n)
      /\ result' = subscribeResult(subList, t, u, ip, n)
      /\ subscribeIsValidData(t, u, n)
  BY SubListAssumption DEF SubscribeRequest, subscribeIsValidData
<1>3. ASSUME NEW c \in Slot, NEW s,
             subList' = [subList EXCEPT ![c] = s],
             s.name = n, s.ip = ip, s.taken,
             \E e \in Entry : s.uri[e] = [token |-> t, uriIndex |-> u, taken |-> TRUE]
      PROVE  Stored(subList', n, ip, u, t)
  <2>1. subList'[c] = s
    BY <1>1, <1>3 DEF ListType
  <2>. QED
    BY <1>3, <2>1 DEF Stored
<1>4. CASE d \in Slot /\ subList[d].taken /\ subList[d].name = n
  <2>. DEFINE s == renewed(subList[d], t, u, ip)
  <2>1. subList' = [subList EXCEPT ![d] = s]
    BY <1>2, <1>4, Ranges DEF subscribeList, IS_NOT
  <2>2. /\ s.name = n /\ s.ip = ip /\ s.taken
        /\ \E e \in Entry :
             s.uri[e] = [token |-> t, uriIndex |-> u, taken |-> TRUE]
    BY <1>1, <1>4, RenewedIsThere
  <2>. HIDE DEF d, s
  <2>. QED
    BY <1>3, <1>4, <2>1, <2>2
<1>5. CASE d = IS_NOT /\ f \in Slot /\ ~subList[f].taken
  <2>. DEFINE s == enrolled(subList[f], t, u, ip, n)
  <2>1. subList' = [subList EXCEPT ![f] = s]
    BY <1>2, <1>5, Ranges DEF subscribeList, LIST_FULL
  <2>2. /\ s.name = n /\ s.ip = ip /\ s.taken
        /\ \E e \in Entry :
             s.uri[e] = [token |-> t, uriIndex |-> u, taken |-> TRUE]
    BY <1>1, <1>5, EnrolledIsThere
  <2>. HIDE DEF f, s
  <2>. QED
    BY <1>3, <1>5, <2>1, <2>2
<1>6. CASE d = IS_NOT /\ f = LIST_FULL
  BY <1>2, <1>6 DEF subscribeResult
<1>. QED
  BY <1>1, <1>4, <1>5, <1>6, SlotSearch

(* Whatever the table held, a subscription that is not refused for lack of *)
(* a slot is stored with the token and address of its request, because no  *)
(* slot is ever full while a served URI is missing from it.                *)
THEOREM AcceptedSubscriptions == Spec => AcceptedIsStored
<1>1. ListOK(subList) =>
        [\A n \in Name, ip \in Ip, u \in Uri, t \in Token :
           SubscribeRequest(n, ip, u, t) /\ result' \notin {LIST_FULL, ERROR}
             => Stored(subList', n, ip, u, t)]_vars
  BY AcceptedStep
<1>. QED
  BY <1>1, ListAlwaysOK, PTL DEF AcceptedIsStored
-----------------------------------------------------------------------------
(* The refinement.  What a slot and a table mean to a client.              *)
Served(s) == {u \in Uri : \E e \in Entry : s.uri[e].taken /\ s.uri[e].uriIndex = u}
EntryFor(s, u) == CHOOSE e \in Entry : s.uri[e].taken /\ s.uri[e].uriIndex = u
View(s) ==
  [ip |-> s.ip, subs |-> [u \in Served(s) |-> s.uri[EntryFor(s, u)].token]]
Names(l) == {n \in Name : \E d \in Slot : l[d].taken /\ l[d].name = n}
SlotFor(l, n) == CHOOSE d \in Slot : l[d].taken /\ l[d].name = n
Meaning(l) == [n \in Names(l) |-> View(l[SlotFor(l, n)])]

(* What was written for a URI is what is read for it. *)
LEMMA EntryIs ==
  ASSUME NEW s, OneEntryPerUri(s), NEW e \in Entry, s.uri[e].taken
  PROVE  EntryFor(s, s.uri[e].uriIndex) = e
<1>. DEFINE u == s.uri[e].uriIndex
            Entries == {k \in Entry : s.uri[k].taken /\ s.uri[k].uriIndex = u}
<1>1. \A k \in Entry : s.uri[k].taken /\ s.uri[k].uriIndex = u => k = e
  BY DEF OneEntryPerUri
<1>2. EntryFor(s, u) = CHOOSE k \in Entry : s.uri[k].taken /\ s.uri[k].uriIndex = u
  BY DEF EntryFor
<1>. QED
  BY <1>1, <1>2

LEMMA ServedBy ==
  ASSUME NEW s, OneEntryPerUri(s), NEW u \in Served(s)
  PROVE  /\ u \in Uri
         /\ EntryFor(s, u) \in Entry
         /\ s.uri[EntryFor(s, u)].taken /\ s.uri[EntryFor(s, u)].uriIndex = u
         /\ View(s).subs[u] = s.uri[EntryFor(s, u)].token
  BY EntryIs DEF Served, View

(* The same of the slots of a table. *)
LEMMA SlotIs ==
  ASSUME NEW l, ListOK(l), NEW d \in Slot, l[d].taken
  PROVE  /\ l[d].name \in Names(l)
         /\ SlotFor(l, l[d].name) = d
         /\ Meaning(l)[l[d].name] = View(l[d])
<1>. DEFINE n == l[d].name
<1>1. \A c \in Slot : l[c].taken /\ l[c].name = n => c = d
  BY DEF ListOK, OneSlotPerName
<1>2. n \in Names(l)
  BY DEF ListOK, SlotOK, CompleteWhenTaken, Names
<1>3. SlotFor(l, n) = d
  BY <1>1 DEF SlotFor
<1>. QED
  BY <1>2, <1>3 DEF Meaning

LEMMA NameIs ==
  ASSUME NEW l, NEW n \in Names(l)
  PROVE  SlotFor(l, n) \in Slot /\ l[SlotFor(l, n)].taken /\ l[SlotFor(l, n)].name = n
  BY DEF Names, SlotFor

(* A slot that is filled is one name's new meaning, and the rest stays.    *)
LEMMA PutMeans ==
  ASSUME NEW l, ListOK(l), NEW d \in Slot, NEW s, s.taken,
         NEW r, ListOK(r), r[d] = s, \A c \in Slot : c # d => r[c] = l[c],
         l[d].taken => l[d].name = s.name
  PROVE  Meaning(r)
           = [m \in Names(l) \cup {s.name} |->
                IF m # s.name THEN Meaning(l)[m] ELSE View(s)]
<1>1. r[d] = s /\ \A c \in Slot : c # d => r[c] = l[c]
  OBVIOUS
<1>2. s.name \in Names(r) /\ Meaning(r)[s.name] = View(s)
  BY <1>1, SlotIs
<1>3. ASSUME NEW m \in Names(l), m # s.name
      PROVE  m \in Names(r) /\ Meaning(r)[m] = Meaning(l)[m]
  <2>. DEFINE c == SlotFor(l, m)
  <2>1. c \in Slot /\ l[c].taken /\ l[c].name = m
    BY <1>3, NameIs
  <2>2. c # d
    BY <1>3, <2>1
  <2>3. r[c] = l[c]
    BY <1>1, <2>1, <2>2
  <2>. HIDE DEF c
  <2>4. Meaning(l)[m] = View(l[c]) /\ m \in Names(r) /\ Meaning(r)[m] = View(r[c])
    BY <2>1, <2>3, SlotIs
  <2>. QED
    BY <2>3, <2>4
<1>4. ASSUME NEW m \in Names(r), m # s.name PROVE m \in Names(l)
  <2>. DEFINE c == SlotFor(r, m)
  <2>1. c \in Slot /\ r[c].taken /\ r[c].name = m
    BY <1>4, NameIs
  <2>2. l[c].taken /\ l[c].name = m /\ m \in Name
    BY <1>1, <1>4, <2>1 DEF Names
  <2>. QED
    BY <2>1, <2>2 DEF Names
<1>5. Names(r) = Names(l) \cup {s.name}
  BY <1>2, <1>3, <1>4
<1>6. Meaning(r) = [m \in Names(r) |-> Meaning(r)[m]]
  BY DEF Meaning
<1>. QED
  BY <1>2, <1>3, <1>5, <1>6

(* A slot that is released takes its name along, and nothing else.         *)
LEMMA DropMeans ==
  ASSUME NEW l, ListOK(l), NEW d \in Slot, NEW s, l[d].taken, ~s.taken,
         NEW r, ListOK(r), r[d] = s, \A c \in Slot : c # d => r[c] = l[c]
  PROVE  Meaning(r)
           = [m \in Names(l) \ {l[d].name} |-> Meaning(l)[m]]
<1>1. r[d] = s /\ \A c \in Slot : c # d => r[c] = l[c]
  OBVIOUS
<1>2. ASSUME NEW m \in Names(l), m # l[d].name
      PROVE  m \in Names(r) /\ Meaning(r)[m] = Meaning(l)[m]
  <2>. DEFINE c == SlotFor(l, m)
  <2>1. c \in Slot /\ l[c].taken /\ l[c].name = m
    BY <1>2, NameIs
  <2>2. c # d
    BY <1>2, <2>1
  <2>3. r[c] = l[c]
    BY <1>1, <2>1, <2>2
  <2>. HIDE DEF c
  <2>4. Meaning(l)[m] = View(l[c]) /\ m \in Names(r) /\ Meaning(r)[m] = View(r[c])
    BY <2>1, <2>3, SlotIs
  <2>. QED
    BY <2>3, <2>4
<1>3. ASSUME NEW m \in Names(r) PROVE m \in Names(l) /\ m # l[d].name
  <2>. DEFINE c == SlotFor(r, m)
  <2>1. c \in Slot /\ r[c].taken /\ r[c].name = m
    BY <1>3, NameIs
  <2>2. l[c].taken /\ l[c].name = m /\ m \in Name /\ c # d
    BY <1>1, <1>3, <2>1 DEF Names
  <2>. HIDE DEF c
  <2>3. m # l[d].name
    BY <2>1, <2>2 DEF ListOK, OneSlotPerName
  <2>. QED
    BY <2>1, <2>2, <2>3 DEF Names
<1>4. Names(r) = Names(l) \ {l[d].name}
  BY <1>2, <1>3
<1>5. Meaning(r) = [m \in Names(r) |-> Meaning(r)[m]]
  BY DEF Meaning
<1>. QED
  BY <1>2, <1>4, <1>5

(* The meaning r of a table after n has asked for u with token t, and of   *)
(* one after n's subscription for u has ended.                             *)
Joined(v, ip, u, t) ==
  [ip |-> ip,
   subs |-> [w \in {u} \cup DOMAIN v |-> IF w = u THEN t ELSE v[w]]]
Parted(v, u) == [v EXCEPT !.subs = [w \in DOMAIN v.subs \ {u} |-> v.subs[w]]]

(* A view is known by its address and its tokens. *)
LEMMA ViewIs ==
  ASSUME NEW s, NEW subs, Served(s) = DOMAIN subs,
         subs = [w \in DOMAIN subs |-> subs[w]],
         \A w \in Served(s) : s.uri[EntryFor(s, w)].token = subs[w]
  PROVE  View(s) = [ip |-> s.ip, subs |-> subs]
  BY DEF View

(* The slot s with an entry for u, and what it means. *)
LEMMA WrittenMeans ==
  ASSUME NEW s, NEW r, OneEntryPerUri(s), OneEntryPerUri(r), NEW e \in Entry,
         NEW t, NEW u \in Uri,
         r.uri[e].taken, r.uri[e].uriIndex = u, r.uri[e].token = t,
         \A k \in Entry : k # e => r.uri[k] = s.uri[k],
         s.uri[e].taken => s.uri[e].uriIndex = u
  PROVE  View(r) = Joined(View(s).subs, r.ip, u, t)
<1>. DEFINE subs == [w \in {u} \cup Served(s) |-> IF w = u THEN t ELSE View(s).subs[w]]
<1>1. u \in Served(r) /\ EntryFor(r, u) = e
  BY EntryIs DEF Served
<1>2. ASSUME NEW w \in Served(s), w # u
      PROVE  w \in Served(r) /\ r.uri[EntryFor(r, w)].token = View(s).subs[w]
  <2>. DEFINE k == EntryFor(s, w)
  <2>1. /\ w \in Uri /\ k \in Entry /\ s.uri[k].taken /\ s.uri[k].uriIndex = w
        /\ View(s).subs[w] = s.uri[k].token
    BY <1>2, ServedBy
  <2>. HIDE DEF k
  <2>2. k # e /\ r.uri[k] = s.uri[k]
    BY <1>2, <2>1
  <2>3. w \in Served(r) /\ EntryFor(r, w) = k
    BY <2>1, <2>2, EntryIs DEF Served
  <2>. QED
    BY <2>1, <2>2, <2>3
<1>3. ASSUME NEW w \in Served(r), w # u PROVE w \in Served(s)
  BY <1>3 DEF Served
<1>4. Served(r) = {u} \cup Served(s)
  BY <1>1, <1>2, <1>3
<1>5. \A w \in Served(r) : r.uri[EntryFor(r, w)].token = subs[w]
  BY <1>1, <1>2, <1>4
<1>6. DOMAIN subs = {u} \cup Served(s) /\ subs = [w \in DOMAIN subs |-> subs[w]]
  OBVIOUS
<1>7. DOMAIN View(s).subs = Served(s)
  BY DEF View
<1>. HIDE DEF subs
<1>8. View(r) = [ip |-> r.ip, subs |-> subs]
  BY <1>4, <1>5, <1>6, ViewIs
<1>. QED
  BY <1>7, <1>8 DEF Joined, subs

LEMMA AddedMeans ==
  ASSUME NEW s \in SlotType, OneEntryPerUri(s), NEW t \in Token, NEW u \in Uri,
         OneEntryPerUri(addNewUri(s, t, u)), spaceUriIsFree(s) \in Entry,
         ~s.uri[spaceUriIsFree(s)].taken
  PROVE  View(addNewUri(s, t, u)) = Joined(View(s).subs, s.ip, u, t)
<1>. DEFINE e == spaceUriIsFree(s)
            new == [token |-> t, uriIndex |-> u, taken |-> TRUE]
            r == addNewUri(s, t, u)
<1>1. r = [s EXCEPT !.uri = [s.uri EXCEPT ![e] = new]]
  BY Ranges DEF addNewUri, LIST_FULL
<1>2. r.ip = s.ip /\ r.uri[e] = new /\ \A k \in Entry : k # e => r.uri[k] = s.uri[k]
  BY <1>1 DEF SlotType
<1>3. new.taken /\ new.uriIndex = u /\ new.token = t
  OBVIOUS
<1>. HIDE DEF r, e, new
<1>4. View(r) = Joined(View(s).subs, r.ip, u, t)
  BY <1>2, <1>3, WrittenMeans DEF e, r
<1>. QED
  BY <1>2, <1>4 DEF r

LEMMA RenewedMeans ==
  ASSUME NEW s \in SlotType, SlotOK(s), s.taken,
         NEW t \in Token, NEW u \in Uri, NEW ip \in Ip
  PROVE  View(renewed(s, t, u, ip)) = Joined(View(s).subs, ip, u, t)
<1>. DEFINE m == [s EXCEPT !.ip = ip]
            f == uriIsExist(s, u)
            r == renewed(s, t, u, ip)
<1>1. m \in SlotType /\ m.ip = ip /\ m.uri = s.uri
  BY DEF SlotType
<1>2. OneEntryPerUri(m) /\ View(m).subs = View(s).subs
  BY <1>1 DEF OneEntryPerUri, SlotOK, View, Served, EntryFor
<1>3. OneEntryPerUri(r) /\ OneEntryPerUri(s)
  BY Renewed DEF SlotOK
<1>4. CASE f = IS_NOT /\ \A e \in Entry : s.uri[e].uriIndex # u
  <2>1. r = addNewUri(m, t, u)
    BY <1>4 DEF renewed
  <2>2. spaceUriIsFree(m) \in Entry /\ ~m.uri[spaceUriIsFree(m)].taken
    <3>1. spaceUriIsFree(s) \in Entry /\ ~s.uri[spaceUriIsFree(s)].taken
      BY <1>4, RoomForServed
    <3>2. spaceUriIsFree(m) = spaceUriIsFree(s)
      BY <1>1 DEF spaceUriIsFree
    <3>. QED
      BY <1>1, <3>1, <3>2
  <2>. HIDE DEF m, r
  <2>3. View(r) = Joined(View(m).subs, m.ip, u, t)
    BY <1>1, <1>2, <1>3, <2>1, <2>2, AddedMeans
  <2>. QED
    BY <1>1, <1>2, <2>3 DEF r
<1>5. CASE f \in Entry /\ s.uri[f].uriIndex = u
  <2>. DEFINE new == [s.uri[f] EXCEPT !.token = t]
  <2>1. s.uri[f].taken /\ s.uri[f] \in EntryType
    BY <1>5, SubListAssumption DEF SlotOK, CleanWhenFree, EmptyEntry, SlotType
  <2>2. new.taken /\ new.uriIndex = u /\ new.token = t
    BY <1>5, <2>1 DEF EntryType
  <2>3. r = [m EXCEPT !.uri = [s.uri EXCEPT ![f] = new]]
    BY <1>1, <1>5, Ranges DEF renewed, IS_NOT
  <2>. HIDE DEF new, m
  <2>4. r.ip = ip /\ r.uri[f] = new /\ \A k \in Entry : k # f => r.uri[k] = s.uri[k]
    BY <1>1, <1>5, <2>3 DEF SlotType
  <2>. HIDE DEF r, f
  <2>5. View(r) = Joined(View(s).subs, r.ip, u, t)
    BY <1>3, <1>5, <2>2, <2>4, WrittenMeans
  <2>. QED
    BY <2>4, <2>5 DEF r
<1>. QED
  BY <1>4, <1>5, EntrySearch

(* A device that is enrolled has the one subscription it asked for.        *)
LEMMA EnrolledMeans ==
  ASSUME NEW s \in SlotType, SlotOK(s), ~s.taken,
         NEW t \in Token, NEW u \in Uri, NEW ip \in Ip, NEW n \in Name
  PROVE  View(enrolled(s, t, u, ip, n)) = Joined(<< >>, ip, u, t)
<1>. DEFINE m == addNewDevice(s, n, ip)
<1>1. s.name = NoName /\ \A e \in Entry : ~s.uri[e].taken
  BY DEF SlotOK, CleanWhenFree, InUseWhileSubscribed
<1>2. m = [s EXCEPT !.name = n, !.ip = ip, !.taken = TRUE]
  BY <1>1 DEF addNewDevice, saveDeviceNameFull
<1>3. m \in SlotType /\ m.ip = ip /\ m.uri = s.uri
  BY <1>2 DEF SlotType
<1>. HIDE DEF m
<1>4. spaceUriIsFree(m) \in Entry /\ ~m.uri[spaceUriIsFree(m)].taken
  BY <1>1, <1>3, EntrySearch, Ranges
<1>5. enrolled(s, t, u, ip, n) = addNewUri(m, t, u)
  BY DEF enrolled, m
<1>6. OneEntryPerUri(m)
  BY <1>1, <1>3 DEF OneEntryPerUri
<1>7. OneEntryPerUri(enrolled(s, t, u, ip, n))
  BY Enrolled DEF SlotOK
<1>8. View(addNewUri(m, t, u)) = Joined(View(m).subs, m.ip, u, t)
  BY <1>3, <1>4, <1>5, <1>6, <1>7, AddedMeans
<1>9. View(m).subs = << >>
  <2>1. Served(m) = {}
    BY <1>1, <1>3 DEF Served
  <2>. QED
    BY <2>1 DEF View
<1>. QED
  BY <1>3, <1>5, <1>8, <1>9

(* Ending a subscription ends that one alone.                              *)
LEMMA WithdrawnMeans ==
  ASSUME NEW s \in SlotType, SlotOK(s), s.taken, NEW t \in Token,
         tokenIsExist(s, t) # IS_NOT
  PROVE  \E u \in Served(s) :
           IF Served(s) = {u} THEN ~withdrawn(s, t).taken
           ELSE /\ withdrawn(s, t).taken
                /\ View(withdrawn(s, t)) = Parted(View(s), u)
<1>. DEFINE f == tokenIsExist(s, t)
            u == s.uri[f].uriIndex
            m == [s EXCEPT !.uri = [s.uri EXCEPT ![f] = EmptyEntry]]
            r == withdrawn(s, t)
<1>1. f \in Entry /\ s.uri[f].taken
  BY EntrySearch
<1>2. OneEntryPerUri(s) /\ u \in Served(s) /\ EntryFor(s, u) = f
  BY <1>1, EntryIs DEF SlotOK, CompleteWhenTaken, Served
<1>3. m.ip = s.ip /\ m.taken /\ m.uri[f] = EmptyEntry
      /\ \A k \in Entry : k # f => m.uri[k] = s.uri[k]
  BY <1>1 DEF SlotType
<1>4. r = releaseIfUnused(m)
  BY DEF withdrawn
<1>5. ~EmptyEntry.taken
  BY DEF EmptyEntry
<1>. HIDE DEF m, f, r
<1>6. OneEntryPerUri(m)
  BY <1>2, <1>3, <1>5 DEF OneEntryPerUri
<1>7. ASSUME NEW w \in Served(s), w # u
      PROVE  w \in Served(m) /\ m.uri[EntryFor(m, w)].token = View(s).subs[w]
  <2>. DEFINE k == EntryFor(s, w)
  <2>1. /\ w \in Uri /\ k \in Entry /\ s.uri[k].taken /\ s.uri[k].uriIndex = w
        /\ View(s).subs[w] = s.uri[k].token
    BY <1>2, <1>7, ServedBy
  <2>. HIDE DEF k
  <2>2. k # f /\ m.uri[k] = s.uri[k]
    BY <1>3, <1>7, <2>1
  <2>3. w \in Served(m) /\ EntryFor(m, w) = k
    BY <1>6, <2>1, <2>2, EntryIs DEF Served
  <2>. QED
    BY <2>1, <2>2, <2>3
<1>8. ASSUME NEW w \in Served(m) PROVE w \in Served(s) /\ w # u
  <2>1. PICK k \in Entry : m.uri[k].taken /\ m.uri[k].uriIndex = w
    BY <1>8 DEF Served
  <2>2. k # f /\ s.uri[k].taken /\ s.uri[k].uriIndex = w
    BY <1>3, <1>5, <2>1
  <2>3. w # u
    BY <1>1, <1>2, <2>2 DEF OneEntryPerUri
  <2>. QED
    BY <1>8, <2>2, <2>3 DEF Served
<1>9. Served(m) = Served(s) \ {u}
  BY <1>7, <1>8
<1>10. CASE Served(s) = {u}
  <2>1. \A e \in Entry : ~m.uri[e].taken
    <3>1. SUFFICES ASSUME NEW e \in Entry, m.uri[e].taken PROVE FALSE
      OBVIOUS
    <3>2. s.uri[e].taken /\ m.uri[e].uriIndex \in Uri
      BY <1>3, <1>5, <3>1 DEF SlotOK, CompleteWhenTaken
    <3>3. m.uri[e].uriIndex \in Served(m)
      BY <3>1, <3>2 DEF Served
    <3>. QED
      BY <1>9, <1>10, <3>3
  <2>2. ~r.taken
    <3>1. r = [m EXCEPT !.name = NoName, !.ip = NoIp, !.taken = FALSE]
      BY <1>4, <2>1 DEF releaseIfUnused
    <3>2. m \in SlotType
      BY <1>1 DEF m, SlotType, EmptyEntry, EntryType
    <3>. QED
      BY <3>1, <3>2 DEF SlotType
  <2>. QED
    BY <1>2, <1>10, <2>2 DEF r
<1>11. CASE Served(s) # {u}
  <2>1. \E e \in Entry : m.uri[e].taken
    BY <1>2, <1>9, <1>11 DEF Served
  <2>2. r = m
    BY <1>4, <2>1 DEF releaseIfUnused
  <2>. DEFINE subs == [w \in Served(s) \ {u} |-> View(s).subs[w]]
  <2>3. \A w \in Served(m) : m.uri[EntryFor(m, w)].token = subs[w]
    BY <1>7, <1>9
  <2>4. DOMAIN subs = Served(s) \ {u} /\ subs = [w \in DOMAIN subs |-> subs[w]]
    OBVIOUS
  <2>5. Parted(View(s), u) = [ip |-> s.ip, subs |-> subs]
    <3>1. /\ DOMAIN View(s).subs = Served(s)
          /\ View(s) = [ip |-> s.ip, subs |-> View(s).subs]
      BY DEF View
    <3>. QED
      BY <3>1 DEF Parted
  <2>. HIDE DEF subs
  <2>6. View(m) = [ip |-> m.ip, subs |-> subs]
    BY <1>9, <2>3, <2>4, ViewIs
  <2>. QED
    BY <1>2, <1>3, <1>11, <2>2, <2>5, <2>6 DEF r
<1>. QED
  BY <1>10, <1>11

-----------------------------------------------------------------------------
(* Known devices are as many as slots in use. *)
LEMMA RoomForNames ==
  ASSUME NEW l, ListOK(l)
  PROVE  /\ \A d \in Slot : ~l[d].taken => Cardinality(Names(l)) < DevMax
         /\ (\A d \in Slot : l[d].taken) => Cardinality(Names(l)) = DevMax
<1>. DEFINE N == Names(l)
            f == [n \in N |-> SlotFor(l, n)]
<1>1. \A n \in N : f[n] \in Slot /\ l[f[n]].taken /\ l[f[n]].name = n
  BY NameIs
<1>2. \A d \in Slot : l[d].taken => l[d].name \in N /\ f[l[d].name] = d
  BY SlotIs
<1>3. f \in [N -> Slot]
  BY <1>1
<1>. HIDE DEF f, N
<1>4. f \in Injection(N, Slot)
  BY <1>1, <1>3 DEF Injection, IsInjective
<1>5. IsFiniteSet(Slot) /\ Cardinality(Slot) = DevMax
  BY FS_Interval, SubListAssumption DEF Slot
<1>6. /\ IsFiniteSet(N) /\ Cardinality(N) <= DevMax
      /\ Cardinality(N) = DevMax <=> f \in Surjection(N, Slot)
  BY <1>4, <1>5, FS_Injection
<1>7. Cardinality(N) \in Nat /\ DevMax \in Nat
  BY <1>6, FS_CardinalityType, SubListAssumption
<1>8. ASSUME NEW d \in Slot, ~l[d].taken PROVE Cardinality(N) < DevMax
  <2>1. f \notin Surjection(N, Slot)
    BY <1>1, <1>8 DEF Surjection
  <2>. QED
    BY <1>6, <1>7, <2>1
<1>9. ASSUME \A d \in Slot : l[d].taken PROVE Cardinality(N) = DevMax
  BY <1>2, <1>3, <1>6, <1>9 DEF Surjection
<1>. QED
  BY <1>8, <1>9 DEF N

(* The meaning reg of a table with a subscription added, as Registry has it. *)
Widened(reg, n, ip, u, t) ==
  [m \in DOMAIN reg \cup {n} |->
     IF m # n THEN reg[m]
     ELSE [ip |-> ip,
           subs |-> [v \in {u} \cup (IF n \in DOMAIN reg
                                     THEN DOMAIN reg[n].subs ELSE {}) |->
                       IF v = u THEN t ELSE reg[n].subs[v]]]]

LEMMA MeaningDomain == \A l : DOMAIN Meaning(l) = Names(l)
  BY DEF Meaning

(* A subscription is stored, or refused to a new device when all slots are *)
(* in use, or rejected; and what the caller is told is what happened.      *)
LEMMA SubscribeMeans ==
  ASSUME NEW l, ListOK(l), NEW t \in Token \cup {NoToken}, NEW u \in Uri,
         NEW ip \in Ip, NEW n \in Name \cup {LongName}
  PROVE  \/ /\ n \in Name /\ t \in Token
            /\ \/ subscribeResult(l, t, u, ip, n) > 0
               \/ subscribeResult(l, t, u, ip, n) \in {ADDED_NEW_DEVICE, NO_NEED_UPDATE}
            /\ n \in Names(l) \/ Cardinality(Names(l)) < DevMax
            /\ Meaning(subscribeList(l, t, u, ip, n))
                 = Widened(Meaning(l), n, ip, u, t)
         \/ /\ n \in Name
            /\ subscribeResult(l, t, u, ip, n) = LIST_FULL
            /\ n \notin Names(l) /\ Cardinality(Names(l)) = DevMax
            /\ subscribeList(l, t, u, ip, n) = l
         \/ /\ subscribeResult(l, t, u, ip, n) = ERROR
            /\ subscribeList(l, t, u, ip, n) = l
<1>. DEFINE d == devNameFullIsExist(l, n)
            f == spaceDevNameIsFree(l)
            r == subscribeList(l, t, u, ip, n)
            c == subscribeResult(l, t, u, ip, n)
<1>1. l \in ListType /\ \A k \in Slot : l[k] \in SlotType /\ SlotOK(l[k])
  BY DEF ListOK, ListType
<1>2. ListOK(r)
  BY SubscribeKeeps
<1>3. CASE ~subscribeIsValidData(t, u, n)
  BY <1>3 DEF subscribeList, subscribeResult
<1>4. CASE subscribeIsValidData(t, u, n)
  <2>1. t \in Token /\ n \in Name
    BY <1>4 DEF subscribeIsValidData
  <2>2. CASE d \in Slot /\ l[d].taken /\ l[d].name = n
    <3>. DEFINE s == renewed(l[d], t, u, ip)
    <3>1. r = [l EXCEPT ![d] = s]
      BY <1>4, <2>2, Ranges DEF subscribeList, IS_NOT
    <3>2. c > 0 \/ c = NO_NEED_UPDATE
      <4>1. c = IF updateState(l[d], t, u, ip) = 0 THEN NO_NEED_UPDATE
                ELSE updateState(l[d], t, u, ip)
        BY <1>4, <2>2, Ranges DEF subscribeResult, IS_NOT
      <4>2. updateState(l[d], t, u, ip) \in 0 .. 7
        BY DEF updateState, UPDATE_IP_ADDR, UPDATE_URI_TOKEN, ADD_NEW_URI
      <4>. QED
        BY <4>1, <4>2
    <3>3. s.name = n /\ s.taken /\ View(s) = Joined(View(l[d]).subs, ip, u, t)
      <4>1. l[d] \in SlotType /\ SlotOK(l[d])
        BY <1>1, <2>2
      <4>2. View(s) = Joined(View(l[d]).subs, ip, u, t)
        BY <2>1, <2>2, <4>1, RenewedMeans
      <4>3. s.name = l[d].name
        BY <2>1, <2>2, <4>1, Renewed
      <4>4. s.taken
        BY <2>1, <2>2, <4>1, RenewedIsThere
      <4>. QED
        BY <2>2, <4>2, <4>3, <4>4
    <3>4. n \in Names(l) /\ Meaning(l)[n] = View(l[d])
      BY <2>2, SlotIs
    <3>7. r[d] = s /\ \A k \in Slot : k # d => r[k] = l[k]
      BY <1>1, <2>2, <3>1 DEF ListType
    <3>. HIDE DEF s, r, c, d
    <3>5. Meaning(r)
            = [m \in Names(l) \cup {s.name} |->
                 IF m # s.name THEN Meaning(l)[m] ELSE View(s)]
      BY <1>2, <2>2, <3>3, <3>7, PutMeans
    <3>6. Widened(Meaning(l), n, ip, u, t)
            = [m \in Names(l) \cup {n} |->
                 IF m # n THEN Meaning(l)[m] ELSE Joined(View(l[d]).subs, ip, u, t)]
      BY <3>4, MeaningDomain DEF Widened, Joined
    <3>. QED
      BY <2>1, <3>1, <3>2, <3>3, <3>4, <3>5, <3>6 DEF r, c
  <2>3. CASE d = IS_NOT /\ \A k \in Slot : l[k].taken => l[k].name # n
    <3>1. n \notin Names(l)
      BY <2>3 DEF Names
    <3>2. CASE f \in Slot /\ ~l[f].taken
      <4>. DEFINE s == enrolled(l[f], t, u, ip, n)
      <4>1. r = [l EXCEPT ![f] = s]
        BY <1>4, <2>3, <3>2, Ranges DEF subscribeList, LIST_FULL
      <4>2. c = ADDED_NEW_DEVICE
        <5>1. spaceUriIsFree(l[f]) \in Entry
          BY <1>1, <3>2, EntrySearch, Ranges DEF SlotOK, InUseWhileSubscribed
        <5>. QED
          BY <1>4, <2>3, <3>2, <5>1, Ranges DEF subscribeResult, LIST_FULL
      <4>3. s.name = n /\ s.taken /\ View(s) = Joined(<< >>, ip, u, t)
        <5>1. l[f] \in SlotType /\ SlotOK(l[f])
          BY <1>1, <3>2
        <5>2. View(s) = Joined(<< >>, ip, u, t)
          BY <2>1, <3>2, <5>1, EnrolledMeans
        <5>3. s.name = n
          BY <2>1, <3>2, <5>1, Enrolled
        <5>4. s.taken
          BY <2>1, <3>2, <5>1, EnrolledIsThere
        <5>. QED
          BY <5>2, <5>3, <5>4
      <4>4. Cardinality(Names(l)) < DevMax
        BY <3>2, RoomForNames
      <4>7. r[f] = s /\ \A k \in Slot : k # f => r[k] = l[k]
        BY <1>1, <3>2, <4>1 DEF ListType
      <4>. HIDE DEF s, r, c, f
      <4>5. Meaning(r)
              = [m \in Names(l) \cup {s.name} |->
                   IF m # s.name THEN Meaning(l)[m] ELSE View(s)]
        BY <1>2, <3>2, <4>3, <4>7, PutMeans
      <4>6. Widened(Meaning(l), n, ip, u, t)
              = [m \in Names(l) \cup {n} |->
                   IF m # n THEN Meaning(l)[m] ELSE Joined(<< >>, ip, u, t)]
        BY <3>1, MeaningDomain DEF Widened, Joined
      <4>. QED
        BY <2>1, <4>1, <4>2, <4>3, <4>4, <4>5, <4>6 DEF r, c
    <3>3. CASE f = LIST_FULL /\ \A k \in Slot : l[k].taken
      <4>1. c = LIST_FULL /\ r = l
        BY <1>4, <2>3, <3>3 DEF subscribeResult, subscribeList
      <4>. QED
        BY <2>1, <3>1, <3>3, <4>1, RoomForNames
    <3>. QED
      BY <1>1, <3>2, <3>3, SlotSearch
  <2>. QED
    BY <1>1, <2>2, <2>3, SlotSearch
<1>. QED
  BY <1>3, <1>4

(* The meaning reg of a table with a subscription taken away. *)
Narrowed(reg, n, u) ==
  LET left == DOMAIN reg[n].subs \ {u} IN
  [m \in IF left = {} THEN DOMAIN reg \ {n} ELSE DOMAIN reg |->
     IF m # n THEN reg[m]
     ELSE [reg[n] EXCEPT !.subs = [v \in left |-> reg[n].subs[v]]]]

LEMMA UnsubscribeMeans ==
  ASSUME NEW l, ListOK(l), NEW n \in Name \cup {LongName}, NEW t \in Token
  PROVE  \/ /\ unsubscribeResult(l, n, t) = OK
            /\ n \in Names(l)
            /\ \E u \in DOMAIN Meaning(l)[n].subs :
                 /\ u \in Uri
                 /\ Meaning(unsubscribeList(l, n, t)) = Narrowed(Meaning(l), n, u)
         \/ /\ unsubscribeResult(l, n, t) \in {ERROR, TOKEN_NOT_EXIST}
            /\ unsubscribeList(l, n, t) = l
<1>. DEFINE d == devNameFullIsExist(l, n)
            s == withdrawn(l[d], t)
            r == unsubscribeList(l, n, t)
<1>1. l \in ListType /\ \A k \in Slot : l[k] \in SlotType /\ SlotOK(l[k])
  BY DEF ListOK, ListType
<1>2. ListOK(r)
  BY UnsubscribeKeeps
<1>3. CASE d = IS_NOT
  BY <1>3 DEF unsubscribeList, unsubscribeResult
<1>4. CASE d \in Slot /\ l[d].taken /\ l[d].name = n
  <2>1. r = [l EXCEPT ![d] = s]
    BY <1>4, Ranges DEF unsubscribeList, IS_NOT
  <2>2. CASE tokenIsExist(l[d], t) = IS_NOT
    <3>1. s = l[d]
      BY <2>2 DEF withdrawn
    <3>2. r = l
      BY <1>1, <1>4, <2>1, <3>1 DEF ListType
    <3>3. unsubscribeResult(l, n, t) = TOKEN_NOT_EXIST
      BY <1>4, <2>2, Ranges DEF unsubscribeResult, IS_NOT
    <3>. QED
      BY <3>2, <3>3
  <2>3. CASE tokenIsExist(l[d], t) # IS_NOT
    <3>1. unsubscribeResult(l, n, t) = OK
      BY <1>4, <2>3, Ranges DEF unsubscribeResult, IS_NOT
    <3>2. n \in Names(l) /\ Meaning(l)[n] = View(l[d])
      BY <1>4, SlotIs
    <3>3. PICK u \in Served(l[d]) :
            IF Served(l[d]) = {u} THEN ~s.taken
            ELSE s.taken /\ View(s) = Parted(View(l[d]), u)
      BY <1>1, <1>4, <2>3, WithdrawnMeans
    <3>4. u \in Uri /\ DOMAIN View(l[d]).subs = Served(l[d])
      BY DEF Served, View
    <3>5. s.taken => s.name = n
      BY <1>1, <1>4, Withdrawn
    <3>8. r[d] = s /\ \A k \in Slot : k # d => r[k] = l[k]
      BY <1>1, <1>4, <2>1 DEF ListType
    <3>. HIDE DEF s, r, d
    <3>6. CASE Served(l[d]) = {u}
      <4>1. Meaning(r) = [m \in Names(l) \ {n} |-> Meaning(l)[m]]
        BY <1>2, <1>4, <3>3, <3>6, <3>8, DropMeans
      <4>2. Narrowed(Meaning(l), n, u) = [m \in Names(l) \ {n} |-> Meaning(l)[m]]
        BY <3>2, <3>4, <3>6, MeaningDomain DEF Narrowed
      <4>. QED
        BY <2>1, <3>1, <3>2, <3>4, <4>1, <4>2 DEF r
    <3>7. CASE Served(l[d]) # {u}
      <4>1. s.taken /\ s.name = n /\ View(s) = Parted(View(l[d]), u)
        BY <3>3, <3>5, <3>7
      <4>2. Meaning(r)
              = [m \in Names(l) \cup {s.name} |->
                   IF m # s.name THEN Meaning(l)[m] ELSE View(s)]
        BY <1>2, <1>4, <3>8, <4>1, PutMeans
      <4>3. Served(l[d]) \ {u} # {}
        BY <3>7
      <4>4. Narrowed(Meaning(l), n, u)
              = [m \in Names(l) |->
                   IF m # n THEN Meaning(l)[m] ELSE Parted(View(l[d]), u)]
        BY <3>2, <3>4, <4>3, MeaningDomain DEF Narrowed, Parted
      <4>. QED
        BY <2>1, <3>1, <3>2, <3>4, <4>1, <4>2, <4>4 DEF r
    <3>. QED
      BY <3>6, <3>7
  <2>. QED
    BY <2>2, <2>3
<1>. QED
  BY <1>1, <1>3, <1>4, SlotSearch

(* The messages of an event are what the meaning of the table calls for.   *)
LEMMA NotifyMeans ==
  ASSUME NEW l, ListOK(l), NEW ip \in Ip, NEW u \in Uri
  PROVE  {[name |-> m.name, ip |-> m.ip, token |-> m.token] : m \in notify(l, ip, u)}
           = {[name |-> n, ip |-> Meaning(l)[n].ip, token |-> Meaning(l)[n].subs[u]] :
                n \in {m \in Names(l) : /\ Meaning(l)[m].ip # ip
                                        /\ u \in DOMAIN Meaning(l)[m].subs}}
<1>. DEFINE told == {[name |-> m.name, ip |-> m.ip, token |-> m.token] : m \in notify(l, ip, u)}
            heirs == {m \in Names(l) : /\ Meaning(l)[m].ip # ip
                                       /\ u \in DOMAIN Meaning(l)[m].subs}
            said(n) == [name |-> n, ip |-> Meaning(l)[n].ip, token |-> Meaning(l)[n].subs[u]]
            due(d, e) == /\ l[d].taken /\ l[d].uri[e].taken
                         /\ l[d].uri[e].uriIndex = u /\ l[d].ip # ip
            message(d, e) == [name |-> l[d].name, ip |-> l[d].ip,
                              token |-> l[d].uri[e].token]
<1>1. \A x \in told : \E d \in Slot, e \in Entry : due(d, e) /\ x = message(d, e)
  BY DEF notify
<1>2. ASSUME NEW d \in Slot, NEW e \in Entry, due(d, e) PROVE message(d, e) \in told
  <2>1. <<d, e>> \in Slot \X Entry
    OBVIOUS
  <2>. DEFINE m == [name |-> l[d].name, ip |-> l[d].ip,
                    token |-> l[d].uri[e].token, from |-> <<d, e>>]
  <2>2. m \in notify(l, ip, u)
    BY <1>2, <2>1 DEF notify
  <2>3. message(d, e) = [name |-> m.name, ip |-> m.ip, token |-> m.token]
    OBVIOUS
  <2>. HIDE DEF m, message
  <2>. QED
    BY <2>2, <2>3
<1>3. \A d \in Slot : OneEntryPerUri(l[d])
  BY DEF ListOK, SlotOK
<1>4. \A d \in Slot : /\ DOMAIN View(l[d]).subs = Served(l[d])
                      /\ View(l[d]).ip = l[d].ip
  BY DEF View
<1>5. ASSUME NEW d \in Slot, NEW e \in Entry, due(d, e)
      PROVE  l[d].name \in heirs /\ message(d, e) = said(l[d].name)
  <2>1. l[d].name \in Names(l) /\ Meaning(l)[l[d].name] = View(l[d])
    BY <1>5, SlotIs
  <2>2. u \in Served(l[d]) /\ EntryFor(l[d], u) = e
    BY <1>3, <1>5, EntryIs DEF Served
  <2>3. View(l[d]).subs[u] = l[d].uri[e].token
    BY <2>2 DEF View
  <2>. QED
    BY <1>4, <1>5, <2>1, <2>2, <2>3
<1>6. ASSUME NEW n \in heirs
      PROVE  \E d \in Slot, e \in Entry : due(d, e) /\ l[d].name = n
  <2>. DEFINE d == SlotFor(l, n)
  <2>1. d \in Slot /\ l[d].taken /\ l[d].name = n
    BY NameIs
  <2>. HIDE DEF d
  <2>2. Meaning(l)[n] = View(l[d])
    BY <2>1, SlotIs
  <2>3. l[d].ip # ip /\ u \in Served(l[d])
    BY <1>4, <2>1, <2>2
  <2>. QED
    BY <2>1, <2>3 DEF Served
<1>7. ASSUME NEW n \in heirs PROVE said(n) \in told
  <2>1. PICK d \in Slot, e \in Entry : due(d, e) /\ l[d].name = n
    BY <1>6
  <2>. HIDE DEF told, heirs, said, message, due
  <2>. QED
    BY <1>2, <1>5, <2>1
<1>8. ASSUME NEW x \in told PROVE \E n \in heirs : x = said(n)
  <2>1. PICK d \in Slot, e \in Entry : due(d, e) /\ x = message(d, e)
    BY <1>1
  <2>. HIDE DEF told, heirs, said, message, due
  <2>. QED
    BY <1>5, <2>1
<1>9. told = {said(n) : n \in heirs}
  <2>. HIDE DEF told, heirs, said
  <2>. QED
    BY <1>7, <1>8
<1>. QED
  BY <1>9

Registered ==
  [n \in Known |-> [ip |-> subList[SlotOf(n)].ip,
                    subs |-> [u \in UrisOf(SlotOf(n)) |-> TokenOf(SlotOf(n), u)]]]
Told == {[name |-> m.name, ip |-> m.ip, token |-> m.token] : m \in sent}

(* Registry counts with the Cardinality it extends: the same one. *)
LEMMA SameCount ==
  ASSUME NEW S
  PROVE  R!Cardinality(S) = Cardinality(S)
  BY DEF Cardinality, R!Cardinality

LEMMA StepRefines ==
  ASSUME ListOK(subList), [Next]_vars
  PROVE  R!Next \/ UNCHANGED <<Registered, Told, Outcome>>
<1>1. Registered = Meaning(subList) /\ Registered' = Meaning(subList')
  BY DEF Registered, Known, SlotOf, UrisOf, TokenOf, Meaning, Names, SlotFor, View,
         Served, EntryFor
<1>2. DOMAIN Registered = Names(subList)
  BY <1>1, MeaningDomain
<1>3. sent' = {} => Told' = {}
  BY DEF Told
<1>4. /\ result' > 0 \/ result' \in {ADDED_NEW_DEVICE, NO_NEED_UPDATE} => Outcome' = "stored"
      /\ result' = LIST_FULL => Outcome' = "refused"
      /\ result' = OK => Outcome' = "done"
      /\ result' \in {ERROR, TOKEN_NOT_EXIST, 0} => Outcome' = "ignored"
  BY DEF Outcome, OK, ERROR, TOKEN_NOT_EXIST, LIST_FULL, ADDED_NEW_DEVICE, NO_NEED_UPDATE
<1>5. ASSUME subList' = subList, sent' = {}, result' \in {ERROR, TOKEN_NOT_EXIST, 0}
      PROVE  R!Next
  <2>1. R!Ignore
    BY <1>1, <1>3, <1>4, <1>5 DEF R!Ignore, Registered, Told
  <2>. QED
    BY <2>1, Zenon DEF R!Next
<1>6. ASSUME NEW n \in Name \cup {LongName}, NEW ip \in Ip, NEW u \in Uri,
             NEW t \in Token \cup {NoToken}, SubscribeRequest(n, ip, u, t)
      PROVE  R!Next
  <2>1. /\ subList' = subscribeList(subList, t, u, ip, n)
        /\ result' = subscribeResult(subList, t, u, ip, n)
        /\ sent' = {}
    BY <1>6 DEF SubscribeRequest
  <2>2. CASE /\ n \in Name /\ t \in Token
             /\ \/ result' > 0
                \/ result' \in {ADDED_NEW_DEVICE, NO_NEED_UPDATE}
             /\ n \in Names(subList) \/ Cardinality(Names(subList)) < DevMax
             /\ Meaning(subList') = Widened(Meaning(subList), n, ip, u, t)
    <3>1. R!With(n, ip, u, t) = Widened(Registered, n, ip, u, t)
      BY DEF R!With, Widened, Registered
    <3>2. Registered' = R!With(n, ip, u, t)
      BY <1>1, <2>2, <3>1
    <3>3. R!Subscribe(n, ip, u, t)
      BY <1>2, <1>3, <1>4, <2>1, <2>2, <3>2, SameCount
      DEF R!Subscribe, Registered, Told
    <3>4. \E m \in Name, a \in Ip, v \in Uri, k \in Token : R!Subscribe(m, a, v, k)
      BY <2>2, <3>3, Zenon
    <3>. QED
      BY <3>4, Zenon DEF R!Next
  <2>3. CASE /\ n \in Name
             /\ result' = LIST_FULL
             /\ n \notin Names(subList) /\ Cardinality(Names(subList)) = DevMax
             /\ subList' = subList
    <3>1. R!Refuse(n)
      BY <1>1, <1>2, <1>3, <1>4, <2>1, <2>3, SameCount
      DEF R!Refuse, Registered, Told
    <3>2. \E m \in Name : R!Refuse(m)
      BY <2>3, <3>1, Zenon
    <3>. QED
      BY <3>2, Zenon DEF R!Next
  <2>4. CASE result' = ERROR /\ subList' = subList
    BY <1>5, <2>1, <2>4
  <2>. QED
    BY <2>1, <2>2, <2>3, <2>4, SubscribeMeans
<1>7. CASE DeregisterRequest \/ BadPayload
  BY <1>5, <1>7 DEF DeregisterRequest, BadPayload
<1>8. ASSUME NEW ip \in Ip, NEW u \in Uri, PutRequest(ip, u) PROVE R!Next
  <2>1. sent' = notify(subList, ip, u) /\ result' = OK /\ subList' = subList
    BY <1>8 DEF PutRequest
  <2>2. Told' = {[name |-> m.name, ip |-> m.ip, token |-> m.token] :
                    m \in notify(subList, ip, u)}
    BY <2>1 DEF Told
  <2>3. Told' = {[name |-> n, ip |-> Registered[n].ip, token |-> Registered[n].subs[u]] :
                   n \in {m \in DOMAIN Registered : /\ Registered[m].ip # ip
                                                    /\ u \in DOMAIN Registered[m].subs}}
    BY <1>1, <1>2, <2>2, NotifyMeans
  <2>4. R!Event(ip, u)
    BY <1>1, <1>4, <2>1, <2>3 DEF R!Event, Registered, Told
  <2>5. \E a \in Ip, v \in Uri : R!Event(a, v)
    BY <2>4, Zenon
  <2>. QED
    BY <2>5, Zenon DEF R!Next
<1>9. ASSUME NEW n \in Name \cup {LongName}, NEW t \in Token, Unsubscribe(n, t)
      PROVE  R!Next
  <2>1. /\ subList' = unsubscribeList(subList, n, t)
        /\ result' = unsubscribeResult(subList, n, t)
        /\ sent' = {}
    BY <1>9 DEF Unsubscribe
  <2>2. CASE /\ result' = OK /\ n \in Names(subList)
             /\ \E u \in DOMAIN Meaning(subList)[n].subs :
                  /\ u \in Uri
                  /\ Meaning(subList') = Narrowed(Meaning(subList), n, u)
    <3>1. PICK u \in Uri : /\ u \in DOMAIN Registered[n].subs
                           /\ Registered' = Narrowed(Registered, n, u)
      BY <1>1, <2>2
    <3>2. R!Unsubscribe(n, u)
      BY <1>2, <1>3, <1>4, <2>1, <2>2, <3>1 DEF R!Unsubscribe, Narrowed, Registered, Told
    <3>3. n \in Name
      BY <2>2 DEF Names
    <3>4. \E m \in Name, v \in Uri : R!Unsubscribe(m, v)
      BY <3>2, <3>3, Zenon
    <3>. QED
      BY <3>4, Zenon DEF R!Next
  <2>3. CASE result' \in {ERROR, TOKEN_NOT_EXIST} /\ subList' = subList
    BY <1>5, <2>1, <2>3
  <2>. QED
    BY <2>1, <2>2, <2>3, UnsubscribeMeans
<1>10. CASE DeleteAll
  <2>1. subList' = EmptyList /\ sent' = {} /\ result' = OK
    BY <1>10 DEF DeleteAll
  <2>2. Registered' = << >>
    <3>1. Names(EmptyList) = {}
      BY DEF Names, EmptyList, EmptySlot
    <3>. QED
      BY <1>1, <2>1, <3>1 DEF Meaning
  <2>3. R!Clear
    BY <1>3, <1>4, <2>1, <2>2 DEF R!Clear, Registered, Told
  <2>. QED
    BY <2>3, Zenon DEF R!Next
<1>11. CASE UNCHANGED vars
  BY <1>1, <1>11 DEF vars, Told, Outcome
<1>. QED
  BY <1>5, <1>6, <1>7, <1>8, <1>9, <1>10, <1>11 DEF Next

(* The table is a registry.  What the searches, the reuse of slots and the *)
(* update of single entries come to is, whatever the requests: a stored    *)
(* subscription is that of its device and URI and disturbs no other, only  *)
(* a new device is refused, and only when Capacity are known, and an event *)
(* is told to exactly the present subscribers with their present tokens.   *)
THEOREM TableIsRegistry == Spec => ImplementsRegistry
<1>1. Init => R!Init
  <2>. SUFFICES ASSUME Init PROVE R!Init
    OBVIOUS
  <2>1. Known = {}
    BY DEF Known, Init, EmptyList, EmptySlot
  <2>2. Outcome = "done"
    BY DEF Init, Outcome, OK, LIST_FULL, ADDED_NEW_DEVICE, NO_NEED_UPDATE
  <2>. QED
    BY <2>1, <2>2 DEF Init, R!Init
<1>2. ListOK(subList) /\ [Next]_vars => [R!Next]_<<Registered, Told, Outcome>>
  BY StepRefines
<1>3. Spec => []ListOK(subList)
  BY ListAlwaysOK
<1>4. ListOK(subList) /\ [Next]_vars
        => [R!Next]_<<[n \in Known |-> [ip |-> subList[SlotOf(n)].ip,
                                        subs |-> [u \in UrisOf(SlotOf(n)) |->
                                                    TokenOf(SlotOf(n), u)]]],
                     {[name |-> m.name, ip |-> m.ip, token |-> m.token] : m \in sent},
                     Outcome>>
  BY <1>2 DEF Registered, Told
<1>. QED
  BY <1>1, <1>3, <1>4, PTL DEF Spec, ImplementsRegistry, R!Spec
=============================================================================
