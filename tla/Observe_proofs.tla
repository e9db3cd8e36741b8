---------------------------- MODULE Observe_proofs ----------------------------
(***************************************************************************)
(* Two facts about the controller and its device, for any number of URIs,  *)
(* announcements, restarts, moves and messages under way, which may come   *)
(* in any order or not at all.                                             *)
(*                                                                         *)
(* A notification means what it says (EventsAreUnderstood), with or        *)
(* without preemption: its token is that of the URI it was sent for.  A    *)
(* token is copied from place to place: the handler draws it, a message    *)
(* carries it to the device, the device's list keeps it, an event brings   *)
(* it back, and the controller's own list sends it again.  So the          *)
(* invariant speaks of all places at once (Says): wherever a token is, it  *)
(* is for the same URI.  The threads of the controller keep the invariant  *)
(* of Pair_proofs.                                                         *)
(*                                                                         *)
(* Once nothing is under way both ends hold the same subscriptions, if     *)
(* nothing was given up or overtaken since the device's last announcement  *)
(* (BothEndsAgree).  The invariant (SyncInv) says what is going to arrive: *)
(* of the messages on the way to the device the last one sent about a URI  *)
(* has the controller's token for it, and the last one of all its address; *)
(* where there is none, the device's list has them.  That holds as soon as *)
(* the latest announcement has reached the controller's list (Settled),    *)
(* except for what the pair task is about to renew; a message that is taken*)
(* before an older one says the same, or the order is lost and nothing is  *)
(* claimed until the next announcement.                                    *)
(***************************************************************************)
EXTENDS Observe, Pair_proofs, FiniteSetTheorems

PeerMsg ==
  [kind : {"get"}, ip : Ip \cup {NoIp, TornIp}, from : MyIp]
  \cup [kind : {"register", "update"}, ip : Ip \cup {NoIp, TornIp},
        uri : Uri \cup {NoUri}, token : Token, from : MyIp]
EventMsg ==
  [kind : {"event"}, to : MyIp \cup {NoIp}, token : Token, uri : Uri]
MeMsg ==
  [kind : {"announce"}, from : PeerIp, to : MyIp]
  \cup [kind : {"uris"}, to : MyIp]
  \cup EventMsg

NetOK ==
  /\ myIp \in MyIp /\ peerIp \in PeerIp
  /\ toPeer \in Seq(PeerMsg) /\ toMe \in Seq(MeMsg)
  /\ subList \in L!ListType
  /\ \A d \in L!Slot, e \in L!Entry :
       subList[d].uri[e].taken => subList[d].uri[e].token \in Token

(* A slot that is given to a device has no tokens of another. *)
FreeHasNoTokens ==
  \A d \in Slot : ~list[d].taken => \A e \in Entry : list[d].uris[e].token = NoToken

(* An entry of the controller's list stands for a URI of its device even   *)
(* before the URI is stored.                                               *)
ListSays(t, u) ==
  \E d \in Slot, e \in Entry :
    /\ list[d].taken /\ list[d].uris[e].token = t
    /\ u = Offers[list[d].name][e + 1]
HandlerSays(t, u) ==
  ot.at \in {"token", "uri"} /\ t = token /\ u = Offers[ot.from][ot.uri + 1]
RequestSays(t, u) ==
  \E k \in DOMAIN toPeer :
    toPeer[k].kind # "get" /\ toPeer[k].token = t /\ toPeer[k].uri = u
PeerSays(t, u) ==
  \E d \in L!Slot, e \in L!Entry :
    /\ subList[d].uri[e].taken
    /\ subList[d].uri[e].token = t /\ subList[d].uri[e].uriIndex = u
EventSays(t, u) ==
  \E k \in DOMAIN toMe :
    toMe[k].kind = "event" /\ toMe[k].token = t /\ toMe[k].uri = u

Says(t, u) ==
  \/ ListSays(t, u) \/ HandlerSays(t, u)
  \/ RequestSays(t, u) \/ PeerSays(t, u) \/ EventSays(t, u)

OneUriPerToken ==
  \A t \in Token : \A u, v \in Uri : Says(t, u) /\ Says(t, v) => u = v

ObsInv == IInv /\ NetOK /\ FreeHasNoTokens /\ OneUriPerToken

------------------------------------------------------------------------------
(* Sequences.                                                              *)

LEMMA Places ==
  ASSUME NEW S, NEW s \in Seq(S), NEW r \in Seq(S)
  PROVE  /\ s \o r \in Seq(S)
         /\ \A k \in DOMAIN (s \o r) :
              \/ \E j \in DOMAIN s : (s \o r)[k] = s[j]
              \/ \E j \in DOMAIN r : (s \o r)[k] = r[j]
<1>1. s \o r \in Seq(S) /\ Len(s \o r) = Len(s) + Len(r)
  OBVIOUS
<1>2. /\ DOMAIN s = 1 .. Len(s) /\ DOMAIN r = 1 .. Len(r)
      /\ DOMAIN (s \o r) = 1 .. Len(s \o r)
      /\ Len(s) \in Nat /\ Len(r) \in Nat
  BY <1>1
<1>3. ASSUME NEW k \in DOMAIN (s \o r)
      PROVE  \/ \E j \in DOMAIN s : (s \o r)[k] = s[j]
             \/ \E j \in DOMAIN r : (s \o r)[k] = r[j]
  <2>1. CASE k <= Len(s)
    <3>1. k \in DOMAIN s /\ (s \o r)[k] = s[k]
      BY <1>1, <1>2, <1>3, <2>1
    <3> QED
      BY <3>1
  <2>2. CASE ~(k <= Len(s))
    <3>1. k - Len(s) \in DOMAIN r /\ (s \o r)[k] = r[k - Len(s)]
      BY <1>1, <1>2, <1>3, <2>2
    <3> QED
      BY <3>1
  <2> QED
    BY <2>1, <2>2
<1> QED
  BY <1>1, <1>3

LEMMA OneSeq ==
  ASSUME NEW S, NEW m \in S
  PROVE  << m >> \in Seq(S) /\ \A k \in DOMAIN << m >> : << m >>[k] = m
<1>1. DOMAIN << m >> = 1 .. 1 /\ << m >>[1] = m
  OBVIOUS
<1> QED
  BY <1>1

LEMMA Appended ==
  ASSUME NEW S, NEW s \in Seq(S), NEW m \in S
  PROVE  /\ Append(s, m) \in Seq(S)
         /\ \A k \in DOMAIN Append(s, m) :
              Append(s, m)[k] = m \/ \E j \in DOMAIN s : Append(s, m)[k] = s[j]
<1>1. /\ Append(s, m) \in Seq(S) /\ DOMAIN Append(s, m) = 1 .. Len(s) + 1
      /\ DOMAIN s = 1 .. Len(s) /\ Len(s) \in Nat
  OBVIOUS
<1>2. ASSUME NEW k \in 1 .. Len(s) + 1
      PROVE  Append(s, m)[k] = IF k = Len(s) + 1 THEN m ELSE s[k]
  OBVIOUS
<1> QED
  BY <1>1, <1>2

LEMMA Taken ==
  ASSUME NEW S, NEW s \in Seq(S), s # << >>
  PROVE  /\ Tail(s) \in Seq(S) /\ Head(s) \in S
         /\ 1 \in DOMAIN s /\ Head(s) = s[1]
         /\ \A k \in DOMAIN Tail(s) : \E j \in DOMAIN s : Tail(s)[k] = s[j]
<1>1. /\ Tail(s) \in Seq(S) /\ Len(Tail(s)) = Len(s) - 1
      /\ DOMAIN s = 1 .. Len(s) /\ Len(s) \in Nat /\ Len(s) >= 1
      /\ Head(s) = s[1]
  OBVIOUS
<1>2. ASSUME NEW k \in DOMAIN Tail(s)
      PROVE  k + 1 \in DOMAIN s /\ Tail(s)[k] = s[k + 1]
  BY <1>1
<1> QED
  BY <1>1, <1>2

(* A list of lists is put in a row list by list. *)
LEMMA FlatIs ==
  ASSUME NEW S, NEW s \in Seq(Seq(S)), Len(s) # 0
  PROVE  \E F : /\ \A i \in 1 .. Len(s) :
                     /\ F[i] = IF i = 1 THEN s[i] ELSE F[i - 1] \o s[i]
                     /\ F[i] \in Seq(S)
                /\ FlattenSeq(s) = F[Len(s)]
<1> DEFINE F == CHOOSE f : f = [i \in 1 .. Len(s) |-> IF i = 1 THEN s[i] ELSE f[i - 1] \o s[i]]
<1>1. FlattenSeq(s) = F[Len(s)]
  BY DEF FlattenSeq
<1>2. Len(s) \in Nat
  OBVIOUS
<1>3. F = [i \in 1 .. Len(s) |-> IF i = 1 THEN s[i] ELSE F[i - 1] \o s[i]]
  BY <1>2, Flattens
<1> HIDE DEF F
<1>4. \A i \in 1 .. Len(s) : /\ F[i] = IF i = 1 THEN s[i] ELSE F[i - 1] \o s[i]
                             /\ F[i] \in Seq(S)
  BY <1>3, FlatRuns
<1> QED
  BY <1>1, <1>4

(* The row has only what they have. *)
LEMMA FlatIsSeq ==
  ASSUME NEW S, NEW s \in Seq(Seq(S))
  PROVE  FlattenSeq(s) \in Seq(S)
<1>1. CASE Len(s) = 0
  <2>1. FlattenSeq(s) = s /\ s = << >>
    BY <1>1 DEF FlattenSeq
  <2> QED
    BY <2>1
<1>2. CASE Len(s) # 0
  <2>1. PICK F : /\ \A i \in 1 .. Len(s) :
                      /\ F[i] = IF i = 1 THEN s[i] ELSE F[i - 1] \o s[i]
                      /\ F[i] \in Seq(S)
                 /\ FlattenSeq(s) = F[Len(s)]
    BY <1>2, FlatIs
  <2>2. Len(s) \in 1 .. Len(s)
    BY <1>2
  <2> QED
    BY <2>1, <2>2
<1> QED
  BY <1>1, <1>2

(* A finite set put in some order. *)
LEMMA SetIsSeq ==
  ASSUME NEW S, IsFiniteSet(S)
  PROVE  SetToSeq(S) \in Seq(S)
<1>1. Cardinality(S) \in Nat /\ ExistsBijection(1 .. Cardinality(S), S)
  BY FS_CardinalityType
<1>2. \E f \in [1 .. Cardinality(S) -> S] : IsInjective(f)
  BY <1>1, Zenon DEF ExistsBijection, Bijection, Injection
<1>3. SetToSeq(S) \in [1 .. Cardinality(S) -> S]
  BY <1>2, Zenon DEF SetToSeq
<1> QED
  BY <1>1, <1>3

------------------------------------------------------------------------------
(* The device's list holds what it held, and what it is asked to.          *)

LEMMA PeerFinds ==
  ASSUME NEW S \in SUBSET Nat, NEW none
  PROVE  L!First(S, none) = none \/ L!First(S, none) \in S
  BY LeastExists DEF L!First

LEMMA PeerRanges == L!Slot \subseteq Nat /\ L!Entry \subseteq Nat
  BY PairListAssumption DEF L!Slot, L!Entry

(* An entry of r is one of s or has the token and the URI asked for. *)
OfThese(r, s, t, u) ==
  \A e \in L!Entry : r.uri[e].taken =>
    \/ s.uri[e].taken /\ r.uri[e].token = s.uri[e].token
                      /\ r.uri[e].uriIndex = s.uri[e].uriIndex
    \/ r.uri[e].token = t /\ r.uri[e].uriIndex = u

LEMMA EntryStored ==
  ASSUME NEW s \in L!SlotType, NEW t \in Token, NEW u \in Uri
  PROVE  L!addNewUri(s, t, u) \in L!SlotType /\ OfThese(L!addNewUri(s, t, u), s, t, u)
<1> DEFINE e == L!spaceUriIsFree(s)
           new == [token |-> t, uriIndex |-> u, taken |-> TRUE]
<1>1. CASE e = L!LIST_FULL
  BY <1>1 DEF L!addNewUri, OfThese
<1>2. CASE e # L!LIST_FULL
  <2>1. {x \in L!Entry : ~s.uri[x].taken} \in SUBSET Nat
    BY PeerRanges
  <2>2. e \in L!Entry
    BY <1>2, <2>1, PeerFinds DEF L!spaceUriIsFree
  <2>3. new \in L!EntryType
    BY DEF L!EntryType
  <2> HIDE DEF e
  <2>4. L!addNewUri(s, t, u) = [s EXCEPT !.uri[e] = new]
    BY <1>2 DEF L!addNewUri, e
  <2>5. L!addNewUri(s, t, u) \in L!SlotType
    BY <2>2, <2>3, <2>4 DEF L!SlotType
  <2>6. \A x \in L!Entry : L!addNewUri(s, t, u).uri[x] = IF x = e THEN new ELSE s.uri[x]
    BY <2>2, <2>4 DEF L!SlotType
  <2> QED
    BY <2>5, <2>6 DEF OfThese
<1> QED
  BY <1>1, <1>2

LEMMA SlotRenewed ==
  ASSUME NEW s \in L!SlotType, NEW t \in Token, NEW u \in Uri, NEW ip \in MyIp
  PROVE  /\ L!renewed(s, t, u, ip) \in L!SlotType
         /\ OfThese(L!renewed(s, t, u, ip), s, t, u)
<1> DEFINE e == L!uriIsExist(s, u)
           atIp == [s EXCEPT !.ip = ip]
<1>1. atIp \in L!SlotType /\ atIp.uri = s.uri
  BY DEF L!SlotType
<1>2. CASE e = L!IS_NOT
  <2>1. L!renewed(s, t, u, ip) = L!addNewUri(atIp, t, u)
    BY <1>2 DEF L!renewed
  <2> HIDE DEF atIp
  <2>2. L!addNewUri(atIp, t, u) \in L!SlotType /\ OfThese(L!addNewUri(atIp, t, u), atIp, t, u)
    BY <1>1, EntryStored
  <2> QED
    BY <1>1, <2>1, <2>2 DEF OfThese
<1>3. CASE e # L!IS_NOT
  <2>1. {x \in L!Entry : s.uri[x].uriIndex = u} \in SUBSET Nat
    BY PeerRanges
  <2>2. e \in L!Entry /\ s.uri[e].uriIndex = u
    BY <1>3, <2>1, PeerFinds DEF L!uriIsExist
  <2>3. L!renewed(s, t, u, ip) = [atIp EXCEPT !.uri[e].token = t]
    BY <1>3 DEF L!renewed
  <2> HIDE DEF e, atIp
  <2> QED
    BY <1>1, <2>2, <2>3 DEF OfThese, L!SlotType, L!EntryType
<1> QED
  BY <1>2, <1>3

LEMMA SlotEnrolled ==
  ASSUME NEW s \in L!SlotType, NEW t \in Token, NEW u \in Uri, NEW ip \in MyIp
  PROVE  /\ L!enrolled(s, t, u, ip, Me) \in L!SlotType
         /\ OfThese(L!enrolled(s, t, u, ip, Me), s, t, u)
<1> DEFINE d == L!addNewDevice(s, Me, ip)
<1>1. d \in L!SlotType /\ d.uri = s.uri
  BY DEF L!addNewDevice, L!saveDeviceNameFull, L!SlotType
<1>2. L!addNewUri(d, t, u) \in L!SlotType /\ OfThese(L!addNewUri(d, t, u), d, t, u)
  BY <1>1, EntryStored
<1>3. L!enrolled(s, t, u, ip, Me) = L!addNewUri(d, t, u)
  BY DEF L!enrolled
<1> HIDE DEF d
<1> QED
  BY <1>1, <1>2, <1>3 DEF OfThese

LEMMA PeerStores ==
  ASSUME NEW l \in L!ListType, NEW t \in Token, NEW u \in Uri, NEW ip \in MyIp
  PROVE  /\ L!subscribeList(l, t, u, ip, Me) \in L!ListType
         /\ \A d \in L!Slot : OfThese(L!subscribeList(l, t, u, ip, Me)[d], l[d], t, u)
<1> DEFINE r == L!subscribeList(l, t, u, ip, Me)
           d == L!devNameFullIsExist(l, Me)
           f == L!spaceDevNameIsFree(l)
<1>1. \A s : OfThese(s, s, t, u)
  BY DEF OfThese
<1>2. ASSUME NEW c \in L!Slot, NEW s \in L!SlotType, OfThese(s, l[c], t, u),
             r = [l EXCEPT ![c] = s]
      PROVE  r \in L!ListType /\ \A b \in L!Slot : OfThese(r[b], l[b], t, u)
  <2> HIDE DEF r
  <2>1. r \in L!ListType
    BY <1>2 DEF L!ListType
  <2>2. \A b \in L!Slot : r[b] = IF b = c THEN s ELSE l[b]
    BY <1>2 DEF L!ListType
  <2> QED
    BY <1>1, <1>2, <2>1, <2>2
<1>3. CASE r = l
  BY <1>1, <1>3
<1>4. CASE d # L!IS_NOT /\ r = [l EXCEPT ![d] = L!renewed(l[d], t, u, ip)]
  <2>1. {x \in L!Slot : l[x].taken /\ l[x].name = Me} \in SUBSET Nat
    BY PeerRanges
  <2>2. d \in L!Slot
    BY <1>4, <2>1, PeerFinds DEF L!devNameFullIsExist
  <2>3. l[d] \in L!SlotType
    BY <2>2 DEF L!ListType
  <2> DEFINE s == L!renewed(l[d], t, u, ip)
  <2>4. s \in L!SlotType /\ OfThese(s, l[d], t, u)
    BY <2>3, SlotRenewed
  <2> HIDE DEF d, r, s
  <2>5. r = [l EXCEPT ![d] = s]
    BY <1>4 DEF s
  <2>6. r \in L!ListType /\ \A b \in L!Slot : OfThese(r[b], l[b], t, u)
    BY <1>2, <2>2, <2>4, <2>5
  <2> QED
    BY <2>6 DEF r
<1>5. CASE f # L!LIST_FULL /\ r = [l EXCEPT ![f] = L!enrolled(l[f], t, u, ip, Me)]
  <2>1. {x \in L!Slot : ~l[x].taken} \in SUBSET Nat
    BY PeerRanges
  <2>2. f \in L!Slot
    BY <1>5, <2>1, PeerFinds DEF L!spaceDevNameIsFree
  <2>3. l[f] \in L!SlotType
    BY <2>2 DEF L!ListType
  <2> DEFINE s == L!enrolled(l[f], t, u, ip, Me)
  <2>4. s \in L!SlotType /\ OfThese(s, l[f], t, u)
    BY <2>3, SlotEnrolled
  <2> HIDE DEF f, r, s
  <2>5. r = [l EXCEPT ![f] = s]
    BY <1>5 DEF s
  <2>6. r \in L!ListType /\ \A b \in L!Slot : OfThese(r[b], l[b], t, u)
    BY <1>2, <2>2, <2>4, <2>5
  <2> QED
    BY <2>6 DEF r
<1>6. \/ r = l
      \/ d # L!IS_NOT /\ r = [l EXCEPT ![d] = L!renewed(l[d], t, u, ip)]
      \/ f # L!LIST_FULL /\ r = [l EXCEPT ![f] = L!enrolled(l[f], t, u, ip, Me)]
  BY DEF L!subscribeList
<1> QED
  BY <1>3, <1>4, <1>5, <1>6

------------------------------------------------------------------------------
(* The parts of the invariant.                                             *)

(* No place says more of a token than some place has said. *)
SaysNoMore == \A t \in Token, u \in Uri : Says(t, u)' => Says(t, u)

LEMMA Collected ==
  ASSUME OneUriPerToken, IInv', NetOK', FreeHasNoTokens', SaysNoMore
  PROVE  ObsInv'
  BY DEF ObsInv, OneUriPerToken, SaysNoMore

LEMMA Given ==
  ASSUME ObsInv
  PROVE  /\ IInv /\ NetOK /\ FreeHasNoTokens /\ OneUriPerToken
         /\ list \in [Slot -> DeviceType]
         /\ pt \in TaskType /\ ot \in HandlerType
         /\ token \in Token \cup {NoToken}
         /\ myIp \in MyIp /\ peerIp \in PeerIp
         /\ toPeer \in Seq(PeerMsg) /\ toMe \in Seq(MeMsg)
         /\ subList \in L!ListType
  BY Before DEF ObsInv, NetOK, ListOK

LEMMA ThreadsStep ==
  ASSUME ObsInv, [Next]_vars
  PROVE  IInv'
  BY NextIInv DEF ObsInv

(* What is left alone says what it said. *)
LEMMA Unsaid ==
  ASSUME NEW t, NEW u
  PROVE  /\ UNCHANGED list => (ListSays(t, u)' => ListSays(t, u))
         /\ UNCHANGED <<ot, token>> => (HandlerSays(t, u)' => HandlerSays(t, u))
         /\ UNCHANGED toPeer => (RequestSays(t, u)' => RequestSays(t, u))
         /\ UNCHANGED subList => (PeerSays(t, u)' => PeerSays(t, u))
         /\ UNCHANGED toMe => (EventSays(t, u)' => EventSays(t, u))
<1>1. UNCHANGED list => (ListSays(t, u)' => ListSays(t, u))
  BY DEF ListSays
<1>2. UNCHANGED <<ot, token>> => (HandlerSays(t, u)' => HandlerSays(t, u))
  BY DEF HandlerSays
<1>3. UNCHANGED toPeer => (RequestSays(t, u)' => RequestSays(t, u))
  BY DEF RequestSays
<1>4. UNCHANGED subList => (PeerSays(t, u)' => PeerSays(t, u))
  BY DEF PeerSays
<1>5. UNCHANGED toMe => (EventSays(t, u)' => EventSays(t, u))
  BY DEF EventSays
<1> QED
  BY <1>1, <1>2, <1>3, <1>4, <1>5

LEMMA NetStays ==
  ASSUME NetOK
  PROVE  /\ /\ UNCHANGED <<subList, myIp, peerIp>>
            /\ toPeer' \in Seq(PeerMsg) /\ toMe' \in Seq(MeMsg)
            => NetOK'
         /\ UNCHANGED <<subList, myIp, peerIp, toPeer, toMe>> => NetOK'
  BY DEF NetOK

(* Steps that change names and tokens nowhere but in a slot they fill. *)
LEMMA ListStays ==
  ASSUME FreeHasNoTokens,
         \A d \in Slot :
           /\ \/ list'[d].taken = list[d].taken /\ list'[d].name = list[d].name
              \/ ~list[d].taken
           /\ \A e \in Entry : list'[d].uris[e].token = list[d].uris[e].token
  PROVE  FreeHasNoTokens' /\ \A t \in Token : \A u : ListSays(t, u)' => ListSays(t, u)
<1>1. FreeHasNoTokens'
  <2> SUFFICES ASSUME NEW d \in Slot, NEW e \in Entry, ~list'[d].taken
               PROVE  list'[d].uris[e].token = NoToken
    BY DEF FreeHasNoTokens
  <2> QED
    BY DEF FreeHasNoTokens
<1>2. ASSUME NEW t \in Token, NEW u, ListSays(t, u)' PROVE ListSays(t, u)
  <2>1. PICK d \in Slot, e \in Entry : /\ list'[d].taken /\ list'[d].uris[e].token = t
                                       /\ u = Offers[list'[d].name][e + 1]
    BY <1>2 DEF ListSays
  <2>2. t # NoToken
    BY PairListAssumption
  <2>3. list[d].taken
    BY <2>1, <2>2 DEF FreeHasNoTokens
  <2> QED
    BY <2>1, <2>3 DEF ListSays
<1> QED
  BY <1>1, <1>2

LEMMA SameListStays ==
  ASSUME FreeHasNoTokens, UNCHANGED list
  PROVE  FreeHasNoTokens'
  BY DEF FreeHasNoTokens

(* Sending: the new messages say what some place says already. *)
LEMMA Requested ==
  ASSUME NetOK, NEW m \in Seq(PeerMsg), toPeer' = toPeer \o m,
         \A k \in DOMAIN m :
           m[k].kind # "get" /\ m[k].uri \in Uri => ListSays(m[k].token, m[k].uri)
  PROVE  /\ toPeer' \in Seq(PeerMsg)
         /\ \A t \in Token, u \in Uri : RequestSays(t, u)' => Says(t, u)
<1>1. /\ toPeer' \in Seq(PeerMsg)
      /\ \A k \in DOMAIN toPeer' : \/ \E j \in DOMAIN toPeer : toPeer'[k] = toPeer[j]
                                   \/ \E j \in DOMAIN m : toPeer'[k] = m[j]
  BY Places DEF NetOK
<1>2. ASSUME NEW t \in Token, NEW u \in Uri, RequestSays(t, u)' PROVE Says(t, u)
  <2>1. PICK k \in DOMAIN toPeer' :
          toPeer'[k].kind # "get" /\ toPeer'[k].token = t /\ toPeer'[k].uri = u
    BY <1>2 DEF RequestSays
  <2>2. CASE \E j \in DOMAIN toPeer : toPeer'[k] = toPeer[j]
    BY <2>1, <2>2 DEF Says, RequestSays
  <2>3. CASE \E j \in DOMAIN m : toPeer'[k] = m[j]
    BY <2>1, <2>3 DEF Says
  <2> QED
    BY <1>1, <2>2, <2>3
<1> QED
  BY <1>1, <1>2

(* Taking a message off. *)
LEMMA RequestTaken ==
  ASSUME NetOK, NEW n \in DOMAIN toPeer, toPeer' = RemoveAt(toPeer, n)
  PROVE  /\ toPeer' \in Seq(PeerMsg)
         /\ \A t, u : RequestSays(t, u)' => RequestSays(t, u)
<1>1. /\ toPeer' \in Seq(PeerMsg)
      /\ \A k \in DOMAIN toPeer' : \E j \in DOMAIN toPeer : toPeer'[k] = toPeer[j]
  BY RemoveAtProperties DEF NetOK
<1> QED
  BY <1>1 DEF RequestSays

LEMMA EventTaken ==
  ASSUME NetOK, NEW n \in DOMAIN toMe, toMe' = RemoveAt(toMe, n)
  PROVE  /\ toMe' \in Seq(MeMsg)
         /\ \A t, u : EventSays(t, u)' => EventSays(t, u)
<1>1. /\ toMe' \in Seq(MeMsg)
      /\ \A k \in DOMAIN toMe' : \E j \in DOMAIN toMe : toMe'[k] = toMe[j]
  BY RemoveAtProperties DEF NetOK
<1> QED
  BY <1>1 DEF EventSays

LEMMA Kinds ==
  /\ \A m \in PeerMsg :
       /\ m.from \in MyIp
       /\ m.kind # "get" => m.token \in Token /\ m.uri \in Uri \cup {NoUri}
  /\ \A m \in MeMsg :
       /\ m.kind = "announce" => m.from \in PeerIp
       /\ m.kind = "event" => m.token \in Token /\ m.uri \in Uri
  /\ \A ip \in PeerIp, to \in MyIp : [kind |-> "announce", from |-> ip, to |-> to] \in MeMsg
  /\ \A to \in MyIp : [kind |-> "uris", to |-> to] \in MeMsg
  BY DEF PeerMsg, MeMsg, EventMsg

(* A message of another kind says nothing of tokens. *)
LEMMA AnswerSaysNothing ==
  ASSUME NetOK, NEW s \in Seq(MeMsg), NEW m \in MeMsg, m.kind # "event",
         s = toMe \/ s = << >>, toMe' = Append(s, m)
  PROVE  /\ toMe' \in Seq(MeMsg)
         /\ \A t, u : EventSays(t, u)' => EventSays(t, u)
<1>1. /\ toMe' \in Seq(MeMsg)
      /\ \A k \in DOMAIN toMe' : toMe'[k] = m \/ \E j \in DOMAIN s : toMe'[k] = s[j]
  BY Appended
<1>2. \A k \in DOMAIN toMe' : toMe'[k] = m \/ \E j \in DOMAIN toMe : toMe'[k] = toMe[j]
  BY <1>1
<1> QED
  BY <1>1, <1>2 DEF EventSays

------------------------------------------------------------------------------
(* The steps of the pair task.                                             *)

(* What an entry has a token for is what its place in the list says. *)
LEMMA EntrySays ==
  ASSUME ObsInv, NEW d \in Slot, NEW e \in Entry,
         list[d].uris[e].uri \in Uri
  PROVE  ListSays(list[d].uris[e].token, list[d].uris[e].uri)
<1>1. list[d].uris[e].uri # NoUri
  BY PairListAssumption
<1>2. list[d].taken /\ list[d].uris[e].uri = Offers[list[d].name][e + 1]
  BY <1>1 DEF ObsInv, IInv, OwnUris
<1> QED
  BY <1>2 DEF ListSays

(* A thread that moves and sends nothing. *)
LEMMA SilentTask ==
  ASSUME ObsInv,
         Receive \/ AddNew \/ AddRefused \/ AddKnown \/ ipAddressUpdate,
         silent, UNCHANGED <<subList, addresses, counters>>
  PROVE  ObsInv'
<1>1. UNCHANGED <<subList, myIp, peerIp, toPeer, toMe, ot, token>>
  BY DEF silent, addresses, Receive, AddNew, AddRefused, AddKnown, ipAddressUpdate
<1>2. IInv'
  BY ThreadsStep DEF Next, PairTask
<1>3. NetOK'
  BY <1>1, Given, NetStays
<1>4. \A d \in Slot :
        /\ \/ list'[d].taken = list[d].taken /\ list'[d].name = list[d].name
           \/ ~list[d].taken
        /\ \A e \in Entry : list'[d].uris[e].token = list[d].uris[e].token
  <2>1. CASE UNCHANGED list
    BY <2>1
  <2>2. CASE AddNew
    <3> DEFINE d == DeviceAdd(list, pt.name, pt.ip)
    <3>1. d \in Slot /\ ~list[d].taken
      BY <2>2, AddedToFreeSlot DEF AddNew
    <3>2. list' = spaceTake(list, d, pt.name, pt.ip)
      BY <2>2 DEF AddNew
    <3> HIDE DEF d
    <3>3. list' = [list EXCEPT ![d] = [list[d] EXCEPT !.name = pt.name, !.ip = pt.ip,
                                                      !.taken = TRUE]]
      BY <3>1, <3>2, Given DEF spaceTake, DeviceType
    <3>4. \A c \in Slot : c # d => list'[c] = list[c]
      BY <3>1, <3>3, Given
    <3>5. list'[d].uris = list[d].uris
      BY <3>1, <3>3, Given DEF DeviceType
    <3> QED
      BY <3>1, <3>4, <3>5
  <2>3. ASSUME NEW d \in Slot, NEW ip, list' = [list EXCEPT ![d].ip = ip]
        PROVE  \A c \in Slot :
                 /\ list'[c].taken = list[c].taken /\ list'[c].name = list[c].name
                 /\ list'[c].uris = list[c].uris
    BY <2>3, Given DEF DeviceType
  <2>4. CASE AddKnown
    <3>1. DeviceIsExist(list, pt.name) \in Slot
      BY <2>4, ListSearch DEF AddKnown
    <3> QED
      BY <2>1, <2>3, <2>4, <3>1 DEF AddKnown
  <2>5. CASE ipAddressUpdate
    <3>1. pt.slot \in Slot
      BY Given DEF TaskType
    <3> QED
      BY <2>3, <2>5, <3>1 DEF ipAddressUpdate
  <2> QED
    BY <2>1, <2>2, <2>4, <2>5 DEF Receive, AddRefused
<1>5. FreeHasNoTokens' /\ \A t \in Token : \A u : ListSays(t, u)' => ListSays(t, u)
  BY <1>4, Given, ListStays
<1>6. SaysNoMore
  BY <1>1, <1>5, Unsaid DEF SaysNoMore, Says
<1> QED
  BY <1>2, <1>3, <1>5, <1>6, Given, Collected

(* A step that sends messages which say what is known, and changes nothing  *)
(* else that speaks of tokens.                                              *)
LEMMA Sending ==
  ASSUME ObsInv, IInv', UNCHANGED <<list, ot, token, subList, peerIp, toMe>>,
         myIp' \in MyIp, NEW m \in Seq(PeerMsg), toPeer' = toPeer \o m,
         \A k \in DOMAIN m :
           m[k].kind # "get" /\ m[k].uri \in Uri => ListSays(m[k].token, m[k].uri)
  PROVE  ObsInv'
<1>1. /\ toPeer' \in Seq(PeerMsg)
      /\ \A t \in Token, u \in Uri : RequestSays(t, u)' => Says(t, u)
  BY Given, Requested
<1>2. NetOK'
  BY <1>1, Given DEF NetOK
<1>3. SaysNoMore
  BY <1>1, Unsaid DEF SaysNoMore, Says
<1> QED
  BY <1>2, <1>3, Given, SameListStays, Collected

LEMMA RenewSends ==
  ASSUME ObsInv, subSendRequest, send(subSendRequestMessages(myIp)), UNCHANGED toMe,
         UNCHANGED <<subList, addresses, counters>>
  PROVE  ObsInv'
<1> DEFINE m == subSendRequestMessages(myIp)
           entry == list[pt.slot].uris[pt.uri]
<1>1. UNCHANGED <<list, ot, token, subList, myIp, peerIp, toMe>> /\ toPeer' = toPeer \o m
  BY DEF subSendRequest, send, addresses
<1>2. IInv'
  BY ThreadsStep DEF Next, PairTask
<1>3. pt.slot \in Slot /\ pt.uri \in Entry /\ list[pt.slot] \in DeviceType
  BY Given DEF TaskType
<1>4. /\ entry.uri \in Uri \cup {NoUri} /\ entry.token \in Token \cup {NoToken}
      /\ list[pt.slot].ip \in Ip \cup {NoIp, TornIp}
  BY <1>3 DEF DeviceType
<1>5. /\ m \in Seq(PeerMsg)
      /\ \A k \in DOMAIN m :
           m[k].kind # "get" /\ m[k].uri \in Uri => ListSays(m[k].token, m[k].uri)
  <2>1. CASE entry.token = NoToken
    <3>1. m = << >>
      BY <2>1 DEF subSendRequestMessages, uriTokenIsValid
    <3> QED
      BY <3>1
  <2>2. CASE entry.token # NoToken
    <3> DEFINE r == [kind |-> "update", ip |-> list[pt.slot].ip, uri |-> entry.uri,
                     token |-> entry.token, from |-> myIp]
    <3>1. m = << r >>
      BY <2>2 DEF subSendRequestMessages, uriTokenIsValid
    <3>2. r \in PeerMsg
      BY <1>4, <2>2, Given DEF PeerMsg
    <3>3. r.uri \in Uri => ListSays(r.token, r.uri)
      BY <1>3, EntrySays
    <3> HIDE DEF r, m
    <3> QED
      BY <3>1, <3>2, <3>3, OneSeq
  <2> QED
    BY <2>1, <2>2
<1> HIDE DEF m
<1> QED
  BY <1>1, <1>2, <1>5, Given, Sending

LEMMA GetSends ==
  ASSUME ObsInv, SendGetUri_Well_known, UNCHANGED toMe,
         IF pending' = pending THEN UNCHANGED toPeer
         ELSE send(<< [kind |-> "get", ip |-> list[pt.slot].ip, from |-> myIp] >>),
         UNCHANGED <<subList, addresses, counters>>
  PROVE  ObsInv'
<1> DEFINE g == [kind |-> "get", ip |-> list[pt.slot].ip, from |-> myIp]
<1>1. UNCHANGED <<list, ot, token, subList, myIp, peerIp, toMe>>
  BY DEF SendGetUri_Well_known, addresses
<1>2. IInv'
  BY ThreadsStep DEF Next, PairTask
<1>3. g \in PeerMsg /\ g.kind = "get"
  <2>1. list[pt.slot].ip \in Ip \cup {NoIp, TornIp}
    BY Given DEF TaskType, DeviceType
  <2> QED
    BY <2>1, Given DEF PeerMsg
<1>4. CASE UNCHANGED toPeer
  <2>1. toPeer' = toPeer \o << >> /\ << >> \in Seq(PeerMsg)
    BY <1>4, Given
  <2>2. \A k \in DOMAIN << >> : << >>[k].kind = "get"
    OBVIOUS
  <2> QED
    BY <1>1, <1>2, <2>1, <2>2, Given, Sending
<1>5. CASE send(<< g >>)
  <2>1. toPeer' = toPeer \o << g >>
    BY <1>5 DEF send
  <2> HIDE DEF g
  <2>2. << g >> \in Seq(PeerMsg) /\ \A k \in DOMAIN << g >> : << g >>[k].kind = "get"
    BY <1>3, OneSeq
  <2> QED
    BY <1>1, <1>2, <2>1, <2>2, Given, Sending
<1> QED
  BY <1>4, <1>5

LEMMA TaskKeeps == ASSUME ObsInv, PairTaskStep PROVE ObsInv'
  BY SilentTask, RenewSends, GetSends DEF PairTaskStep

------------------------------------------------------------------------------
(* The steps of the OpenThread thread.                                     *)

(* A drawn token is new everywhere, so it is for one URI. *)
LEMMA DrawnIsNew ==
  ASSUME ObsInv, ~SendFails, sendSubscribeRequest,
         token' = token \/ token' \notin TokensAbout
  PROVE  token' \in Token /\ \A u \in Uri : ~Says(token', u)
<1>1. token' \in Token /\ token' \notin InUse
  BY DEF sendSubscribeRequest
<1>2. token' \notin TokensAbout
  BY <1>1 DEF InUse
<1>3. ot.at = "send"
  BY DEF sendSubscribeRequest
<1>4. ASSUME NEW u \in Uri PROVE ~Says(token', u)
  <2>1. ~ListSays(token', u)
    BY <1>1 DEF ListSays, InUse
  <2>2. ~HandlerSays(token', u)
    BY <1>3 DEF HandlerSays
  <2>3. ~RequestSays(token', u)
    BY <1>2 DEF RequestSays, TokensAbout
  <2>4. ~EventSays(token', u)
    BY <1>2 DEF EventSays, TokensAbout
  <2>5. ~PeerSays(token', u)
    BY <1>2 DEF PeerSays, TokensAbout, L!Entry, Entry
  <2> QED
    BY <2>1, <2>2, <2>3, <2>4, <2>5 DEF Says
<1> QED
  BY <1>1, <1>4

LEMMA Offered ==
  ASSUME NEW n \in Name, NEW e \in Entry, e < Len(Offers[n])
  PROVE  Offers[n][e + 1] \in Uri
<1>1. Offers[n] \in Seq(Uri) /\ Len(Offers[n]) \in Nat /\ e \in Nat
  BY PairAssumption, LenProperties, Ranges
<1>2. e + 1 \in 1 .. Len(Offers[n])
  BY <1>1
<1> QED
  BY <1>1, <1>2, ElementOfSeq

LEMMA DrawSends ==
  ASSUME ObsInv, ~SendFails, sendSubscribeRequest,
         token' = token \/ token' \notin TokensAbout,
         IF token' = token THEN UNCHANGED toPeer
         ELSE send(<< sendSubscribeRequestMessage(myIp) >>),
         UNCHANGED toMe, UNCHANGED <<subList, addresses, counters>>
  PROVE  ObsInv'
<1> DEFINE w == Offers[ot.from][ot.uri + 1]
           m == sendSubscribeRequestMessage(myIp)
<1>1. /\ UNCHANGED <<list, subList, myIp, peerIp, toMe>>
      /\ ot.at = "send" /\ ot' = [ot EXCEPT !.at = "token"]
      /\ token' \in Token \ InUse
  BY DEF sendSubscribeRequest, addresses
<1>2. IInv'
  BY ThreadsStep DEF Next, Handler
<1>3. token' \in Token /\ \A u \in Uri : ~Says(token', u)
  BY DrawnIsNew
<1>4. toPeer' = toPeer \o << m >>
  BY <1>1 DEF send, InUse
<1>5. w \in Uri
  <2>1. ot.from \in Name /\ ot.uri < Len(Offers[ot.from]) /\ ot.uri \in Entry
    BY <1>1, Given, AtEntry
  <2> QED
    BY <2>1, Offered
<1>6. m \in PeerMsg /\ m.token = token' /\ m.uri = w
  <2>1. list[ot.slot].ip \in Ip \cup {NoIp, TornIp}
    BY Given DEF HandlerType, DeviceType
  <2> QED
    BY <1>3, <1>5, <2>1, Given DEF sendSubscribeRequestMessage, PeerMsg
<1> HIDE DEF m
<1>7. /\ toPeer' \in Seq(PeerMsg)
      /\ \A k \in DOMAIN toPeer' : \/ \E j \in DOMAIN toPeer : toPeer'[k] = toPeer[j]
                                   \/ toPeer'[k] = m
  <2>1. << m >> \in Seq(PeerMsg) /\ \A j \in DOMAIN << m >> : << m >>[j] = m
    BY <1>6, OneSeq
  <2> QED
    BY <1>4, <2>1, Given, Places
<1>8. NetOK'
  BY <1>1, <1>7, Given DEF NetOK
<1>9. ASSUME NEW t \in Token, NEW u \in Uri, Says(t, u)'
      PROVE  Says(t, u) \/ (t = token' /\ u = w)
  <2>1. CASE ListSays(t, u)' \/ PeerSays(t, u)' \/ EventSays(t, u)'
    BY <1>1, <2>1, Unsaid DEF Says
  <2>2. CASE HandlerSays(t, u)'
    <3>1. ot'.from = ot.from /\ ot'.uri = ot.uri
      BY <1>1, Given DEF HandlerType
    <3> QED
      BY <2>2, <3>1 DEF HandlerSays
  <2>3. CASE RequestSays(t, u)'
    BY <1>6, <1>7, <2>3 DEF RequestSays, Says
  <2> QED
    BY <1>9, <2>1, <2>2, <2>3 DEF Says
<1> HIDE DEF w
<1>10. OneUriPerToken'
  <2> SUFFICES ASSUME NEW t \in Token, NEW u \in Uri, NEW v \in Uri,
                      Says(t, u)', Says(t, v)'
               PROVE  u = v
    BY DEF OneUriPerToken
  <2>1. CASE t = token'
    BY <1>3, <1>9, <2>1
  <2>2. CASE t # token'
    <3>1. Says(t, u) /\ Says(t, v)
      BY <1>9, <2>2
    <3> QED
      BY <3>1, Given DEF OneUriPerToken
  <2> QED
    BY <2>1, <2>2
<1> QED
  BY <1>1, <1>2, <1>8, <1>10, Given, SameListStays DEF ObsInv

LEMMA NextSaysNothing ==
  ASSUME ObsInv, nextUri
  PROVE  \A t, u : ~HandlerSays(t, u)'
<1>1. ot'.at \in {"send", "idle"}
  <2>1. CASE ot.uri + 1 < Len(Offers[ot.from])
    BY <2>1, Given DEF nextUri, HandlerType
  <2>2. CASE ~(ot.uri + 1 < Len(Offers[ot.from]))
    BY <2>2 DEF nextUri, OtIdle
  <2> QED
    BY <2>1, <2>2
<1> QED
  BY <1>1 DEF HandlerSays

(* The token of the handler goes to the entry of its URI. *)
LEMMA TokenStored ==
  ASSUME ObsInv, uriAddToken, silent, UNCHANGED <<subList, addresses, counters>>
  PROVE  ObsInv'
<1>1. UNCHANGED <<subList, myIp, peerIp, toPeer, toMe, token>> /\ ot.at = "token"
  BY DEF silent, addresses, uriAddToken
<1>2. IInv'
  BY ThreadsStep DEF Next, Handler
<1>3. NetOK'
  BY <1>1, Given, NetStays
<1>4. CASE uriTokenIsValid(token)
  <2>1. /\ ot.slot \in Slot /\ ot.uri \in Entry
        /\ list[ot.slot].taken /\ list[ot.slot].name = ot.from
    BY <1>1, Given, AtEntry DEF Holds
  <2> DEFINE new == [list[ot.slot].uris[ot.uri] EXCEPT !.token = token]
  <2>2. list' = WithToken(ot.slot, ot.uri, token)
    BY <1>4 DEF uriAddToken, WithToken
  <2>3. list[ot.slot].uris[ot.uri] \in EntryType
    BY <2>1, Given, Before, EntryOf
  <2>4. new.token = token
    BY <2>3 DEF EntryType
  <2>5. ListOK /\ token \in Token \cup {NoToken}
    BY Given, Before
  <2>6. new \in EntryType /\ list' = WithEntry(ot.slot, ot.uri, new)
    BY <2>1, <2>2, <2>5, EntryOf
  <2> HIDE DEF new
  <2>7. /\ \A c \in Slot :
             list'[c].taken = list[c].taken /\ list'[c].name = list[c].name
        /\ \A c \in Slot, f \in Entry :
             list'[c].uris[f] = IF c = ot.slot /\ f = ot.uri THEN new
                                ELSE list[c].uris[f]
    BY <2>1, <2>6, Given, Before, EntryWritten
  <2>8. FreeHasNoTokens'
    BY <2>1, <2>7, Given DEF FreeHasNoTokens
  <2>9. ot'.at = "uri" /\ ot'.from = ot.from /\ ot'.uri = ot.uri
    BY <1>4, Given DEF uriAddToken, HandlerType
  <2>10. ASSUME NEW t \in Token, NEW u \in Uri, ListSays(t, u)' PROVE Says(t, u)
    <3>1. PICK d \in Slot, e \in Entry : /\ list'[d].taken /\ list'[d].uris[e].token = t
                                         /\ u = Offers[list'[d].name][e + 1]
      BY <2>10 DEF ListSays
    <3>2. CASE d = ot.slot /\ e = ot.uri
      BY <1>1, <2>1, <2>4, <2>7, <3>1, <3>2 DEF Says, HandlerSays
    <3>3. CASE ~(d = ot.slot /\ e = ot.uri)
      BY <2>7, <3>1, <3>3 DEF Says, ListSays
    <3> QED
      BY <3>2, <3>3
  <2>11. \A t, u : HandlerSays(t, u)' => HandlerSays(t, u)
    BY <1>1, <2>9 DEF HandlerSays
  <2>12. SaysNoMore
    BY <1>1, <2>10, <2>11, Unsaid DEF SaysNoMore, Says
  <2> QED
    BY <1>2, <1>3, <2>8, <2>12, Given, Collected
<1>5. CASE ~uriTokenIsValid(token)
  <2>1. UNCHANGED list /\ nextUri
    BY <1>5 DEF uriAddToken
  <2>2. SaysNoMore
    BY <1>1, <2>1, NextSaysNothing, Unsaid DEF SaysNoMore, Says
  <2> QED
    BY <1>2, <1>3, <2>1, <2>2, Given, SameListStays, Collected
<1> QED
  BY <1>4, <1>5

LEMMA UriStored ==
  ASSUME ObsInv, uriAddUri, silent, UNCHANGED <<subList, addresses, counters>>
  PROVE  ObsInv'
<1>1. UNCHANGED <<subList, myIp, peerIp, toPeer, toMe, token>> /\ ot.at = "uri"
  BY DEF silent, addresses, uriAddUri
<1>2. IInv'
  BY ThreadsStep DEF Next, Handler
<1>3. NetOK'
  BY <1>1, Given, NetStays
<1>4. /\ ot.slot \in Slot /\ ot.uri \in Entry /\ ot.from \in Name
      /\ ot.uri < Len(Offers[ot.from])
  BY <1>1, Given, AtEntry
<1> DEFINE u == Offers[ot.from][ot.uri + 1]
           new == [list[ot.slot].uris[ot.uri] EXCEPT !.uri = u]
<1>5. u \in Uri
  BY <1>4, Offered
<1>6. list' = WithUri(ot.slot, ot.uri, u)
  BY DEF uriAddUri, WithUri
<1> HIDE DEF u
<1>7. list[ot.slot].uris[ot.uri] \in EntryType
  BY <1>4, Given, Before, EntryOf
<1>8. new.token = list[ot.slot].uris[ot.uri].token
  BY <1>7 DEF EntryType
<1>9. new \in EntryType /\ list' = WithEntry(ot.slot, ot.uri, new)
  BY <1>4, <1>5, <1>6, Given, Before, EntryOf
<1> HIDE DEF new
<1>10. /\ \A c \in Slot :
           list'[c].taken = list[c].taken /\ list'[c].name = list[c].name
      /\ \A c \in Slot, f \in Entry :
           list'[c].uris[f] = IF c = ot.slot /\ f = ot.uri THEN new ELSE list[c].uris[f]
  BY <1>4, <1>9, Given, Before, EntryWritten
<1>11. FreeHasNoTokens' /\ \A t \in Token : \A v : ListSays(t, v)' => ListSays(t, v)
  BY <1>8, <1>10, Given, ListStays
<1>12. nextUri
  BY DEF uriAddUri
<1>13. SaysNoMore
  BY <1>1, <1>11, <1>12, NextSaysNothing, Unsaid DEF SaysNoMore, Says
<1> QED
  BY <1>2, <1>3, <1>11, <1>13, Given, Collected

LEMMA HandlerKeeps == ASSUME ObsInv, ~SendFails, HandlerStep PROVE ObsInv'
  BY DrawSends, TokenStored, UriStored DEF HandlerStep

(* A step of the controller that writes no list and no token.              *)
LEMMA QuietStep ==
  ASSUME ObsInv, [Next]_vars, UNCHANGED <<list, token, subList, myIp, peerIp, toPeer>>,
         UNCHANGED ot \/ ot'.at = "send",
         toMe' \in Seq(MeMsg), \A t, u : EventSays(t, u)' => EventSays(t, u)
  PROVE  ObsInv'
<1>1. NetOK'
  BY Given, NetStays
<1>2. \A t, u : HandlerSays(t, u)' => HandlerSays(t, u)
  BY DEF HandlerSays
<1>3. SaysNoMore
  BY <1>2, Unsaid DEF SaysNoMore, Says
<1> QED
  BY <1>1, <1>3, ThreadsStep, Given, SameListStays, Collected

LEMMA ReceiveKeeps ==
  ASSUME ObsInv, NEW n \in DOMAIN toMe, MeReceives(n) PROVE ObsInv'
<1> PICK m : m = toMe[n]
  OBVIOUS
<1>1. /\ toMe' = RemoveAt(toMe, n) /\ Deliver(m)
      /\ UNCHANGED <<subList, myIp, peerIp, toPeer>>
  BY DEF MeReceives, addresses
<1>2. m \in MeMsg
  BY Given
<1>3. toMe' \in Seq(MeMsg) /\ \A t, u : EventSays(t, u)' => EventSays(t, u)
  BY <1>1, Given, EventTaken
<1>4. CASE m.kind = "announce"
  <2>1. PICK ip : ip = m.from
    OBVIOUS
  <2>2. Peer \in Name /\ ip \in Addresses[Peer]
    BY <1>2, <1>4, <2>1, Kinds, ObserveAssumption
  <2>3. addToQueue(Peer, ip)
    BY <1>1, <1>4, <2>1 DEF Deliver
  <2>4. [Next]_vars
    BY <2>2, <2>3 DEF Next
  <2>5. UNCHANGED <<list, ot, token>>
    BY <2>3 DEF addToQueue
  <2> QED
    BY <1>1, <2>4, <2>5, <1>3, QuietStep
<1>5. CASE HandlerUriWellKnown(1) /\ pending # << >>
  <2>1. 1 \in DOMAIN pending
    BY <1>5, Given, Before
  <2>2. [Next]_vars
    BY <1>5, <2>1 DEF Next, Answer
  <2>3. UNCHANGED <<list, token>> /\ ot'.at = "send"
    BY <1>5 DEF HandlerUriWellKnown
  <2> QED
    BY <1>1, <2>2, <2>3, <1>3, QuietStep
<1>6. CASE UNCHANGED vars
  <2>1. UNCHANGED <<list, ot, token>>
    BY <1>6 DEF vars
  <2> QED
    BY <1>1, <1>6, <2>1, <1>3, QuietStep
<1> QED
  BY <1>1, <1>4, <1>5, <1>6 DEF Deliver

LEMMA LossKeeps == ASSUME ObsInv, NEW n \in DOMAIN toMe, LostToMe(n) PROVE ObsInv'
<1>1. /\ toMe' = RemoveAt(toMe, n)
      /\ UNCHANGED <<vars, list, ot, token, subList, myIp, peerIp, toPeer>>
  BY DEF LostToMe, addresses, vars
<1> QED
  BY <1>1, Given, EventTaken, QuietStep

LEMMA TimeoutKeeps == ASSUME ObsInv, GetTimeout PROVE ObsInv'
<1>1. /\ NoUris(1) /\ pending # << >>
      /\ UNCHANGED <<subList, myIp, peerIp, toPeer, toMe>>
  BY DEF GetTimeout, addresses
<1>2. 1 \in DOMAIN pending
  BY <1>1, Given, Before
<1>3. [Next]_vars
  BY <1>1, <1>2 DEF Next, Answer
<1>4. UNCHANGED <<list, ot, token>>
  BY <1>1 DEF NoUris
<1>5. toMe' \in Seq(MeMsg)
  BY <1>1, Given
<1> QED
  BY <1>1, <1>3, <1>4, <1>5, Unsaid, QuietStep

------------------------------------------------------------------------------
(* What happens to the two devices.                                        *)

(* A new address goes out with the tokens that the list has anyway. *)
LEMMA MoveKeeps == ASSUME ObsInv, NEW ip \in MyIp, Move(ip) PROVE ObsInv'
<1> DEFINE m == subSendUpdateIP(ip)
           Good == {r \in PeerMsg : r.kind # "get" /\ r.uri \in Uri
                                      => ListSays(r.token, r.uri)}
<1>1. /\ UNCHANGED <<vars, list, ot, token, subList, peerIp, toMe>>
      /\ myIp' = ip /\ toPeer' = toPeer \o m
  BY DEF Move, vars, send
<1>2. IInv'
  BY <1>1, ThreadsStep
<1>3. ASSUME NEW d \in 1 .. DevMax, NEW e \in 1 .. UriMax
      PROVE  updateOf(d - 1, e - 1, ip) \in Seq(Good)
  <2> DEFINE c == d - 1
             f == e - 1
  <2>1. c \in Slot /\ f \in Entry
    BY PairListAssumption DEF Slot, Entry
  <2> HIDE DEF c, f
  <2> DEFINE entry == list[c].uris[f]
             r == [kind |-> "update", ip |-> list[c].ip, uri |-> entry.uri,
                   token |-> entry.token, from |-> ip]
  <2>2. list[c] \in DeviceType
    BY <2>1, Given
  <2>3. /\ entry.uri \in Uri \cup {NoUri} /\ entry.token \in Token \cup {NoToken}
        /\ list[c].ip \in Ip \cup {NoIp, TornIp}
    BY <2>1, <2>2 DEF DeviceType
  <2>4. CASE list[c].taken /\ uriTokenIsValid(entry.token)
    <3>1. entry.token \in Token
      BY <2>3, <2>4 DEF uriTokenIsValid
    <3>2. r \in PeerMsg
      BY <2>3, <3>1 DEF PeerMsg
    <3>3. r.uri \in Uri => ListSays(r.token, r.uri)
      BY <2>1, EntrySays
    <3>4. updateOf(c, f, ip) = << r >>
      BY <2>4 DEF updateOf
    <3> HIDE DEF r
    <3>5. r \in Good
      BY <3>2, <3>3
    <3> HIDE DEF Good
    <3>6. << r >> \in Seq(Good)
      BY <3>5, OneSeq
    <3> QED
      BY <3>4, <3>6 DEF c, f
  <2>5. CASE ~(list[c].taken /\ uriTokenIsValid(entry.token))
    <3>1. updateOf(c, f, ip) = << >>
      BY <2>5 DEF updateOf
    <3> HIDE DEF Good, entry, r
    <3>2. << >> \in Seq(Good)
      OBVIOUS
    <3> QED
      BY <3>1, <3>2 DEF c, f
  <2> QED
    BY <2>4, <2>5
<1>4. Good \subseteq PeerMsg /\ \A r \in Good : r.kind # "get" /\ r.uri \in Uri
                                                   => ListSays(r.token, r.uri)
  OBVIOUS
<1> HIDE DEF Good
<1> DEFINE slot(d) == [e \in 1 .. UriMax |-> updateOf(d - 1, e - 1, ip)]
           all == [d \in 1 .. DevMax |-> FlattenSeq(slot(d))]
<1>5. DevMax \in Nat /\ UriMax \in Nat
  BY PairListAssumption
<1>6. ASSUME NEW d \in 1 .. DevMax PROVE FlattenSeq(slot(d)) \in Seq(Good)
  <2>1. slot(d) \in Seq(Seq(Good))
    BY <1>3, <1>5
  <2> HIDE DEF slot
  <2> QED
    BY <2>1, FlatIsSeq
<1>7. m = FlattenSeq(all)
  BY DEF subSendUpdateIP
<1> HIDE DEF slot, m
<1>8. all \in Seq(Seq(Good))
  BY <1>5, <1>6
<1> HIDE DEF all
<1>9. m \in Seq(Good)
  BY <1>7, <1>8, FlatIsSeq
<1>10. /\ m \in Seq(PeerMsg)
       /\ \A k \in DOMAIN m :
            m[k].kind # "get" /\ m[k].uri \in Uri => ListSays(m[k].token, m[k].uri)
  BY <1>4, <1>9
<1> QED
  BY <1>1, <1>2, <1>10, Sending

(* A step of the device leaves the controller's threads where they are.    *)
LEMMA DeviceStep ==
  ASSUME ObsInv, UNCHANGED vars, NetOK', SaysNoMore PROVE ObsInv'
<1>1. UNCHANGED list
  BY DEF vars
<1> QED
  BY <1>1, ThreadsStep, Given, SameListStays, Collected

LEMMA ThreadsSayTheSame ==
  ASSUME UNCHANGED vars, NEW t, NEW u
  PROVE  (ListSays(t, u) \/ HandlerSays(t, u))' => ListSays(t, u) \/ HandlerSays(t, u)
<1>1. UNCHANGED <<list, ot, token>>
  BY DEF vars
<1> QED
  BY <1>1, Unsaid

(* A subscription is kept as it was sent. *)
LEMMA PeerKeeps ==
  ASSUME ObsInv, NEW n \in DOMAIN toPeer, PeerReceives(n) PROVE ObsInv'
<1> PICK m : m = toPeer[n]
  OBVIOUS
<1>1. /\ toPeer' = RemoveAt(toPeer, n)
      /\ subList' = subscribed(m) /\ toMe' = answered(m)
      /\ UNCHANGED <<vars, myIp, peerIp>>
  BY DEF PeerReceives, addresses
<1>2. /\ toPeer' \in Seq(PeerMsg)
      /\ \A t, u : RequestSays(t, u)' => RequestSays(t, u)
  BY <1>1, Given, RequestTaken
<1>3. m \in PeerMsg
  BY Given
<1>4. /\ m.from \in MyIp
      /\ m.kind # "get" => m.token \in Token /\ m.uri \in Uri \cup {NoUri}
  BY <1>3, Kinds
<1>5. CASE m.ip = peerIp /\ m.kind = "get"
  <2> DEFINE a == [kind |-> "uris", to |-> m.from]
  <2>1. toMe' = Append(toMe, a) /\ UNCHANGED subList
    BY <1>1, <1>5 DEF subscribed, answered
  <2>2. a \in MeMsg /\ a.kind # "event"
    BY <1>4, Kinds
  <2> HIDE DEF a
  <2>3. /\ toMe' \in Seq(MeMsg)
        /\ \A t, u : EventSays(t, u)' => EventSays(t, u)
    BY <2>1, <2>2, Given, AnswerSaysNothing
  <2>4. NetOK'
    BY <1>1, <1>2, <2>1, <2>3, Given, NetStays
  <2>5. SaysNoMore
    BY <1>1, <1>2, <2>1, <2>3, ThreadsSayTheSame, Unsaid DEF SaysNoMore, Says
  <2> QED
    BY <1>1, <2>4, <2>5, DeviceStep
<1>6. CASE ~(m.ip = peerIp /\ m.kind = "get")
  <2>1. UNCHANGED toMe
    BY <1>1, <1>6 DEF answered
  <2>2. CASE UNCHANGED subList
    <3>1. NetOK'
      BY <1>1, <1>2, <2>1, <2>2, Given, NetStays
    <3>2. SaysNoMore
      BY <1>1, <1>2, <2>1, <2>2, ThreadsSayTheSame, Unsaid DEF SaysNoMore, Says
    <3> QED
      BY <1>1, <3>1, <3>2, DeviceStep
  <2>3. CASE /\ m.kind # "get" /\ m.uri # NoUri
             /\ subList' = L!subscribeList(subList, m.token, m.uri, m.from, Me)
    <3>1. m.token \in Token /\ m.uri \in Uri /\ m.from \in MyIp
      BY <1>4, <2>3
    <3>2. /\ subList' \in L!ListType
          /\ \A d \in L!Slot : OfThese(subList'[d], subList[d], m.token, m.uri)
      BY <2>3, <3>1, Given, PeerStores
    <3>3. \A d \in L!Slot, e \in L!Entry :
            subList'[d].uri[e].taken => subList'[d].uri[e].token \in Token
      BY <3>1, <3>2, Given DEF OfThese, NetOK
    <3>4. NetOK'
      BY <1>1, <1>2, <2>1, <3>2, <3>3, Given DEF NetOK
    <3>5. RequestSays(m.token, m.uri)
      BY <2>3 DEF RequestSays
    <3>6. ASSUME NEW t, NEW u, PeerSays(t, u)' PROVE PeerSays(t, u) \/ RequestSays(t, u)
      <4>1. PICK d \in L!Slot, e \in L!Entry :
              /\ subList'[d].uri[e].taken
              /\ subList'[d].uri[e].token = t /\ subList'[d].uri[e].uriIndex = u
        BY <3>6 DEF PeerSays
      <4>2. \/ /\ subList[d].uri[e].taken
               /\ subList[d].uri[e].token = t /\ subList[d].uri[e].uriIndex = u
            \/ t = m.token /\ u = m.uri
        BY <3>2, <4>1 DEF OfThese
      <4> QED
        BY <3>5, <4>2 DEF PeerSays
    <3>7. SaysNoMore
      BY <1>1, <1>2, <2>1, <3>6, ThreadsSayTheSame, Unsaid DEF SaysNoMore, Says
    <3> QED
      BY <1>1, <3>4, <3>7, DeviceStep
  <2> QED
    BY <1>1, <1>6, <2>2, <2>3 DEF subscribed
<1> QED
  BY <1>5, <1>6

LEMMA LossToPeerKeeps ==
  ASSUME ObsInv, NEW n \in DOMAIN toPeer, LostToPeer(n) PROVE ObsInv'
<1>1. toPeer' = RemoveAt(toPeer, n) /\ UNCHANGED <<vars, subList, myIp, peerIp, toMe>>
  BY DEF LostToPeer, addresses
<1>2. /\ toPeer' \in Seq(PeerMsg)
      /\ \A t, u : RequestSays(t, u)' => RequestSays(t, u)
  BY <1>1, Given, RequestTaken
<1>3. NetOK'
  BY <1>1, <1>2, Given, NetStays
<1>4. SaysNoMore
  BY <1>1, <1>2, ThreadsSayTheSame, Unsaid DEF SaysNoMore, Says
<1> QED
  BY <1>1, <1>3, <1>4, DeviceStep

(* The device announces itself at an address of its own.                   *)
LEMMA AnnounceKeeps == ASSUME ObsInv, NEW ip \in PeerIp, Announce(ip) PROVE ObsInv'
<1> DEFINE a == announcement(ip)
<1>1. /\ UNCHANGED <<vars, subList, myIp, toPeer>> /\ peerIp' = ip
      /\ toMe' = Append(toMe, a)
  BY DEF Announce
<1>2. a \in MeMsg /\ a.kind # "event"
  BY Given, Kinds DEF announcement
<1> HIDE DEF a
<1>3. toMe' \in Seq(MeMsg) /\ \A t, u : EventSays(t, u)' => EventSays(t, u)
  BY <1>1, <1>2, Given, AnswerSaysNothing
<1>4. NetOK'
  BY <1>1, <1>3, Given DEF NetOK
<1>5. SaysNoMore
  BY <1>1, <1>3, ThreadsSayTheSame, Unsaid DEF SaysNoMore, Says
<1> QED
  BY <1>1, <1>4, <1>5, DeviceStep

LEMMA ImageIsFinite ==
  ASSUME NEW S, IsFiniteSet(S), NEW f, DOMAIN f = S
  PROVE  IsFiniteSet({f[x] : x \in S})
<1> DEFINE T == {f[x] : x \in S}
           g == [x \in S |-> f[x]]
<1>1. g \in Surjection(S, T)
  BY DEF Surjection
<1> HIDE DEF T, g
<1>2. IsFiniteSet(T)
  BY <1>1, FS_Surjection
<1> QED
  BY <1>2 DEF T

LEMMA FewAreTold ==
  ASSUME NEW u
  PROVE  IsFiniteSet(L!notify(subList, Elsewhere, u))
<1> DEFINE P == {q \in L!Slot \X L!Entry :
                   /\ subList[q[1]].taken
                   /\ subList[q[1]].uri[q[2]].taken
                   /\ subList[q[1]].uri[q[2]].uriIndex = u
                   /\ subList[q[1]].ip # Elsewhere}
           f == [p \in P |-> [name |-> subList[p[1]].name, ip |-> subList[p[1]].ip,
                              token |-> subList[p[1]].uri[p[2]].token, from |-> p]]
<1>1. IsFiniteSet(L!Slot) /\ IsFiniteSet(L!Entry)
  <2>1. 0 \in Int /\ 1 - 1 \in Int /\ UriMax - 1 \in Int
    BY PairListAssumption
  <2> QED
    BY <2>1, FS_Interval DEF L!Slot, L!Entry
<1>2. IsFiniteSet(L!Slot \X L!Entry)
  BY <1>1, FS_Product
<1>3. P \in SUBSET (L!Slot \X L!Entry)
  OBVIOUS
<1>4. L!notify(subList, Elsewhere, u) = {f[p] : p \in P}
  BY DEF L!notify
<1>5. DOMAIN f = P
  OBVIOUS
<1> HIDE DEF P, f
<1>6. IsFiniteSet(P)
  BY <1>2, <1>3, FS_Subset
<1> QED
  BY <1>4, <1>5, <1>6, ImageIsFinite

(* A notification carries the token of a subscription to what happened.    *)
LEMMA EventKeeps == ASSUME ObsInv, NEW u \in Uri, Event(u) PROVE ObsInv'
<1> DEFINE told == L!notify(subList, Elsewhere, u)
           f == [n \in told |-> [kind |-> "event", to |-> n.ip, token |-> n.token,
                                 uri |-> u]]
           E == {f[n] : n \in told}
<1>1. UNCHANGED <<vars, subList, myIp, peerIp, toPeer>>
  BY DEF Event, addresses
<1>2. toMe' = toMe \o SetToSeq(E)
  BY DEF Event
<1>3. ASSUME NEW n \in told
      PROVE  f[n] \in MeMsg /\ PeerSays(f[n].token, u) /\ f[n].uri = u
  <2>1. PICK p \in L!Slot \X L!Entry :
          /\ subList[p[1]].uri[p[2]].taken
          /\ subList[p[1]].uri[p[2]].uriIndex = u
          /\ n.ip = subList[p[1]].ip
          /\ n.token = subList[p[1]].uri[p[2]].token
    BY DEF L!notify
  <2>2. p[1] \in L!Slot /\ p[2] \in L!Entry
    BY <2>1
  <2>3. subList[p[1]] \in L!SlotType
    BY <2>2, Given DEF L!ListType
  <2>4. n.ip \in MyIp \cup {NoIp}
    BY <2>1, <2>3 DEF L!SlotType
  <2>5. n.token \in Token
    BY <2>1, <2>2, Given DEF NetOK
  <2>6. f[n] = [kind |-> "event", to |-> n.ip, token |-> n.token, uri |-> u]
    OBVIOUS
  <2>7. f[n] \in EventMsg
    BY <2>4, <2>5, <2>6 DEF EventMsg
  <2>8. PeerSays(n.token, u)
    BY <2>1, <2>2 DEF PeerSays
  <2> QED
    BY <2>6, <2>7, <2>8 DEF MeMsg
<1>4. DOMAIN f = told
  OBVIOUS
<1> HIDE DEF told, f
<1>5. IsFiniteSet(E)
  BY <1>4, FewAreTold, ImageIsFinite DEF told
<1>6. \A e \in E : e \in MeMsg /\ PeerSays(e.token, u) /\ e.uri = u
  BY <1>3
<1> HIDE DEF E
<1>7. SetToSeq(E) \in Seq(E)
  BY <1>5, SetIsSeq
<1> DEFINE s == SetToSeq(E)
<1>8. s \in Seq(MeMsg) /\ \A k \in DOMAIN s : s[k] \in E
  BY <1>6, <1>7
<1>9. toMe' = toMe \o s
  BY <1>2
<1> HIDE DEF s
<1>10. /\ toMe' \in Seq(MeMsg)
       /\ \A k \in DOMAIN toMe' : \/ \E j \in DOMAIN toMe : toMe'[k] = toMe[j]
                                  \/ \E j \in DOMAIN s : toMe'[k] = s[j]
  <2>1. toMe \in Seq(MeMsg) /\ s \in Seq(MeMsg)
    BY <1>8, Given
  <2>2. /\ toMe \o s \in Seq(MeMsg)
        /\ \A k \in DOMAIN (toMe \o s) : \/ \E j \in DOMAIN toMe : (toMe \o s)[k] = toMe[j]
                                         \/ \E j \in DOMAIN s : (toMe \o s)[k] = s[j]
    BY <2>1, Places
  <2> QED
    BY <1>9, <2>2
<1>11. ASSUME NEW t, NEW v, EventSays(t, v)' PROVE EventSays(t, v) \/ PeerSays(t, v)
  <2>1. PICK k \in DOMAIN toMe' :
          toMe'[k].kind = "event" /\ toMe'[k].token = t /\ toMe'[k].uri = v
    BY <1>11 DEF EventSays
  <2>2. CASE \E j \in DOMAIN toMe : toMe'[k] = toMe[j]
    BY <2>1, <2>2 DEF EventSays
  <2>3. CASE \E j \in DOMAIN s : toMe'[k] = s[j]
    BY <1>6, <1>8, <2>1, <2>3
  <2> QED
    BY <1>10, <2>2, <2>3
<1>12. NetOK'
  BY <1>1, <1>10, Given, NetStays
<1>13. SaysNoMore
  BY <1>1, <1>11, ThreadsSayTheSame, Unsaid DEF SaysNoMore, Says
<1> QED
  BY <1>1, <1>12, <1>13, DeviceStep

LEMMA PeerListEmpty ==
  /\ L!EmptyList \in L!ListType
  /\ \A d \in L!Slot, e \in L!Entry : ~L!EmptyList[d].uri[e].taken
<1>1. L!EmptySlot \in L!SlotType
  BY DEF L!EmptySlot, L!SlotType, L!EmptyEntry, L!EntryType
<1> QED
  BY <1>1 DEF L!EmptyList, L!ListType, L!EmptySlot, L!EmptyEntry

(* A restart forgets: the device its subscribers...                        *)
LEMMA PeerRestartKeeps == ASSUME ObsInv, PeerRestarts PROVE ObsInv'
<1> DEFINE a == announcement(peerIp)
<1>1. /\ UNCHANGED <<vars, myIp, peerIp, toPeer>> /\ subList' = L!EmptyList
  BY DEF PeerRestarts, addresses
<1>2. PICK kept \in {<< >>, toMe} : toMe' = Append(kept, a)
  BY DEF PeerRestarts
<1>3. a \in MeMsg /\ a.kind # "event"
  BY Given, Kinds DEF announcement
<1> HIDE DEF a
<1>4. kept \in Seq(MeMsg)
  <2>1. << >> \in Seq(MeMsg) /\ toMe \in Seq(MeMsg)
    BY Given
  <2> QED
    BY <1>2, <2>1
<1>5. toMe' \in Seq(MeMsg) /\ \A t, u : EventSays(t, u)' => EventSays(t, u)
  BY <1>2, <1>3, <1>4, Given, AnswerSaysNothing
<1>6. NetOK'
  BY <1>1, <1>5, Given, PeerListEmpty DEF NetOK
<1>7. \A t, u : ~PeerSays(t, u)'
  BY <1>1, PeerListEmpty DEF PeerSays
<1>8. SaysNoMore
  BY <1>1, <1>5, <1>7, ThreadsSayTheSame, Unsaid DEF SaysNoMore, Says
<1> QED
  BY <1>1, <1>6, <1>8, DeviceStep

LEMMA OwnListEmpty ==
  \A d \in Slot, e \in Entry :
    ~EmptyList[d].taken /\ EmptyList[d].uris[e].token = NoToken
  BY DEF EmptyList, EmptySlot, EmptyEntry

(* ...the controller what it paired, and what was on the way to it.        *)
LEMMA RestartKeeps == ASSUME ObsInv, IRestart PROVE ObsInv'
<1> DEFINE a == announcement(peerIp)
<1>1. /\ UNCHANGED <<subList, myIp, peerIp, toPeer>> /\ list' = EmptyList
      /\ ot' = OtIdle /\ toMe' = << a >>
  BY DEF IRestart, addresses
<1>2. IInv'
  <2>1. Init'
    BY DEF IRestart, Init
  <2> QED
    BY <2>1, InitIInv, PTL
<1>3. a \in MeMsg /\ a.kind # "event"
  BY Given, Kinds DEF announcement
<1> HIDE DEF a
<1>4. toMe' \in Seq(MeMsg) /\ \A k \in DOMAIN toMe' : toMe'[k] = a
  BY <1>1, <1>3, OneSeq
<1>5. NetOK'
  BY <1>1, <1>4, Given, NetStays
<1>6. FreeHasNoTokens'
  BY <1>1, OwnListEmpty DEF FreeHasNoTokens
<1>7. \A t, u : ~ListSays(t, u)' /\ ~HandlerSays(t, u)' /\ ~EventSays(t, u)'
  BY <1>1, <1>3, <1>4, OwnListEmpty DEF ListSays, HandlerSays, EventSays, OtIdle
<1>8. SaysNoMore
  BY <1>1, <1>7, Unsaid DEF SaysNoMore, Says
<1> QED
  BY <1>2, <1>5, <1>6, <1>8, Given, Collected

------------------------------------------------------------------------------
LEMMA StartsSilent == ObsInit => ObsInv
<1> SUFFICES ASSUME ObsInit PROVE ObsInv
  OBVIOUS
<1>1. /\ Init /\ list = EmptyList /\ ot = OtIdle /\ subList = L!EmptyList
      /\ myIp \in MyIp /\ peerIp \in PeerIp /\ toPeer = << >> /\ toMe = << >>
  BY DEF ObsInit, Init
<1>2. IInv
  BY <1>1, InitIInv
<1>3. NetOK
  BY <1>1, PeerListEmpty DEF NetOK
<1>4. FreeHasNoTokens
  BY <1>1, OwnListEmpty DEF FreeHasNoTokens
<1>5. ASSUME NEW t, NEW u PROVE ~Says(t, u)
  BY <1>1, OwnListEmpty, PeerListEmpty
     DEF Says, ListSays, HandlerSays, RequestSays, PeerSays, EventSays, OtIdle
<1> QED
  BY <1>2, <1>3, <1>4, <1>5 DEF ObsInv, OneUriPerToken

LEMMA StepsKeep == ~SendFails /\ ObsInv /\ [ObsNext]_obsVars => ObsInv'
<1> SUFFICES ASSUME ~SendFails, ObsInv, [ObsNext]_obsVars PROVE ObsInv'
  OBVIOUS
<1>1. CASE ObsNext
  BY <1>1, TaskKeeps, HandlerKeeps, ReceiveKeeps, LossKeeps, TimeoutKeeps, MoveKeeps,
     PeerKeeps, LossToPeerKeeps, AnnounceKeeps, EventKeeps, PeerRestartKeeps, RestartKeeps DEF ObsNext
<1>2. CASE UNCHANGED obsVars
  <2>1. UNCHANGED <<vars, subList, myIp, peerIp, toPeer, toMe>>
    BY <1>2 DEF obsVars
  <2>2. NetOK'
    BY <2>1, Given, NetStays
  <2>3. SaysNoMore
    BY <2>1, ThreadsSayTheSame, Unsaid DEF SaysNoMore, Says
  <2> QED
    BY <2>1, <2>2, <2>3, DeviceStep
<1> QED
  BY <1>1, <1>2

(* Two places that have a token in common have it for the same URI, so the *)
(* entry that an event finds by its token is the entry of its URI.         *)
LEMMA Understood == ObsInv => EventsFindTheirUri
<1> SUFFICES ASSUME ObsInv, NEW k \in DOMAIN toMe, NEW d \in Slot, NEW e \in Entry,
                    toMe[k].kind = "event",
                    list[d].uris[e].token = toMe[k].token,
                    list[d].uris[e].uri # NoUri
             PROVE  list[d].uris[e].uri = toMe[k].uri
  BY DEF EventsFindTheirUri
<1> DEFINE t == toMe[k].token
           u == toMe[k].uri
           v == list[d].uris[e].uri
<1>1. toMe[k] \in MeMsg
  BY Given
<1>2. t \in Token /\ u \in Uri
  BY <1>1, Kinds
<1>3. v \in Uri
  BY Given DEF DeviceType
<1>4. Says(t, u)
  BY DEF Says, EventSays
<1>5. Says(t, v)
  BY <1>3, EntrySays DEF Says
<1> HIDE DEF t, u, v
<1>6. u = v
  BY <1>2, <1>3, <1>4, <1>5, Given DEF OneUriPerToken
<1> QED
  BY <1>6 DEF u, v

(* As long as OpenThread has message buffers, the controller never takes a *)
(* notification for one of another URI.  Without, two subscriptions share  *)
(* a token (see TokensUnique of Pair).                                     *)
THEOREM EventsAreUnderstood ==
  ASSUME ~SendFails
  PROVE  ObsSpec => []EventsFindTheirUri
<1>1. ObsInv /\ [ObsNext]_obsVars => ObsInv'
  BY StepsKeep
<1> QED
  BY <1>1, StartsSilent, Understood, PTL DEF ObsSpec

------------------------------------------------------------------------------
(* What the two ends agree on.                                             *)

Served == {Offers[Peer][k] : k \in DOMAIN Offers[Peer]}

(* The controller knows no other device, and that one only if it may.      *)
OnlyPeer ==
  /\ \A d \in Slot : list[d].taken => list[d].name = Peer /\ Peer \in Allowed
  /\ \A k \in DOMAIN queue : queue[k].name = Peer
  /\ pt.at # "idle" => pt.name = Peer /\ Peer \in Allowed

OneAtATime == pt.at = "idle" \/ ot.at = "idle"

(* While the network is orderly and announcements are under way the last   *)
(* one has the device's address; then the list has it.  After a loss or an *)
(* overtaking nothing is claimed until the device announces itself again.  *)
NoNews == orderly /\ \A k \in DOMAIN toMe : toMe[k].kind # "announce"
Settled == NoNews /\ queue = << >> /\ pt.at \notin {"add", "moved"}

LastNews ==
  orderly => \A k \in DOMAIN toMe :
    /\ toMe[k].kind = "announce"
    /\ \A j \in DOMAIN toMe : j > k => toMe[j].kind # "announce"
    => toMe[k].from = peerIp
QueueIsLatest ==
  /\ NoNews /\ queue # << >> => queue[Len(queue)].ip = peerIp
  /\ NoNews /\ queue = << >> /\ pt.at \in {"add", "moved"} => pt.ip = peerIp
ListIsLatest == Settled => \A d \in Slot : list[d].taken => list[d].ip = peerIp

(* Only the entry the handler is at has a token without a URI.             *)
HandlerIsAt(d, e) == d = ot.slot /\ e = ot.uri
TokensHaveUris ==
  /\ ot.at \in {"token", "uri"} => token \in Token
  /\ ot.at = "uri" => list[ot.slot].uris[ot.uri].token = token
  /\ \A d \in Slot, e \in Entry :
       list[d].uris[e].token # NoToken /\ list[d].uris[e].uri = NoUri
         => ot.at = "uri" /\ HandlerIsAt(d, e)

(* What the device is sent and what it keeps are URIs of its own, so there *)
(* is room for them.                                                       *)
OwnMessages ==
  \A k \in DOMAIN toPeer : toPeer[k].kind # "get" => toPeer[k].uri \in Served
PeerSlotOK(s) ==
  /\ IF s.taken THEN s.name = Me ELSE s = L!EmptySlot
  /\ \A e \in L!Entry : IF s.uri[e].taken THEN s.uri[e].uriIndex \in Served
                        ELSE s.uri[e] = L!EmptyEntry
  /\ \A e1, e2 \in L!Entry :
       /\ s.uri[e1].taken /\ s.uri[e2].taken
       /\ s.uri[e1].uriIndex = s.uri[e2].uriIndex
       => e1 = e2
PeerListOK == PeerSlotOK(subList[0])

(* Once the device has taken all that is under way, it has token t for u,  *)
(* and the controller's address: in the last message about it, or, with    *)
(* none under way, in its list.                                            *)
Has(s, u, t) ==
  \E e \in L!Entry :
    s.uri[e].taken /\ s.uri[e].uriIndex = u /\ s.uri[e].token = t
IsLast(s, k, Q) ==
  k \in DOMAIN s /\ s[k] \in Q /\ \A j \in DOMAIN s : j > k => s[j] \notin Q
Home(ip) == {m \in PeerMsg : m.kind # "get" /\ m.ip = ip}
About(ip, u) == {m \in Home(ip) : m.uri = u}

TokenArrives(u, t) ==
  /\ \A k \in DOMAIN toPeer : IsLast(toPeer, k, About(peerIp, u)) => toPeer[k].token = t
  /\ (\A k \in DOMAIN toPeer : toPeer[k] \notin About(peerIp, u)) => Has(subList[0], u, t)
AddressArrives ==
  /\ \A k \in DOMAIN toPeer : IsLast(toPeer, k, Home(peerIp)) => toPeer[k].from = myIp
  /\ (\A k \in DOMAIN toPeer : toPeer[k] \notin Home(peerIp))
       => subList[0].taken /\ subList[0].ip = myIp

(* That is so for every token of the controller, or for the one it is about*)
(* to store, except while renewal is still to come.                        *)
TokenOf(d, e) ==
  IF ot.at \in {"token", "uri"} /\ HandlerIsAt(d, e) THEN token
  ELSE list[d].uris[e].token
ToBeRenewed(e) == pt.at = "resend" /\ pt.uri <= e
Agreed ==
  Settled => \A d \in Slot, e \in Entry, t \in Token :
    list[d].taken /\ TokenOf(d, e) = t /\ ~ToBeRenewed(e)
      => TokenArrives(Offers[Peer][e + 1], t) /\ AddressArrives

ThreadsOK == OnlyPeer /\ OneAtATime /\ TokensHaveUris
NewsOK == LastNews /\ QueueIsLatest /\ ListIsLatest
InStep == ThreadsOK /\ NewsOK /\ OwnMessages /\ PeerListOK /\ Agreed
SyncInv == ObsInv /\ InStep

------------------------------------------------------------------------------
(* The device's list has room for all it serves.                           *)

LEMMA ServedUris ==
  /\ Served \subseteq Uri /\ NoUri \notin Served
  /\ Offers[Peer] \in Seq(Uri) /\ Len(Offers[Peer]) \in Nat
  /\ Len(Offers[Peer]) <= UriMax
  /\ \A e \in Entry : e < Len(Offers[Peer]) =>
       e + 1 \in DOMAIN Offers[Peer] /\ Offers[Peer][e + 1] \in Served
<1>1. Offers[Peer] \in Seq(Uri) /\ Len(Offers[Peer]) \in 1 .. UriMax
  BY PairAssumption, ObserveAssumption
<1>2. DOMAIN Offers[Peer] = 1 .. Len(Offers[Peer])
  BY <1>1
<1>3. Len(Offers[Peer]) \in Nat /\ Len(Offers[Peer]) <= UriMax
  BY <1>1, Ranges
<1>4. Served \subseteq Uri
  BY <1>1 DEF Served
<1>5. ASSUME NEW e \in Entry, e < Len(Offers[Peer])
      PROVE  e + 1 \in DOMAIN Offers[Peer] /\ Offers[Peer][e + 1] \in Served
  <2>1. e + 1 \in DOMAIN Offers[Peer]
    BY <1>2, <1>3, <1>5, Ranges
  <2> QED
    BY <2>1 DEF Served
<1> QED
  BY <1>1, <1>3, <1>4, <1>5, PairListAssumption

LEMMA PeerShape ==
  /\ L!Slot = {0} /\ L!Entry = Entry
  /\ L!LIST_FULL \notin Entry /\ L!IS_NOT \notin Entry
  /\ L!LIST_FULL \notin L!Slot /\ L!IS_NOT \notin L!Slot
<1>1. L!Slot = 0 .. 0
  BY DEF L!Slot
<1> QED
  BY <1>1, Ranges DEF L!Entry, Entry, L!LIST_FULL, L!IS_NOT

LEMMA RoomForServed ==
  ASSUME NEW s, PeerSlotOK(s), NEW u \in Served,
         \A e \in Entry : s.uri[e].uriIndex # u
  PROVE  \E e \in Entry : ~s.uri[e].taken
<1> SUFFICES ASSUME \A e \in Entry : s.uri[e].taken
             PROVE  FALSE
  OBVIOUS
<1> DEFINE O == Offers[Peer]
           Rest == Served \ {u}
           f == [e \in Entry |-> s.uri[e].uriIndex]
<1>1. O \in Seq(Uri) /\ Len(O) \in Nat /\ Len(O) <= UriMax /\ UriMax \in Nat
  BY ServedUris, Ranges
<1>2. DOMAIN O = 1 .. Len(O)
  BY <1>1
<1>3. IsFiniteSet(1 .. Len(O)) /\ Cardinality(1 .. Len(O)) <= Len(O)
  <2> DEFINE n == Len(O)
  <2>1. n \in Nat
    BY <1>1
  <2> HIDE DEF n
  <2>2. IsFiniteSet(1 .. n) /\ Cardinality(1 .. n) = IF 1 > n THEN 0 ELSE n - 1 + 1
    BY <2>1, FS_Interval
  <2>3. Cardinality(1 .. n) <= n
    BY <2>1, <2>2
  <2> QED
    BY <2>2, <2>3 DEF n
<1>4. IsFiniteSet(Served) /\ Cardinality(Served) <= Cardinality(1 .. Len(O))
  <2> DEFINE g == [k \in 1 .. Len(O) |-> O[k]]
  <2> HIDE DEF O
  <2>1. Served = {O[k] : k \in 1 .. Len(O)}
    BY <1>2 DEF Served, O
  <2>2. g \in Surjection(1 .. Len(O), Served)
    BY <2>1 DEF Surjection
  <2> HIDE DEF g
  <2> QED
    BY <1>3, <2>2, FS_Surjection
<1>5. IsFiniteSet(Rest) /\ Cardinality(Rest) = Cardinality(Served) - 1
  BY <1>4, FS_RemoveElement
<1>6. IsFiniteSet(Entry) /\ Cardinality(Entry) = UriMax
  <2>1. 0 \in Int /\ UriMax \in Int /\ UriMax - 1 \in Int /\ UriMax >= 1
    BY PairListAssumption
  <2>2. IsFiniteSet(Entry)
        /\ Cardinality(Entry) = IF 0 > UriMax - 1 THEN 0 ELSE (UriMax - 1) - 0 + 1
    BY <2>1, FS_Interval DEF Entry
  <2> QED
    BY <2>1, <2>2
<1>7. Cardinality(Rest) \in Nat /\ Cardinality(Rest) < Cardinality(Entry)
  BY <1>1, <1>3, <1>4, <1>5, <1>6, FS_CardinalityType
<1>8. f \in [Entry -> Rest]
  BY PeerShape DEF PeerSlotOK
<1>9. PICK x \in Entry, y \in Entry : x # y /\ f[x] = f[y]
  <2> HIDE DEF f, Rest
  <2> QED
    BY <1>5, <1>6, <1>7, <1>8, FS_PigeonHole
<1> QED
  BY <1>9, PeerShape DEF PeerSlotOK

(* A subscription is stored, and those of other URIs stay. *)
Took(r, s, t, u) ==
  /\ PeerSlotOK(r) /\ r.taken /\ Has(r, u, t)
  /\ \A v, x : v # u /\ Has(s, v, x) => Has(r, v, x)

LEMMA EntryTaken ==
  ASSUME NEW s \in L!SlotType, NEW t \in Token, NEW u \in Served,
         PeerSlotOK(s), s.taken, \A e \in Entry : s.uri[e].uriIndex # u
  PROVE  LET r == L!addNewUri(s, t, u) IN Took(r, s, t, u) /\ r.ip = s.ip
<1> DEFINE e == L!spaceUriIsFree(s)
           new == [token |-> t, uriIndex |-> u, taken |-> TRUE]
           Free == {x \in L!Entry : ~s.uri[x].taken}
           r == L!addNewUri(s, t, u)
<1>1. Free \in SUBSET Nat /\ Free # {}
  BY RoomForServed, PeerShape, Ranges
<1>2. e = L!First(Free, L!LIST_FULL)
  BY DEF L!spaceUriIsFree
<1>3. e \in Free
  <2> HIDE DEF Free, e
  <2> QED
    BY <1>1, <1>2, LeastExists DEF L!First
<1>4. e \in Entry /\ ~s.uri[e].taken /\ e # L!LIST_FULL
  BY <1>3, PeerShape
<1>5. r = [s EXCEPT !.uri[e] = new]
  BY <1>4 DEF L!addNewUri
<1> HIDE DEF e, r, Free
<1>6. /\ r.taken = s.taken /\ r.name = s.name /\ r.ip = s.ip
      /\ \A x \in Entry : r.uri[x] = IF x = e THEN new ELSE s.uri[x]
  BY <1>4, <1>5, PeerShape DEF L!SlotType
<1>7. new.taken /\ new.uriIndex = u /\ new.token = t
  OBVIOUS
<1> HIDE DEF new
<1>8. PeerSlotOK(r)
  BY <1>4, <1>6, <1>7, PeerShape DEF PeerSlotOK
<1>9. Has(r, u, t)
  BY <1>4, <1>6, <1>7, PeerShape DEF Has
<1>10. \A v, x : Has(s, v, x) => Has(r, v, x)
  BY <1>4, <1>6, PeerShape DEF Has
<1> QED
  BY <1>6, <1>8, <1>9, <1>10 DEF Took, r

LEMMA RenewalTaken ==
  ASSUME NEW s \in L!SlotType, NEW t \in Token, NEW u \in Served, NEW ip \in MyIp,
         PeerSlotOK(s), s.taken
  PROVE  LET r == L!renewed(s, t, u, ip) IN Took(r, s, t, u) /\ r.ip = ip
<1> DEFINE e == L!uriIsExist(s, u)
           atIp == [s EXCEPT !.ip = ip]
           Same == {x \in L!Entry : s.uri[x].uriIndex = u}
           r == L!renewed(s, t, u, ip)
<1>1. /\ atIp \in L!SlotType /\ atIp.uri = s.uri /\ atIp.taken = s.taken
      /\ atIp.ip = ip /\ atIp.name = s.name
  BY DEF L!SlotType
<1>2. PeerSlotOK(atIp)
  <2> HIDE DEF atIp
  <2> QED
    BY <1>1 DEF PeerSlotOK
<1>3. Same \in SUBSET Nat
  BY PeerShape, Ranges
<1>4. e = L!First(Same, L!IS_NOT)
  BY DEF L!uriIsExist
<1>5. CASE Same = {}
  <2>1. e = L!IS_NOT
    <3> HIDE DEF Same, e
    <3> QED
      BY <1>4, <1>5 DEF L!First
  <2>2. \A x \in Entry : s.uri[x].uriIndex # u
    BY <1>5, PeerShape
  <2>3. r = L!addNewUri(atIp, t, u)
    BY <2>1 DEF L!renewed
  <2> HIDE DEF e, r, Same
  <2>4. Took(r, atIp, t, u) /\ r.ip = atIp.ip
    <3> HIDE DEF atIp
    <3> QED
      BY <1>1, <1>2, <2>2, <2>3, EntryTaken
  <2> QED
    BY <1>1, <2>4 DEF Took, Has, r
<1>6. CASE Same # {}
  <2>1. e \in Same
    <3> HIDE DEF Same, e
    <3> QED
      BY <1>3, <1>4, <1>6, LeastExists DEF L!First
  <2>2. e \in Entry /\ s.uri[e].uriIndex = u /\ e # L!IS_NOT
    BY <2>1, PeerShape
  <2>3. s.uri[e].taken
    <3>1. u # NoUri
      BY ServedUris
    <3> QED
      BY <2>2, <3>1, PeerShape DEF PeerSlotOK, L!EmptyEntry
  <2>4. r = [atIp EXCEPT !.uri[e].token = t]
    BY <2>2 DEF L!renewed
  <2> DEFINE now == [atIp.uri[e] EXCEPT !.token = t]
             uris == [atIp.uri EXCEPT ![e] = now]
  <2> HIDE DEF e, r, Same, atIp
  <2>5. atIp.uri[e] \in L!EntryType /\ atIp.uri \in [Entry -> L!EntryType]
    BY <1>1, <2>2, PeerShape DEF L!SlotType
  <2>6. /\ now.taken = atIp.uri[e].taken /\ now.uriIndex = atIp.uri[e].uriIndex
        /\ now.token = t
    BY <2>5 DEF L!EntryType
  <2>7. r = [atIp EXCEPT !.uri = uris]
    BY <2>4
  <2> HIDE DEF now
  <2>8. \A x \in Entry : uris[x] = IF x = e THEN now ELSE atIp.uri[x]
    BY <2>5
  <2> HIDE DEF uris
  <2>9. r.uri = uris /\ r.taken = atIp.taken /\ r.name = atIp.name /\ r.ip = atIp.ip
    BY <1>1, <2>7 DEF L!SlotType
  <2>10. /\ r.taken = s.taken /\ r.name = s.name /\ r.ip = ip
         /\ \A x \in Entry :
              /\ r.uri[x].taken = s.uri[x].taken
              /\ r.uri[x].uriIndex = s.uri[x].uriIndex
              /\ x # e => r.uri[x] = s.uri[x]
         /\ r.uri[e].token = t
    BY <1>1, <2>2, <2>6, <2>8, <2>9
  <2>11. PeerSlotOK(r)
    <3>1. \A x \in Entry : ~r.uri[x].taken => r.uri[x] = s.uri[x]
      BY <2>3, <2>10
    <3> QED
      BY <2>10, <3>1, PeerShape DEF PeerSlotOK
  <2>12. Has(r, u, t)
    BY <2>2, <2>3, <2>10, PeerShape DEF Has
  <2>13. \A v, x : v # u /\ Has(s, v, x) => Has(r, v, x)
    BY <2>2, <2>10, PeerShape DEF Has
  <2> QED
    BY <2>10, <2>11, <2>12, <2>13 DEF Took, r
<1> QED
  BY <1>5, <1>6

LEMMA EnrolmentTaken ==
  ASSUME NEW s \in L!SlotType, NEW t \in Token, NEW u \in Served, NEW ip \in MyIp,
         PeerSlotOK(s), ~s.taken
  PROVE  LET r == L!enrolled(s, t, u, ip, Me) IN Took(r, s, t, u) /\ r.ip = ip
<1> DEFINE d == L!addNewDevice(s, Me, ip)
           r == L!enrolled(s, t, u, ip, Me)
<1>1. s = L!EmptySlot
  BY DEF PeerSlotOK
<1>2. s.name = NoName /\ \A x \in Entry : s.uri[x] = L!EmptyEntry
  BY <1>1, PeerShape DEF L!EmptySlot
<1>3. /\ d \in L!SlotType /\ d.uri = s.uri /\ d.taken /\ d.ip = ip /\ d.name = Me
  BY <1>2 DEF L!addNewDevice, L!saveDeviceNameFull, L!SlotType
<1>4. r = L!addNewUri(d, t, u)
  BY DEF L!enrolled
<1> HIDE DEF d, r
<1>5. \A x \in Entry : ~d.uri[x].taken /\ d.uri[x].uriIndex = NoUri
                       /\ d.uri[x] = L!EmptyEntry
  <2>1. ~L!EmptyEntry.taken /\ L!EmptyEntry.uriIndex = NoUri
    BY DEF L!EmptyEntry
  <2> QED
    BY <1>2, <1>3, <2>1
<1>6. PeerSlotOK(d)
  BY <1>3, <1>5, PeerShape DEF PeerSlotOK
<1>7. \A x \in Entry : d.uri[x].uriIndex # u
  BY <1>5, ServedUris
<1>8. Took(r, d, t, u) /\ r.ip = d.ip
  BY <1>3, <1>4, <1>6, <1>7, EntryTaken
<1> QED
  BY <1>3, <1>8 DEF Took, Has, r

LEMMA SubscriptionTaken ==
  ASSUME NEW l \in L!ListType, NEW t \in Token, NEW u \in Served, NEW ip \in MyIp,
         PeerSlotOK(l[0])
  PROVE  LET r == L!subscribeList(l, t, u, ip, Me)[0]
         IN  Took(r, l[0], t, u) /\ r.ip = ip
<1> DEFINE d == L!devNameFullIsExist(l, Me)
           f == L!spaceDevNameIsFree(l)
           r == L!subscribeList(l, t, u, ip, Me)
           D == {x \in L!Slot : l[x].taken /\ l[x].name = Me}
           F == {x \in L!Slot : ~l[x].taken}
<1>1. L!subscribeIsValidData(t, u, Me)
  <2>1. t # NoToken /\ u # NoUri /\ Me # "long"
    BY PairListAssumption, ServedUris, ObserveAssumption
  <2> QED
    BY <2>1 DEF L!subscribeIsValidData
<1>2. l[0] \in L!SlotType /\ 0 \in L!Slot
  BY PeerShape DEF L!ListType
<1>3. D \in SUBSET Nat /\ F \in SUBSET Nat
  BY PeerShape
<1>4. d = L!First(D, L!IS_NOT) /\ f = L!First(F, L!LIST_FULL)
  BY DEF L!devNameFullIsExist, L!spaceDevNameIsFree
<1>5. CASE l[0].taken
  <2>1. D = {0}
    BY <1>5, PeerShape DEF PeerSlotOK
  <2>2. d = 0
    <3> HIDE DEF D
    <3> QED
      BY <1>4, <2>1 DEF L!First
  <2>3. r = [l EXCEPT ![0] = L!renewed(l[0], t, u, ip)]
    BY <1>1, <2>2, PeerShape DEF L!subscribeList
  <2>4. r[0] = L!renewed(l[0], t, u, ip)
    BY <1>2, <2>3 DEF L!ListType
  <2> QED
    BY <1>2, <1>5, <2>4, RenewalTaken
<1>6. CASE ~l[0].taken
  <2>1. D = {} /\ F = {0}
    BY <1>6, PeerShape
  <2>2. d = L!IS_NOT /\ f = 0
    <3> HIDE DEF D, F
    <3> QED
      BY <1>4, <2>1 DEF L!First
  <2>3. r = [l EXCEPT ![0] = L!enrolled(l[0], t, u, ip, Me)]
    BY <1>1, <2>2, PeerShape DEF L!subscribeList
  <2>4. r[0] = L!enrolled(l[0], t, u, ip, Me)
    BY <1>2, <2>3 DEF L!ListType
  <2> QED
    BY <1>2, <1>6, <2>4, EnrolmentTaken
<1> QED
  BY <1>5, <1>6

------------------------------------------------------------------------------
(* What sending and receiving do to what arrives.                          *)

LEMMA Unmoved ==
  ASSUME UNCHANGED <<toPeer, subList, peerIp>>, NEW u, NEW t
  PROVE  /\ TokenArrives(u, t) => TokenArrives(u, t)'
         /\ UNCHANGED myIp /\ AddressArrives => AddressArrives'
<1>1. TokenArrives(u, t) => TokenArrives(u, t)'
  BY DEF TokenArrives
<1>2. UNCHANGED myIp /\ AddressArrives => AddressArrives'
  BY DEF AddressArrives
<1> QED
  BY <1>1, <1>2

LEMMA Joined ==
  ASSUME NEW S, NEW s \in Seq(S), NEW m \in Seq(S)
  PROVE  /\ DOMAIN s = 1 .. Len(s) /\ Len(s) \in Nat
         /\ DOMAIN m = 1 .. Len(m) /\ Len(m) \in Nat
         /\ DOMAIN (s \o m) = 1 .. Len(s) + Len(m)
         /\ \A k \in 1 .. Len(s) : k \in DOMAIN (s \o m) /\ (s \o m)[k] = s[k]
         /\ \A k \in 1 .. Len(m) :
              k + Len(s) \in DOMAIN (s \o m) /\ (s \o m)[k + Len(s)] = m[k]
<1>1. /\ s \o m \in Seq(S) /\ Len(s \o m) = Len(s) + Len(m)
      /\ DOMAIN s = 1 .. Len(s) /\ DOMAIN m = 1 .. Len(m)
      /\ Len(s) \in Nat /\ Len(m) \in Nat
  OBVIOUS
<1>2. DOMAIN (s \o m) = 1 .. Len(s) + Len(m)
  BY <1>1
<1>3. ASSUME NEW k \in 1 .. Len(s)
      PROVE  k \in DOMAIN (s \o m) /\ (s \o m)[k] = s[k]
  BY <1>1, <1>2
<1>4. ASSUME NEW k \in 1 .. Len(m)
      PROVE  k + Len(s) \in DOMAIN (s \o m) /\ (s \o m)[k + Len(s)] = m[k]
  BY <1>1, <1>2
<1> QED
  BY <1>1, <1>2, <1>3, <1>4

(* The last of s \o m is the last of m, or of s if there is none in m.     *)
IsOf(x, m, Q) == \E i \in DOMAIN m : m[i] \in Q /\ x = m[i]

LEMMA LastJoined ==
  ASSUME NEW S, NEW s \in Seq(S), NEW m \in Seq(S), NEW Q, NEW k,
         IsLast(s \o m, k, Q)
  PROVE  \/ IsOf((s \o m)[k], m, Q)
         \/ /\ IsLast(s, k, Q) /\ (s \o m)[k] = s[k]
            /\ \A i \in DOMAIN m : m[i] \notin Q
<1> DEFINE a == Len(s)
           b == Len(m)
           r == s \o m
<1>1. /\ DOMAIN s = 1 .. a /\ a \in Nat /\ DOMAIN m = 1 .. b /\ b \in Nat
      /\ DOMAIN r = 1 .. a + b
      /\ \A j \in 1 .. a : j \in DOMAIN r /\ r[j] = s[j]
      /\ \A j \in 1 .. b : j + a \in DOMAIN r /\ r[j + a] = m[j]
  BY Joined
<1>2. k \in DOMAIN r /\ r[k] \in Q /\ \A j \in DOMAIN r : j > k => r[j] \notin Q
  BY DEF IsLast
<1> HIDE DEF a, b, r
<1>3. CASE k > a
  <2>1. k - a \in 1 .. b /\ (k - a) + a = k
    BY <1>1, <1>2, <1>3
  <2>2. m[k - a] = r[k]
    BY <1>1, <2>1
  <2>3. IsOf(r[k], m, Q)
    BY <1>1, <1>2, <2>1, <2>2 DEF IsOf
  <2> QED
    BY <2>3 DEF r
<1>4. CASE ~(k > a)
  <2>1. k \in 1 .. a
    BY <1>1, <1>2, <1>4
  <2>2. \A j \in 1 .. b : m[j] \notin Q
    <3>1. \A j \in 1 .. b : j + a > k /\ j + a \in DOMAIN r /\ r[j + a] = m[j]
      BY <1>1, <2>1
    <3> QED
      BY <1>2, <3>1
  <2>3. r[k] = s[k]
    BY <1>1, <2>1
  <2>4. IsLast(s, k, Q)
    BY <1>1, <1>2, <2>1, <2>3 DEF IsLast
  <2> QED
    BY <1>1, <2>2, <2>3, <2>4 DEF r
<1> QED
  BY <1>1, <1>2, <1>3, <1>4

LEMMA NoneJoined ==
  ASSUME NEW S, NEW s \in Seq(S), NEW m \in Seq(S), NEW Q,
         \A k \in DOMAIN (s \o m) : (s \o m)[k] \notin Q
  PROVE  (\A k \in DOMAIN s : s[k] \notin Q) /\ (\A i \in DOMAIN m : m[i] \notin Q)
<1> DEFINE r == s \o m
<1>1. /\ DOMAIN s = 1 .. Len(s) /\ DOMAIN m = 1 .. Len(m)
      /\ \A k \in 1 .. Len(s) : k \in DOMAIN r /\ r[k] = s[k]
      /\ \A k \in 1 .. Len(m) : k + Len(s) \in DOMAIN r /\ r[k + Len(s)] = m[k]
  BY Joined
<1>2. \A k \in DOMAIN r : r[k] \notin Q
  OBVIOUS
<1> HIDE DEF r
<1> QED
  BY <1>1, <1>2

LEMMA Sent ==
  ASSUME NetOK, NEW m \in Seq(PeerMsg), toPeer' = toPeer \o m,
         UNCHANGED <<subList, peerIp>>
  PROVE  /\ \A u, t :
              /\ TokenArrives(u, t) \/ \E i \in DOMAIN m : m[i] \in About(peerIp, u)
              /\ \A i \in DOMAIN m : m[i] \in About(peerIp, u) => m[i].token = t
              => TokenArrives(u, t)'
         /\ /\ \/ AddressArrives /\ UNCHANGED myIp
               \/ \E i \in DOMAIN m : m[i] \in Home(peerIp)
            /\ \A i \in DOMAIN m : m[i].from = myIp'
            => AddressArrives'
<1>1. toPeer \in Seq(PeerMsg)
  BY DEF NetOK
<1>2. ASSUME NEW Q, NEW k, IsLast(toPeer', k, Q)
      PROVE  \/ IsOf(toPeer'[k], m, Q)
             \/ /\ IsLast(toPeer, k, Q) /\ toPeer'[k] = toPeer[k]
                /\ \A i \in DOMAIN m : m[i] \notin Q
  <2>1. IsLast(toPeer \o m, k, Q)
    BY <1>2
  <2>2. \/ IsOf((toPeer \o m)[k], m, Q)
        \/ /\ IsLast(toPeer, k, Q) /\ (toPeer \o m)[k] = toPeer[k]
           /\ \A i \in DOMAIN m : m[i] \notin Q
    BY <1>1, <2>1, LastJoined
  <2> QED
    BY <2>2
<1>3. ASSUME NEW Q, \A k \in DOMAIN toPeer' : toPeer'[k] \notin Q
      PROVE  /\ \A k \in DOMAIN toPeer : toPeer[k] \notin Q
             /\ \A i \in DOMAIN m : m[i] \notin Q
  BY <1>1, <1>3, NoneJoined
<1>4. ASSUME NEW u, NEW t,
             TokenArrives(u, t) \/ \E i \in DOMAIN m : m[i] \in About(peerIp, u),
             \A i \in DOMAIN m : m[i] \in About(peerIp, u) => m[i].token = t
      PROVE  TokenArrives(u, t)'
  <2> PICK Q : Q = About(peerIp, u)
    OBVIOUS
  <2>1. TokenArrives(u, t) =>
          /\ \A k \in DOMAIN toPeer : IsLast(toPeer, k, Q) => toPeer[k].token = t
          /\ (\A k \in DOMAIN toPeer : toPeer[k] \notin Q) => Has(subList[0], u, t)
    BY DEF TokenArrives
  <2>2. ASSUME NEW k, IsLast(toPeer', k, Q)
        PROVE  toPeer'[k].token = t
    <3>1. CASE IsOf(toPeer'[k], m, Q)
      BY <1>4, <3>1 DEF IsOf
    <3>2. CASE /\ IsLast(toPeer, k, Q) /\ toPeer'[k] = toPeer[k]
               /\ \A i \in DOMAIN m : m[i] \notin Q
      <4>1. k \in DOMAIN toPeer
        BY <3>2 DEF IsLast
      <4> QED
        BY <1>4, <2>1, <3>2, <4>1
    <3> QED
      BY <1>2, <2>2, <3>1, <3>2
  <2>3. ASSUME \A k \in DOMAIN toPeer' : toPeer'[k] \notin Q
        PROVE  Has(subList[0], u, t)
    BY <1>3, <1>4, <2>1, <2>3
  <2>4. Q = About(peerIp', u) /\ (Has(subList'[0], u, t) <=> Has(subList[0], u, t))
    OBVIOUS
  <2> QED
    BY <2>2, <2>3, <2>4 DEF TokenArrives
<1>5. ASSUME \/ AddressArrives /\ UNCHANGED myIp
             \/ \E i \in DOMAIN m : m[i] \in Home(peerIp),
             \A i \in DOMAIN m : m[i].from = myIp'
      PROVE  AddressArrives'
  <2> PICK Q : Q = Home(peerIp)
    OBVIOUS
  <2>1. AddressArrives =>
          /\ \A k \in DOMAIN toPeer : IsLast(toPeer, k, Q) => toPeer[k].from = myIp
          /\ (\A k \in DOMAIN toPeer : toPeer[k] \notin Q)
               => subList[0].taken /\ subList[0].ip = myIp
    BY DEF AddressArrives
  <2>2. ASSUME NEW k, IsLast(toPeer', k, Q)
        PROVE  toPeer'[k].from = myIp'
    <3>1. CASE IsOf(toPeer'[k], m, Q)
      BY <1>5, <3>1 DEF IsOf
    <3>2. CASE /\ IsLast(toPeer, k, Q) /\ toPeer'[k] = toPeer[k]
               /\ \A i \in DOMAIN m : m[i] \notin Q
      <4>1. k \in DOMAIN toPeer
        BY <3>2 DEF IsLast
      <4> QED
        BY <1>5, <2>1, <3>2, <4>1
    <3> QED
      BY <1>2, <2>2, <3>1, <3>2
  <2>3. ASSUME \A k \in DOMAIN toPeer' : toPeer'[k] \notin Q
        PROVE  subList'[0].taken /\ subList'[0].ip = myIp'
    BY <1>3, <1>5, <2>1, <2>3
  <2> QED
    BY <2>2, <2>3 DEF AddressArrives
<1> QED
  BY <1>4, <1>5

(* The device takes a message: what arrives arrives, and if it was the     *)
(* last, it has.                                                           *)
LEMMA LeftOver ==
  ASSUME NEW S, NEW s \in Seq(S), NEW n \in DOMAIN s
  PROVE  /\ \A i \in DOMAIN RemoveAt(s, n) :
              LET j == IF i < n THEN i ELSE i + 1
              IN j \in DOMAIN s /\ j # n /\ RemoveAt(s, n)[i] = s[j]
         /\ \A j \in DOMAIN s : j # n =>
              LET i == IF j < n THEN j ELSE j - 1
              IN i \in DOMAIN RemoveAt(s, n) /\ RemoveAt(s, n)[i] = s[j]
         /\ DOMAIN s \subseteq Nat /\ DOMAIN RemoveAt(s, n) \subseteq Nat
<1> DEFINE r == RemoveAt(s, n)
<1>1. /\ r \in Seq(S) /\ Len(r) = Len(s) - 1
      /\ \A i \in 1 .. Len(s) - 1 : r[i] = IF i < n THEN s[i] ELSE s[i + 1]
  BY RemoveAtProperties
<1> HIDE DEF r
<1>2. /\ DOMAIN r = 1 .. Len(s) - 1 /\ DOMAIN s = 1 .. Len(s)
      /\ Len(s) \in Nat /\ n \in 1 .. Len(s)
  BY <1>1
<1>3. ASSUME NEW i \in DOMAIN r
      PROVE  LET j == IF i < n THEN i ELSE i + 1
             IN j \in DOMAIN s /\ j # n /\ r[i] = s[j]
  BY <1>1, <1>2
<1>4. ASSUME NEW j \in DOMAIN s, j # n
      PROVE  LET i == IF j < n THEN j ELSE j - 1
             IN i \in DOMAIN r /\ r[i] = s[j]
  BY <1>1, <1>2, <1>4
<1>5. DOMAIN s \subseteq Nat /\ DOMAIN r \subseteq Nat
  BY <1>2
<1> QED
  BY <1>3, <1>4, <1>5 DEF r

(* Of the messages that are wanted, the last is the last that was, or it   *)
(* was overtaken by the one that is taken.                                 *)
Overtaken(s, n, x, Q) ==
  IsLast(s, n, Q) /\ \E j \in DOMAIN s : j < n /\ s[j] \in Q /\ x = s[j]
WasLast(s, x, Q) == \E j \in DOMAIN s : IsLast(s, j, Q) /\ x = s[j]

LEMMA LastLeft ==
  ASSUME NEW S, NEW s \in Seq(S), NEW n \in DOMAIN s, NEW Q
  PROVE  /\ \A k : IsLast(RemoveAt(s, n), k, Q) =>
              WasLast(s, RemoveAt(s, n)[k], Q) \/ Overtaken(s, n, RemoveAt(s, n)[k], Q)
         /\ (\A k \in DOMAIN RemoveAt(s, n) : RemoveAt(s, n)[k] \notin Q) =>
              IF s[n] \in Q THEN IsLast(s, n, Q) ELSE \A k \in DOMAIN s : s[k] \notin Q
<1> DEFINE r == RemoveAt(s, n)
<1>1. /\ \A i \in DOMAIN r :
           LET j == IF i < n THEN i ELSE i + 1
           IN j \in DOMAIN s /\ j # n /\ r[i] = s[j]
      /\ \A j \in DOMAIN s : j # n =>
           LET i == IF j < n THEN j ELSE j - 1
           IN i \in DOMAIN r /\ r[i] = s[j]
      /\ DOMAIN s \subseteq Nat /\ DOMAIN r \subseteq Nat
  BY LeftOver
<1> HIDE DEF r
<1>2. ASSUME NEW k, IsLast(r, k, Q)
      PROVE  WasLast(s, r[k], Q) \/ Overtaken(s, n, r[k], Q)
  <2> PICK p : p = IF k < n THEN k ELSE k + 1
    OBVIOUS
  <2>1. k \in DOMAIN r /\ r[k] \in Q /\ p \in DOMAIN s /\ p # n /\ r[k] = s[p]
    BY <1>1, <1>2 DEF IsLast
  <2>2. n \in Nat /\ k \in Nat /\ p \in Nat
    BY <1>1, <2>1
  <2>3. ASSUME NEW j \in DOMAIN s, j > p, j # n PROVE s[j] \notin Q
    <3> PICK i : i = IF j < n THEN j ELSE j - 1
      OBVIOUS
    <3>1. i \in DOMAIN r /\ r[i] = s[j] /\ j \in Nat
      BY <1>1, <2>3
    <3>2. i > k
      BY <2>2, <2>3, <3>1
    <3> QED
      BY <1>2, <3>1, <3>2 DEF IsLast
  <2>4. CASE n > p /\ s[n] \in Q
    <3>1. \A j \in DOMAIN s : j > n => s[j] \notin Q
      <4>1. \A j \in DOMAIN s : j > n => j > p /\ j # n
        BY <1>1, <2>2, <2>4
      <4> QED
        BY <2>3, <4>1
    <3>2. IsLast(s, n, Q)
      BY <2>4, <3>1 DEF IsLast
    <3>3. p < n
      BY <2>2, <2>4
    <3> QED
      BY <2>1, <3>2, <3>3 DEF Overtaken
  <2>5. CASE ~(n > p /\ s[n] \in Q)
    <3>1. \A j \in DOMAIN s : j > p => s[j] \notin Q
      BY <2>3, <2>5
    <3>2. IsLast(s, p, Q)
      BY <2>1, <3>1 DEF IsLast
    <3> QED
      BY <2>1, <3>2 DEF WasLast
  <2> QED
    BY <2>4, <2>5
<1>3. ASSUME \A k \in DOMAIN r : r[k] \notin Q
      PROVE  IF s[n] \in Q THEN IsLast(s, n, Q) ELSE \A k \in DOMAIN s : s[k] \notin Q
  <2>1. \A k \in DOMAIN s : k # n => s[k] \notin Q
    BY <1>1, <1>3
  <2>2. \A k \in DOMAIN s : k > n => k # n
    BY <1>1
  <2> QED
    BY <2>1, <2>2 DEF IsLast
<1> QED
  BY <1>2, <1>3 DEF r

LEMMA Received ==
  ASSUME NetOK, OwnMessages, PeerListOK, NEW n \in DOMAIN toPeer, PeerReceives(n)
  PROVE  /\ OwnMessages' /\ PeerListOK'
         /\ orderly' => \A u, t : TokenArrives(u, t) => TokenArrives(u, t)'
         /\ orderly' => (AddressArrives => AddressArrives')
<1> DEFINE s == toPeer
<1> PICK m : m = s[n]
  OBVIOUS
<1>1. /\ toPeer' = RemoveAt(s, n) /\ UNCHANGED <<myIp, peerIp>>
      /\ s \in Seq(PeerMsg) /\ m \in PeerMsg /\ DOMAIN s \subseteq Nat
      /\ subList' = subscribed(m)
  BY LeftOver DEF PeerReceives, addresses, NetOK
<1>2. /\ \A k \in DOMAIN toPeer' : \E j \in DOMAIN s : toPeer'[k] = s[j]
      /\ \A Q : \A k : IsLast(toPeer', k, Q) =>
           WasLast(s, toPeer'[k], Q) \/ Overtaken(s, n, toPeer'[k], Q)
      /\ \A Q : (\A k \in DOMAIN toPeer' : toPeer'[k] \notin Q) =>
           IF m \in Q THEN IsLast(s, n, Q) ELSE \A k \in DOMAIN s : s[k] \notin Q
  <2>1. \A k \in DOMAIN toPeer' : \E j \in DOMAIN s : toPeer'[k] = s[j]
    BY <1>1, RemoveAtProperties
  <2> QED
    BY <1>1, <2>1, LastLeft
<1>3. OwnMessages'
  BY <1>2 DEF OwnMessages
<1>4. ASSUME orderly', NEW j \in DOMAIN s, j < n, s[j] \in Home(peerIp), m \in Home(peerIp)
      PROVE  s[j].from = m.from /\ (s[j].uri = m.uri => s[j].token = m.token)
  <2>1. j \in 1 .. n - 1
    BY <1>1, <1>4, LenProperties
  <2>2. ~Contradicts(s[j], m)
    BY <1>4, <2>1 DEF PeerReceives
  <2>3. s[j].kind # "get" /\ m.kind # "get"
    BY <1>4 DEF Home
  <2> QED
    BY <2>2, <2>3 DEF Contradicts
<1> DEFINE l == subList[0]
           r == subList'[0]
<1>5. \/ m \notin Home(peerIp) /\ r = l
      \/ /\ m \in Home(peerIp) /\ m.uri \in Served
         /\ Took(r, l, m.token, m.uri) /\ r.ip = m.from
  <2>1. CASE m.kind = "get" \/ m.ip # peerIp
    BY <1>1, <2>1 DEF subscribed, Home
  <2>2. CASE m.kind # "get" /\ m.ip = peerIp
    <3>1. m \in Home(peerIp) /\ m.uri \in Served
      BY <1>1, <2>2 DEF Home, OwnMessages
    <3>2. m.uri # NoUri /\ m.token \in Token /\ m.from \in MyIp
      BY <1>1, <2>2, <3>1, Kinds, ServedUris
    <3>3. subList' = L!subscribeList(subList, m.token, m.uri, m.from, Me)
      BY <1>1, <2>2, <3>2 DEF subscribed
    <3>4. subList \in L!ListType /\ PeerSlotOK(l)
      BY DEF NetOK, PeerListOK
    <3>5. Took(r, l, m.token, m.uri) /\ r.ip = m.from
      BY <3>1, <3>2, <3>3, <3>4, SubscriptionTaken
    <3> QED
      BY <3>1, <3>5
  <2> QED
    BY <2>1, <2>2
<1>6. PeerListOK'
  <2>1. PeerSlotOK(l)
    BY DEF PeerListOK
  <2>2. PeerSlotOK(r)
    BY <1>5, <2>1 DEF Took
  <2> QED
    BY <2>2 DEF PeerListOK
<1> HIDE DEF l, r
<1>7. ASSUME orderly', NEW u, NEW t, TokenArrives(u, t) PROVE TokenArrives(u, t)'
  <2> PICK Q : Q = About(peerIp, u)
    OBVIOUS
  <2>1. /\ \A k \in DOMAIN s : IsLast(s, k, Q) => s[k].token = t
        /\ (\A k \in DOMAIN s : s[k] \notin Q) => Has(l, u, t)
    BY <1>7 DEF TokenArrives, l
  <2>2. \A x \in Q : x \in Home(peerIp) /\ x.uri = u
    BY DEF About
  <2>3. ASSUME NEW k, IsLast(toPeer', k, Q) PROVE toPeer'[k].token = t
    <3>1. CASE WasLast(s, toPeer'[k], Q)
      BY <2>1, <3>1 DEF WasLast
    <3>2. CASE Overtaken(s, n, toPeer'[k], Q)
      <4>1. PICK j \in DOMAIN s : j < n /\ s[j] \in Q /\ toPeer'[k] = s[j]
        BY <3>2 DEF Overtaken
      <4>2. m \in Q /\ m.token = t
        BY <2>1, <3>2 DEF Overtaken, IsLast
      <4>3. s[j].token = m.token
        BY <1>7, <1>4, <2>2, <4>1, <4>2
      <4> QED
        BY <4>1, <4>2, <4>3
    <3> QED
      BY <1>2, <2>3, <3>1, <3>2
  <2>4. ASSUME \A k \in DOMAIN toPeer' : toPeer'[k] \notin Q PROVE Has(r, u, t)
    <3>1. CASE m \in Q
      <4>1. m.token = t
        BY <1>2, <2>1, <2>4, <3>1
      <4> QED
        BY <1>5, <2>2, <3>1, <4>1 DEF Took
    <3>2. CASE m \notin Q
      <4>1. Has(l, u, t)
        BY <1>2, <2>1, <2>4, <3>2
      <4>2. m \in Home(peerIp) => m.uri # u
        BY <3>2 DEF About
      <4> QED
        BY <1>5, <4>1, <4>2 DEF Took
    <3> QED
      BY <3>1, <3>2
  <2>5. Q = About(peerIp', u)
    BY <1>1
  <2> QED
    BY <2>3, <2>4, <2>5 DEF TokenArrives, r
<1>8. ASSUME orderly', AddressArrives PROVE AddressArrives'
  <2> PICK Q : Q = Home(peerIp)
    OBVIOUS
  <2>1. /\ \A k \in DOMAIN s : IsLast(s, k, Q) => s[k].from = myIp
        /\ (\A k \in DOMAIN s : s[k] \notin Q) => l.taken /\ l.ip = myIp
    BY <1>8 DEF AddressArrives, l
  <2>2. ASSUME NEW k, IsLast(toPeer', k, Q) PROVE toPeer'[k].from = myIp
    <3>1. CASE WasLast(s, toPeer'[k], Q)
      BY <2>1, <3>1 DEF WasLast
    <3>2. CASE Overtaken(s, n, toPeer'[k], Q)
      <4>1. PICK j \in DOMAIN s : j < n /\ s[j] \in Q /\ toPeer'[k] = s[j]
        BY <3>2 DEF Overtaken
      <4>2. m \in Q /\ m.from = myIp
        BY <2>1, <3>2 DEF Overtaken, IsLast
      <4>3. s[j].from = m.from
        BY <1>8, <1>4, <4>1, <4>2
      <4> QED
        BY <4>1, <4>2, <4>3
    <3> QED
      BY <1>2, <2>2, <3>1, <3>2
  <2>3. ASSUME \A k \in DOMAIN toPeer' : toPeer'[k] \notin Q
        PROVE  r.taken /\ r.ip = myIp
    <3>1. CASE m \in Q
      <4>1. m.from = myIp
        BY <1>2, <2>1, <2>3, <3>1
      <4> QED
        BY <1>5, <3>1, <4>1 DEF Took
    <3>2. CASE m \notin Q
      <4>1. l.taken /\ l.ip = myIp
        BY <1>2, <2>1, <2>3, <3>2
      <4> QED
        BY <1>5, <3>2, <4>1
    <3> QED
      BY <3>1, <3>2
  <2> QED
    BY <1>1, <2>2, <2>3 DEF AddressArrives, r
<1> QED
  BY <1>3, <1>6, <1>7, <1>8

(* A list of lists, one after the other, has all that they have.           *)
In(x, q) == \E k \in DOMAIN q : q[k] = x

LEMMA FlatHas ==
  ASSUME NEW S, NEW s \in Seq(Seq(S)), NEW h \in DOMAIN s, NEW j \in DOMAIN s[h]
  PROVE  In(s[h][j], FlattenSeq(s))
<1>1. DOMAIN s = 1 .. Len(s) /\ Len(s) \in Nat /\ Len(s) # 0
  OBVIOUS
<1>2. PICK F : /\ \A i \in 1 .. Len(s) :
                    /\ F[i] = IF i = 1 THEN s[i] ELSE F[i - 1] \o s[i]
                    /\ F[i] \in Seq(S)
               /\ FlattenSeq(s) = F[Len(s)]
  BY <1>1, FlatIs
<1>3. PICK n : n = Len(s)
  OBVIOUS
<1>4. \A i \in 1 .. n : s[i] \in Seq(S)
  BY <1>3
<1>5. PICK x : x = s[h][j]
  OBVIOUS
<1>6. n \in Nat /\ h \in 1 .. n /\ In(x, s[h])
  BY <1>1, <1>3, <1>5 DEF In
<1> DEFINE Bad == {i \in 1 .. n : i >= h /\ ~In(x, F[i])}
<1>7. ASSUME Bad # {} PROVE FALSE
  <2>1. Bad \in SUBSET Nat
    BY <1>6
  <2>2. PICK i \in Bad : \A k \in Bad : i <= k
    BY <1>7, <2>1, LeastExists
  <2>3. i \in 1 .. n /\ i >= h /\ ~In(x, F[i])
    BY <2>2
  <2>4. i # 1
    BY <1>2, <1>3, <1>6, <2>3
  <2>5. i - 1 \in 1 .. n
    BY <1>6, <2>3, <2>4
  <2>6. i - 1 \in 1 .. n /\ F[i - 1] \in Seq(S) /\ s[i] \in Seq(S)
        /\ F[i] = F[i - 1] \o s[i]
    <3> HIDE DEF Bad
    <3> QED
      BY <1>2, <1>3, <1>4, <2>3, <2>4, <2>5
  <2>7. In(x, F[i - 1]) \/ In(x, s[i])
    <3>1. CASE i = h
      BY <1>6, <3>1
    <3>2. CASE i # h
      <4>1. i - 1 >= h /\ i - 1 < i /\ i - 1 \notin Bad
        BY <1>6, <2>2, <2>3, <3>2
      <4> QED
        BY <2>6, <4>1
    <3> QED
      BY <3>1, <3>2
  <2>8. In(x, F[i - 1] \o s[i])
    <3>1. PICK p, q : p = F[i - 1] /\ q = s[i]
      OBVIOUS
    <3>2. p \in Seq(S) /\ q \in Seq(S)
      BY <2>6, <3>1
    <3>3. /\ DOMAIN p = 1 .. Len(p) /\ DOMAIN q = 1 .. Len(q)
          /\ \A k \in 1 .. Len(p) : k \in DOMAIN (p \o q) /\ (p \o q)[k] = p[k]
          /\ \A k \in 1 .. Len(q) :
               k + Len(p) \in DOMAIN (p \o q) /\ (p \o q)[k + Len(p)] = q[k]
      BY <3>2, Joined
    <3> QED
      BY <2>7, <3>1, <3>3 DEF In
  <2> QED
    BY <2>3, <2>6, <2>8
<1>8. In(x, F[n])
  BY <1>6, <1>7
<1> QED
  BY <1>2, <1>3, <1>5, <1>8

------------------------------------------------------------------------------
(* What a step leaves alone stays as it was.                               *)

LEMMA Parts ==
  ASSUME SyncInv
  PROVE  /\ ObsInv /\ IInv /\ NetOK
         /\ ThreadsOK /\ OnlyPeer /\ OneAtATime /\ TokensHaveUris
         /\ NewsOK /\ LastNews /\ QueueIsLatest /\ ListIsLatest
         /\ OwnMessages /\ PeerListOK /\ Agreed
  BY DEF SyncInv, InStep, ThreadsOK, NewsOK, ObsInv

LEMMA ThreadsStay ==
  ASSUME ThreadsOK, UNCHANGED <<list, queue, pt, ot, token>>
  PROVE  ThreadsOK'
  BY DEF ThreadsOK, OnlyPeer, OneAtATime, TokensHaveUris, HandlerIsAt

LEMMA LastNewsStays ==
  ASSUME UNCHANGED <<toMe, peerIp, orderly>>, LastNews
  PROVE  LastNews' /\ (NoNews' => NoNews)
<1>1. LastNews'
  BY DEF LastNews
<1>2. NoNews' => NoNews
  BY DEF NoNews
<1> QED
  BY <1>1, <1>2

LEMMA NewsStay ==
  ASSUME NewsOK, UNCHANGED <<list, queue, pt, peerIp>>, LastNews', NoNews' => NoNews
  PROVE  NewsOK' /\ (Settled' => Settled)
<1>1. Settled' => Settled
  BY DEF Settled
<1>2. QueueIsLatest'
  BY DEF NewsOK, QueueIsLatest
<1>3. ListIsLatest'
  BY <1>1 DEF NewsOK, ListIsLatest
<1> QED
  BY <1>1, <1>2, <1>3 DEF NewsOK

(* No more is claimed than was, and what arrived still arrives.            *)
LEMMA AgreedStays ==
  ASSUME Agreed, Settled' => Settled,
         \A d \in Slot, e \in Entry, t \in Token :
           Settled' /\ list'[d].taken /\ TokenOf(d, e)' = t /\ ~ToBeRenewed(e)'
             => list[d].taken /\ TokenOf(d, e) = t /\ ~ToBeRenewed(e),
         \A u, t : TokenArrives(u, t) => TokenArrives(u, t)',
         AddressArrives => AddressArrives'
  PROVE  Agreed'
<1> SUFFICES ASSUME Settled', NEW d \in Slot, NEW e \in Entry, NEW t \in Token,
                    list'[d].taken, TokenOf(d, e)' = t, ~ToBeRenewed(e)'
             PROVE  TokenArrives(Offers[Peer][e + 1], t)' /\ AddressArrives'
  BY DEF Agreed
<1>1. Settled /\ list[d].taken /\ TokenOf(d, e) = t /\ ~ToBeRenewed(e)
  OBVIOUS
<1>2. TokenArrives(Offers[Peer][e + 1], t) /\ AddressArrives
  BY <1>1 DEF Agreed
<1> QED
  BY <1>2

LEMMA SameTokens ==
  ASSUME UNCHANGED <<list, ot, token>>, NEW d, NEW e
  PROVE  TokenOf(d, e)' = TokenOf(d, e)
  BY DEF TokenOf, HandlerIsAt

LEMMA SamePlace ==
  ASSUME UNCHANGED pt, NEW e
  PROVE  ToBeRenewed(e)' = ToBeRenewed(e)
  BY DEF ToBeRenewed

(* Nothing is settled when a message was lost or overtaken...              *)
LEMMA Disorder ==
  ASSUME ~orderly'
  PROVE  NewsOK' /\ Agreed' /\ ~NoNews'
<1>1. ~NoNews' /\ LastNews'
  BY DEF NoNews, LastNews
<1> QED
  BY <1>1 DEF NewsOK, QueueIsLatest, ListIsLatest, Agreed, Settled

(* ...and while an announcement is under way.                              *)
LEMMA NewsAhead ==
  ASSUME NEW s \in Seq(MeMsg), NEW a \in MeMsg, toMe' = Append(s, a),
         a.kind = "announce", a.from = peerIp'
  PROVE  NewsOK' /\ Agreed'
<1>1. /\ DOMAIN toMe' = 1 .. Len(s) + 1 /\ toMe'[Len(s) + 1] = a
      /\ Len(s) \in Nat
  OBVIOUS
<1>2. ~NoNews'
  BY <1>1 DEF NoNews
<1>3. LastNews'
  <2> SUFFICES ASSUME NEW k \in DOMAIN toMe', toMe'[k].kind = "announce",
                      \A j \in DOMAIN toMe' : j > k => toMe'[j].kind # "announce"
               PROVE  toMe'[k].from = peerIp'
    BY DEF LastNews
  <2>1. k = Len(s) + 1
    BY <1>1
  <2> QED
    BY <1>1, <2>1
<1> QED
  BY <1>2, <1>3 DEF NewsOK, QueueIsLatest, ListIsLatest, Agreed, Settled

LEMMA Peers ==
  ASSUME SyncInv
  PROVE  /\ \A d \in Slot : list[d].taken => Holds(d, Peer)
         /\ \A c, d \in Slot : list[c].taken /\ list[d].taken => c = d
         /\ \A d \in Slot, e \in Entry : list[d].uris[e].uri # NoUri =>
              /\ list[d].taken /\ e < Len(Offers[Peer])
              /\ list[d].uris[e].uri = Offers[Peer][e + 1]
<1>1. OnlyPeer /\ NamesUnique /\ OwnUris
  BY Parts DEF IInv
<1>2. \A c, d \in Slot : list[c].taken /\ list[d].taken => c = d
  BY <1>1 DEF OnlyPeer, NamesUnique
<1> QED
  BY <1>1, <1>2 DEF OnlyPeer, OwnUris, Holds

(* Messages that are no announcements come in or go out.                   *)
LEMMA NoNewsIn ==
  ASSUME NetOK, LastNews, NEW s \in Seq(MeMsg), toMe' = toMe \o s,
         \A k \in DOMAIN s : s[k].kind # "announce", UNCHANGED peerIp,
         orderly' => orderly
  PROVE  LastNews' /\ (NoNews' => NoNews)
<1>1. /\ DOMAIN toMe = 1 .. Len(toMe) /\ Len(toMe) \in Nat
      /\ DOMAIN s = 1 .. Len(s) /\ Len(s) \in Nat
      /\ DOMAIN toMe' = 1 .. Len(toMe) + Len(s)
      /\ \A k \in 1 .. Len(toMe) : k \in DOMAIN toMe' /\ toMe'[k] = toMe[k]
      /\ \A k \in 1 .. Len(s) : toMe'[k + Len(toMe)] = s[k]
  BY Joined DEF NetOK
<1>2. \A k \in DOMAIN toMe' : toMe'[k].kind = "announce" => k \in DOMAIN toMe
  <2> SUFFICES ASSUME NEW k \in DOMAIN toMe', k \notin DOMAIN toMe
               PROVE  toMe'[k].kind # "announce"
    OBVIOUS
  <2>1. k - Len(toMe) \in 1 .. Len(s) /\ (k - Len(toMe)) + Len(toMe) = k
    BY <1>1
  <2>2. toMe'[k] = s[k - Len(toMe)]
    BY <1>1, <2>1
  <2> QED
    BY <1>1, <2>1, <2>2
<1>3. \A k \in DOMAIN toMe : k \in DOMAIN toMe' /\ toMe'[k] = toMe[k]
  BY <1>1
<1>4. LastNews'
  BY <1>2, <1>3 DEF LastNews
<1>5. NoNews' => NoNews
  BY <1>3 DEF NoNews
<1> QED
  BY <1>4, <1>5

News == {m \in MeMsg : m.kind = "announce"}

LEMMA LatestNews ==
  NetOK => (LastNews <=>
              (orderly => \A k : IsLast(toMe, k, News) => toMe[k].from = peerIp))
<1> SUFFICES ASSUME NetOK
             PROVE  LastNews <=>
                      (orderly => \A k : IsLast(toMe, k, News) => toMe[k].from = peerIp)
  OBVIOUS
<1>1. \A k \in DOMAIN toMe : toMe[k] \in News <=> toMe[k].kind = "announce"
  BY DEF NetOK, News
<1>2. \A k : IsLast(toMe, k, News) <=>
             /\ k \in DOMAIN toMe /\ toMe[k].kind = "announce"
             /\ \A j \in DOMAIN toMe : j > k => toMe[j].kind # "announce"
  BY <1>1 DEF IsLast
<1> QED
  BY <1>2 DEF LastNews

LEMMA NewsTaken ==
  ASSUME NetOK, NetOK', LastNews, NEW n \in DOMAIN toMe, toMe' = RemoveAt(toMe, n),
         UNCHANGED peerIp, orderly' => orderly,
         orderly' => \A j \in 1 .. n - 1 : ~ContradictsNews(toMe[j], toMe[n])
  PROVE  /\ LastNews'
         /\ NoNews' => IF toMe[n].kind = "announce"
                       THEN toMe[n].from = peerIp ELSE NoNews
<1>1. CASE ~orderly'
  BY <1>1, Disorder DEF NewsOK
<1>2. CASE orderly'
  <2> DEFINE s == toMe
  <2>1. s \in Seq(MeMsg) /\ toMe' = RemoveAt(s, n) /\ orderly
    BY <1>2 DEF NetOK
  <2>2. \A k : IsLast(s, k, News) => s[k].from = peerIp
    BY <2>1, LatestNews
  <2>3. /\ \A k : IsLast(toMe', k, News) =>
              WasLast(s, toMe'[k], News) \/ Overtaken(s, n, toMe'[k], News)
        /\ (\A k \in DOMAIN toMe' : toMe'[k] \notin News) =>
              IF s[n] \in News THEN IsLast(s, n, News) ELSE \A k \in DOMAIN s : s[k] \notin News
    BY <2>1, LastLeft
  <2>4. LastNews'
    <3>1. ASSUME NEW k, IsLast(toMe', k, News) PROVE toMe'[k].from = peerIp
      <4>1. CASE WasLast(s, toMe'[k], News)
        BY <2>2, <4>1 DEF WasLast
      <4>2. CASE Overtaken(s, n, toMe'[k], News)
        <5>1. PICK j \in DOMAIN s : j < n /\ s[j] \in News /\ toMe'[k] = s[j]
          BY <4>2 DEF Overtaken
        <5>2. s[n] \in News /\ s[n].from = peerIp
          BY <2>2, <4>2 DEF Overtaken, IsLast
        <5>3. j \in 1 .. n - 1
          BY <2>1, <5>1, LenProperties
        <5>4. ~ContradictsNews(s[j], s[n])
          BY <1>2, <5>3
        <5> QED
          BY <5>1, <5>2, <5>4 DEF ContradictsNews, News
      <4> QED
        BY <2>3, <3>1, <4>1, <4>2
    <3>2. (NetOK => (LastNews <=>
             (orderly => \A k : IsLast(toMe, k, News) => toMe[k].from = peerIp)))'
      BY LatestNews, PTL
    <3> QED
      BY <1>2, <3>1, <3>2
  <2>5. ASSUME NoNews'
        PROVE  IF s[n].kind = "announce" THEN s[n].from = peerIp ELSE NoNews
    <3>1. \A k \in DOMAIN toMe' : toMe'[k] \notin News
      BY <2>5 DEF NoNews, News
    <3>2. s[n] \in News <=> s[n].kind = "announce"
      BY <2>1 DEF News
    <3>3. CASE s[n].kind = "announce"
      BY <2>2, <2>3, <3>1, <3>2, <3>3
    <3>4. CASE s[n].kind # "announce"
      <4>1. \A k \in DOMAIN s : s[k] \in MeMsg /\ s[k] \notin News
        BY <2>1, <2>3, <3>1, <3>2, <3>4
      <4> QED
        BY <2>1, <3>4, <4>1 DEF NoNews, News
    <3> QED
      BY <3>3, <3>4
  <2> QED
    BY <2>4, <2>5
<1> QED
  BY <1>1, <1>2

------------------------------------------------------------------------------
(* The steps, one after the other; first those of the device.              *)

LEMMA DeviceInStep ==
  ASSUME SyncInv, UNCHANGED <<list, queue, pt, ot, token, myIp, peerIp>>,
         LastNews', NoNews' => NoNews, OwnMessages', PeerListOK',
         \A u, t : TokenArrives(u, t) => TokenArrives(u, t)',
         AddressArrives => AddressArrives'
  PROVE  InStep'
<1>1. ThreadsOK'
  BY Parts, ThreadsStay
<1>2. NewsOK' /\ (Settled' => Settled)
  BY Parts, NewsStay
<1>3. \A d \in Slot, e \in Entry : TokenOf(d, e)' = TokenOf(d, e)
                                   /\ ToBeRenewed(e)' = ToBeRenewed(e)
  BY SameTokens, SamePlace
<1>4. Agreed'
  BY <1>2, <1>3, Parts, AgreedStays
<1> QED
  BY <1>1, <1>2, <1>4 DEF InStep

LEMMA PeerInStep ==
  ASSUME SyncInv, NEW n \in DOMAIN toPeer, PeerReceives(n) PROVE InStep'
<1>1. /\ UNCHANGED <<vars, myIp, peerIp>> /\ toMe' = answered(toPeer[n])
      /\ orderly' => orderly
  BY DEF PeerReceives, addresses
<1>2. UNCHANGED <<list, queue, pt, ot, token>>
  BY <1>1 DEF vars
<1>3. LastNews' /\ (NoNews' => NoNews)
  <2> DEFINE m == toPeer[n]
             a == [kind |-> "uris", to |-> m.from]
  <2>1. CASE toMe' = Append(toMe, a)
    <3>1. a \in MeMsg /\ a.kind # "announce"
      BY Parts, Given, Kinds
    <3>2. toMe \in Seq(MeMsg)
      BY Parts DEF NetOK
    <3> HIDE DEF a
    <3>3. toMe' = toMe \o << a >>
      BY <2>1, <3>1, <3>2
    <3>4. << a >> \in Seq(MeMsg) /\ \A k \in DOMAIN << a >> : << a >>[k].kind # "announce"
      BY <3>1, OneSeq
    <3> QED
      BY <1>1, <3>3, <3>4, Parts, NoNewsIn
  <2>2. CASE UNCHANGED toMe
    BY <1>1, <2>2, Parts DEF LastNews, NoNews
  <2> QED
    BY <1>1, <2>1, <2>2 DEF answered
<1>4. CASE orderly'
  BY <1>1, <1>2, <1>3, <1>4, Parts, Received, DeviceInStep
<1>5. CASE ~orderly'
  <2>1. ThreadsOK' /\ OwnMessages' /\ PeerListOK'
    BY <1>2, Parts, ThreadsStay, Received
  <2> QED
    BY <1>5, <2>1, Disorder DEF InStep
<1> QED
  BY <1>4, <1>5

(* A message that is given up leaves what no order has a part in.          *)
LEMMA LossInStep ==
  ASSUME SyncInv, UNCHANGED <<vars, subList>>, ~orderly', OwnMessages'
  PROVE  InStep'
<1>1. UNCHANGED <<list, queue, pt, ot, token>>
  BY DEF vars
<1>2. ThreadsOK' /\ PeerListOK'
  BY <1>1, Parts, ThreadsStay DEF PeerListOK
<1> QED
  BY <1>2, Disorder DEF InStep

LEMMA LostToPeerInStep ==
  ASSUME SyncInv, NEW n \in DOMAIN toPeer, LostToPeer(n) PROVE InStep'
<1>1. toPeer' = RemoveAt(toPeer, n) /\ toPeer \in Seq(PeerMsg)
  BY Parts, Given DEF LostToPeer
<1>2. \A k \in DOMAIN toPeer' : \E j \in DOMAIN toPeer : toPeer'[k] = toPeer[j]
  BY <1>1, RemoveAtProperties
<1>3. OwnMessages'
  BY <1>2, Parts DEF OwnMessages
<1>4. ~orderly' /\ UNCHANGED <<vars, subList>>
  BY DEF LostToPeer
<1> QED
  BY <1>3, <1>4, LossInStep

LEMMA LostToMeInStep ==
  ASSUME SyncInv, NEW n \in DOMAIN toMe, LostToMe(n) PROVE InStep'
<1>1. ~orderly' /\ UNCHANGED <<vars, subList, toPeer>>
  BY DEF LostToMe
<1>2. OwnMessages'
  BY <1>1, Parts DEF OwnMessages
<1> QED
  BY <1>1, <1>2, LossInStep

LEMMA AnnounceInStep ==
  ASSUME SyncInv, NEW ip \in PeerIp, Announce(ip) PROVE InStep'
<1> DEFINE a == announcement(ip)
<1>1. /\ UNCHANGED <<list, queue, pt, ot, token, subList, myIp, toPeer>> /\ peerIp' = ip
      /\ toMe' = Append(toMe, a)
  BY DEF Announce, vars
<1>2. a \in MeMsg /\ a.kind = "announce" /\ a.from = ip
  BY Parts, Given, Kinds DEF announcement
<1> HIDE DEF a
<1>3. NewsOK' /\ Agreed'
  BY <1>1, <1>2, Parts, NewsAhead DEF NetOK
<1>4. ThreadsOK' /\ OwnMessages' /\ PeerListOK'
  BY <1>1, Parts, ThreadsStay DEF OwnMessages, PeerListOK
<1> QED
  BY <1>3, <1>4 DEF InStep

LEMMA EventInStep ==
  ASSUME SyncInv, NEW u \in Uri, Event(u), NetOK' PROVE InStep'
<1> DEFINE told == L!notify(subList, Elsewhere, u)
           f == [n \in told |-> [kind |-> "event", to |-> n.ip, token |-> n.token,
                                 uri |-> u]]
           E == {f[n] : n \in told}
<1>1. UNCHANGED <<list, queue, pt, ot, token, subList, myIp, peerIp, toPeer, orderly>>
  BY DEF Event, addresses, vars
<1>2. toMe' = toMe \o SetToSeq(E)
  BY DEF Event
<1>3. \A n \in told : f[n].kind = "event"
  OBVIOUS
<1>4. DOMAIN f = told
  OBVIOUS
<1> HIDE DEF told, f
<1>5. IsFiniteSet(E)
  BY <1>4, FewAreTold, ImageIsFinite DEF told
<1>6. \A e \in E : e.kind = "event"
  BY <1>3
<1> HIDE DEF E
<1>7. SetToSeq(E) \in Seq(E)
  BY <1>5, SetIsSeq
<1>8. SetToSeq(E) \in Seq(MeMsg)
  <2> PICK s : s = SetToSeq(E)
    OBVIOUS
  <2>1. /\ s \in Seq(E) /\ toMe \in Seq(MeMsg) /\ toMe' \in Seq(MeMsg)
        /\ toMe' = toMe \o s
    BY <1>2, <1>7, Parts DEF NetOK
  <2>2. \A k \in 1 .. Len(s) : s[k] \in MeMsg
    <3>1. \A k \in 1 .. Len(s) : /\ k + Len(toMe) \in DOMAIN (toMe \o s)
                                 /\ (toMe \o s)[k + Len(toMe)] = s[k]
      BY <2>1
    <3> QED
      BY <2>1, <3>1
  <2>3. s \in Seq(MeMsg)
    BY <2>1, <2>2
  <2> QED
    BY <2>3
<1>9. LastNews' /\ (NoNews' => NoNews)
  <2>1. \A k \in DOMAIN SetToSeq(E) : SetToSeq(E)[k] \in E
    BY <1>7
  <2>2. \A k \in DOMAIN SetToSeq(E) : SetToSeq(E)[k].kind # "announce"
    BY <1>6, <2>1
  <2> QED
    BY <1>1, <1>2, <1>8, <2>2, Parts, NoNewsIn
<1>10. OwnMessages' /\ PeerListOK'
  BY <1>1, Parts DEF OwnMessages, PeerListOK
<1>11. \A v, t : TokenArrives(v, t) => TokenArrives(v, t)'
  BY <1>1, Unmoved
<1>12. AddressArrives => AddressArrives'
  BY <1>1 DEF AddressArrives
<1> QED
  BY <1>1, <1>9, <1>10, <1>11, <1>12, DeviceInStep

LEMMA EmptySlotOK == PeerSlotOK(L!EmptyList[0])
<1>1. L!EmptyList[0] = L!EmptySlot
  BY PeerShape DEF L!EmptyList
<1>2. ~L!EmptySlot.taken /\ \A e \in L!Entry : L!EmptySlot.uri[e] = L!EmptyEntry
  BY DEF L!EmptySlot
<1>3. ~L!EmptyEntry.taken
  BY DEF L!EmptyEntry
<1> QED
  BY <1>1, <1>2, <1>3 DEF PeerSlotOK

LEMMA PeerRestartInStep == ASSUME SyncInv, PeerRestarts PROVE InStep'
<1> DEFINE a == announcement(peerIp)
<1>1. /\ UNCHANGED <<list, queue, pt, ot, token, myIp, peerIp, toPeer>>
      /\ subList' = L!EmptyList
  BY DEF PeerRestarts, addresses, vars
<1>2. PICK kept \in {<< >>, toMe} : toMe' = Append(kept, a)
  BY DEF PeerRestarts
<1>3. a \in MeMsg /\ a.kind = "announce" /\ a.from = peerIp
  BY Parts, Given, Kinds DEF announcement
<1> HIDE DEF a
<1>4. kept \in Seq(MeMsg)
  <2>1. << >> \in Seq(MeMsg) /\ toMe \in Seq(MeMsg)
    BY Parts DEF NetOK
  <2> QED
    BY <1>2, <2>1
<1>5. NewsOK' /\ Agreed'
  BY <1>1, <1>2, <1>3, <1>4, NewsAhead
<1>6. PeerListOK'
  BY <1>1, EmptySlotOK DEF PeerListOK
<1>7. ThreadsOK' /\ OwnMessages'
  BY <1>1, Parts, ThreadsStay DEF OwnMessages
<1> QED
  BY <1>5, <1>6, <1>7 DEF InStep

LEMMA RestartInStep == ASSUME SyncInv, IRestart PROVE InStep'
<1> DEFINE a == announcement(peerIp)
<1>1. /\ UNCHANGED <<subList, myIp, peerIp, toPeer>> /\ list' = EmptyList
      /\ ot' = OtIdle /\ pt' = PtIdle /\ queue' = << >> /\ toMe' = << a >>
  BY DEF IRestart, addresses
<1>2. a \in MeMsg /\ a.kind = "announce" /\ a.from = peerIp
  BY Parts, Given, Kinds DEF announcement
<1> HIDE DEF a
<1>3. toMe' = Append(<< >>, a) /\ << >> \in Seq(MeMsg)
  BY <1>1
<1>4. NewsOK' /\ Agreed'
  BY <1>1, <1>2, <1>3, NewsAhead
<1>5. ThreadsOK'
  <2>1. pt'.at = "idle" /\ ot'.at = "idle" /\ DOMAIN queue' = {}
    BY <1>1 DEF OtIdle, PtIdle
  <2>2. OnlyPeer'
    BY <1>1, <2>1, OwnListEmpty, Ranges DEF OnlyPeer
  <2>3. TokensHaveUris'
    BY <1>1, <2>1, OwnListEmpty DEF TokensHaveUris
  <2> QED
    BY <2>1, <2>2, <2>3 DEF ThreadsOK, OneAtATime
<1>6. OwnMessages' /\ PeerListOK'
  BY <1>1, Parts DEF OwnMessages, PeerListOK
<1> QED
  BY <1>4, <1>5, <1>6 DEF InStep

LEMMA EmptyHasNone == \A s : s = << >> => Len(s) = 0
  OBVIOUS

(* The steps of the OpenThread thread, with the task at rest.              *)

LEMMA OneThread ==
  ASSUME SyncInv, ~Preempt
  PROVE  /\ MayRun("pt") => ot.at = "idle"
         /\ MayRun("ot") => pt.at = "idle"
  BY DEF MayRun

LEMMA MeInStep ==
  ASSUME SyncInv, ~Preempt, NetOK', NEW n \in DOMAIN toMe, MeReceives(n)
  PROVE  InStep'
<1> PICK m : m = toMe[n]
  OBVIOUS
<1>1. /\ toMe' = RemoveAt(toMe, n) /\ Deliver(m)
      /\ UNCHANGED <<subList, myIp, peerIp, toPeer>>
      /\ pt.at = "idle" /\ ot.at = "idle"
      /\ orderly' => /\ orderly /\ ~Dropped(m)
                     /\ \A j \in 1 .. n - 1 : ~ContradictsNews(toMe[j], toMe[n])
  BY OneThread DEF MeReceives, addresses
<1>2. /\ LastNews'
      /\ NoNews' => IF m.kind = "announce" THEN m.from = peerIp ELSE NoNews
  BY <1>1, Parts, NewsTaken
<1>3. OwnMessages' /\ PeerListOK'
  BY <1>1, Parts DEF OwnMessages, PeerListOK
<1>4. CASE m.kind = "announce"
  <2>1. PICK ip : ip = m.from
    OBVIOUS
  <2>2. addToQueue(Peer, ip)
    BY <1>1, <1>4, <2>1 DEF Deliver
  <2> DEFINE a == [name |-> Peer, ip |-> ip]
  <2>3. /\ queue' = IF Len(queue) < QueueMax THEN Append(queue, a) ELSE queue
        /\ UNCHANGED <<list, pt, ot, token>>
    BY <2>2 DEF addToQueue
  <2>4. queue \in Seq(ItemType) /\ a \in ItemType
    <3>1. m \in MeMsg
      BY Parts, Given
    <3>2. a.ip \in Ip
      BY <1>4, <2>1, <3>1, Kinds, PairAssumption, ObserveAssumption
    <3>3. queue \in Seq(ItemType)
      BY Parts, Types DEF IInv
    <3> QED
      BY <3>2, <3>3, ObserveAssumption DEF ItemType
  <2>5. a.name = Peer /\ a.ip = ip
    OBVIOUS
  <2> HIDE DEF a
  <2>6. \A k \in DOMAIN queue' : queue'[k] = a \/ \E j \in DOMAIN queue : queue'[k] = queue[j]
    BY <2>3, <2>4, Appended
  <2>7. ThreadsOK'
    <3>1. OnlyPeer'
      BY <2>3, <2>5, <2>6, Parts DEF OnlyPeer
    <3>2. TokensHaveUris' /\ OneAtATime'
      BY <2>3, Parts DEF TokensHaveUris, OneAtATime, HandlerIsAt
    <3> QED
      BY <3>1, <3>2 DEF ThreadsOK
  <2>8. ASSUME orderly' PROVE queue' # << >> /\ queue'[Len(queue')].ip = ip
    <3>1. CASE Len(queue) < QueueMax
      <4>1. queue' # << >> /\ queue'[Len(queue')] = a
        BY <2>3, <2>4, <3>1
      <4> QED
        BY <2>5, <4>1
    <3>2. CASE ~(Len(queue) < QueueMax)
      <4>1. QueueMax \in Nat \ {0} /\ Len(queue) \in Nat
        BY <2>4, PairAssumption
      <4>2. Len(queue) >= QueueMax /\ Len(queue) # 0
        BY <3>2, <4>1
      <4>3. queue[Len(queue)].ip = ip
        BY <1>1, <1>4, <2>1, <2>8, <4>2 DEF Dropped
      <4>4. queue # << >>
        BY <4>2, EmptyHasNone
      <4> QED
        BY <2>3, <3>2, <4>3, <4>4
    <3> QED
      BY <3>1, <3>2
  <2>9. NewsOK' /\ Agreed'
    <3>1. CASE orderly'
      <4>1. queue' # << >> /\ queue'[Len(queue')].ip = ip
        BY <2>8, <3>1
      <4>2. QueueIsLatest'
        BY <1>1, <1>2, <1>4, <2>1, <4>1 DEF QueueIsLatest
      <4>3. ~Settled'
        BY <4>1 DEF Settled
      <4> QED
        BY <1>2, <4>2, <4>3 DEF NewsOK, ListIsLatest, Agreed
    <3>2. CASE ~orderly'
      BY <3>2, Disorder
    <3> QED
      BY <3>1, <3>2
  <2> QED
    BY <1>3, <2>7, <2>9 DEF InStep
<1>5. CASE m.kind # "announce"
  <2>1. UNCHANGED <<list, queue, pt, token>> /\ (UNCHANGED ot \/ ot'.at = "send")
    BY <1>1, <1>5 DEF Deliver, HandlerUriWellKnown, vars
  <2>2. ThreadsOK'
    <3>1. OnlyPeer' /\ OneAtATime'
      BY <1>1, <2>1, Parts DEF OnlyPeer, OneAtATime
    <3>2. TokensHaveUris'
      BY <1>1, <2>1, Parts DEF TokensHaveUris
    <3> QED
      BY <3>1, <3>2 DEF ThreadsOK
  <2>3. NewsOK' /\ (Settled' => Settled)
    BY <1>1, <1>2, <1>5, <2>1, Parts, NewsStay
  <2>4. \A d \in Slot, e \in Entry : TokenOf(d, e)' = TokenOf(d, e)
                                     /\ ToBeRenewed(e)' = ToBeRenewed(e)
    BY <1>1, <2>1 DEF TokenOf, ToBeRenewed
  <2>5. \A u, t : TokenArrives(u, t) => TokenArrives(u, t)'
    BY <1>1, Unmoved
  <2>6. AddressArrives => AddressArrives'
    BY <1>1 DEF AddressArrives
  <2>7. Agreed'
    BY <2>1, <2>3, <2>4, <2>5, <2>6, Parts, AgreedStays
  <2> QED
    BY <1>3, <2>2, <2>3, <2>7 DEF InStep
<1> QED
  BY <1>4, <1>5

LEMMA RestInStep ==
  ASSUME SyncInv,
         UNCHANGED <<list, queue, pt, ot, token, subList, myIp, peerIp, toPeer, toMe, orderly>>
  PROVE  InStep'
<1>1. LastNews' /\ (NoNews' => NoNews)
  BY Parts, LastNewsStays
<1>2. OwnMessages' /\ PeerListOK'
  BY Parts DEF OwnMessages, PeerListOK
<1>3. \A u, t : TokenArrives(u, t) => TokenArrives(u, t)'
  BY Unmoved
<1>4. AddressArrives => AddressArrives'
  BY DEF AddressArrives
<1> QED
  BY <1>1, <1>2, <1>3, <1>4, DeviceInStep

LEMMA TimeoutInStep == ASSUME SyncInv, GetTimeout PROVE InStep'
<1>1. UNCHANGED <<list, queue, pt, ot, token, subList, myIp, peerIp, toPeer, toMe, orderly>>
  BY DEF GetTimeout, NoUris, addresses
<1> QED
  BY <1>1, RestInStep

(* The steps of the pair task, with the handler at rest.  Until a device is *)
(* renewed nothing is claimed of it.                                       *)
LEMMA TaskInStep ==
  ASSUME SyncInv, ot.at = "idle",
         UNCHANGED <<ot, token, subList, myIp, peerIp, toPeer, toMe, orderly>>,
         OnlyPeer', QueueIsLatest', ListIsLatest',
         \A d \in Slot, e \in Entry : list'[d].uris[e] = list[d].uris[e],
         \A d \in Slot, e \in Entry :
           Settled' /\ list'[d].taken /\ list[d].uris[e].token \in Token => ToBeRenewed(e)'
  PROVE  InStep'
<1>1. TokensHaveUris' /\ OneAtATime'
  BY Parts DEF TokensHaveUris, OneAtATime
<1>2. LastNews' /\ OwnMessages' /\ PeerListOK'
  BY Parts, LastNewsStays DEF OwnMessages, PeerListOK
<1>3. \A d \in Slot, e \in Entry : TokenOf(d, e)' = list[d].uris[e].token
  BY DEF TokenOf
<1>4. Agreed'
  BY <1>3 DEF Agreed
<1> QED
  BY <1>1, <1>2, <1>4 DEF InStep, ThreadsOK, NewsOK

LEMMA LastIsLeft ==
  ASSUME NEW S, NEW s \in Seq(S), s # << >>
  PROVE  Tail(s) = << >> => Len(s) = 1
<1>1. /\ Tail(s) \in Seq(S) /\ Len(Tail(s)) = Len(s) - 1
      /\ DOMAIN s = 1 .. Len(s) /\ Len(s) \in Nat /\ Len(s) >= 1
  OBVIOUS
<1>2. Tail(s) = << >> => Len(Tail(s)) = 0
  BY EmptyHasNone, Zenon
<1>3. \A n \in Nat : n - 1 = 0 => n = 1
  OBVIOUS
<1> QED
  BY <1>1, <1>2, <1>3, Zenon

LEMMA ReceiveInStep ==
  ASSUME SyncInv, ot.at = "idle", Receive, silent, UNCHANGED <<subList, addresses, orderly>>
  PROVE  InStep'
<1>1. /\ UNCHANGED <<list, ot, token, subList, myIp, peerIp, toPeer, toMe, orderly>>
      /\ queue # << >> /\ queue' = Tail(queue) /\ pt.at = "idle"
  BY DEF Receive, silent, addresses
<1>2. queue \in Seq(ItemType)
  BY Parts, Types DEF IInv
<1>3. Head(queue).name = Peer /\ Head(queue) = queue[1] /\ 1 \in DOMAIN queue
  BY <1>1, <1>2, Parts, Taken DEF OnlyPeer
<1>4. \/ /\ Peer \in Allowed /\ pt'.at = "add" /\ pt'.name = Peer
         /\ pt'.ip = Head(queue).ip
      \/ Peer \notin Allowed /\ pt'.at = "idle"
  BY <1>3 DEF Receive, PtIdle
<1>5. OnlyPeer'
  <2>1. \A k \in DOMAIN queue' : \E j \in DOMAIN queue : queue'[k] = queue[j]
    BY <1>1, <1>2, Taken
  <2> QED
    BY <1>1, <1>4, <2>1, Parts DEF OnlyPeer
<1>6. QueueIsLatest'
  <2> SUFFICES ASSUME NoNews
               PROVE  /\ queue' # << >> => queue'[Len(queue')].ip = peerIp
                      /\ queue' = << >> /\ pt'.at \in {"add", "moved"} => pt'.ip = peerIp
    BY <1>1 DEF QueueIsLatest, NoNews
  <2>1. queue[Len(queue)].ip = peerIp
    BY <1>1, Parts DEF QueueIsLatest
  <2>2. CASE queue' # << >>
    <3>1. queue'[Len(queue')] = queue[Len(queue)]
      BY <1>1, <1>2, <2>2
    <3> QED
      BY <2>1, <2>2, <3>1
  <2>3. CASE queue' = << >>
    <3>1. Len(queue) = 1
      BY <1>1, <1>2, <2>3, LastIsLeft
    <3> QED
      BY <1>3, <1>4, <2>1, <2>3, <3>1
  <2> QED
    BY <2>2, <2>3
<1>7. Settled' => \A d \in Slot : ~list'[d].taken
  BY <1>1, <1>4, Parts DEF Settled, OnlyPeer
<1>8. ListIsLatest'
  BY <1>7 DEF ListIsLatest
<1> QED
  BY <1>1, <1>5, <1>6, <1>7, <1>8, TaskInStep

LEMMA AddNewInStep ==
  ASSUME SyncInv, ot.at = "idle", AddNew, silent, UNCHANGED <<subList, addresses, orderly>>
  PROVE  InStep'
<1> DEFINE d == DeviceAdd(list, pt.name, pt.ip)
<1>1. /\ UNCHANGED <<queue, ot, token, subList, myIp, peerIp, toPeer, toMe, orderly>>
      /\ pt.at = "add" /\ pt' = [pt EXCEPT !.at = "get", !.slot = d]
      /\ list' = spaceTake(list, d, pt.name, pt.ip)
  BY DEF AddNew, silent, addresses
<1>2. d \in Slot /\ ~list[d].taken /\ \A c \in Slot : ~Holds(c, pt.name)
  BY AddedToFreeSlot DEF AddNew
<1>3. pt.name = Peer /\ Peer \in Allowed
  BY <1>1, Parts DEF OnlyPeer
<1> HIDE DEF d
<1>4. \A c \in Slot : ~list[c].taken
  BY <1>2, <1>3, Parts, Peers
<1>5. list' = [list EXCEPT ![d] = [list[d] EXCEPT !.name = pt.name, !.ip = pt.ip,
                                                  !.taken = TRUE]]
  BY <1>1, <1>2, Parts, Given DEF spaceTake, DeviceType
<1>6. /\ \A c \in Slot : c # d => list'[c] = list[c]
      /\ list'[d].uris = list[d].uris /\ list'[d].ip = pt.ip /\ list'[d].name = pt.name
  BY <1>2, <1>5, Parts, Given DEF DeviceType
<1>7. pt'.at = "get" /\ pt'.name = pt.name
  BY <1>1, Parts, Given DEF TaskType
<1>8. OnlyPeer'
  BY <1>1, <1>3, <1>4, <1>6, <1>7, Parts DEF OnlyPeer
<1>9. QueueIsLatest'
  BY <1>1, <1>7, Parts DEF QueueIsLatest, NoNews
<1>10. ListIsLatest'
  <2>1. Settled' => pt.ip = peerIp
    BY <1>1, Parts DEF Settled, QueueIsLatest, NoNews
  <2> QED
    BY <1>1, <1>4, <1>6, <2>1 DEF ListIsLatest
<1>11. \A c \in Slot, e \in Entry :
        list'[c].uris[e] = list[c].uris[e] /\ list[c].uris[e].token \notin Token
  <2>1. \A c \in Slot, e \in Entry : list[c].uris[e].token = NoToken
    BY <1>4, Parts DEF ObsInv, FreeHasNoTokens
  <2> QED
    BY <1>6, <2>1, PairListAssumption
<1> QED
  BY <1>1, <1>8, <1>9, <1>10, <1>11, TaskInStep

LEMMA AddRefusedInStep ==
  ASSUME SyncInv, ot.at = "idle", AddRefused, silent, UNCHANGED <<subList, addresses, orderly>>
  PROVE  InStep'
<1>1. /\ UNCHANGED <<list, queue, ot, token, subList, myIp, peerIp, toPeer, toMe, orderly>>
      /\ pt.at = "add" /\ pt'.at = "idle"
  BY DEF AddRefused, silent, addresses, PtIdle
<1>2. DeviceIsExist(list, pt.name) \notin Slot
  <2>1. UPDATED # NO_SPACE /\ NO_NEED_UPDATE # NO_SPACE /\ NO_EXIST \notin Slot
    BY Ranges DEF UPDATED, NO_NEED_UPDATE, NO_SPACE, NO_EXIST
  <2> QED
    BY <2>1 DEF AddRefused, DeviceAdd
<1>3. \A c \in Slot : ~Holds(c, pt.name)
  BY <1>2, ListSearch
<1>4. pt.name = Peer
  BY <1>1, Parts DEF OnlyPeer
<1>5. \A c \in Slot : ~list[c].taken
  BY <1>3, <1>4, Peers
<1>6. OnlyPeer' /\ QueueIsLatest' /\ ListIsLatest'
  <2>1. OnlyPeer'
    BY <1>1, Parts DEF OnlyPeer
  <2>2. QueueIsLatest'
    BY <1>1, Parts DEF QueueIsLatest, NoNews
  <2>3. ListIsLatest'
    BY <1>1, <1>5 DEF ListIsLatest
  <2> QED
    BY <2>1, <2>2, <2>3
<1> QED
  BY <1>1, <1>5, <1>6, TaskInStep

(* The one device has the address that was announced. *)
LEMMA AddKnownInStep ==
  ASSUME SyncInv, ot.at = "idle", AddKnown, silent, UNCHANGED <<subList, addresses, orderly>>
  PROVE  InStep'
<1> DEFINE d == DeviceIsExist(list, pt.name)
           moves == DeviceAdd(list, pt.name, pt.ip) = UPDATED
<1>1. /\ UNCHANGED <<queue, ot, token, subList, myIp, peerIp, toPeer, toMe, orderly>>
      /\ pt.at = "add"
      /\ list' = IF moves THEN [list EXCEPT ![d].ip = TornIp] ELSE list
      /\ pt' = [pt EXCEPT !.at = IF moves THEN "moved" ELSE "resend", !.slot = d]
      /\ d # NO_EXIST
  BY DEF AddKnown, silent, addresses
<1>2. d \in Slot /\ Holds(d, pt.name)
  BY <1>1, ListSearch
<1>3. pt.name = Peer /\ Peer \in Allowed
  BY <1>1, Parts DEF OnlyPeer
<1>4. ~moves => list[d].ip = pt.ip
  BY <1>1 DEF DeviceAdd
<1> HIDE DEF d, moves
<1>5. /\ pt'.name = pt.name /\ pt'.ip = pt.ip /\ pt'.uri = pt.uri
      /\ pt'.at = IF moves THEN "moved" ELSE "resend"
  BY <1>1, Parts, Given DEF TaskType
<1>6. pt.uri = 0
  BY <1>1, Parts DEF IInv, TaskOnItsDevice
<1>7. \A c \in Slot : /\ list'[c].taken = list[c].taken /\ list'[c].name = list[c].name
                      /\ list'[c].uris = list[c].uris
  <2>1. CASE moves
    BY <1>1, <1>2, <2>1, Parts, Given DEF DeviceType
  <2>2. CASE ~moves
    BY <1>1, <2>2
  <2> QED
    BY <2>1, <2>2
<1>8. OnlyPeer'
  BY <1>1, <1>3, <1>5, <1>7, Parts DEF OnlyPeer
<1>9. QueueIsLatest'
  BY <1>1, <1>5, Parts DEF QueueIsLatest, NoNews
<1>10. ListIsLatest'
  <2> SUFFICES ASSUME Settled', NEW c \in Slot, list'[c].taken
               PROVE  list'[c].ip = peerIp
    BY <1>1 DEF ListIsLatest
  <2>1. ~moves /\ pt.ip = peerIp
    BY <1>1, <1>5, Parts DEF Settled, QueueIsLatest, NoNews
  <2>2. c = d
    BY <1>2, <1>7, Peers DEF Holds
  <2> QED
    BY <1>1, <1>4, <2>1, <2>2
<1>11. ASSUME Settled', NEW e \in Entry PROVE ToBeRenewed(e)'
  <2>1. pt'.at = "resend"
    BY <1>5, <1>11 DEF Settled
  <2>2. pt'.uri = 0 /\ e \in Nat
    BY <1>5, <1>6, Ranges
  <2> QED
    BY <2>1, <2>2 DEF ToBeRenewed
<1> QED
  BY <1>1, <1>7, <1>8, <1>9, <1>10, <1>11, TaskInStep

LEMMA UpdateInStep ==
  ASSUME SyncInv, ot.at = "idle", ipAddressUpdate, silent, UNCHANGED <<subList, addresses, orderly>>
  PROVE  InStep'
<1>1. /\ UNCHANGED <<queue, ot, token, subList, myIp, peerIp, toPeer, toMe, orderly>>
      /\ pt.at = "moved" /\ list' = [list EXCEPT ![pt.slot].ip = pt.ip]
      /\ pt' = [pt EXCEPT !.at = "resend"]
  BY DEF ipAddressUpdate, silent, addresses
<1>2. pt.slot \in Slot /\ Holds(pt.slot, pt.name) /\ pt.uri = 0
  BY <1>1, Parts, Given DEF IInv, TaskOnItsDevice, TaskType
<1>3. pt.name = Peer /\ Peer \in Allowed
  BY <1>1, Parts DEF OnlyPeer
<1>4. pt'.name = pt.name /\ pt'.uri = pt.uri /\ pt'.at = "resend"
  BY <1>1, Parts, Given DEF TaskType
<1>5. /\ \A c \in Slot : /\ list'[c].taken = list[c].taken /\ list'[c].name = list[c].name
                         /\ list'[c].uris = list[c].uris
      /\ list'[pt.slot].ip = pt.ip
  BY <1>1, <1>2, Parts, Given DEF DeviceType
<1>6. OnlyPeer'
  BY <1>1, <1>3, <1>4, <1>5, Parts DEF OnlyPeer
<1>7. QueueIsLatest'
  BY <1>1, <1>4, Parts DEF QueueIsLatest, NoNews
<1>8. ListIsLatest'
  <2> SUFFICES ASSUME Settled', NEW c \in Slot, list'[c].taken
               PROVE  list'[c].ip = peerIp
    BY <1>1 DEF ListIsLatest
  <2>1. pt.ip = peerIp
    BY <1>1, Parts DEF Settled, QueueIsLatest, NoNews
  <2>2. c = pt.slot
    BY <1>2, <1>5, Peers DEF Holds
  <2> QED
    BY <1>5, <2>1, <2>2
<1>9. ASSUME NEW e \in Entry PROVE ToBeRenewed(e)'
  <2>1. pt'.uri = 0 /\ e \in Nat
    BY <1>2, <1>4, Ranges
  <2> QED
    BY <1>4, <2>1 DEF ToBeRenewed
<1>10. \A d \in Slot, e \in Entry : list'[d].uris[e] = list[d].uris[e]
  BY <1>5
<1> QED
  BY <1>1, <1>6, <1>7, <1>8, <1>9, <1>10, TaskInStep

(* What is sent.                                                           *)

(* Tokens are for the URI at their place, and no other entry has it. *)
LEMMA KnownEntry ==
  ASSUME SyncInv, NEW d \in Slot, NEW e \in Entry, list[d].uris[e].token \in Token,
         ot.at # "uri" \/ ~HandlerIsAt(d, e)
  PROVE  /\ list[d].taken /\ list[d].uris[e].uri = Offers[Peer][e + 1]
         /\ e + 1 \in DOMAIN Offers[Peer] /\ Offers[Peer][e + 1] \in Served
<1>1. list[d].uris[e].token # NoToken
  BY PairListAssumption
<1>2. list[d].uris[e].uri # NoUri
  BY <1>1, Parts DEF TokensHaveUris
<1>3. list[d].taken /\ e < Len(Offers[Peer]) /\ list[d].uris[e].uri = Offers[Peer][e + 1]
  BY <1>2, Peers
<1> QED
  BY <1>3, ServedUris

LEMMA OneSent ==
  ASSUME SyncInv, NEW m \in PeerMsg, toPeer' = toPeer \o << m >>,
         UNCHANGED <<subList, myIp, peerIp>>, m.from = myIp
  PROVE  /\ m.kind = "get" \/ m.uri \in Served => OwnMessages'
         /\ \A u, t : /\ TokenArrives(u, t) \/ m \in About(peerIp, u)
                      /\ m \in About(peerIp, u) => m.token = t
                      => TokenArrives(u, t)'
         /\ AddressArrives \/ m \in Home(peerIp) => AddressArrives'
<1>1. << m >> \in Seq(PeerMsg) /\ \A i \in DOMAIN << m >> : << m >>[i] = m
  BY OneSeq
<1>2. 1 \in DOMAIN << m >>
  OBVIOUS
<1>3. toPeer \in Seq(PeerMsg) /\ NetOK
  BY Parts DEF NetOK
<1> DEFINE s == << m >>
<1>4. /\ s \in Seq(PeerMsg) /\ \A i \in DOMAIN s : s[i] = m
      /\ 1 \in DOMAIN s /\ toPeer' = toPeer \o s
  BY <1>1, <1>2
<1> HIDE DEF s
<1>5. \A k \in DOMAIN toPeer' : \/ \E j \in DOMAIN toPeer : toPeer'[k] = toPeer[j]
                                \/ toPeer'[k] = m
  BY <1>3, <1>4, Places
<1>6. m.kind = "get" \/ m.uri \in Served => OwnMessages'
  BY <1>5, Parts DEF OwnMessages
<1>7. \A u, t : /\ TokenArrives(u, t) \/ m \in About(peerIp, u)
                /\ m \in About(peerIp, u) => m.token = t
                => TokenArrives(u, t)'
  BY <1>3, <1>4, Sent
<1>8. AddressArrives \/ m \in Home(peerIp) => AddressArrives'
  BY <1>3, <1>4, Sent
<1> QED
  BY <1>6, <1>7, <1>8

(* The loop goes on to the next entry, or to the GET. *)
GoneOn(p, u, c) == [p EXCEPT !.uri = u, !.count = c]
ToGet(p) == [p EXCEPT !.at = "get", !.uri = 0]

LEMMA TaskGoesOn ==
  ASSUME NEW p \in TaskType, NEW u, NEW c
  PROVE  /\ GoneOn(p, u, c).at = p.at /\ GoneOn(p, u, c).name = p.name
         /\ GoneOn(p, u, c).uri = u
         /\ ToGet(GoneOn(p, u, c)).at = "get" /\ ToGet(GoneOn(p, u, c)).name = p.name
  BY DEF TaskType, GoneOn, ToGet

LEMMA RenewInStep ==
  ASSUME SyncInv, IsInjective(Offers[Peer]), ot.at = "idle", subSendRequest,
         send(subSendRequestMessages(myIp)), UNCHANGED toMe,
         UNCHANGED <<subList, addresses, orderly>>
  PROVE  InStep'
<1> DEFINE m == subSendRequestMessages(myIp)
           entry == list[pt.slot].uris[pt.uri]
           r == [kind |-> "update", ip |-> list[pt.slot].ip, uri |-> entry.uri,
                 token |-> entry.token, from |-> myIp]
<1>1. /\ UNCHANGED <<list, queue, ot, token, subList, myIp, peerIp, toMe, orderly>>
      /\ toPeer' = toPeer \o m /\ pt.at = "resend"
  BY DEF subSendRequest, send, addresses
<1>2. /\ pt.slot \in Slot /\ pt.uri \in Entry /\ list[pt.slot] \in DeviceType
      /\ list[pt.slot].taken /\ pt.name = Peer /\ Peer \in Allowed
  BY <1>1, Parts, Given DEF TaskType, IInv, TaskOnItsDevice, Holds, OnlyPeer
<1>3. /\ pt'.at \in {"resend", "get", "idle"}
      /\ pt'.at # "idle" => pt'.name = Peer
      /\ pt'.at = "resend" \/ pt.uri + 1 >= UriMax
      /\ pt'.at = "resend" => pt'.uri = pt.uri + 1
  <2> DEFINE sent == IF uriTokenIsValid(entry.token) THEN 1 ELSE 0
             next == [pt EXCEPT !.uri = @ + 1, !.count = @ + sent]
             asks == [next EXCEPT !.at = "get", !.uri = 0]
  <2>1. pt' = IF next.uri < UriMax THEN next
              ELSE IF next.count = 0 THEN asks ELSE PtIdle
    BY DEF subSendRequest
  <2>2. /\ next.at = "resend" /\ next.name = Peer /\ next.uri = pt.uri + 1
        /\ asks.at = "get" /\ asks.name = Peer
    <3>1. pt \in TaskType
      BY Parts, Given
    <3>2. PICK c : c = pt.count + sent
      OBVIOUS
    <3>3. next = GoneOn(pt, pt.uri + 1, c) /\ asks = ToGet(next)
      BY <3>2 DEF GoneOn, ToGet
    <3> HIDE DEF sent, next, asks
    <3> QED
      BY <1>1, <1>2, <3>1, <3>3, TaskGoesOn
  <2> HIDE DEF next, asks
  <2>3. PtIdle.at = "idle"
    BY DEF PtIdle
  <2>4. pt.uri + 1 \in Int /\ UriMax \in Int
    <3>1. pt.uri \in Nat /\ UriMax \in Nat
      BY <1>2, Ranges
    <3> QED
      BY <3>1
  <2> QED
    BY <2>1, <2>2, <2>3, <2>4
<1>4. /\ entry.uri \in Uri \cup {NoUri} /\ entry.token \in Token \cup {NoToken}
      /\ list[pt.slot].ip \in Ip \cup {NoIp, TornIp}
  BY <1>2 DEF DeviceType
<1>5. ThreadsOK'
  <2>1. OnlyPeer'
    BY <1>1, <1>2, <1>3, Parts DEF OnlyPeer
  <2>2. TokensHaveUris' /\ OneAtATime'
    BY <1>1, Parts DEF TokensHaveUris, OneAtATime
  <2> QED
    BY <2>1, <2>2 DEF ThreadsOK
<1>6. Settled' => Settled
  BY <1>1 DEF Settled, NoNews
<1>7. NewsOK'
  <2>1. QueueIsLatest'
    BY <1>1, <1>3, Parts DEF QueueIsLatest, NoNews
  <2>2. ListIsLatest'
    BY <1>1, <1>6, Parts DEF ListIsLatest
  <2> QED
    BY <1>1, <2>1, <2>2, Parts, LastNewsStays DEF NewsOK
<1>8. PeerListOK'
  BY <1>1, Parts DEF PeerListOK
<1>9. ASSUME NEW d \in Slot, NEW e \in Entry, NEW t \in Token,
             Settled', list'[d].taken, TokenOf(d, e)' = t, ~ToBeRenewed(e)'
      PROVE  /\ Settled /\ d = pt.slot /\ list[d].uris[e].token = t
             /\ e # pt.uri => TokenArrives(Offers[Peer][e + 1], t) /\ AddressArrives
             /\ list[pt.slot].ip = peerIp
             /\ e + 1 \in DOMAIN Offers[Peer]
  <2>1. /\ Settled /\ list[d].taken /\ d = pt.slot /\ list[d].uris[e].token = t
        /\ TokenOf(d, e) = t
    BY <1>1, <1>2, <1>6, <1>9, Peers DEF TokenOf
  <2>2. e <= pt.uri
    BY <1>2, <1>3, <1>9, Ranges DEF ToBeRenewed, Entry
  <2>3. e # pt.uri => ~ToBeRenewed(e)
    <3>1. e \in Nat /\ pt.uri \in Nat
      BY <1>2, Ranges
    <3> QED
      BY <2>2, <3>1 DEF ToBeRenewed
  <2>4. e # pt.uri => TokenArrives(Offers[Peer][e + 1], t) /\ AddressArrives
    BY <2>1, <2>3, Parts DEF Agreed
  <2>5. e + 1 \in DOMAIN Offers[Peer]
    BY <1>1, <2>1, KnownEntry
  <2>6. list[pt.slot].ip = peerIp
    BY <1>2, <2>1, Parts DEF ListIsLatest
  <2> QED
    BY <2>1, <2>4, <2>5, <2>6
<1>10. CASE entry.token = NoToken
  <2>1. m = << >>
    BY <1>10 DEF subSendRequestMessages, uriTokenIsValid
  <2>2. UNCHANGED toPeer
    <3>1. toPeer \in Seq(PeerMsg)
      BY Parts DEF NetOK
    <3> QED
      BY <1>1, <2>1, <3>1
  <2>3. OwnMessages'
    BY <2>2, Parts DEF OwnMessages
  <2>4. Agreed'
    <3> SUFFICES ASSUME NEW d \in Slot, NEW e \in Entry, NEW t \in Token,
                        Settled', list'[d].taken, TokenOf(d, e)' = t, ~ToBeRenewed(e)'
                 PROVE  TokenArrives(Offers[Peer][e + 1], t)' /\ AddressArrives'
      BY DEF Agreed
    <3>1. TokenArrives(Offers[Peer][e + 1], t) /\ AddressArrives
      BY <1>9, <1>10, PairListAssumption
    <3> QED
      BY <1>1, <2>2, <3>1, Unmoved DEF AddressArrives
  <2> QED
    BY <1>5, <1>7, <1>8, <2>3, <2>4 DEF InStep
<1>11. CASE entry.token # NoToken
  <2>1. m = << r >>
    BY <1>11 DEF subSendRequestMessages, uriTokenIsValid
  <2>2. entry.token \in Token
    BY <1>4, <1>11
  <2>3. /\ entry.uri = Offers[Peer][pt.uri + 1] /\ pt.uri + 1 \in DOMAIN Offers[Peer]
        /\ Offers[Peer][pt.uri + 1] \in Served
    BY <1>2, <2>2, KnownEntry
  <2>4. r \in PeerMsg
    BY <1>4, <2>2, Parts, Given DEF PeerMsg
  <2>5. /\ r.kind = "update" /\ r.uri = entry.uri /\ r.ip = list[pt.slot].ip
        /\ r.token = entry.token /\ r.from = myIp
    OBVIOUS
  <2> HIDE DEF r, m
  <2>6. toPeer' = toPeer \o << r >>
    BY <1>1, <2>1 DEF m
  <2>7. OwnMessages'
    BY <1>1, <2>3, <2>4, <2>5, <2>6, OneSent
  <2>8. Agreed'
    <3> SUFFICES ASSUME NEW d \in Slot, NEW e \in Entry, NEW t \in Token,
                        Settled', list'[d].taken, TokenOf(d, e)' = t, ~ToBeRenewed(e)'
                 PROVE  TokenArrives(Offers[Peer][e + 1], t)' /\ AddressArrives'
      BY DEF Agreed
    <3> DEFINE u == Offers[Peer][e + 1]
    <3>1. r \in Home(peerIp)
      BY <1>9, <2>4, <2>5 DEF Home
    <3>2. r \in About(peerIp, u) <=> e = pt.uri
      <4>1. r.uri = u <=> e = pt.uri
        <5>1. e + 1 \in DOMAIN Offers[Peer]
          BY <1>9
        <5>2. r.uri = u => e + 1 = pt.uri + 1
          BY <2>3, <2>5, <5>1 DEF IsInjective
        <5>3. e \in Nat /\ pt.uri \in Nat
          BY <1>2, Ranges
        <5> QED
          BY <2>3, <2>5, <5>2, <5>3
      <4> QED
        BY <3>1, <4>1 DEF About
    <3>3. e = pt.uri => r.token = t
      BY <1>9, <2>5
    <3>4. TokenArrives(u, t)'
      BY <1>1, <1>9, <2>4, <2>5, <2>6, <3>2, <3>3, OneSent
    <3>5. AddressArrives'
      BY <1>1, <2>4, <2>5, <2>6, <3>1, OneSent
    <3> QED
      BY <3>4, <3>5
  <2> QED
    BY <1>5, <1>7, <1>8, <2>7, <2>8 DEF InStep
<1> QED
  BY <1>10, <1>11

LEMMA GetInStep ==
  ASSUME SyncInv, ot.at = "idle", SendGetUri_Well_known, UNCHANGED toMe,
         IF pending' = pending THEN UNCHANGED toPeer
         ELSE send(<< [kind |-> "get", ip |-> list[pt.slot].ip, from |-> myIp] >>),
         UNCHANGED <<subList, addresses, orderly>>
  PROVE  InStep'
<1> DEFINE g == [kind |-> "get", ip |-> list[pt.slot].ip, from |-> myIp]
<1>1. /\ UNCHANGED <<list, queue, ot, token, subList, myIp, peerIp, toMe, orderly>>
      /\ pt.at = "get" /\ pt'.at = "idle"
  BY DEF SendGetUri_Well_known, addresses, PtIdle
<1>2. g \in PeerMsg /\ g.kind = "get" /\ g.from = myIp
  <2>1. list[pt.slot].ip \in Ip \cup {NoIp, TornIp}
    BY Parts, Given DEF TaskType, DeviceType
  <2> QED
    BY <2>1, Parts, Given DEF PeerMsg
<1>3. UNCHANGED toPeer \/ toPeer' = toPeer \o << g >>
  BY DEF send
<1> HIDE DEF g
<1>4. /\ OwnMessages'
      /\ \A u, t : TokenArrives(u, t) => TokenArrives(u, t)'
      /\ AddressArrives => AddressArrives'
  <2>1. CASE UNCHANGED toPeer
    <3>1. OwnMessages'
      BY <2>1, Parts DEF OwnMessages
    <3> QED
      BY <1>1, <2>1, <3>1, Unmoved
  <2>2. CASE toPeer' = toPeer \o << g >>
    <3>1. \A ip, u : g \notin About(ip, u)
      BY <1>2 DEF About, Home
    <3>2. /\ g.kind = "get" \/ g.uri \in Served => OwnMessages'
          /\ \A u, t : /\ TokenArrives(u, t) \/ g \in About(peerIp, u)
                       /\ g \in About(peerIp, u) => g.token = t
                       => TokenArrives(u, t)'
          /\ AddressArrives \/ g \in Home(peerIp) => AddressArrives'
      BY <1>1, <1>2, <2>2, OneSent
    <3> QED
      BY <1>2, <3>1, <3>2
  <2> QED
    BY <1>3, <2>1, <2>2
<1>5. ThreadsOK'
  <2>1. OnlyPeer'
    BY <1>1, Parts DEF OnlyPeer
  <2>2. TokensHaveUris' /\ OneAtATime'
    BY <1>1, Parts DEF TokensHaveUris, OneAtATime
  <2> QED
    BY <2>1, <2>2 DEF ThreadsOK
<1>6. Settled' => Settled
  BY <1>1 DEF Settled, NoNews
<1>7. NewsOK'
  <2>1. QueueIsLatest'
    BY <1>1, Parts DEF QueueIsLatest, NoNews
  <2>2. ListIsLatest'
    BY <1>1, <1>6, Parts DEF ListIsLatest
  <2> QED
    BY <1>1, <2>1, <2>2, Parts, LastNewsStays DEF NewsOK
<1>8. PeerListOK'
  BY <1>1, Parts DEF PeerListOK
<1>9. \A d \in Slot, e \in Entry : TokenOf(d, e)' = TokenOf(d, e) /\ ~ToBeRenewed(e)
  <2>1. \A d \in Slot, e \in Entry : TokenOf(d, e)' = TokenOf(d, e)
    BY <1>1, SameTokens
  <2> QED
    BY <1>1, <2>1 DEF ToBeRenewed
<1>10. Agreed'
  BY <1>1, <1>4, <1>6, <1>9, Parts, AgreedStays
<1> QED
  BY <1>4, <1>5, <1>7, <1>8, <1>10 DEF InStep

(* The steps of the handler, with the task at rest.                        *)

(* A token is drawn and sent for the entry the handler is at. *)
LEMMA DrawInStep ==
  ASSUME SyncInv, ~SendFails, IsInjective(Offers[Peer]), pt.at = "idle",
         sendSubscribeRequest,
         IF token' = token THEN UNCHANGED toPeer
         ELSE send(<< sendSubscribeRequestMessage(myIp) >>),
         UNCHANGED toMe,
         UNCHANGED <<subList, addresses, orderly>>
  PROVE  InStep'
<1> DEFINE m == sendSubscribeRequestMessage(myIp)
           w == Offers[Peer][ot.uri + 1]
<1>1. /\ UNCHANGED <<list, queue, pt, subList, myIp, peerIp, toMe, orderly>>
      /\ ot.at = "send" /\ ot' = [ot EXCEPT !.at = "token"]
      /\ token' \in Token \ InUse
  BY DEF sendSubscribeRequest, addresses
<1>2. /\ ot.slot \in Slot /\ ot.uri \in Entry /\ ot.from \in Name
      /\ Holds(ot.slot, ot.from) /\ ot.uri < Len(Offers[ot.from])
  BY <1>1, Parts, AtEntry
<1>3. ot.from = Peer /\ list[ot.slot].taken
  BY <1>2, Parts DEF Holds, OnlyPeer
<1>4. ot'.at = "token" /\ ot'.slot = ot.slot /\ ot'.uri = ot.uri
  BY <1>1, Parts, Given DEF HandlerType
<1>5. toPeer' = toPeer \o << m >>
  BY <1>1 DEF send, InUse
<1>6. w \in Served /\ w \in Uri /\ ot.uri + 1 \in DOMAIN Offers[Peer]
  BY <1>2, <1>3, ServedUris
<1>7. /\ m \in PeerMsg /\ m.kind = "register" /\ m.token = token' /\ m.uri = w
      /\ m.from = myIp /\ m.ip = list[ot.slot].ip
  <2>1. list[ot.slot].ip \in Ip \cup {NoIp, TornIp}
    BY <1>2, Parts, Given DEF DeviceType
  <2> QED
    BY <1>1, <1>3, <1>6, <2>1, Parts, Given DEF sendSubscribeRequestMessage, PeerMsg
<1> HIDE DEF m
<1>8. /\ m.kind = "get" \/ m.uri \in Served => OwnMessages'
      /\ \A u, t : /\ TokenArrives(u, t) \/ m \in About(peerIp, u)
                   /\ m \in About(peerIp, u) => m.token = t
                   => TokenArrives(u, t)'
      /\ AddressArrives \/ m \in Home(peerIp) => AddressArrives'
  BY <1>1, <1>5, <1>7, OneSent
<1>9. OwnMessages' /\ PeerListOK'
  BY <1>1, <1>6, <1>7, <1>8, Parts DEF PeerListOK
<1>10. ThreadsOK'
  <2>1. OnlyPeer' /\ OneAtATime'
    BY <1>1, Parts DEF OnlyPeer, OneAtATime
  <2>2. TokensHaveUris'
    BY <1>1, <1>4, Parts DEF TokensHaveUris
  <2> QED
    BY <2>1, <2>2 DEF ThreadsOK
<1>11. NewsOK' /\ (Settled' => Settled)
  BY <1>1, Parts, LastNewsStays, NewsStay
<1>12. Agreed'
  <2> SUFFICES ASSUME NEW d \in Slot, NEW e \in Entry, NEW t \in Token,
                      Settled', list'[d].taken, TokenOf(d, e)' = t
               PROVE  TokenArrives(Offers[Peer][e + 1], t)' /\ AddressArrives'
    BY DEF Agreed
  <2> DEFINE u == Offers[Peer][e + 1]
  <2>1. d = ot.slot /\ Settled /\ list[d].taken
    BY <1>1, <1>2, <1>3, <1>11, Peers
  <2>2. m \in Home(peerIp)
    BY <1>7, <2>1, Parts DEF Home, ListIsLatest
  <2>3. AddressArrives'
    BY <1>8, <2>2
  <2>4. CASE e = ot.uri
    <3>1. t = token'
      BY <1>4, <2>1, <2>4 DEF TokenOf, HandlerIsAt
    <3>2. m \in About(peerIp, u)
      BY <1>7, <2>2, <2>4 DEF About
    <3> QED
      BY <1>7, <1>8, <2>3, <3>1, <3>2
  <2>5. CASE e # ot.uri
    <3>1. TokenOf(d, e) = t /\ ~ToBeRenewed(e) /\ list[d].uris[e].token = t
      BY <1>1, <1>4, <2>5 DEF TokenOf, HandlerIsAt, ToBeRenewed
    <3>2. TokenArrives(u, t)
      BY <2>1, <3>1, Parts DEF Agreed
    <3>3. e + 1 \in DOMAIN Offers[Peer]
      BY <1>1, <3>1, KnownEntry
    <3>4. e + 1 # ot.uri + 1
      <4>1. e \in Nat /\ ot.uri \in Nat
        BY <1>2, Ranges
      <4> QED
        BY <2>5, <4>1
    <3>5. m \notin About(peerIp, u)
      BY <1>6, <1>7, <3>3, <3>4 DEF About, IsInjective
    <3> QED
      BY <1>8, <2>3, <3>2, <3>5
  <2> QED
    BY <2>4, <2>5
<1> QED
  BY <1>9, <1>10, <1>11, <1>12 DEF InStep

LEMMA AddressKept ==
  ASSUME ListOK, NEW d \in Slot, NEW e \in Entry, NEW new, list' = WithEntry(d, e, new)
  PROVE  \A c \in Slot : list'[c].ip = list[c].ip
  BY DEF ListOK, DeviceType, WithEntry

(* A token that is stored is still for its entry. *)
LEMMA EntryInStep ==
  ASSUME SyncInv, pt.at = "idle",
         UNCHANGED <<queue, pt, token, subList, myIp, peerIp, toPeer, toMe, orderly>>,
         \A c \in Slot : /\ list'[c].taken = list[c].taken
                         /\ list'[c].name = list[c].name /\ list'[c].ip = list[c].ip,
         TokensHaveUris',
         \A d \in Slot, e \in Entry : TokenOf(d, e)' = TokenOf(d, e)
  PROVE  InStep'
<1>1. OnlyPeer' /\ OneAtATime'
  BY Parts DEF OnlyPeer, OneAtATime
<1>2. LastNews' /\ (NoNews' <=> NoNews)
  <2>1. NoNews' <=> NoNews
    BY DEF NoNews
  <2> QED
    BY <2>1, Parts, LastNewsStays
<1>3. Settled' => Settled
  BY <1>2 DEF Settled
<1>4. QueueIsLatest' /\ ListIsLatest'
  <2>1. QueueIsLatest'
    BY <1>2, Parts DEF QueueIsLatest
  <2>2. ListIsLatest'
    BY <1>3, Parts DEF ListIsLatest
  <2> QED
    BY <2>1, <2>2
<1>5. OwnMessages' /\ PeerListOK'
  BY Parts DEF OwnMessages, PeerListOK
<1>6. \A u, t : TokenArrives(u, t) => TokenArrives(u, t)'
  BY Unmoved
<1>7. AddressArrives => AddressArrives'
  BY DEF AddressArrives
<1>8. \A e \in Entry : ToBeRenewed(e)' = ToBeRenewed(e)
  BY SamePlace
<1>9. Agreed'
  BY <1>3, <1>6, <1>7, <1>8, Parts, AgreedStays
<1> QED
  BY <1>1, <1>2, <1>4, <1>5, <1>9 DEF InStep, ThreadsOK, NewsOK

LEMMA TokenInStep ==
  ASSUME SyncInv, pt.at = "idle", uriAddToken, silent, UNCHANGED <<subList, addresses, orderly>>
  PROVE  InStep'
<1>1. /\ UNCHANGED <<queue, pt, token, subList, myIp, peerIp, toPeer, toMe, orderly>>
      /\ ot.at = "token"
  BY DEF silent, addresses, uriAddToken
<1>2. ot.slot \in Slot /\ ot.uri \in Entry /\ ListOK
  BY <1>1, Parts, AtEntry, Before
<1>3. token \in Token /\ token # NoToken
  BY <1>1, Parts, PairListAssumption DEF TokensHaveUris
<1>4. list' = WithToken(ot.slot, ot.uri, token) /\ ot' = [ot EXCEPT !.at = "uri"]
  BY <1>3 DEF uriAddToken, uriTokenIsValid, WithToken
<1>5. ot'.at = "uri" /\ ot'.slot = ot.slot /\ ot'.uri = ot.uri
  BY <1>4, Parts, Given DEF HandlerType
<1> DEFINE new == [list[ot.slot].uris[ot.uri] EXCEPT !.token = token]
<1>6. new \in EntryType /\ list' = WithEntry(ot.slot, ot.uri, new)
  BY <1>2, <1>3, <1>4, EntryOf
<1>7. new.token = token
  BY <1>2, EntryOf DEF EntryType
<1> HIDE DEF new
<1>8. /\ \A c \in Slot : /\ list'[c].taken = list[c].taken
                         /\ list'[c].name = list[c].name /\ list'[c].ip = list[c].ip
      /\ \A c \in Slot, f \in Entry :
           list'[c].uris[f] = IF c = ot.slot /\ f = ot.uri THEN new ELSE list[c].uris[f]
  BY <1>2, <1>6, EntryWritten, AddressKept
<1>9. TokensHaveUris'
  BY <1>1, <1>2, <1>3, <1>5, <1>7, <1>8, Parts DEF TokensHaveUris, HandlerIsAt
<1>10. \A d \in Slot, e \in Entry : TokenOf(d, e)' = TokenOf(d, e)
  BY <1>1, <1>5, <1>8 DEF TokenOf, HandlerIsAt
<1> QED
  BY <1>1, <1>8, <1>9, <1>10, EntryInStep

LEMMA UriInStep ==
  ASSUME SyncInv, pt.at = "idle", uriAddUri, silent, UNCHANGED <<subList, addresses, orderly>>
  PROVE  InStep'
<1>1. /\ UNCHANGED <<queue, pt, token, subList, myIp, peerIp, toPeer, toMe, orderly>>
      /\ ot.at = "uri"
  BY DEF silent, addresses, uriAddUri
<1>2. /\ ot.slot \in Slot /\ ot.uri \in Entry /\ ot.from \in Name
      /\ ot.uri < Len(Offers[ot.from]) /\ ListOK
  BY <1>1, Parts, AtEntry, Before
<1>3. token \in Token /\ list[ot.slot].uris[ot.uri].token = token
  BY <1>1, Parts DEF TokensHaveUris
<1> DEFINE w == Offers[ot.from][ot.uri + 1]
           new == [list[ot.slot].uris[ot.uri] EXCEPT !.uri = w]
<1>4. w \in Uri /\ w # NoUri
  BY <1>2, Offered, PairListAssumption
<1>5. list' = WithUri(ot.slot, ot.uri, w)
  BY DEF uriAddUri, WithUri
<1> HIDE DEF w
<1>6. new \in EntryType /\ new.uri = w /\ list' = WithEntry(ot.slot, ot.uri, new)
  BY <1>2, <1>4, <1>5, EntryOf
<1>7. new.token = token
  BY <1>2, <1>3, EntryOf DEF EntryType
<1> HIDE DEF new
<1>8. /\ \A c \in Slot : /\ list'[c].taken = list[c].taken
                         /\ list'[c].name = list[c].name /\ list'[c].ip = list[c].ip
      /\ \A c \in Slot, f \in Entry :
           list'[c].uris[f] = IF c = ot.slot /\ f = ot.uri THEN new ELSE list[c].uris[f]
  BY <1>2, <1>6, EntryWritten, AddressKept
<1>9. ot'.at \in {"send", "idle"}
  <2>1. nextUri
    BY DEF uriAddUri
  <2>2. CASE ot.uri + 1 < Len(Offers[ot.from])
    BY <2>1, <2>2, Parts, Given DEF nextUri, HandlerType
  <2>3. CASE ~(ot.uri + 1 < Len(Offers[ot.from]))
    BY <2>1, <2>3 DEF nextUri, OtIdle
  <2> QED
    BY <2>2, <2>3
<1>10. TokensHaveUris'
  BY <1>4, <1>6, <1>8, <1>9, Parts DEF TokensHaveUris, HandlerIsAt
<1>11. \A d \in Slot, e \in Entry : TokenOf(d, e)' = TokenOf(d, e)
  BY <1>1, <1>3, <1>7, <1>8, <1>9 DEF TokenOf, HandlerIsAt
<1> QED
  BY <1>1, <1>8, <1>10, <1>11, EntryInStep

(* A move is told for every token that is known, and for nothing else.     *)
Update(d, e, from) ==
  [kind |-> "update", ip |-> list[d].ip, uri |-> list[d].uris[e].uri,
   token |-> list[d].uris[e].token, from |-> from]
Stored(d, e) == list[d].taken /\ list[d].uris[e].token \in Token
IsUpdate(r, from) == \E d \in Slot, e \in Entry : Stored(d, e) /\ r = Update(d, e, from)

LEMMA OneUpdate ==
  ASSUME ObsInv, NEW ip \in MyIp, NEW d \in Slot, NEW e \in Entry
  PROVE  IF Stored(d, e)
         THEN Update(d, e, ip) \in PeerMsg /\ updateOf(d, e, ip) = << Update(d, e, ip) >>
         ELSE updateOf(d, e, ip) = << >>
<1>1. list[d] \in DeviceType
  BY Given
<1>2. /\ list[d].uris[e].uri \in Uri \cup {NoUri}
      /\ list[d].uris[e].token \in Token \cup {NoToken}
      /\ list[d].ip \in Ip \cup {NoIp, TornIp}
  BY <1>1 DEF DeviceType
<1>3. Stored(d, e) <=> list[d].taken /\ uriTokenIsValid(list[d].uris[e].token)
  BY <1>2, PairListAssumption DEF Stored, uriTokenIsValid
<1>4. CASE Stored(d, e)
  <2>1. Update(d, e, ip) \in PeerMsg
    BY <1>2, <1>4 DEF Update, PeerMsg, Stored
  <2>2. updateOf(d, e, ip) = << Update(d, e, ip) >>
    BY <1>3, <1>4 DEF updateOf, Update
  <2> QED
    BY <1>4, <2>1, <2>2
<1>5. CASE ~Stored(d, e)
  <2>1. updateOf(d, e, ip) = << >>
    BY <1>3, <1>5 DEF updateOf
  <2> QED
    BY <1>5, <2>1
<1> QED
  BY <1>4, <1>5

LEMMA AllUpdated ==
  ASSUME ObsInv, NEW ip \in MyIp
  PROVE  /\ subSendUpdateIP(ip) \in Seq({r \in PeerMsg : IsUpdate(r, ip)})
         /\ \A d \in Slot, e \in Entry :
              Stored(d, e) => In(Update(d, e, ip), subSendUpdateIP(ip))
<1> DEFINE Good == {r \in PeerMsg : IsUpdate(r, ip)}
           slot(d) == [e \in 1 .. UriMax |-> updateOf(d - 1, e - 1, ip)]
           all == [d \in 1 .. DevMax |-> FlattenSeq(slot(d))]
           m == FlattenSeq(all)
<1>1. DevMax \in Nat /\ UriMax \in Nat
  BY PairListAssumption
<1>2. /\ \A d \in 1 .. DevMax : d - 1 \in Slot
      /\ \A e \in 1 .. UriMax : e - 1 \in Entry
      /\ \A d \in Slot : d + 1 \in 1 .. DevMax /\ (d + 1) - 1 = d
      /\ \A e \in Entry : e + 1 \in 1 .. UriMax /\ (e + 1) - 1 = e
  BY PairListAssumption DEF Slot, Entry
<1>3. subSendUpdateIP(ip) = m
  BY DEF subSendUpdateIP
<1>4. ASSUME NEW d \in Slot, NEW e \in Entry PROVE updateOf(d, e, ip) \in Seq(Good)
  <2>1. CASE Stored(d, e)
    <3>1. Update(d, e, ip) \in Good
      BY <2>1, OneUpdate DEF IsUpdate
    <3> HIDE DEF Good
    <3> QED
      BY <2>1, <3>1, OneUpdate, OneSeq
  <2>2. CASE ~Stored(d, e)
    <3> HIDE DEF Good
    <3>1. << >> \in Seq(Good)
      OBVIOUS
    <3> QED
      BY <2>2, <3>1, OneUpdate
  <2> QED
    BY <2>1, <2>2
<1> HIDE DEF Good
<1>5. ASSUME NEW d \in 1 .. DevMax
      PROVE  slot(d) \in Seq(Seq(Good)) /\ FlattenSeq(slot(d)) \in Seq(Good)
  <2>1. slot(d) \in Seq(Seq(Good))
    BY <1>1, <1>2, <1>4
  <2> HIDE DEF slot
  <2> QED
    BY <2>1, FlatIsSeq
<1>6. \A d \in 1 .. DevMax : /\ DOMAIN slot(d) = 1 .. UriMax
                             /\ \A e \in 1 .. UriMax : slot(d)[e] = updateOf(d - 1, e - 1, ip)
  OBVIOUS
<1> HIDE DEF slot
<1>7. /\ all \in Seq(Seq(Good)) /\ DOMAIN all = 1 .. DevMax
      /\ \A d \in 1 .. DevMax : all[d] = FlattenSeq(slot(d))
  BY <1>1, <1>5
<1> HIDE DEF all
<1>8. m \in Seq(Good)
  BY <1>7, FlatIsSeq
<1>9. ASSUME NEW d \in Slot, NEW e \in Entry, Stored(d, e)
      PROVE  In(Update(d, e, ip), m)
  <2>1. PICK x : x = Update(d, e, ip)
    OBVIOUS
  <2>2. PICK c : c = d + 1
    OBVIOUS
  <2>3. PICK f : f = e + 1
    OBVIOUS
  <2>4. c \in 1 .. DevMax /\ f \in 1 .. UriMax /\ c - 1 = d /\ f - 1 = e
    BY <1>2, <2>2, <2>3
  <2>5. slot(c)[f] = << x >> /\ f \in DOMAIN slot(c) /\ slot(c) \in Seq(Seq(Good))
    BY <1>5, <1>6, <1>9, <2>1, <2>4, OneUpdate
  <2>6. PICK s : s = slot(c)
    OBVIOUS
  <2>7. s \in Seq(Seq(Good)) /\ f \in DOMAIN s /\ s[f] = << x >>
    BY <2>5, <2>6
  <2>8. 1 \in DOMAIN s[f] /\ s[f][1] = x
    BY <2>7
  <2>9. In(x, FlattenSeq(s))
    BY <2>7, <2>8, FlatHas
  <2>10. all[c] = FlattenSeq(s) /\ c \in DOMAIN all
    BY <1>7, <2>4, <2>6
  <2>11. PICK k \in DOMAIN all[c] : all[c][k] = x
    BY <2>9, <2>10 DEF In
  <2>12. In(x, FlattenSeq(all))
    BY <1>7, <2>10, <2>11, FlatHas
  <2> QED
    BY <2>1, <2>12
<1> QED
  BY <1>3, <1>8, <1>9 DEF Good

LEMMA MoveInStep ==
  ASSUME SyncInv, ~Preempt, IsInjective(Offers[Peer]), NEW ip \in MyIp, Move(ip)
  PROVE  InStep'
<1> DEFINE m == subSendUpdateIP(ip)
<1>1. /\ UNCHANGED <<list, queue, pt, ot, token, subList, peerIp, toMe, orderly>>
      /\ myIp' = ip /\ toPeer' = toPeer \o m /\ ot.at = "idle" /\ pt.at = "idle"
  BY OneThread DEF Move, vars, send
<1>2. /\ m \in Seq({r \in PeerMsg : IsUpdate(r, ip)})
      /\ \A d \in Slot, e \in Entry : Stored(d, e) => In(Update(d, e, ip), m)
  BY Parts, AllUpdated
<1> HIDE DEF m
<1>3. /\ m \in Seq(PeerMsg) /\ \A k \in DOMAIN m : m[k] \in PeerMsg /\ IsUpdate(m[k], ip)
  BY <1>2
<1>4. ASSUME NEW k \in DOMAIN m
      PROVE  \E d \in Slot, e \in Entry :
               /\ list[d].taken /\ list[d].uris[e].token \in Token
               /\ m[k].kind = "update" /\ m[k].ip = list[d].ip
               /\ m[k].token = list[d].uris[e].token /\ m[k].from = ip
               /\ m[k].uri = Offers[Peer][e + 1]
               /\ e + 1 \in DOMAIN Offers[Peer] /\ Offers[Peer][e + 1] \in Served
  <2>1. PICK d \in Slot, e \in Entry : Stored(d, e) /\ m[k] = Update(d, e, ip)
    BY <1>3 DEF IsUpdate
  <2>2. PICK r : r = m[k]
    OBVIOUS
  <2>3. /\ r.kind = "update" /\ r.ip = list[d].ip /\ r.uri = list[d].uris[e].uri
        /\ r.token = list[d].uris[e].token /\ r.from = ip
    BY <2>1, <2>2 DEF Update
  <2>4. /\ list[d].uris[e].uri = Offers[Peer][e + 1]
        /\ e + 1 \in DOMAIN Offers[Peer] /\ Offers[Peer][e + 1] \in Served
    BY <1>1, <2>1, KnownEntry DEF Stored
  <2> QED
    BY <2>1, <2>2, <2>3, <2>4 DEF Stored
<1>5. OwnMessages'
  <2>1. \A k \in DOMAIN toPeer' : \/ \E j \in DOMAIN toPeer : toPeer'[k] = toPeer[j]
                                  \/ \E j \in DOMAIN m : toPeer'[k] = m[j]
    <3>1. toPeer \in Seq(PeerMsg)
      BY Parts, Given
    <3>2. \A k \in DOMAIN (toPeer \o m) :
            \/ \E j \in DOMAIN toPeer : (toPeer \o m)[k] = toPeer[j]
            \/ \E j \in DOMAIN m : (toPeer \o m)[k] = m[j]
      BY <1>3, <3>1, Places
    <3> QED
      BY <1>1, <3>2
  <2> QED
    BY <1>4, <2>1, Parts DEF OwnMessages
<1>6. ThreadsOK' /\ PeerListOK'
  BY <1>1, Parts, ThreadsStay DEF PeerListOK
<1>7. NewsOK' /\ (Settled' => Settled)
  BY <1>1, Parts, LastNewsStays, NewsStay
<1>8. Agreed'
  <2> SUFFICES ASSUME NEW d \in Slot, NEW e \in Entry, NEW t \in Token,
                      Settled', list'[d].taken, TokenOf(d, e)' = t
               PROVE  TokenArrives(Offers[Peer][e + 1], t)' /\ AddressArrives'
    BY DEF Agreed
  <2> PICK u : u = Offers[Peer][e + 1]
    OBVIOUS
  <2>1. /\ list[d].taken /\ list[d].uris[e].token = t /\ Stored(d, e)
        /\ list[d].ip = peerIp
    BY <1>1, <1>7, Parts DEF TokenOf, Stored, ListIsLatest
  <2>2. list[d].uris[e].uri = u /\ e + 1 \in DOMAIN Offers[Peer]
    BY <1>1, <2>1, KnownEntry
  <2>3. PICK i \in DOMAIN m : m[i] = Update(d, e, ip)
    BY <1>2, <2>1 DEF In
  <2>4. m[i] \in About(peerIp, u) /\ m[i] \in Home(peerIp)
    <3>1. PICK r : r = m[i]
      OBVIOUS
    <3>2. r.kind = "update" /\ r.ip = peerIp /\ r.uri = u
      BY <2>1, <2>2, <2>3, <3>1 DEF Update
    <3>3. r \in PeerMsg
      BY <1>3, <3>1
    <3> QED
      BY <3>1, <3>2, <3>3 DEF About, Home
  <2>5. ASSUME NEW k \in DOMAIN m, m[k] \in About(peerIp, u) PROVE m[k].token = t
    <3>1. PICK c \in Slot, f \in Entry :
            /\ list[c].taken /\ m[k].token = list[c].uris[f].token
            /\ m[k].uri = Offers[Peer][f + 1] /\ f + 1 \in DOMAIN Offers[Peer]
      BY <1>4
    <3>2. m[k].uri = u
      BY <2>5 DEF About
    <3>3. f + 1 = e + 1
      BY <2>2, <3>1, <3>2 DEF IsInjective
    <3>4. f = e
      BY <3>3, Ranges
    <3>5. c = d
      BY <2>1, <3>1, Peers
    <3> QED
      BY <2>1, <3>1, <3>4, <3>5
  <2>6. \A k \in DOMAIN m : m[k].from = myIp'
    BY <1>1, <1>4
  <2>7. TokenArrives(u, t)'
    BY <1>1, <1>3, <2>4, <2>5, Parts, Sent
  <2>8. AddressArrives'
    BY <1>1, <1>3, <2>4, <2>6, Parts, Sent
  <2> QED
    BY <2>7, <2>8
<1> QED
  BY <1>5, <1>6, <1>7, <1>8 DEF InStep

------------------------------------------------------------------------------
LEMMA StartsInStep == ObsInit => SyncInv
<1> SUFFICES ASSUME ObsInit PROVE SyncInv
  OBVIOUS
<1>1. /\ list = EmptyList /\ queue = << >> /\ pt = PtIdle /\ ot = OtIdle
      /\ subList = L!EmptyList /\ toPeer = << >> /\ toMe = << >>
  BY DEF ObsInit, Init
<1>2. /\ pt.at = "idle" /\ ot.at = "idle"
      /\ DOMAIN queue = {} /\ DOMAIN toPeer = {} /\ DOMAIN toMe = {}
  BY <1>1 DEF PtIdle, OtIdle
<1>3. \A d \in Slot, e \in Entry : ~list[d].taken /\ list[d].uris[e].token = NoToken
  BY <1>1, OwnListEmpty
<1>4. ThreadsOK
  <2>1. OnlyPeer
    BY <1>2, <1>3, Ranges DEF OnlyPeer
  <2>2. TokensHaveUris
    BY <1>2, <1>3 DEF TokensHaveUris
  <2> QED
    BY <1>2, <2>1, <2>2 DEF ThreadsOK, OneAtATime
<1>5. NewsOK
  <2>1. LastNews
    BY <1>2 DEF LastNews
  <2>2. QueueIsLatest
    BY <1>1, <1>2 DEF QueueIsLatest
  <2>3. ListIsLatest
    BY <1>3, Ranges DEF ListIsLatest
  <2> QED
    BY <2>1, <2>2, <2>3 DEF NewsOK
<1>6. OwnMessages /\ PeerListOK
  BY <1>1, <1>2, EmptySlotOK DEF OwnMessages, PeerListOK
<1>7. Agreed
  BY <1>3 DEF Agreed
<1> QED
  BY <1>4, <1>5, <1>6, <1>7, StartsSilent DEF SyncInv, InStep

LEMMA TaskStepInStep ==
  ASSUME SyncInv, ~Preempt, IsInjective(Offers[Peer]), PairTaskStep
  PROVE  InStep'
<1>1. ot.at = "idle" /\ UNCHANGED <<subList, addresses, orderly>>
  BY OneThread DEF PairTaskStep
<1>2. CASE (Receive \/ AddNew \/ AddRefused \/ AddKnown \/ ipAddressUpdate) /\ silent
  BY <1>1, <1>2, ReceiveInStep, AddNewInStep, AddRefusedInStep, AddKnownInStep,
     UpdateInStep
<1>3. CASE subSendRequest /\ send(subSendRequestMessages(myIp)) /\ UNCHANGED toMe
  BY <1>1, <1>3, RenewInStep
<1>4. CASE /\ SendGetUri_Well_known
           /\ IF pending' = pending THEN UNCHANGED toPeer
              ELSE send(<< [kind |-> "get", ip |-> list[pt.slot].ip, from |-> myIp] >>)
           /\ UNCHANGED toMe
  BY <1>1, <1>4, GetInStep
<1> QED
  BY <1>2, <1>3, <1>4 DEF PairTaskStep

LEMMA HandlerStepInStep ==
  ASSUME SyncInv, ~SendFails, ~Preempt, IsInjective(Offers[Peer]), HandlerStep
  PROVE  InStep'
<1>1. pt.at = "idle" /\ UNCHANGED <<subList, addresses, orderly>>
  BY OneThread DEF HandlerStep
<1> QED
  BY <1>1, DrawInStep, TokenInStep, UriInStep DEF HandlerStep

LEMMA StepsInStep ==
  ASSUME SyncInv, ~SendFails, ~Preempt, IsInjective(Offers[Peer]), [ObsNext]_obsVars
  PROVE  SyncInv'
<1>1. ObsInv'
  BY Parts, StepsKeep
<1>2. CASE UNCHANGED obsVars
  <2>1. UNCHANGED <<list, queue, pt, ot, token, subList, myIp, peerIp, toPeer, toMe, orderly>>
    BY <1>2 DEF obsVars, vars
  <2> QED
    BY <1>1, <2>1, RestInStep DEF SyncInv
<1>3. CASE ObsNext /\ ~(UNCHANGED obsVars)
  <2>1. NetOK'
    BY <1>1 DEF ObsInv
  <2>2. InStep'
    BY <1>3, <2>1, TaskStepInStep, HandlerStepInStep, MeInStep, TimeoutInStep,
       MoveInStep, PeerInStep, LostToPeerInStep, LostToMeInStep,
       AnnounceInStep, EventInStep, PeerRestartInStep,
       RestartInStep DEF ObsNext
  <2> QED
    BY <1>1, <2>2 DEF SyncInv
<1> QED
  BY <1>2, <1>3

(* With nothing under way the last message was taken: what arrives is there*)
LEMMA InStepIsSynced == SyncInv => SyncedIfOrderly
<1> SUFFICES ASSUME SyncInv, orderly, Quiet, NEW d \in Slot, NEW e \in Entry,
                    uriTokenIsValid(list[d].uris[e].token)
             PROVE  Subscribed(list[d].uris[e].uri, list[d].uris[e].token)
  BY DEF SyncedIfOrderly, SyncedWhenQuiet
<1> PICK t : t = list[d].uris[e].token
  OBVIOUS
<1> PICK u : u = Offers[Peer][e + 1]
  OBVIOUS
<1>1. /\ toPeer = << >> /\ toMe = << >> /\ queue = << >>
      /\ pt.at = "idle" /\ ot.at = "idle"
  BY DEF Quiet
<1>2. DOMAIN toPeer = {} /\ DOMAIN toMe = {}
  BY <1>1
<1>3. t \in Token
  <2>1. list[d].uris[e].token \in Token \cup {NoToken}
    BY Parts, Given DEF DeviceType
  <2> QED
    BY <2>1 DEF uriTokenIsValid
<1>4. list[d].taken /\ list[d].uris[e].uri = u
  BY <1>1, <1>3, KnownEntry
<1>5. Settled /\ TokenOf(d, e) = t /\ ~ToBeRenewed(e)
  BY <1>1, <1>2 DEF Settled, NoNews, TokenOf, ToBeRenewed
<1>6. TokenArrives(u, t) /\ AddressArrives
  BY <1>3, <1>4, <1>5, Parts DEF Agreed
<1>7. subList[0].taken /\ subList[0].ip = myIp /\ Has(subList[0], u, t)
  BY <1>2, <1>6 DEF TokenArrives, AddressArrives
<1>8. PICK f \in L!Entry : /\ subList[0].uri[f].taken /\ subList[0].uri[f].uriIndex = u
                           /\ subList[0].uri[f].token = t
  BY <1>7 DEF Has
<1>9. subList[0].ip # Elsewhere
  BY <1>7, Parts, Given, ObserveAssumption
<1> DEFINE P == {q \in L!Slot \X L!Entry :
                   /\ subList[q[1]].taken
                   /\ subList[q[1]].uri[q[2]].taken
                   /\ subList[q[1]].uri[q[2]].uriIndex = u
                   /\ subList[q[1]].ip # Elsewhere}
           told(p) == [name |-> subList[p[1]].name, ip |-> subList[p[1]].ip,
                       token |-> subList[p[1]].uri[p[2]].token, from |-> p]
<1>10. L!notify(subList, Elsewhere, u) = {told(p) : p \in P}
  BY DEF L!notify
<1> PICK p : p = <<0, f>>
  OBVIOUS
<1>11. p \in P
  BY <1>7, <1>8, <1>9, PeerShape
<1>12. told(p).ip = myIp /\ told(p).token = t
  BY <1>7, <1>8
<1> HIDE DEF P, told
<1>13. Subscribed(u, t)
  BY <1>10, <1>11, <1>12 DEF Subscribed
<1> QED
  BY <1>4, <1>13

(* A device whose URIs are distinct and the controller agree on every token*)
(* and on the controller's address whenever nothing is under way, if since *)
(* the device's last announcement no message was given up or overtaken by  *)
(* one that says otherwise; whatever was before.  The threads must not run *)
(* into one another, and OpenThread must have message buffers.             *)
THEOREM BothEndsAgree ==
  ASSUME ~SendFails, ~Preempt, IsInjective(Offers[Peer])
  PROVE  ObsSpec => []SyncedIfOrderly
<1>1. SyncInv /\ [ObsNext]_obsVars => SyncInv'
  BY StepsInStep
<1> QED
  BY <1>1, StartsInStep, InStepIsSynced, PTL DEF ObsSpec
===============================================================================
