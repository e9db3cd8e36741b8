------------------------------ MODULE Registry -------------------------------
(***************************************************************************)
(* What a subscriber registry promises, with no table in sight: a map from *)
(* the name of a subscribed device to its address and to the token it      *)
(* wants to be notified with for each URI it observes.                     *)
(***************************************************************************)
EXTENDS Naturals, FiniteSets

CONSTANTS Name, Ip, Token, Uri, Capacity

VARIABLES
  registry,
  notified,   \* the notifications the latest call sent
  outcome     \* what the latest call told its caller

Init == registry = << >> /\ notified = {} /\ outcome = "done"

(* The registry after n has asked for u with token t from address ip. *)
With(n, ip, u, t) ==
  [m \in DOMAIN registry \cup {n} |->
     IF m # n THEN registry[m]
     ELSE [ip |-> ip,
           subs |-> [v \in {u} \cup (IF n \in DOMAIN registry
                                     THEN DOMAIN registry[n].subs ELSE {}) |->
                       IF v = u THEN t ELSE registry[n].subs[v]]]]

Subscribe(n, ip, u, t) ==
  /\ outcome' = "stored"
  /\ notified' = {}
  /\ n \in DOMAIN registry \/ Cardinality(DOMAIN registry) < Capacity
  /\ registry' = With(n, ip, u, t)

Refuse(n) ==
  /\ outcome' = "refused"
  /\ notified' = {}
  /\ n \notin DOMAIN registry
  /\ Cardinality(DOMAIN registry) = Capacity
  /\ UNCHANGED registry

Event(ip, u) ==
  /\ outcome' = "done"
  /\ notified' = {[name |-> n, ip |-> registry[n].ip,
                   token |-> registry[n].subs[u]] :
                     n \in {m \in DOMAIN registry :
                              /\ registry[m].ip # ip
                              /\ u \in DOMAIN registry[m].subs}}
  /\ UNCHANGED registry

(* One subscription of n ends; a device with none left goes. *)
Unsubscribe(n, u) ==
  /\ outcome' = "done"
  /\ notified' = {}
  /\ n \in DOMAIN registry
  /\ u \in DOMAIN registry[n].subs
  /\ LET left == DOMAIN registry[n].subs \ {u} IN
     registry' =
       [m \in IF left = {} THEN DOMAIN registry \ {n} ELSE DOMAIN registry |->
          IF m # n THEN registry[m]
          ELSE [registry[n] EXCEPT
                  !.subs = [v \in left |-> registry[n].subs[v]]]]

Clear == outcome' = "done" /\ notified' = {} /\ registry' = << >>

(* A malformed call, or one with nothing to act upon. *)
Ignore == outcome' = "ignored" /\ notified' = {} /\ UNCHANGED registry

Next ==
  \/ \E n \in Name, ip \in Ip, u \in Uri, t \in Token : Subscribe(n, ip, u, t)
  \/ \E n \in Name : Refuse(n)
  \/ \E ip \in Ip, u \in Uri : Event(ip, u)
  \/ \E n \in Name, u \in Uri : Unsubscribe(n, u)
  \/ Clear
  \/ Ignore

Spec == Init /\ [][Next]_<<registry, notified, outcome>>
=============================================================================
