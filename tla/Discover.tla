------------------------------ MODULE Discover ------------------------------
(***************************************************************************)
(* How the device finds others (ot_app_dns.c): after every registration at *)
(* the SRP server (module SrpLease) it browses for services, resolves what *)
(* is listed and hands each address to the pairing queue.                  *)
(*                                                                         *)
(* The DNS client and the server are external: an answer, or an error or   *)
(* timeout, comes to each request; the server lists services in an order   *)
(* of its own.  (How the queue is worked off is in module Pair.)           *)
(***************************************************************************)
EXTENDS SrpLease, Sequences, SequencesExt

CONSTANTS Listings,    \* the lists the server may have: names, in its order
          ShortNames,  \* labels that otapp_deviceNameFullAddDomain refuses
          BrowseMax    \* OTAPP_PAIRED_DEVICES_MAX

ASSUME DiscoverConstants == BrowseMax \in Nat \ {0}

VARIABLES listing,    \* what is registered at the server
          browses,    \* is a browse under way?
          resolving,  \* names whose address was asked for
          found       \* names handed to the pairing queue

dnsVars == <<listing, browses, resolving, found>>
discoverVars == <<srpVars, dnsVars>>

DiscoverInit ==
    /\ SrpInit
    /\ listing \in Listings
    /\ browses = FALSE /\ resolving = {} /\ found = {}

\* The callback of the SRP client starts a browse.
dnsClientBrowse ==
    /\ Registered
    /\ browses' = TRUE
    /\ UNCHANGED <<listing, resolving, found>>

\* Mutant: the limit is reached one name early.
Stops_Early(i) == i > Len(listing) \/ i >= BrowseMax \/ listing[i] \in ShortNames
\* The first name that gets no domain ends the loop, and so does the limit.
Stops(i) == i > Len(listing) \/ i > BrowseMax \/ listing[i] \in ShortNames
BrowseResponseCallback(ok) ==
    /\ browses /\ browses' = FALSE
    /\ resolving' = IF ok
                    THEN resolving \cup {listing[i] : i \in {j \in DOMAIN listing :
                                            \A k \in 1..j : ~Stops(k)}}
                    ELSE resolving
    /\ UNCHANGED <<srpVars, listing, found>>

AddressCallback(name, ok) ==
    /\ name \in resolving /\ resolving' = resolving \ {name}
    /\ found' = IF ok THEN found \cup {name} ELSE found
    /\ UNCHANGED <<srpVars, listing, browses>>

DiscoverNext ==
    \/ (HostRemoved \/ UpdateHostAddress) /\ UNCHANGED dnsVars
    \/ (LeaseCheck \/ ClearService \/ AddAgain \/ SrpTick) /\ UNCHANGED dnsVars
    \/ dnsClientBrowse
    \/ \E ok \in BOOLEAN :
          \/ BrowseResponseCallback(ok)
          \/ \E name \in resolving : AddressCallback(name, ok)

------------------------------------------------------------------------------
Names == UNION {ToSet(l) : l \in Listings}
\* Among the first BrowseMax of the list, with no short name in front.
Shown(name) == \E i \in DOMAIN listing :
    /\ i <= BrowseMax /\ listing[i] = name
    /\ ShortNames \cap {listing[k] : k \in 1..i} = {}

(* Every device the list shows is found in the end, although answers get    *)
(* lost: each renewal of the lease browses again.  (Unless the service was  *)
(* refused or the lease task could not be created: then nothing renews.)    *)
ShownIsFound ==
    \/ \A name \in Names : Shown(name) => <>(name \in found)
    \/ <>refused \/ <>[](task = "none")
=============================================================================
