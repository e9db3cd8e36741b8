------------------------------ MODULE SrpLease ------------------------------
(***************************************************************************)
(* The SRP service of the device (ot_app_srp_client.c): removal of what an *)
(* earlier run left at the server, registration, and the task that renews  *)
(* the lease by clearing the service and adding it again.                  *)
(*                                                                         *)
(* The OpenThread client and the server are external: the client sends     *)
(* what changed until the server answers.  (It would also renew a lease by *)
(* itself; that is left out, the task is there to make it unnecessary.)    *)
(* Time is counted in delays of the task (OTAPP_DNS_LEASE_TASK_DELAY).     *)
(***************************************************************************)
EXTENDS Integers

CONSTANTS LeaseInterval,   \* otSrpClientGetLeaseInterval, in delays
          LeaseGuard,      \* OTAPP_DNS_LEASE_GUARD, in delays
          Patience,        \* an answer that takes longer is "late"
          AddRefused       \* may the client refuse to add a service?

ASSUME SrpConstants ==
    /\ LeaseInterval \in Nat /\ LeaseGuard \in Nat /\ LeaseGuard < LeaseInterval
    /\ Patience \in Nat /\ AddRefused \in BOOLEAN
\* The guard covers the wait for an answer (and the delay in which the task
\* looks), and the answer comes before the task looks again.
ASSUME LeaseRoom == Patience + 2 <= LeaseGuard /\ LeaseGuard + Patience <= LeaseInterval

VARIABLES host,    \* the client's record of the host
          svc,     \* and of the service: "absent", "toAdd", "registered"
          left,    \* what is left of the lease at the server
          count,   \* otapp_srpLeaseValue
          task,    \* the lease task; "none" before LeaseCheckTaskInit
          waited,  \* delays since the server owes an answer
          late,    \* it once took longer than Patience
          refused  \* the client once refused to add the service

srpVars == <<host, svc, left, count, task, waited, late, refused>>

\* AddService after the service is no longer with the client.
AddService ==
    \/ svc' = "toAdd" /\ UNCHANGED refused
    \/ AddRefused /\ svc' = "absent" /\ refused' = TRUE

\* srpClientInit; the client may have nothing to remove.
SrpInit ==
    /\ \/ host = "toRemove" /\ svc = "absent"
       \/ host = "toAdd" /\ svc = "toAdd"
    /\ left = 0 /\ count = 0 /\ task = "none"
    /\ waited = 0 /\ late = FALSE /\ refused = FALSE

Owed == host # "registered" \/ svc = "toAdd"

------------------------------------------------------------------------------
(* The client's callback on the server's answer.                            *)

\* The old entries are gone: host name, address and service are set anew.
HostRemoved ==
    /\ host = "toRemove"
    /\ host' = "toAdd"
    /\ AddService
    /\ waited' = 0
    /\ UNCHANGED <<left, count, task, late>>

\* The first time this creates the task, if there is memory for it.
InitCount == count' = LeaseInterval + 1
LeaseCheckTaskInit ==
    \/ task = "none" /\ task' = "check" /\ InitCount
    \/ UNCHANGED <<task, count>>
Registered ==
    /\ Owed /\ host # "toRemove"
    /\ host' = "registered"
    /\ svc' = IF svc = "toAdd" THEN "registered" ELSE svc
    /\ left' = IF svc = "absent" THEN left ELSE LeaseInterval
    /\ waited' = 0
    /\ LeaseCheckTaskInit
    /\ UNCHANGED <<late, refused>>

\* srpClientUpdateHostAddress, when the role in the network changed.
UpdateHostAddress ==
    /\ host = "registered" /\ host' = "toAdd"
    /\ UNCHANGED <<svc, left, count, task, waited, late, refused>>

------------------------------------------------------------------------------
(* The lease task.  It does not hold OpenThread's lock: callbacks come      *)
(* between its two calls.                                                   *)

\* Mutant: the lease is renewed when it is over.
CheckExpiry_TooLate(lease) == lease <= 0
CheckExpiry(lease) == lease <= LeaseGuard
LeaseCheck ==
    /\ task = "check"
    /\ count' = count - 1
    /\ task' = IF CheckExpiry(count') THEN "clear" ELSE "sleep"
    /\ UNCHANGED <<host, svc, left, waited, late, refused>>
\* A service the client does not have cannot be cleared, and is not added.
ClearService ==
    /\ task = "clear"
    /\ IF svc = "absent" THEN task' = "sleep" /\ InitCount
                         ELSE task' = "add" /\ UNCHANGED count
    /\ svc' = "absent"
    /\ UNCHANGED <<host, left, waited, late, refused>>
\* Mutant: what was cleared is not added again.
AddAgain_Never ==
    /\ task = "add" /\ task' = "sleep"
    /\ InitCount
    /\ UNCHANGED <<host, svc, left, waited, late, refused>>
AddAgain ==
    /\ task = "add" /\ task' = "sleep"
    /\ AddService
    /\ InitCount
    /\ UNCHANGED <<host, left, waited, late>>

SrpTick ==
    /\ task \in {"none", "sleep"}
    /\ task' = IF task = "sleep" THEN "check" ELSE task
    /\ left' = IF left = 0 THEN 0 ELSE left - 1
    /\ waited' = IF Owed /\ waited <= Patience THEN waited + 1 ELSE waited
    /\ late' = (late \/ waited' > Patience)
    /\ UNCHANGED <<host, svc, count, refused>>

SrpNext ==
    \/ HostRemoved \/ Registered \/ UpdateHostAddress
    \/ LeaseCheck \/ ClearService \/ AddAgain \/ SrpTick
SrpSpec == SrpInit /\ [][SrpNext]_srpVars

------------------------------------------------------------------------------
(* As long as the server answers within Patience and the client takes the   *)
(* service back, the lease never runs out at the server, although the task  *)
(* counts from when it asked and not from the answer.                       *)
LeaseHeld == task # "none" /\ ~late /\ ~refused => left > 0

(* The service is registered again and again, however late the server       *)
(* answers, unless the client refused it (ClearService then fails for good) *)
(* or the task could not be created.                                        *)
AgainRegistered == []<>(svc = "registered" /\ left > 0) \/ <>refused \/ <>[](task = "none")
=============================================================================
