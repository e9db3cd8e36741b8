----------------------------- MODULE MC_Services -----------------------------
(* The components that do not share state with others, in one run: which of *)
(* them moves is drawn once.                                                *)
EXTENDS Buffer, Discover, MsgTlv, Clicks, Sweep

CONSTANTS Parts, A, B   \* two threads beside OT

VARIABLE part

servicesVars == <<part, vars, discoverVars, tlvVars, clickVars, sweepVars>>

ServicesInit ==
    /\ part \in Parts
    /\ Init /\ DiscoverInit /\ TlvInit /\ ClicksInit /\ SweepInit
    /\ part # "srp" => svc = "absent" /\ listing = CHOOSE l \in Listings : TRUE
    /\ part # "tlv" => size = CHOOSE s \in TlvSizes : TRUE

OnlyBuffer == part = "buffer" /\ UNCHANGED <<part, discoverVars, tlvVars, clickVars, sweepVars>>
OnlySrp == part = "srp" /\ UNCHANGED <<part, vars, tlvVars, clickVars, sweepVars>>
OnlyTlv == part = "tlv" /\ UNCHANGED <<part, vars, discoverVars, clickVars, sweepVars>>
OnlyClicks == part = "clicks" /\ UNCHANGED <<part, vars, discoverVars, tlvVars, sweepVars>>
OnlySweep == part = "sweep" /\ UNCHANGED <<part, vars, discoverVars, tlvVars, clickVars>>

ServicesNext ==
    \/ OnlyBuffer /\ Next
    \/ OnlySrp /\ DiscoverNext
    \/ OnlyTlv /\ TlvNext
    \/ OnlyClicks /\ ClicksNext
    \/ OnlySweep /\ SweepNext

\* A thread in its critical section gets on, as Buffer says; the lease task and
\* time go on, the client sends again what is not yet answered, buttons are
\* polled, and a button that is held ticks.
ServicesFairness ==
    /\ \A t \in Thread : WF_servicesVars(OnlyBuffer /\ CriticalSection(t))
    /\ WF_servicesVars(OnlyBuffer /\ (getWriteOnly_ptr \/ NoPointer \/ writeUnlock \/ clear))
    /\ WF_servicesVars(OnlySrp /\ LeaseCheck /\ UNCHANGED dnsVars) /\ WF_servicesVars(OnlySrp /\ ClearService /\ UNCHANGED dnsVars)
    /\ WF_servicesVars(OnlySrp /\ AddAgain /\ UNCHANGED dnsVars) /\ WF_servicesVars(OnlySrp /\ SrpTick /\ UNCHANGED dnsVars)
    /\ WF_servicesVars(OnlySrp /\ HostRemoved /\ UNCHANGED dnsVars)
    /\ SF_servicesVars(OnlySrp /\ svc = "toAdd" /\ dnsClientBrowse)
    /\ SF_servicesVars(OnlySrp /\ BrowseResponseCallback(TRUE))
    /\ \A name \in Names : SF_servicesVars(OnlySrp /\ AddressCallback(name, TRUE))
    /\ WF_servicesVars(OnlyClicks /\ Poll)
    /\ WF_servicesVars(OnlySweep /\ HoldTick)

ServicesSpec == ServicesInit /\ [][ServicesNext]_servicesVars /\ ServicesFairness

(* SrpLease!AgainRegistered, where the lease task moves.                    *)
ServiceAgainRegistered == part = "srp" => AgainRegistered
(* Discover!ShownIsFound, where the lease task moves.                       *)
ServicesFound == part = "srp" => ShownIsFound
(* Clicks!ClicksReported, where the button moves.                           *)
EveryClickReported == part = "clicks" => ClicksReported
(* Sweep!SweepsThrough, where the dimmer moves.                             *)
DimmerSweepsThrough == part = "sweep" => SweepsThrough

\* Discover: more than BrowseMax; a short name in the way.
TwoListings == {<<"a", "b", "c">>, <<"a", "x", "b">>}

\* ad_btn_dimControl.h
DimControlTable ==
    [thresh |-> <<30, 80, 160, 220, 255>>, steps |-> <<1, 4, 6, 8, 16>>,
     max |-> 255, min |-> 3]
=============================================================================
