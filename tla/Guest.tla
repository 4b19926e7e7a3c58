-------------------------------- MODULE Guest --------------------------------
(***************************************************************************)
(* A cartridge that runs: the clock and the tracks it hears (GuestClock)   *)
(* and the performance broker it reports to (PerfBroker), which stamps a   *)
(* suite with the guest's time.  Every host call is made while the guest   *)
(* executes and is charged virtual cycles in accurate mode.                *)
(***************************************************************************)
EXTENDS GuestClock, PerfBroker

CONSTANTS
    Uses,       \* [Carts -> subsets of {"track", "broker"}]: the calls a cartridge makes
    MaxCalls    \* bound: track calls of a cartridge

VARIABLES
    calls,      \* track calls since the load
    steady      \* history: the mode has not changed since the suite began

vars == <<clockVars, brokerVars, calls, steady>>

Init == ClockInit /\ BrokerInit /\ calls = 0 /\ steady = TRUE

Loads(c) == Load(c) /\ BrokerReset /\ calls' = 0 /\ steady' = TRUE

HostStep ==
    /\ ClockStep /\ ~LoadsCartridge
    /\ steady' = (steady /\ mode' = mode)
    /\ UNCHANGED <<brokerVars, calls>>

CallsTrack ==
    /\ cart # "none" /\ "track" \in Uses[cart] /\ calls < MaxCalls
    /\ TrackCall /\ calls' = calls + 1
    /\ UNCHANGED <<brokerVars, steady>>

CallsBroker ==
    /\ phase # "idle" /\ "broker" \in Uses[cart]
    /\ BrokerCall(Now)
    /\ steady' = (steady \/ perf'.sequence # perf.sequence)
    /\ UNCHANGED <<clockVars, calls>>

Next ==
    \/ \E c \in Carts : Loads(c)
    \/ HostStep
    \/ CallsTrack
    \/ CallsBroker

Spec == Init /\ [][Next]_vars

\* A complete suite lasted as long as the guest's clock says, unless the mode changed meanwhile.
SuiteDuration == perf.state \in {2, 3} /\ steady => perf.ended - perf.started \in 0 .. Now

\* In whatever order the broker is called and whatever the clock does, its cases are begun and
\* ended one at a time, by a suite whose times are the guest's.
SuiteOrdered == OneCaseOpen /\ SuiteDuration
=============================================================================
