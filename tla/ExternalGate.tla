----------------------------- MODULE ExternalGate -----------------------------
(***************************************************************************)
(* The circuit breaker of one external image agent (core/artwork/gate.go)  *)
(* under the goroutines of the artwork worker.  Time is counted in half    *)
(* probe windows; a call may outlast any of them.                          *)
(***************************************************************************)
EXTENDS Integers, FiniteSets

CONSTANTS
    Fetchers,          \* goroutines that ask the agent
    BreakerThreshold,  \* breakerThreshold
    ProbeAfter,        \* breakerProbeAfter
    MaxFailures,       \* bound of the failure counter
    MaxOutages         \* bound: how often the provider breaks down

ASSUME GateAssumption ==
    /\ BreakerThreshold \in Nat \ {0} /\ ProbeAfter \in Nat \ {0}
    /\ MaxFailures >= BreakerThreshold /\ MaxOutages \in Nat

VARIABLES
    failures, sinceOpened,   \* the breaker; sinceOpened is capped at ProbeAfter
    fetching,                \* goroutines between allow and record
    provider,                \* TRUE: the agent answers
    outages,
    admitted                 \* calls admitted by an open breaker in this window

gateVars == <<failures, sinceOpened, fetching, provider, outages, admitted>>

GateInit ==
    /\ failures = 0 /\ sinceOpened = ProbeAfter
    /\ fetching = {} /\ provider \in BOOLEAN /\ outages = 0 /\ admitted = 0

Open == failures >= BreakerThreshold

\* Mutant: a refused call renews the window too.
allow_RenewsWindow(f) ==
    /\ f \notin fetching
    /\ fetching' = IF ~Open \/ sinceOpened >= ProbeAfter THEN fetching \cup {f} ELSE fetching
    /\ sinceOpened' = IF Open THEN 0 ELSE sinceOpened
    /\ admitted' = IF Open /\ sinceOpened >= ProbeAfter THEN admitted + 1 ELSE admitted
    /\ UNCHANGED <<failures, provider, outages>>

\* An open breaker lets one caller through per window and refuses the others.
allow(f) ==
    /\ f \notin fetching
    /\ \/ ~Open /\ fetching' = fetching \cup {f} /\ UNCHANGED <<sinceOpened, admitted>>
       \/ /\ Open /\ sinceOpened >= ProbeAfter
          /\ sinceOpened' = 0 /\ admitted' = admitted + 1
          /\ fetching' = fetching \cup {f}
       \/ Open /\ sinceOpened < ProbeAfter /\ UNCHANGED <<fetching, sinceOpened, admitted>>
    /\ UNCHANGED <<failures, provider, outages>>

\* A miss is an answer, not a fault.  Only the failure that reaches the
\* threshold sets the time.
record(f) ==
    /\ f \in fetching /\ fetching' = fetching \ {f}
    /\ \/ provider /\ failures' = 0 /\ UNCHANGED <<sinceOpened, admitted>>
       \/ /\ ~provider /\ failures < MaxFailures
          /\ failures' = failures + 1
          /\ \/ failures' = BreakerThreshold /\ sinceOpened' = 0 /\ admitted' = 0
             \/ failures' # BreakerThreshold /\ UNCHANGED <<sinceOpened, admitted>>
    /\ UNCHANGED <<provider, outages>>

\* The wait for the rate limit, or the call, is cancelled: nothing is recorded.
Cancelled(f) ==
    /\ f \in fetching /\ fetching' = fetching \ {f}
    /\ UNCHANGED <<failures, sinceOpened, provider, outages, admitted>>

GateTick ==
    /\ sinceOpened < ProbeAfter /\ sinceOpened' = sinceOpened + 1
    /\ admitted' = IF sinceOpened' = ProbeAfter THEN 0 ELSE admitted
    /\ UNCHANGED <<failures, fetching, provider, outages>>

ProviderChanges ==
    /\ provider \/ outages < MaxOutages
    /\ outages' = IF provider THEN outages ELSE outages + 1
    /\ provider' = ~provider
    /\ UNCHANGED <<failures, sinceOpened, fetching, admitted>>

GateNext ==
    \/ \E f \in Fetchers : allow(f) \/ record(f) \/ Cancelled(f)
    \/ GateTick \/ ProviderChanges

GateSpec == GateInit /\ [][GateNext]_gateVars

-------------------------------------------------------------------------------
(* Properties *)

\* An open breaker admits one probe per window, however many goroutines ask.
OneProbePerWindow == Open => admitted <= 1

\* Once the provider answers, the breaker closes, however often refused callers
\* ask in between.
BreakerCloses == Open /\ provider ~> ~Open \/ ~provider

\* The breaker spares a provider that fails and finds out when it is back.
BreakerProbes == []OneProbePerWindow /\ BreakerCloses
===============================================================================
