----------------------------- MODULE MCServices -----------------------------
(* The goroutines that run beside the scanner.  They share no state, so each *)
(* behaviour of this module is one of one component: `part` picks it and the *)
(* others keep a fixed initial state.                                        *)
EXTENDS ScanWatcher, EventBroker, RequestThrottle, SimpleCache, ExternalGate, TLC

VARIABLE part

serviceVars == <<watchVars, brokerVars, throttleVars, simpleVars, gateVars, part>>

Tree == ("r" :> {}) @@ ("a" :> {"r"}) @@ ("b" :> {"r", "a"})
NoRules == [d \in Dirs |-> {}]
SomeRules == {NoRules, [NoRules EXCEPT !["r"] = {"b"}], [NoRules EXCEPT !["a"] = {"b", "a"}]}
ClientUid == ("c" :> 1) @@ ("d" :> 2) @@ ("e" :> 3)
ClientOwner == ("c" :> "ann") @@ ("d" :> "ann") @@ ("e" :> "bob")

Parts == {"watcher", "broker", "throttle", "cache", "gate"}

ServicesInit ==
    /\ part \in Parts
    /\ WatcherInit /\ BrokerInit /\ ThrottleInit /\ SimpleInit /\ GateInit
    /\ part # "watcher" => rule = NoRules
    /\ part # "gate" => provider

ServicesNext ==
    /\ \/ /\ part = "watcher" /\ WatcherNext
          /\ UNCHANGED <<brokerVars, throttleVars, simpleVars, gateVars>>
       \/ /\ part = "broker" /\ BrokerNext
          /\ UNCHANGED <<watchVars, throttleVars, simpleVars, gateVars>>
       \/ /\ part = "throttle" /\ ThrottleNext
          /\ UNCHANGED <<watchVars, brokerVars, simpleVars, gateVars>>
       \/ /\ part = "cache" /\ SimpleNext
          /\ UNCHANGED <<watchVars, brokerVars, throttleVars, gateVars>>
       \/ /\ part = "gate" /\ GateNext
          /\ UNCHANGED <<watchVars, brokerVars, throttleVars, simpleVars>>
    /\ UNCHANGED part

\* The fairness of each component; GateFairness with callers in its own part only.
ServicesFairness ==
    /\ WatcherFairness /\ BrokerFairness /\ ThrottleFairness /\ SimpleFairness
    /\ WF_gateVars(GateTick) /\ SF_gateVars(\E f \in Fetchers : record(f))
    /\ WF_gateVars(part = "gate" /\ \E f \in Fetchers : allow(f) /\ fetching' # fetching)

ServicesSpec == ServicesInit /\ [][ServicesNext]_serviceVars /\ ServicesFairness
=============================================================================
