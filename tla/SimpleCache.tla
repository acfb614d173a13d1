------------------------------ MODULE SimpleCache ------------------------------
(***************************************************************************)
(* GetWithLoader of utils/cache/simple_cache.go, as the cached HTTP client *)
(* uses it: concurrent misses of one key share a single load.  One key; a  *)
(* value is the number of the load that made it.                           *)
(***************************************************************************)
EXTENDS Naturals

CONSTANTS
    Getters,       \* goroutines
    Absent,        \* nothing cached, no flight, no result
    Failed,        \* the loader's error
    MaxLoads       \* bound

ASSUME SimpleAssumption == MaxLoads \in Nat /\ Absent \notin Nat \cup Getters /\ Failed \notin Nat

VARIABLES
    cached,    \* Absent or the value in the map
    flight,    \* Absent or the goroutine whose load is registered
    getter,    \* [Getters -> "idle", "missed", "leading", "loading", "loaded", "closed", "waiting", "done"]
    waitsFor,  \* [Getters -> the leader a waiter waits for]
    result,    \* [Getters -> Absent, Failed or a value] of a flight and of a call
    loads, expiries

simpleVars == <<cached, flight, getter, waitsFor, result, loads, expiries>>

SimpleInit ==
    /\ cached = Absent /\ flight = Absent
    /\ getter = [g \in Getters |-> "idle"] /\ result = [g \in Getters |-> Absent]
    /\ waitsFor = [g \in Getters |-> Absent]
    /\ loads = 0 /\ expiries = 0

Step(g, s) == getter' = [getter EXCEPT ![g] = s]

GetWithLoader(g) ==
    /\ getter[g] = "idle"
    /\ \/ cached # Absent /\ result' = [result EXCEPT ![g] = cached] /\ Step(g, "done")
       \/ cached = Absent /\ Step(g, "missed") /\ UNCHANGED result
    /\ UNCHANGED <<cached, flight, waitsFor, loads, expiries>>

\* Under the lock: wait for the flight that is registered, or register one.
JoinFlight(g) ==
    /\ getter[g] = "missed"
    /\ \/ flight # Absent /\ Step(g, "waiting") /\ waitsFor' = [waitsFor EXCEPT ![g] = flight]
          /\ UNCHANGED flight
       \/ flight = Absent /\ flight' = g /\ Step(g, "leading") /\ UNCHANGED waitsFor
    /\ UNCHANGED <<cached, result, loads, expiries>>

\* A flight may have completed since the miss.
LookAgain(g) ==
    /\ getter[g] = "leading"
    /\ \/ cached # Absent /\ result' = [result EXCEPT ![g] = cached] /\ Step(g, "loaded")
          /\ UNCHANGED loads
       \/ /\ cached = Absent /\ loads < MaxLoads
          /\ loads' = loads + 1 /\ Step(g, "loading") /\ UNCHANGED result
    /\ UNCHANGED <<cached, flight, waitsFor, expiries>>

\* An error, or a panic, of the loader is not cached.
Load(g, ok) ==
    /\ getter[g] = "loading"
    /\ result' = [result EXCEPT ![g] = IF ok THEN loads ELSE Failed]
    /\ cached' = IF ok THEN loads ELSE cached
    /\ Step(g, "loaded")
    /\ UNCHANGED <<flight, waitsFor, loads, expiries>>

\* Mutant: a loader that fails or panics leaves its flight open.
CloseFlight_OnSuccess(g) ==
    /\ getter[g] = "loaded" /\ result[g] # Failed
    /\ Step(g, "closed")
    /\ UNCHANGED <<cached, flight, waitsFor, result, loads, expiries>>

CloseFlight(g) ==
    /\ getter[g] = "loaded"
    /\ Step(g, "closed")
    /\ UNCHANGED <<cached, flight, waitsFor, result, loads, expiries>>

Deregister(g) ==
    /\ getter[g] = "closed"
    /\ flight' = Absent /\ Step(g, "done")
    /\ UNCHANGED <<cached, waitsFor, result, loads, expiries>>

Woken(g) ==
    /\ getter[g] = "waiting" /\ getter[waitsFor[g]] \in {"closed", "done"}
    /\ result' = [result EXCEPT ![g] = result[waitsFor[g]]]
    /\ Step(g, "done")
    /\ UNCHANGED <<cached, flight, waitsFor, loads, expiries>>

Expires ==
    /\ cached # Absent /\ expiries < MaxLoads
    /\ cached' = Absent /\ expiries' = expiries + 1
    /\ UNCHANGED <<flight, getter, waitsFor, result, loads>>

GetterSteps(g) ==
    \/ JoinFlight(g) \/ LookAgain(g) \/ (\E ok \in BOOLEAN : Load(g, ok))
    \/ CloseFlight(g) \/ Deregister(g) \/ Woken(g)

SimpleNext == (\E g \in Getters : GetWithLoader(g) \/ GetterSteps(g)) \/ Expires

SimpleSpec == SimpleInit /\ [][SimpleNext]_simpleVars

\* Goroutines run on and loaders return.
SimpleFairness == \A g \in Getters : WF_simpleVars(GetterSteps(g))

-------------------------------------------------------------------------------
(* Properties *)

\* Concurrent misses load once: no value is loaded while another one is cached,
\* so the number of loads is at most one more than what failed or expired.
LoadsOnce == \A g \in Getters : getter[g] = "loading" => cached = Absent /\ flight = g

\* Nobody waits for a flight that has ended: every call gets the value or the
\* loader's error, and the next miss can load again.
EveryGetReturns == \A g \in Getters : getter[g] = "missed" ~> getter[g] = "done" \/ loads = MaxLoads

\* Concurrent misses share one load, and each of them returns, also when the
\* load fails.
MissesShareOneLoad == []LoadsOnce /\ EveryGetReturns
===============================================================================
