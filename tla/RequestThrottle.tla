---------------------------- MODULE RequestThrottle ----------------------------
(***************************************************************************)
(* The throttle in front of artwork requests (server/throttle_backlog.go): *)
(* a backlog token admits a request, a token lets it run, both go back     *)
(* before the response is written.                                         *)
(***************************************************************************)
EXTENDS Naturals, FiniteSets

CONSTANTS Calls, Limit, BacklogLimit

ASSUME ThrottleAssumption == IsFiniteSet(Calls) /\ Limit \in Nat \ {0} /\ BacklogLimit \in Nat

VARIABLES
    call,            \* [Calls -> "new", "admitted", "waiting", "running", "releasing", "writing", "served", "refused"]
    tokens, backlogTokens

throttleVars == <<call, tokens, backlogTokens>>

ThrottleInit ==
    /\ call = [c \in Calls |-> "new"]
    /\ tokens = Limit /\ backlogTokens = Limit + BacklogLimit

Becomes(c, s) == call' = [call EXCEPT ![c] = s]

\* Without a backlog token the request is refused at once.
Admit(c) ==
    /\ call[c] = "new"
    /\ \/ backlogTokens > 0 /\ backlogTokens' = backlogTokens - 1 /\ Becomes(c, "admitted")
       \/ backlogTokens = 0 /\ Becomes(c, "refused") /\ UNCHANGED backlogTokens
    /\ UNCHANGED tokens

\* Mutant: only a request that finds a token at once gets one.
TakeToken_NeverLater(c) ==
    /\ call[c] = "admitted" /\ tokens > 0
    /\ tokens' = tokens - 1 /\ Becomes(c, "running")
    /\ UNCHANGED backlogTokens

TakeToken(c) ==
    /\ call[c] \in {"admitted", "waiting"} /\ tokens > 0
    /\ tokens' = tokens - 1 /\ Becomes(c, "running")
    /\ UNCHANGED backlogTokens

Wait(c) ==
    /\ call[c] = "admitted" /\ tokens = 0
    /\ Becomes(c, "waiting") /\ UNCHANGED <<tokens, backlogTokens>>

\* backlogTimeout passes or the client goes, also when a token is free by then.
StopWaiting(c) ==
    /\ call[c] = "waiting"
    /\ backlogTokens' = backlogTokens + 1 /\ Becomes(c, "refused")
    /\ UNCHANGED tokens

\* The handler returns or panics into its buffer; release gives back the token
\* first and the backlog token second.
HandlerEnds(c) ==
    /\ call[c] = "running"
    /\ tokens' = tokens + 1 /\ Becomes(c, "releasing")
    /\ UNCHANGED backlogTokens

ReleaseBacklog(c) ==
    /\ call[c] = "releasing"
    /\ backlogTokens' = backlogTokens + 1 /\ Becomes(c, "writing")
    /\ UNCHANGED tokens

\* A slow client may take for ever.
Written(c) == call[c] = "writing" /\ Becomes(c, "served") /\ UNCHANGED <<tokens, backlogTokens>>

ThrottleSteps(c) == TakeToken(c) \/ Wait(c) \/ HandlerEnds(c) \/ ReleaseBacklog(c)

ThrottleNext == \E c \in Calls : Admit(c) \/ ThrottleSteps(c) \/ StopWaiting(c) \/ Written(c)

ThrottleSpec == ThrottleInit /\ [][ThrottleNext]_throttleVars

\* Handlers return, and goroutines that can take a token do.  Calls is every
\* request made, so no stream of new ones can keep a waiting one from its token.
ThrottleFairness == \A c \in Calls : WF_throttleVars(ThrottleSteps(c))

-------------------------------------------------------------------------------
(* Properties *)

In(S) == Cardinality({c \in Calls : call[c] \in S})

\* No path through acquire loses a token: what is out is held by a request.
TokensAreHeld ==
    /\ tokens + In({"running"}) = Limit
    /\ backlogTokens + In({"admitted", "waiting", "running", "releasing"}) = Limit + BacklogLimit

\* An admitted request runs even when no client ever reads its response and the
\* time-out does not come to help: neither Written nor StopWaiting is assumed to
\* happen.
AdmittedIsDecided == \A c \in Calls : call[c] = "admitted" ~> call[c] \in {"writing", "served", "refused"}

\* The throttle neither loses a token nor leaves an admitted request waiting.
ThrottleServes == []TokensAreHeld /\ AdmittedIsDecided
===============================================================================
