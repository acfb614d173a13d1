----------------------------- MODULE EventBroker -----------------------------
(***************************************************************************)
(* The broker of server-sent events (server/events/sse.go): one goroutine  *)
(* selects among new clients, departed clients, published events and the   *)
(* keep-alive tick; each connection's handler reads its own queue.         *)
(***************************************************************************)
EXTENDS Naturals, Sequences

CONSTANTS
    Conns,         \* connections
    Uid, Owner,    \* [Conns -> ...] the client's unique id and its user
    Server,        \* origin of an event no client's request caused
    QueueLen,      \* bufferSize of a client's queue
    PublishLen,    \* capacity of the publish channel
    MaxEvents      \* bound: events published and ticks

ASSUME BrokerAssumption ==
    QueueLen \in Nat \ {0} /\ PublishLen \in Nat \ {0} /\ MaxEvents \in Nat /\ Server \notin Conns

VARIABLES
    conn,          \* [Conns -> {"new", "open", "left", "gone"}] the handler of a connection
    subscribing,   \* sequence of connections: channel of capacity 1
    unsubscribing, \* the same
    publish,       \* sequence of [origin, all]
    listeners,     \* the broker's map of clients
    msgC,          \* [Conns -> Seq of messages] queues
    closed,        \* connections whose queue is closed
    panicked,      \* a send on a closed queue ended the process
    events

brokerVars == <<conn, subscribing, unsubscribing, publish, listeners, msgC, closed, panicked, events>>

BrokerInit ==
    /\ conn = [c \in Conns |-> "new"]
    /\ subscribing = <<>> /\ unsubscribing = <<>> /\ publish = <<>>
    /\ listeners = {} /\ closed = {} /\ panicked = FALSE
    /\ msgC = [c \in Conns |-> <<>>]
    /\ events = 0

-------------------------------------------------------------------------------
(* Connections and senders                                                 *)

subscribe(c) ==
    /\ conn[c] = "new" /\ Len(subscribing) < 1
    /\ subscribing' = Append(subscribing, c)
    /\ conn' = [conn EXCEPT ![c] = "open"]
    /\ UNCHANGED <<unsubscribing, publish, listeners, msgC, closed, panicked, events>>

ServeHTTP(c) ==
    /\ conn[c] = "open" /\ msgC[c] # <<>>
    /\ msgC' = [msgC EXCEPT ![c] = Tail(@)]
    /\ UNCHANGED <<conn, subscribing, unsubscribing, publish, listeners, closed, panicked, events>>

\* The request's context ends or a write fails.
Disconnect(c) ==
    /\ conn[c] = "open"
    /\ conn' = [conn EXCEPT ![c] = "left"]
    /\ UNCHANGED <<subscribing, unsubscribing, publish, listeners, msgC, closed, panicked, events>>

unsubscribe(c) ==
    /\ conn[c] = "left" /\ Len(unsubscribing) < 1
    /\ unsubscribing' = Append(unsubscribing, c)
    /\ conn' = [conn EXCEPT ![c] = "gone"]
    /\ UNCHANGED <<subscribing, publish, listeners, msgC, closed, panicked, events>>

SendMessage(o, all) ==
    /\ events < MaxEvents /\ events' = events + 1
    /\ Len(publish) < PublishLen
    /\ publish' = Append(publish, [origin |-> o, all |-> all])
    /\ UNCHANGED <<conn, subscribing, unsubscribing, listeners, msgC, closed, panicked>>

-------------------------------------------------------------------------------
(* listen                                                                  *)

\* To everyone, or to the other clients of the user whose request caused it.
shouldSend(m, c) ==
    \/ m.all \/ m.origin = Server
    \/ Uid[c] # Uid[m.origin] /\ Owner[c] = Owner[m.origin]

\* Mutant: the broker waits for room in every queue.
sendOrDrop_Waits(cs, m) ==
    /\ \A c \in cs : Len(msgC[c]) < QueueLen
    /\ msgC' = [c \in Conns |-> IF c \in cs THEN Append(msgC[c], m) ELSE msgC[c]]
    /\ panicked' = (panicked \/ cs \cap closed # {})

\* A full queue drops the message; a closed one panics.
sendOrDrop(cs, m) ==
    /\ msgC' = [c \in Conns |-> IF c \in cs \ closed /\ Len(msgC[c]) < QueueLen
                                THEN Append(msgC[c], m) ELSE msgC[c]]
    /\ panicked' = (panicked \/ cs \cap closed # {})

Greeting == [origin |-> Server, all |-> FALSE]

Subscribed ==
    /\ subscribing # <<>>
    /\ subscribing' = Tail(subscribing)
    /\ listeners' = listeners \cup {Head(subscribing)}
    /\ sendOrDrop({Head(subscribing)}, Greeting)
    /\ UNCHANGED <<conn, unsubscribing, publish, closed, events>>

Unsubscribed ==
    /\ unsubscribing # <<>>
    /\ unsubscribing' = Tail(unsubscribing)
    /\ closed' = closed \cup {Head(unsubscribing)}
    /\ listeners' = listeners \ {Head(unsubscribing)}
    /\ UNCHANGED <<conn, subscribing, publish, msgC, panicked, events>>

Published ==
    /\ publish # <<>>
    /\ publish' = Tail(publish)
    /\ sendOrDrop({c \in listeners : shouldSend(Head(publish), c)}, Head(publish))
    /\ UNCHANGED <<conn, subscribing, unsubscribing, listeners, closed, events>>

KeepAlive ==
    /\ listeners # {} /\ events < MaxEvents /\ events' = events + 1
    /\ sendOrDrop(listeners, Greeting)
    /\ UNCHANGED <<conn, subscribing, unsubscribing, publish, listeners, closed>>

listen == Subscribed \/ Unsubscribed \/ Published \/ KeepAlive

BrokerNext ==
    /\ ~panicked
    /\ \/ \E c \in Conns : subscribe(c) \/ ServeHTTP(c) \/ Disconnect(c) \/ unsubscribe(c)
       \/ \E o \in Conns \cup {Server}, all \in BOOLEAN : SendMessage(o, all)
       \/ listen

BrokerSpec == BrokerInit /\ [][BrokerNext]_brokerVars

\* The broker's goroutine runs on; no client is assumed to read its queue.
BrokerFairness == WF_brokerVars(~panicked /\ listen)

-------------------------------------------------------------------------------
(* Properties *)

\* The publish channel drains, and with it every request that announces a
\* change, however long a client leaves its queue unread.  Only the broker's own
\* goroutine is fair here: no handler ever has to read.
PublishersAreNotHeld == Len(publish) = PublishLen ~> Len(publish) < PublishLen \/ panicked

\* What waits in a client's queue was meant for it: not the echo of its own
\* request, and nothing of another user's unless sent to all.
QueuedForItsUser ==
    \A c \in Conns : \A k \in 1..Len(msgC[c]) :
        LET m == msgC[c][k]
        IN  m.all \/ m.origin = Server \/ (m.origin # c /\ Owner[m.origin] = Owner[c])

\* Events reach whom they are meant for, and a client that does not read holds
\* nobody up.
EventsAreSpread == []QueuedForItsUser /\ PublishersAreNotHeld

===============================================================================
