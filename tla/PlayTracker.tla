------------------------------- MODULE PlayTracker -------------------------------
(***************************************************************************)
(* Playback sessions: core/scrobbler/play_tracker.go with its two workers, *)
(* nowplaying_worker.go and playbackreport_worker.go, over the TTL map of  *)
(* utils/cache/simple_cache.go.                                            *)
(*                                                                         *)
(* A client's reports (starting, playing, paused, stopped) are handled by  *)
(* concurrent requests, in any order.  sessionsMu covers the check and the *)
(* write of the session map, not the load of the track before it nor the   *)
(* enqueuing of the outgoing report after it.  Sessions are kept per       *)
(* client, so one client is modelled; the queues' entries are its own.     *)
(***************************************************************************)
EXTENDS Integers, Sequences

CONSTANTS
    Tracks,      \* media ids
    Reports,     \* the calls of ReportPlayback made by the client
    TrackOf,     \* [Reports -> Tracks]
    StateOf,     \* [Reports -> ReportStates]
    Scrobbles,   \* the stopped reports past the play threshold of a scrobbling player
    NoSession,        \* no session, no entry, nothing delivered
    MaxLoadFaults,   \* bound: failing loads of a track
    MaxExpiries  \* bound: sessions whose TTL passes; no limit when >= the reports

ReportStates == {"starting", "playing", "paused", "stopped"}
Messages == [track : Tracks, st : ReportStates \cup {"expired"}]
Sessions == [track : Tracks, st : {"starting", "playing", "paused"}, live : BOOLEAN]

ASSUME TrackerAssumption ==
    /\ TrackOf \in [Reports -> Tracks]
    /\ StateOf \in [Reports -> ReportStates]
    /\ Scrobbles \subseteq {r \in Reports : StateOf[r] = "stopped"}
    /\ MaxLoadFaults \in Nat /\ MaxExpiries \in Nat
    /\ NoSession \notin Messages \cup Sessions \cup Tracks

VARIABLES
    playMap,    \* the client's session: NoSession or [track, st, live]
    expiring,   \* [Tracks -> Nat] evicted sessions whose callback has not run yet
    handlerPc,         \* [Reports -> where its request handler is]
    info,       \* [Reports -> NoSession or the report it will enqueue]
    scrobbled,  \* reports that counted a play and buffered a scrobble
    prQueue, prSignal, prPc, prBatch,   \* playback reports and their worker
    npQueue,    \* NoSession or the track of the client's pending now-playing update
    delivered,  \* the last playback report the external reporters got
    loadFaults,
    expiries

requestVars == <<handlerPc, info, scrobbled, loadFaults>>
prVars   == <<prQueue, prSignal, prPc, prBatch, delivered>>
trackerVars     == <<playMap, expiring, expiries, requestVars, prVars, npQueue>>

\* live is FALSE once the TTL has passed and the item is not evicted yet.
Session(t, st) == [track |-> t, st |-> st, live |-> TRUE]
Message(t, st) == [track |-> t, st |-> st]

LoadFault == loadFaults < MaxLoadFaults /\ loadFaults' = loadFaults + 1

\* playMap.Get: an item past its TTL is not found, evicted or not.
Current(t) == playMap # NoSession /\ playMap.live /\ playMap.track = t
Other(t)   == playMap # NoSession /\ playMap.live /\ playMap.track # t

hasPlayingSession(t) == Current(t) /\ playMap.st = "playing"

TrackerInit ==
    /\ playMap = NoSession
    /\ expiring = [t \in Tracks |-> 0]
    /\ handlerPc = [r \in Reports |-> "new"]
    /\ info = [r \in Reports |-> NoSession]
    /\ scrobbled = {}
    /\ prQueue = <<>> /\ prSignal = FALSE /\ prPc = "select" /\ prBatch = <<>>
    /\ npQueue = NoSession
    /\ delivered = NoSession
    /\ loadFaults = 0 /\ expiries = 0

Goto(r, l) == handlerPc' = [handlerPc EXCEPT ![r] = l]

-------------------------------------------------------------------------------
(* ReportPlayback, state starting.                                         *)

StartingCheck(r) ==
    /\ handlerPc[r] = "new" /\ StateOf[r] = "starting"
    /\ Goto(r, IF hasPlayingSession(TrackOf[r]) THEN "done" ELSE "loaded")
    /\ UNCHANGED <<playMap, expiring, expiries, info, scrobbled, loadFaults, prVars, npQueue>>

\* Mutant: no second check under the lock.
StartingWrite_NoRecheck(r) ==
    /\ handlerPc[r] = "loaded" /\ StateOf[r] = "starting"
    /\ playMap' = Session(TrackOf[r], "starting")
    /\ info' = [info EXCEPT ![r] = Message(TrackOf[r], "starting")]
    /\ Goto(r, "enqueue")
    /\ UNCHANGED <<expiring, expiries, scrobbled, loadFaults, prVars, npQueue>>

\* The section under sessionsMu, with its second check.
StartingWrite(r) ==
    /\ handlerPc[r] = "loaded" /\ StateOf[r] = "starting"
    /\ IF hasPlayingSession(TrackOf[r])
         THEN Goto(r, "done") /\ UNCHANGED <<playMap, info>>
         ELSE /\ playMap' = Session(TrackOf[r], "starting")
              /\ info' = [info EXCEPT ![r] = Message(TrackOf[r], "starting")]
              /\ Goto(r, "enqueue")
    /\ UNCHANGED <<expiring, expiries, scrobbled, loadFaults, prVars, npQueue>>

-------------------------------------------------------------------------------
(* ReportPlayback, states playing and paused.  The session read here only  *)
(* supplies the track's metadata and start; its track is the report's own. *)

PlayingLoad(r) ==
    /\ handlerPc[r] = "new" /\ StateOf[r] \in {"playing", "paused"}
    /\ Goto(r, "loaded")
    /\ UNCHANGED <<playMap, expiring, expiries, info, scrobbled, loadFaults, prVars, npQueue>>

PlayingWrite(r) ==
    /\ handlerPc[r] = "loaded" /\ StateOf[r] \in {"playing", "paused"}
    /\ playMap' = Session(TrackOf[r], StateOf[r])
    /\ info' = [info EXCEPT ![r] = Message(TrackOf[r], StateOf[r])]
    /\ Goto(r, "enqueue")
    /\ UNCHANGED <<expiring, expiries, scrobbled, loadFaults, prVars, npQueue>>

\* The track cannot be loaded: the request fails with nothing written.  A
\* playing or paused report loads only if it is not for the current session,
\* a stopped one only if it may scrobble.
LoadFails(r) ==
    /\ handlerPc[r] = "new"
    /\ \/ StateOf[r] = "starting" /\ ~hasPlayingSession(TrackOf[r])
       \/ StateOf[r] \in {"playing", "paused"} /\ ~Current(TrackOf[r])
       \/ r \in Scrobbles
    /\ LoadFault
    /\ Goto(r, "done")
    /\ UNCHANGED <<playMap, expiring, expiries, info, scrobbled, prVars, npQueue>>

-------------------------------------------------------------------------------
(* ReportPlayback, state stopped.                                          *)

\* incPlay and dispatchScrobble, before the session is looked at.
StoppedScrobble(r) ==
    /\ handlerPc[r] = "new" /\ StateOf[r] = "stopped"
    /\ scrobbled' = IF r \in Scrobbles THEN scrobbled \cup {r} ELSE scrobbled
    /\ Goto(r, "loaded")
    /\ UNCHANGED <<playMap, expiring, expiries, info, loadFaults, prVars, npQueue>>

\* Under sessionsMu: a stop for another track than the session's is ignored,
\* otherwise the session is removed.  Deleting an item past its TTL before the
\* cache evicts it also keeps its expiration from being reported.  Without a
\* session the track is loaded afterwards, unless the scrobble loaded it.
StoppedRemove(r) ==
    /\ handlerPc[r] = "loaded" /\ StateOf[r] = "stopped"
    /\ \/ /\ Other(TrackOf[r])
          /\ Goto(r, "done")
          /\ UNCHANGED <<playMap, info, loadFaults>>
       \/ /\ ~Other(TrackOf[r])
          /\ playMap' = NoSession
          /\ info' = [info EXCEPT ![r] = Message(TrackOf[r], "stopped")]
          /\ Goto(r, "enqueue")
          /\ UNCHANGED loadFaults
       \/ /\ ~Other(TrackOf[r]) /\ ~Current(TrackOf[r]) /\ r \notin Scrobbles
          /\ LoadFault
          /\ playMap' = NoSession
          /\ Goto(r, "done")
          /\ UNCHANGED info
    /\ UNCHANGED <<expiring, expiries, scrobbled, prVars, npQueue>>

-------------------------------------------------------------------------------
(* The outgoing queues.                                                    *)

\* Append and signal in one critical section of prMu.
enqueuePlaybackReport(m) ==
    /\ prQueue' = Append(prQueue, m)
    /\ prSignal' = TRUE

\* Mutant: a stop tells nobody.
EnqueueReport_NotForStop(r) ==
    /\ handlerPc[r] = "enqueue"
    /\ IF StateOf[r] = "stopped" THEN UNCHANGED <<prQueue, prSignal>>
                                 ELSE enqueuePlaybackReport(info[r])
    /\ info' = [info EXCEPT ![r] = NoSession]
    /\ Goto(r, IF StateOf[r] \in {"starting", "playing"} THEN "nowplaying" ELSE "done")
    /\ UNCHANGED <<playMap, expiring, expiries, scrobbled, loadFaults, prPc, prBatch, delivered, npQueue>>

EnqueueReport(r) ==
    /\ handlerPc[r] = "enqueue"
    /\ enqueuePlaybackReport(info[r])
    /\ info' = [info EXCEPT ![r] = NoSession]
    /\ Goto(r, IF StateOf[r] \in {"starting", "playing"} THEN "nowplaying" ELSE "done")
    /\ UNCHANGED <<playMap, expiring, expiries, scrobbled, loadFaults, prPc, prBatch, delivered, npQueue>>

\* The now-playing update is about the session found now, whoever wrote it.
ReadNowPlaying(r) ==
    /\ handlerPc[r] = "nowplaying"
    /\ IF playMap # NoSession /\ playMap.live
         THEN /\ info' = [info EXCEPT ![r] = Message(playMap.track, StateOf[r])]
              /\ Goto(r, "npEnqueue")
         ELSE Goto(r, "done") /\ UNCHANGED info
    /\ UNCHANGED <<playMap, expiring, expiries, scrobbled, loadFaults, prVars, npQueue>>

\* One pending entry per player: the newest replaces the previous one.
enqueueNowPlaying(r) ==
    /\ handlerPc[r] = "npEnqueue"
    /\ npQueue' = info[r].track
    /\ info' = [info EXCEPT ![r] = NoSession]
    /\ Goto(r, "done")
    /\ UNCHANGED <<playMap, expiring, expiries, scrobbled, loadFaults, prVars>>

playbackReportWorker ==
    \/ /\ prPc = "select" /\ prSignal
       /\ prSignal' = FALSE
       /\ prPc' = "swap"
       /\ UNCHANGED <<prQueue, prBatch, delivered>>
    \/ /\ prPc = "swap"
       /\ prBatch' = prQueue
       /\ prQueue' = <<>>
       /\ prPc' = IF prQueue = <<>> THEN "select" ELSE "dispatch"
       /\ UNCHANGED <<prSignal, delivered>>
    \/ /\ prPc = "dispatch"
       /\ delivered' = Head(prBatch)
       /\ prBatch' = Tail(prBatch)
       /\ prPc' = IF Len(prBatch) = 1 THEN "select" ELSE "dispatch"
       /\ UNCHANGED <<prQueue, prSignal>>

\* This worker wakes up when signalled and every second, swaps its queue for
\* an empty one and sends what it held; nothing waits for it.
nowPlayingWorker == npQueue # NoSession /\ npQueue' = NoSession

PRWorker == playbackReportWorker /\ UNCHANGED <<playMap, expiring, expiries, requestVars, npQueue>>
NPWorker == nowPlayingWorker /\ UNCHANGED <<playMap, expiring, expiries, requestVars, prVars>>

-------------------------------------------------------------------------------
(* The TTL of a session.                                                   *)

TTLPasses ==
    /\ playMap # NoSession /\ playMap.live
    /\ expiries < MaxExpiries
    /\ expiries' = expiries + 1
    /\ playMap' = [playMap EXCEPT !.live = FALSE]
    /\ UNCHANGED <<expiring, requestVars, prVars, npQueue>>

\* The cache evicts the item and starts the OnExpiration callback, which runs
\* in a goroutine of its own.
Evict ==
    /\ playMap # NoSession /\ ~playMap.live
    /\ playMap' = NoSession
    /\ expiring' = [expiring EXCEPT ![playMap.track] = @ + 1]
    /\ UNCHANGED <<expiries, requestVars, prVars, npQueue>>

OnExpiration(t) ==
    /\ expiring[t] > 0
    /\ expiring' = [expiring EXCEPT ![t] = @ - 1]
    /\ enqueuePlaybackReport(Message(t, "expired"))
    /\ UNCHANGED <<playMap, expiries, requestVars, prPc, prBatch, delivered, npQueue>>

-------------------------------------------------------------------------------
Handler(r) ==
    \/ StartingCheck(r) \/ StartingWrite(r)
    \/ PlayingLoad(r) \/ PlayingWrite(r)
    \/ LoadFails(r)
    \/ StoppedScrobble(r) \/ StoppedRemove(r)
    \/ EnqueueReport(r) \/ ReadNowPlaying(r) \/ enqueueNowPlaying(r)

TrackerNext ==
    \/ \E r \in Reports : Handler(r)
    \/ \E t \in Tracks : OnExpiration(t)
    \/ PRWorker \/ NPWorker
    \/ TTLPasses \/ Evict

TrackerSpec == TrackerInit /\ [][TrackerNext]_trackerVars

\* Requests that started, the workers, the cache's clean-up and its callbacks
\* are scheduled.  Whether the client reports anything is its own affair.
TrackerFairness ==
    /\ \A r \in Reports : WF_trackerVars(handlerPc[r] # "new" /\ Handler(r))
    /\ \A t \in Tracks : WF_trackerVars(OnExpiration(t))
    /\ WF_trackerVars(PRWorker) /\ WF_trackerVars(NPWorker)
    /\ WF_trackerVars(TTLPasses) /\ WF_trackerVars(Evict)

FairTrackerSpec == TrackerSpec /\ TrackerFairness

-------------------------------------------------------------------------------
TrackerTypeOK ==
    /\ playMap \in Sessions \cup {NoSession}
    /\ expiring \in [Tracks -> Nat]
    /\ handlerPc \in [Reports -> {"new", "loaded", "enqueue", "nowplaying", "npEnqueue", "done"}]
    /\ info \in [Reports -> Messages \cup {NoSession}]
    /\ \A r \in Reports : handlerPc[r] \in {"enqueue", "npEnqueue"} <=> info[r] # NoSession
    /\ scrobbled \subseteq Scrobbles
    /\ prQueue \in Seq(Messages) /\ prBatch \in Seq(Messages)
    /\ npQueue \in Tracks \cup {NoSession}
    /\ prSignal \in BOOLEAN
    /\ prPc \in {"select", "swap", "dispatch"}
    /\ prPc = "dispatch" <=> prBatch # <<>>
    /\ delivered \in Messages \cup {NoSession}
    /\ loadFaults \in 0..MaxLoadFaults /\ expiries \in 0..MaxExpiries

\* "a late "starting" must not downgrade a playing session": however the loads
\* of concurrent reports interleave, no step turns a session that is playing a
\* track into one that is starting it.
LateStartNeverDowngrades ==
    [][\A t \in Tracks :
          hasPlayingSession(t) => ~(playMap' # NoSession /\ playMap' = Session(t, "starting"))]_trackerVars

\* "A late stop for a previous track must not end the current session": a live
\* session is removed only by the handler of a stop for its own track.
StopEndsOwnSessionOnly ==
    [][\A t \in Tracks :
          Current(t) /\ playMap' = NoSession
          => \E r \in Reports : TrackOf[r] = t /\ handlerPc[r] = "loaded" /\ StateOf[r] = "stopped"
                                /\ handlerPc'[r] # "loaded"]_trackerVars

\* A session changes only as the reports for it say, in whatever order their
\* loads end: a late start does not take a playing session back, and a session
\* ends by a stop of its own track only.
SessionsFollowReports == LateStartNeverDowngrades /\ StopEndsOwnSessionOnly

\* The report worker, which has no timer, never sleeps on a non-empty queue.
NoStrandedReport == prPc = "select" /\ prQueue # <<>> => prSignal

\* A session never just vanishes: the reporters are told that it stopped or
\* expired, or another track has taken its place.
SessionEndIsReported ==
    \A t \in Tracks :
        Current(t) ~> \/ delivered # NoSession /\ delivered.st \in {"stopped", "expired"}
                      \/ Other(t)

\* Every request that got past the session map has its report delivered.
ReportsAreDelivered ==
    \A r \in Reports :
        handlerPc[r] = "enqueue" ~> delivered = Message(TrackOf[r], StateOf[r])

\* Reporters hear of everything that becomes of a session.
PlaysAreReported == SessionEndIsReported /\ ReportsAreDelivered
================================================================================
