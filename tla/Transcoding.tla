----------------------------- MODULE Transcoding -----------------------------
(***************************************************************************)
(* Transcoded streams (core/stream/media_streamer.go, limiter.go) over the *)
(* file cache (utils/cache/file_caches.go, spread_fs.go, file_haunter.go). *)
(* The first request of a key fills the entry through ffmpeg in a          *)
(* goroutine of its own and the others read along; a slot of the limiter   *)
(* is held from Acquire until the reader of ffmpeg's output is closed.     *)
(*                                                                         *)
(* Every request asks once and is also the name of the file it fills.  The *)
(* fscache library is external: removing an entry forgets it at once, then *)
(* waits until the file's writer and readers have closed it and deletes    *)
(* what is at its path.                                                    *)
(***************************************************************************)
EXTENDS Naturals, FiniteSets

CONSTANTS
    Requests, Keys, Listening, Anonymous,
    MaxConcurrent, MaxConcurrentPerUser,   \* the limits; 0 disables one
    OnDisk,        \* file of an earlier process
    Nothing,
    MaxStops       \* bound: restarts of the process

ASSUME TranscodingAssumption ==
    /\ MaxConcurrent \in Nat /\ MaxConcurrentPerUser \in Nat /\ MaxStops \in Nat
    /\ OnDisk \notin Requests /\ Nothing \notin Requests \cup {OnDisk} /\ Anonymous \in Listening
    /\ Nothing \notin [file : Requests \cup {OnDisk}, whole : BOOLEAN]

VARIABLES
    ask,       \* [Requests -> [key, user]] what a request is for
    fill,      \* [Requests -> step] of Get and of the goroutine that copies
    reads,     \* [Requests -> file or Nothing] the reader a response holds
    cached,     \* [Keys -> file or Nothing] the cache's map
    final,     \* files whose writer is closed
    data,      \* [Keys -> [file, whole] or Nothing] the file at the key's path
    complete,  \* keys with a completion marker
    removing,  \* pending removals: set of [key, file]
    global, perUser,    \* slots in use
    crossed,   \* history: a removal took the entry or the file of another request
    stops

streamVars == <<ask, fill, reads, cached, final, data, complete, removing, global, perUser, crossed, stops>>
cacheVars == <<cached, final, data, complete, removing, crossed>>
slotVars  == <<global, perUser>>

TranscodingInit ==
    /\ ask \in [Requests -> [key : Keys, user : Listening]]
    /\ fill = [r \in Requests |-> "idle"] /\ reads = [r \in Requests |-> Nothing]
    /\ cached = [k \in Keys |-> Nothing] /\ data = cached
    /\ final = {} /\ complete = {} /\ removing = {} /\ crossed = FALSE
    /\ global = 0 /\ perUser = [u \in Listening |-> 0]
    /\ stops = 0

-------------------------------------------------------------------------------
(* The cache                                                               *)

\* A miss unlinks what is at the path and creates a file of its own.
createDataFile(r) ==
    LET k == ask[r].key
    IN  /\ cached' = [cached EXCEPT ![k] = r]
        /\ data' = [data EXCEPT ![k] = [file |-> r, whole |-> FALSE]]
        /\ reads' = [reads EXCEPT ![r] = r]
        /\ fill' = [fill EXCEPT ![r] = "missed"]

\* An entry with its file is shared, finished or not.  The retry after a lost
\* file comes when its removal is over.
Get(r) ==
    LET k == ask[r].key
        hit == cached[k] # Nothing /\ data[k] # Nothing
        lost == cached[k] # Nothing /\ data[k] = Nothing
    IN  /\ \/ fill[r] = "idle"
           \/ fill[r] = "retry" /\ \A p \in removing : p.key # k
        /\ \/ cached[k] = Nothing /\ createDataFile(r)
           \/ hit /\ reads' = [reads EXCEPT ![r] = cached[k]]
                  /\ fill' = [fill EXCEPT ![r] = "done"] /\ UNCHANGED <<cached, data>>
           \/ lost /\ fill' = [fill EXCEPT ![r] = IF fill[r] = "idle" THEN "lost" ELSE "done"]
                   /\ UNCHANGED <<reads, cached, data>>
        /\ UNCHANGED <<ask, crossed, final, complete, removing, slotVars, stops>>

\* invalidate: whatever the map holds for the key now is forgotten and its
\* removal begins.
Forgets(k, own) ==
    /\ crossed' = (crossed \/ (cached[k] # Nothing /\ ~own))
    /\ cached' = [cached EXCEPT ![k] = Nothing]
    /\ removing' = removing \cup {[key |-> k, file |-> f] : f \in {cached[k]} \ {Nothing}}

\* The entry outlived its data file.
InvalidateLost(r) ==
    /\ fill[r] = "lost"
    /\ Forgets(ask[r].key, data[ask[r].key] = Nothing)
    /\ fill' = [fill EXCEPT ![r] = "retry"]
    /\ UNCHANGED <<ask, reads, final, data, complete, slotVars, stops>>

\* spreadFS.Remove once nobody has the file open: the marker first, then the
\* path, whosever file is there by now.
Removed(p) ==
    /\ p \in removing
    /\ p.file \in final \cup {OnDisk} /\ \A r \in Requests : reads[r] # p.file
    /\ removing' = removing \ {p}
    /\ complete' = complete \ {p.key}
    /\ data' = [data EXCEPT ![p.key] = Nothing]
    /\ crossed' = (crossed \/ (data[p.key] # Nothing /\ data[p.key].file # p.file))
    /\ UNCHANGED <<ask, fill, reads, cached, final, slotVars, stops>>

\* The haunter reaps entries nobody uses, file and all, under the cache's lock.
Scrub(k) ==
    /\ cached[k] \in final \cup {OnDisk} /\ data[k] # Nothing
    /\ \A r \in Requests : reads[r] # cached[k]
    /\ cached' = [cached EXCEPT ![k] = Nothing]
    /\ complete' = complete \ {k}
    /\ data' = [data EXCEPT ![k] = Nothing]
    /\ UNCHANGED <<ask, crossed, fill, reads, final, removing, slotVars, stops>>

-------------------------------------------------------------------------------
(* The producer: one slot of the user, then one of all.                    *)

UserLimited(r) == MaxConcurrentPerUser > 0 /\ ask[r].user # Anonymous

\* Every way to fail closes both ends of the entry and invalidates it.
GivesUp(r) ==
    /\ fill' = [fill EXCEPT ![r] = "failed"]
    /\ final' = final \cup {r} /\ reads' = [reads EXCEPT ![r] = Nothing]
    /\ UNCHANGED <<ask, crossed, cached, data, complete, removing, stops>>

NoCommand(r) == fill[r] = "missed" /\ GivesUp(r) /\ UNCHANGED slotVars

AcquireUser(r) ==
    /\ fill[r] = "missed"
    /\ \/ ~UserLimited(r) /\ fill' = [fill EXCEPT ![r] = "reserved"]
          /\ UNCHANGED <<ask, reads, cacheVars, slotVars, stops>>
       \/ /\ UserLimited(r) /\ perUser[ask[r].user] < MaxConcurrentPerUser
          /\ perUser' = [perUser EXCEPT ![ask[r].user] = @ + 1]
          /\ fill' = [fill EXCEPT ![r] = "reserved"]
          /\ UNCHANGED <<ask, reads, cacheVars, global, stops>>
       \/ UserLimited(r) /\ perUser[ask[r].user] >= MaxConcurrentPerUser
          /\ GivesUp(r) /\ UNCHANGED slotVars

releasePerUser(r) ==
    perUser' = [perUser EXCEPT ![ask[r].user] = IF UserLimited(r) THEN @ - 1 ELSE @]

release(r) ==
    /\ global' = IF MaxConcurrent > 0 THEN global - 1 ELSE global
    /\ releasePerUser(r)

\* Mutant: the user's slot is kept when there is none of all.
AcquireGlobal_KeepsUser(r) ==
    /\ fill[r] = "reserved"
    /\ \/ MaxConcurrent > 0 /\ global >= MaxConcurrent /\ GivesUp(r) /\ UNCHANGED slotVars
       \/ /\ MaxConcurrent = 0 \/ global < MaxConcurrent
          /\ global' = IF MaxConcurrent > 0 THEN global + 1 ELSE global
          /\ fill' = [fill EXCEPT ![r] = "acquired"]
          /\ UNCHANGED <<ask, reads, cacheVars, perUser, stops>>

AcquireGlobal(r) ==
    /\ fill[r] = "reserved"
    /\ \/ /\ MaxConcurrent > 0 /\ global >= MaxConcurrent
          /\ GivesUp(r) /\ releasePerUser(r) /\ UNCHANGED global
       \/ /\ MaxConcurrent = 0 \/ global < MaxConcurrent
          /\ global' = IF MaxConcurrent > 0 THEN global + 1 ELSE global
          /\ fill' = [fill EXCEPT ![r] = "acquired"]
          /\ UNCHANGED <<ask, reads, cacheVars, perUser, stops>>

Transcode(r) ==
    /\ fill[r] = "acquired"
    /\ \/ fill' = [fill EXCEPT ![r] = "copying"] /\ UNCHANGED <<ask, reads, cacheVars, slotVars, stops>>
       \/ GivesUp(r) /\ release(r)

-------------------------------------------------------------------------------
(* copyAndClose and the end of a response                                  *)

\* io.Copy returns, at the end of ffmpeg's output or because ffmpeg failed or
\* was cancelled with the request; closing the reader frees the slot.
CopyEnds(r, ok) ==
    /\ fill[r] = "copying"
    /\ data' = [k \in Keys |-> IF data[k] # Nothing /\ data[k].file = r
                               THEN [data[k] EXCEPT !.whole = ok] ELSE data[k]]
    /\ fill' = [fill EXCEPT ![r] = IF ok THEN "copied" ELSE "unmarked"]
    /\ release(r)
    /\ UNCHANGED <<ask, crossed, reads, cached, final, complete, removing, stops>>

\* The marker is made by path, before the writer is closed.
markComplete(r) ==
    /\ fill[r] = "copied"
    /\ complete' = complete \cup {ask[r].key}
    /\ fill' = [fill EXCEPT ![r] = "marked"]
    /\ UNCHANGED <<ask, crossed, reads, cached, final, data, removing, slotVars, stops>>

CloseWriter(r) ==
    /\ fill[r] \in {"marked", "unmarked"}
    /\ final' = final \cup {r}
    /\ fill' = [fill EXCEPT ![r] = IF fill[r] = "marked" THEN "done" ELSE "failed"]
    /\ UNCHANGED <<ask, crossed, reads, cached, data, complete, removing, slotVars, stops>>

Invalidate(r) ==
    /\ fill[r] = "failed"
    /\ Forgets(ask[r].key, cached[ask[r].key] = r)
    /\ fill' = [fill EXCEPT ![r] = "done"]
    /\ UNCHANGED <<ask, reads, final, data, complete, slotVars, stops>>

\* The client has everything or has gone.
CloseReader(r) ==
    /\ reads[r] # Nothing /\ fill[r] \notin {"missed", "reserved", "acquired"}
    /\ reads' = [reads EXCEPT ![r] = Nothing]
    /\ UNCHANGED <<ask, fill, cacheVars, slotVars, stops>>

\* The process ends at any step; the next one adopts marked files only, and
\* clears markers without a file.
Reload ==
    /\ stops < MaxStops /\ stops' = stops + 1
    /\ fill' = [r \in Requests |-> IF fill[r] = "idle" THEN "idle" ELSE "done"]
    /\ reads' = [r \in Requests |-> Nothing]
    /\ data' = [k \in Keys |-> IF data[k] # Nothing /\ k \in complete
                               THEN [data[k] EXCEPT !.file = OnDisk] ELSE Nothing]
    /\ cached' = [k \in Keys |-> IF data[k] # Nothing /\ k \in complete THEN OnDisk ELSE Nothing]
    /\ complete' = {k \in complete : data[k] # Nothing}
    /\ final' = {} /\ removing' = {}
    /\ global' = 0 /\ perUser' = [u \in Listening |-> 0]
    /\ UNCHANGED <<ask, crossed>>

Producer(r) == NoCommand(r) \/ AcquireUser(r) \/ AcquireGlobal(r) \/ Transcode(r)
Copier(r) == (\E ok \in BOOLEAN : CopyEnds(r, ok)) \/ markComplete(r) \/ CloseWriter(r) \/ Invalidate(r)

TranscodingNext ==
    \/ \E r \in Requests : Get(r) \/ InvalidateLost(r) \/ Producer(r) \/ Copier(r) \/ CloseReader(r)
    \/ \E p \in removing : Removed(p)
    \/ \E k \in Keys : Scrub(k)
    \/ Reload

TranscodingSpec == TranscodingInit /\ [][TranscodingNext]_streamVars

-------------------------------------------------------------------------------
(* Properties *)

Holders == {r \in Requests : fill[r] \in {"acquired", "copying"}}
UserHolders(u) == {r \in Requests : /\ ask[r].user = u /\ UserLimited(r)
                                    /\ fill[r] \in {"reserved", "acquired", "copying"}}

\* Every slot in use belongs to a running transcode: refusals, ffmpeg that does
\* not start and cancelled copies give back what they took, at each of the two
\* levels.  A leak would refuse transcodes until the server is restarted.
SlotsAreHeld ==
    /\ global = IF MaxConcurrent > 0 THEN Cardinality(Holders) ELSE 0
    /\ \A u \in Listening : perUser[u] = Cardinality(UserHolders(u))

\* "Only files with a marker are adopted on the next Reload; this is what
\* distinguishes a complete cache entry from a partial one" (spread_fs.go:143):
\* what a new process finds in its cache was written to the end, wherever the
\* old one stopped.  (A removal that comes late enough to take the entry or
\* the file of the next request is the exception, see README.)
AdoptedIsWhole ==
    \A k \in Keys : cached[k] = OnDisk /\ data[k] # Nothing => data[k].whole \/ crossed

\* However a transcode ends, it gives back its slots and leaves no half of a
\* file that a later process would serve.
TranscodesEndCleanly == SlotsAreHeld /\ AdoptedIsWhole
===============================================================================
