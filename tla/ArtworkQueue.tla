------------------------------ MODULE ArtworkQueue ------------------------------
(***************************************************************************)
(* The artwork acquisition queue: core/artwork/worker.go, processor.go and *)
(* housekeeping.go over the tables artwork_queue and item_artwork.         *)
(*                                                                         *)
(* The scanner, the request handlers, the periodic jobs and the command    *)
(* line enqueue items; the worker's pools drain them.  DequeueBatch does   *)
(* not mark the rows it returns, so a row can be enqueued again while a    *)
(* job works on a snapshot of it.  The row's retry_at is the version that  *)
(* settling compares: a fresh Enqueue changes it, and the job then leaves  *)
(* the row alone.                                                          *)
(*                                                                         *)
(* What the sources (disk, providers, the library's tables) hold for an    *)
(* item is a version number; the versions in Images have an image.  Time   *)
(* is abstract: a row that backs off becomes due, and an absent state gets *)
(* old, at some later point.  A retry_at is a stamp that differs from the  *)
(* stamps anyone still remembers.                                          *)
(***************************************************************************)
EXTENDS Integers, FiniteSets

CONSTANTS
    Items,        \* the artworks queued and resolved: one per entity
    Tracks,       \* the items of kind media file: no periodic job rechecks them
    Pools, PoolOf, Concurrency,   \* drain pools, the pool of an item's kind, slots per pool
    LookupFails,  \* whether the state lookup before giving up may fail
    Images,       \* the source versions that hold an image
    Stamps,       \* values of retry_at
    None,         \* no row, no state, no job
    MaxVersion,   \* bound: changes of an item's sources
    MaxAttempts,  \* bound: failed attempts within giveUpAfter
    MaxFaults,    \* bound: failing resolutions and database writes
    MaxRefreshes, \* bound: explicit refreshes
    MaxCrashes    \* bound: restarts

ASSUME QueueAssumption ==
    /\ Tracks \subseteq Items
    /\ PoolOf \in [Items -> Pools]
    /\ Concurrency \in Nat \ {0}
    /\ MaxVersion \in Nat /\ MaxAttempts \in Nat
    /\ MaxFaults \in Nat /\ MaxRefreshes \in Nat /\ MaxCrashes \in Nat
    /\ LookupFails \in BOOLEAN
    /\ Images \subseteq 0..MaxVersion
    /\ \A a, b \in Stamps : \E c \in Stamps : c # a /\ c # b
    /\ Stamps # {}

\* A PoolOf for instances: every kind is drained by the same pool.
OnePool == [i \in Items |-> CHOOSE p \in Pools : TRUE]

VARIABLES
    exists,     \* the entities in the library
    src,        \* [Items -> version] what the sources hold now
    row,        \* [Items -> None or a row of artwork_queue]
    state,      \* [Items -> None or a row of item_artwork]
    job,        \* [Items -> None or the job working on a snapshot of the row]
    refreshing, \* items between Refresh's delete and its enqueue
    want,       \* history: sources' version at the item's last request
    imported,   \* history: sources' version at a track's last import
    tried,      \* history: version read by the item's last failed job
    gaveUp,     \* history: items whose retry budget ran out since the last request
    faults, refreshes, crashes

vars == <<exists, src, row, state, job, refreshing, want, imported, tried, gaveUp,
          faults, refreshes, crashes>>

RowType == [retryAt : Stamps, due : BOOLEAN, attempts : 0..MaxAttempts]

\* hash # "" is found; ver and clean are history: the version resolved and
\* whether every source answered.
StateType == [found : BOOLEAN, ver : 0..MaxVersion, clean : BOOLEAN]

JobType == [pc : {"waiting", "resolved", "settle", "remove"},
            retryAt : Stamps, attempts : 0..MaxAttempts,
            out : {"none", "found", "foundStale", "absent", "failed"},
            ver : 0..MaxVersion]

ASSUME NoneAssumption == None \notin RowType

\* The kinds a periodic job revisits.
RecheckItems == Items \ Tracks

\* time.Now() as a retry_at: equal to none of the stamps still held for i.
Remembered(i) == (IF row[i] = None THEN {} ELSE {row[i].retryAt})
                 \cup (IF job[i] = None THEN {} ELSE {job[i].retryAt})
FreshStamp(i) == CHOOSE s \in Stamps : s \notin Remembered(i)

NewRow(i) == [retryAt |-> FreshStamp(i), due |-> TRUE, attempts |-> 0]

Fault == faults < MaxFaults /\ faults' = faults + 1

Init ==
    /\ exists = Items
    /\ src = [i \in Items |-> 0]
    /\ row = [i \in Items |-> None]
    /\ state = [i \in Items |-> None]
    /\ job = [i \in Items |-> None]
    /\ refreshing = {}
    /\ want = [i \in Items |-> 0]
    /\ imported = [i \in Items |-> 0]
    /\ tried = [i \in Items |-> 0]
    /\ gaveUp = {}
    /\ faults = 0 /\ refreshes = 0 /\ crashes = 0

-------------------------------------------------------------------------------
(* Enqueuing.                                                              *)

\* Upsert: an existing row gets a new retry_at, no attempts and a new budget.
Enqueue(i) ==
    /\ row' = [row EXCEPT ![i] = NewRow(i)]
    /\ want' = [want EXCEPT ![i] = src'[i]]
    /\ gaveUp' = gaveUp \ {i}

\* ON CONFLICT DO NOTHING, or DO UPDATE of the priority alone: an existing
\* row keeps its retry_at and attempts.
insertIfNotQueued(i) ==
    IF row[i] = None THEN Enqueue(i) ELSE UNCHANGED <<row, want, gaveUp>>

\* What a scan does for an item it imports: an album, artist or playlist is
\* enqueued, a track's state row is dropped.  A failure is logged and the
\* import is committed all the same.
Imported(i, enqueue) ==
    /\ exists' = exists \cup {i}
    /\ imported' = IF i \in Tracks THEN [imported EXCEPT ![i] = src'[i]] ELSE imported
    /\ \/ /\ i \in Tracks
          /\ state' = [state EXCEPT ![i] = None]
          /\ UNCHANGED <<row, want, gaveUp, faults>>
       \/ /\ i \notin Tracks
          /\ enqueue
          /\ UNCHANGED <<state, faults>>
       \/ Fault /\ UNCHANGED <<row, state, want, gaveUp>>
    /\ UNCHANGED <<job, refreshing, tried, refreshes, crashes>>

\* Files change and a quick scan imports them: Enqueue.
ImportChanged(i) ==
    /\ src[i] < MaxVersion
    /\ src' = [src EXCEPT ![i] = @ + 1]
    /\ Imported(i, Enqueue(i))

\* A full scan re-imports every folder: EnqueueIfMissing.
ImportFull(i) ==
    /\ src' = src
    /\ Imported(i, IF state[i] = None THEN insertIfNotQueued(i)
                                      ELSE UNCHANGED <<row, want, gaveUp>>)

\* A provider's answer or a file changes and nobody is told.
SourceChanges(i) ==
    /\ src[i] < MaxVersion
    /\ src' = [src EXCEPT ![i] = @ + 1]
    /\ UNCHANGED <<exists, row, state, job, refreshing, imported, want, tried, gaveUp,
                   faults, refreshes, crashes>>

\* Refresh: drop the state, then enqueue; each may fail.
RefreshDelete(i) ==
    /\ i \in exists \ refreshing
    /\ refreshes < MaxRefreshes
    /\ refreshes' = refreshes + 1
    /\ state' = [state EXCEPT ![i] = None]
    /\ refreshing' = refreshing \cup {i}
    /\ UNCHANGED <<imported, exists, src, row, job, want, tried, gaveUp, faults, crashes>>

RefreshEnqueue(i) ==
    /\ i \in refreshing
    /\ refreshing' = refreshing \ {i}
    /\ src' = src
    /\ \/ Enqueue(i) /\ UNCHANGED faults
       \/ Fault /\ UNCHANGED <<row, want, gaveUp>>
    /\ UNCHANGED <<imported, exists, state, job, tried, refreshes, crashes>>

\* A request for the image of an entity: unresolved, absent for an hour, or
\* found with bytes that can no longer be served (EnqueuePreservingBackoff).
\* A track imported without embedded art falls back to its disc without enqueuing.
Serve(i) ==
    /\ i \in exists
    /\ \/ state[i] = None /\ (i \in Tracks => imported[i] \in Images)
       \/ state[i] # None /\ ~state[i].found /\ i \notin Tracks
       \/ state[i] # None /\ state[i].found /\ state[i].ver # src[i]
    /\ src' = src
    /\ insertIfNotQueued(i)
    /\ UNCHANGED <<exists, state, job, refreshing, imported, tried, faults, refreshes, crashes>>

\* The hourly job: known-absent states past StaleAbsentAge.
EnqueueStaleAbsent(i) ==
    /\ i \in RecheckItems
    /\ state[i] # None /\ ~state[i].found
    /\ row[i] = None
    /\ src' = src
    /\ Enqueue(i)
    /\ UNCHANGED <<exists, state, job, refreshing, imported, tried, faults, refreshes, crashes>>

\* The hourly job, the start of the server and the end of a scan: entities
\* without any state row.
EnqueueAllMissing(i) ==
    /\ i \in RecheckItems \cap exists
    /\ state[i] = None /\ row[i] = None
    /\ src' = src
    /\ Enqueue(i)
    /\ UNCHANGED <<exists, state, job, refreshing, imported, tried, faults, refreshes, crashes>>

\* artwork reprocess, by the source an item currently resolves from.
EnqueueBySource(i) ==
    /\ state[i] # None
    /\ row[i] = None
    /\ src' = src
    /\ Enqueue(i)
    /\ UNCHANGED <<exists, state, job, refreshing, imported, tried, faults, refreshes, crashes>>

\* The configuration fingerprint changed: every entity but the tracks.
backfill ==
    /\ refreshes < MaxRefreshes
    /\ refreshes' = refreshes + 1
    /\ LET queued == exists \cap RecheckItems
       IN  /\ row' = [i \in Items |-> IF i \in queued THEN NewRow(i) ELSE row[i]]
           /\ want' = [i \in Items |-> IF i \in queued THEN src[i] ELSE want[i]]
           /\ gaveUp' = gaveUp \ queued
    /\ UNCHANGED <<exists, src, state, job, refreshing, imported, tried, faults, crashes>>

-------------------------------------------------------------------------------
(* Removal.                                                                *)

DeleteEntity(i) ==
    /\ i \in exists
    /\ exists' = exists \ {i}
    /\ UNCHANGED <<src, row, state, job, refreshing, imported, want, tried, gaveUp,
                   faults, refreshes, crashes>>

\* Prune: state rows, then queue rows, of entities that are gone.  A request
\* goes with its row.
PurgeDanglingItems(i) ==
    /\ i \notin exists /\ state[i] # None
    /\ state' = [state EXCEPT ![i] = None]
    /\ UNCHANGED <<exists, src, row, job, refreshing, imported, want, tried, gaveUp,
                   faults, refreshes, crashes>>

PurgeDangling(i) ==
    /\ i \notin exists /\ row[i] # None
    /\ row' = [row EXCEPT ![i] = None]
    /\ want' = [want EXCEPT ![i] = 0]
    /\ UNCHANGED <<exists, src, state, job, refreshing, imported, tried, gaveUp,
                   faults, refreshes, crashes>>

-------------------------------------------------------------------------------
(* The worker.                                                             *)

Idle(p) == \A i \in Items : PoolOf[i] = p => job[i] = None
Busy(p) == {i \in Items : PoolOf[i] = p /\ job[i] # None /\ job[i].pc \notin {"waiting"}}

\* drain: snapshot the due rows of the pool's kinds.  The batch holds at least
\* sixteen rows, more than the instances have items, so its order and limit
\* leave nothing out.
DequeueBatch(p) ==
    /\ Idle(p)
    /\ LET due == {i \in Items : PoolOf[i] = p /\ row[i] # None /\ row[i].due}
       IN  /\ due # {}
           /\ job' = [i \in Items |->
                        IF i \in due
                          THEN [pc |-> "waiting", retryAt |-> row[i].retryAt,
                                attempts |-> row[i].attempts, out |-> "none", ver |-> 0]
                          ELSE job[i]]
    /\ UNCHANGED <<exists, src, row, state, refreshing, imported, want, tried, gaveUp,
                   faults, refreshes, crashes>>

\* What the sources of an entity, asked in order, may answer: an image if one of
\* them has it, absence only if all were asked and none has.
SourcesAnswer(i, out) ==
    /\ out \in {"found", "foundStale"} => i \in exists /\ src[i] \in Images
    /\ out = "absent" => i \in exists /\ src[i] \notin Images

\* A source that failed on the way: a later one is taken for now, or nothing.
FromFault(i, out) == out = "foundStale" \/ (out = "failed" /\ i \in exists)

\* A slot is free; acquire's resolver reads the sources.  A missing entity and
\* a faulty source fail; a fault above a lower-priority hit is found-stale.
resolve(i) ==
    /\ job[i] # None /\ job[i].pc = "waiting"
    /\ Cardinality(Busy(PoolOf[i])) < Concurrency
    /\ \E out \in {"found", "foundStale", "absent", "failed"} :
          /\ SourcesAnswer(i, out)
          /\ IF FromFault(i, out) THEN Fault ELSE UNCHANGED faults
          /\ job' = [job EXCEPT ![i].pc = "resolved", ![i].out = out, ![i].ver = src[i]]
    /\ UNCHANGED <<exists, src, row, state, refreshing, imported, want, tried, gaveUp,
                   refreshes, crashes>>

\* persist or writeAbsent; a failing write makes the outcome failed.
persist(i) ==
    /\ job[i] # None /\ job[i].pc = "resolved"
    /\ \/ /\ job[i].out # "failed"
          /\ state' = [state EXCEPT ![i] = [found |-> job[i].out # "absent",
                                            ver |-> job[i].ver,
                                            clean |-> job[i].out # "foundStale"]]
          /\ job' = [job EXCEPT ![i].pc = "settle"]
          /\ UNCHANGED faults
       \/ /\ job[i].out # "failed"
          /\ Fault
          /\ job' = [job EXCEPT ![i].pc = "settle", ![i].out = "failed"]
          /\ UNCHANGED state
       \/ /\ job[i].out = "failed"
          /\ job' = [job EXCEPT ![i].pc = "settle"]
          /\ UNCHANGED <<state, faults>>
    /\ UNCHANGED <<exists, src, row, refreshing, imported, want, tried, gaveUp, refreshes, crashes>>

\* The WHERE retry_at = ? of the settling statements.
Unchanged(i) == row[i] # None /\ row[i].retryAt = job[i].retryAt

\* Mutant: the delete does not compare retry_at.
DeleteIfUnchanged_NoCompare(i) == row' = [row EXCEPT ![i] = None]

DeleteIfUnchanged(i) ==
    IF Unchanged(i) THEN row' = [row EXCEPT ![i] = None] ELSE row' = row

\* Mutant: rescheduling starts a new retry budget.
MarkFailedIfUnchanged_NewBudget(i) ==
    IF Unchanged(i)
      THEN row' = [row EXCEPT ![i] = [retryAt |-> FreshStamp(i), due |-> FALSE, attempts |-> 0]]
      ELSE row' = row

MarkFailedIfUnchanged(i) ==
    IF Unchanged(i)
      THEN row' = [row EXCEPT ![i] = [retryAt |-> FreshStamp(i), due |-> FALSE,
                                      attempts |-> row[i].attempts + 1]]
      ELSE row' = row

\* process for found and absent: the row goes, unless the delete fails.
SettleDone(i) ==
    /\ job[i] # None
    /\ \/ job[i].pc = "settle" /\ job[i].out \in {"found", "absent"}
       \/ job[i].pc = "remove"
    /\ \/ DeleteIfUnchanged(i) /\ UNCHANGED faults
       \/ Fault /\ UNCHANGED row
    /\ job' = [job EXCEPT ![i] = None]
    /\ UNCHANGED <<exists, src, state, refreshing, imported, want, tried, gaveUp, refreshes, crashes>>

\* process for found-stale and failed, within the retry budget.
SettleRetry(i) ==
    /\ job[i] # None /\ job[i].pc = "settle"
    /\ job[i].out \in {"foundStale", "failed"}
    /\ job[i].attempts < MaxAttempts
    /\ \/ /\ MarkFailedIfUnchanged(i)
          /\ tried' = IF Unchanged(i) THEN [tried EXCEPT ![i] = job[i].ver] ELSE tried
          /\ UNCHANGED faults
       \/ Fault /\ UNCHANGED <<row, tried>>
    /\ job' = [job EXCEPT ![i] = None]
    /\ UNCHANGED <<exists, src, state, refreshing, imported, want, gaveUp, refreshes, crashes>>

\* Mutant: every kind is taken to be rechecked.
hasRecheckPath_Every(i) == TRUE

hasRecheckPath(i) == i \in RecheckItems

\* Mutant: giving up does not look at the present state.
hasResolvedArtwork_Ignored(i, readable) == FALSE

\* The lookup answers FALSE when the database read fails.
hasResolvedArtwork(i, readable) == readable /\ state[i] # None /\ state[i].found

\* Absent, recorded after a fault and not because every source said no.
AbsentAfterFault(i) == [found |-> FALSE, ver |-> job[i].ver, clean |-> FALSE]

\* The budget is spent: the row is older than giveUpAfter.  That can happen
\* after any number of attempts, since the server may have been down.  A
\* failing writeAbsent is ignored.
GiveUp(i) ==
    /\ job[i] # None /\ job[i].pc = "settle"
    /\ job[i].out \in {"foundStale", "failed"}
    /\ \E readable \in {TRUE} \cup {~LookupFails} :
          IF job[i].out = "failed" /\ hasRecheckPath(i) /\ ~hasResolvedArtwork(i, readable)
            THEN \/ state' = [state EXCEPT ![i] = AbsentAfterFault(i)] /\ UNCHANGED faults
                 \/ Fault /\ UNCHANGED state
            ELSE UNCHANGED <<state, faults>>
    /\ gaveUp' = IF Unchanged(i) THEN gaveUp \cup {i} ELSE gaveUp
    /\ job' = [job EXCEPT ![i].pc = "remove"]
    /\ UNCHANGED <<exists, src, row, refreshing, imported, want, tried, refreshes, crashes>>

\* The backoff of a rescheduled row ends.
BackoffEnds(i) ==
    /\ row[i] # None /\ ~row[i].due
    /\ row' = [row EXCEPT ![i].due = TRUE]
    /\ UNCHANGED <<exists, src, state, job, refreshing, imported, want, tried, gaveUp,
                   faults, refreshes, crashes>>

\* The process dies: the tables stay, jobs and pending refreshes do not.
Crash ==
    /\ crashes < MaxCrashes
    /\ crashes' = crashes + 1
    /\ job' = [i \in Items |-> None]
    /\ refreshing' = {}
    /\ UNCHANGED <<imported, exists, src, row, state, want, tried, gaveUp, faults, refreshes>>

-------------------------------------------------------------------------------
Job(i) == resolve(i) \/ persist(i) \/ SettleDone(i) \/ SettleRetry(i) \/ GiveUp(i)

Recheck(i) == EnqueueStaleAbsent(i) \/ EnqueueAllMissing(i)

Requests(i) ==
    \/ ImportChanged(i) \/ ImportFull(i) \/ SourceChanges(i)
    \/ RefreshDelete(i) \/ RefreshEnqueue(i) \/ Serve(i) \/ EnqueueBySource(i)
    \/ DeleteEntity(i) \/ PurgeDanglingItems(i) \/ PurgeDangling(i)

Next ==
    \/ \E i \in Items : Requests(i) \/ Recheck(i) \/ Job(i) \/ BackoffEnds(i)
    \/ \E p \in Pools : DequeueBatch(p)
    \/ backfill
    \/ Crash

Spec == Init /\ [][Next]_vars

\* The pools poll, their jobs run, backoffs end, the hourly recheck runs and a
\* refresh that deleted the state goes on to enqueue.
Fairness ==
    /\ \A i \in Items : /\ WF_vars(Job(i)) /\ WF_vars(BackoffEnds(i))
                        /\ WF_vars(Recheck(i)) /\ WF_vars(RefreshEnqueue(i))
    /\ \A p \in Pools : WF_vars(DequeueBatch(p))

FairSpec == Spec /\ Fairness

-------------------------------------------------------------------------------
TypeOK ==
    /\ exists \subseteq Items
    /\ src \in [Items -> 0..MaxVersion]
    /\ row \in [Items -> RowType \cup {None}]
    /\ state \in [Items -> StateType \cup {None}]
    /\ job \in [Items -> JobType \cup {None}]
    /\ refreshing \subseteq Items
    /\ want \in [Items -> 0..MaxVersion]
    /\ imported \in [Items -> 0..MaxVersion]
    /\ tried \in [Items -> 0..MaxVersion]
    /\ gaveUp \subseteq Items
    /\ faults \in 0..MaxFaults
    /\ refreshes \in 0..MaxRefreshes
    /\ crashes \in 0..MaxCrashes

\* No request is lost to a job already in flight: when an item is not queued
\* its state, if it has one, comes from a resolution that read the sources no
\* earlier than the last request, unless the retry budget ran out since.
RequestNeverLost ==
    \A i \in Items :
        row[i] = None /\ state[i] # None /\ i \notin gaveUp => state[i].ver >= want[i]

\* A row backs off only because of a failure that read the sources no earlier
\* than the last request: a stale job's backoff never delays a fresh request.
BackoffNeverStompsRequest ==
    \A i \in Items : row[i] # None /\ ~row[i].due => tried[i] >= want[i]

\* A request for artwork is honoured although a job for the same item is in
\* flight: its row is not dropped before something newer was resolved, nor
\* delayed by a failure of before the request.
RequestsAreHonoured == RequestNeverLost /\ BackoffNeverStompsRequest

\* An absence recorded after faults is kept only for kinds that a periodic job
\* revisits; a track is recorded absent only when its sources said so.
AbsentIsRecoverable ==
    \A i \in Items :
        state[i] # None /\ ~state[i].found /\ ~state[i].clean => i \in RecheckItems

\* Art that is being served for an entity of the library is replaced by
\* "absent" only by a resolution that read sources without an image, never
\* because sources could not be reached.
FaultsNeverEraseArt ==
    [][\A i \in exists' :
          /\ state[i] # None /\ state[i].found
          /\ state'[i] # None /\ ~state'[i].found
          => state'[i].clean /\ state'[i].ver \notin Images]_vars

\* Every queued row leaves the queue: resolved, given up or purged.
QueueDrains == \A i \in Items : row[i] # None ~> row[i] = None

\* An entity of a rechecked kind whose sources hold an image ends up with it,
\* whatever failures recorded it absent or left it without a state.
ArtIsEventuallyFound ==
    \A i \in RecheckItems :
        i \in exists /\ src[i] \in Images /\ (state[i] = None \/ ~state[i].found)
        ~> \/ state[i] # None /\ state[i].found
           \/ i \notin exists \/ src[i] \notin Images

\* What the worker, the rechecks and the refresh owe together: the queue empties
\* and art that a source holds is found (core/artwork/worker.go,
\* core/artwork/housekeeping.go).
ArtworkSettles == QueueDrains /\ ArtIsEventuallyFound
================================================================================
