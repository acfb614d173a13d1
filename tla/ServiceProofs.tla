------------------------------ MODULE ServiceProofs ------------------------------
(***************************************************************************)
(* Proofs about the services that run beside the requests (the artwork     *)
(* queue, the breaker of an image agent, the cache of shared loads, the    *)
(* throttle of artwork requests, the event broker) and about what is       *)
(* decided for a request: mixes of recommended songs and smart playlists.  *)
(* They hold for any number of items, callers, clients and songs, any      *)
(* bounds and any rules.                                                   *)
(*                                                                         *)
(* ArtworkQueue: RequestNeverLost and BackoffNeverStompsRequest are not    *)
(* inductive: that a job may settle its row depends on what the comparison *)
(* of retry_at tells it.  JobInv says what: while the row still carries    *)
(* the stamp the job saw, nobody has asked again since, so the job's       *)
(* attempts are the row's and the version it read is no older than the     *)
(* last request.                                                           *)
(***************************************************************************)
EXTENDS ArtworkQueue, ExternalGate, RequestThrottle, SimpleCache, EventBroker,
        SongMatcher, SmartPlaylists, FiniteSetTheorems, WellFoundedInduction, TLAPS

-------------------------------------------------------------------------------
(* ArtworkQueue                                                                *)

JobInv(i) ==
    job[i] # None =>
        /\ row[i] = None => want[i] = 0
        /\ Unchanged(i) =>
              /\ job[i].attempts = row[i].attempts
              /\ job[i].pc # "waiting" => job[i].ver >= want[i]
              /\ job[i].pc = "remove" => i \in gaveUp
        /\ job[i].pc = "settle" /\ job[i].out \in {"found", "absent"} /\ state[i] # None
              => state[i].ver = job[i].ver
        /\ job[i].pc = "resolved" /\ job[i].out = "absent" => job[i].ver \notin Images

\* What the properties say of one item.
Answered(i) == row[i] = None /\ state[i] # None /\ i \notin gaveUp => state[i].ver >= want[i]
BacksOff(i) == row[i] # None /\ ~row[i].due => tried[i] >= want[i]

ItemInv(i) ==
    /\ want[i] <= src[i]
    /\ JobInv(i)
    /\ Answered(i)
    /\ BacksOff(i)

IInv == TypeOK /\ \A i \in Items : ItemInv(i)

-------------------------------------------------------------------------------
\* A new retry_at differs from every stamp that is still held for the item.
LEMMA Fresh ==
    ASSUME TypeOK, NEW i \in Items
    PROVE  FreshStamp(i) \in Stamps /\ FreshStamp(i) \notin Remembered(i)
<1> USE QueueAssumption
<1>1. \E s \in Stamps : s \notin Remembered(i)
  <2>1. row[i] # None => row[i].retryAt \in Stamps
    BY DEF TypeOK, RowType
  <2>2. job[i] # None => job[i].retryAt \in Stamps
    BY DEF TypeOK, JobType
  <2>3. PICK a \in Stamps : TRUE
    OBVIOUS
  <2>4. \E x, y \in Stamps : Remembered(i) \subseteq {x, y}
    <3>1. CASE row[i] = None
      BY <3>1, <2>2, <2>3 DEF Remembered
    <3>2. CASE row[i] # None
      BY <3>2, <2>1, <2>2, <2>3 DEF Remembered
    <3> QED
      BY <3>1, <3>2
  <2> QED
    BY <2>4
<1> QED
  BY <1>1 DEF FreshStamp

\* The bounds are naturals.
LEMMA Bounds ==
    /\ MaxVersion \in Nat /\ MaxAttempts \in Nat /\ MaxFaults \in Nat
    /\ MaxRefreshes \in Nat /\ MaxCrashes \in Nat
BY QueueAssumption

\* A new row is due, is a row, and differs in its stamp from the item's job.
LEMMA NewRowFacts ==
    ASSUME TypeOK, NEW i \in Items
    PROVE  /\ NewRow(i) \in RowType
           /\ NewRow(i) # None
           /\ NewRow(i).due
           /\ job[i] # None => NewRow(i).retryAt # job[i].retryAt
<1>1. NewRow(i) \in RowType
  <2>1. 0 \in 0..MaxAttempts
    BY QueueAssumption
  <2> QED
    BY Fresh, <2>1 DEF NewRow, RowType
<1> QED
  BY <1>1, Fresh, NoneAssumption DEF NewRow, Remembered

\* The invariant holds at the start.
LEMMA InitInv == Init => IInv
<1> SUFFICES ASSUME Init PROVE IInv
  OBVIOUS
<1>1. TypeOK
  BY QueueAssumption DEF Init, TypeOK
<1>2. \A i \in Items : ItemInv(i)
  BY DEF Init, ItemInv, JobInv, Answered, BacksOff
<1> QED
  BY <1>1, <1>2 DEF IInv

-------------------------------------------------------------------------------
(* Type correctness.                                                       *)

\* Every step keeps the type invariant.
LEMMA TypeStep == IInv /\ [Next]_vars => TypeOK'
<1> SUFFICES ASSUME IInv, [Next]_vars PROVE TypeOK'
  OBVIOUS
<1> USE Bounds
<1>0. TypeOK
  BY DEF IInv
<1>a. ASSUME NEW i \in Items, Enqueue(i), src' \in [Items -> 0..MaxVersion]
      PROVE  /\ row' \in [Items -> RowType \cup {None}]
             /\ want' \in [Items -> 0..MaxVersion]
             /\ gaveUp' \subseteq Items
  BY <1>0, <1>a, NewRowFacts DEF Enqueue, TypeOK
<1>b. ASSUME NEW i \in Items, insertIfNotQueued(i), src' \in [Items -> 0..MaxVersion]
      PROVE  /\ row' \in [Items -> RowType \cup {None}]
             /\ want' \in [Items -> 0..MaxVersion]
             /\ gaveUp' \subseteq Items
  BY <1>0, <1>a, <1>b DEF insertIfNotQueued, TypeOK
<1>1. ASSUME NEW i \in Items, ImportChanged(i) PROVE TypeOK'
  <2>1. src' \in [Items -> 0..MaxVersion]
    BY <1>0, <1>1 DEF ImportChanged, TypeOK
  <2> QED
    BY <1>0, <1>1, <1>a, <2>1 DEF ImportChanged, Imported, Fault, TypeOK
<1>2. ASSUME NEW i \in Items, ImportFull(i) PROVE TypeOK'
  BY <1>0, <1>2, <1>b DEF ImportFull, Imported, Fault, TypeOK
<1>3. ASSUME NEW i \in Items, SourceChanges(i) PROVE TypeOK'
  BY <1>0, <1>3 DEF SourceChanges, TypeOK
<1>4. ASSUME NEW i \in Items, RefreshDelete(i) PROVE TypeOK'
  BY <1>0, <1>4 DEF RefreshDelete, TypeOK
<1>5. ASSUME NEW i \in Items, RefreshEnqueue(i) PROVE TypeOK'
  BY <1>0, <1>5, <1>a DEF RefreshEnqueue, Fault, TypeOK
<1>6. ASSUME NEW i \in Items, Serve(i) PROVE TypeOK'
  BY <1>0, <1>6, <1>b DEF Serve, TypeOK
<1>7. ASSUME NEW i \in Items, EnqueueBySource(i) PROVE TypeOK'
  BY <1>0, <1>7, <1>a DEF EnqueueBySource, TypeOK
<1>8. ASSUME NEW i \in Items, DeleteEntity(i) PROVE TypeOK'
  BY <1>0, <1>8 DEF DeleteEntity, TypeOK
<1>9. ASSUME NEW i \in Items, PurgeDanglingItems(i) PROVE TypeOK'
  BY <1>0, <1>9 DEF PurgeDanglingItems, TypeOK
<1>10. ASSUME NEW i \in Items, PurgeDangling(i) PROVE TypeOK'
  BY <1>0, <1>10 DEF PurgeDangling, TypeOK
<1>11. ASSUME NEW i \in Items, EnqueueStaleAbsent(i) PROVE TypeOK'
  BY <1>0, <1>11, <1>a DEF EnqueueStaleAbsent, TypeOK
<1>12. ASSUME NEW i \in Items, EnqueueAllMissing(i) PROVE TypeOK'
  BY <1>0, <1>12, <1>a DEF EnqueueAllMissing, TypeOK
<1>13. ASSUME NEW i \in Items, resolve(i) PROVE TypeOK'
  <2>1. job' \in [Items -> JobType \cup {None}]
    <3>1. PICK out \in {"found", "foundStale", "absent", "failed"} :
             job' = [job EXCEPT ![i].pc = "resolved", ![i].out = out, ![i].ver = src[i]]
      BY <1>13 DEF resolve, SourcesAnswer, FromFault
    <3>2. job[i] \in JobType /\ src[i] \in 0..MaxVersion
      BY <1>0, <1>13 DEF resolve, SourcesAnswer, FromFault, TypeOK
    <3>3. [job[i] EXCEPT !.pc = "resolved", !.out = out, !.ver = src[i]] \in JobType
      BY <3>2 DEF JobType
    <3> QED
      BY <1>0, <3>1, <3>3 DEF TypeOK
  <2> QED
    BY <1>0, <1>13, <2>1 DEF resolve, SourcesAnswer, FromFault, Fault, TypeOK
<1>14. ASSUME NEW i \in Items, persist(i) PROVE TypeOK'
  <2>1. job' \in [Items -> JobType \cup {None}]
    BY <1>0, <1>14 DEF persist, TypeOK, JobType
  <2>2. /\ (job[i].out # "absent") \in BOOLEAN
        /\ (job[i].out # "foundStale") \in BOOLEAN
    OBVIOUS
  <2>3. job[i].ver \in 0..MaxVersion
    BY <1>0, <1>14 DEF persist, TypeOK, JobType
  <2>4. state' \in [Items -> StateType \cup {None}]
    <3>1. [found |-> job[i].out # "absent", ver |-> job[i].ver,
           clean |-> job[i].out # "foundStale"] \in StateType
      BY <2>2, <2>3 DEF StateType
    <3> QED
      BY <1>0, <1>14, <3>1 DEF persist, TypeOK
  <2> QED
    BY <1>0, <1>14, <2>1, <2>4 DEF persist, Fault, TypeOK
<1>15. ASSUME NEW i \in Items, SettleDone(i) PROVE TypeOK'
  BY <1>0, <1>15 DEF SettleDone, DeleteIfUnchanged, Fault, TypeOK
<1>16. ASSUME NEW i \in Items, SettleRetry(i) PROVE TypeOK'
  <2>1. ASSUME Unchanged(i) PROVE row[i].attempts + 1 \in 0..MaxAttempts
    <3>1. row[i].attempts = job[i].attempts
      BY <1>16, <2>1 DEF IInv, ItemInv, JobInv, SettleRetry
    <3>2. row[i].attempts \in 0..MaxAttempts
      BY <1>0, <2>1 DEF Unchanged, TypeOK, RowType
    <3> QED
      BY <1>16, <3>1, <3>2 DEF SettleRetry
  <2>2. row' \in [Items -> RowType \cup {None}]
    <3>1. CASE row' = row
      BY <1>0, <3>1 DEF TypeOK
    <3>2. CASE Unchanged(i) /\ MarkFailedIfUnchanged(i)
      <4>1. [retryAt |-> FreshStamp(i), due |-> FALSE, attempts |-> row[i].attempts + 1]
               \in RowType
        BY <1>0, <2>1, <3>2, Fresh DEF RowType
      <4> QED
        BY <1>0, <3>2, <4>1 DEF MarkFailedIfUnchanged, TypeOK
    <3> QED
      BY <1>16, <3>1, <3>2 DEF SettleRetry, MarkFailedIfUnchanged
  <2>3. tried' \in [Items -> 0..MaxVersion]
    BY <1>0, <1>16 DEF SettleRetry, TypeOK, JobType
  <2>4. job' \in [Items -> JobType \cup {None}] /\ faults' \in 0..MaxFaults
    BY <1>0, <1>16 DEF SettleRetry, Fault, TypeOK
  <2> QED
    BY <1>0, <1>16, <2>2, <2>3, <2>4 DEF SettleRetry, TypeOK
<1>17. ASSUME NEW i \in Items, GiveUp(i) PROVE TypeOK'
  <2>1. job' \in [Items -> JobType \cup {None}]
    BY <1>0, <1>17 DEF GiveUp, TypeOK, JobType
  <2>2. AbsentAfterFault(i) \in StateType
    BY <1>0, <1>17 DEF GiveUp, AbsentAfterFault, StateType, TypeOK, JobType
  <2>3. state' \in [Items -> StateType \cup {None}] /\ faults' \in 0..MaxFaults
    BY <1>0, <1>17, <2>2 DEF GiveUp, Fault, TypeOK
  <2> QED
    BY <1>0, <1>17, <2>1, <2>3 DEF GiveUp, TypeOK
<1>18. ASSUME NEW i \in Items, BackoffEnds(i) PROVE TypeOK'
  <2>1. row' \in [Items -> RowType \cup {None}]
    BY <1>0, <1>18 DEF BackoffEnds, TypeOK, RowType
  <2> QED
    BY <1>0, <1>18, <2>1 DEF BackoffEnds, TypeOK
<1>19. ASSUME NEW p \in Pools, DequeueBatch(p) PROVE TypeOK'
  <2>1. ASSUME NEW i \in Items, row[i] # None
        PROVE  [pc |-> "waiting", retryAt |-> row[i].retryAt,
                attempts |-> row[i].attempts, out |-> "none", ver |-> 0] \in JobType
    BY <1>0, <2>1 DEF TypeOK, RowType, JobType
  <2>2. job' \in [Items -> JobType \cup {None}]
    BY <1>0, <1>19, <2>1 DEF DequeueBatch, TypeOK
  <2> QED
    BY <1>0, <1>19, <2>2 DEF DequeueBatch, TypeOK
<1>20. CASE backfill
  BY <1>0, <1>20, NewRowFacts DEF backfill, TypeOK
<1>21. CASE Crash
  BY <1>0, <1>21 DEF Crash, TypeOK
<1>22. CASE UNCHANGED vars
  BY <1>0, <1>22 DEF TypeOK, vars
<1> QED
  BY <1>1, <1>2, <1>3, <1>4, <1>5, <1>6, <1>7, <1>8, <1>9, <1>10, <1>11, <1>12, <1>13,
     <1>14, <1>15, <1>16, <1>17, <1>18, <1>19, <1>20, <1>21, <1>22
  DEF Next, Requests, Recheck, Job

-------------------------------------------------------------------------------
(* What the comparison of retry_at guarantees.                             *)

\* An item that an action leaves alone keeps its invariant.
LEMMA Untouched ==
    ASSUME TypeOK, NEW i \in Items, ItemInv(i),
           row'[i] = row[i], job'[i] = job[i], state'[i] = state[i],
           want'[i] = want[i], tried'[i] = tried[i], (i \in gaveUp') = (i \in gaveUp),
           src'[i] >= src[i], src'[i] \in Int
    PROVE  ItemInv(i)'
<1>1. want[i] \in Int /\ src[i] \in Int
  BY DEF TypeOK
<1>2. want'[i] <= src'[i]
  BY <1>1 DEF ItemInv
<1> QED
  BY <1>2 DEF ItemInv, JobInv, Unchanged, Answered, BacksOff

\* A fresh request: the item's job, if any, no longer matches the row.
LEMMA Enqueued ==
    ASSUME TypeOK, NEW i \in Items, NEW n \in Items, ItemInv(n), Enqueue(i),
           job' = job, state' = state \/ state' = [state EXCEPT ![i] = None],
           tried' = tried, src'[n] >= src[n], src' \in [Items -> 0..MaxVersion]
    PROVE  ItemInv(n)'
<1>1. CASE n # i
  <2>1. /\ row'[n] = row[n] /\ want'[n] = want[n] /\ state'[n] = state[n]
        /\ (n \in gaveUp') = (n \in gaveUp)
    BY <1>1 DEF Enqueue, TypeOK
  <2> QED
    BY <2>1, Untouched
<1>2. CASE n = i
  <2>1. row'[n] = NewRow(n) /\ want'[n] = src'[n]
    BY <1>2 DEF Enqueue, TypeOK
  <2>2. row'[n] # None /\ row'[n].due /\ (job[n] # None => ~Unchanged(n)')
    BY <2>1, NewRowFacts DEF Unchanged
  <2>3. /\ job[n] # None /\ job[n].pc = "settle" /\ job[n].out \in {"found", "absent"}
           /\ state'[n] # None => state'[n].ver = job[n].ver
        /\ job[n] # None /\ job[n].pc = "resolved" /\ job[n].out = "absent"
           => job[n].ver \notin Images
    BY <1>2 DEF ItemInv, JobInv, TypeOK
  <2>4. JobInv(n)'
    BY <2>2, <2>3 DEF JobInv
  <2>5. want'[n] <= src'[n]
    BY <2>1, Bounds
  <2> QED
    BY <2>2, <2>4, <2>5 DEF ItemInv, Answered, BacksOff
<1> QED
  BY <1>1, <1>2

\* Every step keeps what the invariant says of one item.
LEMMA ItemStep ==
    ASSUME IInv, [Next]_vars, NEW n \in Items
    PROVE  ItemInv(n)'
<1>0. TypeOK /\ ItemInv(n)
  BY DEF IInv
<1>t. TypeOK'
  BY TypeStep
<1>s. src'[n] >= src[n] /\ src'[n] \in Int /\ src' \in [Items -> 0..MaxVersion]
  <2>1. \/ src' = src
        \/ \E i \in Items : src' = [src EXCEPT ![i] = @ + 1]
    BY DEF Next, Requests, Recheck, Job, vars, ImportChanged, ImportFull, SourceChanges,
           RefreshDelete, RefreshEnqueue, Serve, EnqueueBySource, DeleteEntity,
           PurgeDanglingItems, PurgeDangling, EnqueueStaleAbsent, EnqueueAllMissing,
           resolve, SourcesAnswer, FromFault, persist, SettleDone, SettleRetry, GiveUp, BackoffEnds, DequeueBatch,
           backfill, Crash
  <2> QED
    BY <1>0, <1>t, <2>1, Bounds DEF TypeOK
<1>a. ASSUME NEW i \in Items, insertIfNotQueued(i), job' = job, state' = state, tried' = tried
      PROVE  ItemInv(n)'
  BY <1>0, <1>a, <1>s, Enqueued, Untouched DEF insertIfNotQueued
<1>1. ASSUME NEW i \in Items, ImportChanged(i) PROVE ItemInv(n)'
  <2>1. CASE Enqueue(i) /\ state' = state
    BY <1>0, <1>1, <1>s, <2>1, Enqueued DEF ImportChanged, Imported
  <2>2. CASE state' = [state EXCEPT ![i] = None] /\ UNCHANGED <<row, want, gaveUp>>
    BY <1>0, <1>1, <1>s, <2>2
    DEF ImportChanged, Imported, ItemInv, JobInv, Unchanged, Answered, BacksOff, TypeOK
  <2>3. CASE UNCHANGED <<row, state, want, gaveUp>>
    BY <1>0, <1>1, <1>s, <2>3, Untouched DEF ImportChanged, Imported
  <2> QED
    BY <1>1, <2>1, <2>2, <2>3 DEF ImportChanged, Imported
<1>2. ASSUME NEW i \in Items, ImportFull(i) PROVE ItemInv(n)'
  <2>1. CASE insertIfNotQueued(i) /\ state' = state
    BY <1>2, <1>a, <2>1 DEF ImportFull, Imported
  <2>2. CASE state' = [state EXCEPT ![i] = None] /\ UNCHANGED <<row, want, gaveUp>>
    BY <1>0, <1>2, <1>s, <2>2
    DEF ImportFull, Imported, ItemInv, JobInv, Unchanged, Answered, BacksOff, TypeOK
  <2>3. CASE UNCHANGED <<row, state, want, gaveUp>>
    BY <1>0, <1>2, <1>s, <2>3, Untouched DEF ImportFull, Imported
  <2> QED
    BY <1>2, <2>1, <2>2, <2>3 DEF ImportFull, Imported
<1>3. ASSUME NEW i \in Items, SourceChanges(i) PROVE ItemInv(n)'
  BY <1>0, <1>3, <1>s, Untouched DEF SourceChanges
<1>4. ASSUME NEW i \in Items, RefreshDelete(i) PROVE ItemInv(n)'
  BY <1>0, <1>4, <1>s
  DEF RefreshDelete, ItemInv, JobInv, Unchanged, Answered, BacksOff, TypeOK
<1>5. ASSUME NEW i \in Items, RefreshEnqueue(i) PROVE ItemInv(n)'
  <2>1. CASE Enqueue(i)
    BY <1>0, <1>5, <1>s, <2>1, Enqueued DEF RefreshEnqueue
  <2>2. CASE UNCHANGED <<row, want, gaveUp>>
    BY <1>0, <1>5, <1>s, <2>2, Untouched DEF RefreshEnqueue
  <2> QED
    BY <1>5, <2>1, <2>2 DEF RefreshEnqueue
<1>6. ASSUME NEW i \in Items, Serve(i) PROVE ItemInv(n)'
  BY <1>6, <1>a DEF Serve
<1>7. ASSUME NEW i \in Items, EnqueueBySource(i) PROVE ItemInv(n)'
  BY <1>0, <1>7, <1>s, Enqueued DEF EnqueueBySource
<1>8. ASSUME NEW i \in Items, DeleteEntity(i) PROVE ItemInv(n)'
  BY <1>0, <1>8, <1>s, Untouched DEF DeleteEntity
<1>9. ASSUME NEW i \in Items, PurgeDanglingItems(i) PROVE ItemInv(n)'
  BY <1>0, <1>9, <1>s
  DEF PurgeDanglingItems, ItemInv, JobInv, Unchanged, Answered, BacksOff, TypeOK
\* The request goes with its row, so nothing is owed to the item any more.
<1>10. ASSUME NEW i \in Items, PurgeDangling(i) PROVE ItemInv(n)'
  <2>1. state[n] # None => state[n].ver >= 0
    BY <1>0 DEF TypeOK, StateType
  <2> QED
    BY <1>0, <1>10, <1>s, <2>1
    DEF PurgeDangling, ItemInv, JobInv, Unchanged, Answered, BacksOff, TypeOK
<1>11. ASSUME NEW i \in Items, EnqueueStaleAbsent(i) PROVE ItemInv(n)'
  BY <1>0, <1>11, <1>s, Enqueued DEF EnqueueStaleAbsent
<1>12. ASSUME NEW i \in Items, EnqueueAllMissing(i) PROVE ItemInv(n)'
  BY <1>0, <1>12, <1>s, Enqueued DEF EnqueueAllMissing
\* The sources are read now, and no request is newer than now.
<1>13. ASSUME NEW i \in Items, resolve(i) PROVE ItemInv(n)'
  <2>1. CASE n # i
    <3>1. job'[n] = job[n]
      BY <1>0, <1>13, <2>1 DEF resolve, SourcesAnswer, FromFault, TypeOK
    <3> QED
      BY <1>0, <1>13, <1>s, <3>1, Untouched DEF resolve, SourcesAnswer, FromFault
  <2>2. CASE n = i
    <3>1. PICK out \in {"found", "foundStale", "absent", "failed"} :
             /\ out = "absent" => src[n] \notin Images
             /\ job' = [job EXCEPT ![n].pc = "resolved", ![n].out = out, ![n].ver = src[n]]
      BY <1>13, <2>2 DEF resolve, SourcesAnswer, FromFault
    <3>2. job[n] \in JobType /\ job[n] # None
      BY <1>0, <1>13, <2>2 DEF resolve, SourcesAnswer, FromFault, TypeOK
    <3>3. job'[n] = [job[n] EXCEPT !.pc = "resolved", !.out = out, !.ver = src[n]]
      BY <1>0, <3>1 DEF TypeOK
    <3>4. /\ job'[n].pc = "resolved" /\ job'[n].out = out /\ job'[n].ver = src[n]
          /\ job'[n].retryAt = job[n].retryAt /\ job'[n].attempts = job[n].attempts
      BY <3>2, <3>3 DEF JobType
    <3>5. src[n] >= want[n]
      BY <1>0, Bounds DEF ItemInv, TypeOK
    <3>6. JobInv(n)'
      BY <1>0, <1>13, <3>1, <3>2, <3>4, <3>5 DEF resolve, SourcesAnswer, FromFault, ItemInv, JobInv, Unchanged
    <3> QED
      BY <1>0, <1>13, <3>6 DEF resolve, SourcesAnswer, FromFault, ItemInv, Answered, BacksOff
  <2> QED
    BY <2>1, <2>2
\* The state written is as old as what the job read; if the row is gone it was
\* purged, and nothing is owed.
<1>14. ASSUME NEW i \in Items, persist(i) PROVE ItemInv(n)'
  <2>1. CASE n # i
    <3>1. job'[n] = job[n] /\ state'[n] = state[n]
      BY <1>0, <1>14, <2>1 DEF persist, TypeOK
    <3> QED
      BY <1>0, <1>14, <1>s, <3>1, Untouched DEF persist
  <2>2. CASE n = i
    <3>1. job[n] \in JobType /\ job[n] # None /\ job[n].pc = "resolved"
      BY <1>0, <1>14, <2>2 DEF persist, TypeOK
    <3>2. /\ job'[n].pc = "settle" /\ job'[n].ver = job[n].ver
          /\ job'[n].retryAt = job[n].retryAt /\ job'[n].attempts = job[n].attempts
      BY <1>0, <1>14, <2>2, <3>1 DEF persist, TypeOK, JobType
    <3>3. \/ /\ state'[n].ver = job[n].ver
          \/ /\ state'[n] = state[n]
             /\ job'[n].out = "failed"
      BY <1>0, <1>14, <2>2, <3>1 DEF persist, TypeOK, JobType
    <3>4. JobInv(n)'
      BY <1>0, <1>14, <3>1, <3>2, <3>3 DEF persist, ItemInv, JobInv, Unchanged
    <3>5. job[n].ver >= 0
      BY <3>1 DEF JobType
    <3>6. Answered(n)'
      BY <1>0, <1>14, <3>1, <3>3, <3>5 DEF persist, ItemInv, JobInv, Answered
    <3> QED
      BY <1>0, <1>14, <3>4, <3>6 DEF persist, ItemInv, BacksOff
  <2> QED
    BY <2>1, <2>2
\* The row is removed only while nobody asked again since the job saw it.
<1>15. ASSUME NEW i \in Items, SettleDone(i) PROVE ItemInv(n)'
  <2>1. CASE n # i
    <3>1. job'[n] = job[n] /\ row'[n] = row[n]
      BY <1>0, <1>15, <2>1 DEF SettleDone, DeleteIfUnchanged, TypeOK
    <3> QED
      BY <1>0, <1>15, <1>s, <3>1, Untouched DEF SettleDone
  <2>2. CASE n = i
    <3>1. job'[n] = None
      BY <1>0, <1>15, <2>2 DEF SettleDone, TypeOK
    <3>2. row'[n] = row[n] \/ (Unchanged(n) /\ row'[n] = None)
      BY <1>0, <1>15, <2>2 DEF SettleDone, DeleteIfUnchanged, TypeOK
    <3>3. Unchanged(n) => Answered(n)'
      BY <1>0, <1>15, <2>2 DEF SettleDone, ItemInv, JobInv, Answered
    <3>4. Answered(n)'
      BY <1>0, <1>15, <3>2, <3>3 DEF SettleDone, ItemInv, Answered
    <3> QED
      BY <1>0, <1>15, <3>1, <3>2, <3>4 DEF SettleDone, ItemInv, JobInv, BacksOff
  <2> QED
    BY <2>1, <2>2
<1>16. ASSUME NEW i \in Items, SettleRetry(i) PROVE ItemInv(n)'
  <2>1. CASE n # i
    <3>1. job'[n] = job[n] /\ row'[n] = row[n] /\ tried'[n] = tried[n]
      BY <1>0, <1>16, <2>1 DEF SettleRetry, MarkFailedIfUnchanged, TypeOK
    <3> QED
      BY <1>0, <1>16, <1>s, <3>1, Untouched DEF SettleRetry
  <2>2. CASE n = i
    <3>1. job'[n] = None
      BY <1>0, <1>16, <2>2 DEF SettleRetry, TypeOK
    <3>2. CASE row' = row /\ tried' = tried
      BY <1>0, <1>16, <1>s, <3>1, <3>2
      DEF SettleRetry, ItemInv, JobInv, Answered, BacksOff
    <3>3. CASE Unchanged(n) /\ MarkFailedIfUnchanged(n) /\ tried'[n] = job[n].ver
      <4>1. row'[n] \in RowType
        <5>1. row[n].attempts = job[n].attempts /\ job[n].attempts < MaxAttempts
          BY <1>0, <1>16, <2>2, <3>3 DEF SettleRetry, ItemInv, JobInv
        <5>2. row[n].attempts \in 0..MaxAttempts
          BY <1>0, <3>3 DEF Unchanged, TypeOK, RowType
        <5>3. row[n].attempts + 1 \in 0..MaxAttempts
          BY <5>1, <5>2, Bounds
        <5>4. row'[n] = [retryAt |-> FreshStamp(n), due |-> FALSE,
                         attempts |-> row[n].attempts + 1]
          BY <1>0, <3>3 DEF MarkFailedIfUnchanged, TypeOK
        <5> QED
          BY <1>0, <5>3, <5>4, Fresh DEF RowType
      <4>2. row'[n] # None
        BY <4>1, NoneAssumption
      <4>3. job[n].ver >= want[n]
        BY <1>0, <1>16, <2>2, <3>3 DEF SettleRetry, ItemInv, JobInv
      <4> QED
        BY <1>0, <1>16, <3>1, <3>3, <4>2, <4>3
        DEF SettleRetry, ItemInv, JobInv, Answered, BacksOff
    <3> QED
      BY <1>0, <1>16, <2>2, <3>2, <3>3 DEF SettleRetry, MarkFailedIfUnchanged, TypeOK
  <2> QED
    BY <2>1, <2>2
<1>17. ASSUME NEW i \in Items, GiveUp(i) PROVE ItemInv(n)'
  <2>1. CASE n # i
    <3>1. /\ job'[n] = job[n] /\ state'[n] = state[n]
          /\ (n \in gaveUp') = (n \in gaveUp)
      BY <1>0, <1>17, <2>1 DEF GiveUp, TypeOK
    <3> QED
      BY <1>0, <1>17, <1>s, <3>1, Untouched DEF GiveUp
  <2>2. CASE n = i
    <3>1. job[n] \in JobType /\ job[n] # None
      BY <1>0, <1>17, <2>2 DEF GiveUp, TypeOK
    <3>2. /\ job'[n].pc = "remove" /\ job'[n].ver = job[n].ver
          /\ job'[n].retryAt = job[n].retryAt /\ job'[n].attempts = job[n].attempts
      BY <1>0, <1>17, <2>2, <3>1 DEF GiveUp, TypeOK, JobType
    <3>3. Unchanged(n) => n \in gaveUp'
      BY <1>17, <2>2 DEF GiveUp
    <3>4. JobInv(n)'
      BY <1>0, <1>17, <2>2, <3>1, <3>2, <3>3 DEF GiveUp, ItemInv, JobInv, Unchanged
    <3>5. state'[n] = state[n] \/ state'[n] = AbsentAfterFault(n)
      BY <1>0, <1>17, <2>2 DEF GiveUp, TypeOK
    <3>6. AbsentAfterFault(n).ver >= 0
      BY <3>1 DEF AbsentAfterFault, JobType
    <3>7. Answered(n)'
      BY <1>0, <1>17, <2>2, <3>1, <3>5, <3>6 DEF GiveUp, ItemInv, JobInv, Answered
    <3> QED
      BY <1>0, <1>17, <3>4, <3>7 DEF GiveUp, ItemInv, BacksOff
  <2> QED
    BY <2>1, <2>2
<1>18. ASSUME NEW i \in Items, BackoffEnds(i) PROVE ItemInv(n)'
  <2>1. CASE n # i
    <3>1. row'[n] = row[n]
      BY <1>0, <1>18, <2>1 DEF BackoffEnds, TypeOK
    <3> QED
      BY <1>0, <1>18, <1>s, <3>1, Untouched DEF BackoffEnds
  <2>2. CASE n = i
    <3>1. row[n] \in RowType /\ row[n] # None
      BY <1>0, <1>18, <2>2 DEF BackoffEnds, TypeOK
    <3>2. row'[n] = [row[n] EXCEPT !.due = TRUE]
      BY <1>0, <1>18, <2>2 DEF BackoffEnds, TypeOK
    <3>3. row'[n].due /\ row'[n].retryAt = row[n].retryAt /\ row'[n].attempts = row[n].attempts
      BY <3>1, <3>2 DEF RowType
    <3>4. row'[n] \in RowType /\ row'[n] # None
      BY <3>1, <3>2, NoneAssumption DEF RowType
    <3> QED
      BY <1>0, <1>18, <3>1, <3>3, <3>4
      DEF BackoffEnds, ItemInv, JobInv, Unchanged, Answered, BacksOff
  <2> QED
    BY <2>1, <2>2
<1>19. ASSUME NEW p \in Pools, DequeueBatch(p) PROVE ItemInv(n)'
  <2>1. CASE job'[n] = job[n]
    BY <1>0, <1>19, <1>s, <2>1, Untouched DEF DequeueBatch
  <2>2. CASE /\ row[n] # None
             /\ job'[n] = [pc |-> "waiting", retryAt |-> row[n].retryAt,
                           attempts |-> row[n].attempts, out |-> "none", ver |-> 0]
    <3>1. JobInv(n)'
      BY <1>19, <2>2 DEF DequeueBatch, JobInv
    <3> QED
      BY <1>0, <1>19, <3>1 DEF DequeueBatch, ItemInv, Answered, BacksOff
  <2> QED
    BY <1>0, <1>19, <2>1, <2>2 DEF DequeueBatch, TypeOK
<1>20. CASE backfill
  <2>1. CASE n \in exists \cap RecheckItems
    <3>1. row'[n] = NewRow(n) /\ want'[n] = src[n]
      BY <1>0, <1>20, <2>1 DEF backfill, TypeOK
    <3>2. row'[n] # None /\ row'[n].due
      BY <1>0, <3>1, NewRowFacts
    <3>3. job[n] # None => ~Unchanged(n)'
      BY <1>0, <1>20, <3>1, NewRowFacts DEF Unchanged, backfill
    <3>4. JobInv(n)'
      BY <1>0, <1>20, <3>2, <3>3 DEF backfill, ItemInv, JobInv
    <3> QED
      BY <1>20, <1>s, <3>1, <3>2, <3>4 DEF backfill, ItemInv, Answered, BacksOff
  <2>2. CASE n \notin exists \cap RecheckItems
    <3>1. row'[n] = row[n] /\ want'[n] = want[n] /\ (n \in gaveUp') = (n \in gaveUp)
      BY <1>0, <1>20, <2>2 DEF backfill, TypeOK
    <3> QED
      BY <1>0, <1>20, <1>s, <3>1, Untouched DEF backfill
  <2> QED
    BY <2>1, <2>2
<1>21. CASE Crash
  <2>1. job'[n] = None
    BY <1>21 DEF Crash
  <2> QED
    BY <1>0, <1>21, <2>1 DEF Crash, ItemInv, JobInv, Answered, BacksOff
<1>22. CASE UNCHANGED vars
  BY <1>0, <1>22, <1>s, Untouched DEF vars
<1> QED
  BY <1>1, <1>2, <1>3, <1>4, <1>5, <1>6, <1>7, <1>8, <1>9, <1>10, <1>11, <1>12, <1>13,
     <1>14, <1>15, <1>16, <1>17, <1>18, <1>19, <1>20, <1>21, <1>22
  DEF Next, Requests, Recheck, Job

-------------------------------------------------------------------------------
\* The inductive invariant holds throughout.
LEMMA Invariance == Spec => []IInv
<1>1. IInv /\ [Next]_vars => IInv'
  BY TypeStep, ItemStep DEF IInv
<1> QED
  BY InitInv, <1>1, PTL DEF Spec

\* Queue rows, states and jobs keep their shape; in particular a row is never
\* rescheduled past the retry budget, because a job that reschedules it has
\* the row's own count of attempts.
THEOREM TypeCorrect == Spec => []TypeOK
<1>1. IInv => TypeOK
  BY DEF IInv
<1> QED
  BY <1>1, Invariance, PTL

\* DeleteIfUnchanged never removes a row that was enqueued again after the job
\* took its snapshot: an item without a row has no state older than its last
\* request, unless the retry budget ran out.
THEOREM NoRequestLost == Spec => []RequestNeverLost
<1>1. IInv => RequestNeverLost
  BY DEF IInv, ItemInv, Answered, RequestNeverLost
<1> QED
  BY <1>1, Invariance, PTL

\* MarkFailedIfUnchanged never pushes back a row that was enqueued again after
\* the failing job took its snapshot.
THEOREM NoRequestDelayed == Spec => []BackoffNeverStompsRequest
<1>1. IInv => BackoffNeverStompsRequest
  BY DEF IInv, ItemInv, BacksOff, BackoffNeverStompsRequest
<1> QED
  BY <1>1, Invariance, PTL

\* What the queue promises of every request, from the two theorems above.
THEOREM RequestsHonoured == Spec => []RequestsAreHonoured
  BY NoRequestLost, NoRequestDelayed, PTL DEF RequestsAreHonoured

\* Only four things happen to states: nothing, a deletion, the write of a
\* resolved job and the write of a job that gives up.
LEMMA StateSteps ==
    ASSUME Next
    PROVE  \/ state' = state
           \/ \E i \in Items : state' = [state EXCEPT ![i] = None]
           \/ \E i \in Items : persist(i)
           \/ \E i \in Items : GiveUp(i)
BY DEF Next, Requests, Recheck, Job, ImportChanged, ImportFull, Imported, SourceChanges,
       RefreshDelete, RefreshEnqueue, Serve, EnqueueBySource, DeleteEntity,
       PurgeDanglingItems, PurgeDangling, EnqueueStaleAbsent, EnqueueAllMissing,
       resolve, SourcesAnswer, FromFault, SettleDone, SettleRetry, BackoffEnds, DequeueBatch,
       backfill, Crash

\* The state a resolved job writes: found unless the sources said no, and clean
\* unless a source above the hit could not be reached.
LEMMA PersistWrites ==
    ASSUME TypeOK, NEW i \in Items, NEW n \in Items, persist(i), state'[n] # state[n]
    PROVE  /\ n = i /\ job[n] # None /\ job[n].pc = "resolved"
           /\ state'[n].found <=> job[n].out # "absent"
           /\ state'[n].clean <=> job[n].out # "foundStale"
           /\ state'[n].ver = job[n].ver
<1>1. n = i /\ job[n] # None /\ job[n].pc = "resolved"
  BY DEF persist, TypeOK
<1>2. state'[n] = [found |-> job[n].out # "absent", ver |-> job[n].ver,
                   clean |-> job[n].out # "foundStale"]
  BY <1>1 DEF persist, TypeOK
<1> DEFINE f == job[n].out # "absent"
           c == job[n].out # "foundStale"
<1>3. f \in BOOLEAN /\ c \in BOOLEAN
  OBVIOUS
<1>4. state'[n] = [found |-> f, ver |-> job[n].ver, clean |-> c]
  BY <1>2, Zenon
<1> HIDE DEF f, c
<1>5. state'[n].found = f /\ state'[n].clean = c /\ state'[n].ver = job[n].ver
  BY <1>3, <1>4
<1> QED
  BY <1>1, <1>5, Zenon DEF f, c

\* No step records an absence after faults for a kind that nobody rechecks.
LEMMA RecoverableStep ==
    TypeOK /\ AbsentIsRecoverable /\ [Next]_vars => AbsentIsRecoverable'
<1> SUFFICES ASSUME TypeOK, AbsentIsRecoverable, Next, NEW n \in Items,
                    state'[n] # None, ~state'[n].found, ~state'[n].clean
             PROVE  n \in RecheckItems
  BY DEF AbsentIsRecoverable, vars
<1>1. CASE state'[n] = state[n]
  BY <1>1 DEF AbsentIsRecoverable
<1>2. ASSUME NEW i \in Items, state' = [state EXCEPT ![i] = None], state'[n] # state[n]
      PROVE  FALSE
  BY <1>2 DEF TypeOK
<1>3. ASSUME NEW i \in Items, persist(i), state'[n] # state[n]
      PROVE  FALSE
  <2>1. job[n].out = "absent" /\ job[n].out = "foundStale"
    BY <1>3, PersistWrites
  <2> QED
    BY <2>1
<1>4. ASSUME NEW i \in Items, GiveUp(i), state'[n] # state[n]
      PROVE  n \in RecheckItems
  BY <1>4 DEF GiveUp, hasRecheckPath, TypeOK
<1> QED
  BY <1>1, <1>2, <1>3, <1>4, StateSteps

\* An absence that faults recorded is one a periodic job looks at again.
THEOREM AbsenceIsRecoverable == Spec => []AbsentIsRecoverable
<1>1. Init => AbsentIsRecoverable
  BY DEF Init, AbsentIsRecoverable
<1> QED
  BY <1>1, RecoverableStep, TypeCorrect, PTL DEF Spec

\* Failures never erase art that is being served, provided the state lookup
\* before giving up works.
THEOREM ArtOutlivesFaults ==
    ASSUME ~LookupFails
    PROVE  Spec => FaultsNeverEraseArt
<1> DEFINE Keeps == \A i \in exists' :
              /\ state[i] # None /\ state[i].found
              /\ state'[i] # None /\ ~state'[i].found
              => state'[i].clean /\ state'[i].ver \notin Images
<1>1. IInv /\ IInv' /\ [Next]_vars => [Keeps]_vars
  <2> SUFFICES ASSUME IInv, IInv', Next, NEW n \in Items,
                      state[n] # None, state[n].found, state'[n] # None, ~state'[n].found
               PROVE  state'[n].clean /\ state'[n].ver \notin Images
    BY DEF IInv, TypeOK
  <2>0. TypeOK /\ ItemInv(n)
    BY DEF IInv
  <2>1. \/ state' = state
        \/ \E i \in Items : state' = [state EXCEPT ![i] = None]
        \/ \E i \in Items : persist(i)
        \/ \E i \in Items : GiveUp(i)
    BY StateSteps
  <2>2. CASE state' = state
    BY <2>2
  <2>3. ASSUME NEW i \in Items, state' = [state EXCEPT ![i] = None]
        PROVE  FALSE
    BY <2>0, <2>3 DEF TypeOK
  <2>4. ASSUME NEW i \in Items, persist(i)
        PROVE  state'[n].clean /\ state'[n].ver \notin Images
    <3>1. state'[n] # state[n]
      OBVIOUS
    <3>2. n = i /\ job[n] # None /\ job[n].pc = "resolved"
      BY <2>0, <2>4, <3>1, PersistWrites
    <3>3. /\ state'[n].found <=> job[n].out # "absent"
          /\ state'[n].clean <=> job[n].out # "foundStale"
          /\ state'[n].ver = job[n].ver
      BY <2>0, <2>4, <3>1, PersistWrites
    <3>4. job[n].out = "absent"
      BY <3>3
    <3>5. state'[n].clean
      BY <3>3, <3>4
    <3>6. job[n].ver \notin Images
      BY <2>0, <3>2, <3>4 DEF ItemInv, JobInv
    <3> QED
      BY <3>3, <3>5, <3>6
  <2>5. ASSUME NEW i \in Items, GiveUp(i)
        PROVE  FALSE
    <3>1. CASE n # i
      BY <2>0, <2>5, <3>1 DEF GiveUp, TypeOK
    <3>2. CASE n = i
      <4>1. state'[n] # state[n]
        OBVIOUS
      <4>2. PICK readable \in {TRUE} \cup {~LookupFails} : ~hasResolvedArtwork(n, readable)
        BY <2>5, <3>2, <4>1 DEF GiveUp
      <4>3. readable
        BY <4>2
      <4> QED
        BY <4>2, <4>3 DEF hasResolvedArtwork
    <3> QED
      BY <3>1, <3>2
  <2> QED
    BY <2>1, <2>2, <2>3, <2>4, <2>5
<1> QED
  BY <1>1, Invariance, PTL DEF Spec, FaultsNeverEraseArt

-------------------------------------------------------------------------------
(* ExternalGate.  A window starts with no probe admitted, and admitting one    *)
(* starts the next window.                                                     *)

GateInv ==
    /\ failures \in Nat /\ sinceOpened \in 0..ProbeAfter /\ admitted \in 0..1
    /\ sinceOpened = ProbeAfter => admitted = 0

LEMMA GateInvInit == GateInit => GateInv
BY GateAssumption DEF GateInit, GateInv

LEMMA GateInvNext == GateInv /\ [GateNext]_gateVars => GateInv'
<1> SUFFICES ASSUME GateInv, [GateNext]_gateVars PROVE GateInv' OBVIOUS
<1> USE GateAssumption
<1>1. ASSUME NEW f \in Fetchers, allow(f) PROVE GateInv' BY <1>1 DEF allow, GateInv, Open
<1>2. ASSUME NEW f \in Fetchers, record(f) PROVE GateInv' BY <1>2 DEF record, GateInv
<1>3. ASSUME NEW f \in Fetchers, Cancelled(f) PROVE GateInv' BY <1>3 DEF Cancelled, GateInv
<1>4. CASE GateTick BY <1>4 DEF GateTick, GateInv
<1>5. CASE ProviderChanges BY <1>5 DEF ProviderChanges, GateInv
<1>6. CASE UNCHANGED gateVars BY <1>6 DEF gateVars, GateInv
<1>7. QED BY <1>1, <1>2, <1>3, <1>4, <1>5, <1>6 DEF GateNext

\* The safety part of BreakerProbes, for any number of callers and any threshold and
\* window: an open breaker admits one call per window (breaker.allow, breaker.record).
THEOREM BreakerAdmitsOne == GateSpec => []OneProbePerWindow
<1>1. GateInv => OneProbePerWindow BY DEF GateInv, OneProbePerWindow
<1>2. QED BY <1>1, GateInvInit, GateInvNext, PTL DEF GateSpec

-------------------------------------------------------------------------------
(* SimpleCache.  The flight is registered by the one call between joining and  *)
(* deregistering, and nobody else fills the cache.                             *)

Flying == {"leading", "loading", "loaded", "closed"}

FlightInv ==
    /\ getter \in [Getters -> {"idle", "missed", "waiting", "done"} \cup Flying]
    /\ \A g \in Getters : getter[g] \in Flying => flight = g
    /\ \A g \in Getters : getter[g] = "loading" => cached = Absent

LEMMA FlightInvInit == SimpleInit => FlightInv
BY DEF SimpleInit, FlightInv, Flying

LEMMA FlightInvNext == FlightInv /\ [SimpleNext]_simpleVars => FlightInv'
<1> SUFFICES ASSUME FlightInv, [SimpleNext]_simpleVars PROVE FlightInv' OBVIOUS
<1>1. ASSUME NEW g \in Getters, GetWithLoader(g) PROVE FlightInv' BY <1>1 DEF GetWithLoader, FlightInv, Flying, Step
<1>2. ASSUME NEW g \in Getters, JoinFlight(g) PROVE FlightInv'
  <2>1. CASE flight # Absent BY <1>2, <2>1 DEF JoinFlight, FlightInv, Flying, Step
  <2>2. CASE flight = Absent
    <3>1. \A h \in Getters : getter[h] \notin Flying BY <2>2, SimpleAssumption DEF FlightInv
    <3>2. QED BY <1>2, <2>2, <3>1 DEF JoinFlight, FlightInv, Flying, Step
  <2>3. QED BY <2>1, <2>2
<1>3. ASSUME NEW g \in Getters, LookAgain(g) PROVE FlightInv' BY <1>3 DEF LookAgain, FlightInv, Flying, Step
<1>4. ASSUME NEW g \in Getters, NEW ok \in BOOLEAN, Load(g, ok) PROVE FlightInv' BY <1>4 DEF Load, FlightInv, Flying, Step
<1>5. ASSUME NEW g \in Getters, CloseFlight(g) PROVE FlightInv' BY <1>5 DEF CloseFlight, FlightInv, Flying, Step
<1>6. ASSUME NEW g \in Getters, Deregister(g) PROVE FlightInv' BY <1>6 DEF Deregister, FlightInv, Flying, Step
<1>7. ASSUME NEW g \in Getters, Woken(g) PROVE FlightInv' BY <1>7 DEF Woken, FlightInv, Flying, Step
<1>8. CASE Expires BY <1>8 DEF Expires, FlightInv
<1>9. CASE UNCHANGED simpleVars BY <1>9 DEF simpleVars, FlightInv
<1>10. QED BY <1>1, <1>2, <1>3, <1>4, <1>5, <1>6, <1>7, <1>8, <1>9 DEF SimpleNext, GetterSteps

\* The safety part of MissesShareOneLoad, for any number of concurrent calls: nothing is
\* loaded while it is cached or by two calls at once (GetWithLoader).
THEOREM MissesLoadOnce == SimpleSpec => []LoadsOnce
<1>1. FlightInv => LoadsOnce BY DEF FlightInv, LoadsOnce, Flying
<1>2. QED BY <1>1, FlightInvInit, FlightInvNext, PTL DEF SimpleSpec

-------------------------------------------------------------------------------
(* RequestThrottle.  Tokens are counted by the calls that hold them.           *)

Outside == {"new", "writing", "served", "refused"}
InBacklog == {"admitted", "waiting", "running", "releasing"}
HoldersOf(S) == {c \in Calls : call[c] \in S}

ThrottleInv ==
    /\ call \in [Calls -> Outside \cup InBacklog]
    /\ tokens \in Nat /\ backlogTokens \in Nat
    /\ TokensAreHeld

LEMMA FewCalls == ASSUME NEW S PROVE IsFiniteSet(HoldersOf(S)) /\ In(S) = Cardinality(HoldersOf(S)) /\ In(S) \in Nat
<1>1. HoldersOf(S) \subseteq Calls BY DEF HoldersOf
<1>2. IsFiniteSet(HoldersOf(S)) BY <1>1, ThrottleAssumption, FS_Subset
<1>3. In(S) = Cardinality(HoldersOf(S)) BY DEF In, HoldersOf
<1>4. QED BY <1>2, <1>3, FS_CardinalityType

\* A call that changes its state joins the holders, leaves them or does neither.
LEMMA OneMoves ==
    ASSUME ThrottleInv, NEW c \in Calls, NEW s, Becomes(c, s), NEW S
    PROVE  /\ In(S)' \in Nat /\ In(S) \in Nat
           /\ call[c] \notin S /\ s \in S => In(S)' = In(S) + 1
           /\ call[c] \in S /\ s \notin S => In(S)' = In(S) - 1
           /\ (call[c] \in S <=> s \in S) => In(S)' = In(S)
<1> DEFINE H == {d \in Calls : call[d] \in S}
           G == {d \in Calls : call'[d] \in S}
<1>1. IsFiniteSet(H) /\ In(S) = Cardinality(H) /\ In(S) \in Nat BY FewCalls DEF HoldersOf
<1>2. IsFiniteSet(G)
  <2>1. G \subseteq Calls OBVIOUS
  <2>2. QED BY <2>1, ThrottleAssumption, FS_Subset
<1>3. In(S)' = Cardinality(G) /\ Cardinality(G) \in Nat BY <1>2, FS_CardinalityType DEF In
<1>4. \A d \in Calls : call'[d] = IF d = c THEN s ELSE call[d] BY DEF Becomes, ThrottleInv
<1>5. CASE call[c] \notin S /\ s \in S
  <2>1. G = H \cup {c} /\ c \notin H BY <1>4, <1>5
  <2> HIDE DEF G, H
  <2>2. QED BY <2>1, <1>1, <1>3, <1>5, FS_AddElement
<1>6. CASE call[c] \in S /\ s \notin S
  <2>1. G = H \ {c} /\ c \in H BY <1>4, <1>6
  <2> HIDE DEF G, H
  <2>2. QED BY <2>1, <1>1, <1>3, <1>6, FS_RemoveElement
<1>7. CASE call[c] \in S <=> s \in S
  <2>1. G = H BY <1>4, <1>7
  <2> HIDE DEF G, H
  <2>2. QED BY <2>1, <1>1, <1>3, <1>7
<1>8. QED BY <1>1, <1>3, <1>5, <1>6, <1>7

LEMMA ThrottleInvInit == ThrottleInit => ThrottleInv
<1> SUFFICES ASSUME ThrottleInit PROVE ThrottleInv OBVIOUS
<1>1. call \in [Calls -> Outside \cup InBacklog] BY DEF ThrottleInit, Outside
<1>2. tokens = Limit /\ backlogTokens = Limit + BacklogLimit /\ \A c \in Calls : call[c] = "new" BY DEF ThrottleInit
<1>3. HoldersOf({"running"}) = {} /\ HoldersOf(InBacklog) = {} BY <1>2 DEF HoldersOf, InBacklog
<1>4. In({"running"}) = 0 /\ In(InBacklog) = 0 BY <1>3, FewCalls, FS_EmptySet
<1>5. QED BY <1>1, <1>2, <1>4, ThrottleAssumption DEF ThrottleInv, TokensAreHeld, InBacklog

LEMMA ThrottleInvNext == ThrottleInv /\ [ThrottleNext]_throttleVars => ThrottleInv'
<1> SUFFICES ASSUME ThrottleInv, [ThrottleNext]_throttleVars PROVE ThrottleInv' OBVIOUS
<1> DEFINE R == In({"running"})
           B == In(InBacklog)
<1>1. TokensAreHeld <=> tokens + R = Limit /\ backlogTokens + B = Limit + BacklogLimit BY DEF TokensAreHeld, InBacklog
<1>2. TokensAreHeld' <=> tokens' + R' = Limit /\ backlogTokens' + B' = Limit + BacklogLimit BY DEF TokensAreHeld, InBacklog
<1>3. ASSUME NEW c \in Calls, NEW s \in Outside \cup InBacklog, Becomes(c, s)
      PROVE  /\ call' \in [Calls -> Outside \cup InBacklog]
             /\ R \in Nat /\ R' \in Nat /\ B \in Nat /\ B' \in Nat
             /\ call[c] # "running" /\ s = "running" => R' = R + 1
             /\ call[c] = "running" /\ s # "running" => R' = R - 1
             /\ (call[c] = "running" <=> s = "running") => R' = R
             /\ call[c] \notin InBacklog /\ s \in InBacklog => B' = B + 1
             /\ call[c] \in InBacklog /\ s \notin InBacklog => B' = B - 1
             /\ (call[c] \in InBacklog <=> s \in InBacklog) => B' = B
  <2>1. call' \in [Calls -> Outside \cup InBacklog] BY <1>3 DEF Becomes, ThrottleInv
  <2>2. QED BY <2>1, <1>3, OneMoves
<1> HIDE DEF R, B
<1> USE ThrottleAssumption DEF ThrottleInv
<1>4. ASSUME NEW c \in Calls, Admit(c) PROVE ThrottleInv'
  <2>1. CASE backlogTokens > 0 /\ Becomes(c, "admitted") BY <1>4, <2>1, <1>1, <1>2, <1>3 DEF Admit, Outside, InBacklog
  <2>2. CASE backlogTokens = 0 /\ Becomes(c, "refused") BY <1>4, <2>2, <1>1, <1>2, <1>3 DEF Admit, Outside, InBacklog
  <2>3. QED BY <1>4, <2>1, <2>2 DEF Admit
<1>5. ASSUME NEW c \in Calls, TakeToken(c) PROVE ThrottleInv' BY <1>5, <1>1, <1>2, <1>3 DEF TakeToken, Outside, InBacklog
<1>6. ASSUME NEW c \in Calls, Wait(c) PROVE ThrottleInv' BY <1>6, <1>1, <1>2, <1>3 DEF Wait, Outside, InBacklog
<1>7. ASSUME NEW c \in Calls, StopWaiting(c) PROVE ThrottleInv' BY <1>7, <1>1, <1>2, <1>3 DEF StopWaiting, Outside, InBacklog
<1>8. ASSUME NEW c \in Calls, HandlerEnds(c) PROVE ThrottleInv' BY <1>8, <1>1, <1>2, <1>3 DEF HandlerEnds, Outside, InBacklog
<1>9. ASSUME NEW c \in Calls, ReleaseBacklog(c) PROVE ThrottleInv' BY <1>9, <1>1, <1>2, <1>3 DEF ReleaseBacklog, Outside, InBacklog
<1>10. ASSUME NEW c \in Calls, Written(c) PROVE ThrottleInv' BY <1>10, <1>1, <1>2, <1>3 DEF Written, Outside, InBacklog
<1>11. CASE UNCHANGED throttleVars BY <1>11 DEF throttleVars, TokensAreHeld, In
<1>12. QED BY <1>4, <1>5, <1>6, <1>7, <1>8, <1>9, <1>10, <1>11 DEF ThrottleNext, ThrottleSteps

\* The safety part of ThrottleServes, for any limits and any number of requests: what is
\* missing from a pool is held by a request that gives it back (throttler.acquire, release).
THEOREM ThrottleKeepsTokens == ThrottleSpec => []TokensAreHeld
<1>1. ThrottleInv => TokensAreHeld BY DEF ThrottleInv
<1>2. QED BY <1>1, ThrottleInvInit, ThrottleInvNext, PTL DEF ThrottleSpec

-------------------------------------------------------------------------------
(* EventBroker.  An event waits in a queue only if shouldSend let it through.  *)

Origins == Conns \cup {Server}
Messages == [origin : Origins, all : BOOLEAN]

IsFor(c, m) == m.all \/ m.origin = Server \/ (m.origin # c /\ Owner[m.origin] = Owner[c])

BrokerInv ==
    /\ subscribing \in Seq(Conns) /\ listeners \subseteq Conns
    /\ publish \in Seq(Messages)
    /\ msgC \in [Conns -> Seq(Messages)]
    /\ QueuedForItsUser

LEMMA QueuedIsMeant == QueuedForItsUser <=> \A c \in Conns : \A k \in 1..Len(msgC[c]) : IsFor(c, msgC[c][k])
BY DEF QueuedForItsUser, IsFor

LEMMA SentIsMeant == ASSUME NEW c \in Conns, NEW m, shouldSend(m, c) PROVE IsFor(c, m)
BY DEF shouldSend, IsFor

LEMMA SendKeeps ==
    ASSUME BrokerInv, NEW cs \in SUBSET Conns, NEW m \in Messages, sendOrDrop(cs, m), \A c \in cs : IsFor(c, m)
    PROVE  msgC' \in [Conns -> Seq(Messages)] /\ QueuedForItsUser'
<1>1. ASSUME NEW c \in Conns
      PROVE  msgC'[c] \in Seq(Messages) /\ \A k \in 1..Len(msgC'[c]) : IsFor(c, msgC'[c][k])
  <2>1. msgC[c] \in Seq(Messages) /\ \A k \in 1..Len(msgC[c]) : IsFor(c, msgC[c][k]) BY QueuedIsMeant DEF BrokerInv
  <2>2. msgC'[c] = msgC[c] \/ (c \in cs /\ msgC'[c] = Append(msgC[c], m)) BY DEF sendOrDrop
  <2>3. CASE msgC'[c] = msgC[c] BY <2>1, <2>3
  <2>4. CASE c \in cs /\ msgC'[c] = Append(msgC[c], m)
    <3>1. Append(msgC[c], m) \in Seq(Messages) /\ Len(Append(msgC[c], m)) = Len(msgC[c]) + 1 /\ Append(msgC[c], m)[Len(msgC[c]) + 1] = m
          /\ \A k \in 1..Len(msgC[c]) : Append(msgC[c], m)[k] = msgC[c][k]
        BY <2>1
    <3>2. \A k \in 1..(Len(msgC[c]) + 1) : k \in 1..Len(msgC[c]) \/ k = Len(msgC[c]) + 1 BY <2>1
    <3>3. IsFor(c, m) BY <2>4
    <3> HIDE DEF Messages
    <3>4. QED BY <2>1, <2>4, <3>1, <3>2, <3>3
  <2>5. QED BY <2>2, <2>3, <2>4
<1>2. DOMAIN msgC' = Conns /\ msgC' = [c \in Conns |-> msgC'[c]] BY DEF sendOrDrop
<1>3. msgC' \in [Conns -> Seq(Messages)] BY <1>1, <1>2
<1>4. QED BY <1>1, <1>3 DEF QueuedForItsUser, IsFor

LEMMA BrokerInvInit == BrokerInit => BrokerInv
BY DEF BrokerInit, BrokerInv, QueuedForItsUser

LEMMA BrokerInvNext == BrokerInv /\ [BrokerNext]_brokerVars => BrokerInv'
<1> SUFFICES ASSUME BrokerInv, [BrokerNext]_brokerVars PROVE BrokerInv' OBVIOUS
<1> HIDE DEF Messages
<1>0. Greeting \in Messages /\ \A c \in Conns : IsFor(c, Greeting) BY DEF Greeting, Messages, Origins, IsFor
<1>1. ASSUME NEW c \in Conns, subscribe(c) PROVE BrokerInv'
  <2>1. subscribing' \in Seq(Conns) BY <1>1 DEF subscribe, BrokerInv
  <2>2. QED BY <1>1, <2>1 DEF subscribe, BrokerInv, QueuedForItsUser
<1>2. ASSUME NEW c \in Conns, ServeHTTP(c) PROVE BrokerInv'
  <2>1. msgC[c] \in Seq(Messages) /\ msgC[c] # <<>> BY <1>2 DEF ServeHTTP, BrokerInv
  <2>2. Tail(msgC[c]) \in Seq(Messages) /\ Len(Tail(msgC[c])) = Len(msgC[c]) - 1 /\ \A k \in 1..(Len(msgC[c]) - 1) : Tail(msgC[c])[k] = msgC[c][k + 1]
      BY <2>1
  <2>3. msgC' = [msgC EXCEPT ![c] = Tail(msgC[c])] BY <1>2 DEF ServeHTTP
  <2>4. msgC' \in [Conns -> Seq(Messages)] BY <2>2, <2>3 DEF BrokerInv
  <2>5. ASSUME NEW d \in Conns, NEW k \in 1..Len(msgC'[d]) PROVE IsFor(d, msgC'[d][k])
    <3>1. CASE d = c
      <4>1. msgC'[d] = Tail(msgC[c]) BY <3>1, <2>3 DEF BrokerInv
      <4>2. k \in 1..(Len(msgC[c]) - 1) /\ k + 1 \in 1..Len(msgC[c]) BY <4>1, <2>1, <2>2
      <4>3. msgC'[d][k] = msgC[c][k + 1] BY <4>1, <4>2, <2>2
      <4>4. IsFor(c, msgC[c][k + 1]) BY <4>2, QueuedIsMeant DEF BrokerInv
      <4>5. QED BY <3>1, <4>3, <4>4
    <3>2. CASE d # c
      <4>1. msgC'[d] = msgC[d] BY <3>2, <2>3 DEF BrokerInv
      <4>2. QED BY <4>1, QueuedIsMeant DEF BrokerInv
    <3>3. QED BY <3>1, <3>2
  <2>6. QueuedForItsUser' BY <2>5 DEF QueuedForItsUser, IsFor
  <2>7. QED BY <1>2, <2>4, <2>6 DEF ServeHTTP, BrokerInv
<1>3. ASSUME NEW c \in Conns, Disconnect(c) PROVE BrokerInv' BY <1>3 DEF Disconnect, BrokerInv, QueuedForItsUser
<1>4. ASSUME NEW c \in Conns, unsubscribe(c) PROVE BrokerInv' BY <1>4 DEF unsubscribe, BrokerInv, QueuedForItsUser
<1>5. ASSUME NEW o \in Conns \cup {Server}, NEW all \in BOOLEAN, SendMessage(o, all) PROVE BrokerInv'
  <2>1. [origin |-> o, all |-> all] \in Messages BY DEF Messages, Origins
  <2>2. publish' \in Seq(Messages) BY <1>5, <2>1 DEF SendMessage, BrokerInv
  <2>3. QED BY <1>5, <2>2 DEF SendMessage, BrokerInv, QueuedForItsUser
<1>6. CASE Subscribed
  <2>1. subscribing \in Seq(Conns) /\ subscribing # <<>> BY <1>6 DEF Subscribed, BrokerInv
  <2>2. Head(subscribing) \in Conns /\ Tail(subscribing) \in Seq(Conns) BY <2>1
  <2>3. sendOrDrop({Head(subscribing)}, Greeting) BY <1>6 DEF Subscribed
  <2>4. msgC' \in [Conns -> Seq(Messages)] /\ QueuedForItsUser' BY <2>2, <2>3, <1>0, SendKeeps
  <2>5. QED BY <1>6, <2>2, <2>4 DEF Subscribed, BrokerInv
<1>7. CASE Unsubscribed BY <1>7 DEF Unsubscribed, BrokerInv, QueuedForItsUser
<1>8. CASE Published
  <2>1. publish \in Seq(Messages) /\ publish # <<>> BY <1>8 DEF Published, BrokerInv
  <2>2. Head(publish) \in Messages /\ Tail(publish) \in Seq(Messages) BY <2>1
  <2> DEFINE cs == {c \in listeners : shouldSend(Head(publish), c)}
  <2>3. cs \subseteq Conns BY DEF BrokerInv
  <2>4. sendOrDrop(cs, Head(publish)) BY <1>8 DEF Published
  <2>5. \A c \in cs : IsFor(c, Head(publish)) BY <2>3, SentIsMeant
  <2>6. msgC' \in [Conns -> Seq(Messages)] /\ QueuedForItsUser' BY <2>2, <2>3, <2>4, <2>5, SendKeeps
  <2>7. QED BY <1>8, <2>2, <2>6 DEF Published, BrokerInv
<1>9. CASE KeepAlive
  <2>1. sendOrDrop(listeners, Greeting) /\ listeners \subseteq Conns BY <1>9 DEF KeepAlive, BrokerInv
  <2>2. msgC' \in [Conns -> Seq(Messages)] /\ QueuedForItsUser' BY <2>1, <1>0, SendKeeps
  <2>3. QED BY <1>9, <2>2 DEF KeepAlive, BrokerInv
<1>10. CASE UNCHANGED brokerVars BY <1>10 DEF brokerVars, BrokerInv, QueuedForItsUser
<1>11. QED BY <1>1, <1>2, <1>3, <1>4, <1>5, <1>6, <1>7, <1>8, <1>9, <1>10 DEF BrokerNext, listen

\* The safety part of EventsAreSpread, for any clients, users and queue lengths: no client's
\* queue ever holds the echo of its own request or another user's event (shouldSend).
THEOREM EventsReachTheirUser == BrokerSpec => []QueuedForItsUser
<1>1. BrokerInv => QueuedForItsUser BY DEF BrokerInv
<1>2. QED BY <1>1, BrokerInvInit, BrokerInvNext, PTL DEF BrokerSpec

-------------------------------------------------------------------------------
(* SongMatcher                                                                 *)
(* Places by their ranks *)

Under(S, i) == {j \in S : j < i}

LEMMA RankFacts ==
    ASSUME NEW S, IsFiniteSet(S), \A i \in S : i \in Int
    PROVE  /\ Cardinality(S) \in Nat
           /\ \A i \in S : Cardinality(Under(S, i)) \in 0..(Cardinality(S) - 1)
           /\ \A i, j \in S : Cardinality(Under(S, i)) = Cardinality(Under(S, j)) => i = j
<1>1. Cardinality(S) \in Nat BY FS_CardinalityType
<1>2. ASSUME NEW i \in S PROVE IsFiniteSet(Under(S, i)) /\ Cardinality(Under(S, i)) \in 0..(Cardinality(S) - 1)
  <2>1. Under(S, i) \subseteq S /\ i \notin Under(S, i) BY DEF Under
  <2>2. IsFiniteSet(Under(S, i)) /\ Cardinality(Under(S, i)) <= Cardinality(S) BY <2>1, FS_Subset
  <2>3. Cardinality(Under(S, i)) # Cardinality(S) BY <2>1, FS_Subset
  <2>4. Cardinality(Under(S, i)) \in Nat BY <2>2, FS_CardinalityType
  <2>5. QED BY <1>1, <2>2, <2>3, <2>4
<1>3. ASSUME NEW i \in S, NEW j \in S, i < j PROVE Cardinality(Under(S, i)) # Cardinality(Under(S, j))
  <2>1. Under(S, i) \subseteq Under(S, j) BY <1>3 DEF Under
  <2>2. i \in Under(S, j) /\ i \notin Under(S, i) BY <1>3 DEF Under
  <2>3. QED BY <1>2, <2>1, <2>2, FS_Subset
<1>4. ASSUME NEW i \in S, NEW j \in S, Cardinality(Under(S, i)) = Cardinality(Under(S, j)) PROVE i = j
  <2>1. i < j \/ j < i \/ i = j OBVIOUS
  <2>2. QED BY <1>3, <1>4, <2>1
<1>5. QED BY <1>1, <1>2, <1>4

\* Ranked lists a finite set of numbers, each once.
LEMMA RankedLists ==
    ASSUME NEW S, IsFiniteSet(S), \A i \in S : i \in Int
    PROVE  /\ \A n \in 1..Cardinality(S) : Ranked(S, n) \in S
           /\ \A n, k \in 1..Cardinality(S) : Ranked(S, n) = Ranked(S, k) => n = k
           /\ \A i \in S : \E n \in 1..Cardinality(S) : Ranked(S, n) = i
<1> DEFINE c == Cardinality(S)
           rank == [i \in S |-> Cardinality(Under(S, i)) + 1]
<1>1. c \in Nat BY RankFacts
<1>2. rank \in [S -> 1..c]
  <2>1. \A i \in S : Cardinality(Under(S, i)) + 1 \in 1..c BY <1>1, RankFacts
  <2>2. QED BY <2>1
<1>3. \A i, j \in S : rank[i] = rank[j] => i = j
  <2>1. \A i \in S : Cardinality(Under(S, i)) \in Int BY <1>1, RankFacts
  <2>2. \A i, j \in S : rank[i] = rank[j] => Cardinality(Under(S, i)) = Cardinality(Under(S, j)) BY <2>1
  <2>3. QED BY <2>2, RankFacts
<1>4. \A i \in S : rank[i] = Cardinality(Under(S, i)) + 1 /\ Cardinality(Under(S, i)) \in Int BY <1>1, RankFacts
<1> HIDE DEF rank
<1>5. rank \in Injection(S, 1..c) BY <1>2, <1>3 DEF Injection, IsInjective
<1>6. IsFiniteSet(1..c) /\ Cardinality(1..c) = c BY <1>1, FS_Interval
<1>7. rank \in Surjection(S, 1..c) BY <1>5, <1>6, FS_Injection
<1>8. ASSUME NEW n \in 1..c PROVE Ranked(S, n) \in S /\ rank[Ranked(S, n)] = n
  <2>1. PICK i \in S : rank[i] = n BY <1>7 DEF Surjection
  <2>2. Cardinality({j \in S : j < i}) = n - 1 BY <2>1, <1>4 DEF Under
  <2>3. Ranked(S, n) \in S /\ Cardinality({j \in S : j < Ranked(S, n)}) = n - 1 BY <2>2 DEF Ranked
  <2>4. QED BY <2>3, <1>4 DEF Under
<1>9. ASSUME NEW i \in S PROVE \E n \in 1..c : Ranked(S, n) = i
  <2>1. rank[i] \in 1..c BY <1>2
  <2>2. rank[Ranked(S, rank[i])] = rank[i] /\ Ranked(S, rank[i]) \in S BY <1>8, <2>1
  <2>3. Ranked(S, rank[i]) = i BY <1>3, <2>2
  <2>4. QED BY <2>1, <2>3
<1>10. QED BY <1>8, <1>9

-----------------------------------------------------------------------------
(* Tracks *)

LEMMA TracksAreNumbers == TrackIndex \subseteq Nat /\ IsFiniteSet(TrackIndex) /\ Present \subseteq TrackIndex /\ Nil \notin TrackIndex
<1>1. TrackIndex = 1..Len(Library) /\ Len(Library) \in Nat BY MatcherAssumption DEF MatcherAssumption, TrackIndex
<1>2. IsFiniteSet(1..Len(Library)) BY <1>1, FS_Interval
<1>3. QED BY <1>1, <1>2, MatcherAssumption DEF MatcherAssumption, Present

LEMMA LeastNumber == ASSUME NEW S, S \subseteq Nat, S # {} PROVE First(S) \in S /\ \A u \in S : First(S) <= u
<1>1. PICK x \in S : \A y \in S : ~(<<y, x>> \in OpToRel(<, Nat)) BY NatLessThanWellFounded, WFMin
<1>2. \A y \in S : ~(y < x) BY <1>1 DEF OpToRel
<1>3. \E t \in S : \A u \in S : t <= u BY <1>2
<1>4. QED BY <1>3 DEF First

\* What a query finds first is one of what it finds.
LEMMA FirstFound ==
    ASSUME NEW S, S \subseteq Present
    PROVE  /\ S = {} => First(S) = Nil
           /\ S # {} => First(S) \in S /\ First(S) # Nil
<1>1. S \subseteq Nat /\ Nil \notin S BY TracksAreNumbers
<1>2. S = {} => First(S) = Nil BY DEF First
<1>3. QED BY <1>1, <1>2, LeastNumber

IsScore(a) == DOMAIN a = 1..6 /\ \A k \in 1..6 : a[k] \in Int

LEMMA BetterIsOrder ==
    ASSUME NEW a, NEW b, NEW c, IsScore(a), IsScore(b), IsScore(c)
    PROVE  ~betterThan(a, a) /\ (betterThan(a, b) /\ betterThan(b, c) => betterThan(a, c))
<1>1. ~betterThan(a, a) BY DEF betterThan, IsScore
<1>2. ASSUME betterThan(a, b), betterThan(b, c) PROVE betterThan(a, c)
  <2>1. PICK k \in 1..6 : a[k] > b[k] /\ \A j \in 1..(k - 1) : a[j] = b[j] BY <1>2 DEF betterThan, IsScore
  <2>2. PICK l \in 1..6 : b[l] > c[l] /\ \A j \in 1..(l - 1) : b[j] = c[j] BY <1>2 DEF betterThan, IsScore
  <2> DEFINE m == Least(k, l)
  <2>3. m \in 1..6 /\ m <= k /\ m <= l /\ (m = k \/ m = l) BY DEF Least
  <2> HIDE DEF m
  <2>4. \A j \in 1..(m - 1) : j \in 1..(k - 1) /\ j \in 1..(l - 1) BY <2>3
  <2>5. \A j \in 1..(m - 1) : a[j] = c[j] BY <2>1, <2>2, <2>4
  <2>6. m < k => m \in 1..(k - 1) BY <2>3
  <2>7. m < l => m \in 1..(l - 1) BY <2>3
  <2>8. a[m] \in Int /\ b[m] \in Int /\ c[m] \in Int BY <2>3 DEF IsScore
  <2>9. a[m] >= b[m] /\ b[m] >= c[m] /\ (a[m] > b[m] \/ b[m] > c[m]) BY <2>1, <2>2, <2>3, <2>6, <2>7, <2>8
  <2>10. a[m] > c[m] BY <2>8, <2>9
  <2>11. QED BY <2>3, <2>5, <2>10 DEF betterThan, IsScore
<1>3. QED BY <1>1, <1>2

\* Among finitely many scores one is surpassed by none.
LEMMA BestExists ==
    ASSUME NEW S, IsFiniteSet(S), S # {}, NEW f, \A t \in S : IsScore(f[t])
    PROVE  \E t \in S : \A u \in S : ~betterThan(f[u], f[t])
<1> DEFINE Above(t) == {u \in S : betterThan(f[u], f[t])}
           count == [t \in S |-> Cardinality(Above(t))]
<1>1. \A t \in S : IsFiniteSet(Above(t)) /\ Cardinality(Above(t)) \in Nat
  <2> TAKE t \in S
  <2>1. Above(t) \subseteq S OBVIOUS
  <2>2. IsFiniteSet(Above(t)) BY <2>1, FS_Subset
  <2>3. QED BY <2>2, FS_CardinalityType
<1> DEFINE counts == {count[t] : t \in S}
<1>2. counts \subseteq Nat /\ counts # {} BY <1>1
<1>3. First(counts) \in counts /\ \A n \in counts : First(counts) <= n BY <1>2, LeastNumber
<1>4. PICK t \in S : count[t] = First(counts) BY <1>3
<1>5. ASSUME NEW u \in S, betterThan(f[u], f[t]) PROVE FALSE
  <2>1. u \in Above(t) BY <1>5
  <2>2. u \notin Above(u) BY BetterIsOrder
  <2>3. Above(u) \subseteq Above(t) BY <1>5, BetterIsOrder
  <2> HIDE DEF Above
  <2>4. Cardinality(Above(u)) <= Cardinality(Above(t)) /\ Cardinality(Above(u)) # Cardinality(Above(t)) BY <1>1, <2>1, <2>2, <2>3, FS_Subset
  <2>5. count[u] = Cardinality(Above(u)) /\ count[t] = Cardinality(Above(t)) OBVIOUS
  <2>6. count[t] <= count[u] BY <1>3, <1>4
  <2>7. QED BY <1>1, <2>4, <2>5, <2>6
<1>6. QED BY <1>5

-----------------------------------------------------------------------------
(* The best of the tracks with a close title *)

LEMMA GreatestOf == ASSUME NEW S, S \subseteq 0..5, S # {} PROVE (CHOOSE l \in S : \A x \in S : x <= l) \in S
<1> DEFINE T == {5 - x : x \in S}
<1>0. \A x \in S : x \in 0..5 /\ 5 - x \in Nat OBVIOUS
<1>1. T \subseteq Nat /\ T # {} BY <1>0
<1>2. First(T) \in T /\ \A n \in T : First(T) <= n BY <1>1, LeastNumber
<1>3. PICK l \in S : First(T) = 5 - l BY <1>2
<1>4. \A x \in S : 5 - l <= 5 - x BY <1>2, <1>3
<1>5. \A x \in S : x <= l BY <1>0, <1>4
<1>6. QED BY <1>5

LEMMA RatioType == ASSUME NEW a, NEW b PROVE similarityRatio(a, b) \in Nat
BY DEF similarityRatio

LEMMA LevelType == ASSUME NEW s, NEW t, NEW ids, Usable(s) # {} PROVE computeSpecificityLevel(s, t, ids) \in Int
<1> DEFINE track == Library[t]
           mbids == {a.mbid : a \in {a \in Artists : a.id \in ids /\ a.mbid # Nil}}
           albumOK == s.album # Nil /\ similarityRatio(track.album, s.album) >= Threshold
           identity(p) == (p.id # Nil /\ p.id \in ids) \/ (p.mbid # Nil /\ p.mbid \in mbids)
           byName(p) == p.name # Nil /\ track.artist = p.name
           Level(p) == IF identity(p) /\ s.albumMbid # Nil /\ track.albumMbid = s.albumMbid THEN 5
                       ELSE IF identity(p) /\ albumOK THEN 4 ELSE IF byName(p) /\ albumOK THEN 3
                       ELSE IF identity(p) THEN 2 ELSE IF byName(p) THEN 1 ELSE 0
           levels == {Level(s.artists[k]) : k \in Usable(s)}
<1>1. computeSpecificityLevel(s, t, ids) = CHOOSE l \in levels : \A x \in levels : x <= l BY DEF computeSpecificityLevel
<1> HIDE DEF albumOK, identity, byName
<1>2. \A k \in Usable(s) : Level(s.artists[k]) \in 0..5 OBVIOUS
<1> HIDE DEF Level
<1>3. levels \subseteq 0..5 /\ levels # {} BY <1>2
<1> HIDE DEF levels
<1>4. (CHOOSE l \in levels : \A x \in levels : x <= l) \in 0..5 BY <1>3, GreatestOf
<1> DEFINE top == CHOOSE l \in levels : \A x \in levels : x <= l
<1>5. computeSpecificityLevel(s, t, ids) = top /\ top \in 0..5 BY <1>1, <1>4
<1> HIDE DEF top
<1>6. QED BY <1>5

LEMMA ScoreType ==
    ASSUME NEW s, s.dur \in Nat, Usable(s) # {}, NEW t \in Present, NEW ids, ids \subseteq Library[t].credits
    PROVE  IsScore(Score(s, t, ids)) /\ Score(s, t, ids)[1] = similarityRatio(s.title, Library[t].title)
<1>1. similarityRatio(s.title, Library[t].title) \in Int /\ similarityRatio(s.album, Library[t].album) \in Int BY RatioType
<1>2. Library[t].dur \in Nat /\ IsFiniteSet(Library[t].credits) BY MatcherAssumption DEF MatcherAssumption, Present, TrackIndex
<1>3. Cardinality(ids) \in Int BY <1>2, FS_Subset, FS_CardinalityType
<1>4. durationProximity(s, t) \in Int BY <1>2 DEF durationProximity
<1>5. computeSpecificityLevel(s, t, ids) \in Int BY LevelType
<1>6. (IF Library[t].starred THEN 1 ELSE 0) \in Int /\ (IF s.album = Nil THEN 0 ELSE similarityRatio(s.album, Library[t].album)) \in Int BY <1>1
<1>7. QED BY <1>1, <1>3, <1>4, <1>5, <1>6 DEF Score, IsScore

Close(s, bucket) == {t \in DOMAIN bucket : similarityRatio(s.title, Library[t].title) >= Threshold}

LEMMA BestMatch ==
    ASSUME NEW s, s.dur \in Nat, Usable(s) # {}, NEW bucket, DOMAIN bucket \subseteq Present,
           \A t \in DOMAIN bucket : bucket[t] \subseteq Library[t].credits
    PROVE  /\ Close(s, bucket) = {} => findBestMatch(s, bucket) = Nil
           /\ Close(s, bucket) # {} =>
                /\ findBestMatch(s, bucket) \in Close(s, bucket)
                /\ \A u \in Close(s, bucket) :
                    similarityRatio(s.title, Library[u].title) <= similarityRatio(s.title, Library[findBestMatch(s, bucket)].title)
<1> DEFINE close == Close(s, bucket)
           best == {t \in close : \A u \in close : ~betterThan(Score(s, u, bucket[u]), Score(s, t, bucket[t]))}
           f == [t \in close |-> Score(s, t, bucket[t])]
<1>1. findBestMatch(s, bucket) = First(best) BY DEF findBestMatch, Close
<1>2. close \subseteq Present /\ best \subseteq Present /\ best \subseteq close BY DEF Close
<1>3. IsFiniteSet(close) BY <1>2, TracksAreNumbers, FS_Subset
<1>4. \A t \in close : IsScore(f[t]) /\ f[t][1] = similarityRatio(s.title, Library[t].title) BY <1>2, ScoreType DEF Close
<1>5. \A t, u \in close : betterThan(f[u], f[t]) <=> betterThan(Score(s, u, bucket[u]), Score(s, t, bucket[t])) OBVIOUS
<1> HIDE DEF f
<1>6. close # {} => \E t \in close : \A u \in close : ~betterThan(f[u], f[t]) BY <1>3, <1>4, BestExists
<1>7. close # {} => best # {} BY <1>5, <1>6
<1>8. close = {} => best = {} OBVIOUS
<1>9. \A t \in best : \A u \in close : f[u][1] <= f[t][1]
  <2> SUFFICES ASSUME NEW t \in best, NEW u \in close PROVE f[u][1] <= f[t][1] OBVIOUS
  <2>1. ~betterThan(f[u], f[t]) BY <1>2, <1>5
  <2>2. ~(f[u][1] > f[t][1]) BY <2>1, <1>2, <1>4 DEF betterThan, IsScore
  <2>3. QED BY <2>2, <1>2, <1>4 DEF IsScore
<1> HIDE DEF best
<1>10. CASE close = {} BY <1>1, <1>2, <1>8, <1>10, FirstFound
<1>11. CASE close # {}
  <2>1. First(best) \in best BY <1>2, <1>7, <1>11, FirstFound
  <2>2. First(best) \in close BY <2>1, <1>2
  <2>3. \A u \in close : similarityRatio(s.title, Library[u].title) <= similarityRatio(s.title, Library[First(best)].title)
    BY <2>1, <2>2, <1>4, <1>9
  <2>4. QED BY <1>1, <1>11, <2>2, <2>3
<1>12. QED BY <1>10, <1>11

-----------------------------------------------------------------------------
(* A song on its own *)

ById(s) == {t \in Present : s.id # Nil /\ Library[t].id = s.id}
ByMbid(s) == {t \in Present : s.mbid # Nil /\ Library[t].mbid = s.mbid}
ByIsrc(s) == {t \in Present : s.isrc # Nil /\ s.isrc \in Library[t].isrcs}
OwnedBy(s) ==
    {s.artists[k].id : k \in {k \in Usable(s) : s.artists[k].id # Nil}}
    \cup {a.id : a \in {a \in Artists : \E k \in Usable(s) :
            LET p == s.artists[k]
            IN  p.id = Nil /\ ((p.name # Nil /\ a.name = p.name) \/ (p.mbid # Nil /\ a.mbid = p.mbid))}}
BucketOf(s) == [t \in {t \in Present : Library[t].credits \cap OwnedBy(s) # {}} |-> Library[t].credits \cap OwnedBy(s)]
ExactlyAlone(s) ==
    IF ById(s) # {} THEN First(ById(s)) ELSE IF ByMbid(s) # {} THEN First(ByMbid(s))
    ELSE IF ByIsrc(s) # {} THEN First(ByIsrc(s)) ELSE Nil
Alone(s) == IF ExactlyAlone(s) = Nil /\ Usable(s) # {} THEN findBestMatch(s, BucketOf(s)) ELSE ExactlyAlone(s)

\* A batch is matched song by song: no phase lends a song what another one found.
LEMMA ExactSongBySong ==
    ASSUME NEW ss
    PROVE  DOMAIN ExactMatches(ss) = DOMAIN ss /\ \A i \in DOMAIN ss : ExactMatches(ss)[i] = ExactlyAlone(ss[i])
<1> DEFINE a == matchByID(ss, Nothing(ss))
           b == matchByMBID(ss, a)
           c == matchByISRC(ss, b)
<1>1. ExactMatches(ss) = c BY DEF ExactMatches
<1>2. DOMAIN c = DOMAIN ss BY DEF matchByISRC
<1>3. ASSUME NEW i \in DOMAIN ss PROVE c[i] = ExactlyAlone(ss[i])
  <2> DEFINE s == ss[i]
             First0 == {t \in Present : Library[t].id = s.id}
             First1 == {t \in Present : Library[t].mbid = s.mbid}
             First2 == {t \in Present : s.isrc \in Library[t].isrcs}
  <2>1. a[i] = IF s.id = Nil THEN Nil ELSE IF First(First0) = Nil THEN Nil ELSE First(First0) BY <1>3 DEF matchByID, Nothing
  <2>2. b[i] = IF a[i] # Nil \/ s.mbid = Nil THEN a[i] ELSE First(First1) BY <1>3 DEF matchByMBID
  <2>3. c[i] = IF b[i] # Nil \/ s.isrc = Nil THEN b[i] ELSE First(First2) BY <1>3 DEF matchByISRC
  <2>4. /\ ById(s) = IF s.id = Nil THEN {} ELSE First0
        /\ ByMbid(s) = IF s.mbid = Nil THEN {} ELSE First1
        /\ ByIsrc(s) = IF s.isrc = Nil THEN {} ELSE First2
    BY DEF ById, ByMbid, ByIsrc
  <2>5. First0 \subseteq Present /\ First1 \subseteq Present /\ First2 \subseteq Present OBVIOUS
  <2> HIDE DEF a, b, c, s, First0, First1, First2
  <2>6. a[i] = IF ById(s) # {} THEN First(ById(s)) ELSE Nil BY <2>1, <2>4, <2>5, FirstFound
  <2>7. a[i] = Nil <=> ById(s) = {} BY <2>6, <2>4, <2>5, FirstFound
  <2>8. b[i] = IF ById(s) # {} THEN First(ById(s)) ELSE IF ByMbid(s) # {} THEN First(ByMbid(s)) ELSE Nil
    BY <2>2, <2>4, <2>5, <2>6, <2>7, FirstFound
  <2>9. b[i] = Nil <=> ById(s) = {} /\ ByMbid(s) = {} BY <2>8, <2>4, <2>5, FirstFound
  <2>10. c[i] = IF b[i] # Nil THEN b[i] ELSE IF ByIsrc(s) # {} THEN First(ByIsrc(s)) ELSE Nil BY <2>3, <2>4, <2>5, FirstFound
  <2>11. c[i] = ExactlyAlone(s) BY <2>8, <2>9, <2>10 DEF ExactlyAlone
  <2>12. QED BY <2>11 DEF s
<1> HIDE DEF c
<1>4. QED BY <1>1, <1>2, <1>3

LEMMA SongBySong ==
    ASSUME NEW ss
    PROVE  DOMAIN resolveMatches(ss) = DOMAIN ss /\ \A i \in DOMAIN ss : resolveMatches(ss)[i] = Alone(ss[i])
<1> DEFINE m == ExactMatches(ss)
           queries == groupQueries(ss, m)
           owned == resolveArtists(ss, queries)
           buckets == bucketTracks(owned)
<1>1. resolveMatches(ss) = [i \in DOMAIN ss |-> IF i \in queries THEN findBestMatch(ss[i], buckets[i]) ELSE m[i]]
    BY DEF resolveMatches, matchByTitle
<1>2. ASSUME NEW i \in DOMAIN ss PROVE m[i] = ExactlyAlone(ss[i]) /\ (i \in queries <=> ExactlyAlone(ss[i]) = Nil /\ Usable(ss[i]) # {})
    BY <1>2, ExactSongBySong DEF groupQueries
<1>3. ASSUME NEW i \in queries PROVE buckets[i] = BucketOf(ss[i])
  <2>1. owned[i] = OwnedBy(ss[i]) BY <1>3 DEF resolveArtists, OwnedBy
  <2>2. DOMAIN owned = queries BY DEF resolveArtists
  <2>3. buckets[i] = [t \in {t \in Present : Library[t].credits \cap owned[i] # {}} |-> Library[t].credits \cap owned[i]]
      BY <1>3, <2>2 DEF bucketTracks
  <2>4. QED BY <2>1, <2>3 DEF BucketOf
<1> HIDE DEF queries, buckets, m
<1>4. QED BY <1>1, <1>2, <1>3 DEF Alone

LEMMA ExactIsTrack == ASSUME NEW s PROVE ExactlyAlone(s) \in Present \cup {Nil}
<1>1. ById(s) \subseteq Present /\ ByMbid(s) \subseteq Present /\ ByIsrc(s) \subseteq Present BY DEF ById, ByMbid, ByIsrc
<1>2. QED BY <1>1, FirstFound DEF ExactlyAlone

\* The tracks with a close title by an artist the song names.
ByTitle(s) == Close(s, BucketOf(s))

LEMMA BucketFacts == ASSUME NEW s PROVE DOMAIN BucketOf(s) \subseteq Present /\ \A t \in DOMAIN BucketOf(s) : BucketOf(s)[t] \subseteq Library[t].credits
BY DEF BucketOf

LEMMA AloneFacts ==
    ASSUME NEW s, s.dur \in Nat
    PROVE  /\ Alone(s) \in Present \cup {Nil}
           /\ ById(s) # {} => Alone(s) \in ById(s)
           /\ ById(s) = {} /\ ByMbid(s) # {} => Alone(s) \in ByMbid(s)
           /\ ById(s) = {} /\ ByMbid(s) = {} /\ ByIsrc(s) # {} => Alone(s) \in ByIsrc(s)
           /\ ById(s) = {} /\ ByMbid(s) = {} /\ ByIsrc(s) = {} =>
                /\ ByTitle(s) # {} =>
                    /\ Alone(s) \in ByTitle(s)
                    /\ \A u \in ByTitle(s) : similarityRatio(s.title, Library[u].title) <= similarityRatio(s.title, Library[Alone(s)].title)
                /\ ByTitle(s) = {} => Alone(s) = Nil
<1>1. ById(s) \subseteq Present /\ ByMbid(s) \subseteq Present /\ ByIsrc(s) \subseteq Present BY DEF ById, ByMbid, ByIsrc
<1>2. CASE ById(s) # {} \/ ByMbid(s) # {} \/ ByIsrc(s) # {}
  <2>1. ExactlyAlone(s) # Nil /\ Alone(s) = ExactlyAlone(s) BY <1>1, <1>2, FirstFound DEF ExactlyAlone, Alone
  <2>2. QED BY <1>1, <1>2, <2>1, FirstFound DEF ExactlyAlone
<1>3. CASE ById(s) = {} /\ ByMbid(s) = {} /\ ByIsrc(s) = {}
  <2>1. ExactlyAlone(s) = Nil BY <1>3 DEF ExactlyAlone
  <2>2. CASE Usable(s) = {}
    <3>1. OwnedBy(s) = {} BY <2>2 DEF OwnedBy
    <3>2. ByTitle(s) = {} BY <3>1 DEF ByTitle, Close, BucketOf
    <3>3. Alone(s) = Nil BY <2>1, <2>2 DEF Alone
    <3>4. QED BY <1>3, <3>2, <3>3
  <2>3. CASE Usable(s) # {}
    <3>1. Alone(s) = findBestMatch(s, BucketOf(s)) BY <2>1, <2>3 DEF Alone
    <3>2. ByTitle(s) \subseteq Present BY BucketFacts DEF ByTitle, Close
    <3>3. /\ Close(s, BucketOf(s)) = {} => findBestMatch(s, BucketOf(s)) = Nil
          /\ Close(s, BucketOf(s)) # {} =>
                /\ findBestMatch(s, BucketOf(s)) \in Close(s, BucketOf(s))
                /\ \A u \in Close(s, BucketOf(s)) :
                    similarityRatio(s.title, Library[u].title) <= similarityRatio(s.title, Library[findBestMatch(s, BucketOf(s))].title)
      BY <2>3, BucketFacts, BestMatch
    <3>4. QED BY <1>3, <3>1, <3>2, <3>3 DEF ByTitle
  <2>4. QED BY <2>2, <2>3
<1>4. QED BY <1>2, <1>3

LEMMA AloneIsMeant == ASSUME NEW s, s.dur \in Nat PROVE MeantFor(s, Alone(s))
<1> DEFINE Credited(u, k) == \E a \in Library[u].credits :
                IF s.artists[k].id # Nil THEN a = s.artists[k].id
                ELSE \E r \in Artists : r.id = a /\ ((s.artists[k].name # Nil /\ r.name = s.artists[k].name) \/ (s.artists[k].mbid # Nil /\ r.mbid = s.artists[k].mbid))
           byTitle == {u \in Present : similarityRatio(s.title, Library[u].title) >= Threshold /\ \E k \in DOMAIN s.artists : Credited(u, k)}
<1>1. \A u \in Present : (\E k \in DOMAIN s.artists : Credited(u, k)) <=> Library[u].credits \cap OwnedBy(s) # {}
  <2> SUFFICES ASSUME NEW u \in Present PROVE (\E k \in DOMAIN s.artists : Credited(u, k)) <=> Library[u].credits \cap OwnedBy(s) # {} OBVIOUS
  <2>1. ASSUME NEW k \in DOMAIN s.artists, Credited(u, k) PROVE Library[u].credits \cap OwnedBy(s) # {}
    <3>1. PICK a \in Library[u].credits :
              IF s.artists[k].id # Nil THEN a = s.artists[k].id
              ELSE \E r \in Artists : r.id = a /\ ((s.artists[k].name # Nil /\ r.name = s.artists[k].name) \/ (s.artists[k].mbid # Nil /\ r.mbid = s.artists[k].mbid))
      BY <2>1
    <3>2. k \in Usable(s) BY <3>1 DEF Usable
    <3>3. a \in OwnedBy(s) BY <3>1, <3>2 DEF OwnedBy
    <3>4. QED BY <3>1, <3>3
  <2>2. ASSUME NEW a \in Library[u].credits, a \in OwnedBy(s) PROVE \E k \in DOMAIN s.artists : Credited(u, k)
    <3>1. CASE \E k \in Usable(s) : s.artists[k].id # Nil /\ a = s.artists[k].id BY <3>1 DEF Usable
    <3>2. CASE \E r \in Artists : a = r.id /\ \E k \in Usable(s) :
                  s.artists[k].id = Nil /\ ((s.artists[k].name # Nil /\ r.name = s.artists[k].name) \/ (s.artists[k].mbid # Nil /\ r.mbid = s.artists[k].mbid))
      BY <3>2 DEF Usable
    <3>3. QED BY <2>2, <3>1, <3>2 DEF OwnedBy
  <2>3. QED BY <2>1, <2>2
<1> HIDE DEF Credited
<1>2. byTitle = ByTitle(s) BY <1>1 DEF ByTitle, Close, BucketOf
<1> DEFINE Closest(u) == \A v \in byTitle : similarityRatio(s.title, Library[v].title) <= similarityRatio(s.title, Library[u].title)
<1>3. MeantFor(s, Alone(s)) <=>
        IF ById(s) # {} THEN Alone(s) \in ById(s) ELSE IF ByMbid(s) # {} THEN Alone(s) \in ByMbid(s)
        ELSE IF ByIsrc(s) # {} THEN Alone(s) \in ByIsrc(s)
        ELSE IF byTitle # {} THEN Alone(s) \in byTitle /\ Closest(Alone(s)) ELSE Alone(s) = Nil
    BY DEF MeantFor, ById, ByMbid, ByIsrc, Credited
<1> HIDE DEF byTitle
<1>4. QED BY <1>2, <1>3, AloneFacts

-----------------------------------------------------------------------------
(* Lists of tracks *)

RangeOf(x) == {x[i] : i \in DOMAIN x}

\* Every value of a list has a first place.
LEMMA FirstPlace ==
    ASSUME NEW x, Len(x) \in Nat, DOMAIN x = 1..Len(x), NEW i \in DOMAIN x
    PROVE  \E j \in DOMAIN x : x[j] = x[i] /\ \A k \in 1..(j - 1) : x[k] # x[i]
<1> DEFINE S == {j \in DOMAIN x : x[j] = x[i]}
<1>1. S \subseteq Nat /\ S # {} OBVIOUS
<1>2. First(S) \in S /\ \A u \in S : First(S) <= u BY <1>1, LeastNumber
<1>3. \A k \in 1..(First(S) - 1) : k \in DOMAIN x /\ ~(First(S) <= k) BY <1>2
<1>4. QED BY <1>2, <1>3

LEMMA DedupLists ==
    ASSUME NEW S, NEW x \in Seq(S)
    PROVE  /\ dedupByID(x) \in Seq(S) /\ RangeOf(dedupByID(x)) = RangeOf(x)
           /\ Len(dedupByID(x)) = Cardinality(RangeOf(x))
           /\ \A n, k \in DOMAIN dedupByID(x) : dedupByID(x)[n] = dedupByID(x)[k] => n = k
<1> DEFINE firsts == {i \in DOMAIN x : \A j \in 1..(i - 1) : x[j] # x[i]}
           c == Cardinality(firsts)
           d == [n \in 1..c |-> x[Ranked(firsts, n)]]
           f == [i \in firsts |-> x[i]]
<1>1. dedupByID(x) = d BY DEF dedupByID
<1>2. DOMAIN x = 1..Len(x) /\ Len(x) \in Nat /\ \A i \in DOMAIN x : x[i] \in S OBVIOUS
<1>3. firsts \subseteq 1..Len(x) /\ IsFiniteSet(1..Len(x)) BY <1>2, FS_Interval
<1>4. IsFiniteSet(firsts) /\ \A i \in firsts : i \in Int BY <1>3, FS_Subset
<1>5. \A i, j \in firsts : x[i] = x[j] => i = j
  <2> SUFFICES ASSUME NEW i \in firsts, NEW j \in firsts, x[i] = x[j], i < j PROVE FALSE BY <1>4
  <2>1. i \in 1..(j - 1) BY <1>3
  <2>2. QED BY <2>1
<1>6. ASSUME NEW v \in RangeOf(x) PROVE \E i \in firsts : x[i] = v
  <2>1. PICK k \in DOMAIN x : v = x[k] BY DEF RangeOf
  <2>2. PICK j \in DOMAIN x : x[j] = x[k] /\ \A h \in 1..(j - 1) : x[h] # x[k] BY <1>2, FirstPlace
  <2>3. j \in firsts BY <2>2
  <2>4. QED BY <2>1, <2>2, <2>3
<1>7. \A i \in firsts : x[i] \in RangeOf(x) /\ x[i] \in S BY <1>2 DEF RangeOf
<1> HIDE DEF firsts
<1>8. f \in Bijection(firsts, RangeOf(x)) BY <1>5, <1>6, <1>7 DEF Bijection, Injection, Surjection, IsInjective
<1>9. Cardinality(RangeOf(x)) = c BY <1>4, <1>8, FS_Bijection DEF ExistsBijection
<1>10. c \in Nat BY <1>4, FS_CardinalityType
<1>11. /\ \A n \in 1..c : Ranked(firsts, n) \in firsts
       /\ \A n, k \in 1..c : Ranked(firsts, n) = Ranked(firsts, k) => n = k
       /\ \A i \in firsts : \E n \in 1..c : Ranked(firsts, n) = i
    BY <1>4, RankedLists
<1> HIDE DEF c
<1>12. d \in Seq(S) /\ Len(d) = c /\ DOMAIN d = 1..c BY <1>7, <1>10, <1>11
<1>13. \A n \in 1..c : d[n] = x[Ranked(firsts, n)] OBVIOUS
<1> HIDE DEF d
<1>14. RangeOf(d) \subseteq RangeOf(x) BY <1>7, <1>11, <1>12, <1>13 DEF RangeOf
<1>15. ASSUME NEW v \in RangeOf(x) PROVE v \in RangeOf(d)
  <2>1. PICK i \in firsts : x[i] = v BY <1>6
  <2>2. PICK n \in 1..c : Ranked(firsts, n) = i BY <1>11
  <2>3. QED BY <2>1, <2>2, <1>12, <1>13 DEF RangeOf
<1>16. \A n, k \in DOMAIN d : d[n] = d[k] => n = k BY <1>5, <1>11, <1>12, <1>13
<1>17. QED BY <1>1, <1>9, <1>12, <1>14, <1>15, <1>16

LEMMA ListingLists ==
    ASSUME NEW S, IsFiniteSet(S), S \subseteq Nat
    PROVE  Listing(S) \in Seq(S) /\ RangeOf(Listing(S)) = S
<1>0. \A i \in S : i \in Int OBVIOUS
<1>1. /\ Cardinality(S) \in Nat
      /\ \A n \in 1..Cardinality(S) : Ranked(S, n) \in S
      /\ \A i \in S : \E n \in 1..Cardinality(S) : Ranked(S, n) = i
    BY <1>0, RankedLists, FS_CardinalityType
<1>2. DOMAIN Listing(S) = 1..Cardinality(S) /\ \A n \in 1..Cardinality(S) : Listing(S)[n] = Ranked(S, n) BY DEF Listing
<1>3. Listing(S) \in Seq(S) BY <1>1 DEF Listing
<1>4. QED BY <1>1, <1>2, <1>3 DEF RangeOf

LEMMA OrderAndDedupLists ==
    ASSUME NEW ss, Len(ss) \in Nat, DOMAIN ss = 1..Len(ss), NEW m, DOMAIN m = DOMAIN ss, NEW count \in Nat
    PROVE  /\ orderAndDedup(ss, m, count) \in Seq(Values(m)) /\ RangeOf(orderAndDedup(ss, m, count)) \subseteq Values(m)
           /\ count = Len(ss) => RangeOf(orderAndDedup(ss, m, count)) = Values(m)
<1> DEFINE L == Len(ss)
<1>0. L \in Nat /\ DOMAIN ss = 1..L OBVIOUS
<1> HIDE DEF L
<1> DEFINE FirstFor(t) == First({j \in DOMAIN ss : m[j] = t})
           chosen == {i \in DOMAIN ss : m[i] # Nil /\ ss[FirstFor(m[i])] = ss[i]}
           c == Cardinality(chosen)
           l == Least(count, c)
           d == [n \in 1..l |-> m[Ranked(chosen, n)]]
<1>1. orderAndDedup(ss, m, count) = d BY DEF orderAndDedup
<1>2. ASSUME NEW i \in DOMAIN ss PROVE FirstFor(m[i]) \in DOMAIN ss /\ m[FirstFor(m[i])] = m[i]
  <2>1. {j \in DOMAIN ss : m[j] = m[i]} \subseteq Nat /\ {j \in DOMAIN ss : m[j] = m[i]} # {} BY <1>0
  <2>2. QED BY <2>1, LeastNumber
<1> HIDE DEF FirstFor
<1>3. \A v \in Values(m) : \E i \in chosen : m[i] = v
  <2> SUFFICES ASSUME NEW v \in Values(m) PROVE \E i \in chosen : m[i] = v OBVIOUS
  <2>1. PICK i \in DOMAIN ss : m[i] = v /\ v # Nil BY DEF Values
  <2>2. FirstFor(v) \in DOMAIN ss /\ m[FirstFor(v)] = v BY <1>2, <2>1
  <2>3. FirstFor(v) \in chosen BY <2>1, <2>2
  <2>4. QED BY <2>2, <2>3
<1>4. \A i \in chosen : m[i] \in Values(m) BY DEF Values
<1>5. chosen \subseteq 1..L /\ IsFiniteSet(1..L) /\ Cardinality(1..L) = L
  <2>1. chosen \subseteq 1..L BY <1>0
  <2> HIDE DEF chosen
  <2>2. IsFiniteSet(1..L) /\ Cardinality(1..L) = IF 1 > L THEN 0 ELSE L - 1 + 1 BY <1>0, FS_Interval
  <2>3. Cardinality(1..L) = L BY <1>0, <2>2
  <2>4. QED BY <2>1, <2>2, <2>3
<1>6. IsFiniteSet(chosen) /\ c <= L /\ (\A i \in chosen : i \in Int)
  <2> HIDE DEF chosen
  <2>1. IsFiniteSet(chosen) /\ Cardinality(chosen) <= Cardinality(1..L) BY <1>5, FS_Subset
  <2>2. \A i \in chosen : i \in Int BY <1>5
  <2>3. QED BY <1>5, <2>1, <2>2
<1>7. c \in Nat BY <1>6, FS_CardinalityType
<1> HIDE DEF chosen
<1>8. /\ \A n \in 1..c : Ranked(chosen, n) \in chosen
      /\ \A i \in chosen : \E n \in 1..c : Ranked(chosen, n) = i
    BY <1>6, RankedLists
<1> HIDE DEF c
<1>9. l \in Nat /\ l <= c /\ (count = L => l = c) 
  <2>1. c \in Nat /\ count \in Nat /\ c <= L /\ L \in Nat BY <1>0, <1>6, <1>7
  <2>2. QED BY <2>1 DEF Least
<1> HIDE DEF l
<1>10. \A n \in 1..l : n \in 1..c /\ m[Ranked(chosen, n)] \in Values(m)
  <2>1. \A n \in 1..l : n \in 1..c BY <1>7, <1>9
  <2>2. QED BY <1>4, <1>8, <2>1
<1>11. d \in Seq(Values(m)) /\ DOMAIN d = 1..l /\ \A n \in 1..l : d[n] = m[Ranked(chosen, n)] BY <1>9, <1>10
<1> HIDE DEF d
<1>12. RangeOf(d) \subseteq Values(m) BY <1>10, <1>11 DEF RangeOf
<1>13. ASSUME count = L, NEW v \in Values(m) PROVE v \in RangeOf(d)
  <2>1. PICK i \in chosen : m[i] = v BY <1>3
  <2>2. PICK n \in 1..c : Ranked(chosen, n) = i BY <1>8
  <2>3. QED BY <1>9, <1>11, <1>13, <2>1, <2>2 DEF RangeOf
<1>14. QED BY <1>1, <1>11, <1>12, <1>13 DEF L

-----------------------------------------------------------------------------
(* Mixes *)

Full(r, o) == RangeOf(r) = o \/ Cardinality(RangeOf(r)) >= wish.count

MixInv ==
    /\ wish.count \in Nat \ {0} /\ matchFaults \in Nat
    /\ offered \subseteq Present /\ res \in Seq(Present) /\ RangeOf(res) \subseteq offered
    /\ step \in {"ask", "match"} => res = <<>> /\ offered = {} /\ match = <<>>
    /\ step = "match" => songs \in Batches
    /\ step = "topup" => wish.kind # "top" /\ Full(res, offered)
    /\ MixIsAsRecommended

LEMMA BatchFacts ==
    ASSUME NEW b \in Batches \cup SeedBatches
    PROVE  /\ Len(b) \in Nat /\ DOMAIN b = 1..Len(b) /\ \A i \in DOMAIN b : b[i].dur \in Nat
           /\ DOMAIN ExactMatches(b) = DOMAIN b /\ Values(ExactMatches(b)) \subseteq Present
           /\ DOMAIN resolveMatches(b) = DOMAIN b /\ Values(resolveMatches(b)) \subseteq Present
<1>1. Len(b) \in Nat /\ DOMAIN b = 1..Len(b) /\ \A i \in DOMAIN b : b[i].dur \in Nat
    BY MatcherAssumption DEF MatcherAssumption
<1>2. DOMAIN ExactMatches(b) = DOMAIN b /\ Values(ExactMatches(b)) \subseteq Present
    BY ExactSongBySong, ExactIsTrack DEF Values
<1>3. DOMAIN resolveMatches(b) = DOMAIN b /\ Values(resolveMatches(b)) \subseteq Present
    BY <1>1, SongBySong, AloneFacts DEF Values
<1>4. QED BY <1>1, <1>2, <1>3

LEMMA EmptyList == <<>> \in Seq(Present) /\ RangeOf(<<>>) = {} /\ Len(<<>>) = 0 /\ DOMAIN <<>> = {}
BY DEF RangeOf

LEMMA FiniteTracks == ASSUME NEW S, S \subseteq Present PROVE IsFiniteSet(S) /\ Cardinality(S) \in Nat /\ S \subseteq Nat
BY TracksAreNumbers, FS_Subset, FS_CardinalityType

LEMMA MixInvInit == MatcherInit => MixInv
<1> SUFFICES ASSUME MatcherInit PROVE MixInv OBVIOUS
<1>1. wish.count \in Nat \ {0} BY MatcherAssumption DEF MatcherInit, MatcherAssumption
<1>2. matchFaults = 0 /\ offered = {} /\ res = <<>> /\ match = <<>> /\ step = "ask" BY DEF MatcherInit
<1>3. MixIsAsRecommended BY <1>2 DEF MixIsAsRecommended, MatchedOnItsOwn, MixIsFull
<1>4. QED BY <1>1, <1>2, <1>3, EmptyList DEF MixInv

LEMMA AskAgentKeeps == ASSUME MixInv, AskAgent PROVE MixInv'
<1>1. /\ wish' = wish /\ res' = res /\ offered' = offered /\ match' = match
      /\ res = <<>> /\ offered = {} /\ match = <<>> /\ wish.count \in Nat \ {0} /\ matchFaults \in Nat
      /\ matchFaults' \in Nat
    BY MatcherAssumption DEF AskAgent, MixInv, MatchFault, MatcherAssumption
<1>2. \/ step' = "match" /\ songs' \in Batches
      \/ step' = "failed"
      \/ step' = "topup" /\ wish.kind # "top"
  <2>1. CASE \E b \in Batches : songs' = b /\ step' = "match" BY <2>1
  <2>2. CASE step' = IF wish.kind = "top" THEN "failed" ELSE "topup" BY <2>2
  <2>3. QED BY <2>1, <2>2 DEF AskAgent
<1>3. MixIsAsRecommended' BY <1>1, <1>2, EmptyList DEF MixIsAsRecommended, MatchedOnItsOwn, MixIsFull
<1>4. QED BY <1>1, <1>2, <1>3, EmptyList DEF MixInv, Full

LEMMA MatchSongsKeeps == ASSUME MixInv, MatchSongs PROVE MixInv'
<1>1. /\ songs \in Batches /\ wish.count \in Nat \ {0} /\ matchFaults \in Nat /\ step = "match" /\ wish' = wish /\ songs' = songs
      /\ res = <<>> /\ offered = {} /\ match = <<>>
    BY DEF MatchSongs, MixInv
<1> DEFINE count == IF wish.kind = "top" THEN wish.count ELSE Len(songs)
<1>2. Len(songs) \in Nat /\ count \in Nat BY <1>1, BatchFacts
<1>3. CASE step' = "failed" /\ UNCHANGED <<match, offered, res>> /\ MatchFault
  <2>1. matchFaults' \in Nat BY <1>1, <1>3 DEF MatchFault
  <2>2. MixIsAsRecommended' BY <1>3 DEF MixIsAsRecommended, MatchedOnItsOwn, MixIsFull
  <2>3. QED BY <1>1, <1>3, <2>1, <2>2, EmptyList DEF MixInv
<1>4. ASSUME NEW m, m \in {resolveMatches(songs), ExactMatches(songs)}, match' = m, offered' = Values(m),
             res' = orderAndDedup(songs, m, count), step' = IF wish.kind = "top" THEN "done" ELSE "topup",
             matchFaults' \in Nat, m = resolveMatches(songs) \/ matchFaults' # 0
      PROVE  MixInv'
  <2>1. DOMAIN m = DOMAIN songs /\ Values(m) \subseteq Present BY <1>1, <1>4, BatchFacts
  <2>2. DOMAIN songs = 1..Len(songs) BY <1>1, BatchFacts
  <2>3. /\ res' \in Seq(Values(m)) /\ RangeOf(res') \subseteq Values(m)
        /\ count = Len(songs) => RangeOf(res') = Values(m)
    BY <1>2, <1>4, <2>1, <2>2, OrderAndDedupLists
  <2> HIDE DEF count
  <2>4. res' \in Seq(Present) BY <2>1, <2>3
  <2>5. step' = "topup" => wish.kind # "top" /\ RangeOf(res') = offered' BY <1>4, <2>3 DEF count
  <2>6. MatchedOnItsOwn'
    <3> SUFFICES ASSUME matchFaults' = 0, NEW i \in DOMAIN match'
                 PROVE  MeantFor(songs[i], match'[i]) /\ match'[i] = resolveMatches(<<songs[i]>>)[1]
      BY <1>1 DEF MatchedOnItsOwn
    <3>1. m = resolveMatches(songs) /\ i \in DOMAIN songs /\ match' = m BY <1>4, <2>1
    <3>2. match'[i] = Alone(songs[i]) BY <3>1, SongBySong
    <3>3. songs[i].dur \in Nat BY <1>1, <3>1, BatchFacts
    <3>4. DOMAIN <<songs[i]>> = {1} /\ <<songs[i]>>[1] = songs[i] OBVIOUS
    <3>5. resolveMatches(<<songs[i]>>)[1] = Alone(songs[i]) BY <3>4, SongBySong
    <3>6. QED BY <3>2, <3>3, <3>5, AloneIsMeant
  <2>7. MixIsFull' BY <1>1, <1>4 DEF MixIsFull
  <2>8. QED BY <1>1, <1>4, <2>1, <2>3, <2>4, <2>5, <2>6, <2>7 DEF MixInv, Full, MixIsAsRecommended
<1>5. CASE match' = Matched(FALSE) /\ matchFaults' = matchFaults /\ offered' = Values(match')
           /\ res' = orderAndDedup(songs, match', count) /\ step' = IF wish.kind = "top" THEN "done" ELSE "topup"
  <2>1. match' = resolveMatches(songs) BY <1>5 DEF Matched
  <2>2. QED BY <1>1, <1>4, <1>5, <2>1
<1>6. CASE match' = Matched(TRUE) /\ MatchFault /\ offered' = Values(match')
           /\ res' = orderAndDedup(songs, match', count) /\ step' = IF wish.kind = "top" THEN "done" ELSE "topup"
  <2>1. match' = ExactMatches(songs) BY <1>6 DEF Matched
  <2>2. matchFaults' \in Nat /\ matchFaults' # 0 BY <1>1, <1>6 DEF MatchFault
  <2>3. QED BY <1>4, <1>6, <2>1, <2>2
<1>7. QED BY <1>3, <1>5, <1>6 DEF MatchSongs

\* A source that is drawn on gives all it offers or as much as was asked for.
LEMMA DrawKeeps ==
    ASSUME MixInv, Short, NEW all, all \subseteq Present, NEW pick \in SUBSET all,
           Cardinality(pick) = Least(wish.count, Cardinality(all)), Draw(Listing(pick), all), UNCHANGED <<wish, matchFaults>>
    PROVE  MixInv'
<1>1. /\ wish.count \in Nat \ {0} /\ matchFaults \in Nat /\ offered \subseteq Present /\ res \in Seq(Present) /\ RangeOf(res) \subseteq offered
      /\ wish' = wish /\ matchFaults' = matchFaults
    BY DEF MixInv
<1>2. /\ res' = dedupByID(res \o Listing(pick)) /\ offered' = offered \cup all /\ step' = "topup" /\ songs' = <<>> /\ match' = <<>>
    BY DEF Draw
<1>3. wish.kind # "top" /\ Full(res, offered) BY EmptyList DEF Short, MixInv, Full
<1>4. Listing(pick) \in Seq(pick) /\ RangeOf(Listing(pick)) = pick BY FiniteTracks, ListingLists
<1>5. res \o Listing(pick) \in Seq(Present) /\ RangeOf(res \o Listing(pick)) = RangeOf(res) \cup pick
  <2> DEFINE l == Listing(pick)
  <2>1. l \in Seq(Present) BY <1>4
  <2> HIDE DEF l
  <2>2. /\ res \o l \in Seq(Present) /\ DOMAIN (res \o l) = 1..(Len(res) + Len(l)) /\ Len(res) \in Nat /\ Len(l) \in Nat
        /\ DOMAIN res = 1..Len(res) /\ DOMAIN l = 1..Len(l)
        /\ \A i \in 1..Len(res) : (res \o l)[i] = res[i]
        /\ \A i \in 1..Len(l) : (res \o l)[Len(res) + i] = l[i]
    BY <1>1, <2>1
  <2> DEFINE x == res \o l
  <2> HIDE DEF x
  <2>3. ASSUME NEW i \in DOMAIN x PROVE x[i] \in RangeOf(res) \cup RangeOf(l)
    <3>1. CASE i \in 1..Len(res) BY <2>2, <3>1 DEF RangeOf, x
    <3>2. CASE i \notin 1..Len(res)
      <4>1. i - Len(res) \in 1..Len(l) /\ i = Len(res) + (i - Len(res)) BY <2>2, <2>3, <3>2 DEF x
      <4>2. x[i] = l[i - Len(res)] BY <2>2, <4>1 DEF x
      <4>3. QED BY <2>2, <4>1, <4>2 DEF RangeOf
    <3>3. QED BY <3>1, <3>2
  <2>4. ASSUME NEW i \in DOMAIN res PROVE res[i] \in RangeOf(x)
    <3>1. i \in DOMAIN x /\ x[i] = res[i] BY <2>2, <2>4 DEF x
    <3>2. QED BY <3>1 DEF RangeOf
  <2>5. ASSUME NEW i \in DOMAIN l PROVE l[i] \in RangeOf(x)
    <3>1. Len(res) + i \in DOMAIN x /\ x[Len(res) + i] = l[i] BY <2>2, <2>5 DEF x
    <3>2. QED BY <3>1 DEF RangeOf
  <2>6. RangeOf(x) = RangeOf(res) \cup RangeOf(l) BY <2>3, <2>4, <2>5 DEF RangeOf
  <2>7. QED BY <1>4, <2>2, <2>6 DEF x, l
<1>6. res' \in Seq(Present) /\ RangeOf(res') = RangeOf(res) \cup pick BY <1>2, <1>5, DedupLists
<1>7. RangeOf(res') \subseteq offered' /\ offered' \subseteq Present BY <1>1, <1>2, <1>6
<1>8. Len(dedupByID(res)) < wish.count /\ Len(dedupByID(res)) = Cardinality(RangeOf(res)) BY <1>1, DedupLists DEF Short
<1>9. RangeOf(res) = offered BY <1>1, <1>3, <1>8, FiniteTracks DEF Full
<1>10. Cardinality(all) \in Nat /\ IsFiniteSet(all) BY FiniteTracks
<1>11. CASE Cardinality(all) <= wish.count
  <2>1. Cardinality(pick) = Cardinality(all) BY <1>1, <1>10, <1>11 DEF Least
  <2>2. pick = all BY <1>10, <2>1, FS_Subset
  <2>3. RangeOf(res') = offered' BY <1>2, <1>6, <1>9, <2>2
  <2>4. QED BY <1>1, <1>2, <1>3, <1>6, <1>7, <2>3, EmptyList DEF MixInv, Full, MixIsAsRecommended, MatchedOnItsOwn, MixIsFull
<1>12. CASE ~(Cardinality(all) <= wish.count)
  <2>1. Cardinality(pick) = wish.count BY <1>1, <1>10, <1>12 DEF Least
  <2>2. IsFiniteSet(RangeOf(res')) /\ Cardinality(RangeOf(res')) \in Nat BY <1>7, FiniteTracks
  <2>3. Cardinality(pick) <= Cardinality(RangeOf(res')) BY <1>6, <2>2, FS_Subset
  <2>4. Cardinality(RangeOf(res')) >= wish.count BY <1>1, <2>1, <2>2, <2>3
  <2>5. QED BY <1>1, <1>2, <1>3, <1>6, <1>7, <2>4, EmptyList DEF MixInv, Full, MixIsAsRecommended, MatchedOnItsOwn, MixIsFull
<1>13. QED BY <1>1, <1>10, <1>11, <1>12

LEMMA OffersArePresent == \A S \in Offers : S \subseteq Present
BY BatchFacts DEF Offers

LEMMA SeedMixKeeps == ASSUME MixInv, seedMix PROVE MixInv'
<1>1. PICK seeds \in SUBSET Present, found \in Offers :
        LET all == IF found = {} THEN seeds ELSE found
        IN  seeds # {} /\ \E pick \in SUBSET all : Cardinality(pick) = Least(wish.count, Cardinality(all)) /\ Draw(Listing(pick), all)
    BY DEF seedMix
<1> DEFINE all == IF found = {} THEN seeds ELSE found
<1>2. all \subseteq Present BY OffersArePresent
<1> HIDE DEF all
<1>3. PICK pick \in SUBSET all : Cardinality(pick) = Least(wish.count, Cardinality(all)) /\ Draw(Listing(pick), all) BY <1>1 DEF all
<1>4. Short /\ UNCHANGED <<wish, matchFaults>> BY DEF seedMix
<1>5. QED BY <1>2, <1>3, <1>4, DrawKeeps

LEMMA FallbackKeeps == ASSUME MixInv, similarSongsFallback PROVE MixInv'
<1>1. PICK mine \in Offers, others \in Offers :
        LET all == mine \cup others
        IN  \E pick \in SUBSET all : Cardinality(pick) = Least(wish.count, Cardinality(all)) /\ Draw(Listing(pick), all)
    BY DEF similarSongsFallback
<1> DEFINE all == mine \cup others
<1>2. all \subseteq Present BY OffersArePresent
<1> HIDE DEF all
<1>3. PICK pick \in SUBSET all : Cardinality(pick) = Least(wish.count, Cardinality(all)) /\ Draw(Listing(pick), all) BY <1>1 DEF all
<1>4. Short /\ UNCHANGED <<wish, matchFaults>> BY DEF similarSongsFallback
<1>5. QED BY <1>2, <1>3, <1>4, DrawKeeps

LEMMA SourceFailsKeeps == ASSUME MixInv, SourceFails PROVE MixInv'
<1>1. /\ wish' = wish /\ songs' = songs /\ match' = match /\ res' = res /\ offered' = offered /\ step' = "topup"
      /\ matchFaults \in Nat /\ matchFaults' = matchFaults + 1
    BY DEF SourceFails, MixInv, MatchFault
<1>2. wish.kind # "top" /\ Full(res, offered) BY EmptyList DEF SourceFails, Short, MixInv, Full
<1>3. MixIsAsRecommended' BY <1>1 DEF MixIsAsRecommended, MatchedOnItsOwn, MixIsFull
<1>4. QED BY <1>1, <1>2, <1>3 DEF MixInv, Full

LEMMA TopUpKeeps == ASSUME MixInv, topUp PROVE MixInv'
<1> DEFINE d == dedupByID(res)
           n == Least(wish.count, Len(d))
<1>1. /\ wish.count \in Nat \ {0} /\ matchFaults \in Nat /\ offered \subseteq Present /\ res \in Seq(Present) /\ RangeOf(res) \subseteq offered
      /\ Full(res, offered)
    BY DEF MixInv, topUp
<1>2. /\ wish' = wish /\ matchFaults' = matchFaults /\ offered' = offered /\ step' = "done" /\ match' = <<>>
      /\ res' = SubSeq(d, 1, n)
    BY DEF topUp
<1>3. /\ d \in Seq(Present) /\ RangeOf(d) = RangeOf(res) /\ Len(d) = Cardinality(RangeOf(res))
      /\ \A i, k \in DOMAIN d : d[i] = d[k] => i = k
    BY <1>1, DedupLists
<1> HIDE DEF d
<1>4. Len(d) \in Nat /\ DOMAIN d = 1..Len(d) /\ n \in Nat /\ n <= Len(d) BY <1>1, <1>3 DEF Least
<1>5. n = Least(wish.count, Cardinality(offered))
  <2>1. Cardinality(offered) \in Nat /\ IsFiniteSet(offered) BY <1>1, FiniteTracks
  <2>2. Cardinality(RangeOf(res)) <= Cardinality(offered) BY <1>1, <2>1, FS_Subset
  <2>3. RangeOf(res) = offered \/ Len(d) >= wish.count BY <1>1, <1>3 DEF Full
  <2>4. QED BY <1>1, <1>3, <1>4, <2>1, <2>2, <2>3 DEF Least
<1> HIDE DEF n
<1>6. res' \in Seq(Present) /\ Len(res') = n /\ DOMAIN res' = 1..n /\ \A i \in 1..n : i \in DOMAIN d /\ res'[i] = d[i]
    BY <1>2, <1>3, <1>4
<1>7. RangeOf(res') \subseteq RangeOf(res) BY <1>3, <1>6 DEF RangeOf
<1>8. Cardinality(RangeOf(res')) = n
  <2> DEFINE f == [i \in 1..n |-> res'[i]]
  <2>1. \A i, k \in 1..n : res'[i] = res'[k] => i = k BY <1>3, <1>6
  <2>2. f \in Bijection(1..n, RangeOf(res')) BY <1>6, <2>1 DEF RangeOf, Bijection, Injection, Surjection, IsInjective
  <2>3. IsFiniteSet(1..n) /\ Cardinality(1..n) = n BY <1>4, FS_Interval
  <2>4. QED BY <2>2, <2>3, FS_Bijection DEF ExistsBijection
<1>9. MixIsFull' BY <1>1, <1>2, <1>5, <1>6, <1>7, <1>8 DEF MixIsFull, RangeOf
<1>10. MatchedOnItsOwn' BY <1>2, EmptyList DEF MatchedOnItsOwn
<1>11. QED BY <1>1, <1>2, <1>6, <1>7, <1>9, <1>10 DEF MixInv, MixIsAsRecommended

LEMMA MixInvNext == MixInv /\ [MatcherNext]_matcherVars => MixInv'
<1>1. ASSUME MixInv, UNCHANGED matcherVars PROVE MixInv'
    BY <1>1 DEF MixInv, matcherVars, MixIsAsRecommended, MatchedOnItsOwn, MixIsFull, Full
<1>2. QED
    BY <1>1, AskAgentKeeps, MatchSongsKeeps, SeedMixKeeps, FallbackKeeps, SourceFailsKeeps, TopUpKeeps DEF MatcherNext

\* For any library, agents' answers and faults: each song of a batch is matched as it
\* would be alone and to what it means (matchByTitle and the exact phases), and a mix
\* has each track once and as many as were asked for or offered (topUp).
THEOREM MixesAreFull == MatcherSpec => []MixIsAsRecommended
<1>1. MatcherSpec => []MixInv BY MixInvInit, MixInvNext, PTL DEF MatcherSpec
<1>2. MixInv => MixIsAsRecommended BY DEF MixInv
<1>3. QED BY <1>1, <1>2, PTL

-----------------------------------------------------------------------------
(* SQL's three values *)

Answers == {"T", "F", "N"}

LEMMA Combines ==
    ASSUME NEW k, NEW vs, vs \subseteq Answers
    PROVE  /\ Combine(k, vs) \in Answers
           /\ k = "and" => (Combine(k, vs) = "T" <=> \A v \in vs : v = "T")
           /\ k = "or" => (Combine(k, vs) = "T" <=> \E v \in vs : v = "T")
BY DEF Combine, AndOf, OrOf, Answers

Lifted == \A b \in BOOLEAN : Lift(b) \in Answers /\ (Lift(b) = "T" <=> b)
LEMMA Lifts == Lifted
BY DEF Lifted, Lift, Answers

RatingsKnown == ratings \in [RuleSongs -> Int \cup {Null}]

LEMMA ColumnType == ASSUME RatingsKnown, NEW s \in RuleSongs, NEW f \in Fields \ Multi PROVE Column(s, f) \in Int \cup {Null}
BY SmartAssumption DEF SmartAssumption, RatingsKnown, Fields, Annotation, Multi, Column

IsAtom(c) == c.k \in {"cmp", "null", "in", "exists"}
Flat(c) == IsGroup(c) /\ \A d \in c.kids : IsAtom(d)
Condition(c) == IsAtom(c) \/ (IsGroup(c) /\ \A d \in c.kids : IsAtom(d) \/ Flat(d))

LEMMA AtomType == ASSUME NEW s, NEW c, IsAtom(c) PROVE Atom(s, c) \in Answers
<1>1. ASSUME NEW b \in BOOLEAN PROVE Lift(b) \in Answers BY <1>1, Lifts DEF Lifted
<1>2. CASE c.k = "cmp"
  <2>1. Atom(s, c) = IF Column(s, c.col) = Null THEN "N" ELSE Lift(Satisfies(c.cmp, Column(s, c.col), c.v)) BY <1>2 DEF Atom
  <2>2. \A x : Lift(x) \in Answers BY DEF Lift, Answers
  <2>3. QED BY <2>1, <2>2 DEF Answers
<1>3. CASE c.k # "cmp"
  <2>1. \A x : Lift(x) \in Answers BY DEF Lift, Answers
  <2>2. QED BY <1>3, <2>1 DEF Atom, IsAtom
<1>4. QED BY <1>2, <1>3

\* The depth to which a condition is followed does not matter beyond its own.
LEMMA AtomTruth == ASSUME NEW s, NEW c, IsAtom(c) PROVE Truth1(s, c) = Atom(s, c) /\ Truth2(s, c) = Atom(s, c) /\ Truth3(s, c) = Atom(s, c)
BY DEF IsAtom, IsGroup, Truth1, Truth2, Truth3

LEMMA FlatTruth ==
    ASSUME NEW s, NEW c, Flat(c)
    PROVE  Truth1(s, c) = Combine(c.k, {Atom(s, d) : d \in c.kids}) /\ Truth2(s, c) = Truth1(s, c) /\ Truth1(s, c) \in Answers
<1>1. IsGroup(c) /\ \A d \in c.kids : IsAtom(d) BY DEF Flat
<1>2. Truth1(s, c) = Combine(c.k, {Atom(s, d) : d \in c.kids}) BY <1>1 DEF Truth1
<1>3. {Truth1(s, d) : d \in c.kids} = {Atom(s, d) : d \in c.kids} BY <1>1, AtomTruth
<1>4. Truth2(s, c) = Combine(c.k, {Atom(s, d) : d \in c.kids}) BY <1>1, <1>3 DEF Truth2
<1>5. {Atom(s, d) : d \in c.kids} \subseteq Answers BY <1>1, AtomType
<1>6. QED BY <1>2, <1>4, <1>5, Combines

LEMMA ConditionTruth ==
    ASSUME NEW s, NEW c, Condition(c)
    PROVE  Truth2(s, c) \in Answers /\ Truth3(s, c) = Truth2(s, c)
<1>1. CASE IsAtom(c) BY <1>1, AtomType, AtomTruth
<1>2. CASE IsGroup(c) /\ \A d \in c.kids : IsAtom(d) \/ Flat(d)
  <2>1. ASSUME NEW d \in c.kids PROVE Truth1(s, d) \in Answers /\ Truth2(s, d) = Truth1(s, d)
    <3>1. CASE IsAtom(d) BY <3>1, AtomType, AtomTruth
    <3>2. CASE Flat(d) BY <3>2, FlatTruth
    <3>3. QED BY <1>2, <3>1, <3>2
  <2>2. {Truth2(s, d) : d \in c.kids} = {Truth1(s, d) : d \in c.kids} /\ {Truth1(s, d) : d \in c.kids} \subseteq Answers BY <2>1
  <2>3. Truth2(s, c) = Combine(c.k, {Truth1(s, d) : d \in c.kids}) BY <1>2 DEF Truth2
  <2>4. Truth3(s, c) = Combine(c.k, {Truth2(s, d) : d \in c.kids}) BY <1>2 DEF Truth3
  <2>5. Combine(c.k, {Truth1(s, d) : d \in c.kids}) \in Answers BY <2>2, Combines
  <2>6. QED BY <2>2, <2>3, <2>4, <2>5
<1>3. QED BY <1>1, <1>2 DEF Condition

-----------------------------------------------------------------------------
(* What a rule becomes *)

Says(s, c, b) == Condition(c) /\ (Truth2(s, c) = "T" <=> b)

LEMMA CmpSays ==
    ASSUME RatingsKnown, NEW s \in RuleSongs, NEW f \in Fields \ Multi, NEW cmp, NEW v \in Int
    PROVE  /\ Says(s, Cmp(f, cmp, v), Column(s, f) # Null /\ Satisfies(cmp, Column(s, f), v))
           /\ IsAtom(Cmp(f, cmp, v)) /\ Atom(s, Cmp(f, cmp, v)) = Truth2(s, Cmp(f, cmp, v))
<1> DEFINE c == Cmp(f, cmp, v)
<1>1. c.k = "cmp" /\ c.col = f /\ c.cmp = cmp /\ c.v = v BY DEF Cmp
<1> HIDE DEF c
<1>2. IsAtom(c) BY <1>1 DEF IsAtom
<1>3. Atom(s, c) = IF Column(s, f) = Null THEN "N" ELSE Lift(Satisfies(cmp, Column(s, f), v)) BY <1>1 DEF Atom
<1>4. \A x : Lift(x) = "T" <=> x BY DEF Lift
<1>5. QED BY <1>2, <1>3, <1>4, AtomTruth DEF Says, Condition, c

LEMMA NullSays ==
    ASSUME NEW s, NEW c, c.k = "null", NEW v, Column(s, c.col) = v
    PROVE  /\ c.not = FALSE => Says(s, c, v = Null)
           /\ c.not = TRUE => Says(s, c, v # Null)
           /\ IsAtom(c) /\ Atom(s, c) = Truth2(s, c)
<1>1. IsAtom(c) BY DEF IsAtom
<1>2. Atom(s, c) = Lift((v = Null) # c.not) BY DEF Atom
<1>3. \A x : Lift(x) = "T" <=> x BY DEF Lift
<1>4. Atom(s, c) = Truth2(s, c) BY <1>1, AtomTruth
<1>5. ASSUME c.not = FALSE PROVE Says(s, c, v = Null)
  <2>1. Atom(s, c) = "T" <=> (v = Null) # FALSE BY <1>2, <1>3, <1>5
  <2>2. Atom(s, c) = "T" <=> v = Null BY <2>1
  <2>3. QED BY <1>1, <1>4, <2>2 DEF Says, Condition
<1>6. ASSUME c.not = TRUE PROVE Says(s, c, v # Null)
  <2>1. Atom(s, c) = "T" <=> (v = Null) # TRUE BY <1>2, <1>3, <1>6
  <2>2. Atom(s, c) = "T" <=> v # Null BY <2>1
  <2>3. QED BY <1>1, <1>4, <2>2 DEF Says, Condition
<1>7. QED BY <1>1, <1>4, <1>5, <1>6

\* A value of the tag or role that satisfies one of the conditions.
HasOne(s, f, conds) == \E x \in SongRows[s][f] : conds = {} \/ \E t \in conds : Satisfies(t[1], x, t[2])

LEMMA ExistsSays ==
    ASSUME NEW s, NEW c, c.k = "exists"
    PROVE  /\ c.not = FALSE => Says(s, c, HasOne(s, c.col, c.conds))
           /\ c.not = TRUE => Says(s, c, ~HasOne(s, c.col, c.conds))
           /\ IsAtom(c) /\ Atom(s, c) = Truth2(s, c)
<1>1. IsAtom(c) BY DEF IsAtom
<1>2. Atom(s, c) = Lift(HasOne(s, c.col, c.conds) # c.not) BY DEF Atom, HasOne
<1>3. \A x : Lift(x) = "T" <=> x BY DEF Lift
<1>4. Atom(s, c) = Truth2(s, c) BY <1>1, AtomTruth
<1>5. HasOne(s, c.col, c.conds) \in BOOLEAN BY DEF HasOne
<1>6. ASSUME c.not = FALSE PROVE Says(s, c, HasOne(s, c.col, c.conds))
  <2>1. Atom(s, c) = "T" <=> HasOne(s, c.col, c.conds) # FALSE BY <1>2, <1>3, <1>6
  <2>2. Atom(s, c) = "T" <=> HasOne(s, c.col, c.conds) BY <2>1, <1>5
  <2>3. QED BY <1>1, <1>4, <2>2 DEF Says, Condition
<1>7. ASSUME c.not = TRUE PROVE Says(s, c, ~HasOne(s, c.col, c.conds))
  <2>1. Atom(s, c) = "T" <=> HasOne(s, c.col, c.conds) # TRUE BY <1>2, <1>3, <1>7
  <2>2. Atom(s, c) = "T" <=> ~HasOne(s, c.col, c.conds) BY <2>1, <1>5
  <2>3. QED BY <1>1, <1>4, <2>2 DEF Says, Condition
<1>8. QED BY <1>1, <1>4, <1>6, <1>7

LEMMA SubquerySays ==
    ASSUME NEW s, NEW f, NEW conds
    PROVE  /\ Says(s, Exists(f, conds, FALSE), HasOne(s, f, conds))
           /\ Says(s, Exists(f, conds, TRUE), ~HasOne(s, f, conds))
<1>1. ASSUME NEW c, c = Exists(f, conds, FALSE) PROVE Says(s, c, HasOne(s, f, conds))
  <2>1. c.k = "exists" /\ c.col = f /\ c.conds = conds /\ c.not = FALSE BY <1>1 DEF Exists
  <2>2. QED BY <2>1, ExistsSays
<1>2. ASSUME NEW c, c = Exists(f, conds, TRUE) PROVE Says(s, c, ~HasOne(s, f, conds))
  <2>1. c.k = "exists" /\ c.col = f /\ c.conds = conds /\ c.not = TRUE BY <1>2 DEF Exists
  <2>2. QED BY <2>1, ExistsSays
<1>3. QED BY <1>1, <1>2

Nested(c) == IsAtom(c) \/ Flat(c)

LEMMA NestedTruth == ASSUME NEW s, NEW c, Nested(c) PROVE Truth1(s, c) \in Answers /\ Truth2(s, c) = Truth1(s, c) /\ Condition(c)
<1>1. CASE IsAtom(c) BY <1>1, AtomType, AtomTruth DEF Condition
<1>2. CASE Flat(c) BY <1>2, FlatTruth DEF Condition, Flat
<1>3. QED BY <1>1, <1>2 DEF Nested

LEMMA PairSays ==
    ASSUME NEW s, NEW a, NEW b, Nested(a), Nested(b), NEW p \in BOOLEAN, NEW q \in BOOLEAN, Says(s, a, p), Says(s, b, q)
    PROVE  Says(s, Or(a, b), p \/ q) /\ Says(s, And(a, b), p /\ q)
<1>1. /\ Truth1(s, a) \in Answers /\ (Truth1(s, a) = "T" <=> p)
      /\ Truth1(s, b) \in Answers /\ (Truth1(s, b) = "T" <=> q) BY NestedTruth DEF Says
<1>2. {Truth1(s, d) : d \in {a, b}} = {Truth1(s, a), Truth1(s, b)} OBVIOUS
<1>3. {Truth1(s, a), Truth1(s, b)} \subseteq Answers BY <1>1
<1>4. ASSUME NEW c, IsGroup(c), c.kids = {a, b} PROVE Condition(c) /\ Truth2(s, c) = Combine(c.k, {Truth1(s, a), Truth1(s, b)})
  <2>1. Truth2(s, c) = Combine(c.k, {Truth1(s, d) : d \in {a, b}}) BY <1>4 DEF Truth2
  <2>2. Condition(c) BY <1>4 DEF Condition, Nested
  <2>3. QED BY <2>1, <2>2, <1>2
<1>5. Says(s, Or(a, b), p \/ q)
  <2>1. IsGroup(Or(a, b)) /\ Or(a, b).k = "or" /\ Or(a, b).kids = {a, b} BY DEF Or, IsGroup
  <2>2. Combine("or", {Truth1(s, a), Truth1(s, b)}) = "T" <=> p \/ q BY <1>1, <1>3, Combines
  <2>3. QED BY <1>4, <2>1, <2>2 DEF Says
<1>6. Says(s, And(a, b), p /\ q)
  <2>1. IsGroup(And(a, b)) /\ And(a, b).k = "and" /\ And(a, b).kids = {a, b} BY DEF And, IsGroup
  <2>2. Combine("and", {Truth1(s, a), Truth1(s, b)}) = "T" <=> p /\ q BY <1>1, <1>3, Combines
  <2>3. QED BY <1>4, <2>1, <2>2 DEF Says
<1>7. QED BY <1>5, <1>6

Comparisons == {"=", "<>", ">", "<", ">=", "<="}

\* The bare column with NULL for the default is the column with its default.
LEMMA AnnotationSays ==
    ASSUME RatingsKnown, NEW s \in RuleSongs, NEW f \in Annotation, NEW cmp \in Comparisons, NEW v \in Int
    PROVE  Says(s, annotationCond(f, cmp, v), Satisfies(cmp, SortKey(s, f), v)) /\ Nested(annotationCond(f, cmp, v))
<1> DEFINE a == Cmp(f, cmp, v)
           b == IsNull(f)
           p == Column(s, f) # Null /\ Satisfies(cmp, Column(s, f), v)
           q == Column(s, f) = Null
<1>1. f \in Fields \ Multi BY DEF Fields, Annotation, Multi
<1>2. Says(s, a, p) /\ IsAtom(a) BY <1>1, CmpSays
<1>3. Says(s, b, q) /\ IsAtom(b)
  <2>1. b.k = "null" /\ b.col = f /\ b.not = FALSE BY DEF IsNull
  <2> HIDE DEF b
  <2>2. QED BY <2>1, NullSays
<1> HIDE DEF a, b
<1>4. CASE Satisfies(cmp, 0, v)
  <2>1. annotationCond(f, cmp, v) = Or(a, b) BY <1>4 DEF annotationCond, a, b
  <2>2. p \in BOOLEAN /\ q \in BOOLEAN BY DEF Satisfies, Comparisons
  <2> HIDE DEF p, q
  <2>3. Says(s, Or(a, b), p \/ q) BY <1>2, <1>3, <2>2, PairSays DEF Nested
  <2>4. Flat(Or(a, b)) BY <1>2, <1>3 DEF Flat, IsGroup, Or
  <2>5. p \/ q <=> Satisfies(cmp, SortKey(s, f), v) BY <1>4 DEF SortKey, p, q
  <2>6. QED BY <2>1, <2>3, <2>4, <2>5 DEF Says, Nested
<1>5. CASE ~Satisfies(cmp, 0, v)
  <2>1. annotationCond(f, cmp, v) = a BY <1>5 DEF annotationCond, a
  <2>2. p <=> Satisfies(cmp, SortKey(s, f), v) BY <1>5 DEF SortKey
  <2>3. QED BY <1>2, <2>1, <2>2 DEF Says, Nested
<1>6. QED BY <1>4, <1>5

-----------------------------------------------------------------------------
(* Leaves *)

ValueOf(s, f) == IF f \in Annotation THEN SortKey(s, f) ELSE Column(s, f)
\* What a comparison means for a song.
Compares(s, f, cmp, v) ==
    IF f \in Multi THEN \E x \in SongRows[s][f] : Satisfies(cmp, x, v)
    ELSE ValueOf(s, f) # Null /\ Satisfies(cmp, ValueOf(s, f), v)

LEMMA HasOneOf == ASSUME NEW s, NEW f, NEW cmp, NEW v PROVE HasOne(s, f, {<<cmp, v>>}) <=> \E x \in SongRows[s][f] : Satisfies(cmp, x, v)
<1> DEFINE conds == {<<cmp, v>>}
<1>1. conds # {} /\ (\A x : (\E t \in conds : Satisfies(t[1], x, t[2])) <=> Satisfies(cmp, x, v))
  <2>1. <<cmp, v>>[1] = cmp /\ <<cmp, v>>[2] = v OBVIOUS
  <2>2. QED BY <2>1
<1> HIDE DEF conds
<1>2. HasOne(s, f, conds) <=> \E x \in SongRows[s][f] : Satisfies(cmp, x, v) BY <1>1 DEF HasOne
<1>3. QED BY <1>2 DEF conds

LEMMA ComparisonSays ==
    ASSUME RatingsKnown, NEW s \in RuleSongs, NEW f \in Fields, NEW cmp \in Comparisons, NEW v \in Int
    PROVE  /\ Says(s, comparisonExpr(f, cmp, v), Compares(s, f, cmp, v))
           /\ f \notin Multi => Nested(comparisonExpr(f, cmp, v))
<1>1. CASE f \in Multi
  <2>1. comparisonExpr(f, cmp, v) = Exists(f, {<<cmp, v>>}, FALSE) BY <1>1 DEF comparisonExpr, Annotation, Multi
  <2>2. HasOne(s, f, {<<cmp, v>>}) <=> Compares(s, f, cmp, v) BY <1>1, HasOneOf DEF Compares
  <2>3. QED BY <1>1, <2>1, <2>2, SubquerySays DEF Says
<1>2. CASE f \in Annotation
  <2>1. comparisonExpr(f, cmp, v) = annotationCond(f, cmp, v) BY <1>2 DEF comparisonExpr, Annotation, Multi
  <2>2. SortKey(s, f) # Null
    <3>1. Column(s, f) \in Int \cup {Null} BY <1>2, ColumnType DEF Annotation, Multi
    <3>2. QED BY <3>1, SmartAssumption DEF SmartAssumption, SortKey
  <2>3. Compares(s, f, cmp, v) <=> Satisfies(cmp, SortKey(s, f), v) BY <1>2, <2>2 DEF Compares, ValueOf, Annotation, Multi
  <2>4. QED BY <1>2, <2>1, <2>3, AnnotationSays DEF Says
<1>3. CASE f \notin Annotation /\ f \notin Multi
  <2>1. comparisonExpr(f, cmp, v) = Cmp(f, cmp, v) BY <1>3 DEF comparisonExpr
  <2>2. Compares(s, f, cmp, v) <=> Column(s, f) # Null /\ Satisfies(cmp, Column(s, f), v) BY <1>3 DEF Compares, ValueOf
  <2>3. QED BY <1>3, <2>1, <2>2, CmpSays DEF Says, Nested
<1>4. QED BY <1>1, <1>2, <1>3

LEMMA MissingSays ==
    ASSUME RatingsKnown, NEW s \in RuleSongs, NEW e, e.op \in {"isMissing", "isPresent"}, e.field \in Multi \cup {"bpm"}, e.value \in BOOLEAN
    PROVE  Says(s, missingExpr(e), MeansLeaf(s, e))
<1> DEFINE neg == (e.op = "isMissing") = e.value
<1>1. neg \in BOOLEAN OBVIOUS
<1>2. CASE e.field \in Multi
  <2>1. missingExpr(e) = Exists(e.field, {}, neg) BY <1>2 DEF missingExpr
  <2>2. HasOne(s, e.field, {}) <=> SongRows[s][e.field] # {} BY DEF HasOne
  <2>3. MeansLeaf(s, e) <=> IF neg THEN SongRows[s][e.field] = {} ELSE SongRows[s][e.field] # {}
    <3>1. CASE e.value = TRUE BY <1>2, <3>1 DEF MeansLeaf
    <3>2. CASE e.value = FALSE BY <1>2, <3>2 DEF MeansLeaf
    <3>3. QED BY <3>1, <3>2
  <2> HIDE DEF neg
  <2>4. CASE neg = TRUE BY <2>1, <2>2, <2>3, <2>4, SubquerySays DEF Says
  <2>5. CASE neg = FALSE BY <2>1, <2>2, <2>3, <2>5, SubquerySays DEF Says
  <2>6. QED BY <1>1, <2>4, <2>5
<1>3. CASE e.field = "bpm"
  <2> DEFINE c == missingExpr(e)
  <2>1. c.k = "null" /\ c.col = e.field /\ c.not = ~neg BY <1>3 DEF missingExpr, Multi
  <2>2. MeansLeaf(s, e) <=> IF neg THEN Column(s, e.field) = Null ELSE Column(s, e.field) # Null
    <3>1. e.field \notin Annotation /\ e.field \notin Multi BY <1>3 DEF Annotation, Multi
    <3>2. CASE e.value = TRUE BY <3>1, <3>2 DEF MeansLeaf
    <3>3. CASE e.value = FALSE BY <3>1, <3>3 DEF MeansLeaf
    <3>4. QED BY <3>2, <3>3
  <2> HIDE DEF neg, c
  <2>3. CASE neg = TRUE
    <3>1. c.not = FALSE BY <2>1, <2>3
    <3>2. Says(s, c, Column(s, e.field) = Null) BY <2>1, <3>1, NullSays
    <3>3. MeansLeaf(s, e) <=> Column(s, e.field) = Null BY <2>2, <2>3
    <3>4. QED BY <3>2, <3>3 DEF Says, c
  <2>4. CASE neg = FALSE
    <3>1. c.not = TRUE BY <2>1, <2>4
    <3>2. Says(s, c, Column(s, e.field) # Null) BY <2>1, <3>1, NullSays
    <3>3. MeansLeaf(s, e) <=> Column(s, e.field) # Null BY <2>2, <2>4
    <3>4. QED BY <3>2, <3>3 DEF Says, c
  <2>5. QED BY <1>1, <2>3, <2>4
<1>4. QED BY <1>2, <1>3

LEMMA LeafSays == ASSUME RatingsKnown, NEW s \in RuleSongs, NEW e, IsLeaf(e) PROVE Says(s, leafSQL(e), MeansLeaf(s, e))
<1>1. CASE e.op \in {"inPlaylist", "notInPlaylist"}
  <2> DEFINE c == inList(e.op = "notInPlaylist")
  <2>1. leafSQL(e) = c BY <1>1 DEF leafSQL
  <2>2. c.k = "in" /\ c.not = (e.op = "notInPlaylist") BY DEF inList
  <2> HIDE DEF c
  <2>3. IsAtom(c) BY <2>2 DEF IsAtom
  <2>4. Atom(s, c) = Lift(IF c.not THEN s \notin ChildRows ELSE s \in ChildRows) BY <2>2 DEF Atom
  <2>5. Atom(s, c) = "T" <=> IF c.not THEN s \notin ChildRows ELSE s \in ChildRows BY <2>4 DEF Lift
  <2>6. MeansLeaf(s, e) <=> (s \in ChildRows <=> e.op = "inPlaylist") BY <1>1 DEF MeansLeaf
  <2>7. Atom(s, c) = "T" <=> MeansLeaf(s, e) BY <1>1, <2>2, <2>5, <2>6
  <2>8. QED BY <2>1, <2>3, <2>7, AtomTruth DEF Says, Condition
<1>2. CASE e.op \in {"is", "isNot", "gt", "lt", "after", "before"} /\ e.field \in Fields /\ e.value \in Int
  <2> DEFINE f == e.field
             cmp == CASE e.op = "is" -> "=" [] e.op = "isNot" -> "<>" [] e.op \in {"gt", "after"} -> ">" [] OTHER -> "<"
  <2>1. cmp \in Comparisons BY <1>2 DEF Comparisons
  <2>2. Says(s, comparisonExpr(f, cmp, e.value), Compares(s, f, cmp, e.value)) BY <1>2, <2>1, ComparisonSays
  <2>3. CASE e.op = "isNot" /\ f \in Multi
    <3>1. leafSQL(e) = Exists(f, {<<"=", e.value>>}, TRUE) BY <2>3 DEF leafSQL, isNotExpr
    <3>2. HasOne(s, f, {<<"=", e.value>>}) <=> e.value \in SongRows[s][f]
      <4>1. \A x : Satisfies("=", x, e.value) <=> x = e.value BY DEF Satisfies
      <4>2. HasOne(s, f, {<<"=", e.value>>}) <=> \E x \in SongRows[s][f] : Satisfies("=", x, e.value) BY HasOneOf
      <4>3. QED BY <4>1, <4>2
    <3>3. MeansLeaf(s, e) <=> e.value \notin SongRows[s][f] BY <2>3 DEF MeansLeaf
    <3>4. QED BY <3>1, <3>2, <3>3, SubquerySays DEF Says
  <2>4. CASE ~(e.op = "isNot" /\ f \in Multi)
    <3>1. leafSQL(e) = comparisonExpr(f, cmp, e.value) BY <1>2, <2>4 DEF leafSQL, isNotExpr
    <3>2. MeansLeaf(s, e) <=> Compares(s, f, cmp, e.value)
      <4>1. CASE f \in Multi BY <1>2, <2>4, <4>1 DEF MeansLeaf, Compares, Satisfies
      <4>2. CASE f \notin Multi BY <1>2, <4>2 DEF MeansLeaf, Compares, Satisfies, ValueOf
      <4>3. QED BY <4>1, <4>2
    <3>3. QED BY <2>2, <3>1, <3>2 DEF Says
  <2>5. QED BY <2>3, <2>4
<1>3. CASE e.op = "inTheRange" /\ e.field \in Fields \ Multi /\ e.value \in Int
  <2> DEFINE f == e.field
             a == comparisonExpr(f, ">=", e.value)
             b == comparisonExpr(f, "<=", e.value + 1)
             w == ValueOf(s, f)
             p == Compares(s, f, ">=", e.value)
             q == Compares(s, f, "<=", e.value + 1)
  <2>1. leafSQL(e) = And(a, b) BY <1>3 DEF leafSQL, rangeExpr
  <2>2. Says(s, a, p) /\ Nested(a) BY <1>3, ComparisonSays DEF Comparisons
  <2>3. Says(s, b, q) /\ Nested(b) BY <1>3, ComparisonSays DEF Comparisons
  <2>4. p \in BOOLEAN /\ q \in BOOLEAN BY DEF Compares, Satisfies
  <2>5. p /\ q <=> w # Null /\ w \in e.value..(e.value + 1)
    <3>1. w \in Int \cup {Null} BY <1>3, ColumnType, SmartAssumption DEF ValueOf, SortKey
    <3>2. p <=> w # Null /\ w >= e.value BY <1>3 DEF Compares, Satisfies
    <3>3. q <=> w # Null /\ w <= e.value + 1 BY <1>3 DEF Compares, Satisfies
    <3> HIDE DEF w, p, q
    <3>4. QED BY <1>3, <3>1, <3>2, <3>3
  <2>6. MeansLeaf(s, e) <=> w # Null /\ w \in e.value..(e.value + 1) BY <1>3 DEF MeansLeaf, ValueOf
  <2> HIDE DEF a, b, p, q, w
  <2>7. Says(s, And(a, b), p /\ q) BY <2>2, <2>3, <2>4, PairSays
  <2>8. QED BY <2>1, <2>5, <2>6, <2>7 DEF Says
<1>4. CASE e.op \in {"inTheLast", "notInTheLast"} /\ e.field = "lastplayed" /\ e.value \in Int
  <2>1. e.field \in Fields \ Multi /\ e.field \notin Annotation /\ Today - e.value \in Int
      BY <1>4, SmartAssumption DEF SmartAssumption, Fields, Multi, Annotation
  <2> DEFINE v == Column(s, e.field)
  <2>2. CASE e.op = "inTheLast"
    <3>1. leafSQL(e) = Cmp(e.field, ">", Today - e.value) BY <2>2 DEF leafSQL, periodExpr
    <3>2. MeansLeaf(s, e) <=> v # Null /\ v > Today - e.value BY <2>1, <2>2 DEF MeansLeaf
    <3>3. Says(s, Cmp(e.field, ">", Today - e.value), v # Null /\ Satisfies(">", v, Today - e.value)) BY <2>1, CmpSays
    <3>4. QED BY <3>1, <3>2, <3>3 DEF Says, Satisfies
  <2>3. CASE e.op = "notInTheLast"
    <3> DEFINE a == Cmp(e.field, "<", Today - e.value)
               b == IsNull(e.field)
               p == v # Null /\ v < Today - e.value
               q == v = Null
    <3>1. leafSQL(e) = Or(a, b) BY <2>3 DEF leafSQL, periodExpr
    <3>2. MeansLeaf(s, e) <=> p \/ q BY <2>1, <2>3 DEF MeansLeaf
    <3>3. Says(s, a, p) /\ Nested(a)
      <4>1. Says(s, a, v # Null /\ Satisfies("<", v, Today - e.value)) /\ IsAtom(a) BY <2>1, CmpSays
      <4>2. QED BY <4>1 DEF Says, Satisfies, Nested
    <3>4. Says(s, b, q) /\ Nested(b)
      <4>1. b.k = "null" /\ b.col = e.field /\ b.not = FALSE BY DEF IsNull
      <4> HIDE DEF b
      <4>2. QED BY <4>1, NullSays DEF Nested
    <3>5. p \in BOOLEAN /\ q \in BOOLEAN OBVIOUS
    <3> HIDE DEF a, b, p, q
    <3>6. QED BY <3>1, <3>2, <3>3, <3>4, <3>5, PairSays DEF Says
  <2>4. QED BY <1>4, <2>2, <2>3
<1>5. CASE e.op \in {"isMissing", "isPresent"} /\ e.field \in Multi \cup {"bpm"} /\ e.value \in BOOLEAN
  <2>1. leafSQL(e) = missingExpr(e) BY <1>5 DEF leafSQL
  <2>2. QED BY <1>5, <2>1, MissingSays
<1>6. QED BY <1>1, <1>2, <1>3, <1>4, <1>5 DEF IsLeaf

-----------------------------------------------------------------------------
(* Merged subqueries *)

\* The subqueries over a field that are merged.
Mergeable(conds, negated, f) == {c \in conds : c.k = "exists" /\ c.not = negated /\ c.conds # {} /\ c.col = f}
Merged(conds, negated, f) == Exists(f, UNION {c.conds : c \in Mergeable(conds, negated, f)}, negated)

LEMMA MergedAre ==
    ASSUME NEW conds, NEW negated
    PROVE  /\ \A d \in mergeSameFieldConds(conds, negated) :
                d \in conds \/ \E f : Mergeable(conds, negated, f) # {} /\ d = Merged(conds, negated, f)
           /\ \A c \in conds : c \notin mergeSameFieldConds(conds, negated) =>
                c \in Mergeable(conds, negated, c.col) /\ Merged(conds, negated, c.col) \in mergeSameFieldConds(conds, negated)
<1> DEFINE shared == {f \in Multi : Cardinality(Mergeable(conds, negated, f)) >= 2}
           gone == UNION {Mergeable(conds, negated, f) : f \in shared}
           new == {Merged(conds, negated, f) : f \in shared}
<1>1. mergeSameFieldConds(conds, negated) = (conds \ gone) \cup new BY DEF mergeSameFieldConds, Mergeable, Merged
<1>2. ASSUME NEW f \in shared PROVE Mergeable(conds, negated, f) # {}
  <2>1. Cardinality({}) = 0 BY FS_EmptySet
  <2>2. Cardinality(Mergeable(conds, negated, f)) >= 2 OBVIOUS
  <2>3. QED BY <2>1, <2>2
<1>3. \A c \in gone : \E f \in shared : c \in Mergeable(conds, negated, f) /\ c.col = f BY DEF Mergeable
<1> HIDE DEF shared
<1>4. QED BY <1>1, <1>2, <1>3

\* One song's answer to a merged subquery.
LEMMA MergedHasOne ==
    ASSUME NEW s, NEW conds, NEW negated, NEW f, Mergeable(conds, negated, f) # {}
    PROVE  HasOne(s, f, Merged(conds, negated, f).conds) <=> \E c \in Mergeable(conds, negated, f) : HasOne(s, f, c.conds)
<1> DEFINE G == Mergeable(conds, negated, f)
           all == UNION {c.conds : c \in G}
<1>1. Merged(conds, negated, f).conds = all BY DEF Merged, Exists
<1>2. \A c \in G : c.conds # {} BY DEF Mergeable
<1>3. all # {} BY <1>2
<1>4. \A x : (\E t \in all : Satisfies(t[1], x, t[2])) <=> \E c \in G : \E t \in c.conds : Satisfies(t[1], x, t[2]) OBVIOUS
<1> HIDE DEF G, all
<1>5. HasOne(s, f, all) <=> \E x \in SongRows[s][f] : \E t \in all : Satisfies(t[1], x, t[2]) BY <1>3 DEF HasOne
<1>6. \A c \in G : HasOne(s, f, c.conds) <=> \E x \in SongRows[s][f] : \E t \in c.conds : Satisfies(t[1], x, t[2]) BY <1>2 DEF HasOne
<1>7. QED BY <1>1, <1>4, <1>5, <1>6 DEF G

\* Answers t that are right for subqueries.
Agrees(s, cs, t) == \A c \in cs : c.k = "exists" => t[c] = Atom(s, c)
KeepsAll(cs, ds, t) == (\A d \in ds : t[d] = "T") <=> (\A c \in cs : t[c] = "T")
KeepsSome(cs, ds, t) == (\E d \in ds : t[d] = "T") <=> (\E c \in cs : t[c] = "T")

\* Merging changes no answer: the conditions that are ORed keep whether one is
\* true, and the negated ones that are ANDed keep whether all are.
LEMMA MergeKeeps ==
    ASSUME NEW s, NEW conds, NEW negated \in BOOLEAN, NEW t, NEW M,
           M = mergeSameFieldConds(conds, negated), Agrees(s, conds \cup M, t)
    PROVE  (negated = TRUE => KeepsAll(conds, M, t)) /\ (negated = FALSE => KeepsSome(conds, M, t))
<1> DEFINE G(f) == Mergeable(conds, negated, f)
           m(f) == Merged(conds, negated, f)
<1>1. /\ \A d \in M : d \in conds \/ \E f : G(f) # {} /\ d = m(f)
      /\ \A c \in conds : c \notin M => c \in G(c.col) /\ m(c.col) \in M BY MergedAre
<1>2. \A f : m(f).k = "exists" /\ m(f).col = f /\ m(f).not = negated BY DEF Merged, Exists
<1>3. \A f : \A c \in G(f) : c \in conds /\ c.k = "exists" /\ c.col = f /\ c.not = negated BY DEF Mergeable
<1>4. \A f : G(f) # {} => (HasOne(s, f, m(f).conds) <=> \E c \in G(f) : HasOne(s, f, c.conds)) BY MergedHasOne
<1>5. \A c : c.k = "exists" => (c.not = FALSE => (Atom(s, c) = "T" <=> HasOne(s, c.col, c.conds)))
                            /\ (c.not = TRUE => (Atom(s, c) = "T" <=> ~HasOne(s, c.col, c.conds)))
    BY ExistsSays DEF Says
<1>6. \A c \in conds \cup M : c.k = "exists" => t[c] = Atom(s, c) BY DEF Agrees
<1> HIDE DEF G, m
<1>7. CASE negated = FALSE
  <2>1. ASSUME NEW f, G(f) # {}, m(f) \in M PROVE t[m(f)] = "T" <=> \E c \in G(f) : t[c] = "T"
    <3>1. t[m(f)] = "T" <=> HasOne(s, f, m(f).conds) BY <1>2, <1>5, <1>6, <1>7, <2>1
    <3>2. \A c \in G(f) : t[c] = "T" <=> HasOne(s, f, c.conds) BY <1>3, <1>5, <1>6, <1>7
    <3>3. QED BY <1>4, <2>1, <3>1, <3>2
  <2>2. ASSUME NEW d \in M, t[d] = "T" PROVE \E c \in conds : t[c] = "T" BY <1>1, <1>3, <2>1, <2>2
  <2>3. ASSUME NEW c \in conds, t[c] = "T" PROVE \E d \in M : t[d] = "T" BY <1>1, <2>1, <2>3
  <2>4. QED BY <1>7, <2>2, <2>3 DEF KeepsSome
<1>8. CASE negated = TRUE
  <2>1. ASSUME NEW f, G(f) # {}, m(f) \in M PROVE t[m(f)] = "T" <=> \A c \in G(f) : t[c] = "T"
    <3>1. t[m(f)] = "T" <=> ~HasOne(s, f, m(f).conds) BY <1>2, <1>5, <1>6, <1>8, <2>1
    <3>2. ASSUME NEW c \in G(f) PROVE t[c] = "T" <=> ~HasOne(s, f, c.conds)
      <4>1. c \in conds /\ c.k = "exists" /\ c.col = f /\ c.not = TRUE BY <1>3, <1>8
      <4>2. t[c] = Atom(s, c) BY <1>6, <4>1
      <4>3. QED BY <1>5, <4>1, <4>2
    <3>3. QED BY <1>4, <2>1, <3>1, <3>2
  <2>2. ASSUME NEW d \in M, t[d] # "T" PROVE \E c \in conds : t[c] # "T" BY <1>1, <1>3, <2>1, <2>2
  <2>3. ASSUME NEW c \in conds, t[c] # "T" PROVE \E d \in M : t[d] # "T" BY <1>1, <2>1, <2>3
  <2>4. QED BY <1>8, <2>2, <2>3 DEF KeepsAll
<1>9. QED BY <1>7, <1>8

HasAnswers(s, cs, t) == \A c \in cs : t[c] \in Answers /\ (c.k = "exists" => t[c] = Atom(s, c))
AnswersOf(cs, t) == {t[c] : c \in cs}
AllOrOne(op, cs, t) == IF op = "all" THEN \A c \in cs : t[c] = "T" ELSE \E c \in cs : t[c] = "T"

\* A conjunction of rules: its merged conditions, combined, are true when all
\* of its rules are or when one is.
LEMMA GroupedSays ==
    ASSUME NEW s, NEW conds, NEW op \in {"all", "any"}, NEW t, NEW w, w = Grouped(op, conds),
           HasAnswers(s, conds \cup w.kids, t), NEW answer, answer = Combine(w.k, AnswersOf(w.kids, t))
    PROVE  answer \in Answers /\ (answer = "T" <=> AllOrOne(op, conds, t))
<1>1. PICK negated \in BOOLEAN : negated <=> op = "all" OBVIOUS
<1> DEFINE M == mergeSameFieldConds(conds, negated)
           vs == {t[d] : d \in M}
<1>2. w.kids = M
  <2>1. (op = "all") = negated BY <1>1
  <2>2. Grouped(op, conds).kids = mergeSameFieldConds(conds, op = "all") BY DEF Grouped
  <2>3. QED BY <2>1, <2>2
<1>3. vs \subseteq Answers BY <1>2 DEF HasAnswers
<1>4. Agrees(s, conds \cup M, t) BY <1>2 DEF Agrees, HasAnswers
<1>5. (negated = TRUE => KeepsAll(conds, M, t)) /\ (negated = FALSE => KeepsSome(conds, M, t)) BY <1>4, MergeKeeps
<1>6. ((\A v \in vs : v = "T") <=> \A d \in M : t[d] = "T") /\ ((\E v \in vs : v = "T") <=> \E d \in M : t[d] = "T") OBVIOUS
<1>7. w.k = IF op = "all" THEN "and" ELSE "or" BY DEF Grouped
<1> HIDE DEF M
<1>8. answer = Combine(w.k, vs)
  <2>1. vs = AnswersOf(w.kids, t) BY <1>2 DEF AnswersOf, M
  <2>2. QED BY <2>1
<1> HIDE DEF vs
<1>9. ASSUME op = "all" PROVE answer = "T" <=> AllOrOne(op, conds, t)
  <2>1. negated = TRUE BY <1>1, <1>9
  <2>2. Combine("and", vs) = "T" <=> \A v \in vs : v = "T" BY <1>3, Combines
  <2>3. QED BY <1>5, <1>6, <1>7, <1>8, <1>9, <2>1, <2>2 DEF KeepsAll, AllOrOne
<1>10. ASSUME op = "any" PROVE answer = "T" <=> AllOrOne(op, conds, t)
  <2>1. negated = FALSE BY <1>1, <1>10
  <2>2. Combine("or", vs) = "T" <=> \E v \in vs : v = "T" BY <1>3, Combines
  <2>3. QED BY <1>5, <1>6, <1>7, <1>8, <1>10, <2>1, <2>2 DEF KeepsSome, AllOrOne
<1>11. Combine(w.k, vs) \in Answers BY <1>3, Combines
<1>12. QED BY <1>8, <1>9, <1>10, <1>11

\* What a rule of the outermost conjunction means.
MeansRule(s, k) ==
    CASE k.op = "all" -> \A j \in DOMAIN k.rules : MeansLeaf(s, k.rules[j])
      [] k.op = "any" -> \E j \in DOMAIN k.rules : MeansLeaf(s, k.rules[j])
      [] OTHER -> MeansLeaf(s, k)

IsRule(k) == IF Conjunction(k) THEN \A j \in DOMAIN k.rules : IsLeaf(k.rules[j]) ELSE IsLeaf(k)

\* What merging adds is a subquery.
LEMMA MergedKinds == ASSUME NEW op, NEW conds, NEW d \in Grouped(op, conds).kids PROVE d \in conds \/ d.k = "exists"
<1> DEFINE negated == op = "all"
<1>1. Grouped(op, conds).kids = mergeSameFieldConds(conds, negated) BY DEF Grouped
<1> HIDE DEF negated
<1>2. d \in conds \/ \E f : d = Merged(conds, negated, f) BY <1>1, MergedAre
<1>3. QED BY <1>2 DEF Merged, Exists

LEMMA RuleSays ==
    ASSUME RatingsKnown, NEW s \in RuleSongs, NEW k, IsRule(k)
    PROVE  /\ Truth3(s, innerSQL(k)) \in Answers /\ (Truth3(s, innerSQL(k)) = "T" <=> MeansRule(s, k))
           /\ innerSQL(k).k = "exists" => Truth3(s, innerSQL(k)) = Atom(s, innerSQL(k))
<1>1. CASE Conjunction(k)
  <2> DEFINE conds == {leafSQL(k.rules[j]) : j \in DOMAIN k.rules}
             c == Grouped(k.op, conds)
             D == conds \cup c.kids
             t == [d \in D |-> Truth2(s, d)]
  <2>1. k.op \in {"all", "any"} /\ innerSQL(k) = c BY <1>1 DEF innerSQL, Conjunction
  <2>2. \A j \in DOMAIN k.rules : Says(s, leafSQL(k.rules[j]), MeansLeaf(s, k.rules[j])) BY <1>1, LeafSays DEF IsRule
  <2>3. \A d \in conds : Condition(d) BY <2>2 DEF Says
  <2>4. \A d \in D : Condition(d)
    <3>1. \A d \in c.kids : d \in conds \/ d.k = "exists" BY MergedKinds
    <3>2. QED BY <2>3, <3>1 DEF Condition, IsAtom
  <2>5. \A d \in D : t[d] = Truth2(s, d) OBVIOUS
  <2>6. IsGroup(c) BY DEF Grouped, IsGroup
  <2>7. Truth3(s, c) = Combine(c.k, {Truth2(s, d) : d \in c.kids}) BY <2>6 DEF Truth3
  <2>8. {Truth2(s, d) : d \in c.kids} = AnswersOf(c.kids, t) BY <2>5 DEF AnswersOf
  <2> HIDE DEF t, D
  <2>9. HasAnswers(s, D, t)
    <3>1. ASSUME NEW d \in D PROVE t[d] \in Answers BY <2>4, <2>5, ConditionTruth
    <3>2. ASSUME NEW d \in D, d.k = "exists" PROVE t[d] = Atom(s, d) BY <2>5, <3>2, AtomTruth DEF IsAtom
    <3>3. QED BY <3>1, <3>2 DEF HasAnswers
  <2>10. PICK answer : answer = Combine(c.k, AnswersOf(c.kids, t)) OBVIOUS
  <2>11. answer \in Answers /\ (answer = "T" <=> AllOrOne(k.op, conds, t))
    <3>1. c = Grouped(k.op, conds) /\ HasAnswers(s, conds \cup c.kids, t) BY <2>9 DEF D
    <3> HIDE DEF c, conds
    <3>2. PICK op \in {"all", "any"} : op = k.op BY <2>1
    <3>3. answer \in Answers /\ (answer = "T" <=> AllOrOne(op, conds, t)) BY <2>10, <3>1, <3>2, GroupedSays
    <3>4. QED BY <3>2, <3>3
  <2>12. AllOrOne(k.op, conds, t) <=> MeansRule(s, k)
    <3>1. \A j \in DOMAIN k.rules : t[leafSQL(k.rules[j])] = "T" <=> MeansLeaf(s, k.rules[j]) BY <2>2, <2>5 DEF Says, D
    <3>2. CASE k.op = "all"
      <4>1. MeansRule(s, k) <=> \A j \in DOMAIN k.rules : MeansLeaf(s, k.rules[j]) BY <3>2 DEF MeansRule
      <4>2. QED BY <3>1, <3>2, <4>1 DEF AllOrOne
    <3>3. CASE k.op = "any"
      <4>1. MeansRule(s, k) <=> \E j \in DOMAIN k.rules : MeansLeaf(s, k.rules[j]) BY <3>3 DEF MeansRule
      <4>2. QED BY <3>1, <3>3, <4>1 DEF AllOrOne
    <3>4. QED BY <2>1, <3>2, <3>3
  <2>13. Truth3(s, c) = answer BY <2>7, <2>8, <2>10
  <2>14. innerSQL(k).k # "exists" BY <2>1, <2>6 DEF IsGroup
  <2>15. QED BY <2>1, <2>11, <2>12, <2>13, <2>14
<1>2. CASE ~Conjunction(k)
  <2> DEFINE c == leafSQL(k)
  <2>1. innerSQL(k) = c /\ IsLeaf(k) BY <1>2 DEF innerSQL, IsRule
  <2>2. Says(s, c, MeansLeaf(s, k)) BY <2>1, LeafSays
  <2>3. MeansRule(s, k) <=> MeansLeaf(s, k) BY <1>2 DEF MeansRule, Conjunction
  <2> HIDE DEF c
  <2>4. Condition(c) /\ (Truth2(s, c) = "T" <=> MeansRule(s, k)) BY <2>2, <2>3 DEF Says
  <2>5. Truth3(s, c) = Truth2(s, c) /\ Truth2(s, c) \in Answers BY <2>4, ConditionTruth
  <2>6. c.k = "exists" => Truth3(s, c) = Atom(s, c) BY AtomTruth DEF IsAtom
  <2>7. QED BY <2>1, <2>4, <2>5, <2>6
<1>3. QED BY <1>1, <1>2

\* The statement finds the songs that the rules mean.
LEMMA RulesMean ==
    ASSUME RatingsKnown, NEW e, IsRules(e)
    PROVE  Matching(exprSQL(e)) = {s \in RuleSongs : Means(s, e)}
<1> DEFINE conds == {innerSQL(e.rules[i]) : i \in DOMAIN e.rules}
           w == Grouped(e.op, conds)
           D == conds \cup w.kids
<1>1. e.op \in {"all", "any"} /\ \A i \in DOMAIN e.rules : IsRule(e.rules[i]) BY DEF IsRules, IsRule, Conjunction
<1>2. exprSQL(e) = w BY DEF exprSQL
<1>3. ASSUME NEW s \in RuleSongs
      PROVE  Combine(w.k, {Truth3(s, d) : d \in w.kids}) = "T" <=> Means(s, e)
  <2> DEFINE t == [d \in D |-> Truth3(s, d)]
  <2>1. \A i \in DOMAIN e.rules :
            /\ Truth3(s, innerSQL(e.rules[i])) \in Answers
            /\ Truth3(s, innerSQL(e.rules[i])) = "T" <=> MeansRule(s, e.rules[i])
            /\ innerSQL(e.rules[i]).k = "exists" => Truth3(s, innerSQL(e.rules[i])) = Atom(s, innerSQL(e.rules[i]))
      BY <1>1, RuleSays
  <2>2. \A d \in D : t[d] = Truth3(s, d) OBVIOUS
  <2>3. {Truth3(s, d) : d \in w.kids} = AnswersOf(w.kids, t) BY <2>2 DEF AnswersOf
  <2>4. \A d \in conds : d \in D OBVIOUS
  <2>5. \A d \in D : d \in conds \/ d.k = "exists" BY MergedKinds
  <2>6. \A d \in conds : Truth3(s, d) \in Answers /\ (d.k = "exists" => Truth3(s, d) = Atom(s, d)) BY <2>1
  <2> HIDE DEF t, D
  <2>7. HasAnswers(s, D, t)
    <3>1. ASSUME NEW d \in D PROVE t[d] \in Answers /\ (d.k = "exists" => t[d] = Atom(s, d))
      <4>1. CASE d \in conds BY <2>2, <2>6, <4>1
      <4>2. CASE d.k = "exists"
        <5>1. IsAtom(d) BY <4>2 DEF IsAtom
        <5>2. QED BY <2>2, <5>1, AtomType, AtomTruth
      <4>3. QED BY <2>5, <4>1, <4>2
    <3>2. QED BY <3>1 DEF HasAnswers
  <2>8. PICK answer : answer = Combine(w.k, AnswersOf(w.kids, t)) OBVIOUS
  <2>9. answer = "T" <=> AllOrOne(e.op, conds, t)
    <3>1. w = Grouped(e.op, conds) /\ HasAnswers(s, conds \cup w.kids, t) BY <2>7 DEF D
    <3> HIDE DEF w, conds
    <3>2. PICK op \in {"all", "any"} : op = e.op BY <1>1
    <3>3. answer = "T" <=> AllOrOne(op, conds, t) BY <2>8, <3>1, <3>2, GroupedSays
    <3>4. QED BY <3>2, <3>3
  <2>10. AllOrOne(e.op, conds, t) <=> Means(s, e)
    <3>1. \A i \in DOMAIN e.rules : t[innerSQL(e.rules[i])] = "T" <=> MeansRule(s, e.rules[i]) BY <2>1, <2>2, <2>4
    <3>2. CASE e.op = "all"
      <4>1. Means(s, e) <=> \A i \in DOMAIN e.rules : MeansRule(s, e.rules[i]) BY <3>2 DEF Means, MeansRule
      <4>2. QED BY <3>1, <3>2, <4>1 DEF AllOrOne
    <3>3. CASE e.op = "any"
      <4>1. Means(s, e) <=> \E i \in DOMAIN e.rules : MeansRule(s, e.rules[i]) BY <3>3 DEF Means, MeansRule
      <4>2. QED BY <3>1, <3>3, <4>1 DEF AllOrOne
    <3>4. QED BY <1>1, <3>2, <3>3
  <2>11. QED BY <2>3, <2>8, <2>9, <2>10
<1> HIDE DEF w
<1>4. QED BY <1>2, <1>3 DEF Matching

-----------------------------------------------------------------------------
(* Refreshes *)

Lists == {"list", "child"}
Stages == {"idle", "delete", "child", "childInsert", "limit", "insert", "count", "stamp"}

RuleTypes ==
    /\ scene \in Scenes /\ RatingsKnown
    /\ refresh \in [Readers -> [at : Stages, limit : Nat]]
    /\ \A r \in Readers : refresh[r].at = "idle" => refresh[r] = NoRefresh
    /\ tracks \in [Lists -> SUBSET RuleSongs] /\ songCount \in [Lists -> Nat]
    /\ evaluated \in [Lists -> BOOLEAN] /\ filled \in [Lists -> BOOLEAN]
    /\ overlapped \in BOOLEAN /\ faulty \in Nat

LEMMA FoundIsFinite == ASSUME NEW S, S \subseteq RuleSongs PROVE IsFiniteSet(S) /\ Cardinality(S) \in Nat
BY SmartAssumption, FS_Subset, FS_CardinalityType DEF SmartAssumption

LEMMA LimitType == ASSUME NEW c \in Scenes, NEW total \in Nat PROVE EffectiveLimit(c, total) \in Nat
<1> DEFINE p == total * c.percent
<1>1. c.limit \in Nat /\ c.percent \in Nat BY SmartAssumption DEF SmartAssumption
<1>2. p \in Nat BY <1>1
<1> HIDE DEF p
<1>3. p \div 100 \in Nat BY <1>2
<1>4. EffectiveLimit(c, total) \in {c.limit, 1, p \div 100, 0} BY DEF EffectiveLimit, p
<1>5. QED BY <1>1, <1>3, <1>4

LEMMA RuleTypesInit == SmartInit => RuleTypes
<1> SUFFICES ASSUME SmartInit PROVE RuleTypes OBVIOUS
<1>1. RatingsKnown BY SmartAssumption DEF SmartInit, SmartAssumption, RatingsKnown
<1>2. NoRefresh \in [at : Stages, limit : Nat] BY DEF NoRefresh, Stages
<1>3. QED BY <1>1, <1>2 DEF SmartInit, RuleTypes, Lists

LEMMA MoveKeepsTypes ==
    ASSUME RuleTypes, NEW r \in Readers, NEW at \in Stages \ {"idle"}, Moves(r, at)
    PROVE  /\ refresh' \in [Readers -> [at : Stages, limit : Nat]]
           /\ \A q \in Readers : refresh'[q].at = "idle" => refresh'[q] = NoRefresh
           /\ refresh'[r].at = at /\ refresh'[r].limit = refresh[r].limit /\ \A q \in Readers \ {r} : refresh'[q] = refresh[q]
<1>1. refresh \in [Readers -> [at : Stages, limit : Nat]] BY DEF RuleTypes
<1>2. refresh' = [refresh EXCEPT ![r] = [refresh[r] EXCEPT !.at = at]] BY DEF Moves
<1>3. QED BY <1>1, <1>2 DEF RuleTypes

LEMMA EndKeepsTypes ==
    ASSUME RuleTypes, NEW r \in Readers, refresh' = [refresh EXCEPT ![r] = NoRefresh]
    PROVE  /\ refresh' \in [Readers -> [at : Stages, limit : Nat]]
           /\ \A q \in Readers : refresh'[q].at = "idle" => refresh'[q] = NoRefresh
           /\ refresh'[r].at = "idle" /\ \A q \in Readers \ {r} : refresh'[q] = refresh[q]
<1>1. refresh \in [Readers -> [at : Stages, limit : Nat]] BY DEF RuleTypes
<1>2. NoRefresh \in [at : Stages, limit : Nat] /\ NoRefresh.at = "idle" BY DEF NoRefresh, Stages
<1>3. QED BY <1>1, <1>2 DEF RuleTypes

\* The rows that a refresh inserts.
LEMMA InsertedRows ==
    ASSUME RuleTypes, NEW r \in Readers, InsertTracks(r)
    PROVE  /\ unknown' = unknown
           /\ \/ tracks["list"] # {} /\ refresh' = [refresh EXCEPT ![r] = NoRefresh] /\ tracks' = tracks /\ filled' = filled
              \/ /\ tracks["list"] = {} /\ Moves(r, "count") /\ filled' = [filled EXCEPT !["list"] = TRUE]
                 /\ \E sel \in Firsts(Matching(exprSQL(scene.rules)), scene, refresh[r].limit) :
                        sel \subseteq RuleSongs /\ tracks' = [tracks EXCEPT !["list"] = sel]
<1>1. (ExpressionJoins(scene) \cup joinType(scene.sort)) \ RequiredJoins(scene) = {} BY DEF RequiredJoins
<1>2. \A sel \in Firsts(Matching(exprSQL(scene.rules)), scene, refresh[r].limit) : sel \subseteq RuleSongs BY DEF Firsts, Matching
<1>3. CASE tracks["list"] # {} BY <1>1, <1>3 DEF InsertTracks
<1>4. CASE tracks["list"] = {} BY <1>1, <1>2, <1>4 DEF InsertTracks
<1>5. QED BY <1>3, <1>4

LEMMA RuleTypesNext == RuleTypes /\ [SmartNext]_smartVars => RuleTypes'
<1> SUFFICES ASSUME RuleTypes, [SmartNext]_smartVars PROVE RuleTypes' OBVIOUS
<1>1. ASSUME NEW r \in Readers, refreshSmartPlaylist(r) PROVE RuleTypes'
  <2>1. Moves(r, "delete") /\ overlapped' \in BOOLEAN BY <1>1 DEF refreshSmartPlaylist, RuleTypes
  <2>2. QED BY <1>1, <2>1, MoveKeepsTypes DEF refreshSmartPlaylist, RuleTypes, RatingsKnown, Stages
<1>2. ASSUME NEW r \in Readers, DeleteTracks(r) PROVE RuleTypes'
  <2>1. PICK at \in Stages \ {"idle"} : Moves(r, at) BY <1>2 DEF DeleteTracks, Stages
  <2>2. tracks' \in [Lists -> SUBSET RuleSongs] /\ filled' \in [Lists -> BOOLEAN] BY <1>2 DEF DeleteTracks, RuleTypes, Lists
  <2>3. QED BY <1>2, <2>1, <2>2, MoveKeepsTypes DEF DeleteTracks, RuleTypes, RatingsKnown
<1>3. ASSUME NEW r \in Readers, refreshChildPlaylists(r) PROVE RuleTypes'
  <2>1. PICK at \in Stages \ {"idle"} : Moves(r, at) BY <1>3 DEF refreshChildPlaylists, Stages
  <2>2. tracks' \in [Lists -> SUBSET RuleSongs] /\ filled' \in [Lists -> BOOLEAN] BY <1>3 DEF refreshChildPlaylists, RuleTypes, Lists
  <2>3. QED BY <1>3, <2>1, <2>2, MoveKeepsTypes DEF refreshChildPlaylists, RuleTypes, RatingsKnown
<1>4. ASSUME NEW r \in Readers, InsertChild(r) PROVE RuleTypes'
  <2>1. Moves(r, "limit") BY <1>4 DEF InsertChild
  <2>2. Matching(exprSQL(ChildRules)) \subseteq RuleSongs BY DEF Matching
  <2>3. Cardinality(Matching(exprSQL(ChildRules))) \in Nat BY <2>2, FoundIsFinite
  <2>4. /\ tracks' \in [Lists -> SUBSET RuleSongs] /\ songCount' \in [Lists -> Nat]
        /\ evaluated' \in [Lists -> BOOLEAN] /\ filled' \in [Lists -> BOOLEAN]
    <3> DEFINE M == Matching(exprSQL(ChildRules))
    <3>1. CASE tracks["child"] # {} BY <1>4, <3>1 DEF InsertChild, RuleTypes
    <3>2. CASE tracks["child"] = {}
      <4>1. /\ tracks' = [tracks EXCEPT !["child"] = M] /\ songCount' = [songCount EXCEPT !["child"] = Cardinality(M)]
            /\ evaluated' = [evaluated EXCEPT !["child"] = TRUE] /\ filled' = [filled EXCEPT !["child"] = TRUE]
          BY <1>4, <3>2 DEF InsertChild
      <4> HIDE DEF M
      <4>2. QED BY <2>2, <2>3, <4>1 DEF RuleTypes, Lists, M
    <3>3. QED BY <3>1, <3>2
  <2>5. QED BY <1>4, <2>1, <2>4, MoveKeepsTypes DEF InsertChild, RuleTypes, RatingsKnown, Stages
<1>5. ASSUME NEW r \in Readers, resolvePercentageLimit(r) PROVE RuleTypes'
  <2> DEFINE limit == EffectiveLimit(scene, Cardinality(Matching(exprSQL(scene.rules))))
  <2>1. limit \in Nat
    <3>1. Matching(exprSQL(scene.rules)) \subseteq RuleSongs BY DEF Matching
    <3>2. QED BY <3>1, FoundIsFinite, LimitType DEF RuleTypes
  <2>2. refresh' = [refresh EXCEPT ![r] = [at |-> "insert", limit |-> limit]] BY <1>5 DEF resolvePercentageLimit
  <2> HIDE DEF limit
  <2>3. QED BY <1>5, <2>1, <2>2 DEF resolvePercentageLimit, RuleTypes, RatingsKnown, Stages
<1>6. ASSUME NEW r \in Readers, InsertTracks(r) PROVE RuleTypes'
  <2>1. /\ UNCHANGED <<scene, ratings, songCount, evaluated, overlapped, faulty>> BY <1>6 DEF InsertTracks
  <2>2. tracks' \in [Lists -> SUBSET RuleSongs] /\ filled' \in [Lists -> BOOLEAN] BY <1>6, InsertedRows DEF RuleTypes, Lists
  <2>3. refresh' = [refresh EXCEPT ![r] = NoRefresh] \/ Moves(r, "count") BY <1>6, InsertedRows
  <2>4. QED BY <2>1, <2>2, <2>3, MoveKeepsTypes, EndKeepsTypes DEF RuleTypes, RatingsKnown, Stages
<1>7. ASSUME NEW r \in Readers, CountTracks(r) PROVE RuleTypes'
  <2>1. Cardinality(tracks["list"]) \in Nat BY FoundIsFinite DEF RuleTypes, Lists
  <2>2. Moves(r, "stamp") /\ songCount' \in [Lists -> Nat] BY <1>7, <2>1 DEF CountTracks, RuleTypes
  <2>3. QED BY <1>7, <2>2, MoveKeepsTypes DEF CountTracks, RuleTypes, RatingsKnown, Stages
<1>8. ASSUME NEW r \in Readers, StampEvaluation(r) PROVE RuleTypes'
  <2>1. evaluated' \in [Lists -> BOOLEAN] BY <1>8 DEF StampEvaluation, RuleTypes
  <2>2. QED BY <1>8, <2>1, EndKeepsTypes DEF StampEvaluation, RuleTypes, RatingsKnown
<1>9. ASSUME NEW r \in Readers, Fails(r) PROVE RuleTypes'
  <2>1. faulty' \in Nat BY <1>9 DEF Fails, RuleTypes
  <2>2. QED BY <1>9, <2>1, EndKeepsTypes DEF Fails, RuleTypes, RatingsKnown
<1>10. CASE DelayPasses
  <2>1. evaluated' \in [Lists -> BOOLEAN] BY <1>10 DEF DelayPasses, RuleTypes
  <2>2. QED BY <1>10, <2>1 DEF DelayPasses, RuleTypes, RatingsKnown
<1>11. CASE RateSong
  <2>1. RatingsKnown' BY <1>11 DEF RateSong, RuleTypes, RatingsKnown
  <2>2. QED BY <1>11, <2>1 DEF RateSong, RuleTypes
<1>12. CASE UNCHANGED smartVars BY <1>12 DEF smartVars, RuleTypes, RatingsKnown
<1>13. QED BY <1>1, <1>2, <1>3, <1>4, <1>5, <1>6, <1>7, <1>8, <1>9, <1>10, <1>11, <1>12 DEF SmartNext

\* While refreshes have not overlapped, at most one is in progress, of a
\* playlist that counts as old.
OneRefresh ==
    ~overlapped => \A r \in Readers : refresh[r].at # "idle" =>
        ~evaluated["list"] /\ \A q \in Readers : refresh[q].at # "idle" => q = r

\* Unless one fails beside another: a refresh that has the rows of no
\* evaluation before it does not reach its end before another inserts them, nor
\* does the time of the evaluation stand beside a stale count.
Sound == overlapped => faulty = 0
RowsAwaited ==
    ~filled["list"] =>
        /\ tracks["list"] = {}
        /\ evaluated["list"] \/ (\E r \in Readers : refresh[r].at \in {"count", "stamp"}) =>
              \E q \in Readers : refresh[q].at \in {"child", "childInsert", "limit", "insert"}
CountAwaited ==
    filled["list"] /\ songCount["list"] # Cardinality(tracks["list"])
        /\ (evaluated["list"] \/ \E r \in Readers : refresh[r].at = "stamp") =>
              \E q \in Readers : refresh[q].at = "count"

RefreshInv == RuleTypes /\ ~unknown /\ OneRefresh /\ (Sound => RowsAwaited /\ CountAwaited)

LEMMA RefreshInvInit == SmartInit => RefreshInv
<1> SUFFICES ASSUME SmartInit PROVE RefreshInv OBVIOUS
<1>1. \A r \in Readers : refresh[r].at = "idle" BY DEF SmartInit, NoRefresh
<1>2. OneRefresh BY <1>1 DEF OneRefresh
<1>3. RowsAwaited /\ CountAwaited BY <1>1 DEF RowsAwaited, CountAwaited, SmartInit
<1>4. QED BY <1>2, <1>3, RuleTypesInit DEF RefreshInv, SmartInit

\* A refresh alone moves.
LEMMA MoveKeepsOne ==
    ASSUME RefreshInv, NEW r \in Readers, refresh[r].at # "idle", \A q \in Readers \ {r} : refresh'[q] = refresh[q],
           overlapped' = overlapped, evaluated'["list"] = evaluated["list"] \/ refresh'[r].at = "idle"
    PROVE  OneRefresh'
BY DEF RefreshInv, OneRefresh

\* A refresh that goes on without writing what the playlist shows.
LEMMA QuietStep ==
    ASSUME RefreshInv, NEW r \in Readers, \A q \in Readers \ {r} : refresh'[q] = refresh[q],
           refresh'[r].at \in Stages, refresh'[r].at \notin {"idle", "count", "stamp"},
           refresh[r].at \in {"child", "childInsert", "limit", "insert"} => refresh'[r].at \in {"child", "childInsert", "limit", "insert"},
           refresh[r].at # "count",
           tracks'["list"] = tracks["list"], filled'["list"] = filled["list"], songCount'["list"] = songCount["list"],
           evaluated'["list"] = evaluated["list"], Sound' => Sound
    PROVE  Sound' => RowsAwaited' /\ CountAwaited'
<1> SUFFICES ASSUME Sound' PROVE RowsAwaited' /\ CountAwaited' OBVIOUS
<1>1. RowsAwaited /\ CountAwaited BY DEF RefreshInv
<1>2. RowsAwaited' BY <1>1 DEF RowsAwaited
<1>3. CountAwaited' BY <1>1 DEF CountAwaited
<1>4. QED BY <1>2, <1>3

LEMMA RefreshInvNext == RefreshInv /\ [SmartNext]_smartVars => RefreshInv'
<1> SUFFICES ASSUME RefreshInv, [SmartNext]_smartVars PROVE RefreshInv' OBVIOUS
<1> USE DEF Readers
<1>0. RuleTypes /\ RuleTypes' BY RuleTypesNext DEF RefreshInv
<1>1. ASSUME NEW r \in Readers, refreshSmartPlaylist(r) PROVE RefreshInv'
  <2>1. refresh'[r].at = "delete" /\ \A q \in Readers \ {r} : refresh'[q] = refresh[q]
      BY <1>0, <1>1, MoveKeepsTypes DEF refreshSmartPlaylist, Stages
  <2>2. refresh[r].at = "idle" /\ ~evaluated["list"] BY <1>1 DEF refreshSmartPlaylist, NoRefresh
  <2>3. \A q \in Readers : refresh[q].at # "idle" => refresh[q] # NoRefresh BY DEF NoRefresh
  <2>4. overlapped' = (overlapped \/ \E q \in Readers : refresh[q] # NoRefresh) /\ faulty' = faulty BY <1>1 DEF refreshSmartPlaylist
  <2>5. OneRefresh' BY <1>1, <2>1, <2>2, <2>3, <2>4 DEF OneRefresh, RefreshInv, refreshSmartPlaylist
  <2>6. Sound' => Sound BY <2>4 DEF Sound
  <2>7. Sound' => RowsAwaited' /\ CountAwaited' BY <1>1, <2>1, <2>2, <2>6, QuietStep DEF refreshSmartPlaylist, Stages
  <2>8. QED BY <1>0, <1>1, <2>5, <2>7 DEF RefreshInv, refreshSmartPlaylist
<1>2. ASSUME NEW r \in Readers, DeleteTracks(r) PROVE RefreshInv'
  <2>1. PICK at \in {"child", "limit"} : Moves(r, at) BY <1>2 DEF DeleteTracks
  <2>2. refresh'[r].at \in {"child", "limit"} /\ \A q \in Readers \ {r} : refresh'[q] = refresh[q]
      BY <1>0, <2>1, MoveKeepsTypes DEF Stages
  <2>3. OneRefresh' BY <1>2, <2>2, MoveKeepsOne DEF DeleteTracks
  <2>4. tracks'["list"] = {} /\ ~filled'["list"] BY <1>0, <1>2 DEF DeleteTracks, RuleTypes, Lists
  <2>5. RowsAwaited' /\ CountAwaited' BY <2>2, <2>4 DEF RowsAwaited, CountAwaited
  <2>6. QED BY <1>0, <1>2, <2>3, <2>5 DEF RefreshInv, DeleteTracks
<1>3. ASSUME NEW r \in Readers, refreshChildPlaylists(r) PROVE RefreshInv'
  <2>1. PICK at \in {"childInsert", "limit"} : Moves(r, at) BY <1>3 DEF refreshChildPlaylists
  <2>2. refresh'[r].at \in {"childInsert", "limit"} /\ \A q \in Readers \ {r} : refresh'[q] = refresh[q]
      BY <1>0, <2>1, MoveKeepsTypes DEF Stages
  <2>3. OneRefresh' BY <1>3, <2>2, MoveKeepsOne DEF refreshChildPlaylists
  <2>4. tracks'["list"] = tracks["list"] /\ filled'["list"] = filled["list"] BY <1>0, <1>3 DEF refreshChildPlaylists, RuleTypes, Lists
  <2>5. Sound' => Sound BY <1>3 DEF Sound, refreshChildPlaylists
  <2>6. Sound' => RowsAwaited' /\ CountAwaited' BY <1>3, <2>2, <2>4, <2>5, QuietStep DEF refreshChildPlaylists, Stages
  <2>7. QED BY <1>0, <1>3, <2>3, <2>6 DEF RefreshInv, refreshChildPlaylists
<1>4. ASSUME NEW r \in Readers, InsertChild(r) PROVE RefreshInv'
  <2>1. refresh'[r].at = "limit" /\ \A q \in Readers \ {r} : refresh'[q] = refresh[q]
      BY <1>0, <1>4, MoveKeepsTypes DEF InsertChild, Stages
  <2>2. /\ tracks'["list"] = tracks["list"] /\ filled'["list"] = filled["list"]
        /\ songCount'["list"] = songCount["list"] /\ evaluated'["list"] = evaluated["list"]
    <3>1. CASE tracks["child"] # {} BY <1>4, <3>1 DEF InsertChild
    <3>2. CASE tracks["child"] = {} BY <1>0, <1>4, <3>2 DEF InsertChild, RuleTypes, Lists
    <3>3. QED BY <3>1, <3>2
  <2>3. refresh[r].at = "childInsert" /\ UNCHANGED <<overlapped, faulty, unknown>> BY <1>4 DEF InsertChild
  <2>4. OneRefresh' BY <2>1, <2>2, <2>3, MoveKeepsOne
  <2>5. Sound' => Sound BY <2>3 DEF Sound
  <2>6. Sound' => RowsAwaited' /\ CountAwaited' BY <2>1, <2>2, <2>3, <2>5, QuietStep DEF Stages
  <2>7. QED BY <1>0, <2>3, <2>4, <2>6 DEF RefreshInv
<1>5. ASSUME NEW r \in Readers, resolvePercentageLimit(r) PROVE RefreshInv'
  <2>1. refresh'[r].at = "insert" /\ \A q \in Readers \ {r} : refresh'[q] = refresh[q] BY <1>0, <1>5 DEF resolvePercentageLimit, RuleTypes
  <2>2. OneRefresh' BY <1>5, <2>1, MoveKeepsOne DEF resolvePercentageLimit
  <2>3. Sound' => Sound BY <1>5 DEF Sound, resolvePercentageLimit
  <2>4. Sound' => RowsAwaited' /\ CountAwaited' BY <1>5, <2>1, <2>3, QuietStep DEF resolvePercentageLimit, Stages
  <2>5. QED BY <1>0, <1>5, <2>2, <2>4 DEF RefreshInv, resolvePercentageLimit
<1>6. ASSUME NEW r \in Readers, InsertTracks(r) PROVE RefreshInv'
  <2>1. refresh[r].at = "insert" /\ UNCHANGED <<songCount, evaluated, overlapped, faulty>> /\ unknown' = unknown BY <1>6, InsertedRows, <1>0 DEF InsertTracks
  <2>2. CASE /\ tracks["list"] # {} /\ refresh' = [refresh EXCEPT ![r] = NoRefresh] /\ tracks' = tracks /\ filled' = filled
    <3>1. refresh'[r].at = "idle" /\ \A q \in Readers \ {r} : refresh'[q] = refresh[q] BY <1>0, <2>2, EndKeepsTypes
    <3>2. OneRefresh' BY <2>1, <3>1, MoveKeepsOne
    <3>3. ASSUME Sound' PROVE RowsAwaited' /\ CountAwaited'
      <4>1. RowsAwaited /\ CountAwaited BY <2>1, <3>3 DEF RefreshInv, Sound
      <4>2. RowsAwaited' BY <2>2, <4>1 DEF RowsAwaited
      <4>3. CountAwaited' BY <2>1, <2>2, <3>1, <4>1 DEF CountAwaited
      <4>4. QED BY <4>2, <4>3
    <3>4. QED BY <1>0, <2>1, <3>2, <3>3 DEF RefreshInv
  <2>3. CASE tracks["list"] = {} /\ Moves(r, "count") /\ filled' = [filled EXCEPT !["list"] = TRUE]
    <3>1. refresh'[r].at = "count" /\ \A q \in Readers \ {r} : refresh'[q] = refresh[q] BY <1>0, <2>3, MoveKeepsTypes DEF Stages
    <3>2. OneRefresh' BY <2>1, <3>1, MoveKeepsOne
    <3>3. filled'["list"] BY <1>0, <2>3 DEF RuleTypes, Lists
    <3>4. RowsAwaited' /\ CountAwaited' BY <3>1, <3>3 DEF RowsAwaited, CountAwaited
    <3>5. QED BY <1>0, <2>1, <3>2, <3>4 DEF RefreshInv
  <2>4. QED BY <1>0, <1>6, <2>2, <2>3, InsertedRows
<1>7. ASSUME NEW r \in Readers, CountTracks(r) PROVE RefreshInv'
  <2>1. refresh'[r].at = "stamp" /\ \A q \in Readers \ {r} : refresh'[q] = refresh[q]
      BY <1>0, <1>7, MoveKeepsTypes DEF CountTracks, Stages
  <2>2. OneRefresh' BY <1>7, <2>1, MoveKeepsOne DEF CountTracks
  <2>3. songCount'["list"] = Cardinality(tracks["list"]) BY <1>0, <1>7 DEF CountTracks, RuleTypes, Lists
  <2>4. refresh[r].at = "count" /\ UNCHANGED <<tracks, evaluated, filled, overlapped, faulty, unknown>> BY <1>7 DEF CountTracks
  <2>5. ASSUME Sound' PROVE RowsAwaited' /\ CountAwaited'
    <3>1. RowsAwaited BY <2>4, <2>5 DEF RefreshInv, Sound
    <3>2. RowsAwaited' BY <2>1, <2>4, <3>1 DEF RowsAwaited
    <3>3. CountAwaited' BY <2>3, <2>4 DEF CountAwaited
    <3>4. QED BY <3>2, <3>3
  <2>6. QED BY <1>0, <2>2, <2>4, <2>5 DEF RefreshInv
<1>8. ASSUME NEW r \in Readers, StampEvaluation(r) PROVE RefreshInv'
  <2>1. refresh'[r].at = "idle" /\ \A q \in Readers \ {r} : refresh'[q] = refresh[q]
      BY <1>0, <1>8, EndKeepsTypes DEF StampEvaluation
  <2>2. refresh[r].at = "stamp" /\ UNCHANGED <<tracks, songCount, filled, overlapped, faulty, unknown>> BY <1>8 DEF StampEvaluation
  <2>3. OneRefresh' BY <2>1, <2>2, MoveKeepsOne
  <2>4. ASSUME Sound' PROVE RowsAwaited' /\ CountAwaited'
    <3>1. RowsAwaited /\ CountAwaited BY <2>2, <2>4 DEF RefreshInv, Sound
    <3>2. RowsAwaited' BY <2>1, <2>2, <3>1 DEF RowsAwaited
    <3>3. CountAwaited' BY <2>1, <2>2, <3>1 DEF CountAwaited
    <3>4. QED BY <3>2, <3>3
  <2>5. QED BY <1>0, <2>2, <2>3, <2>4 DEF RefreshInv
<1>9. ASSUME NEW r \in Readers, Fails(r) PROVE RefreshInv'
  <2>1. refresh'[r].at = "idle" /\ \A q \in Readers \ {r} : refresh'[q] = refresh[q] BY <1>0, <1>9, EndKeepsTypes DEF Fails
  <2>2. refresh[r].at # "idle" /\ faulty' = faulty + 1 /\ UNCHANGED <<tracks, songCount, evaluated, filled, overlapped, unknown>> BY <1>9 DEF Fails
  <2>3. OneRefresh' BY <2>1, <2>2, MoveKeepsOne
  <2>4. ASSUME Sound' PROVE RowsAwaited' /\ CountAwaited'
    <3>1. ~overlapped BY <1>0, <2>2, <2>4 DEF Sound, RuleTypes
    <3>2. RowsAwaited BY <3>1 DEF RefreshInv, Sound
    <3>3. ~evaluated["list"] /\ \A q \in Readers : refresh'[q].at = "idle" BY <2>1, <2>2, <3>1 DEF RefreshInv, OneRefresh
    <3>4. RowsAwaited' /\ CountAwaited' BY <2>2, <3>2, <3>3 DEF RowsAwaited, CountAwaited
    <3>5. QED BY <3>4
  <2>5. QED BY <1>0, <2>2, <2>3, <2>4 DEF RefreshInv
<1>10. CASE DelayPasses
  <2>1. evaluated'["list"] => evaluated["list"] BY <1>0, <1>10 DEF DelayPasses, RuleTypes, Lists
  <2>2. UNCHANGED <<scene, ratings, tracks, songCount, refresh, filled, overlapped, faulty, unknown>> BY <1>10 DEF DelayPasses
  <2>3. OneRefresh' BY <2>1, <2>2 DEF RefreshInv, OneRefresh
  <2>4. ASSUME Sound' PROVE RowsAwaited' /\ CountAwaited'
    <3>1. RowsAwaited /\ CountAwaited BY <2>2, <2>4 DEF RefreshInv, Sound
    <3>2. QED BY <2>1, <2>2, <3>1 DEF RowsAwaited, CountAwaited
  <2>5. QED BY <1>0, <2>2, <2>3, <2>4 DEF RefreshInv
<1>11. CASE RateSong
  <2>1. UNCHANGED <<scene, tracks, songCount, evaluated, refresh, filled, overlapped, faulty, unknown>> BY <1>11 DEF RateSong
  <2>2. QED BY <1>0, <2>1 DEF RefreshInv, OneRefresh, Sound, RowsAwaited, CountAwaited
<1>12. CASE UNCHANGED smartVars
  <2>1. UNCHANGED <<scene, tracks, songCount, evaluated, refresh, filled, overlapped, faulty, unknown>> BY <1>12 DEF smartVars
  <2>2. QED BY <1>0, <2>1 DEF RefreshInv, OneRefresh, Sound, RowsAwaited, CountAwaited
<1>13. QED BY <1>1, <1>2, <1>3, <1>4, <1>5, <1>6, <1>7, <1>8, <1>9, <1>10, <1>11, <1>12 DEF SmartNext

LEMMA RefreshInvHolds == RefreshInv => ColumnsAreJoined /\ RecentIsComplete
<1> SUFFICES ASSUME RefreshInv PROVE ColumnsAreJoined /\ RecentIsComplete OBVIOUS
<1>1. ColumnsAreJoined BY DEF RefreshInv, ColumnsAreJoined
<1>2. RecentIsComplete BY DEF RefreshInv, Sound, RowsAwaited, CountAwaited, RecentIsComplete
<1>3. QED BY <1>1, <1>2

\* The rows that one statement inserts are what the rules mean, up to the limit.
LEMMA InsertsWhatIsMeant ==
    RefreshInv /\ [SmartNext]_smartVars =>
        \A r \in Readers : refresh[r].at = "insert" /\ refresh'[r].at = "count" =>
          LET meant == {s \in RuleSongs : Means(s, scene.rules)}
          IN  /\ tracks'["list"] \subseteq meant
              /\ refresh[r].limit = 0 => tracks'["list"] = meant
              /\ Cardinality(tracks'["list"]) >= (IF refresh[r].limit < Cardinality(meant) THEN refresh[r].limit ELSE Cardinality(meant))
<1> SUFFICES ASSUME RefreshInv, [SmartNext]_smartVars, NEW r \in Readers, refresh[r].at = "insert", refresh'[r].at = "count"
             PROVE  LET meant == {s \in RuleSongs : Means(s, scene.rules)}
                    IN  /\ tracks'["list"] \subseteq meant
                        /\ refresh[r].limit = 0 => tracks'["list"] = meant
                        /\ Cardinality(tracks'["list"]) >= (IF refresh[r].limit < Cardinality(meant) THEN refresh[r].limit ELSE Cardinality(meant))
    OBVIOUS
<1> DEFINE meant == {s \in RuleSongs : Means(s, scene.rules)}
           found == Matching(exprSQL(scene.rules))
           limit == refresh[r].limit
<1>0. RuleTypes BY DEF RefreshInv
<1>1. InsertTracks(r)
  <2>1. ASSUME NEW q \in Readers, q # r, \A p \in Readers \ {q} : refresh'[p] = refresh[p] PROVE FALSE BY <2>1
  <2>2. ASSUME NEW q \in Readers, NEW at \in Stages \ {"idle", "count"}, Moves(q, at) PROVE FALSE BY <1>0, <2>1, <2>2, MoveKeepsTypes
  <2>3. ASSUME NEW q \in Readers, refresh' = [refresh EXCEPT ![q] = NoRefresh] PROVE FALSE BY <1>0, <2>1, <2>3, EndKeepsTypes
  <2>4. ASSUME NEW q \in Readers, refreshSmartPlaylist(q) PROVE FALSE BY <2>2, <2>4 DEF refreshSmartPlaylist, Stages
  <2>5. ASSUME NEW q \in Readers, DeleteTracks(q) PROVE FALSE BY <2>2, <2>5 DEF DeleteTracks, Stages
  <2>6. ASSUME NEW q \in Readers, refreshChildPlaylists(q) PROVE FALSE BY <2>2, <2>6 DEF refreshChildPlaylists, Stages
  <2>7. ASSUME NEW q \in Readers, InsertChild(q) PROVE FALSE BY <2>2, <2>7 DEF InsertChild, Stages
  <2>8. ASSUME NEW q \in Readers, resolvePercentageLimit(q) PROVE FALSE BY <1>0, <2>8 DEF resolvePercentageLimit, RuleTypes
  <2>9. ASSUME NEW q \in Readers, CountTracks(q) PROVE FALSE BY <2>2, <2>9 DEF CountTracks, Stages
  <2>10. ASSUME NEW q \in Readers, StampEvaluation(q) \/ Fails(q) PROVE FALSE BY <2>3, <2>10 DEF StampEvaluation, Fails
  <2>11. ASSUME NEW q \in Readers, InsertTracks(q), q # r PROVE FALSE
    <3>1. Moves(q, "count") \/ refresh' = [refresh EXCEPT ![q] = NoRefresh] BY <1>0, <2>11, InsertedRows
    <3>2. QED BY <1>0, <2>1, <2>11, <3>1, MoveKeepsTypes, EndKeepsTypes DEF Stages
  <2>12. refresh' # refresh OBVIOUS
  <2>13. QED BY <2>4, <2>5, <2>6, <2>7, <2>8, <2>9, <2>10, <2>11, <2>12 DEF SmartNext, DelayPasses, RateSong, smartVars
<1>2. ~(refresh' = [refresh EXCEPT ![r] = NoRefresh]) BY <1>0, EndKeepsTypes
<1>3. PICK sel \in Firsts(found, scene, limit) : tracks' = [tracks EXCEPT !["list"] = sel] BY <1>0, <1>1, <1>2, InsertedRows
<1>4. tracks'["list"] = sel BY <1>0, <1>3 DEF RuleTypes, Lists
<1>5. found = meant
  <2>1. IsRules(scene.rules) BY <1>0, SmartAssumption DEF SmartAssumption, RuleTypes
  <2>2. QED BY <1>0, <2>1, RulesMean DEF RuleTypes
<1>6. limit \in Nat BY <1>0 DEF RuleTypes
<1>7. found \subseteq RuleSongs /\ IsFiniteSet(found) /\ Cardinality(found) \in Nat BY FoundIsFinite DEF Matching
<1> HIDE DEF found, limit, meant
<1>8. sel \subseteq found /\ Cardinality(sel) = IF limit = 0 \/ limit > Cardinality(found) THEN Cardinality(found) ELSE limit BY <1>3 DEF Firsts
<1>9. limit = 0 => sel = found BY <1>7, <1>8, FS_Subset
<1>10. Cardinality(sel) >= IF limit < Cardinality(found) THEN limit ELSE Cardinality(found) BY <1>6, <1>7, <1>8
<1>11. QED BY <1>4, <1>5, <1>8, <1>9, <1>10 DEF limit, meant

\* Smart playlists (persistence/playlist_repository.go, criteria_sql.go): the
\* statement that fills one finds exactly the songs its rules mean, up to its
\* limit, with NULLs, defaults and merged subqueries; it names no table it does
\* not join; and a playlist that readers take as recent has the rows and the
\* count of an evaluation, unless a refresh failed beside another.
THEOREM RulesHold == SmartSpec => RulesAreFollowed
<1>1. SmartSpec => []RefreshInv BY RefreshInvInit, RefreshInvNext, PTL DEF SmartSpec
<1>2. SmartSpec => FilledByTheRules BY <1>1, InsertsWhatIsMeant, PTL DEF SmartSpec, FilledByTheRules
<1>3. SmartSpec => [](ColumnsAreJoined /\ RecentIsComplete) BY <1>1, RefreshInvHolds, PTL
<1>4. QED BY <1>2, <1>3 DEF RulesAreFollowed
=============================================================================
