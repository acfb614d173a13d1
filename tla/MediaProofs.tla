------------------------------ MODULE MediaProofs ------------------------------
(***************************************************************************)
(* Proofs about the components of MCMedia, each for itself: the watchers   *)
(* of libraries, transcoding, the image store, playback sessions and their *)
(* scrobbles, the jukebox and the editing of files.                        *)
(***************************************************************************)
EXTENDS LibraryWatchers, Transcoding, ImageStore, PlayTracker, BufferedScrobbler, Jukebox, MediaEditing,
        FiniteSetTheorems, SequenceTheorems, WellFoundedInduction, TLAPS

-------------------------------------------------------------------------------
(* LibraryWatchers                                                           *)

WatcherRecord == [lib : LibIds, path : LibPaths \cup {NoPath}, cancelled : BOOLEAN, running : BOOLEAN]
CallRecord == [op : {"watch", "stop"}, lib : LibIds, path : LibPaths \cup {NoPath}]

LibraryTypeOK ==
    /\ library \in [LibIds -> LibPaths \cup {NoPath}]
    /\ toWatch \subseteq [lib : LibIds, path : LibPaths]
    /\ registry \in [LibIds -> Watchers \cup {NoWatcher}]
    /\ started \in 0..MaxWatchers
    /\ watcher \in [Watchers -> WatcherRecord]
    /\ calls \subseteq CallRecord

\* The watchers that are still to be started do not run.
NotYetStarted == \A i \in Watchers : i > started => ~watcher[i].running

WatcherInv == LibraryTypeOK /\ NotYetStarted /\ NoOrphanWatcher /\ RegisteredIsAlive

\* A new watcher of a library takes the place of the old one, which is told to stop.
LEMMA WatchKeeps ==
    ASSUME WatcherInv, NEW l \in LibIds, NEW p \in LibPaths \cup {NoPath}, Watch(l, p), UNCHANGED library,
           toWatch' \subseteq toWatch, calls' \subseteq calls
    PROVE  WatcherInv'
  <1> DEFINE n == started + 1
  <1> USE LibraryAssumption DEF Watchers, NoWatcher
  <1>1. n \in Watchers /\ started' = n
    BY DEF Watch, WatcherInv, LibraryTypeOK
  <1>2. watcher[n].running = FALSE /\ registry[l] # n
    BY <1>1 DEF WatcherInv, LibraryTypeOK, NotYetStarted, RegisteredIsAlive, WatcherRecord
  <1>3. /\ watcher'[n] = [lib |-> l, path |-> p, cancelled |-> FALSE, running |-> TRUE]
        /\ \A i \in Watchers \ {n} : watcher'[i] = IF i = registry[l] THEN [watcher[i] EXCEPT !.cancelled = TRUE] ELSE watcher[i]
        /\ registry' = [registry EXCEPT ![l] = n]
    BY <1>1 DEF Watch
  <1>4. \A i \in Watchers \ {n} : /\ watcher'[i].lib = watcher[i].lib /\ watcher'[i].running = watcher[i].running
                                  /\ i # registry[l] => watcher'[i] = watcher[i]
                                  /\ i = registry[l] => watcher'[i].cancelled
    <2>1. \A i \in Watchers : watcher[i] \in WatcherRecord
      BY DEF WatcherInv, LibraryTypeOK
    <2>2. ASSUME NEW i \in Watchers \ {n}
          PROVE  /\ watcher'[i].lib = watcher[i].lib /\ watcher'[i].running = watcher[i].running
                 /\ i # registry[l] => watcher'[i] = watcher[i]
                 /\ i = registry[l] => watcher'[i].cancelled
      <3> HIDE DEF n
      <3>1. CASE i = registry[l]
        BY <1>3, <2>1, <3>1 DEF WatcherRecord
      <3>2. CASE i # registry[l]
        BY <1>3, <3>2
      <3> QED
        BY <3>1, <3>2
    <2> QED
      BY <2>2
  <1>5. LibraryTypeOK'
    <2>1. watcher' \in [Watchers -> WatcherRecord]
      BY DEF Watch, WatcherInv, LibraryTypeOK, WatcherRecord
    <2> QED
      BY <1>1, <1>3, <2>1 DEF WatcherInv, LibraryTypeOK
  <1>6. NotYetStarted'
    BY <1>1, <1>4 DEF WatcherInv, NotYetStarted, LibraryTypeOK
  <1>7. NoOrphanWatcher'
    <2> SUFFICES ASSUME NEW i \in Watchers, watcher'[i].running, ~watcher'[i].cancelled
                 PROVE  registry'[watcher'[i].lib] = i
      BY DEF NoOrphanWatcher
    <2>1. CASE i = n
      BY <2>1, <1>3 DEF WatcherInv, LibraryTypeOK
    <2>2. CASE i # n
      <3>1. watcher[i].running /\ ~watcher[i].cancelled /\ i # registry[l] /\ watcher'[i].lib = watcher[i].lib
        BY <2>2, <1>4
      <3>2. registry[watcher[i].lib] = i /\ watcher[i].lib \in LibIds
        BY <3>1 DEF WatcherInv, NoOrphanWatcher, LibraryTypeOK, WatcherRecord
      <3> QED
        BY <3>1, <3>2, <1>3 DEF WatcherInv, LibraryTypeOK
    <2> QED
      BY <2>1, <2>2
  <1>8. RegisteredIsAlive'
    <2> SUFFICES ASSUME NEW m \in LibIds, registry'[m] # NoWatcher
                 PROVE  watcher'[registry'[m]].running /\ ~watcher'[registry'[m]].cancelled /\ watcher'[registry'[m]].lib = m
      BY DEF RegisteredIsAlive
    <2>1. CASE m = l
      BY <2>1, <1>3 DEF WatcherInv, LibraryTypeOK
    <2>2. CASE m # l
      <3>1. registry'[m] = registry[m] /\ registry[m] \in Watchers
        BY <2>2, <1>3 DEF WatcherInv, LibraryTypeOK
      <3>2. watcher[registry[m]].running /\ ~watcher[registry[m]].cancelled /\ watcher[registry[m]].lib = m
        BY <3>1 DEF WatcherInv, RegisteredIsAlive
      <3>3. registry[m] # n
        BY <1>2, <3>2
      <3>4. registry[m] # registry[l]
        BY <2>2, <3>1, <3>2 DEF WatcherInv, RegisteredIsAlive
      <3> QED
        BY <1>4, <3>1, <3>2, <3>3, <3>4
    <2> QED
      BY <2>1, <2>2
  <1> QED
    BY <1>5, <1>6, <1>7, <1>8 DEF WatcherInv

\* A library that is no longer watched has no entry, and its watcher is told.
LEMMA StopKeeps ==
    ASSUME WatcherInv, NEW l \in LibIds, StopWatching(l), UNCHANGED <<library, toWatch>>, calls' \subseteq calls
    PROVE  WatcherInv'
  <1> USE LibraryAssumption DEF Watchers, NoWatcher
  <1>1. /\ \A i \in Watchers : watcher'[i] = IF i = registry[l] THEN [watcher[i] EXCEPT !.cancelled = TRUE] ELSE watcher[i]
        /\ registry' = [registry EXCEPT ![l] = NoWatcher] /\ started' = started
    BY DEF StopWatching
  <1>2. \A i \in Watchers : /\ watcher'[i].lib = watcher[i].lib /\ watcher'[i].running = watcher[i].running
                            /\ i # registry[l] => watcher'[i] = watcher[i]
                            /\ i = registry[l] => watcher'[i].cancelled
    BY <1>1 DEF WatcherInv, LibraryTypeOK, WatcherRecord
  <1>3. LibraryTypeOK'
    <2>1. watcher' \in [Watchers -> WatcherRecord]
      BY DEF StopWatching, WatcherInv, LibraryTypeOK, WatcherRecord
    <2> QED
      BY <1>1, <2>1 DEF WatcherInv, LibraryTypeOK
  <1>4. NotYetStarted'
    BY <1>1, <1>2 DEF WatcherInv, NotYetStarted
  <1>5. NoOrphanWatcher'
    <2> SUFFICES ASSUME NEW i \in Watchers, watcher'[i].running, ~watcher'[i].cancelled
                 PROVE  registry'[watcher'[i].lib] = i
      BY DEF NoOrphanWatcher
    <2>1. watcher[i].running /\ ~watcher[i].cancelled /\ i # registry[l] /\ watcher'[i].lib = watcher[i].lib
      BY <1>2
    <2>2. registry[watcher[i].lib] = i /\ watcher[i].lib \in LibIds
      BY <2>1 DEF WatcherInv, NoOrphanWatcher, LibraryTypeOK, WatcherRecord
    <2> QED
      BY <2>1, <2>2, <1>1 DEF WatcherInv, LibraryTypeOK
  <1>6. RegisteredIsAlive'
    <2> SUFFICES ASSUME NEW m \in LibIds, registry'[m] # NoWatcher
                 PROVE  watcher'[registry'[m]].running /\ ~watcher'[registry'[m]].cancelled /\ watcher'[registry'[m]].lib = m
      BY DEF RegisteredIsAlive
    <2>1. m # l /\ registry'[m] = registry[m] /\ registry[m] \in Watchers
      BY <1>1 DEF WatcherInv, LibraryTypeOK
    <2>2. watcher[registry[m]].running /\ ~watcher[registry[m]].cancelled /\ watcher[registry[m]].lib = m
      BY <2>1 DEF WatcherInv, RegisteredIsAlive
    <2>3. registry[m] # registry[l]
      BY <2>1, <2>2 DEF WatcherInv, RegisteredIsAlive
    <2> QED
      BY <1>2, <2>1, <2>2, <2>3
  <1> QED
    BY <1>3, <1>4, <1>5, <1>6 DEF WatcherInv

\* A watcher that ends removes its own entry only.
LEMMA EndKeeps ==
    ASSUME WatcherInv, NEW i \in Watchers, WatcherEnds(i)
    PROVE  WatcherInv'
  <1> USE LibraryAssumption DEF Watchers, NoWatcher
  <1>1. /\ \A k \in Watchers \ {i} : watcher'[k] = watcher[k]
        /\ watcher'[i].running = FALSE
        /\ \A l \in LibIds : registry'[l] = IF registry[l] = i THEN NoWatcher ELSE registry[l]
    BY DEF WatcherEnds, WatcherInv, LibraryTypeOK, WatcherRecord
  <1>2. LibraryTypeOK'
    BY DEF WatcherEnds, WatcherInv, LibraryTypeOK, WatcherRecord
  <1>3. NotYetStarted'
    BY <1>1 DEF WatcherEnds, WatcherInv, NotYetStarted
  <1>4. NoOrphanWatcher'
    BY <1>1 DEF WatcherInv, NoOrphanWatcher, LibraryTypeOK, WatcherRecord
  <1>5. RegisteredIsAlive'
    BY <1>1 DEF WatcherInv, RegisteredIsAlive, LibraryTypeOK
  <1> QED
    BY <1>2, <1>3, <1>4, <1>5 DEF WatcherInv

LEMMA WatcherStep == WatcherInv /\ [LibraryNext]_libVars => WatcherInv'
  <1> SUFFICES ASSUME WatcherInv, [LibraryNext]_libVars PROVE WatcherInv'
    OBVIOUS
  <1>1. CASE Run
    BY <1>1 DEF Run, WatcherInv, LibraryTypeOK, NotYetStarted, NoOrphanWatcher, RegisteredIsAlive
  <1>2. CASE RunWatches
    BY <1>2, WatchKeeps DEF RunWatches, WatcherInv, LibraryTypeOK
  <1>3. CASE CallWatcher
    <2>1. PICK c \in calls :
            /\ calls' = calls \ {c}
            /\ \/ Watch(c.lib, c.path)
               \/ UNCHANGED <<registry, started, watcher>>
               \/ StopWatching(c.lib)
            /\ UNCHANGED <<library, mainCtx, toWatch>>
      BY <1>3 DEF CallWatcher
    <2>2. c.lib \in LibIds /\ c.path \in LibPaths \cup {NoPath} /\ calls' \subseteq calls
      BY <2>1 DEF WatcherInv, LibraryTypeOK, CallRecord
    <2>3. CASE Watch(c.lib, c.path)
      BY <2>1, <2>2, <2>3, WatchKeeps
    <2>4. CASE StopWatching(c.lib)
      BY <2>1, <2>2, <2>4, StopKeeps
    <2>5. CASE UNCHANGED <<registry, started, watcher>>
      BY <2>1, <2>5 DEF WatcherInv, LibraryTypeOK, NotYetStarted, NoOrphanWatcher, RegisteredIsAlive
    <2> QED
      BY <2>1, <2>3, <2>4, <2>5
  <1>4. ASSUME NEW i \in Watchers, WatcherEnds(i) PROVE WatcherInv'
    BY <1>4, EndKeeps
  <1>5. ASSUME NEW l \in LibIds, Delete(l) \/ \E p \in LibPaths : Save(l, p) \/ Update(l, p) PROVE WatcherInv'
    BY <1>5 DEF Delete, Save, Update, Call, WatcherInv, LibraryTypeOK, CallRecord, NotYetStarted, NoOrphanWatcher, RegisteredIsAlive
  <1>6. CASE UNCHANGED libVars
    BY <1>6 DEF libVars, WatcherInv, LibraryTypeOK, NotYetStarted, NoOrphanWatcher, RegisteredIsAlive
  <1> QED
    BY <1>1, <1>2, <1>3, <1>4, <1>5, <1>6 DEF LibraryNext

\* The registry and the running watchers are the same, in whatever order the
\* requests of administrators, Run and the ends of watchers fall.
THEOREM RegistryIsExact == LibrarySpec => []WatchersAreRegistered
  <1>1. LibraryInit => WatcherInv
    BY LibraryAssumption DEF LibraryInit, WatcherInv, LibraryTypeOK, WatcherRecord, NotYetStarted, NoOrphanWatcher, RegisteredIsAlive, Watchers, NoWatcher
  <1>2. WatcherInv => WatchersAreRegistered
    BY DEF WatcherInv, WatchersAreRegistered
  <1> QED
    BY <1>1, <1>2, WatcherStep, PTL DEF LibrarySpec

-------------------------------------------------------------------------------
(* Transcoding                                                               *)

FillSteps == {"idle", "lost", "retry", "missed", "reserved", "acquired", "copying", "copied",
              "unmarked", "marked", "failed", "done"}
DataRecord == [file : Requests \cup {OnDisk}, whole : BOOLEAN]

StreamTypeOK ==
    /\ ask \in [Requests -> [key : Keys, user : Listening]]
    /\ fill \in [Requests -> FillSteps]
    /\ cached \in [Keys -> Requests \cup {OnDisk, Nothing}]
    /\ data \in [Keys -> DataRecord \cup {Nothing}]
    /\ removing \subseteq [key : Keys, file : Requests \cup {OnDisk}]
    /\ perUser \in [Listening -> Nat] /\ global \in Nat
    /\ crossed \in BOOLEAN

\* SlotsAreHeld, for finitely many transcodes at a time.
SlotInv ==
    /\ SlotsAreHeld
    /\ IsFiniteSet(Holders) /\ \A u \in Listening : IsFiniteSet(UserHolders(u))

\* One element more or less.
LEMMA OneMoreOrLess ==
    ASSUME NEW S, IsFiniteSet(S), NEW r
    PROVE  /\ Cardinality(S) \in Nat
           /\ IsFiniteSet(S \cup {r}) /\ IsFiniteSet(S \ {r})
           /\ r \in S => Cardinality(S \cup {r}) = Cardinality(S) /\ Cardinality(S \ {r}) = Cardinality(S) - 1 /\ Cardinality(S) > 0
           /\ r \notin S => Cardinality(S \cup {r}) = Cardinality(S) + 1 /\ Cardinality(S \ {r}) = Cardinality(S)
  <1>1. Cardinality(S) \in Nat
    BY FS_CardinalityType
  <1>2. IsFiniteSet(S \cup {r}) /\ Cardinality(S \cup {r}) = IF r \in S THEN Cardinality(S) ELSE Cardinality(S) + 1
    BY FS_AddElement
  <1>3. IsFiniteSet(S \ {r}) /\ Cardinality(S \ {r}) = IF r \in S THEN Cardinality(S) - 1 ELSE Cardinality(S)
    BY FS_RemoveElement
  <1>4. r \in S => Cardinality(S) > 0
    <2>1. r \in S => S # {}
      OBVIOUS
    <2> QED
      BY <1>1, <2>1, FS_EmptySet
  <1> QED
    BY <1>1, <1>2, <1>3, <1>4

\* A slot of each level goes with the step of a request: the counters follow
\* when they change by what the step changes.
OfAll(s) == IF s \in {"acquired", "copying"} THEN 1 ELSE 0
OfUser(s) == IF s \in {"reserved", "acquired", "copying"} THEN 1 ELSE 0

LEMMA SlotsMove ==
    ASSUME StreamTypeOK, SlotInv, NEW r \in Requests, NEW s \in FillSteps,
           fill' = [fill EXCEPT ![r] = s], UNCHANGED ask,
           global' = IF MaxConcurrent > 0 THEN global + OfAll(s) - OfAll(fill[r]) ELSE global,
           perUser' = [perUser EXCEPT ![ask[r].user] = IF UserLimited(r) THEN @ + OfUser(s) - OfUser(fill[r]) ELSE @]
    PROVE  SlotInv' /\ global' \in Nat /\ perUser' \in [Listening -> Nat]
  <1>1. \A q \in Requests : fill'[q] = IF q = r THEN s ELSE fill[q]
    BY DEF StreamTypeOK
  <1>2. \A q \in Requests : UserLimited(q)' = UserLimited(q)
    BY DEF UserLimited
  <1>3. /\ Holders' = IF OfAll(s) = 1 THEN Holders \cup {r} ELSE Holders \ {r}
        /\ r \in Holders <=> OfAll(fill[r]) = 1
    BY <1>1 DEF Holders, OfAll
  <1>4. IsFiniteSet(Holders') /\ global' = (IF MaxConcurrent > 0 THEN Cardinality(Holders') ELSE 0) /\ global' \in Nat
    <2>1. IsFiniteSet(Holders) /\ global = IF MaxConcurrent > 0 THEN Cardinality(Holders) ELSE 0
      BY DEF SlotInv, SlotsAreHeld
    <2>2. OfAll(s) \in {0, 1} /\ OfAll(fill[r]) \in {0, 1}
      BY DEF OfAll
    <2>3. /\ Cardinality(Holders) \in Nat
          /\ IsFiniteSet(Holders \cup {r}) /\ IsFiniteSet(Holders \ {r})
          /\ r \in Holders => Cardinality(Holders \cup {r}) = Cardinality(Holders) /\ Cardinality(Holders \ {r}) = Cardinality(Holders) - 1 /\ Cardinality(Holders) > 0
          /\ r \notin Holders => Cardinality(Holders \cup {r}) = Cardinality(Holders) + 1 /\ Cardinality(Holders \ {r}) = Cardinality(Holders)
      BY <2>1, OneMoreOrLess
    <2>4. MaxConcurrent \in Nat
      BY TranscodingAssumption
    <2>5. CASE OfAll(s) = 1
      BY <1>3, <2>1, <2>2, <2>3, <2>4, <2>5
    <2>6. CASE OfAll(s) = 0
      BY <1>3, <2>1, <2>2, <2>3, <2>4, <2>6
    <2> QED
      BY <2>2, <2>5, <2>6
  <1>5. ASSUME NEW u \in Listening
        PROVE  IsFiniteSet(UserHolders(u)') /\ perUser'[u] = Cardinality(UserHolders(u)') /\ perUser'[u] \in Nat
    <2>1. IsFiniteSet(UserHolders(u)) /\ perUser[u] = Cardinality(UserHolders(u))
      BY DEF SlotInv, SlotsAreHeld
    <2>2. CASE ~(ask[r].user = u /\ UserLimited(r))
      <3>1. UserHolders(u)' = UserHolders(u)
        BY <1>1, <1>2, <2>2 DEF UserHolders
      <3>2. perUser'[u] = perUser[u]
        BY <2>2 DEF StreamTypeOK
      <3> QED
        BY <2>1, <3>1, <3>2, FS_CardinalityType
    <2>3. CASE ask[r].user = u /\ UserLimited(r)
      <3>1. /\ UserHolders(u)' = IF OfUser(s) = 1 THEN UserHolders(u) \cup {r} ELSE UserHolders(u) \ {r}
            /\ r \in UserHolders(u) <=> OfUser(fill[r]) = 1
        BY <1>1, <1>2, <2>3 DEF UserHolders, OfUser
      <3>2. perUser'[u] = perUser[u] + OfUser(s) - OfUser(fill[r])
        BY <2>3 DEF StreamTypeOK
      <3>3. OfUser(s) \in {0, 1} /\ OfUser(fill[r]) \in {0, 1}
        BY DEF OfUser
      <3> DEFINE S == UserHolders(u)
      <3>4. /\ Cardinality(S) \in Nat
            /\ IsFiniteSet(S \cup {r}) /\ IsFiniteSet(S \ {r})
            /\ r \in S => Cardinality(S \cup {r}) = Cardinality(S) /\ Cardinality(S \ {r}) = Cardinality(S) - 1 /\ Cardinality(S) > 0
            /\ r \notin S => Cardinality(S \cup {r}) = Cardinality(S) + 1 /\ Cardinality(S \ {r}) = Cardinality(S)
        BY <2>1, OneMoreOrLess
      <3>5. CASE OfUser(s) = 1
        BY <2>1, <3>1, <3>2, <3>3, <3>4, <3>5
      <3>6. CASE OfUser(s) = 0
        BY <2>1, <3>1, <3>2, <3>3, <3>4, <3>6
      <3> QED
        BY <3>3, <3>5, <3>6
    <2> QED
      BY <2>2, <2>3
  <1>6. perUser' \in [Listening -> Nat]
    <2>1. DOMAIN perUser' = Listening /\ perUser' = [u \in Listening |-> perUser'[u]]
      BY DEF StreamTypeOK
    <2> QED
      BY <1>5, <2>1
  <1> QED
    BY <1>4, <1>5, <1>6 DEF SlotInv, SlotsAreHeld

\* A step that is about no slot leaves the counters alone.
LEMMA SlotsStay ==
    ASSUME StreamTypeOK, SlotInv, NEW r \in Requests, NEW s \in FillSteps,
           fill' = [fill EXCEPT ![r] = s], UNCHANGED <<ask, global, perUser>>,
           OfAll(s) = OfAll(fill[r]), OfUser(s) = OfUser(fill[r])
    PROVE  SlotInv' /\ global' \in Nat /\ perUser' \in [Listening -> Nat]
  <1>1. \A q \in Requests : fill'[q] = IF q = r THEN s ELSE fill[q]
    BY DEF StreamTypeOK
  <1>2. Holders' = Holders
    BY <1>1 DEF Holders, OfAll
  <1>3. \A u \in Listening : UserHolders(u)' = UserHolders(u)
    BY <1>1 DEF UserHolders, UserLimited, OfUser
  <1> QED
    BY <1>2, <1>3 DEF SlotInv, SlotsAreHeld, StreamTypeOK

\* Every way a request goes on, and a restart, keeps the counters right.
LEMMA SlotStep ==
    ASSUME StreamTypeOK, SlotInv, [TranscodingNext]_streamVars
    PROVE  SlotInv' /\ global' \in Nat /\ perUser' \in [Listening -> Nat]
  <1> DEFINE Goal == SlotInv' /\ global' \in Nat /\ perUser' \in [Listening -> Nat]
  <1> USE DEF slotVars, cacheVars
  <1>1. ASSUME NEW r \in Requests, Get(r) PROVE Goal
    <2>1. fill[r] \in {"idle", "retry"} /\ UNCHANGED <<ask, global, perUser>>
      BY <1>1 DEF Get
    <2>2. PICK s \in {"missed", "done", "lost"} : fill' = [fill EXCEPT ![r] = s]
      BY <1>1 DEF Get, createDataFile
    <2> QED
      BY <2>1, <2>2, SlotsStay DEF OfAll, OfUser, FillSteps
  <1>2. ASSUME NEW r \in Requests, InvalidateLost(r) PROVE Goal
    BY <1>2, SlotsStay DEF InvalidateLost, OfAll, OfUser, FillSteps
  <1>3. ASSUME NEW r \in Requests, NoCommand(r) PROVE Goal
    BY <1>3, SlotsStay DEF NoCommand, GivesUp, OfAll, OfUser, FillSteps
  <1>4. ASSUME NEW r \in Requests, AcquireUser(r) PROVE Goal
    <2>1. CASE fill' = [fill EXCEPT ![r] = "failed"] /\ UNCHANGED slotVars
      BY <1>4, <2>1, SlotsStay DEF AcquireUser, GivesUp, OfAll, OfUser, FillSteps
    <2>2. CASE fill' = [fill EXCEPT ![r] = "reserved"]
      <3>1. UNCHANGED <<ask, global>> /\ fill[r] = "missed"
        BY <1>4, <2>2 DEF AcquireUser, GivesUp
      <3>2. perUser' = [perUser EXCEPT ![ask[r].user] = IF UserLimited(r) THEN @ + 1 ELSE @]
        <4>1. CASE UserLimited(r)
          <5>1. fill'[r] = "reserved"
            BY <2>2 DEF StreamTypeOK
          <5>2. ~GivesUp(r)
            BY <5>1 DEF GivesUp, StreamTypeOK
          <5> QED
            BY <1>4, <4>1, <5>2 DEF AcquireUser
        <4>2. CASE ~UserLimited(r)
          <5>1. perUser' = perUser
            BY <1>4, <2>2, <4>2 DEF AcquireUser, GivesUp
          <5>2. perUser = [perUser EXCEPT ![ask[r].user] = perUser[ask[r].user]]
            BY DEF StreamTypeOK
          <5> QED
            BY <4>2, <5>1, <5>2
        <4> QED
          BY <4>1, <4>2
      <3>3. perUser[ask[r].user] \in Nat /\ ask[r].user \in Listening
        BY DEF StreamTypeOK
      <3>4. perUser' = [perUser EXCEPT ![ask[r].user] = IF UserLimited(r) THEN @ + OfUser("reserved") - OfUser(fill[r]) ELSE @]
        BY <3>1, <3>2, <3>3 DEF OfUser
      <3>5. global' = IF MaxConcurrent > 0 THEN global + OfAll("reserved") - OfAll(fill[r]) ELSE global
        BY <3>1 DEF OfAll, StreamTypeOK
      <3>6. "reserved" \in FillSteps
        BY DEF FillSteps
      <3> QED
        BY <2>2, <3>1, <3>4, <3>5, <3>6, SlotsMove
    <2> QED
      BY <1>4, <2>1, <2>2 DEF AcquireUser, GivesUp
  <1>5. ASSUME NEW r \in Requests, AcquireGlobal(r) PROVE Goal
    <2>1. ask' = ask /\ fill[r] = "reserved" /\ perUser[ask[r].user] \in Nat
      BY <1>5 DEF AcquireGlobal, GivesUp, StreamTypeOK
    <2>2. CASE fill' = [fill EXCEPT ![r] = "failed"] /\ releasePerUser(r) /\ UNCHANGED global
      <3>1. perUser' = [perUser EXCEPT ![ask[r].user] = IF UserLimited(r) THEN @ + OfUser("failed") - OfUser(fill[r]) ELSE @]
        <4>1. OfUser("failed") = 0 /\ OfUser(fill[r]) = 1
          BY <2>1 DEF OfUser
        <4>2. perUser[ask[r].user] - 1 = perUser[ask[r].user] + OfUser("failed") - OfUser(fill[r])
          BY <2>1, <4>1
        <4> QED
          BY <2>2, <4>2 DEF releasePerUser
      <3>2. global' = IF MaxConcurrent > 0 THEN global + OfAll("failed") - OfAll(fill[r]) ELSE global
        BY <2>1, <2>2 DEF OfAll, StreamTypeOK
      <3>3. "failed" \in FillSteps
        BY DEF FillSteps
      <3> QED
        BY <2>1, <2>2, <3>1, <3>2, <3>3, SlotsMove
    <2>3. CASE /\ fill' = [fill EXCEPT ![r] = "acquired"] /\ UNCHANGED perUser
               /\ global' = IF MaxConcurrent > 0 THEN global + 1 ELSE global
      <3>1. perUser' = [perUser EXCEPT ![ask[r].user] = IF UserLimited(r) THEN @ + OfUser("acquired") - OfUser(fill[r]) ELSE @]
        BY <2>1, <2>3 DEF OfUser, StreamTypeOK
      <3>2. global' = IF MaxConcurrent > 0 THEN global + OfAll("acquired") - OfAll(fill[r]) ELSE global
        BY <2>1, <2>3 DEF OfAll, StreamTypeOK
      <3>3. "acquired" \in FillSteps
        BY DEF FillSteps
      <3> QED
        BY <2>1, <2>3, <3>1, <3>2, <3>3, SlotsMove
    <2> QED
      BY <1>5, <2>2, <2>3 DEF AcquireGlobal, GivesUp
  <1>6. ASSUME NEW r \in Requests, NEW s \in {"failed", "copied", "unmarked"}, fill[r] \in {"acquired", "copying"},
               fill' = [fill EXCEPT ![r] = s], release(r), UNCHANGED ask
        PROVE  Goal
    <2>1. perUser[ask[r].user] \in Nat /\ global \in Nat
      BY DEF StreamTypeOK
    <2>2. perUser' = [perUser EXCEPT ![ask[r].user] = IF UserLimited(r) THEN @ + OfUser(s) - OfUser(fill[r]) ELSE @]
      <3>1. OfUser(s) = 0 /\ OfUser(fill[r]) = 1
        BY <1>6 DEF OfUser
      <3>2. perUser[ask[r].user] - 1 = perUser[ask[r].user] + OfUser(s) - OfUser(fill[r])
        BY <2>1, <3>1
      <3> QED
        BY <1>6, <3>2 DEF release, releasePerUser
    <2>3. global' = IF MaxConcurrent > 0 THEN global + OfAll(s) - OfAll(fill[r]) ELSE global
      BY <1>6, <2>1 DEF release, OfAll
    <2>4. s \in FillSteps
      BY DEF FillSteps
    <2> QED
      BY <1>6, <2>2, <2>3, <2>4, SlotsMove
  <1>7. ASSUME NEW r \in Requests, Transcode(r) PROVE Goal
    <2>1. CASE fill' = [fill EXCEPT ![r] = "copying"] /\ UNCHANGED <<ask, slotVars>>
      BY <1>7, <2>1, SlotsStay DEF Transcode, OfAll, OfUser, FillSteps
    <2>2. CASE GivesUp(r) /\ release(r)
      BY <1>7, <2>2, <1>6 DEF Transcode, GivesUp
    <2> QED
      BY <1>7, <2>1, <2>2 DEF Transcode
  <1>8. ASSUME NEW r \in Requests, NEW ok \in BOOLEAN, CopyEnds(r, ok) PROVE Goal
    BY <1>8, <1>6 DEF CopyEnds
  <1>9. ASSUME NEW r \in Requests, markComplete(r) \/ CloseWriter(r) \/ Invalidate(r) PROVE Goal
    <2>1. fill[r] \in {"copied", "marked", "unmarked", "failed"} /\ UNCHANGED <<ask, global, perUser>>
      BY <1>9 DEF markComplete, CloseWriter, Invalidate
    <2>2. PICK s \in {"marked", "done", "failed"} : fill' = [fill EXCEPT ![r] = s]
      BY <1>9 DEF markComplete, CloseWriter, Invalidate
    <2> QED
      BY <2>1, <2>2, SlotsStay DEF OfAll, OfUser, FillSteps
  <1>10. CASE UNCHANGED <<ask, fill, global, perUser>>
    BY <1>10 DEF SlotInv, SlotsAreHeld, Holders, UserHolders, UserLimited, StreamTypeOK
  <1>11. CASE Reload
    <2>1. Holders' = {} /\ \A u \in Listening : UserHolders(u)' = {}
      BY <1>11 DEF Reload, Holders, UserHolders
    <2>2. global' = 0 /\ \A u \in Listening : perUser'[u] = 0
      BY <1>11 DEF Reload
    <2>3. perUser' \in [Listening -> Nat]
      BY <1>11 DEF Reload
    <2> QED
      BY <2>1, <2>2, <2>3, FS_EmptySet DEF SlotInv, SlotsAreHeld
  <1>12. ASSUME NEW r \in Requests, CloseReader(r) PROVE Goal
    BY <1>12, <1>10 DEF CloseReader
  <1>13. CASE (\E p \in removing : Removed(p)) \/ (\E k \in Keys : Scrub(k)) \/ UNCHANGED streamVars
    BY <1>13, <1>10 DEF Removed, Scrub, streamVars
  <1> QED
    BY <1>1, <1>2, <1>3, <1>4, <1>5, <1>7, <1>8, <1>9, <1>11, <1>12, <1>13 DEF TranscodingNext, Producer, Copier

LEMMA StreamTypes ==
    ASSUME StreamTypeOK, SlotInv, [TranscodingNext]_streamVars
    PROVE  StreamTypeOK'
  <1>1. global' \in Nat /\ perUser' \in [Listening -> Nat]
    BY SlotStep
  <1> DEFINE Rest == /\ ask' \in [Requests -> [key : Keys, user : Listening]]
                     /\ fill' \in [Requests -> FillSteps]
                     /\ cached' \in [Keys -> Requests \cup {OnDisk, Nothing}]
                     /\ data' \in [Keys -> DataRecord \cup {Nothing}]
                     /\ removing' \subseteq [key : Keys, file : Requests \cup {OnDisk}]
                     /\ crossed' \in BOOLEAN
  <1> USE DEF slotVars, cacheVars, FillSteps
  <1>2. ASSUME NEW r \in Requests, Get(r) PROVE Rest
    <2>1. ask[r].key \in Keys
      BY DEF StreamTypeOK
    <2>2. [file |-> r, whole |-> FALSE] \in DataRecord
      BY DEF DataRecord
    <2>3. CASE createDataFile(r)
      BY <1>2, <2>1, <2>2, <2>3 DEF Get, createDataFile, StreamTypeOK
    <2>4. CASE UNCHANGED <<cached, data>> /\ \E s \in {"done", "lost"} : fill' = [fill EXCEPT ![r] = s]
      BY <1>2, <2>4 DEF Get, StreamTypeOK
    <2> QED
      BY <1>2, <2>3, <2>4 DEF Get
  <1>3. ASSUME NEW r \in Requests, NEW own \in BOOLEAN, Forgets(ask[r].key, own),
               \E s \in {"retry", "done"} : fill' = [fill EXCEPT ![r] = s], UNCHANGED <<ask, data>>
        PROVE  Rest
    <2>1. ask[r].key \in Keys
      BY DEF StreamTypeOK
    <2>2. crossed' \in BOOLEAN
      BY <1>3 DEF Forgets, StreamTypeOK
    <2>3. removing' \subseteq [key : Keys, file : Requests \cup {OnDisk}]
      BY <1>3, <2>1 DEF Forgets, StreamTypeOK
    <2>4. cached' \in [Keys -> Requests \cup {OnDisk, Nothing}]
      BY <1>3, <2>1 DEF Forgets, StreamTypeOK
    <2> QED
      BY <1>3, <2>2, <2>3, <2>4 DEF StreamTypeOK
  <1>4. ASSUME NEW r \in Requests, \E s \in FillSteps : fill' = [fill EXCEPT ![r] = s],
               UNCHANGED <<ask, cached, data, removing, crossed>>
        PROVE  Rest
    BY <1>4 DEF StreamTypeOK
  <1>5. ASSUME NEW r \in Requests, Producer(r) PROVE Rest
    BY <1>4, <1>5 DEF Producer, NoCommand, AcquireUser, AcquireGlobal, Transcode, GivesUp
  <1>6. ASSUME NEW r \in Requests, NEW ok \in BOOLEAN, CopyEnds(r, ok) PROVE Rest
    <2>1. ASSUME NEW k \in Keys, data[k] # Nothing PROVE [data[k] EXCEPT !.whole = ok] \in DataRecord
      BY <2>1 DEF StreamTypeOK, DataRecord
    <2>2. data' \in [Keys -> DataRecord \cup {Nothing}]
      BY <1>6, <2>1 DEF CopyEnds, StreamTypeOK
    <2> QED
      BY <1>6, <2>2 DEF CopyEnds, StreamTypeOK
  <1>7. ASSUME NEW r \in Requests, InvalidateLost(r) \/ Invalidate(r) PROVE Rest
    BY <1>3, <1>7 DEF InvalidateLost, Invalidate
  <1>8. ASSUME NEW r \in Requests, markComplete(r) \/ CloseWriter(r) PROVE Rest
    BY <1>4, <1>8 DEF markComplete, CloseWriter
  <1>9. ASSUME NEW r \in Requests, CloseReader(r) PROVE Rest
    BY <1>9 DEF CloseReader, StreamTypeOK
  <1>10. ASSUME NEW p \in removing, Removed(p) PROVE Rest
    <2>1. crossed' \in BOOLEAN
      BY <1>10 DEF Removed, StreamTypeOK
    <2> QED
      BY <1>10, <2>1 DEF Removed, StreamTypeOK
  <1>11. ASSUME NEW k \in Keys, Scrub(k) PROVE Rest
    BY <1>11 DEF Scrub, StreamTypeOK
  <1>12. ASSUME Reload PROVE Rest
    <2>1. ASSUME NEW k \in Keys, data[k] # Nothing PROVE [data[k] EXCEPT !.file = OnDisk] \in DataRecord
      BY <2>1 DEF StreamTypeOK, DataRecord
    <2>2. data' \in [Keys -> DataRecord \cup {Nothing}]
      BY <1>12, <2>1 DEF Reload, StreamTypeOK
    <2>3. cached' \in [Keys -> Requests \cup {OnDisk, Nothing}]
      BY <1>12 DEF Reload
    <2> QED
      BY <1>12, <2>2, <2>3 DEF Reload, StreamTypeOK
  <1>13. ASSUME UNCHANGED streamVars PROVE Rest
    BY <1>13 DEF streamVars, StreamTypeOK
  <1> HIDE DEF Rest
  <1>14. Rest
    <2>1. CASE \E r \in Requests : Get(r) \/ InvalidateLost(r) \/ Producer(r) \/ Copier(r) \/ CloseReader(r)
      <3>1. PICK r \in Requests : Get(r) \/ InvalidateLost(r) \/ Producer(r) \/ Copier(r) \/ CloseReader(r)
        BY <2>1
      <3>2. CASE Copier(r)
        BY <1>6, <1>7, <1>8, <3>2 DEF Copier
      <3> QED
        BY <1>2, <1>5, <1>7, <1>9, <3>1, <3>2
    <2>2. CASE \E p \in removing : Removed(p)
      BY <1>10, <2>2
    <2>3. CASE \E k \in Keys : Scrub(k)
      BY <1>11, <2>3
    <2>4. CASE TranscodingNext
      BY <1>12, <2>1, <2>2, <2>3, <2>4 DEF TranscodingNext
    <2> QED
      BY <1>13, <2>4
  <1> QED
    BY <1>1, <1>14 DEF Rest, StreamTypeOK

\* The steps at which a request is filling its entry, and those after which it
\* may be cached.
Filling == {"missed", "reserved", "acquired", "copying", "copied", "unmarked", "marked"}
Started == Filling \cup {"failed", "done"}

\* An entry and the file at its path are one request's.
EntryHasItsFile ==
    \A k \in Keys : cached[k] # Nothing =>
        /\ data[k] # Nothing /\ data[k].file = cached[k]
        /\ cached[k] = OnDisk => data[k].whole
        /\ cached[k] \in Requests => ask[cached[k]].key = k /\ fill[cached[k]] \in Started

\* A request that is filling owns its entry, which stays open; none is lost.
FillerOwnsEntry ==
    \A r \in Requests :
        /\ fill[r] \notin {"lost", "retry"}
        /\ fill[r] \in Filling => cached[ask[r].key] = r
        /\ r \in final => fill[r] \in {"failed", "done"}
        /\ fill[r] \in {"copied", "marked"} => data[ask[r].key].whole

\* A marker is made for a whole file that is still cached.
MarkedIsWhole ==
    \A k \in complete :
        /\ k \in Keys /\ cached[k] # Nothing /\ data[k].whole
        /\ cached[k] \in Requests => fill[cached[k]] \in {"marked", "done"}

\* What is being removed is not the entry any more.
RemovalsAreOld ==
    \A p \in removing : /\ cached[p.key] # p.file
                        /\ p.file \in Requests => fill[p.file] \in Started

CacheInv == EntryHasItsFile /\ FillerOwnsEntry /\ MarkedIsWhole /\ RemovalsAreOld

\* What happened to others stays: no step takes back that a removal was late.
LEMMA CrossedStays == ASSUME StreamTypeOK, [TranscodingNext]_streamVars, crossed PROVE crossed'
  <1> USE DEF slotVars, cacheVars
  <1>1. ASSUME NEW r \in Requests, Get(r) \/ Producer(r) \/ CloseReader(r) PROVE crossed'
    BY <1>1 DEF Get, Producer, NoCommand, AcquireUser, AcquireGlobal, Transcode, GivesUp, CloseReader
  <1>2. ASSUME NEW r \in Requests, InvalidateLost(r) PROVE crossed'
    BY <1>2 DEF InvalidateLost, Forgets
  <1>3. ASSUME NEW r \in Requests, Copier(r) PROVE crossed'
    BY <1>3 DEF Copier, CopyEnds, markComplete, CloseWriter, Invalidate, Forgets
  <1>4. ASSUME NEW p \in removing, Removed(p) PROVE crossed'
    BY <1>4 DEF Removed
  <1>5. CASE (\E k \in Keys : Scrub(k)) \/ Reload \/ UNCHANGED streamVars
    BY <1>5 DEF Scrub, Reload, streamVars
  <1> QED
    BY <1>1, <1>2, <1>3, <1>4, <1>5 DEF TranscodingNext

\* Nothing takes the entry or the file of another request unless a removal
\* came too late.
LEMMA CacheStep ==
    ASSUME StreamTypeOK, StreamTypeOK', crossed \/ CacheInv, [TranscodingNext]_streamVars, ~crossed'
    PROVE  CacheInv'
  <1> USE DEF slotVars, cacheVars, Filling, Started
  <1>1. ~crossed
    BY CrossedStays
  <1>2. CacheInv
    BY <1>1
  <1>3. Nothing \notin Requests \cup {OnDisk} /\ OnDisk \notin Requests /\ Nothing \notin DataRecord
    BY TranscodingAssumption DEF DataRecord
  <1>4. ASSUME NEW r \in Requests, Get(r) PROVE CacheInv'
    <2> DEFINE k == ask[r].key
    <2>1. /\ k \in Keys /\ fill[r] = "idle"
          /\ UNCHANGED <<ask, final, complete, removing>>
      BY <1>2, <1>4 DEF Get, CacheInv, FillerOwnsEntry, StreamTypeOK
    <2>2. CASE cached[k] = Nothing /\ createDataFile(r)
      <3>1. /\ cached' = [cached EXCEPT ![k] = r] /\ fill' = [fill EXCEPT ![r] = "missed"]
            /\ data' = [data EXCEPT ![k] = [file |-> r, whole |-> FALSE]]
        BY <2>2 DEF createDataFile
      <3>2. /\ \A q \in Requests : fill'[q] = IF q = r THEN "missed" ELSE fill[q]
            /\ \A l \in Keys : cached'[l] = IF l = k THEN r ELSE cached[l]
            /\ \A l \in Keys : data'[l] = IF l = k THEN [file |-> r, whole |-> FALSE] ELSE data[l]
        BY <2>1, <3>1 DEF StreamTypeOK
      <3>3. [file |-> r, whole |-> FALSE] \in DataRecord
        BY DEF DataRecord
      <3>4. EntryHasItsFile'
        <4> SUFFICES ASSUME NEW l \in Keys, cached'[l] # Nothing
                     PROVE  /\ data'[l] # Nothing /\ data'[l].file = cached'[l]
                            /\ cached'[l] = OnDisk => data'[l].whole
                            /\ cached'[l] \in Requests => ask'[cached'[l]].key = l /\ fill'[cached'[l]] \in Started
          BY DEF EntryHasItsFile
        <4>1. CASE l = k
          BY <1>3, <2>1, <3>2, <3>3, <4>1
        <4>2. CASE l # k
          <5>1. /\ cached'[l] = cached[l] /\ data'[l] = data[l]
                /\ data[l] # Nothing /\ data[l].file = cached[l]
                /\ cached[l] = OnDisk => data[l].whole
                /\ cached[l] \in Requests => ask[cached[l]].key = l /\ fill[cached[l]] \in Started
            BY <1>2, <3>2, <4>2 DEF CacheInv, EntryHasItsFile
          <5> QED
            BY <2>1, <3>2, <5>1
        <4> QED
          BY <4>1, <4>2
      <3>5. FillerOwnsEntry'
        BY <1>2, <1>3, <2>1, <2>2, <3>2 DEF CacheInv, FillerOwnsEntry, StreamTypeOK
      <3>6. MarkedIsWhole'
        BY <1>2, <1>3, <2>1, <2>2, <3>2 DEF CacheInv, MarkedIsWhole, EntryHasItsFile
      <3>7. RemovalsAreOld'
        BY <1>2, <1>3, <2>1, <3>2 DEF CacheInv, RemovalsAreOld, StreamTypeOK
      <3> QED
        BY <3>4, <3>5, <3>6, <3>7 DEF CacheInv
    <2>3. CASE UNCHANGED <<cached, data>> /\ fill' = [fill EXCEPT ![r] = "done"]
      <3>1. \A q \in Requests : fill'[q] = IF q = r THEN "done" ELSE fill[q]
        BY <2>3 DEF StreamTypeOK
      <3> QED
        BY <1>2, <1>3, <2>1, <2>3, <3>1 DEF CacheInv, EntryHasItsFile, FillerOwnsEntry, MarkedIsWhole, RemovalsAreOld
    <2> QED
      BY <1>2, <1>4, <2>1, <2>2, <2>3 DEF Get, CacheInv, EntryHasItsFile
  <1>5. ASSUME NEW r \in Requests, NEW s \in Started, fill' = [fill EXCEPT ![r] = s],
               UNCHANGED <<ask, cached, data, complete, removing>>,
               final' = final \/ (final' = final \cup {r} /\ s \in {"failed", "done"}),
               fill[r] \in Started, fill[r] \in {"failed", "done"} => s \in {"failed", "done"}, s \in Filling => fill[r] \in Filling,
               s \in {"copied", "marked"} => fill[r] \in {"copied", "marked"},
               fill[r] \in {"marked", "done"} => s \in {"marked", "done"}
        PROVE  CacheInv'
    <2>1. \A q \in Requests : fill'[q] = IF q = r THEN s ELSE fill[q]
      BY <1>5 DEF StreamTypeOK
    <2>2. \A q \in final' : q \in final \/ (q = r /\ s \in {"failed", "done"})
      BY <1>5
    <2>3. EntryHasItsFile'
      BY <1>2, <1>5, <2>1 DEF CacheInv, EntryHasItsFile
    <2>4. FillerOwnsEntry'
      BY <1>2, <1>5, <2>1, <2>2 DEF CacheInv, FillerOwnsEntry
    <2>5. MarkedIsWhole'
      BY <1>2, <1>5, <2>1 DEF CacheInv, MarkedIsWhole
    <2>6. RemovalsAreOld'
      BY <1>2, <1>5, <2>1 DEF CacheInv, RemovalsAreOld
    <2> QED
      BY <2>3, <2>4, <2>5, <2>6 DEF CacheInv
  <1>6. ASSUME NEW r \in Requests, Producer(r) PROVE CacheInv'
    <2>1. fill[r] \in {"missed", "reserved", "acquired"} /\ UNCHANGED <<ask, cached, data, complete, removing>>
      BY <1>6 DEF Producer, NoCommand, AcquireUser, AcquireGlobal, Transcode, GivesUp
    <2>2. \/ final' = final /\ \E s \in {"reserved", "acquired", "copying"} : fill' = [fill EXCEPT ![r] = s]
          \/ final' = final \cup {r} /\ fill' = [fill EXCEPT ![r] = "failed"]
      BY <1>6 DEF Producer, NoCommand, AcquireUser, AcquireGlobal, Transcode, GivesUp
    <2>3. ASSUME NEW s \in {"reserved", "acquired", "copying"}, final' = final, fill' = [fill EXCEPT ![r] = s]
          PROVE  CacheInv'
      <3>1. /\ s \in Started
            /\ fill[r] \in Started
            /\ fill[r] \in {"failed", "done"} => s \in {"failed", "done"}
            /\ s \in Filling => fill[r] \in Filling
            /\ s \in {"copied", "marked"} => fill[r] \in {"copied", "marked"}
            /\ fill[r] \in {"marked", "done"} => s \in {"marked", "done"}
        BY <2>1
      <3>2. UNCHANGED <<ask, cached, data, complete, removing>>
        BY <2>1
      <3>3. final' = final \/ (final' = final \cup {r} /\ s \in {"failed", "done"})
        BY <2>3
      <3> HIDE DEF Filling, Started
      <3> QED
        BY <1>5, <2>3, <3>1, <3>2, <3>3
    <2>4. CASE final' = final \cup {r} /\ fill' = [fill EXCEPT ![r] = "failed"]
      BY <1>5, <2>1, <2>4
    <2> QED
      BY <2>2, <2>3, <2>4
  <1>7. ASSUME NEW r \in Requests, NEW ok \in BOOLEAN, CopyEnds(r, ok) PROVE CacheInv'
    <2> DEFINE k == ask[r].key
               s == IF ok THEN "copied" ELSE "unmarked"
    <2>1. /\ fill[r] = "copying" /\ k \in Keys /\ cached[k] = r /\ fill' = [fill EXCEPT ![r] = s]
          /\ UNCHANGED <<ask, cached, final, complete, removing>>
      BY <1>2, <1>7 DEF CopyEnds, CacheInv, FillerOwnsEntry, StreamTypeOK
    <2>2. \A q \in Requests : fill'[q] = IF q = r THEN s ELSE fill[q]
      BY <2>1 DEF StreamTypeOK
    <2>3. ASSUME NEW l \in Keys, cached[l] # Nothing
          PROVE  /\ data'[l] # Nothing /\ data'[l].file = cached[l]
                 /\ l # k => data'[l] = data[l]
                 /\ l = k => data'[l].whole = ok
      <3>1. data[l] \in DataRecord /\ data[l].file = cached[l] /\ (cached[l] \in Requests => ask[cached[l]].key = l)
        BY <1>2, <2>3 DEF CacheInv, EntryHasItsFile, StreamTypeOK
      <3>2. data[l].file = r <=> l = k
        BY <2>1, <3>1
      <3>3. data'[l] = IF l = k THEN [data[l] EXCEPT !.whole = ok] ELSE data[l]
        BY <1>3, <1>7, <3>1, <3>2 DEF CopyEnds
      <3>4. [data[l] EXCEPT !.whole = ok] \in DataRecord
        BY <3>1 DEF DataRecord
      <3>5. [data[l] EXCEPT !.whole = ok].file = data[l].file /\ [data[l] EXCEPT !.whole = ok].whole = ok
        BY <3>1 DEF DataRecord
      <3> QED
        BY <1>3, <3>1, <3>3, <3>4, <3>5
    <2>4. EntryHasItsFile'
      BY <1>2, <1>3, <2>1, <2>2, <2>3 DEF CacheInv, EntryHasItsFile
    <2>5. FillerOwnsEntry'
      BY <1>2, <1>3, <2>1, <2>2, <2>3 DEF CacheInv, FillerOwnsEntry, StreamTypeOK
    <2>6. k \notin complete
      BY <1>2, <2>1 DEF CacheInv, MarkedIsWhole
    <2>7. MarkedIsWhole'
      BY <1>2, <2>1, <2>2, <2>3, <2>6 DEF CacheInv, MarkedIsWhole
    <2>8. RemovalsAreOld'
      BY <1>2, <2>1, <2>2 DEF CacheInv, RemovalsAreOld
    <2> QED
      BY <2>4, <2>5, <2>7, <2>8 DEF CacheInv
  <1>8. ASSUME NEW r \in Requests, markComplete(r) PROVE CacheInv'
    <2>1. /\ fill[r] = "copied" /\ fill' = [fill EXCEPT ![r] = "marked"] /\ complete' = complete \cup {ask[r].key}
          /\ UNCHANGED <<ask, cached, data, final, removing>>
      BY <1>8 DEF markComplete
    <2>2. \A q \in Requests : fill'[q] = IF q = r THEN "marked" ELSE fill[q]
      BY <2>1 DEF StreamTypeOK
    <2>3. ask[r].key \in Keys /\ cached[ask[r].key] = r /\ data[ask[r].key].whole
      BY <1>2, <2>1 DEF CacheInv, FillerOwnsEntry, StreamTypeOK
    <2>4. EntryHasItsFile' /\ FillerOwnsEntry' /\ RemovalsAreOld'
      BY <1>2, <2>1, <2>2 DEF CacheInv, EntryHasItsFile, FillerOwnsEntry, RemovalsAreOld
    <2>5. MarkedIsWhole'
      BY <1>2, <1>3, <2>1, <2>2, <2>3 DEF CacheInv, MarkedIsWhole
    <2> QED
      BY <2>4, <2>5 DEF CacheInv
  <1>9. ASSUME NEW r \in Requests, CloseWriter(r) PROVE CacheInv'
    <2>1. /\ fill[r] \in {"marked", "unmarked"} /\ UNCHANGED <<ask, cached, data, complete, removing>>
          /\ final' = final \cup {r} /\ fill' = [fill EXCEPT ![r] = IF fill[r] = "marked" THEN "done" ELSE "failed"]
      BY <1>9 DEF CloseWriter
    <2>2. PICK s \in {"done", "failed"} : fill' = [fill EXCEPT ![r] = s] /\ (fill[r] = "marked" => s = "done")
      BY <2>1
    <2> QED
      BY <1>5, <2>1, <2>2
  <1>10. ASSUME NEW r \in Requests, Invalidate(r) PROVE CacheInv'
    <2> DEFINE k == ask[r].key
    <2>1. /\ fill[r] = "failed" /\ fill' = [fill EXCEPT ![r] = "done"] /\ Forgets(k, cached[k] = r)
          /\ UNCHANGED <<ask, final, data, complete>> /\ k \in Keys
      BY <1>10 DEF Invalidate, StreamTypeOK
    <2>2. cached[k] \in {Nothing, r}
      BY <2>1 DEF Forgets
    <2>3. /\ \A q \in Requests : fill'[q] = IF q = r THEN "done" ELSE fill[q]
          /\ \A l \in Keys : cached'[l] = IF l = k THEN Nothing ELSE cached[l]
      BY <2>1 DEF StreamTypeOK, Forgets
    <2>4. removing' \subseteq removing \cup {[key |-> k, file |-> r]}
      BY <2>1, <2>2 DEF Forgets
    <2>5. EntryHasItsFile' /\ FillerOwnsEntry'
      BY <1>2, <1>3, <2>1, <2>2, <2>3 DEF CacheInv, EntryHasItsFile, FillerOwnsEntry, StreamTypeOK
    <2>6. k \notin complete
      BY <1>2, <1>3, <2>1, <2>2 DEF CacheInv, MarkedIsWhole
    <2>7. MarkedIsWhole'
      BY <1>2, <2>1, <2>3, <2>6 DEF CacheInv, MarkedIsWhole
    <2>8. RemovalsAreOld'
      BY <1>2, <1>3, <2>1, <2>3, <2>4 DEF CacheInv, RemovalsAreOld, StreamTypeOK
    <2> QED
      BY <2>5, <2>7, <2>8 DEF CacheInv
  <1>11. ASSUME NEW p \in removing, Removed(p) PROVE CacheInv'
    <2>1. /\ p.key \in Keys /\ UNCHANGED <<ask, fill, cached, final>>
          /\ removing' = removing \ {p} /\ complete' = complete \ {p.key}
          /\ \A l \in Keys : data'[l] = IF l = p.key THEN Nothing ELSE data[l]
      BY <1>11 DEF Removed, StreamTypeOK
    <2>2. data[p.key] = Nothing \/ data[p.key].file = p.file
      BY <1>11 DEF Removed
    <2>3. cached[p.key] = Nothing
      BY <1>2, <2>1, <2>2 DEF CacheInv, EntryHasItsFile, RemovalsAreOld
    <2>4. EntryHasItsFile'
      BY <1>2, <2>1, <2>3 DEF CacheInv, EntryHasItsFile
    <2>5. FillerOwnsEntry'
      BY <1>2, <1>3, <2>1, <2>3 DEF CacheInv, FillerOwnsEntry, StreamTypeOK
    <2>6. MarkedIsWhole' /\ RemovalsAreOld'
      BY <1>2, <2>1 DEF CacheInv, MarkedIsWhole, RemovalsAreOld
    <2> QED
      BY <2>4, <2>5, <2>6 DEF CacheInv
  <1>12. ASSUME NEW k \in Keys, Scrub(k) PROVE CacheInv'
    <2>1. /\ UNCHANGED <<ask, fill, final, removing>> /\ complete' = complete \ {k}
          /\ \A l \in Keys : data'[l] = IF l = k THEN Nothing ELSE data[l]
          /\ \A l \in Keys : cached'[l] = IF l = k THEN Nothing ELSE cached[l]
      BY <1>12 DEF Scrub, StreamTypeOK
    <2>2. cached[k] \in final \cup {OnDisk}
      BY <1>12 DEF Scrub
    <2>3. EntryHasItsFile'
      BY <1>2, <2>1 DEF CacheInv, EntryHasItsFile
    <2>4. FillerOwnsEntry'
      BY <1>2, <1>3, <2>1, <2>2 DEF CacheInv, FillerOwnsEntry, StreamTypeOK
    <2>5. MarkedIsWhole'
      BY <1>2, <2>1 DEF CacheInv, MarkedIsWhole
    <2>6. RemovalsAreOld'
      BY <1>2, <1>3, <2>1 DEF CacheInv, RemovalsAreOld, StreamTypeOK
    <2> QED
      BY <2>3, <2>4, <2>5, <2>6 DEF CacheInv
  <1>13. CASE Reload
    <2>1. /\ UNCHANGED ask /\ final' = {} /\ removing' = {}
          /\ \A q \in Requests : fill'[q] \in {"idle", "done"}
      BY <1>13 DEF Reload
    <2>2. ASSUME NEW l \in Keys
          PROVE  /\ l \notin complete => cached'[l] = Nothing
                 /\ l \in complete => /\ cached'[l] = OnDisk /\ data'[l] # Nothing
                                      /\ data'[l].file = OnDisk /\ data'[l].whole
      <3>1. CASE l \in complete
        <4>1. cached[l] # Nothing /\ data[l] \in DataRecord /\ data[l].whole
          BY <1>2, <3>1 DEF CacheInv, MarkedIsWhole, EntryHasItsFile, StreamTypeOK
        <4>2. cached'[l] = OnDisk /\ data'[l] = [data[l] EXCEPT !.file = OnDisk]
          BY <1>3, <1>13, <3>1, <4>1 DEF Reload
        <4>3. [data[l] EXCEPT !.file = OnDisk] \in DataRecord /\ [data[l] EXCEPT !.file = OnDisk].file = OnDisk
              /\ [data[l] EXCEPT !.file = OnDisk].whole = data[l].whole
          BY <4>1 DEF DataRecord
        <4> QED
          BY <1>3, <3>1, <4>1, <4>2, <4>3
      <3>2. CASE l \notin complete
        BY <1>13, <3>2 DEF Reload
      <3> QED
        BY <3>1, <3>2
    <2>3. complete' \subseteq complete
      BY <1>13 DEF Reload
    <2>4. EntryHasItsFile'
      BY <1>3, <2>2 DEF EntryHasItsFile
    <2>5. FillerOwnsEntry' /\ RemovalsAreOld'
      BY <2>1 DEF FillerOwnsEntry, RemovalsAreOld
    <2>6. MarkedIsWhole'
      BY <1>2, <1>3, <2>2, <2>3 DEF CacheInv, MarkedIsWhole
    <2> QED
      BY <2>4, <2>5, <2>6 DEF CacheInv
  <1>14. ASSUME NEW r \in Requests, InvalidateLost(r) PROVE CacheInv'
    BY <1>2, <1>14 DEF InvalidateLost, CacheInv, FillerOwnsEntry
  <1>15. CASE (\E r \in Requests : CloseReader(r)) \/ UNCHANGED streamVars
    BY <1>2, <1>15 DEF CloseReader, streamVars, CacheInv, EntryHasItsFile, FillerOwnsEntry, MarkedIsWhole, RemovalsAreOld
  <1>16. ASSUME NEW r \in Requests, Copier(r) PROVE CacheInv'
    BY <1>7, <1>8, <1>9, <1>10, <1>16 DEF Copier
  <1> QED
    BY <1>4, <1>6, <1>11, <1>12, <1>13, <1>14, <1>15, <1>16 DEF TranscodingNext

StreamInv == StreamTypeOK /\ SlotInv /\ (crossed \/ CacheInv)

\* Every slot in use belongs to a running transcode, and what a new process
\* adopts was written to the end: for any number of requests, keys, users and
\* restarts, and any limits.
THEOREM TranscodesAreClean == TranscodingSpec => []TranscodesEndCleanly
  <1>1. TranscodingInit => StreamInv
    <2> SUFFICES ASSUME TranscodingInit PROVE StreamInv
      OBVIOUS
    <2>1. StreamTypeOK
      BY DEF TranscodingInit, StreamTypeOK, FillSteps
    <2>2. Holders = {} /\ \A u \in Listening : UserHolders(u) = {}
      BY DEF TranscodingInit, Holders, UserHolders
    <2>3. SlotInv
      BY <2>2, FS_EmptySet DEF SlotInv, SlotsAreHeld, TranscodingInit
    <2>4. CacheInv
      BY DEF TranscodingInit, CacheInv, EntryHasItsFile, FillerOwnsEntry, MarkedIsWhole, RemovalsAreOld, Filling
    <2> QED
      BY <2>1, <2>3, <2>4 DEF StreamInv
  <1>2. StreamInv /\ [TranscodingNext]_streamVars => StreamInv'
    BY SlotStep, StreamTypes, CacheStep DEF StreamInv
  <1>3. StreamInv => TranscodesEndCleanly
    BY TranscodingAssumption DEF StreamInv, SlotInv, TranscodesEndCleanly, AdoptedIsWhole, CacheInv, EntryHasItsFile
  <1> QED
    BY <1>1, <1>2, <1>3, PTL DEF TranscodingSpec


-------------------------------------------------------------------------------
(* The image store                                                           *)

ItemRow == [hash : Hashes, mtime : Nat]
JobRecord == [item : ArtItems, step : {"opened", "decoded", "placed", "imaged"}, hash : Hashes,
              mtime : Nat, mime : Mimes]
PruneRecord == [step : {"items", "rows", "mimes", "sweep"}, keep : SUBSET Variants,
                left : SUBSET Variants, doomed : SUBSET Variants]

StoreTypeOK ==
    /\ source \in [ArtItems -> [bytes : Hashes, mtime : Nat]]
    /\ entity \subseteq ArtItems
    /\ state \in [ArtItems -> ItemRow \cup {NoRow}]
    /\ image \in [Hashes -> ImageRow \cup {NoRow}]
    /\ files \in [Variants -> {"none", "fresh", "old"}]
    /\ job \in [Acquirers -> JobRecord \cup {NoJob}]
    /\ pruning \in PruneRecord \cup {NoJob}
    /\ noDecoder \subseteq Codecless
    /\ changes \in Nat

\* An acquisition between its bytes and its item's row excludes prune; what it
\* wrote so far is there.
HeldIsThere ==
    \A a \in Acquirers : Holding(a) =>
        /\ pruning = NoJob
        /\ At(a, "imaged") => image[job[a].hash] # NoRow
        /\ noDecoder = Codecless /\ job[a].item \in InStore => files[<<job[a].hash, job[a].mime>>] # "none"

\* Within one release everyone means the same variant of the same bytes.
OneMimePerHash ==
    noDecoder = Codecless =>
        /\ \A h \in Hashes : image[h] # NoRow => image[h].mime = mimeForFormat(h)
        /\ \A a \in Acquirers : At(a, "decoded") \/ Holding(a) => job[a].mime = mimeForFormat(job[a].hash)

\* The sweep removes no variant an image row names.
SweepSpares ==
    PruneAt("sweep") =>
        /\ \A h \in Hashes : image[h] # NoRow => <<h, image[h].mime>> \in pruning.keep
        /\ pruning.doomed \cap pruning.keep = {}

StoreInv == StoreTypeOK /\ HeldIsThere /\ OneMimePerHash /\ SweepSpares /\ ReferencedImageIsStored

LEMMA StoreTypes == ASSUME StoreTypeOK, [ImageNext]_imageVars PROVE StoreTypeOK'
  <1> USE DEF StoreTypeOK
  <1>1. ASSUME NEW a \in Acquirers, NEW i \in ArtItems, resolveOpens(a, i) PROVE StoreTypeOK'
    <2>1. [item |-> i, step |-> "opened", hash |-> source[i].bytes, mtime |-> 0,
           mime |-> "application/octet-stream"] \in JobRecord
      BY DEF JobRecord, Mimes
    <2> QED
      BY <1>1, <2>1 DEF resolveOpens
  <1>2. ASSUME NEW a \in Acquirers, acquire(a) PROVE StoreTypeOK'
    <2>1. job[a] \in JobRecord /\ source[job[a].item].mtime \in Nat
      BY <1>2 DEF acquire, At, JobRecord
    <2>2. ASSUME NEW m \in Mimes
          PROVE  [job[a] EXCEPT !.step = "decoded", !.mtime = source[job[a].item].mtime, !.mime = m] \in JobRecord
      BY <2>1 DEF JobRecord
    <2>3. PICK m \in Mimes :
             job' = [job EXCEPT ![a] = [job[a] EXCEPT !.step = "decoded", !.mtime = source[job[a].item].mtime, !.mime = m]]
      <3> DEFINE m == IF image[job[a].hash] # NoRow /\ image[job[a].hash].mime = "image/jpeg"
                      THEN "image/jpeg" ELSE mimeForFormat(job[a].hash)
      <3>1. m \in Mimes
        BY DEF Mimes, mimeForFormat
      <3>2. job' = [job EXCEPT ![a] = [job[a] EXCEPT !.step = "decoded", !.mtime = source[job[a].item].mtime, !.mime = m]]
        BY <1>2 DEF acquire
      <3> QED
        BY <3>1, <3>2
    <2>4. job' \in [Acquirers -> JobRecord \cup {NoJob}]
      <3>1. [job[a] EXCEPT !.step = "decoded", !.mtime = source[job[a].item].mtime, !.mime = m] \in JobRecord
        BY <2>2
      <3> QED
        BY <2>3, <3>1
    <2> QED
      BY <1>2, <2>4 DEF acquire
  <1>3. ASSUME NEW a \in Acquirers, NEW s \in {"placed", "imaged"}, job[a] # NoJob
        PROVE  [job EXCEPT ![a].step = s] \in [Acquirers -> JobRecord \cup {NoJob}]
    BY <1>3 DEF JobRecord
  <1>4. ASSUME NEW a \in Acquirers, placeBytes(a) PROVE StoreTypeOK'
    BY <1>3, <1>4 DEF placeBytes, At
  <1>5. ASSUME NEW a \in Acquirers, PutImage(a) PROVE StoreTypeOK'
    <2>1. job[a] \in JobRecord
      BY <1>5 DEF PutImage, At
    <2>2. [mime |-> job[a].mime, fresh |-> TRUE] \in ImageRow
      BY <2>1 DEF JobRecord, ImageRow
    <2> QED
      BY <1>3, <1>5, <2>2 DEF PutImage, At
  <1>6. ASSUME NEW a \in Acquirers, PutItemArtwork(a) PROVE StoreTypeOK'
    <2>1. job[a] \in JobRecord
      BY <1>6 DEF PutItemArtwork, At
    <2>2. [hash |-> job[a].hash, mtime |-> job[a].mtime] \in ItemRow
      BY <2>1 DEF JobRecord, ItemRow
    <2> QED
      BY <1>6, <2>2 DEF PutItemArtwork
  <1>7. ASSUME NEW a \in Acquirers, AcquisitionFails(a) PROVE StoreTypeOK'
    BY <1>7 DEF AcquisitionFails
  <1>8. CASE RunPrune
    <2>1. [step |-> "items", keep |-> {}, left |-> {}, doomed |-> {}] \in PruneRecord
      BY DEF PruneRecord
    <2> QED
      BY <1>8, <2>1 DEF RunPrune
  <1>9. ASSUME NEW s \in {"rows", "mimes"}, pruning # NoJob PROVE [pruning EXCEPT !.step = s] \in PruneRecord
    BY <1>9 DEF PruneRecord
  <1>10. CASE PurgeDanglingState
    BY <1>9, <1>10 DEF PurgeDanglingState, PruneAt
  <1>11. CASE PurgeOrphans
    BY <1>9, <1>11 DEF PurgeOrphans, PruneAt
  <1>12. CASE GetMimeByHash
    <2>1. {<<h, image[h].mime>> : h \in {g \in Hashes : image[g] # NoRow}} \subseteq Variants
      BY DEF ImageRow, Variants
    <2>2. pruning' \in PruneRecord
      BY <1>12, <2>1 DEF GetMimeByHash, PruneRecord
    <2> QED
      BY <1>12, <2>2 DEF GetMimeByHash
  <1>13. CASE SweepLooks
    <2>1. PICK v \in pruning.left :
             pruning' = [pruning EXCEPT !.left = @ \ {v},
                                        !.doomed = IF files[v] = "old" /\ v \notin pruning.keep THEN {v} ELSE {}]
      BY <1>13 DEF SweepLooks
    <2>2. pruning \in PruneRecord
      BY <1>13 DEF SweepLooks, PruneAt
    <2>3. pruning.left \ {v} \in SUBSET Variants
          /\ (IF files[v] = "old" /\ v \notin pruning.keep THEN {v} ELSE {}) \in SUBSET Variants
      BY <2>2 DEF PruneRecord
    <2>4. pruning' \in PruneRecord
      BY <2>1, <2>2, <2>3 DEF PruneRecord
    <2> QED
      BY <1>13, <2>4 DEF SweepLooks
  <1>14. CASE SweepRemoves
    <2>1. pruning \in PruneRecord
      BY <1>14 DEF SweepRemoves, PruneAt
    <2>2. pruning' \in PruneRecord
      BY <1>14, <2>1 DEF SweepRemoves, PruneRecord
    <2> QED
      BY <1>14, <2>2 DEF SweepRemoves
  <1>15. CASE PruneEnds
    BY <1>15 DEF PruneEnds
  <1>16. ASSUME NEW i \in ArtItems, NEW h \in Hashes, SourceReplaced(i, h) PROVE StoreTypeOK'
    <2>1. changes' \in Nat /\ changes + 1 \in Nat
      BY <1>16 DEF SourceReplaced
    <2>2. [bytes |-> h, mtime |-> changes + 1] \in [bytes : Hashes, mtime : Nat]
      BY <2>1
    <2> QED
      BY <1>16, <2>1, <2>2 DEF SourceReplaced
  <1>17. ASSUME NEW i \in ArtItems, EntityDeleted(i) PROVE StoreTypeOK'
    <2>1. changes' \in Nat
      BY <1>17 DEF EntityDeleted
    <2> QED
      BY <1>17, <2>1 DEF EntityDeleted
  <1>18. CASE HourPasses
    <2>1. \A h \in Hashes : image[h] # NoRow => [image[h] EXCEPT !.fresh = FALSE] \in ImageRow
      BY DEF ImageRow
    <2>2. image' \in [Hashes -> ImageRow \cup {NoRow}]
      BY <1>18, <2>1 DEF HourPasses
    <2>3. files' \in [Variants -> {"none", "fresh", "old"}]
      BY <1>18 DEF HourPasses
    <2> QED
      BY <1>18, <2>2, <2>3 DEF HourPasses
  <1>19. CASE Restart \/ UNCHANGED imageVars
    BY <1>19 DEF Restart, imageVars
  <1> QED
    BY <1>1, <1>2, <1>4, <1>5, <1>6, <1>7, <1>8, <1>10, <1>11, <1>12, <1>13, <1>14, <1>15, <1>16, <1>17, <1>18, <1>19
       DEF ImageNext

\* While prune runs nobody holds what is half written, and while someone does
\* prune cannot start: no step breaks the link from an item's row to its bytes.
LEMMA StoreStep == ASSUME StoreInv, [ImageNext]_imageVars PROVE StoreInv'
  <1>1. StoreTypeOK /\ StoreTypeOK' /\ HeldIsThere /\ OneMimePerHash /\ SweepSpares /\ ReferencedImageIsStored
    BY StoreTypes DEF StoreInv
  <1>2. InStore \subseteq ArtItems /\ NoRow \notin ImageRow
    BY StoreAssumption
  <1> DEFINE Kept == HeldIsThere' /\ OneMimePerHash' /\ SweepSpares' /\ ReferencedImageIsStored'
  <1>3. ASSUME NEW a \in Acquirers, UNCHANGED <<image, files, noDecoder, state, pruning>>,
               \A b \in Acquirers : b # a => job'[b] = job[b],
               At(a, "decoded")' => job'[a].mime = mimeForFormat(job'[a].hash) \/ noDecoder # Codecless,
               ~Holding(a)'
        PROVE  Kept
    <2>1. HeldIsThere'
      BY <1>1, <1>3 DEF HeldIsThere, Holding, At
    <2>2. OneMimePerHash'
      BY <1>1, <1>3 DEF OneMimePerHash, Holding, At, mimeForFormat
    <2>3. SweepSpares' /\ ReferencedImageIsStored'
      BY <1>1, <1>3 DEF SweepSpares, PruneAt, ReferencedImageIsStored
    <2> QED
      BY <2>1, <2>2, <2>3
  <1>4. ASSUME NEW a \in Acquirers, NEW i \in ArtItems, resolveOpens(a, i) PROVE Kept
    <2>1. job'[a].step = "opened" /\ \A b \in Acquirers : b # a => job'[b] = job[b]
      BY <1>1, <1>4 DEF resolveOpens, StoreTypeOK
    <2>2. ~Holding(a)' /\ ~At(a, "decoded")'
      BY <2>1 DEF Holding, At
    <2>3. UNCHANGED <<image, files, noDecoder, state, pruning>>
      BY <1>4 DEF resolveOpens
    <2> QED
      BY <1>3, <2>1, <2>2, <2>3
  <1>5. ASSUME NEW a \in Acquirers, acquire(a) PROVE Kept
    <2> DEFINE h == job[a].hash
    <2>1. job[a] \in JobRecord /\ h \in Hashes
      BY <1>1, <1>5 DEF acquire, At, StoreTypeOK, JobRecord
    <2>2. /\ job'[a].step = "decoded" /\ job'[a].hash = h
          /\ job'[a].mime = IF image[h] # NoRow /\ image[h].mime = "image/jpeg" THEN "image/jpeg" ELSE mimeForFormat(h)
          /\ \A b \in Acquirers : b # a => job'[b] = job[b]
      BY <1>1, <1>5, <2>1 DEF acquire, StoreTypeOK, JobRecord
    <2>3. job'[a].mime = mimeForFormat(job'[a].hash) \/ noDecoder # Codecless
      BY <1>1, <2>1, <2>2 DEF OneMimePerHash, mimeForFormat
    <2>4. ~Holding(a)'
      BY <2>2 DEF Holding, At
    <2>5. UNCHANGED <<image, files, noDecoder, state, pruning>>
      BY <1>5 DEF acquire
    <2> QED
      BY <1>3, <2>2, <2>3, <2>4, <2>5
  <1>6. ASSUME NEW a \in Acquirers, NEW s \in {"placed", "imaged"}, job[a] # NoJob, job' = [job EXCEPT ![a].step = s]
        PROVE  /\ job[a] \in JobRecord
               /\ job'[a].step = s /\ job'[a].hash = job[a].hash /\ job'[a].mime = job[a].mime /\ job'[a].item = job[a].item
               /\ \A b \in Acquirers : b # a => job'[b] = job[b]
    BY <1>1, <1>6 DEF StoreTypeOK, JobRecord
  <1>7. ASSUME NEW a \in Acquirers, placeBytes(a) PROVE Kept
    <2>1. At(a, "decoded") /\ pruning = NoJob /\ UNCHANGED <<image, noDecoder, state, pruning>>
      BY <1>7 DEF placeBytes
    <2>2. /\ job[a] \in JobRecord
          /\ job'[a].step = "placed" /\ job'[a].hash = job[a].hash /\ job'[a].mime = job[a].mime /\ job'[a].item = job[a].item
          /\ \A b \in Acquirers : b # a => job'[b] = job[b]
      BY <1>6, <1>7 DEF placeBytes, At
    <2>3. <<job[a].hash, job[a].mime>> \in Variants
      BY <2>2 DEF JobRecord, Variants
    <2>4. /\ \A v \in Variants : files[v] # "none" => files'[v] # "none"
          /\ job[a].item \in InStore => files'[<<job[a].hash, job[a].mime>>] # "none"
      BY <1>1, <1>7, <2>3 DEF placeBytes, StoreTypeOK
    <2>5. ASSUME NEW b \in Acquirers, Holding(b)
          PROVE  <<job[b].hash, job[b].mime>> \in Variants
      BY <1>1, <2>5 DEF Holding, At, StoreTypeOK, JobRecord, Variants
    <2>6. HeldIsThere'
      <3> SUFFICES ASSUME NEW b \in Acquirers, Holding(b)'
                   PROVE  /\ pruning' = NoJob
                          /\ At(b, "imaged")' => image'[job'[b].hash] # NoRow
                          /\ noDecoder' = Codecless /\ job'[b].item \in InStore
                             => files'[<<job'[b].hash, job'[b].mime>>] # "none"
        BY DEF HeldIsThere
      <3>1. CASE b = a
        BY <2>1, <2>2, <2>4, <3>1 DEF At
      <3>2. CASE b # a
        <4>1. Holding(b) /\ (At(b, "imaged")' => At(b, "imaged"))
          BY <2>2, <3>2 DEF Holding, At
        <4> QED
          BY <1>1, <2>1, <2>2, <2>4, <2>5, <3>2, <4>1 DEF HeldIsThere
      <3> QED
        BY <3>1, <3>2
    <2>7. OneMimePerHash'
      BY <1>1, <2>1, <2>2 DEF OneMimePerHash, Holding, At, mimeForFormat
    <2>8. SweepSpares'
      BY <2>1 DEF SweepSpares, PruneAt
    <2>9. ReferencedImageIsStored'
      <3>1. ASSUME NEW i \in InStore, state[i] # NoRow, image[state[i].hash] # NoRow
            PROVE  <<state[i].hash, image[state[i].hash].mime>> \in Variants
        BY <1>1, <1>2, <3>1 DEF StoreTypeOK, ItemRow, ImageRow, Variants
      <3> QED
        BY <1>1, <2>1, <2>4, <3>1 DEF ReferencedImageIsStored
    <2> QED
      BY <2>6, <2>7, <2>8, <2>9
  <1>8. ASSUME NEW a \in Acquirers, PutImage(a) PROVE Kept
    <2> DEFINE h == job[a].hash
    <2>1. At(a, "placed") /\ Holding(a) /\ UNCHANGED <<files, noDecoder, state, pruning>>
      BY <1>8 DEF PutImage, Holding
    <2>2. /\ job[a] \in JobRecord /\ h \in Hashes
          /\ job'[a].step = "imaged" /\ job'[a].hash = h /\ job'[a].mime = job[a].mime /\ job'[a].item = job[a].item
          /\ \A b \in Acquirers : b # a => job'[b] = job[b]
      BY <1>6, <1>8 DEF PutImage, At, JobRecord
    <2>3. [mime |-> job[a].mime, fresh |-> TRUE] \in ImageRow
      BY <2>2 DEF JobRecord, ImageRow
    <2>4. \A g \in Hashes : image'[g] = IF g = h THEN [mime |-> job[a].mime, fresh |-> TRUE] ELSE image[g]
      BY <1>1, <1>8, <2>2 DEF PutImage, StoreTypeOK
    <2>5. \A g \in Hashes : image[g] # NoRow => image'[g] # NoRow
      BY <1>2, <2>3, <2>4
    <2>6. pruning = NoJob
      BY <1>1, <2>1 DEF HeldIsThere
    <2>7. HeldIsThere'
      <3> SUFFICES ASSUME NEW b \in Acquirers, Holding(b)'
                   PROVE  /\ At(b, "imaged")' => image'[job'[b].hash] # NoRow
                          /\ noDecoder' = Codecless /\ job'[b].item \in InStore
                             => files'[<<job'[b].hash, job'[b].mime>>] # "none"
        BY <2>1, <2>6 DEF HeldIsThere
      <3>1. CASE b = a
        BY <1>1, <1>2, <2>1, <2>2, <2>3, <2>4, <3>1 DEF HeldIsThere
      <3>2. CASE b # a
        <4>1. Holding(b) /\ (At(b, "imaged")' => At(b, "imaged")) /\ job[b].hash \in Hashes
          BY <1>1, <2>2, <3>2 DEF Holding, At, StoreTypeOK, JobRecord
        <4> QED
          BY <1>1, <2>1, <2>2, <2>5, <3>2, <4>1 DEF HeldIsThere
      <3> QED
        BY <3>1, <3>2
    <2>8. noDecoder = Codecless => job[a].mime = mimeForFormat(h)
      BY <1>1, <2>1 DEF OneMimePerHash
    <2>9. OneMimePerHash'
      BY <1>1, <2>1, <2>2, <2>4, <2>8 DEF OneMimePerHash, Holding, At, mimeForFormat
    <2>10. SweepSpares'
      BY <2>1, <2>6 DEF SweepSpares, PruneAt
    <2>11. ReferencedImageIsStored'
      <3> SUFFICES ASSUME NEW i \in InStore, state'[i] # NoRow
                   PROVE  /\ image'[state'[i].hash] # NoRow
                          /\ files'[<<state'[i].hash, image'[state'[i].hash].mime>>] # "none" \/ noDecoder' # Codecless
        BY DEF ReferencedImageIsStored
      <3> DEFINE g == state[i].hash
      <3>1. /\ state'[i].hash = g /\ g \in Hashes /\ image[g] # NoRow
            /\ files[<<g, image[g].mime>>] # "none" \/ noDecoder # Codecless
        BY <1>1, <1>2, <2>1 DEF ReferencedImageIsStored, StoreTypeOK, ItemRow
      <3>2. noDecoder = Codecless => image'[g].mime = image[g].mime
        BY <1>1, <2>4, <2>8, <3>1 DEF OneMimePerHash
      <3> QED
        BY <2>1, <2>5, <3>1, <3>2
    <2> QED
      BY <2>7, <2>9, <2>10, <2>11
  <1>9. ASSUME NEW a \in Acquirers, PutItemArtwork(a) PROVE Kept
    <2>1. /\ At(a, "imaged") /\ Holding(a) /\ UNCHANGED <<image, files, noDecoder, pruning>>
          /\ job' = [job EXCEPT ![a] = NoJob]
      BY <1>9 DEF PutItemArtwork, Holding
    <2>2. job[a] \in JobRecord
      BY <1>1, <2>1 DEF At, StoreTypeOK
    <2>3. \A i \in ArtItems : state'[i] = IF i = job[a].item THEN [hash |-> job[a].hash, mtime |-> job[a].mtime] ELSE state[i]
      BY <1>1, <1>9, <2>2 DEF PutItemArtwork, StoreTypeOK, JobRecord
    <2>4. \A b \in Acquirers : job'[b] = IF b = a THEN NoJob ELSE job[b]
      BY <1>1, <2>1 DEF StoreTypeOK
    <2>5. HeldIsThere'
      BY <1>1, <2>1, <2>4 DEF HeldIsThere, Holding, At
    <2>6. OneMimePerHash'
      BY <1>1, <2>1, <2>4 DEF OneMimePerHash, Holding, At, mimeForFormat
    <2>7. SweepSpares'
      BY <1>1, <2>1 DEF SweepSpares, PruneAt
    <2>8. /\ image[job[a].hash] # NoRow
          /\ noDecoder = Codecless => image[job[a].hash].mime = job[a].mime
          /\ noDecoder = Codecless /\ job[a].item \in InStore => files[<<job[a].hash, job[a].mime>>] # "none"
      <3>1. job[a].hash \in Hashes
        BY <2>2 DEF JobRecord
      <3> QED
        BY <1>1, <2>1, <3>1 DEF HeldIsThere, OneMimePerHash
    <2>9. ReferencedImageIsStored'
      <3> SUFFICES ASSUME NEW i \in InStore, state'[i] # NoRow
                   PROVE  /\ image'[state'[i].hash] # NoRow
                          /\ files'[<<state'[i].hash, image'[state'[i].hash].mime>>] # "none" \/ noDecoder' # Codecless
        BY DEF ReferencedImageIsStored
      <3>1. CASE i = job[a].item
        BY <1>2, <2>1, <2>3, <2>8, <3>1
      <3>2. CASE i # job[a].item
        BY <1>1, <1>2, <2>1, <2>3, <3>2 DEF ReferencedImageIsStored
      <3> QED
        BY <3>1, <3>2
    <2> QED
      BY <2>5, <2>6, <2>7, <2>9
  <1>10. ASSUME NEW a \in Acquirers, AcquisitionFails(a) PROVE Kept
    <2>1. job'[a] = NoJob /\ \A b \in Acquirers : b # a => job'[b] = job[b]
      BY <1>1, <1>10 DEF AcquisitionFails, StoreTypeOK
    <2>2. ~Holding(a)' /\ ~At(a, "decoded")'
      BY <2>1 DEF Holding, At
    <2>3. UNCHANGED <<image, files, noDecoder, state, pruning>>
      BY <1>10 DEF AcquisitionFails
    <2> QED
      BY <1>3, <2>1, <2>2, <2>3
  <1>11. ASSUME UNCHANGED <<job, files, noDecoder>>, \A a \in Acquirers : ~Holding(a),
                \A h \in Hashes : image'[h] # NoRow => image'[h] = image[h],
                \A i \in ArtItems : state'[i] # NoRow => state'[i] = state[i] /\ image'[state[i].hash] = image[state[i].hash],
                SweepSpares'
         PROVE  Kept
    <2>1. HeldIsThere'
      BY <1>11 DEF HeldIsThere, Holding, At
    <2>2. OneMimePerHash'
      BY <1>1, <1>11 DEF OneMimePerHash, Holding, At, mimeForFormat
    <2>3. ReferencedImageIsStored'
      BY <1>1, <1>2, <1>11 DEF ReferencedImageIsStored
    <2> QED
      BY <1>11, <2>1, <2>2, <2>3
  <1>12. CASE RunPrune
    <2>1. \A a \in Acquirers : ~Holding(a)
      BY <1>12 DEF RunPrune
    <2>2. SweepSpares'
      BY <1>12 DEF RunPrune, SweepSpares, PruneAt
    <2>3. Kept
      BY <1>11, <1>12, <2>1, <2>2 DEF RunPrune
    <2> QED
      BY <1>1, <2>3 DEF StoreInv
  <1>13. ASSUME pruning # NoJob PROVE \A a \in Acquirers : ~Holding(a)
    BY <1>1, <1>13 DEF HeldIsThere
  <1>14. CASE PurgeDanglingState
    <2>1. pruning # NoJob /\ pruning' = [pruning EXCEPT !.step = "rows"] /\ UNCHANGED <<job, files, noDecoder, image>>
      BY <1>14 DEF PurgeDanglingState, PruneAt
    <2>2. pruning'.step = "rows"
      BY <1>1, <2>1 DEF StoreTypeOK, PruneRecord
    <2>3. \A i \in ArtItems : state'[i] # NoRow => state'[i] = state[i]
      BY <1>14 DEF PurgeDanglingState
    <2>4. SweepSpares'
      BY <2>2 DEF SweepSpares, PruneAt
    <2>5. Kept
      BY <1>11, <1>13, <2>1, <2>3, <2>4
    <2> QED
      BY <1>1, <2>5 DEF StoreInv
  <1>15. CASE PurgeOrphans
    <2>1. pruning # NoJob /\ pruning' = [pruning EXCEPT !.step = "mimes"] /\ UNCHANGED <<job, files, noDecoder, state>>
      BY <1>15 DEF PurgeOrphans, PruneAt
    <2>2. pruning'.step = "mimes"
      BY <1>1, <2>1 DEF StoreTypeOK, PruneRecord
    <2>3. \A h \in Hashes : image'[h] = image[h] \/ (image'[h] = NoRow /\ ~Referenced(h))
      BY <1>15 DEF PurgeOrphans
    <2>4. ASSUME NEW i \in ArtItems, state'[i] # NoRow
          PROVE  state'[i] = state[i] /\ image'[state[i].hash] = image[state[i].hash]
      <3>1. state[i] # NoRow /\ state[i].hash \in Hashes
        BY <1>1, <2>1, <2>4 DEF StoreTypeOK, ItemRow
      <3>2. Referenced(state[i].hash)
        BY <3>1 DEF Referenced
      <3> QED
        BY <2>1, <2>3, <3>1, <3>2
    <2>5. SweepSpares'
      BY <2>2 DEF SweepSpares, PruneAt
    <2>6. Kept
      BY <1>11, <1>13, <2>1, <2>3, <2>4, <2>5
    <2> QED
      BY <1>1, <2>6 DEF StoreInv
  <1>16. CASE GetMimeByHash
    <2>1. pruning # NoJob /\ UNCHANGED <<job, files, noDecoder, state, image>>
      BY <1>16 DEF GetMimeByHash, PruneAt
    <2>2. /\ pruning'.doomed = {}
          /\ pruning'.keep = {<<h, image[h].mime>> : h \in {g \in Hashes : image[g] # NoRow}}
      BY <1>16 DEF GetMimeByHash
    <2>3. SweepSpares'
      BY <2>1, <2>2 DEF SweepSpares
    <2>4. Kept
      BY <1>11, <1>13, <2>1, <2>3
    <2> QED
      BY <1>1, <2>4 DEF StoreInv
  <1>17. CASE SweepLooks
    <2>1. /\ pruning \in PruneRecord /\ PruneAt("sweep") /\ pruning # NoJob
          /\ UNCHANGED <<job, files, noDecoder, state, image>>
      BY <1>1, <1>17 DEF SweepLooks, PruneAt, StoreTypeOK
    <2>2. PICK v \in pruning.left :
             pruning' = [pruning EXCEPT !.left = @ \ {v},
                                        !.doomed = IF files[v] = "old" /\ v \notin pruning.keep THEN {v} ELSE {}]
      BY <1>17 DEF SweepLooks
    <2>3. pruning'.keep = pruning.keep /\ pruning'.doomed = IF files[v] = "old" /\ v \notin pruning.keep THEN {v} ELSE {}
      BY <2>1, <2>2 DEF PruneRecord
    <2>4. SweepSpares'
      BY <1>1, <2>1, <2>3 DEF SweepSpares
    <2>5. Kept
      BY <1>11, <1>13, <2>1, <2>4
    <2> QED
      BY <1>1, <2>5 DEF StoreInv
  <1>18. CASE SweepRemoves
    <2>1. /\ pruning \in PruneRecord /\ PruneAt("sweep") /\ pruning # NoJob
          /\ UNCHANGED <<job, noDecoder, state, image>> /\ pruning' = [pruning EXCEPT !.doomed = {}]
      BY <1>1, <1>18 DEF SweepRemoves, PruneAt, StoreTypeOK
    <2>2. pruning'.keep = pruning.keep /\ pruning'.doomed = {}
      BY <2>1 DEF PruneRecord
    <2>3. \A a \in Acquirers : ~Holding(a)
      BY <1>13, <2>1
    <2>4. HeldIsThere' /\ OneMimePerHash'
      BY <1>1, <2>1, <2>3 DEF HeldIsThere, OneMimePerHash, Holding, At, mimeForFormat
    <2>5. SweepSpares'
      BY <1>1, <2>1, <2>2 DEF SweepSpares
    <2>6. ReferencedImageIsStored'
      <3> SUFFICES ASSUME NEW i \in InStore, state[i] # NoRow
                   PROVE  /\ image[state[i].hash] # NoRow
                          /\ files'[<<state[i].hash, image[state[i].hash].mime>>] # "none" \/ noDecoder # Codecless
        BY <2>1 DEF ReferencedImageIsStored
      <3> DEFINE w == <<state[i].hash, image[state[i].hash].mime>>
      <3>1. image[state[i].hash] # NoRow /\ (files[w] # "none" \/ noDecoder # Codecless) /\ state[i].hash \in Hashes
        BY <1>1, <1>2 DEF ReferencedImageIsStored, StoreTypeOK, ItemRow
      <3>2. w \in Variants
        BY <1>1, <3>1 DEF StoreTypeOK, ImageRow, Variants
      <3>3. w \notin pruning.doomed
        BY <1>1, <2>1, <3>1 DEF SweepSpares
      <3>4. files'[w] = files[w]
        BY <1>18, <3>2, <3>3 DEF SweepRemoves
      <3> QED
        BY <3>1, <3>4
    <2> QED
      BY <1>1, <2>4, <2>5, <2>6 DEF StoreInv
  <1>19. CASE PruneEnds
    <2>1. SweepSpares'
      BY <1>19 DEF PruneEnds, SweepSpares, PruneAt
    <2>2. pruning # NoJob /\ UNCHANGED <<job, files, noDecoder, state, image>>
      BY <1>19 DEF PruneEnds
    <2>3. Kept
      BY <1>11, <1>13, <2>1, <2>2
    <2> QED
      BY <1>1, <2>3 DEF StoreInv
  <1>20. ASSUME UNCHANGED <<state, image, files, job, pruning, noDecoder>> PROVE Kept
    BY <1>1, <1>20 DEF HeldIsThere, OneMimePerHash, SweepSpares, ReferencedImageIsStored, Holding, At, PruneAt, mimeForFormat
  <1>21. CASE (\E i \in ArtItems : EntityDeleted(i) \/ \E h \in Hashes : SourceReplaced(i, h)) \/ UNCHANGED imageVars
    <2>1. UNCHANGED <<state, image, files, job, pruning, noDecoder>>
      BY <1>21 DEF EntityDeleted, SourceReplaced, imageVars
    <2> QED
      BY <1>1, <1>20, <2>1 DEF StoreInv
  <1>22. CASE HourPasses
    <2>1. /\ UNCHANGED <<state, job, pruning, noDecoder>>
          /\ \A v \in Variants : files[v] # "none" => files'[v] # "none"
      BY <1>1, <1>22 DEF HourPasses, StoreTypeOK
    <2>2. ASSUME NEW h \in Hashes
          PROVE  (image'[h] # NoRow <=> image[h] # NoRow) /\ (image[h] # NoRow => image'[h].mime = image[h].mime)
      <3>1. CASE image[h] = NoRow
        BY <1>22, <3>1 DEF HourPasses
      <3>2. CASE image[h] # NoRow
        <4>1. image[h] \in ImageRow /\ image'[h] = [image[h] EXCEPT !.fresh = FALSE]
          BY <1>1, <1>22, <3>2 DEF HourPasses, StoreTypeOK
        <4>2. [image[h] EXCEPT !.fresh = FALSE] \in ImageRow /\ [image[h] EXCEPT !.fresh = FALSE].mime = image[h].mime
          BY <4>1 DEF ImageRow
        <4> QED
          BY <1>2, <3>2, <4>1, <4>2
      <3> QED
        BY <3>1, <3>2
    <2>3. ASSUME NEW b \in Acquirers, Holding(b)
          PROVE  job[b].hash \in Hashes /\ <<job[b].hash, job[b].mime>> \in Variants
      BY <1>1, <2>3 DEF Holding, At, StoreTypeOK, JobRecord, Variants
    <2>4. HeldIsThere'
      BY <1>1, <2>1, <2>2, <2>3 DEF HeldIsThere, Holding, At
    <2>5. OneMimePerHash'
      BY <1>1, <2>1, <2>2 DEF OneMimePerHash, Holding, At, mimeForFormat
    <2>6. SweepSpares'
      BY <1>1, <2>1, <2>2 DEF SweepSpares, PruneAt
    <2>7. ReferencedImageIsStored'
      <3>1. ASSUME NEW i \in InStore, state[i] # NoRow
            PROVE  /\ state[i].hash \in Hashes /\ image[state[i].hash] # NoRow
                   /\ <<state[i].hash, image[state[i].hash].mime>> \in Variants
        <4>1. i \in ArtItems /\ state[i] \in ItemRow
          BY <1>1, <3>1, StoreAssumption DEF StoreTypeOK, StoreAssumption
        <4>2. state[i].hash \in Hashes
          BY <4>1 DEF ItemRow
        <4>3. image[state[i].hash] # NoRow
          BY <1>2, <3>1 DEF StoreInv, ReferencedImageIsStored
        <4>4. image[state[i].hash] \in ImageRow
          BY <1>1, <4>2, <4>3 DEF StoreTypeOK
        <4> QED
          BY <4>2, <4>3, <4>4 DEF ImageRow, Variants
      <3> QED
        BY <1>1, <2>1, <2>2, <3>1 DEF ReferencedImageIsStored
    <2> QED
      BY <1>1, <2>4, <2>5, <2>6, <2>7 DEF StoreInv
  <1>23. CASE Restart
    <2>1. /\ UNCHANGED <<state, image, files>> /\ pruning' = NoJob
          /\ \A a \in Acquirers : job'[a] = NoJob
          /\ noDecoder' = noDecoder \/ noDecoder' = {}
      BY <1>23 DEF Restart
    <2>2. HeldIsThere' /\ SweepSpares'
      BY <2>1 DEF HeldIsThere, SweepSpares, Holding, At, PruneAt
    <2>3. noDecoder' = Codecless => noDecoder' = noDecoder
      BY <1>1, <2>1 DEF StoreTypeOK
    <2>4. OneMimePerHash'
      BY <1>1, <2>1, <2>3 DEF OneMimePerHash, Holding, At, mimeForFormat
    <2>5. ReferencedImageIsStored'
      BY <1>1, <2>1, <2>3 DEF ReferencedImageIsStored
    <2> QED
      BY <1>1, <2>2, <2>4, <2>5 DEF StoreInv
  <1> QED
    <2>1. ASSUME NEW a \in Acquirers, (\E i \in ArtItems : resolveOpens(a, i)) \/ acquire(a) \/ placeBytes(a)
                 \/ PutImage(a) \/ PutItemArtwork(a) \/ AcquisitionFails(a)
          PROVE  StoreInv'
      BY <1>1, <1>4, <1>5, <1>7, <1>8, <1>9, <1>10, <2>1 DEF StoreInv
    <2> QED
      BY <1>12, <1>14, <1>15, <1>16, <1>17, <1>18, <1>19, <1>21, <1>22, <1>23, <2>1 DEF ImageNext

\* An item whose bytes are in the store keeps its image row and a stored
\* variant: for any items, contents, acquisitions in flight and crashes.
THEOREM ReferencesAreStored == ImageSpec => []ReferencedImageIsStored
  <1>1. ImageInit => StoreInv
    BY StoreAssumption DEF ImageInit, StoreInv, StoreTypeOK, HeldIsThere, OneMimePerHash, SweepSpares,
       ReferencedImageIsStored, Holding, At, PruneAt
  <1>2. StoreInv => ReferencedImageIsStored
    BY DEF StoreInv
  <1> QED
    BY <1>1, <1>2, StoreStep, PTL DEF ImageSpec


-------------------------------------------------------------------------------
(* Playback sessions                                                         *)

\* A late start does not take a playing session back: every write of "starting"
\* looks again under the lock, and the others write what their report says.
LEMMA NoDowngrade ==
    ASSUME [TrackerNext]_trackerVars, NEW t \in Tracks, hasPlayingSession(t)
    PROVE  ~(playMap' # NoSession /\ playMap' = Session(t, "starting"))
  <1> USE DEF hasPlayingSession, Current, Session
  <1>1. playMap' = playMap => ~(playMap' = Session(t, "starting"))
    OBVIOUS
  <1>2. ASSUME NEW r \in Reports, StartingWrite(r), playMap' # playMap PROVE playMap'.track # t
    BY <1>2 DEF StartingWrite
  <1>3. ASSUME NEW r \in Reports, PlayingWrite(r) PROVE playMap'.st # "starting"
    BY <1>3 DEF PlayingWrite
  <1>4. ASSUME NEW r \in Reports, StoppedRemove(r), playMap' # playMap PROVE playMap' = NoSession
    BY <1>4 DEF StoppedRemove
  <1>5. ASSUME TTLPasses PROVE playMap' # Session(t, "starting")
    <2>1. playMap' = [playMap EXCEPT !.live = FALSE]
      BY <1>5 DEF TTLPasses
    <2> QED
      BY <2>1
  <1>6. ~Evict
    BY DEF Evict
  <1>7. ASSUME NEW r \in Reports, StartingCheck(r) \/ PlayingLoad(r) \/ LoadFails(r) \/ StoppedScrobble(r)
                 \/ EnqueueReport(r) \/ ReadNowPlaying(r) \/ enqueueNowPlaying(r)
        PROVE  playMap' = playMap
    BY <1>7 DEF StartingCheck, PlayingLoad, LoadFails, StoppedScrobble, EnqueueReport, ReadNowPlaying, enqueueNowPlaying
  <1>8. (\E u \in Tracks : OnExpiration(u)) \/ PRWorker \/ NPWorker \/ UNCHANGED trackerVars => playMap' = playMap
    BY DEF OnExpiration, PRWorker, NPWorker, trackerVars
  <1> QED
    BY <1>1, <1>2, <1>3, <1>4, <1>5, <1>6, <1>7, <1>8 DEF TrackerNext, Handler

\* A live session ends only by a stop for its own track.
LEMMA OwnStopOnly ==
    ASSUME [TrackerNext]_trackerVars, NEW t \in Tracks, Current(t), playMap' = NoSession, TrackerTypeOK
    PROVE  \E r \in Reports : TrackOf[r] = t /\ handlerPc[r] = "loaded" /\ StateOf[r] = "stopped"
                             /\ handlerPc'[r] # "loaded"
  <1> USE DEF Current, Session
  <1>1. playMap' # playMap
    OBVIOUS
  <1>2. ASSUME NEW r \in Reports, StoppedRemove(r)
        PROVE  TrackOf[r] = t /\ handlerPc[r] = "loaded" /\ StateOf[r] = "stopped" /\ handlerPc'[r] # "loaded"
    <2>1. ~Other(TrackOf[r])
      BY <1>1, <1>2 DEF StoppedRemove
    <2>2. \E l \in {"done", "enqueue"} : handlerPc' = [handlerPc EXCEPT ![r] = l]
      BY <1>2 DEF StoppedRemove, Goto
    <2> QED
      BY <1>2, <2>1, <2>2 DEF StoppedRemove, Other, TrackerTypeOK
  <1>3. ASSUME NEW r \in Reports, StartingWrite(r) \/ PlayingWrite(r) PROVE playMap' # NoSession \/ playMap' = playMap
    <2>1. ASSUME NEW st \in {"starting", "playing", "paused"} PROVE Session(TrackOf[r], st) \in Sessions
      BY TrackerAssumption DEF Sessions
    <2>2. playMap' = playMap \/ \E st \in {"starting", "playing", "paused"} : playMap' = Session(TrackOf[r], st)
      BY <1>3 DEF StartingWrite, PlayingWrite
    <2> QED
      BY <2>1, <2>2, TrackerAssumption
  <1>4. ~TTLPasses /\ ~Evict
    <2>1. playMap # NoSession => [playMap EXCEPT !.live = FALSE] \in Sessions
      BY DEF TrackerTypeOK, Sessions
    <2> QED
      BY <2>1, TrackerAssumption DEF TTLPasses, Evict
  <1>5. ASSUME NEW r \in Reports, StartingCheck(r) \/ PlayingLoad(r) \/ LoadFails(r) \/ StoppedScrobble(r)
                 \/ EnqueueReport(r) \/ ReadNowPlaying(r) \/ enqueueNowPlaying(r)
        PROVE  playMap' = playMap
    BY <1>5 DEF StartingCheck, PlayingLoad, LoadFails, StoppedScrobble, EnqueueReport, ReadNowPlaying, enqueueNowPlaying
  <1>6. (\E u \in Tracks : OnExpiration(u)) \/ PRWorker \/ NPWorker \/ UNCHANGED trackerVars => playMap' = playMap
    BY DEF OnExpiration, PRWorker, NPWorker, trackerVars
  <1> QED
    BY <1>1, <1>2, <1>3, <1>4, <1>5, <1>6 DEF TrackerNext, Handler

\* What a handler does to the rest of the state.
LEMMA HandlerTypes == ASSUME TrackerTypeOK, NEW r \in Reports, Handler(r) PROVE TrackerTypeOK'
  <1> USE DEF TrackerTypeOK
  <1>1. /\ TrackOf[r] \in Tracks /\ StateOf[r] \in ReportStates
        /\ NoSession \notin Messages /\ NoSession \notin Sessions
    BY TrackerAssumption
  <1>2. \A st \in ReportStates : Message(TrackOf[r], st) \in Messages
    BY <1>1 DEF Message, Messages
  <1>3. \A st \in {"starting", "playing", "paused"} : Session(TrackOf[r], st) \in Sessions
    BY <1>1 DEF Session, Sessions
  <1>4. ASSUME NEW l \in {"loaded", "nowplaying", "done"}, handlerPc[r] \notin {"enqueue", "npEnqueue"}, Goto(r, l),
               UNCHANGED <<info, prVars, npQueue>>, playMap' \in Sessions \cup {NoSession},
               expiring' = expiring, expiries' = expiries, scrobbled' \subseteq Scrobbles, loadFaults' \in 0..MaxLoadFaults
        PROVE  TrackerTypeOK'
    BY <1>4 DEF Goto, prVars
  <1>5. ASSUME LoadFault PROVE loadFaults' \in 0..MaxLoadFaults
    BY <1>5, TrackerAssumption DEF LoadFault
  <1>6. ASSUME NEW l \in {"enqueue", "npEnqueue"}, NEW m \in Messages, Goto(r, l), info' = [info EXCEPT ![r] = m],
               UNCHANGED <<expiring, expiries, scrobbled, loadFaults, prVars, npQueue>>, playMap' \in Sessions \cup {NoSession}
        PROVE  TrackerTypeOK'
    BY <1>1, <1>6 DEF Goto, prVars
  <1>7. CASE StartingCheck(r)
    BY <1>4, <1>7 DEF StartingCheck
  <1>8. CASE StartingWrite(r)
    <2>1. CASE hasPlayingSession(TrackOf[r])
      BY <1>4, <1>8, <2>1 DEF StartingWrite
    <2>2. CASE ~hasPlayingSession(TrackOf[r])
      BY <1>2, <1>3, <1>6, <1>8, <2>2 DEF StartingWrite, ReportStates
    <2> QED
      BY <2>1, <2>2
  <1>9. CASE PlayingLoad(r)
    BY <1>4, <1>9 DEF PlayingLoad
  <1>10. CASE PlayingWrite(r)
    BY <1>2, <1>3, <1>6, <1>10 DEF PlayingWrite, ReportStates
  <1>11. CASE LoadFails(r)
    BY <1>4, <1>5, <1>11 DEF LoadFails
  <1>12. CASE StoppedScrobble(r)
    BY <1>4, <1>12 DEF StoppedScrobble
  <1>13. CASE StoppedRemove(r)
    <2>1. CASE Goto(r, "done") /\ UNCHANGED info /\ loadFaults' \in 0..MaxLoadFaults
      BY <1>4, <1>13, <2>1 DEF StoppedRemove
    <2>2. CASE Goto(r, "enqueue") /\ info' = [info EXCEPT ![r] = Message(TrackOf[r], "stopped")] /\ UNCHANGED loadFaults
      BY <1>2, <1>6, <1>13, <2>2 DEF StoppedRemove, ReportStates
    <2> QED
      BY <1>5, <1>13, <2>1, <2>2 DEF StoppedRemove
  <1>14. CASE EnqueueReport(r)
    <2>1. info[r] \in Messages /\ Append(prQueue, info[r]) \in Seq(Messages)
      BY <1>14 DEF EnqueueReport
    <2>2. \E l \in {"nowplaying", "done"} : handlerPc' = [handlerPc EXCEPT ![r] = l]
      BY <1>14 DEF EnqueueReport, Goto
    <2> QED
      BY <1>14, <2>1, <2>2 DEF EnqueueReport, enqueuePlaybackReport
  <1>15. CASE ReadNowPlaying(r)
    <2>1. CASE playMap # NoSession /\ playMap.live
      <3>1. Message(playMap.track, StateOf[r]) \in Messages
        BY <1>1, <2>1 DEF Message, Messages, Sessions
      <3> QED
        BY <1>6, <1>15, <2>1, <3>1 DEF ReadNowPlaying
    <2>2. CASE ~(playMap # NoSession /\ playMap.live)
      BY <1>4, <1>15, <2>2 DEF ReadNowPlaying
    <2> QED
      BY <2>1, <2>2
  <1>16. CASE enqueueNowPlaying(r)
    <2>1. info[r] \in Messages /\ info[r].track \in Tracks
      BY <1>16 DEF enqueueNowPlaying, Messages
    <2> QED
      BY <1>16, <2>1 DEF enqueueNowPlaying, Goto, prVars
  <1> QED
    BY <1>7, <1>8, <1>9, <1>10, <1>11, <1>12, <1>13, <1>14, <1>15, <1>16, Handler(r) DEF Handler

LEMMA WorkerTypes == ASSUME TrackerTypeOK, [TrackerNext]_trackerVars PROVE TrackerTypeOK'
  <1> USE DEF TrackerTypeOK
  <1>1. ASSUME NEW t \in Tracks, OnExpiration(t) PROVE TrackerTypeOK'
    <2>1. Message(t, "expired") \in Messages
      BY DEF Message, Messages
    <2>2. expiring' \in [Tracks -> Nat]
      BY <1>1 DEF OnExpiration
    <2>3. prQueue' \in Seq(Messages) /\ prSignal'
      BY <1>1, <2>1 DEF OnExpiration, enqueuePlaybackReport
    <2> QED
      BY <1>1, <2>2, <2>3 DEF OnExpiration, requestVars
  <1>2. CASE PRWorker
    <2>1. UNCHANGED <<playMap, expiring, expiries, handlerPc, info, scrobbled, loadFaults, npQueue>>
      BY <1>2 DEF PRWorker, requestVars
    <2>2. CASE prPc = "dispatch"
      <3>1. /\ delivered' = Head(prBatch) /\ prBatch' = Tail(prBatch)
            /\ prPc' = (IF Len(prBatch) = 1 THEN "select" ELSE "dispatch") /\ UNCHANGED <<prQueue, prSignal>>
        BY <1>2, <2>2 DEF PRWorker, playbackReportWorker
      <3>2. prBatch # <<>> /\ Head(prBatch) \in Messages /\ Tail(prBatch) \in Seq(Messages)
            /\ (Len(prBatch) = 1 <=> Tail(prBatch) = <<>>)
        <4>1. prBatch \in Seq(Messages) /\ prBatch # <<>>
          BY <2>2
        <4>2. Head(prBatch) \in Messages /\ Tail(prBatch) \in Seq(Messages) /\ Len(Tail(prBatch)) = Len(prBatch) - 1
          BY <4>1, HeadTailProperties
        <4>3. Len(Tail(prBatch)) = 0 <=> Tail(prBatch) = <<>>
          BY <4>2, EmptySeq
        <4> QED
          BY <4>1, <4>2, <4>3, LenProperties
      <3> QED
        BY <2>1, <3>1, <3>2
    <2>3. CASE prPc = "swap"
      BY <1>2, <2>1, <2>3 DEF PRWorker, playbackReportWorker
    <2>4. CASE prPc = "select"
      BY <1>2, <2>1, <2>4 DEF PRWorker, playbackReportWorker
    <2> QED
      BY <2>2, <2>3, <2>4
  <1>3. CASE NPWorker
    BY <1>3 DEF NPWorker, nowPlayingWorker, requestVars, prVars
  <1>4. CASE TTLPasses
    <2>1. [playMap EXCEPT !.live = FALSE] \in Sessions
      BY <1>4 DEF TTLPasses, Sessions
    <2>2. expiries' \in 0..MaxExpiries
      BY <1>4, TrackerAssumption DEF TTLPasses
    <2> QED
      BY <1>4, <2>1, <2>2 DEF TTLPasses, requestVars, prVars
  <1>5. CASE Evict
    <2>1. playMap.track \in Tracks
      BY <1>5 DEF Evict, Sessions
    <2>2. expiring' \in [Tracks -> Nat]
      BY <1>5, <2>1 DEF Evict
    <2> QED
      BY <1>5, <2>2 DEF Evict, requestVars, prVars
  <1>6. CASE UNCHANGED trackerVars
    BY <1>6 DEF trackerVars, requestVars, prVars
  <1> QED
    BY <1>1, <1>2, <1>3, <1>4, <1>5, <1>6, HandlerTypes DEF TrackerNext

LEMMA TrackerInitTypes == TrackerInit => TrackerTypeOK
  <1> SUFFICES ASSUME TrackerInit PROVE TrackerTypeOK
    OBVIOUS
  <1>1. prQueue \in Seq(Messages) /\ prBatch \in Seq(Messages)
    BY DEF TrackerInit
  <1>2. loadFaults \in 0..MaxLoadFaults /\ expiries \in 0..MaxExpiries
    BY TrackerAssumption DEF TrackerInit
  <1> QED
    BY <1>1, <1>2 DEF TrackerInit, TrackerTypeOK

\* A session changes only as the reports for it say: for any number of
\* reports, tracks and expiries, in every order of their loads.
THEOREM ReportsRuleSessions == TrackerSpec => SessionsFollowReports
  <1>1. ASSUME TrackerTypeOK, [TrackerNext]_trackerVars
        PROVE  /\ [\A t \in Tracks :
                     hasPlayingSession(t) => ~(playMap' # NoSession /\ playMap' = Session(t, "starting"))]_trackerVars
               /\ [\A t \in Tracks :
                     Current(t) /\ playMap' = NoSession
                     => \E r \in Reports : TrackOf[r] = t /\ handlerPc[r] = "loaded" /\ StateOf[r] = "stopped"
                                           /\ handlerPc'[r] # "loaded"]_trackerVars
    BY <1>1, NoDowngrade, OwnStopOnly
  <1> QED
    BY <1>1, TrackerInitTypes, WorkerTypes, PTL
       DEF TrackerSpec, SessionsFollowReports, LateStartNeverDowngrades, StopEndsOwnSessionOnly

\* A queued report is announced or about to be fetched.
Announced == prQueue # <<>> => prSignal \/ prPc = "swap"

\* The worker that sends playback reports sleeps on an empty queue only, and the
\* state of the tracker has its type: a report is queued and the signal raised
\* in one critical section, and the worker takes the queue after the signal.
THEOREM NoReportIsStranded == TrackerSpec => [](TrackerTypeOK /\ NoStrandedReport)
  <1> DEFINE I == TrackerTypeOK /\ Announced
  <1>1. TrackerInit => I
    BY TrackerInitTypes DEF TrackerInit, Announced
  <1>2. I /\ [TrackerNext]_trackerVars => I'
    <2> SUFFICES ASSUME I, [TrackerNext]_trackerVars PROVE Announced'
      BY WorkerTypes
    <2> USE DEF Announced
    <2>1. ASSUME NEW r \in Reports, Handler(r), ~EnqueueReport(r) PROVE UNCHANGED prVars
      BY <2>1 DEF Handler, StartingCheck, StartingWrite, PlayingLoad, PlayingWrite, LoadFails, StoppedScrobble,
         StoppedRemove, ReadNowPlaying, enqueueNowPlaying
    <2>2. ASSUME NEW r \in Reports, EnqueueReport(r) PROVE Announced'
      BY <2>2 DEF EnqueueReport, enqueuePlaybackReport
    <2>3. ASSUME NEW t \in Tracks, OnExpiration(t) PROVE Announced'
      BY <2>3 DEF OnExpiration, enqueuePlaybackReport
    <2>4. CASE PRWorker
      BY <2>4 DEF PRWorker, playbackReportWorker, TrackerTypeOK
    <2>5. CASE NPWorker \/ TTLPasses \/ Evict \/ UNCHANGED trackerVars
      BY <2>5 DEF NPWorker, TTLPasses, Evict, trackerVars, prVars
    <2> QED
      BY <2>1, <2>2, <2>3, <2>4, <2>5 DEF TrackerNext, prVars
  <1>3. I => TrackerTypeOK /\ NoStrandedReport
    BY DEF Announced, NoStrandedReport
  <1> QED
    BY <1>1, <1>2, <1>3, PTL DEF TrackerSpec

-------------------------------------------------------------------------------
(* Jukebox.  A track that was made and not closed is the active one, unless    *)
(* two loads overlapped: pausing is not enough, since a paused track may be    *)
(* resumed.  A load begins when no track is active, so that the one that       *)
(* answers is the only one.                                                    *)

TrackRecord == [song : Songs \cup {Unknown}, volume : Gains \cup {DefaultGain}, paused : BOOLEAN, alive : BOOLEAN, closed : BOOLEAN]

JukeTypeOK ==
    /\ items \in Seq(Songs) /\ index \in Int /\ index >= -1
    /\ gain \in Gains \cup {DefaultGain} /\ switching \in BOOLEAN /\ overlap \in BOOLEAN
    /\ tracks \in Seq(TrackRecord) /\ active \in 0..Len(tracks) /\ done \subseteq DOMAIN tracks
    /\ loading \in [Loaders -> [song : Songs \cup {Unknown}, play : BOOLEAN]]

\* As long as nobody loaded beside another, a track is loaded after the active
\* one was closed.
OneLoads ==
    ~overlap => \A a \in Loaders : loading[a] # NoLoad =>
        active = 0 /\ \A b \in Loaders : loading[b] # NoLoad => a = b

\* All other tracks were closed, and not merely paused.
OthersClosed == ~overlap => \A t \in DOMAIN tracks : ~tracks[t].closed => t = active

JukeInv == JukeTypeOK /\ OneLoads /\ OthersClosed /\ PlaysAtTheGain

LEMMA Least == ASSUME NEW S \in SUBSET Nat, S # {} PROVE \E x \in S : \A y \in S : x <= y
<1>1. PICK x \in S : \A y \in S : ~(<<y, x>> \in OpToRel(<, Nat))
    BY NatLessThanWellFounded, WFMin
<1>2. \A y \in S : ~(y < x) BY <1>1 DEF OpToRel
<1>3. QED BY <1>2

LEMMA SetIndex_Type == ASSUME JukeTypeOK, NEW i \in Int
    PROVE  SetIndex(i) \in Int /\ SetIndex(i) >= -1 /\ (items # <<>> => items[SetIndex(i) + 1] \in Songs)
<1>1. Len(items) \in Nat /\ (items # <<>> => Len(items) > 0) BY DEF JukeTypeOK
<1>2. SetIndex(i) \in Int /\ SetIndex(i) >= -1 /\ (items # <<>> => SetIndex(i) + 1 \in 1..Len(items)) BY <1>1 DEF SetIndex
<1>3. QED BY <1>2 DEF JukeTypeOK

LEMMA Index_Type == ASSUME NEW queue \in Seq(Songs), NEW song
    PROVE  getMediaFileIndexByID(queue, song) \in Int /\ getMediaFileIndexByID(queue, song) >= -1
<1> DEFINE at == {k \in DOMAIN queue : queue[k] = song}
<1>1. at \in SUBSET Nat OBVIOUS
<1>2. CASE at = {} BY <1>2 DEF getMediaFileIndexByID
<1>3. ASSUME at # {} PROVE (CHOOSE k \in at : \A j \in at : k <= j) \in Nat
    <2> HIDE DEF at
    <2>1. \E k \in at : \A j \in at : k <= j BY <1>1, <1>3, Least
    <2>2. QED BY <1>1, <2>1
<1>4. QED BY <1>2, <1>3 DEF getMediaFileIndexByID

\* One track is changed.
LEMMA TrackSet ==
    ASSUME tracks \in Seq(TrackRecord), NEW t \in DOMAIN tracks, NEW r \in TrackRecord
    PROVE  LET ts == [tracks EXCEPT ![t] = r]
           IN  /\ ts \in Seq(TrackRecord) /\ Len(ts) = Len(tracks) /\ DOMAIN ts = DOMAIN tracks
               /\ ts[t] = r /\ \A u \in DOMAIN tracks \ {t} : ts[u] = tracks[u]
OBVIOUS

LEMMA TrackFields ==
    ASSUME NEW r \in TrackRecord, NEW b \in BOOLEAN, NEW g \in Gains
    PROVE  /\ [r EXCEPT !.paused = b] \in TrackRecord /\ [r EXCEPT !.paused = b].closed = r.closed
           /\ [r EXCEPT !.paused = b].volume = r.volume /\ [r EXCEPT !.paused = b].alive = r.alive
           /\ [r EXCEPT !.alive = FALSE] \in TrackRecord /\ [r EXCEPT !.alive = FALSE].closed = r.closed
           /\ ~[r EXCEPT !.alive = FALSE].alive
           /\ [r EXCEPT !.volume = g] \in TrackRecord /\ [r EXCEPT !.volume = g].closed = r.closed
           /\ [r EXCEPT !.volume = g].volume = g
           /\ [r EXCEPT !.closed = TRUE] \in TrackRecord /\ [r EXCEPT !.closed = TRUE].closed
           /\ [r EXCEPT !.closed = TRUE, !.alive = FALSE] \in TrackRecord /\ [r EXCEPT !.closed = TRUE, !.alive = FALSE].closed
BY DEF TrackRecord

LEMMA JukeboxInit_Inv == ASSUME JukeboxInit PROVE JukeInv
<1> USE DEF JukeboxInit
<1>1. items \in Seq(Songs) /\ tracks \in Seq(TrackRecord) /\ Len(tracks) = 0 /\ DOMAIN tracks = {} OBVIOUS
<1>2. NoLoad \in [song : Songs \cup {Unknown}, play : BOOLEAN] BY DEF NoLoad
<1>3. loading \in [Loaders -> [song : Songs \cup {Unknown}, play : BOOLEAN]] BY <1>2
<1>6. active \in 0..Len(tracks) /\ done \subseteq DOMAIN tracks /\ index \in Int /\ index >= -1 BY <1>1
<1>7. gain \in Gains \cup {DefaultGain} /\ switching \in BOOLEAN /\ overlap \in BOOLEAN OBVIOUS
<1>8. JukeTypeOK BY <1>1, <1>3, <1>6, <1>7 DEF JukeTypeOK
<1>4. OneLoads /\ OthersClosed /\ PlaysAtTheGain BY <1>1 DEF OneLoads, OthersClosed, PlaysAtTheGain
<1>5. QED BY <1>4, <1>8 DEF JukeInv

LEMMA LoadBegins ==
    ASSUME JukeTypeOK, OneLoads, NEW a \in Loaders, NEW song \in Songs, NEW play \in BOOLEAN,
           BeginLoading(a, song, play), active' = 0
    PROVE  /\ loading' \in [Loaders -> [song : Songs \cup {Unknown}, play : BOOLEAN]]
           /\ overlap' \in BOOLEAN /\ (overlap => overlap')
           /\ OneLoads'
<1>1. loading' = [loading EXCEPT ![a] = [song |-> song, play |-> play]] BY DEF BeginLoading
<1>2. overlap' = (overlap \/ \E b \in Loaders \ {a} : loading[b] # NoLoad) BY DEF BeginLoading
<1>3. overlap' \in BOOLEAN /\ (overlap => overlap') /\ (~overlap' => \A b \in Loaders \ {a} : loading[b] = NoLoad)
    BY <1>2, Zenon
<1>4. loading' \in [Loaders -> [song : Songs \cup {Unknown}, play : BOOLEAN]] BY <1>1 DEF JukeTypeOK
<1>5. OneLoads' BY <1>1, <1>3 DEF OneLoads, JukeTypeOK
<1>6. QED BY <1>3, <1>4, <1>5

\* Closing the active track leaves none open.
LEMMA ActiveCloses ==
    ASSUME JukeInv, active' = 0, overlap => overlap',
           NEW ts, ts = IF active = 0 THEN tracks ELSE CloseTrack(active)
    PROVE  /\ ts \in Seq(TrackRecord) /\ Len(ts) = Len(tracks) /\ DOMAIN ts = DOMAIN tracks
           /\ ~overlap' => \A t \in DOMAIN ts : ts[t].closed
<1>1. CASE active = 0 BY <1>1 DEF JukeInv, JukeTypeOK, OthersClosed
<1>2. ASSUME active # 0 PROVE /\ ts \in Seq(TrackRecord) /\ Len(ts) = Len(tracks) /\ DOMAIN ts = DOMAIN tracks
                              /\ ~overlap' => \A t \in DOMAIN ts : ts[t].closed
    <2>1. active \in DOMAIN tracks /\ tracks \in Seq(TrackRecord) BY <1>2 DEF JukeInv, JukeTypeOK
    <2> DEFINE r == [tracks[active] EXCEPT !.closed = TRUE, !.alive = FALSE]
    <2>2. tracks[active] \in TrackRecord BY <2>1
    <2>3. r \in TrackRecord /\ r.closed BY <2>2 DEF TrackRecord
    <2>4. ts = [tracks EXCEPT ![active] = r]
        <3>1. tracks = [u \in 1..Len(tracks) |-> tracks[u]] /\ active \in 1..Len(tracks) BY <2>1
        <3>2. ts = CloseTrack(active) BY <1>2
        <3> DEFINE once == [tracks EXCEPT ![active] = [tracks[active] EXCEPT !.closed = TRUE]]
        <3>3. ts = [once EXCEPT ![active] = [once[active] EXCEPT !.alive = FALSE]] BY <3>2 DEF CloseTrack
        <3>4. once[active] = [tracks[active] EXCEPT !.closed = TRUE] BY <2>1
        <3>5. ts = [once EXCEPT ![active] = r] BY <3>3, <3>4
        <3>6. QED BY <2>1, <3>5
    <2> HIDE DEF r
    <2>5. /\ ts \in Seq(TrackRecord) /\ Len(ts) = Len(tracks) /\ DOMAIN ts = DOMAIN tracks
          /\ ts[active] = r /\ \A u \in DOMAIN tracks \ {active} : ts[u] = tracks[u]
        BY <2>1, <2>3, <2>4, TrackSet
    <2>6. QED BY <2>3, <2>5 DEF JukeInv, OthersClosed
<1>3. QED BY <1>1, <1>2

\* A track is paused, resumed, ends or changes its volume.
LEMMA TrackKept ==
    ASSUME JukeInv, NEW t \in DOMAIN tracks, NEW r \in TrackRecord, r.closed = tracks[t].closed,
           tracks' = [tracks EXCEPT ![t] = r], UNCHANGED <<active, overlap, done>>
    PROVE  /\ tracks' \in Seq(TrackRecord) /\ active' \in 0..Len(tracks') /\ done' \subseteq DOMAIN tracks'
           /\ OthersClosed'
           /\ tracks'[t] = r /\ \A u \in DOMAIN tracks \ {t} : tracks'[u] = tracks[u]
<1>1. tracks \in Seq(TrackRecord) BY DEF JukeInv, JukeTypeOK
<1>2. /\ tracks' \in Seq(TrackRecord) /\ Len(tracks') = Len(tracks) /\ DOMAIN tracks' = DOMAIN tracks
      /\ tracks'[t] = r /\ \A u \in DOMAIN tracks \ {t} : tracks'[u] = tracks[u]
    BY <1>1, TrackSet
<1>3. OthersClosed' BY <1>2 DEF JukeInv, OthersClosed
<1>4. QED BY <1>2, <1>3 DEF JukeInv, JukeTypeOK

LEMMA Device_Stays ==
    ASSUME JukeInv, UNCHANGED <<gain, active, tracks, loading, overlap>>
    PROVE  OneLoads' /\ OthersClosed' /\ PlaysAtTheGain'
BY DEF JukeInv, OneLoads, OthersClosed, PlaysAtTheGain, TrackRuns

LEMMA TrackLoaded_Inv == ASSUME JukeInv, NEW a \in Loaders, TrackLoaded(a) PROVE JukeInv'
<1> USE DEF TrackLoaded
<1> DEFINE r == [song |-> loading[a].song, volume |-> gain, paused |-> ~loading[a].play, alive |-> TRUE, closed |-> FALSE]
<1>1. tracks \in Seq(TrackRecord) /\ loading[a] \in [song : Songs \cup {Unknown}, play : BOOLEAN]
    BY DEF JukeInv, JukeTypeOK
<1>2. r \in TrackRecord /\ r.volume = gain BY <1>1 DEF TrackRecord, JukeInv, JukeTypeOK
<1>3. tracks' = Append(tracks, r) OBVIOUS
<1> HIDE DEF r
<1>4. /\ tracks' \in Seq(TrackRecord) /\ Len(tracks') = Len(tracks) + 1 /\ Len(tracks) \in Nat
      /\ DOMAIN tracks = 1..Len(tracks) /\ DOMAIN tracks' = 1..Len(tracks')
      /\ tracks'[Len(tracks) + 1] = r /\ \A u \in DOMAIN tracks : tracks'[u] = tracks[u]
    BY <1>1, <1>2, <1>3
<1>5. active' = Len(tracks) + 1 BY <1>4
<1>6. switching' \in BOOLEAN
    <2>1. switching' = (switching \/ loading[a].play) OBVIOUS
    <2>2. QED BY <2>1, Zenon
<1>7. loading' \in [Loaders -> [song : Songs \cup {Unknown}, play : BOOLEAN]]
    <2>1. NoLoad \in [song : Songs \cup {Unknown}, play : BOOLEAN] BY DEF NoLoad
    <2>2. QED BY <2>1 DEF JukeInv, JukeTypeOK
<1>8. JukeTypeOK' BY <1>4, <1>5, <1>6, <1>7 DEF JukeInv, JukeTypeOK
<1>9. ASSUME ~overlap PROVE active = 0 /\ \A b \in Loaders \ {a} : loading[b] = NoLoad
    BY <1>9 DEF JukeInv, OneLoads
<1>10. OneLoads' BY <1>9 DEF OneLoads, JukeInv, JukeTypeOK
<1>11. OthersClosed'
    <2> SUFFICES ASSUME ~overlap, NEW t \in DOMAIN tracks', ~tracks'[t].closed PROVE t = active'
        BY DEF OthersClosed
    <2>1. CASE t = Len(tracks) + 1 BY <2>1, <1>5
    <2>2. CASE t \in DOMAIN tracks
        <3>1. tracks[t].closed BY <1>4, <1>9, <2>2 DEF JukeInv, OthersClosed
        <3>2. QED BY <1>4, <2>2, <3>1
    <2>3. QED BY <1>4, <2>1, <2>2
<1>12. PlaysAtTheGain' BY <1>2, <1>4, <1>5 DEF PlaysAtTheGain
<1>13. QED BY <1>8, <1>10, <1>11, <1>12 DEF JukeInv

LEMMA LoadingFails_Inv == ASSUME JukeInv, NEW a \in Loaders, LoadingFails(a) PROVE JukeInv'
<1> USE DEF LoadingFails
<1>1. loading' \in [Loaders -> [song : Songs \cup {Unknown}, play : BOOLEAN]]
    <2>1. NoLoad \in [song : Songs \cup {Unknown}, play : BOOLEAN] BY DEF NoLoad
    <2>2. QED BY <2>1 DEF JukeInv, JukeTypeOK
<1>2. JukeTypeOK' BY <1>1 DEF JukeInv, JukeTypeOK
<1>3. OneLoads' BY DEF JukeInv, JukeTypeOK, OneLoads
<1>4. OthersClosed' /\ PlaysAtTheGain' BY DEF JukeInv, OthersClosed, PlaysAtTheGain, TrackRuns
<1>5. QED BY <1>2, <1>3, <1>4 DEF JukeInv

LEMMA SongEnds_Inv == ASSUME JukeInv, NEW t \in DOMAIN tracks, SongEnds(t) PROVE JukeInv'
<1> USE DEF SongEnds
<1>1. tracks[t] \in TrackRecord BY DEF JukeInv, JukeTypeOK
<1> DEFINE r == [tracks[t] EXCEPT !.alive = FALSE]
<1>2. r \in TrackRecord /\ r.closed = tracks[t].closed /\ ~r.alive BY <1>1 DEF TrackRecord
<1>3. tracks' = [tracks EXCEPT ![t] = r] OBVIOUS
<1> HIDE DEF r
<1>4. /\ tracks' \in Seq(TrackRecord) /\ active' \in 0..Len(tracks') /\ done' \subseteq DOMAIN tracks'
      /\ OthersClosed'
      /\ tracks'[t] = r /\ \A u \in DOMAIN tracks \ {t} : tracks'[u] = tracks[u]
    BY <1>2, <1>3, TrackKept
<1>5. JukeTypeOK' BY <1>4 DEF JukeInv, JukeTypeOK
<1>6. OneLoads' BY DEF JukeInv, OneLoads
<1>7. PlaysAtTheGain'
    <2> SUFFICES ASSUME active # 0, TrackRuns(active)' PROVE tracks'[active].volume = gain
        BY DEF PlaysAtTheGain
    <2>1. active # t BY <1>2, <1>4 DEF TrackRuns
    <2>2. active \in DOMAIN tracks BY DEF JukeInv, JukeTypeOK
    <2>3. QED BY <1>4, <2>1, <2>2 DEF JukeInv, PlaysAtTheGain, TrackRuns
<1>8. QED BY <1>4, <1>5, <1>6, <1>7 DEF JukeInv

LEMMA SignalDone_Inv == ASSUME JukeInv, NEW t \in DOMAIN tracks, SignalDone(t) PROVE JukeInv'
<1>1. JukeTypeOK' BY DEF SignalDone, JukeInv, JukeTypeOK
<1>2. QED BY <1>1, Device_Stays DEF SignalDone, JukeInv

\* The active track is paused or resumed.
LEMMA PauseResume ==
    ASSUME JukeInv, active # 0, NEW b \in BOOLEAN,
           tracks' = [tracks EXCEPT ![active].paused = b],
           UNCHANGED <<gain, active, done, loading, overlap>>,
           items' \in Seq(Songs), index' \in Int, index' >= -1, switching' \in BOOLEAN
    PROVE  JukeInv'
<1>0. active \in DOMAIN tracks BY DEF JukeInv, JukeTypeOK
<1>1. tracks[active] \in TrackRecord BY <1>0 DEF JukeInv, JukeTypeOK
<1> DEFINE r == [tracks[active] EXCEPT !.paused = b]
<1>2. r \in TrackRecord /\ r.closed = tracks[active].closed /\ r.alive = tracks[active].alive /\ r.volume = tracks[active].volume
    BY <1>1 DEF TrackRecord
<1>3. tracks' = [tracks EXCEPT ![active] = r] OBVIOUS
<1> HIDE DEF r
<1>4. /\ tracks' \in Seq(TrackRecord) /\ active' \in 0..Len(tracks') /\ done' \subseteq DOMAIN tracks'
      /\ OthersClosed'
      /\ tracks'[active] = r /\ \A u \in DOMAIN tracks \ {active} : tracks'[u] = tracks[u]
    BY <1>0, <1>2, <1>3, TrackKept
<1>5. JukeTypeOK' BY <1>4 DEF JukeInv, JukeTypeOK
<1>6. OneLoads' BY DEF JukeInv, OneLoads
<1>7. PlaysAtTheGain' BY <1>0, <1>2, <1>4 DEF JukeInv, PlaysAtTheGain, TrackRuns
<1>8. QED BY <1>4, <1>5, <1>6, <1>7 DEF JukeInv

\* The active track is closed, and a load may begin.
LEMMA ActiveGone ==
    ASSUME JukeInv, active' = 0, tracks' \in Seq(TrackRecord), Len(tracks') = Len(tracks),
           ~overlap' => \A t \in DOMAIN tracks' : tracks'[t].closed,
           OneLoads', loading' \in [Loaders -> [song : Songs \cup {Unknown}, play : BOOLEAN]], overlap' \in BOOLEAN,
           done' \subseteq done, gain' = gain, items' \in Seq(Songs), index' \in Int, index' >= -1, switching' \in BOOLEAN
    PROVE  JukeInv'
<1>1. DOMAIN tracks' = DOMAIN tracks /\ 0 \in 0..Len(tracks') BY DEF JukeInv, JukeTypeOK
<1>2. JukeTypeOK' BY <1>1 DEF JukeInv, JukeTypeOK
<1>3. OthersClosed' /\ PlaysAtTheGain' BY DEF OthersClosed, PlaysAtTheGain
<1>4. QED BY <1>2, <1>3 DEF JukeInv

\* A request that neither loads nor touches tracks.
LEMMA QueueOnly ==
    ASSUME JukeInv, UNCHANGED <<gain, active, tracks, done, loading, overlap>>,
           items' \in Seq(Songs), index' \in Int, index' >= -1, switching' \in BOOLEAN
    PROVE  JukeInv'
<1>1. JukeTypeOK' BY DEF JukeInv, JukeTypeOK
<1>2. QED BY <1>1, Device_Stays DEF JukeInv

LEMMA IdleLoads ==
    ASSUME JukeInv, active' = 0, UNCHANGED <<loading, overlap>>
    PROVE  /\ OneLoads' /\ loading' \in [Loaders -> [song : Songs \cup {Unknown}, play : BOOLEAN]]
           /\ overlap' \in BOOLEAN /\ (overlap => overlap')
BY DEF JukeInv, JukeTypeOK, OneLoads

LEMMA SwitchTrack_Inv == ASSUME JukeInv, NEW t \in done, SwitchTrack(t) PROVE JukeInv'
<1> DEFINE closed == IF active = 0 THEN tracks ELSE CloseTrack(active)
<1>1. /\ tracks' = [closed EXCEPT ![t].closed = TRUE] /\ active' = 0
      /\ UNCHANGED <<items, gain, switching, controls>> /\ t \in done /\ done' = done \ {t}
      /\ IF IsAtLastElement
         THEN UNCHANGED <<index, loading, overlap>>
         ELSE /\ index' = SetIndex(index + 1)
              /\ BeginLoading(Switcher, items[index' + 1], TRUE)
    BY DEF SwitchTrack, TakesSignal
<1> HIDE DEF closed
<1>2. /\ OneLoads' /\ loading' \in [Loaders -> [song : Songs \cup {Unknown}, play : BOOLEAN]]
      /\ overlap' \in BOOLEAN /\ (overlap => overlap') /\ index' \in Int /\ index' >= -1
    <2>1. CASE IsAtLastElement BY <1>1, <2>1, IdleLoads DEF JukeInv, JukeTypeOK
    <2>2. CASE ~IsAtLastElement
        <3>1. items # <<>> BY <2>2 DEF IsAtLastElement, JukeInv, JukeTypeOK
        <3>2. index + 1 \in Int BY DEF JukeInv, JukeTypeOK
        <3>3. index' \in Int /\ index' >= -1 /\ items[index' + 1] \in Songs
            BY <1>1, <2>2, <3>1, <3>2, SetIndex_Type DEF JukeInv
        <3>4. TRUE \in BOOLEAN /\ Switcher \in Loaders BY DEF Loaders
        <3>5. QED BY <1>1, <2>2, <3>3, <3>4, LoadBegins DEF JukeInv
    <2>3. QED BY <2>1, <2>2
<1>3. /\ closed \in Seq(TrackRecord) /\ Len(closed) = Len(tracks) /\ DOMAIN closed = DOMAIN tracks
      /\ ~overlap' => \A u \in DOMAIN closed : closed[u].closed
    BY <1>1, <1>2, ActiveCloses DEF closed
<1>4. t \in DOMAIN closed BY <1>1, <1>3 DEF JukeInv, JukeTypeOK
<1> DEFINE r == [closed[t] EXCEPT !.closed = TRUE]
<1>5. closed[t] \in TrackRecord BY <1>3, <1>4
<1>6. r \in TrackRecord /\ r.closed BY <1>5 DEF TrackRecord
<1>7. tracks' = [closed EXCEPT ![t] = r] BY <1>1
<1> HIDE DEF r
<1>8. /\ tracks' \in Seq(TrackRecord) /\ Len(tracks') = Len(tracks) /\ DOMAIN tracks' = DOMAIN closed
      /\ tracks'[t] = r /\ \A u \in DOMAIN closed \ {t} : tracks'[u] = closed[u]
    BY <1>3, <1>4, <1>6, <1>7
<1>9. ~overlap' => \A u \in DOMAIN tracks' : tracks'[u].closed BY <1>3, <1>6, <1>8
<1>10. items' \in Seq(Songs) /\ switching' \in BOOLEAN /\ done' \subseteq done BY <1>1 DEF JukeInv, JukeTypeOK
<1>11. QED BY <1>1, <1>2, <1>8, <1>9, <1>10, ActiveGone

LEMMA Start_Inv == ASSUME JukeInv, NEW c \in Clients, Start(c) PROVE JukeInv'
<1> USE DEF Start
<1>0. items \in Seq(Songs) /\ index \in Int /\ index >= -1 /\ switching' \in BOOLEAN BY DEF JukeInv, JukeTypeOK
<1>1. ASSUME active # 0 PROVE JukeInv'
    <2>1. tracks' = [tracks EXCEPT ![active].paused = FALSE] BY <1>1 DEF ResumedTrack
    <2>2. FALSE \in BOOLEAN OBVIOUS
    <2>3. UNCHANGED <<gain, active, done, loading, overlap, index, items>> BY <1>1
    <2>4. QED BY <1>0, <1>1, <2>1, <2>2, <2>3, PauseResume
<1>2. ASSUME active = 0, items = <<>> PROVE JukeInv' BY <1>0, <1>2, QueueOnly
<1>3. ASSUME active = 0, items # <<>> PROVE JukeInv'
    <2>1. index' = SetIndex(index) /\ BeginLoading(c, items[index' + 1], TRUE) /\ UNCHANGED tracks
        BY <1>3
    <2>2. index' \in Int /\ index' >= -1 /\ items[index' + 1] \in Songs BY <1>0, <1>3, <2>1, SetIndex_Type DEF JukeInv
    <2>3. TRUE \in BOOLEAN /\ c \in Loaders BY DEF Loaders
    <2>4. active' = 0 /\ UNCHANGED <<items, gain, done>> BY <1>3
    <2>5. /\ OneLoads' /\ loading' \in [Loaders -> [song : Songs \cup {Unknown}, play : BOOLEAN]]
          /\ overlap' \in BOOLEAN /\ (overlap => overlap')
        BY <2>1, <2>2, <2>3, <2>4, LoadBegins DEF JukeInv
    <2>6. ~overlap' => \A t \in DOMAIN tracks' : tracks'[t].closed
        BY <1>3, <2>1, <2>5 DEF JukeInv, JukeTypeOK, OthersClosed
    <2>7. tracks' \in Seq(TrackRecord) /\ Len(tracks') = Len(tracks) BY <2>1 DEF JukeInv, JukeTypeOK
    <2>8. QED BY <1>0, <2>2, <2>4, <2>5, <2>6, <2>7, ActiveGone
<1>4. QED BY <1>1, <1>2, <1>3

LEMMA StopPlaying_Inv == ASSUME JukeInv, NEW c \in Clients, StopPlaying(c) PROVE JukeInv'
<1> USE DEF StopPlaying
<1>0. items' \in Seq(Songs) /\ index' \in Int /\ index' >= -1 /\ switching' \in BOOLEAN BY DEF JukeInv, JukeTypeOK
<1>1. CASE active = 0 BY <1>0, <1>1, QueueOnly
<1>2. CASE active # 0
    <2>1. tracks' = [tracks EXCEPT ![active].paused = TRUE] BY <1>2 DEF PausedTrack
    <2>2. TRUE \in BOOLEAN OBVIOUS
    <2>3. QED BY <1>0, <1>2, <2>1, <2>2, PauseResume
<1>3. QED BY <1>1, <1>2

LEMMA Skip_Inv == ASSUME JukeInv, NEW c \in Clients, NEW i \in Int, Skip(c, i) PROVE JukeInv'
<1> DEFINE played == active # 0 /\ TrackPlays(active)
<1>1. /\ UNCHANGED <<items, gain, done>>
      /\ IF active # 0 /\ i = index
         THEN /\ tracks' \in IF played THEN {tracks, PausedTrack(active)} ELSE {tracks}
              /\ switching' = (switching \/ (played /\ tracks' = tracks))
              /\ UNCHANGED <<index, active, loading, overlap>>
         ELSE /\ tracks' = IF active = 0 THEN tracks ELSE CloseTrack(active)
              /\ active' = 0
              /\ index' = SetIndex(i)
              /\ UNCHANGED switching
              /\ IF items = <<>>
                 THEN UNCHANGED <<loading, overlap>>
                 ELSE BeginLoading(c, items[index' + 1], played)
    BY DEF Skip
<1>2. played \in BOOLEAN BY Zenon
<1> HIDE DEF played
<1>3. items' \in Seq(Songs) /\ index \in Int /\ index >= -1 BY <1>1 DEF JukeInv, JukeTypeOK
<1> DEFINE here == active # 0 /\ i = index
<1>4. CASE here
    <2>1. switching' = (switching \/ (played /\ tracks' = tracks)) /\ UNCHANGED <<index, active, loading, overlap>> BY <1>1, <1>4
    <2>2. switching' \in BOOLEAN BY <2>1, Zenon
    <2>3. tracks' = tracks \/ tracks' = PausedTrack(active) BY <1>1, <1>4
    <2>4. CASE tracks' = tracks BY <1>1, <1>3, <2>1, <2>2, <2>4, QueueOnly
    <2>5. CASE tracks' = PausedTrack(active)
        <3>1. tracks' = [tracks EXCEPT ![active].paused = TRUE] /\ TRUE \in BOOLEAN BY <2>5 DEF PausedTrack
        <3>2. QED BY <1>1, <1>3, <1>4, <2>1, <2>2, <3>1, PauseResume
    <2>6. QED BY <2>3, <2>4, <2>5
<1>5. CASE ~here
    <2>1. /\ tracks' = IF active = 0 THEN tracks ELSE CloseTrack(active)
          /\ active' = 0 /\ index' = SetIndex(i) /\ UNCHANGED switching
          /\ IF items = <<>> THEN UNCHANGED <<loading, overlap>> ELSE BeginLoading(c, items[index' + 1], played)
        BY <1>1, <1>5
    <2>2. index' \in Int /\ index' >= -1 /\ (items # <<>> => items[index' + 1] \in Songs)
        BY <2>1, SetIndex_Type DEF JukeInv
    <2>3. /\ OneLoads' /\ loading' \in [Loaders -> [song : Songs \cup {Unknown}, play : BOOLEAN]]
          /\ overlap' \in BOOLEAN /\ (overlap => overlap')
        <3>1. CASE items = <<>> BY <2>1, <3>1, IdleLoads
        <3>2. CASE items # <<>>
            <4>1. c \in Loaders BY DEF Loaders
            <4>2. QED BY <1>2, <2>1, <2>2, <3>2, <4>1, LoadBegins DEF JukeInv
        <3>3. QED BY <3>1, <3>2
    <2>4. /\ tracks' \in Seq(TrackRecord) /\ Len(tracks') = Len(tracks)
          /\ ~overlap' => \A t \in DOMAIN tracks' : tracks'[t].closed
        BY <2>1, <2>3, ActiveCloses
    <2>5. switching' \in BOOLEAN BY <2>1 DEF JukeInv, JukeTypeOK
    <2>6. QED BY <1>1, <1>3, <2>1, <2>2, <2>3, <2>4, <2>5, ActiveGone
<1>6. QED BY <1>4, <1>5

LEMMA Add_Inv ==
    ASSUME JukeInv, NEW c \in Clients, NEW ids \in Seq(Songs \cup {Unknown}), Add(c, ids) PROVE JukeInv'
<1> USE DEF Add
<1>1. UNCHANGED <<gain, active, tracks, done, switching, loading, overlap>> OBVIOUS
<1>2. items \in Seq(Songs) /\ index \in Int /\ index >= -1 /\ switching' \in BOOLEAN BY DEF JukeInv, JukeTypeOK
<1>3. CASE \E k \in DOMAIN ids : ids[k] = Unknown BY <1>1, <1>2, <1>3, QueueOnly
<1>4. CASE ~\E k \in DOMAIN ids : ids[k] = Unknown
    <2>1. ids \in Seq(Songs) BY <1>4
    <2>2. items' = items \o ids /\ (index' = index \/ index' = 0) BY <1>4
    <2>3. items' \in Seq(Songs) /\ index' \in Int /\ index' >= -1 BY <1>2, <2>1, <2>2
    <2>4. QED BY <1>1, <1>2, <2>3, QueueOnly
<1>5. QED BY <1>3, <1>4

LEMMA ClearDevice_Inv ==
    ASSUME JukeInv, ClearDevice, UNCHANGED <<gain, done, switching, loading, overlap>>,
           items' \in Seq(Songs), index' \in Int, index' >= -1
    PROVE  JukeInv'
<1> USE DEF ClearDevice
<1>1. /\ OneLoads' /\ loading' \in [Loaders -> [song : Songs \cup {Unknown}, play : BOOLEAN]]
      /\ overlap' \in BOOLEAN /\ (overlap => overlap')
    BY IdleLoads
<1>2. /\ tracks' \in Seq(TrackRecord) /\ Len(tracks') = Len(tracks)
      /\ ~overlap' => \A t \in DOMAIN tracks' : tracks'[t].closed
    BY <1>1, ActiveCloses
<1>3. switching' \in BOOLEAN BY DEF JukeInv, JukeTypeOK
<1>4. QED BY <1>1, <1>2, <1>3, ActiveGone

LEMMA Clear_Inv == ASSUME JukeInv, NEW c \in Clients, Clear(c) PROVE JukeInv'
<1>1. items' \in Seq(Songs) /\ index' \in Int /\ index' >= -1 BY DEF Clear
<1>2. QED BY <1>1, ClearDevice_Inv DEF Clear

LEMMA Set_Inv ==
    ASSUME JukeInv, NEW c \in Clients, NEW ids \in Seq(Songs \cup {Unknown}), Set(c, ids) PROVE JukeInv'
<1>1. items' \in Seq(Songs)
    <2>1. CASE \E k \in DOMAIN ids : ids[k] = Unknown BY <2>1 DEF Set
    <2>2. CASE ~\E k \in DOMAIN ids : ids[k] = Unknown
        <3>1. ids \in Seq(Songs) BY <2>2
        <3>2. QED BY <2>2, <3>1 DEF Set
    <2>3. QED BY <2>1, <2>2
<1>2. index' \in Int /\ index' >= -1 BY DEF Set
<1>3. QED BY <1>1, <1>2, ClearDevice_Inv DEF Set

LEMMA RemoveSong_Inv == ASSUME JukeInv, NEW c \in Clients, NEW i \in Int, RemoveSong(c, i) PROVE JukeInv'
<1> USE DEF RemoveSong
<1>1. items \in Seq(Songs) /\ index \in Int /\ index >= -1 /\ switching' \in BOOLEAN BY DEF JukeInv, JukeTypeOK
<1>2. items' \in Seq(Songs) /\ index' \in Int /\ index' >= -1
    <2>1. CASE i \in 0..Len(items) - 1
        <3> DEFINE rest == RemoveAt(items, i + 1)
        <3>1. rest \in Seq(Songs)
            <4>1. SubSeq(items, 1, i + 1 - 1) \in Seq(Songs) /\ SubSeq(items, i + 1 + 1, Len(items)) \in Seq(Songs)
                BY <1>1, <2>1
            <4>2. QED BY <4>1 DEF RemoveAt
        <3>2. items' = rest /\ index' = IF CurrentSong = Unknown THEN -1 ELSE getMediaFileIndexByID(rest, CurrentSong)
            BY <2>1
        <3> HIDE DEF rest
        <3>3. getMediaFileIndexByID(rest, CurrentSong) \in Int /\ getMediaFileIndexByID(rest, CurrentSong) >= -1
            BY <3>1, Index_Type
        <3>4. QED BY <3>1, <3>2, <3>3
    <2>2. CASE ~(i \in 0..Len(items) - 1) BY <1>1, <2>2
    <2>3. QED BY <2>1, <2>2
<1> DEFINE pauses == active # 0 /\ TrackPlays(active) /\ i = index
<1>3. UNCHANGED <<gain, active, done, switching, loading, overlap>> /\ tracks' = IF pauses THEN PausedTrack(active) ELSE tracks
    OBVIOUS
<1>4. CASE pauses
    <2>1. tracks' = [tracks EXCEPT ![active].paused = TRUE] /\ TRUE \in BOOLEAN BY <1>3, <1>4 DEF PausedTrack
    <2>2. QED BY <1>1, <1>2, <1>3, <1>4, <2>1, PauseResume
<1>5. CASE ~pauses BY <1>1, <1>2, <1>3, <1>5, QueueOnly
<1>6. QED BY <1>4, <1>5

LEMMA Shuffle_Inv == ASSUME JukeInv, NEW c \in Clients, Shuffle(c) PROVE JukeInv'
<1> USE DEF Shuffle
<1>1. items \in Seq(Songs) /\ index \in Int /\ index >= -1 /\ switching' \in BOOLEAN BY DEF JukeInv, JukeTypeOK
<1>2. CASE ~(Len(items) > 1) BY <1>1, <1>2, QueueOnly
<1>3. CASE Len(items) > 1
    <2>1. PICK p \in Bijection(DOMAIN items, DOMAIN items) : Rearranged([k \in DOMAIN items |-> items[p[k]]]) BY <1>3
    <2> DEFINE queue == [k \in DOMAIN items |-> items[p[k]]]
    <2>2. p \in [DOMAIN items -> DOMAIN items] BY <2>1 DEF Bijection, Injection, Surjection
    <2>3. queue \in Seq(Songs) BY <1>1, <2>2
    <2>4. items' = queue /\ index' = getMediaFileIndexByID(queue, CurrentSong) BY <2>1 DEF Rearranged
    <2> HIDE DEF queue
    <2>5. index' \in Int /\ index' >= -1 BY <2>3, <2>4, Index_Type
    <2>6. QED BY <1>1, <2>3, <2>4, <2>5, QueueOnly
<1>4. QED BY <1>2, <1>3

LEMMA SetGain_Inv == ASSUME JukeInv, NEW c \in Clients, NEW g \in Gains, SetGain(c, g) PROVE JukeInv'
<1> USE DEF SetGain
<1>1. gain' = g /\ UNCHANGED <<items, index, active, done, switching, loading, overlap>> OBVIOUS
<1>2. OneLoads' BY DEF JukeInv, OneLoads
<1> DEFINE hears == active # 0 /\ TrackRuns(active)
<1>3. CASE hears
    <2>1. active \in DOMAIN tracks BY <1>3 DEF JukeInv, JukeTypeOK
    <2>2. tracks[active] \in TrackRecord BY <2>1 DEF JukeInv, JukeTypeOK
    <2> DEFINE r == [tracks[active] EXCEPT !.volume = g]
    <2>3. r \in TrackRecord /\ r.closed = tracks[active].closed /\ r.volume = g BY <2>2 DEF TrackRecord
    <2>4. tracks' = [tracks EXCEPT ![active] = r] BY <1>3
    <2> HIDE DEF r
    <2>5. /\ tracks' \in Seq(TrackRecord) /\ active' \in 0..Len(tracks') /\ done' \subseteq DOMAIN tracks'
          /\ OthersClosed' /\ tracks'[active] = r
        BY <1>1, <2>1, <2>3, <2>4, TrackKept
    <2>6. JukeTypeOK' BY <1>1, <2>5 DEF JukeInv, JukeTypeOK
    <2>7. PlaysAtTheGain' BY <1>1, <2>3, <2>5 DEF PlaysAtTheGain
    <2>8. QED BY <1>2, <2>5, <2>6, <2>7 DEF JukeInv
<1>4. CASE ~hears
    <2>1. tracks' = tracks BY <1>4
    <2>2. JukeTypeOK' BY <1>1, <2>1 DEF JukeInv, JukeTypeOK
    <2>3. OthersClosed' BY <1>1, <2>1 DEF JukeInv, OthersClosed
    <2>4. PlaysAtTheGain' BY <1>1, <1>4, <2>1 DEF PlaysAtTheGain, TrackRuns
    <2>5. QED BY <1>2, <2>2, <2>3, <2>4 DEF JukeInv
<1>5. QED BY <1>3, <1>4

LEMMA JukeboxControl_Inv ==
    ASSUME JukeInv, NEW c \in Clients, JukeboxControl(c) PROVE JukeInv'
<1>1. ASSUME NEW i \in -1..MaxItems, Skip(c, i) \/ RemoveSong(c, i) PROVE JukeInv'
    BY <1>1, JukeboxAssumption, Skip_Inv, RemoveSong_Inv
<1>2. ASSUME NEW ids \in {<<>>, <<Unknown>>} \cup {<<s>> : s \in Songs} \cup {<<s, t>> : s \in Songs, t \in Songs},
             Add(c, ids) \/ Set(c, ids)
      PROVE  JukeInv'
    <2>1. ids \in Seq(Songs \cup {Unknown})
        <3>1. ASSUME ids = <<>> PROVE ids \in Seq(Songs \cup {Unknown}) BY <3>1
        <3>5. ASSUME ids = <<Unknown>> PROVE ids \in Seq(Songs \cup {Unknown}) BY <3>5
        <3>2. ASSUME NEW s \in Songs, ids = <<s>> PROVE ids \in Seq(Songs \cup {Unknown}) BY <3>2
        <3>3. ASSUME NEW s \in Songs, NEW t \in Songs, ids = <<s, t>> PROVE ids \in Seq(Songs \cup {Unknown}) BY <3>3
        <3>4. QED BY <3>1, <3>2, <3>3, <3>5
    <2>2. QED BY <1>2, <2>1, Add_Inv, Set_Inv
<1>3. QED BY <1>1, <1>2, Start_Inv, StopPlaying_Inv, Clear_Inv, Shuffle_Inv, SetGain_Inv DEF JukeboxControl

LEMMA JukeboxNext_Inv == ASSUME JukeInv, [JukeboxNext]_jukeVars PROVE JukeInv'
<1>1. CASE UNCHANGED jukeVars
    <2>1. items' \in Seq(Songs) /\ index' \in Int /\ index' >= -1 /\ switching' \in BOOLEAN
        BY <1>1 DEF jukeVars, JukeInv, JukeTypeOK
    <2>2. QED BY <1>1, <2>1, QueueOnly DEF jukeVars
<1>2. Clients \subseteq Loaders /\ Switcher \in Loaders BY DEF Loaders
<1>3. CASE SwitcherSteps BY <1>2, <1>3, SwitchTrack_Inv, TrackLoaded_Inv, LoadingFails_Inv DEF SwitcherSteps
<1>4. QED
    BY <1>1, <1>2, <1>3, JukeboxControl_Inv, TrackLoaded_Inv, LoadingFails_Inv, SongEnds_Inv, SignalDone_Inv DEF JukeboxNext

\* A signal that is taken is the active track's or was sent before a request
\* closed its track.
LEMMA SignalsAreLate ==
    ASSUME JukeInv, JukeboxNext, NEW t \in done, t \notin done', active # 0, t # active
    PROVE  overlap \/ tracks[t].closed
BY DEF JukeInv, JukeTypeOK, OthersClosed

LEMMA JukeInv_Plays == JukeInv => OnlyTheActivePlays /\ PlaysAtTheGain
BY DEF JukeInv, OthersClosed, OnlyTheActivePlays, TrackPlays, TrackRuns

\* For any clients, songs, gains and bounds: whatever loads, requests and ends
\* of songs cross, one song plays, at the device's gain, and is cut by a late
\* signal only (core/playback/device.go locks nothing).
THEOREM JukeboxHolds == JukeboxSpec => JukeboxPlaysOneSong
<1>1. JukeboxInit => JukeInv BY JukeboxInit_Inv
<1>2. JukeInv /\ [JukeboxNext]_jukeVars => JukeInv' BY JukeboxNext_Inv
<1>3. JukeInv /\ [JukeboxNext]_jukeVars =>
        [\A t \in done : t \notin done' /\ active # 0 /\ t # active => overlap \/ tracks[t].closed]_jukeVars
    BY SignalsAreLate
<1>4. QED BY <1>1, <1>2, <1>3, JukeInv_Plays, PTL DEF JukeboxSpec, JukeboxPlaysOneSong, CutOnlyByALateSignal

-------------------------------------------------------------------------------
(* MediaEditing.  One edit at most is past the lock, and what it will replace  *)
(* or remove is what its editor saw, unless another program wrote meanwhile.   *)

EditTypeOK ==
    /\ onDisk \in BOOLEAN /\ stamp \in Nat /\ undone \in BOOLEAN
    /\ text \in [Places -> Texts \cup {NoText}]
    /\ loaded \in [Editors -> [Places -> Texts \cup {NoText}]]
    /\ row \in [exists : BOOLEAN, missing : BOOLEAN, stamp : Nat]
    /\ hash \in [onDisk : BOOLEAN, stamp : Nat] /\ hash.stamp <= stamp
    /\ edit \in [Editors -> EditWork \cup {NoEdit}]
    /\ metadataMu \in Editors \cup {NoEdit}

Underway(e) == edit[e] # NoEdit /\ edit[e].step # "waits"
MutexInv == \A e \in Editors : Underway(e) => metadataMu = e

\* What an editor is about to replace or remove is what it saw.
SeenBy(e) ==
    /\ AtStep(e, {"tags", "image", "lyrics"}, "staged") /\ InTags(e)
         => edit[e].copy = text["embedded"] /\ (edit[e].kind = "lyrics" => Unchanged(e, {"embedded"}))
    /\ AtStep(e, {"lyrics"}, "staged") /\ ~InTags(e) => Unchanged(e, {edit[e].place})
    /\ \A i \in DOMAIN Sidecars : AtStep(e, {"deleteLyrics"}, Sidecars[i])
         => \A j \in i..Len(Sidecars) : text[Sidecars[j]] = loaded[e][Sidecars[j]]
SeenInv == \A e \in Editors : e \notin raced => SeenBy(e)

\* A removal under way has its file gone and then its row marked.
RemovalInv ==
    ~undone => \A e \in Editors :
        /\ AtStep(e, {"remove"}, "mark") => ~onDisk
        /\ AtStep(e, {"remove"}, "purge") => ~onDisk /\ row.missing = row.exists

RowInv == ~undone /\ hash = FolderHash => (onDisk <=> row.exists /\ ~row.missing)

EditInv == EditTypeOK /\ MutexInv /\ SeenInv /\ RemovalInv /\ RowInv

LEMMA EditingInit_Inv == ASSUME EditingInit PROVE EditInv
<1> USE DEF EditingInit
<1>1. EditTypeOK
    <2>1. PICK t \in Texts \cup {NoText} : text = [p \in Places |-> t] OBVIOUS
    <2>2. text \in [Places -> Texts \cup {NoText}] /\ loaded = [e \in Editors |-> text] BY <2>1
    <2>3. loaded \in [Editors -> [Places -> Texts \cup {NoText}]] BY <2>2
    <2>4. row \in [exists : BOOLEAN, missing : BOOLEAN, stamp : Nat] /\ hash \in [onDisk : BOOLEAN, stamp : Nat] /\ hash.stamp <= stamp
        OBVIOUS
    <2>5. QED BY <2>2, <2>3, <2>4 DEF EditTypeOK
<1>2. MutexInv /\ SeenInv /\ RemovalInv BY DEF MutexInv, SeenInv, RemovalInv, SeenBy, AtStep, Underway
<1>3. RowInv BY DEF RowInv, FolderHash
<1>4. QED BY <1>1, <1>2, <1>3 DEF EditInv

\* Who is under way holds the mutex: no other edit is.
LEMMA OnlyOneUnderway ==
    ASSUME EditInv, NEW e \in Editors, Underway(e)
    PROVE  metadataMu = e /\ \A f \in Editors \ {e} : ~Underway(f)
BY DEF EditInv, MutexInv

\* The steps that have a file to replace or remove are past the lock.
LEMMA StepsAreUnderway ==
    ASSUME NEW e \in Editors, ~Underway(e)
    PROVE  /\ SeenBy(e)
           /\ \A kinds \in SUBSET STRING : ~AtStep(e, kinds, "mark") /\ ~AtStep(e, kinds, "purge")
<1>1. \A i \in DOMAIN Sidecars : Sidecars[i] # "waits"
    BY EditingAssumption DEF Extensions, EditStages
<1>2. QED BY <1>1 DEF Underway, SeenBy, AtStep

LEMMA EditorEnds ==
    ASSUME EditTypeOK, MutexInv, NEW e \in Editors, Ends(e)
    PROVE  /\ edit' \in [Editors -> EditWork \cup {NoEdit}] /\ metadataMu' \in Editors \cup {NoEdit}
           /\ MutexInv' /\ edit'[e] = NoEdit
           /\ \A f \in Editors \ {e} : edit'[f] = edit[f]
<1> USE DEF EditTypeOK, Ends
<1>1. MutexInv' BY EditingAssumption DEF MutexInv, Underway
<1>2. QED BY <1>1

LEMMA EditorProceeds ==
    ASSUME EditTypeOK, MutexInv, NEW e \in Editors, Underway(e), NEW step \in EditStages \cup Extensions, Proceeds(e, step)
    PROVE  /\ edit' \in [Editors -> EditWork \cup {NoEdit}] /\ metadataMu' = metadataMu
           /\ MutexInv'
           /\ edit'[e] = [edit[e] EXCEPT !.step = step]
           /\ \A f \in Editors \ {e} : edit'[f] = edit[f]
<1> USE DEF EditTypeOK, Proceeds
<1>1. edit[e] \in EditWork BY DEF Underway
<1>2. [edit[e] EXCEPT !.step = step] \in EditWork BY <1>1 DEF EditWork, EditStages
<1>3. edit' = [edit EXCEPT ![e] = [edit[e] EXCEPT !.step = step]] OBVIOUS
<1>4. MutexInv' BY <1>3 DEF MutexInv, Underway
<1>5. QED BY <1>2, <1>3, <1>4

Others(e) == \A f \in Editors \ {e} : edit'[f] = edit[f] /\ loaded'[f] = loaded[f]

LEMMA SeenStays ==
    ASSUME EditInv, NEW e \in Editors, Others(e), Underway(e) \/ text' = text,
           raced \subseteq raced' \cup {e}, e \in raced' \/ SeenBy(e)'
    PROVE  SeenInv'
<1> SUFFICES ASSUME NEW f \in Editors, f \notin raced' PROVE SeenBy(f)'
    BY DEF SeenInv
<1>1. CASE f = e BY <1>1
<1>2. ASSUME f # e, ~Underway(f) PROVE SeenBy(f)'
    <2>1. ~Underway(f)' BY <1>2 DEF Others, Underway
    <2>2. \A i \in DOMAIN Sidecars : Sidecars[i] # "waits"
        BY EditingAssumption DEF Extensions, EditStages
    <2>3. QED BY <2>1, <2>2 DEF Underway, SeenBy, AtStep
<1>3. ASSUME f # e, Underway(f) PROVE SeenBy(f)'
    <2>1. text' = text BY <1>3, OnlyOneUnderway
    <2>2. edit'[f] = edit[f] /\ loaded'[f] = loaded[f] BY <1>3 DEF Others
    <2>3. SeenBy(f) BY <1>3 DEF EditInv, SeenInv
    <2>4. QED BY <2>1, <2>2, <2>3 DEF SeenBy, AtStep, InTags, Unchanged
<1>4. QED BY <1>1, <1>2, <1>3

RemovalOf(e) ==
    ~undone => /\ AtStep(e, {"remove"}, "mark") => ~onDisk
               /\ AtStep(e, {"remove"}, "purge") => ~onDisk /\ row.missing = row.exists

LEMMA RemovalStays ==
    ASSUME EditInv, NEW e \in Editors, \A f \in Editors \ {e} : edit'[f] = edit[f],
           undone => undone', RemovalOf(e)',
           Underway(e) \/ (~undone' /\ ~onDisk => ~onDisk' /\ (row.missing = row.exists => row'.missing = row'.exists))
    PROVE  RemovalInv'
<1> SUFFICES ASSUME ~undone', NEW f \in Editors PROVE RemovalOf(f)'
    BY DEF RemovalInv, RemovalOf
<1>1. CASE f = e BY <1>1
<1>2. ASSUME f # e, ~Underway(f) PROVE RemovalOf(f)'
    BY <1>2 DEF Underway, RemovalOf, AtStep
<1>3. ASSUME f # e, Underway(f) PROVE RemovalOf(f)'
    <2>1. ~Underway(e) BY <1>3, OnlyOneUnderway
    <2>2. edit'[f] = edit[f] BY <1>3
    <2>3. RemovalOf(f) BY DEF EditInv, RemovalInv, RemovalOf
    <2>4. QED BY <2>1, <2>2, <2>3 DEF RemovalOf, AtStep
<1>4. QED BY <1>1, <1>2, <1>3

Quiet == UNCHANGED <<diskVars, row, hash, undone>>

\* An editor that is idle, waits, or goes to a step that is neither a write nor
\* part of a removal.
LEMMA QuietEdit ==
    ASSUME EditInv, NEW e \in Editors, Quiet, Others(e), loaded' \in [Editors -> [Places -> Texts \cup {NoText}]],
           edit' \in [Editors -> EditWork \cup {NoEdit}], metadataMu' \in Editors \cup {NoEdit},
           MutexInv', raced \subseteq raced' \cup {e}, e \in raced' \/ SeenBy(e)',
           edit'[e] = NoEdit \/ edit'[e].step \notin {"mark", "purge"}
    PROVE  EditInv'
<1> USE DEF Quiet, diskVars
<1>1. EditTypeOK' BY DEF EditInv, EditTypeOK
<1>2. SeenInv' BY SeenStays
<1>3. RemovalInv' BY RemovalStays DEF RemovalOf, AtStep, Others
<1>4. RowInv' BY DEF EditInv, RowInv, FolderHash
<1>5. QED BY <1>1, <1>2, <1>3, <1>4 DEF EditInv

LEMMA Ends_Quiet ==
    ASSUME EditInv, NEW e \in Editors, Quiet, Ends(e), UNCHANGED raced,
           \/ UNCHANGED loaded
           \/ loaded' = [loaded EXCEPT ![e] = text']
    PROVE  EditInv'
<1>1. /\ edit' \in [Editors -> EditWork \cup {NoEdit}] /\ metadataMu' \in Editors \cup {NoEdit}
      /\ MutexInv' /\ edit'[e] = NoEdit
      /\ \A f \in Editors \ {e} : edit'[f] = edit[f]
    BY EditorEnds DEF EditInv
<1>2. loaded' \in [Editors -> [Places -> Texts \cup {NoText}]] /\ \A f \in Editors \ {e} : loaded'[f] = loaded[f]
    BY DEF EditInv, EditTypeOK, Quiet, diskVars
<1>3. SeenBy(e)' BY <1>1 DEF SeenBy, AtStep
<1>4. Others(e) BY <1>1, <1>2 DEF Others
<1>5. QED BY <1>1, <1>2, <1>3, <1>4, QuietEdit

-----------------------------------------------------------------------------
LEMMA LoadMediaFileLyrics_Inv == ASSUME EditInv, NEW e \in Editors, LoadMediaFileLyrics(e) PROVE EditInv'
<1> USE DEF LoadMediaFileLyrics
<1>1. loaded' \in [Editors -> [Places -> Texts \cup {NoText}]] BY DEF EditInv, EditTypeOK
<1>2. Others(e) BY DEF EditInv, EditTypeOK, Others
<1>3. SeenBy(e)' BY DEF SeenBy, AtStep
<1>4. MutexInv' BY DEF EditInv, MutexInv, Underway
<1>5. QED BY <1>1, <1>2, <1>3, <1>4, QuietEdit DEF Quiet, EditInv, EditTypeOK

LEMMA AsksFor_Inv ==
    ASSUME EditInv, NEW e \in Editors, NEW kind \in {"tags", "image", "lyrics", "deleteLyrics", "remove"},
           NEW place \in Places, NEW new \in Texts \cup {NoText}, AsksFor(e, kind, place, new)
    PROVE  EditInv'
<1> DEFINE work == [step |-> "waits", kind |-> kind, place |-> place, new |-> new, copy |-> NoText]
<1>1. work \in EditWork BY DEF EditWork, EditStages
<1>2. edit' = [edit EXCEPT ![e] = work] /\ edit \in [Editors -> EditWork \cup {NoEdit}]
    BY DEF AsksFor, EditInv, EditTypeOK
<1>3. edit'[e] = work /\ work.step = "waits" BY <1>2
<1> HIDE DEF work
<1>4. edit' \in [Editors -> EditWork \cup {NoEdit}] BY <1>1, <1>2
<1>5. Others(e) BY <1>2 DEF Others, AsksFor
<1>6. ~Underway(e)' BY <1>3 DEF Underway
<1>7. MutexInv' BY <1>2, <1>6 DEF AsksFor, EditInv, MutexInv, Underway
<1>8. SeenBy(e)'
    <2>1. \A i \in DOMAIN Sidecars : Sidecars[i] # "waits" BY EditingAssumption DEF Extensions, EditStages
    <2>2. QED BY <1>3, <2>1 DEF SeenBy, AtStep
<1>9. QED BY <1>3, <1>4, <1>5, <1>7, <1>8, QuietEdit DEF AsksFor, Quiet, EditInv, EditTypeOK

LEMMA EditRequests_Inv == ASSUME EditInv, NEW e \in Editors, EditRequests(e) PROVE EditInv'
<1>1. "embedded" \in Places /\ Extensions \subseteq Places BY DEF Places
<1>2. QED BY <1>1, AsksFor_Inv DEF EditRequests, UpdateMediaFileMetadata, UpdateMediaFileArtwork,
             DeleteMediaFileLyrics, DeleteMediaFile, SaveEmbeddedMediaFileLyrics, SaveMediaFileLyrics

LEMMA Locks_Inv == ASSUME EditInv, NEW e \in Editors, Locks(e) PROVE EditInv'
<1>1. CASE Ends(e) BY <1>1, Ends_Quiet DEF Locks, Quiet
<1>2. ASSUME metadataMu' = e, edit' = [edit EXCEPT ![e].step = "locked"] PROVE EditInv'
    <2>1. edit[e] \in EditWork /\ edit \in [Editors -> EditWork \cup {NoEdit}] BY DEF Locks, EditInv, EditTypeOK
    <2> DEFINE work == [edit[e] EXCEPT !.step = "locked"]
    <2>2. work \in EditWork /\ work.step = "locked" BY <2>1 DEF EditWork, EditStages
    <2>3. edit' = [edit EXCEPT ![e] = work] BY <1>2
    <2> HIDE DEF work
    <2>4. edit'[e] = work /\ edit' \in [Editors -> EditWork \cup {NoEdit}] /\ \A f \in Editors \ {e} : edit'[f] = edit[f]
        BY <2>1, <2>2, <2>3
    <2>5. Others(e) BY <2>4 DEF Others, Locks
    <2>6. MutexInv'
        <3>1. \A f \in Editors : ~Underway(f)
            BY EditingAssumption DEF Locks, EditInv, MutexInv
        <3>2. QED BY <3>1, <2>4, <1>2 DEF MutexInv, Underway
    <2>7. SeenBy(e)'
        <3>1. \A i \in DOMAIN Sidecars : Sidecars[i] # "locked" BY EditingAssumption DEF Extensions, EditStages
        <3>2. QED BY <2>2, <2>4, <3>1 DEF SeenBy, AtStep
    <2>8. QED BY <1>2, <2>2, <2>4, <2>5, <2>6, <2>7, QuietEdit DEF Locks, Quiet, EditInv, EditTypeOK
<1>3. QED BY <1>1, <1>2 DEF Locks

\* A step of the one editor under way that changes neither a file nor the row.
LEMMA Proceeds_Quiet ==
    ASSUME EditInv, NEW e \in Editors, Underway(e), Quiet, UNCHANGED <<loaded, raced>>,
           NEW step \in {"staged", "refresh"} \cup Extensions, Proceeds(e, step),
           e \in raced \/ SeenBy(e)'
    PROVE  EditInv'
<1>1. step \in EditStages \cup Extensions /\ step \notin {"mark", "purge"} BY EditingAssumption DEF EditStages
<1>2. /\ edit' \in [Editors -> EditWork \cup {NoEdit}] /\ metadataMu' = metadataMu
      /\ MutexInv' /\ edit'[e] = [edit[e] EXCEPT !.step = step]
      /\ \A f \in Editors \ {e} : edit'[f] = edit[f]
    BY <1>1, EditorProceeds DEF EditInv
<1>3. edit[e] \in EditWork BY DEF EditInv, EditTypeOK, Underway
<1>4. edit'[e].step = step BY <1>2, <1>3 DEF EditWork
<1>5. Others(e) BY <1>2 DEF Others
<1>6. QED BY <1>1, <1>2, <1>4, <1>5, QuietEdit DEF EditInv, EditTypeOK

LEMMA AtStep_Underway ==
    ASSUME NEW e \in Editors, NEW kinds, NEW step, step # "waits", AtStep(e, kinds, step)
    PROVE  Underway(e)
BY DEF AtStep, Underway

LEMMA ExtensionsAreStages ==
    ASSUME NEW i \in DOMAIN Sidecars
    PROVE  Sidecars[i] \in Extensions /\ Sidecars[i] \in Places /\ Sidecars[i] \notin EditStages
BY EditingAssumption DEF Extensions, Places

LEMMA ChecksFile_Inv == ASSUME EditInv, NEW e \in Editors, ChecksFile(e) PROVE EditInv'
<1>1. CASE Ends(e) BY <1>1, Ends_Quiet DEF ChecksFile, Quiet, diskVars
<1>2. ASSUME edit' = [edit EXCEPT ![e].step = "staged", ![e].copy = text["embedded"]], UNCHANGED metadataMu,
             edit[e].kind = "lyrics" => Unchanged(e, {"embedded"})
      PROVE  EditInv'
    <2>1. Underway(e) BY AtStep_Underway DEF ChecksFile
    <2>2. edit[e] \in EditWork /\ edit \in [Editors -> EditWork \cup {NoEdit}] BY <2>1 DEF EditInv, EditTypeOK, Underway
    <2> DEFINE work == [edit[e] EXCEPT !.step = "staged", !.copy = text["embedded"]]
    <2>3. text["embedded"] \in Texts \cup {NoText} BY DEF EditInv, EditTypeOK, Places
    <2>4. work \in EditWork /\ work.step = "staged" /\ work.copy = text["embedded"] /\ work.kind = edit[e].kind /\ work.place = edit[e].place
        BY <2>2, <2>3 DEF EditWork, EditStages
    <2>5. edit' = [edit EXCEPT ![e] = work] BY <1>2
    <2> HIDE DEF work
    <2>6. edit'[e] = work /\ edit' \in [Editors -> EditWork \cup {NoEdit}] /\ \A f \in Editors \ {e} : edit'[f] = edit[f]
        BY <2>2, <2>4, <2>5
    <2>7. Others(e) BY <2>6 DEF Others, ChecksFile
    <2>8. MutexInv' BY <1>2, <2>1, <2>6 DEF EditInv, MutexInv, Underway
    <2>9. SeenBy(e)'
        <3>1. \A i \in DOMAIN Sidecars : Sidecars[i] # "staged" BY ExtensionsAreStages DEF EditStages
        <3>2. text' = text /\ loaded' = loaded BY DEF ChecksFile
        <3>3. InTags(e)' BY <2>4, <2>6 DEF ChecksFile, InTags
        <3>4. QED BY <1>2, <2>4, <2>6, <3>1, <3>2, <3>3 DEF SeenBy, AtStep, Unchanged
    <2>10. QED BY <1>2, <2>4, <2>6, <2>7, <2>8, <2>9, QuietEdit DEF ChecksFile, Quiet, diskVars, EditInv, EditTypeOK
<1>3. QED BY <1>1, <1>2 DEF ChecksFile

LEMMA ChecksSidecar_Inv == ASSUME EditInv, NEW e \in Editors, ChecksSidecar(e) PROVE EditInv'
<1>1. CASE Ends(e) BY <1>1, Ends_Quiet DEF ChecksSidecar, Quiet, diskVars
<1>2. ASSUME Proceeds(e, "staged"), Unchanged(e, {edit[e].place}) PROVE EditInv'
    <2>1. Underway(e) BY AtStep_Underway DEF ChecksSidecar
    <2>2. edit[e] \in EditWork /\ edit \in [Editors -> EditWork \cup {NoEdit}] BY <2>1 DEF EditInv, EditTypeOK, Underway
    <2>3. edit'[e] = [edit[e] EXCEPT !.step = "staged"] BY <1>2, <2>2 DEF Proceeds
    <2>4. edit'[e].step = "staged" /\ edit'[e].kind = "lyrics" /\ edit'[e].place = edit[e].place
        BY <2>2, <2>3 DEF EditWork, ChecksSidecar, AtStep
    <2>5. SeenBy(e)'
        <3>1. \A i \in DOMAIN Sidecars : Sidecars[i] # "staged" BY ExtensionsAreStages DEF EditStages
        <3>2. text' = text /\ loaded' = loaded /\ ~InTags(e) BY DEF ChecksSidecar
        <3>3. QED BY <1>2, <2>4, <3>1, <3>2 DEF SeenBy, AtStep, Unchanged, InTags
    <2>6. QED BY <1>2, <2>1, <2>5, Proceeds_Quiet DEF ChecksSidecar, Quiet, diskVars
<1>3. QED BY <1>1, <1>2 DEF ChecksSidecar

LEMMA PreflightsLyrics_Inv == ASSUME EditInv, NEW e \in Editors, PreflightsLyrics(e) PROVE EditInv'
<1>1. CASE Ends(e) BY <1>1, Ends_Quiet DEF PreflightsLyrics, Quiet
<1>2. ASSUME Proceeds(e, Sidecars[1]), Unchanged(e, Extensions) PROVE EditInv'
    <2>1. Underway(e) BY AtStep_Underway DEF PreflightsLyrics
    <2>2. edit[e] \in EditWork /\ edit \in [Editors -> EditWork \cup {NoEdit}] BY <2>1 DEF EditInv, EditTypeOK, Underway
    <2>3. edit'[e] = [edit[e] EXCEPT !.step = Sidecars[1]] BY <1>2, <2>2 DEF Proceeds
    <2>4. 1 \in DOMAIN Sidecars /\ Len(Sidecars) \in Nat /\ DOMAIN Sidecars = 1..Len(Sidecars) BY EditingAssumption
    <2>5. edit'[e].step = Sidecars[1] BY <2>2, <2>3 DEF EditWork
    <2>6. SeenBy(e)'
        <3>1. Sidecars[1] # "staged" BY <2>4, ExtensionsAreStages DEF EditStages
        <3>2. text' = text /\ loaded' = loaded BY DEF PreflightsLyrics, diskVars
        <3>3. ASSUME NEW i \in DOMAIN Sidecars, NEW j \in i..Len(Sidecars) PROVE text[Sidecars[j]] = loaded[e][Sidecars[j]]
            <4>1. j \in DOMAIN Sidecars BY <2>4
            <4>2. QED BY <4>1, <1>2 DEF Unchanged, Extensions
        <3>4. QED BY <2>5, <3>1, <3>2, <3>3 DEF SeenBy, AtStep
    <2>7. Sidecars[1] \in Extensions BY <2>4, ExtensionsAreStages
    <2>8. QED BY <1>2, <2>1, <2>6, <2>7, Proceeds_Quiet DEF PreflightsLyrics, Quiet
<1>3. QED BY <1>1, <1>2 DEF PreflightsLyrics

LEMMA RefreshRefused_Inv == ASSUME EditInv, NEW e \in Editors, RefreshRefused(e) PROVE EditInv'
BY Ends_Quiet DEF RefreshRefused, Quiet

LEMMA StepFails_Inv == ASSUME EditInv, NEW e \in Editors, StepFails(e) PROVE EditInv'
BY Ends_Quiet DEF StepFails, Quiet, diskVars


LEMMA ReplacesFile_Inv == ASSUME EditInv, NEW e \in Editors, ReplacesFile(e) PROVE EditInv'
<1>1. Underway(e) BY AtStep_Underway DEF ReplacesFile
<1>2. edit[e] \in EditWork BY <1>1 DEF EditInv, EditTypeOK, Underway
<1>3. "refresh" \in EditStages \cup Extensions BY DEF EditStages
<1>4. /\ edit' \in [Editors -> EditWork \cup {NoEdit}] /\ metadataMu' = metadataMu
      /\ MutexInv' /\ edit'[e] = [edit[e] EXCEPT !.step = "refresh"]
      /\ \A f \in Editors \ {e} : edit'[f] = edit[f]
    BY <1>1, <1>3, EditorProceeds DEF EditInv, ReplacesFile
<1>5. edit'[e].step = "refresh" BY <1>2, <1>4 DEF EditWork
<1>6. Others(e) BY <1>4 DEF Others, ReplacesFile
<1>7. edit[e].new \in Texts \cup {NoText} /\ edit[e].copy \in Texts \cup {NoText} BY <1>2 DEF EditWork
<1>8. text' \in [Places -> Texts \cup {NoText}] BY <1>7 DEF ReplacesFile, EditInv, EditTypeOK
<1>9. EditTypeOK' BY <1>4, <1>8 DEF EditInv, EditTypeOK, ReplacesFile
<1>10. SeenBy(e)'
    <2>1. \A i \in DOMAIN Sidecars : Sidecars[i] # "refresh" BY ExtensionsAreStages DEF EditStages
    <2>2. QED BY <1>5, <2>1 DEF SeenBy, AtStep
<1>11. SeenInv' BY <1>1, <1>6, <1>10, SeenStays DEF ReplacesFile
<1>12. RemovalInv' BY <1>1, <1>4, <1>5, RemovalStays DEF RemovalOf, AtStep, ReplacesFile
<1>13. RowInv'
    <2>1. hash'.stamp # stamp' BY DEF ReplacesFile, EditInv, EditTypeOK
    <2>2. QED BY <2>1 DEF RowInv, FolderHash
<1>14. QED BY <1>4, <1>9, <1>11, <1>12, <1>13 DEF EditInv

LEMMA ReplacesSidecar_Inv == ASSUME EditInv, NEW e \in Editors, ReplacesSidecar(e) PROVE EditInv'
<1>1. Underway(e) BY AtStep_Underway DEF ReplacesSidecar
<1>2. /\ edit' \in [Editors -> EditWork \cup {NoEdit}] /\ metadataMu' \in Editors \cup {NoEdit}
      /\ MutexInv' /\ edit'[e] = NoEdit
      /\ \A f \in Editors \ {e} : edit'[f] = edit[f]
    BY EditorEnds DEF EditInv, ReplacesSidecar
<1>3. edit[e].new \in Texts \cup {NoText} BY <1>1 DEF EditInv, EditTypeOK, Underway, EditWork
<1>4. text' \in [Places -> Texts \cup {NoText}] BY <1>3 DEF ReplacesSidecar, EditInv, EditTypeOK
<1>5. loaded' \in [Editors -> [Places -> Texts \cup {NoText}]] /\ \A f \in Editors \ {e} : loaded'[f] = loaded[f]
    BY <1>4 DEF ReplacesSidecar, EditInv, EditTypeOK
<1>6. EditTypeOK' BY <1>2, <1>4, <1>5 DEF EditInv, EditTypeOK, ReplacesSidecar
<1>7. SeenBy(e)' BY <1>2 DEF SeenBy, AtStep
<1>8. SeenInv' BY <1>1, <1>2, <1>5, <1>7, SeenStays DEF Others, ReplacesSidecar
<1>9. RemovalInv' BY <1>1, <1>2, RemovalStays DEF RemovalOf, AtStep, ReplacesSidecar
<1>10. RowInv' BY DEF EditInv, RowInv, FolderHash, ReplacesSidecar
<1>11. QED BY <1>2, <1>6, <1>8, <1>9, <1>10 DEF EditInv

\* Each removal goes on to the next of the lyrics files, which it saw.
LEMMA DeletesLyrics_Inv == ASSUME EditInv, NEW e \in Editors, DeletesLyrics(e) PROVE EditInv'
<1>1. PICK i \in DOMAIN Sidecars :
        /\ AtStep(e, {"deleteLyrics"}, Sidecars[i])
        /\ IF Unchanged(e, {Sidecars[i]})
           THEN /\ text' = [text EXCEPT ![Sidecars[i]] = NoText]
                /\ IF i < Len(Sidecars) THEN Proceeds(e, Sidecars[i + 1]) /\ UNCHANGED loaded
                   ELSE Ends(e) /\ loaded' = [loaded EXCEPT ![e] = text']
           ELSE Ends(e) /\ UNCHANGED <<text, loaded>>
        /\ UNCHANGED <<onDisk, stamp, row, hash, raced, undone, edits, foreign, editFaults>>
    BY Zenon DEF DeletesLyrics
<1>2. Sidecars[i] \in Places /\ Sidecars[i] \notin EditStages BY ExtensionsAreStages
<1>3. Underway(e) BY <1>1, <1>2, AtStep_Underway DEF EditStages
<1>4. ASSUME Ends(e), UNCHANGED <<text, loaded>> PROVE EditInv'
    BY <1>1, <1>4, Ends_Quiet DEF Quiet, diskVars
<1>5. ASSUME text' = [text EXCEPT ![Sidecars[i]] = NoText] PROVE text' \in [Places -> Texts \cup {NoText}]
    BY <1>5 DEF EditInv, EditTypeOK
<1>6. ASSUME text' = [text EXCEPT ![Sidecars[i]] = NoText], Ends(e), loaded' = [loaded EXCEPT ![e] = text'] PROVE EditInv'
    <2>1. /\ edit' \in [Editors -> EditWork \cup {NoEdit}] /\ metadataMu' \in Editors \cup {NoEdit}
          /\ MutexInv' /\ edit'[e] = NoEdit
          /\ \A f \in Editors \ {e} : edit'[f] = edit[f]
        BY <1>6, EditorEnds DEF EditInv
    <2>2. loaded' \in [Editors -> [Places -> Texts \cup {NoText}]] /\ \A f \in Editors \ {e} : loaded'[f] = loaded[f]
        BY <1>5, <1>6 DEF EditInv, EditTypeOK
    <2>3. EditTypeOK' BY <1>1, <1>5, <1>6, <2>1, <2>2 DEF EditInv, EditTypeOK
    <2>4. SeenBy(e)' BY <2>1 DEF SeenBy, AtStep
    <2>5. SeenInv' BY <1>1, <1>3, <2>1, <2>2, <2>4, SeenStays DEF Others
    <2>6. RemovalInv' BY <1>1, <1>3, <2>1, RemovalStays DEF RemovalOf, AtStep
    <2>7. RowInv' BY <1>1 DEF EditInv, RowInv, FolderHash
    <2>8. QED BY <2>1, <2>3, <2>5, <2>6, <2>7 DEF EditInv
<1>7. ASSUME i < Len(Sidecars), text' = [text EXCEPT ![Sidecars[i]] = NoText], Proceeds(e, Sidecars[i + 1]), UNCHANGED loaded
      PROVE  EditInv'
    <2>1. i \in Nat /\ i + 1 \in DOMAIN Sidecars /\ Len(Sidecars) \in Nat /\ DOMAIN Sidecars = 1..Len(Sidecars)
        BY <1>7, EditingAssumption
    <2>2. Sidecars[i + 1] \in Extensions /\ Sidecars[i + 1] \notin EditStages BY <2>1, ExtensionsAreStages
    <2>3. /\ edit' \in [Editors -> EditWork \cup {NoEdit}] /\ metadataMu' = metadataMu
          /\ MutexInv' /\ edit'[e] = [edit[e] EXCEPT !.step = Sidecars[i + 1]]
          /\ \A f \in Editors \ {e} : edit'[f] = edit[f]
        BY <1>3, <1>7, <2>2, EditorProceeds DEF EditInv
    <2>4. edit'[e].step = Sidecars[i + 1] BY <1>3, <2>3 DEF EditInv, EditTypeOK, Underway, EditWork
    <2>5. EditTypeOK' BY <1>1, <1>5, <1>7, <2>3 DEF EditInv, EditTypeOK
    <2>6. e \in raced' \/ SeenBy(e)'
        <3> SUFFICES ASSUME e \notin raced PROVE SeenBy(e)' BY <1>1
        <3>1. ASSUME NEW k \in DOMAIN Sidecars, Sidecars[k] = Sidecars[i + 1], NEW j \in k..Len(Sidecars)
              PROVE  text'[Sidecars[j]] = loaded[e][Sidecars[j]]
            <4>1. k = i + 1 BY <2>1, <3>1, EditingAssumption
            <4>2. j \in DOMAIN Sidecars /\ j \in i..Len(Sidecars) /\ j # i BY <2>1, <4>1
            <4>3. Sidecars[j] # Sidecars[i] BY <4>2, EditingAssumption
            <4>4. SeenBy(e) BY DEF EditInv, SeenInv
            <4>5. text[Sidecars[j]] = loaded[e][Sidecars[j]] BY <1>1, <4>2, <4>4 DEF SeenBy
            <4>6. Sidecars[j] \in Places BY <4>2, ExtensionsAreStages
            <4>7. text'[Sidecars[j]] = text[Sidecars[j]] BY <1>2, <1>7, <4>3, <4>6 DEF EditInv, EditTypeOK
            <4>8. QED BY <4>5, <4>7
        <3>2. Sidecars[i + 1] # "staged" BY <2>2 DEF EditStages
        <3>3. QED BY <1>7, <2>4, <3>1, <3>2 DEF SeenBy, AtStep
    <2>7. SeenInv' BY <1>1, <1>3, <1>7, <2>3, <2>6, SeenStays DEF Others
    <2>8. RemovalOf(e)' BY <2>2, <2>4 DEF RemovalOf, AtStep, EditStages
    <2>9. RemovalInv' BY <1>1, <1>3, <2>3, <2>8, RemovalStays
    <2>10. RowInv' BY <1>1 DEF EditInv, RowInv, FolderHash
    <2>11. QED BY <2>3, <2>5, <2>7, <2>9, <2>10 DEF EditInv
<1>8. QED BY <1>1, <1>4, <1>6, <1>7

\* A scan brings the row and the folder's hash to what is on disk.
LEMMA Scan_Row ==
    ASSUME EditInv, Scan, UNCHANGED <<diskVars, undone>>
    PROVE  /\ row' \in [exists : BOOLEAN, missing : BOOLEAN, stamp : Nat]
           /\ hash' \in [onDisk : BOOLEAN, stamp : Nat] /\ hash'.stamp <= stamp'
           /\ ~onDisk => (row.missing = row.exists => row'.missing = row'.exists)
           /\ RowInv'
<1> USE DEF Scan, diskVars, EditInv, EditTypeOK
<1>1. row' \in [exists : BOOLEAN, missing : BOOLEAN, stamp : Nat] OBVIOUS
<1>2. hash' \in [onDisk : BOOLEAN, stamp : Nat] /\ hash'.stamp <= stamp' BY DEF FolderHash
<1>3. ASSUME hash = FolderHash PROVE RowInv' /\ row' = row
    BY <1>3 DEF RowInv, FolderHash
<1>4. ASSUME hash # FolderHash, onDisk PROVE RowInv'
    <2>1. row' = [exists |-> TRUE, missing |-> FALSE, stamp |-> stamp] BY <1>4
    <2>2. QED BY <1>4, <2>1 DEF RowInv
<1>5. ASSUME hash # FolderHash, ~onDisk PROVE RowInv' /\ row'.missing = row'.exists
    <2>1. row' = [row EXCEPT !.missing = row.exists] BY <1>5
    <2>2. row'.exists = row.exists /\ row'.missing = row.exists BY <2>1
    <2>3. QED BY <1>5, <2>2 DEF RowInv
<1>6. QED BY <1>1, <1>2, <1>3, <1>4, <1>5

LEMMA Refreshes_Inv == ASSUME EditInv, NEW e \in Editors, Refreshes(e) PROVE EditInv'
<1>1. /\ edit' \in [Editors -> EditWork \cup {NoEdit}] /\ metadataMu' \in Editors \cup {NoEdit}
      /\ MutexInv' /\ edit'[e] = NoEdit
      /\ \A f \in Editors \ {e} : edit'[f] = edit[f]
    BY EditorEnds DEF EditInv, Refreshes
<1>2. Underway(e) BY AtStep_Underway DEF Refreshes
<1>3. loaded' \in [Editors -> [Places -> Texts \cup {NoText}]] /\ \A f \in Editors \ {e} : loaded'[f] = loaded[f]
    BY DEF Refreshes, EditInv, EditTypeOK
<1>4. /\ row' \in [exists : BOOLEAN, missing : BOOLEAN, stamp : Nat]
      /\ hash' \in [onDisk : BOOLEAN, stamp : Nat] /\ hash'.stamp <= stamp'
      /\ RowInv'
    BY Scan_Row DEF Refreshes
<1>5. EditTypeOK' BY <1>1, <1>3, <1>4 DEF EditInv, EditTypeOK, Refreshes, diskVars
<1>6. SeenBy(e)' BY <1>1 DEF SeenBy, AtStep
<1>7. SeenInv' BY <1>1, <1>2, <1>3, <1>6, SeenStays DEF Others, Refreshes
<1>8. RemovalInv' BY <1>1, <1>2, RemovalStays DEF RemovalOf, AtStep, Refreshes
<1>9. QED BY <1>1, <1>4, <1>5, <1>7, <1>8 DEF EditInv

LEMMA ScanAlone_Inv ==
    ASSUME EditInv, Scan, UNCHANGED <<diskVars, loaded, edit, metadataMu, raced, undone>>
    PROVE  EditInv'
<1>1. /\ row' \in [exists : BOOLEAN, missing : BOOLEAN, stamp : Nat]
      /\ hash' \in [onDisk : BOOLEAN, stamp : Nat] /\ hash'.stamp <= stamp'
      /\ ~onDisk => (row.missing = row.exists => row'.missing = row'.exists)
      /\ RowInv'
    BY Scan_Row
<1>2. EditTypeOK' BY <1>1 DEF EditInv, EditTypeOK, diskVars
<1>3. MutexInv' BY DEF EditInv, MutexInv, Underway
<1>4. SeenInv' BY DEF EditInv, SeenInv, SeenBy, AtStep, InTags, Unchanged, diskVars
<1>5. RemovalInv' BY <1>1 DEF EditInv, RemovalInv, AtStep, diskVars
<1>6. QED BY <1>1, <1>2, <1>3, <1>4, <1>5 DEF EditInv

\* The three steps of a removal.
LEMMA RemovesFile_Inv == ASSUME EditInv, NEW e \in Editors, RemovesFile(e) PROVE EditInv'
<1>1. Underway(e) BY AtStep_Underway DEF RemovesFile
<1>2. CASE Ends(e) /\ UNCHANGED <<onDisk, stamp, text>>
    BY <1>2, Ends_Quiet DEF RemovesFile, Quiet, diskVars
<1>3. ASSUME onDisk' = FALSE, stamp' = stamp + 1, text' = [text EXCEPT !["embedded"] = NoText], Proceeds(e, "mark")
      PROVE  EditInv'
    <2>1. "mark" \in EditStages \cup Extensions BY DEF EditStages
    <2>2. /\ edit' \in [Editors -> EditWork \cup {NoEdit}] /\ metadataMu' = metadataMu
          /\ MutexInv' /\ edit'[e] = [edit[e] EXCEPT !.step = "mark"]
          /\ \A f \in Editors \ {e} : edit'[f] = edit[f]
        BY <1>1, <1>3, <2>1, EditorProceeds DEF EditInv
    <2>3. edit'[e].step = "mark" BY <1>1, <2>2 DEF EditInv, EditTypeOK, Underway, EditWork
    <2>4. text' \in [Places -> Texts \cup {NoText}] BY <1>3 DEF EditInv, EditTypeOK
    <2>5. EditTypeOK'
        <3>1. stamp' \in Nat /\ hash' = hash /\ hash.stamp <= stamp' BY <1>3 DEF EditInv, EditTypeOK, RemovesFile
        <3>2. QED BY <1>3, <2>2, <2>4, <3>1 DEF EditInv, EditTypeOK, RemovesFile
    <2>6. SeenBy(e)'
        <3>1. \A i \in DOMAIN Sidecars : Sidecars[i] # "mark" BY ExtensionsAreStages DEF EditStages
        <3>2. QED BY <2>3, <3>1 DEF SeenBy, AtStep
    <2>7. SeenInv' BY <1>1, <2>2, <2>6, SeenStays DEF Others, RemovesFile
    <2>8. RemovalInv' BY <1>1, <1>3, <2>2, <2>3, RemovalStays DEF RemovalOf, AtStep, RemovesFile
    <2>9. RowInv'
        <3>1. hash'.stamp # stamp' BY <1>3 DEF RemovesFile, EditInv, EditTypeOK
        <3>2. QED BY <3>1 DEF RowInv, FolderHash
    <2>10. QED BY <2>2, <2>5, <2>7, <2>8, <2>9 DEF EditInv
<1>4. QED BY <1>2, <1>3 DEF RemovesFile

LEMMA MarksMissing_Inv == ASSUME EditInv, NEW e \in Editors, MarksMissing(e) PROVE EditInv'
<1>1. Underway(e) BY AtStep_Underway DEF MarksMissing
<1>2. "purge" \in EditStages \cup Extensions BY DEF EditStages
<1>3. /\ edit' \in [Editors -> EditWork \cup {NoEdit}] /\ metadataMu' = metadataMu
      /\ MutexInv' /\ edit'[e] = [edit[e] EXCEPT !.step = "purge"]
      /\ \A f \in Editors \ {e} : edit'[f] = edit[f]
    BY <1>1, <1>2, EditorProceeds DEF EditInv, MarksMissing
<1>4. edit'[e].step = "purge" BY <1>1, <1>3 DEF EditInv, EditTypeOK, Underway, EditWork
<1>5. row' \in [exists : BOOLEAN, missing : BOOLEAN, stamp : Nat] /\ row'.exists = row.exists /\ row'.missing = row.exists
    BY DEF EditInv, EditTypeOK, MarksMissing
<1>6. EditTypeOK' BY <1>3, <1>5 DEF EditInv, EditTypeOK, MarksMissing, diskVars
<1>7. SeenBy(e)'
    <2>1. \A i \in DOMAIN Sidecars : Sidecars[i] # "purge" BY ExtensionsAreStages DEF EditStages
    <2>2. QED BY <1>4, <2>1 DEF SeenBy, AtStep
<1>8. SeenInv' BY <1>1, <1>3, <1>7, SeenStays DEF Others, MarksMissing
<1>9. ~undone => ~onDisk BY DEF EditInv, RemovalInv, MarksMissing
<1>10. RemovalInv' BY <1>1, <1>3, <1>4, <1>5, <1>9, RemovalStays DEF RemovalOf, AtStep, MarksMissing, diskVars
<1>11. RowInv' BY <1>5, <1>9 DEF RowInv, MarksMissing, diskVars
<1>12. QED BY <1>3, <1>6, <1>8, <1>10, <1>11 DEF EditInv

LEMMA DeletesMissing_Inv == ASSUME EditInv, NEW e \in Editors, DeletesMissing(e) PROVE EditInv'
<1>1. Underway(e) BY AtStep_Underway DEF DeletesMissing
<1>2. /\ edit' \in [Editors -> EditWork \cup {NoEdit}] /\ metadataMu' \in Editors \cup {NoEdit}
      /\ MutexInv' /\ edit'[e] = NoEdit
      /\ \A f \in Editors \ {e} : edit'[f] = edit[f]
    BY EditorEnds DEF EditInv, DeletesMissing
<1>3. row.exists \in BOOLEAN /\ row.missing \in BOOLEAN /\ row.stamp \in Nat BY DEF EditInv, EditTypeOK
<1>4. row' \in [exists : BOOLEAN, missing : BOOLEAN, stamp : Nat] BY <1>3 DEF EditInv, EditTypeOK, DeletesMissing
<1>5. row'.exists = (row.exists /\ ~row.missing) BY DEF EditInv, EditTypeOK, DeletesMissing
<1>6. EditTypeOK' BY <1>2, <1>4 DEF EditInv, EditTypeOK, DeletesMissing, diskVars
<1>7. SeenBy(e)' BY <1>2 DEF SeenBy, AtStep
<1>8. SeenInv' BY <1>1, <1>2, <1>7, SeenStays DEF Others, DeletesMissing
<1>9. RemovalInv' BY <1>1, <1>2, RemovalStays DEF RemovalOf, AtStep, DeletesMissing
<1>10. ~undone => ~onDisk /\ row.missing = row.exists BY DEF EditInv, RemovalInv, DeletesMissing
<1>11. ~undone => ~row'.exists BY <1>5, <1>10
<1>12. RowInv' BY <1>10, <1>11 DEF RowInv, DeletesMissing, diskVars
<1>13. QED BY <1>2, <1>6, <1>8, <1>9, <1>12 DEF EditInv

LEMMA EditorsDie_Inv == ASSUME EditInv, EditorsDie PROVE EditInv'
<1>1. edit' \in [Editors -> EditWork \cup {NoEdit}] /\ metadataMu' = NoEdit /\ \A e \in Editors : edit'[e] = NoEdit
    BY DEF EditorsDie
<1>2. EditTypeOK' BY <1>1 DEF EditInv, EditTypeOK, EditorsDie, diskVars
<1>3. MutexInv' BY <1>1 DEF MutexInv, Underway
<1>4. SeenInv' /\ RemovalInv' BY <1>1 DEF SeenInv, SeenBy, RemovalInv, AtStep
<1>5. RowInv' BY DEF EditInv, RowInv, FolderHash, EditorsDie, diskVars
<1>6. QED BY <1>2, <1>3, <1>4, <1>5 DEF EditInv

\* Another program's write puts every edit under way among the raced ones, and
\* undoes the removal that it crosses.
LEMMA ForeignWrite_Inv ==
    ASSUME EditInv, NEW p \in Places, NEW t \in Texts \cup {NoText}, ForeignWrite(p, t) PROVE EditInv'
<1> USE DEF ForeignWrite
<1>1. text' \in [Places -> Texts \cup {NoText}] BY DEF EditInv, EditTypeOK
<1>2. EditTypeOK'
    <2>1. undone' \in BOOLEAN BY Zenon
    <2>2. onDisk \in BOOLEAN /\ stamp \in Nat /\ hash.stamp \in Nat /\ hash.stamp <= stamp /\ hash' = hash BY DEF EditInv, EditTypeOK
    <2> DEFINE own == p = "embedded"
    <2>4. CASE own
        <3>1. onDisk' = TRUE /\ stamp' = stamp + 1 BY <2>4
        <3>2. onDisk' \in BOOLEAN /\ stamp' \in Nat /\ hash.stamp <= stamp' BY <2>2, <3>1
        <3>3. QED BY <1>1, <2>1, <2>2, <3>2 DEF EditInv, EditTypeOK
    <2>5. CASE ~own
        <3>1. onDisk' = onDisk /\ stamp' = stamp BY <2>5
        <3>3. QED BY <1>1, <2>1, <2>2, <3>1 DEF EditInv, EditTypeOK
    <2>6. QED BY <2>4, <2>5
<1>3. MutexInv' BY DEF EditInv, MutexInv, Underway
<1>4. SeenInv'
    <2>1. \A e \in Editors : e \notin raced' => edit'[e] = NoEdit OBVIOUS
    <2>2. QED BY <2>1 DEF SeenInv, SeenBy, AtStep
<1>5. ~undone' => ~undone /\ (p = "embedded" /\ ~onDisk => metadataMu = NoEdit) BY Zenon
<1>6. RemovalInv'
    <2> SUFFICES ASSUME ~undone', NEW e \in Editors,
                        AtStep(e, {"remove"}, "mark") \/ AtStep(e, {"remove"}, "purge")
                 PROVE  ~onDisk' /\ (AtStep(e, {"remove"}, "purge") => row.missing = row.exists)
        BY DEF RemovalInv, AtStep
    <2>1. ~onDisk /\ (AtStep(e, {"remove"}, "purge") => row.missing = row.exists)
        BY <1>5 DEF EditInv, RemovalInv
    <2>2. metadataMu = e BY AtStep_Underway DEF EditInv, MutexInv
    <2>3. p # "embedded" BY <1>5, <2>1, <2>2, EditingAssumption
    <2>4. QED BY <2>1, <2>3
<1>7. RowInv'
    <2>1. ASSUME p = "embedded" PROVE hash'.stamp # stamp' BY <2>1 DEF EditInv, EditTypeOK
    <2>2. ASSUME p # "embedded" PROVE RowInv' BY <1>5, <2>2 DEF EditInv, RowInv, FolderHash
    <2>3. QED BY <2>1, <2>2 DEF RowInv, FolderHash
<1>8. QED BY <1>2, <1>3, <1>4, <1>6, <1>7 DEF EditInv

LEMMA EditingNext_Inv == EditInv /\ [EditingNext]_editVars => EditInv'
<1> SUFFICES ASSUME EditInv, [EditingNext]_editVars PROVE EditInv'
    OBVIOUS
<1>1. ASSUME NEW e \in Editors, EditSteps(e) PROVE EditInv'
    BY <1>1, Locks_Inv, ChecksFile_Inv, ReplacesFile_Inv, ChecksSidecar_Inv, ReplacesSidecar_Inv,
       PreflightsLyrics_Inv, DeletesLyrics_Inv, Refreshes_Inv, RefreshRefused_Inv,
       RemovesFile_Inv, MarksMissing_Inv, DeletesMissing_Inv DEF EditSteps
<1>2. ASSUME NEW e \in Editors, RefreshMediaFileMetadata(e) PROVE EditInv'
    BY <1>2, ScanAlone_Inv DEF RefreshMediaFileMetadata
<1>3. CASE ScanRuns BY <1>3, ScanAlone_Inv DEF ScanRuns
<1>4. CASE UNCHANGED editVars
    <2>1. UNCHANGED <<onDisk, stamp, text, row, hash, loaded, edit, metadataMu, raced, undone>> BY <1>4 DEF editVars
    <2>2. EditTypeOK' /\ MutexInv' BY <2>1 DEF EditInv, EditTypeOK, MutexInv, Underway
    <2>3. SeenInv' BY <2>1 DEF EditInv, SeenInv, SeenBy, AtStep, InTags, Unchanged
    <2>4. RemovalInv' /\ RowInv' BY <2>1 DEF EditInv, RemovalInv, AtStep, RowInv, FolderHash
    <2>5. QED BY <2>2, <2>3, <2>4 DEF EditInv
<1>5. QED BY <1>1, <1>2, <1>3, <1>4, LoadMediaFileLyrics_Inv, StepFails_Inv, EditRequests_Inv, EditorsDie_Inv,
             ForeignWrite_Inv DEF EditingNext

\* The one editor whose step changes lyrics has seen them.
LEMMA EditsSeen ==
    ASSUME EditInv, EditingNext, NEW e \in Editors, NEW p \in Places,
           edit[e] # NoEdit, edit'[e] # edit[e], text'[p] # text[p], edit[e].kind # "remove"
    PROVE  e \in raced \/ text[p] = loaded[e][p]
<1>1. ASSUME NEW f \in Editors, ReplacesFile(f) PROVE e \in raced \/ text[p] = loaded[e][p]
    <2>1. f = e BY <1>1 DEF ReplacesFile, Proceeds, EditInv, EditTypeOK
    <2>2. p = "embedded" BY <1>1 DEF ReplacesFile, EditInv, EditTypeOK
    <2>3. e \in raced \/ SeenBy(e) BY DEF EditInv, SeenInv
    <2>4. text'[p] = IF edit[e].kind = "lyrics" THEN edit[e].new ELSE edit[e].copy
        BY <1>1, <2>1, <2>2 DEF ReplacesFile, EditInv, EditTypeOK
    <2>5. QED BY <1>1, <2>1, <2>2, <2>3, <2>4 DEF ReplacesFile, SeenBy, Unchanged
<1>2. ASSUME NEW f \in Editors, ReplacesSidecar(f) PROVE e \in raced \/ text[p] = loaded[e][p]
    <2>1. f = e BY <1>2 DEF ReplacesSidecar, Ends, EditInv, EditTypeOK
    <2>2. p = edit[e].place BY <1>2, <2>1 DEF ReplacesSidecar, EditInv, EditTypeOK
    <2>3. e \in raced \/ SeenBy(e) BY DEF EditInv, SeenInv
    <2>4. QED BY <1>2, <2>1, <2>2, <2>3 DEF ReplacesSidecar, SeenBy, Unchanged
<1>3. ASSUME NEW f \in Editors, DeletesLyrics(f) PROVE e \in raced \/ text[p] = loaded[e][p]
    <2>1. PICK i \in DOMAIN Sidecars : Unchanged(f, {Sidecars[i]}) /\ text' = [text EXCEPT ![Sidecars[i]] = NoText]
        BY <1>3 DEF DeletesLyrics
    <2>2. f = e BY <1>3 DEF DeletesLyrics, Proceeds, Ends, EditInv, EditTypeOK
    <2>3. p = Sidecars[i] BY <2>1 DEF EditInv, EditTypeOK
    <2>4. QED BY <2>1, <2>2, <2>3 DEF Unchanged
<1>4. ASSUME NEW f \in Editors, RemovesFile(f) PROVE FALSE
    <2>1. f = e BY <1>4 DEF RemovesFile, Proceeds, Ends, EditInv, EditTypeOK
    <2>2. QED BY <1>4, <2>1 DEF RemovesFile, AtStep
<1>5. QED
    BY <1>1, <1>2, <1>3, <1>4
    DEF EditingNext, EditSteps, LoadMediaFileLyrics, Locks, ChecksFile, ChecksSidecar, PreflightsLyrics, Refreshes,
        RefreshRefused, MarksMissing, DeletesMissing, StepFails, EditRequests, UpdateMediaFileMetadata,
        UpdateMediaFileArtwork, DeleteMediaFileLyrics, DeleteMediaFile, SaveEmbeddedMediaFileLyrics,
        SaveMediaFileLyrics, AsksFor, RefreshMediaFileMetadata, EditorsDie, ScanRuns, ForeignWrite, diskVars

LEMMA EditInv_Safe == EditInv => AllOrNoLyricsRemoved /\ RowFollowsFile
<1> SUFFICES ASSUME EditInv PROVE AllOrNoLyricsRemoved /\ RowFollowsFile
    OBVIOUS
<1>1. AllOrNoLyricsRemoved BY DEF AllOrNoLyricsRemoved, EditInv, SeenInv, SeenBy
<1>2. RowFollowsFile BY DEF RowFollowsFile, EditInv, RowInv
<1>3. QED BY <1>1, <1>2

\* For any editors, lyrics, files beside the song, failures and crashes, edits
\* and removals that cross each other (the mutex, the expected versions and the
\* preflight of core/maintenance.go) are safe.
THEOREM EditsKeepFiles == EditingSpec => EditsAreSafe
<1>1. EditingInit => EditInv BY EditingInit_Inv
<1>2. EditInv /\ [EditingNext]_editVars =>
        [\A e \in Editors, p \in Places :
           edit[e] # NoEdit /\ edit'[e] # edit[e] /\ text'[p] # text[p] /\ edit[e].kind # "remove"
             => e \in raced \/ text[p] = loaded[e][p]]_editVars
    BY EditsSeen
<1>3. QED BY <1>1, <1>2, EditingNext_Inv, EditInv_Safe, PTL DEF EditingSpec, EditsAreSafe, UnseenLyricsSurvive

-------------------------------------------------------------------------------
(* Scrobble buffer, for every set of rows and users and every bound on failures *)
(* and restarts.                                                               *)

\* The shift of backoffDelay never leaves the interval from one to the ceiling.
LEMMA BackoffInRange ==
    ASSUME NEW n \in 0..maxRetryShift
    PROVE  backoffDelay(n) \in 1..maxRetryDelay
<1>1. CASE n = 6
  BY <1>1 DEF backoffDelay, maxRetryShift, maxRetryDelay
<1>2. CASE n \in 0..5
  <2>1. /\ 2^0 = 1 /\ 2^1 = 2 /\ 2^2 = 4
        /\ 2^3 = 8 /\ 2^4 = 16 /\ 2^5 = 32
    OBVIOUS
  <2>2. n = 0 \/ n = 1 \/ n = 2 \/ n = 3 \/ n = 4 \/ n = 5
    BY <1>2
  <2> DEFINE d == minRetryDelay * 2^n
  <2>3. d \in 1..160
    <3>1. CASE n = 0
      BY <3>1, <2>1 DEF minRetryDelay
    <3>2. CASE n = 1
      BY <3>2, <2>1 DEF minRetryDelay
    <3>3. CASE n = 2
      BY <3>3, <2>1 DEF minRetryDelay
    <3>4. CASE n = 3
      BY <3>4, <2>1 DEF minRetryDelay
    <3>5. CASE n = 4
      BY <3>5, <2>1 DEF minRetryDelay
    <3>6. CASE n = 5
      BY <3>6, <2>1 DEF minRetryDelay
    <3> QED
      BY <2>2, <3>1, <3>2, <3>3, <3>4, <3>5, <3>6
  <2>4. backoffDelay(n) = d
    BY <1>2, <2>3 DEF backoffDelay, maxRetryShift, maxRetryDelay
  <2> QED
    BY <2>3, <2>4 DEF maxRetryDelay
<1> QED
  BY <1>1, <1>2 DEF maxRetryShift

-------------------------------------------------------------------------------
\* The type invariant holds at the start.
LEMMA TypeInit == Init => TypeOK
<1> SUFFICES ASSUME Init PROVE TypeOK
  OBVIOUS
<1>1. faults \in 0..MaxFaults /\ crashes \in 0..MaxCrashes
  BY ScrobbleAssumption DEF Init
<1>2. timer \in 0..maxRetryDelay /\ failures \in 0..maxRetryShift
  BY DEF Init, maxRetryDelay, maxRetryShift
<1>3. wakeSignal \in BOOLEAN /\ result \in BOOLEAN /\ cancelled \in BOOLEAN
  BY DEF Init
<1> QED
  BY <1>1, <1>2, <1>3 DEF Init, TypeOK

\* Every step keeps the type invariant.
LEMMA TypeStep == TypeOK /\ [Next]_vars => TypeOK'
<1> SUFFICES ASSUME TypeOK, [Next]_vars PROVE TypeOK'
  OBVIOUS
<1> USE ScrobbleAssumption
<1>1. ASSUME NEW r \in Rows, Enqueue(r) PROVE TypeOK'
  <2>1. Cardinality(accepted) \in Nat
    BY FS_CardinalityType, FS_Subset DEF TypeOK
  <2> QED
    BY <1>1, <2>1 DEF Enqueue, TypeOK, env
<1>2. ASSUME NEW r \in Rows, EnqueueFails(r) PROVE TypeOK'
  BY <1>2 DEF EnqueueFails, Fault, TypeOK, memory, ghost
<1>3. ASSUME NEW r \in Rows, sendWakeSignal(r) PROVE TypeOK'
  BY <1>3 DEF sendWakeSignal, TypeOK, table, ghost, env
<1>4. ASSUME NEW x \in Deletable, CascadeDelete(x) PROVE TypeOK'
  BY <1>4 DEF CascadeDelete, TypeOK, memory, ghost, env
<1>5. CASE UserIDs
  BY <1>5 DEF UserIDs, Buffer, TypeOK, table, ghost, env
<1>6. CASE UserIDsFails
  <2>1. todo' \subseteq Users /\ result' \in BOOLEAN
    BY <1>6 DEF UserIDsFails
  <2> QED
    BY <1>6, <2>1 DEF UserIDsFails, Fault, TypeOK, table, ghost
<1>7. CASE NextUser
  BY <1>7 DEF NextUser, TypeOK, table, ghost, env
<1>8. CASE NextEntry
  BY <1>8 DEF NextEntry, LeaveUser, RowsOf, Buffer, TypeOK, table, env
<1>9. CASE NextFails
  BY <1>9 DEF NextFails, LeaveUser, Fault, TypeOK, table
<1>10. CASE ScrobbleAnswered
  BY <1>10 DEF ScrobbleAnswered, TypeOK, table, env
<1>11. CASE ScrobbleRetryLater
  BY <1>11 DEF ScrobbleRetryLater, LeaveUser, Fault, TypeOK, table
<1>12. CASE Dequeue
  BY <1>12 DEF Dequeue, TypeOK, env
<1>13. CASE DequeueFails
  BY <1>13 DEF DequeueFails, LeaveUser, Fault, TypeOK, table
<1>14. CASE Decide
  <2>1. backoffDelay(failures) \in 1..maxRetryDelay
    BY BackoffInRange DEF TypeOK
  <2> QED
    BY <1>14, <2>1 DEF Decide, TypeOK, table, ghost, env, maxRetryDelay, maxRetryShift
<1>15. CASE Woken
  BY <1>15 DEF Woken, TypeOK, table, ghost, env
<1>16. CASE TimerFires
  BY <1>16 DEF TimerFires, TypeOK, table, ghost, env, maxRetryDelay
<1>17. CASE Stopped
  BY <1>17 DEF Stopped, TypeOK, table, ghost, env, maxRetryDelay
<1>18. CASE Stop
  BY <1>18 DEF Stop, TypeOK, table, ghost, env
<1>19. CASE newBufferedScrobbler
  <2>1. timer' \in 0..maxRetryDelay /\ failures' \in 0..maxRetryShift
    BY <1>19 DEF newBufferedScrobbler, maxRetryDelay, maxRetryShift
  <2>2. wakeSignal' \in BOOLEAN /\ result' \in BOOLEAN /\ cancelled' \in BOOLEAN
    BY <1>19 DEF newBufferedScrobbler
  <2>3. lapses' \in [Rows -> Nat]
    BY <1>19 DEF newBufferedScrobbler, TypeOK
  <2> QED
    BY <1>19, <2>1, <2>2, <2>3 DEF newBufferedScrobbler, TypeOK, table
<1>20. CASE UNCHANGED vars
  BY <1>20 DEF TypeOK, vars, table, memory, ghost, env
<1> QED
  BY <1>1, <1>2, <1>3, <1>4, <1>5, <1>6, <1>7, <1>8, <1>9, <1>10, <1>11, <1>12,
     <1>13, <1>14, <1>15, <1>16, <1>17, <1>18, <1>19, <1>20 DEF Next, run

\* Every variable stays in its range, in particular the failure count below the
\* shift's cap and the armed delay below the ceiling, however long it runs.
THEOREM TypeCorrect == Spec => []TypeOK
  BY TypeInit, TypeStep, PTL DEF Spec

-------------------------------------------------------------------------------
\* A server that starts has rows only with a wakeup ahead.
LEMMA CoveredInit == Init => Covered
  BY DEF Init, Covered

\* The one-step core of the argument: a row covered before a step is covered
\* after it, whichever goroutine takes the step.
LEMMA CoveredStep == TypeOK /\ Covered /\ [Next]_vars => Covered'
<1> SUFFICES ASSUME TypeOK, Covered, [Next]_vars PROVE Covered'
  OBVIOUS
<1> USE ScrobbleAssumption
<1>1. ASSUME NEW r \in Rows, Enqueue(r) PROVE Covered'
  BY <1>1 DEF Enqueue, Covered
<1>2. ASSUME NEW r \in Rows, EnqueueFails(r) PROVE Covered'
  BY <1>2 DEF EnqueueFails, Covered, Buffer, memory, ghost
<1>3. ASSUME NEW r \in Rows, sendWakeSignal(r) PROVE Covered'
  BY <1>3 DEF sendWakeSignal, Covered
<1>4. ASSUME NEW x \in Deletable, CascadeDelete(x) PROVE Covered'
  <2>1. Buffer' \subseteq Buffer
    BY <1>4 DEF CascadeDelete, Buffer
  <2> QED
    BY <1>4, <2>1 DEF CascadeDelete, Covered, memory
<1>5. CASE UserIDs
  BY <1>5 DEF UserIDs, Covered, Buffer, table
<1>6. CASE UserIDsFails
  BY <1>6 DEF UserIDsFails, Covered
<1>7. CASE NextUser
  BY <1>7 DEF NextUser, Covered, Buffer, table
<1>8. CASE NextEntry
  BY <1>8 DEF NextEntry, LeaveUser, RowsOf, Covered, Buffer, TypeOK, table
<1>9. CASE NextFails
  BY <1>9 DEF NextFails, LeaveUser, Covered
<1>10. CASE ScrobbleAnswered
  BY <1>10 DEF ScrobbleAnswered, Covered, Buffer, table
<1>11. CASE ScrobbleRetryLater
  BY <1>11 DEF ScrobbleRetryLater, LeaveUser, Covered
<1>12. CASE Dequeue
  <2>1. Buffer' \subseteq Buffer
    BY <1>12 DEF Dequeue, Buffer, TypeOK
  <2> QED
    BY <1>12, <2>1 DEF Dequeue, Covered
<1>13. CASE DequeueFails
  BY <1>13 DEF DequeueFails, LeaveUser, Covered
<1>14. CASE Decide
  <2>1. backoffDelay(failures) # 0
    <3>1. backoffDelay(failures) \in 1..maxRetryDelay
      BY BackoffInRange DEF TypeOK
    <3> QED
      BY <3>1 DEF maxRetryDelay
  <2> QED
    BY <1>14, <2>1 DEF Decide, Covered, Buffer, table
<1>15. CASE Woken
  BY <1>15 DEF Woken, Covered
<1>16. CASE TimerFires
  BY <1>16 DEF TimerFires, Covered
<1>17. CASE Stopped
  BY <1>17 DEF Stopped, Covered
<1>18. CASE Stop
  BY <1>18 DEF Stop, Covered, Buffer, table
<1>19. CASE newBufferedScrobbler
  BY <1>19 DEF newBufferedScrobbler, Covered
<1>20. CASE UNCHANGED vars
  BY <1>20 DEF Covered, Buffer, vars, table, memory
<1> QED
  BY <1>1, <1>2, <1>3, <1>4, <1>5, <1>6, <1>7, <1>8, <1>9, <1>10, <1>11, <1>12,
     <1>13, <1>14, <1>15, <1>16, <1>17, <1>18, <1>19, <1>20 DEF Next, run

\* Each stored scrobble is covered by a wake-up, a failure or a visit to come.
THEOREM AlwaysCovered == Spec => []Covered
  BY TypeInit, TypeStep, CoveredInit, CoveredStep, PTL DEF Spec

\* The drain goroutine never sleeps on a non-empty table without a token in the
\* channel, an armed timer or a caller about to signal.
THEOREM WakeupNeverLost == Spec => []NoLostWakeup
<1>1. Covered => NoLostWakeup
  BY DEF Covered, NoLostWakeup
<1> QED
  BY <1>1, AlwaysCovered, PTL

-------------------------------------------------------------------------------
(* What happens to an accepted scrobble.  NeverDropped, the count of       *)
(* duplicates and the order are not inductive: a row is only known to have *)
(* been answered, or not yet, from where the goroutine stands.             *)

\* The goroutine holds a row exactly between Next and Dequeue, one of the user
\* it drains, and what was never accepted is neither stored, held nor sent.
Held ==
    /\ pc \in {"send", "dequeue"} => entry \in accepted /\ UserOf[entry] = user
    /\ pc \notin {"send", "dequeue"} => entry = None /\ late = {}
    /\ \A r \in Rows \ accepted : rowid[r] = 0 /\ answered[r] = 0

\* The service has answered the row that is about to be dequeued.
AnsweredFirst == pc = "dequeue" => answered[entry] > 0

\* A row that can still be sent has been answered once for each lapse so far;
\* one that is being dequeued, or has left the table, once more at most.
OneAnswerPerLapse ==
    \A r \in Rows :
        /\ answered[r] <= lapses[r] + 1
        /\ r \in Buffer /\ ~(pc = "dequeue" /\ entry = r) => answered[r] <= lapses[r]
        /\ pc = "send" /\ entry = r => answered[r] <= lapses[r]

KeptInv == Held /\ AnsweredFirst /\ NeverDropped /\ OneAnswerPerLapse /\ OldestFirst

\* Nothing is accepted, held or answered at the start.
LEMMA KeptInit == Init => KeptInv
  BY ScrobbleAssumption
  DEF Init, KeptInv, Held, AnsweredFirst, NeverDropped, OneAnswerPerLapse, OldestFirst, Buffer

\* A step of any goroutine keeps what is known about accepted scrobbles.
LEMMA KeptStep == TypeOK /\ TypeOK' /\ KeptInv /\ [Next]_vars => KeptInv'
<1> SUFFICES ASSUME TypeOK, TypeOK', KeptInv, [Next]_vars PROVE KeptInv'
  OBVIOUS
<1> USE ScrobbleAssumption
<1> USE DEF KeptInv, Held, AnsweredFirst, NeverDropped, OneAnswerPerLapse, OldestFirst, Buffer, RowsOf
<1>1. ASSUME NEW r \in Rows, Enqueue(r) PROVE KeptInv'
  <2>1. Cardinality(accepted) \in Nat
    BY FS_CardinalityType, FS_Subset DEF TypeOK
  <2>2. r \notin accepted /\ answered[r] = 0
    BY <1>1 DEF Enqueue, TypeOK
  <2> QED
    BY <1>1, <2>1, <2>2 DEF Enqueue, TypeOK, env
<1>2. ASSUME NEW r \in Rows, EnqueueFails(r) PROVE KeptInv'
  BY <1>2 DEF EnqueueFails, TypeOK, memory, ghost
<1>3. ASSUME NEW r \in Rows, sendWakeSignal(r) PROVE KeptInv'
  BY <1>3 DEF sendWakeSignal, TypeOK, table, ghost, env
<1>4. ASSUME NEW x \in Deletable, CascadeDelete(x) PROVE KeptInv'
  BY <1>4 DEF CascadeDelete, TypeOK, memory, ghost, env
<1>5. CASE UserIDs
  BY <1>5 DEF UserIDs, TypeOK, table, ghost, env
<1>6. CASE UserIDsFails
  BY <1>6 DEF UserIDsFails, TypeOK, table, ghost
<1>7. CASE NextUser
  BY <1>7 DEF NextUser, TypeOK, table, ghost, env
<1>8. CASE NextEntry
  BY <1>8 DEF NextEntry, LeaveUser, Older, TypeOK, table, env
<1>9. CASE NextFails
  BY <1>9 DEF NextFails, LeaveUser, TypeOK, table
<1>10. CASE ScrobbleAnswered
  BY <1>10 DEF ScrobbleAnswered, TypeOK, table, env
<1>11. CASE ScrobbleRetryLater
  BY <1>11 DEF ScrobbleRetryLater, LeaveUser, TypeOK, table
<1>12. CASE Dequeue
  BY <1>12 DEF Dequeue, TypeOK, env
<1>13. CASE DequeueFails
  BY <1>13 DEF DequeueFails, LeaveUser, TypeOK, table
<1>14. CASE Decide
  BY <1>14 DEF Decide, TypeOK, table, ghost, env
<1>15. CASE Woken
  BY <1>15 DEF Woken, TypeOK, table, ghost, env
<1>16. CASE TimerFires
  BY <1>16 DEF TimerFires, TypeOK, table, ghost, env
<1>17. CASE Stopped
  BY <1>17 DEF Stopped, TypeOK, table, ghost, env
<1>18. CASE Stop
  BY <1>18 DEF Stop, TypeOK, table, ghost, env
<1>19. CASE newBufferedScrobbler
  BY <1>19 DEF newBufferedScrobbler, TypeOK, table
<1>20. CASE UNCHANGED vars
  BY <1>20 DEF vars, table, memory, ghost, env
<1> QED
  BY <1>1, <1>2, <1>3, <1>4, <1>5, <1>6, <1>7, <1>8, <1>9, <1>10, <1>11, <1>12,
     <1>13, <1>14, <1>15, <1>16, <1>17, <1>18, <1>19, <1>20 DEF Next, run

\* An accepted scrobble is delivered or kept through crashes and failing
\* statements, reaches the service once more only for each lapse between an
\* answer and its dequeue, and a user's plays go out oldest first.
THEOREM AcceptedIsKept == Spec => []ScrobblesAreKept
<1>1. TypeOK /\ KeptInv => ScrobblesAreKept
  BY DEF KeptInv, OneAnswerPerLapse, ScrobblesAreKept, DuplicatesOnlyAfterLapse
<1> QED
  BY <1>1, TypeInit, TypeStep, KeptInit, KeptStep, PTL DEF Spec
=============================================================================
