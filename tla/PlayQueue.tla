----------------------------- MODULE PlayQueue -----------------------------
(* The queue of songs that the devices of a user share.  It is stored by       *)
(* statements outside of a transaction: the old row is looked up, cleared when *)
(* the whole queue is replaced, and the new one updated or inserted.           *)
EXTENDS Integers, Sequences, FiniteSets

CONSTANTS
    Devices,            \* requests that may run at once
    QueueLists,         \* the lists of songs devices send
    NoQueue,
    MaxQueueRequests,   \* bound: requests made
    MaxQueueFaults      \* bound: statements that fail

QueueSongs == UNION {{items[i] : i \in DOMAIN items} : items \in QueueLists}
QueueIndices == {0} \cup UNION {{i - 1 : i \in DOMAIN items} : items \in QueueLists}

ASSUME PlayQueueAssumption ==
    /\ QueueLists \subseteq Seq(QueueSongs)
    /\ NoQueue \notin Nat
    /\ MaxQueueRequests \in Nat /\ MaxQueueFaults \in Nat

VARIABLES
    queue,      \* rows of playqueue of the user: a sequence of [items, current, id]
    saving,     \* [Devices -> the request in progress]
    gone,       \* songs no longer in the library
    savesCrossed,    \* history: two requests changed the queue at once
    queueRequests, queueFaults

queueVars == <<queue, saving, gone, savesCrossed, queueRequests, queueFaults>>

NotSaving == [at |-> "none"]

QueueInit == queue = <<>> /\ saving = [h \in Devices |-> NotSaving] /\ gone = {} /\ savesCrossed = FALSE /\ queueRequests = 0 /\ queueFaults = 0

BeginSave(h, j) ==
    /\ saving[h] = NotSaving /\ queueRequests < MaxQueueRequests /\ queueRequests' = queueRequests + 1
    /\ saving' = [saving EXCEPT ![h] = j]

-----------------------------------------------------------------------------

\* The row a query without order finds, when there are two.
Retrieved == IF queue = <<>> THEN {[items |-> <<>>, current |-> 0, id |-> NoQueue]} ELSE {queue[i] : i \in DOMAIN queue}
InBounds(current, items) == current + 1 \in DOMAIN items
QueueBusy(h) == \E g \in Devices \ {h} : saving[g] # NotSaving

\* The songs that are gone are left out; the index of the current one stays.
loadTracks(items) ==
    LET kept == {i \in DOMAIN items : items[i] \notin gone}
        rank(i) == Cardinality({k \in kept : k <= i})
    IN  [n \in 1..Cardinality(kept) |-> items[CHOOSE i \in kept : rank(i) = n]]

\* What a device is given: the songs and, when the index has one, the current.
GetPlayQueue(row) ==
    LET items == loadTracks(row.items)
    IN  [items |-> items, current |-> IF InBounds(row.current, items) THEN items[row.current + 1] ELSE NoQueue]

GetPlayQueueByIndex(row) == [items |-> loadTracks(row.items), index |-> row.current]

\* The index of the song that is named as the current one, the first one's when
\* it is not in the list.
SavePlayQueue(items, id) ==
    LET at == {i \in DOMAIN items : items[i] = id} IN IF at = {} THEN 0 ELSE (CHOOSE i \in at : \A k \in at : i <= k) - 1

\* An index that is given must be in the list, unless that is empty.
SavePlayQueueByIndex(items) == IF items = <<>> THEN {0} ELSE {i - 1 : i \in DOMAIN items}

\* A device saves the whole queue.
saveQueue(h) ==
    /\ \E items \in QueueLists : \E c \in SavePlayQueueByIndex(items) \cup {SavePlayQueue(items, NoQueue)} \cup {SavePlayQueue(items, items[i]) : i \in DOMAIN items} :
        BeginSave(h, [at |-> "retrieve", cols |-> {}, items |-> items, current |-> c, id |-> NoQueue])
    /\ savesCrossed' = (savesCrossed \/ QueueBusy(h))
    /\ UNCHANGED <<queue, gone, queueFaults>>

\* A device changes the songs, the current one, or the position alone, checked
\* against what is stored at that moment.
updateQueue(h) ==
    /\ \E items \in QueueLists, c \in QueueIndices, cols \in {{"items"}, {"current"}, {"items", "current"}, {"position"}} :
        /\ \E old \in Retrieved :
            /\ cols = {"items"} => InBounds(old.current, items)
            /\ cols = {"current"} => InBounds(c, old.items)
            /\ cols = {"items", "current"} => InBounds(c, items)
        /\ BeginSave(h, [at |-> "retrieve", cols |-> cols, items |-> IF "items" \in cols THEN items ELSE <<>>,
                     current |-> IF "current" \in cols THEN c ELSE 0, id |-> NoQueue])
    /\ savesCrossed' = (savesCrossed \/ QueueBusy(h))
    /\ UNCHANGED <<queue, gone, queueFaults>>

StoreRetrieve(h) ==
    /\ saving[h] # NotSaving /\ saving[h].at = "retrieve"
    /\ \E old \in Retrieved :
        saving' = [saving EXCEPT ![h].id = old.id, ![h].at = IF saving[h].cols = {} THEN "clear" ELSE "put"]
    /\ UNCHANGED <<queue, gone, savesCrossed, queueRequests, queueFaults>>

clearPlayQueue(h) ==
    /\ saving[h] # NotSaving /\ saving[h].at = "clear"
    /\ queue' = <<>>
    /\ saving' = [saving EXCEPT ![h] = IF @.items = <<>> THEN NotSaving ELSE [@ EXCEPT !.at = "put"]]
    /\ UNCHANGED <<gone, savesCrossed, queueRequests, queueFaults>>

\* The row with the id found is updated; when it is gone, or there was none, a
\* row with all the columns is inserted.
put(h) ==
    LET j == saving[h]
        hit == {i \in DOMAIN queue : j.id # NoQueue /\ queue[i].id = j.id}
        fresh == CHOOSE n \in 1..(Len(queue) + 1) : \A i \in DOMAIN queue : queue[i].id # n
    IN  /\ j # NotSaving /\ j.at = "put"
        /\ queue' = IF hit # {}
                    THEN [i \in DOMAIN queue |-> IF i \notin hit THEN queue[i]
                            ELSE [queue[i] EXCEPT !.items = IF "items" \in j.cols THEN j.items ELSE @, !.current = IF "current" \in j.cols THEN j.current ELSE @]]
                    ELSE Append(queue, [items |-> j.items, current |-> j.current, id |-> IF j.id = NoQueue THEN fresh ELSE j.id])
        /\ saving' = [saving EXCEPT ![h] = NotSaving]
        /\ UNCHANGED <<gone, savesCrossed, queueRequests, queueFaults>>

QueueFails(h) ==
    /\ saving[h] # NotSaving /\ queueFaults < MaxQueueFaults /\ queueFaults' = queueFaults + 1
    /\ saving' = [saving EXCEPT ![h] = NotSaving]
    /\ UNCHANGED <<queue, gone, savesCrossed, queueRequests>>

clearQueue ==
    /\ queueRequests < MaxQueueRequests /\ queueRequests' = queueRequests + 1 /\ queue' = <<>>
    /\ savesCrossed' = (savesCrossed \/ \E g \in Devices : saving[g] # NotSaving)
    /\ UNCHANGED <<saving, gone, queueFaults>>

SongGoes ==
    /\ \E s \in QueueSongs \ gone : gone' = gone \cup {s}
    /\ UNCHANGED <<queue, saving, savesCrossed, queueRequests, queueFaults>>

QueueNext ==
    \/ \E h \in Devices : saveQueue(h) \/ updateQueue(h) \/ StoreRetrieve(h) \/ clearPlayQueue(h) \/ put(h) \/ QueueFails(h)
    \/ clearQueue \/ SongGoes

QueueSpec == QueueInit /\ [][QueueNext]_queueVars

-----------------------------------------------------------------------------
(* Properties                                                                *)

\* Requests that do not overlap leave one queue at most, and a device that asks
\* for it is given the current song that was stored, as long as no song up to it
\* is gone.
QueueIsCoherent ==
    (\A h \in Devices : saving[h] = NotSaving) /\ ~savesCrossed /\ queueFaults = 0 =>
        /\ Len(queue) <= 1
        /\ \A i \in DOMAIN queue :
            LET row == queue[i]
                upTo == {row.items[k] : k \in {n \in DOMAIN row.items : n <= row.current + 1}}
                byIndex == GetPlayQueueByIndex(row)
            IN  row.items # <<>> /\ upTo \cap gone = {} =>
                    /\ InBounds(row.current, row.items) /\ GetPlayQueue(row).current = row.items[row.current + 1]
                    /\ byIndex.items[byIndex.index + 1] = row.items[row.current + 1]
============================================================================
