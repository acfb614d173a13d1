--------------------------- MODULE BufferedScrobbler ---------------------------
(***************************************************************************)
(* core/scrobbler/buffered_scrobbler.go over the scrobble_buffer table of  *)
(* persistence/scrobble_buffer_repository.go.                              *)
(*                                                                         *)
(* A request handler calls Scrobble: it inserts a row and then signals a   *)
(* channel of capacity one.  One background goroutine (run) drains the     *)
(* table user by user into the external service, keeps what the service    *)
(* asks to retry, and sleeps until it is signalled or its backoff timer    *)
(* fires.  The table survives a crash; signal, timer and the failure count *)
(* do not.  Several buffered scrobblers share the table, each restricted   *)
(* to its own service column, so one of them is modelled.                  *)
(***************************************************************************)
EXTENDS Integers, FiniteSets

CONSTANTS
    Users, Media,   \* the keys the table's foreign keys refer to
    Rows,           \* one per call of Scrobble; a row's id is its own
    UserOf,         \* [Rows -> Users]  column user_id
    MediaOf,        \* [Rows -> Media]  column media_file_id
    PlayTime,       \* [Rows -> Nat]    column play_time
    None,           \* no user, no row
    Deletable,      \* the users and media files that may be deleted
    Broken,         \* users whose account always answers ErrRetryLater
    MaxFaults,      \* bound: transient failures of the database or service
    MaxCrashes      \* bound: process restarts

ASSUME ScrobbleAssumption ==
    /\ IsFiniteSet(Rows)
    /\ UserOf \in [Rows -> Users]
    /\ MediaOf \in [Rows -> Media]
    /\ PlayTime \in [Rows -> Nat]
    /\ None \notin Rows \cup Users
    /\ Deletable \subseteq Users \cup Media
    /\ Broken \subseteq Users
    /\ MaxFaults \in Nat /\ MaxCrashes \in Nat

VARIABLES
    rowid,       \* [Rows -> Nat], SQLite's rowid, 0 when the row is not stored
    called,      \* rows whose Scrobble call was made
    accepted,    \* rows whose insert succeeded (Scrobble returned nil)
    signalling,  \* rows inserted whose caller has not yet signalled
    gone,        \* users and media deleted from the library
    wakeSignal,  \* the channel of capacity one holds a token
    timer,       \* armed delay in seconds, 0 when stopped
    failures,    \* consecutive failed rounds, capped
    pc,          \* where the run goroutine is
    todo,        \* users of this round still to visit
    user,        \* user being drained
    entry,       \* row read by Next, sent but not yet dequeued
    result,      \* processQueue's result so far
    cancelled,   \* Stop was called
    late,        \* history: rows inserted since entry was read
    answered,    \* history: definitive answers of the service per row
    lapses,      \* history: answers that were not followed by a dequeue
    faults,      \* transient failures so far
    crashes      \* restarts so far

table  == <<rowid, called, accepted, gone>>
memory == <<signalling, wakeSignal, timer, failures, pc, todo, user, entry, result, cancelled>>
ghost  == <<late, answered, lapses>>
env    == <<faults, crashes>>
vars   == <<table, memory, ghost, env>>

minRetryDelay == 5
maxRetryDelay == 240
maxRetryShift == 6

\* Delay before retry number n, counted from zero.
backoffDelay(n) ==
    IF n >= maxRetryShift THEN maxRetryDelay
    ELSE LET d == minRetryDelay * 2^n
         IN  IF d > maxRetryDelay THEN maxRetryDelay ELSE d

\* The rows the table holds.
Buffer == {r \in Rows : rowid[r] # 0}
RowsOf(u) == {r \in Buffer : UserOf[r] = u}

\* ORDER BY play_time, rowid
Older(r, s) == \/ PlayTime[r] < PlayTime[s]
               \/ PlayTime[r] = PlayTime[s] /\ rowid[r] < rowid[s]

\* UNIQUE (user_id, service, media_file_id, play_time)
SameKey(r, s) == /\ UserOf[r] = UserOf[s]
                 /\ MediaOf[r] = MediaOf[s]
                 /\ PlayTime[r] = PlayTime[s]

\* A database or network call may fail, a bounded number of times; a call on
\* a cancelled context is one that fails.
Fault == faults < MaxFaults /\ faults' = faults + 1

Init ==
    /\ rowid = [r \in Rows |-> 0]
    /\ called = {} /\ accepted = {} /\ signalling = {} /\ gone = {}
    /\ wakeSignal = FALSE /\ timer = 0 /\ failures = 0
    /\ pc = "users" /\ todo = {} /\ user = None /\ entry = None
    /\ result = TRUE /\ cancelled = FALSE
    /\ late = {}
    /\ answered = [r \in Rows |-> 0] /\ lapses = [r \in Rows |-> 0]
    /\ faults = 0 /\ crashes = 0

-------------------------------------------------------------------------------
(* The request handler: Scrobble = Enqueue, then sendWakeSignal.           *)

Enqueue(r) ==
    /\ r \notin called
    /\ called' = called \cup {r}
    /\ UserOf[r] \notin gone /\ MediaOf[r] \notin gone
    /\ \A s \in Buffer : ~SameKey(r, s)
    /\ rowid' = [rowid EXCEPT ![r] = Cardinality(accepted) + 1]
    /\ accepted' = accepted \cup {r}
    /\ signalling' = signalling \cup {r}
    /\ late' = IF entry = None THEN late ELSE late \cup {r}
    /\ UNCHANGED <<gone, wakeSignal, timer, failures, pc, todo, user, entry,
                   result, cancelled, answered, lapses, env>>

\* The insert fails (constraint or database error): Scrobble returns the
\* error and signals nobody.
EnqueueFails(r) ==
    /\ r \notin called
    /\ called' = called \cup {r}
    /\ \/ /\ \/ UserOf[r] \in gone \/ MediaOf[r] \in gone
             \/ \E s \in Buffer : SameKey(r, s)
          /\ UNCHANGED faults
       \/ Fault
    /\ UNCHANGED <<rowid, accepted, gone, memory, ghost, crashes>>

\* Mutant: an unbuffered channel, the token is lost unless run is waiting.
sendWakeSignal_Unbuffered(r) ==
    /\ r \in signalling
    /\ signalling' = signalling \ {r}
    /\ wakeSignal' = (wakeSignal \/ pc = "select")
    /\ UNCHANGED <<table, timer, failures, pc, todo, user, entry, result,
                   cancelled, ghost, env>>

sendWakeSignal(r) ==
    /\ r \in signalling
    /\ signalling' = signalling \ {r}
    /\ wakeSignal' = TRUE
    /\ UNCHANGED <<table, timer, failures, pc, todo, user, entry, result,
                   cancelled, ghost, env>>

\* A user or a media file is deleted; its rows go with it (ON DELETE CASCADE).
CascadeDelete(x) ==
    /\ x \notin gone
    /\ gone' = gone \cup {x}
    /\ rowid' = [r \in Rows |-> IF x \in {UserOf[r], MediaOf[r]} THEN 0 ELSE rowid[r]]
    /\ UNCHANGED <<called, accepted, memory, ghost, env>>

-------------------------------------------------------------------------------
(* The run goroutine.                                                      *)

\* processQueue up to its loop: the users that have rows now.
UserIDs ==
    /\ pc = "users"
    /\ todo' = {UserOf[r] : r \in Buffer}
    /\ result' = TRUE
    /\ pc' = "user"
    /\ UNCHANGED <<table, signalling, wakeSignal, timer, failures, user, entry,
                   cancelled, ghost, env>>

UserIDsFails ==
    /\ pc = "users" /\ Fault
    /\ todo' = {}
    /\ result' = FALSE
    /\ pc' = "decide"
    /\ UNCHANGED <<table, signalling, wakeSignal, timer, failures, user, entry,
                   cancelled, ghost, crashes>>

\* Head of processQueue's loop.  The query orders the users by their number
\* of rows; any order is allowed here.
NextUser ==
    /\ pc = "user"
    /\ \/ /\ \E u \in todo : user' = u /\ todo' = todo \ {u}
          /\ pc' = "next"
       \/ /\ todo = {}
          /\ pc' = "decide"
          /\ UNCHANGED <<user, todo>>
    /\ UNCHANGED <<table, signalling, wakeSignal, timer, failures, entry, result,
                   cancelled, ghost, env>>

\* Mutant: the first user that fails ends the round.
LeaveUser_EndsRound(ok) ==
    /\ result' = (result /\ ok)
    /\ pc' = IF ok THEN "user" ELSE "decide"
    /\ user' = None
    /\ entry' = None
    /\ late' = {}

\* processUserQueue returns ok.
LeaveUser(ok) ==
    /\ result' = (result /\ ok)
    /\ pc' = "user"
    /\ user' = None
    /\ entry' = None
    /\ late' = {}

NextEntry ==
    /\ pc = "next"
    /\ \/ /\ RowsOf(user) = {}
          /\ LeaveUser(TRUE)
       \/ /\ \E r \in RowsOf(user) :
                /\ \A s \in RowsOf(user) \ {r} : Older(r, s)
                /\ entry' = r
          /\ pc' = "send"
          /\ UNCHANGED <<user, result, late>>
    /\ UNCHANGED <<table, signalling, wakeSignal, timer, failures, todo, cancelled,
                   answered, lapses, env>>

NextFails ==
    /\ pc = "next" /\ Fault
    /\ LeaveUser(FALSE)
    /\ UNCHANGED <<table, signalling, wakeSignal, timer, failures, todo, cancelled,
                   answered, lapses, crashes>>

\* The service takes the scrobble or rejects it for good: either way the
\* loop goes on to dequeue.
ScrobbleAnswered ==
    /\ pc = "send"
    /\ user \notin Broken
    /\ answered' = [answered EXCEPT ![entry] = @ + 1]
    /\ pc' = "dequeue"
    /\ UNCHANGED <<table, signalling, wakeSignal, timer, failures, todo, user, entry,
                   result, cancelled, late, lapses, env>>

\* Mutant: ErrRetryLater is treated like any other error.
ScrobbleRetryLater_Discards ==
    /\ pc = "send"
    /\ \/ user \in Broken /\ UNCHANGED faults
       \/ Fault
    /\ pc' = "dequeue"
    /\ UNCHANGED <<table, signalling, wakeSignal, timer, failures, todo, user, entry,
                   result, cancelled, ghost, crashes>>

\* ErrRetryLater: the row stays and this user's round ends.
ScrobbleRetryLater ==
    /\ pc = "send"
    /\ \/ user \in Broken /\ UNCHANGED faults
       \/ Fault
    /\ LeaveUser(FALSE)
    /\ UNCHANGED <<table, signalling, wakeSignal, timer, failures, todo, cancelled,
                   answered, lapses, crashes>>

Dequeue ==
    /\ pc = "dequeue"
    /\ rowid' = [rowid EXCEPT ![entry] = 0]
    /\ entry' = None
    /\ late' = {}
    /\ pc' = "next"
    /\ UNCHANGED <<called, accepted, gone, signalling, wakeSignal, timer, failures,
                   todo, user, result, cancelled, answered, lapses, env>>

DequeueFails ==
    /\ pc = "dequeue" /\ Fault
    /\ lapses' = [lapses EXCEPT ![entry] = @ + 1]
    /\ LeaveUser(FALSE)
    /\ UNCHANGED <<table, signalling, wakeSignal, timer, failures, todo, cancelled,
                   answered, crashes>>

\* run, after processQueue returned: stop the timer or arm it.
Decide ==
    /\ pc = "decide"
    /\ IF result
         THEN failures' = 0 /\ timer' = 0
         ELSE /\ timer' = backoffDelay(failures)
              /\ failures' = IF failures < maxRetryShift THEN failures + 1 ELSE failures
    /\ pc' = "select"
    /\ result' = TRUE
    /\ UNCHANGED <<table, signalling, wakeSignal, todo, user, entry, cancelled,
                   ghost, env>>

\* The select of run.
Woken ==
    /\ pc = "select" /\ wakeSignal
    /\ wakeSignal' = FALSE
    /\ pc' = "users"
    /\ UNCHANGED <<table, signalling, timer, failures, todo, user, entry, result,
                   cancelled, ghost, env>>

TimerFires ==
    /\ pc = "select" /\ timer # 0
    /\ timer' = 0
    /\ pc' = "users"
    /\ UNCHANGED <<table, signalling, wakeSignal, failures, todo, user, entry, result,
                   cancelled, ghost, env>>

\* ctx.Done(): run returns.  Callers may still insert rows, which then wait
\* for the next start of the process.
Stopped ==
    /\ pc = "select" /\ cancelled
    /\ timer' = 0
    /\ pc' = "stopped"
    /\ UNCHANGED <<table, signalling, wakeSignal, failures, todo, user, entry, result,
                   cancelled, ghost, env>>

-------------------------------------------------------------------------------
(* Stop, process death and the next start (newBufferedScrobbler).          *)

Stop ==
    /\ ~cancelled
    /\ crashes < MaxCrashes
    /\ cancelled' = TRUE
    /\ UNCHANGED <<table, signalling, wakeSignal, timer, failures, pc, todo, user, entry,
                   result, ghost, env>>

\* The process dies at any point, with every goroutine in it, and is started
\* again: only the table is left.
newBufferedScrobbler ==
    /\ crashes < MaxCrashes
    /\ crashes' = crashes + 1
    /\ lapses' = IF pc = "dequeue" THEN [lapses EXCEPT ![entry] = @ + 1] ELSE lapses
    /\ signalling' = {} /\ wakeSignal' = FALSE
    /\ timer' = 0 /\ failures' = 0
    /\ pc' = "users" /\ todo' = {} /\ user' = None /\ entry' = None
    /\ result' = TRUE /\ cancelled' = FALSE
    /\ late' = {}
    /\ UNCHANGED <<table, answered, faults>>

-------------------------------------------------------------------------------
\* The goroutine started by newBufferedScrobbler.
run ==
    \/ UserIDs \/ UserIDsFails \/ NextUser \/ NextEntry \/ NextFails
    \/ ScrobbleAnswered \/ ScrobbleRetryLater \/ Dequeue \/ DequeueFails
    \/ Decide \/ Woken \/ TimerFires \/ Stopped

Next ==
    \/ \E r \in Rows : Enqueue(r) \/ EnqueueFails(r) \/ sendWakeSignal(r)
    \/ \E x \in Deletable : CascadeDelete(x)
    \/ run
    \/ Stop \/ newBufferedScrobbler

Spec == Init /\ [][Next]_vars

\* The goroutine is scheduled and its timer runs; a request handler that
\* inserted a row goes on to signal.
Fairness == WF_vars(run) /\ \A r \in Rows : WF_vars(sendWakeSignal(r))

FairSpec == Spec /\ Fairness

-------------------------------------------------------------------------------
TypeOK ==
    /\ rowid \in [Rows -> Nat]
    /\ called \subseteq Rows /\ accepted \subseteq called /\ signalling \subseteq Rows
    /\ gone \subseteq Users \cup Media
    /\ wakeSignal \in BOOLEAN
    /\ timer \in 0..maxRetryDelay
    /\ failures \in 0..maxRetryShift
    /\ pc \in {"users", "user", "next", "send", "dequeue", "decide", "select", "stopped"}
    /\ todo \subseteq Users
    /\ user \in Users \cup {None}
    /\ entry \in Rows \cup {None}
    /\ pc \in {"next", "send", "dequeue"} => user \in Users
    /\ pc \in {"send", "dequeue"} => entry \in Rows
    /\ result \in BOOLEAN /\ cancelled \in BOOLEAN
    /\ late \subseteq Rows
    /\ answered \in [Rows -> Nat] /\ lapses \in [Rows -> Nat]
    /\ faults \in 0..MaxFaults /\ crashes \in 0..MaxCrashes

\* run never sleeps on a non-empty table with nothing left to wake it: when it
\* blocks in its select while rows are stored, a token is in the channel, the
\* backoff timer is armed, or the caller that stored a row is about to signal.
NoLostWakeup ==
    pc = "select" /\ Buffer # {} => wakeSignal \/ timer # 0 \/ signalling # {}

\* Why NoLostWakeup holds: at every point of the loop each stored row is
\* covered by a wake-up to come, by a failure that will arm the timer, or by a
\* user this round has still to visit.
Covered ==
    \/ signalling # {} \/ wakeSignal
    \/ pc \in {"users", "stopped"}
    \/ pc = "select" /\ timer # 0
    \/ pc \in {"user", "next", "send", "dequeue", "decide"} /\ ~result
    \/ pc \in {"next", "send", "dequeue"} /\ \A r \in Buffer : UserOf[r] \in todo \cup {user}
    \/ pc = "user" /\ \A r \in Buffer : UserOf[r] \in todo
    \/ Buffer = {}

\* A scrobble whose Scrobble call returned nil is never dropped: it is stored,
\* or the service answered it for good, or its user or media file was deleted.
NeverDropped ==
    \A r \in accepted :
        \/ r \in Buffer
        \/ answered[r] > 0
        \/ UserOf[r] \in gone \/ MediaOf[r] \in gone

\* A scrobble reaches the service twice only when a crash or a failed delete
\* came between the answer and the dequeue, once for each such lapse.
DuplicatesOnlyAfterLapse ==
    \A r \in Rows : answered[r] <= lapses[r] + 1

\* While a row is being sent no earlier play of that user is stored, apart
\* from rows that arrived after the worker had read its entry.
OldestFirst ==
    pc \in {"send", "dequeue"} =>
        \A r \in RowsOf(user) \ late : PlayTime[entry] <= PlayTime[r]

\* What the buffer promises for a scrobble it accepted: it is delivered or kept
\* through crashes and failing statements, twice only after such a lapse, and
\* a user's plays go out oldest first.
ScrobblesAreKept == NeverDropped /\ DuplicatesOnlyAfterLapse /\ OldestFirst

\* Every stored scrobble of a user whose account works leaves the table, even
\* if another user's account answers ErrRetryLater forever.
HealthyUsersDrain ==
    \A r \in Rows :
        UserOf[r] \notin Broken /\ r \in Buffer ~> r \notin Buffer \/ cancelled
================================================================================
