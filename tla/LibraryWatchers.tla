---------------------------- MODULE LibraryWatchers ----------------------------
(***************************************************************************)
(* The registry of library watchers (scanner/watcher.go: Run, Watch,       *)
(* StopWatching and the goroutine of each watcher) and the operations on   *)
(* libraries that call it (core/library.go).  A watcher is an instance     *)
(* with a context of its own; the registry holds the latest one of each    *)
(* library.  Requests of administrators run concurrently.                  *)
(***************************************************************************)
EXTENDS Integers, FiniteSets

CONSTANTS
    LibIds, LibPaths,
    NoPath,        \* the library does not exist
    MaxRequests,   \* bound: requests that change libraries
    MaxWatchers    \* bound: watchers started, and the name of each

ASSUME LibraryAssumption ==
    LibIds # {} /\ NoPath \notin LibPaths /\ MaxRequests \in Nat /\ MaxWatchers \in Nat

Watchers == 1..MaxWatchers
NoWatcher == 0

VARIABLES
    library,    \* [LibIds -> LibPaths \cup {NoPath}] the table
    mainCtx,    \* Run has been called
    toWatch,    \* libraries Run has read and not reached: set of [lib, path]
    registry,   \* [LibIds -> Watchers \cup {NoWatcher}] libraryWatchers
    started,    \* watchers started so far
    watcher,    \* [Watchers -> [lib, path, cancelled, running]]
    calls       \* requests between the table and the watcher: set of [id, op, lib, path]

libVars == <<library, mainCtx, toWatch, registry, started, watcher, calls>>

LibraryInit ==
    /\ library \in [LibIds -> LibPaths \cup {NoPath}]
    /\ \A l, m \in LibIds : l # m /\ library[l] # NoPath => library[l] # library[m]
    /\ mainCtx = FALSE /\ toWatch = {}
    /\ registry = [l \in LibIds |-> NoWatcher]
    /\ started = 0
    /\ watcher = [i \in Watchers |-> [lib |-> CHOOSE l \in LibIds : TRUE, path |-> NoPath,
                                      cancelled |-> TRUE, running |-> FALSE]]
    /\ calls = {}

\* Run keeps the context, then reads the libraries.
Run ==
    /\ ~mainCtx /\ mainCtx' = TRUE
    /\ toWatch' = {[lib |-> l, path |-> library[l]] : l \in {m \in LibIds : library[m] # NoPath}}
    /\ UNCHANGED <<library, registry, started, watcher, calls>>

\* Mutant: the watcher of the old path goes on.
Watch_KeepsOld(l, p) ==
    /\ started < MaxWatchers /\ started' = started + 1
    /\ watcher' = [watcher EXCEPT ![started + 1] =
                     [lib |-> l, path |-> p, cancelled |-> FALSE, running |-> TRUE]]
    /\ registry' = [registry EXCEPT ![l] = started + 1]

\* Under the mutex: the old watcher of the library is told to stop and the new
\* one takes its place.
Watch(l, p) ==
    /\ started < MaxWatchers /\ started' = started + 1
    /\ watcher' = [i \in Watchers |->
                     IF i = started + 1
                     THEN [lib |-> l, path |-> p, cancelled |-> FALSE, running |-> TRUE]
                     ELSE IF i = registry[l] THEN [watcher[i] EXCEPT !.cancelled = TRUE]
                     ELSE watcher[i]]
    /\ registry' = [registry EXCEPT ![l] = started + 1]

RunWatches ==
    /\ \E w \in toWatch : Watch(w.lib, w.path) /\ toWatch' = toWatch \ {w}
    /\ UNCHANGED <<library, mainCtx, calls>>

StopWatching(l) ==
    /\ watcher' = [i \in Watchers |-> IF i = registry[l] THEN [watcher[i] EXCEPT !.cancelled = TRUE]
                                      ELSE watcher[i]]
    /\ registry' = [registry EXCEPT ![l] = NoWatcher]
    /\ UNCHANGED started

\* watchLibrary returns, because it was cancelled or because it failed; the
\* deferred function removes the registry's entry if it is still its own.
WatcherEnds(i) ==
    /\ watcher[i].running
    /\ watcher' = [watcher EXCEPT ![i].running = FALSE]
    /\ registry' = [l \in LibIds |-> IF registry[l] = i THEN NoWatcher ELSE registry[l]]
    /\ UNCHANGED <<library, mainCtx, toWatch, started, calls>>

-------------------------------------------------------------------------------
(* core/library.go: the table is written first, then the watcher called.   *)

Call(op, l, p) ==
    /\ Cardinality(calls) < MaxRequests
    /\ calls' = calls \cup {[op |-> op, lib |-> l, path |-> p]}

\* Paths are unique in the table.
Free(l, p) == \A m \in LibIds \ {l} : library[m] # p

Save(l, p) ==
    /\ library[l] = NoPath /\ Free(l, p)
    /\ library' = [library EXCEPT ![l] = p]
    /\ Call("watch", l, p)
    /\ UNCHANGED <<mainCtx, toWatch, registry, started, watcher>>

\* Only a change of the path restarts the watcher.
Update(l, p) ==
    /\ library[l] \notin {NoPath, p} /\ Free(l, p)
    /\ library' = [library EXCEPT ![l] = p]
    /\ Call("watch", l, p)
    /\ UNCHANGED <<mainCtx, toWatch, registry, started, watcher>>

Delete(l) ==
    /\ library[l] # NoPath
    /\ library' = [library EXCEPT ![l] = NoPath]
    /\ Call("stop", l, NoPath)
    /\ UNCHANGED <<mainCtx, toWatch, registry, started, watcher>>

\* Before Run, Watch leaves the library to Run.
CallWatcher ==
    \E c \in calls :
        /\ calls' = calls \ {c}
        /\ \/ c.op = "watch" /\ mainCtx /\ Watch(c.lib, c.path)
           \/ c.op = "watch" /\ ~mainCtx /\ UNCHANGED <<registry, started, watcher>>
           \/ c.op = "stop" /\ StopWatching(c.lib)
        /\ UNCHANGED <<library, mainCtx, toWatch>>

LibraryNext ==
    \/ Run \/ RunWatches \/ CallWatcher
    \/ \E i \in Watchers : WatcherEnds(i)
    \/ \E l \in LibIds : Delete(l) \/ \E p \in LibPaths : Save(l, p) \/ Update(l, p)

LibrarySpec == LibraryInit /\ [][LibraryNext]_libVars

-------------------------------------------------------------------------------
(* Properties *)

\* No watcher escapes the registry: one that nobody has told to stop is the
\* registered one of its library, so that Watch and StopWatching reach it.  The
\* end of an old watcher must not take the entry of its successor with it.
NoOrphanWatcher ==
    \A i \in Watchers : watcher[i].running /\ ~watcher[i].cancelled => registry[watcher[i].lib] = i

\* A registered watcher is alive, or about to leave the registry by itself.
RegisteredIsAlive ==
    \A l \in LibIds : registry[l] # NoWatcher =>
        watcher[registry[l]].running /\ ~watcher[registry[l]].cancelled /\ watcher[registry[l]].lib = l

\* Between requests and after any order of watchers' ends, the registry and the
\* running watchers are the same.
WatchersAreRegistered == NoOrphanWatcher /\ RegisteredIsAlive
===============================================================================
