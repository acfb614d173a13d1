------------------------------ MODULE ScanWatcher ------------------------------
(***************************************************************************)
(* The folder watcher (scanner/watcher.go) over the scan lock: events of   *)
(* the file system become targets, targets wait for a quiet period, and a  *)
(* goroutine asks for a scan that may be refused.  Other parts of the      *)
(* server ask for scans of everything at any time.                         *)
(*                                                                         *)
(* A folder is a node of a small tree and its content a version number.  A *)
(* scan covers what it walks, at the version it finds there.  The quiet    *)
(* period is long against the start of a goroutine: the timer does not     *)
(* fire while the goroutine of its last firing has not reached lockScan.   *)
(***************************************************************************)
EXTENDS Integers, Sequences, FiniteSets

CONSTANTS
    Dirs,        \* folders of the library
    Root,        \* its root folder
    Above,       \* [Dirs -> SUBSET Dirs] proper ancestors
    Hidden,      \* folders with a name the scanner skips (dot and system folders)
    Rules,       \* possible contents of the .ndignore files: [Dirs -> SUBSET Dirs]
    Selective,   \* conf.Server.DevSelectiveWatcher
    Idle,        \* no scan
    QueueSize,   \* bound: capacity of the event and notification channels (500)
    MaxWrites,   \* bound: changes of the library
    MaxErrors    \* bound: status reads and scans that fail

ASSUME WatcherAssumption ==
    /\ Root \in Dirs /\ Hidden \subseteq Dirs \ {Root}
    /\ Above \in [Dirs -> SUBSET Dirs]
    /\ Rules \subseteq [Dirs -> SUBSET Dirs]
    /\ Selective \in BOOLEAN
    /\ QueueSize \in Nat \ {0} /\ MaxWrites \in Nat /\ MaxErrors \in Nat

VARIABLES
    rule,      \* [Dirs -> SUBSET Dirs] what the .ndignore of a folder matches
    present,   \* folders that exist
    version,   \* [Dirs -> Nat] content on disk
    covered,   \* [Dirs -> Nat] content at the last scan that covered the folder
    osEvents,  \* sequence of folders: the channel of storage.Watcher
    notices,   \* sequence of folders: watcherNotify
    timer,     \* "off" or "armed"
    targets,   \* folders collected since the last scan was started
    starting,  \* target sets of goroutines that have not reached lockScan
    scan,      \* Idle or [targets, seen] of the running scan
    writes, errors

watchVars == <<rule, present, version, covered, osEvents, notices, timer, targets, starting,
               scan, writes, errors>>

Below(d) == {e \in Dirs : e = d \/ d \in Above[e]}

WatcherInit ==
    /\ rule \in Rules
    /\ present = Dirs
    /\ version = [d \in Dirs |-> 0] /\ covered = version
    /\ osEvents = <<>> /\ notices = <<>>
    /\ timer = "off" /\ targets = {} /\ starting = {}
    /\ scan = Idle
    /\ writes = 0 /\ errors = 0

-------------------------------------------------------------------------------
(* The file system and core/storage/local/watcher.go.                      *)

\* The notify library drops events when the channel is full; the bound on
\* writes keeps the channel from filling.
Announce(d) == osEvents' = Append(osEvents, d)

Write(d) ==
    /\ writes < MaxWrites /\ d \in present
    /\ writes' = writes + 1
    /\ version' = [version EXCEPT ![d] = @ + 1]
    /\ Announce(d)
    /\ UNCHANGED <<rule, present, covered, notices, timer, targets, starting, scan, errors>>

RemoveDir(d) ==
    /\ writes < MaxWrites /\ d \in present \ {Root}
    /\ writes' = writes + 1
    /\ present' = present \ Below(d)
    /\ version' = [e \in Dirs |-> IF e \in Below(d) \cap present THEN version[e] + 1 ELSE version[e]]
    /\ Announce(d)
    /\ UNCHANGED <<rule, covered, notices, timer, targets, starting, scan, errors>>

-------------------------------------------------------------------------------
(* What is ignored.                                                        *)

\* isIgnoredPath: the folder, or one above it, has a name the scan skips.
isIgnoredPath(d) == (Above[d] \cup {d}) \cap Hidden # {}

\* PushAllParents and ShouldIgnore: the patterns of every folder from the root
\* to d, d included, matched against d.  Patterns of removed folders are gone.
shouldIgnoreFolderPath(d) ==
    d # Root /\ \E q \in (Above[d] \cup {d}) \cap present : d \in rule[q]

\* What a walk from t reaches: at each step down, the patterns of the folders
\* above the entry and of t's own parents.
walkFolder(t) ==
    {d \in Below(t) \cap present :
        \A e \in (Above[d] \cup {d}) \cap (Below(t) \ {t}) :
            e \notin Hidden /\ ~\E q \in Above[e] : e \in rule[q]}

\* The nearest folder that still exists.
resolveFolderPath(d) ==
    IF d \in present THEN d
    ELSE CHOOSE a \in Above[d] \cap present : Above[d] \cap present \subseteq Above[a] \cup {a}

-------------------------------------------------------------------------------

\* The send on watcherNotify waits while the channel is full.
processLibraryEvents ==
    LET d == Head(osEvents)
        folder == resolveFolderPath(d)
        dropped == \/ isIgnoredPath(d)
                   \/ shouldIgnoreFolderPath(d)
                   \/ folder # d /\ shouldIgnoreFolderPath(folder)
    IN  /\ osEvents # <<>>
        /\ osEvents' = Tail(osEvents)
        /\ \/ dropped /\ UNCHANGED notices
           \/ ~dropped /\ Len(notices) < QueueSize /\ notices' = Append(notices, folder)
        /\ UNCHANGED <<rule, present, version, covered, timer, targets, starting, scan, writes, errors>>

\* Every notification restarts the quiet period, also of a known target.
Notified ==
    /\ notices # <<>>
    /\ notices' = Tail(notices)
    /\ timer' = "armed"
    /\ targets' = targets \cup {Head(notices)}
    /\ UNCHANGED <<rule, present, version, covered, osEvents, starting, scan, writes, errors>>

\* controller.Status fails: break leaves the select with the timer off.
StatusFails ==
    /\ timer = "armed" /\ errors < MaxErrors
    /\ timer' = "off" /\ errors' = errors + 1
    /\ UNCHANGED <<rule, present, version, covered, osEvents, notices, targets, starting, scan, writes>>

\* Mutant: a running scan is taken to cover the targets.
TimerFires_WhileScanning ==
    /\ timer = "armed" /\ starting = {}
    /\ timer' = "off" /\ targets' = {}
    /\ starting' = IF scan = Idle THEN {targets} ELSE {}
    /\ UNCHANGED <<rule, present, version, covered, osEvents, notices, scan, writes, errors>>

\* While a scan runs the timer is armed again; otherwise the targets are handed
\* to a goroutine and forgotten.
TimerFires ==
    /\ timer = "armed" /\ starting = {} /\ scan = Idle
    /\ timer' = "off" /\ targets' = {}
    /\ starting' = {targets}
    /\ UNCHANGED <<rule, present, version, covered, osEvents, notices, scan, writes, errors>>

TimerRearmed ==
    /\ timer = "armed" /\ starting = {} /\ scan # Idle
    /\ UNCHANGED watchVars

-------------------------------------------------------------------------------
(* Scans, as the lock and the walk make them.                              *)

NothingSeen == [d \in Dirs |-> -1]

BeginScan(ts) == scan = Idle /\ scan' = [targets |-> ts, seen |-> NothingSeen]

\* The goroutine reaches lockScan; when another scan was faster the request is
\* refused with ErrAlreadyScanning, logged, and its targets are lost.
WatcherScans ==
    \E ts \in starting :
        /\ starting' = starting \ {ts}
        /\ \/ BeginScan(IF Selective THEN ts ELSE {Root})
           \/ scan # Idle /\ UNCHANGED scan
        /\ UNCHANGED <<rule, present, version, covered, osEvents, notices, timer, targets, writes, errors>>

\* The scheduler, the API, a signal, a new library: ScanAll.
OtherScan ==
    /\ BeginScan({Root})
    /\ UNCHANGED <<rule, present, version, covered, osEvents, notices, timer, targets, starting, writes, errors>>

\* The walk of the next target: every folder it reaches at its version, and the
\* known folders under it that are gone.
WalkTarget ==
    /\ scan # Idle
    /\ \E t \in scan.targets :
        scan' = [targets |-> scan.targets \ {t},
                 seen |-> [d \in Dirs |-> IF d \in walkFolder(t) \cup (Below(t) \ present)
                                          THEN version[d] ELSE scan.seen[d]]]
    /\ UNCHANGED <<rule, present, version, covered, osEvents, notices, timer, targets, starting, writes, errors>>

ScanCompletes ==
    /\ scan # Idle /\ scan.targets = {}
    /\ scan' = Idle
    /\ covered' = [d \in Dirs |-> IF scan.seen[d] >= 0 THEN scan.seen[d] ELSE covered[d]]
    /\ UNCHANGED <<rule, present, version, osEvents, notices, timer, targets, starting, writes, errors>>

ScanFails ==
    /\ scan # Idle /\ errors < MaxErrors
    /\ scan' = Idle /\ errors' = errors + 1
    /\ UNCHANGED <<rule, present, version, covered, osEvents, notices, timer, targets, starting, writes>>

WatcherLoop == Notified \/ TimerFires
ScanRuns    == WatcherScans \/ WalkTarget \/ ScanCompletes

WatcherNext ==
    \/ \E d \in Dirs : Write(d) \/ RemoveDir(d)
    \/ processLibraryEvents \/ WatcherLoop \/ StatusFails \/ TimerRearmed
    \/ ScanRuns \/ OtherScan \/ ScanFails

\* Goroutines run on, the timer fires when it is armed, and the scans of others
\* end, so that the watcher finds the scanner free now and then.
WatcherFairness ==
    /\ WF_watchVars(processLibraryEvents) /\ WF_watchVars(Notified)
    /\ SF_watchVars(TimerFires)
    /\ WF_watchVars(WatcherScans) /\ WF_watchVars(WalkTarget) /\ WF_watchVars(ScanCompletes)

WatcherSpec == WatcherInit /\ [][WatcherNext]_watchVars /\ WatcherFairness

-------------------------------------------------------------------------------
(* Properties *)

WatcherTypeOK ==
    /\ rule \in Rules /\ present \subseteq Dirs
    /\ version \in [Dirs -> Nat] /\ covered \in [Dirs -> Nat]
    /\ osEvents \in Seq(Dirs) /\ notices \in Seq(Dirs) /\ Len(notices) <= QueueSize
    /\ timer \in {"off", "armed"} /\ targets \subseteq Dirs /\ starting \subseteq SUBSET Dirs
    /\ scan = Idle \/ (scan.targets \subseteq Dirs /\ scan.seen \in [Dirs -> {-1} \cup Nat])
    /\ writes \in Nat /\ errors \in Nat

\* A folder that a name or an .ndignore on its way excludes.
Excluded(d) == \E e \in Above[d] \cup {d} : e \in Hidden \/ \E q \in Above[e] \cup {e} : e \in rule[q]

\* A change is covered in the end, by the watcher's scan or by the one that was
\* faster: the refused request loses its targets, but the scan that holds the
\* lock began after them and covers everything.  A removed folder is covered
\* through the nearest folder that is left.
ChangeIsScanned ==
    \A d \in Dirs : covered[d] # version[d] ~> covered[d] = version[d] \/ errors > 0 \/ Excluded(d)

===============================================================================
