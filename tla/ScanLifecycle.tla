------------------------------ MODULE ScanLifecycle ------------------------------
(***************************************************************************)
(* The life of a library scan: scanner/scanner.go with phases 1 and 3,     *)
(* the scan columns of the library table (persistence/library_repository)  *)
(* and the initial scan of cmd/root.go.                                    *)
(*                                                                         *)
(* A scan works over many transactions, and the process may die, or a      *)
(* phase fail, between any two of them.  What is left in the database then *)
(* decides what the next scan does: last_scan_started_at (a scan was       *)
(* interrupted), full_scan_in_progress (it was a full one), updated_at and *)
(* hash of every folder, imported_at of every album.  Times are only ever  *)
(* compared with each other, so they are kept as the outcome of the        *)
(* comparison: since (updated_at is not before last_scan_started_at) and   *)
(* ended (the libraries whose last_scan_at is later than the folder's      *)
(* albums and artists).                                                    *)
(*                                                                         *)
(* A folder holds one file and one album.  Its content on disk is a        *)
(* version number, its modification time with it.  The scan lock           *)
(* (controller.go, lockScan) is pc # "idle".                               *)
(***************************************************************************)
EXTENDS Integers, FiniteSets

CONSTANTS
    Libs,         \* library ids
    Folders,      \* folders of all the libraries
    LibOf,        \* [Folders -> Libs]
    Requests,     \* scans the API, the watcher or a signal ask for: [full, targets]
    None,
    MaxRequests,  \* bound: such scans
    MaxEdits,     \* bound: changes of one folder
    MaxCrashes,   \* bound: deaths of the process
    MaxFaults     \* bound: failing statements and unreadable files

\* targets = {} asks for all libraries (ScanAll).
ScanRequest == [full : BOOLEAN, targets : SUBSET Folders]

ASSUME ScanAssumption ==
    /\ LibOf \in [Folders -> Libs]
    /\ Requests \subseteq ScanRequest
    /\ MaxRequests \in Nat /\ MaxEdits \in Nat
    /\ MaxCrashes \in Nat /\ MaxFaults \in Nat

\* A version of a folder, the hash column and a folderEntry in the pipeline.
Versions == 0..MaxEdits
Hashes   == Versions \X Versions
Entries  == [modTime : Versions, tags : Versions \cup {None}, imports : BOOLEAN,
             unread : BOOLEAN]

ASSUME NoneAssumption == None \notin Versions /\ None \notin Entries

VARIABLES
    disk,       \* [Folders -> Nat] what the folder holds, and its mtime
    lib,        \* [Libs -> [inProgress, full]] the scan columns of the library
    fol,        \* [Folders -> [known, since, hash, content, unread]] folder and track rows
    alb,        \* [Folders -> [ended, whole]] the album row of the folder
    stats,      \* [Folders -> artist and tag counts: "fresh", "stale", "orphaned"]
    fullFlag,   \* property FullScanAfterMigration
    up, boot,   \* the process runs; where runInitialScan is
    pc,         \* the scan: "idle" (not locked) or its step
    asked,      \* the fullScan argument of the running scan
    full,       \* scanState.fullScan
    changes,    \* scanState.changesDetected
    libs,       \* scanState.libraries
    scope,      \* folders the scan walks
    toBegin,    \* libraries prepareLibrariesForScan has not reached
    entry,      \* [Folders -> None or the folderEntry in phase 1's pipeline]
    todo,       \* folders phase 1 has not walked
    asOf,       \* history: disk when the scan started, where no error was reported
    owed,       \* history: folders a recorded full scan has not imported again
    requests, crashes, faults

scanVars == <<asked, full, changes, libs, scope, toBegin, entry, todo, asOf>>
rowVars  == <<lib, fol, alb, stats, owed>>
hostVars == <<fullFlag, up, boot>>
bounds   == <<requests, crashes, faults>>
vars     == <<disk, rowVars, hostVars, pc, scanVars, bounds>>

FoldersOf(l) == {f \in Folders : LibOf[f] = l}
InLibs(S)    == {f \in Folders : LibOf[f] \in S}

\* The hash column: the newest mtime seen by loadDir, and the size and mtime
\* of the files, which hash() asks the file system for when it is called.
Hash(modTime, infos) == <<modTime, infos>>

FinalSteps == {"gc", "artwork", "stats"}
Steps == {"idle", "begin", "jobs", "phase1", "phase3", "update"} \cup FinalSteps

Init ==
    /\ disk = [f \in Folders |-> 0]
    /\ lib = [l \in Libs |-> [inProgress |-> FALSE, full |-> FALSE]]
    /\ fol = [f \in Folders |->
                [known |-> TRUE, since |-> TRUE, hash |-> Hash(0, 0), content |-> 0,
                 unread |-> FALSE]]
    /\ alb = [f \in Folders |-> [ended |-> Libs, whole |-> TRUE]]
    /\ stats = [f \in Folders |-> "fresh"]
    /\ fullFlag \in BOOLEAN
    /\ up = TRUE /\ boot = "start"
    /\ pc = "idle"
    /\ asked = FALSE /\ full = FALSE /\ changes = FALSE
    /\ libs = {} /\ scope = {} /\ toBegin = {} /\ todo = {}
    /\ entry = [f \in Folders |-> None]
    /\ asOf = disk /\ owed = {}
    /\ requests = 0 /\ crashes = 0 /\ faults = 0

Fault   == faults < MaxFaults /\ faults' = faults + 1 /\ UNCHANGED <<requests, crashes>>
NoFault == UNCHANGED bounds

\* Files change at any time, a scan or not, the server up or not.
Edit(f) ==
    /\ disk[f] < MaxEdits
    /\ disk' = [disk EXCEPT ![f] = @ + 1]
    /\ UNCHANGED <<rowVars, hostVars, pc, scanVars, bounds>>

-------------------------------------------------------------------------------
(* Starting a scan: controller.ScanFolders and the head of scanFolders.    *)

\* A quick scan of a library whose full scan was interrupted becomes a full
\* one, but changesDetected follows the request.
StartScan(r) ==
    LET in == IF r.targets = {} THEN Folders ELSE r.targets
        ls == IF r.targets = {} THEN Libs ELSE {LibOf[f] : f \in r.targets}
    IN  /\ pc = "idle"
        /\ asked' = r.full
        /\ full' = (r.full \/ \E l \in ls : lib[l].full)
        /\ changes' = r.full
        /\ libs' = ls /\ toBegin' = ls
        /\ scope' = in
        /\ asOf' = disk
        /\ pc' = "begin"
        /\ UNCHANGED <<entry, todo>>

\* A request while another scan holds the lock gets ErrAlreadyScanning.
Request ==
    /\ up /\ requests < MaxRequests
    /\ requests' = requests + 1 /\ UNCHANGED <<crashes, faults>>
    /\ \E r \in Requests : StartScan(r)
    /\ UNCHANGED <<disk, rowVars, hostVars>>

\* schedulePeriodicScan
ScheduledScan ==
    /\ up
    /\ StartScan([full |-> FALSE, targets |-> {}])
    /\ UNCHANGED <<disk, rowVars, hostVars, bounds>>

\* runInitialScan reads the flag and ScanInProgress, then sleeps; without
\* either, scanOnStartup decides.
BootRead ==
    /\ up /\ boot = "start"
    /\ boot' \in IF fullFlag THEN {"full"}
                 ELSE IF \E l \in Libs : lib[l].inProgress THEN {"quick"}
                 ELSE {"quick", "done"}
    /\ UNCHANGED <<disk, rowVars, fullFlag, up, pc, scanVars, bounds>>

\* The flag is deleted before ScanAll is called, whether or not ScanAll gets
\* the lock.
BootScan ==
    /\ up /\ boot \in {"full", "quick"}
    /\ fullFlag' = IF boot = "full" THEN FALSE ELSE fullFlag
    /\ boot' = "done"
    /\ \/ StartScan([full |-> boot = "full", targets |-> {}])
       \/ pc # "idle" /\ UNCHANGED <<pc, scanVars>>
    /\ UNCHANGED <<disk, rowVars, up, bounds>>

-------------------------------------------------------------------------------
(* prepareLibrariesForScan                                                 *)

ScanBegin(l) ==
    /\ lib' = [lib EXCEPT ![l] = [inProgress |-> TRUE, full |-> full]]
    /\ fol' = [f \in Folders |->
                 IF LibOf[f] = l THEN [fol[f] EXCEPT !.since = FALSE] ELSE fol[f]]
    /\ owed' = IF full THEN owed \cup (FoldersOf(l) \cap scope) ELSE owed
    /\ UNCHANGED <<alb, stats>>

\* Mutant: a library whose scan is in progress is left to that scan.
PrepareLibrary_LeavesInProgress(l) ==
    /\ pc = "begin" /\ l \in toBegin
    /\ toBegin' = toBegin \ {l}
    /\ IF lib[l].inProgress THEN libs' = libs \ {l} /\ UNCHANGED rowVars
       ELSE ScanBegin(l) /\ UNCHANGED libs
    /\ UNCHANGED <<disk, hostVars, pc, asked, full, changes, scope, entry, todo,
                   asOf, bounds>>

\* An interrupted scan is resumed as it is in the database.
PrepareLibrary(l) ==
    /\ pc = "begin" /\ l \in toBegin
    /\ toBegin' = toBegin \ {l}
    /\ IF lib[l].inProgress THEN UNCHANGED rowVars ELSE ScanBegin(l)
    /\ UNCHANGED <<disk, hostVars, pc, asked, full, changes, libs, scope, entry, todo,
                   asOf, bounds>>

\* The library is left out with a warning: ScanBegin failed, or the reload
\* after it.
PrepareFails(l) ==
    /\ pc = "begin" /\ l \in toBegin /\ ~lib[l].inProgress
    /\ Fault
    /\ toBegin' = toBegin \ {l}
    /\ libs' = libs \ {l}
    /\ UNCHANGED rowVars \/ ScanBegin(l)
    /\ UNCHANGED <<disk, hostVars, pc, asked, full, changes, scope, entry, todo, asOf>>

\* What becomes of the counts an interrupted scan leaves stale depends on the
\* changes the next scan finds; the history keeps them apart.
Orphan == stats' = [f \in Folders |-> IF stats[f] = "stale" THEN "orphaned" ELSE stats[f]]

\* The scan returns, with an error or without one, and releases the lock.
EndScan ==
    /\ pc' = "idle"
    /\ asked' = FALSE /\ full' = FALSE /\ changes' = FALSE
    /\ libs' = {} /\ scope' = {} /\ toBegin' = {} /\ todo' = {}
    /\ entry' = [f \in Folders |-> None]
    /\ asOf' = disk

Prepared ==
    /\ pc = "begin" /\ toBegin = {}
    /\ IF libs = {} THEN EndScan
       ELSE pc' = "jobs" /\ UNCHANGED scanVars
    /\ UNCHANGED <<disk, rowVars, hostVars, bounds>>

-------------------------------------------------------------------------------
(* Phase 1: walk, read and persist every outdated folder.                  *)

Walk(S) ==
    /\ pc = "jobs" /\ pc' = "phase1"
    /\ todo' = scope \cap InLibs(S)
    /\ UNCHANGED <<asked, full, changes, libs, scope, toBegin, entry>>

createPhaseFolders ==
    /\ Walk(libs) /\ UNCHANGED <<asOf>>
    /\ UNCHANGED <<disk, rowVars, hostVars, bounds>>

\* newScanJob fails for a library: the error is reported and the library is
\* not walked, but it stays in scanState.libraries.
newScanJobFails(l) ==
    /\ l \in libs /\ Fault
    /\ Walk(libs \ {l})
    /\ owed' = owed \ FoldersOf(l)
    /\ asOf' = [f \in Folders |-> IF LibOf[f] = l THEN 0 ELSE asOf[f]]
    /\ UNCHANGED <<disk, lib, fol, alb, stats, hostVars>>

\* walkFolder / loadDir
loadDir(f) ==
    /\ pc = "phase1" /\ f \in todo
    /\ todo' = todo \ {f}
    /\ entry' = [entry EXCEPT ![f] = [modTime |-> disk[f], tags |-> None,
                                         imports |-> FALSE, unread |-> FALSE]]
    /\ UNCHANGED <<disk, rowVars, hostVars, pc, asked, full, changes, libs, scope, toBegin,
                   asOf, bounds>>

\* Mutant: a full scan looks at the update time only.
isOutdated_TimeOnly(f) ==
    IF lib[LibOf[f]].full \/ full THEN ~fol[f].since
    ELSE fol[f].hash # Hash(entry[f].modTime, disk[f])

\* newScanJob sets lib.FullScanInProgress when the scan is full.  A folder
\* that is unknown or missing has no update time and no hash.
isOutdated(f) ==
    \/ ~fol[f].known
    \/ (lib[LibOf[f]].full \/ full) /\ ~fol[f].since
    \/ fol[f].hash # Hash(entry[f].modTime, disk[f])

InEntry(f, tags) == pc = "phase1" /\ entry[f] # None /\ entry[f].tags = tags

producerSkips(f) ==
    /\ InEntry(f, None) /\ ~isOutdated(f)
    /\ entry' = [entry EXCEPT ![f] = None]
    /\ UNCHANGED <<disk, rowVars, hostVars, pc, asked, full, changes, libs, scope, toBegin,
                   todo, asOf, bounds>>

\* A quick scan reads the file when it is newer than the track, or the track
\* was missing; the tags are then as the file is now.
processFolder(f) ==
    /\ InEntry(f, None) /\ isOutdated(f)
    /\ \/ /\ NoFault
          /\ entry' = [entry EXCEPT ![f].tags = disk[f],
                         ![f].imports = full \/ disk[f] # fol[f].content \/ ~fol[f].known]
       \/ /\ Fault    \* the file cannot be read: a warning, and no tracks
          /\ entry' = [entry EXCEPT ![f].tags = fol[f].content, ![f].unread = TRUE]
    /\ UNCHANGED <<disk, rowVars, hostVars, pc, asked, full, changes, libs, scope, toBegin,
                   todo, asOf>>

\* Mutants: the stored hash takes the mtime from the disk too; changesDetected
\* is not set.
Persist(f, hash) ==
    LET e == entry[f] IN
    /\ pc = "phase1" /\ e # None /\ e.tags # None
    /\ fol' = [fol EXCEPT ![f] =
                 [known |-> TRUE, since |-> TRUE, hash |-> hash,
                  content |-> e.tags, unread |-> e.unread]]
    /\ alb' = [alb EXCEPT ![f] = [ended |-> {}, whole |-> TRUE]]
    /\ stats' = [stats EXCEPT ![f] = "stale"]
    /\ entry' = [entry EXCEPT ![f] = None]
    /\ UNCHANGED <<disk, lib, hostVars, pc, asked, full, libs, scope, toBegin, todo,
                   asOf, owed, bounds>>

persistChanges_NewModTime(f) == Persist(f, Hash(disk[f], disk[f])) /\ changes' = TRUE
persistChanges_NoChange(f)   == Persist(f, Hash(entry[f].modTime, disk[f])) /\ UNCHANGED changes

\* One transaction.  toFolder computes the hash again.  The album made of
\* this folder's tracks alone may be incomplete until phase 3.
persistChanges(f) ==
    LET e == entry[f] IN
    /\ pc = "phase1" /\ e # None /\ e.tags # None
    /\ changes' = TRUE
    /\ fol' = [fol EXCEPT ![f] =
                 [known |-> TRUE, since |-> TRUE, hash |-> Hash(e.modTime, disk[f]),
                  content |-> e.tags, unread |-> e.unread]]
    /\ IF e.imports
       THEN /\ \E w \in BOOLEAN : alb' = [alb EXCEPT ![f] = [ended |-> {}, whole |-> w]]
            /\ stats' = [stats EXCEPT ![f] = "stale"]
       ELSE UNCHANGED <<alb, stats>>
    /\ owed' = IF full THEN owed \ {f} ELSE owed
    /\ entry' = [entry EXCEPT ![f] = None]
    /\ UNCHANGED <<disk, lib, hostVars, pc, asked, full, libs, scope, toBegin, todo,
                   asOf, bounds>>

\* Folders the walk did not reach are marked missing with their tracks, and
\* albums with missing folders are touched.
finalize(M) ==
    /\ fol' = [f \in Folders |->
                 IF f \in M THEN [fol[f] EXCEPT !.known = FALSE, !.since = TRUE] ELSE fol[f]]
    /\ alb' = [f \in Folders |->
                 IF f \in M THEN [ended |-> {}, whole |-> FALSE]
                 ELSE IF M # {} /\ ~fol[f].known THEN [alb[f] EXCEPT !.ended = {}]
                 ELSE alb[f]]

\* A transaction of phase 1 fails, and finalize still runs: what it finds
\* unreached (any of the rest) depends on how the pipeline stops.
Phase1Fails ==
    /\ pc = "phase1" /\ Fault
    /\ \E M \in SUBSET todo : finalize(M)
    /\ Orphan /\ EndScan
    /\ UNCHANGED <<disk, lib, owed, hostVars>>

Phase1Ends ==
    /\ pc = "phase1" /\ todo = {} /\ \A f \in Folders : entry[f] = None
    /\ pc' = "phase3"
    /\ UNCHANGED <<disk, rowVars, hostVars, scanVars, bounds>>

-------------------------------------------------------------------------------
(* Phase 3 and the final steps.                                            *)

\* GetTouchedAlbums: imported_at > last_scan_at of the album's library.
GetTouchedAlbums == {f \in InLibs(libs) : LibOf[f] \notin alb[f].ended}

\* filterUnmodified drops an album that equals the one its tracks make.
refreshAlbum(f) ==
    /\ pc = "phase3" /\ f \in GetTouchedAlbums /\ ~alb[f].whole
    /\ alb' = [alb EXCEPT ![f].whole = TRUE]
    /\ changes' = TRUE
    /\ UNCHANGED <<disk, lib, fol, stats, owed, hostVars, pc, asked, full, libs,
                   scope, toBegin, entry, todo, asOf, bounds>>

Phase3Ends ==
    /\ pc = "phase3" /\ \A f \in GetTouchedAlbums : alb[f].whole
    /\ pc' = "gc"
    /\ UNCHANGED <<disk, rowVars, hostVars, scanVars, bounds>>

\* What runGC and runEnqueueMissingArtwork do when changes were detected lies
\* outside the rows of this module.
FinalStep(step, next) ==
    /\ pc = step /\ pc' = next
    /\ UNCHANGED <<disk, lib, fol, alb, owed, hostVars, asked, full, changes, libs,
                   scope, toBegin, entry, todo, asOf, bounds>>

runGC                    == FinalStep("gc", "artwork") /\ UNCHANGED stats
runEnqueueMissingArtwork == FinalStep("artwork", "stats") /\ UNCHANGED stats

\* RefreshStats: all artists in a full scan, else those updated after the
\* oldest last_scan_at of all libraries.
runRefreshStats ==
    /\ FinalStep("stats", "update")
    /\ stats' = [f \in Folders |->
                   IF changes /\ (full \/ alb[f].ended # Libs) THEN "fresh" ELSE stats[f]]

\* One transaction: ScanEnd for every library of the scan.
runUpdateLibraries ==
    /\ pc = "update"
    /\ lib' = [l \in Libs |->
                 IF l \in libs THEN [inProgress |-> FALSE, full |-> FALSE] ELSE lib[l]]
    /\ alb' = [f \in Folders |-> [alb[f] EXCEPT !.ended = @ \cup libs]]
    /\ EndScan
    /\ UNCHANGED <<disk, fol, stats, owed, hostVars, bounds>>

\* A later phase or a final step fails: scanFolders returns, without ScanEnd.
LaterStepFails ==
    /\ pc \in {"phase3", "update"} \cup FinalSteps /\ Fault
    /\ Orphan /\ EndScan
    /\ UNCHANGED <<disk, lib, fol, alb, owed, hostVars>>

-------------------------------------------------------------------------------
Crash ==
    /\ up /\ crashes < MaxCrashes
    /\ crashes' = crashes + 1 /\ UNCHANGED <<requests, faults>>
    /\ up' = FALSE /\ boot' = "off"
    /\ Orphan /\ EndScan
    /\ UNCHANGED <<disk, lib, fol, alb, owed, fullFlag>>

Restart ==
    /\ ~up
    /\ up' = TRUE /\ boot' = "start"
    /\ UNCHANGED <<disk, rowVars, fullFlag, pc, scanVars, bounds>>

Scanning ==
    \/ \E l \in Libs : PrepareLibrary(l)
    \/ Prepared
    \/ createPhaseFolders
    \/ \E f \in Folders : loadDir(f) \/ producerSkips(f) \/ processFolder(f) \/ persistChanges(f)
    \/ Phase1Ends
    \/ \E f \in Folders : refreshAlbum(f)
    \/ Phase3Ends
    \/ runGC \/ runEnqueueMissingArtwork \/ runRefreshStats \/ runUpdateLibraries

Failing ==
    \/ \E l \in Libs : PrepareFails(l) \/ newScanJobFails(l)
    \/ Phase1Fails
    \/ LaterStepFails

Next ==
    \/ \E f \in Folders : Edit(f)
    \/ Request \/ ScheduledScan
    \/ BootRead \/ BootScan
    \/ Scanning
    \/ Failing
    \/ Crash \/ Restart

Spec == Init /\ [][Next]_vars

\* The scanner's goroutines and the scheduler run; the process is restarted.
\* A scheduled scan is attempted again and again: between scans the lock is
\* free, but not for ever.
FairSpec ==
    /\ Spec
    /\ WF_vars(Scanning) /\ WF_vars(Restart) /\ WF_vars(BootRead) /\ WF_vars(BootScan)
    /\ SF_vars(ScheduledScan)

-------------------------------------------------------------------------------
(* Properties.                                                             *)

RowTypes ==
    /\ disk \in [Folders -> Versions]
    /\ lib \in [Libs -> [inProgress : BOOLEAN, full : BOOLEAN]]
    /\ fol \in [Folders -> [known : BOOLEAN, since : BOOLEAN, hash : Hashes,
                            content : Versions, unread : BOOLEAN]]
    /\ alb \in [Folders -> [ended : SUBSET Libs, whole : BOOLEAN]]
    /\ stats \in [Folders -> {"fresh", "stale", "orphaned"}]
    /\ asOf \in [Folders -> Versions]
    /\ owed \subseteq Folders

HostTypes ==
    /\ fullFlag \in BOOLEAN /\ up \in BOOLEAN
    /\ boot \in {"off", "start", "full", "quick", "done"}
    /\ requests \in 0..MaxRequests /\ crashes \in 0..MaxCrashes /\ faults \in 0..MaxFaults

ScanTypes ==
    /\ pc \in Steps
    /\ asked \in BOOLEAN /\ full \in BOOLEAN /\ changes \in BOOLEAN
    /\ libs \subseteq Libs /\ toBegin \subseteq libs
    /\ scope \subseteq Folders /\ todo \subseteq scope
    /\ entry \in [Folders -> Entries \cup {None}]

PhaseTypes ==
    /\ pc # "idle" => up
    /\ pc # "phase1" => todo = {} /\ \A f \in Folders : entry[f] = None

\* Every variable keeps its type; a scan holds the lock only while the
\* process runs, and entries are in the pipeline only in phase 1.
TypeOK == RowTypes /\ HostTypes /\ ScanTypes /\ PhaseTypes

\* folderEntry.isOutdated skips a folder only when nothing is left to import:
\* a stored hash that a walk would find equal belongs to tracks read from that
\* very content (or the file could not be read, and a warning says so).  The
\* files may change between loadDir, ReadTags and the hash of toFolder.
SkippedFolderIsImported ==
    \A f \in Folders :
        fol[f].known /\ ~fol[f].unread /\ fol[f].hash = Hash(disk[f], disk[f])
            => fol[f].content = disk[f]

\* When a scan completes, every folder it was asked for is imported at least
\* as it was when the scan started, whatever was interrupted before
\* (scanFolders to the end of runUpdateLibraries).  Libraries whose job failed,
\* and files that could not be read, are reported instead.
CompletedScanIsCurrent ==
    [][runUpdateLibraries =>
          \A f \in scope \cap InLibs(libs) :
              fol[f].unread \/ fol[f].content >= asOf[f]]_vars

\* An album is left incomplete only by a scan that has not ended: a scan that
\* resumes an interrupted one refreshes the albums that one imported
\* (GetTouchedAlbums compares with last_scan_at, which ScanEnd alone sets).
EndedScanLeavesAlbumsWhole ==
    \A f \in Folders : ~lib[LibOf[f]].inProgress => alb[f].whole

\* A full scan that ScanBegin recorded is not forgotten: until each of its
\* folders was imported again, or reported, full_scan_in_progress stays set
\* and the next scan of the library is a full one.
RecordedFullScanIsKept ==
    \A f \in owed : lib[LibOf[f]].full

\* A scan that runs to its end leaves no artist or tag count of its folders
\* stale (changesDetected is set by every step that writes one); what an
\* interrupted scan leaves is another matter.
UninterruptedScanRefreshesStats ==
    pc = "idle" => \A f \in Folders : stats[f] # "stale"

\* What every scan, interrupted or not, leaves behind for the next one: folders
\* that may be skipped are imported, albums of ended scans are whole, a full
\* scan once recorded stays owed, and no count is stale between scans.
ScanLeavesNoGap ==
    /\ SkippedFolderIsImported /\ EndedScanLeavesAlbumsWhole
    /\ RecordedFullScanIsKept /\ UninterruptedScanRefreshesStats

\* An interrupted scan is resumed, and some scan of the library completes.
InterruptedScanCompletes ==
    \A l \in Libs : lib[l].inProgress ~> ~lib[l].inProgress

===============================================================================
