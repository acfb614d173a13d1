------------------------------ MODULE ScanControl ------------------------------
(***************************************************************************)
(* The controller of the scanner (scanner/controller.go), the analysis of  *)
(* the database (db/optimize.go), its scheduled check (cmd/root.go) and    *)
(* the command line's own scan (cmd/scan.go), which runs in a process that *)
(* shares the database with the server and no lock.                        *)
(*                                                                         *)
(* What a scan writes is one bit: whether it changed enough for the query  *)
(* planner's statistics to be refreshed (a full scan, or the first scan of *)
(* a library).  Times are ages in units of half an hour, the period of the *)
(* check; an age of -1 is a time in the future, left by a clock set back.  *)
(***************************************************************************)
EXTENDS Integers, FiniteSets

CONSTANTS
    Callers,      \* server goroutines that ask for scans
    Libs,         \* library ids
    Requests,     \* [full, libs]; libs = {} is ScanAll
    Maintenance, NoOne,
    Day,          \* 24 hours in units of the check's period (48)
    MaxScans,     \* bound: scans accepted, of the server and the command line
    MaxFaults,    \* bound: failing statements, failing scans
    MaxCrashes    \* bound: deaths of the server or of the command line's scan,
                  \* and times the clock is set back

ScanRequests == [full : BOOLEAN, libs : SUBSET Libs]

\* For TLC: both scans of everything and a quick one of some library.
AnyScan == [full : BOOLEAN, libs : {{}}] \cup {[full |-> FALSE, libs |-> {CHOOSE l \in Libs : TRUE}]}

ASSUME ControlAssumption ==
    /\ Requests \subseteq ScanRequests
    /\ NoOne \notin Callers /\ Maintenance \notin Callers /\ NoOne # Maintenance
    /\ "cli" \notin Callers /\ Maintenance # "cli"
    /\ Day \in Nat \ {0}
    /\ MaxScans \in Nat /\ MaxFaults \in Nat /\ MaxCrashes \in Nat

VARIABLES
    running, mux,  \* the flag and the mutex of controller.go
    pc, req, eff,  \* per caller: step, request, effectiveFullScan
    failed,        \* per caller: scanError # nil
    told,          \* the last ScanStatus broadcast said Scanning
    lib,           \* [Libs -> [scanned, fullInProgress]]
    an,            \* properties: [pending, failures, attempt, last]
    maint,         \* the scheduled check: "idle", "locked", "checked", "run"
    cli,           \* the command line's scan: [pc, full, changed, failed]
    stale,         \* history: changes no successful ANALYZE has seen
    seen,          \* history: what the ANALYZE in progress saw, see Views
    lapse,         \* history: the mark of such a change failed, died or was wiped
    mute,          \* history: the final status could not be computed
    scans, faults, crashes

analysis == <<an, stale, seen, lapse>>
bounds   == <<scans, faults, crashes>>
threads  == <<pc, req, eff, failed>>
vars     == <<running, mux, threads, told, lib, analysis, maint, cli, mute, bounds>>

Never == -2
Ages  == -2..Day

Fault   == faults < MaxFaults /\ faults' = faults + 1 /\ UNCHANGED <<scans, crashes>>
NoFault == UNCHANGED bounds

NoRequest == [full |-> FALSE, libs |-> {}]
CliIdle   == [pc |-> "idle", full |-> FALSE, changed |-> FALSE, failed |-> FALSE]
Analysers == Callers \cup {Maintenance, "cli"}

\* Of the ANALYZE of one analyser: none runs, it saw every change, it missed
\* a change made in its own process, or one made in the other process.
Views == {"none", "all", "missed", "other"}

Init ==
    /\ running = FALSE /\ mux = NoOne
    /\ pc = [c \in Callers |-> "idle"]
    /\ req = [c \in Callers |-> NoRequest]
    /\ eff = [c \in Callers |-> FALSE] /\ failed = [c \in Callers |-> FALSE]
    /\ told = FALSE
    /\ lib = [l \in Libs |-> [scanned |-> FALSE, fullInProgress |-> FALSE]]
    /\ an = [pending |-> FALSE, failures |-> 0, attempt |-> Never, last |-> Never]
    /\ maint = "idle"
    /\ cli = CliIdle
    /\ stale = FALSE /\ seen = [w \in Analysers |-> "none"] /\ lapse = FALSE /\ mute = FALSE
    /\ scans = 0 /\ faults = 0 /\ crashes = 0

-------------------------------------------------------------------------------
(* db/optimize.go.  analyzeMux adds nothing: the callers of one process    *)
(* hold the scan lock or the maintenance lock.                             *)

analyzeRetryDelay(n) == IF n > 3 THEN Day ELSE 2 ^ (n - 1)

analyzeRetryBackoffActive ==
    /\ an.failures >= 1
    /\ an.attempt >= 0
    /\ an.attempt < analyzeRetryDelay(an.failures)

\* Mutant: the backoff is judged even when the attempt lies in the future.
optimizeDue_Future ==
    /\ ~(an.failures >= 1 /\ an.attempt < analyzeRetryDelay(an.failures))
    /\ an.pending \/ an.last < 0 \/ an.last >= Day

optimizeDue ==
    /\ ~analyzeRetryBackoffActive
    /\ an.pending \/ an.last < 0 \/ an.last >= Day

MarkOptimizePending(ok) == IF ok THEN [an EXCEPT !.pending = TRUE] ELSE an

recordAnalyzeSuccess(a) == [a EXCEPT !.last = 0, !.pending = FALSE, !.failures = 0]

recordAnalyzeFailure(a) == [a EXCEPT !.pending = TRUE, !.failures = @ + 1, !.attempt = 0]

\* optimizeAt up to the end of ANALYZE: it sees what is in the database now.
optimizeStarts(w) ==
    /\ an' = [an EXCEPT !.pending = TRUE]
    /\ seen' = [seen EXCEPT ![w] = "all"]
    /\ UNCHANGED <<stale, lapse>>

\* The rest of optimizeAt: success is recorded in one transaction; the record
\* of a failure may fail too, and then nothing is written.  Changes and marks of
\* the other process that fall between ANALYZE and the record are wiped by it,
\* and so is the mark of a server's scan that has not made its changes yet.
optimizeEnds(w) ==
    /\ seen' = [seen EXCEPT ![w] = "none"]
    /\ \/ /\ NoFault
          /\ an' = recordAnalyzeSuccess(an)
          /\ stale' = (stale /\ seen[w] # "all")
          /\ lapse' = \/ stale' /\ (lapse \/ seen[w] = "other")
                      \/ w = "cli" /\ \E c \in Callers : pc[c] \in {"scan", "full", "quick"}
       \/ /\ Fault /\ an' \in {recordAnalyzeFailure(an), an}
          /\ UNCHANGED <<stale, lapse>>

\* A scan changes what the statistics are about.
dataChanges(inCli) ==
    /\ stale' = TRUE
    /\ seen' = [w \in Analysers |->
                  IF seen[w] # "all" THEN seen[w]
                  ELSE IF inCli = (w = "cli") THEN "missed" ELSE "other"]

-------------------------------------------------------------------------------
(* controller.go: the lock.                                                *)

\* A second scan is refused and changes nothing.
RequestScan(c, r) ==
    /\ pc[c] = "idle" /\ ~running /\ scans < MaxScans
    /\ running' = TRUE
    /\ scans' = scans + 1
    /\ pc' = [pc EXCEPT ![c] = "wait"]
    /\ req' = [req EXCEPT ![c] = r]
    /\ UNCHANGED <<mux, eff, failed, told, lib, analysis, maint, cli, mute, faults, crashes>>

lockScan(c) ==
    /\ pc[c] = "wait" /\ mux = NoOne
    /\ mux' = c
    /\ pc' = [pc EXCEPT ![c] = "prepare"]
    /\ UNCHANGED <<running, req, eff, failed, told, lib, analysis, maint, cli, mute, bounds>>

\* release: the mutex first, the flag in a second step.
ReleaseMutex(c) ==
    /\ pc[c] = "release" /\ mux = c
    /\ mux' = NoOne
    /\ pc' = [pc EXCEPT ![c] = "clear"]
    /\ UNCHANGED <<running, req, eff, failed, told, lib, analysis, maint, cli, mute, bounds>>

\* The locals of ScanFolders.
Forget(c) ==
    /\ req' = [req EXCEPT ![c] = NoRequest]
    /\ eff' = [eff EXCEPT ![c] = FALSE] /\ failed' = [failed EXCEPT ![c] = FALSE]

ReleaseFlag(c) ==
    /\ pc[c] = "clear"
    /\ running' = FALSE
    /\ pc' = [pc EXCEPT ![c] = "idle"] /\ Forget(c)
    /\ UNCHANGED <<mux, told, lib, analysis, maint, cli, mute, bounds>>

-------------------------------------------------------------------------------
(* controller.ScanFolders                                                  *)

\* The libraries of a request; one that names none is for all.
IncludedLibraries(r) == IF r.libs = {} THEN Libs ELSE r.libs

EffectiveFullScan(r) ==
    r.full \/ \E l \in IncludedLibraries(r) : lib[l].fullInProgress

includesUnscannedLibrary(r) == \E l \in IncludedLibraries(r) : ~lib[l].scanned

\* The two reads of the libraries and the mark, any of which may fail.
Prepare(c) ==
    LET r == req[c]
        marks == EffectiveFullScan(r) \/ includesUnscannedLibrary(r)
    IN  /\ pc[c] = "prepare"
        /\ pc' = [pc EXCEPT ![c] = "scan"]
        /\ told' = TRUE /\ mute' = FALSE
        /\ \/ /\ NoFault
              /\ eff' = [eff EXCEPT ![c] = EffectiveFullScan(r)]
              /\ an' = MarkOptimizePending(marks)
              /\ UNCHANGED lapse
           \/ /\ Fault
              /\ eff' \in {eff, [eff EXCEPT ![c] = r.full], [eff EXCEPT ![c] = EffectiveFullScan(r)]}
              /\ lapse' = TRUE /\ UNCHANGED an
        /\ UNCHANGED <<running, mux, req, failed, lib, stale, seen, maint, cli>>

InScope(r, ls) == [l \in Libs |-> IF l \in IncludedLibraries(r) THEN ls ELSE lib[l]]

\* The scanner (scanner.go) promotes by its own reading of the libraries and
\* records the full scan.
ScanBegins(c) ==
    LET r == req[c]
        full == r.full \/ \E l \in IncludedLibraries(r) : lib[l].fullInProgress
    IN  /\ pc[c] = "scan"
        /\ pc' = [pc EXCEPT ![c] = IF full THEN "full" ELSE "quick"]
        /\ lib' = IF full THEN [l \in Libs |-> IF r.libs = {} \/ l \in r.libs
                                               THEN [lib[l] EXCEPT !.fullInProgress = TRUE]
                                               ELSE lib[l]]
                  ELSE lib
        /\ UNCHANGED <<running, mux, req, eff, failed, told, analysis, maint, cli, mute, bounds>>

\* A full scan, and the first scan of a library, change what the analysis is
\* about; other scans leave it to the daily run.
ScanChanges(c) ==
    /\ pc[c] = "full" \/ (pc[c] = "quick" /\ includesUnscannedLibrary(req[c]))
    /\ dataChanges(FALSE)
    /\ UNCHANGED <<running, mux, threads, told, lib, an, lapse, maint, cli, mute, bounds>>

\* trackProgress sees the channel closed: the scan ended, or reported an error.
ScanReports(c) ==
    /\ pc[c] \in {"full", "quick"}
    /\ pc' = [pc EXCEPT ![c] = "scanned"]
    /\ \/ /\ NoFault
          /\ failed' = [failed EXCEPT ![c] = FALSE]
          /\ lib' = InScope(req[c], [scanned |-> TRUE, fullInProgress |-> FALSE])
       \/ /\ Fault
          /\ failed' = [failed EXCEPT ![c] = TRUE]
          /\ UNCHANGED lib
    /\ UNCHANGED <<running, mux, req, eff, told, analysis, maint, cli, mute>>

\* The analysis after a successful full scan.
ScanOptimizes(c) ==
    /\ pc[c] = "scanned"
    /\ \/ /\ eff[c] /\ ~failed[c]
          /\ pc' = [pc EXCEPT ![c] = "analyze"]
          /\ optimizeStarts(c)
       \/ /\ ~(eff[c] /\ ~failed[c])
          /\ pc' = [pc EXCEPT ![c] = "status"]
          /\ UNCHANGED analysis
    /\ UNCHANGED <<running, mux, req, eff, failed, told, lib, maint, cli, mute, bounds>>

ScanOptimized(c) ==
    /\ pc[c] = "analyze"
    /\ pc' = [pc EXCEPT ![c] = "status"]
    /\ optimizeEnds(c)
    /\ UNCHANGED <<running, mux, req, eff, failed, told, lib, maint, cli, mute>>

\* The refresh event and the final status; when the totals cannot be read
\* nobody is told that the scan ended.
FinalStatus(c) ==
    /\ pc[c] = "status"
    /\ pc' = [pc EXCEPT ![c] = "release"]
    /\ \/ NoFault /\ told' = FALSE /\ UNCHANGED mute
       \/ Fault /\ mute' = TRUE /\ UNCHANGED told
    /\ UNCHANGED <<running, mux, req, eff, failed, lib, analysis, maint, cli>>

-------------------------------------------------------------------------------
(* LockForMaintenance and the scheduled check.                             *)

TryLock ==
    /\ maint = "idle" /\ mux = NoOne
    /\ mux' = Maintenance /\ maint' = "locked"
    /\ UNCHANGED <<running, threads, told, lib, analysis, cli, mute, bounds>>

\* Mutant: the flag of a scan that waits for the mutex is not looked at.
LockForMaintenance_NoFlag ==
    /\ maint = "locked"
    /\ maint' = "checked"
    /\ UNCHANGED <<running, mux, threads, told, lib, analysis, cli, mute, bounds>>

LockForMaintenance ==
    /\ maint = "locked"
    /\ \/ ~running /\ maint' = "checked" /\ UNCHANGED mux
       \/ running /\ maint' = "idle" /\ mux' = NoOne
    /\ UNCHANGED <<running, threads, told, lib, analysis, cli, mute, bounds>>

\* OptimizeIfNeeded; an error reading the properties ends the check.
OptimizeIfNeeded ==
    /\ maint = "checked"
    /\ \/ optimizeDue /\ NoFault /\ maint' = "run" /\ optimizeStarts(Maintenance) /\ UNCHANGED mux
       \/ /\ (~optimizeDue /\ NoFault) \/ Fault
          /\ maint' = "idle" /\ mux' = NoOne /\ UNCHANGED analysis
    /\ UNCHANGED <<running, threads, told, lib, cli, mute>>

OptimizedByCheck ==
    /\ maint = "run"
    /\ maint' = "idle" /\ mux' = NoOne
    /\ optimizeEnds(Maintenance)
    /\ UNCHANGED <<running, threads, told, lib, cli, mute>>

-------------------------------------------------------------------------------
(* cmd/scan.go: a process of its own, with its own running and mux.        *)

runScanner(full) ==
    LET r == [full |-> full, libs |-> {}]
    IN  /\ cli.pc = "idle" /\ scans < MaxScans
        /\ scans' = scans + 1
        /\ cli' = [pc |-> "scan", full |-> EffectiveFullScan(r), changed |-> FALSE, failed |-> FALSE]
        /\ an' = MarkOptimizePending(EffectiveFullScan(r))
        /\ UNCHANGED <<running, mux, threads, told, lib, stale, seen, lapse, maint, mute, faults, crashes>>

CliChanges ==
    /\ cli.pc = "scan" /\ ~cli.changed
    /\ cli' = [cli EXCEPT !.changed = TRUE]
    /\ dataChanges(TRUE)
    /\ UNCHANGED <<running, mux, threads, told, lib, an, lapse, maint, mute, bounds>>

\* Mutant: the mark before the scan is taken to be still there.
CliScanEnds_NoSecondMark ==
    /\ cli.pc = "scan"
    /\ \E err \in BOOLEAN :
          /\ IF err THEN Fault ELSE NoFault
          /\ cli' = [cli EXCEPT !.pc = "marked", !.failed = err]
    /\ UNCHANGED <<running, mux, threads, told, lib, analysis, maint, mute>>

\* trackScanInteractively returns, then runPostScanAnalysis marks.
CliScanEnds ==
    /\ cli.pc = "scan"
    /\ \E err \in BOOLEAN :
          /\ IF err THEN Fault ELSE NoFault
          /\ cli' = [cli EXCEPT !.pc = "marked", !.failed = err]
    /\ an' = IF cli.changed THEN MarkOptimizePending(TRUE) ELSE an
    /\ UNCHANGED <<running, mux, threads, told, lib, stale, seen, lapse, maint, mute>>

runPostScanAnalysis ==
    /\ cli.pc = "marked"
    /\ \/ /\ cli.full /\ ~cli.failed
          /\ cli' = [cli EXCEPT !.pc = "analyze"] /\ optimizeStarts("cli")
       \/ /\ ~(cli.full /\ ~cli.failed)
          /\ cli' = CliIdle /\ UNCHANGED analysis
    /\ UNCHANGED <<running, mux, threads, told, lib, maint, mute, bounds>>

CliOptimized ==
    /\ cli.pc = "analyze"
    /\ cli' = CliIdle
    /\ optimizeEnds("cli")
    /\ UNCHANGED <<running, mux, threads, told, lib, maint, mute>>

\* The command line's scan is killed: what it changed after the server's check
\* cleared its mark is not marked again.
CliDies ==
    /\ cli.pc # "idle" /\ crashes < MaxCrashes
    /\ crashes' = crashes + 1
    /\ cli' = CliIdle
    /\ lapse' = (lapse \/ (stale /\ ~an.pending))
    /\ UNCHANGED <<running, mux, threads, told, lib, an, stale, seen, maint, mute, scans, faults>>

-------------------------------------------------------------------------------

Crash ==
    /\ crashes < MaxCrashes /\ crashes' = crashes + 1
    /\ running' = FALSE /\ mux' = NoOne
    /\ pc' = [c \in Callers |-> "idle"] /\ maint' = "idle"
    /\ eff' = [c \in Callers |-> FALSE] /\ failed' = [c \in Callers |-> FALSE]
    /\ told' = FALSE /\ mute' = FALSE
    /\ seen' = [w \in Analysers |-> IF w = "cli" THEN seen[w] ELSE "none"]
    /\ req' = [c \in Callers |-> NoRequest]
    /\ UNCHANGED <<lib, an, stale, lapse, cli, scans, faults>>

\* A time in the future stays there: the clock may have been set back by years.
Older(age) == IF age < 0 \/ age = Day THEN age ELSE age + 1

Tick ==
    /\ an' = [an EXCEPT !.attempt = Older(@), !.last = Older(@)]
    /\ UNCHANGED <<running, mux, threads, told, lib, stale, seen, lapse, maint, cli, mute, bounds>>

SetBack(age) == IF age = Never THEN age ELSE -1

ClockSetBack ==
    /\ crashes < MaxCrashes /\ crashes' = crashes + 1
    /\ an' = [an EXCEPT !.attempt = SetBack(@), !.last = SetBack(@)]
    /\ UNCHANGED <<running, mux, threads, told, lib, stale, seen, lapse, maint, cli, mute, scans, faults>>

ScanSteps(c) ==
    \/ lockScan(c) \/ Prepare(c) \/ ScanBegins(c) \/ ScanReports(c)
    \/ ScanOptimizes(c) \/ ScanOptimized(c) \/ FinalStatus(c)
    \/ ReleaseMutex(c) \/ ReleaseFlag(c)

CheckSteps == TryLock \/ LockForMaintenance \/ OptimizeIfNeeded \/ OptimizedByCheck
CliSteps   == CliScanEnds \/ runPostScanAnalysis \/ CliOptimized

Next ==
    \/ \E c \in Callers : ScanSteps(c) \/ ScanChanges(c) \/ \E r \in Requests : RequestScan(c, r)
    \/ CheckSteps
    \/ CliSteps \/ CliChanges \/ CliDies \/ \E full \in BOOLEAN : runScanner(full)
    \/ Crash \/ Tick \/ ClockSetBack

Spec == Init /\ [][Next]_vars

\* Goroutines of the server run on, a waiter of a Go mutex is not starved, the
\* check fires again and again, and time passes.
FairSpec ==
    /\ Spec
    /\ \A c \in Callers : WF_vars(ScanSteps(c)) /\ SF_vars(lockScan(c))
    /\ SF_vars(TryLock)
    /\ WF_vars(LockForMaintenance \/ OptimizeIfNeeded \/ OptimizedByCheck)
    /\ WF_vars(CliSteps)
    /\ WF_vars(Tick)

-------------------------------------------------------------------------------
(* Properties *)

Steps == {"idle", "wait", "prepare", "scan", "full", "quick", "scanned", "analyze",
          "status", "release", "clear"}

AnalysisRecord == [pending : BOOLEAN, failures : Nat, attempt : Ages, last : Ages]
LibRecord == [scanned : BOOLEAN, fullInProgress : BOOLEAN]
CliRecord == [pc : {"idle", "scan", "marked", "analyze"}, full : BOOLEAN, changed : BOOLEAN, failed : BOOLEAN]

TypeOK ==
    /\ running \in BOOLEAN /\ mux \in Callers \cup {NoOne, Maintenance}
    /\ pc \in [Callers -> Steps] /\ req \in [Callers -> ScanRequests]
    /\ eff \in [Callers -> BOOLEAN] /\ failed \in [Callers -> BOOLEAN]
    /\ told \in BOOLEAN /\ mute \in BOOLEAN
    /\ lib \in [Libs -> LibRecord]
    /\ an \in AnalysisRecord
    /\ maint \in {"idle", "locked", "checked", "run"}
    /\ cli \in CliRecord
    /\ stale \in BOOLEAN /\ lapse \in BOOLEAN /\ seen \in [Analysers -> Views]
    /\ scans \in Nat /\ faults \in Nat /\ crashes \in Nat

\* lockScan and LockForMaintenance implement the lock of ScanLock: a caller
\* past the flag is accepted, and the mutex that maintenance holds before it
\* has looked at the flag counts for nothing.
Accepted == IF \E c \in Callers : pc[c] # "idle"
            THEN CHOOSE c \in Callers : pc[c] # "idle" ELSE NoOne

User == IF maint = "locked" THEN NoOne ELSE mux

Lock == INSTANCE ScanLock WITH accepted <- Accepted, user <- User

ImplementsScanLock == Lock!LockSpec

\* A change that calls for an analysis (a full scan, the first scan of a
\* library) is on record until an ANALYZE that saw it succeeded, whatever dies
\* or fails in between and although the command line's scan runs beside the
\* scheduled check without a lock: the mark is set before the scan, set again
\* by runPostScanAnalysis, and only cleared under the lock.
AnalysisOwed == stale => an.pending \/ lapse \/ cli.pc = "scan"

\* Clients that were told a scan runs are told when it ends, also when it
\* failed, unless the totals of the final event cannot be read.
ClientsLearnOfTheEnd == told => mute \/ \E c \in Callers : pc[c] \notin {"idle", "wait", "release", "clear"}

\* Whatever ends a scan or dies with it, what it leaves to be done is on record
\* and the clients that watch it are told.
ScanIsAccountedFor == AnalysisOwed /\ ClientsLearnOfTheEnd

\* The analysis happens: retries back off but never for good, not even when
\* the clock was set back under the recorded times.
AnalysisHappens == an.pending ~> ~an.pending

\* An accepted scan gets its turn and gives the lock back; with the check's
\* two-step lock neither waits for the other for ever.
ScanEnds == running ~> ~running

\* Nobody waits for ever: an accepted scan ends and gives the lock back, and an
\* analysis that is owed is made.
ScanAndAnalysisEnd == ScanEnds /\ AnalysisHappens
===============================================================================
