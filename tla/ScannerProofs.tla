---------------------------- MODULE ScannerProofs ----------------------------
(***************************************************************************)
(* Proofs about ScanControl: the two-step lock of the controller is the    *)
(* lock of ScanLock, and no scan ends, fails or dies without leaving on    *)
(* record what it owes; and about PersistentIds: the ids that a scan       *)
(* computes tell songs and albums apart, and stay with them.               *)
(***************************************************************************)
EXTENDS ScanControl, PersistentIds, WellFoundedInduction, TLAPS

\* The steps between lockScan and the release of the mutex.
Holding == Steps \ {"idle", "wait", "clear"}

\* The flag is up exactly while one caller is past it, and the mutex is held
\* exactly by the caller in those steps or by the scheduled check.
LockInv ==
    /\ \A c, d \in Callers : pc[c] # "idle" /\ pc[d] # "idle" => c = d
    /\ running <=> \E c \in Callers : pc[c] # "idle"
    /\ \A c \in Callers : mux = c <=> pc[c] \in Holding
    /\ mux = Maintenance <=> maint # "idle"

\* An ANALYZE that runs saw every change of its own process: under the lock of
\* the server nobody else scans, and the command line analyses after its scan.
SeenInv ==
    /\ \A c \in Callers : pc[c] = "analyze" => seen[c] \in {"all", "other"}
    /\ maint = "run" => seen[Maintenance] \in {"all", "other"}
    /\ cli.pc = "analyze" => seen["cli"] \in {"all", "other"}

\* A scan that will change what the statistics are about has its mark.
MarkInv ==
    \A c \in Callers :
        \/ pc[c] = "scan" /\ (EffectiveFullScan(req[c]) \/ includesUnscannedLibrary(req[c]))
        \/ pc[c] = "full"
        \/ pc[c] = "quick" /\ includesUnscannedLibrary(req[c])
        => an.pending \/ lapse

\* AnalysisOwed, with what the command line's scan will mark when it ends.
OwedInv == stale => an.pending \/ lapse \/ (cli.pc = "scan" /\ cli.changed)

IInv == TypeOK /\ LockInv /\ SeenInv /\ MarkInv /\ OwedInv /\ ClientsLearnOfTheEnd

-------------------------------------------------------------------------------
(* Type correctness.                                                         *)

\* What is written to the properties is of their type.
LEMMA AnalysisTypes ==
    ASSUME NEW a \in AnalysisRecord
    PROVE  /\ [a EXCEPT !.pending = TRUE] \in AnalysisRecord
           /\ recordAnalyzeSuccess(a) \in AnalysisRecord
           /\ recordAnalyzeFailure(a) \in AnalysisRecord
           /\ [a EXCEPT !.attempt = Older(@), !.last = Older(@)] \in AnalysisRecord
           /\ [a EXCEPT !.attempt = SetBack(@), !.last = SetBack(@)] \in AnalysisRecord
  <1>1. [a EXCEPT !.pending = TRUE] \in AnalysisRecord
    BY DEF AnalysisRecord
  <1>2. 0 \in Ages /\ a.failures + 1 \in Nat
    BY ControlAssumption DEF Ages, AnalysisRecord
  <1>3. recordAnalyzeSuccess(a) \in AnalysisRecord
    BY <1>2 DEF recordAnalyzeSuccess, AnalysisRecord
  <1>4. recordAnalyzeFailure(a) \in AnalysisRecord
    BY <1>2 DEF recordAnalyzeFailure, AnalysisRecord
  <1>5. \A x \in Ages : Older(x) \in Ages /\ SetBack(x) \in Ages
    BY ControlAssumption DEF Older, SetBack, Never, Ages
  <1>6. [a EXCEPT !.attempt = Older(@), !.last = Older(@)] \in AnalysisRecord
    BY <1>5 DEF AnalysisRecord
  <1>7. [a EXCEPT !.attempt = SetBack(@), !.last = SetBack(@)] \in AnalysisRecord
    BY <1>5 DEF AnalysisRecord
  <1> QED
    BY <1>1, <1>3, <1>4, <1>6, <1>7

\* The counters of the bounds, whether a fault happens or not.
LEMMA BoundsTypes ==
    ASSUME TypeOK, Fault \/ NoFault
    PROVE  scans' \in Nat /\ faults' \in Nat /\ crashes' \in Nat
  BY DEF Fault, NoFault, bounds, TypeOK

\* The optimiser writes such a record and a view of each analyser.
LEMMA OptimizeTypes ==
    ASSUME TypeOK, NEW w \in Analysers, optimizeStarts(w) \/ optimizeEnds(w)
    PROVE  an' \in AnalysisRecord /\ seen' \in [Analysers -> Views] /\ stale' \in BOOLEAN /\ lapse' \in BOOLEAN
  <1>1. CASE optimizeStarts(w)
    BY <1>1, AnalysisTypes DEF optimizeStarts, TypeOK, Views
  <1>2. CASE optimizeEnds(w)
    <2>1. an' \in AnalysisRecord
      BY <1>2, AnalysisTypes DEF optimizeEnds, TypeOK
    <2>2. seen' \in [Analysers -> Views]
      BY <1>2 DEF optimizeEnds, TypeOK, Views
    <2>3. stale' \in BOOLEAN /\ lapse' \in BOOLEAN
      BY <1>2, Zenon DEF optimizeEnds, TypeOK
    <2> QED
      BY <2>1, <2>2, <2>3
  <1> QED
    BY <1>1, <1>2

\* No step leaves the types: ages stay between Never and a day.
LEMMA TypeStep ==
    ASSUME TypeOK, [Next]_vars
    PROVE  TypeOK'
  <1> USE DEF TypeOK, Steps, Analysers, vars, threads, analysis, bounds
  <1>1. ASSUME NEW c \in Callers, NEW r \in Requests, RequestScan(c, r) PROVE TypeOK'
    <2>1. scans' \in Nat
      BY <1>1 DEF RequestScan
    <2>2. req' \in [Callers -> ScanRequests]
      BY <1>1, ControlAssumption DEF RequestScan
    <2> QED
      BY <1>1, <2>1, <2>2 DEF RequestScan
  <1>2. ASSUME NEW c \in Callers, lockScan(c) PROVE TypeOK'
    BY <1>2 DEF lockScan
  <1>3. ASSUME NEW c \in Callers, Prepare(c) PROVE TypeOK'
    <2>1. Fault \/ NoFault
      BY <1>3 DEF Prepare
    <2>2. scans' \in Nat /\ faults' \in Nat /\ crashes' \in Nat
      BY <2>1, BoundsTypes
    <2>3. EffectiveFullScan(req[c]) \in BOOLEAN /\ req[c].full \in BOOLEAN
      BY DEF EffectiveFullScan, ScanRequests
    <2>4. eff' \in [Callers -> BOOLEAN]
      BY <1>3, <2>3 DEF Prepare
    <2>5. an' \in AnalysisRecord /\ lapse' \in BOOLEAN
      BY <1>3, AnalysisTypes DEF Prepare, MarkOptimizePending
    <2> QED
      BY <1>3, <2>2, <2>4, <2>5 DEF Prepare
  <1>4. ASSUME NEW c \in Callers, ScanBegins(c) PROVE TypeOK'
    BY <1>4 DEF ScanBegins, LibRecord
  <1>5. ASSUME NEW c \in Callers, ScanChanges(c) PROVE TypeOK'
    BY <1>5 DEF ScanChanges, dataChanges, Views
  <1>6. ASSUME NEW c \in Callers, ScanReports(c) PROVE TypeOK'
    <2>1. Fault \/ NoFault
      BY <1>6 DEF ScanReports
    <2>2. scans' \in Nat /\ faults' \in Nat /\ crashes' \in Nat
      BY <2>1, BoundsTypes
    <2>3. [scanned |-> TRUE, fullInProgress |-> FALSE] \in LibRecord
      BY DEF LibRecord
    <2>4. lib' = lib \/ lib' = InScope(req[c], [scanned |-> TRUE, fullInProgress |-> FALSE])
      BY <1>6 DEF ScanReports
    <2>5. lib' \in [Libs -> LibRecord]
      BY <2>3, <2>4 DEF InScope
    <2> QED
      BY <1>6, <2>2, <2>5 DEF ScanReports
  <1>7. ASSUME NEW c \in Callers, ScanOptimizes(c) PROVE TypeOK'
    <2>1. CASE UNCHANGED analysis
      BY <1>7, <2>1 DEF ScanOptimizes
    <2>2. CASE optimizeStarts(c)
      BY <1>7, <2>2, OptimizeTypes DEF ScanOptimizes
    <2> QED
      BY <1>7, <2>1, <2>2 DEF ScanOptimizes
  <1>8. ASSUME NEW c \in Callers, ScanOptimized(c) PROVE TypeOK'
    <2>1. Fault \/ NoFault
      BY <1>8 DEF ScanOptimized, optimizeEnds
    <2>2. scans' \in Nat /\ faults' \in Nat /\ crashes' \in Nat
      BY <2>1, BoundsTypes
    <2> QED
      BY <1>8, <2>2, OptimizeTypes DEF ScanOptimized
  <1>9. ASSUME NEW c \in Callers, FinalStatus(c) PROVE TypeOK'
    <2>1. Fault \/ NoFault
      BY <1>9 DEF FinalStatus
    <2>2. scans' \in Nat /\ faults' \in Nat /\ crashes' \in Nat
      BY <2>1, BoundsTypes
    <2> QED
      BY <1>9, <2>2 DEF FinalStatus
  <1>10. ASSUME NEW c \in Callers, ReleaseMutex(c) PROVE TypeOK'
    BY <1>10 DEF ReleaseMutex
  <1>11. ASSUME NEW c \in Callers, ReleaseFlag(c) PROVE TypeOK'
    BY <1>11 DEF ReleaseFlag, Forget, NoRequest, ScanRequests
  <1>12. ASSUME NEW full \in BOOLEAN, runScanner(full) PROVE TypeOK'
    <2>1. EffectiveFullScan([full |-> full, libs |-> {}]) \in BOOLEAN
      BY DEF EffectiveFullScan
    <2>2. scans' \in Nat
      BY <1>12 DEF runScanner
    <2>3. cli' \in CliRecord
      BY <1>12, <2>1 DEF runScanner, CliRecord
    <2>4. an' \in AnalysisRecord
      BY <1>12, AnalysisTypes DEF runScanner, MarkOptimizePending
    <2> QED
      BY <1>12, <2>2, <2>3, <2>4 DEF runScanner
  <1>13. CASE TryLock
    BY <1>13 DEF TryLock
  <1>14. CASE LockForMaintenance
    BY <1>14 DEF LockForMaintenance
  <1>15. CASE OptimizeIfNeeded
    <2>1. Fault \/ NoFault
      BY <1>15 DEF OptimizeIfNeeded
    <2>2. scans' \in Nat /\ faults' \in Nat /\ crashes' \in Nat
      BY <2>1, BoundsTypes
    <2>3. CASE UNCHANGED analysis
      BY <1>15, <2>2, <2>3 DEF OptimizeIfNeeded
    <2>4. CASE optimizeStarts(Maintenance)
      BY <1>15, <2>2, <2>4, OptimizeTypes DEF OptimizeIfNeeded
    <2> QED
      BY <1>15, <2>3, <2>4 DEF OptimizeIfNeeded
  <1>16. CASE OptimizedByCheck
    <2>1. Fault \/ NoFault
      BY <1>16 DEF OptimizedByCheck, optimizeEnds
    <2>2. scans' \in Nat /\ faults' \in Nat /\ crashes' \in Nat
      BY <2>1, BoundsTypes
    <2> QED
      BY <1>16, <2>2, OptimizeTypes DEF OptimizedByCheck
  <1>17. CASE CliChanges
    BY <1>17 DEF CliChanges, dataChanges, Views, CliRecord
  <1>18. CASE CliScanEnds
    <2>1. Fault \/ NoFault
      BY <1>18 DEF CliScanEnds
    <2>2. scans' \in Nat /\ faults' \in Nat /\ crashes' \in Nat
      BY <2>1, BoundsTypes
    <2>3. an' \in AnalysisRecord
      BY <1>18, AnalysisTypes DEF CliScanEnds, MarkOptimizePending
    <2>4. PICK err \in BOOLEAN : cli' = [cli EXCEPT !.pc = "marked", !.failed = err]
      BY <1>18 DEF CliScanEnds
    <2>5. cli' \in CliRecord
      BY <2>4 DEF CliRecord
    <2> QED
      BY <1>18, <2>2, <2>3, <2>5 DEF CliScanEnds
  <1>19. CASE runPostScanAnalysis
    <2>0. cli' = CliIdle \/ cli' = [cli EXCEPT !.pc = "analyze"]
      BY <1>19 DEF runPostScanAnalysis
    <2>4. CliIdle \in CliRecord
      BY DEF CliIdle, CliRecord
    <2>5. [cli EXCEPT !.pc = "analyze"] \in CliRecord
      BY DEF CliRecord
    <2>1. cli' \in CliRecord
      BY <2>0, <2>4, <2>5
    <2>2. CASE UNCHANGED analysis
      BY <1>19, <2>1, <2>2 DEF runPostScanAnalysis
    <2>3. CASE optimizeStarts("cli")
      BY <1>19, <2>1, <2>3, OptimizeTypes DEF runPostScanAnalysis
    <2> QED
      BY <1>19, <2>2, <2>3 DEF runPostScanAnalysis
  <1>20. CASE CliOptimized
    <2>1. Fault \/ NoFault
      BY <1>20 DEF CliOptimized, optimizeEnds
    <2>2. scans' \in Nat /\ faults' \in Nat /\ crashes' \in Nat
      BY <2>1, BoundsTypes
    <2>3. cli' \in CliRecord
      BY <1>20 DEF CliOptimized, CliIdle, CliRecord
    <2> QED
      BY <1>20, <2>2, <2>3, OptimizeTypes DEF CliOptimized
  <1>21. CASE CliDies
    <2>1. crashes' \in Nat
      BY <1>21 DEF CliDies
    <2>2. cli' \in CliRecord
      BY <1>21 DEF CliDies, CliIdle, CliRecord
    <2>3. lapse' \in BOOLEAN
      BY <1>21 DEF CliDies
    <2> QED
      BY <1>21, <2>1, <2>2, <2>3 DEF CliDies
  <1>22. CASE Crash
    <2>1. crashes' \in Nat
      BY <1>22 DEF Crash
    <2>2. req' \in [Callers -> ScanRequests] /\ pc' \in [Callers -> Steps]
      BY <1>22 DEF Crash, NoRequest, ScanRequests
    <2>3. seen' \in [Analysers -> Views]
      BY <1>22 DEF Crash, Views
    <2> QED
      BY <1>22, <2>1, <2>2, <2>3 DEF Crash
  <1>23. CASE Tick
    BY <1>23, AnalysisTypes DEF Tick
  <1>24. CASE ClockSetBack
    <2>1. crashes' \in Nat
      BY <1>24 DEF ClockSetBack
    <2> QED
      BY <1>24, <2>1, AnalysisTypes DEF ClockSetBack
  <1>25. CASE UNCHANGED vars
    BY <1>25
  <1> QED
    BY <1>1, <1>2, <1>3, <1>4, <1>5, <1>6, <1>7, <1>8, <1>9, <1>10, <1>11, <1>12, <1>13, <1>14, <1>15, <1>16, <1>17, <1>18, <1>19, <1>20, <1>21, <1>22, <1>23, <1>24, <1>25
       DEF Next, ScanSteps, CheckSteps, CliSteps

-------------------------------------------------------------------------------
(* The lock.                                                                 *)

\* One caller is past the flag, and the mutex is whose turn it is.
LEMMA LockStep ==
    ASSUME TypeOK, LockInv, [Next]_vars
    PROVE  LockInv'
  <1> USE ControlAssumption DEF LockInv, TypeOK, Holding, Steps, vars, threads, analysis, bounds
  <1>1. ASSUME NEW c \in Callers, NEW r \in Requests, RequestScan(c, r) PROVE LockInv'
    BY <1>1 DEF RequestScan
  <1>2. ASSUME NEW c \in Callers, lockScan(c) PROVE LockInv'
    BY <1>2 DEF lockScan
  <1>3. ASSUME NEW c \in Callers, Prepare(c) PROVE LockInv'
    BY <1>3 DEF Prepare
  <1>4. ASSUME NEW c \in Callers, ScanBegins(c) PROVE LockInv'
    BY <1>4 DEF ScanBegins
  <1>5. ASSUME NEW c \in Callers, ScanChanges(c) PROVE LockInv'
    BY <1>5 DEF ScanChanges
  <1>6. ASSUME NEW c \in Callers, ScanReports(c) PROVE LockInv'
    BY <1>6 DEF ScanReports
  <1>7. ASSUME NEW c \in Callers, ScanOptimizes(c) PROVE LockInv'
    BY <1>7 DEF ScanOptimizes
  <1>8. ASSUME NEW c \in Callers, ScanOptimized(c) PROVE LockInv'
    BY <1>8 DEF ScanOptimized
  <1>9. ASSUME NEW c \in Callers, FinalStatus(c) PROVE LockInv'
    BY <1>9 DEF FinalStatus
  <1>10. ASSUME NEW c \in Callers, ReleaseMutex(c) PROVE LockInv'
    BY <1>10 DEF ReleaseMutex
  <1>11. ASSUME NEW c \in Callers, ReleaseFlag(c) PROVE LockInv'
    BY <1>11 DEF ReleaseFlag
  <1>12. ASSUME NEW full \in BOOLEAN, runScanner(full) PROVE LockInv'
    BY <1>12 DEF runScanner
  <1>13. CASE TryLock
    BY <1>13 DEF TryLock
  <1>14. CASE LockForMaintenance
    BY <1>14 DEF LockForMaintenance
  <1>15. CASE OptimizeIfNeeded
    BY <1>15 DEF OptimizeIfNeeded
  <1>16. CASE OptimizedByCheck
    BY <1>16 DEF OptimizedByCheck
  <1>17. CASE CliChanges
    BY <1>17 DEF CliChanges
  <1>18. CASE CliScanEnds
    BY <1>18 DEF CliScanEnds
  <1>19. CASE runPostScanAnalysis
    BY <1>19 DEF runPostScanAnalysis
  <1>20. CASE CliOptimized
    BY <1>20 DEF CliOptimized
  <1>21. CASE CliDies
    BY <1>21 DEF CliDies
  <1>22. CASE Crash
    BY <1>22 DEF Crash
  <1>23. CASE Tick
    BY <1>23 DEF Tick
  <1>24. CASE ClockSetBack
    BY <1>24 DEF ClockSetBack
  <1>25. CASE UNCHANGED vars
    BY <1>25
  <1> QED
    BY <1>1, <1>2, <1>3, <1>4, <1>5, <1>6, <1>7, <1>8, <1>9, <1>10, <1>11, <1>12, <1>13, <1>14, <1>15, <1>16, <1>17, <1>18, <1>19, <1>20, <1>21, <1>22, <1>23, <1>24, <1>25
       DEF Next, ScanSteps, CheckSteps, CliSteps

-------------------------------------------------------------------------------
(* What a scan owes.                                                         *)

\* What the ANALYZE that runs has seen.
LEMMA SeenStep ==
    ASSUME TypeOK, TypeOK', LockInv, SeenInv, [Next]_vars
    PROVE  SeenInv'
  <1> USE ControlAssumption DEF SeenInv, LockInv, TypeOK, Holding, Steps, Views, Analysers, vars, threads, analysis, bounds
  <1>1. ASSUME NEW c \in Callers, NEW r \in Requests, RequestScan(c, r) PROVE SeenInv'
    BY <1>1 DEF RequestScan
  <1>2. ASSUME NEW c \in Callers, lockScan(c) PROVE SeenInv'
    BY <1>2 DEF lockScan
  <1>3. ASSUME NEW c \in Callers, Prepare(c) PROVE SeenInv'
    BY <1>3 DEF Prepare
  <1>4. ASSUME NEW c \in Callers, ScanBegins(c) PROVE SeenInv'
    BY <1>4 DEF ScanBegins
  <1>5. ASSUME NEW c \in Callers, ScanChanges(c) PROVE SeenInv'
    BY <1>5 DEF ScanChanges, dataChanges
  <1>6. ASSUME NEW c \in Callers, ScanReports(c) PROVE SeenInv'
    BY <1>6 DEF ScanReports
  <1>7. ASSUME NEW c \in Callers, ScanOptimizes(c) PROVE SeenInv'
    BY <1>7 DEF ScanOptimizes, optimizeStarts
  <1>8. ASSUME NEW c \in Callers, ScanOptimized(c) PROVE SeenInv'
    BY <1>8 DEF ScanOptimized, optimizeEnds
  <1>9. ASSUME NEW c \in Callers, FinalStatus(c) PROVE SeenInv'
    BY <1>9 DEF FinalStatus
  <1>10. ASSUME NEW c \in Callers, ReleaseMutex(c) PROVE SeenInv'
    BY <1>10 DEF ReleaseMutex
  <1>11. ASSUME NEW c \in Callers, ReleaseFlag(c) PROVE SeenInv'
    BY <1>11 DEF ReleaseFlag
  <1>12. ASSUME NEW full \in BOOLEAN, runScanner(full) PROVE SeenInv'
    BY <1>12 DEF runScanner
  <1>13. CASE TryLock
    BY <1>13 DEF TryLock
  <1>14. CASE LockForMaintenance
    BY <1>14 DEF LockForMaintenance
  <1>15. CASE OptimizeIfNeeded
    BY <1>15 DEF OptimizeIfNeeded, optimizeStarts
  <1>16. CASE OptimizedByCheck
    BY <1>16 DEF OptimizedByCheck, optimizeEnds
  <1>17. CASE CliChanges
    BY <1>17 DEF CliChanges, dataChanges
  <1>18. CASE CliScanEnds
    BY <1>18 DEF CliScanEnds
  <1>19. CASE runPostScanAnalysis
    BY <1>19 DEF runPostScanAnalysis, optimizeStarts, CliIdle
  <1>20. CASE CliOptimized
    BY <1>20 DEF CliOptimized, optimizeEnds, CliIdle
  <1>21. CASE CliDies
    BY <1>21 DEF CliDies, CliIdle
  <1>22. CASE Crash
    BY <1>22 DEF Crash
  <1>23. CASE Tick
    BY <1>23 DEF Tick
  <1>24. CASE ClockSetBack
    BY <1>24 DEF ClockSetBack
  <1>25. CASE UNCHANGED vars
    BY <1>25
  <1> QED
    BY <1>1, <1>2, <1>3, <1>4, <1>5, <1>6, <1>7, <1>8, <1>9, <1>10, <1>11, <1>12, <1>13, <1>14, <1>15, <1>16, <1>17, <1>18, <1>19, <1>20, <1>21, <1>22, <1>23, <1>24, <1>25
       DEF Next, ScanSteps, CheckSteps, CliSteps
\* An ANALYZE that ends wipes a mark only with what it saw, or leaves a lapse.
LEMMA EndsOwed ==
    ASSUME TypeOK, OwedInv, NEW w \in Analysers, seen[w] \in {"all", "other"}, optimizeEnds(w)
    PROVE  stale' => an'.pending \/ lapse' \/ (cli.pc = "scan" /\ cli.changed)
  <1>1. CASE UNCHANGED <<stale, lapse>> /\ an' \in {recordAnalyzeFailure(an), an}
    <2>1. recordAnalyzeFailure(an).pending = TRUE
      BY DEF recordAnalyzeFailure, TypeOK, AnalysisRecord
    <2> QED
      BY <1>1, <2>1 DEF OwedInv
  <1>2. CASE /\ stale' = (stale /\ seen[w] # "all")
             /\ lapse' = \/ stale' /\ (lapse \/ seen[w] = "other")
                         \/ w = "cli" /\ \E c \in Callers : pc[c] \in {"scan", "full", "quick"}
    BY <1>2, Zenon
  <1> QED
    BY <1>1, <1>2 DEF optimizeEnds

\* The command line's ANALYZE beside a scan of the server leaves its mark or a lapse.
LEMMA EndsMarked ==
    ASSUME TypeOK, NEW c \in Callers, pc[c] \in {"scan", "full", "quick"}, an.pending \/ lapse, optimizeEnds("cli")
    PROVE  an'.pending \/ lapse'
  <1>1. CASE UNCHANGED <<stale, lapse>> /\ an' \in {recordAnalyzeFailure(an), an}
    <2>1. recordAnalyzeFailure(an).pending = TRUE
      BY DEF recordAnalyzeFailure, TypeOK, AnalysisRecord
    <2> QED
      BY <1>1, <2>1
  <1>2. CASE lapse' = \/ stale' /\ (lapse \/ seen["cli"] = "other")
                      \/ "cli" = "cli" /\ \E d \in Callers : pc[d] \in {"scan", "full", "quick"}
    BY <1>2, Zenon
  <1> QED
    BY <1>1, <1>2 DEF optimizeEnds

\* The mark of a scan is not wiped before its changes: the lock keeps the
\* analyses of the server out, and one of the command line leaves a lapse.
LEMMA MarkStep ==
    ASSUME TypeOK, TypeOK', LockInv, MarkInv, [Next]_vars
    PROVE  MarkInv'
  <1> USE ControlAssumption DEF MarkInv, LockInv, TypeOK, AnalysisRecord, LibRecord, Holding, Steps, EffectiveFullScan, includesUnscannedLibrary, IncludedLibraries, vars, threads, analysis, bounds
  <1>1. ASSUME NEW c \in Callers, NEW r \in Requests, RequestScan(c, r) PROVE MarkInv'
    BY <1>1 DEF RequestScan
  <1>2. ASSUME NEW c \in Callers, lockScan(c) PROVE MarkInv'
    BY <1>2 DEF lockScan
  <1>3. ASSUME NEW c \in Callers, Prepare(c) PROVE MarkInv'
    BY <1>3 DEF Prepare, MarkOptimizePending
  <1>4. ASSUME NEW c \in Callers, ScanBegins(c) PROVE MarkInv'
    <2>1. \A d \in Callers : pc[d] \in {"scan", "full", "quick"} => d = c
      BY <1>4 DEF ScanBegins
    <2>2. UNCHANGED <<req, an, lapse>> /\ \A d \in Callers \ {c} : pc'[d] = pc[d]
      BY <1>4 DEF ScanBegins
    <2>3. CASE EffectiveFullScan(req[c])
      BY <1>4, <2>1, <2>2, <2>3 DEF ScanBegins
    <2>4. CASE ~EffectiveFullScan(req[c])
      <3>1. pc'[c] = "quick" /\ UNCHANGED lib
        BY <1>4, <2>4 DEF ScanBegins
      <3>2. \A d \in Callers \ {c} : pc'[d] \notin {"scan", "full", "quick"}
        BY <2>1, <2>2
      <3>3. includesUnscannedLibrary(req[c])' => an.pending \/ lapse
        BY <1>4, <2>2, <3>1 DEF ScanBegins
      <3> QED
        BY <2>2, <3>1, <3>2, <3>3
    <2> QED
      BY <2>3, <2>4
  <1>5. ASSUME NEW c \in Callers, ScanChanges(c) PROVE MarkInv'
    BY <1>5 DEF ScanChanges
  <1>6. ASSUME NEW c \in Callers, ScanReports(c) PROVE MarkInv'
    BY <1>6 DEF ScanReports, InScope
  <1>7. ASSUME NEW c \in Callers, ScanOptimizes(c) PROVE MarkInv'
    BY <1>7 DEF ScanOptimizes, optimizeStarts
  <1>8. ASSUME NEW c \in Callers, ScanOptimized(c) PROVE MarkInv'
    BY <1>8 DEF ScanOptimized, optimizeEnds
  <1>9. ASSUME NEW c \in Callers, FinalStatus(c) PROVE MarkInv'
    BY <1>9 DEF FinalStatus
  <1>10. ASSUME NEW c \in Callers, ReleaseMutex(c) PROVE MarkInv'
    BY <1>10 DEF ReleaseMutex
  <1>11. ASSUME NEW c \in Callers, ReleaseFlag(c) PROVE MarkInv'
    BY <1>11 DEF ReleaseFlag, Forget
  <1>12. ASSUME NEW full \in BOOLEAN, runScanner(full) PROVE MarkInv'
    BY <1>12 DEF runScanner, MarkOptimizePending
  <1>13. CASE TryLock
    BY <1>13 DEF TryLock
  <1>14. CASE LockForMaintenance
    BY <1>14 DEF LockForMaintenance
  <1>15. CASE OptimizeIfNeeded
    BY <1>15 DEF OptimizeIfNeeded, optimizeStarts
  <1>16. CASE OptimizedByCheck
    BY <1>16 DEF OptimizedByCheck, optimizeEnds
  <1>17. CASE CliChanges
    BY <1>17 DEF CliChanges
  <1>18. CASE CliScanEnds
    BY <1>18 DEF CliScanEnds, MarkOptimizePending
  <1>19. CASE runPostScanAnalysis
    BY <1>19 DEF runPostScanAnalysis, optimizeStarts
  <1>20. CASE CliOptimized
    <2>1. UNCHANGED <<pc, req, lib>>
      BY <1>20 DEF CliOptimized
    <2>2. ASSUME NEW c \in Callers, pc[c] \in {"scan", "full", "quick"}, an.pending \/ lapse
          PROVE  an'.pending \/ lapse'
      BY <1>20, <2>2, EndsMarked DEF CliOptimized
    <2> QED
      BY <2>1, <2>2
  <1>21. CASE CliDies
    BY <1>21 DEF CliDies
  <1>22. CASE Crash
    BY <1>22 DEF Crash
  <1>23. CASE Tick
    BY <1>23 DEF Tick
  <1>24. CASE ClockSetBack
    BY <1>24 DEF ClockSetBack
  <1>25. CASE UNCHANGED vars
    BY <1>25
  <1> QED
    BY <1>1, <1>2, <1>3, <1>4, <1>5, <1>6, <1>7, <1>8, <1>9, <1>10, <1>11, <1>12, <1>13, <1>14, <1>15, <1>16, <1>17, <1>18, <1>19, <1>20, <1>21, <1>22, <1>23, <1>24, <1>25
       DEF Next, ScanSteps, CheckSteps, CliSteps

\* A change that no successful ANALYZE has seen stays on record.
LEMMA OwedStep ==
    ASSUME TypeOK, TypeOK', SeenInv, MarkInv, OwedInv, [Next]_vars
    PROVE  OwedInv'
  <1> USE ControlAssumption DEF OwedInv, SeenInv, TypeOK, AnalysisRecord, CliRecord, Views, vars, threads, analysis, bounds
  <1>1. ASSUME NEW c \in Callers, NEW r \in Requests, RequestScan(c, r) PROVE OwedInv'
    BY <1>1 DEF RequestScan
  <1>2. ASSUME NEW c \in Callers, lockScan(c) PROVE OwedInv'
    BY <1>2 DEF lockScan
  <1>3. ASSUME NEW c \in Callers, Prepare(c) PROVE OwedInv'
    BY <1>3 DEF Prepare, MarkOptimizePending
  <1>4. ASSUME NEW c \in Callers, ScanBegins(c) PROVE OwedInv'
    BY <1>4 DEF ScanBegins
  <1>5. ASSUME NEW c \in Callers, ScanChanges(c) PROVE OwedInv'
    BY <1>5 DEF ScanChanges, dataChanges, MarkInv
  <1>6. ASSUME NEW c \in Callers, ScanReports(c) PROVE OwedInv'
    BY <1>6 DEF ScanReports
  <1>7. ASSUME NEW c \in Callers, ScanOptimizes(c) PROVE OwedInv'
    BY <1>7 DEF ScanOptimizes, optimizeStarts
  <1>8. ASSUME NEW c \in Callers, ScanOptimized(c) PROVE OwedInv'
    <2>1. seen[c] \in {"all", "other"} /\ optimizeEnds(c) /\ UNCHANGED cli
      BY <1>8 DEF ScanOptimized
    <2> QED
      BY <2>1, EndsOwed DEF Analysers
  <1>9. ASSUME NEW c \in Callers, FinalStatus(c) PROVE OwedInv'
    BY <1>9 DEF FinalStatus
  <1>10. ASSUME NEW c \in Callers, ReleaseMutex(c) PROVE OwedInv'
    BY <1>10 DEF ReleaseMutex
  <1>11. ASSUME NEW c \in Callers, ReleaseFlag(c) PROVE OwedInv'
    BY <1>11 DEF ReleaseFlag
  <1>12. ASSUME NEW full \in BOOLEAN, runScanner(full) PROVE OwedInv'
    BY <1>12 DEF runScanner, MarkOptimizePending
  <1>13. CASE TryLock
    BY <1>13 DEF TryLock
  <1>14. CASE LockForMaintenance
    BY <1>14 DEF LockForMaintenance
  <1>15. CASE OptimizeIfNeeded
    BY <1>15 DEF OptimizeIfNeeded, optimizeStarts
  <1>16. CASE OptimizedByCheck
    <2>1. seen[Maintenance] \in {"all", "other"} /\ optimizeEnds(Maintenance) /\ UNCHANGED cli
      BY <1>16 DEF OptimizedByCheck
    <2> QED
      BY <2>1, EndsOwed DEF Analysers
  <1>17. CASE CliChanges
    BY <1>17 DEF CliChanges, dataChanges
  <1>18. CASE CliScanEnds
    BY <1>18 DEF CliScanEnds, MarkOptimizePending
  <1>19. CASE runPostScanAnalysis
    BY <1>19 DEF runPostScanAnalysis, optimizeStarts
  <1>20. CASE CliOptimized
    <2>1. seen["cli"] \in {"all", "other"} /\ optimizeEnds("cli") /\ cli.pc = "analyze"
      BY <1>20 DEF CliOptimized
    <2> QED
      BY <2>1, EndsOwed DEF Analysers
  <1>21. CASE CliDies
    BY <1>21 DEF CliDies
  <1>22. CASE Crash
    BY <1>22 DEF Crash
  <1>23. CASE Tick
    BY <1>23 DEF Tick
  <1>24. CASE ClockSetBack
    BY <1>24 DEF ClockSetBack
  <1>25. CASE UNCHANGED vars
    BY <1>25
  <1> QED
    BY <1>1, <1>2, <1>3, <1>4, <1>5, <1>6, <1>7, <1>8, <1>9, <1>10, <1>11, <1>12, <1>13, <1>14, <1>15, <1>16, <1>17, <1>18, <1>19, <1>20, <1>21, <1>22, <1>23, <1>24, <1>25
       DEF Next, ScanSteps, CheckSteps, CliSteps

\* The last status says so only while a scan is between its first and its last.
LEMMA ClientsStep ==
    ASSUME TypeOK, LockInv, ClientsLearnOfTheEnd, [Next]_vars
    PROVE  ClientsLearnOfTheEnd'
  <1> USE ControlAssumption DEF ClientsLearnOfTheEnd, LockInv, TypeOK, Steps, vars, threads, analysis, bounds
  <1>1. ASSUME NEW c \in Callers, NEW r \in Requests, RequestScan(c, r) PROVE ClientsLearnOfTheEnd'
    BY <1>1 DEF RequestScan
  <1>2. ASSUME NEW c \in Callers, lockScan(c) PROVE ClientsLearnOfTheEnd'
    BY <1>2 DEF lockScan
  <1>3. ASSUME NEW c \in Callers, Prepare(c) PROVE ClientsLearnOfTheEnd'
    BY <1>3 DEF Prepare
  <1>4. ASSUME NEW c \in Callers, ScanBegins(c) PROVE ClientsLearnOfTheEnd'
    BY <1>4 DEF ScanBegins
  <1>5. ASSUME NEW c \in Callers, ScanChanges(c) PROVE ClientsLearnOfTheEnd'
    BY <1>5 DEF ScanChanges
  <1>6. ASSUME NEW c \in Callers, ScanReports(c) PROVE ClientsLearnOfTheEnd'
    BY <1>6 DEF ScanReports
  <1>7. ASSUME NEW c \in Callers, ScanOptimizes(c) PROVE ClientsLearnOfTheEnd'
    BY <1>7 DEF ScanOptimizes
  <1>8. ASSUME NEW c \in Callers, ScanOptimized(c) PROVE ClientsLearnOfTheEnd'
    BY <1>8 DEF ScanOptimized
  <1>9. ASSUME NEW c \in Callers, FinalStatus(c) PROVE ClientsLearnOfTheEnd'
    BY <1>9 DEF FinalStatus
  <1>10. ASSUME NEW c \in Callers, ReleaseMutex(c) PROVE ClientsLearnOfTheEnd'
    BY <1>10 DEF ReleaseMutex
  <1>11. ASSUME NEW c \in Callers, ReleaseFlag(c) PROVE ClientsLearnOfTheEnd'
    BY <1>11 DEF ReleaseFlag
  <1>12. ASSUME NEW full \in BOOLEAN, runScanner(full) PROVE ClientsLearnOfTheEnd'
    BY <1>12 DEF runScanner
  <1>13. CASE TryLock
    BY <1>13 DEF TryLock
  <1>14. CASE LockForMaintenance
    BY <1>14 DEF LockForMaintenance
  <1>15. CASE OptimizeIfNeeded
    BY <1>15 DEF OptimizeIfNeeded
  <1>16. CASE OptimizedByCheck
    BY <1>16 DEF OptimizedByCheck
  <1>17. CASE CliChanges
    BY <1>17 DEF CliChanges
  <1>18. CASE CliScanEnds
    BY <1>18 DEF CliScanEnds
  <1>19. CASE runPostScanAnalysis
    BY <1>19 DEF runPostScanAnalysis
  <1>20. CASE CliOptimized
    BY <1>20 DEF CliOptimized
  <1>21. CASE CliDies
    BY <1>21 DEF CliDies
  <1>22. CASE Crash
    BY <1>22 DEF Crash
  <1>23. CASE Tick
    BY <1>23 DEF Tick
  <1>24. CASE ClockSetBack
    BY <1>24 DEF ClockSetBack
  <1>25. CASE UNCHANGED vars
    BY <1>25
  <1> QED
    BY <1>1, <1>2, <1>3, <1>4, <1>5, <1>6, <1>7, <1>8, <1>9, <1>10, <1>11, <1>12, <1>13, <1>14, <1>15, <1>16, <1>17, <1>18, <1>19, <1>20, <1>21, <1>22, <1>23, <1>24, <1>25
       DEF Next, ScanSteps, CheckSteps, CliSteps

-------------------------------------------------------------------------------
(* The invariant.                                                            *)

LEMMA InitInv == Init => IInv
  <1> SUFFICES ASSUME Init PROVE IInv
    OBVIOUS
  <1>1. TypeOK
    <2>1. an \in AnalysisRecord
      BY ControlAssumption DEF Init, AnalysisRecord, Ages, Never
    <2> QED
      BY <2>1 DEF Init, TypeOK, ScanRequests, Steps, NoRequest, LibRecord, CliRecord, CliIdle, Views
  <1>2. LockInv
    BY ControlAssumption DEF Init, LockInv, Holding
  <1>3. SeenInv /\ MarkInv /\ OwedInv /\ ClientsLearnOfTheEnd
    BY DEF Init, SeenInv, MarkInv, OwedInv, ClientsLearnOfTheEnd, CliIdle
  <1> QED
    BY <1>1, <1>2, <1>3 DEF IInv

LEMMA StepInv == IInv /\ [Next]_vars => IInv'
  <1> SUFFICES ASSUME IInv, [Next]_vars PROVE IInv'
    OBVIOUS
  <1>1. TypeOK'
    BY TypeStep DEF IInv
  <1>2. LockInv'
    BY LockStep DEF IInv
  <1>3. SeenInv'
    BY <1>1, SeenStep DEF IInv
  <1>4. MarkInv'
    BY <1>1, MarkStep DEF IInv
  <1>5. OwedInv'
    BY <1>1, OwedStep DEF IInv
  <1>6. ClientsLearnOfTheEnd'
    BY ClientsStep DEF IInv
  <1> QED
    BY <1>1, <1>2, <1>3, <1>4, <1>5, <1>6 DEF IInv

LEMMA Invariance == Spec => []IInv
  BY InitInv, StepInv, PTL DEF Spec

\* The variables of the controller, of the analysis and of the command line's
\* scan keep their types, whatever interrupts the scans.
THEOREM TypeCorrect == Spec => []TypeOK
  <1>1. IInv => TypeOK
    BY DEF IInv
  <1> QED
    BY <1>1, Invariance, PTL

\* What a scan leaves to be analysed is on record until an ANALYZE that saw it
\* succeeded, whoever fails or dies in between, and clients that were told of a
\* scan are told of its end.
THEOREM ScansAreAccountedFor == Spec => []ScanIsAccountedFor
  <1>1. IInv => ScanIsAccountedFor
    BY DEF IInv, OwedInv, ScanIsAccountedFor, AnalysisOwed
  <1> QED
    BY <1>1, Invariance, PTL

-------------------------------------------------------------------------------
(* The lock of ScanLock.                                                     *)

\* The choice in Accepted, when there is but one to choose.
LEMMA OnlyOne ==
    ASSUME NEW f, NEW c \in Callers, f[c] # "idle", \A d \in Callers : f[d] # "idle" => d = c
    PROVE  (IF \E d \in Callers : f[d] # "idle" THEN CHOOSE d \in Callers : f[d] # "idle" ELSE NoOne) = c
  OBVIOUS

\* The accepted caller is the one past the flag.
LEMMA AcceptedIs ==
    ASSUME LockInv, NEW c \in Callers
    PROVE  /\ pc[c] # "idle" => Accepted = c
           /\ ~running => Accepted = NoOne
  <1>1. ASSUME pc[c] # "idle" PROVE Accepted = c
    <2>1. \A d \in Callers : pc[d] # "idle" => d = c
      BY <1>1 DEF LockInv
    <2> QED
      BY <1>1, <2>1, OnlyOne DEF Accepted
  <1>2. ASSUME ~running PROVE Accepted = NoOne
    BY <1>2 DEF LockInv, Accepted
  <1> QED
    BY <1>1, <1>2

LEMMA AcceptedIsNext ==
    ASSUME LockInv', NEW c \in Callers
    PROVE  /\ pc'[c] # "idle" => Accepted' = c
           /\ ~running' => Accepted' = NoOne
  <1>1. ASSUME pc'[c] # "idle" PROVE Accepted' = c
    <2>1. \A d \in Callers : pc'[d] # "idle" => d = c
      BY <1>1 DEF LockInv
    <2> QED
      BY <1>1, <2>1, OnlyOne DEF Accepted
  <1>2. ASSUME ~running' PROVE Accepted' = NoOne
    BY <1>2 DEF LockInv, Accepted
  <1> QED
    BY <1>1, <1>2

\* Every step of the controller is one of the lock, or leaves it as it is.
LEMMA LockSimulation ==
    ASSUME TypeOK, LockInv, LockInv', [Next]_vars
    PROVE  [Lock!LockNext]_(Lock!lockVars)
  <1> USE DEF Lock!LockNext, Lock!lockVars
  <1>1. ASSUME NEW c \in Callers, NEW r \in Requests, RequestScan(c, r) PROVE Lock!Accept(c)
    <2>1. Accepted = NoOne /\ Accepted' = c
      BY <1>1, AcceptedIs, AcceptedIsNext DEF RequestScan, TypeOK
    <2> QED
      BY <1>1, <2>1 DEF RequestScan, Lock!Accept, User
  <1>2. ASSUME NEW c \in Callers, lockScan(c) PROVE Lock!Enter(c)
    <2>1. Accepted = c /\ Accepted' = c
      BY <1>2, AcceptedIs, AcceptedIsNext DEF lockScan, TypeOK
    <2>2. User = NoOne /\ User' = c
      BY <1>2, ControlAssumption DEF lockScan, User, LockInv
    <2> QED
      BY <2>1, <2>2 DEF Lock!Enter
  <1>3. ASSUME NEW c \in Callers, ReleaseMutex(c) PROVE Lock!Leave(c)
    <2>1. Accepted = c /\ Accepted' = c
      BY <1>3, AcceptedIs, AcceptedIsNext DEF ReleaseMutex, TypeOK
    <2>2. User = c /\ User' = NoOne
      BY <1>3, ControlAssumption DEF ReleaseMutex, User, LockInv
    <2> QED
      BY <2>1, <2>2 DEF Lock!Leave
  <1>4. ASSUME NEW c \in Callers, ReleaseFlag(c) PROVE Lock!Withdraw(c)
    <2>1. Accepted = c /\ Accepted' = NoOne
      BY <1>4, AcceptedIs, AcceptedIsNext DEF ReleaseFlag
    <2>2. User # c
      BY <1>4, ControlAssumption DEF ReleaseFlag, User, LockInv, Holding
    <2>3. UNCHANGED User
      BY <1>4 DEF ReleaseFlag, User
    <2> QED
      BY <2>1, <2>2, <2>3 DEF Lock!Withdraw
  <1>5. ASSUME NEW c \in Callers,
               Prepare(c) \/ ScanBegins(c) \/ ScanReports(c) \/ ScanOptimizes(c) \/ ScanOptimized(c) \/ FinalStatus(c)
        PROVE  UNCHANGED <<Accepted, User>>
    <2>1. pc[c] # "idle" /\ pc'[c] # "idle"
      BY <1>5 DEF Prepare, ScanBegins, ScanReports, ScanOptimizes, ScanOptimized, FinalStatus, TypeOK
    <2>2. UNCHANGED Accepted
      BY <2>1, AcceptedIs, AcceptedIsNext
    <2>3. UNCHANGED User
      BY <1>5 DEF Prepare, ScanBegins, ScanReports, ScanOptimizes, ScanOptimized, FinalStatus, User
    <2> QED
      BY <2>2, <2>3
  <1>6. CASE LockForMaintenance
    <2>1. UNCHANGED Accepted
      BY <1>6 DEF LockForMaintenance, Accepted, threads
    <2>2. CASE ~running
      <3>1. Accepted = NoOne
        BY <2>2 DEF LockInv, Accepted
      <3>2. User = NoOne /\ User' = Maintenance
        BY <1>6, <2>2 DEF LockForMaintenance, User, LockInv
      <3> QED
        BY <2>1, <3>1, <3>2 DEF Lock!StartMaintenance
    <2>3. CASE running
      BY <1>6, <2>1, <2>3 DEF LockForMaintenance, User
    <2> QED
      BY <2>2, <2>3
  <1>7. CASE OptimizeIfNeeded \/ OptimizedByCheck
    <2>1. UNCHANGED Accepted
      BY <1>7 DEF OptimizeIfNeeded, OptimizedByCheck, Accepted, threads
    <2>2. User = Maintenance
      BY <1>7 DEF OptimizeIfNeeded, OptimizedByCheck, User, LockInv
    <2>3. User' \in {Maintenance, NoOne}
      BY <1>7, <2>2 DEF OptimizeIfNeeded, OptimizedByCheck, User
    <2> QED
      BY <2>1, <2>2, <2>3 DEF Lock!EndMaintenance
  <1>8. CASE Crash
    BY <1>8 DEF Crash, Accepted, User, Lock!Vanish
  <1>9. CASE TryLock
    BY <1>9, ControlAssumption DEF TryLock, Accepted, User, LockInv, threads
  <1>10. ASSUME NEW c \in Callers, ScanChanges(c) PROVE UNCHANGED <<Accepted, User>>
    BY <1>10 DEF ScanChanges, Accepted, User, threads
  <1>11. CASE CliSteps \/ CliChanges \/ CliDies \/ Tick \/ ClockSetBack \/ \E full \in BOOLEAN : runScanner(full)
    BY <1>11 DEF CliSteps, CliScanEnds, runPostScanAnalysis, CliOptimized, CliChanges, CliDies, Tick, ClockSetBack, runScanner, Accepted, User, threads
  <1>12. CASE UNCHANGED vars
    BY <1>12 DEF vars, Accepted, User, threads
  <1> QED
    BY <1>1, <1>2, <1>3, <1>4, <1>5, <1>6, <1>7, <1>8, <1>9, <1>10, <1>11, <1>12
       DEF Next, ScanSteps, CheckSteps

\* The flag and the mutex, taken and given back in two steps each, are the lock
\* that ScanLock promises: one scan is accepted, and maintenance never starts
\* beside one.
THEOREM LockIsImplemented == Spec => ImplementsScanLock
  <1>1. Init => Lock!LockInit
    BY DEF Init, Lock!LockInit, Accepted, User
  <1>2. IInv /\ IInv' /\ [Next]_vars => [Lock!LockNext]_(Lock!lockVars)
    BY LockSimulation DEF IInv
  <1> QED
    BY <1>1, <1>2, Invariance, PTL DEF Spec, ImplementsScanLock, Lock!LockSpec

-------------------------------------------------------------------------------
(* PersistentIds.  What computePID makes of a file depends on no more than the *)
(* values that the specification names; a row's ids are those of the tags and  *)
(* the place that the row holds, under the specifications it holds.            *)

Given(s, spec, a) == {n \in DOMAIN spec : HasValue(s, spec[n], a)}
FirstOf(S) == CHOOSE n \in S : \A m \in S : n <= m

LEMMA LeastOf == ASSUME NEW S \in SUBSET Nat, S # {} PROVE FirstOf(S) \in S /\ \A m \in S : FirstOf(S) <= m
<1>1. PICK x \in S : \A y \in S : ~(<<y, x>> \in OpToRel(<, Nat))
    BY NatLessThanWellFounded, WFMin
<1>2. \A y \in S : ~(y < x) BY <1>1 DEF OpToRel
<1>3. \E n \in S : \A m \in S : n <= m BY <1>2
<1>4. QED BY <1>3 DEF FirstOf

LEMMA ListDomain == ASSUME NEW x, IsList(x) PROVE DOMAIN x = 1..Len(x) /\ Len(x) \in Nat
BY DEF IsList

LEMMA GivenTypes ==
    ASSUME NEW spec, IsSpec(spec), NEW s, NEW a
    PROVE  Given(s, spec, a) \subseteq DOMAIN spec /\ DOMAIN spec \subseteq Nat /\ \A n \in DOMAIN spec : IsList(spec[n])
<1>1. DOMAIN spec = 1..Len(spec) /\ Len(spec) \in Nat BY ListDomain DEF IsSpec
<1>2. Given(s, spec, a) \subseteq DOMAIN spec BY DEF Given
<1>3. \A n \in DOMAIN spec : IsList(spec[n]) BY DEF IsSpec
<1>4. QED BY <1>1, <1>2, <1>3

LEMMA OtherSpec ==
    ASSUME NEW spec, spec # TrackLegacy, spec # AlbumLegacy, NEW s, NEW a
    PROVE  computePID(s, spec, a) =
             <<s.lib>> \o (IF Given(s, spec, a) = {} THEN <<>> ELSE AttrValues(s, spec[FirstOf(Given(s, spec, a))], a))
BY DEF computePID, Given, FirstOf

LEMMA AttrValuesSeq ==
    ASSUME NEW field, IsList(field), NEW s, NEW a
    PROVE  /\ AttrValues(s, field, a) \in Seq({getPIDAttr(s, field[i], a) : i \in DOMAIN field})
           /\ Len(AttrValues(s, field, a)) = Len(field)
           /\ \A i \in DOMAIN field : AttrValues(s, field, a)[i] = getPIDAttr(s, field[i], a)
<1> DEFINE V == {getPIDAttr(s, field[i], a) : i \in DOMAIN field}
<1>1. DOMAIN field = 1..Len(field) /\ Len(field) \in Nat BY ListDomain
<1>2. AttrValues(s, field, a) = [i \in 1..Len(field) |-> getPIDAttr(s, field[i], a)] BY <1>1 DEF AttrValues
<1>3. \A i \in 1..Len(field) : getPIDAttr(s, field[i], a) \in V BY <1>1
<1> HIDE DEF V
<1>4. AttrValues(s, field, a) \in [1..Len(field) -> V] BY <1>2, <1>3
<1>5. AttrValues(s, field, a) \in Seq(V) /\ Len(AttrValues(s, field, a)) = Len(field) BY <1>1, <1>4
<1>6. QED BY <1>1, <1>2, <1>5 DEF V

\* An id begins with the library, and what follows is a sequence.
LEMMA OtherSpecSeq ==
    ASSUME NEW spec, IsSpec(spec), spec # TrackLegacy, spec # AlbumLegacy, NEW s, NEW a
    PROVE  computePID(s, spec, a)[1] = s.lib
<1> DEFINE k == IF Given(s, spec, a) = {} THEN <<>> ELSE AttrValues(s, spec[FirstOf(Given(s, spec, a))], a)
<1>1. computePID(s, spec, a) = <<s.lib>> \o k BY OtherSpec
<1>2. \E X : k \in Seq(X)
  <2>1. CASE Given(s, spec, a) = {} 
    <3>1. k \in Seq({}) BY <2>1
    <3> HIDE DEF k
    <3>2. QED BY <3>1
  <2>2. CASE Given(s, spec, a) # {}
    <3>1. FirstOf(Given(s, spec, a)) \in DOMAIN spec BY <2>2, LeastOf, GivenTypes
    <3>2. IsList(spec[FirstOf(Given(s, spec, a))]) BY <3>1, GivenTypes
    <3>3. k = AttrValues(s, spec[FirstOf(Given(s, spec, a))], a) BY <2>2
    <3>4. k \in Seq({getPIDAttr(s, spec[FirstOf(Given(s, spec, a))][i], a) : i \in DOMAIN spec[FirstOf(Given(s, spec, a))]})
        BY <3>2, <3>3, AttrValuesSeq
    <3> HIDE DEF k
    <3>5. QED BY <3>4
  <2>3. QED BY <2>1, <2>2
<1> HIDE DEF k
<1>3. PICK X : k \in Seq(X) BY <1>2
<1>4. k \in Seq(X \cup {s.lib}) /\ <<s.lib>> \in Seq(X \cup {s.lib}) BY <1>3
<1>5. (<<s.lib>> \o k)[1] = s.lib BY <1>4
<1>6. QED BY <1>1, <1>5

-------------------------------------------------------------------------------
\* Attributes

LEMMA AttrOf ==
    ASSUME NEW s, NEW a
    PROVE  /\ getPIDAttr(s, "albumid", a) = a
           /\ getPIDAttr(s, "albumartistid", a) = Cleared(mapDisplayAlbumArtist(s))
           /\ getPIDAttr(s, "title", a) = mapTrackTitle(s)
           /\ getPIDAttr(s, "album", a) = Cleared(String(s, "album"))
<1>1. getPIDAttr(s, "albumid", a) = a BY DEF getPIDAttr
<1>2. getPIDAttr(s, "albumartistid", a) = Cleared(mapDisplayAlbumArtist(s)) BY DEF getPIDAttr
<1>3. getPIDAttr(s, "title", a) = mapTrackTitle(s) BY DEF getPIDAttr
<1>4. getPIDAttr(s, "album", a) = Cleared(String(s, "album")) BY DEF getPIDAttr
<1>5. QED BY <1>1, <1>2, <1>3, <1>4

LEMMA PlainAttr ==
    ASSUME NEW s, NEW a, NEW attr, attr \notin {"albumid", "folder", "albumartistid", "title", "album"}
    PROVE  getPIDAttr(s, attr, a) = String(s, attr)
BY DEF getPIDAttr

LEMMA TagsOnly ==
    ASSUME NEW s, NEW t, s.tags = t.tags
    PROVE  \A name : String(s, name) = String(t, name)
BY DEF String

LEMMA ArtistOfTags ==
    ASSUME NEW s, NEW t, s.tags = t.tags
    PROVE  mapDisplayAlbumArtist(s) = mapDisplayAlbumArtist(t) /\ mapReleaseDate(s) = mapReleaseDate(t)
<1>1. String(s, "albumartist") = String(t, "albumartist") /\ String(s, "compilation") = String(t, "compilation") /\ String(s, "artist") = String(t, "artist")
    BY TagsOnly
<1>2. mapDisplayAlbumArtist(s) = mapDisplayAlbumArtist(t) BY <1>1 DEF mapDisplayAlbumArtist
<1>3. String(s, "originaldate") = String(t, "originaldate") /\ String(s, "releasedate") = String(t, "releasedate") /\ String(s, "recordingdate") = String(t, "recordingdate")
    BY TagsOnly
<1>4. mapReleaseDate(s) = mapReleaseDate(t) BY <1>3 DEF mapReleaseDate
<1>5. QED BY <1>2, <1>4

\* The first of two values.
LEMMA FirstOfTwo ==
    ASSUME NEW x, NEW y
    PROVE  FirstGiven(<<x, y>>) = (IF x # <<>> THEN x ELSE IF y # <<>> THEN y ELSE <<>>)
<1> DEFINE values == <<x, y>>
           given == {i \in DOMAIN values : values[i] # <<>>}
<1>1. DOMAIN values = {1, 2} /\ values[1] = x /\ values[2] = y OBVIOUS
<1>2. FirstGiven(values) = IF given = {} THEN <<>> ELSE values[FirstOf(given)] BY DEF FirstGiven, FirstOf
<1>3. given = {i \in {1, 2} : values[i] # <<>>} BY <1>1
<1>4. given \in SUBSET Nat BY <1>3
<1> HIDE DEF values
<1>5. CASE x # <<>>
  <2>1. 1 \in given BY <1>5, <1>1, <1>3
  <2> HIDE DEF given
  <2>2. FirstOf(given) \in given /\ FirstOf(given) <= 1 BY <2>1, <1>4, LeastOf
  <2>3. FirstOf(given) = 1 BY <2>2, <1>3
  <2>4. QED BY <2>1, <2>3, <1>1, <1>2, <1>5 DEF values
<1>6. CASE x = <<>> /\ y # <<>>
  <2>1. given = {2} BY <1>6, <1>1, <1>3
  <2> HIDE DEF given
  <2>2. FirstOf(given) = 2 BY <2>1, <1>4, LeastOf
  <2>3. QED BY <2>1, <2>2, <1>1, <1>2, <1>6 DEF values
<1>7. CASE x = <<>> /\ y = <<>>
  <2>1. given = {} BY <1>7, <1>1, <1>3
  <2>2. QED BY <2>1, <1>2, <1>7 DEF values
<1>8. QED BY <1>5, <1>6, <1>7

\* A song always has a title, and an artist to file its album under.
LEMMA TitleOf ==
    ASSUME NEW s
    PROVE  mapTrackTitle(s) = (IF String(s, "title") # <<>> THEN String(s, "title") ELSE <<s.base>>) /\ mapTrackTitle(s) # <<>>
<1>1. <<s.base>> # <<>> OBVIOUS
<1>2. QED BY <1>1, FirstOfTwo DEF mapTrackTitle

LEMMA AttrFreeOfPlace ==
    ASSUME NEW s, NEW t, s.tags = t.tags, NEW attr, attr # "folder", NEW a, NEW b,
           (attr = "albumid" => a = b),
           (attr = "title" => s.base = t.base \/ String(s, "title") # <<>>)
    PROVE  getPIDAttr(s, attr, a) = getPIDAttr(t, attr, b)
<1>1. CASE attr = "albumid" BY <1>1, AttrOf
<1>2. CASE attr = "albumartistid" BY <1>2, AttrOf, ArtistOfTags
<1>3. CASE attr = "title"
  <2>1. mapTrackTitle(s) = mapTrackTitle(t) BY <1>3, TitleOf, TagsOnly
  <2>2. QED BY <2>1, <1>3, AttrOf
<1>4. CASE attr = "album" BY <1>4, AttrOf, TagsOnly
<1>5. CASE attr \notin {"albumid", "folder", "albumartistid", "title", "album"}
  <2>1. getPIDAttr(s, attr, a) = String(s, attr) BY <1>5, PlainAttr
  <2>2. getPIDAttr(t, attr, b) = String(t, attr) BY <1>5, PlainAttr
  <2>3. QED BY <2>1, <2>2, TagsOnly
<1>6. QED BY <1>1, <1>2, <1>3, <1>4, <1>5

\* An id without the folder, and without a file's name for its title, is that of the tags.
LEMMA PlaceFreePID ==
    ASSUME NEW spec, IsSpec(spec), NEW s, NEW t, s.tags = t.tags, s.lib = t.lib, NEW a, NEW b,
           ~NamesFolder(spec),
           (Uses(spec, "albumid") => a = b),
           (Uses(spec, "title") => s.base = t.base \/ String(s, "title") # <<>>)
    PROVE  computePID(s, spec, a) = computePID(t, spec, b)
<1>1. spec # TrackLegacy /\ ~Uses(spec, "folder") BY DEF NamesFolder
<1>2. CASE spec = AlbumLegacy
  <2>1. computePID(s, spec, a) = legacyAlbumID(s) /\ computePID(t, spec, b) = legacyAlbumID(t) BY <1>2, <1>1 DEF computePID
  <2>2. LibraryPrefix(s) = LibraryPrefix(t) BY DEF LibraryPrefix
  <2>3. String(s, "album") = String(t, "album") BY TagsOnly
  <2>4. legacyAlbumID(s) = legacyAlbumID(t) BY <2>2, <2>3, ArtistOfTags DEF legacyAlbumID
  <2>5. QED BY <2>1, <2>4
<1>3. CASE spec # AlbumLegacy
  <2>1. ASSUME NEW n \in DOMAIN spec, NEW i \in DOMAIN spec[n]
        PROVE  getPIDAttr(s, spec[n][i], a) = getPIDAttr(t, spec[n][i], b)
    <3>1. \A attr : spec[n][i] = attr => Uses(spec, attr) BY DEF Uses
    <3>2. spec[n][i] # "folder" BY <3>1, <1>1
    <3>3. spec[n][i] = "albumid" => a = b BY <3>1
    <3>4. spec[n][i] = "title" => s.base = t.base \/ String(s, "title") # <<>> BY <3>1
    <3>5. QED BY <3>2, <3>3, <3>4, AttrFreeOfPlace
  <2>2. ASSUME NEW n \in DOMAIN spec
        PROVE  AttrValues(s, spec[n], a) = AttrValues(t, spec[n], b) /\ (HasValue(s, spec[n], a) <=> HasValue(t, spec[n], b))
    <3>1. \A i \in DOMAIN spec[n] : getPIDAttr(s, spec[n][i], a) = getPIDAttr(t, spec[n][i], b) BY <2>1
    <3>2. AttrValues(s, spec[n], a) = AttrValues(t, spec[n], b) BY <3>1 DEF AttrValues
    <3>3. HasValue(s, spec[n], a) <=> HasValue(t, spec[n], b) BY <3>1 DEF HasValue
    <3>4. QED BY <3>2, <3>3
  <2>3. Given(s, spec, a) = Given(t, spec, b) BY <2>2 DEF Given
  <2>4. CASE Given(s, spec, a) = {} BY <2>3, <2>4, <1>1, <1>3, OtherSpec
  <2>5. CASE Given(s, spec, a) # {}
    <3>1. FirstOf(Given(s, spec, a)) \in DOMAIN spec BY <2>5, LeastOf, GivenTypes
    <3>2. AttrValues(s, spec[FirstOf(Given(s, spec, a))], a) = AttrValues(t, spec[FirstOf(Given(t, spec, b))], b) BY <3>1, <2>2, <2>3
    <3>3. QED BY <3>2, <2>3, <1>1, <1>3, OtherSpec
  <2>6. QED BY <2>4, <2>5
<1>4. QED BY <1>2, <1>3

-------------------------------------------------------------------------------
\* The specification of the album by default, and of the track

LEMMA TwoForms == TrackLegacy # AlbumLegacy
<1>1. TrackLegacy[1][1] = "track_legacy" BY DEF TrackLegacy
<1>2. AlbumLegacy[1][1] = "album_legacy" BY DEF AlbumLegacy
<1>3. "track_legacy" # "album_legacy" OBVIOUS
<1>4. QED BY <1>1, <1>2, <1>3

LEMMA SmallLists ==
    ASSUME NEW w, NEW x, NEW y, NEW z
    PROVE  IsList(<<w>>) /\ IsList(<<w, x>>) /\ DOMAIN <<w, x>> = {1, 2} /\ IsList(<<w, x, y, z>>)
<1>1. <<w>> \in Seq({<<w>>[i] : i \in DOMAIN <<w>>}) OBVIOUS
<1>2. <<w, x>> \in Seq({<<w, x>>[i] : i \in DOMAIN <<w, x>>}) /\ DOMAIN <<w, x>> = {1, 2} OBVIOUS
<1>3. <<w, x, y, z>> \in Seq({<<w, x, y, z>>[i] : i \in DOMAIN <<w, x, y, z>>}) OBVIOUS
<1>4. QED BY <1>1, <1>2, <1>3 DEF IsList

LEMMA DefaultSpecs ==
    /\ IsSpec(DefaultAlbumPID) /\ DOMAIN DefaultAlbumPID = {1, 2} /\ DefaultAlbumPID # TrackLegacy /\ DefaultAlbumPID # AlbumLegacy
    /\ DefaultAlbumPID[1] = <<"musicbrainz_albumid">> /\ DefaultAlbumPID[2] = <<"albumartistid", "album", "albumversion", "releasedate">>
    /\ IsSpec(DefaultTrackPID) /\ DOMAIN DefaultTrackPID = {1, 2} /\ DefaultTrackPID # TrackLegacy /\ DefaultTrackPID # AlbumLegacy
    /\ DefaultTrackPID[1] = <<"musicbrainz_trackid">> /\ DefaultTrackPID[2] = <<"albumid", "discnumber", "tracknumber", "title">>
<1>1. Len(TrackLegacy) = 1 /\ Len(AlbumLegacy) = 1 BY DEF TrackLegacy, AlbumLegacy
<1>2. Len(DefaultAlbumPID) = 2 /\ Len(DefaultTrackPID) = 2 BY DEF DefaultAlbumPID, DefaultTrackPID
<1>3. ASSUME NEW x, NEW y, IsList(x), IsList(y) PROVE IsSpec(<<x, y>>) /\ DOMAIN <<x, y>> = {1, 2}
  <2>1. <<x, y>>[1] = x /\ <<x, y>>[2] = y OBVIOUS
  <2>2. QED BY <1>3, <2>1, SmallLists DEF IsSpec
<1>4. DefaultAlbumPID[1] = <<"musicbrainz_albumid">> /\ DefaultAlbumPID[2] = <<"albumartistid", "album", "albumversion", "releasedate">>
    BY DEF DefaultAlbumPID
<1>5. DefaultTrackPID[1] = <<"musicbrainz_trackid">> /\ DefaultTrackPID[2] = <<"albumid", "discnumber", "tracknumber", "title">>
    BY DEF DefaultTrackPID
<1>6. IsSpec(DefaultAlbumPID) /\ DOMAIN DefaultAlbumPID = {1, 2} BY <1>3, SmallLists, Zenon DEF DefaultAlbumPID
<1>7. IsSpec(DefaultTrackPID) /\ DOMAIN DefaultTrackPID = {1, 2} BY <1>3, SmallLists, Zenon DEF DefaultTrackPID
<1>8. QED BY <1>1, <1>2, <1>4, <1>5, <1>6, <1>7

LEMMA ArtistIsGiven == ASSUME NEW s PROVE Cleared(mapDisplayAlbumArtist(s)) # <<>>
<1> DEFINE x == String(s, "albumartist")
           y == IF String(s, "compilation") # <<>> THEN <<VariousArtists>> ELSE String(s, "artist")
           z == <<UnknownArtist>>
           values == <<x, y, z>>
           given == {i \in DOMAIN values : values[i] # <<>>}
<1>1. mapDisplayAlbumArtist(s) = FirstGiven(values) BY DEF mapDisplayAlbumArtist
<1>2. FirstGiven(values) = IF given = {} THEN <<>> ELSE values[FirstOf(given)] BY DEF FirstGiven, FirstOf
<1> HIDE DEF x, y
<1>3. DOMAIN values = {1, 2, 3} /\ values[3] # <<>> OBVIOUS
<1> HIDE DEF values
<1>4. given \in SUBSET Nat /\ 3 \in given BY <1>3
<1>5. FirstOf(given) \in given BY <1>4, LeastOf
<1>6. values[FirstOf(given)] # <<>> BY <1>5
<1>7. mapDisplayAlbumArtist(s) # <<>> BY <1>1, <1>2, <1>4, <1>6
<1>8. QED BY <1>7 DEF Cleared

\* Of two fields the first with a value.
LEMMA TwoFields ==
    ASSUME NEW spec, IsSpec(spec), DOMAIN spec = {1, 2}, spec # TrackLegacy, spec # AlbumLegacy, NEW s, NEW a,
           HasValue(s, spec[2], a)
    PROVE  computePID(s, spec, a) = <<s.lib>> \o (IF HasValue(s, spec[1], a) THEN AttrValues(s, spec[1], a) ELSE AttrValues(s, spec[2], a))
<1>1. Given(s, spec, a) = {n \in {1, 2} : HasValue(s, spec[n], a)} BY DEF Given
<1>2. Given(s, spec, a) \in SUBSET Nat /\ 2 \in Given(s, spec, a) BY <1>1
<1>3. FirstOf(Given(s, spec, a)) \in Given(s, spec, a) /\ \A m \in Given(s, spec, a) : FirstOf(Given(s, spec, a)) <= m BY <1>2, LeastOf
<1>4. computePID(s, spec, a) = <<s.lib>> \o AttrValues(s, spec[FirstOf(Given(s, spec, a))], a) BY <1>2, OtherSpec
<1>5. CASE HasValue(s, spec[1], a)
  <2>1. 1 \in Given(s, spec, a) BY <1>5, <1>1
  <2>2. FirstOf(Given(s, spec, a)) = 1 BY <2>1, <1>1, <1>3
  <2>3. QED BY <2>2, <1>4, <1>5
<1>6. CASE ~HasValue(s, spec[1], a)
  <2>1. FirstOf(Given(s, spec, a)) = 2 BY <1>6, <1>1, <1>3
  <2>2. QED BY <2>1, <1>4, <1>6
<1>7. QED BY <1>5, <1>6

LEMMA OneAttr ==
    ASSUME NEW x, NEW s, NEW a
    PROVE  AttrValues(s, <<x>>, a) = <<getPIDAttr(s, x, a)>> /\ (HasValue(s, <<x>>, a) <=> getPIDAttr(s, x, a) # <<>>)
<1>1. DOMAIN <<x>> = {1} /\ <<x>>[1] = x OBVIOUS
<1>2. AttrValues(s, <<x>>, a) = [i \in {1} |-> getPIDAttr(s, x, a)] BY <1>1 DEF AttrValues
<1>3. <<getPIDAttr(s, x, a)>> = [i \in {1} |-> getPIDAttr(s, x, a)] OBVIOUS
<1>4. HasValue(s, <<x>>, a) <=> getPIDAttr(s, x, a) # <<>> BY <1>1 DEF HasValue
<1>5. QED BY <1>2, <1>3, <1>4

LEMMA FourAttrs ==
    ASSUME NEW w, NEW x, NEW y, NEW z, NEW s, NEW a
    PROVE  /\ AttrValues(s, <<w, x, y, z>>, a) = <<getPIDAttr(s, w, a), getPIDAttr(s, x, a), getPIDAttr(s, y, a), getPIDAttr(s, z, a)>>
           /\ getPIDAttr(s, w, a) # <<>> \/ getPIDAttr(s, z, a) # <<>> => HasValue(s, <<w, x, y, z>>, a)
<1> DEFINE field == <<w, x, y, z>>
           v(attr) == getPIDAttr(s, attr, a)
<1>1. DOMAIN field = {1, 2, 3, 4} /\ field[1] = w /\ field[2] = x /\ field[3] = y /\ field[4] = z OBVIOUS
<1>2. HasValue(s, field, a) <=> \E i \in DOMAIN field : v(field[i]) # <<>> BY DEF HasValue
<1>3. AttrValues(s, field, a) = [i \in DOMAIN field |-> v(field[i])] BY DEF AttrValues
<1> HIDE DEF field, v
<1>4. v(w) # <<>> \/ v(z) # <<>> => HasValue(s, field, a) BY <1>1, <1>2
<1>5. AttrValues(s, field, a) = <<v(w), v(x), v(y), v(z)>> BY <1>1, <1>3
<1>6. QED BY <1>4, <1>5 DEF field, v

\* By default an album's id is the library and the release.
LEMMA AlbumIsRelease ==
    ASSUME NEW s, NEW a
    PROVE  computePID(s, DefaultAlbumPID, a) = <<s.lib>> \o Release(s)
<1> DEFINE one == <<"musicbrainz_albumid">>
           two == <<"albumartistid", "album", "albumversion", "releasedate">>
<1>1. AttrValues(s, one, a) = <<String(s, "musicbrainz_albumid")>> /\ (HasValue(s, one, a) <=> String(s, "musicbrainz_albumid") # <<>>)
  <2>1. getPIDAttr(s, "musicbrainz_albumid", a) = String(s, "musicbrainz_albumid") BY PlainAttr
  <2>2. QED BY <2>1, OneAttr
<1>2. /\ AttrValues(s, two, a) = <<Cleared(mapDisplayAlbumArtist(s)), Cleared(String(s, "album")), String(s, "albumversion"), String(s, "releasedate")>>
      /\ HasValue(s, two, a)
  <2>1. getPIDAttr(s, "albumartistid", a) = Cleared(mapDisplayAlbumArtist(s)) BY AttrOf
  <2>2. getPIDAttr(s, "album", a) = Cleared(String(s, "album")) BY AttrOf
  <2>3. getPIDAttr(s, "albumversion", a) = String(s, "albumversion") BY PlainAttr
  <2>4. getPIDAttr(s, "releasedate", a) = String(s, "releasedate") BY PlainAttr
  <2>5. getPIDAttr(s, "albumartistid", a) # <<>> BY <2>1, ArtistIsGiven
  <2>6. QED BY <2>1, <2>2, <2>3, <2>4, <2>5, FourAttrs
<1>3. DefaultAlbumPID[1] = one /\ DefaultAlbumPID[2] = two BY DefaultSpecs
<1> HIDE DEF one, two
<1>4. computePID(s, DefaultAlbumPID, a) = <<s.lib>> \o (IF HasValue(s, one, a) THEN AttrValues(s, one, a) ELSE AttrValues(s, two, a))
    BY <1>2, <1>3, DefaultSpecs, TwoFields
<1>5. QED BY <1>1, <1>2, <1>4 DEF Release

\* And a song's its MusicBrainz id, or its album's with its numbers and title.
LEMMA TrackIsSong ==
    ASSUME NEW s, NEW a
    PROVE  computePID(s, DefaultTrackPID, a) =
             <<s.lib>> \o (IF String(s, "musicbrainz_trackid") # <<>> THEN <<String(s, "musicbrainz_trackid")>>
                           ELSE <<a, String(s, "discnumber"), String(s, "tracknumber"), mapTrackTitle(s)>>)
<1> DEFINE one == <<"musicbrainz_trackid">>
           two == <<"albumid", "discnumber", "tracknumber", "title">>
<1>1. AttrValues(s, one, a) = <<String(s, "musicbrainz_trackid")>> /\ (HasValue(s, one, a) <=> String(s, "musicbrainz_trackid") # <<>>)
  <2>1. getPIDAttr(s, "musicbrainz_trackid", a) = String(s, "musicbrainz_trackid") BY PlainAttr
  <2>2. QED BY <2>1, OneAttr
<1>2. /\ AttrValues(s, two, a) = <<a, String(s, "discnumber"), String(s, "tracknumber"), mapTrackTitle(s)>>
      /\ HasValue(s, two, a)
  <2>1. getPIDAttr(s, "albumid", a) = a BY AttrOf
  <2>2. getPIDAttr(s, "discnumber", a) = String(s, "discnumber") BY PlainAttr
  <2>3. getPIDAttr(s, "tracknumber", a) = String(s, "tracknumber") BY PlainAttr
  <2>4. getPIDAttr(s, "title", a) = mapTrackTitle(s) BY AttrOf
  <2>5. getPIDAttr(s, "title", a) # <<>> BY <2>4, TitleOf
  <2>6. QED BY <2>1, <2>2, <2>3, <2>4, <2>5, FourAttrs
<1>3. DefaultTrackPID[1] = one /\ DefaultTrackPID[2] = two BY DefaultSpecs
<1> HIDE DEF one, two
<1>4. computePID(s, DefaultTrackPID, a) = <<s.lib>> \o (IF HasValue(s, one, a) THEN AttrValues(s, one, a) ELSE AttrValues(s, two, a))
    BY <1>2, <1>3, DefaultSpecs, TwoFields
<1>5. QED BY <1>1, <1>2, <1>4

-------------------------------------------------------------------------------
\* Libraries

LEMMA IdNamesLibrary ==
    ASSUME NEW spec, IsSpec(spec), NEW s, NEW t, s.lib # t.lib, NEW a, NEW b
    PROVE  computePID(s, spec, a) # computePID(t, spec, b)
<1>1. LibraryPrefix(s) # LibraryPrefix(t)
  <2>1. <<>> # <<s.lib>> /\ <<>> # <<t.lib>> /\ <<s.lib>> # <<t.lib>> OBVIOUS
  <2>2. QED BY <2>1 DEF LibraryPrefix
<1>2. CASE spec = TrackLegacy
  <2>0. computePID(s, spec, a) = legacyTrackID(s) BY <1>2, TwoForms DEF computePID
  <2>1. computePID(t, spec, b) = legacyTrackID(t) BY <1>2, TwoForms DEF computePID
  <2>2. legacyTrackID(s)[1] = LibraryPrefix(s) /\ legacyTrackID(t)[1] = LibraryPrefix(t) BY DEF legacyTrackID
  <2>3. QED BY <2>0, <2>1, <2>2, <1>1
<1>3. CASE spec = AlbumLegacy /\ spec # TrackLegacy
  <2>0. computePID(s, spec, a) = legacyAlbumID(s) BY <1>3 DEF computePID
  <2>1. computePID(t, spec, b) = legacyAlbumID(t) BY <1>3 DEF computePID
  <2>2. \A w, x, y, z : <<w, x, y, z>>[1] = w OBVIOUS
  <2>3. legacyAlbumID(s)[1] = LibraryPrefix(s) /\ legacyAlbumID(t)[1] = LibraryPrefix(t) BY <2>2, Zenon DEF legacyAlbumID
  <2>4. QED BY <2>0, <2>1, <2>3, <1>1
<1>4. CASE spec # AlbumLegacy /\ spec # TrackLegacy BY <1>4, OtherSpecSeq
<1>5. QED BY <1>2, <1>3, <1>4

LEMMA ReleaseSeq == ASSUME NEW s PROVE \E X : Release(s) \in Seq(X)
<1> DEFINE m == String(s, "musicbrainz_albumid")
           w == Cleared(mapDisplayAlbumArtist(s))
           x == Cleared(String(s, "album"))
           y == String(s, "albumversion")
           z == String(s, "releasedate")
<1>1. Release(s) = IF m # <<>> THEN <<m>> ELSE <<w, x, y, z>> BY DEF Release
<1> HIDE DEF m, w, x, y, z
<1>2. <<m>> \in Seq({m, w, x, y, z}) /\ <<w, x, y, z>> \in Seq({m, w, x, y, z}) OBVIOUS
<1>3. Release(s) \in Seq({m, w, x, y, z}) BY <1>1, <1>2
<1>4. QED BY <1>3

LEMMA SamePrefix ==
    ASSUME NEW X, NEW x \in X, NEW k \in Seq(X), NEW l \in Seq(X), <<x>> \o k = <<x>> \o l
    PROVE  k = l
<1>1. Len(<<x>> \o k) = Len(k) + 1 /\ Len(<<x>> \o l) = Len(l) + 1 OBVIOUS
<1>2. Len(k) = Len(l) /\ Len(k) \in Nat /\ Len(l) \in Nat BY <1>1
<1>3. ASSUME NEW i \in 1..Len(k) PROVE k[i] = l[i]
  <2>1. (<<x>> \o k)[i + 1] = k[i] /\ (<<x>> \o l)[i + 1] = l[i] BY <1>2
  <2>2. QED BY <2>1
<1>4. QED BY <1>2, <1>3

LEMMA SameRelease ==
    ASSUME NEW s, NEW t, s.lib = t.lib, NEW a, NEW b
    PROVE  computePID(s, DefaultAlbumPID, a) = computePID(t, DefaultAlbumPID, b) <=> Release(s) = Release(t)
<1>1. PICK X : Release(s) \in Seq(X) BY ReleaseSeq
<1>2. PICK Y : Release(t) \in Seq(Y) BY ReleaseSeq
<1> DEFINE Z == X \cup Y \cup {s.lib}
<1>3. Release(s) \in Seq(Z) /\ Release(t) \in Seq(Z) /\ s.lib \in Z BY <1>1, <1>2
<1> HIDE DEF Z
<1>4. computePID(s, DefaultAlbumPID, a) = <<s.lib>> \o Release(s) /\ computePID(t, DefaultAlbumPID, b) = <<s.lib>> \o Release(t)
    BY AlbumIsRelease
<1>5. <<s.lib>> \o Release(s) = <<s.lib>> \o Release(t) => Release(s) = Release(t) BY <1>3, SamePrefix
<1>6. QED BY <1>4, <1>5

-------------------------------------------------------------------------------
\* The row of a file

\* An id is made of the tags and the place alone.
LEMMA SamePID ==
    ASSUME NEW spec, IsSpec(spec), NEW s, NEW t, NEW a,
           s.tags = t.tags, s.lib = t.lib, s.dir = t.dir, s.base = t.base
    PROVE  computePID(s, spec, a) = computePID(t, spec, a)
<1>1. CASE ~NamesFolder(spec) BY <1>1, PlaceFreePID
<1>2. CASE spec = TrackLegacy
  <2>1. computePID(s, spec, a) = legacyTrackID(s) BY <1>2, TwoForms DEF computePID
  <2>2. computePID(t, spec, a) = legacyTrackID(t) BY <1>2, TwoForms DEF computePID
  <2>3. LibraryPrefix(s) = LibraryPrefix(t) BY DEF LibraryPrefix
  <2>4. legacyTrackID(s) = legacyTrackID(t) BY <2>3 DEF legacyTrackID
  <2>5. QED BY <2>1, <2>2, <2>4
<1>3. CASE spec = AlbumLegacy /\ spec # TrackLegacy
  <2>1. computePID(s, spec, a) = legacyAlbumID(s) BY <1>3 DEF computePID
  <2>2. computePID(t, spec, a) = legacyAlbumID(t) BY <1>3 DEF computePID
  <2>3. LibraryPrefix(s) = LibraryPrefix(t) BY DEF LibraryPrefix
  <2>4. String(s, "album") = String(t, "album") BY TagsOnly
  <2>5. legacyAlbumID(s) = legacyAlbumID(t) BY <2>3, <2>4, ArtistOfTags DEF legacyAlbumID
  <2>6. QED BY <2>1, <2>2, <2>5
<1>4. CASE spec # TrackLegacy /\ spec # AlbumLegacy
  <2>1. ASSUME NEW attr PROVE getPIDAttr(s, attr, a) = getPIDAttr(t, attr, a)
    <3>1. CASE attr = "folder"
      <4>1. getPIDAttr(s, "folder", a) = <<s.dir>> BY DEF getPIDAttr
      <4>2. getPIDAttr(t, "folder", a) = <<t.dir>> BY DEF getPIDAttr
      <4>3. QED BY <3>1, <4>1, <4>2
    <3>2. CASE attr # "folder" BY <3>2, AttrFreeOfPlace
    <3>3. QED BY <3>1, <3>2
  <2>2. ASSUME NEW n \in DOMAIN spec
        PROVE  AttrValues(s, spec[n], a) = AttrValues(t, spec[n], a) /\ (HasValue(s, spec[n], a) <=> HasValue(t, spec[n], a))
    <3>1. AttrValues(s, spec[n], a) = AttrValues(t, spec[n], a) BY <2>1 DEF AttrValues
    <3>2. HasValue(s, spec[n], a) <=> HasValue(t, spec[n], a) BY <2>1 DEF HasValue
    <3>3. QED BY <3>1, <3>2
  <2>3. Given(s, spec, a) = Given(t, spec, a) BY <2>2 DEF Given
  <2>4. CASE Given(s, spec, a) = {} BY <2>3, <2>4, <1>4, OtherSpec
  <2>5. CASE Given(s, spec, a) # {}
    <3>1. FirstOf(Given(s, spec, a)) \in DOMAIN spec BY <2>5, LeastOf, GivenTypes
    <3>2. AttrValues(s, spec[FirstOf(Given(s, spec, a))], a) = AttrValues(t, spec[FirstOf(Given(t, spec, a))], a) BY <3>1, <2>2, <2>3
    <3>3. QED BY <3>2, <2>3, <1>4, OtherSpec
  <2>6. QED BY <2>4, <2>5
<1>5. QED BY <1>1, <1>2, <1>3, <1>4

AlbumOf(c, s) == computePID(s, c.album, <<>>)
PidOf(c, s)   == computePID(s, c.track, IF c.track = c.album THEN <<>> ELSE AlbumOf(c, s))

\* The ids of a row are those of its own tags and place, under its own specifications.
RowInv(f) ==
    row[f] # NoSong =>
        /\ row[f].conf \in Configs
        /\ row[f].pid = PidOf(row[f].conf, row[f])
        /\ row[f].album = AlbumOf(row[f].conf, row[f])

IdInv == DOMAIN row = Files /\ pidConf \in Configs /\ \A f \in Files : RowInv(f)

LEMMA ConfSpecs == ASSUME NEW c \in Configs PROVE IsSpec(c.track) /\ IsSpec(c.album)
BY IdAssumption

LEMMA MadeOf ==
    ASSUME NEW f, pidConf \in Configs
    PROVE  /\ ToMediaFile(f).tags = file[f].tags /\ ToMediaFile(f).lib = file[f].lib
           /\ ToMediaFile(f).dir = file[f].dir /\ ToMediaFile(f).base = file[f].base
           /\ ToMediaFile(f).conf = pidConf /\ ToMediaFile(f).prev = prevAlbumID(f)
           /\ ToMediaFile(f).pid = PidOf(pidConf, ToMediaFile(f))
           /\ ToMediaFile(f).album = AlbumOf(pidConf, ToMediaFile(f))
<1> DEFINE r == ToMediaFile(f)
<1>1. /\ r.tags = file[f].tags /\ r.lib = file[f].lib /\ r.dir = file[f].dir /\ r.base = file[f].base
      /\ r.pid = trackPID(file[f]) /\ r.album = albumID(file[f], pidConf.album)
      /\ r.conf = pidConf /\ r.prev = prevAlbumID(f)
    BY DEF ToMediaFile
<1> HIDE DEF r
<1>2. IsSpec(pidConf.track) /\ IsSpec(pidConf.album) BY ConfSpecs
<1>3. \A a : computePID(r, pidConf.track, a) = computePID(file[f], pidConf.track, a) BY <1>1, <1>2, SamePID
<1>4. \A a : computePID(r, pidConf.album, a) = computePID(file[f], pidConf.album, a) BY <1>1, <1>2, SamePID
<1>5. r.album = AlbumOf(pidConf, r) BY <1>1, <1>4 DEF albumID, NestedAlbumID, AlbumOf
<1>6. r.pid = PidOf(pidConf, r) BY <1>1, <1>3, <1>4 DEF trackPID, NestedAlbumID, PidOf, AlbumOf
<1>7. QED BY <1>1, <1>5, <1>6 DEF r

Imports(f) == row' = [row EXCEPT ![f] = ToMediaFile(f)] /\ pidConf' = pidConf

LEMMA OneFile ==
    ASSUME IdNext
    PROVE  (row' = row /\ (pidConf' = pidConf \/ pidConf' \in Configs)) \/ \E f \in Files : Imports(f)
<1>1. CASE \E f \in Files : loadTagsFromFiles(f) BY <1>1 DEF loadTagsFromFiles, Imports
<1>2. CASE \E f \in Files : Retag(f) BY <1>2 DEF Retag
<1>3. CASE \E f \in Files : MoveFile(f) BY <1>3 DEF MoveFile
<1>4. CASE runUpdateLibraries BY <1>4 DEF runUpdateLibraries
<1>5. CASE Reconfigure BY <1>5 DEF Reconfigure
<1>6. QED BY <1>1, <1>2, <1>3, <1>4, <1>5 DEF IdNext

LEMMA IdInvInit == IdInit => IdInv
BY DEF IdInit, IdInv, RowInv

LEMMA IdInvNext == IdInv /\ [IdNext]_idVars => IdInv'
<1> SUFFICES ASSUME IdInv, [IdNext]_idVars PROVE IdInv' OBVIOUS
<1>1. CASE row' = row /\ (pidConf' = pidConf \/ pidConf' \in Configs) BY <1>1 DEF IdInv, RowInv
<1>2. ASSUME NEW f \in Files, Imports(f) PROVE IdInv'
  <2>1. DOMAIN row' = Files /\ pidConf' \in Configs BY <1>2 DEF Imports, IdInv
  <2>2. row'[f] = ToMediaFile(f) BY <1>2 DEF Imports, IdInv
  <2>3. pidConf \in Configs BY DEF IdInv
  <2>4. RowInv(f)' BY <2>2, <2>3, MadeOf DEF RowInv
  <2>5. ASSUME NEW g \in Files, g # f PROVE RowInv(g)'
    <3>1. row'[g] = row[g] BY <1>2, <2>5 DEF Imports, IdInv
    <3>2. QED BY <3>1 DEF IdInv, RowInv
  <2>6. QED BY <2>1, <2>4, <2>5 DEF IdInv
<1>3. CASE UNCHANGED idVars BY <1>3 DEF idVars, IdInv, RowInv
<1>4. QED BY <1>1, <1>2, <1>3, OneFile

LEMMA InvLibraries == IdInv => LibrariesShareNothing
<1> SUFFICES ASSUME IdInv, NEW f \in Imported, NEW g \in Imported, row[f].conf = row[g].conf, row[f].lib # row[g].lib
             PROVE  row[f].pid # row[g].pid /\ row[f].album # row[g].album
    BY DEF LibrariesShareNothing
<1> DEFINE c == row[f].conf
<1>1. c \in Configs /\ row[f].pid = PidOf(c, row[f]) /\ row[f].album = AlbumOf(c, row[f]) BY DEF Imported, IdInv, RowInv
<1>2. row[g].pid = PidOf(c, row[g]) /\ row[g].album = AlbumOf(c, row[g]) BY DEF Imported, IdInv, RowInv
<1> HIDE DEF c
<1>3. IsSpec(c.track) /\ IsSpec(c.album) BY <1>1, ConfSpecs
<1>4. PidOf(c, row[f]) # PidOf(c, row[g]) BY <1>3, IdNamesLibrary DEF PidOf
<1>5. AlbumOf(c, row[f]) # AlbumOf(c, row[g]) BY <1>3, IdNamesLibrary DEF AlbumOf
<1>6. QED BY <1>1, <1>2, <1>4, <1>5

LEMMA InvReleases == IdInv => AlbumsAreReleases
<1> SUFFICES ASSUME IdInv, NEW f \in Imported, NEW g \in Imported,
                    row[f].conf = row[g].conf, row[f].conf.album = DefaultAlbumPID, row[f].lib = row[g].lib
             PROVE  row[f].album = row[g].album <=> Release(row[f]) = Release(row[g])
    BY DEF AlbumsAreReleases
<1>1. row[f].album = computePID(row[f], DefaultAlbumPID, <<>>) BY DEF Imported, IdInv, RowInv, AlbumOf
<1>2. row[g].album = computePID(row[g], DefaultAlbumPID, <<>>) BY DEF Imported, IdInv, RowInv, AlbumOf
<1>3. QED BY <1>1, <1>2, SameRelease

KeepsItsId(f) ==
    /\ SameSong(row[f], row'[f]) /\ row[f].conf.track = DefaultTrackPID
    /\ ~NamesFolder(row[f].conf.album)
    => row'[f].pid = row[f].pid

CarriesOver(f) ==
    /\ row'[f] # row[f] /\ row'[f].tags = row[f].tags /\ row'[f].lib = row[f].lib
    /\ row[f].conf.album \in {storedConf, pidConf.album}
    /\ ~PathMatters(row[f].conf.album, row[f])
    /\ Uses(row[f].conf.album, "albumid") => row[f].conf.album = pidConf.album
    => row'[f].prev = row[f].album \/ row'[f].album = row[f].album

LEMMA ImportKeeps ==
    ASSUME IdInv, NEW f \in Imported, Imports(f), SameSong(row[f], row'[f]), row[f].conf.track = DefaultTrackPID,
           ~NamesFolder(row[f].conf.album)
    PROVE  row'[f].pid = row[f].pid
<1> DEFINE r == row[f]
           n == ToMediaFile(f)
           c == row[f].conf
<1>1. row'[f] = n /\ pidConf \in Configs BY DEF Imports, IdInv, Imported
<1>2. c \in Configs /\ r.pid = PidOf(c, r) BY DEF Imported, IdInv, RowInv
<1>3. n.pid = PidOf(pidConf, n) /\ n.conf = pidConf BY <1>1, MadeOf
<1>4. c = n.conf /\ SameSong(r, n) /\ c.track = DefaultTrackPID /\ ~NamesFolder(c.album) BY <1>1 DEF SameSong
<1>5. c = pidConf BY <1>3, <1>4
<1> HIDE DEF r, n, c
<1> DEFINE nest(s) == IF c.track = c.album THEN <<>> ELSE AlbumOf(c, s)
<1>6. r.pid = computePID(r, DefaultTrackPID, nest(r)) /\ n.pid = computePID(n, DefaultTrackPID, nest(n))
    BY <1>2, <1>3, <1>4, <1>5 DEF PidOf
<1>7. CASE String(r, "musicbrainz_trackid") # <<>>
  <2>1. r.lib = n.lib /\ String(r, "musicbrainz_trackid") = String(n, "musicbrainz_trackid") BY <1>4, <1>7 DEF SameSong
  <2> HIDE DEF nest
  <2>2. computePID(r, DefaultTrackPID, nest(r)) = computePID(n, DefaultTrackPID, nest(n)) BY <2>1, <1>7, TrackIsSong
  <2>3. QED BY <2>2, <1>1, <1>6 DEF r
<1>8. CASE String(r, "musicbrainz_trackid") = <<>>
  <2>1. r.lib = n.lib /\ n.tags = r.tags /\ (r.base = n.base \/ String(n, "title") # <<>>) BY <1>4, <1>8 DEF SameSong
  <2>2. IsSpec(c.album) BY <1>2, ConfSpecs
  <2>3. AlbumOf(c, n) = AlbumOf(c, r) BY <2>1, <2>2, <1>4, PlaceFreePID DEF AlbumOf
  <2>4. nest(n) = nest(r) BY <2>3
  <2>5. mapTrackTitle(n) = mapTrackTitle(r) BY <2>1, TitleOf, TagsOnly
  <2>6. \A name : String(n, name) = String(r, name) BY <2>1, TagsOnly
  <2> HIDE DEF nest
  <2>7. computePID(r, DefaultTrackPID, nest(r)) = computePID(n, DefaultTrackPID, nest(n)) BY <2>1, <2>4, <2>5, <2>6, TrackIsSong
  <2>8. QED BY <2>7, <1>1, <1>6 DEF r
<1>9. QED BY <1>7, <1>8

LEMMA ImportCarries ==
    ASSUME IdInv, NEW f \in Imported, Imports(f),
           row'[f] # row[f], row'[f].tags = row[f].tags, row'[f].lib = row[f].lib,
           row[f].conf.album \in {storedConf, pidConf.album},
           ~PathMatters(row[f].conf.album, row[f]),
           (Uses(row[f].conf.album, "albumid") => row[f].conf.album = pidConf.album)
    PROVE  row'[f].prev = row[f].album \/ row'[f].album = row[f].album
<1> DEFINE r == row[f]
           n == ToMediaFile(f)
           spec == row[f].conf.album
<1>1. row'[f] = n /\ pidConf \in Configs BY DEF Imports, IdInv, Imported
<1>2. r.conf \in Configs /\ r.album = computePID(r, spec, <<>>) BY DEF Imported, IdInv, RowInv, AlbumOf
<1>3. n.album = computePID(n, pidConf.album, <<>>) /\ n.prev = prevAlbumID(f) /\ n.tags = file[f].tags /\ n.lib = file[f].lib
    BY <1>1, MadeOf DEF AlbumOf
<1>4. n.tags = r.tags /\ n.lib = r.lib BY <1>1
<1>5. IsSpec(spec) BY <1>2, ConfSpecs
<1>6. ~NamesFolder(spec) /\ (Uses(spec, "title") => String(r, "title") # <<>>) BY DEF PathMatters
<1>7. CASE spec = pidConf.album
  <2>1. computePID(r, spec, <<>>) = computePID(n, spec, <<>>) BY <1>4, <1>5, <1>6, PlaceFreePID
  <2>2. QED BY <2>1, <1>1, <1>2, <1>3, <1>7
<1>8. CASE spec # pidConf.album
  <2>1. spec = storedConf /\ ~Uses(spec, "albumid") BY <1>8
  <2>2. CASE row[f] # NoSong /\ Place(row[f]) = Place(file[f])
    <3>1. prevAlbumID(f) = row[f].album BY <2>2 DEF prevAlbumID
    <3>2. QED BY <3>1, <1>1, <1>3
  <2>3. CASE ~(row[f] # NoSong /\ Place(row[f]) = Place(file[f]))
    <3>1. prevAlbumID(f) = albumID(file[f], spec) BY <2>1, <2>3 DEF prevAlbumID
    <3>2. albumID(file[f], spec) = computePID(file[f], spec, NestedAlbumID(file[f], spec)) BY DEF albumID
    <3>3. r.tags = file[f].tags /\ r.lib = file[f].lib BY <1>3, <1>4
    <3>4. computePID(r, spec, <<>>) = computePID(file[f], spec, NestedAlbumID(file[f], spec))
        BY <3>3, <2>1, <1>5, <1>6, PlaceFreePID
    <3>5. QED BY <3>1, <3>2, <3>4, <1>1, <1>2, <1>3
  <2>4. QED BY <2>2, <2>3
<1>9. QED BY <1>7, <1>8

LEMMA StepKeeps ==
    ASSUME IdInv, [IdNext]_idVars
    PROVE  \A f \in Imported : KeepsItsId(f) /\ CarriesOver(f)
<1>1. CASE row' = row
    BY <1>1 DEF KeepsItsId, CarriesOver
<1>2. ASSUME NEW g \in Files, Imports(g), NEW f \in Imported
      PROVE  KeepsItsId(f) /\ CarriesOver(f)
  <2>1. CASE f = g
    <3>1. KeepsItsId(f) BY <2>1, <1>2, ImportKeeps DEF KeepsItsId
    <3>2. CarriesOver(f) BY <2>1, <1>2, ImportCarries DEF CarriesOver
    <3>3. QED BY <3>1, <3>2
  <2>2. CASE f # g
    <3>1. row'[f] = row[f] BY <2>2, <1>2 DEF Imports, IdInv, Imported
    <3>2. QED BY <3>1 DEF KeepsItsId, CarriesOver
  <2>3. QED BY <2>1, <2>2
<1>3. CASE UNCHANGED idVars BY <1>1, <1>3 DEF idVars
<1>4. QED BY <1>1, <1>2, <1>3, OneFile

\* Whatever the specifications, the taggings and the places: through moves, edits and
\* reconfigurations between scans, equal ids mean the same release or song, and what
\* stays the same keeps its id (computePID, getPIDAttr, loadTagsFromFiles).
THEOREM IdsStayStable == IdSpec => IdsAreStable
<1>1. IdInit => IdInv BY IdInvInit
<1>2. IdInv /\ [IdNext]_idVars => IdInv' BY IdInvNext
<1>3. IdInv => LibrariesShareNothing /\ AlbumsAreReleases BY InvLibraries, InvReleases
<1>4. IdInv /\ [IdNext]_idVars => [\A f \in Imported : KeepsItsId(f)]_idVars BY StepKeeps
<1>5. IdInv /\ [IdNext]_idVars => [\A f \in Imported : CarriesOver(f)]_idVars BY StepKeeps
<1>6. SongsKeepTheirIds <=> [][\A f \in Imported : KeepsItsId(f)]_idVars BY DEF SongsKeepTheirIds, KeepsItsId
<1>7. AlbumsCarryOver <=> [][\A f \in Imported : CarriesOver(f)]_idVars BY DEF AlbumsCarryOver, CarriesOver
<1>8. QED BY <1>1, <1>2, <1>3, <1>4, <1>5, <1>6, <1>7, PTL DEF IdSpec, IdsAreStable
==============================================================================
