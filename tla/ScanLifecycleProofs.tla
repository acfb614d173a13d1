--------------------------- MODULE ScanLifecycleProofs ---------------------------
(***************************************************************************)
(* Proofs about ScanLifecycle for every set of libraries and folders,      *)
(* every set of requests and every bound on edits, crashes and failures.   *)
(*                                                                         *)
(* None of the properties is inductive.  SkipInv orders what a folder's    *)
(* row and its entry in the pipeline saw of the disk: mtime, then tags,    *)
(* then the hash.  CurrentInv adds the start of the scan to that order and *)
(* follows every folder from the walk to its row.  AlbumInv and StatsInv   *)
(* tie an incomplete album and a stale count to the scan columns and the   *)
(* step that will repair them; KeepInv follows every folder a full scan    *)
(* owes through the promotion of later scans.                              *)
(***************************************************************************)
EXTENDS ScanLifecycle, TLAPS

\* The constants.
LEMMA Bounds ==
    /\ LibOf \in [Folders -> Libs]
    /\ MaxRequests \in Nat /\ MaxEdits \in Nat
    /\ MaxCrashes \in Nat /\ MaxFaults \in Nat
BY ScanAssumption

\* What a request asks for is a scan of known folders.
LEMMA RequestTypes ==
    ASSUME NEW r \in Requests
    PROVE  r.full \in BOOLEAN /\ r.targets \subseteq Folders
BY ScanAssumption DEF ScanRequest

\* ScanBegin writes rows of the right type.
LEMMA BeginTypes ==
    ASSUME TypeOK, NEW l \in Libs, ScanBegin(l)
    PROVE  /\ lib' \in [Libs -> [inProgress : BOOLEAN, full : BOOLEAN]]
           /\ fol' \in [Folders -> [known : BOOLEAN, since : BOOLEAN, hash : Hashes,
                                    content : Versions, unread : BOOLEAN]]
           /\ owed' \subseteq Folders
           /\ UNCHANGED <<alb, stats>>
<1> DEFINE b == full
<1>1. b \in BOOLEAN
  BY DEF TypeOK, ScanTypes
<1>2. lib' = [lib EXCEPT ![l] = [inProgress |-> TRUE, full |-> b]]
  BY DEF ScanBegin
<1>3. [inProgress |-> TRUE, full |-> b] \in [inProgress : BOOLEAN, full : BOOLEAN]
  BY <1>1
<1> HIDE DEF b
<1>4. lib' \in [Libs -> [inProgress : BOOLEAN, full : BOOLEAN]]
  BY <1>2, <1>3 DEF TypeOK, RowTypes
<1>5. owed' \subseteq Folders /\ UNCHANGED <<alb, stats>>
  BY DEF ScanBegin, TypeOK, RowTypes, FoldersOf
<1>6. fol' \in [Folders -> [known : BOOLEAN, since : BOOLEAN, hash : Hashes,
                            content : Versions, unread : BOOLEAN]]
  BY DEF ScanBegin, TypeOK, RowTypes
<1> QED
  BY <1>4, <1>5, <1>6

\* finalize writes rows of the right type, and keeps what was imported.
LEMMA FinalizeTypes ==
    ASSUME TypeOK, NEW M \in SUBSET Folders, finalize(M)
    PROVE  /\ fol' \in [Folders -> [known : BOOLEAN, since : BOOLEAN, hash : Hashes,
                                    content : Versions, unread : BOOLEAN]]
           /\ alb' \in [Folders -> [ended : SUBSET Libs, whole : BOOLEAN]]
           /\ \A f \in Folders : /\ fol'[f].unread = fol[f].unread
                                 /\ fol'[f].hash = fol[f].hash
                                 /\ fol'[f].content = fol[f].content
<1> DEFINE FolderRow == [known : BOOLEAN, since : BOOLEAN, hash : Hashes,
                         content : Versions, unread : BOOLEAN]
           AlbumRow == [ended : SUBSET Libs, whole : BOOLEAN]
<1>1. ASSUME NEW f \in Folders
      PROVE  /\ fol'[f] \in FolderRow
             /\ fol'[f].unread = fol[f].unread
             /\ fol'[f].hash = fol[f].hash
             /\ fol'[f].content = fol[f].content
  <2>1. fol[f] \in FolderRow
    BY DEF TypeOK, RowTypes
  <2>2. fol'[f] = [fol[f] EXCEPT !.known = FALSE, !.since = TRUE] \/ fol'[f] = fol[f]
    BY DEF finalize
  <2> QED
    BY <2>1, <2>2
<1>2. ASSUME NEW f \in Folders PROVE alb'[f] \in AlbumRow
  <2>1. alb[f] \in AlbumRow
    BY DEF TypeOK, RowTypes
  <2>2. \/ alb'[f] = [ended |-> {}, whole |-> FALSE]
        \/ alb'[f] = [alb[f] EXCEPT !.ended = {}]
        \/ alb'[f] = alb[f]
    BY DEF finalize
  <2>3. [ended |-> {}, whole |-> FALSE] \in AlbumRow
    OBVIOUS
  <2>4. [alb[f] EXCEPT !.ended = {}] \in AlbumRow
    BY <2>1
  <2> QED
    BY <2>1, <2>2, <2>3, <2>4, Zenon
<1>3. fol' = [f \in Folders |-> fol'[f]] /\ alb' = [f \in Folders |-> alb'[f]]
  BY DEF finalize
<1> HIDE DEF FolderRow, AlbumRow
<1>4. fol' \in [Folders -> FolderRow] /\ alb' \in [Folders -> AlbumRow]
  BY <1>1, <1>2, <1>3
<1> QED
  BY <1>1, <1>4 DEF FolderRow, AlbumRow

\* The process, the flag and the bounds.
LEMMA HostStep == HostTypes /\ [Next]_vars => HostTypes'
<1> SUFFICES ASSUME HostTypes, [Next]_vars PROVE HostTypes'
  OBVIOUS
<1> USE Bounds DEF HostTypes
<1>1. ASSUME NEW f \in Folders, Edit(f) PROVE HostTypes'
  BY <1>1 DEF Edit, rowVars, hostVars, scanVars, bounds
<1>2. ASSUME Request PROVE HostTypes'
  BY <1>2 DEF Request, StartScan, rowVars, hostVars, scanVars, bounds
<1>3. ASSUME ScheduledScan PROVE HostTypes'
  BY <1>3 DEF ScheduledScan, StartScan, rowVars, hostVars, scanVars, bounds
<1>4. ASSUME BootRead PROVE HostTypes'
  BY <1>4 DEF BootRead, rowVars, hostVars, scanVars, bounds
<1>5. ASSUME BootScan PROVE HostTypes'
  BY <1>5 DEF BootScan, StartScan, rowVars, hostVars, scanVars, bounds
<1>6. ASSUME NEW l \in Libs, PrepareLibrary(l) PROVE HostTypes'
  BY <1>6 DEF PrepareLibrary, rowVars, hostVars, scanVars, bounds
<1>7. ASSUME Prepared PROVE HostTypes'
  BY <1>7 DEF Prepared, rowVars, hostVars, scanVars, bounds
<1>8. ASSUME createPhaseFolders PROVE HostTypes'
  BY <1>8 DEF createPhaseFolders, rowVars, hostVars, scanVars, bounds
<1>9. ASSUME NEW f \in Folders, loadDir(f) PROVE HostTypes'
  BY <1>9 DEF loadDir, rowVars, hostVars, scanVars, bounds
<1>10. ASSUME NEW f \in Folders, producerSkips(f) PROVE HostTypes'
  BY <1>10 DEF producerSkips, InEntry, rowVars, hostVars, scanVars, bounds
<1>11. ASSUME NEW f \in Folders, processFolder(f) PROVE HostTypes'
  BY <1>11
  DEF processFolder, InEntry, Fault, NoFault, rowVars, hostVars, scanVars, bounds
<1>12. ASSUME NEW f \in Folders, persistChanges(f) PROVE HostTypes'
  BY <1>12 DEF persistChanges, rowVars, hostVars, scanVars, bounds
<1>13. ASSUME Phase1Ends PROVE HostTypes'
  BY <1>13 DEF Phase1Ends, rowVars, hostVars, scanVars, bounds
<1>14. ASSUME NEW f \in Folders, refreshAlbum(f) PROVE HostTypes'
  BY <1>14 DEF refreshAlbum, rowVars, hostVars, scanVars, bounds
<1>15. ASSUME Phase3Ends PROVE HostTypes'
  BY <1>15 DEF Phase3Ends, rowVars, hostVars, scanVars, bounds
<1>16. ASSUME runGC PROVE HostTypes'
  BY <1>16 DEF runGC, FinalStep, rowVars, hostVars, scanVars, bounds
<1>17. ASSUME runEnqueueMissingArtwork PROVE HostTypes'
  BY <1>17 DEF runEnqueueMissingArtwork, FinalStep, rowVars, hostVars, scanVars, bounds
<1>18. ASSUME runRefreshStats PROVE HostTypes'
  BY <1>18 DEF runRefreshStats, FinalStep, rowVars, hostVars, scanVars, bounds
<1>19. ASSUME runUpdateLibraries PROVE HostTypes'
  BY <1>19 DEF runUpdateLibraries, rowVars, hostVars, scanVars, bounds
<1>20. ASSUME NEW l \in Libs, PrepareFails(l) PROVE HostTypes'
  BY <1>20 DEF PrepareFails, Fault, rowVars, hostVars, scanVars, bounds
<1>21. ASSUME NEW l \in Libs, newScanJobFails(l) PROVE HostTypes'
  BY <1>21 DEF newScanJobFails, Fault, rowVars, hostVars, scanVars, bounds
<1>22. ASSUME Phase1Fails PROVE HostTypes'
  BY <1>22 DEF Phase1Fails, Fault, rowVars, hostVars, scanVars, bounds
<1>23. ASSUME LaterStepFails PROVE HostTypes'
  BY <1>23 DEF LaterStepFails, Fault, rowVars, hostVars, scanVars, bounds
<1>24. ASSUME Crash PROVE HostTypes'
  <2>1. crashes' \in 0..MaxCrashes /\ UNCHANGED <<requests, faults>>
    BY <1>24 DEF Crash
  <2>2. up' = FALSE /\ boot' = "off" /\ UNCHANGED fullFlag
    BY <1>24 DEF Crash
  <2> QED
    BY <2>1, <2>2
<1>25. ASSUME Restart PROVE HostTypes'
  BY <1>25 DEF Restart, rowVars, hostVars, scanVars, bounds
<1>26. CASE UNCHANGED vars
  BY <1>26 DEF vars, rowVars, hostVars, scanVars, bounds
<1> QED
  BY <1>1, <1>2, <1>3, <1>4, <1>5, <1>6, <1>7, <1>8, <1>9, <1>10, <1>11, <1>12, <1>13,
     <1>14, <1>15, <1>16, <1>17, <1>18, <1>19, <1>20, <1>21, <1>22, <1>23, <1>24, <1>25,
     <1>26
  DEF Next, Scanning, Failing

\* The rows of the database, the disk and the history.
LEMMA RowStep == TypeOK /\ [Next]_vars => RowTypes'
<1> SUFFICES ASSUME TypeOK, [Next]_vars PROVE RowTypes'
  OBVIOUS
<1> USE Bounds DEF TypeOK, RowTypes, ScanTypes, Versions, Hashes, Hash, Entries
<1>1. ASSUME NEW f \in Folders, Edit(f) PROVE RowTypes'
  BY <1>1 DEF Edit, rowVars, hostVars, scanVars, bounds
<1>2. ASSUME Request PROVE RowTypes'
  BY <1>2, RequestTypes DEF Request, StartScan, rowVars, hostVars, scanVars, bounds
<1>3. ASSUME ScheduledScan PROVE RowTypes'
  BY <1>3 DEF ScheduledScan, StartScan, rowVars, hostVars, scanVars, bounds
<1>4. ASSUME BootRead PROVE RowTypes'
  BY <1>4 DEF BootRead, rowVars, hostVars, scanVars, bounds
<1>5. ASSUME BootScan PROVE RowTypes'
  BY <1>5 DEF BootScan, StartScan, rowVars, hostVars, scanVars, bounds
<1>6. ASSUME NEW l \in Libs, PrepareLibrary(l) PROVE RowTypes'
  BY <1>6, BeginTypes DEF PrepareLibrary, rowVars, hostVars, scanVars, bounds
<1>7. ASSUME Prepared PROVE RowTypes'
  BY <1>7 DEF Prepared, EndScan, rowVars, hostVars, scanVars, bounds
<1>8. ASSUME createPhaseFolders PROVE RowTypes'
  BY <1>8 DEF createPhaseFolders, Walk, rowVars, hostVars, scanVars, bounds
<1>9. ASSUME NEW f \in Folders, loadDir(f) PROVE RowTypes'
  BY <1>9 DEF loadDir, rowVars, hostVars, scanVars, bounds
<1>10. ASSUME NEW f \in Folders, producerSkips(f) PROVE RowTypes'
  BY <1>10 DEF producerSkips, InEntry, rowVars, hostVars, scanVars, bounds
<1>11. ASSUME NEW f \in Folders, processFolder(f) PROVE RowTypes'
  BY <1>11
  DEF processFolder, InEntry, Fault, NoFault, rowVars, hostVars, scanVars, bounds
<1>12. ASSUME NEW f \in Folders, persistChanges(f) PROVE RowTypes'
  <2> DEFINE e == entry[f]
             u == e.unread
  <2>1. e \in Entries /\ e.tags \in Versions
    BY <1>12, NoneAssumption DEF persistChanges
  <2>2. u \in BOOLEAN /\ e.modTime \in Versions /\ Hash(e.modTime, disk[f]) \in Hashes
    BY <2>1
  <2>3. fol' = [fol EXCEPT ![f] =
                  [known |-> TRUE, since |-> TRUE, hash |-> Hash(e.modTime, disk[f]),
                   content |-> e.tags, unread |-> u]]
    BY <1>12 DEF persistChanges
  <2> HIDE DEF e, u, Hash, Hashes, Versions, Entries
  <2>4. fol' \in [Folders -> [known : BOOLEAN, since : BOOLEAN, hash : Hashes,
                              content : Versions, unread : BOOLEAN]]
    BY <2>1, <2>2, <2>3
  <2>5. alb' \in [Folders -> [ended : SUBSET Libs, whole : BOOLEAN]]
    <3>1. alb \in [Folders -> [ended : SUBSET Libs, whole : BOOLEAN]]
      OBVIOUS
    <3>2. CASE e.imports
      <4>1. PICK w \in BOOLEAN : alb' = [alb EXCEPT ![f] = [ended |-> {}, whole |-> w]]
        BY <3>2, <1>12 DEF persistChanges, e
      <4>2. [ended |-> {}, whole |-> w] \in [ended : SUBSET Libs, whole : BOOLEAN]
        OBVIOUS
      <4> QED
        BY <3>1, <4>1, <4>2
    <3>3. CASE ~e.imports
      BY <3>1, <3>3, <1>12 DEF persistChanges, e
    <3> QED
      BY <3>2, <3>3
  <2>6. /\ stats' \in [Folders -> {"fresh", "stale", "orphaned"}]
        /\ owed' \subseteq Folders
        /\ UNCHANGED <<disk, lib, asOf>>
    BY <1>12 DEF persistChanges
  <2> QED
    BY <2>4, <2>5, <2>6
<1>13. ASSUME Phase1Ends PROVE RowTypes'
  BY <1>13 DEF Phase1Ends, rowVars, hostVars, scanVars, bounds
<1>14. ASSUME NEW f \in Folders, refreshAlbum(f) PROVE RowTypes'
  BY <1>14 DEF refreshAlbum, rowVars, hostVars, scanVars, bounds
<1>15. ASSUME Phase3Ends PROVE RowTypes'
  BY <1>15 DEF Phase3Ends, rowVars, hostVars, scanVars, bounds
<1>16. ASSUME runGC PROVE RowTypes'
  BY <1>16 DEF runGC, FinalStep, rowVars, hostVars, scanVars, bounds
<1>17. ASSUME runEnqueueMissingArtwork PROVE RowTypes'
  BY <1>17 DEF runEnqueueMissingArtwork, FinalStep, rowVars, hostVars, scanVars, bounds
<1>18. ASSUME runRefreshStats PROVE RowTypes'
  BY <1>18 DEF runRefreshStats, FinalStep, rowVars, hostVars, scanVars, bounds
<1>19. ASSUME runUpdateLibraries PROVE RowTypes'
  BY <1>19 DEF runUpdateLibraries, EndScan, rowVars, hostVars, scanVars, bounds
<1>20. ASSUME NEW l \in Libs, PrepareFails(l) PROVE RowTypes'
  BY <1>20, BeginTypes DEF PrepareFails, FoldersOf, rowVars, hostVars, scanVars, bounds
<1>21. ASSUME NEW l \in Libs, newScanJobFails(l) PROVE RowTypes'
  BY <1>21 DEF newScanJobFails, Walk, Fault, rowVars, hostVars, scanVars, bounds
<1>22. ASSUME Phase1Fails PROVE RowTypes'
  <2>1. PICK M \in SUBSET Folders : finalize(M)
    BY <1>22 DEF Phase1Fails
  <2> QED
    BY <2>1, FinalizeTypes, <1>22 DEF Phase1Fails, Orphan, EndScan, hostVars
<1>23. ASSUME LaterStepFails PROVE RowTypes'
  BY <1>23
  DEF LaterStepFails, Fault, Orphan, EndScan, rowVars, hostVars, scanVars, bounds
<1>24. ASSUME Crash PROVE RowTypes'
  BY <1>24 DEF Crash, Orphan, EndScan, rowVars, hostVars, scanVars, bounds
<1>25. ASSUME Restart PROVE RowTypes'
  BY <1>25 DEF Restart, rowVars, hostVars, scanVars, bounds
<1>26. CASE UNCHANGED vars
  BY <1>26 DEF vars, rowVars, hostVars, scanVars, bounds
<1> QED
  BY <1>1, <1>2, <1>3, <1>4, <1>5, <1>6, <1>7, <1>8, <1>9, <1>10, <1>11, <1>12, <1>13,
     <1>14, <1>15, <1>16, <1>17, <1>18, <1>19, <1>20, <1>21, <1>22, <1>23, <1>24, <1>25,
     <1>26
  DEF Next, Scanning, Failing

\* processFolder keeps the folder's entry an entry.
LEMMA ProcessedEntry ==
    ASSUME TypeOK, NEW f \in Folders, processFolder(f)
    PROVE  /\ entry' \in [Folders -> Entries \cup {None}]
           /\ entry'[f] \in Entries
<1> USE DEF TypeOK, RowTypes, ScanTypes, Entries
<1>1. entry[f] \in Entries
  BY DEF processFolder, InEntry
<1> DEFINE i == full \/ disk[f] # fol[f].content \/ ~fol[f].known
           old == entry[f]
<1>2. i \in BOOLEAN /\ disk[f] \in Versions /\ fol[f].content \in Versions
  OBVIOUS
<1>3. \/ entry' = [entry EXCEPT ![f] = [old EXCEPT !.tags = disk[f], !.imports = i]]
      \/ entry' = [entry EXCEPT ![f] = [old EXCEPT !.tags = fol[f].content,
                                                   !.unread = TRUE]]
  BY DEF processFolder
<1> HIDE DEF i, old
<1>4. [old EXCEPT !.tags = disk[f], !.imports = i] \in Entries
  BY <1>1, <1>2 DEF old
<1>5. [old EXCEPT !.tags = fol[f].content, !.unread = TRUE] \in Entries
  BY <1>1, <1>2 DEF old
<1> HIDE DEF Entries
<1> QED
  BY <1>3, <1>4, <1>5

\* scanState and the pipeline of phase 1.
LEMMA ScanStep == TypeOK /\ [Next]_vars => ScanTypes'
<1> SUFFICES ASSUME TypeOK, [Next]_vars PROVE ScanTypes'
  OBVIOUS
<1> USE Bounds DEF TypeOK, RowTypes, ScanTypes, Entries, Steps, FinalSteps
<1>1. ASSUME NEW f \in Folders, Edit(f) PROVE ScanTypes'
  BY <1>1 DEF Edit, rowVars, hostVars, scanVars, bounds
<1>2. ASSUME Request PROVE ScanTypes'
  <2>1. PICK r \in Requests : StartScan(r)
    BY <1>2 DEF Request
  <2>2. r.full \in BOOLEAN /\ r.targets \subseteq Folders
    BY RequestTypes
  <2>3. full' \in BOOLEAN /\ asked' \in BOOLEAN /\ changes' \in BOOLEAN
    BY <2>1, <2>2 DEF StartScan
  <2>4. libs' \subseteq Libs /\ toBegin' \subseteq libs'
    BY <2>1, <2>2 DEF StartScan
  <2>5. /\ pc' \in Steps
        /\ scope' \subseteq Folders /\ todo' \subseteq scope'
        /\ entry' \in [Folders -> Entries \cup {None}]
    BY <2>1, <2>2 DEF StartScan, PhaseTypes
  <2> QED
    BY <2>3, <2>4, <2>5
<1>3. ASSUME ScheduledScan PROVE ScanTypes'
  BY <1>3 DEF ScheduledScan, StartScan, rowVars, hostVars, scanVars, bounds
<1>4. ASSUME BootRead PROVE ScanTypes'
  BY <1>4 DEF BootRead, rowVars, hostVars, scanVars, bounds
<1>5. ASSUME BootScan PROVE ScanTypes'
  BY <1>5 DEF BootScan, StartScan, rowVars, hostVars, scanVars, bounds
<1>6. ASSUME NEW l \in Libs, PrepareLibrary(l) PROVE ScanTypes'
  BY <1>6 DEF PrepareLibrary, ScanBegin, rowVars, hostVars, scanVars, bounds
<1>7. ASSUME Prepared PROVE ScanTypes'
  BY <1>7 DEF Prepared, EndScan, rowVars, hostVars, scanVars, bounds
<1>8. ASSUME createPhaseFolders PROVE ScanTypes'
  BY <1>8 DEF createPhaseFolders, Walk, rowVars, hostVars, scanVars, bounds
<1>9. ASSUME NEW f \in Folders, loadDir(f) PROVE ScanTypes'
  BY <1>9 DEF loadDir, rowVars, hostVars, scanVars, bounds
<1>10. ASSUME NEW f \in Folders, producerSkips(f) PROVE ScanTypes'
  BY <1>10 DEF producerSkips, InEntry, rowVars, hostVars, scanVars, bounds
<1>11. ASSUME NEW f \in Folders, processFolder(f) PROVE ScanTypes'
  BY <1>11, ProcessedEntry DEF processFolder, rowVars, hostVars, scanVars, bounds
<1>12. ASSUME NEW f \in Folders, persistChanges(f) PROVE ScanTypes'
  BY <1>12 DEF persistChanges, rowVars, hostVars, scanVars, bounds
<1>13. ASSUME Phase1Ends PROVE ScanTypes'
  BY <1>13 DEF Phase1Ends, rowVars, hostVars, scanVars, bounds
<1>14. ASSUME NEW f \in Folders, refreshAlbum(f) PROVE ScanTypes'
  BY <1>14 DEF refreshAlbum, rowVars, hostVars, scanVars, bounds
<1>15. ASSUME Phase3Ends PROVE ScanTypes'
  BY <1>15 DEF Phase3Ends, rowVars, hostVars, scanVars, bounds
<1>16. ASSUME runGC PROVE ScanTypes'
  BY <1>16 DEF runGC, FinalStep, rowVars, hostVars, scanVars, bounds
<1>17. ASSUME runEnqueueMissingArtwork PROVE ScanTypes'
  BY <1>17 DEF runEnqueueMissingArtwork, FinalStep, rowVars, hostVars, scanVars, bounds
<1>18. ASSUME runRefreshStats PROVE ScanTypes'
  BY <1>18 DEF runRefreshStats, FinalStep, rowVars, hostVars, scanVars, bounds
<1>19. ASSUME runUpdateLibraries PROVE ScanTypes'
  BY <1>19 DEF runUpdateLibraries, EndScan, rowVars, hostVars, scanVars, bounds
<1>20. ASSUME NEW l \in Libs, PrepareFails(l) PROVE ScanTypes'
  BY <1>20 DEF PrepareFails, ScanBegin, Fault, rowVars, hostVars, scanVars, bounds
<1>21. ASSUME NEW l \in Libs, newScanJobFails(l) PROVE ScanTypes'
  BY <1>21 DEF newScanJobFails, Walk, Fault, rowVars, hostVars, scanVars, bounds
<1>22. ASSUME Phase1Fails PROVE ScanTypes'
  BY <1>22 DEF Phase1Fails, Fault, Orphan, EndScan, rowVars, hostVars, scanVars, bounds
<1>23. ASSUME LaterStepFails PROVE ScanTypes'
  BY <1>23
  DEF LaterStepFails, Fault, Orphan, EndScan, rowVars, hostVars, scanVars, bounds
<1>24. ASSUME Crash PROVE ScanTypes'
  BY <1>24 DEF Crash, Orphan, EndScan, rowVars, hostVars, scanVars, bounds
<1>25. ASSUME Restart PROVE ScanTypes'
  BY <1>25 DEF Restart, rowVars, hostVars, scanVars, bounds
<1>26. CASE UNCHANGED vars
  BY <1>26 DEF vars, rowVars, hostVars, scanVars, bounds
<1> QED
  BY <1>1, <1>2, <1>3, <1>4, <1>5, <1>6, <1>7, <1>8, <1>9, <1>10, <1>11, <1>12, <1>13,
     <1>14, <1>15, <1>16, <1>17, <1>18, <1>19, <1>20, <1>21, <1>22, <1>23, <1>24, <1>25,
     <1>26
  DEF Next, Scanning, Failing

\* No lock without a process, no entries outside phase 1.
LEMMA PhaseStep == TypeOK /\ [Next]_vars => PhaseTypes'
<1> SUFFICES ASSUME TypeOK, [Next]_vars PROVE PhaseTypes'
  OBVIOUS
<1> USE DEF TypeOK, ScanTypes, PhaseTypes, HostTypes
<1>1. ASSUME NEW f \in Folders, Edit(f) PROVE PhaseTypes'
  BY <1>1 DEF Edit, rowVars, hostVars, scanVars, bounds
<1>2. ASSUME Request PROVE PhaseTypes'
  BY <1>2 DEF Request, StartScan, rowVars, hostVars, scanVars, bounds
<1>3. ASSUME ScheduledScan PROVE PhaseTypes'
  BY <1>3 DEF ScheduledScan, StartScan, rowVars, hostVars, scanVars, bounds
<1>4. ASSUME BootRead PROVE PhaseTypes'
  BY <1>4 DEF BootRead, rowVars, hostVars, scanVars, bounds
<1>5. ASSUME BootScan PROVE PhaseTypes'
  BY <1>5 DEF BootScan, StartScan, rowVars, hostVars, scanVars, bounds
<1>6. ASSUME NEW l \in Libs, PrepareLibrary(l) PROVE PhaseTypes'
  BY <1>6 DEF PrepareLibrary, ScanBegin, rowVars, hostVars, scanVars, bounds
<1>7. ASSUME Prepared PROVE PhaseTypes'
  BY <1>7 DEF Prepared, EndScan, rowVars, hostVars, scanVars, bounds
<1>8. ASSUME createPhaseFolders PROVE PhaseTypes'
  BY <1>8 DEF createPhaseFolders, Walk, rowVars, hostVars, scanVars, bounds
<1>9. ASSUME NEW f \in Folders, loadDir(f) PROVE PhaseTypes'
  BY <1>9 DEF loadDir, rowVars, hostVars, scanVars, bounds
<1>10. ASSUME NEW f \in Folders, producerSkips(f) PROVE PhaseTypes'
  BY <1>10 DEF producerSkips, InEntry, rowVars, hostVars, scanVars, bounds
<1>11. ASSUME NEW f \in Folders, processFolder(f) PROVE PhaseTypes'
  BY <1>11
  DEF processFolder, InEntry, Fault, NoFault, rowVars, hostVars, scanVars, bounds
<1>12. ASSUME NEW f \in Folders, persistChanges(f) PROVE PhaseTypes'
  BY <1>12 DEF persistChanges, rowVars, hostVars, scanVars, bounds
<1>13. ASSUME Phase1Ends PROVE PhaseTypes'
  BY <1>13 DEF Phase1Ends, rowVars, hostVars, scanVars, bounds
<1>14. ASSUME NEW f \in Folders, refreshAlbum(f) PROVE PhaseTypes'
  BY <1>14 DEF refreshAlbum, rowVars, hostVars, scanVars, bounds
<1>15. ASSUME Phase3Ends PROVE PhaseTypes'
  BY <1>15 DEF Phase3Ends, rowVars, hostVars, scanVars, bounds
<1>16. ASSUME runGC PROVE PhaseTypes'
  BY <1>16 DEF runGC, FinalStep, rowVars, hostVars, scanVars, bounds
<1>17. ASSUME runEnqueueMissingArtwork PROVE PhaseTypes'
  BY <1>17 DEF runEnqueueMissingArtwork, FinalStep, rowVars, hostVars, scanVars, bounds
<1>18. ASSUME runRefreshStats PROVE PhaseTypes'
  BY <1>18 DEF runRefreshStats, FinalStep, rowVars, hostVars, scanVars, bounds
<1>19. ASSUME runUpdateLibraries PROVE PhaseTypes'
  BY <1>19 DEF runUpdateLibraries, EndScan, rowVars, hostVars, scanVars, bounds
<1>20. ASSUME NEW l \in Libs, PrepareFails(l) PROVE PhaseTypes'
  BY <1>20 DEF PrepareFails, ScanBegin, Fault, rowVars, hostVars, scanVars, bounds
<1>21. ASSUME NEW l \in Libs, newScanJobFails(l) PROVE PhaseTypes'
  BY <1>21 DEF newScanJobFails, Walk, Fault, rowVars, hostVars, scanVars, bounds
<1>22. ASSUME Phase1Fails PROVE PhaseTypes'
  BY <1>22 DEF Phase1Fails, Fault, Orphan, EndScan, rowVars, hostVars, scanVars, bounds
<1>23. ASSUME LaterStepFails PROVE PhaseTypes'
  BY <1>23
  DEF LaterStepFails, Fault, Orphan, EndScan, rowVars, hostVars, scanVars, bounds
<1>24. ASSUME Crash PROVE PhaseTypes'
  BY <1>24 DEF Crash, Orphan, EndScan, rowVars, hostVars, scanVars, bounds
<1>25. ASSUME Restart PROVE PhaseTypes'
  BY <1>25 DEF Restart, rowVars, hostVars, scanVars, bounds
<1>26. CASE UNCHANGED vars
  BY <1>26 DEF vars, rowVars, hostVars, scanVars, bounds
<1> QED
  BY <1>1, <1>2, <1>3, <1>4, <1>5, <1>6, <1>7, <1>8, <1>9, <1>10, <1>11, <1>12, <1>13,
     <1>14, <1>15, <1>16, <1>17, <1>18, <1>19, <1>20, <1>21, <1>22, <1>23, <1>24, <1>25,
     <1>26
  DEF Next, Scanning, Failing

\* The type invariant holds at the start.
LEMMA TypeInit == Init => TypeOK
<1> SUFFICES ASSUME Init PROVE TypeOK
  OBVIOUS
<1> USE Bounds DEF Init, Versions, Hashes, Hash, Steps
<1>1. RowTypes
  BY DEF RowTypes
<1>2. HostTypes
  BY DEF HostTypes
<1>3. ScanTypes /\ PhaseTypes
  BY DEF ScanTypes, PhaseTypes
<1> QED
  BY <1>1, <1>2, <1>3 DEF TypeOK

\* Every step keeps the type invariant.
LEMMA TypeStep == TypeOK /\ [Next]_vars => TypeOK'
BY RowStep, HostStep, ScanStep, PhaseStep DEF TypeOK

\* Whatever the libraries, the requests and the bounds: rows, scan state and
\* pipeline keep their types through crashes and failures of
\* scanner/scanner.go, and the scan lock is held only by a running process.
THEOREM TypeCorrect == Spec => []TypeOK
BY TypeInit, TypeStep, PTL DEF Spec

-------------------------------------------------------------------------------
\* What an entry in the pipeline and a folder row know of the disk: the mtime
\* is seen before the tags are read, and the tags before the hash is stored.
EntryInOrder(f) ==
    entry[f] # None =>
        /\ entry[f].modTime <= disk[f]
        /\ entry[f].tags # None /\ ~entry[f].unread =>
              entry[f].modTime <= entry[f].tags /\ entry[f].tags <= disk[f]

RowInOrder(f) ==
    ~fol[f].unread => fol[f].hash[1] <= fol[f].content /\ fol[f].content <= disk[f]

SkipInv == \A f \in Folders : EntryInOrder(f) /\ RowInOrder(f)

\* The versions a folder's row and entry carry are integers.
LEMMA VersionFacts ==
    ASSUME TypeOK, NEW f \in Folders
    PROVE  /\ disk[f] \in Int /\ fol[f].content \in Int
           /\ fol[f].hash[1] \in Int /\ fol[f].hash[2] \in Int
           /\ fol[f].hash = <<fol[f].hash[1], fol[f].hash[2]>>
           /\ entry[f] # None =>
                 /\ entry[f].modTime \in Int
                 /\ entry[f].tags # None => entry[f].tags \in Int
BY Bounds DEF TypeOK, RowTypes, ScanTypes, Versions, Hashes, Entries

\* A step that leaves the folder's row as it is, and its entry or drops it,
\* keeps the order; the disk may move on.
LEMMA OrderKept ==
    ASSUME TypeOK, TypeOK', SkipInv, NEW f \in Folders,
           disk[f] <= disk'[f],
           entry'[f] = entry[f] \/ entry'[f] = None,
           fol'[f].unread = fol[f].unread,
           fol'[f].hash = fol[f].hash,
           fol'[f].content = fol[f].content
    PROVE  EntryInOrder(f)' /\ RowInOrder(f)'
<1>1. EntryInOrder(f) /\ RowInOrder(f)
  BY DEF SkipInv
<1>2. disk[f] \in Int /\ disk'[f] \in Int
  <2>1. disk'[f] \in Int
    BY Bounds DEF TypeOK, RowTypes, Versions
  <2> QED
    BY <2>1, VersionFacts
<1>3. EntryInOrder(f)'
  BY <1>1, <1>2, VersionFacts DEF EntryInOrder
<1>4. RowInOrder(f)'
  BY <1>1, <1>2, VersionFacts DEF RowInOrder
<1> QED
  BY <1>3, <1>4

\* Every step keeps the order of what was seen of the disk.
LEMMA SkipStep == TypeOK /\ TypeOK' /\ SkipInv /\ [Next]_vars => SkipInv'
<1> SUFFICES ASSUME TypeOK, TypeOK', SkipInv, [Next]_vars, NEW g \in Folders
             PROVE  EntryInOrder(g)' /\ RowInOrder(g)'
  BY DEF SkipInv
<1> DEFINE Goal == EntryInOrder(g)' /\ RowInOrder(g)'
<1>a. disk \in [Folders -> Versions] /\ entry \in [Folders -> Entries \cup {None}]
  BY DEF TypeOK, RowTypes, ScanTypes
<1>b. disk[g] \in Int
  BY VersionFacts
<1>1. ASSUME NEW f \in Folders, Edit(f) PROVE Goal
  <2>1. disk[g] <= disk'[g]
    BY <1>1, <1>a, <1>b DEF Edit
  <2> QED
    BY <2>1, <1>1, OrderKept DEF Edit, rowVars, scanVars
<1>2. ASSUME Request PROVE Goal
  BY <1>a, <1>b, <1>2, OrderKept DEF Request, StartScan, rowVars, scanVars
<1>3. ASSUME ScheduledScan PROVE Goal
  BY <1>a, <1>b, <1>3, OrderKept DEF ScheduledScan, StartScan, rowVars, scanVars
<1>4. ASSUME BootRead PROVE Goal
  BY <1>a, <1>b, <1>4, OrderKept DEF BootRead, rowVars, scanVars
<1>5. ASSUME BootScan PROVE Goal
  BY <1>a, <1>b, <1>5, OrderKept DEF BootScan, StartScan, rowVars, scanVars
<1>6. ASSUME NEW l \in Libs, PrepareLibrary(l) PROVE Goal
  <2>1. fol'[g] = fol[g] \/ fol'[g] = [fol[g] EXCEPT !.since = FALSE]
    BY <1>6 DEF PrepareLibrary, ScanBegin, rowVars
  <2>2. fol[g] \in [known : BOOLEAN, since : BOOLEAN, hash : Hashes,
                    content : Versions, unread : BOOLEAN]
    BY DEF TypeOK, RowTypes
  <2>3. /\ fol'[g].unread = fol[g].unread
        /\ fol'[g].hash = fol[g].hash
        /\ fol'[g].content = fol[g].content
    BY <2>1, <2>2
  <2> QED
    BY <2>3, <1>b, <1>6, OrderKept DEF PrepareLibrary
<1>7. ASSUME Prepared PROVE Goal
  BY <1>a, <1>b, <1>7, OrderKept DEF Prepared, EndScan, rowVars, scanVars
<1>8. ASSUME createPhaseFolders PROVE Goal
  BY <1>a, <1>b, <1>8, OrderKept DEF createPhaseFolders, Walk, rowVars, scanVars
<1>9. ASSUME NEW f \in Folders, loadDir(f) PROVE Goal
  <2>1. CASE g = f
    <3>1. RowInOrder(g)'
      BY <1>9 DEF loadDir, rowVars, SkipInv, RowInOrder
    <3>2. entry'[g].modTime = disk'[g] /\ entry'[g].tags = None
      BY <2>1, <1>9, <1>a DEF loadDir
    <3> QED
      BY <3>1, <3>2, <1>b, <1>9 DEF EntryInOrder, loadDir
  <2>2. CASE g # f
    BY <2>2, <1>a, <1>b, <1>9, OrderKept DEF loadDir, rowVars
  <2> QED
    BY <2>1, <2>2
<1>10. ASSUME NEW f \in Folders, producerSkips(f) PROVE Goal
  BY <1>a, <1>b, <1>10, OrderKept DEF producerSkips, InEntry, rowVars, scanVars
<1>11. ASSUME NEW f \in Folders, processFolder(f) PROVE Goal
  <2>1. CASE g = f
    <3>1. RowInOrder(g)'
      BY <1>11 DEF processFolder, rowVars, SkipInv, RowInOrder
    <3>2. entry[g] \in Entries /\ entry[g].modTime \in Int /\ entry[g].modTime <= disk[g]
      BY <2>1, <1>11, <1>a, VersionFacts DEF processFolder, InEntry, SkipInv, EntryInOrder
    <3>3. /\ entry'[g].modTime = entry[g].modTime
          /\ entry'[g].tags = disk[g] \/ entry'[g].unread = TRUE
      BY <2>1, <3>2, <1>11, <1>a DEF processFolder, Entries
    <3> QED
      BY <3>1, <3>2, <3>3, <1>b, <1>11 DEF EntryInOrder, processFolder
  <2>2. CASE g # f
    BY <2>2, <1>a, <1>b, <1>11, OrderKept DEF processFolder, rowVars
  <2> QED
    BY <2>1, <2>2
<1>12. ASSUME NEW f \in Folders, persistChanges(f) PROVE Goal
  <2>1. CASE g = f
    <3>1. entry'[g] = None
      BY <2>1, <1>12, <1>a DEF persistChanges
    <3>2. fol'[g] = [known |-> TRUE, since |-> TRUE,
                     hash |-> Hash(entry[g].modTime, disk[g]),
                     content |-> entry[g].tags, unread |-> entry[g].unread]
      BY <2>1, <1>12 DEF persistChanges, TypeOK, RowTypes
    <3>3. ~entry[g].unread => entry[g].modTime <= entry[g].tags /\ entry[g].tags <= disk[g]
      BY <2>1, <1>12 DEF persistChanges, SkipInv, EntryInOrder
    <3>4. UNCHANGED disk
      BY <1>12 DEF persistChanges
    <3> QED
      BY <3>1, <3>2, <3>3, <3>4 DEF EntryInOrder, RowInOrder, Hash
  <2>2. CASE g # f
    <3>1. fol'[g] = fol[g]
      BY <2>2, <1>12 DEF persistChanges, TypeOK, RowTypes
    <3> QED
      BY <2>2, <3>1, <1>a, <1>b, <1>12, OrderKept DEF persistChanges
  <2> QED
    BY <2>1, <2>2
<1>13. ASSUME Phase1Ends PROVE Goal
  BY <1>a, <1>b, <1>13, OrderKept DEF Phase1Ends, rowVars, scanVars
<1>14. ASSUME NEW f \in Folders, refreshAlbum(f) PROVE Goal
  BY <1>a, <1>b, <1>14, OrderKept DEF refreshAlbum, rowVars, scanVars
<1>15. ASSUME Phase3Ends PROVE Goal
  BY <1>a, <1>b, <1>15, OrderKept DEF Phase3Ends, rowVars, scanVars
<1>16. ASSUME runGC PROVE Goal
  BY <1>a, <1>b, <1>16, OrderKept DEF runGC, FinalStep, rowVars, scanVars
<1>17. ASSUME runEnqueueMissingArtwork PROVE Goal
  BY <1>a, <1>b, <1>17, OrderKept
  DEF runEnqueueMissingArtwork, FinalStep, rowVars, scanVars
<1>18. ASSUME runRefreshStats PROVE Goal
  BY <1>a, <1>b, <1>18, OrderKept DEF runRefreshStats, FinalStep, rowVars, scanVars
<1>19. ASSUME runUpdateLibraries PROVE Goal
  BY <1>a, <1>b, <1>19, OrderKept DEF runUpdateLibraries, EndScan, rowVars, scanVars
<1>20. ASSUME NEW l \in Libs, PrepareFails(l) PROVE Goal
  <2>1. fol'[g] = fol[g] \/ fol'[g] = [fol[g] EXCEPT !.since = FALSE]
    BY <1>20 DEF PrepareFails, ScanBegin, rowVars
  <2>2. fol[g] \in [known : BOOLEAN, since : BOOLEAN, hash : Hashes,
                    content : Versions, unread : BOOLEAN]
    BY DEF TypeOK, RowTypes
  <2>3. /\ fol'[g].unread = fol[g].unread
        /\ fol'[g].hash = fol[g].hash
        /\ fol'[g].content = fol[g].content
    BY <2>1, <2>2
  <2> QED
    BY <2>3, <1>b, <1>20, OrderKept DEF PrepareFails
<1>21. ASSUME NEW l \in Libs, newScanJobFails(l) PROVE Goal
  BY <1>a, <1>b, <1>21, OrderKept DEF newScanJobFails, Walk
<1>22. ASSUME Phase1Fails PROVE Goal
  <2>1. PICK M \in SUBSET Folders : finalize(M)
    BY <1>22 DEF Phase1Fails, TypeOK, ScanTypes
  <2> QED
    BY <2>1, FinalizeTypes, <1>b, <1>22, OrderKept DEF Phase1Fails, EndScan
<1>23. ASSUME LaterStepFails PROVE Goal
  BY <1>a, <1>b, <1>23, OrderKept DEF LaterStepFails, Orphan, EndScan, rowVars, scanVars
<1>24. ASSUME Crash PROVE Goal
  BY <1>a, <1>b, <1>24, OrderKept DEF Crash, Orphan, EndScan, rowVars, scanVars
<1>25. ASSUME Restart PROVE Goal
  BY <1>a, <1>b, <1>25, OrderKept DEF Restart, rowVars, scanVars
<1>26. CASE UNCHANGED vars
  BY <1>b, <1>26, OrderKept DEF vars, rowVars, scanVars
<1> QED
  BY <1>1, <1>2, <1>3, <1>4, <1>5, <1>6, <1>7, <1>8, <1>9, <1>10, <1>11, <1>12, <1>13,
     <1>14, <1>15, <1>16, <1>17, <1>18, <1>19, <1>20, <1>21, <1>22, <1>23, <1>24, <1>25,
     <1>26
  DEF Next, Scanning, Failing

\* The invariant says what the property says.
LEMMA SkipImplies == TypeOK /\ SkipInv => SkippedFolderIsImported
<1> SUFFICES ASSUME TypeOK, SkipInv, NEW f \in Folders,
                    ~fol[f].unread, fol[f].hash = Hash(disk[f], disk[f])
             PROVE  fol[f].content = disk[f]
  BY DEF SkippedFolderIsImported
<1>1. fol[f].hash[1] = disk[f]
  BY DEF Hash
<1>2. fol[f].hash[1] <= fol[f].content /\ fol[f].content <= disk[f]
  BY DEF SkipInv, RowInOrder
<1> QED
  BY <1>1, <1>2, VersionFacts

\* However the files change while loadDir, ReadTags and toFolder look at them,
\* and wherever scans stop: a folder that isOutdated would skip was read from
\* the content it still has.
THEOREM SkippingIsSound == Spec => []SkippedFolderIsImported
<1>1. Init => SkipInv
  BY DEF Init, SkipInv, EntryInOrder, RowInOrder, Hash
<1> QED
  BY <1>1, TypeInit, TypeStep, SkipStep, SkipImplies, PTL DEF Spec

-------------------------------------------------------------------------------
\* What a scan works on: folders of its libraries, and it has begun them all
\* when it leaves prepareLibrariesForScan.
ScopeInv ==
    /\ \A f \in Folders : f \in todo \/ entry[f] # None => LibOf[f] \in libs
    /\ pc # "begin" => toBegin = {}
    /\ pc = "idle" => libs = {}

\* Every step keeps a scan within its libraries.
LEMMA ScopeStep == TypeOK /\ ScopeInv /\ [Next]_vars => ScopeInv'
<1> SUFFICES ASSUME TypeOK, ScopeInv, [Next]_vars PROVE ScopeInv'
  OBVIOUS
<1> USE Bounds DEF TypeOK, ScanTypes, PhaseTypes, ScopeInv
<1>1. ASSUME NEW f \in Folders, Edit(f) PROVE ScopeInv'
  BY <1>1 DEF Edit, rowVars, hostVars, scanVars, bounds
<1>2. ASSUME Request PROVE ScopeInv'
  BY <1>2 DEF Request, StartScan, rowVars, hostVars, scanVars, bounds
<1>3. ASSUME ScheduledScan PROVE ScopeInv'
  BY <1>3 DEF ScheduledScan, StartScan, rowVars, hostVars, scanVars, bounds
<1>4. ASSUME BootRead PROVE ScopeInv'
  BY <1>4 DEF BootRead, rowVars, hostVars, scanVars, bounds
<1>5. ASSUME BootScan PROVE ScopeInv'
  BY <1>5 DEF BootScan, StartScan, rowVars, hostVars, scanVars, bounds
<1>6. ASSUME NEW l \in Libs, PrepareLibrary(l) PROVE ScopeInv'
  BY <1>6 DEF PrepareLibrary, ScanBegin, rowVars, hostVars, scanVars, bounds
<1>7. ASSUME Prepared PROVE ScopeInv'
  BY <1>7 DEF Prepared, EndScan, rowVars, hostVars, scanVars, bounds
<1>8. ASSUME createPhaseFolders PROVE ScopeInv'
  BY <1>8 DEF createPhaseFolders, Walk, InLibs, rowVars, hostVars, scanVars, bounds
<1>9. ASSUME NEW f \in Folders, loadDir(f) PROVE ScopeInv'
  BY <1>9 DEF loadDir, rowVars, hostVars, scanVars, bounds
<1>10. ASSUME NEW f \in Folders, producerSkips(f) PROVE ScopeInv'
  BY <1>10 DEF producerSkips, InEntry, rowVars, hostVars, scanVars, bounds
<1>11. ASSUME NEW f \in Folders, processFolder(f) PROVE ScopeInv'
  BY <1>11
  DEF processFolder, InEntry, Fault, NoFault, rowVars, hostVars, scanVars, bounds
<1>12. ASSUME NEW f \in Folders, persistChanges(f) PROVE ScopeInv'
  BY <1>12 DEF persistChanges, rowVars, hostVars, scanVars, bounds
<1>13. ASSUME Phase1Ends PROVE ScopeInv'
  BY <1>13 DEF Phase1Ends, rowVars, hostVars, scanVars, bounds
<1>14. ASSUME NEW f \in Folders, refreshAlbum(f) PROVE ScopeInv'
  BY <1>14 DEF refreshAlbum, rowVars, hostVars, scanVars, bounds
<1>15. ASSUME Phase3Ends PROVE ScopeInv'
  BY <1>15 DEF Phase3Ends, rowVars, hostVars, scanVars, bounds
<1>16. ASSUME runGC PROVE ScopeInv'
  BY <1>16 DEF FinalSteps, runGC, FinalStep, rowVars, hostVars, scanVars, bounds
<1>17. ASSUME runEnqueueMissingArtwork PROVE ScopeInv'
  BY <1>17 DEF runEnqueueMissingArtwork, FinalStep, rowVars, hostVars, scanVars, bounds
<1>18. ASSUME runRefreshStats PROVE ScopeInv'
  BY <1>18 DEF runRefreshStats, FinalStep, rowVars, hostVars, scanVars, bounds
<1>19. ASSUME runUpdateLibraries PROVE ScopeInv'
  BY <1>19 DEF runUpdateLibraries, EndScan, rowVars, hostVars, scanVars, bounds
<1>20. ASSUME NEW l \in Libs, PrepareFails(l) PROVE ScopeInv'
  BY <1>20 DEF PrepareFails, ScanBegin, Fault, rowVars, hostVars, scanVars, bounds
<1>21. ASSUME NEW l \in Libs, newScanJobFails(l) PROVE ScopeInv'
  BY <1>21 DEF newScanJobFails, Walk, InLibs, Fault, rowVars, hostVars, scanVars, bounds
<1>22. ASSUME Phase1Fails PROVE ScopeInv'
  BY <1>22 DEF Phase1Fails, Fault, Orphan, EndScan, rowVars, hostVars, scanVars, bounds
<1>23. ASSUME LaterStepFails PROVE ScopeInv'
  BY <1>23
  DEF LaterStepFails, Fault, Orphan, EndScan, rowVars, hostVars, scanVars, bounds
<1>24. ASSUME Crash PROVE ScopeInv'
  BY <1>24 DEF Crash, Orphan, EndScan, rowVars, hostVars, scanVars, bounds
<1>25. ASSUME Restart PROVE ScopeInv'
  BY <1>25 DEF Restart, rowVars, hostVars, scanVars, bounds
<1>26. CASE UNCHANGED vars
  BY <1>26 DEF vars, rowVars, hostVars, scanVars, bounds
<1> QED
  BY <1>1, <1>2, <1>3, <1>4, <1>5, <1>6, <1>7, <1>8, <1>9, <1>10, <1>11, <1>12, <1>13,
     <1>14, <1>15, <1>16, <1>17, <1>18, <1>19, <1>20, <1>21, <1>22, <1>23, <1>24, <1>25,
     <1>26
  DEF Next, Scanning, Failing

-------------------------------------------------------------------------------
\* The album of a folder: an incomplete one has been imported after its
\* library's last_scan_at, and phase 3 leaves none of the scan's libraries.
AlbumInv ==
    /\ \A l \in libs \ toBegin : lib[l].inProgress
    /\ \A f \in Folders : ~alb[f].whole =>
          /\ lib[LibOf[f]].inProgress
          /\ LibOf[f] \notin alb[f].ended
          /\ pc \in {"update"} \cup FinalSteps => LibOf[f] \notin libs

\* Every step keeps incomplete albums within reach of a later phase 3.
LEMMA AlbumStep == TypeOK /\ ScopeInv /\ AlbumInv /\ [Next]_vars => AlbumInv'
<1> SUFFICES ASSUME TypeOK, ScopeInv, AlbumInv, [Next]_vars PROVE AlbumInv'
  OBVIOUS
<1> USE Bounds DEF TypeOK, RowTypes, ScanTypes, ScopeInv, AlbumInv, FinalSteps
<1>1. ASSUME NEW f \in Folders, Edit(f) PROVE AlbumInv'
  BY <1>1 DEF Edit, rowVars, hostVars, scanVars, bounds
<1>2. ASSUME Request PROVE AlbumInv'
  BY <1>2 DEF Request, StartScan, rowVars, hostVars, scanVars, bounds
<1>3. ASSUME ScheduledScan PROVE AlbumInv'
  BY <1>3 DEF ScheduledScan, StartScan, rowVars, hostVars, scanVars, bounds
<1>4. ASSUME BootRead PROVE AlbumInv'
  BY <1>4 DEF BootRead, rowVars, hostVars, scanVars, bounds
<1>5. ASSUME BootScan PROVE AlbumInv'
  BY <1>5 DEF BootScan, StartScan, rowVars, hostVars, scanVars, bounds
<1>6. ASSUME NEW l \in Libs, PrepareLibrary(l) PROVE AlbumInv'
  <2>1. /\ UNCHANGED <<alb, libs, pc>> /\ pc = "begin"
        /\ toBegin' = toBegin \ {l}
    BY <1>6 DEF PrepareLibrary, ScanBegin, rowVars
  <2>2. lib'[l].inProgress
    BY <1>6 DEF PrepareLibrary, ScanBegin, rowVars
  <2>3. ASSUME NEW k \in Libs, k # l PROVE lib'[k] = lib[k]
    BY <2>3, <1>6 DEF PrepareLibrary, ScanBegin, rowVars
  <2>4. \A k \in Libs : lib[k].inProgress => lib'[k].inProgress
    BY <2>2, <2>3
  <2>5. \A k \in libs' \ toBegin' : lib'[k].inProgress
    BY <2>1, <2>2, <2>4
  <2> QED
    BY <2>1, <2>4, <2>5, ScanAssumption
<1>7. ASSUME Prepared PROVE AlbumInv'
  BY <1>7 DEF Prepared, EndScan, rowVars, hostVars, scanVars, bounds
<1>8. ASSUME createPhaseFolders PROVE AlbumInv'
  BY <1>8 DEF createPhaseFolders, Walk, InLibs, rowVars, hostVars, scanVars, bounds
<1>9. ASSUME NEW f \in Folders, loadDir(f) PROVE AlbumInv'
  BY <1>9 DEF loadDir, rowVars, hostVars, scanVars, bounds
<1>10. ASSUME NEW f \in Folders, producerSkips(f) PROVE AlbumInv'
  BY <1>10 DEF producerSkips, InEntry, rowVars, hostVars, scanVars, bounds
<1>11. ASSUME NEW f \in Folders, processFolder(f) PROVE AlbumInv'
  BY <1>11
  DEF processFolder, InEntry, Fault, NoFault, rowVars, hostVars, scanVars, bounds
<1>12. ASSUME NEW f \in Folders, persistChanges(f) PROVE AlbumInv'
  <2>1. LibOf[f] \in libs /\ toBegin = {} /\ lib[LibOf[f]].inProgress
    BY <1>12 DEF persistChanges
  <2>2. UNCHANGED <<lib, libs, toBegin, pc>> /\ pc = "phase1"
    BY <1>12 DEF persistChanges
  <2>3. ASSUME NEW g \in Folders, g # f PROVE alb'[g] = alb[g]
    BY <2>3, <1>12 DEF persistChanges
  <2>4. alb'[f] = alb[f] \/ alb'[f].ended = {}
    BY <1>12 DEF persistChanges
  <2> QED
    BY <2>1, <2>2, <2>3, <2>4
<1>13. ASSUME Phase1Ends PROVE AlbumInv'
  BY <1>13 DEF Phase1Ends, rowVars, hostVars, scanVars, bounds
<1>14. ASSUME NEW f \in Folders, refreshAlbum(f) PROVE AlbumInv'
  BY <1>14 DEF refreshAlbum, rowVars, hostVars, scanVars, bounds
<1>15. ASSUME Phase3Ends PROVE AlbumInv'
  <2>1. UNCHANGED <<lib, libs, toBegin, alb>>
    BY <1>15 DEF Phase3Ends, rowVars, scanVars
  <2>2. ASSUME NEW f \in Folders, LibOf[f] \in libs PROVE alb[f].whole
    BY <2>2, <1>15 DEF Phase3Ends, GetTouchedAlbums, InLibs
  <2> QED
    BY <2>1, <2>2
<1>16. ASSUME runGC PROVE AlbumInv'
  BY <1>16 DEF runGC, FinalStep, rowVars, hostVars, scanVars, bounds
<1>17. ASSUME runEnqueueMissingArtwork PROVE AlbumInv'
  BY <1>17 DEF runEnqueueMissingArtwork, FinalStep, rowVars, hostVars, scanVars, bounds
<1>18. ASSUME runRefreshStats PROVE AlbumInv'
  BY <1>18 DEF runRefreshStats, FinalStep, rowVars, hostVars, scanVars, bounds
<1>19. ASSUME runUpdateLibraries PROVE AlbumInv'
  <2>1. libs' = {} /\ pc' = "idle"
    BY <1>19 DEF runUpdateLibraries, EndScan
  <2>2. ASSUME NEW f \in Folders, ~alb'[f].whole
        PROVE  lib'[LibOf[f]].inProgress /\ LibOf[f] \notin alb'[f].ended
    <3>1. alb'[f] = [alb[f] EXCEPT !.ended = @ \cup libs]
      BY <1>19 DEF runUpdateLibraries
    <3>2. alb'[f].ended = alb[f].ended \cup libs /\ ~alb[f].whole
      BY <3>1, <2>2
    <3>3. LibOf[f] \notin libs /\ LibOf[f] \notin alb[f].ended /\ lib[LibOf[f]].inProgress
      BY <3>2, <1>19 DEF runUpdateLibraries
    <3>4. lib'[LibOf[f]] = lib[LibOf[f]]
      BY <3>3, <1>19 DEF runUpdateLibraries
    <3> QED
      BY <3>2, <3>3, <3>4
  <2> QED
    BY <2>1, <2>2
<1>20. ASSUME NEW l \in Libs, PrepareFails(l) PROVE AlbumInv'
  BY <1>20 DEF PrepareFails, ScanBegin, Fault, rowVars, hostVars, scanVars, bounds
<1>21. ASSUME NEW l \in Libs, newScanJobFails(l) PROVE AlbumInv'
  BY <1>21 DEF newScanJobFails, Walk, InLibs, Fault, rowVars, hostVars, scanVars, bounds
<1>22. ASSUME Phase1Fails PROVE AlbumInv'
  <2>1. PICK M \in SUBSET todo : finalize(M)
    BY <1>22 DEF Phase1Fails
  <2>2. libs' = {} /\ UNCHANGED lib
    BY <1>22 DEF Phase1Fails, EndScan
  <2>3. ASSUME NEW f \in M PROVE lib[LibOf[f]].inProgress /\ alb'[f].ended = {}
    <3>1. f \in Folders /\ LibOf[f] \in libs /\ toBegin = {}
      BY <2>1, <1>22 DEF Phase1Fails
    <3>2. alb'[f] = [ended |-> {}, whole |-> FALSE]
      BY <2>1, <3>1 DEF finalize
    <3> QED
      BY <3>1, <3>2
  <2>4. ASSUME NEW f \in Folders, f \notin M
        PROVE  alb'[f] = alb[f] \/ alb'[f] = [alb[f] EXCEPT !.ended = {}]
    BY <2>1, <2>4 DEF finalize
  <2>5. ASSUME NEW f \in Folders, f \notin M
        PROVE  /\ alb'[f].whole = alb[f].whole
               /\ alb'[f].ended = alb[f].ended \/ alb'[f].ended = {}
    <3> DEFINE album == alb[f]
    <3>1. album \in [ended : SUBSET Libs, whole : BOOLEAN]
      OBVIOUS
    <3>2. alb'[f] = album \/ alb'[f] = [album EXCEPT !.ended = {}]
      BY <2>4, <2>5
    <3> HIDE DEF album
    <3>3. /\ [album EXCEPT !.ended = {}].whole = album.whole
          /\ [album EXCEPT !.ended = {}].ended = {}
      BY <3>1
    <3> QED
      BY <3>2, <3>3, Zenon DEF album
  <2> QED
    BY <2>2, <2>3, <2>5
<1>23. ASSUME LaterStepFails PROVE AlbumInv'
  BY <1>23
  DEF LaterStepFails, Fault, Orphan, EndScan, rowVars, hostVars, scanVars, bounds
<1>24. ASSUME Crash PROVE AlbumInv'
  BY <1>24 DEF Crash, Orphan, EndScan, rowVars, hostVars, scanVars, bounds
<1>25. ASSUME Restart PROVE AlbumInv'
  BY <1>25 DEF Restart, rowVars, hostVars, scanVars, bounds
<1>26. CASE UNCHANGED vars
  BY <1>26 DEF vars, rowVars, hostVars, scanVars, bounds
<1> QED
  BY <1>1, <1>2, <1>3, <1>4, <1>5, <1>6, <1>7, <1>8, <1>9, <1>10, <1>11, <1>12, <1>13,
     <1>14, <1>15, <1>16, <1>17, <1>18, <1>19, <1>20, <1>21, <1>22, <1>23, <1>24, <1>25,
     <1>26
  DEF Next, Scanning, Failing

\* Whatever was interrupted or failed, an album that phase 3 has not completed
\* belongs to a library whose scan has not ended, so that a later
\* GetTouchedAlbums still finds it.
THEOREM AlbumsAreCompleted == Spec => []EndedScanLeavesAlbumsWhole
<1>1. Init => ScopeInv /\ AlbumInv
  BY Bounds DEF Init, ScopeInv, AlbumInv
<1>2. AlbumInv => EndedScanLeavesAlbumsWhole
  BY DEF AlbumInv, EndedScanLeavesAlbumsWhole
<1> QED
  BY <1>1, <1>2, TypeInit, TypeStep, ScopeStep, AlbumStep, PTL DEF Spec

-------------------------------------------------------------------------------
\* Stale counts belong to a scan that knows of changes and has yet to run
\* runRefreshStats, which will find them newer than last_scan_at.
StatsInv ==
    \A f \in Folders : stats[f] = "stale" =>
        /\ changes
        /\ pc \in {"phase1", "phase3", "gc", "artwork", "stats"}
        /\ alb[f].ended = {}

\* Every step keeps stale counts within reach of runRefreshStats.
LEMMA StatsStep == TypeOK /\ StatsInv /\ [Next]_vars => StatsInv'
<1> SUFFICES ASSUME TypeOK, StatsInv, [Next]_vars PROVE StatsInv'
  OBVIOUS
<1> USE Bounds DEF TypeOK, RowTypes, ScanTypes, StatsInv
<1>1. ASSUME NEW f \in Folders, Edit(f) PROVE StatsInv'
  BY <1>1 DEF Edit, rowVars, hostVars, scanVars, bounds
<1>2. ASSUME Request PROVE StatsInv'
  BY <1>2 DEF Request, StartScan, rowVars, hostVars, scanVars, bounds
<1>3. ASSUME ScheduledScan PROVE StatsInv'
  BY <1>3 DEF ScheduledScan, StartScan, rowVars, hostVars, scanVars, bounds
<1>4. ASSUME BootRead PROVE StatsInv'
  BY <1>4 DEF BootRead, rowVars, hostVars, scanVars, bounds
<1>5. ASSUME BootScan PROVE StatsInv'
  BY <1>5 DEF BootScan, StartScan, rowVars, hostVars, scanVars, bounds
<1>6. ASSUME NEW l \in Libs, PrepareLibrary(l) PROVE StatsInv'
  BY <1>6 DEF PrepareLibrary, ScanBegin, rowVars, hostVars, scanVars, bounds
<1>7. ASSUME Prepared PROVE StatsInv'
  BY <1>7 DEF Prepared, EndScan, rowVars, hostVars, scanVars, bounds
<1>8. ASSUME createPhaseFolders PROVE StatsInv'
  BY <1>8 DEF createPhaseFolders, Walk, rowVars, hostVars, scanVars, bounds
<1>9. ASSUME NEW f \in Folders, loadDir(f) PROVE StatsInv'
  BY <1>9 DEF loadDir, rowVars, hostVars, scanVars, bounds
<1>10. ASSUME NEW f \in Folders, producerSkips(f) PROVE StatsInv'
  BY <1>10 DEF producerSkips, InEntry, rowVars, hostVars, scanVars, bounds
<1>11. ASSUME NEW f \in Folders, processFolder(f) PROVE StatsInv'
  BY <1>11
  DEF processFolder, InEntry, Fault, NoFault, rowVars, hostVars, scanVars, bounds
<1>12. ASSUME NEW f \in Folders, persistChanges(f) PROVE StatsInv'
  <2>1. changes' = TRUE /\ pc' = "phase1"
    BY <1>12 DEF persistChanges
  <2>2. ASSUME NEW g \in Folders, g # f PROVE alb'[g] = alb[g] /\ stats'[g] = stats[g]
    BY <2>2, <1>12 DEF persistChanges
  <2>3. alb'[f].ended = {} \/ (alb'[f] = alb[f] /\ stats'[f] = stats[f])
    BY <1>12 DEF persistChanges
  <2> QED
    BY <2>1, <2>2, <2>3
<1>13. ASSUME Phase1Ends PROVE StatsInv'
  BY <1>13 DEF Phase1Ends, rowVars, hostVars, scanVars, bounds
<1>14. ASSUME NEW f \in Folders, refreshAlbum(f) PROVE StatsInv'
  BY <1>14 DEF refreshAlbum, rowVars, hostVars, scanVars, bounds
<1>15. ASSUME Phase3Ends PROVE StatsInv'
  BY <1>15 DEF Phase3Ends, rowVars, hostVars, scanVars, bounds
<1>16. ASSUME runGC PROVE StatsInv'
  BY <1>16 DEF runGC, FinalStep, rowVars, hostVars, scanVars, bounds
<1>17. ASSUME runEnqueueMissingArtwork PROVE StatsInv'
  BY <1>17 DEF runEnqueueMissingArtwork, FinalStep, rowVars, hostVars, scanVars, bounds
<1>18. ASSUME runRefreshStats PROVE StatsInv'
  BY <1>18 DEF runRefreshStats, FinalStep, rowVars, hostVars, scanVars, bounds
<1>19. ASSUME runUpdateLibraries PROVE StatsInv'
  BY <1>19 DEF runUpdateLibraries, EndScan, rowVars, hostVars, scanVars, bounds
<1>20. ASSUME NEW l \in Libs, PrepareFails(l) PROVE StatsInv'
  BY <1>20 DEF PrepareFails, ScanBegin, Fault, rowVars, hostVars, scanVars, bounds
<1>21. ASSUME NEW l \in Libs, newScanJobFails(l) PROVE StatsInv'
  BY <1>21 DEF newScanJobFails, Walk, Fault, rowVars, hostVars, scanVars, bounds
<1>22. ASSUME Phase1Fails PROVE StatsInv'
  BY <1>22 DEF Phase1Fails, Fault, Orphan, EndScan, rowVars, hostVars, scanVars, bounds
<1>23. ASSUME LaterStepFails PROVE StatsInv'
  BY <1>23
  DEF LaterStepFails, Fault, Orphan, EndScan, rowVars, hostVars, scanVars, bounds
<1>24. ASSUME Crash PROVE StatsInv'
  BY <1>24 DEF Crash, Orphan, EndScan, rowVars, hostVars, scanVars, bounds
<1>25. ASSUME Restart PROVE StatsInv'
  BY <1>25 DEF Restart, rowVars, hostVars, scanVars, bounds
<1>26. CASE UNCHANGED vars
  BY <1>26 DEF vars, rowVars, hostVars, scanVars, bounds
<1> QED
  BY <1>1, <1>2, <1>3, <1>4, <1>5, <1>6, <1>7, <1>8, <1>9, <1>10, <1>11, <1>12, <1>13,
     <1>14, <1>15, <1>16, <1>17, <1>18, <1>19, <1>20, <1>21, <1>22, <1>23, <1>24, <1>25,
     <1>26
  DEF Next, Scanning, Failing

\* A scan that ends by itself, without an error, has refreshed the counts of
\* everything it imported: no write escapes changesDetected.
THEOREM StatsAreRefreshed == Spec => []UninterruptedScanRefreshesStats
<1>1. Init => StatsInv
  BY DEF Init, StatsInv
<1>2. StatsInv => UninterruptedScanRefreshesStats
  BY DEF StatsInv, UninterruptedScanRefreshesStats
<1> QED
  BY <1>1, <1>2, TypeInit, TypeStep, StatsStep, PTL DEF Spec

-------------------------------------------------------------------------------
\* Scans ask for whole libraries; the selective scan of a folder alone loses
\* a recorded full scan.
WholeLibraries ==
    \A r \in Requests : \A f \in r.targets, g \in Folders :
        LibOf[g] = LibOf[f] => g \in r.targets

KeepInv ==
    /\ InLibs(libs) \subseteq scope
    /\ \A l \in Libs : lib[l].full => lib[l].inProgress /\ (l \in libs => full)
    /\ \A f \in owed :
          /\ lib[LibOf[f]].full
          /\ ~fol[f].since \/ ~fol[f].known
          /\ LibOf[f] \in libs =>
                /\ pc \in {"begin", "jobs", "phase1"}
                /\ pc = "phase1" => f \in todo \/ entry[f] # None

\* Every step keeps what a recorded full scan owes.
LEMMA KeepStep ==
    WholeLibraries /\ TypeOK /\ ScopeInv /\ KeepInv /\ [Next]_vars => KeepInv'
<1> SUFFICES ASSUME WholeLibraries, TypeOK, ScopeInv, KeepInv, [Next]_vars PROVE KeepInv'
  OBVIOUS
<1> USE Bounds DEF TypeOK, RowTypes, ScanTypes, ScopeInv, KeepInv, InLibs
<1>1. ASSUME NEW f \in Folders, Edit(f) PROVE KeepInv'
  BY <1>1 DEF Edit, rowVars, hostVars, scanVars, bounds
<1>2. ASSUME Request PROVE KeepInv'
  <2>1. PICK r \in Requests : StartScan(r)
    BY <1>2 DEF Request
  <2>2. r.targets \subseteq Folders
    BY RequestTypes
  <2>3. InLibs(libs)' \subseteq scope'
    <3>1. CASE r.targets = {}
      BY <2>1, <3>1 DEF StartScan
    <3>2. CASE r.targets # {}
      <4>1. libs' = {LibOf[f] : f \in r.targets} /\ scope' = r.targets
        BY <2>1, <3>2 DEF StartScan
      <4> QED
        BY <2>2, <4>1 DEF WholeLibraries
    <3> QED
      BY <3>1, <3>2
  <2>4. UNCHANGED <<lib, fol, owed>> /\ pc' = "begin"
    BY <1>2, <2>1 DEF Request, StartScan, rowVars
  <2>5. ASSUME NEW l \in libs', lib[l].full PROVE full'
    BY <2>1, <2>5 DEF StartScan
  <2> QED
    BY <2>3, <2>4, <2>5
<1>3. ASSUME ScheduledScan PROVE KeepInv'
  BY <1>3 DEF ScheduledScan, StartScan, rowVars, hostVars, scanVars, bounds
<1>4. ASSUME BootRead PROVE KeepInv'
  BY <1>4 DEF BootRead, rowVars, hostVars, scanVars, bounds
<1>5. ASSUME BootScan PROVE KeepInv'
  BY <1>5 DEF BootScan, StartScan, rowVars, hostVars, scanVars, bounds
<1>6. ASSUME NEW l \in Libs, PrepareLibrary(l) PROVE KeepInv'
  <2>1. /\ libs' = libs
        /\ pc = "begin" /\ UNCHANGED <<pc, full, scope>>
    BY <1>6 DEF PrepareLibrary
  <2>2. CASE UNCHANGED rowVars
    BY <2>1, <2>2 DEF rowVars
  <2>3. CASE ScanBegin(l) /\ ~lib[l].inProgress
    <3> DEFINE b == full
    <3>1. lib' = [lib EXCEPT ![l] = [inProgress |-> TRUE, full |-> b]]
      BY <2>3 DEF ScanBegin
    <3>2. ~lib[l].full /\ \A f \in owed : LibOf[f] # l
      BY <2>3
    <3>3. InLibs(libs)' \subseteq scope'
      BY <2>1
    <3>4. ASSUME NEW k \in Libs, lib'[k].full
          PROVE  lib'[k].inProgress /\ (k \in libs' => full')
      BY <2>1, <3>1, <3>4
    <3>5. ASSUME NEW f \in owed'
          PROVE  lib'[LibOf[f]].full /\ (~fol'[f].since \/ ~fol'[f].known)
      <4>1. CASE f \in owed
        <5>1. LibOf[f] # l /\ fol'[f] = fol[f]
          BY <4>1, <3>2, <2>3 DEF ScanBegin
        <5> QED
          BY <4>1, <5>1, <3>1
      <4>2. CASE f \notin owed
        <5>1. f \in Folders /\ LibOf[f] = l /\ b
          BY <4>2, <3>5, <2>3 DEF ScanBegin, FoldersOf
        <5>2. fol'[f] = [fol[f] EXCEPT !.since = FALSE]
          BY <5>1, <2>3 DEF ScanBegin
        <5>3. fol'[f].since = FALSE
          BY <5>1, <5>2
        <5>4. lib'[l].full
          BY <3>1, <5>1
        <5> QED
          BY <5>1, <5>3, <5>4
      <4> QED
        BY <4>1, <4>2
    <3> QED
      BY <2>1, <3>3, <3>4, <3>5
  <2> QED
    BY <1>6, <2>2, <2>3 DEF PrepareLibrary
<1>7. ASSUME Prepared PROVE KeepInv'
  BY <1>7 DEF Prepared, EndScan, rowVars, hostVars, scanVars, bounds
<1>8. ASSUME createPhaseFolders PROVE KeepInv'
  BY <1>8 DEF createPhaseFolders, Walk, rowVars, hostVars, scanVars, bounds
<1>9. ASSUME NEW f \in Folders, loadDir(f) PROVE KeepInv'
  <2>1. UNCHANGED <<lib, fol, owed, libs, scope, full, pc>>
    BY <1>9 DEF loadDir, rowVars
  <2>2. entry'[f] # None
    <3>1. disk[f] \in Versions
      OBVIOUS
    <3>2. entry'[f] = [modTime |-> disk[f], tags |-> None, imports |-> FALSE, unread |-> FALSE]
      BY <1>9 DEF loadDir
    <3>3. entry'[f] \in Entries
      BY <3>1, <3>2 DEF Entries
    <3> QED
      BY <3>3, NoneAssumption
  <2>3. ASSUME NEW g \in Folders, g # f
        PROVE  entry'[g] = entry[g] /\ (g \in todo' <=> g \in todo)
    BY <1>9, <2>3 DEF loadDir
  <2> QED
    BY <2>1, <2>2, <2>3
<1>10. ASSUME NEW f \in Folders, producerSkips(f) PROVE KeepInv'
  <2>1. UNCHANGED <<lib, fol, owed, libs, scope, full, pc, todo>>
    BY <1>10 DEF producerSkips, rowVars
  <2>2. f \notin owed
    BY <1>10 DEF producerSkips, isOutdated
  <2>3. ASSUME NEW g \in Folders, g # f PROVE entry'[g] = entry[g]
    BY <1>10, <2>3 DEF producerSkips
  <2> QED
    BY <2>1, <2>2, <2>3
<1>11. ASSUME NEW f \in Folders, processFolder(f) PROVE KeepInv'
  <2>1. UNCHANGED <<lib, fol, owed, libs, scope, full, pc, todo>>
    BY <1>11 DEF processFolder, rowVars
  <2>2. entry'[f] # None
    BY <1>11, ProcessedEntry, NoneAssumption
  <2>3. ASSUME NEW g \in Folders, g # f PROVE entry'[g] = entry[g]
    BY <1>11, <2>3 DEF processFolder
  <2> QED
    BY <2>1, <2>2, <2>3
<1>12. ASSUME NEW f \in Folders, persistChanges(f) PROVE KeepInv'
  BY <1>12 DEF persistChanges, rowVars, hostVars, scanVars, bounds
<1>13. ASSUME Phase1Ends PROVE KeepInv'
  BY <1>13 DEF Phase1Ends, rowVars, hostVars, scanVars, bounds
<1>14. ASSUME NEW f \in Folders, refreshAlbum(f) PROVE KeepInv'
  BY <1>14 DEF refreshAlbum, rowVars, hostVars, scanVars, bounds
<1>15. ASSUME Phase3Ends PROVE KeepInv'
  BY <1>15 DEF Phase3Ends, rowVars, hostVars, scanVars, bounds
<1>16. ASSUME runGC PROVE KeepInv'
  BY <1>16 DEF runGC, FinalStep, rowVars, hostVars, scanVars, bounds
<1>17. ASSUME runEnqueueMissingArtwork PROVE KeepInv'
  BY <1>17 DEF runEnqueueMissingArtwork, FinalStep, rowVars, hostVars, scanVars, bounds
<1>18. ASSUME runRefreshStats PROVE KeepInv'
  BY <1>18 DEF runRefreshStats, FinalStep, rowVars, hostVars, scanVars, bounds
<1>19. ASSUME runUpdateLibraries PROVE KeepInv'
  BY <1>19 DEF runUpdateLibraries, EndScan, rowVars, hostVars, scanVars, bounds
<1>20. ASSUME NEW l \in Libs, PrepareFails(l) PROVE KeepInv'
  <2>1. /\ libs' = libs \ {l}
        /\ pc = "begin" /\ UNCHANGED <<pc, full, scope>>
    BY <1>20 DEF PrepareFails
  <2>2. CASE UNCHANGED rowVars
    BY <2>1, <2>2 DEF rowVars
  <2>3. CASE ScanBegin(l) /\ ~lib[l].inProgress
    <3> DEFINE b == full
    <3>1. lib' = [lib EXCEPT ![l] = [inProgress |-> TRUE, full |-> b]]
      BY <2>3 DEF ScanBegin
    <3>2. ~lib[l].full /\ \A f \in owed : LibOf[f] # l
      BY <2>3
    <3>3. InLibs(libs)' \subseteq scope'
      BY <2>1
    <3>4. ASSUME NEW k \in Libs, lib'[k].full
          PROVE  lib'[k].inProgress /\ (k \in libs' => full')
      BY <2>1, <3>1, <3>4
    <3>5. ASSUME NEW f \in owed'
          PROVE  lib'[LibOf[f]].full /\ (~fol'[f].since \/ ~fol'[f].known)
      <4>1. CASE f \in owed
        <5>1. LibOf[f] # l /\ fol'[f] = fol[f]
          BY <4>1, <3>2, <2>3 DEF ScanBegin
        <5> QED
          BY <4>1, <5>1, <3>1
      <4>2. CASE f \notin owed
        <5>1. f \in Folders /\ LibOf[f] = l /\ b
          BY <4>2, <3>5, <2>3 DEF ScanBegin, FoldersOf
        <5>2. fol'[f] = [fol[f] EXCEPT !.since = FALSE]
          BY <5>1, <2>3 DEF ScanBegin
        <5>3. fol'[f].since = FALSE
          BY <5>1, <5>2
        <5>4. lib'[l].full
          BY <3>1, <5>1
        <5> QED
          BY <5>1, <5>3, <5>4
      <4> QED
        BY <4>1, <4>2
    <3> QED
      BY <2>1, <3>3, <3>4, <3>5
  <2> QED
    BY <1>20, <2>2, <2>3 DEF PrepareFails
<1>21. ASSUME NEW l \in Libs, newScanJobFails(l) PROVE KeepInv'
  <2>1. UNCHANGED <<lib, fol, libs, scope, full>> /\ pc' = "phase1"
    BY <1>21 DEF newScanJobFails, Walk
  <2>2. owed' = owed \ FoldersOf(l) /\ todo' = scope \cap InLibs(libs \ {l})
    BY <1>21 DEF newScanJobFails, Walk
  <2>3. ASSUME NEW f \in owed', LibOf[f] \in libs PROVE f \in todo'
    BY <2>2, <2>3 DEF FoldersOf
  <2> QED
    BY <2>1, <2>2, <2>3
<1>22. ASSUME Phase1Fails PROVE KeepInv'
  <2>1. PICK M \in SUBSET todo : finalize(M)
    BY <1>22 DEF Phase1Fails
  <2>2. libs' = {} /\ UNCHANGED <<lib, owed>>
    BY <1>22 DEF Phase1Fails, EndScan
  <2>3. ASSUME NEW f \in owed PROVE ~fol'[f].since \/ ~fol'[f].known
    <3> DEFINE row == fol[f]
    <3>1. fol'[f] = row \/ fol'[f] = [row EXCEPT !.known = FALSE, !.since = TRUE]
      BY <2>1 DEF finalize
    <3>2. row \in [known : BOOLEAN, since : BOOLEAN, hash : Hashes,
                  content : Versions, unread : BOOLEAN]
      OBVIOUS
    <3>3. ~row.since \/ ~row.known
      OBVIOUS
    <3> HIDE DEF row
    <3>4. [row EXCEPT !.known = FALSE, !.since = TRUE].known = FALSE
      BY <3>2
    <3> QED
      BY <3>1, <3>3, <3>4, Zenon
  <2> QED
    BY <2>2, <2>3
<1>23. ASSUME LaterStepFails PROVE KeepInv'
  BY <1>23
  DEF LaterStepFails, Fault, Orphan, EndScan, rowVars, hostVars, scanVars, bounds
<1>24. ASSUME Crash PROVE KeepInv'
  BY <1>24 DEF Crash, Orphan, EndScan, rowVars, hostVars, scanVars, bounds
<1>25. ASSUME Restart PROVE KeepInv'
  BY <1>25 DEF Restart, rowVars, hostVars, scanVars, bounds
<1>26. CASE UNCHANGED vars
  BY <1>26 DEF vars, rowVars, hostVars, scanVars, bounds
<1> QED
  BY <1>1, <1>2, <1>3, <1>4, <1>5, <1>6, <1>7, <1>8, <1>9, <1>10, <1>11, <1>12, <1>13,
     <1>14, <1>15, <1>16, <1>17, <1>18, <1>19, <1>20, <1>21, <1>22, <1>23, <1>24, <1>25,
     <1>26
  DEF Next, Scanning, Failing

\* As long as scans ask for whole libraries, no crash, failed step or request
\* for another kind of scan makes the server forget a full scan it began.
THEOREM FullScanIsRemembered ==
    ASSUME WholeLibraries
    PROVE  Spec => []RecordedFullScanIsKept
<1>1. Init => ScopeInv /\ KeepInv
  BY Bounds DEF Init, ScopeInv, KeepInv, InLibs
<1>2. KeepInv => RecordedFullScanIsKept
  BY DEF KeepInv, RecordedFullScanIsKept
<1>3. WholeLibraries
  OBVIOUS
<1>4. TypeOK /\ ScopeInv /\ KeepInv /\ [Next]_vars => KeepInv'
  BY <1>3, KeepStep
<1> QED
  BY <1>1, <1>2, <1>4, TypeInit, TypeStep, ScopeStep, PTL DEF Spec

-------------------------------------------------------------------------------
\* Where the content of a folder stands against the start of the scan: the
\* disk and every entry in the pipeline are at least as new, and a folder of
\* the scan has its walk ahead, is in the pipeline, or is imported.
Imported(f) == fol[f].unread \/ asOf[f] <= fol[f].content

CurrentInv(f) ==
    /\ asOf[f] <= disk[f]
    /\ entry[f] # None => asOf[f] <= entry[f].modTime
    /\ f \in scope /\ LibOf[f] \in libs =>
          /\ pc = "phase1" => f \in todo \/ entry[f] # None \/ Imported(f)
          /\ pc \in {"phase3", "update"} \cup FinalSteps => Imported(f)

\* Every step keeps a folder of the scan on its way to its row.
LEMMA CurrentStep ==
    ASSUME TypeOK, TypeOK', SkipInv, [Next]_vars, NEW g \in Folders, CurrentInv(g)
    PROVE  CurrentInv(g)'
<1>a. /\ disk \in [Folders -> Versions] /\ entry \in [Folders -> Entries \cup {None}]
      /\ asOf \in [Folders -> Versions]
  BY DEF TypeOK, RowTypes, ScanTypes
<1>b. disk[g] \in Int /\ asOf[g] \in Int /\ 0 <= fol[g].content /\ 0 <= disk[g]
  BY Bounds DEF TypeOK, RowTypes, Versions
<1>c. pc # "phase1" => entry[g] = None
  BY DEF TypeOK, PhaseTypes
<1> DEFINE Goal == CurrentInv(g)'
<1> USE DEF CurrentInv, Imported, FinalSteps
<1>1. ASSUME NEW f \in Folders, Edit(f) PROVE Goal
  <2>1. disk[g] <= disk'[g] /\ disk'[g] \in Int
    BY <1>1, <1>a, <1>b DEF Edit
  <2> QED
    BY <2>1, <1>b, <1>1 DEF Edit, rowVars, scanVars
<1>2. ASSUME Request PROVE Goal
  BY <1>a, <1>b, <1>c, <1>2 DEF Request, StartScan, rowVars, scanVars
<1>3. ASSUME ScheduledScan PROVE Goal
  BY <1>a, <1>b, <1>c, <1>3 DEF ScheduledScan, StartScan, rowVars, scanVars
<1>4. ASSUME BootRead PROVE Goal
  BY <1>a, <1>b, <1>c, <1>4 DEF BootRead, rowVars, scanVars
<1>5. ASSUME BootScan PROVE Goal
  BY <1>a, <1>b, <1>c, <1>5 DEF BootScan, StartScan, rowVars, scanVars
<1>6. ASSUME NEW l \in Libs, PrepareLibrary(l) PROVE Goal
  <2>1. entry[g] = None /\ pc' = "begin" /\ UNCHANGED <<disk, asOf, entry>>
    BY <1>c, <1>6 DEF PrepareLibrary
  <2> QED
    BY <2>1
<1>7. ASSUME Prepared PROVE Goal
  BY <1>a, <1>b, <1>c, <1>7 DEF Prepared, EndScan, rowVars, scanVars
<1>8. ASSUME createPhaseFolders PROVE Goal
  BY <1>a, <1>b, <1>c, <1>8 DEF createPhaseFolders, Walk, InLibs, rowVars, scanVars
<1>9. ASSUME NEW f \in Folders, loadDir(f) PROVE Goal
  <2>1. UNCHANGED <<disk, asOf, fol, scope, libs, pc>>
    BY <1>9 DEF loadDir, rowVars
  <2>2. CASE g = f
    <3>1. entry'[g] = [modTime |-> disk[g], tags |-> None, imports |-> FALSE, unread |-> FALSE]
      BY <2>2, <1>a, <1>9 DEF loadDir
    <3>2. entry'[g] \in Entries /\ entry'[g].modTime = disk[g]
      BY <3>1, <1>a DEF Entries
    <3>3. pc = "phase1"
      BY <1>9 DEF loadDir
    <3> QED
      BY <2>1, <3>2, <3>3, NoneAssumption
  <2>3. CASE g # f
    <3>1. entry'[g] = entry[g] /\ (g \in todo' <=> g \in todo)
      BY <2>3, <1>9 DEF loadDir
    <3> QED
      BY <2>1, <3>1
  <2> QED
    BY <2>2, <2>3
<1>10. ASSUME NEW f \in Folders, producerSkips(f) PROVE Goal
  <2>1. UNCHANGED <<disk, asOf, fol, scope, libs, pc, todo>>
    BY <1>10 DEF producerSkips, rowVars
  <2>2. CASE g = f
    <3>1. entry[g] # None /\ fol[g].hash = Hash(entry[g].modTime, disk[g]) /\ pc = "phase1"
      BY <2>2, <1>10 DEF producerSkips, isOutdated, InEntry
    <3>2. fol[g].hash[1] = entry[g].modTime
      BY <3>1 DEF Hash
    <3>3. fol[g].unread \/ fol[g].hash[1] <= fol[g].content
      BY DEF SkipInv, RowInOrder
    <3>4. Imported(g)
      BY <3>1, <3>2, <3>3, <1>b, VersionFacts
    <3>5. entry'[g] = None
      BY <2>2, <1>a, <1>10 DEF producerSkips
    <3> QED
      BY <2>1, <3>1, <3>4, <3>5
  <2>3. CASE g # f
    <3>1. entry'[g] = entry[g]
      BY <2>3, <1>10 DEF producerSkips
    <3> QED
      BY <2>1, <3>1
  <2> QED
    BY <2>2, <2>3
<1>11. ASSUME NEW f \in Folders, processFolder(f) PROVE Goal
  <2>1. UNCHANGED <<disk, asOf, fol, scope, libs, pc, todo>>
    BY <1>11 DEF processFolder, rowVars
  <2>2. CASE g = f
    <3>1. entry[g] # None /\ entry[g] \in Entries
      BY <2>2, <1>a, <1>11 DEF processFolder, InEntry
    <3>2. entry'[g] # None
      BY <2>2, <1>11, ProcessedEntry, NoneAssumption
    <3>3. entry'[g].modTime = entry[g].modTime
      BY <2>2, <3>1, <1>a, <1>11 DEF processFolder, Entries
    <3> QED
      BY <2>1, <3>1, <3>2, <3>3
  <2>3. CASE g # f
    <3>1. entry'[g] = entry[g]
      BY <2>3, <1>a, <1>11 DEF processFolder
    <3> QED
      BY <2>1, <3>1
  <2> QED
    BY <2>2, <2>3
<1>12. ASSUME NEW f \in Folders, persistChanges(f) PROVE Goal
  <2>1. UNCHANGED <<disk, asOf, scope, libs, pc, todo>> /\ pc = "phase1"
    BY <1>12 DEF persistChanges
  <2>2. CASE g = f
    <3>1. entry[g] # None /\ entry[g].tags # None
      BY <2>2, <1>12 DEF persistChanges
    <3>2. entry[g].unread \/ entry[g].modTime <= entry[g].tags
      BY <3>1 DEF SkipInv, EntryInOrder
    <3>3. fol'[g].unread = entry[g].unread /\ fol'[g].content = entry[g].tags
      BY <2>2, <1>12 DEF persistChanges, TypeOK, RowTypes
    <3>4. Imported(g)'
      BY <2>1, <3>1, <3>2, <3>3, <1>b, VersionFacts
    <3>5. entry'[g] = None
      BY <2>2, <1>a, <1>12 DEF persistChanges
    <3> QED
      BY <2>1, <3>4, <3>5
  <2>3. CASE g # f
    <3>1. entry'[g] = entry[g] /\ fol'[g] = fol[g]
      BY <2>3, <1>12 DEF persistChanges, TypeOK, RowTypes
    <3> QED
      BY <2>1, <3>1
  <2> QED
    BY <2>2, <2>3
<1>13. ASSUME Phase1Ends PROVE Goal
  BY <1>a, <1>b, <1>c, <1>13 DEF Phase1Ends, rowVars, scanVars
<1>14. ASSUME NEW f \in Folders, refreshAlbum(f) PROVE Goal
  BY <1>a, <1>b, <1>c, <1>14 DEF refreshAlbum, rowVars, scanVars
<1>15. ASSUME Phase3Ends PROVE Goal
  BY <1>a, <1>b, <1>c, <1>15 DEF Phase3Ends, rowVars, scanVars
<1>16. ASSUME runGC PROVE Goal
  BY <1>a, <1>b, <1>c, <1>16 DEF runGC, FinalStep, rowVars, scanVars
<1>17. ASSUME runEnqueueMissingArtwork PROVE Goal
  BY <1>a, <1>b, <1>c, <1>17 DEF runEnqueueMissingArtwork, FinalStep, rowVars, scanVars
<1>18. ASSUME runRefreshStats PROVE Goal
  BY <1>a, <1>b, <1>c, <1>18 DEF runRefreshStats, FinalStep, rowVars, scanVars
<1>19. ASSUME runUpdateLibraries PROVE Goal
  BY <1>a, <1>b, <1>c, <1>19 DEF runUpdateLibraries, EndScan, rowVars, scanVars
<1>20. ASSUME NEW l \in Libs, PrepareFails(l) PROVE Goal
  <2>1. entry[g] = None /\ pc' = "begin" /\ UNCHANGED <<disk, asOf, entry>>
    BY <1>c, <1>20 DEF PrepareFails
  <2> QED
    BY <2>1
<1>21. ASSUME NEW l \in Libs, newScanJobFails(l) PROVE Goal
  <2>1. UNCHANGED <<disk, fol, scope, libs, entry>> /\ pc' = "phase1" /\ entry[g] = None
    BY <1>c, <1>21 DEF newScanJobFails, Walk
  <2>2. todo' = scope \cap InLibs(libs \ {l})
    BY <1>21 DEF newScanJobFails, Walk
  <2>3. CASE LibOf[g] = l
    <3>1. asOf'[g] = 0
      BY <2>3, <1>21 DEF newScanJobFails
    <3> QED
      BY <2>1, <3>1, <1>b
  <2>4. CASE LibOf[g] # l
    <3>1. asOf'[g] = asOf[g]
      BY <2>4, <1>21 DEF newScanJobFails
    <3> QED
      BY <2>1, <2>2, <2>4, <3>1 DEF InLibs
  <2> QED
    BY <2>3, <2>4
<1>22. ASSUME Phase1Fails PROVE Goal
  BY <1>a, <1>b, <1>c, <1>22 DEF Phase1Fails, Orphan, EndScan, rowVars, scanVars
<1>23. ASSUME LaterStepFails PROVE Goal
  BY <1>a, <1>b, <1>c, <1>23 DEF LaterStepFails, Orphan, EndScan, rowVars, scanVars
<1>24. ASSUME Crash PROVE Goal
  BY <1>a, <1>b, <1>c, <1>24 DEF Crash, Orphan, EndScan, rowVars, scanVars
<1>25. ASSUME Restart PROVE Goal
  BY <1>a, <1>b, <1>c, <1>25 DEF Restart, rowVars, scanVars
<1>26. CASE UNCHANGED vars
  BY <1>26 DEF vars, rowVars, scanVars
<1> QED
  BY <1>1, <1>2, <1>3, <1>4, <1>5, <1>6, <1>7, <1>8, <1>9, <1>10, <1>11, <1>12, <1>13,
     <1>14, <1>15, <1>16, <1>17, <1>18, <1>19, <1>20, <1>21, <1>22, <1>23, <1>24, <1>25,
     <1>26
  DEF Next, Scanning, Failing

\* A scan that completes, quick, full or resumed, has imported every folder it
\* was asked for at least as it was at the start: neither the hash nor the
\* update time of an interrupted scan lets a change slip through.
THEOREM ScansAreComplete == Spec => CompletedScanIsCurrent
<1> DEFINE Inv == SkipInv /\ \A f \in Folders : CurrentInv(f)
           Complete == runUpdateLibraries =>
                         \A f \in scope \cap InLibs(libs) :
                             fol[f].unread \/ fol[f].content >= asOf[f]
<1>1. Init => Inv
  BY DEF Init, SkipInv, EntryInOrder, RowInOrder, Hash, CurrentInv
<1>2. TypeOK /\ TypeOK' /\ Inv /\ [Next]_vars => Inv'
  BY SkipStep, CurrentStep
<1>3. TypeOK /\ Inv => [Complete]_vars
  <2> SUFFICES ASSUME TypeOK, Inv, runUpdateLibraries,
                      NEW f \in scope \cap InLibs(libs)
               PROVE  fol[f].unread \/ fol[f].content >= asOf[f]
    OBVIOUS
  <2>1. f \in Folders /\ LibOf[f] \in libs /\ f \in scope
    BY DEF InLibs
  <2>2. Imported(f)
    BY <2>1 DEF runUpdateLibraries, CurrentInv
  <2>3. fol[f].content \in Int /\ asOf[f] \in Int
    BY <2>1, Bounds DEF TypeOK, RowTypes, Versions
  <2> QED
    BY <2>2, <2>3 DEF Imported
<1> HIDE DEF Inv, Complete
<1>4. Spec => [][Complete]_vars
  BY <1>1, <1>2, <1>3, TypeInit, TypeStep, PTL DEF Spec
<1> QED
  BY <1>4 DEF CompletedScanIsCurrent, Complete

\* A scan that ended, whatever interrupted it and its predecessors, leaves no
\* gap: skipped folders are imported, albums whole, counts fresh and a recorded
\* full scan remembered, if scans ask for whole libraries.
THEOREM NoGapIsLeft ==
    ASSUME WholeLibraries
    PROVE  Spec => []ScanLeavesNoGap
<1>1. Spec => []RecordedFullScanIsKept
  BY FullScanIsRemembered
<1> QED
  BY <1>1, SkippingIsSound, AlbumsAreCompleted, StatsAreRefreshed, PTL DEF ScanLeavesNoGap
================================================================================
