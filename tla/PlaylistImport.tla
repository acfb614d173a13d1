--------------------------- MODULE PlaylistImport ---------------------------
(* Playlist files of the music folder and the playlists made from them: the   *)
(* scanner's last phase, which has nobody to give a playlist to before the    *)
(* first administrator exists; the import command, another process without    *)
(* the scan's lock; and users who rename, detach and delete what was imported. *)
EXTENDS Naturals, FiniteSets

CONSTANTS
    ListFiles,      \* playlist files, each alone in its folder
    NoFile,         \* there is no such file
    MaxLists,       \* bound: playlists ever made
    MaxListWrites,  \* bound: files written or removed
    MaxListChanges, \* bound: changes by users and import commands
    MaxListFaults   \* bound: folders that cannot be read, scans that fail

\* A file has one of two lists of songs, or none that is in the library.
Contents == {"a", "b", "empty"}

ASSUME ImportAssumption ==
    /\ NoFile \notin ListFiles \cup Contents
    /\ MaxLists \in Nat /\ MaxListWrites \in Nat /\ MaxListChanges \in Nat /\ MaxListFaults \in Nat

VARIABLES
    listFile,   \* [ListFiles -> Contents \cup {NoFile}]
    playlists,  \* rows made from files: [id, path, sync, name, tracks]
    dirty,      \* files whose folder differs from what phase 1 last saw
    folders,    \* files that phase 1 counted in their folder's row
    touched,    \* folders updated since the end of the last scan
    admin,      \* there is an administrator
    deferred,   \* PlaylistsImportPending is set
    phase4,     \* [at, todo, pending, job] of the scanner
    command,    \* the import command's job
    userEdit,   \* the copy of a row that a user's request is about to write
    madeLists, listWrites, listChanges, listFaults,
    names,      \* history: [id -> name] as users left it
    detached,   \* history: playlists that were not synchronised for a while
    lost,       \* history: files whose folder could not be read, or whose playlist a user deleted
    crossed     \* history: a row was written from a copy of it, or of its file, that was no longer true

importVars == <<listFile, playlists, dirty, folders, touched, admin, deferred, phase4, command, userEdit,
                madeLists, listWrites, listChanges, listFaults, names, detached, lost, crossed>>
history == <<names, detached, lost>>
bounds == <<listWrites, listChanges, listFaults>>

NoJob == [at |-> "idle", file |-> NoFile, tracks |-> NoFile, sync |-> TRUE, old |-> {}]
Scanless == [at |-> "idle", todo |-> {}, pending |-> FALSE, job |-> NoJob]

ImportInit ==
    /\ listFile \in [ListFiles -> {"a", NoFile}]
    /\ playlists = {} /\ dirty = ListFiles /\ folders = {} /\ touched = {}
    /\ admin = FALSE /\ deferred = FALSE
    /\ phase4 = Scanless /\ command = NoJob /\ userEdit = {}
    /\ madeLists = 0 /\ listWrites = 0 /\ listChanges = 0 /\ listFaults = 0
    /\ names = [i \in 1..MaxLists |-> "file"] /\ detached = {} /\ lost = {} /\ crossed = FALSE

ByPath(f) == {p \in playlists : p.path = f}

OneOf(set) == IF set = {} THEN {{}} ELSE {{p} : p \in set}

\* Mutant: only synchronised playlists are looked at.
FindByPath_Synced(f) == OneOf({p \in ByPath(f) : p.sync})

\* What FindByPath may give: nothing, or one of several.
FindByPath(f) == OneOf(ByPath(f))

-----------------------------------------------------------------------------
(* parsePlaylist and updatePlaylist: the file is read, the row is looked     *)
(* up, and the playlist written.  A job's old row is {} for a new playlist.  *)

Found(job, old, forced) ==
    IF \E p \in old : ~p.sync /\ ~forced THEN [job EXCEPT !.at = "skipped"]
    ELSE [job EXCEPT !.at = "put", !.old = old]

\* An existing playlist keeps its name, comment, owner, visibility and image.
Merged(old) == [old EXCEPT !.sync = TRUE]

\* The row that a job puts: a new one, or the one it found.
ListRow(job) ==
    IF job.old = {} THEN [id |-> madeLists + 1, path |-> job.file, sync |-> TRUE, name |-> "file", tracks |-> job.tracks]
                    ELSE Merged(CHOOSE p \in job.old : TRUE)

\* Tracks are replaced only by tracks.  A deleted row comes back with its id.
PutList(job, row, unlocked) ==
    LET now == {p \in playlists : p.id = row.id}
        tracks == IF job.tracks = "empty" /\ now # {} THEN (CHOOSE p \in now : TRUE).tracks ELSE job.tracks
    IN  /\ job.old = {} => madeLists < MaxLists
        /\ playlists' = (playlists \ now) \cup {[row EXCEPT !.tracks = tracks]}
        /\ madeLists' = IF job.old = {} THEN madeLists + 1 ELSE madeLists
        /\ crossed' = (crossed \/ now # job.old \/ (unlocked /\ listFile[job.file] # job.tracks)
                     \/ (job.old = {} /\ {} \notin FindByPath(job.file)))

-----------------------------------------------------------------------------
(* The scanner                                                              *)

Phase4Only == <<listFile, admin, command, userEdit, bounds, history>>

\* Phase 1 stores the folders that changed.
ImportPhase1 ==
    /\ phase4.at = "idle"
    /\ folders' = {f \in ListFiles : listFile[f] # NoFile}
    /\ touched' = touched \cup dirty /\ dirty' = {}
    /\ phase4' = [Scanless EXCEPT !.at = "produce"]
    /\ UNCHANGED <<playlists, deferred, madeLists, crossed, Phase4Only>>

produce ==
    /\ phase4.at = "produce"
    /\ IF admin
       THEN /\ phase4' = [phase4 EXCEPT !.at = "import", !.pending = deferred,
                                        !.todo = IF deferred THEN folders ELSE folders \cap touched]
            /\ UNCHANGED deferred
       ELSE /\ phase4' = [phase4 EXCEPT !.at = "finalize"]
            /\ deferred' = TRUE
    /\ UNCHANGED <<playlists, dirty, folders, touched, madeLists, crossed, Phase4Only>>

\* A file that is gone meanwhile is left out.
processPlaylistsInFolder(f) ==
    /\ phase4.at = "import" /\ phase4.job.at = "idle" /\ f \in phase4.todo
    /\ phase4' = [phase4 EXCEPT !.todo = @ \ {f},
                    !.job = IF listFile[f] = NoFile THEN NoJob
                            ELSE [NoJob EXCEPT !.at = "find", !.file = f, !.tracks = listFile[f]]]
    /\ UNCHANGED <<playlists, dirty, folders, touched, deferred, madeLists, crossed, Phase4Only>>

\* A folder that cannot be read is a warning.
FolderUnreadable(f) ==
    /\ phase4.at = "import" /\ phase4.job.at = "idle" /\ f \in phase4.todo
    /\ listFaults < MaxListFaults /\ listFaults' = listFaults + 1
    /\ phase4' = [phase4 EXCEPT !.todo = @ \ {f}] /\ lost' = lost \cup {f}
    /\ UNCHANGED <<playlists, dirty, folders, touched, deferred, madeLists, crossed, listFile, admin,
                   command, userEdit, listWrites, listChanges, names, detached>>

ImportFromFolder ==
    /\ phase4.at = "import"
    /\ \/ /\ phase4.job.at = "find"
          /\ \E old \in FindByPath(phase4.job.file) :
                LET job == Found(phase4.job, old, FALSE)
                IN  phase4' = [phase4 EXCEPT !.job = IF job.at = "put" THEN job ELSE NoJob]
          /\ UNCHANGED <<playlists, madeLists, crossed>>
       \/ /\ phase4.job.at = "put"
          /\ PutList(phase4.job, ListRow(phase4.job), FALSE)
          /\ phase4' = [phase4 EXCEPT !.job = NoJob]
    /\ UNCHANGED <<dirty, folders, touched, deferred, Phase4Only>>

finalize ==
    /\ \/ phase4.at = "finalize"
       \/ phase4.at = "import" /\ phase4.todo = {} /\ phase4.job.at = "idle"
    /\ deferred' = (deferred /\ ~phase4.pending)
    /\ phase4' = [phase4 EXCEPT !.at = "end"]
    /\ UNCHANGED <<playlists, dirty, folders, touched, madeLists, crossed, Phase4Only>>

\* ScanEnd moves last_scan_at.
ImportScanEnds ==
    /\ phase4.at = "end"
    /\ touched' = {} /\ phase4' = Scanless
    /\ UNCHANGED <<playlists, dirty, folders, deferred, madeLists, crossed, Phase4Only>>

ImportScanFails ==
    /\ phase4.at # "idle" /\ listFaults < MaxListFaults /\ listFaults' = listFaults + 1
    /\ phase4' = Scanless
    /\ UNCHANGED <<playlists, dirty, folders, touched, deferred, madeLists, crossed, listFile, admin,
                   command, userEdit, listWrites, listChanges, history>>

-----------------------------------------------------------------------------
(* The command `pls import`, with or without --sync                         *)

CommandOnly == <<listFile, dirty, folders, touched, admin, deferred, phase4, userEdit, listWrites, listFaults, names, lost>>

Changes == listChanges < MaxListChanges /\ listChanges' = listChanges + 1

ImportFile(f, sync) ==
    /\ command.at = "idle" /\ admin /\ listFile[f] # NoFile /\ f \in folders /\ Changes
    /\ command' = [NoJob EXCEPT !.at = "find", !.file = f, !.tracks = listFile[f], !.sync = sync]
    /\ UNCHANGED <<playlists, madeLists, crossed, detached, CommandOnly>>

\* The playlist just written is put once more, whole, with the flag asked for.
importFromFolder ==
    /\ \/ /\ command.at = "find"
          /\ \E old \in FindByPath(command.file) :
                LET job == Found(command, old, command.sync)
                IN  command' = IF job.at = "put" THEN job ELSE NoJob
          /\ UNCHANGED <<playlists, madeLists, crossed, detached>>
       \/ /\ command.at = "put"
          /\ PutList(command, ListRow(command), TRUE)
          /\ command' = IF command.sync THEN NoJob
                        ELSE [command EXCEPT !.at = "unsync", !.old = {p \in playlists' : p.id = ListRow(command).id}]
          /\ UNCHANGED detached
       \/ /\ command.at = "unsync"
          /\ \E p \in command.old :
                /\ PutList(command, [p EXCEPT !.sync = FALSE], TRUE)
                /\ detached' = detached \cup {p.id}
          /\ command' = NoJob
    /\ UNCHANGED <<listChanges, CommandOnly>>

-----------------------------------------------------------------------------
(* Users                                                                    *)

UserOnly == <<listFile, dirty, folders, touched, admin, deferred, phase4, command, madeLists, listWrites, listFaults>>

\* updatePlaylistEntity with a new name: the row is read, then written whole.
RenameReads(p) ==
    /\ userEdit = {} /\ Changes
    /\ userEdit' = {[p EXCEPT !.name = "user"]}
    /\ UNCHANGED <<playlists, history, crossed, UserOnly>>

updateMetadata ==
    \E new \in userEdit :
        LET now == {p \in playlists : p.id = new.id}
        IN  /\ userEdit' = {}
            /\ playlists' = (playlists \ now) \cup {[new EXCEPT !.tracks = IF now = {} THEN "empty" ELSE (CHOOSE p \in now : TRUE).tracks]}
            /\ names' = [names EXCEPT ![new.id] = "user"]
            /\ crossed' = (crossed \/ \A p \in now : p.sync # new.sync)
            /\ UNCHANGED <<detached, lost, listChanges, UserOnly>>

\* applyFlagsOnly writes one column.
applyFlagsOnly(p) ==
    /\ Changes
    /\ playlists' = (playlists \ {p}) \cup {[p EXCEPT !.sync = ~@]}
    /\ detached' = detached \cup {p.id}
    /\ UNCHANGED <<userEdit, names, lost, crossed, UserOnly>>

DeleteList(p) ==
    /\ Changes
    /\ playlists' = playlists \ {p} /\ lost' = lost \cup {p.path}
    /\ UNCHANGED <<userEdit, names, detached, crossed, UserOnly>>

-----------------------------------------------------------------------------

CreateAdmin ==
    /\ ~admin /\ admin' = TRUE
    /\ UNCHANGED <<listFile, playlists, dirty, folders, touched, deferred, phase4, command, userEdit, madeLists, bounds, history, crossed>>

WriteList(f, c) ==
    /\ listWrites < MaxListWrites /\ listWrites' = listWrites + 1 /\ listFile[f] # c
    /\ listFile' = [listFile EXCEPT ![f] = c] /\ dirty' = dirty \cup {f}
    /\ UNCHANGED <<playlists, folders, touched, admin, deferred, phase4, command, userEdit, madeLists, listChanges, listFaults, history, crossed>>

Phase4Steps ==
    \/ ImportPhase1 \/ produce \/ ImportFromFolder \/ finalize \/ ImportScanEnds \/ ImportScanFails
    \/ \E f \in ListFiles : processPlaylistsInFolder(f) \/ FolderUnreadable(f)

ImportNext ==
    \/ Phase4Steps \/ importFromFolder \/ updateMetadata \/ CreateAdmin
    \/ \E f \in ListFiles, sync \in BOOLEAN : ImportFile(f, sync)
    \/ \E p \in playlists : RenameReads(p) \/ applyFlagsOnly(p) \/ DeleteList(p)
    \/ \E f \in ListFiles, c \in Contents \cup {NoFile} : WriteList(f, c)

ImportSpec == ImportInit /\ [][ImportNext]_importVars

-----------------------------------------------------------------------------
(* Properties *)

\* Every playlist file that a finished scan has seen became a playlist, or the
\* mark is set by which the next scan takes all of them.
DeferredIsNotForgotten ==
    phase4.at = "idle" => \A f \in folders \ (dirty \cup touched \cup lost) : ByPath(f) # {} \/ deferred

\* What users called a playlist is never undone by an import.
NamesSurviveImports == ~crossed => \A p \in playlists : p.name = names[p.id]

\* A file is imported once: later imports change the playlist it has.
OnePlaylistPerFile == ~crossed => \A p, q \in playlists : p.path = q.path => p = q

\* Between scans a synchronised playlist has the tracks of its file, except that
\* a file without any known song leaves the tracks as they are.
SyncedFollowsFile ==
    phase4.at = "idle" /\ command.at = "idle" /\ ~deferred /\ ~crossed =>
        \A p \in playlists : p.sync /\ p.id \notin detached /\ p.path \notin dirty \cup touched \cup lost
            => listFile[p.path] \in {p.tracks, "empty", NoFile}

\* Playlist files become playlists once each, follow their files while they are
\* synchronised, keep the users' names, and none is forgotten that was put off.
ImportsAreFaithful ==
    DeferredIsNotForgotten /\ NamesSurviveImports /\ OnePlaylistPerFile /\ SyncedFollowsFile
=============================================================================
