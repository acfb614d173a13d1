------------------------------ MODULE Catalogue ------------------------------
(* The rows that follow the songs: albums, artists, credits, library entries, *)
(* annotations and playlist tracks.  The scanner imports songs in one         *)
(* transaction each, refreshes the albums it touched, cleans up in one        *)
(* transaction and counts the artists' songs; a request that deletes missing  *)
(* songs (core/maintenance.go) takes no lock, and its clean-up is a sequence  *)
(* of statements.                                                             *)
EXTENDS Naturals, Sequences, FiniteSets

CONSTANTS
    Tracks,         \* songs, by id; each alone in its folder
    Releases,       \* albums
    Performers,     \* artists
    ReleaseOf, PerformerOf,   \* [Tracks -> ...] the tags of a song
    Deleters,       \* requests that delete missing files
    NoRecord,       \* there is no such row
    MaxFileChanges, \* bound: songs added, changed or removed on disk
    MaxDbErrors     \* bound: statements that fail

AlbumRow == [songs : SUBSET Tracks, missing : BOOLEAN, artists : SUBSET Performers]

ASSUME CatalogueAssumption ==
    /\ IsFiniteSet(Tracks) /\ Tracks \cap Releases = {}
    /\ ReleaseOf \in [Tracks -> Releases] /\ PerformerOf \in [Tracks -> Performers]
    /\ NoRecord \notin {"there", "missing", "shown"} \cup Nat \cup AlbumRow
    /\ MaxFileChanges \in Nat /\ MaxDbErrors \in Nat

VARIABLES
    db,        \* the tables: see CatalogueInit
    disk,      \* [Tracks -> {"absent", "changed", "known"}] the file, against its row
    scanning,  \* [at, todo, albums, read, ids] of the scanner
    deleter,   \* [Deleters -> [at, todo, albums, read, ids]]
    fileChanges, dbErrors,
    early,     \* history: a clean-up came between an import, or a deletion, and what
               \* completes it
    staleRead  \* history: songs changed between the read and the write of an album,
               \* or between the read of the albums and the deletion of their songs

catalogueVars == <<db, disk, scanning, deleter, fileChanges, dbErrors, early, staleRead>>

Quiet == [at |-> "idle", todo |-> {}, albums |-> {}, read |-> <<>>, ids |-> {}]

\* song: media_file; credit: songs with a row in media_file_artists; album with
\* its album_artists; artist: "shown" or "missing"; listed: library_artist with
\* the number of songs in its stats, 0 for '{}'; playlist: the songs on playlists,
\* whose places are in PlaylistTracks; touched, fresh: albums and artists written
\* since the end of the last scan.
CatalogueInit ==
    /\ db = [song |-> [t \in Tracks |-> NoRecord], credit |-> {},
             album |-> [r \in Releases |-> NoRecord], artist |-> [p \in Performers |-> NoRecord],
             listed |-> [p \in Performers |-> NoRecord],
             marks |-> {}, playlist |-> {}, touched |-> {}, fresh |-> {}]
    /\ disk \in [Tracks -> {"absent", "changed"}]
    /\ scanning = Quiet
    /\ deleter = [d \in Deleters |-> Quiet]
    /\ fileChanges = 0 /\ dbErrors = 0 /\ early = FALSE /\ staleRead = FALSE

\* A song's row changes while a copy of its album waits to be written.
Overtaken(songs) ==
    \E r \in {ReleaseOf[t] : t \in songs} :
        \/ scanning.at = "put" /\ scanning.read[1] = r
        \/ \E d \in Deleters : deleter[d].at = "write" /\ r \in deleter[d].albums
Overtakes(songs) == staleRead' = (staleRead \/ Overtaken(songs))

HasSongs(d, r) == {t \in Tracks : d.song[t] # NoRecord /\ ReleaseOf[t] = r}

\* MediaFiles.ToAlbum: every row counts, also a missing song's.
ToAlbum(d, songs) ==
    [songs |-> songs, missing |-> \A t \in songs : d.song[t] = "missing",
     artists |-> {PerformerOf[t] : t \in songs}]

\* Album.Equals ignores the participants; counts, sizes, durations and folders
\* tell albums of different songs apart.
AlbumEquals(a, b) == a.songs = b.songs /\ a.missing = b.missing

IsStale(d, r) ==
    /\ d.album[r] # NoRecord /\ HasSongs(d, r) # {}
    /\ ~AlbumEquals(d.album[r], ToAlbum(d, HasSongs(d, r)))

\* updateParticipants keeps those that exist.
PutAlbum(d, r, a) ==
    [d EXCEPT !.album[r] = [a EXCEPT !.artists = {p \in @ : d.artist[p] # NoRecord}]]

-------------------------------------------------------------------------------
(* SQLStore.GC: each statement is a function of the tables.                *)

purgeEmptyAlbums(d) ==
    [d EXCEPT !.album = [r \in Releases |-> IF HasSongs(d, r) = {} THEN NoRecord ELSE @[r]]]

\* The rows that refer to an artist go with it.
purgeEmptyArtists(d) ==
    LET kept == {p \in Performers : \E r \in Releases : d.album[r] # NoRecord /\ p \in d.album[r].artists}
    IN  [d EXCEPT !.artist = [p \in Performers |-> IF p \in kept THEN @[p] ELSE NoRecord],
                  !.listed = [p \in Performers |-> IF p \in kept THEN @[p] ELSE NoRecord],
                  !.credit = {t \in @ : PerformerOf[t] \in kept}]

markMissing(d) ==
    LET heard == {p \in Performers : \E r \in Releases :
                    d.album[r] # NoRecord /\ p \in d.album[r].artists /\ ~d.album[r].missing}
    IN  [d EXCEPT !.artist = [p \in Performers |-> IF @[p] = NoRecord THEN NoRecord
                                                   ELSE IF p \in heard THEN "shown" ELSE "missing"]]

cleanAnnotations(d, table) == [d EXCEPT !.marks = {m \in @ : m \in DOMAIN table => table[m] # NoRecord}]

removeOrphans(d) == [d EXCEPT !.playlist = {t \in @ : d.song[t] # NoRecord}]

\* The statements and what comes after each.
GCNext ==
    [albums |-> "artists", artists |-> "missing", missing |-> "albumMarks", albumMarks |-> "artistMarks",
     artistMarks |-> "songMarks", songMarks |-> "playlists", playlists |-> "list"]
GCSteps == {"albums", "artists", "missing", "albumMarks", "artistMarks", "songMarks", "playlists"}

GCStep(d, step) ==
    CASE step = "albums"      -> purgeEmptyAlbums(d)
      [] step = "artists"     -> purgeEmptyArtists(d)
      [] step = "missing"     -> markMissing(d)
      [] step = "albumMarks"  -> cleanAnnotations(d, d.album)
      [] step = "artistMarks" -> cleanAnnotations(d, d.artist)
      [] step = "songMarks"   -> cleanAnnotations(d, d.song)
      [] step = "playlists"   -> removeOrphans(d)

GC(d) ==
    LET purged == markMissing(purgeEmptyArtists(purgeEmptyAlbums(d)))
        songs  == cleanAnnotations(purged, purged.song)
        albums == cleanAnnotations(songs, songs.album)
    IN  removeOrphans(cleanAnnotations(albums, albums.artist))

-------------------------------------------------------------------------------
(* RefreshStats, for the artists whose ids were read before.               *)

SongsBy(d, p) == {t \in d.credit : PerformerOf[t] = p}

UpdateStats(d, ids) ==
    [d EXCEPT !.listed = [p \in Performers |->
        IF p \in ids /\ @[p] # NoRecord THEN Cardinality(SongsBy(d, p)) ELSE @[p]]]

\* Entries without stats are removed, and artists without an entry hidden: after
\* every removal and, in a full refresh, in any case.
CleanupEntries(d, all) ==
    LET left == [p \in Performers |-> IF d.listed[p] = 0 THEN NoRecord ELSE d.listed[p]]
    IN  [d EXCEPT !.listed = left,
                  !.artist = [p \in Performers |->
                     IF @[p] # NoRecord /\ left[p] = NoRecord /\ (all \/ left # d.listed)
                     THEN "missing" ELSE @[p]]]

-------------------------------------------------------------------------------
(* The scanner                                                             *)

Processes(t) ==
    /\ scanning.at = "import" /\ t \in scanning.todo
    /\ scanning' = [scanning EXCEPT !.todo = @ \ {t}]

\* persistChanges of a folder with one song: the album's row is written from the
\* songs of this transaction, whatever else the album holds.
Import(t) ==
    LET p == PerformerOf[t]
        r == ReleaseOf[t]
        d == [db EXCEPT !.artist[p] = IF @ = NoRecord THEN "shown" ELSE @,
                        !.listed[p] = IF @ = NoRecord THEN 0 ELSE @,
                        !.song[t] = "there", !.credit = @ \cup {t},
                        !.touched = @ \cup {r}, !.fresh = @ \cup {p}]
    IN  /\ Processes(t) /\ disk[t] = "changed"
        /\ db' = PutAlbum(d, r, ToAlbum(d, {t}))
        /\ disk' = [disk EXCEPT ![t] = "known"]
        /\ early' = (early \/ \E e \in Deleters : deleter[e].at \in {"batch", "cleanup"})
        /\ Overtakes({t})
        /\ UNCHANGED <<deleter, fileChanges, dbErrors>>

MarkMissing(t) ==
    /\ Processes(t) /\ disk[t] = "absent" /\ db.song[t] = "there"
    /\ db' = [db EXCEPT !.song[t] = "missing", !.touched = @ \cup {ReleaseOf[t]}]
    /\ Overtakes({t})
    /\ UNCHANGED <<disk, deleter, fileChanges, dbErrors, early>>

SkipFolder(t) ==
    /\ Processes(t) /\ disk[t] # "changed" /\ (disk[t] = "absent" => db.song[t] # "there")
    /\ UNCHANGED <<db, disk, deleter, fileChanges, dbErrors, early, staleRead>>

StartScan ==
    /\ scanning.at = "idle"
    /\ scanning' = [Quiet EXCEPT !.at = "import", !.todo = Tracks]
    /\ UNCHANGED <<db, disk, deleter, fileChanges, dbErrors, early, staleRead>>

\* Phase 3 takes the albums touched since the last scan.
EndImport ==
    /\ scanning.at = "import" /\ scanning.todo = {}
    /\ scanning' = [scanning EXCEPT !.at = IF db.touched = {} THEN "idle" ELSE "albums", !.albums = db.touched]
    /\ UNCHANGED <<db, disk, deleter, fileChanges, dbErrors, early, staleRead>>

\* Mutant: touched albums are taken to be up to date.
filterUnmodified_Never(r) ==
    /\ scanning.at = "albums" /\ r \in scanning.albums
    /\ scanning' = [scanning EXCEPT !.albums = @ \ {r}]
    /\ UNCHANGED <<db, disk, deleter, fileChanges, dbErrors, early, staleRead>>

\* The songs are read here and the album is written in a later step.
filterUnmodified(r) ==
    /\ scanning.at = "albums" /\ r \in scanning.albums
    /\ scanning' = IF IsStale(db, r)
                   THEN [scanning EXCEPT !.albums = @ \ {r}, !.at = "put",
                                         !.read = <<r, ToAlbum(db, HasSongs(db, r))>>]
                   ELSE [scanning EXCEPT !.albums = @ \ {r}]
    /\ UNCHANGED <<db, disk, deleter, fileChanges, dbErrors, early, staleRead>>

refreshAlbum ==
    /\ scanning.at = "put"
    /\ db' = PutAlbum(db, scanning.read[1], scanning.read[2])
    /\ scanning' = [scanning EXCEPT !.at = "albums", !.read = <<>>]
    /\ UNCHANGED <<disk, deleter, fileChanges, dbErrors, early, staleRead>>

\* An album that a deletion has not refreshed yet brings back the artists it lost.
runGC ==
    /\ scanning.at = "albums" /\ scanning.albums = {}
    /\ db' = GC(db)
    /\ scanning' = [scanning EXCEPT !.at = "list"]
    /\ early' = (early \/ \E d \in Deleters : deleter[d].at \in {"read", "write"} /\ \E r \in deleter[d].albums : IsStale(db, r))
    /\ UNCHANGED <<disk, deleter, fileChanges, dbErrors, staleRead>>

\* The artists written since the last scan; without any nothing is cleaned up.
runRefreshStats ==
    \/ /\ scanning.at = "list"
       /\ scanning' = [scanning EXCEPT !.at = IF db.fresh = {} THEN "finish" ELSE "batch", !.ids = db.fresh]
       /\ UNCHANGED <<db, disk, deleter, fileChanges, dbErrors, early, staleRead>>
    \/ /\ scanning.at = "batch"
       /\ db' = UpdateStats(db, scanning.ids)
       /\ scanning' = [scanning EXCEPT !.at = "cleanup"]
       /\ UNCHANGED <<disk, deleter, fileChanges, dbErrors, early, staleRead>>
    \/ /\ scanning.at = "cleanup"
       /\ db' = CleanupEntries(db, FALSE)
       /\ scanning' = [scanning EXCEPT !.at = "finish"]
       /\ UNCHANGED <<disk, deleter, fileChanges, dbErrors, early, staleRead>>

FinishScan ==
    /\ scanning.at = "finish"
    /\ db' = [db EXCEPT !.touched = {}, !.fresh = {}]
    /\ scanning' = Quiet
    /\ UNCHANGED <<disk, deleter, fileChanges, dbErrors, early, staleRead>>

-------------------------------------------------------------------------------
(* deleteMissing                                                           *)

At(d, s) == deleter[d].at = s
Goes(d, s) == deleter' = [deleter EXCEPT ![d].at = s]
Missing == {t \in Tracks : db.song[t] = "missing"}

getAffectedAlbumIDs(d) ==
    /\ At(d, "idle") /\ Missing # {}
    /\ deleter' = [deleter EXCEPT ![d] = [Quiet EXCEPT !.at = "delete", !.albums = {ReleaseOf[t] : t \in Missing}]]
    /\ UNCHANGED <<db, disk, scanning, fileChanges, dbErrors, early, staleRead>>

\* The credits go with the songs.  What became missing since the albums were read
\* is deleted too, and its albums are not refreshed.
DeleteAllMissing(d) ==
    /\ At(d, "delete")
    /\ db' = [db EXCEPT !.song = [t \in Tracks |-> IF t \in Missing THEN NoRecord ELSE @[t]],
                        !.credit = @ \ Missing]
    /\ Goes(d, "albums")
    /\ staleRead' = (staleRead \/ Overtaken(Missing) \/ \E t \in Missing : ReleaseOf[t] \notin deleter[d].albums)
    /\ UNCHANGED <<disk, scanning, fileChanges, dbErrors, early>>

CollectGarbage(d) ==
    \E step \in GCSteps :
        /\ At(d, step)
        /\ db' = GCStep(db, step)
        /\ Goes(d, GCNext[step])
        /\ early' = (early \/ (step = "artists" /\ scanning.at \in {"import", "albums", "put"}))
        /\ UNCHANGED <<disk, scanning, fileChanges, dbErrors, staleRead>>

\* In the background: every artist, then the albums that lost a song.
refreshStatsAsync(d) ==
    \/ /\ At(d, "list")
       /\ deleter' = [deleter EXCEPT ![d].ids = {p \in Performers : db.artist[p] # NoRecord},
                                     ![d].at = IF \E p \in Performers : db.artist[p] # NoRecord
                                               THEN "batch" ELSE "read"]
       /\ UNCHANGED <<db, disk, scanning, fileChanges, dbErrors, early, staleRead>>
    \/ /\ At(d, "batch")
       /\ db' = UpdateStats(db, deleter[d].ids)
       /\ Goes(d, "cleanup")
       /\ UNCHANGED <<disk, scanning, fileChanges, dbErrors, early, staleRead>>
    \/ /\ At(d, "cleanup")
       /\ db' = CleanupEntries(db, TRUE)
       /\ Goes(d, "read")
       /\ UNCHANGED <<disk, scanning, fileChanges, dbErrors, early, staleRead>>

\* Read all, then write those that differ.
refreshAlbums(d) ==
    LET stale == {r \in deleter[d].albums : IsStale(db, r)}
    IN  \/ /\ At(d, "read")
           /\ deleter' = [deleter EXCEPT ![d].at = "write",
                            ![d].read = [r \in stale |-> ToAlbum(db, HasSongs(db, r))]]
           /\ UNCHANGED <<db, disk, scanning, fileChanges, dbErrors, early, staleRead>>
        \/ /\ At(d, "write")
           /\ db' = [db EXCEPT !.album = [r \in Releases |->
                        IF r \in DOMAIN deleter[d].read
                        THEN PutAlbum(db, r, deleter[d].read[r]).album[r] ELSE @[r]]]
           /\ deleter' = [deleter EXCEPT ![d] = [Quiet EXCEPT !.at = "done"]]
           /\ UNCHANGED <<disk, scanning, fileChanges, dbErrors, early, staleRead>>

-------------------------------------------------------------------------------
(* The world                                                               *)

FileChanges(t) ==
    /\ fileChanges < MaxFileChanges /\ fileChanges' = fileChanges + 1
    /\ disk' \in {[disk EXCEPT ![t] = "absent"], [disk EXCEPT ![t] = "changed"]} /\ disk' # disk
    /\ UNCHANGED <<db, scanning, deleter, dbErrors, early, staleRead>>

\* A user stars what is there, or puts a song on a playlist.
Mark(m) ==
    /\ m \notin db.marks
    /\ \/ m \in Tracks /\ db.song[m] = "there" /\ db' = [db EXCEPT !.marks = @ \cup {m}, !.playlist = @ \cup {m}]
       \/ m \in Releases /\ db.album[m] # NoRecord /\ db' = [db EXCEPT !.marks = @ \cup {m}]
    /\ UNCHANGED <<disk, scanning, deleter, fileChanges, dbErrors, early, staleRead>>

\* A statement fails: the scan ends, the request answers with an error.  Without
\* the list of albums the request goes on, and so does the background work
\* without the artists' counts.
StatementFails ==
    /\ dbErrors < MaxDbErrors /\ dbErrors' = dbErrors + 1
    /\ \/ scanning.at # "idle" /\ scanning' = Quiet /\ UNCHANGED deleter
       \/ \E d \in Deleters :
            /\ deleter[d].at # "done" /\ (At(d, "idle") => Missing # {})
            /\ Goes(d, CASE At(d, "idle") -> "delete"
                         [] deleter[d].at \in {"list", "batch", "cleanup"} -> "read"
                         [] OTHER -> "done")
            /\ UNCHANGED scanning
    /\ UNCHANGED <<db, disk, fileChanges, early, staleRead>>

ScannerSteps ==
    \/ StartScan \/ EndImport \/ refreshAlbum \/ runGC \/ runRefreshStats \/ FinishScan
    \/ \E t \in Tracks : Import(t) \/ MarkMissing(t) \/ SkipFolder(t)
    \/ \E r \in Releases : filterUnmodified(r)

DeleterSteps(d) ==
    getAffectedAlbumIDs(d) \/ DeleteAllMissing(d) \/ CollectGarbage(d) \/ refreshStatsAsync(d) \/ refreshAlbums(d)

CatalogueNext ==
    \/ ScannerSteps \/ StatementFails
    \/ \E d \in Deleters : DeleterSteps(d)
    \/ \E t \in Tracks : FileChanges(t)
    \/ \E m \in Tracks \cup Releases : Mark(m)

CatalogueSpec == CatalogueInit /\ [][CatalogueNext]_catalogueVars

-------------------------------------------------------------------------------
(* Properties *)

Settled == scanning.at = "idle" /\ \A d \in Deleters : deleter[d].at \in {"idle", "done"}
Disturbed == dbErrors > 0 \/ early \/ staleRead

\* At rest, every song that can be played is found through its album and through
\* its artist: both rows exist and are shown, and the artist's entry counts it.
SongsAreFound ==
    Settled /\ ~Disturbed =>
        \A t \in Tracks : db.song[t] = "there" =>
            /\ t \in db.credit /\ db.artist[PerformerOf[t]] = "shown"
            /\ db.listed[PerformerOf[t]] \in Nat \ {0}
            /\ db.album[ReleaseOf[t]] # NoRecord /\ PerformerOf[t] \in db.album[ReleaseOf[t]].artists

\* At rest, what is shown has songs: no album without one, no artist shown
\* without one, and nobody's star or playlist refers to what is gone.
NothingDangles ==
    Settled /\ ~Disturbed =>
        /\ \A r \in Releases : db.album[r] # NoRecord => HasSongs(db, r) # {}
        /\ \A p \in Performers : db.artist[p] = "shown" => SongsBy(db, p) # {}
        /\ \A m \in db.marks : m \in Tracks => db.song[m] # NoRecord
        /\ \A m \in db.marks : m \in Releases => db.album[m] # NoRecord
        /\ \A t \in db.playlist : db.song[t] # NoRecord

\* At rest an album counts its songs.
AlbumsCount ==
    Settled /\ ~Disturbed =>
        \A r \in Releases : db.album[r] # NoRecord => AlbumEquals(db.album[r], ToAlbum(db, HasSongs(db, r)))

\* When scans, deletions and refreshes have come to rest, what is in the library
\* is found, what is shown is there, and albums count right.
CatalogueIsSound == SongsAreFound /\ NothingDangles /\ AlbumsCount
===============================================================================
