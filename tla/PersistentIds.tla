------------------------------ MODULE PersistentIds ------------------------------
(***************************************************************************)
(* The persistent ids of songs and albums: what a scan computes from the   *)
(* cleaned tags of a file, its library and its path, following the id      *)
(* specifications of the configuration (PID.Track and PID.Album).  Songs   *)
(* are matched by these ids when files move, and playlists, stars and play *)
(* counts hang on them, so they must survive what the user may do to the   *)
(* files between two scans: edit the tags, move them, change the           *)
(* specification.                                                          *)
(*                                                                         *)
(* A tag or an attribute is the sequence of at most one value that         *)
(* Metadata.String returns.  A hash is the tuple of what goes into it, and *)
(* a specification the sequence of its fields, each a sequence of          *)
(* attributes.                                                             *)
(***************************************************************************)
EXTENDS Naturals, Sequences, FiniteSets

CONSTANTS
    Files,         \* the audio files
    Taggings,      \* the tags a file may carry: functions from tag names to values
    Places,        \* where it may lie: records [lib, dir, base]
    Configs,       \* configurations: records [track, album] of specifications
    NoSong,        \* a file that was not imported yet
    MaxFileEdits   \* bound: changes of files and of the configuration

IsList(x) == x \in Seq({x[i] : i \in DOMAIN x})
IsSpec(spec) == IsList(spec) /\ \A n \in DOMAIN spec : IsList(spec[n])

ASSUME IdAssumption == \A c \in Configs : IsSpec(c.track) /\ IsSpec(c.album)

VARIABLES
    file,          \* file[f]: its tags and place on disk
    row,           \* row[f]: the song as last imported, with its ids
    pidConf,       \* conf.Server.PID
    storedConf,    \* the property PIDAlbumKey: the specification of the last full scan
    fileEdits

idVars == <<file, row, pidConf, storedConf, fileEdits>>

DefaultLibrary == "1"
UnknownArtist  == "[Unknown Artist]"
UnknownAlbum   == "[Unknown Album]"
VariousArtists == "Various Artists"
TrackLegacy    == <<<<"track_legacy">>>>
AlbumLegacy    == <<<<"album_legacy">>>>
DefaultTrackPID == <<<<"musicbrainz_trackid">>, <<"albumid", "discnumber", "tracknumber", "title">>>>
DefaultAlbumPID == <<<<"musicbrainz_albumid">>, <<"albumartistid", "album", "albumversion", "releasedate">>>>

-----------------------------------------------------------------------------
\* Reading tags

\* The first value of a tag, looked up under the name that the mappings give it.
String(s, name) == IF name \in DOMAIN s.tags THEN <<s.tags[name]>> ELSE <<>>

FirstGiven(values) ==
    LET given == {i \in DOMAIN values : values[i] # <<>>}
    IN  IF given = {} THEN <<>> ELSE values[CHOOSE i \in given : \A j \in given : i <= j]

Cleared(value) == IF value = <<"X">> THEN <<"x">> ELSE value

mapTrackTitle(s) == FirstGiven(<<String(s, "title"), <<s.base>>>>)

mapDisplayAlbumArtist(s) ==
    FirstGiven(<<String(s, "albumartist"),
                 IF String(s, "compilation") # <<>> THEN <<VariousArtists>> ELSE String(s, "artist"),
                 <<UnknownArtist>>>>)

\* The release date: a recording date not before the original one stands for it.
DateOf(value) == IF value = <<>> THEN 0 ELSE value[1]

mapReleaseDate(s) ==
    LET original == String(s, "originaldate")
        release  == String(s, "releasedate")
        date     == String(s, "recordingdate")
    IN  IF original # <<>> /\ release = <<>> /\ DateOf(date) >= DateOf(original) THEN date ELSE release

-----------------------------------------------------------------------------
\* Computing ids

LibraryPrefix(s) == IF s.lib = DefaultLibrary THEN <<>> ELSE <<s.lib>>

legacyTrackID(s) == <<LibraryPrefix(s), s.dir, s.base>>

legacyAlbumID(s) ==
    <<LibraryPrefix(s), Cleared(mapDisplayAlbumArtist(s)),
      Cleared(FirstGiven(<<String(s, "album"), <<UnknownAlbum>>>>)), mapReleaseDate(s)>>

getPIDAttr_AsTagged(s, attr, albumId) == IF attr = "albumid" THEN albumId ELSE String(s, attr)

getPIDAttr(s, attr, albumId) ==
    CASE attr = "albumid"       -> albumId
      [] attr = "folder"        -> <<s.dir>>
      [] attr = "albumartistid" -> Cleared(mapDisplayAlbumArtist(s))
      [] attr = "title"         -> mapTrackTitle(s)
      [] attr = "album"         -> Cleared(String(s, "album"))
      [] OTHER                  -> String(s, attr)

AttrValues(s, field, albumId) == [i \in DOMAIN field |-> getPIDAttr(s, field[i], albumId)]

HasValue(s, field, albumId) == \E i \in DOMAIN field : getPIDAttr(s, field[i], albumId) # <<>>

computePID_EveryField(s, spec, albumId) ==
    <<s.lib>> \o [n \in DOMAIN spec |-> AttrValues(s, spec[n], albumId)]

computePID_AnyLibrary(s, spec, albumId) ==
    LET given == {n \in DOMAIN spec : HasValue(s, spec[n], albumId)}
    IN  IF given = {} THEN <<>>
        ELSE AttrValues(s, spec[CHOOSE n \in given : \A m \in given : n <= m], albumId)

\* The first field with a value, after the library; two specifications have a form of their own.
computePID(s, spec, albumId) ==
    CASE spec = TrackLegacy -> legacyTrackID(s)
      [] spec = AlbumLegacy -> legacyAlbumID(s)
      [] OTHER ->
           LET given == {n \in DOMAIN spec : HasValue(s, spec[n], albumId)}
           IN  <<s.lib>> \o (IF given = {} THEN <<>>
                             ELSE AttrValues(s, spec[CHOOSE n \in given : \A m \in given : n <= m], albumId))

\* An album specification that names the album id does not see itself.
NestedAlbumID(s, spec) == IF spec = pidConf.album THEN <<>> ELSE computePID(s, pidConf.album, <<>>)

trackPID(s) == computePID(s, pidConf.track, NestedAlbumID(s, pidConf.track))

albumID_Current(s, spec) == computePID(s, pidConf.album, <<>>)

albumID(s, spec) == computePID(s, spec, NestedAlbumID(s, spec))

-----------------------------------------------------------------------------
\* Scanning

Place(s) == [lib |-> s.lib, dir |-> s.dir, base |-> s.base]

\* The id the album had before: of the row at this path or, for a path without one, of what the
\* specification of the last full scan makes of the file.
prevAlbumID(f) ==
    IF row[f] # NoSong /\ Place(row[f]) = Place(file[f]) THEN row[f].album ELSE albumID(file[f], storedConf)

ToMediaFile(f) ==
    [tags |-> file[f].tags, lib |-> file[f].lib, dir |-> file[f].dir, base |-> file[f].base,
     pid |-> trackPID(file[f]), album |-> albumID(file[f], pidConf.album), conf |-> pidConf,
     prev |-> prevAlbumID(f)]

loadTagsFromFiles(f) ==
    /\ row' = [row EXCEPT ![f] = ToMediaFile(f)]
    /\ row' # row
    /\ UNCHANGED <<file, pidConf, storedConf, fileEdits>>

runUpdateLibraries ==
    /\ storedConf # pidConf.album
    /\ \A f \in Files : row[f] # NoSong /\ row[f].conf = pidConf
    /\ storedConf' = pidConf.album
    /\ UNCHANGED <<file, row, pidConf, fileEdits>>

-----------------------------------------------------------------------------
\* What happens to files and the configuration between scans

IdEdit == fileEdits < MaxFileEdits /\ fileEdits' = fileEdits + 1

Lying(tagging, place) == [tags |-> tagging, lib |-> place.lib, dir |-> place.dir, base |-> place.base]

Retag(f) ==
    /\ IdEdit
    /\ \E t \in Taggings \ {file[f].tags} : file' = [file EXCEPT ![f].tags = t]
    /\ UNCHANGED <<row, pidConf, storedConf>>

MoveFile(f) ==
    /\ IdEdit
    /\ \E p \in Places \ {Place(file[g]) : g \in Files} : file' = [file EXCEPT ![f] = Lying(file[f].tags, p)]
    /\ UNCHANGED <<row, pidConf, storedConf>>

Reconfigure ==
    /\ IdEdit
    /\ \E c \in Configs \ {pidConf} : pidConf' = c
    /\ UNCHANGED <<file, row, storedConf>>

IdInit ==
    /\ file \in [Files -> {Lying(t, p) : t \in Taggings, p \in Places}]
    /\ \A f, g \in Files : f # g => Place(file[f]) # Place(file[g])
    /\ row = [f \in Files |-> NoSong]
    /\ pidConf \in Configs
    /\ storedConf = pidConf.album
    /\ fileEdits = 0

IdNext ==
    \/ \E f \in Files : loadTagsFromFiles(f) \/ Retag(f) \/ MoveFile(f)
    \/ runUpdateLibraries \/ Reconfigure

IdSpec == IdInit /\ [][IdNext]_idVars

-----------------------------------------------------------------------------
\* Properties

Imported == {f \in Files : row[f] # NoSong}
Uses(spec, attr) == \E n \in DOMAIN spec : \E i \in DOMAIN spec[n] : spec[n][i] = attr

\* What the specification makes of a file contains its folder, or its path.
NamesFolder(spec) == spec = TrackLegacy \/ Uses(spec, "folder")

\* It does, or contains the file's name in the place of a title.
PathMatters(spec, s) == NamesFolder(spec) \/ (Uses(spec, "title") /\ String(s, "title") = <<>>)

\* Under every specification, songs of different libraries never share an id, nor do their albums.
LibrariesShareNothing ==
    \A f, g \in Imported :
        row[f].conf = row[g].conf /\ row[f].lib # row[g].lib
        => row[f].pid # row[g].pid /\ row[f].album # row[g].album

Release(s) ==
    IF String(s, "musicbrainz_albumid") # <<>> THEN <<String(s, "musicbrainz_albumid")>>
    ELSE <<Cleared(mapDisplayAlbumArtist(s)), Cleared(String(s, "album")), String(s, "albumversion"), String(s, "releasedate")>>

\* With the default specification the songs of one library share an album exactly when they name
\* the same MusicBrainz release or, both without one, the same artist, title, version and date,
\* whatever folder they lie in and however their own track is tagged.
AlbumsAreReleases ==
    \A f, g \in Imported :
        row[f].conf = row[g].conf /\ row[f].conf.album = DefaultAlbumPID /\ row[f].lib = row[g].lib
        => (row[f].album = row[g].album <=> Release(row[f]) = Release(row[g]))

SameSong(old, new) ==
    /\ old.conf = new.conf /\ old.lib = new.lib
    /\ IF String(old, "musicbrainz_trackid") # <<>>
       THEN String(old, "musicbrainz_trackid") = String(new, "musicbrainz_trackid")
       ELSE old.tags = new.tags /\ (old.base = new.base \/ String(new, "title") # <<>>)

\* A song keeps its id when its file moves within the library and, once it carries a MusicBrainz
\* track id, however else it is tagged, unless the user made the folder part of its album's id.
SongsKeepTheirIds ==
    [][\A f \in Imported :
          /\ SameSong(row[f], row'[f]) /\ row[f].conf.track = DefaultTrackPID
          /\ ~NamesFolder(row[f].conf.album)
          => row'[f].pid = row[f].pid]_idVars

\* When the specification changes or a file moves, the album that the scan takes for the previous
\* one, whose stars it hands on, is the album the song was in, unless the path was part of its id.
\* A replaced specification that named the album id is not computed as it was (it now sees the
\* album id of the new one).
AlbumsCarryOver ==
    [][\A f \in Imported :
          /\ row'[f] # row[f] /\ row'[f].tags = row[f].tags /\ row'[f].lib = row[f].lib
          /\ row[f].conf.album \in {storedConf, pidConf.album}
          /\ ~PathMatters(row[f].conf.album, row[f])
          /\ Uses(row[f].conf.album, "albumid") => row[f].conf.album = pidConf.album
          => row'[f].prev = row[f].album \/ row'[f].album = row[f].album]_idVars

\* Ids are the same for what is the same and different for what is not, through
\* moves, edits and changes of the specification.
IdsAreStable ==
    [](LibrariesShareNothing /\ AlbumsAreReleases) /\ SongsKeepTheirIds /\ AlbumsCarryOver

Numbered(s) == <<String(s, "disc"), String(s, "track")>>

\* The default specification names the disc and the track number: two songs of an album with
\* different numbers have different ids.
NumberedSongsDiffer ==
    \A f, g \in Imported :
        /\ row[f].conf = row[g].conf /\ row[f].conf.track = DefaultTrackPID
        /\ row[f].album = row[g].album /\ Numbered(row[f]) # Numbered(row[g])
        => row[f].pid # row[g].pid
================================================================================
