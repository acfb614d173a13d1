----------------------------- MODULE AlbumFromSongs -----------------------------
(***************************************************************************)
(* The album row that a scan derives from the songs of an album            *)
(* (MediaFiles.ToAlbum): what the songs agree on, the range of their years, *)
(* the most frequent values, the artist, the cover.  The row is rebuilt    *)
(* whenever a song changes, from the songs as the query happens to return  *)
(* them.                                                                   *)
(*                                                                         *)
(* A path is a natural number, compared as paths are; the empty value of a *)
(* string is "", of a year or a time 0.                                    *)
(***************************************************************************)
EXTENDS Integers, Sequences, FiniteSets, SequencesExt

CONSTANTS
    Paths,          \* paths of the songs of the album: a set of positive numbers
    Recordings,     \* what a song may say: a subset of Songs
    NoAlbum,        \* the album was not built yet
    MaxSongChanges  \* bound: changes of the songs

NoText == ""
Songs ==
    [name : STRING, year : Nat, date : STRING, genre : STRING, disc : Nat, cover : BOOLEAN, explicit : {NoText, "c", "e"},
     birth : Nat, artist : STRING, albumArtist : STRING, compilation : BOOLEAN, mbid : STRING, missing : BOOLEAN]

ASSUME AlbumAssumption == Paths \subseteq Nat \ {0} /\ IsFiniteSet(Paths) /\ Recordings \subseteq Songs

VARIABLES
    songOf,         \* songOf[path]: the song there; its domain is the album's songs
    rowOf,          \* the album row
    built,          \* the songs the row was built from
    songChanges

albumVars == <<songOf, rowOf, built, songChanges>>

ByVarious == "Various Artists"

-----------------------------------------------------------------------------
\* Helpers of ToAlbum

MinOf(a, b) == IF a < b THEN a ELSE b
MaxOf(a, b) == IF a > b THEN a ELSE b

allOrNothing(items) == IF Cardinality(Range(items)) = 1 THEN items[1] ELSE NoText

\* The least year that is known, and the greatest, with one more.
Widened(range, year) ==
    <<IF range[1] = 0 THEN year ELSE IF year > 0 THEN MinOf(range[1], year) ELSE range[1], MaxOf(range[2], year)>>
Widening(years) ==
    LET after[n \in 0..Len(years)] == IF n = 0 THEN <<years[1], years[1]>> ELSE Widened(after[n - 1], years[n])
    IN  after
minMax(years) == Widening(years)[Len(years)]

Count(items, v) == Cardinality({i \in DOMAIN items : items[i] = v})

\* The first value to be ahead of all others, passing over the empty one.
MostFrequent(items) ==
    FoldLeft(LAMBDA top, i :
        IF items[i] # NoText /\ Count(SubSeq(items, 1, i), items[i]) > top[2]
        THEN <<items[i], Count(SubSeq(items, 1, i), items[i])>> ELSE top,
        <<NoText, 0>>, [i \in DOMAIN items |-> i])[1]

older(t1, t2) == IF t1 = 0 THEN t2 ELSE IF t2 = 0 THEN t1 ELSE MinOf(t1, t2)
Ageing(times) == LET after[n \in 0..Len(times)] == IF n = 0 THEN 0 ELSE older(after[n - 1], times[n]) IN after

Explicit(old, new) == IF new = "c" /\ old # "e" THEN "c" ELSE IF new = "e" THEN "e" ELSE old
Warning(states) ==
    LET after[n \in 0..Len(states)] == IF n = 0 THEN NoText ELSE Explicit(after[n - 1], states[n]) IN after

\* The cover: of the lowest disc; songs without a disc number give way to whatever comes later.
firstArtPath(acc, path, s) ==
    IF /\ s.cover
       /\ \/ acc.disc = 0
          \/ s.disc < acc.disc /\ s.disc > 0
          \/ s.disc = acc.disc /\ (path < acc.path \/ acc.path = 0)
    THEN [path |-> path, disc |-> s.disc] ELSE acc
Covering(songs, order) ==
    LET after[n \in 0..Len(order)] ==
          IF n = 0 THEN [path |-> 0, disc |-> 0] ELSE firstArtPath(after[n - 1], order[n], songs[order[n]])
    IN  after

\* Spellings of a genre that differ in case are one tag.
TagID(value) == IF value = "Rock" THEN "rock" ELSE value

\* The tags by frequency, the equally frequent ones by value, each in the spelling met last.
GroupByFrequency(values) ==
    LET ids      == {TagID(v) : v \in Range(values)}
        count    == [t \in ids |-> Cardinality({i \in DOMAIN values : TagID(values[i]) = t})]
        spelling == [t \in ids |-> Last(SelectSeq(values, LAMBDA v : TagID(v) = t))]
        rank(v)  == CASE v = "Pop" -> 1 [] v = "Rock" -> 2 [] OTHER -> 3
        before(t, u) == count[t] > count[u] \/ (count[t] = count[u] /\ rank(spelling[t]) < rank(spelling[u]))
    IN  [n \in 1 .. Cardinality(ids) |->
            spelling[CHOOSE t \in ids : Cardinality({u \in ids : before(u, t)}) = n - 1]]

\* Each name once, empty ones left out.
Once(names) == FoldLeft(LAMBDA list, p : IF p = NoText \/ p \in Range(list) THEN list ELSE Append(list, p), <<>>, names)

\* A compilation of several album artists is by various artists; an album without one is by the
\* first artist of its songs.
fixAlbumArtist(last, compilation, albumArtists, artists) ==
    IF ~compilation THEN IF last = NoText /\ artists # <<>> THEN artists[1] ELSE last
    ELSE IF Len(albumArtists) > 1 THEN ByVarious ELSE last

-----------------------------------------------------------------------------
\* ToAlbum

\* The songs by path.
Sorted_AsGiven(songs, given) == given
Sorted(songs, given) ==
    [n \in DOMAIN given |-> CHOOSE p \in DOMAIN songs : Cardinality({q \in DOMAIN songs : q < p}) = n - 1]

\* What the songs have in a column, by path.
Column(songs, order, field) == [n \in 1..Len(order) |-> songs[order[n]][field]]

AlbumOf(songs, order) ==
    LET last == songs[order[Len(order)]]
        column(field) == Column(songs, order, field)
        compilation == \E p \in DOMAIN songs : songs[p].compilation
    IN  [name     |-> last.name,
         count    |-> Len(order),
         missing  |-> \A p \in DOMAIN songs : songs[p].missing,
         years    |-> minMax(column("year")),
         date     |-> allOrNothing(column("date")),
         mbid     |-> MostFrequent(column("mbid")),
         genres   |-> GroupByFrequency(column("genre")),
         explicit |-> Warning(column("explicit"))[Len(order)],
         created  |-> Ageing(column("birth"))[Len(order)],
         art      |-> Covering(songs, order)[Len(order)].path,
         artist   |-> fixAlbumArtist(last.albumArtist, compilation, Once(column("albumArtist")), Once(column("artist")))]

ToAlbum(songs, given) == AlbumOf(songs, Sorted(songs, given))

-----------------------------------------------------------------------------
\* Scans

Listings(songs) == {o \in [1 .. Cardinality(DOMAIN songs) -> DOMAIN songs] : Range(o) = DOMAIN songs}

refreshAlbum ==
    /\ DOMAIN songOf # {}
    /\ \E given \in Listings(songOf) : rowOf' = ToAlbum(songOf, given)
    /\ built' = songOf
    /\ UNCHANGED <<songOf, songChanges>>

SongChange == songChanges < MaxSongChanges /\ songChanges' = songChanges + 1

\* A file was added, retagged or went missing.
ImportFile(p) ==
    /\ SongChange
    /\ \E r \in Recordings : songOf' = [q \in DOMAIN songOf \cup {p} |-> IF q = p THEN r ELSE songOf[q]]
    /\ songOf' # songOf
    /\ UNCHANGED <<rowOf, built>>

MissSong(p) ==
    /\ SongChange
    /\ ~songOf[p].missing
    /\ songOf' = [songOf EXCEPT ![p].missing = TRUE]
    /\ UNCHANGED <<rowOf, built>>

\* A missing song is purged.
PurgeSong(p) ==
    /\ SongChange
    /\ songOf[p].missing
    /\ songOf' = [q \in DOMAIN songOf \ {p} |-> songOf[q]]
    /\ UNCHANGED <<rowOf, built>>

AlbumInit ==
    /\ songOf \in [Paths -> Recordings]
    /\ rowOf = NoAlbum
    /\ built = <<>>
    /\ songChanges = 0

AlbumNext ==
    \/ refreshAlbum
    \/ \E p \in Paths : ImportFile(p)
    \/ \E p \in DOMAIN songOf : MissSong(p) \/ PurgeSong(p)

AlbumSpec == AlbumInit /\ [][AlbumNext]_albumVars

-----------------------------------------------------------------------------
\* Properties

Lowest(set) == CHOOSE x \in set : \A y \in set : x <= y
Greatest(set) == CHOOSE x \in set : \A y \in set : y <= x
LeastKnown(set) == IF set \subseteq {0} THEN 0 ELSE Lowest(set \ {0})

\* The row says of the songs it was built from what they say together: it is missing exactly when
\* they all are, its years are the least known and the greatest, a date is there only if all agree,
\* one explicit song makes it explicit, and it is as old as its oldest song.
AlbumFollowsItsSongs ==
    rowOf # NoAlbum =>
        LET songs   == {built[p] : p \in DOMAIN built}
            states  == {s.explicit : s \in songs}
            dates   == {s.date : s \in songs}
        IN  /\ rowOf.missing = (\A s \in songs : s.missing)
            /\ rowOf.years = <<LeastKnown({s.year : s \in songs}), Greatest({s.year : s \in songs})>>
            /\ dates = {rowOf.date} \/ (Cardinality(dates) > 1 /\ rowOf.date = NoText)
            /\ rowOf.explicit = IF "e" \in states THEN "e" ELSE IF "c" \in states THEN "c" ELSE NoText
            /\ rowOf.created = LeastKnown({s.birth : s \in songs})

\* The cover comes from the lowest numbered disc that has one, from its first song.
CoverIsOfTheFirstDisc ==
    rowOf # NoAlbum =>
        LET covers == {p \in DOMAIN built : built[p].cover /\ built[p].disc > 0}
            lowest == Lowest({built[p].disc : p \in covers})
        IN  covers # {} => rowOf.art = Lowest({p \in covers : built[p].disc = lowest})

\* Built again from the same songs, in whatever order the query returns them, the album is the same
\* row: names, genres, ids and the artist included.
RefreshIsRepeatable == [][rowOf # NoAlbum /\ built' = built => rowOf' = rowOf]_albumVars

\* An album is what its songs say, whatever order they come in.
AlbumIsOfItsSongs == [](AlbumFollowsItsSongs /\ CoverIsOfTheFirstDisc) /\ RefreshIsRepeatable
================================================================================
