--------------------------- MODULE CatalogueProofs ---------------------------
(***************************************************************************)
(* Proofs about Catalogue and PlaylistTracks.  The first invariant says    *)
(* who will complete what is incomplete: what the scanner wrote for one    *)
(* folder it refreshes before it cleans up, and what a deletion left       *)
(* behind its own statements remove; the flags of the model name the       *)
(* orders in which this fails.  The second follows the positions of a      *)
(* playlist through the statements that renumber them, and says who will   *)
(* write the count that is not right yet.                                  *)
(***************************************************************************)
EXTENDS Catalogue, PlaylistTracks, FiniteSetTheorems, TLAPS

Work(Reads) ==
    [at : {"idle", "import", "albums", "put", "list", "batch", "cleanup", "finish", "delete", "artists", "missing",
           "albumMarks", "artistMarks", "songMarks", "playlists", "read", "write", "done"},
     todo : SUBSET Tracks, albums : SUBSET Releases, read : Reads, ids : SUBSET Performers]
ScanReads == {<<>>} \cup (Releases \X AlbumRow)
DeleterReads == {<<>>} \cup UNION {[S -> AlbumRow] : S \in SUBSET Releases}

Tables ==
    [song : [Tracks -> {"there", "missing", NoRecord}], credit : SUBSET Tracks,
     album : [Releases -> AlbumRow \cup {NoRecord}], artist : [Performers -> {"shown", "missing", NoRecord}],
     listed : [Performers -> Nat \cup {NoRecord}], marks : SUBSET (Tracks \cup Releases), playlist : SUBSET Tracks,
     touched : SUBSET Releases, fresh : SUBSET Performers]

CatalogueTypeOK ==
    /\ db \in Tables /\ disk \in [Tracks -> {"absent", "changed", "known"}]
    /\ scanning \in Work(ScanReads) /\ scanning.at \in {"idle", "import", "albums", "put", "list", "batch", "cleanup", "finish"}
    /\ scanning.at = "put" => scanning.read \in Releases \X AlbumRow
    /\ deleter \in [Deleters -> Work(DeleterReads)]
    /\ dbErrors \in Nat /\ early \in BOOLEAN /\ staleRead \in BOOLEAN

\* Albums that the scanner will refresh before it cleans up.
Pending(r) ==
    \/ scanning.at = "import" /\ r \in db.touched
    \/ scanning.at \in {"albums", "put"} /\ r \in scanning.albums
    \/ scanning.at = "put" /\ r = scanning.read[1]
Opened == scanning.at \in {"albums", "put"} \/ (scanning.at = "import" /\ db.touched # {})

Current(r) == ToAlbum(db, HasSongs(db, r))
Unrefreshed(d, r) ==
    r \in deleter[d].albums /\ (deleter[d].at \in GCSteps \cup {"list", "batch", "cleanup", "read"}
                                \/ (deleter[d].at = "write" /\ r \in DOMAIN deleter[d].read))

\* What was touched is known while the scanner runs.
TouchInv ==
    /\ scanning.at = "idle" => db.touched = {}
    /\ scanning.at \in {"idle", "import"} /\ db.touched = {} => db.fresh = {}

\* Songs have a credit, an album and an artist.
RowInv ==
    /\ db.credit = {t \in Tracks : db.song[t] # NoRecord}
    /\ \A t \in db.credit : db.album[ReleaseOf[t]] # NoRecord /\ db.artist[PerformerOf[t]] # NoRecord

\* An album names the artists of its songs; it has all songs unless the scanner
\* is about to write it, and no others unless a deletion is.
AlbumGood(r) ==
    /\ db.album[r].artists \subseteq {PerformerOf[t] : t \in db.album[r].songs}
    /\ \A t \in db.album[r].songs \cap HasSongs(db, r) : PerformerOf[t] \in db.album[r].artists
    /\ ~Pending(r) => /\ HasSongs(db, r) \subseteq db.album[r].songs
                      /\ db.album[r].missing => \A t \in HasSongs(db, r) : db.song[t] = "missing"
    /\ AlbumEquals(db.album[r], Current(r)) \/ Pending(r) \/ HasSongs(db, r) = {} \/ \E d \in Deleters : Unrefreshed(d, r)
    /\ HasSongs(db, r) # {} \/ \E d \in Deleters : deleter[d].at = "albums"
AlbumInv == \A r \in Releases : db.album[r] # NoRecord => AlbumGood(r)

\* What was read of an album to be written is still so.
ReadInv ==
    /\ scanning.at = "put" => scanning.read[2] = Current(scanning.read[1]) /\ HasSongs(db, scanning.read[1]) # {}
    /\ \A d \in Deleters : deleter[d].at = "write" =>
          \A r \in DOMAIN deleter[d].read :
             r \in deleter[d].albums /\ deleter[d].read[r] = Current(r) /\ HasSongs(db, r) # {}

\* An artist's entry counts songs, or the scanner is about to count them.
ToCount(p) ==
    /\ db.listed[p] = 0 /\ p \in db.fresh
    /\ scanning.at \in {"import", "albums", "put", "list"} \/ (scanning.at = "batch" /\ p \in scanning.ids)
CountInv ==
    /\ \A t \in db.credit : db.listed[PerformerOf[t]] \in Nat \ {0} \/ ToCount(PerformerOf[t])
    /\ \A d \in Deleters :
          /\ deleter[d].at = "batch" => \A p \in Performers : db.artist[p] # NoRecord => p \in deleter[d].ids
          /\ deleter[d].at = "cleanup" => \A t \in db.credit : db.listed[PerformerOf[t]] \in Nat \ {0}

\* A request that is about to hide an artist without songs.
Hides(d, p) ==
    \/ deleter[d].at \in GCSteps \cup {"list"}
    \/ deleter[d].at = "batch" /\ p \in deleter[d].ids
    \/ deleter[d].at = "cleanup" /\ db.listed[p] \in {0, NoRecord}
Hidden(p) == SongsBy(db, p) # {} \/ db.artist[p] = NoRecord \/ \E d \in Deleters : Hides(d, p)

\* Artists with songs are shown once the scanner has cleaned up, others hidden.
ShownInv ==
    /\ ~Opened => \A t \in Tracks : db.song[t] = "there" => db.artist[PerformerOf[t]] = "shown"
    /\ \A p \in Performers : db.artist[p] = "shown" => Hidden(p)
    /\ \A d \in Deleters : deleter[d].at = "cleanup" => \A p \in Performers : Hidden(p)

\* What refers to a row that is gone is about to be removed.
MarkInv ==
    /\ \A m \in db.marks \cap Tracks : db.song[m] = NoRecord =>
          \E d \in Deleters : deleter[d].at \in GCSteps \ {"playlists"}
    /\ \A m \in db.marks \cap Releases : db.album[m] = NoRecord =>
          \E d \in Deleters : deleter[d].at \in {"artists", "missing", "albumMarks"}
    /\ \A t \in db.playlist : db.song[t] = NoRecord => \E d \in Deleters : deleter[d].at \in GCSteps

CatalogueInv ==
    /\ CatalogueTypeOK
    /\ ~Disturbed => TouchInv /\ RowInv /\ AlbumInv /\ ReadInv /\ CountInv /\ ShownInv /\ MarkInv

LEMMA SongSets ==
    ASSUME NEW d \in Tables
    PROVE  /\ \A r : HasSongs(d, r) \subseteq Tracks
           /\ \A p : SongsBy(d, p) \subseteq Tracks /\ Cardinality(SongsBy(d, p)) \in Nat
           /\ \A p : Cardinality(SongsBy(d, p)) = 0 <=> SongsBy(d, p) = {}
<1>1. d.credit \subseteq Tracks BY DEF Tables
<1>2. \A p : SongsBy(d, p) \subseteq Tracks BY <1>1 DEF SongsBy
<1>3. \A p : IsFiniteSet(SongsBy(d, p)) BY <1>2, FS_Subset, CatalogueAssumption DEF CatalogueAssumption
<1>4. \A p : Cardinality(SongsBy(d, p)) \in Nat BY <1>3, FS_CardinalityType
<1>5. \A p : Cardinality(SongsBy(d, p)) = 0 <=> SongsBy(d, p) = {} BY <1>3, FS_EmptySet
<1>6. QED BY <1>2, <1>4, <1>5 DEF HasSongs

LEMMA ToAlbum_Row ==
    ASSUME NEW d \in Tables, NEW S \in SUBSET Tracks
    PROVE  /\ ToAlbum(d, S) \in AlbumRow /\ ToAlbum(d, S).songs = S
           /\ ToAlbum(d, S).missing = (\A t \in S : d.song[t] = "missing")
           /\ ToAlbum(d, S).artists = {PerformerOf[t] : t \in S}
BY CatalogueAssumption DEF ToAlbum, AlbumRow, CatalogueAssumption

LEMMA PutAlbum_Facts ==
    ASSUME NEW d \in Tables, NEW r \in Releases, NEW a \in AlbumRow
    PROVE  /\ PutAlbum(d, r, a) \in Tables
           /\ \A q \in Releases \ {r} : PutAlbum(d, r, a).album[q] = d.album[q]
           /\ PutAlbum(d, r, a).album[r] \in AlbumRow
           /\ PutAlbum(d, r, a).album[r].songs = a.songs /\ PutAlbum(d, r, a).album[r].missing = a.missing
           /\ PutAlbum(d, r, a).album[r].artists = {p \in a.artists : d.artist[p] # NoRecord}
           /\ PutAlbum(d, r, a).song = d.song /\ PutAlbum(d, r, a).credit = d.credit
           /\ PutAlbum(d, r, a).artist = d.artist /\ PutAlbum(d, r, a).listed = d.listed
           /\ PutAlbum(d, r, a).marks = d.marks /\ PutAlbum(d, r, a).playlist = d.playlist
           /\ PutAlbum(d, r, a).touched = d.touched /\ PutAlbum(d, r, a).fresh = d.fresh
<1> DEFINE b == [a EXCEPT !.artists = {p \in @ : d.artist[p] # NoRecord}]
           new == [d.album EXCEPT ![r] = b]
<1>1. b \in AlbumRow /\ b.songs = a.songs /\ b.missing = a.missing /\ b.artists = {p \in a.artists : d.artist[p] # NoRecord}
    BY DEF AlbumRow
<1> HIDE DEF b
<1>2. d.album \in [Releases -> AlbumRow \cup {NoRecord}] BY DEF Tables
<1>3. new \in [Releases -> AlbumRow \cup {NoRecord}] /\ new[r] = b /\ \A q \in Releases \ {r} : new[q] = d.album[q]
    BY <1>1, <1>2
<1>4. PutAlbum(d, r, a) = [d EXCEPT !.album = new] BY DEF PutAlbum, Tables, b
<1> HIDE DEF new
<1>5. QED BY <1>1, <1>3, <1>4 DEF Tables

LEMMA purgeEmptyAlbums_Facts ==
    ASSUME NEW d \in Tables
    PROVE  LET e == purgeEmptyAlbums(d)
           IN  /\ e \in Tables
               /\ \A r \in Releases : e.album[r] = IF HasSongs(d, r) = {} THEN NoRecord ELSE d.album[r]
               /\ e.song = d.song /\ e.credit = d.credit /\ e.artist = d.artist /\ e.listed = d.listed
               /\ e.marks = d.marks /\ e.playlist = d.playlist /\ e.touched = d.touched /\ e.fresh = d.fresh
<1> DEFINE new == [r \in Releases |-> IF HasSongs(d, r) = {} THEN NoRecord ELSE d.album[r]]
<1>1. new \in [Releases -> AlbumRow \cup {NoRecord}] BY DEF Tables
<1>2. \A r \in Releases : new[r] = IF HasSongs(d, r) = {} THEN NoRecord ELSE d.album[r] OBVIOUS
<1>3. purgeEmptyAlbums(d) = [d EXCEPT !.album = new] BY DEF purgeEmptyAlbums, Tables
<1> HIDE DEF new
<1>4. QED BY <1>1, <1>2, <1>3 DEF Tables

Kept(d) == {p \in Performers : \E r \in Releases : d.album[r] # NoRecord /\ p \in d.album[r].artists}

LEMMA purgeEmptyArtists_Facts ==
    ASSUME NEW d \in Tables
    PROVE  LET e == purgeEmptyArtists(d)
           IN  /\ e \in Tables
               /\ \A p \in Performers : /\ e.artist[p] = IF p \in Kept(d) THEN d.artist[p] ELSE NoRecord
                                        /\ e.listed[p] = IF p \in Kept(d) THEN d.listed[p] ELSE NoRecord
               /\ e.credit = {t \in d.credit : PerformerOf[t] \in Kept(d)}
               /\ e.song = d.song /\ e.album = d.album
               /\ e.marks = d.marks /\ e.playlist = d.playlist /\ e.touched = d.touched /\ e.fresh = d.fresh
<1> DEFINE artists == [p \in Performers |-> IF p \in Kept(d) THEN d.artist[p] ELSE NoRecord]
           entries == [p \in Performers |-> IF p \in Kept(d) THEN d.listed[p] ELSE NoRecord]
           credits == {t \in d.credit : PerformerOf[t] \in Kept(d)}
<1>1. artists \in [Performers -> {"shown", "missing", NoRecord}] /\ entries \in [Performers -> Nat \cup {NoRecord}] /\ credits \subseteq Tracks
    BY DEF Tables
<1>2. \A p \in Performers : /\ artists[p] = IF p \in Kept(d) THEN d.artist[p] ELSE NoRecord
                            /\ entries[p] = IF p \in Kept(d) THEN d.listed[p] ELSE NoRecord
    OBVIOUS
<1>3. purgeEmptyArtists(d) = [d EXCEPT !.artist = artists, !.listed = entries, !.credit = credits] BY DEF purgeEmptyArtists, Tables, Kept
<1> HIDE DEF artists, entries
<1>4. QED BY <1>1, <1>2, <1>3 DEF Tables

Heard(d) == {p \in Performers : \E r \in Releases :
                d.album[r] # NoRecord /\ p \in d.album[r].artists /\ ~d.album[r].missing}

LEMMA markMissing_Facts ==
    ASSUME NEW d \in Tables
    PROVE  LET e == markMissing(d)
           IN  /\ e \in Tables
               /\ \A p \in Performers : e.artist[p] = IF d.artist[p] = NoRecord THEN NoRecord
                                                      ELSE IF p \in Heard(d) THEN "shown" ELSE "missing"
               /\ e.song = d.song /\ e.credit = d.credit /\ e.album = d.album /\ e.listed = d.listed
               /\ e.marks = d.marks /\ e.playlist = d.playlist /\ e.touched = d.touched /\ e.fresh = d.fresh
<1> DEFINE artists == [p \in Performers |-> IF d.artist[p] = NoRecord THEN NoRecord
                                            ELSE IF p \in Heard(d) THEN "shown" ELSE "missing"]
<1>1. artists \in [Performers -> {"shown", "missing", NoRecord}] OBVIOUS
<1>2. \A p \in Performers : artists[p] = IF d.artist[p] = NoRecord THEN NoRecord ELSE IF p \in Heard(d) THEN "shown" ELSE "missing"
    OBVIOUS
<1>3. markMissing(d) = [d EXCEPT !.artist = artists] BY DEF markMissing, Tables, Heard
<1> HIDE DEF artists
<1>4. QED BY <1>1, <1>2, <1>3 DEF Tables

LEMMA cleanAnnotations_Facts ==
    ASSUME NEW d \in Tables, NEW table
    PROVE  LET e == cleanAnnotations(d, table)
           IN  /\ e \in Tables /\ e.marks = {m \in d.marks : m \in DOMAIN table => table[m] # NoRecord}
               /\ e.song = d.song /\ e.credit = d.credit /\ e.album = d.album /\ e.artist = d.artist /\ e.listed = d.listed
               /\ e.playlist = d.playlist /\ e.touched = d.touched /\ e.fresh = d.fresh
<1> DEFINE kept == {m \in d.marks : m \in DOMAIN table => table[m] # NoRecord}
<1>1. kept \subseteq Tracks \cup Releases BY DEF Tables
<1>2. cleanAnnotations(d, table) = [d EXCEPT !.marks = kept] BY DEF cleanAnnotations, Tables
<1> HIDE DEF kept
<1>3. QED BY <1>1, <1>2 DEF Tables, kept

LEMMA removeOrphans_Facts ==
    ASSUME NEW d \in Tables
    PROVE  LET e == removeOrphans(d)
           IN  /\ e \in Tables /\ e.playlist = {t \in d.playlist : d.song[t] # NoRecord}
               /\ e.song = d.song /\ e.credit = d.credit /\ e.album = d.album /\ e.artist = d.artist /\ e.listed = d.listed
               /\ e.marks = d.marks /\ e.touched = d.touched /\ e.fresh = d.fresh
BY DEF removeOrphans, Tables

LEMMA UpdateStats_Facts ==
    ASSUME NEW d \in Tables, NEW ids
    PROVE  LET e == UpdateStats(d, ids)
           IN  /\ e \in Tables
               /\ \A p \in Performers :
                     e.listed[p] = IF p \in ids /\ d.listed[p] # NoRecord THEN Cardinality(SongsBy(d, p)) ELSE d.listed[p]
               /\ e.song = d.song /\ e.credit = d.credit /\ e.album = d.album /\ e.artist = d.artist
               /\ e.marks = d.marks /\ e.playlist = d.playlist /\ e.touched = d.touched /\ e.fresh = d.fresh
<1> DEFINE entries == [p \in Performers |-> IF p \in ids /\ d.listed[p] # NoRecord THEN Cardinality(SongsBy(d, p)) ELSE d.listed[p]]
<1>1. entries \in [Performers -> Nat \cup {NoRecord}] BY SongSets DEF Tables
<1>2. \A p \in Performers : entries[p] = IF p \in ids /\ d.listed[p] # NoRecord THEN Cardinality(SongsBy(d, p)) ELSE d.listed[p]
    OBVIOUS
<1>3. UpdateStats(d, ids) = [d EXCEPT !.listed = entries] BY DEF UpdateStats, Tables
<1> HIDE DEF entries
<1>4. QED BY <1>1, <1>2, <1>3 DEF Tables

LEMMA CleanupEntries_Facts ==
    ASSUME NEW d \in Tables, NEW all \in BOOLEAN
    PROVE  LET e == CleanupEntries(d, all)
           IN  /\ e \in Tables
               /\ \A p \in Performers : e.listed[p] = IF d.listed[p] = 0 THEN NoRecord ELSE d.listed[p]
               /\ \A p \in Performers :
                     \/ e.artist[p] = d.artist[p] /\ (all => d.artist[p] = NoRecord \/ e.listed[p] # NoRecord)
                     \/ e.artist[p] = "missing" /\ d.artist[p] # NoRecord /\ e.listed[p] = NoRecord
               /\ e.song = d.song /\ e.credit = d.credit /\ e.album = d.album
               /\ e.marks = d.marks /\ e.playlist = d.playlist /\ e.touched = d.touched /\ e.fresh = d.fresh
<1> DEFINE left == [p \in Performers |-> IF d.listed[p] = 0 THEN NoRecord ELSE d.listed[p]]
           artists == [p \in Performers |-> IF d.artist[p] # NoRecord /\ left[p] = NoRecord /\ (all \/ left # d.listed)
                                            THEN "missing" ELSE d.artist[p]]
<1>1. left \in [Performers -> Nat \cup {NoRecord}] /\ \A p \in Performers : left[p] = IF d.listed[p] = 0 THEN NoRecord ELSE d.listed[p]
    BY DEF Tables
<1>2. CleanupEntries(d, all) = [d EXCEPT !.listed = left, !.artist = artists] BY DEF CleanupEntries, Tables
<1> HIDE DEF left
<1>3. artists \in [Performers -> {"shown", "missing", NoRecord}] BY DEF Tables
<1>4. \A p \in Performers :
          \/ artists[p] = d.artist[p] /\ (all => d.artist[p] = NoRecord \/ left[p] # NoRecord)
          \/ artists[p] = "missing" /\ d.artist[p] # NoRecord /\ left[p] = NoRecord
    OBVIOUS
<1> HIDE DEF artists
<1>5. QED BY <1>1, <1>2, <1>3, <1>4 DEF Tables

LEMMA GC_Facts ==
    ASSUME NEW d \in Tables
    PROVE  LET e == GC(d)
               a == purgeEmptyAlbums(d)
           IN  /\ e \in Tables /\ a \in Tables /\ e.song = d.song /\ e.touched = d.touched /\ e.fresh = d.fresh
               /\ e.album = a.album /\ \A r \in Releases : e.album[r] = IF HasSongs(d, r) = {} THEN NoRecord ELSE d.album[r]
               /\ e.credit = {t \in d.credit : PerformerOf[t] \in Kept(a)}
               /\ \A p \in Performers :
                     /\ e.listed[p] = IF p \in Kept(a) THEN d.listed[p] ELSE NoRecord
                     /\ e.artist[p] = IF p \notin Kept(a) \/ d.artist[p] = NoRecord THEN NoRecord
                                      ELSE IF p \in Heard(a) THEN "shown" ELSE "missing"
               /\ \A m \in e.marks : m \in d.marks /\ (m \in Tracks => d.song[m] # NoRecord) /\ (m \in Releases => a.album[m] # NoRecord)
               /\ e.playlist = {t \in d.playlist : d.song[t] # NoRecord}
<1> DEFINE a == purgeEmptyAlbums(d)
           b == purgeEmptyArtists(a)
           c == markMissing(b)
           m1 == cleanAnnotations(c, c.song)
           m2 == cleanAnnotations(m1, m1.album)
           m3 == cleanAnnotations(m2, m2.artist)
           e == removeOrphans(m3)
<1>0. GC(d) = e BY DEF GC
<1>1. /\ a \in Tables /\ \A r \in Releases : a.album[r] = IF HasSongs(d, r) = {} THEN NoRecord ELSE d.album[r]
      /\ a.song = d.song /\ a.credit = d.credit /\ a.artist = d.artist /\ a.listed = d.listed
      /\ a.marks = d.marks /\ a.playlist = d.playlist /\ a.touched = d.touched /\ a.fresh = d.fresh
    BY purgeEmptyAlbums_Facts
<1> HIDE DEF a
<1>2. /\ b \in Tables
      /\ \A p \in Performers : /\ b.artist[p] = IF p \in Kept(a) THEN a.artist[p] ELSE NoRecord
                               /\ b.listed[p] = IF p \in Kept(a) THEN a.listed[p] ELSE NoRecord
      /\ b.credit = {t \in a.credit : PerformerOf[t] \in Kept(a)}
      /\ b.song = a.song /\ b.album = a.album
      /\ b.marks = a.marks /\ b.playlist = a.playlist /\ b.touched = a.touched /\ b.fresh = a.fresh
    BY <1>1, purgeEmptyArtists_Facts
<1> HIDE DEF b
<1>3. /\ c \in Tables
      /\ \A p \in Performers : c.artist[p] = IF b.artist[p] = NoRecord THEN NoRecord ELSE IF p \in Heard(b) THEN "shown" ELSE "missing"
      /\ c.song = b.song /\ c.credit = b.credit /\ c.album = b.album /\ c.listed = b.listed
      /\ c.marks = b.marks /\ c.playlist = b.playlist /\ c.touched = b.touched /\ c.fresh = b.fresh
    BY <1>2, markMissing_Facts
<1>4. Heard(b) = Heard(a) BY <1>2 DEF Heard
<1> HIDE DEF c
<1>5. /\ m1 \in Tables /\ m1.marks = {m \in c.marks : m \in DOMAIN c.song => c.song[m] # NoRecord}
      /\ m1.song = c.song /\ m1.credit = c.credit /\ m1.album = c.album /\ m1.artist = c.artist /\ m1.listed = c.listed
      /\ m1.playlist = c.playlist /\ m1.touched = c.touched /\ m1.fresh = c.fresh
    BY <1>3, cleanAnnotations_Facts
<1> HIDE DEF m1
<1>6. /\ m2 \in Tables /\ m2.marks = {m \in m1.marks : m \in DOMAIN m1.album => m1.album[m] # NoRecord}
      /\ m2.song = m1.song /\ m2.credit = m1.credit /\ m2.album = m1.album /\ m2.artist = m1.artist /\ m2.listed = m1.listed
      /\ m2.playlist = m1.playlist /\ m2.touched = m1.touched /\ m2.fresh = m1.fresh
    BY <1>5, cleanAnnotations_Facts
<1> HIDE DEF m2
<1>7. /\ m3 \in Tables /\ m3.marks \subseteq m2.marks
      /\ m3.song = m2.song /\ m3.credit = m2.credit /\ m3.album = m2.album /\ m3.artist = m2.artist /\ m3.listed = m2.listed
      /\ m3.playlist = m2.playlist /\ m3.touched = m2.touched /\ m3.fresh = m2.fresh
    BY <1>6, cleanAnnotations_Facts
<1> HIDE DEF m3
<1>8. /\ e \in Tables /\ e.playlist = {t \in m3.playlist : m3.song[t] # NoRecord}
      /\ e.song = m3.song /\ e.credit = m3.credit /\ e.album = m3.album /\ e.artist = m3.artist /\ e.listed = m3.listed
      /\ e.marks = m3.marks /\ e.touched = m3.touched /\ e.fresh = m3.fresh
    BY <1>7, removeOrphans_Facts
<1> HIDE DEF e
<1>9. \A m \in e.marks : m \in d.marks /\ (m \in Tracks => d.song[m] # NoRecord) /\ (m \in Releases => a.album[m] # NoRecord)
    <2>1. DOMAIN c.song = Tracks /\ DOMAIN m1.album = Releases BY <1>3, <1>5 DEF Tables
    <2>2. QED BY <1>1, <1>2, <1>3, <1>5, <1>6, <1>7, <1>8, <2>1
<1>10. \A p \in Performers :
          /\ e.listed[p] = IF p \in Kept(a) THEN d.listed[p] ELSE NoRecord
          /\ e.artist[p] = IF p \notin Kept(a) \/ d.artist[p] = NoRecord THEN NoRecord ELSE IF p \in Heard(a) THEN "shown" ELSE "missing"
    BY <1>1, <1>2, <1>3, <1>4, <1>5, <1>6, <1>7, <1>8
<1>11. /\ e.song = d.song /\ e.touched = d.touched /\ e.fresh = d.fresh /\ e.album = a.album
       /\ e.credit = {t \in d.credit : PerformerOf[t] \in Kept(a)} /\ e.playlist = {t \in d.playlist : d.song[t] # NoRecord}
    BY <1>1, <1>2, <1>3, <1>5, <1>6, <1>7, <1>8
<1>12. QED BY <1>0, <1>1, <1>8, <1>9, <1>10, <1>11 DEF a

-------------------------------------------------------------------------------

Sound == TouchInv /\ RowInv /\ AlbumInv /\ ReadInv /\ CountInv /\ ShownInv /\ MarkInv

LEMMA SameSongs ==
    ASSUME NEW r, \A t \in Tracks : ReleaseOf[t] = r => db'.song[t] = db.song[t]
    PROVE  HasSongs(db, r)' = HasSongs(db, r) /\ Current(r)' = Current(r)
<1>1. HasSongs(db, r)' = HasSongs(db, r) BY DEF HasSongs
<1>2. (\A t \in HasSongs(db, r) : db'.song[t] = "missing") <=> (\A t \in HasSongs(db, r) : db.song[t] = "missing") BY DEF HasSongs
<1>3. Current(r)' = Current(r)
    <2> DEFINE S == HasSongs(db, r)
               x == \A t \in S : db.song[t] = "missing"
               y == \A t \in S : db'.song[t] = "missing"
    <2>1. x = y BY <1>2
    <2>2. Current(r) = [songs |-> S, missing |-> x, artists |-> {PerformerOf[t] : t \in S}] BY DEF Current, ToAlbum
    <2>3. Current(r)' = [songs |-> S, missing |-> y, artists |-> {PerformerOf[t] : t \in S}] BY <1>1 DEF Current, ToAlbum
    <2> HIDE DEF x, y, S
    <2>4. QED BY <2>1, <2>2, <2>3
<1>4. QED BY <1>1, <1>3

LEMMA Current_Facts ==
    ASSUME CatalogueTypeOK, NEW r
    PROVE  /\ Current(r) \in AlbumRow /\ Current(r).songs = HasSongs(db, r)
           /\ Current(r).missing = (\A t \in HasSongs(db, r) : db.song[t] = "missing")
           /\ Current(r).artists = {PerformerOf[t] : t \in HasSongs(db, r)}
<1>1. db \in Tables BY DEF CatalogueTypeOK
<1>2. HasSongs(db, r) \in SUBSET Tracks BY <1>1, SongSets
<1>3. QED BY <1>1, <1>2, ToAlbum_Row DEF Current

\* The album and its songs stay.
LEMMA AlbumStays ==
    ASSUME CatalogueTypeOK, NEW r \in Releases, AlbumGood(r), db'.album[r] = db.album[r],
           \A t \in Tracks : ReleaseOf[t] = r => db'.song[t] = db.song[t],
           Pending(r) => Pending(r)' \/ HasSongs(db, r) = {} \/ AlbumEquals(db.album[r], Current(r)),
           \A d \in Deleters : Unrefreshed(d, r) => Unrefreshed(d, r)' \/ HasSongs(db, r) = {} \/ AlbumEquals(db.album[r], Current(r)),
           \A d \in Deleters : deleter[d].at = "albums" => deleter'[d].at = "albums" \/ HasSongs(db, r) # {}
    PROVE  AlbumGood(r)'
<1>1. HasSongs(db, r)' = HasSongs(db, r) /\ Current(r)' = Current(r) BY SameSongs
<1>2. (\A t \in HasSongs(db, r) : db.song[t] = "missing") => (\A t \in HasSongs(db, r) : db'.song[t] = "missing") BY DEF HasSongs
<1>3. AlbumEquals(db.album[r], Current(r)) =>
          /\ HasSongs(db, r) \subseteq db.album[r].songs
          /\ db.album[r].missing => \A t \in HasSongs(db, r) : db.song[t] = "missing"
    BY Current_Facts DEF AlbumEquals
<1>4. /\ (db.album[r].artists \subseteq {PerformerOf[t] : t \in db.album[r].songs})'
      /\ (\A t \in db.album[r].songs \cap HasSongs(db, r) : PerformerOf[t] \in db.album[r].artists)'
    BY <1>1 DEF AlbumGood
<1>5. ~Pending(r)' => /\ HasSongs(db, r) \subseteq db.album[r].songs
                      /\ db.album[r].missing => \A t \in HasSongs(db, r) : db'.song[t] = "missing"
    <2>1. CASE HasSongs(db, r) = {} BY <2>1
    <2>2. CASE AlbumEquals(db.album[r], Current(r)) BY <2>2, <1>2, <1>3
    <2>3. CASE ~Pending(r) BY <2>3, <1>2 DEF AlbumGood
    <2>4. QED BY <2>1, <2>2, <2>3
<1>6. AlbumEquals(db.album[r], Current(r)) \/ Pending(r)' \/ HasSongs(db, r) = {} \/ \E d \in Deleters : Unrefreshed(d, r)'
    BY DEF AlbumGood
<1>7. HasSongs(db, r) # {} \/ \E d \in Deleters : deleter'[d].at = "albums" BY DEF AlbumGood
<1>8. QED BY <1>1, <1>4, <1>5, <1>6, <1>7 DEF AlbumGood

\* The scanner goes on and the tables stay.
LEMMA ScannerOnly ==
    ASSUME CatalogueTypeOK, Sound, db' = db, deleter' = deleter, TouchInv',
           scanning'.at = "put" => scanning'.read[2] = Current(scanning'.read[1]) /\ HasSongs(db, scanning'.read[1]) # {},
           \A r \in Releases : Pending(r) /\ db.album[r] # NoRecord =>
              Pending(r)' \/ HasSongs(db, r) = {} \/ AlbumEquals(db.album[r], Current(r)),
           \A p \in Performers : ToCount(p) => ToCount(p)',
           Opened => Opened'
    PROVE  Sound'
<1> USE DEF Sound
<1>1. RowInv' BY DEF RowInv
<1>2. \A r : HasSongs(db, r)' = HasSongs(db, r) /\ Current(r)' = Current(r) BY DEF Current
<1>3. \A r : \A d \in Deleters : Unrefreshed(d, r)' = Unrefreshed(d, r) BY DEF Unrefreshed
<1>4. AlbumInv' BY <1>2, <1>3, AlbumStays DEF AlbumInv
<1>5. ReadInv' BY <1>2 DEF ReadInv
<1>6. CountInv'
    <2>1. \A t \in db.credit : PerformerOf[t] \in Performers BY CatalogueAssumption DEF CatalogueTypeOK, Tables, CatalogueAssumption
    <2>2. QED BY <2>1 DEF CountInv
<1>7. \A p : Hidden(p)' = Hidden(p) BY DEF Hidden, Hides
<1>8. ShownInv' BY <1>7 DEF ShownInv
<1>9. MarkInv' BY DEF MarkInv
<1>10. QED BY <1>1, <1>4, <1>5, <1>6, <1>8, <1>9

LEMMA StartScan_Sound == ASSUME CatalogueTypeOK, Sound, StartScan PROVE Sound'
<1>1. scanning.at = "idle" /\ scanning'.at = "import" /\ db' = db /\ deleter' = deleter BY DEF StartScan, Quiet
<1>2. TouchInv' BY <1>1 DEF Sound, TouchInv
<1>3. \A r \in Releases : ~Pending(r) BY <1>1 DEF Pending
<1>4. \A p \in Performers : ~ToCount(p) BY <1>1 DEF ToCount
<1>5. ~Opened BY <1>1 DEF Opened
<1>6. QED BY <1>1, <1>2, <1>3, <1>4, <1>5, ScannerOnly

LEMMA SkipFolder_Sound == ASSUME CatalogueTypeOK, Sound, NEW t \in Tracks, SkipFolder(t) PROVE Sound'
<1>1. scanning' = [scanning EXCEPT !.todo = @ \ {t}] /\ scanning.at = "import" /\ db' = db /\ deleter' = deleter BY DEF SkipFolder, Processes
<1>2. scanning'.at = "import" BY <1>1 DEF CatalogueTypeOK, Work
<1>3. TouchInv' BY <1>1, <1>2 DEF Sound, TouchInv
<1>4. \A r \in Releases : Pending(r) => Pending(r)' BY <1>1, <1>2 DEF Pending
<1>5. \A p \in Performers : ToCount(p) => ToCount(p)' BY <1>1, <1>2 DEF ToCount
<1>6. Opened => Opened' BY <1>1, <1>2 DEF Opened
<1>7. QED BY <1>1, <1>2, <1>3, <1>4, <1>5, <1>6, ScannerOnly

LEMMA EndImport_Sound == ASSUME CatalogueTypeOK, Sound, EndImport PROVE Sound'
<1>1. /\ scanning' = [scanning EXCEPT !.at = IF db.touched = {} THEN "idle" ELSE "albums", !.albums = db.touched]
      /\ scanning.at = "import" /\ db' = db /\ deleter' = deleter
    BY DEF EndImport
<1>2. scanning'.at = (IF db.touched = {} THEN "idle" ELSE "albums") /\ scanning'.albums = db.touched BY <1>1 DEF CatalogueTypeOK, Work
<1>3. TouchInv' BY <1>1, <1>2 DEF Sound, TouchInv
<1>4. \A r \in Releases : Pending(r) => Pending(r)' BY <1>1, <1>2 DEF Pending
<1>5. \A p \in Performers : ToCount(p) => ToCount(p)' BY <1>1, <1>2 DEF ToCount, Sound, TouchInv
<1>6. Opened => Opened' BY <1>1, <1>2 DEF Opened
<1>7. QED BY <1>1, <1>2, <1>3, <1>4, <1>5, <1>6, ScannerOnly

LEMMA filterUnmodified_Sound == ASSUME CatalogueTypeOK, Sound, NEW r \in Releases, filterUnmodified(r) PROVE Sound'
<1>1. /\ scanning' = IF IsStale(db, r)
                     THEN [scanning EXCEPT !.albums = @ \ {r}, !.at = "put", !.read = <<r, ToAlbum(db, HasSongs(db, r))>>]
                     ELSE [scanning EXCEPT !.albums = @ \ {r}]
      /\ scanning.at = "albums" /\ db' = db /\ deleter' = deleter
    BY DEF filterUnmodified
<1>2. \/ IsStale(db, r) /\ scanning'.at = "put" /\ scanning'.albums = scanning.albums \ {r}
           /\ scanning'.read[1] = r /\ scanning'.read[2] = Current(r)
      \/ ~IsStale(db, r) /\ scanning'.at = "albums" /\ scanning'.albums = scanning.albums \ {r}
    BY <1>1 DEF CatalogueTypeOK, Work, Current
<1>3. TouchInv' BY <1>1, <1>2 DEF Sound, TouchInv
<1>4. \A q \in Releases : Pending(q) /\ db.album[q] # NoRecord =>
          Pending(q)' \/ HasSongs(db, q) = {} \/ AlbumEquals(db.album[q], Current(q))
    BY <1>1, <1>2 DEF Pending, IsStale, Current
<1>5. \A p \in Performers : ToCount(p) => ToCount(p)' BY <1>1, <1>2 DEF ToCount
<1>6. Opened => Opened' BY <1>1, <1>2 DEF Opened
<1>7. IsStale(db, r) => HasSongs(db, r) # {} BY DEF IsStale
<1>8. QED BY <1>1, <1>2, <1>3, <1>4, <1>5, <1>6, <1>7, ScannerOnly

LEMMA CreditFacts ==
    ASSUME CatalogueTypeOK
    PROVE  /\ db \in Tables /\ \A t \in Tracks : ReleaseOf[t] \in Releases /\ PerformerOf[t] \in Performers
           /\ \A t \in db.credit : t \in Tracks /\ t \in SongsBy(db, PerformerOf[t])
           /\ \A p : Cardinality(SongsBy(db, p)) \in Nat /\ (Cardinality(SongsBy(db, p)) = 0 <=> SongsBy(db, p) = {})
<1>1. db \in Tables /\ db.credit \subseteq Tracks BY DEF CatalogueTypeOK, Tables
<1>2. QED BY <1>1, SongSets, CatalogueAssumption DEF CatalogueAssumption, SongsBy

\* Neither songs nor albums change, and no album is put off.
LEMMA AlbumsStay ==
    ASSUME CatalogueTypeOK, Sound, db'.song = db.song, db'.album = db.album,
           \A r \in Releases : Pending(r) => Pending(r)',
           \A r \in Releases, d \in Deleters : Unrefreshed(d, r) => Unrefreshed(d, r)' \/ HasSongs(db, r) = {} \/ AlbumEquals(db.album[r], Current(r)),
           \A r \in Releases : db.album[r] # NoRecord =>
              \A d \in Deleters : deleter[d].at = "albums" => deleter'[d].at = "albums" \/ HasSongs(db, r) # {}
    PROVE  AlbumInv'
BY AlbumStays DEF Sound, AlbumInv

LEMMA ReadsStay ==
    ASSUME Sound, db'.song = db.song, scanning'.at = "put" => scanning' = scanning,
           \A d \in Deleters : deleter'[d].at = "write" => deleter'[d] = deleter[d]
    PROVE  ReadInv'
<1>1. \A r : HasSongs(db, r)' = HasSongs(db, r) /\ Current(r)' = Current(r) BY SameSongs
<1>2. QED BY <1>1 DEF Sound, ReadInv

LEMMA runRefreshStats_Sound == ASSUME CatalogueTypeOK, Sound, runRefreshStats PROVE Sound'
<1> USE DEF Sound
<1>1. CASE /\ scanning.at = "list"
           /\ scanning' = [scanning EXCEPT !.at = IF db.fresh = {} THEN "finish" ELSE "batch", !.ids = db.fresh]
           /\ UNCHANGED <<db, disk, deleter, fileChanges, dbErrors, early, staleRead>>
    <2>1. scanning'.at = (IF db.fresh = {} THEN "finish" ELSE "batch") /\ scanning'.ids = db.fresh BY <1>1 DEF CatalogueTypeOK, Work
    <2>2. TouchInv' BY <1>1, <2>1 DEF TouchInv
    <2>3. \A r \in Releases : ~Pending(r) BY <1>1 DEF Pending
    <2>4. \A p \in Performers : ToCount(p) => ToCount(p)' BY <1>1, <2>1 DEF ToCount
    <2>5. ~Opened BY <1>1 DEF Opened
    <2>6. QED BY <1>1, <2>1, <2>2, <2>3, <2>4, <2>5, ScannerOnly
<1>2. CASE /\ scanning.at = "batch"
           /\ db' = UpdateStats(db, scanning.ids)
           /\ scanning' = [scanning EXCEPT !.at = "cleanup"]
           /\ UNCHANGED <<disk, deleter, fileChanges, dbErrors, early, staleRead>>
    <2>1. /\ db' \in Tables
          /\ \A p \in Performers :
                db'.listed[p] = IF p \in scanning.ids /\ db.listed[p] # NoRecord THEN Cardinality(SongsBy(db, p)) ELSE db.listed[p]
          /\ db'.song = db.song /\ db'.credit = db.credit /\ db'.album = db.album /\ db'.artist = db.artist
          /\ db'.marks = db.marks /\ db'.playlist = db.playlist /\ db'.touched = db.touched /\ db'.fresh = db.fresh
        BY <1>2, CreditFacts, UpdateStats_Facts
    <2>2. scanning'.at = "cleanup" /\ deleter' = deleter BY <1>2 DEF CatalogueTypeOK, Work
    <2>3. TouchInv' BY <1>2, <2>2 DEF TouchInv
    <2>4. RowInv' BY <2>1 DEF RowInv
    <2>5. AlbumInv' BY <1>2, <2>1, <2>2, AlbumsStay DEF Pending, Unrefreshed
    <2>6. ReadInv' BY <2>1, <2>2, ReadsStay
    <2>7. \A t \in db.credit : db'.listed[PerformerOf[t]] \in Nat \ {0}
        <3> TAKE t \in db.credit
        <3>1. PerformerOf[t] \in Performers /\ Cardinality(SongsBy(db, PerformerOf[t])) \in Nat \ {0} BY CreditFacts
        <3>2. db.listed[PerformerOf[t]] \in Nat \ {0} \/ (db.listed[PerformerOf[t]] = 0 /\ PerformerOf[t] \in scanning.ids)
            BY <1>2 DEF CountInv, ToCount
        <3>3. QED BY <2>1, <3>1, <3>2, CatalogueAssumption DEF CatalogueAssumption
    <2>8. CountInv' BY <2>1, <2>2, <2>7 DEF CountInv
    <2>9. \A p \in Performers : Hidden(p) => Hidden(p)'
        <3> TAKE p \in Performers
        <3>1. SongsBy(db, p)' = SongsBy(db, p) BY <2>1 DEF SongsBy
        <3>2. SongsBy(db, p) = {} /\ db.listed[p] \in {0, NoRecord} => db'.listed[p] \in {0, NoRecord} BY <2>1, CreditFacts
        <3>3. SongsBy(db, p) = {} => \A d \in Deleters : Hides(d, p) => Hides(d, p)' BY <2>2, <3>2 DEF Hides
        <3>4. QED BY <2>1, <3>1, <3>3 DEF Hidden
    <2>10. ShownInv' BY <1>2, <2>1, <2>2, <2>9 DEF ShownInv, Opened
    <2>11. MarkInv' BY <2>1, <2>2 DEF MarkInv
    <2>12. QED BY <2>3, <2>4, <2>5, <2>6, <2>8, <2>10, <2>11
<1>3. CASE /\ scanning.at = "cleanup"
           /\ db' = CleanupEntries(db, FALSE)
           /\ scanning' = [scanning EXCEPT !.at = "finish"]
           /\ UNCHANGED <<disk, deleter, fileChanges, dbErrors, early, staleRead>>
    <2>1. /\ db' \in Tables
          /\ \A p \in Performers : db'.listed[p] = IF db.listed[p] = 0 THEN NoRecord ELSE db.listed[p]
          /\ \A p \in Performers : \/ db'.artist[p] = db.artist[p]
                                   \/ db'.artist[p] = "missing" /\ db.artist[p] # NoRecord /\ db'.listed[p] = NoRecord
          /\ db'.song = db.song /\ db'.credit = db.credit /\ db'.album = db.album
          /\ db'.marks = db.marks /\ db'.playlist = db.playlist /\ db'.touched = db.touched /\ db'.fresh = db.fresh
        BY <1>3, CreditFacts, CleanupEntries_Facts
    <2>2. scanning'.at = "finish" /\ deleter' = deleter BY <1>3 DEF CatalogueTypeOK, Work
    <2>3. TouchInv' BY <1>3, <2>2 DEF TouchInv
    <2>4. NoRecord \notin {"missing", "shown"} /\ NoRecord \notin Nat BY CatalogueAssumption DEF CatalogueAssumption
    <2>5. RowInv' BY <2>1, <2>4, CreditFacts DEF RowInv
    <2>6. AlbumInv' BY <1>3, <2>1, <2>2, AlbumsStay DEF Pending, Unrefreshed
    <2>7. ReadInv' BY <2>1, <2>2, ReadsStay
    <2>8. \A t \in db.credit : PerformerOf[t] \in Performers /\ db.listed[PerformerOf[t]] \in Nat \ {0} /\ db'.listed[PerformerOf[t]] \in Nat \ {0}
        BY <1>3, <2>1, CreditFacts DEF CountInv, ToCount
    <2>9. \A p \in Performers : db'.artist[p] # NoRecord => db.artist[p] # NoRecord BY <2>1, <2>4
    <2>10. CountInv' BY <2>1, <2>2, <2>8, <2>9 DEF CountInv
    <2>11. \A p \in Performers : Hidden(p) => Hidden(p)'
        <3> TAKE p \in Performers
        <3>1. SongsBy(db, p)' = SongsBy(db, p) BY <2>1 DEF SongsBy
        <3>2. \A d \in Deleters : Hides(d, p) => Hides(d, p)' BY <2>1, <2>2 DEF Hides
        <3>3. QED BY <2>9, <3>1, <3>2 DEF Hidden
    <2>12. \A p \in Performers : db'.artist[p] = "shown" => db.artist[p] = "shown" BY <2>1
    <2>13. \A t \in Tracks : db'.song[t] = "there" => db'.artist[PerformerOf[t]] = "shown"
        <3> SUFFICES ASSUME NEW t \in Tracks, db.song[t] = "there" PROVE db'.artist[PerformerOf[t]] = "shown" BY <2>1
        <3>1. t \in db.credit BY CatalogueAssumption DEF RowInv, CatalogueAssumption
        <3>2. db.artist[PerformerOf[t]] = "shown" BY <1>3 DEF ShownInv, Opened
        <3>3. QED BY <2>1, <2>4, <2>8, <3>1, <3>2
    <2>14. ShownInv' BY <2>2, <2>11, <2>12, <2>13 DEF ShownInv
    <2>15. MarkInv' BY <2>1, <2>2 DEF MarkInv
    <2>16. QED BY <2>3, <2>5, <2>6, <2>7, <2>10, <2>14, <2>15
<1>4. QED BY <1>1, <1>2, <1>3 DEF runRefreshStats

LEMMA FinishScan_Sound == ASSUME CatalogueTypeOK, Sound, FinishScan PROVE Sound'
<1> USE DEF Sound
<1>1. /\ scanning.at = "finish" /\ scanning'.at = "idle" /\ deleter' = deleter
      /\ db'.song = db.song /\ db'.credit = db.credit /\ db'.album = db.album /\ db'.artist = db.artist /\ db'.listed = db.listed
      /\ db'.marks = db.marks /\ db'.playlist = db.playlist /\ db'.touched = {} /\ db'.fresh = {}
    BY DEF FinishScan, Quiet, CatalogueTypeOK, Tables
<1>2. TouchInv' BY <1>1 DEF TouchInv
<1>3. RowInv' BY <1>1 DEF RowInv
<1>4. AlbumInv' BY <1>1, AlbumsStay DEF Pending, Unrefreshed
<1>5. ReadInv' BY <1>1, ReadsStay
<1>6. CountInv' BY <1>1 DEF CountInv, ToCount
<1>7. \A p : Hidden(p)' = Hidden(p) BY <1>1 DEF Hidden, Hides, SongsBy
<1>8. ShownInv' BY <1>1, <1>7 DEF ShownInv, Opened
<1>9. MarkInv' BY <1>1 DEF MarkInv
<1>10. QED BY <1>2, <1>3, <1>4, <1>5, <1>6, <1>8, <1>9

\* The album is written from all its songs.
LEMMA AlbumWritten ==
    ASSUME CatalogueTypeOK, Sound, NEW r \in Releases, db' \in Tables, db'.song = db.song, HasSongs(db, r) # {},
           db'.album[r] \in AlbumRow, db'.album[r].songs = Current(r).songs, db'.album[r].missing = Current(r).missing,
           db'.album[r].artists = {p \in Current(r).artists : db.artist[p] # NoRecord}
    PROVE  db'.album[r] # NoRecord /\ AlbumGood(r)'
<1>1. HasSongs(db, r)' = HasSongs(db, r) /\ Current(r)' = Current(r) BY SameSongs
<1>2. /\ Current(r).songs = HasSongs(db, r) /\ Current(r).missing = (\A t \in HasSongs(db, r) : db.song[t] = "missing")
      /\ Current(r).artists = {PerformerOf[t] : t \in HasSongs(db, r)}
    BY Current_Facts
<1>3. \A t \in HasSongs(db, r) : db.artist[PerformerOf[t]] # NoRecord BY DEF Sound, RowInv, HasSongs
<1>4. QED BY <1>1, <1>2, <1>3, CatalogueAssumption DEF AlbumGood, AlbumEquals, CatalogueAssumption

LEMMA refreshAlbum_Sound == ASSUME CatalogueTypeOK, Sound, refreshAlbum PROVE Sound'
<1> USE DEF Sound
<1>0. scanning.read[1] \in Releases /\ scanning.read[2] \in AlbumRow BY DEF refreshAlbum, CatalogueTypeOK
<1> PICK r \in Releases, a \in AlbumRow : r = scanning.read[1] /\ a = scanning.read[2] BY <1>0
<1>1. /\ scanning.at = "put" /\ db' = PutAlbum(db, r, a) /\ scanning' = [scanning EXCEPT !.at = "albums", !.read = <<>>] /\ deleter' = deleter
      /\ db \in Tables
    BY DEF refreshAlbum, CatalogueTypeOK
<1>2. a = Current(r) /\ HasSongs(db, r) # {} BY <1>1 DEF ReadInv
<1>3. scanning.at = "put" /\ scanning'.at = "albums" /\ scanning'.albums = scanning.albums /\ deleter' = deleter
    BY <1>1 DEF CatalogueTypeOK, Work
<1>4. \A q \in Releases \ {r} : Pending(q)' <=> Pending(q) BY <1>1, <1>3 DEF Pending
<1>5. /\ db' \in Tables /\ \A q \in Releases \ {r} : db'.album[q] = db.album[q]
      /\ db'.album[r] \in AlbumRow /\ db'.album[r].songs = a.songs /\ db'.album[r].missing = a.missing
      /\ db'.album[r].artists = {p \in a.artists : db.artist[p] # NoRecord}
      /\ db'.song = db.song /\ db'.credit = db.credit /\ db'.artist = db.artist /\ db'.listed = db.listed
      /\ db'.marks = db.marks /\ db'.playlist = db.playlist /\ db'.touched = db.touched /\ db'.fresh = db.fresh
    BY <1>1, PutAlbum_Facts
<1>6. db'.album[r] # NoRecord /\ AlbumGood(r)' BY <1>1, <1>2, <1>5, AlbumWritten
<1>7. \A q \in Releases : db'.album[q] = NoRecord => db.album[q] = NoRecord BY <1>5, <1>6
<1>8. TouchInv' BY <1>3 DEF TouchInv
<1>9. RowInv' BY <1>5, <1>7, CreditFacts DEF RowInv
<1>10. AlbumInv'
    <2> SUFFICES ASSUME NEW q \in Releases, db'.album[q] # NoRecord PROVE AlbumGood(q)' BY DEF AlbumInv
    <2>1. CASE q = r BY <1>6, <2>1
    <2>2. CASE q # r BY <1>3, <1>4, <1>5, <2>2, AlbumStays DEF AlbumInv, Unrefreshed
    <2>3. QED BY <2>1, <2>2
<1>11. ReadInv' BY <1>3, <1>5, ReadsStay
<1>12. CountInv' BY <1>3, <1>5 DEF CountInv, ToCount
<1>13. \A p : Hidden(p)' = Hidden(p) BY <1>3, <1>5 DEF Hidden, Hides, SongsBy
<1>14. ShownInv' BY <1>3, <1>5, <1>13 DEF ShownInv, Opened
<1>15. MarkInv'
    <2>1. \A m \in db.marks \cap Releases : db'.album[m] = NoRecord => \E d \in Deleters : deleter[d].at \in {"artists", "missing", "albumMarks"}
        BY <1>7 DEF MarkInv
    <2>2. deleter' = deleter BY <1>3
    <2>3. db'.song = db.song /\ db'.marks = db.marks /\ db'.playlist = db.playlist BY <1>5
    <2>4. QED BY <2>1, <2>2, <2>3 DEF MarkInv
<1>16. QED BY <1>8, <1>9, <1>10, <1>11, <1>12, <1>14, <1>15

LEMMA MarkMissing_Sound ==
    ASSUME CatalogueTypeOK, Sound, NEW t \in Tracks, MarkMissing(t), ~staleRead'
    PROVE  Sound'
<1> USE DEF Sound
<1> DEFINE r == ReleaseOf[t]
<1>1. /\ scanning.at = "import" /\ scanning' = [scanning EXCEPT !.todo = @ \ {t}] /\ deleter' = deleter
      /\ db.song[t] = "there" /\ db' = [db EXCEPT !.song[t] = "missing", !.touched = @ \cup {r}] /\ ~Overtaken({t})
    BY DEF MarkMissing, Processes, Overtakes
<1>2. r \in Releases /\ NoRecord \notin {"there", "missing"} /\ db \in Tables BY CatalogueAssumption, CreditFacts DEF CatalogueAssumption
<1>3. scanning'.at = "import" BY <1>1 DEF CatalogueTypeOK, Work
<1>4. /\ db'.song = [db.song EXCEPT ![t] = "missing"] /\ db'.touched = db.touched \cup {r}
      /\ db'.credit = db.credit /\ db'.album = db.album /\ db'.artist = db.artist /\ db'.listed = db.listed
      /\ db'.marks = db.marks /\ db'.playlist = db.playlist /\ db'.fresh = db.fresh
    BY <1>1, <1>2 DEF Tables
<1>5. \A s \in Tracks : s # t => db'.song[s] = db.song[s] BY <1>2, <1>4 DEF Tables
<1>6. db'.song[t] = "missing" BY <1>2, <1>4 DEF Tables
<1>7. \A s \in Tracks : db'.song[s] = NoRecord <=> db.song[s] = NoRecord BY <1>1, <1>2, <1>5, <1>6
<1>8. \A q : HasSongs(db, q)' = HasSongs(db, q) BY <1>7 DEF HasSongs
<1>9. \A d \in Deleters : deleter[d].at = "write" => r \notin deleter[d].albums BY <1>1 DEF Overtaken
<1>10. \A q : q # r => Current(q)' = Current(q) BY <1>5, SameSongs
<1> HIDE DEF r
<1>11. TouchInv' BY <1>3, <1>4 DEF TouchInv
<1>12. RowInv' BY <1>4, <1>7 DEF RowInv
<1>13. AlbumInv'
    <2> SUFFICES ASSUME NEW q \in Releases, db.album[q] # NoRecord PROVE AlbumGood(q)' BY <1>4 DEF AlbumInv
    <2>1. CASE q = r
        <3>1. Pending(q)' BY <1>3, <1>4, <2>1 DEF Pending
        <3>2. AlbumGood(q) BY DEF AlbumInv
        <3>3. QED BY <1>1, <1>4, <1>8, <3>1, <3>2 DEF AlbumGood
    <2>2. CASE q # r
        <3>1. Pending(q)' <=> Pending(q) BY <1>1, <1>3, <1>4, <2>2 DEF Pending
        <3>2. \A s \in Tracks : ReleaseOf[s] = q => db'.song[s] = db.song[s] BY <1>5, <2>2 DEF r
        <3>3. QED BY <1>1, <1>4, <3>1, <3>2, AlbumStays DEF AlbumInv, Unrefreshed
    <2>3. QED BY <2>1, <2>2
<1>14. ReadInv' BY <1>1, <1>3, <1>8, <1>9, <1>10 DEF ReadInv
<1>15. CountInv' BY <1>1, <1>3, <1>4 DEF CountInv, ToCount
<1>16. \A p : Hidden(p)' = Hidden(p) BY <1>1, <1>4 DEF Hidden, Hides, SongsBy
<1>17. ShownInv' BY <1>1, <1>3, <1>4, <1>16 DEF ShownInv, Opened
<1>18. MarkInv' BY <1>1, <1>4, <1>7 DEF MarkInv
<1>19. QED BY <1>11, <1>12, <1>13, <1>14, <1>15, <1>17, <1>18

\* What an import writes.
ImportDone(t) ==
    [db EXCEPT !.artist[PerformerOf[t]] = IF @ = NoRecord THEN "shown" ELSE @,
               !.listed[PerformerOf[t]] = IF @ = NoRecord THEN 0 ELSE @,
               !.song[t] = "there", !.credit = @ \cup {t},
               !.touched = @ \cup {ReleaseOf[t]}, !.fresh = @ \cup {PerformerOf[t]}]

LEMMA Imported_Facts ==
    ASSUME db \in Tables, NEW t \in Tracks
    PROVE  LET d == ImportDone(t)
               p == PerformerOf[t]
           IN  /\ d \in Tables
               /\ \A q \in Performers : q # p => d.artist[q] = db.artist[q] /\ d.listed[q] = db.listed[q]
               /\ d.artist[p] = (IF db.artist[p] = NoRecord THEN "shown" ELSE db.artist[p])
               /\ d.listed[p] = (IF db.listed[p] = NoRecord THEN 0 ELSE db.listed[p])
               /\ d.song[t] = "there" /\ \A s \in Tracks : s # t => d.song[s] = db.song[s]
               /\ d.credit = db.credit \cup {t} /\ d.album = db.album /\ d.marks = db.marks /\ d.playlist = db.playlist
               /\ d.touched = db.touched \cup {ReleaseOf[t]} /\ d.fresh = db.fresh \cup {p}
<1> DEFINE p == PerformerOf[t]
           artists == [db.artist EXCEPT ![p] = IF @ = NoRecord THEN "shown" ELSE @]
           entries == [db.listed EXCEPT ![p] = IF @ = NoRecord THEN 0 ELSE @]
           songs == [db.song EXCEPT ![t] = "there"]
<1>1. p \in Performers /\ ReleaseOf[t] \in Releases BY CatalogueAssumption DEF CatalogueAssumption
<1>2. /\ artists \in [Performers -> {"shown", "missing", NoRecord}]
      /\ \A q \in Performers : q # p => artists[q] = db.artist[q]
      /\ artists[p] = (IF db.artist[p] = NoRecord THEN "shown" ELSE db.artist[p])
    BY <1>1 DEF Tables
<1>3. /\ entries \in [Performers -> Nat \cup {NoRecord}]
      /\ \A q \in Performers : q # p => entries[q] = db.listed[q]
      /\ entries[p] = (IF db.listed[p] = NoRecord THEN 0 ELSE db.listed[p])
    BY <1>1 DEF Tables
<1>4. /\ songs \in [Tracks -> {"there", "missing", NoRecord}] /\ songs[t] = "there" /\ \A s \in Tracks : s # t => songs[s] = db.song[s]
    BY DEF Tables
<1>5. ImportDone(t) = [db EXCEPT !.artist = artists, !.listed = entries, !.song = songs, !.credit = @ \cup {t},
                               !.touched = @ \cup {ReleaseOf[t]}, !.fresh = @ \cup {p}]
    BY DEF ImportDone, Tables
<1> HIDE DEF artists, entries, songs, p
<1>6. /\ ImportDone(t).artist = artists /\ ImportDone(t).listed = entries /\ ImportDone(t).song = songs
      /\ ImportDone(t).credit = db.credit \cup {t} /\ ImportDone(t).album = db.album
      /\ ImportDone(t).marks = db.marks /\ ImportDone(t).playlist = db.playlist
      /\ ImportDone(t).touched = db.touched \cup {ReleaseOf[t]} /\ ImportDone(t).fresh = db.fresh \cup {p}
    BY <1>5 DEF Tables
<1>7. ImportDone(t) \in Tables
    <2> DEFINE credits == db.credit \cup {t}
               touches == db.touched \cup {ReleaseOf[t]}
               fresher == db.fresh \cup {p}
    <2>1. credits \subseteq Tracks /\ touches \subseteq Releases /\ fresher \subseteq Performers BY <1>1 DEF Tables, p
    <2>2. ImportDone(t) = [db EXCEPT !.artist = artists, !.listed = entries, !.song = songs, !.credit = credits, !.touched = touches, !.fresh = fresher]
        BY <1>5 DEF Tables
    <2> HIDE DEF credits, touches, fresher
    <2>3. QED BY <1>2, <1>3, <1>4, <2>1, <2>2 DEF Tables
<1>8. QED BY <1>2, <1>3, <1>4, <1>6, <1>7 DEF p

LEMMA Import_Facts ==
    ASSUME CatalogueTypeOK, NEW t \in Tracks, Import(t)
    PROVE  LET p == PerformerOf[t]
               r == ReleaseOf[t]
           IN  /\ db' \in Tables
               /\ \A q \in Performers : q # p => db'.artist[q] = db.artist[q] /\ db'.listed[q] = db.listed[q]
               /\ db'.artist[p] = (IF db.artist[p] = NoRecord THEN "shown" ELSE db.artist[p])
               /\ db'.listed[p] = (IF db.listed[p] = NoRecord THEN 0 ELSE db.listed[p])
               /\ db'.song[t] = "there" /\ \A s \in Tracks : s # t => db'.song[s] = db.song[s]
               /\ \A q \in Releases : q # r => db'.album[q] = db.album[q]
               /\ db'.album[r] \in AlbumRow /\ db'.album[r].songs = {t} /\ db'.album[r].missing = FALSE /\ db'.album[r].artists = {p}
               /\ db'.credit = db.credit \cup {t} /\ db'.marks = db.marks /\ db'.playlist = db.playlist
               /\ db'.touched = db.touched \cup {r} /\ db'.fresh = db.fresh \cup {p}
<1> DEFINE d == ImportDone(t)
           a == ToAlbum(d, {t})
           p == PerformerOf[t]
           r == ReleaseOf[t]
<1>1. db' = PutAlbum(d, r, a) BY DEF Import, ImportDone
<1>2. /\ d \in Tables
      /\ \A q \in Performers : q # p => d.artist[q] = db.artist[q] /\ d.listed[q] = db.listed[q]
      /\ d.artist[p] = (IF db.artist[p] = NoRecord THEN "shown" ELSE db.artist[p])
      /\ d.listed[p] = (IF db.listed[p] = NoRecord THEN 0 ELSE db.listed[p])
      /\ d.song[t] = "there" /\ \A s \in Tracks : s # t => d.song[s] = db.song[s]
      /\ d.credit = db.credit \cup {t} /\ d.album = db.album /\ d.marks = db.marks /\ d.playlist = db.playlist
      /\ d.touched = db.touched \cup {ReleaseOf[t]} /\ d.fresh = db.fresh \cup {p}
    BY CreditFacts, Imported_Facts
<1>3. r \in Releases /\ p \in Performers /\ NoRecord # "shown" BY CatalogueAssumption DEF CatalogueAssumption
<1> HIDE DEF d, r
<1>4. a \in AlbumRow /\ a.songs = {t} /\ a.missing = FALSE /\ a.artists = {p}
    <2> DEFINE S == {t}
    <2>1. S \in SUBSET Tracks OBVIOUS
    <2>2. ToAlbum(d, S).missing = (\A s \in S : d.song[s] = "missing") BY <1>2, <2>1, ToAlbum_Row
    <2>3. ~(\A s \in S : d.song[s] = "missing") BY <1>2
    <2>4. ToAlbum(d, S).artists = {PerformerOf[s] : s \in S} BY <1>2, <2>1, ToAlbum_Row
    <2>5. {PerformerOf[s] : s \in S} = {p} OBVIOUS
    <2>6. ToAlbum(d, S) \in AlbumRow /\ ToAlbum(d, S).songs = S BY <1>2, <2>1, ToAlbum_Row
    <2> HIDE DEF p
    <2>7. a.missing = FALSE BY <2>2, <2>3
    <2>8. QED BY <2>4, <2>5, <2>6, <2>7
<1> HIDE DEF a
<1>6. /\ db' \in Tables /\ \A q \in Releases \ {r} : db'.album[q] = d.album[q]
      /\ db'.album[r] \in AlbumRow /\ db'.album[r].songs = a.songs /\ db'.album[r].missing = a.missing
      /\ db'.album[r].artists = {q \in a.artists : d.artist[q] # NoRecord}
      /\ db'.song = d.song /\ db'.credit = d.credit /\ db'.artist = d.artist /\ db'.listed = d.listed
      /\ db'.marks = d.marks /\ db'.playlist = d.playlist /\ db'.touched = d.touched /\ db'.fresh = d.fresh
    BY <1>1, <1>2, <1>3, <1>4, PutAlbum_Facts
<1>7. d.artist[p] # NoRecord BY <1>2, <1>3
<1>8. db'.album[r].artists = {p} BY <1>4, <1>6, <1>7
<1>9. QED BY <1>2, <1>4, <1>6, <1>8 DEF r

LEMMA Import_Sound ==
    ASSUME CatalogueTypeOK, Sound, NEW t \in Tracks, Import(t), ~staleRead', ~early'
    PROVE  Sound'
<1> USE DEF Sound
<1> DEFINE r == ReleaseOf[t]
           p == PerformerOf[t]
<1>1. /\ scanning.at = "import" /\ scanning' = [scanning EXCEPT !.todo = @ \ {t}] /\ deleter' = deleter
      /\ ~Overtaken({t}) /\ \A d \in Deleters : deleter[d].at \notin {"batch", "cleanup"}
    BY DEF Import, Processes, Overtakes
<1>2. /\ db' \in Tables
      /\ \A q \in Performers : q # p => db'.artist[q] = db.artist[q] /\ db'.listed[q] = db.listed[q]
      /\ db'.artist[p] = (IF db.artist[p] = NoRecord THEN "shown" ELSE db.artist[p])
      /\ db'.listed[p] = (IF db.listed[p] = NoRecord THEN 0 ELSE db.listed[p])
      /\ db'.song[t] = "there" /\ \A s \in Tracks : s # t => db'.song[s] = db.song[s]
      /\ \A q \in Releases : q # r => db'.album[q] = db.album[q]
      /\ db'.album[r] \in AlbumRow /\ db'.album[r].songs = {t} /\ db'.album[r].missing = FALSE /\ db'.album[r].artists = {p}
      /\ db'.credit = db.credit \cup {t} /\ db'.marks = db.marks /\ db'.playlist = db.playlist
      /\ db'.touched = db.touched \cup {r} /\ db'.fresh = db.fresh \cup {p}
    BY Import_Facts
<1>3. /\ r \in Releases /\ p \in Performers /\ NoRecord \notin {"there", "shown", "missing"} /\ NoRecord \notin AlbumRow /\ NoRecord \notin Nat
    BY CatalogueAssumption DEF CatalogueAssumption
<1>4. db \in Tables BY CreditFacts
<1>5. scanning'.at = "import" BY <1>1 DEF CatalogueTypeOK, Work
<1>6. \A d \in Deleters : deleter[d].at = "write" => r \notin deleter[d].albums BY <1>1 DEF Overtaken
<1>7. \A q : q # r => HasSongs(db, q)' = HasSongs(db, q) /\ Current(q)' = Current(q) BY <1>2, SameSongs
<1>8. t \in HasSongs(db, r)' BY <1>2, <1>3 DEF HasSongs
<1>9. \A q \in Releases : q # r => \A s \in Tracks : ReleaseOf[s] = q => db'.song[s] = db.song[s] BY <1>2
<1>10. \A s \in Tracks : PerformerOf[s] \in Performers /\ ReleaseOf[s] \in Releases BY CreditFacts
<1>11. \A q \in Performers : db'.artist[q] = db.artist[q] \/ db.artist[q] = NoRecord BY <1>2
<1>12. \A q \in Releases : db'.album[q] = NoRecord => db.album[q] = NoRecord BY <1>2, <1>3
<1>13. TouchInv' BY <1>2, <1>5 DEF TouchInv
<1>14. RowInv'
    <2>1. db'.credit = {s \in Tracks : db'.song[s] # NoRecord} BY <1>2, <1>3 DEF RowInv
    <2>2. \A s \in db'.credit : db'.album[ReleaseOf[s]] # NoRecord
        <3> SUFFICES ASSUME NEW s \in db'.credit PROVE db'.album[ReleaseOf[s]] # NoRecord OBVIOUS
        <3>1. CASE s = t BY <1>2, <1>3, <3>1
        <3>2. CASE s # t BY <1>2, <1>10, <1>12, <2>1, <3>2 DEF RowInv
        <3>3. QED BY <3>1, <3>2
    <2>3. \A s \in db'.credit : db'.artist[PerformerOf[s]] # NoRecord
        <3> SUFFICES ASSUME NEW s \in db'.credit PROVE db'.artist[PerformerOf[s]] # NoRecord OBVIOUS
        <3>1. CASE s = t BY <1>2, <1>3, <3>1
        <3>2. CASE s # t BY <1>2, <1>3, <1>10, <1>11, <2>1, <3>2 DEF RowInv
        <3>3. QED BY <3>1, <3>2
    <2>4. QED BY <2>1, <2>2, <2>3 DEF RowInv
<1>15. AlbumInv'
    <2> SUFFICES ASSUME NEW q \in Releases, db'.album[q] # NoRecord PROVE AlbumGood(q)' BY DEF AlbumInv
    <2>1. CASE q = r
        <3>1. Pending(r)' BY <1>2, <1>5 DEF Pending
        <3>2. QED BY <1>2, <1>8, <2>1, <3>1 DEF AlbumGood
    <2>2. CASE q # r
        <3>1. Pending(q)' <=> Pending(q) BY <1>1, <1>2, <1>5, <2>2 DEF Pending
        <3>2. \A d \in Deleters : Unrefreshed(d, q)' <=> Unrefreshed(d, q) BY <1>1 DEF Unrefreshed
        <3>3. AlbumGood(q) /\ db'.album[q] = db.album[q] BY <1>2, <2>2 DEF AlbumInv
        <3>4. \A s \in Tracks : ReleaseOf[s] = q => db'.song[s] = db.song[s] BY <1>9, <2>2
        <3>5. QED BY <1>1, <3>1, <3>2, <3>3, <3>4, AlbumStays
    <2>3. QED BY <2>1, <2>2
<1>16. ReadInv' BY <1>1, <1>5, <1>6, <1>7 DEF ReadInv
<1>17. CountInv'
    <2> SUFFICES ASSUME NEW s \in db'.credit PROVE (db.listed[PerformerOf[s]] \in Nat \ {0} \/ ToCount(PerformerOf[s]))' BY <1>1 DEF CountInv
    <2>1. CASE PerformerOf[s] = p
        <3>1. db'.listed[p] \in Nat BY <1>2, <1>3, <1>4 DEF Tables
        <3>2. db'.listed[p] = 0 => ToCount(p)' BY <1>2, <1>5 DEF ToCount
        <3>3. QED BY <2>1, <3>1, <3>2
    <2>2. CASE PerformerOf[s] # p
        <3>1. s \in db.credit /\ db'.listed[PerformerOf[s]] = db.listed[PerformerOf[s]] BY <1>2, <1>4, <1>10, <2>2 DEF Tables
        <3>2. ToCount(PerformerOf[s]) => ToCount(PerformerOf[s])' BY <1>1, <1>2, <1>5, <3>1 DEF ToCount
        <3>3. QED BY <3>1, <3>2 DEF CountInv
    <2>3. QED BY <2>1, <2>2
<1>18. ShownInv'
    <2>1. Opened' BY <1>2, <1>5 DEF Opened
    <2>2. \A q \in Performers : db'.artist[q] = "shown" => Hidden(q)'
        <3> SUFFICES ASSUME NEW q \in Performers, db'.artist[q] = "shown" PROVE Hidden(q)' OBVIOUS
        <3>1. CASE q = p
            <4>1. t \in SongsBy(db, q)' BY <1>2, <3>1 DEF SongsBy
            <4>2. QED BY <4>1 DEF Hidden
        <3>2. CASE q # p
            <4>1. db.artist[q] = "shown" BY <1>2, <3>2
            <4>2. Hidden(q) BY <4>1 DEF ShownInv
            <4>3. SongsBy(db, q) \subseteq SongsBy(db, q)' BY <1>2 DEF SongsBy
            <4>4. \A d \in Deleters : Hides(d, q) => Hides(d, q)' BY <1>1 DEF Hides
            <4>5. QED BY <1>3, <4>1, <4>2, <4>3, <4>4 DEF Hidden
        <3>3. QED BY <3>1, <3>2
    <2>3. QED BY <1>1, <2>1, <2>2 DEF ShownInv
<1>19. MarkInv' 
    <2>1. \A s \in Tracks : db'.song[s] = NoRecord => db.song[s] = NoRecord BY <1>2, <1>3
    <2>2. db.playlist \subseteq Tracks BY <1>4 DEF Tables
    <2>3. QED BY <1>1, <1>2, <1>12, <2>1, <2>2 DEF MarkInv
<1>20. QED BY <1>13, <1>14, <1>15, <1>16, <1>17, <1>18, <1>19

\* When the scanner has refreshed the albums every song is found through its album.
LEMMA AlbumOfSong ==
    ASSUME CatalogueTypeOK, Sound, NEW t \in db.credit, ~Pending(ReleaseOf[t])
    PROVE  LET r == ReleaseOf[t]
           IN  /\ t \in Tracks /\ r \in Releases /\ PerformerOf[t] \in Performers
               /\ t \in HasSongs(db, r) /\ db.album[r] # NoRecord /\ PerformerOf[t] \in db.album[r].artists
               /\ db.song[t] = "there" => ~db.album[r].missing
<1> DEFINE r == ReleaseOf[t]
<1>1. t \in Tracks /\ r \in Releases /\ PerformerOf[t] \in Performers BY CreditFacts
<1>2. t \in HasSongs(db, r) /\ db.album[r] # NoRecord BY DEF Sound, RowInv, HasSongs
<1>4. AlbumGood(r) BY <1>1, <1>2 DEF Sound, AlbumInv
<1>5. PerformerOf[t] \in db.album[r].artists BY <1>2, <1>4 DEF AlbumGood
<1>6. db.album[r].missing => db.song[t] = "missing" BY <1>2, <1>4 DEF AlbumGood
<1>7. QED BY <1>1, <1>2, <1>5, <1>6

\* An artist without songs is named by an album that a deletion will refresh, or
\* has refreshed too late.
LEMMA NamedInVain ==
    ASSUME CatalogueTypeOK, Sound, NEW p \in Performers, SongsBy(db, p) = {}, db.artist[p] # NoRecord,
           NEW r \in Releases, ~Pending(r), db.album[r] # NoRecord, HasSongs(db, r) # {}, p \in db.album[r].artists,
           \A d \in Deleters : deleter[d].at \in {"read", "write"} => \A q \in deleter[d].albums : ~IsStale(db, q)
    PROVE  \E d \in Deleters : Hides(d, p)
<1>1. AlbumGood(r) BY DEF Sound, AlbumInv
<1>2. PICK t \in db.album[r].songs : PerformerOf[t] = p BY <1>1 DEF AlbumGood
<1>3. t \notin HasSongs(db, r) BY <1>2 DEF SongsBy, HasSongs, Sound, RowInv
<1>4. ~AlbumEquals(db.album[r], Current(r)) BY <1>2, <1>3, Current_Facts DEF AlbumEquals
<1>6. PICK d \in Deleters : Unrefreshed(d, r) BY <1>1, <1>4 DEF AlbumGood
<1>7. IsStale(db, r) BY <1>4 DEF IsStale, Current
<1>8. deleter[d].at \in GCSteps \cup {"list", "batch", "cleanup"} BY <1>6, <1>7 DEF Unrefreshed
<1>9. CASE deleter[d].at \in GCSteps \cup {"list"} BY <1>9 DEF Hides
<1>10. CASE deleter[d].at = "batch" BY <1>10 DEF Hides, Sound, CountInv
<1>11. CASE deleter[d].at = "cleanup" BY <1>11 DEF Sound, ShownInv, Hidden
<1>12. QED BY <1>8, <1>9, <1>10, <1>11

LEMMA runGC_Sound == ASSUME CatalogueTypeOK, Sound, runGC, ~early' PROVE Sound'
<1> USE DEF Sound
<1> DEFINE a == purgeEmptyAlbums(db)
<1>1. /\ scanning.at = "albums" /\ scanning.albums = {} /\ scanning'.at = "list" /\ deleter' = deleter
      /\ \A d \in Deleters : deleter[d].at \in {"read", "write"} => \A q \in deleter[d].albums : ~IsStale(db, q)
    BY DEF runGC, CatalogueTypeOK, Work
<1>2. /\ db' \in Tables /\ a \in Tables /\ db'.song = db.song /\ db'.touched = db.touched /\ db'.fresh = db.fresh
      /\ db'.album = a.album /\ \A r \in Releases : db'.album[r] = IF HasSongs(db, r) = {} THEN NoRecord ELSE db.album[r]
      /\ db'.credit = {t \in db.credit : PerformerOf[t] \in Kept(a)}
      /\ \A p \in Performers :
            /\ db'.listed[p] = IF p \in Kept(a) THEN db.listed[p] ELSE NoRecord
            /\ db'.artist[p] = IF p \notin Kept(a) \/ db.artist[p] = NoRecord THEN NoRecord
                               ELSE IF p \in Heard(a) THEN "shown" ELSE "missing"
      /\ \A m \in db'.marks : m \in db.marks /\ (m \in Tracks => db.song[m] # NoRecord) /\ (m \in Releases => a.album[m] # NoRecord)
      /\ db'.playlist = {t \in db.playlist : db.song[t] # NoRecord}
    BY CreditFacts, GC_Facts DEF runGC
<1> HIDE DEF a
<1>3. NoRecord \notin {"shown", "missing"} BY CatalogueAssumption DEF CatalogueAssumption
<1>4. \A r \in Releases : ~Pending(r) BY <1>1 DEF Pending
<1>5. \A t \in db.credit :
          /\ t \in Tracks /\ ReleaseOf[t] \in Releases /\ PerformerOf[t] \in Performers
          /\ HasSongs(db, ReleaseOf[t]) # {} /\ db.album[ReleaseOf[t]] # NoRecord
          /\ PerformerOf[t] \in db.album[ReleaseOf[t]].artists
          /\ db.song[t] = "there" => ~db.album[ReleaseOf[t]].missing
    BY <1>4, AlbumOfSong, CreditFacts
<1>6. \A t \in db.credit : PerformerOf[t] \in Kept(a) /\ (db.song[t] = "there" => PerformerOf[t] \in Heard(a))
    <2> TAKE t \in db.credit
    <2>1. a.album[ReleaseOf[t]] = db.album[ReleaseOf[t]] BY <1>2, <1>5
    <2>2. QED BY <1>5, <2>1 DEF Kept, Heard
<1>7. db'.credit = db.credit BY <1>2, <1>6
<1>8. \A p : SongsBy(db, p)' = SongsBy(db, p) BY <1>7 DEF SongsBy
<1>9. \A p \in Performers : db.artist[p] = NoRecord => db'.artist[p] = NoRecord BY <1>2
<1>10. TouchInv' BY <1>1 DEF TouchInv
<1>11. RowInv' BY <1>2, <1>3, <1>5, <1>6, <1>7 DEF RowInv
<1>12. AlbumInv' BY <1>1, <1>2, <1>4, AlbumStays DEF AlbumInv, Unrefreshed
<1>13. ReadInv' BY <1>1, <1>2, ReadsStay
<1>14. \A t \in db.credit : db'.listed[PerformerOf[t]] = db.listed[PerformerOf[t]] BY <1>2, <1>5, <1>6
<1>15. CountInv' BY <1>1, <1>2, <1>5, <1>7, <1>9, <1>14 DEF CountInv, ToCount
<1>16. \A p \in Performers, d \in Deleters : Hides(d, p) => Hides(d, p)' BY <1>1, <1>2 DEF Hides
<1>17. \A p \in Performers : Hidden(p) => Hidden(p)' BY <1>8, <1>9, <1>16 DEF Hidden
<1>18. \A p \in Performers : db'.artist[p] = "shown" => Hidden(p)'
    <2> SUFFICES ASSUME NEW p \in Performers, db'.artist[p] = "shown", SongsBy(db, p) = {} PROVE \E d \in Deleters : Hides(d, p)
        BY <1>8, <1>16 DEF Hidden
    <2>1. p \in Heard(a) /\ db.artist[p] # NoRecord BY <1>2, <1>3
    <2>2. PICK r \in Releases : a.album[r] # NoRecord /\ p \in a.album[r].artists BY <2>1 DEF Heard
    <2>3. HasSongs(db, r) # {} /\ db.album[r] # NoRecord /\ p \in db.album[r].artists BY <1>2, <2>2
    <2>4. QED BY <1>1, <1>4, <2>1, <2>3, NamedInVain
<1>19. \A t \in Tracks : db'.song[t] = "there" => db'.artist[PerformerOf[t]] = "shown"
    <2> SUFFICES ASSUME NEW t \in Tracks, db.song[t] = "there" PROVE db'.artist[PerformerOf[t]] = "shown" BY <1>2
    <2>1. t \in db.credit BY CatalogueAssumption DEF RowInv, CatalogueAssumption
    <2>2. QED BY <1>2, <1>5, <1>6, <2>1 DEF RowInv
<1>20. ShownInv' BY <1>1, <1>17, <1>18, <1>19 DEF ShownInv
<1>21. MarkInv'
    <2>1. \A m \in db'.marks \cap Tracks : db'.song[m] # NoRecord BY <1>2
    <2>2. \A m \in db'.marks \cap Releases : db'.album[m] # NoRecord BY <1>2
    <2>3. \A t \in db'.playlist : db'.song[t] # NoRecord BY <1>2
    <2>4. QED BY <2>1, <2>2, <2>3 DEF MarkInv
<1>22. QED BY <1>10, <1>11, <1>12, <1>13, <1>15, <1>20, <1>21

LEMMA DeleterSets ==
    ASSUME CatalogueTypeOK, NEW d \in Deleters, NEW s, deleter' = [deleter EXCEPT ![d].at = s]
    PROVE  /\ deleter'[d].at = s /\ deleter'[d].albums = deleter[d].albums
           /\ deleter'[d].read = deleter[d].read /\ deleter'[d].ids = deleter[d].ids
           /\ \A e \in Deleters : e # d => deleter'[e] = deleter[e]
<1> DEFINE w == [deleter[d] EXCEPT !.at = s]
<1>1. deleter[d] \in Work(DeleterReads) BY DEF CatalogueTypeOK
<1>2. w.at = s /\ w.albums = deleter[d].albums /\ w.read = deleter[d].read /\ w.ids = deleter[d].ids BY <1>1 DEF Work
<1>3. deleter' = [deleter EXCEPT ![d] = w] BY DEF CatalogueTypeOK
<1> HIDE DEF w
<1>4. deleter'[d] = w /\ \A e \in Deleters : e # d => deleter'[e] = deleter[e] BY <1>3 DEF CatalogueTypeOK
<1>5. QED BY <1>2, <1>4

\* A request goes on and the tables stay.
LEMMA DeleterOnly ==
    ASSUME CatalogueTypeOK, Sound, db' = db, scanning' = scanning, NEW d \in Deleters,
           \A e \in Deleters : e # d => deleter'[e] = deleter[e],
           deleter[d].at \notin GCSteps, deleter'[d].at # "cleanup",
           deleter'[d].at = "batch" => \A p \in Performers : db.artist[p] # NoRecord => p \in deleter'[d].ids,
           deleter'[d].at = "write" => \A r \in DOMAIN deleter'[d].read :
              r \in deleter'[d].albums /\ deleter'[d].read[r] = Current(r) /\ HasSongs(db, r) # {},
           \A r \in Releases : Unrefreshed(d, r) /\ db.album[r] # NoRecord =>
              Unrefreshed(d, r)' \/ HasSongs(db, r) = {} \/ AlbumEquals(db.album[r], Current(r)),
           \A p \in Performers : Hides(d, p) => Hides(d, p)' \/ db.artist[p] = NoRecord
    PROVE  Sound'
<1> USE DEF Sound
<1>1. \A r : HasSongs(db, r)' = HasSongs(db, r) /\ Current(r)' = Current(r) BY DEF Current
<1>2. \A r : Pending(r)' = Pending(r) BY DEF Pending
<1>3. \A e \in Deleters : e # d => \A r : Unrefreshed(e, r)' = Unrefreshed(e, r) BY DEF Unrefreshed
<1>4. \A e \in Deleters : e # d => \A p : Hides(e, p)' = Hides(e, p) BY DEF Hides
<1>5. TouchInv' /\ RowInv' BY DEF TouchInv, RowInv
<1>6. AlbumInv'
    <2> SUFFICES ASSUME NEW r \in Releases, db.album[r] # NoRecord PROVE AlbumGood(r)' BY DEF AlbumInv
    <2>1. AlbumGood(r) BY DEF AlbumInv
    <2>2. \A e \in Deleters : Unrefreshed(e, r) => Unrefreshed(e, r)' \/ HasSongs(db, r) = {} \/ AlbumEquals(db.album[r], Current(r))
        BY <1>3
    <2>3. \A e \in Deleters : deleter[e].at = "albums" => deleter'[e].at = "albums" BY DEF GCSteps
    <2>4. QED BY <1>2, <2>1, <2>2, <2>3, AlbumStays
<1>7. ReadInv'
    <2>1. \A e \in Deleters : deleter'[e].at = "write" => \A r \in DOMAIN deleter'[e].read :
              r \in deleter'[e].albums /\ deleter'[e].read[r] = Current(r) /\ HasSongs(db, r) # {}
        BY DEF ReadInv
    <2>2. QED BY <1>1, <2>1 DEF ReadInv
<1>8. CountInv' BY DEF CountInv, ToCount
<1>9. \A p \in Performers : Hidden(p) => Hidden(p)' BY <1>4 DEF Hidden, SongsBy
<1>10. ShownInv' BY <1>9 DEF ShownInv, Opened
<1>11. MarkInv'
    <2>1. \A e \in Deleters : deleter[e].at \in GCSteps => deleter'[e].at = deleter[e].at OBVIOUS
    <2>2. {"artists", "missing", "albumMarks"} \subseteq GCSteps BY DEF GCSteps
    <2>3. QED BY <2>1, <2>2 DEF MarkInv
<1>12. QED BY <1>5, <1>6, <1>7, <1>8, <1>10, <1>11

LEMMA getAffectedAlbumIDs_Sound == ASSUME CatalogueTypeOK, Sound, NEW d \in Deleters, getAffectedAlbumIDs(d) PROVE Sound'
<1>1. /\ deleter[d].at = "idle" /\ deleter'[d].at = "delete" /\ \A e \in Deleters : e # d => deleter'[e] = deleter[e]
      /\ db' = db /\ scanning' = scanning
    BY DEF getAffectedAlbumIDs, At, Quiet, CatalogueTypeOK
<1>2. \A r : ~Unrefreshed(d, r) BY <1>1 DEF Unrefreshed, GCSteps
<1>3. \A p : ~Hides(d, p) BY <1>1 DEF Hides, GCSteps
<1>4. QED BY <1>1, <1>2, <1>3, DeleterOnly DEF GCSteps

LEMMA DeleteAllMissing_Sound ==
    ASSUME CatalogueTypeOK, Sound, NEW d \in Deleters, DeleteAllMissing(d), ~staleRead'
    PROVE  Sound'
<1> USE DEF Sound
<1> DEFINE gone == Missing
<1>1. /\ deleter[d].at = "delete" /\ Goes(d, "albums") /\ scanning' = scanning
      /\ db' = [db EXCEPT !.song = [t \in Tracks |-> IF t \in gone THEN NoRecord ELSE @[t]], !.credit = @ \ gone]
      /\ ~Overtaken(gone) /\ \A t \in gone : ReleaseOf[t] \in deleter[d].albums
    BY DEF DeleteAllMissing, At
<1>2. PICK lost \in SUBSET Tracks : lost = gone /\ lost = {t \in Tracks : db.song[t] = "missing"} BY DEF Missing
<1>3. NoRecord \notin {"there", "shown", "missing"} BY CatalogueAssumption DEF CatalogueAssumption
<1>4. /\ \A t \in Tracks : db'.song[t] = IF t \in lost THEN NoRecord ELSE db.song[t]
      /\ db'.credit = db.credit \ lost /\ db'.album = db.album /\ db'.artist = db.artist /\ db'.listed = db.listed
      /\ db'.marks = db.marks /\ db'.playlist = db.playlist /\ db'.touched = db.touched /\ db'.fresh = db.fresh
    BY <1>1, <1>2, CreditFacts DEF Tables
<1>5. /\ deleter'[d].at = "albums" /\ deleter'[d].albums = deleter[d].albums /\ \A e \in Deleters : e # d => deleter'[e] = deleter[e]
    BY <1>1, DeleterSets DEF Goes
<1>6. /\ \A t \in lost : scanning.at = "put" => scanning.read[1] # ReleaseOf[t]
      /\ \A t \in lost, e \in Deleters : deleter[e].at = "write" => ReleaseOf[t] \notin deleter[e].albums
      /\ \A t \in lost : ReleaseOf[t] \in deleter[d].albums
    BY <1>1, <1>2 DEF Overtaken
<1> HIDE DEF gone
<1>7. \A r : HasSongs(db, r)' = HasSongs(db, r) \ lost BY <1>3, <1>4 DEF HasSongs
<1>8. \A r : (\A t \in lost : ReleaseOf[t] # r) => HasSongs(db, r)' = HasSongs(db, r) /\ Current(r)' = Current(r)
    BY <1>4, SameSongs
<1>9. TouchInv' BY <1>1, <1>4 DEF TouchInv
<1>10. RowInv' BY <1>3, <1>4, CreditFacts DEF RowInv
<1>11. \A e \in Deleters : deleter[e].at # "delete" => deleter'[e] = deleter[e] BY <1>1, <1>5
<1>12. AlbumInv'
    <2> SUFFICES ASSUME NEW r \in Releases, db.album[r] # NoRecord PROVE AlbumGood(r)' BY <1>4 DEF AlbumInv
    <2>1. AlbumGood(r) BY DEF AlbumInv
    <2>2. Pending(r)' <=> Pending(r) BY <1>1, <1>4 DEF Pending
    <2>3. \A e \in Deleters : Unrefreshed(e, r) => Unrefreshed(e, r)' BY <1>11 DEF Unrefreshed, GCSteps
    <2>4. CASE \A t \in lost : ReleaseOf[t] # r
        <3>1. \A t \in Tracks : ReleaseOf[t] = r => db'.song[t] = db.song[t] BY <1>4, <2>4
        <3>2. QED BY <1>4, <1>11, <2>1, <2>2, <2>3, <3>1, AlbumStays
    <2>5. CASE \E t \in lost : ReleaseOf[t] = r
        <3>1. Unrefreshed(d, r)' BY <1>5, <1>6, <2>5 DEF Unrefreshed, GCSteps
        <3>2. \A t \in HasSongs(db, r)' : db.song[t] # "missing" BY <1>2, <1>7, SongSets, CreditFacts
        <3>3. ~Pending(r) /\ db.album[r].missing => HasSongs(db, r)' = {} BY <1>7, <2>1, <3>2 DEF AlbumGood
        <3>4. QED BY <1>4, <1>5, <1>7, <2>1, <2>2, <3>1, <3>3 DEF AlbumGood
    <2>6. QED BY <2>4, <2>5
<1>13. ReadInv'
    <2>1. scanning.at = "put" => \A t \in lost : ReleaseOf[t] # scanning.read[1] BY <1>6
    <2>2. (scanning.at = "put" => scanning.read[2] = Current(scanning.read[1]) /\ HasSongs(db, scanning.read[1]) # {})'
        <3> SUFFICES ASSUME scanning.at = "put"
                     PROVE  (scanning.read[2] = Current(scanning.read[1]) /\ HasSongs(db, scanning.read[1]) # {})'
            BY <1>1
        <3> PICK r : r = scanning.read[1] OBVIOUS
        <3>1. HasSongs(db, r)' = HasSongs(db, r) /\ Current(r)' = Current(r) BY <1>8, <2>1
        <3>2. scanning.read[2] = Current(r) /\ HasSongs(db, r) # {} BY DEF ReadInv
        <3>3. scanning'.read[2] = Current(r)' /\ HasSongs(db, r)' # {} BY <1>1, <3>1, <3>2
        <3>4. QED BY <1>1, <3>3
    <2>3. ASSUME NEW e \in Deleters, deleter'[e].at = "write", NEW r \in DOMAIN deleter'[e].read
          PROVE  (r \in deleter[e].albums /\ deleter[e].read[r] = Current(r) /\ HasSongs(db, r) # {})'
        <3>1. deleter'[e] = deleter[e] BY <1>5, <2>3
        <3>2. r \in deleter[e].albums /\ deleter[e].read[r] = Current(r) /\ HasSongs(db, r) # {} BY <2>3, <3>1 DEF ReadInv
        <3>3. HasSongs(db, r)' = HasSongs(db, r) /\ Current(r)' = Current(r) BY <1>6, <1>8, <2>3, <3>1, <3>2
        <3>4. QED BY <3>1, <3>2, <3>3
    <2>4. QED BY <2>2, <2>3 DEF ReadInv
<1>14. CountInv' BY <1>1, <1>4, <1>5, <1>11 DEF CountInv, ToCount
<1>15. \A p \in Performers : Hidden(p)' BY <1>5 DEF Hidden, Hides, GCSteps
<1>16. \A t \in Tracks : db'.song[t] = "there" => db.song[t] = "there" BY <1>3, <1>4
<1>17. ShownInv' BY <1>1, <1>4, <1>15, <1>16 DEF ShownInv, Opened
<1>18. MarkInv' BY <1>1, <1>4, <1>5 DEF MarkInv, GCSteps
<1>19. QED BY <1>9, <1>10, <1>12, <1>13, <1>14, <1>17, <1>18

LEMMA refreshStatsAsync_Sound == ASSUME CatalogueTypeOK, Sound, NEW d \in Deleters, refreshStatsAsync(d) PROVE Sound'
<1> USE DEF Sound
<1>0. NoRecord \notin {"missing", "shown", "there"} /\ NoRecord \notin Nat BY CatalogueAssumption DEF CatalogueAssumption
<1>1. CASE /\ At(d, "list")
           /\ deleter' = [deleter EXCEPT ![d].ids = {p \in Performers : db.artist[p] # NoRecord},
                                         ![d].at = IF \E p \in Performers : db.artist[p] # NoRecord THEN "batch" ELSE "read"]
           /\ UNCHANGED <<db, disk, scanning, fileChanges, dbErrors, early, staleRead>>
    <2> DEFINE all == {p \in Performers : db.artist[p] # NoRecord}
               next == IF \E p \in Performers : db.artist[p] # NoRecord THEN "batch" ELSE "read"
               w == [deleter[d] EXCEPT !.ids = all, !.at = next]
    <2>1. deleter[d] \in Work(DeleterReads) BY DEF CatalogueTypeOK
    <2>2. w.at = next /\ w.albums = deleter[d].albums /\ w.ids = all BY <2>1 DEF Work
    <2>3. deleter' = [deleter EXCEPT ![d] = w] BY <1>1 DEF CatalogueTypeOK
    <2> HIDE DEF w
    <2>4. /\ deleter'[d].at = next /\ deleter'[d].albums = deleter[d].albums /\ deleter'[d].ids = all
          /\ \A e \in Deleters : e # d => deleter'[e] = deleter[e]
        BY <2>2, <2>3 DEF CatalogueTypeOK
    <2>5. deleter[d].at = "list" /\ db' = db /\ scanning' = scanning BY <1>1 DEF At
    <2>6. \A r : Unrefreshed(d, r) => Unrefreshed(d, r)' BY <2>4, <2>5 DEF Unrefreshed
    <2>7. \A p \in Performers : Hides(d, p)' \/ db.artist[p] = NoRecord BY <2>4, <2>5 DEF Hides
    <2>8. QED BY <2>4, <2>5, <2>6, <2>7, DeleterOnly DEF GCSteps
<1>2. CASE /\ At(d, "batch")
           /\ db' = UpdateStats(db, deleter[d].ids)
           /\ Goes(d, "cleanup")
           /\ UNCHANGED <<disk, scanning, fileChanges, dbErrors, early, staleRead>>
    <2>1. /\ db' \in Tables
          /\ \A p \in Performers :
                db'.listed[p] = IF p \in deleter[d].ids /\ db.listed[p] # NoRecord THEN Cardinality(SongsBy(db, p)) ELSE db.listed[p]
          /\ db'.song = db.song /\ db'.credit = db.credit /\ db'.album = db.album /\ db'.artist = db.artist
          /\ db'.marks = db.marks /\ db'.playlist = db.playlist /\ db'.touched = db.touched /\ db'.fresh = db.fresh
        BY <1>2, CreditFacts, UpdateStats_Facts
    <2>2. /\ deleter'[d].at = "cleanup" /\ deleter'[d].albums = deleter[d].albums /\ \A e \in Deleters : e # d => deleter'[e] = deleter[e]
          /\ deleter[d].at = "batch" /\ scanning' = scanning
        BY <1>2, DeleterSets DEF Goes, At
    <2>3. \A p \in Performers : db.artist[p] # NoRecord => p \in deleter[d].ids BY <2>2 DEF CountInv
    <2>4. TouchInv' /\ RowInv' BY <2>1, <2>2 DEF TouchInv, RowInv
    <2>5. \A r : \A e \in Deleters : Unrefreshed(e, r) => Unrefreshed(e, r)' BY <2>2 DEF Unrefreshed
    <2>6. \A e \in Deleters : deleter'[e].at \in GCSteps \cup {"write", "albums", "batch"} => deleter'[e] = deleter[e] BY <2>2 DEF GCSteps
    <2>7. \A e \in Deleters : deleter[e].at \in GCSteps => deleter'[e] = deleter[e] BY <2>2 DEF GCSteps
    <2>8. AlbumInv' BY <2>1, <2>2, <2>5, AlbumsStay DEF Pending
    <2>9. ReadInv' BY <2>1, <2>2, <2>6, ReadsStay
    <2>10. \A t \in db.credit : db'.listed[PerformerOf[t]] \in Nat \ {0}
        <3> TAKE t \in db.credit
        <3>1. PerformerOf[t] \in Performers /\ Cardinality(SongsBy(db, PerformerOf[t])) \in Nat \ {0} BY CreditFacts
        <3>2. PerformerOf[t] \in deleter[d].ids BY <2>3, <3>1 DEF RowInv
        <3>3. db.listed[PerformerOf[t]] # NoRecord BY <1>0 DEF CountInv, ToCount
        <3>4. QED BY <2>1, <3>1, <3>2, <3>3
    <2>11. CountInv' BY <2>1, <2>6, <2>10 DEF CountInv
    <2>12. \A p \in Performers : Hidden(p)'
        <3> TAKE p \in Performers
        <3>1. SongsBy(db, p)' = SongsBy(db, p) BY <2>1 DEF SongsBy
        <3>2. SongsBy(db, p) = {} /\ db.artist[p] # NoRecord => db'.listed[p] \in {0, NoRecord} BY <2>1, <2>3, CreditFacts
        <3>3. QED BY <2>1, <2>2, <3>1, <3>2 DEF Hidden, Hides
    <2>13. ShownInv' BY <2>1, <2>2, <2>12 DEF ShownInv, Opened
    <2>14. MarkInv' BY <2>1, <2>7 DEF MarkInv, GCSteps
    <2>15. QED BY <2>4, <2>8, <2>9, <2>11, <2>13, <2>14
<1>3. CASE /\ At(d, "cleanup")
           /\ db' = CleanupEntries(db, TRUE)
           /\ Goes(d, "read")
           /\ UNCHANGED <<disk, scanning, fileChanges, dbErrors, early, staleRead>>
    <2>1. /\ db' \in Tables
          /\ \A p \in Performers : db'.listed[p] = IF db.listed[p] = 0 THEN NoRecord ELSE db.listed[p]
          /\ \A p \in Performers : \/ db'.artist[p] = db.artist[p] /\ (db.artist[p] = NoRecord \/ db'.listed[p] # NoRecord)
                                   \/ db'.artist[p] = "missing" /\ db.artist[p] # NoRecord /\ db'.listed[p] = NoRecord
          /\ db'.song = db.song /\ db'.credit = db.credit /\ db'.album = db.album
          /\ db'.marks = db.marks /\ db'.playlist = db.playlist /\ db'.touched = db.touched /\ db'.fresh = db.fresh
        BY <1>3, CreditFacts, CleanupEntries_Facts
    <2>2. /\ deleter'[d].at = "read" /\ deleter'[d].albums = deleter[d].albums /\ \A e \in Deleters : e # d => deleter'[e] = deleter[e]
          /\ deleter[d].at = "cleanup" /\ scanning' = scanning
        BY <1>3, DeleterSets DEF Goes, At
    <2>3. \A e \in Deleters : deleter'[e].at # "read" => deleter'[e] = deleter[e] BY <2>2
    <2>4. \A e \in Deleters : deleter[e].at # "cleanup" => deleter'[e] = deleter[e] BY <2>2
    <2>5. TouchInv' BY <2>1, <2>2 DEF TouchInv
    <2>6. RowInv' BY <1>0, <2>1, CreditFacts DEF RowInv
    <2>7. \A r : \A e \in Deleters : Unrefreshed(e, r) => Unrefreshed(e, r)' BY <2>2 DEF Unrefreshed
    <2>8. AlbumInv' BY <2>1, <2>2, <2>4, <2>7, AlbumsStay DEF Pending
    <2>9. ReadInv' BY <2>1, <2>2, <2>3, ReadsStay
    <2>10. \A t \in db.credit : PerformerOf[t] \in Performers /\ db.listed[PerformerOf[t]] \in Nat \ {0} /\ db'.listed[PerformerOf[t]] \in Nat \ {0}
        BY <2>1, <2>2, CreditFacts DEF CountInv
    <2>11. \A p \in Performers : db'.artist[p] # NoRecord => db.artist[p] # NoRecord BY <1>0, <2>1
    <2>12. CountInv' BY <2>1, <2>3, <2>10, <2>11 DEF CountInv
    <2>13. \A p \in Performers, e \in Deleters : e # d /\ Hides(e, p) => Hides(e, p)' BY <2>1, <2>2 DEF Hides
    <2>14. \A p \in Performers : SongsBy(db, p)' = SongsBy(db, p) BY <2>1 DEF SongsBy
    <2>15. \A p \in Performers : db'.artist[p] = "shown" => Hidden(p)'
        <3> SUFFICES ASSUME NEW p \in Performers, db'.artist[p] = "shown" PROVE Hidden(p)' OBVIOUS
        <3>1. db.artist[p] = "shown" /\ db'.listed[p] # NoRecord BY <1>0, <2>1
        <3>2. db.listed[p] \notin {0, NoRecord} BY <2>1, <3>1
        <3>3. ~Hides(d, p) BY <2>2, <3>2 DEF Hides, GCSteps
        <3>4. Hidden(p) BY <3>1 DEF ShownInv
        <3>5. QED BY <1>0, <2>13, <2>14, <3>1, <3>3, <3>4 DEF Hidden
    <2>16. \A e \in Deleters : deleter'[e].at = "cleanup" => \A p \in Performers : Hidden(p)'
        <3> SUFFICES ASSUME NEW e \in Deleters, deleter'[e].at = "cleanup", NEW p \in Performers PROVE Hidden(p)' OBVIOUS
        <3>1. e # d /\ deleter[e].at = "cleanup" BY <2>2, <2>3
        <3>2. Hidden(p) BY <3>1 DEF ShownInv
        <3>3. Hides(d, p) => Hides(e, p) BY <2>2, <3>1 DEF Hides, GCSteps
        <3>4. QED BY <2>11, <2>13, <2>14, <3>1, <3>2, <3>3 DEF Hidden
    <2>17. \A t \in Tracks : ~Opened /\ db'.song[t] = "there" => db'.artist[PerformerOf[t]] = "shown"
        <3> SUFFICES ASSUME NEW t \in Tracks, db.song[t] = "there", ~Opened PROVE db'.artist[PerformerOf[t]] = "shown" BY <2>1
        <3>1. t \in db.credit BY <1>0 DEF RowInv
        <3>2. db.artist[PerformerOf[t]] = "shown" BY DEF ShownInv
        <3>3. QED BY <1>0, <2>1, <2>10, <3>1, <3>2
    <2>18. ShownInv' BY <2>1, <2>2, <2>15, <2>16, <2>17 DEF ShownInv, Opened
    <2>19. MarkInv' BY <2>1, <2>4 DEF MarkInv, GCSteps
    <2>20. QED BY <2>5, <2>6, <2>8, <2>9, <2>12, <2>18, <2>19
<1>4. QED BY <1>1, <1>2, <1>3 DEF refreshStatsAsync

\* A statement of the clean-up keeps credits, and what it does to the artists
\* leaves those with songs alone.
LEMMA Collects ==
    ASSUME CatalogueTypeOK, Sound, NEW d \in Deleters, NEW step \in GCSteps, deleter[d].at = step,
           deleter'[d].at = GCNext[step], \A e \in Deleters : e # d => deleter'[e] = deleter[e], scanning' = scanning,
           db'.song = db.song, db'.touched = db.touched, db'.fresh = db.fresh, db'.credit = db.credit,
           RowInv', AlbumInv', MarkInv', \A t \in db.credit : db'.listed[PerformerOf[t]] = db.listed[PerformerOf[t]],
           \A p \in Performers : db'.artist[p] # NoRecord => db.artist[p] # NoRecord,
           \A t \in Tracks : ~Opened /\ db.song[t] = "there" => db'.artist[PerformerOf[t]] = "shown"
    PROVE  Sound'
<1> USE DEF Sound
<1>1. GCNext[step] \in GCSteps \cup {"list"} BY DEF GCNext, GCSteps
<1>2. \A e \in Deleters : deleter'[e].at \notin GCSteps \cup {"list"} => deleter'[e] = deleter[e] BY <1>1
<1>3. TouchInv' BY DEF TouchInv
<1>4. ReadInv' BY <1>2, ReadsStay DEF GCSteps
<1>5. \A t \in db.credit : PerformerOf[t] \in Performers BY CreditFacts
<1>6. CountInv' BY <1>2, <1>5 DEF CountInv, ToCount, GCSteps
<1>7. \A p \in Performers : Hidden(p)' BY <1>1 DEF Hidden, Hides
<1>8. ShownInv' BY <1>7 DEF ShownInv, Opened
<1>9. QED BY <1>3, <1>4, <1>6, <1>8

LEMMA CollectGarbage_Sound ==
    ASSUME CatalogueTypeOK, Sound, NEW d \in Deleters, CollectGarbage(d), ~early'
    PROVE  Sound'
<1> USE DEF Sound
<1>1. PICK step \in GCSteps :
        /\ At(d, step)
        /\ db' = GCStep(db, step)
        /\ Goes(d, GCNext[step])
        /\ early' = (early \/ (step = "artists" /\ scanning.at \in {"import", "albums", "put"}))
        /\ UNCHANGED <<disk, scanning, fileChanges, dbErrors, staleRead>>
    BY Zenon DEF CollectGarbage
<1>2. /\ deleter'[d].at = GCNext[step] /\ deleter'[d].albums = deleter[d].albums /\ \A e \in Deleters : e # d => deleter'[e] = deleter[e]
      /\ deleter[d].at = step /\ scanning' = scanning
    BY <1>1, DeleterSets DEF Goes, At
<1>3. NoRecord \notin {"shown", "missing", "there"} BY CatalogueAssumption DEF CatalogueAssumption
<1>4. db \in Tables BY CreditFacts
<1>5. GCNext[step] \in GCSteps \cup {"list"} BY DEF GCNext, GCSteps
<1>6. \A r : \A e \in Deleters : Unrefreshed(e, r) => Unrefreshed(e, r)' BY <1>2, <1>5 DEF Unrefreshed
<1>7. \A e \in Deleters : deleter[e].at # step => deleter'[e] = deleter[e] BY <1>2
<1>8. \A t \in db.credit : t \in Tracks /\ ReleaseOf[t] \in Releases /\ PerformerOf[t] \in Performers /\ t \in HasSongs(db, ReleaseOf[t])
    BY CreditFacts DEF RowInv, HasSongs
<1>9. \A t \in Tracks : db.song[t] = "there" => t \in db.credit BY <1>3 DEF RowInv
<1>10. \A r : ~Opened => ~Pending(r) BY DEF Opened, Pending
<1>11. \A t \in Tracks : ~Opened /\ db.song[t] = "there" => db.artist[PerformerOf[t]] = "shown" BY DEF ShownInv
<1>12. step # "albums" => \A e \in Deleters : deleter[e].at = "albums" => deleter'[e].at = "albums" BY <1>7
<1>13. CASE step = "albums"
    <2>1. db' = purgeEmptyAlbums(db) BY <1>1, <1>13 DEF GCStep
    <2>2. /\ db' \in Tables
          /\ \A r \in Releases : db'.album[r] = IF HasSongs(db, r) = {} THEN NoRecord ELSE db.album[r]
          /\ db'.song = db.song /\ db'.credit = db.credit /\ db'.artist = db.artist /\ db'.listed = db.listed
          /\ db'.marks = db.marks /\ db'.playlist = db.playlist /\ db'.touched = db.touched /\ db'.fresh = db.fresh
        BY <1>4, <2>1, purgeEmptyAlbums_Facts
    <2>3. RowInv' BY <1>8, <2>2 DEF RowInv
    <2>4. AlbumInv'
        <3> SUFFICES ASSUME NEW r \in Releases, db'.album[r] # NoRecord PROVE AlbumGood(r)' BY DEF AlbumInv
        <3>1. HasSongs(db, r) # {} /\ db'.album[r] = db.album[r] BY <2>2
        <3>2. AlbumGood(r) BY <3>1 DEF AlbumInv
        <3>3. Pending(r)' <=> Pending(r) BY <1>2, <2>2 DEF Pending
        <3>4. QED BY <1>6, <2>2, <3>1, <3>2, <3>3, AlbumStays
    <2>5. deleter'[d].at = "artists" BY <1>2, <1>13 DEF GCNext
    <2>6. MarkInv' BY <2>2, <2>5 DEF MarkInv, GCSteps
    <2>7. QED BY <1>2, <1>11, <2>2, <2>3, <2>4, <2>6, Collects
<1>14. CASE step = "artists"
    <2>1. db' = purgeEmptyArtists(db) /\ scanning.at \notin {"import", "albums", "put"} BY <1>1, <1>14 DEF GCStep
    <2>2. /\ db' \in Tables
          /\ \A p \in Performers : /\ db'.artist[p] = IF p \in Kept(db) THEN db.artist[p] ELSE NoRecord
                                   /\ db'.listed[p] = IF p \in Kept(db) THEN db.listed[p] ELSE NoRecord
          /\ db'.credit = {t \in db.credit : PerformerOf[t] \in Kept(db)}
          /\ db'.song = db.song /\ db'.album = db.album
          /\ db'.marks = db.marks /\ db'.playlist = db.playlist /\ db'.touched = db.touched /\ db'.fresh = db.fresh
        BY <1>4, <2>1, purgeEmptyArtists_Facts
    <2>3. ~Opened BY <2>1 DEF Opened
    <2>4. \A t \in db.credit : PerformerOf[t] \in Kept(db) BY <1>8, <1>10, <2>3, AlbumOfSong DEF Kept
    <2>5. db'.credit = db.credit BY <2>2, <2>4
    <2>6. RowInv' BY <1>8, <2>2, <2>4, <2>5 DEF RowInv
    <2>7. AlbumInv' BY <1>2, <1>6, <1>12, <1>14, <2>2, AlbumsStay DEF Pending
    <2>8. deleter'[d].at = "missing" BY <1>2, <1>14 DEF GCNext
    <2>9. MarkInv' BY <2>2, <2>8 DEF MarkInv, GCSteps
    <2>10. \A t \in db.credit : db'.listed[PerformerOf[t]] = db.listed[PerformerOf[t]] /\ db'.artist[PerformerOf[t]] = db.artist[PerformerOf[t]]
        BY <1>8, <2>2, <2>4
    <2>11. \A p \in Performers : db'.artist[p] # NoRecord => db.artist[p] # NoRecord BY <2>2
    <2>12. \A t \in Tracks : ~Opened /\ db.song[t] = "there" => db'.artist[PerformerOf[t]] = "shown" BY <1>9, <1>11, <2>10
    <2>13. QED BY <1>2, <2>2, <2>5, <2>6, <2>7, <2>9, <2>10, <2>11, <2>12, Collects
<1>15. CASE step = "missing"
    <2>1. db' = markMissing(db) BY <1>1, <1>15 DEF GCStep
    <2>2. /\ db' \in Tables
          /\ \A p \in Performers : db'.artist[p] = IF db.artist[p] = NoRecord THEN NoRecord ELSE IF p \in Heard(db) THEN "shown" ELSE "missing"
          /\ db'.song = db.song /\ db'.credit = db.credit /\ db'.album = db.album /\ db'.listed = db.listed
          /\ db'.marks = db.marks /\ db'.playlist = db.playlist /\ db'.touched = db.touched /\ db'.fresh = db.fresh
        BY <1>4, <2>1, markMissing_Facts
    <2>3. RowInv' BY <1>3, <1>8, <2>2 DEF RowInv
    <2>4. AlbumInv' BY <1>2, <1>6, <1>12, <1>15, <2>2, AlbumsStay DEF Pending
    <2>5. deleter'[d].at = "albumMarks" BY <1>2, <1>15 DEF GCNext
    <2>6. MarkInv' BY <2>2, <2>5 DEF MarkInv, GCSteps
    <2>7. \A t \in Tracks : ~Opened /\ db.song[t] = "there" => db'.artist[PerformerOf[t]] = "shown"
        <3> SUFFICES ASSUME NEW t \in Tracks, ~Opened, db.song[t] = "there" PROVE db'.artist[PerformerOf[t]] = "shown" OBVIOUS
        <3>1. t \in db.credit /\ PerformerOf[t] \in Performers BY <1>8, <1>9
        <3>2. PerformerOf[t] \in Heard(db) BY <1>10, <3>1, AlbumOfSong DEF Heard
        <3>3. QED BY <1>3, <1>11, <2>2, <3>1, <3>2
    <2>8. \A p \in Performers : db'.artist[p] # NoRecord => db.artist[p] # NoRecord BY <2>2
    <2>9. QED BY <1>2, <2>2, <2>3, <2>4, <2>6, <2>7, <2>8, Collects
<1>16. CASE step \in {"albumMarks", "artistMarks", "songMarks", "playlists"}
    <2>1. /\ db'.song = db.song /\ db'.credit = db.credit /\ db'.album = db.album /\ db'.artist = db.artist /\ db'.listed = db.listed
          /\ db'.touched = db.touched /\ db'.fresh = db.fresh /\ db'.marks \subseteq db.marks /\ db'.playlist \subseteq db.playlist
          /\ step = "albumMarks" => db'.marks = {m \in db.marks : m \in DOMAIN db.album => db.album[m] # NoRecord}
          /\ step = "songMarks" => db'.marks = {m \in db.marks : m \in DOMAIN db.song => db.song[m] # NoRecord}
          /\ step = "playlists" => db'.playlist = {t \in db.playlist : db.song[t] # NoRecord}
        <3>1. CASE step = "albumMarks"
            <4>1. db' = cleanAnnotations(db, db.album) BY <1>1, <3>1 DEF GCStep
            <4>2. QED BY <1>4, <3>1, <4>1, cleanAnnotations_Facts
        <3>2. CASE step = "artistMarks"
            <4>1. db' = cleanAnnotations(db, db.artist) BY <1>1, <3>2 DEF GCStep
            <4>2. QED BY <1>4, <3>2, <4>1, cleanAnnotations_Facts
        <3>3. CASE step = "songMarks"
            <4>1. db' = cleanAnnotations(db, db.song) BY <1>1, <3>3 DEF GCStep
            <4>2. QED BY <1>4, <3>3, <4>1, cleanAnnotations_Facts
        <3>4. CASE step = "playlists"
            <4>1. db' = removeOrphans(db) BY <1>1, <3>4 DEF GCStep
            <4>2. QED BY <1>4, <3>4, <4>1, removeOrphans_Facts
        <3>5. QED BY <1>16, <3>1, <3>2, <3>3, <3>4
    <2>2. DOMAIN db.album = Releases /\ DOMAIN db.song = Tracks BY <1>4 DEF Tables
    <2>3. RowInv' BY <2>1 DEF RowInv
    <2>4. AlbumInv' BY <1>2, <1>6, <1>12, <1>16, <2>1, AlbumsStay DEF Pending
    <2>5. MarkInv'
        <3>1. \A m \in db'.marks \cap Tracks : db'.song[m] = NoRecord => \E e \in Deleters : deleter'[e].at \in GCSteps \ {"playlists"}
            <4> SUFFICES ASSUME NEW m \in db'.marks \cap Tracks, db.song[m] = NoRecord
                         PROVE  \E e \in Deleters : deleter'[e].at \in GCSteps \ {"playlists"}
                BY <2>1
            <4>1. PICK e \in Deleters : deleter[e].at \in GCSteps \ {"playlists"} BY <2>1 DEF MarkInv
            <4>2. CASE e # d BY <1>2, <4>1, <4>2
            <4>3. CASE e = d
                <5>1. step \in {"albumMarks", "artistMarks"} BY <1>2, <1>16, <2>1, <2>2, <4>1, <4>3
                <5>2. deleter'[d].at \in {"artistMarks", "songMarks"} BY <1>2, <5>1 DEF GCNext
                <5>3. QED BY <5>2 DEF GCSteps
            <4>4. QED BY <4>2, <4>3
        <3>2. \A m \in db'.marks \cap Releases : db'.album[m] = NoRecord =>
                  \E e \in Deleters : deleter'[e].at \in {"artists", "missing", "albumMarks"}
            <4> SUFFICES ASSUME NEW m \in db'.marks \cap Releases, db.album[m] = NoRecord
                         PROVE  \E e \in Deleters : deleter'[e].at \in {"artists", "missing", "albumMarks"}
                BY <2>1
            <4>1. PICK e \in Deleters : deleter[e].at \in {"artists", "missing", "albumMarks"} BY <2>1 DEF MarkInv
            <4>2. step # "albumMarks" BY <2>1, <2>2
            <4>3. QED BY <1>2, <1>16, <4>1, <4>2
        <3>3. \A t \in db'.playlist : db'.song[t] = NoRecord => \E e \in Deleters : deleter'[e].at \in GCSteps
            <4> SUFFICES ASSUME NEW t \in db'.playlist, db.song[t] = NoRecord
                         PROVE  \E e \in Deleters : deleter'[e].at \in GCSteps
                BY <2>1
            <4>1. PICK e \in Deleters : deleter[e].at \in GCSteps BY <2>1 DEF MarkInv
            <4>2. step \in {"albumMarks", "artistMarks", "songMarks"} BY <1>16, <2>1
            <4>3. GCNext[step] \in GCSteps BY <4>2 DEF GCNext, GCSteps
            <4>4. QED BY <1>2, <4>1, <4>3
        <3>4. QED BY <3>1, <3>2, <3>3 DEF MarkInv
    <2>6. QED BY <1>2, <1>11, <2>1, <2>3, <2>4, <2>5, Collects
<1>17. QED BY <1>13, <1>14, <1>15, <1>16 DEF GCSteps

LEMMA refreshAlbums_Sound == ASSUME CatalogueTypeOK, Sound, NEW d \in Deleters, refreshAlbums(d) PROVE Sound'
<1> USE DEF Sound
<1> DEFINE stale == {r \in deleter[d].albums : IsStale(db, r)}
           found == [r \in stale |-> ToAlbum(db, HasSongs(db, r))]
<1>1. CASE /\ At(d, "read")
           /\ deleter' = [deleter EXCEPT ![d].at = "write", ![d].read = found]
           /\ UNCHANGED <<db, disk, scanning, fileChanges, dbErrors, early, staleRead>>
    <2> DEFINE w == [deleter[d] EXCEPT !.at = "write", !.read = found]
    <2>1. w.at = "write" /\ w.albums = deleter[d].albums /\ w.read = found BY DEF CatalogueTypeOK, Work
    <2>2. deleter' = [deleter EXCEPT ![d] = w] BY <1>1 DEF CatalogueTypeOK
    <2> HIDE DEF w
    <2>3. deleter'[d] = w /\ \A e \in Deleters : e # d => deleter'[e] = deleter[e] BY <2>2 DEF CatalogueTypeOK
    <2>4. DOMAIN found = stale /\ \A r \in stale : found[r] = Current(r) BY DEF Current
    <2>5. \A r \in stale : r \in deleter[d].albums /\ HasSongs(db, r) # {} BY DEF IsStale
    <2>6. deleter[d].at = "read" /\ db' = db /\ scanning' = scanning BY <1>1 DEF At
    <2>7. \A r \in Releases : Unrefreshed(d, r) /\ db.album[r] # NoRecord =>
              r \in stale \/ HasSongs(db, r) = {} \/ AlbumEquals(db.album[r], Current(r))
        BY DEF Unrefreshed, IsStale, Current
    <2> HIDE DEF stale, found
    <2>8. \A r \in Releases : Unrefreshed(d, r) /\ db.album[r] # NoRecord =>
              Unrefreshed(d, r)' \/ HasSongs(db, r) = {} \/ AlbumEquals(db.album[r], Current(r))
        BY <2>1, <2>3, <2>4, <2>5, <2>7 DEF Unrefreshed
    <2>9. \A p : ~Hides(d, p) BY <2>6 DEF Hides, GCSteps
    <2>10. \A r \in DOMAIN deleter'[d].read : r \in deleter'[d].albums /\ deleter'[d].read[r] = Current(r) /\ HasSongs(db, r) # {}
        BY <2>1, <2>3, <2>4, <2>5
    <2>11. QED BY <2>1, <2>3, <2>6, <2>8, <2>9, <2>10, DeleterOnly DEF GCSteps
<1>2. CASE /\ At(d, "write")
           /\ db' = [db EXCEPT !.album = [r \in Releases |->
                        IF r \in DOMAIN deleter[d].read THEN PutAlbum(db, r, deleter[d].read[r]).album[r] ELSE @[r]]]
           /\ deleter' = [deleter EXCEPT ![d] = [Quiet EXCEPT !.at = "done"]]
           /\ UNCHANGED <<disk, scanning, fileChanges, dbErrors, early, staleRead>>
    <2> PICK copies : copies = deleter[d].read OBVIOUS
    <2> DEFINE albums == [r \in Releases |-> IF r \in DOMAIN copies THEN PutAlbum(db, r, copies[r]).album[r] ELSE db.album[r]]
    <2>1. /\ deleter[d].at = "write" /\ deleter'[d].at = "done" /\ \A e \in Deleters : e # d => deleter'[e] = deleter[e]
          /\ scanning' = scanning
        BY <1>2 DEF At, Quiet, CatalogueTypeOK
    <2>2. db \in Tables BY CreditFacts
    <2>3. \A r \in DOMAIN copies : copies[r] = Current(r) /\ HasSongs(db, r) # {} BY <2>1 DEF ReadInv
    <2>4. \A r : Current(r) \in AlbumRow BY Current_Facts
    <2>5. \A r \in Releases : r \in DOMAIN copies =>
              /\ albums[r] \in AlbumRow /\ albums[r].songs = Current(r).songs /\ albums[r].missing = Current(r).missing
              /\ albums[r].artists = {p \in Current(r).artists : db.artist[p] # NoRecord}
        BY <2>2, <2>3, <2>4, PutAlbum_Facts
    <2>6. \A r \in Releases : r \notin DOMAIN copies => albums[r] = db.album[r] OBVIOUS
    <2>7. db' = [db EXCEPT !.album = albums] BY <1>2 DEF Tables
    <2>8. albums \in [Releases -> AlbumRow \cup {NoRecord}] BY <2>2, <2>5, <2>6 DEF Tables
    <2> HIDE DEF albums
    <2>9. /\ db' \in Tables /\ db'.album = albums
          /\ db'.song = db.song /\ db'.credit = db.credit /\ db'.artist = db.artist /\ db'.listed = db.listed
          /\ db'.marks = db.marks /\ db'.playlist = db.playlist /\ db'.touched = db.touched /\ db'.fresh = db.fresh
        BY <2>2, <2>7, <2>8 DEF Tables
    <2>10. \A r \in Releases : r \in DOMAIN copies => db'.album[r] # NoRecord /\ AlbumGood(r)'
        BY <2>3, <2>5, <2>9, AlbumWritten
    <2>11. \A r \in Releases : db'.album[r] = NoRecord => db.album[r] = NoRecord BY <2>6, <2>9, <2>10
    <2>12. \A e \in Deleters : deleter'[e].at # "done" => deleter'[e] = deleter[e] BY <2>1
    <2>13. \A e \in Deleters : deleter[e].at # "write" => deleter'[e] = deleter[e] BY <2>1
    <2>14. TouchInv' BY <2>1, <2>9 DEF TouchInv
    <2>15. RowInv' BY <2>9, <2>11, CreditFacts DEF RowInv
    <2>16. AlbumInv'
        <3> SUFFICES ASSUME NEW r \in Releases, db'.album[r] # NoRecord PROVE AlbumGood(r)' BY DEF AlbumInv
        <3>1. CASE r \in DOMAIN copies BY <2>10, <3>1
        <3>2. CASE r \notin DOMAIN copies
            <4>1. db'.album[r] = db.album[r] /\ AlbumGood(r) BY <2>6, <2>9, <3>2 DEF AlbumInv
            <4>2. \A e \in Deleters : Unrefreshed(e, r) => Unrefreshed(e, r)' BY <2>1, <3>2 DEF Unrefreshed, GCSteps
            <4>3. Pending(r)' <=> Pending(r) BY <2>1, <2>9 DEF Pending
            <4>4. QED BY <2>9, <2>13, <4>1, <4>2, <4>3, AlbumStays
        <3>3. QED BY <3>1, <3>2
    <2>17. ReadInv' BY <2>1, <2>9, <2>12, ReadsStay
    <2>18. CountInv' BY <2>1, <2>9, <2>12 DEF CountInv, ToCount
    <2>19. \A p \in Performers, e \in Deleters : Hides(e, p) => Hides(e, p)' BY <2>9, <2>13 DEF Hides, GCSteps
    <2>20. \A p \in Performers : Hidden(p) => Hidden(p)' BY <2>9, <2>19 DEF Hidden, SongsBy
    <2>21. ShownInv' BY <2>1, <2>9, <2>12, <2>20 DEF ShownInv, Opened
    <2>22. MarkInv' BY <2>9, <2>11, <2>13 DEF MarkInv, GCSteps
    <2>23. QED BY <2>14, <2>15, <2>16, <2>17, <2>18, <2>21, <2>22
<1>3. QED BY <1>1, <1>2 DEF refreshAlbums

LEMMA Mark_Sound == ASSUME CatalogueTypeOK, Sound, NEW m \in Tracks \cup Releases, Mark(m) PROVE Sound'
<1> USE DEF Sound
<1>1. deleter' = deleter /\ scanning' = scanning BY DEF Mark
<1>2. NoRecord # "there" /\ db \in Tables BY CatalogueAssumption, CreditFacts DEF CatalogueAssumption
<1>3. /\ db'.song = db.song /\ db'.credit = db.credit /\ db'.album = db.album /\ db'.artist = db.artist /\ db'.listed = db.listed
      /\ db'.touched = db.touched /\ db'.fresh = db.fresh
      /\ db'.marks = db.marks \cup {m}
      /\ \/ m \in Tracks /\ db.song[m] = "there" /\ db'.playlist = db.playlist \cup {m}
         \/ m \in Releases /\ db.album[m] # NoRecord /\ db'.playlist = db.playlist
    BY <1>2 DEF Mark, Tables
<1>4. TouchInv' /\ RowInv' BY <1>1, <1>3 DEF TouchInv, RowInv
<1>5. AlbumInv' BY <1>1, <1>3, AlbumsStay DEF Pending, Unrefreshed
<1>6. ReadInv' BY <1>1, <1>3, ReadsStay
<1>7. CountInv' BY <1>1, <1>3 DEF CountInv, ToCount
<1>8. \A p : Hidden(p)' = Hidden(p) BY <1>1, <1>3 DEF Hidden, Hides, SongsBy
<1>9. ShownInv' BY <1>1, <1>3, <1>8 DEF ShownInv, Opened
<1>10. m \in Tracks => m \notin Releases BY CatalogueAssumption DEF CatalogueAssumption
<1>11. MarkInv'
    <2>1. CASE m \in Tracks /\ db.song[m] = "there" /\ db'.playlist = db.playlist \cup {m}
        BY <1>1, <1>2, <1>3, <1>10, <2>1 DEF MarkInv
    <2>2. CASE m \in Releases /\ db.album[m] # NoRecord /\ db'.playlist = db.playlist
        BY <1>1, <1>2, <1>3, <1>10, <2>2 DEF MarkInv
    <2>3. QED BY <1>3, <2>1, <2>2
<1>12. QED BY <1>4, <1>5, <1>6, <1>7, <1>9, <1>11

LEMMA Same_Sound == ASSUME Sound, UNCHANGED <<db, scanning, deleter>> PROVE Sound'
<1>1. \A r : Pending(r)' = Pending(r) /\ HasSongs(db, r)' = HasSongs(db, r) /\ Current(r)' = Current(r) BY DEF Pending, HasSongs, Current
<1>2. \A r : \A d \in Deleters : Unrefreshed(d, r)' = Unrefreshed(d, r) BY DEF Unrefreshed
<1>3. \A p : Hidden(p)' = Hidden(p) /\ ToCount(p)' = ToCount(p) BY DEF Hidden, Hides, SongsBy, ToCount
<1>4. \A r : AlbumGood(r) => AlbumGood(r)' BY <1>1, <1>2 DEF AlbumGood
<1>5. TouchInv' /\ RowInv' /\ AlbumInv' BY <1>4 DEF Sound, TouchInv, RowInv, AlbumInv
<1>6. ReadInv' /\ CountInv' BY <1>1, <1>3 DEF Sound, ReadInv, CountInv
<1>7. ShownInv' /\ MarkInv' BY <1>3 DEF Sound, ShownInv, MarkInv, Opened
<1>8. QED BY <1>5, <1>6, <1>7 DEF Sound

-------------------------------------------------------------------------------

LEMMA Tables_Type == ASSUME CatalogueTypeOK, CatalogueNext PROVE db' \in Tables
<1>1. db \in Tables BY DEF CatalogueTypeOK
<1>2. ASSUME db' = db PROVE db' \in Tables BY <1>1, <1>2
<1>3. ASSUME NEW t \in Tracks, Import(t) PROVE db' \in Tables BY <1>3, Import_Facts
<1>4. ASSUME NEW t \in Tracks, MarkMissing(t) PROVE db' \in Tables
    <2> DEFINE songs == [db.song EXCEPT ![t] = "missing"]
               touches == db.touched \cup {ReleaseOf[t]}
    <2>1. songs \in [Tracks -> {"there", "missing", NoRecord}] /\ touches \subseteq Releases BY <1>1, CreditFacts DEF Tables
    <2>2. db' = [db EXCEPT !.song = songs, !.touched = touches] BY <1>1, <1>4 DEF MarkMissing, Tables
    <2> HIDE DEF songs, touches
    <2>3. QED BY <1>1, <2>1, <2>2 DEF Tables
<1>5. ASSUME refreshAlbum PROVE db' \in Tables
    BY <1>1, <1>5, PutAlbum_Facts DEF refreshAlbum, CatalogueTypeOK
<1>6. ASSUME runGC PROVE db' \in Tables BY <1>1, <1>6, GC_Facts DEF runGC
<1>7. ASSUME runRefreshStats PROVE db' \in Tables
    <2>1. UpdateStats(db, scanning.ids) \in Tables BY <1>1, UpdateStats_Facts
    <2>2. CleanupEntries(db, FALSE) \in Tables BY <1>1, CleanupEntries_Facts
    <2>3. QED BY <1>1, <1>7, <2>1, <2>2 DEF runRefreshStats
<1>8. ASSUME FinishScan PROVE db' \in Tables BY <1>1, <1>8 DEF FinishScan, Tables
<1>9. ASSUME NEW d \in Deleters, DeleteAllMissing(d) PROVE db' \in Tables
    <2> DEFINE songs == [t \in Tracks |-> IF t \in Missing THEN NoRecord ELSE db.song[t]]
    <2>1. songs \in [Tracks -> {"there", "missing", NoRecord}] BY <1>1 DEF Tables
    <2>2. db' = [db EXCEPT !.song = songs, !.credit = @ \ Missing] BY <1>1, <1>9 DEF DeleteAllMissing, Tables
    <2> HIDE DEF songs
    <2>3. QED BY <1>1, <2>1, <2>2 DEF Tables
<1>10. ASSUME NEW d \in Deleters, CollectGarbage(d) PROVE db' \in Tables
    <2>1. PICK step \in GCSteps : db' = GCStep(db, step) BY <1>10, Zenon DEF CollectGarbage
    <2>2. CASE step \in {"albums", "artists", "missing", "playlists"}
        BY <1>1, <2>1, <2>2, purgeEmptyAlbums_Facts, purgeEmptyArtists_Facts, markMissing_Facts, removeOrphans_Facts DEF GCStep
    <2>3. CASE step \in {"albumMarks", "artistMarks", "songMarks"}
        <3>1. PICK table : db' = cleanAnnotations(db, table) BY <2>1, <2>3 DEF GCStep
        <3>2. QED BY <1>1, <3>1, cleanAnnotations_Facts
    <2>4. QED BY <2>2, <2>3 DEF GCSteps
<1>11. ASSUME NEW d \in Deleters, refreshStatsAsync(d) PROVE db' \in Tables
    <2>1. UpdateStats(db, deleter[d].ids) \in Tables BY <1>1, UpdateStats_Facts
    <2>2. CleanupEntries(db, TRUE) \in Tables BY <1>1, CleanupEntries_Facts
    <2>3. QED BY <1>1, <1>11, <2>1, <2>2 DEF refreshStatsAsync
<1>12. ASSUME NEW d \in Deleters, refreshAlbums(d) PROVE db' \in Tables
    <2> PICK copies : copies = deleter[d].read OBVIOUS
    <2> DEFINE albums == [r \in Releases |-> IF r \in DOMAIN copies THEN PutAlbum(db, r, copies[r]).album[r] ELSE db.album[r]]
    <2>1. \A r \in Releases : r \in DOMAIN copies => copies[r] \in AlbumRow
        <3>1. copies \in DeleterReads BY DEF CatalogueTypeOK, Work
        <3>2. CASE copies = <<>> BY <3>2
        <3>3. CASE copies \in UNION {[S -> AlbumRow] : S \in SUBSET Releases} BY <3>3
        <3>4. QED BY <3>1, <3>2, <3>3 DEF DeleterReads
    <2>2. albums \in [Releases -> AlbumRow \cup {NoRecord}] BY <1>1, <2>1, PutAlbum_Facts DEF Tables
    <2>3. CASE db' = db BY <1>1, <2>3
    <2>4. CASE db' = [db EXCEPT !.album = [r \in Releases |->
                        IF r \in DOMAIN deleter[d].read THEN PutAlbum(db, r, deleter[d].read[r]).album[r] ELSE @[r]]]
        <3>1. db' = [db EXCEPT !.album = albums] BY <1>1, <2>4 DEF Tables
        <3> HIDE DEF albums
        <3>2. QED BY <1>1, <2>2, <3>1 DEF Tables
    <2>5. QED BY <1>12, <2>3, <2>4 DEF refreshAlbums
<1>13. ASSUME NEW m \in Tracks \cup Releases, Mark(m) PROVE db' \in Tables
    <2> DEFINE marked == db.marks \cup {m}
               played == db.playlist \cup {m}
    <2>1. marked \subseteq Tracks \cup Releases /\ (m \in Tracks => played \subseteq Tracks) BY <1>1 DEF Tables
    <2>2. \/ m \in Tracks /\ db' = [db EXCEPT !.marks = marked, !.playlist = played]
          \/ db' = [db EXCEPT !.marks = marked]
        BY <1>1, <1>13 DEF Mark, Tables
    <2> HIDE DEF marked, played
    <2>3. QED BY <1>1, <2>1, <2>2 DEF Tables
<1>14. QED
    BY <1>2, <1>3, <1>4, <1>5, <1>6, <1>7, <1>8, <1>9, <1>10, <1>11, <1>12, <1>13
    DEF CatalogueNext, ScannerSteps, DeleterSteps, StartScan, EndImport, SkipFolder, filterUnmodified, getAffectedAlbumIDs,
        FileChanges, StatementFails

ScannerAt == {"idle", "import", "albums", "put", "list", "batch", "cleanup", "finish"}
Scannings == {s \in Work(ScanReads) : s.at \in ScannerAt /\ (s.at = "put" => s.read \in Releases \X AlbumRow)}

LEMMA Scanner_Type == ASSUME CatalogueTypeOK, CatalogueNext PROVE scanning' \in Scannings
<1>1. scanning \in Scannings /\ db \in Tables BY DEF CatalogueTypeOK, Scannings, ScannerAt
<1>2. Quiet \in Scannings BY DEF Quiet, Scannings, Work, ScanReads, ScannerAt
<1>3. ASSUME scanning' \in {scanning, Quiet} PROVE scanning' \in Scannings BY <1>1, <1>2, <1>3
<1>4. ASSUME NEW t \in Tracks, Processes(t) PROVE scanning' \in Scannings BY <1>1, <1>4 DEF Processes, Scannings, Work
<1>5. ASSUME StartScan PROVE scanning' \in Scannings BY <1>5 DEF StartScan, Quiet, Scannings, Work, ScanReads, ScannerAt
<1>6. ASSUME EndImport PROVE scanning' \in Scannings BY <1>1, <1>6 DEF EndImport, Tables, Scannings, Work, ScannerAt
<1>7. ASSUME NEW r \in Releases, filterUnmodified(r) PROVE scanning' \in Scannings
    <2> DEFINE a == ToAlbum(db, HasSongs(db, r))
    <2>1. a \in AlbumRow BY <1>1, Current_Facts DEF Current
    <2> HIDE DEF a
    <2> DEFINE rest == scanning.albums \ {r}
               read == <<r, a>>
    <2>2. rest \subseteq Releases /\ read \in Releases \X AlbumRow BY <1>1, <2>1 DEF Scannings, Work
    <2>3. /\ scanning.at = "albums"
          /\ \/ scanning' = [scanning EXCEPT !.albums = rest, !.at = "put", !.read = read]
             \/ scanning' = [scanning EXCEPT !.albums = rest]
        BY <1>1, <1>7 DEF filterUnmodified, a, Scannings, Work
    <2> HIDE DEF rest, read
    <2>4. read \in ScanReads BY <2>2 DEF ScanReads
    <2>5. CASE scanning' = [scanning EXCEPT !.albums = rest, !.at = "put", !.read = read]
        BY <1>1, <2>2, <2>4, <2>5 DEF Scannings, Work, ScannerAt
    <2>6. CASE scanning' = [scanning EXCEPT !.albums = rest] BY <1>1, <2>2, <2>3, <2>6 DEF Scannings, Work, ScannerAt
    <2>7. QED BY <2>3, <2>5, <2>6
<1>8. ASSUME refreshAlbum PROVE scanning' \in Scannings BY <1>1, <1>8 DEF refreshAlbum, Scannings, Work, ScanReads, ScannerAt
<1>9. ASSUME runGC PROVE scanning' \in Scannings BY <1>1, <1>9 DEF runGC, Scannings, Work, ScannerAt
<1>10. ASSUME runRefreshStats PROVE scanning' \in Scannings BY <1>1, <1>10 DEF runRefreshStats, Tables, Scannings, Work, ScannerAt
<1>11. QED
    BY <1>3, <1>4, <1>5, <1>6, <1>7, <1>8, <1>9, <1>10
    DEF CatalogueNext, ScannerSteps, DeleterSteps, Import, MarkMissing, SkipFolder, FinishScan, FileChanges, Mark, StatementFails,
        getAffectedAlbumIDs, DeleteAllMissing, CollectGarbage, refreshStatsAsync, refreshAlbums

LEMMA Deleter_Type == ASSUME CatalogueTypeOK, CatalogueNext PROVE deleter' \in [Deleters -> Work(DeleterReads)]
<1> DEFINE Steps == {"idle", "import", "albums", "put", "list", "batch", "cleanup", "finish", "delete", "artists", "missing",
                     "albumMarks", "artistMarks", "songMarks", "playlists", "read", "write", "done"}
<1>1. deleter \in [Deleters -> Work(DeleterReads)] BY DEF CatalogueTypeOK
<1>2. ASSUME NEW d \in Deleters, NEW w \in Work(DeleterReads), deleter' = [deleter EXCEPT ![d] = w]
      PROVE  deleter' \in [Deleters -> Work(DeleterReads)]
    BY <1>1, <1>2
<1>3. ASSUME NEW d \in Deleters, NEW s \in Steps, Goes(d, s) PROVE deleter' \in [Deleters -> Work(DeleterReads)]
    <2> DEFINE w == [deleter[d] EXCEPT !.at = s]
    <2>1. w \in Work(DeleterReads) BY <1>1 DEF Work
    <2>2. deleter' = [deleter EXCEPT ![d] = w] BY <1>1, <1>3 DEF Goes
    <2> HIDE DEF w
    <2>3. QED BY <1>2, <2>1, <2>2
<1>4. ASSUME deleter' = deleter PROVE deleter' \in [Deleters -> Work(DeleterReads)] BY <1>1, <1>4
<1>5. ASSUME NEW d \in Deleters, getAffectedAlbumIDs(d) PROVE deleter' \in [Deleters -> Work(DeleterReads)]
    <2> DEFINE w == [Quiet EXCEPT !.at = "delete", !.albums = {ReleaseOf[t] : t \in Missing}]
    <2>1. {ReleaseOf[t] : t \in Missing} \subseteq Releases BY CatalogueAssumption DEF Missing, CatalogueAssumption
    <2>2. w \in Work(DeleterReads) BY <2>1 DEF Quiet, Work, DeleterReads
    <2>3. deleter' = [deleter EXCEPT ![d] = w] BY <1>5 DEF getAffectedAlbumIDs
    <2> HIDE DEF w
    <2>4. QED BY <1>2, <2>2, <2>3
<1>6. ASSUME NEW d \in Deleters, DeleteAllMissing(d) PROVE deleter' \in [Deleters -> Work(DeleterReads)]
    BY <1>3, <1>6 DEF DeleteAllMissing
<1>7. ASSUME NEW d \in Deleters, CollectGarbage(d) PROVE deleter' \in [Deleters -> Work(DeleterReads)]
    <2>1. PICK step \in GCSteps : Goes(d, GCNext[step]) BY <1>7, Zenon DEF CollectGarbage
    <2>2. GCNext[step] \in Steps BY DEF GCSteps, GCNext
    <2>3. QED BY <1>3, <2>1, <2>2
<1>8. ASSUME NEW d \in Deleters, refreshStatsAsync(d) PROVE deleter' \in [Deleters -> Work(DeleterReads)]
    <2>1. CASE Goes(d, "cleanup") \/ Goes(d, "read") BY <1>3, <2>1
    <2>2. CASE deleter' = [deleter EXCEPT ![d].ids = {p \in Performers : db.artist[p] # NoRecord},
                                         ![d].at = IF \E p \in Performers : db.artist[p] # NoRecord THEN "batch" ELSE "read"]
        <3> DEFINE next == IF \E p \in Performers : db.artist[p] # NoRecord THEN "batch" ELSE "read"
                   all == {p \in Performers : db.artist[p] # NoRecord}
                   w == [deleter[d] EXCEPT !.ids = all, !.at = next]
        <3>1. next \in Steps /\ all \subseteq Performers OBVIOUS
        <3>2. deleter' = [deleter EXCEPT ![d] = w] BY <1>1, <2>2
        <3> HIDE DEF next, all
        <3>3. w \in Work(DeleterReads) BY <1>1, <3>1 DEF Work
        <3> HIDE DEF w
        <3>4. QED BY <1>2, <3>2, <3>3
    <2>3. QED BY <1>8, <2>1, <2>2 DEF refreshStatsAsync
<1>9. ASSUME NEW d \in Deleters, refreshAlbums(d) PROVE deleter' \in [Deleters -> Work(DeleterReads)]
    <2> DEFINE stale == {r \in deleter[d].albums : IsStale(db, r)}
               found == [r \in stale |-> ToAlbum(db, HasSongs(db, r))]
    <2>1. CASE deleter' = [deleter EXCEPT ![d] = [Quiet EXCEPT !.at = "done"]]
        <3> DEFINE w == [Quiet EXCEPT !.at = "done"]
        <3>1. w \in Work(DeleterReads) BY DEF Quiet, Work, DeleterReads
        <3> HIDE DEF w
        <3>2. QED BY <1>2, <2>1, <3>1 DEF w
    <2>2. CASE deleter' = [deleter EXCEPT ![d].at = "write", ![d].read = found]
        <3> DEFINE w == [deleter[d] EXCEPT !.at = "write", !.read = found]
        <3>1. stale \subseteq Releases BY <1>1 DEF Work
        <3>2. \A r : ToAlbum(db, HasSongs(db, r)) \in AlbumRow BY Current_Facts DEF Current
        <3>3. found \in [stale -> AlbumRow] BY <3>2
        <3>4. found \in DeleterReads BY <3>1, <3>3 DEF DeleterReads
        <3>5. deleter' = [deleter EXCEPT ![d] = w] BY <1>1, <2>2
        <3> HIDE DEF stale, found
        <3>6. w \in Work(DeleterReads) BY <1>1, <3>4 DEF Work
        <3> HIDE DEF w
        <3>7. QED BY <1>2, <3>5, <3>6
    <2>3. QED BY <1>9, <2>1, <2>2 DEF refreshAlbums
<1>10. ASSUME StatementFails PROVE deleter' \in [Deleters -> Work(DeleterReads)]
    <2>1. CASE \E d \in Deleters : Goes(d, "delete") \/ Goes(d, "read") \/ Goes(d, "done") BY <1>3, <2>1
    <2>2. CASE deleter' = deleter BY <1>4, <2>2
    <2>3. QED
        <3>1. CASE scanning.at # "idle" /\ scanning' = Quiet /\ UNCHANGED deleter BY <2>2, <3>1
        <3>2. CASE \E d \in Deleters : Goes(d, CASE At(d, "idle") -> "delete"
                                                [] deleter[d].at \in {"list", "batch", "cleanup"} -> "read"
                                                [] OTHER -> "done")
            <4>1. PICK d \in Deleters : Goes(d, CASE At(d, "idle") -> "delete"
                                                  [] deleter[d].at \in {"list", "batch", "cleanup"} -> "read"
                                                  [] OTHER -> "done")
                BY <3>2
            <4>2. PICK s \in {"delete", "read", "done"} : s = CASE At(d, "idle") -> "delete"
                                                  [] deleter[d].at \in {"list", "batch", "cleanup"} -> "read"
                                                  [] OTHER -> "done"
                BY DEF At
            <4>3. QED BY <2>1, <4>1, <4>2
        <3>3. QED BY <1>10, <3>1, <3>2 DEF StatementFails
<1>11. QED
    BY <1>4, <1>5, <1>6, <1>7, <1>8, <1>9, <1>10
    DEF CatalogueNext, ScannerSteps, DeleterSteps, StartScan, EndImport, refreshAlbum, runGC, runRefreshStats, FinishScan, Import,
        MarkMissing, SkipFolder, filterUnmodified, FileChanges, Mark

LEMMA Catalogue_Init == CatalogueInit => CatalogueInv
<1> SUFFICES ASSUME CatalogueInit PROVE CatalogueInv OBVIOUS
<1>1. NoRecord \notin {"there", "shown", "missing"} BY CatalogueAssumption DEF CatalogueAssumption
<1>2. /\ db.song = [t \in Tracks |-> NoRecord] /\ db.credit = {} /\ db.album = [r \in Releases |-> NoRecord]
      /\ db.artist = [p \in Performers |-> NoRecord] /\ db.listed = [p \in Performers |-> NoRecord]
      /\ db.marks = {} /\ db.playlist = {} /\ db.touched = {} /\ db.fresh = {}
    BY DEF CatalogueInit
<1>3. db \in Tables BY DEF CatalogueInit, Tables
<1>4. Quiet \in Work(ScanReads) /\ Quiet \in Work(DeleterReads) /\ Quiet.at = "idle" BY DEF Quiet, Work, ScanReads, DeleterReads
<1>5. scanning = Quiet /\ deleter = [d \in Deleters |-> Quiet] BY DEF CatalogueInit
<1>6. disk \in [Tracks -> {"absent", "changed", "known"}] BY DEF CatalogueInit
<1>7. dbErrors \in Nat /\ early \in BOOLEAN /\ staleRead \in BOOLEAN BY DEF CatalogueInit
<1>8. deleter \in [Deleters -> Work(DeleterReads)] BY <1>4, <1>5
<1>9. CatalogueTypeOK BY <1>3, <1>4, <1>5, <1>6, <1>7, <1>8 DEF CatalogueTypeOK
<1>10. \A d \in Deleters : deleter[d].at = "idle" BY <1>4, <1>5
<1>11. TouchInv BY <1>2 DEF TouchInv
<1>12. RowInv BY <1>2 DEF RowInv
<1>13. AlbumInv BY <1>2 DEF AlbumInv
<1>14. ReadInv BY <1>4, <1>5, <1>10 DEF ReadInv
<1>15. CountInv BY <1>2, <1>10 DEF CountInv
<1>16. ShownInv BY <1>1, <1>2, <1>10 DEF ShownInv
<1>17. MarkInv BY <1>2 DEF MarkInv
<1>18. QED BY <1>9, <1>11, <1>12, <1>13, <1>14, <1>15, <1>16, <1>17 DEF CatalogueInv

LEMMA Catalogue_Next == CatalogueInv /\ [CatalogueNext]_catalogueVars => CatalogueInv'
<1> SUFFICES ASSUME CatalogueInv, [CatalogueNext]_catalogueVars PROVE CatalogueInv' OBVIOUS
<1>1. CatalogueTypeOK /\ (~Disturbed => Sound) BY DEF CatalogueInv, Sound
<1>2. CASE UNCHANGED catalogueVars
    <2>1. CatalogueTypeOK' BY <1>1, <1>2 DEF CatalogueTypeOK, catalogueVars
    <2>2. UNCHANGED <<db, scanning, deleter>> /\ Disturbed' = Disturbed BY <1>2 DEF catalogueVars, Disturbed
    <2>3. ~Disturbed' => Sound' BY <1>1, <2>2, Same_Sound
    <2>4. QED BY <2>1, <2>3 DEF CatalogueInv, Sound
<1>3. CASE CatalogueNext
    <2>1. db' \in Tables /\ scanning' \in Scannings /\ deleter' \in [Deleters -> Work(DeleterReads)]
        BY <1>1, <1>3, Tables_Type, Scanner_Type, Deleter_Type
    <2>2. disk' \in [Tracks -> {"absent", "changed", "known"}]
        <3>1. CASE disk' = disk BY <1>1, <3>1 DEF CatalogueTypeOK
        <3>2. CASE \E t \in Tracks : Import(t) BY <1>1, <3>2 DEF CatalogueTypeOK, Import
        <3>3. CASE \E t \in Tracks : FileChanges(t) BY <1>1, <3>3 DEF CatalogueTypeOK, FileChanges
        <3>4. QED
            BY <1>3, <3>1, <3>2, <3>3 DEF CatalogueNext, ScannerSteps, DeleterSteps, StartScan, EndImport, refreshAlbum, runGC,
                runRefreshStats, FinishScan, MarkMissing, SkipFolder, filterUnmodified, Mark, StatementFails,
                getAffectedAlbumIDs, DeleteAllMissing, CollectGarbage, refreshStatsAsync, refreshAlbums
    <2>3. dbErrors' \in Nat /\ dbErrors' >= dbErrors
        <3>1. CASE dbErrors' = dbErrors BY <1>1, <3>1 DEF CatalogueTypeOK
        <3>2. CASE StatementFails BY <1>1, <3>2 DEF CatalogueTypeOK, StatementFails
        <3>3. QED
            BY <1>3, <3>1, <3>2 DEF CatalogueNext, ScannerSteps, DeleterSteps, StartScan, EndImport, refreshAlbum, runGC,
                runRefreshStats, FinishScan, Import, MarkMissing, SkipFolder, filterUnmodified, FileChanges, Mark,
                getAffectedAlbumIDs, DeleteAllMissing, CollectGarbage, refreshStatsAsync, refreshAlbums
    <2>4. early' \in BOOLEAN /\ (early => early')
        BY <1>1, <1>3, Zenon DEF CatalogueTypeOK, CatalogueNext, ScannerSteps, DeleterSteps, StartScan, EndImport, refreshAlbum, runGC,
            runRefreshStats, FinishScan, Import, MarkMissing, SkipFolder, filterUnmodified, FileChanges, Mark, StatementFails,
            getAffectedAlbumIDs, DeleteAllMissing, CollectGarbage, refreshStatsAsync, refreshAlbums
    <2>5. staleRead' \in BOOLEAN /\ (staleRead => staleRead')
        BY <1>1, <1>3, Zenon DEF CatalogueTypeOK, CatalogueNext, ScannerSteps, DeleterSteps, StartScan, EndImport, refreshAlbum, runGC,
            runRefreshStats, FinishScan, Import, MarkMissing, SkipFolder, filterUnmodified, FileChanges, Mark, StatementFails,
            getAffectedAlbumIDs, DeleteAllMissing, CollectGarbage, refreshStatsAsync, refreshAlbums, Overtakes
    <2>6. CatalogueTypeOK' BY <2>1, <2>2, <2>3, <2>4, <2>5 DEF CatalogueTypeOK, Scannings, ScannerAt
    <2>7. ASSUME ~Disturbed' PROVE Sound'
        <3>1. ~early' /\ ~staleRead' /\ ~(dbErrors' > 0) BY <2>7 DEF Disturbed
        <3>2. ~(dbErrors > 0) BY <1>1, <2>3, <3>1 DEF CatalogueTypeOK
        <3>3. Sound BY <1>1, <2>4, <2>5, <3>1, <3>2 DEF Disturbed
        <3>4. ~StatementFails BY <1>1, <3>1 DEF StatementFails, CatalogueTypeOK
        <3>5. CASE ScannerSteps
            BY <1>1, <3>1, <3>3, <3>5, StartScan_Sound, EndImport_Sound, refreshAlbum_Sound, runGC_Sound, runRefreshStats_Sound,
               FinishScan_Sound, Import_Sound, MarkMissing_Sound, SkipFolder_Sound, filterUnmodified_Sound DEF ScannerSteps
        <3>6. CASE \E d \in Deleters : DeleterSteps(d)
            BY <1>1, <3>1, <3>3, <3>6, getAffectedAlbumIDs_Sound, DeleteAllMissing_Sound, CollectGarbage_Sound,
               refreshStatsAsync_Sound, refreshAlbums_Sound DEF DeleterSteps
        <3>7. CASE \E t \in Tracks : FileChanges(t) BY <3>3, <3>7, Same_Sound DEF FileChanges
        <3>8. CASE \E m \in Tracks \cup Releases : Mark(m) BY <1>1, <3>3, <3>8, Mark_Sound
        <3>9. QED BY <1>3, <3>4, <3>5, <3>6, <3>7, <3>8 DEF CatalogueNext
    <2>8. QED BY <2>6, <2>7 DEF CatalogueInv, Sound
<1>4. QED BY <1>2, <1>3

LEMMA Catalogue_Sound == CatalogueInv => CatalogueIsSound
<1> SUFFICES ASSUME CatalogueInv, Settled, ~Disturbed
             PROVE  SongsAreFound /\ NothingDangles /\ AlbumsCount
    BY DEF CatalogueIsSound, SongsAreFound, NothingDangles, AlbumsCount
<1>1. CatalogueTypeOK /\ Sound BY DEF CatalogueInv, Sound
<1> USE DEF Sound
<1>2. scanning.at = "idle" /\ \A d \in Deleters : deleter[d].at \in {"idle", "done"} BY DEF Settled
<1>3. ~Opened /\ \A r : ~Pending(r) BY <1>2 DEF Opened, Pending
<1>4. NoRecord # "there" /\ db \in Tables BY <1>1, CatalogueAssumption, CreditFacts DEF CatalogueAssumption
<1>5. \A d \in Deleters : deleter[d].at \notin GCSteps \cup {"albums", "list", "batch", "cleanup"} BY <1>2 DEF GCSteps
<1>6. \A d \in Deleters : (\A p : ~Hides(d, p)) /\ (\A r : ~Unrefreshed(d, r))
    BY <1>2, <1>5 DEF Hides, Unrefreshed, GCSteps
<1>7. SongsAreFound
    <2> SUFFICES ASSUME NEW t \in Tracks, db.song[t] = "there"
                 PROVE  /\ t \in db.credit /\ db.artist[PerformerOf[t]] = "shown"
                        /\ db.listed[PerformerOf[t]] \in Nat \ {0}
                        /\ db.album[ReleaseOf[t]] # NoRecord /\ PerformerOf[t] \in db.album[ReleaseOf[t]].artists
        BY DEF SongsAreFound
    <2>1. t \in db.credit BY <1>1, <1>4 DEF RowInv
    <2>2. db.artist[PerformerOf[t]] = "shown" BY <1>1, <1>3 DEF ShownInv
    <2>3. db.listed[PerformerOf[t]] \in Nat \ {0} BY <1>1, <1>2, <2>1 DEF CountInv, ToCount
    <2>4. db.album[ReleaseOf[t]] # NoRecord /\ PerformerOf[t] \in db.album[ReleaseOf[t]].artists
        BY <1>1, <1>3, <2>1, AlbumOfSong
    <2>5. QED BY <2>1, <2>2, <2>3, <2>4
<1>8. \A r \in Releases : db.album[r] # NoRecord => HasSongs(db, r) # {} /\ AlbumEquals(db.album[r], Current(r))
    BY <1>1, <1>3, <1>5, <1>6 DEF AlbumInv, AlbumGood
<1>9. NothingDangles
    <2>1. \A r \in Releases : db.album[r] # NoRecord => HasSongs(db, r) # {} BY <1>8
    <2>2. \A p \in Performers : db.artist[p] = "shown" => SongsBy(db, p) # {}
        <3> SUFFICES ASSUME NEW p \in Performers, db.artist[p] = "shown" PROVE SongsBy(db, p) # {} OBVIOUS
        <3>1. Hidden(p) BY <1>1 DEF ShownInv
        <3>2. NoRecord # "shown" BY CatalogueAssumption DEF CatalogueAssumption
        <3>3. QED BY <1>6, <3>1, <3>2 DEF Hidden
    <2>3. \A m \in db.marks : m \in Tracks => db.song[m] # NoRecord BY <1>1, <1>5 DEF MarkInv
    <2>4. \A m \in db.marks : m \in Releases => db.album[m] # NoRecord BY <1>1, <1>5 DEF MarkInv, GCSteps
    <2>5. \A t \in db.playlist : db.song[t] # NoRecord BY <1>1, <1>5 DEF MarkInv
    <2>6. QED BY <2>1, <2>2, <2>3, <2>4, <2>5 DEF NothingDangles
<1>10. AlbumsCount BY <1>8 DEF AlbumsCount, Current
<1>11. QED BY <1>7, <1>9, <1>10

\* Whatever the scanner and the requests that delete missing files interleave to,
\* at rest the songs that can be played are found, what is shown has songs, and
\* albums count right.
THEOREM CatalogueHolds == CatalogueSpec => []CatalogueIsSound
<1>1. CatalogueSpec => []CatalogueInv BY Catalogue_Init, Catalogue_Next, PTL DEF CatalogueSpec
<1>2. QED BY <1>1, Catalogue_Sound, PTL


--------------------------------------------------------------------------------
(* The tracks of a playlist: the order of the positions *)

Below(ps, p) == {q \in ps : q < p}

LEMMA BelowFacts ==
    ASSUME NEW D, IsFiniteSet(D), \A p \in D : p \in Int
    PROVE  /\ Cardinality(D) \in Nat
           /\ \A p \in D : /\ IsFiniteSet(Below(D, p))
                           /\ Cardinality(Below(D, p)) \in Nat /\ Cardinality(Below(D, p)) < Cardinality(D)
           /\ \A p, q \in D : Cardinality(Below(D, p)) = Cardinality(Below(D, q)) => p = q
<1>1. Cardinality(D) \in Nat BY FS_CardinalityType
<1>2. ASSUME NEW p \in D
      PROVE  /\ IsFiniteSet(Below(D, p))
             /\ Cardinality(Below(D, p)) \in Nat /\ Cardinality(Below(D, p)) < Cardinality(D)
    <2>1. Below(D, p) \subseteq D /\ p \notin Below(D, p) BY DEF Below
    <2>2. IsFiniteSet(Below(D, p)) /\ Cardinality(Below(D, p)) <= Cardinality(D) BY <2>1, FS_Subset
    <2>3. Cardinality(Below(D, p)) # Cardinality(D) BY <2>1, FS_Subset
    <2>4. Cardinality(Below(D, p)) \in Nat BY <2>2, FS_CardinalityType
    <2>5. QED BY <1>1, <2>2, <2>3, <2>4
<1>3. ASSUME NEW p \in D, NEW q \in D, p < q PROVE Cardinality(Below(D, p)) # Cardinality(Below(D, q))
    <2>1. Below(D, p) \subseteq Below(D, q) BY <1>3 DEF Below
    <2>2. p \in Below(D, q) /\ p \notin Below(D, p) BY <1>3 DEF Below
    <2>3. QED BY <1>2, <2>1, <2>2, FS_Subset
<1>4. ASSUME NEW p \in D, NEW q \in D, Cardinality(Below(D, p)) = Cardinality(Below(D, q)) PROVE p = q
    <2>1. p < q \/ q < p \/ p = q OBVIOUS
    <2>2. QED BY <1>3, <1>4, <2>1
<1>5. QED BY <1>1, <1>2, <1>4

\* The position with so many below it.
LEMMA NthIs ==
    ASSUME NEW D, IsFiniteSet(D), \A p \in D : p \in Int, NEW p \in D, NEW i, Cardinality(Below(D, p)) = i - 1
    PROVE  Nth(D, i) = p
<1>1. \A q \in D : Cardinality(Below(D, q)) = i - 1 => q = p BY BelowFacts
<1>2. Nth(D, i) = CHOOSE q \in D : Cardinality(Below(D, q)) = i - 1 BY DEF Nth, Below
<1>3. QED BY <1>1, <1>2

LEMMA NthFacts ==
    ASSUME NEW D, IsFiniteSet(D), \A p \in D : p \in Int, NEW i \in 1..Cardinality(D)
    PROVE  Nth(D, i) \in D /\ Cardinality(Below(D, Nth(D, i))) = i - 1
<1> DEFINE c == Cardinality(D)
           rank == [p \in D |-> Cardinality(Below(D, p)) + 1]
<1>1. c \in Nat BY FS_CardinalityType
<1>2. rank \in [D -> 1..c]
    <2>1. \A p \in D : Cardinality(Below(D, p)) + 1 \in 1..c BY <1>1, BelowFacts
    <2>2. QED BY <2>1
<1>3. \A p, q \in D : rank[p] = rank[q] => p = q
    <2>1. \A p \in D : Cardinality(Below(D, p)) \in Nat BY BelowFacts
    <2>2. \A p, q \in D : rank[p] = rank[q] => Cardinality(Below(D, p)) = Cardinality(Below(D, q)) BY <2>1
    <2>3. QED BY <2>2, BelowFacts
<1> HIDE DEF rank
<1>4. rank \in Injection(D, 1..c) BY <1>2, <1>3 DEF Injection, IsInjective
<1>5. IsFiniteSet(1..c) /\ Cardinality(1..c) = c BY <1>1, FS_Interval
<1>6. rank \in Surjection(D, 1..c) BY <1>4, <1>5, FS_Injection
<1>7. PICK p \in D : rank[p] = i BY <1>6 DEF Surjection
<1>8. Cardinality(Below(D, p)) + 1 = i /\ Cardinality(Below(D, p)) \in Nat BY <1>7, BelowFacts DEF rank
<1>9. Cardinality(Below(D, p)) = i - 1 BY <1>8
<1>10. QED BY <1>9, NthIs

LEMMA NthInterval == ASSUME NEW n \in Nat, NEW i \in 1..n PROVE Nth(1..n, i) = i
<1>1. IsFiniteSet(1..n) /\ \A p \in 1..n : p \in Int BY FS_Interval
<1>2. Below(1..n, i) = 1..(i - 1) BY DEF Below
<1>3. Cardinality(1..(i - 1)) = i - 1 BY FS_Interval
<1>4. QED BY <1>1, <1>2, <1>3, NthIs

\* Different places hold different positions, and every position has its place.
LEMMA NthOrder ==
    ASSUME NEW D, IsFiniteSet(D), \A p \in D : p \in Int
    PROVE  /\ \A i, j \in 1..Cardinality(D) : Nth(D, i) = Nth(D, j) => i = j
           /\ \A p \in D : \E i \in 1..Cardinality(D) : Nth(D, i) = p
<1>1. ASSUME NEW i \in 1..Cardinality(D), NEW j \in 1..Cardinality(D), Nth(D, i) = Nth(D, j) PROVE i = j
    <2>1. i - 1 = j - 1 BY <1>1, NthFacts
    <2>2. QED BY <2>1
<1>2. ASSUME NEW p \in D PROVE \E i \in 1..Cardinality(D) : Nth(D, i) = p
    <2>1. Cardinality(Below(D, p)) \in Nat /\ Cardinality(Below(D, p)) < Cardinality(D) /\ Cardinality(D) \in Nat
        BY BelowFacts
    <2> DEFINE i == Cardinality(Below(D, p)) + 1
    <2>2. i \in 1..Cardinality(D) /\ Cardinality(Below(D, p)) = i - 1 BY <2>1
    <2> HIDE DEF i
    <2>3. Nth(D, i) = p BY <2>2, NthIs
    <2>4. QED BY <2>2, <2>3
<1>3. QED BY <1>1, <1>2

\* Negated, the positions are in the reverse order.
LEMMA NthNegated ==
    ASSUME NEW D, IsFiniteSet(D), \A p \in D : p \in Int, NEW N, N = {-p : p \in D}
    PROVE  /\ IsFiniteSet(N) /\ Cardinality(N) = Cardinality(D) /\ \A p \in N : p \in Int
           /\ \A i \in 1..Cardinality(D) : Nth(N, Cardinality(D) + 1 - i) = -Nth(D, i)
<1> DEFINE c == Cardinality(D)
<1>1. c \in Nat BY FS_CardinalityType
<1>2. ASSUME NEW S \in SUBSET D PROVE IsFiniteSet({-p : p \in S}) /\ Cardinality({-p : p \in S}) = Cardinality(S)
    <2> DEFINE f == [p \in S |-> -p]
    <2>1. IsFiniteSet(S) BY FS_Subset
    <2>2. f \in [S -> {-p : p \in S}] /\ \A p, q \in S : f[p] = f[q] => p = q OBVIOUS
    <2>3. \A m \in {-p : p \in S} : \E p \in S : f[p] = m OBVIOUS
    <2> HIDE DEF f
    <2>4. f \in Bijection(S, {-p : p \in S}) BY <2>2, <2>3 DEF Bijection, Injection, IsInjective, Surjection
    <2>5. ExistsBijection(S, {-p : p \in S}) BY <2>4 DEF ExistsBijection
    <2>6. QED BY <2>1, <2>5, FS_Bijection
<1>3. IsFiniteSet(N) /\ Cardinality(N) = c BY <1>2
<1>4. \A p \in N : p \in Int OBVIOUS
<1>5. ASSUME NEW i \in 1..c PROVE Nth(N, c + 1 - i) = -Nth(D, i)
    <2> DEFINE p == Nth(D, i)
               above == {q \in D : p < q}
    <2>1. p \in D /\ p \in Int /\ Cardinality(Below(D, p)) = i - 1 BY NthFacts
    <2>2. IsFiniteSet(Below(D, p)) BY <2>1, BelowFacts
    <2> HIDE DEF p
    <2>3. above = D \ (Below(D, p) \cup {p}) BY <2>1 DEF Below
    <2>4. p \notin Below(D, p) /\ Below(D, p) \cup {p} \subseteq D BY <2>1 DEF Below
    <2>5. Cardinality(Below(D, p) \cup {p}) = i /\ IsFiniteSet(Below(D, p) \cup {p})
        BY <2>1, <2>2, <2>4, FS_AddElement
    <2>6. D \cap (Below(D, p) \cup {p}) = Below(D, p) \cup {p} BY <2>4
    <2>7. Cardinality(above) = c - i BY <2>3, <2>5, <2>6, FS_Difference
    <2>8. Below(N, -p) = {-q : q \in above} BY <2>1 DEF Below
    <2>9. above \in SUBSET D OBVIOUS
    <2> HIDE DEF above
    <2>10. Cardinality(Below(N, -p)) = c - i BY <1>2, <2>7, <2>8, <2>9
    <2>11. Cardinality(Below(N, -p)) = (c + 1 - i) - 1 BY <1>1, <2>10
    <2>12. -p \in N BY <2>1
    <2>13. QED BY <1>3, <1>4, <2>11, <2>12, NthIs DEF p
<1>6. QED BY <1>3, <1>4, <1>5

LEMMA Greatest ==
    ASSUME NEW D, IsFiniteSet(D), \A p \in D : p \in Int, D # {}
    PROVE  \E p \in D : \A q \in D : q <= p
<1> DEFINE c == Cardinality(D)
           p == Nth(D, c)
<1>1. c \in Nat /\ c # 0 BY FS_CardinalityType, FS_EmptySet
<1>2. p \in D /\ Cardinality(Below(D, p)) = c - 1 /\ IsFiniteSet(Below(D, p)) BY <1>1, NthFacts, BelowFacts
<1> HIDE DEF p
<1>3. p \notin Below(D, p) /\ Below(D, p) \cup {p} \subseteq D BY <1>2 DEF Below
<1>4. Cardinality(Below(D, p) \cup {p}) = c
    <2>1. Cardinality(Below(D, p) \cup {p}) = Cardinality(Below(D, p)) + 1 BY <1>2, <1>3, FS_AddElement
    <2>2. QED BY <1>1, <1>2, <2>1
<1>5. Below(D, p) \cup {p} = D BY <1>3, <1>4, FS_Subset
<1>6. \A q \in D : q <= p BY <1>2, <1>5 DEF Below
<1>7. QED BY <1>2, <1>6

--------------------------------------------------------------------------------
(* The statements that change positions *)

Table(tr) ==
    /\ tr = [p \in DOMAIN tr |-> tr[p]] /\ IsFiniteSet(DOMAIN tr)
    /\ \A p \in DOMAIN tr : p \in Int /\ tr[p] \in Songs

CountIn(tr, X) == Cardinality({p \in DOMAIN tr : tr[p] \in X})

\* The same songs, each as often, at other positions.
SongsAsBefore(tr, r) ==
    /\ Table(r)
    /\ \A p \in DOMAIN tr : \E q \in DOMAIN r : r[q] = tr[p]
    /\ \A X : CountIn(r, X) = CountIn(tr, X)

LEMMA SongsAsBefore_Trans ==
    ASSUME NEW tr, NEW a, NEW b, SongsAsBefore(tr, a), SongsAsBefore(a, b) PROVE SongsAsBefore(tr, b)
<1>1. \A X : CountIn(b, X) = CountIn(tr, X) BY DEF SongsAsBefore
<1>2. \A p \in DOMAIN tr : \E q \in DOMAIN b : b[q] = tr[p]
    <2>1. TAKE p \in DOMAIN tr
    <2>2. PICK m \in DOMAIN a : a[m] = tr[p] BY DEF SongsAsBefore
    <2>3. QED BY <2>2 DEF SongsAsBefore
<1>3. QED BY <1>1, <1>2 DEF SongsAsBefore

IsFunction(r) == r = [q \in DOMAIN r |-> r[q]]
After(tr, to, M) == (DOMAIN tr \ M) \cup {to[p] : p \in M}
Apart(to, M) == \A p, q \in M : to[p] = to[q] => p = q
Updated(tr, to, M, r) ==
    /\ IsFunction(r) /\ DOMAIN r = After(tr, to, M)
    /\ \A p \in M : r[to[p]] = tr[p]
    /\ \A q \in DOMAIN tr \ M : r[q] = tr[q] /\ \A p \in M : to[p] # q

\* Where the rows are after an update: M are the rows it applies to.
LEMMA SetIdsRows ==
    ASSUME NEW tr, NEW to, NEW M, DOMAIN to \cap DOMAIN tr = M, ~Collides(tr, to), Apart(to, M),
           NEW r, r = SetIds(tr, to)
    PROVE  Updated(tr, to, M, r)
<1> DEFINE new == (DOMAIN tr \ M) \cup {to[p] : p \in M}
<1>1. r = [q \in new |-> IF \E p \in M : to[p] = q THEN tr[CHOOSE p \in M : to[p] = q] ELSE tr[q]] BY DEF SetIds
<1>2. \A q \in DOMAIN tr \ M : \A p \in M : to[p] # q BY DEF Collides
<1>3. DOMAIN r = new /\ r = [q \in DOMAIN r |-> r[q]] BY <1>1
<1>4. \A q \in DOMAIN tr \ M : r[q] = tr[q] BY <1>1, <1>2
<1>5. ASSUME NEW p \in M PROVE r[to[p]] = tr[p]
    <2>1. to[p] \in new OBVIOUS
    <2>2. (CHOOSE m \in M : to[m] = to[p]) = p BY DEF Apart
    <2>3. r[to[p]] = tr[CHOOSE m \in M : to[m] = to[p]] BY <1>1, <2>1
    <2>4. QED BY <2>2, <2>3
<1>6. QED BY <1>2, <1>3, <1>4, <1>5 DEF IsFunction, After, Updated

LEMMA SetIdsKeeps ==
    ASSUME NEW tr, Table(tr), NEW to, ~Collides(tr, to),
           \A p, q \in DOMAIN to \cap DOMAIN tr : to[p] = to[q] => p = q, \A p \in DOMAIN to : to[p] \in Int
    PROVE  SongsAsBefore(tr, SetIds(tr, to))
<1> DEFINE M == DOMAIN to \cap DOMAIN tr
           r == SetIds(tr, to)
           f == [p \in DOMAIN tr |-> IF p \in M THEN to[p] ELSE p]
<1>1. /\ IsFunction(r) /\ DOMAIN r = After(tr, to, M)
      /\ \A p \in M : r[to[p]] = tr[p]
      /\ \A q \in DOMAIN tr \ M : r[q] = tr[q] /\ \A p \in M : to[p] # q
    <2> HIDE DEF M, r
    <2>1. M = DOMAIN to \cap DOMAIN tr /\ r = SetIds(tr, to) BY DEF M, r
    <2>2. Apart(to, M) BY <2>1 DEF Apart
    <2>3. Updated(tr, to, M, r) BY <2>1, <2>2, SetIdsRows
    <2>4. QED BY <2>3 DEF Updated
<1>2. \A p \in DOMAIN tr : f[p] \in DOMAIN r /\ r[f[p]] = tr[p] BY <1>1 DEF After
<1>3. \A p, q \in DOMAIN tr : f[p] = f[q] => p = q BY <1>1
<1>4. \A q \in DOMAIN r : \E p \in DOMAIN tr : f[p] = q BY <1>1 DEF After
<1>5. \A q \in DOMAIN r : q \in Int BY <1>1 DEF Table, After
<1> HIDE DEF f, r, M
<1>6. ASSUME NEW X
      PROVE  IsFiniteSet({q \in DOMAIN r : r[q] \in X}) /\ CountIn(r, X) = CountIn(tr, X)
    <2> DEFINE S == {p \in DOMAIN tr : tr[p] \in X}
               T == {q \in DOMAIN r : r[q] \in X}
               g == [p \in S |-> f[p]]
    <2>1. g \in [S -> T] BY <1>2
    <2>2. \A p, q \in S : g[p] = g[q] => p = q BY <1>3
    <2>3. \A q \in T : \E p \in S : g[p] = q BY <1>2, <1>4
    <2>4. IsFiniteSet(S) BY FS_Subset DEF Table
    <2> HIDE DEF g, S, T
    <2>5. g \in Bijection(S, T) BY <2>1, <2>2, <2>3 DEF Bijection, Injection, IsInjective, Surjection
    <2>6. ExistsBijection(S, T) BY <2>5 DEF ExistsBijection
    <2>7. IsFiniteSet(T) /\ Cardinality(T) = Cardinality(S) BY <2>4, <2>6, FS_Bijection
    <2>8. QED BY <2>7 DEF CountIn, S, T
<1>7. \A q \in DOMAIN r : r[q] \in Songs BY <1>2, <1>4 DEF Table
<1>8. IsFiniteSet(DOMAIN r)
    <2>1. {q \in DOMAIN r : r[q] \in Songs} = DOMAIN r BY <1>7
    <2>2. QED BY <1>6, <2>1
<1>9. Table(r) BY <1>1, <1>5, <1>7, <1>8 DEF Table, IsFunction, r
<1>10. QED BY <1>2, <1>6, <1>9 DEF SongsAsBefore, r

(* Moving a track *)

Park(pos) == [p \in {pos} |-> Parked]
Shift(a, pos, new) ==
    IF pos < new THEN [p \in {p \in DOMAIN a : pos < p /\ p <= new} |-> -(p - 1)]
                 ELSE [p \in {p \in DOMAIN a : new <= p /\ p < pos} |-> -(p + 1)]
Flip(b) == [p \in {p \in DOMAIN b : p < 0 /\ p # Parked} |-> -p]
Place(new) == [p \in {Parked} |-> new]

LEMMA ParkedPlace == Parked \in Int /\ Parked < 0
BY SMT DEF Parked

\* The four statements of a move, unless one of them is refused.
LEMMA ReorderSteps ==
    ASSUME NEW tr, NEW pos, NEW new
    PROVE  \/ Reorder(tr, pos, new) = tr
           \/ \E a, b, c :
                 /\ pos # new
                 /\ a = SetIds(tr, Park(pos)) /\ ~Collides(tr, Park(pos))
                 /\ b = SetIds(a, Shift(a, pos, new)) /\ ~Collides(a, Shift(a, pos, new))
                 /\ c = SetIds(b, Flip(b)) /\ ~Collides(b, Flip(b))
                 /\ Reorder(tr, pos, new) = SetIds(c, Place(new)) /\ ~Collides(c, Place(new))
<1> DEFINE a == SetIds(tr, Park(pos))
           b == SetIds(a, Shift(a, pos, new))
           c == SetIds(b, Flip(b))
<1>1. Reorder(tr, pos, new) =
        IF pos = new \/ Collides(tr, Park(pos)) \/ Collides(a, Shift(a, pos, new)) \/ Collides(b, Flip(b)) \/ Collides(c, Place(new))
        THEN tr ELSE SetIds(c, Place(new))
    BY DEF Reorder, Park, Shift, Flip, Place
<1> HIDE DEF c
<1>2. c = SetIds(b, Flip(b)) BY DEF c
<1> HIDE DEF b
<1>3. b = SetIds(a, Shift(a, pos, new)) BY DEF b
<1> HIDE DEF a
<1>4. a = SetIds(tr, Park(pos)) BY DEF a
<1>5. QED BY <1>1, <1>2, <1>3, <1>4

LEMMA SongsAsBefore_Self == ASSUME NEW tr, Table(tr) PROVE SongsAsBefore(tr, tr)
BY DEF SongsAsBefore

LEMMA ReorderKeeps ==
    ASSUME NEW tr, Table(tr), NEW pos \in Int, NEW new \in Int
    PROVE  SongsAsBefore(tr, Reorder(tr, pos, new))
<1>1. CASE Reorder(tr, pos, new) = tr BY <1>1, SongsAsBefore_Self
<1>2. CASE Reorder(tr, pos, new) # tr
    <2>1. PICK a, b, c :
             /\ pos # new
             /\ a = SetIds(tr, Park(pos)) /\ ~Collides(tr, Park(pos))
             /\ b = SetIds(a, Shift(a, pos, new)) /\ ~Collides(a, Shift(a, pos, new))
             /\ c = SetIds(b, Flip(b)) /\ ~Collides(b, Flip(b))
             /\ Reorder(tr, pos, new) = SetIds(c, Place(new)) /\ ~Collides(c, Place(new))
        BY <1>2, ReorderSteps
    <2>2. SongsAsBefore(tr, a)
        <3> DEFINE to == Park(pos)
        <3>1. \A p, q \in DOMAIN to \cap DOMAIN tr : to[p] = to[q] => p = q BY DEF Park
        <3>2. \A p \in DOMAIN to : to[p] \in Int BY ParkedPlace DEF Park
        <3> HIDE DEF to
        <3>3. QED BY <2>1, <3>1, <3>2, SetIdsKeeps DEF to
    <2>3. Table(a) BY <2>2 DEF SongsAsBefore
    <2>4. SongsAsBefore(a, b)
        <3> DEFINE to == Shift(a, pos, new)
        <3>0. \A p \in DOMAIN a : p \in Int BY <2>3 DEF Table
        <3>1. \A p, q \in DOMAIN to \cap DOMAIN a : to[p] = to[q] => p = q BY <3>0 DEF Shift
        <3>2. \A p \in DOMAIN to : to[p] \in Int BY <3>0 DEF Shift
        <3> HIDE DEF to
        <3>3. QED BY <2>1, <2>3, <3>1, <3>2, SetIdsKeeps DEF to
    <2>5. Table(b) BY <2>4 DEF SongsAsBefore
    <2>6. SongsAsBefore(b, c)
        <3> DEFINE to == Flip(b)
        <3>0. \A p \in DOMAIN b : p \in Int BY <2>5 DEF Table
        <3>1. \A p, q \in DOMAIN to \cap DOMAIN b : to[p] = to[q] => p = q BY <3>0 DEF Flip
        <3>2. \A p \in DOMAIN to : to[p] \in Int BY <3>0 DEF Flip
        <3> HIDE DEF to
        <3>3. QED BY <2>1, <2>5, <3>1, <3>2, SetIdsKeeps DEF to
    <2>7. Table(c) BY <2>6 DEF SongsAsBefore
    <2>8. SongsAsBefore(c, Reorder(tr, pos, new))
        <3> DEFINE to == Place(new)
        <3>1. \A p, q \in DOMAIN to \cap DOMAIN c : to[p] = to[q] => p = q BY DEF Place
        <3>2. \A p \in DOMAIN to : to[p] \in Int BY DEF Place
        <3> HIDE DEF to
        <3>3. QED BY <2>1, <2>7, <3>1, <3>2, SetIdsKeeps DEF to
    <2>9. QED BY <2>2, <2>4, <2>6, <2>8, SongsAsBefore_Trans
<1>3. QED BY <1>1, <1>2

\* A move leaves no row parked.
LEMMA ReorderPositive ==
    ASSUME NEW tr, Table(tr), NEW pos \in Nat \ {0}, NEW new \in Nat \ {0}, \A p \in DOMAIN tr : p > 0
    PROVE  \A p \in DOMAIN Reorder(tr, pos, new) : p > 0
<1>1. CASE Reorder(tr, pos, new) = tr BY <1>1
<1>2. CASE Reorder(tr, pos, new) # tr
    <2>1. PICK a, b, c :
             /\ pos # new
             /\ a = SetIds(tr, Park(pos)) /\ ~Collides(tr, Park(pos))
             /\ b = SetIds(a, Shift(a, pos, new)) /\ ~Collides(a, Shift(a, pos, new))
             /\ c = SetIds(b, Flip(b)) /\ ~Collides(b, Flip(b))
             /\ Reorder(tr, pos, new) = SetIds(c, Place(new)) /\ ~Collides(c, Place(new))
        BY <1>2, ReorderSteps
    <2>2. \A p \in DOMAIN a : p = Parked \/ (p \in Int /\ p > 0)
        <3>1. DOMAIN a = (DOMAIN tr \ (DOMAIN Park(pos) \cap DOMAIN tr)) \cup {Park(pos)[p] : p \in DOMAIN Park(pos) \cap DOMAIN tr}
            BY <2>1 DEF SetIds
        <3>2. QED BY <3>1 DEF Park, Table
    <2>3. \A p \in DOMAIN b : p \in Int /\ p # 0
        <3> DEFINE to == Shift(a, pos, new)
        <3>1. DOMAIN b = (DOMAIN a \ (DOMAIN to \cap DOMAIN a)) \cup {to[p] : p \in DOMAIN to \cap DOMAIN a}
            <4> HIDE DEF to
            <4>1. b = SetIds(a, to) BY <2>1 DEF to
            <4>2. QED BY <4>1 DEF SetIds
        <3>2. \A p \in DOMAIN to : to[p] \in Int /\ to[p] # 0 BY <2>2, ParkedPlace DEF Shift
        <3> HIDE DEF to
        <3>3. QED BY <2>2, <3>1, <3>2, ParkedPlace
    <2>4. \A p \in DOMAIN c : p = Parked \/ (p \in Int /\ p > 0)
        <3> DEFINE to == Flip(b)
        <3>1. DOMAIN c = (DOMAIN b \ (DOMAIN to \cap DOMAIN b)) \cup {to[p] : p \in DOMAIN to \cap DOMAIN b}
            <4> HIDE DEF to
            <4>1. c = SetIds(b, to) BY <2>1 DEF to
            <4>2. QED BY <4>1 DEF SetIds
        <3>2. \A p \in DOMAIN to : to[p] \in Int /\ to[p] > 0 BY <2>3 DEF Flip
        <3>3. \A p \in DOMAIN b : p \in DOMAIN to \/ p = Parked \/ p > 0 BY <2>3 DEF Flip
        <3> HIDE DEF to
        <3>4. QED BY <2>3, <3>1, <3>2, <3>3
    <2>5. DOMAIN SetIds(c, Place(new)) = (DOMAIN c \ (DOMAIN Place(new) \cap DOMAIN c)) \cup {Place(new)[p] : p \in DOMAIN Place(new) \cap DOMAIN c}
        BY DEF SetIds
    <2>6. QED BY <2>1, <2>4, <2>5 DEF Place
<1>3. QED BY <1>1, <1>2

MakesRoom(S, U, d, new) ==
    /\ \A p \in S : p + d \in U \ {new}
    /\ \A q \in U \ {new} : \E p \in S : q = p + d
Shifts(sh, S, d) == DOMAIN sh = S /\ \A p \in S : sh[p] = -(p + d)
UnderParked(U) == \A p \in U : p < -Parked
Unrefused(tr, a, sh, b, c, pos, new) ==
    ~Collides(tr, Park(pos)) /\ ~Collides(a, sh) /\ ~Collides(b, Flip(b)) /\ ~Collides(c, Place(new))
ShiftedBy(tr, r, S, U, d, pos, new, n) ==
    /\ IsFunction(r) /\ DOMAIN r = 1..n /\ r[new] = tr[pos]
    /\ \A p \in S : r[p + d] = tr[p]
    /\ \A q \in (1..n) \ U : r[q] = tr[q]

\* A move within a list without gaps: the rows of S make room, each by d places.
LEMMA MoveRows ==
    ASSUME NEW n \in Nat, NEW tr, IsFunction(tr), DOMAIN tr = 1..n,
           NEW U \in SUBSET (1..n), NEW pos \in U, NEW S, S = U \ {pos}, NEW d \in Int, NEW new \in S,
           MakesRoom(S, U, d, new), UnderParked(U),
           NEW a, a = SetIds(tr, Park(pos)), NEW sh, Shifts(sh, S, d),
           NEW b, b = SetIds(a, sh), NEW c, c = SetIds(b, Flip(b)), NEW r, r = SetIds(c, Place(new))
    PROVE  Unrefused(tr, a, sh, b, c, pos, new) /\ ShiftedBy(tr, r, S, U, d, pos, new, n)
<1>1. /\ ~Collides(tr, Park(pos)) /\ DOMAIN a = ((1..n) \ {pos}) \cup {Parked}
      /\ a[Parked] = tr[pos] /\ \A q \in (1..n) \ {pos} : a[q] = tr[q]
    <2> DEFINE to == Park(pos)
    <2>1. DOMAIN to = {pos} /\ to[pos] = Parked BY DEF Park
    <2> HIDE DEF to
    <2>2. DOMAIN to \cap DOMAIN tr = {pos} BY <2>1
    <2>3. ~Collides(tr, to) BY <2>1, <2>2, ParkedPlace DEF Collides
    <2>4. a = SetIds(tr, to) BY DEF to
    <2>5. /\ DOMAIN a = After(tr, to, {pos}) /\ \A p \in {pos} : a[to[p]] = tr[p]
          /\ \A q \in DOMAIN tr \ {pos} : a[q] = tr[q]
        <3>1. Apart(to, {pos}) BY DEF Apart
        <3>2. Updated(tr, to, {pos}, a) BY <2>2, <2>3, <2>4, <3>1, SetIdsRows
        <3>3. QED BY <3>2 DEF Updated
    <2>6. After(tr, to, {pos}) = ((1..n) \ {pos}) \cup {Parked} BY <2>1 DEF After
    <2>7. QED BY <2>1, <2>3, <2>5, <2>6 DEF to
<1>2. \A p \in S : p \in 1..n /\ p + d \in U /\ p + d \in 1..n /\ p + d # new /\ p + d < -Parked
    <2>1. \A p \in S : p + d \in U \ {new} BY DEF MakesRoom
    <2>2. QED BY <2>1, ParkedPlace DEF UnderParked
<1>3. /\ ~Collides(a, sh) /\ DOMAIN b = (((1..n) \ U) \cup {Parked}) \cup {-(p + d) : p \in S}
      /\ b[Parked] = tr[pos] /\ \A p \in S : b[-(p + d)] = tr[p]
      /\ \A q \in (1..n) \ U : b[q] = tr[q]
    <2>1. DOMAIN sh = S /\ \A p \in S : sh[p] = -(p + d) BY DEF Shifts
    <2>2. DOMAIN sh \cap DOMAIN a = S BY <1>1, <2>1
    <2>3. \A p \in S : sh[p] \notin DOMAIN a BY <1>1, <1>2, <2>1, ParkedPlace
    <2>4. ~Collides(a, sh) BY <2>2, <2>3 DEF Collides
    <2>5. Apart(sh, S) BY <1>2, <2>1 DEF Apart
    <2>6. /\ DOMAIN b = After(a, sh, S) /\ \A p \in S : b[sh[p]] = a[p] /\ \A q \in DOMAIN a \ S : b[q] = a[q]
        <3>1. Updated(a, sh, S, b) BY <2>2, <2>4, <2>5, SetIdsRows
        <3>2. QED BY <3>1 DEF Updated
    <2>7. After(a, sh, S) = (((1..n) \ U) \cup {Parked}) \cup {-(p + d) : p \in S}
        <3>1. DOMAIN a \ S = ((1..n) \ U) \cup {Parked} BY <1>1, ParkedPlace
        <3>2. {sh[p] : p \in S} = {-(p + d) : p \in S} BY <2>1
        <3>3. QED BY <3>1, <3>2 DEF After
    <2>8. Parked \in DOMAIN a \ S BY <1>1, ParkedPlace
    <2>9. QED BY <1>1, <2>1, <2>4, <2>6, <2>7, <2>8
<1> DEFINE N == {-(p + d) : p \in S}
<1>4. \A m \in N : m \in Int /\ m < 0 /\ m # Parked /\ -m \in U \ {new} BY <1>2, ParkedPlace
<1>5. /\ ~Collides(b, Flip(b)) /\ DOMAIN c = ((1..n) \ {new}) \cup {Parked}
      /\ c[Parked] = tr[pos] /\ \A p \in S : c[p + d] = tr[p]
      /\ \A q \in (1..n) \ U : c[q] = tr[q]
    <2> DEFINE to == Flip(b)
    <2>1. DOMAIN to = N /\ \A m \in N : to[m] = -m
        <3>1. {m \in DOMAIN b : m < 0 /\ m # Parked} = N
            <4> HIDE DEF N
            <4>1. DOMAIN b = (((1..n) \ U) \cup {Parked}) \cup N BY <1>3 DEF N
            <4>2. \A q \in (1..n) : ~(q < 0) OBVIOUS
            <4>3. QED BY <1>4, <4>1, <4>2
        <3> HIDE DEF N
        <3>2. QED BY <3>1 DEF Flip
    <2> HIDE DEF to
    <2>2. N \subseteq DOMAIN b BY <1>3
    <2>3. DOMAIN to \cap DOMAIN b = N BY <2>1, <2>2
    <2>4. \A m \in N : to[m] \notin DOMAIN b
        <3>1. TAKE m \in N
        <3>2. to[m] = -m /\ -m \in U /\ -m \in 1..n BY <1>4, <2>1
        <3> HIDE DEF N
        <3>3. DOMAIN b = (((1..n) \ U) \cup {Parked}) \cup N BY <1>3 DEF N
        <3>4. -m \notin N /\ -m # Parked BY <1>4, <3>2, ParkedPlace
        <3>5. QED BY <3>2, <3>3, <3>4
    <2>5. ~Collides(b, to) BY <2>3, <2>4 DEF Collides
    <2>6. Apart(to, N)
        <3> HIDE DEF N
        <3>1. QED BY <1>4, <2>1 DEF Apart
    <2>7. c = SetIds(b, to) BY DEF to
    <2>8. /\ DOMAIN c = After(b, to, N) /\ \A m \in N : c[to[m]] = b[m] /\ \A q \in DOMAIN b \ N : c[q] = b[q]
        <3> HIDE DEF N
        <3>1. Updated(b, to, N, c) BY <2>3, <2>5, <2>6, <2>7, SetIdsRows
        <3>2. QED BY <3>1 DEF Updated
    <2>9. {to[m] : m \in N} = U \ {new}
        <3>1. \A m \in N : to[m] \in U \ {new} BY <1>4, <2>1
        <3>2. ASSUME NEW q \in U \ {new} PROVE q \in {to[m] : m \in N}
            <4>1. PICK p \in S : q = p + d BY DEF MakesRoom
            <4> DEFINE m == -(p + d)
            <4>2. m \in N OBVIOUS
            <4>3. -m = p + d BY <1>2
            <4> HIDE DEF m, N
            <4>4. to[m] = -m BY <2>1, <4>2
            <4>5. QED BY <4>1, <4>2, <4>3, <4>4
        <3>3. QED BY <3>1, <3>2
    <2>10. DOMAIN b \ N = ((1..n) \ U) \cup {Parked}
        <3> HIDE DEF N
        <3>1. DOMAIN b = (((1..n) \ U) \cup {Parked}) \cup N BY <1>3 DEF N
        <3>2. \A q \in 1..n : q \notin N BY <1>4
        <3>3. Parked \notin N BY <1>4
        <3>4. QED BY <3>1, <3>2, <3>3
    <2>11. DOMAIN c = ((1..n) \ {new}) \cup {Parked}
        <3> HIDE DEF N
        <3>1. DOMAIN c = (DOMAIN b \ N) \cup {to[m] : m \in N} BY <2>8 DEF After
        <3>2. QED BY <2>9, <2>10, <3>1
    <2>12. \A p \in S : c[p + d] = tr[p]
        <3>1. TAKE p \in S
        <3> DEFINE m == -(p + d)
        <3>2. m \in N OBVIOUS
        <3>3. -m = p + d BY <1>2
        <3>4. b[m] = tr[p] BY <1>3
        <3> HIDE DEF m, N
        <3>5. to[m] = p + d BY <2>1, <3>2, <3>3
        <3>6. c[to[m]] = b[m] BY <2>8, <3>2
        <3>7. QED BY <3>4, <3>5, <3>6
    <2>13. \A q \in DOMAIN b \ N : c[q] = b[q] BY <2>8
    <2>14. c[Parked] = tr[pos] /\ \A q \in (1..n) \ U : c[q] = tr[q]
        <3> HIDE DEF N
        <3>1. QED BY <1>3, <2>10, <2>13
    <2>15. ~Collides(b, Flip(b)) BY <2>5 DEF to
    <2> HIDE DEF N
    <2>16. QED BY <2>11, <2>12, <2>14, <2>15
<1>6. /\ ~Collides(c, Place(new)) /\ IsFunction(r) /\ DOMAIN r = 1..n /\ r[new] = tr[pos]
      /\ \A p \in S : r[p + d] = tr[p]
      /\ \A q \in (1..n) \ U : r[q] = tr[q]
    <2> DEFINE to == Place(new)
    <2>1. DOMAIN to = {Parked} /\ to[Parked] = new BY DEF Place
    <2> HIDE DEF to
    <2>2. DOMAIN to \cap DOMAIN c = {Parked} BY <1>5, <2>1
    <2>3. new \notin DOMAIN c BY <1>5, ParkedPlace
    <2>4. ~Collides(c, to) BY <2>1, <2>2, <2>3 DEF Collides
    <2>5. r = SetIds(c, to) BY DEF to
    <2>6. /\ IsFunction(r) /\ DOMAIN r = After(c, to, {Parked}) /\ \A p \in {Parked} : r[to[p]] = c[p]
          /\ \A q \in DOMAIN c \ {Parked} : r[q] = c[q]
        <3>1. Apart(to, {Parked}) BY DEF Apart
        <3>2. Updated(c, to, {Parked}, r) BY <2>2, <2>4, <2>5, <3>1, SetIdsRows
        <3>3. QED BY <3>2 DEF Updated
    <2>7. DOMAIN r = 1..n
        <3>1. {to[p] : p \in {Parked}} = {new} BY <2>1
        <3>2. DOMAIN c \ {Parked} = (1..n) \ {new} BY <1>5, ParkedPlace
        <3>3. new \in 1..n OBVIOUS
        <3>4. DOMAIN r = (DOMAIN c \ {Parked}) \cup {new} BY <2>6, <3>1 DEF After
        <3>5. QED BY <3>2, <3>3, <3>4
    <2>8. \A q \in (1..n) \ {new} : r[q] = c[q]
        <3>1. TAKE q \in (1..n) \ {new}
        <3>2. q # Parked BY ParkedPlace
        <3>3. q \in DOMAIN c \ {Parked} BY <1>5, <3>2
        <3>4. QED BY <2>6, <3>3
    <2>9. \A p \in S : p + d \in (1..n) \ {new} BY <1>2
    <2>10. r[new] = tr[pos]
        <3>1. r[to[Parked]] = c[Parked] BY <2>6
        <3>2. QED BY <1>5, <2>1, <3>1
    <2>11. \A p \in S : r[p + d] = tr[p] BY <1>5, <2>8, <2>9
    <2>12. \A q \in (1..n) \ U : r[q] = tr[q] BY <1>5, <2>8
    <2>13. ~Collides(c, Place(new)) BY <2>4 DEF to
    <2>14. QED BY <2>6, <2>7, <2>10, <2>11, <2>12, <2>13
<1>7. QED BY <1>1, <1>3, <1>5, <1>6 DEF Unrefused, ShiftedBy

LEMMA ReorderMoves ==
    ASSUME NEW n \in Nat, NEW tr, IsFunction(tr), DOMAIN tr = 1..n, NEW pos \in 1..n, NEW new \in 1..n,
           pos < -Parked, new < -Parked, NEW r, r = Reorder(tr, pos, new)
    PROVE  /\ IsFunction(r) /\ DOMAIN r = 1..n
           /\ \A k \in 1..n : r[k] = IF k = new THEN tr[pos]
                                     ELSE IF pos <= k /\ k < new THEN tr[k + 1]
                                     ELSE IF new < k /\ k <= pos THEN tr[k - 1] ELSE tr[k]
<1>1. CASE pos = new BY <1>1 DEF Reorder
<1>2. CASE pos # new
    <2> DEFINE S == IF pos < new THEN (pos + 1)..new ELSE new..(pos - 1)
               U == IF pos < new THEN pos..new ELSE new..pos
               d == IF pos < new THEN -1 ELSE 1
               a == SetIds(tr, Park(pos))
               sh == Shift(a, pos, new)
               b == SetIds(a, sh)
               c == SetIds(b, Flip(b))
    <2>1. /\ U \in SUBSET (1..n) /\ pos \in U /\ S = U \ {pos} /\ d \in Int /\ new \in S
          /\ UnderParked(U)
        BY <1>2, ParkedPlace DEF UnderParked
    <2>2. MakesRoom(S, U, d, new)
        <3>1. \A p \in S : p + d \in U \ {new} BY <1>2
        <3>2. \A q \in U \ {new} : q - d \in S /\ q = (q - d) + d BY <1>2
        <3> HIDE DEF S, U, d
        <3>3. QED BY <3>1, <3>2 DEF MakesRoom
    <2>3. S \subseteq DOMAIN a
        <3>1. \A q \in DOMAIN tr : q # pos => q \in DOMAIN a BY DEF SetIds, Park
        <3> HIDE DEF a
        <3>2. QED BY <2>1, <3>1
    <2>4. \A q \in DOMAIN a : q \in Int
        <3>1. DOMAIN a = (DOMAIN tr \ (DOMAIN Park(pos) \cap DOMAIN tr)) \cup {Park(pos)[p] : p \in DOMAIN Park(pos) \cap DOMAIN tr}
            BY DEF SetIds
        <3>2. QED BY <3>1, ParkedPlace DEF Park
    <2>5. Shifts(sh, S, d)
        <3> HIDE DEF a
        <3>1. CASE pos < new
            <4>1. {p \in DOMAIN a : pos < p /\ p <= new} = S BY <2>3, <2>4, <3>1
            <4>2. \A p \in S : -(p - 1) = -(p + d) BY <3>1
            <4>3. sh = [p \in {p \in DOMAIN a : pos < p /\ p <= new} |-> -(p - 1)] BY <3>1 DEF Shift
            <4> HIDE DEF S, U, d, sh
            <4>4. QED BY <4>1, <4>2, <4>3 DEF Shifts
        <3>2. CASE ~(pos < new)
            <4>1. {p \in DOMAIN a : new <= p /\ p < pos} = S BY <2>3, <2>4, <3>2
            <4>2. \A p \in S : -(p + 1) = -(p + d) BY <3>2
            <4>3. sh = [p \in {p \in DOMAIN a : new <= p /\ p < pos} |-> -(p + 1)] BY <3>2 DEF Shift
            <4> HIDE DEF S, U, d, sh
            <4>4. QED BY <4>1, <4>2, <4>3 DEF Shifts
        <3>3. QED BY <3>1, <3>2
    <2>6. r = IF Collides(tr, Park(pos)) \/ Collides(a, sh) \/ Collides(b, Flip(b)) \/ Collides(c, Place(new))
              THEN tr ELSE SetIds(c, Place(new))
        BY <1>2 DEF Reorder, Park, Shift, Flip, Place
    <2>7. Unrefused(tr, a, sh, b, c, pos, new) /\ ShiftedBy(tr, SetIds(c, Place(new)), S, U, d, pos, new, n)
        <3> HIDE DEF c
        <3>1. c = SetIds(b, Flip(b)) BY DEF c
        <3> HIDE DEF b
        <3>2. b = SetIds(a, sh) BY DEF b
        <3> HIDE DEF sh
        <3> HIDE DEF a
        <3>3. a = SetIds(tr, Park(pos)) BY DEF a
        <3> HIDE DEF S, U, d
        <3> DEFINE z == SetIds(c, Place(new))
        <3>4. z = SetIds(c, Place(new)) OBVIOUS
        <3> HIDE DEF z
        <3>5. Unrefused(tr, a, sh, b, c, pos, new) /\ ShiftedBy(tr, z, S, U, d, pos, new, n)
            BY <2>1, <2>2, <2>5, <3>1, <3>2, <3>3, <3>4, MoveRows
        <3>6. QED BY <3>5 DEF z
    <2> HIDE DEF c
    <2>8. /\ IsFunction(r) /\ DOMAIN r = 1..n /\ r[new] = tr[pos]
          /\ \A p \in S : r[p + d] = tr[p]
          /\ \A q \in (1..n) \ U : r[q] = tr[q]
        <3> HIDE DEF b, sh, S, U, d
        <3> HIDE DEF a
        <3>1. r = SetIds(c, Place(new)) BY <2>6, <2>7 DEF Unrefused
        <3>2. QED BY <2>7, <3>1 DEF ShiftedBy
    <2>9. ASSUME NEW k \in 1..n
          PROVE  r[k] = IF k = new THEN tr[pos]
                        ELSE IF pos <= k /\ k < new THEN tr[k + 1]
                        ELSE IF new < k /\ k <= pos THEN tr[k - 1] ELSE tr[k]
        <3>1. CASE k = new BY <2>8, <3>1
        <3>2. CASE k # new /\ pos <= k /\ k < new
            <4>1. k + 1 \in S /\ (k + 1) + d = k BY <3>2
            <4> HIDE DEF S, U, d
            <4>2. QED BY <2>8, <3>2, <4>1
        <3>3. CASE k # new /\ ~(pos <= k /\ k < new) /\ new < k /\ k <= pos
            <4>1. k - 1 \in S /\ (k - 1) + d = k BY <3>3
            <4> HIDE DEF S, U, d
            <4>2. QED BY <2>8, <3>3, <4>1
        <3>4. CASE k # new /\ ~(pos <= k /\ k < new) /\ ~(new < k /\ k <= pos)
            <4>1. k \in (1..n) \ U BY <1>2, <3>4
            <4> HIDE DEF S, U, d
            <4>2. r[k] = tr[k] BY <2>8, <4>1
            <4>3. QED BY <3>4, <4>2
        <3>5. QED BY <3>1, <3>2, <3>3, <3>4
    <2>10. QED BY <2>8, <2>9
<1>3. QED BY <1>1, <1>2

(* What is listed *)

LEMMA InOrderIs ==
    ASSUME NEW tr, Table(tr)
    PROVE  /\ Cardinality(DOMAIN tr) \in Nat /\ InOrder(tr) \in Seq(Songs) /\ Len(InOrder(tr)) = Cardinality(DOMAIN tr)
           /\ \A i \in 1..Cardinality(DOMAIN tr) : InOrder(tr)[i] = tr[Nth(DOMAIN tr, i)]
<1> DEFINE c == Cardinality(DOMAIN tr)
<1>1. c \in Nat BY FS_CardinalityType DEF Table
<1>2. InOrder(tr) = [i \in 1..c |-> tr[Nth(DOMAIN tr, i)]] BY DEF InOrder
<1>3. \A i \in 1..c : Nth(DOMAIN tr, i) \in DOMAIN tr
    <2>1. IsFiniteSet(DOMAIN tr) /\ \A p \in DOMAIN tr : p \in Int BY DEF Table
    <2> HIDE DEF c
    <2>2. c = Cardinality(DOMAIN tr) BY DEF c
    <2>3. QED BY <2>1, <2>2, NthFacts
<1>4. \A i \in 1..c : tr[Nth(DOMAIN tr, i)] \in Songs BY <1>3 DEF Table
<1> HIDE DEF c
<1>5. InOrder(tr) \in Seq(Songs) /\ Len(InOrder(tr)) = c BY <1>1, <1>2, <1>4
<1>6. \A i \in 1..c : InOrder(tr)[i] = tr[Nth(DOMAIN tr, i)] BY <1>2
<1>7. QED BY <1>1, <1>5, <1>6 DEF c

LEMMA BackwardsIs ==
    ASSUME NEW S, NEW list \in Seq(S)
    PROVE  /\ Backwards(list) \in Seq(S) /\ Len(Backwards(list)) = Len(list)
           /\ \A i \in 1..Len(list) : Backwards(list)[i] = list[Len(list) + 1 - i]
<1>1. Len(list) \in Nat /\ \A i \in 1..Len(list) : list[i] \in S OBVIOUS
<1>2. \A i \in 1..Len(list) : Len(list) + 1 - i \in 1..Len(list) BY <1>1
<1>3. QED BY <1>1, <1>2 DEF Backwards

LEMMA SeqTable ==
    ASSUME NEW list \in Seq(Songs)
    PROVE  /\ Table(list) /\ IsFunction(list) /\ DOMAIN list = 1..Len(list) /\ Len(list) \in Nat
           /\ Cardinality(DOMAIN list) = Len(list)
<1>1. Len(list) \in Nat /\ DOMAIN list = 1..Len(list) /\ \A i \in 1..Len(list) : list[i] \in Songs OBVIOUS
<1>2. \A n \in Nat : IsFiniteSet(1..n) /\ Cardinality(1..n) = n BY FS_Interval
<1>3. list = [p \in DOMAIN list |-> list[p]] OBVIOUS
<1>4. QED BY <1>1, <1>2, <1>3 DEF Table, IsFunction

LEMMA NumberedIs ==
    ASSUME NEW tr, Table(tr)
    PROVE  /\ Numbered(tr) \in Seq(Songs) /\ Len(Numbered(tr)) = Cardinality(DOMAIN tr)
           /\ \A i \in 1..Cardinality(DOMAIN tr) :
                Numbered(tr)[i] = tr[Nth(DOMAIN tr, Cardinality(DOMAIN tr) + 1 - i)]
<1> DEFINE c == Cardinality(DOMAIN tr)
           list == InOrder(tr)
<1>1. c \in Nat /\ list \in Seq(Songs) /\ Len(list) = c /\ \A i \in 1..c : list[i] = tr[Nth(DOMAIN tr, i)] BY InOrderIs
<1>2. \A i \in 1..c : c + 1 - i \in 1..c BY <1>1
<1>3. Numbered(tr) = Backwards(list) BY DEF Numbered
<1> HIDE DEF c, list
<1>4. Backwards(list) \in Seq(Songs) /\ Len(Backwards(list)) = c /\ \A i \in 1..c : Backwards(list)[i] = list[c + 1 - i]
    BY <1>1, BackwardsIs
<1>5. \A i \in 1..c : Numbered(tr)[i] = tr[Nth(DOMAIN tr, c + 1 - i)] BY <1>1, <1>2, <1>3, <1>4
<1>6. QED BY <1>3, <1>4, <1>5 DEF c

\* A list without gaps is listed as it is.
LEMMA InOrderOfDense ==
    ASSUME NEW list \in Seq(Songs) PROVE InOrder(list) = list
<1>1. /\ Table(list) /\ IsFunction(list) /\ DOMAIN list = 1..Len(list) /\ Len(list) \in Nat
      /\ Cardinality(DOMAIN list) = Len(list)
    BY SeqTable
<1>2. /\ InOrder(list) \in Seq(Songs) /\ Len(InOrder(list)) = Len(list)
      /\ \A i \in 1..Len(list) : InOrder(list)[i] = list[Nth(1..Len(list), i)]
    BY <1>1, InOrderIs
<1>3. \A i \in 1..Len(list) : InOrder(list)[i] = list[i] BY <1>1, <1>2, NthInterval
<1>4. QED BY <1>2, <1>3

\* Negating positive positions and numbering them keeps the order.
LEMMA NegatedOrder ==
    ASSUME NEW tr, Table(tr), \A p \in DOMAIN tr : p > 0, NEW r, r = SetIds(tr, Negated(tr))
    PROVE  /\ ~Collides(tr, Negated(tr)) /\ Table(r) /\ Numbered(r) = InOrder(tr)
<1> DEFINE D == DOMAIN tr
           to == Negated(tr)
           N == {-p : p \in D}
           c == Cardinality(D)
<1>1. IsFiniteSet(D) /\ \A p \in D : p \in Int /\ p > 0 BY DEF Table
<1>2. DOMAIN to = D /\ \A p \in D : to[p] = -p BY <1>1 DEF Negated
<1> HIDE DEF to
<1>3. DOMAIN to \cap DOMAIN tr = D BY <1>2
<1>4. ~Collides(tr, to) BY <1>1, <1>2 DEF Collides
<1>5. Apart(to, D) BY <1>1, <1>2 DEF Apart
<1>6. Updated(tr, to, D, r) BY <1>3, <1>4, <1>5, SetIdsRows DEF to
<1>7. DOMAIN r = N
    <2>1. DOMAIN r = (D \ D) \cup {to[p] : p \in D} BY <1>6 DEF Updated, After
    <2>2. {to[p] : p \in D} = N BY <1>2
    <2>3. QED BY <2>1, <2>2
<1>8. \A p \in D : r[-p] = tr[p] BY <1>2, <1>6 DEF Updated
<1>9. IsFiniteSet(N) /\ Cardinality(N) = c /\ (\A p \in N : p \in Int) /\ \A i \in 1..c : Nth(N, c + 1 - i) = -Nth(D, i)
    <2> HIDE DEF D, N, c
    <2>1. N = {-p : p \in D} /\ c = Cardinality(D) BY DEF N, c
    <2>2. \A p \in D : p \in Int BY <1>1
    <2>3. QED BY <1>1, <2>1, <2>2, NthNegated
<1>10. Table(r)
    <2>1. \A m \in N : r[m] \in Songs BY <1>8 DEF Table
    <2>2. r = [p \in DOMAIN r |-> r[p]] BY <1>6 DEF Updated, IsFunction
    <2> HIDE DEF N
    <2>3. QED BY <1>7, <1>9, <2>1, <2>2 DEF Table
<1>11. /\ Numbered(r) \in Seq(Songs) /\ Len(Numbered(r)) = c
       /\ \A i \in 1..c : Numbered(r)[i] = r[Nth(N, c + 1 - i)]
    <2> HIDE DEF N, c
    <2>1. Cardinality(DOMAIN r) = c BY <1>7, <1>9
    <2>2. QED BY <1>7, <1>10, <2>1, NumberedIs
<1>12. /\ c \in Nat /\ InOrder(tr) \in Seq(Songs) /\ Len(InOrder(tr)) = c
       /\ \A i \in 1..c : InOrder(tr)[i] = tr[Nth(D, i)]
    BY InOrderIs
<1>13. \A i \in 1..c : Nth(D, i) \in D
    <2> HIDE DEF D, c
    <2>1. c = Cardinality(D) BY DEF c
    <2>2. \A p \in D : p \in Int BY <1>1
    <2>3. QED BY <1>1, <2>1, <2>2, NthFacts
<1> HIDE DEF N, D, c
<1>14. \A i \in 1..c : Numbered(r)[i] = InOrder(tr)[i] BY <1>8, <1>9, <1>11, <1>12, <1>13
<1>15. Numbered(r) = InOrder(tr) BY <1>11, <1>12, <1>14
<1>16. QED BY <1>4, <1>10, <1>15 DEF to

LEMMA MovedList ==
    ASSUME NEW list \in Seq(Songs), NEW pos \in DOMAIN list, NEW new \in DOMAIN list, pos < -Parked, new < -Parked
    PROVE  /\ Reorder(list, pos, new) \in Seq(Songs)
           /\ Reorder(list, pos, new) = PutIn(TakenOut(list, pos), new, list[pos])
<1> DEFINE n == Len(list)
           r == Reorder(list, pos, new)
           out == TakenOut(list, pos)
<1>1. IsFunction(list) /\ DOMAIN list = 1..n /\ n \in Nat BY SeqTable
<1> HIDE DEF r, n
<1>2. pos \in 1..n /\ new \in 1..n BY <1>1
<1>3. /\ IsFunction(r) /\ DOMAIN r = 1..n
      /\ \A k \in 1..n : r[k] = IF k = new THEN list[pos]
                                ELSE IF pos <= k /\ k < new THEN list[k + 1]
                                ELSE IF new < k /\ k <= pos THEN list[k - 1] ELSE list[k]
    BY <1>1, <1>2, ReorderMoves DEF r
<1>4. \A k \in 1..n : list[k] \in Songs BY <1>1 DEF n
<1>5. out = [k \in 1..(n - 1) |-> IF k < pos THEN list[k] ELSE list[k + 1]] BY DEF TakenOut, n
<1>6. \A k \in 1..(n - 1) : k \in 1..n /\ k + 1 \in 1..n BY <1>1
<1>7. out \in Seq(Songs) /\ Len(out) = n - 1
    <2>1. n - 1 \in Nat BY <1>1, <1>2
    <2>2. \A k \in 1..(n - 1) : (IF k < pos THEN list[k] ELSE list[k + 1]) \in Songs BY <1>4, <1>6
    <2> HIDE DEF out
    <2>3. QED BY <1>5, <2>1, <2>2
<1>8. \A k \in 1..(n - 1) : out[k] = IF k < pos THEN list[k] ELSE list[k + 1] BY <1>5
<1> HIDE DEF out
<1>9. PutIn(out, new, list[pos]) = [k \in 1..n |-> IF k < new THEN out[k] ELSE IF k = new THEN list[pos] ELSE out[k - 1]]
    <2>1. Len(out) + 1 = n BY <1>1, <1>7
    <2>2. QED BY <2>1 DEF PutIn
<1>10. ASSUME NEW k \in 1..n
       PROVE  r[k] = IF k < new THEN out[k] ELSE IF k = new THEN list[pos] ELSE out[k - 1]
    <2>1. CASE k = new BY <1>3, <2>1
    <2>2. CASE k < new
        <3>1. k \in 1..(n - 1) BY <1>1, <1>2, <2>2
        <3>2. out[k] = IF k < pos THEN list[k] ELSE list[k + 1] BY <1>8, <3>1
        <3>3. r[k] = IF pos <= k THEN list[k + 1] ELSE list[k] BY <1>1, <1>2, <1>3, <2>2
        <3>4. QED BY <1>2, <2>2, <3>2, <3>3
    <2>3. CASE k > new
        <3>1. k - 1 \in 1..(n - 1) BY <1>1, <1>2, <2>3
        <3>2. out[k - 1] = IF k - 1 < pos THEN list[k - 1] ELSE list[(k - 1) + 1] BY <1>8, <3>1
        <3>3. r[k] = IF k <= pos THEN list[k - 1] ELSE list[k] BY <1>1, <1>2, <1>3, <2>3
        <3>4. (k - 1) + 1 = k /\ (k - 1 < pos <=> k <= pos) BY <1>1, <1>2
        <3>5. QED BY <1>1, <1>2, <2>3, <3>2, <3>3, <3>4
    <2>4. QED BY <1>1, <1>2, <2>1, <2>2, <2>3
<1>11. r = PutIn(out, new, list[pos]) BY <1>3, <1>9, <1>10 DEF IsFunction
<1>12. \A k \in 1..n : r[k] \in Songs
    <2>1. TAKE k \in 1..n
    <2>2. k < new => k \in 1..(n - 1) BY <1>1, <1>2
    <2>3. k > new => k - 1 \in 1..(n - 1) BY <1>1, <1>2
    <2>4. \A i \in 1..(n - 1) : out[i] \in Songs BY <1>7
    <2>5. list[pos] \in Songs BY <1>2, <1>4
    <2>6. QED BY <1>1, <1>2, <1>10, <2>2, <2>3, <2>4, <2>5
<1>13. r \in Seq(Songs) BY <1>1, <1>3, <1>12 DEF IsFunction
<1>14. QED BY <1>11, <1>13 DEF r, out

LEMMA WithoutIs ==
    ASSUME NEW tr, Table(tr), NEW P PROVE Table(Without(tr, P)) /\ DOMAIN Without(tr, P) = DOMAIN tr \ P
<1> DEFINE w == Without(tr, P)
<1>1. w = [p \in DOMAIN tr \ P |-> tr[p]] BY DEF Without
<1> HIDE DEF w
<1>2. DOMAIN w = DOMAIN tr \ P /\ w = [p \in DOMAIN w |-> w[p]] /\ \A p \in DOMAIN w : w[p] = tr[p] BY <1>1
<1>3. IsFiniteSet(DOMAIN w) BY <1>2, FS_Subset DEF Table
<1>4. \A p \in DOMAIN w : p \in Int /\ w[p] \in Songs BY <1>2 DEF Table
<1>5. Table(w) BY <1>2, <1>3, <1>4 DEF Table
<1>6. QED BY <1>2, <1>5 DEF w

\* What is left of a list without gaps.
LEMMA KeptList ==
    ASSUME NEW list \in Seq(Songs), NEW P
    PROVE  /\ Table(Without(list, P)) /\ \A p \in DOMAIN Without(list, P) : p > 0
           /\ InOrder(Without(list, P)) = AtPlaces(list, (1..Len(list)) \ P)
<1> DEFINE w == Without(list, P)
           at == (1..Len(list)) \ P
<1>1. Table(list) /\ DOMAIN list = 1..Len(list) /\ Len(list) \in Nat BY SeqTable
<1>2. Table(w) /\ DOMAIN w = at BY <1>1, WithoutIs
<1>3. \A p \in DOMAIN w : p > 0 BY <1>1, <1>2
<1>4. \A p \in at : w[p] = list[p] BY <1>1 DEF Without
<1>5. IsFiniteSet(at) /\ \A p \in at : p \in Int BY <1>2 DEF Table
<1> HIDE DEF w, at
<1>6. InOrder(w) = [i \in 1..Cardinality(at) |-> w[Nth(at, i)]] BY <1>2 DEF InOrder
<1>7. \A i \in 1..Cardinality(at) : Nth(at, i) \in at BY <1>5, NthFacts
<1>8. \A i \in 1..Cardinality(at) : w[Nth(at, i)] = list[Nth(at, i)] BY <1>4, <1>7
<1>9. InOrder(w) = [i \in 1..Cardinality(at) |-> list[Nth(at, i)]] BY <1>6, <1>8
<1>10. InOrder(w) = AtPlaces(list, at) BY <1>9 DEF AtPlaces
<1>11. QED BY <1>2, <1>3, <1>10 DEF w, at

LEMMA NextOfDense == ASSUME NEW list \in Seq(Songs) PROVE NextPosition(list) = Len(list) + 1
<1>1. DOMAIN list = 1..Len(list) /\ Len(list) \in Nat BY SeqTable
<1>2. CASE Len(list) = 0
    <2>1. DOMAIN list = {} BY <1>1, <1>2
    <2>2. QED BY <1>2, <2>1 DEF NextPosition
<1>3. CASE Len(list) # 0
    <2>1. DOMAIN list # {} BY <1>1, <1>3
    <2>2. Len(list) \in DOMAIN list /\ \A q \in DOMAIN list : q <= Len(list) BY <1>1, <1>3
    <2>3. \A p \in DOMAIN list : (\A q \in DOMAIN list : q <= p) => p = Len(list) BY <1>1, <2>2
    <2>4. (CHOOSE p \in DOMAIN list : \A q \in DOMAIN list : q <= p) = Len(list) BY <2>2, <2>3
    <2>5. QED BY <2>1, <2>4 DEF NextPosition
<1>4. QED BY <1>2, <1>3

LEMMA NextIsPositive ==
    ASSUME NEW tr, Table(tr)
    PROVE  /\ NextPosition(tr) \in Int
           /\ (\A p \in DOMAIN tr : p > 0) => NextPosition(tr) > 0
<1> DEFINE top == CHOOSE p \in DOMAIN tr : \A q \in DOMAIN tr : q <= p
<1>1. CASE DOMAIN tr = {} BY <1>1 DEF NextPosition
<1>2. CASE DOMAIN tr # {}
    <2>1. \E p \in DOMAIN tr : \A q \in DOMAIN tr : q <= p
        <3>1. IsFiniteSet(DOMAIN tr) /\ \A p \in DOMAIN tr : p \in Int BY DEF Table
        <3>2. QED BY <1>2, <3>1, Greatest
    <2>2. top \in DOMAIN tr BY <2>1
    <2>3. NextPosition(tr) = top + 1 BY <1>2 DEF NextPosition
    <2> HIDE DEF top
    <2>4. QED BY <2>2, <2>3 DEF Table
<1>3. QED BY <1>1, <1>2

LEMMA InsertedIs ==
    ASSUME NEW tr, Table(tr), NEW from \in Int, NEW songs \in Seq(Songs)
    PROVE  /\ Table(Inserted(tr, from, songs))
           /\ (\A p \in DOMAIN tr : p > 0) /\ from > 0 => \A p \in DOMAIN Inserted(tr, from, songs) : p > 0
<1> DEFINE D == DOMAIN tr \cup from..(from + Len(songs) - 1)
           w == Inserted(tr, from, songs)
<1>1. w = [p \in D |-> IF p \in DOMAIN tr THEN tr[p] ELSE songs[p - from + 1]] BY DEF Inserted
<1> HIDE DEF w
<1>2. DOMAIN w = D /\ w = [p \in DOMAIN w |-> w[p]] BY <1>1
<1>3. Len(songs) \in Nat OBVIOUS
<1>4. IsFiniteSet(from..(from + Len(songs) - 1)) BY <1>3, FS_Interval
<1>5. IsFiniteSet(D) BY <1>4, FS_Union DEF Table
<1>6. \A p \in D : p \in Int BY <1>3 DEF Table
<1>7. ASSUME NEW p \in D PROVE w[p] \in Songs
    <2>1. CASE p \in DOMAIN tr BY <1>1, <2>1 DEF Table
    <2>2. CASE p \notin DOMAIN tr
        <3>1. p \in from..(from + Len(songs) - 1) BY <2>2
        <3>2. p - from + 1 \in 1..Len(songs) BY <1>3, <3>1
        <3>3. songs[p - from + 1] \in Songs BY <3>2
        <3>4. QED BY <1>1, <2>2, <3>3
    <2>3. QED BY <2>1, <2>2
<1>8. (\A p \in DOMAIN tr : p > 0) /\ from > 0 => \A p \in D : p > 0 BY <1>3
<1> HIDE DEF D
<1>9. Table(w) BY <1>2, <1>5, <1>6, <1>7 DEF Table
<1>10. QED BY <1>2, <1>8, <1>9 DEF w

LEMMA InsertedList ==
    ASSUME NEW list \in Seq(Songs), NEW songs \in Seq(Songs)
    PROVE  Inserted(list, Len(list) + 1, songs) = list \o songs
<1> DEFINE n == Len(list)
           m == Len(songs)
           w == Inserted(list, n + 1, songs)
<1>1. n \in Nat /\ m \in Nat /\ DOMAIN list = 1..n /\ DOMAIN songs = 1..m OBVIOUS
<1>2. DOMAIN list \cup (n + 1)..((n + 1) + m - 1) = 1..(n + m) BY <1>1
<1>3. w = [p \in DOMAIN list \cup (n + 1)..((n + 1) + m - 1) |-> IF p \in DOMAIN list THEN list[p] ELSE songs[p - (n + 1) + 1]]
    BY DEF Inserted
<1> HIDE DEF w
<1>4. w = [p \in 1..(n + m) |-> IF p \in DOMAIN list THEN list[p] ELSE songs[p - (n + 1) + 1]] BY <1>2, <1>3
<1>5. list \o songs \in Seq(Songs) /\ Len(list \o songs) = n + m OBVIOUS
<1>6. \A p \in 1..(n + m) : (list \o songs)[p] = IF p \in 1..n THEN list[p] ELSE songs[p - n] OBVIOUS
<1>7. \A p \in 1..(n + m) : p - (n + 1) + 1 = p - n BY <1>1
<1>8. \A p \in 1..(n + m) : w[p] = (list \o songs)[p] BY <1>1, <1>4, <1>6, <1>7
<1>9. DOMAIN w = 1..(n + m) /\ w = [p \in 1..(n + m) |-> w[p]] BY <1>4
<1>10. w = list \o songs
    <2> DEFINE z == list \o songs
    <2> HIDE DEF z, n, m
    <2>1. \A p \in 1..(n + m) : w[p] = z[p] BY <1>8 DEF z
    <2>2. z \in Seq(Songs) /\ Len(z) = n + m BY <1>5 DEF z
    <2>3. IsFunction(z) /\ DOMAIN z = 1..(n + m) BY <2>2, SeqTable
    <2>4. w = z BY <1>9, <2>1, <2>3 DEF IsFunction
    <2>5. QED BY <2>4 DEF z
<1>11. QED BY <1>10 DEF w

--------------------------------------------------------------------------------
(* The invariant *)

AddWork == [at : {"idle", "insert", "read", "count"}, songs : Seq(Songs), from : Int, n : Nat]
CleanWork == [at : {"idle", "find", "delete", "negate", "number", "read", "count"}, n : Nat]

ListTypes ==
    /\ Table(plTracks) /\ inLibrary \in SUBSET Songs
    /\ listEdit \in [Adders -> AddWork] /\ cleaner \in CleanWork
    /\ cleaner.at # "idle" => inLibrary # Songs
    /\ sparse \in BOOLEAN /\ torn \in BOOLEAN /\ miscounted \in BOOLEAN

Inserting(e) == listEdit[e].at = "insert"

\* Until the clean-up has negated the positions they are positive.
PositionsArePositive ==
    inLibrary = Songs \/ cleaner.at \in {"find", "delete", "negate"} =>
        /\ \A p \in DOMAIN plTracks : p > 0
        /\ \A e \in Adders : Inserting(e) => listEdit[e].from > 0

InsertsAtEnd == ~sparse => \A e \in Adders : Inserting(e) => listEdit[e].from = NextPosition(plTracks)

Counts == CountIn(plTracks, inLibrary)

\* The count that is stored, or about to be, is right, or will be read again.
AwaitsClean == cleaner.at \in {"find", "delete"} /\ Orphans # {}
CountsFollow ==
    ~torn /\ ~miscounted =>
        /\ \/ songCount = Counts \/ AwaitsClean
           \/ \E e \in Adders : listEdit[e].at \in {"read", "count"}
           \/ cleaner.at \in {"negate", "number", "read", "count"}
        /\ \A e \in Adders : listEdit[e].at = "count" => listEdit[e].n = Counts \/ AwaitsClean
        /\ cleaner.at = "count" => cleaner.n = Counts

\* Between its two statements on the positions they are negative.
PositionsAreNegative == cleaner.at = "number" /\ ~sparse => \A p \in DOMAIN plTracks : p < 0

\* Outside of the clean-up the positions have no gap.
Ordered == ~sparse /\ ~torn /\ cleaner.at \notin {"negate", "number"} => plTracks \in Seq(Songs)

ListInv == ListTypes /\ PositionsArePositive /\ PositionsAreNegative /\ InsertsAtEnd /\ CountsFollow /\ Ordered

EditOK == <<plTracks, lastEdit>>' # <<plTracks, lastEdit>> /\ ~torn /\ ~sparse' => MeansWhatItSays(Listed, Listed')

LEMMA CountType == ASSUME NEW tr, Table(tr), NEW X PROVE CountIn(tr, X) \in Nat
<1>1. {p \in DOMAIN tr : tr[p] \in X} \subseteq DOMAIN tr /\ IsFiniteSet(DOMAIN tr) BY DEF Table
<1>2. IsFiniteSet({p \in DOMAIN tr : tr[p] \in X}) BY <1>1, FS_Subset
<1>3. QED BY <1>2, FS_CardinalityType DEF CountIn

LEMMA ListInit_Inv == ASSUME PlaylistInit PROVE ListInv
<1>1. Imported \in Seq(Songs) BY PlaylistAssumption DEF PlaylistAssumption
<1>2. Table(plTracks) /\ plTracks \in Seq(Songs) /\ DOMAIN plTracks = 1..Len(plTracks) /\ Len(plTracks) \in Nat
      /\ Cardinality(DOMAIN plTracks) = Len(plTracks)
    BY <1>1, SeqTable DEF PlaylistInit
<1>3. NoListEdit \in AddWork /\ NoListEdit.at = "idle" BY DEF NoListEdit, AddWork
<1>4. listEdit \in [Adders -> AddWork] /\ \A e \in Adders : listEdit[e].at = "idle" BY <1>3 DEF PlaylistInit
<1>5. cleaner \in CleanWork /\ cleaner.at = "idle" BY DEF PlaylistInit, CleanWork
<1>6. ListTypes BY <1>2, <1>4, <1>5 DEF ListTypes, PlaylistInit
<1>7. PositionsArePositive /\ PositionsAreNegative /\ InsertsAtEnd
    BY <1>2, <1>4, <1>5 DEF PositionsArePositive, PositionsAreNegative, InsertsAtEnd, Inserting
<1>8. songCount = Counts
    <2>1. {p \in DOMAIN plTracks : plTracks[p] \in inLibrary} = DOMAIN plTracks BY <1>2 DEF PlaylistInit, Table
    <2>2. QED BY <1>2, <2>1 DEF PlaylistInit, Counts, CountIn
<1>9. CountsFollow BY <1>4, <1>5, <1>8 DEF CountsFollow
<1>10. Ordered BY <1>2 DEF Ordered
<1>11. QED BY <1>6, <1>7, <1>9, <1>10 DEF ListInv

LEMMA ListStutter == ASSUME ListInv, UNCHANGED playlistVars PROVE ListInv' /\ EditOK
<1>1. ListTypes' BY DEF ListInv, ListTypes, playlistVars
<1>2. PositionsArePositive' /\ PositionsAreNegative' /\ InsertsAtEnd' /\ Ordered'
    BY DEF ListInv, PositionsArePositive, PositionsAreNegative, InsertsAtEnd, Inserting, Ordered, playlistVars
<1>3. Counts' = Counts /\ AwaitsClean' = AwaitsClean BY DEF Counts, AwaitsClean, Orphans, playlistVars
<1>4. CountsFollow' BY <1>3 DEF ListInv, CountsFollow, playlistVars
<1>5. EditOK BY DEF EditOK, playlistVars
<1>6. QED BY <1>1, <1>2, <1>4, <1>5 DEF ListInv

\* The rows stay: a request moves on.
LEMMA EditGoesOn ==
    ASSUME ListInv, NEW e \in Adders, NEW k \in AddWork, listEdit' = [listEdit EXCEPT ![e] = k],
           UNCHANGED <<plTracks, inLibrary, cleaner, sparse, torn>>, miscounted' \in BOOLEAN,
           k.at = "insert" => k.from = NextPosition(plTracks) \/ (Inserting(e) /\ k.from = listEdit[e].from),
           ~torn /\ ~miscounted' =>
              /\ \/ songCount' = Counts \/ AwaitsClean
                 \/ \E g \in Adders : listEdit'[g].at \in {"read", "count"}
                 \/ cleaner.at \in {"negate", "number", "read", "count"}
              /\ ~miscounted
              /\ k.at = "count" => k.n = Counts \/ AwaitsClean
    PROVE  ListInv'
<1>1. listEdit' \in [Adders -> AddWork] /\ \A g \in Adders : listEdit'[g] = IF g = e THEN k ELSE listEdit[g]
    BY DEF ListInv, ListTypes
<1>2. Table(plTracks) /\ NextPosition(plTracks) \in Int BY NextIsPositive DEF ListInv, ListTypes
<1>3. ListTypes' BY <1>1 DEF ListInv, ListTypes
<1>4. PositionsArePositive'
    <2> SUFFICES ASSUME inLibrary = Songs \/ cleaner.at \in {"find", "delete", "negate"}
                 PROVE  /\ \A p \in DOMAIN plTracks : p > 0
                        /\ \A g \in Adders : listEdit'[g].at = "insert" => listEdit'[g].from > 0
        BY DEF PositionsArePositive, Inserting
    <2>1. /\ \A p \in DOMAIN plTracks : p > 0
          /\ \A g \in Adders : listEdit[g].at = "insert" => listEdit[g].from > 0
        BY DEF ListInv, PositionsArePositive, Inserting
    <2>2. NextPosition(plTracks) > 0 BY <1>2, <2>1, NextIsPositive
    <2>3. k.at = "insert" => k.from > 0 BY <2>1, <2>2 DEF Inserting
    <2>4. QED BY <1>1, <2>1, <2>3
<1>5. InsertsAtEnd'
    <2>1. ~sparse => \A g \in Adders : listEdit[g].at = "insert" => listEdit[g].from = NextPosition(plTracks)
        BY DEF ListInv, InsertsAtEnd, Inserting
    <2>2. NextPosition(plTracks)' = NextPosition(plTracks) BY DEF NextPosition
    <2>3. ~sparse' => \A g \in Adders : listEdit'[g].at = "insert" => listEdit'[g].from = NextPosition(plTracks)
        BY <1>1, <2>1 DEF Inserting
    <2>4. QED BY <2>2, <2>3 DEF InsertsAtEnd, Inserting
<1>6. Counts' = Counts /\ AwaitsClean' = AwaitsClean BY DEF Counts, AwaitsClean, Orphans
<1>7. CountsFollow'
    <2> SUFFICES ASSUME ~torn, ~miscounted'
                 PROVE  /\ \/ songCount' = Counts \/ AwaitsClean
                           \/ \E g \in Adders : listEdit'[g].at \in {"read", "count"}
                           \/ cleaner.at \in {"negate", "number", "read", "count"}
                        /\ \A g \in Adders : listEdit'[g].at = "count" => listEdit'[g].n = Counts \/ AwaitsClean
                        /\ cleaner.at = "count" => cleaner.n = Counts
        BY <1>6 DEF CountsFollow
    <2>1. /\ \A g \in Adders : listEdit[g].at = "count" => listEdit[g].n = Counts \/ AwaitsClean
          /\ cleaner.at = "count" => cleaner.n = Counts
        BY DEF ListInv, CountsFollow
    <2>2. QED BY <1>1, <2>1
<1>8. Ordered' /\ PositionsAreNegative' BY DEF ListInv, Ordered, PositionsAreNegative
<1>9. QED BY <1>3, <1>4, <1>5, <1>7, <1>8 DEF ListInv

LEMMA Add_Inv == ASSUME ListInv, NEW e \in Adders, NEW songs \in Seq(Songs), Add(e, songs) PROVE ListInv' /\ EditOK
<1> DEFINE k == [at |-> "insert", songs |-> songs, from |-> NextPosition(plTracks), n |-> 0]
<1>1. NextPosition(plTracks) \in Int BY NextIsPositive DEF ListInv, ListTypes
<1>2. k \in AddWork /\ k.at = "insert" /\ k.from = NextPosition(plTracks) BY <1>1 DEF AddWork
<1>3. listEdit' = [listEdit EXCEPT ![e] = k] BY DEF Add
<1> HIDE DEF k
<1>4. \A g \in Adders : listEdit'[g] = IF g = e THEN k ELSE listEdit[g] BY <1>3 DEF ListInv, ListTypes
<1>5. \A g \in Adders : listEdit[g].at \in {"read", "count"} => g # e BY DEF Add
<1>6. UNCHANGED <<plTracks, songCount, inLibrary, cleaner, lastEdit, sparse, torn, miscounted>> BY DEF Add
<1>7. ~torn /\ ~miscounted' =>
        /\ \/ songCount' = Counts \/ AwaitsClean
           \/ \E g \in Adders : listEdit'[g].at \in {"read", "count"}
           \/ cleaner.at \in {"negate", "number", "read", "count"}
        /\ ~miscounted
        /\ k.at = "count" => k.n = Counts \/ AwaitsClean
    BY <1>2, <1>4, <1>5, <1>6 DEF ListInv, CountsFollow
<1>8. miscounted' \in BOOLEAN BY <1>6 DEF ListInv, ListTypes
<1>9. ListInv' BY <1>2, <1>3, <1>6, <1>7, <1>8, EditGoesOn
<1>10. EditOK BY <1>6 DEF EditOK
<1>11. QED BY <1>9, <1>10

LEMMA refreshCounters_Inv == ASSUME ListInv, NEW e \in Adders, refreshCounters(e) PROVE ListInv' /\ EditOK
<1> DEFINE k == [listEdit[e] EXCEPT !.at = "count", !.n = Counts]
<1>1. Counts \in Nat BY CountType DEF ListInv, ListTypes, Counts
<1>2. listEdit[e] \in AddWork BY DEF ListInv, ListTypes
<1>3. k \in AddWork /\ k.at = "count" /\ k.n = Counts BY <1>1, <1>2 DEF AddWork
<1>4. listEdit' = [listEdit EXCEPT ![e] = k]
    <2>1. Counted(plTracks) = Counts BY DEF Counted, Counts, CountIn
    <2>2. QED BY <2>1 DEF refreshCounters
<1> HIDE DEF k
<1>5. \A g \in Adders : listEdit'[g] = IF g = e THEN k ELSE listEdit[g] BY <1>4 DEF ListInv, ListTypes
<1>6. UNCHANGED <<plTracks, songCount, inLibrary, cleaner, lastEdit, sparse, torn, miscounted>> BY DEF refreshCounters
<1>7. ~torn /\ ~miscounted' =>
        /\ \/ songCount' = Counts \/ AwaitsClean
           \/ \E g \in Adders : listEdit'[g].at \in {"read", "count"}
           \/ cleaner.at \in {"negate", "number", "read", "count"}
        /\ ~miscounted
        /\ k.at = "count" => k.n = Counts \/ AwaitsClean
    BY <1>3, <1>5, <1>6
<1>8. miscounted' \in BOOLEAN BY <1>6 DEF ListInv, ListTypes
<1>9. ListInv' BY <1>3, <1>4, <1>6, <1>7, <1>8, EditGoesOn
<1>10. EditOK BY <1>6 DEF EditOK
<1>11. QED BY <1>9, <1>10

LEMMA NoEditIs == NoListEdit \in AddWork /\ NoListEdit.at = "idle"
BY DEF NoListEdit, AddWork

LEMMA WriteCounters_Inv == ASSUME ListInv, NEW e \in Adders, WriteCounters(e) PROVE ListInv' /\ EditOK
<1>1. listEdit' = [listEdit EXCEPT ![e] = NoListEdit] BY DEF WriteCounters
<1>2. UNCHANGED <<plTracks, inLibrary, cleaner, lastEdit, sparse, torn, miscounted>> BY DEF WriteCounters
<1>3. songCount' = listEdit[e].n /\ listEdit[e].at = "count" BY DEF WriteCounters
<1>4. ~torn /\ ~miscounted' =>
        /\ \/ songCount' = Counts \/ AwaitsClean
           \/ \E g \in Adders : listEdit'[g].at \in {"read", "count"}
           \/ cleaner.at \in {"negate", "number", "read", "count"}
        /\ ~miscounted
        /\ NoListEdit.at = "count" => NoListEdit.n = Counts \/ AwaitsClean
    BY <1>2, <1>3, NoEditIs DEF ListInv, CountsFollow
<1>5. miscounted' \in BOOLEAN BY <1>2 DEF ListInv, ListTypes
<1>6. ListInv' BY <1>1, <1>2, <1>4, <1>5, NoEditIs, EditGoesOn
<1>7. EditOK BY <1>2 DEF EditOK
<1>8. QED BY <1>6, <1>7

LEMMA AddCancelled_Inv == ASSUME ListInv, NEW e \in Adders, AddCancelled(e) PROVE ListInv' /\ EditOK
<1>1. listEdit' = [listEdit EXCEPT ![e] = NoListEdit] BY DEF AddCancelled
<1>2. UNCHANGED <<plTracks, songCount, inLibrary, cleaner, lastEdit, sparse, torn>> BY DEF AddCancelled
<1>3. miscounted' = (miscounted \/ listEdit[e].at # "insert") BY DEF AddCancelled
<1>4. \A g \in Adders : listEdit'[g] = IF g = e THEN NoListEdit ELSE listEdit[g] BY <1>1 DEF ListInv, ListTypes
<1>5. ~torn /\ ~miscounted' =>
        /\ \/ songCount' = Counts \/ AwaitsClean
           \/ \E g \in Adders : listEdit'[g].at \in {"read", "count"}
           \/ cleaner.at \in {"negate", "number", "read", "count"}
        /\ ~miscounted
        /\ NoListEdit.at = "count" => NoListEdit.n = Counts \/ AwaitsClean
    <2> SUFFICES ASSUME ~torn, ~miscounted'
                 PROVE  \/ songCount = Counts \/ AwaitsClean
                        \/ \E g \in Adders : listEdit'[g].at \in {"read", "count"}
                        \/ cleaner.at \in {"negate", "number", "read", "count"}
        BY <1>2, <1>3, NoEditIs
    <2>1. ~miscounted /\ listEdit[e].at = "insert" BY <1>3
    <2>2. \A g \in Adders : listEdit[g].at \in {"read", "count"} => listEdit'[g] = listEdit[g] BY <1>4, <2>1
    <2>3. QED BY <2>1, <2>2 DEF ListInv, CountsFollow
<1>6. miscounted' \in BOOLEAN BY <1>3 DEF ListInv, ListTypes
<1>7. ListInv' BY <1>1, <1>2, <1>5, <1>6, NoEditIs, EditGoesOn
<1>8. EditOK BY <1>2 DEF EditOK
<1>9. QED BY <1>7, <1>8

\* The rows change: what was read of them before is marked.
LEMMA RowsChange ==
    ASSUME ListInv, NEW r, Table(r), ChangesTracks(r), UNCHANGED <<inLibrary, torn>>,
           listEdit' \in [Adders -> AddWork], cleaner' \in CleanWork,
           \A g \in Adders : listEdit'[g] = listEdit[g] \/ listEdit'[g].at \in {"idle", "read"},
           cleaner' = cleaner \/ cleaner'.at \in {"idle", "negate", "number", "read"},
           inLibrary = Songs \/ cleaner'.at \in {"find", "delete", "negate"} =>
              /\ inLibrary = Songs \/ cleaner.at \in {"find", "delete", "negate"}
              /\ \A p \in DOMAIN r : p > 0,
           ~torn /\ ~miscounted' =>
              \/ songCount' = CountIn(r, inLibrary)
              \/ \E g \in Adders : listEdit'[g].at \in {"read", "count"}
              \/ cleaner'.at \in {"negate", "number", "read", "count"},
           cleaner'.at # "idle" => cleaner.at # "idle",
           cleaner' # cleaner /\ cleaner'.at = "number" => \A p \in DOMAIN r : p < 0,
           ~sparse' /\ ~torn /\ cleaner'.at \notin {"negate", "number"} => r \in Seq(Songs)
    PROVE  ListInv'
<1>1. plTracks' = r /\ sparse' \in BOOLEAN /\ miscounted' \in BOOLEAN BY DEF ChangesTracks, ListInv, ListTypes, Renumbering
<1>2. ListTypes' BY <1>1 DEF ListInv, ListTypes
<1>3. PositionsArePositive'
    <2> SUFFICES ASSUME inLibrary = Songs \/ cleaner'.at \in {"find", "delete", "negate"}
                 PROVE  /\ \A p \in DOMAIN r : p > 0
                        /\ \A g \in Adders : listEdit'[g].at = "insert" => listEdit'[g].from > 0
        BY <1>1 DEF PositionsArePositive, Inserting
    <2>1. \A g \in Adders : listEdit[g].at = "insert" => listEdit[g].from > 0
        BY DEF ListInv, PositionsArePositive, Inserting
    <2>2. QED BY <2>1
<1>4. InsertsAtEnd'
    <2>1. ~sparse' => \A g \in Adders : listEdit'[g].at # "insert" BY DEF ChangesTracks
    <2>2. QED BY <2>1 DEF InsertsAtEnd, Inserting
<1>5. CountsFollow'
    <2>1. ~miscounted' => \A g \in Adders : listEdit'[g].at # "count" BY DEF ChangesTracks
    <2>2. ~miscounted' => cleaner'.at # "count" BY DEF ChangesTracks
    <2>3. Counts' = CountIn(r, inLibrary) BY <1>1 DEF Counts
    <2>4. QED BY <2>1, <2>2, <2>3 DEF CountsFollow
<1>6. Ordered' /\ PositionsAreNegative' BY <1>1 DEF Ordered, PositionsAreNegative, ChangesTracks, Renumbering
<1>7. QED BY <1>2, <1>3, <1>4, <1>5, <1>6 DEF ListInv

\* Rows that are changed by an edit, without a request or the clean-up going on.
LEMMA NotRenumbering ==
    ASSUME ListInv, ~sparse', ~torn, sparse' = (sparse \/ cleaner.at \in {"negate", "number"} \/ \E e \in Adders : Inserting(e))
    PROVE  ~sparse /\ plTracks \in Seq(Songs) /\ cleaner.at \notin {"negate", "number"} /\ \A e \in Adders : ~Inserting(e)
BY DEF ListInv, Ordered

LEMMA ListedDense ==
    ASSUME plTracks \in Seq(Songs), cleaner.at # "number" PROVE Listed = plTracks
BY InOrderOfDense DEF Listed

LEMMA ListedDensePrime ==
    ASSUME plTracks' \in Seq(Songs), cleaner'.at # "number" PROVE Listed' = plTracks'
<1>1. Listed' = InOrder(plTracks') BY DEF Listed, InOrder
<1>2. QED BY <1>1, InOrderOfDense

LEMMA ReplaceTracks_Inv ==
    ASSUME ListInv, NEW songs \in Seq(Songs), ReplaceTracks(songs) PROVE ListInv' /\ EditOK
<1> DEFINE r == IF songs = <<>> THEN plTracks ELSE songs
<1>1. Table(plTracks) /\ Table(songs) /\ DOMAIN songs = 1..Len(songs) BY SeqTable DEF ListInv, ListTypes
<1>2. UNCHANGED <<listEdit, cleaner, inLibrary, torn>> /\ ChangesTracks(r) /\ songCount' = Counted(plTracks')
    BY DEF ReplaceTracks
<1>3. Table(r) BY <1>1
<1>4. inLibrary = Songs \/ cleaner.at \in {"find", "delete", "negate"} => \A p \in DOMAIN r : p > 0
    BY <1>1 DEF ListInv, PositionsArePositive
<1> HIDE DEF r
<1>5. plTracks' = r BY <1>2 DEF ChangesTracks
<1>6. songCount' = CountIn(r, inLibrary) BY <1>2, <1>5 DEF Counted, CountIn
<1>7. sparse' = (sparse \/ cleaner.at \in {"negate", "number"} \/ \E e \in Adders : Inserting(e))
    BY <1>2 DEF ChangesTracks, Renumbering, Inserting
<1>8. ASSUME ~sparse', ~torn PROVE r \in Seq(Songs) /\ plTracks \in Seq(Songs) /\ cleaner.at \notin {"negate", "number"}
    BY <1>7, <1>8, NotRenumbering DEF r
<1>9. ListInv'
    <2>1. listEdit' \in [Adders -> AddWork] /\ cleaner' \in CleanWork BY <1>2 DEF ListInv, ListTypes
    <2>2. QED BY <1>2, <1>3, <1>4, <1>6, <1>8, <2>1, RowsChange
<1>10. EditOK
    <2> SUFFICES ASSUME ~torn, ~sparse' PROVE MeansWhatItSays(Listed, Listed') BY DEF EditOK
    <2>1. Listed = plTracks BY <1>8, ListedDense
    <2>2. Listed' = r BY <1>2, <1>5, <1>8, ListedDensePrime
    <2>3. lastEdit' = <<"replace", songs>> BY DEF ReplaceTracks, Asks
    <2>4. r = IF songs = <<>> THEN plTracks ELSE songs BY DEF r
    <2>5. QED BY <1>2, <2>1, <2>2, <2>3, <2>4 DEF MeansWhatItSays
<1>11. QED BY <1>9, <1>10

LEMMA NegatedKeeps ==
    ASSUME NEW tr, Table(tr), ~Collides(tr, Negated(tr)) PROVE Table(SetIds(tr, Negated(tr)))
<1> DEFINE to == Negated(tr)
<1>1. \A p \in DOMAIN to : p \in Int /\ to[p] = -p BY DEF Table, Negated
<1> HIDE DEF to
<1>2. \A p, q \in DOMAIN to \cap DOMAIN tr : to[p] = to[q] => p = q BY <1>1
<1>3. \A p \in DOMAIN to : to[p] \in Int BY <1>1
<1>4. ~Collides(tr, to) BY DEF to
<1>5. SongsAsBefore(tr, SetIds(tr, to)) BY <1>2, <1>3, <1>4, SetIdsKeeps
<1>6. QED BY <1>5 DEF SongsAsBefore, to

LEMMA NegativeStay == ASSUME NEW tr, \A p \in DOMAIN tr : p \in Int /\ p < 0 PROVE ~Collides(tr, Negated(tr))
<1>1. DOMAIN Negated(tr) = {} BY DEF Negated
<1>2. QED BY <1>1 DEF Collides

\* The invariant says nothing of what was asked.
LEMMA ListSame ==
    ASSUME ListInv, UNCHANGED <<plTracks, songCount, inLibrary, listEdit, cleaner, sparse, torn, miscounted>>
    PROVE  ListInv'
<1>1. ListTypes' BY DEF ListInv, ListTypes
<1>2. PositionsArePositive' /\ PositionsAreNegative' /\ InsertsAtEnd' /\ Ordered'
    BY DEF ListInv, PositionsArePositive, PositionsAreNegative, InsertsAtEnd, Inserting, Ordered
<1>3. Counts' = Counts /\ AwaitsClean' = AwaitsClean BY DEF Counts, AwaitsClean, Orphans
<1>4. CountsFollow' BY <1>3 DEF ListInv, CountsFollow
<1>5. QED BY <1>1, <1>2, <1>4 DEF ListInv

LEMMA RemoveTracks_Inv == ASSUME ListInv, NEW P, RemoveTracks(P) PROVE ListInv' /\ EditOK
<1> DEFINE left == Without(plTracks, P)
           neg == SetIds(left, Negated(left))
           r == Numbered(neg)
<1>1. Table(plTracks) BY DEF ListInv, ListTypes
<1>2. Table(left) /\ DOMAIN left \subseteq DOMAIN plTracks
    <2>1. Table(Without(plTracks, P)) /\ DOMAIN Without(plTracks, P) = DOMAIN plTracks \ P BY <1>1, WithoutIs
    <2> HIDE DEF left
    <2>2. Table(left) /\ DOMAIN left = DOMAIN plTracks \ P BY <2>1 DEF left
    <2>3. QED BY <2>2
<1>3. UNCHANGED <<listEdit, cleaner, inLibrary, torn>> /\ lastEdit' = <<"remove", P>> BY DEF RemoveTracks, Asks
<1>4. CASE Collides(left, Negated(left))
    <2>1. UNCHANGED <<plTracks, songCount, sparse, miscounted>> BY <1>4 DEF RemoveTracks
    <2>2. ListInv' BY <1>3, <2>1, ListSame
    <2>3. EditOK
        <3> SUFFICES ASSUME ~torn, ~sparse PROVE FALSE BY <2>1 DEF EditOK
        <3> HIDE DEF left
        <3>1. CASE cleaner.at = "number"
            <4>1. \A p \in DOMAIN left : p \in Int /\ p < 0 BY <1>1, <1>2, <3>1 DEF ListInv, PositionsAreNegative, Table
            <4>2. QED BY <1>4, <4>1, NegativeStay
        <3>2. CASE cleaner.at # "number"
            <4>1. \A p \in DOMAIN plTracks : p > 0
                <5>1. CASE cleaner.at = "negate" BY <5>1 DEF ListInv, PositionsArePositive
                <5>2. CASE cleaner.at # "negate"
                    <6>1. plTracks \in Seq(Songs) BY <3>2, <5>2 DEF ListInv, Ordered
                    <6>2. QED BY <6>1
                <5>3. QED BY <5>1, <5>2
            <4>2. \A p \in DOMAIN left : p > 0 BY <1>2, <4>1
            <4>3. QED BY <1>2, <1>4, <4>2, NegatedOrder
        <3>3. QED BY <3>1, <3>2
    <2>4. QED BY <2>2, <2>3
<1>5. CASE ~Collides(left, Negated(left))
    <2>1. ChangesTracks(r) /\ songCount' = Counted(plTracks') BY <1>5 DEF RemoveTracks
    <2>2. Table(neg) BY <1>2, <1>5, NegatedKeeps
    <2> HIDE DEF r, neg
    <2>3. r \in Seq(Songs) BY <2>2, NumberedIs DEF r
    <2>4. Table(r) /\ \A p \in DOMAIN r : p > 0 BY <2>3, SeqTable
    <2>5. plTracks' = r BY <2>1 DEF ChangesTracks
    <2>6. songCount' = CountIn(r, inLibrary) BY <1>3, <2>1, <2>5 DEF Counted, CountIn
    <2>7. ListInv'
        <3>1. listEdit' \in [Adders -> AddWork] /\ cleaner' \in CleanWork BY <1>3 DEF ListInv, ListTypes
        <3>2. QED BY <1>3, <2>1, <2>3, <2>4, <2>6, <3>1, RowsChange
    <2>8. EditOK
        <3> SUFFICES ASSUME ~torn, ~sparse' PROVE MeansWhatItSays(Listed, Listed') BY DEF EditOK
        <3>1. sparse' = (sparse \/ cleaner.at \in {"negate", "number"} \/ \E e \in Adders : Inserting(e))
            BY <1>3, <2>1 DEF ChangesTracks, Renumbering, Inserting
        <3>2. plTracks \in Seq(Songs) /\ cleaner.at \notin {"negate", "number"} BY <3>1, NotRenumbering
        <3>3. Listed = plTracks BY <3>2, ListedDense
        <3>4. Listed' = r BY <1>3, <2>3, <2>5, <3>2, ListedDensePrime
        <3>5. /\ Table(left) /\ (\A p \in DOMAIN left : p > 0)
              /\ InOrder(left) = AtPlaces(plTracks, (1..Len(plTracks)) \ P)
            BY <3>2, KeptList
        <3> HIDE DEF left
        <3>6. r = InOrder(left) BY <3>5, NegatedOrder DEF r, neg
        <3>7. QED BY <1>3, <3>3, <3>4, <3>5, <3>6 DEF MeansWhatItSays
    <2>9. QED BY <2>7, <2>8
<1>6. QED BY <1>4, <1>5

LEMMA ReorderTrack_Inv ==
    ASSUME ListInv, NEW pos \in 1..MaxPosition, NEW new \in 1..MaxPosition, ReorderTrack(pos, new) PROVE ListInv' /\ EditOK
<1> DEFINE r == Reorder(plTracks, pos, new)
<1>1. pos \in Nat \ {0} /\ new \in Nat \ {0} /\ pos < -Parked /\ new < -Parked
    BY ParkedPlace, PlaylistAssumption DEF PlaylistAssumption
<1>2. Table(plTracks) BY DEF ListInv, ListTypes
<1>3. plTracks' = r /\ UNCHANGED <<songCount, listEdit, cleaner, inLibrary, torn, miscounted>> /\ lastEdit' = <<"move", pos, new>>
    BY DEF ReorderTrack, Asks
<1>4. sparse' = (sparse \/ pos \notin DOMAIN plTracks \/ new \notin DOMAIN plTracks
                        \/ cleaner.at \in {"negate", "number"} \/ \E e \in Adders : Inserting(e))
    BY DEF ReorderTrack, Inserting
<1>5. SongsAsBefore(plTracks, r) BY <1>1, <1>2, ReorderKeeps
<1>6. (\A p \in DOMAIN plTracks : p > 0) => \A p \in DOMAIN r : p > 0 BY <1>1, <1>2, ReorderPositive
<1>7. ASSUME ~sparse', ~torn
      PROVE  /\ plTracks \in Seq(Songs) /\ cleaner.at \notin {"negate", "number"}
             /\ r \in Seq(Songs) /\ r = PutIn(TakenOut(plTracks, pos), new, plTracks[pos])
    <2>1. plTracks \in Seq(Songs) /\ cleaner.at \notin {"negate", "number"} BY <1>4, <1>7 DEF ListInv, Ordered
    <2>2. pos \in DOMAIN plTracks /\ new \in DOMAIN plTracks BY <1>4, <1>7
    <2>3. QED BY <1>1, <2>1, <2>2, MovedList
<1> HIDE DEF r
<1>8. ListInv'
    <2>1. ListTypes'
        <3>1. sparse' \in BOOLEAN BY <1>4 DEF ListInv, ListTypes
        <3>2. QED BY <1>3, <1>5, <3>1 DEF ListInv, ListTypes, SongsAsBefore
    <2>2. PositionsArePositive' BY <1>3, <1>6 DEF ListInv, PositionsArePositive, Inserting
    <2>3. InsertsAtEnd' /\ PositionsAreNegative' BY <1>3, <1>4 DEF InsertsAtEnd, Inserting, PositionsAreNegative
    <2>4. Counts' = Counts BY <1>3, <1>5 DEF Counts, SongsAsBefore
    <2>5. AwaitsClean => AwaitsClean'
        <3> SUFFICES ASSUME AwaitsClean PROVE AwaitsClean' OBVIOUS
        <3>1. PICK p \in DOMAIN plTracks : plTracks[p] \notin inLibrary BY DEF AwaitsClean, Orphans
        <3>2. PICK q \in DOMAIN r : r[q] = plTracks[p] BY <1>5 DEF SongsAsBefore
        <3>3. q \in Orphans' BY <1>3, <3>1, <3>2 DEF Orphans
        <3>4. QED BY <1>3, <3>3 DEF AwaitsClean
    <2>6. CountsFollow' BY <1>3, <2>4, <2>5 DEF ListInv, CountsFollow
    <2>7. Ordered' BY <1>3, <1>7 DEF Ordered
    <2>8. QED BY <2>1, <2>2, <2>3, <2>6, <2>7 DEF ListInv
<1>9. EditOK
    <2> SUFFICES ASSUME ~torn, ~sparse' PROVE MeansWhatItSays(Listed, Listed') BY DEF EditOK
    <2>1. Listed = plTracks BY <1>7, ListedDense
    <2>2. Listed' = r BY <1>3, <1>7, ListedDensePrime
    <2>3. QED BY <1>3, <1>7, <2>1, <2>2 DEF MeansWhatItSays
<1>10. QED BY <1>8, <1>9

LEMMA addTracks_Inv == ASSUME ListInv, NEW e \in Adders, addTracks(e) PROVE ListInv' /\ EditOK
<1> DEFINE from == listEdit[e].from
           songs == listEdit[e].songs
           free == from..(from + Len(songs) - 1) \cap DOMAIN plTracks = {}
           r == Inserted(plTracks, from, songs)
<1>1. listEdit[e] \in AddWork /\ from \in Int /\ songs \in Seq(Songs) /\ Inserting(e)
    BY DEF ListInv, ListTypes, AddWork, addTracks, Inserting
<1>2. UNCHANGED <<songCount, inLibrary, torn, cleaner>> BY DEF addTracks
<1>3. CASE free
    <2>1. listEdit' = [listEdit EXCEPT ![e].at = "read"] /\ ChangesTracks(r) /\ lastEdit' = <<"add", songs>>
        BY <1>3 DEF addTracks, EditGoes
    <2>2. Table(r) /\ ((\A p \in DOMAIN plTracks : p > 0) /\ from > 0 => \A p \in DOMAIN r : p > 0)
        BY <1>1, InsertedIs DEF ListInv, ListTypes
    <2>3. listEdit' \in [Adders -> AddWork] BY <2>1 DEF ListInv, ListTypes, AddWork
    <2>4. listEdit'[e].at = "read" /\ \A g \in Adders : g = e \/ listEdit'[g] = listEdit[g]
        BY <2>1 DEF ListInv, ListTypes, AddWork
    <2>5. inLibrary = Songs \/ cleaner.at \in {"find", "delete", "negate"} => \A p \in DOMAIN r : p > 0
        BY <1>1, <2>2 DEF ListInv, PositionsArePositive
    <2>6. plTracks' = r BY <2>1 DEF ChangesTracks
    <2>7. ASSUME ~sparse', ~torn
          PROVE  /\ plTracks \in Seq(Songs) /\ cleaner.at \notin {"negate", "number"}
                 /\ r = plTracks \o songs /\ r \in Seq(Songs)
        <3>1. ~sparse /\ cleaner.at \notin {"negate", "number"} BY <1>2, <2>1, <2>7 DEF ChangesTracks, Renumbering
        <3>2. plTracks \in Seq(Songs) BY <2>7, <3>1 DEF ListInv, Ordered
        <3>3. from = Len(plTracks) + 1 BY <1>1, <3>1, <3>2, NextOfDense DEF ListInv, InsertsAtEnd
        <3>4. r = plTracks \o songs BY <1>1, <3>2, <3>3, InsertedList
        <3>5. QED BY <1>1, <3>1, <3>2, <3>4
    <2> HIDE DEF r
    <2>8. ListInv'
        <3>1. cleaner' \in CleanWork BY <1>2 DEF ListInv, ListTypes
        <3>2. QED BY <1>2, <2>1, <2>2, <2>3, <2>4, <2>5, <2>7, <3>1, RowsChange
    <2>9. EditOK
        <3> SUFFICES ASSUME ~torn, ~sparse' PROVE MeansWhatItSays(Listed, Listed') BY DEF EditOK
        <3>1. Listed = plTracks BY <2>7, ListedDense
        <3>2. Listed' = r BY <1>2, <2>6, <2>7, ListedDensePrime
        <3>3. QED BY <1>2, <2>1, <2>7, <3>1, <3>2 DEF MeansWhatItSays
    <2>10. QED BY <2>8, <2>9
<1>4. CASE ~free
    <2>1. listEdit' = [listEdit EXCEPT ![e] = NoListEdit] /\ UNCHANGED <<plTracks, sparse, miscounted, lastEdit>>
        BY <1>4 DEF addTracks
    <2>2. \A g \in Adders : listEdit'[g] = IF g = e THEN NoListEdit ELSE listEdit[g] BY <2>1 DEF ListInv, ListTypes
    <2>3. \A g \in Adders : listEdit[g].at \in {"read", "count"} => listEdit'[g] = listEdit[g] BY <1>1, <2>2 DEF Inserting
    <2>4. ~torn /\ ~miscounted' =>
            /\ \/ songCount' = Counts \/ AwaitsClean
               \/ \E g \in Adders : listEdit'[g].at \in {"read", "count"}
               \/ cleaner.at \in {"negate", "number", "read", "count"}
            /\ ~miscounted
            /\ NoListEdit.at = "count" => NoListEdit.n = Counts \/ AwaitsClean
        BY <1>2, <2>1, <2>3, NoEditIs DEF ListInv, CountsFollow
    <2>5. miscounted' \in BOOLEAN BY <2>1 DEF ListInv, ListTypes
    <2>6. ListInv' BY <1>2, <2>1, <2>4, <2>5, NoEditIs, EditGoesOn
    <2>7. QED BY <2>1, <2>6 DEF EditOK
<1>5. QED BY <1>3, <1>4

\* The clean-up goes on and the rows stay.
LEMMA CleanUpGoesOn ==
    ASSUME ListInv, NEW k \in CleanWork, cleaner' = k, UNCHANGED <<plTracks, listEdit, inLibrary, sparse, miscounted>>,
           torn' \in BOOLEAN, torn => torn',
           inLibrary = Songs \/ k.at \in {"find", "delete", "negate"} => inLibrary = Songs \/ cleaner.at \in {"find", "delete", "negate"},
           k.at # "number", k.at # "idle" => cleaner.at # "idle", ~torn' => cleaner.at \notin {"negate", "number"},
           ~torn' /\ ~miscounted =>
              /\ \/ songCount' = Counts \/ (k.at \in {"find", "delete"} /\ Orphans # {})
                 \/ \E g \in Adders : listEdit[g].at \in {"read", "count"}
                 \/ k.at \in {"negate", "number", "read", "count"}
              /\ \A g \in Adders : listEdit[g].at = "count" => listEdit[g].n = Counts \/ (k.at \in {"find", "delete"} /\ Orphans # {})
              /\ k.at = "count" => k.n = Counts
    PROVE  ListInv'
<1>1. ListTypes' BY DEF ListInv, ListTypes
<1>2. PositionsArePositive' /\ InsertsAtEnd' /\ PositionsAreNegative'
    BY DEF ListInv, PositionsArePositive, InsertsAtEnd, Inserting, PositionsAreNegative
<1>3. Counts' = Counts /\ (AwaitsClean' <=> k.at \in {"find", "delete"} /\ Orphans # {}) BY DEF Counts, AwaitsClean, Orphans
<1>4. CountsFollow' BY <1>3 DEF CountsFollow
<1>5. Ordered' BY DEF ListInv, Ordered
<1>6. QED BY <1>1, <1>2, <1>4, <1>5 DEF ListInv

LEMMA SongDeleted_Inv == ASSUME ListInv, NEW s \in Songs, SongDeleted(s) PROVE ListInv' /\ EditOK
<1>1. UNCHANGED <<plTracks, songCount, listEdit, lastEdit, sparse, torn, miscounted>> BY DEF SongDeleted
<1>2. cleaner.at = "idle" /\ inLibrary = Songs /\ inLibrary' = Songs \ {s} /\ cleaner' = [cleaner EXCEPT !.at = "find"]
    BY DEF SongDeleted, CleanerGoes
<1>3. cleaner' \in CleanWork /\ cleaner'.at = "find" BY <1>2 DEF ListInv, ListTypes, CleanWork
<1>4. ListTypes' BY <1>1, <1>2, <1>3 DEF ListInv, ListTypes
<1>5. PositionsArePositive' BY <1>1, <1>2 DEF ListInv, PositionsArePositive, Inserting
<1>6. InsertsAtEnd' /\ PositionsAreNegative' /\ Ordered'
    BY <1>1, <1>2, <1>3 DEF ListInv, InsertsAtEnd, Inserting, PositionsAreNegative, Ordered
<1>7. Orphans' = {} => Counts' = Counts
    <2> SUFFICES ASSUME Orphans' = {} PROVE Counts' = Counts OBVIOUS
    <2>1. \A p \in DOMAIN plTracks : plTracks[p] \in inLibrary' BY <1>1 DEF Orphans
    <2>2. {p \in DOMAIN plTracks : plTracks[p] \in inLibrary'} = {p \in DOMAIN plTracks : plTracks[p] \in inLibrary}
        BY <1>2, <2>1
    <2>3. QED BY <1>1, <2>2 DEF Counts, CountIn
<1>8. CountsFollow'
    <2>1. AwaitsClean' <=> Orphans' # {} BY <1>3 DEF AwaitsClean
    <2>2. ~AwaitsClean BY <1>2 DEF AwaitsClean
    <2>3. QED BY <1>1, <1>2, <1>3, <1>7, <2>1, <2>2 DEF ListInv, CountsFollow
<1>9. EditOK BY <1>1 DEF EditOK
<1>10. QED BY <1>4, <1>5, <1>6, <1>8, <1>9 DEF ListInv

LEMMA removeTracksOfGone_Inv == ASSUME ListInv, removeTracksOfGone PROVE ListInv' /\ EditOK
<1>1. UNCHANGED <<songCount, inLibrary, torn>> BY DEF removeTracksOfGone
<1>2. cleaner \in CleanWork BY DEF ListInv, ListTypes
<1>3. CASE cleaner.at = "find"
    <2> DEFINE at == IF Orphans = {} THEN "idle" ELSE "delete"
               k == [cleaner EXCEPT !.at = at]
    <2>1. cleaner' = k /\ UNCHANGED <<plTracks, listEdit, lastEdit, sparse, miscounted>>
        BY <1>3 DEF removeTracksOfGone, CleanerGoes
    <2>2. k \in CleanWork /\ k.at = at BY <1>2 DEF CleanWork
    <2> HIDE DEF k
    <2>3. ~torn' /\ ~miscounted =>
              /\ \/ songCount' = Counts \/ (k.at \in {"find", "delete"} /\ Orphans # {})
                 \/ \E g \in Adders : listEdit[g].at \in {"read", "count"}
                 \/ k.at \in {"negate", "number", "read", "count"}
              /\ \A g \in Adders : listEdit[g].at = "count" => listEdit[g].n = Counts \/ (k.at \in {"find", "delete"} /\ Orphans # {})
              /\ k.at = "count" => k.n = Counts
        BY <1>1, <1>3, <2>2 DEF ListInv, CountsFollow, AwaitsClean
    <2>4. torn' \in BOOLEAN BY <1>1 DEF ListInv, ListTypes
    <2>5. k.at # "number" /\ k.at # "negate" BY <2>2
    <2>6. ListInv' BY <1>1, <1>3, <2>1, <2>2, <2>3, <2>4, <2>5, CleanUpGoesOn
    <2>7. QED BY <2>1, <2>6 DEF EditOK
<1>4. CASE cleaner.at = "delete"
    <2> DEFINE at == IF Orphans = {} THEN "idle" ELSE "negate"
               r == Without(plTracks, Orphans)
    <2>1. cleaner' = [cleaner EXCEPT !.at = at] /\ UNCHANGED listEdit /\ ChangesTracks(r)
        BY <1>4 DEF removeTracksOfGone, CleanerGoes
    <2>2. cleaner' \in CleanWork /\ cleaner'.at = at BY <1>2, <2>1 DEF CleanWork
    <2>3. Table(plTracks) BY DEF ListInv, ListTypes
    <2>4. Table(r) /\ DOMAIN r = DOMAIN plTracks \ Orphans
        <3>1. Table(Without(plTracks, Orphans)) /\ DOMAIN Without(plTracks, Orphans) = DOMAIN plTracks \ Orphans
            BY <2>3, WithoutIs
        <3>2. QED BY <3>1
    <2>5. plTracks' = r BY <2>1 DEF ChangesTracks
    <2>6. Orphans = {} => r = plTracks BY <2>3 DEF Without, Table
    <2>7. \A p \in DOMAIN r : p > 0 BY <1>4, <2>4 DEF ListInv, PositionsArePositive
    <2> HIDE DEF r
    <2>8. ASSUME ~sparse', ~torn PROVE plTracks \in Seq(Songs)
        BY <1>4, <2>1, <2>8 DEF ListInv, Ordered, ChangesTracks
    <2>9. ListInv'
        <3>1. listEdit' \in [Adders -> AddWork] BY <2>1 DEF ListInv, ListTypes
        <3>2. ~torn /\ ~miscounted' =>
                \/ songCount' = CountIn(r, inLibrary)
                \/ \E g \in Adders : listEdit'[g].at \in {"read", "count"}
                \/ cleaner'.at \in {"negate", "number", "read", "count"}
            <4> SUFFICES ASSUME ~torn, ~miscounted', Orphans = {}
                         PROVE  songCount = CountIn(plTracks, inLibrary) \/ \E g \in Adders : listEdit[g].at \in {"read", "count"}
                BY <1>1, <2>1, <2>2, <2>6
            <4>1. ~miscounted BY <2>1 DEF ChangesTracks
            <4>2. ~AwaitsClean BY DEF AwaitsClean
            <4>3. QED BY <1>4, <4>1, <4>2 DEF ListInv, CountsFollow, Counts
        <3>3. cleaner'.at \in {"idle", "negate"} BY <2>2
        <3>4. ~sparse' /\ ~torn /\ cleaner'.at \notin {"negate", "number"} => r \in Seq(Songs)
            BY <2>2, <2>6, <2>8
        <3> HIDE DEF at
        <3>5. QED BY <1>1, <1>4, <2>1, <2>2, <2>4, <2>7, <3>1, <3>2, <3>3, <3>4, RowsChange
    <2>10. EditOK
        <3> SUFFICES ASSUME ~torn, ~sparse' PROVE MeansWhatItSays(Listed, Listed') BY DEF EditOK
        <3>1. plTracks \in Seq(Songs) BY <2>8
        <3>2. Listed = plTracks BY <1>4, <3>1, ListedDense
        <3>3. Listed' = InOrder(r)
            <4>1. cleaner'.at # "number" BY <2>2
            <4>2. Listed' = InOrder(plTracks') BY <4>1 DEF Listed, InOrder
            <4>3. QED BY <2>5, <4>2
        <3>4. InOrder(r) = AtPlaces(plTracks, (1..Len(plTracks)) \ Orphans) BY <3>1, KeptList DEF r
        <3>5. (1..Len(plTracks)) \ Orphans = {i \in 1..Len(plTracks) : plTracks[i] \in inLibrary}
            BY <3>1 DEF Orphans
        <3>6. cleaner' # cleaner BY <1>4, <2>2
        <3>7. QED BY <1>4, <3>2, <3>3, <3>4, <3>5, <3>6 DEF MeansWhatItSays
    <2>11. QED BY <2>9, <2>10
<1>5. QED BY <1>3, <1>4 DEF removeTracksOfGone

LEMMA renumber_Inv == ASSUME ListInv, renumber PROVE ListInv' /\ EditOK
<1>1. UNCHANGED <<inLibrary, lastEdit, torn>> BY DEF renumber
<1>2. cleaner \in CleanWork /\ Table(plTracks) BY DEF ListInv, ListTypes
<1>3. CASE cleaner.at = "negate"
    <2> DEFINE r == SetIds(plTracks, Negated(plTracks))
    <2>1. \A p \in DOMAIN plTracks : p > 0 BY <1>3 DEF ListInv, PositionsArePositive
    <2>2. ~Collides(plTracks, Negated(plTracks)) /\ Table(r) /\ Numbered(r) = InOrder(plTracks)
        BY <1>2, <2>1, NegatedOrder
    <2>3. cleaner' = [cleaner EXCEPT !.at = "number"] /\ UNCHANGED <<songCount, listEdit>> /\ ChangesTracks(r)
        BY <1>3, <2>2 DEF renumber, CleanerGoes
    <2>4. cleaner' \in CleanWork /\ cleaner'.at = "number" /\ cleaner' # cleaner BY <1>2, <1>3, <2>3 DEF CleanWork
    <2>5. \A p \in DOMAIN r : p < 0
        <3>1. DOMAIN r = (DOMAIN plTracks \ (DOMAIN Negated(plTracks) \cap DOMAIN plTracks))
                            \cup {Negated(plTracks)[p] : p \in DOMAIN Negated(plTracks) \cap DOMAIN plTracks}
            BY DEF SetIds
        <3>2. DOMAIN Negated(plTracks) = DOMAIN plTracks /\ \A p \in DOMAIN plTracks : Negated(plTracks)[p] = -p /\ p \in Int
            BY <1>2, <2>1 DEF Negated, Table
        <3> HIDE DEF r
        <3>3. QED BY <2>1, <3>1, <3>2
    <2>6. plTracks' = r BY <2>3 DEF ChangesTracks
    <2> HIDE DEF r
    <2>7. ListInv'
        <3>1. listEdit' \in [Adders -> AddWork] BY <2>3 DEF ListInv, ListTypes
        <3>2. inLibrary # Songs BY <1>3 DEF ListInv, ListTypes
        <3>3. QED BY <1>1, <1>3, <2>2, <2>3, <2>4, <2>5, <3>1, <3>2, RowsChange
    <2>8. EditOK
        <3>1. Listed = InOrder(plTracks) BY <1>3 DEF Listed
        <3>2. Listed' = Numbered(plTracks') BY <2>4 DEF Listed, Numbered, InOrder, Backwards
        <3>3. QED BY <1>3, <2>2, <2>4, <2>6, <3>1, <3>2 DEF EditOK, MeansWhatItSays
    <2>9. QED BY <2>7, <2>8
<1>4. CASE cleaner.at = "number"
    <2> DEFINE r == Numbered(plTracks)
    <2>1. cleaner' = [cleaner EXCEPT !.at = "read"] /\ UNCHANGED <<songCount, listEdit>> /\ ChangesTracks(r)
        BY <1>4 DEF renumber, CleanerGoes
    <2>2. cleaner' \in CleanWork /\ cleaner'.at = "read" /\ cleaner' # cleaner BY <1>2, <1>4, <2>1 DEF CleanWork
    <2>3. r \in Seq(Songs) BY <1>2, NumberedIs
    <2>4. Table(r) /\ \A p \in DOMAIN r : p > 0 BY <2>3, SeqTable
    <2>5. plTracks' = r BY <2>1 DEF ChangesTracks
    <2>6. Listed = r BY <1>4 DEF Listed, Numbered
    <2> HIDE DEF r
    <2>7. ListInv'
        <3>1. listEdit' \in [Adders -> AddWork] BY <2>1 DEF ListInv, ListTypes
        <3>2. inLibrary # Songs BY <1>4 DEF ListInv, ListTypes
        <3>3. QED BY <1>1, <1>4, <2>1, <2>2, <2>3, <2>4, <3>1, <3>2, RowsChange
    <2>8. EditOK
        <3>1. Listed' = r BY <2>2, <2>3, <2>5, ListedDensePrime
        <3>2. QED BY <1>4, <2>2, <2>6, <3>1 DEF EditOK, MeansWhatItSays
    <2>9. QED BY <2>7, <2>8
<1>5. CASE cleaner.at = "read"
    <2> DEFINE k == [at |-> "count", n |-> Counts]
    <2>1. Counts \in Nat BY <1>2, CountType DEF Counts
    <2>2. cleaner' = k /\ UNCHANGED <<plTracks, songCount, listEdit, sparse, miscounted>>
        BY <1>5 DEF renumber, Counts, Counted, CountIn
    <2>3. k \in CleanWork /\ k.at = "count" /\ k.n = Counts BY <2>1 DEF CleanWork
    <2> HIDE DEF k
    <2>4. ~torn' /\ ~miscounted =>
              /\ \/ songCount' = Counts \/ (k.at \in {"find", "delete"} /\ Orphans # {})
                 \/ \E g \in Adders : listEdit[g].at \in {"read", "count"}
                 \/ k.at \in {"negate", "number", "read", "count"}
              /\ \A g \in Adders : listEdit[g].at = "count" => listEdit[g].n = Counts \/ (k.at \in {"find", "delete"} /\ Orphans # {})
              /\ k.at = "count" => k.n = Counts
        BY <1>1, <1>5, <2>3 DEF ListInv, CountsFollow, AwaitsClean
    <2>5. torn' \in BOOLEAN BY <1>1 DEF ListInv, ListTypes
    <2>6. ListInv' BY <1>1, <1>5, <2>2, <2>3, <2>4, <2>5, CleanUpGoesOn
    <2>7. QED BY <1>1, <2>2, <2>6 DEF EditOK
<1>6. CASE cleaner.at = "count"
    <2> DEFINE k == [at |-> "idle", n |-> 0]
    <2>1. cleaner' = k /\ songCount' = cleaner.n /\ UNCHANGED <<plTracks, listEdit, sparse, miscounted>> BY <1>6 DEF renumber
    <2>2. k \in CleanWork /\ k.at = "idle" BY DEF CleanWork
    <2> HIDE DEF k
    <2>3. ~torn' /\ ~miscounted =>
              /\ \/ songCount' = Counts \/ (k.at \in {"find", "delete"} /\ Orphans # {})
                 \/ \E g \in Adders : listEdit[g].at \in {"read", "count"}
                 \/ k.at \in {"negate", "number", "read", "count"}
              /\ \A g \in Adders : listEdit[g].at = "count" => listEdit[g].n = Counts \/ (k.at \in {"find", "delete"} /\ Orphans # {})
              /\ k.at = "count" => k.n = Counts
        BY <1>1, <1>6, <2>1, <2>2 DEF ListInv, CountsFollow, AwaitsClean
    <2>4. torn' \in BOOLEAN BY <1>1 DEF ListInv, ListTypes
    <2>5. ListInv' BY <1>1, <1>6, <2>1, <2>2, <2>3, <2>4, CleanUpGoesOn
    <2>6. QED BY <1>1, <2>1, <2>5 DEF EditOK
<1>7. QED BY <1>3, <1>4, <1>5, <1>6 DEF renumber

LEMMA CleanerCancelled_Inv == ASSUME ListInv, CleanerCancelled PROVE ListInv' /\ EditOK
<1> DEFINE k == [at |-> "idle", n |-> 0]
<1>1. cleaner' = k /\ torn' = TRUE /\ UNCHANGED <<plTracks, songCount, inLibrary, listEdit, lastEdit, sparse, miscounted>>
    BY DEF CleanerCancelled
<1>2. k \in CleanWork /\ k.at = "idle" BY DEF CleanWork
<1> HIDE DEF k
<1>3. ListInv' BY <1>1, <1>2, CleanUpGoesOn
<1>4. QED BY <1>1, <1>3 DEF EditOK

LEMMA ListStep == ASSUME ListInv, [PlaylistNext]_playlistVars PROVE ListInv' /\ EditOK
<1>1. CASE PlaylistEdits
    <2>1. ASSUME NEW s \in Songs, ReplaceTracks(<<s>>) PROVE ListInv' /\ EditOK
        <3>1. <<s>> \in Seq(Songs) OBVIOUS
        <3>2. QED BY <2>1, <3>1, ReplaceTracks_Inv
    <2>2. ASSUME ReplaceTracks(<<>>) PROVE ListInv' /\ EditOK
        <3>1. <<>> \in Seq(Songs) OBVIOUS
        <3>2. QED BY <2>2, <3>1, ReplaceTracks_Inv
    <2>3. QED BY <1>1, <2>1, <2>2, RemoveTracks_Inv, ReorderTrack_Inv DEF PlaylistEdits
<1>2. CASE CleanerSteps
    BY <1>2, SongDeleted_Inv, removeTracksOfGone_Inv, renumber_Inv, CleanerCancelled_Inv DEF CleanerSteps
<1>3. ASSUME NEW e \in Adders, AddSteps(e) PROVE ListInv' /\ EditOK
    <2>1. ASSUME NEW s \in Songs, Add(e, <<s>>) \/ Add(e, <<s, s>>) PROVE ListInv' /\ EditOK
        <3>1. <<s>> \in Seq(Songs) /\ <<s, s>> \in Seq(Songs) OBVIOUS
        <3>2. QED BY <2>1, <3>1, Add_Inv
    <2>2. QED BY <1>3, <2>1, addTracks_Inv, refreshCounters_Inv, WriteCounters_Inv, AddCancelled_Inv DEF AddSteps
<1>4. CASE UNCHANGED playlistVars BY <1>4, ListStutter
<1>5. QED BY <1>1, <1>2, <1>3, <1>4 DEF PlaylistNext

LEMMA ListIsRight == ASSUME ListInv PROVE PositionsAreDense /\ CountFollowsTracks
<1>1. PositionsAreDense
    <2> SUFFICES ASSUME plTracks \in Seq(Songs) PROVE DOMAIN plTracks = 1..Cardinality(DOMAIN plTracks)
        BY DEF ListInv, Ordered, PositionsAreDense
    <2>1. DOMAIN plTracks = 1..Len(plTracks) /\ Cardinality(DOMAIN plTracks) = Len(plTracks) BY SeqTable
    <2>2. QED BY <2>1
<1>2. CountFollowsTracks
    <2>1. Counts = Counted(plTracks) BY DEF Counts, Counted, CountIn
    <2>2. QED BY <2>1 DEF ListInv, CountsFollow, AwaitsClean, CountFollowsTracks, ListResting
<1>3. QED BY <1>1, <1>2

\* Edits of a playlist by position (replace, remove, move), additions of songs
\* and the clean-up after songs were deleted, in any interleaving and any of
\* them given up anywhere, leave positions without a gap, a count that is that
\* of the tracks, and the list that was asked for.
THEOREM PlaylistStaysInOrder == PlaylistSpec => PlaylistIsInOrder
<1>1. PlaylistInit => ListInv BY ListInit_Inv
<1>2. ListInv /\ [PlaylistNext]_playlistVars => ListInv' BY ListStep
<1>3. ListInv => PositionsAreDense /\ CountFollowsTracks BY ListIsRight
<1>4. ListInv /\ [PlaylistNext]_playlistVars =>
        [<<plTracks, lastEdit>>' # <<plTracks, lastEdit>> /\ ~torn /\ ~sparse' => MeansWhatItSays(Listed, Listed')]_playlistVars
    <2>1. ListInv /\ [PlaylistNext]_playlistVars => EditOK BY ListStep
    <2>2. QED BY <2>1 DEF EditOK
<1>5. QED BY <1>1, <1>2, <1>3, <1>4, PTL DEF PlaylistSpec, PlaylistIsInOrder, EditsMeanWhatTheySay
==============================================================================
