--------------------------- MODULE PlaylistTracks ---------------------------
(* The tracks of one playlist.  Their order is a number in each row, unique   *)
(* in the playlist, and every edit rewrites the numbers with SQL statements.  *)
(* Replacing, removing and moving tracks are transactions; adding tracks and  *)
(* the clean-up after songs were deleted are sequences of statements, between *)
(* which other requests come and after any of which a request may be given up. *)
EXTENDS Integers, Sequences, FiniteSets

CONSTANTS
    Songs,         \* songs in the library
    Imported,      \* the list of songs the playlist starts with
    Adders,       \* requests of users who may write to the playlist
    MaxListEdits,  \* bound: edits asked for
    MaxPosition    \* bound: positions a client names

\* The position at which a row waits while others are shifted.
Parked == -999999

\* A list is shorter than the number that stands for a parked row.
ASSUME PlaylistAssumption ==
    /\ Imported \in Seq(Songs) /\ MaxListEdits \in Nat
    /\ MaxPosition \in Nat /\ MaxPosition < -Parked

VARIABLES
    plTracks,   \* playlist_tracks: a function from positions to songs
    songCount,  \* playlist.song_count
    inLibrary,  \* the songs with a row in media_file
    listEdit,   \* [Adders -> [at, songs, from, n]]: the addition in progress
    cleaner,    \* [at, n]: the clean-up of deleted songs
    lastEdit,   \* history: what the last committed edit asked for
    listEdits,
    sparse,     \* history: a move named a position that is not there, or an
                \* insertion used a position read before another edit
    torn,       \* history: a clean-up was given up between its statements
    miscounted  \* history: tracks changed between the reading and the writing of the count

playlistVars == <<plTracks, songCount, inLibrary, listEdit, cleaner, lastEdit, listEdits, sparse, torn, miscounted>>

NoListEdit == [at |-> "idle", songs |-> <<>>, from |-> 0, n |-> 0]

PlaylistInit ==
    /\ plTracks = Imported /\ songCount = Len(Imported) /\ inLibrary = Songs
    /\ listEdit = [e \in Adders |-> NoListEdit]
    /\ cleaner = [at |-> "idle", n |-> 0]
    /\ lastEdit = <<>> /\ listEdits = 0
    /\ sparse = FALSE /\ torn = FALSE /\ miscounted = FALSE

-----------------------------------------------------------------------------
(* The SQL statements, as functions of the rows                            *)

\* UPDATE ... SET id = to[id] for the rows at the positions of DOMAIN to.
SetIds(tr, to) ==
    LET moved == DOMAIN to \cap DOMAIN tr
    IN  [q \in (DOMAIN tr \ moved) \cup {to[p] : p \in moved} |->
            IF \E p \in moved : to[p] = q THEN tr[CHOOSE p \in moved : to[p] = q] ELSE tr[q]]

\* The unique index refuses a position that another row has.
Collides(tr, to) == \E p \in DOMAIN to \cap DOMAIN tr : to[p] \in DOMAIN tr \ {p}

\* Mutant: the range of a move down leaves out its end.
Reorder_Inclusive(tr, pos, new) ==
    LET park  == [p \in {pos} |-> Parked]
        a     == SetIds(tr, park)
        shift == IF pos < new THEN [p \in {p \in DOMAIN a : pos < p /\ p < new} |-> -(p - 1)]
                              ELSE [p \in {p \in DOMAIN a : new <= p /\ p < pos} |-> -(p + 1)]
        b     == SetIds(a, shift)
        flip  == [p \in {p \in DOMAIN b : p < 0 /\ p # Parked} |-> -p]
        c     == SetIds(b, flip)
        place == [p \in {Parked} |-> new]
    IN  IF pos = new \/ Collides(tr, park) \/ Collides(a, shift) \/ Collides(b, flip) \/ Collides(c, place)
        THEN tr ELSE SetIds(c, place)

\* The statements of Reorder, each with the rows it applies to.
Reorder(tr, pos, new) ==
    LET park  == [p \in {pos} |-> Parked]
        a     == SetIds(tr, park)
        shift == IF pos < new THEN [p \in {p \in DOMAIN a : pos < p /\ p <= new} |-> -(p - 1)]
                              ELSE [p \in {p \in DOMAIN a : new <= p /\ p < pos} |-> -(p + 1)]
        b     == SetIds(a, shift)
        flip  == [p \in {p \in DOMAIN b : p < 0 /\ p # Parked} |-> -p]
        c     == SetIds(b, flip)
        place == [p \in {Parked} |-> new]
    IN  IF pos = new \/ Collides(tr, park) \/ Collides(a, shift) \/ Collides(b, flip) \/ Collides(c, place)
        THEN tr ELSE SetIds(c, place)

Negated(tr) == [p \in {p \in DOMAIN tr : p > 0} |-> -p]

\* The i-th smallest position.
Nth(ps, i) == CHOOSE p \in ps : Cardinality({q \in ps : q < p}) = i - 1

InOrder(tr) == [i \in 1..Cardinality(DOMAIN tr) |-> tr[Nth(DOMAIN tr, i)]]

Backwards(list) == [i \in 1..Len(list) |-> list[Len(list) + 1 - i]]

\* ROW_NUMBER() OVER (ORDER BY id DESC): the numbers were negated before.
Numbered(tr) == Backwards(InOrder(tr))

Without(tr, positions) == [p \in DOMAIN tr \ positions |-> tr[p]]

NextPosition(tr) == IF DOMAIN tr = {} THEN 1 ELSE (CHOOSE p \in DOMAIN tr : \A q \in DOMAIN tr : q <= p) + 1

Inserted(tr, from, songs) ==
    [p \in DOMAIN tr \cup from..(from + Len(songs) - 1) |-> IF p \in DOMAIN tr THEN tr[p] ELSE songs[p - from + 1]]

Counted(tr) == Cardinality({p \in DOMAIN tr : tr[p] \in inLibrary})

-----------------------------------------------------------------------------

\* The rows change: insertions and counts in progress were computed before, and
\* the positions mean something else while the clean-up numbers them.
Renumbering == cleaner.at \in {"negate", "number"} /\ cleaner' = cleaner

ChangesTracks(tr) ==
    /\ plTracks' = tr
    /\ sparse' = (sparse \/ Renumbering \/ \E e \in Adders : listEdit[e].at = "insert" /\ listEdit'[e] = listEdit[e])
    /\ miscounted' = \/ miscounted \/ (cleaner.at = "count" /\ cleaner' = cleaner)
                     \/ \E e \in Adders : listEdit[e].at = "count" /\ listEdit'[e] = listEdit[e]

Asks(what) ==
    /\ listEdits < MaxListEdits /\ listEdits' = listEdits + 1
    /\ lastEdit' = what

\* Playlists.Create on an existing playlist; without songs the tracks stay.
ReplaceTracks(songs) ==
    /\ Asks(<<"replace", songs>>)
    /\ UNCHANGED <<listEdit, cleaner, inLibrary, torn>>
    /\ ChangesTracks(IF songs = <<>> THEN plTracks ELSE songs)
    /\ songCount' = Counted(plTracks')

\* RemoveTracks, and Update with indices: the rows are deleted, the rest is
\* numbered again.  A collision undoes the transaction.
RemoveTracks(positions) ==
    LET left == Without(plTracks, positions)
    IN  /\ Asks(<<"remove", positions>>)
        /\ UNCHANGED <<listEdit, cleaner, inLibrary, torn>>
        /\ IF Collides(left, Negated(left))
           THEN UNCHANGED <<plTracks, songCount, sparse, miscounted>>
           ELSE /\ ChangesTracks(Numbered(SetIds(left, Negated(left))))
                /\ songCount' = Counted(plTracks')

ReorderTrack(pos, new) ==
    /\ Asks(<<"move", pos, new>>)
    /\ plTracks' = Reorder(plTracks, pos, new)
    /\ sparse' = (sparse \/ pos \notin DOMAIN plTracks \/ new \notin DOMAIN plTracks
                         \/ cleaner.at \in {"negate", "number"} \/ \E e \in Adders : listEdit[e].at = "insert")
    /\ UNCHANGED <<songCount, listEdit, cleaner, inLibrary, torn, miscounted>>

-----------------------------------------------------------------------------
(* AddTracks, AddAlbums, AddArtists, AddDiscs: outside of a transaction     *)

EditGoes(e, at) == listEdit' = [listEdit EXCEPT ![e].at = at]

\* The songs were looked up by id, album, artist or disc; Add reads max(id).
Add(e, songs) ==
    /\ listEdit[e].at = "idle" /\ songs # <<>>
    /\ listEdits < MaxListEdits /\ listEdits' = listEdits + 1
    /\ listEdit' = [listEdit EXCEPT ![e] = [at |-> "insert", songs |-> songs, from |-> NextPosition(plTracks), n |-> 0]]
    /\ UNCHANGED <<plTracks, songCount, inLibrary, cleaner, lastEdit, sparse, torn, miscounted>>

\* addTracks: the insertion fails where a position is taken.
addTracks(e) ==
    LET from == listEdit[e].from
        songs == listEdit[e].songs
    IN  /\ listEdit[e].at = "insert"
        /\ IF from..(from + Len(songs) - 1) \cap DOMAIN plTracks = {}
           THEN /\ EditGoes(e, "read") /\ UNCHANGED cleaner
                /\ ChangesTracks(Inserted(plTracks, from, songs))
                /\ lastEdit' = <<"add", songs>>
           ELSE /\ listEdit' = [listEdit EXCEPT ![e] = NoListEdit]
                /\ UNCHANGED <<plTracks, cleaner, sparse, miscounted, lastEdit>>
        /\ UNCHANGED <<songCount, inLibrary, listEdits, torn>>

refreshCounters(e) ==
    /\ listEdit[e].at = "read"
    /\ listEdit' = [listEdit EXCEPT ![e].at = "count", ![e].n = Counted(plTracks)]
    /\ UNCHANGED <<plTracks, songCount, inLibrary, cleaner, lastEdit, listEdits, sparse, torn, miscounted>>

WriteCounters(e) ==
    /\ listEdit[e].at = "count"
    /\ songCount' = listEdit[e].n
    /\ listEdit' = [listEdit EXCEPT ![e] = NoListEdit]
    /\ UNCHANGED <<plTracks, inLibrary, cleaner, lastEdit, listEdits, sparse, torn, miscounted>>

\* The client of an addition leaves: the remaining statements are not executed.
AddCancelled(e) ==
    /\ listEdit[e].at # "idle"
    /\ listEdit' = [listEdit EXCEPT ![e] = NoListEdit]
    /\ miscounted' = (miscounted \/ listEdit[e].at # "insert")
    /\ UNCHANGED <<plTracks, songCount, inLibrary, cleaner, lastEdit, listEdits, sparse, torn>>

-----------------------------------------------------------------------------
(* removeOrphans and renumber, within the clean-up of DeleteMissingFiles    *)

Orphans == {p \in DOMAIN plTracks : plTracks[p] \notin inLibrary}

CleanerGoes(at) == cleaner' = [cleaner EXCEPT !.at = at]

SongDeleted(s) ==
    /\ cleaner.at = "idle" /\ inLibrary = Songs /\ inLibrary' = inLibrary \ {s}   \* bound: one song
    /\ CleanerGoes("find")
    /\ UNCHANGED <<plTracks, songCount, listEdit, lastEdit, listEdits, sparse, torn, miscounted>>

\* The playlist is chosen for its orphans, then they are deleted; that nothing
\* was deleted is an error.
removeTracksOfGone ==
    /\ cleaner.at \in {"find", "delete"}
    /\ IF cleaner.at = "find"
       THEN /\ CleanerGoes(IF Orphans = {} THEN "idle" ELSE "delete")
            /\ UNCHANGED <<plTracks, listEdit, lastEdit, sparse, miscounted>>
       ELSE /\ CleanerGoes(IF Orphans = {} THEN "idle" ELSE "negate")
            /\ UNCHANGED listEdit /\ ChangesTracks(Without(plTracks, Orphans))
            /\ lastEdit' = <<"clean">>
    /\ UNCHANGED <<songCount, inLibrary, listEdits, torn>>

renumber ==
    /\ \/ /\ cleaner.at = "negate"
          /\ UNCHANGED listEdit
          /\ IF Collides(plTracks, Negated(plTracks))
             THEN CleanerGoes("idle") /\ UNCHANGED <<plTracks, sparse, miscounted>>
             ELSE CleanerGoes("number") /\ ChangesTracks(SetIds(plTracks, Negated(plTracks)))
          /\ UNCHANGED <<songCount>>
       \/ /\ cleaner.at = "number"
          /\ CleanerGoes("read")
          /\ UNCHANGED listEdit /\ ChangesTracks(Numbered(plTracks))
          /\ UNCHANGED <<songCount>>
       \/ /\ cleaner.at = "read"
          /\ cleaner' = [at |-> "count", n |-> Counted(plTracks)]
          /\ UNCHANGED <<plTracks, songCount, listEdit, sparse, miscounted>>
       \/ /\ cleaner.at = "count"
          /\ songCount' = cleaner.n /\ cleaner' = [at |-> "idle", n |-> 0]
          /\ UNCHANGED <<plTracks, listEdit, sparse, miscounted>>
    /\ UNCHANGED <<inLibrary, lastEdit, listEdits, torn>>

\* The administrator's request is given up.
CleanerCancelled ==
    /\ cleaner.at # "idle"
    /\ cleaner' = [at |-> "idle", n |-> 0]
    /\ torn' = TRUE
    /\ UNCHANGED <<plTracks, songCount, inLibrary, listEdit, lastEdit, listEdits, sparse, miscounted>>

PlaylistEdits ==
    \/ \E s \in Songs : ReplaceTracks(<<s>>)
    \/ ReplaceTracks(<<>>)
    \/ \E P \in SUBSET (1..MaxPosition) : P # {} /\ RemoveTracks(P)
    \/ \E pos, new \in 1..MaxPosition : ReorderTrack(pos, new)

AddSteps(e) ==
    \/ \E s \in Songs : Add(e, <<s>>) \/ Add(e, <<s, s>>)
    \/ addTracks(e) \/ refreshCounters(e) \/ WriteCounters(e) \/ AddCancelled(e)

CleanerSteps ==
    \/ \E s \in Songs : SongDeleted(s)
    \/ removeTracksOfGone \/ renumber \/ CleanerCancelled

PlaylistNext == PlaylistEdits \/ CleanerSteps \/ \E e \in Adders : AddSteps(e)

PlaylistSpec == PlaylistInit /\ [][PlaylistNext]_playlistVars

-----------------------------------------------------------------------------
(* Properties *)

\* What a reader sees; while the clean-up is between its two statements the
\* order is the reverse of the numbers.
Listed == IF cleaner.at = "number" THEN Backwards(InOrder(plTracks)) ELSE InOrder(plTracks)

ListResting == cleaner.at = "idle" /\ \A e \in Adders : listEdit[e].at = "idle"

\* Positions are 1 to n without a gap, so that the index a client removes or
\* moves is the track it means.
PositionsAreDense ==
    ~sparse /\ ~torn /\ cleaner.at \notin {"negate", "number"} => DOMAIN plTracks = 1..Cardinality(DOMAIN plTracks)

\* With everything at rest the playlist's count is the number of its tracks
\* that are in the library.
CountFollowsTracks ==
    ListResting /\ ~torn /\ ~miscounted => songCount = Counted(plTracks)

\* The entries of a list at some of its places, without one, and with one more.
AtPlaces(list, at) == [k \in 1..Cardinality(at) |-> list[Nth(at, k)]]
TakenOut(list, i) == [k \in 1..(Len(list) - 1) |-> IF k < i THEN list[k] ELSE list[k + 1]]
PutIn(list, i, s) == [k \in 1..(Len(list) + 1) |-> IF k < i THEN list[k] ELSE IF k = i THEN s ELSE list[k - 1]]

\* A committed edit does to the list what was asked and nothing else: the moved
\* track is at its new place, the removed ones are gone, the order of the others
\* is kept.  The clean-up takes out what is not in the library and changes
\* nothing when it numbers the rest.
MeansWhatItSays(old, new) ==
    /\ cleaner' # cleaner =>
          new = IF cleaner.at = "delete" THEN AtPlaces(old, {i \in 1..Len(old) : old[i] \in inLibrary}) ELSE old
    /\ cleaner' = cleaner =>
          /\ lastEdit'[1] \in {"move", "remove", "replace", "add"}
          /\ lastEdit'[1] = "move" => new = PutIn(TakenOut(old, lastEdit'[2]), lastEdit'[3], old[lastEdit'[2]])
          /\ lastEdit'[1] = "remove" => new = AtPlaces(old, (1..Len(old)) \ lastEdit'[2])
          /\ lastEdit'[1] = "replace" => new = IF lastEdit'[2] = <<>> THEN old ELSE lastEdit'[2]
          /\ lastEdit'[1] = "add" => new = old \o lastEdit'[2]

EditsMeanWhatTheySay ==
    [][<<plTracks, lastEdit>>' # <<plTracks, lastEdit>> /\ ~torn /\ ~sparse' => MeansWhatItSays(Listed, Listed')]_playlistVars

\* Edits by position, additions and the clean-up of removed songs beside each
\* other leave a list without gaps, of the right count, in the order asked for.
PlaylistIsInOrder == [](PositionsAreDense /\ CountFollowsTracks) /\ EditsMeanWhatTheySay
=============================================================================
