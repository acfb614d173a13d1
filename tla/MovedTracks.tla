----------------------------- MODULE MovedTracks -----------------------------
(* Phase 2 of a scan: files that disappeared are paired with files that       *)
(* appeared, so that a song keeps its id (what users starred, played and put   *)
(* on playlists) when its file moves.  A pipeline of a producer and two        *)
(* stages works on copies of rows.  All rows are of one recording: within a    *)
(* library they share the persistent id, between libraries the searches find   *)
(* them.                                                                       *)
EXTENDS Naturals, FiniteSets

CONSTANTS
    Ids,        \* rows of songs
    Fresh,      \* the ids of files that this scan imported
    Libs,       \* the libraries, in the order of the scan
    Bases,      \* base names of files
    AlbumOf,    \* [Ids -> album of the row before phase 2]
    CreatedAt,  \* [Ids -> when the row was made]: the scan began at time 3
    NoTrack     \* there is no such row

TrackAlbums == {AlbumOf[i] : i \in Ids}
OldAlbums == {AlbumOf[i] : i \in Ids \ Fresh}
TrackRow == [lib : Libs, file : Ids, content : {"a", "b"}, base : Bases, album : TrackAlbums, created : Nat, missing : BOOLEAN]

ASSUME MovedAssumption ==
    /\ CreatedAt \in [Ids -> Nat] /\ Fresh = {i \in Ids : CreatedAt[i] > 3}
    /\ Libs \subseteq Nat /\ NoTrack \notin TrackRow

VARIABLES
    rows,       \* [Ids -> [lib, file, content, base, created, missing, album] or NoTrack]
    unread,     \* libraries whose missing songs are not loaded yet
    waiting,    \* groups between the producer and the first stage
    within,     \* the first stage's group, {} when it has none
    passedOn,   \* groups between the stages
    across,     \* the second stage's group and what it found for a song
    processed,  \* processedAlbumAnnotations
    starred,    \* albums with a user's star
    finalized,
    before,     \* history: the rows before the phase
    takenBy,    \* history: [Ids -> libraries whose groups took the row]
    movedAlbums,    \* history: <<old album, new album>> of the songs that moved
    movesCrossed    \* history: groups of two libraries took the same row

movedVars == <<rows, unread, waiting, within, passedOn, across, processed, starred, finalized, before, takenBy, movedAlbums, movesCrossed>>

-----------------------------------------------------------------------------

MovedInit ==
    /\ \E lib \in [Ids -> Libs], content \in [Ids -> {"a", "b"}], base \in [Ids -> Bases],
          gone \in SUBSET (Ids \ Fresh), absent \in SUBSET Fresh :
          /\ gone # {}
          /\ rows = [i \in Ids |-> IF i \in absent THEN NoTrack
                                   ELSE [lib |-> lib[i], file |-> i, content |-> content[i], base |-> base[i], album |-> AlbumOf[i],
                                         created |-> CreatedAt[i], missing |-> i \in gone]]
    /\ unread = Libs /\ waiting = {} /\ within = {} /\ passedOn = {} /\ across = {}
    /\ processed = {} /\ starred = OldAlbums
    /\ finalized = FALSE
    /\ before = rows /\ takenBy = [i \in Ids |-> {}] /\ movedAlbums = {} /\ movesCrossed = FALSE

Existing == {i \in Ids : rows[i] # NoTrack}
MissingIn(l) == {i \in Existing : rows[i].lib = l /\ rows[i].missing}
CopyOf(S) == {[id |-> i, row |-> rows[i]] : i \in S}

Equals(m, n) == m.row.content = n.row.content
IsEquivalent(m, n) == m.row.base = n.row.base

-----------------------------------------------------------------------------
(* The producer                                                             *)

\* Libraries come in order; a library without missing songs gives no group.
produceMissing(l) ==
    /\ l \in unread /\ \A k \in unread : l <= k
    /\ unread' = unread \ {l}
    /\ LET new == {i \in Existing : rows[i].lib = l /\ ~rows[i].missing /\ rows[i].created > 3}
       IN  waiting' = IF MissingIn(l) = {} THEN waiting
                      ELSE waiting \cup {[lib |-> l, missing |-> CopyOf(MissingIn(l)), matched |-> CopyOf(new),
                                          todo |-> MissingIn(l), used |-> {}]}
    /\ UNCHANGED <<rows, within, passedOn, across, processed, starred, finalized, before, takenBy, movedAlbums, movesCrossed>>

-----------------------------------------------------------------------------

\* The marks of the old album go to the new one, once for each new album; where
\* the new album has its own, the unique index refuses and that is a warning.
ReassignAlbum(old, new) ==
    IF old # new /\ new \notin processed
    THEN /\ processed' = processed \cup {new}
         /\ starred' = IF old \in starred /\ new \notin starred THEN (starred \ {old}) \cup {new} ELSE starred
    ELSE UNCHANGED <<processed, starred>>

\* The row of the missing song becomes the new one's, whose own row is deleted.
\* created_at is only written if the row has to be inserted again.
moveMatched(lib, target, ms) ==
    /\ rows' = [rows EXCEPT
            ![ms.id] = [target.row EXCEPT !.created = IF rows[ms.id] = NoTrack THEN ms.row.created ELSE rows[ms.id].created],
            ![target.id] = NoTrack]
    /\ ReassignAlbum(ms.row.album, target.row.album)
    /\ takenBy' = [takenBy EXCEPT ![target.id] = @ \cup {lib}, ![ms.id] = @ \cup {lib}]
    /\ movedAlbums' = movedAlbums \cup {<<ms.row.album, target.row.album>>}
    /\ movesCrossed' = (movesCrossed \/ takenBy[target.id] \ {lib} # {})

-----------------------------------------------------------------------------
(* First stage: moves within the library.  Rows of one persistent id come in  *)
(* no particular order.                                                      *)

TakeGroup ==
    /\ within = {}
    /\ \E g \in waiting : within' = {g} /\ waiting' = waiting \ {g}
    /\ UNCHANGED <<rows, unread, passedOn, across, processed, starred, finalized, before, takenBy, movedAlbums, movesCrossed>>

\* Mutant: rows that another song was given already are offered again.
Unused_All(g) == g.matched

Unused(g) == {n \in g.matched : n.id \notin g.used}

\* The rows that one missing song may be given.
Candidates(g, ms) ==
    LET exact == {n \in Unused(g) : Equals(ms, n)}
    IN  IF exact # {} THEN exact
        ELSE IF Cardinality(g.missing) = 1 /\ Cardinality(g.matched) = 1 THEN Unused(g)
        ELSE {n \in Unused(g) : IsEquivalent(ms, n)}

processMissingTracks ==
    \E g \in within : \E ms \in g.missing :
        /\ ms.id \in g.todo
        /\ IF Candidates(g, ms) = {}
           THEN /\ within' = {[g EXCEPT !.todo = @ \ {ms.id}]}
                /\ UNCHANGED <<rows, processed, starred, takenBy, movedAlbums, movesCrossed>>
           ELSE \E n \in Candidates(g, ms) :
                    /\ moveMatched(g.lib, n, ms)
                    /\ within' = {[g EXCEPT !.todo = @ \ {ms.id}, !.used = @ \cup {n.id}]}
        /\ UNCHANGED <<unread, waiting, passedOn, across, finalized, before>>

\* A group with any match goes no further.
GroupDone ==
    /\ \E g \in within :
          /\ g.todo = {}
          /\ passedOn' = IF g.used = {} THEN passedOn \cup {[g EXCEPT !.todo = {ms.id : ms \in g.missing}]} ELSE passedOn
    /\ within' = {}
    /\ UNCHANGED <<rows, unread, waiting, across, processed, starred, finalized, before, takenBy, movedAlbums, movesCrossed>>

-----------------------------------------------------------------------------
(* Second stage: moves between libraries                                     *)

TakePassed ==
    /\ across = {}
    /\ \E g \in passedOn :
          /\ passedOn' = passedOn \ {g}
          /\ across' = IF Cardinality(Libs) = 1 THEN {} ELSE {[group |-> g, of |-> {}, found |-> {}]}
    /\ UNCHANGED <<rows, unread, waiting, within, processed, starred, finalized, before, takenBy, movedAlbums, movesCrossed>>

\* Songs of other libraries that are newer than the missing one was.
FindRecentFiles(ms) ==
    {n \in CopyOf({i \in Existing : ~rows[i].missing}) : n.row.lib # ms.row.lib /\ n.row.created > ms.row.created}

findCrossLibraryMatch ==
    \E a \in across : \E ms \in a.group.missing :
        /\ a.of = {} /\ ms.id \in a.group.todo
        /\ LET recent == FindRecentFiles(ms)
               exact  == {n \in recent : Equals(ms, n)}
               newest == {n \in exact : \A o \in exact : o.row.created <= n.row.created}
               only   == {n \in recent : Cardinality(recent) = 1 /\ IsEquivalent(ms, n)}
           IN  \E n \in IF exact # {} THEN newest ELSE IF only # {} THEN only ELSE {ms} :
                  across' = {[group |-> [a.group EXCEPT !.todo = @ \ {ms.id}],
                              of    |-> IF n = ms THEN {} ELSE {ms},
                              found |-> IF n = ms THEN {} ELSE {n}]}
        /\ UNCHANGED <<rows, unread, waiting, within, passedOn, processed, starred, finalized, before, takenBy, movedAlbums, movesCrossed>>

processCrossLibraryMoves ==
    \E a \in across :
        /\ \/ \E ms \in a.of, n \in a.found :
                 /\ moveMatched(a.group.lib, n, ms)
                 /\ across' = {[a EXCEPT !.of = {}, !.found = {}]}
           \/ /\ a.of = {} /\ a.group.todo = {}
              /\ across' = {}
              /\ UNCHANGED <<rows, processed, starred, takenBy, movedAlbums, movesCrossed>>
        /\ UNCHANGED <<unread, waiting, within, passedOn, finalized, before>>

-----------------------------------------------------------------------------

PipelineEmpty == unread = {} /\ waiting = {} /\ within = {} /\ passedOn = {} /\ across = {}

\* PurgeMissing may ask for the deletion of what stays missing, in all libraries.
finalizeMoves(purge) ==
    /\ PipelineEmpty /\ ~finalized /\ finalized' = TRUE
    /\ rows' = IF purge THEN [i \in Ids |-> IF i \in Existing /\ rows[i].missing THEN NoTrack ELSE rows[i]] ELSE rows
    /\ UNCHANGED <<unread, waiting, within, passedOn, across, processed, starred, before, takenBy, movedAlbums, movesCrossed>>

MovedNext ==
    \/ \E l \in Libs : produceMissing(l)
    \/ TakeGroup \/ processMissingTracks \/ GroupDone
    \/ TakePassed \/ findCrossLibraryMatch \/ processCrossLibraryMoves
    \/ \E purge \in BOOLEAN : finalizeMoves(purge)

MovedSpec == MovedInit /\ [][MovedNext]_movedVars

-----------------------------------------------------------------------------
(* Properties *)

\* No file has two rows, unless groups of two libraries claimed it.
OneRowPerFile ==
    ~movesCrossed => \A i, j \in Existing : rows[i].file = rows[j].file => i = j

\* Once the phase is over no song is missing, or was purged, whose unchanged file
\* appeared at another place of the library and has a row of its own.
NoMoveIsMissed ==
    finalized /\ ~movesCrossed => \A m \in Ids \ Fresh, n \in Fresh \cap Existing :
        before[m].missing /\ rows[n] = before[n] /\ before[n].lib = before[m].lib /\ before[n].content = before[m].content
            => m \in Existing /\ ~rows[m].missing

\* An album all of whose songs are in one album made by this scan, to which no
\* other album's songs moved, hands on its stars.
AlbumsKeepTheirStars ==
    \A x \in OldAlbums, y \in TrackAlbums \ OldAlbums :
        /\ \A i \in Ids \ Fresh : AlbumOf[i] = x => i \in Existing /\ rows[i].album = y
        /\ {o \in OldAlbums : <<o, y>> \in movedAlbums} = {x}
        => y \in starred

\* A song that moved keeps its row, and an album that moved its stars; no file
\* ends up with two rows.
MovesAreFollowed == OneRowPerFile /\ NoMoveIsMissed /\ AlbumsKeepTheirStars

=============================================================================
