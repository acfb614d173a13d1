--------------------------------- MODULE Shares ---------------------------------
(***************************************************************************)
(* Public shares.  A user shares an album, an artist, a playlist or some   *)
(* songs; visitors open the share's page, which hands out a link for every *)
(* song, follow such a link or download everything.  The links are signed  *)
(* and expire on their own; what a request may serve is looked up again in *)
(* several reads, while the owner edits or deletes the share, the playlist *)
(* changes, files go missing and libraries are taken from the owner.       *)
(*                                                                         *)
(* All songs are of one album and one artist; the playlist belongs to      *)
(* ListOwner.  The order of songs is left out.  Each request remembers, for *)
(* the properties, the states of the database while it was made.           *)
(***************************************************************************)
EXTENDS Naturals

CONSTANTS
    ShareIds, Sharers, ShareAdmins, ListOwner, Visitors,
    Tunes,            \* the songs
    LibOf,            \* the library of each
    Picks,            \* the sets of songs that may be shared
    NoShare,
    DefaultExpiration,
    MaxShareTime,     \* bound: the clock
    MaxShareEdits,    \* bound: changes of the database by users and scans
    MaxVisits         \* bound: requests of visitors

Kinds == {"media_file", "album", "artist", "playlist"}
ShareRow == [owner : Sharers, kind : Kinds, ids : SUBSET Tunes, downloadable : BOOLEAN,
             visits : Nat, expires : Nat]

ASSUME SharesAssumption ==
    /\ Picks \subseteq SUBSET Tunes
    /\ NoShare \notin ShareRow
    /\ DefaultExpiration \in Nat /\ MaxShareTime \in Nat

VARIABLES
    store,       \* the database: [rows, libs, gone, list, open, clock]
    wanted,   \* wanted[s]: what the owner or an admin last made of the share
    visit,    \* visit[v]: the request a visitor makes
    links,    \* the links handed out: [tune, share, exp]
    visits, shareEdits

shareVars == <<store, wanted, visit, links, visits, shareEdits>>

Outcomes == {"served", "refused", "failed"}
NoVisit == [pc |-> "idle", kind |-> "page", share |-> NoShare, tune |-> NoShare, row |-> NoShare,
            tunes |-> {}, libs |-> {}, saw |-> {}]

-----------------------------------------------------------------------------
\* Reading

HasLibraryAccess(u, libs, t) == u \in ShareAdmins \/ LibOf[t] \in libs

loadMedia_AsVisitor(d, row) ==
    LET here == Tunes \ d.gone IN
    CASE row.kind = "media_file" -> row.ids \cap here
      [] row.kind = "playlist"   -> IF d.open THEN d.list \cap here ELSE {}
      [] OTHER                   -> here

\* Artists and playlists are loaded as the owner of the share, albums and songs as nobody.
loadMedia(d, row) ==
    LET here == Tunes \ d.gone
        seen == {t \in here : HasLibraryAccess(row.owner, d.libs[row.owner], t)}
    IN  CASE row.kind = "media_file" -> row.ids \cap here
          [] row.kind = "album"      -> here
          [] row.kind = "artist"     -> seen
          [] row.kind = "playlist"   ->
               IF d.open \/ row.owner = ListOwner \/ row.owner \in ShareAdmins THEN d.list \cap seen ELSE {}

-----------------------------------------------------------------------------
\* Visitors

Go(v, to) == visit' = [visit EXCEPT ![v] = to]
Ends(r, outcome) == [r EXCEPT !.pc = outcome]

\* A change of the database, seen by every request under way.
Told(d) == [v \in Visitors |->
               IF visit[v].pc \in Outcomes \cup {"idle"} THEN visit[v] ELSE [visit[v] EXCEPT !.saw = @ \cup {d}]]
Writes(d) == store' = d /\ visit' = Told(d)

StartsVisit == visits < MaxVisits /\ visits' = visits + 1

\* The page, the M3U list, the archive: Share.Load.
handleShares(v) ==
    /\ visit[v].pc = "idle" /\ StartsVisit
    /\ \E s \in ShareIds, k \in {"page", "zip"} :
          LET r == [NoVisit EXCEPT !.pc = "media", !.kind = k, !.share = s, !.row = store.rows[s], !.saw = {store}]
          IN  Go(v, IF store.rows[s] = NoShare THEN Ends(r, "refused") ELSE r)
    /\ UNCHANGED <<store, wanted, links, shareEdits>>

decodeStreamInfo(l) == l.exp > store.clock

\* A song: the link must not have expired, then the share is read.
handleStream(v) ==
    /\ visit[v].pc = "idle" /\ StartsVisit
    /\ \E l \in links :
          LET r == [NoVisit EXCEPT !.pc = "media", !.kind = "stream", !.share = l.share, !.tune = l.tune,
                                   !.row = store.rows[l.share], !.saw = {store}]
          IN  Go(v, IF ~decodeStreamInfo(l) \/ store.rows[l.share] = NoShare THEN Ends(r, "refused") ELSE r)
    /\ UNCHANGED <<store, wanted, links, shareEdits>>

Get(v) ==
    /\ visit[v].pc = "media"
    /\ Go(v, [visit[v] EXCEPT !.pc = "expiry", !.tunes = loadMedia(store, visit[v].row)])
    /\ UNCHANGED <<store, wanted, links, visits, shareEdits>>

checkExpired_ByLink(v) ==
    /\ visit[v].pc = "expiry"
    /\ Go(v, IF visit[v].kind # "stream" /\ visit[v].row.expires < store.clock THEN Ends(visit[v], "refused")
             ELSE [visit[v] EXCEPT !.pc = IF visit[v].kind = "stream" THEN "owner" ELSE "count"])
    /\ UNCHANGED <<store, wanted, links, visits, shareEdits>>

checkExpired(v) ==
    /\ visit[v].pc = "expiry"
    /\ Go(v, IF visit[v].row.expires < store.clock THEN Ends(visit[v], "refused")
             ELSE [visit[v] EXCEPT !.pc = IF visit[v].kind = "stream" THEN "owner" ELSE "count"])
    /\ UNCHANGED <<store, wanted, links, visits, shareEdits>>

Visited_WholeRow(row, copy) == [copy EXCEPT !.visits = @ + 1]

\* Only the visit's own columns are written, from the copy that was read.
Visited(row, copy) == [row EXCEPT !.visits = copy.visits + 1]

countVisit(v) ==
    LET s == visit[v].share
        d == [store EXCEPT !.rows[s] = IF @ = NoShare THEN @ ELSE Visited(@, visit[v].row)]
    IN  /\ visit[v].pc = "count"
        /\ store' = d
        /\ visit' = [Told(d) EXCEPT ![v].pc = "answer"]
        /\ UNCHANGED <<wanted, links, visits, shareEdits>>

encodeMediafileShare(r, t) == [tune |-> t, share |-> r.share, exp |-> r.row.expires]

\* A page of songs picks its cover among them and fails when none is left.
CoverArtID(r) == r.row.kind # "media_file" \/ r.tunes # {}

mapShareInfo(v) ==
    LET r == visit[v] IN
    /\ r.pc = "answer" /\ r.kind = "page"
    /\ Go(v, Ends(r, IF CoverArtID(r) THEN "served" ELSE "failed"))
    /\ links' = links \cup {encodeMediafileShare(r, t) : t \in r.tunes}
    /\ UNCHANGED <<store, wanted, visits, shareEdits>>

handleDownloads(v) ==
    LET r == visit[v] IN
    /\ r.pc = "answer" /\ r.kind = "zip"
    /\ Go(v, Ends(r, IF r.row.downloadable THEN "served" ELSE "refused"))
    /\ UNCHANGED <<store, wanted, links, visits, shareEdits>>

readOwner(v) ==
    /\ visit[v].pc = "owner"
    /\ Go(v, [visit[v] EXCEPT !.pc = "file", !.libs = store.libs[visit[v].row.owner]])
    /\ UNCHANGED <<store, wanted, links, visits, shareEdits>>

answerStream(v) ==
    LET r == visit[v] IN
    /\ r.pc = "file"
    /\ Go(v, Ends(r, IF r.tune \in r.tunes /\ HasLibraryAccess(r.row.owner, r.libs, r.tune)
                     THEN "served" ELSE "refused"))
    /\ UNCHANGED <<store, wanted, links, visits, shareEdits>>

Leave(v) ==
    /\ visit[v].pc \in Outcomes
    /\ Go(v, NoVisit)
    /\ UNCHANGED <<store, wanted, links, visits, shareEdits>>

-----------------------------------------------------------------------------
\* Users and scans

ShareEdit == shareEdits < MaxShareEdits /\ shareEdits' = shareEdits + 1
Settings(row) == IF row = NoShare THEN NoShare ELSE [expires |-> row.expires, downloadable |-> row.downloadable]
MayWrite(u, row) == row # NoShare /\ (u = row.owner \/ u \in ShareAdmins)

\* A fresh id, an expiry in any case, and something to be shared that the user can see.
Save(u) ==
    /\ ShareEdit
    /\ \E s \in ShareIds, k \in Kinds, ids \in Picks,
         e \in {0, 1}, dl \in BOOLEAN :
         LET row == [owner |-> u, kind |-> k, ids |-> ids, downloadable |-> dl, visits |-> 0,
                     expires |-> IF e = 0 THEN store.clock + DefaultExpiration ELSE store.clock + e]
         IN  /\ wanted[s] = NoShare /\ store.rows[s] = NoShare
             /\ k = "media_file" \/ ids = Tunes
             /\ \E t \in ids \ store.gone : HasLibraryAccess(u, store.libs[u], t)
             /\ Writes([store EXCEPT !.rows[s] = row])
             /\ wanted' = [wanted EXCEPT ![s] = Settings(row)]
    /\ UNCHANGED <<links, visits>>

\* An expiry that is not given stays; the past is as good as any.
Update(u, downloads) ==
    /\ ShareEdit
    /\ \E s \in ShareIds, e \in 0..(MaxShareTime + 1), dl \in downloads :
          LET new == [store.rows[s] EXCEPT !.downloadable = dl, !.expires = IF e = 0 THEN @ ELSE e]
          IN  /\ MayWrite(u, store.rows[s])
              /\ Writes([store EXCEPT !.rows[s] = new])
              /\ wanted' = [wanted EXCEPT ![s] = Settings(new)]
    /\ UNCHANGED <<links, visits>>

\* The Subsonic API knows no downloads and turns them off.
UpdateShare(u) == Update(u, {FALSE})

Delete(u) ==
    /\ ShareEdit
    /\ \E s \in ShareIds :
          /\ MayWrite(u, store.rows[s])
          /\ Writes([store EXCEPT !.rows[s] = NoShare])
          /\ wanted' = [wanted EXCEPT ![s] = NoShare]
    /\ UNCHANGED <<links, visits>>

Toggled(set, x) == IF x \in set THEN set \ {x} ELSE set \cup {x}

\* A file goes missing or returns, a song enters or leaves the playlist, the playlist is published
\* or made private, a library is granted or withdrawn.
Elsewhere ==
    /\ ShareEdit
    /\ \/ \E t \in Tunes : Writes([store EXCEPT !.gone = Toggled(@, t)]) \/ Writes([store EXCEPT !.list = Toggled(@, t)])
       \/ Writes([store EXCEPT !.open = ~@])
       \/ \E u \in Sharers \ ShareAdmins, t \in Tunes : Writes([store EXCEPT !.libs[u] = Toggled(@, LibOf[t])])
    /\ UNCHANGED <<wanted, links, visits>>

TimePasses ==
    /\ store.clock < MaxShareTime
    /\ Writes([store EXCEPT !.clock = @ + 1])
    /\ UNCHANGED <<wanted, links, visits, shareEdits>>

ShareInit ==
    /\ store = [rows |-> [s \in ShareIds |-> NoShare], libs |-> [u \in Sharers |-> {LibOf[t] : t \in Tunes}],
              gone |-> {}, list |-> Tunes, open |-> TRUE, clock |-> 1]
    /\ wanted = [s \in ShareIds |-> NoShare]
    /\ visit = [v \in Visitors |-> NoVisit]
    /\ links = {}
    /\ visits = 0 /\ shareEdits = 0

ShareNext ==
    \/ \E v \in Visitors : \/ handleShares(v) \/ handleStream(v) \/ Get(v) \/ checkExpired(v) \/ countVisit(v)
                           \/ mapShareInfo(v) \/ handleDownloads(v) \/ readOwner(v) \/ answerStream(v) \/ Leave(v)
    \/ \E u \in Sharers : Save(u) \/ Update(u, BOOLEAN) \/ UpdateShare(u) \/ Delete(u)
    \/ Elsewhere \/ TimePasses

ShareSpec == ShareInit /\ [][ShareNext]_shareVars

-----------------------------------------------------------------------------
\* Properties

During(v) == visit[v].saw

Live(d, s) == d.rows[s] # NoShare /\ d.rows[s].expires >= d.clock

Reaches(d, row, t) == row.owner \in ShareAdmins \/ LibOf[t] \in d.libs[row.owner]

InShare(d, row, t) ==
    /\ t \notin d.gone
    /\ row.kind = "media_file" => t \in row.ids
    /\ row.kind = "playlist" => t \in d.list /\ (d.open \/ row.owner \in {ListOwner} \cup ShareAdmins)
    /\ row.kind \in {"artist", "playlist"} => Reaches(d, row, t)

\* Whatever is served was shared at some moment of the request: the share was there and had not
\* expired, whatever its links say, an archive was allowed, and the song of a stream was in it and
\* in a library of its owner.
ServedIsShared ==
    \A v \in Visitors :
        LET r == visit[v] IN
        r.pc = "served" =>
            /\ \E d \in During(v) : Live(d, r.share) /\ (r.kind = "zip" => d.rows[r.share].downloadable)
            /\ r.kind = "stream" => /\ \E d \in During(v) : InShare(d, r.row, r.tune)
                                    /\ \E d \in During(v) : Reaches(d, r.row, r.tune)

\* A link is refused for a cause only: it expired, its share is gone or had expired, by what was
\* read of it or as it was at some moment of the request, or the song was not in the share or in
\* no library of its owner then.
LinksWork ==
    \A v \in Visitors :
        LET r == visit[v] IN
        r.kind = "stream" /\ r.pc = "refused" =>
            \E d \in During(v) :
                \/ ~Live(d, r.share)
                \/ r.row # NoShare /\ r.row.expires < d.clock
                \/ \E l \in links : l.share = r.share /\ l.tune = r.tune /\ l.exp <= d.clock
                \/ ~InShare(d, r.row, r.tune) \/ ~Reaches(d, r.row, r.tune)

\* A share is as its owner or an admin last left it: visits that began before an edit or a deletion
\* and end after it undo neither.
EditsStick == \A s \in ShareIds : Settings(store.rows[s]) = wanted[s]

\* A share gives what it says and no more, and its settings are the last ones
\* made, while visitors, edits, deletions and time go on beside each other.
SharesAreRespected == ServedIsShared /\ LinksWork /\ EditsStick
================================================================================
