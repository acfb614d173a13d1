---------------------------- MODULE SongMatcher ----------------------------
(* Songs that agents recommend are matched to the library's tracks in one     *)
(* batch: by id, by MusicBrainz id, by ISRC, then by title among the tracks    *)
(* credited to one of the song's artists.  Mixes of similar songs are made of  *)
(* such matches, topped up from further sources until they are long enough.    *)
EXTENDS Integers, Sequences, FiniteSets

CONSTANTS
    Library,    \* the tracks in the order of the query: starred, rating, year
    Artists,    \* rows of artist: [id, name, mbid]
    Batches,    \* lists of songs that agents may answer with
    SeedBatches,    \* the same for the songs similar to a seed
    Counts,     \* how many songs may be asked for
    Nil,
    Threshold,  \* conf.Server.Matcher.FuzzyThreshold
    MaxMatchFaults  \* bound: queries and agents that fail

ASSUME MatcherAssumption ==
    /\ MaxMatchFaults \in Nat /\ Counts \subseteq Nat \ {0} /\ Nil \notin Nat
    /\ Len(Library) \in Nat /\ DOMAIN Library = 1..Len(Library)
    /\ \A t \in DOMAIN Library : Library[t].dur \in Nat /\ IsFiniteSet(Library[t].credits)
    /\ \A b \in Batches \cup SeedBatches :
        Len(b) \in Nat /\ DOMAIN b = 1..Len(b) /\ \A i \in DOMAIN b : b[i].dur \in Nat

VARIABLES
    wish,       \* what is asked for: [kind, count]
    step,
    songs,      \* what the agent answered
    match,      \* [indices of songs -> index in Library or Nil], until used
    res,        \* the mix so far
    sources,    \* the sources still to be drawn on
    offered,    \* history: the tracks that matches and sources offered
    matchFaults

matcherVars == <<wish, step, songs, match, res, sources, offered, matchFaults>>

TrackIndex == DOMAIN Library
Present == {t \in TrackIndex : ~Library[t].missing}
First(S) == IF S = {} THEN Nil ELSE CHOOSE t \in S : \A u \in S : t <= u
Least(a, b) == IF a < b THEN a ELSE b
Ranked(S, n) == CHOOSE i \in S : Cardinality({j \in S : j < i}) = n - 1

-----------------------------------------------------------------------------
(* Exact phases: each fills the songs that the ones before left              *)

matchByID(ss, m) ==
    [i \in DOMAIN ss |-> IF ss[i].id = Nil THEN m[i]
                         ELSE LET t == First({t \in Present : Library[t].id = ss[i].id}) IN IF t = Nil THEN m[i] ELSE t]

matchByMBID(ss, m) ==
    [i \in DOMAIN ss |-> IF m[i] # Nil \/ ss[i].mbid = Nil THEN m[i] ELSE First({t \in Present : Library[t].mbid = ss[i].mbid})]

matchByISRC(ss, m) ==
    [i \in DOMAIN ss |-> IF m[i] # Nil \/ ss[i].isrc = Nil THEN m[i] ELSE First({t \in Present : ss[i].isrc \in Library[t].isrcs})]

-----------------------------------------------------------------------------
(* Titles.  A title or album is <<work, variant>>.                            *)

similarityRatio(a, b) == CASE a = b -> 100 [] a # b /\ (a = Nil \/ b = Nil) -> 0
                           [] a # b /\ a # Nil /\ b # Nil -> IF a[1] = b[1] THEN 90 ELSE 20

Usable(s) == {k \in DOMAIN s.artists : s.artists[k] # [id |-> Nil, name |-> Nil, mbid |-> Nil]}
groupQueries(ss, m) == {i \in DOMAIN ss : m[i] = Nil /\ Usable(ss[i]) # {}}

\* The artists each song owns: those it names by id, and those its names and
\* MusicBrainz ids lead to.
resolveArtists(ss, queries) ==
    [i \in queries |->
        {ss[i].artists[k].id : k \in {k \in Usable(ss[i]) : ss[i].artists[k].id # Nil}}
        \cup {a.id : a \in {a \in Artists : \E k \in Usable(ss[i]) :
                LET p == ss[i].artists[k]
                IN  p.id = Nil /\ ((p.name # Nil /\ a.name = p.name) \/ (p.mbid # Nil /\ a.mbid = p.mbid))}}]

\* The tracks credited to an artist the song owns, with the owned artists.
bucketTracks(owned) == [i \in DOMAIN owned |-> [t \in {t \in Present : Library[t].credits \cap owned[i] # {}} |-> Library[t].credits \cap owned[i]]]

computeSpecificityLevel(s, t, ids) ==
    LET track == Library[t]
        mbids == {a.mbid : a \in {a \in Artists : a.id \in ids /\ a.mbid # Nil}}
        albumOK == s.album # Nil /\ similarityRatio(track.album, s.album) >= Threshold
        Level(p) ==
            LET identity == (p.id # Nil /\ p.id \in ids) \/ (p.mbid # Nil /\ p.mbid \in mbids)
                byName == p.name # Nil /\ track.artist = p.name
            IN  IF identity /\ s.albumMbid # Nil /\ track.albumMbid = s.albumMbid THEN 5
                ELSE IF identity /\ albumOK THEN 4 ELSE IF byName /\ albumOK THEN 3
                ELSE IF identity THEN 2 ELSE IF byName THEN 1 ELSE 0
        levels == {Level(s.artists[k]) : k \in Usable(s)}
    IN  CHOOSE l \in levels : \A x \in levels : x <= l

durationProximity(s, t) == IF s.dur = 0 THEN 0 ELSE IF s.dur > Library[t].dur THEN Library[t].dur - s.dur ELSE s.dur - Library[t].dur

Score(s, t, ids) ==
    <<similarityRatio(s.title, Library[t].title), durationProximity(s, t), computeSpecificityLevel(s, t, ids),
      Cardinality(ids), IF Library[t].starred THEN 1 ELSE 0, IF s.album = Nil THEN 0 ELSE similarityRatio(s.album, Library[t].album)>>

betterThan(a, b) == \E k \in DOMAIN a : a[k] > b[k] /\ \A j \in 1..(k - 1) : a[j] = b[j]

findBestMatch(s, bucket) ==
    LET close == {t \in DOMAIN bucket : similarityRatio(s.title, Library[t].title) >= Threshold}
    IN  First({t \in close : \A u \in close : ~betterThan(Score(s, u, bucket[u]), Score(s, t, bucket[t]))})

matchByTitle(ss, m) ==
    LET queries == groupQueries(ss, m)
        buckets == bucketTracks(resolveArtists(ss, queries))
    IN  [i \in DOMAIN ss |-> IF i \in queries THEN findBestMatch(ss[i], buckets[i]) ELSE m[i]]

Nothing(ss) == [i \in DOMAIN ss |-> Nil]
ExactMatches(ss) == matchByISRC(ss, matchByMBID(ss, matchByID(ss, Nothing(ss))))
resolveMatches(ss) == matchByTitle(ss, ExactMatches(ss))

-----------------------------------------------------------------------------
(* Lists of tracks                                                           *)

\* A track is listed once, unless the very same song is asked for again.
orderAndDedup(ss, m, count) ==
    LET FirstFor(t) == First({j \in DOMAIN ss : m[j] = t})
        Listed(i) == m[i] # Nil /\ ss[FirstFor(m[i])] = ss[i]
        chosen == {i \in DOMAIN ss : Listed(i)}
    IN  [n \in 1..Least(count, Cardinality(chosen)) |-> m[Ranked(chosen, n)]]

dedupByID(list) ==
    LET firsts == {i \in DOMAIN list : \A j \in 1..(i - 1) : list[j] # list[i]}
    IN  [n \in 1..Cardinality(firsts) |-> list[Ranked(firsts, n)]]

\* Some order of a set: shuffles and weighted picks may give any.
Listing(S) == [n \in 1..Cardinality(S) |-> Ranked(S, n)]
Values(m) == {m[i] : i \in DOMAIN m} \ {Nil}

-----------------------------------------------------------------------------
SourcesOf(kind) == CASE kind = "artist" -> <<"fallback", "seeds">> [] kind = "track" -> <<"fallback">>
                     [] kind = "playlist" -> <<"seeds">> [] kind = "top" -> <<>>

MatcherInit ==
    /\ \E k \in {"artist", "track", "playlist", "top"}, n \in Counts : wish = [kind |-> k, count |-> n]
    /\ step = "ask" /\ songs = <<>> /\ match = <<>> /\ res = <<>> /\ offered = {} /\ matchFaults = 0
    /\ sources = SourcesOf(wish.kind)

MatchFault == matchFaults < MaxMatchFaults /\ matchFaults' = matchFaults + 1

\* The agent chain answers, or none does: a mix goes on with its sources, top
\* songs are not found.
AskAgent ==
    /\ step = "ask" /\ wish.kind # "playlist"
    /\ \/ \E b \in Batches : songs' = b /\ step' = "match" /\ UNCHANGED matchFaults
       \/ MatchFault /\ step' = (IF wish.kind = "top" THEN "failed" ELSE "topup") /\ UNCHANGED songs
    /\ UNCHANGED <<wish, match, res, sources, offered>>

\* An exact phase that fails is an error; a title phase that fails is one only
\* when nothing was matched before it.
Matched(fault) == IF fault THEN ExactMatches(songs) ELSE resolveMatches(songs)

\* Mutant: as many songs are matched as are asked for.
MatchSongs_Capped ==
    /\ step = "match" /\ match' = resolveMatches(songs) /\ UNCHANGED matchFaults
    /\ offered' = Values(match') /\ res' = orderAndDedup(songs, match', wish.count) /\ step' = "topup"
    /\ UNCHANGED <<wish, songs, sources>>

MatchSongs ==
    /\ step = "match"
    /\ \/ /\ match' = Matched(FALSE) /\ UNCHANGED matchFaults
          /\ offered' = Values(match')
          /\ res' = orderAndDedup(songs, match', IF wish.kind = "top" THEN wish.count ELSE Len(songs))
          /\ step' = IF wish.kind = "top" THEN "done" ELSE "topup"
       \/ /\ MatchFault /\ Values(Matched(TRUE)) # {}
          /\ match' = Matched(TRUE) /\ offered' = Values(match')
          /\ res' = orderAndDedup(songs, match', IF wish.kind = "top" THEN wish.count ELSE Len(songs))
          /\ step' = IF wish.kind = "top" THEN "done" ELSE "topup"
       \/ /\ MatchFault /\ step' = "failed" /\ UNCHANGED <<match, offered, res>>
    /\ UNCHANGED <<wish, songs, sources>>

\* One source is drawn on: what it offers comes after what there is.
Draw(extra, all) ==
    /\ res' = dedupByID(res \o extra) /\ offered' = offered \cup all
    /\ sources' = Tail(sources) /\ step' = "topup" /\ songs' = <<>> /\ match' = <<>>

Short == step \in {"ask", "topup"} /\ (step = "ask" => wish.kind = "playlist") /\ sources # <<>> /\ Len(dedupByID(res)) < wish.count

\* The sets of tracks that one batch of recommendations may lead to.
Offers == {Values(resolveMatches(b)) : b \in SeedBatches}

\* Seeds are sampled among the present tracks, each is asked for similar songs,
\* and all answers are matched; without a match the seeds are the mix.
seedMix ==
    /\ Short /\ Head(sources) = "seeds"
    /\ \E seeds \in SUBSET Present, found \in Offers :
        LET all == IF found = {} THEN seeds ELSE found
        IN  seeds # {} /\ \E pick \in SUBSET all : Cardinality(pick) = Least(wish.count, Cardinality(all)) /\ Draw(Listing(pick), all)
    /\ UNCHANGED <<wish, matchFaults>>

\* Top songs of the artist and of similar ones, a track once for each artist
\* that lists it, picked by weight until there are enough distinct ones.
similarSongsFallback ==
    /\ Short /\ Head(sources) = "fallback"
    /\ \E mine, others \in Offers :
        LET all == mine \cup others
        IN  \E pick \in SUBSET all : Cardinality(pick) = Least(wish.count, Cardinality(all)) /\ Draw(Listing(pick), all)
    /\ UNCHANGED <<wish, matchFaults>>

\* A source that fails is passed over.
SourceFails ==
    /\ Short /\ MatchFault /\ sources' = Tail(sources) /\ step' = "topup"
    /\ UNCHANGED <<wish, songs, match, res, offered>>

topUp ==
    /\ step = "topup" /\ ~Short
    /\ res' = SubSeq(dedupByID(res), 1, Least(wish.count, Len(dedupByID(res)))) /\ step' = "done" /\ songs' = <<>> /\ match' = <<>>
    /\ UNCHANGED <<wish, sources, offered, matchFaults>>

MatcherNext == AskAgent \/ MatchSongs \/ seedMix \/ similarSongsFallback \/ SourceFails \/ topUp
MatcherSpec == MatcherInit /\ [][MatcherNext]_matcherVars

-----------------------------------------------------------------------------
(* Properties                                                                *)

\* What a song means, whoever else is in the batch: its own track, a track with
\* its recording id, one with its ISRC, or one by an artist it names whose
\* title is close and which no other such track surpasses.
MeantFor(s, t) ==
    LET byId == {u \in Present : s.id # Nil /\ Library[u].id = s.id}
        byMbid == {u \in Present : s.mbid # Nil /\ Library[u].mbid = s.mbid}
        byIsrc == {u \in Present : s.isrc # Nil /\ s.isrc \in Library[u].isrcs}
        Credited(u, k) == \E a \in Library[u].credits :
            IF s.artists[k].id # Nil THEN a = s.artists[k].id
            ELSE \E r \in Artists : r.id = a /\ ((s.artists[k].name # Nil /\ r.name = s.artists[k].name) \/ (s.artists[k].mbid # Nil /\ r.mbid = s.artists[k].mbid))
        byTitle == {u \in Present : similarityRatio(s.title, Library[u].title) >= Threshold /\ \E k \in DOMAIN s.artists : Credited(u, k)}
        Closest(u) == \A v \in byTitle : similarityRatio(s.title, Library[v].title) <= similarityRatio(s.title, Library[u].title)
    IN  IF byId # {} THEN t \in byId ELSE IF byMbid # {} THEN t \in byMbid ELSE IF byIsrc # {} THEN t \in byIsrc
        ELSE IF byTitle # {} THEN t \in byTitle /\ Closest(t) ELSE t = Nil

\* Every song of a batch is matched as it would be alone, to a track it means:
\* the other songs of the batch lend it neither artists nor tracks.
MatchedOnItsOwn ==
    step \in {"topup", "done"} /\ matchFaults = 0 =>
        \A i \in DOMAIN match : MeantFor(songs[i], match[i]) /\ match[i] = resolveMatches(<<songs[i]>>)[1]

\* A mix has no track twice and no missing one, and is as long as was asked or
\* has everything that was offered: repetitions do not use up the count.
MixIsFull ==
    step = "done" /\ wish.kind # "top" =>
        /\ Cardinality({res[i] : i \in DOMAIN res}) = Len(res)
        /\ {res[i] : i \in DOMAIN res} \subseteq offered \cap Present
        /\ Len(res) = Least(wish.count, Cardinality(offered))

\* A mix is made of the tracks that were meant, each once, as many as asked.
MixIsAsRecommended == MatchedOnItsOwn /\ MixIsFull
=============================================================================
