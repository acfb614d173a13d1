-------------------------------- MODULE FileTags --------------------------------
(***************************************************************************)
(* From the tags of a file to the artists of the song.  A tagger writes    *)
(* the artists of a role and their MusicBrainz ids in one of several forms; *)
(* the scanner cleans the tags, splits joined values at the separators     *)
(* except within names the user protected, pairs names with ids by their   *)
(* position, finds the performers of each instrument, hands the ids on to  *)
(* the same name in other roles and collects the artists of the folder.    *)
(*                                                                         *)
(* A name is a sequence of characters, the separator being one of them; a  *)
(* MusicBrainz id is the folded name of its artist, the empty one being    *)
(* "".  Sort names go the way of the ids and are left out.  The roles      *)
(* other than artist and album artist are treated alike: "composer" stands *)
(* for them.                                                               *)
(***************************************************************************)
EXTENDS Naturals, Sequences, FiniteSets

LOCAL INSTANCE SequencesExt

CONSTANTS
    Letters,       \* the characters of words
    Exceptions,    \* Scanner.ArtistSplitExceptions: a set of names
    ArtistLists,   \* the lists of names that may be credited as artists ...
    AlbumLists,    \* ... as album artists ...
    ComposerLists, \* ... as composers ...
    PlayerLists    \* ... and as performers: sequences of [sub, name]

VARIABLES
    credits,       \* what the tagger was told: the ghost the properties refer to
    tags,          \* the tags of the file, raw and then cleaned
    people,        \* model.Participants: people[role] is a sequence of [name, mbid, sub]
    known,         \* the artists of the folder: a set of [name, mbid, sub]
    stage           \* how far the scanner is

tagVars == <<credits, tags, people, known, stage>>

Separator == ";"
UnknownName == <<"?">>
VariousName == <<"*">>
Roles == {"artist", "albumartist", "composer", "performer"}
Forms == {"joined", "multi", "repeated"}

-----------------------------------------------------------------------------
\* Values

\* Lower case, as ids of artists are made of.
Folded(name) == [i \in DOMAIN name |-> IF name[i] = "A" THEN "a" ELSE name[i]]

filterDuplicatedOrEmptyValues(values) ==
    FoldLeft(LAMBDA kept, v : IF v = <<>> \/ v \in Range(kept) THEN kept ELSE Append(kept, v), <<>>, values)

Joined(names) ==
    FoldLeft(LAMBDA text, n : IF text = <<>> THEN n ELSE text \o <<Separator>> \o n, <<>>, names)

isWordBounded(value, first, last) ==
    /\ first = 1 \/ value[first - 1] \notin Letters
    /\ last = Len(value) \/ value[last + 1] \notin Letters

MatchesAt(value, i) ==
    {e \in Exceptions : i + Len(e) - 1 <= Len(value) /\ Folded(SubSeq(value, i, i + Len(e) - 1)) = Folded(e)}

\* From left to right, the longest name that matches, whether it ends up protected or not.
Matches(value) ==
    FoldLeft(LAMBDA spans, i :
        LET found == MatchesAt(value, i) IN
        IF found = {} \/ (spans # <<>> /\ i <= Last(spans)[2]) THEN spans
        ELSE LET e == CHOOSE e \in found : \A d \in found : Len(d) <= Len(e)
             IN  Append(spans, <<i, i + Len(e) - 1>>), <<>>, [i \in DOMAIN value |-> i])

protectedSpans_Anywhere(value) == Range(Matches(value))

protectedSpans(value) == {s \in Range(Matches(value)) : isWordBounded(value, s[1], s[2])}

overlapsAny(i, spans) == \E s \in spans : s[1] <= i /\ i <= s[2]

splitValue(value) ==
    LET spans == protectedSpans(value)
        cut(acc, i) ==
          IF value[i] = Separator /\ ~overlapsAny(i, spans) THEN Append(acc, <<>>)
          ELSE [acc EXCEPT ![Len(acc)] = Append(@, value[i])]
    IN  FoldLeft(cut, <<<<>>>>, [i \in DOMAIN value |-> i])

splitParticipantValues(values) ==
    filterDuplicatedOrEmptyValues(FlattenSeq([i \in DOMAIN values |-> splitValue(values[i])]))

-----------------------------------------------------------------------------
\* What taggers write

Ids(names) == [i \in DOMAIN names |-> Folded(names[i])]

Tagged(c) ==
    [single |-> IF c.names = <<>> THEN <<>> ELSE IF c.form = "repeated" THEN c.names ELSE <<Joined(c.names)>>,
     multi  |-> IF c.form = "multi" THEN c.names ELSE <<>>,
     mbids  |-> IF c.ids THEN Ids(c.names) ELSE <<>>]

\* Pairs arrive grouped by instrument, the instruments in any order.
ByInstrument(pairs, order) ==
    FlattenSeq([k \in DOMAIN order |-> SelectSeq(pairs, LAMBDA p : p.sub = order[k])])

Credit(lists, forms) ==
    {[names |-> n, form |-> f, ids |-> b] : n \in lists \ {<<>>}, f \in forms, b \in BOOLEAN}
    \cup {[names |-> n, form |-> "joined", ids |-> FALSE] : n \in lists \cap {<<>>}}

TagInit ==
    /\ \E a \in Credit(ArtistLists, Forms), l \in Credit(AlbumLists, {"joined"}),
         c \in Credit(ComposerLists, {"joined", "repeated"}), p \in PlayerLists, comp \in BOOLEAN :
         /\ credits = [artist |-> a, albumartist |-> l, composer |-> c, players |-> p, compilation |-> comp]
         /\ tags = [artist |-> Tagged(a), albumartist |-> Tagged(l), composer |-> Tagged(c),
                    performer |-> p, performerid |-> [i \in DOMAIN p |-> [sub |-> p[i].sub, name |-> Folded(p[i].name)]],
                    compilation |-> comp]
    /\ people = [r \in Roles |-> <<>>]
    /\ known = {}
    /\ stage = "read"

-----------------------------------------------------------------------------
\* Cleaning

filterEmptyTags(raw) == [field \in DOMAIN raw |-> filterDuplicatedOrEmptyValues(raw[field])]

Instruments(pairs) == {pairs[i].sub : i \in DOMAIN pairs}
Orders(set) == {o \in [1 .. Cardinality(set) -> set] : Range(o) = set}

\* The instruments of the names and those of the ids come in the order of two maps.
clean ==
    /\ stage = "read" /\ stage' = "artists"
    /\ \E o, q \in Orders(Instruments(tags.performer)) :
          tags' = [tags EXCEPT !.artist = filterEmptyTags(@), !.albumartist = filterEmptyTags(@),
                               !.composer = filterEmptyTags(@),
                               !.performer = filterDuplicatedOrEmptyValues(ByInstrument(@, o)),
                               !.performerid = filterDuplicatedOrEmptyValues(ByInstrument(@, q))]
    /\ UNCHANGED <<credits, people, known>>

-----------------------------------------------------------------------------
\* Participants

buildArtists(names, mbids) ==
    [i \in DOMAIN names |-> [name |-> names[i], mbid |-> IF i <= Len(mbids) THEN mbids[i] ELSE <<>>, sub |-> ""]]

\* One entry for an artist and an instrument, the first one.
add(list, artists) ==
    FoldLeft(LAMBDA acc, p :
        IF \E i \in DOMAIN acc : Folded(acc[i].name) = Folded(p.name) /\ acc[i].sub = p.sub THEN acc
        ELSE Append(acc, p), list, artists)

getArtistValues(t) ==
    IF t.multi # <<>> THEN t.multi
    ELSE IF Len(t.single) # 1 THEN t.single ELSE splitParticipantValues(t.single)

getRoleValues(t) == splitParticipantValues(t.single)

parseArtists(t) ==
    buildArtists(IF getArtistValues(t) = <<>> THEN <<UnknownName>> ELSE getArtistValues(t), t.mbids)

Unknown(artists) == Len(artists) = 1 /\ artists[1].name = UnknownName

AlbumArtists ==
    CASE ~Unknown(parseArtists(tags.albumartist)) -> parseArtists(tags.albumartist)
      [] tags.compilation -> buildArtists(<<VariousName>>, <<VariousName>>)
      [] OTHER -> parseArtists(tags.artist)

mapParticipants ==
    /\ stage = "artists" /\ stage' = "performers"
    /\ people' = [people EXCEPT !["artist"] = add(<<>>, parseArtists(tags.artist)),
                                !["albumartist"] = add(<<>>, AlbumArtists),
                                !["composer"] = add(<<>>, buildArtists(getRoleValues(tags.composer), tags.composer.mbids))]
    /\ UNCHANGED <<credits, tags, known>>

buildRoleMbidMaps(sub) == SelectSeq(tags.performerid, LAMBDA p : p.sub = sub)

\* The names of each pair, with the instrument.
Players ==
    FlattenSeq([i \in DOMAIN tags.performer |->
        LET names == splitParticipantValues(<<tags.performer[i].name>>)
        IN  [j \in DOMAIN names |-> [sub |-> tags.performer[i].sub, name |-> names[j]]]])

getPerformerMbid_InOrder(players, i) ==
    IF i <= Len(tags.performerid) THEN tags.performerid[i].name ELSE <<>>

\* The next id of the instrument.
getPerformerMbid(players, i) ==
    LET n   == Cardinality({j \in 1 .. i : players[j].sub = players[i].sub})
        ids == buildRoleMbidMaps(players[i].sub)
    IN  IF n <= Len(ids) THEN ids[n].name ELSE <<>>

processPerformers ==
    /\ stage = "performers" /\ stage' = "ids"
    /\ people' = [people EXCEPT !["performer"] =
                     LET players == Players
                     IN  add(<<>>, [i \in DOMAIN players |->
                           [name |-> players[i].name, mbid |-> getPerformerMbid(players, i), sub |-> players[i].sub]])]
    /\ UNCHANGED <<credits, tags, known>>

\* The id of a name that the artist and album artist tags give, the last of them.
IdOf(name) ==
    LET named == SelectSeq(people["artist"] \o people["albumartist"], LAMBDA p : p.name = name /\ p.mbid # <<>>)
    IN  IF named = <<>> THEN <<>> ELSE Last(named).mbid

Synced_NotComposers(role, p) ==
    IF p.mbid = <<>> /\ role # "composer" THEN [p EXCEPT !.mbid = IdOf(p.name)] ELSE p

Synced(role, p) == IF p.mbid = <<>> THEN [p EXCEPT !.mbid = IdOf(p.name)] ELSE p

syncMissingMbzIDs ==
    /\ stage = "ids" /\ stage' = "folder"
    /\ people' = [r \in Roles |-> [i \in DOMAIN people[r] |-> Synced(r, people[r][i])]]
    /\ UNCHANGED <<credits, tags, known>>

\* One record for an artist: of whichever of its roles the map yields first.  The properties are
\* about one artist at a time, so the order of the other roles is left alone.
AllArtists ==
    /\ stage = "folder" /\ stage' = "done"
    /\ \E first \in Roles :
          known' = Range(FoldLeft(LAMBDA acc, r :
              add(acc, [i \in DOMAIN people[r] |-> [people[r][i] EXCEPT !.sub = ""]]),
              <<>>, <<first, "artist", "albumartist", "composer", "performer">>))
    /\ UNCHANGED <<credits, tags, people>>

TagNext == clean \/ mapParticipants \/ processPerformers \/ syncMissingMbzIDs \/ AllArtists

TagSpec == TagInit /\ [][TagNext]_tagVars

-----------------------------------------------------------------------------
\* Properties

\* The artists a credited name stands for: itself, or its parts when the file joins names with the
\* separator and the name, not being protected, holds one.
Pieces(name) ==
    LET end(i) == i \in {0, Len(name) + 1} \/ name[i] = Separator
    IN  {SubSeq(name, i + 1, j - 1) : <<i, j>> \in
            {ij \in (0 .. Len(name)) \X (1 .. Len(name) + 1) :
                ij[1] < ij[2] /\ {k \in ij[1] .. ij[2] : end(k)} = {ij[1], ij[2]}}}

Standing(name, whole) == IF whole \/ name \in Exceptions THEN {name} ELSE Pieces(name)

Meant(c, whole) == UNION {{Folded(n) : n \in Standing(c.names[i], whole)} : i \in DOMAIN c.names}

Whole(c) == c.form = "multi" \/ (c.form = "repeated" /\ Len(filterDuplicatedOrEmptyValues(c.names)) # 1)

\* Whichever form the tagger chose, the song is credited to exactly the artists that were named:
\* protected names stay whole, joined ones come apart, repeated ones count once.
CreditsBecomeArtists ==
    stage = "done" =>
        /\ {Folded(p.name) : p \in Range(people["composer"])} = Meant(credits.composer, FALSE)
        /\ {Folded(p.name) : p \in Range(people["artist"])}
             = IF credits.artist.names = <<>> THEN {UnknownName}
               ELSE Meant(credits.artist, Whole(credits.artist))

Clear(c) ==
    /\ \A i, j \in DOMAIN c.names : Folded(c.names[i]) = Folded(c.names[j]) => c.names[i] = c.names[j]
    /\ c.ids => \A i \in DOMAIN c.names : Standing(c.names[i], Whole(c)) = {c.names[i]}

ClearCredits == Clear(credits.artist) /\ Clear(credits.albumartist) /\ Clear(credits.composer)

\* When every name that comes with an id is one artist spelled one way, nobody is given the id of
\* somebody else, in any role, nor in the record of the artist that the scan writes.
IdsGoToTheirArtist ==
    stage = "done" /\ ClearCredits =>
        \A p \in known \cup UNION {Range(people[r]) : r \in Roles} : p.mbid \in {<<>>, Folded(p.name)}

\* An artist whose id is known from the artist or album artist tags has it in every role.
IdsReachEveryRole ==
    stage = "done" =>
        \A r \in Roles : \A p \in Range(people[r]) : p.mbid = <<>> => IdOf(p.name) = <<>>

\* The artists a song is credited to are those its tags name, with their ids.
CreditsAreKept == CreditsBecomeArtists /\ IdsGoToTheirArtist /\ IdsReachEveryRole
================================================================================
