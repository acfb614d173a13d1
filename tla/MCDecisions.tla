---------------------------- MODULE MCDecisions ----------------------------
(* Decisions made from what clients ask and what is stored.  The components   *)
(* share no state: `part` picks one, the others keep a fixed initial state.   *)
EXTENDS TranscodeDecision, SmartPlaylists, SongMatcher, TLC

VARIABLE part

\* A song whose file is replaced by a lossy one with fewer channels.
Facts(container, codec, bitrate, rate, ch, depth) ==
    [container |-> container, codec |-> codec, bitrate |-> bitrate, rate |-> rate, ch |-> ch, depth |-> depth]
FlacThenMp3Tags == <<Facts("flac", "flac", 900, 96, 6, 24), Facts("mp3", "mp3", 320, 44, 2, 0)>>
FlacThenMp3Probes == <<Facts("flac", "flac", 910, 96, 6, 24), Facts("mp3", "mp3", 319, 44, 2, 0)>>
TwoSeconds == <<1, 2>>

Lim(name, cmp, values) == [name |-> name, cmp |-> cmp, values |-> values, required |-> TRUE]
Limits == {<<Lim("ch", "LE", <<2>>), Lim("rate", "EQ", <<44, 48>>)>>, <<Lim("rate", "LE", <<44>>), Lim("bitrate", "LE", <<3004>>)>>,
           <<Lim("bitrate", "GE", <<1996>>), Lim("depth", "LE", <<16>>)>>, <<Lim("depth", "NE", <<24>>)>>,
           <<Lim("ch", "EQ", <<1, 4, 8>>), Lim("ch", "LE", <<2>>)>>, <<Lim("bitrate", "LE", <<4>>)>>}
Declared(limits) ==
    {[max |-> m, maxTranscoding |-> t, direct |-> d, transcoding |-> l, limited |-> c, limitations |-> ls] :
        m \in {0, 5004}, t \in {0, 1596}, d \in {<<>>, <<[AnyHTTP EXCEPT !.containers = {"mp3"}, !.ch = 2]>>},
        l \in {<<To("opus")>>, <<[To("mp3") EXCEPT !.protocol = "hls"], To("flac")>>,
               <<To("mp4"), [To("mp3") EXCEPT !.ch = 1]>>, <<To("flac"), To("opus")>>},
        c \in {"opus", "flac"}, ls \in limits}
PlaysOpus == [max |-> 0, maxTranscoding |-> 0, direct |-> <<>>, transcoding |-> <<To("opus")>>, limited |-> "", limitations |-> <<>>]
SomePlayers == {[cap |-> c, forced |-> f] : c \in {0, 250}, f \in {"", "opus", "flac"}}
SomeTemplates ==
    {<<>>, <<Word("-i"), Word("%s"), Option("-ar", 22), Option("-b:a", 64), Word("-")>>,
     <<Word("-ss %t"), Word("-i"), Word("%s"), Word("-b:a %b"), Word("out")>>,
     <<Word("-i"), Word("cover"), Word("-i"), Word("%s"), Word("-b:a %b"), Word("-")>>}
SomeDevices ==
    {[declares |-> <<c>>, player |-> p, template |-> <<>>] : c \in Declared(Limits), p \in {[cap |-> 0, forced |-> "opus"], [cap |-> 250, forced |-> ""]}}
    \cup {[declares |-> <<PlaysOpus>>, player |-> p, template |-> t] : p \in SomePlayers, t \in SomeTemplates}
    \cup {[declares |-> <<>>, player |-> p, template |-> t] : p \in SomePlayers, t \in SomeTemplates}

\* Smart playlists: rules on annotations, a tag, a role, a nullable column, in
\* groups of two; five songs that lack some of them.
Leaf(op, field, value) == [op |-> op, field |-> field, value |-> value]
Group2(op, a, b) == [op |-> op, rules |-> <<a, b>>]
SomeRules ==
    {Leaf(op, "rating", v) : op \in {"is", "isNot", "gt", "lt"}, v \in {0, 2}}
    \cup {Leaf(op, "genre", v) : op \in {"is", "isNot"}, v \in {1, 2}}
    \cup {Leaf("isNot", "artist", 1), Leaf("is", "artist", 1), Leaf("isMissing", "genre", TRUE), Leaf("isPresent", "bpm", TRUE),
           Leaf("isMissing", "bpm", FALSE), Leaf("isNot", "bpm", 120), Leaf("inTheLast", "lastplayed", 5),
           Leaf("notInTheLast", "lastplayed", 5), Leaf("inTheRange", "rating", 0), Leaf("lt", "albumrating", 3),
           Leaf("notInPlaylist", "rating", 0)}
Simple == {Group2(op, a, b) : op \in {"all", "any"}, a, b \in SomeRules}
Nested ==
    {Group2(o1, c, Group2(o2, a, b)) : o1, o2 \in {"all", "any"}, a, b \in {l \in SomeRules : l.field = "genre"},
        c \in {Leaf("isNot", "genre", 1), Leaf("lt", "rating", 2)}}
Scene(rules, sort, limit, percent, child, readers) ==
    [rules |-> rules, sort |-> sort, limit |-> limit, percent |-> percent, child |-> child, readers |-> readers]
SomeScenes ==
    {Scene(e, "rating", 0, 0, "public", 1) : e \in Simple \cup Nested}
    \cup {Scene(Group2("any", Leaf("inPlaylist", "rating", 0), Leaf("is", "genre", 2)), sort, l, 50, c, 2) :
            sort \in {"rating", "albumrating"}, l \in {0, 2}, c \in {"own", "private"}}
Row(r, a, b, p, g, ar) == [rating |-> r, albumRating |-> a, bpm |-> b, played |-> p, genre |-> g, artist |-> ar]
FiveRows ==
    <<Row(Null, Null, 120, Null, {1, 2}, {1}), Row(0, 4, Null, 99, {1}, {1, 2}), Row(2, 2, 90, 91, {2}, {2}),
      Row(2, Null, 120, 99, {}, {1}), Row(Null, 0, Null, 91, {3}, {2})>>

\* Five tracks, one of them missing, of three artists, two of the same name;
\* songs known by id, recording, ISRC, or by artist and title.
Track(id, mbid, isrcs, title, artist, by, album, starred, missing) ==
    [id |-> id, mbid |-> mbid, isrcs |-> isrcs, title |-> title, artist |-> artist, credits |-> by, album |-> album,
     albumMbid |-> IF album = Nil THEN Nil ELSE "rel", dur |-> IF starred THEN 200 ELSE 180, starred |-> starred, missing |-> missing]
FiveTracks ==
    <<Track("s1", "rec", {"isrc"}, <<"song", 1>>, "ann", {"A"}, <<"lp", 1>>, TRUE, FALSE),
      Track("s2", Nil, {}, <<"song", 2>>, "ann", {"A", "B"}, Nil, FALSE, FALSE),
      Track("s3", Nil, {"isrc"}, <<"song", 1>>, "bob", {"B"}, <<"lp", 2>>, FALSE, FALSE),
      Track("s4", "rec", {}, <<"other", 1>>, "ann", {"C"}, Nil, FALSE, FALSE),
      Track("s5", "gone", {}, <<"song", 1>>, "ann", {"A"}, Nil, TRUE, TRUE)>>
ThreeArtists == {[id |-> "A", name |-> "ann", mbid |-> "mA"], [id |-> "B", name |-> "bob", mbid |-> Nil], [id |-> "C", name |-> "ann", mbid |-> "mC"]}
By(id, name, mbid) == [id |-> id, name |-> name, mbid |-> mbid]
SongOf(id, mbid, isrc, title, artists, album, dur) ==
    [id |-> id, mbid |-> mbid, isrc |-> isrc, title |-> title, artists |-> artists, album |-> album, albumMbid |-> Nil, dur |-> dur]
Recommended ==
    {SongOf("s2", "rec", Nil, <<"song", 1>>, <<>>, Nil, 0), SongOf("s5", Nil, "isrc", <<"song", 1>>, <<>>, Nil, 0),
     SongOf(Nil, "gone", Nil, <<"song", 2>>, <<By(Nil, "ann", Nil)>>, Nil, 180), SongOf(Nil, Nil, Nil, <<"song", 1>>, <<By(Nil, "bob", Nil)>>, <<"lp", 1>>, 0),
     SongOf(Nil, Nil, Nil, <<"song", 3>>, <<By(Nil, Nil, "mA"), By("B", Nil, Nil)>>, <<"lp", 2>>, 0), SongOf(Nil, Nil, Nil, <<"other", 1>>, <<By(Nil, "ann", "mC")>>, Nil, 0),
     SongOf(Nil, Nil, Nil, <<"other", 1>>, <<By("B", "ann", Nil)>>, Nil, 0), SongOf(Nil, Nil, Nil, <<"none", 1>>, <<By(Nil, "eve", Nil)>>, Nil, 0)}
SomeBatches == {<<>>} \cup {<<a>> : a \in Recommended} \cup {<<a, b, c>> : a, b, c \in Recommended}
SomeSeedBatches == {<<>>} \cup {<<a>> : a \in Recommended}

DecisionsInit ==
    /\ part \in {"playing", "rules", "mixes"}
    /\ IF part = "playing" THEN TRUE ELSE device = CHOOSE d \in SomeDevices : TRUE
    /\ IF part = "rules" THEN TRUE ELSE scene = CHOOSE c \in SomeScenes : TRUE
    /\ IF part = "mixes" THEN TRUE ELSE wish = [kind |-> "artist", count |-> 1]
    /\ DecisionInit /\ SmartInit /\ MatcherInit

DecisionsNext ==
    /\ \/ part = "playing" /\ DecisionNext /\ UNCHANGED <<smartVars, matcherVars>>
       \/ part = "rules" /\ SmartNext /\ UNCHANGED <<decisionVars, matcherVars>>
       \/ part = "mixes" /\ MatcherNext /\ UNCHANGED <<decisionVars, smartVars>>
    /\ UNCHANGED part

DecisionsSpec == DecisionsInit /\ [][DecisionsNext]_<<decisionVars, smartVars, matcherVars, part>>
=============================================================================
