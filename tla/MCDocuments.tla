---------------------------- MODULE MCDocuments ----------------------------
(* What is read from files: tags into ids, artists and albums, and lyrics.    *)
(* The components share no state: `part` picks one of Parts, the others keep  *)
(* a fixed initial state.                                                     *)
EXTENDS PersistentIds, FileTags, AlbumFromSongs, Lyrics, TLC

CONSTANT Parts      \* the components of the run

VARIABLE part

\* Files to be told apart by their tags: with and without MusicBrainz ids, with
\* the names of albums in two spellings, on a compilation.
TaggedSong(disc) == ("title" :> "Intro") @@ ("album" :> "x") @@ ("artist" :> "a") @@ ("disc" :> disc)
FourTaggings ==
    {TaggedSong("1"),
     ("album" :> "X") @@ ("artist" :> "b") @@ ("albumartist" :> "a") @@ ("originaldate" :> 1) @@ ("recordingdate" :> 2),
     ("title" :> "Intro") @@ ("musicbrainz_trackid" :> "r") @@ ("musicbrainz_albumid" :> "m"),
     ("title" :> "Other") @@ ("musicbrainz_trackid" :> "r") @@ ("album" :> "x") @@ ("artist" :> "b") @@ ("compilation" :> "1")}
TwoDiscs == {TaggedSong("1"), TaggedSong("2")}
ThreePlaces == {[lib |-> "1", dir |-> "d", base |-> "n"], [lib |-> "1", dir |-> "e", base |-> "n"], [lib |-> "2", dir |-> "d", base |-> "n"]}
DefaultIds == [track |-> DefaultTrackPID, album |-> DefaultAlbumPID]
ThreeConfigs ==
    {DefaultIds, [track |-> TrackLegacy, album |-> AlbumLegacy],
     [track |-> DefaultTrackPID, album |-> <<<<"albumid">>, <<"folder", "album">>>>]}
OnlyDefault == {DefaultIds}

\* Artists named once, twice, joined, in a protected name, in two spellings.
Ann == <<"a">>
Ann2 == <<"A">>
Bob == <<"b">>
Duo == <<"b", ";", "c">>
Glued == <<"b", ";", "c", "c">>
SomeArtists == {<<>>, <<Ann>>, <<Duo>>, <<Glued>>, <<Ann, Ann2>>, <<Bob, Duo>>, <<Duo, Ann>>, <<Ann, Ann, Bob>>, <<Bob, Ann, Duo>>}
NoneOrOne == {<<>>, <<Ann>>}
SomeComposers == {<<>>, <<Ann, Duo>>, <<Ann, Bob, Ann>>}
On(instrument, name) == [sub |-> instrument, name |-> name]
SomeCasts == {<<On("Guitar", Ann), On("Drums", Bob), On("Guitar", Duo)>>, <<On("Guitar", Ann), On("Drums", Ann)>>}
Protected == {Duo}
AtoC == {"a", "A", "b", "c"}

\* Songs of one album that disagree on nearly everything.
Rec(name, year, date, genre, disc, cover, explicit, birth, artist, album, comp, mbid, missing) ==
    [name |-> name, year |-> year, date |-> date, genre |-> genre, disc |-> disc, cover |-> cover, explicit |-> explicit,
     birth |-> birth, artist |-> artist, albumArtist |-> album, compilation |-> comp, mbid |-> mbid, missing |-> missing]
FiveRecordings ==
    {Rec("x", 0, "",  "Rock", 0, TRUE,  "",  0, "p", "",  FALSE, "",  FALSE), Rec("X", 2, "d", "rock", 2, TRUE,  "c", 2, "q", "p", FALSE, "m", FALSE),
     Rec("x", 1, "d", "Pop",  1, TRUE,  "e", 1, "p", "q", TRUE,  "n", FALSE), Rec("x", 3, "e", "Pop",  1, FALSE, "c", 3, "q", "p", TRUE,  "m", TRUE),
     Rec("X", 0, "d", "Rock", 1, TRUE,  "",  0, "q", "q", FALSE, "n", FALSE)}

\* Timed texts: spans in a line; lines in containers; translations.
At(form, value) == [form |-> form, value |-> value]
Untimed == [begin |-> NoAttr, end |-> NoAttr, dur |-> NoAttr, lang |-> NoAttr, agent |-> NoAttr, bg |-> FALSE]
Bare == [Untimed EXCEPT !.begin = At("bare", <<3000>>), !.end = At("bare", <<4000>>)]
Long == [Untimed EXCEPT !.begin = At("f", <<15>>), !.dur = At("s", <<9>>), !.agent = "v1"]
Behind == [Untimed EXCEPT !.begin = At("t", <<2>>), !.bg = TRUE]
AtOne == [Untimed EXCEPT !.begin = At("s", <<1>>)]
Odd == [Untimed EXCEPT !.dur = At("odd", <<0>>)]
UpTo(spans, chars, breaks, ps, containers, tracked) ==
    [span |-> spans, text |-> chars, break |-> breaks, p |-> ps, box |-> containers, track |-> tracked]
Translated(timings, n) ==
    [boxes |-> {}, lines |-> timings, spans |-> {}, texts |-> {<<"a">>}, keys |-> {"k", "l"}, max |-> UpTo(0, n, 0, n, 0, 1)]
FourShapes ==
    {[boxes |-> {}, lines |-> {AtOne}, spans |-> {Bare, Long, Behind}, texts |-> {<<"a">>, <<" ", "b", " ">>}, keys |-> {NoAttr},
      max |-> UpTo(2, 3, 1, 1, 0, 0)],
     [boxes |-> {[Untimed EXCEPT !.begin = At("clock", <<0, 2>>), !.end = At("s", <<9>>)], [Untimed EXCEPT !.begin = At("odd", <<0>>), !.lang = "fr"],
                 [Untimed EXCEPT !.agent = "v1", !.end = At("frames", <<4, 15>>)]},
      lines |-> {AtOne, Odd, Untimed}, spans |-> {Bare, Behind}, texts |-> {<<"a">>}, keys |-> {NoAttr}, max |-> UpTo(1, 2, 0, 2, 2, 0)],
     Translated({AtOne}, 4), Translated({AtOne, Untimed}, 3)}
OneRate == {[frame |-> 15, times |-> <<0, 1>>, tick |-> NoAttr]}

\* Lines of LRC and SRT files, entries of Lyricsfiles.
Times == {<<0, 1, 5, 1>>, <<0, 2, 0, 0>>}
TimeLists == {<< <<0, 2, 0, 0>> >>, << <<0, 4, 25, 2>>, <<0, 1, 5, 1>> >>}
Spoken(chars, from, to) == [text |-> chars, start |-> from, end |-> to]
Marked(time, chars) == [mark |-> time, text |-> chars]
Bodies ==
    {<<>>, <<Marked(NoTime, <<"a">>)>>, <<Marked(2000, <<" ", "a", " ">>), Marked(2500, <<"b", " ">>), Marked(3000, <<>>)>>,
     <<Marked(NoTime, <<"b">>), Marked(2000, <<"a">>)>>, <<Marked(2000, <<"a", " ">>), Marked(2100, <<" ">>)>>}
Worded == {<<>>, <<Spoken(<<"a", "b">>, 1500, NoTime), Spoken(<<" ", "c">>, 2000, 2500)>>, <<Spoken(<<"a">>, 2000, NoTime)>>}

\* A file that is nobody's, for the parts that read none.
NoTags == credits = <<>> /\ tags = <<>> /\ people = <<>> /\ known = {} /\ stage = "none"
NoFiles ==
    /\ file = [f \in Files |-> CHOOSE x \in {Lying(t, p) : t \in Taggings, p \in Places} : TRUE]
    /\ row = [f \in Files |-> NoSong] /\ pidConf = DefaultIds /\ storedConf = DefaultAlbumPID /\ fileEdits = 0

DocumentsInit ==
    /\ part \in Parts
    /\ IF part = "albums" THEN TRUE ELSE songOf = [p \in Paths |-> CHOOSE r \in Recordings : TRUE]
    /\ IF part = "timed" THEN TRUE ELSE shape = CHOOSE x \in Shapes : TRUE
    /\ IF part = "lyrics" THEN TRUE ELSE format = "srt"
    /\ IF part = "ids" THEN IdInit ELSE NoFiles
    /\ IF part = "credits" THEN TagInit ELSE NoTags
    /\ AlbumInit /\ TimedTextInit /\ ParseLyrics

DocumentsNext ==
    /\ \/ part = "ids" /\ IdNext /\ UNCHANGED <<tagVars, albumVars, timedTextVars, fileVars>>
       \/ part = "credits" /\ TagNext /\ UNCHANGED <<idVars, albumVars, timedTextVars, fileVars>>
       \/ part = "albums" /\ AlbumNext /\ UNCHANGED <<idVars, tagVars, timedTextVars, fileVars>>
       \/ part = "timed" /\ TimedTextNext /\ UNCHANGED <<idVars, tagVars, albumVars, fileVars>>
       \/ part = "lyrics" /\ LyricFilesNext /\ UNCHANGED <<idVars, tagVars, albumVars, timedTextVars>>
    /\ UNCHANGED part

DocumentsSpec == DocumentsInit /\ [][DocumentsNext]_<<idVars, tagVars, albumVars, timedTextVars, fileVars, part>>

\* Lyrics come out of each format with every word, at its time, in its place and
\* by its voice.
LyricsAreKept ==
    /\ WordsAreKept /\ CuesMatchTheirText /\ CueEndsAreSane /\ VoicesAreDeclared /\ TranslationsFollowTheLines
    /\ LinesAreSungWhenSaid /\ RepeatsKeepTheirTiming /\ WordsHaveTheirPlace /\ VoicesDoNotOverlap
=============================================================================
