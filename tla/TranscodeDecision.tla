-------------------------- MODULE TranscodeDecision --------------------------
(* How a song is played: directly, or as which transcoded stream.  A client   *)
(* declares what it can play (getTranscodeDecision), the server decides from  *)
(* the row of the song and from what ffprobe says of the file, and gives out  *)
(* a signed token with the decision; a later request streams by that token.   *)
(* Older clients stream in one request.  The file may be replaced, and        *)
(* scanned again, at any point.  Bit rates are in kbps, sample rates in kHz.  *)
EXTENDS Integers, Sequences, FiniteSets

CONSTANTS
    TagsOf,         \* [Versions -> what the tags say of the file]
    ProbeOf,        \* [Versions -> what ffprobe says of the file]
    StampOf,        \* [Versions -> the second of the file's modification]
    Devices,        \* [declares, player, template]: what the client declares, <<>> for an
                    \* older one; the player's [cap, forced] in the server; the command
                    \* line that transcodes to opus, <<>> for the default one
    Downsampling,   \* Server.DefaultDownsamplingFormat, "" when there is none
    AutoTranscodeDownload,
    LegacyFormats,  \* the formats older clients ask for, "" for none
    LegacyRates,    \* and the bit rates, 0 for none
    Offsets,        \* where streams are asked to start, in seconds
    NoFacts

Versions == DOMAIN TagsOf

AudioFacts == [container : STRING, codec : STRING, bitrate : Nat, rate : Nat, ch : Nat, depth : Nat]
DirectPlayProfiles ==
    [protocols : SUBSET STRING, containers : SUBSET STRING, codecs : SUBSET STRING, ch : Nat]
Profiles == [container : STRING, codec : STRING, protocol : STRING, ch : Nat]
Limitations ==
    [name : {"bitrate", "ch", "rate", "depth"}, cmp : {"LE", "GE", "EQ", "NE"}, values : Seq(Nat), required : BOOLEAN]
Clients ==
    [max : Nat, maxTranscoding : Nat, direct : Seq(DirectPlayProfiles), transcoding : Seq(Profiles),
     limited : STRING, limitations : Seq(Limitations)]
Players == [cap : Nat, forced : STRING]

\* Requests that declare anything else are refused (clientInfoRequest.validate).
ASSUME DecisionAssumption ==
    /\ 1 \in Versions /\ Versions \subseteq Nat
    /\ TagsOf \in [Versions -> AudioFacts] /\ ProbeOf \in [Versions -> AudioFacts] /\ DOMAIN StampOf = Versions
    /\ Devices \subseteq [declares : Seq(Clients), player : Players, template : Seq(STRING \X Nat)]
    /\ \A d \in Devices : Len(d.declares) <= 1
    /\ Downsampling \in STRING /\ LegacyFormats \subseteq STRING /\ LegacyRates \subseteq Nat /\ Offsets \subseteq Nat
    /\ NoFacts \notin AudioFacts

VARIABLES
    disk,       \* the version of the file
    song,       \* the row: [version, probe]
    device,     \* the device that plays: one of Devices
    asking,     \* a decision in progress: [at, copy, probe]
    token,      \* the token the client holds
    played,     \* the last stream: how it was asked for, how it is made, from which file
    crossed     \* history: ffprobe and the row spoke of different files

decisionVars == <<disk, song, device, asking, token, played, crossed>>

client == device.declares[1]
player == device.player
template == device.template

NoAsk == [at |-> "idle", copy |-> 0, stored |-> NoFacts]
NoToken == [how |-> "none"]
NotPlayed == [by |-> "none"]

-----------------------------------------------------------------------------
(* Codecs                                                                    *)

isLosslessFormat(f) == f \in {"flac", "alac", "wav", "dsd", "pcm"}
containerAliases == {{"aac", "m4a", "mp4"}, {"ogg", "oga", "opus"}}
codecAliases == {{"aac", "adts"}}
MatchesAny(x, names, aliases) == \E n \in names : n = x \/ \E g \in aliases : {n, x} \subseteq g
matchesContainer(x, names) == MatchesAny(x, names, containerAliases)
matchesCodec(x, names) == MatchesAny(x, names, codecAliases)
IsAACCodec(n) == matchesCodec(n, {"aac"}) \/ matchesContainer(n, {"aac"})
normalizeSourceSampleRate(facts) == IF facts.codec = "dsd" THEN facts.rate \div 8 ELSE facts.rate
codecFixedOutputSampleRate(c) == IF c = "opus" THEN 48 ELSE 0
codecMaxSampleRate(c) == CASE c = "mp3" -> 48 [] c = "aac" -> 96 [] OTHER -> 0
codecMaxChannels(c) == CASE c = "mp3" -> 2 [] c = "opus" -> 8 [] OTHER -> 0
targetBitDepth(facts, lossless) ==
    IF ~lossless THEN 0 ELSE IF facts.codec = "dsd" /\ facts.depth = 1 THEN 24 ELSE facts.depth

LookupTranscodeCommand(f) == f \in {"mp3", "opus", "aac", "flac"}
lookupDefaultBitrate(f) == CASE f = "mp3" -> 192 [] f = "opus" -> 128 [] OTHER -> 256

\* A limit of zero means that there is none.
Lower(v, limit) == IF limit > 0 /\ v > limit THEN limit ELSE v

-----------------------------------------------------------------------------
(* Limitations of a codec: [name, cmp, values, required].  At most and at     *)
(* least look at the first value only.                                        *)

Fits(lim, v) ==
    lim.values # <<>> =>
        /\ lim.cmp = "LE" => v <= lim.values[1]
        /\ lim.cmp = "GE" => v >= lim.values[1]
        /\ lim.cmp = "EQ" => \E i \in 1..Len(lim.values) : v = lim.values[i]
        /\ lim.cmp = "NE" => \A i \in 1..Len(lim.values) : v # lim.values[i]

Below(lim, v) == {lim.values[i] : i \in {k \in 1..Len(lim.values) : lim.values[k] < v}}

\* The value a limitation leaves, -1 when it cannot be met: values are lowered
\* to the limit, never raised.
applyIntLimitation(lim, v) ==
    IF Fits(lim, v) THEN v
    ELSE IF lim.cmp = "LE" THEN lim.values[1]
    ELSE IF lim.cmp = "EQ" /\ Below(lim, v) # {} THEN CHOOSE l \in Below(lim, v) : \A k \in Below(lim, v) : k <= l
    ELSE -1

checkLimitations(facts, lims) ==
    \A i \in 1..Len(lims) : lims[i].required => Fits(lims[i], facts[lims[i].name])

Rejected == [how |-> "none"]

\* A lossless stream has no bit rate of its own to lower, and only such a
\* stream has a bit depth.
applyLimitation(facts, ts, lim) ==
    LET current == IF lim.name = "bitrate" /\ ts.bitrate = 0 THEN facts.bitrate ELSE ts[lim.name]
        left == applyIntLimitation(lim, current)
    IN  IF lim.name = "depth" /\ ts.depth = 0 THEN ts
        ELSE IF left = -1 \/ (left # current /\ lim.name = "bitrate" /\ isLosslessFormat(ts.format)) THEN Rejected
        ELSE IF left = current THEN ts
        ELSE [ts EXCEPT ![lim.name] = left]

\* The stream after each of the limitations.
Limited(facts, ts, lims) ==
    LET after[n \in 0..Len(lims)] ==
            IF n = 0 THEN ts
            ELSE IF after[n - 1] = Rejected THEN Rejected ELSE applyLimitation(facts, after[n - 1], lims[n])
    IN  after

applyCodecLimitations(facts, ts, c) ==
    IF matchesCodec(ts.codec, {c.limited}) THEN Limited(facts, ts, c.limitations)[Len(c.limitations)] ELSE ts

-----------------------------------------------------------------------------
(* MakeDecision                                                              *)

checkDirectPlayProfile(facts, p, c) ==
    /\ "http" \in p.protocols \cup IF p.protocols = {} THEN {"http"} ELSE {}
    /\ p.containers # {} => matchesContainer(facts.container, p.containers)
    /\ p.codecs # {} => \/ matchesCodec(facts.codec, p.codecs)
                        \/ facts.codec = "pcm" /\ facts.container = "wav" /\ "wav" \in p.codecs
    /\ p.ch > 0 => facts.ch <= p.ch
    /\ matchesCodec(facts.codec, {c.limited}) => checkLimitations(facts, c.limitations)

resolveTargetFormat(p) == IF p.codec # "" THEN p.codec ELSE p.container

\* The bit rate of the stream, -1 when the profile cannot be used.
computeBitrate(facts, f, c) ==
    CASE ~isLosslessFormat(facts.codec) -> Lower(facts.bitrate, c.max)
      [] isLosslessFormat(facts.codec) /\ ~isLosslessFormat(f) -> Lower(CASE c.maxTranscoding > 0 -> c.maxTranscoding
                                         [] c.maxTranscoding = 0 /\ c.max > 0 -> c.max
                                         [] OTHER -> lookupDefaultBitrate(f), c.max)
      [] isLosslessFormat(facts.codec) /\ isLosslessFormat(f) /\ c.max > 0 /\ facts.bitrate > c.max -> -1
      [] OTHER -> 0

IntrinsicRate(facts, codec) ==
    IF codecFixedOutputSampleRate(codec) > 0 THEN codecFixedOutputSampleRate(codec)
    ELSE Lower(normalizeSourceSampleRate(facts), codecMaxSampleRate(codec))

\* Mutant: what the codec itself demands is applied after the client's limitations.
computeTranscodedStream_Last(facts, p, c) ==
    LET f == resolveTargetFormat(p)
        lossless == isLosslessFormat(f)
        rate == computeBitrate(facts, f, c)
        codec == IF p.codec # "" THEN p.codec ELSE f
        ts == [how |-> "transcode", format |-> f, codec |-> codec, bitrate |-> rate, depth |-> targetBitDepth(facts, lossless),
               rate |-> normalizeSourceSampleRate(facts), ch |-> Lower(Lower(facts.ch, codecMaxChannels(codec)), p.ch)]
        left == applyCodecLimitations(facts, ts, c)
    IN  IF \/ p.protocol \notin {"", "http"} \/ f = "" \/ ~LookupTranscodeCommand(f)
           \/ ~isLosslessFormat(facts.codec) /\ lossless
           \/ rate = -1 \/ left = Rejected
        THEN Rejected
        ELSE [left EXCEPT !.rate = IntrinsicRate(facts, codec)]

computeTranscodedStream(facts, p, c) ==
    LET f == resolveTargetFormat(p)
        lossless == isLosslessFormat(f)
        rate == computeBitrate(facts, f, c)
        codec == IF p.codec # "" THEN p.codec ELSE f
        ts == [how |-> "transcode", format |-> f, codec |-> codec, bitrate |-> rate, depth |-> targetBitDepth(facts, lossless),
               rate |-> IntrinsicRate(facts, codec), ch |-> Lower(Lower(facts.ch, codecMaxChannels(codec)), p.ch)]
    IN  IF \/ p.protocol \notin {"", "http"} \/ f = "" \/ ~LookupTranscodeCommand(f)
           \/ ~isLosslessFormat(facts.codec) /\ lossless
           \/ rate = -1
        THEN Rejected
        ELSE applyCodecLimitations(facts, ts, c)

MakeDecision(facts, c) ==
    LET direct == /\ c.max > 0 => facts.bitrate <= c.max
                  /\ \E i \in 1..Len(c.direct) : checkDirectPlayProfile(facts, c.direct[i], c)
        usable == {i \in DOMAIN c.transcoding : computeTranscodedStream(facts, c.transcoding[i], c) # Rejected}
    IN  IF direct THEN [how |-> "direct"]
        ELSE IF usable # {} THEN computeTranscodedStream(facts, c.transcoding[CHOOSE i \in usable : \A j \in usable : i <= j], c)
        ELSE Rejected

-----------------------------------------------------------------------------
(* The settings of the player narrow what the client declares                *)

CapBitrate(c, cap) ==
    [c EXCEPT !.max = IF @ = 0 \/ (cap > 0 /\ cap < @) THEN cap ELSE @,
              !.maxTranscoding = IF @ = 0 \/ (cap > 0 /\ cap < @) THEN cap ELSE @]

\* The profiles at some of the positions of a list: the others are dropped.
Kept(profiles, positions) == [i \in positions |-> profiles[i]]

ForceFormat(c, f) ==
    LET matched == {i \in DOMAIN c.transcoding : matchesContainer(resolveTargetFormat(c.transcoding[i]), {f})}
    IN  IF f = "" \/ matched = {} THEN c ELSE [c EXCEPT !.transcoding = Kept(@, matched), !.direct = <<>>]

\* Clients speak of bps: here of hundreds, rounded to the nearest kbps.
bpsToKbps(hundreds) == (hundreds + 5) \div 10
convertBitrateValues(lim) ==
    IF lim.name = "bitrate" THEN [lim EXCEPT !.values = [i \in 1..Len(@) |-> bpsToKbps(@[i])]] ELSE lim
toCoreClientInfo(c) ==
    [c EXCEPT !.max = bpsToKbps(@), !.maxTranscoding = bpsToKbps(@),
              !.limitations = [i \in 1..Len(@) |-> convertBitrateValues(@[i])]]

\* Clients that play AAC as transcoded audio only stall on it.
Negotiated(c) ==
    LET core == toCoreClientInfo(c)
        others == {i \in DOMAIN core.transcoding : ~IsAACCodec(resolveTargetFormat(core.transcoding[i]))}
    IN  CapBitrate(ForceFormat([core EXCEPT !.transcoding = Kept(@, others)], player.forced), player.cap)

AnyHTTP == [protocols |-> {"http"}, containers |-> {}, codecs |-> {}, ch |-> 0]
Only(container, codec) == [AnyHTTP EXCEPT !.containers = {container}, !.codecs = {codec}]
To(f) == [container |-> f, codec |-> f, protocol |-> "http", ch |-> 0]
Legacy == [max |-> 0, maxTranscoding |-> 0, direct |-> <<>>, transcoding |-> <<>>, limited |-> "", limitations |-> <<>>]

buildLegacyClientInfo(tags, f, rate) ==
    LET target == CASE f # "" -> f
                    [] f = "" /\ (\/ rate > 0 /\ rate < tags.bitrate
                                  \/ player.cap > 0 /\ player.cap < tags.bitrate) -> Downsampling
                    [] OTHER -> ""
    IN  IF target = "" THEN [Legacy EXCEPT !.direct = <<AnyHTTP>>]
        ELSE [Legacy EXCEPT !.direct = IF f \in {"", tags.container} THEN <<Only(tags.container, tags.codec)>> ELSE <<>>,
                            !.transcoding = <<To(target)>>, !.max = rate, !.maxTranscoding = rate]

applyServerOverride(f) ==
    LET max == IF player.cap > 0 THEN player.cap ELSE lookupDefaultBitrate(f)
    IN  [Legacy EXCEPT !.max = max, !.maxTranscoding = max, !.direct = <<Only(f, f)>>, !.transcoding = <<To(f)>>]

\* What a row says of its file: ffprobe's answer when it is stored.
buildSourceStream(version, probe) == IF probe # NoFacts THEN probe ELSE TagsOf[version]

ResolveOnce(f, rate) ==
    LET c == IF player.forced # "" THEN applyServerOverride(player.forced)
             ELSE CapBitrate(buildLegacyClientInfo(TagsOf[song.version], f, rate), player.cap)
    IN  MakeDecision(buildSourceStream(song.version, song.probe), c)

Raw == [how |-> "direct"]

\* A format that cannot be made is tried once more as the default one.
ResolveRequest(f, rate) ==
    LET first == ResolveOnce(f, rate)
        second == ResolveOnce(Downsampling, rate)
    IN  CASE f = "raw" -> Raw
          [] f # "raw" /\ first # Rejected -> first
          [] f \notin {"raw", "", Downsampling} /\ first = Rejected /\ Downsampling # "" /\ second # Rejected -> second
          [] OTHER -> Raw

-----------------------------------------------------------------------------
(* The command line of ffmpeg: flags, and options with their numbers          *)

Word(w) == <<w, 0>>
Option(w, n) == <<w, n>>

\* An option goes before the output when that is the last argument.
injectBeforeOutput(args, o) ==
    IF args # <<>> /\ args[Len(args)] = Word("-") THEN SubSeq(args, 1, Len(args) - 1) \o <<o, Word("-")>>
    ELSE Append(args, o)

Inject(args, o, on) == IF on THEN injectBeforeOutput(args, o) ELSE args

injectDynamicAudioFlags(args, ts) ==
    Inject(Inject(Inject(args, Option("-ar", ts.rate), ts.rate > 0), Option("-ac", ts.ch), ts.ch > 0),
           Option("-sample_fmt", IF ts.depth = 16 THEN 16 ELSE 32), ts.depth >= 16 /\ isLosslessFormat(ts.format))

buildDynamicArgs(ts, offset) ==
    injectDynamicAudioFlags((IF offset > 0 THEN <<Option("-ss", offset)>> ELSE <<>>) \o <<Word("-i"), Word("path"), Word(ts.format)>>
                            \o (IF ts.bitrate > 0 THEN <<Option("-b:a", ts.bitrate)>> ELSE <<>>), ts)
    \o <<Word("-f"), Word("-")>>

\* Where a flag is last, 0 when it is not there.
LastAt(args, flag) ==
    LET at == {i \in 1..Len(args) : args[i][1] = flag}
    IN  IF at = {} THEN 0 ELSE CHOOSE i \in at : \A j \in at : j <= i

\* One word of a command line.  One that does not name the offset (%t) gets it
\* before its input.
Put(args, w, ts, offset, seek) ==
    LET i == LastAt(args, "-i")
        at == IF i > 0 THEN i - 1 ELSE Len(args)
    IN  IF w[1] = "%s"
        THEN Append(IF seek THEN SubSeq(args, 1, at) \o <<Option("-ss", offset)>> \o SubSeq(args, at + 1, Len(args))
                    ELSE args, Word("path"))
        ELSE Append(args, CASE w[1] = "-ss %t" -> Option("-ss", offset)
                            [] w[1] = "-b:a %b" -> Option("-b:a", ts.bitrate)
                            [] OTHER -> w)

PutAll(cmd, ts, offset) ==
    LET seek == offset > 0 /\ LastAt(cmd, "-ss %t") = 0
        args[n \in 0..Len(cmd)] == IF n = 0 THEN <<>> ELSE Put(args[n - 1], cmd[n], ts, offset, seek)
    IN  args

createFFmpegCommand(cmd, ts, offset) == PutAll(cmd, ts, offset)[Len(cmd)]

buildTemplateArgs(cmd, ts, offset) == injectDynamicAudioFlags(createFFmpegCommand(cmd, ts, offset), ts)

Command(ts, offset) ==
    IF ts.format = "opus" /\ template # <<>> THEN buildTemplateArgs(template, ts, offset) ELSE buildDynamicArgs(ts, offset)

\* ffmpeg uses the last value of an option given twice.
Given(args, flag) == IF LastAt(args, flag) = 0 THEN 0 ELSE args[LastAt(args, flag)][2]

-----------------------------------------------------------------------------
DecisionInit ==
    /\ disk = 1 /\ song = [version |-> 1, probe |-> NoFacts]
    /\ device \in Devices
    /\ asking = NoAsk /\ token = NoToken /\ played = NotPlayed /\ crossed = FALSE

ReplaceFile ==
    /\ disk + 1 \in Versions /\ disk' = disk + 1
    /\ UNCHANGED <<song, device, asking, token, played, crossed>>

\* The scanner writes the whole row anew, without what ffprobe said.
ImportSong ==
    /\ song.version # disk /\ song' = [version |-> disk, probe |-> NoFacts]
    /\ UNCHANGED <<disk, device, asking, token, played, crossed>>

\* Only what differs from zero goes into the token.
toClaimsMap(d, version, facts) == [how |-> d.how, ts |-> d, stamp |-> StampOf[version], src |-> facts, about |-> version]

Decided(version, facts) ==
    LET d == MakeDecision(facts, Negotiated(client))
    IN  token' = IF d = Rejected THEN NoToken ELSE toClaimsMap(d, version, facts)

\* The row is read; the file is probed unless the row has ffprobe's answer or
\* there is no ffprobe.
GetTranscodeDecision ==
    /\ device.declares # <<>> /\ asking = NoAsk
    /\ \/ /\ song.probe = NoFacts
          /\ asking' = [at |-> "probe", copy |-> song.version, stored |-> NoFacts] /\ UNCHANGED token
       \/ Decided(song.version, buildSourceStream(song.version, song.probe)) /\ UNCHANGED asking
    /\ UNCHANGED <<disk, song, device, played, crossed>>

ProbeAudioStream ==
    /\ asking.at = "probe"
    /\ asking' \in {[asking EXCEPT !.at = "store", !.stored = ProbeOf[disk]], NoAsk}
    /\ crossed' = (crossed \/ disk # asking.copy)
    /\ UNCHANGED <<disk, song, device, token, played>>

\* The answer is stored in the row, whatever the row is now, and used.
ensureProbed ==
    /\ asking.at = "store"
    /\ song' \in {[song EXCEPT !.probe = asking.stored], song}
    /\ crossed' = (crossed \/ song.version # asking.copy)
    /\ Decided(asking.copy, asking.stored) /\ asking' = NoAsk
    /\ UNCHANGED <<disk, device, played>>

GetTranscodeStream(offset) ==
    /\ token # NoToken
    /\ \/ /\ StampOf[song.version] # token.stamp /\ played' = [by |-> "refused"]
       \/ /\ StampOf[song.version] = token.stamp
          /\ played' = IF token.how = "direct" THEN [by |-> "token", token |-> token, how |-> "direct", version |-> song.version]
                       ELSE [by |-> "token", token |-> token, how |-> "transcode", version |-> song.version, offset |-> offset, args |-> Command(token.ts, offset)]
    /\ UNCHANGED <<disk, song, device, asking, token, crossed>>

LegacyStream(f, rate) ==
    /\ device.declares = <<>>
    /\ LET d == ResolveRequest(f, rate)
       IN  played' = [by |-> "legacy", how |-> d.how, asked |-> f, version |-> song.version, probe |-> song.probe,
                      bitrate |-> IF d.how = "transcode" THEN d.bitrate ELSE buildSourceStream(song.version, song.probe).bitrate,
                      args |-> IF d.how = "transcode" THEN Command(d, 0) ELSE <<>>]
    /\ UNCHANGED <<disk, song, device, asking, token, crossed>>

\* A download without a format is the file itself, or goes by the format the
\* player is forced to.
DownloadSong(f, rate) ==
    IF f = "" /\ AutoTranscodeDownload /\ player.forced # "" THEN LegacyStream(player.forced, lookupDefaultBitrate(player.forced))
    ELSE LegacyStream(IF f = "" THEN "raw" ELSE f, rate)

DecisionNext ==
    \/ ReplaceFile \/ ImportSong \/ GetTranscodeDecision \/ ProbeAudioStream \/ ensureProbed
    \/ \E offset \in Offsets : GetTranscodeStream(offset)
    \/ \E f \in LegacyFormats, rate \in LegacyRates : LegacyStream(f, rate) \/ DownloadSong(f, rate)

DecisionSpec == DecisionInit /\ [][DecisionNext]_decisionVars

-----------------------------------------------------------------------------
(* Properties                                                                *)

\* A limitation that names a bit rate of zero (after rounding): the code lowers
\* the stream to it, and then takes the zero for a bit rate that is not set.
NamesZero(lims) ==
    \E i \in 1..Len(lims) : lims[i].name = "bitrate" /\ \E k \in 1..Len(lims[i].values) : bpsToKbps(lims[i].values[k]) = 0

\* A stream that was agreed on keeps within everything the client and the
\* player's settings ask for: the bit rates (to the nearest kbps; one below
\* half a kbps is no limit), the channels, each limitation of the codec when no
\* two are about the same thing (they are applied one after another and not
\* checked again), and it is nowhere better than its source.
AgreedFitsTheClient ==
    token # NoToken =>
        LET ts == token.ts
            facts == token.src
            rate == IF token.how = "direct" \/ ts.bitrate = 0 THEN facts.bitrate ELSE ts.bitrate
            lims == client.limitations
        IN  /\ ~NamesZero(lims) =>
                /\ player.cap > 0 => rate <= player.cap
                /\ client.max >= 5 => 10 * rate <= client.max + 5
                /\ token.how = "transcode" /\ isLosslessFormat(facts.codec) /\ client.maxTranscoding >= 5 =>
                    10 * ts.bitrate <= client.maxTranscoding + 5
            /\ token.how = "transcode" =>
                /\ ts.ch <= facts.ch /\ ts.rate <= IF ts.codec = "opus" THEN 48 ELSE normalizeSourceSampleRate(facts)
                /\ ~isLosslessFormat(facts.codec) => ts.bitrate <= facts.bitrate /\ ~isLosslessFormat(ts.format)
                /\ LET one == \A i, j \in 1..Len(lims) : lims[i].name = lims[j].name => i = j
                   IN  one /\ matchesCodec(ts.codec, {client.limited}) =>
                        \A i \in 1..Len(lims) :
                            \/ lims[i].name = "depth" /\ ts.depth = 0
                            \/ lims[i].name = "bitrate" /\ NamesZero(lims)
                            \/ Fits(convertBitrateValues(lims[i]), IF lims[i].name = "bitrate" THEN rate ELSE ts[lims[i].name])

\* A token is honoured only while the row describes the file it was decided
\* on: an import in between, which changes the song's time, makes it stale, and
\* drops what ffprobe said.  Two things escape: a file replaced twice within a
\* second, and a probe during which the file or the row changed.
TokensAreOfThisFile ==
    played.by = "token" /\ ~crossed =>
        \/ played.token.src \in {TagsOf[played.version], ProbeOf[played.version]}
        \/ \E v \in Versions \ {played.version} : StampOf[v] = StampOf[played.version]

\* An older client whose player has a bit rate limit gets more only when it
\* asked for the file itself, when the tags understate the file, or when none
\* of the formats the settings name can be made.
LegacyHonoursTheCap ==
    played.by = "legacy" /\ player.cap > 0 /\ played.asked # "raw" /\ played.bitrate > player.cap =>
        LET formats == IF player.forced # "" THEN {player.forced} ELSE {played.asked, Downsampling}
        IN  \/ TagsOf[played.version].bitrate <= player.cap
            \/ \A f \in formats : ~LookupTranscodeCommand(f) \/ isLosslessFormat(f)

\* An administrator's command line that has one input to read, leaves seeking
\* to the server or names the offset once, before an input.
SeeksItsInput(cmd) ==
    /\ \E n \in 1..Len(cmd) : /\ cmd[n][1] = "%s" /\ \A m \in 1..Len(cmd) : cmd[m][1] = "%s" => m = n
                              /\ \E m \in 1..n : cmd[m][1] = "-i"
    /\ \A m \in 1..Len(cmd) : cmd[m][1] # "-ss"
    /\ \A m \in 1..Len(cmd) : cmd[m][1] = "-ss %t" =>
            /\ \A n \in 1..Len(cmd) : cmd[n][1] = "-ss %t" => n = m
            /\ \E n \in m..Len(cmd) : cmd[n][1] = "-i"

\* ffmpeg is told what the client was told: the sample rate, the channels and,
\* unless the administrator's own command line says otherwise, the bit rate;
\* and it seeks to the offset once, before it reads the input.
ProducedIsAgreed ==
    played.by = "token" /\ played.how = "transcode" =>
        LET ts == played.token.ts
            own == template # <<>> /\ ts.format = "opus"
        IN  /\ ts.rate > 0 \/ ~own => Given(played.args, "-ar") = ts.rate
            /\ ts.ch > 0 \/ ~own => Given(played.args, "-ac") = ts.ch
            /\ ~own => Given(played.args, "-b:a") = ts.bitrate
            /\ played.offset > 0 /\ (own => SeeksItsInput(template)) =>
                /\ Given(played.args, "-ss") = played.offset /\ LastAt(played.args, "-ss") < LastAt(played.args, "-i")
                /\ Cardinality({i \in 1..Len(played.args) : played.args[i][1] = "-ss"}) = 1

\* What is played is within what client and player allow, of the file it was
\* decided on, and made by the very parameters that were agreed.
PlayedAsAgreed == AgreedFitsTheClient /\ TokensAreOfThisFile /\ LegacyHonoursTheCap /\ ProducedIsAgreed
=============================================================================
