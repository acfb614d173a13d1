------------------------------- MODULE Lyrics -------------------------------
(* Lyrics as they are read from files and given to clients.  A line has cues,  *)
(* one for each word that is timed on its own, and each cue belongs to a       *)
(* voice.  A time that is not given is NoTime.  Text is a sequence of letters, *)
(* blanks and line breaks; a cue names the first and the last place of its     *)
(* text in that of the line, counted from 0.                                   *)
(*                                                                             *)
(* TTML is read one element, text or end at a time: elements nest; times,      *)
(* language, voice and role are inherited; a paragraph is a line and its timed *)
(* spans are the cues; translations name the lines they are of.  The other     *)
(* formats are read line by line: LRC, with one or more times before a line    *)
(* and words timed by markers in it; SRT, in blocks; and Lyricsfile, whose     *)
(* lines may overlap and are given to as many voices as that takes.  A file    *)
(* that is not of the format its name says is read as plain text.              *)
EXTENDS Integers, Sequences, FiniteSets
LOCAL INSTANCE SequencesExt

-----------------------------------------------------------------------------
(* Times of lines and words                                                  *)

NoTime == -1
Blank(c) == c \in {" ", "/"}
Words(text) == SelectSeq(text, LAMBDA c : ~Blank(c))
Slice(text, from, to) == SubSeq(text, from + 1, to + 1)

NextStart(cues, i) == IF i < Len(cues) THEN cues[i + 1].start ELSE NoTime
CutAt(time, next) == IF time # NoTime /\ next # NoTime /\ time > next THEN next ELSE time
NotBefore(start, time) == IF time # NoTime /\ time < start THEN start ELSE time

\* A missing end is the next cue's start, or that of the line; no end is before
\* the cue's start or after the next one's.
CueEnd(cue, next, fallback) ==
    NotBefore(cue.start, CutAt(IF cue.end # NoTime THEN cue.end ELSE IF next # NoTime THEN next ELSE fallback, next))

\* All cues have ends, or none.
WithEnds(cues, ends) ==
    [i \in DOMAIN cues |-> [cues[i] EXCEPT !.end = IF \A k \in DOMAIN cues : ends[k] # NoTime THEN ends[i] ELSE NoTime]]

NormalizeCueEnds(cues, fallback) == WithEnds(cues, [i \in DOMAIN cues |-> CueEnd(cues[i], NextStart(cues, i), fallback)])

\* Voices sing beside each other: each one's cues are a sequence of their own.
normalizeCueEndsByAgent(cues, fallback) ==
    LET of(a) == SelectSeq(cues, LAMBDA c : c.agent = a)
        rank(i) == Cardinality({k \in 1..i : cues[k].agent = cues[i].agent})
    IN  [i \in DOMAIN cues |-> NormalizeCueEnds(of(cues[i].agent), fallback)[rank(i)]]

FirstOf(times) == IF times = {} THEN NoTime ELSE CHOOSE t \in times : \A u \in times : t <= u
LastOf(times) == IF times = {} THEN NoTime ELSE CHOOSE t \in times : \A u \in times : u <= t
CueStarts(cues) == {cues[i].start : i \in DOMAIN cues} \ {NoTime}
CueStops(cues) == {IF cues[i].end = NoTime THEN cues[i].start ELSE cues[i].end : i \in DOMAIN cues} \ {NoTime}

\* A line without times begins with its first cue and ends with its last.
normalizeLineTiming(line) ==
    [line EXCEPT !.start = IF @ = NoTime THEN FirstOf(CueStarts(line.cues)) ELSE @,
                 !.end = IF @ = NoTime THEN LastOf(CueStops(line.cues)) ELSE @]

normalizeCueLines(lines) ==
    [i \in DOMAIN lines |->
        LET fallback == IF lines[i].end # NoTime THEN lines[i].end ELSE IF i < Len(lines) THEN lines[i + 1].start ELSE NoTime
        IN  IF lines[i].cues = <<>> THEN lines[i]
            ELSE normalizeLineTiming([lines[i] EXCEPT !.cues = normalizeCueEndsByAgent(@, fallback)])]

-----------------------------------------------------------------------------
(* What a client is given: the cues of each line, voice by voice             *)

\* The text of the line between two places, without what other voices sing.
cueLineGap(line, from, to, agent) ==
    LET other(k) == \E i \in DOMAIN line.cues : line.cues[i].agent # agent /\ k \in line.cues[i].from..line.cues[i].to
        places == SelectSeq([k \in 1..(to - from) |-> from + k - 1], LAMBDA k : ~other(k))
    IN  [i \in DOMAIN places |-> line.value[places[i] + 1]]

\* The line of one voice: its cues in order, and between them the text that is
\* no one's, which is left out at both ends when it is blank.
buildAgentCueLineValue(line, cues, agent) ==
    LET ends(gap) == IF Words(gap) = <<>> THEN <<>> ELSE gap
        add(acc, i) ==
            LET gap == IF i = 1 THEN ends(cueLineGap(line, 0, cues[1].from, agent)) ELSE cueLineGap(line, cues[i - 1].to + 1, cues[i].from, agent)
                value == acc.value \o gap \o cues[i].text
            IN  [value |-> value, cues |-> Append(acc.cues, [cues[i] EXCEPT !.from = Len(acc.value \o gap), !.to = Len(value) - 1])]
        body == FoldLeft(add, [value |-> <<>>, cues |-> <<>>], [i \in DOMAIN cues |-> i])
    IN  [body EXCEPT !.value = @ \o ends(cueLineGap(line, cues[Len(cues)].to + 1, Len(line.value), agent))]

buildLyricCues(cues, end) == IF \E i \in DOMAIN cues : cues[i].end # NoTime THEN NormalizeCueEnds(cues, end) ELSE cues

buildCueLines(line) ==
    LET timed == SelectSeq(line.cues, LAMBDA c : c.start # NoTime)
        voices == {timed[i].agent : i \in DOMAIN timed}
        lineOf(a) == LET own == SelectSeq(timed, LAMBDA c : c.agent = a)
                         built == IF Cardinality(voices) > 1 THEN buildAgentCueLineValue(line, own, a) ELSE [value |-> line.value, cues |-> own]
                     IN  [built EXCEPT !.cues = buildLyricCues(@, line.end)]
    IN  {lineOf(a) : a \in voices}

-----------------------------------------------------------------------------
(* What lyrics must be like, whatever they were read from                    *)

CuesMatch(value, cues) == \A i \in DOMAIN cues : cues[i].to < Len(value) /\ Slice(value, cues[i].from, cues[i].to) = cues[i].text

\* Of a voice's cues all have ends or none, no end is before its start, and one
\* that was given (said) is kept unless the voice's next cue begins before it.
EndsAreSane(cues) ==
    /\ \A i, k \in DOMAIN cues : cues[i].agent = cues[k].agent => (cues[i].end = NoTime <=> cues[k].end = NoTime)
    /\ \A i \in DOMAIN cues : cues[i].end # NoTime =>
        /\ cues[i].start <= cues[i].end
        /\ cues[i].said # NoTime /\ cues[i].start <= cues[i].said /\ (\A k \in DOMAIN cues : k > i /\ cues[k].agent = cues[i].agent => cues[i].said <= cues[k].start)
            => cues[i].end = cues[i].said

-----------------------------------------------------------------------------
(* TTML                                                                      *)

CONSTANTS
    Shapes,     \* kinds of documents: the attributes that containers (boxes), paragraphs
                \* (lines) and spans may have, the pieces of text (texts), the names of lines
                \* (keys), and bounds on the number of each (max)
    Rates,      \* attributes of the document: frame rate, its multiplier, tick rate
    NoAttr      \* an attribute that is not there

VARIABLES
    shape,      \* the kind of document
    params,     \* [frame, tick]: rates as <<numerator, denominator>>
    open,       \* the elements that are open, as a stack
    mainLines,  \* lines so far, each with its language and key
    entries,    \* lines of translations so far
    voices,     \* agents that are defined: [id -> type]
    said,       \* history: what was sung in the paragraph that is open
    heard,      \* history: [language -> what was sung in paragraphs that count]
    lyrics,     \* what the document yields, or NoAttr while it is read
    used        \* elements and texts so far, by kind

timedTextVars == <<shape, params, open, mainLines, entries, voices, said, heard, lyrics, used>>

Langs == {"xxx", "fr"}
NoAgent == [bg |-> FALSE, id |-> ""]
MainAgent == [bg |-> FALSE, id |-> "main"]
root == [lang |-> "xxx", agent |-> "", bg |-> FALSE, begin |-> NoTime, end |-> NoTime, invalid |-> FALSE]

-----------------------------------------------------------------------------
(* Times                                                                     *)

RoundDiv(a, b) == (2 * a + b) \div (2 * b)

\* A rate that is not positive is the default one.
Rate(n, d, default) == IF n > 0 /\ d > 0 THEN <<n, d>> ELSE <<default, 1>>
updateTimingParams(r) ==
    LET frame == IF r.frame # NoAttr /\ r.frame > 0 THEN r.frame ELSE 30
        times == IF r.times # NoAttr /\ r.times[2] > 0 THEN r.times ELSE <<1, 1>>
    IN  [frame |-> Rate(frame * times[1], times[2], 30), tick |-> IF r.tick # NoAttr THEN Rate(r.tick, 1, 1) ELSE <<1, 1>>]

Seconds(h, m, s) == ((h * 60 + m) * 60 + s) * 1000

\* Milliseconds, and how they are meant; "odd" is an expression not understood.
parseTTMLTimeExpression(e) ==
    CASE e.form = "bare"   -> [ms |-> e.value[1], kind |-> "ambiguous"]
      [] e.form = "s"      -> [ms |-> Seconds(0, 0, e.value[1]), kind |-> "offset"]
      [] e.form = "f"      -> [ms |-> RoundDiv(e.value[1] * 1000 * params.frame[2], params.frame[1]), kind |-> "offset"]
      [] e.form = "t"      -> [ms |-> RoundDiv(e.value[1] * 1000 * params.tick[2], params.tick[1]), kind |-> "offset"]
      [] e.form = "clock"  -> [ms |-> Seconds(0, e.value[1], e.value[2]), kind |-> "absolute"]
      [] e.form = "frames" -> [ms |-> RoundDiv(Seconds(0, 0, e.value[1]) * params.frame[1] + e.value[2] * 1000 * params.frame[2], params.frame[1]), kind |-> "absolute"]
      [] OTHER             -> [ms |-> NoTime, kind |-> "odd"]

Within(t, c) == c.begin <= t /\ t <= c.end

\* A bare number is read as the parent's times suggest.
resolveTTMLTime(t, base, parent) ==
    LET offset == base + t.ms
        begins == parent.begin # NoTime
        bounded == begins /\ parent.end # NoTime
    IN  IF \/ t.kind = "absolute"
           \/ /\ t.kind = "ambiguous" /\ ~begins /\ parent.end = NoTime /\ base # 0
           \/ /\ t.kind = "ambiguous" /\ bounded /\ Within(t.ms, parent) /\ ~Within(offset, parent)
           \/ /\ t.kind = "ambiguous" /\ begins /\ ~(bounded /\ Within(offset, parent) /\ ~Within(t.ms, parent))
              /\ t.ms >= parent.begin /\ offset > t.ms
        THEN t.ms ELSE offset

\* What an element hands on to those in it.
childContext(a, parent) ==
    LET begin == parseTTMLTimeExpression(a.begin)
        end == parseTTMLTimeExpression(a.end)
        dur == parseTTMLTimeExpression(a.dur)
        from0(t) == IF t = NoTime THEN 0 ELSE t
        c == [parent EXCEPT !.lang = IF a.lang # NoAttr THEN a.lang ELSE @, !.agent = IF a.agent # NoAttr THEN a.agent ELSE @, !.bg = @ \/ a.bg]
        start == IF a.begin = NoAttr THEN parent.begin ELSE resolveTTMLTime(begin, from0(parent.begin), parent)
        endAt == IF a.end = NoAttr THEN NoTime ELSE resolveTTMLTime(end, from0(start), parent)
        durAt == IF a.dur = NoAttr \/ start = NoTime THEN NoTime ELSE start + dur.ms
        first == IF endAt = NoTime THEN durAt ELSE IF durAt # NoTime /\ durAt < endAt THEN durAt ELSE endAt
    IN  IF (a.begin # NoAttr /\ begin.kind = "odd") \/ (a.end # NoAttr /\ end.kind = "odd") \/ (a.dur # NoAttr /\ dur.kind = "odd")
        THEN [c EXCEPT !.invalid = TRUE]
        ELSE [c EXCEPT !.begin = start, !.end = IF first # NoTime THEN first ELSE parent.end]

-----------------------------------------------------------------------------
(* From pieces of text to a line with cues                                   *)

NoCue == [at |-> "none"]
Piece(raw, cue) == [raw |-> raw, cue |-> cue, isBreak |-> FALSE]
BreakPiece == [raw |-> <<>>, cue |-> NoCue, isBreak |-> TRUE]

collapseTTMLWhitespace(raw) ==
    FoldLeft(LAMBDA acc, c : IF c = " " /\ acc # <<>> /\ Last(acc) = " " THEN acc ELSE Append(acc, c), <<>>, raw)
concatTTMLPieceRaw(pieces) == FoldLeft(LAMBDA acc, p : acc \o collapseTTMLWhitespace(p.raw), <<>>, pieces)

\* A blank at the beginning of a piece is left out when there is one before it.
splitTTMLPiecesByBreak(pieces) ==
    LET add(lines, p) ==
            LET line == Last(lines)
                spaced == line = <<>> \/ Last(Last(line).raw) = " "
                raw == collapseTTMLWhitespace(p.raw)
                kept == IF spaced /\ raw # <<>> /\ Head(raw) = " " THEN Tail(raw) ELSE raw
            IN  IF p.isBreak THEN Append(lines, <<>>)
                ELSE IF kept = <<>> THEN lines
                ELSE [lines EXCEPT ![Len(lines)] = Append(@, Piece(kept, p.cue))]
    IN  FoldLeft(add, << <<>> >>, pieces)

\* The first places of a line, and its cues as far as they are in them.
UpToPlace(line, raw, keep) ==
    LET add(acc, p) ==
            LET end == acc.cursor + Len(p.raw)
                to == IF end < keep THEN end ELSE keep
            IN  IF p.cue = NoCue \/ acc.cursor >= to THEN [acc EXCEPT !.cursor = end]
                ELSE [cursor |-> end, cues |-> Append(acc.cues, [start |-> p.cue.start, end |-> p.cue.end, said |-> p.cue.end, agent |-> p.cue.agent,
                            text |-> SubSeq(raw, acc.cursor + 1, to), from |-> acc.cursor, to |-> to - 1])]
    IN  [text |-> SubSeq(raw, 1, keep), cues |-> FoldLeft(add, [cursor |-> 0, cues |-> <<>>], line).cues]

TrimmedLen(raw) == IF raw # <<>> /\ Last(raw) = " " THEN Len(raw) - 1 ELSE Len(raw)
TrimmedLine(line, raw) == UpToPlace(line, raw, TrimmedLen(raw))

\* Mutant: the text is trimmed and the places of the cues are not.
finalizeTTMLLogicalLine_Untrimmed(line) ==
    [TrimmedLine(line, concatTTMLPieceRaw(line)) EXCEPT
        !.cues = UpToPlace(line, concatTTMLPieceRaw(line), Len(concatTTMLPieceRaw(line))).cues]

\* A line is trimmed (its beginning has been), and cues that are left blank go.
finalizeTTMLLogicalLine(line) == TrimmedLine(line, concatTTMLPieceRaw(line))

\* Lines are joined, without empty ones at both ends.
WithoutEmptyEnds(lines, full) ==
    IF full = {} THEN <<>> ELSE SubSeq(lines, CHOOSE i \in full : \A k \in full : i <= k, CHOOSE i \in full : \A k \in full : i >= k)

JoinedLines(lines) ==
    LET add(acc, l) ==
            LET at == IF acc.some THEN Len(acc.value) + 1 ELSE 0
            IN  [some |-> TRUE, value |-> (IF acc.some THEN Append(acc.value, "/") ELSE <<>>) \o l.text,
                 cues |-> acc.cues \o [i \in DOMAIN l.cues |-> [l.cues[i] EXCEPT !.from = @ + at, !.to = @ + at]]]
    IN  FoldLeft(add, [some |-> FALSE, value |-> <<>>, cues |-> <<>>], WithoutEmptyEnds(lines, {i \in DOMAIN lines : lines[i].text # <<>>}))

FinalLines(split) == [i \in DOMAIN split |-> finalizeTTMLLogicalLine(split[i])]
buildTTMLLineFromPieces(pieces) == JoinedLines(FinalLines(splitTTMLPiecesByBreak(pieces)))

\* The line of an element that ends.
LineWith(frame, built) ==
    normalizeLineTiming([start |-> frame.ctx.begin, end |-> frame.ctx.end, value |-> built.value, cues |-> built.cues,
                         lang |-> frame.ctx.lang, key |-> frame.key])
LineOf(frame) == LineWith(frame, buildTTMLLineFromPieces(frame.pieces))

-----------------------------------------------------------------------------
(* Voices                                                                    *)

baseRoleForAgent(a) == IF a.bg THEN "bg" ELSE IF a.id \in DOMAIN voices /\ voices[a.id] = "group" THEN "group" ELSE "voice"

\* The main voice is the first that is neither a group nor in the background;
\* cues without a voice are its; when nobody has a voice, none is named.
resolveAgents(lines) ==
    LET cues == FoldLeft(LAMBDA acc, l : acc \o l.cues, <<>>, lines)
        order == FoldLeft(LAMBDA acc, c : IF c.agent = NoAgent \/ c.agent \in {acc[i] : i \in DOMAIN acc} THEN acc ELSE Append(acc, c.agent), <<>>, cues)
        first(roles) == SelectSeq(order, LAMBDA a : baseRoleForAgent(a) \in roles)
        main == IF first({"voice"}) # <<>> THEN Head(first({"voice"}))
                ELSE IF \E i \in DOMAIN cues : cues[i].agent = NoAgent THEN MainAgent
                ELSE IF first({"group"}) # <<>> THEN Head(first({"group"})) ELSE Head(order)
        all == IF main \in {order[i] : i \in DOMAIN order} THEN order ELSE <<main>> \o order
        named(c) == IF c.agent = NoAgent THEN [c EXCEPT !.agent = main] ELSE c
    IN  IF order = <<>> THEN [lines |-> lines, agents |-> <<>>]
        ELSE [lines |-> [i \in DOMAIN lines |-> [lines[i] EXCEPT !.cues = [k \in DOMAIN @ |-> named(@[k])]]],
              agents |-> [i \in DOMAIN all |-> [agent |-> all[i], role |-> IF all[i] = main THEN "main" ELSE baseRoleForAgent(all[i])]]]

finalizeLyrics(kind, lang, lines) ==
    LET voiced == resolveAgents(lines)
    IN  [kind |-> kind, lang |-> lang, lines |-> normalizeCueLines(voiced.lines), agents |-> voiced.agents]

-----------------------------------------------------------------------------
(* The lyrics of a document                                                  *)

\* The first line with the key.
refOf(k) == LET at == {i \in DOMAIN mainLines : mainLines[i].key = k} IN IF at = {} THEN 0 ELSE CHOOSE i \in at : \A j \in at : i <= j

\* Of the entries of one language the first for each line counts, in the order
\* of the lines, whose times it has when it has none of its own.
buildMetadataLines(mine) ==
    LET firsts == {i \in DOMAIN mine : refOf(mine[i].line.key) # 0 /\ \A k \in 1..(i - 1) : mine[k].line.key # mine[i].line.key}
        rank(i) == Cardinality({k \in firsts : refOf(mine[k].line.key) <= refOf(mine[i].line.key)})
        timed(l) == LET ref == mainLines[refOf(l.key)]
                    IN  normalizeLineTiming([l EXCEPT !.start = IF @ = NoTime THEN ref.start ELSE @, !.end = IF @ = NoTime THEN ref.end ELSE @])
    IN  [n \in 1..Cardinality(firsts) |-> timed(mine[CHOOSE i \in firsts : rank(i) = n].line)]

toLyricList ==
    LET main(lang) == SelectSeq(mainLines, LAMBDA l : l.lang = lang)
        of(kind, lang) == buildMetadataLines(SelectSeq(entries, LAMBDA e : e.kind = kind /\ e.lang = lang))
    IN  {finalizeLyrics("main", lang, main(lang)) : lang \in {x \in Langs : main(x) # <<>>}}
        \cup UNION {{finalizeLyrics(kind, lang, of(kind, lang)) : lang \in {x \in Langs : of(kind, x) # <<>>}} : kind \in {"translation", "pronunciation"}}

-----------------------------------------------------------------------------
(* The parser                                                                *)

TimedTextInit ==
    /\ shape \in Shapes
    /\ \E r \in Rates : params = updateTimingParams(r)
    /\ open = <<>> /\ mainLines = <<>> /\ entries = <<>> /\ voices = <<>>
    /\ said = <<>> /\ heard = [l \in Langs |-> <<>>] /\ lyrics = NoAttr
    /\ used = [span |-> 0, text |-> 0, break |-> 0, p |-> 0, box |-> 0, track |-> 0]

Reading == lyrics = NoAttr
Top == open[Len(open)]
Below == SubSeq(open, 1, Len(open) - 1)
Use(kind) == used[kind] < shape.max[kind] /\ used' = [used EXCEPT ![kind] = @ + 1]
InBox == IF open = <<>> THEN TRUE ELSE Top.el \in {"box", "track"}
InLine == open # <<>> /\ Top.el \in {"p", "text", "span"}

\* The context for what is in the element at the top: a container whose times
\* are not understood is passed over.
Outer == IF open = <<>> THEN root ELSE IF Top.ctx.invalid THEN Top.up ELSE Top.ctx
Frame(el, a, parent, key) ==
    [el |-> el, ctx |-> childContext(a, parent), up |-> parent, own |-> a.begin # NoAttr \/ a.end # NoAttr \/ a.dur # NoAttr, key |-> key, pieces |-> <<>>, kind |-> NoAttr]

parseElement ==
    /\ Reading /\ InBox /\ Use("box")
    /\ \E a \in shape.boxes : open' = Append(open, Frame("box", a, Outer, NoAttr))
    /\ UNCHANGED <<shape, params, mainLines, entries, voices, said, heard, lyrics>>

parseMetadataTrack ==
    /\ Reading /\ InBox /\ Use("track")
    /\ \E a \in shape.boxes, kind \in {"translation", "pronunciation"} : open' = Append(open, [Frame("track", a, Outer, NoAttr) EXCEPT !.kind = kind])
    /\ UNCHANGED <<shape, params, mainLines, entries, voices, said, heard, lyrics>>

parseAgentDefinition ==
    /\ Reading /\ InBox /\ voices = <<>> /\ used.p = 0 /\ used.box = shape.max.box
    /\ \E type \in {"person", "group"} : voices' = [v \in {"v1"} |-> type]
    /\ UNCHANGED <<shape, params, open, mainLines, entries, said, heard, lyrics, used>>

\* A paragraph begins.
StartParagraph ==
    /\ Reading /\ InBox /\ Use("p")
    /\ \E a \in shape.lines, k \in shape.keys : open' = Append(open, Frame("p", a, Outer, k))
    /\ said' = <<>>
    /\ UNCHANGED <<shape, params, mainLines, entries, voices, heard, lyrics>>

\* A line of a translation begins: the track's times count even when they are
\* not understood, and then the line does not.
StartText ==
    /\ Reading /\ open # <<>> /\ Top.el = "track" /\ Use("p")
    /\ \E a \in shape.lines, k \in shape.keys : open' = Append(open, [Frame("text", a, Top.ctx, k) EXCEPT !.kind = Top.kind])
    /\ UNCHANGED <<shape, params, mainLines, entries, voices, said, heard, lyrics>>

StartSpan ==
    /\ Reading /\ InLine /\ Use("span")
    /\ \E a \in shape.spans : open' = Append(open, Frame("span", a, Top.ctx, NoAttr))
    /\ UNCHANGED <<shape, params, mainLines, entries, voices, said, heard, lyrics>>

CharData ==
    /\ Reading /\ InLine /\ Use("text")
    /\ \E t \in shape.texts :
        /\ open' = [open EXCEPT ![Len(open)].pieces = Append(@, Piece(t, NoCue))]
        /\ said' = said \o Words(t)
    /\ UNCHANGED <<shape, params, mainLines, entries, voices, heard, lyrics>>

LineBreak ==
    /\ Reading /\ InLine /\ Use("break")
    /\ open' = [open EXCEPT ![Len(open)].pieces = Append(@, BreakPiece)]
    /\ UNCHANGED <<shape, params, mainLines, entries, voices, said, heard, lyrics>>

resolveCueAgentID(c) == IF c.bg THEN [bg |-> TRUE, id |-> IF c.agent = "" THEN "main" ELSE c.agent] ELSE [bg |-> FALSE, id |-> c.agent]

\* A span with times of its own, and without a cue in it, is a cue.
parseInlineElement(f) ==
    IF f.own /\ ~f.ctx.invalid /\ (\A i \in DOMAIN f.pieces : f.pieces[i].cue = NoCue) /\ Words(concatTTMLPieceRaw(f.pieces)) # <<>>
    THEN <<Piece(concatTTMLPieceRaw(f.pieces), [start |-> f.ctx.begin, end |-> f.ctx.end, agent |-> resolveCueAgentID(f.ctx)])>>
    ELSE f.pieces

EndSpan ==
    /\ Reading /\ open # <<>> /\ Top.el = "span"
    /\ open' = [Below EXCEPT ![Len(Below)].pieces = @ \o parseInlineElement(Top)]
    /\ UNCHANGED <<shape, params, mainLines, entries, voices, said, heard, lyrics, used>>

addMainLine ==
    /\ Reading /\ open # <<>> /\ Top.el = "p"
    /\ LET line == LineOf(Top)
           counts == ~Top.ctx.invalid /\ line.value # <<>>
       IN  /\ mainLines' = IF counts THEN Append(mainLines, line) ELSE mainLines
           /\ heard' = IF Top.ctx.invalid THEN heard ELSE [heard EXCEPT ![Top.ctx.lang] = @ \o said]
    /\ open' = Below
    /\ UNCHANGED <<shape, params, entries, voices, said, lyrics, used>>

\* The entry is of the track's language.
addMetadataEntry ==
    /\ Reading /\ open # <<>> /\ Top.el = "text"
    /\ LET line == LineOf(Top)
       IN  entries' = IF Top.ctx.invalid \/ line.value = <<>> THEN entries ELSE Append(entries, [kind |-> Top.kind, lang |-> Below[Len(Below)].ctx.lang, line |-> line])
    /\ open' = Below
    /\ UNCHANGED <<shape, params, mainLines, voices, said, heard, lyrics, used>>

EndBox ==
    /\ Reading /\ open # <<>> /\ Top.el \in {"box", "track"} /\ open' = Below
    /\ UNCHANGED <<shape, params, mainLines, entries, voices, said, heard, lyrics, used>>

parseTTML ==
    /\ Reading /\ open = <<>> /\ used.p > 0 /\ lyrics' = toLyricList
    /\ UNCHANGED <<shape, params, open, mainLines, entries, voices, said, heard, used>>

\* A document that is cut short yields nothing, whatever was read.
CutShort ==
    /\ Reading /\ open # <<>> /\ lyrics' = {}
    /\ open' = <<>> /\ mainLines' = <<>> /\ entries' = <<>> /\ voices' = <<>> /\ said' = <<>> /\ heard' = [l \in Langs |-> <<>>]
    /\ used' = [k \in DOMAIN used |-> 0] /\ UNCHANGED <<shape, params>>

TimedTextNext ==
    \/ parseElement \/ parseMetadataTrack \/ parseAgentDefinition \/ StartParagraph \/ StartText \/ StartSpan
    \/ CharData \/ LineBreak \/ EndSpan \/ addMainLine \/ addMetadataEntry \/ EndBox \/ parseTTML \/ CutShort

TimedTextSpec == TimedTextInit /\ [][TimedTextNext]_timedTextVars

-----------------------------------------------------------------------------
(* Properties                                                                *)

Yielded == IF Reading THEN {} ELSE lyrics
AllText(lines) == FoldLeft(LAMBDA acc, l : acc \o Words(l.value), <<>>, lines)

\* No word of a paragraph is lost, doubled or moved on the way through spans
\* in spans, breaks and blanks.
WordsAreKept == Yielded # {} => \A lang \in Langs : heard[lang] # <<>> =>
    \E l \in Yielded : l.kind = "main" /\ l.lang = lang /\ AllText(l.lines) = heard[lang]

\* Each cue names the place of its text, in the line and in what a client is
\* given for its voice.
CuesMatchTheirText ==
    \A l \in Yielded : \A i \in DOMAIN l.lines :
        /\ CuesMatch(l.lines[i].value, l.lines[i].cues)
        /\ \A c \in buildCueLines(l.lines[i]) : CuesMatch(c.value, c.cues)

\* The ends of cues are in order, voice by voice, and as the document says
\* where it does.
CueEndsAreSane == \A l \in Yielded : \A i \in DOMAIN l.lines : EndsAreSane(l.lines[i].cues)

\* Every cue's voice is declared, and one of the voices is the main one.
VoicesAreDeclared ==
    \A l \in Yielded : l.agents # <<>> =>
        /\ Cardinality({i \in DOMAIN l.agents : l.agents[i].role = "main"}) = 1
        /\ \A i \in DOMAIN l.lines : \A k \in DOMAIN l.lines[i].cues : \E j \in DOMAIN l.agents : l.agents[j].agent = l.lines[i].cues[k].agent

\* The lines of a translation are in the order of those they translate, one for
\* each at most, and begin at some time when those do.
TranslationsFollowTheLines ==
    \A l \in Yielded : l.kind # "main" =>
        /\ \A i \in 1..(Len(l.lines) - 1) : refOf(l.lines[i].key) < refOf(l.lines[i + 1].key)
        /\ \A i \in DOMAIN l.lines : mainLines[refOf(l.lines[i].key)].start # NoTime => l.lines[i].start # NoTime

-----------------------------------------------------------------------------
(* LRC, SRT and Lyricsfile                                                   *)

CONSTANTS
    Stamps,     \* times as they are written: <<minutes, seconds, fraction, its digits>>
    StampLists, \* the times before a line of LRC
    Contents,   \* what follows them: sequences of [mark, text], mark a marker's time
    WordLists,  \* words of a line in a Lyricsfile: sequences of [text, start, end]
    MaxFileLines

ASSUME LyricFilesAssumption == MaxFileLines \in Nat

VARIABLES
    format,     \* how the file is read: "lrc", "srt", "yaml"
    prior,      \* the line of LRC that is being read: [stamps, content], or NoLine
    repeated,   \* LRC: a line had several times
    fileLines,  \* the lines so far
    broken,     \* a block of SRT could not be read
    led,        \* history: a line of LRC had words before its first marker
    sung,       \* history: what each line says and when, in the order of the file
    count,      \* history: lines of the file
    sheet       \* the lyrics: [lines, voices], or NoSheet while the file is read

fileVars == <<format, prior, repeated, fileLines, broken, led, sung, count, sheet>>

NoLine == [stamps |-> <<>>]
NoSheet == [lines |-> <<>>, voices |-> -1]

parseTime(t) == (t[1] * 60 + t[2]) * 1000 + t[3] * (CASE t[4] = 1 -> 100 [] t[4] = 2 -> 10 [] OTHER -> 1)

TextOf(segments) == FoldLeft(LAMBDA acc, s : acc \o s.text, <<>>, segments)
LeftBlanks(t) == CHOOSE n \in 0..Len(t) : (\A i \in 1..n : Blank(t[i])) /\ (n < Len(t) => ~Blank(t[n + 1]))
RightEnd(t) == CHOOSE n \in 0..Len(t) : (\A i \in (n + 1)..Len(t) : Blank(t[i])) /\ (n > 0 => ~Blank(t[n]))
Trim(t) == SubSeq(t, LeftBlanks(t) + 1, RightEnd(t))

Cue(start, end, text, from, agent) == [start |-> start, end |-> end, said |-> end, text |-> text, from |-> from, to |-> from + Len(text) - 1, agent |-> agent]
Line(start, end, value, cues, of) == [start |-> start, end |-> end, value |-> value, cues |-> cues, of |-> of]

-----------------------------------------------------------------------------
(* LRC                                                                       *)

Clip(n, low, high) == IF n < low THEN low ELSE IF n > high THEN high ELSE n

\* The words in the line that is left when its blanks are cut, at their places.
PlacedWords(worded, raw, left, right) ==
    LET cue(s, from, to) == IF from < to THEN <<Cue(s.mark, NoTime, SubSeq(raw, from + 1, to), from - left, "")>> ELSE <<>>
        add(acc, s) == [at |-> acc.at + Len(s.text),
                        cues |-> acc.cues \o cue(s, Clip(acc.at, left, Len(raw)), Clip(acc.at + Len(s.text), 0, right))]
    IN  FoldLeft(add, [at |-> 0, cues |-> <<>>], worded).cues

EndedBy(last, cues) ==
    IF last.mark # NoTime /\ last.text = <<>> /\ cues # <<>> THEN [cues EXCEPT ![Len(cues)].end = last.mark, ![Len(cues)].said = last.mark] ELSE cues

EnhancedLine(segments, worded, raw) ==
    IF worded = <<>> THEN [value |-> Trim(TextOf(segments)), cues |-> <<>>]
    ELSE [value |-> Trim(raw), cues |-> EndedBy(segments[Len(segments)], PlacedWords(worded, raw, LeftBlanks(raw), RightEnd(raw)))]
WordedOf(segments) == SelectSeq(segments, LAMBDA s : s.mark # NoTime /\ s.text # <<>>)

\* Words follow their markers; a marker at the end ends the last word; what is
\* before the first marker is left out.
parseEnhancedLine(segments) == EnhancedLine(segments, WordedOf(segments), TextOf(WordedOf(segments)))

shiftELRCCues(cues, by) ==
    LET moved(t) == IF t = NoTime THEN t ELSE t + by
    IN  [i \in DOMAIN cues |-> [cues[i] EXCEPT !.start = moved(@), !.end = moved(@), !.said = moved(@)]]

\* The line that was being read, once for each of its times.
AtEachTime(p, parsed) ==
    [i \in DOMAIN p.stamps |-> Line(p.stamps[i], NoTime, parsed.value, shiftELRCCues(parsed.cues, p.stamps[i] - p.stamps[1]), p.of)]

flushLine(p) == AtEachTime(p, parseEnhancedLine(p.content))

Flushed == IF prior = NoLine THEN fileLines ELSE fileLines \o flushLine(prior)
Sung(p) == IF p = NoLine THEN <<>> ELSE [i \in DOMAIN p.stamps |-> [start |-> p.stamps[i], words |-> Words(TextOf(p.content))]]
Leads(content) == /\ \E i \in DOMAIN content : content[i].mark # NoTime /\ content[i].text # <<>>
                  /\ \E i \in DOMAIN content : content[i].mark = NoTime /\ Words(content[i].text) # <<>>
More == sheet = NoSheet /\ count < MaxFileLines /\ count' = count + 1

StampedLine ==
    /\ format = "lrc" /\ More
    /\ \E stamps \in StampLists, content \in Contents :
        /\ fileLines' = Flushed /\ sung' = sung \o Sung(prior)
        /\ prior' = [stamps |-> [i \in DOMAIN stamps |-> parseTime(stamps[i])], content |-> content, of |-> count]
        /\ repeated' = (repeated \/ Len(stamps) > 1)
        /\ led' = (led \/ Leads(content))
    /\ UNCHANGED <<format, broken, sheet>>

\* A line without times, or a blank one, continues the one before.
ContinuedLine ==
    /\ format = "lrc" /\ More /\ prior # NoLine
    /\ \E text \in {<<"/">>, <<"/", "c">>} :
        prior' = [prior EXCEPT !.content = IF @ = <<>> THEN <<[mark |-> NoTime, text |-> text]>> ELSE [@ EXCEPT ![Len(@)].text = @ \o text]]
    /\ led' = (led \/ Leads(prior'.content))
    /\ UNCHANGED <<format, repeated, fileLines, broken, sung, sheet>>

\* What is before the first time, and tags such as the offset, is no line.
SkippedLine ==
    /\ format = "lrc" /\ More /\ prior = NoLine
    /\ UNCHANGED <<format, prior, repeated, fileLines, broken, led, sung, sheet>>

SortedByStart(lines) ==
    LET before(i, k) == lines[i].start < lines[k].start \/ (lines[i].start = lines[k].start /\ i <= k)
        rank(k) == Cardinality({i \in DOMAIN lines : before(i, k)})
    IN  [n \in DOMAIN lines |-> lines[CHOOSE k \in DOMAIN lines : rank(k) = n]]

InOrder(lines) == IF repeated THEN SortedByStart(lines) ELSE lines

parseLRC ==
    /\ format = "lrc" /\ sheet = NoSheet
    /\ sheet' = [lines |-> normalizeCueLines(InOrder(Flushed)), voices |-> 0]
    /\ sung' = sung \o Sung(prior) /\ prior' = NoLine
    /\ UNCHANGED <<format, repeated, fileLines, broken, led, count>>

-----------------------------------------------------------------------------
(* SRT                                                                       *)

\* A block without text or times is passed over; one whose times cannot be read
\* makes the file one of plain text.
parseSRTBlock ==
    /\ format = "srt" /\ More
    /\ \/ \E s, e \in Stamps, text \in {<<"a">>, <<"a", "/", "b">>} :
            /\ fileLines' = Append(fileLines, Line(parseTime(s), parseTime(e), text, <<>>, count))
            /\ sung' = Append(sung, [start |-> parseTime(s), words |-> Words(text)]) /\ UNCHANGED broken
       \/ UNCHANGED <<fileLines, sung, broken>>
       \/ broken' = TRUE /\ UNCHANGED <<fileLines, sung>>
    /\ UNCHANGED <<format, prior, repeated, led, sheet>>

parseSRT ==
    /\ format = "srt" /\ sheet = NoSheet
    /\ sheet' = [lines |-> IF broken THEN [i \in DOMAIN fileLines |-> [fileLines[i] EXCEPT !.start = NoTime, !.end = NoTime]] ELSE normalizeCueLines(fileLines), voices |-> 0]
    /\ UNCHANGED <<format, prior, repeated, fileLines, broken, led, sung, count>>

-----------------------------------------------------------------------------
(* Lyricsfile                                                                *)

\* The line is the words together; a word without an end ends where the next
\* one begins.
wordsToLineCues(words, voice) ==
    LET at(i) == Len(FoldLeft(LAMBDA acc, w : acc \o w.text, <<>>, SubSeq(words, 1, i - 1)))
        end(i) == IF words[i].end = NoTime /\ i < Len(words) THEN words[i + 1].start ELSE words[i].end
    IN  [value |-> FoldLeft(LAMBDA acc, w : acc \o w.text, <<>>, words),
         cues |-> [i \in DOMAIN words |-> [Cue(words[i].start, end(i), words[i].text, at(i), voice) EXCEPT !.said = words[i].end]]]

lyricsfileLineEnd(i) ==
    LET l == fileLines[i]
    IN  IF l.end # NoTime THEN l.end
        ELSE IF l.cues # <<>> /\ l.cues[Len(l.cues)].end # NoTime THEN l.cues[Len(l.cues)].end
        ELSE IF i < Len(fileLines) THEN fileLines[i + 1].start ELSE NoTime

\* The first voice that is not singing.
voiceOf(i, busy) == CHOOSE v \in 0..Cardinality(busy) : v \notin busy /\ \A u \in 0..(v - 1) : u \in busy

\* The voice of each line: one sings until its line ends.
LineVoices ==
    LET until(i) == IF lyricsfileLineEnd(i) # NoTime THEN lyricsfileLineEnd(i) ELSE fileLines[i].start
        taken(singing, i, voice, of) == [active |-> {v \in singing : v[1] # voice} \cup {<<voice, until(i)>>}, of |-> Append(of, voice)]
        among(singing, i, of) == taken(singing, i, voiceOf(i, {v[1] : v \in singing}), of)
        give(acc, i) == among({v \in acc.active : v[2] > fileLines[i].start}, i, acc.of)
    IN  FoldLeft(give, [active |-> {}, of |-> <<>>], [i \in DOMAIN fileLines |-> i]).of

WithWords(line, end, built) == IF line.cues = <<>> THEN [line EXCEPT !.end = end] ELSE [line EXCEPT !.end = end, !.value = built.value, !.cues = built.cues]
SungBy(byVoice, named) ==
    [i \in DOMAIN fileLines |-> WithWords(fileLines[i], lyricsfileLineEnd(i), wordsToLineCues(fileLines[i].cues, IF named THEN <<byVoice[i]>> ELSE <<>>))]

\* Voices are named when there are several and some line has timed words.
LinesByVoice(byVoice, several) ==
    [lines |-> SungBy(byVoice, several), voices |-> IF several THEN 1 + LastOf({byVoice[i] : i \in DOMAIN byVoice}) ELSE 0]
buildLyricsfileLines(byVoice) ==
    LinesByVoice(byVoice, (\E i \in DOMAIN byVoice : byVoice[i] > 0) /\ \E i \in DOMAIN fileLines : fileLines[i].cues # <<>>)

\* An entry: its words are kept in the place of the cues until the file ends.
\* Entries are in the order of their starts.
LyricsfileEntry ==
    /\ format = "yaml" /\ More
    /\ \E s \in {parseTime(t) : t \in Stamps}, e \in {parseTime(t) : t \in Stamps} \cup {NoTime}, words \in WordLists :
        /\ e # NoTime => s <= e
        /\ fileLines # <<>> => fileLines[Len(fileLines)].start <= s
        /\ fileLines' = Append(fileLines, Line(s, e, <<"a">>, words, count))
        /\ sung' = Append(sung, [start |-> s, words |-> IF words = <<>> THEN <<"a">> ELSE Words(TextOf(words))])
    /\ UNCHANGED <<format, prior, repeated, broken, led, sheet>>

parseLyricsfile ==
    /\ format = "yaml" /\ sheet = NoSheet /\ fileLines # <<>>
    /\ sheet' = [buildLyricsfileLines(LineVoices) EXCEPT !.lines = normalizeCueLines(@)]
    /\ UNCHANGED <<format, prior, repeated, fileLines, broken, led, sung, count>>

-----------------------------------------------------------------------------

\* The name of the file, or a look into it, decides how it is read.
ParseLyrics ==
    /\ format \in {"lrc", "srt", "yaml"}
    /\ prior = NoLine /\ repeated = FALSE /\ fileLines = <<>> /\ broken = FALSE
    /\ led = FALSE /\ sung = <<>> /\ count = 0 /\ sheet = NoSheet

LyricFilesNext ==
    \/ StampedLine \/ ContinuedLine \/ SkippedLine \/ parseLRC \/ parseSRTBlock \/ parseSRT \/ LyricsfileEntry \/ parseLyricsfile

LyricFilesSpec == ParseLyrics /\ [][LyricFilesNext]_fileVars

-----------------------------------------------------------------------------
(* Properties                                                                *)

HowOften(S, x) == Cardinality({i \in DOMAIN S : S[i] = x})

\* Each line of the file is sung at each of its times, and nothing else is;
\* unless it has words before its first marker, or its times cannot be read.
LinesAreSungWhenSaid ==
    sheet # NoSheet /\ ~led /\ ~broken =>
        LET out == [i \in DOMAIN sheet.lines |-> [start |-> sheet.lines[i].start, words |-> Words(sheet.lines[i].value)]]
        IN  Len(out) = Len(sung) /\ \A i \in DOMAIN sung : HowOften(out, sung[i]) = HowOften(sung, sung[i])

\* The words of a line that is repeated are as far from its beginning each time.
RepeatsKeepTheirTiming ==
    \A i, k \in DOMAIN sheet.lines : sheet.lines[i].of = sheet.lines[k].of =>
        \A w \in DOMAIN sheet.lines[i].cues : sheet.lines[i].cues[w].start - sheet.lines[i].start = sheet.lines[k].cues[w].start - sheet.lines[k].start

\* Each word names its place in the line, and its end is not before its start.
WordsHaveTheirPlace ==
    \A i \in DOMAIN sheet.lines : CuesMatch(sheet.lines[i].value, sheet.lines[i].cues) /\ EndsAreSane(sheet.lines[i].cues)

\* Lines that sound at the same time are sung by different voices.
VoicesDoNotOverlap ==
    format = "yaml" /\ sheet.voices > 0 =>
        \A i, k \in DOMAIN sheet.lines :
            LET a == sheet.lines[i]
                b == sheet.lines[k]
            IN  i < k /\ a.cues # <<>> /\ b.cues # <<>> /\ a.cues[1].agent = b.cues[1].agent => a.end <= b.start
=============================================================================
