--------------------------- MODULE SmartPlaylists ---------------------------
(* A smart playlist is refreshed when its owner reads it: its rows are         *)
(* deleted, the smart playlists its rules mention are refreshed, the songs     *)
(* that satisfy the rules are inserted by one statement, the counters and the  *)
(* time of the evaluation are written.  None of this is in a transaction, and  *)
(* two requests may refresh at once.  The rules become SQL whose conditions    *)
(* on the user's annotations leave the index usable, and whose conditions on   *)
(* one tag or role are merged into one subquery; SQL's logic has three values. *)
EXTENDS Integers, Sequences, FiniteSets

CONSTANTS
    Scenes,     \* [rules, sort, limit, percent, child, readers]: see the MC module
    SongRows,   \* [songs -> [rating, albumRating, bpm, played, genre, artist]]
    Today,
    Null,
    MaxRatings, \* bound: ratings changed
    MaxRuleFaults   \* bound: statements that fail

RuleSongs == DOMAIN SongRows

VARIABLES
    scene,
    ratings,    \* the user's ratings: [RuleSongs -> a number, or Null without a row]
    tracks,     \* rows of playlist_tracks: ["list", "child" -> set of songs]
    songCount,  \* playlist.song_count
    evaluated,  \* ["list", "child" -> evaluated_at is within the refresh delay]
    refresh,    \* [readers -> the refresh in progress]
    filled,     \* history: the rows are those of the last evaluation
    overlapped, \* history: two refreshes were in progress at once
    faulty,     \* history: statements that failed
    unknown,    \* history: a statement named a table that it does not join
    rated

smartVars == <<scene, ratings, tracks, songCount, evaluated, refresh, filled, overlapped, faulty, unknown, rated>>

Readers == {1, 2}
NoRefresh == [at |-> "idle", limit |-> 0]
Conjunction(e) == e.op \in {"all", "any"}

-----------------------------------------------------------------------------
(* Columns of a song, and how rules on them become conditions.  A condition   *)
(* is a comparison [k, col, cmp, v], a test for NULL, a subquery over a tag or *)
(* role, or membership of a playlist.                                         *)

Annotation == {"rating", "albumrating"}         \* columns with a default of 0
Multi == {"genre", "artist"}                    \* a tag and a role: sets of values
Fields == Annotation \cup Multi \cup {"bpm", "lastplayed"}

\* The rules that become SQL: others are refused (ranges and periods of a tag,
\* "missing" of a column that is never NULL) or compare a number with a date.
IsLeaf(e) ==
    \/ e.op \in {"inPlaylist", "notInPlaylist"}
    \/ e.op \in {"is", "isNot", "gt", "lt", "after", "before"} /\ e.field \in Fields /\ e.value \in Int
    \/ e.op = "inTheRange" /\ e.field \in Fields \ Multi /\ e.value \in Int
    \/ e.op \in {"inTheLast", "notInTheLast"} /\ e.field = "lastplayed" /\ e.value \in Int
    \/ e.op \in {"isMissing", "isPresent"} /\ e.field \in Multi \cup {"bpm"} /\ e.value \in BOOLEAN

\* Rules are a conjunction of leaves and of conjunctions of leaves.
IsRules(e) ==
    /\ Conjunction(e)
    /\ \A i \in DOMAIN e.rules :
        LET r == e.rules[i] IN IF Conjunction(r) THEN \A j \in DOMAIN r.rules : IsLeaf(r.rules[j]) ELSE IsLeaf(r)

ASSUME SmartAssumption ==
    /\ MaxRatings \in Nat /\ MaxRuleFaults \in Nat
    /\ Today \in Int /\ Null \notin Int /\ IsFiniteSet(RuleSongs)
    /\ \A s \in RuleSongs :
        /\ {SongRows[s].rating, SongRows[s].albumRating, SongRows[s].bpm, SongRows[s].played} \subseteq Int \cup {Null}
        /\ SongRows[s].genre \cup SongRows[s].artist \subseteq Int
    /\ \A c \in Scenes : IsRules(c.rules) /\ c.limit \in Nat /\ c.percent \in Nat
joinType(f) == IF f = "albumrating" THEN {"album_annotation"} ELSE {}

Column(s, f) ==
    CASE f = "rating" -> ratings[s] [] f = "albumrating" -> SongRows[s].albumRating
      [] f = "bpm" -> SongRows[s].bpm [] f = "lastplayed" -> SongRows[s].played

Satisfies(cmp, a, b) == CASE cmp = "=" -> a = b [] cmp = "<>" -> a # b [] cmp = ">" -> a > b [] cmp = "<" -> a < b
                          [] cmp = ">=" -> a >= b [] cmp = "<=" -> a <= b

Cmp(f, cmp, v) == [k |-> "cmp", col |-> f, cmp |-> cmp, v |-> v]
IsNull(f) == [k |-> "null", col |-> f, not |-> FALSE]
Or(c, d) == [k |-> "or", kids |-> {c, d}]
And(c, d) == [k |-> "and", kids |-> {c, d}]
Exists(f, conds, not) == [k |-> "exists", col |-> f, conds |-> conds, not |-> not]

\* The bare column, and NULL as well when the default satisfies the rule.
annotationCond(f, cmp, v) == IF Satisfies(cmp, 0, v) THEN Or(Cmp(f, cmp, v), IsNull(f)) ELSE Cmp(f, cmp, v)

comparisonExpr(f, cmp, v) ==
    CASE f \in Multi -> Exists(f, {<<cmp, v>>}, FALSE)
      [] f \in Annotation -> annotationCond(f, cmp, v)
      [] OTHER -> Cmp(f, cmp, v)

isNotExpr(e) ==
    IF e.field \in Multi THEN Exists(e.field, {<<"=", e.value>>}, TRUE) ELSE comparisonExpr(e.field, "<>", e.value)

rangeExpr(e) == And(comparisonExpr(e.field, ">=", e.value), comparisonExpr(e.field, "<=", e.value + 1))

periodExpr(e, negate) ==
    IF negate THEN Or(Cmp(e.field, "<", Today - e.value), IsNull(e.field)) ELSE Cmp(e.field, ">", Today - e.value)

inList(not) == [k |-> "in", not |-> not]

missingExpr(e) ==
    LET negate == (e.op = "isMissing") = e.value
    IN  IF e.field \in Multi THEN Exists(e.field, {}, negate) ELSE [k |-> "null", col |-> e.field, not |-> ~negate]

leafSQL(e) ==
    CASE e.op = "is" -> comparisonExpr(e.field, "=", e.value)
      [] e.op = "isNot" -> isNotExpr(e)
      [] e.op \in {"gt", "after"} -> comparisonExpr(e.field, ">", e.value)
      [] e.op \in {"lt", "before"} -> comparisonExpr(e.field, "<", e.value)
      [] e.op = "inTheRange" -> rangeExpr(e)
      [] e.op \in {"inTheLast", "notInTheLast"} -> periodExpr(e, e.op = "notInTheLast")
      [] e.op \in {"inPlaylist", "notInPlaylist"} -> inList(e.op = "notInPlaylist")
      [] e.op \in {"isMissing", "isPresent"} -> missingExpr(e)

\* Mutant: conditions are merged whatever their polarity.
mergeSameFieldConds_AnyPolarity(conds, negated) ==
    LET Group(f) == {c \in conds : c.k = "exists" /\ c.conds # {} /\ c.col = f}
        shared == {f \in Multi : Cardinality(Group(f)) >= 2}
    IN  (conds \ UNION {Group(f) : f \in shared}) \cup {Exists(f, UNION {c.conds : c \in Group(f)}, negated) : f \in shared}

\* Two and more subqueries over one field become one, with their conditions
\* ORed: those that are not negated within "any", the negated ones within "all".
\* The order of conditions does not matter to SQL.
mergeSameFieldConds(conds, negated) ==
    LET Group(f) == {c \in conds : c.k = "exists" /\ c.not = negated /\ c.conds # {} /\ c.col = f}
        shared == {f \in Multi : Cardinality(Group(f)) >= 2}
    IN  (conds \ UNION {Group(f) : f \in shared}) \cup {Exists(f, UNION {c.conds : c \in Group(f)}, negated) : f \in shared}

Grouped(op, conds) ==
    [k |-> IF op = "all" THEN "and" ELSE "or", kids |-> mergeSameFieldConds(conds, op = "all")]

innerSQL(e) == IF Conjunction(e) THEN Grouped(e.op, {leafSQL(e.rules[i]) : i \in DOMAIN e.rules}) ELSE leafSQL(e)
exprSQL(e) == Grouped(e.op, {innerSQL(e.rules[i]) : i \in DOMAIN e.rules})

-----------------------------------------------------------------------------
(* SQLite's answer for a row: "T", "F" or, with a NULL in a comparison, "N"   *)

Lift(b) == IF b THEN "T" ELSE "F"
AndOf(vs) == CASE "F" \in vs -> "F" [] "F" \notin vs /\ "N" \in vs -> "N" [] OTHER -> "T"
OrOf(vs) == CASE "T" \in vs -> "T" [] "T" \notin vs /\ "N" \in vs -> "N" [] OTHER -> "F"

\* Owners see their own playlists and public ones.
ChildRows == IF scene.child = "private" THEN {} ELSE tracks["child"]

Atom(s, c) ==
    CASE c.k = "cmp" -> IF Column(s, c.col) = Null THEN "N" ELSE Lift(Satisfies(c.cmp, Column(s, c.col), c.v))
      [] c.k = "null" -> Lift((Column(s, c.col) = Null) # c.not)
      [] c.k = "in" -> Lift(IF c.not THEN s \notin ChildRows ELSE s \in ChildRows)
      [] c.k = "exists" -> Lift((\E x \in SongRows[s][c.col] : c.conds = {} \/ \E t \in c.conds : Satisfies(t[1], x, t[2])) # c.not)

Combine(k, vs) == IF k = "and" THEN AndOf(vs) ELSE OrOf(vs)
IsGroup(c) == c.k \in {"and", "or"}
Truth1(s, c) == IF IsGroup(c) THEN Combine(c.k, {Atom(s, d) : d \in c.kids}) ELSE Atom(s, c)
Truth2(s, c) == IF IsGroup(c) THEN Combine(c.k, {Truth1(s, d) : d \in c.kids}) ELSE Atom(s, c)
Truth3(s, c) == IF IsGroup(c) THEN Combine(c.k, {Truth2(s, d) : d \in c.kids}) ELSE Atom(s, c)
Matching(where) == {s \in RuleSongs : Combine(where.k, {Truth3(s, d) : d \in where.kids}) = "T"}

\* The child's rules: songs rated above 0.
ChildRules == [op |-> "all", rules |-> <<[op |-> "gt", field |-> "rating", value |-> 0]>>]

-----------------------------------------------------------------------------
(* Fields, joins and limits                                                  *)

Leaves(e) == UNION {IF Conjunction(e.rules[i]) THEN {e.rules[i].rules[j] : j \in DOMAIN e.rules[i].rules} ELSE {e.rules[i]} : i \in DOMAIN e.rules}
extractPlaylistIds(e) == \E l \in Leaves(e) : l.op \in {"inPlaylist", "notInPlaylist"}
ExpressionJoins(c) == UNION {joinType(l.field) : l \in Leaves(c.rules)}

RequiredJoins(c) == ExpressionJoins(c) \cup joinType(c.sort)

EffectiveLimit(c, total) ==
    CASE c.limit > 0 -> c.limit
      [] c.limit = 0 /\ c.percent > 0 /\ total > 0 -> LET n == (total * c.percent) \div 100 IN IF n < 1 THEN 1 ELSE n
      [] OTHER -> 0

\* The rows of the statement: the first ones in descending order of the sorted
\* column, a missing annotation counting as its default.
SortKey(s, f) == IF Column(s, f) = Null THEN 0 ELSE Column(s, f)
Firsts(found, c, limit) ==
    {sel \in SUBSET found :
        /\ Cardinality(sel) = IF limit = 0 \/ limit > Cardinality(found) THEN Cardinality(found) ELSE limit
        /\ \A s \in sel, t \in found \ sel : SortKey(s, c.sort) >= SortKey(t, c.sort)}

-----------------------------------------------------------------------------
SmartInit ==
    /\ scene \in Scenes
    /\ ratings = [s \in RuleSongs |-> SongRows[s].rating]
    /\ tracks = [p \in {"list", "child"} |-> {}] /\ songCount = [p \in {"list", "child"} |-> 0]
    /\ evaluated = [p \in {"list", "child"} |-> FALSE]
    /\ refresh = [r \in Readers |-> NoRefresh]
    /\ filled = [p \in {"list", "child"} |-> FALSE]
    /\ overlapped = FALSE /\ faulty = 0 /\ unknown = FALSE /\ rated = 0

Moves(r, at) == refresh' = [refresh EXCEPT ![r].at = at]

\* A statement fails: the refresh gives up where it is.
Fails(r) ==
    /\ refresh[r].at # "idle" /\ faulty < MaxRuleFaults
    /\ faulty' = faulty + 1
    /\ refresh' = [refresh EXCEPT ![r] = NoRefresh]
    /\ UNCHANGED <<scene, ratings, tracks, songCount, evaluated, filled, overlapped, unknown, rated>>

\* The owner reads the playlist.
refreshSmartPlaylist(r) ==
    /\ r <= scene.readers /\ refresh[r] = NoRefresh /\ ~evaluated["list"]
    /\ Moves(r, "delete") /\ overlapped' = (overlapped \/ \E q \in Readers : refresh[q] # NoRefresh)
    /\ UNCHANGED <<scene, ratings, tracks, songCount, evaluated, filled, faulty, unknown, rated>>

DeleteTracks(r) ==
    /\ refresh[r].at = "delete"
    /\ tracks' = [tracks EXCEPT !["list"] = {}] /\ filled' = [filled EXCEPT !["list"] = FALSE]
    /\ Moves(r, IF extractPlaylistIds(scene.rules) THEN "child" ELSE "limit")
    /\ UNCHANGED <<scene, ratings, songCount, evaluated, overlapped, faulty, unknown, rated>>

\* A playlist the rules mention is refreshed first, when it is the owner's and
\* its last evaluation is old; whether that succeeds is not looked at.
refreshChildPlaylists(r) ==
    /\ refresh[r].at = "child"
    /\ IF scene.child = "own" /\ ~evaluated["child"]
       THEN /\ tracks' = [tracks EXCEPT !["child"] = {}] /\ filled' = [filled EXCEPT !["child"] = FALSE]
            /\ Moves(r, "childInsert")
       ELSE Moves(r, "limit") /\ UNCHANGED <<tracks, filled>>
    /\ UNCHANGED <<scene, ratings, songCount, evaluated, overlapped, faulty, unknown, rated>>

\* Positions are unique: the rows cannot be inserted twice.
InsertChild(r) ==
    /\ refresh[r].at = "childInsert"
    /\ IF tracks["child"] # {} THEN Moves(r, "limit") /\ UNCHANGED <<tracks, songCount, evaluated, filled>>
       ELSE /\ tracks' = [tracks EXCEPT !["child"] = Matching(exprSQL(ChildRules))]
            /\ songCount' = [songCount EXCEPT !["child"] = Cardinality(Matching(exprSQL(ChildRules)))]
            /\ evaluated' = [evaluated EXCEPT !["child"] = TRUE] /\ filled' = [filled EXCEPT !["child"] = TRUE]
            /\ Moves(r, "limit")
    /\ UNCHANGED <<scene, ratings, overlapped, faulty, unknown, rated>>

\* A percentage is taken of the songs that match now.
resolvePercentageLimit(r) ==
    /\ refresh[r].at = "limit"
    /\ LET total == Cardinality(Matching(exprSQL(scene.rules)))
       IN  refresh' = [refresh EXCEPT ![r] = [at |-> "insert", limit |-> EffectiveLimit(scene, total)]]
    /\ UNCHANGED <<scene, ratings, tracks, songCount, evaluated, filled, overlapped, faulty, unknown, rated>>

InsertTracks(r) ==
    /\ refresh[r].at = "insert"
    /\ IF (ExpressionJoins(scene) \cup joinType(scene.sort)) \ RequiredJoins(scene) # {}
       THEN unknown' = TRUE /\ refresh' = [refresh EXCEPT ![r] = NoRefresh] /\ UNCHANGED <<tracks, filled>>
       ELSE IF tracks["list"] # {}
       THEN refresh' = [refresh EXCEPT ![r] = NoRefresh] /\ UNCHANGED <<tracks, filled, unknown>>
       ELSE /\ \E sel \in Firsts(Matching(exprSQL(scene.rules)), scene, refresh[r].limit) : tracks' = [tracks EXCEPT !["list"] = sel]
            /\ filled' = [filled EXCEPT !["list"] = TRUE]
            /\ Moves(r, "count") /\ UNCHANGED unknown
    /\ UNCHANGED <<scene, ratings, songCount, evaluated, overlapped, faulty, rated>>

CountTracks(r) ==
    /\ refresh[r].at = "count"
    /\ songCount' = [songCount EXCEPT !["list"] = Cardinality(tracks["list"])] /\ Moves(r, "stamp")
    /\ UNCHANGED <<scene, ratings, tracks, evaluated, filled, overlapped, faulty, unknown, rated>>

StampEvaluation(r) ==
    /\ refresh[r].at = "stamp"
    /\ evaluated' = [evaluated EXCEPT !["list"] = TRUE]
    /\ refresh' = [refresh EXCEPT ![r] = NoRefresh]
    /\ UNCHANGED <<scene, ratings, tracks, songCount, filled, overlapped, faulty, unknown, rated>>

\* The refresh delay passes, after which the playlist is read again.
DelayPasses ==
    /\ \E p \in {"list", "child"} : evaluated[p] /\ evaluated' = [evaluated EXCEPT ![p] = FALSE]
    /\ UNCHANGED <<scene, ratings, tracks, songCount, refresh, filled, overlapped, faulty, unknown, rated>>

RateSong ==
    /\ rated < MaxRatings /\ rated' = rated + 1
    /\ \E s \in RuleSongs, v \in {0, 2} : ratings' = [ratings EXCEPT ![s] = v]
    /\ UNCHANGED <<scene, tracks, songCount, evaluated, refresh, filled, overlapped, faulty, unknown>>

SmartNext ==
    \/ \E r \in Readers :
        \/ refreshSmartPlaylist(r) \/ DeleteTracks(r) \/ refreshChildPlaylists(r) \/ InsertChild(r)
        \/ resolvePercentageLimit(r) \/ InsertTracks(r) \/ CountTracks(r) \/ StampEvaluation(r) \/ Fails(r)
    \/ DelayPasses \/ RateSong

SmartSpec == SmartInit /\ [][SmartNext]_smartVars

-----------------------------------------------------------------------------
(* Properties                                                                *)

\* What a rule means for a song, in words of the song alone: an annotation the
\* user never made is the default, a song lacking a value of another kind
\* satisfies only the rules that ask for that.
MeansLeaf(s, e) ==
    LET v == IF e.field \in Annotation THEN SortKey(s, e.field) ELSE Column(s, e.field)
        values == SongRows[s][e.field]
    IN  IF e.op \in {"inPlaylist", "notInPlaylist"} THEN s \in ChildRows <=> e.op = "inPlaylist"
        ELSE IF e.field \in Multi
        THEN CASE e.op = "is" -> e.value \in values [] e.op = "isNot" -> e.value \notin values
               [] e.op \in {"gt", "after"} -> \E x \in values : x > e.value
               [] e.op \in {"lt", "before"} -> \E x \in values : x < e.value
               [] e.op = "isMissing" -> values = {} <=> e.value [] e.op = "isPresent" -> values # {} <=> e.value
        ELSE CASE e.op = "isMissing" -> v = Null <=> e.value [] e.op = "isPresent" -> v # Null <=> e.value
               [] e.op = "notInTheLast" -> v = Null \/ v < Today - e.value
               [] OTHER -> /\ v # Null
                           /\ CASE e.op = "is" -> v = e.value [] e.op = "isNot" -> v # e.value
                                [] e.op \in {"gt", "after"} -> v > e.value [] e.op \in {"lt", "before"} -> v < e.value
                                [] e.op = "inTheRange" -> v \in e.value..(e.value + 1)
                                [] e.op = "inTheLast" -> v > Today - e.value

Means(s, e) ==
    LET Inner(i) == LET k == e.rules[i]
                    IN  CASE k.op = "all" -> \A j \in DOMAIN k.rules : MeansLeaf(s, k.rules[j])
                          [] k.op = "any" -> \E j \in DOMAIN k.rules : MeansLeaf(s, k.rules[j])
                          [] OTHER -> MeansLeaf(s, k)
    IN  IF e.op = "all" THEN \A i \in DOMAIN e.rules : Inner(i) ELSE \E i \in DOMAIN e.rules : Inner(i)

\* When a smart playlist is filled, with its rules turned into SQL, it has the
\* songs the rules mean, with the annotations and the child playlist of that
\* moment: all of them, or the first ones up to its limit.
FilledByTheRules ==
    [][\A r \in Readers : refresh[r].at = "insert" /\ refresh'[r].at = "count" =>
          LET meant == {s \in RuleSongs : Means(s, scene.rules)}
          IN  /\ tracks'["list"] \subseteq meant
              /\ refresh[r].limit = 0 => tracks'["list"] = meant
              /\ Cardinality(tracks'["list"]) >= (IF refresh[r].limit < Cardinality(meant) THEN refresh[r].limit ELSE Cardinality(meant))]_smartVars

\* A playlist whose evaluation counts as recent, so that readers take it as it
\* is, has the rows of an evaluation and their count, however two refreshes
\* interleave and wherever one fails; unless one fails beside another.
RecentIsComplete ==
    evaluated["list"] /\ (overlapped => faulty = 0) /\ (\A r \in Readers : refresh[r].at = "idle") =>
        filled["list"] /\ songCount["list"] = Cardinality(tracks["list"])

\* No statement names a table it does not join, whether a rule or the order
\* asks for it.
ColumnsAreJoined == ~unknown

\* A smart playlist holds what its rules mean, however the refreshes of its
\* readers interleave and fail.
RulesAreFollowed == [](ColumnsAreJoined /\ RecentIsComplete) /\ FilledByTheRules
=============================================================================
