------------------------------ MODULE UserData ------------------------------
(* What users leave on an album: stars, ratings, play counts, and the album's *)
(* average rating.  A row is updated and, when there is none, inserted, by two *)
(* statements; ratings are written outside of a transaction, stars and plays   *)
(* within one.  Beside these a user has a play queue (PlayQueue).              *)
EXTENDS PlayQueue

CONSTANTS
    Listeners,      \* users
    Handlers,       \* requests that may run at once
    NoAnn,
    MaxRequests,    \* bound: requests made
    MaxDataFaults   \* bound: statements that fail

Ratings == {0, 4}
AnnotationRows == [rating : Ratings, starred : BOOLEAN, plays : Nat]

ASSUME UserDataAssumption ==
    MaxRequests \in Nat /\ MaxDataFaults \in Nat /\ NoAnn \notin AnnotationRows

VARIABLES
    album,      \* the album's id: it changes with the tags it is made of
    ann,        \* annotation: [album ids -> [Listeners -> row or NoAnn]]
    average,    \* [album ids -> average_rating, as <<sum, number>>]
    handling,   \* [Handlers -> the request in progress]
    writer,     \* the handler in a write transaction, or NoAnn
    view,       \* what a client of each user shows: [starred, rating]
    pending,    \* [Listeners -> a refresh event is on its way]
    readEarly,      \* history: a client read between a star's event and its commit
    renamed,    \* history: the album's id changed
    requests, dataFaults

userDataVars == <<album, ann, average, handling, writer, view, pending, readEarly, renamed, requests, dataFaults>>

AlbumIds == {"old", "new"}
NewRow == [rating |-> 0, starred |-> FALSE, plays |-> 0]
NoRequest == [op |-> "none"]
RowOf(i, u) == IF ann[i][u] = NoAnn THEN NewRow ELSE ann[i][u]
Seen(u) == [starred |-> RowOf(album, u).starred, rating |-> RowOf(album, u).rating]

\* The sum and the number of the ratings there are, of which the code stores
\* the quotient; a row without a rating does not count.
MeanOf(ratings) ==
    LET rated == {u \in Listeners : ratings[u] > 0}
        sum[T \in SUBSET Listeners] == IF T = {} THEN 0 ELSE LET x == CHOOSE y \in T : TRUE IN ratings[x] + sum[T \ {x}]
    IN  <<sum[rated], Cardinality(rated)>>
AverageOf(rows) == MeanOf([u \in Listeners |-> IF rows[u] = NoAnn THEN 0 ELSE rows[u].rating])

UserDataInit ==
    /\ album = "old"
    /\ ann = [i \in AlbumIds |-> [u \in Listeners |-> NoAnn]] /\ average = [i \in AlbumIds |-> <<0, 0>>]
    /\ handling = [h \in Handlers |-> NoRequest] /\ writer = NoAnn
    /\ view = [u \in Listeners |-> [starred |-> FALSE, rating |-> 0]] /\ pending = [u \in Listeners |-> FALSE]
    /\ readEarly = FALSE /\ renamed = FALSE /\ requests = 0 /\ dataFaults = 0

AnnGoes(h, j) == handling' = [handling EXCEPT ![h] = j]
AnnMoves(h, at) == handling' = [handling EXCEPT ![h].at = at]
Free == writer = NoAnn
Begin(h, j) == handling[h] = NoRequest /\ requests < MaxRequests /\ requests' = requests + 1 /\ AnnGoes(h, j)

AnnotationStep == UNCHANGED <<album, readEarly, renamed, requests>>

-----------------------------------------------------------------------------
(* Ratings: entity, upsert, average, event                                   *)

SetRating(h) ==
    /\ \E u \in Listeners, v \in Ratings : Begin(h, [op |-> "rate", user |-> u, id |-> album, value |-> v, at |-> "update"])
    /\ UNCHANGED <<album, ann, average, writer, view, pending, readEarly, renamed, dataFaults>>

\* The update reaches the row, or there is none and it is inserted; another
\* statement may have inserted it in between, and the request fails.
annUpsert(h) ==
    LET j == handling[h]
    IN  /\ j.op = "rate" /\ Free
        /\ \/ /\ j.at = "update" /\ ann[j.id][j.user] # NoAnn
              /\ ann' = [ann EXCEPT ![j.id][j.user].rating = j.value] /\ AnnMoves(h, "average")
           \/ /\ j.at = "update" /\ ann[j.id][j.user] = NoAnn
              /\ AnnMoves(h, "insert") /\ UNCHANGED ann
           \/ /\ j.at = "insert" /\ ann[j.id][j.user] = NoAnn
              /\ ann' = [ann EXCEPT ![j.id][j.user] = [NewRow EXCEPT !.rating = j.value]] /\ AnnMoves(h, "average")
           \/ /\ j.at = "insert" /\ ann[j.id][j.user] # NoAnn
              /\ AnnGoes(h, NoRequest) /\ UNCHANGED ann
        /\ AnnotationStep /\ UNCHANGED <<average, writer, view, pending, dataFaults>>

\* Mutant: the average takes the new value alone into account.
updateAvgRating_Own(h) ==
    LET j == handling[h]
    IN  /\ j.op = "rate" /\ j.at = "average" /\ Free
        /\ average' = [average EXCEPT ![j.id] = IF j.value > 0 THEN <<average[j.id][1] + j.value, average[j.id][2] + 1>> ELSE @]
        /\ AnnMoves(h, "event")
        /\ AnnotationStep /\ UNCHANGED <<ann, writer, view, pending, dataFaults>>

updateAvgRating(h) ==
    LET j == handling[h]
    IN  /\ j.op = "rate" /\ j.at = "average" /\ Free
        /\ average' = [average EXCEPT ![j.id] = AverageOf(ann[j.id])]
        /\ AnnMoves(h, "event")
        /\ AnnotationStep /\ UNCHANGED <<ann, writer, view, pending, dataFaults>>

RatingEvent(h) ==
    /\ handling[h].op = "rate" /\ handling[h].at = "event"
    /\ pending' = [pending EXCEPT ![handling[h].user] = TRUE] /\ AnnGoes(h, NoRequest)
    /\ AnnotationStep /\ UNCHANGED <<ann, average, writer, view, dataFaults>>

-----------------------------------------------------------------------------
(* Stars and plays: one transaction each; the star's event leaves within it   *)

setStar(h) ==
    /\ Free
    /\ \E u \in Listeners, b \in BOOLEAN :
        /\ Begin(h, [op |-> "star", user |-> u, id |-> album, value |-> b, at |-> "commit"])
        /\ pending' = [pending EXCEPT ![u] = TRUE]
    /\ writer' = h
    /\ UNCHANGED <<album, ann, average, view, readEarly, renamed, dataFaults>>

CommitStar(h) ==
    LET j == handling[h]
    IN  /\ j.op = "star"
        /\ ann' = [ann EXCEPT ![j.id][j.user] = [RowOf(j.id, j.user) EXCEPT !.starred = j.value]]
        /\ AnnGoes(h, NoRequest) /\ writer' = NoAnn
        /\ AnnotationStep /\ UNCHANGED <<average, view, pending, dataFaults>>

\* A play is counted in the row, which is made when there is none.
IncPlayCount ==
    /\ Free /\ requests < MaxRequests /\ requests' = requests + 1
    /\ \E u \in Listeners : ann' = [ann EXCEPT ![album][u] = [RowOf(album, u) EXCEPT !.plays = @ + 1]]
    /\ UNCHANGED <<album, average, handling, writer, view, pending, readEarly, renamed, dataFaults>>

\* A client reads what it shows once more.
ClientRefreshes(u) ==
    /\ pending[u] /\ pending' = [pending EXCEPT ![u] = FALSE]
    /\ view' = [view EXCEPT ![u] = Seen(u)]
    /\ readEarly' = (readEarly \/ \E h \in Handlers : handling[h].op = "star" /\ handling[h].user = u)
    /\ UNCHANGED <<album, ann, average, handling, writer, renamed, requests, dataFaults>>

\* A scan gives the album a new id and takes the annotations along, unless
\* someone has annotated the new one already; the average stays behind.
ReassignAnnotation ==
    /\ Free /\ album = "old" /\ album' = "new" /\ renamed' = TRUE
    /\ ann' = IF \E u \in Listeners : ann["old"][u] # NoAnn /\ ann["new"][u] # NoAnn THEN ann
              ELSE [ann EXCEPT !["new"] = [u \in Listeners |-> IF ann["old"][u] # NoAnn THEN ann["old"][u] ELSE ann["new"][u]],
                               !["old"] = [u \in Listeners |-> NoAnn]]
    /\ UNCHANGED <<average, handling, writer, view, pending, readEarly, requests, dataFaults>>

\* A statement of a rating fails.
RatingFails(h) ==
    /\ handling[h].op = "rate" /\ handling[h].at # "event" /\ dataFaults < MaxDataFaults /\ dataFaults' = dataFaults + 1
    /\ AnnGoes(h, NoRequest)
    /\ AnnotationStep /\ UNCHANGED <<ann, average, writer, view, pending>>

UserDataNext ==
    \/ \E h \in Handlers :
        SetRating(h) \/ annUpsert(h) \/ updateAvgRating(h) \/ RatingEvent(h) \/ setStar(h) \/ CommitStar(h) \/ RatingFails(h)
    \/ \E u \in Listeners : ClientRefreshes(u)
    \/ IncPlayCount \/ ReassignAnnotation

UserDataSpec == UserDataInit /\ [][UserDataNext]_userDataVars

-----------------------------------------------------------------------------
(* Properties                                                                *)

Resting == \A h \in Handlers : handling[h] = NoRequest

\* Between requests the average is that of the ratings, although users rate at
\* the same time and a row may be inserted beside a rating; unless a statement
\* failed or the album changed its id.
AverageFollowsRatings == Resting /\ dataFaults = 0 /\ ~renamed => average[album] = AverageOf(ann[album])

\* A client that was told to read again shows what is stored, unless it read
\* between a star's event and its commit, or a statement failed.
ClientsCatchUp ==
    Resting /\ ~readEarly /\ ~renamed /\ dataFaults = 0 => \A u \in Listeners : ~pending[u] => view[u] = Seen(u)

\* What users keep, their stars, ratings and play queues, is what their requests
\* left, and clients that were told to read again see it.
UserDataIsCoherent == AverageFollowsRatings /\ ClientsCatchUp /\ QueueIsCoherent
=============================================================================
