---------------------------- MODULE ExternalInfo ----------------------------
(* What agents (Last.fm and others) know of an artist or album is kept in     *)
(* columns of its row, with the time it was fetched.  A request fetches it     *)
(* when there is none; when it has expired the request answers with what there *)
(* is and leaves a copy of the row to a worker, which fetches again.  A fetch   *)
(* is cut short when its client leaves or its time is up.                      *)
EXTENDS Integers, Sequences, FiniteSets

CONSTANTS
    Askers,         \* requests that may run at once
    EnabledAgents,  \* the agents in the configured order, the local one last
    Capable,        \* [agents -> what each can be asked for]
    Similar,        \* the artists the agents find similar, the most similar first
    Blank,
    MaxCopies,      \* bound: refreshQueueLength
    MaxInfoFaults,  \* bound: agents and statements that fail
    MaxExpiries,    \* bound: times the information expires
    MaxCuts         \* bound: fetches cut short

Fields == <<"image", "bio", "url", "similar">>
FieldNames == {"image", "bio", "url", "similar"}
Agents == {EnabledAgents[i] : i \in DOMAIN EnabledAgents}
Names == {Similar[i] : i \in DOMAIN Similar}

\* An agent names an artist once.
ASSUME ExternalAssumption ==
    /\ EnabledAgents \in Seq(Agents)
    /\ Similar \in Seq(Names) /\ \A i, j \in DOMAIN Similar : Similar[i] = Similar[j] => i = j
    /\ Blank # "known" /\ Blank \notin Names /\ "worker" \notin Askers
    /\ Blank \notin Seq([name : Names, id : Names \cup {Blank}])
    /\ MaxCopies \in Nat /\ MaxInfoFaults \in Nat /\ MaxExpiries \in Nat /\ MaxCuts \in Nat

VARIABLES
    kind,       \* the entity: "artist" or "album"
    infoRow,    \* its columns: [stamp, info: the fields]
    present,    \* the similar artists that are in the library
    fetches,    \* [Askers and "worker" -> fetch in progress]
    copies,     \* refreshQueue: copies of the row
    erased,     \* history: a copy no older than the row lost a field's value
    reply,      \* the similar artists replied by the last step
    infoFaults, expiries, cuts

externalVars == <<kind, infoRow, present, fetches, copies, erased, reply, infoFaults, expiries, cuts>>

Everyone == Askers \cup {"worker"}
NoRow == [stamp |-> "none", info |-> [k \in FieldNames |-> Blank]]
NotFetching == [at |-> "idle", copy |-> NoRow, old |-> FALSE, left |-> <<>>, cut |-> FALSE, retry |-> FALSE]

-----------------------------------------------------------------------------
(* Agents                                                                     *)

\* Enabled agents are asked in order until one answers; one that fails is
\* passed over, and nothing more is asked once the request is cut.
Answering(field, failing) == {i \in DOMAIN EnabledAgents : field \in Capable[EnabledAgents[i]] /\ EnabledAgents[i] \notin failing}
callAgentMethod(field, failing, cut) == IF cut THEN FALSE ELSE Answering(field, failing) # {}

\* By id, MusicBrainz id or name, an artist is found in the library or not.
Sublist(s, kept) == [n \in 1..Cardinality(kept) |-> s[CHOOSE i \in kept : Cardinality({k \in kept : k <= i}) = n]]
loadArtists(here, found) == Sublist(Similar, {i \in DOMAIN Similar : (Similar[i] \in here) = found})

\* Similar artists found in the library keep their id, those that are not come
\* after them, without one.
Entry(n, found) == [name |-> n, id |-> IF found THEN n ELSE Blank]
mapSimilarArtists(here) ==
    [i \in DOMAIN loadArtists(here, TRUE) |-> Entry(loadArtists(here, TRUE)[i], TRUE)]
    \o [i \in DOMAIN loadArtists(here, FALSE) |-> Entry(loadArtists(here, FALSE)[i], FALSE)]

\* Of the stored ones, those the library still has, and the others when asked
\* for, without id, up to the number asked for.
loadSimilar(list, count, includeNotPresent) ==
    LET stored == IF list = Blank THEN <<>> ELSE list
        all == Sublist(stored, {i \in DOMAIN stored : stored[i].id \in present \/ includeNotPresent})
        Loaded(e) == [e EXCEPT !.id = IF e.id \in present THEN e.id ELSE Blank]
    IN  [i \in 1..(IF Len(all) < count THEN Len(all) ELSE count) |-> Loaded(all[i])]

-----------------------------------------------------------------------------
ExternalInit ==
    /\ kind \in {"artist", "album"}
    /\ infoRow = NoRow
    /\ \E here \in SUBSET Names : present = here
    /\ fetches = [a \in Everyone |-> NotFetching]
    /\ copies = <<>> /\ erased = FALSE /\ reply = <<>>
    /\ infoFaults = 0 /\ expiries = 0 /\ cuts = 0

\* An artist's four fields; an album's description with its address, and images.
Wanted == IF kind = "artist" THEN Fields ELSE <<"bio", "image">>
Starts(copy, old, retry) == [at |-> "gather", copy |-> copy, old |-> old, left |-> Wanted, cut |-> FALSE, retry |-> retry]

\* A full queue drops the request: it is made again by the next reader.
enqueue(copy, old) == copies' = IF Len(copies) < MaxCopies THEN Append(copies, [copy |-> copy, old |-> old]) ELSE copies

Replies(r) == \E count \in {1, Len(Similar)}, all \in BOOLEAN : reply' = loadSimilar(r.info["similar"], count, all)

\* A request for the information: fetched now, taken as it is, or taken as it
\* is and fetched by the worker.
UpdateInfo(a) ==
    /\ fetches[a] = NotFetching
    /\ \/ /\ infoRow.stamp = "none"
          /\ fetches' = [fetches EXCEPT ![a] = Starts(infoRow, FALSE, TRUE)]
          /\ reply' = <<>> /\ UNCHANGED copies
       \/ /\ infoRow.stamp # "none" /\ kind = "artist"
          /\ Replies(infoRow)
          /\ IF infoRow.stamp = "expired" THEN enqueue(infoRow, FALSE) ELSE UNCHANGED copies
          /\ UNCHANGED fetches
       \/ /\ infoRow.stamp = "expired" /\ kind = "album"
          /\ enqueue(infoRow, FALSE) /\ reply' = <<>> /\ UNCHANGED fetches
    /\ UNCHANGED <<kind, infoRow, present, erased, infoFaults, expiries, cuts>>

\* A field's answer; an album's description comes with its address.
Answer(field) == IF field = "similar" THEN mapSimilarArtists(present) ELSE "known"
Filled(copy, field) ==
    [copy EXCEPT !.info = [k \in FieldNames |-> IF k = field \/ (kind = "album" /\ field = "bio" /\ k = "url") THEN Answer(k) ELSE copy.info[k]]]
Dropped(list, i) == SubSeq(list, 1, i - 1) \o SubSeq(list, i + 1, Len(list))

\* Mutant: without an answer the field is emptied.
callGet_Empties(a) ==
    LET f == fetches[a]
    IN  /\ f.at = "gather" /\ f.left # <<>>
        /\ \E failing \in SUBSET Agents :
            /\ infoFaults + Cardinality(failing) <= MaxInfoFaults /\ infoFaults' = infoFaults + Cardinality(failing)
            /\ fetches' = [fetches EXCEPT ![a] =
                 [f EXCEPT !.left = Tail(@), !.copy = IF callAgentMethod(Head(f.left), failing, f.cut) THEN Filled(@, Head(f.left))
                                                      ELSE [@ EXCEPT !.info[Head(f.left)] = Blank]]]
        /\ reply' = <<>> /\ UNCHANGED <<kind, infoRow, present, copies, erased, expiries, cuts>>

\* An agent's answer goes to the copy; without one the field stays.  At most
\* two of an artist's fields are being asked for at a time, in the order of the
\* fields; an album's images are asked for after its description, and only if
\* there is one.
callGet(a) ==
    LET f == fetches[a]
    IN  /\ f.at = "gather" /\ f.left # <<>>
        /\ \E i \in 1..(IF kind = "artist" /\ Len(f.left) > 1 THEN 2 ELSE 1), failing \in SUBSET Agents :
            LET field == f.left[i]
                found == callAgentMethod(field, failing, f.cut)
            IN  /\ infoFaults + Cardinality(failing) <= MaxInfoFaults /\ infoFaults' = infoFaults + Cardinality(failing)
                /\ fetches' = [fetches EXCEPT ![a] =
                     IF kind = "album" /\ field = "bio" /\ ~found THEN [f EXCEPT !.left = <<>>, !.at = "finish"]
                     ELSE [f EXCEPT !.left = Dropped(@, i), !.copy = IF found THEN Filled(@, field) ELSE @]]
        /\ reply' = <<>> /\ UNCHANGED <<kind, infoRow, present, copies, erased, expiries, cuts>>

\* Everything was asked for: the copy is stamped and written, unless the fetch
\* was cut; a statement under a cut context fails as well.  A write that fails
\* is logged, the client gets the information all the same.
UpdateExternalInfo(a) ==
    LET f == fetches[a]
        new == [f.copy EXCEPT !.stamp = "fresh"]
        done == [f EXCEPT !.at = "finish", !.copy = new]
        Loses(k) == infoRow.info[k] # Blank /\ new.info[k] = Blank
    IN  /\ f.at = "gather" /\ f.left = <<>>
        /\ \/ /\ f.cut
              /\ fetches' = [fetches EXCEPT ![a] = IF kind = "artist" THEN NotFetching ELSE done]
              /\ UNCHANGED <<infoRow, copies, erased, infoFaults>>
           \/ /\ ~f.cut
              /\ infoRow' = new
              /\ erased' = (erased \/ (~f.old /\ \E k \in FieldNames : Loses(k)))
              /\ fetches' = [b \in Everyone |-> IF b = a THEN done ELSE IF fetches[b] = NotFetching THEN NotFetching ELSE [fetches[b] EXCEPT !.old = TRUE]]
              /\ copies' = [i \in DOMAIN copies |-> [copies[i] EXCEPT !.old = TRUE]]
              /\ UNCHANGED infoFaults
           \/ /\ ~f.cut /\ infoFaults < MaxInfoFaults /\ infoFaults' = infoFaults + 1
              /\ fetches' = [fetches EXCEPT ![a] = done]
              /\ UNCHANGED <<infoRow, copies, erased>>
        /\ reply' = <<>> /\ UNCHANGED <<kind, present, expiries, cuts>>

\* The request that fetched compares the time it read before the fetch, none,
\* with the time to live: the worker fetches again.
Finish(a) ==
    LET f == fetches[a]
    IN  /\ f.at = "finish"
        /\ IF f.retry THEN enqueue(f.copy, f.old) ELSE UNCHANGED copies
        /\ IF f.retry /\ kind = "artist"
           THEN Replies(f.copy)
           ELSE reply' = <<>>
        /\ fetches' = [fetches EXCEPT ![a] = NotFetching]
        /\ UNCHANGED <<kind, infoRow, present, erased, infoFaults, expiries, cuts>>

\* After the delay the worker takes the oldest copy.
WorkerTakes ==
    /\ fetches["worker"] = NotFetching /\ copies # <<>>
    /\ fetches' = [fetches EXCEPT !["worker"] = Starts(Head(copies).copy, Head(copies).old, FALSE)]
    /\ copies' = Tail(copies)
    /\ reply' = <<>> /\ UNCHANGED <<kind, infoRow, present, erased, infoFaults, expiries, cuts>>

\* The client leaves, or the worker's fifteen seconds, some of which it may
\* have spent waiting for a copy, are up.
Cut(a) ==
    /\ cuts < MaxCuts /\ fetches[a].at = "gather" /\ ~fetches[a].cut
    /\ fetches' = [fetches EXCEPT ![a].cut = TRUE] /\ cuts' = cuts + 1
    /\ UNCHANGED <<kind, infoRow, present, copies, erased, reply, infoFaults, expiries>>

Expire ==
    /\ infoRow.stamp = "fresh" /\ expiries < MaxExpiries
    /\ infoRow' = [infoRow EXCEPT !.stamp = "expired"] /\ expiries' = expiries + 1
    /\ reply' = <<>> /\ UNCHANGED <<kind, present, fetches, copies, erased, infoFaults, cuts>>

\* A scan removes a similar artist.
ArtistLeaves ==
    /\ kind = "artist" /\ \E n \in present : present' = present \ {n}
    /\ reply' = <<>>
    /\ UNCHANGED <<kind, infoRow, fetches, copies, erased, infoFaults, expiries, cuts>>

Step(a) == callGet(a) \/ UpdateExternalInfo(a) \/ Finish(a)

ExternalNext ==
    \/ \E a \in Everyone : Step(a) \/ Cut(a)
    \/ \E a \in Askers : UpdateInfo(a)
    \/ WorkerTakes \/ Expire \/ ArtistLeaves

ExternalSpec == ExternalInit /\ [][ExternalNext]_externalVars

-----------------------------------------------------------------------------
(* Properties                                                                *)

\* Information that counts as fetched is whole: what the agents know is there,
\* although fetches are cut, run beside each other and end in any order, as
\* long as no agent and no statement failed.
FetchedIsWhole ==
    infoRow.stamp # "none" /\ infoFaults = 0 =>
        \A i \in DOMAIN Wanted : (\E k \in DOMAIN EnabledAgents : Wanted[i] \in Capable[EnabledAgents[k]]) => infoRow.info[Wanted[i]] # Blank

\* An agent that fails costs nothing that was known: a field loses its value
\* only to a copy made before the row was written.
KnownIsKept == ~erased

\* The similar artists in a reply that carry an id are in the library, those
\* the library lacks carry none, and nobody is listed twice.
SimilarAreHere ==
    \A i, j \in DOMAIN reply :
        /\ reply[i].id # Blank => reply[i].id \in present
        /\ i # j => reply[i].name # reply[j].name

\* External information that is served is whole, is not lost to a failing agent,
\* and refers to artists of the library.
InfoIsKept == FetchedIsWhole /\ KnownIsKept /\ SimilarAreHere

=============================================================================
