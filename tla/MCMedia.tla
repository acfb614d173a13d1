------------------------------ MODULE MCMedia ------------------------------
(* What keeps plays, files, processes and rows in step with each other.  The *)
(* components share no state: `part` picks one of Parts, the others keep a   *)
(* fixed initial state.                                                      *)
EXTENDS BufferedScrobbler, PlayTracker, LibraryWatchers, ImageStore, Transcoding, Jukebox, MediaEditing, TLC

CONSTANTS
    Parts,                       \* the components of the run
    u1, u2, m1, m2,              \* users and songs
    r1, r2, r3, r4,              \* calls of Scrobble
    trackA, trackB,              \* what a client plays
    start, play, stop, stopB     \* its reports

VARIABLE part

playVars == <<vars, trackerVars>>
fileVars == <<libVars, imageVars, streamVars, jukeVars, editVars>>

\* r1 and r2 are the same play of u1, submitted twice by the client (the table's
\* unique key lets one in at a time); r3 is an older play of u1; r4 one of u2.
FourUsers == [r \in Rows |-> IF r = r4 THEN u2 ELSE u1]
FourSongs == [r \in Rows |-> IF r = r3 THEN m2 ELSE m1]
FourTimes == [r \in Rows |-> IF r \in {r1, r2} THEN 2 ELSE 1]

\* The reports of one client for two tracks, running in any order.
ReportTracks == [r \in Reports |-> IF r = stopB THEN trackB ELSE trackA]
ReportedStates == [r \in Reports |-> IF r = start THEN "starting" ELSE IF r = play THEN "playing" ELSE "stopped"]
PastThreshold == Reports \cap {stop}

TwoSidecars == <<".lrc", ".txt">>

MediaInit ==
    /\ part \in Parts
    /\ Init /\ TrackerInit
    /\ LibraryInit /\ ImageInit /\ TranscodingInit /\ JukeboxInit /\ EditingInit
    /\ part # "libraries" => library = [l \in LibIds |-> NoPath]
    /\ part # "images" => \E h \in Hashes : source = [i \in ArtItems |-> [bytes |-> h, mtime |-> 0]] /\ h \in Codecless
    /\ part # "transcoding" => \A r \in Requests : ask[r].user = Anonymous
    /\ part # "editing" => text = [p \in Places |-> NoText]

MediaNext ==
    /\ \/ part = "scrobbles" /\ Next /\ UNCHANGED <<trackerVars, fileVars>>
       \/ part = "sessions" /\ TrackerNext /\ UNCHANGED <<vars, fileVars>>
       \/ /\ part = "libraries" /\ LibraryNext
          /\ UNCHANGED <<playVars, imageVars, streamVars, jukeVars, editVars>>
       \/ /\ part = "images" /\ ImageNext
          /\ UNCHANGED <<playVars, libVars, streamVars, jukeVars, editVars>>
       \/ /\ part = "transcoding" /\ TranscodingNext
          /\ UNCHANGED <<playVars, libVars, imageVars, jukeVars, editVars>>
       \/ /\ part = "jukebox" /\ JukeboxNext
          /\ UNCHANGED <<playVars, libVars, imageVars, streamVars, editVars>>
       \/ /\ part = "editing" /\ EditingNext
          /\ UNCHANGED <<playVars, libVars, imageVars, streamVars, jukeVars>>
    /\ UNCHANGED part

mediaVars == <<playVars, fileVars, part>>

MediaSpec == MediaInit /\ [][MediaNext]_mediaVars

\* The fairness of the two that have one; the scrobbler's worker in its own part.
FairPlaybackSpec ==
    /\ MediaSpec
    /\ WF_vars(part = "scrobbles" /\ run) /\ \A r \in Rows : WF_vars(sendWakeSignal(r))
    /\ TrackerFairness
=============================================================================
