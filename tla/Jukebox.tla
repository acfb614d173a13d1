------------------------------- MODULE Jukebox -------------------------------
(***************************************************************************)
(* The jukebox: a device with a queue of songs, the mpv process of the      *)
(* track it has loaded, requests of several clients and the goroutine that  *)
(* moves to the next song.  Nothing of it is locked.  Loading a track may   *)
(* take seconds (core/playback/mpv/track.go waits for a socket), so it is   *)
(* the step at which requests and the switcher interleave; the rest of a    *)
(* request is one step.                                                     *)
(***************************************************************************)
EXTENDS Integers, Sequences, SequencesExt, FiniteSets

CONSTANTS Songs,        \* media files, named by their ids
          Unknown,      \* an id the database does not know
          Clients,      \* concurrent jukeboxControl requests that may be made
          Switcher,     \* the trackSwitcher goroutine
          Gains,        \* values of the volume
          DefaultGain,
          MaxTracks,    \* bound on the mpv processes started
          MaxControls,  \* bound on the requests made
          MaxItems      \* bound on the length of the queue

ASSUME JukeboxAssumption == MaxTracks \in Nat /\ MaxControls \in Nat /\ MaxItems \in Nat

VARIABLES items,    \* Queue.Items
          index,    \* Queue.Index
          gain,     \* playbackDevice.Gain
          active,   \* playbackDevice.ActiveTrack: a track, 0 for nil
          tracks,   \* every MpvTrack made
          done,     \* tracks whose goroutine is sending on PlaybackDone
          switching,\* the trackSwitcher goroutine runs
          loading,  \* per actor, the track it is waiting for
          controls, \* how many requests were made
          overlap   \* two actors were loading a track at once (history)

jukeVars == <<items, index, gain, active, tracks, done, switching, loading,
              controls, overlap>>
device == <<gain, active, tracks, done, switching>>

NoLoad == [song |-> Unknown, play |-> FALSE]
Loaders == Clients \cup {Switcher}
TrackRuns(t) == tracks[t].alive /\ ~tracks[t].closed
TrackPlays(t) == TrackRuns(t) /\ ~tracks[t].paused

JukeboxInit ==
  /\ items = <<>> /\ index = -1 /\ gain = DefaultGain /\ active = 0
  /\ tracks = <<>> /\ done = {} /\ switching = FALSE
  /\ loading = [a \in Loaders |-> NoLoad]
  /\ controls = 0 /\ overlap = FALSE

-----------------------------------------------------------------------------
(* The queue. *)

SetIndex(i) ==
  LET last == Len(items) - 1
      low  == IF i < last THEN i ELSE last
  IN  IF low < 0 THEN 0 ELSE low

IsAtLastElement == index + 1 >= Len(items)

\* The song at the index, the unknown one where the code returns nil.
CurrentSong == IF index \in 0..Len(items) - 1 THEN items[index + 1] ELSE Unknown

\* A queue's index after its items were rearranged: that of the first item
\* with the current song's id, -1 when there is none.
getMediaFileIndexByID(queue, song) ==
  LET at == {k \in DOMAIN queue : queue[k] = song}
  IN  IF at = {} THEN -1 ELSE (CHOOSE k \in at : \A j \in at : k <= j) - 1

Rearranged(queue) ==
  items' = queue /\ index' = getMediaFileIndexByID(queue, CurrentSong)

-----------------------------------------------------------------------------
(* The tracks. *)

PausedTrack(t)  == [tracks EXCEPT ![t].paused = TRUE]
ResumedTrack(t) == [tracks EXCEPT ![t].paused = FALSE]

CloseTrack_Quits(t) == [tracks EXCEPT ![t].alive = FALSE]

\* Close tells mpv to quit and marks the track, so that its goroutine does not
\* take the closed connection for the end of the song.
CloseTrack(t) == [tracks EXCEPT ![t].closed = TRUE, ![t].alive = FALSE]

\* switchActiveTrackByIndex up to the wait for mpv.
BeginLoading(a, song, play) ==
  /\ Len(tracks) + Cardinality({b \in Loaders : loading[b] # NoLoad}) < MaxTracks
  /\ loading' = [loading EXCEPT ![a] = [song |-> song, play |-> play]]
  /\ overlap' = (overlap \/ \E b \in Loaders \ {a} : loading[b] # NoLoad)

TrackLoaded_DefaultVolume(a) ==
  /\ loading[a] # NoLoad
  /\ tracks' = Append(tracks, [song |-> loading[a].song, volume |-> DefaultGain,
                 paused |-> ~loading[a].play, alive |-> TRUE, closed |-> FALSE])
  /\ active' = Len(tracks')
  /\ loading' = [loading EXCEPT ![a] = NoLoad]
  /\ switching' = (switching \/ loading[a].play)
  /\ UNCHANGED <<items, index, gain, done, controls, overlap>>

\* mpv answers: the track becomes the active one, at the device's volume, and
\* is resumed when the request or the switcher wants it to play.
TrackLoaded(a) ==
  /\ loading[a] # NoLoad
  /\ tracks' = Append(tracks, [song |-> loading[a].song, volume |-> gain,
                 paused |-> ~loading[a].play, alive |-> TRUE, closed |-> FALSE])
  /\ active' = Len(tracks')
  /\ loading' = [loading EXCEPT ![a] = NoLoad]
  /\ switching' = (switching \/ loading[a].play)
  /\ UNCHANGED <<items, index, gain, done, controls, overlap>>

\* mpv cannot be started, or its socket does not appear in three seconds.
LoadingFails(a) ==
  /\ loading[a] # NoLoad
  /\ loading' = [loading EXCEPT ![a] = NoLoad]
  /\ UNCHANGED <<items, index, gain, active, tracks, done, switching, controls, overlap>>

\* mpv reaches the end of the song and quits.
SongEnds(t) ==
  /\ TrackPlays(t)
  /\ tracks' = [tracks EXCEPT ![t].alive = FALSE]
  /\ UNCHANGED <<items, index, gain, active, done, switching, loading, controls, overlap>>

\* The track's goroutine finds the connection closed, by the end of the song,
\* and waits to hand the news to the switcher.
SignalDone(t) ==
  /\ ~tracks[t].alive /\ ~tracks[t].closed /\ t \notin done
  /\ done' = done \cup {t}
  /\ UNCHANGED <<items, index, gain, active, tracks, switching, loading, controls, overlap>>

-----------------------------------------------------------------------------
(* The switcher takes a signal, from whichever track it is: it closes the   *)
(* active track and goes on with the next song of the queue.                *)

TakesSignal(t) ==
  /\ switching /\ loading[Switcher] = NoLoad
  /\ t \in done /\ done' = done \ {t}

SwitchTrack_ForgetsActive(t) ==
  /\ TakesSignal(t)
  /\ tracks' = [tracks EXCEPT ![t].closed = TRUE]
  /\ active' = 0
  /\ IF IsAtLastElement
     THEN UNCHANGED <<index, loading, overlap>>
     ELSE /\ index' = SetIndex(index + 1)
          /\ BeginLoading(Switcher, items[index' + 1], TRUE)
  /\ UNCHANGED <<items, gain, switching, controls>>

SwitchTrack(t) ==
  /\ TakesSignal(t)
  /\ LET closed == IF active = 0 THEN tracks ELSE CloseTrack(active)
         ended  == [closed EXCEPT ![t].closed = TRUE]   \* it signals once
     IN  tracks' = ended
  /\ active' = 0
  /\ IF IsAtLastElement
     THEN UNCHANGED <<index, loading, overlap>>
     ELSE /\ index' = SetIndex(index + 1)
          /\ BeginLoading(Switcher, items[index' + 1], TRUE)
  /\ UNCHANGED <<items, gain, switching, controls>>

-----------------------------------------------------------------------------
(* The requests of jukeboxControl, from a client whose previous one ended.  *)

JukeboxRequest(c) == loading[c] = NoLoad /\ controls < MaxControls /\ controls' = controls + 1

\* Start resumes the active track, or loads the song at the index.
Start(c) ==
  /\ JukeboxRequest(c)
  /\ switching' = TRUE
  /\ CASE active # 0 -> tracks' = ResumedTrack(active) /\ UNCHANGED <<index, loading, overlap>>
       [] active = 0 /\ items = <<>> -> UNCHANGED <<index, tracks, loading, overlap>>
       [] OTHER -> /\ index' = SetIndex(index)
                   /\ BeginLoading(c, items[index' + 1], TRUE)
                   /\ UNCHANGED tracks
  /\ UNCHANGED <<items, gain, active, done>>

StopPlaying(c) ==
  /\ JukeboxRequest(c)
  /\ tracks' = IF active = 0 THEN tracks ELSE PausedTrack(active)
  /\ UNCHANGED <<items, index, gain, active, done, switching, loading, overlap>>

\* Skip to another song closes the active track and loads the new one, which
\* plays if the old one did; a skip within the song only moves the position,
\* and when mpv refuses that the song stays paused.
Skip(c, i) ==
  /\ JukeboxRequest(c)
  /\ LET played == active # 0 /\ TrackPlays(active)
     IN  IF active # 0 /\ i = index
         THEN /\ tracks' \in IF played THEN {tracks, PausedTrack(active)} ELSE {tracks}
              /\ switching' = (switching \/ (played /\ tracks' = tracks))
              /\ UNCHANGED <<index, active, loading, overlap>>
         ELSE /\ tracks' = IF active = 0 THEN tracks ELSE CloseTrack(active)
              /\ active' = 0
              /\ index' = SetIndex(i)
              /\ UNCHANGED switching
              /\ IF items = <<>>
                 THEN UNCHANGED <<loading, overlap>>     \* "could not get current track"
                 ELSE BeginLoading(c, items[index' + 1], played)
  /\ UNCHANGED <<items, gain, done>>

\* Add looks up every id before it adds any.
Add(c, ids) ==
  /\ JukeboxRequest(c)
  /\ IF \E k \in DOMAIN ids : ids[k] = Unknown
     THEN UNCHANGED <<items, index>>
     ELSE /\ Len(items) + Len(ids) <= MaxItems
          /\ items' = items \o ids
          /\ index' = IF index = -1 /\ items' # <<>> THEN 0 ELSE index
  /\ UNCHANGED <<gain, active, tracks, done, switching, loading, overlap>>

ClearDevice ==
  /\ tracks' = IF active = 0 THEN tracks ELSE CloseTrack(active)
  /\ active' = 0

Clear(c) ==
  /\ JukeboxRequest(c)
  /\ ClearDevice
  /\ items' = <<>> /\ index' = -1
  /\ UNCHANGED <<gain, done, switching, loading, overlap>>

RemoveSong_KeepsIndex(c, i) ==
  /\ JukeboxRequest(c)
  /\ tracks' = IF active # 0 /\ TrackPlays(active) /\ i = index THEN PausedTrack(active) ELSE tracks
  /\ items' = IF i \in 0..Len(items) - 1 THEN RemoveAt(items, i + 1) ELSE items
  /\ UNCHANGED <<index, gain, active, done, switching, loading, overlap>>

\* Set clears the queue, whatever becomes of the ids.
Set(c, ids) ==
  /\ JukeboxRequest(c)
  /\ ClearDevice
  /\ items' = IF \E k \in DOMAIN ids : ids[k] = Unknown THEN <<>> ELSE ids
  /\ index' = IF items' = <<>> THEN -1 ELSE 0
  /\ UNCHANGED <<gain, done, switching, loading, overlap>>

RemoveSong(c, i) ==
  /\ JukeboxRequest(c)
  /\ tracks' = IF active # 0 /\ TrackPlays(active) /\ i = index THEN PausedTrack(active) ELSE tracks
  /\ IF i \in 0..Len(items) - 1
     THEN LET rest == RemoveAt(items, i + 1)
          IN  /\ items' = rest
              /\ index' = IF CurrentSong = Unknown THEN -1
                          ELSE getMediaFileIndexByID(rest, CurrentSong)
     ELSE UNCHANGED <<items, index>>
  /\ UNCHANGED <<gain, active, done, switching, loading, overlap>>

Shuffle(c) ==
  /\ JukeboxRequest(c)
  /\ IF Len(items) > 1
     THEN \E p \in Bijection(DOMAIN items, DOMAIN items) : Rearranged([k \in DOMAIN items |-> items[p[k]]])
     ELSE UNCHANGED <<items, index>>
  /\ UNCHANGED <<gain, active, tracks, done, switching, loading, overlap>>

SetGain(c, g) ==
  /\ JukeboxRequest(c)
  /\ gain' = g
  /\ tracks' = IF active # 0 /\ TrackRuns(active)
               THEN [tracks EXCEPT ![active].volume = g] ELSE tracks
  /\ UNCHANGED <<items, index, active, done, switching, loading, overlap>>

JukeboxControl(c) ==
  \/ Start(c) \/ StopPlaying(c) \/ Clear(c) \/ Shuffle(c)
  \/ \E i \in -1..MaxItems : Skip(c, i) \/ RemoveSong(c, i)
  \/ \E ids \in {<<>>, <<Unknown>>} \cup {<<s>> : s \in Songs}
                \cup {<<s, t>> : s \in Songs, t \in Songs} : Add(c, ids) \/ Set(c, ids)
  \/ \E g \in Gains : SetGain(c, g)

SwitcherSteps ==
  \/ \E t \in done : SwitchTrack(t)
  \/ TrackLoaded(Switcher) \/ LoadingFails(Switcher)

JukeboxNext ==
  \/ \E c \in Clients : JukeboxControl(c) \/ TrackLoaded(c) \/ LoadingFails(c)
  \/ SwitcherSteps
  \/ \E t \in DOMAIN tracks : SongEnds(t) \/ SignalDone(t)

JukeboxSpec == JukeboxInit /\ [][JukeboxNext]_jukeVars

-----------------------------------------------------------------------------
(* The index is that of an item, or -1; a skip on an empty queue leaves the  *)
(* 0 that SetIndex makes of it, which CurrentSong answers with nil.  The active *)
(* track is one that was made and not closed.                               *)
JukeboxTypeOK ==
  /\ index \in -1..MaxItems
  /\ index < Len(items) \/ (items = <<>> /\ index = 0)
  /\ active \in 0..Len(tracks)
  /\ active # 0 => ~tracks[active].closed
  /\ done \subseteq DOMAIN tracks

(* Whatever plays can be stopped: the device plays one song at a time, the  *)
(* active track's, unless two actors were loading a track at once (then the *)
(* first one's is overwritten without being closed).                        *)
OnlyTheActivePlays ==
  ~overlap => \A t \in DOMAIN tracks : TrackPlays(t) => t = active

(* The device's volume is what is heard, also by a track that was loading    *)
(* while the volume changed (SetGain, switchActiveTrackByIndex).            *)
PlaysAtTheGain ==
  active # 0 /\ TrackRuns(active) => tracks[active].volume = gain

(* The switcher cuts a song that still plays only for a signal that was     *)
(* already being sent when a request closed its track: CloseCalled, read    *)
(* once, does not call the signal back.                                     *)
CutOnlyByALateSignal ==
  [][\A t \in done : t \notin done' /\ active # 0 /\ t # active
       => overlap \/ tracks[t].closed]_jukeVars

(* One song is heard at a time, at the device's volume, and to its end,      *)
(* whatever requests, ends of songs and loads cross.                         *)
JukeboxPlaysOneSong == [](OnlyTheActivePlays /\ PlaysAtTheGain) /\ CutOnlyByALateSignal
=============================================================================
