---------------------------- MODULE MediaEditing ----------------------------
(***************************************************************************)
(* An administrator's changes to a song's file: its tags, embedded image    *)
(* and lyrics, the lyrics files beside it, and its deletion                 *)
(* (core/maintenance.go over core/storage/local/local.go).  Several edits   *)
(* may be asked for at once, other programs write to the same files, the    *)
(* scanner follows, and any step may fail or be the last before a crash.    *)
(***************************************************************************)
EXTENDS Integers, Sequences, FiniteSets

CONSTANTS
    Editors,      \* requests of administrators
    Texts,        \* contents of lyrics
    Sidecars,     \* extensions of the files beside the song, in the order of their removal
    NoText,       \* no such file or tag; its version is ""
    NoEdit,       \* the editor is idle
    MaxEdits,     \* bound: edits asked for
    MaxForeign,   \* bound: writes of other programs
    MaxEditFaults     \* bound: failed steps and crashes

Extensions == {Sidecars[i] : i \in DOMAIN Sidecars}
Places == Extensions \cup {"embedded"}

EditStages == {"waits", "locked", "staged", "refresh", "mark", "purge"}

\* An edit in progress: an extension as its step is that of the file it removes next.
EditWork == [step : EditStages \cup Extensions, kind : {"tags", "image", "lyrics", "deleteLyrics", "remove"},
             place : Places, new : Texts \cup {NoText}, copy : Texts \cup {NoText}]

ASSUME EditingAssumption ==
    /\ Sidecars \in Seq(STRING) /\ Sidecars # <<>>
    /\ \A i, j \in DOMAIN Sidecars : Sidecars[i] = Sidecars[j] => i = j
    /\ "embedded" \notin Extensions /\ Extensions \cap EditStages = {}
    /\ NoText \notin Texts /\ NoEdit \notin Editors /\ NoEdit \notin EditWork
    /\ MaxEdits \in Nat /\ MaxForeign \in Nat /\ MaxEditFaults \in Nat

VARIABLES
    onDisk,      \* the song's file exists
    stamp,       \* its size and modification time, counted
    text,        \* [Places -> Texts \cup {NoText}]: what is on disk
    row,         \* the song in the database: [exists, missing, stamp]
    hash,        \* the folder's hash at its last scan: [onDisk, stamp]
    loaded,      \* [Editors -> [Places -> ...]]: what each editor's screen shows
    edit,        \* [Editors -> edit in progress]
    metadataMu,  \* the editor that holds the mutex, NoEdit for none
    raced,       \* editors during whose edit another program wrote (history)
    undone,      \* another program put the file back during its removal (history)
    edits, foreign, editFaults

editVars == <<onDisk, stamp, text, row, hash, loaded, edit, metadataMu,
              raced, undone, edits, foreign, editFaults>>
diskVars == <<onDisk, stamp, text>>

EditingInit ==
    /\ onDisk = TRUE /\ stamp = 0
    /\ \E t \in Texts \cup {NoText} : text = [p \in Places |-> t]
    /\ row = [exists |-> TRUE, missing |-> FALSE, stamp |-> 0]
    /\ hash = [onDisk |-> TRUE, stamp |-> 0]
    /\ loaded = [e \in Editors |-> text]
    /\ edit = [e \in Editors |-> NoEdit]
    /\ metadataMu = NoEdit /\ raced = {} /\ undone = FALSE
    /\ edits = 0 /\ foreign = 0 /\ editFaults = 0

Ends_KeepsMutex(e) == edit' = [edit EXCEPT ![e] = NoEdit] /\ UNCHANGED metadataMu

Ends(e) ==
    /\ edit' = [edit EXCEPT ![e] = NoEdit]
    /\ metadataMu' = IF metadataMu = e THEN NoEdit ELSE metadataMu

Proceeds(e, step) ==
    /\ edit' = [edit EXCEPT ![e].step = step]
    /\ UNCHANGED metadataMu

-----------------------------------------------------------------------------
(* Requests. *)

\* LoadMediaFileLyrics: the versions an editor will send back are those of now.
LoadMediaFileLyrics(e) ==
    /\ edit[e] = NoEdit /\ row.exists /\ ~row.missing /\ onDisk
    /\ loaded' = [loaded EXCEPT ![e] = text]
    /\ UNCHANGED <<diskVars, row, hash, edit, metadataMu, raced, undone, edits, foreign, editFaults>>

AsksFor(e, kind, place, new) ==
    /\ edit[e] = NoEdit /\ edits < MaxEdits
    /\ edits' = edits + 1
    /\ edit' = [edit EXCEPT ![e] = [step |-> "waits", kind |-> kind, place |-> place,
                                    new |-> new, copy |-> NoText]]
    /\ raced' = raced \ {e}
    /\ UNCHANGED <<diskVars, row, hash, loaded, metadataMu, undone, foreign, editFaults>>

\* The edits that are asked for once they are found valid; tags and image differ in what
\* is written into the copy of the file and read back from it.
UpdateMediaFileMetadata(e) == AsksFor(e, "tags", "embedded", NoText)
UpdateMediaFileArtwork(e) == AsksFor(e, "image", "embedded", NoText)
SaveEmbeddedMediaFileLyrics(e, t) == AsksFor(e, "lyrics", "embedded", t)
SaveMediaFileLyrics(e, ext, t) == AsksFor(e, "lyrics", ext, t)
DeleteMediaFileLyrics(e) == AsksFor(e, "deleteLyrics", "embedded", NoText)
DeleteMediaFile(e) == AsksFor(e, "remove", "embedded", NoText)

EditRequests(e) ==
    \/ UpdateMediaFileMetadata(e) \/ UpdateMediaFileArtwork(e)
    \/ DeleteMediaFileLyrics(e) \/ DeleteMediaFile(e)
    \/ \E t \in Texts \cup {NoText} : SaveEmbeddedMediaFileLyrics(e, t)
    \/ \E t \in Texts, ext \in Extensions : SaveMediaFileLyrics(e, ext, t)

Locks_NoMutex(e) ==
    /\ edit[e] # NoEdit /\ edit[e].step = "waits"
    /\ IF ~row.exists \/ (row.missing /\ edit[e].kind # "remove")
       THEN Ends(e)
       ELSE /\ edit' = [edit EXCEPT ![e].step = "locked"] /\ UNCHANGED metadataMu
    /\ UNCHANGED <<diskVars, row, hash, loaded, raced, undone, edits, foreign, editFaults>>

\* The mutex is taken before the song is read; a song that is gone or missing is refused,
\* except that a missing one may be removed (and then Remove fails on the disk).
Locks(e) ==
    /\ edit[e] # NoEdit /\ edit[e].step = "waits" /\ metadataMu = NoEdit
    /\ IF ~row.exists \/ (row.missing /\ edit[e].kind # "remove")
       THEN Ends(e)
       ELSE /\ metadataMu' = e
            /\ edit' = [edit EXCEPT ![e].step = "locked"]
    /\ UNCHANGED <<diskVars, row, hash, loaded, raced, undone, edits, foreign, editFaults>>

AtStep(e, kinds, step) ==
    edit[e] # NoEdit /\ edit[e].kind \in kinds /\ edit[e].step = step

\* Whether what the editor saw is what is there now.
Unchanged(e, places) == \A p \in places : text[p] = loaded[e][p]

InTags(e) == edit[e].place = "embedded"

\* The checks before a write to the song's file: the file is the one that was scanned, and
\* for lyrics the tag is the one the editor saw; then it is copied.
ChecksFile(e) ==
    /\ AtStep(e, {"tags", "image", "lyrics"}, "locked") /\ InTags(e)
    /\ IF onDisk /\ row.stamp = stamp /\ (edit[e].kind = "lyrics" => Unchanged(e, {"embedded"}))
       THEN /\ edit' = [edit EXCEPT ![e].step = "staged", ![e].copy = text["embedded"]]
            /\ UNCHANGED metadataMu
       ELSE Ends(e)
    /\ UNCHANGED <<onDisk, stamp, text, row, hash, loaded, raced, undone, edits, foreign, editFaults>>

\* writeStagedMediaFile: the edited, verified copy replaces the file.
ReplacesFile(e) ==
    /\ AtStep(e, {"tags", "image", "lyrics"}, "staged") /\ InTags(e)
    /\ onDisk' = TRUE /\ stamp' = stamp + 1
    /\ text' = [text EXCEPT !["embedded"] =
                  IF edit[e].kind = "lyrics" THEN edit[e].new ELSE edit[e].copy]
    /\ Proceeds(e, "refresh")
    /\ UNCHANGED <<row, hash, loaded, raced, undone, edits, foreign, editFaults>>

ChecksSidecar_Unversioned(e) ==
    /\ AtStep(e, {"lyrics"}, "locked") /\ ~InTags(e)
    /\ Proceeds(e, "staged")
    /\ UNCHANGED <<onDisk, stamp, text, row, hash, loaded, raced, undone, edits, foreign, editFaults>>

\* WriteLyricsSidecar checks the version against the file it is about to replace ...
ChecksSidecar(e) ==
    /\ AtStep(e, {"lyrics"}, "locked") /\ ~InTags(e)
    /\ IF Unchanged(e, {edit[e].place})
       THEN Proceeds(e, "staged")
       ELSE Ends(e)
    /\ UNCHANGED <<onDisk, stamp, text, row, hash, loaded, raced, undone, edits, foreign, editFaults>>

\* ... and renames its staging file; the lyrics are read back, and no scan is asked for.
ReplacesSidecar(e) ==
    /\ AtStep(e, {"lyrics"}, "staged") /\ ~InTags(e)
    /\ text' = [text EXCEPT ![edit[e].place] = edit[e].new]
    /\ loaded' = [loaded EXCEPT ![e] = text']

    /\ Ends(e)
    /\ UNCHANGED <<onDisk, stamp, row, hash, raced, undone, edits, foreign, editFaults>>

PreflightsLyrics_None(e) ==
    /\ AtStep(e, {"deleteLyrics"}, "locked")
    /\ Proceeds(e, Sidecars[1])
    /\ UNCHANGED <<diskVars, row, hash, loaded, raced, undone, edits, foreign, editFaults>>

\* DeleteMediaFileLyrics looks at every file before it removes one.
PreflightsLyrics(e) ==
    /\ AtStep(e, {"deleteLyrics"}, "locked")
    /\ IF Unchanged(e, Extensions) THEN Proceeds(e, Sidecars[1]) ELSE Ends(e)
    /\ UNCHANGED <<diskVars, row, hash, loaded, raced, undone, edits, foreign, editFaults>>

DeletesLyrics(e) ==
    \E i \in DOMAIN Sidecars :
      /\ AtStep(e, {"deleteLyrics"}, Sidecars[i])
      /\ IF Unchanged(e, {Sidecars[i]})
         THEN /\ text' = [text EXCEPT ![Sidecars[i]] = NoText]
              /\ IF i < Len(Sidecars) THEN Proceeds(e, Sidecars[i + 1]) /\ UNCHANGED loaded
                 ELSE Ends(e) /\ loaded' = [loaded EXCEPT ![e] = text']
         ELSE Ends(e) /\ UNCHANGED <<text, loaded>>
      /\ UNCHANGED <<onDisk, stamp, row, hash, raced, undone, edits, foreign, editFaults>>

-----------------------------------------------------------------------------
(* After the write. *)

\* A quick scan goes by the folder's hash: a folder it has seen as it is, is not read.
FolderHash == [onDisk |-> onDisk, stamp |-> stamp]

Scan ==
    /\ hash' = FolderHash
    /\ row' = IF hash = FolderHash THEN row
              ELSE IF onDisk THEN [exists |-> TRUE, missing |-> FALSE, stamp |-> stamp]
              ELSE [row EXCEPT !.missing = row.exists]

\* refreshMetadataFolder scans the song's folder, unless a scan is running; then the answer
\* is that the change is saved and a refresh still due.
Refreshes(e) ==
    /\ AtStep(e, {"tags", "image", "lyrics"}, "refresh")
    /\ Scan
    /\ loaded' = [loaded EXCEPT ![e] = text]
    /\ Ends(e)
    /\ UNCHANGED <<diskVars, raced, undone, edits, foreign, editFaults>>

RefreshRefused(e) ==
    /\ AtStep(e, {"tags", "image", "lyrics"}, "refresh")
    /\ Ends(e)
    /\ UNCHANGED <<diskVars, row, hash, loaded, raced, undone, edits, foreign, editFaults>>

\* The same scan on request, without the mutex.
RefreshMediaFileMetadata(e) ==
    /\ edit[e] = NoEdit /\ row.exists /\ ~row.missing /\ hash # FolderHash
    /\ Scan
    /\ UNCHANGED <<diskVars, loaded, edit, metadataMu, raced, undone, edits, foreign, editFaults>>

\* DeleteMediaFile: first the file, then the mark, then the row and what hangs on it.
RemovesFile(e) ==
    /\ AtStep(e, {"remove"}, "locked")
    /\ IF onDisk
       THEN onDisk' = FALSE /\ stamp' = stamp + 1 /\ text' = [text EXCEPT !["embedded"] = NoText]
            /\ Proceeds(e, "mark")
       ELSE Ends(e) /\ UNCHANGED <<onDisk, stamp, text>>
    /\ UNCHANGED <<row, hash, loaded, raced, undone, edits, foreign, editFaults>>

MarksMissing(e) ==
    /\ AtStep(e, {"remove"}, "mark")
    /\ row' = [row EXCEPT !.missing = row.exists]
    /\ Proceeds(e, "purge")
    /\ UNCHANGED <<diskVars, hash, loaded, raced, undone, edits, foreign, editFaults>>

\* deleteMissing: only a row that is still missing goes.
DeletesMissing(e) ==
    /\ AtStep(e, {"remove"}, "purge")
    /\ row' = [row EXCEPT !.exists = row.exists /\ ~row.missing, !.missing = FALSE]
    /\ Ends(e)
    /\ UNCHANGED <<diskVars, hash, loaded, raced, undone, edits, foreign, editFaults>>

-----------------------------------------------------------------------------
(* The world. *)

\* A step fails: its staging file is removed and the request answered with the error.
StepFails(e) ==
    /\ edit[e] # NoEdit /\ edit[e].step \notin {"waits", "refresh"} /\ editFaults < MaxEditFaults
    /\ editFaults' = editFaults + 1

    /\ Ends(e)
    /\ UNCHANGED <<onDisk, stamp, text, row, hash, loaded, raced, undone, edits, foreign>>

\* The process dies: edits end where they are; a hidden copy that stays is no song to the scanner.
EditorsDie ==
    /\ editFaults < MaxEditFaults /\ \E e \in Editors : edit[e] # NoEdit
    /\ editFaults' = editFaults + 1
    /\ edit' = [e \in Editors |-> NoEdit] /\ metadataMu' = NoEdit
    /\ UNCHANGED <<diskVars, row, hash, loaded, raced, undone, edits, foreign>>

\* Another program writes a lyrics file, the song's file, or puts a removed one back.
ForeignWrite(p, t) ==
    /\ foreign < MaxForeign /\ foreign' = foreign + 1
    /\ text' = [text EXCEPT ![p] = t]
    /\ IF p = "embedded" THEN onDisk' = TRUE /\ stamp' = stamp + 1 ELSE UNCHANGED <<onDisk, stamp>>
    /\ raced' = raced \cup {e \in Editors : edit[e] # NoEdit}
    /\ undone' = (undone \/ (p = "embedded" /\ ~onDisk /\ metadataMu # NoEdit))
    /\ UNCHANGED <<row, hash, loaded, edit, metadataMu, edits, editFaults>>

\* The scanner, on its schedule or called by the watcher.
ScanRuns ==
    /\ hash # FolderHash
    /\ Scan
    /\ UNCHANGED <<diskVars, loaded, edit, metadataMu, raced, undone, edits, foreign, editFaults>>

EditSteps(e) ==
    \/ Locks(e) \/ ChecksFile(e) \/ ReplacesFile(e) \/ ChecksSidecar(e) \/ ReplacesSidecar(e)
    \/ PreflightsLyrics(e) \/ DeletesLyrics(e) \/ Refreshes(e) \/ RefreshRefused(e)
    \/ RemovesFile(e) \/ MarksMissing(e) \/ DeletesMissing(e)

EditingNext ==
    \/ \E e \in Editors : LoadMediaFileLyrics(e) \/ EditSteps(e) \/ StepFails(e)
                          \/ EditRequests(e) \/ RefreshMediaFileMetadata(e)
    \/ EditorsDie \/ ScanRuns
    \/ \E p \in Places, t \in Texts \cup {NoText} : ForeignWrite(p, t)

EditingSpec == EditingInit /\ [][EditingNext]_editVars

-----------------------------------------------------------------------------
(* The types; only a request that is past the lock holds the mutex.          *)
EditingTypeOK ==
    /\ text \in [Places -> Texts \cup {NoText}]
    /\ row.missing => row.exists
    /\ metadataMu # NoEdit => edit[metadataMu] # NoEdit /\ edit[metadataMu].step # "waits"

(* No lyrics that an editor has not seen are overwritten or removed through  *)
(* the service (expectedVersion, the preflight of DeleteMediaFileLyrics and  *)
(* the mutex), unless another program wrote while the edit was under way:   *)
(* the version is checked before the rename, not by it.                      *)
UnseenLyricsSurvive ==
    [][\A e \in Editors, p \in Places :
         edit[e] # NoEdit /\ edit'[e] # edit[e] /\ text'[p] # text[p] /\ edit[e].kind # "remove"
           => e \in raced \/ text[p] = loaded[e][p]]_editVars

(* Once the removal of the lyrics files has begun, it can be finished: those  *)
(* still to be removed are the ones the editor saw, but for another          *)
(* program's write after the preflight.                                      *)
AllOrNoLyricsRemoved ==
    \A e \in Editors, i \in DOMAIN Sidecars :
      AtStep(e, {"deleteLyrics"}, Sidecars[i]) /\ e \notin raced
        => \A j \in i..Len(Sidecars) : text[Sidecars[j]] = loaded[e][Sidecars[j]]

(* After a scan, a song whose file is gone is not in the library as if it    *)
(* could be played, though its removal failed half way; and one whose file  *)
(* is there is, though removals and edits crossed.  The exception is a *)
(* file put back by another program while the removal was at work: a scan    *)
(* may import it before the removal marks and deletes the row, and then the *)
(* folder's hash keeps the next quick scans from seeing it.                  *)
RowFollowsFile ==
    (\A e \in Editors : edit[e] = NoEdit) /\ hash = FolderHash /\ ~undone
      => (onDisk <=> row.exists /\ ~row.missing)

(* Edits and removals of one song beside each other, other programs and      *)
(* scans: nothing unseen is lost, no removal stops half way through the       *)
(* lyrics, and the row follows the file.                                      *)
EditsAreSafe == [](AllOrNoLyricsRemoved /\ RowFollowsFile) /\ UnseenLyricsSurvive
=============================================================================
