------------------------------ MODULE ImageStore ------------------------------
(***************************************************************************)
(* Where an acquired image is kept (core/artwork): the bytes in the        *)
(* content-addressed store or in a file of the library, the artwork row of *)
(* the bytes and the item's row that names them.  Acquisitions place the   *)
(* three one after the other, prune reclaims what nothing refers to, and   *)
(* requests serve what the rows say.                                       *)
(*                                                                         *)
(* Bytes are their hash.  Age is one bit: inside or past pruneMinAge.      *)
(***************************************************************************)
EXTENDS Naturals, FiniteSets

CONSTANTS
    ArtItems,      \* entities with artwork
    InStore,       \* those whose image has no file of its own (embedded art)
    Hashes,        \* contents of images
    Codecless,     \* contents no decoder of the first release reads
    Acquirers,     \* goroutines of the worker's pools
    NoRow, NoJob,
    MaxChanges,    \* bound: changes of source files
    MaxHours,      \* bound: how often pruneMinAge passes
    MaxRestarts    \* bound: crashes and upgrades

Mimes == {"image/jpeg", "application/octet-stream"}
Variants == Hashes \X Mimes
ImageRow == [mime : Mimes, fresh : BOOLEAN]

ASSUME StoreAssumption ==
    /\ InStore \subseteq ArtItems /\ Codecless \subseteq Hashes
    /\ MaxChanges \in Nat /\ MaxHours \in Nat /\ MaxRestarts \in Nat
    /\ NoRow \notin ImageRow

VARIABLES
    source,     \* [ArtItems -> [bytes, mtime]] the file an image comes from
    entity,     \* items whose entity exists
    state,      \* [ArtItems -> NoRow or [hash, mtime]] item_artwork
    image,      \* [Hashes -> NoRow or [mime, fresh]] artwork
    files,      \* [Variants -> {"none", "fresh", "old"}] the store
    job,        \* [Acquirers -> NoJob or [item, step, hash, mtime, mime]]
    pruning,    \* NoJob or [step, keep, left, doomed]
    noDecoder,  \* contents that cannot be decoded
    changes, hours, restarts

imageVars == <<source, entity, state, image, files, job, pruning, noDecoder, changes, hours, restarts>>

ImageInit ==
    /\ source \in [ArtItems -> [bytes : Hashes, mtime : {0}]]
    /\ entity = ArtItems
    /\ state = [i \in ArtItems |-> NoRow]
    /\ image = [h \in Hashes |-> NoRow]
    /\ files = [v \in Variants |-> "none"]
    /\ job = [a \in Acquirers |-> NoJob]
    /\ pruning = NoJob
    /\ noDecoder = Codecless
    /\ changes = 0 /\ hours = 0 /\ restarts = 0

-------------------------------------------------------------------------------
(* Acquisition                                                             *)

At(a, s) == job[a] # NoJob /\ job[a].step = s
Holding(a) == At(a, "placed") \/ At(a, "imaged")

\* The resolver opens the file; what is read later is the file opened here.
resolveOpens(a, i) ==
    /\ job[a] = NoJob /\ i \in entity
    /\ \A b \in Acquirers : job[b] # NoJob => job[b].item # i
    /\ job' = [job EXCEPT ![a] = [item |-> i, step |-> "opened", hash |-> source[i].bytes,
                                  mtime |-> 0, mime |-> "application/octet-stream"]]
    /\ UNCHANGED <<source, entity, state, image, files, pruning, noDecoder, changes, hours, restarts>>

mimeForFormat(h) == IF h \in noDecoder THEN "application/octet-stream" ELSE "image/jpeg"

\* The modification time is read by path, after the open.  A row with
\* dimensions saves the decode; bytes without a decoder are kept undecoded.
acquire(a) ==
    /\ At(a, "opened")
    /\ LET h == job[a].hash
       IN  job' = [job EXCEPT ![a].step = "decoded", ![a].mtime = source[job[a].item].mtime,
                              ![a].mime = IF image[h] # NoRow /\ image[h].mime = "image/jpeg"
                                          THEN "image/jpeg" ELSE mimeForFormat(h)]
    /\ UNCHANGED <<source, entity, state, image, files, pruning, noDecoder, changes, hours, restarts>>

\* Mutant: the bytes are placed while prune runs.
placeBytes_NoLock(a) ==
    /\ At(a, "decoded")
    /\ files' = [files EXCEPT ![<<job[a].hash, job[a].mime>>] = IF job[a].item \in InStore THEN "fresh" ELSE @]
    /\ job' = [job EXCEPT ![a].step = "placed"]
    /\ UNCHANGED <<source, entity, state, image, pruning, noDecoder, changes, hours, restarts>>

\* Under the read lock: the file is written, or touched when it is there.
placeBytes(a) ==
    /\ At(a, "decoded") /\ pruning = NoJob
    /\ files' = [files EXCEPT ![<<job[a].hash, job[a].mime>>] = IF job[a].item \in InStore THEN "fresh" ELSE @]
    /\ job' = [job EXCEPT ![a].step = "placed"]
    /\ UNCHANGED <<source, entity, state, image, pruning, noDecoder, changes, hours, restarts>>

PutImage(a) ==
    /\ At(a, "placed")
    /\ image' = [image EXCEPT ![job[a].hash] = [mime |-> job[a].mime, fresh |-> TRUE]]
    /\ job' = [job EXCEPT ![a].step = "imaged"]
    /\ UNCHANGED <<source, entity, state, files, pruning, noDecoder, changes, hours, restarts>>

PutItemArtwork(a) ==
    /\ At(a, "imaged")
    /\ state' = [state EXCEPT ![job[a].item] = [hash |-> job[a].hash, mtime |-> job[a].mtime]]
    /\ job' = [job EXCEPT ![a] = NoJob]
    /\ UNCHANGED <<source, entity, image, files, pruning, noDecoder, changes, hours, restarts>>

\* Reading, writing the store or a row fails: what was placed so far stays.
AcquisitionFails(a) ==
    /\ job[a] # NoJob
    /\ job' = [job EXCEPT ![a] = NoJob]
    /\ UNCHANGED <<source, entity, state, image, files, pruning, noDecoder, changes, hours, restarts>>

-------------------------------------------------------------------------------
(* Prune                                                                   *)

PruneAt(s) == pruning # NoJob /\ pruning.step = s

\* RunPrune waits for every acquisition that holds the read lock.
RunPrune ==
    /\ pruning = NoJob /\ \A a \in Acquirers : ~Holding(a)
    /\ pruning' = [step |-> "items", keep |-> {}, left |-> {}, doomed |-> {}]
    /\ UNCHANGED <<source, entity, state, image, files, job, noDecoder, changes, hours, restarts>>

PurgeDanglingState ==
    /\ PruneAt("items")
    /\ state' = [i \in ArtItems |-> IF i \in entity THEN state[i] ELSE NoRow]
    /\ pruning' = [pruning EXCEPT !.step = "rows"]
    /\ UNCHANGED <<source, entity, image, files, job, noDecoder, changes, hours, restarts>>

Referenced(h) == \E i \in ArtItems : state[i] # NoRow /\ state[i].hash = h

PurgeOrphans ==
    /\ PruneAt("rows")
    /\ image' = [h \in Hashes |-> IF image[h] # NoRow /\ ~image[h].fresh /\ ~Referenced(h)
                                  THEN NoRow ELSE image[h]]
    /\ pruning' = [pruning EXCEPT !.step = "mimes"]
    /\ UNCHANGED <<source, entity, state, files, job, noDecoder, changes, hours, restarts>>

GetMimeByHash ==
    /\ PruneAt("mimes")
    /\ pruning' = [step |-> "sweep", left |-> {v \in Variants : files[v] # "none"}, doomed |-> {},
                   keep |-> {<<h, image[h].mime>> : h \in {g \in Hashes : image[g] # NoRow}}]
    /\ UNCHANGED <<source, entity, state, image, files, job, noDecoder, changes, hours, restarts>>

\* The walk looks at the age of a file first and removes it in a second step.
SweepLooks ==
    /\ PruneAt("sweep") /\ pruning.doomed = {}
    /\ \E v \in pruning.left :
        pruning' = [pruning EXCEPT !.left = @ \ {v},
                                   !.doomed = IF files[v] = "old" /\ v \notin pruning.keep THEN {v} ELSE {}]
    /\ UNCHANGED <<source, entity, state, image, files, job, noDecoder, changes, hours, restarts>>

SweepRemoves ==
    /\ PruneAt("sweep") /\ pruning.doomed # {}
    /\ files' = [v \in Variants |-> IF v \in pruning.doomed THEN "none" ELSE files[v]]
    /\ pruning' = [pruning EXCEPT !.doomed = {}]
    /\ UNCHANGED <<source, entity, state, image, job, noDecoder, changes, hours, restarts>>

\* The sweep is over, or one of the statements failed.
PruneEnds ==
    /\ pruning # NoJob
    /\ pruning' = NoJob
    /\ UNCHANGED <<source, entity, state, image, files, job, noDecoder, changes, hours, restarts>>

-------------------------------------------------------------------------------
(* Requests                                                                *)

Unavailable == "unavailable"

\* The bytes behind an item's row: its file while the file's time is the one of
\* the row, or the stored variant the image's row names.
openOriginal(i) ==
    IF i \notin entity \/ state[i] = NoRow \/ state[i].mtime # source[i].mtime
       \/ image[state[i].hash] = NoRow
    THEN Unavailable
    ELSE IF i \notin InStore THEN source[i].bytes
    ELSE IF files[<<state[i].hash, image[state[i].hash].mime>>] # "none" THEN state[i].hash
    ELSE Unavailable

-------------------------------------------------------------------------------
(* The world                                                               *)

SourceReplaced(i, h) ==
    /\ changes < MaxChanges /\ changes' = changes + 1
    /\ h # source[i].bytes
    /\ source' = [source EXCEPT ![i] = [bytes |-> h, mtime |-> changes + 1]]
    /\ UNCHANGED <<entity, state, image, files, job, pruning, noDecoder, hours, restarts>>

EntityDeleted(i) ==
    /\ changes < MaxChanges /\ changes' = changes + 1
    /\ entity' = entity \ {i}
    /\ UNCHANGED <<source, state, image, files, job, pruning, noDecoder, hours, restarts>>

HourPasses ==
    /\ hours < MaxHours /\ hours' = hours + 1
    /\ files' = [v \in Variants |-> IF files[v] = "fresh" THEN "old" ELSE files[v]]
    /\ image' = [h \in Hashes |-> IF image[h] = NoRow THEN NoRow ELSE [image[h] EXCEPT !.fresh = FALSE]]
    /\ UNCHANGED <<source, entity, state, job, pruning, noDecoder, changes, restarts>>

\* The process ends at any step; the next one may be a release that decodes more.
Restart ==
    /\ restarts < MaxRestarts /\ restarts' = restarts + 1
    /\ job' = [a \in Acquirers |-> NoJob] /\ pruning' = NoJob
    /\ noDecoder' \in {noDecoder, {}}
    /\ UNCHANGED <<source, entity, state, image, files, changes, hours>>

ImageNext ==
    \/ \E a \in Acquirers :
        \/ \E i \in ArtItems : resolveOpens(a, i)
        \/ acquire(a) \/ placeBytes(a) \/ PutImage(a) \/ PutItemArtwork(a) \/ AcquisitionFails(a)
    \/ RunPrune \/ PurgeDanglingState \/ PurgeOrphans \/ GetMimeByHash
    \/ SweepLooks \/ SweepRemoves \/ PruneEnds
    \/ \E i \in ArtItems : EntityDeleted(i) \/ \E h \in Hashes : SourceReplaced(i, h)
    \/ HourPasses \/ Restart

ImageSpec == ImageInit /\ [][ImageNext]_imageVars

-------------------------------------------------------------------------------
(* Properties *)

\* An item whose bytes are in the store keeps its image row and a stored
\* variant, whatever prune does beside an acquisition, a crash between the three
\* writes, or two items that share their bytes.  (Which variant: see README on
\* what a release with more decoders does to a shared row.)
ReferencedImageIsStored ==
    \A i \in InStore : state[i] # NoRow =>
        /\ image[state[i].hash] # NoRow
        /\ \/ files[<<state[i].hash, image[state[i].hash].mime>>] # "none"
           \/ noDecoder # Codecless

===============================================================================
