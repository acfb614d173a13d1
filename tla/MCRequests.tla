----------------------------- MODULE MCRequests -----------------------------
(* Requests that read and write the same rows, next to scans and to each     *)
(* other.  The components share no state: `part` picks one, the others keep  *)
(* a fixed initial state.                                                    *)
EXTENDS Catalogue, PlaylistTracks, PlaylistImport, MovedTracks, LibraryAccess, ExternalInfo, UserData, Shares,
        TLC

VARIABLE part

requestsVars ==
    <<catalogueVars, playlistVars, importVars, movedVars, accessVars, externalVars, userDataVars, queueVars, shareVars, part>>

\* One album of two songs, each by an artist of its own.
OneRelease == [t \in Tracks |-> "x"]
TwoPerformers == ("s" :> "p") @@ ("t" :> "q")

\* A playlist with one song twice.
ThreeSongs == <<"s", "t", "s">>

\* Two old rows, two that the scan made of new files.
FourAlbums == ("m1" :> "A") @@ ("m2" :> "B") @@ ("n1" :> "C") @@ ("n2" :> "D")
FourTimes == ("m1" :> 1) @@ ("m2" :> 2) @@ ("n1" :> 4) @@ ("n2" :> 4)
TwoGone ==
    [i \in Ids |-> IF i \in Fresh THEN NoTrack
                   ELSE [lib |-> 1, file |-> i, content |-> "a", base |-> "x", album |-> AlbumOf[i],
                         created |-> CreatedAt[i], missing |-> TRUE]]

\* One agent knows everything, the next images and similar artists.
TwoAgents == <<"lastfm", "deezer">>
TheyCan == ("lastfm" :> {"bio", "url", "similar", "image"}) @@ ("deezer" :> {"image", "similar"})
TwoSimilar == <<"q", "r">>

ThreeLists == {<<>>, <<"s">>, <<"s", "t">>}

\* Two songs in two libraries.
TwoLibs == ("a" :> 1) @@ ("b" :> 2)

Parts == {"catalogue", "tracks", "import", "moved", "access", "external", "annotations", "queue", "shares"}

RequestsInit ==
    /\ part \in Parts
    /\ IF part = "catalogue" THEN TRUE ELSE disk = [t \in Tracks |-> "absent"]
    /\ IF part = "import" THEN TRUE ELSE listFile = [f \in ListFiles |-> NoFile]
    /\ IF part = "moved" THEN TRUE ELSE rows = TwoGone
    /\ IF part = "access" THEN TRUE ELSE defaults = {} /\ access = {<<CHOOSE u \in Accounts : TRUE, 1>>}
    /\ IF part = "external" THEN TRUE ELSE kind = "album" /\ present = {}
    /\ MovedInit /\ CatalogueInit /\ PlaylistInit /\ ImportInit /\ AccessInit /\ ExternalInit
    /\ UserDataInit /\ QueueInit /\ ShareInit

RequestsNext ==
    /\ UNCHANGED part
    /\ \/ part = "catalogue" /\ CatalogueNext
          /\ UNCHANGED <<playlistVars, importVars, movedVars, accessVars, externalVars, userDataVars, queueVars, shareVars>>
       \/ part = "tracks" /\ PlaylistNext
          /\ UNCHANGED <<catalogueVars, importVars, movedVars, accessVars, externalVars, userDataVars, queueVars, shareVars>>
       \/ part = "import" /\ ImportNext
          /\ UNCHANGED <<catalogueVars, playlistVars, movedVars, accessVars, externalVars, userDataVars, queueVars, shareVars>>
       \/ part = "moved" /\ MovedNext
          /\ UNCHANGED <<catalogueVars, playlistVars, importVars, accessVars, externalVars, userDataVars, queueVars, shareVars>>
       \/ part = "access" /\ AccessNext
          /\ UNCHANGED <<catalogueVars, playlistVars, importVars, movedVars, externalVars, userDataVars, queueVars, shareVars>>
       \/ part = "external" /\ ExternalNext
          /\ UNCHANGED <<catalogueVars, playlistVars, importVars, movedVars, accessVars, userDataVars, queueVars, shareVars>>
       \/ part = "annotations" /\ UserDataNext
          /\ UNCHANGED <<catalogueVars, playlistVars, importVars, movedVars, accessVars, externalVars, queueVars, shareVars>>
       \/ part = "queue" /\ QueueNext
          /\ UNCHANGED <<catalogueVars, playlistVars, importVars, movedVars, accessVars, externalVars, userDataVars, shareVars>>
       \/ part = "shares" /\ ShareNext
          /\ UNCHANGED <<catalogueVars, playlistVars, importVars, movedVars, accessVars, externalVars, userDataVars, queueVars>>

RequestsSpec == RequestsInit /\ [][RequestsNext]_requestsVars
=============================================================================
