-------------------------------- MODULE Serving --------------------------------
(***************************************************************************)
(* What answers the readers of the lakehouse: cached results of searches,   *)
(* descriptions of tables, the latest control-plane events, the durable    *)
(* feed of lineage events, a person's saved views, recordings served in    *)
(* ranges and as clips, and the points of the map.  They share nothing, so *)
(* one of them is at work in a behaviour.                                  *)
(***************************************************************************)
EXTENDS SearchCache, DatasetRegistry, ControlFeed, LineageFeed, UserState, BlobReads,
        AtlasPoints

VARIABLE traffic

vars == <<traffic, searchVars, descriptionVars, feedVars, feedPageVars, userVars, blobVars,
          pointVars>>

Init ==
    /\ traffic \in {"search", "registry", "feed", "events", "user", "blobs", "clips", "map"}
    /\ SearchInit /\ DescriptionInit /\ FeedInit /\ FeedPagesInit /\ UserInit /\ BlobsInit /\ PointsInit
    /\ traffic # "events" => ~governed /\ seen = {}   \* one state, when nobody reads them

Next ==
    /\ \/ /\ traffic = "search" /\ SearchNext
          /\ UNCHANGED <<descriptionVars, feedVars, feedPageVars, userVars, blobVars, pointVars>>
       \/ /\ traffic = "registry" /\ DescriptionNext
          /\ UNCHANGED <<searchVars, feedVars, feedPageVars, userVars, blobVars, pointVars>>
       \/ /\ traffic = "feed" /\ FeedNext
          /\ UNCHANGED <<searchVars, descriptionVars, feedPageVars, userVars, blobVars, pointVars>>
       \/ /\ traffic = "events" /\ FeedPagesNext
          /\ UNCHANGED <<searchVars, descriptionVars, feedVars, userVars, blobVars, pointVars>>
       \/ /\ traffic = "user" /\ UserNext
          /\ UNCHANGED <<searchVars, descriptionVars, feedVars, feedPageVars, blobVars, pointVars>>
       \/ /\ traffic = "blobs" /\ DownloadNext
          /\ UNCHANGED <<searchVars, descriptionVars, feedVars, feedPageVars, userVars, pointVars>>
       \/ /\ traffic = "clips" /\ ClipNext
          /\ UNCHANGED <<searchVars, descriptionVars, feedVars, feedPageVars, userVars, pointVars>>
       \/ /\ traffic = "map" /\ PointsNext
          /\ UNCHANGED <<searchVars, descriptionVars, feedVars, feedPageVars, userVars, blobVars>>
    /\ UNCHANGED traffic

Spec == Init /\ [][Next]_vars

-----------------------------------------------------------------------------
\* A download, a clip, and the points of a map are each of one version of what
\* they show, however the tables are written meanwhile.
ServedWhole == RecordingsWhole /\ PointsWhole

=============================================================================
