----------------------------- MODULE Catalogue -----------------------------
(***************************************************************************)
(* GET /tracks and GET /download/{track_id} of core-api, and the listener  *)
(* who uses them: a page of tracks read earlier, a presigned link followed *)
(* later.  Each handler makes one call that matters, a SELECT; a link is   *)
(* signed without a call to S3.                                            *)
(***************************************************************************)
EXTENDS TrackStore

CONSTANT NoTrack  \* not a track

ASSUME NoTrackAssumption == NoTrack \notin Tracks

VARIABLES
    query,  \* the status parameter of the page that is shown
    page,   \* the tracks it shows
    link    \* the track of the presigned link the listener has, or NoTrack

catalogueVars == <<query, page, link>>

\* The parameter as the client may write it: none, a status, something else.
Queries == {"", "pending", "processing", "ready", "failed", "other"}

CatalogueTypeOK ==
    /\ query \in Queries
    /\ page \subseteq Tracks
    /\ link \in Tracks \cup {NoTrack}

CatalogueInit == query = "" /\ page = {} /\ link = NoTrack

\* The statuses to list: none is the answer 400.
ParseTrackStatus(statusRaw) == IF statusRaw = "" THEN {"ready"} ELSE {statusRaw} \cap Statuses

GetTrackByID(t) == {u \in {t} : RowExists(u)}

ListTracksByStatus(wanted) == {t \in Tracks : status[t] \in wanted}

\* A 400 and an error of the query leave the listener with an empty page.
List(statusRaw) ==
    /\ query' = statusRaw
    /\ page' \in {ListTracksByStatus(ParseTrackStatus(statusRaw)), {}}
    /\ UNCHANGED <<link, storeVars>>

\* The row is read when the listener asks, not when the page was made: it
\* may be gone (404).  The key is taken from the row and not looked up.
Download(t) ==
    /\ t \in page
    /\ link' = IF GetTrackByID(t) = {} THEN NoTrack ELSE t
    /\ UNCHANGED <<query, page, storeVars>>

\* After DownloadURLExpires, or when the listener has had enough of it.
Expire ==
    /\ link # NoTrack
    /\ link' = NoTrack
    /\ UNCHANGED <<query, page, storeVars>>

\* What the link leads to is there.
LinkWorks == link \in raw
=============================================================================
