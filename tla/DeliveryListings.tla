-------------------------- MODULE DeliveryListings ---------------------------
(***************************************************************************)
(* A client that lists deliveries (src/deliveries.ts,                      *)
(* src/endpoint-observability.ts) page by page while the queue moves them  *)
(* from one status to another, inserts them and deletes them.  Of the      *)
(* queue a listing sees status alone, and that is the same in              *)
(* DeliveryOwnership as in DeliveryQueue, which implements it.             *)
(***************************************************************************)
EXTENDS DeliveryOwnership

CONSTANTS
    Newer,     \* deliveries by created_at and id, newest first
    PageLimit  \* rows of a page

VARIABLE walk  \* of ListingReader

LiveStatuses == {"pending", "delivering", "succeeded", "dead_letter"}

(* The filters of listDeliveries, each of which may be left out.  That of  *)
(* an endpoint alone is listEndpointDeliveries', which answers 404 instead *)
(* of an empty page once the endpoint is deleted.                          *)
Queries == [endpoint : Endpoints \cup {None}, status : LiveStatuses \cup {None}]

Matching(q) ==
    {d \in Deliveries : /\ status[d] \in LiveStatuses
                        /\ q.endpoint \in {None, EndpointOf[d]}
                        /\ q.status \in {None, status[d]}}

Reader == INSTANCE ListingReader WITH
    Rows <- Deliveries, Before <- Newer, matching <- [q \in Queries |-> Matching(q)]

ASSUME ListingsAssumption == Reader!IsListing

-----------------------------------------------------------------------------
ListingInit == Init /\ Reader!WalkInit

ListingNext ==
    \/ Next /\ Reader!Observes
    \/ Reader!Reads /\ UNCHANGED vars

(* The queue is as fair as it is alone; the client may stop at any page.   *)
FairListingSpec ==
    /\ ListingInit /\ [][ListingNext]_<<vars, walk>>
    /\ Fairness

-----------------------------------------------------------------------------
(* deliveries.ts:86-124, endpoint-observability.ts:90-134: a client that   *)
(* follows the cursors while deliveries are inserted, claimed, settled,    *)
(* retried and deleted is shown none twice, and misses none that matched   *)
(* its filters all the while, also when the row that the cursor names no   *)
(* longer does.  One that only comes to match while they are read, at a    *)
(* place they have passed, is not shown.                                   *)
DeliveriesAreListed == Reader!WalkIsWhole
=============================================================================
