---------------------------- MODULE ListingReader ----------------------------
(***************************************************************************)
(* A client of a listing: it asks for the first page of a query and, with  *)
(* the cursor of each page, for the next one, until a page has no cursor.  *)
(* Each page is a request of its own, and between two of them the rows     *)
(* that match the query are not the same.                                  *)
(*                                                                         *)
(* Which rows match is the state of another module, which joins its steps  *)
(* with Observes.                                                          *)
(***************************************************************************)
EXTENDS Listings

CONSTANTS
    Rows,       \* rows of the table
    Queries,    \* filters a client may ask with
    Before,     \* ORDER BY: the pairs of rows of which the first comes first
    PageLimit,  \* rows of a page
    None        \* NULL

VARIABLES
    matching,  \* for each query, the rows that match it now
    walk       \* what the client was shown of the query it follows

(* created_at and id never change, so the order of two rows does not.      *)
IsListing ==
    /\ IsFiniteSet(Rows) /\ None \notin Rows
    /\ PageLimit \in Nat \ {0}
    /\ \A x \in Rows : <<x, x>> \notin Before
    /\ \A x, y, z \in Rows :
          <<x, y>> \in Before /\ <<y, z>> \in Before => <<x, z>> \in Before
    /\ \A x, y \in Rows : x # y => <<x, y>> \in Before \/ <<y, x>> \in Before

(* No query is being followed. *)
NoWalk(q) ==
    [query |-> q, cursor |-> None, shown |-> << >>, stayed |-> {}, ended |-> TRUE]

WalkInit == \E q \in Queries : walk = NoWalk(q)

-----------------------------------------------------------------------------
(* One request: the rows that follow the cursor among those that match now *)
(* are shown after those that were shown before.                           *)
TakePage(w) ==
    LET page == PageAfter(matching[w.query], Before, w.cursor, PageLimit, None)
    IN  [w EXCEPT !.shown = @ \o page.data,
                  !.cursor = page.nextCursor,
                  !.ended = page.nextCursor = None]

FirstPage(q) ==
    /\ walk.ended
    /\ walk' = TakePage([NoWalk(q) EXCEPT !.stayed = matching[q]])

NextPage ==
    /\ ~walk.ended
    /\ walk' = TakePage(walk)

Reads == (\E q \in Queries : FirstPage(q)) \/ NextPage

(* The rows change.  stayed, those that have matched ever since the first  *)
(* page, is what a client is entitled to; it is told nothing.              *)
Observes == walk' = [walk EXCEPT !.stayed = @ \cap matching'[walk.query]]

(* A client, whatever happens to the rows.                                 *)
WalkNext ==
    \/ matching' \in [Queries -> SUBSET Rows] /\ Observes
    \/ UNCHANGED matching /\ Reads

WalkSpec ==
    /\ matching \in [Queries -> SUBSET Rows] /\ WalkInit
    /\ [][WalkNext]_<<matching, walk>>

-----------------------------------------------------------------------------
ShownRows == {walk.shown[i] : i \in DOMAIN walk.shown}

(* Whatever enters and leaves the query between two pages, the rows shown  *)
(* are in order, none of them twice, and when there is no further page     *)
(* they include every row that matched throughout.                         *)
WalkIsWhole ==
    /\ \A i, j \in DOMAIN walk.shown :
          i < j => <<walk.shown[i], walk.shown[j]>> \in Before
    /\ walk.ended => walk.stayed \subseteq ShownRows
=============================================================================
