------------------------------ MODULE Listings -------------------------------
(***************************************************************************)
(* What the listings of the API share: the rows of a query in the order of *)
(* its ORDER BY, and the page that is cut from them.                       *)
(***************************************************************************)
EXTENDS Naturals, Sequences, FiniteSets

(* before is the pairs of rows of which the first comes first; a row's     *)
(* place is told by how many come before it.                               *)
OrderBy(rows, before) ==
    [i \in 1 .. Cardinality(rows) |->
        CHOOSE x \in rows : Cardinality({y \in rows : <<y, x>> \in before}) = i - 1]

(* One row more than a page holds tells whether there is another page;     *)
(* none is the cursor when there is not.  Before it, a variant that goes   *)
(* on from the first row that was not shown.                               *)
PageFromNext(rows, limit, none) ==
    LET full == Len(rows) > limit
    IN  [data |-> IF full THEN SubSeq(rows, 1, limit) ELSE rows,
         nextCursor |-> IF full THEN rows[limit + 1] ELSE none]
Page(rows, limit, none) ==
    LET full == Len(rows) > limit
    IN  [data |-> IF full THEN SubSeq(rows, 1, limit) ELSE rows,
         nextCursor |-> IF full THEN rows[limit] ELSE none]

(* The page after a cursor, which is the last row of the page before.  The *)
(* cursor is the row's place in the order, not the row: it may no longer   *)
(* be one of rows.  Before it, a variant that looks the cursor up in rows. *)
PageAfterMatching(rows, before, cursor, limit, none) ==
    Page(OrderBy({x \in rows : \/ cursor = none
                               \/ cursor \in rows /\ <<cursor, x>> \in before}, before),
         limit, none)
PageAfter(rows, before, cursor, limit, none) ==
    Page(OrderBy({x \in rows : cursor = none \/ <<cursor, x>> \in before}, before),
         limit, none)
=============================================================================
