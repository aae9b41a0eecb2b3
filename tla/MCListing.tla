------------------------------ MODULE MCListing ------------------------------
(***************************************************************************)
(* Instances of Listing: a walk over the rows but one, two a page; lists   *)
(* whose parameters are at or over a limit; one with fields.               *)
(***************************************************************************)
EXTENDS Listing

List(page, size, order) ==
    [page |-> page, size |-> size, where |-> Row \ {5}, order |-> order,
     valid |-> TRUE, fields |-> FALSE]

MCWalk == [i \in 1..3 |-> List(i, None, "id asc")]

\* No page, no number, a bad order, an offset and a page that wrap, no limit.
MCOdd == <<List(None, 0, "none"), List(3, Garbage, "id asc"), List(Garbage, 1, "none"),
           [List(1, 1, "none") EXCEPT !.valid = FALSE], List(17, 9, "id asc"),
           List(3, -1, "id asc")>>

MCFields == <<[List(1, 1, "none") EXCEPT !.fields = TRUE]>>

MCScripts == {MCWalk, MCOdd, MCFields}
=============================================================================
