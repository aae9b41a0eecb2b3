--------------------------- MODULE MCAnnouncements ---------------------------
(***************************************************************************)
(* An instance of Announcements: requests that create, update and delete   *)
(* one dinosaur.                                                           *)
(***************************************************************************)
EXTENDS Announcements

CONSTANTS p1, c1, x1

MCOp == [r \in Request |-> CASE r = c1 -> "create" [] r = x1 -> "delete" [] OTHER -> "patch"]
MCTarget == [r \in Request |-> "d1"]
MCWanted == [r \in Request |-> IF r = p1 THEN "bronto" ELSE "trice"]
MCInitial == [d \in Dino |-> "none"]
=============================================================================
