---------------------------- MODULE MCDinosaurs ----------------------------
(***************************************************************************)
(* An instance of Dinosaurs: racing requests on d1, which exists from the  *)
(* start, and a create of d2.                                              *)
(***************************************************************************)
EXTENDS Dinosaurs

CONSTANTS p1, p2, p3, c1, x1

MCOp == [r \in Request |-> CASE r = c1 -> "create" [] r = x1 -> "delete" [] OTHER -> "patch"]
MCTarget == [r \in Request |-> IF r = c1 THEN "d2" ELSE "d1"]
\* p1 and p2 want one new species, p3 and the create another one.
MCWanted == [r \in Request |-> IF r \in {p1, p2} THEN "bronto" ELSE "stego"]
MCInitial == [d \in Dino |-> IF d = "d1" THEN "trice" ELSE "none"]
=============================================================================
