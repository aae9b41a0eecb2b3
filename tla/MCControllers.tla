--------------------------- MODULE MCControllers ---------------------------
(***************************************************************************)
(* Instances of Controllers: e1 has two handlers, e2 one, and no           *)
(* controller is registered for e3.                                        *)
(***************************************************************************)
EXTENDS Controllers

CONSTANTS e1, e2, e3, w1, w2, w3

MCHandlers == [e \in Event |-> CASE e = e1 -> 2 [] e = e2 -> 1 [] OTHER -> 0]
MCManaged == Event \ {e3}
=============================================================================
