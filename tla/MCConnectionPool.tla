-------------------------- MODULE MCConnectionPool --------------------------
(***************************************************************************)
(* Instances of ConnectionPool: g1, g2 GET requests, p1, p2 PATCH requests *)
(* on one dinosaur, h1, h2 one event being handled by two workers.         *)
(***************************************************************************)
EXTENDS ConnectionPool

CONSTANTS g1, g2, p1, p2, h1, h2

MCKind == [t \in Task |-> CASE t \in {g1, g2} -> "read"
                            [] t \in {p1, p2} -> "patch"
                            [] OTHER -> "handle"]
MCOps == [t \in Task |-> IF t \in {g1, g2} THEN 1 ELSE 2]
MCKey == [t \in Task |-> IF t \in {h1, h2} THEN "e1" ELSE "d1"]
=============================================================================
