-------------------------- MODULE MCAdvisoryLocks --------------------------
(***************************************************************************)
(* Instances of AdvisoryLocks.                                             *)
(*   h1, h2  KindControllerManager.Handle on one event: nonblocking,       *)
(*           background context, Unlock deferred before the result is seen *)
(*   r1, r2  sqlDinosaurService.Replace of one dinosaur: blocking, each    *)
(*           under the context of its request, Unlock deferred afterwards  *)
(*   n1      Replace with UseBlockingAdvisoryLock = false                  *)
(*   i1      a call nested in r1's critical section, for another dinosaur  *)
(* Events and dinosaurs share an id, so that only the type separates them. *)
(***************************************************************************)
EXTENDS AdvisoryLocks, Integers, TLC

CONSTANTS h1, h2, r1, r2, n1, i1, q1, q2, q3, bg

Handles == {h1, h2} \cap Call

MCMode == [k \in Call |-> IF k \in {r1, r2, i1} THEN "blocking" ELSE "nonblocking"]
MCIdOf == [k \in Call |-> IF k = i1 THEN "id2" ELSE "id1"]
MCTypeOf == [k \in Call |-> IF k \in Handles THEN "events" ELSE "dinosaurs"]

MCCtx == [k \in Call |-> CASE k \in Handles -> bg
                           [] k = r2 -> q2
                           [] k = n1 -> q3
                           [] OTHER -> q1]
MCContext == {MCCtx[k] : k \in Call} \ {bg}

\* The two workers do the same.
WorkersAlike == Permutations(Handles)

MCOuter == [k \in Call |-> IF k = i1 THEN r1 ELSE NoCall]

\* No two strings of the instance collide.
MCHash == [s \in {"id1", "id2", "events", "dinosaurs"} |->
    CASE s = "id1" -> 11 [] s = "id2" -> 12 [] s = "events" -> 1 [] OTHER -> 2]
=============================================================================
