---------------------------- MODULE LockService ----------------------------
(***************************************************************************)
(* What LockFactory promises its callers, whatever PostgreSQL, the         *)
(* connection pool and the factory's registry do underneath: each call for *)
(* a lock is granted it, refused it or fails, at most one call has a given *)
(* lock at a time, which is what "advisory locks are used for concurrency  *)
(* when doing background work" (pkg/controllers/framework.go) relies on,   *)
(* and a call is refused only if another one contends.                     *)
(***************************************************************************)

CONSTANTS Call,    \* the activations of NewAdvisoryLock / NewNonBlockingLock
          KeyOf    \* [Call -> the lock it asks for]

VARIABLE phase     \* [Call -> how far the call has got]

Phases == {"idle", "asking", "held", "refused", "failed", "over"}

LockTypeOK == phase \in [Call -> Phases]

Rivals(k) == {j \in Call \ {k} : KeyOf[j] = KeyOf[k]}

LockInit == phase = [k \in Call |-> "idle"]

Become(k, from, to) ==
    /\ phase[k] \in from
    /\ phase' = [phase EXCEPT ![k] = to]

Ask(k) == Become(k, {"idle"}, "asking")

Grant(k) ==
    /\ \A j \in Rivals(k) : phase[j] # "held"
    /\ Become(k, {"asking"}, "held")

Refuse(k) ==
    /\ \E j \in Rivals(k) : phase[j] \in {"asking", "held"}
    /\ Become(k, {"asking"}, "refused")

Fail(k) == Become(k, {"idle", "asking"}, "failed")

\* The owner unlocks, or loses the lock with its database session.
End(k) == Become(k, {"held"}, "over")

LockNext == \E k \in Call : Ask(k) \/ Grant(k) \/ Refuse(k) \/ Fail(k) \/ End(k)

LockSpec == LockInit /\ [][LockNext]_phase
=============================================================================
