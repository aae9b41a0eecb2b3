------------------------ MODULE ConnectionPoolProofs ------------------------
(***************************************************************************)
(* Proofs about ConnectionPool, for every finite set of tasks, every pool  *)
(* size and every assignment of kinds and locks.                           *)
(***************************************************************************)
EXTENDS ConnectionPool, FiniteSetTheorems, TLAPS

\* Where a task can be, given its kind, and what it still has to do there.
PlaceOK ==
    \A t \in Task :
        /\ pc[t] = "begin" => Begins(t)
        /\ pc[t] \in {"lockbegin", "locking", "unlock"} => Locks(t)
        /\ pc[t] \in {"new", "begin", "lockbegin", "locking", "op", "running"} => left[t] > 0

\* The owner of an advisory lock has got past the wait for it and has the lock's
\* connection; it is under way, unless its client is gone.
OwnerOK ==
    \A k \in DOMAIN owner :
        owner[k] # Nobody =>
            /\ Key[owner[k]] = k /\ Locks(owner[k]) /\ Has(owner[k], "lock")
            /\ \/ pc[owner[k]] \in {"op", "running", "unlock"}
               \/ owner[k] \in gone /\ pc[owner[k]] \in {"resolve", "done"}

\* Only a request can lose its transaction's connection, and it ends there.
LeakedOK == \A t \in leaked : Begins(t) /\ pc[t] = "done"

\* Only requests have a client that can leave.
GoneOK == \A t \in gone : Begins(t)

\* A task whose lock statement failed has left its handler.
DroppedOK == \A t \in dropped : Locks(t) /\ pc[t] \in {"resolve", "done"}

LostOK == LeakedOK /\ GoneOK /\ DroppedOK

Acts(t) == Arrive(t) \/ Step(t) \/ TxIdFails(t) \/ BeginLockFails(t) \/ LockFails(t)
           \/ Disconnect(t) \/ RollbackLock(t)

IInv == TypeOK /\ PlaceOK /\ OwnerOK /\ LostOK /\ ConnsFollowTasks

USE PoolAssumption DEF Goto, Take, Give, Return, Leave, Fails, EndLock, Begins, Locks

LEMMA InitIInv == Init => IInv
BY DEF Init, IInv, TypeOK, PlaceOK, OwnerOK, LostOK, LeakedOK, GoneOK, DroppedOK, ConnsFollowTasks,
   ConnsFollow, Has, PCs, Roles

LEMMA TypeStep == TypeOK /\ PlaceOK /\ [Next]_vars => TypeOK'
<1> SUFFICES ASSUME TypeOK, PlaceOK, [Next]_vars PROVE TypeOK'
    OBVIOUS
<1> USE DEF TypeOK, PCs, Roles
<1>1. ASSUME NEW t \in Task, Arrive(t) \/ BeginTx(t) \/ TxIdFails(t) \/ BeginLock(t)
      PROVE TypeOK'
    BY <1>1 DEF Arrive, BeginTx, TxIdFails, BeginLock
<1>2. ASSUME NEW t \in Task, BeginLockFails(t) \/ LockFails(t) PROVE TypeOK'
    BY <1>2 DEF BeginLockFails, LockFails
<1>3. ASSUME NEW t \in Task, GetLock(t) \/ StartOp(t) \/ GiveUp(t) PROVE TypeOK'
    BY <1>3 DEF GetLock, StartOp, GiveUp
<1>4. ASSUME NEW t \in Task, EndOp(t) PROVE TypeOK'
    <2>1. left[t] - 1 \in Nat
        BY <1>4 DEF EndOp, PlaceOK
    <2>2. left' \in [Task -> Nat]
        BY <1>4, <2>1 DEF EndOp
    <2>3. QED BY <1>4, <2>2 DEF EndOp
<1>5. ASSUME NEW t \in Task, Unlock(t) \/ RollbackLock(t) PROVE TypeOK'
    BY <1>5 DEF Unlock, RollbackLock
<1>6. ASSUME NEW t \in Task, Resolve(t) \/ Disconnect(t) PROVE TypeOK'
    BY <1>6 DEF Resolve, Disconnect
<1>7. CASE UNCHANGED vars
    BY <1>7 DEF vars
<1>8. QED BY <1>1, <1>2, <1>3, <1>4, <1>5, <1>6, <1>7 DEF Next, Step

LEMMA PlaceStep == TypeOK /\ PlaceOK /\ [Next]_vars => PlaceOK'
<1> SUFFICES ASSUME TypeOK, PlaceOK, [Next]_vars PROVE PlaceOK'
    OBVIOUS
<1> USE DEF TypeOK, PlaceOK
<1>1. ASSUME NEW t \in Task, Arrive(t) \/ BeginTx(t) \/ TxIdFails(t) \/ BeginLock(t)
      PROVE PlaceOK'
    BY <1>1 DEF Arrive, BeginTx, TxIdFails, BeginLock
<1>2. ASSUME NEW t \in Task, BeginLockFails(t) \/ LockFails(t) PROVE PlaceOK'
    BY <1>2 DEF BeginLockFails, LockFails
<1>3. ASSUME NEW t \in Task, GetLock(t) \/ StartOp(t) \/ GiveUp(t) PROVE PlaceOK'
    BY <1>3 DEF GetLock, StartOp, GiveUp
<1>4. ASSUME NEW t \in Task, EndOp(t) PROVE PlaceOK'
    BY <1>4 DEF EndOp
<1>5. ASSUME NEW t \in Task, Unlock(t) \/ RollbackLock(t) \/ Resolve(t) \/ Disconnect(t)
      PROVE PlaceOK'
    BY <1>5 DEF Unlock, RollbackLock, Resolve, Disconnect
<1>6. CASE UNCHANGED vars
    BY <1>6 DEF vars
<1>7. QED BY <1>1, <1>2, <1>3, <1>4, <1>5, <1>6 DEF Next, Step

\* A step of a task that changes no owner, keeps the task's lock's connection, and
\* leaves an owner among the places of owners.
LEMMA OwnerKept ==
    ASSUME TypeOK, OwnerOK, NEW t \in Task, UNCHANGED owner, gone \subseteq gone',
           \A u \in Task \ {t} : pc'[u] = pc[u] /\ (Has(u, "lock") => Has(u, "lock")'),
           Has(t, "lock") => Has(t, "lock")',
           pc[t] \in {"op", "running", "unlock"}
               => pc'[t] \in {"op", "running", "unlock"}
                  \/ (t \in gone /\ pc'[t] \in {"resolve", "done"}),
           pc[t] \in {"resolve", "done"} => pc'[t] \in {"resolve", "done"}
    PROVE  OwnerOK'
<1> SUFFICES ASSUME NEW k \in DOMAIN owner, owner[k] # Nobody
             PROVE  /\ Key[owner[k]] = k /\ Locks(owner[k]) /\ Has(owner[k], "lock")'
                    /\ \/ pc'[owner[k]] \in {"op", "running", "unlock"}
                       \/ owner[k] \in gone' /\ pc'[owner[k]] \in {"resolve", "done"}
    BY DEF OwnerOK
<1>1. owner[k] \in Task /\ Key[owner[k]] = k /\ Locks(owner[k]) /\ Has(owner[k], "lock")
    BY DEF TypeOK, OwnerOK
<1>2. \/ pc[owner[k]] \in {"op", "running", "unlock"}
      \/ owner[k] \in gone /\ pc[owner[k]] \in {"resolve", "done"}
    BY DEF OwnerOK
<1>3. CASE owner[k] = t
    BY <1>1, <1>2, <1>3
<1>4. CASE owner[k] # t
    BY <1>1, <1>2, <1>4
<1> QED BY <1>3, <1>4

\* Ending a lock's transaction takes its lock away.
LEMMA OwnerEnded ==
    ASSUME TypeOK, OwnerOK, NEW t \in Task, EndLock(t), UNCHANGED gone,
           \A u \in Task \ {t} : pc'[u] = pc[u]
    PROVE  OwnerOK'
<1>0. DOMAIN owner' = DOMAIN owner
    OBVIOUS
<1> SUFFICES ASSUME NEW k \in DOMAIN owner, owner'[k] # Nobody
             PROVE  /\ Key[owner'[k]] = k /\ Locks(owner'[k]) /\ <<owner'[k], "lock">> \in use'
                    /\ \/ pc'[owner'[k]] \in {"op", "running", "unlock"}
                       \/ owner'[k] \in gone' /\ pc'[owner'[k]] \in {"resolve", "done"}
    BY <1>0 DEF OwnerOK, Has
<1>1. owner'[k] = owner[k] /\ owner[k] # t /\ owner[k] \in Task
    BY DEF TypeOK
<1>2. Key[owner[k]] = k /\ Locks(owner[k]) /\ Has(owner[k], "lock")
    BY <1>1 DEF OwnerOK
<1>3. pc'[owner[k]] = pc[owner[k]] /\ Has(owner[k], "lock")'
    BY <1>1, <1>2 DEF Has
<1>4. owner[k] \in gone <=> owner[k] \in gone'
    OBVIOUS
<1>5. \/ pc[owner[k]] \in {"op", "running", "unlock"}
      \/ owner[k] \in gone /\ pc[owner[k]] \in {"resolve", "done"}
    BY <1>1 DEF OwnerOK
<1> HIDE DEF Locks, EndLock
<1> QED BY <1>1, <1>2, <1>3, <1>4, <1>5 DEF Has

LEMMA OwnerStep == TypeOK /\ PlaceOK /\ OwnerOK /\ ConnsFollowTasks /\ [Next]_vars => OwnerOK'
<1> SUFFICES ASSUME TypeOK, PlaceOK, OwnerOK, ConnsFollowTasks, [Next]_vars PROVE OwnerOK'
    OBVIOUS
<1>0. pc \in [Task -> PCs]
    BY DEF TypeOK
<1>1. ASSUME NEW t \in Task, Arrive(t) \/ BeginTx(t) \/ TxIdFails(t) \/ BeginLock(t)
      PROVE OwnerOK'
    <2>1. UNCHANGED <<owner, gone>>
        BY <1>1 DEF Arrive, BeginTx, TxIdFails, BeginLock
    <2>2. \A u \in Task \ {t} : pc'[u] = pc[u]
        BY <1>0, <1>1 DEF Arrive, BeginTx, TxIdFails, BeginLock
    <2>3. \A u \in Task : Has(u, "lock") => Has(u, "lock")'
        BY <1>1 DEF Arrive, BeginTx, TxIdFails, BeginLock, Has
    <2>4. pc[t] \in {"new", "begin", "lockbegin"}
        BY <1>1 DEF Arrive, BeginTx, TxIdFails, BeginLock
    <2> QED BY <2>1, <2>2, <2>3, <2>4, OwnerKept
<1>2. ASSUME NEW t \in Task, BeginLockFails(t) \/ LockFails(t) PROVE OwnerOK'
    <2>1. UNCHANGED <<owner, gone, use>>
        BY <1>2 DEF BeginLockFails, LockFails
    <2>2. \A u \in Task \ {t} : pc'[u] = pc[u]
        BY <1>0, <1>2 DEF BeginLockFails, LockFails
    <2>3. pc[t] \in {"lockbegin", "locking"}
        BY <1>2 DEF BeginLockFails, LockFails
    <2> QED BY <2>1, <2>2, <2>3, OwnerKept DEF Has
<1>3. ASSUME NEW t \in Task, GetLock(t) PROVE OwnerOK'
    <2>1. /\ UNCHANGED <<gone, use>> /\ pc[t] = "locking"
          /\ Locks(t) /\ Has(t, "lock")
        BY <1>3 DEF GetLock, PlaceOK, ConnsFollowTasks, ConnsFollow
    <2>2. \A u \in Task \ {t} : pc'[u] = pc[u]
        BY <1>0, <1>3 DEF GetLock
    <2>3. CASE UNCHANGED owner
        BY <2>1, <2>2, <2>3, OwnerKept DEF Has
    <2>4. CASE owner' = [owner EXCEPT ![Key[t]] = t] /\ pc' = [pc EXCEPT ![t] = "op"]
        <3>1. \A u \in Task : Has(u, "lock")' <=> Has(u, "lock")
            BY <2>1 DEF Has
        <3>2. DOMAIN owner' = DOMAIN owner /\ Key[t] \in DOMAIN owner
            BY <2>4 DEF TypeOK
        <3> SUFFICES ASSUME NEW k \in DOMAIN owner, owner'[k] # Nobody
                     PROVE  /\ Key[owner'[k]] = k /\ Locks(owner'[k])
                            /\ <<owner'[k], "lock">> \in use'
                            /\ \/ pc'[owner'[k]] \in {"op", "running", "unlock"}
                               \/ /\ owner'[k] \in gone'
                                  /\ pc'[owner'[k]] \in {"resolve", "done"}
            BY <3>2 DEF OwnerOK, Has
        <3>3. CASE k = Key[t]
            <4>1. owner'[k] = t
                BY <2>4, <3>2, <3>3
            <4>2. pc'[t] = "op" /\ Has(t, "lock")'
                BY <1>0, <2>1, <2>4, <3>1
            <4> QED BY <2>1, <3>3, <4>1, <4>2 DEF Has
        <3>4. CASE k # Key[t]
            <4>1. owner'[k] = owner[k] /\ owner[k] \in Task
                BY <2>4, <3>4 DEF TypeOK
            <4>2. Key[owner[k]] = k /\ owner[k] # t
                BY <3>4, <4>1 DEF OwnerOK
            <4>3. /\ Locks(owner[k]) /\ Has(owner[k], "lock")
                  /\ \/ pc[owner[k]] \in {"op", "running", "unlock"}
                     \/ owner[k] \in gone /\ pc[owner[k]] \in {"resolve", "done"}
                BY <4>1 DEF OwnerOK
            <4>4. pc'[owner[k]] = pc[owner[k]] /\ Has(owner[k], "lock")' /\ gone' = gone
                BY <2>1, <2>2, <3>1, <4>1, <4>2, <4>3
            <4> HIDE DEF Locks
            <4> QED BY <4>1, <4>2, <4>3, <4>4 DEF Has
        <3> QED BY <3>3, <3>4
    <2> QED BY <1>3, <2>3, <2>4 DEF GetLock
<1>4. ASSUME NEW t \in Task, StartOp(t) \/ EndOp(t) \/ GiveUp(t) PROVE OwnerOK'
    <2>1. UNCHANGED <<owner, gone>> /\ pc[t] \in {"op", "running"}
        BY <1>4 DEF StartOp, EndOp, GiveUp
    <2>2. \A u \in Task \ {t} : pc'[u] = pc[u]
        BY <1>0, <1>4 DEF StartOp, EndOp, GiveUp
    <2>3. \A u \in Task : Has(u, "lock") => Has(u, "lock")'
        BY <1>4 DEF StartOp, EndOp, GiveUp, Has
    <2>4. Locks(t) => pc'[t] \in {"op", "running", "unlock"}
        BY <1>0, <1>4 DEF StartOp, EndOp, GiveUp
    <2>5. CASE Locks(t)
        BY <2>1, <2>2, <2>3, <2>4, <2>5, OwnerKept
    <2>6. CASE ~Locks(t)
        <3>1. \A k \in DOMAIN owner : owner[k] # Nobody => owner[k] \in Task \ {t}
            BY <2>6 DEF OwnerOK, TypeOK
        <3> QED BY <2>1, <2>2, <2>3, <3>1 DEF OwnerOK
    <2> QED BY <2>5, <2>6
<1>5. ASSUME NEW t \in Task, Unlock(t) PROVE OwnerOK'
    <2>1. UNCHANGED gone /\ pc[t] = "unlock" /\ pc'[t] \in {"resolve", "done"}
        BY <1>0, <1>5 DEF Unlock
    <2>2. \A u \in Task \ {t} : pc'[u] = pc[u]
        BY <1>0, <1>5 DEF Unlock
    <2>3. CASE t \in gone
        <3>1. UNCHANGED <<use, owner>>
            BY <1>5, <2>3 DEF Unlock
        <3> QED BY <2>1, <2>2, <2>3, <3>1, OwnerKept DEF Has
    <2>4. CASE t \notin gone
        <3>1. EndLock(t)
            BY <1>5, <2>4 DEF Unlock
        <3> QED BY <2>1, <2>2, <3>1, OwnerEnded
    <2> QED BY <2>3, <2>4
<1>6. ASSUME NEW t \in Task, RollbackLock(t) PROVE OwnerOK'
    <2>1. EndLock(t) /\ UNCHANGED <<pc, gone>>
        BY <1>6 DEF RollbackLock
    <2> QED BY <2>1, OwnerEnded
<1>7. ASSUME NEW t \in Task, Resolve(t) \/ Disconnect(t) PROVE OwnerOK'
    <2>1. UNCHANGED owner /\ gone \subseteq gone'
        BY <1>7 DEF Resolve, Disconnect
    <2>2. \A u \in Task : pc'[u] = pc[u] \/ (u = t /\ pc[u] = "resolve" /\ pc'[u] = "done")
        BY <1>0, <1>7 DEF Resolve, Disconnect
    <2>3. \A u \in Task : Has(u, "lock") => Has(u, "lock")'
        BY <1>7 DEF Resolve, Disconnect, Has
    <2> QED BY <2>1, <2>2, <2>3, OwnerKept
<1>8. CASE UNCHANGED vars
    BY <1>8 DEF OwnerOK, Has, vars
<1>9. QED BY <1>1, <1>2, <1>3, <1>4, <1>5, <1>6, <1>7, <1>8 DEF Next, Step

LEMMA LostStep == TypeOK /\ PlaceOK /\ LostOK /\ [Next]_vars => LostOK'
<1> SUFFICES ASSUME TypeOK, PlaceOK, LostOK, [Next]_vars PROVE LostOK'
    OBVIOUS
<1> USE DEF TypeOK, PlaceOK, LostOK, LeakedOK, GoneOK, DroppedOK
<1>1. ASSUME NEW t \in Task, Arrive(t) \/ BeginTx(t) \/ TxIdFails(t) \/ BeginLock(t)
      PROVE LostOK'
    BY <1>1 DEF Arrive, BeginTx, TxIdFails, BeginLock
<1>2. ASSUME NEW t \in Task, BeginLockFails(t) \/ LockFails(t) PROVE LostOK'
    BY <1>2 DEF BeginLockFails, LockFails
<1>3. ASSUME NEW t \in Task, GetLock(t) \/ StartOp(t) \/ EndOp(t) \/ GiveUp(t)
      PROVE LostOK'
    BY <1>3 DEF GetLock, StartOp, EndOp, GiveUp
<1>4. ASSUME NEW t \in Task, Unlock(t) \/ RollbackLock(t) \/ Resolve(t) \/ Disconnect(t)
      PROVE LostOK'
    BY <1>4 DEF Unlock, RollbackLock, Resolve, Disconnect
<1>5. CASE UNCHANGED vars
    BY <1>5 DEF vars
<1>6. QED BY <1>1, <1>2, <1>3, <1>4, <1>5 DEF Next, Step

\* A task's step leaves the others and their connections alone.
LEMMA OthersKeep ==
    ASSUME TypeOK, NEW t \in Task, Acts(t), NEW u \in Task, u # t
    PROVE  /\ pc'[u] = pc[u] /\ (u \in leaked' <=> u \in leaked) /\ (u \in gone' <=> u \in gone)
           /\ (u \in dropped' <=> u \in dropped)
           /\ \A role \in Roles : Has(u, role)' <=> Has(u, role)
<1> USE DEF Acts, Step
<1>1. \E role \in Roles : use' \in {use, use \cup {<<t, role>>}, use \ {<<t, role>>}}
  BY DEF Arrive, BeginTx, TxIdFails, BeginLock, BeginLockFails, GetLock, LockFails, StartOp,
         EndOp, GiveUp, Unlock, RollbackLock, Resolve, Disconnect, Roles
<1>2. \E to \in PCs : pc' \in {pc, [pc EXCEPT ![t] = to]}
  <2>1. CASE Arrive(t) \/ BeginTx(t) \/ TxIdFails(t) \/ BeginLock(t)
    BY <2>1 DEF Arrive, BeginTx, TxIdFails, BeginLock, PCs
  <2>2. CASE GetLock(t) \/ StartOp(t) \/ EndOp(t) \/ BeginLockFails(t) \/ LockFails(t)
    BY <2>2 DEF GetLock, StartOp, EndOp, BeginLockFails, LockFails, PCs
  <2>3. CASE GiveUp(t) \/ Unlock(t) \/ RollbackLock(t) \/ Resolve(t) \/ Disconnect(t)
    BY <2>3 DEF GiveUp, Unlock, RollbackLock, Resolve, Disconnect, PCs
  <2> QED BY <2>1, <2>2, <2>3
<1>3. /\ leaked' \in {leaked, leaked \cup {t}} /\ gone' \in {gone, gone \cup {t}}
      /\ dropped' \in {dropped, dropped \cup {t}}
  BY DEF Arrive, BeginTx, TxIdFails, BeginLock, BeginLockFails, GetLock, LockFails, StartOp,
         EndOp, GiveUp, Unlock, RollbackLock, Resolve, Disconnect
<1>4. pc'[u] = pc[u]
  BY <1>2 DEF TypeOK
<1>5. \A role \in Roles : Has(u, role)' <=> Has(u, role)
  BY <1>1 DEF Has
<1> QED BY <1>3, <1>4, <1>5

LEMMA ConnsStep == IInv /\ [Next]_vars => ConnsFollowTasks'
<1> SUFFICES ASSUME IInv, [Next]_vars PROVE ConnsFollowTasks'
  OBVIOUS
<1>1. ASSUME NEW t \in Task, Acts(t), NEW u \in Task, u # t PROVE ConnsFollow(u)'
  <2>1. TypeOK /\ ConnsFollow(u)
    BY DEF IInv, ConnsFollowTasks
  <2>2. {"tx", "lock", "op"} \subseteq Roles
    BY DEF Roles
  <2> QED BY <1>1, <2>1, <2>2, OthersKeep DEF ConnsFollow, RollbackDue, ContextDone
<1>2. ASSUME NEW t \in Task, Acts(t) PROVE ConnsFollow(t)'
  <2>1. /\ ConnsFollow(t) /\ pc \in [Task -> PCs]
        /\ t \in leaked => Begins(t) /\ pc[t] = "done"
        /\ t \in gone => Begins(t)
        /\ t \in dropped => pc[t] \in {"resolve", "done"}
        /\ pc[t] = "begin" => Begins(t)
        /\ pc[t] \in {"lockbegin", "locking", "unlock"} => Locks(t)
    BY DEF IInv, ConnsFollowTasks, TypeOK, LostOK, LeakedOK, GoneOK, DroppedOK, PlaceOK
  <2> HIDE DEF IInv
  <2> USE <2>1 DEF ConnsFollow, Has, RollbackDue, ContextDone
  <2>2. CASE Arrive(t)
    BY <2>2 DEF Arrive
  <2>3. CASE BeginTx(t)
    BY <2>3 DEF BeginTx
  <2>4. CASE TxIdFails(t)
    BY <2>4 DEF TxIdFails
  <2>5. CASE BeginLock(t)
    BY <2>5 DEF BeginLock
  <2>6. CASE BeginLockFails(t)
    <3>1. /\ pc[t] = "lockbegin" /\ UNCHANGED <<use, gone, leaked, dropped>>
          /\ pc'[t] = IF Begins(t) THEN "resolve" ELSE "done"
      BY <2>6 DEF BeginLockFails
    <3> QED BY <3>1
  <2>7. CASE GetLock(t)
    <3>1. /\ pc[t] = "locking" /\ pc'[t] \in {"op", "unlock"}
          /\ UNCHANGED <<use, gone, leaked, dropped>>
      BY <2>7 DEF GetLock
    <3> QED BY <3>1
  <2>8. CASE LockFails(t)
    <3>1. /\ pc[t] = "locking" /\ UNCHANGED <<use, gone, leaked>>
          /\ dropped' = dropped \cup {t}
          /\ pc'[t] = IF Begins(t) THEN "resolve" ELSE "done"
      BY <2>8 DEF LockFails
    <3> QED BY <3>1
  <2>9. CASE StartOp(t)
    BY <2>9 DEF StartOp
  <2>10. CASE EndOp(t) \/ GiveUp(t)
    <3>1. /\ pc[t] \in {"op", "running"} /\ UNCHANGED <<gone, leaked, dropped>>
          /\ use' = use \ {<<t, "op">>}
          /\ \/ pc'[t] = "op" /\ pc[t] = "running"
             \/ pc'[t] = "unlock" /\ Locks(t)
             \/ pc'[t] = "resolve" /\ ~Locks(t)
      <4>1. CASE EndOp(t)
        BY <4>1 DEF EndOp
      <4>2. CASE GiveUp(t)
        BY <4>2 DEF GiveUp
      <4> QED BY <2>10, <4>1, <4>2
    <3> QED BY <3>1
  <2>11. CASE Unlock(t)
    <3>1. /\ pc[t] = "unlock" /\ UNCHANGED <<gone, leaked, dropped>>
          /\ use' = IF t \in gone THEN use ELSE use \ {<<t, "lock">>}
          /\ pc'[t] = IF Begins(t) THEN "resolve" ELSE "done"
      BY <2>11 DEF Unlock
    <3> QED BY <3>1
  <2>12. CASE RollbackLock(t)
    BY <2>12 DEF RollbackLock
  <2>13. CASE Resolve(t)
    BY <2>13 DEF Resolve
  <2>14. CASE Disconnect(t)
    BY <2>14 DEF Disconnect
  <2> QED BY <1>2, <2>2, <2>3, <2>4, <2>5, <2>6, <2>7, <2>8, <2>9, <2>10, <2>11, <2>12, <2>13,
             <2>14
          DEF Acts, Step
<1>3. CASE UNCHANGED vars
  BY <1>3 DEF IInv, ConnsFollowTasks, ConnsFollow, Has, RollbackDue, ContextDone, vars
<1>4. ASSUME NEW t \in Task, Acts(t) PROVE ConnsFollowTasks'
  BY <1>1, <1>2, <1>4 DEF ConnsFollowTasks
<1> QED BY <1>3, <1>4 DEF Next, Acts

\* The inductive invariant holds throughout.
LEMMA Inductive == Spec => []IInv
<1>1. IInv /\ [Next]_vars => IInv'
    BY TypeStep, PlaceStep, OwnerStep, LostStep, ConnsStep DEF IInv
<1>2. QED BY InitIInv, <1>1, PTL DEF Spec
-----------------------------------------------------------------------------
LEMMA MayHoldFinite == IsFiniteSet(MayHold)
<1> DEFINE B == {t \in Task : Begins(t)}
           L == {t \in Task : Locks(t)}
<1>1. IsFiniteSet(B) /\ IsFiniteSet(L)
    BY FS_Subset
<1>2. IsFiniteSet({"tx"}) /\ IsFiniteSet({"lock"})
    BY FS_Singleton
<1>3. IsFiniteSet(B \X {"tx"}) /\ IsFiniteSet(L \X {"lock"})
    BY <1>1, <1>2, FS_Product
<1>4. QED BY <1>3, FS_Union DEF MayHold

\* While no operation runs, the pool has lent no more than tasks may hold while
\* they wait; so a pool with more connections than that has one left.
LEMMA QuietPoolHasRoom ==
    ASSUME IInv, \A t \in Task : pc[t] # "running",
           Cardinality(MayHold) < MaxOpenConnections
    PROVE  Free
<1>1. use \subseteq MayHold
    <2> SUFFICES ASSUME NEW u \in use PROVE u \in MayHold
        OBVIOUS
    <2>1. PICK t \in Task, role \in Roles : u = <<t, role>>
        BY DEF IInv, TypeOK
    <2>2. role # "op"
        BY <2>1 DEF IInv, ConnsFollowTasks, ConnsFollow, Has
    <2>3. CASE role = "tx"
        <3>1. Begins(t)
            BY <2>1, <2>3 DEF IInv, ConnsFollowTasks, ConnsFollow, Has, LostOK, LeakedOK
        <3>2. QED BY <2>1, <2>3, <3>1 DEF MayHold
    <2>4. CASE role = "lock"
        <3>1. Locks(t)
            BY <2>1, <2>4 DEF IInv, ConnsFollowTasks, ConnsFollow, Has
        <3>2. QED BY <2>1, <2>4, <3>1 DEF MayHold
    <2>5. QED BY <2>2, <2>3, <2>4 DEF Roles
<1>2. Cardinality(use) <= Cardinality(MayHold)
    BY <1>1, MayHoldFinite, FS_Subset
<1>3. Cardinality(use) \in Nat /\ Cardinality(MayHold) \in Nat
    BY <1>1, MayHoldFinite, FS_Subset, FS_CardinalityType
<1>4. QED BY <1>2, <1>3 DEF Free

\* A task that waits for an advisory lock waits for one that is under way and
\* does not itself wait for a lock.
LEMMA OwnerIsAhead ==
    ASSUME IInv, NEW t \in Task, WaitsForLock(t)
    PROVE  \E o \in Task : pc[o] \in {"op", "running", "unlock"} /\ ~WaitsForLock(o)
<1>1. owner[Key[t]] \in Task /\ owner[Key[t]] # Nobody
    BY DEF WaitsForLock, IInv, TypeOK
<1>2. pc[owner[Key[t]]] \in {"op", "running", "unlock"}
    BY <1>1 DEF WaitsForLock, IInv, TypeOK, OwnerOK, LostOK, GoneOK, RollbackDue, ContextDone
<1>3. QED BY <1>1, <1>2 DEF WaitsForLock

LEMMA IInvNeverAllWaiting == IInv => NeverAllWaiting
<1> SUFFICES ASSUME IInv, Cardinality(MayHold) < MaxOpenConnections,
                    NEW u \in Task, pc[u] \notin {"new", "done"}
             PROVE  \E t \in Task : /\ pc[t] \notin {"new", "done"}
                                    /\ ~WaitsForLock(t)
                                    /\ (WaitsForConn(t) => Free)
    BY DEF NeverAllWaiting
<1>1. PICK v \in Task : pc[v] \notin {"new", "done"} /\ ~WaitsForLock(v)
    BY OwnerIsAhead
<1>2. CASE \E t \in Task : pc[t] = "running"
    BY <1>2 DEF WaitsForLock, WaitsForConn
<1>3. CASE \A t \in Task : pc[t] # "running"
    BY <1>1, <1>3, QuietPoolHasRoom
<1>4. QED BY <1>2, <1>3
-----------------------------------------------------------------------------
\* Every variable keeps its type.
THEOREM TypeCorrect == Spec => []TypeOK
<1>1. IInv => TypeOK
    BY DEF IInv
<1>2. QED BY <1>1, Inductive, PTL

\* Connections follow their tasks on every path through the handlers, whatever
\* fails.  Those that no caller ends any more are the ones ConnsFollow names: the
\* transaction whose id could not be read, the lock's transaction whose statement
\* failed, and the one that Unlock found under a context that was done.
THEOREM ConnsFollowTasksHolds == Spec => []ConnsFollowTasks
<1>1. IInv => ConnsFollowTasks
    BY DEF IInv
<1>2. QED BY <1>1, Inductive, PTL

\* SetMaxOpenConns with more connections than the tasks under way may hold while
\* they wait rules out that they all wait for each other, however the advisory
\* locks are shared and whatever fails.
THEOREM NeverAllWaitingHolds == Spec => []NeverAllWaiting
BY Inductive, IInvNeverAllWaiting, PTL
=============================================================================
