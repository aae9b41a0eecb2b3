------------------------ MODULE AdvisoryLocksProofs ------------------------
(***************************************************************************)
(* Proofs about AdvisoryLocks, for every set of calls, every nesting, every*)
(* hash and every assignment of contexts.                                  *)
(***************************************************************************)
EXTENDS AdvisoryLocks, TLAPS

\* What the server's lock table and the client's bookkeeping owe each other.
LockTableOK ==
    /\ \A k \in granted :
          /\ tx[k] = "open"
          /\ \/ pc[k] = "acquired"
             \/ pc[k] \in {"holding", "unlocking"} /\ result[k] = "locked"
             \/ pc[k] \in {"deleting", "done"} /\ result[k] = "locked" /\ Cancelled(k)
    /\ \A k \in Call : pc[k] \in {"acquired", "holding"} /\ tx[k] = "open" => k \in granted
    /\ \A j, k \in granted : KeyOf[j] = KeyOf[k] => j = k

\* How the transaction, the result and the registry entry follow the call.
BookkeepingOK ==
    \A k \in Call :
        /\ pc[k] = "idle" => tx[k] = "none"
        /\ pc[k] = "deleting" => ~TxLive(k) \/ Cancelled(k)
        /\ tx[k] = "aborted" => result[k] = "error"
        /\ result[k] = "error" => pc[k] \in {"failed", "done"}
        /\ pc[k] = "failed" => result[k] = "error"
        /\ pc[k] \in {"idle", "begun", "waiting", "acquired", "denied"} => result[k] = "none"
        /\ pc[k] = "holding" => result[k] = "locked"
        /\ pc[k] = "refused" => result[k] = "refused"
        /\ pc[k] \in {"holding", "refused", "unlocking", "deleting"} => k \in registered
        /\ k \in registered =>
              \/ pc[k] \in {"holding", "refused", "unlocking", "deleting"}
              \/ pc[k] = "done" /\ result[k] = "refused" /\ k \notin DeferFirst
        /\ pc[k] = "done" /\ TxLive(k) => Ctx[k] # Background \/ result[k] = "error"

IInv == TypeOK /\ LockTableOK /\ BookkeepingOK

\* The moves of a call and of its environment, each with the facts it needs.
USE DEF Goto, Return, Cancelled, TxLive, Waiters, Holders

LEMMA InitIInv == Init => IInv
BY DEF Init, IInv, TypeOK, LockTableOK, BookkeepingOK, PCs, Results, TxStates

LEMMA TypeStep == TypeOK /\ [Next]_vars => TypeOK'
<1> SUFFICES ASSUME TypeOK, [Next]_vars PROVE TypeOK'
    OBVIOUS
<1> USE DEF TypeOK, PCs, Results, TxStates
<1>1. ASSUME NEW k \in Call, Begin(k) \/ BeginFails(k) PROVE TypeOK'
    BY <1>1 DEF Begin, BeginFails
<1>2. ASSUME NEW k \in Call, Step(k) PROVE TypeOK'
    BY <1>2 DEF Step, RequestLock, ServerGrants, TryLock, LockOnDeadTx, Register,
                UnlockLookup, ReturnEarly, UnlockCommit, UnlockDelete
<1>3. ASSUME NEW k \in Call, LockError(k) \/ RollbackCancelled(k) \/ SessionLost(k)
      PROVE TypeOK'
    BY <1>3 DEF LockError, RollbackCancelled, SessionLost
<1>4. ASSUME NEW x \in Context, CancelContext(x) PROVE TypeOK'
    BY <1>4 DEF CancelContext
<1>5. CASE UNCHANGED vars
    BY <1>5 DEF vars
<1>6. QED BY <1>1, <1>2, <1>3, <1>4, <1>5 DEF Next

LEMMA LockTableStep == IInv /\ [Next]_vars => LockTableOK'
<1> SUFFICES ASSUME IInv, [Next]_vars PROVE LockTableOK'
    OBVIOUS
<1> USE DEF IInv, TypeOK, LockTableOK
<1>1. ASSUME NEW k \in Call, Begin(k) \/ BeginFails(k) PROVE LockTableOK'
    BY <1>1 DEF Begin, BeginFails
<1>2. ASSUME NEW k \in Call, RequestLock(k) \/ LockOnDeadTx(k) \/ LockError(k)
      PROVE LockTableOK'
    BY <1>2 DEF RequestLock, LockOnDeadTx, LockError
<1>3. ASSUME NEW k \in Call, ServerGrants(k) PROVE LockTableOK'
    BY <1>3 DEF ServerGrants
<1>4. ASSUME NEW k \in Call, TryLock(k) PROVE LockTableOK'
    BY <1>4 DEF TryLock
<1>5. ASSUME NEW k \in Call, Register(k) PROVE LockTableOK'
    BY <1>5 DEF Register
<1>6. ASSUME NEW k \in Call, UnlockLookup(k) \/ ReturnEarly(k) PROVE LockTableOK'
    BY <1>6 DEF UnlockLookup, ReturnEarly, BookkeepingOK
<1>7. ASSUME NEW k \in Call, UnlockCommit(k) \/ UnlockDelete(k) PROVE LockTableOK'
    <2>1. CASE UnlockCommit(k) /\ tx[k] = "open" /\ ~Cancelled(k)
        BY <2>1 DEF UnlockCommit
    <2>2. CASE UnlockCommit(k) /\ ~(tx[k] = "open" /\ ~Cancelled(k))
        BY <2>2 DEF UnlockCommit
    <2>3. CASE UnlockDelete(k)
        BY <2>3 DEF UnlockDelete
    <2> QED BY <1>7, <2>1, <2>2, <2>3
<1>8. ASSUME NEW k \in Call, RollbackCancelled(k) \/ SessionLost(k) PROVE LockTableOK'
    BY <1>8 DEF RollbackCancelled, SessionLost
<1>9. ASSUME NEW x \in Context, CancelContext(x) PROVE LockTableOK'
    BY <1>9 DEF CancelContext
<1>10. CASE UNCHANGED vars
    BY <1>10 DEF vars
<1>11. QED
    BY <1>1, <1>2, <1>3, <1>4, <1>5, <1>6, <1>7, <1>8, <1>9, <1>10 DEF Next, Step

LEMMA BookkeepingStep == IInv /\ [Next]_vars => BookkeepingOK'
<1> SUFFICES ASSUME IInv, [Next]_vars PROVE BookkeepingOK'
    OBVIOUS
<1> USE CallAssumption, BackgroundDefers DEF IInv, TypeOK, BookkeepingOK
<1>1. ASSUME NEW k \in Call, Begin(k) \/ BeginFails(k) PROVE BookkeepingOK'
    BY <1>1 DEF Begin, BeginFails
<1>2. ASSUME NEW k \in Call, RequestLock(k) \/ LockOnDeadTx(k) \/ LockError(k)
      PROVE BookkeepingOK'
    BY <1>2 DEF RequestLock, LockOnDeadTx, LockError
<1>3. ASSUME NEW k \in Call, ServerGrants(k) \/ TryLock(k) PROVE BookkeepingOK'
    BY <1>3 DEF ServerGrants, TryLock
<1>4. ASSUME NEW k \in Call, Register(k) PROVE BookkeepingOK'
    BY <1>4 DEF Register
<1>5. ASSUME NEW k \in Call, UnlockLookup(k) \/ ReturnEarly(k) PROVE BookkeepingOK'
    BY <1>5 DEF UnlockLookup, ReturnEarly
<1>6. ASSUME NEW k \in Call, UnlockCommit(k) \/ UnlockDelete(k) PROVE BookkeepingOK'
    <2>1. CASE UnlockCommit(k) /\ tx[k] = "open" /\ ~Cancelled(k)
        BY <2>1 DEF UnlockCommit
    <2>2. CASE UnlockCommit(k) /\ ~(tx[k] = "open" /\ ~Cancelled(k))
        BY <2>2 DEF UnlockCommit
    <2>3. CASE UnlockDelete(k)
        BY <2>3 DEF UnlockDelete
    <2> QED BY <1>6, <2>1, <2>2, <2>3
<1>7. ASSUME NEW k \in Call, RollbackCancelled(k) \/ SessionLost(k) PROVE BookkeepingOK'
    BY <1>7 DEF RollbackCancelled, SessionLost
<1>8. ASSUME NEW x \in Context, CancelContext(x) PROVE BookkeepingOK'
    BY <1>8 DEF CancelContext
<1>9. CASE UNCHANGED vars
    BY <1>9 DEF vars
<1>10. QED
    BY <1>1, <1>2, <1>3, <1>4, <1>5, <1>6, <1>7, <1>8, <1>9 DEF Next, Step

\* The inductive invariant holds throughout.
LEMMA Inductive == Spec => []IInv
<1>1. IInv /\ [Next]_vars => IInv'
    BY TypeStep, LockTableStep, BookkeepingStep DEF IInv
<1>2. QED BY InitIInv, <1>1, PTL DEF Spec

\* Every variable keeps its type.
THEOREM TypeCorrect == Spec => []TypeOK
<1>1. IInv => TypeOK
    BY DEF IInv
<1>2. QED BY Inductive, <1>1, PTL

\* Two callers that were told they own one lock, and whose sessions live, are
\* one caller: Handle processes an event, and Replace changes a dinosaur, alone.
THEOREM MutualExclusionHolds == Spec => []MutualExclusion
<1>1. IInv => MutualExclusion
    BY DEF IInv, LockTableOK, MutualExclusion, InCritical, Intact
<1>2. QED BY Inductive, <1>1, PTL

\* An advisory lock that its caller has left in pg_locks is in a transaction whose
\* context is done, which database/sql is to roll back; every other one is released
\* before its caller returns, on any path and after any failure.
THEOREM NoUnreleasedLocksHolds == Spec => []NoUnreleasedLocks
<1>1. IInv => NoUnreleasedLocks
    BY DEF IInv, LockTableOK, NoUnreleasedLocks
<1>2. QED BY Inductive, <1>1, PTL

\* The transactions that outlive their callers are those of request contexts
\* and those whose lock statement failed, no others.
THEOREM AbandonedTxHolds == Spec => []AbandonedTx
<1>1. IInv => AbandonedTx
    BY DEF IInv, BookkeepingOK, AbandonedTx
<1>2. QED BY Inductive, <1>1, PTL

\* f.locks grows only by the refusals of callers that return before their
\* defer statement.
THEOREM RegistryCleanHolds == Spec => []RegistryClean
<1>1. IInv => RegistryClean
    BY DEF IInv, TypeOK, BookkeepingOK, RegistryClean
<1>2. QED BY Inductive, <1>1, PTL
-----------------------------------------------------------------------------
\* FNV-1a keeps the locks of the calls apart: 64 bits of key for an id and a type.
NoCollision == \A j, k \in Call : KeyOf[j] = KeyOf[k] => SameLock(j, k)

\* Only TryLock denies a lock, and only to who meets a holder or a waiter of its key.
LEMMA DeniedMeetsARival ==
    ASSUME NoCollision, IInv, [Next]_vars, NEW k \in Call, pc[k] = "begun", pc'[k] = "denied"
    PROVE  \E j \in Call \ {k} : SameLock(j, k) /\ Contends(j)
<1> USE DEF IInv, TypeOK
<1>1. TryLock(k)
    <2>1. ASSUME NEW i \in Call,
                 \/ Begin(i) \/ BeginFails(i) \/ LockError(i) \/ RollbackCancelled(i)
                 \/ SessionLost(i) \/ Step(i)
          PROVE  TryLock(k)
        BY <2>1 DEF Begin, BeginFails, LockError, RollbackCancelled, SessionLost, Step,
                    RequestLock, ServerGrants, TryLock, LockOnDeadTx, Register, UnlockLookup,
                    ReturnEarly, UnlockCommit, UnlockDelete
    <2>2. ASSUME NEW x \in Context, CancelContext(x) PROVE FALSE
        BY <2>2 DEF CancelContext
    <2>3. CASE UNCHANGED vars
        BY <2>3 DEF vars
    <2>4. QED BY <2>1, <2>2, <2>3 DEF Next
<1>2. PICK j \in Call : KeyOf[j] = KeyOf[k] /\ (j \in granted \/ pc[j] = "waiting")
    BY <1>1 DEF TryLock
<1>3. pc[j] \notin {"idle", "begun"} /\ (pc[j] = "done" => j \in granted /\ Cancelled(j))
    BY <1>2 DEF LockTableOK
<1>4. QED BY <1>2, <1>3 DEF NoCollision, Contends

\* Where no two locks hash to one key, a refusal is always the doing of another
\* call that contends for the lock's own (id, lockType), or whose lock database/sql
\* is still to roll back: Handle never drops an event, nor Replace a change, because
\* of somebody else's lock.
THEOREM RefusedByItsOwnLockHolds ==
    ASSUME NoCollision
    PROVE  Spec => RefusedByItsOwnLock
<1>1. IInv /\ [Next]_vars =>
         [\A k \in Call : pc[k] = "begun" /\ pc'[k] = "denied" =>
             \E j \in Call \ {k} : SameLock(j, k) /\ Contends(j)]_vars
    BY DeniedMeetsARival
<1>2. QED BY Inductive, <1>1, PTL DEF Spec, RefusedByItsOwnLock
-----------------------------------------------------------------------------
\* The factory implements the abstract lock service.
Phase == [k \in Call |-> PhaseOf(k)]

\* A step of one call leaves the others' phases alone when it leaves their pc,
\* result and lock alone.
LEMMA OthersKeepPhase ==
    ASSUME TypeOK, TypeOK', NEW k \in Call,
           \A j \in Call \ {k} : /\ pc'[j] = pc[j]
                                 /\ result'[j] = result[j]
                                 /\ j \in granted' <=> j \in granted
    PROVE  Phase' = [Phase EXCEPT ![k] = PhaseOf(k)']
<1>1. \A j \in Call \ {k} : PhaseOf(j)' = PhaseOf(j)
    BY DEF PhaseOf
<1>2. QED BY <1>1 DEF Phase

\* Every step of the factory is a step of the abstract service, or none.
LEMMA StepRefines ==
    IInv /\ [Next]_vars => [Service!LockNext]_Phase
<1> SUFFICES ASSUME IInv, [Next]_vars PROVE [Service!LockNext]_Phase
    OBVIOUS
<1>0. TypeOK /\ TypeOK'
    BY TypeStep DEF IInv
<1> DEFINE Moves(k, to) == Phase' = [Phase EXCEPT ![k] = to]
<1>a. \A k \in Call : Phase[k] = PhaseOf(k)
    BY DEF Phase
<1>b. ASSUME NEW k \in Call, PhaseOf(k)' = PhaseOf(k), Moves(k, PhaseOf(k)')
      PROVE Phase' = Phase
    BY <1>b DEF Phase
<1>1. ASSUME NEW k \in Call, Begin(k) PROVE [Service!LockNext]_Phase
    <2>1. Moves(k, PhaseOf(k)')
        BY <1>0, <1>1, OthersKeepPhase DEF Begin, TypeOK
    <2>2. PhaseOf(k) = "idle" /\ PhaseOf(k)' = "asking"
        BY <1>0, <1>1 DEF Begin, TypeOK, IInv, LockTableOK, PhaseOf
    <2>3. Service!Ask(k)
        BY <1>a, <2>1, <2>2 DEF Service!Ask, Service!Become, Phase
    <2>4. QED BY <2>3 DEF Service!LockNext
<1>2. ASSUME NEW k \in Call, BeginFails(k) PROVE [Service!LockNext]_Phase
    <2>1. Moves(k, PhaseOf(k)')
        BY <1>0, <1>2, OthersKeepPhase DEF BeginFails, TypeOK
    <2>2. PhaseOf(k) = "idle" /\ PhaseOf(k)' = "failed"
        BY <1>0, <1>2 DEF BeginFails, TypeOK, IInv, LockTableOK, PhaseOf
    <2>3. Service!Fail(k)
        BY <1>a, <2>1, <2>2 DEF Service!Fail, Service!Become, Phase
    <2>4. QED BY <2>3 DEF Service!LockNext
<1>3. ASSUME NEW k \in Call, LockError(k) \/ LockOnDeadTx(k)
      PROVE [Service!LockNext]_Phase
    <2>1. Moves(k, PhaseOf(k)')
        BY <1>0, <1>3, OthersKeepPhase DEF LockError, LockOnDeadTx, TypeOK
    <2>2. PhaseOf(k) = "asking" /\ PhaseOf(k)' = "failed"
        BY <1>0, <1>3 DEF LockError, LockOnDeadTx, TypeOK, IInv, LockTableOK, PhaseOf
    <2>3. Service!Fail(k)
        BY <1>a, <2>1, <2>2 DEF Service!Fail, Service!Become, Phase
    <2>4. QED BY <2>3 DEF Service!LockNext
<1>4. ASSUME NEW k \in Call, granted' = granted \cup {k}, pc[k] \in {"begun", "waiting"},
             pc' = [pc EXCEPT ![k] = "acquired"], result' = result,
             Holders(KeyOf[k]) = {}
      PROVE  [Service!LockNext]_Phase
    <2>1. Moves(k, PhaseOf(k)')
        BY <1>0, <1>4, OthersKeepPhase DEF TypeOK
    <2>2. PhaseOf(k) = "asking" /\ PhaseOf(k)' = "held"
        BY <1>0, <1>4 DEF TypeOK, IInv, LockTableOK, PhaseOf
    <2>3. \A j \in Service!Rivals(k) : Phase[j] # "held"
        BY <1>4, <1>a DEF Service!Rivals, PhaseOf
    <2>4. Service!Grant(k)
        BY <1>a, <2>1, <2>2, <2>3 DEF Service!Grant, Service!Become, Phase
    <2>5. QED BY <2>4 DEF Service!LockNext
<1>5. ASSUME NEW k \in Call, granted' = granted, pc[k] = "begun",
             pc' = [pc EXCEPT ![k] = "denied"], result' = result,
             Holders(KeyOf[k]) \cup Waiters(KeyOf[k]) # {}
      PROVE  [Service!LockNext]_Phase
    <2>1. Moves(k, PhaseOf(k)')
        BY <1>0, <1>5, OthersKeepPhase DEF TypeOK
    <2>2. PhaseOf(k) = "asking" /\ PhaseOf(k)' = "refused"
        BY <1>0, <1>5 DEF TypeOK, IInv, LockTableOK, PhaseOf
    <2>3. PICK j \in Call : KeyOf[j] = KeyOf[k] /\ (j \in granted \/ pc[j] = "waiting")
        BY <1>5 DEF IInv, TypeOK
    <2>4. j \in Service!Rivals(k) /\ Phase[j] \in {"asking", "held"}
        BY <1>5, <1>a, <2>3 DEF Service!Rivals, PhaseOf, IInv, LockTableOK
    <2>5. Service!Refuse(k)
        BY <1>a, <2>1, <2>2, <2>4 DEF Service!Refuse, Service!Become, Phase
    <2>6. QED BY <2>5 DEF Service!LockNext
<1>6. ASSUME NEW k \in Call, RequestLock(k) \/ Register(k) \/ UnlockLookup(k)
                             \/ ReturnEarly(k) \/ UnlockDelete(k)
      PROVE  Phase' = Phase
    <2>1. Moves(k, PhaseOf(k)')
        BY <1>0, <1>6, OthersKeepPhase
           DEF TypeOK, RequestLock, Register, UnlockLookup, ReturnEarly, UnlockDelete
    <2>2. PhaseOf(k)' = PhaseOf(k)
        BY <1>0, <1>6
           DEF TypeOK, IInv, LockTableOK, BookkeepingOK, PhaseOf,
               RequestLock, Register, UnlockLookup, ReturnEarly, UnlockDelete
    <2>3. QED BY <1>b, <2>1, <2>2
<1>7. ASSUME NEW k \in Call, UnlockCommit(k) \/ RollbackCancelled(k) \/ SessionLost(k)
      PROVE  [Service!LockNext]_Phase
    <2>1. Moves(k, PhaseOf(k)')
        BY <1>0, <1>7, OthersKeepPhase
           DEF TypeOK, UnlockCommit, RollbackCancelled, SessionLost
    <2>2. CASE k \in granted /\ k \notin granted'
        <3>1. PhaseOf(k) = "held" /\ PhaseOf(k)' = "over"
            BY <1>0, <1>7, <2>2
               DEF TypeOK, IInv, LockTableOK, BookkeepingOK, PhaseOf,
                   UnlockCommit, RollbackCancelled, SessionLost
        <3>2. Service!End(k)
            BY <1>a, <2>1, <3>1 DEF Service!End, Service!Become, Phase
        <3>3. QED BY <3>2 DEF Service!LockNext
    <2>3. CASE k \in granted <=> k \in granted'
        <3>1. PhaseOf(k)' = PhaseOf(k)
            BY <1>0, <1>7, <2>3
               DEF TypeOK, IInv, LockTableOK, BookkeepingOK, PhaseOf,
                   UnlockCommit, RollbackCancelled, SessionLost
        <3>2. QED BY <1>b, <2>1, <3>1
    <2>4. k \in granted' => k \in granted
        BY <1>7 DEF UnlockCommit, RollbackCancelled, SessionLost
    <2>5. QED BY <2>2, <2>3, <2>4
<1>8. ASSUME UNCHANGED <<pc, result, granted>> PROVE Phase' = Phase
    BY <1>8 DEF Phase, PhaseOf
<1>9. QED
    <2>1. ASSUME NEW k \in Call, ServerGrants(k) PROVE [Service!LockNext]_Phase
        BY <1>4, <2>1 DEF ServerGrants
    <2>2. ASSUME NEW k \in Call, TryLock(k) PROVE [Service!LockNext]_Phase
        BY <1>4, <1>5, <2>2 DEF TryLock
    <2>3. ASSUME NEW x \in Context, CancelContext(x) PROVE Phase' = Phase
        BY <1>8, <2>3 DEF CancelContext
    <2>4. CASE UNCHANGED vars
        BY <1>8, <2>4 DEF vars
    <2>5. QED
        BY <1>1, <1>2, <1>3, <1>6, <1>7, <2>1, <2>2, <2>3, <2>4 DEF Next, Step

\* AdvisoryLockFactory, with its registry, its transactions and the failures of
\* its sessions, gives its callers no more and no less than LockService.
THEOREM Refinement == Spec => ImplementsLockService
<1>1. Init => Service!LockInit
    BY DEF Init, Service!LockInit, PhaseOf
<1>2. IInv /\ [Next]_vars => [Service!LockNext]_Phase
    BY StepRefines
<1>3. QED
    BY Inductive, <1>1, <1>2, PTL DEF Spec, ImplementsLockService, Service!LockSpec, Phase
=============================================================================
