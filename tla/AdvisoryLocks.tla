--------------------------- MODULE AdvisoryLocks ---------------------------
(***************************************************************************)
(* pkg/db/advisory_locks.go: AdvisoryLockFactory over PostgreSQL           *)
(* transaction-level advisory locks.                                       *)
(*                                                                         *)
(* A Call is one activation of NewAdvisoryLock or NewNonBlockingLock with  *)
(* the Unlock its caller defers.  newLock gives every activation a fresh   *)
(* uuid and a transaction of its own, so the call itself stands for both.  *)
(* The database server, its sessions and net/http's request contexts are   *)
(* modelled as far as the factory relies on them.                          *)
(***************************************************************************)

CONSTANTS
    Call,        \* activations, each with its own uuid and transaction
    NoCall,      \* no enclosing call
    Outer,       \* [Call -> the call that holds its lock around this one]
    Mode,        \* [Call -> "blocking" (NewAdvisoryLock) or "nonblocking"]
    IdOf,        \* [Call -> id argument]
    TypeOf,      \* [Call -> lockType argument]
    Hash,        \* hash(): FNV-1a, from id or type to a 32-bit integer
    Context,     \* request contexts: net/http cancels them
    Background,  \* context.Background(), never cancelled
    Ctx,         \* [Call -> the context it runs under]
    DeferFirst   \* callers that defer Unlock before they look at the result

ASSUME CallAssumption ==
    /\ NoCall \notin Call
    /\ Outer \in [Call -> Call \cup {NoCall}]
    /\ Mode \in [Call -> {"blocking", "nonblocking"}]
    /\ Background \notin Context
    /\ Ctx \in [Call -> Context \cup {Background}]
    /\ DeferFirst \subseteq Call

\* KindControllerManager.Handle, the one caller under a background context,
\* defers Unlock before it looks at the result.
ASSUME BackgroundDefers ==
    \A k \in Call : Ctx[k] = Background => k \in DeferFirst

VARIABLES
    pc,         \* [Call -> where the activation is]
    result,     \* [Call -> what New...Lock returned to its caller]
    tx,         \* [Call -> the activation's transaction]
    granted,    \* calls whose transaction has the advisory lock (pg_locks)
    registered, \* the keys of f.locks
    cancelled   \* contexts that are done

vars == <<pc, result, tx, granted, registered, cancelled>>

PCs == {"idle", "begun", "waiting", "acquired", "denied", "holding",
        "refused", "failed", "unlocking", "deleting", "done"}
Results == {"none", "locked", "refused", "error"}
TxStates == {"none", "open", "aborted", "lost", "rolledback", "committed"}

TypeOK ==
    /\ pc \in [Call -> PCs]
    /\ result \in [Call -> Results]
    /\ tx \in [Call -> TxStates]
    /\ granted \subseteq Call
    /\ registered \subseteq Call
    /\ cancelled \subseteq Context

\* Mutant of KeyOf: the type does not reach the lock key.
KeyOfIdAlone == [k \in Call |-> <<Hash[IdOf[k]], Hash[IdOf[k]]>>]

\* The pair of integers given to pg_advisory_xact_lock.
KeyOf == [k \in Call |-> <<Hash[IdOf[k]], Hash[TypeOf[k]]>>]

\* Mutant of Cancelled: the lock transaction begins under no context.
NeverCancelled(k) == FALSE

\* newAdvisoryLock's New(ctx): the lock transaction lives under the context of
\* the call.
Cancelled(k) == Ctx[k] \in cancelled
TxLive(k) == tx[k] \in {"open", "aborted"}
Waiters(key) == {k \in Call : pc[k] = "waiting" /\ KeyOf[k] = key}
Holders(key) == {k \in granted : KeyOf[k] = key}

\* No call nested in k is still running.
InnerDone(k) == \A j \in Call : Outer[j] = k => pc[j] \in {"idle", "done"}

Goto(k, to) == pc' = [pc EXCEPT ![k] = to]
Return(k, r) == result' = [result EXCEPT ![k] = r]
-----------------------------------------------------------------------------
Init ==
    /\ pc = [k \in Call |-> "idle"]
    /\ result = [k \in Call |-> "none"]
    /\ tx = [k \in Call |-> "none"]
    /\ granted = {}
    /\ registered = {}
    /\ cancelled = {}

\* newLock: a connection of the pool, BEGIN under the caller's context.
Begin(k) ==
    /\ pc[k] = "idle"
    /\ Outer[k] # NoCall => pc[Outer[k]] = "holding"
    /\ ~Cancelled(k)
    /\ tx' = [tx EXCEPT ![k] = "open"]
    /\ Goto(k, "begun")
    /\ UNCHANGED <<result, granted, registered, cancelled>>

\* BEGIN fails: the uuid returned is "" and Unlock("") is a no-op.
BeginFails(k) ==
    /\ pc[k] = "idle"
    /\ Outer[k] # NoCall => pc[Outer[k]] = "holding"
    /\ Return(k, "error")
    /\ Goto(k, "done")
    /\ UNCHANGED <<tx, granted, registered, cancelled>>

\* lock(): pg_advisory_xact_lock reaches the server and queues there.
RequestLock(k) ==
    /\ pc[k] = "begun" /\ Mode[k] = "blocking"
    /\ tx[k] = "open" /\ ~Cancelled(k)
    /\ Goto(k, "waiting")
    /\ UNCHANGED <<result, tx, granted, registered, cancelled>>

\* The server gives a free lock to one of its waiters.
ServerGrants(k) ==
    /\ pc[k] = "waiting" /\ tx[k] = "open"
    /\ Holders(KeyOf[k]) = {}
    /\ granted' = granted \cup {k}
    /\ Goto(k, "acquired")
    /\ UNCHANGED <<result, tx, registered, cancelled>>

\* Mutant of TryLock: a query without error is taken for an acquired lock.
TryLockIgnoresAnswer(k) ==
    /\ pc[k] = "begun" /\ Mode[k] = "nonblocking"
    /\ tx[k] = "open" /\ ~Cancelled(k)
    /\ granted' = IF Holders(KeyOf[k]) \cup Waiters(KeyOf[k]) = {}
                  THEN granted \cup {k} ELSE granted
    /\ Goto(k, "acquired")
    /\ UNCHANGED <<result, tx, registered, cancelled>>

\* nonBlockingLock(): pg_try_advisory_xact_lock answers true only for a lock
\* nobody has and nobody queues for.
TryLock(k) ==
    /\ pc[k] = "begun" /\ Mode[k] = "nonblocking"
    /\ tx[k] = "open" /\ ~Cancelled(k)
    /\ \/ /\ Holders(KeyOf[k]) \cup Waiters(KeyOf[k]) = {}
          /\ granted' = granted \cup {k}
          /\ Goto(k, "acquired")
       \/ /\ Holders(KeyOf[k]) \cup Waiters(KeyOf[k]) # {}
          /\ Goto(k, "denied")
          /\ UNCHANGED granted
    /\ UNCHANGED <<result, tx, registered, cancelled>>

\* The lock statement fails on the server (deadlock detected, lock timeout),
\* which aborts the transaction.  The uuid is returned, but not registered.
LockError(k) ==
    /\ pc[k] \in {"begun", "waiting"} /\ tx[k] = "open"
    /\ tx' = [tx EXCEPT ![k] = "aborted"]
    /\ Return(k, "error")
    /\ Goto(k, "failed")
    /\ UNCHANGED <<granted, registered, cancelled>>

\* The lock statement fails in the client: its context is done, or its
\* transaction or session is gone.
LockOnDeadTx(k) ==
    /\ pc[k] \in {"begun", "waiting"}
    /\ Cancelled(k) \/ tx[k] # "open"
    /\ Return(k, "error")
    /\ Goto(k, "failed")
    /\ UNCHANGED <<tx, granted, registered, cancelled>>

\* Mutant of Register: only an acquired lock is remembered.
RegisterAcquired(k) ==
    /\ pc[k] \in {"acquired", "denied"}
    /\ IF pc[k] = "acquired"
       THEN Return(k, "locked") /\ Goto(k, "holding") /\ registered' = registered \cup {k}
       ELSE Return(k, "refused") /\ Goto(k, "refused") /\ UNCHANGED registered
    /\ UNCHANGED <<tx, granted, cancelled>>

\* Mutant of Register: acquired is not looked at.
RegisterIgnoresAnswer(k) ==
    /\ pc[k] \in {"acquired", "denied"}
    /\ registered' = registered \cup {k}
    /\ Return(k, "locked") /\ Goto(k, "holding")
    /\ UNCHANGED <<tx, granted, cancelled>>

\* Mutant of Register: a refused call returns with the mutex of the map locked.
RegisterKeepsMutex(k) ==
    /\ pc[k] \in {"acquired", "denied"}
    /\ \A j \in Call : result[j] # "refused"
    /\ registered' = registered \cup {k}
    /\ IF pc[k] = "acquired"
       THEN Return(k, "locked") /\ Goto(k, "holding")
       ELSE Return(k, "refused") /\ Goto(k, "refused")
    /\ UNCHANGED <<tx, granted, cancelled>>

\* f.locks[uuid] = lock, whether or not a nonblocking lock was acquired.
Register(k) ==
    /\ pc[k] \in {"acquired", "denied"}
    /\ registered' = registered \cup {k}
    /\ IF pc[k] = "acquired"
       THEN Return(k, "locked") /\ Goto(k, "holding")
       ELSE Return(k, "refused") /\ Goto(k, "refused")
    /\ UNCHANGED <<tx, granted, cancelled>>

\* Unlock looks its uuid up in f.locks: "Caller not lock owner" if it is not
\* there.
UnlockLookup(k) ==
    /\ \/ pc[k] = "holding" /\ InnerDone(k)
       \/ pc[k] \in {"refused", "failed"} /\ k \in DeferFirst
    /\ Goto(k, IF k \in registered THEN "unlocking" ELSE "done")
    /\ UNCHANGED <<result, tx, granted, registered, cancelled>>

\* A caller that returns on an error or a refusal before its defer statement.
ReturnEarly(k) ==
    /\ pc[k] \in {"refused", "failed"} /\ k \notin DeferFirst
    /\ Goto(k, "done")
    /\ UNCHANGED <<result, tx, granted, registered, cancelled>>

\* Mutant of UnlockCommit: the entry goes, the transaction stays.
UnlockForgetsCommit(k) ==
    /\ pc[k] = "unlocking"
    /\ Goto(k, "deleting")
    /\ UNCHANGED <<result, tx, granted, registered, cancelled>>

\* unlock(): COMMIT ends the transaction and with it the lock.  Tx.Commit returns
\* an error that Unlock only logs when the transaction is finished, and when its
\* context is done: then it sends nothing, and the rollback is still to come.
UnlockCommit(k) ==
    /\ pc[k] = "unlocking"
    /\ IF tx[k] = "open" /\ ~Cancelled(k)
       THEN /\ tx' = [tx EXCEPT ![k] = "committed"]
            /\ granted' = granted \ {k}
       ELSE UNCHANGED <<tx, granted>>
    /\ Goto(k, "deleting")
    /\ UNCHANGED <<result, registered, cancelled>>

\* Mutant of UnlockDelete: the entry stays in the map.
UnlockKeepsEntry(k) ==
    /\ pc[k] = "deleting"
    /\ Goto(k, "done")
    /\ UNCHANGED <<result, tx, granted, registered, cancelled>>

\* delete(f.locks, uuid)
UnlockDelete(k) ==
    /\ pc[k] = "deleting"
    /\ registered' = registered \ {k}
    /\ Goto(k, "done")
    /\ UNCHANGED <<result, tx, granted, cancelled>>
-----------------------------------------------------------------------------
\* The client disconnects, or ServeHTTP returned.
CancelContext(x) ==
    /\ x \in Context \ cancelled
    /\ cancelled' = cancelled \cup {x}
    /\ UNCHANGED <<pc, result, tx, granted, registered>>

\* database/sql rolls back the transactions of a context that is done, once no
\* statement of theirs is running.
RollbackCancelled(k) ==
    /\ Cancelled(k) /\ TxLive(k) /\ pc[k] # "waiting"
    /\ tx' = [tx EXCEPT ![k] = "rolledback"]
    /\ granted' = granted \ {k}
    /\ UNCHANGED <<pc, result, registered, cancelled>>

\* The server ends the session: a restart, a failover, a dropped connection.
SessionLost(k) ==
    /\ TxLive(k)
    /\ tx' = [tx EXCEPT ![k] = "lost"]
    /\ granted' = granted \ {k}
    /\ UNCHANGED <<pc, result, registered, cancelled>>
-----------------------------------------------------------------------------
Step(k) ==
    \/ RequestLock(k) \/ ServerGrants(k) \/ TryLock(k) \/ LockOnDeadTx(k)
    \/ Register(k) \/ UnlockLookup(k) \/ ReturnEarly(k)
    \/ UnlockCommit(k) \/ UnlockDelete(k)

Next ==
    \/ \E k \in Call : Begin(k) \/ BeginFails(k) \/ Step(k) \/ LockError(k)
                         \/ RollbackCancelled(k) \/ SessionLost(k)
    \/ \E x \in Context : CancelContext(x)

Spec == Init /\ [][Next]_vars

\* Goroutines that can run do, the critical sections end, the server grants a
\* free lock, and net/http cancels a context when its calls are over.
RequestOver(x) ==
    \A k \in Call : Ctx[k] = x =>
        pc[k] = "done" \/ (pc[k] = "idle" /\ Outer[k] # NoCall)

FairSpec ==
    /\ Spec
    /\ \A k \in Call : WF_vars(Step(k)) /\ WF_vars(RollbackCancelled(k))
    /\ \A x \in Context : WF_vars(RequestOver(x) /\ CancelContext(x))
-----------------------------------------------------------------------------
\* The part of a caller that the lock is meant to protect.
InCritical(k) == pc[k] = "holding"

\* A call that still has what it was given: its transaction neither was rolled
\* back under it nor lost its session.
Intact(k) == tx[k] = "open"

\* Two callers that were told they own the same lock are never both between
\* New...Lock and Unlock, unless the database session of one has gone from
\* under it (a cancelled request, a lost connection).
MutualExclusion ==
    \A j, k \in Call :
        /\ InCritical(j) /\ InCritical(k)
        /\ Intact(j) /\ Intact(k)
        /\ KeyOf[j] = KeyOf[k]
        => j = k

\* An advisory lock that is left in pg_locks by a caller that has returned is in
\* a transaction that database/sql is about to roll back, its context being done:
\* what the integration test of racing PATCH requests counts at its end is 0 but
\* for the clients that left.  No lock stays for good (RequestTxEnds).
NoUnreleasedLocks ==
    \A k \in granted : pc[k] = "done" => Cancelled(k) /\ tx[k] = "open"

\* A transaction that outlives its caller is one a request context will still
\* end, or one whose lock statement failed.
AbandonedTx ==
    \A k \in Call :
        pc[k] = "done" /\ TxLive(k)
            => Ctx[k] # Background \/ result[k] = "error"

\* f.locks keeps an entry of a finished call only where the caller returned on
\* a refusal without unlocking.
RegistryClean ==
    \A k \in registered :
        pc[k] = "done" => result[k] = "refused" /\ k \notin DeferFirst

\* A refused call had another call contending for the lock's (id, lockType), the
\* interface's "defined by (id, lockType)", or one whose lock is still to be
\* rolled back with its request's context.
SameLock(j, k) == IdOf[j] = IdOf[k] /\ TypeOf[j] = TypeOf[k]
Contends(j) == pc[j] \notin {"idle", "done"} \/ (j \in granted /\ Cancelled(j))

RefusedByItsOwnLock ==
    [][\A k \in Call : pc[k] = "begun" /\ pc'[k] = "denied" =>
          \E j \in Call \ {k} : SameLock(j, k) /\ Contends(j)]_vars

\* Every activation that began returns to its caller.
EveryCallReturns == \A k \in Call : pc[k] = "begun" ~> pc[k] = "done"

\* A request's transactions all end, however its lock calls went.
RequestTxEnds ==
    \A k \in Call : Ctx[k] # Background => (tx[k] = "open" ~> ~TxLive(k))
-----------------------------------------------------------------------------
\* The lock as callers see it.
PhaseOf(k) ==
    IF pc[k] = "idle" THEN "idle"
    ELSE IF k \in granted THEN "held"
    ELSE IF pc[k] \in {"begun", "waiting"} THEN "asking"
    ELSE IF pc[k] = "denied" \/ result[k] = "refused" THEN "refused"
    ELSE IF result[k] = "error" THEN "failed"
    ELSE "over"

Service == INSTANCE LockService WITH phase <- [k \in Call |-> PhaseOf(k)]

\* The factory implements the abstract lock service.
ImplementsLockService == Service!LockSpec
=============================================================================
