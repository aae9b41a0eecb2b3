--------------------------- MODULE ConnectionPool ---------------------------
(***************************************************************************)
(* Who waits for the connections of the process's one sql.DB               *)
(* (SetMaxOpenConns) while already holding some:                           *)
(*   a request holds the connection of the middleware's transaction from   *)
(*   NewContext to Resolve;                                                *)
(*   a PATCH, and an event being handled, hold the connection of the       *)
(*   advisory lock's transaction from New...Lock to Unlock;                *)
(*   and every DAO operation takes one more for as long as it runs.        *)
(***************************************************************************)
EXTENDS Naturals, FiniteSets

CONSTANTS
    Task,       \* requests, and events being handled
    MaxOpenConnections,
    Nobody,
    Kind,       \* [Task -> "read", "patch" or "handle"]
    Ops,        \* [Task -> number of DAO operations, at least one]
    Key,        \* [Task -> the advisory lock's key]
    MaxFaults   \* bound on the failures of an instance

ASSUME PoolAssumption ==
    /\ IsFiniteSet(Task)
    /\ MaxOpenConnections \in Nat
    /\ Nobody \notin Task
    /\ Kind \in [Task -> {"read", "patch", "handle"}]
    /\ Ops \in [Task -> Nat \ {0}]
    /\ MaxFaults \in Nat

Roles == {"tx", "lock", "op"}

VARIABLES
    pc,      \* [Task -> where it is]
    left,    \* [Task -> DAO operations still to do]
    use,     \* the connections checked out: <<task, role>>, at most one each
    owner,   \* [key -> the task that has the advisory lock]
    gone,    \* requests whose client disconnected
    leaked,  \* requests whose transaction was begun and dropped
    dropped, \* tasks whose lock's transaction was begun and is not in f.locks
    faults

vars == <<pc, left, use, owner, gone, leaked, dropped, faults>>

PCs == {"new", "begin", "lockbegin", "locking", "op", "running", "unlock",
        "resolve", "done"}

TypeOK ==
    /\ pc \in [Task -> PCs]
    /\ left \in [Task -> Nat]
    /\ use \subseteq Task \X Roles
    /\ owner \in [{Key[t] : t \in Task} -> Task \cup {Nobody}]
    /\ gone \subseteq Task
    /\ leaked \subseteq Task
    /\ dropped \subseteq Task
    /\ faults \in 0..MaxFaults

Begins(t) == Kind[t] # "handle"  \* goes through TransactionMiddleware
Locks(t) == Kind[t] # "read"     \* takes an advisory lock

\* One of the pool's connections is idle or not yet opened.
Free == Cardinality(use) < MaxOpenConnections

\* sql.DB.conn: waits until a connection is free.
Take(t, role) == Free /\ use' = use \cup {<<t, role>>}
Give(t, role) == use' = use \ {<<t, role>>}

Goto(t, to) == pc' = [pc EXCEPT ![t] = to]
Return(t) == Goto(t, IF Begins(t) THEN "resolve" ELSE "done")
Leave(t) == IF Locks(t) THEN Goto(t, "unlock") ELSE Return(t)

\* The failures under a context that lives are bounded.
Fails(t) ==
    \/ t \in gone /\ UNCHANGED faults
    \/ faults < MaxFaults /\ faults' = faults + 1
-----------------------------------------------------------------------------
Init ==
    /\ pc = [t \in Task |-> "new"]
    /\ left = Ops
    /\ use = {}
    /\ owner = [k \in {Key[t] : t \in Task} |-> Nobody]
    /\ gone = {} /\ leaked = {} /\ dropped = {} /\ faults = 0

Arrive(t) ==
    /\ pc[t] = "new"
    /\ Goto(t, IF Begins(t) THEN "begin" ELSE "lockbegin")
    /\ UNCHANGED <<left, use, owner, gone, leaked, dropped, faults>>

\* newTransaction: DirectDB().Begin(), with no context that could end the wait.
BeginTx(t) ==
    /\ pc[t] = "begin"
    /\ Take(t, "tx")
    /\ Goto(t, IF Locks(t) THEN "lockbegin" ELSE "op")
    /\ UNCHANGED <<left, owner, gone, leaked, dropped, faults>>

\* newTransaction: the id of the transaction cannot be read, and the
\* transaction is returned neither to the caller nor to the pool.
TxIdFails(t) ==
    /\ pc[t] = "begin" /\ faults < MaxFaults
    /\ Take(t, "tx")
    /\ leaked' = leaked \cup {t}
    /\ faults' = faults + 1
    /\ Goto(t, "done")
    /\ UNCHANGED <<left, owner, gone, dropped>>

\* newAdvisoryLock: Begin.
BeginLock(t) ==
    /\ pc[t] = "lockbegin" /\ t \notin gone
    /\ Take(t, "lock")
    /\ Goto(t, "locking")
    /\ UNCHANGED <<left, owner, gone, leaked, dropped, faults>>

\* newAdvisoryLock: Begin fails, and the caller returns.  Unlock has nothing to
\* do, if it is called at all.
BeginLockFails(t) ==
    /\ Fails(t)
    /\ pc[t] = "lockbegin"
    /\ Return(t)
    /\ UNCHANGED <<left, use, owner, gone, leaked, dropped>>

\* The advisory lock: a PATCH waits for it, an event is dropped without it.
GetLock(t) ==
    /\ pc[t] = "locking" /\ t \notin gone
    /\ \/ /\ owner[Key[t]] = Nobody
          /\ owner' = [owner EXCEPT ![Key[t]] = t]
          /\ Goto(t, "op")
       \/ /\ owner[Key[t]] # Nobody /\ Kind[t] = "handle"
          /\ Goto(t, "unlock")
          /\ UNCHANGED owner
    /\ UNCHANGED <<left, use, gone, leaked, dropped, faults>>

\* The lock statement fails, and its transaction is not in f.locks: a PATCH returns
\* ahead of its defer, and Handle's Unlock does not find it.
LockFails(t) ==
    /\ Fails(t)
    /\ pc[t] = "locking"
    /\ dropped' = dropped \cup {t}
    /\ Return(t)
    /\ UNCHANGED <<left, use, owner, gone, leaked>>

\* A DAO operation on sessionFactory.New(ctx): a connection of its own.
StartOp(t) ==
    /\ pc[t] = "op" /\ t \notin gone
    /\ Take(t, "op")
    /\ Goto(t, "running")
    /\ UNCHANGED <<left, owner, gone, leaked, dropped, faults>>

\* Mutant of EndOp: the result set is never closed.
EndOpKeepsConn(t) ==
    /\ pc[t] = "running"
    /\ left' = [left EXCEPT ![t] = @ - 1]
    /\ \/ /\ IF left[t] = 1 THEN Leave(t) ELSE Goto(t, "op")
          /\ UNCHANGED faults
       \/ Fails(t) /\ Leave(t)
    /\ UNCHANGED <<use, owner, gone, leaked, dropped>>

\* The operation returns, and its connection goes back to the pool.  After the
\* last one the handler is done, and after one that failed.
EndOp(t) ==
    /\ pc[t] = "running"
    /\ Give(t, "op")
    /\ left' = [left EXCEPT ![t] = @ - 1]
    /\ \/ /\ IF left[t] = 1 THEN Leave(t) ELSE Goto(t, "op")
          /\ UNCHANGED faults
       \/ Fails(t) /\ Leave(t)
    /\ UNCHANGED <<owner, gone, leaked, dropped>>

\* The operation gets no connection, for the request context is done.
GiveUp(t) ==
    /\ pc[t] = "op" /\ t \in gone
    /\ Leave(t)
    /\ UNCHANGED <<left, use, owner, gone, leaked, dropped, faults>>

\* The lock's transaction ends: its connection and its lock go back.
EndLock(t) ==
    /\ Give(t, "lock")
    /\ owner' = [k \in DOMAIN owner |-> IF owner[k] = t THEN Nobody ELSE owner[k]]

\* Unlock: COMMIT, which is not sent when the context is done.
Unlock(t) ==
    /\ pc[t] = "unlock"
    /\ IF t \in gone THEN UNCHANGED <<use, owner>> ELSE EndLock(t)
    /\ Return(t)
    /\ UNCHANGED <<left, gone, leaked, dropped, faults>>

\* Mutant of Resolve: only a request that still has its client is resolved.
ResolveUnlessGone(t) ==
    /\ pc[t] = "resolve"
    /\ IF t \in gone THEN UNCHANGED use ELSE Give(t, "tx")
    /\ Goto(t, "done")
    /\ UNCHANGED <<left, owner, gone, leaked, dropped, faults>>

\* The middleware's deferred Resolve.
Resolve(t) ==
    /\ pc[t] = "resolve"
    /\ Give(t, "tx")
    /\ Goto(t, "done")
    /\ UNCHANGED <<left, owner, gone, leaked, dropped, faults>>

\* The client disconnects.
Disconnect(t) ==
    /\ Begins(t) /\ pc[t] \notin {"new", "done"} /\ t \notin gone
    /\ faults < MaxFaults
    /\ gone' = gone \cup {t}
    /\ faults' = faults + 1
    /\ UNCHANGED <<pc, left, use, owner, leaked, dropped>>

Has(t, role) == <<t, role>> \in use

\* A request's context is done when its client is gone, and when it is answered.
ContextDone(t) == Begins(t) /\ (t \in gone \/ pc[t] = "done")

\* The rollback that database/sql owes the lock's transaction of a context that is
\* done, once no statement of it is running.
RollbackDue(t) == ContextDone(t) /\ Has(t, "lock") /\ pc[t] # "locking"

RollbackLock(t) ==
    /\ RollbackDue(t)
    /\ EndLock(t)
    /\ UNCHANGED <<pc, left, gone, leaked, dropped, faults>>

Step(t) ==
    \/ BeginTx(t) \/ BeginLock(t) \/ GetLock(t) \/ StartOp(t) \/ EndOp(t)
    \/ GiveUp(t) \/ Unlock(t) \/ Resolve(t)

Next == \E t \in Task : Arrive(t) \/ Step(t) \/ TxIdFails(t) \/ BeginLockFails(t)
                              \/ LockFails(t) \/ Disconnect(t) \/ RollbackLock(t)

Spec == Init /\ [][Next]_vars

\* database/sql and PostgreSQL serve their waiters in turn; statements return, and
\* fail if their context is done; database/sql rolls back what it has to.
FairSpec ==
    /\ Spec
    /\ \A t \in Task :
          /\ WF_vars(Step(t)) /\ WF_vars(RollbackLock(t))
          /\ WF_vars(t \in gone /\ (BeginLockFails(t) \/ LockFails(t)))
-----------------------------------------------------------------------------
\* A connection is checked out for exactly as long as its task needs it, but for
\*   the transaction whose id could not be read, which is kept for good;
\*   the one whose lock statement failed: a worker's is kept for good, a request's
\*     until its context is done and it is rolled back;
\*   the one whose Unlock came after its client had gone, until its rollback;
\* and a task that needs a connection has it, but for the lock's connection of a
\* request whose client is gone.
ConnsFollow(t) ==
    /\ Has(t, "tx") <=>
          t \in leaked \/ (Begins(t) /\ pc[t] \notin {"new", "begin", "done"})
    /\ Has(t, "lock") =>
          /\ Locks(t)
          /\ \/ pc[t] \in {"locking", "op", "running", "unlock"}
             \/ t \in dropped /\ (Begins(t) => pc[t] = "resolve" \/ RollbackDue(t))
             \/ t \in gone /\ RollbackDue(t)
    /\ Locks(t) /\ pc[t] \in {"locking", "op", "running", "unlock"} =>
          Has(t, "lock") \/ t \in gone
    /\ t \in dropped /\ ~Begins(t) => Has(t, "lock")
    /\ Has(t, "op") <=> pc[t] = "running"

ConnsFollowTasks == \A t \in Task : ConnsFollow(t)

WaitsForConn(t) ==
    pc[t] = "begin" \/ (pc[t] \in {"lockbegin", "op"} /\ t \notin gone)
WaitsForLock(t) ==
    /\ pc[t] = "locking" /\ t \notin gone /\ Kind[t] = "patch"
    /\ owner[Key[t]] # Nobody /\ ~RollbackDue(owner[Key[t]])

\* What the tasks may hold while they wait for another connection or for an
\* advisory lock.
MayHold == {t \in Task : Begins(t)} \X {"tx"} \cup {t \in Task : Locks(t)} \X {"lock"}

\* The tasks never all wait for each other: one that is under way can move, in
\* a pool with more connections than they may hold while they wait.
NeverAllWaiting ==
    Cardinality(MayHold) < MaxOpenConnections
    /\ (\E t \in Task : pc[t] \notin {"new", "done"})
    => \E t \in Task : /\ pc[t] \notin {"new", "done"}
                       /\ ~WaitsForLock(t)
                       /\ (WaitsForConn(t) => Free)

\* Every task that arrives is answered: Default's sessions share a pool "which
\* is safe for use by concurrent Goroutines".
EveryTaskFinishes == \A t \in Task : pc[t] \in {"begin", "lockbegin"} ~> pc[t] = "done"
=============================================================================
