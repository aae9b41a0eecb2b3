----------------------------- MODULE Dinosaurs -----------------------------
(***************************************************************************)
(* plugins/dinosaurs: POST, PATCH and DELETE of dinosaurs, from the        *)
(* transaction middleware down to the rows.                                *)
(*                                                                         *)
(* Every DAO call runs on a session of its own (sessionFactory.New) and    *)
(* commits by itself: the transaction the middleware keeps in the request  *)
(* context contains none of them.  The advisory lock is the one            *)
(* AdvisoryLocks implements; here only its owner matters.                  *)
(***************************************************************************)
EXTENDS Sequences, Naturals, FiniteSets

CONSTANTS
    Dino,       \* ids of dinosaurs
    Species,
    Request,
    Nobody,
    Op,         \* [Request -> "create", "patch" or "delete"]
    Target,     \* [Request -> the dinosaur]; a create's id is its own, fresh
    Wanted,     \* [Request -> the species in the request's body]
    Initial,    \* [Dino -> the species it has at first, or "none"]
    LockMode,   \* "blocking", "nonblocking" or "off"
    MaxRequests,  \* bound on the requests of Request that are made
    MaxFaults     \* bound on the failures of an instance

ASSUME DinosaurAssumption ==
    /\ Nobody \notin Request
    /\ Op \in [Request -> {"create", "patch", "delete"}]
    /\ Target \in [Request -> Dino]
    /\ Wanted \in [Request -> Species]
    /\ "none" \notin Species
    /\ Initial \in [Dino -> Species \cup {"none"}]
    /\ LockMode \in {"blocking", "nonblocking", "off"}
    /\ MaxRequests \in Nat /\ MaxFaults \in Nat
    /\ \A r, s \in Request :
          Op[r] = "create" =>
              /\ Initial[Target[r]] = "none"
              /\ (Op[s] = "create" /\ Target[s] = Target[r]) => s = r

VARIABLES
    pc,       \* [Request -> where its handler is]
    reply,    \* [Request -> the answer decided on]
    species,  \* [Dino -> the species column, "none" where there is no row]
    deleted,  \* dinosaurs whose deleted_at is set
    holder,   \* [Dino -> the request whose session has the advisory lock]
    lockless, \* requests whose lock went with its session before Unlock
    gone,     \* requests whose client disconnected: their context is done
    marked,   \* requests whose middleware transaction is flagged for rollback
    changes,  \* the requests that changed a row, in the order they did
    events,   \* the requests whose event row is in the events table
    notices,  \* the requests whose event was pg_notify'ed, in order
    faults

vars == <<pc, reply, species, deleted, holder, lockless, gone, marked,
          changes, events, notices, faults>>
rows == <<species, deleted, changes>>
locks == <<holder, lockless>>
outbox == <<events, notices>>

PCs == {"new", "started", "locked", "read", "wrote", "evented", "unlocking",
        "replied", "committed", "rolledback"}
Replies == {"none", "ok", "notfound", "error"}

Image(seq) == {seq[i] : i \in 1..Len(seq)}

TypeOK ==
    /\ pc \in [Request -> PCs]
    /\ reply \in [Request -> Replies]
    /\ species \in [Dino -> Species \cup {"none"}]
    /\ deleted \subseteq Dino
    /\ holder \in [Dino -> Request \cup {Nobody}]
    /\ lockless \subseteq Request
    /\ gone \subseteq Request
    /\ marked \subseteq Request
    /\ changes \in Seq(Request)
    /\ events \subseteq Request
    /\ notices \in Seq(Request)
    /\ faults \in 0..MaxFaults

Live(d) == species[d] # "none" /\ d \notin deleted

\* Mutant of Locks: DisableAdvisoryLock is read the wrong way round.
LocksDisabled(r) == Op[r] = "patch" /\ LockMode = "off"

\* Replace takes the advisory lock of its dinosaur; Create and Delete take none.
Locks(r) == Op[r] = "patch" /\ LockMode # "off"
Unlocked(r) == pc[r] \in {"replied", "committed", "rolledback"}
Goto(r, to) == pc' = [pc EXCEPT ![r] = to]

\* The service returns: Unlock is deferred, the reply follows it.
Answer(r, what) ==
    /\ reply' = [reply EXCEPT ![r] = what]
    /\ Goto(r, IF Locks(r) THEN "unlocking" ELSE "replied")

\* Something fails for r: its context is done, or a failure of its own.
Fails(r) ==
    \/ r \in gone /\ UNCHANGED faults
    \/ faults < MaxFaults /\ faults' = faults + 1

\* A statement ended.  The handler goes on to the next one, or (the statement
\* failed, or its reply was lost after it had committed) answers with an error.
Proceed(r, next) == r \notin gone /\ Goto(r, next) /\ UNCHANGED <<reply, marked, faults>>
Abort(r) == Fails(r) /\ Answer(r, "error") /\ marked' = marked \cup {r}
-----------------------------------------------------------------------------
Init ==
    /\ pc = [r \in Request |-> "new"]
    /\ reply = [r \in Request |-> "none"]
    /\ species = Initial
    /\ deleted = {}
    /\ holder = [d \in Dino |-> Nobody]
    /\ lockless = {} /\ gone = {} /\ marked = {}
    /\ changes = <<>> /\ events = {} /\ notices = <<>>
    /\ faults = 0

\* A bound, as the failures have: of Request, MaxRequests are made.
Another == Cardinality({r \in Request : pc[r] # "new"}) < MaxRequests

\* TransactionMiddleware: NewContext, then the handler.
Start(r) ==
    /\ pc[r] = "new" /\ Another
    /\ Goto(r, "started")
    /\ UNCHANGED <<reply, rows, locks, gone, marked, outbox, faults>>

\* NewContext fails: an error is answered and there is nothing to resolve.
StartFails(r) ==
    /\ Fails(r)
    /\ pc[r] = "new" /\ Another
    /\ reply' = [reply EXCEPT ![r] = "error"]
    /\ Goto(r, "rolledback")
    /\ UNCHANGED <<rows, locks, gone, marked, outbox>>

\* Replace: the advisory lock of the dinosaur.
Lock(r) ==
    /\ pc[r] = "started" /\ Locks(r)
    /\ r \notin gone
    /\ holder[Target[r]] = Nobody
    /\ holder' = [holder EXCEPT ![Target[r]] = r]
    /\ Goto(r, "locked")
    /\ UNCHANGED <<reply, rows, lockless, gone, marked, outbox, faults>>

\* The lock call fails, or a nonblocking one is refused: Replace returns before
\* its defer statement.
LockFails(r) ==
    /\ Fails(r)
    /\ pc[r] = "started" /\ Locks(r)
    /\ reply' = [reply EXCEPT ![r] = "error"]
    /\ Goto(r, "replied")
    /\ UNCHANGED <<rows, locks, gone, marked, outbox>>

\* Mutant of ReadRow: the event is written ahead of the row.
ReadRowAnnounces(r) ==
    /\ pc[r] = IF Locks(r) THEN "locked" ELSE "started"
    /\ Op[r] = "patch" /\ r \notin gone
    /\ IF Live(Target[r]) THEN Goto(r, "read") /\ UNCHANGED reply ELSE Answer(r, "notfound")
    /\ events' = IF Live(Target[r]) THEN events \cup {r} ELSE events
    /\ UNCHANGED <<rows, locks, gone, marked, notices, faults>>

\* Mutant of ReadRow: the event is sent for a row that is not saved.
ReadRowSkipsSave(r) ==
    /\ pc[r] = IF Locks(r) THEN "locked" ELSE "started"
    /\ Op[r] = "patch" /\ r \notin gone
    /\ IF Live(Target[r]) THEN Goto(r, "wrote") /\ UNCHANGED reply ELSE Answer(r, "notfound")
    /\ UNCHANGED <<rows, locks, gone, marked, outbox, faults>>

\* Replace: dinosaurDao.Get, and the early return when nothing would change.
ReadRow(r) ==
    /\ pc[r] = IF Locks(r) THEN "locked" ELSE "started"
    /\ Op[r] = "patch" /\ r \notin gone
    /\ \/ /\ ~Live(Target[r])
          /\ Answer(r, "notfound")
       \/ /\ Live(Target[r]) /\ species[Target[r]] = Wanted[r]
          /\ Answer(r, "ok")
       \/ /\ Live(Target[r]) /\ species[Target[r]] # Wanted[r]
          /\ Goto(r, "read")
          /\ UNCHANGED reply
    /\ UNCHANGED <<rows, locks, gone, marked, outbox, faults>>

\* Mutant of SaveRow: the lock is given up once the row is written.
SaveRowUnlocks(r) ==
    /\ pc[r] = "read"
    /\ species' = [species EXCEPT ![Target[r]] = Wanted[r]]
    /\ deleted' = deleted \ {Target[r]}
    /\ changes' = Append(changes, r)
    /\ Proceed(r, "wrote") \/ Abort(r)
    /\ holder' = [d \in Dino |-> IF holder[d] = r THEN Nobody ELSE holder[d]]
    /\ UNCHANGED <<lockless, gone, outbox>>

\* Replace: dinosaurDao.Replace.  Save writes every column of the row it read,
\* the null deleted_at too.
SaveRow(r) ==
    /\ pc[r] = "read"
    /\ species' = [species EXCEPT ![Target[r]] = Wanted[r]]
    /\ deleted' = deleted \ {Target[r]}
    /\ changes' = Append(changes, r)
    /\ Proceed(r, "wrote") \/ Abort(r)
    /\ UNCHANGED <<locks, gone, outbox>>

\* Create: dinosaurDao.Create under a new id.
InsertRow(r) ==
    /\ pc[r] = "started" /\ Op[r] = "create"
    /\ species' = [species EXCEPT ![Target[r]] = Wanted[r]]
    /\ changes' = Append(changes, r)
    /\ Proceed(r, "wrote") \/ Abort(r)
    /\ UNCHANGED <<deleted, locks, gone, outbox>>

\* Delete: dinosaurDao.Delete, a soft delete that takes no lock and does not
\* mind a row that is not there.
DeleteRow(r) ==
    /\ pc[r] = "started" /\ Op[r] = "delete"
    /\ IF Live(Target[r])
       THEN /\ deleted' = deleted \cup {Target[r]}
            /\ changes' = Append(changes, r)
       ELSE UNCHANGED <<deleted, changes>>
    /\ Proceed(r, "wrote") \/ Abort(r)
    /\ UNCHANGED <<species, locks, gone, outbox>>

\* eventDao.Create: the event row.
InsertEvent(r) ==
    /\ pc[r] = "wrote"
    /\ events' = events \cup {r}
    /\ Proceed(r, "evented") \/ Abort(r)
    /\ UNCHANGED <<rows, locks, gone, notices>>

\* eventDao.Create: pg_notify, a statement of its own whose error is returned
\* without a rollback mark.
Notify(r) ==
    /\ pc[r] = "evented"
    /\ notices' = Append(notices, r)
    /\ \/ r \notin gone /\ Answer(r, "ok") /\ UNCHANGED faults
       \/ Fails(r) /\ Answer(r, "error")
    /\ UNCHANGED <<rows, locks, gone, marked, events>>

\* Mutant of StatementFails: the error of events.Create is dropped.
StatementFailsQuietly(r) ==
    /\ Fails(r)
    /\ \/ pc[r] \in {"locked", "read", "wrote", "evented"}
       \/ pc[r] = "started" /\ ~Locks(r)
    /\ Answer(r, IF pc[r] \in {"wrote", "evented"} THEN "ok" ELSE "error")
    /\ UNCHANGED <<rows, locks, gone, marked, outbox>>

\* A statement fails without effect.  The DAOs' writes mark the transaction,
\* Get and pg_notify do not.
StatementFails(r) ==
    /\ Fails(r)
    /\ \/ pc[r] \in {"locked", "read", "wrote", "evented"}
       \/ pc[r] = "started" /\ ~Locks(r)
    /\ Answer(r, "error")
    /\ marked' = IF \/ pc[r] \in {"read", "wrote"}
                    \/ pc[r] = "started" /\ Op[r] # "patch"
                 THEN marked \cup {r} ELSE marked
    /\ UNCHANGED <<rows, locks, gone, outbox>>

\* Mutant of Unlock: nothing is deferred.
UnlockNothing(r) ==
    /\ pc[r] = "unlocking"
    /\ Goto(r, "replied")
    /\ UNCHANGED <<reply, rows, locks, gone, marked, outbox, faults>>

\* The deferred Unlock.  Its COMMIT is not sent when the context is done: the lock
\* stays until database/sql rolls its transaction back.
Unlock(r) ==
    /\ pc[r] = "unlocking"
    /\ holder' = IF r \in gone THEN holder
                 ELSE [d \in Dino |-> IF holder[d] = r THEN Nobody ELSE holder[d]]
    /\ Goto(r, "replied")
    /\ UNCHANGED <<reply, rows, lockless, gone, marked, outbox, faults>>

\* The middleware's deferred Resolve.
Resolve(r) ==
    /\ pc[r] = "replied"
    /\ Goto(r, IF r \in marked THEN "rolledback" ELSE "committed")
    /\ UNCHANGED <<reply, rows, locks, gone, marked, outbox, faults>>

\* The client disconnects, and net/http cancels the request context.
Disconnect(r) ==
    /\ faults < MaxFaults /\ faults' = faults + 1
    /\ pc[r] # "new" /\ ~Unlocked(r) /\ r \notin gone
    /\ gone' = gone \cup {r}
    /\ UNCHANGED <<pc, reply, rows, locks, marked, outbox>>

\* The lock's transaction ends by itself: rolled back with a cancelled context,
\* under its holder or after its Unlock, or lost with its session.
LoseLock(r) ==
    /\ Fails(r)
    /\ holder[Target[r]] = r
    /\ holder' = [holder EXCEPT ![Target[r]] = Nobody]
    /\ lockless' = IF Unlocked(r) THEN lockless ELSE lockless \cup {r}
    /\ UNCHANGED <<pc, reply, rows, gone, marked, outbox>>

Step(r) ==
    \/ Lock(r) \/ ReadRow(r) \/ SaveRow(r) \/ InsertRow(r) \/ DeleteRow(r)
    \/ InsertEvent(r) \/ Notify(r) \/ StatementFails(r) \/ Unlock(r) \/ Resolve(r)

Next == \E r \in Request :
    \/ Start(r) \/ StartFails(r) \/ Step(r) \/ LockFails(r)
    \/ Disconnect(r) \/ LoseLock(r)

Spec == Init /\ [][Next]_vars

\* Statements return and holders come to their Unlock; under a context that is
\* done a lock call does fail, and a lock's transaction is rolled back.
Abandoned(r) == r \in gone /\ (LockFails(r) \/ LoseLock(r))

FairSpec ==
    /\ Spec
    /\ \A r \in Request : WF_vars(Step(r)) /\ WF_vars(Abandoned(r))
-----------------------------------------------------------------------------
Over(r) == pc[r] \in {"committed", "rolledback"}
Changed(r) == r \in Image(changes)
Notified(r) == r \in Image(notices)
Before(seq, r, s) == \E i, j \in 1..Len(seq) : i < j /\ seq[i] = r /\ seq[j] = s

\* The advisory lock of d has protected all of its updates so far.
Guarded(d) == LockMode # "off" /\ \A r \in lockless : Target[r] # d

\* A request that is answered with success has its change, its event row and
\* its notification in the database, unless it had nothing to change.
OkMeansPublished ==
    \A r \in Request :
        reply[r] = "ok" =>
            \/ Op[r] = "patch" /\ ~Changed(r) /\ r \notin events
            \/ r \in events /\ Notified(r)

\* No controller is told of a change that has not been made: what OnUpsert reads
\* after an event is at least as new as the event.
ChangeBeforeEvent ==
    /\ \A r \in events : Changed(r) \/ Op[r] = "delete"
    /\ Image(notices) \subseteq events

\* While the advisory lock holds, racing PATCH requests write a row only to
\* change its species: one Update event for one change.
NoRedundantUpdate ==
    [][\A r \in Request :
          (changes' = Append(changes, r) /\ Op[r] = "patch" /\ Guarded(Target[r]))
              => species'[Target[r]] # species[Target[r]]]_vars

\* While the advisory lock holds, listeners hear of the updates of a dinosaur
\* in the order they were made.
NoticesInOrder ==
    \A r, s \in Image(notices) :
        /\ Op[r] = "patch" /\ Op[s] = "patch"
        /\ Target[r] = Target[s] /\ Guarded(Target[r])
        /\ Before(notices, r, s)
        => Before(changes, r, s)

\* The lock of a dinosaur outlives no request but one whose client has left: it
\* goes with the rollback of that request's context (EveryRequestAnswered).
NoLockLeftBehind ==
    \A d \in Dino : holder[d] # Nobody /\ Unlocked(holder[d]) => holder[d] \in gone

\* Every request that reaches its handler is answered and resolved.
EveryRequestAnswered == \A r \in Request : pc[r] = "started" ~> Over(r)
=============================================================================
