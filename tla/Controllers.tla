---------------------------- MODULE Controllers ----------------------------
(***************************************************************************)
(* pkg/controllers/framework.go and the listener that feeds it: events are *)
(* rows that pg_notify announces to the processes that listen; in each     *)
(* process one goroutine takes the notifications one by one and runs the   *)
(* handlers of the event under the event's nonblocking advisory lock.      *)
(*                                                                         *)
(* A Worker is one serving process with its KindControllerManager.         *)
(***************************************************************************)
EXTENDS Sequences, Naturals

CONSTANTS
    Event,
    Worker,
    Nobody,
    Reconnected,  \* the nil pq sends on Notify after it has reconnected
    Handlers,     \* [Event -> number of handlers of its Source and EventType]
    Managed,      \* events whose Source and EventType have an entry
    MayFail,      \* events whose handlers may return an error
    MaxFaults     \* bound on the failures of an instance

ASSUME ControllersAssumption ==
    /\ Nobody \notin Worker \cup Event
    /\ Reconnected \notin Event
    /\ Handlers \in [Event -> Nat]
    /\ Managed \subseteq Event
    /\ MayFail \subseteq Event
    /\ MaxFaults \in Nat

VARIABLES
    row,      \* [Event -> the event's row in the events table]
    sent,     \* events whose pg_notify has been executed
    inbox,    \* [Worker -> notifications on the listener's channel, in order]
    link,     \* [Worker -> the listener's connection]
    pc,       \* [Worker -> where its goroutine is]
    cur,      \* [Worker -> the event in hand]
    next,     \* [Worker -> index of the handler to call]
    owner,    \* [Event -> the worker whose transaction has the event's lock]
    ran,      \* <<e, i>>: handler i of e has succeeded
    effects,  \* [Event -> how often handler 1 of e found the event unreconciled]
    touched,  \* events in whose processing something failed
    missed,   \* events whose notification a process lost, or none received
    faults    \* number of failures so far

work == <<pc, cur, next>>
listen == <<inbox, link>>
history == <<ran, effects>>
failures == <<touched, missed, faults>>
vars == <<row, sent, listen, work, owner, history, failures>>

Rows == {"absent", "pending", "reconciled"}
PCs == {"down", "idle", "locking", "get", "handlers", "reconcile", "unlock"}

TypeOK ==
    /\ row \in [Event -> Rows]
    /\ sent \subseteq Event
    /\ inbox \in [Worker -> Seq(Event \cup {Reconnected})]
    /\ link \in [Worker -> {"up", "down"}]
    /\ pc \in [Worker -> PCs]
    /\ cur \in [Worker -> Event \cup {Nobody}]
    /\ next \in [Worker -> Nat]
    /\ owner \in [Event -> Worker \cup {Nobody}]
    /\ ran \subseteq Event \X Nat
    /\ effects \in [Event -> Nat]
    /\ touched \subseteq Event
    /\ missed \subseteq Event
    /\ faults \in 0..MaxFaults

Goto(w, to) == pc' = [pc EXCEPT ![w] = to]

\* A failure that concerns the events es.
Fault(es) ==
    /\ faults < MaxFaults
    /\ faults' = faults + 1
    /\ touched' = touched \cup es

InHand(w) == {cur[w]} \ {Nobody}
Unread(w) == {inbox[w][i] : i \in 1..Len(inbox[w])} \ {Reconnected}
Released(w) == [e \in Event |-> IF owner[e] = w THEN Nobody ELSE owner[e]]

\* The process ends: the server rolls its transactions back.
Dies(w) ==
    /\ pc' = [pc EXCEPT ![w] = "down"]
    /\ cur' = [cur EXCEPT ![w] = Nobody]
    /\ link' = [link EXCEPT ![w] = "down"]
    /\ inbox' = [inbox EXCEPT ![w] = <<>>]
    /\ missed' = missed \cup Unread(w)
    /\ owner' = Released(w)
-----------------------------------------------------------------------------
Init ==
    /\ row = [e \in Event |-> "absent"]
    /\ sent = {}
    /\ inbox = [w \in Worker |-> <<>>]
    /\ link = [w \in Worker |-> "up"]
    /\ pc = [w \in Worker |-> "idle"]
    /\ cur = [w \in Worker |-> Nobody]
    /\ next = [w \in Worker |-> 1]
    /\ owner = [e \in Event |-> Nobody]
    /\ ran = {}
    /\ effects = [e \in Event |-> 0]
    /\ touched = {} /\ missed = {} /\ faults = 0

\* eventDao.Create inserts the row ...
CreateEvent(e) ==
    /\ row[e] = "absent"
    /\ row' = [row EXCEPT ![e] = "pending"]
    /\ UNCHANGED <<sent, listen, work, owner, history, failures>>

\* ... and then notifies the processes that listen at this moment.
NotifyEvent(e) ==
    /\ row[e] # "absent" /\ e \notin sent
    /\ sent' = sent \cup {e}
    /\ inbox' = [w \in Worker |-> IF link[w] = "up" THEN Append(inbox[w], e) ELSE inbox[w]]
    /\ missed' = IF \A w \in Worker : link[w] = "down" THEN missed \cup {e} ELSE missed
    /\ UNCHANGED <<row, link, work, owner, history, touched, faults>>

\* waitForNotification: the next id is given to Handle, in the same goroutine.
Receive(w) ==
    /\ pc[w] = "idle" /\ inbox[w] # <<>> /\ Head(inbox[w]) # Reconnected
    /\ cur' = [cur EXCEPT ![w] = Head(inbox[w])]
    /\ inbox' = [inbox EXCEPT ![w] = Tail(inbox[w])]
    /\ Goto(w, "locking")
    /\ UNCHANGED <<row, sent, link, next, owner, history, failures>>

\* waitForNotification: n is nil after a reconnection, and n.Channel panics.
ReceiveNil(w) ==
    /\ pc[w] = "idle" /\ inbox[w] # <<>> /\ Head(inbox[w]) = Reconnected
    /\ Dies(w)
    /\ UNCHANGED <<row, sent, next, history, touched, faults>>

\* Mutant of TryLock: acquired is not looked at.
TryLockProceeds(w) ==
    /\ pc[w] = "locking"
    /\ owner' = IF owner[cur[w]] = Nobody THEN [owner EXCEPT ![cur[w]] = w] ELSE owner
    /\ Goto(w, "get")
    /\ UNCHANGED <<row, sent, listen, cur, next, history, failures>>

\* Mutant of TryLock: acquired is tested the wrong way round.
TryLockInverted(w) ==
    /\ pc[w] = "locking"
    /\ IF owner[cur[w]] = Nobody
       THEN owner' = [owner EXCEPT ![cur[w]] = w] /\ Goto(w, "unlock")
       ELSE Goto(w, "get") /\ UNCHANGED owner
    /\ UNCHANGED <<row, sent, listen, cur, next, history, failures>>

\* Handle: NewNonBlockingLock.  An event that another worker has is dropped.
TryLock(w) ==
    /\ pc[w] = "locking"
    /\ \/ /\ owner[cur[w]] = Nobody
          /\ owner' = [owner EXCEPT ![cur[w]] = w]
          /\ Goto(w, "get")
       \/ /\ owner[cur[w]] # Nobody
          /\ Goto(w, "unlock")
          /\ UNCHANGED owner
    /\ UNCHANGED <<row, sent, listen, cur, next, history, failures>>

\* Mutant of GetEvent: the lock is released once the event has been read.
GetEventReleases(w) ==
    /\ pc[w] = "get"
    /\ IF row[cur[w]] # "absent" /\ cur[w] \in Managed
       THEN Goto(w, IF Handlers[cur[w]] = 0 THEN "reconcile" ELSE "handlers")
       ELSE Goto(w, "unlock")
    /\ next' = [next EXCEPT ![w] = 1]
    /\ owner' = Released(w)
    /\ UNCHANGED <<row, sent, listen, cur, history, failures>>

\* handle: the event, its source's entry and its type's handlers.
GetEvent(w) ==
    /\ pc[w] = "get"
    /\ IF row[cur[w]] # "absent" /\ cur[w] \in Managed
       THEN Goto(w, IF Handlers[cur[w]] = 0 THEN "reconcile" ELSE "handlers")
       ELSE Goto(w, "unlock")
    /\ next' = [next EXCEPT ![w] = 1]
    /\ UNCHANGED <<row, sent, listen, cur, owner, history, failures>>

\* handle: one handler function returns nil.  Handler 1 looks at the event's
\* ReconciledDate first, like the handler of the controllers' integration test,
\* and takes effect only if it is not set.
RunHandler(w) ==
    LET e == cur[w] IN
    /\ pc[w] = "handlers"
    /\ ran' = ran \cup {<<e, next[w]>>}
    /\ effects' = IF next[w] = 1 /\ row[e] # "reconciled"
                  THEN [effects EXCEPT ![e] = @ + 1] ELSE effects
    /\ next' = [next EXCEPT ![w] = @ + 1]
    /\ Goto(w, IF next[w] = Handlers[e] THEN "reconcile" ELSE "handlers")
    /\ UNCHANGED <<row, sent, listen, cur, owner, failures>>

\* Mutant of HandlerFails: the error is logged and the next handler called.
HandlerFailsOn(w) ==
    /\ pc[w] = "handlers" /\ cur[w] \in MayFail
    /\ Fault({cur[w]})
    /\ next' = [next EXCEPT ![w] = @ + 1]
    /\ Goto(w, IF next[w] = Handlers[cur[w]] THEN "reconcile" ELSE "handlers")
    /\ UNCHANGED <<row, sent, listen, cur, owner, history, missed>>

\* handle: one handler function returns an error, and handle returns.
HandlerFails(w) ==
    /\ pc[w] = "handlers" /\ cur[w] \in MayFail
    /\ Fault({cur[w]})
    /\ Goto(w, "unlock")
    /\ UNCHANGED <<row, sent, listen, cur, next, owner, history, missed>>

\* Mutant of Reconcile: the date is set on the struct only.
ReconcileInMemory(w) ==
    /\ pc[w] = "reconcile"
    /\ Goto(w, "unlock")
    /\ UNCHANGED <<row, sent, listen, cur, next, owner, history, failures>>

\* handle: ReconciledDate is set and the row is saved.
Reconcile(w) ==
    /\ pc[w] = "reconcile"
    /\ row' = [row EXCEPT ![cur[w]] = "reconciled"]
    /\ Goto(w, "unlock")
    /\ UNCHANGED <<sent, listen, cur, next, owner, history, failures>>

\* A database statement of Handle fails, and Handle returns: the lock call, Get
\* or the last Replace.
StatementFails(w) ==
    /\ pc[w] \in {"locking", "get", "reconcile"}
    /\ Fault(InHand(w))
    /\ Goto(w, "unlock")
    /\ UNCHANGED <<row, sent, listen, cur, next, owner, history, missed>>

\* Mutant of Unlock: the lock's transaction is not ended.
UnlockNothing(w) ==
    /\ pc[w] = "unlock"
    /\ cur' = [cur EXCEPT ![w] = Nobody]
    /\ Goto(w, "idle")
    /\ UNCHANGED <<row, sent, listen, next, owner, history, failures>>

\* Handle: the deferred Unlock; back to waitForNotification.
Unlock(w) ==
    /\ pc[w] = "unlock"
    /\ owner' = Released(w)
    /\ cur' = [cur EXCEPT ![w] = Nobody]
    /\ Goto(w, "idle")
    /\ UNCHANGED <<row, sent, listen, next, history, failures>>
-----------------------------------------------------------------------------
\* The session of the lock is lost while its worker goes on.
LoseLock(w) ==
    /\ \E e \in Event : owner[e] = w
    /\ Fault(InHand(w))
    /\ owner' = Released(w)
    /\ UNCHANGED <<row, sent, listen, work, history, missed>>

\* The listener's connection breaks: what is notified meanwhile is lost.
LinkDown(w) ==
    /\ pc[w] # "down" /\ link[w] = "up"
    /\ Fault({})
    /\ link' = [link EXCEPT ![w] = "down"]
    /\ UNCHANGED <<row, sent, inbox, work, owner, history, missed>>

\* pq has reconnected, and says so with a nil notification.
LinkUp(w) ==
    /\ pc[w] # "down" /\ link[w] = "down"
    /\ link' = [link EXCEPT ![w] = "up"]
    /\ inbox' = [inbox EXCEPT ![w] = Append(@, Reconnected)]
    /\ UNCHANGED <<row, sent, work, owner, history, failures>>

Crash(w) ==
    /\ pc[w] # "down"
    /\ Fault(InHand(w))
    /\ Dies(w)
    /\ UNCHANGED <<row, sent, next, history>>

\* A new process listens for what is notified from now on.
Restart(w) ==
    /\ pc[w] = "down"
    /\ Goto(w, "idle")
    /\ link' = [link EXCEPT ![w] = "up"]
    /\ UNCHANGED <<row, sent, inbox, cur, next, owner, history, failures>>
-----------------------------------------------------------------------------
Step(w) ==
    \/ Receive(w) \/ ReceiveNil(w) \/ TryLock(w) \/ GetEvent(w) \/ RunHandler(w)
    \/ Reconcile(w) \/ Unlock(w) \/ LinkUp(w) \/ Restart(w)

Next ==
    \/ \E e \in Event : CreateEvent(e) \/ NotifyEvent(e)
    \/ \E w \in Worker : Step(w) \/ HandlerFails(w) \/ StatementFails(w)
                           \/ LoseLock(w) \/ LinkDown(w) \/ Crash(w)

Spec == Init /\ [][Next]_vars

\* Workers run, pq reconnects, processes are restarted.
FairSpec == Spec /\ \A w \in Worker : WF_vars(Step(w))
-----------------------------------------------------------------------------
Busy(w) == pc[w] \in {"get", "handlers", "reconcile"}

\* "Of many competing workers, only one would first successfully obtain the
\* lock": two workers are never both processing one event, unless the lock's
\* session was lost.
OneWorkerPerEvent ==
    \A v, w \in Worker :
        /\ Busy(v) /\ Busy(w)
        /\ cur[v] = cur[w] /\ cur[v] \notin touched
        => v = w

\* ReconciledDate is set only on events all of whose handlers have succeeded.
ReconciledIsHandled ==
    \A e \in Event :
        row[e] = "reconciled" =>
            e \in Managed /\ \A i \in 1..Handlers[e] : <<e, i>> \in ran

\* "Due to the event lock, each create event should be only processed once": a
\* handler that skips reconciled events takes effect once for each event in
\* whose processing nothing failed, however many workers are notified.
EffectOnce == \A e \in Event \ touched : effects[e] <= 1

\* A worker between two notifications, or a process that is gone, has no lock.
NoLockLeftBehind ==
    \A e \in Event : owner[e] # Nobody => pc[owner[e]] \notin {"idle", "down"}

\* No event is dropped in silence: one that was notified is reconciled, or waits
\* in some process, or is in some worker's hands, unless a failure met it, even
\* though workers drop the events that another one has locked.
PendingIsExplained ==
    \A e \in (sent \cap Managed) \ (touched \cup missed) :
        \/ row[e] = "reconciled"
        \/ \E w \in Worker : e \in Unread(w) \cup InHand(w)

\* Without failures, every managed event that is notified is reconciled.
NotifiedIsReconciled ==
    \A e \in Managed : e \in sent ~> (row[e] = "reconciled" \/ faults > 0)

\* The lock of an event is never held for good, whatever fails.
EveryLockReleased == \A e \in Event : owner[e] # Nobody ~> owner[e] = Nobody
=============================================================================
