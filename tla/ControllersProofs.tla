-------------------------- MODULE ControllersProofs --------------------------
(***************************************************************************)
(* Theorems about Controllers: for all events, however many workers, and   *)
(* whatever fails.  The invariant comes in layers, each of which uses the  *)
(* ones before it: who has which event and its lock; which handlers have   *)
(* run; what took effect; what has become of a notified event.             *)
(***************************************************************************)
EXTENDS Controllers, SequenceTheorems, TLAPS

Actions(w) == Step(w) \/ HandlerFails(w) \/ StatementFails(w)
                \/ LoseLock(w) \/ LinkDown(w) \/ Crash(w)

\* A worker away from its channel has an event in hand.
HandOK == \A w \in Worker : pc[w] \notin {"idle", "down"} => cur[w] \in Event

\* A lock belongs to the worker that has its event in hand, past TryLock.
OwnerOK ==
    \A e \in Event : owner[e] # Nobody =>
        /\ cur[owner[e]] = e
        /\ pc[owner[e]] \in {"get", "handlers", "reconcile", "unlock"}

\* A worker at work has the lock, unless its session was lost.
BusyOK == \A w \in Worker : Busy(w) => owner[cur[w]] = w \/ cur[w] \in touched

LockInv == TypeOK /\ HandOK /\ OwnerOK /\ BusyOK
-----------------------------------------------------------------------------
Elements(s) == {s[i] : i \in 1..Len(s)}

LEMMA ElementsOfTail ==
    ASSUME NEW S, NEW s \in Seq(S), s # <<>>
    PROVE  /\ Head(s) \in S /\ Tail(s) \in Seq(S)
           /\ Elements(s) = {Head(s)} \cup Elements(Tail(s))
<1>1. Head(s) = s[1] /\ Head(s) \in S /\ Tail(s) \in Seq(S) /\ Len(Tail(s)) = Len(s) - 1
  BY HeadTailProperties
<1>2. \A i \in 1..Len(Tail(s)) : Tail(s)[i] = s[i + 1]
  BY HeadTailProperties
<1>3. Len(s) \in Nat \ {0}
  BY EmptySeq
<1>4. \A i \in 1..Len(s) : i = 1 \/ (i - 1 \in 1..Len(Tail(s)) /\ (i - 1) + 1 = i)
  BY <1>1, <1>3
<1>5. \A i \in 1..Len(Tail(s)) : i + 1 \in 1..Len(s)
  BY <1>1, <1>3
<1>6. Elements(s) \subseteq {Head(s)} \cup Elements(Tail(s))
  BY <1>1, <1>2, <1>4 DEF Elements
<1>7. {Head(s)} \cup Elements(Tail(s)) \subseteq Elements(s)
  BY <1>1, <1>2, <1>3, <1>5 DEF Elements
<1> QED
  BY <1>1, <1>6, <1>7

LEMMA ElementsOfAppend ==
    ASSUME NEW S, NEW s \in Seq(S), NEW x \in S
    PROVE  /\ Append(s, x) \in Seq(S)
           /\ Elements(Append(s, x)) = Elements(s) \cup {x}
<1>1. Append(s, x) \in Seq(S) /\ Len(Append(s, x)) = Len(s) + 1 /\ Len(s) \in Nat
  OBVIOUS
<1>2. \A i \in 1..Len(s) : Append(s, x)[i] = s[i]
  OBVIOUS
<1>3. Append(s, x)[Len(s) + 1] = x
  OBVIOUS
<1>4. Elements(Append(s, x)) \subseteq Elements(s) \cup {x}
  <2> SUFFICES ASSUME NEW i \in 1..Len(s) + 1
               PROVE  Append(s, x)[i] \in Elements(s) \cup {x}
    BY <1>1 DEF Elements
  <2> QED
    BY <1>1, <1>2, <1>3 DEF Elements
<1>5. Elements(s) \cup {x} \subseteq Elements(Append(s, x))
  <2>1. x \in Elements(Append(s, x))
    BY <1>1, <1>3 DEF Elements
  <2>2. Elements(s) \subseteq Elements(Append(s, x))
    <3> SUFFICES ASSUME NEW i \in 1..Len(s) PROVE s[i] \in Elements(Append(s, x))
      BY DEF Elements
    <3> QED
      BY <1>1, <1>2 DEF Elements
  <2> QED
    BY <2>1, <2>2
<1> QED
  BY <1>1, <1>4, <1>5

LEMMA NoElements == Elements(<<>>) = {}
  BY DEF Elements

\* What is in a channel.
LEMMA InboxTyped ==
    ASSUME TypeOK, NEW w \in Worker
    PROVE  inbox[w] \in Seq(Event \cup {Reconnected})
  BY DEF TypeOK

LEMMA LockTyped ==
    ASSUME NEW w \in Worker, TryLock(w), pc \in [Worker -> PCs],
           owner \in [Event -> Worker \cup {Nobody}]
    PROVE  owner' \in [Event -> Worker \cup {Nobody}] /\ pc' \in [Worker -> PCs]
<1>1. owner' = owner \/ owner' = [owner EXCEPT ![cur[w]] = w]
  BY DEF TryLock
<1>2. \E p \in {"get", "unlock"} : pc' = [pc EXCEPT ![w] = p]
  BY DEF TryLock, Goto
<1> QED
  BY <1>1, <1>2 DEF PCs

\* Every step keeps the types.
LEMMA TypeKept == ASSUME TypeOK, HandOK, [Next]_vars PROVE TypeOK'
<1> DEFINE Channel == Seq(Event \cup {Reconnected})
<1> USE ControllersAssumption
<1>0. \A w \in Worker : inbox[w] \in Channel
  BY DEF TypeOK
<1>1. ASSUME NEW e \in Event, CreateEvent(e) PROVE TypeOK'
  BY <1>1 DEF CreateEvent, TypeOK, Rows, listen, work, history, failures
<1>2. ASSUME NEW e \in Event, NotifyEvent(e) PROVE TypeOK'
  <2>1. \A w \in Worker : Append(inbox[w], e) \in Channel
    BY <1>0
  <2>2. inbox' \in [Worker -> Channel]
    BY <1>0, <1>2, <2>1 DEF NotifyEvent
  <2> QED
    BY <1>2, <2>2 DEF NotifyEvent, TypeOK, work, history
<1>3. ASSUME NEW w \in Worker, Actions(w) PROVE TypeOK'
  <2> USE DEF TypeOK, PCs, Goto, work, listen, history, failures
  <2>1. CASE Receive(w)
    <3>1. Head(inbox[w]) \in Event /\ Tail(inbox[w]) \in Channel
      BY <1>0, <2>1, ElementsOfTail DEF Receive
    <3> QED
      BY <2>1, <3>1 DEF Receive
  <2>2. ASSUME Dies(w), UNCHANGED <<row, sent, next, history>>,
               touched' \subseteq Event, faults' \in 0..MaxFaults
        PROVE  TypeOK'
    <3>1. Unread(w) \subseteq Event
      BY <1>0 DEF Unread
    <3>2. <<>> \in Channel
      BY EmptySeq
    <3> QED
      BY <2>2, <3>1, <3>2 DEF Dies, Released
  <2>3. CASE ReceiveNil(w)
    BY <2>2, <2>3 DEF ReceiveNil
  <2>4. CASE Crash(w)
    BY <2>2, <2>4 DEF Crash, Fault, InHand
  <2>5. CASE TryLock(w)
    <3>1. owner' \in [Event -> Worker \cup {Nobody}] /\ pc' \in [Worker -> PCs]
      BY <2>5, LockTyped
    <3> QED
      BY <2>5, <3>1 DEF TryLock
  <2>6. CASE GetEvent(w)
    BY <2>6 DEF GetEvent
  <2>7. CASE RunHandler(w)
    <3>1. cur[w] \in Event
      BY <2>7 DEF RunHandler, HandOK
    <3>2. next[w] \in Nat /\ next[w] + 1 \in Nat
      OBVIOUS
    <3>3. next' \in [Worker -> Nat] /\ ran' \subseteq Event \X Nat
      BY <2>7, <3>1, <3>2 DEF RunHandler
    <3>4. effects' \in [Event -> Nat]
      <4>1. effects' = effects \/ effects' = [effects EXCEPT ![cur[w]] = @ + 1]
        BY <2>7 DEF RunHandler
      <4> QED BY <3>1, <4>1
    <3>5. pc' \in [Worker -> PCs]
      BY <2>7 DEF RunHandler
    <3> QED
      BY <2>7, <3>3, <3>4, <3>5 DEF RunHandler
  <2>8. CASE HandlerFails(w)
    BY <2>8 DEF HandlerFails, Fault
  <2>9. CASE Reconcile(w)
    BY <2>9 DEF Reconcile, Rows
  <2>10. CASE StatementFails(w)
    BY <2>10 DEF StatementFails, Fault, InHand
  <2>11. CASE Unlock(w)
    BY <2>11 DEF Unlock, Released
  <2>12. CASE LoseLock(w)
    BY <2>12 DEF LoseLock, Released, Fault, InHand
  <2>13. CASE LinkDown(w)
    BY <2>13 DEF LinkDown, Fault
  <2>14. CASE LinkUp(w)
    <3>1. Append(inbox[w], Reconnected) \in Channel
      BY <1>0
    <3> QED
      BY <2>14, <3>1 DEF LinkUp
  <2>15. CASE Restart(w)
    BY <2>15 DEF Restart
  <2> QED
    BY <1>3, <2>1, <2>3, <2>4, <2>5, <2>6, <2>7, <2>8, <2>9, <2>10, <2>11, <2>12,
       <2>13, <2>14, <2>15 DEF Actions, Step
<1>4. CASE UNCHANGED vars
  BY <1>4 DEF vars, TypeOK, listen, work, history, failures
<1> QED
  BY <1>1, <1>2, <1>3, <1>4 DEF Next, Actions
-----------------------------------------------------------------------------
\* A worker's step leaves the others where they are.
LEMMA OthersStay ==
    ASSUME TypeOK, NEW w \in Worker, Actions(w), NEW v \in Worker, v # w
    PROVE  pc'[v] = pc[v] /\ cur'[v] = cur[v] /\ next'[v] = next[v]
<1> USE DEF TypeOK, Goto, work, listen
<1>1. CASE Receive(w) \/ ReceiveNil(w) \/ Crash(w) \/ Restart(w)
  BY <1>1 DEF Receive, ReceiveNil, Crash, Restart, Dies
<1>2. CASE TryLock(w) \/ GetEvent(w) \/ Reconcile(w) \/ Unlock(w)
  BY <1>2 DEF TryLock, GetEvent, Reconcile, Unlock
<1>3. CASE RunHandler(w)
  BY <1>3 DEF RunHandler
<1>4. CASE HandlerFails(w) \/ StatementFails(w)
  BY <1>4 DEF HandlerFails, StatementFails
<1>5. CASE LoseLock(w) \/ LinkDown(w) \/ LinkUp(w)
  BY <1>5 DEF LoseLock, LinkDown, LinkUp
<1> QED
  BY <1>1, <1>2, <1>3, <1>4, <1>5 DEF Actions, Step

\* What a worker's step does to itself, to the locks and to what has failed.
Freed(w) == \A e \in Event : owner'[e] = IF owner[e] = w THEN Nobody ELSE owner[e]

Moved(w) ==
    \/ /\ pc[w] = "idle" /\ pc'[w] = "locking" /\ cur'[w] \in Event
       /\ UNCHANGED <<owner, touched>>
    \/ /\ pc'[w] = "down" /\ cur'[w] = Nobody /\ Freed(w)
       /\ touched \subseteq touched'
    \/ /\ pc[w] = "down" /\ pc'[w] = "idle" /\ UNCHANGED <<owner, touched>>
    \/ /\ pc[w] = "locking" /\ pc'[w] = "get" /\ cur'[w] = cur[w]
       /\ owner[cur[w]] = Nobody /\ owner' = [owner EXCEPT ![cur[w]] = w]
       /\ UNCHANGED touched
    \/ /\ pc[w] = "locking" /\ pc'[w] = "unlock" /\ cur'[w] = cur[w]
       /\ UNCHANGED owner /\ touched \subseteq touched'
    \/ /\ Busy(w) /\ pc'[w] \in {"handlers", "reconcile", "unlock"} /\ cur'[w] = cur[w]
       /\ UNCHANGED owner /\ touched \subseteq touched'
    \/ /\ pc[w] = "unlock" /\ pc'[w] = "idle" /\ Freed(w) /\ UNCHANGED touched
    \/ /\ UNCHANGED <<pc, cur>> /\ Freed(w) /\ touched' = touched \cup InHand(w)
    \/ /\ UNCHANGED <<pc, cur, owner>> /\ UNCHANGED touched

LEMMA ItMoves ==
    ASSUME TypeOK, NEW w \in Worker, Actions(w)
    PROVE  Moved(w)
<1> USE DEF TypeOK, Goto, work, listen, history, failures, Moved, Freed, Busy
<1>1. CASE Receive(w)
  <2>1. Head(inbox[w]) \in Event
    BY <1>1, InboxTyped, ElementsOfTail DEF Receive
  <2> QED BY <1>1, <2>1 DEF Receive
<1>2. CASE ReceiveNil(w)
  BY <1>2 DEF ReceiveNil, Dies, Released
<1>3. CASE Crash(w)
  BY <1>3 DEF Crash, Dies, Released, Fault
<1>4. CASE TryLock(w)
  BY <1>4 DEF TryLock
<1>5. CASE GetEvent(w)
  <2>1. pc' = [pc EXCEPT ![w] = "handlers"] \/ pc' = [pc EXCEPT ![w] = "reconcile"]
          \/ pc' = [pc EXCEPT ![w] = "unlock"]
    BY <1>5 DEF GetEvent
  <2> QED BY <1>5, <2>1 DEF GetEvent
<1>6. CASE RunHandler(w)
  <2>1. pc' = [pc EXCEPT ![w] = "handlers"] \/ pc' = [pc EXCEPT ![w] = "reconcile"]
    BY <1>6 DEF RunHandler
  <2> QED BY <1>6, <2>1 DEF RunHandler
<1>7. CASE HandlerFails(w) \/ StatementFails(w)
  BY <1>7 DEF HandlerFails, StatementFails, Fault
<1>8. CASE Reconcile(w)
  BY <1>8 DEF Reconcile
<1>9. CASE Unlock(w)
  BY <1>9 DEF Unlock, Released
<1>10. CASE LoseLock(w)
  BY <1>10 DEF LoseLock, Released, Fault
<1>11. CASE LinkDown(w)
  BY <1>11 DEF LinkDown, Fault
<1>12. CASE LinkUp(w)
  BY <1>12 DEF LinkUp
<1>13. CASE Restart(w)
  BY <1>13 DEF Restart
<1> QED
  BY <1>1, <1>2, <1>3, <1>4, <1>5, <1>6, <1>7, <1>8, <1>9, <1>10, <1>11, <1>12, <1>13
     DEF Actions, Step

LEMMA LockKept == LockInv /\ [Next]_vars => LockInv'
<1> SUFFICES ASSUME LockInv, [Next]_vars PROVE LockInv'
  OBVIOUS
<1> USE ControllersAssumption
<1>1. TypeOK'
  BY TypeKept DEF LockInv
<1>2. ASSUME UNCHANGED <<pc, cur, owner, touched>> PROVE (HandOK /\ OwnerOK /\ BusyOK)'
  BY <1>2 DEF LockInv, HandOK, OwnerOK, BusyOK, Busy
<1>3. ASSUME NEW w \in Worker, Actions(w) PROVE (HandOK /\ OwnerOK /\ BusyOK)'
  <2>1. Moved(w)
    BY <1>3, ItMoves DEF LockInv
  <2>2. \A v \in Worker : v # w => pc'[v] = pc[v] /\ cur'[v] = cur[v]
    BY <1>3, OthersStay DEF LockInv
  <2>3. TypeOK /\ HandOK /\ OwnerOK /\ BusyOK
    BY DEF LockInv
  <2>4. HandOK'
    BY <2>1, <2>2, <2>3 DEF HandOK, Moved, Busy
  <2>5. OwnerOK'
    <3> SUFFICES ASSUME NEW e \in Event, owner'[e] # Nobody
                 PROVE  /\ cur'[owner'[e]] = e
                        /\ pc'[owner'[e]] \in {"get", "handlers", "reconcile", "unlock"}
      BY DEF OwnerOK
    <3>1. owner[e] \in Worker \cup {Nobody}
      BY <2>3 DEF TypeOK
    <3>2. CASE owner'[e] = owner[e]
      BY <2>1, <2>2, <2>3, <3>1, <3>2 DEF Moved, Freed, OwnerOK, Busy
    <3>3. CASE owner'[e] # owner[e]
      <4>1. /\ pc[w] = "locking" /\ pc'[w] = "get" /\ cur'[w] = cur[w]
            /\ owner' = [owner EXCEPT ![cur[w]] = w]
        BY <2>1, <3>3 DEF Moved, Freed
      <4>2. e = cur[w] /\ owner'[e] = w
        BY <2>3, <3>3, <4>1 DEF TypeOK
      <4> QED BY <4>1, <4>2
    <3> QED BY <3>2, <3>3
  <2>6. BusyOK'
    <3> SUFFICES ASSUME NEW v \in Worker, Busy(v)', cur'[v] \notin touched'
                 PROVE  owner'[cur'[v]] = v
      BY DEF BusyOK
    <3>1. touched \subseteq touched'
      BY <2>1 DEF Moved
    <3>2. CASE v = w
      <4>1. cur[w] \in Event
        BY <2>1, <2>3, <3>2 DEF Moved, Busy, HandOK
      <4> QED
        BY <2>1, <2>3, <3>1, <3>2, <4>1 DEF Moved, Busy, BusyOK, Freed, InHand, TypeOK
    <3>3. CASE v # w
      <4>1. owner[cur[v]] = v /\ cur[v] \in Event /\ cur'[v] = cur[v]
        BY <2>2, <2>3, <3>1, <3>3 DEF Busy, BusyOK, HandOK
      <4> QED
        BY <2>1, <2>3, <3>3, <4>1 DEF Moved, Freed, TypeOK
    <3> QED BY <3>2, <3>3
  <2> QED BY <2>4, <2>5, <2>6
<1>4. ASSUME NEW e \in Event, CreateEvent(e) \/ NotifyEvent(e)
      PROVE  (HandOK /\ OwnerOK /\ BusyOK)'
  BY <1>2, <1>4 DEF CreateEvent, NotifyEvent, work, failures
<1>5. CASE UNCHANGED vars
  <2>1. UNCHANGED <<pc, cur, owner, touched>>
    BY <1>5 DEF vars, work, failures
  <2> QED BY <1>1, <1>2, <2>1 DEF LockInv
<1> QED
  BY <1>1, <1>3, <1>4, <1>5 DEF LockInv, Next, Actions

LEMMA LockInitially == Init => LockInv
<1> SUFFICES ASSUME Init PROVE LockInv
  OBVIOUS
<1> USE DEF Init
<1>1. <<>> \in Seq(Event \cup {Reconnected})
  BY EmptySeq
<1>2. TypeOK
  BY <1>1, ControllersAssumption DEF TypeOK, Rows, PCs
<1> QED
  BY <1>2 DEF LockInv, HandOK, OwnerOK, BusyOK, Busy

LEMMA LockAlways == Spec => []LockInv
  BY LockInitially, LockKept, PTL DEF Spec

\* Workers, links, locks and events keep their types, however many there are.
THEOREM TypeCorrect == Spec => []TypeOK
<1>1. LockInv => TypeOK
  BY DEF LockInv
<1> QED BY <1>1, LockAlways, PTL

\* Two workers are at work on one event only if a session was lost under one.
THEOREM OneWorkerPerEventHolds == Spec => []OneWorkerPerEvent
<1>1. LockInv => OneWorkerPerEvent
  BY DEF LockInv, OneWorkerPerEvent, BusyOK, Busy
<1> QED BY <1>1, LockAlways, PTL

\* On no path through Handle, after no failure and no death, does a lock stay
\* with a worker that waits for its next notification or with none at all.
THEOREM NoLockLeftBehindHolds == Spec => []NoLockLeftBehind
<1>1. LockInv => NoLockLeftBehind
  BY DEF LockInv, OwnerOK, NoLockLeftBehind
<1> QED BY <1>1, LockAlways, PTL
-----------------------------------------------------------------------------
\* The handlers before the next one have succeeded, and all of them when the date
\* is about to be set.
HandledOK ==
    \A w \in Worker :
        /\ pc[w] = "handlers" =>
              /\ cur[w] \in Managed /\ next[w] \in 1..Handlers[cur[w]]
              /\ \A i \in 1..next[w] - 1 : <<cur[w], i>> \in ran
        /\ pc[w] = "reconcile" =>
              cur[w] \in Managed /\ \A i \in 1..Handlers[cur[w]] : <<cur[w], i>> \in ran

HandlerInv == LockInv /\ HandledOK /\ ReconciledIsHandled

\* Handlers never come undone, and only these steps go near them.
Ran(w) ==
    \/ /\ pc[w] = "get" /\ pc'[w] \in {"handlers", "reconcile"} /\ cur[w] \in Managed
       /\ next'[w] = 1 /\ (pc'[w] = "reconcile" <=> Handlers[cur[w]] = 0)
       /\ cur'[w] = cur[w] /\ UNCHANGED <<row, ran>>
    \/ RunHandler(w)
    \/ Reconcile(w)
    \/ /\ pc'[w] \notin {"handlers", "reconcile"} \/ UNCHANGED <<pc, cur, next>>
       /\ UNCHANGED <<row, ran>>

LEMMA ItRuns ==
    ASSUME TypeOK, NEW w \in Worker, Actions(w)
    PROVE  Ran(w)
<1> USE DEF TypeOK, Goto, work, listen, history, Ran
<1>1. CASE Receive(w) \/ ReceiveNil(w) \/ Crash(w) \/ Restart(w)
  BY <1>1 DEF Receive, ReceiveNil, Crash, Restart, Dies
<1>2. CASE TryLock(w)
  BY <1>2 DEF TryLock
<1>3. CASE GetEvent(w)
  <2>1. CASE row[cur[w]] # "absent" /\ cur[w] \in Managed
    <3>1. CASE Handlers[cur[w]] = 0
      BY <1>3, <2>1, <3>1 DEF GetEvent
    <3>2. CASE Handlers[cur[w]] # 0
      BY <1>3, <2>1, <3>2 DEF GetEvent
    <3> QED BY <3>1, <3>2
  <2>2. CASE ~(row[cur[w]] # "absent" /\ cur[w] \in Managed)
    BY <1>3, <2>2 DEF GetEvent
  <2> QED BY <2>1, <2>2
<1>4. CASE HandlerFails(w) \/ StatementFails(w) \/ Unlock(w)
  BY <1>4 DEF HandlerFails, StatementFails, Unlock
<1>5. CASE LoseLock(w) \/ LinkDown(w) \/ LinkUp(w)
  BY <1>5 DEF LoseLock, LinkDown, LinkUp
<1> QED
  BY <1>1, <1>2, <1>3, <1>4, <1>5 DEF Actions, Step

LEMMA HandlersKept == HandlerInv /\ [Next]_vars => HandlerInv'
<1> SUFFICES ASSUME HandlerInv, [Next]_vars PROVE HandlerInv'
  OBVIOUS
<1> USE ControllersAssumption
<1>1. LockInv' /\ TypeOK /\ HandledOK /\ ReconciledIsHandled
  BY LockKept DEF HandlerInv, LockInv
<1>2. ASSUME UNCHANGED <<pc, cur, next, ran>>, NEW e \in Event,
             row' = row \/ row' = [row EXCEPT ![e] = "pending"]
      PROVE  (HandledOK /\ ReconciledIsHandled)'
  BY <1>1, <1>2 DEF HandledOK, ReconciledIsHandled, TypeOK
<1>3. ASSUME NEW w \in Worker, Actions(w) PROVE (HandledOK /\ ReconciledIsHandled)'
  <2>1. Ran(w)
    BY <1>1, <1>3, ItRuns
  <2>2. \A v \in Worker : v # w => pc'[v] = pc[v] /\ cur'[v] = cur[v] /\ next'[v] = next[v]
    BY <1>1, <1>3, OthersStay
  <2>3. ran \subseteq ran'
    BY <2>1 DEF Ran, RunHandler, Reconcile, history
  <2>4. HandledOK'
    <3> SUFFICES ASSUME NEW v \in Worker
                 PROVE  (/\ pc[v] = "handlers" =>
                              /\ cur[v] \in Managed /\ next[v] \in 1..Handlers[cur[v]]
                              /\ \A i \in 1..next[v] - 1 : <<cur[v], i>> \in ran
                         /\ pc[v] = "reconcile" =>
                              /\ cur[v] \in Managed
                              /\ \A i \in 1..Handlers[cur[v]] : <<cur[v], i>> \in ran)'
      BY DEF HandledOK
    <3>1. CASE v # w
      BY <1>1, <2>2, <2>3, <3>1 DEF HandledOK
    <3>2. CASE v = w /\ RunHandler(w)
      <4> DEFINE e == cur[w]
      <4>1. /\ pc[w] = "handlers" /\ cur'[w] = e /\ next'[w] = next[w] + 1
            /\ ran' = ran \cup {<<e, next[w]>>}
            /\ pc'[w] = IF next[w] = Handlers[e] THEN "reconcile" ELSE "handlers"
        BY <1>1, <3>2 DEF RunHandler, TypeOK, Goto
      <4>2. e \in Managed /\ next[w] \in 1..Handlers[e] /\ Handlers[e] \in Nat
        BY <1>1, <4>1 DEF HandledOK
      <4>3. \A i \in 1..next[w] : <<e, i>> \in ran'
        <5> SUFFICES ASSUME NEW i \in 1..next[w] PROVE <<e, i>> \in ran'
          OBVIOUS
        <5>1. i = next[w] \/ i \in 1..next[w] - 1
          BY <4>2
        <5> QED
          BY <1>1, <4>1, <5>1 DEF HandledOK
      <4>4. CASE next[w] = Handlers[e]
        BY <3>2, <4>1, <4>2, <4>3, <4>4
      <4>5. CASE next[w] # Handlers[e]
        <5>1. next[w] + 1 \in 1..Handlers[e] /\ (next[w] + 1) - 1 = next[w]
          BY <4>2, <4>5
        <5> QED BY <3>2, <4>1, <4>2, <4>3, <4>5, <5>1
      <4> QED BY <4>4, <4>5
    <3>3. CASE v = w /\ Reconcile(w)
      BY <1>1, <3>3 DEF Reconcile, TypeOK, Goto
    <3>4. CASE v = w /\ ~RunHandler(w) /\ ~Reconcile(w)
      <4>1. CASE pc[w] = "get" /\ pc'[w] \in {"handlers", "reconcile"} /\ cur[w] \in Managed
        <5>1. /\ next'[w] = 1 /\ (pc'[w] = "reconcile" <=> Handlers[cur[w]] = 0)
              /\ cur'[w] = cur[w]
          BY <2>1, <3>4, <4>1 DEF Ran
        <5>2. Handlers[cur[w]] \in Nat
          BY <4>1
        <5> QED BY <3>4, <4>1, <5>1, <5>2
      <4>2. CASE pc'[w] \notin {"handlers", "reconcile"} \/ UNCHANGED <<pc, cur, next>>
        BY <1>1, <2>3, <3>4, <4>2 DEF HandledOK
      <4> QED BY <2>1, <3>4, <4>1, <4>2 DEF Ran
    <3> QED BY <3>1, <3>2, <3>3, <3>4
  <2>5. ReconciledIsHandled'
    <3>1. CASE Reconcile(w)
      <4>1. row' = [row EXCEPT ![cur[w]] = "reconciled"] /\ pc[w] = "reconcile"
        BY <3>1 DEF Reconcile
      <4> QED
        BY <1>1, <2>3, <4>1 DEF HandledOK, ReconciledIsHandled, TypeOK
    <3>2. CASE ~Reconcile(w)
      <4>1. row' = row
        BY <2>1, <3>2 DEF Ran, RunHandler
      <4> QED
        BY <1>1, <2>3, <4>1 DEF ReconciledIsHandled
    <3> QED BY <3>1, <3>2
  <2> QED BY <2>4, <2>5
<1>4. ASSUME NEW e \in Event, CreateEvent(e) \/ NotifyEvent(e)
      PROVE  (HandledOK /\ ReconciledIsHandled)'
  BY <1>2, <1>4 DEF CreateEvent, NotifyEvent, work, history
<1>5. CASE UNCHANGED vars
  <2>1. UNCHANGED <<pc, cur, next, ran, row>>
    BY <1>5 DEF vars, work, history
  <2> QED BY <1>1, <2>1 DEF HandlerInv, HandledOK, ReconciledIsHandled
<1> QED
  BY <1>1, <1>3, <1>4, <1>5 DEF HandlerInv, Next, Actions

LEMMA HandlersInitially == Init => HandlerInv
  BY LockInitially DEF Init, HandlerInv, HandledOK, ReconciledIsHandled

LEMMA HandlersAlways == Spec => []HandlerInv
  BY HandlersInitially, HandlersKept, PTL DEF Spec

\* ReconciledDate stands for the success of every handler the event has.
THEOREM ReconciledIsHandledHolds == Spec => []ReconciledIsHandled
<1>1. HandlerInv => ReconciledIsHandled
  BY DEF HandlerInv
<1> QED BY <1>1, HandlersAlways, PTL
-----------------------------------------------------------------------------
\* An effect is followed by the other handlers and the date, in the same hands.
Effective(w) == (pc[w] = "handlers" /\ next[w] > 1) \/ pc[w] = "reconcile"

EffectOK ==
    \A e \in Event \ touched :
        /\ effects[e] <= 1
        /\ effects[e] = 1 =>
              row[e] = "reconciled" \/ \E w \in Worker : cur[w] = e /\ Effective(w)

EffectInv == HandlerInv /\ EffectOK

\* A worker that is past TryLock goes on with its event, or has dated it, or has
\* met a failure, or was refused, or found nothing to do.
LEMMA ItLeaves ==
    ASSUME TypeOK, NEW w \in Worker, Actions(w), cur[w] \in Event,
           pc[w] \in {"locking", "get", "handlers", "reconcile"}
    PROVE  \/ cur[w] \in touched'
           \/ Reconcile(w)
           \/ RunHandler(w)
           \/ UNCHANGED <<pc, cur, next, row, effects>>
           \/ /\ pc[w] \in {"locking", "get"} /\ cur'[w] = cur[w] /\ UNCHANGED <<row, effects>>
              /\ \/ pc'[w] \in {"get", "handlers", "reconcile"}
                 \/ pc[w] = "locking" /\ owner[cur[w]] # Nobody
                 \/ pc[w] = "get" /\ (row[cur[w]] = "absent" \/ cur[w] \notin Managed)
<1> USE ControllersAssumption DEF Goto, work, listen, history
<1>1. InHand(w) = {cur[w]}
  BY DEF InHand
<1>2. CASE Receive(w) \/ ReceiveNil(w) \/ Restart(w) \/ Unlock(w)
  BY <1>2 DEF Receive, ReceiveNil, Restart, Unlock
<1>3. CASE TryLock(w)
  BY <1>3 DEF TryLock, TypeOK
<1>4. CASE GetEvent(w)
  <2>1. CASE row[cur[w]] # "absent" /\ cur[w] \in Managed
    <3>1. pc'[w] \in {"handlers", "reconcile"}
      <4>1. pc' = [pc EXCEPT ![w] = "handlers"] \/ pc' = [pc EXCEPT ![w] = "reconcile"]
        BY <1>4, <2>1 DEF GetEvent
      <4> QED BY <4>1 DEF TypeOK
    <3> QED BY <1>4, <3>1 DEF GetEvent
  <2>2. CASE ~(row[cur[w]] # "absent" /\ cur[w] \in Managed)
    BY <1>4, <2>2 DEF GetEvent
  <2> QED BY <2>1, <2>2
<1>5. CASE HandlerFails(w) \/ StatementFails(w) \/ Crash(w)
  BY <1>1, <1>5 DEF HandlerFails, StatementFails, Crash, Fault
<1>6. CASE LoseLock(w)
  BY <1>1, <1>6 DEF LoseLock, Fault
<1>7. CASE LinkDown(w) \/ LinkUp(w)
  BY <1>7 DEF LinkDown, LinkUp
<1> QED
  BY <1>2, <1>3, <1>4, <1>5, <1>6, <1>7 DEF Actions, Step

\* Elsewhere, a worker changes no row and has no effect.
LEMMA ElseNothing ==
    ASSUME NEW w \in Worker, Actions(w), ~Reconcile(w), ~RunHandler(w)
    PROVE  UNCHANGED <<row, effects, sent>>
  BY DEF Actions, Step, Receive, ReceiveNil, TryLock, GetEvent, Unlock, LinkUp, Restart,
         HandlerFails, StatementFails, LoseLock, LinkDown, Crash, history

\* What has failed or been dated stays so.
LEMMA ItStays ==
    ASSUME TypeOK, NEW w \in Worker, Actions(w)
    PROVE  /\ touched \subseteq touched' /\ sent' = sent
           /\ \A e \in Event : row[e] = "reconciled" => row'[e] = "reconciled"
           /\ \A e \in Event : row[e] # "absent" => row'[e] # "absent"
<1>1. touched \subseteq touched'
  BY ItMoves DEF Moved
<1>2. CASE Reconcile(w)
  BY <1>1, <1>2 DEF Reconcile, TypeOK
<1>3. CASE RunHandler(w)
  BY <1>1, <1>3 DEF RunHandler
<1>4. CASE ~Reconcile(w) /\ ~RunHandler(w)
  BY <1>1, <1>4, ElseNothing
<1> QED BY <1>2, <1>3, <1>4

LEMMA EffectsKept == EffectInv /\ [Next]_vars => EffectInv'
<1> SUFFICES ASSUME EffectInv, [Next]_vars PROVE EffectInv'
  OBVIOUS
<1> USE ControllersAssumption
<1>1. /\ HandlerInv' /\ TypeOK /\ HandOK /\ BusyOK /\ HandledOK /\ EffectOK
  BY HandlersKept DEF EffectInv, HandlerInv, LockInv
<1>2. ASSUME NEW w \in Worker, Actions(w) PROVE EffectOK'
  <2>1. \A v \in Worker : v # w => pc'[v] = pc[v] /\ cur'[v] = cur[v] /\ next'[v] = next[v]
    BY <1>1, <1>2, OthersStay
  <2>2. /\ touched \subseteq touched'
        /\ \A e \in Event : row[e] = "reconciled" => row'[e] = "reconciled"
    BY <1>1, <1>2, ItStays
  <2> SUFFICES ASSUME NEW e \in Event \ touched'
               PROVE  /\ effects'[e] <= 1
                      /\ effects'[e] = 1 =>
                            \/ row'[e] = "reconciled"
                            \/ \E v \in Worker : cur'[v] = e /\ Effective(v)'
    BY DEF EffectOK
  <2>3. /\ e \in Event /\ e \notin touched /\ effects[e] \in Nat /\ effects[e] <= 1
        /\ effects[e] = 1 =>
              row[e] = "reconciled" \/ \E v \in Worker : cur[v] = e /\ Effective(v)
    BY <1>1, <2>2 DEF EffectOK, TypeOK
  <2>4. CASE RunHandler(w) /\ cur[w] = e
    <3>1. /\ pc[w] = "handlers" /\ cur'[w] = e /\ next'[w] = next[w] + 1 /\ next[w] \in Nat
          /\ pc'[w] = "handlers" \/ pc'[w] = "reconcile"
          /\ row' = row
      BY <1>1, <2>4 DEF RunHandler, TypeOK, Goto
    <3>2. next[w] >= 1
      BY <1>1, <3>1 DEF HandledOK
    <3>3. cur'[w] = e /\ Effective(w)'
      BY <3>1, <3>2 DEF Effective
    <3>4. CASE next[w] = 1 /\ row[e] # "reconciled"
      <4>1. effects'[e] = effects[e] + 1
        BY <1>1, <2>4, <3>4 DEF RunHandler, TypeOK
      <4>2. effects[e] # 1
        <5> SUFFICES ASSUME effects[e] = 1 PROVE FALSE
          OBVIOUS
        <5>1. PICK v \in Worker : cur[v] = e /\ Effective(v)
          BY <2>3, <3>4
        <5>2. owner[e] = v /\ owner[e] = w
          BY <1>1, <2>3, <2>4, <3>1, <5>1 DEF BusyOK, Busy, Effective
        <5> QED
          BY <3>1, <3>4, <5>1, <5>2 DEF Effective
      <4> QED
        BY <2>3, <3>3, <4>1, <4>2
    <3>5. CASE ~(next[w] = 1 /\ row[e] # "reconciled")
      <4>1. effects'[e] = effects[e]
        BY <2>4, <3>5 DEF RunHandler
      <4> QED
        BY <2>3, <3>3, <4>1
    <3> QED BY <3>4, <3>5
  <2>5. CASE ~(RunHandler(w) /\ cur[w] = e)
    <3>1. effects'[e] = effects[e]
      <4>1. CASE RunHandler(w)
        BY <1>1, <2>5, <4>1 DEF RunHandler, TypeOK
      <4>2. CASE Reconcile(w)
        BY <4>2 DEF Reconcile, history
      <4> QED BY <1>2, <4>1, <4>2, ElseNothing
    <3>2. ASSUME NEW v \in Worker, cur[v] = e, Effective(v)
          PROVE  row'[e] = "reconciled" \/ (cur'[v] = e /\ Effective(v)')
      <4>1. CASE v # w
        BY <2>1, <3>2, <4>1 DEF Effective
      <4>2. CASE v = w
        <5>1. pc[w] \in {"handlers", "reconcile"}
          BY <3>2, <4>2 DEF Effective
        <5>2. CASE Reconcile(w)
          BY <1>1, <3>2, <4>2, <5>2 DEF Reconcile, TypeOK
        <5>3. CASE UNCHANGED <<pc, cur, next, row, effects>>
          BY <3>2, <5>3 DEF Effective
        <5> QED
          BY <1>1, <1>2, <2>5, <3>2, <4>2, <5>1, <5>2, <5>3, ItLeaves
      <4> QED BY <4>1, <4>2
    <3> QED
      BY <2>2, <2>3, <3>1, <3>2
  <2> QED BY <2>4, <2>5
<1>3. ASSUME NEW e \in Event, CreateEvent(e) \/ NotifyEvent(e) PROVE EffectOK'
  <2>1. /\ UNCHANGED <<pc, cur, next, effects, touched>>
        /\ \A d \in Event : row[d] = "reconciled" => row'[d] = "reconciled"
    BY <1>1, <1>3 DEF CreateEvent, NotifyEvent, work, history, failures, TypeOK
  <2> QED BY <1>1, <2>1 DEF EffectOK, Effective
<1>4. CASE UNCHANGED vars
  <2>1. UNCHANGED <<pc, cur, next, effects, touched, row>>
    BY <1>4 DEF vars, work, history, failures
  <2> QED BY <1>1, <2>1 DEF EffectInv, EffectOK, Effective
<1> QED
  BY <1>1, <1>2, <1>3, <1>4 DEF EffectInv, Next, Actions

LEMMA EffectsInitially == Init => EffectInv
  BY HandlersInitially DEF Init, EffectInv, EffectOK

LEMMA EffectsAlways == Spec => []EffectInv
  BY EffectsInitially, EffectsKept, PTL DEF Spec

\* However many workers are notified of an event and however they interleave, its
\* handlers take effect once, unless something failed in its processing.
THEOREM EffectOnceHolds == Spec => []EffectOnce
<1>1. EffectInv => EffectOnce
  BY DEF EffectInv, EffectOK, EffectOnce
<1> QED BY <1>1, EffectsAlways, PTL
-----------------------------------------------------------------------------
\* What a worker reads or holds has been notified, and has its row.
SentOK ==
    /\ \A e \in sent : row[e] # "absent"
    /\ \A w \in Worker : Unread(w) \subseteq sent /\ InHand(w) \subseteq sent

\* An owner that is about to unlock has dated its event, or something failed.
UnlockOK ==
    \A e \in Managed \ touched :
        owner[e] # Nobody /\ pc[owner[e]] = "unlock" => row[e] = "reconciled"

\* Somebody will see to the event.
Carries(w, e) ==
    \/ e \in Unread(w)
    \/ cur[w] = e /\ pc[w] \in {"locking", "get", "handlers", "reconcile"}

CarriedOK ==
    \A e \in (sent \cap Managed) \ (touched \cup missed) :
        row[e] = "reconciled" \/ \E w \in Worker : Carries(w, e)

PendingInv == LockInv /\ SentOK /\ UnlockOK /\ CarriedOK

\* An id leaves a channel for its worker's hands, or with its process.
LEMMA ItReads ==
    ASSUME TypeOK, HandOK, NEW w \in Worker, Actions(w)
    PROVE  /\ missed \subseteq missed'
           /\ \A v \in Worker : Unread(v)' \subseteq Unread(v)
           /\ \A v \in Worker : \A e \in Unread(v) :
                 \/ e \in Unread(v)'
                 \/ e \in missed'
                 \/ v = w /\ cur'[w] = e /\ pc'[w] = "locking"
           /\ cur'[w] = cur[w] \/ cur'[w] \in Unread(w) \cup {Nobody}
<1> USE DEF TypeOK, Goto, work, listen, history, failures, InHand
<1> DEFINE S == Event \cup {Reconnected}
<1>0. \A v \in Worker : inbox[v] \in Seq(S) /\ Unread(v) = Elements(inbox[v]) \ {Reconnected}
  BY DEF Unread, Elements
<1>a. \A v \in Worker : Unread(v)' = Elements(inbox'[v]) \ {Reconnected}
  BY DEF Unread, Elements
<1>1. CASE Receive(w)
  <2>1. /\ Elements(inbox[w]) = {Head(inbox[w])} \cup Elements(Tail(inbox[w]))
        /\ Head(inbox[w]) # Reconnected
    BY <1>0, <1>1, ElementsOfTail DEF Receive
  <2>2. /\ inbox'[w] = Tail(inbox[w]) /\ cur'[w] = Head(inbox[w]) /\ pc'[w] = "locking"
        /\ \A v \in Worker : v # w => inbox'[v] = inbox[v]
        /\ missed' = missed
    BY <1>1 DEF Receive
  <2>3. \A v \in Worker : v # w => Unread(v)' = Unread(v)
    BY <1>0, <1>a, <2>2
  <2>4. /\ Unread(w)' \subseteq Unread(w) /\ cur'[w] \in Unread(w)
        /\ \A e \in Unread(w) : e \in Unread(w)' \/ cur'[w] = e
    BY <1>0, <1>a, <2>1, <2>2
  <2> QED BY <2>2, <2>3, <2>4
<1>2. CASE ReceiveNil(w) \/ Crash(w)
  <2>1. Dies(w)
    BY <1>2 DEF ReceiveNil, Crash
  <2>2. /\ inbox'[w] = <<>> /\ cur'[w] = Nobody /\ missed' = missed \cup Unread(w)
        /\ \A v \in Worker : v # w => inbox'[v] = inbox[v]
    BY <2>1 DEF Dies
  <2>3. \A v \in Worker : v # w => Unread(v)' = Unread(v)
    BY <1>0, <1>a, <2>2
  <2>4. Unread(w)' = {}
    BY <1>a, <2>2, NoElements
  <2> QED BY <2>2, <2>3, <2>4
<1>3. CASE LinkUp(w)
  <2>1. Elements(Append(inbox[w], Reconnected)) = Elements(inbox[w]) \cup {Reconnected}
    BY <1>0, ElementsOfAppend
  <2>2. /\ inbox'[w] = Append(inbox[w], Reconnected) /\ cur' = cur /\ missed' = missed
        /\ \A v \in Worker : v # w => inbox'[v] = inbox[v]
    BY <1>3 DEF LinkUp
  <2>3. \A v \in Worker : Unread(v)' = Unread(v)
    BY <1>0, <1>a, <2>1, <2>2
  <2> QED BY <2>2, <2>3
<1>4. CASE /\ ~Receive(w) /\ ~ReceiveNil(w) /\ ~Crash(w) /\ ~LinkUp(w)
  <2>1. UNCHANGED <<inbox, missed>>
    BY <1>4 DEF Actions, Step, TryLock, GetEvent, RunHandler, Reconcile, Unlock, Restart,
                HandlerFails, StatementFails, LoseLock, LinkDown
  <2>2. cur' = cur \/ cur' = [cur EXCEPT ![w] = Nobody]
    BY <1>4 DEF Actions, Step, TryLock, GetEvent, RunHandler, Reconcile, Unlock, Restart,
                HandlerFails, StatementFails, LoseLock, LinkDown
  <2>3. \A v \in Worker : Unread(v)' = Unread(v)
    BY <1>0, <1>a, <2>1
  <2> QED BY <2>1, <2>2, <2>3
<1> QED BY <1>1, <1>2, <1>3, <1>4

LEMMA PendingKept == PendingInv /\ [Next]_vars => PendingInv'
<1> SUFFICES ASSUME PendingInv, [Next]_vars PROVE PendingInv'
  OBVIOUS
<1> USE ControllersAssumption
<1>1. /\ LockInv' /\ TypeOK /\ HandOK /\ OwnerOK
      /\ SentOK /\ UnlockOK /\ CarriedOK
  BY LockKept DEF PendingInv, LockInv
<1>2. ASSUME NEW w \in Worker, Actions(w) PROVE (SentOK /\ UnlockOK /\ CarriedOK)'
  <2>1. \A v \in Worker : v # w => pc'[v] = pc[v] /\ cur'[v] = cur[v]
    BY <1>1, <1>2, OthersStay
  <2>2. /\ touched \subseteq touched' /\ sent' = sent
        /\ \A e \in Event : row[e] = "reconciled" => row'[e] = "reconciled"
        /\ \A e \in Event : row[e] # "absent" => row'[e] # "absent"
    BY <1>1, <1>2, ItStays
  <2>3. /\ missed \subseteq missed'
        /\ \A v \in Worker : Unread(v)' \subseteq Unread(v)
        /\ \A v \in Worker : \A e \in Unread(v) :
              \/ e \in Unread(v)'
              \/ e \in missed'
              \/ v = w /\ cur'[w] = e /\ pc'[w] = "locking"
        /\ cur'[w] = cur[w] \/ cur'[w] \in Unread(w) \cup {Nobody}
    BY <1>1, <1>2, ItReads
  <2>4. SentOK'
    <3>1. \A e \in sent' : row'[e] # "absent"
      BY <1>1, <2>2 DEF SentOK, TypeOK
    <3>2. \A v \in Worker : Unread(v)' \subseteq sent' /\ InHand(v)' \subseteq sent'
      BY <1>1, <2>1, <2>2, <2>3 DEF SentOK, InHand
    <3> QED BY <3>1, <3>2 DEF SentOK
  \* What becomes of the event in w's hands.
  <2>5. ASSUME NEW e \in sent \cap Managed, e \notin touched', e = cur[w],
               pc[w] \in {"locking", "get", "handlers", "reconcile"}
        PROVE  \/ row'[e] = "reconciled"
               \/ cur'[w] = e /\ pc'[w] \in {"locking", "get", "handlers", "reconcile"}
               \/ pc[w] = "locking" /\ owner[e] # Nobody
    <3>1. e \in Event /\ row[e] # "absent"
      BY <1>1, <2>5 DEF SentOK
    <3>2. CASE Reconcile(w)
      BY <1>1, <2>5, <3>1, <3>2 DEF Reconcile, TypeOK
    <3>3. CASE RunHandler(w)
      BY <1>1, <2>5, <3>3 DEF RunHandler, TypeOK, Goto
    <3> QED BY <1>1, <1>2, <2>5, <3>1, <3>2, <3>3, ItLeaves
  <2>6. UnlockOK'
    <3> SUFFICES ASSUME NEW e \in Managed, e \notin touched', owner'[e] # Nobody,
                        pc'[owner'[e]] = "unlock"
                 PROVE  row'[e] = "reconciled"
      BY DEF UnlockOK
    <3>1. Moved(w) /\ e \in Event
      BY <1>1, <1>2, ItMoves
    <3>2. owner'[e] = owner[e]
      <4>1. CASE owner' = [owner EXCEPT ![cur[w]] = w] /\ pc'[w] = "get"
        BY <1>1, <3>1, <4>1 DEF TypeOK
      <4>2. CASE UNCHANGED owner \/ Freed(w)
        BY <3>1, <4>2 DEF Freed
      <4> QED BY <3>1, <4>1, <4>2 DEF Moved
    <3>3. /\ owner[e] \in Worker /\ cur[owner[e]] = e
          /\ pc[owner[e]] \in {"get", "handlers", "reconcile", "unlock"}
      BY <1>1, <3>1, <3>2 DEF OwnerOK, TypeOK
    <3>4. CASE pc[owner[e]] = "unlock"
      BY <1>1, <2>2, <3>1, <3>2, <3>3, <3>4 DEF UnlockOK
    <3>5. CASE pc[owner[e]] # "unlock"
      <4>1. owner[e] = w
        BY <2>1, <3>2, <3>3, <3>5
      <4>2. e \in sent
        BY <1>1, <3>1, <3>3, <4>1 DEF SentOK, InHand
      <4> QED
        BY <2>5, <3>2, <3>3, <3>5, <4>1, <4>2
    <3> QED BY <3>4, <3>5
  <2>7. CarriedOK'
    <3> SUFFICES ASSUME NEW e \in sent \cap Managed, e \notin touched', e \notin missed',
                        row'[e] # "reconciled"
                 PROVE  \E v \in Worker : Carries(v, e)'
      BY <2>2 DEF CarriedOK
    <3>1. e \in Event /\ row[e] # "reconciled" /\ e \notin touched /\ e \notin missed
      BY <2>2, <2>3
    <3>2. PICK v \in Worker : Carries(v, e)
      BY <1>1, <3>1 DEF CarriedOK
    <3>3. CASE e \in Unread(v)
      BY <2>3, <3>3 DEF Carries
    <3>4. CASE v # w /\ e \notin Unread(v)
      <4>1. Carries(v, e)'
        BY <2>1, <3>2, <3>4 DEF Carries
      <4> QED BY <4>1
    <3>5. CASE v = w /\ e \notin Unread(v)
      <4>1. cur[w] = e /\ pc[w] \in {"locking", "get", "handlers", "reconcile"}
        BY <3>2, <3>5 DEF Carries
      <4>2. CASE cur'[w] = e /\ pc'[w] \in {"locking", "get", "handlers", "reconcile"}
        BY <4>2 DEF Carries
      <4>3. CASE pc[w] = "locking" /\ owner[e] # Nobody
        <5>1. PICK u \in Worker : u = owner[e]
          BY <1>1, <3>1, <4>3 DEF TypeOK
        <5>2. cur[u] = e /\ u # w /\ pc[u] \in {"get", "handlers", "reconcile"}
          BY <1>1, <3>1, <4>3, <5>1 DEF OwnerOK, UnlockOK
        <5>3. Carries(u, e)'
          BY <2>1, <5>1, <5>2 DEF Carries
        <5> QED BY <5>3
      <4> QED BY <2>5, <4>1, <4>2, <4>3
    <3> QED BY <3>3, <3>4, <3>5
  <2> QED BY <2>4, <2>6, <2>7
<1>3. ASSUME NEW e \in Event, CreateEvent(e) PROVE (SentOK /\ UnlockOK /\ CarriedOK)'
  <2>1. /\ UNCHANGED <<sent, inbox, pc, cur, owner, touched, missed>>
        /\ \A d \in Event : row[d] = "reconciled" => row'[d] = "reconciled"
        /\ \A d \in Event : row[d] # "absent" => row'[d] # "absent"
    BY <1>1, <1>3 DEF CreateEvent, work, listen, failures, TypeOK
  <2>2. \A v \in Worker : Unread(v)' = Unread(v) /\ InHand(v)' = InHand(v)
    BY <2>1 DEF Unread, InHand
  <2>3. SentOK'
    BY <1>1, <2>1, <2>2 DEF SentOK, TypeOK
  <2>4. UnlockOK' /\ CarriedOK'
    BY <1>1, <2>1, <2>2 DEF UnlockOK, CarriedOK, Carries, TypeOK
  <2> QED BY <2>3, <2>4
<1>4. ASSUME NEW e \in Event, NotifyEvent(e) PROVE (SentOK /\ UnlockOK /\ CarriedOK)'
  <2>1. /\ UNCHANGED <<row, pc, cur, owner, touched>> /\ sent' = sent \cup {e}
        /\ missed \subseteq missed' /\ row[e] # "absent"
        /\ \A v \in Worker : inbox'[v] = IF link[v] = "up" THEN Append(inbox[v], e) ELSE inbox[v]
    BY <1>4 DEF NotifyEvent, work
  <2>2. \A v \in Worker : link[v] = "up" => Unread(v)' = Unread(v) \cup {e}
    <3> TAKE v \in Worker
    <3> HAVE link[v] = "up"
    <3>1. Unread(v) = Elements(inbox[v]) \ {Reconnected}
      BY DEF Unread, Elements
    <3>2. Unread(v)' = Elements(inbox'[v]) \ {Reconnected}
      BY DEF Unread, Elements
    <3>3. Elements(Append(inbox[v], e)) = Elements(inbox[v]) \cup {e}
      BY <1>1, InboxTyped, ElementsOfAppend
    <3> QED BY <2>1, <3>1, <3>2, <3>3
  <2>3. \A v \in Worker : link[v] # "up" => Unread(v)' = Unread(v)
    BY <2>1 DEF Unread
  <2>4. SentOK'
    BY <1>1, <2>1, <2>2, <2>3 DEF SentOK, InHand
  <2>5. UnlockOK'
    BY <1>1, <2>1 DEF UnlockOK
  <2>6. \A v \in Worker, d \in Event : Carries(v, d) => Carries(v, d)'
    BY <2>1, <2>2, <2>3 DEF Carries
  <2>7. CarriedOK'
    <3> SUFFICES ASSUME NEW d \in sent' \cap Managed, d \notin touched', d \notin missed',
                        row'[d] # "reconciled"
                 PROVE  \E v \in Worker : Carries(v, d)'
      BY DEF CarriedOK
    <3>1. CASE d = e
      <4>1. PICK v \in Worker : link[v] # "down"
        BY <1>4, <3>1 DEF NotifyEvent
      <4>2. link[v] = "up"
        BY <1>1, <4>1 DEF TypeOK
      <4> QED BY <2>2, <3>1, <4>2 DEF Carries
    <3>2. CASE d # e
      <4>1. d \in (sent \cap Managed) \ (touched \cup missed) /\ row[d] # "reconciled"
        BY <2>1, <3>2
      <4> QED BY <1>1, <2>6, <4>1 DEF CarriedOK
    <3> QED BY <3>1, <3>2
  <2> QED BY <2>4, <2>5, <2>7
<1>5. CASE UNCHANGED vars
  <2>1. UNCHANGED <<row, sent, inbox, pc, cur, owner, touched, missed>>
    BY <1>5 DEF vars, work, listen, failures
  <2> QED
    BY <1>1, <2>1 DEF PendingInv, SentOK, UnlockOK, CarriedOK, Carries, Unread, InHand
<1> QED
  BY <1>1, <1>2, <1>3, <1>4, <1>5 DEF PendingInv, Next, Actions

LEMMA PendingInitially == Init => PendingInv
<1> SUFFICES ASSUME Init PROVE PendingInv
  OBVIOUS
<1>1. \A w \in Worker : Unread(w) = {} /\ InHand(w) = {}
  <2> TAKE w \in Worker
  <2>1. inbox[w] = <<>> /\ cur[w] = Nobody
    BY DEF Init
  <2> QED BY <2>1, NoElements DEF Unread, InHand, Elements
<1>2. SentOK /\ CarriedOK
  BY <1>1 DEF Init, SentOK, CarriedOK
<1>3. UnlockOK
  BY ControllersAssumption DEF Init, UnlockOK
<1> QED BY <1>2, <1>3, LockInitially DEF PendingInv

LEMMA PendingAlways == Spec => []PendingInv
  BY PendingInitially, PendingKept, PTL DEF Spec

\* No worker's refusal drops an event for good: as long as nothing failed, whoever
\* refused it leaves it with one that dates it, for all events, channels, workers.
THEOREM PendingIsExplainedHolds == Spec => []PendingIsExplained
<1>1. PendingInv => PendingIsExplained
  BY ControllersAssumption
     DEF PendingInv, CarriedOK, Carries, PendingIsExplained, InHand
<1> QED BY <1>1, PendingAlways, PTL
=============================================================================
