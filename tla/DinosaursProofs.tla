--------------------------- MODULE DinosaursProofs ---------------------------
(***************************************************************************)
(* Theorems about Dinosaurs, for all requests, dinosaurs and failures, and *)
(* then about Announcements, which extends it, for all workers as well.    *)
(*                                                                         *)
(* The invariant says of each request how far its change has got (Stage),  *)
(* of each lock whose it is (HolderOK, HeldOK), of each row what those who *)
(* are about to write it know of it (RowsOK), and of the change of a lock's *)
(* holder that it is the last one (LastOK).                                *)
(*                                                                         *)
(* A worker's step leaves the requests as they are and a request's step is *)
(* one of Dinosaurs: what is proved of Dinosaurs holds of Announcements.   *)
(* What a worker has in hand was notified (HeardOK), so it follows its     *)
(* change, which is in the row or under a newer one (NewestOK).            *)
(***************************************************************************)
EXTENDS Announcements, SequenceTheorems, TLAPS

Actions(r) ==
    Start(r) \/ StartFails(r) \/ Step(r) \/ LockFails(r) \/ Disconnect(r) \/ LoseLock(r)

Inside == {"locked", "read", "wrote", "evented", "unlocking"}

\* How far the change of r has got.
Stage(r) ==
    /\ pc[r] \in {"new", "started", "locked", "read"} => ~Changed(r)
    /\ pc[r] \in {"new", "started", "locked", "read", "wrote"} => r \notin events
    /\ pc[r] \in {"new", "started", "locked", "read", "wrote", "evented"} =>
          ~Notified(r) /\ reply[r] = "none"
    /\ pc[r] \in {"wrote", "evented"} => Changed(r) \/ Op[r] = "delete"
    /\ pc[r] = "evented" => r \in events
    /\ pc[r] \in {"locked", "unlocking"} => Locks(r)
    /\ pc[r] = "read" => Op[r] = "patch"
    /\ r \in events => Changed(r) \/ Op[r] = "delete"
    /\ Notified(r) => r \in events
    /\ reply[r] = "ok" =>
          \/ Op[r] = "patch" /\ ~Changed(r) /\ r \notin events
          \/ r \in events /\ Notified(r)

StageOK == \A r \in Request : Stage(r)

\* A lock's holder is in its critical section, or has unlocked after its client
\* left ...
HolderOK ==
    \A d \in Dino : holder[d] # Nobody =>
        /\ Target[holder[d]] = d /\ Locks(holder[d])
        /\ pc[holder[d]] \in Inside \/ (Unlocked(holder[d]) /\ holder[d] \in gone)

\* ... and who is there has the lock, unless its session was lost.
HeldOK ==
    \A r \in Request :
        Locks(r) /\ pc[r] \in Inside => holder[Target[r]] = r \/ r \in lockless

\* What a request that is about to write a row knows of it.
RowsOK ==
    \A r \in Request :
        /\ pc[r] \in {"new", "started"} /\ Op[r] = "create" => species[Target[r]] = "none"
        /\ pc[r] = "read" => species[Target[r]] # "none"
        /\ pc[r] = "read" /\ Guarded(Target[r]) => species[Target[r]] # Wanted[r]

\* While an update is in its critical section, its change is the row's last.
LastOK ==
    \A r, s \in Request :
        /\ Op[r] = "patch" /\ Op[s] = "patch" /\ r # s
        /\ Target[r] = Target[s] /\ Guarded(Target[r])
        /\ pc[s] \in {"wrote", "evented"} /\ Changed(r)
        => Before(changes, r, s)

IInv == TypeOK /\ StageOK /\ HolderOK /\ HeldOK /\ RowsOK /\ LastOK /\ NoticesInOrder
-----------------------------------------------------------------------------
LEMMA ImageOfAppend ==
    ASSUME NEW S, NEW q \in Seq(S), NEW x \in S
    PROVE  Image(Append(q, x)) = Image(q) \cup {x}
<1> DEFINE p == Append(q, x)
<1>1. /\ Len(p) = Len(q) + 1 /\ Len(q) \in Nat
      /\ \A i \in 1..Len(q) : p[i] = q[i]
      /\ p[Len(q) + 1] = x
  OBVIOUS
<1> HIDE DEF p
<1>2. Image(p) = Image(q) \cup {x}
  BY <1>1 DEF Image
<1> QED BY <1>2 DEF p

LEMMA BeforeInAppend ==
    ASSUME NEW S, NEW q \in Seq(S), NEW x \in S, NEW a, NEW b
    PROVE  Before(Append(q, x), a, b) <=> Before(q, a, b) \/ (b = x /\ a \in Image(q))
<1> DEFINE p == Append(q, x)
<1>1. /\ Len(p) = Len(q) + 1 /\ Len(q) \in Nat
      /\ \A i \in 1..Len(q) : p[i] = q[i]
      /\ p[Len(q) + 1] = x
  OBVIOUS
<1> HIDE DEF p
<1>2. ASSUME NEW i \in 1..Len(p), NEW j \in 1..Len(p), i < j, p[i] = a, p[j] = b
      PROVE  Before(q, a, b) \/ (b = x /\ a \in Image(q))
  BY <1>1, <1>2 DEF Before, Image
<1>3. ASSUME NEW i \in 1..Len(q), NEW j \in 1..Len(q), i < j, q[i] = a, q[j] = b
      PROVE  Before(p, a, b)
  BY <1>1, <1>3 DEF Before
<1>4. ASSUME NEW i \in 1..Len(q), q[i] = a, b = x
      PROVE  Before(p, a, b)
  BY <1>1, <1>4 DEF Before
<1>5. Before(p, a, b) <=> Before(q, a, b) \/ (b = x /\ a \in Image(q))
  BY <1>2, <1>3, <1>4 DEF Before, Image
<1> QED BY <1>5 DEF p
-----------------------------------------------------------------------------
\* What one request's step leaves of the others', and what it adds.
LEMMA ItTouches ==
    ASSUME TypeOK, NEW r \in Request, Actions(r)
    PROVE  /\ \A s \in Request \ {r} : pc'[s] = pc[s] /\ reply'[s] = reply[s]
           /\ events' = events \/ events' = events \cup {r}
           /\ changes' = changes \/ changes' = Append(changes, r)
           /\ notices' = notices \/ notices' = Append(notices, r)
           /\ lockless' = lockless \/ lockless' = lockless \cup {r}
<1>1. \A s \in Request \ {r} : pc'[s] = pc[s] /\ reply'[s] = reply[s]
  BY DEF TypeOK, Actions, Step, Start, StartFails, LockFails, Disconnect, LoseLock,
     Lock, ReadRow, SaveRow, InsertRow, DeleteRow, InsertEvent, Notify, StatementFails,
     Unlock, Resolve, Goto, Answer, Proceed, Abort
<1>2. /\ events' = events \/ events' = events \cup {r}
      /\ notices' = notices \/ notices' = Append(notices, r)
  BY DEF Actions, Step, Start, StartFails, LockFails, Disconnect, LoseLock,
     Lock, ReadRow, SaveRow, InsertRow, DeleteRow, InsertEvent, Notify, StatementFails,
     Unlock, Resolve, outbox
<1>3. changes' = changes \/ changes' = Append(changes, r)
  BY DEF Actions, Step, Start, StartFails, LockFails, Disconnect, LoseLock,
     Lock, ReadRow, SaveRow, InsertRow, DeleteRow, InsertEvent, Notify, StatementFails,
     Unlock, Resolve, rows
<1>4. lockless' = lockless \/ lockless' = lockless \cup {r}
  BY DEF Actions, Step, Start, StartFails, LockFails, Disconnect, LoseLock,
     Lock, ReadRow, SaveRow, InsertRow, DeleteRow, InsertEvent, Notify, StatementFails,
     Unlock, Resolve, locks
<1> QED BY <1>1, <1>2, <1>3, <1>4

LEMMA TypeInitially == Init => TypeOK
  BY DinosaurAssumption DEF Init, TypeOK, PCs, Replies

LEMMA TypeKept == TypeOK /\ [Next]_vars => TypeOK'
<1> SUFFICES ASSUME TypeOK, [Next]_vars PROVE TypeOK'
  OBVIOUS
<1> USE DinosaurAssumption
<1>1. ASSUME NEW r \in Request, Actions(r) PROVE TypeOK'
  <2>1. pc' \in [Request -> PCs] /\ reply' \in [Request -> Replies]
    <3>1. pc \in [Request -> PCs] /\ reply \in [Request -> Replies]
      BY DEF TypeOK
    <3> HIDE DinosaurAssumption
    <3>2. pc' = pc \/ \E to \in PCs : pc' = [pc EXCEPT ![r] = to]
      <4> USE DEF Goto, Answer, Proceed, Abort, PCs
      <4>1. CASE Start(r) \/ StartFails(r) \/ LockFails(r) \/ Lock(r) \/ Unlock(r) \/ Resolve(r)
        BY <4>1 DEF Start, StartFails, LockFails, Lock, Unlock, Resolve
      <4>2. CASE ReadRow(r) \/ SaveRow(r) \/ InsertRow(r) \/ DeleteRow(r)
        BY <4>2 DEF ReadRow, SaveRow, InsertRow, DeleteRow
      <4>3. CASE InsertEvent(r) \/ Notify(r) \/ StatementFails(r) \/ Disconnect(r) \/ LoseLock(r)
        BY <4>3 DEF InsertEvent, Notify, StatementFails, Disconnect, LoseLock
      <4> QED BY <1>1, <4>1, <4>2, <4>3 DEF Actions, Step
    <3>3. reply' = reply \/ \E what \in Replies : reply' = [reply EXCEPT ![r] = what]
      BY <1>1 DEF Actions, Step, Start, StartFails, LockFails, Disconnect, LoseLock,
         Lock, ReadRow, SaveRow, InsertRow, DeleteRow, InsertEvent, Notify, StatementFails,
         Unlock, Resolve, Answer, Proceed, Abort, Replies
    <3> QED BY <3>1, <3>2, <3>3
  <2>2. species' \in [Dino -> Species \cup {"none"}] /\ deleted' \subseteq Dino
    BY <1>1 DEF TypeOK, Actions, Step, Start, StartFails, LockFails, Disconnect, LoseLock,
       Lock, ReadRow, SaveRow, InsertRow, DeleteRow, InsertEvent, Notify, StatementFails,
       Unlock, Resolve, rows
  <2>3. holder' \in [Dino -> Request \cup {Nobody}] /\ lockless' \subseteq Request
    BY <1>1 DEF TypeOK, Actions, Step, Start, StartFails, LockFails, Disconnect, LoseLock,
       Lock, ReadRow, SaveRow, InsertRow, DeleteRow, InsertEvent, Notify, StatementFails,
       Unlock, Resolve, locks
  <2>4. gone' \subseteq Request /\ marked' \subseteq Request /\ events' \subseteq Request
    BY <1>1 DEF TypeOK, Actions, Step, Start, StartFails, LockFails, Disconnect, LoseLock,
       Lock, ReadRow, SaveRow, InsertRow, DeleteRow, InsertEvent, Notify, StatementFails,
       Unlock, Resolve, Proceed, Abort, outbox
  <2>5. changes' \in Seq(Request) /\ notices' \in Seq(Request)
    <3>1. changes' = changes \/ changes' = Append(changes, r)
      BY <1>1, ItTouches
    <3>2. notices' = notices \/ notices' = Append(notices, r)
      BY <1>1, ItTouches
    <3>3. changes \in Seq(Request) /\ notices \in Seq(Request)
      BY DEF TypeOK
    <3>4. Append(changes, r) \in Seq(Request) /\ Append(notices, r) \in Seq(Request)
      BY <1>1, <3>3
    <3> QED BY <3>1, <3>2, <3>3, <3>4
  <2>6. faults' \in 0..MaxFaults
    BY <1>1 DEF TypeOK, Actions, Step, Start, StartFails, LockFails, Disconnect, LoseLock,
       Lock, ReadRow, SaveRow, InsertRow, DeleteRow, InsertEvent, Notify, StatementFails,
       Unlock, Resolve, Fails, Proceed, Abort
  <2> QED BY <2>1, <2>2, <2>3, <2>4, <2>5, <2>6 DEF TypeOK
<1>2. CASE UNCHANGED vars
  BY <1>2 DEF TypeOK, vars, rows, locks, outbox
<1> QED BY <1>1, <1>2 DEF Next, Actions

\* What is recorded of the other requests does not change.
LEMMA OthersStay ==
    ASSUME TypeOK, NEW r \in Request, Actions(r), NEW s \in Request, s # r
    PROVE  /\ s \in events' <=> s \in events
           /\ Changed(s)' <=> Changed(s)
           /\ Notified(s)' <=> Notified(s)
           /\ s \in lockless' <=> s \in lockless
<1>1. /\ events' = events \/ events' = events \cup {r}
      /\ changes' = changes \/ changes' = Append(changes, r)
      /\ notices' = notices \/ notices' = Append(notices, r)
      /\ lockless' = lockless \/ lockless' = lockless \cup {r}
  BY ItTouches
<1>2. /\ Image(Append(changes, r)) = Image(changes) \cup {r}
      /\ Image(Append(notices, r)) = Image(notices) \cup {r}
  <2>1. changes \in Seq(Request) /\ notices \in Seq(Request)
    BY DEF TypeOK
  <2> QED BY <2>1, ImageOfAppend
<1>3. s \in Image(changes') <=> s \in Image(changes)
  BY <1>1, <1>2
<1>4. s \in Image(notices') <=> s \in Image(notices)
  BY <1>1, <1>2
<1> QED BY <1>1, <1>3, <1>4 DEF Changed, Notified

\* Each statement takes a request one stage further, or ends its action.
LEMMA StageKept ==
    ASSUME TypeOK, StageOK, NEW r \in Request, Actions(r)
    PROVE  StageOK'
<1>1. ASSUME NEW s \in Request, s # r PROVE Stage(s)'
  <2>1. pc'[s] = pc[s] /\ reply'[s] = reply[s]
    BY <1>1, ItTouches
  <2>2. /\ s \in events' <=> s \in events
        /\ Changed(s)' <=> Changed(s)
        /\ Notified(s)' <=> Notified(s)
    BY <1>1, OthersStay
  <2>3. Stage(s)
    BY DEF StageOK
  <2> QED BY <2>1, <2>2, <2>3 DEF Stage, Locks
<1>2. Stage(r)'
  <2> USE DEF TypeOK, Goto, Answer, Changed, Notified
  <2>1. Stage(r)
    BY DEF StageOK
  <2>2. changes' = Append(changes, r) => Image(changes') = Image(changes) \cup {r}
    BY ImageOfAppend
  <2>3. notices' = Append(notices, r) => Image(notices') = Image(notices) \cup {r}
    BY ImageOfAppend
  <2>4. CASE Start(r)
    BY <2>1, <2>4 DEF Start, Stage, rows, outbox, Locks
  <2>5. CASE StartFails(r)
    BY <2>1, <2>5 DEF StartFails, Stage, rows, outbox, Locks
  <2>6. CASE Lock(r) \/ LockFails(r)
    BY <2>1, <2>6 DEF Lock, LockFails, Stage, rows, outbox, Locks
  <2>7. CASE ReadRow(r)
    BY <2>1, <2>7 DEF ReadRow, Stage, rows, outbox, Locks
  <2>8. CASE SaveRow(r)
    BY <2>1, <2>2, <2>8 DEF SaveRow, Stage, outbox, Locks, Proceed, Abort
  <2>9. CASE InsertRow(r)
    BY <2>1, <2>2, <2>9 DEF InsertRow, Stage, outbox, Locks, Proceed, Abort
  <2>10. CASE DeleteRow(r)
    BY <2>1, <2>2, <2>10 DEF DeleteRow, Stage, outbox, Locks, Proceed, Abort
  <2>11. CASE InsertEvent(r)
    BY <2>1, <2>11 DEF InsertEvent, Stage, rows, Locks, Proceed, Abort
  <2>12. CASE Notify(r)
    BY <2>1, <2>3, <2>12 DEF Notify, Stage, rows, Locks
  <2>13. CASE StatementFails(r)
    BY <2>1, <2>13 DEF StatementFails, Stage, rows, outbox, Locks
  <2>14. CASE Unlock(r) \/ Resolve(r)
    BY <2>1, <2>14 DEF Unlock, Resolve, Stage, rows, outbox, Locks
  <2>15. CASE Disconnect(r) \/ LoseLock(r)
    BY <2>1, <2>15 DEF Disconnect, LoseLock, Stage, rows, outbox, Locks
  <2> QED
    BY <2>4, <2>5, <2>6, <2>7, <2>8, <2>9, <2>10, <2>11, <2>12, <2>13, <2>14, <2>15
       DEF Actions, Step
<1> QED BY <1>1, <1>2 DEF StageOK
-----------------------------------------------------------------------------
\* What each step does to the locks.
LEMMA ItLocks ==
    ASSUME TypeOK, NEW r \in Request, Actions(r)
    PROVE  \/ /\ Locks(r) /\ holder[Target[r]] = Nobody
              /\ holder' = [holder EXCEPT ![Target[r]] = r]
              /\ pc[r] = "started" /\ pc'[r] = "locked" /\ lockless' = lockless
           \/ /\ holder' = holder /\ lockless' = lockless
              /\ Locks(r) /\ pc'[r] \in Inside => pc[r] \in Inside
              /\ Locks(r) /\ pc[r] \in Inside =>
                    pc'[r] \in Inside \/ (Unlocked(r)' /\ r \in gone)
              /\ Unlocked(r) => Unlocked(r)'
           \/ /\ holder' = [d \in Dino |-> IF holder[d] = r THEN Nobody ELSE holder[d]]
              /\ pc'[r] = "replied" /\ lockless' = lockless
           \/ /\ holder[Target[r]] = r /\ pc'[r] = pc[r]
              /\ holder' = [holder EXCEPT ![Target[r]] = Nobody]
              /\ lockless' = IF Unlocked(r) THEN lockless ELSE lockless \cup {r}
           \/ holder' = holder /\ lockless' = lockless /\ pc' = pc
<1> USE DEF TypeOK, Goto, Inside, Unlocked
<1>1. CASE Start(r) \/ StartFails(r) \/ LockFails(r)
  BY <1>1 DEF Start, StartFails, LockFails, locks
<1>2. CASE Lock(r)
  BY <1>2 DEF Lock
<1>3. CASE ReadRow(r) \/ SaveRow(r) \/ InsertRow(r) \/ DeleteRow(r)
  BY <1>3 DEF ReadRow, SaveRow, InsertRow, DeleteRow, Answer, Proceed, Abort, Locks, locks
<1>4. CASE InsertEvent(r) \/ Notify(r) \/ StatementFails(r)
  BY <1>4 DEF InsertEvent, Notify, StatementFails, Answer, Proceed, Abort, locks
<1>5. CASE Unlock(r)
  <2>1. CASE r \in gone
    BY <1>5, <2>1 DEF Unlock
  <2>2. CASE r \notin gone
    BY <1>5, <2>2 DEF Unlock
  <2> QED BY <2>1, <2>2
<1>6. CASE Resolve(r) \/ Disconnect(r)
  BY <1>6 DEF Resolve, Disconnect, locks
<1>7. CASE LoseLock(r)
  <2>1. /\ holder[Target[r]] = r /\ pc' = pc
        /\ holder' = [holder EXCEPT ![Target[r]] = Nobody]
        /\ lockless' = IF Unlocked(r) THEN lockless ELSE lockless \cup {r}
    BY <1>7 DEF LoseLock
  <2> QED BY <2>1
<1> QED BY <1>1, <1>2, <1>3, <1>4, <1>5, <1>6, <1>7 DEF Actions, Step

\* A lock passes from one request to the next only by its end or its loss.
LEMMA LocksKept ==
    ASSUME TypeOK, HolderOK, HeldOK, NEW r \in Request, Actions(r)
    PROVE  HolderOK' /\ HeldOK'
<1> USE DinosaurAssumption
<1>1. \A s \in Request \ {r} : pc'[s] = pc[s] /\ (s \in lockless' <=> s \in lockless)
  BY ItTouches, OthersStay
<1>2. gone \subseteq gone'
  BY DEF Actions, Step, Start, StartFails, LockFails, Disconnect, LoseLock,
     Lock, ReadRow, SaveRow, InsertRow, DeleteRow, InsertEvent, Notify, StatementFails,
     Unlock, Resolve
<1>3. CASE /\ Locks(r) /\ holder[Target[r]] = Nobody
           /\ holder' = [holder EXCEPT ![Target[r]] = r]
           /\ pc[r] = "started" /\ pc'[r] = "locked" /\ lockless' = lockless
  BY <1>1, <1>2, <1>3 DEF TypeOK, HolderOK, HeldOK, Inside, Locks, Unlocked
<1>4. CASE /\ holder' = holder /\ lockless' = lockless
           /\ Locks(r) /\ pc'[r] \in Inside => pc[r] \in Inside
           /\ Locks(r) /\ pc[r] \in Inside =>
                 pc'[r] \in Inside \/ (Unlocked(r)' /\ r \in gone)
           /\ Unlocked(r) => Unlocked(r)'
  <2>1. ASSUME NEW d \in Dino, holder[d] # Nobody
        PROVE  pc'[holder[d]] \in Inside \/ (Unlocked(holder[d])' /\ holder[d] \in gone')
    <3>1. /\ holder[d] \in Request /\ Locks(holder[d])
          /\ pc[holder[d]] \in Inside \/ (Unlocked(holder[d]) /\ holder[d] \in gone)
      BY <2>1 DEF TypeOK, HolderOK
    <3>2. CASE holder[d] = r
      BY <1>2, <1>4, <3>1, <3>2
    <3>3. CASE holder[d] # r
      <4>1. pc'[holder[d]] = pc[holder[d]] /\ (Unlocked(holder[d]) => Unlocked(holder[d])')
        BY <1>1, <1>4, <3>1, <3>3 DEF Unlocked
      <4> QED BY <1>2, <3>1, <4>1
    <3> QED BY <3>2, <3>3
  <2>2. HolderOK'
    BY <1>4, <2>1 DEF HolderOK, Locks
  <2>3. HeldOK'
    BY <1>1, <1>4 DEF HeldOK, Locks
  <2> QED BY <2>2, <2>3
<1>5. CASE /\ holder' = [d \in Dino |-> IF holder[d] = r THEN Nobody ELSE holder[d]]
           /\ pc'[r] = "replied" /\ lockless' = lockless
  BY <1>1, <1>2, <1>5 DEF TypeOK, HolderOK, HeldOK, Inside, Locks, Unlocked
<1>6. CASE /\ holder[Target[r]] = r /\ pc'[r] = pc[r]
           /\ holder' = [holder EXCEPT ![Target[r]] = Nobody]
           /\ lockless' = IF Unlocked(r) THEN lockless ELSE lockless \cup {r}
  <2>1. ASSUME NEW d \in Dino, holder'[d] # Nobody
        PROVE  /\ holder'[d] = holder[d] /\ holder[d] \in Request \ {r}
    BY <1>6, <2>1 DEF TypeOK, HolderOK
  <2>2. HolderOK'
    <3> SUFFICES ASSUME NEW d \in Dino, holder'[d] # Nobody
                 PROVE  /\ Target[holder[d]] = d /\ Locks(holder[d])
                        /\ \/ pc'[holder[d]] \in Inside
                           \/ Unlocked(holder[d])' /\ holder[d] \in gone'
      BY <2>1 DEF HolderOK, Locks, Unlocked
    <3>1. holder[d] \in Request \ {r} /\ holder[d] # Nobody
      BY <2>1
    <3>2. pc'[holder[d]] = pc[holder[d]]
      BY <1>1, <3>1
    <3>3. Unlocked(holder[d])' <=> Unlocked(holder[d])
      BY <1>6, <3>2 DEF Unlocked
    <3> QED BY <1>2, <3>1, <3>2, <3>3 DEF HolderOK
  <2>3. ASSUME NEW s \in Request, Locks(s), pc'[s] \in Inside
        PROVE  holder'[Target[s]] = s \/ s \in lockless'
    <3>1. CASE s = r
      BY <1>6, <2>3, <3>1 DEF Inside, Unlocked
    <3>2. CASE s # r
      <4>1. pc[s] \in Inside /\ (s \in lockless' <=> s \in lockless)
        BY <1>1, <2>3, <3>2
      <4>2. holder[Target[s]] = s \/ s \in lockless
        BY <2>3, <4>1 DEF HeldOK
      <4>3. holder[Target[s]] = s => Target[s] # Target[r]
        BY <1>6, <3>2
      <4> QED BY <1>6, <4>1, <4>2, <4>3 DEF TypeOK
    <3> QED BY <3>1, <3>2
  <2> QED BY <2>2, <2>3 DEF HeldOK, Locks
<1>7. CASE holder' = holder /\ lockless' = lockless /\ pc' = pc
  BY <1>2, <1>7 DEF TypeOK, HolderOK, HeldOK, Locks, Unlocked
<1> QED BY <1>3, <1>4, <1>5, <1>6, <1>7, ItLocks

\* Two updates of one dinosaur are not in their critical sections at once.
LEMMA OneInside ==
    ASSUME HeldOK, NEW r \in Request, NEW s \in Request, r # s, Target[r] = Target[s],
           Op[r] = "patch", Op[s] = "patch", Guarded(Target[r]),
           pc[r] \in Inside, pc[s] \in Inside
    PROVE  FALSE
  BY DEF HeldOK, Guarded, Locks
-----------------------------------------------------------------------------
\* What each step does to the rows.
LEMMA ItWrites ==
    ASSUME TypeOK, NEW r \in Request, Actions(r)
    PROVE  \/ /\ pc[r] = "read" \/ (pc[r] = "started" /\ Op[r] = "create")
              /\ species' = [species EXCEPT ![Target[r]] = Wanted[r]]
              /\ pc'[r] \in {"wrote", "unlocking", "replied"}
           \/ /\ species' = species
              /\ pc[r] = "read" \/ pc'[r] # "read"
              /\ pc[r] = "new" \/ pc'[r] # "started" \/ pc' = pc
              /\ pc'[r] # "new" \/ pc' = pc
           \/ /\ species' = species /\ Op[r] = "patch" /\ pc'[r] = "read"
              /\ species[Target[r]] # "none" /\ species[Target[r]] # Wanted[r]
<1> USE DEF TypeOK, Goto, Answer, rows
<1>1. CASE SaveRow(r) \/ InsertRow(r)
  BY <1>1 DEF SaveRow, InsertRow, Proceed, Abort
<1>2. CASE ReadRow(r)
  BY <1>2 DEF ReadRow, Live
<1>3. CASE Start(r) \/ StartFails(r) \/ Lock(r) \/ LockFails(r)
  BY <1>3 DEF Start, StartFails, Lock, LockFails
<1>4. CASE DeleteRow(r) \/ InsertEvent(r) \/ Notify(r)
  BY <1>4 DEF DeleteRow, InsertEvent, Notify, Proceed, Abort
<1>5. CASE StatementFails(r) \/ Unlock(r) \/ Resolve(r)
  BY <1>5 DEF StatementFails, Unlock, Resolve
<1>6. CASE Disconnect(r) \/ LoseLock(r)
  BY <1>6 DEF Disconnect, LoseLock
<1> QED BY <1>1, <1>2, <1>3, <1>4, <1>5, <1>6 DEF Actions, Step

\* A guarded row is not written between an update's read and its own write.
LEMMA RowsKept ==
    ASSUME TypeOK, StageOK, HeldOK, RowsOK, NEW r \in Request, Actions(r)
    PROVE  RowsOK'
<1> USE DinosaurAssumption
<1>1. \A s \in Request \ {r} : pc'[s] = pc[s]
  BY ItTouches
<1>2. \A d \in Dino : Guarded(d)' => Guarded(d)
  BY ItTouches DEF Guarded
<1>3. CASE /\ pc[r] = "read" \/ (pc[r] = "started" /\ Op[r] = "create")
           /\ species' = [species EXCEPT ![Target[r]] = Wanted[r]]
           /\ pc'[r] \in {"wrote", "unlocking", "replied"}
  <2>1. ASSUME NEW s \in Request, pc'[s] \in {"new", "started"}, Op[s] = "create"
        PROVE  species'[Target[s]] = "none"
    <3>1. s # r /\ pc[s] \in {"new", "started"}
      BY <1>1, <1>3, <2>1
    <3>2. species[Target[s]] = "none" /\ Target[s] # Target[r]
      BY <1>3, <2>1, <3>1 DEF RowsOK
    <3> QED BY <1>3, <3>2 DEF TypeOK
  <2>2. ASSUME NEW s \in Request, pc'[s] = "read"
        PROVE  /\ species'[Target[s]] # "none"
               /\ Guarded(Target[s])' => species'[Target[s]] # Wanted[s]
    <3>1. s # r /\ pc[s] = "read"
      BY <1>1, <1>3, <2>2
    <3>2. CASE Target[s] # Target[r]
      BY <1>2, <1>3, <3>1, <3>2 DEF RowsOK, TypeOK
    <3>3. CASE Target[s] = Target[r]
      <4>1. pc[r] = "read"
        BY <1>3, <3>1, <3>3 DEF RowsOK
      <4>2. ~Guarded(Target[s])
        BY <3>1, <3>3, <4>1, OneInside DEF StageOK, Stage, Inside
      <4>3. species'[Target[s]] = Wanted[r] /\ Wanted[r] # "none"
        BY <1>3, <3>3 DEF TypeOK
      <4> QED BY <1>2, <4>2, <4>3
    <3> QED BY <3>2, <3>3
  <2> QED BY <2>1, <2>2 DEF RowsOK
<1>4. CASE /\ species' = species
           /\ pc[r] = "read" \/ pc'[r] # "read"
           /\ pc[r] = "new" \/ pc'[r] # "started" \/ pc' = pc
           /\ pc'[r] # "new" \/ pc' = pc
  BY <1>1, <1>2, <1>4 DEF RowsOK
<1>5. CASE /\ species' = species /\ Op[r] = "patch" /\ pc'[r] = "read"
           /\ species[Target[r]] # "none" /\ species[Target[r]] # Wanted[r]
  BY <1>1, <1>2, <1>5 DEF RowsOK
<1> QED BY <1>3, <1>4, <1>5, ItWrites
-----------------------------------------------------------------------------
\* What a step adds to the history of changes and of notifications.
LEMMA ItChanges ==
    ASSUME TypeOK, NEW r \in Request, Actions(r), Op[r] = "patch"
    PROVE  \/ /\ changes' = Append(changes, r) /\ pc[r] = "read"
              /\ species' = [species EXCEPT ![Target[r]] = Wanted[r]]
           \/ /\ changes' = changes
              /\ pc'[r] \in {"wrote", "evented"} => pc[r] \in {"wrote", "evented"}
<1> USE DEF TypeOK, Goto, Answer, rows
<1>1. CASE SaveRow(r)
  BY <1>1 DEF SaveRow
<1>2. CASE ReadRow(r) \/ InsertRow(r) \/ DeleteRow(r)
  BY <1>2 DEF ReadRow, InsertRow, DeleteRow
<1>3. CASE Start(r) \/ StartFails(r) \/ Lock(r) \/ LockFails(r)
  BY <1>3 DEF Start, StartFails, Lock, LockFails
<1>4. CASE InsertEvent(r) \/ Notify(r)
  BY <1>4 DEF InsertEvent, Notify, Proceed, Abort
<1>5. CASE StatementFails(r) \/ Unlock(r) \/ Resolve(r)
  BY <1>5 DEF StatementFails, Unlock, Resolve
<1>6. CASE Disconnect(r) \/ LoseLock(r)
  BY <1>6 DEF Disconnect, LoseLock
<1> QED BY <1>1, <1>2, <1>3, <1>4, <1>5, <1>6 DEF Actions, Step

LEMMA ItNotifies ==
    ASSUME NEW r \in Request, Actions(r)
    PROVE  notices' = notices \/ (notices' = Append(notices, r) /\ pc[r] = "evented")
  BY DEF Actions, Step, Start, StartFails, LockFails, Disconnect, LoseLock,
     Lock, ReadRow, SaveRow, InsertRow, DeleteRow, InsertEvent, Notify, StatementFails,
     Unlock, Resolve, outbox

\* What came before something in the history of changes stays before it.
LEMMA HistoryStays ==
    ASSUME TypeOK, NEW r \in Request, Actions(r), NEW a, NEW b, Before(changes, a, b)
    PROVE  Before(changes', a, b)
<1>1. changes \in Seq(Request)
  BY DEF TypeOK
<1>2. Before(Append(changes, r), a, b)
  BY <1>1, BeforeInAppend
<1>3. changes' = changes \/ changes' = Append(changes, r)
  BY ItTouches
<1> QED BY <1>2, <1>3

LEMMA OrderKept ==
    ASSUME TypeOK, StageOK, HeldOK, LastOK, NoticesInOrder, NEW r \in Request, Actions(r)
    PROVE  LastOK' /\ NoticesInOrder'
<1>1. \A d : Guarded(d)' => Guarded(d)
  BY ItTouches DEF Guarded
<1>2. changes \in Seq(Request) /\ notices \in Seq(Request)
  BY DEF TypeOK
<1>3. LastOK'
  <2> SUFFICES ASSUME NEW a \in Request, NEW s \in Request,
                      Op[a] = "patch", Op[s] = "patch", a # s,
                      Target[a] = Target[s], Guarded(Target[a])',
                      pc'[s] \in {"wrote", "evented"}, Changed(a)'
               PROVE  Before(changes', a, s)
    BY DEF LastOK
  <2>1. Guarded(Target[a])
    BY <1>1
  <2>2. CASE s = r
    <3>1. Changed(a)
      BY <2>2, OthersStay
    <3>2. CASE changes' = Append(changes, r)
      <4>1. Before(Append(changes, r), a, r)
        BY <1>2, <3>1, BeforeInAppend DEF Changed
      <4> QED BY <2>2, <3>2, <4>1
    <3>3. CASE pc[s] \in {"wrote", "evented"}
      <4>1. Before(changes, a, s)
        BY <2>1, <3>1, <3>3 DEF LastOK
      <4> QED BY <4>1, HistoryStays
    <3> QED BY <2>2, <3>2, <3>3, ItChanges
  <2>3. CASE s # r
    <3>1. pc[s] \in {"wrote", "evented"}
      BY <2>3, ItTouches
    <3>2. CASE Changed(a)
      <4>1. Before(changes, a, s)
        BY <2>1, <3>1, <3>2 DEF LastOK
      <4> QED BY <4>1, HistoryStays
    <3>3. CASE ~Changed(a)
      <4>1. a = r
        BY <3>3, OthersStay
      <4>2. changes' # changes
        BY <3>3 DEF Changed
      <4>3. pc[r] = "read"
        BY <4>1, <4>2, ItChanges
      <4> QED BY <2>1, <2>3, <3>1, <4>1, <4>3, OneInside DEF Inside
    <3> QED BY <3>2, <3>3
  <2> QED BY <2>2, <2>3
<1>4. NoticesInOrder'
  <2> SUFFICES ASSUME NEW a \in Request, NEW s \in Request,
                      Op[a] = "patch", Op[s] = "patch",
                      Target[a] = Target[s], Guarded(Target[a])', Before(notices', a, s)
               PROVE  Before(changes', a, s)
    <3>1. notices' \in Seq(Request)
      BY TypeKept DEF Next, Actions, TypeOK
    <3>2. Image(notices') \subseteq Request
      BY <3>1 DEF Image
    <3> QED BY <3>2 DEF NoticesInOrder
  <2>1. Guarded(Target[a])
    BY <1>1
  <2>2. CASE Before(notices, a, s)
    <3>1. a \in Image(notices) /\ s \in Image(notices)
      BY <1>2, <2>2 DEF Before, Image
    <3>2. Before(changes, a, s)
      BY <2>1, <2>2, <3>1 DEF NoticesInOrder
    <3> QED BY <3>2, HistoryStays
  <2>3. CASE ~Before(notices, a, s)
    <3>1. notices' = Append(notices, r) /\ pc[r] = "evented"
      BY <2>3, ItNotifies
    <3>2. s = r /\ Notified(a)
      BY <1>2, <2>3, <3>1, BeforeInAppend DEF Notified
    <3>3. a # s
      BY <3>1, <3>2 DEF StageOK, Stage
    <3>4. Changed(a)
      BY <3>2 DEF StageOK, Stage
    <3>5. Before(changes, a, s)
      BY <2>1, <3>1, <3>2, <3>3, <3>4 DEF LastOK
    <3> QED BY <3>5, HistoryStays
  <2> QED BY <2>2, <2>3
<1> QED BY <1>3, <1>4
-----------------------------------------------------------------------------
LEMMA IInvInitially == Init => IInv
<1> SUFFICES ASSUME Init PROVE IInv
  OBVIOUS
<1> USE DinosaurAssumption DEF Init
<1>1. TypeOK
  BY TypeInitially
<1>2. Image(changes) = {} /\ Image(notices) = {}
  BY DEF Image
<1>3. StageOK
  BY <1>2 DEF StageOK, Stage, Changed, Notified
<1>4. HolderOK /\ HeldOK
  BY DEF HolderOK, HeldOK, Inside
<1>5. RowsOK
  BY DEF RowsOK
<1>6. LastOK /\ NoticesInOrder
  BY <1>2 DEF LastOK, NoticesInOrder
<1> QED BY <1>1, <1>3, <1>4, <1>5, <1>6 DEF IInv

LEMMA IInvKept == IInv /\ [Next]_vars => IInv'
<1> SUFFICES ASSUME IInv, [Next]_vars PROVE IInv'
  OBVIOUS
<1>1. TypeOK'
  BY TypeKept DEF IInv
<1>2. ASSUME NEW r \in Request, Actions(r) PROVE IInv'
  <2>1. StageOK'
    BY <1>2, StageKept DEF IInv
  <2>2. HolderOK' /\ HeldOK'
    BY <1>2, LocksKept DEF IInv
  <2>3. RowsOK'
    BY <1>2, RowsKept DEF IInv
  <2>4. LastOK' /\ NoticesInOrder'
    BY <1>2, OrderKept DEF IInv
  <2> QED BY <1>1, <2>1, <2>2, <2>3, <2>4 DEF IInv
<1>3. CASE UNCHANGED vars
  <2>1. UNCHANGED <<pc, reply, species, holder, lockless, gone, changes, events, notices>>
    BY <1>3 DEF vars, rows, locks, outbox
  <2>2. StageOK' /\ HolderOK' /\ HeldOK' /\ RowsOK'
    BY <2>1 DEF IInv, StageOK, Stage, Changed, Notified, HolderOK, HeldOK, RowsOK,
       Guarded, Locks, Unlocked
  <2>3. LastOK' /\ NoticesInOrder'
    BY <2>1 DEF IInv, LastOK, NoticesInOrder, Changed, Guarded
  <2> QED BY <1>1, <2>2, <2>3 DEF IInv
<1> QED BY <1>2, <1>3 DEF Next, Actions

LEMMA IInvAlways == Spec => []IInv
  BY IInvInitially, IInvKept, PTL DEF Spec
-----------------------------------------------------------------------------
\* Every variable keeps its type through every interleaving, failure and loss.
THEOREM TypeCorrect == Spec => []TypeOK
<1>1. IInv => TypeOK
  BY DEF IInv
<1> QED BY <1>1, IInvAlways, PTL

\* What a client is told of a success is true of the tables, for all requests:
\* Create, Replace and Delete answer only after their event was notified.
THEOREM OkMeansPublishedHolds == Spec => []OkMeansPublished
<1>1. IInv => OkMeansPublished
  BY DEF IInv, StageOK, Stage, OkMeansPublished
<1> QED BY <1>1, IInvAlways, PTL

\* The services write the row, then the event, then notify: nobody is told of a
\* change that has not been made, wherever a request is cut off.
THEOREM ChangeBeforeEventHolds == Spec => []ChangeBeforeEvent
<1>1. IInv => ChangeBeforeEvent
  <2> SUFFICES ASSUME IInv PROVE ChangeBeforeEvent
    OBVIOUS
  <2>1. Image(notices) \subseteq Request
    BY DEF IInv, TypeOK, Image
  <2> QED BY <2>1 DEF IInv, StageOK, Stage, TypeOK, Notified, ChangeBeforeEvent
<1> QED BY <1>1, IInvAlways, PTL

\* Unlock is deferred after the lock was granted: no request returns from its
\* service with its lock, unless its client has left and Unlock's COMMIT could not
\* be sent.
THEOREM NoLockLeftBehindHolds == Spec => []NoLockLeftBehind
<1>1. IInv => NoLockLeftBehind
  BY DEF IInv, HolderOK, Inside, NoLockLeftBehind, Unlocked
<1> QED BY <1>1, IInvAlways, PTL

\* The advisory lock around Replace keeps the notifications of a dinosaur's
\* updates in the order of the updates, for any number of racing requests.
THEOREM NoticesInOrderHolds == Spec => []NoticesInOrder
<1>1. IInv => NoticesInOrder
  BY DEF IInv
<1> QED BY <1>1, IInvAlways, PTL

\* Replace saves a row under the lock only if its species differs from the one
\* it read under the same lock.
THEOREM NoRedundantUpdateHolds == Spec => NoRedundantUpdate
<1>1. ASSUME IInv, [Next]_vars
      PROVE  [\A r \in Request :
                 (changes' = Append(changes, r) /\ Op[r] = "patch" /\ Guarded(Target[r]))
                     => species'[Target[r]] # species[Target[r]]]_vars
  <2> SUFFICES ASSUME NEW q \in Request, Actions(q), NEW r \in Request,
                      changes' = Append(changes, r), Op[r] = "patch", Guarded(Target[r])
               PROVE  species'[Target[r]] # species[Target[r]]
    BY <1>1 DEF Next, Actions
  <2>1. changes \in Seq(Request) /\ TypeOK
    BY <1>1 DEF IInv, TypeOK
  <2>2. changes' # changes
    BY <2>1
  <2>3. r = q
    <3>1. Append(changes, r) = Append(changes, q)
      BY <2>1, <2>2, ItTouches
    <3> QED BY <2>1, <3>1
  <2>4. pc[r] = "read" /\ species' = [species EXCEPT ![Target[r]] = Wanted[r]]
    BY <2>1, <2>2, <2>3, ItChanges
  <2> QED BY <1>1, <2>1, <2>4, DinosaurAssumption DEF IInv, RowsOK, TypeOK
<1> QED BY <1>1, IInvAlways, PTL DEF Spec, NoRedundantUpdate
-----------------------------------------------------------------------------
\* The processes hear of what was notified, and of nothing else.
HeardOK ==
    /\ sent \subseteq Image(notices)
    /\ inbox \in [Worker -> Seq(sent \cup {Reconnected})]
    /\ cur \in [Worker -> sent \cup {Nobody}]

\* The row of a create or an update has its species, or that of a later one.
NewestOK ==
    \A s \in Request : Changed(s) /\ Op[s] # "delete" =>
        \E r \in Request :
           /\ r = s \/ Before(changes, s, r)
           /\ Target[r] = Target[s] /\ species[Target[s]] = Wanted[r]

AllInv == IInv /\ HeardOK /\ NewestOK
-----------------------------------------------------------------------------
\* A request's step is one of Dinosaurs, ...
LEMMA RequestsStep ==
    ASSUME NEW r \in Request, Requests(r)
    PROVE  Actions(r)
  BY DEF Requests, Ask, Statement, CreateEvent, NotifyEvent, Actions, Step

\* ... and a worker's is none.
LEMMA WorkersStep ==
    ASSUME NEW w \in Worker, Workers(w) \/ WorkerFails(w)
    PROVE  UNCHANGED vars
  BY DEF Workers, WorkerFails, Work, OnUpsert, OnUpsertFindsNothing, OnDelete

LEMMA StepImplements == [AllNext]_allVars => [Next]_vars
<1> SUFFICES ASSUME [AllNext]_allVars PROVE [Next]_vars
  OBVIOUS
<1>1. ASSUME NEW r \in Request, Requests(r) PROVE Next
  BY <1>1, RequestsStep DEF Actions, Next
<1>2. ASSUME NEW w \in Worker, Workers(w) \/ WorkerFails(w) PROVE UNCHANGED vars
  BY <1>2, WorkersStep
<1>3. CASE UNCHANGED allVars
  BY <1>3 DEF allVars
<1> QED BY <1>1, <1>2, <1>3 DEF AllNext

\* The database and its clients are those of Dinosaurs, whatever the workers do
\* with what they are told.
THEOREM ImplementsDinosaurs == AllSpec => Spec
<1>1. AllInit => Init
  BY DEF AllInit
<1> QED BY <1>1, StepImplements, PTL DEF AllSpec, Spec

\* Among them: what a client is told of a success stays true, nobody is told of
\* a change ahead of it, and notices keep the order of the updates they follow.
THEOREM InheritedInvariantsHold == AllSpec => [](OkMeansPublished /\ ChangeBeforeEvent /\ NoticesInOrder)
  BY ImplementsDinosaurs, OkMeansPublishedHolds, ChangeBeforeEventHolds, NoticesInOrderHolds, PTL
-----------------------------------------------------------------------------
\* An event is sent as it is notified.
LEMMA ItSends ==
    ASSUME NEW r \in Request, Requests(r)
    PROVE  /\ UNCHANGED cur
           /\ \/ UNCHANGED <<sent, inbox>>
              \/ /\ notices' = Append(notices, r)
                 /\ sent' = sent \cup {r}
                 /\ inbox' = [w \in Worker |-> IF link[w] = "up" THEN Append(inbox[w], r)
                                                                 ELSE inbox[w]]
<1>1. CASE Ask(r)
  BY <1>1 DEF Ask, consumer
<1>2. CASE CreateEvent(r)
  BY <1>2 DEF CreateEvent, C!CreateEvent, C!listen, C!work
<1>3. CASE NotifyEvent(r)
  BY <1>3 DEF NotifyEvent, Notify, C!NotifyEvent, C!work
<1> QED BY <1>1, <1>2, <1>3 DEF Requests

\* A worker takes what is in its inbox, keeps what it has or puts it down.
LEMMA ItTakes ==
    ASSUME NEW w \in Worker, Workers(w) \/ WorkerFails(w)
    PROVE  /\ UNCHANGED sent
           /\ \/ UNCHANGED <<inbox, cur>>
              \/ /\ inbox[w] # <<>> /\ Head(inbox[w]) # Reconnected
                 /\ cur' = [cur EXCEPT ![w] = Head(inbox[w])]
                 /\ inbox' = [inbox EXCEPT ![w] = Tail(inbox[w])]
              \/ /\ cur' = [cur EXCEPT ![w] = Nobody]
                 /\ inbox' = inbox \/ inbox' = [inbox EXCEPT ![w] = <<>>]
              \/ /\ UNCHANGED cur
                 /\ inbox' = [inbox EXCEPT ![w] = Append(@, Reconnected)]
<1> USE DEF C!listen, C!work
<1>1. CASE Work(w)
  BY <1>1 DEF Work, C!Receive, C!ReceiveNil, C!Dies, C!TryLock, C!GetEvent, C!Reconcile,
     C!Unlock, C!LinkUp, C!Restart
<1>2. CASE OnUpsert(w) \/ OnUpsertFindsNothing(w) \/ OnDelete(w)
  BY <1>2 DEF OnUpsert, OnUpsertFindsNothing, OnDelete, C!RunHandler
<1>3. CASE WorkerFails(w)
  BY <1>3 DEF WorkerFails, C!HandlerFails, C!StatementFails, C!LoseLock, C!LinkDown,
     C!Crash, C!Dies
<1> QED BY <1>1, <1>2, <1>3 DEF Workers

LEMMA HeardKept == TypeOK /\ HeardOK /\ [AllNext]_allVars => HeardOK'
<1> SUFFICES ASSUME TypeOK, HeardOK, [AllNext]_allVars PROVE HeardOK'
  OBVIOUS
<1>1. ASSUME NEW r \in Request, Requests(r) PROVE HeardOK'
  <2>1. notices' = notices \/ notices' = Append(notices, r)
    BY <1>1, RequestsStep, ItTouches
  <2>2. Image(notices) \subseteq Image(notices')
    <3>1. CASE notices' = Append(notices, r)
      BY <3>1, ImageOfAppend DEF TypeOK
    <3>2. CASE notices' = notices
      BY <3>2
    <3> QED BY <2>1, <3>1, <3>2
  <2>3. CASE UNCHANGED <<sent, inbox, cur>>
    BY <2>2, <2>3 DEF HeardOK
  <2>4. ASSUME notices' = Append(notices, r), sent' = sent \cup {r},
               inbox' = [w \in Worker |-> IF link[w] = "up" THEN Append(inbox[w], r)
                                                            ELSE inbox[w]]
        PROVE  /\ sent' \subseteq Image(notices')
               /\ inbox' \in [Worker -> Seq(sent' \cup {Reconnected})]
    <3>1. Image(notices') = Image(notices) \cup {r}
      BY <2>4, ImageOfAppend DEF TypeOK
    <3>2. ASSUME NEW w \in Worker
          PROVE  inbox[w] \in Seq(sent' \cup {Reconnected})
      <4>1. inbox[w] \in Seq(sent \cup {Reconnected})
        BY DEF HeardOK
      <4> QED BY <4>1, <2>4
    <3>3. ASSUME NEW w \in Worker
          PROVE  Append(inbox[w], r) \in Seq(sent' \cup {Reconnected})
      <4>1. r \in sent' \cup {Reconnected}
        BY <2>4
      <4> QED BY <3>2, <4>1
    <3> QED BY <2>4, <3>1, <3>2, <3>3 DEF HeardOK
  <2>5. sent \subseteq sent' => cur \in [Worker -> sent' \cup {Nobody}]
    BY DEF HeardOK
  <2> QED BY <1>1, <2>3, <2>4, <2>5, ItSends DEF HeardOK
<1>2. ASSUME NEW w \in Worker, Workers(w) \/ WorkerFails(w) PROVE HeardOK'
  <2>1. sent' = sent /\ notices' = notices
    BY <1>2, ItTakes, WorkersStep DEF vars, outbox
  <2>2. inbox[w] \in Seq(sent \cup {Reconnected})
    BY DEF HeardOK
  <2>3. inbox[w] # <<>> => /\ Head(inbox[w]) \in sent \cup {Reconnected}
                           /\ Tail(inbox[w]) \in Seq(sent \cup {Reconnected})
    BY <2>2
  <2>4. Append(inbox[w], Reconnected) \in Seq(sent \cup {Reconnected})
    BY <2>2
  <2>5. <<>> \in Seq(sent \cup {Reconnected})
    OBVIOUS
  <2>6. cur' \in [Worker -> sent \cup {Nobody}]
    BY <1>2, <2>3, ItTakes DEF HeardOK
  <2>7. inbox' \in [Worker -> Seq(sent \cup {Reconnected})]
    BY <1>2, <2>3, <2>4, <2>5, ItTakes DEF HeardOK
  <2> QED BY <2>1, <2>6, <2>7 DEF HeardOK
<1>3. CASE UNCHANGED allVars
  BY <1>3 DEF HeardOK, allVars, consumer, vars, outbox, Image
<1> QED BY <1>1, <1>2, <1>3 DEF AllNext
-----------------------------------------------------------------------------
\* A row is written by the request that becomes its last change, and a delete
\* leaves its species.
LEMMA ItRewrites ==
    ASSUME TypeOK, NEW r \in Request, Actions(r)
    PROVE  \/ /\ changes' = Append(changes, r)
              /\ species' = [species EXCEPT ![Target[r]] = Wanted[r]]
           \/ /\ species' = species
              /\ changes' = changes \/ (changes' = Append(changes, r) /\ Op[r] = "delete")
  BY DEF Actions, Step, Start, StartFails, LockFails, Disconnect, LoseLock,
     Lock, ReadRow, SaveRow, InsertRow, DeleteRow, InsertEvent, Notify, StatementFails,
     Unlock, Resolve, rows

LEMMA NewestKept == TypeOK /\ NewestOK /\ [Next]_vars => NewestOK'
<1> SUFFICES ASSUME TypeOK, NewestOK, [Next]_vars PROVE NewestOK'
  OBVIOUS
<1> USE DinosaurAssumption
<1>1. ASSUME NEW q \in Request, Actions(q), NEW s \in Request,
             Changed(s)', Op[s] # "delete"
      PROVE  \E r \in Request :
                /\ r = s \/ Before(changes', s, r)
                /\ Target[r] = Target[s] /\ species'[Target[s]] = Wanted[r]
  <2>1. changes \in Seq(Request) /\ species \in [Dino -> Species \cup {"none"}]
    BY DEF TypeOK
  <2>2. CASE s = q /\ species' = [species EXCEPT ![Target[q]] = Wanted[q]]
    BY <2>1, <2>2
  <2>3. CASE Changed(s) /\ changes' = Append(changes, q) /\ Target[q] = Target[s]
             /\ species' = [species EXCEPT ![Target[q]] = Wanted[q]]
    <3>1. Before(changes', s, q)
      BY <2>1, <2>3, BeforeInAppend DEF Changed
    <3> QED BY <2>1, <2>3, <3>1
  <2>4. CASE Changed(s) /\ species'[Target[s]] = species[Target[s]]
    <3>1. PICK r \in Request :
             /\ r = s \/ Before(changes, s, r)
             /\ Target[r] = Target[s] /\ species[Target[s]] = Wanted[r]
      BY <1>1, <2>4 DEF NewestOK
    <3>2. r = s \/ Before(changes', s, r)
      BY <1>1, <3>1, HistoryStays
    <3> QED BY <2>4, <3>1, <3>2
  <2>5. Changed(s) \/ (s = q /\ species' = [species EXCEPT ![Target[q]] = Wanted[q]])
    <3>1. changes' = Append(changes, q) => (Changed(s)' <=> Changed(s) \/ s = q)
      BY <2>1, ImageOfAppend DEF Changed
    <3>2. changes' = changes => (Changed(s)' <=> Changed(s))
      BY DEF Changed
    <3> QED BY <1>1, <3>1, <3>2, ItRewrites
  <2>6. Target[q] # Target[s] /\ species' = [species EXCEPT ![Target[q]] = Wanted[q]]
           => species'[Target[s]] = species[Target[s]]
    BY <2>1
  <2> QED BY <1>1, <2>2, <2>3, <2>4, <2>5, <2>6, ItRewrites
<1>2. CASE UNCHANGED vars
  BY <1>2 DEF NewestOK, vars, rows, Changed, Before, Image
<1> QED BY <1>1, <1>2 DEF Next, Actions, NewestOK, Changed
-----------------------------------------------------------------------------
LEMMA AllInvInitially == AllInit => AllInv
<1> SUFFICES ASSUME AllInit PROVE AllInv
  OBVIOUS
<1>1. IInv
  BY IInvInitially DEF AllInit
<1>2. HeardOK
  BY DEF AllInit, C!Init, HeardOK
<1>3. Image(changes) = {}
  BY DEF AllInit, Init, Image
<1> QED BY <1>1, <1>2, <1>3 DEF NewestOK, Changed, AllInv

LEMMA AllInvKept == AllInv /\ [AllNext]_allVars => AllInv'
<1> SUFFICES ASSUME AllInv, [AllNext]_allVars PROVE AllInv'
  OBVIOUS
<1>1. [Next]_vars
  BY StepImplements
<1>2. IInv' /\ HeardOK'
  BY <1>1, IInvKept, HeardKept DEF AllInv, IInv
<1>3. NewestOK'
  BY <1>1, NewestKept DEF AllInv, IInv
<1> QED BY <1>2, <1>3 DEF AllInv

LEMMA AllInvAlways == AllSpec => []AllInv
  BY AllInvInitially, AllInvKept, PTL DEF AllSpec

\* OnUpsert reads the row by the id of the event and gets the change that it is
\* called for or a later one, for any requests and workers, whatever has failed.
THEOREM SeesTheChangeHolds == AllSpec => SeesTheChange
<1> DEFINE Sees == \A w \in Worker : OnUpsert(w) =>
                      \E r \in Request :
                         /\ r = cur[w] \/ Before(changes, cur[w], r)
                         /\ Target[r] = Target[cur[w]] /\ species[Target[r]] = Wanted[r]
<1>1. AllInv => Sees
  <2> SUFFICES ASSUME AllInv, NEW w \in Worker, OnUpsert(w)
               PROVE  \E r \in Request :
                         /\ r = cur[w] \/ Before(changes, cur[w], r)
                         /\ Target[r] = Target[cur[w]] /\ species[Target[r]] = Wanted[r]
    OBVIOUS
  <2>1. cur[w] \in Image(notices) /\ Op[cur[w]] # "delete"
    BY DEF AllInv, HeardOK, OnUpsert, Upsert
  <2>2. cur[w] \in Request
    BY <2>1 DEF AllInv, IInv, TypeOK, Image
  <2>3. Changed(cur[w])
    BY <2>1, <2>2 DEF AllInv, IInv, StageOK, Stage, Notified
  <2> QED BY <2>1, <2>2, <2>3 DEF AllInv, NewestOK
<1>2. AllInv /\ [AllNext]_allVars => [Sees]_allVars
  BY <1>1
<1>3. SeesTheChange <=> [][Sees]_allVars
  BY DEF SeesTheChange
<1> QED BY <1>2, <1>3, AllInvAlways, PTL DEF AllSpec
=============================================================================
