---------------------------- MODULE Announcements ----------------------------
(***************************************************************************)
(* The requests of Dinosaurs and the workers of Controllers on one         *)
(* database: the event of a request is the row that its InsertEvent leaves *)
(* and its Notify announces, and its only handler is the dinosaurs'        *)
(* OnUpsert, or OnDelete, which reads the row as it is by then.            *)
(***************************************************************************)
EXTENDS Dinosaurs

CONSTANTS Worker, Reconnected, MaxMoves

VARIABLES
    row, sent, inbox, link, place, cur, index, owner, ran, effects,
    touched, missed, mishaps,   \* the variables of Controllers
    seen    \* [Dino -> the species that OnUpsert has read last]

C == INSTANCE Controllers WITH
        Event <- Request, Managed <- Request, MayFail <- Request,
        Handlers <- [r \in Request |-> 1],
        pc <- place, next <- index, faults <- mishaps

consumer == <<row, sent, inbox, link, place, cur, index, owner, ran, effects,
              touched, missed, mishaps, seen>>
allVars == <<vars, consumer>>
-----------------------------------------------------------------------------
AllInit == Init /\ C!Init /\ seen = Initial

\* The statements of a request that do not concern its event.
Statement(r) ==
    \/ Lock(r) \/ ReadRow(r) \/ SaveRow(r) \/ InsertRow(r) \/ DeleteRow(r)
    \/ StatementFails(r) \/ Unlock(r) \/ Resolve(r)

Ask(r) ==
    /\ \/ Start(r) \/ StartFails(r) \/ Statement(r) \/ LockFails(r)
       \/ Disconnect(r) \/ LoseLock(r)
    /\ UNCHANGED consumer

CreateEvent(r) == InsertEvent(r) /\ C!CreateEvent(r) /\ UNCHANGED seen
NotifyEvent(r) == Notify(r) /\ C!NotifyEvent(r) /\ UNCHANGED seen

\* What a worker does besides the handlers.
Work(w) ==
    /\ \/ C!Receive(w) \/ C!ReceiveNil(w) \/ C!TryLock(w) \/ C!GetEvent(w)
       \/ C!Reconcile(w) \/ C!Unlock(w) \/ C!LinkUp(w) \/ C!Restart(w)
    /\ UNCHANGED <<vars, seen>>

\* The event in w's hands is a create's or an update's, or a delete's.
Upsert(w) == cur[w] # Nobody /\ Op[cur[w]] # "delete"

\* OnUpsert: dinosaurDao.Get finds the dinosaur ...
OnUpsert(w) ==
    /\ Upsert(w) /\ Live(Target[cur[w]])
    /\ C!RunHandler(w)
    /\ LET d == Target[cur[w]] IN seen' = [seen EXCEPT ![d] = species[d]]
    /\ UNCHANGED vars

\* ... or returns an error, and so does the handler: nothing has failed.
OnUpsertFindsNothing(w) ==
    /\ Upsert(w) /\ ~Live(Target[cur[w]])
    /\ place[w] = "handlers"
    /\ C!Goto(w, "unlock")
    /\ UNCHANGED <<vars, row, sent, inbox, link, cur, index, owner, ran, effects,
                   touched, missed, mishaps, seen>>

OnDelete(w) == ~Upsert(w) /\ C!RunHandler(w) /\ UNCHANGED <<vars, seen>>

WorkerFails(w) ==
    /\ \/ C!HandlerFails(w) \/ C!StatementFails(w) \/ C!LoseLock(w)
       \/ C!LinkDown(w) \/ C!Crash(w)
    /\ UNCHANGED <<vars, seen>>

Requests(r) == Ask(r) \/ CreateEvent(r) \/ NotifyEvent(r)
Workers(w) == Work(w) \/ OnUpsert(w) \/ OnUpsertFindsNothing(w) \/ OnDelete(w)

Begun == {r \in Request : pc[r] # "new"}

\* MaxFaults bounds the failures of the requests and the workers together, and
\* MaxMoves the requests and the failures.
AllNext ==
    /\ \/ \E r \in Request : Requests(r)
       \/ \E w \in Worker : Workers(w) \/ WorkerFails(w)
    /\ faults' + mishaps' <= MaxFaults
    /\ Cardinality(Begun') + faults' + mishaps' <= MaxMoves

AllSpec == AllInit /\ [][AllNext]_allVars

\* A request goes on: of the failures, the one of a context that is done.
Onward(r) ==
    /\ \/ (Statement(r) \/ Abandoned(r)) /\ UNCHANGED consumer
       \/ CreateEvent(r) \/ NotifyEvent(r)
    /\ UNCHANGED faults

\* Less than the fairness of Dinosaurs and Controllers: some request that can go
\* on does, and some worker.  None of them goes on for ever.
AllFairSpec ==
    /\ AllSpec
    /\ WF_allVars(\E r \in Request : Onward(r))
    /\ WF_allVars(\E w \in Worker : Workers(w))
-----------------------------------------------------------------------------
\* OnUpsert never reads a dinosaur older than the change that it is called for:
\* it reads that change, or one that was made after it.
SeesTheChange ==
    [][\A w \in Worker : OnUpsert(w) =>
          \E r \in Request :
             /\ r = cur[w] \/ Before(changes, cur[w], r)
             /\ Target[r] = Target[cur[w]] /\ species[Target[r]] = Wanted[r]]_allVars

\* No request of d was answered with an error, and none of its events was met by
\* a failure of the workers.
Undisturbed(d) ==
    \A r \in Request : Target[r] = d =>
        reply[r] # "error" /\ r \notin touched \cup missed

\* "Kube-style controllers": where nothing failed, OnUpsert has in the end read
\* each dinosaur as it is, though the events of one dinosaur are handled by
\* several workers in any order, workers drop what others have, and a delete may
\* come between, have OnUpsert fail, and be undone by an update that saves the row.
Converges == \A d \in Dino : <>[](Undisturbed(d) /\ Live(d) => seen[d] = species[d])

\* An event whose request was answered with success is dated in the end, unless a
\* failure met it or its dinosaur was deleted meanwhile: OnUpsert fails on those,
\* and they stay as they are, though an update may have brought the row back.
AnnouncedIsDated ==
    <>[](\A r \in events :
            \/ reply[r] # "ok" \/ row[r] = "reconciled" \/ r \in touched \cup missed
            \/ \E x \in Request : Op[x] = "delete" /\ Target[x] = Target[r] /\ Changed(x))
=============================================================================
