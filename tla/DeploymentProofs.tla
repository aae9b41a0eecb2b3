-------------------------- MODULE DeploymentProofs --------------------------
(***************************************************************************)
(* Theorems about Deployment: whatever the releases, however many pods     *)
(* migrate at once and wherever they fail, what is recorded is complete    *)
(* and what serves is migrated.                                            *)
(***************************************************************************)
EXTENDS Deployment, TLAPS

\* The places where a program has been checked for ambiguous IDs; those where it
\* goes through its migrations; those where it runs one; those after all of them.
Running == {"table", "create table", "index", "record"}
Looping == {"next"} \cup Running
Over == {"serve", "running", "stopped"}
Checked == {"history", "create history"} \cup Looping \cup Over

ReleaseOK(p) ==
    /\ todo[p] \subseteq Release[p]
    /\ current[p] \subseteq Release[p]
    /\ pc[p] \in Checked => Unambiguous(Release[p])

\* The migration in hand, and how far it has got.
CurrentOK(p) ==
    /\ pc[p] \in Running => \E k \in Release[p] : current[p] = {k}
    /\ pc[p] \in {"migrate", "check", "history", "create history", "next"} => current[p] = {}
    /\ pc[p] \in {"index", "record"} => current[p] \subseteq tables
    /\ pc[p] = "record" => current[p] \subseteq indexes

\* What a program has gone past is recorded.
ProgressOK(p) ==
    /\ pc[p] \in Looping =>
          \A k \in Release[p] \ (todo[p] \cup current[p]) : Id[k] \in recorded
    /\ pc[p] \in Over => \A k \in Release[p] : Id[k] \in recorded

PlaceOK == \A p \in Pods : ReleaseOK(p) /\ CurrentOK(p) /\ ProgressOK(p)

IInv == TypeOK /\ PlaceOK /\ RecordedIsComplete

LEMMA Initially == Init => IInv
<1> SUFFICES ASSUME Init PROVE IInv
  OBVIOUS
<1>1. TypeOK
  BY DEF Init, TypeOK, Migrating, Serving
<1>2. RecordedIsComplete
  BY DEF Init, RecordedIsComplete
<1>3. PlaceOK
  <2> SUFFICES ASSUME NEW p \in Pods
               PROVE  ReleaseOK(p) /\ CurrentOK(p) /\ ProgressOK(p)
    BY DEF PlaceOK
  <2>1. pc[p] = "migrate" /\ todo[p] = {} /\ current[p] = {}
    BY DEF Init
  <2> QED
    BY <2>1 DEF ReleaseOK, CurrentOK, ProgressOK, Running, Looping, Over, Checked
<1> QED
  BY <1>1, <1>2, <1>3 DEF IInv

\* The steps that leave the database alone.
LEMMA ReadersKeep ==
    ASSUME IInv, NEW p \in Pods, UNCHANGED <<database, setting>>,
           \/ MigrateCommand(p) \/ CheckDuplicatedID(p) \/ HasHistory(p)
           \/ NextMigration(p) \/ HasTable(p) \/ Migrated(p) \/ Serve(p)
           \/ Fault(p) \/ Restart(p)
    PROVE  IInv'
<1> USE DEF IInv
<1>1. TypeOK'
  <2>1. pc' \in [Pods -> Migrating \cup Serving \cup {"failed", "stopped"}]
    <3>1. \E to \in Migrating \cup Serving \cup {"failed", "stopped"} :
             pc' \in {pc, [pc EXCEPT ![p] = to]}
      <4> USE DEF Goto, Migrating, Serving
      <4>1. CASE MigrateCommand(p) \/ CheckDuplicatedID(p) \/ HasHistory(p)
        BY <4>1 DEF MigrateCommand, CheckDuplicatedID, HasHistory
      <4>2. CASE NextMigration(p) \/ HasTable(p) \/ Migrated(p)
        BY <4>2 DEF NextMigration, HasTable, Migrated
      <4>3. CASE Serve(p) \/ Fault(p) \/ Restart(p)
        BY <4>3 DEF Serve, Fault, Restart
      <4> QED BY <4>1, <4>2, <4>3
    <3> QED BY <3>1 DEF TypeOK
  <2>2. /\ todo' \in [Pods -> SUBSET Kinds] /\ current' \in [Pods -> SUBSET Kinds]
        /\ up' \in [Pods -> SUBSET {"api", "metrics", "health", "controllers"}]
        /\ faults' \in Nat
    <3> USE DEF TypeOK
    <3>1. CASE \/ MigrateCommand(p) \/ CheckDuplicatedID(p) \/ HasTable(p)
               \/ Migrated(p) \/ Serve(p)
      BY <3>1 DEF MigrateCommand, CheckDuplicatedID, HasTable, Migrated, Serve
    <3>2. CASE HasHistory(p)
      <4>1. todo' = todo \/ todo' = [todo EXCEPT ![p] = Release[p]]
        BY <3>2 DEF HasHistory
      <4>2. Release[p] \in SUBSET Kinds
        BY DeploymentAssumption
      <4> QED BY <3>2, <4>1, <4>2 DEF HasHistory
    <3>3. CASE NextMigration(p)
      <4>1. PICK k \in Kinds :
               /\ todo' = [todo EXCEPT ![p] = @ \ {k}]
               /\ current' = current \/ current' = [current EXCEPT ![p] = {k}]
        BY <3>3 DEF NextMigration, First
      <4> QED BY <3>3, <4>1 DEF NextMigration
    <3>4. CASE Fault(p) \/ Restart(p)
      BY <3>4 DEF Fault, Restart
    <3> QED BY <3>1, <3>2, <3>3, <3>4
  <2> QED
    BY <2>1, <2>2 DEF TypeOK, database
<1>2. RecordedIsComplete'
  BY DEF RecordedIsComplete, Complete, database
<1>3. ASSUME NEW q \in Pods, q # p
      PROVE  pc'[q] = pc[q] /\ todo'[q] = todo[q] /\ current'[q] = current[q]
  BY <1>3 DEF TypeOK, Goto, MigrateCommand, CheckDuplicatedID, HasHistory, NextMigration,
              HasTable, Migrated, Serve, Fault, Restart
<1>4. ASSUME NEW q \in Pods, q # p
      PROVE  (ReleaseOK(q) /\ CurrentOK(q) /\ ProgressOK(q))'
  BY <1>3, <1>4 DEF PlaceOK, ReleaseOK, CurrentOK, ProgressOK, database
<1>5. (ReleaseOK(p) /\ CurrentOK(p) /\ ProgressOK(p))'
  <2> DEFINE Same == todo'[p] = todo[p] /\ current'[p] = current[p]
  <2>0. ReleaseOK(p) /\ CurrentOK(p) /\ ProgressOK(p) /\ UNCHANGED <<recorded, tables, indexes>>
    BY DEF PlaceOK, database
  <2> USE <2>0 DEF ReleaseOK, CurrentOK, ProgressOK, Running, Looping, Over, Checked
  <2>1. CASE MigrateCommand(p)
    <3>1. pc[p] = "migrate" /\ pc'[p] \in {"check", "failed"} /\ Same
      BY <2>1 DEF MigrateCommand, Goto, TypeOK
    <3> QED BY <3>1
  <2>2. CASE CheckDuplicatedID(p)
    <3>1. pc[p] = "check" /\ Same
      BY <2>2 DEF CheckDuplicatedID
    <3>2. CASE Unambiguous(Release[p])
      <4>1. pc'[p] = "history"
        BY <2>2, <3>2 DEF CheckDuplicatedID, Goto, TypeOK
      <4> QED BY <3>1, <3>2, <4>1
    <3>3. CASE ~Unambiguous(Release[p])
      <4>1. pc'[p] = "failed"
        BY <2>2, <3>3 DEF CheckDuplicatedID, Goto, TypeOK
      <4> QED BY <3>1, <4>1
    <3> QED BY <3>2, <3>3
  <2>3. CASE HasHistory(p)
    <3>1. /\ pc[p] = "history" /\ current'[p] = current[p]
          /\ \/ pc'[p] = "next" /\ todo'[p] = Release[p]
             \/ pc'[p] = "create history" /\ todo'[p] = todo[p]
      BY <2>3 DEF HasHistory, Goto, TypeOK
    <3> QED BY <3>1
  <2>4. CASE NextMigration(p)
    <3>1. PICK k \in First(todo[p]) :
             /\ todo' = [todo EXCEPT ![p] = @ \ {k}]
             /\ IF WasRun(k) THEN UNCHANGED <<pc, current>>
                ELSE Goto(p, "table") /\ current' = [current EXCEPT ![p] = {k}]
      BY <2>4 DEF NextMigration
    <3>2. k \in Release[p] /\ pc[p] = "next" /\ todo'[p] = todo[p] \ {k}
      BY <2>4, <3>1 DEF First, NextMigration, TypeOK
    <3>3. CASE WasRun(k)
      <4>1. pc'[p] = "next" /\ current'[p] = current[p] /\ Id[k] \in recorded
        BY <3>1, <3>2, <3>3 DEF WasRun
      <4> QED BY <3>2, <4>1
    <3>4. CASE ~WasRun(k)
      <4>1. pc'[p] = "table" /\ current'[p] = {k}
        BY <3>1, <3>4 DEF Goto, TypeOK
      <4> QED BY <3>2, <4>1
    <3> QED BY <3>3, <3>4
  <2>5. CASE HasTable(p)
    <3>1. /\ pc[p] = "table" /\ Same
          /\ \/ pc'[p] = "index" /\ current[p] \subseteq tables
             \/ pc'[p] = "create table"
      BY <2>5 DEF HasTable, Goto, TypeOK
    <3> QED BY <3>1
  <2>6. CASE Migrated(p)
    <3>1. pc[p] = "next" /\ todo[p] = {} /\ pc'[p] = "serve" /\ Same
      BY <2>6 DEF Migrated, Goto, TypeOK
    <3> QED BY <3>1
  <2>7. CASE Serve(p)
    <3>1. pc[p] = "serve" /\ pc'[p] \in {"running", "stopped"} /\ Same
      BY <2>7 DEF Serve, Goto, TypeOK
    <3> QED BY <3>1
  <2>8. CASE Fault(p)
    <3>1. /\ todo'[p] = todo[p] /\ current'[p] = {}
          /\ \/ pc'[p] = "failed"
             \/ pc'[p] = "stopped" /\ pc[p] \in {"serve", "running"}
      BY <2>8 DEF Fault, Goto, TypeOK, Migrating, Serving
    <3> QED BY <3>1
  <2>9. CASE Restart(p)
    <3>1. /\ todo'[p] = todo[p] /\ current'[p] = {}
          /\ pc'[p] = "migrate" \/ (pc'[p] = "serve" /\ pc[p] = "stopped")
      <4>1. pc' = [pc EXCEPT ![p] = IF pc[p] = "failed" THEN "migrate" ELSE "serve"]
        BY <2>9 DEF Restart, Goto
      <4>2. pc[p] \in {"failed", "stopped"} /\ todo' = todo /\ current' = [current EXCEPT ![p] = {}]
        BY <2>9 DEF Restart
      <4>3. DOMAIN pc = Pods /\ DOMAIN current = Pods
        BY DEF TypeOK
      <4>4. CASE pc[p] = "failed"
        <5>1. pc'[p] = "migrate"
          BY <4>1, <4>3, <4>4
        <5> QED BY <4>2, <4>3, <5>1
      <4>5. CASE pc[p] = "stopped"
        <5>1. pc'[p] = "serve"
          BY <4>1, <4>3, <4>5
        <5> QED BY <4>2, <4>3, <4>5, <5>1
      <4> QED BY <4>2, <4>4, <4>5
    <3> QED BY <3>1
  <2> QED
    BY <2>1, <2>2, <2>3, <2>4, <2>5, <2>6, <2>7, <2>8, <2>9
<1> QED
  BY <1>1, <1>2, <1>4, <1>5 DEF PlaceOK

\* Starting a server moves a process from "running" to "stopped" at most.
LEMMA StartKeeps ==
    ASSUME IInv, NEW p \in Pods, NEW server \in {"api", "metrics", "health", "controllers"},
           NEW starts, Start(p, server, starts)
    PROVE  IInv'
<1> USE DEF IInv, Start, Goto, database
<1>0. up' \in [Pods -> SUBSET {"api", "metrics", "health", "controllers"}]
  BY DEF TypeOK
<1>1. TypeOK'
  BY <1>0 DEF TypeOK, Migrating, Serving
<1>2. RecordedIsComplete'
  BY DEF RecordedIsComplete, Complete
<1>3. PlaceOK'
  <2> SUFFICES ASSUME NEW q \in Pods
               PROVE  (ReleaseOK(q) /\ CurrentOK(q) /\ ProgressOK(q))'
    BY DEF PlaceOK
  <2>1. /\ UNCHANGED <<recorded, tables, indexes>>
        /\ todo'[q] = todo[q] /\ current'[q] = current[q]
        /\ pc'[q] = pc[q] \/ (pc[q] = "running" /\ pc'[q] = "stopped")
    <3>1. pc[p] = "running" /\ (pc' = pc \/ pc' = [pc EXCEPT ![p] = "stopped"])
      OBVIOUS
    <3>2. todo' = todo /\ current' = current /\ UNCHANGED <<recorded, tables, indexes>>
      OBVIOUS
    <3>3. DOMAIN pc = Pods
      BY DEF TypeOK
    <3>4. pc'[q] = pc[q] \/ (pc[q] = "running" /\ pc'[q] = "stopped")
      <4>1. CASE q = p
        BY <3>1, <3>3, <4>1
      <4>2. CASE q # p
        BY <3>1, <3>3, <4>2
      <4> QED BY <4>1, <4>2
    <3> QED BY <3>2, <3>4
  <2> QED
    BY <2>1 DEF PlaceOK, ReleaseOK, CurrentOK, ProgressOK, Running, Looping, Over, Checked
<1> QED
  BY <1>1, <1>2, <1>3

\* The statements that create something: they take nothing away from others.
LEMMA CreatorsKeep ==
    ASSUME IInv, NEW p \in Pods, CreateHistory(p) \/ CreateTable(p) \/ CreateIndex(p)
    PROVE  IInv'
<1> USE DEF IInv
<1>1. TypeOK'
  <2>1. pc' \in [Pods -> Migrating \cup Serving \cup {"failed", "stopped"}]
    BY DEF TypeOK, Migrating, Serving, Goto, CreateHistory, CreateTable, CreateIndex
  <2>2. todo' \in [Pods -> SUBSET Kinds]
    BY DeploymentAssumption DEF TypeOK, CreateHistory, CreateTable, CreateIndex
  <2>3. history' \in BOOLEAN /\ tables' \subseteq Kinds /\ indexes' \subseteq Kinds
    BY DEF TypeOK, CreateHistory, CreateTable, CreateIndex
  <2> QED
    BY <2>1, <2>2, <2>3 DEF TypeOK, CreateHistory, CreateTable, CreateIndex
<1>2. recorded' = recorded /\ tables \subseteq tables' /\ indexes \subseteq indexes'
  BY DEF CreateHistory, CreateTable, CreateIndex
<1>3. RecordedIsComplete'
  BY <1>2 DEF RecordedIsComplete, Complete
<1>4. ASSUME NEW q \in Pods, q # p
      PROVE  pc'[q] = pc[q] /\ todo'[q] = todo[q] /\ current'[q] = current[q]
  BY <1>4 DEF TypeOK, Goto, CreateHistory, CreateTable, CreateIndex
<1>5. ASSUME NEW q \in Pods, q # p
      PROVE  (ReleaseOK(q) /\ CurrentOK(q) /\ ProgressOK(q))'
  BY <1>2, <1>4, <1>5 DEF PlaceOK, ReleaseOK, CurrentOK, ProgressOK
<1>6. (ReleaseOK(p) /\ CurrentOK(p) /\ ProgressOK(p))'
  <2>0. ReleaseOK(p) /\ CurrentOK(p) /\ ProgressOK(p) /\ current'[p] = current[p]
    BY DEF PlaceOK, CreateHistory, CreateTable, CreateIndex
  <2> USE <1>2, <2>0 DEF ReleaseOK, CurrentOK, ProgressOK, Running, Looping, Over, Checked
  <2>1. CASE CreateHistory(p)
    <3>1. /\ pc[p] = "create history"
          /\ \/ pc'[p] = "failed" /\ todo'[p] = todo[p]
             \/ pc'[p] = "next" /\ todo'[p] = Release[p]
      BY <2>1 DEF CreateHistory, Goto, TypeOK
    <3> QED BY <3>1
  <2>2. CASE CreateTable(p)
    <3>1. /\ pc[p] = "create table" /\ todo'[p] = todo[p]
          /\ pc'[p] = "failed" \/ (pc'[p] = "index" /\ current[p] \subseteq tables')
      BY <2>2 DEF CreateTable, Goto, TypeOK
    <3> QED BY <3>1
  <2>3. CASE CreateIndex(p)
    <3>1. /\ pc[p] = "index" /\ todo'[p] = todo[p]
          /\ pc'[p] = "record" /\ current[p] \subseteq indexes'
      BY <2>3 DEF CreateIndex, Goto, TypeOK
    <3> QED BY <3>1
  <2> QED
    BY <2>1, <2>2, <2>3
<1> QED
  BY <1>1, <1>3, <1>5, <1>6 DEF PlaceOK

\* The record stands for a migration whose statements have been run, and for no
\* other of the same ID.
LEMMA RecordKeeps ==
    ASSUME IInv, NEW p \in Pods, Record(p)
    PROVE  IInv'
<1> USE DEF IInv
<1>1. PICK k \in Release[p] : current[p] = {k}
  BY DEF Record, PlaceOK, CurrentOK, Running
<1>2. k \in Kinds /\ k \in tables /\ k \in indexes /\ pc[p] = "record"
  BY <1>1 DEF Record, PlaceOK, CurrentOK, TypeOK
<1>3. {Id[l] : l \in current[p]} = {Id[k]}
  BY <1>1
<1>4. recorded' = recorded \/ recorded' = recorded \cup {Id[k]}
  BY <1>3 DEF Record
<1>5. TypeOK'
  <2>1. Id[k] \in Nat
    BY <1>2, DeploymentAssumption
  <2>2. recorded' \subseteq Nat
    BY <1>4, <2>1 DEF TypeOK
  <2>3. pc' \in [Pods -> Migrating \cup Serving \cup {"failed", "stopped"}]
    BY DEF TypeOK, Record, Goto, Migrating, Serving
  <2>4. current' \in [Pods -> SUBSET Kinds]
    BY DEF TypeOK, Record
  <2> QED
    BY <2>2, <2>3, <2>4 DEF TypeOK, Record
<1>6. RecordedIsComplete'
  <2> SUFFICES ASSUME NEW l \in Kinds, Id[l] \in recorded'
               PROVE  l \in tables /\ l \in indexes
    BY DEF RecordedIsComplete, Complete, Record
  <2>1. CASE Id[l] \in recorded
    BY <2>1 DEF RecordedIsComplete, Complete
  <2>2. CASE Id[l] = Id[k]
    <3>1. l \in Release[p]
      BY <1>2, <2>2, DeploymentAssumption
    <3>2. Unambiguous(Release[p])
      BY <1>2 DEF PlaceOK, ReleaseOK, Checked, Looping, Running
    <3> QED
      BY <1>2, <2>2, <3>1, <3>2 DEF Unambiguous
  <2> QED
    BY <1>4, <2>1, <2>2
<1>7. ASSUME NEW q \in Pods, q # p
      PROVE  (ReleaseOK(q) /\ CurrentOK(q) /\ ProgressOK(q))'
  <2>1. pc'[q] = pc[q] /\ todo'[q] = todo[q] /\ current'[q] = current[q]
    BY <1>7 DEF TypeOK, Goto, Record
  <2> QED
    BY <1>4, <1>7, <2>1 DEF PlaceOK, ReleaseOK, CurrentOK, ProgressOK, Record
<1>8. (ReleaseOK(p) /\ CurrentOK(p) /\ ProgressOK(p))'
  <2>1. todo' = todo /\ current'[p] = {} /\ pc'[p] \in {"failed", "next"}
    BY DEF Record, Goto, TypeOK
  <2>2. pc'[p] = "next" => recorded' = recorded \cup {Id[k]}
    BY <1>3 DEF Record, Goto, TypeOK
  <2>3. ReleaseOK(p)' /\ CurrentOK(p)'
    BY <1>2, <2>1 DEF PlaceOK, ReleaseOK, CurrentOK, Checked, Looping, Running, Over
  <2>4. ProgressOK(p)'
    BY <1>1, <1>2, <2>1, <2>2 DEF PlaceOK, ProgressOK, Looping, Running, Over
  <2> QED
    BY <2>3, <2>4
<1> QED
  BY <1>5, <1>6, <1>7, <1>8 DEF PlaceOK

LEMMA NextKeeps == IInv /\ [Next]_vars => IInv'
<1> SUFFICES ASSUME IInv, [Next]_vars PROVE IInv'
  OBVIOUS
<1>1. ASSUME NEW p \in Pods, Step(p) \/ Fault(p)
      PROVE  IInv'
  <2>1. CASE \/ MigrateCommand(p) \/ CheckDuplicatedID(p) \/ HasHistory(p)
             \/ NextMigration(p) \/ HasTable(p) \/ Migrated(p) \/ Serve(p)
             \/ Fault(p) \/ Restart(p)
    <3>1. UNCHANGED <<database, setting>>
      BY <2>1 DEF MigrateCommand, CheckDuplicatedID, HasHistory, NextMigration, HasTable,
                  Migrated, Serve, Fault, Restart, database
    <3> QED
      BY <2>1, <3>1, ReadersKeep
  <2>2. CASE CreateHistory(p) \/ CreateTable(p) \/ CreateIndex(p)
    BY <2>2, CreatorsKeep
  <2>3. CASE Record(p)
    BY <2>3, RecordKeeps
  <2>4. CASE StartAPI(p) \/ StartMetrics(p) \/ StartHealthCheck(p) \/ StartControllers(p)
    BY <2>4, StartKeeps DEF StartAPI, StartMetrics, StartHealthCheck, StartControllers
  <2> QED
    BY <1>1, <2>1, <2>2, <2>3, <2>4 DEF Step
<1>2. CASE UNCHANGED vars
  BY <1>2 DEF vars, IInv, TypeOK, PlaceOK, ReleaseOK, CurrentOK, ProgressOK,
              RecordedIsComplete, Complete
<1> QED
  BY <1>1, <1>2 DEF Next

LEMMA Inductive == Spec => []IInv
  BY Initially, NextKeeps, PTL DEF Spec

\* What is in the database is of the kinds, and every pod is somewhere, whatever
\* the releases, their settings and their faults.
THEOREM TypeCorrect == Spec => []TypeOK
<1>1. IInv => TypeOK
  BY DEF IInv
<1> QED
  BY <1>1, Inductive, PTL

\* gormigrate's table tells the truth though no migration is a transaction: an
\* ID gets into it after the last statement of the one migration it stands for.
THEOREM RecordedIsCompleteHolds == Spec => []RecordedIsComplete
<1>1. IInv => RecordedIsComplete
  BY DEF IInv
<1> QED
  BY <1>1, Inductive, PTL

\* A serving process has all its tables and indexes, however many pods of however
\* many releases have migrated the database with it, and in whichever order the
\* IDs came.
THEOREM ServingIsMigratedHolds == Spec => []ServingIsMigrated
<1>1. IInv => ServingIsMigrated
  BY DeploymentAssumption DEF IInv, TypeOK, PlaceOK, ProgressOK, Over, RecordedIsComplete, ServingIsMigrated
<1> QED
  BY <1>1, Inductive, PTL
=============================================================================
