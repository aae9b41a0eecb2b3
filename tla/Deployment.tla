----------------------------- MODULE Deployment -----------------------------
(***************************************************************************)
(* The pods of a rollout.  An init container runs "trex migrate", which    *)
(* brings the tables of all registered kinds into the database; when it    *)
(* has succeeded, the other container runs "trex serve", which initializes *)
(* the environment and starts its four servers.  Nothing keeps two pods    *)
(* from migrating at the same time, nothing is done in a transaction, and  *)
(* a container that dies is started again.                                 *)
(*                                                                         *)
(* The plugins a pod's program imports, its release, are given by their    *)
(* kinds; each kind registers one migration, of one table and its index.   *)
(***************************************************************************)
EXTENDS Naturals, FiniteSets

CONSTANTS
    Pods,
    Kinds,
    Events,     \* the kind of the events plugin
    Id,         \* [kind -> the ID of its migration]
    Release,    \* [pod -> the kinds its program has]
    Settings,   \* [pod -> [env, flags, files, values]: what it may be started with]
    MaxFaults   \* bound: statements that fail and containers that are killed

\* Kinds with one ID have got into all the same releases.
ASSUME DeploymentAssumption ==
    /\ IsFiniteSet(Kinds)
    /\ Id \in [Kinds -> Nat]
    /\ Release \in [Pods -> SUBSET Kinds]
    /\ \A k, l \in Kinds, p \in Pods : Id[k] = Id[l] /\ k \in Release[p] => l \in Release[p]
    /\ MaxFaults \in Nat

VARIABLES
    history,   \* there is a table "migrations"
    recorded,  \* the IDs in it
    tables,    \* the kinds that have a table
    indexes,   \* the kinds whose table has its index
    setting,   \* [pod -> its settings]
    pc,
    todo,      \* [pod -> the kinds whose migrations its program has still to look at]
    current,   \* [pod -> the set of the kind whose migration it runs, {} for none]
    up,        \* [pod -> the servers that have been started]
    faults

vars == <<history, recorded, tables, indexes, setting, pc, todo, current, up, faults>>
database == <<history, recorded, tables, indexes>>
-----------------------------------------------------------------------------
\* The configuration: NewApplicationConfig, then the environment's Flags, then
\* the command line, then OverrideConfig.
Defaults == [mock |-> TRUE, sentry |-> FALSE, jwt |-> TRUE, https |-> FALSE,
             metricsHttps |-> FALSE, healthHttps |-> FALSE]

Flags == [development |-> [mock |-> TRUE, sentry |-> FALSE, https |-> FALSE, metricsHttps |-> FALSE],
          production |-> [mock |-> FALSE, sentry |-> TRUE]]

AddFlags(config, flags) ==
    [f \in DOMAIN config |-> IF f \in DOMAIN flags THEN flags[f] ELSE config[f]]

OverrideConfig(env, config) ==
    IF env = "development" THEN [config EXCEPT !.jwt = FALSE, !.https = FALSE] ELSE config

Config(s) == OverrideConfig(s.env, AddFlags(AddFlags(Defaults, Flags[s.env]), s.flags))

\* SetConfigDefaults calls a method of nil for an unknown environment, in every
\* command: main builds them all.
KnownEnvironment(s) == s.env \in DOMAIN Flags

\* ReadFiles: OCM's are not read for the mock, nor Sentry's when it is off.
ReadFiles(s) ==
    /\ "database" \in s.files
    /\ Config(s).mock \/ "ocm" \in s.files
    /\ Config(s).sentry => "sentry" \in s.files

\* LoadClients: newConnection wants a client and its secret, or a token.
LoadClients(s) == Config(s).mock \/ "ocm" \in s.values

\* InitializeSentry: sentry.Init refuses an address without its key.
InitializeSentry(s) == Config(s).sentry => "sentry" \in s.values

\* The API server: the keys of the authentication, the certificate.
APIServerStarts(s) ==
    /\ Config(s).jwt => "keys" \in s.values
    /\ Config(s).https => "certificate" \in s.values

MetricsServerStarts(s) == Config(s).metricsHttps => "certificate" \in s.values
HealthCheckServerStarts(s) == Config(s).healthHttps => "certificate" \in s.values

\* NewDefaultControllersServer asserts that what the events plugin has
\* registered is a func() services.EventService; it is a ServiceLocator.
ControllersServerStarts(p) == Events \notin Release[p]
-----------------------------------------------------------------------------
Init ==
    /\ history = FALSE /\ recorded = {} /\ tables = {} /\ indexes = {}
    /\ setting \in [Pods -> UNION {Settings[p] : p \in Pods}]
    /\ \A p \in Pods : setting[p] \in Settings[p]
    /\ pc = [p \in Pods |-> "migrate"]
    /\ todo = [p \in Pods |-> {}]
    /\ current = [p \in Pods |-> {}]
    /\ up = [p \in Pods |-> {}]
    /\ faults = 0

Goto(p, label) == pc' = [pc EXCEPT ![p] = label]

\* NewMigrateCommand: the files of the database, the connection.
MigrateCommand(p) ==
    /\ pc[p] = "migrate"
    /\ IF KnownEnvironment(setting[p]) /\ "database" \in setting[p].files
       THEN Goto(p, "check") ELSE Goto(p, "failed")
    /\ UNCHANGED <<database, setting, todo, current, up, faults>>

\* gormigrate refuses a program with an ID that two migrations have.
Unambiguous(kinds) == \A k, l \in kinds : Id[k] = Id[l] => k = l

CheckDuplicatedID(p) ==
    /\ pc[p] = "check"
    /\ IF Unambiguous(Release[p]) THEN Goto(p, "history") ELSE Goto(p, "failed")
    /\ UNCHANGED <<database, setting, todo, current, up, faults>>

HasHistory(p) ==
    /\ pc[p] = "history"
    /\ IF history
       THEN Goto(p, "next") /\ todo' = [todo EXCEPT ![p] = Release[p]]
       ELSE Goto(p, "create history") /\ UNCHANGED todo
    /\ UNCHANGED <<database, setting, current, up, faults>>

CreateHistory(p) ==
    /\ pc[p] = "create history"
    /\ IF history
       THEN Goto(p, "failed") /\ UNCHANGED <<history, todo>>
       ELSE /\ history' = TRUE
            /\ todo' = [todo EXCEPT ![p] = Release[p]]
            /\ Goto(p, "next")
    /\ UNCHANGED <<recorded, tables, indexes, setting, current, up, faults>>

\* LoadDiscoveredMigrations sorts the migrations by their IDs.
First(kinds) == {k \in kinds : \A l \in kinds : Id[k] <= Id[l]}

\* Mutant of WasRun: what comes before the last one recorded has been run.
WasRunBefore(k) == \E id \in recorded : Id[k] <= id

WasRun(k) == Id[k] \in recorded

\* runMigration: is the next one recorded?
NextMigration(p) ==
    /\ pc[p] = "next" /\ todo[p] # {}
    /\ \E k \in First(todo[p]) :
          /\ todo' = [todo EXCEPT ![p] = @ \ {k}]
          /\ IF WasRun(k)
             THEN UNCHANGED <<pc, current>>
             ELSE Goto(p, "table") /\ current' = [current EXCEPT ![p] = {k}]
    /\ UNCHANGED <<database, setting, up, faults>>

\* Mutant of HasTable: the migration creates what is not there, unasked.
HasTableNever(p) ==
    /\ pc[p] = "table"
    /\ Goto(p, "create table")
    /\ UNCHANGED <<database, setting, todo, current, up, faults>>

\* Mutant of HasTable: with the table, the migration has nothing left to do.
HasTableIsEnough(p) ==
    /\ pc[p] = "table"
    /\ IF current[p] \subseteq tables THEN Goto(p, "record") ELSE Goto(p, "create table")
    /\ UNCHANGED <<database, setting, todo, current, up, faults>>

\* AutoMigrate of the plugin's migration: is there a table?
HasTable(p) ==
    /\ pc[p] = "table"
    /\ IF current[p] \subseteq tables THEN Goto(p, "index") ELSE Goto(p, "create table")
    /\ UNCHANGED <<database, setting, todo, current, up, faults>>

CreateTable(p) ==
    /\ pc[p] = "create table"
    /\ IF current[p] \subseteq tables
       THEN Goto(p, "failed") /\ UNCHANGED tables
       ELSE tables' = tables \cup current[p] /\ Goto(p, "index")
    /\ UNCHANGED <<history, recorded, indexes, setting, todo, current, up, faults>>

\* CREATE INDEX IF NOT EXISTS.
CreateIndex(p) ==
    /\ pc[p] = "index"
    /\ indexes' = indexes \cup current[p]
    /\ Goto(p, "record")
    /\ UNCHANGED <<history, recorded, tables, setting, todo, current, up, faults>>

\* insertMigration; the ID is the primary key.
Record(p) ==
    /\ pc[p] = "record"
    /\ LET ids == {Id[k] : k \in current[p]}
       IN  IF ids \subseteq recorded
           THEN Goto(p, "failed") /\ UNCHANGED recorded
           ELSE recorded' = recorded \cup ids /\ Goto(p, "next")
    /\ current' = [current EXCEPT ![p] = {}]
    /\ UNCHANGED <<history, tables, indexes, setting, todo, up, faults>>

\* The init container has succeeded: the other one is started.
Migrated(p) ==
    /\ pc[p] = "next" /\ todo[p] = {}
    /\ Goto(p, "serve")
    /\ UNCHANGED <<database, setting, todo, current, up, faults>>
-----------------------------------------------------------------------------
\* runServe with Initialize; the goroutines are there from here on.
Serve(p) ==
    /\ pc[p] = "serve"
    /\ LET s == setting[p]
       IN  IF ReadFiles(s) /\ LoadClients(s) /\ InitializeSentry(s)
           THEN Goto(p, "running") ELSE Goto(p, "stopped")
    /\ UNCHANGED <<database, setting, todo, current, up, faults>>

\* A server starts, or Check, glog.Fatalf or a panic takes the process with it.
Start(p, server, starts) ==
    /\ pc[p] = "running" /\ server \notin up[p]
    /\ IF starts
       THEN up' = [up EXCEPT ![p] = @ \cup {server}] /\ UNCHANGED pc
       ELSE up' = [up EXCEPT ![p] = {}] /\ Goto(p, "stopped")
    /\ UNCHANGED <<database, setting, todo, current, faults>>

StartAPI(p) == Start(p, "api", APIServerStarts(setting[p]))
StartMetrics(p) == Start(p, "metrics", MetricsServerStarts(setting[p]))
StartHealthCheck(p) == Start(p, "health", HealthCheckServerStarts(setting[p]))
StartControllers(p) == Start(p, "controllers", ControllersServerStarts(p))

Migrating == {"migrate", "check", "history", "create history", "next", "table",
              "create table", "index", "record"}
Serving == {"serve", "running"}

\* A statement fails, the connection is not to be had, or the container is
\* killed: glog.Fatal ends the process wherever it is.
Fault(p) ==
    /\ faults < MaxFaults
    /\ pc[p] \in Migrating \cup Serving
    /\ Goto(p, IF pc[p] \in Migrating THEN "failed" ELSE "stopped")
    /\ up' = [up EXCEPT ![p] = {}]
    /\ current' = [current EXCEPT ![p] = {}]
    /\ faults' = faults + 1
    /\ UNCHANGED <<database, setting, todo>>

\* Only the container that has died is started again.
Restart(p) ==
    /\ pc[p] \in {"failed", "stopped"}
    /\ Goto(p, IF pc[p] = "failed" THEN "migrate" ELSE "serve")
    /\ current' = [current EXCEPT ![p] = {}]
    /\ UNCHANGED <<database, setting, todo, up, faults>>

Step(p) ==
    \/ MigrateCommand(p) \/ CheckDuplicatedID(p) \/ HasHistory(p) \/ CreateHistory(p)
    \/ NextMigration(p) \/ HasTable(p) \/ CreateTable(p) \/ CreateIndex(p) \/ Record(p)
    \/ Migrated(p) \/ Serve(p)
    \/ StartAPI(p) \/ StartMetrics(p) \/ StartHealthCheck(p) \/ StartControllers(p)
    \/ Restart(p)

Next == \E p \in Pods : Step(p) \/ Fault(p)

\* The processes run, and the kubelet restarts them; faults need not come.
Fairness == \A p \in Pods : WF_vars(Step(p))

Spec == Init /\ [][Next]_vars /\ Fairness
-----------------------------------------------------------------------------
Complete(k) == k \in tables /\ k \in indexes

TypeOK ==
    /\ history \in BOOLEAN
    /\ recorded \subseteq Nat /\ tables \subseteq Kinds /\ indexes \subseteq Kinds
    /\ setting \in [Pods -> UNION {Settings[p] : p \in Pods}]
    /\ pc \in [Pods -> Migrating \cup Serving \cup {"failed", "stopped"}]
    /\ todo \in [Pods -> SUBSET Kinds]
    /\ current \in [Pods -> SUBSET Kinds]
    /\ up \in [Pods -> SUBSET {"api", "metrics", "health", "controllers"}]
    /\ faults \in Nat

\* An ID that is recorded, by whichever pod, stands for a migration all of whose
\* statements have been run, though several programs run it at a time and one of
\* them may end between any two: nobody will run the rest.
RecordedIsComplete == \A k \in Kinds : Id[k] \in recorded => Complete(k)

\* A process that serves finds every table of its own plugins, those too whose
\* migration is older than what another release has recorded before.
ServingIsMigrated ==
    \A p \in Pods : pc[p] = "running" => \A k \in Release[p] : Complete(k)

Migratable(p) ==
    /\ KnownEnvironment(setting[p]) /\ "database" \in setting[p].files
    /\ Unambiguous(Release[p])

\* Whatever was left half done, and whoever has failed on whose table, every pod
\* that can be migrated at all is migrated in the end.
MigratedInTheEnd ==
    \A p \in Pods : <>(Migratable(p) => \A k \in Release[p] : Complete(k))

Startable(p) ==
    /\ Migratable(p)
    /\ ReadFiles(setting[p]) /\ LoadClients(setting[p]) /\ InitializeSentry(setting[p])
    /\ APIServerStarts(setting[p]) /\ MetricsServerStarts(setting[p])
    /\ HealthCheckServerStarts(setting[p])

\* "The service will be available at `http://localhost:8000`" (README.md:96): a
\* pod whose configuration is in order comes to serve, and goes on; stated of
\* deployments without faults.
ServeStays == \A p \in Pods : <>[](Startable(p) => "api" \in up[p])
=============================================================================
