---------------------------- MODULE MCDeployment ----------------------------
(***************************************************************************)
(* An instance of Deployment: a pod of the old release, one of the new one *)
(* whose additional migration has an ID between the others, and one of a   *)
(* release with two kinds of one ID.                                       *)
(***************************************************************************)
EXTENDS Deployment

CONSTANTS dinosaur, event, fossil, egg, nest

MCKinds == {dinosaur, event, fossil, egg, nest}
MCId == [k \in MCKinds |-> CASE k = dinosaur -> 1 [] k = fossil -> 2 [] k = event -> 3 [] OTHER -> 4]

CONSTANTS old, new, wrong

MCRelease == [p \in Pods |->
    CASE p = old -> {dinosaur, event} [] p = new -> {dinosaur, fossil, event}
      [] OTHER -> {dinosaur, event, egg, nest}]

All == {"database", "ocm", "sentry"}
Make(env, flags, files, values) ==
    [env |-> env, flags |-> flags, files |-> files, values |-> values]

Development == Make("development", [jwt |-> TRUE], All, {})
Production == Make("production", <<>>, All, {"ocm", "sentry", "keys"})

MCVarious ==
    {Development, Production, Make("staging", <<>>, All, {}),
     Make("production", <<>>, {"database", "ocm"}, {"ocm"}),
     Make("production", [sentry |-> FALSE], {"database"}, {"ocm"}),
     Make("production", [sentry |-> FALSE], All, {}),
     Make("production", [mock |-> TRUE, sentry |-> TRUE], All, {"keys"}),
     Make("production", [mock |-> TRUE, sentry |-> FALSE], All, {}),
     Make("production", [mock |-> TRUE, sentry |-> FALSE, https |-> TRUE], All, {"keys"}),
     Make("development", [metricsHttps |-> TRUE], All, {}),
     Make("development", [healthHttps |-> TRUE], All, {}),
     Make("development", [mock |-> FALSE], {"ocm"}, {})}

MCSettings == [p \in Pods |-> IF p = new THEN MCVarious ELSE {Development}]
=============================================================================
