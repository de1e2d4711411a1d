--------------------------- MODULE MCAuthentication ---------------------------
(***************************************************************************)
(* An instance of Authentication: the deployments that differ in what the  *)
(* start does with them.                                                   *)
(***************************************************************************)
EXTENDS Authentication

Deployment(embedded, modes, anon, delegating, inCluster) ==
  [embedded |-> embedded, modes |-> modes, anonymous |-> anon,
   delegating |-> delegating, inCluster |-> inCluster]

MCDeployments ==
  {Deployment(TRUE, <<"AlwaysAllow">>, TRUE, FALSE, TRUE),
   Deployment(TRUE, <<"RBAC", "Node">>, TRUE, TRUE, TRUE),
   Deployment(FALSE, <<"RBAC">>, TRUE, TRUE, FALSE),
   Deployment(FALSE, <<"RBAC", "RBAC">>, FALSE, FALSE, TRUE)}
===============================================================================
