---------------------------- MODULE MCHubResources ----------------------------
(***************************************************************************)
(* Instances of HubResources: one cluster role and the two bindings        *)
(* cluster-bootstrap and kube-admin, with two controlplanes.               *)
(***************************************************************************)
EXTENDS HubResources

MCUpgrade == {"absent", "old", "oldref"}
===============================================================================
