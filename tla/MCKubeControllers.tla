-------------------------- MODULE MCKubeControllers ---------------------------
(***************************************************************************)
(* An instance of KubeControllers: the token controller and three others,  *)
(* which share informers with it and with each other.  One of them is      *)
(* skipped when the discovery answer lacks its resource.                   *)
(***************************************************************************)
EXTENDS KubeControllers

MCControllers == {"clusterrole-aggregation", "garbagecollector", "csrsigning"}
MCInformersOf ==
  [c \in MCControllers \cup {"serviceaccount-token"} |->
     CASE c = "serviceaccount-token" -> {"secrets"}
       [] c = "clusterrole-aggregation" -> {"clusterroles"}
       [] c = "garbagecollector" -> {"clusterroles", "secrets"}
       [] OTHER -> {"csrs"}]
===============================================================================
