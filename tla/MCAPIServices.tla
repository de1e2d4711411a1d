---------------------------- MODULE MCAPIServices ----------------------------
(***************************************************************************)
(* Instances of APIServices: two built-in group versions, one left behind  *)
(* by an earlier release, one that CRDs define, and one that both a CRD    *)
(* and a path without a priority name.                                     *)
(***************************************************************************)
EXTENDS APIServices

MCGroupVersionOf ==
  [p \in ListedPaths |->
     CASE p = "/api/v1" -> "v1" [] p = "/apis/rbac" -> "rbac"
       [] p = "/apis/ext" -> "ext" [] OTHER -> NoGroupVersion]
===============================================================================
