----------------------- MODULE MCClusterRoleAggregation -----------------------
(***************************************************************************)
(* An instance of ClusterRoleAggregation: "view" aggregates the plain role *)
(* "base", "edit" aggregates "view" and carries the label it selects.      *)
(* Users change the rules of base or take its label away, overwrite the    *)
(* rules of view or delete it.  The controller owns the rules of view;     *)
(* those of edit it shares with whoever wrote them first.                  *)
(***************************************************************************)
EXTENDS ClusterRoleAggregation

CONSTANTS w1, w2

MCNames == <<"base", "edit", "view">>
MCSelectors ==
  [r \in Roles |-> CASE r = "base" -> <<>> [] r = "view" -> <<"to-view">>
                     [] OTHER -> <<"to-view", "to-edit">>]
MCBase(labels, rules) == [agg |-> FALSE, labels |-> labels, rules |-> rules]
MCView(rules) == [agg |-> TRUE, labels |-> {"to-edit"}, rules |-> rules]
MCInitialStore ==
  [r \in Roles |-> CASE r = "base" -> MCBase({"to-view"}, <<"x">>)
                     [] OTHER -> MCView(<<"x">>)]
MCInitialOwners ==
  [r \in Roles |-> CASE r = "base" -> {"users"} [] r = "view" -> {"controller"}
                     [] OTHER -> {"controller", "users"}]
MCEdits ==
  [r \in Roles |->
     CASE r = "base" -> {MCBase({"to-view"}, <<"y", "x">>), MCBase({}, <<"x">>)}
       [] r = "view" -> {MCView(<<"y">>), Absent}
       [] OTHER -> {}]
===============================================================================
