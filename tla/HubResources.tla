----------------------------- MODULE HubResources -----------------------------
(***************************************************************************)
(* The post-start hook that prepares the hub's resources                   *)
(* (pkg/controllers/bootstrap/hub.go).  BuildKubeSystemResources goes      *)
(* through five stages: the default namespace, cluster-info, a bootstrap   *)
(* token, cluster roles and cluster role bindings.  A failed stage is      *)
(* logged and given up, the next one runs.  Controlplanes that share an    *)
(* external etcd run the hook side by side, and every start runs it again. *)
(*                                                                         *)
(* The cluster roles and bindings are numbered in the order they are       *)
(* prepared.  An object is "current" if it is what this release wants,     *)
(* "old" if another release left it with other rules or subjects, "oldref" *)
(* if it left a binding with another role reference.                       *)
(***************************************************************************)
EXTENDS Naturals

CONSTANTS
  Instances,     \* the controlplane processes that share the store
  NumRoles,      \* cluster roles to prepare
  NumBindings,   \* cluster role bindings to prepare
  LeftBehind,    \* what earlier releases may have left of an object
  MaxErrors,     \* bound: calls that fail
  MaxStops       \* bound: stops and crashes

Items == 1..(NumRoles + NumBindings)
Roles == 1..NumRoles
Versions == {"absent", "old", "oldref", "current"}
Nobody == "nobody"

ASSUME HubAssumption ==
  /\ Instances # {} /\ Nobody \notin Instances
  /\ NumRoles \in Nat /\ NumBindings \in Nat /\ Items # {}
  /\ LeftBehind \subseteq Versions \ {"current"}
  /\ MaxErrors \in Nat /\ MaxStops \in Nat

VARIABLES
  \* in the store
  namespaces,    \* the namespaces that exist
  clusterInfo,   \* who wrote the cluster-info configmap last
  infoRBAC,      \* the rules that let everybody read it exist
  tokens,        \* number of bootstrap token secrets
  rbac,          \* the cluster roles and bindings
  \* in each process
  pc,            \* the call of the hook that comes next
  item,          \* the role or binding being prepared
  seen,          \* what Get returned for it
  failed,        \* history: a call of this start returned an error
  \* around them
  starts, errors, stops

store == <<namespaces, clusterInfo, infoRBAC, tokens, rbac>>
vars == <<store, pc, item, seen, failed, starts, errors, stops>>

Init ==
  /\ namespaces = {} /\ clusterInfo = Nobody /\ infoRBAC = FALSE /\ tokens = 0
  /\ rbac \in [Items -> LeftBehind]
  /\ \A i \in Roles : rbac[i] # "oldref"
  /\ pc = [p \in Instances |-> "down"] /\ item = [p \in Instances |-> 1]
  /\ seen = [p \in Instances |-> "absent"] /\ failed = [p \in Instances |-> FALSE]
  /\ starts = 0 /\ errors = 0 /\ stops = 0
-------------------------------------------------------------------------------
(* How a call of process p ends.                                           *)

Succeeds(p, next) ==
  /\ pc' = [pc EXCEPT ![p] = next]
  /\ UNCHANGED <<failed, errors>>

Refused(p, next) ==
  /\ pc' = [pc EXCEPT ![p] = next]
  /\ failed' = [failed EXCEPT ![p] = TRUE]
  /\ UNCHANGED errors

(* An error of the network or the server: the call had its effect or not.  *)
Fails(p, next) ==
  /\ errors < MaxErrors /\ errors' = errors + 1
  /\ pc' = [pc EXCEPT ![p] = next]
  /\ failed' = [failed EXCEPT ![p] = TRUE]
-------------------------------------------------------------------------------
(* The server runs its post-start hooks.                                   *)
InstallHubResource(p) ==
  /\ pc[p] = "down"
  /\ pc' = [pc EXCEPT ![p] = "default"]
  /\ item' = [item EXCEPT ![p] = 1]
  /\ failed' = [failed EXCEPT ![p] = FALSE]
  /\ starts' = starts + 1
  /\ UNCHANGED <<store, seen, errors, stops>>

PrepareDefaultNamespace(p) ==
  /\ pc[p] = "default"
  /\ \/ namespaces' = namespaces \cup {"default"} /\ Succeeds(p, "public")
     \/ /\ namespaces' \in {namespaces, namespaces \cup {"default"}}
        /\ Fails(p, "public")
  /\ UNCHANGED <<clusterInfo, infoRBAC, tokens, rbac, item, seen, starts, stops>>

(* Two stages poll until their namespace is there; a failed Get is only    *)
(* tried again.                                                            *)
WaitForNamespace(p) ==
  /\ \/ pc[p] = "public" /\ "kube-public" \in namespaces /\ Succeeds(p, "clusterinfo")
     \/ pc[p] = "system" /\ "kube-system" \in namespaces /\ Succeeds(p, "token")
  /\ UNCHANGED <<store, item, seen, starts, stops>>

(* prepareClusterInfoConfigmap: CreateOrUpdateConfigMap, then the rules.   *)
PrepareClusterInfoConfigmap(p) ==
  /\ pc[p] = "clusterinfo"
  /\ \/ clusterInfo' = p /\ Succeeds(p, "inforbac")
     \/ clusterInfo' \in {clusterInfo, p} /\ Fails(p, "system")
  /\ UNCHANGED <<namespaces, infoRBAC, tokens, rbac, item, seen, starts, stops>>

CreateClusterInfoRBACRules(p) ==
  /\ pc[p] = "inforbac"
  /\ \/ infoRBAC' = TRUE /\ Succeeds(p, "system")
     \/ infoRBAC' \in {infoRBAC, TRUE} /\ Fails(p, "system")
  /\ UNCHANGED <<namespaces, clusterInfo, tokens, rbac, item, seen, starts, stops>>

(* Mutant of PrepareBootstrapTokenSecret: a failed call is tried again.    *)
PrepareBootstrapTokenSecretRetried(p) ==
  /\ pc[p] = "token"
  /\ \/ tokens' = tokens + 1 /\ Succeeds(p, "get")
     \/ tokens' \in {tokens, tokens + 1} /\ Fails(p, "token")
  /\ UNCHANGED <<namespaces, clusterInfo, infoRBAC, rbac, item, seen, starts, stops>>

(* A new token with a random name: it never meets an earlier one.          *)
PrepareBootstrapTokenSecret(p) ==
  /\ pc[p] = "token"
  /\ \/ tokens' = tokens + 1 /\ Succeeds(p, "get")
     \/ tokens' \in {tokens, tokens + 1} /\ Fails(p, "get")
  /\ UNCHANGED <<namespaces, clusterInfo, infoRBAC, rbac, item, seen, starts, stops>>
-------------------------------------------------------------------------------
(* prepareClusterRole and prepareClusterRoleBinding, for one item after    *)
(* the other: Get, then Create or Update.                                  *)

(* Mutant of NextItem: the binding's stage ends with its first binding.    *)
NextItemFirstOnly(i) == IF i > NumRoles THEN NumRoles + NumBindings + 1 ELSE i + 1

NextItem(i) == i + 1

(* An error ends the stage: the items left in it are skipped.              *)
NextStage(i) == IF i \in Roles THEN NumRoles + 1 ELSE NumRoles + NumBindings + 1

(* Mutant of PcAt: off by one at the end of the list.                      *)
PcAtOneMore(i) == IF i \in 1..(NumRoles + NumBindings + 1) THEN "get" ELSE "done"

PcAt(i) == IF i \in Items THEN "get" ELSE "done"

(* Mutant of UpToDate: whatever exists is taken as it is.                  *)
UpToDateIfThere(version) == version # "absent"

(* DeepEqual of the rules, or of the role reference and the subjects.      *)
UpToDate(version) == version = "current"

Moves(p, i) == item' = [item EXCEPT ![p] = i]

GetItem(p) ==
  /\ pc[p] = "get"
  /\ \/ /\ seen' = [seen EXCEPT ![p] = rbac[item[p]]]
        /\ IF UpToDate(rbac[item[p]])
           THEN Moves(p, NextItem(item[p])) /\ Succeeds(p, PcAt(NextItem(item[p])))
           ELSE UNCHANGED item /\ Succeeds(p, "put")
     \/ /\ Moves(p, NextStage(item[p])) /\ Fails(p, PcAt(NextStage(item[p])))
        /\ UNCHANGED seen
  /\ UNCHANGED <<store, starts, stops>>

(* What the API server does with the write: it refuses to create what      *)
(* exists, to update what does not, and to change a role reference.        *)
Accepted(p) ==
  IF seen[p] = "absent" THEN rbac[item[p]] = "absent"
                        ELSE rbac[item[p]] \notin {"absent", "oldref"}

(* Mutant of PutRefused: a refused write is tried again as it was.         *)
PutRefusedRetries(p) == UNCHANGED item /\ Refused(p, "put")

PutRefused(p) == Moves(p, NextStage(item[p])) /\ Refused(p, PcAt(NextStage(item[p])))

PutItem(p) ==
  LET written == [rbac EXCEPT ![item[p]] = "current"] IN
  /\ pc[p] = "put"
  /\ \/ /\ Accepted(p)
        /\ rbac' = written
        /\ Moves(p, NextItem(item[p])) /\ Succeeds(p, PcAt(NextItem(item[p])))
     \/ ~Accepted(p) /\ PutRefused(p) /\ UNCHANGED rbac
     \/ /\ rbac' \in {rbac} \cup (IF Accepted(p) THEN {written} ELSE {})
        /\ Moves(p, NextStage(item[p])) /\ Fails(p, PcAt(NextStage(item[p])))
  /\ UNCHANGED <<namespaces, clusterInfo, infoRBAC, tokens, seen, starts, stops>>
-------------------------------------------------------------------------------
(* The API server's own controller makes the system namespaces.            *)
SystemNamespaces ==
  /\ \E p \in Instances : pc[p] # "down"
  /\ namespaces' = namespaces \cup {"kube-public", "kube-system"}
  /\ UNCHANGED <<clusterInfo, infoRBAC, tokens, rbac, pc, item, seen, failed, starts,
                 errors, stops>>

(* A stopped process: a cancelled context ends every stage without a call. *)
Stop(p) ==
  /\ pc[p] # "down" /\ stops < MaxStops
  /\ pc' = [pc EXCEPT ![p] = "down"]
  /\ stops' = stops + 1
  /\ UNCHANGED <<store, item, seen, failed, starts, errors>>

Hook(p) ==
  \/ InstallHubResource(p) \/ PrepareDefaultNamespace(p) \/ WaitForNamespace(p)
  \/ PrepareClusterInfoConfigmap(p) \/ CreateClusterInfoRBACRules(p)
  \/ PrepareBootstrapTokenSecret(p) \/ GetItem(p) \/ PutItem(p)

Next == SystemNamespaces \/ \E p \in Instances : Hook(p) \/ Stop(p)

Spec == Init /\ [][Next]_vars

(* Every process runs its hook, and the API server its controller.  That   *)
(* calls fail is never owed to anyone.                                     *)
FairSpec ==
  /\ Spec /\ WF_vars(SystemNamespaces)
  /\ \A p \in Instances : WF_vars(Hook(p) /\ UNCHANGED errors)
-------------------------------------------------------------------------------
(* The values of the variables.                                            *)
TypeOK ==
  /\ namespaces \subseteq {"default", "kube-public", "kube-system"}
  /\ clusterInfo \in Instances \cup {Nobody} /\ infoRBAC \in BOOLEAN /\ tokens \in Nat
  /\ rbac \in [Items -> Versions]
  /\ pc \in [Instances -> {"down", "default", "public", "clusterinfo", "inforbac",
                           "system", "token", "get", "put", "done"}]
  /\ item \in [Instances -> 1..(NumRoles + NumBindings + 1)]
  /\ \A p \in Instances : pc[p] \in {"get", "put"} => item[p] \in Items
  /\ seen \in [Instances -> Versions] /\ failed \in [Instances -> BOOLEAN]
  /\ starts \in Nat /\ errors \in Nat /\ stops \in Nat

Installed ==
  /\ "default" \in namespaces /\ clusterInfo # Nobody /\ infoRBAC /\ tokens > 0
  /\ \A i \in Items : rbac[i] = "current"

(* BuildKubeSystemResources that ran to its end without an error leaves    *)
(* everything in place, whatever an earlier release or another controlplane *)
(* at work on the same objects left there.                                 *)
InstalledUnlessFailed ==
  \A p \in Instances : (pc[p] = "done" /\ ~failed[p]) => Installed

(* Controlplanes that start together race between Get and Create, and the  *)
(* loser skips the rest of its stage.  When all have finished, nothing is  *)
(* missing all the same: whoever won a race went on to the next item.      *)
(* Only a binding with an old role reference, which cannot be updated      *)
(* (hub.go:264), is left as it is, and the ones after it are given up.     *)
RacesLeaveNothingOut ==
  (errors = 0 /\ \A p \in Instances : pc[p] = "done") =>
    /\ "default" \in namespaces /\ clusterInfo # Nobody /\ infoRBAC /\ tokens > 0
    /\ \A i \in Items : \/ rbac[i] = "current"
                        \/ \E j \in Items : j <= i /\ rbac[j] = "oldref"

(* A start adds at most one bootstrap token, even if the answer to the     *)
(* call that made it was lost.                                             *)
OneTokenPerStart == tokens <= starts

(* Without failing calls and old role references the hooks finish and the  *)
(* resources stay in place, whatever races and restarts came before.       *)
EventuallyInstalled ==
  [](errors = 0 /\ \A i \in Items : rbac[i] # "oldref") =>
    <>[](Installed /\ \A p \in Instances : pc[p] = "done")
===============================================================================
