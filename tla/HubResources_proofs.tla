-------------------------- MODULE HubResources_proofs --------------------------
(***************************************************************************)
(* Proofs about HubResources, for any number of controlplanes, cluster     *)
(* roles and bindings, failing calls and restarts.                         *)
(*                                                                         *)
(* InstalledUnlessFailed is not inductive: it says nothing of a hook that  *)
(* is still at work.  ProgressInv says what a hook that met no error has   *)
(* done at each of its steps, and StartInv that it begins with the first   *)
(* item.  What one process has done no other undoes (Monotone), which is   *)
(* why a process' progress survives the steps of the others.               *)
(***************************************************************************)
EXTENDS HubResources, FiniteSetTheorems, TLAPS

Early == {"default", "public", "clusterinfo", "inforbac", "system", "token"}

(* Until the roles are prepared, a hook is at the first item.              *)
StartInv == \A p \in Instances : pc[p] \in Early => item[p] = 1

(* What process p has done if no call of its failed.                       *)
Progress(p) ==
  /\ pc[p] # "default" => "default" \in namespaces
  /\ pc[p] \in {"inforbac", "system", "token", "get", "put", "done"} =>
       clusterInfo # Nobody
  /\ pc[p] \in {"system", "token", "get", "put", "done"} => infoRBAC
  /\ pc[p] \in {"get", "put", "done"} => tokens > 0
  /\ pc[p] \in {"get", "put"} => \A i \in Items : i < item[p] => rbac[i] = "current"
  /\ pc[p] = "done" => \A i \in Items : rbac[i] = "current"

ProgressInv == \A p \in Instances : (pc[p] # "down" /\ ~failed[p]) => Progress(p)

IInv == TypeOK /\ StartInv /\ ProgressInv
-------------------------------------------------------------------------------
(* The arithmetic of the two lists: what follows an item is an item or the *)
(* end, and PcAt tells which.                                              *)
LEMMA ItemFacts ==
  /\ 1 \in Items
  /\ \A i \in Items :
       /\ NextItem(i) \in 1..(NumRoles + NumBindings + 1)
       /\ NextStage(i) \in 1..(NumRoles + NumBindings + 1)
       /\ NextItem(i) = i + 1
  /\ \A i \in 1..(NumRoles + NumBindings + 1) :
       /\ PcAt(i) \in {"get", "done"}
       /\ PcAt(i) = "get" <=> i \in Items
BY HubAssumption DEF Items, Roles, NextItem, NextStage, PcAt

Steps == Early \cup {"down", "get", "put", "done"}

(* How a call ends keeps the types.                                        *)
LEMMA CallTypes ==
  ASSUME TypeOK, NEW p \in Instances, NEW next \in Steps,
         Succeeds(p, next) \/ Refused(p, next) \/ Fails(p, next)
  PROVE  /\ pc' \in [Instances -> Steps] /\ pc'[p] = next
         /\ \A q \in Instances \ {p} : pc'[q] = pc[q]
         /\ failed' \in [Instances -> BOOLEAN]
         /\ errors' \in Nat
<1>1. pc \in [Instances -> Steps] /\ pc' = [pc EXCEPT ![p] = next]
  BY DEF TypeOK, Succeeds, Refused, Fails, Steps, Early
<1>2. errors' \in Nat
  BY DEF TypeOK, Succeeds, Refused, Fails
<1>3. failed' \in [Instances -> BOOLEAN]
  <2>1. failed \in [Instances -> BOOLEAN]
    BY DEF TypeOK
  <2>2. failed' = failed \/ failed' = [failed EXCEPT ![p] = TRUE]
    BY DEF Succeeds, Refused, Fails
  <2> QED BY <2>1, <2>2
<1> QED BY <1>1, <1>2, <1>3

(* The variables keep their types, and a hook that runs works on an item   *)
(* of the list.                                                            *)
LEMMA TypeStep == TypeOK /\ StartInv /\ [Next]_vars => TypeOK'
<1> SUFFICES ASSUME TypeOK, StartInv, [Next]_vars PROVE TypeOK'
  OBVIOUS
<1>1. CASE SystemNamespaces
  BY <1>1 DEF TypeOK, SystemNamespaces
<1>2. ASSUME NEW p \in Instances, InstallHubResource(p) PROVE TypeOK'
  <2>1. 1 \in 1..(NumRoles + NumBindings + 1)
    BY HubAssumption
  <2> QED BY <1>2, <2>1 DEF TypeOK, InstallHubResource, store
<1>3. ASSUME NEW p \in Instances, PrepareDefaultNamespace(p) PROVE TypeOK'
  <2>1. Succeeds(p, "public") \/ Fails(p, "public")
    BY <1>3 DEF PrepareDefaultNamespace
  <2>2. namespaces' \subseteq namespaces \cup {"default"}
    BY <1>3 DEF PrepareDefaultNamespace
  <2> QED BY <1>3, <2>1, <2>2, CallTypes DEF TypeOK, PrepareDefaultNamespace, Steps, Early
<1>4. ASSUME NEW p \in Instances, WaitForNamespace(p) PROVE TypeOK'
  BY <1>4 DEF TypeOK, WaitForNamespace, Succeeds, store
<1>5. ASSUME NEW p \in Instances, PrepareClusterInfoConfigmap(p) PROVE TypeOK'
  <2>1. Succeeds(p, "inforbac") \/ Fails(p, "system")
    BY <1>5 DEF PrepareClusterInfoConfigmap
  <2>2. clusterInfo' = p \/ clusterInfo' = clusterInfo
    BY <1>5 DEF PrepareClusterInfoConfigmap
  <2> QED BY <1>5, <2>1, <2>2, CallTypes
          DEF TypeOK, PrepareClusterInfoConfigmap, Steps, Early
<1>6. ASSUME NEW p \in Instances, CreateClusterInfoRBACRules(p) PROVE TypeOK'
  <2>1. Succeeds(p, "system") \/ Fails(p, "system")
    BY <1>6 DEF CreateClusterInfoRBACRules
  <2>2. infoRBAC' \in BOOLEAN
    BY <1>6 DEF CreateClusterInfoRBACRules, TypeOK
  <2> QED BY <1>6, <2>1, <2>2, CallTypes
          DEF TypeOK, CreateClusterInfoRBACRules, Steps, Early
<1>7. ASSUME NEW p \in Instances, PrepareBootstrapTokenSecret(p) PROVE TypeOK'
  <2>1. Succeeds(p, "get") \/ Fails(p, "get")
    BY <1>7 DEF PrepareBootstrapTokenSecret
  <2>2. tokens' \in Nat
    BY <1>7 DEF PrepareBootstrapTokenSecret, TypeOK
  <2>3. item[p] \in Items
    BY <1>7, ItemFacts DEF PrepareBootstrapTokenSecret, StartInv, Early
  <2> QED BY <1>7, <2>1, <2>2, <2>3, CallTypes
          DEF TypeOK, PrepareBootstrapTokenSecret, Steps, Early
<1>8. ASSUME NEW p \in Instances, GetItem(p) PROVE TypeOK'
  <2> DEFINE End == 1..(NumRoles + NumBindings + 1)
  <2>1. item[p] \in Items
    BY <1>8 DEF TypeOK, GetItem
  <2>2. /\ NextItem(item[p]) \in End /\ NextStage(item[p]) \in End
        /\ \A i \in End : PcAt(i) \in {"get", "done"} /\ (PcAt(i) = "get" <=> i \in Items)
    BY <2>1, ItemFacts
  <2>3. seen' \in [Instances -> Versions]
    BY <1>8, <2>1 DEF TypeOK, GetItem
  <2>4. ASSUME NEW i \in End, Moves(p, i), Succeeds(p, PcAt(i)) \/ Fails(p, PcAt(i))
        PROVE  TypeOK'
    BY <1>8, <2>2, <2>3, <2>4, CallTypes DEF TypeOK, GetItem, Moves, Steps, Early, store
  <2>5. ASSUME UNCHANGED item, Succeeds(p, "put") PROVE TypeOK'
    BY <1>8, <2>1, <2>3, <2>5, CallTypes DEF TypeOK, GetItem, Steps, Early, store
  <2> HIDE DEF End
  <2> QED BY <1>8, <2>2, <2>4, <2>5 DEF GetItem
<1>9. ASSUME NEW p \in Instances, PutItem(p) PROVE TypeOK'
  <2> DEFINE End == 1..(NumRoles + NumBindings + 1)
  <2>1. item[p] \in Items
    BY <1>9 DEF TypeOK, PutItem
  <2>2. /\ NextItem(item[p]) \in End /\ NextStage(item[p]) \in End
        /\ \A i \in End : PcAt(i) \in {"get", "done"} /\ (PcAt(i) = "get" <=> i \in Items)
    BY <2>1, ItemFacts
  <2>3. rbac' \in [Items -> Versions]
    <3>1. rbac' = rbac \/ rbac' = [rbac EXCEPT ![item[p]] = "current"]
      BY <1>9 DEF PutItem
    <3> QED BY <3>1 DEF TypeOK, Versions
  <2>4. ASSUME NEW i \in End, Moves(p, i),
               Succeeds(p, PcAt(i)) \/ Refused(p, PcAt(i)) \/ Fails(p, PcAt(i))
        PROVE  TypeOK'
    BY <1>9, <2>2, <2>3, <2>4, CallTypes DEF TypeOK, PutItem, Moves, Steps, Early
  <2> HIDE DEF End
  <2> QED BY <1>9, <2>2, <2>4 DEF PutItem, PutRefused
<1>10. ASSUME NEW p \in Instances, Stop(p) PROVE TypeOK'
  BY <1>10 DEF TypeOK, Stop, store
<1>11. CASE UNCHANGED vars
  BY <1>11 DEF TypeOK, vars, store
<1> QED BY <1>1, <1>2, <1>3, <1>4, <1>5, <1>6, <1>7, <1>8, <1>9, <1>10, <1>11
        DEF Next, Hook

(* A hook does not move on to another item before it gets to the roles.    *)
LEMMA StartStep == TypeOK /\ StartInv /\ [Next]_vars => StartInv'
<1> SUFFICES ASSUME TypeOK, StartInv, [Next]_vars PROVE StartInv'
  OBVIOUS
<1>1. CASE SystemNamespaces \/ UNCHANGED vars
  BY <1>1 DEF StartInv, SystemNamespaces, vars
<1>2. ASSUME NEW p \in Instances, InstallHubResource(p) \/ Stop(p) PROVE StartInv'
  BY <1>2 DEF StartInv, Early, TypeOK, InstallHubResource, Stop
<1>3. ASSUME NEW p \in Instances,
             \/ PrepareDefaultNamespace(p) \/ WaitForNamespace(p)
             \/ PrepareClusterInfoConfigmap(p) \/ CreateClusterInfoRBACRules(p)
             \/ PrepareBootstrapTokenSecret(p)
      PROVE  StartInv'
  <2>1. PICK next : Succeeds(p, next) \/ Fails(p, next)
    BY <1>3 DEF PrepareDefaultNamespace, WaitForNamespace, PrepareClusterInfoConfigmap,
         CreateClusterInfoRBACRules, PrepareBootstrapTokenSecret
  <2>2. pc' = [pc EXCEPT ![p] = next]
    BY <2>1 DEF Succeeds, Fails
  <2>3. UNCHANGED item /\ pc[p] \in Early
    BY <1>3 DEF PrepareDefaultNamespace, WaitForNamespace, PrepareClusterInfoConfigmap,
         CreateClusterInfoRBACRules, PrepareBootstrapTokenSecret, Early
  <2> QED BY <2>2, <2>3 DEF StartInv, TypeOK
<1>4. ASSUME NEW p \in Instances, GetItem(p) \/ PutItem(p) PROVE StartInv'
  <2>1. item[p] \in Items
    BY <1>4 DEF TypeOK, GetItem, PutItem
  <2>2. /\ PcAt(NextItem(item[p])) \in {"get", "done"}
        /\ PcAt(NextStage(item[p])) \in {"get", "done"}
    BY <2>1, ItemFacts
  <2>3. PICK next \in {"get", "put", "done"} : pc' = [pc EXCEPT ![p] = next]
    BY <1>4, <2>2 DEF GetItem, PutItem, PutRefused, Succeeds, Fails, Refused
  <2>4. item' = item \/ \E i : item' = [item EXCEPT ![p] = i]
    BY <1>4 DEF GetItem, PutItem, PutRefused, Moves
  <2> QED BY <2>3, <2>4 DEF StartInv, Early, TypeOK
<1> QED BY <1>1, <1>2, <1>3, <1>4 DEF Next, Hook

(* No step of any process takes away what another has put in place.        *)
LEMMA Monotone ==
  ASSUME TypeOK, [Next]_vars
  PROVE  /\ namespaces \subseteq namespaces'
         /\ clusterInfo # Nobody => clusterInfo' # Nobody
         /\ infoRBAC => infoRBAC'
         /\ tokens <= tokens'
         /\ \A i \in Items : rbac[i] = "current" => rbac'[i] = "current"
<1> USE HubAssumption DEF TypeOK
<1>1. CASE SystemNamespaces \/ UNCHANGED vars
  BY <1>1 DEF SystemNamespaces, vars, store
<1>2. ASSUME NEW p \in Instances,
             \/ InstallHubResource(p) \/ WaitForNamespace(p) \/ GetItem(p) \/ Stop(p)
      PROVE  UNCHANGED store
  BY <1>2 DEF InstallHubResource, WaitForNamespace, GetItem, Stop
<1>3. ASSUME NEW p \in Instances,
             \/ PrepareDefaultNamespace(p) \/ PrepareClusterInfoConfigmap(p)
             \/ CreateClusterInfoRBACRules(p) \/ PrepareBootstrapTokenSecret(p)
      PROVE  /\ namespaces \subseteq namespaces'
             /\ clusterInfo # Nobody => clusterInfo' # Nobody
             /\ infoRBAC => infoRBAC'
             /\ tokens <= tokens'
             /\ UNCHANGED rbac
  <2>1. CASE PrepareDefaultNamespace(p)
    BY <2>1 DEF PrepareDefaultNamespace
  <2>2. CASE PrepareClusterInfoConfigmap(p)
    BY <2>2 DEF PrepareClusterInfoConfigmap
  <2>3. CASE CreateClusterInfoRBACRules(p)
    <3>1. infoRBAC => infoRBAC'
      BY <2>3, Zenon DEF CreateClusterInfoRBACRules
    <3>2. UNCHANGED <<namespaces, clusterInfo, tokens, rbac>>
      BY <2>3 DEF CreateClusterInfoRBACRules
    <3> QED BY <3>1, <3>2
  <2>4. CASE PrepareBootstrapTokenSecret(p)
    BY <2>4 DEF PrepareBootstrapTokenSecret
  <2> QED BY <1>3, <2>1, <2>2, <2>3, <2>4
<1>4. ASSUME NEW p \in Instances, PutItem(p)
      PROVE  /\ UNCHANGED <<namespaces, clusterInfo, infoRBAC, tokens>>
             /\ \A i \in Items : rbac[i] = "current" => rbac'[i] = "current"
  BY <1>4 DEF PutItem
<1> QED BY <1>1, <1>2, <1>3, <1>4 DEF Next, Hook, store

(* The progress of a process survives a step that is not its own.          *)
LEMMA OthersStep ==
  ASSUME TypeOK, TypeOK', [Next]_vars, NEW q \in Instances, Progress(q),
         pc'[q] = pc[q], item'[q] = item[q]
  PROVE  Progress(q)'
BY Monotone DEF Progress, TypeOK

(* Only the process that takes a step moves.                               *)
LEMMA OneMoves ==
  ASSUME TypeOK, NEW p \in Instances, Hook(p) \/ Stop(p),
         NEW q \in Instances, q # p
  PROVE  pc'[q] = pc[q] /\ item'[q] = item[q] /\ failed'[q] = failed[q]
BY DEF TypeOK, Hook, InstallHubResource, PrepareDefaultNamespace, WaitForNamespace,
  PrepareClusterInfoConfigmap, CreateClusterInfoRBACRules, PutRefused, Refused,
  PrepareBootstrapTokenSecret, GetItem, PutItem, Stop, Succeeds, Fails, Moves

(* A call that fails is remembered.                                        *)
LEMMA FailedRemembered ==
  ASSUME TypeOK, NEW p \in Instances, NEW next, Fails(p, next) \/ Refused(p, next)
  PROVE  failed'[p]
BY DEF TypeOK, Fails, Refused

(* A call of a hook that runs does not make it forget an earlier failure.  *)
LEMMA Kept ==
  ASSUME TypeOK, NEW p \in Instances, GetItem(p) \/ PutItem(p), ~failed'[p]
  PROVE  ~failed[p]
BY DEF TypeOK, GetItem, PutItem, PutRefused, Refused, Succeeds, Fails

(* Going on to the next item, when this one is up to date.                 *)
LEMMA Advance ==
  ASSUME TypeOK, NEW p \in Instances, item[p] \in Items, Progress(p),
         pc[p] \in {"get", "put"},
         Moves(p, NextItem(item[p])), Succeeds(p, PcAt(NextItem(item[p]))),
         UNCHANGED <<namespaces, clusterInfo, infoRBAC, tokens>>,
         rbac'[item[p]] = "current",
         \A i \in Items : rbac[i] = "current" => rbac'[i] = "current"
  PROVE  Progress(p)'
<1>1. /\ item'[p] = item[p] + 1
      /\ pc'[p] = PcAt(item[p] + 1)
  BY DEF TypeOK, Moves, Succeeds, NextItem
<1>2. item[p] + 1 \in 1..(NumRoles + NumBindings + 1)
  BY HubAssumption DEF Items
<1>3. \A i \in Items : i < item[p] + 1 => rbac'[i] = "current"
  <2> SUFFICES ASSUME NEW i \in Items, i < item[p] + 1 PROVE rbac'[i] = "current"
    OBVIOUS
  <2>1. i < item[p] \/ i = item[p]
    BY DEF Items
  <2> QED BY <2>1 DEF Progress
<1>4. CASE pc'[p] = "get"
  BY <1>1, <1>3, <1>4 DEF Progress
<1>5. CASE pc'[p] = "done"
  <2>1. \A i \in Items : i < item[p] + 1
    BY <1>1, <1>2, <1>5, HubAssumption DEF PcAt, Items
  <2> QED BY <1>1, <1>3, <1>5, <2>1 DEF Progress
<1> QED BY <1>1, <1>2, <1>4, <1>5, ItemFacts

(* A process without errors keeps its progress in a step of its own.       *)
LEMMA OwnStep ==
  ASSUME IInv, TypeOK', [Next]_vars, NEW p \in Instances, Hook(p) \/ Stop(p),
         pc'[p] # "down", ~failed'[p]
  PROVE  Progress(p)'
<1> USE HubAssumption, ItemFacts
<1>1. CASE InstallHubResource(p)
  BY <1>1 DEF IInv, TypeOK, InstallHubResource, Progress
<1>2. CASE PrepareDefaultNamespace(p)
  BY <1>2, FailedRemembered DEF IInv, TypeOK, PrepareDefaultNamespace, Progress, Succeeds
<1>3. CASE WaitForNamespace(p)
  BY <1>3 DEF IInv, TypeOK, ProgressInv, WaitForNamespace, Progress, Succeeds, store
<1>4. CASE PrepareClusterInfoConfigmap(p)
  BY <1>4, FailedRemembered
  DEF IInv, TypeOK, ProgressInv, PrepareClusterInfoConfigmap, Progress, Succeeds
<1>5. CASE CreateClusterInfoRBACRules(p)
  BY <1>5, FailedRemembered
  DEF IInv, TypeOK, ProgressInv, CreateClusterInfoRBACRules, Progress, Succeeds
<1>6. CASE PrepareBootstrapTokenSecret(p)
  <2>1. Succeeds(p, "get") /\ tokens' = tokens + 1
    BY <1>6, FailedRemembered DEF IInv, PrepareBootstrapTokenSecret
  <2>2. Progress(p) /\ item'[p] = 1 /\ pc[p] = "token" /\ pc'[p] = "get"
    BY <1>6, <2>1 DEF IInv, TypeOK, ProgressInv, StartInv, Early,
         PrepareBootstrapTokenSecret, Succeeds
  <2>3. \A i \in Items : ~(i < 1)
    BY DEF Items
  <2> QED BY <1>6, <2>1, <2>2, <2>3
          DEF Progress, IInv, TypeOK, PrepareBootstrapTokenSecret
<1>7. CASE GetItem(p)
  <2>1. item[p] \in Items /\ Progress(p) /\ pc[p] = "get"
    BY <1>7, Kept DEF IInv, TypeOK, ProgressInv, GetItem
  <2>2. CASE Succeeds(p, "put") /\ UNCHANGED item
    BY <1>7, <2>1, <2>2 DEF IInv, TypeOK, GetItem, Progress, Succeeds, store
  <2>3. CASE /\ rbac[item[p]] = "current"
             /\ Moves(p, NextItem(item[p])) /\ Succeeds(p, PcAt(NextItem(item[p])))
    BY <1>7, <2>1, <2>3, Advance DEF IInv, GetItem, store
  <2> QED BY <1>7, <2>2, <2>3, FailedRemembered DEF IInv, GetItem, UpToDate
<1>8. CASE PutItem(p)
  <2>1. item[p] \in Items /\ Progress(p) /\ pc[p] = "put"
    BY <1>8, Kept DEF IInv, TypeOK, ProgressInv, PutItem
  <2>2. /\ rbac' = [rbac EXCEPT ![item[p]] = "current"]
        /\ Moves(p, NextItem(item[p])) /\ Succeeds(p, PcAt(NextItem(item[p])))
    BY <1>8, FailedRemembered DEF IInv, PutItem, PutRefused
  <2>3. rbac'[item[p]] = "current" /\ \A i \in Items : rbac[i] = "current" => rbac'[i] = "current"
    BY <2>1, <2>2 DEF IInv, TypeOK
  <2> QED BY <1>8, <2>1, <2>2, <2>3, Advance DEF IInv, PutItem
<1>9. CASE Stop(p)
  BY <1>9 DEF IInv, TypeOK, Stop
<1> QED BY <1>1, <1>2, <1>3, <1>4, <1>5, <1>6, <1>7, <1>8, <1>9 DEF Hook

(* So does every process in every step.                                    *)
LEMMA ProgressStep == IInv /\ [Next]_vars => ProgressInv'
<1> SUFFICES ASSUME IInv, [Next]_vars PROVE ProgressInv'
  OBVIOUS
<1>1. TypeOK /\ TypeOK'
  BY TypeStep DEF IInv
<1>2. CASE SystemNamespaces \/ UNCHANGED vars
  <2>1. UNCHANGED <<pc, item, failed>>
    BY <1>2 DEF SystemNamespaces, vars
  <2> QED BY <1>1, <2>1, OthersStep DEF IInv, ProgressInv
<1>3. ASSUME NEW p \in Instances, Hook(p) \/ Stop(p) PROVE ProgressInv'
  <2> SUFFICES ASSUME NEW q \in Instances, pc'[q] # "down", ~failed'[q]
               PROVE  Progress(q)'
    BY DEF ProgressInv
  <2>1. CASE q = p
    BY <1>1, <1>3, <2>1, OwnStep
  <2>2. CASE q # p
    BY <1>1, <1>3, <2>2, OneMoves, OthersStep DEF IInv, ProgressInv
  <2> QED BY <2>1, <2>2
<1> QED BY <1>2, <1>3 DEF Next
-------------------------------------------------------------------------------
(* The invariant holds before the first start.                             *)
LEMMA InitIInv == Init => IInv
<1> SUFFICES ASSUME Init PROVE IInv
  OBVIOUS
<1>1. TypeOK
  <2>1. 1 \in 1..(NumRoles + NumBindings + 1)
    BY HubAssumption
  <2>2. LeftBehind \subseteq Versions
    BY HubAssumption
  <2>3. rbac \in [Items -> Versions]
    BY <2>2 DEF Init
  <2> QED BY <2>1, <2>3 DEF Init, TypeOK, Versions
<1> QED BY <1>1 DEF Init, IInv, StartInv, Early, ProgressInv

(* And in every reachable state.                                           *)
LEMMA Inductive == Spec => []IInv
<1>1. IInv /\ [Next]_vars => IInv'
  BY TypeStep, StartStep, ProgressStep DEF IInv
<1> QED BY InitIInv, <1>1, PTL DEF Spec

(* The variables of BuildKubeSystemResources have their types for every    *)
(* number of controlplanes and objects; a hook at Get or Create is at an   *)
(* object of the lists.                                                    *)
THEOREM TypeCorrect == Spec => []TypeOK
<1>1. IInv => TypeOK
  BY DEF IInv
<1> QED BY Inductive, <1>1, PTL

(* A hook that ended without an error leaves everything installed, however *)
(* many controlplanes work on the same objects.                            *)
THEOREM NoErrorInstalls == Spec => []InstalledUnlessFailed
<1>1. IInv => InstalledUnlessFailed
  BY DEF IInv, TypeOK, ProgressInv, Progress, InstalledUnlessFailed, Installed
<1> QED BY Inductive, <1>1, PTL
-------------------------------------------------------------------------------
(* Bootstrap tokens: those made and those that running hooks will still    *)
(* make are at most as many as the starts.                                 *)

Waiting == {p \in Instances : pc[p] \in Early}
TokenInv == IsFiniteSet(Waiting) /\ tokens + Cardinality(Waiting) <= starts

(* A step of process p takes it into the hooks that wait for their token,  *)
(* out of them, or neither.                                                *)
LEMMA TokenStep == IInv /\ TokenInv /\ [Next]_vars => TokenInv'
<1> SUFFICES ASSUME IInv, TokenInv, [Next]_vars PROVE TokenInv'
  OBVIOUS
<1>0. /\ IsFiniteSet(Waiting) /\ Cardinality(Waiting) \in Nat
      /\ tokens \in Nat /\ starts \in Nat /\ tokens + Cardinality(Waiting) <= starts
  BY FS_CardinalityType DEF TokenInv, IInv, TypeOK
<1>1. CASE Waiting' = Waiting /\ UNCHANGED <<tokens, starts>>
  BY <1>0, <1>1 DEF TokenInv
<1>2. ASSUME NEW p \in Instances, Waiting' = Waiting \ {p}, UNCHANGED starts,
             tokens' = tokens \/ (p \in Waiting /\ tokens' = tokens + 1)
      PROVE  TokenInv'
  <2>1. /\ IsFiniteSet(Waiting')
        /\ Cardinality(Waiting') =
             IF p \in Waiting THEN Cardinality(Waiting) - 1 ELSE Cardinality(Waiting)
    BY <1>0, <1>2, FS_RemoveElement
  <2> QED BY <1>0, <1>2, <2>1 DEF TokenInv
<1>3. ASSUME NEW p \in Instances, InstallHubResource(p) PROVE TokenInv'
  <2>1. p \notin Waiting /\ Waiting' = Waiting \cup {p} /\ tokens' = tokens /\ starts' = starts + 1
    BY <1>3 DEF Waiting, Early, InstallHubResource, IInv, TypeOK, store
  <2>2. IsFiniteSet(Waiting') /\ Cardinality(Waiting') = Cardinality(Waiting) + 1
    BY <1>0, <2>1, FS_AddElement
  <2> QED BY <1>0, <2>1, <2>2 DEF TokenInv
<1>4. ASSUME NEW p \in Instances,
             \/ PrepareDefaultNamespace(p) \/ WaitForNamespace(p)
             \/ PrepareClusterInfoConfigmap(p) \/ CreateClusterInfoRBACRules(p)
      PROVE  TokenInv'
  <2>1. PICK next \in Early : Succeeds(p, next) \/ Fails(p, next)
    BY <1>4 DEF PrepareDefaultNamespace, WaitForNamespace, PrepareClusterInfoConfigmap,
         CreateClusterInfoRBACRules, Early
  <2>2. pc[p] \in Early /\ UNCHANGED <<tokens, starts>>
    BY <1>4 DEF PrepareDefaultNamespace, WaitForNamespace, PrepareClusterInfoConfigmap,
         CreateClusterInfoRBACRules, Early, store
  <2>3. Waiting' = Waiting
    BY <2>1, <2>2 DEF Waiting, Succeeds, Fails, IInv, TypeOK
  <2> QED BY <1>1, <2>2, <2>3
<1>5. ASSUME NEW p \in Instances, PrepareBootstrapTokenSecret(p) PROVE TokenInv'
  <2>1. /\ pc[p] = "token" /\ pc' = [pc EXCEPT ![p] = "get"]
        /\ UNCHANGED starts /\ (tokens' = tokens \/ tokens' = tokens + 1)
    BY <1>5 DEF PrepareBootstrapTokenSecret, Succeeds, Fails
  <2>2. p \in Waiting /\ Waiting' = Waiting \ {p}
    BY <2>1 DEF Waiting, Early, IInv, TypeOK
  <2> QED BY <1>2, <2>1, <2>2
<1>6. ASSUME NEW p \in Instances, GetItem(p) \/ PutItem(p) PROVE TokenInv'
  <2>1. item[p] \in Items
    BY <1>6 DEF IInv, TypeOK, GetItem, PutItem
  <2>2. PICK next \in {"get", "put", "done"} : pc' = [pc EXCEPT ![p] = next]
    BY <1>6, <2>1, ItemFacts DEF GetItem, PutItem, PutRefused, Succeeds, Fails, Refused
  <2>3. Waiting' = Waiting /\ UNCHANGED <<tokens, starts>>
    BY <1>6, <2>2 DEF Waiting, Early, GetItem, PutItem, IInv, TypeOK, store
  <2> QED BY <1>1, <2>3
<1>7. ASSUME NEW p \in Instances, Stop(p) PROVE TokenInv'
  <2>1. Waiting' = Waiting \ {p} /\ UNCHANGED <<tokens, starts>>
    BY <1>7 DEF Waiting, Early, Stop, IInv, TypeOK, store
  <2> QED BY <1>2, <1>7, <2>1
<1>8. CASE SystemNamespaces \/ UNCHANGED vars
  BY <1>1, <1>8 DEF Waiting, SystemNamespaces, vars, store
<1> QED BY <1>3, <1>4, <1>5, <1>6, <1>7, <1>8 DEF Next, Hook

(* However often calls fail with their effect done, and for any number of  *)
(* processes, prepareBootstrapTokenSecret makes no more tokens than there  *)
(* were starts.                                                            *)
THEOREM TokensBounded == Spec => []OneTokenPerStart
<1>1. Init => TokenInv
  <2> SUFFICES ASSUME Init PROVE TokenInv
    OBVIOUS
  <2>1. Waiting = {}
    BY DEF Init, Waiting, Early
  <2> QED BY <2>1, FS_EmptySet DEF TokenInv, Init
<1>2. IInv /\ TokenInv => OneTokenPerStart
  BY FS_CardinalityType DEF IInv, TypeOK, TokenInv, OneTokenPerStart
<1> QED BY <1>1, <1>2, TokenStep, Inductive, PTL DEF Spec
-------------------------------------------------------------------------------
(* Races between controlplanes.  The current items of a stage are its      *)
(* first ones; the first that is not current, if the server accepts its    *)
(* update, always has a process that will come to it: whoever wrote the    *)
(* one before it, or has not been there yet.  Without failing calls only a *)
(* race makes a process give up a stage, and then another is ahead of it.  *)

First(i) == IF i <= NumRoles THEN 1 ELSE NumRoles + 1
Before(j, i) == First(i) <= j /\ j < i

(* What a process has passed in its stage is current.                      *)
StageInv ==
  \A p \in Instances : pc[p] \in {"get", "put"} =>
    \A j \in Items : Before(j, item[p]) => rbac[j] = "current"

(* A process about to write has seen the item as it is, or another was     *)
(* faster.                                                                 *)
SeenInv ==
  \A p \in Instances : pc[p] = "put" =>
    seen[p] # "current" /\ rbac[item[p]] \in {seen[p], "current"}

(* The items of a list are current up to b.                                *)
UpTo(objects, b, lo, last) ==
  b \in lo..(last + 1) /\ \A i \in lo..last : objects[i] = "current" <=> i < b
PrefixInv ==
  /\ \E b \in Nat : UpTo(rbac, b, 1, NumRoles)
  /\ \E b \in Nat : UpTo(rbac, b, NumRoles + 1, NumRoles + NumBindings)

(* Item i is the next of its stage, and can be written.                    *)
Front(i) ==
  /\ rbac[i] \notin {"current", "oldref"}
  /\ \A j \in Items : Before(j, i) => rbac[j] = "current"

(* Process q will come to item i when that is the front of its stage.      *)
Comes(q, i) ==
  \/ pc[q] \in Early \cup {"down"}
  \/ pc[q] = "get" /\ item[q] <= i
  \/ pc[q] = "put" /\ (item[q] = i \/ item[q] < First(i))

FrontInv ==
  errors = 0 => \A i \in Items : Front(i) => \E q \in Instances : Comes(q, i)

(* Without failing calls the stages before the roles are done by whoever   *)
(* is past them, with or without a lost race later.                        *)
Base(p) ==
  /\ pc[p] # "default" => "default" \in namespaces
  /\ pc[p] \in {"inforbac", "system", "token", "get", "put", "done"} =>
       clusterInfo # Nobody
  /\ pc[p] \in {"system", "token", "get", "put", "done"} => infoRBAC
  /\ pc[p] \in {"get", "put", "done"} => tokens > 0
BaseInv == errors = 0 => \A p \in Instances : pc[p] # "down" => Base(p)

RInv == IInv /\ StageInv /\ SeenInv /\ PrefixInv /\ FrontInv /\ BaseInv

(* Errors are counted up, and a failed call is counted.                    *)
LEMMA ErrorsGrow ==
  ASSUME TypeOK, [Next]_vars
  PROVE  errors' = 0 => errors = 0
<1>1. errors' \in {errors, errors + 1}
  <2>1. CASE SystemNamespaces \/ UNCHANGED vars
    BY <2>1 DEF SystemNamespaces, vars
  <2>2. ASSUME NEW p \in Instances, InstallHubResource(p) \/ WaitForNamespace(p) \/ Stop(p)
        PROVE  errors' = errors
    BY <2>2 DEF InstallHubResource, WaitForNamespace, Stop, Succeeds
  <2>3. ASSUME NEW p \in Instances, GetItem(p) \/ PutItem(p)
        PROVE  errors' \in {errors, errors + 1}
    BY <2>3 DEF GetItem, PutItem, PutRefused, Refused, Succeeds, Fails
  <2>4. ASSUME NEW p \in Instances,
               \/ PrepareDefaultNamespace(p) \/ PrepareClusterInfoConfigmap(p)
               \/ CreateClusterInfoRBACRules(p) \/ PrepareBootstrapTokenSecret(p)
        PROVE  errors' \in {errors, errors + 1}
    BY <2>4 DEF PrepareDefaultNamespace, PrepareClusterInfoConfigmap,
         CreateClusterInfoRBACRules, PrepareBootstrapTokenSecret, Succeeds, Fails
  <2> QED BY <2>1, <2>2, <2>3, <2>4 DEF Next, Hook
<1> QED BY <1>1 DEF TypeOK

(* A call that fails does not leave the count at zero.                     *)
LEMMA FailsCounts ==
  ASSUME TypeOK, NEW p, NEW next, Fails(p, next)
  PROVE  errors' # 0
BY DEF TypeOK, Fails

(* The cluster roles and bindings change only in PutItem, which makes the  *)
(* one it is at current.                                                   *)
LEMMA Writes ==
  ASSUME TypeOK, [Next]_vars
  PROVE  \/ UNCHANGED rbac
         \/ \E p \in Instances :
              /\ PutItem(p) /\ Accepted(p) /\ item[p] \in Items
              /\ rbac' = [rbac EXCEPT ![item[p]] = "current"]
<1>1. ASSUME NEW p \in Instances, PutItem(p)
      PROVE  \/ UNCHANGED rbac
             \/ /\ Accepted(p) /\ item[p] \in Items
                /\ rbac' = [rbac EXCEPT ![item[p]] = "current"]
  BY <1>1 DEF TypeOK, PutItem
<1>2. ASSUME NEW p \in Instances, Hook(p) \/ Stop(p), ~PutItem(p) PROVE UNCHANGED rbac
  BY <1>2 DEF Hook, InstallHubResource, PrepareDefaultNamespace, WaitForNamespace,
       PrepareClusterInfoConfigmap, CreateClusterInfoRBACRules,
       PrepareBootstrapTokenSecret, GetItem, Stop, store
<1>3. CASE SystemNamespaces \/ UNCHANGED vars
  BY <1>3 DEF SystemNamespaces, vars, store
<1> QED BY <1>1, <1>2, <1>3 DEF Next

(* How GetItem and PutItem move their process.                             *)
LEMMA ItemSteps ==
  ASSUME TypeOK, NEW p \in Instances, GetItem(p) \/ PutItem(p)
  PROVE  /\ item[p] \in Items
         /\ \/ /\ pc[p] = "get" /\ pc'[p] = "put" /\ item'[p] = item[p]
               /\ seen'[p] = rbac[item[p]] /\ rbac[item[p]] # "current" /\ UNCHANGED rbac
            \/ /\ pc[p] \in {"get", "put"} /\ rbac'[item[p]] = "current"
               /\ item'[p] = item[p] + 1 /\ pc'[p] = PcAt(item[p] + 1)
            \/ /\ errors' # 0 \/ (pc[p] = "put" /\ ~Accepted(p))
               /\ item'[p] = NextStage(item[p]) /\ pc'[p] = PcAt(NextStage(item[p]))
<1>0. item[p] \in Items
  BY DEF TypeOK, GetItem, PutItem
<1>1. CASE GetItem(p)
  <2>1. CASE Fails(p, PcAt(NextStage(item[p]))) /\ Moves(p, NextStage(item[p]))
    BY <1>0, <1>1, <2>1, FailsCounts DEF TypeOK, Fails, Moves
  <2>2. CASE /\ UpToDate(rbac[item[p]])
             /\ Moves(p, NextItem(item[p])) /\ Succeeds(p, PcAt(NextItem(item[p])))
    BY <1>0, <1>1, <2>2 DEF TypeOK, GetItem, Succeeds, Moves, UpToDate, NextItem, store
  <2>3. CASE /\ ~UpToDate(rbac[item[p]]) /\ seen' = [seen EXCEPT ![p] = rbac[item[p]]]
             /\ UNCHANGED item /\ Succeeds(p, "put")
    BY <1>0, <1>1, <2>3 DEF TypeOK, GetItem, Succeeds, UpToDate, store
  <2> QED BY <1>1, <2>1, <2>2, <2>3 DEF GetItem
<1>2. CASE PutItem(p)
  <2>1. CASE Fails(p, PcAt(NextStage(item[p]))) /\ Moves(p, NextStage(item[p]))
    BY <1>0, <1>2, <2>1, FailsCounts DEF TypeOK, Fails, Moves
  <2>2. CASE /\ rbac' = [rbac EXCEPT ![item[p]] = "current"]
             /\ Moves(p, NextItem(item[p])) /\ Succeeds(p, PcAt(NextItem(item[p])))
    BY <1>0, <1>2, <2>2 DEF TypeOK, PutItem, Succeeds, Moves, NextItem
  <2>3. CASE ~Accepted(p) /\ PutRefused(p)
    BY <1>0, <1>2, <2>3 DEF TypeOK, PutItem, PutRefused, Refused, Moves
  <2> QED BY <1>2, <2>1, <2>2, <2>3 DEF PutItem
<1> QED BY <1>0, <1>1, <1>2

(* The arithmetic of the stages.                                           *)
LEMMA StageFacts ==
  /\ NumRoles \in Nat /\ NumBindings \in Nat
  /\ \A i \in Items : i \in Nat /\ First(i) \in Nat /\ First(i) <= i /\ First(i) >= 1
  /\ \A i \in Items :
       /\ NextStage(i) = IF i <= NumRoles THEN NumRoles + 1 ELSE NumRoles + NumBindings + 1
       /\ PcAt(i + 1) = IF i + 1 \in Items THEN "get" ELSE "done"
       /\ PcAt(NextStage(i)) = IF NextStage(i) \in Items THEN "get" ELSE "done"
BY HubAssumption DEF Items, Roles, First, NextStage, PcAt

(* What a process has passed stays current.                                *)
LEMMA StageStep == IInv /\ StageInv /\ [Next]_vars => StageInv'
<1> SUFFICES ASSUME IInv, StageInv, [Next]_vars, NEW q \in Instances,
                    pc'[q] \in {"get", "put"}, NEW j \in Items, Before(j, item'[q])
             PROVE  rbac'[j] = "current"
  BY DEF StageInv, Before, First
<1>1. rbac[j] = "current" => rbac'[j] = "current"
  BY Monotone DEF IInv
<1>2. CASE pc[q] \in {"get", "put"} /\ item'[q] = item[q]
  BY <1>1, <1>2 DEF StageInv
<1>3. ASSUME item'[q] = 1 PROVE FALSE
  BY <1>3, StageFacts DEF Before, First, Items
<1>4. ASSUME NEW p \in Instances, Hook(p) \/ Stop(p), q # p PROVE rbac'[j] = "current"
  BY <1>2, <1>4, OneMoves DEF IInv
<1>5. CASE SystemNamespaces \/ UNCHANGED vars
  BY <1>2, <1>5 DEF SystemNamespaces, vars
<1>6. CASE InstallHubResource(q) \/ Stop(q)
  BY <1>6 DEF InstallHubResource, Stop, IInv, TypeOK
<1>7. CASE \/ PrepareDefaultNamespace(q) \/ WaitForNamespace(q)
           \/ PrepareClusterInfoConfigmap(q) \/ CreateClusterInfoRBACRules(q)
           \/ PrepareBootstrapTokenSecret(q)
  BY <1>3, <1>7 DEF PrepareDefaultNamespace, WaitForNamespace, PrepareClusterInfoConfigmap,
       CreateClusterInfoRBACRules, PrepareBootstrapTokenSecret, IInv, StartInv, Early
<1>8. CASE GetItem(q) \/ PutItem(q)
  <2>1. item[q] \in Items /\ pc[q] \in {"get", "put"}
    BY <1>8, ItemSteps DEF IInv, GetItem, PutItem
  <2>2. CASE item'[q] = item[q] + 1 /\ rbac'[item[q]] = "current"
    <3>1. CASE j = item[q]
      BY <2>2, <3>1
    <3>2. CASE j # item[q]
      <4>1. Before(j, item[q])
        BY <2>1, <2>2, <3>2, StageFacts DEF Before, First, Items
      <4> QED BY <1>1, <2>1, <4>1 DEF StageInv
    <3> QED BY <3>1, <3>2
  <2>3. CASE item'[q] = NextStage(item[q]) /\ pc'[q] = PcAt(NextStage(item[q]))
    <3>1. item'[q] = NumRoles + 1
      BY <2>1, <2>3, StageFacts DEF Items
    <3> QED BY <3>1, StageFacts DEF Before, First, Items
  <2> QED BY <1>2, <1>8, <2>1, <2>2, <2>3, ItemSteps DEF IInv
<1> QED BY <1>4, <1>5, <1>6, <1>7, <1>8 DEF Next, Hook

(* What a process has seen is still so, or is current by now.              *)
LEMMA SeenStep == IInv /\ SeenInv /\ [Next]_vars => SeenInv'
<1> SUFFICES ASSUME IInv, SeenInv, [Next]_vars, NEW q \in Instances, pc'[q] = "put"
             PROVE  seen'[q] # "current" /\ rbac'[item'[q]] \in {seen'[q], "current"}
  BY DEF SeenInv
<1>0. TypeOK /\ TypeOK'
  BY TypeStep DEF IInv
<1>1. ASSUME NEW i \in Items PROVE rbac'[i] \in {rbac[i], "current"}
  BY <1>0, Writes DEF TypeOK
<1>2. CASE pc[q] = "put" /\ item'[q] = item[q] /\ seen'[q] = seen[q]
  <2>1. item[q] \in Items
    BY <1>0, <1>2 DEF TypeOK
  <2> QED BY <1>1, <1>2, <2>1 DEF SeenInv
<1>3. ASSUME NEW p \in Instances, Hook(p) \/ Stop(p), q # p
      PROVE  seen'[q] = seen[q]
  BY <1>0, <1>3 DEF TypeOK, Hook, InstallHubResource, PrepareDefaultNamespace,
       WaitForNamespace, PrepareClusterInfoConfigmap, CreateClusterInfoRBACRules,
       PrepareBootstrapTokenSecret, GetItem, PutItem, Stop
<1>4. CASE SystemNamespaces \/ UNCHANGED vars
  BY <1>2, <1>4 DEF SystemNamespaces, vars
<1>5. ASSUME Hook(q) \/ Stop(q), ~GetItem(q), ~PutItem(q) PROVE FALSE
  BY <1>0, <1>5 DEF TypeOK, Hook, InstallHubResource, PrepareDefaultNamespace,
       WaitForNamespace, PrepareClusterInfoConfigmap, CreateClusterInfoRBACRules,
       PrepareBootstrapTokenSecret, Stop, Succeeds, Fails
<1>6. CASE GetItem(q) \/ PutItem(q)
  BY <1>0, <1>6, ItemSteps, StageFacts
<1> QED BY <1>0, <1>2, <1>3, <1>4, <1>5, <1>6, OneMoves DEF Next

(* A write moves the end of the current items by one.                      *)
LEMMA UpToStep ==
  ASSUME TypeOK, StageInv, NEW p \in Instances, pc[p] = "put", item[p] \in Items,
         rbac' = [rbac EXCEPT ![item[p]] = "current"],
         NEW lo \in Nat, NEW last \in Nat, lo = First(item[p]), item[p] <= last,
         lo..last \subseteq Items,
         NEW b \in Nat, UpTo(rbac, b, lo, last)
  PROVE  \E c \in Nat : UpTo(rbac', c, lo, last)
<1> DEFINE k == item[p]
<1>0. k \in Nat /\ lo <= k /\ \A j \in Items : Before(j, k) => rbac[j] = "current"
  BY StageFacts DEF StageInv
<1>1. CASE k < b
  <2>1. UpTo(rbac', b, lo, last)
    BY <1>0, <1>1 DEF UpTo, TypeOK
  <2> QED BY <2>1
<1>2. CASE ~(k < b)
  <2>1. k = b
    <3> SUFFICES ASSUME k # b PROVE FALSE
      OBVIOUS
    <3>1. b \in lo..last /\ b < k
      BY <1>0, <1>2 DEF UpTo
    <3>2. rbac[b] = "current"
      BY <1>0, <3>1 DEF Before
    <3> QED BY <3>1, <3>2 DEF UpTo
  <2>2. b + 1 \in Nat /\ UpTo(rbac', b + 1, lo, last)
    <3>1. b + 1 \in lo..(last + 1)
      BY <1>0, <2>1
    <3>2. ASSUME NEW i \in lo..last PROVE rbac'[i] = "current" <=> i < b + 1
      <4>1. i \in Items /\ i \in Nat
        BY StageFacts
      <4>2. CASE i = b
        BY <2>1, <4>1, <4>2 DEF TypeOK
      <4>3. CASE i # b
        <5>1. rbac'[i] = rbac[i] /\ (i < b + 1 <=> i < b)
          BY <2>1, <4>1, <4>3 DEF TypeOK
        <5> QED BY <5>1 DEF UpTo
      <4> QED BY <4>2, <4>3
    <3> QED BY <3>1, <3>2 DEF UpTo
  <2> QED BY <2>2
<1> QED BY <1>1, <1>2

(* The current items of each stage stay its first ones.                    *)
LEMMA PrefixStep == IInv /\ StageInv /\ PrefixInv /\ [Next]_vars => PrefixInv'
<1> SUFFICES ASSUME IInv, StageInv, PrefixInv, [Next]_vars PROVE PrefixInv'
  OBVIOUS
<1>1. CASE UNCHANGED rbac
  BY <1>1 DEF PrefixInv, UpTo
<1>2. ASSUME NEW p \in Instances, PutItem(p), item[p] \in Items,
             rbac' = [rbac EXCEPT ![item[p]] = "current"]
      PROVE  PrefixInv'
  <2>1. PICK b1 \in Nat : UpTo(rbac, b1, 1, NumRoles)
    BY DEF PrefixInv
  <2>2. PICK b2 \in Nat : UpTo(rbac, b2, NumRoles + 1, NumRoles + NumBindings)
    BY DEF PrefixInv
  <2>3. pc[p] = "put" /\ TypeOK /\ NumRoles \in Nat /\ NumBindings \in Nat
    BY <1>2, StageFacts DEF PutItem, IInv
  <2>4. /\ 1..NumRoles \subseteq Items
        /\ (NumRoles + 1)..(NumRoles + NumBindings) \subseteq Items
    BY <2>3 DEF Items
  <2>5. \A lo, last, b \in Nat :
          /\ lo = First(item[p]) /\ item[p] <= last /\ lo..last \subseteq Items
          /\ UpTo(rbac, b, lo, last)
          => \E c \in Nat : UpTo(rbac', c, lo, last)
    BY <1>2, <2>3, UpToStep
  <2>6. CASE item[p] <= NumRoles
    <3>1. \E c \in Nat : UpTo(rbac', c, 1, NumRoles)
      <4>1. First(item[p]) = 1 /\ 1 \in Nat /\ NumRoles \in Nat
        BY <1>2, <2>3, <2>6 DEF First, Items
      <4> QED BY <2>5, <2>1, <2>4, <2>6, <4>1
    <3>2. UpTo(rbac', b2, NumRoles + 1, NumRoles + NumBindings)
      BY <1>2, <2>2, <2>3, <2>4, <2>6 DEF UpTo, TypeOK, Items
    <3> QED BY <3>1, <3>2 DEF PrefixInv
  <2>7. CASE ~(item[p] <= NumRoles)
    <3>1. \E c \in Nat : UpTo(rbac', c, NumRoles + 1, NumRoles + NumBindings)
      <4>1. /\ First(item[p]) = NumRoles + 1 /\ item[p] <= NumRoles + NumBindings
            /\ NumRoles + 1 \in Nat /\ NumRoles + NumBindings \in Nat
        BY <1>2, <2>3, <2>7 DEF First, Items
      <4> QED BY <2>5, <2>2, <2>4, <4>1
    <3>2. UpTo(rbac', b1, 1, NumRoles)
      BY <1>2, <2>1, <2>3, <2>4, <2>7 DEF UpTo, TypeOK, Items
    <3> QED BY <3>1, <3>2 DEF PrefixInv
  <2> QED BY <2>6, <2>7
<1> QED BY <1>1, <1>2, Writes DEF IInv

(* Who will come to the front of a stage still does after a step of its    *)
(* own, as long as that is the front.                                      *)
LEMMA ComesStep ==
  ASSUME IInv, SeenInv, [Next]_vars, NEW p \in Instances, Hook(p) \/ Stop(p), errors' = 0,
         NEW i \in Items, Front(i), Front(i)', Comes(p, i)
  PROVE  Comes(p, i)'
<1>0. TypeOK /\ i \in Nat /\ First(i) \in Nat /\ First(i) <= i /\ First(i) >= 1
  BY StageFacts DEF IInv
<1>1. CASE InstallHubResource(p) \/ Stop(p)
  BY <1>0, <1>1 DEF TypeOK, InstallHubResource, Stop, Comes, Early
<1>2. CASE PrepareDefaultNamespace(p) \/ WaitForNamespace(p)
           \/ PrepareClusterInfoConfigmap(p) \/ CreateClusterInfoRBACRules(p)
  BY <1>0, <1>2 DEF TypeOK, PrepareDefaultNamespace, WaitForNamespace,
       PrepareClusterInfoConfigmap, CreateClusterInfoRBACRules, Succeeds, Fails, Comes, Early
<1>3. CASE PrepareBootstrapTokenSecret(p)
  <2>1. pc'[p] = "get" /\ item'[p] = 1
    BY <1>0, <1>3 DEF TypeOK, IInv, StartInv, Early, PrepareBootstrapTokenSecret, Succeeds, Fails
  <2> QED BY <1>0, <2>1 DEF Comes
<1>4. CASE GetItem(p) \/ PutItem(p)
  <2> DEFINE k == item[p]
  <2>1. /\ k \in Items /\ k \in Nat
        /\ \/ pc[p] = "get" /\ k <= i
           \/ pc[p] = "put" /\ (k = i \/ k < First(i))
    BY <1>0, <1>4, ItemSteps, StageFacts DEF GetItem, PutItem, Comes, Early
  <2>2. rbac[i] # "current" /\ rbac'[i] # "current"
    BY DEF Front
  <2>3. CASE /\ pc[p] = "get" /\ pc'[p] = "put" /\ item'[p] = k
             /\ rbac[k] # "current"
    <3>1. k = i \/ k < First(i)
      BY <1>0, <2>1, <2>3 DEF Front, Before
    <3> QED BY <2>3, <3>1 DEF Comes
  <2>4. CASE /\ rbac'[k] = "current" /\ item'[p] = k + 1 /\ pc'[p] = PcAt(k + 1)
    <3>1. k < i
      BY <1>0, <2>1, <2>2, <2>4
    <3>2. k + 1 \in Items
      BY <2>1, <3>1, StageFacts DEF Items
    <3> QED BY <1>0, <2>1, <2>4, <3>1, <3>2, StageFacts DEF Comes
  <2>5. CASE /\ pc[p] = "put" /\ ~Accepted(p)
             /\ item'[p] = NextStage(k) /\ pc'[p] = PcAt(NextStage(k))
    <3>1. k # i
      <4> SUFFICES ASSUME k = i PROVE FALSE
        OBVIOUS
      <4>1. rbac[i] = seen[p] /\ rbac[i] \notin {"current", "oldref"}
        BY <2>2, <2>5 DEF SeenInv, Front
      <4> QED BY <2>5, <4>1 DEF Accepted
    <3>2. k < First(i)
      BY <2>1, <2>5, <3>1
    <3>3. NextStage(k) = NumRoles + 1 /\ NumRoles + 1 <= i
      BY <1>0, <2>1, <3>2, StageFacts DEF First, Items
    <3>4. NumRoles + 1 \in Items
      BY <3>3, StageFacts DEF Items
    <3> QED BY <2>1, <2>5, <3>3, <3>4, StageFacts DEF Comes
  <2> QED BY <1>0, <1>4, <2>3, <2>4, <2>5, ItemSteps
<1> QED BY <1>1, <1>2, <1>3, <1>4 DEF Hook

(* An item that becomes the front of its stage does so because a process   *)
(* wrote the one before it, and that process comes to it next.             *)
LEMMA NewFront ==
  ASSUME IInv, PrefixInv, [Next]_vars, errors' = 0,
         NEW i \in Items, ~Front(i), Front(i)'
  PROVE  \E q \in Instances : Comes(q, i)'
<1>1. PICK p \in Instances :
        /\ PutItem(p) /\ Accepted(p) /\ item[p] \in Items
        /\ rbac' = [rbac EXCEPT ![item[p]] = "current"]
  BY Writes DEF IInv, Front
<1> DEFINE k == item[p]
<1>2. /\ TypeOK /\ i \in Nat /\ k \in Nat /\ First(i) \in Nat /\ First(i) <= i
      /\ NumRoles \in Nat /\ NumBindings \in Nat
  BY <1>1, StageFacts DEF IInv
<1>3. Before(k, i) /\ rbac[k] # "current"
  BY <1>1, <1>2 DEF Front, TypeOK
<1>4. k + 1 = i
  <2> SUFFICES ASSUME k + 1 # i PROVE FALSE
    OBVIOUS
  <2>1. i - 1 \in Items /\ Before(i - 1, i) /\ k < i - 1
    BY <1>2, <1>3, StageFacts DEF Before, First, Items
  <2>2. rbac[i - 1] = "current"
    BY <1>1, <1>2, <2>1 DEF Front, TypeOK
  <2>3. CASE i <= NumRoles
    <3>1. PICK b \in Nat : UpTo(rbac, b, 1, NumRoles)
      BY DEF PrefixInv
    <3>2. i - 1 \in 1..NumRoles /\ k \in 1..NumRoles
      BY <1>1, <1>2, <2>1, <2>3 DEF Items
    <3> QED BY <1>2, <1>3, <2>1, <2>2, <3>1, <3>2 DEF UpTo
  <2>4. CASE ~(i <= NumRoles)
    <3>1. PICK b \in Nat : UpTo(rbac, b, NumRoles + 1, NumRoles + NumBindings)
      BY DEF PrefixInv
    <3>2. /\ i - 1 \in (NumRoles + 1)..(NumRoles + NumBindings)
          /\ k \in (NumRoles + 1)..(NumRoles + NumBindings)
      BY <1>1, <1>2, <1>3, <2>1, <2>4 DEF Items, Before, First
    <3> QED BY <1>2, <1>3, <2>1, <2>2, <3>1, <3>2 DEF UpTo
  <2> QED BY <2>3, <2>4
<1>5. pc'[p] = "get" /\ item'[p] = i
  <2>1. CASE item'[p] = k + 1 /\ pc'[p] = PcAt(k + 1)
    BY <1>1, <1>4, <2>1, StageFacts
  <2> QED BY <1>1, <1>2, <2>1, ItemSteps DEF PutItem
<1> QED BY <1>2, <1>5 DEF Comes

(* The front of a stage always has somebody who comes to it.               *)
LEMMA FrontStep == IInv /\ SeenInv /\ PrefixInv /\ FrontInv /\ [Next]_vars => FrontInv'
<1> SUFFICES ASSUME IInv, SeenInv, PrefixInv, FrontInv, [Next]_vars, errors' = 0,
                    NEW i \in Items, Front(i)'
             PROVE  \E q \in Instances : Comes(q, i)'
  BY DEF FrontInv
<1>1. CASE ~Front(i)
  BY <1>1, NewFront
<1>2. CASE Front(i)
  <2>1. PICK q \in Instances : Comes(q, i)
    BY <1>2, ErrorsGrow DEF FrontInv, IInv
  <2>2. ASSUME pc'[q] = pc[q], item'[q] = item[q] PROVE Comes(q, i)'
    BY <2>1, <2>2 DEF Comes
  <2>3. CASE SystemNamespaces \/ UNCHANGED vars
    BY <2>2, <2>3 DEF SystemNamespaces, vars
  <2>4. ASSUME NEW p \in Instances, Hook(p) \/ Stop(p) PROVE Comes(q, i)'
    <3>1. CASE p = q
      BY <1>2, <2>1, <2>4, <3>1, ComesStep
    <3>2. CASE p # q
      BY <2>2, <2>4, <3>2, OneMoves DEF IInv
    <3> QED BY <3>1, <3>2
  <2> QED BY <2>3, <2>4 DEF Next
<1> QED BY <1>1, <1>2

(* The stages before the roles, for a process and a step of its own.       *)
LEMMA OwnBase ==
  ASSUME IInv, [Next]_vars, NEW p \in Instances, Hook(p) \/ Stop(p), errors' = 0,
         pc[p] # "down" => Base(p), pc'[p] # "down"
  PROVE  Base(p)'
<1> USE HubAssumption
<1>0. TypeOK
  BY DEF IInv
<1>1. CASE InstallHubResource(p) \/ Stop(p)
  BY <1>0, <1>1 DEF TypeOK, InstallHubResource, Stop, Base
<1>2. CASE PrepareDefaultNamespace(p)
  BY <1>0, <1>2, FailsCounts DEF TypeOK, PrepareDefaultNamespace, Base, Succeeds
<1>3. CASE WaitForNamespace(p)
  BY <1>0, <1>3 DEF TypeOK, WaitForNamespace, Base, Succeeds, store
<1>4. CASE PrepareClusterInfoConfigmap(p)
  BY <1>0, <1>4, FailsCounts DEF TypeOK, PrepareClusterInfoConfigmap, Base, Succeeds
<1>5. CASE CreateClusterInfoRBACRules(p)
  BY <1>0, <1>5, FailsCounts DEF TypeOK, CreateClusterInfoRBACRules, Base, Succeeds
<1>6. CASE PrepareBootstrapTokenSecret(p)
  BY <1>0, <1>6, FailsCounts DEF TypeOK, PrepareBootstrapTokenSecret, Base, Succeeds
<1>7. CASE GetItem(p) \/ PutItem(p)
  <2>1. pc[p] \in {"get", "put"} /\ UNCHANGED <<namespaces, clusterInfo, infoRBAC, tokens>>
    BY <1>7 DEF GetItem, PutItem, store
  <2> QED BY <2>1 DEF Base
<1> QED BY <1>1, <1>2, <1>3, <1>4, <1>5, <1>6, <1>7 DEF Hook

(* The stages before the roles stay done.                                  *)
LEMMA BaseStep == IInv /\ BaseInv /\ [Next]_vars => BaseInv'
<1> SUFFICES ASSUME IInv, BaseInv, [Next]_vars, errors' = 0, NEW q \in Instances,
                    pc'[q] # "down"
             PROVE  Base(q)'
  BY DEF BaseInv
<1>0. TypeOK /\ TypeOK' /\ errors = 0
  BY TypeStep, ErrorsGrow DEF IInv
<1>1. ASSUME pc'[q] = pc[q] PROVE Base(q)'
  BY <1>0, <1>1, Monotone DEF BaseInv, Base, TypeOK
<1>2. CASE SystemNamespaces \/ UNCHANGED vars
  BY <1>1, <1>2 DEF SystemNamespaces, vars
<1>3. ASSUME NEW p \in Instances, Hook(p) \/ Stop(p) PROVE Base(q)'
  <2>1. CASE p = q
    BY <1>0, <1>3, <2>1, OwnBase DEF BaseInv
  <2>2. CASE p # q
    BY <1>0, <1>1, <1>3, <2>2, OneMoves
  <2> QED BY <2>1, <2>2
<1> QED BY <1>2, <1>3 DEF Next

(* At first no item is current and every process is still to come.         *)
LEMMA InitRInv == Init => RInv
<1> SUFFICES ASSUME Init PROVE RInv
  OBVIOUS
<1>1. StageInv /\ SeenInv /\ BaseInv
  BY DEF Init, StageInv, SeenInv, BaseInv
<1>2. PrefixInv
  <2>1. \A i \in Items : rbac[i] # "current"
    BY HubAssumption DEF Init
  <2>2. UpTo(rbac, 1, 1, NumRoles)
    BY <2>1, StageFacts DEF UpTo, Items
  <2>3. UpTo(rbac, NumRoles + 1, NumRoles + 1, NumRoles + NumBindings)
    BY <2>1, StageFacts DEF UpTo, Items
  <2>4. 1 \in Nat /\ NumRoles + 1 \in Nat
    BY StageFacts
  <2> QED BY <2>2, <2>3, <2>4 DEF PrefixInv
<1>3. FrontInv
  <2>1. PICK q \in Instances : TRUE
    BY HubAssumption
  <2>2. pc[q] = "down"
    BY DEF Init
  <2> QED BY <2>2 DEF FrontInv, Comes
<1> QED BY <1>1, <1>2, <1>3, InitIInv DEF RInv

(* A binding list or role list that nobody works on any more is current up *)
(* to an item whose role reference cannot be updated.                      *)
LEMMA NothingLeft ==
  ASSUME RInv, errors = 0, \A p \in Instances : pc[p] = "done", NEW i \in Items
  PROVE  rbac[i] = "current" \/ \E j \in Items : j <= i /\ rbac[j] = "oldref"
<1>0. NumRoles \in Nat /\ NumBindings \in Nat /\ i \in Nat
  BY StageFacts
<1>1. \A j \in Items : ~Front(j)
  BY DEF RInv, FrontInv, Comes, Early
<1>2. ASSUME NEW lo \in Nat, NEW last \in Nat, i \in lo..last, lo..last \subseteq Items,
             \A j \in lo..last : First(j) = lo,
             NEW b \in Nat, UpTo(rbac, b, lo, last)
      PROVE  rbac[i] = "current" \/ \E j \in Items : j <= i /\ rbac[j] = "oldref"
  <2>1. CASE i < b
    BY <1>2, <2>1 DEF UpTo
  <2>2. CASE ~(i < b)
    <3>1. b \in lo..last /\ b \in Items /\ b <= i
      BY <1>0, <1>2, <2>2 DEF UpTo
    <3>2. rbac[b] # "current"
      BY <1>2, <3>1 DEF UpTo
    <3>3. \A j \in Items : Before(j, b) => rbac[j] = "current"
      <4> SUFFICES ASSUME NEW j \in Items, Before(j, b) PROVE rbac[j] = "current"
        OBVIOUS
      <4>1. j \in lo..last /\ j < b
        BY <1>2, <3>1, StageFacts DEF Before
      <4> QED BY <1>2, <4>1 DEF UpTo
    <3> QED BY <1>1, <3>1, <3>2, <3>3 DEF Front
  <2> QED BY <2>1, <2>2
<1>3. CASE i <= NumRoles
  <2>1. PICK b \in Nat : UpTo(rbac, b, 1, NumRoles)
    BY DEF RInv, PrefixInv
  <2>2. /\ 1 \in Nat /\ i \in 1..NumRoles /\ 1..NumRoles \subseteq Items
        /\ \A j \in 1..NumRoles : First(j) = 1
    BY <1>0, <1>3 DEF First, Items
  <2> QED BY <1>0, <1>2, <2>1, <2>2
<1>4. CASE ~(i <= NumRoles)
  <2>1. PICK b \in Nat : UpTo(rbac, b, NumRoles + 1, NumRoles + NumBindings)
    BY DEF RInv, PrefixInv
  <2>2. /\ NumRoles + 1 \in Nat /\ NumRoles + NumBindings \in Nat
        /\ i \in (NumRoles + 1)..(NumRoles + NumBindings)
        /\ (NumRoles + 1)..(NumRoles + NumBindings) \subseteq Items
        /\ \A j \in (NumRoles + 1)..(NumRoles + NumBindings) : First(j) = NumRoles + 1
    BY <1>0, <1>4 DEF First, Items
  <2> QED BY <1>2, <2>1, <2>2
<1> QED BY <1>3, <1>4

(* Whatever races the controlplanes lose, and however often they are       *)
(* restarted: when all of them have finished without a failed call, every  *)
(* role and binding is current, except from a binding on whose role        *)
(* reference is an old one.                                                *)
THEOREM LosersAreCovered == Spec => []RacesLeaveNothingOut
<1>1. RInv /\ [Next]_vars => RInv'
  <2>1. IInv /\ [Next]_vars => IInv'
    BY TypeStep, StartStep, ProgressStep DEF IInv
  <2> QED BY <2>1, StageStep, SeenStep, PrefixStep, FrontStep, BaseStep DEF RInv
<1>2. ASSUME RInv PROVE RacesLeaveNothingOut
  <2> SUFFICES ASSUME errors = 0, \A p \in Instances : pc[p] = "done"
               PROVE  /\ "default" \in namespaces /\ clusterInfo # Nobody
                      /\ infoRBAC /\ tokens > 0
                      /\ \A i \in Items : \/ rbac[i] = "current"
                                          \/ \E j \in Items : j <= i /\ rbac[j] = "oldref"
    BY DEF RacesLeaveNothingOut
  <2>1. PICK p \in Instances : pc[p] = "done"
    BY HubAssumption
  <2>2. Base(p)
    BY <1>2, <2>1 DEF RInv, BaseInv
  <2>3. "default" \in namespaces /\ clusterInfo # Nobody /\ infoRBAC /\ tokens > 0
    BY <2>1, <2>2 DEF Base
  <2> QED BY <1>2, <2>3, NothingLeft
<1> QED BY InitRInv, <1>1, <1>2, PTL DEF Spec
===============================================================================
