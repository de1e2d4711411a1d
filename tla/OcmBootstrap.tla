----------------------------- MODULE OcmBootstrap -----------------------------
(***************************************************************************)
(* The post-start hooks that bring up the hub (pkg/controllers/            *)
(* ocmcontroller, pkg/controllers/bootstrap/crds.go).  Each start runs,    *)
(* side by side:                                                           *)
(*   - InstallCRD, which applies the CRDs until all are established;       *)
(*   - InstallControllers, which waits for the CRDs and then runs the hub  *)
(*     controllers;                                                        *)
(*   - InstallSelfManagementCluster, which registers the hosting cluster   *)
(*     as a managed cluster of its own, waits until the hub accepts it and *)
(*     runs the agent.                                                     *)
(* The last one ends the process (klog.Fatal) on most errors; the          *)
(* supervisor starts it again.  The store survives, and controlplanes with *)
(* an external etcd share it.                                              *)
(***************************************************************************)
EXTENDS Naturals, FiniteSets, Sequences

CONSTANTS
  Instances,          \* the controlplane processes that share the store
  CRDs,
  baseCRDs, ocmCRDs,  \* the CRDs in the order they are applied and awaited
  ManagedClusterCRD,
  Names,              \* names a self-managed cluster may get
  StableName,         \* the ID of the hosting cluster or its kube-system namespace
  EnableSelfManagement,   \* the option is set and the process runs in a cluster
  MaxErrors,          \* bound: calls that fail
  MaxStops            \* bound: stops and crashes from outside

ASSUME BootstrapAssumption ==
  /\ baseCRDs \in Seq(CRDs) /\ {baseCRDs[i] : i \in 1..Len(baseCRDs)} = CRDs
  /\ ocmCRDs \in Seq(CRDs) /\ {ocmCRDs[i] : i \in 1..Len(ocmCRDs)} = CRDs
  /\ ManagedClusterCRD \in CRDs /\ StableName \in Names
  /\ IsFiniteSet(Instances) /\ IsFiniteSet(Names)
  /\ EnableSelfManagement \in BOOLEAN
  /\ MaxErrors \in Nat /\ MaxStops \in Nat

(* InstallSelfManagementCluster returns at once when it is not enabled.    *)
SelfStart == IF EnableSelfManagement THEN "name" ELSE "off"

VARIABLES
  \* in the store
  crd,          \* the CRDs: absent, created, established
  namespaces,   \* the namespaces of managed clusters
  cluster,      \* the ManagedClusters: absent, created, accepted
  \* in each process
  up,           \* down, up, or stopping: its context is cancelled
  crdAt,        \* the CRD InstallBaseCRDs applies next, past the end when done
  waitAt,       \* the CRD WaitFOROCMCRDsReady looks at next
  controllers,  \* the hub controllers run
  self,         \* the next call of the self-management hook
  name,         \* the name it uses
  \* around them
  errors, stops,
  \* history
  fatals,       \* times a process ended itself
  misnamed      \* the name was made up because the hosting cluster failed to answer

store == <<crd, namespaces, cluster>>
process == <<up, crdAt, waitAt, controllers, self, name>>
vars == <<store, process, errors, stops, fatals, misnamed>>

Init ==
  /\ crd = [c \in CRDs |-> "absent"]
  /\ namespaces = {} /\ cluster = [n \in Names |-> "absent"]
  /\ up = [p \in Instances |-> "down"]
  /\ crdAt = [p \in Instances |-> 1] /\ waitAt = [p \in Instances |-> 1]
  /\ controllers = [p \in Instances |-> FALSE]
  /\ self = [p \in Instances |-> SelfStart] /\ name = [p \in Instances |-> StableName]
  /\ errors = 0 /\ stops = 0 /\ fatals = 0 /\ misnamed = FALSE

(* An API call fails.                                                      *)
Fails == errors < MaxErrors /\ errors' = errors + 1

(* The process ends and forgets where its hooks were.                      *)
Exits(p) ==
  /\ up' = [up EXCEPT ![p] = "down"]
  /\ crdAt' = [crdAt EXCEPT ![p] = 1] /\ waitAt' = [waitAt EXCEPT ![p] = 1]
  /\ controllers' = [controllers EXCEPT ![p] = FALSE]
  /\ self' = [self EXCEPT ![p] = SelfStart] /\ name' = [name EXCEPT ![p] = StableName]

Fatal(p) == Exits(p) /\ fatals' = fatals + 1

(* The supervisor starts the process and its hooks begin.                  *)
NewServer(p) ==
  /\ up[p] = "down"
  /\ up' = [up EXCEPT ![p] = "up"]
  /\ UNCHANGED <<store, crdAt, waitAt, controllers, self, name, errors, stops, fatals,
                 misnamed>>
-------------------------------------------------------------------------------
(* Mutant of NextToApply: a CRD that is not established ends the hook.     *)
NextToApplyGivesUp(p, c) ==
  IF crd[c] = "established" THEN crdAt[p] + 1 ELSE Len(baseCRDs) + 1

NextToApply(p, c) == IF crd[c] = "established" THEN crdAt[p] + 1 ELSE 1

(* InstallBaseCRDs, one ApplyCustomResourceDefinitionV1 per step.  A CRD   *)
(* that is not established, or an error, ends the poll: it begins anew.    *)
InstallBaseCRDs(p) ==
  /\ up[p] = "up" /\ crdAt[p] <= Len(baseCRDs)
  /\ LET c == baseCRDs[crdAt[p]]
         applied == [crd EXCEPT ![c] = IF @ = "absent" THEN "created" ELSE @]
     IN  \/ /\ crd' = applied
            /\ crdAt' = [crdAt EXCEPT ![p] = NextToApply(p, c)]
            /\ UNCHANGED errors
         \/ /\ crd' \in {crd, applied} /\ Fails
            /\ crdAt' = [crdAt EXCEPT ![p] = 1]
  /\ UNCHANGED <<namespaces, cluster, up, waitAt, controllers, self, name, stops,
                 fatals, misnamed>>

(* Mutant of NextToAwait: a CRD that is not established is passed over.    *)
NextToAwaitAnyway(p, c) == IF crd[c] = "absent" THEN 1 ELSE waitAt[p] + 1

(* Mutant of NextToAwait: the next poll begins before the first CRD.       *)
NextToAwaitFromZero(p, c) == IF crd[c] = "established" THEN waitAt[p] + 1 ELSE 0

NextToAwait(p, c) == IF crd[c] = "established" THEN waitAt[p] + 1 ELSE 1

(* WaitFOROCMCRDsReady, one Get per step, then runControllers.             *)
WaitFOROCMCRDsReady(p) ==
  /\ up[p] = "up" /\ waitAt[p] <= Len(ocmCRDs)
  /\ \/ /\ waitAt' = [waitAt EXCEPT ![p] = NextToAwait(p, ocmCRDs[waitAt[p]])]
        /\ UNCHANGED errors
     \/ waitAt' = [waitAt EXCEPT ![p] = 1] /\ Fails
  /\ UNCHANGED <<store, up, crdAt, controllers, self, name, stops, fatals, misnamed>>

(* A cancelled wait returns false; the result only decides about a log     *)
(* line, so the controllers are started then too, with a dead context.     *)
RunControllers(p) ==
  /\ ~controllers[p]
  /\ \/ up[p] = "up" /\ waitAt[p] > Len(ocmCRDs)
     \/ up[p] = "stopping"
  /\ controllers' = [controllers EXCEPT ![p] = TRUE]
  /\ UNCHANGED <<store, up, crdAt, waitAt, self, name, errors, stops, fatals, misnamed>>
-------------------------------------------------------------------------------
(* InstallSelfManagementCluster.                                           *)

Selves(p, next) == self' = [self EXCEPT ![p] = next]

(* Mutant of SelfName: every start makes a name up.                        *)
SelfNameMadeUp(n) == cluster[n] = "absent" /\ n \notin namespaces

(* GenerateSelfManagedClusterName, when the hosting cluster answers.       *)
SelfName(n) == n = StableName

(* Without an answer for the kube-system namespace the name is a new UUID. *)
(* Without an answer for the cluster version the hook fails, which ends    *)
(* the process.                                                            *)
GenerateSelfManagedClusterName(p) ==
  /\ up[p] = "up" /\ self[p] = "name"
  /\ \/ /\ \E n \in Names : SelfName(n) /\ name' = [name EXCEPT ![p] = n]
        /\ Selves(p, "getns")
        /\ UNCHANGED <<up, crdAt, waitAt, controllers, errors, fatals, misnamed>>
     \/ /\ Fails
        /\ \E n \in Names \ ({StableName} \cup namespaces) : name' = [name EXCEPT ![p] = n]
        /\ misnamed' = TRUE
        /\ Selves(p, "getns")
        /\ UNCHANGED <<up, crdAt, waitAt, controllers, fatals>>
     \/ Fails /\ Fatal(p) /\ UNCHANGED misnamed
  /\ UNCHANGED <<store, stops>>

(* An answer is used, an error is fatal.                                   *)
SelfCall(p, next, made) ==
  \/ /\ Selves(p, next) /\ UNCHANGED <<up, crdAt, waitAt, controllers, name, errors, fatals>>
     /\ made
  \/ Fails /\ Fatal(p) /\ (made \/ UNCHANGED store)

(* createNamespace.                                                        *)
GetNamespace(p) ==
  /\ up[p] = "up" /\ self[p] = "getns"
  /\ SelfCall(p, IF name[p] \in namespaces THEN "getcluster" ELSE "putns", UNCHANGED store)
  /\ UNCHANGED <<stops, misnamed>>

CreateNamespace(p) ==
  /\ up[p] = "up" /\ self[p] = "putns"
  /\ \/ /\ name[p] \notin namespaces
        /\ SelfCall(p, "getcluster",
                    namespaces' = namespaces \cup {name[p]} /\ UNCHANGED <<crd, cluster>>)
     \/ name[p] \in namespaces /\ Fatal(p) /\ UNCHANGED <<store, errors>>
  /\ UNCHANGED <<stops, misnamed>>

(* The ManagedCluster API answers "not found" until its CRD is established. *)
Served == crd[ManagedClusterCRD] = "established"

(* Mutant of AfterGet: a cluster that is there is taken as accepted.       *)
AfterGetIfThere(p) ==
  IF ~Served \/ cluster[name[p]] = "absent" THEN "putcluster" ELSE "agent"

AfterGet(p) ==
  IF ~Served \/ cluster[name[p]] = "absent" THEN "putcluster"
  ELSE IF cluster[name[p]] = "accepted" THEN "agent" ELSE "getcluster"

(* waitForSelfManagedCluster polls: Get, Create if it is not found.        *)
GetSelfCluster(p) ==
  /\ up[p] = "up" /\ self[p] = "getcluster"
  /\ SelfCall(p, AfterGet(p), UNCHANGED store)
  /\ UNCHANGED <<stops, misnamed>>

(* Mutant of CreateNotFound: the error that the API is not there yet is    *)
(* not told from others.                                                   *)
CreateNotFoundIsFatal(p) == Fatal(p) /\ UNCHANGED <<store, errors>>

CreateNotFound(p) == SelfCall(p, "getcluster", UNCHANGED store)

CreateSelfCluster(p) ==
  /\ up[p] = "up" /\ self[p] = "putcluster"
  /\ \/ ~Served /\ CreateNotFound(p)
     \/ /\ Served /\ cluster[name[p]] = "absent"
        /\ SelfCall(p, "getcluster",
                    /\ cluster' = [cluster EXCEPT ![name[p]] = "created"]
                    /\ UNCHANGED <<crd, namespaces>>)
     \/ Served /\ cluster[name[p]] # "absent" /\ Fatal(p) /\ UNCHANGED <<store, errors>>
  /\ UNCHANGED <<stops, misnamed>>
-------------------------------------------------------------------------------
(* The environment.                                                        *)

(* The API server's CRD controller.                                        *)
Establish(c) ==
  /\ crd[c] = "created" /\ \E p \in Instances : up[p] = "up"
  /\ crd' = [crd EXCEPT ![c] = "established"]
  /\ UNCHANGED <<namespaces, cluster, process, errors, stops, fatals, misnamed>>

(* The registration controller, one of the hub controllers.                *)
AcceptCluster(n) ==
  /\ cluster[n] = "created" /\ \E p \in Instances : up[p] = "up" /\ controllers[p]
  /\ cluster' = [cluster EXCEPT ![n] = "accepted"]
  /\ UNCHANGED <<crd, namespaces, process, errors, stops, fatals, misnamed>>

Crash(p) ==
  /\ up[p] # "down" /\ stops < MaxStops /\ stops' = stops + 1
  /\ Exits(p)
  /\ UNCHANGED <<store, errors, fatals, misnamed>>

(* A signal cancels the context of all hooks.                              *)
Signal(p) ==
  /\ up[p] = "up" /\ stops < MaxStops /\ stops' = stops + 1
  /\ up' = [up EXCEPT ![p] = "stopping"]
  /\ UNCHANGED <<store, crdAt, waitAt, controllers, self, name, errors, fatals, misnamed>>

(* The hooks return.  The self-management hook takes the end of its        *)
(* context for a failure unless it is off or the agent runs already; the   *)
(* process may be gone before it gets to that.                             *)
Shutdown(p) ==
  /\ up[p] = "stopping"
  /\ \/ Exits(p) /\ UNCHANGED fatals
     \/ self[p] \notin {"off", "agent"} /\ Fatal(p)
  /\ UNCHANGED <<store, errors, stops, misnamed>>

SelfManagement(p) ==
  \/ GenerateSelfManagedClusterName(p) \/ GetNamespace(p) \/ CreateNamespace(p)
  \/ GetSelfCluster(p) \/ CreateSelfCluster(p)

Hooks(p) ==
  \/ NewServer(p) \/ InstallBaseCRDs(p) \/ WaitFOROCMCRDsReady(p) \/ RunControllers(p)
  \/ SelfManagement(p) \/ Shutdown(p)

Next ==
  \/ \E p \in Instances : Hooks(p) \/ Crash(p) \/ Signal(p)
  \/ \E c \in CRDs : Establish(c)
  \/ \E n \in Names : AcceptCluster(n)

Spec == Init /\ [][Next]_vars

(* Each hook is a thread of its own, the supervisor restarts a process     *)
(* that ended, and the controllers of the API server and the hub run.      *)
FairSpec ==
  /\ Spec
  /\ \A p \in Instances :
       /\ WF_vars(NewServer(p) \/ Shutdown(p))
       /\ WF_vars(InstallBaseCRDs(p))
       /\ WF_vars(WaitFOROCMCRDsReady(p) \/ RunControllers(p))
       /\ WF_vars(SelfManagement(p))
  /\ WF_vars(\E c \in CRDs : Establish(c))
  /\ WF_vars(\E n \in Names : AcceptCluster(n))
-------------------------------------------------------------------------------
(* The values of the variables.                                            *)
TypeOK ==
  /\ crd \in [CRDs -> {"absent", "created", "established"}]
  /\ namespaces \subseteq Names
  /\ cluster \in [Names -> {"absent", "created", "accepted"}]
  /\ up \in [Instances -> {"down", "up", "stopping"}]
  /\ crdAt \in [Instances -> 1..(Len(baseCRDs) + 1)]
  /\ waitAt \in [Instances -> 1..(Len(ocmCRDs) + 1)]
  /\ controllers \in [Instances -> BOOLEAN]
  /\ self \in [Instances -> {"off", "name", "getns", "putns", "getcluster",
                             "putcluster", "agent"}]
  /\ name \in [Instances -> Names]
  /\ errors \in Nat /\ stops \in Nat /\ fatals \in Nat /\ misnamed \in BOOLEAN

Ready == \A c \in CRDs : crd[c] = "established"

(* The hub controllers of a process that is not going down run only when   *)
(* every CRD is established, although the wait looks at them one by one    *)
(* while other threads and processes work on them.                         *)
ControllersAfterCRDs ==
  \A p \in Instances : (up[p] = "up" /\ controllers[p]) => Ready

(* The agent runs only for a cluster that the hub controllers accepted,    *)
(* whose namespace is there, on a hub whose CRDs are all established,      *)
(* whoever created the cluster and whenever its creator died.              *)
AgentAfterAcceptance ==
  \A p \in Instances : self[p] = "agent" =>
    Ready /\ cluster[name[p]] = "accepted" /\ name[p] \in namespaces

(* The hosting cluster is registered once, over all restarts and           *)
(* controlplanes, unless it failed to answer for its identity.             *)
OneSelfCluster ==
  ~misnamed => Cardinality({n \in Names : cluster[n] # "absent"} \cup namespaces) <= 1

(* Every exit by klog.Fatal has a cause of its own: a failed call, a       *)
(* signal, or a Create that another controlplane got ahead of, which       *)
(* happens to each of the others once per object.  In particular a CRD     *)
(* that is not there yet ends no process.                                  *)
FatalsHaveCauses ==
  LET created == {n \in Names : cluster[n] # "absent"}
  IN  fatals <= errors + stops
        + (Cardinality(Instances) - 1) * (Cardinality(created) + Cardinality(namespaces))

(* Once calls stop failing and nobody stops it any more, every             *)
(* controlplane has its CRDs, runs the hub controllers and its agent.      *)
EventuallyManaged ==
  <>[](\A p \in Instances :
         /\ up[p] = "up" /\ controllers[p] /\ self[p] \in {"off", "agent"}
         /\ crdAt[p] > Len(baseCRDs))
===============================================================================
