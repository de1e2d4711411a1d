-------------------------------- MODULE Agent ---------------------------------
(***************************************************************************)
(* The agent on a managed cluster (pkg/cmd/agent, pkg/agent).  The command *)
(* runs RunAgent in a goroutine beside RunAddOns, and then waits for a     *)
(* signal.  RunAgent applies the agent's CRDs to the managed cluster and   *)
(* runs the spoke agent, a library, under a context of its own, which the  *)
(* library cancels when it wants to be started again.  RunAddOns starts    *)
(* the manager of the add-ons.                                             *)
(*                                                                         *)
(* A rolling update of the agent has processes of two releases, with       *)
(* different CRDs, on the same cluster.                                    *)
(***************************************************************************)
EXTENDS Integers, Sequences

CONSTANTS
  Processes,
  Release,          \* Release[p]: the CRDs that p's binary embeds
  CRDs,             \* crdStaticFiles, in order
  MaxErrors,        \* bound: failing calls
  MaxSignals,       \* bound: signals
  MaxRestarts,      \* bound: times the library cancels the agent
  MaxWrites         \* bound: writes of CRDs

ASSUME AgentAssumption ==
  /\ Release \in [Processes -> Nat \ {0}]
  /\ CRDs \in Seq(STRING)
  /\ MaxErrors \in Nat /\ MaxSignals \in Nat /\ MaxRestarts \in Nat /\ MaxWrites \in Nat

VARIABLES
  feature,      \* the ManagedServiceAccount feature gate
  main,         \* main[p]: the command
  ctx,          \* ctx[p]: the command's context
  agent,        \* agent[p]: RunAgent
  file,         \* file[p]: the CRD that ensureCRDs is at
  seen,         \* seen[p]: what it got of that CRD
  manager,      \* manager[p]: the goroutine of the add-on manager
  crd,          \* crd[i]: the CRD on the managed cluster, and its writes so far
  errors, signals, restarts,
  overwritten   \* history: another release applied its CRDs after p did

process == <<main, ctx, agent, file, seen, manager, overwritten>>
bounds == <<errors, signals, restarts>>
vars == <<feature, process, crd, bounds>>

Absent == [release |-> 0, version |-> 0]
Files == 1..Len(CRDs)
Releases == {Release[p] : p \in Processes} \cup {0}

(* What the variables may hold.                                            *)
TypeOK ==
  /\ feature \in BOOLEAN
  /\ main \in [Processes -> {"off", "addons", "waiting"}]
  /\ ctx \in [Processes -> {"live", "done"}]
  /\ agent \in [Processes -> {"off", "config", "get", "put", "spoke", "cancelled", "returned"}]
  /\ file \in [Processes -> 1..(Len(CRDs) + 1)]
  /\ seen \in [Processes -> [release : Releases, version : 0..MaxWrites]]
  /\ manager \in [Processes -> {"none", "starting", "running"}]
  /\ crd \in [Files -> [release : Releases, version : 0..MaxWrites]]
  /\ errors \in 0..MaxErrors /\ signals \in 0..MaxSignals /\ restarts \in 0..MaxRestarts
  /\ overwritten \in [Processes -> BOOLEAN]

Init ==
  /\ feature \in BOOLEAN
  /\ main = [p \in Processes |-> "off"]
  /\ ctx = [p \in Processes |-> "live"]
  /\ agent = [p \in Processes |-> "off"]
  /\ file = [p \in Processes |-> 1]
  /\ seen = [p \in Processes |-> Absent]
  /\ manager = [p \in Processes |-> "none"]
  /\ crd = [i \in Files |-> Absent]
  /\ errors = 0 /\ signals = 0 /\ restarts = 0
  /\ overwritten = [p \in Processes |-> FALSE]
-------------------------------------------------------------------------------
(* The command.                                                            *)

(* The process is started, or started again by the kubelet.                *)
NewAgent(p) ==
  /\ main[p] = "off"
  /\ main' = [main EXCEPT ![p] = "addons"]
  /\ agent' = [agent EXCEPT ![p] = "config"]
  /\ UNCHANGED <<feature, ctx, file, seen, manager, crd, bounds, overwritten>>

(* The end of the process takes every goroutine along.                     *)
Exit(p) ==
  /\ main' = [main EXCEPT ![p] = "off"]
  /\ ctx' = [ctx EXCEPT ![p] = "live"]
  /\ agent' = [agent EXCEPT ![p] = "off"]
  /\ file' = [file EXCEPT ![p] = 1]
  /\ seen' = [seen EXCEPT ![p] = Absent]
  /\ manager' = [manager EXCEPT ![p] = "none"]
  /\ overwritten' = [overwritten EXCEPT ![p] = FALSE]
  /\ UNCHANGED <<feature, crd>>

(* An error that ends the process: klog.Fatalf, or RunE returning it.      *)
Fail(p) ==
  /\ errors < MaxErrors /\ errors' = errors + 1
  /\ Exit(p) /\ UNCHANGED <<signals, restarts>>

Signal(p) ==
  /\ main[p] # "off" /\ ctx[p] = "live" /\ signals < MaxSignals
  /\ ctx' = [ctx EXCEPT ![p] = "done"] /\ signals' = signals + 1
  /\ UNCHANGED <<feature, main, agent, file, seen, manager, crd, errors, restarts, overwritten>>

(* The command is through with RunAddOns and its context is done.          *)
Return(p) ==
  /\ main[p] = "waiting" /\ ctx[p] = "done"
  /\ Exit(p) /\ UNCHANGED bounds

(* The manager gets something to run.  The discovery of the managed        *)
(* cluster, or any other call, may fail: see RunAddOns.                    *)
StartManagedServiceAccountAgent(p) == manager' = [manager EXCEPT ![p] = "starting"]

(* RunAddOns: the kubeconfig of the hub, the manager, and with the feature *)
(* its add-on.  None of it looks at the context.                           *)
RunAddOns(p) ==
  /\ main[p] = "addons"
  /\ \/ /\ main' = [main EXCEPT ![p] = "waiting"]
        /\ IF feature THEN StartManagedServiceAccountAgent(p) ELSE UNCHANGED manager
        /\ UNCHANGED <<feature, ctx, agent, file, seen, crd, bounds, overwritten>>
     \/ Fail(p)

(* The goroutine around hubManager.Start.                                  *)
StartHubManager(p) ==
  /\ manager[p] = "starting"
  /\ \/ /\ manager' = [manager EXCEPT ![p] = "running"]
        /\ UNCHANGED <<feature, main, ctx, agent, file, seen, crd, bounds, overwritten>>
     \/ Fail(p)
-------------------------------------------------------------------------------
(* RunAgent.                                                               *)

(* The configurations and clients for the managed cluster.                 *)
LoadSpokeKubeConfig(p) ==
  /\ agent[p] = "config"
  /\ \/ /\ agent' = [agent EXCEPT ![p] = IF Len(CRDs) = 0 THEN "spoke" ELSE "get"]
        /\ UNCHANGED <<feature, main, ctx, file, seen, manager, crd, bounds, overwritten>>
     \/ Fail(p)

(* Mutant: the index is advanced once more after the last CRD.             *)
NextCRDAndOne(p) ==
  /\ file' = [file EXCEPT ![p] = IF file[p] = Len(CRDs) THEN @ + 2 ELSE @ + 1]
  /\ agent' = [agent EXCEPT ![p] = IF file[p] = Len(CRDs) THEN "spoke" ELSE "get"]

(* ensureCRDs goes on to the next CRD, or is done.                         *)
NextCRD(p) ==
  /\ file' = [file EXCEPT ![p] = @ + 1]
  /\ agent' = [agent EXCEPT ![p] = IF file[p] = Len(CRDs) THEN "spoke" ELSE "get"]

(* ApplyCustomResourceDefinitionV1 gets the CRD first; one that is as      *)
(* wanted is left alone.  A context that is done makes the call fail.      *)
GetCRD(p) ==
  /\ agent[p] = "get"
  /\ \/ /\ ctx[p] = "live"
        /\ IF crd[file[p]].release = Release[p]
           THEN NextCRD(p) /\ UNCHANGED seen
           ELSE /\ seen' = [seen EXCEPT ![p] = crd[file[p]]]
                /\ agent' = [agent EXCEPT ![p] = "put"]
                /\ UNCHANGED file
        /\ UNCHANGED <<feature, main, ctx, manager, crd, bounds, overwritten>>
     \/ Fail(p)
     \/ ctx[p] = "done" /\ Exit(p) /\ UNCHANGED bounds

(* Who has applied CRD i, and has not ended since.                         *)
Applied(q, i) == main[q] # "off" /\ i < file[q]

(* Mutant: the answer to the write is not looked at.                       *)
PutCRDUnchecked(p) ==
  /\ agent[p] = "put" /\ ctx[p] = "live"
  /\ LET i == file[p] IN
       IF crd[i] = seen[p] /\ crd[i].version < MaxWrites
       THEN /\ crd' = [crd EXCEPT ![i] = [release |-> Release[p], version |-> @.version + 1]]
            /\ overwritten' = [q \in Processes |->
                 overwritten[q] \/ (Release[q] # Release[p] /\ Applied(q, i))]
       ELSE UNCHANGED <<crd, overwritten>>
  /\ NextCRD(p)
  /\ UNCHANGED <<feature, main, ctx, seen, manager, bounds>>

(* It then creates or updates it.  External: the API server refuses the    *)
(* write when the CRD changed in between (AlreadyExists or a conflict),    *)
(* and the error ends the process.                                         *)
PutCRD(p) ==
  /\ agent[p] = "put"
  /\ LET i == file[p] IN
       \/ /\ ctx[p] = "live" /\ crd[i] = seen[p] /\ crd[i].version < MaxWrites
          /\ crd' = [crd EXCEPT ![i] = [release |-> Release[p], version |-> @.version + 1]]
          /\ overwritten' = [q \in Processes |->
               overwritten[q] \/ (Release[q] # Release[p] /\ Applied(q, i))]
          /\ NextCRD(p)
          /\ UNCHANGED <<feature, main, ctx, seen, manager, bounds>>
       \/ /\ ctx[p] = "done" \/ crd[i] # seen[p]
          /\ Exit(p) /\ UNCHANGED bounds
       \/ Fail(p)

(* External: the library asks to be started again by cancelling the        *)
(* context that RunAgent made for it.                                      *)
CancelAgent(p) ==
  /\ agent[p] = "spoke" /\ restarts < MaxRestarts
  /\ agent' = [agent EXCEPT ![p] = "cancelled"]
  /\ restarts' = restarts + 1
  /\ UNCHANGED <<feature, main, ctx, file, seen, manager, crd, errors, signals, overwritten>>

(* RunSpokeAgent returns when its context is done: with nil, and RunAgent  *)
(* returns nil too.                                                        *)
SpokeAgentReturns(p) ==
  /\ agent[p] = "cancelled" \/ (agent[p] = "spoke" /\ ctx[p] = "done")
  /\ agent' = [agent EXCEPT ![p] = "returned"]
  /\ UNCHANGED <<feature, main, ctx, file, seen, manager, crd, bounds, overwritten>>

(* Mutant: the error of RunSpokeAgent is only logged.                      *)
SpokeAgentFailsQuietly(p) ==
  /\ agent[p] \in {"spoke", "cancelled"} /\ errors < MaxErrors /\ errors' = errors + 1
  /\ agent' = [agent EXCEPT ![p] = "off"]
  /\ UNCHANGED <<feature, main, ctx, file, seen, manager, crd, signals, restarts, overwritten>>

(* Or with an error, at which utilruntime.Must panics.                     *)
SpokeAgentFails(p) ==
  /\ agent[p] \in {"spoke", "cancelled"}
  /\ Fail(p)
-------------------------------------------------------------------------------
Step(p) ==
  \/ NewAgent(p) \/ Return(p) \/ RunAddOns(p) \/ StartHubManager(p)
  \/ LoadSpokeKubeConfig(p) \/ GetCRD(p) \/ PutCRD(p) \/ SpokeAgentReturns(p)

Next ==
  \E p \in Processes : Step(p) \/ Signal(p) \/ CancelAgent(p) \/ SpokeAgentFails(p)

Spec == Init /\ [][Next]_vars

(* The kubelet starts a process that ended, and goroutines are scheduled.  *)
FairSpec ==
  Spec /\ \A p \in Processes :
    /\ WF_vars(NewAgent(p)) /\ WF_vars(Return(p)) /\ WF_vars(RunAddOns(p))
    /\ WF_vars(StartHubManager(p)) /\ WF_vars(LoadSpokeKubeConfig(p))
    /\ WF_vars(GetCRD(p)) /\ WF_vars(PutCRD(p)) /\ WF_vars(SpokeAgentReturns(p))
-------------------------------------------------------------------------------
(* A spoke agent runs with the CRDs its release embeds, all of them, even  *)
(* when processes race to create them; unless another release has applied  *)
(* its own since, which nothing repairs before the next start              *)
(* (agent.go:150).                                                         *)
CRDsAsApplied ==
  \A p \in Processes : agent[p] = "spoke" /\ ~overwritten[p] =>
    \A i \in Files : crd[i].release = Release[p]

(* After the last error and the last signal every process comes to run its *)
(* spoke agent, with its add-ons, whoever it raced with; or the library    *)
(* cancelled the agent: then RunAgent has returned, and the command goes   *)
(* on waiting for a signal without an agent (agent.go:162, agent.go:55 of  *)
(* the command).                                                           *)
EventuallyRuns ==
  \A p \in Processes :
    <>[](/\ agent[p] \in {"spoke", "returned"}
         /\ main[p] = "waiting" /\ (feature => manager[p] = "running"))
===============================================================================
