----------------------------- MODULE Agent_proofs -----------------------------
(***************************************************************************)
(* Proofs about Agent: type correctness, and that a spoke agent runs with  *)
(* the CRDs of its release, for any number of processes, releases and      *)
(* CRDs.                                                                   *)
(***************************************************************************)
EXTENDS Agent, TLAPS

(* Where RunAgent is tells where ensureCRDs is.                            *)
FileInv ==
  \A p \in Processes :
    /\ main[p] = "off" => file[p] = 1 /\ agent[p] = "off"
    /\ agent[p] = "config" => file[p] = 1
    /\ agent[p] \in {"get", "put"} => file[p] <= Len(CRDs)
    /\ agent[p] = "spoke" => file[p] = Len(CRDs) + 1

(* What a process has applied is there, or another release came after it.  *)
AppliedInv ==
  \A p \in Processes : ~overwritten[p] =>
    \A i \in Files : Applied(p, i) => crd[i].release = Release[p]

IInv == TypeOK /\ FileInv /\ AppliedInv

(* The constants: the CRDs are a list.                                     *)
LEMMA Constants ==
  /\ Len(CRDs) \in Nat /\ MaxWrites \in Nat /\ MaxErrors \in Nat /\ MaxSignals \in Nat
  /\ MaxRestarts \in Nat
  /\ \A p \in Processes : Release[p] \in Releases
  /\ Absent \in [release : Releases, version : 0..MaxWrites]
BY AgentAssumption DEF AgentAssumption, Releases, Absent

(* The invariant holds before the first start.                             *)
LEMMA InitIInv == Init => IInv
<1> SUFFICES ASSUME Init PROVE IInv
  OBVIOUS
<1>1. TypeOK
  <2>1. feature \in BOOLEAN /\ overwritten \in [Processes -> BOOLEAN]
    BY DEF Init
  <2> QED
    BY <2>1, Constants DEF Init, TypeOK
<1>2. FileInv
  BY DEF Init, FileInv
<1>3. AppliedInv
  BY DEF Init, AppliedInv, Applied
<1> QED
  BY <1>1, <1>2, <1>3 DEF IInv

(* The end of a process.                                                   *)
LEMMA ExitKeeps ==
  ASSUME IInv, NEW p \in Processes, Exit(p),
         errors' \in 0..MaxErrors, UNCHANGED <<signals, restarts>>
  PROVE  IInv'
<1>1. TypeOK'
  <2>1. overwritten' \in [Processes -> BOOLEAN] /\ feature' \in BOOLEAN
    BY DEF IInv, TypeOK, Exit
  <2> QED
    BY <2>1, Constants DEF IInv, TypeOK, Exit
<1>2. FileInv'
  BY Constants DEF IInv, TypeOK, FileInv, Exit
<1>3. AppliedInv'
  BY DEF IInv, TypeOK, AppliedInv, Applied, Exit
<1> QED
  BY <1>1, <1>2, <1>3 DEF IInv

(* It ends with an error or without one.                                   *)
LEMMA EndKeeps ==
  ASSUME IInv, NEW p \in Processes, Fail(p) \/ (Exit(p) /\ UNCHANGED bounds)
  PROVE  IInv'
<1>1. errors \in 0..MaxErrors /\ MaxErrors \in Nat
  BY Constants DEF IInv, TypeOK
<1>2. errors' \in 0..MaxErrors /\ UNCHANGED <<signals, restarts>>
  BY <1>1 DEF Fail, bounds
<1>3. Exit(p)
  BY DEF Fail
<1> QED
  BY <1>2, <1>3, ExitKeeps

(* A step that neither moves ensureCRDs nor touches the CRDs.              *)
LEMMA StepKeeps ==
  ASSUME IInv, NEW p \in Processes,
         UNCHANGED <<feature, file, crd, overwritten>>,
         TypeOK',
         \A q \in Processes : main'[q] = "off" => main[q] = "off" /\ agent'[q] = agent[q],
         \A q \in Processes :
           agent'[q] # agent[q] =>
             \/ agent'[q] = "get" /\ file[q] = 1 /\ Len(CRDs) # 0
             \/ agent'[q] = "put" /\ agent[q] = "get"
             \/ agent'[q] = "spoke" /\ file[q] = 1 /\ Len(CRDs) = 0
             \/ agent'[q] = "config" /\ file[q] = 1
             \/ agent'[q] \in {"cancelled", "returned"},
         \A q \in Processes : main[q] = "off" /\ main'[q] # "off" => file[q] = 1
  PROVE  IInv'
<1>1. FileInv'
  <2> SUFFICES ASSUME NEW q \in Processes
               PROVE  /\ main'[q] = "off" => file[q] = 1 /\ agent'[q] = "off"
                      /\ agent'[q] = "config" => file[q] = 1
                      /\ agent'[q] \in {"get", "put"} => file[q] <= Len(CRDs)
                      /\ agent'[q] = "spoke" => file[q] = Len(CRDs) + 1
    BY DEF FileInv
  <2>1. /\ main[q] = "off" => file[q] = 1 /\ agent[q] = "off"
        /\ agent[q] = "config" => file[q] = 1
        /\ agent[q] \in {"get", "put"} => file[q] <= Len(CRDs)
        /\ agent[q] = "spoke" => file[q] = Len(CRDs) + 1
    BY DEF IInv, FileInv
  <2>2. CASE agent'[q] = agent[q]
    BY <2>1, <2>2
  <2>3. CASE agent'[q] # agent[q]
    BY <2>1, <2>3, Constants
  <2> QED
    BY <2>2, <2>3
<1>2. AppliedInv'
  BY DEF IInv, TypeOK, AppliedInv, Applied, Files
<1> QED
  BY <1>1, <1>2 DEF IInv

(* ensureCRDs goes on after CRD i, which is now as the release wants it.   *)
LEMMA NextCRDKeeps ==
  ASSUME IInv, NEW p \in Processes, agent[p] \in {"get", "put"}, NextCRD(p),
         UNCHANGED <<feature, main, ctx, manager, bounds>>,
         seen' = seen,
         crd' \in [Files -> [release : Releases, version : 0..MaxWrites]],
         \A i \in Files : i # file[p] => crd'[i] = crd[i],
         crd'[file[p]].release = Release[p],
         overwritten' \in [Processes -> BOOLEAN],
         \A q \in Processes : overwritten[q] => overwritten'[q],
         \A q \in Processes :
           \/ crd'[file[p]] = crd[file[p]]
           \/ Release[q] # Release[p] /\ Applied(q, file[p]) => overwritten'[q]
  PROVE  IInv'
<1>0. file[p] \in 1..Len(CRDs) /\ Len(CRDs) \in Nat /\ main[p] # "off"
  BY Constants DEF IInv, TypeOK, FileInv
<1>1. TypeOK'
  <2>1. file' \in [Processes -> 1..(Len(CRDs) + 1)]
    BY <1>0 DEF IInv, TypeOK, NextCRD
  <2>2. agent' \in [Processes -> {"off", "config", "get", "put", "spoke", "cancelled", "returned"}]
    BY DEF IInv, TypeOK, NextCRD
  <2>3. feature' \in BOOLEAN
    BY DEF IInv, TypeOK
  <2> QED
    BY <2>1, <2>2, <2>3 DEF IInv, TypeOK, bounds
<1>2. FileInv'
  <2> SUFFICES ASSUME NEW q \in Processes
               PROVE  /\ main'[q] = "off" => file'[q] = 1 /\ agent'[q] = "off"
                      /\ agent'[q] = "config" => file'[q] = 1
                      /\ agent'[q] \in {"get", "put"} => file'[q] <= Len(CRDs)
                      /\ agent'[q] = "spoke" => file'[q] = Len(CRDs) + 1
    BY DEF FileInv
  <2>1. CASE q = p
    <3>1. file'[p] = file[p] + 1 /\ agent'[p] = IF file[p] = Len(CRDs) THEN "spoke" ELSE "get"
      BY DEF IInv, TypeOK, NextCRD
    <3> QED
      BY <1>0, <2>1, <3>1
  <2>2. CASE q # p
    <3>1. file'[q] = file[q] /\ agent'[q] = agent[q]
      BY <2>2 DEF IInv, TypeOK, NextCRD
    <3> QED
      BY <3>1 DEF IInv, FileInv
  <2> QED
    BY <2>1, <2>2
<1>3. AppliedInv'
  <2> SUFFICES ASSUME NEW q \in Processes, ~overwritten'[q], NEW i \in Files,
                      Applied(q, i)'
               PROVE  crd'[i].release = Release[q]
    BY DEF AppliedInv, Files
  <2>1. ~overwritten[q]
    OBVIOUS
  <2>2. CASE q = p /\ i = file[p]
    BY <2>2
  <2>3. CASE ~(q = p /\ i = file[p])
    <3>1. Applied(q, i)
      BY <1>0, <2>3 DEF IInv, TypeOK, Applied, NextCRD, Files
    <3>2. crd[i].release = Release[q]
      BY <2>1, <3>1 DEF IInv, AppliedInv
    <3> QED
      BY <3>1, <3>2
  <2> QED
    BY <2>2, <2>3
<1> QED
  BY <1>1, <1>2, <1>3 DEF IInv

(* ApplyCustomResourceDefinitionV1: the Get.                               *)
LEMMA GetKeeps ==
  ASSUME IInv, NEW p \in Processes, GetCRD(p)
  PROVE  IInv'
<1>0. file[p] \in Files /\ Len(CRDs) \in Nat
  BY Constants DEF IInv, TypeOK, FileInv, GetCRD, Files
<1>1. CASE Fail(p) \/ (Exit(p) /\ UNCHANGED bounds)
  BY <1>1, EndKeeps
<1>2. CASE /\ crd[file[p]].release = Release[p] /\ NextCRD(p)
           /\ UNCHANGED <<feature, main, ctx, seen, manager, crd, bounds, overwritten>>
  <2>1. overwritten \in [Processes -> BOOLEAN]
        /\ crd \in [Files -> [release : Releases, version : 0..MaxWrites]]
    BY DEF IInv, TypeOK
  <2> QED
    BY <1>0, <1>2, <2>1, NextCRDKeeps DEF GetCRD
<1>3. CASE /\ seen' = [seen EXCEPT ![p] = crd[file[p]]]
           /\ agent' = [agent EXCEPT ![p] = "put"]
           /\ UNCHANGED <<feature, main, ctx, file, manager, crd, bounds, overwritten>>
  <2>1. TypeOK'
    <3>1. seen' \in [Processes -> [release : Releases, version : 0..MaxWrites]]
      BY <1>0, <1>3 DEF IInv, TypeOK
    <3>2. feature' \in BOOLEAN /\ overwritten' \in [Processes -> BOOLEAN]
      BY <1>3 DEF IInv, TypeOK
    <3> QED
      BY <1>3, <3>1, <3>2 DEF IInv, TypeOK, bounds
  <2>2. \A q \in Processes : agent'[q] # agent[q] => agent'[q] = "put" /\ agent[q] = "get"
    BY <1>3 DEF IInv, TypeOK, GetCRD
  <2>3. \A q \in Processes : main[q] = "off" => agent[q] = "off"
    BY DEF IInv, FileInv
  <2> QED
    BY <1>3, <2>1, <2>2, <2>3, StepKeeps
<1> QED
  BY <1>1, <1>2, <1>3 DEF GetCRD

(* ApplyCustomResourceDefinitionV1: the write.                             *)
LEMMA PutKeeps ==
  ASSUME IInv, NEW p \in Processes, PutCRD(p)
  PROVE  IInv'
<1>0. file[p] \in Files /\ Len(CRDs) \in Nat
  BY Constants DEF IInv, TypeOK, FileInv, PutCRD, Files
<1>1. CASE Fail(p) \/ (Exit(p) /\ UNCHANGED bounds)
  BY <1>1, EndKeeps
<1>2. CASE /\ crd[file[p]].version < MaxWrites
           /\ crd' = [crd EXCEPT ![file[p]] =
                        [release |-> Release[p], version |-> @.version + 1]]
           /\ overwritten' = [q \in Processes |->
                overwritten[q] \/ (Release[q] # Release[p] /\ Applied(q, file[p]))]
           /\ NextCRD(p)
           /\ UNCHANGED <<feature, main, ctx, seen, manager, bounds>>
  <2>1. crd' \in [Files -> [release : Releases, version : 0..MaxWrites]]
    BY <1>0, <1>2, Constants DEF IInv, TypeOK
  <2>2. /\ \A i \in Files : i # file[p] => crd'[i] = crd[i]
        /\ crd'[file[p]].release = Release[p]
    BY <1>0, <1>2 DEF IInv, TypeOK
  <2>3. overwritten' \in [Processes -> BOOLEAN]
    BY <1>2
  <2>4. \A q \in Processes :
          /\ overwritten[q] => overwritten'[q]
          /\ Release[q] # Release[p] /\ Applied(q, file[p]) => overwritten'[q]
    BY <1>2
  <2>5. agent[p] = "put"
    BY DEF PutCRD
  <2> QED
    BY <1>0, <1>2, <2>1, <2>2, <2>3, <2>4, <2>5, NextCRDKeeps
<1> QED
  BY <1>1, <1>2 DEF PutCRD

(* The other steps.                                                        *)
LEMMA OthersKeep ==
  ASSUME IInv, NEW p \in Processes,
         \/ NewAgent(p) \/ Return(p) \/ RunAddOns(p) \/ StartHubManager(p)
         \/ LoadSpokeKubeConfig(p) \/ SpokeAgentReturns(p)
         \/ Signal(p) \/ CancelAgent(p) \/ SpokeAgentFails(p)
  PROVE  IInv'
<1>1. CASE Fail(p) \/ (Exit(p) /\ UNCHANGED bounds)
  BY <1>1, EndKeeps
<1>2. CASE ~(Fail(p) \/ (Exit(p) /\ UNCHANGED bounds))
  <2>1. UNCHANGED <<feature, file, seen, crd, overwritten>>
    BY <1>2 DEF NewAgent, Return, RunAddOns, StartManagedServiceAccountAgent,
         StartHubManager, LoadSpokeKubeConfig,
                SpokeAgentReturns, Signal, CancelAgent, SpokeAgentFails
  <2>2. TypeOK'
    <3>1. feature' \in BOOLEAN /\ overwritten' \in [Processes -> BOOLEAN]
      BY <2>1 DEF IInv, TypeOK
    <3>2. /\ main' \in [Processes -> {"off", "addons", "waiting"}]
          /\ ctx' \in [Processes -> {"live", "done"}]
          /\ manager' \in [Processes -> {"none", "starting", "running"}]
          /\ agent' \in [Processes -> {"off", "config", "get", "put", "spoke", "cancelled",
                                        "returned"}]
      BY <1>2 DEF IInv, TypeOK, NewAgent, Return, RunAddOns, StartManagedServiceAccountAgent,
         StartHubManager,
                  LoadSpokeKubeConfig, SpokeAgentReturns, Signal, CancelAgent, SpokeAgentFails
    <3>3. errors' \in 0..MaxErrors /\ signals' \in 0..MaxSignals /\ restarts' \in 0..MaxRestarts
      BY <1>2, Constants
         DEF IInv, TypeOK, NewAgent, Return, RunAddOns, StartManagedServiceAccountAgent,
         StartHubManager,
             LoadSpokeKubeConfig, SpokeAgentReturns, Signal, CancelAgent, SpokeAgentFails, bounds
    <3> QED
      BY <2>1, <3>1, <3>2, <3>3 DEF IInv, TypeOK
  <2>3. /\ \A q \in Processes : main'[q] = "off" => main[q] = "off" /\ agent'[q] = agent[q]
        /\ \A q \in Processes :
             agent'[q] # agent[q] =>
               \/ agent'[q] = "get" /\ agent[q] = "config" /\ Len(CRDs) # 0
               \/ agent'[q] = "spoke" /\ agent[q] = "config" /\ Len(CRDs) = 0
               \/ agent'[q] = "config" /\ main[q] = "off"
               \/ agent'[q] \in {"cancelled", "returned"}
        /\ \A q \in Processes : main[q] = "off" /\ main'[q] # "off" => q = p
    BY <1>2 DEF IInv, TypeOK, FileInv, NewAgent, Return, RunAddOns, StartManagedServiceAccountAgent,
         StartHubManager,
                LoadSpokeKubeConfig, SpokeAgentReturns, Signal, CancelAgent, SpokeAgentFails
  <2>4. \A q \in Processes : main[q] = "off" \/ agent[q] = "config" => file[q] = 1
    BY DEF IInv, FileInv
  <2> QED
    BY <2>1, <2>2, <2>3, <2>4, StepKeeps
<1> QED
  BY <1>1, <1>2

(* Every step keeps the invariant.                                         *)
LEMMA NextIInv == IInv /\ [Next]_vars => IInv'
<1> SUFFICES ASSUME IInv, [Next]_vars PROVE IInv'
  OBVIOUS
<1>1. CASE UNCHANGED vars
  BY <1>1 DEF vars, process, bounds, IInv, TypeOK, FileInv, AppliedInv, Applied
<1>2. CASE Next
  BY <1>2, GetKeeps, PutKeeps, OthersKeep DEF Next, Step
<1> QED
  BY <1>1, <1>2

(* The invariant holds in every reachable state.                           *)
LEMMA Invariance == Spec => []IInv
BY InitIInv, NextIInv, PTL DEF Spec

(* The variables of the agent have their types; ensureCRDs stays within    *)
(* its list.                                                               *)
THEOREM TypeCorrect == Spec => []TypeOK
<1>1. IInv => TypeOK
  BY DEF IInv
<1> QED
  BY <1>1, Invariance, PTL

(* A spoke agent runs with all the CRDs its release embeds, unless another *)
(* release has applied its own since.                                      *)
THEOREM SpokeHasItsCRDs == Spec => []CRDsAsApplied
<1>1. ASSUME IInv, NEW p \in Processes, agent[p] = "spoke", ~overwritten[p], NEW i \in Files
      PROVE  crd[i].release = Release[p]
  <2>1. main[p] # "off" /\ i < file[p]
    BY <1>1, Constants DEF IInv, FileInv, Files
  <2> QED
    BY <1>1, <2>1 DEF IInv, AppliedInv, Applied
<1>2. IInv => CRDsAsApplied
  BY <1>1 DEF CRDsAsApplied
<1> QED
  BY <1>2, Invariance, PTL
===============================================================================
