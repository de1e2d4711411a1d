------------------------- MODULE OcmBootstrap_proofs --------------------------
(***************************************************************************)
(* Proofs about OcmBootstrap: type correctness, that the hub controllers   *)
(* and the agent of a process start in order, that the hosting cluster is  *)
(* registered once, and that no process ends itself without a cause; for   *)
(* any number of controlplanes, CRDs and names.                            *)
(***************************************************************************)
EXTENDS OcmBootstrap, FiniteSetTheorems, TLAPS

(* What the wait for the CRDs has passed is established and stays so.      *)
WaitInv ==
  \A p \in Instances : up[p] # "stopping" =>
    /\ \A i \in 1..Len(ocmCRDs) : i < waitAt[p] => crd[ocmCRDs[i]] = "established"
    /\ controllers[p] => waitAt[p] = Len(ocmCRDs) + 1

(* A cluster is accepted by hub controllers, so with all CRDs established; *)
(* a hook that is past createNamespace has its namespace.                  *)
AcceptInv ==
  /\ \A n \in Names : cluster[n] = "accepted" => Ready
  /\ \A p \in Instances :
       /\ self[p] \in {"getcluster", "putcluster", "agent"} => name[p] \in namespaces
       /\ self[p] = "agent" => cluster[name[p]] = "accepted"

(* Without a made-up name everything carries the stable one.               *)
NameInv ==
  ~misnamed =>
    /\ \A p \in Instances : name[p] = StableName
    /\ namespaces \subseteq {StableName}
    /\ \A n \in Names : cluster[n] # "absent" => n = StableName

IInv == TypeOK /\ WaitInv /\ AcceptInv /\ NameInv

(* The lists of CRDs are within their lengths.                             *)
LEMMA CRDLists ==
  /\ Len(baseCRDs) \in Nat /\ Len(ocmCRDs) \in Nat
  /\ \A i \in 1..Len(baseCRDs) : baseCRDs[i] \in CRDs
  /\ \A i \in 1..Len(ocmCRDs) : ocmCRDs[i] \in CRDs
  /\ \A c \in CRDs : \E i \in 1..Len(ocmCRDs) : ocmCRDs[i] = c
<1>1. baseCRDs \in Seq(CRDs) /\ ocmCRDs \in Seq(CRDs)
  BY BootstrapAssumption DEF BootstrapAssumption
<1>2. {ocmCRDs[i] : i \in 1..Len(ocmCRDs)} = CRDs
  BY BootstrapAssumption DEF BootstrapAssumption
<1> QED
  BY <1>1, <1>2

(* The hook is off or begins with the name.                                *)
LEMMA SelfStarts == SelfStart \in {"off", "name"} /\ StableName \in Names
<1>1. SelfStart \in {"off", "name"}
  BY DEF SelfStart
<1> QED
  BY <1>1, BootstrapAssumption DEF BootstrapAssumption

(* The invariant holds before the first start.                             *)
LEMMA InitIInv == Init => IInv
<1> SUFFICES ASSUME Init PROVE IInv
  OBVIOUS
<1>1. TypeOK
  <2>1. controllers \in [Instances -> BOOLEAN] /\ misnamed \in BOOLEAN
    BY DEF Init
  <2>2. /\ crdAt \in [Instances -> 1..(Len(baseCRDs) + 1)]
        /\ waitAt \in [Instances -> 1..(Len(ocmCRDs) + 1)]
    BY CRDLists DEF Init
  <2> QED
    BY <2>1, <2>2, SelfStarts DEF Init, TypeOK
<1>2. WaitInv
  BY DEF Init, WaitInv
<1>3. AcceptInv
  BY SelfStarts DEF Init, AcceptInv
<1>4. NameInv
  BY DEF Init, NameInv
<1> QED
  BY <1>1, <1>2, <1>3, <1>4 DEF IInv

(* A step that leaves the store alone and ends a process, or changes       *)
(* nothing of it, keeps the invariant.                                     *)
LEMMA ExitsKeeps ==
  ASSUME IInv, NEW p \in Instances, Exits(p), UNCHANGED <<store, misnamed>>,
         errors' \in Nat, stops' \in Nat, fatals' \in Nat
  PROVE  IInv'
<1>1. TypeOK'
  BY CRDLists, SelfStarts DEF IInv, TypeOK, Exits, store
<1>2. WaitInv'
  BY CRDLists DEF IInv, TypeOK, WaitInv, Exits, store
<1>3. AcceptInv'
  BY SelfStarts DEF IInv, TypeOK, AcceptInv, Exits, store, Ready
<1>4. NameInv'
  BY DEF IInv, TypeOK, NameInv, Exits, store
<1> QED
  BY <1>1, <1>2, <1>3, <1>4 DEF IInv

(* The same when the store was written: the rest of the invariant follows  *)
(* from the store's own part.                                              *)
LEMMA CRDsKeep ==
  ASSUME IInv, NEW c \in CRDs, NEW v \in {"absent", "created", "established"},
         crd[c] = "established" => v = "established",
         crd' = [crd EXCEPT ![c] = v],
         UNCHANGED <<namespaces, cluster, up, waitAt, controllers, self, name, misnamed>>,
         crdAt' \in [Instances -> 1..(Len(baseCRDs) + 1)],
         errors' \in Nat, stops' = stops, fatals' = fatals
  PROVE  IInv'
<1>1. TypeOK'
  BY DEF IInv, TypeOK
<1>2. WaitInv'
  BY CRDLists DEF IInv, TypeOK, WaitInv
<1>3. AcceptInv'
  BY DEF IInv, TypeOK, AcceptInv, Ready
<1>4. NameInv'
  BY DEF IInv, NameInv
<1> QED
  BY <1>1, <1>2, <1>3, <1>4 DEF IInv

(* InstallBaseCRDs.                                                        *)
LEMMA InstallKeeps ==
  ASSUME IInv, NEW p \in Instances, InstallBaseCRDs(p)
  PROVE  IInv'
<1> DEFINE c == baseCRDs[crdAt[p]]
<1>1. c \in CRDs /\ crdAt[p] \in 1..Len(baseCRDs) /\ Len(baseCRDs) \in Nat
  BY CRDLists DEF IInv, TypeOK, InstallBaseCRDs
<1>2. crdAt' \in [Instances -> 1..(Len(baseCRDs) + 1)] /\ errors' \in Nat
  <2>1. crdAt \in [Instances -> 1..(Len(baseCRDs) + 1)] /\ errors \in Nat
    BY DEF IInv, TypeOK
  <2>2. errors' \in {errors, errors + 1}
    BY DEF InstallBaseCRDs, Fails
  <2>3. \E n \in 1..(Len(baseCRDs) + 1) : crdAt' = [crdAt EXCEPT ![p] = n]
    BY <1>1 DEF InstallBaseCRDs, NextToApply
  <2> QED
    BY <2>1, <2>2, <2>3
<1>3. PICK v \in {"absent", "created", "established"} :
        /\ crd[c] = "established" => v = "established"
        /\ crd' = [crd EXCEPT ![c] = v]
  <2>1. crd' = crd \/ crd' = [crd EXCEPT ![c] = IF @ = "absent" THEN "created" ELSE @]
    BY DEF InstallBaseCRDs
  <2>2. crd[c] \in {"absent", "created", "established"} /\ crd = [crd EXCEPT ![c] = crd[c]]
    BY <1>1 DEF IInv, TypeOK
  <2> QED
    BY <2>1, <2>2
<1> QED
  BY <1>1, <1>2, <1>3, CRDsKeep DEF InstallBaseCRDs

(* WaitFOROCMCRDsReady.                                                    *)
LEMMA WaitKeeps ==
  ASSUME IInv, NEW p \in Instances, WaitFOROCMCRDsReady(p)
  PROVE  IInv'
<1>1. waitAt[p] \in 1..Len(ocmCRDs) /\ Len(ocmCRDs) \in Nat
  BY CRDLists DEF IInv, TypeOK, WaitFOROCMCRDsReady
<1> DEFINE n == waitAt'[p]
<1>2. /\ waitAt' = [waitAt EXCEPT ![p] = n] /\ n \in 1..(Len(ocmCRDs) + 1)
      /\ n = 1 \/ (n = waitAt[p] + 1 /\ crd[ocmCRDs[waitAt[p]]] = "established")
  <2>0. waitAt \in [Instances -> 1..(Len(ocmCRDs) + 1)]
    BY DEF IInv, TypeOK
  <2>1. CASE waitAt' = [waitAt EXCEPT ![p] = NextToAwait(p, ocmCRDs[waitAt[p]])]
    BY <1>1, <2>0, <2>1 DEF NextToAwait
  <2>2. CASE waitAt' = [waitAt EXCEPT ![p] = 1]
    BY <1>1, <2>0, <2>2
  <2> QED
    BY <2>1, <2>2 DEF WaitFOROCMCRDsReady
<1>3. TypeOK' /\ WaitInv'
  <2>1. errors' \in {errors, errors + 1}
    BY DEF WaitFOROCMCRDsReady, Fails
  <2>2. TypeOK'
    <3>1. waitAt' \in [Instances -> 1..(Len(ocmCRDs) + 1)]
      BY <1>2 DEF IInv, TypeOK
    <3> HIDE DEF n
    <3> QED
      BY <2>1, <3>1 DEF IInv, TypeOK, WaitFOROCMCRDsReady, store
  <2>3. WaitInv'
    BY <1>1, <1>2 DEF IInv, TypeOK, WaitInv, WaitFOROCMCRDsReady, store
  <2> QED
    BY <2>2, <2>3
<1>4. AcceptInv' /\ NameInv'
  BY DEF IInv, AcceptInv, NameInv, WaitFOROCMCRDsReady, Ready, store
<1> QED
  BY <1>3, <1>4 DEF IInv

(* A step of the self-management hook that goes on, with its effect on the *)
(* store.                                                                  *)
LEMMA SelfKeeps ==
  ASSUME IInv, NEW p \in Instances,
         NEW next \in {"getns", "putns", "getcluster", "putcluster", "agent"},
         self' = [self EXCEPT ![p] = next],
         UNCHANGED <<crd, up, crdAt, waitAt, controllers, name, stops, fatals, misnamed>>,
         errors' \in Nat,
         namespaces' \in {namespaces, namespaces \cup {name[p]}},
         cluster' \in {cluster, [cluster EXCEPT ![name[p]] = "created"]},
         cluster' # cluster => cluster[name[p]] # "accepted",
         next \in {"getcluster", "putcluster", "agent"} => name[p] \in namespaces',
         next = "agent" => cluster[name[p]] = "accepted"
  PROVE  IInv'
<1>0. name[p] \in Names
  BY DEF IInv, TypeOK
<1>1. TypeOK'
  BY <1>0 DEF IInv, TypeOK
<1>2. WaitInv'
  BY DEF IInv, WaitInv
<1>3. AcceptInv'
  <2>1. \A n \in Names : /\ cluster'[n] = "accepted" => cluster[n] = "accepted"
                         /\ cluster[n] = "accepted" => cluster'[n] = "accepted"
    BY <1>0 DEF IInv, TypeOK
  <2>2. namespaces \subseteq namespaces' /\ Ready' = Ready
    BY DEF Ready
  <2> QED
    BY <1>0, <2>1, <2>2 DEF IInv, TypeOK, AcceptInv
<1>4. NameInv'
  BY <1>0 DEF IInv, TypeOK, NameInv
<1> QED
  BY <1>1, <1>2, <1>3, <1>4 DEF IInv

(* An end of the process that may have left its write in the store.        *)
LEMMA FatalKeeps ==
  ASSUME IInv, NEW p \in Instances, Exits(p), crd' = crd,
         UNCHANGED <<stops, misnamed>>, errors' \in Nat, fatals' \in Nat,
         namespaces' \in {namespaces, namespaces \cup {name[p]}},
         cluster' \in {cluster, [cluster EXCEPT ![name[p]] = "created"]},
         cluster' # cluster => cluster[name[p]] # "accepted"
  PROVE  IInv'
<1>0. name[p] \in Names
  BY DEF IInv, TypeOK
<1>1. TypeOK'
  <2>1. namespaces' \subseteq Names
    BY <1>0 DEF IInv, TypeOK
  <2>2. cluster' \in [Names -> {"absent", "created", "accepted"}]
    BY <1>0 DEF IInv, TypeOK
  <2> QED
    BY <2>1, <2>2, CRDLists, SelfStarts DEF IInv, TypeOK, Exits
<1>2. WaitInv'
  BY CRDLists DEF IInv, TypeOK, WaitInv, Exits
<1>3. AcceptInv'
  <2>1. \A n \in Names : /\ cluster'[n] = "accepted" => cluster[n] = "accepted"
                         /\ cluster[n] = "accepted" => cluster'[n] = "accepted"
    BY <1>0 DEF IInv, TypeOK
  <2>2. namespaces \subseteq namespaces' /\ Ready' = Ready
    BY DEF Ready
  <2>3. ASSUME NEW q \in Instances
        PROVE  /\ self'[q] \in {"getcluster", "putcluster", "agent"} => name'[q] \in namespaces'
               /\ self'[q] = "agent" => cluster'[name'[q]] = "accepted"
    <3>1. CASE q = p
      BY <3>1, SelfStarts DEF IInv, TypeOK, Exits
    <3>2. CASE q # p
      <4>1. self'[q] = self[q] /\ name'[q] = name[q] /\ name[q] \in Names
        BY <3>2 DEF IInv, TypeOK, Exits
      <4> QED
        BY <4>1, <2>1, <2>2 DEF IInv, AcceptInv
    <3> QED
      BY <3>1, <3>2
  <2> QED
    BY <2>1, <2>2, <2>3 DEF IInv, AcceptInv
<1>4. NameInv'
  BY <1>0 DEF IInv, TypeOK, NameInv, Exits
<1> QED
  BY <1>1, <1>2, <1>3, <1>4 DEF IInv

(* runControllers, after a wait that saw every CRD or a cancelled one.     *)
LEMMA ControllersKeep ==
  ASSUME IInv, NEW p \in Instances, RunControllers(p)
  PROVE  IInv'
<1>1. TypeOK'
  <2>1. controllers' \in [Instances -> BOOLEAN]
    BY DEF IInv, TypeOK, RunControllers
  <2> QED
    BY <2>1 DEF IInv, TypeOK, RunControllers, store
<1>2. WaitInv'
  BY CRDLists DEF IInv, TypeOK, WaitInv, RunControllers, store
<1>3. AcceptInv' /\ NameInv'
  BY DEF IInv, AcceptInv, NameInv, RunControllers, Ready, store
<1> QED
  BY <1>1, <1>2, <1>3 DEF IInv

(* The name: the stable one, or one made up, which is on record.           *)
LEMMA GenerateKeeps ==
  ASSUME IInv, NEW p \in Instances, GenerateSelfManagedClusterName(p)
  PROVE  IInv'
<1>1. CASE Fails /\ Fatal(p) /\ UNCHANGED misnamed
  BY <1>1, ExitsKeeps DEF IInv, TypeOK, Fails, Fatal, GenerateSelfManagedClusterName
<1>2. CASE \E n \in Names :
             /\ n = StableName \/ misnamed'
             /\ name' = [name EXCEPT ![p] = n]
             /\ Selves(p, "getns")
             /\ misnamed' \in BOOLEAN /\ (misnamed => misnamed')
             /\ UNCHANGED <<up, crdAt, waitAt, controllers, fatals>>
  <2>1. PICK n \in Names :
             /\ n = StableName \/ misnamed'
             /\ name' = [name EXCEPT ![p] = n]
             /\ Selves(p, "getns")
             /\ misnamed' \in BOOLEAN /\ (misnamed => misnamed')
             /\ UNCHANGED <<up, crdAt, waitAt, controllers, fatals>>
    BY <1>2
  <2>2. errors' \in {errors, errors + 1} /\ UNCHANGED <<store, stops>>
    BY <1>2 DEF GenerateSelfManagedClusterName, Fails
  <2>3. TypeOK'
    BY <2>1, <2>2 DEF IInv, TypeOK, Selves, store
  <2>4. WaitInv'
    BY <2>1, <2>2 DEF IInv, WaitInv, store
  <2>5. AcceptInv'
    BY <2>1, <2>2 DEF IInv, TypeOK, AcceptInv, Selves, Ready, store
  <2>6. NameInv'
    BY <2>1, <2>2 DEF IInv, TypeOK, NameInv, store
  <2> QED
    BY <2>3, <2>4, <2>5, <2>6 DEF IInv
<1>3. CASE /\ \E n \in Names : SelfName(n) /\ name' = [name EXCEPT ![p] = n]
           /\ Selves(p, "getns")
           /\ UNCHANGED <<up, crdAt, waitAt, controllers, errors, fatals, misnamed>>
  <2>1. misnamed' \in BOOLEAN /\ (misnamed => misnamed')
    BY <1>3 DEF IInv, TypeOK
  <2> QED
    BY <1>2, <1>3, <2>1 DEF SelfName
<1>4. CASE /\ \E n \in Names \ ({StableName} \cup namespaces) : name' = [name EXCEPT ![p] = n]
           /\ misnamed' = TRUE
           /\ Selves(p, "getns")
           /\ UNCHANGED <<up, crdAt, waitAt, controllers, fatals>>
  BY <1>2, <1>4
<1> QED
  BY <1>1, <1>3, <1>4 DEF GenerateSelfManagedClusterName

(* createNamespace and waitForSelfManagedCluster: a call of the hook goes  *)
(* on or ends the process, with or without its effect.                     *)
LEMMA SelfCallsKeep ==
  ASSUME IInv, NEW p \in Instances,
         \/ GetNamespace(p) \/ CreateNamespace(p) \/ GetSelfCluster(p) \/ CreateSelfCluster(p)
  PROVE  IInv'
<1>0. /\ errors \in Nat /\ fatals \in Nat /\ name[p] \in Names /\ errors + 1 \in Nat
      /\ fatals + 1 \in Nat
  BY DEF IInv, TypeOK
<1>1. CASE GetNamespace(p)
  <2>1. CASE Fails /\ Fatal(p) /\ UNCHANGED store
    BY <1>0, <1>1, <2>1, ExitsKeeps DEF IInv, TypeOK, Fails, Fatal, GetNamespace
  <2>2. CASE /\ Selves(p, IF name[p] \in namespaces THEN "getcluster" ELSE "putns")
             /\ UNCHANGED <<up, crdAt, waitAt, controllers, name, errors, fatals>>
             /\ UNCHANGED store
    BY <1>0, <1>1, <2>2, SelfKeeps DEF Selves, GetNamespace, store
  <2> QED
    BY <1>1, <2>1, <2>2 DEF GetNamespace, SelfCall
<1>2. CASE CreateNamespace(p)
  <2>1. CASE Fatal(p)
    BY <1>0, <1>2, <2>1, FatalKeeps DEF CreateNamespace, SelfCall, Fatal, Fails, store
  <2>2. CASE /\ Selves(p, "getcluster")
             /\ UNCHANGED <<up, crdAt, waitAt, controllers, name, errors, fatals>>
             /\ namespaces' = namespaces \cup {name[p]} /\ UNCHANGED <<crd, cluster>>
    BY <1>0, <1>2, <2>2, SelfKeeps DEF Selves, CreateNamespace
  <2> QED
    BY <1>2, <2>1, <2>2 DEF CreateNamespace, SelfCall
<1>3. CASE GetSelfCluster(p)
  <2>1. CASE Fails /\ Fatal(p) /\ UNCHANGED store
    BY <1>0, <1>3, <2>1, ExitsKeeps DEF IInv, TypeOK, Fails, Fatal, GetSelfCluster
  <2>2. CASE /\ Selves(p, AfterGet(p))
             /\ UNCHANGED <<up, crdAt, waitAt, controllers, name, errors, fatals>>
             /\ UNCHANGED store
    <3>1. /\ AfterGet(p) \in {"putcluster", "getcluster", "agent"}
          /\ AfterGet(p) = "agent" => cluster[name[p]] = "accepted"
      BY DEF AfterGet
    <3>2. name[p] \in namespaces
      BY <1>3 DEF IInv, AcceptInv, GetSelfCluster
    <3> QED
      BY <1>0, <1>3, <2>2, <3>1, <3>2, SelfKeeps DEF Selves, GetSelfCluster, store
  <2> QED
    BY <1>3, <2>1, <2>2 DEF GetSelfCluster, SelfCall
<1>4. CASE CreateSelfCluster(p)
  <2>0. /\ UNCHANGED <<stops, misnamed, crd, namespaces>>
        /\ cluster' \in {cluster, [cluster EXCEPT ![name[p]] = "created"]}
        /\ cluster' # cluster => cluster[name[p]] # "accepted"
        /\ name[p] \in namespaces
    <3>1. name[p] \in namespaces
      BY <1>4 DEF IInv, AcceptInv, CreateSelfCluster
    <3> QED
      BY <1>4, <3>1 DEF CreateSelfCluster, CreateNotFound, SelfCall, store
  <2>1. CASE Fatal(p)
    <3>1. errors' \in Nat /\ fatals' \in Nat
      BY <1>0, <1>4, <2>1 DEF CreateSelfCluster, CreateNotFound, SelfCall, Fatal, Fails
    <3> QED
      BY <2>0, <2>1, <3>1, FatalKeeps DEF Fatal
  <2>2. CASE /\ Selves(p, "getcluster")
             /\ UNCHANGED <<up, crdAt, waitAt, controllers, name, errors, fatals>>
    BY <1>0, <2>0, <2>2, SelfKeeps DEF Selves
  <2> QED
    BY <1>4, <2>1, <2>2 DEF CreateSelfCluster, CreateNotFound, SelfCall
<1> QED
  BY <1>1, <1>2, <1>3, <1>4

(* A process that has waited for every CRD finds all of them established.  *)
LEMMA ControllersReady ==
  ASSUME IInv, NEW p \in Instances, up[p] = "up", controllers[p], NEW c \in CRDs
  PROVE  crd[c] = "established"
<1>1. PICK i \in 1..Len(ocmCRDs) : ocmCRDs[i] = c
  BY CRDLists
<1>2. waitAt[p] = Len(ocmCRDs) + 1 /\ Len(ocmCRDs) \in Nat
  BY CRDLists DEF IInv, WaitInv
<1>3. i < waitAt[p]
  BY <1>2
<1> QED
  BY <1>1, <1>3 DEF IInv, WaitInv

(* The API server, the hub controllers, signals and the supervisor.        *)
LEMMA EnvironmentKeeps ==
  ASSUME IInv,
         \/ \E p \in Instances : NewServer(p) \/ Crash(p) \/ Signal(p) \/ Shutdown(p)
         \/ \E c \in CRDs : Establish(c)
         \/ \E n \in Names : AcceptCluster(n)
  PROVE  IInv'
<1>0. /\ errors \in Nat /\ fatals \in Nat /\ stops \in Nat
      /\ stops + 1 \in Nat /\ fatals + 1 \in Nat
  BY DEF IInv, TypeOK
<1>1. ASSUME NEW p \in Instances, NewServer(p) PROVE IInv'
  <2>1. TypeOK'
    BY <1>1 DEF IInv, TypeOK, NewServer, store
  <2>2. WaitInv'
    BY <1>1 DEF IInv, TypeOK, WaitInv, NewServer, store
  <2>3. AcceptInv' /\ NameInv'
    BY <1>1 DEF IInv, AcceptInv, NameInv, NewServer, Ready, store
  <2> QED
    BY <2>1, <2>2, <2>3 DEF IInv
<1>2. ASSUME NEW p \in Instances, Crash(p) PROVE IInv'
  BY <1>0, <1>2, ExitsKeeps DEF Crash
<1>3. ASSUME NEW p \in Instances, Signal(p) PROVE IInv'
  <2>1. TypeOK'
    BY <1>3 DEF IInv, TypeOK, Signal, store
  <2>2. WaitInv'
    BY <1>3 DEF IInv, TypeOK, WaitInv, Signal, store
  <2>3. AcceptInv' /\ NameInv'
    BY <1>3 DEF IInv, AcceptInv, NameInv, Signal, Ready, store
  <2> QED
    BY <2>1, <2>2, <2>3 DEF IInv
<1>4. ASSUME NEW p \in Instances, Shutdown(p) PROVE IInv'
  BY <1>0, <1>4, ExitsKeeps DEF Shutdown, Fatal
<1>5. ASSUME NEW c \in CRDs, Establish(c) PROVE IInv'
  BY <1>0, <1>5, CRDsKeep DEF IInv, TypeOK, Establish, process
<1>6. ASSUME NEW n \in Names, AcceptCluster(n) PROVE IInv'
  <2>1. Ready
    <3>1. PICK p \in Instances : up[p] = "up" /\ controllers[p]
      BY <1>6 DEF AcceptCluster
    <3> QED
      BY <3>1, ControllersReady DEF Ready
  <2>2. TypeOK'
    BY <1>6 DEF IInv, TypeOK, AcceptCluster, process
  <2>3. WaitInv'
    BY <1>6 DEF IInv, WaitInv, AcceptCluster, process
  <2>4. AcceptInv'
    BY <1>6, <2>1 DEF IInv, TypeOK, AcceptInv, AcceptCluster, process, Ready
  <2>5. NameInv'
    BY <1>6 DEF IInv, TypeOK, NameInv, AcceptCluster, process
  <2> QED
    BY <2>2, <2>3, <2>4, <2>5 DEF IInv
<1> QED
  BY <1>1, <1>2, <1>3, <1>4, <1>5, <1>6

(* Every step keeps the invariant.                                         *)
LEMMA NextIInv == IInv /\ [Next]_vars => IInv'
<1> SUFFICES ASSUME IInv, [Next]_vars PROVE IInv'
  OBVIOUS
<1>1. CASE UNCHANGED vars
  BY <1>1 DEF vars, store, process, IInv, TypeOK, WaitInv, AcceptInv, NameInv, Ready
<1>2. ASSUME NEW p \in Instances, Hooks(p) PROVE IInv'
  BY <1>2, InstallKeeps, WaitKeeps, ControllersKeep, GenerateKeeps, SelfCallsKeep,
     EnvironmentKeeps DEF Hooks, SelfManagement
<1> QED
  BY <1>1, <1>2, EnvironmentKeeps DEF Next

(* The invariant holds in every reachable state.                           *)
LEMMA Invariance == Spec => []IInv
BY InitIInv, NextIInv, PTL DEF Spec

(* The variables of the bootstrap hooks have their types: no hook works    *)
(* past the end of its list of CRDs.                                       *)
THEOREM TypeCorrect == Spec => []TypeOK
<1>1. IInv => TypeOK
  BY DEF IInv
<1> QED
  BY <1>1, Invariance, PTL

(* The hub controllers of a process that is not going down run only when   *)
(* every CRD is established: what WaitFOROCMCRDsReady has passed stays.    *)
THEOREM ControllersWaitForCRDs == Spec => []ControllersAfterCRDs
<1>1. IInv => ControllersAfterCRDs
  BY ControllersReady DEF ControllersAfterCRDs, Ready
<1> QED
  BY <1>1, Invariance, PTL

(* The agent of InstallSelfManagementCluster runs only for an accepted     *)
(* cluster with its namespace, on a hub with all its CRDs.                 *)
THEOREM AgentWaitsForAcceptance == Spec => []AgentAfterAcceptance
<1>1. IInv => AgentAfterAcceptance
  BY DEF IInv, TypeOK, AcceptInv, AgentAfterAcceptance
<1> QED
  BY <1>1, Invariance, PTL

(* Without a failed question for the hosting cluster's identity there is   *)
(* never more than one self-managed cluster, however many controlplanes    *)
(* and restarts there are.                                                 *)
THEOREM RegisteredOnce == Spec => []OneSelfCluster
<1>1. ASSUME IInv PROVE OneSelfCluster
  <2> DEFINE S == {n \in Names : cluster[n] # "absent"} \cup namespaces
  <2>1. CASE misnamed
    BY <2>1 DEF OneSelfCluster
  <2>2. CASE ~misnamed
    <3>1. S \subseteq {StableName}
      BY <1>1, <2>2 DEF IInv, NameInv
    <3>2. IsFiniteSet({StableName}) /\ Cardinality({StableName}) = 1
      BY FS_Singleton
    <3>3. Cardinality(S) <= 1
      BY <3>1, <3>2, FS_Subset
    <3> QED
      BY <3>3 DEF OneSelfCluster
  <2> QED
    BY <2>1, <2>2
<1> QED
  BY <1>1, Invariance, PTL
-------------------------------------------------------------------------------
(* The causes of klog.Fatal, counted.                                      *)

(* The hooks whose Create comes too late, the processes whose context is   *)
(* cancelled, and the clusters that were created.                          *)
LateForNamespace == {p \in Instances : self[p] = "putns" /\ name[p] \in namespaces}
LateForCluster == {p \in Instances : self[p] = "putcluster" /\ cluster[name[p]] # "absent"}
Stopping == {p \in Instances : up[p] = "stopping"}
Created == {n \in Names : cluster[n] # "absent"}

(* Each of those processes may still end itself once, and that is paid for *)
(* like the exits before: an object pays for all processes but the one     *)
(* that created it.                                                        *)
Due == Cardinality(LateForNamespace) + Cardinality(LateForCluster) + Cardinality(Stopping)
Paid ==
  errors + stops + (Cardinality(Instances) - 1) * (Cardinality(Created) + Cardinality(namespaces))
CausesInv == fatals + Due <= Paid

(* A cluster was created through an API that is served.                    *)
ServedInv == \A n \in Names : cluster[n] # "absent" => Served

(* One more object pays for all processes but one.                         *)
LEMMA OneMore ==
  ASSUME NEW m \in Int, NEW a \in Int
  PROVE  m * (a + 1) = m * a + m
OBVIOUS

(* The counts are numbers.                                                 *)
LEMMA Counts ==
  ASSUME TypeOK
  PROVE  /\ IsFiniteSet(LateForNamespace) /\ Cardinality(LateForNamespace) \in Nat
         /\ IsFiniteSet(LateForCluster) /\ Cardinality(LateForCluster) \in Nat
         /\ IsFiniteSet(Stopping) /\ Cardinality(Stopping) \in Nat
         /\ IsFiniteSet(Created) /\ Cardinality(Created) \in Nat
         /\ IsFiniteSet(namespaces) /\ Cardinality(namespaces) \in Nat
         /\ IsFiniteSet(Instances) /\ Cardinality(Instances) \in Nat
<1>1. IsFiniteSet(Instances) /\ IsFiniteSet(Names)
  BY BootstrapAssumption DEF BootstrapAssumption
<1>2. /\ LateForNamespace \in SUBSET Instances /\ LateForCluster \in SUBSET Instances
      /\ Stopping \in SUBSET Instances
  BY DEF LateForNamespace, LateForCluster, Stopping
<1>3. Created \in SUBSET Names /\ namespaces \in SUBSET Names
  BY DEF Created, TypeOK
<1> QED
  BY <1>1, <1>2, <1>3, FS_Subset, FS_CardinalityType

(* A subset of a finite set, and one that lacks an element of it.          *)
LEMMA Fewer ==
  ASSUME NEW S, IsFiniteSet(S), NEW T, T \subseteq S
  PROVE  /\ Cardinality(T) \in Nat /\ Cardinality(S) \in Nat
         /\ Cardinality(T) <= Cardinality(S)
         /\ \A p \in S : p \notin T => Cardinality(T) + 1 <= Cardinality(S)
<1>1. IsFiniteSet(T) /\ Cardinality(T) <= Cardinality(S) /\ (Cardinality(S) = Cardinality(T) => S = T)
  BY FS_Subset
<1>2. Cardinality(T) \in Nat /\ Cardinality(S) \in Nat
  BY <1>1, FS_CardinalityType
<1>3. ASSUME NEW p \in S, p \notin T PROVE Cardinality(T) + 1 <= Cardinality(S)
  <2>1. S # T
    BY <1>3
  <2> QED
    BY <1>1, <1>2, <2>1
<1> QED
  BY <1>1, <1>2, <1>3

(* What is due and paid, with the objects' part of it in one number.       *)
Objects == (Cardinality(Instances) - 1) * (Cardinality(Created) + Cardinality(namespaces))

(* The numbers that the next lemmas compute with.                          *)
AreNumbers ==
  /\ Due \in Nat /\ Objects \in Int /\ Paid = errors + stops + Objects
  /\ errors \in Nat /\ stops \in Nat /\ fatals \in Nat

(* They are, in every state of the right type.                             *)
LEMMA Numbers == TypeOK => AreNumbers
BY Counts DEF TypeOK, Due, Paid, Objects, AreNumbers

(* Before and after a step.                                                *)
LEMMA NumbersThen == TypeOK' => AreNumbers'
BY Numbers, PTL

(* The books stay balanced when what a step adds to the exits and the dues *)
(* is no more than what it pays.                                           *)
LEMMA Balanced ==
  ASSUME TypeOK, TypeOK', CausesInv,
         NEW f \in Int, NEW e \in Int, NEW s \in Int, NEW x \in Int, NEW o \in Int,
         fatals' = fatals + f, errors' = errors + e, stops' = stops + s,
         Objects' = Objects + o, Due' <= Due + x, f + x <= e + s + o
  PROVE  CausesInv'
<1>1. AreNumbers /\ AreNumbers'
  BY Numbers, NumbersThen
<1>2. PICK fatals0 \in Int, errors0 \in Int, stops0 \in Int, objects0 \in Int :
        fatals0 = fatals /\ errors0 = errors /\ stops0 = stops /\ objects0 = Objects
  BY <1>1 DEF AreNumbers
<1>3. PICK due0 \in Int, due1 \in Int : due0 = Due /\ due1 = Due'
  BY <1>1 DEF AreNumbers
<1>4. fatals0 + due0 <= errors0 + stops0 + objects0 /\ due1 <= due0 + x
  BY <1>1, <1>2, <1>3 DEF CausesInv, AreNumbers
<1>5. (fatals0 + f) + due1 <= (errors0 + e) + (stops0 + s) + (objects0 + o)
  BY <1>4
<1>6. Paid' = (errors0 + e) + (stops0 + s) + (objects0 + o)
  BY <1>1, <1>2 DEF AreNumbers
<1>7. fatals' + Due' = (fatals0 + f) + due1
  BY <1>2, <1>3
<1> QED
  BY <1>5, <1>6, <1>7 DEF CausesInv

(* No more processes are due, and each exit of this step is a failed call  *)
(* or a stop.                                                              *)
LEMMA NoMoreDue ==
  ASSUME TypeOK, TypeOK', CausesInv,
         LateForNamespace' \subseteq LateForNamespace, LateForCluster' \subseteq LateForCluster,
         Stopping' \subseteq Stopping, Created' = Created, namespaces' = namespaces,
         NEW f \in Int, NEW e \in Int, NEW s \in Int, f <= e + s,
         fatals' = fatals + f, errors' = errors + e, stops' = stops + s
  PROVE  CausesInv'
<1>1. Due' <= Due
  <2> DEFINE a == Cardinality(LateForNamespace)
             b == Cardinality(LateForCluster)
             c == Cardinality(Stopping)
  <2>1. /\ a' <= a /\ b' <= b /\ c' <= c
        /\ a \in Nat /\ b \in Nat /\ c \in Nat /\ a' \in Nat /\ b' \in Nat /\ c' \in Nat
    BY Counts, Fewer
  <2> QED
    BY <2>1 DEF Due
<1>2. Objects' = Objects + 0 /\ Due' <= Due + 0
  BY <1>1, Numbers, NumbersThen DEF Objects, AreNumbers
<1>3. f + 0 <= e + s + 0
  OBVIOUS
<1> QED
  BY <1>2, <1>3, Balanced

(* One process that was due ends itself.                                   *)
LEMMA OneLessDue ==
  ASSUME TypeOK, TypeOK', CausesInv, NEW p \in Instances,
         LateForNamespace' \subseteq LateForNamespace, LateForCluster' \subseteq LateForCluster,
         Stopping' \subseteq Stopping, Created' = Created, namespaces' = namespaces,
         \/ p \in LateForNamespace /\ p \notin LateForNamespace'
         \/ p \in LateForCluster /\ p \notin LateForCluster'
         \/ p \in Stopping /\ p \notin Stopping',
         fatals' = fatals + 1, errors' = errors, stops' = stops
  PROVE  CausesInv'
<1>1. Due' + 1 <= Due
  <2> DEFINE a == Cardinality(LateForNamespace)
             b == Cardinality(LateForCluster)
             c == Cardinality(Stopping)
  <2>1. /\ a' <= a /\ b' <= b /\ c' <= c
        /\ a' + 1 <= a \/ b' + 1 <= b \/ c' + 1 <= c
        /\ a \in Nat /\ b \in Nat /\ c \in Nat /\ a' \in Nat /\ b' \in Nat /\ c' \in Nat
    BY Counts, Fewer
  <2> QED
    BY <2>1 DEF Due
<1>2. PICK due0 \in Int, due1 \in Int : due0 = Due /\ due1 = Due'
  BY Numbers, NumbersThen DEF AreNumbers
<1>3. due1 + 1 <= due0
  BY <1>1, <1>2
<1>4. PICK x \in Int : 1 + x = 0
  <2>1. -1 \in Int /\ 1 + (-1) = 0
    OBVIOUS
  <2> QED
    BY <2>1
<1>5. due1 <= due0 + x
  BY <1>3, <1>4
<1>6. Due' <= Due + x
  BY <1>2, <1>5
<1>7. Objects' = Objects + 0 /\ stops' = stops + 0 /\ errors' = errors + 0
  BY Numbers DEF Objects, AreNumbers
<1>8. 1 + x <= 0 + 0 + 0
  BY <1>4
<1> QED
  BY <1>6, <1>7, <1>8, Balanced

(* A stop pays for the process it stops.                                   *)
LEMMA OneMoreStop ==
  ASSUME TypeOK, TypeOK', CausesInv, NEW p \in Instances,
         LateForNamespace' = LateForNamespace, LateForCluster' = LateForCluster,
         Stopping' = Stopping \cup {p}, Created' = Created, namespaces' = namespaces,
         fatals' = fatals, errors' = errors, stops' = stops + 1
  PROVE  CausesInv'
<1>1. Due' <= Due + 1
  <2> DEFINE S == Stopping \cup {p}
             a == Cardinality(LateForNamespace)
             b == Cardinality(LateForCluster)
  <2>1. IsFiniteSet(S) /\ Cardinality(S) \in {Cardinality(Stopping), Cardinality(Stopping) + 1}
    BY Counts, FS_AddElement
  <2>2. Stopping' = S
    OBVIOUS
  <2>3. /\ Due' = a + b + Cardinality(S) /\ Due = a + b + Cardinality(Stopping)
        /\ a \in Nat /\ b \in Nat /\ Cardinality(Stopping) \in Nat
    BY <2>2, Counts DEF Due
  <2> HIDE DEF S, a, b
  <2>4. Cardinality(S) \in Nat /\ Cardinality(S) <= Cardinality(Stopping) + 1
    BY <2>1, <2>3
  <2>5. a + b + Cardinality(S) <= a + b + Cardinality(Stopping) + 1
    BY <2>3, <2>4
  <2> QED
    BY <2>3, <2>5
<1>2. Objects' = Objects + 0 /\ fatals' = fatals + 0 /\ errors' = errors + 0
  BY Numbers DEF Objects, AreNumbers
<1>3. 0 + 1 <= 0 + 1 + 0
  OBVIOUS
<1> QED
  BY <1>1, <1>2, <1>3, Balanced

(* All processes but p number one less.                                    *)
LEMMA AllButOne ==
  ASSUME TypeOK, NEW p \in Instances, NEW S, IsFiniteSet(S), NEW T,
         T \subseteq S \cup (Instances \ {p})
  PROVE  /\ Cardinality(T) \in Nat /\ Cardinality(S) \in Nat
         /\ Cardinality(T) <= Cardinality(S) + (Cardinality(Instances) - 1)
<1> DEFINE O == Instances \ {p}
<1>1. IsFiniteSet(O) /\ Cardinality(O) = Cardinality(Instances) - 1
  BY Counts, FS_RemoveElement
<1>2. /\ IsFiniteSet(S \cup O)
      /\ Cardinality(S \cup O) = Cardinality(S) + Cardinality(O) - Cardinality(S \cap O)
  BY <1>1, FS_Union
<1>3. IsFiniteSet(S \cap O)
  BY FS_Intersection
<1>4. Cardinality(S) \in Nat /\ Cardinality(O) \in Nat /\ Cardinality(S \cap O) \in Nat
  BY <1>1, <1>3, FS_CardinalityType
<1>5. Cardinality(T) \in Nat /\ Cardinality(T) <= Cardinality(S \cup O)
  BY <1>2, Fewer
<1> HIDE DEF O
<1> QED
  BY <1>1, <1>2, <1>4, <1>5, Counts

(* A namespace that p creates pays for the others that wanted to.          *)
LEMMA NamespaceCreated ==
  ASSUME TypeOK, TypeOK', CausesInv, NEW p \in Instances,
         LateForNamespace' \subseteq LateForNamespace \cup (Instances \ {p}),
         LateForCluster' \subseteq LateForCluster, Stopping' \subseteq Stopping,
         Created' = Created, NEW n \in Names \ namespaces, namespaces' = namespaces \cup {n},
         NEW f \in {0, 1}, fatals' = fatals + f, errors' = errors + f, stops' = stops
  PROVE  CausesInv'
<1> DEFINE m == Cardinality(Instances) - 1
           k == Cardinality(Created) + Cardinality(namespaces)
<1>1. m \in Int /\ k \in Int /\ Objects = m * k
  BY Counts DEF Objects
<1>2. Objects' = Objects + m
  <2>1. Cardinality(namespaces') = Cardinality(namespaces) + 1
    BY Counts, FS_AddElement
  <2>2. Cardinality(Created) + Cardinality(namespaces') = k + 1
    BY <2>1, Counts
  <2>3. Objects' = m * (k + 1)
    BY <2>2 DEF Objects
  <2> HIDE DEF m, k
  <2> QED
    BY <1>1, <2>3, OneMore
<1>3. Due' <= Due + m
  <2> DEFINE a == Cardinality(LateForNamespace)
             b == Cardinality(LateForCluster)
             c == Cardinality(Stopping)
  <2>1. /\ b' <= b /\ c' <= c /\ b' \in Nat /\ c' \in Nat
        /\ a \in Nat /\ b \in Nat /\ c \in Nat
    BY Counts, Fewer
  <2>2. a' <= a + m /\ a' \in Nat
    BY Counts, AllButOne
  <2> QED
    BY <1>1, <2>1, <2>2 DEF Due
<1>4. stops' = stops + 0 /\ f \in Int /\ f + m <= f + 0 + m
  BY <1>1, Numbers DEF AreNumbers
<1> HIDE DEF m, k
<1> QED
  BY <1>1, <1>2, <1>3, <1>4, Balanced

(* And so does a cluster.                                                  *)
LEMMA ClusterCreated ==
  ASSUME TypeOK, TypeOK', CausesInv, NEW p \in Instances,
         LateForCluster' \subseteq LateForCluster \cup (Instances \ {p}),
         LateForNamespace' \subseteq LateForNamespace, Stopping' \subseteq Stopping,
         namespaces' = namespaces, NEW n \in Names \ Created, Created' = Created \cup {n},
         NEW f \in {0, 1}, fatals' = fatals + f, errors' = errors + f, stops' = stops
  PROVE  CausesInv'
<1> DEFINE m == Cardinality(Instances) - 1
           k == Cardinality(Created) + Cardinality(namespaces)
<1>1. m \in Int /\ k \in Int /\ Objects = m * k
  BY Counts DEF Objects
<1>2. Objects' = Objects + m
  <2>1. Cardinality(Created') = Cardinality(Created) + 1
    BY Counts, FS_AddElement
  <2>2. Cardinality(Created') + Cardinality(namespaces) = k + 1
    BY <2>1, Counts
  <2>3. Objects' = m * (k + 1)
    BY <2>2 DEF Objects
  <2> HIDE DEF m, k
  <2> QED
    BY <1>1, <2>3, OneMore
<1>3. Due' <= Due + m
  <2> DEFINE a == Cardinality(LateForNamespace)
             b == Cardinality(LateForCluster)
             c == Cardinality(Stopping)
  <2>1. /\ a' <= a /\ c' <= c /\ a' \in Nat /\ c' \in Nat
        /\ a \in Nat /\ b \in Nat /\ c \in Nat
    BY Counts, Fewer
  <2>2. b' <= b + m /\ b' \in Nat
    BY Counts, AllButOne
  <2> QED
    BY <1>1, <2>1, <2>2 DEF Due
<1>4. stops' = stops + 0 /\ f \in Int /\ f + m <= f + 0 + m
  BY <1>1, Numbers DEF AreNumbers
<1> HIDE DEF m, k
<1> QED
  BY <1>1, <1>2, <1>3, <1>4, Balanced

(* No hook comes later, and no process is stopped or object created.       *)
Calm ==
  /\ LateForNamespace' \subseteq LateForNamespace /\ LateForCluster' \subseteq LateForCluster
  /\ Stopping' \subseteq Stopping /\ Created' = Created /\ namespaces' = namespaces

(* A step outside the self-management hook is calm.                        *)
LEMMA OthersCalm ==
  ASSUME TypeOK, Stopping' \subseteq Stopping,
         UNCHANGED <<self, name, namespaces, cluster>>
  PROVE  Calm
BY DEF Calm, LateForNamespace, LateForCluster, Created

(* The end of a process is calm, and none of the sets has it any more.     *)
LEMMA ExitCalm ==
  ASSUME TypeOK, NEW p \in Instances, Exits(p), UNCHANGED <<namespaces, cluster>>
  PROVE  /\ Calm /\ p \notin LateForNamespace' /\ p \notin LateForCluster'
         /\ p \notin Stopping'
<1>1. self'[p] \in {"off", "name"} /\ up'[p] = "down"
  BY SelfStarts DEF TypeOK, Exits
<1>2. \A q \in Instances \ {p} : self'[q] = self[q] /\ name'[q] = name[q] /\ up'[q] = up[q]
  BY DEF TypeOK, Exits
<1>3. p \notin LateForNamespace' /\ p \notin LateForCluster' /\ p \notin Stopping'
  BY <1>1 DEF LateForNamespace, LateForCluster, Stopping
<1>4. LateForNamespace' \subseteq LateForNamespace
  BY <1>2, <1>3 DEF LateForNamespace
<1>5. LateForCluster' \subseteq LateForCluster
  BY <1>2, <1>3 DEF LateForCluster
<1>6. Stopping' \subseteq Stopping
  BY <1>2, <1>3 DEF Stopping
<1> QED
  BY <1>3, <1>4, <1>5, <1>6 DEF Calm, Created

(* A hook that goes on to a call that is not late yet is calm.             *)
LEMMA HookCalm ==
  ASSUME TypeOK, NEW p \in Instances, NEW next, self' = [self EXCEPT ![p] = next],
         UNCHANGED <<up, namespaces, cluster>>,
         \A q \in Instances \ {p} : name'[q] = name[q],
         next = "putns" => name'[p] \notin namespaces,
         next = "putcluster" => cluster[name'[p]] = "absent"
  PROVE  Calm
<1>1. self'[p] = next /\ \A q \in Instances \ {p} : self'[q] = self[q]
  BY DEF TypeOK
<1>2. p \notin LateForNamespace' /\ p \notin LateForCluster'
  BY <1>1 DEF LateForNamespace, LateForCluster
<1>3. LateForNamespace' \subseteq LateForNamespace
  BY <1>1, <1>2 DEF LateForNamespace
<1>4. LateForCluster' \subseteq LateForCluster
  BY <1>1, <1>2 DEF LateForCluster
<1> QED
  BY <1>3, <1>4 DEF Calm, Stopping, Created

(* A calm step with exits for which a call failed or somebody stopped the  *)
(* process keeps the balance.                                              *)
LEMMA CalmBalance ==
  ASSUME TypeOK, TypeOK', CausesInv, Calm,
         \/ fatals' = fatals /\ errors' \in {errors, errors + 1} /\ stops' \in {stops, stops + 1}
         \/ fatals' = fatals + 1 /\ errors' = errors + 1 /\ stops' = stops
  PROVE  CausesInv'
<1>1. errors \in Nat /\ stops \in Nat /\ fatals \in Nat
  BY DEF TypeOK
<1>2. PICK f \in {0, 1}, e \in {0, 1}, s \in {0, 1} :
        fatals' = fatals + f /\ errors' = errors + e /\ stops' = stops + s /\ f <= e + s
  <2>1. CASE fatals' = fatals /\ errors' \in {errors, errors + 1} /\ stops' \in {stops, stops + 1}
    <3>1. fatals' = fatals + 0
      BY <1>1, <2>1
    <3>2. PICK e \in {0, 1} : errors' = errors + e
      BY <1>1, <2>1
    <3>3. PICK s \in {0, 1} : stops' = stops + s
      BY <1>1, <2>1
    <3>4. 0 <= e + s
      OBVIOUS
    <3> QED
      BY <3>1, <3>2, <3>3, <3>4
  <2>2. CASE fatals' = fatals + 1 /\ errors' = errors + 1 /\ stops' = stops
    <3>1. stops' = stops + 0 /\ 1 <= 1 + 0
      BY <1>1, <2>2
    <3> QED
      BY <2>2, <3>1
  <2> QED
    BY <2>1, <2>2
<1>3. f \in Int /\ e \in Int /\ s \in Int
  OBVIOUS
<1> QED
  BY <1>2, <1>3, NoMoreDue DEF Calm

(* GetNamespace and GenerateSelfManagedClusterName.                        *)
LEMMA NameCauses ==
  ASSUME TypeOK, TypeOK', CausesInv, NEW p \in Instances,
         GenerateSelfManagedClusterName(p) \/ GetNamespace(p)
  PROVE  CausesInv'
<1>1. CASE Fails /\ Fatal(p)
  <2>1. UNCHANGED <<namespaces, cluster>> /\ stops' = stops
    BY <1>1 DEF GenerateSelfManagedClusterName, GetNamespace, SelfCall, store
  <2>2. Calm
    BY <1>1, <2>1, ExitCalm DEF Fatal
  <2> QED
    BY <1>1, <2>1, <2>2, CalmBalance DEF Fails, Fatal
<1>2. CASE GenerateSelfManagedClusterName(p) /\ Selves(p, "getns") /\ UNCHANGED fatals
  <2>1. /\ UNCHANGED <<namespaces, cluster, up>> /\ stops' = stops /\ errors' \in {errors, errors + 1}
    BY <1>2 DEF GenerateSelfManagedClusterName, Fails, Fatal, Exits, Selves, store, TypeOK
  <2>2. \A q \in Instances \ {p} : name'[q] = name[q]
    BY <1>2 DEF GenerateSelfManagedClusterName, Fatal, Exits, TypeOK
  <2>3. Calm
    BY <1>2, <2>1, <2>2, HookCalm DEF Selves
  <2> QED
    BY <1>2, <2>1, <2>3, CalmBalance
<1>3. CASE /\ GetNamespace(p)
           /\ Selves(p, IF name[p] \in namespaces THEN "getcluster" ELSE "putns")
           /\ UNCHANGED <<up, crdAt, waitAt, controllers, name, errors, fatals>>
           /\ UNCHANGED store
  <2> DEFINE next == IF name[p] \in namespaces THEN "getcluster" ELSE "putns"
  <2>1. /\ next = "putns" => name[p] \notin namespaces
        /\ next # "putcluster" /\ self' = [self EXCEPT ![p] = next]
    BY <1>3 DEF Selves
  <2> HIDE DEF next
  <2>2. Calm
    BY <1>3, <2>1, HookCalm DEF store
  <2>3. stops' = stops
    BY <1>3 DEF GetNamespace
  <2> QED
    BY <1>3, <2>2, <2>3, CalmBalance
<1> QED
  BY <1>1, <1>2, <1>3 DEF GenerateSelfManagedClusterName, GetNamespace, SelfCall

(* CreateNamespace: the namespace is new, or the hook came too late.       *)
LEMMA CreateNamespaceCauses ==
  ASSUME TypeOK, TypeOK', CausesInv, NEW p \in Instances, CreateNamespace(p)
  PROVE  CausesInv'
<1> DEFINE n == name[p]
<1>0. n \in Names /\ stops' = stops /\ self[p] = "putns"
      /\ errors \in Nat /\ fatals \in Nat
  BY DEF TypeOK, CreateNamespace
<1>1. CASE n \in namespaces /\ Fatal(p) /\ UNCHANGED <<store, errors>>
  <2>1. /\ Calm /\ p \notin LateForNamespace'
    BY <1>1, ExitCalm DEF Fatal, store
  <2>2. p \in LateForNamespace
    BY <1>0, <1>1 DEF LateForNamespace
  <2> QED
    BY <1>0, <1>1, <2>1, <2>2, OneLessDue DEF Calm, Fatal
<1>2. CASE Fails /\ Fatal(p) /\ UNCHANGED store
  <2>1. Calm
    BY <1>2, ExitCalm DEF Fatal, store
  <2> QED
    BY <1>0, <1>2, <2>1, CalmBalance DEF Fails, Fatal
<1>3. ASSUME n \notin namespaces, namespaces' = namespaces \cup {n}, UNCHANGED cluster,
             self'[p] # "putns", self'[p] # "putcluster", up'[p] # "stopping",
             \A q \in Instances \ {p} : self'[q] = self[q] /\ name'[q] = name[q] /\ up'[q] = up[q],
             \/ fatals' = fatals /\ errors' = errors
             \/ fatals' = fatals + 1 /\ errors' = errors + 1
      PROVE  CausesInv'
  <2>1. LateForNamespace' \subseteq LateForNamespace \cup (Instances \ {p})
    BY <1>3 DEF LateForNamespace
  <2>2. LateForCluster' \subseteq LateForCluster
    BY <1>3 DEF LateForCluster
  <2>3. Stopping' \subseteq Stopping
    BY <1>3 DEF Stopping
  <2>4. Created' = Created
    BY <1>3 DEF Created
  <2>5. PICK f \in {0, 1} : fatals' = fatals + f /\ errors' = errors + f
    BY <1>0, <1>3
  <2> HIDE DEF n
  <2> QED
    BY <1>0, <1>3, <2>1, <2>2, <2>3, <2>4, <2>5, NamespaceCreated
<1>4. CASE /\ n \notin namespaces /\ Fails /\ Fatal(p)
           /\ namespaces' = namespaces \cup {n} /\ UNCHANGED <<crd, cluster>>
  <2>1. self'[p] # "putns" /\ self'[p] # "putcluster" /\ up'[p] # "stopping"
    BY <1>4, SelfStarts DEF TypeOK, Fatal, Exits
  <2>2. \A q \in Instances \ {p} : self'[q] = self[q] /\ name'[q] = name[q] /\ up'[q] = up[q]
    BY <1>4 DEF TypeOK, Fatal, Exits
  <2> QED
    BY <1>3, <1>4, <2>1, <2>2 DEF Fails, Fatal
<1>5. CASE /\ n \notin namespaces /\ Selves(p, "getcluster")
           /\ UNCHANGED <<up, crdAt, waitAt, controllers, name, errors, fatals>>
           /\ namespaces' = namespaces \cup {n} /\ UNCHANGED <<crd, cluster>>
  <2>1. self'[p] = "getcluster" /\ up'[p] # "stopping"
    BY <1>5 DEF TypeOK, Selves, CreateNamespace
  <2>2. \A q \in Instances \ {p} : self'[q] = self[q] /\ name'[q] = name[q] /\ up'[q] = up[q]
    BY <1>5 DEF TypeOK, Selves
  <2> QED
    BY <1>3, <1>5, <2>1, <2>2
<1> QED
  BY <1>1, <1>2, <1>4, <1>5 DEF CreateNamespace, SelfCall

(* GetSelfCluster: the hook goes on to a Create only of a cluster that is  *)
(* not there.                                                              *)
LEMMA GetClusterCauses ==
  ASSUME TypeOK, TypeOK', CausesInv, ServedInv, NEW p \in Instances, GetSelfCluster(p)
  PROVE  CausesInv'
<1>0. name[p] \in Names /\ stops' = stops
  BY DEF TypeOK, GetSelfCluster
<1>1. CASE Fails /\ Fatal(p) /\ UNCHANGED store
  <2>1. Calm
    BY <1>1, ExitCalm DEF Fatal, store
  <2> QED
    BY <1>0, <1>1, <2>1, CalmBalance DEF Fails, Fatal
<1>2. CASE /\ Selves(p, AfterGet(p))
           /\ UNCHANGED <<up, crdAt, waitAt, controllers, name, errors, fatals>>
           /\ UNCHANGED store
  <2>1. /\ AfterGet(p) # "putns"
        /\ AfterGet(p) = "putcluster" => cluster[name[p]] = "absent"
    BY <1>0 DEF AfterGet, ServedInv
  <2>2. Calm
    BY <1>2, <2>1, HookCalm DEF Selves, store
  <2> QED
    BY <1>0, <1>2, <2>2, CalmBalance
<1> QED
  BY <1>1, <1>2 DEF GetSelfCluster, SelfCall

(* CreateSelfCluster: the API is not there, the cluster is new, or the     *)
(* hook came too late.                                                     *)
LEMMA CreateClusterCauses ==
  ASSUME TypeOK, TypeOK', CausesInv, NEW p \in Instances, CreateSelfCluster(p)
  PROVE  CausesInv'
<1> DEFINE n == name[p]
           made == cluster' = [cluster EXCEPT ![n] = "created"] /\ UNCHANGED <<crd, namespaces>>
<1>0. n \in Names /\ stops' = stops /\ self[p] = "putcluster"
      /\ errors \in Nat /\ fatals \in Nat
  BY DEF TypeOK, CreateSelfCluster
<1>1. CASE cluster[n] # "absent" /\ Fatal(p) /\ UNCHANGED <<store, errors>>
  <2>1. /\ Calm /\ p \notin LateForCluster'
    BY <1>1, ExitCalm DEF Fatal, store
  <2>2. p \in LateForCluster
    BY <1>0, <1>1 DEF LateForCluster
  <2> QED
    BY <1>0, <1>1, <2>1, <2>2, OneLessDue DEF Calm, Fatal
<1>2. CASE Fails /\ Fatal(p) /\ UNCHANGED store
  <2>1. Calm
    BY <1>2, ExitCalm DEF Fatal, store
  <2> QED
    BY <1>0, <1>2, <2>1, CalmBalance DEF Fails, Fatal
<1>3. CASE /\ Selves(p, "getcluster") /\ UNCHANGED store
           /\ UNCHANGED <<up, crdAt, waitAt, controllers, name, errors, fatals>>
  <2>1. Calm
    BY <1>3, HookCalm DEF Selves, store
  <2> QED
    BY <1>0, <1>3, <2>1, CalmBalance
<1>4. ASSUME cluster[n] = "absent", made,
             self'[p] # "putns", self'[p] # "putcluster", up'[p] # "stopping",
             \A q \in Instances \ {p} : self'[q] = self[q] /\ name'[q] = name[q] /\ up'[q] = up[q],
             \/ fatals' = fatals /\ errors' = errors
             \/ fatals' = fatals + 1 /\ errors' = errors + 1
      PROVE  CausesInv'
  <2>1. LateForCluster' \subseteq LateForCluster \cup (Instances \ {p})
    BY <1>4 DEF LateForCluster
  <2>2. LateForNamespace' \subseteq LateForNamespace
    BY <1>4 DEF LateForNamespace
  <2>3. Stopping' \subseteq Stopping
    BY <1>4 DEF Stopping
  <2>4. Created' = Created \cup {n} /\ n \notin Created
    BY <1>0, <1>4 DEF Created, TypeOK
  <2>5. PICK f \in {0, 1} : fatals' = fatals + f /\ errors' = errors + f
    BY <1>0, <1>4
  <2> HIDE DEF n
  <2> QED
    BY <1>0, <1>4, <2>1, <2>2, <2>3, <2>4, <2>5, ClusterCreated
<1>5. CASE cluster[n] = "absent" /\ Fails /\ Fatal(p) /\ made
  <2>1. self'[p] # "putns" /\ self'[p] # "putcluster" /\ up'[p] # "stopping"
    BY <1>5, SelfStarts DEF TypeOK, Fatal, Exits
  <2>2. \A q \in Instances \ {p} : self'[q] = self[q] /\ name'[q] = name[q] /\ up'[q] = up[q]
    BY <1>5 DEF TypeOK, Fatal, Exits
  <2> QED
    BY <1>4, <1>5, <2>1, <2>2 DEF Fails, Fatal
<1>6. CASE /\ cluster[n] = "absent" /\ Selves(p, "getcluster") /\ made
           /\ UNCHANGED <<up, crdAt, waitAt, controllers, name, errors, fatals>>
  <2>1. self'[p] = "getcluster" /\ up'[p] # "stopping"
    BY <1>6 DEF TypeOK, Selves, CreateSelfCluster
  <2>2. \A q \in Instances \ {p} : self'[q] = self[q] /\ name'[q] = name[q] /\ up'[q] = up[q]
    BY <1>6 DEF TypeOK, Selves
  <2> QED
    BY <1>4, <1>6, <2>1, <2>2
<1> QED
  BY <1>1, <1>2, <1>3, <1>5, <1>6 DEF CreateSelfCluster, CreateNotFound, SelfCall

(* Signals and the end of a process: a cancelled context is paid for by    *)
(* the signal.                                                             *)
LEMMA StopCauses ==
  ASSUME TypeOK, TypeOK', CausesInv, NEW p \in Instances,
         Signal(p) \/ Shutdown(p) \/ Crash(p)
  PROVE  CausesInv'
<1>1. CASE Signal(p)
  <2>1. Stopping' = Stopping \cup {p}
    BY <1>1 DEF Signal, Stopping, TypeOK
  <2>2. UNCHANGED <<self, name, namespaces, cluster, fatals, errors>> /\ stops' = stops + 1
    BY <1>1 DEF Signal, store
  <2>3. /\ LateForNamespace' = LateForNamespace /\ LateForCluster' = LateForCluster
        /\ Created' = Created
    BY <2>2 DEF LateForNamespace, LateForCluster, Created
  <2> QED
    BY <2>1, <2>2, <2>3, OneMoreStop
<1>2. CASE Shutdown(p) /\ Exits(p) /\ UNCHANGED fatals
  <2>1. UNCHANGED <<namespaces, cluster, errors, stops>>
    BY <1>2 DEF Shutdown, store
  <2> QED
    BY <1>2, <2>1, ExitCalm, CalmBalance
<1>3. CASE Shutdown(p) /\ Fatal(p)
  <2>1. UNCHANGED <<namespaces, cluster, errors, stops>> /\ p \in Stopping
    BY <1>3 DEF Shutdown, store, Stopping
  <2>2. Calm /\ p \notin Stopping'
    BY <1>3, <2>1, ExitCalm DEF Fatal
  <2> QED
    BY <1>3, <2>1, <2>2, OneLessDue DEF Calm, Fatal
<1>4. CASE Crash(p)
  <2>1. UNCHANGED <<namespaces, cluster, errors, fatals>> /\ stops' = stops + 1 /\ Exits(p)
    BY <1>4 DEF Crash, store
  <2> QED
    BY <2>1, ExitCalm, CalmBalance
<1> QED
  BY <1>1, <1>2, <1>3, <1>4 DEF Shutdown

(* The other hooks, the supervisor and the hub end no process.             *)
LEMMA OtherCauses ==
  ASSUME TypeOK, TypeOK', CausesInv,
         \/ UNCHANGED vars
         \/ \E p \in Instances : \/ NewServer(p) \/ InstallBaseCRDs(p)
                                 \/ WaitFOROCMCRDsReady(p) \/ RunControllers(p)
         \/ \E c \in CRDs : Establish(c)
         \/ \E n \in Names : AcceptCluster(n)
  PROVE  CausesInv'
<1>1. CASE UNCHANGED vars
  <2>1. UNCHANGED <<self, name, namespaces, cluster, up, fatals, errors, stops>>
    BY <1>1 DEF vars, store, process
  <2>2. Calm
    BY <2>1, OthersCalm DEF Stopping
  <2> QED
    BY <2>1, <2>2, CalmBalance
<1>2. ASSUME NEW p \in Instances, NewServer(p) PROVE CausesInv'
  <2>1. UNCHANGED <<self, name, namespaces, cluster, fatals, errors, stops>>
    BY <1>2 DEF NewServer, store
  <2>2. Stopping' \subseteq Stopping
    BY <1>2 DEF NewServer, Stopping, TypeOK
  <2> QED
    BY <2>1, <2>2, OthersCalm, CalmBalance
<1>3. ASSUME NEW p \in Instances,
             InstallBaseCRDs(p) \/ WaitFOROCMCRDsReady(p) \/ RunControllers(p)
      PROVE  CausesInv'
  <2>1. /\ UNCHANGED <<self, name, namespaces, cluster, up, fatals, stops>>
        /\ errors' \in {errors, errors + 1}
    BY <1>3 DEF InstallBaseCRDs, WaitFOROCMCRDsReady, RunControllers, Fails, store
  <2>2. Calm
    BY <2>1, OthersCalm DEF Stopping
  <2> QED
    BY <2>1, <2>2, CalmBalance
<1>4. ASSUME NEW c \in CRDs, Establish(c) PROVE CausesInv'
  <2>1. UNCHANGED <<self, name, namespaces, cluster, up, fatals, errors, stops>>
    BY <1>4 DEF Establish, process
  <2>2. Calm
    BY <2>1, OthersCalm DEF Stopping
  <2> QED
    BY <2>1, <2>2, CalmBalance
<1>5. ASSUME NEW n \in Names, AcceptCluster(n) PROVE CausesInv'
  <2>1. UNCHANGED <<self, name, namespaces, up, fatals, errors, stops>>
    BY <1>5 DEF AcceptCluster, process
  <2>2. \A x \in Names : cluster'[x] # "absent" <=> cluster[x] # "absent"
    BY <1>5 DEF AcceptCluster, TypeOK
  <2>3. \A q \in Instances : name[q] \in Names
    BY DEF TypeOK
  <2>4. Calm
    BY <2>1, <2>2, <2>3 DEF Calm, LateForNamespace, LateForCluster, Stopping, Created
  <2> QED
    BY <2>1, <2>4, CalmBalance
<1> QED
  BY <1>1, <1>2, <1>3, <1>4, <1>5

(* A CRD that is established stays so, and a cluster is created by a       *)
(* served API.                                                             *)
LEMMA ServedStep == TypeOK /\ ServedInv /\ [Next]_vars => ServedInv'
<1> SUFFICES ASSUME TypeOK, ServedInv, [Next]_vars PROVE ServedInv'
  OBVIOUS
<1>1. Served => Served'
  <2>1. ASSUME NEW c \in CRDs,
               crd' = crd \/ crd' = [crd EXCEPT ![c] = IF @ = "absent" THEN "created" ELSE @]
                          \/ crd' = [crd EXCEPT ![c] = "established"]
        PROVE  Served => Served'
    BY <2>1, BootstrapAssumption DEF Served, TypeOK, BootstrapAssumption
  <2>2. ASSUME NEW p \in Instances, InstallBaseCRDs(p) PROVE Served => Served'
    <3>1. baseCRDs[crdAt[p]] \in CRDs
      BY <2>2, CRDLists DEF TypeOK, InstallBaseCRDs
    <3> QED
      BY <2>1, <2>2, <3>1 DEF InstallBaseCRDs
  <2>3. ASSUME NEW c \in CRDs, Establish(c) PROVE Served => Served'
    BY <2>1, <2>3 DEF Establish
  <2>4. ASSUME crd' = crd PROVE Served => Served'
    BY <2>4 DEF Served
  <2>5. ASSUME NEW p \in Instances, Hooks(p), ~InstallBaseCRDs(p) PROVE crd' = crd
    BY <2>5 DEF Hooks, NewServer, WaitFOROCMCRDsReady, RunControllers, Shutdown,
       SelfManagement, GenerateSelfManagedClusterName, GetNamespace, CreateNamespace,
       GetSelfCluster, CreateSelfCluster, CreateNotFound, SelfCall, store
  <2>6. ASSUME NEW p \in Instances, Crash(p) \/ Signal(p) PROVE crd' = crd
    BY <2>6 DEF Crash, Signal, store
  <2>7. CASE UNCHANGED vars
    BY <2>4, <2>7 DEF vars, store
  <2>8. ASSUME NEW n \in Names, AcceptCluster(n) PROVE crd' = crd
    BY <2>8 DEF AcceptCluster
  <2> QED
    BY <2>2, <2>3, <2>4, <2>5, <2>6, <2>7, <2>8 DEF Next
<1>2. ASSUME NEW p \in Instances, CreateSelfCluster(p) PROVE ServedInv'
  <2>1. \/ cluster' = cluster
        \/ cluster' = [cluster EXCEPT ![name[p]] = "created"] /\ Served
    BY <1>2 DEF CreateSelfCluster, CreateNotFound, SelfCall, store
  <2> QED
    BY <1>1, <2>1 DEF ServedInv, TypeOK
<1>3. ASSUME NEW n \in Names, AcceptCluster(n) PROVE ServedInv'
  <2>1. Served
    BY <1>3 DEF AcceptCluster, ServedInv
  <2> QED
    BY <1>1, <2>1 DEF ServedInv
<1>4. ASSUME cluster' = cluster PROVE ServedInv'
  BY <1>1, <1>4 DEF ServedInv
<1>5. ASSUME NEW p \in Instances, Hooks(p), ~CreateSelfCluster(p) PROVE cluster' = cluster
  BY <1>5 DEF Hooks, NewServer, InstallBaseCRDs, WaitFOROCMCRDsReady, RunControllers, Shutdown,
     SelfManagement, GenerateSelfManagedClusterName, GetNamespace, CreateNamespace,
     GetSelfCluster, SelfCall, store
<1>6. ASSUME NEW p \in Instances, Crash(p) \/ Signal(p) PROVE cluster' = cluster
  BY <1>6 DEF Crash, Signal, store
<1>7. ASSUME NEW c \in CRDs, Establish(c) PROVE cluster' = cluster
  BY <1>7 DEF Establish
<1>8. CASE UNCHANGED vars
  BY <1>4, <1>8 DEF vars, store
<1> QED
  BY <1>2, <1>3, <1>4, <1>5, <1>6, <1>7, <1>8 DEF Next

(* Every step keeps the balance.                                           *)
LEMMA CausesStep ==
  TypeOK /\ TypeOK' /\ ServedInv /\ CausesInv /\ [Next]_vars => CausesInv'
<1> SUFFICES ASSUME TypeOK, TypeOK', ServedInv, CausesInv, [Next]_vars PROVE CausesInv'
  OBVIOUS
<1>1. ASSUME NEW p \in Instances, Hooks(p) PROVE CausesInv'
  BY <1>1, NameCauses, CreateNamespaceCauses, GetClusterCauses, CreateClusterCauses,
     StopCauses, OtherCauses DEF Hooks, SelfManagement
<1>2. ASSUME NEW p \in Instances, Crash(p) \/ Signal(p) PROVE CausesInv'
  BY <1>2, StopCauses
<1> QED
  BY <1>1, <1>2, OtherCauses DEF Next

(* Before the first start nothing is due and nothing was paid.             *)
LEMMA InitCauses == Init => ServedInv /\ CausesInv
<1> SUFFICES ASSUME Init PROVE ServedInv /\ CausesInv
  OBVIOUS
<1>1. ServedInv
  BY DEF Init, ServedInv
<1>2. /\ LateForNamespace = {} /\ LateForCluster = {} /\ Stopping = {}
      /\ Created = {} /\ namespaces = {}
  BY SelfStarts DEF Init, LateForNamespace, LateForCluster, Stopping, Created
<1>3. TypeOK
  BY InitIInv DEF IInv
<1>4. Due = 0 /\ Objects = 0 /\ errors = 0 /\ stops = 0 /\ fatals = 0
  <2>1. Cardinality({}) = 0
    BY FS_EmptySet
  <2>2. (Cardinality(Instances) - 1) * (0 + 0) = 0
    BY <1>3, Counts
  <2> QED
    BY <1>2, <2>1, <2>2 DEF Due, Objects, Init
<1>5. Paid = errors + stops + Objects
  BY <1>3, Numbers DEF AreNumbers
<1> QED
  BY <1>1, <1>4, <1>5 DEF CausesInv

(* The self-management hook of InstallSelfManagementCluster ends its       *)
(* process no more often than calls failed, somebody stopped it, or        *)
(* another controlplane was ahead of it with one of the objects.           *)
THEOREM ExitsHaveCauses == Spec => []FatalsHaveCauses
<1>1. IInv /\ ServedInv /\ CausesInv /\ [Next]_vars => (IInv /\ ServedInv /\ CausesInv)'
  BY NextIInv, ServedStep, CausesStep DEF IInv
<1>2. Init => IInv /\ ServedInv /\ CausesInv
  BY InitIInv, InitCauses
<1>3. IInv /\ CausesInv => FatalsHaveCauses
  <2> SUFFICES ASSUME IInv, CausesInv PROVE FatalsHaveCauses
    OBVIOUS
  <2>1. AreNumbers
    BY Numbers DEF IInv
  <2>2. PICK due \in Nat, paid \in Int, f \in Nat : due = Due /\ paid = Paid /\ f = fatals
    BY <2>1 DEF AreNumbers
  <2>3. f + due <= paid
    BY <2>2 DEF CausesInv
  <2>4. f <= paid
    BY <2>3
  <2> QED
    BY <2>2, <2>4 DEF FatalsHaveCauses, Paid, Created
<1> QED
  BY <1>1, <1>2, <1>3, PTL DEF Spec
===============================================================================
