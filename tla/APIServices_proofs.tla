-------------------------- MODULE APIServices_proofs --------------------------
(***************************************************************************)
(* Proofs about APIServices, for any group versions, CRDs, edits and       *)
(* restarts.                                                               *)
(*                                                                         *)
(* HealthyWhenRegistered is not inductive: a notification on its way could *)
(* be of a service that is gone by the time the handler sees it.  It is    *)
(* not, because the built-in services stay on the list of the auto-        *)
(* registration controller as long as the process lives (RegisteredInv),   *)
(* CRDs being of other group versions, and a service on that list is never *)
(* deleted.  So what a notification says remains true (EventsInv), and so  *)
(* does what the handler concluded from it (SeenInv).                      *)
(***************************************************************************)
EXTENDS APIServices, TLAPS

(* The built-in services stay marked for registration.                     *)
RegisteredInv == up => \A g \in apiServicesToRegister : toSync[g] = "onstart"

(* Notifications are of built-in services, and still true.                 *)
EventsInv ==
  /\ pending \subseteq apiServicesToRegister
  /\ \A e \in events : /\ e[1] \in apiServicesToRegister
                       /\ e[2] => e[1] \in available

(* What is no longer pending is available.                                 *)
SeenInv == up => apiServicesToRegister \ pending \subseteq available

IInv == TypeOK /\ RegisteredInv /\ EventsInv /\ SeenInv
-------------------------------------------------------------------------------
(* Only group versions with a priority are registered, and none of them is *)
(* one that CRDs define.                                                   *)
LEMMA RegisteredHavePriority ==
  /\ apiServicesToRegister \subseteq GroupVersions
  /\ apiServicesToRegister \cap CRDVersions = {}
<1>1. \A g \in apiServicesToRegister :
        g \in apiVersionPriorities /\ \E p \in ListedPaths :
          g = GroupVersionOf[p] /\ GroupVersionOf[p] # NoGroupVersion
  BY DEF apiServicesToRegister, makeAPIService, HasPriority
<1> QED
  BY <1>1, APIServicesAssumption

(* The auto-registration controller deletes no service it is to register.  *)
LEMMA RegisteredStay ==
  ASSUME IInv, NEW g \in apiServicesToRegister, up, svc[g] # "absent"
  PROVE  Desired(g) # "absent"
<1>1. toSync[g] = "onstart"
  BY DEF IInv, RegisteredInv
<1> QED
  BY <1>1 DEF Desired

LEMMA DesiredType == ASSUME TypeOK, NEW g \in GroupVersions PROVE Desired(g) \in Marks
BY DEF TypeOK, Desired, Marks

(* The initial states.                                                     *)
LEMMA InitInv == Init => IInv
<1> SUFFICES ASSUME Init PROVE IInv
  OBVIOUS
<1>1. TypeOK
  BY APIServicesAssumption DEF Init, TypeOK, Stored, Marks
<1> QED
  BY <1>1 DEF Init, IInv, RegisteredInv, EventsInv, SeenInv

(* Every step keeps the types ...                                          *)
LEMMA NextType == IInv /\ [Next]_vars => TypeOK'
<1> SUFFICES ASSUME IInv, [Next]_vars PROVE TypeOK'
  OBVIOUS
<1> USE RegisteredHavePriority, APIServicesAssumption
<1>0. TypeOK
  BY DEF IInv
<1>1. CASE createAggregatorServer
  <2>1. toSync' \in [GroupVersions -> Marks]
    BY <1>1 DEF createAggregatorServer, Marks
  <2>2. events' \subseteq GroupVersions \X BOOLEAN
    BY <1>1 DEF createAggregatorServer, Stored
  <2> QED
    BY <1>0, <1>1, <2>1, <2>2 DEF TypeOK, createAggregatorServer, Stored, crdVars, autoVars
<1>2. CASE Stop
  <2>1. toSync' \in [GroupVersions -> Marks]
    BY <1>2 DEF Stop, Marks
  <2>2. available' \subseteq Stored' /\ stops' \in Nat
    BY <1>0, <1>2 DEF TypeOK, Stop, Stored
  <2> QED
    BY <1>0, <1>2, <2>1, <2>2 DEF TypeOK, Stop
<1>3. CASE ListCRDs \/ InitialSync \/ RunAutoRegistration
  BY <1>0, <1>3 DEF TypeOK, ListCRDs, InitialSync, RunAutoRegistration, Stored, crdVars, autoVars
<1>4. ASSUME NEW g \in CRDVersions, EditCRD(g) \/ DeliverCRD(g)
      PROVE  TypeOK'
  BY <1>0, <1>4 DEF TypeOK, EditCRD, DeliverCRD, Stored, crdVars, autoVars
<1>5. ASSUME NEW g \in CRDVersions, HandleVersionUpdate(g)
      PROVE  TypeOK'
  <2>1. toSync' \in [GroupVersions -> Marks]
    BY <1>0, <1>5 DEF TypeOK, HandleVersionUpdate, Marks
  <2>2. initial' \subseteq CRDVersions /\ crdQueue' \subseteq CRDVersions
    BY <1>0, <1>5 DEF TypeOK, HandleVersionUpdate
  <2> QED
    BY <1>0, <1>5, <2>1, <2>2 DEF TypeOK, HandleVersionUpdate, Stored, autoVars
<1>6. ASSUME NEW g \in GroupVersions, SyncAPIService(g)
      PROVE  TypeOK'
  <2>1. svc' = [svc EXCEPT ![g] = Desired(g)] /\ svc' \in [GroupVersions -> Marks]
    BY <1>0, <1>6, DesiredType DEF TypeOK, SyncAPIService
  <2>2. available' \subseteq Stored'
    BY <1>0, <1>6, <2>1 DEF TypeOK, SyncAPIService, Stored
  <2>3. events' \subseteq GroupVersions \X BOOLEAN
    BY <1>0, <1>6 DEF TypeOK, SyncAPIService, AddFunc
  <2> QED
    BY <1>0, <1>6, <2>1, <2>2, <2>3 DEF TypeOK, SyncAPIService, crdVars
<1>7. ASSUME NEW g \in GroupVersions, BecomeAvailable(g)
      PROVE  TypeOK'
  BY <1>0, <1>7 DEF TypeOK, BecomeAvailable, UpdateFunc, Stored, crdVars, autoVars
<1>8. ASSUME NEW e \in events, handleAPIServiceChange(e)
      PROVE  TypeOK'
  BY <1>0, <1>8 DEF TypeOK, handleAPIServiceChange, Stored, crdVars, autoVars
<1>9. CASE UNCHANGED vars
  BY <1>0, <1>9 DEF TypeOK, vars, Stored, crdVars, autoVars
<1> QED
  BY <1>1, <1>2, <1>3, <1>4, <1>5, <1>6, <1>7, <1>8, <1>9 DEF Next

(* ... and the rest of the invariant.                                      *)
LEMMA NextInv == IInv /\ [Next]_vars => IInv'
<1> SUFFICES ASSUME IInv, [Next]_vars PROVE RegisteredInv' /\ EventsInv' /\ SeenInv'
  BY NextType DEF IInv
<1> USE RegisteredHavePriority
<1>0. TypeOK /\ RegisteredInv /\ EventsInv /\ SeenInv
  BY DEF IInv
<1>1. CASE createAggregatorServer
  BY <1>0, <1>1 DEF createAggregatorServer, RegisteredInv, EventsInv, SeenInv
<1>2. CASE Stop
  BY <1>0, <1>2 DEF Stop, RegisteredInv, EventsInv, SeenInv
<1>3. CASE ListCRDs \/ InitialSync \/ RunAutoRegistration
  BY <1>0, <1>3 DEF ListCRDs, InitialSync, RunAutoRegistration,
       RegisteredInv, EventsInv, SeenInv, crdVars, autoVars
<1>4. ASSUME NEW g \in CRDVersions, EditCRD(g) \/ DeliverCRD(g)
      PROVE  RegisteredInv' /\ EventsInv' /\ SeenInv'
  BY <1>0, <1>4 DEF EditCRD, DeliverCRD, RegisteredInv, EventsInv, SeenInv, crdVars, autoVars
<1>5. ASSUME NEW g \in CRDVersions, HandleVersionUpdate(g)
      PROVE  RegisteredInv' /\ EventsInv' /\ SeenInv'
  <2>1. \A h \in apiServicesToRegister : toSync'[h] = toSync[h]
    BY <1>0, <1>5 DEF TypeOK, HandleVersionUpdate
  <2> QED
    BY <1>0, <1>5, <2>1 DEF HandleVersionUpdate, RegisteredInv, EventsInv, SeenInv, autoVars
<1>6. ASSUME NEW g \in GroupVersions, SyncAPIService(g)
      PROVE  RegisteredInv' /\ EventsInv' /\ SeenInv'
  <2>1. up /\ svc'[g] = Desired(g)
    BY <1>0, <1>6 DEF TypeOK, SyncAPIService
  <2>2. \A h \in apiServicesToRegister : h \in available => h \in available'
    <3> SUFFICES ASSUME NEW h \in apiServicesToRegister, h \in available, h = g
                 PROVE  svc'[g] # "absent"
      BY <1>6 DEF SyncAPIService
    <3>1. svc[g] # "absent"
      BY <1>0 DEF TypeOK, Stored
    <3> QED
      BY <2>1, <3>1, RegisteredStay
  <2>3. \A e \in events' \ events : e[1] \in pending /\ e[2] = FALSE
    BY <1>6 DEF SyncAPIService, AddFunc
  <2> QED
    BY <1>0, <1>6, <2>2, <2>3 DEF SyncAPIService, RegisteredInv, EventsInv, SeenInv
<1>7. ASSUME NEW g \in GroupVersions, BecomeAvailable(g)
      PROVE  RegisteredInv' /\ EventsInv' /\ SeenInv'
  BY <1>0, <1>7 DEF BecomeAvailable, UpdateFunc, RegisteredInv, EventsInv, SeenInv
<1>8. ASSUME NEW e \in events, handleAPIServiceChange(e)
      PROVE  RegisteredInv' /\ EventsInv' /\ SeenInv'
  BY <1>0, <1>8 DEF handleAPIServiceChange, IsAvailable, RegisteredInv, EventsInv, SeenInv
<1>9. CASE UNCHANGED vars
  BY <1>0, <1>9 DEF vars, RegisteredInv, EventsInv, SeenInv
<1> QED
  BY <1>1, <1>2, <1>3, <1>4, <1>5, <1>6, <1>7, <1>8, <1>9 DEF Next

(* The invariant holds in every reachable state.                           *)
LEMMA Invariance == Spec => []IInv
<1>1. Init => IInv
  BY InitInv
<1>2. IInv /\ [Next]_vars => IInv'
  BY NextInv
<1> QED
  BY <1>1, <1>2, PTL DEF Spec
-------------------------------------------------------------------------------
(* TypeOK, for the aggregator's hook and the controllers it starts.        *)
THEOREM TypeCorrect == Spec => []TypeOK
<1>1. IInv => TypeOK
  BY DEF IInv
<1> QED
  BY <1>1, Invariance, PTL

(* HealthyWhenRegistered: the health check of createAggregatorServer       *)
(* answers for every built-in service, whatever CRDs are edited, whenever  *)
(* the process restarts and whichever notifications are late.              *)
THEOREM HealthMeansRegistered == Spec => []HealthyWhenRegistered
<1>1. IInv => HealthyWhenRegistered
  BY DEF IInv, SeenInv, HealthyWhenRegistered, Healthy
<1> QED
  BY <1>1, Invariance, PTL
===============================================================================
