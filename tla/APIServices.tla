------------------------------ MODULE APIServices ------------------------------
(***************************************************************************)
(* The registration of API services by the aggregator (pkg/servers/        *)
(* aggregator.go): which group versions of the delegate are registered on  *)
(* start, the post-start hook that runs the CRD registration and the auto- *)
(* registration controllers, and the health check that waits until every   *)
(* registered service has been seen available.                             *)
(*                                                                         *)
(* The two controllers are libraries (kube-aggregator, crdregistration).   *)
(* They are modelled from what the hook starts and waits for: the first    *)
(* tells the second which services the CRDs call for, the second brings    *)
(* the stored services in line, and treats one that is marked "onstart"    *)
(* only once per process.                                                  *)
(***************************************************************************)
EXTENDS Naturals, FiniteSets

CONSTANTS
  GroupVersions,
  ListedPaths,          \* paths of the delegate API server
  GroupVersionOf,       \* the group version a path ends in
  NoGroupVersion,       \* ... of a path that names none
  apiVersionPriorities, \* group versions the aggregator has a priority for
  CRDVersions,          \* group versions that CRDs may define
  LeftBehind,           \* registered on start by an earlier release only
  MaxEdits,             \* bound: CRDs created and deleted
  MaxStops              \* bound: ends of the process

VARIABLES
  crds,       \* group versions defined by the CRDs in etcd
  svc,        \* the stored APIServices, by the mark of auto-registration
  available,  \* built-in ones among them with condition Available
  up,
  crdPhase,   \* CRD registration: "unsynced", "initial" or "synced"
  initial,    \* CRDs it has yet to process before it is "synced"
  crdCache,   \* its informer's copy of crds
  crdQueue,   \* group versions whose CRDs changed
  toSync,     \* the APIServices auto-registration is to bring about
  running,    \* auto-registration runs
  atStart,    \* the services it found when it started
  synced,     \* those it has dealt with since
  queue,      \* those it has yet to look at
  events,     \* notifications on their way to the health check
  pending,    \* the health check's pendingServiceNames
  missing,    \* history: group versions without a CRD at some time since the start
  edits, stops

crdVars == <<crdPhase, initial, crdCache, crdQueue>>
autoVars == <<running, atStart, synced>>
vars == <<crds, svc, available, up, crdVars, toSync, autoVars, queue, events,
          pending, missing, edits, stops>>

Marks == {"absent", "onstart", "managed"}
Stored == {g \in GroupVersions : svc[g] # "absent"}

HasPriority(g) == g \in apiVersionPriorities

(* A group version without a priority gets no APIService.  (Two faults:    *)
(* it gets one all the same; the nil result is kept.)                      *)
MakeAPIServiceAlways(g) == {g}
MakeAPIServiceNil(g) == IF HasPriority(g) THEN {g} ELSE {NoGroupVersion}
makeAPIService(g) == IF HasPriority(g) THEN {g} ELSE {}

(* /api/v1 and /apis/<group>/<version> count, other paths do not.          *)
apiServicesToRegister ==
  UNION {makeAPIService(GroupVersionOf[p]) :
           p \in {q \in ListedPaths : GroupVersionOf[q] # NoGroupVersion}}

(* A CRD never takes over a group version of a built-in API.               *)
ASSUME APIServicesAssumption ==
  /\ GroupVersionOf \in [ListedPaths -> GroupVersions \cup {NoGroupVersion}]
  /\ NoGroupVersion \notin GroupVersions
  /\ CRDVersions \subseteq GroupVersions /\ LeftBehind \subseteq GroupVersions
  /\ CRDVersions \cap (apiVersionPriorities \cup LeftBehind) = {}
  /\ apiVersionPriorities \cap LeftBehind = {}
  /\ MaxEdits \in Nat /\ MaxStops \in Nat

(* ApplyTo replaces the aggregator's MergedResourceConfig by the resources *)
(* of its own API group.                                                   *)
MergedResourceConfig == {"apiservices"}
ResourceEnabled(resource) == resource \in MergedResourceConfig

Init ==
  /\ crds \in SUBSET CRDVersions
  /\ svc = [g \in GroupVersions |-> CASE g \in LeftBehind -> "onstart"
                                      [] g \in crds -> "managed"
                                      [] OTHER -> "absent"]
  /\ available = {}
  /\ up = FALSE /\ crdPhase = "unsynced" /\ initial = {} /\ crdCache = {}
  /\ crdQueue = {} /\ toSync = [g \in GroupVersions |-> "absent"]
  /\ running = FALSE /\ atStart = {} /\ synced = {} /\ queue = {}
  /\ events = {} /\ pending = {} /\ missing = GroupVersions \ crds
  /\ edits = 0 /\ stops = 0
-------------------------------------------------------------------------------
(* createAggregatorServer, and the post-start hooks once the server is up: *)
(* the informer notifies of every stored service.  The handler returns at  *)
(* once for a service that is not pending; such notifications are left out. *)
createAggregatorServer ==
  /\ ~up
  /\ up' = TRUE
  /\ toSync' = [g \in GroupVersions |->
                  IF g \in apiServicesToRegister THEN "onstart" ELSE "absent"]
  /\ queue' = apiServicesToRegister
  /\ pending' = apiServicesToRegister
  /\ events' = {e \in (Stored \cap apiServicesToRegister) \X BOOLEAN :
                  e[2] <=> e[1] \in available}
  /\ missing' = GroupVersions \ crds
  /\ UNCHANGED <<crds, svc, available, crdVars, autoVars, edits, stops>>

(* The process ends at any point and loses all but etcd.                   *)
Stop ==
  /\ up /\ stops < MaxStops
  /\ stops' = stops + 1 /\ up' = FALSE
  /\ crdPhase' = "unsynced" /\ initial' = {} /\ crdCache' = {} /\ crdQueue' = {}
  /\ toSync' = [g \in GroupVersions |-> "absent"]
  /\ running' = FALSE /\ atStart' = {} /\ synced' = {} /\ queue' = {}
  /\ events' = {} /\ pending' = {}
  /\ UNCHANGED <<crds, svc, available, missing, edits>>

(* Somebody creates or deletes the CRDs of a group version.                *)
EditCRD(g) ==
  /\ edits < MaxEdits /\ edits' = edits + 1
  /\ crds' = IF g \in crds THEN crds \ {g} ELSE crds \cup {g}
  /\ missing' = missing \cup {g}
  /\ UNCHANGED <<svc, available, up, crdVars, toSync, autoVars, queue, events,
                 pending, stops>>
-------------------------------------------------------------------------------
(* The CRD registration controller lists the CRDs, ...                     *)
ListCRDs ==
  /\ up /\ crdPhase = "unsynced"
  /\ crdPhase' = "initial" /\ crdCache' = crds /\ initial' = crds
  /\ crdQueue' = crds
  /\ UNCHANGED <<crds, svc, available, up, toSync, autoVars, queue, events,
                 pending, missing, edits, stops>>

DeliverCRD(g) ==
  /\ up /\ crdPhase # "unsynced"
  /\ (g \in crds) # (g \in crdCache)
  /\ crdCache' = IF g \in crds THEN crdCache \cup {g} ELSE crdCache \ {g}
  /\ crdQueue' = crdQueue \cup {g}
  /\ UNCHANGED <<crds, svc, available, up, crdPhase, initial, toSync, autoVars,
                 queue, events, pending, missing, edits, stops>>

(* ... goes through them once and then through what changes.               *)
HandleVersionUpdate(g) ==
  /\ up
  /\ \/ /\ crdPhase = "initial" /\ g \in initial
        /\ initial' = initial \ {g} /\ UNCHANGED crdQueue
     \/ /\ crdPhase = "synced" /\ g \in crdQueue
        /\ crdQueue' = crdQueue \ {g} /\ UNCHANGED initial
  /\ toSync' = [toSync EXCEPT ![g] = IF g \in crdCache THEN "managed" ELSE "absent"]
  /\ queue' = queue \cup {g}
  /\ UNCHANGED <<crds, svc, available, up, crdPhase, crdCache, autoVars, events,
                 pending, missing, edits, stops>>

InitialSync ==
  /\ up /\ crdPhase = "initial" /\ initial = {}
  /\ crdPhase' = "synced"
  /\ UNCHANGED <<crds, svc, available, up, initial, crdCache, crdQueue, toSync,
                 autoVars, queue, events, pending, missing, edits, stops>>
-------------------------------------------------------------------------------
(* The thread of the hook: WaitForInitialSync if the aggregator's config   *)
(* has CRDs enabled, then Run, which remembers the services it finds.      *)
RunAutoRegistration ==
  /\ up /\ ~running
  /\ ResourceEnabled("customresourcedefinitions") => crdPhase = "synced"
  /\ running' = TRUE /\ atStart' = Stored
  /\ queue' = queue \cup Stored
  /\ UNCHANGED <<crds, svc, available, up, crdVars, toSync, synced, events,
                 pending, missing, edits, stops>>

(* The auto-registration controller deals with one service.  It leaves a   *)
(* service marked "onstart" alone if it came later than the process or had *)
(* its turn.  A change of a service queues it again.                       *)
Desired(g) ==
  CASE toSync[g] = "onstart" /\ g \in synced -> svc[g]
    [] svc[g] = "absent" -> toSync[g]
    [] svc[g] = "onstart" /\ (g \notin atStart \/ g \in synced) -> svc[g]
    [] toSync[g] = "absent" -> "absent"
    [] OTHER -> svc[g]

(* The notification of a new service, which is not available yet.          *)
AddFunc(g) == ({g} \cap pending) \X {FALSE}

SyncAPIService(g) ==
  /\ up /\ running /\ g \in queue
  /\ svc' = [svc EXCEPT ![g] = Desired(g)]
  /\ synced' = synced \cup {g}
  /\ queue' = IF svc'[g] = svc[g] THEN queue \ {g} ELSE queue
  /\ available' = IF svc'[g] = "absent" THEN available \ {g} ELSE available
  /\ events' = IF svc[g] = "absent" /\ svc'[g] # "absent"
                 THEN events \cup AddFunc(g) ELSE events
  /\ UNCHANGED <<crds, up, crdVars, toSync, running, atStart, pending, missing,
                 edits, stops>>

(* The notification of an update that made a service available.  (A fault: *)
(* the health check registers no handler for updates.)                     *)
UpdateFuncMissing(g) == {}
UpdateFunc(g) == ({g} \cap pending) \X {TRUE}

(* The availability controller reports a local service as available.  Only *)
(* the built-in ones matter to the health check.                           *)
BecomeAvailable(g) ==
  /\ up /\ g \in (Stored \cap apiServicesToRegister) \ available
  /\ available' = available \cup {g}
  /\ events' = events \cup UpdateFunc(g)
  /\ UNCHANGED <<crds, svc, up, crdVars, toSync, autoVars, queue, pending,
                 missing, edits, stops>>
-------------------------------------------------------------------------------
(* The handler of the health check, and the check itself.  (A fault: a     *)
(* service that is there counts as available.)                             *)
IsAvailableOnceSeen(e) == TRUE
IsAvailable(e) == e[2]

handleAPIServiceChange(e) ==
  /\ up /\ e \in events
  /\ events' = events \ {e}
  /\ pending' = IF IsAvailable(e) THEN pending \ {e[1]} ELSE pending
  /\ UNCHANGED <<crds, svc, available, up, crdVars, toSync, autoVars, queue,
                 missing, edits, stops>>

Healthy == up /\ pending = {}

Next ==
  \/ createAggregatorServer \/ Stop
  \/ ListCRDs \/ InitialSync \/ RunAutoRegistration
  \/ \E g \in CRDVersions : EditCRD(g) \/ DeliverCRD(g) \/ HandleVersionUpdate(g)
  \/ \E g \in GroupVersions : SyncAPIService(g) \/ BecomeAvailable(g)
  \/ \E e \in events : handleAPIServiceChange(e)

Spec == Init /\ [][Next]_vars

(* The supervisor restarts the process; the controllers and the informer   *)
(* are threads of it.  Nobody has to stop it or to edit CRDs.              *)
FairSpec ==
  /\ Spec
  /\ WF_vars(createAggregatorServer) /\ WF_vars(ListCRDs) /\ WF_vars(InitialSync)
  /\ WF_vars(RunAutoRegistration)
  /\ WF_vars(\E g \in CRDVersions : DeliverCRD(g))
  /\ WF_vars(\E g \in CRDVersions : HandleVersionUpdate(g))
  /\ WF_vars(\E g \in GroupVersions : SyncAPIService(g))
  /\ WF_vars(\E g \in GroupVersions : BecomeAvailable(g))
  /\ WF_vars(\E e \in events : handleAPIServiceChange(e))
-------------------------------------------------------------------------------
(* The values of the variables.                                            *)
TypeOK ==
  /\ crds \subseteq CRDVersions /\ svc \in [GroupVersions -> Marks]
  /\ available \subseteq Stored /\ up \in BOOLEAN
  /\ crdPhase \in {"unsynced", "initial", "synced"}
  /\ initial \subseteq CRDVersions /\ crdCache \subseteq CRDVersions
  /\ crdQueue \subseteq CRDVersions
  /\ toSync \in [GroupVersions -> Marks] /\ running \in BOOLEAN
  /\ atStart \subseteq GroupVersions /\ synced \subseteq GroupVersions
  /\ queue \subseteq GroupVersions /\ events \subseteq GroupVersions \X BOOLEAN
  /\ pending \subseteq GroupVersions
  /\ missing \subseteq GroupVersions /\ edits \in Nat /\ stops \in Nat

(* makeAPIServiceAvailableHealthCheck: a process is healthy only when each *)
(* service it registered on start is stored and available, whichever       *)
(* process registered it and whichever notification told the handler.      *)
HealthyWhenRegistered ==
  Healthy => apiServicesToRegister \subseteq available

(* Once edits and stops cease, the process becomes healthy and stays       *)
(* so, with exactly the services of its built-in APIs and of the CRDs: the *)
(* ones a former release or a deleted CRD left are gone, and the ones the  *)
(* race of the two controllers deleted are back.                           *)
EventuallyRegistered ==
  <>[](Healthy /\ Stored = apiServicesToRegister \cup crds)

(* aggregator.go, the autoregistration hook: waiting for the CRDs          *)
(* "prevents the autoregistration controller's initial sync from deleting  *)
(* APIServices for CRDs that still exist".                                 *)
CRDServicesKept == atStart \ missing \subseteq Stored
===============================================================================
