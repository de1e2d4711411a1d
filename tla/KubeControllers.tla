---------------------------- MODULE KubeControllers ---------------------------
(***************************************************************************)
(* The Kubernetes controllers inside the controlplane.  The kube-controller *)
(* hook (pkg/servers/aggregator.go) runs RunKubeControllers in a goroutine *)
(* beside the other hooks.  It starts the service account token controller *)
(* and its informers, then the other controllers in the random order of a  *)
(* map, then the informers they asked for, and only then closes            *)
(* InformersStarted, for which the garbage collector waits.  A controller  *)
(* whose resource the discovery answer at the beginning lacks is skipped;  *)
(* any error on the way ends the process.  The controllers are started     *)
(* with NeverStop, so they run until the process ends.                     *)
(*                                                                         *)
(* The CSR signer among them signs client certificates with client-ca.     *)
(* What may happen to that CA across restarts is TrustDomain's promise, so *)
(* this module composes the two.                                           *)
(*                                                                         *)
(* The manager's options are never registered as flags, so each has its    *)
(* default: all controllers enabled, the garbage collector too, no file    *)
(* names but the service account key's (InitServerRunOptions) and client-  *)
(* ca's (RunKubeControllers).                                              *)
(***************************************************************************)
EXTENDS Integers, FiniteSets

CONSTANTS
  Controllers,          \* the names in NewControllerInitializers
  TokenController,      \* saTokenControllerName
  GarbageCollector,
  CSRSigning,
  Discovering,          \* those that ask AvailableResources: clusterrole-aggregation
  Informers,            \* the shared informers
  InformersOf,          \* InformersOf[c]: the ones controller c asks the factory for
  ClientCA,
  Validity, Threshold,  \* of client-ca
  ClusterSigningDuration,
  MaxClock,             \* bound: last value of the clock
  MaxErrors,            \* bound: failing calls
  MaxStops,             \* bound: stops of the process
  MaxKeys,              \* bound: key pairs of client-ca
  MaxCerts              \* bound: certificates the CSR signer issues

All == Controllers \cup {TokenController}

ASSUME ControllersAssumption ==
  /\ TokenController \notin Controllers
  /\ GarbageCollector \in Controllers /\ CSRSigning \in Controllers
  /\ Discovering \subseteq Controllers \ {GarbageCollector, CSRSigning}
  /\ InformersOf \in [All -> SUBSET Informers]

ASSUME DurationsAssumption ==
  /\ Validity \in Nat /\ Threshold \in Nat /\ ClusterSigningDuration \in Nat
  /\ 0 < Threshold /\ Threshold < Validity
  /\ MaxClock \in Nat /\ MaxErrors \in Nat /\ MaxStops \in Nat
  /\ MaxKeys \in Nat /\ MaxCerts \in Nat

VARIABLES
  phase, ca, due, keys, now,   \* of TrustDomain
  pc,                \* the step of RunKubeControllers that runs next
  available,         \* AvailableResources: the controllers in Discovering it lets run
  todo,              \* the initializers StartControllers has not called
  running,           \* controllers whose Run is under way
  working,           \* those that got past the wait for their caches
  asked,             \* informers the factory has made
  started, synced,   \* informers that run, and whose caches are filled
  metadataStarted,   \* ObjectOrMetadataInformerFactory.Start was called
  informersStarted,  \* the channel InformersStarted is closed
  serverHook,        \* the API server's own hook has yet to start the informers
  errors, stops,
  certs,             \* client certificates the CSR signer issued
  bootAt,            \* history: the clock at this start
  lost               \* history: key pairs of client-ca lost before they were due, to a
                     \*   rotation of the root or to a crash

TD == INSTANCE TrustDomain WITH SubCAs <- {ClientCA}

trust == <<phase, ca, due, keys, now>>
manager == <<pc, available, todo, running, working, asked, started, synced, metadataStarted,
             informersStarted, serverHook>>
around == <<errors, stops, certs, bootAt, lost>>
vars == <<trust, manager, around>>

Init ==
  /\ TD!Init
  /\ pc = "off" /\ available = {} /\ todo = {} /\ running = {} /\ working = {}
  /\ asked = {} /\ started = {} /\ synced = {}
  /\ metadataStarted = FALSE /\ informersStarted = FALSE /\ serverHook = FALSE
  /\ errors = 0 /\ stops = 0 /\ certs = {} /\ bootAt = 0 /\ lost = {}

(* Everything in memory is gone.                                           *)
Exit ==
  /\ pc' = "off" /\ available' = {} /\ todo' = {} /\ running' = {} /\ working' = {}
  /\ asked' = {} /\ started' = {} /\ synced' = {}
  /\ metadataStarted' = FALSE /\ informersStarted' = FALSE /\ serverHook' = FALSE
-------------------------------------------------------------------------------
(* Around the controllers: the certificates at a start (CertChains), the   *)
(* server that runs the hooks, and the end of the process.                 *)

LoadCertificates ==
  /\ TD!Start
  /\ bootAt' = now
  /\ lost' = IF ClientCA \in due' /\ ~TD!CloseToEnd(ClientCA)
               THEN lost \cup {ca[ClientCA].gen} ELSE lost
  /\ UNCHANGED <<manager, errors, stops, certs>>

RemoveCertificates ==
  /\ TD!Remove(ClientCA) /\ keys < MaxKeys
  /\ UNCHANGED <<manager, around>>

MakeCertificates ==
  /\ TD!Make(ClientCA)
  /\ UNCHANGED <<manager, around>>

(* The server runs its hooks side by side: "kube-controller", and its own  *)
(* that starts the shared informers.                                       *)
RunHooks ==
  /\ TD!Serve
  /\ pc' = "context" /\ serverHook' = TRUE
  /\ UNCHANGED <<available, todo, running, working, asked, started, synced,
                 metadataStarted, informersStarted, around>>

(* A stop or a crash, which may cost client-ca if the process was starting. *)
Stop ==
  /\ \/ TD!Stop /\ UNCHANGED lost
     \/ /\ TD!Lose(ClientCA) /\ keys < MaxKeys
        /\ lost' = IF ClientCA \in due THEN lost ELSE lost \cup {ca[ClientCA].gen}
  /\ stops < MaxStops /\ stops' = stops + 1
  /\ Exit
  /\ UNCHANGED <<errors, certs, bootAt>>

Tick ==
  /\ TD!Tick /\ now < MaxClock
  /\ UNCHANGED <<manager, around>>

(* klog.Fatalf: an error in Run ends the process.                          *)
Fatal ==
  /\ errors < MaxErrors /\ errors' = errors + 1
  /\ TD!Stop /\ Exit
  /\ UNCHANGED <<stops, certs, bootAt, lost>>
-------------------------------------------------------------------------------
(* RunKubeControllers and Run.                                             *)

(* GetAvailableResources: an empty answer is an error, an incomplete one is *)
(* only logged.  Nothing makes this wait until the server lists all its    *)
(* groups.                                                                 *)
CreateControllerContext ==
  /\ pc = "context"
  /\ \/ /\ pc' = "token"
        /\ available' \in SUBSET Discovering
        /\ UNCHANGED <<trust, todo, running, working, asked, started, synced,
                       metadataStarted, informersStarted, serverHook, around>>
     \/ Fatal

(* Start runs every informer the factory has made by now.                  *)
InformerFactoryStart(made) == started' = started \cup made

(* Mutant: the channel is closed with the first set of informers.          *)
StartTokenControllerAndClose ==
  /\ pc = "token"
  /\ \/ /\ pc' = "controllers" /\ todo' = Controllers
        /\ running' = running \cup {TokenController}
        /\ asked' = asked \cup InformersOf[TokenController]
        /\ InformerFactoryStart(asked')
        /\ informersStarted' = TRUE
        /\ UNCHANGED <<trust, available, working, synced, metadataStarted, serverHook, around>>
     \/ Fatal

(* An initializer asks the factory for its informers and runs a goroutine. *)
Initialize(c) ==
  running' = running \cup {c} /\ asked' = asked \cup InformersOf[c]

(* The token controller comes first, and its informers are started with    *)
(* it; its key file may be unreadable.                                     *)
startServiceAccountTokenController ==
  /\ pc = "token"
  /\ \/ /\ pc' = "controllers" /\ todo' = Controllers
        /\ Initialize(TokenController)
        /\ InformerFactoryStart(asked')
        /\ UNCHANGED <<trust, available, working, synced, metadataStarted, informersStarted,
                       serverHook, around>>
     \/ Fatal

(* The controllers that the discovery answer keeps from running.           *)
Skipped == Discovering \ available

(* StartControllers: the next initializer, in any order.  It returns "not  *)
(* started" if it misses its resource, and is not called again; an error   *)
(* ends the process.                                                       *)
StartController(c) ==
  /\ pc = "controllers" /\ c \in todo
  /\ \/ /\ todo' = todo \ {c}
        /\ IF c \in Skipped THEN UNCHANGED <<running, asked>> ELSE Initialize(c)
        /\ UNCHANGED <<trust, pc, available, working, started, synced, metadataStarted,
                       informersStarted, serverHook, around>>
     \/ c \notin Skipped /\ Fatal

(* Mutant of MadeByControllers: no informers are left to start.            *)
MadeByTokenController == asked \cap InformersOf[TokenController]

MadeByControllers == asked

StartInformers ==
  /\ pc = "controllers" /\ todo = {}
  /\ InformerFactoryStart(MadeByControllers)
  /\ pc' = "metadata"
  /\ UNCHANGED <<trust, available, todo, running, working, asked, synced, metadataStarted,
                 informersStarted, serverHook, around>>

(* ObjectOrMetadataInformerFactory.Start starts both factories.            *)
StartMetadataInformers ==
  /\ pc = "metadata"
  /\ InformerFactoryStart(MadeByControllers)
  /\ metadataStarted' = TRUE
  /\ pc' = "close"
  /\ UNCHANGED <<trust, available, todo, running, working, asked, synced, informersStarted,
                 serverHook, around>>

CloseInformersStarted ==
  /\ pc = "close"
  /\ informersStarted' = TRUE
  /\ pc' = "run"
  /\ UNCHANGED <<trust, available, todo, running, working, asked, started, synced,
                 metadataStarted, serverHook, around>>
-------------------------------------------------------------------------------
(* The libraries.                                                          *)

(* The API server's hook starts what the factory has made when it runs.    *)
ServerStartsInformers ==
  /\ serverHook
  /\ serverHook' = FALSE
  /\ InformerFactoryStart(asked)
  /\ UNCHANGED <<trust, pc, available, todo, running, working, asked, synced, metadataStarted,
                 informersStarted, around>>

FillCache(i) ==
  /\ i \in started \ synced
  /\ synced' = synced \cup {i}
  /\ UNCHANGED <<trust, pc, available, todo, running, working, asked, started, metadataStarted,
                 informersStarted, serverHook, around>>

(* A controller waits for its caches; the garbage collector's monitors     *)
(* also wait for InformersStarted.                                         *)
MayWork(c) ==
  /\ InformersOf[c] \subseteq synced
  /\ c = GarbageCollector => informersStarted

(* Mutant of BeginWork: the controller need not have been started.         *)
BeginWorkBeforeRun(c) ==
  /\ pc # "off" /\ c \notin working /\ MayWork(c)
  /\ working' = working \cup {c}
  /\ UNCHANGED <<trust, pc, available, todo, running, asked, started, synced, metadataStarted,
                 informersStarted, serverHook, around>>

BeginWork(c) ==
  /\ c \in running \ working /\ MayWork(c)
  /\ working' = working \cup {c}
  /\ UNCHANGED <<trust, pc, available, todo, running, asked, started, synced, metadataStarted,
                 informersStarted, serverHook, around>>

(* The files of both CSR signers are client-ca's.                          *)
SigningCA == ca[ClientCA]

(* A certificate ends no later than its signer.                            *)
NotAfter ==
  IF now + ClusterSigningDuration < SigningCA.expires
  THEN now + ClusterSigningDuration ELSE SigningCA.expires

(* An approved CSR; an expired signer signs nothing.                       *)
SignCSR ==
  /\ CSRSigning \in working
  /\ now <= SigningCA.expires
  /\ Cardinality(certs) < MaxCerts
  /\ certs' = certs \cup {[gen |-> SigningCA.gen, expires |-> NotAfter]}
  /\ UNCHANGED <<trust, manager, errors, stops, bootAt, lost>>
-------------------------------------------------------------------------------
Run ==
  \/ CreateControllerContext \/ startServiceAccountTokenController
  \/ \E c \in Controllers : StartController(c)
  \/ StartInformers \/ StartMetadataInformers \/ CloseInformersStarted

Libraries ==
  \/ ServerStartsInformers
  \/ \E i \in Informers : FillCache(i)
  \/ \E c \in All : BeginWork(c)

Server == LoadCertificates \/ RemoveCertificates \/ MakeCertificates \/ RunHooks

Next == Run \/ Libraries \/ Server \/ SignCSR \/ Stop \/ Tick

Spec == Init /\ [][Next]_vars

(* The supervisor restarts the process; a start goes through; goroutines   *)
(* are scheduled, and the API server answers its own clients.              *)
FairSpec ==
  /\ Spec
  /\ WF_vars(Run) /\ WF_vars(ServerStartsInformers)
  /\ \A i \in Informers : WF_vars(FillCache(i))
  /\ \A c \in All : WF_vars(BeginWork(c))
  /\ WF_vars(LoadCertificates) /\ WF_vars(MakeCertificates) /\ WF_vars(RunHooks)
-------------------------------------------------------------------------------
Cert == [gen : Nat, expires : Int]

(* The values of the variables, and how the sets are nested.               *)
TypeOK ==
  /\ TD!TypeOK
  /\ pc \in {"off", "context", "token", "controllers", "metadata", "close", "run"}
  /\ available \subseteq Discovering /\ todo \subseteq Controllers
  /\ running \subseteq All /\ working \subseteq running
  /\ asked \subseteq Informers /\ started \subseteq asked /\ synced \subseteq started
  /\ metadataStarted \in BOOLEAN /\ informersStarted \in BOOLEAN
  /\ serverHook \in BOOLEAN
  /\ errors \in Nat /\ stops \in Nat /\ certs \subseteq Cert
  /\ bootAt \in Nat /\ lost \subseteq Nat

(* controllermanager.go: "InformersStarted is closed after all of the      *)
(* controllers have been initialized and are running".  When a controller  *)
(* may rely on it, every controller runs but those whose resource was not  *)
(* in the discovery answer, and every informer any of them asked either    *)
(* factory for has been started, whatever the order of the map and         *)
(* whenever the API server's own hook started what was there.  The garbage *)
(* collector deletes nothing before that.                                  *)
NobodyIsLeftWaiting ==
  (informersStarted \/ GarbageCollector \in working) =>
    /\ running = All \ Skipped /\ metadataStarted
    /\ \A c \in running : InformersOf[c] \subseteq started

(* A client certificate the CSR signer issued is refused before its end    *)
(* only if it had less than the rotation threshold left when the process   *)
(* was started, or the root was due at a start since, or a start died      *)
(* while client-ca signed: with more left it survives every other restart. *)
RefusedOnlyWhenDue ==
  phase = "serving" =>
    \A crt \in certs :
      \/ crt.gen = ca[ClientCA].gen
      \/ crt.expires - bootAt < Threshold
      \/ crt.gen \in lost

(* Once errors and stops end, every controller gets to work but those the  *)
(* last start skipped: none waits for an informer that nobody starts, and  *)
(* none that was skipped is made up for.                                   *)
EventuallyAllWork == <>[](pc = "run" /\ working = All \ Skipped)
===============================================================================
