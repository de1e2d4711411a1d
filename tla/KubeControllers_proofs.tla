------------------------- MODULE KubeControllers_proofs ------------------------
(***************************************************************************)
(* Proofs about KubeControllers, for any controllers, informers, durations *)
(* and numbers of errors, stops and certificates.                          *)
(***************************************************************************)
EXTENDS KubeControllers, TLAPS

(* How far the start has got, and what that says about the factory.        *)
StartInv ==
  /\ pc = "off" <=> phase # "serving"
  /\ pc \in {"off", "context", "token"} => running = {}
  /\ pc = "controllers" => running = All \ (todo \cup Skipped)
  /\ pc \in {"metadata", "close", "run"} =>
       running = All \ Skipped /\ \A c \in running : InformersOf[c] \subseteq started
  /\ pc \in {"close", "run"} => metadataStarted
  /\ informersStarted => pc = "run"
  /\ GarbageCollector \in working => informersStarted
  /\ \A c \in running : InformersOf[c] \subseteq asked

(* A certificate ends with its signer; one whose signer is gone, or may be *)
(* removed by this start, was close to its end or fell to the root or to a *)
(* crash.                                                                  *)
Excused(crt) == crt.expires - bootAt < Threshold \/ crt.gen \in lost

CertInv ==
  /\ bootAt <= now
  /\ phase = "starting" => bootAt = now
  /\ ca[ClientCA].gen <= keys
  /\ phase = "serving" => ca[ClientCA].gen # 0
  /\ \A crt \in certs :
       /\ crt.gen # 0 /\ crt.gen <= keys
       /\ crt.gen = ca[ClientCA].gen => crt.expires <= ca[ClientCA].expires
       /\ crt.gen = ca[ClientCA].gen \/ Excused(crt)
       /\ (phase = "starting" /\ ClientCA \in due) => Excused(crt)

IInv == TypeOK /\ StartInv /\ CertInv

(* The steps that only this module's process takes.                        *)
LEMMA TypeInit == Init => TypeOK
<1> SUFFICES ASSUME Init PROVE TypeOK
  OBVIOUS
<1>1. TD!TypeOK
  BY DEF Init, TD!Init, TD!TypeOK, TD!None
<1>2. metadataStarted \in BOOLEAN /\ informersStarted \in BOOLEAN /\ serverHook \in BOOLEAN
  BY DEF Init
<1> QED BY <1>1, <1>2 DEF Init, TypeOK

LEMMA TrustTypes ==
  ASSUME TD!TypeOK, TD!Next \/ UNCHANGED trust
  PROVE  TD!TypeOK'
BY DurationsAssumption
DEF TD!TypeOK, TD!Next, TD!Start, TD!Remove, TD!Lose, TD!Make, TD!MakeOther, TD!Serve,
    TD!Stop, TD!Tick, TD!None, trust

LEMMA TrustSteps ==
  ASSUME [Next]_vars
  PROVE  TD!Next \/ UNCHANGED trust
BY DEF Next, Run, Libraries, Server, vars, LoadCertificates, RemoveCertificates,
    MakeCertificates, RunHooks, Stop, Tick, Fatal, CreateControllerContext,
    startServiceAccountTokenController, StartController, StartInformers,
    StartMetadataInformers, CloseInformersStarted, ServerStartsInformers, FillCache,
    BeginWork, SignCSR, TD!Next

LEMMA TypeNext == TypeOK /\ [Next]_vars => TypeOK'
<1> SUFFICES ASSUME TypeOK, [Next]_vars PROVE TypeOK'
  OBVIOUS
<1> USE ControllersAssumption
<1>0. TD!TypeOK'
  BY TrustTypes, TrustSteps DEF TypeOK
<1>1. CASE LoadCertificates
  BY <1>0, <1>1 DEF TypeOK, TD!TypeOK, LoadCertificates, manager
<1>2. CASE RemoveCertificates \/ MakeCertificates \/ Tick
  BY <1>0, <1>2 DEF TypeOK, RemoveCertificates, MakeCertificates, Tick, manager, around
<1>3. CASE RunHooks
  BY <1>0, <1>3 DEF TypeOK, RunHooks, around
<1>16. ASSUME Exit, errors' \in Nat, stops' \in Nat, lost' \subseteq Nat,
              UNCHANGED <<certs, bootAt>>
       PROVE  TypeOK'
  <2>1. /\ metadataStarted' \in BOOLEAN /\ informersStarted' \in BOOLEAN
        /\ serverHook' \in BOOLEAN
    BY <1>16 DEF Exit
  <2>2. /\ pc' = "off" /\ available' = {} /\ todo' = {} /\ running' = {} /\ working' = {}
        /\ asked' = {} /\ started' = {} /\ synced' = {}
    BY <1>16 DEF Exit
  <2> QED BY <1>0, <1>16, <2>1, <2>2 DEF TypeOK
<1>4. CASE Stop
  <2>1. lost' \subseteq Nat
    <3>1. ca[ClientCA].gen \in Nat /\ lost \subseteq Nat
      BY DEF TypeOK, TD!TypeOK
    <3>2. lost' = lost \/ lost' = lost \cup {ca[ClientCA].gen}
      BY <1>4 DEF Stop
    <3> QED BY <3>1, <3>2
  <2> QED BY <1>4, <1>16, <2>1 DEF TypeOK, Stop
<1>5. CASE Fatal
  BY <1>5, <1>16 DEF TypeOK, Fatal
<1>6. CASE CreateControllerContext
  BY <1>0, <1>5, <1>6 DEF TypeOK, CreateControllerContext, around
<1>7. CASE startServiceAccountTokenController
  BY <1>0, <1>5, <1>7
  DEF TypeOK, startServiceAccountTokenController, Initialize, InformerFactoryStart, around, All
<1>8. ASSUME NEW c \in Controllers, StartController(c) PROVE TypeOK'
  BY <1>0, <1>5, <1>8 DEF TypeOK, StartController, Initialize, Skipped, around, All
<1>9. CASE StartInformers \/ StartMetadataInformers
  BY <1>0, <1>9 DEF TypeOK, StartInformers, StartMetadataInformers,
    InformerFactoryStart, MadeByControllers, around
<1>10. CASE CloseInformersStarted
  BY <1>0, <1>10 DEF TypeOK, CloseInformersStarted, around
<1>11. CASE ServerStartsInformers
  BY <1>0, <1>11 DEF TypeOK, ServerStartsInformers, InformerFactoryStart, around
<1>12. ASSUME NEW i \in Informers, FillCache(i) PROVE TypeOK'
  BY <1>0, <1>12 DEF TypeOK, FillCache, around
<1>13. ASSUME NEW c \in All, BeginWork(c) PROVE TypeOK'
  BY <1>0, <1>13 DEF TypeOK, BeginWork, around
<1>14. CASE SignCSR
  <2>1. ca[ClientCA].gen \in Nat /\ ca[ClientCA].expires \in Int /\ now \in Nat
    BY DEF TypeOK, TD!TypeOK
  <2>2. [gen |-> SigningCA.gen, expires |-> NotAfter] \in Cert
    BY <2>1, DurationsAssumption DEF SigningCA, NotAfter, Cert
  <2> QED BY <1>0, <1>14, <2>2 DEF TypeOK, SignCSR, manager
<1>15. CASE UNCHANGED vars
  BY <1>0, <1>15 DEF TypeOK, vars, manager, around
<1> QED
  BY <1>1, <1>2, <1>3, <1>4, <1>6, <1>7, <1>8, <1>9, <1>10, <1>11, <1>12, <1>13,
     <1>14, <1>15
  DEF Next, Run, Libraries, Server

(* Every reachable state has the type stated in the module: nothing works  *)
(* that was not started, and no informer starts that nobody asked for.     *)
THEOREM TypeCorrect == Spec => []TypeOK
BY TypeInit, TypeNext, PTL DEF Spec
-------------------------------------------------------------------------------
LEMMA StartStep ==
  ASSUME TypeOK, StartInv, [Next]_vars
  PROVE  StartInv'
<1> USE ControllersAssumption DEF Skipped
<1>1. CASE LoadCertificates
  BY <1>1 DEF StartInv, LoadCertificates, manager, TD!Start
<1>2. CASE RemoveCertificates \/ MakeCertificates \/ Tick
  BY <1>2 DEF StartInv, RemoveCertificates, MakeCertificates, Tick, manager, TD!Remove,
    TD!Make, TD!Tick
<1>3. CASE RunHooks
  BY <1>3 DEF StartInv, RunHooks, TD!Serve
<1>4. CASE Stop
  BY <1>4 DEF StartInv, Stop, Exit, TD!Stop, TD!Lose
<1>5. CASE Fatal
  BY <1>5 DEF StartInv, Fatal, Exit, TD!Stop
<1>6. CASE CreateControllerContext
  BY <1>5, <1>6 DEF StartInv, CreateControllerContext, trust
<1>7. CASE startServiceAccountTokenController
  BY <1>5, <1>7
  DEF StartInv, startServiceAccountTokenController, Initialize, trust, All, TypeOK
<1>8. ASSUME NEW c \in Controllers, StartController(c) PROVE StartInv'
  BY <1>5, <1>8 DEF StartInv, StartController, Initialize, trust, All, TypeOK
<1>9. CASE StartInformers
  BY <1>9 DEF StartInv, StartInformers, InformerFactoryStart, MadeByControllers, trust, TypeOK
<1>10. CASE StartMetadataInformers
  BY <1>10 DEF StartInv, StartMetadataInformers, InformerFactoryStart, trust, TypeOK
<1>11. CASE CloseInformersStarted
  BY <1>11 DEF StartInv, CloseInformersStarted, trust
<1>12. CASE ServerStartsInformers
  BY <1>12 DEF StartInv, ServerStartsInformers, InformerFactoryStart, trust
<1>13. ASSUME NEW i \in Informers, FillCache(i) PROVE StartInv'
  BY <1>13 DEF StartInv, FillCache, trust
<1>14. ASSUME NEW c \in All, BeginWork(c) PROVE StartInv'
  BY <1>14 DEF StartInv, BeginWork, MayWork, trust
<1>15. CASE SignCSR
  BY <1>15 DEF StartInv, SignCSR, trust, manager
<1>16. CASE UNCHANGED vars
  BY <1>16 DEF StartInv, vars, trust, manager
<1> QED
  BY <1>1, <1>2, <1>3, <1>4, <1>6, <1>7, <1>8, <1>9, <1>10, <1>11, <1>12, <1>13,
     <1>14, <1>15, <1>16
  DEF Next, Run, Libraries, Server

LEMMA CertStep ==
  ASSUME TypeOK, StartInv, CertInv, [Next]_vars
  PROVE  CertInv'
<1>0. /\ ca \in [{ClientCA} -> [gen : Nat, expires : Int]]
      /\ now \in Int /\ bootAt \in Int /\ keys \in Nat /\ Threshold \in Int /\ Validity \in Int
      /\ \A crt \in certs : crt.gen \in Nat /\ crt.expires \in Int
  BY DurationsAssumption DEF TypeOK, TD!TypeOK, Cert
<1> USE <1>0
<1>1. ASSUME UNCHANGED <<ca, keys, certs, bootAt, lost>>, now <= now', now' \in Int,
             phase' = "starting" => phase = "starting" /\ UNCHANGED <<due, now>>,
             phase' = "serving" => ca[ClientCA].gen # 0
      PROVE  CertInv'
  BY <1>1 DEF CertInv, Excused
<1>2. CASE LoadCertificates
  <2>1. /\ UNCHANGED <<ca, keys, certs, now>> /\ bootAt' = now /\ phase' = "starting"
        /\ lost \subseteq lost'
        /\ ClientCA \in due' => TD!CloseToEnd(ClientCA) \/ ca[ClientCA].gen \in lost'
    BY <1>2 DEF LoadCertificates, TD!Start
  <2>2. ASSUME NEW crt \in certs, ClientCA \in due', crt.gen = ca[ClientCA].gen
        PROVE  Excused(crt)'
    BY <2>1, <2>2 DEF CertInv, Excused, TD!CloseToEnd
  <2> QED BY <2>1, <2>2 DEF CertInv, Excused
<1>3. CASE MakeCertificates
  <2>1. /\ UNCHANGED <<phase, due, certs, bootAt, lost, now>> /\ keys' = keys + 1
        /\ ca[ClientCA].gen = 0 /\ ca'[ClientCA].gen = keys + 1
    BY <1>3 DEF MakeCertificates, TD!Make, around
  <2> QED BY <2>1 DEF CertInv, Excused
<1>4. CASE RemoveCertificates
  <2>1. /\ UNCHANGED <<phase, due, keys, now, certs, bootAt, lost>>
        /\ phase = "starting" /\ ClientCA \in due /\ ca'[ClientCA].gen = 0
    BY <1>4 DEF RemoveCertificates, TD!Remove, TD!None, around
  <2>2. ASSUME NEW crt \in certs PROVE Excused(crt) /\ crt.gen # 0
    BY <2>1 DEF CertInv
  <2> QED BY <2>1, <2>2 DEF CertInv, Excused
<1>14. ASSUME TD!Lose(ClientCA), UNCHANGED <<certs, bootAt>>,
              lost' = IF ClientCA \in due THEN lost ELSE lost \cup {ca[ClientCA].gen}
       PROVE  CertInv'
  <2>1. /\ UNCHANGED <<keys, now>> /\ phase = "starting" /\ phase' = "down"
        /\ ca'[ClientCA].gen = 0
    BY <1>14 DEF TD!Lose, TD!None
  <2>2. ASSUME NEW crt \in certs PROVE Excused(crt)' /\ crt.gen # 0
    BY <1>14, <2>1 DEF CertInv, Excused
  <2> QED BY <1>14, <2>1, <2>2 DEF CertInv
<1>5. CASE TD!Stop /\ UNCHANGED <<certs, bootAt, lost>>
  BY <1>1, <1>5 DEF TD!Stop
<1>13. CASE Fatal
  BY <1>5, <1>13 DEF Fatal
<1>6. CASE Tick \/ RunHooks
  BY <1>1, <1>6 DEF Tick, RunHooks, TD!Tick, TD!Serve, around, CertInv
<1>7. CASE SignCSR
  <2>1. /\ UNCHANGED <<phase, ca, due, keys, now, bootAt, lost>>
        /\ certs' = certs \cup {[gen |-> SigningCA.gen, expires |-> NotAfter]}
    BY <1>7 DEF SignCSR, trust
  <2>2. phase = "serving"
    BY <1>7 DEF SignCSR, StartInv, TypeOK
  <2>3. NotAfter <= ca[ClientCA].expires
    BY DurationsAssumption DEF NotAfter, SigningCA
  <2> QED BY <2>1, <2>2, <2>3 DEF CertInv, Excused, SigningCA
<1>8. ASSUME UNCHANGED <<trust, around>> PROVE CertInv'
  BY <1>1, <1>8 DEF trust, around, CertInv
<1>9. CASE Run
  BY <1>8, <1>9, <1>13 DEF Run, CreateControllerContext, startServiceAccountTokenController,
    StartController, StartInformers, StartMetadataInformers, CloseInformersStarted
<1>10. CASE Libraries
  BY <1>8, <1>10 DEF Libraries, ServerStartsInformers, FillCache, BeginWork
<1>11. CASE Stop
  BY <1>5, <1>11, <1>14 DEF Stop
<1>12. CASE UNCHANGED vars
  BY <1>8, <1>12 DEF vars
<1> QED BY <1>2, <1>3, <1>4, <1>6, <1>7, <1>9, <1>10, <1>11, <1>12 DEF Next, Server

LEMMA Invariance == Spec => []IInv
<1>1. Init => IInv
  BY TypeInit, ControllersAssumption DEF Init, IInv, StartInv, CertInv, TD!Init, TD!None
<1>2. IInv /\ [Next]_vars => IInv'
  BY TypeNext, StartStep, CertStep DEF IInv
<1> QED BY <1>1, <1>2, PTL DEF Spec

(* NobodyIsLeftWaiting, for any controllers and informers: closing         *)
(* InformersStarted means that every controller the discovery answer lets  *)
(* run is running and is fed.                                              *)
THEOREM ClosedMeansFed == Spec => []NobodyIsLeftWaiting
<1>1. IInv => NobodyIsLeftWaiting
  BY DEF IInv, StartInv, NobodyIsLeftWaiting
<1> QED BY <1>1, Invariance, PTL

(* RefusedOnlyWhenDue, for any validity, threshold and signing duration: a *)
(* client certificate with the threshold left survives a restart, unless   *)
(* the root was due or a crash cost its CA.                                *)
THEOREM CertificatesSurvive == Spec => []RefusedOnlyWhenDue
<1>1. IInv => RefusedOnlyWhenDue
  BY DEF IInv, CertInv, Excused, RefusedOnlyWhenDue
<1> QED BY <1>1, Invariance, PTL
===============================================================================
