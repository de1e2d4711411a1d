------------------------------ MODULE CertChains ------------------------------
(***************************************************************************)
(* How the controlplane makes, keeps and rotates its certificates.  A      *)
(* start of the process (pkg/servers/options: InitServerRunOptions) loads  *)
(* or creates a root CA, one sub-CA per purpose and the leaf certificates  *)
(* each sub-CA signs (certSetup), lists what is close to its end           *)
(* (certsToRegenerate), regenerates the listed paths, writes the           *)
(* kubeconfigs and starts the embedded etcd.  The state survives on disk,  *)
(* so the process may die between any two of those steps.                  *)
(*                                                                         *)
(* A file pair (certificate and key) that is missing, half written or does *)
(* not match is "absent": the library's loaders refuse it and make a new   *)
(* one in every such case.  Time is counted in units much longer than a    *)
(* start, so the clock stands still while the process starts.              *)
(***************************************************************************)
EXTENDS Integers, FiniteSets

CONSTANTS
  SubCAs,          \* server-ca, request-header-ca, client-ca, etcd-ca
  Leaves,          \* the certificates the sub-CAs sign
  SignerOf,        \* SignerOf[l] is the sub-CA that signs leaf l
  PeerLeaves,      \* leaves requested WithPeerCertificiates
  HostLeaves,      \* serving leaves whose names include ExternalHostname
  Hosts,           \* values of cfg.Apiserver.ExternalHostname
  ServerCA,        \* the sub-CA whose bundle goes into the kubeconfigs
  KubeconfigLeaf,  \* client-ca/kube-aggregator
  RootCA,          \* the path of the root signer
  WalkRank,        \* order of WalkChains: a signer, its sub-CAs, its leaves
  SetupRank,       \* order in which certSetup declares sub-CAs and leaves
  NumKubeconfigs,  \* kubeconfigs InitKubeconfig writes: 1, in a cluster 4
  ShortValidity, ShortThreshold,   \* 365 days, 7 months
  LongValidity, LongThreshold,     \* 5 years, 18 months
  ProvidedRoots,   \* the CAs the configuration may name, NoRoot if it may name none
  MaxClock,        \* bound: last value of the clock
  MaxStops         \* bound: number of stops and crashes of the process

Signers == SubCAs \cup {RootCA}
Targets == Signers \cup Leaves
LeavesOf(c) == {l \in Leaves : SignerOf[l] = c}

(* Subject of the root: CAInfo.EnsureCA creates it with an empty name,     *)
(* regenerateSelf with the signer's name.                                  *)
RootNames == {"unnamed", "root-ca", "provided"}

(* gen identifies a CA's key pair; 0 stands for no loadable file pair.     *)
(* certs is the number of certificates in the root's file.                 *)
Root == [gen : Nat, expires : Int, validity : Int, name : RootNames, certs : Nat]
CA == [gen : Nat, expires : Int, issuer : RootNames]
Leaf == [ca : Nat, expires : Int, host : Hosts]

NoRoot == [gen |-> 0, expires |-> 0, validity |-> 0, name |-> "unnamed", certs |-> 0]
NoCA == [gen |-> 0, expires |-> 0, issuer |-> "unnamed"]
NoLeaf == [ca |-> 0, expires |-> 0, host |-> CHOOSE h \in Hosts : TRUE]

ASSUME ConstantsAssumption ==
  /\ RootCA \notin SubCAs \cup Leaves
  /\ SubCAs \cap Leaves = {}
  /\ SignerOf \in [Leaves -> SubCAs]
  /\ PeerLeaves \subseteq Leaves
  /\ HostLeaves \subseteq Leaves \ PeerLeaves
  /\ Hosts # {}
  /\ ServerCA \in SubCAs
  /\ KubeconfigLeaf \in Leaves \ PeerLeaves
  /\ NumKubeconfigs \in Nat \ {0}
  /\ WalkRank \in [Targets -> Nat] /\ SetupRank \in [SubCAs \cup Leaves -> Nat]
  /\ ProvidedRoots \subseteq Root /\ ProvidedRoots # {}

ASSUME ValidityAssumption ==
  /\ ShortValidity \in Nat /\ ShortThreshold \in Nat
  /\ LongValidity \in Nat /\ LongThreshold \in Nat
  /\ 0 < ShortThreshold /\ ShortThreshold < ShortValidity
  /\ ShortThreshold < LongThreshold /\ LongThreshold < LongValidity
  /\ ShortValidity < LongValidity
  /\ MaxClock \in Nat /\ MaxStops \in Nat

VARIABLES
  \* on disk, under the certificate directory
  rootDisk,    \* root-ca/ca.crt, ca.key, serial.txt
  cas,         \* <sub-CA>/ca-bundle.crt, ca.key, serial.txt
  caFile,      \* <sub-CA>/ca.crt, the copy the servers read: its gen
  leaf,        \* <sub-CA>/<leaf>/*.crt, *.key
  bundle,      \* the trust bundles: bundle[s][issuer] is the gen listed
  saKey,       \* the service account key: 0 is none, 1 and 2 tell a key from the next
  kubeconfig,  \* the kubeconfigs handed out
  \* in the process
  pc,          \* the step of the start that runs next
  mode,        \* who called SignSubCA/SignCertificate
  root,        \* the root signer's signerConfig
  registered,  \* the leaves in some signer's signedCertificates
  cur,         \* the sub-CA being worked on
  cq, lq, bq,  \* the sub-CAs, leaves and bundles left in a loop
  written,     \* kubeconfigs written by this start
  plan,        \* plan[t] is how often t occurs in what is left of regenCerts
  \* around it
  now, stops,
  host,        \* cfg.Apiserver.ExternalHostname
  caProvided,  \* cfg.Apiserver.CAFile and CAKeyFile
  keys,        \* CA key pairs generated so far
  \* history
  bootAt,      \* the clock at this start
  before,      \* the sub-CAs and the root as this start found them
  orphans      \* leaves on disk whose sub-CA a crash left unloadable

disk == <<rootDisk, cas, caFile, leaf, bundle, saKey, kubeconfig>>
process == <<pc, mode, root, registered, cur, cq, lq, bq, written, plan>>
history == <<bootAt, before, orphans>>
vars == <<disk, process, now, host, caProvided, stops, keys, history>>

Kubeconfig == [trust : SUBSET Nat, cert : Leaf]

Init ==
  /\ rootDisk = NoRoot /\ root = NoRoot
  /\ cas = [c \in SubCAs |-> NoCA] /\ caFile = [c \in SubCAs |-> 0]
  /\ leaf = [l \in Leaves |-> NoLeaf]
  /\ bundle = [s \in Signers |-> [n \in RootNames |-> 0]]
  /\ saKey = 0
  /\ kubeconfig = [d \in 1..NumKubeconfigs |-> [trust |-> {}, cert |-> NoLeaf]]
  /\ pc = "down" /\ mode = "setup" /\ registered = {} /\ cur = ServerCA
  /\ cq = {} /\ lq = {} /\ bq = {} /\ written = 0
  /\ plan = [t \in Targets |-> 0]
  /\ now = 0 /\ host = NoLeaf.host /\ caProvided = NoRoot /\ stops = 0
  /\ keys = 1     \* key pair 1 is the provided root's
  /\ bootAt = 0 /\ before = [cas |-> [c \in SubCAs |-> NoCA], root |-> NoRoot]
  /\ orphans = {}

-------------------------------------------------------------------------------
(* The library's certificate functions (library-go pkg/crypto).            *)

(* EnsureCA: a new self-signed root.                                       *)
MakeRoot(name, validity) ==
  [gen |-> keys + 1, expires |-> now + validity, validity |-> validity,
   name |-> name, certs |-> 1]

(* MakeCAConfigForDuration with an issuer.                                 *)
MakeCA == [gen |-> keys + 1, expires |-> now + ShortValidity, issuer |-> root.name]

(* MakeServerCert, MakeClientCertificate: signed by the sub-CA in memory.  *)
MakeLeaf(l) ==
  [ca |-> cas[SignerOf[l]].gen, expires |-> now + ShortValidity,
   host |-> IF l \in HostLeaves THEN host ELSE NoLeaf.host]

(* GetServerCert refuses a certificate for other host names.  None of the  *)
(* loaders looks at who signed the certificate or when it ends.            *)
Loadable(l) ==
  /\ leaf[l].ca # 0
  /\ l \in HostLeaves => leaf[l].host = host
-------------------------------------------------------------------------------
(* certSetup: load or create everything, in the order of declaration.      *)

(* The element of S that comes first in the order given by rank.           *)
IsFirst(x, S, rank) == x \in S /\ \A y \in S : rank[x] <= rank[y]

(* The process ends: what it had in memory is gone.                        *)
Exit ==
  /\ pc' = "down" /\ mode' = "setup"
  /\ root' = NoRoot /\ registered' = {} /\ cur' = ServerCA
  /\ cq' = {} /\ lq' = {} /\ bq' = {} /\ written' = 0
  /\ plan' = [t \in Targets |-> 0]
  /\ bootAt' = 0 /\ before' = [cas |-> [c \in SubCAs |-> NoCA], root |-> NoRoot]

(* Unless it is configured, the external host name comes from the cluster  *)
(* (a route, a load balancer) or from the node.                            *)
GetExternalHost == host' \in Hosts

(* Unless it is configured, the CA pair is the serving signer of the       *)
(* cluster, if there is one.                                               *)
LoadServingSigner == caProvided' \in ProvidedRoots

(* The supervisor starts the process, which reads its configuration; each  *)
(* part may differ from the last start's.                                  *)
LoadConfig ==
  /\ pc = "down"
  /\ pc' = "root"
  /\ GetExternalHost
  /\ LoadServingSigner
  /\ bootAt' = now
  /\ before' = [cas |-> cas,
                root |-> IF caProvided'.gen # 0 THEN caProvided' ELSE rootDisk]
  /\ UNCHANGED <<disk, mode, root, registered, cur, cq, lq, bq, written, plan, now,
                 stops, keys, orphans>>

(* Mutant of IsCAProvided: a root on disk is preferred.                    *)
IsCAProvidedUnlessOnDisk == caProvided.gen # 0 /\ rootDisk.gen = 0

IsCAProvided == caProvided.gen # 0

EnsureRootCA ==
  /\ pc = "root"
  /\ IF IsCAProvided
     THEN root' = caProvided /\ UNCHANGED <<rootDisk, keys>>
     ELSE IF rootDisk.gen # 0
     THEN root' = rootDisk /\ UNCHANGED <<rootDisk, keys>>
     ELSE /\ root' = MakeRoot("unnamed", LongValidity)
          /\ rootDisk' = root'
          /\ keys' = keys + 1
  /\ cq' = SubCAs
  /\ pc' = "subca"
  /\ UNCHANGED <<cas, caFile, leaf, bundle, saKey, kubeconfig, mode, registered,
                 cur, lq, bq, written, plan, now, host, caProvided, stops, history>>

NextSubCA(c) ==
  pc = "subca" /\ IF mode = "setup" THEN IsFirst(c, cq, SetupRank) ELSE c = cur

(* SignSubCA, first half: libraryGoEnsureSubCA.                            *)
SignSubCA(c) ==
  /\ NextSubCA(c)
  /\ IF cas[c].gen # 0
     THEN UNCHANGED <<cas, keys>>
     ELSE cas' = [cas EXCEPT ![c] = MakeCA] /\ keys' = keys + 1
  /\ cur' = c
  /\ pc' = "cacrt"
  /\ UNCHANGED <<rootDisk, caFile, leaf, bundle, saKey, kubeconfig, mode, root,
                 registered, cq, lq, bq, written, plan, now, host, caProvided,
                 stops, history>>

(* toBuilder rebuilds the request from signedCertificates.                 *)
CertificatesToSign(c) ==
  IF mode = "setup" THEN LeavesOf(c) ELSE registered \cap LeavesOf(c)

(* SignSubCA, second half: write ca.crt, then Complete a new signer, which *)
(* starts with no signed certificates.                                     *)
WriteCACert ==
  /\ pc = "cacrt"
  /\ caFile' = [caFile EXCEPT ![cur] = cas[cur].gen]
  /\ lq' = CertificatesToSign(cur)
  /\ registered' = registered \ LeavesOf(cur)
  /\ pc' = "leaf"
  /\ UNCHANGED <<rootDisk, cas, leaf, bundle, saKey, kubeconfig, mode, root, cur,
                 cq, bq, written, plan, now, host, caProvided, stops, keys,
                 history>>

(* Mutant of Registers: no loaded leaf is registered.                      *)
RegistersOnlyMade(l) == ~Loadable(l)

(* SignServingCertificate and SignClientCertificate register the leaf they *)
(* loaded or made; SignPeerCertificate registers only one it made.         *)
Registers(l) == l \notin PeerLeaves \/ ~Loadable(l)

NextLeaf(l) ==
  pc = "leaf" /\ IF mode = "setup" THEN IsFirst(l, lq, SetupRank) ELSE l \in lq

SignCertificate(l) ==
  /\ NextLeaf(l)
  /\ IF Loadable(l)
     THEN UNCHANGED <<leaf, orphans>>
     ELSE /\ leaf' = [leaf EXCEPT ![l] = MakeLeaf(l)]
          /\ orphans' = orphans \ {l}
  /\ registered' = IF Registers(l) THEN registered \cup {l} ELSE registered
  /\ lq' = lq \ {l}
  /\ UNCHANGED <<rootDisk, cas, caFile, bundle, saKey, kubeconfig, pc, mode, root,
                 cur, cq, bq, written, plan, now, host, caProvided, stops, keys,
                 bootAt, before>>

(* The signer is complete.  A regenerated one is added to its bundles; in  *)
(* certSetup the bundles come after all signers.                           *)
CompleteSigner ==
  /\ pc = "leaf" /\ lq = {}
  /\ CASE mode = "setup" ->
            /\ cq' = cq \ {cur}
            /\ pc' = IF cq' = {} THEN "bundle" ELSE "subca"
            /\ bq' = IF cq' = {} THEN Signers ELSE bq
       [] mode = "regen" -> pc' = "cabundle" /\ UNCHANGED <<cq, bq>>
       [] mode = "leaf" -> pc' = "next" /\ UNCHANGED <<cq, bq>>
  /\ UNCHANGED <<disk, mode, root, registered, cur, lq, written, plan, now, host,
                 caProvided, stops, keys, history>>

(* Mutant of WithSigner: a listed certificate is kept.                     *)
WithSignerIfMissing(s) ==
  LET issuer == IF s = RootCA THEN root.name ELSE cas[s].issuer
      gen == IF s = RootCA THEN root.gen ELSE cas[s].gen
  IN  [bundle EXCEPT ![s] = [@ EXCEPT ![issuer] = IF @ = 0 THEN gen ELSE @]]

(* AddToBundles: a listed certificate with the same subject and issuer is  *)
(* replaced, otherwise the certificate is appended.                        *)
WithSigner(s) ==
  LET issuer == IF s = RootCA THEN root.name ELSE cas[s].issuer
      gen == IF s = RootCA THEN root.gen ELSE cas[s].gen
  IN  [bundle EXCEPT ![s] = [@ EXCEPT ![issuer] = gen]]

(* The bundles are in a map: Complete ranges over them in any order.       *)
AddToBundles(s) ==
  /\ pc = "bundle" /\ s \in bq
  /\ bundle' = WithSigner(s)
  /\ bq' = bq \ {s}
  /\ pc' = IF bq' = {} THEN "sakey" ELSE "bundle"
  /\ UNCHANGED <<rootDisk, cas, caFile, leaf, saKey, kubeconfig, mode, root,
                 registered, cur, cq, lq, written, plan, now, host, caProvided,
                 stops, keys, history>>

(* A new service account key replaces the one in use, at every start.      *)
GenerateServiceAccountKey ==
  /\ pc = "sakey"
  /\ saKey' = IF saKey = 1 THEN 2 ELSE 1
  /\ pc' = "plan"
  /\ UNCHANGED <<rootDisk, cas, caFile, leaf, bundle, kubeconfig, mode, root,
                 registered, cur, cq, lq, bq, written, plan, now, host, caProvided,
                 stops, keys, history>>
-------------------------------------------------------------------------------
(* certsToRegenerate.                                                      *)

IsCertShortLived(validity) == validity < LongValidity

TimeLeft(expires) == expires - now

(* Mutant of Appended: the return after the short-lived case is missing.   *)
AppendedWithoutReturn(expires, validity) ==
  (IF TimeLeft(expires) < 0 THEN 1 ELSE 0)
    + (IF IsCertShortLived(validity) /\ TimeLeft(expires) < ShortThreshold THEN 1 ELSE 0)
    + (IF TimeLeft(expires) < LongThreshold THEN 1 ELSE 0)

(* Mutant of Appended: a certificate is replaced when it has expired.      *)
AppendedWhenExpired(expires, validity) == IF TimeLeft(expires) < 0 THEN 1 ELSE 0

(* Mutant of Appended: off by one at the threshold.                        *)
AppendedAtThreshold(expires, validity) ==
  LET threshold == IF IsCertShortLived(validity) THEN ShortThreshold ELSE LongThreshold
  IN  IF TimeLeft(expires) <= threshold THEN 1 ELSE 0

(* How often the walk function appends the path of a certificate: once if  *)
(* it has expired, and once if it is within its rotation threshold.        *)
Appended(expires, validity) ==
  LET threshold == IF IsCertShortLived(validity) THEN ShortThreshold ELSE LongThreshold
  IN  (IF TimeLeft(expires) < 0 THEN 1 ELSE 0)
        + (IF TimeLeft(expires) < threshold THEN 1 ELSE 0)

(* WalkChains visits the signers and the registered leaves only.           *)
RegenCerts ==
  [t \in Targets |->
     IF t = RootCA THEN Appended(root.expires, root.validity)
     ELSE IF t \in SubCAs THEN Appended(cas[t].expires, ShortValidity)
     ELSE IF t \in registered THEN Appended(leaf[t].expires, ShortValidity)
     ELSE 0]

certsToRegenerate ==
  /\ pc = "plan"
  /\ plan' = RegenCerts
  /\ pc' = "next"
  /\ UNCHANGED <<disk, mode, root, registered, cur, cq, lq, bq, written, now, host,
                 caProvided, stops, keys, history>>
-------------------------------------------------------------------------------
(* Regenerate, for every listed path in the order of the walk.             *)

Planned == {t \in Targets : plan[t] > 0}

(* The root: itself if its file holds one certificate, then every sub-CA.  *)
RegenerateRoot ==
  /\ pc = "next" /\ IsFirst(RootCA, Planned, WalkRank)
  /\ plan' = [plan EXCEPT ![RootCA] = @ - 1]
  /\ mode' = "regen"
  /\ cq' = SubCAs
  /\ pc' = IF root.certs = 1 THEN "rmroot" ELSE "rmca"
  /\ UNCHANGED <<disk, root, registered, cur, lq, bq, written, now, host,
                 caProvided, stops, keys, history>>

RegenerateSubCA(c) ==
  /\ pc = "next" /\ IsFirst(c, Planned, WalkRank)
  /\ plan' = [plan EXCEPT ![c] = @ - 1]
  /\ mode' = "regen"
  /\ cq' = {c}
  /\ pc' = "rmca"
  /\ UNCHANGED <<disk, root, registered, cur, lq, bq, written, now, host,
                 caProvided, stops, keys, history>>

RegenerateLeaf(l) ==
  /\ pc = "next" /\ IsFirst(l, Planned, WalkRank)
  /\ plan' = [plan EXCEPT ![l] = @ - 1]
  /\ mode' = "leaf"
  /\ cur' = SignerOf[l] /\ lq' = {l}
  /\ pc' = "rmleaf"
  /\ UNCHANGED <<disk, root, registered, cq, bq, written, now, host, caProvided,
                 stops, keys, history>>

RegenerateDone ==
  /\ pc = "next" /\ Planned = {}
  /\ pc' = "kubeconfig"
  /\ UNCHANGED <<disk, mode, root, registered, cur, cq, lq, bq, written, plan, now,
                 host, caProvided, stops, keys, history>>

(* regenerateSelf: remove the directory, make a named root, add it to its  *)
(* bundle.                                                                 *)
RemoveRoot ==
  /\ pc = "rmroot"
  /\ rootDisk' = NoRoot
  /\ pc' = "mkroot"
  /\ UNCHANGED <<cas, caFile, leaf, bundle, saKey, kubeconfig, mode, root,
                 registered, cur, cq, lq, bq, written, plan, now, host, caProvided,
                 stops, keys, history>>

regenerateSelf ==
  /\ pc = "mkroot"
  /\ rootDisk' = MakeRoot("root-ca", LongValidity)
  /\ root' = rootDisk'
  /\ keys' = keys + 1
  /\ pc' = "rootbundle"
  /\ UNCHANGED <<cas, caFile, leaf, bundle, saKey, kubeconfig, mode, registered,
                 cur, cq, lq, bq, written, plan, now, host, caProvided, stops,
                 history>>

AddRootToBundle ==
  /\ pc = "rootbundle"
  /\ bundle' = WithSigner(RootCA)
  /\ pc' = "rmca"
  /\ UNCHANGED <<rootDisk, cas, caFile, leaf, saKey, kubeconfig, mode, root,
                 registered, cur, cq, lq, bq, written, plan, now, host, caProvided,
                 stops, keys, history>>

(* Mutant of WithoutLeavesOf: only the sub-CA's own files are removed.     *)
WithLeavesOf(c) == [l \in Leaves |-> leaf[l]]

(* RemoveAll of a sub-CA's directory takes the leaves' directories along.  *)
WithoutLeavesOf(c) == [l \in Leaves |-> IF SignerOf[l] = c THEN NoLeaf ELSE leaf[l]]

(* regenerateSubCA: remove the sub-CA's directory, then SignSubCA.         *)
regenerateSubCA(c) ==
  /\ pc = "rmca" /\ IsFirst(c, cq, WalkRank)
  /\ cas' = [cas EXCEPT ![c] = NoCA]
  /\ caFile' = [caFile EXCEPT ![c] = 0]
  /\ leaf' = WithoutLeavesOf(c)
  /\ orphans' = orphans \ LeavesOf(c)
  /\ cur' = c
  /\ pc' = "subca"
  /\ UNCHANGED <<rootDisk, bundle, saKey, kubeconfig, mode, root, registered, cq,
                 lq, bq, written, plan, now, host, caProvided, stops, keys, bootAt,
                 before>>

(* Complete of a regenerated sub-CA ends with AddToBundles.                *)
AddSubCAToBundle ==
  /\ pc = "cabundle"
  /\ bundle' = WithSigner(cur)
  /\ cq' = cq \ {cur}
  /\ pc' = IF cq' = {} THEN "next" ELSE "rmca"
  /\ UNCHANGED <<rootDisk, cas, caFile, leaf, saKey, kubeconfig, mode, root,
                 registered, cur, lq, bq, written, plan, now, host, caProvided,
                 stops, keys, history>>

(* regenerateCertificate: remove the leaf's directory, then SignCertificate. *)
regenerateCertificate(l) ==
  /\ pc = "rmleaf" /\ l \in lq
  /\ leaf' = [leaf EXCEPT ![l] = NoLeaf]
  /\ orphans' = orphans \ {l}
  /\ pc' = "leaf"
  /\ UNCHANGED <<rootDisk, cas, caFile, bundle, saKey, kubeconfig, mode, root,
                 registered, cur, cq, lq, bq, written, plan, now, host, caProvided,
                 stops, keys, bootAt, before>>
-------------------------------------------------------------------------------
(* InitKubeconfig and the embedded etcd.                                   *)

(* A kubeconfig holds the server bundle and the kube-aggregator client     *)
(* certificate.                                                            *)
toKubeconfig ==
  [trust |-> {bundle[ServerCA][n] : n \in RootNames} \ {0},
   cert |-> leaf[KubeconfigLeaf]]

(* Each kubeconfig is written to a file or a secret; an unregistered       *)
(* certificate is an error (GetCertKey).                                   *)
InitKubeconfig ==
  /\ pc = "kubeconfig" /\ KubeconfigLeaf \in registered
  /\ kubeconfig' = [kubeconfig EXCEPT ![written + 1] = toKubeconfig]
  /\ written' = written + 1
  /\ pc' = IF written' = NumKubeconfigs THEN "etcd" ELSE "kubeconfig"
  /\ UNCHANGED <<rootDisk, cas, caFile, leaf, bundle, saKey, mode, root, registered,
                 cur, cq, lq, bq, plan, now, host, caProvided, stops, keys,
                 history>>

(* StartEtcd reads the peer certificate from disk; without it the start    *)
(* fails and the process ends.                                             *)
StartEtcd ==
  /\ pc = "etcd"
  /\ IF \A l \in PeerLeaves : leaf[l].ca # 0
     THEN /\ pc' = "serving"
          /\ UNCHANGED <<mode, root, registered, cur, cq, lq, bq, written, plan,
                         bootAt, before>>
     ELSE Exit
  /\ UNCHANGED <<disk, now, host, caProvided, stops, keys, orphans>>
-------------------------------------------------------------------------------
(* The environment.                                                        *)

(* A signal, a crash, or an error of the step that would run next.         *)
Stop ==
  /\ pc # "down" /\ stops < MaxStops
  /\ Exit /\ stops' = stops + 1
  /\ UNCHANGED <<disk, now, host, caProvided, keys, orphans>>

(* The leaves that stay when their sub-CA no longer loads.                 *)
LeavesOnDisk(c) == {l \in LeavesOf(c) : leaf[l].ca # 0}

(* A crash inside RemoveAll of a sub-CA's directory: it deletes the        *)
(* entries in directory order, so any of them may be left.                 *)
CrashInRemoveAll(c) ==
  /\ pc = "rmca" /\ IsFirst(c, cq, WalkRank) /\ stops < MaxStops
  /\ \E left \in SUBSET LeavesOnDisk(c) :
       /\ leaf' = [l \in Leaves |-> IF l \in LeavesOf(c) \ left THEN NoLeaf ELSE leaf[l]]
       /\ \/ /\ cas' = [cas EXCEPT ![c] = NoCA]
             /\ orphans' = (orphans \ LeavesOf(c)) \cup left
          \/ /\ orphans' = orphans \ (LeavesOf(c) \ left)
             /\ UNCHANGED cas
  /\ Exit /\ stops' = stops + 1
  /\ UNCHANGED <<rootDisk, caFile, bundle, saKey, kubeconfig, now, host, caProvided,
                 keys>>

(* Signing takes the next serial number from the signer's serial.txt, which *)
(* is truncated and written again.  A crash in between leaves a signer     *)
(* that does not load: the root, unless it is the provided one, which has  *)
(* no such file ...                                                        *)
CrashInSignSubCA(c) ==
  /\ NextSubCA(c) /\ cas[c].gen = 0 /\ root # caProvided /\ stops < MaxStops
  /\ rootDisk' = NoRoot
  /\ Exit /\ stops' = stops + 1
  /\ UNCHANGED <<cas, caFile, leaf, bundle, saKey, kubeconfig, now, host, caProvided,
                 keys, orphans>>

(* ... or the sub-CA, whose leaves stay.  A crash while the leaf itself is *)
(* written takes what was in its place.                                    *)
CrashInSignCertificate(l) ==
  /\ NextLeaf(l) /\ ~Loadable(l) /\ stops < MaxStops
  /\ \/ /\ cas' = [cas EXCEPT ![SignerOf[l]] = NoCA]
        /\ orphans' = orphans \cup LeavesOnDisk(SignerOf[l])
        /\ UNCHANGED leaf
     \/ /\ leaf' = [leaf EXCEPT ![l] = NoLeaf]
        /\ orphans' = orphans \ {l}
        /\ UNCHANGED cas
  /\ Exit /\ stops' = stops + 1
  /\ UNCHANGED <<rootDisk, caFile, bundle, saKey, kubeconfig, now, host, caProvided,
                 keys>>

(* A crash between opening a bundle, which truncates it, and writing it.   *)
CrashInAddToBundles(s) ==
  /\ \/ pc = "bundle" /\ s \in bq
     \/ pc = "cabundle" /\ s = cur
     \/ pc = "rootbundle" /\ s = RootCA
  /\ stops < MaxStops
  /\ bundle' = [bundle EXCEPT ![s] = [n \in RootNames |-> 0]]
  /\ Exit /\ stops' = stops + 1
  /\ UNCHANGED <<rootDisk, cas, caFile, leaf, saKey, kubeconfig, now, host,
                 caProvided, keys, orphans>>

Tick ==
  /\ pc \in {"down", "serving"} /\ now < MaxClock
  /\ now' = now + 1
  /\ UNCHANGED <<disk, process, host, caProvided, stops, keys, history>>
-------------------------------------------------------------------------------
certSetup ==
  \/ EnsureRootCA
  \/ \E c \in SubCAs : SignSubCA(c)
  \/ WriteCACert
  \/ \E l \in Leaves : SignCertificate(l)
  \/ CompleteSigner
  \/ \E s \in Signers : AddToBundles(s)
  \/ GenerateServiceAccountKey

Regenerate ==
  \/ RegenerateRoot \/ RegenerateDone
  \/ \E c \in SubCAs : RegenerateSubCA(c) \/ regenerateSubCA(c)
  \/ \E l \in Leaves : RegenerateLeaf(l) \/ regenerateCertificate(l)
  \/ RemoveRoot \/ regenerateSelf \/ AddRootToBundle \/ AddSubCAToBundle

Process ==
  \/ LoadConfig \/ certSetup \/ certsToRegenerate \/ Regenerate
  \/ InitKubeconfig \/ StartEtcd

Environment ==
  \/ Stop \/ Tick
  \/ \E c \in SubCAs : CrashInRemoveAll(c) \/ CrashInSignSubCA(c)
  \/ \E l \in Leaves : CrashInSignCertificate(l)
  \/ \E s \in Signers : CrashInAddToBundles(s)

Next == Process \/ Environment

Spec == Init /\ [][Next]_vars

(* The supervisor restarts the process, and a start never waits.           *)
FairSpec == Spec /\ WF_vars(Process)
-------------------------------------------------------------------------------
(* The values of the variables.                                            *)
TypeOK ==
  /\ rootDisk \in Root /\ root \in Root
  /\ cas \in [SubCAs -> CA] /\ caFile \in [SubCAs -> Nat]
  /\ leaf \in [Leaves -> Leaf]
  /\ bundle \in [Signers -> [RootNames -> Nat]]
  /\ saKey \in 0..2
  /\ kubeconfig \in [1..NumKubeconfigs -> Kubeconfig]
  /\ pc \in {"down", "root", "subca", "cacrt", "leaf", "bundle", "sakey", "plan",
             "next", "rmroot", "mkroot", "rootbundle", "rmca", "cabundle",
             "rmleaf", "kubeconfig", "etcd", "serving"}
  /\ mode \in {"setup", "regen", "leaf"}
  /\ registered \subseteq Leaves /\ cur \in SubCAs
  /\ cq \subseteq SubCAs /\ lq \subseteq Leaves /\ bq \subseteq Signers
  /\ written \in 0..NumKubeconfigs
  /\ plan \in [Targets -> 0..2]
  /\ host \in Hosts /\ caProvided \in Root
  /\ now \in Nat /\ stops \in Nat /\ keys \in Nat \ {0}
  /\ bootAt \in Nat /\ before \in [cas : [SubCAs -> CA], root : Root]
  /\ orphans \subseteq Leaves

(* Whatever rotations and crashes came before, when the controlplane       *)
(* serves, every certificate it uses is there and is signed by the CA      *)
(* whose ca.crt the servers trust, and the CA is in its bundle under its   *)
(* own subject and issuer.  The only exceptions are leaves that were on    *)
(* disk when a crash made their CA unloadable, inside RemoveAll or while   *)
(* serial.txt was rewritten: the next start makes a new CA and loads them  *)
(* without looking at who signed them.                                     *)
ServedChainsVerify ==
  pc = "serving" =>
    /\ \A l \in Leaves \ orphans :
         leaf[l].ca # 0 /\ leaf[l].ca = cas[SignerOf[l]].gen
    /\ \A c \in SubCAs :
         /\ cas[c].gen # 0
         /\ caFile[c] = cas[c].gen
         /\ bundle[c][cas[c].issuer] = cas[c].gen

(* When the controlplane serves, each kubeconfig it handed out trusts the  *)
(* server CA in use and presents a client certificate that the client CA   *)
(* in use signed, even if the start before died half way through them; but *)
(* for a client certificate whose CA a crash left unloadable.              *)
KubeconfigsVerify ==
  pc = "serving" =>
    \A d \in 1..NumKubeconfigs :
      /\ cas[ServerCA].gen \in kubeconfig[d].trust
      /\ \/ KubeconfigLeaf \in orphans
         \/ kubeconfig[d].cert.ca = caFile[SignerOf[KubeconfigLeaf]]

(* A controlplane that is restarted before the rotation threshold passes   *)
(* never serves with an expired certificate.  This includes the peer       *)
(* certificate, which a restarted process neither walks nor rotates: it is *)
(* never older than its CA.                                                *)
NoneExpiresInUse ==
  (pc = "serving" /\ now - bootAt < ShortThreshold) =>
    /\ \A c \in SubCAs : now <= cas[c].expires
    /\ \A l \in registered \cup (Leaves \ orphans) : now <= leaf[l].expires

(* A sub-CA that was not due when the process started, under a root that   *)
(* was not due either, is the same when the process serves: InitCerts      *)
(* swaps nothing early.                                                    *)
SwapsOnlyDue ==
  pc = "serving" =>
    \A c \in SubCAs :
      (/\ before.cas[c].gen # 0
       /\ before.cas[c].expires - bootAt >= ShortThreshold
       /\ before.root.gen # 0 => before.root.expires - bootAt >= LongThreshold)
      => cas[c] = before.cas[c]

(* What a start may replace: the sub-CAs that were close to their end when *)
(* it began, or all of them if the root was.                               *)
RootWasDue == before.root.gen # 0 /\ before.root.expires - bootAt < LongThreshold
WasDue(c) ==
  \/ RootWasDue
  \/ before.cas[c].gen # 0 /\ before.cas[c].expires - bootAt < ShortThreshold

TD == INSTANCE TrustDomain WITH
        Validity <- ShortValidity,
        Threshold <- ShortThreshold,
        phase <- IF pc \in {"down", "serving"} THEN pc ELSE "starting",
        ca <- [c \in SubCAs |-> [gen |-> cas[c].gen, expires |-> cas[c].expires]],
        due <- IF pc = "down" THEN {} ELSE {c \in SubCAs : WasDue(c)}

(* A start, with everything it loads, walks, removes and makes and with a  *)
(* crash anywhere in it, does to the sub-CAs only what TrustDomain allows: *)
(* at no step is one replaced that was there and not due when the start    *)
(* began, one listed twice is replaced twice but only in the same start, a *)
(* crash costs at most one, and nothing changes while the process serves.  *)
ImplementsTrustDomain == TD!Spec

(* The provided CA was close to its end when this start began.             *)
ProvidedWasDue ==
  caProvided.expires - bootAt
    < IF IsCertShortLived(caProvided.validity) THEN ShortThreshold ELSE LongThreshold

(* What a provided CA signs, whatever roots and sub-CAs earlier starts left *)
(* on disk.  Every sub-CA a start makes is issued by the provided CA, but  *)
(* for two cases that README.md does not foresee (ProvidedCASignsAll): a   *)
(* sub-CA that the start found is kept until it is due, whoever issued it; *)
(* and a CA that is due and alone in its file is given up for a            *)
(* self-signed root, which then issues all of them.                        *)
ProvidedCASigns ==
  (pc = "serving" /\ caProvided.gen # 0) =>
    IF ProvidedWasDue /\ caProvided.certs = 1
    THEN /\ root = rootDisk /\ root.name = "root-ca"
         /\ \A c \in SubCAs : cas[c].issuer = "root-ca"
    ELSE /\ root = caProvided
         /\ \A c \in SubCAs :
              \/ cas[c].issuer = caProvided.name
              \/ ~ProvidedWasDue /\ cas[c] = before.cas[c]

(* The lookups whose failure would end the start succeed: a leaf on the    *)
(* list is still registered when its turn comes (regenerateCertificate),   *)
(* although its sub-CA may have been rebuilt since, and the kubeconfig's   *)
(* client certificate is registered (GetCertKey).                          *)
LookupsSucceed ==
  /\ pc = "rmleaf" => lq \subseteq registered
  /\ pc = "kubeconfig" => KubeconfigLeaf \in registered

(* Once nobody stops it any more the controlplane gets to serve, although  *)
(* a start may fail at the embedded etcd.                                  *)
EventuallyServes == []<>(pc = "serving")

(* signers_test.go: regenerating a signer regenerates the peer certificate *)
(* it signs ("test-signer/test-signer-sub/sub-peer" is among the changed   *)
(* files); signers.go: "renew ourselves and all our sub-certs".            *)
RegenerationKeepsLeaves ==
  pc = "kubeconfig" => \A l \in Leaves : leaf[l].ca # 0

(* README.md: caFile is "the CA file provided by user to sign all the      *)
(* serving/client certificates".                                           *)
ProvidedCASignsAll ==
  (pc = "serving" /\ caProvided.gen # 0) => \A c \in SubCAs : cas[c].issuer = caProvided.name
===============================================================================
