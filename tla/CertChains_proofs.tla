--------------------------- MODULE CertChains_proofs ---------------------------
(***************************************************************************)
(* Proofs about CertChains, for every set of sub-CAs and leaves, every     *)
(* validity and threshold, and any number of stops and crashes.            *)
(***************************************************************************)
EXTENDS CertChains, TLAPS

(* A leaf that is there and is no orphan of a crash is signed by the CA on *)
(* disk and outlives it; this holds at every step, because a CA is only    *)
(* ever made where no such leaf is left.                                   *)
SignedByCA ==
  /\ \A c \in SubCAs : cas[c].expires <= now + ShortValidity
  /\ \A l \in Leaves \ orphans :
       leaf[l].ca # 0 => /\ leaf[l].ca = cas[SignerOf[l]].gen
                         /\ cas[SignerOf[l]].expires <= leaf[l].expires

(* The sub-CAs whose files are not in order at the current step.           *)
Busy ==
  IF pc \in {"down", "root"} THEN SubCAs
  ELSE IF pc \in {"subca", "cacrt", "leaf"}
       THEN IF mode = "setup" THEN cq ELSE IF mode = "regen" THEN {cur} ELSE {}
  ELSE {}

(* Which mode a step runs in, and what the loop variables hold.            *)
ControlInv ==
  /\ pc \in {"down", "root", "bundle", "sakey", "plan"} => mode = "setup"
  /\ pc \in {"rmroot", "mkroot", "rootbundle", "rmca", "cabundle"} => mode = "regen"
  /\ pc = "rmleaf" => mode = "leaf"
  /\ pc \in {"subca", "cacrt"} => mode \in {"setup", "regen"}
  /\ (pc \in {"cacrt", "leaf"} /\ mode = "setup") => cur \in cq
  /\ (pc = "leaf" /\ mode # "leaf") => lq \subseteq LeavesOf(cur)
  /\ (pc = "rmleaf") => \E l \in Leaves : lq = {l}
  /\ pc \notin {"kubeconfig", "etcd", "serving"} => written = 0
  /\ pc \in {"etcd", "serving"} => written = NumKubeconfigs
  /\ pc = "kubeconfig" => written < NumKubeconfigs

(* The sub-CAs that are not busy exist and their ca.crt is up to date; so  *)
(* is the one in work as far as its steps have gone.                       *)
CAInv ==
  /\ \A c \in SubCAs \ Busy : cas[c].gen # 0 /\ caFile[c] = cas[c].gen
  /\ pc \in {"cacrt", "leaf"} => cas[cur].gen # 0
  /\ pc = "leaf" => caFile[cur] = cas[cur].gen

(* Every leaf that is not a peer's is registered and there, but for the    *)
(* ones the running loop has yet to sign.                                  *)
LeafInv ==
  \A l \in Leaves \ PeerLeaves :
    /\ (SignerOf[l] \notin Busy /\ ~(pc = "leaf" /\ l \in lq))
         => l \in registered /\ leaf[l].ca # 0
    /\ (pc \in {"subca", "cacrt"} /\ mode = "regen") => l \in registered
    /\ (pc = "leaf" /\ SignerOf[l] = cur /\ l \notin lq) => l \in registered /\ leaf[l].ca # 0
    /\ (pc = "leaf" /\ mode = "leaf") => l \in registered

(* A peer's leaf is there once the embedded etcd has started.              *)
PeerInv == pc = "serving" => \A l \in PeerLeaves : leaf[l].ca # 0

(* Every sub-CA is in its bundle, but for the ones being added.            *)
BundleInv ==
  \A c \in SubCAs :
    \/ pc \in {"down", "root"}
    \/ pc \in {"subca", "cacrt", "leaf"} /\ mode = "setup"
    \/ pc = "bundle" /\ c \in bq
    \/ pc \in {"subca", "cacrt", "leaf", "cabundle"} /\ mode = "regen" /\ c = cur
    \/ bundle[c][cas[c].issuer] = cas[c].gen

(* The kubeconfigs written so far match what is on disk.                   *)
KubeconfigInv ==
  pc \in {"kubeconfig", "etcd", "serving"} =>
    \A d \in 1..written :
      /\ cas[ServerCA].gen \in kubeconfig[d].trust
      /\ kubeconfig[d].cert = leaf[KubeconfigLeaf]

(* A listed leaf is registered, unless it is about to be signed anew: a    *)
(* peer's leaf registers then because it was removed before.               *)
PlanInv ==
  \A l \in Leaves :
    /\ plan[l] > 0 => l \in registered \/ (pc = "leaf" /\ mode = "regen" /\ l \in lq)
    /\ (pc \in {"subca", "cacrt"} /\ mode = "regen" /\ SignerOf[l] = cur) => leaf[l].ca = 0
    /\ (pc = "leaf" /\ mode \in {"regen", "leaf"} /\ l \in lq) => leaf[l].ca = 0
    /\ (pc \in {"rmleaf"} /\ l \in lq) => l \in registered
    /\ (\/ pc \in {"down", "root", "bundle", "sakey", "plan"}
        \/ pc \in {"subca", "cacrt", "leaf"} /\ mode = "setup") => plan[l] = 0

IInv ==
  /\ TypeOK /\ SignedByCA /\ ControlInv /\ CAInv /\ LeafInv /\ PeerInv
  /\ BundleInv /\ KubeconfigInv /\ PlanInv
-------------------------------------------------------------------------------
(* Type correctness.                                                       *)

LEMMA ConstantTypes ==
  /\ NoRoot \in Root /\ NoCA \in CA /\ NoLeaf \in Leaf
  /\ ProvidedRoots \subseteq Root
  /\ \A l \in Leaves : SignerOf[l] \in SubCAs
  /\ SubCAs \subseteq Signers /\ RootCA \in Signers
BY ConstantsAssumption DEF Root, CA, Leaf, NoRoot, NoCA, NoLeaf, RootNames, Signers

LEMMA MadeTypes ==
  ASSUME TypeOK
  PROVE  /\ \A name \in RootNames : MakeRoot(name, LongValidity) \in Root
         /\ MakeCA \in CA /\ MakeCA.gen # 0 /\ MakeCA.expires = now + ShortValidity
         /\ \A l \in Leaves : MakeLeaf(l) \in Leaf
<1>1. \A name \in RootNames : MakeRoot(name, LongValidity) \in Root
  BY ValidityAssumption DEF TypeOK, MakeRoot, Root
<1>2. MakeCA \in CA /\ MakeCA.gen # 0 /\ MakeCA.expires = now + ShortValidity
  BY ValidityAssumption DEF TypeOK, MakeCA, CA, Root
<1>3. ASSUME NEW l \in Leaves PROVE MakeLeaf(l) \in Leaf
  <2>1. cas[SignerOf[l]] \in CA
    BY ConstantTypes DEF TypeOK
  <2>2. NoLeaf.host \in Hosts
    BY ConstantTypes DEF Leaf
  <2> QED BY <2>1, <2>2, ValidityAssumption DEF TypeOK, MakeLeaf, Leaf, CA
<1> QED BY <1>1, <1>2, <1>3

LEMMA TypeInit == Init => TypeOK
<1>1. NoLeaf.host \in Hosts
  BY ConstantTypes DEF Leaf
<1> QED BY <1>1, ConstantTypes, ConstantsAssumption, ValidityAssumption
        DEF Init, TypeOK, Kubeconfig, Targets, RootNames

LEMMA TypeNext == TypeOK /\ [Next]_vars => TypeOK'
<1> SUFFICES ASSUME TypeOK, [Next]_vars PROVE TypeOK'
  OBVIOUS
<1> USE ConstantTypes
<1>0. /\ MakeRoot("unnamed", LongValidity) \in Root
      /\ MakeRoot("root-ca", LongValidity) \in Root
      /\ MakeCA \in CA
  BY MadeTypes DEF RootNames
<1>1. CASE LoadConfig
  BY <1>1 DEF TypeOK, LoadConfig, GetExternalHost, LoadServingSigner, disk
<1>2. CASE EnsureRootCA
  BY <1>0, <1>2 DEF TypeOK, EnsureRootCA, history
<1>3. ASSUME NEW c \in SubCAs, SignSubCA(c) PROVE TypeOK'
  <2>1. cas' \in [SubCAs -> CA] /\ keys' \in Nat \ {0}
    <3>1. CASE cas[c].gen # 0
      BY <1>3, <3>1 DEF TypeOK, SignSubCA, NextSubCA
    <3>2. CASE cas[c].gen = 0
      <4>1. cas' = [cas EXCEPT ![c] = MakeCA] /\ keys' = keys + 1
        BY <1>3, <3>2 DEF SignSubCA, NextSubCA
      <4> QED BY <1>0, <4>1 DEF TypeOK
    <3> QED BY <3>1, <3>2
  <2> QED BY <1>3, <2>1 DEF TypeOK, SignSubCA, NextSubCA, history
<1>4. CASE WriteCACert
  BY <1>4 DEF TypeOK, WriteCACert, history, CertificatesToSign, LeavesOf, CA
<1>5. ASSUME NEW l \in Leaves, SignCertificate(l) PROVE TypeOK'
  BY <1>5, MadeTypes DEF TypeOK, SignCertificate, NextLeaf
<1>6. CASE CompleteSigner
  BY <1>6 DEF TypeOK, CompleteSigner, disk, history
<1>7. ASSUME NEW s \in Signers PROVE WithSigner(s) \in [Signers -> [RootNames -> Nat]]
  BY <1>7 DEF TypeOK, WithSigner, Signers, Root, CA
<1>8. ASSUME NEW s \in Signers, AddToBundles(s) PROVE TypeOK'
  BY <1>7, <1>8 DEF TypeOK, AddToBundles, history
<1>9. CASE GenerateServiceAccountKey
  BY <1>9 DEF TypeOK, GenerateServiceAccountKey, history
<1>10. CASE certsToRegenerate
  <2>1. ASSUME NEW x \in Int, NEW v \in Int PROVE Appended(x, v) \in 0..2
    BY ValidityAssumption DEF Appended
  <2>2. RegenCerts \in [Targets -> 0..2]
    <3> SUFFICES ASSUME NEW t \in Targets PROVE RegenCerts[t] \in 0..2
      BY DEF RegenCerts
    <3>1. root.expires \in Int /\ root.validity \in Int /\ ShortValidity \in Int
      BY ValidityAssumption DEF TypeOK, Root
    <3>2. t \in SubCAs => cas[t].expires \in Int
      BY DEF TypeOK, CA
    <3>3. t \in Leaves => leaf[t].expires \in Int
      BY DEF TypeOK, Leaf
    <3> QED BY <2>1, <3>1, <3>2, <3>3 DEF RegenCerts, TypeOK
  <2> QED BY <1>10, <2>2 DEF TypeOK, certsToRegenerate, disk, history
<1>11. CASE RegenerateRoot
  BY <1>11 DEF TypeOK, RegenerateRoot, disk, history, IsFirst, Planned
<1>12. ASSUME NEW c \in SubCAs, RegenerateSubCA(c) PROVE TypeOK'
  BY <1>12 DEF TypeOK, RegenerateSubCA, disk, history, IsFirst, Planned
<1>13. ASSUME NEW l \in Leaves, RegenerateLeaf(l) PROVE TypeOK'
  BY <1>13 DEF TypeOK, RegenerateLeaf, disk, history, IsFirst, Planned
<1>14. CASE RegenerateDone
  BY <1>14 DEF TypeOK, RegenerateDone, disk, history
<1>15. CASE RemoveRoot
  BY <1>15 DEF TypeOK, RemoveRoot, history
<1>16. CASE regenerateSelf
  BY <1>0, <1>16 DEF TypeOK, regenerateSelf, history
<1>17. CASE AddRootToBundle
  BY <1>7, <1>17 DEF TypeOK, AddRootToBundle, history
<1>18. ASSUME NEW c \in SubCAs, regenerateSubCA(c) PROVE TypeOK'
  BY <1>18 DEF TypeOK, regenerateSubCA, WithoutLeavesOf
<1>19. CASE AddSubCAToBundle
  BY <1>7, <1>19 DEF TypeOK, AddSubCAToBundle, history
<1>20. ASSUME NEW l \in Leaves, regenerateCertificate(l) PROVE TypeOK'
  BY <1>20 DEF TypeOK, regenerateCertificate
<1>21. CASE InitKubeconfig
  <2>1. [trust |-> {bundle[ServerCA][n] : n \in RootNames} \ {0},
         cert |-> leaf[KubeconfigLeaf]] \in Kubeconfig
    BY ConstantsAssumption DEF TypeOK, Kubeconfig
  <2>2. kubeconfig' \in [1..NumKubeconfigs -> Kubeconfig]
    BY <1>21, <2>1 DEF TypeOK, InitKubeconfig, toKubeconfig
  <2> QED BY <1>21, <2>2, ConstantsAssumption DEF TypeOK, InitKubeconfig, history
<1>22. CASE StartEtcd
  BY <1>22, ConstantsAssumption DEF TypeOK, StartEtcd, Exit, disk
<1>23. CASE Stop
  BY <1>23, ConstantsAssumption DEF TypeOK, Stop, Exit, disk
<1>24. ASSUME NEW c \in SubCAs, CrashInRemoveAll(c) PROVE TypeOK'
  <2>1. cas' \in [SubCAs -> CA]
    BY <1>24 DEF TypeOK, CrashInRemoveAll
  <2>3. orphans' \subseteq Leaves
    BY <1>24 DEF TypeOK, CrashInRemoveAll, LeavesOnDisk, LeavesOf
  <2>2. leaf' \in [Leaves -> Leaf]
    BY <1>24 DEF TypeOK, CrashInRemoveAll
  <2> QED BY <1>24, <2>1, <2>2, <2>3, ConstantsAssumption DEF TypeOK, CrashInRemoveAll, Exit
<1>31. ASSUME NEW c \in SubCAs, CrashInSignSubCA(c) PROVE TypeOK'
  BY <1>31, ConstantsAssumption DEF TypeOK, CrashInSignSubCA, Exit
<1>32. ASSUME NEW l \in Leaves, CrashInSignCertificate(l) PROVE TypeOK'
  <2>1. cas' \in [SubCAs -> CA]
    BY <1>32 DEF TypeOK, CrashInSignCertificate
  <2>2. leaf' \in [Leaves -> Leaf]
    BY <1>32 DEF TypeOK, CrashInSignCertificate
  <2>3. orphans' \subseteq Leaves
    BY <1>32 DEF TypeOK, CrashInSignCertificate, LeavesOnDisk, LeavesOf
  <2> QED
    BY <1>32, <2>1, <2>2, <2>3, ConstantsAssumption DEF TypeOK, CrashInSignCertificate, Exit
<1>25. ASSUME NEW s \in Signers, CrashInAddToBundles(s) PROVE TypeOK'
  BY <1>25, ConstantsAssumption DEF TypeOK, CrashInAddToBundles, Exit
<1>26. CASE Tick
  BY <1>26 DEF TypeOK, Tick, disk, process, history
<1>28. CASE UNCHANGED vars
  BY <1>28 DEF TypeOK, vars, disk, process, history
<1> QED
  BY <1>1, <1>2, <1>3, <1>4, <1>5, <1>6, <1>8, <1>9, <1>10, <1>11, <1>12, <1>13,
     <1>14, <1>15, <1>16, <1>17, <1>18, <1>19, <1>20, <1>21, <1>22, <1>23, <1>24,
     <1>25, <1>26, <1>28, <1>31, <1>32
  DEF Next, Process, Environment, certSetup, Regenerate

(* Every reachable state has the type stated in the module.                *)
THEOREM TypeCorrect == Spec => []TypeOK
BY TypeInit, TypeNext, PTL DEF Spec
-------------------------------------------------------------------------------
(* The inductive invariant is preserved, part by part and step by step.    *)

(* A CA is made only where no leaf signed by an earlier one is left, apart *)
(* from orphans, and a leaf is made after its CA.                          *)
LEMMA SignedStep ==
  ASSUME TypeOK, SignedByCA, [Next]_vars
  PROVE  SignedByCA'
<1> USE ConstantTypes
<1>1. ASSUME UNCHANGED <<cas, leaf, orphans, now>> PROVE SignedByCA'
  BY <1>1 DEF SignedByCA
<1>2. ASSUME NEW c \in SubCAs, SignSubCA(c) PROVE SignedByCA'
  <2>1. CASE cas[c].gen # 0
    BY <1>1, <1>2, <2>1 DEF SignSubCA, NextSubCA, history
  <2>2. CASE cas[c].gen = 0
    <3>1. cas' = [cas EXCEPT ![c] = MakeCA] /\ UNCHANGED <<leaf, orphans, now>>
      BY <1>2, <2>2 DEF SignSubCA, NextSubCA, history
    <3>2. \A l \in Leaves \ orphans : SignerOf[l] = c => leaf[l].ca = 0
      BY <2>2 DEF SignedByCA
    <3>3. MakeCA.expires = now + ShortValidity
      BY MadeTypes
    <3> QED BY <3>1, <3>2, <3>3, ValidityAssumption DEF SignedByCA, TypeOK
  <2> QED BY <2>1, <2>2
<1>3. ASSUME NEW l \in Leaves, SignCertificate(l) PROVE SignedByCA'
  <2>1. CASE Loadable(l)
    BY <1>1, <1>3, <2>1 DEF SignCertificate, NextLeaf
  <2>2. CASE ~Loadable(l)
    <3>1. /\ leaf' = [leaf EXCEPT ![l] = MakeLeaf(l)] /\ orphans' = orphans \ {l}
          /\ UNCHANGED <<cas, now>>
      BY <1>3, <2>2 DEF SignCertificate, NextLeaf
    <3>2. MakeLeaf(l).ca = cas[SignerOf[l]].gen /\ MakeLeaf(l).expires = now + ShortValidity
      BY DEF MakeLeaf
    <3> QED BY <3>1, <3>2 DEF SignedByCA, TypeOK
  <2> QED BY <2>1, <2>2
<1>4. ASSUME NEW c \in SubCAs, regenerateSubCA(c) PROVE SignedByCA'
  BY <1>4, ValidityAssumption
  DEF regenerateSubCA, WithoutLeavesOf, LeavesOf, SignedByCA, TypeOK, NoLeaf, NoCA
<1>5. ASSUME NEW l \in Leaves, regenerateCertificate(l) PROVE SignedByCA'
  BY <1>5 DEF regenerateCertificate, SignedByCA, TypeOK, NoLeaf
<1>6. ASSUME NEW c \in SubCAs, CrashInRemoveAll(c) PROVE SignedByCA'
  <2>1. PICK left \in SUBSET {l \in LeavesOf(c) : leaf[l].ca # 0} :
          /\ leaf' = [l \in Leaves |-> IF l \in LeavesOf(c) \ left THEN NoLeaf ELSE leaf[l]]
          /\ \/ /\ cas' = [cas EXCEPT ![c] = NoCA]
                /\ orphans' = (orphans \ LeavesOf(c)) \cup left
             \/ /\ orphans' = orphans \ (LeavesOf(c) \ left)
                /\ UNCHANGED cas
    BY <1>6 DEF CrashInRemoveAll, LeavesOnDisk
  <2>2. now' = now
    BY <1>6 DEF CrashInRemoveAll
  <2>3. CASE cas' = [cas EXCEPT ![c] = NoCA] /\ orphans' = (orphans \ LeavesOf(c)) \cup left
    BY <2>1, <2>2, <2>3, ValidityAssumption DEF SignedByCA, TypeOK, NoCA, NoLeaf, LeavesOf
  <2>4. CASE orphans' = orphans \ (LeavesOf(c) \ left) /\ UNCHANGED cas
    BY <2>1, <2>2, <2>4 DEF SignedByCA, TypeOK, NoLeaf, LeavesOf
  <2> QED BY <2>1, <2>3, <2>4
<1>12. ASSUME NEW l \in Leaves, CrashInSignCertificate(l) PROVE SignedByCA'
  <2>1. CASE /\ cas' = [cas EXCEPT ![SignerOf[l]] = NoCA]
             /\ orphans' = orphans \cup LeavesOnDisk(SignerOf[l])
             /\ UNCHANGED leaf
    <3>1. now' = now
      BY <1>12 DEF CrashInSignCertificate
    <3>2. \A k \in Leaves \ orphans' : SignerOf[k] = SignerOf[l] => leaf[k].ca = 0
      BY <2>1 DEF LeavesOnDisk, LeavesOf
    <3>3. \A c \in SubCAs : cas'[c] = IF c = SignerOf[l] THEN NoCA ELSE cas[c]
      BY <2>1 DEF TypeOK
    <3> QED BY <2>1, <3>1, <3>2, <3>3, ValidityAssumption DEF SignedByCA, TypeOK, NoCA
  <2>2. CASE /\ leaf' = [leaf EXCEPT ![l] = NoLeaf] /\ orphans' = orphans \ {l}
             /\ UNCHANGED cas
    BY <1>12, <2>2 DEF CrashInSignCertificate, SignedByCA, TypeOK, NoLeaf
  <2> QED BY <1>12, <2>1, <2>2 DEF CrashInSignCertificate
<1>7. CASE Tick
  <2>1. UNCHANGED <<cas, leaf, orphans>> /\ now' = now + 1
    BY <1>7 DEF Tick, disk, history
  <2>2. \A c \in SubCAs : cas[c].expires \in Int
    BY DEF TypeOK, CA
  <2> QED BY <2>1, <2>2, ValidityAssumption DEF SignedByCA, TypeOK
<1>8. CASE \/ LoadConfig \/ EnsureRootCA \/ WriteCACert \/ CompleteSigner
           \/ \E s \in Signers : AddToBundles(s)
           \/ GenerateServiceAccountKey \/ certsToRegenerate
  BY <1>1, <1>8 DEF LoadConfig, EnsureRootCA, WriteCACert, CompleteSigner, AddToBundles,
     GenerateServiceAccountKey, certsToRegenerate, disk, history
<1>9. CASE \/ RegenerateRoot \/ RegenerateDone
           \/ \E c \in SubCAs : RegenerateSubCA(c)
           \/ \E l \in Leaves : RegenerateLeaf(l)
           \/ RemoveRoot \/ regenerateSelf \/ AddRootToBundle \/ AddSubCAToBundle
  BY <1>1, <1>9 DEF RegenerateRoot, RegenerateDone, RegenerateSubCA, RegenerateLeaf,
     RemoveRoot, regenerateSelf, AddRootToBundle, AddSubCAToBundle, disk, history
<1>10. CASE \/ InitKubeconfig \/ StartEtcd \/ Stop
            \/ \E c \in SubCAs : CrashInSignSubCA(c)
            \/ \E s \in Signers : CrashInAddToBundles(s)
  BY <1>1, <1>10 DEF InitKubeconfig, StartEtcd, Stop, CrashInSignSubCA,
     CrashInAddToBundles, disk, history
<1>11. CASE UNCHANGED vars
  BY <1>1, <1>11 DEF vars, disk, history
<1> QED
  BY <1>2, <1>3, <1>4, <1>5, <1>6, <1>7, <1>8, <1>9, <1>10, <1>11, <1>12
  DEF Next, Process, Environment, certSetup, Regenerate

(* AddToBundles lists a sub-CA in its bundle and leaves the others alone.  *)
LEMMA WithSignerLists ==
  ASSUME TypeOK, NEW s \in Signers
  PROVE  \A c \in SubCAs : IF c = s THEN WithSigner(s)[c][cas[c].issuer] = cas[c].gen
                                    ELSE WithSigner(s)[c] = bundle[c]
BY ConstantsAssumption, ConstantTypes DEF TypeOK, WithSigner, Signers, CA, Root

(* The embedded etcd starts only with the peer certificates on disk.       *)
LEMMA PeerStep ==
  ASSUME TypeOK, PeerInv, [Next]_vars
  PROVE  PeerInv'
<1>1. CASE StartEtcd
  BY <1>1 DEF StartEtcd, PeerInv, Exit, disk
<1>2. CASE Tick
  BY <1>2 DEF Tick, PeerInv, disk, process
<1>3. CASE UNCHANGED vars
  BY <1>3 DEF vars, PeerInv, disk, process
<1>4. CASE LoadConfig \/ certsToRegenerate \/ InitKubeconfig
  <2>1. pc' # "serving"
    BY <1>4 DEF LoadConfig, certsToRegenerate, InitKubeconfig
  <2> QED BY <2>1 DEF PeerInv
<1>5. CASE certSetup
  <2>1. CASE EnsureRootCA \/ WriteCACert \/ GenerateServiceAccountKey
    BY <2>1 DEF EnsureRootCA, WriteCACert, GenerateServiceAccountKey, PeerInv
  <2>2. ASSUME NEW c \in SubCAs, SignSubCA(c) PROVE PeerInv'
    BY <2>2 DEF SignSubCA, NextSubCA, PeerInv
  <2>3. ASSUME NEW l \in Leaves, SignCertificate(l) PROVE PeerInv'
    BY <2>3 DEF SignCertificate, NextLeaf, PeerInv
  <2>4. CASE CompleteSigner
    BY <2>4 DEF CompleteSigner, PeerInv, TypeOK
  <2>5. ASSUME NEW s \in Signers, AddToBundles(s) PROVE PeerInv'
    BY <2>5 DEF AddToBundles, PeerInv
  <2> QED BY <1>5, <2>1, <2>2, <2>3, <2>4, <2>5 DEF certSetup
<1>6. CASE Regenerate
  <2>1. CASE RegenerateRoot \/ RegenerateDone
    BY <2>1 DEF RegenerateRoot, RegenerateDone, PeerInv
  <2>2. ASSUME NEW c \in SubCAs, RegenerateSubCA(c) \/ regenerateSubCA(c) PROVE PeerInv'
    BY <2>2 DEF RegenerateSubCA, regenerateSubCA, PeerInv
  <2>3. ASSUME NEW l \in Leaves, RegenerateLeaf(l) \/ regenerateCertificate(l)
        PROVE  PeerInv'
    BY <2>3 DEF RegenerateLeaf, regenerateCertificate, PeerInv
  <2>4. CASE RemoveRoot \/ regenerateSelf \/ AddRootToBundle \/ AddSubCAToBundle
    BY <2>4 DEF RemoveRoot, regenerateSelf, AddRootToBundle, AddSubCAToBundle, PeerInv
  <2> QED BY <1>6, <2>1, <2>2, <2>3, <2>4 DEF Regenerate
<1>7. CASE \/ Stop \/ \E c \in SubCAs : CrashInRemoveAll(c) \/ CrashInSignSubCA(c)
           \/ \E l \in Leaves : CrashInSignCertificate(l)
           \/ \E s \in Signers : CrashInAddToBundles(s)
  BY <1>7 DEF Stop, CrashInRemoveAll, CrashInSignSubCA, CrashInSignCertificate,
    CrashInAddToBundles, Exit, PeerInv
<1> QED BY <1>1, <1>2, <1>3, <1>4, <1>5, <1>6, <1>7 DEF Next, Process, Environment

(* The control invariant is inductive given the types.                     *)
LEMMA ControlStep ==
  ASSUME TypeOK, ControlInv, [Next]_vars
  PROVE  ControlInv'
<1> USE ConstantTypes, ConstantsAssumption
<1>1. CASE LoadConfig
  BY <1>1 DEF ControlInv, LoadConfig, disk, TypeOK
<1>2. CASE EnsureRootCA
  BY <1>2 DEF ControlInv, EnsureRootCA, history, TypeOK
<1>3. ASSUME NEW c \in SubCAs, SignSubCA(c) PROVE ControlInv'
  BY <1>3 DEF ControlInv, SignSubCA, NextSubCA, IsFirst, history, TypeOK
<1>4. CASE WriteCACert
  BY <1>4 DEF ControlInv, WriteCACert, CertificatesToSign, LeavesOf, history, TypeOK
<1>5. ASSUME NEW l \in Leaves, SignCertificate(l) PROVE ControlInv'
  BY <1>5 DEF ControlInv, SignCertificate, NextLeaf, TypeOK
<1>6. CASE CompleteSigner
  BY <1>6 DEF ControlInv, CompleteSigner, disk, history, TypeOK
<1>7. ASSUME NEW s \in Signers, AddToBundles(s) PROVE ControlInv'
  BY <1>7 DEF ControlInv, AddToBundles, history, TypeOK
<1>8. CASE GenerateServiceAccountKey
  BY <1>8 DEF ControlInv, GenerateServiceAccountKey, history, TypeOK
<1>9. CASE certsToRegenerate
  BY <1>9 DEF ControlInv, certsToRegenerate, disk, history, TypeOK
<1>10. CASE RegenerateRoot
  BY <1>10 DEF ControlInv, RegenerateRoot, disk, history, TypeOK
<1>11. ASSUME NEW c \in SubCAs, RegenerateSubCA(c) PROVE ControlInv'
  BY <1>11 DEF ControlInv, RegenerateSubCA, IsFirst, disk, history, TypeOK
<1>12. ASSUME NEW l \in Leaves, RegenerateLeaf(l) PROVE ControlInv'
  BY <1>12 DEF ControlInv, RegenerateLeaf, LeavesOf, disk, history, TypeOK
<1>13. CASE RegenerateDone
  BY <1>13 DEF ControlInv, RegenerateDone, disk, history, TypeOK
<1>14. CASE RemoveRoot
  BY <1>14 DEF ControlInv, RemoveRoot, history, TypeOK
<1>15. CASE regenerateSelf
  BY <1>15 DEF ControlInv, regenerateSelf, history, TypeOK
<1>16. CASE AddRootToBundle
  BY <1>16 DEF ControlInv, AddRootToBundle, history, TypeOK
<1>17. ASSUME NEW c \in SubCAs, regenerateSubCA(c) PROVE ControlInv'
  BY <1>17 DEF ControlInv, regenerateSubCA, WithoutLeavesOf, LeavesOf, IsFirst,
      TypeOK
<1>18. CASE AddSubCAToBundle
  BY <1>18 DEF ControlInv, AddSubCAToBundle, history, TypeOK
<1>19. ASSUME NEW l \in Leaves, regenerateCertificate(l) PROVE ControlInv'
  BY <1>19 DEF ControlInv, regenerateCertificate, TypeOK
<1>20. CASE InitKubeconfig
  BY <1>20 DEF ControlInv, InitKubeconfig, history, TypeOK
<1>21. CASE StartEtcd
  BY <1>21 DEF ControlInv, StartEtcd, Exit, disk, TypeOK
<1>22. CASE Stop
  BY <1>22 DEF ControlInv, Stop, Exit, disk, TypeOK
<1>23. ASSUME NEW c \in SubCAs, CrashInRemoveAll(c) PROVE ControlInv'
  BY <1>23 DEF ControlInv, CrashInRemoveAll, Exit, LeavesOf, TypeOK
<1>31. ASSUME NEW c \in SubCAs, CrashInSignSubCA(c) PROVE ControlInv'
  BY <1>31 DEF ControlInv, CrashInSignSubCA, Exit, LeavesOf, TypeOK
<1>32. ASSUME NEW l \in Leaves, CrashInSignCertificate(l) PROVE ControlInv'
  BY <1>32 DEF ControlInv, CrashInSignCertificate, Exit, LeavesOf, TypeOK
<1>24. ASSUME NEW s \in Signers, CrashInAddToBundles(s) PROVE ControlInv'
  BY <1>24 DEF ControlInv, CrashInAddToBundles, Exit, TypeOK
<1>25. CASE Tick
  BY <1>25 DEF ControlInv, Tick, disk, process, history, TypeOK
<1>27. CASE UNCHANGED vars
  BY <1>27 DEF ControlInv, vars, disk, process, history
<1> QED
  BY <1>1, <1>2, <1>3, <1>4, <1>5, <1>6, <1>7, <1>8, <1>9, <1>10, <1>11, <1>12, <1>13, <1>14,
     <1>15, <1>16, <1>17, <1>18, <1>19, <1>20, <1>21, <1>22, <1>23, <1>24, <1>25,
     <1>27, <1>31, <1>32
  DEF Next, Process, Environment, certSetup, Regenerate

(* A sub-CA is in order again when its signer is complete.                 *)
LEMMA CAStep ==
  ASSUME TypeOK, ControlInv, CAInv, TypeOK', [Next]_vars
  PROVE  CAInv'
<1> USE ConstantTypes, MadeTypes
<1>1. CASE LoadConfig
  BY <1>1 DEF CAInv, LoadConfig, disk, Busy, TypeOK, ControlInv
<1>2. CASE EnsureRootCA
  BY <1>2 DEF CAInv, EnsureRootCA, history, Busy, TypeOK, ControlInv
<1>3. ASSUME NEW c \in SubCAs, SignSubCA(c) PROVE CAInv'
  BY <1>3 DEF CAInv, SignSubCA, NextSubCA, IsFirst, history, Busy, TypeOK, ControlInv
<1>4. CASE WriteCACert
  BY <1>4 DEF CAInv, WriteCACert, CertificatesToSign, LeavesOf, history, Busy,
      TypeOK, ControlInv
<1>5. ASSUME NEW l \in Leaves, SignCertificate(l) PROVE CAInv'
  BY <1>5 DEF CAInv, SignCertificate, NextLeaf, Busy, TypeOK, ControlInv
<1>6. CASE CompleteSigner
  BY <1>6 DEF CAInv, CompleteSigner, disk, history, Busy, TypeOK, ControlInv
<1>7. ASSUME NEW s \in Signers, AddToBundles(s) PROVE CAInv'
  BY <1>7 DEF CAInv, AddToBundles, history, Busy, TypeOK, ControlInv
<1>8. CASE GenerateServiceAccountKey
  BY <1>8 DEF CAInv, GenerateServiceAccountKey, history, Busy, TypeOK, ControlInv
<1>9. CASE certsToRegenerate
  BY <1>9 DEF CAInv, certsToRegenerate, disk, history, Busy, TypeOK, ControlInv
<1>10. CASE RegenerateRoot
  BY <1>10 DEF CAInv, RegenerateRoot, disk, history, Busy, TypeOK, ControlInv
<1>11. ASSUME NEW c \in SubCAs, RegenerateSubCA(c) PROVE CAInv'
  BY <1>11 DEF CAInv, RegenerateSubCA, IsFirst, disk, history, Busy, TypeOK,
      ControlInv
<1>12. ASSUME NEW l \in Leaves, RegenerateLeaf(l) PROVE CAInv'
  BY <1>12 DEF CAInv, RegenerateLeaf, LeavesOf, disk, history, Busy, TypeOK,
      ControlInv
<1>13. CASE RegenerateDone
  BY <1>13 DEF CAInv, RegenerateDone, disk, history, Busy, TypeOK, ControlInv
<1>14. CASE RemoveRoot
  BY <1>14 DEF CAInv, RemoveRoot, history, Busy, TypeOK, ControlInv
<1>15. CASE regenerateSelf
  BY <1>15 DEF CAInv, regenerateSelf, history, Busy, TypeOK, ControlInv
<1>16. CASE AddRootToBundle
  BY <1>16 DEF CAInv, AddRootToBundle, history, Busy, TypeOK, ControlInv
<1>17. ASSUME NEW c \in SubCAs, regenerateSubCA(c) PROVE CAInv'
  BY <1>17 DEF CAInv, regenerateSubCA, WithoutLeavesOf, LeavesOf, IsFirst, Busy,
      TypeOK, ControlInv
<1>18. CASE AddSubCAToBundle
  BY <1>18 DEF CAInv, AddSubCAToBundle, history, Busy, TypeOK, ControlInv
<1>19. ASSUME NEW l \in Leaves, regenerateCertificate(l) PROVE CAInv'
  BY <1>19 DEF CAInv, regenerateCertificate, Busy, TypeOK, ControlInv
<1>20. CASE InitKubeconfig
  BY <1>20 DEF CAInv, InitKubeconfig, history, Busy, TypeOK, ControlInv
<1>21. CASE StartEtcd
  BY <1>21 DEF CAInv, StartEtcd, Exit, disk, Busy, TypeOK, ControlInv
<1>22. CASE Stop
  BY <1>22 DEF CAInv, Stop, Exit, disk, Busy, TypeOK, ControlInv
<1>23. ASSUME NEW c \in SubCAs, CrashInRemoveAll(c) PROVE CAInv'
  BY <1>23 DEF CAInv, CrashInRemoveAll, Exit, LeavesOf, Busy, TypeOK, ControlInv
<1>31. ASSUME NEW c \in SubCAs, CrashInSignSubCA(c) PROVE CAInv'
  BY <1>31 DEF CAInv, CrashInSignSubCA, Exit, LeavesOf, Busy, TypeOK, ControlInv
<1>32. ASSUME NEW l \in Leaves, CrashInSignCertificate(l) PROVE CAInv'
  BY <1>32 DEF CAInv, CrashInSignCertificate, Exit, LeavesOf, Busy, TypeOK, ControlInv
<1>24. ASSUME NEW s \in Signers, CrashInAddToBundles(s) PROVE CAInv'
  BY <1>24 DEF CAInv, CrashInAddToBundles, Exit, Busy, TypeOK, ControlInv
<1>25. CASE Tick
  BY <1>25 DEF CAInv, Tick, disk, process, history, Busy, TypeOK, ControlInv
<1>27. CASE UNCHANGED vars
  BY <1>27 DEF CAInv, vars, disk, process, history, Busy
<1> QED
  BY <1>1, <1>2, <1>3, <1>4, <1>5, <1>6, <1>7, <1>8, <1>9, <1>10, <1>11, <1>12, <1>13, <1>14,
     <1>15, <1>16, <1>17, <1>18, <1>19, <1>20, <1>21, <1>22, <1>23, <1>24, <1>25,
     <1>27, <1>31, <1>32
  DEF Next, Process, Environment, certSetup, Regenerate

(* Every leaf but a peer's is signed again by the loop that took it away.  *)
LEMMA LeafStep ==
  ASSUME TypeOK, ControlInv, CAInv, LeafInv, [Next]_vars
  PROVE  LeafInv'
<1> USE ConstantTypes
<1>1. CASE LoadConfig
  BY <1>1 DEF LeafInv, LoadConfig, disk, Busy, TypeOK, ControlInv, LeavesOf
<1>2. CASE EnsureRootCA
  BY <1>2 DEF LeafInv, EnsureRootCA, history, Busy, TypeOK, ControlInv, LeavesOf
<1>3. ASSUME NEW c \in SubCAs, SignSubCA(c) PROVE LeafInv'
  BY <1>3 DEF LeafInv, SignSubCA, NextSubCA, IsFirst, history, Busy, TypeOK, ControlInv,
      LeavesOf
<1>4. CASE WriteCACert
  BY <1>4 DEF LeafInv, WriteCACert, CertificatesToSign, LeavesOf, history, Busy,
      TypeOK, ControlInv
<1>5. ASSUME NEW l \in Leaves, SignCertificate(l) PROVE LeafInv'
  <2>1. SignerOf[l] \in SubCAs /\ cas[SignerOf[l]].gen # 0
    BY <1>5 DEF SignCertificate, NextLeaf, CAInv, ControlInv, Busy, LeavesOf, IsFirst
  <2>2. leaf'[l].ca # 0
    BY <1>5, <2>1 DEF SignCertificate, NextLeaf, Loadable, MakeLeaf, TypeOK
  <2>3. l \notin PeerLeaves => l \in registered'
    BY <1>5 DEF SignCertificate, NextLeaf, Registers
  <2>4. \A k \in Leaves \ {l} : leaf'[k] = leaf[k] /\ (k \in lq <=> k \in lq')
    BY <1>5 DEF SignCertificate, NextLeaf, TypeOK
  <2>5. registered \subseteq registered' /\ Busy' = Busy /\ pc' = pc /\ mode' = mode /\ cur' = cur
    BY <1>5 DEF SignCertificate, NextLeaf, Busy
  <2> QED BY <2>2, <2>3, <2>4, <2>5 DEF LeafInv
<1>6. CASE CompleteSigner
  BY <1>6 DEF LeafInv, CompleteSigner, disk, history, Busy, TypeOK, ControlInv,
      LeavesOf
<1>7. ASSUME NEW s \in Signers, AddToBundles(s) PROVE LeafInv'
  BY <1>7 DEF LeafInv, AddToBundles, history, Busy, TypeOK, ControlInv, LeavesOf
<1>8. CASE GenerateServiceAccountKey
  BY <1>8 DEF LeafInv, GenerateServiceAccountKey, history, Busy, TypeOK,
      ControlInv, LeavesOf
<1>9. CASE certsToRegenerate
  BY <1>9 DEF LeafInv, certsToRegenerate, disk, history, Busy, TypeOK, ControlInv,
      LeavesOf
<1>10. CASE RegenerateRoot
  BY <1>10 DEF LeafInv, RegenerateRoot, disk, history, Busy, TypeOK, ControlInv,
      LeavesOf
<1>11. ASSUME NEW c \in SubCAs, RegenerateSubCA(c) PROVE LeafInv'
  BY <1>11 DEF LeafInv, RegenerateSubCA, IsFirst, disk, history, Busy, TypeOK,
      ControlInv, LeavesOf
<1>12. ASSUME NEW l \in Leaves, RegenerateLeaf(l) PROVE LeafInv'
  BY <1>12 DEF LeafInv, RegenerateLeaf, LeavesOf, disk, history, Busy, TypeOK,
      ControlInv
<1>13. CASE RegenerateDone
  BY <1>13 DEF LeafInv, RegenerateDone, disk, history, Busy, TypeOK, ControlInv,
      LeavesOf
<1>14. CASE RemoveRoot
  BY <1>14 DEF LeafInv, RemoveRoot, history, Busy, TypeOK, ControlInv, LeavesOf
<1>15. CASE regenerateSelf
  BY <1>15 DEF LeafInv, regenerateSelf, history, Busy, TypeOK, ControlInv, LeavesOf
<1>16. CASE AddRootToBundle
  BY <1>16 DEF LeafInv, AddRootToBundle, history, Busy, TypeOK, ControlInv, LeavesOf
<1>17. ASSUME NEW c \in SubCAs, regenerateSubCA(c) PROVE LeafInv'
  BY <1>17 DEF LeafInv, regenerateSubCA, WithoutLeavesOf, LeavesOf, IsFirst, Busy,
      TypeOK, ControlInv
<1>18. CASE AddSubCAToBundle
  BY <1>18 DEF LeafInv, AddSubCAToBundle, history, Busy, TypeOK, ControlInv,
      LeavesOf
<1>19. ASSUME NEW l \in Leaves, regenerateCertificate(l) PROVE LeafInv'
  BY <1>19 DEF LeafInv, regenerateCertificate, Busy, TypeOK, ControlInv, LeavesOf
<1>20. CASE InitKubeconfig
  BY <1>20 DEF LeafInv, InitKubeconfig, history, Busy, TypeOK, ControlInv, LeavesOf
<1>21. CASE StartEtcd
  BY <1>21 DEF LeafInv, StartEtcd, Exit, disk, Busy, TypeOK, ControlInv, LeavesOf
<1>22. CASE Stop
  BY <1>22 DEF LeafInv, Stop, Exit, disk, Busy, TypeOK, ControlInv, LeavesOf
<1>23. ASSUME NEW c \in SubCAs, CrashInRemoveAll(c) PROVE LeafInv'
  BY <1>23 DEF LeafInv, CrashInRemoveAll, Exit, LeavesOf, Busy, TypeOK, ControlInv
<1>31. ASSUME NEW c \in SubCAs, CrashInSignSubCA(c) PROVE LeafInv'
  BY <1>31 DEF LeafInv, CrashInSignSubCA, Exit, LeavesOf, Busy, TypeOK, ControlInv
<1>32. ASSUME NEW l \in Leaves, CrashInSignCertificate(l) PROVE LeafInv'
  BY <1>32 DEF LeafInv, CrashInSignCertificate, Exit, LeavesOf, Busy, TypeOK, ControlInv
<1>24. ASSUME NEW s \in Signers, CrashInAddToBundles(s) PROVE LeafInv'
  BY <1>24 DEF LeafInv, CrashInAddToBundles, Exit, Busy, TypeOK, ControlInv,
      LeavesOf
<1>25. CASE Tick
  BY <1>25 DEF LeafInv, Tick, disk, process, history, Busy, TypeOK, ControlInv,
      LeavesOf
<1>27. CASE UNCHANGED vars
  BY <1>27 DEF LeafInv, vars, disk, process, history, Busy
<1> QED
  BY <1>1, <1>2, <1>3, <1>4, <1>5, <1>6, <1>7, <1>8, <1>9, <1>10, <1>11, <1>12, <1>13, <1>14,
     <1>15, <1>16, <1>17, <1>18, <1>19, <1>20, <1>21, <1>22, <1>23, <1>24, <1>25,
     <1>27, <1>31, <1>32
  DEF Next, Process, Environment, certSetup, Regenerate

(* What is on the list stays registered.                                   *)
LEMMA PlanStep ==
  ASSUME TypeOK, ControlInv, PlanInv, [Next]_vars
  PROVE  PlanInv'
<1> USE ConstantTypes
<1>1. CASE LoadConfig
  BY <1>1 DEF PlanInv, LoadConfig, disk, TypeOK, ControlInv, LeavesOf, Loadable,
      Registers, Planned, IsFirst, Targets
<1>2. CASE EnsureRootCA
  BY <1>2 DEF PlanInv, EnsureRootCA, history, TypeOK, ControlInv, LeavesOf,
      Loadable, Registers, Planned, IsFirst, Targets
<1>3. ASSUME NEW c \in SubCAs, SignSubCA(c) PROVE PlanInv'
  BY <1>3 DEF PlanInv, SignSubCA, NextSubCA, IsFirst, history, TypeOK, ControlInv, LeavesOf,
      Loadable, Registers, Planned, Targets
<1>4. CASE WriteCACert
  BY <1>4 DEF PlanInv, WriteCACert, CertificatesToSign, LeavesOf, history, TypeOK,
      ControlInv, Loadable, Registers, Planned, IsFirst, Targets
<1>5. ASSUME NEW l \in Leaves, SignCertificate(l) PROVE PlanInv'
  BY <1>5 DEF PlanInv, SignCertificate, NextLeaf, TypeOK, ControlInv, LeavesOf, Loadable,
      Registers, Planned, IsFirst, Targets
<1>6. CASE CompleteSigner
  BY <1>6 DEF PlanInv, CompleteSigner, disk, history, TypeOK, ControlInv, LeavesOf,
      Loadable, Registers, Planned, IsFirst, Targets
<1>7. ASSUME NEW s \in Signers, AddToBundles(s) PROVE PlanInv'
  BY <1>7 DEF PlanInv, AddToBundles, history, TypeOK, ControlInv, LeavesOf,
      Loadable, Registers, Planned, IsFirst, Targets
<1>8. CASE GenerateServiceAccountKey
  BY <1>8 DEF PlanInv, GenerateServiceAccountKey, history, TypeOK, ControlInv,
      LeavesOf, Loadable, Registers, Planned, IsFirst, Targets
<1>9. CASE certsToRegenerate
  <2>1. \A l \in Leaves : plan'[l] > 0 => l \in registered
    BY <1>9, ConstantsAssumption DEF certsToRegenerate, RegenCerts, Targets
  <2> QED BY <1>9, <2>1 DEF certsToRegenerate, PlanInv, disk
<1>10. CASE RegenerateRoot
  BY <1>10 DEF PlanInv, RegenerateRoot, disk, history, TypeOK, ControlInv,
      LeavesOf, Loadable, Registers, Planned, IsFirst, Targets
<1>11. ASSUME NEW c \in SubCAs, RegenerateSubCA(c) PROVE PlanInv'
  BY <1>11 DEF PlanInv, RegenerateSubCA, IsFirst, disk, history, TypeOK,
      ControlInv, LeavesOf, Loadable, Registers, Planned, Targets
<1>12. ASSUME NEW l \in Leaves, RegenerateLeaf(l) PROVE PlanInv'
  BY <1>12 DEF PlanInv, RegenerateLeaf, LeavesOf, disk, history, TypeOK,
      ControlInv, Loadable, Registers, Planned, IsFirst, Targets
<1>13. CASE RegenerateDone
  BY <1>13 DEF PlanInv, RegenerateDone, disk, history, TypeOK, ControlInv,
      LeavesOf, Loadable, Registers, Planned, IsFirst, Targets
<1>14. CASE RemoveRoot
  BY <1>14 DEF PlanInv, RemoveRoot, history, TypeOK, ControlInv, LeavesOf,
      Loadable, Registers, Planned, IsFirst, Targets
<1>15. CASE regenerateSelf
  BY <1>15 DEF PlanInv, regenerateSelf, history, TypeOK, ControlInv, LeavesOf,
      Loadable, Registers, Planned, IsFirst, Targets
<1>16. CASE AddRootToBundle
  BY <1>16 DEF PlanInv, AddRootToBundle, history, TypeOK, ControlInv, LeavesOf,
      Loadable, Registers, Planned, IsFirst, Targets
<1>17. ASSUME NEW c \in SubCAs, regenerateSubCA(c) PROVE PlanInv'
  <2>1. \A l \in Leaves : SignerOf[l] = c => leaf'[l].ca = 0
    BY <1>17 DEF regenerateSubCA, WithoutLeavesOf, NoLeaf
  <2> QED BY <1>17, <2>1 DEF regenerateSubCA, PlanInv, ControlInv
<1>18. CASE AddSubCAToBundle
  BY <1>18 DEF PlanInv, AddSubCAToBundle, history, TypeOK, ControlInv, LeavesOf,
      Loadable, Registers, Planned, IsFirst, Targets
<1>19. ASSUME NEW l \in Leaves, regenerateCertificate(l) PROVE PlanInv'
  <2>1. leaf'[l].ca = 0
    BY <1>19 DEF regenerateCertificate, TypeOK, NoLeaf
  <2>2. lq = {l}
    BY <1>19 DEF regenerateCertificate, ControlInv
  <2> QED BY <1>19, <2>1, <2>2 DEF regenerateCertificate, PlanInv, ControlInv
<1>20. CASE InitKubeconfig
  BY <1>20 DEF PlanInv, InitKubeconfig, history, TypeOK, ControlInv, LeavesOf,
      Loadable, Registers, Planned, IsFirst, Targets
<1>21. CASE StartEtcd
  BY <1>21 DEF PlanInv, StartEtcd, Exit, disk, TypeOK, ControlInv, LeavesOf,
      Loadable, Registers, Planned, IsFirst, Targets
<1>22. CASE Stop
  BY <1>22 DEF PlanInv, Stop, Exit, disk, TypeOK, ControlInv, LeavesOf, Loadable,
      Registers, Planned, IsFirst, Targets
<1>23. ASSUME NEW c \in SubCAs, CrashInRemoveAll(c) PROVE PlanInv'
  BY <1>23 DEF PlanInv, CrashInRemoveAll, Exit, LeavesOf, TypeOK, ControlInv,
      Loadable, Registers, Planned, IsFirst, Targets
<1>31. ASSUME NEW c \in SubCAs, CrashInSignSubCA(c) PROVE PlanInv'
  BY <1>31 DEF PlanInv, CrashInSignSubCA, Exit, LeavesOf, TypeOK, ControlInv,
      Loadable, Registers, Planned, IsFirst, Targets
<1>32. ASSUME NEW l \in Leaves, CrashInSignCertificate(l) PROVE PlanInv'
  BY <1>32 DEF PlanInv, CrashInSignCertificate, Exit, LeavesOf, TypeOK, ControlInv,
      Loadable, Registers, Planned, IsFirst, Targets
<1>24. ASSUME NEW s \in Signers, CrashInAddToBundles(s) PROVE PlanInv'
  BY <1>24 DEF PlanInv, CrashInAddToBundles, Exit, TypeOK, ControlInv, LeavesOf,
      Loadable, Registers, Planned, IsFirst, Targets
<1>25. CASE Tick
  BY <1>25 DEF PlanInv, Tick, disk, process, history, TypeOK, ControlInv, LeavesOf,
      Loadable, Registers, Planned, IsFirst, Targets
<1>27. CASE UNCHANGED vars
  BY <1>27 DEF PlanInv, vars, disk, process, history
<1> QED
  BY <1>1, <1>2, <1>3, <1>4, <1>5, <1>6, <1>7, <1>8, <1>9, <1>10, <1>11, <1>12, <1>13, <1>14,
     <1>15, <1>16, <1>17, <1>18, <1>19, <1>20, <1>21, <1>22, <1>23, <1>24, <1>25,
     <1>27, <1>31, <1>32
  DEF Next, Process, Environment, certSetup, Regenerate

(* The bundles follow the sub-CAs.                                         *)
LEMMA BundleStep ==
  ASSUME TypeOK, ControlInv, BundleInv, [Next]_vars
  PROVE  BundleInv'
<1> USE ConstantTypes
<1>1. CASE LoadConfig
  BY <1>1 DEF BundleInv, LoadConfig, disk, TypeOK, ControlInv
<1>2. CASE EnsureRootCA
  BY <1>2 DEF BundleInv, EnsureRootCA, history, TypeOK, ControlInv
<1>3. ASSUME NEW c \in SubCAs, SignSubCA(c) PROVE BundleInv'
  BY <1>3 DEF BundleInv, SignSubCA, NextSubCA, IsFirst, history, TypeOK, ControlInv
<1>4. CASE WriteCACert
  BY <1>4 DEF BundleInv, WriteCACert, CertificatesToSign, LeavesOf, history,
      TypeOK, ControlInv
<1>5. ASSUME NEW l \in Leaves, SignCertificate(l) PROVE BundleInv'
  BY <1>5 DEF BundleInv, SignCertificate, NextLeaf, TypeOK, ControlInv
<1>6. CASE CompleteSigner
  BY <1>6 DEF BundleInv, CompleteSigner, disk, history, TypeOK, ControlInv
<1>7. ASSUME NEW s \in Signers, AddToBundles(s) PROVE BundleInv'
  <2>1. \A c \in SubCAs : IF c = s THEN bundle'[c][cas[c].issuer] = cas[c].gen
                                   ELSE bundle'[c] = bundle[c]
    BY <1>7, WithSignerLists DEF AddToBundles
  <2> QED BY <1>7, <2>1 DEF AddToBundles, BundleInv
<1>8. CASE GenerateServiceAccountKey
  BY <1>8 DEF BundleInv, GenerateServiceAccountKey, history, TypeOK, ControlInv
<1>9. CASE certsToRegenerate
  BY <1>9 DEF BundleInv, certsToRegenerate, disk, history, TypeOK, ControlInv
<1>10. CASE RegenerateRoot
  BY <1>10 DEF BundleInv, RegenerateRoot, disk, history, TypeOK, ControlInv
<1>11. ASSUME NEW c \in SubCAs, RegenerateSubCA(c) PROVE BundleInv'
  BY <1>11 DEF BundleInv, RegenerateSubCA, IsFirst, disk, history, TypeOK,
      ControlInv
<1>12. ASSUME NEW l \in Leaves, RegenerateLeaf(l) PROVE BundleInv'
  BY <1>12 DEF BundleInv, RegenerateLeaf, LeavesOf, disk, history, TypeOK,
      ControlInv
<1>13. CASE RegenerateDone
  BY <1>13 DEF BundleInv, RegenerateDone, disk, history, TypeOK, ControlInv
<1>14. CASE RemoveRoot
  BY <1>14 DEF BundleInv, RemoveRoot, history, TypeOK, ControlInv
<1>15. CASE regenerateSelf
  BY <1>15 DEF BundleInv, regenerateSelf, history, TypeOK, ControlInv
<1>16. CASE AddRootToBundle
  <2>1. \A c \in SubCAs : bundle'[c] = bundle[c]
    BY <1>16, WithSignerLists, ConstantsAssumption DEF AddRootToBundle, Signers
  <2> QED BY <1>16, <2>1 DEF AddRootToBundle, BundleInv, ControlInv
<1>17. ASSUME NEW c \in SubCAs, regenerateSubCA(c) PROVE BundleInv'
  BY <1>17 DEF BundleInv, regenerateSubCA, WithoutLeavesOf, LeavesOf, IsFirst,
      TypeOK, ControlInv
<1>18. CASE AddSubCAToBundle
  <2>1. cur \in Signers
    BY DEF TypeOK, Signers
  <2>2. \A c \in SubCAs : IF c = cur THEN bundle'[c][cas[c].issuer] = cas[c].gen
                                     ELSE bundle'[c] = bundle[c]
    BY <1>18, <2>1, WithSignerLists DEF AddSubCAToBundle
  <2> QED BY <1>18, <2>2 DEF AddSubCAToBundle, BundleInv, ControlInv
<1>19. ASSUME NEW l \in Leaves, regenerateCertificate(l) PROVE BundleInv'
  BY <1>19 DEF BundleInv, regenerateCertificate, TypeOK, ControlInv
<1>20. CASE InitKubeconfig
  BY <1>20 DEF BundleInv, InitKubeconfig, history, TypeOK, ControlInv
<1>21. CASE StartEtcd
  BY <1>21 DEF BundleInv, StartEtcd, Exit, disk, TypeOK, ControlInv
<1>22. CASE Stop
  BY <1>22 DEF BundleInv, Stop, Exit, disk, TypeOK, ControlInv
<1>23. ASSUME NEW c \in SubCAs, CrashInRemoveAll(c) PROVE BundleInv'
  BY <1>23 DEF BundleInv, CrashInRemoveAll, Exit, LeavesOf, TypeOK, ControlInv
<1>31. ASSUME NEW c \in SubCAs, CrashInSignSubCA(c) PROVE BundleInv'
  BY <1>31 DEF BundleInv, CrashInSignSubCA, Exit, LeavesOf, TypeOK, ControlInv
<1>32. ASSUME NEW l \in Leaves, CrashInSignCertificate(l) PROVE BundleInv'
  BY <1>32 DEF BundleInv, CrashInSignCertificate, Exit, LeavesOf, TypeOK, ControlInv
<1>24. ASSUME NEW s \in Signers, CrashInAddToBundles(s) PROVE BundleInv'
  BY <1>24 DEF BundleInv, CrashInAddToBundles, Exit, TypeOK, ControlInv
<1>25. CASE Tick
  BY <1>25 DEF BundleInv, Tick, disk, process, history, TypeOK, ControlInv
<1>27. CASE UNCHANGED vars
  BY <1>27 DEF BundleInv, vars, disk, process, history
<1> QED
  BY <1>1, <1>2, <1>3, <1>4, <1>5, <1>6, <1>7, <1>8, <1>9, <1>10, <1>11, <1>12, <1>13, <1>14,
     <1>15, <1>16, <1>17, <1>18, <1>19, <1>20, <1>21, <1>22, <1>23, <1>24, <1>25,
     <1>27, <1>31, <1>32
  DEF Next, Process, Environment, certSetup, Regenerate

(* The kubeconfigs follow the bundles and the leaves.                      *)
LEMMA KubeconfigStep ==
  ASSUME TypeOK, ControlInv, CAInv, BundleInv, KubeconfigInv, [Next]_vars
  PROVE  KubeconfigInv'
<1> USE ConstantTypes
<1>1. CASE LoadConfig
  BY <1>1 DEF KubeconfigInv, LoadConfig, disk, TypeOK, ControlInv
<1>2. CASE EnsureRootCA
  BY <1>2 DEF KubeconfigInv, EnsureRootCA, history, TypeOK, ControlInv
<1>3. ASSUME NEW c \in SubCAs, SignSubCA(c) PROVE KubeconfigInv'
  BY <1>3 DEF KubeconfigInv, SignSubCA, NextSubCA, IsFirst, history, TypeOK, ControlInv
<1>4. CASE WriteCACert
  BY <1>4 DEF KubeconfigInv, WriteCACert, CertificatesToSign, LeavesOf, history,
      TypeOK, ControlInv
<1>5. ASSUME NEW l \in Leaves, SignCertificate(l) PROVE KubeconfigInv'
  BY <1>5 DEF KubeconfigInv, SignCertificate, NextLeaf, TypeOK, ControlInv
<1>6. CASE CompleteSigner
  BY <1>6 DEF KubeconfigInv, CompleteSigner, disk, history, TypeOK, ControlInv
<1>7. ASSUME NEW s \in Signers, AddToBundles(s) PROVE KubeconfigInv'
  BY <1>7 DEF KubeconfigInv, AddToBundles, history, TypeOK, ControlInv
<1>8. CASE GenerateServiceAccountKey
  BY <1>8 DEF KubeconfigInv, GenerateServiceAccountKey, history, TypeOK, ControlInv
<1>9. CASE certsToRegenerate
  BY <1>9 DEF KubeconfigInv, certsToRegenerate, disk, history, TypeOK, ControlInv
<1>10. CASE RegenerateRoot
  BY <1>10 DEF KubeconfigInv, RegenerateRoot, disk, history, TypeOK, ControlInv
<1>11. ASSUME NEW c \in SubCAs, RegenerateSubCA(c) PROVE KubeconfigInv'
  BY <1>11 DEF KubeconfigInv, RegenerateSubCA, IsFirst, disk, history, TypeOK,
      ControlInv
<1>12. ASSUME NEW l \in Leaves, RegenerateLeaf(l) PROVE KubeconfigInv'
  BY <1>12 DEF KubeconfigInv, RegenerateLeaf, LeavesOf, disk, history, TypeOK,
      ControlInv
<1>13. CASE RegenerateDone
  BY <1>13 DEF KubeconfigInv, RegenerateDone, disk, history, TypeOK, ControlInv
<1>14. CASE RemoveRoot
  BY <1>14 DEF KubeconfigInv, RemoveRoot, history, TypeOK, ControlInv
<1>15. CASE regenerateSelf
  BY <1>15 DEF KubeconfigInv, regenerateSelf, history, TypeOK, ControlInv
<1>16. CASE AddRootToBundle
  BY <1>16 DEF KubeconfigInv, AddRootToBundle, history, TypeOK, ControlInv
<1>17. ASSUME NEW c \in SubCAs, regenerateSubCA(c) PROVE KubeconfigInv'
  BY <1>17 DEF KubeconfigInv, regenerateSubCA, WithoutLeavesOf, LeavesOf, IsFirst,
      TypeOK, ControlInv
<1>18. CASE AddSubCAToBundle
  BY <1>18 DEF KubeconfigInv, AddSubCAToBundle, history, TypeOK, ControlInv
<1>19. ASSUME NEW l \in Leaves, regenerateCertificate(l) PROVE KubeconfigInv'
  BY <1>19 DEF KubeconfigInv, regenerateCertificate, TypeOK, ControlInv
<1>20. CASE InitKubeconfig
  <2>1. cas[ServerCA].gen \in {bundle[ServerCA][n] : n \in RootNames} \ {0}
    <3>1. cas[ServerCA].gen # 0 /\ cas[ServerCA].issuer \in RootNames
      BY <1>20, ConstantsAssumption DEF InitKubeconfig, toKubeconfig, CAInv, Busy, TypeOK, CA
    <3>2. bundle[ServerCA][cas[ServerCA].issuer] = cas[ServerCA].gen
      BY <1>20, ConstantsAssumption DEF InitKubeconfig, toKubeconfig, BundleInv
    <3> QED BY <3>1, <3>2
  <2>2. /\ cas[ServerCA].gen \in kubeconfig'[written + 1].trust
        /\ kubeconfig'[written + 1].cert = leaf[KubeconfigLeaf]
        /\ \A d \in 1..written : kubeconfig'[d] = kubeconfig[d]
    BY <1>20, <2>1, ConstantsAssumption DEF InitKubeconfig, toKubeconfig, ControlInv, TypeOK
  <2>3. \A d \in 1..written' : d \in 1..written \/ d = written + 1
    BY <1>20 DEF InitKubeconfig, toKubeconfig, TypeOK
  <2> QED BY <1>20, <2>2, <2>3 DEF InitKubeconfig, KubeconfigInv
<1>21. CASE StartEtcd
  BY <1>21 DEF KubeconfigInv, StartEtcd, Exit, disk, TypeOK, ControlInv
<1>22. CASE Stop
  BY <1>22 DEF KubeconfigInv, Stop, Exit, disk, TypeOK, ControlInv
<1>23. ASSUME NEW c \in SubCAs, CrashInRemoveAll(c) PROVE KubeconfigInv'
  BY <1>23 DEF KubeconfigInv, CrashInRemoveAll, Exit, LeavesOf, TypeOK, ControlInv
<1>31. ASSUME NEW c \in SubCAs, CrashInSignSubCA(c) PROVE KubeconfigInv'
  BY <1>31 DEF KubeconfigInv, CrashInSignSubCA, Exit, LeavesOf, TypeOK, ControlInv
<1>32. ASSUME NEW l \in Leaves, CrashInSignCertificate(l) PROVE KubeconfigInv'
  BY <1>32 DEF KubeconfigInv, CrashInSignCertificate, Exit, LeavesOf, TypeOK, ControlInv
<1>24. ASSUME NEW s \in Signers, CrashInAddToBundles(s) PROVE KubeconfigInv'
  BY <1>24 DEF KubeconfigInv, CrashInAddToBundles, Exit, TypeOK, ControlInv
<1>25. CASE Tick
  BY <1>25 DEF KubeconfigInv, Tick, disk, process, history, TypeOK, ControlInv
<1>27. CASE UNCHANGED vars
  BY <1>27 DEF KubeconfigInv, vars, disk, process, history
<1> QED
  BY <1>1, <1>2, <1>3, <1>4, <1>5, <1>6, <1>7, <1>8, <1>9, <1>10, <1>11, <1>12, <1>13, <1>14,
     <1>15, <1>16, <1>17, <1>18, <1>19, <1>20, <1>21, <1>22, <1>23, <1>24, <1>25,
     <1>27, <1>31, <1>32
  DEF Next, Process, Environment, certSetup, Regenerate

-------------------------------------------------------------------------------
LEMMA InvInit == Init => IInv
<1> SUFFICES ASSUME Init PROVE IInv
  OBVIOUS
<1>1. TypeOK
  BY TypeInit
<1>2. SignedByCA /\ ControlInv /\ CAInv /\ LeafInv /\ PeerInv /\ BundleInv
  BY ConstantTypes, ValidityAssumption
  DEF Init, SignedByCA, ControlInv, CAInv, LeafInv, PeerInv, BundleInv, Busy, NoCA, NoLeaf
<1>3. KubeconfigInv /\ PlanInv
  BY DEF Init, KubeconfigInv, PlanInv, Targets
<1> QED BY <1>1, <1>2, <1>3 DEF IInv

LEMMA InvNext == IInv /\ [Next]_vars => IInv'
<1> SUFFICES ASSUME IInv, [Next]_vars PROVE IInv'
  OBVIOUS
<1>1. TypeOK'
  BY TypeNext DEF IInv
<1>2. SignedByCA' /\ ControlInv' /\ CAInv' /\ LeafInv'
  BY <1>1, SignedStep, ControlStep, CAStep, LeafStep DEF IInv
<1>3. PeerInv' /\ BundleInv' /\ KubeconfigInv' /\ PlanInv'
  BY PeerStep, BundleStep, KubeconfigStep, PlanStep DEF IInv
<1> QED BY <1>1, <1>2, <1>3 DEF IInv

LEMMA Invariance == Spec => []IInv
BY InvInit, InvNext, PTL DEF Spec

(* ServedChainsVerify for every configuration and any sequence of starts,  *)
(* crashes, rotations and host name changes.                               *)
THEOREM ChainsVerify == Spec => []ServedChainsVerify
<1>1. IInv => ServedChainsVerify
  <2> SUFFICES ASSUME IInv, pc = "serving" PROVE
        /\ \A l \in Leaves \ orphans : leaf[l].ca # 0 /\ leaf[l].ca = cas[SignerOf[l]].gen
        /\ \A c \in SubCAs : /\ cas[c].gen # 0 /\ caFile[c] = cas[c].gen
                             /\ bundle[c][cas[c].issuer] = cas[c].gen
    BY DEF ServedChainsVerify
  <2>1. Busy = {}
    BY DEF Busy
  <2>2. \A l \in Leaves : leaf[l].ca # 0
    BY <2>1 DEF IInv, LeafInv, PeerInv
  <2>3. \A l \in Leaves \ orphans : leaf[l].ca = cas[SignerOf[l]].gen
    BY <2>2 DEF IInv, SignedByCA
  <2>4. \A c \in SubCAs : cas[c].gen # 0 /\ caFile[c] = cas[c].gen
    BY <2>1 DEF IInv, CAInv
  <2>5. \A c \in SubCAs : bundle[c][cas[c].issuer] = cas[c].gen
    BY DEF IInv, BundleInv
  <2> QED BY <2>2, <2>3, <2>4, <2>5
<1> QED BY <1>1, Invariance, PTL

(* KubeconfigsVerify: the kubeconfigs of a serving controlplane work.      *)
THEOREM KubeconfigsMatch == Spec => []KubeconfigsVerify
<1>1. IInv => KubeconfigsVerify
  <2> SUFFICES ASSUME IInv, pc = "serving", NEW d \in 1..NumKubeconfigs PROVE
        /\ cas[ServerCA].gen \in kubeconfig[d].trust
        /\ \/ KubeconfigLeaf \in orphans
           \/ kubeconfig[d].cert.ca = caFile[SignerOf[KubeconfigLeaf]]
    BY DEF KubeconfigsVerify
  <2>1. cas[ServerCA].gen \in kubeconfig[d].trust /\ kubeconfig[d].cert = leaf[KubeconfigLeaf]
    BY DEF IInv, ControlInv, KubeconfigInv
  <2>2. leaf[KubeconfigLeaf].ca # 0 /\ SignerOf[KubeconfigLeaf] \in SubCAs
    BY ConstantsAssumption, ConstantTypes DEF IInv, LeafInv, Busy
  <2>3. caFile[SignerOf[KubeconfigLeaf]] = cas[SignerOf[KubeconfigLeaf]].gen
    BY <2>2 DEF IInv, CAInv, Busy
  <2> QED BY <2>1, <2>2, <2>3, ConstantsAssumption DEF IInv, SignedByCA
<1> QED BY <1>1, Invariance, PTL

(* LookupsSucceed: no start fails because a listed or needed leaf is not   *)
(* registered.                                                             *)
THEOREM LookupsNeverFail == Spec => []LookupsSucceed
<1>1. IInv => LookupsSucceed
  BY ConstantsAssumption, ConstantTypes
  DEF IInv, TypeOK, LeafInv, PlanInv, Busy, LookupsSucceed
<1> QED BY <1>1, Invariance, PTL
-------------------------------------------------------------------------------
(* CertChains implements TrustDomain, and what follows from the same       *)
(* invariant: nothing is swapped early and nothing expires in use.         *)

(* The steps of a start that come before the walk over the chains.         *)
InSetup ==
  \/ pc \in {"bundle", "sakey", "plan"}
  \/ pc \in {"subca", "cacrt", "leaf"} /\ mode = "setup"

(* The steps that regenerate the sub-CAs in cq.                            *)
Regenerating ==
  \/ pc \in {"rmca", "cabundle"}
  \/ pc \in {"subca", "cacrt", "leaf"} /\ mode = "regen"

(* The root in memory is the one this start found, or is new.              *)
RootFound ==
  /\ pc = "root" =>
       /\ before.cas = cas
       /\ before.root = IF caProvided.gen # 0 THEN caProvided ELSE rootDisk
  /\ InSetup =>
       IF before.root.gen # 0 THEN root = before.root
       ELSE root.expires = now + LongValidity /\ root.validity = LongValidity

(* A sub-CA that was not due is the one this start found, or is new.       *)
CAFound ==
  \A c \in SubCAs :
    ~WasDue(c) =>
      /\ (pc # "down" /\ before.cas[c].gen # 0) => cas[c] = before.cas[c]
      /\ (pc \notin {"down", "serving"} /\ before.cas[c].gen = 0)
           => cas[c].gen = 0 \/ cas[c].expires = now + ShortValidity

(* What is listed, or taken from the list, was due.                        *)
ListedDue ==
  /\ (InSetup \/ pc \in {"down", "root"}) => \A t \in Targets : plan[t] = 0
  /\ plan[RootCA] > 0 => RootWasDue
  /\ \A c \in SubCAs : plan[c] > 0 => WasDue(c)
  /\ pc \in {"rmroot", "mkroot", "rootbundle"} => RootWasDue
  /\ Regenerating => \A c \in cq : WasDue(c)

DueInv ==
  /\ pc \notin {"down", "serving"} => bootAt = now
  /\ RootFound /\ CAFound /\ ListedDue

(* Once the chains have been walked, what is close to its end is listed or *)
(* is being made anew.                                                     *)
CARenewed(c) ==
  \/ cas[c].expires - bootAt >= ShortThreshold
  \/ plan[c] > 0
  \/ pc \in {"rmroot", "mkroot", "rootbundle"}
  \/ pc = "rmca" /\ c \in cq
  \/ pc = "subca" /\ mode = "regen" /\ (c = cur \/ c \in cq)
  \/ pc \in {"cacrt", "leaf", "cabundle"} /\ mode = "regen" /\ c \in cq \ {cur}

LeafRenewed(l) ==
  \/ leaf[l].expires - bootAt >= ShortThreshold
  \/ plan[l] > 0
  \/ pc \in {"rmleaf", "leaf"} /\ mode \in {"regen", "leaf"} /\ l \in lq
  \/ pc \in {"subca", "cacrt"} /\ mode = "regen" /\ SignerOf[l] = cur

RenewedInv ==
  /\ (pc = "subca" /\ mode = "regen") => cas[cur].gen = 0
  /\ pc \in {"rmroot", "mkroot", "rootbundle"} => cq = SubCAs
  /\ pc \in {"kubeconfig", "etcd", "serving"} => \A t \in Targets : plan[t] = 0
  /\ (~InSetup /\ pc \notin {"down", "root"}) =>
       /\ \A c \in SubCAs : CARenewed(c)
       /\ \A l \in registered : LeafRenewed(l)

(* A due provided root is on the list, in work or replaced; it is replaced *)
(* only where it is alone in its file.                                     *)
RootReplaced ==
  \/ root = rootDisk /\ root.name = "root-ca"
  \/ plan[RootCA] > 0
  \/ pc \in {"rmroot", "mkroot"}

(* Every sub-CA is issued anew once the root's turn has come.              *)
Reissued(c) ==
  \/ cas[c].issuer = IF caProvided.certs = 1 THEN "root-ca" ELSE caProvided.name
  \/ plan[RootCA] > 0
  \/ pc \in {"rmroot", "mkroot", "rootbundle"}
  \/ pc = "rmca" /\ c \in cq
  \/ pc = "subca" /\ mode = "regen" /\ (c = cur \/ c \in cq)
  \/ pc \in {"cacrt", "leaf", "cabundle"} /\ mode = "regen" /\ c \in cq \ {cur}

(* What becomes of a provided root at each step of a start.                *)
ProvidedStays ==
  /\ root.certs = caProvided.certs
  /\ pc \in {"rmroot", "mkroot"} => root.certs = 1
  /\ ~(ProvidedWasDue /\ caProvided.certs = 1) => root = caProvided

NotDueSigns ==
  /\ plan[RootCA] = 0 /\ pc \notin {"rmroot", "mkroot", "rootbundle"}
  /\ \A c \in SubCAs :
       cas[c].gen = 0 \/ cas[c].issuer = caProvided.name \/ cas[c] = before.cas[c]

DueGoes ==
  /\ caProvided.certs = 1 => RootReplaced
  /\ \A c \in SubCAs : Reissued(c)

ProvidedInv ==
  (pc # "down" /\ caProvided.gen # 0) =>
    /\ before.root = caProvided
    /\ pc # "root" => ProvidedStays
    /\ ~ProvidedWasDue => NotDueSigns
    /\ (ProvidedWasDue /\ pc # "root" /\ ~InSetup) => DueGoes

TrustInv == IInv /\ DueInv /\ RenewedInv /\ ProvidedInv
-------------------------------------------------------------------------------
(* What was due depends on what the start found only.                      *)
LEMMA WasDueFixed ==
  ASSUME UNCHANGED <<before, bootAt>>
  PROVE  RootWasDue' = RootWasDue /\ \A c \in SubCAs : WasDue(c)' = WasDue(c)
BY DEF RootWasDue, WasDue

LEMMA RootFoundStep ==
  ASSUME IInv, DueInv, [Next]_vars
  PROVE  RootFound'
<1> USE ConstantTypes
<1>1. CASE LoadConfig
  BY <1>1 DEF RootFound, DueInv, InSetup, IInv, TypeOK, ControlInv, LoadConfig, disk,
    GetExternalHost, LoadServingSigner
<1>2. CASE EnsureRootCA
  BY <1>2 DEF RootFound, DueInv, InSetup, IInv, TypeOK, ControlInv, EnsureRootCA,
    IsCAProvided, MakeRoot, history
<1>3. ASSUME NEW c \in SubCAs, SignSubCA(c) PROVE RootFound'
  BY <1>3 DEF RootFound, DueInv, InSetup, IInv, TypeOK, ControlInv, SignSubCA, NextSubCA, MakeCA,
    history
<1>4. CASE WriteCACert
  BY <1>4 DEF RootFound, DueInv, InSetup, IInv, TypeOK, ControlInv, WriteCACert, history
<1>5. ASSUME NEW l \in Leaves, SignCertificate(l) PROVE RootFound'
  BY <1>5 DEF RootFound, DueInv, InSetup, IInv, TypeOK, ControlInv, SignCertificate, NextLeaf
<1>6. CASE CompleteSigner
  BY <1>6 DEF RootFound, DueInv, InSetup, IInv, TypeOK, ControlInv, CompleteSigner,
    disk, history
<1>7. ASSUME NEW s \in Signers, AddToBundles(s) PROVE RootFound'
  BY <1>7 DEF RootFound, DueInv, InSetup, IInv, TypeOK, ControlInv, AddToBundles, history
<1>8. CASE GenerateServiceAccountKey
  BY <1>8 DEF RootFound, DueInv, InSetup, IInv, TypeOK, ControlInv,
    GenerateServiceAccountKey, history
<1>9. CASE certsToRegenerate
  BY <1>9 DEF RootFound, DueInv, InSetup, IInv, TypeOK, ControlInv, certsToRegenerate,
    disk, history
<1>10. CASE RegenerateRoot
  BY <1>10 DEF RootFound, DueInv, InSetup, IInv, TypeOK, ControlInv, RegenerateRoot,
    disk, history, IsFirst, Planned
<1>11. ASSUME NEW c \in SubCAs, RegenerateSubCA(c) PROVE RootFound'
  BY <1>11 DEF RootFound, DueInv, InSetup, IInv, TypeOK, ControlInv, RegenerateSubCA,
    disk, history, IsFirst, Planned
<1>12. ASSUME NEW l \in Leaves, RegenerateLeaf(l) PROVE RootFound'
  BY <1>12 DEF RootFound, DueInv, InSetup, IInv, TypeOK, ControlInv, RegenerateLeaf,
    disk, history, IsFirst, Planned
<1>13. CASE RegenerateDone
  BY <1>13 DEF RootFound, DueInv, InSetup, IInv, TypeOK, ControlInv, RegenerateDone,
    disk, history
<1>14. CASE RemoveRoot
  BY <1>14 DEF RootFound, DueInv, InSetup, IInv, TypeOK, ControlInv, RemoveRoot, history
<1>15. CASE regenerateSelf
  BY <1>15 DEF RootFound, DueInv, InSetup, IInv, TypeOK, ControlInv, regenerateSelf, history
<1>16. CASE AddRootToBundle
  BY <1>16 DEF RootFound, DueInv, InSetup, IInv, TypeOK, ControlInv, AddRootToBundle,
    history
<1>17. ASSUME NEW c \in SubCAs, regenerateSubCA(c) PROVE RootFound'
  BY <1>17 DEF RootFound, DueInv, InSetup, IInv, TypeOK, ControlInv, regenerateSubCA,
    IsFirst, NoCA
<1>18. CASE AddSubCAToBundle
  BY <1>18 DEF RootFound, DueInv, InSetup, IInv, TypeOK, ControlInv, AddSubCAToBundle,
    history
<1>19. ASSUME NEW l \in Leaves, regenerateCertificate(l) PROVE RootFound'
  BY <1>19 DEF RootFound, DueInv, InSetup, IInv, TypeOK, ControlInv, regenerateCertificate
<1>20. CASE InitKubeconfig
  BY <1>20 DEF RootFound, DueInv, InSetup, IInv, TypeOK, ControlInv, InitKubeconfig, history
<1>21. CASE StartEtcd
  BY <1>21 DEF RootFound, DueInv, InSetup, IInv, TypeOK, ControlInv, StartEtcd, Exit, disk
<1>22. CASE Stop
  BY <1>22 DEF RootFound, DueInv, InSetup, IInv, TypeOK, ControlInv, Stop, Exit, disk
<1>23. ASSUME NEW c \in SubCAs, CrashInRemoveAll(c) PROVE RootFound'
  BY <1>23 DEF RootFound, DueInv, InSetup, IInv, TypeOK, ControlInv, CrashInRemoveAll, Exit
<1>31. ASSUME NEW c \in SubCAs, CrashInSignSubCA(c) PROVE RootFound'
  BY <1>31 DEF RootFound, DueInv, InSetup, IInv, TypeOK, ControlInv, CrashInSignSubCA, Exit
<1>32. ASSUME NEW l \in Leaves, CrashInSignCertificate(l) PROVE RootFound'
  BY <1>32 DEF RootFound, DueInv, InSetup, IInv, TypeOK, ControlInv, CrashInSignCertificate, Exit
<1>24. ASSUME NEW s \in Signers, CrashInAddToBundles(s) PROVE RootFound'
  BY <1>24 DEF RootFound, DueInv, InSetup, IInv, TypeOK, ControlInv,
    CrashInAddToBundles, Exit
<1>25. CASE Tick
  BY <1>25 DEF RootFound, DueInv, InSetup, IInv, TypeOK, ControlInv, Tick, disk,
    process, history
<1>26. CASE UNCHANGED vars
  BY <1>26 DEF RootFound, DueInv, InSetup, IInv, TypeOK, ControlInv, vars, disk,
    process, history
<1> QED
  BY <1>1, <1>2, <1>3, <1>4, <1>5, <1>6, <1>7, <1>8, <1>9, <1>10, <1>11, <1>12, <1>13,
    <1>14, <1>15, <1>16, <1>17, <1>18, <1>19, <1>20, <1>21, <1>22, <1>23, <1>24, <1>25,
    <1>26, <1>31, <1>32
  DEF Next, Process, Environment, certSetup, Regenerate

LEMMA CAFoundStep ==
  ASSUME IInv, DueInv, [Next]_vars
  PROVE  CAFound'
<1> USE ConstantTypes
<1>1. CASE LoadConfig
  BY <1>1 DEF CAFound, DueInv, IInv, TypeOK, RootWasDue, WasDue, LoadConfig, disk,
    GetExternalHost, LoadServingSigner
<1>2. CASE EnsureRootCA
  BY <1>2 DEF CAFound, DueInv, IInv, TypeOK, RootWasDue, WasDue, EnsureRootCA,
    IsCAProvided, MakeRoot, history
<1>3. ASSUME NEW c \in SubCAs, SignSubCA(c) PROVE CAFound'
  <2>1. /\ UNCHANGED <<before, bootAt, now>>
        /\ pc \notin {"down", "serving"} /\ pc' \notin {"down", "serving"}
    BY <1>3 DEF SignSubCA, NextSubCA, history
  <2>2. CASE cas[c].gen # 0
    BY <1>3, <2>1, <2>2, WasDueFixed DEF SignSubCA, NextSubCA, DueInv, CAFound
  <2>3. CASE cas[c].gen = 0
    <3>1. cas' = [cas EXCEPT ![c] = MakeCA] /\ MakeCA.expires = now + ShortValidity
      BY <1>3, <2>3 DEF SignSubCA, NextSubCA, MakeCA
    <3>2. \A d \in SubCAs : cas'[d] = IF d = c THEN MakeCA ELSE cas[d]
      BY <3>1 DEF IInv, TypeOK
    <3> QED BY <2>1, <2>3, <3>1, <3>2, WasDueFixed DEF DueInv, CAFound
  <2> QED BY <2>2, <2>3
<1>4. CASE WriteCACert
  BY <1>4 DEF CAFound, DueInv, IInv, TypeOK, RootWasDue, WasDue, WriteCACert, history
<1>5. ASSUME NEW l \in Leaves, SignCertificate(l) PROVE CAFound'
  BY <1>5 DEF CAFound, DueInv, IInv, TypeOK, RootWasDue, WasDue, SignCertificate, NextLeaf
<1>6. CASE CompleteSigner
  BY <1>6 DEF CAFound, DueInv, IInv, TypeOK, RootWasDue, WasDue, CompleteSigner, disk,
    history
<1>7. ASSUME NEW s \in Signers, AddToBundles(s) PROVE CAFound'
  BY <1>7 DEF CAFound, DueInv, IInv, TypeOK, RootWasDue, WasDue, AddToBundles, history
<1>8. CASE GenerateServiceAccountKey
  BY <1>8 DEF CAFound, DueInv, IInv, TypeOK, RootWasDue, WasDue,
    GenerateServiceAccountKey, history
<1>9. CASE certsToRegenerate
  BY <1>9 DEF CAFound, DueInv, IInv, TypeOK, RootWasDue, WasDue, certsToRegenerate,
    disk, history
<1>10. CASE RegenerateRoot
  BY <1>10 DEF CAFound, DueInv, IInv, TypeOK, RootWasDue, WasDue, RegenerateRoot, disk,
    history, IsFirst, Planned
<1>11. ASSUME NEW c \in SubCAs, RegenerateSubCA(c) PROVE CAFound'
  BY <1>11 DEF CAFound, DueInv, IInv, TypeOK, RootWasDue, WasDue, RegenerateSubCA, disk,
    history, IsFirst, Planned
<1>12. ASSUME NEW l \in Leaves, RegenerateLeaf(l) PROVE CAFound'
  BY <1>12 DEF CAFound, DueInv, IInv, TypeOK, RootWasDue, WasDue, RegenerateLeaf, disk,
    history, IsFirst, Planned
<1>13. CASE RegenerateDone
  BY <1>13 DEF CAFound, DueInv, IInv, TypeOK, RootWasDue, WasDue, RegenerateDone, disk,
    history
<1>14. CASE RemoveRoot
  BY <1>14 DEF CAFound, DueInv, IInv, TypeOK, RootWasDue, WasDue, RemoveRoot, history
<1>15. CASE regenerateSelf
  BY <1>15 DEF CAFound, DueInv, IInv, TypeOK, RootWasDue, WasDue, regenerateSelf, history
<1>16. CASE AddRootToBundle
  BY <1>16 DEF CAFound, DueInv, IInv, TypeOK, RootWasDue, WasDue, AddRootToBundle, history
<1>17. ASSUME NEW c \in SubCAs, regenerateSubCA(c) PROVE CAFound'
  <2>1. /\ UNCHANGED <<before, bootAt, now>>
        /\ pc \notin {"down", "serving"} /\ pc' \notin {"down", "serving"}
    BY <1>17 DEF regenerateSubCA
  <2>2. WasDue(c)
    BY <1>17 DEF regenerateSubCA, IsFirst, DueInv, ListedDue, Regenerating
  <2>3. \A d \in SubCAs : d # c => cas'[d] = cas[d]
    BY <1>17 DEF regenerateSubCA, IInv, TypeOK
  <2> QED BY <2>1, <2>2, <2>3, WasDueFixed DEF DueInv, CAFound
<1>18. CASE AddSubCAToBundle
  BY <1>18 DEF CAFound, DueInv, IInv, TypeOK, RootWasDue, WasDue, AddSubCAToBundle, history
<1>19. ASSUME NEW l \in Leaves, regenerateCertificate(l) PROVE CAFound'
  BY <1>19 DEF CAFound, DueInv, IInv, TypeOK, RootWasDue, WasDue, regenerateCertificate
<1>20. CASE InitKubeconfig
  BY <1>20 DEF CAFound, DueInv, IInv, TypeOK, RootWasDue, WasDue, InitKubeconfig, history
<1>21. CASE StartEtcd
  BY <1>21 DEF CAFound, DueInv, IInv, TypeOK, RootWasDue, WasDue, StartEtcd, Exit, disk
<1>22. CASE Stop
  BY <1>22 DEF CAFound, DueInv, IInv, TypeOK, RootWasDue, WasDue, Stop, Exit, disk
<1>23. ASSUME NEW c \in SubCAs, CrashInRemoveAll(c) PROVE CAFound'
  BY <1>23 DEF CAFound, DueInv, IInv, TypeOK, RootWasDue, WasDue, CrashInRemoveAll, Exit
<1>31. ASSUME NEW c \in SubCAs, CrashInSignSubCA(c) PROVE CAFound'
  BY <1>31 DEF CAFound, DueInv, IInv, TypeOK, RootWasDue, WasDue, CrashInSignSubCA, Exit
<1>32. ASSUME NEW l \in Leaves, CrashInSignCertificate(l) PROVE CAFound'
  BY <1>32 DEF CAFound, DueInv, IInv, TypeOK, RootWasDue, WasDue, CrashInSignCertificate, Exit
<1>24. ASSUME NEW s \in Signers, CrashInAddToBundles(s) PROVE CAFound'
  BY <1>24 DEF CAFound, DueInv, IInv, TypeOK, RootWasDue, WasDue, CrashInAddToBundles, Exit
<1>25. CASE Tick
  BY <1>25 DEF CAFound, DueInv, IInv, TypeOK, RootWasDue, WasDue, Tick, disk, process,
    history
<1>26. CASE UNCHANGED vars
  BY <1>26 DEF CAFound, DueInv, IInv, TypeOK, RootWasDue, WasDue, vars, disk, process,
    history
<1> QED
  BY <1>1, <1>2, <1>3, <1>4, <1>5, <1>6, <1>7, <1>8, <1>9, <1>10, <1>11, <1>12, <1>13,
    <1>14, <1>15, <1>16, <1>17, <1>18, <1>19, <1>20, <1>21, <1>22, <1>23, <1>24, <1>25,
    <1>26, <1>31, <1>32
  DEF Next, Process, Environment, certSetup, Regenerate

LEMMA ListedDueStep ==
  ASSUME IInv, DueInv, [Next]_vars
  PROVE  ListedDue'
<1> USE ConstantTypes
<1>0. RootCA \in Targets /\ SubCAs \subseteq Targets
  BY DEF Targets, Signers
<1>1. CASE LoadConfig
  BY <1>0, <1>1 DEF ListedDue, DueInv, InSetup, Regenerating, IInv, TypeOK, ControlInv,
    RootWasDue, WasDue, LoadConfig, disk, GetExternalHost, LoadServingSigner
<1>2. CASE EnsureRootCA
  BY <1>2 DEF ListedDue, DueInv, InSetup, Regenerating, IInv, TypeOK, ControlInv,
    RootWasDue, WasDue, EnsureRootCA, IsCAProvided, MakeRoot, history
<1>3. ASSUME NEW c \in SubCAs, SignSubCA(c) PROVE ListedDue'
  BY <1>3 DEF ListedDue, DueInv, InSetup, Regenerating, IInv, TypeOK, ControlInv,
    RootWasDue, WasDue, SignSubCA, NextSubCA, MakeCA, history
<1>4. CASE WriteCACert
  BY <1>4 DEF ListedDue, DueInv, InSetup, Regenerating, IInv, TypeOK, ControlInv,
    RootWasDue, WasDue, WriteCACert, history
<1>5. ASSUME NEW l \in Leaves, SignCertificate(l) PROVE ListedDue'
  BY <1>5 DEF ListedDue, DueInv, InSetup, Regenerating, IInv, TypeOK, ControlInv,
    RootWasDue, WasDue, SignCertificate, NextLeaf
<1>6. CASE CompleteSigner
  BY <1>6 DEF ListedDue, DueInv, InSetup, Regenerating, IInv, TypeOK, ControlInv,
    RootWasDue, WasDue, CompleteSigner, disk, history
<1>7. ASSUME NEW s \in Signers, AddToBundles(s) PROVE ListedDue'
  BY <1>7 DEF ListedDue, DueInv, InSetup, Regenerating, IInv, TypeOK, ControlInv,
    RootWasDue, WasDue, AddToBundles, history
<1>8. CASE GenerateServiceAccountKey
  BY <1>8 DEF ListedDue, DueInv, InSetup, Regenerating, IInv, TypeOK, ControlInv,
    RootWasDue, WasDue, GenerateServiceAccountKey, history
<1>9. CASE certsToRegenerate
  <2>1. /\ pc = "plan" /\ pc' = "next" /\ plan' = RegenCerts
        /\ UNCHANGED <<before, bootAt, now>> /\ bootAt = now
    BY <1>9 DEF certsToRegenerate, history, DueInv
  <2>2. /\ now \in Int /\ root.expires \in Int /\ root.validity \in Int
        /\ before.root \in Root
        /\ \A c \in SubCAs : cas[c].expires \in Int /\ cas[c].gen # 0
    <3>1. Busy = {}
      BY <2>1 DEF Busy
    <3>2. \A c \in SubCAs : cas[c].gen # 0
      BY <3>1 DEF IInv, CAInv
    <3>3. \A c \in SubCAs : cas[c] \in CA
      BY DEF IInv, TypeOK
    <3> QED BY <3>2, <3>3 DEF IInv, TypeOK, Root, CA
  <2>3. ASSUME RegenCerts[RootCA] > 0 PROVE RootWasDue
    <3>1. RegenCerts[RootCA] = Appended(root.expires, root.validity)
      BY <1>0 DEF RegenCerts
    <3>2. root.expires - now < LongThreshold
      BY <2>2, <2>3, <3>1, ValidityAssumption DEF Appended, TimeLeft, IsCertShortLived
    <3>3. before.root.gen # 0 => root = before.root
      BY <2>1 DEF DueInv, RootFound, InSetup
    <3>4. before.root.gen = 0 => root.expires = now + LongValidity
      BY <2>1 DEF DueInv, RootFound, InSetup
    <3> QED BY <2>1, <2>2, <3>2, <3>3, <3>4, ValidityAssumption DEF RootWasDue
  <2>4. ASSUME NEW c \in SubCAs, RegenCerts[c] > 0 PROVE WasDue(c)
    <3>1. RegenCerts[c] = Appended(cas[c].expires, ShortValidity)
      BY <1>0, ConstantsAssumption DEF RegenCerts
    <3>2. cas[c].expires - now < ShortThreshold
      BY <2>2, <2>4, <3>1, ValidityAssumption DEF Appended, TimeLeft, IsCertShortLived
    <3>3. SUFFICES ASSUME ~WasDue(c) PROVE FALSE
      OBVIOUS
    <3>4. CASE before.cas[c].gen # 0
      <4>1. cas[c] = before.cas[c]
        BY <2>1, <3>3, <3>4 DEF DueInv, CAFound
      <4> QED BY <2>1, <3>2, <3>3, <3>4, <4>1 DEF WasDue
    <3>5. CASE before.cas[c].gen = 0
      <4>1. cas[c].expires = now + ShortValidity
        BY <2>1, <2>2, <3>3, <3>5 DEF DueInv, CAFound
      <4> QED BY <2>2, <3>2, <4>1, ValidityAssumption
    <3> QED BY <3>4, <3>5
  <2> QED BY <2>1, <2>3, <2>4, WasDueFixed DEF ListedDue, InSetup, Regenerating
<1>10. CASE RegenerateRoot
  BY <1>10 DEF ListedDue, DueInv, InSetup, Regenerating, IInv, TypeOK, ControlInv,
    RootWasDue, WasDue, RegenerateRoot, disk, history, IsFirst, Planned
<1>11. ASSUME NEW c \in SubCAs, RegenerateSubCA(c) PROVE ListedDue'
  BY <1>11 DEF ListedDue, DueInv, InSetup, Regenerating, IInv, TypeOK, ControlInv,
    RootWasDue, WasDue, RegenerateSubCA, disk, history, IsFirst, Planned
<1>12. ASSUME NEW l \in Leaves, RegenerateLeaf(l) PROVE ListedDue'
  BY <1>12 DEF ListedDue, DueInv, InSetup, Regenerating, IInv, TypeOK, ControlInv,
    RootWasDue, WasDue, RegenerateLeaf, disk, history, IsFirst, Planned
<1>13. CASE RegenerateDone
  BY <1>13 DEF ListedDue, DueInv, InSetup, Regenerating, IInv, TypeOK, ControlInv,
    RootWasDue, WasDue, RegenerateDone, disk, history
<1>14. CASE RemoveRoot
  BY <1>14 DEF ListedDue, DueInv, InSetup, Regenerating, IInv, TypeOK, ControlInv,
    RootWasDue, WasDue, RemoveRoot, history
<1>15. CASE regenerateSelf
  BY <1>15 DEF ListedDue, DueInv, InSetup, Regenerating, IInv, TypeOK, ControlInv,
    RootWasDue, WasDue, regenerateSelf, history
<1>16. CASE AddRootToBundle
  BY <1>16 DEF ListedDue, DueInv, InSetup, Regenerating, IInv, TypeOK, ControlInv,
    RootWasDue, WasDue, AddRootToBundle, history
<1>17. ASSUME NEW c \in SubCAs, regenerateSubCA(c) PROVE ListedDue'
  BY <1>17 DEF ListedDue, DueInv, InSetup, Regenerating, IInv, TypeOK, ControlInv,
    RootWasDue, WasDue, regenerateSubCA, IsFirst, NoCA
<1>18. CASE AddSubCAToBundle
  BY <1>18 DEF ListedDue, DueInv, InSetup, Regenerating, IInv, TypeOK, ControlInv,
    RootWasDue, WasDue, AddSubCAToBundle, history
<1>19. ASSUME NEW l \in Leaves, regenerateCertificate(l) PROVE ListedDue'
  BY <1>19 DEF ListedDue, DueInv, InSetup, Regenerating, IInv, TypeOK, ControlInv,
    RootWasDue, WasDue, regenerateCertificate
<1>20. CASE InitKubeconfig
  BY <1>20 DEF ListedDue, DueInv, InSetup, Regenerating, IInv, TypeOK, ControlInv,
    RootWasDue, WasDue, InitKubeconfig, history
<1>21. CASE StartEtcd
  BY <1>0, <1>21 DEF ListedDue, DueInv, InSetup, Regenerating, IInv, TypeOK, ControlInv,
    RootWasDue, WasDue, StartEtcd, Exit, disk
<1>22. CASE Stop
  BY <1>0, <1>22 DEF ListedDue, DueInv, InSetup, Regenerating, IInv, TypeOK, ControlInv,
    RootWasDue, WasDue, Stop, Exit, disk
<1>23. ASSUME NEW c \in SubCAs, CrashInRemoveAll(c) PROVE ListedDue'
  BY <1>0, <1>23 DEF ListedDue, DueInv, InSetup, Regenerating, IInv, TypeOK, ControlInv,
    RootWasDue, WasDue, CrashInRemoveAll, Exit
<1>31. ASSUME NEW c \in SubCAs, CrashInSignSubCA(c) PROVE ListedDue'
  BY <1>0, <1>31 DEF ListedDue, DueInv, InSetup, Regenerating, IInv, TypeOK, ControlInv,
    RootWasDue, WasDue, CrashInSignSubCA, Exit
<1>32. ASSUME NEW l \in Leaves, CrashInSignCertificate(l) PROVE ListedDue'
  BY <1>0, <1>32 DEF ListedDue, DueInv, InSetup, Regenerating, IInv, TypeOK, ControlInv,
    RootWasDue, WasDue, CrashInSignCertificate, Exit
<1>24. ASSUME NEW s \in Signers, CrashInAddToBundles(s) PROVE ListedDue'
  BY <1>0, <1>24 DEF ListedDue, DueInv, InSetup, Regenerating, IInv, TypeOK, ControlInv,
    RootWasDue, WasDue, CrashInAddToBundles, Exit
<1>25. CASE Tick
  BY <1>25 DEF ListedDue, DueInv, InSetup, Regenerating, IInv, TypeOK, ControlInv,
    RootWasDue, WasDue, Tick, disk, process, history
<1>26. CASE UNCHANGED vars
  BY <1>26 DEF ListedDue, DueInv, InSetup, Regenerating, IInv, TypeOK, ControlInv,
    RootWasDue, WasDue, vars, disk, process, history
<1> QED
  BY <1>1, <1>2, <1>3, <1>4, <1>5, <1>6, <1>7, <1>8, <1>9, <1>10, <1>11, <1>12, <1>13,
    <1>14, <1>15, <1>16, <1>17, <1>18, <1>19, <1>20, <1>21, <1>22, <1>23, <1>24, <1>25,
    <1>26, <1>31, <1>32
  DEF Next, Process, Environment, certSetup, Regenerate

LEMMA DueInit == Init => DueInv
BY ConstantTypes
DEF Init, DueInv, RootFound, CAFound, ListedDue, InSetup, Regenerating, Targets, Signers

LEMMA DueStep ==
  ASSUME IInv, DueInv, [Next]_vars
  PROVE  DueInv'
<1>1. RootFound' /\ CAFound' /\ ListedDue'
  BY RootFoundStep, CAFoundStep, ListedDueStep
<1>2. pc' \notin {"down", "serving"} => bootAt' = now'
  BY DEF DueInv, Next, Process, Environment, certSetup, Regenerate, disk, process, history,
    vars, LoadConfig, EnsureRootCA, SignSubCA, NextSubCA, WriteCACert, SignCertificate, NextLeaf,
    CompleteSigner, AddToBundles, GenerateServiceAccountKey, certsToRegenerate,
    RegenerateRoot, RegenerateSubCA, RegenerateLeaf, RegenerateDone, RemoveRoot,
    regenerateSelf, AddRootToBundle, regenerateSubCA, AddSubCAToBundle,
    regenerateCertificate, InitKubeconfig, StartEtcd, Exit, Stop, CrashInRemoveAll,
    CrashInSignSubCA, CrashInSignCertificate, CrashInAddToBundles, Tick
<1> QED BY <1>1, <1>2 DEF DueInv
-------------------------------------------------------------------------------
(* The refinement, action by action.                                       *)

(* A step within a start that leaves the sub-CAs alone is a stutter.       *)
LEMMA Stutters ==
  ASSUME pc \notin {"down", "serving"}, pc' \notin {"down", "serving"},
         UNCHANGED <<cas, before, bootAt, keys, now>>
  PROVE  UNCHANGED TD!vars
BY WasDueFixed DEF TD!vars

(* So is a step after which the process is down, up to phase and due.      *)
LEMMA GoesDown ==
  ASSUME TypeOK, pc # "down", pc' = "down", UNCHANGED <<cas, keys, now>>
  PROVE  TD!Stop
BY DEF TD!Stop

(* So is a crash that leaves a sub-CA unloadable: TrustDomain's Lose.       *)
LEMMA Loses ==
  ASSUME IInv, NEW c \in SubCAs, pc \notin {"down", "serving"}, pc' = "down",
         cas' = [cas EXCEPT ![c] = NoCA], UNCHANGED <<keys, now>>
  PROVE  TD!Lose(c)
<1> DEFINE Pairs == [d \in SubCAs |-> [gen |-> cas[d].gen, expires |-> cas[d].expires]]
<1>1. Pairs' = [Pairs EXCEPT ![c] = [gen |-> 0, expires |-> 0]]
  BY DEF IInv, TypeOK, NoCA
<1> QED BY <1>1 DEF TD!Lose, TD!None

LEMMA RefinementInit == Init => TD!Init
BY DEF Init, TD!Init, NoCA, TD!None

LEMMA RefinementStep ==
  ASSUME IInv, DueInv, [Next]_vars
  PROVE  [TD!Next]_(TD!vars)
<1> USE ConstantTypes
<1> DEFINE Pairs == [c \in SubCAs |-> [gen |-> cas[c].gen, expires |-> cas[c].expires]]
<1>1. CASE LoadConfig
  <2>1. /\ pc = "down" /\ pc' = "root" /\ UNCHANGED <<cas, keys, now>>
        /\ bootAt' = now /\ before'.cas = cas
    BY <1>1 DEF LoadConfig, disk
  <2>2. \/ {c \in SubCAs : WasDue(c)'} = {c \in SubCAs : cas[c].gen # 0 /\ cas[c].expires - now < ShortThreshold}
        \/ {c \in SubCAs : WasDue(c)'} = SubCAs
    BY <2>1 DEF WasDue
  <2>3. TD!Start
    BY <2>1, <2>2 DEF TD!Start, TD!CloseToEnd
  <2> QED BY <2>3 DEF TD!Next
<1>2. CASE EnsureRootCA
  <2>1. CASE UNCHANGED keys
    BY <1>2, <2>1, Stutters DEF EnsureRootCA, history
  <2>2. CASE keys' = keys + 1
    <3>1. TD!MakeOther
      BY <1>2, <2>2, WasDueFixed DEF EnsureRootCA, history, TD!MakeOther
    <3> QED BY <3>1 DEF TD!Next
  <2> QED BY <1>2, <2>1, <2>2 DEF EnsureRootCA
<1>3. ASSUME NEW c \in SubCAs, SignSubCA(c) PROVE [TD!Next]_(TD!vars)
  <2>1. /\ UNCHANGED <<before, bootAt, now>>
        /\ pc \notin {"down", "serving"} /\ pc' \notin {"down", "serving"}
    BY <1>3 DEF SignSubCA, NextSubCA, history
  <2>2. CASE cas[c].gen # 0
    BY <1>3, <2>1, <2>2, Stutters DEF SignSubCA, NextSubCA
  <2>3. CASE cas[c].gen = 0
    <3>1. cas' = [cas EXCEPT ![c] = MakeCA] /\ keys' = keys + 1
      BY <1>3, <2>3 DEF SignSubCA, NextSubCA
    <3>2. Pairs' = [Pairs EXCEPT ![c] = [gen |-> keys', expires |-> now + ShortValidity]]
      BY <3>1 DEF IInv, TypeOK, MakeCA
    <3>3. TD!Make(c)
      BY <2>1, <2>3, <3>1, <3>2, WasDueFixed DEF TD!Make
    <3> QED BY <3>3 DEF TD!Next
  <2> QED BY <2>2, <2>3
<1>4. CASE \/ WriteCACert \/ GenerateServiceAccountKey
           \/ certsToRegenerate \/ RegenerateRoot \/ RegenerateDone
           \/ RemoveRoot \/ AddRootToBundle \/ AddSubCAToBundle
  BY <1>4, Stutters DEF WriteCACert, GenerateServiceAccountKey,
    certsToRegenerate, RegenerateRoot, RegenerateDone, RemoveRoot, AddRootToBundle,
    AddSubCAToBundle, disk, history
<1>13. CASE CompleteSigner
  <2>1. pc' \in {"bundle", "subca", "cabundle", "next"}
    BY <1>13 DEF CompleteSigner, IInv, TypeOK
  <2> QED BY <1>13, <2>1, Stutters DEF CompleteSigner, disk, history
<1>5. CASE \/ InitKubeconfig
           \/ \E l \in Leaves : SignCertificate(l) \/ RegenerateLeaf(l) \/ regenerateCertificate(l)
           \/ \E s \in Signers : AddToBundles(s)
           \/ \E c \in SubCAs : RegenerateSubCA(c)
  BY <1>5, Stutters DEF InitKubeconfig, SignCertificate, NextLeaf, RegenerateLeaf,
    regenerateCertificate, AddToBundles, RegenerateSubCA, disk, history
<1>6. CASE regenerateSelf
  <2>1. TD!MakeOther
    BY <1>6, WasDueFixed DEF regenerateSelf, history, TD!MakeOther
  <2> QED BY <2>1 DEF TD!Next
<1>7. ASSUME NEW c \in SubCAs, regenerateSubCA(c) PROVE [TD!Next]_(TD!vars)
  <2>1. /\ UNCHANGED <<before, bootAt, keys, now>>
        /\ pc \notin {"down", "serving"} /\ pc' \notin {"down", "serving"}
    BY <1>7 DEF regenerateSubCA
  <2>2. WasDue(c)
    BY <1>7 DEF regenerateSubCA, IsFirst, DueInv, ListedDue, Regenerating
  <2>3. Pairs' = [Pairs EXCEPT ![c] = [gen |-> 0, expires |-> 0]]
    BY <1>7 DEF regenerateSubCA, IInv, TypeOK, NoCA
  <2>4. TD!Remove(c)
    BY <2>1, <2>2, <2>3, WasDueFixed DEF TD!Remove, TD!None
  <2> QED BY <2>4 DEF TD!Next
<1>8. CASE StartEtcd
  <2>1. CASE pc' = "serving"
    <3>1. Busy = {} /\ pc = "etcd" /\ UNCHANGED <<cas, before, bootAt, keys, now>>
      BY <1>8, <2>1 DEF StartEtcd, Busy, Exit, disk
    <3>2. \A c \in SubCAs : cas[c].gen # 0
      BY <3>1 DEF IInv, CAInv
    <3>3. TD!Serve
      BY <2>1, <3>1, <3>2, WasDueFixed DEF TD!Serve
    <3> QED BY <3>3 DEF TD!Next
  <2>2. CASE pc' = "down"
    <3>1. TD!Stop
      BY <1>8, <2>2, GoesDown DEF StartEtcd, disk, IInv
    <3> QED BY <3>1 DEF TD!Next
  <2> QED BY <1>8, <2>1, <2>2 DEF StartEtcd, Exit
<1>9. CASE \/ Stop \/ \E c \in SubCAs : CrashInSignSubCA(c)
           \/ \E s \in Signers : CrashInAddToBundles(s)
  <2>1. TD!Stop
    BY <1>9, GoesDown
    DEF Stop, CrashInSignSubCA, NextSubCA, CrashInAddToBundles, Exit, disk, IInv
  <2> QED BY <2>1 DEF TD!Next
<1>10. ASSUME NEW c \in SubCAs, CrashInRemoveAll(c) PROVE [TD!Next]_(TD!vars)
  <2>1. pc = "rmca" /\ pc' = "down" /\ UNCHANGED <<keys, now>>
    BY <1>10 DEF CrashInRemoveAll, Exit
  <2>2. CASE UNCHANGED cas
    <3>1. TD!Stop
      BY <2>1, <2>2, GoesDown DEF IInv
    <3> QED BY <3>1 DEF TD!Next
  <2>3. CASE cas' = [cas EXCEPT ![c] = NoCA]
    <3>1. TD!Lose(c)
      BY <2>1, <2>3, Loses
    <3> QED BY <3>1 DEF TD!Next
  <2> QED BY <1>10, <2>2, <2>3 DEF CrashInRemoveAll
<1>14. ASSUME NEW l \in Leaves, CrashInSignCertificate(l) PROVE [TD!Next]_(TD!vars)
  <2>1. pc = "leaf" /\ pc' = "down" /\ UNCHANGED <<keys, now>>
    BY <1>14 DEF CrashInSignCertificate, NextLeaf, Exit
  <2>2. CASE UNCHANGED cas
    <3>1. TD!Stop
      BY <2>1, <2>2, GoesDown DEF IInv
    <3> QED BY <3>1 DEF TD!Next
  <2>3. CASE cas' = [cas EXCEPT ![SignerOf[l]] = NoCA]
    <3>1. TD!Lose(SignerOf[l])
      BY <2>1, <2>3, Loses
    <3> QED BY <3>1 DEF TD!Next
  <2> QED BY <1>14, <2>2, <2>3 DEF CrashInSignCertificate
<1>11. CASE Tick
  <2>1. TD!Tick
    BY <1>11, WasDueFixed DEF Tick, TD!Tick, disk, process, history
  <2> QED BY <2>1 DEF TD!Next
<1>12. CASE UNCHANGED vars
  <2>1. UNCHANGED <<pc, cas, before, bootAt, keys, now>>
    BY <1>12 DEF vars, disk, process, history
  <2> QED BY <2>1, WasDueFixed DEF TD!vars
<1> QED
  BY <1>1, <1>2, <1>3, <1>4, <1>5, <1>6, <1>7, <1>8, <1>9, <1>10, <1>11, <1>12, <1>13,
    <1>14
  DEF Next, Process, Environment, certSetup, Regenerate

(* CertChains implements TrustDomain: for any sub-CAs, leaves, validities, *)
(* roots and crashes, no step of InitCerts replaces a sub-CA that was not  *)
(* due when the start began.                                               *)
THEOREM Refinement == Spec => ImplementsTrustDomain
<1>1. Init => DueInv
  BY DueInit
<1>2. IInv /\ DueInv /\ [Next]_vars => DueInv'
  BY DueStep
<1>3. Init => TD!Init
  BY RefinementInit
<1>4. IInv /\ DueInv /\ [Next]_vars => [TD!Next]_(TD!vars)
  BY RefinementStep
<1> QED BY <1>1, <1>2, <1>3, <1>4, Invariance, PTL DEF Spec, ImplementsTrustDomain, TD!Spec
-------------------------------------------------------------------------------
(* Nothing that is close to its end gets past the walk.                    *)
LEMMA RenewedStep ==
  ASSUME IInv, DueInv, RenewedInv, [Next]_vars
  PROVE  RenewedInv'
<1> USE ConstantTypes
<1>1. CASE LoadConfig
  BY <1>1 DEF RenewedInv, CARenewed, LeafRenewed, InSetup, IInv, TypeOK, ControlInv,
    LoadConfig, disk
<1>2. CASE EnsureRootCA
  BY <1>2 DEF RenewedInv, CARenewed, LeafRenewed, InSetup, IInv, TypeOK, ControlInv,
    EnsureRootCA, history
<1>3. ASSUME NEW c \in SubCAs, SignSubCA(c) PROVE RenewedInv'
  <2>1. /\ UNCHANGED <<mode, leaf, plan, registered, cq, lq, bootAt, now>>
        /\ pc = "subca" /\ pc' = "cacrt" /\ cur' = c /\ mode \in {"setup", "regen"}
    BY <1>3 DEF SignSubCA, NextSubCA, history, IInv, ControlInv
  <2>2. CASE mode = "setup"
    BY <2>1, <2>2 DEF RenewedInv, InSetup
  <2>3. CASE mode = "regen"
    <3>1. c = cur /\ cas[c].gen = 0 /\ bootAt = now
      BY <1>3, <2>1, <2>3 DEF SignSubCA, NextSubCA, RenewedInv, DueInv
    <3>2. cas' = [cas EXCEPT ![c] = MakeCA] /\ MakeCA.expires = now + ShortValidity
      BY <1>3, <3>1 DEF SignSubCA, NextSubCA, MakeCA
    <3>3. \A d \in SubCAs : cas'[d] = IF d = c THEN MakeCA ELSE cas[d]
      BY <3>2 DEF IInv, TypeOK
    <3>4. cas'[c].expires - bootAt' >= ShortThreshold
      BY <2>1, <3>1, <3>2, <3>3, ValidityAssumption DEF IInv, TypeOK
    <3>5. ~InSetup /\ pc \notin {"down", "root"}
      BY <2>1, <2>3 DEF InSetup
    <3>6. ASSUME NEW d \in SubCAs PROVE CARenewed(d)'
      BY <2>1, <2>3, <3>1, <3>3, <3>4, <3>5 DEF RenewedInv, CARenewed
    <3>7. ASSUME NEW l \in registered' PROVE LeafRenewed(l)'
      BY <2>1, <2>3, <3>1, <3>5 DEF RenewedInv, LeafRenewed
    <3> QED BY <2>1, <3>6, <3>7 DEF RenewedInv
  <2> QED BY <2>1, <2>2, <2>3
<1>4. CASE WriteCACert
  BY <1>4 DEF RenewedInv, CARenewed, LeafRenewed, InSetup, IInv, TypeOK, ControlInv,
    WriteCACert, CertificatesToSign, LeavesOf, history
<1>5. ASSUME NEW l \in Leaves, SignCertificate(l) PROVE RenewedInv'
  <2>1. /\ UNCHANGED <<pc, mode, cas, plan, cur, cq, bootAt, now>>
        /\ pc = "leaf" /\ l \in lq /\ lq' = lq \ {l}
        /\ registered' \subseteq registered \cup {l}
    BY <1>5 DEF SignCertificate, NextLeaf, IsFirst
  <2>2. CASE mode = "setup"
    BY <2>1, <2>2 DEF RenewedInv, InSetup
  <2>3. CASE mode \in {"regen", "leaf"}
    <3>1. leaf[l].ca = 0 /\ bootAt = now
      BY <2>1, <2>3 DEF IInv, PlanInv, DueInv
    <3>2. leaf' = [leaf EXCEPT ![l] = MakeLeaf(l)] /\ MakeLeaf(l).expires = now + ShortValidity
      BY <1>5, <3>1 DEF SignCertificate, NextLeaf, Loadable, MakeLeaf
    <3>3. \A k \in Leaves : leaf'[k] = IF k = l THEN MakeLeaf(l) ELSE leaf[k]
      BY <3>2 DEF IInv, TypeOK
    <3>4. leaf'[l].expires - bootAt' >= ShortThreshold
      BY <2>1, <3>1, <3>2, <3>3, ValidityAssumption DEF IInv, TypeOK
    <3>5. ~InSetup
      BY <2>1, <2>3 DEF InSetup
    <3>6. ASSUME NEW c \in SubCAs PROVE CARenewed(c)'
      BY <2>1, <3>5 DEF RenewedInv, CARenewed
    <3>7. ASSUME NEW k \in registered' PROVE LeafRenewed(k)'
      <4>1. CASE k = l
        BY <3>4, <4>1 DEF LeafRenewed
      <4>2. CASE k # l
        <5>1. k \in registered /\ k \in Leaves
          BY <2>1, <4>2 DEF IInv, TypeOK
        <5>2. LeafRenewed(k)
          BY <2>1, <3>5, <5>1 DEF RenewedInv
        <5> QED BY <2>1, <3>3, <4>2, <5>1, <5>2 DEF LeafRenewed
      <4> QED BY <4>1, <4>2
    <3> QED BY <2>1, <3>6, <3>7 DEF RenewedInv
  <2> QED BY <2>2, <2>3 DEF IInv, TypeOK
<1>6. CASE CompleteSigner
  BY <1>6 DEF RenewedInv, CARenewed, LeafRenewed, InSetup, IInv, TypeOK, ControlInv,
    CompleteSigner, disk, history
<1>7. ASSUME NEW s \in Signers, AddToBundles(s) PROVE RenewedInv'
  BY <1>7 DEF RenewedInv, CARenewed, LeafRenewed, InSetup, IInv, TypeOK, ControlInv,
    AddToBundles, history
<1>8. CASE GenerateServiceAccountKey
  BY <1>8 DEF RenewedInv, CARenewed, LeafRenewed, InSetup, IInv, TypeOK, ControlInv,
    GenerateServiceAccountKey, history
<1>9. CASE certsToRegenerate
  <2>1. /\ pc = "plan" /\ pc' = "next" /\ plan' = RegenCerts /\ bootAt = now
        /\ UNCHANGED <<cas, leaf, registered, bootAt, now>>
    BY <1>9 DEF certsToRegenerate, disk, history, DueInv
  <2>2. ASSUME NEW x \in Int, x - now < ShortThreshold PROVE Appended(x, ShortValidity) > 0
    BY <2>2, ValidityAssumption DEF Appended, TimeLeft, IsCertShortLived, IInv, TypeOK
  <2>3. ASSUME NEW c \in SubCAs PROVE CARenewed(c)'
    <3>1. RegenCerts[c] = Appended(cas[c].expires, ShortValidity)
      BY ConstantsAssumption DEF RegenCerts, Targets, Signers
    <3>2. cas[c].expires \in Int
      BY DEF IInv, TypeOK, CA
    <3> QED BY <2>1, <2>2, <3>1, <3>2, ValidityAssumption DEF CARenewed, IInv, TypeOK
  <2>4. ASSUME NEW l \in registered PROVE LeafRenewed(l)'
    <3>1. RegenCerts[l] = Appended(leaf[l].expires, ShortValidity)
      BY ConstantsAssumption DEF RegenCerts, Targets, IInv, TypeOK
    <3>2. leaf[l].expires \in Int
      BY DEF IInv, TypeOK, Leaf
    <3> QED BY <2>1, <2>2, <3>1, <3>2, ValidityAssumption DEF LeafRenewed, IInv, TypeOK
  <2> QED BY <2>1, <2>3, <2>4 DEF RenewedInv
<1>10. CASE RegenerateRoot
  <2>1. /\ pc = "next" /\ pc' \in {"rmroot", "rmca"} /\ cq' = SubCAs
        /\ UNCHANGED <<cas, leaf, registered, bootAt>>
    BY <1>10 DEF RegenerateRoot, disk, history
  <2>2. \A t \in SubCAs \cup Leaves : t # RootCA => plan'[t] = plan[t]
    BY <1>10 DEF RegenerateRoot, IInv, TypeOK, Targets, Signers
  <2>3. ASSUME NEW d \in SubCAs PROVE CARenewed(d)'
    BY <2>1, <2>2, ConstantsAssumption DEF RenewedInv, CARenewed, InSetup
  <2>4. ASSUME NEW k \in registered PROVE LeafRenewed(k)'
    BY <2>1, <2>2, ConstantsAssumption DEF RenewedInv, LeafRenewed, InSetup, IInv, TypeOK
  <2> QED BY <2>1, <2>3, <2>4 DEF RenewedInv
<1>11. ASSUME NEW c \in SubCAs, RegenerateSubCA(c) PROVE RenewedInv'
  <2>1. /\ pc = "next" /\ pc' = "rmca" /\ cq' = {c} /\ mode' = "regen"
        /\ UNCHANGED <<cas, leaf, registered, bootAt>>
    BY <1>11 DEF RegenerateSubCA, disk, history
  <2>2. \A t \in SubCAs \cup Leaves : t # c => plan'[t] = plan[t]
    BY <1>11 DEF RegenerateSubCA, IInv, TypeOK, Targets, Signers
  <2>3. ASSUME NEW d \in SubCAs PROVE CARenewed(d)'
    BY <2>1, <2>2, ConstantsAssumption DEF RenewedInv, CARenewed, InSetup
  <2>4. ASSUME NEW k \in registered PROVE LeafRenewed(k)'
    <3>1. k \in Leaves /\ k # c
      BY ConstantsAssumption DEF IInv, TypeOK
    <3>2. LeafRenewed(k) /\ plan'[k] = plan[k]
      BY <2>1, <2>2, <3>1 DEF RenewedInv, InSetup
    <3> QED BY <2>1, <3>2 DEF LeafRenewed
  <2> QED BY <2>1, <2>3, <2>4 DEF RenewedInv
<1>12. ASSUME NEW l \in Leaves, RegenerateLeaf(l) PROVE RenewedInv'
  <2>1. /\ pc = "next" /\ pc' = "rmleaf" /\ lq' = {l} /\ mode' = "leaf"
        /\ UNCHANGED <<cas, leaf, registered, bootAt>>
    BY <1>12 DEF RegenerateLeaf, disk, history
  <2>2. \A t \in SubCAs \cup Leaves : t # l => plan'[t] = plan[t]
    BY <1>12 DEF RegenerateLeaf, IInv, TypeOK, Targets, Signers
  <2>3. ASSUME NEW d \in SubCAs PROVE CARenewed(d)'
    BY <2>1, <2>2, ConstantsAssumption DEF RenewedInv, CARenewed, InSetup
  <2>4. ASSUME NEW k \in registered PROVE LeafRenewed(k)'
    BY <2>1, <2>2, ConstantsAssumption DEF RenewedInv, LeafRenewed, InSetup, IInv, TypeOK
  <2> QED BY <2>1, <2>3, <2>4 DEF RenewedInv
<1>13. CASE RegenerateDone
  <2>1. /\ pc = "next" /\ pc' = "kubeconfig"
        /\ UNCHANGED <<cas, leaf, registered, plan, bootAt>>
    BY <1>13 DEF RegenerateDone, disk, history
  <2>2. \A t \in Targets : plan[t] = 0
    <3>1. \A t \in Targets : plan[t] \in 0..2 /\ ~(plan[t] > 0)
      BY <1>13 DEF RegenerateDone, Planned, IInv, TypeOK
    <3> QED BY <3>1
  <2> QED BY <2>1, <2>2 DEF RenewedInv, CARenewed, LeafRenewed, InSetup
<1>14. CASE RemoveRoot
  BY <1>14 DEF RenewedInv, CARenewed, LeafRenewed, InSetup, IInv, TypeOK, ControlInv,
    RemoveRoot, history
<1>15. CASE regenerateSelf
  BY <1>15 DEF RenewedInv, CARenewed, LeafRenewed, InSetup, IInv, TypeOK, ControlInv,
    regenerateSelf, history
<1>16. CASE AddRootToBundle
  BY <1>16 DEF RenewedInv, CARenewed, LeafRenewed, InSetup, IInv, TypeOK, ControlInv,
    AddRootToBundle, history
<1>17. ASSUME NEW c \in SubCAs, regenerateSubCA(c) PROVE RenewedInv'
  BY <1>17 DEF RenewedInv, CARenewed, LeafRenewed, InSetup, IInv, TypeOK, ControlInv,
    regenerateSubCA, IsFirst, NoCA, WithoutLeavesOf
<1>18. CASE AddSubCAToBundle
  BY <1>18 DEF RenewedInv, CARenewed, LeafRenewed, InSetup, IInv, TypeOK, ControlInv,
    AddSubCAToBundle, history
<1>19. ASSUME NEW l \in Leaves, regenerateCertificate(l) PROVE RenewedInv'
  BY <1>19 DEF RenewedInv, CARenewed, LeafRenewed, InSetup, IInv, TypeOK, ControlInv,
    regenerateCertificate
<1>20. CASE InitKubeconfig
  BY <1>20 DEF RenewedInv, CARenewed, LeafRenewed, InSetup, IInv, TypeOK, ControlInv,
    InitKubeconfig, history
<1>21. CASE StartEtcd
  BY <1>21 DEF RenewedInv, CARenewed, LeafRenewed, InSetup, IInv, TypeOK, ControlInv,
    StartEtcd, Exit, disk
<1>22. CASE Stop
  BY <1>22 DEF RenewedInv, CARenewed, LeafRenewed, InSetup, IInv, TypeOK, ControlInv,
    Stop, Exit, disk
<1>23. ASSUME NEW c \in SubCAs, CrashInRemoveAll(c) PROVE RenewedInv'
  BY <1>23 DEF RenewedInv, CARenewed, LeafRenewed, InSetup, IInv, TypeOK, ControlInv,
    CrashInRemoveAll, Exit
<1>31. ASSUME NEW c \in SubCAs, CrashInSignSubCA(c) PROVE RenewedInv'
  BY <1>31 DEF RenewedInv, CARenewed, LeafRenewed, InSetup, IInv, TypeOK, ControlInv,
    CrashInSignSubCA, Exit
<1>32. ASSUME NEW l \in Leaves, CrashInSignCertificate(l) PROVE RenewedInv'
  BY <1>32 DEF RenewedInv, CARenewed, LeafRenewed, InSetup, IInv, TypeOK, ControlInv,
    CrashInSignCertificate, Exit
<1>24. ASSUME NEW s \in Signers, CrashInAddToBundles(s) PROVE RenewedInv'
  BY <1>24 DEF RenewedInv, CARenewed, LeafRenewed, InSetup, IInv, TypeOK, ControlInv,
    CrashInAddToBundles, Exit
<1>25. CASE Tick
  BY <1>25 DEF RenewedInv, CARenewed, LeafRenewed, InSetup, IInv, TypeOK, ControlInv,
    Tick, disk, process, history
<1>26. CASE UNCHANGED vars
  BY <1>26 DEF RenewedInv, CARenewed, LeafRenewed, InSetup, IInv, TypeOK, ControlInv,
    vars, disk, process, history
<1> QED
  BY <1>1, <1>2, <1>3, <1>4, <1>5, <1>6, <1>7, <1>8, <1>9, <1>10, <1>11, <1>12, <1>13,
    <1>14, <1>15, <1>16, <1>17, <1>18, <1>19, <1>20, <1>21, <1>22, <1>23, <1>24, <1>25,
    <1>26, <1>31, <1>32
  DEF Next, Process, Environment, certSetup, Regenerate

(* Whether the provided CA was due does not change within a start.         *)
LEMMA ProvidedDueFixed ==
  ASSUME UNCHANGED <<caProvided, bootAt>>
  PROVE  ProvidedWasDue' = ProvidedWasDue
BY DEF ProvidedWasDue

(* The walk lists the provided root if and only if it is due.              *)
LEMMA ProvidedListed ==
  ASSUME IInv, bootAt = now, root = caProvided
  PROVE  RegenCerts[RootCA] > 0 <=> ProvidedWasDue
<1>1. RegenCerts[RootCA] = Appended(root.expires, root.validity)
  BY DEF RegenCerts, Targets, Signers
<1>2. root.expires \in Int /\ now \in Int
  BY DEF IInv, TypeOK, Root
<1> QED BY <1>1, <1>2, ValidityAssumption DEF Appended, TimeLeft, ProvidedWasDue

(* A provided root that is not due signs what a start makes; a due one     *)
(* goes, if it is alone in its file, and every sub-CA is issued anew.      *)
LEMMA ProvidedStep ==
  ASSUME IInv, DueInv, RenewedInv, ProvidedInv, [Next]_vars
  PROVE  ProvidedInv'
<1> USE ConstantTypes
<1>0. RootCA \in Targets /\ SubCAs \subseteq Targets
  BY DEF Targets, Signers
<1>1. CASE LoadConfig
  <2>1. /\ pc' = "root" /\ before'.cas = cas /\ cas' = cas /\ plan' = plan
        /\ caProvided'.gen # 0 => before'.root = caProvided'
    BY <1>1 DEF LoadConfig, disk
  <2>2. plan[RootCA] = 0
    BY <1>0, <1>1 DEF LoadConfig, DueInv, ListedDue
  <2> QED BY <2>1, <2>2 DEF ProvidedInv, NotDueSigns
<1>2. CASE EnsureRootCA
  BY <1>2, ProvidedDueFixed
  DEF ProvidedInv, ProvidedStays, NotDueSigns, DueGoes, RootReplaced, Reissued,
    InSetup, IInv, TypeOK, ControlInv, EnsureRootCA, IsCAProvided, history
<1>3. ASSUME NEW c \in SubCAs, SignSubCA(c) PROVE ProvidedInv'
  <2>1. /\ UNCHANGED <<before, bootAt, root, rootDisk, caProvided, plan, mode, cq>>
        /\ pc = "subca" /\ pc' = "cacrt" /\ MakeCA.issuer = root.name /\ cur' = c
        /\ mode # "setup" => c = cur
        /\ \A d \in SubCAs : cas'[d] = cas[d] \/ cas'[d] = MakeCA
        /\ cas'[c] = IF cas[c].gen = 0 THEN MakeCA ELSE cas[c]
    BY <1>3 DEF SignSubCA, NextSubCA, MakeCA, history, IInv, TypeOK
  <2>2. (pc = "subca" /\ mode = "regen") => cas'[c].issuer = root.name
    BY <1>3, <2>1 DEF RenewedInv, SignSubCA, NextSubCA
  <2>3. mode \in {"setup", "regen"}
    BY <2>1 DEF IInv, ControlInv
  <2> SUFFICES ASSUME caProvided.gen # 0 PROVE ProvidedInv'
    BY <2>1 DEF ProvidedInv
  <2>4. ProvidedStays' /\ ProvidedStays
    BY <2>1, ProvidedDueFixed DEF ProvidedInv, ProvidedStays
  <2>5. ~ProvidedWasDue => NotDueSigns'
    BY <2>1, <2>4 DEF ProvidedInv, ProvidedStays, NotDueSigns
  <2>6. (ProvidedWasDue /\ mode = "regen") => DueGoes'
    BY <2>1, <2>2, <2>4 DEF ProvidedInv, InSetup, ProvidedStays, DueGoes, RootReplaced, Reissued
  <2> QED BY <2>1, <2>3, <2>4, <2>5, <2>6, ProvidedDueFixed DEF ProvidedInv, InSetup
<1>4. CASE WriteCACert
  BY <1>4, ProvidedDueFixed
  DEF ProvidedInv, ProvidedStays, NotDueSigns, DueGoes, RootReplaced, Reissued,
    InSetup, IInv, TypeOK, ControlInv, WriteCACert, history
<1>5. ASSUME NEW l \in Leaves, SignCertificate(l) PROVE ProvidedInv'
  BY <1>5, ProvidedDueFixed
  DEF ProvidedInv, ProvidedStays, NotDueSigns, DueGoes, RootReplaced, Reissued,
    InSetup, IInv, TypeOK, ControlInv, SignCertificate, NextLeaf
<1>6. CASE CompleteSigner
  BY <1>6, ProvidedDueFixed
  DEF ProvidedInv, ProvidedStays, NotDueSigns, DueGoes, RootReplaced, Reissued,
    InSetup, IInv, TypeOK, ControlInv, CompleteSigner, disk, history
<1>7. ASSUME NEW s \in Signers, AddToBundles(s) PROVE ProvidedInv'
  BY <1>7, ProvidedDueFixed
  DEF ProvidedInv, ProvidedStays, NotDueSigns, DueGoes, RootReplaced, Reissued,
    InSetup, IInv, TypeOK, ControlInv, AddToBundles, history
<1>8. CASE GenerateServiceAccountKey
  BY <1>8, ProvidedDueFixed
  DEF ProvidedInv, ProvidedStays, NotDueSigns, DueGoes, RootReplaced, Reissued,
    InSetup, IInv, TypeOK, ControlInv, GenerateServiceAccountKey, history
<1>9. CASE certsToRegenerate
  <2>1. /\ pc = "plan" /\ pc' = "next" /\ plan' = RegenCerts /\ bootAt = now
        /\ UNCHANGED <<before, bootAt, root, caProvided, cas>>
    BY <1>9 DEF certsToRegenerate, disk, history, DueInv
  <2> SUFFICES ASSUME caProvided.gen # 0 PROVE ProvidedInv'
    BY <2>1 DEF ProvidedInv
  <2>2. root = caProvided
    BY <2>1 DEF DueInv, RootFound, InSetup, ProvidedInv
  <2>3. RegenCerts[RootCA] > 0 <=> ProvidedWasDue
    BY <2>1, <2>2, ProvidedListed
  <2>4. plan'[RootCA] \in 0..2
    BY <1>0, <1>9, TypeNext DEF IInv, TypeOK, Next, Process
  <2> QED BY <2>1, <2>2, <2>3, <2>4, ProvidedDueFixed
      DEF ProvidedInv, ProvidedStays, NotDueSigns, DueGoes, RootReplaced, Reissued
<1>10. CASE RegenerateRoot
  BY <1>0, <1>10, ProvidedDueFixed
  DEF ProvidedInv, ProvidedStays, NotDueSigns, DueGoes, RootReplaced, Reissued,
    InSetup, IInv, TypeOK, ControlInv, RegenerateRoot, disk, history, IsFirst, Planned
<1>11. ASSUME NEW c \in SubCAs, RegenerateSubCA(c) PROVE ProvidedInv'
  BY <1>0, <1>11, ConstantsAssumption, ProvidedDueFixed
  DEF ProvidedInv, ProvidedStays, NotDueSigns, DueGoes, RootReplaced, Reissued,
    InSetup, IInv, TypeOK, ControlInv, RegenerateSubCA, disk, history
<1>12. ASSUME NEW l \in Leaves, RegenerateLeaf(l) PROVE ProvidedInv'
  BY <1>0, <1>12, ConstantsAssumption, ProvidedDueFixed
  DEF ProvidedInv, ProvidedStays, NotDueSigns, DueGoes, RootReplaced, Reissued,
    InSetup, IInv, TypeOK, ControlInv, RegenerateLeaf, disk, history
<1>13. CASE RegenerateDone
  BY <1>13, ProvidedDueFixed
  DEF ProvidedInv, ProvidedStays, NotDueSigns, DueGoes, RootReplaced, Reissued,
    InSetup, IInv, TypeOK, ControlInv, RegenerateDone, disk, history
<1>14. CASE RemoveRoot
  BY <1>14, ProvidedDueFixed
  DEF ProvidedInv, ProvidedStays, NotDueSigns, DueGoes, RootReplaced, Reissued,
    InSetup, IInv, TypeOK, ControlInv, RemoveRoot, history
<1>15. CASE regenerateSelf
  BY <1>15, ProvidedDueFixed
  DEF ProvidedInv, ProvidedStays, NotDueSigns, DueGoes, RootReplaced, Reissued,
    InSetup, IInv, TypeOK, ControlInv, regenerateSelf, MakeRoot, history
<1>16. CASE AddRootToBundle
  BY <1>16, ProvidedDueFixed
  DEF ProvidedInv, ProvidedStays, NotDueSigns, DueGoes, RootReplaced, Reissued,
    InSetup, IInv, TypeOK, ControlInv, RenewedInv, AddRootToBundle, history
<1>17. ASSUME NEW c \in SubCAs, regenerateSubCA(c) PROVE ProvidedInv'
  BY <1>17, ProvidedDueFixed
  DEF ProvidedInv, ProvidedStays, NotDueSigns, DueGoes, RootReplaced, Reissued,
    InSetup, IInv, TypeOK, ControlInv, regenerateSubCA, NoCA
<1>18. CASE AddSubCAToBundle
  BY <1>18, ProvidedDueFixed
  DEF ProvidedInv, ProvidedStays, NotDueSigns, DueGoes, RootReplaced, Reissued,
    InSetup, IInv, TypeOK, ControlInv, AddSubCAToBundle, history
<1>19. ASSUME NEW l \in Leaves, regenerateCertificate(l) PROVE ProvidedInv'
  BY <1>19, ProvidedDueFixed
  DEF ProvidedInv, ProvidedStays, NotDueSigns, DueGoes, RootReplaced, Reissued,
    InSetup, IInv, TypeOK, ControlInv, regenerateCertificate
<1>20. CASE InitKubeconfig
  BY <1>20, ProvidedDueFixed
  DEF ProvidedInv, ProvidedStays, NotDueSigns, DueGoes, RootReplaced, Reissued,
    InSetup, IInv, TypeOK, ControlInv, InitKubeconfig, history
<1>21. CASE StartEtcd
  BY <1>21, ProvidedDueFixed
  DEF ProvidedInv, ProvidedStays, NotDueSigns, DueGoes, RootReplaced, Reissued,
    InSetup, IInv, TypeOK, ControlInv, StartEtcd, Exit, disk
<1>22. CASE Stop
  BY <1>22 DEF ProvidedInv, Stop, Exit
<1>23. ASSUME NEW c \in SubCAs, CrashInRemoveAll(c) PROVE ProvidedInv'
  BY <1>23 DEF ProvidedInv, CrashInRemoveAll, Exit
<1>31. ASSUME NEW c \in SubCAs, CrashInSignSubCA(c) PROVE ProvidedInv'
  BY <1>31 DEF ProvidedInv, CrashInSignSubCA, Exit
<1>32. ASSUME NEW l \in Leaves, CrashInSignCertificate(l) PROVE ProvidedInv'
  BY <1>32 DEF ProvidedInv, CrashInSignCertificate, Exit
<1>24. ASSUME NEW s \in Signers, CrashInAddToBundles(s) PROVE ProvidedInv'
  BY <1>24 DEF ProvidedInv, CrashInAddToBundles, Exit
<1>25. CASE Tick
  BY <1>25, ProvidedDueFixed
  DEF ProvidedInv, ProvidedStays, NotDueSigns, DueGoes, RootReplaced, Reissued,
    InSetup, IInv, TypeOK, ControlInv, Tick, disk, process, history
<1>26. CASE UNCHANGED vars
  BY <1>26, ProvidedDueFixed
  DEF ProvidedInv, ProvidedStays, NotDueSigns, DueGoes, RootReplaced, Reissued,
    InSetup, IInv, TypeOK, ControlInv, vars, disk, process, history
<1> QED
  BY <1>1, <1>2, <1>3, <1>4, <1>5, <1>6, <1>7, <1>8, <1>9, <1>10, <1>11, <1>12, <1>13,
    <1>14, <1>15, <1>16, <1>17, <1>18, <1>19, <1>20, <1>21, <1>22, <1>23, <1>24, <1>25,
    <1>26, <1>31, <1>32
  DEF Next, Process, Environment, certSetup, Regenerate

LEMMA TrustInvariance == Spec => []TrustInv
<1>1. Init => TrustInv
  BY InvInit, DueInit DEF TrustInv, RenewedInv, ProvidedInv, Init
<1>2. TrustInv /\ [Next]_vars => TrustInv'
  BY InvNext, DueStep, RenewedStep, ProvidedStep DEF TrustInv
<1> QED BY <1>1, <1>2, PTL DEF Spec

(* SwapsOnlyDue: a start leaves the sub-CAs that were not due as they were. *)
THEOREM SwapsNothingEarly == Spec => []SwapsOnlyDue
<1>1. TrustInv => SwapsOnlyDue
  <2> SUFFICES ASSUME TrustInv, pc = "serving", NEW c \in SubCAs,
                      before.cas[c].gen # 0,
                      before.cas[c].expires - bootAt >= ShortThreshold,
                      before.root.gen # 0 => before.root.expires - bootAt >= LongThreshold
               PROVE  cas[c] = before.cas[c]
    BY DEF SwapsOnlyDue
  <2>1. /\ bootAt \in Int /\ before.root.expires \in Int
        /\ before.cas[c].expires \in Int
    <3>1. before.root \in Root /\ before.cas[c] \in CA
      BY DEF TrustInv, IInv, TypeOK
    <3>2. bootAt \in Int
      BY DEF TrustInv, IInv, TypeOK
    <3> QED BY <3>1, <3>2 DEF Root, CA
  <2>2. ~WasDue(c)
    BY <2>1, ValidityAssumption DEF WasDue, RootWasDue
  <2> QED BY <2>2 DEF TrustInv, DueInv, CAFound
<1> QED BY <1>1, TrustInvariance, PTL

(* NoneExpiresInUse: a process that is restarted before the threshold      *)
(* passes serves no expired certificate.                                   *)
THEOREM ServesNothingExpired == Spec => []NoneExpiresInUse
<1>1. TrustInv => NoneExpiresInUse
  <2> SUFFICES ASSUME TrustInv, pc = "serving", now - bootAt < ShortThreshold
               PROVE  /\ \A c \in SubCAs : now <= cas[c].expires
                      /\ \A l \in registered \cup (Leaves \ orphans) : now <= leaf[l].expires
    BY DEF NoneExpiresInUse
  <2>1. now \in Int /\ bootAt \in Int /\ ShortThreshold \in Int
    BY ValidityAssumption DEF TrustInv, IInv, TypeOK
  <2>2. ASSUME NEW c \in SubCAs PROVE now <= cas[c].expires
    <3>1. plan[c] = 0 /\ cas[c].expires \in Int
      BY DEF TrustInv, RenewedInv, Targets, Signers, IInv, TypeOK, CA
    <3>2. CARenewed(c)
      BY DEF TrustInv, RenewedInv, InSetup
    <3> QED BY <2>1, <3>1, <3>2 DEF CARenewed
  <2>3. ASSUME NEW l \in registered PROVE now <= leaf[l].expires
    <3>1. plan[l] = 0 /\ leaf[l].expires \in Int
      BY DEF TrustInv, RenewedInv, Targets, IInv, TypeOK, Leaf
    <3>2. LeafRenewed(l)
      BY DEF TrustInv, RenewedInv, InSetup
    <3> QED BY <2>1, <3>1, <3>2 DEF LeafRenewed
  <2>4. ASSUME NEW l \in Leaves \ orphans PROVE now <= leaf[l].expires
    <3>1. leaf[l].ca # 0
      BY DEF TrustInv, IInv, LeafInv, PeerInv, Busy
    <3>2. cas[SignerOf[l]].expires <= leaf[l].expires
      BY <3>1 DEF TrustInv, IInv, SignedByCA
    <3>3. /\ now <= cas[SignerOf[l]].expires
          /\ cas[SignerOf[l]].expires \in Int /\ leaf[l].expires \in Int
      BY <2>2, ConstantTypes DEF TrustInv, IInv, TypeOK, CA, Leaf
    <3> QED BY <2>1, <3>2, <3>3
  <2> QED BY <2>2, <2>3, <2>4
<1> QED BY <1>1, TrustInvariance, PTL

(* ProvidedCASigns: whatever earlier starts left on disk, a provided CA    *)
(* issues every sub-CA a start makes, and stays the root unless it is due  *)
(* and alone in its file; then a self-signed root issues all of them.      *)
THEOREM ProvidedRootSigns == Spec => []ProvidedCASigns
<1>1. TrustInv => ProvidedCASigns
  <2> SUFFICES ASSUME TrustInv, pc = "serving", caProvided.gen # 0 PROVE ProvidedCASigns
    BY DEF ProvidedCASigns
  <2>1. plan[RootCA] = 0 /\ \A c \in SubCAs : cas[c].gen # 0
    BY DEF TrustInv, RenewedInv, IInv, CAInv, Busy, Targets, Signers
  <2>2. CASE ProvidedWasDue
    <3>1. DueGoes /\ ProvidedStays
      BY <2>2 DEF TrustInv, ProvidedInv, InSetup
    <3>2. \A c \in SubCAs :
            cas[c].issuer = IF caProvided.certs = 1 THEN "root-ca" ELSE caProvided.name
      BY <2>1, <3>1 DEF DueGoes, Reissued
    <3>3. caProvided.certs = 1 => root = rootDisk /\ root.name = "root-ca"
      BY <2>1, <3>1 DEF DueGoes, RootReplaced
    <3> QED BY <2>2, <3>1, <3>2, <3>3 DEF ProvidedCASigns, ProvidedStays
  <2>3. CASE ~ProvidedWasDue
    BY <2>1, <2>3 DEF TrustInv, ProvidedInv, ProvidedStays, NotDueSigns, ProvidedCASigns
  <2> QED BY <2>2, <2>3
<1> QED BY <1>1, TrustInvariance, PTL
===============================================================================
