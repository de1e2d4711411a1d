------------------------- MODULE Authentication_proofs ------------------------
(***************************************************************************)
(* Proofs about Authentication for every set of processes, every set of    *)
(* deployments, and every CacheTTL and review timeout.                     *)
(***************************************************************************)
EXTENDS Authentication, TLAPS

Written == {"written", "issuer", "etcd", "verifier", "serving"}

(* What p has read of the file, as long as no other process wrote it: its  *)
(* own key.                                                                *)
KeysOf(p) ==
  /\ pc[p] # "serving" => signer[p] = NoKey
  /\ pc[p] \in Written /\ ~meddled[p] =>
       /\ wrote[p] # NoKey
       /\ signer[p] = NoKey => keyFile = wrote[p]
       /\ signer[p] # NoKey => signer[p] = wrote[p]
       /\ pc[p] \in Written \ {"written"} => issuer[p] = wrote[p]
       /\ pc[p] \in {"verifier", "serving"} => verifier[p] = wrote[p]
       /\ pc[p] = "serving" => published[p] = wrote[p]

CleanToken(t) == t.clean => t.key = t.start

KeyInv == (\A p \in Processes : KeysOf(p)) /\ CleanToken(secret) /\ CleanToken(token)

(* What the options have become at each step of the start.                 *)
ConfiguredAt(p) ==
  /\ pc[p] \in Written \ {"written"} => anonymous[p] = ApplyAuthorization
  /\ pc[p] \in {"etcd", "verifier", "serving"} => Validate
  /\ pc[p] \in {"verifier", "serving"} => authorizers[p] = ToAuthorizationConfig

ConfigInv == \A p \in Processes : ConfiguredAt(p)

(* A verdict that is out of date and in flight, or in the cache, is on its *)
(* way out: the time it still has and the age of the new one add up.       *)
Expiring(p) ==
  /\ cache[p] # NothingCached => cache[p].left > 0
  /\ cache[p] # NothingCached /\ cache[p].verdict # Verdict => age + cache[p].left <= Old
  /\ review[p].answer # "none" /\ review[p].answer # Verdict =>
       age + review[p].left <= TokenAccessReviewTimeout

LagInv == \A p \in Processes : Expiring(p)
-------------------------------------------------------------------------------
(* The initial states.                                                     *)
LEMMA InitInv == Init => TypeOK /\ KeyInv /\ ConfigInv /\ LagInv
<1> SUFFICES ASSUME Init PROVE TypeOK /\ KeyInv /\ ConfigInv /\ LagInv
  OBVIOUS
<1> USE DeploymentsAssumption, BoundsAssumption
<1>1. TypeOK
  BY DEF Init, TypeOK, NoKey, NoToken, NoReview, NothingCached, Old, PCs, Tokens, KeyRange
<1>2. KeyInv
  BY DEF Init, KeyInv, KeysOf, Written, CleanToken, NoToken, NoKey
<1>3. ConfigInv
  BY DEF Init, ConfigInv, ConfiguredAt, Written
<1>4. LagInv
  BY DEF Init, LagInv, Expiring, NothingCached, NoReview
<1> QED  BY <1>1, <1>2, <1>3, <1>4
-------------------------------------------------------------------------------
(* TypeOK in five parts.                                                   *)
StartTypes ==
  /\ deploy \in Deployments
  /\ pc \in [Processes -> PCs]
  /\ meddled \in [Processes -> BOOLEAN] /\ errors \in 0..MaxErrors
  /\ anonymous \in [Processes -> BOOLEAN] /\ authorizers \in [Processes -> Seq(Modes)]
KeyTypes ==
  /\ keyFile \in 0..MaxKeys /\ keys \in 0..MaxKeys
  /\ wrote \in KeyRange /\ issuer \in KeyRange /\ verifier \in KeyRange
  /\ published \in KeyRange /\ signer \in KeyRange
TokenTypes == secret \in Tokens /\ token \in Tokens
HostTypes ==
  /\ valid \in BOOLEAN /\ age \in 0..Old /\ hostCA \in 1..(MaxRotations + 1)
  /\ following \in [Processes -> BOOLEAN]
  /\ trusted \in [Processes -> 0..(MaxRotations + 1)]
ReviewTypes ==
  /\ review \in [Processes -> [left : 0..TokenAccessReviewTimeout,
                               answer : {"none", "authenticated", "refused"}]]
  /\ cache \in [Processes -> [left : 0..CacheTTL,
                              verdict : {"none", "authenticated", "refused"}]]

(* The parts together are TypeOK.                                          *)
LEMMA TypeParts ==
  TypeOK <=> StartTypes /\ KeyTypes /\ TokenTypes /\ HostTypes /\ ReviewTypes
BY DEF TypeOK, StartTypes, KeyTypes, TokenTypes, HostTypes, ReviewTypes

(* The same of the state after a step.                                     *)
LEMMA TypePartsPrimed ==
  TypeOK' <=> StartTypes' /\ KeyTypes' /\ TokenTypes' /\ HostTypes' /\ ReviewTypes'
BY DEF TypeOK, StartTypes, KeyTypes, TokenTypes, HostTypes, ReviewTypes

(* Every step keeps the types.                                             *)
LEMMA TypeInv == TypeOK /\ [Next]_vars => TypeOK'
<1> SUFFICES ASSUME TypeOK, [Next]_vars PROVE TypeOK'
  OBVIOUS
<1> USE DeploymentsAssumption, BoundsAssumption, TypeParts DEF starting, files, tokens, hosting, delegated
<1>1. ASSUME NEW p \in Processes, EmptyKeyFile(p) PROVE TypeOK'
  <2>1. StartTypes'
    BY <1>1 DEF EmptyKeyFile, StartTypes, PCs, Meddle
  <2>2. KeyTypes'
    BY <1>1 DEF EmptyKeyFile, KeyTypes, KeyRange, NoKey
  <2>3. TokenTypes'
    BY <1>1 DEF EmptyKeyFile, TokenTypes, Tokens
  <2>4. HostTypes'
    BY <1>1 DEF EmptyKeyFile, HostTypes, Old
  <2>5. ReviewTypes'
    BY <1>1 DEF EmptyKeyFile, ReviewTypes, NoReview, NothingCached
  <2> QED  BY <2>1, <2>2, <2>3, <2>4, <2>5, TypePartsPrimed
<1>2. ASSUME NEW p \in Processes, GenerateServiceAccountKey(p) PROVE TypeOK'
  <2>1. StartTypes'
    BY <1>2 DEF GenerateServiceAccountKey, StartTypes, PCs, Meddle
  <2>2. KeyTypes'
    BY <1>2 DEF GenerateServiceAccountKey, KeyTypes, KeyRange, NoKey
  <2>3. TokenTypes'
    BY <1>2 DEF GenerateServiceAccountKey, TokenTypes, Tokens
  <2>4. HostTypes'
    BY <1>2 DEF GenerateServiceAccountKey, HostTypes, Old
  <2>5. ReviewTypes'
    BY <1>2 DEF GenerateServiceAccountKey, ReviewTypes, NoReview, NothingCached
  <2> QED  BY <2>1, <2>2, <2>3, <2>4, <2>5, TypePartsPrimed
<1>3. ASSUME NEW p \in Processes, Complete(p) PROVE TypeOK'
  <2>1. StartTypes'
    BY <1>3 DEF Complete, StartTypes, PCs, ApplyAuthorization
  <2>2. KeyTypes'
    BY <1>3 DEF Complete, KeyTypes, KeyRange, NoKey
  <2>3. TokenTypes'
    BY <1>3 DEF Complete, TokenTypes, Tokens
  <2>4. HostTypes'
    BY <1>3 DEF Complete, HostTypes, Old
  <2>5. ReviewTypes'
    BY <1>3 DEF Complete, ReviewTypes, NoReview, NothingCached
  <2> QED  BY <2>1, <2>2, <2>3, <2>4, <2>5, TypePartsPrimed
<1>4. ASSUME NEW p \in Processes, StartEtcd(p) PROVE TypeOK'
  <2>1. StartTypes'
    BY <1>4 DEF StartEtcd, StartTypes, PCs
  <2>2. KeyTypes'
    BY <1>4 DEF StartEtcd, KeyTypes, KeyRange, NoKey
  <2>3. TokenTypes'
    BY <1>4 DEF StartEtcd, TokenTypes, Tokens
  <2>4. HostTypes'
    BY <1>4 DEF StartEtcd, HostTypes, Old
  <2>5. ReviewTypes'
    BY <1>4 DEF StartEtcd, ReviewTypes, NoReview, NothingCached
  <2> QED  BY <2>1, <2>2, <2>3, <2>4, <2>5, TypePartsPrimed
<1>5. ASSUME NEW p \in Processes, BuildGenericConfig(p) PROVE TypeOK'
  <2>1. StartTypes'
    BY <1>5 DEF BuildGenericConfig, ToAuthenticationConfig, StartTypes, PCs, ToAuthorizationConfig
  <2>2. KeyTypes'
    BY <1>5 DEF BuildGenericConfig, ToAuthenticationConfig, KeyTypes, KeyRange, NoKey
  <2>3. TokenTypes'
    BY <1>5 DEF BuildGenericConfig, ToAuthenticationConfig, TokenTypes, Tokens
  <2>4. HostTypes'
    BY <1>5 DEF BuildGenericConfig, ToAuthenticationConfig, HostTypes, Old
  <2>5. ReviewTypes'
    BY <1>5 DEF BuildGenericConfig, ToAuthenticationConfig, ReviewTypes, NoReview, NothingCached
  <2> QED  BY <2>1, <2>2, <2>3, <2>4, <2>5, TypePartsPrimed
<1>6. ASSUME NEW p \in Processes, CreateServerChain(p) PROVE TypeOK'
  <2>1. StartTypes'
    BY <1>6 DEF CreateServerChain, CreateKubeAPIServerConfig, StartTypes, PCs
  <2>2. KeyTypes'
    BY <1>6 DEF CreateServerChain, CreateKubeAPIServerConfig, KeyTypes, KeyRange, NoKey
  <2>3. TokenTypes'
    BY <1>6 DEF CreateServerChain, CreateKubeAPIServerConfig, TokenTypes, Tokens
  <2>4. HostTypes'
    BY <1>6 DEF CreateServerChain, CreateKubeAPIServerConfig, HostTypes, Old
  <2>5. ReviewTypes'
    BY <1>6 DEF CreateServerChain, CreateKubeAPIServerConfig, ReviewTypes, NoReview, NothingCached
  <2> QED  BY <2>1, <2>2, <2>3, <2>4, <2>5, TypePartsPrimed
<1>7. ASSUME NEW p \in Processes, StartTokenController(p) PROVE TypeOK'
  <2>1. StartTypes'
    BY <1>7 DEF StartTokenController, StartTypes, PCs
  <2>2. KeyTypes'
    BY <1>7 DEF StartTokenController, KeyTypes, KeyRange, NoKey
  <2>3. TokenTypes'
    BY <1>7 DEF StartTokenController, TokenTypes, Tokens
  <2>4. HostTypes'
    BY <1>7 DEF StartTokenController, HostTypes, Old
  <2>5. ReviewTypes'
    BY <1>7 DEF StartTokenController, ReviewTypes, NoReview, NothingCached
  <2> QED  BY <2>1, <2>2, <2>3, <2>4, <2>5, TypePartsPrimed
<1>8. ASSUME NEW p \in Processes, FindKeyFileEmpty(p) PROVE TypeOK'
  <2>1. StartTypes'
    BY <1>8 DEF FindKeyFileEmpty, StartTypes, PCs, Exit
  <2>2. KeyTypes'
    BY <1>8 DEF FindKeyFileEmpty, KeyTypes, KeyRange, NoKey, Exit
  <2>3. TokenTypes'
    BY <1>8 DEF FindKeyFileEmpty, TokenTypes, Tokens, Exit
  <2>4. HostTypes'
    BY <1>8 DEF FindKeyFileEmpty, HostTypes, Old, Exit
  <2>5. ReviewTypes'
    BY <1>8 DEF FindKeyFileEmpty, ReviewTypes, NoReview, NothingCached, Exit
  <2> QED  BY <2>1, <2>2, <2>3, <2>4, <2>5, TypePartsPrimed
<1>9. ASSUME NEW p \in Processes, RefuseOptions(p) PROVE TypeOK'
  <2>1. StartTypes'
    BY <1>9 DEF RefuseOptions, StartTypes, PCs, Exit
  <2>2. KeyTypes'
    BY <1>9 DEF RefuseOptions, KeyTypes, KeyRange, NoKey, Exit
  <2>3. TokenTypes'
    BY <1>9 DEF RefuseOptions, TokenTypes, Tokens, Exit
  <2>4. HostTypes'
    BY <1>9 DEF RefuseOptions, HostTypes, Old, Exit
  <2>5. ReviewTypes'
    BY <1>9 DEF RefuseOptions, ReviewTypes, NoReview, NothingCached, Exit
  <2> QED  BY <2>1, <2>2, <2>3, <2>4, <2>5, TypePartsPrimed
<1>10. ASSUME NEW p \in Processes, End(p) PROVE TypeOK'
  <2>1. StartTypes'
    BY <1>10 DEF End, StartTypes, PCs, Exit
  <2>2. KeyTypes'
    BY <1>10 DEF End, KeyTypes, KeyRange, NoKey, Exit
  <2>3. TokenTypes'
    BY <1>10 DEF End, TokenTypes, Tokens, Exit
  <2>4. HostTypes'
    BY <1>10 DEF End, HostTypes, Old, Exit
  <2>5. ReviewTypes'
    BY <1>10 DEF End, ReviewTypes, NoReview, NothingCached, Exit
  <2> QED  BY <2>1, <2>2, <2>3, <2>4, <2>5, TypePartsPrimed
<1>11. ASSUME NEW p \in Processes, TokenRequest(p) PROVE TypeOK'
  <2>1. StartTypes'
    BY <1>11 DEF TokenRequest, StartTypes, PCs
  <2>2. KeyTypes'
    BY <1>11 DEF TokenRequest, KeyTypes, KeyRange, NoKey
  <2>3. TokenTypes'
    BY <1>11 DEF TokenRequest, TokenTypes, Tokens, Minted, KeyTypes, KeyRange, StartTypes
  <2>4. HostTypes'
    BY <1>11 DEF TokenRequest, HostTypes, Old
  <2>5. ReviewTypes'
    BY <1>11 DEF TokenRequest, ReviewTypes, NoReview, NothingCached
  <2> QED  BY <2>1, <2>2, <2>3, <2>4, <2>5, TypePartsPrimed
<1>12. ASSUME NEW p \in Processes, FillSecret(p) PROVE TypeOK'
  <2>1. StartTypes'
    BY <1>12 DEF FillSecret, StartTypes, PCs
  <2>2. KeyTypes'
    BY <1>12 DEF FillSecret, KeyTypes, KeyRange, NoKey
  <2>3. TokenTypes'
    BY <1>12 DEF FillSecret, TokenTypes, Tokens, Minted, KeyTypes, KeyRange, StartTypes
  <2>4. HostTypes'
    BY <1>12 DEF FillSecret, HostTypes, Old
  <2>5. ReviewTypes'
    BY <1>12 DEF FillSecret, ReviewTypes, NoReview, NothingCached
  <2> QED  BY <2>1, <2>2, <2>3, <2>4, <2>5, TypePartsPrimed
<1>13. ASSUME NEW p \in Processes, Start(p) PROVE TypeOK'
  <2>1. StartTypes'
    BY <1>13 DEF Start, StartTypes, PCs
  <2>2. KeyTypes'
    BY <1>13 DEF Start, KeyTypes, KeyRange, NoKey
  <2>3. TokenTypes'
    BY <1>13 DEF Start, TokenTypes, Tokens
  <2>4. HostTypes'
    BY <1>13 DEF Start, HostTypes, Old
  <2>5. ReviewTypes'
    BY <1>13 DEF Start, ReviewTypes, NoReview, NothingCached
  <2> QED  BY <2>1, <2>2, <2>3, <2>4, <2>5, TypePartsPrimed
<1>14. ASSUME NEW p \in Processes, LoadCABundle(p) PROVE TypeOK'
  <2>1. StartTypes'
    BY <1>14 DEF LoadCABundle, StartTypes, PCs
  <2>2. KeyTypes'
    BY <1>14 DEF LoadCABundle, KeyTypes, KeyRange, NoKey
  <2>3. TokenTypes'
    BY <1>14 DEF LoadCABundle, TokenTypes, Tokens
  <2>4. HostTypes'
    BY <1>14 DEF LoadCABundle, HostTypes, Old
  <2>5. ReviewTypes'
    BY <1>14 DEF LoadCABundle, ReviewTypes, NoReview, NothingCached
  <2> QED  BY <2>1, <2>2, <2>3, <2>4, <2>5, TypePartsPrimed
<1>15. ASSUME NEW p \in Processes, AuthenticateToken(p) PROVE TypeOK'
  <2>1. StartTypes'
    BY <1>15 DEF AuthenticateToken, StartTypes, PCs
  <2>2. KeyTypes'
    BY <1>15 DEF AuthenticateToken, KeyTypes, KeyRange, NoKey
  <2>3. TokenTypes'
    BY <1>15 DEF AuthenticateToken, TokenTypes, Tokens
  <2>4. HostTypes'
    BY <1>15 DEF AuthenticateToken, HostTypes, Old
  <2>5. ReviewTypes'
    BY <1>15 DEF AuthenticateToken, ReviewTypes, NoReview, NothingCached
  <2> QED  BY <2>1, <2>2, <2>3, <2>4, <2>5, TypePartsPrimed
<1>16. ASSUME NEW p \in Processes, TokenReview(p) PROVE TypeOK'
  <2>1. StartTypes'
    BY <1>16 DEF TokenReview, StartTypes, PCs
  <2>2. KeyTypes'
    BY <1>16 DEF TokenReview, KeyTypes, KeyRange, NoKey
  <2>3. TokenTypes'
    BY <1>16 DEF TokenReview, TokenTypes, Tokens
  <2>4. HostTypes'
    BY <1>16 DEF TokenReview, HostTypes, Old
  <2>5. ReviewTypes'
    BY <1>16 DEF TokenReview, ReviewTypes, NoReview, NothingCached, Verdict
  <2> QED  BY <2>1, <2>2, <2>3, <2>4, <2>5, TypePartsPrimed
<1>17. ASSUME NEW p \in Processes, CacheAnswer(p) PROVE TypeOK'
  <2>1. StartTypes'
    BY <1>17 DEF CacheAnswer, StartTypes, PCs
  <2>2. KeyTypes'
    BY <1>17 DEF CacheAnswer, KeyTypes, KeyRange, NoKey
  <2>3. TokenTypes'
    BY <1>17 DEF CacheAnswer, TokenTypes, Tokens
  <2>4. HostTypes'
    BY <1>17 DEF CacheAnswer, HostTypes, Old
  <2>5. ReviewTypes'
    BY <1>17 DEF CacheAnswer, ReviewTypes, NoReview, NothingCached
  <2> QED  BY <2>1, <2>2, <2>3, <2>4, <2>5, TypePartsPrimed
<1>18. ASSUME NEW p \in Processes, ReviewFails(p) PROVE TypeOK'
  <2>1. StartTypes'
    BY <1>18 DEF ReviewFails, StartTypes, PCs
  <2>2. KeyTypes'
    BY <1>18 DEF ReviewFails, KeyTypes, KeyRange, NoKey
  <2>3. TokenTypes'
    BY <1>18 DEF ReviewFails, TokenTypes, Tokens
  <2>4. HostTypes'
    BY <1>18 DEF ReviewFails, HostTypes, Old
  <2>5. ReviewTypes'
    BY <1>18 DEF ReviewFails, ReviewTypes, NoReview, NothingCached
  <2> QED  BY <2>1, <2>2, <2>3, <2>4, <2>5, TypePartsPrimed
<1>19. CASE ChangeVerdict
  <2>1. StartTypes'
    BY <1>19 DEF ChangeVerdict, StartTypes, PCs
  <2>2. KeyTypes'
    BY <1>19 DEF ChangeVerdict, KeyTypes, KeyRange, NoKey
  <2>3. TokenTypes'
    BY <1>19 DEF ChangeVerdict, TokenTypes, Tokens
  <2>4. HostTypes'
    BY <1>19 DEF ChangeVerdict, HostTypes, Old
  <2>5. ReviewTypes'
    BY <1>19 DEF ChangeVerdict, ReviewTypes, NoReview, NothingCached
  <2> QED  BY <2>1, <2>2, <2>3, <2>4, <2>5, TypePartsPrimed
<1>20. CASE RotateHostCA
  <2>1. StartTypes'
    BY <1>20 DEF RotateHostCA, StartTypes, PCs
  <2>2. KeyTypes'
    BY <1>20 DEF RotateHostCA, KeyTypes, KeyRange, NoKey
  <2>3. TokenTypes'
    BY <1>20 DEF RotateHostCA, TokenTypes, Tokens
  <2>4. HostTypes'
    BY <1>20 DEF RotateHostCA, HostTypes, Old
  <2>5. ReviewTypes'
    BY <1>20 DEF RotateHostCA, ReviewTypes, NoReview, NothingCached
  <2> QED  BY <2>1, <2>2, <2>3, <2>4, <2>5, TypePartsPrimed
<1>21. CASE Tick
  <2>1. StartTypes'
    BY <1>21 DEF Tick, StartTypes, PCs
  <2>2. KeyTypes'
    BY <1>21 DEF Tick, KeyTypes, KeyRange, NoKey
  <2>3. TokenTypes'
    BY <1>21 DEF Tick, TokenTypes, Tokens
  <2>4. HostTypes'
    BY <1>21 DEF Tick, HostTypes, Old
  <2>5. ReviewTypes'
    <3>1. ASSUME NEW q \in Processes
          PROVE review'[q] \in [left : 0..TokenAccessReviewTimeout,
                                answer : {"none", "authenticated", "refused"}]
      BY <1>21, <3>1 DEF Tick, ReviewTypes, NoReview
    <3>2. ASSUME NEW q \in Processes
          PROVE cache'[q] \in [left : 0..CacheTTL,
                               verdict : {"none", "authenticated", "refused"}]
      <4>1. cache[q] \in [left : 0..CacheTTL, verdict : {"none", "authenticated", "refused"}]
        BY <3>2 DEF ReviewTypes
      <4>2. CASE cache[q].left <= 1
        BY <1>21, <3>2, <4>2 DEF Tick, NothingCached
      <4>3. CASE ~(cache[q].left <= 1)
        <5>1. cache'[q] = [cache[q] EXCEPT !.left = @ - 1]
          BY <1>21, <3>2, <4>3 DEF Tick
        <5> QED  BY <4>1, <4>3, <5>1
      <4> QED  BY <4>2, <4>3
    <3> QED  BY <1>21, <3>1, <3>2 DEF Tick, ReviewTypes
  <2> QED  BY <2>1, <2>2, <2>3, <2>4, <2>5, TypePartsPrimed
<1>22. CASE UNCHANGED vars
  <2>1. StartTypes'
    BY <1>22 DEF vars, StartTypes, PCs
  <2>2. KeyTypes'
    BY <1>22 DEF vars, KeyTypes, KeyRange, NoKey
  <2>3. TokenTypes'
    BY <1>22 DEF vars, TokenTypes, Tokens
  <2>4. HostTypes'
    BY <1>22 DEF vars, HostTypes, Old
  <2>5. ReviewTypes'
    BY <1>22 DEF vars, ReviewTypes, NoReview, NothingCached
  <2> QED  BY <2>1, <2>2, <2>3, <2>4, <2>5, TypePartsPrimed
<1> QED
  BY <1>1, <1>2, <1>3, <1>4, <1>5, <1>6, <1>7, <1>8, <1>9, <1>10, <1>11, <1>12, <1>13, <1>14, <1>15, <1>16, <1>17, <1>18, <1>19, <1>20, <1>21, <1>22 DEF Next, Step

(* Every step keeps the keys of a process and of clean tokens together.    *)
LEMMA KeyStep == TypeOK /\ KeyInv /\ [Next]_vars => KeyInv'
<1> SUFFICES ASSUME TypeOK /\ KeyInv, [Next]_vars PROVE KeyInv'
  OBVIOUS
<1> USE DeploymentsAssumption, BoundsAssumption DEF TypeOK, KeyInv, KeysOf, Written, CleanToken, PCs, KeyRange, Tokens, NoKey, starting, files, tokens, hosting, delegated
<1>1. ASSUME NEW p \in Processes, EmptyKeyFile(p) PROVE KeyInv'
  BY <1>1 DEF EmptyKeyFile, Meddle, Exposed
<1>2. ASSUME NEW p \in Processes, GenerateServiceAccountKey(p) PROVE KeyInv'
  <2>1. ASSUME NEW q \in Processes, q = p PROVE KeysOf(q)'
    <3>1. /\ wrote'[p] = keys + 1 /\ keyFile' = keys + 1 /\ keys \in Nat
          /\ pc'[p] = "written" /\ signer' = signer
      BY <1>2 DEF GenerateServiceAccountKey
    <3>2. signer[p] = NoKey
      BY <1>2 DEF GenerateServiceAccountKey
    <3> QED  BY <2>1, <3>1, <3>2
  <2>2. ASSUME NEW q \in Processes, q # p PROVE KeysOf(q)'
    BY <1>2, <2>2 DEF GenerateServiceAccountKey, Meddle, Exposed
  <2>3. CleanToken(secret)' /\ CleanToken(token)'
    BY <1>2 DEF GenerateServiceAccountKey
  <2> QED  BY <2>1, <2>2, <2>3
<1>3. ASSUME NEW p \in Processes, Complete(p) PROVE KeyInv'
  <2>1. ASSUME NEW q \in Processes, q = p PROVE KeysOf(q)'
    BY <1>3, <2>1 DEF Complete
  <2>2. ASSUME NEW q \in Processes, q # p PROVE KeysOf(q)'
    BY <1>3, <2>2 DEF Complete
  <2>3. CleanToken(secret)' /\ CleanToken(token)'
    BY <1>3 DEF Complete
  <2> QED  BY <2>1, <2>2, <2>3
<1>4. ASSUME NEW p \in Processes, StartEtcd(p) PROVE KeyInv'
  BY <1>4 DEF StartEtcd
<1>5. ASSUME NEW p \in Processes, BuildGenericConfig(p) PROVE KeyInv'
  <2>1. ASSUME NEW q \in Processes, q = p PROVE KeysOf(q)'
    BY <1>5, <2>1 DEF BuildGenericConfig, ToAuthenticationConfig
  <2>2. ASSUME NEW q \in Processes, q # p PROVE KeysOf(q)'
    BY <1>5, <2>2 DEF BuildGenericConfig, ToAuthenticationConfig
  <2>3. CleanToken(secret)' /\ CleanToken(token)'
    BY <1>5 DEF BuildGenericConfig, ToAuthenticationConfig
  <2> QED  BY <2>1, <2>2, <2>3
<1>6. ASSUME NEW p \in Processes, CreateServerChain(p) PROVE KeyInv'
  <2>1. ASSUME NEW q \in Processes, q = p PROVE KeysOf(q)'
    BY <1>6, <2>1 DEF CreateServerChain, CreateKubeAPIServerConfig
  <2>2. ASSUME NEW q \in Processes, q # p PROVE KeysOf(q)'
    BY <1>6, <2>2 DEF CreateServerChain, CreateKubeAPIServerConfig
  <2>3. CleanToken(secret)' /\ CleanToken(token)'
    BY <1>6 DEF CreateServerChain, CreateKubeAPIServerConfig
  <2> QED  BY <2>1, <2>2, <2>3
<1>7. ASSUME NEW p \in Processes, StartTokenController(p) PROVE KeyInv'
  BY <1>7 DEF StartTokenController
<1>8. ASSUME NEW p \in Processes, FindKeyFileEmpty(p) PROVE KeyInv'
  BY <1>8 DEF FindKeyFileEmpty, Exit
<1>9. ASSUME NEW p \in Processes, RefuseOptions(p) PROVE KeyInv'
  BY <1>9 DEF RefuseOptions, Exit
<1>10. ASSUME NEW p \in Processes, End(p) PROVE KeyInv'
  BY <1>10 DEF End, Exit
<1>11. ASSUME NEW p \in Processes, TokenRequest(p) PROVE KeyInv'
  BY <1>11 DEF TokenRequest, Minted
<1>12. ASSUME NEW p \in Processes, FillSecret(p) PROVE KeyInv'
  BY <1>12 DEF FillSecret, Minted
<1>13. ASSUME NEW p \in Processes, Start(p) PROVE KeyInv'
  BY <1>13 DEF Start
<1>14. ASSUME NEW p \in Processes, LoadCABundle(p) PROVE KeyInv'
  BY <1>14 DEF LoadCABundle
<1>15. ASSUME NEW p \in Processes, AuthenticateToken(p) PROVE KeyInv'
  BY <1>15 DEF AuthenticateToken
<1>16. ASSUME NEW p \in Processes, TokenReview(p) PROVE KeyInv'
  BY <1>16 DEF TokenReview
<1>17. ASSUME NEW p \in Processes, CacheAnswer(p) PROVE KeyInv'
  BY <1>17 DEF CacheAnswer
<1>18. ASSUME NEW p \in Processes, ReviewFails(p) PROVE KeyInv'
  BY <1>18 DEF ReviewFails
<1>19. CASE ChangeVerdict
  BY <1>19 DEF ChangeVerdict
<1>20. CASE RotateHostCA
  BY <1>20 DEF RotateHostCA
<1>21. CASE Tick
  BY <1>21 DEF Tick
<1>22. CASE UNCHANGED vars
  BY <1>22 DEF vars
<1> QED
  BY <1>1, <1>2, <1>3, <1>4, <1>5, <1>6, <1>7, <1>8, <1>9, <1>10, <1>11, <1>12, <1>13, <1>14, <1>15, <1>16, <1>17, <1>18, <1>19, <1>20, <1>21, <1>22 DEF Next, Step

(* Every step keeps what the start has made of the options.                *)
LEMMA ConfigStep == TypeOK /\ ConfigInv /\ [Next]_vars => ConfigInv'
<1> SUFFICES ASSUME TypeOK /\ ConfigInv, [Next]_vars PROVE ConfigInv'
  OBVIOUS
<1> USE DeploymentsAssumption, BoundsAssumption DEF TypeOK, ConfigInv, ConfiguredAt, Written, PCs, ApplyAuthorization, Validate, ToAuthorizationConfig, starting, files, tokens, hosting, delegated
<1>1. ASSUME NEW p \in Processes, EmptyKeyFile(p) PROVE ConfigInv'
  BY <1>1 DEF EmptyKeyFile
<1>2. ASSUME NEW p \in Processes, GenerateServiceAccountKey(p) PROVE ConfigInv'
  BY <1>2 DEF GenerateServiceAccountKey
<1>3. ASSUME NEW p \in Processes, Complete(p) PROVE ConfigInv'
  BY <1>3 DEF Complete
<1>4. ASSUME NEW p \in Processes, StartEtcd(p) PROVE ConfigInv'
  BY <1>4 DEF StartEtcd
<1>5. ASSUME NEW p \in Processes, BuildGenericConfig(p) PROVE ConfigInv'
  BY <1>5 DEF BuildGenericConfig, ToAuthenticationConfig
<1>6. ASSUME NEW p \in Processes, CreateServerChain(p) PROVE ConfigInv'
  BY <1>6 DEF CreateServerChain, CreateKubeAPIServerConfig
<1>7. ASSUME NEW p \in Processes, StartTokenController(p) PROVE ConfigInv'
  BY <1>7 DEF StartTokenController
<1>8. ASSUME NEW p \in Processes, FindKeyFileEmpty(p) PROVE ConfigInv'
  BY <1>8 DEF FindKeyFileEmpty, Exit
<1>9. ASSUME NEW p \in Processes, RefuseOptions(p) PROVE ConfigInv'
  BY <1>9 DEF RefuseOptions, Exit
<1>10. ASSUME NEW p \in Processes, End(p) PROVE ConfigInv'
  BY <1>10 DEF End, Exit
<1>11. ASSUME NEW p \in Processes, TokenRequest(p) PROVE ConfigInv'
  BY <1>11 DEF TokenRequest
<1>12. ASSUME NEW p \in Processes, FillSecret(p) PROVE ConfigInv'
  BY <1>12 DEF FillSecret
<1>13. ASSUME NEW p \in Processes, Start(p) PROVE ConfigInv'
  BY <1>13 DEF Start
<1>14. ASSUME NEW p \in Processes, LoadCABundle(p) PROVE ConfigInv'
  BY <1>14 DEF LoadCABundle
<1>15. ASSUME NEW p \in Processes, AuthenticateToken(p) PROVE ConfigInv'
  BY <1>15 DEF AuthenticateToken
<1>16. ASSUME NEW p \in Processes, TokenReview(p) PROVE ConfigInv'
  BY <1>16 DEF TokenReview
<1>17. ASSUME NEW p \in Processes, CacheAnswer(p) PROVE ConfigInv'
  BY <1>17 DEF CacheAnswer
<1>18. ASSUME NEW p \in Processes, ReviewFails(p) PROVE ConfigInv'
  BY <1>18 DEF ReviewFails
<1>19. CASE ChangeVerdict
  BY <1>19 DEF ChangeVerdict
<1>20. CASE RotateHostCA
  BY <1>20 DEF RotateHostCA
<1>21. CASE Tick
  BY <1>21 DEF Tick
<1>22. CASE UNCHANGED vars
  BY <1>22 DEF vars
<1> QED
  BY <1>1, <1>2, <1>3, <1>4, <1>5, <1>6, <1>7, <1>8, <1>9, <1>10, <1>11, <1>12, <1>13, <1>14, <1>15, <1>16, <1>17, <1>18, <1>19, <1>20, <1>21, <1>22 DEF Next, Step

(* Every step keeps out-of-date verdicts expiring in time.                 *)
LEMMA LagStep == TypeOK /\ LagInv /\ [Next]_vars => LagInv'
<1> SUFFICES ASSUME TypeOK /\ LagInv, [Next]_vars PROVE LagInv'
  OBVIOUS
<1> USE DeploymentsAssumption, BoundsAssumption DEF TypeOK, LagInv, Expiring, NothingCached, NoReview, Verdict, Old, starting, files, tokens, hosting, delegated
<1>1. ASSUME NEW p \in Processes, EmptyKeyFile(p) PROVE LagInv'
  BY <1>1 DEF EmptyKeyFile
<1>2. ASSUME NEW p \in Processes, GenerateServiceAccountKey(p) PROVE LagInv'
  BY <1>2 DEF GenerateServiceAccountKey
<1>3. ASSUME NEW p \in Processes, Complete(p) PROVE LagInv'
  BY <1>3 DEF Complete
<1>4. ASSUME NEW p \in Processes, StartEtcd(p) PROVE LagInv'
  BY <1>4 DEF StartEtcd
<1>5. ASSUME NEW p \in Processes, BuildGenericConfig(p) PROVE LagInv'
  BY <1>5 DEF BuildGenericConfig, ToAuthenticationConfig
<1>6. ASSUME NEW p \in Processes, CreateServerChain(p) PROVE LagInv'
  BY <1>6 DEF CreateServerChain, CreateKubeAPIServerConfig
<1>7. ASSUME NEW p \in Processes, StartTokenController(p) PROVE LagInv'
  BY <1>7 DEF StartTokenController
<1>8. ASSUME NEW p \in Processes, FindKeyFileEmpty(p) PROVE LagInv'
  BY <1>8 DEF FindKeyFileEmpty, Exit
<1>9. ASSUME NEW p \in Processes, RefuseOptions(p) PROVE LagInv'
  BY <1>9 DEF RefuseOptions, Exit
<1>10. ASSUME NEW p \in Processes, End(p) PROVE LagInv'
  BY <1>10 DEF End, Exit
<1>11. ASSUME NEW p \in Processes, TokenRequest(p) PROVE LagInv'
  BY <1>11 DEF TokenRequest
<1>12. ASSUME NEW p \in Processes, FillSecret(p) PROVE LagInv'
  BY <1>12 DEF FillSecret
<1>13. ASSUME NEW p \in Processes, Start(p) PROVE LagInv'
  BY <1>13 DEF Start
<1>14. ASSUME NEW p \in Processes, LoadCABundle(p) PROVE LagInv'
  BY <1>14 DEF LoadCABundle
<1>15. ASSUME NEW p \in Processes, AuthenticateToken(p) PROVE LagInv'
  BY <1>15 DEF AuthenticateToken
<1>16. ASSUME NEW p \in Processes, TokenReview(p) PROVE LagInv'
  BY <1>16 DEF TokenReview
<1>17. ASSUME NEW p \in Processes, CacheAnswer(p) PROVE LagInv'
  BY <1>17 DEF CacheAnswer
<1>18. ASSUME NEW p \in Processes, ReviewFails(p) PROVE LagInv'
  BY <1>18 DEF ReviewFails
<1>19. CASE ChangeVerdict
  BY <1>19 DEF ChangeVerdict
<1>20. CASE RotateHostCA
  BY <1>20 DEF RotateHostCA
<1>21. CASE Tick
  <2> SUFFICES ASSUME NEW q \in Processes PROVE Expiring(q)'
    OBVIOUS
  <2>1. Verdict' = Verdict
    BY <1>21 DEF Tick
  <2>2. age \in Nat /\ age' \in Nat /\ age' <= age + 1
    <3>1. age \in Nat
      OBVIOUS
    <3>2. age' = age + 1 \/ age' = age
      <4> HIDE DeploymentsAssumption, BoundsAssumption DEF TypeOK, LagInv, Expiring, Old
      <4> QED  BY <1>21 DEF Tick
    <3> HIDE DEF TypeOK, LagInv, Expiring
    <3> QED  BY <3>1, <3>2
  <2>3. /\ cache[q] \in [left : 0..CacheTTL, verdict : {"none", "authenticated", "refused"}]
        /\ review[q] \in [left : 0..TokenAccessReviewTimeout,
                          answer : {"none", "authenticated", "refused"}]
    OBVIOUS
  <2>4. /\ cache'[q] # NothingCached => cache'[q].left > 0
        /\ cache'[q] # NothingCached /\ cache'[q].verdict # Verdict => age' + cache'[q].left <= Old
    <3>1. CASE cache[q].left <= 1
      <4>1. cache'[q] = NothingCached
        BY <1>21, <3>1 DEF Tick
      <4> QED  BY <4>1
    <3>2. CASE ~(cache[q].left <= 1)
      <4>1. cache'[q] = [cache[q] EXCEPT !.left = @ - 1]
        BY <1>21, <3>2 DEF Tick
      <4>2. cache[q] # NothingCached
        BY <3>2
      <4>3. cache'[q].left = cache[q].left - 1 /\ cache'[q].verdict = cache[q].verdict
        BY <2>3, <4>1
      <4>4. cache[q].verdict # Verdict => age + cache[q].left <= Old
        BY <4>2
      <4>5. cache[q].left \in Nat /\ Old \in Nat
        BY <2>3
      <4>6. cache'[q].left > 0
        BY <3>2, <4>3, <4>5
      <4>7. cache[q].verdict # Verdict => age' + (cache[q].left - 1) <= Old
        <5> HIDE DEF Verdict, Old, TypeOK, LagInv, Expiring
        <5> QED  BY <2>2, <4>4, <4>5
      <4> QED  BY <4>3, <4>6, <4>7
    <3> QED  BY <3>1, <3>2
  <2>5. review'[q].answer # "none" /\ review'[q].answer # Verdict =>
          age' + review'[q].left <= TokenAccessReviewTimeout
    <3>1. CASE review[q] = NoReview
      <4>1. review'[q] = NoReview
        BY <1>21, <3>1 DEF Tick
      <4> QED  BY <4>1
    <3>2. CASE review[q] # NoReview
      <4>1. review'[q] = [review[q] EXCEPT !.left = @ - 1]
        BY <1>21, <3>2 DEF Tick
      <4>2. review'[q].left = review[q].left - 1 /\ review'[q].answer = review[q].answer
        BY <2>3, <4>1
      <4>3. review[q].answer # "none" /\ review[q].answer # Verdict =>
              age + review[q].left <= TokenAccessReviewTimeout
        OBVIOUS
      <4>4. review[q].left \in Nat
        BY <2>3
      <4> HIDE DEF NoReview, Verdict
      <4> QED  BY <2>2, <4>2, <4>3, <4>4
    <3> QED  BY <3>1, <3>2
  <2> QED  BY <2>1, <2>4, <2>5
<1>22. CASE UNCHANGED vars
  BY <1>22 DEF vars
<1> QED
  BY <1>1, <1>2, <1>3, <1>4, <1>5, <1>6, <1>7, <1>8, <1>9, <1>10, <1>11, <1>12, <1>13, <1>14, <1>15, <1>16, <1>17, <1>18, <1>19, <1>20, <1>21, <1>22 DEF Next, Step

-------------------------------------------------------------------------------
(* Type correctness, for every value of the constants.                     *)
THEOREM TypeCorrect == Spec => []TypeOK
BY InitInv, TypeInv, PTL DEF Spec

(* A service account token is good for the start that minted it and for no *)
(* other, whatever number of processes share the key file: whoever was not *)
(* overtaken by another writer has one key in all four places.             *)
THEOREM TokensFollowTheKey == Spec => []AcceptedByItsStartOnly
<1>1. KeyInv => AcceptedByItsStartOnly
  BY DEF KeyInv, KeysOf, CleanToken, AcceptedByItsStartOnly, Written
<1> QED  BY <1>1, InitInv, TypeInv, KeyStep, PTL DEF Spec

(* A process that serves authorizes with every mode of its deployment, and *)
(* admits no anonymous request that everything is allowed to.              *)
THEOREM ServedAsConfigured == Spec => []ServesAsConfigured
<1>1. TypeOK /\ ConfigInv => ServesAsConfigured
  <2> SUFFICES ASSUME TypeOK, ConfigInv, NEW p \in Processes, pc[p] = "serving"
               PROVE /\ authorizers[p] = deploy.modes /\ Len(authorizers[p]) > 0
                     /\ anonymous[p] =>
                          /\ deploy.anonymous
                          /\ \A i \in DOMAIN authorizers[p] :
                               authorizers[p][i] # "AlwaysAllow"
    BY DEF ServesAsConfigured
  <2>1. deploy.modes \in Seq(Modes)
    BY DeploymentsAssumption DEF TypeOK
  <2>2. Validate /\ authorizers[p] = ToAuthorizationConfig /\ anonymous[p] = ApplyAuthorization
    BY DEF ConfigInv, ConfiguredAt, Written
  <2>3. authorizers[p] = deploy.modes
    BY <2>2 DEF Validate, ToAuthorizationConfig
  <2>4. Len(deploy.modes) > 0
    BY <2>1, <2>2 DEF Validate
  <2> QED  BY <2>2, <2>3, <2>4 DEF ApplyAuthorization
<1> QED  BY <1>1, InitInv, TypeInv, ConfigStep, PTL DEF Spec

(* The verdict on a delegated token is out of date for less than CacheTTL  *)
(* and TokenAccessReviewTimeout together, whatever the two are.            *)
THEOREM BoundedStaleness == Spec => []StaleForLessThanTTL
<1>1. TypeOK /\ LagInv => StaleForLessThanTTL
  BY BoundsAssumption DEF TypeOK, LagInv, Expiring, StaleForLessThanTTL, Old
<1> QED  BY <1>1, InitInv, TypeInv, LagStep, PTL DEF Spec
===============================================================================
