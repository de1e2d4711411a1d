---------------------------- MODULE Authentication ----------------------------
(***************************************************************************)
(* What a controlplane authenticates with, and where that comes from.      *)
(*                                                                         *)
(* Service account tokens.  Every start writes a new key to one file of    *)
(* the data directory (pkg/certificate/certificate.go) and reads it back   *)
(* four times: Complete for the issuer of token requests, ToAuthentication-*)
(* Config for the verifier, createKubeAPIServerConfig for the published    *)
(* keys, and the token controller for the tokens it puts into secrets.     *)
(* The start waits for the embedded etcd between the first and the second. *)
(* A rolling update, or more than one replica, puts several processes on   *)
(* the same directory.                                                     *)
(*                                                                         *)
(* Delegated tokens.  With --delegating-authentication a token that the    *)
(* built-in authenticators refuse is reviewed by the hosting cluster       *)
(* through a cache, and client certificates are verified with the hosting  *)
(* cluster's client CA, which a hook starts to follow.                     *)
(*                                                                         *)
(* Time is kept in timers that count down, so no clock bounds the model.   *)
(***************************************************************************)
EXTENDS Integers, Sequences

CONSTANTS
  Processes,                 \* what shares the data directory
  Deployments,               \* the configurations to consider
  CacheTTL,                  \* of DelegatingAuthenticatorConfig
  TokenAccessReviewTimeout,
  MaxKeys,                   \* bound: service account keys ever generated
  MaxErrors,                 \* bound: failing steps
  MaxRotations               \* bound: changes of the hosting cluster's client CA

Modes == {"AlwaysAllow", "RBAC", "Node"}

ASSUME DeploymentsAssumption ==
  Deployments \subseteq [embedded : BOOLEAN, modes : Seq(Modes), anonymous : BOOLEAN,
                         delegating : BOOLEAN, inCluster : BOOLEAN]

ASSUME BoundsAssumption ==
  /\ CacheTTL \in Nat /\ TokenAccessReviewTimeout \in Nat \ {0}
  /\ MaxKeys \in Nat /\ MaxErrors \in Nat /\ MaxRotations \in Nat

VARIABLES
  deploy,            \* flags and configuration, the same at every start
  pc,                \* pc[p]: what p's start has done
  keyFile,           \* the key in the service account key file
  keys,              \* keys ever generated
  wrote,             \* wrote[p]: the key this start of p generated
  issuer, verifier, published, signer,   \* what p has in memory of the file
  secret,            \* the token in a service account's secret, kept in etcd
  token,             \* the last token a token request returned
  meddled,           \* history: another process wrote the file before p's last read
  errors,
  anonymous,         \* anonymous[p]: p authenticates anonymous requests
  authorizers,       \* authorizers[p]: the modes p authorizes with
  valid, age,        \* the hosting cluster's verdict on a token, and since when
  hostCA,            \* generation of the hosting cluster's client CA
  following,         \* following[p]: the goroutine that follows hostCA runs
  trusted,           \* trusted[p]: the generation p verifies with
  review,            \* review[p]: the token review in flight
  cache              \* cache[p]: what p remembers of the last one

starting == <<pc, wrote, issuer, verifier, published, meddled, anonymous, authorizers>>
files == <<keyFile, keys>>
tokens == <<secret, token>>
hosting == <<valid, age, hostCA>>
delegated == <<following, trusted, review, cache>>
vars == <<deploy, starting, files, signer, tokens, errors, hosting, delegated>>

NoKey == 0
NoToken == [key |-> NoKey, start |-> 0, clean |-> FALSE]
NoReview == [left |-> 0, answer |-> "none"]   \* also one whose time is over
NothingCached == [left |-> 0, verdict |-> "none"]

(* A verdict is older than Old once nothing in flight can still carry the  *)
(* one before it.                                                          *)
Old == CacheTTL + TokenAccessReviewTimeout
Verdict == IF valid THEN "authenticated" ELSE "refused"

PCs == {"off", "writing", "written", "issuer", "etcd", "verifier", "serving"}
Tokens == [key : 0..MaxKeys, start : 0..MaxKeys, clean : BOOLEAN]
KeyRange == [Processes -> 0..MaxKeys]

(* What the variables may hold.                                            *)
TypeOK ==
  /\ deploy \in Deployments
  /\ pc \in [Processes -> PCs]
  /\ keyFile \in 0..MaxKeys /\ keys \in 0..MaxKeys
  /\ wrote \in KeyRange /\ issuer \in KeyRange /\ verifier \in KeyRange
  /\ published \in KeyRange /\ signer \in KeyRange
  /\ secret \in Tokens /\ token \in Tokens
  /\ meddled \in [Processes -> BOOLEAN] /\ errors \in 0..MaxErrors
  /\ anonymous \in [Processes -> BOOLEAN] /\ authorizers \in [Processes -> Seq(Modes)]
  /\ valid \in BOOLEAN /\ age \in 0..Old /\ hostCA \in 1..(MaxRotations + 1)
  /\ following \in [Processes -> BOOLEAN]
  /\ trusted \in [Processes -> 0..(MaxRotations + 1)]
  /\ review \in [Processes -> [left : 0..TokenAccessReviewTimeout,
                               answer : {"none", "authenticated", "refused"}]]
  /\ cache \in [Processes -> [left : 0..CacheTTL,
                              verdict : {"none", "authenticated", "refused"}]]

Init ==
  /\ deploy \in Deployments
  /\ pc = [p \in Processes |-> "off"]
  /\ keyFile = NoKey /\ keys = 0
  /\ wrote = [p \in Processes |-> NoKey] /\ issuer = wrote /\ verifier = wrote
  /\ published = wrote /\ signer = wrote
  /\ secret = NoToken /\ token = NoToken
  /\ meddled = [p \in Processes |-> FALSE] /\ errors = 0
  /\ anonymous = [p \in Processes |-> FALSE]
  /\ authorizers = [p \in Processes |-> <<>>]
  /\ valid = TRUE /\ age = Old /\ hostCA = 1
  /\ following = [p \in Processes |-> FALSE]
  /\ trusted = [p \in Processes |-> 0]
  /\ review = [p \in Processes |-> NoReview]
  /\ cache = [p \in Processes |-> NothingCached]
-------------------------------------------------------------------------------
(* The start of a process.                                                 *)

(* The end of a process, for whatever reason: its memory is gone.          *)
Exit(p) ==
  /\ pc' = [pc EXCEPT ![p] = "off"]
  /\ wrote' = [wrote EXCEPT ![p] = NoKey]
  /\ issuer' = [issuer EXCEPT ![p] = NoKey]
  /\ verifier' = [verifier EXCEPT ![p] = NoKey]
  /\ published' = [published EXCEPT ![p] = NoKey]
  /\ signer' = [signer EXCEPT ![p] = NoKey]
  /\ meddled' = [meddled EXCEPT ![p] = FALSE]
  /\ anonymous' = [anonymous EXCEPT ![p] = FALSE]
  /\ authorizers' = [authorizers EXCEPT ![p] = <<>>]
  /\ following' = [following EXCEPT ![p] = FALSE]
  /\ trusted' = [trusted EXCEPT ![p] = 0]
  /\ review' = [review EXCEPT ![p] = NoReview]
  /\ cache' = [cache EXCEPT ![p] = NothingCached]
  /\ UNCHANGED <<deploy, files, tokens, hosting>>

(* Processes that wrote their key and have yet to read it a last time.     *)
Exposed(p) == pc[p] \notin {"off", "writing"} /\ signer[p] = NoKey
Meddle(p) == meddled' = [q \in Processes |-> meddled[q] \/ (q # p /\ Exposed(q))]

(* GenerateServiceAccountKey at the end of InitCerts.  os.WriteFile empties *)
(* the file when it opens it, and writes the key next.                     *)
EmptyKeyFile(p) ==
  /\ pc[p] = "off" /\ keys < MaxKeys
  /\ keyFile' = NoKey
  /\ pc' = [pc EXCEPT ![p] = "writing"]
  /\ Meddle(p)
  /\ UNCHANGED <<deploy, keys, wrote, issuer, verifier, published, anonymous, authorizers,
                 signer, tokens, errors, hosting, delegated>>

(* Mutant: the key of the first start is kept.                             *)
GenerateServiceAccountKeyOnce(p) ==
  /\ pc[p] = "writing" /\ keys < MaxKeys
  /\ keys' = keys + 1 /\ keyFile' = 1
  /\ wrote' = [wrote EXCEPT ![p] = keys']
  /\ pc' = [pc EXCEPT ![p] = "written"]
  /\ Meddle(p)
  /\ UNCHANGED <<deploy, issuer, verifier, published, anonymous, authorizers,
                 signer, tokens, errors, hosting, delegated>>

GenerateServiceAccountKey(p) ==
  /\ pc[p] = "writing" /\ keys < MaxKeys
  /\ keys' = keys + 1 /\ keyFile' = keys'
  /\ wrote' = [wrote EXCEPT ![p] = keys']
  /\ pc' = [pc EXCEPT ![p] = "written"]
  /\ Meddle(p)
  /\ UNCHANGED <<deploy, issuer, verifier, published, anonymous, authorizers,
                 signer, tokens, errors, hosting, delegated>>

(* Mutant: the flag is taken as it is.                                     *)
ApplyNoAuthorization == deploy.anonymous

(* The AlwaysAllow authorizer turns anonymous requests off.                *)
ApplyAuthorization ==
  deploy.anonymous /\ \A i \in DOMAIN deploy.modes : deploy.modes[i] # "AlwaysAllow"

(* Complete up to the start of etcd: it parses the key the issuer signs    *)
(* with.  An empty file is an error, which ends the process.               *)
Complete(p) ==
  /\ pc[p] = "written" /\ keyFile # NoKey
  /\ anonymous' = [anonymous EXCEPT ![p] = ApplyAuthorization]
  /\ issuer' = [issuer EXCEPT ![p] = keyFile]
  /\ pc' = [pc EXCEPT ![p] = "issuer"]
  /\ UNCHANGED <<deploy, files, wrote, verifier, published, authorizers, meddled,
                 signer, tokens, errors, hosting, delegated>>

(* External: etcd locks its database, so StartEtcd waits, with no timeout, *)
(* until no other process has it.                                          *)
EtcdFree(p) ==
  deploy.embedded => \A q \in Processes \ {p} : pc[q] \notin {"etcd", "verifier", "serving"}

NoRepetition(modes) ==
  \A i, j \in DOMAIN modes : modes[i] = modes[j] => i = j

(* Validate: what it says of the authorization modes.  The service account *)
(* options it looks at are always set by then.                             *)
Validate == deploy.modes # <<>> /\ NoRepetition(deploy.modes)

(* The rest of Complete, and Validate.                                     *)
StartEtcd(p) ==
  /\ pc[p] = "issuer" /\ EtcdFree(p) /\ Validate
  /\ pc' = [pc EXCEPT ![p] = "etcd"]
  /\ UNCHANGED <<deploy, files, wrote, issuer, verifier, published, anonymous, authorizers,
                 meddled, signer, tokens, errors, hosting, delegated>>

(* An error of ToAuthorizationConfig is printed and gives no authorizers.  *)
ToAuthorizationConfig == IF NoRepetition(deploy.modes) THEN deploy.modes ELSE <<>>

(* The verifier's keys are parsed once and never read again.               *)
ToAuthenticationConfig(p) ==
  keyFile # NoKey /\ verifier' = [verifier EXCEPT ![p] = keyFile]

(* External: an authorizer of no modes is an error.                        *)
BuildGenericConfig(p) ==
  /\ pc[p] = "etcd" /\ ToAuthenticationConfig(p) /\ ToAuthorizationConfig # <<>>
  /\ authorizers' = [authorizers EXCEPT ![p] = ToAuthorizationConfig]
  /\ pc' = [pc EXCEPT ![p] = "verifier"]
  /\ UNCHANGED <<deploy, files, wrote, issuer, published, anonymous, meddled,
                 signer, tokens, errors, hosting, delegated>>

(* The keys the server publishes for others to verify tokens with.         *)
CreateKubeAPIServerConfig(p) ==
  keyFile # NoKey /\ published' = [published EXCEPT ![p] = keyFile]

(* The server is put together, starts and runs its hooks.                  *)
CreateServerChain(p) ==
  /\ pc[p] = "verifier" /\ CreateKubeAPIServerConfig(p)
  /\ pc' = [pc EXCEPT ![p] = "serving"]
  /\ UNCHANGED <<deploy, files, wrote, issuer, verifier, anonymous, authorizers, meddled,
                 signer, tokens, errors, hosting, delegated>>

(* startServiceAccountTokenController, in the kube-controller hook.        *)
StartTokenController(p) ==
  /\ pc[p] = "serving" /\ signer[p] = NoKey /\ keyFile # NoKey
  /\ signer' = [signer EXCEPT ![p] = keyFile]
  /\ UNCHANGED <<deploy, starting, files, tokens, errors, hosting, delegated>>

(* Each of the four reads takes an empty file for an error.                *)
FindKeyFileEmpty(p) ==
  /\ keyFile = NoKey
  /\ pc[p] \in {"written", "etcd", "verifier"} \/ (pc[p] = "serving" /\ signer[p] = NoKey)
  /\ Exit(p) /\ UNCHANGED errors

RefuseOptions(p) ==
  /\ pc[p] = "issuer" /\ EtcdFree(p) /\ ~Validate
  /\ Exit(p) /\ UNCHANGED errors

(* An error of any other step, or a signal.                                *)
End(p) ==
  /\ pc[p] # "off" /\ errors < MaxErrors /\ errors' = errors + 1
  /\ Exit(p)
-------------------------------------------------------------------------------
(* Service account tokens.                                                 *)

Minted(p, key) == [key |-> key, start |-> wrote[p], clean |-> ~meddled[p]]

(* External: the token subresource signs with the issuer's key.            *)
TokenRequest(p) ==
  /\ pc[p] = "serving"
  /\ token' = Minted(p, issuer[p])
  /\ UNCHANGED <<deploy, starting, files, signer, secret, errors, hosting, delegated>>

(* External: the token controller fills a secret that has no token, and    *)
(* never looks at the key of one that has.                                 *)
FillSecret(p) ==
  /\ pc[p] = "serving" /\ signer[p] # NoKey /\ secret = NoToken
  /\ secret' = Minted(p, signer[p])
  /\ UNCHANGED <<deploy, starting, files, signer, token, errors, hosting, delegated>>
-------------------------------------------------------------------------------
(* Delegated authentication.                                               *)

(* New gives no authenticator outside of a cluster.                        *)
Delegating == deploy.delegating /\ deploy.inCluster
Delegates(p) == pc[p] = "serving" /\ Delegating

(* Mutant: the CA is loaded once and not followed.                         *)
StartOnce(p) ==
  /\ Delegates(p) /\ ~following[p] /\ trusted[p] = 0
  /\ trusted' = [trusted EXCEPT ![p] = hostCA]
  /\ UNCHANGED <<deploy, starting, files, signer, tokens, errors, hosting, following,
                 review, cache>>

(* DelegatingAuthenticatorConfig.Start, in a hook of its own: RunOnce finds *)
(* the informer's cache empty, which is only logged, and Run is started.   *)
Start(p) ==
  /\ Delegates(p) /\ ~following[p]
  /\ following' = [following EXCEPT ![p] = TRUE]
  /\ UNCHANGED <<deploy, starting, files, signer, tokens, errors, hosting, trusted, review,
                 cache>>

(* External: Run's informer brings the content of the config map.          *)
LoadCABundle(p) ==
  /\ following[p] /\ trusted[p] # hostCA
  /\ trusted' = [trusted EXCEPT ![p] = hostCA]
  /\ UNCHANGED <<deploy, starting, files, signer, tokens, errors, hosting, following, review,
                 cache>>

(* A request with the token, when there is no answer in the cache: one     *)
(* lookup is in flight for all of them.                                    *)
AuthenticateToken(p) ==
  /\ Delegates(p) /\ cache[p] = NothingCached /\ review[p] = NoReview
  /\ review' = [review EXCEPT ![p] = [left |-> TokenAccessReviewTimeout, answer |-> "none"]]
  /\ UNCHANGED <<deploy, starting, files, signer, tokens, errors, hosting, following, trusted,
                 cache>>

(* External: the hosting cluster reviews the token.  The answer travels on *)
(* after that, or is lost and the call is tried again.                     *)
TokenReview(p) ==
  /\ review[p] # NoReview
  /\ review' = [review EXCEPT ![p].answer = Verdict]
  /\ UNCHANGED <<deploy, starting, files, signer, tokens, errors, hosting, following, trusted,
                 cache>>

(* cache.New with CacheTTL for both verdicts.                              *)
CacheAnswer(p) ==
  /\ review[p].answer # "none"
  /\ review' = [review EXCEPT ![p] = NoReview]
  /\ cache' = [cache EXCEPT ![p] = IF CacheTTL = 0 THEN NothingCached
                                   ELSE [left |-> CacheTTL, verdict |-> review[p].answer]]
  /\ UNCHANGED <<deploy, starting, files, signer, tokens, errors, hosting, following, trusted>>

(* Mutant: cache.New is told to cache errors too.                          *)
ReviewFailsAndIsCached(p) ==
  /\ review[p] # NoReview
  /\ review' = [review EXCEPT ![p] = NoReview]
  /\ cache' = [cache EXCEPT ![p] = [left |-> CacheTTL, verdict |-> "refused"]]
  /\ UNCHANGED <<deploy, starting, files, signer, tokens, errors, hosting, following, trusted>>

(* The review fails, or TokenAccessReviewTimeout is over: errors are not   *)
(* cached.                                                                 *)
ReviewFails(p) ==
  /\ review[p] # NoReview
  /\ review' = [review EXCEPT ![p] = NoReview]
  /\ UNCHANGED <<deploy, starting, files, signer, tokens, errors, hosting, following, trusted,
                 cache>>

(* External: the hosting cluster revokes the token, or grants it again.    *)
(* It is watched only where it matters, as is the time.                    *)
ChangeVerdict ==
  /\ Delegating
  /\ valid' = ~valid /\ age' = 0
  /\ UNCHANGED <<deploy, starting, files, signer, tokens, errors, hostCA, delegated>>

RotateHostCA ==
  /\ Delegating
  /\ hostCA <= MaxRotations /\ hostCA' = hostCA + 1
  /\ UNCHANGED <<deploy, starting, files, signer, tokens, errors, valid, age, delegated>>

(* Mutant: nothing ends a review that takes too long.                      *)
TickPastTimeout ==
  /\ Delegating
  /\ age' = IF age < Old THEN age + 1 ELSE age
  /\ review' = [p \in Processes |->
                  IF review[p] = NoReview THEN NoReview
                  ELSE [review[p] EXCEPT !.left = @ - 1]]
  /\ cache' = [p \in Processes |->
                 IF cache[p].left <= 1 THEN NothingCached
                 ELSE [cache[p] EXCEPT !.left = @ - 1]]
  /\ UNCHANGED <<deploy, starting, files, signer, tokens, errors, valid, hostCA, following,
                 trusted>>

(* One unit of time.  No review outlasts its timeout.                      *)
Tick ==
  /\ Delegating
  /\ \A p \in Processes : review[p] # NoReview => review[p].left > 0
  /\ age' = IF age < Old THEN age + 1 ELSE age
  /\ review' = [p \in Processes |->
                  IF review[p] = NoReview THEN NoReview
                  ELSE [review[p] EXCEPT !.left = @ - 1]]
  /\ cache' = [p \in Processes |->
                 IF cache[p].left <= 1 THEN NothingCached
                 ELSE [cache[p] EXCEPT !.left = @ - 1]]
  /\ UNCHANGED <<deploy, starting, files, signer, tokens, errors, valid, hostCA, following,
                 trusted>>
-------------------------------------------------------------------------------
Step(p) ==
  \/ EmptyKeyFile(p) \/ GenerateServiceAccountKey(p) \/ Complete(p) \/ StartEtcd(p)
  \/ BuildGenericConfig(p) \/ CreateServerChain(p) \/ StartTokenController(p)
  \/ FindKeyFileEmpty(p) \/ RefuseOptions(p) \/ End(p)
  \/ TokenRequest(p) \/ FillSecret(p)
  \/ Start(p) \/ LoadCABundle(p)
  \/ AuthenticateToken(p) \/ TokenReview(p) \/ CacheAnswer(p) \/ ReviewFails(p)

Next == (\E p \in Processes : Step(p)) \/ ChangeVerdict \/ RotateHostCA \/ Tick

Spec == Init /\ [][Next]_vars

(* The server runs the hook that starts the delegation, and the goroutine  *)
(* it starts is scheduled.                                                 *)
FairSpec ==
  Spec /\ \A p \in Processes : WF_vars(Start(p)) /\ WF_vars(LoadCABundle(p))
-------------------------------------------------------------------------------
(* A service account token is accepted by the start that minted it, by its *)
(* verifier and by those who use the keys it publishes, and by no other    *)
(* start, before or after: the key is a new one every time                 *)
(* (certificate.go:221).  The exception is a start during which another    *)
(* process wrote the file.                                                 *)
AcceptedByItsStartOnly ==
  \A p \in Processes : \A t \in {secret, token} \ {NoToken} :
    pc[p] = "serving" /\ ~meddled[p] /\ t.clean =>
      /\ (t.key = verifier[p]) <=> (t.start = wrote[p])
      /\ (t.key = published[p]) <=> (t.start = wrote[p])

(* A process that serves authorizes with every mode it was given, although *)
(* ToAuthorizationConfig swallows its error, and authenticates anonymous   *)
(* requests only when the flag says so and no mode allows everything.      *)
ServesAsConfigured ==
  \A p \in Processes : pc[p] = "serving" =>
    /\ authorizers[p] = deploy.modes /\ Len(authorizers[p]) > 0
    /\ anonymous[p] => /\ deploy.anonymous
                       /\ \A i \in DOMAIN authorizers[p] : authorizers[p][i] # "AlwaysAllow"

(* A cached verdict that is no longer the hosting cluster's is out of date *)
(* by less than CacheTTL and one review together, however the review, the  *)
(* revocation and the answer overlap (options.go:337-342).                 *)
StaleForLessThanTTL ==
  \A p \in Processes :
    cache[p] # NothingCached /\ cache[p].verdict # Verdict => age < Old

(* Once the hosting cluster's client CA stops changing, every process that *)
(* delegates comes to verify with it (authentication.go:728-738).          *)
EventuallyFollows ==
  \A p \in Processes : <>[](Delegates(p) => trusted[p] = hostCA)
===============================================================================
