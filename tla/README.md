# Multicluster controlplane: TLA+ models, checks and proofs

The multicluster controlplane packs an API server, an optional embedded etcd,
some Kubernetes controllers and the Open Cluster Management (OCM) hub into one
process. This project models the parts of it that carry their own logic:
certificates that survive on disk from start to start, post-start hooks that
run side by side and on several replicas, the registration of API services,
the start of the Kubernetes controllers, the keys and caches behind
authentication, a controller that works from a cache, and the agent on a
managed cluster. TLC checks the models on small instances; TLAPS proves their
safety properties for every instance.

## 1. The system

| part | state | operations | hard behaviour |
|---|---|---|---|
| certificate chains (`pkg/certificate`) | files of the root, the sub-CAs, the leaves, bundles, service account key, kubeconfigs; signers in memory | `InitCerts` (load or create, walk, regenerate), `InitKubeconfig` | crash between two writes, state that is only in memory, time thresholds, a CA or host name that changes between starts |
| start of the process (`pkg/cmd`, `pkg/servers/configs`, `pkg/servers/options`) | options, configuration | `LoadConfig`, `Complete`, `InitServerRunOptions`, `Validate` | order of the steps; configuration found at run time |
| embedded etcd (`pkg/etcd`) | the database | `Run` | needs the certificates in place; waits for the lock of the database |
| server chain (`pkg/servers`) | library configurations; pending API services of the health check | `NewServer`, `createServerChain`, `makeAPIServiceAvailableHealthCheck` | callbacks and probes share the pending set |
| hub resources hook (`bootstrap/hub.go`) | objects in the store | `BuildKubeSystemResources` | Get/Create races of replicas, swallowed errors, lost answers |
| OCM bootstrap hooks (`bootstrap/crds.go`, `ocmcontroller`) | CRDs, the self-managed cluster and its namespace | `InstallCRD`, `InstallControllers`, `InstallSelfManagementCluster` | hooks that wait for each other, `klog.Fatal`, restarts |
| cluster role aggregation (`kubecontroller/clusterroleaggregation.go`) | work queue, informer cache | `enqueue`, `syncClusterRole` | stale reads, several workers, retries |
| kube controller manager (`kubecontroller`) | informers, running controllers, `InformersStarted` | `RunKubeControllers`, `StartControllers`, the initializers | random start order, another hook that starts the same informers, fatal errors, certificates that outlive their CA |
| authentication and authorization (`pkg/servers/options`) | service account keys in memory, authorizers, cached verdicts, client CA of the hosting cluster | `Complete`, `Validate`, `buildGenericConfig`, `DelegatingAuthenticatorConfig` | one file read four times while others write it, cached answers, a CA that changes |
| agent (`pkg/agent`, `pkg/cmd/agent`) | CRDs on the managed cluster, add-on manager | `RunAgent`, `RunAddOns` | releases that race for the CRDs, goroutines that fail independently, a library that cancels its own agent |
| admission plugins (`plugin`) | none | in-process OCM webhooks | |

How they interact: `InitServerRunOptions` calls `LoadConfig`, `InitCerts` and
`InitKubeconfig` before anything is served, then the embedded etcd starts with
the certificates on disk. `NewServer` registers the hooks, which the API
server runs concurrently once it serves. They talk to each other through the
store only: the controllers and self-management wait for the CRDs that
`InstallCRD` applies, and self-management waits for the hub controllers to
accept its cluster. The `kube-controller` hook starts the Kubernetes
controllers, whose CSR signer uses the client CA of the certificate chains.
`InitCerts` writes the service account key that the options, the API server
and the token controller read afterwards. With an external etcd several replicas
(`charts/multicluster-controlplane/templates/deployment.yaml`, `replicas`)
share the store and run the same hooks.

What makes each part correct:

- certificates: what is served verifies, nothing expires in use, nothing is
  swapped early, a start never fails for good, kubeconfigs match the CAs;
- hub resources: after the hook everything is in place unless it met an error,
  also when replicas race; restarts do not pile up objects beyond one token;
- bootstrap: controllers after CRDs, agent after acceptance, one self-managed
  cluster, no exit without a cause, and it ends in a managed hub;
- aggregation: no change is missed and no revoked rule survives, but where the
  controller leaves a role's rules to the users who own them;
- API services: a server reports ready only when its APIs are registered, and
  the registered services follow the built-in APIs and the CRDs;
- controllers: none that was started is left waiting for an informer nobody
  starts, and the client certificates they issue are not cut off early;
- authentication: tokens are good for the start that minted them and no other,
  nobody serves without the authorizers asked for, revoked tokens die out;
- agent: a spoke agent runs with its own CRDs, and failures end in a restart.

The hazards behind these properties are listed, each at its line, in
`PROJECT.json`.

## 2. Modules

| module | models | runs |
|---|---|---|
| `TrustDomain` | abstract: what may happen to the sub-CAs | implemented by `CertChains`, used by `KubeControllers` |
| `CertChains` | `pkg/certificate`, `LoadConfig`, start of etcd | `MCCertChains`: CertRotation, CertProvided, CertPeerLost, CertProvidedSwap |
| `HubResources` | `bootstrap/hub.go` | `MCHubResources`: HubInstall |
| `OcmBootstrap` | `bootstrap/crds.go`, `ocmcontroller` | `MCOcmBootstrap`: Bootstrap |
| `ClusterRoleAggregation` | `clusterroleaggregation.go` | `MCClusterRoleAggregation`: Aggregation |
| `APIServices` | `servers/aggregator.go` | `MCAPIServices`: APIServices, APIServicesNoWait |
| `KubeControllers` | `kubecontroller`, composed with `TrustDomain` | `MCKubeControllers`: KubeControllers |
| `Authentication` | `servers/options`, `kubeapiserver.go`, the service account key | `MCAuthentication`: Authentication |
| `Agent` | `pkg/agent`, `pkg/cmd/agent` | `MCAgent`: Agent |

The theorems about a module `X` are in `X_proofs`; the second half of
`CertChains_proofs` relates `CertChains` to `TrustDomain`.

### TrustDomain

Five facts about the sub-CAs, and nothing about files, leaves or bundles:
nothing changes while the process serves, a start replaces only what was due
when it began (all of them if the root was), what it makes is new and lives
for the whole validity, it serves only with all of them there, and a start
that dies may leave one of them unloadable, due or not (`Lose`). `CertChains` maps its state to it: `pc` to the three phases,
`cas` to key pair and expiry, and `due` to the sub-CAs that `before`, the
snapshot a start takes, shows to be close to their end.

### CertChains

A CA is a key pair (`gen`), its expiry and the subject of its issuer; a leaf is
the key pair that signed it, its expiry and, for the API server's serving
certificate, the host name in it. A file pair that is missing, half written or
mismatched counts as absent, because the library's loaders refuse it and make
a new one in every such case. The step of the start that runs next is `pc`;
`mode` tells whether signers are built by `certSetup`, rebuilt by a
regeneration or asked for a single leaf, since the code shares `SignSubCA` and
`SignCertificate` between them.

| action | code |
|---|---|
| `LoadConfig`, `GetExternalHost`, `LoadServingSigner` | configs.go, util.go: choose host name and CA pair |
| `EnsureRootCA`, `SignSubCA`, `WriteCACert`, `SignCertificate`, `CompleteSigner`, `AddToBundles`, `GenerateServiceAccountKey` | `certSetup` and the builders' `Complete` |
| `certsToRegenerate` | the walk and its two thresholds; `plan` counts how often a path is listed |
| `RegenerateRoot`, `RegenerateSubCA`, `RegenerateLeaf` | the three cases of `Regenerate` |
| `RemoveRoot`, `regenerateSelf`, `AddRootToBundle`, `regenerateSubCA`, `AddSubCAToBundle`, `regenerateCertificate` | the regenerations, split where they write to disk |
| `InitKubeconfig`, `StartEtcd` | one kubeconfig per step; etcd reads the peer certificate |
| `Stop`, `Tick` | the environment: the process ends between two steps, time passes |
| `CrashInRemoveAll`, `CrashInSignSubCA`, `CrashInSignCertificate`, `CrashInAddToBundles` | the process ends inside a step that writes to disk |

A crash inside a write matters where the next start does not repeat the write.
Each signature takes its serial number from the signer's `serial.txt`, which
library-go truncates and writes again; with an empty `serial.txt` the signer
no longer loads. If it is the root (`CrashInSignSubCA`; a provided CA has no
such file), the next start makes another root and keeps the sub-CAs of the
old one. If it is a sub-CA (`CrashInSignCertificate`), the next start makes a
new one and keeps every leaf the old one signed: these are `orphans`, as are
leaves that an interrupted `RemoveAll` leaves behind. A leaf whose own file is
torn does not load and is made again. `ca.crt`, the kubeconfigs and the service
account key are written anew at every start, so that a torn one is never used.

The clock stands still during a start: a start takes seconds, thresholds are
months. `orphans`, `before` and `bootAt` are history variables for the
properties. Not in the model: the contents of keys, the serial numbers
themselves, file permissions, clocks that run backwards (`NotBefore` in the future).

### HubResources

Every call to the API server is a step, in five stages: default namespace,
cluster-info, token, roles, bindings. The roles and bindings are numbered in
their order. A call fails with or without effect (`Fails`), is refused by the
API server (`Refused`), or succeeds. `Accepted` is the API server's part:
create needs absence, update needs presence and an unchanged role reference.
(Kubernetes creates an RBAC object that is updated while absent; nothing
deletes one here, so no update meets an absent object.)
`CreateOrUpdateConfigMap` and `CreateClusterInfoRBACRules` of kubeadm are one
step each: both are idempotent. Two behaviours are in the model without a
property that forbids them. `BuildKubeSystemResources` logs the error of a
stage and returns nil, so `InstallHubResource` reports success whatever
happened (`ocmhubresource.go:30`). And a binding with another role reference
is compared and updated (`hub.go:258-264`), but the API server refuses that
update at every start; `RacesLeaveNothingOut` names it as the exception.

### OcmBootstrap

Three hooks per process run concurrently. `InstallBaseCRDs` and
`WaitFOROCMCRDsReady` visit one CRD per step and begin anew as the polls do;
self-management is a chain of calls in which most errors end the process
(`Fatal`), after which the supervisor starts it again. `Signal` cancels the
hooks' contexts, `Crash` ends the process at once. `Establish` (API server)
and `AcceptCluster` (registration controller) are external. `StableName` is
the configured name, the cluster ID or the UID of `kube-system`; `Names` has
further members for names that are made up. A hook that has started its
controllers or its agent is done: that either may fail later, which ends the
process (`ocmagent.go:121-123`, `ocmcontroller.go:156-233`), is the same as a
`Crash` in the model.

### ClusterRoleAggregation

`store`, `watch` and `cache` are the API server, the watch and the informer;
events reach `cache` first and the handlers (`notify`) later. A worker reads
the role and then each selector's matches in steps of their own, so the cache
changes in between. The selectors of a role are fixed and one label each. The
queue hands out a key to one worker at a time and keeps it dirty if it is
added meanwhile, as client-go's does. The rules keep their order, because the
code compares sequences; `Aggregating`, `AddMatching`, `AddRules` and `AddRule`
are the nested loops of `syncClusterRole` over the selectors, the roles that
one List returns, the rules of a role, and `ruleExists`.

`owners` is the part of a role's `managedFields` that server-side apply looks
at: who owns its rules, the controller, users, or both. The controller applies
with force and so takes rules that change; rules that are the same it shares.
But `toApplyPolicyRules` makes a nil slice of no rules, and the configuration
then has no `rules` field: applying it only gives up the controller's own
claim, and the rules go only if nobody else owns them (`Applied`,
`OwnersAfterApply`). The properties therefore except a role that selects no
rules while users own its own (`Kept`). Such a role keeps granting what its
users wrote, and the controller applies the same empty configuration again at
every event, since its comparison keeps failing.

`Granted` is the reference for a whole chain of aggregated roles: the rules of
the roles at the bottom, which are the plain ones and the kept ones. It is what
`QuietMeansGranted` and `EventuallyGranted` compare the others (`Filled`)
with; the former sets aside roles that aggregate each other (`Acyclic`), which
keep a rule alive among themselves.

### APIServices

`crds`, `svc` and `available` are in etcd, the rest belongs to the process.
`createAggregatorServer` fills the list of services to register and the health
check's pending names; the hook's two goroutines are `ListCRDs`,
`HandleVersionUpdate`, `InitialSync` (the CRD registration controller) and
`RunAutoRegistration`, `SyncAPIService` (auto-registration). Both controllers
are libraries: the model has what the hook relies on, that the first fills the
second's list and signals its initial sync, and that the second deletes a
managed service that is not on its list. A failed call of theirs puts the name
back and is a step that changes nothing. `ResourceEnabled` is evaluated on the
config that `createAggregatorConfig` leaves, which has the aggregator's own
API group only. Notifications to the health check (`events`) may be late;
those of services it does not wait for are left out, since its handler returns
at once. A CRD of a built-in group version is excluded by assumption.

### KubeControllers

`pc` follows `RunKubeControllers` and `Run`: the context, the token controller
with its informers, the other initializers in any order (`todo` is what is
left of the map), the two informer factories, and `InformersStarted`. The
context includes the discovery answer. The hook does not wait until the server
lists all its groups, and an incomplete answer is only logged
(`controllermanager.go:221-224`), so `available` is any part of it. A
controller that looks at it (`Discovering`, which is `clusterrole-aggregation`)
is skipped if its resource is missing, and stays skipped until the process
ends; `Skipped` is what `NobodyIsLeftWaiting` and `EventuallyAllWork` except,
so they say that the others are none the worse for it. An
initializer asks the shared factory for informers (`asked`) and leaves a
goroutine that waits for their caches (`running`, then `working`). The API
server's own hook also starts what the factory has made, at any moment; this
is why `started` may be ahead of the manager. Every error is a `klog.Fatalf`.
The controllers' work is a library's, except the one thing the code decides:
the CSR signer signs with the files of client-ca. `LoadCertificates`,
`RemoveCertificates`, `MakeCertificates` and `RunHooks` are steps of
`TrustDomain`, so a client certificate meets exactly the rotations that
`CertChains` is proved to make. `lost` records the key pairs of client-ca that
went before they were due, because the root was due or because a start died
while client-ca signed.

### Authentication

Several processes share the data directory. A start empties the key file,
writes a new key, and reads it for the issuer (`Complete`), the verifier
(`BuildGenericConfig`), the published keys (`CreateServerChain`) and the token
controller; an empty file ends it. With the embedded etcd it waits between the
first and the second read until no other process has the database. A token
remembers the key and the start that minted it, and whether another process
had written the file meanwhile (`meddled`). A deployment gives the
authorization modes and the anonymous flag; `ToAuthorizationConfig` returns an
empty configuration when it fails. For the delegating authenticator the
hosting cluster's verdict on one token, a review in flight and the cached
answer are kept with timers that count down, so no clock bounds the model;
`RunOnce` finds an empty cache and only `Run` brings the client CA.

### Agent

`main`, `agent` and `manager` are the command, the goroutine of `RunAgent` and
that of the add-on manager. `ensureCRDs` gets and writes one CRD per step; a
write that lost a race is refused and ends the process, as every error does.
Note that `go utilruntime.Must(config.RunSpokeAgent(...))` (`agent.go:160`)
evaluates `RunSpokeAgent` before it starts the goroutine, so `RunAgent` runs
the spoke agent itself: an error panics there, and a context that the library
cancelled lets `RunAgent` return nil. The command then waits for a signal with
no agent (`"returned"`); `EventuallyRuns` says so instead of excluding it.
`overwritten` records that another release applied its CRDs later. A write that
took effect although its answer was lost is not a step of its own: it ends the
process like any error, and the next start finds the CRD as it would have
written it.

## 3. Runs

| run | result | what it shows |
|---|---|---|
| CertRotation | holds | chains and kubeconfigs verify in every serving state, but for leaves whose CA a crash made unloadable; nothing expires in use, no lookup of a rebuilt signer fails, and `CertChains` implements `TrustDomain` |
| CertProvided | holds | a provided CA issues every sub-CA a start makes, with the two exceptions below; nothing is swapped early; the process always gets to serve again |
| CertPeerLost | violated | rotation after a restart loses etcd's peer certificate |
| CertProvidedSwap | violated | a CA provided over sub-CAs on disk does not sign until they are due |
| HubInstall | holds | no error means everything is installed, races leave nothing out, one token per start; without failing calls the hooks finish and everything stays installed |
| Bootstrap | holds | order of CRDs, controllers, acceptance and agent; every fatal exit has a cause; every controlplane ends up managed |
| Aggregation | holds | when the controller is quiet every role is aggregated and has each rule it should have once, through every chain of aggregated roles it grants exactly what lies below it, and it comes to do so; roles whose rules are left to their owner excepted |
| APIServices | holds | health means registered and available; in the end exactly the right services are stored |
| APIServicesNoWait | violated | the service of an existing CRD is deleted at a restart |
| KubeControllers | holds | `InformersStarted` means every controller that was not skipped runs on started informers; client certificates are refused early only when something was due or a start died while client-ca signed; all controllers that were not skipped get to work |
| Authentication | holds | tokens follow the key of their start, nobody serves without its authorizers, cached verdicts age out, the hosting CA is followed |
| Agent | holds | a running spoke agent has its release's CRDs; every process comes to run |

Each passing run explores between 0.1 and 1.5 million states in at most about
three minutes.

The comment in `InitCerts` that names "KAS serving CAs" among the CAs that
should not be swapped is not taken as a promise: `server-ca` has the short
validity and is rotated like the others, early only together with the root
(`SwapsOnlyDue`).

The violated runs state what a comment, a test or the README says; the
findings in `PROJECT.json` quote the lines. README.md:94 of the repository
says that a provided CA signs all serving and client certificates. There are
two cases in which it does not, and `ProvidedCASigns` says exactly which: the
sub-CAs that a start finds on disk are loaded whoever issued them and stay
until they are due (the trace of CertProvidedSwap), and a provided CA that is
due and alone in its file is replaced by a self-signed `root-ca`, which then
issues all sub-CAs.

`ServedChainsVerify` and `KubeconfigsVerify` have one
exception, `orphans`: a crash inside `RemoveAll`, or while a signature rewrites
`serial.txt`, may make a sub-CA unloadable and leave leaves of it, which later
starts load without looking at their signer.
`OneSelfCluster` has another, `misnamed`: a name made up because the hosting
cluster failed to answer. `AcceptedByItsStartOnly` has `meddled`: two
processes that start together on one directory may mint tokens they refuse
themselves. All are real behaviours of the code that no document excludes, so
the properties name them instead of hiding them.

### Bounds

- Certificates: two sub-CAs, one with a peer leaf and one with a serving leaf
  and the kubeconfig leaf, so that a rotation of one CA meets the leaves of
  the other. Validities 4 and 9, thresholds 2 and 4 ticks keep the order of
  the real values (12, 60; 7, 18 months); `MaxClock` lets each CA become due
  or expire, the root included, `MaxStops` allows two crashes, the second
  while recovering from the first. Liveness is checked with provided CAs, one
  host name (and so without the serving leaf, which then is like any other), a
  short validity of 3 and a shorter clock, which lets the sub-CAs become due
  first and the provided CA after them. A
  provided CA has one certificate in its
  file or two, which decides whether `regenerateSelf` is called.
- Hub: two controlplanes, one role and two bindings (as in the code), two
  failures and two stops. A race needs two processes; the second binding
  shows what a failed stage skips.
- Bootstrap: two CRDs, awaited in another order than they are applied, two
  controlplanes, one failure and one stop or signal; two names, so
  that a made-up one exists.
- Aggregation: three roles in a chain, two labels, two rules, two workers, one
  edit, one failing write and one restart. The controller owns the rules of
  the role in the middle, and shares those of the one on top with users, so
  that both outcomes of an empty selection occur when the plain role below
  loses its label. One edit at the bottom of the chain
  is enough to make each role above it stale in turn, while both workers hold
  results of before.
- API services: a built-in group version, one of an earlier release, and one
  that a CRD defines and an unprioritised path names; three edits, so that a
  CRD is deleted and created again, and two restarts.
- Controllers: the token controller and three others with shared informers:
  the garbage collector, the CSR signer, and cluster role aggregation, which
  an incomplete discovery answer skips; three key pairs of
  client-ca, so that one start replaces it twice or two starts once; a clock
  that makes it due; one error and one stop.
- Authentication: two processes, three keys, four deployments (AlwaysAllow
  with anonymous requests, delegation in and outside of a cluster, a repeated
  mode, both kinds of etcd), `CacheTTL` and the review's timeout of one unit
  each, one change of the hosting CA. Three keys allow a restart of one
  process, or of both in turn, beside a live one.
- Agent: one process of each of two releases, two CRDs, two errors, one
  signal, one cancelled agent.

Runs whose bounds make the system stop (`MaxStops`, `MaxClock`, `MaxEdits`)
turn the deadlock check off.

### Fairness

- `CertChains`: the process as a whole is weakly fair: it is restarted by its
  supervisor (a Deployment) and a start waits for nothing. No fairness for the
  clock, stops or crashes.
- `HubResources`: the steps of each process' hook other than failing calls,
  and the API server's controller for the system namespaces.
- `OcmBootstrap`: each hook is a goroutine of its own and weakly fair by
  itself; so are the supervisor, `Establish` and `AcceptCluster`. Failures,
  signals and crashes are bounded and have none.
- `ClusterRoleAggregation`: informer, handler, retry timer and each worker.
- `APIServices`: the supervisor, the informers, each controller's worker pool
  and the availability controller; none for edits and stops.
- `KubeControllers`: the hook's goroutine, the API server's hook, each
  informer and controller, and the steps of a start; none for errors, stops
  and the clock.
- `Authentication`: the hook that starts the delegation and its goroutine. A
  start may wait for etcd for ever, so there is none for it.
- `Agent`: the kubelet, and each goroutine's steps; none for signals and the
  library's cancel.

## 4. Proofs

The proofs hold for every value of the constants that satisfies the named
assumptions: any finite or infinite set of sub-CAs, leaves and controlplanes,
any validities and thresholds in the right order, any number of steps.

`CertChains_proofs` proves `TypeCorrect`, `ChainsVerify`
(`ServedChainsVerify`), `KubeconfigsMatch` (`KubeconfigsVerify`) and
`LookupsNeverFail` (`LookupsSucceed`). A property of the serving state is not
inductive, because it says nothing of the many states of a start. The
inductive invariant `IInv` has a part for each thing that must hold on the way:

- `SignedByCA`: a leaf on disk was signed by its CA on disk unless it is an
  orphan or the CA is gone;
- `ControlInv`, `CAInv`, `LeafInv`: which queues are empty at which step, and
  which CAs and leaves are complete by then;
- `PeerInv`: peer certificates, which restarted signers do not know;
- `BundleInv`, `KubeconfigInv`: bundles and kubeconfigs written so far in this
  start agree with the CAs of this start;
- `PlanInv`: a leaf on the list stays registered while CAs before it on the
  list are rebuilt. This is what makes `LookupsSucceed` true.

It also proves `Refinement` (`CertChains` implements
`TrustDomain`), `SwapsNothingEarly` (`SwapsOnlyDue`), `ServesNothingExpired`
(`NoneExpiresInUse`) and `ProvidedRootSigns` (`ProvidedCASigns`). For the
refinement every action is shown to be one abstract step or a stutter; the
invariant `DueInv` is what that needs: the snapshot `before` still describes
what is on disk until something listed is replaced, and only what was due is
listed. `RenewedInv` says that after the walk everything is fresh enough or
still on the list, also while a rebuilt CA waits for its leaves. `ProvidedInv`
has the two cases of a provided root: one that was not due stays the root and
is never listed, and a sub-CA then is as it was found or issued by it; one that
was due is on the list, being replaced or (if it is alone in its file)
replaced already, and every sub-CA is issued anew or still to come. A crash
ends the start, so its cases only have to keep what is said of the disk:
`Loses` shows that each of the four is a `Lose` or a `Stop` of `TrustDomain`.

`HubResources_proofs` proves `TypeCorrect` and `NoErrorInstalls`
(`InstalledUnlessFailed`). `ProgressInv` says what a hook without errors has
done at each step; the lemma `Monotone` says that no process undoes what
another has done, and so carries one process' progress over the steps of the
others. `TokensBounded` (`OneTokenPerStart`) counts the hooks that have yet to
make their token: tokens and these together never exceed the starts.
`LosersAreCovered` (`RacesLeaveNothingOut`) is the argument that a race has a
winner. `FrontInv` says that of the items not yet in place the first is
always ahead of some process that has not given up its stage, or is an old
role reference; `SeenInv` (what a Get saw bounds what can be there now),
`PrefixInv` (a process has everything before its own item in place) and
`StageInv` keep it so, and `BaseInv` covers the stages without items.

`APIServices_proofs` proves `TypeCorrect` and `HealthMeansRegistered`
(`HealthyWhenRegistered`). A notification that is on its way could be outdated
when it is handled; `RegisteredInv` (built-in services stay on the list while
the process lives) makes it impossible that they are deleted, so `EventsInv`
(what notifications say is still true) and `SeenInv` (what is no longer
pending is available) are inductive.

`OcmBootstrap_proofs` proves `TypeCorrect`, `ControllersWaitForCRDs`
(`ControllersAfterCRDs`), `AgentWaitsForAcceptance` (`AgentAfterAcceptance`)
and `RegisteredOnce` (`OneSelfCluster`). `WaitInv`: what the wait has passed
is established and stays so, unless the wait was cancelled. `AcceptInv`: only
controllers that waited accept a cluster. `NameInv`: without a made-up name
there is one name everywhere. `ExitsHaveCauses` (`FatalsHaveCauses`) is proved
by keeping books. `CausesInv` adds to the exits so far the processes that may
still end themselves for a cause that is in the books already: those whose
Create comes too late (`LateForNamespace`, `LateForCluster`) and those whose
context is cancelled (`Stopping`). Exits and dues together never exceed what
failed calls, stops and objects pay for, where an object pays for every
controlplane but the one that created it. `ServedInv` (there is no cluster
without the served API) keeps a hook that saw "not found" because of a missing
CRD out of the dues.

`ClusterRoleAggregation_proofs` begins with what `syncClusterRole` computes.
`AggregateIsUnion` says that its nested loops end with the rules of the roles
that some selector matches, each once, for any lists of names, selectors and
rules. The provers cannot use the library's induction theorems on an operator,
so `BoundedInduction` states induction as a fact about sets of indices, from
the least element of a set of naturals; `LoopExists` uses it to show that each
loop's recursive definition has a value, and the content of each loop follows
round by round. For the controller itself the inductive invariant has three
parts beside the type, which includes that no role is with two workers.
`Lagging`: replaying the events on their way turns the cache into the store.
`DueInv`: when no event is left, an aggregated role is queued, waits for a
retry, has its rules, selects none and is left to its owner, or is with a worker that is `Fresh`, whose reads so far
are what the cache says now, so that it will notice. `NoRulesYet`: a worker
starts from nothing. An apply that changes no rules sends no event, so nothing would look at the
role again: `SilentApply` shows that it takes no claim of the users away. At rest only "has its rules" and
"is left to its owner" remain (`AtRestUnion`), which gives
`RestMeansAggregated` (`QuietMeansAggregated`), and with `AggregateIsUnion`
also `RestMeansUnion` (`QuietMeansUnion`). `RestMeansGranted`
(`QuietMeansGranted`) follows the chains to their end. `GrantsLayers` unfolds
`Grants` one layer at a time; where every role has the rules of the roles it
selects and no role aggregates itself through others, `LayersReachTheBottom`
shows by induction on the rank that a role of rank n has what the n-th and
every later layer says, and no rank exceeds the number of roles. The invariant says nothing while
events are on their way: then a role may be served with rules from a stale
read, and only the event that is due repairs it.

`KubeControllers_proofs` proves `TypeCorrect`, `ClosedMeansFed`
(`NobodyIsLeftWaiting`) and `CertificatesSurvive` (`RefusedOnlyWhenDue`).
`StartInv` ties `pc` to what has been asked for and started; `CertInv` says
that a certificate ends with its signer, and that one whose signer is gone or
about to go was due or is in `lost`. It uses of the certificates only what `TrustDomain`
allows, so with `Refinement` it holds of the code's rotation.

`Authentication_proofs` proves `TypeCorrect`, `TokensFollowTheKey`
(`AcceptedByItsStartOnly`), `ServedAsConfigured` (`ServesAsConfigured`) and
`BoundedStaleness` (`StaleForLessThanTTL`). `KeyInv`: as long as nobody
meddled, the file and everything a start read from it is the key it wrote.
`ConfigInv`: what the options have become at each step. `LagInv`: an outdated
answer in flight or in the cache has no more time left than its age allows.

`Agent_proofs` proves `TypeCorrect` and `SpokeHasItsCRDs` (`CRDsAsApplied`)
from `FileInv` (where `RunAgent` is tells which CRDs it has applied) and
`AppliedInv` (they are there, or another release came later).

Only model-checked: the properties under fairness (`EventuallyServes`,
`EventuallyInstalled`, `EventuallyManaged`, `EventuallyGranted`,
`EventuallyRegistered`, `EventuallyAllWork`, `EventuallyFollows`,
`EventuallyRuns`), since neither `ENABLED` nor liveness is within the prover's
reach. Every invariant and action property of the passing runs is proved.

## 5. Not modelled, and the plan

Left out, and why:

- admission plugins: stateless conversions around OCM's webhooks;
- flags and defaults of the options, service address ranges, OIDC, webhook and
  request-header settings: they fill library configurations and change no
  state the models have;
- construction of the API server's library configurations, and everything the
  libraries do with them;
- `updateClusterRoles`, the fallback of the aggregation controller
  (`clusterroleaggregation.go:142-148`): it needs an API server without
  server-side apply, and this one is the same binary;
- the Kubernetes and OCM controllers that come as libraries, logging, and the
  performance tests.

What could follow: an abstract specification of "apply until installed" for
`HubResources`; refinements of `KubeControllers` and `OcmBootstrap` to one
picture of all post-start hooks.

## 6. Running

    tlc -config CertRotation.cfg MCCertChains
    tlapm CertChains_proofs.tla

Each run's module and properties are in `PROJECT.json`, with a mutant of the
model for every property that holds: a change a plausible bug would make,
under which TLC finds the property violated.
