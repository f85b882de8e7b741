# kany8s in TLA+

A verification project for kany8s: TLA+ models of its controllers, TLC runs on
small instances, and proofs for every instance. Paths are relative to the
repository (`src/` in `PROJECT.json`). Every modelled definition names the
source lines it stands for in the `map` of `PROJECT.json`.

## 1. The system

kany8s provisions managed control planes (EKS and others) behind Cluster API. A
facade object, `Kany8sControlPlane`, hides one of three backends; a set of EKS
plugins completes what CAPI and kro do not do.

| Part | Source | State it keeps | Operations |
|---|---|---|---|
| Facade controller | `internal/controller/kany8scontrolplane_controller.go` | endpoint and status of `Kany8sControlPlane`, the backend object, the `<cluster>-kubeconfig` Secret | one Reconcile with a branch per backend: kro, external, kubeadm |
| Dynamic watcher | `internal/dynamicwatch/watcher.go` | registered informers, event channel, pending map | `Start`, `EnsureWatch`, event handlers, flush loop |
| Kubeadm control plane | `internal/controller/controlplane/` | `Kany8sKubeadmControlPlane`, certificates, kubeconfig, KubeadmConfig, infrastructure machine, Machine | Reconcile |
| Kubeconfig rotator | `internal/controller/plugin/eks/rotator_controller.go`, `internal/plugin/eks/` | two Secrets with a short-lived token | Reconcile, requeue policy |
| Karpenter bootstrapper | `internal/controller/plugin/eks/karpenter_bootstrapper_*.go` | a chain of ACK, Flux and ClusterResourceSet objects, annotations and a finalizer on the Cluster | Reconcile: bootstrap and deletion |
| Infrastructure cluster | `internal/controller/infrastructure/` | `Kany8sCluster` status, a kro instance | Reconcile |
| OCM awsirsa bootstrapper | `internal/controller/plugin/eks/ocm_awsirsa_bootstrapper_controller.go` | ACK IAM Roles, by hub, shared by the Clusters of one EKS cluster | Reconcile |
| Event dedupe | `internal/controller/plugin/eks/event_dedupe.go` | a bounded, expiring map | "emit this event?" |
| Helpers | `internal/kro`, `internal/endpoint`, `internal/kubeconfig`, `internal/plugin/eks/kubeconfig_builder.go`, cluster index, names, metrics | none | pure functions |
| API types, webhooks, entry points | `api/`, `cmd/` | none | validation, wiring |

**How the parts interact.** There are no calls between controllers; all of them
share objects at the API server. The facade creates the kubeadm control plane
and reads its status; it asks the dynamic watcher for events of backend objects,
whose kinds are known only at run time. The rotator writes the Secret through
which Flux and the bootstrapper reach the workload cluster. Controllers read
typed objects through informer caches and unstructured objects and Secrets
directly from the server, and write with merge patches that carry neither
`resourceVersion` nor `uid`.

**What is hard.** Stale caches under merge patches; several patches per run, any
of which may fail; objects that are read but not watched, so that only polling
notices them; goroutines around the event channel; delete and create under one
name; tokens that expire; a deletion that races Karpenter, Flux and EC2. The
`hazards` of `PROJECT.json` list each at its line, with the properties that
speak of it.

**What makes each part correct.**
- *Facade*: the published status is, at rest, the projection of the backend, and
  it converges to it; `Ready=True` never precedes endpoint and initialized;
  initialized is never taken back.
- *Watcher*: no notification is lost, every registered informer is started,
  every notification is delivered in the end.
- *Kubeadm control plane*: the Machine comes after everything it needs; ready
  comes after initialized; at rest all parts agree; it becomes ready.
- *Facade and kubeadm control plane together*: what users find ready has been
  built, and nothing rests before both objects and what was built agree.
- *Rotator*: the token does not expire; no foreign Secret is overwritten; it
  never falls asleep.
- *Event dedupe*: the event shown last is the true one, a lasting problem is
  repeated, the cache keeps its limit.
- *Karpenter bootstrapper*: nothing is made that the deletion would not find;
  foreign objects are kept; it converges; a Deployment is recorded as restarted
  only if it is; the finalizer goes only when the nodes are gone, and it goes.
- *Infrastructure cluster*: at rest `provisioned` and Ready are what the instance
  reports; an instance never exists without the identity its schema asks for; the
  object converges.
- *OCM bootstrapper*: no foreign Role is changed; the long wait is only taken
  behind a Role that is as the Cluster needs it, or that was taken away where its
  events do not reach; every Cluster has its Role in the end.

## 2. Modules

| Module | Models | Checked and proved in |
|---|---|---|
| `ControlPlaneContract` | what Cluster API relies on: endpoint, then the initialized latch, then Ready; an abstract specification | |
| `ControlPlane` | the facade's Reconcile, call by call, the object's versions from cache to server, the backend, the Secrets, the queue | `MCControlPlane`, `ControlPlaneProofs` |
| `KubeadmControlPlane` | the kubeadm control plane's Reconcile | `KubeadmControlPlaneProofs` |
| `SelfManaged` | the two together, over the object and the cache they share | `MCSelfManaged`, `SelfManagedProofs` |
| `EventDelivery` | what the watcher promises: an abstract specification of two sets | |
| `DynamicWatch` | the watcher's goroutines | `MCDynamicWatch`, `DynamicWatchProofs` |
| `InfraCluster` | the infrastructure cluster's Reconcile, stub and kro mode | `InfraClusterProofs` |
| `KubeconfigRotator` | the rotator against a clock | `RotatorProofs` |
| `EventDedupe` | the event cache as an operator on a set of entries | |
| `RotatorEvents` | the rotator with its events, and other Clusters at the same cache | `MCKubeconfigRotator`, `RotatorProofs` |
| `OCMBootstrapper` | Clusters that share an ACK cluster and its Roles | itself, `OCMBootstrapperProofs` |
| `KarpenterBootstrapper` | bootstrap and deletion, with Flux, Karpenter and EC2 around them | `MCKarpenterBootstrapper`, `KarpenterBootstrapperProofs` |

The modules meet at three interfaces. `ControlPlane!DeliverEvent` relies on
`EventDelivery`: an event may be coalesced or repeated but is delivered
(`instEvent` is `owed` for the one object); `DynamicWatch` is shown to implement
that. `ControlPlane` and `KubeadmControlPlane` both implement
`ControlPlaneContract` (`KeepsContract`), the one for Cluster API, the other for
the facade: `ControlPlane!KubeadmAssumption`, which restricts the statuses a
kubeadm backend shows, is what the contract of `KubeadmControlPlane` says of
them. And `SelfManaged` does without that assumption: there the backend's status
is what the other reconciler wrote, seen through caches that are behind.

### How state and actions correspond to the code

*One worker, one object.* controller-runtime runs at most one Reconcile per key.
`pc` is the next call of the running Reconcile, `w` its local variables. Each
API call is an action; code between two calls belongs to the call before it or
after it. The environment may act between any two calls.

*Caches.* `hist` (in the bootstrapper `log`) holds the object's versions from
the cached one to the server's; `CacheAdvance` delivers one, which enqueues the
object. Typed objects that are not watched have a second variable for the cached
copy (`view`, `configView`, `machineView`). Unstructured objects and Secrets are
read live, as the managers are configured.

*Writes.* `MergePatch` writes the fields in which the wanted object differs from
the local copy; lists are one field. `Status().Update`, `Update` and `Create`
are refused on a copy that is not the server's.

*Queue.* `queued` is a request in the queue, `timer` a RequeueAfter or a
rate-limited retry. In the rotator time is a variable and `due` the time of the
earliest request, as `AddAfter` keeps it.

*ControlPlane.* `StartReconcile`, `ResolveRGD` / `ReportRGDFailure`,
`EnsureWatch`, `SyncBackend` (CreateOrUpdate and the read of the status),
`CheckKubeconfig` / `WriteTarget` / `ReportKubeconfig`, `PatchEndpoint`,
`PatchInitialized`, `PatchConditions`. `CallFails`, `PatchNotFound` and
`Restart` end a run anywhere. `CacheAdvance` delivers a version of the object
(`hist`) or of the kubeadm backend (`view`). The external backend's spec is
rebuilt on every run, so the cluster identity (`ident`) goes with the owner
Cluster.

*SelfManaged.* Its steps are those of the two modules. `inst` is what the facade
sees of the last version of the kubeadm object (`Reflected`), `view` what it sees
of the cached one; `FacadeSyncs` appends the facade's write to the versions
(an Update on a cached copy is refused when the reconciler has written since),
`KubeadmSteps` turn into events of the dynamic informer, and one step of the
typed cache (`ObjectAppears`, `ObjectAdvances`) serves both reconcilers. Without
`"rollback"` in `KChanging` users only go forward (`Forward`).

*DynamicWatch.* Every section under `w.mu` is an action, and so is every
non-blocking send between two sections: `enqueue` is `Enqueue`, `EnqueuePending`
and `SignalFlush`; `flushPending` is `FlushPick`, `FlushSend` and `FlushDelete`. An event carries the number of its
notification, the pointer identity that `flushPending` compares.

*KubeadmControlPlane.* Steps in the order of Reconcile, `StartReconcile` to
`PatchReady`; what Reconcile waits for is an environment variable. The
probe and the Machine's readiness may only come once the cache shows the
Machine (the Machine takes far longer to come up than the cache to see it); the
infrastructure endpoint does not change once it is set, as CAPI demands.

*InfraCluster.* `ResolveRGD` and `CheckSchema` are the two reads of the
definition, which may change between them; `ReadOwner`, `SyncInstance`,
`ReadInstance` and `PatchStatus` follow Reconcile. `Wait` is the common path of
everything that is not there yet: not provisioned, a reason, a requeue.

*KubeconfigRotator.* `GetSecret` and `WriteSecret` run twice, for the probe and
the exec Secret; `Failed` is every path that ends with an error or
FailureBackoff.

*EventDedupe, RotatorEvents.* `shouldEmit` holds the mutex from its first line to
its last, so `ShouldEmit` is one step: the cache is compacted, looked up, written
and fitted to its limit (`Fitted` is a choice where entries are of one age, as
the order of a Go map is). Every action of `RotatorEvents` is one of the rotator
with what it says; a restart empties the cache, `OtherSays` is what another
Cluster's run does to it.

*OCMBootstrapper.* One worker for all Clusters that name one ACK cluster; a Role
belongs to a hub. `GetRole` and `WriteRole` are the halves of
`upsertManagedUnstructured`, `SetRole` also maps the event of a Role to the
Cluster in its label. `MapACKEvent` maps the ACK cluster's event through the
cache. `timer` keeps apart the retry, the wait on a foreign Role and the long
wait on a reconciled one; `watching` says whether the APIs were there when the
manager started. Users make, delete and hand over any Role (`UserActs`,
`TakeAway`). The auxiliary `untold` records for whom that had no event: the
owners that the label of a managed Role did not name, and all owners of one that
is no longer managed, until they read the Role again.

*KarpenterBootstrapper.* `Steps` is the order in which Reconcile makes managed
objects; `GetResource` and `WriteResource` are the two halves of
`upsertManagedUnstructured`. OIDC provider, policies, roles, instance profile
and AccessEntry behave alike and are a chain (`Chain`) of any length. An object
is absent, foreign or managed; a managed object has the wanted contents.
Deletion follows `reconcileDeletingCluster`: suspend Flux, resolve the region,
stop Karpenter (best effort), describe and terminate instances, delete orphan
interfaces, remove the finalizer. The region is one bit for the two annotations
written together. A ConfigMap read through a stale cache shows as a failing
write.

## 3. Runs

| Run | Question | Result |
|---|---|---|
| `kro` | Does the facade on a kro backend keep the contract, is its status right at rest, does it converge? | `KeepsContract`, `SettledIsProjected`, `Converges` hold |
| `external` | Is it right at rest with the kubeconfig copied from unwatched Secrets, and when the object is created again under its name? | `SettledIsProjected` holds |
| `selfmanaged` | Is a ready self-managed control plane built, does nothing rest too early, over the cache and the informer between facade and kubeadm reconciler, if no version is taken back? | `ReadyIsBuilt`, `SettledIsBuilt`, `KeepsContract` hold |
| `kubeadm_cp` | Order of creation, the contract, consistency at rest, progress | hold |
| `watch` | Does the watcher lose events or informers, does it deliver? | no loss, `EventDelivery` is implemented |
| `infra` | Does the infrastructure cluster mirror its instance at rest and in the end, and is the instance identified? | yes, for instances that stay ready |
| `ocm` | Is the long wait deserved, is a foreign Role kept, does every Cluster get its Role in the end? | yes, but for the Clusters that a deletion of a shared Role did not reach (`untold`); yes; yes |
| `rotator` | Does the token expire, is a foreign Secret overwritten, does it sleep; are the events true, repeated and bounded? | no; yes |
| `karpenter` | Is everything that is made guarded by finalizer and region; are foreign objects kept? | yes |
| `karpenter_live` | Does the bootstrap converge, are restarts recorded truthfully? | yes |
| `karpenter_delete` | Is the finalizer held long enough, and not for ever? | yes |
| `karpenter_groups` | Are both security group variables patched? | no: the finding of section 4 |

**Bounds, and why they are enough.** `MaxEnv` (changes of the environment)
of 3 to 4 lets every kind of change meet every other in the facade and the
infrastructure cluster; the kubeadm control plane waits for five things, and a
`MaxEnv` of 6 leaves it an upgrade beside them; `MaxFail` of 1 or 2 puts a failing
call or a restart at any point. `MaxLag` of 3 lets a cache be two versions
behind, as a deletion and a re-creation leave it (`external`, `kubeadm_cp`); it
is 2 in `kro` and `infra`, which check liveness as well, and in `selfmanaged`,
where two caches are behind at once. `MaxUid` of 2 is one re-creation. In
`selfmanaged` `MaxFail` is 0: a restart of the manager would empty both queues
and both caches in one step, and what it does to each reconciler is in the runs
of the parts. `kubeadm_cp` has three versions, so that on the way an upgrade can
overtake another one.

A channel of capacity one with two notifications per object and two objects
that share a handler fills the channel, replaces a pending entry and drops a
flush signal. `ocm` has two Clusters, two hubs and two issuers: the least at
which a Role is shared, a label goes to another Cluster and a hub or an issuer is
exchanged. One of the two starts switched off with an old long wait (`Off`), so
that the two events are enough for the hard cases: it is enabled while the ACK
cluster's issuer changes, and the event is mapped through a cache that misses it;
or it is enabled, overwrites the label, and the shared Role goes. The Clusters
are not reduced by symmetry, as liveness is checked; for longer histories there
are the theorems. In `rotator` one unit is about a minute;
RefreshBefore is just what the assumed failures need (`MaxLost` 2 and `Delay` 1),
so that a rotation one unit later would be caught, `MaxTime` covers a whole
life of a token (`Life` 6), and a cache of one entry (`MaxEntries` 1) with a
window of one unit is full, expired and evicted in every run. The theorems say
the same for every clock, life, window and cache size.

The bootstrapper's runs take one object for the chain; `karpenter` has all
prerequisites reported, one action of a user and a cache that may be one version
behind, `karpenter_live` all reports in any order and one failure,
`karpenter_delete` starts from the bootstrapped state (`Installed`) with two
instances, one more than are needed for one to be launched behind a Describe.

`CHECK_DEADLOCK FALSE` stands where the system comes to rest: a controller with
nothing queued, users and failures used up (or the clock at `MaxTime`), in `ocm`
once all Clusters are disabled or gone. The watcher never rests (its ticker runs),
and its run checks deadlock.

**Fairness.** Weak fairness of the worker (the queue hands out every request),
of informers (`CacheAdvance`, in `ControlPlane` for each of its two caches;
`ViewAdvance`), of queue timers, and of the event delivery, which `DynamicWatch`
justifies in turn from its goroutines and the flush ticker. `InfraCluster`
and `KubeadmControlPlane` assume nothing else. `ControlPlane` adds the garbage
collector and the re-creation of a deleted object; the bootstrapper what AWS,
ACK, Flux and the rotator have begun (`Reports`, `FluxStarts`, `HelmInstalls`, `HelmReports`, `AWSProgress`).
`OCMBootstrapper` has several Clusters at one worker: the work queue is first-in
first-out, so that a Cluster that keeps being requested while others are served
is taken in the end (strong fairness of `StartReconcile` for each Cluster), and
its timers run (weak fairness).
Nothing is assumed of users, backends or failures: they are finite by their
bounds, and liveness is about what follows them.

## 4. Findings

**The second topology patch is not retried** (`karpenter_groups`). Both variables
are patched inside the branch for empty node security groups; after the first
patch the branch is skipped. If the second patch fails, the control plane's
variable stays empty, although `docs/eks/fargate/README.md:38` says it is filled.

**Observations.** These are stated as definitions, or explained here, and not
run.
- `ControlPlane!VersionIsObserved`: `status.version` takes the new version while
  the backend's status is still about the old one.
- `ControlPlane!IdentityIsPassedOn`: a run that does not know the owner Cluster
  writes the backend without the Cluster's identity, an external one even if it
  had it; the Cluster is not watched, and a ready backend is not retried, so that
  it never gets what `docs/adr/0011-extensible-controlplane-backends.md:217` says
  is injected (the `external` instance refutes it).
- `ControlPlane!InitializedNeedsEndpoint`: a status patch for a deleted object
  marks its successor initialized before it has an endpoint (`MaxUid = 2`).
- The facade learns of its kubeadm backend from the dynamic informer and reads it
  from the typed cache. If the backend went from ready to something else, an
  event that overtakes the cache would be consumed on the old status, and the
  cache's own update wakes nobody. `SelfManaged` shows that the kubeadm
  reconciler as it is never does that to a control plane that was built.
- The facade compares the version it wants with the cached backend
  (`internal/controller/kany8scontrolplane_controller.go:395`), whose update
  in the cache wakes nobody (`:986` watches the facade's own objects, and the
  backend by the dynamic informer only). Let users go to `v2`, back to `v1` and to
  `v2` again before the cache has seen the first step's write: the last run finds
  `v2` in the cache, writes nothing and rests, and the backend stays at `v1`,
  although `docs/adr/0011-extensible-controlplane-backends.md:114` has the facade
  enforce `.spec.version`. `SelfManaged!SettledIsBuilt` is false with
  `"rollback"` in `KChanging` and room for three edits of the version behind a
  ready Machine; the run and the theorem leave it out.
- `KubeadmControlPlane!VersionIsMachines`: the patch of the Machine is the
  difference to a cached copy
  (`internal/controller/controlplane/kany8skubeadmcontrolplane_controller.go:573`).
  If the cache has not yet seen an upgrade, its rollback is an empty patch, and
  Machines are not watched.
- `InfraCluster!ProvisionedMirrors`: `docs/adr/0005-capi-contract-reflection.md:30`
  has `provisioned` mirror the instance's `status.ready`; a ready instance is
  neither watched nor polled
  (`internal/controller/infrastructure/kany8scluster_controller.go:171`), so that
  it stays provisioned when the instance degrades. Also, `provisioned` and the
  Ready condition are merged field by field and may disagree between two patches
  from outdated copies.
- Clusters of one EKS cluster and hub share a Role, whose label names the one that
  wrote it last. An event of a Role reaches the Cluster in the label only
  (`internal/controller/plugin/eks/ocm_awsirsa_bootstrapper_controller.go:399`),
  and only if the Role is managed: when users delete a shared Role or hand it over,
  the Cluster in the label is told, the others wait for the long requeue. If
  the first no longer wants the Role, the others are without one until then;
  likewise any Cluster whose handed-over Role is deleted. `SteadyIsProvisioned`
  leaves out just these (`untold`); `Provisions` shows that the requeue repairs
  them.
- `OCMBootstrapper!LabelSettles`: Clusters that share a Role each write their own
  name and tags into it, and each write wakes the Cluster in the label before.
  They rewrite the Role in turns, forever (an instance refutes it under
  `FairSpec`).
- A Cluster whose hub changes leaves the Role of its old hub behind until the
  Cluster is deleted.
- The event cache keeps one signature per Cluster. A run that reports two
  different events defeats it on every run
  (`docs/eks/fargate/todo-improvements.md:21` wants repetitions suppressed).
- `KarpenterBootstrapper!NoOrphanENI`: an interface that is still attached when it
  is described outlives the finalizer, provided EC2 may complete a detachment
  after the instance is reported terminated.

## 5. Proofs

Checked by TLAPS for every value of the constants that satisfies the modules'
assumptions. The bounds of the runs are constants, so the theorems hold for any
number of changes, failures, versions, objects, Clusters and callers.

**`ControlPlaneProofs`.** `TypeCorrect`: type invariant. `ReadyBacked`: for
`MaxUid = 1`, Ready=True implies initialized and a valid endpoint. Ready backed
at the server alone is not inductive: a patch from an old copy could bring
`Ready` without the endpoint. `BackedInv` adds that versions in `hist` are ordered
(`Later`: endpoint and latch are never withdrawn along them), that every one of
them and the worker's copy is backed, that the copy is no later than the
server's object, and that between `PatchEndpoint` and `PatchConditions` the copy
already has what is about to be published as ready. The assumption is needed:
with a re-created object the copy is later than its successor, and the property
fails. `InitializedLatched`: as an action property, from the type invariant; no
action clears the latch because a merge patch only sends what changed in the
copy, and the one whole-status Update is refused on an outdated copy.
`ContractKept`: from `BackedInv`, every step is one of `ControlPlaneContract` or a
stutter, for every kind of backend.
`SettledProjected`: that nothing is lost on the way to rest. `RestInv` is true
of every state in which only the worker's own timer is left to make it run again
(`Calm`: no request, no event of the backend, the cache up to date): the worker's
copy is the server's object (`Current`), what this run has read and written so
far is still so (`Progress`: the path it took, the backend as it wrote and read
it, the Secret, the fields already patched), and a worker that left no timer left
`Outcome` behind (`Final`). Every change from outside either ends `Calm` or does
not touch what is claimed; the one call that could fail silently, the watch, is
the reason why `PathTaken` carries `watch` or a noted error. The theorem assumes
`Backend # "kubeadm"`: there the status is read from a second cache, which an
event of the dynamic informer may overtake (section 4), and `Calm` would say
nothing of it; `SelfSettledBuilt` has that case. It holds for any `MaxUid`: a re-created object is found again by
its own event.

**`KubeadmControlPlaneProofs`.** `TypeCorrect`. `ContractKept`: the same contract
by the same argument over this controller's patches, which makes
`KubeadmAssumption` a theorem of the other part. `MachineComesLast`: `PartsInv`
follows the worker from part to part: what comes before the step it is at has
been made, no cache shows a configuration that never was, and nothing takes a
part away. `SettledBuilt`: by a `RestInv` of the same shape over three more
invariants. `BuildInv`: every endpoint in an object, a Secret or a cached copy is
the infrastructure's, and a Machine that was seen to run is shown by the cache.
`VersionInv`: the cached Machine is no newer than the Machine, that no newer than
the object, so that the difference which is patched is never empty when it must
not be. This is where a rollback has to be excluded (`~May("rollback")`): with
one the property fails (section 4).

**`DynamicWatchProofs`.** `NoLoss`: every object that is owed an event has one
in the channel, in the pending map or with a handler. `WatchInv` adds what each
goroutine knows between two sections: a handler about to add to the map carries
an event newer than the entry (`HandlerInv`), the flusher holds an event no
newer than the object's last (`HeldInv`), and an entry about to be deleted is no
longer needed if it is still the one that was sent (`DeleteInv`).
`InformersStarted`: `RegisteredRuns` and the fact that the stop channel is set
before Start goes on. `Refines`: `Spec => Promise!Spec`; initial states map to
initial states, and each step maps to `Notify`, `Deliver`, `Drop` or a stutter.

**`InfraClusterProofs`.** `TypeCorrect`. `Identified`: `IdentityInv` says that a
worker that is about to write the instance knows the uid if the schema asks for
it.
`RestIsMirrored`: `RestInv` relates what the worker has found out to the instance
(`Progress`), and the copy it works on to the cached object unless a request is in
the queue (`Current`); a version the cache has not seen is an event to come. It assumes that a ready instance is neither
lost nor degrades; without that the property is false (section 4).

**`RotatorProofs`.** `TypeCorrect`. `TokenIsFresh`: `RotatorInv` relates the request
in the queue to the clock (`QueueInv`), the token at hand to the time the
request was due (`WorkerInv`), and the next request to the expiration with what
failures may still cost (`MarginInv`). The assumption `PolicyAssumption` says
that RefreshBefore and the token's life leave room for those failures.
`ForeignKept`, `AlwaysRequeued`: action properties; the latter for all flags,
because `WithDefaults` makes every duration positive. `EventsAreAdded`: `ESpec => Spec`, so that the theorems
on the rotator hold beside its events. `EventsAreCurrent`, `EventsAreRepeated`,
`CacheBounded`: `DedupeInv` says that an entry of the Cluster in the cache is
the event that was emitted last; a suppressed event therefore repeats what is
shown, and what is shown is not older than the entry.

**`OCMBootstrapperProofs`.** `TypeCorrect`. `ForeignKept`: `AllowedInv` says that
the worker holds a Role that is not managed only with a copy that allows the
takeover; a Role that changed since is refused. `NobodyForgotten`: `AskedInv` says
that a Cluster the cache shows as one to bootstrap is queued, being worked on or
has a timer; what the cache does not show yet is an event to come. It is the
safety behind `Provisions`, and holds without the watches.
`SteadyProvisioned`, whose hypothesis leaves out the `untold`: `SteadyInv` follows
what is read into the run that uses it. A Cluster at rest that is not untold has
its Role (`RestKept`) unless its own event is ahead (`Outlived`); for that, the
copy is the cache's (`CopyCurrent`), an issuer that has changed since it was read
has its event mapped to every Cluster the cache shows (`IssuerCurrent`), and a
managed Role that was read with this Cluster's label and has changed since has
queued it (`RoleCurrent`).

**`KarpenterBootstrapperProofs`.** `CreatedGuarded` and `ForeignKept` rest on
`GuardInv`: neither deletion nor region is ever taken back along the versions, the
finalizer not before every version shows the deletion (`History`), and what the
worker's place says about the Cluster on the server (`Guarded`): where it makes
objects the server has finalizer and region, where it releases the Cluster every
version is in deletion. `RestartsAreTrue` rests on `RestartInv`: every version's
record names only Deployments with fresh Pods, restarts are planned behind ACTIVE
profiles only and recorded behind the rollout. `ReleasedClean` rests on
`NodesInv`: managed objects imply the region, nodes imply that every version in
deletion and every worker that releases the Cluster knows it, and behind the last
Describe an instance is alive only if Karpenter could still launch. Each of the
three is needed because the patch that is about to be sent is computed from a
copy that may be any number of versions old. `TypeCorrect` needs all three beside
the types (`KarpenterInv`): that the worker's step stays on the list depends on
where it is. `SettledBootstrapped` adds `RestInv`: a run that nobody has asked to
repeat, with nothing missing, has done every step before the one it is at, or has
noted that it must come back soon, or stands before a foreign object
(`Advanced`); security groups that a version has are not lost again by a patch
from an older one (`GroupsKnown`); and the long wait is taken only behind the
last step (`Rested`). It says nothing of the control plane's security group
variable, which may stay empty (section 4), nor of restarts: those that are
recorded are true (`RestartsAreTrue`), and that they come is liveness
(`Bootstraps`).

**`SelfManagedProofs`.** The composition. `ReadyBuilt`: `SelfInv` joins the
facade's `TypeOK` and `BackedInv` with three parts. `KubeadmInv` is the kubeadm
reconciler's: every version and copy of its object is `Sane`, that is it claims
no latch and no endpoint that the server's object and the infrastructure do not
have, and keeps the contract; a Machine that was seen to run has been shown, a
Machine that was shown exists, one that exists has certificates and a kubeconfig
for the infrastructure's endpoint (`MachineInv`). `SharedInv` says that both look
at one object: `inst` and `view` are the server's and the cached version as the
facade sees them, and nothing happens before the cache shows it. `TruthInv`:
whatever the facade has read, holds or has published of the backend was true when
it was said, and stays true, since neither latch nor endpoint is taken back
(`Grows`). `ContractKeptOver`: the facade keeps the contract over this backend.
In `ControlPlane` that rests on `KubeadmAssumption`, which restricts the
statuses a kubeadm backend may show; here the statuses are those the other
reconciler wrote, and that they are possible ones is part of the proof. The
facade's steps are covered by the lemmas of `ControlPlaneProofs`; what the
kubeadm reconciler does is shown again, of the instance `K`, as far as it is needed.

`SelfSettledBuilt` is the rest of both, over the two caches that no part alone can
speak of: `Projected` with this backend is the case that `SettledProjected` leaves
out. It assumes `~K!May("rollback")`, and needs `BothInv` beside `SelfInv`. `KRestInv`
and `FRestInv` are the two reconcilers' rest invariants: one that has seen its
object as it is, with no write of its own unseen, works on the server's object;
what its run has done so far holds of it (`KWritten`, `FWritten`); if it ends
without asking for another, everything is made and published (`KOutcome`,
`FOutcome`). `OrderInv` is what the facade's half hangs on: it leaves the backend alone
when the *cached* copy has the version wanted. Versions have numbers (`Rank`); in
the order of both histories they only grow (`InOrder`, `PassedOn`), and the kubeadm
object asks for none that the facade has not been shown (`Followed`, `Wanted`).
The cached copy's number is then at most the server's, and that at most the wanted
one: if the first is the last, so is the one between (`SeenIsCurrent`). With a
rollback the numbers no longer bound each other, which is the counterexample of
section 4.

**Only model-checked.** All liveness (`Converges`, `KeepsPromise` with its
fairness, `BecomesReady`, `Mirrors`, `Provisions`, `Bootstraps`,
`DeletionCompletes`), which
TLAPS does not reach. No safety invariant of a run is left without a theorem.
What the theorems do not cover is in their hypotheses: the kubeadm backend in
`SettledProjected` (there `SelfSettledBuilt`, without failing calls), rollbacks in
`SettledBuilt` and `SelfSettledBuilt`.

## 6. Abstractions and what is not modelled

- Contents of objects: names, labels, policies, Helm values, kubeconfigs and
  YAML. A status is the fields the controllers decide on; an endpoint is valid
  or "bad" after `endpoint.Parse`.
- The bootstrapper's subnet checks and changes of objects already managed; APIs
  that are installed while it runs (`missing` does not change); variables of the
  topology that users own; several Clusters.
- The rotator assumes that failing runs cost no more than `MaxLost`; a dozen
  errors in a row make the rate limiter wait longer than RefreshBefore, and the
  token then expires.
- `SelfManaged` has neither failing calls nor restarts (see the bounds).
- The OCM bootstrapper's wait after a foreign Role, and its requeue intervals,
  are kinds of timers, not durations. The intervals are taken to be positive: the
  code replaces a flag of zero by the default but keeps a negative one
  (`internal/controller/plugin/eks/ocm_awsirsa_bootstrapper_controller.go:464`),
  with which controller-runtime would not requeue.
- The log throttle of the watcher, and metrics.
- Not modelled: pure helpers (index, names, rendering, parsing), webhooks, entry
  points and generated code: no state, or wiring that the models assume.

## 7. Plan

Written, in this order: `ControlPlane` (the core), `EventDelivery` and
`DynamicWatch`, `KubeadmControlPlane`, `KubeconfigRotator`,
`KarpenterBootstrapper`; then `ControlPlaneContract` with its two refinements,
`SelfManaged`, `InfraCluster`, `OCMBootstrapper`, `EventDedupe` and
`RotatorEvents`; proofs for every component.

Left:
1. The users' own topology variables, APIs installed while the Karpenter bootstrapper runs.
2. `InfraCluster` composed with `KubeadmControlPlane`, which reads its endpoint.
3. Failing calls and restarts in `SelfManaged`.
