# TLA+ specifications of the Crit bootstrap provider

The Cluster API Bootstrap Provider Crit runs two Kubernetes controllers in a
management cluster. Together they turn a `CritControlPlane` and its `CritConfig`s
into the control plane machines and the bootstrap data of a workload cluster.
This directory holds TLA+ models of them, what TLC checks of the models on small
instances, and what TLAPS proves of them for all instances.

Paths below are relative to `src/`. `PROJECT.json` maps every definition to the
lines it models.

## 1. The system

| Component | State it keeps | Operations | Talks to |
|---|---|---|---|
| CritControlPlane controller (`controllers/controlplane`) | the `CritControlPlane` (spec hash, replicas, finalizer, status), the machines, infrastructure objects and configs it creates | one reconcile pass: initialize, scale up, scale down, delete, update the status, patch | API server (writes), informer cache (reads), workload cluster (nodes, static pods, ConfigMap) |
| Workload cluster checks (`internal/cluster.go`, `internal/workload_cluster.go`) | none; a result per node | `ClusterStatus`, `ControlPlaneIsHealthy`, `healthCheck` | workload cluster, informer cache |
| Control plane view (`internal/control_plane.go`, `failure_domain.go`, `machine_collection.go`, `machinefilters`) | none; operates on the list a pass has read | pick domains and machines | controller above |
| CritConfig controller (`controllers/bootstrap`) | the `CritConfig` (token in the spec, status), the data secret, tokens in the workload cluster | one reconcile pass: certificates, token, data, patch | API server, informer cache, workload cluster |
| Cluster certificates (`internal/secret`) | one secret per certificate and cluster | `Lookup`, `Generate`, `SaveGenerated`, `LookupOrGenerate` | both controllers call it concurrently |
| Remote cluster cache (`internal/remote/cluster_cache.go`) | map of caches, map of recorded watches, two locks | `Watch`, the health checks, `ClusterCacheReconciler` | any controller that watches a workload cluster (the manager starts none yet; its tests do) |
| Remote client (`internal/remote/cluster.go`) | none | builds a client from the kubeconfig secret | |
| API types, conversions, webhooks (`apis`) | the stored objects | v1alpha1 to v1alpha2 and back; webhooks that accept everything | API server, which calls the conversion for every request of a v1alpha1 client |
| Cloud-init (`internal/cloudinit`) | none | renders the bootstrap data | CritConfig controller |
| Manager (`main.go`) | none | flags, start-up | |

How they interact. Reads go through informer caches, one per kind, each of which
lags behind the API server at its own pace; writes go to the API server. A pass
is started by the work queue, which never runs two passes for one object at a
time but runs up to ten for different objects (`main.go`), so the passes of a
`CritControlPlane` and of its `CritConfig`s interleave. A pass adds its finalizer
and status in memory; the deferred function at the end stores them in two calls
(object, then status), the second of which is made even if the first failed.
Cluster API's own controllers copy the name of the data secret, create the
infrastructure, set `Status.NodeRef` and remove deleting machines; the garbage
collector removes what a vanished owner owned.

What is hard here:

- a pass is a sequence of a dozen calls; the answers of the early ones are old
  when the late ones are made (nodes counted, then machines listed, then one
  deleted);
- any call may fail before or after it took effect, and the manager may restart
  between any two; generated names make retries non-idempotent;
- cached reads may miss what the same controller wrote a moment ago;
- concurrent passes create the same secrets without a lock;
- tokens expire while nothing happens; the refresh is a delayed requeue;
- two configs of one cluster, a control plane's and a worker's, wait for
  conditions of the Cluster that each other's machines bring about;
- machines left behind by an earlier `CritControlPlane` are adopted one Update at
  a time, and their events reach no queue before that;
- the cache tracker releases its lock between the steps of a cleanup;
- a v1alpha1 client rewrites the text a hash is computed from.

What makes each part correct: the control plane is replaced one machine at a
time, never below its replicas, and goes away completely and only when empty
(control plane controller); machines stay spread, leave withdrawn domains, and one
to remove is always found (placement); all nodes trust the same authorities (certificates); data is published once,
before it is announced, and the token in it lives until it is used (CritConfig);
the first control plane machine and the workers come up in that order (both
together); what a client of the old API does not touch stays (conversions); a recorded
watch is alive and dead clusters are forgotten (cache). The hazards, each at its
line, are in `PROJECT.json`.

## 2. The modules

| Module | Models |
|---|---|
| `FailureDomains` | pure operators: `pick`, `PickFewest`, `PickNFewest`, `PickMost`, `Oldest`, the choices of `ControlPlane`. Ties (sort order of equal counts, map iteration, equal timestamps) make each of them a set of possible results |
| `MachinePlacement` | extends `FailureDomains`: the history of placements over initialization, edits, edits taken back and changes of the domains; a pass is two steps, the count of the nodes and what is done about it |
| `MachinePlacement_proofs` | the theorems about placement, and what the operators of `FailureDomains` return |
| `CritControlPlane` | extends `FailureDomains`: the control plane controller, call by call, with caches, faults, user, nodes, machine controller, garbage collector |
| `CritControlPlane_proofs` | the theorems about its passes |
| `CritControlPlaneObjects_proofs` | extends it: the theorems about owners, the finalizer and what a failed generation leaves behind |
| `ClusterIdentity` | abstract: one authority per purpose, established once; nodes boot with established ones |
| `ClusterCertificates` | `LookupOrGenerate` run concurrently by the control plane pass and the passes of the configs; implements `ClusterIdentity` |
| `ClusterCertificates_proofs` | the proof that it does |
| `BootstrapContract` | abstract: what a bootstrap provider promises the controller of a Machine |
| `CritConfig` | the CritConfig controller for one config, with tokens, time, caches, faults, pivot; implements `BootstrapContract` |
| `CritConfig_proofs` | the theorems about it |
| `ClusterBootstrap` | composes two instances of `CritConfig`, of a worker and of the first control plane machine, that share the Cluster, the clock and the process |
| `ClusterBootstrap_proofs` | the theorems about both together |
| `ClusterCacheTracker` | the tracker for one cluster: callers of `Watch`, health checks, the reconciler |
| `ClusterCacheTracker_proofs` | the theorems about it |
| `ApiConversion` | pure operators: the conversions between v1alpha1 and v1alpha2, and what `Hash` covers |
| `ApiConversion_proofs` | the theorems about them |
| `MC*` | what TLC needs beyond constants: symmetry sets, the certificate list |

### CritControlPlane

`pc` is where the pass is; `old` and `my` are the object as read and as changed,
`list` the machines listed, `goal` the branch taken (`init`, `up`, `down`,
`delete`), `fds`, `cur`, `checked`, `victims` and `again` what the Go code holds
in local variables between two calls. One action is one call together with the
code up to the next:

`Reconcile` (read the object, owner, pause, deletion) → `ReconcileExternalReference`
→ `LookupOrGenerate` → `ReconcileControlPlaneKubeconfig` → `ListMachines`, with
orphans `EnsureOwnership`, and then `Decide` (nothing to do, initialize, or
upgrade) → for an upgrade `ClusterStatus` (up or down) →
`ControlPlaneIsHealthy` → `MatchMachines` → `CloneTemplate` → `GenerateCritConfig`
→ `GenerateMachine`, or a second health check and `DeleteMachine`; after a failed
generation `CleanupInfra`, `CleanupConfig`. Deletion is `ReconcileDelete` →
`DeleteMachine`. Every path ends in the deferred `UpdateStatus` →
`UpdateRemoteStatus` → `Patch`.

Every call may fail: `rejected` before it took effect, `lost` after; `Crash` ends
a pass at any point. `SyncCCP`, `SyncMachines` and `SyncSecrets` are the
informers. `FreshReads` says whether a pass starts only once the caches have
caught up. A CritControlPlane without finalizer vanishes at once when deleted,
also in the middle of a pass.

A behaviour starts with a new cluster, or with the machines (`Orphan`, with a hash
label of `OrphanHash`) of an earlier `CritControlPlane` that was removed without
them. `EnsureOwnership` is one step: between its Updates only their conflicts
matter, and those are in it (`Outdated`). Until a machine has a controller
reference its events do not queue the object (`Watched`). `DeleteMachineByHand`
is the user deleting a machine.

Abstractions: a machine is an identifier whose hash label and domain are
functions of it; timestamps are left out (any machine of a domain may be its
oldest; `MachinePlacement` has the timestamps); the five certificates are one
secret; a spec is its hash, and `BadConfig` holds the hashes of specs that are no
`ControlPlaneConfiguration`.

### MachinePlacement and FailureDomains

`Count` is the first half of a pass: it reads Cluster and spec and counts the nodes.
The second half acts on what was read (`read`): `Initialize`, or, once nodes and
machines match (`Healthy`), `ScaleUp` or `ScaleDown` by the number of nodes counted
(`upgrade.go:32`), or nothing (`Unhealthy`). Nodes `Join` at any time, the user
changes the spec (`ChangeSpec`) and the infrastructure provider the domains
(`ChangeDomains`), also between the halves. A machine carries the hash of the spec
it was made from, and needs the upgrade while that differs from the hash of the
spec (`control_plane.go:121`): an edit that is taken back makes old machines up to
date again. Machines have creation times in seconds; those of one initialization
tie. `prior` is a history variable: the hashes in use when the domains last changed.
Stale caches, faults and machines that take long to go are left to
`CritControlPlane`.

### ClusterCertificates

An actor is the control plane pass or the pass of a config. `Lookup` reads one
secret after the other from the cache, `Generate` makes what is missing,
`SaveGenerated` creates one secret per step and ends the pass at the first
conflict or error, `StoreBootstrapData` puts the files into the data once. The type
invariant includes that a pass that saves or renders holds every certificate, since
`AsSecret` and `AsFiles` dereference its key pair. `mode` distinguishes configs of a `CritControlPlane` from those a user writes by hand.

`ClusterIdentity` is the specification it implements: `secrets` are the
authorities, `data` what the nodes trust. The refinement is checked with configs
deleted in managed mode, where the certificates belong to the `CritControlPlane`.

### CritConfig

Time is an integer, and a tick stands for minutes. A pass, once begun, takes
seconds: no time passes while it runs. But it may begin late: the work queue backs
off after errors (exponentially, up to 1000 seconds), an API server may not answer,
the manager may be down. So time may pass while the config is queued, an event is
under way or a delayed pass is overdue (`Late`), for `MaxDelay` ticks in total from
one refresh of the token to the next (`delay` is what is left of them). Tokens live in
the workload cluster in `expires`; `UserToken` are those a user has put into the
config, which are refreshed like the others. `role` is the kind of the
configuration and of its owner: control plane, worker, worker owned by a
MachinePool (which changes of the Cluster do not queue), or a mismatch. The
endpoint is copied from the Cluster once it is known (`ClusterConfiguration`) and
is part of the data. `Pivot` moves the objects, which loses the status (the case
`controller.go:154` is for).

`BootstrapContract` is the specification it implements: the secret is the data,
`Status.Ready` the announcement, `Bootstrap.DataSecretName` of the machine what it
was given.

### ClusterBootstrap

The worker is the `CritConfig` of the extended module, the control plane config a
second instance (`CP`) with variables of its own. A step is one of either, or one
both see: `ClusterStep` (the Cluster changes; the control plane is initialized by
its machine), `Time`, and `ProcessCrash`, which ends both passes. In managed mode
the control plane machine exists only once the cluster has its infrastructure and
its endpoint (`MayCreateMachine`), which is what the pass of the
`CritControlPlane` checks before it creates one.

### ApiConversion

An object of v1alpha1 has its configuration in one of two structures, one of
v1alpha2 in a text; a text is its kind, what it says (`Body`) and how it is
written (`Layout`). `Legacy` is what v1alpha1 of crit can say, `DownBody` crit's
own conversion, of which only `CritConverts` is assumed. All other fields of a spec,
and the status, have the same type in both versions and are copied as they are;
files, users and NTP settings are values like any other, and nothing is stated of
them beyond that.

### ClusterCacheTracker

Bodies of functions under `clusterCachesLock` are one step; `watchesLock`, which
`Watch` holds across calls, is a variable. The cleanup (`StopCache`,
`DeleteClusterCache`, `DeleteWatchesForCluster`) is three steps, by each health
check and by the reconciler.

## 3. What is checked

Passing runs (TLC, two workers, each below five minutes):

| Run | Instance | Shows |
|---|---|---|
| `ccp_rolling` | 4 machine names, up to 2 replicas, one edit (also to a spec that is no control plane configuration), one node that becomes unreachable, fresh reads | `ScaleUpWaits`: an upgrade adds a machine only when all machines have a NodeRef and none is going. `ScaleDownKeepsReplicas`: it removes only surplus machines. `MachinesHaveFinalizer`: no machine exists before the finalizer is stored. 2 replicas need at most 4 names: the old ones, one more, and one added by a node that joins after the nodes were counted |
| `ccp_faults` | 3 names, 2 domains, 2 user actions including deletion, one rejected call anywhere | `NothingDangles`: after a pass no infrastructure object or config is left without a machine. `FinalizerGuardsMachines`: the finalizer goes only when no machine exists. One fault is what a single cleanup is written for |
| `ccp_stale` | 2 names, one of them possibly an orphan with the current or another hash, stale reads, one fault of any kind | `InitializedOnce`: `Status.Initialized` is never taken back. `ActsOnOwned`: no machine is added or scaled down before all are owned |
| `ccp_live` | 3 names, possibly an orphan, a worker, one user action (edit, pause, deletion of the control plane or of a machine), no faults | `UpgradeCompletes` (orphans adopted too), `DeletionCompletes` under fairness |
| `placement` | 3 replicas, 6 names, 2 domains, 2 specs, 2 edits (so the first may be taken back), a change of the domains | `SizeBounded`: between `Replicas` and `Replicas + 2` machines. `StaysSpread`, `Evacuated`, `AlwaysPicks` (`selectMachineForScaleDown` never fails to pick). Two domains and three machines make both the tie and the wrap-around of `PickNFewest` happen; five machines, one name more, are what a node that joins late makes possible |
| `cache` | 2 callers, 1 watch, 2 caches, threshold 2, 2 changes | `RecordedWatchesAlive`, and under fairness `UnhealthyForgotten`. Two caches are the old one and the one that replaces it |
| `certs` | 2 configs, the control plane, a worker, 2 certificates, one fault | `OneIdentity`, `ImplementsIdentity` (the refinement, configs deleted in managed mode), `EveryConfigReady`. Two certificates are enough for a partial save |
| `config_token` | 4 tokens, one of them the user's, TTL of 4 ticks, 8 ticks, a delay of 1 tick between refreshes, 2 faults outside the patch, a pivot, fresh reads, every role | `TokenAlive`, `ImplementsContract` (the refinement). 8 ticks are two lives of a token; a delay of 2 ticks, half a life, makes `TokenAlive` false |
| `bootstrap` | a control plane config and one of a worker or pool, both modes, 2 tokens, one fault (failed call, failed patch or restart), 1 tick, fresh reads | `EndpointInData`, `WorkerFollows`, and under fairness `EveryoneJoins`. One tick lets a token age by half its life while the other config moves |

The type invariant of each component's module is checked by one of its runs
(`ClusterBootstrap` composes components and adds none). `ApiConversion` has no state and no run: its theorems say all there is.
Symmetry is used for
machine names and tokens, which the code never orders, and only in runs
without liveness properties. Deadlock checking is off: the systems do come to
rest (a deleted control plane, a finished upgrade), and progress is stated as
liveness.

Fairness. Passes, informers and delayed requeues are weakly fair: the work queue
and the watches never stop. The resync of the informers is too (`--sync-period`,
ten minutes, `main.go:97`): it is what wakes the config of a MachinePool after a
change of the Cluster. So are the Cluster API controllers, the nodes and,
once deletion is asked for, the owners of the workers; a pause always ends. For
the tracker, goroutines run on. In `ClusterBootstrap` the two configs have a worker
of the queue each (`main.go:93` allows ten), so each pass is fair on its own. Faults, edits, breaks, calls of `Watch` and
deletions are never forced.

### Disagreements between code and comments

Three runs are expected to end in a violation; each checks what a comment says.

- `ccp_init_partial`: after one of the initial machines could not be created, no
  pass creates it. The machines are neither zero nor `Spec.Replicas`, and
  `controlplane.go:129` returns. The comment above (`:96`) wants initialization
  to be finished.
- `ccp_stale_scale_up`: with a cache that misses the machine just created,
  machines and nodes match and another machine is created (`upgrade.go:32`).
- `config_lost_status`: when the data secret was created and the status was not
  stored, every later pass finds the secret, leaves the status alone and the
  config never becomes ready (`helpers.go:60`).

The models show more of the same kind, which no run is devoted to:

- In `ControlPlaneIsHealthy` the result for the controller manager overwrites the
  one for the API server (`workload_cluster.go:69`, `:80`), so a node whose API
  server is not ready is reported healthy, against `:43`.
- Outside of an upgrade the number of machines is only compared
  (`controlplane.go:108`): a machine deleted by hand is not replaced while another
  is left, and a change of `Spec.Replicas` alone has no effect. This is why
  `UpgradeCompletes` says nothing of their number.
- A machine deleted by hand between the match of nodes and machines and the
  creation of the next one makes `ScaleUpWaits` false; deleted before, it makes an
  upgrade remove more than the surplus. The two theorems assume that nobody does.
- `refreshToken` shortens a token of the user that would have lived longer
  (`token.go:69`).
- `ClusterToCritConfigs` does not queue the configs of MachinePools
  (`controller.go:239`); they go on with the next requeue or resync.
- A control plane config that a user writes without a `CritControlPlane` can get
  its data before the Cluster has an endpoint, and keeps data without one.
- A v1alpha1 client that scales a control plane can make every machine outdated
  once (`ScalingKeepsHash` below), loses the worker configuration of an object
  that has both, and cannot read a list in which one Config is no YAML.
- `Status.Initialized` is set when the first node has written the ConfigMap
  `crit-config`; its comment (`critcontrolplane_types.go:93`) requires as many
  nodes as replicas.
- A machine may be created before the finalizer is stored when the patch that
  stores it fails: the next pass adds it in memory again and goes on. This is why
  `MachinesHaveFinalizer` is checked without faults.
- A node that joins between `ClusterStatus` and the health check makes an upgrade
  add one machine too many. When the outdated machines are gone no pass removes
  the surplus, since outside of upgrades the controller does not scale down. It
  also upsets the spread: from one new machine in A and two old ones in B, two new
  ones go to A, the second while the node of the first joins late, and only the old
  ones can be removed, which leaves three machines in A and none in B. Hence the
  bound of `StaysSpread`: a domain's share of `Replicas + 2` machines.
- An upgrade of three machines in three domains can end with two in one domain
  and none in another: the last outdated machine is removed wherever it is.
- An edit that is taken back after a domain was withdrawn makes the machines in
  that domain up to date again, and they stay there. `Evacuated` is therefore about
  specs that were not in use when the domains changed.
- A restart, or a create whose answer is lost, leaves cloned objects behind that
  no later pass knows; they go with the CritControlPlane.
- Without a CritControlPlane the certificates belong to the config whose pass
  stored them, and are collected with it.
- The token in the bootstrap data of a worker can expire unused, against
  `worker.go:227` and `:236`: when the patch of the spec fails and the one of the
  status does not, when a pass that does not see the stored token creates a
  second one, and when the refresh that is due after half its life is held up for
  the other half: 450 seconds of backoff, outage or downtime, of which the backoff
  alone can reach 1000.
- `Watch` is a no-op for a watch that exists (`cluster_cache.go:149`), except
  when the record was deleted by a cleanup of the previous cache: then it is
  registered twice. Two cleanups at once can drop a new cache without stopping it
  (against `:294`), and the health check of a stopped cache stops its healthy
  successor (against `:330`), because `PollImmediateUntil` also returns an error
  when it is stopped.

## 4. What is proved

For every value of the constants:

| Module | Theorem | States |
|---|---|---|
| `CritControlPlane_proofs` | `TypeCorrect` | `Spec => []TypeOK` |
| | `FinalizerTheorem` | with `FreshReads`, `Spec => FinalizerGuardsMachines` |
| | `ScaleUpTheorem` | with `FreshReads` and without `MayDeleteMachines`, `Spec => ScaleUpWaits` |
| | `ScaleDownTheorem` | with the same two, `Spec => ScaleDownKeepsReplicas` |
| | `InitializedTheorem` | `Spec => InitializedOnce`, with stale reads too |
| `CritControlPlaneObjects_proofs` | `OwnershipTheorem` | `Spec => ActsOnOwned`, with stale reads and every fault |
| | `MachinesHaveFinalizerTheorem` | with `FreshReads`, no faults but lost answers and no orphans, `Spec => []MachinesHaveFinalizer` |
| | `NothingDanglesTheorem` | with at most one fault, a rejected call, `Spec => []NothingDangles`; with stale reads too |
| `MachinePlacement_proofs` | `TypeCorrect` | `Spec => []TypeOK` |
| | `SizeTheorem` | `Spec => []SizeBounded` |
| | `SpreadTheorem` | `Spec => []StaysSpread` |
| | `EvacuatedTheorem` | `Spec => []Evacuated` |
| | `AlwaysPicksTheorem` | `Spec => []AlwaysPicks` |
| `ClusterCertificates_proofs` | `TypeCorrect` | `Spec => []TypeOK`, without `KeepsSecrets` |
| | `IdentityTheorem` | with `KeepsSecrets`, `Spec => []OneIdentity` |
| | `IdentityImplemented` | with `KeepsSecrets`, `Spec => ImplementsIdentity` |
| `ClusterCacheTracker_proofs` | `TypeCorrect` | `Spec => []TypeOK` |
| | `WatchesTheorem` | `Spec => []RecordedWatchesAlive` |
| `CritConfig_proofs` | `TypeCorrect` | `Spec => []TypeOK` |
| | `ContractKept` | `Spec => ImplementsContract`, with stale reads and failed patches too |
| | `TokenTheorem` | with `FreshReads`, without `PatchFaults` and with `MaxDelay < TTL - TTL \div 2`, `Spec => []TokenAlive` |
| `ClusterBootstrap_proofs` | `EndpointTheorem` | `BootstrapSpec => []EndpointInData`, with stale reads and failed patches too |
| | `WorkerFollowsTheorem` | `BootstrapSpec => []WorkerFollows`, likewise |
| `ApiConversion_proofs` | `ReadBack` | a v1alpha1 client reads back what it wrote, unless it wrote both configurations |
| | `EditKeepsRest` | a v1alpha1 edit of one field leaves the rest of the spec alone, but for the text |
| | `ScalingKeepsHash` | scaling through v1alpha1 keeps the hash exactly if the text is in normal form |
| | `SecondEditKeepsHash` | after one v1alpha1 write it always does |
| | `CreatedKeepsHash` | a control plane created through v1alpha1 keeps its hash when scaled through v1alpha1 |

**The control plane.** Any number of replicas, machines, orphans, domains, faults
of every kind, crashes, broken nodes and edits is covered. `FreshReads` is the
assumption that a pass starts when the informers have caught up; during a pass the
caches may fall behind as they like. Without it `ScaleUpWaits` is false
(`ccp_stale_scale_up`), and so are the other two in principle, since the code
decides on the cached list.

None of the properties is inductive: what a pass does late depends on what it read
early. The invariant is `TypeOK /\ PassShape /\ Sound`. `PassShape` says that a
pass that generates a machine has a domain and a name for it. `Sound` has five
parts: `Wellformed` (NodeRefs and deletion timestamps belong to existing machines,
names are not used twice, a node is a machine's), `CacheSound` (what the cache says
of a machine that still exists is still true; while a pass reads and decides, the
cache lacks no machine, and, as long as nobody else takes machines away, none
started to go that the pass does not know of), `FinalizerSound` (the finalizer is
dropped in memory only when no machine exists), `ScaleUpSound` (from a successful
match of nodes and machines to the creation, all machines have NodeRefs and none
is deleting) and `ScaleDownSound` (from the count of the nodes to the deletion
there are more machines than replicas). `CacheSound` is what makes the others
inductive: it bounds how far the world can move during a pass. "Nobody else" is
`Undisturbed`: the object exists, so the garbage collector is not at work, and
users do not delete machines. `InitializedTheorem` needs one fact only,
`KeepsInitialized`: a pass never takes the field back in memory, and the merge
patch writes it only if the pass changed it.

**The objects of the control plane.** `ActsOnOwned` rests on `OwnedFirst`: owners
are never taken away, so what a lagging cache shows includes every orphan there
is, and a pass that acts has seen none or adopted all. `MachinesHaveFinalizer`
rests on `StoredFinalizer`: machines come after the kubeconfig, the pass that
creates the kubeconfig ends early, and the patch at its end stores the finalizer;
a rejected patch or a crash in that pass breaks it (section 3), hence the
hypotheses. `NothingDangles` rests on `GenerationTidy`: an infrastructure object or
config without a machine belongs to the machine that is being generated or cleaned
up, and a cleanup has no fault left to meet. That is one fault, the number a single
cleanup is written for; with two the cleanup itself fails and objects do dangle.

**Placement.** Any number of replicas, domains, specs, edits and changes of the
domains, with edits taken back. A pass acts on what it has read, so the invariant
relates that to what is true when it acts. `Reading`: there is a machine that is
outdated by the spec the pass has read. `Sizes`: where there is a second surplus
machine more than `Replicas` nodes have joined, and a pass that runs has counted
more, so none adds a third; and nobody counts more nodes than there are machines. `Placed`
says that what was made from a spec that is not in `prior` is in a reported domain,
which gives `Evacuated`. `StaysSpread` follows from the sizes: a machine goes to a
domain with the fewest, and by the pigeonhole principle (`Share`) that one has no
more than the average. For initialization the machines of one domain, all but one,
are mapped one to one to those of any other, one round of `PickNFewest` back.
`AlwaysPicks` follows from the existence of oldest machines and fullest domains in
non-empty finite sets.

**The certificates.** `KeepsSecrets` says that configs are deleted only in clusters
with a `CritControlPlane`; elsewhere a certificate goes with the config that owns
it and the property is false (section 3). `IdentityTheorem` and `IdentityImplemented`
assume it, `TypeCorrect` does not. The invariant has three parts beside the
types. `Ownership`: in a managed cluster all certificates are stored before the
first config exists, so none belongs to a config. `CopiesTrue`: what the cache or
a pass holds of a certificate is what is stored, or nothing, and what a pass
generated is what is stored once it has been saved. `Trusted`: what nodes were
given is what is stored. Each creation of a secret then is a step of
`ClusterIdentity` that establishes an authority, each creation of data one that
boots a node.

**The cache tracker.** The lock that `Watch` holds across calls makes
`RecordedWatchesAlive` inductive: `CallerSound` says that a caller about to
register a watch holds the cache of the cluster, or some goroutine that has
deleted that cache waits for the lock to delete the watches.

**The bootstrap contract.** Every step of `CritConfig` is a step of
`BootstrapContract` or leaves its three variables alone; the patch of the status
is `Announce`, which requires that there is data. That is not inductive: what the
patch stores was in memory, and came from the cache, from the machine or from the
creation of the secret. `Backed` says that wherever data is reported (object,
cache, pass, machine, cached machine) the secret exists, and that a pass never
takes a report back; secrets are never deleted, so nothing breaks it.

**The token.** `TokenAlive` depends on the past of the token, on what is scheduled,
and on what the running pass will do. `TokenKept` has five parts. `Surroundings`:
machine and cluster only progress, and only workers have tokens. `SameToken`: the
token of data that is reported is the one of the config. `PassKnows`: the same for
what a pass holds, which started from the stored config. `DueSoon`: a delayed pass
comes within half the time to live. `RefreshComes`: an unused token is alive, and
a pass is delayed to a time before it expires, or is queued, on its way or running.
Where these compare a time with an expiry they add `delay`, all that passes may
still be held up for: a tick while one is late takes as much from `delay` as it adds
to the clock, a tick while none is does not reach `due`, and a refresh, which gives
`delay` back, leaves `TTL - TTL \div 2` after the next one is due. All three
hypotheses are needed (section 3): the failures of calls themselves are unbounded,
the time they cost is not.

**Two configs of one cluster.** Without hypotheses: any faults, stale reads, both
modes. The worker's pass got past its wait with an endpoint in memory, and the
Cluster only progresses (`WorkerAfter`); the control plane's pass waits for no
endpoint, but in managed mode no machine, and so no cached machine, exists without
one (`CPEndpoint`). Steps of one config keep the invariant of the other because
they share the Cluster, the clock and the bound on faults only.

**The conversions.** `ToHub` after `FromHub` is the identity on everything but the
text, which becomes `Normal(text)`, and `Normal` is idempotent because crit's
conversion loses nothing of what v1alpha1 can say (`CritConverts`, the only
assumption). The theorems about the hash follow by comparing the parts of
`Hashed`.

Every safety property and both refinements that the passing runs check are proved.
Only model-checked is liveness (`UpgradeCompletes`, `DeletionCompletes`,
`UnhealthyForgotten`, `EveryConfigReady`, `EveryoneJoins`), since the
prover has neither fairness nor `ENABLED`. TLC checked each inductive invariant
before it was proved, on instances like those of the runs; the one of `NothingDangles`
on a part of the states.

## 5. What is not modelled

- In the control plane controller: a machine with the label of this control plane
  and another controller, for which `EnsureOwnership` returns an error before any
  further Update.
- In the CritConfig controller: name, network and version copied from the Cluster
  and the owner into the config (nothing waits for them), and owners that are a
  MachineSet or MachineDeployment, which `GetConfigOwner` never returns.
- Webhooks (they accept everything), deep copies (generated), the registration of
  the conversions, cloud-init templates and the remote client (no control; the
  client's failure is a failed call).
- `main.go`: flags. Leader election is off by default; two managers at once are
  not modelled.
- Composition of `CritControlPlane` with `CritConfig`: in `ClusterBootstrap` the
  control plane controller is the guard of its first machine. The product of both
  at the grain of calls is out of TLC's reach.

## 6. Plan

Done, in this order: `FailureDomains` and `CritControlPlane` (the core of the
system), its proofs, `MachinePlacement`, `ClusterCertificates`, `CritConfig`,
`ClusterCacheTracker`; then `ApiConversion` with its proofs, owners, tokens and the
endpoint in `CritConfig`, the two abstract specifications and refinements, the
proof of one of them, `ClusterBootstrap`, and adoption and deletion by hand in
`CritControlPlane` with its proofs adapted.

Then the proofs of the remaining safety properties: `CritControlPlaneObjects_proofs`,
`MachinePlacement_proofs`, `ClusterCertificates_proofs`, `ClusterCacheTracker_proofs`,
`ClusterBootstrap_proofs` and the token in `CritConfig_proofs`. Last, nodes counted
early and edits taken back in `MachinePlacement`, delays in `CritConfig`, and their
proofs.

Next:

1. `ClusterBootstrap`: each of the two configs keeps the bootstrap contract beside
   the other;
2. the safety half of the liveness properties: each removal in an upgrade leaves
   one outdated machine less, and nothing but an edit adds one;
3. `MachinesHaveFinalizer` with crashes outside of the pass that stores the finalizer.

## 7. Running it

`tlc -workers 2 -config <run>.cfg MC<module>` for a run, with the module named in
`PROJECT.json`; `tlapm <module>_proofs.tla` for the proofs.
