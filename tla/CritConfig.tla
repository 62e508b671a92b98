----------------------------- MODULE CritConfig -----------------------------
(***************************************************************************)
(* The CritConfig controller (controllers/bootstrap), for one CritConfig   *)
(* and the Machine or MachinePool that owns it: from the spec to the       *)
(* secret with the bootstrap data, and the bootstrap token of a worker     *)
(* until its machine has used it.                                          *)
(*                                                                         *)
(* A pass is cut at its calls: the token in the workload cluster, the      *)
(* certificates, the data secret, the patch.  Once begun it takes seconds, *)
(* a tick of the clock minutes.  It may begin late: the work queue backs   *)
(* off after failed calls (for up to 1000 seconds), an API server does not *)
(* answer, the manager is down.  From one refresh of the token to the next *)
(* that adds up to MaxDelay ticks at most.                                 *)
(* The certificates are those of ClusterCertificates; here the call only   *)
(* succeeds or fails.  Of what is copied from the Cluster into the config, *)
(* the control plane endpoint is modelled: the rest (name, network,        *)
(* version) is there from the start.                                       *)
(***************************************************************************)
EXTENDS Integers, FiniteSets

CONSTANTS
    Role,           \* config and owner: "controlplane", "worker", "pool" (a worker
                    \* config owned by a MachinePool) or "mismatch"
    Token,          \* bootstrap tokens (bounds creation)
    UserToken,      \* the ones a user may have put into the config
    TTL,            \* DefaultTokenTTL, in ticks
    MaxDelay,       \* how long due passes are held up between two refreshes, in ticks
    MaxClock,       \* bound on time
    MaxFaults,      \* bound on failed calls and crashes
    PatchFaults,    \* whether the calls of the patch are among the ones that fail
    MayPivot,       \* whether the objects may be moved, losing their status
    FreshReads,     \* whether a pass starts only once the caches are up to date
    None            \* no token, no time

\* What bootstrap data holds of Spec.Config.
Data == [token : Token \cup {None}, endpoint : BOOLEAN]

ASSUME ConfigAssumption ==
    /\ Role \subseteq {"controlplane", "worker", "pool", "mismatch"}
    /\ UserToken \subseteq Token
    /\ TTL \in Nat /\ TTL >= 2 /\ MaxDelay \in Nat
    /\ MaxClock \in Nat /\ MaxFaults \in Nat
    /\ PatchFaults \in BOOLEAN /\ MayPivot \in BOOLEAN /\ FreshReads \in BOOLEAN
    /\ None \notin Token /\ None \notin Nat /\ None \notin Data

VARIABLES
    \* objects in the management API server
    role,           \* what the config is for; it never changes
    config,         \* BootstrapToken and ControlPlaneEndpoint of Spec.Config; Status
    owner,          \* the Machine or MachinePool
    cluster,        \* what the controllers read of the Cluster, all from one cache
    secret,         \* the bootstrap data: None, or what it holds of Spec.Config
    configC, ownerC,    \* the informer cache
    \* the workload cluster
    expires,        \* when a token expires; 0: it was not created
    clock,
    delay,          \* how much longer due passes may be held up
    \* the work queue and the pass
    queued,         \* in the queue, now or within a minute
    due,            \* RequeueAfter of DefaultTokenTTL / 2
    pc, old, my,    \* the pass, the config as read and as changed
    infraReady,     \* configOwner.IsInfrastructureReady() as read
    faults, pivots

stored == <<role, config, owner, cluster, secret>>
caches == <<configC, ownerC>>
pass == <<pc, old, my, infraReady>>
vars == <<stored, caches, expires, clock, delay, queued, due, pass, faults, pivots>>

Config == [token : Token \cup {None}, endpoint : BOOLEAN, ready : BOOLEAN]
Machine == [ownsConfig : BOOLEAN, dataSecretName : BOOLEAN, infraReady : BOOLEAN]

TypeOK ==
    /\ role \in {"controlplane", "worker", "pool", "mismatch"}
    /\ config \in Config /\ configC \in Config /\ old \in Config /\ my \in Config
    /\ owner \in Machine /\ ownerC \in Machine
    /\ cluster \in [infrastructureReady : BOOLEAN, endpoint : BOOLEAN, initialized : BOOLEAN]
    /\ secret \in Data \cup {None}
    /\ clock \in 0..MaxClock /\ delay \in 0..MaxDelay
    /\ expires \in [Token -> 0..(MaxClock + TTL)]
    /\ due \in {None} \cup 0..(MaxClock + TTL)
    /\ queued \in BOOLEAN /\ infraReady \in BOOLEAN
    /\ pc \in {"idle", "token", "certs", "store", "patch"}
    /\ faults \in 0..MaxFaults /\ pivots \in BOOLEAN

NoConfig == [token |-> None, endpoint |-> FALSE, ready |-> FALSE]

WorkerConfig == role \in {"worker", "pool"}

\* The user may have written an endpoint and, for a worker, a token into the
\* config; such a token exists, and outlives the behaviour.
Init ==
    /\ role \in Role
    /\ \E t \in UserToken \cup {None}, e \in BOOLEAN :
          /\ t # None => WorkerConfig
          /\ config = [token |-> t, endpoint |-> e, ready |-> FALSE]
    /\ configC = config
    /\ owner = [ownsConfig |-> FALSE, dataSecretName |-> FALSE, infraReady |-> FALSE]
    /\ ownerC = owner
    /\ \E up \in BOOLEAN :        \* a new cluster, or one that runs already
          cluster = [infrastructureReady |-> up, endpoint |-> up, initialized |-> up]
    /\ secret = None
    /\ expires = [t \in Token |-> IF t \in UserToken THEN MaxClock + TTL ELSE 0]
    /\ clock = 0 /\ delay = MaxDelay
    /\ queued = TRUE /\ due = None
    /\ pc = "idle" /\ old = NoConfig /\ my = NoConfig /\ infraReady = FALSE
    /\ faults = MaxFaults /\ pivots = MayPivot

-----------------------------------------------------------------------------
(* The pass *)

Fails == faults > 0 /\ faults' = faults - 1

Fresh == configC = config /\ ownerC = owner

EndPass == pc' = "idle" /\ old' = NoConfig /\ my' = NoConfig /\ infraReady' = FALSE

\* An error: nothing is patched, and the config is queued again.
ReturnError == EndPass /\ queued' = TRUE

\* Mutant: every config waits for the control plane.
MutWaiting == ~(cluster.initialized /\ (configC.endpoint \/ cluster.endpoint))

\* Mutant: an endpoint is enough.
MutWaitingForEndpoint == WorkerConfig /\ ~(configC.endpoint \/ cluster.endpoint)

\* A worker joins a control plane that is up, at the endpoint of its config or else
\* at the one of the cluster.
Waiting ==
    WorkerConfig /\ ~(cluster.initialized /\ (configC.endpoint \/ cluster.endpoint))

\* reconcileControlPlaneClusterConfiguration, reconcileWorkerClusterConfiguration:
\* an endpoint the config has stays, one the cluster has is copied; a control
\* plane config does without.
ClusterConfiguration(c) == [c EXCEPT !.endpoint = @ \/ cluster.endpoint]

\* The objects are read.  A machine that has its data already only has the
\* status restored; without owner or infrastructure the next event is awaited;
\* a worker also waits for the control plane and its endpoint.
Reconcile ==
    /\ pc = "idle" /\ queued
    /\ FreshReads => Fresh
    /\ \/ /\ ~ownerC.ownsConfig \/ ~cluster.infrastructureReady
          /\ queued' = FALSE
          /\ UNCHANGED pass
       \/ /\ ownerC.ownsConfig /\ cluster.infrastructureReady
          /\ LET restore == ownerC.dataSecretName /\ ~configC.ready
             IN  \/ /\ restore
                    /\ old' = configC /\ my' = [configC EXCEPT !.ready = TRUE]
                    /\ pc' = "patch" /\ queued' = FALSE
                    /\ UNCHANGED infraReady
                 \/ /\ ~restore /\ (role = "mismatch" \/ Waiting)
                    /\ UNCHANGED <<queued, pass>>
                 \/ /\ ~restore /\ role # "mismatch" /\ ~Waiting
                    /\ old' = configC /\ my' = ClusterConfiguration(configC)
                    /\ infraReady' = ownerC.infraReady
                    /\ pc' = IF WorkerConfig THEN "token" ELSE "certs"
                    /\ queued' = FALSE
    /\ UNCHANGED <<stored, caches, expires, clock, delay, due, faults, pivots>>

\* createToken, unless the config has a token or its data is stored.
CreateToken ==
    /\ pc = "token" /\ ~my.ready
    /\ \/ my.token # None /\ pc' = "certs" /\ UNCHANGED <<expires, my, old, infraReady, queued, faults>>
       \/ /\ my.token = None
          /\ \E t \in Token :
                /\ expires[t] = 0
                /\ expires' = [expires EXCEPT ![t] = clock + TTL]
                /\ \/ /\ my' = [my EXCEPT !.token = t]
                      /\ pc' = "certs"
                      /\ UNCHANGED <<old, infraReady, queued, faults>>
                   \/ Fails /\ ReturnError
       \/ my.token = None /\ Fails /\ ReturnError /\ UNCHANGED expires
    /\ UNCHANGED <<stored, caches, clock, delay, due, pivots>>

\* Mutant: the time left is extended.
MutNewExpiration(t) == expires[t] + TTL

NewExpiration(t) == clock + TTL

\* Mutant: the refresh is due when the token is.
MutRefreshAfter == TTL

\* DefaultTokenTTL / 2
RefreshAfter == TTL \div 2

\* refreshToken, until the machine has its infrastructure; then the pass waits
\* for half the time to live, the earlier of two delays counting.  A token that
\* is gone from the workload cluster is an error.
RefreshToken ==
    /\ pc = "token" /\ my.ready
    /\ \/ /\ my.token = None \/ infraReady
          /\ pc' = "certs"
          /\ UNCHANGED <<expires, due, delay, old, my, infraReady, queued, faults>>
       \/ /\ my.token # None /\ ~infraReady
          /\ \/ /\ expires[my.token] > clock
                /\ expires' = [expires EXCEPT ![my.token] = NewExpiration(my.token)]
                /\ due' = IF due = None THEN clock + RefreshAfter ELSE due
                /\ delay' = MaxDelay
                /\ pc' = "patch"
                /\ UNCHANGED <<old, my, infraReady, queued, faults>>
             \/ /\ expires[my.token] <= clock
                /\ ReturnError
                /\ UNCHANGED <<expires, due, delay, faults>>
             \/ Fails /\ ReturnError /\ UNCHANGED <<expires, due, delay>>
    /\ UNCHANGED <<stored, caches, clock, pivots>>

Certificates ==
    /\ pc = "certs"
    /\ \/ pc' = "store" /\ UNCHANGED <<old, my, infraReady, queued, faults>>
       \/ Fails /\ ReturnError
    /\ UNCHANGED <<stored, caches, expires, clock, delay, due, pivots>>

\* What the secret is made from.
DataOf(c) == [token |-> c.token, endpoint |-> c.endpoint]

\* Mutant: the status is set whatever the Create answers.
MutStoreBootstrapData ==
    /\ pc = "store"
    /\ secret' = IF secret = None /\ faults = MaxFaults THEN DataOf(my) ELSE secret
    /\ my' = [my EXCEPT !.ready = TRUE]
    /\ pc' = "patch"
    /\ (Fails \/ UNCHANGED faults)
    /\ UNCHANGED <<role, config, owner, cluster, caches, expires, clock, delay, due, old,
                   infraReady, queued, pivots>>

\* storeBootstrapData: the secret is created and the status set; for a secret
\* that exists the status is left as it is.
StoreBootstrapData ==
    /\ pc = "store"
    /\ \/ /\ secret = None
          /\ secret' = DataOf(my)
          /\ my' = [my EXCEPT !.ready = TRUE]
          /\ pc' = "patch"
          /\ UNCHANGED <<old, infraReady, queued, faults>>
       \/ /\ secret # None
          /\ pc' = "patch"
          /\ UNCHANGED <<secret, my, old, infraReady, queued, faults>>
       \/ Fails /\ ReturnError /\ (UNCHANGED secret \/ (secret = None /\ secret' = DataOf(my)))
    /\ UNCHANGED <<role, config, owner, cluster, caches, expires, clock, delay, due, pivots>>

\* Patch: the spec if it changed, then the status if it changed, each a call of
\* its own that may fail.  Spec.Config is one string and is patched as a whole.
Patch ==
    /\ pc = "patch"
    /\ \E failSpec, failStatus \in BOOLEAN :
          LET newSpec == DataOf(my) # DataOf(old)
              spec    == IF newSpec /\ ~failSpec THEN my ELSE config
              status  == IF my.ready # old.ready /\ ~failStatus THEN my ELSE config
              cost    == (IF failSpec THEN 1 ELSE 0) + (IF failStatus THEN 1 ELSE 0)
          IN  /\ failSpec => PatchFaults /\ newSpec
              /\ failStatus => PatchFaults /\ my.ready # old.ready
              /\ cost <= faults /\ faults' = faults - cost
              /\ config' = [token |-> spec.token, endpoint |-> spec.endpoint,
                            ready |-> status.ready]
              /\ queued' = (queued \/ cost > 0)
    /\ EndPass
    /\ UNCHANGED <<role, owner, cluster, secret, caches, expires, clock, delay, due, pivots>>

\* The manager restarts: the informers list afresh and everything is queued.
Restart ==
    /\ EndPass /\ queued' = TRUE /\ due' = None
    /\ configC' = config /\ ownerC' = owner

Crash ==
    /\ pc # "idle" /\ Fails
    /\ Restart
    /\ UNCHANGED <<stored, expires, clock, delay, pivots>>

-----------------------------------------------------------------------------
(* Events and time *)

SyncConfig ==
    /\ configC # config
    /\ configC' = config /\ queued' = TRUE
    /\ UNCHANGED <<stored, ownerC, expires, clock, delay, due, pass, faults, pivots>>

\* MachineToBootstrapMapFunc, MachinePoolToBootstrapMapFunc
SyncMachine ==
    /\ ownerC # owner
    /\ ownerC' = owner /\ queued' = TRUE
    /\ UNCHANGED <<stored, configC, expires, clock, delay, due, pass, faults, pivots>>

Requeue ==
    /\ due # None /\ due <= clock
    /\ due' = None /\ queued' = TRUE
    /\ UNCHANGED <<stored, caches, expires, clock, delay, pass, faults, pivots>>

\* An update of the Cluster or the Machine that changes nothing modelled, or the
\* resync of the informers.
Resync ==
    /\ ~queued /\ queued' = TRUE
    /\ UNCHANGED <<stored, caches, expires, clock, delay, due, pass, faults, pivots>>

\* A pass is due, or will be by an event that is on its way.
Late == queued \/ ~Fresh \/ (due # None /\ due <= clock)

Tick ==
    /\ clock < MaxClock /\ clock' = clock + 1
    /\ pc = "idle"
    /\ \/ ~Late /\ UNCHANGED delay
       \/ Late /\ delay > 0 /\ delay' = delay - 1
    /\ UNCHANGED <<stored, caches, expires, queued, due, pass, faults, pivots>>

-----------------------------------------------------------------------------
(* The controllers of Cluster API *)

\* ClusterToCritConfigs, which looks for Machines only: the config of a MachinePool
\* is not queued.  The first machine of the control plane, whose config this is in
\* a new cluster, initializes it.
ClusterProgress ==
    /\ \E f \in DOMAIN cluster :
          /\ ~cluster[f]
          /\ f = "initialized" /\ role = "controlplane" => owner.infraReady
          /\ cluster' = [cluster EXCEPT ![f] = TRUE]
    /\ queued' = (queued \/ role # "pool")
    /\ UNCHANGED <<role, config, owner, secret, caches, expires, clock, delay, due, pass, faults,
                   pivots>>

\* The controller of the owner sets the owner reference, copies the name of the data
\* secret once the config is ready, and then has the infrastructure created,
\* which takes any time.
MachineProgress ==
    /\ \/ ~owner.ownsConfig /\ owner' = [owner EXCEPT !.ownsConfig = TRUE]
       \/ /\ owner.ownsConfig /\ config.ready /\ ~owner.dataSecretName
          /\ owner' = [owner EXCEPT !.dataSecretName = TRUE]
       \/ /\ owner.dataSecretName /\ ~owner.infraReady
          /\ owner' = [owner EXCEPT !.infraReady = TRUE]
    /\ UNCHANGED <<role, config, cluster, secret, caches, expires, clock, delay, due, pass,
                   queued, faults, pivots>>

\* The objects are moved to another management cluster, which loses the status.
Pivot ==
    /\ pivots /\ pivots' = FALSE
    /\ pc = "idle"
    /\ config' = [config EXCEPT !.ready = FALSE]
    /\ configC' = config' /\ ownerC' = owner
    /\ queued' = TRUE /\ due' = None
    /\ UNCHANGED <<role, owner, cluster, secret, expires, clock, delay, pass, faults>>

Pass ==
    \/ Reconcile \/ CreateToken \/ RefreshToken \/ Certificates \/ StoreBootstrapData \/ Patch

Next ==
    \/ Pass \/ Crash \/ SyncConfig \/ SyncMachine \/ Requeue \/ Resync \/ Tick
    \/ ClusterProgress \/ MachineProgress \/ Pivot

Spec == Init /\ [][Next]_vars

\* The work queue and the informers never stop, and list again every SyncPeriod;
\* the cluster comes up and the machine controller does its part.
FairSpec ==
    /\ Spec
    /\ WF_vars(Pass) /\ WF_vars(SyncConfig) /\ WF_vars(SyncMachine) /\ WF_vars(Requeue)
    /\ WF_vars(Resync) /\ WF_vars(ClusterProgress) /\ WF_vars(MachineProgress)

-----------------------------------------------------------------------------
(* Properties *)

\* reconcileWorkerBootstrapToken refreshes a token that "has not been consumed"
\* (worker.go:227), "until the infrastructure has a chance to consume it" (:236):
\* the token in the data the machine will use does not expire before that, provided
\* that MaxDelay is less than the half of the time to live which a refresh leaves.
TokenAlive ==
    config.ready /\ ~owner.infraReady /\ secret.token # None =>
        expires[secret.token] > clock

Contract ==
    INSTANCE BootstrapContract
    WITH data <- secret, ready <- config.ready, given <- owner.dataSecretName

\* Seen from the Machine, passes that fail, crash, are repeated and lose their status
\* publish one data secret: what a machine was given is what was published first, and
\* nothing is announced before.
ImplementsContract == Contract!Spec

\* The comment on storeBootstrapData (helpers.go:33): it "sets the reference in the
\* configuration status and ready to true", so every config gets there.
BecomesReady == role = "mismatch" \/ <>config.ready

=============================================================================
