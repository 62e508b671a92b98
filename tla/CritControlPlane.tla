-------------------------- MODULE CritControlPlane --------------------------
(***************************************************************************)
(* The CritControlPlane controller (controllers/controlplane): one         *)
(* CritControlPlane object, its reconcile passes, and the actors that       *)
(* change the objects a pass reads and writes.                             *)
(*                                                                         *)
(* A pass (Reconcile and its deferred function) is cut at every call whose *)
(* effect or answer another actor can interleave with: reads of the shared *)
(* informer cache, calls to the management API server, calls to the        *)
(* workload cluster.  What a pass keeps in Go variables between two such   *)
(* calls is kept in pass variables here.  controller-runtime never runs    *)
(* two passes for one object at a time, so there is one pass.              *)
(*                                                                         *)
(* Simplifications:                                                        *)
(*  - a machine is an identifier; the labels it is created with (spec hash *)
(*    and failure domain) never change, so they are functions of it and    *)
(*    every snapshot of the machine list is five sets;                     *)
(*  - the machines that carry the control plane label are those            *)
(*    generateMachine created, and those an earlier CritControlPlane left  *)
(*    behind as orphans; no other controller owns one of them;             *)
(*  - creation timestamps are left out: all machines tie, so any machine   *)
(*    of the chosen failure domain may be the oldest;                      *)
(*  - the five certificates are one secret here (ClusterCertificates has   *)
(*    them one by one).                                                    *)
(***************************************************************************)
EXTENDS FailureDomains

CONSTANTS
    MachineId,      \* identifiers for control plane machines (bounds creation)
    WorkerId,       \* worker machines of the same cluster
    Hash,           \* values of CritControlPlaneSpec.Hash()
    FirstHash,      \* the one of the spec as created (hashes are only compared)
    BadConfig,      \* hashes of specs whose config is no ControlPlaneConfiguration
    Domains,        \* failure domains of Cluster.Status fit for the control plane
    MaxReplicas,    \* bound on Spec.Replicas
    MaxFaults,      \* bound on failed calls and crashes
    FaultKinds,     \* which of "rejected", "lost", "crash" may happen
    MaxEdits,       \* bound on what the user does: spec edits, pauses, deletion
    MaxBreaks,      \* bound on nodes that lose their health
    NodeFaults,     \* how a node may lose it: "unreachable", "apiserver", "manager"
    MayDelete,      \* whether the user may delete the CritControlPlane
    MayDeleteMachines,  \* whether the user may delete control plane machines
    Orphan,         \* machines of an earlier CritControlPlane of that name
    OrphanHash,     \* the hash labels they may have
    FreshReads,     \* whether a pass starts only once the caches are up to date
    NoMachine       \* no machine is being generated

ASSUME ReplicasAssumption == MaxReplicas \in Nat \ {0}
ASSUME BoundsAssumption == MaxFaults \in Nat /\ MaxEdits \in Nat /\ MaxBreaks \in Nat
ASSUME ConfigAssumption == BadConfig \subseteq Hash /\ FirstHash \in Hash \ BadConfig
ASSUME FaultAssumption == /\ FaultKinds \subseteq {"rejected", "lost", "crash"}
                          /\ NodeFaults \subseteq {"unreachable", "apiserver", "manager"}
ASSUME FlagAssumption == /\ MayDelete \in BOOLEAN /\ FreshReads \in BOOLEAN
                         /\ MayDeleteMachines \in BOOLEAN
ASSUME IdAssumption == /\ NoMachine \notin MachineId /\ IsFiniteSet(MachineId)
                       /\ Orphan \subseteq MachineId /\ OrphanHash \subseteq Hash \ BadConfig
ASSUME DomainAssumption == NoFD \notin Domains /\ IsFiniteSet(Domains)

VARIABLES
    \* objects in the management API server
    ccp,            \* the CritControlPlane
    cluster,        \* what the controller reads of the owner Cluster
    machines,       \* Machine objects
    hashOf,         \* hash label of every machine created so far
    domainOf,       \* Spec.FailureDomain of every machine created so far
    infra,          \* infrastructure objects cloned, by machine
    configs,        \* CritConfigs generated, by machine
    secrets,        \* "certs" and "kubeconfig"
    \* the controller's informer cache
    ccpC, machinesC, secretsC,
    \* the workload cluster
    nodes,          \* state of every machine's Node
    critConfig,     \* kube-system/crit-config exists
    \* the work queue and the pass
    queued,         \* the object is in the work queue, now or after a delay
    pc,             \* the call the pass makes next
    old,            \* the object as read, which the patch helper diffs against
    my,             \* the object as changed by the pass
    list,           \* the machines as listed by reconcileControlPlane or reconcileDelete
    goal,           \* what the pass does with the machines
    fds,            \* failure domains of the machines still to be created
    cur,            \* the machine being generated
    checked,        \* nodes ControlPlaneIsHealthy found without error
    victims,        \* machines still to be deleted
    again,          \* the pass returns an error or asks to be requeued
    \* bounds
    made, faults, edits, breaks

apiVars   == <<ccp, cluster, machines, hashOf, domainOf, infra, configs, secrets>>
cacheVars == <<ccpC, machinesC, secretsC>>
workVars  == <<nodes, critConfig>>
passVars  == <<pc, old, my, list, goal, fds, cur, checked, victims, again>>
boundVars == <<made, faults, edits, breaks>>
vars      == <<apiVars, cacheVars, workVars, queued, passVars, boundVars>>

-----------------------------------------------------------------------------
(* Types *)

Status == [replicas : Nat, updatedReplicas : Nat, readyReplicas : Nat,
           unavailableReplicas : Int, initialized : BOOLEAN, ready : BOOLEAN]

CCP == [exists : BOOLEAN, deleting : BOOLEAN, finalizer : BOOLEAN,
        replicas : 0..MaxReplicas, hash : Hash, status : Status]

Cluster == [ownerRef : BOOLEAN, paused : BOOLEAN,
            infrastructureReady : BOOLEAN, endpoint : BOOLEAN]

\* A list of Machine objects: which exist, which of them have Status.NodeRef,
\* which have a deletion timestamp, which have no controller reference, and the
\* worker machines.
MachineList == [live : SUBSET MachineId, nodeRef : SUBSET MachineId,
                deleting : SUBSET MachineId, orphan : SUBSET MachineId,
                workers : SUBSET WorkerId]

Secret == {"certs", "kubeconfig"}

\* "booting": registered, its static pods are not there yet; "unreachable":
\* tainted NoExecute; "apiserver", "manager": that static pod is not ready.
NodeState == {"none", "booting", "healthy", "unreachable", "apiserver", "manager"}

PC == {"idle", "prepare", "certs", "kubeconfig", "list", "own", "clusterStatus",
       "nodeChecks", "matchMachines", "clone", "config", "machine",
       "cleanupClone", "cleanupInfra", "cleanupConfig", "delete", "deleteVictims",
       "status", "remoteStatus", "patch"}

Goal == {"none", "init", "up", "down", "delete"}

EmptyList == [live |-> {}, nodeRef |-> {}, deleting |-> {}, orphan |-> {}, workers |-> {}]

ObjectTypes ==
    /\ ccp \in CCP /\ cluster \in Cluster
    /\ machines \in MachineList
    /\ hashOf \in [MachineId -> Hash]
    /\ domainOf \in [MachineId -> Domains \cup {NoFD}]
    /\ infra \in SUBSET MachineId /\ configs \in SUBSET MachineId
    /\ secrets \in SUBSET Secret

CacheTypes == ccpC \in CCP /\ machinesC \in MachineList /\ secretsC \in SUBSET Secret

WorkloadTypes == nodes \in [MachineId -> NodeState] /\ critConfig \in BOOLEAN

PassTypes ==
    /\ queued \in BOOLEAN /\ again \in BOOLEAN
    /\ pc \in PC /\ goal \in Goal
    /\ old \in CCP /\ my \in CCP
    /\ list \in MachineList
    /\ fds \in Seq(Domains \cup {NoFD})
    /\ cur \in MachineId \cup {NoMachine}
    /\ checked \in SUBSET MachineId /\ victims \in SUBSET MachineId

BoundTypes == made \in SUBSET MachineId /\ faults \in Nat /\ edits \in Nat /\ breaks \in Nat

\* Every variable has its type: no counter becomes negative, no field a value
\* its Go type does not have.
TypeOK == ObjectTypes /\ CacheTypes /\ WorkloadTypes /\ PassTypes /\ BoundTypes

-----------------------------------------------------------------------------
(* Initial state: the user has just created the CritControlPlane, for a new    *)
(* cluster or for one whose control plane machines run and have lost their      *)
(* CritControlPlane.                                                            *)

NewStatus == [replicas |-> 0, updatedReplicas |-> 0, readyReplicas |-> 0,
              unavailableReplicas |-> 0, initialized |-> FALSE, ready |-> FALSE]

\* What old and my hold between two passes.
NoCCP == [exists |-> FALSE, deleting |-> FALSE, finalizer |-> FALSE, replicas |-> 0,
          hash |-> CHOOSE h \in Hash : TRUE, status |-> NewStatus]

InitWith(left, hash) ==
    /\ \E r \in 1..MaxReplicas :
          ccp = [exists |-> TRUE, deleting |-> FALSE, finalizer |-> FALSE,
                 replicas |-> r, hash |-> FirstHash, status |-> NewStatus]
    /\ cluster = [ownerRef |-> FALSE, paused |-> FALSE,
                  infrastructureReady |-> left # {}, endpoint |-> left # {}]
    /\ machines = [EmptyList EXCEPT !.live = left, !.nodeRef = left, !.orphan = left,
                                    !.workers = WorkerId]
    /\ hashOf = [m \in MachineId |-> hash]
    /\ domainOf = [m \in MachineId |-> NoFD]
    /\ infra = left /\ configs = left
    /\ secrets = IF left = {} THEN {} ELSE Secret
    /\ ccpC = ccp /\ machinesC = machines /\ secretsC = secrets
    /\ nodes = [m \in MachineId |-> IF m \in left THEN "healthy" ELSE "none"]
    /\ critConfig = (left # {})
    /\ queued = TRUE
    /\ pc = "idle" /\ old = NoCCP /\ my = NoCCP /\ list = EmptyList /\ goal = "none"
    /\ fds = <<>> /\ cur = NoMachine /\ checked = {} /\ victims = {} /\ again = FALSE
    /\ made = left /\ faults = MaxFaults /\ edits = MaxEdits /\ breaks = MaxBreaks

Init == InitWith({}, FirstHash) \/ (Orphan # {} /\ \E h \in OrphanHash : InitWith(Orphan, h))

-----------------------------------------------------------------------------
(* Helpers *)

\* A call that fails: "rejected" before it took effect, "lost" after.
Fails(kind) == kind \in FaultKinds /\ faults > 0 /\ faults' = faults - 1

CachesFresh == ccpC = ccp /\ machinesC = machines /\ secretsC = secrets

\* The function returns: the deferred function of Reconcile runs next.
\* retry: an error, Requeue or RequeueAfter (all put the object back in the queue).
Return(retry) == pc' = "status" /\ again' = retry

\* ControlPlane.MachinesNeedingUpgrade
MachinesNeedingUpgrade == {m \in list.live : hashOf[m] # my.hash}

\* Mutant: a machine that is being deleted goes unnoticed.
MutHasDeletingMachine == FALSE

\* ControlPlane.HasDeletingMachine
HasDeletingMachine == list.live \cap list.deleting # {}

\* Some API server of the workload cluster answers.
Reachable == \E m \in MachineId : nodes[m] \in {"booting", "healthy", "manager"}

\* getControlPlaneNodes: the nodes with the master role.
ControlPlaneNodes == {m \in MachineId : nodes[m] # "none"}

\* Mutant: nodes that are not ready are subtracted instead of left out.
MutReadyNodes ==
    Cardinality({m \in MachineId : nodes[m] \in {"healthy", "apiserver", "manager"}})
        - Cardinality({m \in MachineId : nodes[m] \in {"booting", "unreachable"}})

\* util.IsNodeReady, counted over the control plane nodes.
ReadyNodes ==
    Cardinality({m \in MachineId : nodes[m] \in {"healthy", "apiserver", "manager"}})

\* checkStaticPodReadyCondition of the controller manager
ControllerManagerReady(s) == s # "manager"

\* ControlPlaneIsHealthy, for one node: the entry of the response map is nil.
\* The taint check and the pod lookups end the loop body; the result for the
\* controller manager then replaces the one for the API server.
NodeCheckOk(s) ==
    /\ s # "unreachable"
    /\ s # "booting"
    /\ ControllerManagerReady(s)

-----------------------------------------------------------------------------
(* Reconcile *)

\* The object is read, and the pass goes no further than the early returns, to
\* reconcileDelete, or to reconcileControlPlane.
Reconcile ==
    /\ pc = "idle" /\ queued
    /\ FreshReads => CachesFresh
    /\ queued' = FALSE
    /\ IF /\ ccpC.exists
          /\ cluster.ownerRef
          /\ ~cluster.paused
          /\ cluster.infrastructureReady
       THEN /\ old' = ccpC /\ my' = ccpC
            /\ \/ ccpC.deleting /\ pc' = "delete" /\ UNCHANGED again
               \/ ~ccpC.deleting /\ ccpC.hash \in BadConfig /\ Return(TRUE)
               \/ ~ccpC.deleting /\ ccpC.hash \notin BadConfig /\ pc' = "prepare"
                  /\ UNCHANGED again
       ELSE UNCHANGED <<pc, old, my, again>>
    /\ UNCHANGED <<apiVars, cacheVars, workVars, boundVars,
                   list, goal, fds, cur, checked, victims>>

\* AddFinalizer (in memory), then reconcileExternalReference, whose calls may fail.
ReconcileExternalReference ==
    /\ pc = "prepare"
    /\ my' = [my EXCEPT !.finalizer = TRUE]
    /\ \/ pc' = "certs" /\ UNCHANGED <<again, faults>>
       \/ Fails("rejected") /\ Return(TRUE)
    /\ UNCHANGED <<apiVars, cacheVars, workVars, queued, made, edits, breaks,
                   old, list, goal, fds, cur, checked, victims>>

\* Certificates are looked up in the cache and created when missing; without a
\* ControlPlaneEndpoint the pass ends here.
LookupOrGenerate ==
    /\ pc = "certs"
    /\ \/ /\ "certs" \in secretsC \/ "certs" \notin secrets
          /\ secrets' = secrets \cup {"certs"}
          /\ \/ cluster.endpoint /\ pc' = "kubeconfig" /\ UNCHANGED again
             \/ ~cluster.endpoint /\ Return(FALSE)
          /\ UNCHANGED faults
       \/ \* AlreadyExists
          /\ "certs" \notin secretsC /\ "certs" \in secrets
          /\ Return(TRUE)
          /\ UNCHANGED <<secrets, faults>>
       \/ /\ "certs" \notin secretsC
          /\ \/ Fails("rejected") /\ UNCHANGED secrets
             \/ Fails("lost") /\ secrets' = secrets \cup {"certs"}
          /\ Return(TRUE)
    /\ UNCHANGED <<ccp, cluster, machines, hashOf, domainOf, infra, configs,
                   cacheVars, workVars, queued, made, edits, breaks,
                   old, my, list, goal, fds, cur, checked, victims>>

\* Mutant: the pass goes on after creating the secret.
MutReconcileControlPlaneKubeconfig ==
    /\ pc = "kubeconfig"
    /\ secrets' = secrets \cup {"kubeconfig"}
    /\ pc' = "list"
    /\ UNCHANGED <<ccp, cluster, machines, hashOf, domainOf, infra, configs,
                   cacheVars, workVars, queued, boundVars,
                   old, my, list, goal, fds, cur, checked, victims, again>>

\* The kubeconfig secret, created when the cache does not have it.  After the
\* creation the function still returns the NotFound error of the lookup, so
\* that pass ends with an error whether or not the creation succeeded; without
\* the cluster CA in the cache it is retried later.
ReconcileControlPlaneKubeconfig ==
    /\ pc = "kubeconfig"
    /\ \/ /\ "kubeconfig" \in secretsC
          /\ pc' = "list"
          /\ UNCHANGED <<secrets, again, faults>>
       \/ /\ "kubeconfig" \notin secretsC /\ "certs" \in secretsC
          /\ secrets' = secrets \cup {"kubeconfig"}
          /\ Return(TRUE)
          /\ UNCHANGED faults
       \/ /\ "kubeconfig" \notin secretsC /\ "certs" \notin secretsC
          /\ Return(TRUE)
          /\ UNCHANGED <<secrets, faults>>
       \/ /\ "kubeconfig" \notin secretsC /\ "certs" \in secretsC
          /\ Fails("rejected")
          /\ Return(TRUE)
          /\ UNCHANGED secrets
    /\ UNCHANGED <<ccp, cluster, machines, hashOf, domainOf, infra, configs,
                   cacheVars, workVars, queued, made, edits, breaks,
                   old, my, list, goal, fds, cur, checked, victims>>

\* What reconcileControlPlane does with the machines it listed: it upgrades,
\* initializes or has nothing to do.
Decide(l) ==
    LET owned    == l.live
        outdated == {m \in owned : hashOf[m] # my.hash}
    IN  \/ /\ outdated # {}
           /\ pc' = "clusterStatus"
           /\ UNCHANGED <<goal, fds, again>>
        \/ /\ outdated = {} /\ owned = {} /\ my.replicas > 0
           /\ goal' = "init"
           /\ fds' \in NFailureDomainsWithFewestMachines(Domains, owned, domainOf, my.replicas)
           /\ pc' = "clone"
           /\ UNCHANGED again
        \/ \* as many as desired, or neither none nor as many as desired
           /\ outdated = {} /\ (owned # {} \/ my.replicas = 0)
           /\ Return(FALSE)
           /\ UNCHANGED <<goal, fds>>

\* The machines with the label of the control plane are listed from the cache.
ListMachines ==
    /\ pc = "list"
    /\ list' = machinesC
    /\ \/ machinesC.orphan # {} /\ pc' = "own" /\ UNCHANGED <<goal, fds, again>>
       \/ machinesC.orphan = {} /\ Decide(machinesC)
    /\ UNCHANGED <<apiVars, cacheVars, workVars, queued, boundVars,
                   old, my, cur, checked, victims>>

\* An Update is refused when the machine is no longer as it was read.
Outdated(m) ==
    \E f \in {"live", "nodeRef", "deleting", "orphan"} : (m \in list[f]) # (m \in machines[f])

\* Mutant: the errors are collected and forgotten.
MutAllOwned(failed) == TRUE

\* No Update failed.
AllOwned(failed) == failed = {}

\* ControlPlane.EnsureOwnership: one Update per machine without controller
\* reference; all are tried, and any error ends the pass.
EnsureOwnership ==
    /\ pc = "own"
    /\ LET conflicts == {m \in list.orphan : Outdated(m)}
       IN  \E failed \in SUBSET list.orphan, lost \in BOOLEAN :
             /\ conflicts \subseteq failed /\ Cardinality(failed \ conflicts) <= 1
             /\ \/ failed = conflicts /\ ~lost /\ UNCHANGED faults
                \/ failed # conflicts /\ Fails(IF lost THEN "lost" ELSE "rejected")
             /\ machines' = [machines EXCEPT !.orphan =
                                @ \ (list.orphan \ (IF lost THEN conflicts ELSE failed))]
             /\ \/ AllOwned(failed) /\ Decide(list)
                \/ ~AllOwned(failed) /\ Return(TRUE) /\ UNCHANGED <<goal, fds>>
    /\ UNCHANGED <<ccp, cluster, hashOf, domainOf, infra, configs, secrets,
                   cacheVars, workVars, queued, made, edits, breaks,
                   old, my, list, cur, checked, victims>>

-----------------------------------------------------------------------------
(* upgradeControlPlane *)

\* ClusterStatus counts the control plane nodes of the workload cluster.
ClusterStatus ==
    /\ pc = "clusterStatus"
    /\ \/ /\ Reachable
          /\ goal' = IF Cardinality(ControlPlaneNodes) <= my.replicas THEN "up" ELSE "down"
          /\ pc' = "nodeChecks"
          /\ UNCHANGED <<again, faults>>
       \/ ~Reachable /\ Return(TRUE) /\ UNCHANGED <<goal, faults>>
       \/ Fails("rejected") /\ Return(TRUE) /\ UNCHANGED goal
    /\ UNCHANGED <<apiVars, cacheVars, workVars, queued, made, edits, breaks,
                   old, my, list, fds, cur, checked, victims>>

\* TargetClusterControlPlaneIsHealthy, first half: ControlPlaneIsHealthy checks
\* the nodes; any error ends the pass.
ControlPlaneIsHealthy ==
    /\ pc = "nodeChecks"
    /\ \/ /\ Reachable
          /\ \A m \in ControlPlaneNodes : NodeCheckOk(nodes[m])
          /\ checked' = ControlPlaneNodes
          /\ pc' = "matchMachines"
          /\ UNCHANGED <<again, faults>>
       \/ /\ ~Reachable \/ \E m \in ControlPlaneNodes : ~NodeCheckOk(nodes[m])
          /\ Return(TRUE)
          /\ UNCHANGED <<checked, faults>>
       \/ Fails("rejected") /\ Return(TRUE) /\ UNCHANGED checked
    /\ UNCHANGED <<apiVars, cacheVars, workVars, queued, made, edits, breaks,
                   old, my, list, goal, fds, cur, victims>>

\* Mutant: a machine without NodeRef passes.
MutOneToOne(l) ==
    /\ l.live \subseteq checked
    /\ Cardinality(checked) = Cardinality(l.live)

\* healthCheck: every machine in the cache has a NodeRef to a checked node, and
\* there are no more nodes than machines.
OneToOne(l) ==
    /\ l.live \subseteq l.nodeRef
    /\ l.live \subseteq checked
    /\ Cardinality(checked) = Cardinality(l.live)

\* Mutant: machines that need no upgrade are candidates too.
MutSelectMachineForScaleDown ==
    MachineInFailureDomainWithMostMachines(Domains, list.live, list.live, domainOf,
                                           [m \in MachineId |-> 0])

\* selectMachineForScaleDown; the empty set is its error.
SelectMachineForScaleDown ==
    LET candidates == IF MachinesNeedingUpgrade # {} THEN MachinesNeedingUpgrade ELSE list.live
    IN  MachineInFailureDomainWithMostMachines(Domains, list.live, candidates, domainOf,
                                               [m \in MachineId |-> 0])

\* TargetClusterControlPlaneIsHealthy, second half.  In scaleUpControlPlane, and
\* the first time in scaleDownControlPlane, it is part of reconcileHealth, which
\* then looks for a deleting machine in the list read at the start of the pass.
MatchMachines ==
    /\ pc = "matchMachines"
    /\ \/ /\ ~OneToOne(machinesC)
          /\ Return(TRUE)
          /\ UNCHANGED <<fds, victims>>
       \/ /\ OneToOne(machinesC) /\ victims = {} /\ HasDeletingMachine
          /\ Return(TRUE)
          /\ UNCHANGED <<fds, victims>>
       \/ /\ OneToOne(machinesC) /\ goal = "up" /\ ~HasDeletingMachine
          /\ \E d \in FailureDomainWithFewestMachines(Domains, list.live, domainOf) :
                fds' = <<d>>
          /\ pc' = "clone"
          /\ UNCHANGED <<victims, again>>
       \/ /\ OneToOne(machinesC) /\ goal = "down" /\ victims = {} /\ ~HasDeletingMachine
          /\ \E m \in SelectMachineForScaleDown : victims' = {m}
          /\ pc' = "nodeChecks"
          /\ UNCHANGED <<fds, again>>
       \/ /\ OneToOne(machinesC) /\ goal = "down" /\ victims # {}
          /\ pc' = "deleteVictims"
          /\ UNCHANGED <<fds, victims, again>>
    /\ UNCHANGED <<apiVars, cacheVars, workVars, queued, boundVars,
                   old, my, list, goal, cur, checked>>

-----------------------------------------------------------------------------
(* cloneConfigsAndGenerateMachine *)

\* external.CloneTemplate; a failure returns early, nothing is cleaned up.
CloneTemplate ==
    /\ pc = "clone"
    /\ \E m \in MachineId \ made :
          \/ /\ infra' = infra \cup {m} /\ made' = made \cup {m}
             /\ cur' = m
             /\ pc' = "config"
             /\ UNCHANGED <<again, faults>>
          \/ /\ Fails("rejected")
             /\ Return(TRUE)
             /\ UNCHANGED <<infra, made, cur>>
          \/ /\ Fails("lost")
             /\ infra' = infra \cup {m} /\ made' = made \cup {m}
             /\ Return(TRUE)
             /\ UNCHANGED cur
    /\ UNCHANGED <<ccp, cluster, machines, hashOf, domainOf, configs, secrets,
                   cacheVars, workVars, queued, edits, breaks,
                   old, my, list, goal, fds, checked, victims>>

\* generateCritConfig; on an error there is no reference to the config, and the
\* cleanup covers the infrastructure object only.
GenerateCritConfig ==
    /\ pc = "config"
    /\ \/ /\ configs' = configs \cup {cur}
          /\ pc' = "machine"
          /\ UNCHANGED faults
       \/ Fails("rejected") /\ pc' = "cleanupClone" /\ UNCHANGED configs
       \/ Fails("lost") /\ pc' = "cleanupClone" /\ configs' = configs \cup {cur}
    /\ UNCHANGED <<ccp, cluster, machines, hashOf, domainOf, infra, secrets,
                   cacheVars, workVars, queued, made, edits, breaks,
                   old, my, list, goal, fds, cur, checked, victims, again>>

\* generateMachine; initialization goes on with the next domain, otherwise the
\* pass asks to be requeued.
GenerateMachine ==
    /\ pc = "machine"
    /\ \/ /\ machines' = [machines EXCEPT !.live = @ \cup {cur}]
          /\ hashOf' = [hashOf EXCEPT ![cur] = my.hash]
          /\ domainOf' = [domainOf EXCEPT ![cur] = Head(fds)]
          /\ fds' = Tail(fds)
          /\ cur' = NoMachine
          /\ \/ Len(fds) > 1 /\ pc' = "clone" /\ UNCHANGED again
             \/ Len(fds) = 1 /\ Return(TRUE)
          /\ UNCHANGED faults
       \/ /\ Fails("rejected")
          /\ pc' = "cleanupInfra"
          /\ UNCHANGED <<machines, hashOf, domainOf, fds, cur, again>>
       \/ /\ Fails("lost")
          /\ machines' = [machines EXCEPT !.live = @ \cup {cur}]
          /\ hashOf' = [hashOf EXCEPT ![cur] = my.hash]
          /\ domainOf' = [domainOf EXCEPT ![cur] = Head(fds)]
          /\ pc' = "cleanupInfra"
          /\ UNCHANGED <<fds, cur, again>>
    /\ UNCHANGED <<ccp, cluster, infra, configs, secrets, cacheVars, workVars, queued,
                   made, edits, breaks, old, my, list, goal, checked, victims>>

\* cleanupFromGeneration: each known reference is deleted, one failure does not
\* keep the next from being tried, and the error of the generation is returned.
CleanupInfra ==
    /\ pc \in {"cleanupClone", "cleanupInfra"}
    /\ \/ infra' = infra \ {cur} /\ UNCHANGED faults
       \/ Fails("rejected") /\ UNCHANGED infra
    /\ \/ pc = "cleanupInfra" /\ pc' = "cleanupConfig" /\ UNCHANGED again
       \/ pc = "cleanupClone" /\ Return(TRUE)
    /\ UNCHANGED <<ccp, cluster, machines, hashOf, domainOf, configs, secrets,
                   cacheVars, workVars, queued, made, edits, breaks,
                   old, my, list, goal, fds, cur, checked, victims>>

\* Mutant: only the infrastructure object is cleaned up.
MutCleanupConfig ==
    /\ pc = "cleanupConfig"
    /\ Return(TRUE)
    /\ UNCHANGED <<apiVars, cacheVars, workVars, queued, boundVars,
                   old, my, list, goal, fds, cur, checked, victims>>

\* The CritConfig is deleted second.
CleanupConfig ==
    /\ pc = "cleanupConfig"
    /\ \/ configs' = configs \ {cur} /\ UNCHANGED faults
       \/ Fails("rejected") /\ UNCHANGED configs
    /\ Return(TRUE)
    /\ UNCHANGED <<ccp, cluster, machines, hashOf, domainOf, infra, secrets,
                   cacheVars, workVars, queued, made, edits, breaks,
                   old, my, list, goal, fds, cur, checked, victims>>

-----------------------------------------------------------------------------
(* reconcileDelete, and the Delete calls it shares with scaleDownControlPlane *)

\* Mutant: machines that are being deleted no longer count.
MutOwnedGone(l) == l.live \subseteq l.deleting

\* No control plane machine remains.
OwnedGone(l) == l.live = {}

\* Mutant: the wait for the workers does not requeue.
MutWaitForWorkers == Return(FALSE)

\* RequeueAfterError{deleteRequeueAfter}
WaitForWorkers == Return(TRUE)

\* All machines of the cluster are listed from the cache: without control plane
\* machines the finalizer goes, with workers left the pass waits for them.
ReconcileDelete ==
    /\ pc = "delete"
    /\ list' = machinesC
    /\ \/ /\ OwnedGone(machinesC)
          /\ my' = [my EXCEPT !.finalizer = FALSE]
          /\ Return(FALSE)
          /\ UNCHANGED <<goal, victims>>
       \/ /\ ~OwnedGone(machinesC) /\ machinesC.workers # {}
          /\ WaitForWorkers
          /\ UNCHANGED <<my, goal, victims>>
       \/ /\ ~OwnedGone(machinesC) /\ machinesC.workers = {}
          /\ goal' = "delete"
          /\ victims' = machinesC.live \ machinesC.deleting
          /\ \/ victims' # {} /\ pc' = "deleteVictims" /\ UNCHANGED again
             \/ victims' = {} /\ Return(TRUE)
          /\ UNCHANGED my
    /\ UNCHANGED <<apiVars, cacheVars, workVars, queued, boundVars, old, fds, cur, checked>>

\* Client.Delete of one machine; NotFound is no error, any other error does not
\* keep the next machine from being deleted.  Either way the pass is retried.
DeleteMachine ==
    /\ pc = "deleteVictims"
    /\ \E v \in victims :
          /\ \/ /\ machines' = [machines EXCEPT !.deleting = @ \cup ({v} \cap machines.live)]
                /\ UNCHANGED faults
             \/ Fails("rejected") /\ UNCHANGED machines
          /\ victims' = victims \ {v}
          /\ \/ victims' # {} /\ UNCHANGED <<pc, again>>
             \/ victims' = {} /\ Return(TRUE)
    /\ UNCHANGED <<ccp, cluster, hashOf, domainOf, infra, configs, secrets,
                   cacheVars, workVars, queued, made, edits, breaks,
                   old, my, list, goal, fds, cur, checked>>

-----------------------------------------------------------------------------
(* The deferred function of Reconcile: updateStatus, Patch, requeue *)

\* updateStatus, first part: what the management cluster alone can tell.
UpdateStatus ==
    /\ pc = "status"
    /\ LET owned    == machinesC.live
           replicas == Cardinality(owned)
           updated  == Cardinality({m \in owned : hashOf[m] = my.hash})
       IN  my' = [my EXCEPT !.status = [@ EXCEPT !.replicas = replicas,
                                                 !.updatedReplicas = updated,
                                                 !.readyReplicas = 0,
                                                 !.unavailableReplicas = replicas]]
    /\ pc' = IF my.deleting THEN "patch" ELSE "remoteStatus"
    /\ UNCHANGED <<apiVars, cacheVars, workVars, queued, boundVars,
                   old, list, goal, fds, cur, checked, victims, again>>

\* Unavailable is what the machines listed exceed the ready nodes by; Initialized
\* is set once crit-config exists and stays set.
RemoteStatus(status) ==
    [status EXCEPT !.readyReplicas = ReadyNodes,
                   !.unavailableReplicas = status.replicas - ReadyNodes,
                   !.initialized = (@ \/ critConfig),
                   !.ready = (ReadyNodes # 0)]

\* updateStatus, second part: ready control plane nodes, and whether crit-config
\* exists.  Without an answer the fields keep what the first part gave them.
UpdateRemoteStatus ==
    /\ pc = "remoteStatus"
    /\ \/ /\ Reachable
          /\ my' = [my EXCEPT !.status = RemoteStatus(@)]
          /\ UNCHANGED <<again, faults>>
       \/ ~Reachable /\ again' = TRUE /\ UNCHANGED <<my, faults>>
       \/ Fails("rejected") /\ again' = TRUE /\ UNCHANGED my
    /\ pc' = "patch"
    /\ UNCHANGED <<apiVars, cacheVars, workVars, queued, made, edits, breaks,
                   old, list, goal, fds, cur, checked, victims>>

\* Mutant: the whole status is written.
MutMergeStatus(current, before, after) == after

\* A merge patch holds the fields that differ from the object as read, so a
\* field the pass did not change keeps the value it has in the API server.
MergeStatus(current, before, after) ==
    [f \in DOMAIN current |-> IF after[f] = before[f] THEN current[f] ELSE after[f]]

\* The API server refuses a new finalizer on an object that is being deleted.
MayPatchFinalizer == ccp.exists /\ (my.finalizer /\ ccp.deleting => ccp.finalizer)

\* patchHelper.Patch: metadata and status are two calls, and the second is made
\* even if the first fails.  An object that is being deleted goes with its last
\* finalizer.  The pass then ends, and the object is queued again after an
\* error, on request, or because it is not ready.
Patch ==
    /\ pc = "patch"
    /\ \E failMetadata, failStatus \in BOOLEAN :
         LET newFinalizer == my.finalizer # old.finalizer
             newStatus    == my.status # old.status
             metadataOk   == newFinalizer /\ ~failMetadata /\ MayPatchFinalizer
             gone         == metadataOk /\ ~my.finalizer
             statusOk     == newStatus /\ ~failStatus /\ ccp.exists /\ ~gone
             failed       == (newFinalizer /\ ~metadataOk) \/ (newStatus /\ ~statusOk)
             cost         == (IF failMetadata THEN 1 ELSE 0) + (IF failStatus THEN 1 ELSE 0)
         IN  /\ failMetadata => newFinalizer
             /\ failStatus => newStatus
             /\ cost > 0 => "rejected" \in FaultKinds
             /\ cost <= faults
             /\ faults' = faults - cost
             /\ ccp' = [ccp EXCEPT
                          !.exists = @ /\ ~gone,
                          !.finalizer = IF metadataOk THEN my.finalizer ELSE @,
                          !.status = IF statusOk THEN MergeStatus(@, old.status, my.status)
                                                 ELSE @]
             /\ queued' = (queued \/ again \/ failed \/ (~my.deleting /\ ~my.status.ready))
    /\ pc' = "idle" /\ old' = NoCCP /\ my' = NoCCP /\ list' = EmptyList /\ goal' = "none"
    /\ fds' = <<>> /\ cur' = NoMachine /\ checked' = {} /\ victims' = {} /\ again' = FALSE
    /\ UNCHANGED <<cluster, machines, hashOf, domainOf, infra, configs, secrets,
                   cacheVars, workVars, made, edits, breaks>>

\* The manager crashes in the middle of a pass.  On restart the informers list
\* everything before the first pass, and every object is queued.
Crash ==
    /\ pc # "idle"
    /\ Fails("crash")
    /\ ccpC' = ccp /\ machinesC' = machines /\ secretsC' = secrets
    /\ queued' = TRUE
    /\ pc' = "idle" /\ old' = NoCCP /\ my' = NoCCP /\ list' = EmptyList /\ goal' = "none"
    /\ fds' = <<>> /\ cur' = NoMachine /\ checked' = {} /\ victims' = {} /\ again' = FALSE
    /\ UNCHANGED <<apiVars, workVars, made, edits, breaks>>

-----------------------------------------------------------------------------
(* The informers: every kind has its own watch, and reports at its own pace. *)
(* Events of the CritControlPlane and of the Machines it controls queue the  *)
(* object; events of orphans, of worker machines and of secrets do not.      *)

SyncCCP ==
    /\ ccpC # ccp
    /\ ccpC' = ccp /\ queued' = TRUE
    /\ UNCHANGED <<apiVars, machinesC, secretsC, workVars, passVars, boundVars>>

\* The part of a list whose changes queue the object.
Watched(l, unwatched) ==
    [live |-> l.live \ unwatched, nodeRef |-> l.nodeRef \ unwatched,
     deleting |-> l.deleting \ unwatched]

SyncMachines ==
    /\ machinesC # machines
    /\ machinesC' = machines
    /\ LET unwatched == machinesC.orphan \ (machines.live \ machines.orphan)
       IN  queued' = \/ queued
                     \/ Watched(machinesC, unwatched) # Watched(machines, unwatched)
                     \/ unwatched # machinesC.orphan
    /\ UNCHANGED <<apiVars, ccpC, secretsC, workVars, passVars, boundVars>>

SyncSecrets ==
    /\ secretsC # secrets
    /\ secretsC' = secrets
    /\ UNCHANGED <<apiVars, ccpC, machinesC, workVars, queued, passVars, boundVars>>

-----------------------------------------------------------------------------
(* The user *)

EditSpec ==
    /\ ccp.exists /\ ~ccp.deleting /\ edits > 0
    /\ \E h \in Hash, r \in 0..MaxReplicas :
          /\ <<h, r>> # <<ccp.hash, ccp.replicas>>
          /\ ccp' = [ccp EXCEPT !.hash = h, !.replicas = r]
    /\ edits' = edits - 1
    /\ UNCHANGED <<cluster, machines, hashOf, domainOf, infra, configs, secrets,
                   cacheVars, workVars, queued, passVars, made, faults, breaks>>

DeleteCCP ==
    /\ MayDelete
    /\ ccp.exists /\ ~ccp.deleting /\ edits > 0
    /\ ccp' = [ccp EXCEPT !.exists = ccp.finalizer, !.deleting = ccp.finalizer]
    /\ edits' = edits - 1
    /\ UNCHANGED <<cluster, machines, hashOf, domainOf, infra, configs, secrets,
                   cacheVars, workVars, queued, passVars, made, faults, breaks>>

DeleteMachineByHand(m) ==
    /\ MayDeleteMachines
    /\ m \in machines.live \ machines.deleting /\ edits > 0
    /\ machines' = [machines EXCEPT !.deleting = @ \cup {m}]
    /\ edits' = edits - 1
    /\ UNCHANGED <<ccp, cluster, hashOf, domainOf, infra, configs, secrets,
                   cacheVars, workVars, queued, passVars, made, faults, breaks>>

\* Pausing costs an edit, resuming does not: a pause always ends.
PauseCluster ==
    /\ \/ ~cluster.paused /\ edits > 0 /\ edits' = edits - 1
       \/ cluster.paused /\ UNCHANGED edits
    /\ cluster' = [cluster EXCEPT !.paused = ~@]
    /\ queued' = TRUE
    /\ UNCHANGED <<ccp, machines, hashOf, domainOf, infra, configs, secrets,
                   cacheVars, workVars, passVars, made, faults, breaks>>

\* Worker machines belong to other controllers, which remove them.
RemoveWorker ==
    /\ \E w \in machines.workers : machines' = [machines EXCEPT !.workers = @ \ {w}]
    /\ UNCHANGED <<ccp, cluster, hashOf, domainOf, infra, configs, secrets,
                   cacheVars, workVars, queued, passVars, boundVars>>

-----------------------------------------------------------------------------
(* The controllers of Cluster API and of the infrastructure provider *)

\* The cluster controller sets the owner reference; the infrastructure provider
\* reports the infrastructure ready and, no later, the endpoint.
ClusterProgress ==
    /\ \E f \in {"ownerRef", "infrastructureReady", "endpoint"} :
          ~cluster[f] /\ cluster' = [cluster EXCEPT ![f] = TRUE]
    /\ queued' = TRUE
    /\ UNCHANGED <<ccp, machines, hashOf, domainOf, infra, configs, secrets,
                   cacheVars, workVars, passVars, boundVars>>

\* A machine whose infrastructure and bootstrap config exist becomes a node.
NodeJoins(m) ==
    /\ m \in machines.live \ machines.deleting
    /\ m \in infra \cap configs
    /\ nodes[m] = "none"
    /\ nodes' = [nodes EXCEPT ![m] = "booting"]
    /\ UNCHANGED <<apiVars, cacheVars, critConfig, queued, passVars, boundVars>>

NodeRecovers(m) ==
    /\ nodes[m] \notin {"none", "healthy"}
    /\ nodes' = [nodes EXCEPT ![m] = "healthy"]
    /\ UNCHANGED <<apiVars, cacheVars, critConfig, queued, passVars, boundVars>>

NodeBreaks(m) ==
    /\ breaks > 0 /\ breaks' = breaks - 1
    /\ nodes[m] = "healthy"
    /\ \E s \in NodeFaults : nodes' = [nodes EXCEPT ![m] = s]
    /\ UNCHANGED <<apiVars, cacheVars, critConfig, queued, passVars, made, faults, edits>>

\* crit writes its ConfigMap from the first control plane node.
UploadCritConfig ==
    /\ ~critConfig /\ Reachable
    /\ critConfig' = TRUE
    /\ UNCHANGED <<apiVars, cacheVars, nodes, queued, passVars, boundVars>>

SetNodeRef(m) ==
    /\ m \in machines.live \ machines.deleting
    /\ m \notin machines.nodeRef
    /\ nodes[m] # "none"
    /\ machines' = [machines EXCEPT !.nodeRef = @ \cup {m}]
    /\ UNCHANGED <<ccp, cluster, hashOf, domainOf, infra, configs, secrets,
                   cacheVars, workVars, queued, passVars, boundVars>>

\* The machine controller removes the node of a deleting machine, then what
\* belongs to the machine and the machine itself.
RemoveNode(m) ==
    /\ m \in machines.deleting
    /\ nodes[m] # "none"
    /\ nodes' = [nodes EXCEPT ![m] = "none"]
    /\ UNCHANGED <<apiVars, cacheVars, critConfig, queued, passVars, boundVars>>

RemoveMachine(m) ==
    /\ m \in machines.deleting
    /\ nodes[m] = "none"
    /\ machines' = [machines EXCEPT !.live = @ \ {m}, !.nodeRef = @ \ {m},
                                    !.deleting = @ \ {m}, !.orphan = @ \ {m}]
    /\ infra' = infra \ {m} /\ configs' = configs \ {m}
    /\ UNCHANGED <<ccp, cluster, hashOf, domainOf, secrets,
                   cacheVars, workVars, queued, passVars, boundVars>>

\* The garbage collector deletes what a vanished CritControlPlane owns.
CollectGarbage(m) ==
    /\ ~ccp.exists
    /\ \/ /\ m \in machines.live \ (machines.deleting \cup machines.orphan)
          /\ machines' = [machines EXCEPT !.deleting = @ \cup {m}]
          /\ UNCHANGED <<infra, configs>>
       \/ /\ m \in (infra \cup configs) \ machines.live
          /\ infra' = infra \ {m} /\ configs' = configs \ {m}
          /\ UNCHANGED machines
    /\ UNCHANGED <<ccp, cluster, hashOf, domainOf, secrets,
                   cacheVars, workVars, queued, passVars, boundVars>>

-----------------------------------------------------------------------------
(* Specification *)

Pass ==
    \/ Reconcile \/ ReconcileExternalReference \/ LookupOrGenerate
    \/ ReconcileControlPlaneKubeconfig \/ ListMachines \/ EnsureOwnership
    \/ ClusterStatus \/ ControlPlaneIsHealthy \/ MatchMachines
    \/ CloneTemplate \/ GenerateCritConfig \/ GenerateMachine
    \/ CleanupInfra \/ CleanupConfig
    \/ ReconcileDelete \/ DeleteMachine
    \/ UpdateStatus \/ UpdateRemoteStatus \/ Patch

Informers == SyncCCP \/ SyncMachines \/ SyncSecrets

User == EditSpec \/ DeleteCCP \/ PauseCluster \/ RemoveWorker

Machinery(m) ==
    \/ NodeJoins(m) \/ NodeRecovers(m) \/ SetNodeRef(m)
    \/ RemoveNode(m) \/ RemoveMachine(m) \/ CollectGarbage(m)

Next ==
    \/ Pass \/ Crash \/ Informers \/ User \/ ClusterProgress \/ UploadCritConfig
    \/ \E m \in MachineId : Machinery(m) \/ NodeBreaks(m) \/ DeleteMachineByHand(m)

Spec == Init /\ [][Next]_vars

\* The work queue and the informers never stop; the other controllers, the
\* nodes and, once deletion is asked for, the owners of the workers do their
\* part.  Faults, edits, deletions and breaks need not happen.
Fairness ==
    /\ WF_vars(Pass)
    /\ WF_vars(SyncCCP) /\ WF_vars(SyncMachines) /\ WF_vars(SyncSecrets)
    /\ WF_vars(ClusterProgress) /\ WF_vars(UploadCritConfig)
    /\ WF_vars(cluster.paused /\ PauseCluster)
    /\ WF_vars(ccp.deleting /\ RemoveWorker)
    /\ \A m \in MachineId : WF_vars(Machinery(m))

FairSpec == Spec /\ Fairness

-----------------------------------------------------------------------------
(* Properties *)

\* reconcileDelete drops the finalizer on the strength of a cached list: no
\* control plane machine exists in the API server when the finalizer goes.
FinalizerGuardsMachines ==
    [][ccp.finalizer /\ ~ccp'.finalizer => machines.live = {}]_vars

\* AddFinalizer only changes the object in memory and the patch comes last, yet
\* no pass creates a machine for an object whose finalizer is not stored.
MachinesHaveFinalizer == machines.live # {} => ccp.finalizer

\* scaleUpControlPlane creates a machine only when every other machine has a
\* NodeRef and none is being deleted (the comments of upgradeControlPlane and
\* reconcileHealth).
ScaleUpWaits ==
    [][(pc = "machine" /\ goal = "up" /\ machines' # machines /\ ccp.exists) =>
          \A m \in machines.live : m \in machines.nodeRef /\ m \notin machines.deleting]_vars

\* scaleDownControlPlane deletes only surplus machines: what is left and not
\* being deleted is enough for Spec.Replicas.
ScaleDownKeepsReplicas ==
    [][(pc = "deleteVictims" /\ goal = "down" /\ machines' # machines /\ ccp.exists) =>
          Cardinality(machines'.live \ machines'.deleting) >= my.replicas]_vars

\* cleanupFromGeneration: when a pass has ended, whichever single call of it was
\* rejected, every infrastructure object and config belongs to a machine, and
\* every machine that is not being deleted has both.  (Once the CritControlPlane
\* is gone the rest is up to the garbage collector.)
NothingDangles ==
    pc = "idle" /\ ccp.exists =>
        /\ (infra \cup configs) \subseteq machines.live
        /\ (machines.live \ machines.deleting) \subseteq (infra \cap configs)

\* EnsureOwnership comes before everything that changes the control plane: no pass
\* adds a machine, or removes one to scale down, while a machine is left without
\* owner, whatever became of the Updates.
ActsOnOwned ==
    [][(pc \in {"machine", "deleteVictims"} /\ goal # "delete" /\ machines' # machines) =>
          machines.orphan = {}]_vars

\* Status.Initialized is never taken back, whatever a pass read from a stale cache.
InitializedOnce == [][ccp.status.initialized => ccp'.status.initialized]_vars

\* upgradeControlPlane and EnsureOwnership: in the end every machine has the hash of
\* the spec and is owned, also those that were there before, whose events do not
\* queue the control plane.
UpgradeCompletes ==
    <>[](\/ ~ccp.exists \/ ccp.deleting \/ ccp.hash \in BadConfig
         \/ \A m \in machines.live : hashOf[m] = ccp.hash /\ m \notin machines.orphan)

\* reconcileDelete: a deleted CritControlPlane goes away.
DeletionCompletes == ccp.deleting ~> ~ccp.exists

\* A control plane gets the machines its spec asks for: one that did not get
\* initialized "should fall through to finish initialization" (the comment in
\* reconcileControlPlane, controlplane.go:96).
InitializationCompletes ==
    <>(~ccp.exists \/ ccp.deleting \/ Cardinality(machines.live) = ccp.replicas)

=============================================================================
