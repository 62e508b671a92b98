-------------------------- MODULE ClusterBootstrap --------------------------
(***************************************************************************)
(* How a new cluster comes up: the CritConfig of its first control plane   *)
(* machine and that of a worker (or a pool of workers), reconciled by      *)
(* concurrent passes of one controller, meeting in the Cluster object.     *)
(*                                                                         *)
(* The worker is the CritConfig of the extended module, the control plane  *)
(* another instance of it.  They share the Cluster, the clock and the      *)
(* process: a crash ends both passes.  In managed mode the control plane   *)
(* machine is one of a CritControlPlane, in standalone mode the user's.    *)
(***************************************************************************)
EXTENDS CritConfig

CONSTANT Mode       \* among "managed" and "standalone"

VARIABLES
    mode,
    cpRole, cpConfig, cpOwner, cpSecret, cpConfigC, cpOwnerC,
    cpQueued, cpDue, cpPc, cpOld, cpMy, cpInfraReady

\* The variables of one of the two, without what they share.
worker == <<role, config, owner, secret, caches, queued, due, pass>>
controlPlane == <<cpRole, cpConfig, cpOwner, cpSecret, cpConfigC, cpOwnerC, cpQueued, cpDue,
                  cpPc, cpOld, cpMy, cpInfraReady>>
allVars == <<vars, mode, controlPlane>>

\* A control plane config has no token and waits for nothing.
CP == INSTANCE CritConfig
      WITH Role <- {"controlplane"}, role <- cpRole, due <- cpDue,
           config <- cpConfig, owner <- cpOwner, secret <- cpSecret,
           configC <- cpConfigC, ownerC <- cpOwnerC, queued <- cpQueued,
           pc <- cpPc, old <- cpOld, my <- cpMy, infraReady <- cpInfraReady

BootstrapInit ==
    /\ mode \in Mode
    /\ Init /\ WorkerConfig /\ ~cluster.initialized
    /\ CP!Init

\* Mutant: the machine is created whether or not the cluster has an endpoint.
MutMayCreateMachine == mode = "managed" => cluster.infrastructureReady

\* The CritControlPlane creates a config and a machine for it once the cluster has
\* its infrastructure and its endpoint; a config without owner is as good as none.
MayCreateMachine ==
    mode = "managed" => cluster.infrastructureReady /\ cluster.endpoint

WorkerStep ==
    /\ Pass \/ SyncConfig \/ SyncMachine \/ Requeue \/ Resync \/ MachineProgress
    /\ UNCHANGED <<mode, controlPlane>>

ControlPlanePass ==
    /\ CP!Pass \/ CP!SyncConfig \/ CP!SyncMachine \/ CP!Resync
    /\ UNCHANGED <<mode, worker>>

ControlPlaneMachine ==
    /\ CP!MachineProgress
    /\ cpOwner.ownsConfig \/ MayCreateMachine
    /\ UNCHANGED <<mode, worker>>

\* The control plane is initialized once its first machine runs; ClusterToCritConfigs
\* queues the configs of both machines.
ClusterStep ==
    /\ ClusterProgress
    /\ cluster'.initialized => cpOwner.infraReady
    /\ cpQueued' = TRUE
    /\ UNCHANGED <<mode, cpRole, cpConfig, cpOwner, cpSecret, cpConfigC, cpOwnerC, cpDue, cpPc,
                   cpOld, cpMy, cpInfraReady>>

Time ==
    /\ Tick
    /\ cpPc = "idle" /\ ~CP!Late
    /\ UNCHANGED <<mode, controlPlane>>

ProcessCrash ==
    /\ pc # "idle" \/ cpPc # "idle"
    /\ Fails
    /\ Restart /\ CP!Restart
    /\ UNCHANGED <<stored, expires, clock, delay, pivots, mode, cpRole, cpConfig, cpOwner, cpSecret>>

BootstrapNext ==
    \/ WorkerStep \/ ControlPlanePass \/ ControlPlaneMachine \/ ClusterStep \/ Time
    \/ ProcessCrash

\* As for one config; neither pass keeps the other from running.
BootstrapSpec ==
    /\ BootstrapInit /\ [][BootstrapNext]_allVars
    /\ WF_allVars(Pass /\ UNCHANGED <<mode, controlPlane>>)
    /\ WF_allVars(SyncConfig /\ UNCHANGED <<mode, controlPlane>>)
    /\ WF_allVars(SyncMachine /\ UNCHANGED <<mode, controlPlane>>)
    /\ WF_allVars(Resync /\ UNCHANGED <<mode, controlPlane>>)
    /\ WF_allVars(MachineProgress /\ UNCHANGED <<mode, controlPlane>>)
    /\ WF_allVars(CP!Pass /\ UNCHANGED <<mode, worker>>)
    /\ WF_allVars(CP!SyncConfig /\ UNCHANGED <<mode, worker>>)
    /\ WF_allVars(CP!SyncMachine /\ UNCHANGED <<mode, worker>>)
    /\ WF_allVars(CP!Resync /\ UNCHANGED <<mode, worker>>)
    /\ WF_allVars(ControlPlaneMachine)
    /\ WF_allVars(ClusterStep)

-----------------------------------------------------------------------------
(* Properties *)

\* A worker's data names the endpoint it joins at; so does the data of a control
\* plane machine of a CritControlPlane, although its config does not wait for one
\* (controlplane.go:92) and data, once stored, is not written again.
EndpointInData ==
    /\ secret # None => secret.endpoint
    /\ cpSecret # None /\ mode = "managed" => cpSecret.endpoint

\* Nothing is asked of the workload cluster before it has an API server, and no
\* worker boots before there is something to join.
WorkerFollows ==
    secret # None \/ (\E t \in Token \ UserToken : expires[t] # 0) => cpOwner.infraReady

\* The control plane waits for the cluster, a worker for both, and nobody for a worker:
\* all machines come up, unless a pass lost the status after it stored the data.
EveryoneJoins ==
    \/ <>(cpOwner.infraReady /\ owner.infraReady)
    \/ <>[](cpSecret # None /\ ~cpConfig.ready)
    \/ <>[](secret # None /\ ~config.ready)

=============================================================================
