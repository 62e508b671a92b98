----------------------- MODULE ClusterBootstrap_proofs -----------------------
(***************************************************************************)
(* For any number of tokens, any time to live, any number of faults, and   *)
(* on stale reads too: what a new cluster's machines are given names the   *)
(* endpoint, and nothing happens on a worker's behalf before the control   *)
(* plane runs.                                                             *)
(*                                                                         *)
(* Neither is inductive: data is made from what a pass has in memory.  The *)
(* worker's pass got past its wait, which the Cluster, that only           *)
(* progresses, keeps true; the control plane's pass waits for no endpoint, *)
(* but in managed mode its machine would not exist without one, and the    *)
(* cache knows of no machine that does not exist.                          *)
(***************************************************************************)
EXTENDS ClusterBootstrap, CritConfig_proofs

\* The control plane config has no token to create, and its objects their shape.
CPShape ==
    /\ cpRole = "controlplane" /\ cpPc \in {"idle", "certs", "store", "patch"}
    /\ cpConfig \in Config /\ cpConfigC \in Config /\ cpMy \in Config
    /\ cpOwner \in Machine /\ cpOwnerC \in Machine

\* In managed mode there is a control plane machine only where there is an endpoint.
CPEndpoint ==
    /\ cpOwnerC.ownsConfig => cpOwner.ownsConfig
    /\ mode = "managed" =>
          /\ cpOwner.ownsConfig => cluster.infrastructureReady /\ cluster.endpoint
          /\ cpPc \in {"certs", "store"} => cpMy.endpoint
          /\ cpSecret # None => cpSecret.endpoint

\* The worker's pass, its data and the tokens came after the control plane.
WorkerAfter ==
    /\ WorkerConfig
    /\ cluster.initialized => cpOwner.infraReady
    /\ pc \in {"token", "certs", "store"} => my.endpoint /\ cluster.initialized
    /\ secret # None => secret.endpoint /\ cluster.initialized
    /\ (\E t \in Token \ UserToken : expires[t] # 0) => cluster.initialized

BootInv == IInv /\ CPShape /\ CPEndpoint /\ WorkerAfter

USE ConfigAssumption

-----------------------------------------------------------------------------

\* At the start there are no machines, no data, no tokens of the controller's and no
\* control plane.
LEMMA BootInit == BootstrapInit => BootInv
<1> SUFFICES ASSUME BootstrapInit PROVE BootInv
  OBVIOUS
<1>1. Init /\ WorkerConfig /\ ~cluster.initialized /\ CP!Init
  BY DEF BootstrapInit
<1>2. IInv
  BY <1>1, InitIInv
<1>3. PICK e \in BOOLEAN : cpConfig = [token |-> None, endpoint |-> e, ready |-> FALSE]
  <2>1. PICK t \in UserToken \cup {None}, e \in BOOLEAN :
           /\ t # None => CP!WorkerConfig
           /\ cpConfig = [token |-> t, endpoint |-> e, ready |-> FALSE]
    BY <1>1 DEF CP!Init
  <2>2. t = None
    BY <1>1, <2>1 DEF CP!Init, CP!WorkerConfig
  <2> QED
    BY <2>1, <2>2
<1>4. CPShape
  <2>1. cpConfig \in Config /\ cpConfigC = cpConfig
    BY <1>1, <1>3 DEF CP!Init, Config
  <2>2. cpMy \in Config
    BY <1>1, NoConfigTyped DEF CP!Init, CP!NoConfig, NoConfig
  <2>3. cpOwner \in Machine /\ cpOwnerC = cpOwner
    BY <1>1 DEF CP!Init, Machine
  <2>4. cpRole = "controlplane" /\ cpPc = "idle"
    BY <1>1 DEF CP!Init
  <2> QED
    BY <2>1, <2>2, <2>3, <2>4 DEF CPShape
<1>5. CPEndpoint
  BY <1>1 DEF CP!Init, CPEndpoint
<1>6. WorkerAfter
  BY <1>1 DEF Init, WorkerAfter
<1> QED
  BY <1>2, <1>4, <1>5, <1>6 DEF BootInv

-----------------------------------------------------------------------------
(* The worker *)

\* A step of the worker leaves the control plane alone, and the Cluster.
LEMMA WorkerLeavesControlPlane ==
    ASSUME BootInv, WorkerStep
    PROVE  CPShape' /\ CPEndpoint' /\ cluster' = cluster /\ cpOwner' = cpOwner /\ role' = role
<1>1. UNCHANGED <<mode, cpRole, cpConfig, cpOwner, cpSecret, cpConfigC, cpOwnerC, cpPc, cpMy>>
  BY DEF WorkerStep, controlPlane
<1>2. cluster' = cluster /\ role' = role
  BY DEF WorkerStep, Pass, Reconcile, CreateToken, RefreshToken, Certificates,
     StoreBootstrapData, Patch, SyncConfig, SyncMachine, Requeue, Resync, MachineProgress, stored
<1> QED
  BY <1>1, <1>2 DEF BootInv, CPShape, CPEndpoint

\* The pass of the worker got past its wait with an endpoint, which it keeps.
LEMMA WorkerPass ==
    ASSUME BootInv, WorkerStep
    PROVE  WorkerAfter'
<1>0. cluster' = cluster /\ cpOwner' = cpOwner /\ role' = role
  BY WorkerLeavesControlPlane
<1> USE DEF BootInv, WorkerAfter, WorkerConfig
<1>1. CASE Reconcile
  <2>1. CASE pc' \in {"idle", "patch"}
    BY <1>0, <1>1, <2>1 DEF Reconcile, stored
  <2>2. CASE ~Waiting /\ my' = ClusterConfiguration(configC)
    <3>1. cluster.initialized /\ (configC.endpoint \/ cluster.endpoint)
      BY <2>2 DEF Waiting
    <3>2. my'.endpoint
      BY <2>2, <3>1 DEF ClusterConfiguration, IInv, TypeOK, Config
    <3> QED
      BY <1>0, <1>1, <3>1, <3>2 DEF Reconcile, stored
  <2> QED
    BY <1>1, <2>1, <2>2 DEF Reconcile, pass
<1>2. CASE CreateToken
  <2>1. cluster.initialized /\ my.endpoint /\ UNCHANGED secret
    BY <1>2 DEF CreateToken, stored
  <2>2. pc' # "idle" => my'.endpoint
    BY <1>2, <2>1 DEF CreateToken, ReturnError, EndPass, IInv, TypeOK, Config
  <2> QED
    BY <1>0, <2>1, <2>2
<1>3. CASE RefreshToken
  <2>1. cluster.initialized /\ my.endpoint /\ UNCHANGED secret
    BY <1>3 DEF RefreshToken, stored
  <2>2. pc' # "idle" => my'.endpoint
    BY <1>3, <2>1 DEF RefreshToken, ReturnError, EndPass
  <2> QED
    BY <1>0, <2>1, <2>2
<1>4. CASE Certificates
  BY <1>0, <1>4 DEF Certificates, ReturnError, EndPass, stored
<1>5. CASE StoreBootstrapData
  <2>1. cluster.initialized /\ my.endpoint
    BY <1>5 DEF StoreBootstrapData
  <2>2. pc' \in {"idle", "patch"}
    BY <1>5 DEF StoreBootstrapData, ReturnError, EndPass
  <2>3. secret' # None => secret'.endpoint
    BY <1>5, <2>1 DEF StoreBootstrapData, DataOf
  <2> QED
    BY <1>0, <2>1, <2>2, <2>3
<1>6. CASE Patch
  BY <1>0, <1>6 DEF Patch, EndPass
<1>7. CASE SyncConfig \/ SyncMachine \/ Requeue \/ Resync \/ MachineProgress
  BY <1>0, <1>7 DEF SyncConfig, SyncMachine, Requeue, Resync, MachineProgress, stored, pass
<1> QED
  BY <1>1, <1>2, <1>3, <1>4, <1>5, <1>6, <1>7 DEF WorkerStep, Pass

\* A step of the worker is one of the component, which keeps its invariant.
LEMMA WorkerKeeps == ASSUME BootInv, WorkerStep PROVE BootInv'
<1>1. IInv'
  BY Inductive DEF BootInv, WorkerStep, Next
<1> QED
  BY <1>1, WorkerLeavesControlPlane, WorkerPass DEF BootInv

-----------------------------------------------------------------------------
(* The control plane *)

\* The control plane leaves the worker alone: of what they share it takes a fault, and
\* it creates no token.
LEMMA ControlPlaneLeavesWorker ==
    ASSUME BootInv, ControlPlanePass \/ ControlPlaneMachine
    PROVE  /\ UNCHANGED <<role, config, owner, cluster, secret, configC, ownerC, expires, clock,
                          delay, queued, due, pc, old, my, infraReady, pivots, mode>>
           /\ faults' \in 0..MaxFaults
<1>1. UNCHANGED <<role, config, owner, secret, configC, ownerC, queued, due, pc, old, my,
                  infraReady, mode>>
  BY DEF ControlPlanePass, ControlPlaneMachine, worker, caches, pass
<1>2. cpPc # "token" /\ faults \in 0..MaxFaults
  BY DEF BootInv, CPShape, IInv, TypeOK
<1>3. UNCHANGED <<cluster, expires, clock, delay, pivots>>
  BY <1>2 DEF ControlPlanePass, ControlPlaneMachine, CP!Pass, CP!Reconcile, CP!CreateToken,
     CP!RefreshToken, CP!Certificates, CP!StoreBootstrapData, CP!Patch, CP!SyncConfig,
     CP!SyncMachine, CP!Resync, CP!MachineProgress, CP!stored
<1>4. faults' \in 0..MaxFaults
  BY <1>2 DEF ControlPlanePass, ControlPlaneMachine, CP!Pass, CP!Reconcile, CP!CreateToken,
     CP!RefreshToken, CP!Certificates, CP!StoreBootstrapData, CP!Patch, CP!SyncConfig,
     CP!SyncMachine, CP!Resync, CP!MachineProgress, CP!Fails
<1> QED
  BY <1>1, <1>3, <1>4

\* The control plane machine is created where there is an endpoint.
LEMMA MachineKeeps ==
    ASSUME BootInv, ControlPlaneMachine
    PROVE  CPShape' /\ CPEndpoint' /\ (cpOwner.infraReady => cpOwner'.infraReady)
<1>1. UNCHANGED <<cpRole, cpConfig, cpSecret, cpConfigC, cpOwnerC, cpPc, cpMy>>
  BY DEF ControlPlaneMachine, CP!MachineProgress, CP!caches, CP!pass
<1>2. UNCHANGED <<cluster, mode>>
  BY ControlPlaneLeavesWorker
<1>3. /\ cpOwner' \in Machine /\ (cpOwner.infraReady => cpOwner'.infraReady)
      /\ cpOwner.ownsConfig => cpOwner'.ownsConfig
  BY DEF ControlPlaneMachine, CP!MachineProgress, BootInv, CPShape, Machine
<1>4. cpOwner.ownsConfig \/ MayCreateMachine
  BY DEF ControlPlaneMachine
<1>5. CPShape'
  BY <1>1, <1>3 DEF BootInv, CPShape
<1>6. CPEndpoint'
  BY <1>1, <1>2, <1>3, <1>4 DEF BootInv, CPEndpoint, MayCreateMachine
<1> QED
  BY <1>3, <1>5, <1>6

\* The pass of the control plane gets the endpoint of the Cluster into what it stores.
LEMMA PassKeeps ==
    ASSUME BootInv, ControlPlanePass
    PROVE  CPShape' /\ CPEndpoint' /\ cpOwner' = cpOwner
<1>0. UNCHANGED <<cluster, mode>>
  BY ControlPlaneLeavesWorker
<1>a. NoConfig \in Config /\ CP!NoConfig = NoConfig
  BY NoConfigTyped DEF NoConfig, CP!NoConfig
<1>1. CASE CP!Reconcile
  <2>1. UNCHANGED <<cpRole, cpConfig, cpOwner, cpSecret, cpConfigC, cpOwnerC>>
    BY <1>1 DEF CP!Reconcile, CP!stored, CP!caches
  <2>2. CASE UNCHANGED CP!pass
    BY <1>0, <2>1, <2>2 DEF BootInv, CPShape, CPEndpoint, CP!pass
  <2>3. CASE cpMy' = [cpConfigC EXCEPT !.ready = TRUE] /\ cpPc' = "patch"
    <3>1. cpMy' \in Config
      BY <2>3 DEF BootInv, CPShape, Config
    <3> QED
      BY <1>0, <2>1, <2>3, <3>1 DEF BootInv, CPShape, CPEndpoint
  <2>4. CASE /\ cpOwnerC.ownsConfig
             /\ cpMy' = CP!ClusterConfiguration(cpConfigC) /\ cpPc' = "certs"
    <3>1. cpMy' \in Config /\ (cluster.endpoint => cpMy'.endpoint)
      BY <2>4 DEF BootInv, CPShape, Config, CP!ClusterConfiguration
    <3>2. mode = "managed" => cluster.endpoint
      BY <2>4 DEF BootInv, CPEndpoint
    <3> QED
      BY <1>0, <2>1, <2>4, <3>1, <3>2 DEF BootInv, CPShape, CPEndpoint
  <2>5. ~CP!WorkerConfig
    BY DEF BootInv, CPShape, CP!WorkerConfig
  <2> QED
    BY <1>1, <2>2, <2>3, <2>4, <2>5 DEF CP!Reconcile, CP!pass
<1>2. CASE CP!CreateToken \/ CP!RefreshToken
  BY <1>2 DEF CP!CreateToken, CP!RefreshToken, BootInv, CPShape
<1>3. CASE CP!Certificates
  <2>1. UNCHANGED <<cpRole, cpConfig, cpOwner, cpSecret, cpConfigC, cpOwnerC>> /\ cpPc = "certs"
    BY <1>3 DEF CP!Certificates, CP!stored, CP!caches
  <2>2. \/ cpPc' = "store" /\ UNCHANGED cpMy
        \/ cpPc' = "idle" /\ cpMy' = NoConfig
    BY <1>3, <1>a DEF CP!Certificates, CP!ReturnError, CP!EndPass
  <2> QED
    BY <1>0, <1>a, <2>1, <2>2 DEF BootInv, CPShape, CPEndpoint
<1>4. CASE CP!StoreBootstrapData
  <2>1. UNCHANGED <<cpRole, cpConfig, cpOwner, cpConfigC, cpOwnerC>> /\ cpPc = "store"
    BY <1>4 DEF CP!StoreBootstrapData, CP!caches
  <2>2. cpPc' \in {"idle", "patch"} /\ cpMy' \in Config
    BY <1>4, <1>a DEF CP!StoreBootstrapData, CP!ReturnError, CP!EndPass, BootInv, CPShape, Config
  <2>3. mode = "managed" /\ cpSecret' # None => cpSecret'.endpoint
    BY <1>4, <2>1 DEF CP!StoreBootstrapData, CP!DataOf, BootInv, CPEndpoint
  <2> QED
    BY <1>0, <2>1, <2>2, <2>3 DEF BootInv, CPShape, CPEndpoint
<1>5. CASE CP!Patch
  <2>1. UNCHANGED <<cpRole, cpOwner, cpSecret, cpConfigC, cpOwnerC>>
    BY <1>5 DEF CP!Patch, CP!caches
  <2>2. cpPc' = "idle" /\ cpMy' = NoConfig
    BY <1>5, <1>a DEF CP!Patch, CP!EndPass
  <2>3. cpConfig' \in Config
    BY <1>5 DEF CP!Patch, BootInv, CPShape, Config
  <2> QED
    BY <1>0, <1>a, <2>1, <2>2, <2>3 DEF BootInv, CPShape, CPEndpoint
<1>6. CASE CP!SyncConfig \/ CP!SyncMachine \/ CP!Resync
  BY <1>0, <1>6 DEF CP!SyncConfig, CP!SyncMachine, CP!Resync, CP!stored, CP!caches, CP!pass,
     BootInv, CPShape, CPEndpoint
<1> QED
  BY <1>1, <1>2, <1>3, <1>4, <1>5, <1>6 DEF ControlPlanePass, CP!Pass

\* A step of the control plane keeps the invariant.
LEMMA ControlPlaneKeeps ==
    ASSUME BootInv, ControlPlanePass \/ ControlPlaneMachine
    PROVE  BootInv'
<1>1. CPShape' /\ CPEndpoint' /\ (cpOwner.infraReady => cpOwner'.infraReady)
  BY MachineKeeps, PassKeeps
<1>2. IInv'
  BY ControlPlaneLeavesWorker DEF BootInv, IInv, TypeOK, Backed
<1>3. WorkerAfter'
  BY <1>1, ControlPlaneLeavesWorker DEF BootInv, WorkerAfter, WorkerConfig
<1> QED
  BY <1>1, <1>2, <1>3 DEF BootInv

-----------------------------------------------------------------------------
(* What they share *)

\* The Cluster only progresses, and is initialized by the control plane machine.
LEMMA ClusterKeeps == ASSUME BootInv, ClusterStep PROVE BootInv'
<1>1. IInv'
  BY Inductive DEF BootInv, ClusterStep, Next
<1>2. UNCHANGED <<mode, cpRole, cpConfig, cpOwner, cpSecret, cpConfigC, cpOwnerC, cpPc, cpMy>>
  BY DEF ClusterStep
<1>3. UNCHANGED <<role, secret, expires, pc, my>>
  BY DEF ClusterStep, ClusterProgress, pass
<1>4. \A f \in {"infrastructureReady", "endpoint", "initialized"} : cluster[f] => cluster'[f]
  BY DEF ClusterStep, ClusterProgress, BootInv, IInv, TypeOK
<1>5. cluster'.initialized => cpOwner.infraReady
  BY DEF ClusterStep
<1>6. CPShape'
  BY <1>2 DEF BootInv, CPShape
<1>7. CPEndpoint'
  BY <1>2, <1>4 DEF BootInv, CPEndpoint
<1>8. WorkerAfter'
  BY <1>2, <1>3, <1>4, <1>5 DEF BootInv, WorkerAfter, WorkerConfig
<1> QED
  BY <1>1, <1>6, <1>7, <1>8 DEF BootInv

\* Time changes nothing else.
LEMMA TimeKeeps == ASSUME BootInv, Time PROVE BootInv'
<1>1. IInv'
  BY Inductive DEF BootInv, Time, Next
<1>2. UNCHANGED <<mode, cpRole, cpConfig, cpOwner, cpSecret, cpConfigC, cpOwnerC, cpPc, cpMy,
                  role, cluster, secret, expires, pc, my>>
  BY DEF Time, Tick, controlPlane, stored, pass
<1> QED
  BY <1>1, <1>2 DEF BootInv, CPShape, CPEndpoint, WorkerAfter, WorkerConfig

\* A crash ends both passes; the caches are filled anew.
LEMMA CrashKeeps == ASSUME BootInv, ProcessCrash PROVE BootInv'
<1>1. UNCHANGED <<role, config, owner, cluster, secret, expires, clock, delay, pivots,
                  mode, cpRole, cpConfig, cpOwner, cpSecret>>
  BY DEF ProcessCrash, stored
<1>2. /\ pc' = "idle" /\ old' = NoConfig /\ my' = NoConfig /\ infraReady' = FALSE
      /\ queued' = TRUE /\ due' = None /\ configC' = config /\ ownerC' = owner
  BY DEF ProcessCrash, Restart, EndPass
<1>3. /\ cpPc' = "idle" /\ cpMy' = NoConfig
      /\ cpConfigC' = cpConfig /\ cpOwnerC' = cpOwner
  BY DEF ProcessCrash, CP!Restart, CP!EndPass, CP!NoConfig, NoConfig
<1>4. IInv'
  <2>1. faults' \in 0..MaxFaults
    BY DEF ProcessCrash, Fails, BootInv, IInv, TypeOK
  <2>2. TypeOK'
    BY <1>1, <1>2, <2>1, NoConfigTyped DEF BootInv, IInv, TypeOK
  <2> QED
    BY <1>1, <1>2, <2>2, NoConfigTyped DEF BootInv, IInv, Backed
<1>5. CPShape' /\ CPEndpoint'
  BY <1>1, <1>3, NoConfigTyped DEF BootInv, CPShape, CPEndpoint
<1>6. WorkerAfter'
  BY <1>1, <1>2 DEF BootInv, WorkerAfter, WorkerConfig
<1> QED
  BY <1>4, <1>5, <1>6 DEF BootInv

\* Every step of either config, of the Cluster and of the process keeps the invariant.
LEMMA BootInductive == BootInv /\ [BootstrapNext]_allVars => BootInv'
<1> SUFFICES ASSUME BootInv, [BootstrapNext]_allVars PROVE BootInv'
  OBVIOUS
<1>1. CASE BootstrapNext
  BY <1>1, WorkerKeeps, ControlPlaneKeeps, ClusterKeeps, TimeKeeps, CrashKeeps
     DEF BootstrapNext
<1>2. CASE UNCHANGED allVars
  <2>1. UNCHANGED vars /\ UNCHANGED mode /\ UNCHANGED controlPlane
    BY <1>2 DEF allVars
  <2>2. IInv'
    BY <2>1, Inductive DEF BootInv
  <2>3. UNCHANGED <<mode, cpRole, cpConfig, cpOwner, cpSecret, cpConfigC, cpOwnerC, cpPc, cpMy,
                    role, cluster, secret, expires, pc, my>>
    BY <2>1 DEF controlPlane, vars, stored, pass
  <2> QED
    BY <2>2, <2>3 DEF BootInv, CPShape, CPEndpoint, WorkerAfter, WorkerConfig
<1> QED
  BY <1>1, <1>2

\* The fairness is not needed for it.
LEMMA BootInvariant == BootstrapSpec => []BootInv
<1>1. BootstrapSpec => BootstrapInit /\ [][BootstrapNext]_allVars
  BY PTL DEF BootstrapSpec
<1> QED
  BY <1>1, BootInit, BootInductive, PTL

-----------------------------------------------------------------------------

\* The data of a worker, and that of a machine of a CritControlPlane, names the endpoint:
\* although data is never written again and may be made from a cache that lags behind.
THEOREM EndpointTheorem == BootstrapSpec => []EndpointInData
<1>1. BootInv => EndpointInData
  BY DEF BootInv, CPEndpoint, WorkerAfter, EndpointInData
<1> QED
  BY <1>1, BootInvariant, PTL

\* No worker has data, and no token is created, before the machine of the control plane
\* runs: in whatever order the two configs and the Cluster make progress.
THEOREM WorkerFollowsTheorem == BootstrapSpec => []WorkerFollows
<1>1. BootInv => WorkerFollows
  BY DEF BootInv, WorkerAfter, WorkerFollows
<1> QED
  BY <1>1, BootInvariant, PTL

=============================================================================
