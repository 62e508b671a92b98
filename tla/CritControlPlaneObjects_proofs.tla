-------------------- MODULE CritControlPlaneObjects_proofs --------------------
(***************************************************************************)
(* Proofs about the objects a CritControlPlane leaves in the API server:   *)
(* machines without owner, the finalizer that protects the machines, and   *)
(* what a generation that failed half-way leaves behind.                   *)
(***************************************************************************)
EXTENDS CritControlPlane_proofs

-----------------------------------------------------------------------------
(* Ownership: no pass acts on machines that it does not own yet *)

\* The calls after the machines were found or made owned.
Acting == {"clusterStatus", "nodeChecks", "matchMachines", "clone", "config", "machine",
           "cleanupClone", "cleanupInfra", "cleanupConfig"}

\* Owned machines stay owned, so a cached list shows all that have no owner; a pass
\* goes on only when there are none.
OwnedFirst ==
    /\ machines.orphan \subseteq machinesC.orphan
    /\ pc = "own" => machines.orphan \subseteq list.orphan
    /\ pc \in Acting => machines.orphan = {}
    /\ pc = "deleteVictims" => goal = "delete" \/ machines.orphan = {}

\* No action takes an owner away.
LEMMA OwnersStay ==
    ASSUME TypeOK, [Next]_vars
    PROVE  machines'.orphan \subseteq machines.orphan
<1> USE DEF apiVars, cacheVars, workVars, passVars, boundVars
<1>0. machines \in MachineList
  BY DEF TypeOK, ObjectTypes
<1>1. CASE Pass
  <2>1. CASE EnsureOwnership \/ GenerateMachine \/ DeleteMachine
    BY <1>0, <2>1 DEF EnsureOwnership, GenerateMachine, DeleteMachine, MachineList
  <2>2. CASE ~(EnsureOwnership \/ GenerateMachine \/ DeleteMachine)
    BY <1>1, <2>2 DEF Pass, Reconcile, ReconcileExternalReference, LookupOrGenerate,
       ReconcileControlPlaneKubeconfig, ListMachines, ClusterStatus, ControlPlaneIsHealthy,
       MatchMachines, CloneTemplate, GenerateCritConfig, CleanupInfra,
       CleanupConfig, ReconcileDelete, UpdateStatus, UpdateRemoteStatus, Patch
  <2> QED BY <2>1, <2>2
<1>2. CASE Crash \/ Informers \/ User \/ ClusterProgress \/ UploadCritConfig
  BY <1>0, <1>2 DEF Crash, Informers, SyncCCP, SyncMachines, SyncSecrets, ClusterProgress,
     UploadCritConfig, User, EditSpec, DeleteCCP, PauseCluster, RemoveWorker, MachineList
<1>3. ASSUME NEW m \in MachineId, Machinery(m) \/ NodeBreaks(m) \/ DeleteMachineByHand(m)
      PROVE  machines'.orphan \subseteq machines.orphan
  BY <1>0, <1>3 DEF Machinery, NodeBreaks, DeleteMachineByHand, NodeJoins, NodeRecovers, SetNodeRef,
     RemoveNode, RemoveMachine, CollectGarbage, MachineList
<1> QED BY <1>1, <1>2, <1>3 DEF Next, vars

\* The informer reports what is stored, or nothing new.
LEMMA CacheFollows ==
    ASSUME [Next]_vars
    PROVE  machinesC' = machinesC \/ machinesC' = machines'
<1> USE DEF apiVars, cacheVars, workVars, passVars, boundVars
<1>1. CASE Pass
  BY <1>1 DEF Pass, Reconcile, ReconcileExternalReference, LookupOrGenerate,
     ReconcileControlPlaneKubeconfig, ListMachines, EnsureOwnership, ClusterStatus, ControlPlaneIsHealthy,
     MatchMachines, CloneTemplate, GenerateCritConfig, GenerateMachine, CleanupInfra,
     CleanupConfig, ReconcileDelete, DeleteMachine, UpdateStatus, UpdateRemoteStatus, Patch
<1>2. CASE Crash \/ Informers \/ User \/ ClusterProgress \/ UploadCritConfig
  BY <1>2 DEF Crash, Informers, SyncCCP, SyncMachines, SyncSecrets, ClusterProgress,
     UploadCritConfig, User, EditSpec, DeleteCCP, PauseCluster, RemoveWorker
<1>3. ASSUME NEW m \in MachineId, Machinery(m) \/ NodeBreaks(m) \/ DeleteMachineByHand(m)
      PROVE  machinesC' = machinesC
  BY <1>3 DEF Machinery, NodeBreaks, DeleteMachineByHand, NodeJoins, NodeRecovers, SetNodeRef,
     RemoveNode, RemoveMachine, CollectGarbage
<1> QED BY <1>1, <1>2, <1>3 DEF Next, vars

\* Only a pass or a crash moves the pass.
LEMMA OthersLeaveThePass ==
    ASSUME [Next]_vars
    PROVE  Pass \/ Crash \/ UNCHANGED passVars
<1> USE DEF passVars
<1>1. CASE Informers \/ User \/ ClusterProgress \/ UploadCritConfig
  BY <1>1 DEF Informers, SyncCCP, SyncMachines, SyncSecrets, ClusterProgress,
     UploadCritConfig, User, EditSpec, DeleteCCP, PauseCluster, RemoveWorker
<1>2. ASSUME NEW m \in MachineId, Machinery(m) \/ NodeBreaks(m) \/ DeleteMachineByHand(m)
      PROVE  UNCHANGED passVars
  BY <1>2 DEF Machinery, NodeBreaks, DeleteMachineByHand, NodeJoins, NodeRecovers, SetNodeRef,
     RemoveNode, RemoveMachine, CollectGarbage
<1> QED BY <1>1, <1>2 DEF Next, vars

\* When EnsureOwnership lets the pass go on, every machine has an owner.
LEMMA EnsuresOwnership ==
    ASSUME TypeOK, OwnedFirst, EnsureOwnership, pc' # "status"
    PROVE  machines'.orphan = {}
<1>0. machines \in MachineList /\ machines.orphan \subseteq list.orphan
  BY DEF TypeOK, ObjectTypes, OwnedFirst, EnsureOwnership
<1>1. PICK failed \in SUBSET list.orphan, lost \in BOOLEAN :
         LET conflicts == {m \in list.orphan : Outdated(m)}
         IN  /\ conflicts \subseteq failed
             /\ \/ failed = conflicts /\ ~lost
                \/ failed # conflicts
             /\ machines' = [machines EXCEPT !.orphan =
                                @ \ (list.orphan \ (IF lost THEN conflicts ELSE failed))]
             /\ AllOwned(failed) \/ Return(TRUE)
  BY DEF EnsureOwnership
<1>2. failed = {}
  BY <1>1 DEF AllOwned, Return
<1>3. machines' = [machines EXCEPT !.orphan = @ \ list.orphan]
  BY <1>1, <1>2
<1> QED BY <1>0, <1>3 DEF MachineList

\* Every action keeps the order of owning and acting.
LEMMA OwnedFirstStep ==
    ASSUME TypeOK, OwnedFirst, [Next]_vars
    PROVE  OwnedFirst'
<1> USE DEF passVars
<1>0. machines'.orphan \subseteq machines.orphan /\ machines'.orphan \subseteq machinesC'.orphan
  BY OwnersStay, CacheFollows DEF OwnedFirst
<1>1. ASSUME UNCHANGED passVars PROVE OwnedFirst'
  BY <1>0, <1>1 DEF OwnedFirst
<1>2. CASE Crash
  BY <1>0, <1>2 DEF Crash, OwnedFirst, Acting
<1>3. CASE EnsureOwnership
  <2>1. pc' \in {"status", "clusterStatus", "clone"}
    BY <1>3 DEF EnsureOwnership, Decide, Return
  <2> QED BY <1>0, <1>3, <2>1, EnsuresOwnership DEF OwnedFirst, Acting
<1>4. CASE ListMachines
  <2>1. \/ list' = machinesC /\ pc' = "own"
        \/ machinesC.orphan = {} /\ pc' \in {"status", "clusterStatus", "clone"}
    BY <1>4 DEF ListMachines, Decide, Return
  <2> QED BY <1>0, <2>1 DEF OwnedFirst, Acting
<1>5. CASE ReconcileDelete
  BY <1>0, <1>5 DEF ReconcileDelete, WaitForWorkers, Return, OwnedFirst, Acting
<1>6. CASE DeleteMachine
  BY <1>0, <1>6 DEF DeleteMachine, Return, OwnedFirst, Acting
<1>7. CASE Pass /\ ~(EnsureOwnership \/ ListMachines \/ ReconcileDelete \/ DeleteMachine)
  <2>1. \/ pc' \notin Acting \cup {"own", "deleteVictims"}
        \/ pc \in Acting
    BY <1>7 DEF Pass, Reconcile, ReconcileExternalReference, LookupOrGenerate,
       ReconcileControlPlaneKubeconfig, ClusterStatus, ControlPlaneIsHealthy,
       MatchMachines, CloneTemplate, GenerateCritConfig, GenerateMachine, CleanupInfra,
       CleanupConfig, UpdateStatus, UpdateRemoteStatus, Patch, Return, Acting
  <2> QED BY <1>0, <2>1 DEF OwnedFirst, Acting
<1> QED BY <1>1, <1>2, <1>3, <1>4, <1>5, <1>6, <1>7, OthersLeaveThePass

\* EnsureOwnership: no pass adds a machine or scales down while a machine has no
\* owner, with stale caches, conflicts, lost answers and crashes.
THEOREM OwnershipTheorem == Spec => ActsOnOwned
<1>1. Init => OwnedFirst
  BY DEF Init, InitWith, OwnedFirst, Acting
<1>2. TypeOK /\ OwnedFirst /\ [Next]_vars => OwnedFirst'
  BY OwnedFirstStep
<1>3. OwnedFirst =>
        [(pc \in {"machine", "deleteVictims"} /\ goal # "delete" /\ machines' # machines) =>
            machines.orphan = {}]_vars
  BY DEF OwnedFirst, Acting
<1> QED
  BY TypeCorrect, <1>1, <1>2, <1>3, PTL DEF Spec, ActsOnOwned

-----------------------------------------------------------------------------
(* The finalizer: when the call that stores it cannot fail on the way *)

\* The calls of the deferred function.
Closing == {"status", "remoteStatus", "patch"}

\* A pass that sees the kubeconfig was preceded by one that stored the finalizer.
StoredFinalizer ==
    /\ secretsC \subseteq secrets
    /\ machines.live # {} => ccp.finalizer
    /\ ccp.exists /\ ccp.deleting => ccp.finalizer
    /\ pc # "idle" => old.finalizer = ccp.finalizer
    /\ pc \in {"certs", "kubeconfig"} => my.finalizer
    /\ pc \in Acting \cup {"list", "own"} => ccp.finalizer
    /\ "kubeconfig" \in secrets =>
          /\ pc \in {"prepare", "certs", "kubeconfig"} => ccp.finalizer
          /\ ccp.exists => ccp.finalizer \/ (pc \in Closing /\ my.finalizer)

\* Only Patch and DeleteCCP change whether the object exists, is being deleted or has
\* its finalizer, and only Patch the latter.
LEMMA ObjectChanges ==
    ASSUME TypeOK, [Next]_vars, ~Patch
    PROVE  /\ ccp'.finalizer = ccp.finalizer /\ (ccp'.exists => ccp.exists)
           /\ ccp'.exists /\ ccp'.deleting => ccp.finalizer \/ ccp.deleting
<1> USE DEF apiVars, cacheVars, workVars, passVars, boundVars
<1>0. ccp \in CCP
  BY DEF TypeOK, ObjectTypes
<1>1. CASE Pass
  BY <1>1 DEF Pass, Reconcile, ReconcileExternalReference, LookupOrGenerate,
     ReconcileControlPlaneKubeconfig, ListMachines, EnsureOwnership, ClusterStatus, ControlPlaneIsHealthy,
     MatchMachines, CloneTemplate, GenerateCritConfig, GenerateMachine, CleanupInfra,
     CleanupConfig, ReconcileDelete, DeleteMachine, UpdateStatus, UpdateRemoteStatus
<1>2. CASE Crash \/ Informers \/ ClusterProgress \/ UploadCritConfig
  BY <1>2 DEF Crash, Informers, SyncCCP, SyncMachines, SyncSecrets, ClusterProgress, UploadCritConfig
<1>3. CASE User
  BY <1>0, <1>3 DEF User, EditSpec, DeleteCCP, PauseCluster, RemoveWorker, CCP
<1>4. ASSUME NEW m \in MachineId, Machinery(m) \/ NodeBreaks(m) \/ DeleteMachineByHand(m)
      PROVE  ccp' = ccp
  BY <1>4 DEF Machinery, NodeBreaks, DeleteMachineByHand, NodeJoins, NodeRecovers, SetNodeRef, RemoveNode,
     RemoveMachine, CollectGarbage
<1> QED BY <1>1, <1>2, <1>3, <1>4 DEF Next, vars

\* Only generateMachine adds a machine.
LEMMA OnlyGenerateAdds ==
    ASSUME TypeOK, [Next]_vars, ~GenerateMachine
    PROVE  machines'.live \subseteq machines.live
<1> USE DEF apiVars, cacheVars, workVars, passVars, boundVars
<1>0. machines \in MachineList
  BY DEF TypeOK, ObjectTypes
<1>1. CASE Pass
  BY <1>0, <1>1 DEF Pass, Reconcile, ReconcileExternalReference, LookupOrGenerate,
     ReconcileControlPlaneKubeconfig, ListMachines, EnsureOwnership, ClusterStatus, ControlPlaneIsHealthy,
     MatchMachines, CloneTemplate, GenerateCritConfig, CleanupInfra, Patch,
     CleanupConfig, ReconcileDelete, DeleteMachine, UpdateStatus, UpdateRemoteStatus, MachineList
<1>2. CASE Crash \/ Informers \/ User \/ ClusterProgress \/ UploadCritConfig
  BY <1>0, <1>2 DEF Crash, Informers, SyncCCP, SyncMachines, SyncSecrets, ClusterProgress,
     UploadCritConfig, User, EditSpec, DeleteCCP, PauseCluster, RemoveWorker, MachineList
<1>3. ASSUME NEW m \in MachineId, Machinery(m) \/ NodeBreaks(m) \/ DeleteMachineByHand(m)
      PROVE  machines'.live \subseteq machines.live
  BY <1>0, <1>3 DEF Machinery, NodeBreaks, DeleteMachineByHand, NodeJoins, NodeRecovers, SetNodeRef,
     RemoveNode, RemoveMachine, CollectGarbage, MachineList
<1> QED BY <1>1, <1>2, <1>3 DEF Next, vars

\* Secrets are created by the pass alone, the kubeconfig by its own call.
LEMMA SecretChanges ==
    ASSUME [Next]_vars, secretsC \subseteq secrets
    PROVE  /\ secretsC' \subseteq secrets'
           /\ \/ secrets' = secrets
              \/ LookupOrGenerate /\ secrets' = secrets \cup {"certs"}
              \/ ReconcileControlPlaneKubeconfig
<1> USE DEF apiVars, cacheVars, workVars, passVars, boundVars
<1>1. CASE Pass
  BY <1>1 DEF Pass, Reconcile, ReconcileExternalReference, LookupOrGenerate,
     ReconcileControlPlaneKubeconfig, ListMachines, EnsureOwnership, ClusterStatus, ControlPlaneIsHealthy,
     MatchMachines, CloneTemplate, GenerateCritConfig, GenerateMachine, CleanupInfra, Patch,
     CleanupConfig, ReconcileDelete, DeleteMachine, UpdateStatus, UpdateRemoteStatus
<1>2. CASE Crash \/ Informers \/ User \/ ClusterProgress \/ UploadCritConfig
  BY <1>2 DEF Crash, Informers, SyncCCP, SyncMachines, SyncSecrets, ClusterProgress,
     UploadCritConfig, User, EditSpec, DeleteCCP, PauseCluster, RemoveWorker
<1>3. ASSUME NEW m \in MachineId, Machinery(m) \/ NodeBreaks(m) \/ DeleteMachineByHand(m)
      PROVE  secrets' = secrets /\ secretsC' = secretsC
  BY <1>3 DEF Machinery, NodeBreaks, DeleteMachineByHand, NodeJoins, NodeRecovers, SetNodeRef,
     RemoveNode, RemoveMachine, CollectGarbage
<1> QED BY <1>1, <1>2, <1>3 DEF Next, vars

\* A patch that no fault hits stores what the pass changed, unless the object is gone.
LEMMA PatchStores ==
    ASSUME TypeOK, Patch, FaultKinds \subseteq {"lost"}
    PROVE  LET stored == my.finalizer # old.finalizer /\ MayPatchFinalizer
           IN  /\ ccp'.finalizer = IF stored THEN my.finalizer ELSE ccp.finalizer
               /\ ccp'.exists = (ccp.exists /\ ~(stored /\ ~my.finalizer))
               /\ ccp'.deleting = ccp.deleting /\ pc' = "idle"
               /\ UNCHANGED <<machines, secrets, secretsC>>
<1>0. ccp \in CCP /\ my \in CCP /\ old \in CCP /\ faults \in Nat
  BY DEF TypeOK, ObjectTypes, PassTypes, BoundTypes
<1>1. pc' = "idle" /\ UNCHANGED <<machines, secrets, secretsC>>
  BY DEF Patch, cacheVars
<1>2. PICK failMetadata \in BOOLEAN, failStatus \in BOOLEAN :
         LET newFinalizer == my.finalizer # old.finalizer
             metadataOk   == newFinalizer /\ ~failMetadata /\ MayPatchFinalizer
             gone         == metadataOk /\ ~my.finalizer
             cost         == (IF failMetadata THEN 1 ELSE 0) + (IF failStatus THEN 1 ELSE 0)
         IN  /\ cost > 0 => "rejected" \in FaultKinds
             /\ \E status :
                   ccp' = [ccp EXCEPT !.exists = @ /\ ~gone,
                                      !.finalizer = IF metadataOk THEN my.finalizer ELSE @,
                                      !.status = status]
  BY DEF Patch
<1>3. ~failMetadata
  BY <1>2
<1> QED BY <1>0, <1>1, <1>2, <1>3 DEF CCP

\* A step that moves the pass from one call to the next, or leaves it, keeps the
\* invariant, when it stays on the side of the kubeconfig call it is on.
LEMMA StoredFinalizerMove ==
    ASSUME StoredFinalizer,
           ccp'.finalizer = ccp.finalizer, ccp'.exists => ccp.exists,
           ccp'.exists /\ ccp'.deleting => ccp.finalizer \/ ccp.deleting,
           machines'.live \subseteq machines.live, secretsC' \subseteq secrets',
           "kubeconfig" \in secrets' => "kubeconfig" \in secrets,
           pc # "idle", old' = old, my'.finalizer = my.finalizer,
           \/ pc' = pc
           \/ pc' \in Acting /\ pc \in Acting \cup {"list", "own"}
           \/ pc' = "own" /\ pc = "list"
           \/ pc' = "kubeconfig" /\ pc = "certs"
           \/ pc' = "deleteVictims" /\ pc \notin Closing
           \/ pc' \in Closing
    PROVE  StoredFinalizer'
BY DEF StoredFinalizer, Acting, Closing

\* Every action keeps it.
LEMMA StoredFinalizerStep ==
    ASSUME FreshReads, FaultKinds \subseteq {"lost"}, TypeOK, Sound, StoredFinalizer, [Next]_vars
    PROVE  StoredFinalizer'
<1> USE DEF passVars
<1>0. ccp \in CCP /\ my \in CCP /\ old \in CCP /\ ccpC \in CCP
  BY DEF TypeOK, ObjectTypes, PassTypes, CacheTypes
<1>1. CASE Patch
  <2>1. pc = "patch"
    BY <1>1 DEF Patch
  <2>2. old.finalizer = ccp.finalizer /\ (old.finalizer /\ ~my.finalizer => machines.live = {})
    BY <2>1 DEF StoredFinalizer, Sound, FinalizerSound
  <2> DEFINE stored == my.finalizer # old.finalizer /\ MayPatchFinalizer
  <2>3. /\ ccp'.finalizer = IF stored THEN my.finalizer ELSE ccp.finalizer
        /\ ccp'.exists = (ccp.exists /\ ~(stored /\ ~my.finalizer))
        /\ ccp'.deleting = ccp.deleting /\ pc' = "idle"
        /\ UNCHANGED <<machines, secrets, secretsC>>
    BY <1>1, PatchStores
  <2>4. /\ machines'.live # {} => ccp'.finalizer
        /\ ccp'.exists /\ ccp'.deleting => ccp'.finalizer
        /\ "kubeconfig" \in secrets' /\ ccp'.exists => ccp'.finalizer
    BY <1>0, <2>1, <2>2, <2>3 DEF StoredFinalizer, MayPatchFinalizer, CCP
  <2> QED BY <2>3, <2>4 DEF StoredFinalizer, Acting
<1>2. CASE ~Patch
  <2>0. /\ ccp'.finalizer = ccp.finalizer /\ (ccp'.exists => ccp.exists)
        /\ ccp'.exists /\ ccp'.deleting => ccp.finalizer \/ ccp.deleting
    BY <1>2, ObjectChanges
  <2>1. secretsC' \subseteq secrets'
    BY SecretChanges DEF StoredFinalizer
  <2>2. CASE Crash
    BY <2>2 DEF Crash, Fails
  <2>3. CASE ReconcileControlPlaneKubeconfig
    <3>1. /\ pc = "kubeconfig" /\ UNCHANGED <<old, my, machines>>
          /\ \/ "kubeconfig" \in secretsC /\ secrets' = secrets /\ pc' = "list"
             \/ "kubeconfig" \notin secretsC /\ pc' = "status"
      BY <2>3 DEF ReconcileControlPlaneKubeconfig, Return
    <3> QED BY <2>0, <2>1, <3>1 DEF StoredFinalizer, Acting, Closing
  <2>4. CASE GenerateMachine
    <3>1. /\ pc = "machine" /\ UNCHANGED <<old, my, secrets, secretsC>>
          /\ pc' \in {"clone", "status", "cleanupInfra"}
      BY <2>4 DEF GenerateMachine, Return, cacheVars
    <3> QED BY <2>0, <2>1, <3>1 DEF StoredFinalizer, Acting, Closing
  <2>5. CASE ~ReconcileControlPlaneKubeconfig /\ ~GenerateMachine
    <3>0. /\ machines'.live \subseteq machines.live
          /\ "kubeconfig" \in secrets' => "kubeconfig" \in secrets
      BY <2>1, <2>5, OnlyGenerateAdds, SecretChanges DEF StoredFinalizer
    <3>1. CASE UNCHANGED passVars
      BY <2>0, <2>1, <3>0, <3>1 DEF StoredFinalizer, Acting, Closing
    <3>2. CASE Reconcile
      <4>1. /\ pc = "idle" /\ ccp' = ccp
            /\ \/ pc' = "idle"
               \/ /\ old' = ccp /\ my' = ccp /\ ccp.exists
                  /\ pc' \in {"delete", "status", "prepare"}
        BY <3>2 DEF Reconcile, CachesFresh, Return, apiVars
      <4> QED BY <2>1, <3>0, <4>1 DEF StoredFinalizer, Acting, Closing
    <3>3. CASE ReconcileExternalReference
      <4>1. /\ pc = "prepare" /\ old' = old /\ my'.finalizer = TRUE
            /\ pc' \in {"certs", "status"}
        BY <1>0, <3>3 DEF ReconcileExternalReference, Return, CCP
      <4> QED BY <2>0, <2>1, <3>0, <4>1 DEF StoredFinalizer, Acting, Closing
    <3>4. CASE ReconcileDelete
      <4>1. pc = "delete" /\ old' = old /\ pc' \in {"deleteVictims", "status"}
        BY <3>4 DEF ReconcileDelete, WaitForWorkers, Return
      <4> QED BY <2>0, <2>1, <3>0, <4>1 DEF StoredFinalizer, Acting, Closing
    <3>5. CASE Pass /\ ~(Reconcile \/ ReconcileExternalReference \/ ReconcileDelete)
      <4>1. /\ pc # "idle" /\ old' = old
            /\ my'.finalizer = my.finalizer
        BY <1>0, <1>2, <2>5, <3>5 DEF Pass, LookupOrGenerate, ListMachines, EnsureOwnership,
           ClusterStatus, ControlPlaneIsHealthy, MatchMachines, CloneTemplate, GenerateCritConfig,
           CleanupInfra, CleanupConfig, DeleteMachine, UpdateStatus, UpdateRemoteStatus, CCP
      <4>2. \/ pc' = pc
            \/ pc' \in Acting /\ pc \in Acting \cup {"list", "own"}
            \/ pc' = "own" /\ pc = "list"
            \/ pc' = "kubeconfig" /\ pc = "certs"
            \/ pc' = "deleteVictims" /\ pc \notin Closing
            \/ pc' \in Closing
        BY <1>2, <2>5, <3>5 DEF Pass, LookupOrGenerate, ListMachines, EnsureOwnership, Decide, Return,
           ClusterStatus, ControlPlaneIsHealthy, MatchMachines, CloneTemplate, GenerateCritConfig,
           CleanupInfra, CleanupConfig, DeleteMachine, UpdateStatus, UpdateRemoteStatus, Acting, Closing
      <4> QED BY <2>0, <2>1, <3>0, <4>1, <4>2, StoredFinalizerMove
    <3> QED BY <2>2, <3>1, <3>2, <3>3, <3>4, <3>5, OthersLeaveThePass
  <2> QED BY <2>3, <2>4, <2>5
<1> QED BY <1>1, <1>2

\* AddFinalizer and the deferred patch: no machine exists whose CritControlPlane has no
\* stored finalizer, because the pass that creates the kubeconfig ends early and its
\* patch comes before the first machine.  Answers may be lost; what the theorem needs
\* is that this patch is neither rejected nor cut off by a crash.
THEOREM MachinesHaveFinalizerTheorem ==
    ASSUME FreshReads, FaultKinds \subseteq {"lost"}, Orphan = {}
    PROVE  Spec => []MachinesHaveFinalizer
<1>1. Init => StoredFinalizer
  <2> SUFFICES ASSUME Init PROVE StoredFinalizer
    OBVIOUS
  <2>1. PICK hash : InitWith({}, hash)
    BY DEF Init
  <2>2. machines.live = {} /\ secrets = {} /\ secretsC = {} /\ pc = "idle" /\ ccp.deleting = FALSE
    BY <2>1 DEF InitWith, EmptyList
  <2> QED BY <2>2 DEF StoredFinalizer, Acting
<1>2. TypeOK /\ Sound /\ StoredFinalizer /\ [Next]_vars => StoredFinalizer'
  BY StoredFinalizerStep
<1>3. StoredFinalizer => MachinesHaveFinalizer
  BY DEF StoredFinalizer, MachinesHaveFinalizer
<1> QED
  BY SoundAlways, <1>1, <1>2, <1>3, PTL DEF Spec

-----------------------------------------------------------------------------
(* Generation: what one rejected call leaves behind *)

\* The calls of cleanupFromGeneration.
Cleaning == {"cleanupClone", "cleanupInfra", "cleanupConfig"}

\* The objects of the machine that is being generated, by the call that comes next.
Underway ==
    [infra   |-> IF pc \in {"config", "machine", "cleanupClone", "cleanupInfra"} THEN {cur} ELSE {},
     configs |-> IF pc \in {"machine", "cleanupInfra", "cleanupConfig"} THEN {cur} ELSE {}]

\* An object without machine is that of the machine being generated; there is a fault
\* for the call that fails and none for the cleanup.
GenerationTidy ==
    /\ machines.live \subseteq made /\ machines.deleting \subseteq machines.live
    /\ pc \in {"config", "machine"} \cup Cleaning => cur \in made /\ cur \notin machines.live
    /\ faults <= 1 /\ (pc \in Cleaning => faults = 0)
    /\ ccp.exists =>
          /\ infra \subseteq machines.live \cup Underway.infra
          /\ configs \subseteq machines.live \cup Underway.configs
          /\ machines.live \ machines.deleting \subseteq infra \cap configs
          /\ pc \in {"config", "machine"} => cur \in infra
          /\ pc = "machine" => cur \in configs

\* The calls between two generations, or outside of one.
Between == PC \ ({"config", "machine"} \cup Cleaning)

\* No call adds to the faults that may still happen.
LEMMA FaultsShrink ==
    ASSUME TypeOK, [Next]_vars
    PROVE  faults \in Nat /\ faults' \in Nat /\ faults' <= faults
<1> USE DEF apiVars, cacheVars, workVars, passVars, boundVars, Fails
<1>0. faults \in Nat
  BY DEF TypeOK, BoundTypes
<1>1. CASE Patch
  BY <1>0, <1>1 DEF Patch
<1>2. CASE EnsureOwnership
  BY <1>0, <1>2 DEF EnsureOwnership
<1>f. (faults' = faults \/ (faults > 0 /\ faults' = faults - 1)) => faults' \in Nat /\ faults' <= faults
  BY <1>0
<1>3. CASE Pass /\ ~Patch /\ ~EnsureOwnership
  <2>1. CASE Reconcile \/ ReconcileExternalReference \/ LookupOrGenerate
             \/ ReconcileControlPlaneKubeconfig \/ ListMachines \/ ClusterStatus
    BY <1>0, <1>f, <2>1 DEF Reconcile, ReconcileExternalReference, LookupOrGenerate,
       ReconcileControlPlaneKubeconfig, ListMachines, ClusterStatus
  <2>2. CASE ControlPlaneIsHealthy \/ MatchMachines \/ CloneTemplate \/ GenerateCritConfig
             \/ GenerateMachine
    BY <1>0, <1>f, <2>2 DEF ControlPlaneIsHealthy, MatchMachines, CloneTemplate, GenerateCritConfig,
       GenerateMachine
  <2>3. CASE CleanupInfra \/ CleanupConfig \/ ReconcileDelete \/ DeleteMachine \/ UpdateStatus
             \/ UpdateRemoteStatus
    BY <1>0, <1>f, <2>3 DEF CleanupInfra, CleanupConfig, ReconcileDelete, DeleteMachine, UpdateStatus,
       UpdateRemoteStatus
  <2> QED BY <1>3, <2>1, <2>2, <2>3 DEF Pass
<1>4. CASE Crash \/ Informers \/ User \/ ClusterProgress \/ UploadCritConfig
  <2>1. CASE Crash
    BY <1>0, <1>f, <2>1 DEF Crash
  <2>2. CASE Informers \/ User \/ ClusterProgress \/ UploadCritConfig
    BY <1>0, <1>f, <2>2 DEF Informers, SyncCCP, SyncMachines, SyncSecrets, ClusterProgress,
       UploadCritConfig, User, EditSpec, DeleteCCP, PauseCluster, RemoveWorker
  <2> QED BY <1>4, <2>1, <2>2
<1>5. ASSUME NEW m \in MachineId, Machinery(m) \/ NodeBreaks(m) \/ DeleteMachineByHand(m)
      PROVE  faults' = faults
  BY <1>5 DEF Machinery, NodeBreaks, DeleteMachineByHand, NodeJoins, NodeRecovers, SetNodeRef,
     RemoveNode, RemoveMachine, CollectGarbage
<1> QED BY <1>0, <1>1, <1>2, <1>3, <1>4, <1>5 DEF Next, vars

\* A control plane that is gone does not come back.
LEMMA GoneStaysGone ==
    ASSUME TypeOK, [Next]_vars, ccp'.exists
    PROVE  ccp.exists
<1>1. CASE Patch
  <2>1. ccp \in CCP
    BY DEF TypeOK, ObjectTypes
  <2> QED BY <1>1, <2>1 DEF Patch, CCP
<1>2. CASE ~Patch
  BY <1>2, ObjectChanges
<1> QED BY <1>1, <1>2

\* The calls outside of a generation change neither the objects of a machine nor the
\* machines there are.
LEMMA BetweenSteps ==
    ASSUME TypeOK, GenerationTidy,
           \/ Crash
           \/ /\ Pass
              /\ ~(CloneTemplate \/ GenerateCritConfig \/ GenerateMachine)
              /\ ~(CleanupInfra \/ CleanupConfig)
    PROVE  /\ pc' \in Between \/ (pc' = pc /\ cur' = cur)
           /\ pc \in Between \/ Crash
           /\ UNCHANGED <<infra, configs, made>>
           /\ machines'.live = machines.live
           /\ machines.deleting \subseteq machines'.deleting
           /\ machines'.deleting \subseteq machines'.live
<1> USE DEF apiVars, cacheVars, workVars, passVars, boundVars
<1>0. machines \in MachineList /\ machines.deleting \subseteq machines.live
  BY DEF TypeOK, ObjectTypes, GenerationTidy
<1>1. CASE EnsureOwnership
  BY <1>0, <1>1 DEF EnsureOwnership, Decide, Return, Between, PC, Cleaning, MachineList
<1>2. CASE DeleteMachine
  BY <1>0, <1>2 DEF DeleteMachine, Return, Between, PC, Cleaning, MachineList
<1>3. CASE Crash
  BY <1>0, <1>3 DEF Crash, Between, PC, Cleaning
<1>4. CASE /\ Pass /\ ~(EnsureOwnership \/ DeleteMachine)
           /\ ~(CloneTemplate \/ GenerateCritConfig \/ GenerateMachine)
           /\ ~(CleanupInfra \/ CleanupConfig)
  <2>1. UNCHANGED <<infra, configs, made, machines>>
    BY <1>4 DEF Pass, Reconcile, ReconcileExternalReference, LookupOrGenerate,
       ReconcileControlPlaneKubeconfig, ListMachines, ClusterStatus, ControlPlaneIsHealthy,
       MatchMachines, ReconcileDelete, UpdateStatus, UpdateRemoteStatus, Patch
  <2>2. pc' \in Between /\ pc \in Between
    BY <1>4 DEF Pass, Reconcile, ReconcileExternalReference, LookupOrGenerate,
       ReconcileControlPlaneKubeconfig, ListMachines, ClusterStatus, ControlPlaneIsHealthy,
       MatchMachines, ReconcileDelete, UpdateStatus, UpdateRemoteStatus, Patch, WaitForWorkers,
       Decide, Return, Between, PC, Cleaning
  <2> QED BY <1>0, <2>1, <2>2
<1> QED BY <1>1, <1>2, <1>3, <1>4

\* Every action keeps the invariant, when calls fail only by being rejected.
LEMMA GenerationTidyStep ==
    ASSUME FaultKinds \subseteq {"rejected"}, TypeOK, PassShape, GenerationTidy, [Next]_vars
    PROVE  GenerationTidy'
<1> USE DEF apiVars, cacheVars, workVars, passVars, boundVars
<1>0. /\ machines \in MachineList /\ machines.live \subseteq made
      /\ machines.deleting \subseteq machines.live
      /\ faults \in Nat /\ faults' \in Nat /\ faults' <= faults /\ faults <= 1
      /\ ccp'.exists => ccp.exists
  BY FaultsShrink, GoneStaysGone DEF TypeOK, ObjectTypes, GenerationTidy
<1>1. CASE CloneTemplate
  <2>1. \/ \E m \in MachineId \ made :
              infra' = infra \cup {m} /\ made' = made \cup {m} /\ cur' = m /\ pc' = "config"
        \/ UNCHANGED <<infra, made, cur>> /\ pc' = "status"
    BY <1>1 DEF CloneTemplate, Fails, Return
  <2>2. pc = "clone" /\ UNCHANGED <<ccp, machines, configs>>
    BY <1>1 DEF CloneTemplate
  <2> QED BY <1>0, <2>1, <2>2 DEF GenerationTidy, Underway, Cleaning
<1>2. CASE GenerateCritConfig
  <2>1. \/ configs' = configs \cup {cur} /\ pc' = "machine"
        \/ faults' = faults - 1 /\ faults > 0 /\ pc' = "cleanupClone" /\ UNCHANGED configs
    BY <1>2 DEF GenerateCritConfig, Fails
  <2>2. pc = "config" /\ UNCHANGED <<ccp, machines, infra, made, cur>>
    BY <1>2 DEF GenerateCritConfig
  <2> QED BY <1>0, <2>1, <2>2 DEF GenerationTidy, Underway, Cleaning
<1>3. CASE GenerateMachine
  <2>1. \/ /\ machines'.live = machines.live \cup {cur} /\ machines'.deleting = machines.deleting
           /\ pc' \in {"clone", "status"}
        \/ faults' = faults - 1 /\ faults > 0 /\ pc' = "cleanupInfra" /\ UNCHANGED <<machines, cur>>
    BY <1>0, <1>3 DEF GenerateMachine, Fails, Return, MachineList
  <2>2. pc = "machine" /\ UNCHANGED <<ccp, infra, configs, made>>
    BY <1>3 DEF GenerateMachine
  <2> QED BY <1>0, <2>1, <2>2 DEF GenerationTidy, Underway, Cleaning
<1>4. CASE CleanupInfra
  <2>1. pc \in Cleaning /\ faults = 0
    BY <1>4 DEF CleanupInfra, Cleaning, GenerationTidy
  <2>2. /\ infra' = infra \ {cur} /\ UNCHANGED <<ccp, machines, configs, made, cur>>
        /\ \/ pc = "cleanupInfra" /\ pc' = "cleanupConfig"
           \/ pc = "cleanupClone" /\ pc' = "status"
    BY <1>4, <2>1 DEF CleanupInfra, Fails, Return
  <2> QED BY <1>0, <2>1, <2>2 DEF GenerationTidy, Underway, Cleaning
<1>5. CASE CleanupConfig
  <2>1. pc \in Cleaning /\ faults = 0
    BY <1>5 DEF CleanupConfig, Cleaning, GenerationTidy
  <2>2. /\ configs' = configs \ {cur} /\ UNCHANGED <<ccp, machines, infra, made, cur>>
        /\ pc = "cleanupConfig" /\ pc' = "status"
    BY <1>5, <2>1 DEF CleanupConfig, Fails, Return
  <2> QED BY <1>0, <2>1, <2>2 DEF GenerationTidy, Underway, Cleaning
<1>6. CASE \/ Crash
           \/ /\ Pass
              /\ ~(CloneTemplate \/ GenerateCritConfig \/ GenerateMachine)
              /\ ~(CleanupInfra \/ CleanupConfig)
  <2>1. ~Crash
    BY DEF Crash, Fails
  <2> QED BY <1>0, <1>6, <2>1, BetweenSteps DEF GenerationTidy, Underway, Cleaning, Between
<1>7. CASE Informers \/ User \/ ClusterProgress \/ UploadCritConfig \/ UNCHANGED vars
  <2>1. /\ UNCHANGED <<infra, configs, made, pc, cur>>
        /\ machines'.live = machines.live /\ machines'.deleting = machines.deleting
    BY <1>0, <1>7 DEF Informers, SyncCCP, SyncMachines, SyncSecrets, ClusterProgress, vars,
       UploadCritConfig, User, EditSpec, DeleteCCP, PauseCluster, RemoveWorker, MachineList
  <2> QED BY <1>0, <2>1 DEF GenerationTidy, Underway, Cleaning
<1>8. ASSUME NEW m \in MachineId, Machinery(m) \/ NodeBreaks(m) \/ DeleteMachineByHand(m)
      PROVE  GenerationTidy'
  <2>0. UNCHANGED <<made, pc, cur>>
    BY <1>8 DEF Machinery, NodeBreaks, DeleteMachineByHand, NodeJoins, NodeRecovers, SetNodeRef,
       RemoveNode, RemoveMachine, CollectGarbage
  <2>1. CASE RemoveMachine(m)
    <3>1. /\ m \in machines.deleting
          /\ machines'.live = machines.live \ {m} /\ machines'.deleting = machines.deleting \ {m}
          /\ infra' = infra \ {m} /\ configs' = configs \ {m}
      BY <1>0, <2>1 DEF RemoveMachine, MachineList
    <3> QED BY <1>0, <2>0, <3>1 DEF GenerationTidy, Underway, Cleaning
  <2>2. CASE CollectGarbage(m)
    <3>1. /\ ~ccp'.exists /\ machines'.live = machines.live
          /\ machines'.deleting \subseteq machines'.live
      BY <1>0, <2>2 DEF CollectGarbage, MachineList
    <3> QED BY <1>0, <2>0, <3>1 DEF GenerationTidy, Underway, Cleaning
  <2>3. CASE ~RemoveMachine(m) /\ ~CollectGarbage(m)
    <3>1. /\ UNCHANGED <<infra, configs>> /\ machines'.live = machines.live
          /\ machines.deleting \subseteq machines'.deleting
          /\ machines'.deleting \subseteq machines'.live
      BY <1>0, <1>8, <2>3 DEF Machinery, NodeBreaks, DeleteMachineByHand, NodeJoins, NodeRecovers,
         SetNodeRef, RemoveNode, MachineList
    <3> QED BY <1>0, <2>0, <3>1 DEF GenerationTidy, Underway, Cleaning
  <2> QED BY <2>1, <2>2, <2>3
<1> QED BY <1>1, <1>2, <1>3, <1>4, <1>5, <1>6, <1>7, <1>8 DEF Next

\* cleanupFromGeneration: whichever single call of a pass is rejected, and whatever the
\* cache says, when the pass has ended every infrastructure object and config belongs
\* to a machine and every machine that stays has both.
THEOREM NothingDanglesTheorem ==
    ASSUME FaultKinds \subseteq {"rejected"}, MaxFaults <= 1
    PROVE  Spec => []NothingDangles
<1>1. Init => GenerationTidy
  <2> SUFFICES ASSUME NEW left \in SUBSET MachineId, NEW hash \in Hash, InitWith(left, hash)
               PROVE  GenerationTidy
    BY IdAssumption, ConfigAssumption DEF Init
  <2>1. /\ machines.live = left /\ machines.deleting = {} /\ made = left
        /\ infra = left /\ configs = left /\ pc = "idle" /\ faults = MaxFaults
    BY DEF InitWith, EmptyList
  <2> QED BY <2>1 DEF GenerationTidy, Underway, Cleaning
<1>2. TypeOK /\ PassShape /\ GenerationTidy /\ [Next]_vars => GenerationTidy'
  BY GenerationTidyStep
<1>3. GenerationTidy => NothingDangles
  BY DEF GenerationTidy, Underway, NothingDangles
<1>4. TypeOK /\ PassShape /\ [Next]_vars => (TypeOK /\ PassShape)'
  BY TypeStep
<1> QED
  BY TypeInit, <1>1, <1>2, <1>3, <1>4, PTL DEF Spec

=============================================================================
