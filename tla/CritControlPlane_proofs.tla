----------------------- MODULE CritControlPlane_proofs -----------------------
(***************************************************************************)
(* Proofs about CritControlPlane, for any sets of machines, domains and    *)
(* hashes and any bounds.                                                  *)
(***************************************************************************)
EXTENDS CritControlPlane, FiniteSetTheorems, TLAPS

\* While machines are generated there is a failure domain left to use, and while
\* one machine is generated its identifier is known.
PassShape ==
    /\ pc \in {"clone", "config", "machine"} => fds # <<>>
    /\ pc \in {"config", "machine", "cleanupClone", "cleanupInfra", "cleanupConfig"} =>
          cur \in MachineId

\* pick counts with natural numbers.
LEMMA CountIsNat ==
    ASSUME NEW S, S \subseteq MachineId
    PROVE  Cardinality(S) \in Nat
BY IdAssumption, FS_Subset, FS_CardinalityType

\* PickNFewest returns n failure domains, or n nils.
LEMMA NFewestType ==
    ASSUME NEW ms, NEW f, NEW n \in Nat,
           NEW s \in NFailureDomainsWithFewestMachines(Domains, ms, f, n)
    PROVE  /\ s \in Seq(Domains \cup {NoFD})
           /\ Len(s) = n
<1> DEFINE N == Cardinality(Domains)
<1>1. CASE Domains = {}
  <2>1. s = [i \in 1..n |-> NoFD]
    BY <1>1 DEF NFailureDomainsWithFewestMachines, PickNFewest
  <2> QED BY <2>1
<1>2. CASE Domains # {}
  <2>1. N \in Nat /\ N > 0
    BY <1>2, DomainAssumption, FS_CardinalityType, FS_EmptySet
  <2>2. PICK order \in Ascending(Domains, ms, f) : s = [i \in 1..n |-> order[((i - 1) % N) + 1]]
    BY <1>2 DEF NFailureDomainsWithFewestMachines, PickNFewest
  <2>3. order \in [1..N -> Domains]
    BY DEF Ascending
  <2>4. \A i \in 1..n : ((i - 1) % N) + 1 \in 1..N
    BY <2>1
  <2>5. \A i \in 1..n : order[((i - 1) % N) + 1] \in Domains
    BY <2>3, <2>4
  <2> QED BY <2>2, <2>5
<1> QED BY <1>1, <1>2

\* PickFewest returns a failure domain, or nil.
LEMMA FewestType ==
    ASSUME NEW ms, NEW f, NEW d \in FailureDomainWithFewestMachines(Domains, ms, f)
    PROVE  d \in Domains \cup {NoFD}
BY DEF FailureDomainWithFewestMachines, PickFewest

\* The machine selected for scale down is one of the machines listed.
LEMMA SelectType ==
    ASSUME NEW m \in SelectMachineForScaleDown
    PROVE  m \in list.live
<1> DEFINE zero == [x \in MachineId |-> 0]
           candidates == IF MachinesNeedingUpgrade # {} THEN MachinesNeedingUpgrade ELSE list.live
<1>1. candidates \subseteq list.live
  BY DEF MachinesNeedingUpgrade
<1>2. m \in UNION {Oldest(InFailureDomains(candidates, domainOf, {d}), zero) :
         d \in FailureDomainWithMostMachines(Domains, list.live, candidates, domainOf, zero)}
  BY DEF SelectMachineForScaleDown, MachineInFailureDomainWithMostMachines
<1>3. PICK d : m \in Oldest(InFailureDomains(candidates, domainOf, {d}), zero)
  BY <1>2
<1>4. m \in candidates
  BY <1>3 DEF Oldest, InFailureDomains
<1> QED BY <1>1, <1>4

\* A merged status is a status.
LEMMA MergeType ==
    ASSUME NEW c \in Status, NEW b \in Status, NEW a \in Status
    PROVE  MergeStatus(c, b, a) \in Status
BY DEF MergeStatus, Status
-----------------------------------------------------------------------------
(* Type correctness *)

\* What a pass holds when it is not running has the type of an object.
LEMMA NoCCPType == NoCCP \in CCP
BY ConfigAssumption, ReplicasAssumption DEF NoCCP, CCP, Status, NewStatus

\* What a pass leaves its variables with when it ends.
LEMMA EmptyTypes ==
    /\ EmptyList \in MachineList
    /\ <<>> \in Seq(Domains \cup {NoFD})
BY DEF EmptyList, MachineList

\* Changing fields of a CritControlPlane leaves a CritControlPlane.
LEMMA CCPChange ==
    ASSUME NEW c \in CCP
    PROVE  /\ c.finalizer \in BOOLEAN /\ c.exists \in BOOLEAN /\ c.deleting \in BOOLEAN
           /\ c.replicas \in 0..MaxReplicas /\ c.hash \in Hash /\ c.status \in Status
           /\ \A h \in Hash, r \in 0..MaxReplicas : [c EXCEPT !.hash = h, !.replicas = r] \in CCP
           /\ \A a, b \in BOOLEAN : [c EXCEPT !.exists = a, !.deleting = b] \in CCP
           /\ \A a, b \in BOOLEAN, s \in Status :
                 [c EXCEPT !.exists = a, !.finalizer = b, !.status = s] \in CCP
BY DEF CCP

\* So does changing the status the way the two parts of updateStatus do.
LEMMA StatusChange ==
    ASSUME NEW s \in Status, NEW n \in Nat, NEW u \in Nat
    PROVE  [s EXCEPT !.replicas = n, !.updatedReplicas = u,
                     !.readyReplicas = 0, !.unavailableReplicas = n] \in Status
<1>1. n \in Int /\ 0 \in Nat
  OBVIOUS
<1> QED BY <1>1 DEF Status

\* The second part of updateStatus leaves a status too.
LEMMA RemoteStatusChange ==
    ASSUME NEW s \in Status, NEW n \in Nat, NEW i \in BOOLEAN, NEW b \in BOOLEAN
    PROVE  [s EXCEPT !.readyReplicas = n, !.unavailableReplicas = s.replicas - n,
                     !.initialized = i, !.ready = b] \in Status
<1>1. s.replicas - n \in Int
  BY DEF Status
<1> QED BY <1>1 DEF Status

\* The types and the shape of a pass hold at the start.
LEMMA TypeInit == Init => TypeOK /\ PassShape
<1> SUFFICES ASSUME NEW left \in SUBSET MachineId, NEW hash \in Hash, InitWith(left, hash)
             PROVE  TypeOK /\ PassShape
  BY IdAssumption, ConfigAssumption DEF Init
<1>1. NewStatus \in Status
  BY DEF NewStatus, Status
<1>2. ccp \in CCP /\ ccp.hash \in Hash
  <2>1. PICK r \in 1..MaxReplicas :
           ccp = [exists |-> TRUE, deleting |-> FALSE, finalizer |-> FALSE,
                  replicas |-> r, hash |-> FirstHash, status |-> NewStatus]
    BY DEF InitWith
  <2>2. r \in 0..MaxReplicas
    BY ReplicasAssumption
  <2> QED BY <2>1, <2>2, <1>1, ConfigAssumption DEF CCP
<1>3. EmptyList \in MachineList /\ machines \in MachineList
  BY DEF InitWith, EmptyList, MachineList
<1>4. cluster \in Cluster
  BY DEF InitWith, Cluster
<1>5. ObjectTypes
  BY <1>2, <1>3, <1>4 DEF InitWith, ObjectTypes
<1>6. PassTypes
  BY NoCCPType, EmptyTypes DEF InitWith, PassTypes, PC, Goal
<1>7. CacheTypes /\ WorkloadTypes /\ BoundTypes
  BY <1>2, <1>3, <1>5, BoundsAssumption
  DEF InitWith, ObjectTypes, CacheTypes, WorkloadTypes, BoundTypes, NodeState
<1> QED
  BY <1>5, <1>6, <1>7 DEF InitWith, TypeOK, PassShape

\* Whatever a pass decides to do with a list of machines is something it can do.
LEMMA DecideType ==
    ASSUME TypeOK, PassShape, NEW l \in MachineList, Decide(l)
    PROVE  /\ pc' \in {"clusterStatus", "clone", "status"} /\ goal' \in Goal
           /\ fds' \in Seq(Domains \cup {NoFD}) /\ again' \in BOOLEAN
           /\ pc' = "clone" => fds' # <<>>
<1>1. my.replicas \in Nat /\ goal \in Goal /\ fds \in Seq(Domains \cup {NoFD})
      /\ again \in BOOLEAN
  BY ReplicasAssumption DEF TypeOK, PassTypes, CCP
<1>2. CASE /\ my.replicas > 0 /\ goal' = "init" /\ pc' = "clone" /\ UNCHANGED again
           /\ fds' \in NFailureDomainsWithFewestMachines(Domains, l.live, domainOf, my.replicas)
  <2>1. fds' \in Seq(Domains \cup {NoFD}) /\ Len(fds') = my.replicas
    BY <1>1, <1>2, NFewestType
  <2> QED BY <1>1, <1>2, <2>1 DEF Goal
<1>3. CASE pc' \in {"clusterStatus", "status"} /\ UNCHANGED <<goal, fds>> /\ again' \in BOOLEAN
  BY <1>1, <1>3
<1> QED BY <1>1, <1>2, <1>3 DEF Decide, Return

\* Every action keeps the types and the shape of a pass.
LEMMA TypeStep == TypeOK /\ PassShape /\ [Next]_vars => TypeOK' /\ PassShape'
<1> SUFFICES ASSUME TypeOK, PassShape, [Next]_vars PROVE TypeOK' /\ PassShape'
  OBVIOUS
<1> USE DEF TypeOK, apiVars, cacheVars, workVars, passVars, boundVars
<1>1. CASE Reconcile
  <2>1. ObjectTypes'
    BY <1>1 DEF Reconcile, ObjectTypes, Return, Fails
  <2>2. CacheTypes' /\ WorkloadTypes'
    BY <1>1 DEF Reconcile, CacheTypes, WorkloadTypes
  <2>3. PassTypes'
    BY <1>1 DEF Reconcile, PassTypes, Return, Fails, PC, Goal, CacheTypes
  <2>4. BoundTypes'
    BY <1>1 DEF Reconcile, BoundTypes, Return, Fails
  <2>5. PassShape'
    BY <1>1 DEF Reconcile, PassShape, Return, Fails
  <2> QED BY <2>1, <2>2, <2>3, <2>4, <2>5
<1>2. CASE ReconcileExternalReference
  <2>1. ObjectTypes'
    BY <1>2 DEF ReconcileExternalReference, ObjectTypes, Return, Fails
  <2>2. CacheTypes' /\ WorkloadTypes'
    BY <1>2 DEF ReconcileExternalReference, CacheTypes, WorkloadTypes
  <2>3. PassTypes'
    BY <1>2 DEF ReconcileExternalReference, PassTypes, Return, Fails, PC, Goal, CCP
  <2>4. BoundTypes'
    BY <1>2 DEF ReconcileExternalReference, BoundTypes, Return, Fails
  <2>5. PassShape'
    BY <1>2 DEF ReconcileExternalReference, PassShape, Return, Fails
  <2> QED BY <2>1, <2>2, <2>3, <2>4, <2>5
<1>3. CASE LookupOrGenerate
  <2>1. ObjectTypes'
    BY <1>3 DEF LookupOrGenerate, ObjectTypes, Return, Fails, Secret
  <2>2. CacheTypes' /\ WorkloadTypes'
    BY <1>3 DEF LookupOrGenerate, CacheTypes, WorkloadTypes
  <2>3. PassTypes'
    BY <1>3 DEF LookupOrGenerate, PassTypes, Return, Fails, PC, Goal
  <2>4. BoundTypes'
    BY <1>3 DEF LookupOrGenerate, BoundTypes, Return, Fails
  <2>5. PassShape'
    BY <1>3 DEF LookupOrGenerate, PassShape, Return, Fails
  <2> QED BY <2>1, <2>2, <2>3, <2>4, <2>5
<1>4. CASE ReconcileControlPlaneKubeconfig
  <2>1. ObjectTypes'
    BY <1>4 DEF ReconcileControlPlaneKubeconfig, ObjectTypes, Return, Fails, Secret
  <2>2. CacheTypes' /\ WorkloadTypes'
    BY <1>4 DEF ReconcileControlPlaneKubeconfig, CacheTypes, WorkloadTypes
  <2>3. PassTypes'
    BY <1>4 DEF ReconcileControlPlaneKubeconfig, PassTypes, Return, Fails, PC, Goal
  <2>4. BoundTypes'
    BY <1>4 DEF ReconcileControlPlaneKubeconfig, BoundTypes, Return, Fails
  <2>5. PassShape'
    BY <1>4 DEF ReconcileControlPlaneKubeconfig, PassShape, Return, Fails
  <2> QED BY <2>1, <2>2, <2>3, <2>4, <2>5
<1>5. CASE ListMachines
  <2>1. ObjectTypes'
    BY <1>5 DEF ListMachines, ObjectTypes
  <2>2. CacheTypes' /\ WorkloadTypes'
    BY <1>5 DEF ListMachines, CacheTypes, WorkloadTypes
  <2>3. /\ pc' \in {"own", "clusterStatus", "clone", "status"} /\ goal' \in Goal
        /\ fds' \in Seq(Domains \cup {NoFD}) /\ again' \in BOOLEAN
        /\ pc' = "clone" => fds' # <<>>
    <3>1. CASE Decide(machinesC)
      BY <3>1, DecideType DEF CacheTypes
    <3>2. CASE pc' = "own" /\ UNCHANGED <<goal, fds, again>>
      BY <3>2 DEF PassTypes
    <3> QED BY <1>5, <3>1, <3>2 DEF ListMachines
  <2>4. PassTypes'
    BY <1>5, <2>3 DEF ListMachines, PassTypes, PC, CacheTypes
  <2>5. BoundTypes'
    BY <1>5 DEF ListMachines, BoundTypes
  <2>6. PassShape'
    BY <2>3 DEF PassShape
  <2> QED BY <2>1, <2>2, <2>4, <2>5, <2>6
<1>37. CASE EnsureOwnership
  <2>0. PICK failed \in SUBSET list.orphan, lost \in BOOLEAN, kind \in {"lost", "rejected"} :
          /\ UNCHANGED faults \/ Fails(kind)
          /\ \E kept : machines' = [machines EXCEPT !.orphan = @ \ (list.orphan \ kept)]
          /\ Decide(list) \/ (Return(TRUE) /\ UNCHANGED <<goal, fds>>)
    BY <1>37 DEF EnsureOwnership
  <2>1. ObjectTypes'
    <3>1. machines' \in MachineList
      BY <2>0 DEF ObjectTypes, MachineList
    <3> QED BY <1>37, <3>1 DEF EnsureOwnership, ObjectTypes
  <2>2. CacheTypes' /\ WorkloadTypes'
    BY <1>37 DEF EnsureOwnership, CacheTypes, WorkloadTypes
  <2>3. /\ pc' \in {"clusterStatus", "clone", "status"} /\ goal' \in Goal
        /\ fds' \in Seq(Domains \cup {NoFD}) /\ again' \in BOOLEAN
        /\ pc' = "clone" => fds' # <<>>
    <3>1. CASE Decide(list)
      BY <3>1, DecideType DEF PassTypes
    <3>2. CASE Return(TRUE) /\ UNCHANGED <<goal, fds>>
      BY <3>2 DEF PassTypes, Return
    <3> QED BY <2>0, <3>1, <3>2
  <2>4. PassTypes'
    BY <1>37, <2>3 DEF EnsureOwnership, PassTypes, PC
  <2>5. BoundTypes'
    <3>1. faults' \in Nat
      BY <2>0 DEF BoundTypes, Fails
    <3> QED BY <1>37, <3>1 DEF EnsureOwnership, BoundTypes
  <2>6. PassShape'
    BY <2>3 DEF PassShape
  <2> QED BY <2>1, <2>2, <2>4, <2>5, <2>6
<1>6. CASE ClusterStatus
  <2>1. ObjectTypes'
    BY <1>6 DEF ClusterStatus, ObjectTypes, Return, Fails
  <2>2. CacheTypes' /\ WorkloadTypes'
    BY <1>6 DEF ClusterStatus, CacheTypes, WorkloadTypes
  <2>3. PassTypes'
    BY <1>6 DEF ClusterStatus, PassTypes, Return, Fails, PC, Goal
  <2>4. BoundTypes'
    BY <1>6 DEF ClusterStatus, BoundTypes, Return, Fails
  <2>5. PassShape'
    BY <1>6 DEF ClusterStatus, PassShape, Return, Fails
  <2> QED BY <2>1, <2>2, <2>3, <2>4, <2>5
<1>7. CASE ControlPlaneIsHealthy
  <2>1. ObjectTypes'
    BY <1>7 DEF ControlPlaneIsHealthy, ObjectTypes, Return, Fails
  <2>2. CacheTypes' /\ WorkloadTypes'
    BY <1>7 DEF ControlPlaneIsHealthy, CacheTypes, WorkloadTypes
  <2>3. PassTypes'
    BY <1>7 DEF ControlPlaneIsHealthy, PassTypes, Return, Fails, PC, Goal, ControlPlaneNodes
  <2>4. BoundTypes'
    BY <1>7 DEF ControlPlaneIsHealthy, BoundTypes, Return, Fails
  <2>5. PassShape'
    BY <1>7 DEF ControlPlaneIsHealthy, PassShape, Return, Fails
  <2> QED BY <2>1, <2>2, <2>3, <2>4, <2>5
<1>8. CASE MatchMachines
  <2>1. ObjectTypes'
    BY <1>8 DEF MatchMachines, ObjectTypes, Return, Fails
  <2>2. CacheTypes' /\ WorkloadTypes'
    BY <1>8 DEF MatchMachines, CacheTypes, WorkloadTypes
  <2>3. PassTypes'
    <3>1. fds' \in Seq(Domains \cup {NoFD})
      <4>1. fds' = fds \/ \E d \in FailureDomainWithFewestMachines(Domains, list.live, domainOf) : fds' = <<d>>
        BY <1>8 DEF MatchMachines
      <4>2. \A d \in Domains \cup {NoFD} : <<d>> \in Seq(Domains \cup {NoFD})
        OBVIOUS
      <4> QED BY <4>1, <4>2, FewestType DEF PassTypes
    <3>2. victims' \in SUBSET MachineId
      <4>1. victims' = victims \/ \E m \in SelectMachineForScaleDown : victims' = {m}
        BY <1>8 DEF MatchMachines
      <4>2. list.live \subseteq MachineId
        BY DEF PassTypes, MachineList
      <4> QED BY <4>1, <4>2, SelectType DEF PassTypes
    <3>3. pc' \in PC /\ again' \in BOOLEAN
      BY <1>8 DEF MatchMachines, PassTypes, Return, PC
    <3> QED BY <1>8, <3>1, <3>2, <3>3 DEF MatchMachines, PassTypes
  <2>4. BoundTypes'
    BY <1>8 DEF MatchMachines, BoundTypes, Return, Fails
  <2>5. PassShape'
    BY <1>8 DEF MatchMachines, PassShape, Return, Fails
  <2> QED BY <2>1, <2>2, <2>3, <2>4, <2>5
<1>9. CASE CloneTemplate
  <2>1. ObjectTypes'
    BY <1>9 DEF CloneTemplate, ObjectTypes, Return, Fails
  <2>2. CacheTypes' /\ WorkloadTypes'
    BY <1>9 DEF CloneTemplate, CacheTypes, WorkloadTypes
  <2>3. PassTypes'
    BY <1>9 DEF CloneTemplate, PassTypes, Return, Fails, PC, Goal, BoundTypes
  <2>4. BoundTypes'
    BY <1>9 DEF CloneTemplate, BoundTypes, Return, Fails
  <2>5. PassShape'
    BY <1>9 DEF CloneTemplate, PassShape, Return, Fails
  <2> QED BY <2>1, <2>2, <2>3, <2>4, <2>5
<1>10. CASE GenerateCritConfig
  <2>1. ObjectTypes'
    BY <1>10 DEF GenerateCritConfig, ObjectTypes, Return, Fails, PassShape
  <2>2. CacheTypes' /\ WorkloadTypes'
    BY <1>10 DEF GenerateCritConfig, CacheTypes, WorkloadTypes
  <2>3. PassTypes'
    BY <1>10 DEF GenerateCritConfig, PassTypes, Return, Fails, PC, Goal
  <2>4. BoundTypes'
    BY <1>10 DEF GenerateCritConfig, BoundTypes, Return, Fails
  <2>5. PassShape'
    BY <1>10 DEF GenerateCritConfig, PassShape, Return, Fails
  <2> QED BY <2>1, <2>2, <2>3, <2>4, <2>5
<1>11. CASE GenerateMachine
  <2>1. ObjectTypes'
    <3>1. cur \in MachineId /\ fds # <<>> /\ fds \in Seq(Domains \cup {NoFD})
      BY <1>11 DEF GenerateMachine, PassShape, PassTypes
    <3>2. Head(fds) \in Domains \cup {NoFD}
      BY <3>1
    <3>3. my.hash \in Hash
      BY CCPChange DEF PassTypes
    <3>4. machines' \in MachineList
      BY <1>11, <3>1 DEF GenerateMachine, ObjectTypes, MachineList, Return, Fails
    <3>5. hashOf' \in [MachineId -> Hash] /\ domainOf' \in [MachineId -> Domains \cup {NoFD}]
      BY <1>11, <3>1, <3>2, <3>3 DEF GenerateMachine, ObjectTypes, Return, Fails
    <3> QED BY <1>11, <3>4, <3>5 DEF GenerateMachine, ObjectTypes
  <2>2. CacheTypes' /\ WorkloadTypes'
    BY <1>11 DEF GenerateMachine, CacheTypes, WorkloadTypes
  <2>3. PassTypes'
    <3>1. fds' \in Seq(Domains \cup {NoFD})
      <4>1. fds # <<>> /\ fds \in Seq(Domains \cup {NoFD})
        BY <1>11 DEF GenerateMachine, PassShape, PassTypes
      <4>2. fds' = fds \/ fds' = Tail(fds)
        BY <1>11 DEF GenerateMachine
      <4> QED BY <4>1, <4>2
    <3>2. pc' \in PC /\ again' \in BOOLEAN /\ cur' \in MachineId \cup {NoMachine}
      BY <1>11 DEF GenerateMachine, PassTypes, Return, Fails, PC
    <3> QED BY <1>11, <3>1, <3>2 DEF GenerateMachine, PassTypes
  <2>4. BoundTypes'
    BY <1>11 DEF GenerateMachine, BoundTypes, Return, Fails
  <2>5. PassShape'
    BY <1>11 DEF GenerateMachine, PassShape, Return, Fails
  <2> QED BY <2>1, <2>2, <2>3, <2>4, <2>5
<1>12. CASE CleanupInfra
  <2>1. ObjectTypes'
    BY <1>12 DEF CleanupInfra, ObjectTypes, Return, Fails
  <2>2. CacheTypes' /\ WorkloadTypes'
    BY <1>12 DEF CleanupInfra, CacheTypes, WorkloadTypes
  <2>3. PassTypes'
    BY <1>12 DEF CleanupInfra, PassTypes, Return, Fails, PC, Goal
  <2>4. BoundTypes'
    BY <1>12 DEF CleanupInfra, BoundTypes, Return, Fails
  <2>5. PassShape'
    BY <1>12 DEF CleanupInfra, PassShape, Return, Fails
  <2> QED BY <2>1, <2>2, <2>3, <2>4, <2>5
<1>13. CASE CleanupConfig
  <2>1. ObjectTypes'
    BY <1>13 DEF CleanupConfig, ObjectTypes, Return, Fails
  <2>2. CacheTypes' /\ WorkloadTypes'
    BY <1>13 DEF CleanupConfig, CacheTypes, WorkloadTypes
  <2>3. PassTypes'
    BY <1>13 DEF CleanupConfig, PassTypes, Return, Fails, PC, Goal
  <2>4. BoundTypes'
    BY <1>13 DEF CleanupConfig, BoundTypes, Return, Fails
  <2>5. PassShape'
    BY <1>13 DEF CleanupConfig, PassShape, Return, Fails
  <2> QED BY <2>1, <2>2, <2>3, <2>4, <2>5
<1>14. CASE ReconcileDelete
  <2>1. ObjectTypes'
    BY <1>14 DEF ReconcileDelete, ObjectTypes, Return, Fails
  <2>2. CacheTypes' /\ WorkloadTypes'
    BY <1>14 DEF ReconcileDelete, CacheTypes, WorkloadTypes
  <2>3. PassTypes'
    BY <1>14 DEF ReconcileDelete, PassTypes, Return, Fails, PC, Goal, WaitForWorkers, CacheTypes, CCP, MachineList
  <2>4. BoundTypes'
    BY <1>14 DEF ReconcileDelete, BoundTypes, Return, Fails
  <2>5. PassShape'
    BY <1>14 DEF ReconcileDelete, PassShape, Return, Fails, WaitForWorkers
  <2> QED BY <2>1, <2>2, <2>3, <2>4, <2>5
<1>15. CASE DeleteMachine
  <2>1. ObjectTypes'
    BY <1>15 DEF DeleteMachine, ObjectTypes, Return, Fails, MachineList, PassTypes
  <2>2. CacheTypes' /\ WorkloadTypes'
    BY <1>15 DEF DeleteMachine, CacheTypes, WorkloadTypes
  <2>3. PassTypes'
    BY <1>15 DEF DeleteMachine, PassTypes, Return, Fails, PC, Goal
  <2>4. BoundTypes'
    BY <1>15 DEF DeleteMachine, BoundTypes, Return, Fails
  <2>5. PassShape'
    BY <1>15 DEF DeleteMachine, PassShape, Return, Fails
  <2> QED BY <2>1, <2>2, <2>3, <2>4, <2>5
<1>16. CASE UpdateStatus
  <2>1. ObjectTypes'
    BY <1>16 DEF UpdateStatus, ObjectTypes, Return, Fails
  <2>2. CacheTypes' /\ WorkloadTypes'
    BY <1>16 DEF UpdateStatus, CacheTypes, WorkloadTypes
  <2>3. PassTypes'
    <3> DEFINE replicas == Cardinality(machinesC.live)
               updated  == Cardinality({m \in machinesC.live : hashOf[m] = my.hash})
    <3>1. replicas \in Nat /\ updated \in Nat
      BY CountIsNat DEF CacheTypes, MachineList
    <3> DEFINE new == [my.status EXCEPT !.replicas = replicas, !.updatedReplicas = updated,
                                        !.readyReplicas = 0, !.unavailableReplicas = replicas]
    <3>2. my' = [my EXCEPT !.status = new]
      BY <1>16 DEF UpdateStatus
    <3>4. new \in Status
      <4>1. my.status \in Status
        BY CCPChange DEF PassTypes
      <4> QED BY <3>1, <4>1, StatusChange
    <3> HIDE DEF new
    <3>3. my' \in CCP
      BY <3>2, <3>4 DEF PassTypes, CCP
    <3> QED BY <1>16, <3>3 DEF UpdateStatus, PassTypes, PC
  <2>4. BoundTypes'
    BY <1>16 DEF UpdateStatus, BoundTypes, Return, Fails
  <2>5. PassShape'
    BY <1>16 DEF UpdateStatus, PassShape, Return, Fails
  <2> QED BY <2>1, <2>2, <2>3, <2>4, <2>5
<1>17. CASE UpdateRemoteStatus
  <2>1. ObjectTypes'
    BY <1>17 DEF UpdateRemoteStatus, ObjectTypes, Return, Fails
  <2>2. CacheTypes' /\ WorkloadTypes'
    BY <1>17 DEF UpdateRemoteStatus, CacheTypes, WorkloadTypes
  <2>3. PassTypes'
    <3>1. ReadyNodes \in Nat
      BY CountIsNat DEF ReadyNodes
    <3>2. my' \in CCP
      <4>1. CASE my' = my
        BY <4>1 DEF PassTypes
      <4>2. RemoteStatus(my.status) \in Status
        <5>1. my.status \in Status
          BY CCPChange DEF PassTypes
        <5> DEFINE i == (my.status.initialized \/ critConfig)
                   b == (ReadyNodes # 0)
        <5>2. i \in BOOLEAN /\ b \in BOOLEAN
          OBVIOUS
        <5>3. RemoteStatus(my.status)
                = [my.status EXCEPT !.readyReplicas = ReadyNodes,
                                    !.unavailableReplicas = my.status.replicas - ReadyNodes,
                                    !.initialized = i, !.ready = b]
          BY Zenon DEF RemoteStatus
        <5> HIDE DEF i, b
        <5>4. [my.status EXCEPT !.readyReplicas = ReadyNodes,
                                !.unavailableReplicas = my.status.replicas - ReadyNodes,
                                !.initialized = i, !.ready = b] \in Status
          BY <3>1, <5>1, <5>2, RemoteStatusChange
        <5> QED BY <5>3, <5>4, Zenon
      <4>3. my' = my \/ my' = [my EXCEPT !.status = RemoteStatus(my.status)]
        BY <1>17 DEF UpdateRemoteStatus
      <4>4. CASE my' = [my EXCEPT !.status = RemoteStatus(my.status)]
        BY <4>2, <4>4 DEF PassTypes, CCP
      <4> QED BY <4>1, <4>3, <4>4
    <3> QED BY <1>17, <3>2 DEF UpdateRemoteStatus, PassTypes, PC, Fails
  <2>4. BoundTypes'
    BY <1>17 DEF UpdateRemoteStatus, BoundTypes, Return, Fails
  <2>5. PassShape'
    BY <1>17 DEF UpdateRemoteStatus, PassShape, Return, Fails
  <2> QED BY <2>1, <2>2, <2>3, <2>4, <2>5
<1>18. CASE Patch
  <2>1. ObjectTypes'
    <3>1. PICK e \in BOOLEAN, f \in BOOLEAN, s \in Status :
             ccp' = [ccp EXCEPT !.exists = e, !.finalizer = f, !.status = s]
      BY <1>18, CCPChange, MergeType DEF Patch, ObjectTypes, PassTypes
    <3>2. ccp' \in CCP
      BY <3>1, CCPChange DEF ObjectTypes
    <3> QED BY <1>18, <3>2 DEF Patch, ObjectTypes
  <2>2. CacheTypes' /\ WorkloadTypes'
    BY <1>18 DEF Patch, CacheTypes, WorkloadTypes
  <2>3. PassTypes'
    <3>1. queued' \in BOOLEAN
      BY <1>18 DEF Patch
    <3> QED BY <1>18, <3>1, NoCCPType, EmptyTypes DEF Patch, PassTypes, PC, Goal
  <2>4. BoundTypes'
    BY <1>18 DEF Patch, BoundTypes, Return, Fails
  <2>5. PassShape'
    BY <1>18 DEF Patch, PassShape, Return, Fails
  <2> QED BY <2>1, <2>2, <2>3, <2>4, <2>5
<1>19. CASE Crash
  <2>1. ObjectTypes'
    BY <1>19 DEF Crash, ObjectTypes, Return, Fails
  <2>2. CacheTypes' /\ WorkloadTypes'
    BY <1>19 DEF Crash, CacheTypes, WorkloadTypes, ObjectTypes
  <2>3. PassTypes'
    BY <1>19, NoCCPType, EmptyTypes DEF Crash, PassTypes, PC, Goal
  <2>4. BoundTypes'
    BY <1>19 DEF Crash, BoundTypes, Return, Fails
  <2>5. PassShape'
    BY <1>19 DEF Crash, PassShape, Return, Fails
  <2> QED BY <2>1, <2>2, <2>3, <2>4, <2>5
<1>20. CASE SyncCCP
  BY <1>20 DEF SyncCCP, ObjectTypes, CacheTypes, WorkloadTypes, PassTypes, BoundTypes, PassShape
<1>21. CASE SyncMachines
  BY <1>21 DEF SyncMachines, ObjectTypes, CacheTypes, WorkloadTypes, PassTypes, BoundTypes, PassShape
<1>22. CASE SyncSecrets
  BY <1>22 DEF SyncSecrets, ObjectTypes, CacheTypes, WorkloadTypes, PassTypes, BoundTypes, PassShape
<1>23. CASE EditSpec
  <2>1. ccp' \in CCP
    <3>1. PICK h \in Hash, r \in 0..MaxReplicas : ccp' = [ccp EXCEPT !.hash = h, !.replicas = r]
      BY <1>23 DEF EditSpec
    <3> QED BY <3>1, CCPChange DEF ObjectTypes
  <2> QED BY <1>23, <2>1 DEF EditSpec, ObjectTypes, CacheTypes, WorkloadTypes, PassTypes, BoundTypes, PassShape
<1>24. CASE DeleteCCP
  <2>1. ccp' \in CCP
    BY <1>24, CCPChange DEF DeleteCCP, ObjectTypes
  <2> QED BY <1>24, <2>1 DEF DeleteCCP, ObjectTypes, CacheTypes, WorkloadTypes, PassTypes, BoundTypes, PassShape
<1>25. CASE PauseCluster
  <2>1. cluster' \in Cluster
    BY <1>25 DEF PauseCluster, ObjectTypes, Cluster
  <2> QED BY <1>25, <2>1 DEF PauseCluster, ObjectTypes, CacheTypes, WorkloadTypes, PassTypes, BoundTypes, PassShape
<1>26. CASE RemoveWorker
  BY <1>26 DEF RemoveWorker, ObjectTypes, CacheTypes, WorkloadTypes, PassTypes, BoundTypes, PassShape, MachineList
<1>27. CASE ClusterProgress
  BY <1>27 DEF ClusterProgress, ObjectTypes, CacheTypes, WorkloadTypes, PassTypes, BoundTypes, PassShape, Cluster
<1>28. CASE UploadCritConfig
  BY <1>28 DEF UploadCritConfig, ObjectTypes, CacheTypes, WorkloadTypes, PassTypes, BoundTypes, PassShape
<1>29. ASSUME NEW m \in MachineId, NodeJoins(m) PROVE TypeOK' /\ PassShape'
  BY <1>29, FaultAssumption DEF NodeJoins, ObjectTypes, CacheTypes, WorkloadTypes, PassTypes, BoundTypes, PassShape, NodeState
<1>30. ASSUME NEW m \in MachineId, NodeRecovers(m) PROVE TypeOK' /\ PassShape'
  BY <1>30, FaultAssumption DEF NodeRecovers, ObjectTypes, CacheTypes, WorkloadTypes, PassTypes, BoundTypes, PassShape, NodeState
<1>31. ASSUME NEW m \in MachineId, NodeBreaks(m) PROVE TypeOK' /\ PassShape'
  BY <1>31, FaultAssumption DEF NodeBreaks, ObjectTypes, CacheTypes, WorkloadTypes, PassTypes, BoundTypes, PassShape, NodeState
<1>32. ASSUME NEW m \in MachineId, SetNodeRef(m) PROVE TypeOK' /\ PassShape'
  BY <1>32, FaultAssumption DEF SetNodeRef, ObjectTypes, CacheTypes, WorkloadTypes, PassTypes, BoundTypes, PassShape, MachineList
<1>33. ASSUME NEW m \in MachineId, RemoveNode(m) PROVE TypeOK' /\ PassShape'
  BY <1>33, FaultAssumption DEF RemoveNode, ObjectTypes, CacheTypes, WorkloadTypes, PassTypes, BoundTypes, PassShape, NodeState
<1>34. ASSUME NEW m \in MachineId, RemoveMachine(m) PROVE TypeOK' /\ PassShape'
  BY <1>34, FaultAssumption DEF RemoveMachine, ObjectTypes, CacheTypes, WorkloadTypes, PassTypes, BoundTypes, PassShape, MachineList
<1>35. ASSUME NEW m \in MachineId, CollectGarbage(m) PROVE TypeOK' /\ PassShape'
  BY <1>35, FaultAssumption DEF CollectGarbage, ObjectTypes, CacheTypes, WorkloadTypes, PassTypes, BoundTypes, PassShape, MachineList
<1>38. ASSUME NEW m \in MachineId, DeleteMachineByHand(m) PROVE TypeOK' /\ PassShape'
  BY <1>38, FaultAssumption DEF DeleteMachineByHand, ObjectTypes, CacheTypes, WorkloadTypes, PassTypes, BoundTypes, PassShape, MachineList
<1>36. CASE UNCHANGED vars
  BY <1>36 DEF vars, ObjectTypes, CacheTypes, WorkloadTypes, PassTypes, BoundTypes, PassShape
<1> QED
  BY <1>1, <1>2, <1>3, <1>4, <1>5, <1>6, <1>7, <1>8, <1>9, <1>10, <1>11, <1>12, <1>13, <1>14, <1>15, <1>16, <1>17, <1>18, <1>19, <1>20, <1>21, <1>22, <1>23, <1>24, <1>25, <1>26, <1>27, <1>28, <1>29, <1>30, <1>31, <1>32, <1>33, <1>34, <1>35, <1>36, <1>37, <1>38 DEF Next, Pass, Informers, User, Machinery

\* Every variable keeps its type in every behaviour, with stale caches and with
\* faults: in particular readyReplicas never goes below zero and a pass never
\* uses a failure domain or a machine it does not have.
THEOREM TypeCorrect == Spec => []TypeOK
<1>1. TypeOK /\ PassShape /\ [Next]_vars => (TypeOK /\ PassShape)'
  BY TypeStep
<1> QED
  BY TypeInit, <1>1, PTL DEF Spec

-----------------------------------------------------------------------------
(* The inductive invariant.  It relates what the pass has read to what the    *)
(* API server holds: between the first read and the first write of a pass that *)
(* started with up-to-date caches, the controllers around it only make         *)
(* machines progress or disappear.                                             *)

\* The calls of a pass before the machines are listed, between that and the
\* decision, and while machines are generated.
Reading == {"prepare", "certs", "kubeconfig", "list"}
Deciding == {"own", "clusterStatus", "nodeChecks", "matchMachines"}
Generating == {"clone", "config", "machine"}

\* NodeRefs and deletion timestamps are those of existing machines, nodes belong
\* to existing machines, and machine names are not used twice.
ListOk(l) == l.nodeRef \subseteq l.live /\ l.deleting \subseteq l.live

Wellformed ==
    /\ ListOk(machines) /\ ListOk(machinesC) /\ ListOk(list)
    /\ machines.live \subseteq made /\ machinesC.live \subseteq made
    /\ pc \in {"config", "machine"} =>
          cur \in made /\ cur \notin machines.live /\ cur \notin machinesC.live
    /\ ControlPlaneNodes \subseteq machines.live

\* Nobody else takes machines away: not the garbage collector, not the user.
Undisturbed == ccp.exists /\ ~MayDeleteMachines

\* What the cache says of a machine that still exists is still true.
CacheSound ==
    /\ machinesC.nodeRef \cap machines.live \subseteq machines.nodeRef
    /\ pc \in Reading \cup Deciding \cup {"delete"} => machines.live \subseteq machinesC.live
    /\ pc \in Reading /\ Undisturbed => machines.deleting \subseteq machinesC.deleting
    /\ pc \in Deciding \cup Generating /\ Undisturbed => machines.deleting \subseteq list.deleting

\* The finalizer is dropped in memory only when no machine exists.
FinalizerSound ==
    old.finalizer /\ ~my.finalizer =>
        machines.live = {} /\ pc \in {"status", "remoteStatus", "patch"}

\* Scaling up waits for every machine.
ScaleUpSound ==
    goal = "up" /\ pc \in Generating =>
        /\ Len(fds) = 1
        /\ machines.live \subseteq machines.nodeRef
        /\ Undisturbed => machines.deleting = {}

\* Scaling down has a machine to spare.
ScaleDownSound ==
    /\ pc \in Reading \cup {"idle", "own", "delete", "clusterStatus"} => goal = "none" /\ victims = {}
    /\ goal = "down" =>
        /\ pc \notin Generating
        /\ victims # {} => list.deleting = {} /\ \E v \in MachineId : victims = {v}
        /\ pc = "deleteVictims" => victims # {}
        /\ pc \in Deciding \cup {"deleteVictims"} /\ Undisturbed /\ list.deleting = {} =>
              /\ machines.deleting = {}
              /\ Cardinality(machines.live) > my.replicas

\* The strengthening from which the three theorems follow.
Sound == Wellformed /\ CacheSound /\ FinalizerSound /\ ScaleUpSound /\ ScaleDownSound

\* The invariant holds at the start.
LEMMA SoundInit == Init => Sound
<1> SUFFICES ASSUME NEW left \in SUBSET MachineId, NEW hash \in Hash, InitWith(left, hash)
             PROVE  Sound
  BY IdAssumption, ConfigAssumption DEF Init
<1>1. /\ machines.live = left /\ machines.nodeRef = left /\ machines.deleting = {}
      /\ machinesC = machines /\ made = left
      /\ list.live = {} /\ list.nodeRef = {} /\ list.deleting = {}
      /\ pc = "idle" /\ goal = "none" /\ victims = {} /\ old = my
  BY DEF InitWith, EmptyList
<1>2. ControlPlaneNodes \subseteq left
  BY DEF InitWith, ControlPlaneNodes
<1> QED
  BY <1>1, <1>2 DEF Sound, Wellformed, ListOk, CacheSound, FinalizerSound, ScaleUpSound,
     ScaleDownSound, Reading, Deciding, Generating

\* The steps of the others that touch neither machines nor what a pass knows of them.
QuietStep ==
    \/ SyncCCP \/ SyncSecrets \/ EditSpec \/ DeleteCCP \/ PauseCluster
    \/ ClusterProgress \/ UploadCritConfig
    \/ \E m \in MachineId : NodeJoins(m) \/ NodeRecovers(m) \/ NodeBreaks(m) \/ RemoveNode(m)
    \/ UNCHANGED vars

\* Steps that change neither the machines, nor what the pass knows of them.
LEMMA Quiet ==
    ASSUME QuietStep,
           TypeOK
    PROVE  /\ UNCHANGED <<machines, machinesC, list, made>>
           /\ UNCHANGED <<pc, old, my, goal, fds, cur, victims>>
           /\ ccp'.exists => ccp.exists
BY DEF QuietStep, SyncCCP, SyncSecrets, EditSpec, DeleteCCP, PauseCluster, ClusterProgress, UploadCritConfig,
       NodeJoins, NodeRecovers, NodeBreaks, RemoveNode, vars,
       apiVars, cacheVars, workVars, passVars, boundVars, TypeOK, ObjectTypes, CCP

\* Every action keeps the invariant, when Reconcile starts with fresh caches.
LEMMA SoundStep ==
    ASSUME FreshReads, TypeOK, PassShape, Sound, [Next]_vars
    PROVE  Sound'
<1> USE DEF apiVars, cacheVars, workVars, passVars, boundVars
<1>0. /\ machines \in MachineList /\ machinesC \in MachineList /\ list \in MachineList
      /\ old \in CCP /\ my \in CCP /\ ccp \in CCP /\ made \subseteq MachineId /\ WorkloadTypes
      /\ Wellformed /\ CacheSound /\ FinalizerSound /\ ScaleUpSound /\ ScaleDownSound
  BY DEF TypeOK, ObjectTypes, CacheTypes, PassTypes, BoundTypes, Sound
<1>1. CASE Reconcile
  <2>1. Wellformed'
    BY <1>0, <1>1 DEF Reconcile, Return, Fails, CachesFresh, Wellformed, ListOk, MachineList, ControlPlaneNodes
  <2>2. CacheSound'
    BY <1>0, <1>1 DEF Reconcile, Return, Fails, CachesFresh, CacheSound, Wellformed, ListOk, Reading, Deciding, Generating, Undisturbed, MachineList, CCP
  <2>3. FinalizerSound'
    BY <1>0, <1>1 DEF Reconcile, Return, Fails, CachesFresh, FinalizerSound, CacheSound, Undisturbed, MachineList, CCP, Reading, Deciding
  <2>4. ScaleUpSound'
    BY <1>0, <1>1 DEF Reconcile, Return, Fails, CachesFresh, ScaleUpSound, CacheSound, Wellformed, ListOk, Reading, Deciding, Generating, Undisturbed, MachineList, CCP
  <2>5. ScaleDownSound'
    BY <1>0, <1>1 DEF Reconcile, Return, Fails, CachesFresh, ScaleDownSound, CacheSound, Wellformed, ListOk, Reading, Deciding, Generating, Undisturbed, MachineList, CCP
  <2> QED BY <2>1, <2>2, <2>3, <2>4, <2>5 DEF Sound
<1>2. CASE ReconcileExternalReference
  BY <1>0, <1>2 DEF ReconcileExternalReference, Return, Fails, Sound, Wellformed, ListOk, CacheSound, FinalizerSound,
     ScaleUpSound, ScaleDownSound, ControlPlaneNodes, Reading, Deciding, Generating, Undisturbed, MachineList, CCP
<1>3. CASE LookupOrGenerate
  BY <1>0, <1>3 DEF LookupOrGenerate, Return, Fails, Sound, Wellformed, ListOk, CacheSound, FinalizerSound,
     ScaleUpSound, ScaleDownSound, ControlPlaneNodes, Reading, Deciding, Generating, Undisturbed, MachineList, CCP
<1>4. CASE ReconcileControlPlaneKubeconfig
  BY <1>0, <1>4 DEF ReconcileControlPlaneKubeconfig, Return, Fails, Sound, Wellformed, ListOk, CacheSound, FinalizerSound,
     ScaleUpSound, ScaleDownSound, ControlPlaneNodes, Reading, Deciding, Generating, Undisturbed, MachineList, CCP
<1>5. CASE ListMachines
  <2>1. Wellformed'
    BY <1>0, <1>5 DEF ListMachines, Decide, Return, Fails, Wellformed, ListOk, MachineList, ControlPlaneNodes
  <2>2. CacheSound'
    BY <1>0, <1>5 DEF ListMachines, Decide, Return, Fails, CacheSound, Wellformed, ListOk, Reading, Deciding, Generating, Undisturbed, MachineList, CCP
  <2>3. FinalizerSound'
    BY <1>0, <1>5 DEF ListMachines, Decide, Return, Fails, FinalizerSound, CacheSound, Undisturbed, MachineList, CCP, Reading, Deciding
  <2>4. ScaleUpSound'
    BY <1>0, <1>5 DEF ListMachines, Decide, Return, Fails, ScaleUpSound, CacheSound, Wellformed, ListOk, Reading, Deciding, Generating, Undisturbed, MachineList, CCP
  <2>5. ScaleDownSound'
    BY <1>0, <1>5 DEF ListMachines, Decide, Return, Fails, ScaleDownSound, CacheSound, Wellformed, ListOk, Reading, Deciding, Generating, Undisturbed, MachineList, CCP
  <2> QED BY <2>1, <2>2, <2>3, <2>4, <2>5 DEF Sound
<1>26. CASE EnsureOwnership
  <2>0. /\ machines'.live = machines.live /\ machines'.nodeRef = machines.nodeRef
        /\ machines'.deleting = machines.deleting
        /\ UNCHANGED <<ccp, nodes, machinesC, list, made, old, my, cur, victims>>
        /\ Decide(list) \/ (Return(TRUE) /\ UNCHANGED <<goal, fds>>)
        /\ pc = "own"
    BY <1>0, <1>26 DEF EnsureOwnership, MachineList
  <2>1. Wellformed'
    BY <1>0, <2>0 DEF Decide, Return, Wellformed, ListOk, ControlPlaneNodes
  <2>2. CacheSound'
    BY <1>0, <2>0 DEF Decide, Return, CacheSound, Wellformed, ListOk, Reading, Deciding, Generating, Undisturbed
  <2>3. FinalizerSound'
    BY <1>0, <2>0 DEF Decide, Return, FinalizerSound, CacheSound, Reading, Deciding
  <2>4. ScaleUpSound'
    BY <1>0, <2>0 DEF Decide, Return, ScaleUpSound, ScaleDownSound, Generating, Undisturbed
  <2>5. ScaleDownSound'
    BY <1>0, <2>0 DEF Decide, Return, ScaleDownSound, Reading, Deciding, Generating, Undisturbed
  <2> QED BY <2>1, <2>2, <2>3, <2>4, <2>5 DEF Sound
<1>6. CASE ClusterStatus
  <2>1. Wellformed'
    BY <1>0, <1>6 DEF ClusterStatus, Return, Fails, Wellformed, ListOk, MachineList, ControlPlaneNodes
  <2>2. CacheSound'
    BY <1>0, <1>6 DEF ClusterStatus, Return, Fails, CacheSound, Wellformed, ListOk, Reading, Deciding, Generating, Undisturbed, MachineList, CCP
  <2>3. FinalizerSound'
    BY <1>0, <1>6 DEF ClusterStatus, Return, Fails, FinalizerSound, CacheSound, Undisturbed, MachineList, CCP, Reading, Deciding
  <2>4. ScaleUpSound'
    BY <1>0, <1>6 DEF ClusterStatus, Return, Fails, ScaleUpSound, CacheSound, Wellformed, ListOk, Reading, Deciding, Generating, Undisturbed, MachineList, CCP
  <2>5. ScaleDownSound'
    <3>1. Cardinality(ControlPlaneNodes) <= Cardinality(machines.live)
      BY <1>0, IdAssumption, FS_Subset DEF Wellformed, MachineList
    <3>2. Cardinality(ControlPlaneNodes) \in Nat /\ Cardinality(machines.live) \in Nat /\ my.replicas \in Nat
      BY <1>0, CountIsNat, ReplicasAssumption DEF ControlPlaneNodes, MachineList, CCP
    <3>3. victims = {} /\ UNCHANGED <<victims, my, list, machines, ccp>>
      BY <1>0, <1>6 DEF ClusterStatus, ScaleDownSound
    <3>4. goal' = "down" => goal = "none" /\ pc' = "nodeChecks" /\ Cardinality(machines.live) > my.replicas
      BY <1>0, <1>6, <3>1, <3>2 DEF ClusterStatus, Return, ScaleDownSound
    <3>5. Undisturbed => machines.deleting \subseteq list.deleting
      BY <1>0, <1>6 DEF ClusterStatus, CacheSound, Deciding
    <3>6. pc' \in {"nodeChecks", "status"}
      BY <1>6 DEF ClusterStatus, Return
    <3> QED
      BY <3>3, <3>4, <3>5, <3>6 DEF ScaleDownSound, Reading, Deciding, Generating, Undisturbed
  <2> QED BY <2>1, <2>2, <2>3, <2>4, <2>5 DEF Sound
<1>7. CASE ControlPlaneIsHealthy
  BY <1>0, <1>7 DEF ControlPlaneIsHealthy, Return, Fails, Sound, Wellformed, ListOk, CacheSound, FinalizerSound,
     ScaleUpSound, ScaleDownSound, ControlPlaneNodes, Reading, Deciding, Generating, Undisturbed, MachineList, CCP
<1>8. CASE MatchMachines
  <2>1. Wellformed'
    BY <1>0, <1>8 DEF MatchMachines, Return, Fails, OneToOne, HasDeletingMachine, Wellformed, ListOk, MachineList, ControlPlaneNodes
  <2>2. CacheSound'
    BY <1>0, <1>8 DEF MatchMachines, Return, Fails, OneToOne, HasDeletingMachine, CacheSound, Wellformed, ListOk, Reading, Deciding, Generating, Undisturbed, MachineList, CCP
  <2>3. FinalizerSound'
    BY <1>0, <1>8 DEF MatchMachines, Return, Fails, OneToOne, HasDeletingMachine, FinalizerSound, CacheSound, Undisturbed, MachineList, CCP, Reading, Deciding
  <2>4. ScaleUpSound'
    BY <1>0, <1>8 DEF MatchMachines, Return, Fails, OneToOne, HasDeletingMachine, ScaleUpSound, CacheSound, Wellformed, ListOk, Reading, Deciding, Generating, Undisturbed, MachineList, CCP
  <2>5. ScaleDownSound'
    <3>1. UNCHANGED <<goal, list, machines, my, ccp>> /\ pc = "matchMachines"
      BY <1>8 DEF MatchMachines
    <3>2. CASE pc' = "status" /\ UNCHANGED victims
      BY <1>0, <3>1, <3>2 DEF ScaleDownSound, Reading, Deciding, Generating
    <3>3. CASE goal = "up" /\ pc' = "clone"
      BY <1>0, <3>1, <3>3 DEF ScaleDownSound, Reading, Deciding, Generating
    <3>4. CASE /\ goal = "down" /\ ~HasDeletingMachine /\ pc' = "nodeChecks"
               /\ \E m \in SelectMachineForScaleDown : victims' = {m}
      <4>1. \E v \in MachineId : victims' = {v}
        BY <1>0, <3>4, SelectType DEF MachineList
      <4>2. list.deleting = {}
        BY <1>0, <3>4 DEF HasDeletingMachine, Wellformed, ListOk, MachineList
      <4> QED
        BY <1>0, <3>1, <3>4, <4>1, <4>2 DEF ScaleDownSound, Reading, Deciding, Generating, Undisturbed
    <3>5. CASE goal = "down" /\ victims # {} /\ pc' = "deleteVictims" /\ UNCHANGED victims
      BY <1>0, <3>1, <3>5 DEF ScaleDownSound, Reading, Deciding, Generating, Undisturbed
    <3> QED
      BY <1>8, <3>2, <3>3, <3>4, <3>5 DEF MatchMachines, Return
  <2> QED BY <2>1, <2>2, <2>3, <2>4, <2>5 DEF Sound
<1>9. CASE CloneTemplate
  BY <1>0, <1>9 DEF CloneTemplate, Return, Fails, Sound, Wellformed, ListOk, CacheSound, FinalizerSound,
     ScaleUpSound, ScaleDownSound, ControlPlaneNodes, Reading, Deciding, Generating, Undisturbed, MachineList, CCP
<1>10. CASE GenerateCritConfig
  BY <1>0, <1>10 DEF GenerateCritConfig, Return, Fails, Sound, Wellformed, ListOk, CacheSound, FinalizerSound,
     ScaleUpSound, ScaleDownSound, ControlPlaneNodes, Reading, Deciding, Generating, Undisturbed, MachineList, CCP
<1>11. CASE GenerateMachine
  <2>1. Wellformed'
    BY <1>0, <1>11 DEF GenerateMachine, Return, Fails, Wellformed, ListOk, MachineList, ControlPlaneNodes
  <2>2. CacheSound'
    BY <1>0, <1>11 DEF GenerateMachine, Return, Fails, CacheSound, Wellformed, ListOk, Reading, Deciding, Generating, Undisturbed, MachineList, CCP
  <2>3. FinalizerSound'
    BY <1>0, <1>11 DEF GenerateMachine, Return, Fails, FinalizerSound, CacheSound, Undisturbed, MachineList, CCP, Reading, Deciding
  <2>4. ScaleUpSound'
    <3>1. goal = "up" => Len(fds) = 1
      BY <1>0, <1>11 DEF GenerateMachine, ScaleUpSound, Generating
    <3>2. goal = "up" => pc' \in {"status", "cleanupInfra"}
      <4>1. Len(fds) > 1 \/ pc' \in {"status", "cleanupInfra"}
        BY <1>11, Zenon DEF GenerateMachine, Return, Fails
      <4>2. ~(1 > 1)
        OBVIOUS
      <4> QED BY <3>1, <4>1, <4>2, Zenon
    <3> QED
      BY <1>11, <3>2 DEF GenerateMachine, ScaleUpSound, Generating
  <2>5. ScaleDownSound'
    BY <1>0, <1>11 DEF GenerateMachine, Return, Fails, ScaleDownSound, CacheSound, Wellformed, ListOk, Reading, Deciding, Generating, Undisturbed, MachineList, CCP
  <2> QED BY <2>1, <2>2, <2>3, <2>4, <2>5 DEF Sound
<1>12. CASE CleanupInfra
  BY <1>0, <1>12 DEF CleanupInfra, Return, Fails, Sound, Wellformed, ListOk, CacheSound, FinalizerSound,
     ScaleUpSound, ScaleDownSound, ControlPlaneNodes, Reading, Deciding, Generating, Undisturbed, MachineList, CCP
<1>13. CASE CleanupConfig
  BY <1>0, <1>13 DEF CleanupConfig, Return, Fails, Sound, Wellformed, ListOk, CacheSound, FinalizerSound,
     ScaleUpSound, ScaleDownSound, ControlPlaneNodes, Reading, Deciding, Generating, Undisturbed, MachineList, CCP
<1>14. CASE ReconcileDelete
  <2>1. Wellformed'
    BY <1>0, <1>14 DEF ReconcileDelete, Return, Fails, WaitForWorkers, OwnedGone, Wellformed, ListOk, MachineList, ControlPlaneNodes
  <2>2. CacheSound'
    BY <1>0, <1>14 DEF ReconcileDelete, Return, Fails, WaitForWorkers, OwnedGone, CacheSound, Wellformed, ListOk, Reading, Deciding, Generating, Undisturbed, MachineList, CCP
  <2>3. FinalizerSound'
    BY <1>0, <1>14 DEF ReconcileDelete, Return, Fails, WaitForWorkers, OwnedGone, FinalizerSound, CacheSound, Undisturbed, MachineList, CCP, Reading, Deciding
  <2>4. ScaleUpSound'
    BY <1>0, <1>14 DEF ReconcileDelete, Return, Fails, WaitForWorkers, OwnedGone, ScaleUpSound, CacheSound, Wellformed, ListOk, Reading, Deciding, Generating, Undisturbed, MachineList, CCP
  <2>5. ScaleDownSound'
    BY <1>0, <1>14 DEF ReconcileDelete, Return, Fails, WaitForWorkers, OwnedGone, ScaleDownSound, CacheSound, Wellformed, ListOk, Reading, Deciding, Generating, Undisturbed, MachineList, CCP
  <2> QED BY <2>1, <2>2, <2>3, <2>4, <2>5 DEF Sound
<1>15. CASE DeleteMachine
  BY <1>0, <1>15 DEF DeleteMachine, Return, Fails, Sound, Wellformed, ListOk, CacheSound, FinalizerSound,
     ScaleUpSound, ScaleDownSound, ControlPlaneNodes, Reading, Deciding, Generating, Undisturbed, MachineList, CCP
<1>16. CASE UpdateStatus
  BY <1>0, <1>16 DEF UpdateStatus, Return, Fails, Sound, Wellformed, ListOk, CacheSound, FinalizerSound,
     ScaleUpSound, ScaleDownSound, ControlPlaneNodes, Reading, Deciding, Generating, Undisturbed, MachineList, CCP
<1>17. CASE UpdateRemoteStatus
  BY <1>0, <1>17 DEF UpdateRemoteStatus, Return, Fails, Sound, Wellformed, ListOk, CacheSound, FinalizerSound,
     ScaleUpSound, ScaleDownSound, ControlPlaneNodes, Reading, Deciding, Generating, Undisturbed, MachineList, CCP
<1>18. CASE Patch
  <2>1. Wellformed'
    BY <1>0, <1>18 DEF Patch, Return, Fails, EmptyList, NoCCP, Wellformed, ListOk, MachineList, ControlPlaneNodes
  <2>2. CacheSound'
    BY <1>0, <1>18 DEF Patch, Return, Fails, EmptyList, NoCCP, CacheSound, Wellformed, ListOk, Reading, Deciding, Generating, Undisturbed, MachineList, CCP
  <2>3. FinalizerSound'
    BY <1>0, <1>18 DEF Patch, Return, Fails, EmptyList, NoCCP, FinalizerSound, CacheSound, Undisturbed, MachineList, CCP, Reading, Deciding
  <2>4. ScaleUpSound'
    BY <1>0, <1>18 DEF Patch, Return, Fails, EmptyList, NoCCP, ScaleUpSound, CacheSound, Wellformed, ListOk, Reading, Deciding, Generating, Undisturbed, MachineList, CCP
  <2>5. ScaleDownSound'
    BY <1>0, <1>18 DEF Patch, Return, Fails, EmptyList, NoCCP, ScaleDownSound, CacheSound, Wellformed, ListOk, Reading, Deciding, Generating, Undisturbed, MachineList, CCP
  <2> QED BY <2>1, <2>2, <2>3, <2>4, <2>5 DEF Sound
<1>19. CASE Crash
  <2>1. Wellformed'
    BY <1>0, <1>19 DEF Crash, Return, Fails, EmptyList, NoCCP, Wellformed, ListOk, MachineList, ControlPlaneNodes
  <2>2. CacheSound'
    BY <1>0, <1>19 DEF Crash, Return, Fails, EmptyList, NoCCP, CacheSound, Wellformed, ListOk, Reading, Deciding, Generating, Undisturbed, MachineList, CCP
  <2>3. FinalizerSound'
    BY <1>0, <1>19 DEF Crash, Return, Fails, EmptyList, NoCCP, FinalizerSound, CacheSound, Undisturbed, MachineList, CCP, Reading, Deciding
  <2>4. ScaleUpSound'
    BY <1>0, <1>19 DEF Crash, Return, Fails, EmptyList, NoCCP, ScaleUpSound, CacheSound, Wellformed, ListOk, Reading, Deciding, Generating, Undisturbed, MachineList, CCP
  <2>5. ScaleDownSound'
    BY <1>0, <1>19 DEF Crash, Return, Fails, EmptyList, NoCCP, ScaleDownSound, CacheSound, Wellformed, ListOk, Reading, Deciding, Generating, Undisturbed, MachineList, CCP
  <2> QED BY <2>1, <2>2, <2>3, <2>4, <2>5 DEF Sound
<1>20. CASE SyncMachines
  BY <1>0, <1>20 DEF SyncMachines, Return, Fails, Sound, Wellformed, ListOk, CacheSound, FinalizerSound,
     ScaleUpSound, ScaleDownSound, ControlPlaneNodes, Reading, Deciding, Generating, Undisturbed, MachineList, CCP
<1>21. CASE RemoveWorker
  BY <1>0, <1>21 DEF RemoveWorker, Return, Fails, Sound, Wellformed, ListOk, CacheSound, FinalizerSound,
     ScaleUpSound, ScaleDownSound, ControlPlaneNodes, Reading, Deciding, Generating, Undisturbed, MachineList, CCP
<1>22. ASSUME NEW m \in MachineId, SetNodeRef(m) PROVE Sound'
  BY <1>0, <1>22 DEF SetNodeRef, Return, Fails, Sound, Wellformed, ListOk, CacheSound, FinalizerSound,
     ScaleUpSound, ScaleDownSound, ControlPlaneNodes, Reading, Deciding, Generating, Undisturbed, MachineList, CCP
<1>23. ASSUME NEW m \in MachineId, RemoveMachine(m) PROVE Sound'
  BY <1>0, <1>23 DEF RemoveMachine, Return, Fails, Sound, Wellformed, ListOk, CacheSound, FinalizerSound,
     ScaleUpSound, ScaleDownSound, ControlPlaneNodes, Reading, Deciding, Generating, Undisturbed, MachineList, CCP
<1>27. ASSUME NEW m \in MachineId, DeleteMachineByHand(m) PROVE Sound'
  BY <1>0, <1>27 DEF DeleteMachineByHand, Return, Fails, Sound, Wellformed, ListOk, CacheSound, FinalizerSound,
     ScaleUpSound, ScaleDownSound, ControlPlaneNodes, Reading, Deciding, Generating, Undisturbed, MachineList, CCP
<1>24. ASSUME NEW m \in MachineId, CollectGarbage(m) PROVE Sound'
  BY <1>0, <1>24 DEF CollectGarbage, Return, Fails, Sound, Wellformed, ListOk, CacheSound, FinalizerSound,
     ScaleUpSound, ScaleDownSound, ControlPlaneNodes, Reading, Deciding, Generating, Undisturbed, MachineList, CCP
<1>25. CASE QuietStep
  <2>1. /\ UNCHANGED <<machines, machinesC, list, made>>
        /\ UNCHANGED <<pc, old, my, goal, fds, cur, victims>>
        /\ ccp'.exists => ccp.exists
    BY <1>25, Quiet
  <2>2. ControlPlaneNodes' \subseteq machines.live
    <3>1. CASE UNCHANGED nodes
      BY <1>0, <3>1 DEF Wellformed, ControlPlaneNodes
    <3>2. ASSUME NEW m \in MachineId, NodeJoins(m) \/ NodeRecovers(m) \/ NodeBreaks(m) \/ RemoveNode(m)
          PROVE  ControlPlaneNodes' \subseteq machines.live
      BY <1>0, <3>2 DEF Wellformed, ControlPlaneNodes, NodeJoins, NodeRecovers, NodeBreaks, RemoveNode,
                        WorkloadTypes
    <3> QED
      BY <1>25, <3>1, <3>2 DEF QuietStep, SyncCCP, SyncSecrets, EditSpec, DeleteCCP, PauseCluster,
                               ClusterProgress, UploadCritConfig, vars
  <2> QED
    BY <1>0, <2>1, <2>2 DEF Sound, Wellformed, CacheSound, FinalizerSound, ScaleUpSound, ScaleDownSound, Undisturbed
<1> QED
  <2>1. CASE Pass
    BY <2>1, <1>1, <1>2, <1>3, <1>4, <1>5, <1>6, <1>7, <1>8, <1>9, <1>10, <1>11, <1>12, <1>13, <1>14, <1>15, <1>16, <1>17, <1>18, <1>26 DEF Pass
  <2>2. CASE Crash \/ Informers \/ User
    BY <2>2, <1>19, <1>20, <1>21, <1>25 DEF Informers, User, QuietStep
  <2>4. CASE ClusterProgress \/ UploadCritConfig
    BY <2>4, <1>25 DEF QuietStep
  <2>5. CASE UNCHANGED vars
    BY <2>5, <1>25 DEF QuietStep
  <2>3. ASSUME NEW m \in MachineId, Machinery(m) \/ NodeBreaks(m) \/ DeleteMachineByHand(m) PROVE Sound'
    BY <2>3, <1>22, <1>23, <1>24, <1>25, <1>27 DEF Machinery, QuietStep
  <2> QED BY <2>1, <2>2, <2>3, <2>4, <2>5 DEF Next

\* The invariant, when every pass starts with caches that are up to date.
LEMMA SoundAlways ==
    ASSUME FreshReads
    PROVE  Spec => [](TypeOK /\ PassShape /\ Sound)
<1>1. Init => TypeOK /\ PassShape /\ Sound
  BY TypeInit, SoundInit
<1>2. TypeOK /\ PassShape /\ Sound /\ [Next]_vars => (TypeOK /\ PassShape /\ Sound)'
  BY TypeStep, SoundStep
<1> QED
  BY <1>1, <1>2, PTL DEF Spec

\* Only the patch at the end of a pass takes the finalizer away.
LEMMA OnlyPatchDropsFinalizer ==
    ASSUME TypeOK, Next, ccp.finalizer, ~ccp'.finalizer
    PROVE  Patch
<1> USE DEF apiVars, cacheVars, workVars, passVars, boundVars
<1>0. ccp \in CCP
  BY DEF TypeOK, ObjectTypes
<1>1. CASE Pass
  BY <1>1 DEF Pass, Reconcile, ReconcileExternalReference, LookupOrGenerate,
     ReconcileControlPlaneKubeconfig, ListMachines, EnsureOwnership, ClusterStatus, ControlPlaneIsHealthy,
     MatchMachines, CloneTemplate, GenerateCritConfig, GenerateMachine, CleanupInfra,
     CleanupConfig, ReconcileDelete, DeleteMachine, UpdateStatus, UpdateRemoteStatus
<1>2. CASE Crash \/ Informers \/ ClusterProgress \/ UploadCritConfig
  BY <1>2 DEF Crash, Informers, SyncCCP, SyncMachines, SyncSecrets, ClusterProgress, UploadCritConfig
<1>3. CASE User
  BY <1>0, <1>3 DEF User, EditSpec, DeleteCCP, PauseCluster, RemoveWorker, CCP
<1>4. ASSUME NEW m \in MachineId, Machinery(m) \/ NodeBreaks(m) \/ DeleteMachineByHand(m) PROVE FALSE
  BY <1>4 DEF Machinery, NodeBreaks, DeleteMachineByHand, NodeJoins, NodeRecovers, SetNodeRef, RemoveNode,
     RemoveMachine, CollectGarbage
<1> QED BY <1>1, <1>2, <1>3, <1>4 DEF Next

\* reconcileDelete and the patch of the deferred function: the stored finalizer
\* goes only when no control plane machine exists, whatever fails or crashes in
\* between, if a pass starts with fresh caches.
THEOREM FinalizerTheorem ==
    ASSUME FreshReads
    PROVE  Spec => FinalizerGuardsMachines
<1>1. TypeOK /\ Sound /\ [Next]_vars => [ccp.finalizer /\ ~ccp'.finalizer => machines.live = {}]_vars
  <2> SUFFICES ASSUME TypeOK, Sound, Next, ccp.finalizer, ~ccp'.finalizer
               PROVE  machines.live = {}
    OBVIOUS
  <2>1. Patch
    BY OnlyPatchDropsFinalizer
  <2>2. ~my.finalizer /\ my.finalizer # old.finalizer
    <3>1. ccp \in CCP
      BY DEF TypeOK, ObjectTypes
    <3>2. PICK failMetadata, failStatus \in BOOLEAN :
             ccp'.finalizer = IF my.finalizer # old.finalizer /\ ~failMetadata /\ MayPatchFinalizer
                              THEN my.finalizer ELSE ccp.finalizer
      BY <2>1, <3>1 DEF Patch, CCP
    <3> QED BY <3>2
  <2>3. old.finalizer \in BOOLEAN /\ my.finalizer \in BOOLEAN
    BY DEF TypeOK, PassTypes, CCP
  <2> QED BY <2>2, <2>3 DEF Sound, FinalizerSound
<1> QED
  BY SoundAlways, <1>1, PTL DEF Spec, FinalizerGuardsMachines

\* scaleUpControlPlane: no machine is added while another has no NodeRef or is
\* being deleted, although the checks and the creation are several calls apart.
THEOREM ScaleUpTheorem ==
    ASSUME FreshReads, ~MayDeleteMachines
    PROVE  Spec => ScaleUpWaits
<1>1. TypeOK /\ Sound =>
        [(pc = "machine" /\ goal = "up" /\ machines' # machines /\ ccp.exists) =>
            \A m \in machines.live : m \in machines.nodeRef /\ m \notin machines.deleting]_vars
  BY DEF Sound, ScaleUpSound, Generating, Undisturbed
<1> QED
  BY SoundAlways, <1>1, PTL DEF Spec, ScaleUpWaits

\* scaleDownControlPlane: the machine deleted was one too many.
THEOREM ScaleDownTheorem ==
    ASSUME FreshReads, ~MayDeleteMachines
    PROVE  Spec => ScaleDownKeepsReplicas
<1>1. TypeOK /\ Sound /\ [Next]_vars =>
        [(pc = "deleteVictims" /\ goal = "down" /\ machines' # machines /\ ccp.exists) =>
            Cardinality(machines'.live \ machines'.deleting) >= my.replicas]_vars
  <2> SUFFICES ASSUME TypeOK, Sound, Next,
                      pc = "deleteVictims", goal = "down", machines' # machines, ccp.exists
               PROVE  Cardinality(machines'.live \ machines'.deleting) >= my.replicas
    OBVIOUS
  <2>1. machines \in MachineList /\ my.replicas \in Nat /\ Cardinality(machines.live) \in Nat
    BY CountIsNat, ReplicasAssumption DEF TypeOK, ObjectTypes, PassTypes, MachineList, CCP
  <2>2. PICK v \in MachineId : victims = {v}
    BY DEF Sound, ScaleDownSound
  <2>3. machines.deleting = {} /\ Cardinality(machines.live) > my.replicas
    BY <2>2 DEF Sound, ScaleDownSound, Deciding, Undisturbed
  <2>4. CASE machines'.live = machines.live /\ machines'.deleting = {}
    BY <2>1, <2>3, <2>4
  <2>5. CASE machines'.live = machines.live /\ machines'.deleting = {v} \cap machines.live
    <3>1. IsFiniteSet(machines.live)
      BY <2>1, IdAssumption, FS_Subset DEF MachineList
    <3>2. \/ Cardinality(machines.live \ {v}) = Cardinality(machines.live)
          \/ Cardinality(machines.live \ {v}) = Cardinality(machines.live) - 1
      BY <3>1, FS_RemoveElement, Zenon
    <3>3. machines'.live \ machines'.deleting = machines.live \ {v}
      BY <2>5
    <3>4. ASSUME NEW n, n = Cardinality(machines.live) \/ n = Cardinality(machines.live) - 1
          PROVE  n >= my.replicas
      BY <2>1, <2>3, <3>4
    <3> QED BY <3>2, <3>3, <3>4, Zenon
  <2>6. (machines'.live = machines.live /\ machines'.deleting = {})
        \/ (machines'.live = machines.live /\ machines'.deleting = {v} \cap machines.live)
    <3> USE DEF apiVars, cacheVars, workVars, passVars, boundVars
    <3>1. CASE DeleteMachine
      BY <2>1, <2>2, <2>3, <3>1 DEF DeleteMachine, MachineList
    <3>2. CASE Pass /\ ~DeleteMachine
      BY <3>2 DEF Pass, Reconcile, ReconcileExternalReference, LookupOrGenerate,
         ReconcileControlPlaneKubeconfig, ListMachines, EnsureOwnership, ClusterStatus, ControlPlaneIsHealthy,
         MatchMachines, CloneTemplate, GenerateCritConfig, GenerateMachine, CleanupInfra,
         CleanupConfig, ReconcileDelete, UpdateStatus, UpdateRemoteStatus, Patch
    <3>3. CASE Crash \/ Informers \/ User \/ ClusterProgress \/ UploadCritConfig
      BY <2>1, <2>3, <3>3 DEF Crash, Informers, SyncCCP, SyncMachines, SyncSecrets, ClusterProgress,
         UploadCritConfig, User, EditSpec, DeleteCCP, PauseCluster, RemoveWorker, MachineList
    <3>4. ASSUME NEW m \in MachineId, Machinery(m) \/ NodeBreaks(m) \/ DeleteMachineByHand(m)
          PROVE  machines'.live = machines.live /\ machines'.deleting = {}
      BY <2>1, <2>3, <3>4 DEF Machinery, NodeBreaks, DeleteMachineByHand, NodeJoins, NodeRecovers, SetNodeRef, RemoveNode,
         RemoveMachine, CollectGarbage, MachineList
    <3> QED BY <3>1, <3>2, <3>3, <3>4 DEF Next
  <2> QED BY <2>4, <2>5, <2>6
<1> QED
  BY SoundAlways, <1>1, PTL DEF Spec, ScaleDownKeepsReplicas
-----------------------------------------------------------------------------
(* What holds whatever the caches say *)

\* A pass never takes Initialized back in memory.
KeepsInitialized == old.status.initialized => my.status.initialized

\* Every action keeps it.
LEMMA KeepsInitializedStep ==
    ASSUME TypeOK, KeepsInitialized, [Next]_vars
    PROVE  KeepsInitialized'
<1> USE DEF apiVars, cacheVars, workVars, passVars, boundVars
<1>0. my \in CCP /\ my.status \in Status
  BY DEF TypeOK, PassTypes, CCP
<1>1. CASE UNCHANGED <<old, my>>
  BY <1>1 DEF KeepsInitialized
<1>2. CASE old' = my'
  BY <1>2 DEF KeepsInitialized
<1>3. CASE old' = old /\ \E b \in BOOLEAN : my' = [my EXCEPT !.finalizer = b]
  BY <1>0, <1>3 DEF KeepsInitialized, CCP
<1>4. CASE UpdateStatus
  BY <1>0, <1>4 DEF UpdateStatus, KeepsInitialized, CCP, Status
<1>5. CASE UpdateRemoteStatus
  <2>1. my'.status.initialized = my.status.initialized
        \/ my'.status.initialized = (my.status.initialized \/ critConfig)
    BY <1>0, <1>5 DEF UpdateRemoteStatus, RemoteStatus, CCP, Status
  <2>2. old' = old
    BY <1>5 DEF UpdateRemoteStatus
  <2> QED BY <2>1, <2>2 DEF KeepsInitialized
<1>6. CASE Pass
  BY <1>1, <1>2, <1>3, <1>4, <1>5, <1>6
  DEF Pass, Reconcile, ReconcileExternalReference, LookupOrGenerate,
     ReconcileControlPlaneKubeconfig, ListMachines, EnsureOwnership, ClusterStatus, ControlPlaneIsHealthy,
     MatchMachines, CloneTemplate, GenerateCritConfig, GenerateMachine, CleanupInfra,
     CleanupConfig, ReconcileDelete, DeleteMachine, Patch
<1>7. CASE Crash \/ Informers \/ User \/ ClusterProgress \/ UploadCritConfig
  BY <1>1, <1>2, <1>7 DEF Crash, Informers, SyncCCP, SyncMachines, SyncSecrets, ClusterProgress,
     UploadCritConfig, User, EditSpec, DeleteCCP, PauseCluster, RemoveWorker
<1>8. ASSUME NEW m \in MachineId, Machinery(m) \/ NodeBreaks(m) \/ DeleteMachineByHand(m) PROVE UNCHANGED <<old, my>>
  BY <1>8 DEF Machinery, NodeBreaks, DeleteMachineByHand, NodeJoins, NodeRecovers, SetNodeRef, RemoveNode,
     RemoveMachine, CollectGarbage
<1> QED BY <1>1, <1>6, <1>7, <1>8 DEF Next, vars

\* updateStatus and the merge patch: the stored Initialized is never taken back,
\* not even by a pass that read a stale object.
THEOREM InitializedTheorem == Spec => InitializedOnce
<1>1. Init => KeepsInitialized
  BY DEF Init, InitWith, KeepsInitialized
<1>2. TypeOK /\ KeepsInitialized /\ [Next]_vars =>
        [ccp.status.initialized => ccp'.status.initialized]_vars
  <2> SUFFICES ASSUME TypeOK, KeepsInitialized, Next, ccp.status.initialized
               PROVE  ccp'.status.initialized
    OBVIOUS
  <2> USE DEF apiVars, cacheVars, workVars, passVars, boundVars
  <2>0. /\ ccp \in CCP /\ ccp.status \in Status
        /\ old.status \in Status /\ my.status \in Status
    BY DEF TypeOK, ObjectTypes, PassTypes, CCP
  <2>1. CASE Patch
    <3>1. MergeStatus(ccp.status, old.status, my.status).initialized
      BY <2>0 DEF MergeStatus, Status, KeepsInitialized
    <3>2. ccp'.status = ccp.status \/ ccp'.status = MergeStatus(ccp.status, old.status, my.status)
      BY <2>0, <2>1 DEF Patch, CCP
    <3> QED BY <3>1, <3>2
  <2>2. CASE ~Patch
    <3>1. ccp'.status = ccp.status
      <4>1. CASE Pass
        BY <2>2, <4>1 DEF Pass, Reconcile, ReconcileExternalReference, LookupOrGenerate,
           ReconcileControlPlaneKubeconfig, ListMachines, EnsureOwnership, ClusterStatus, ControlPlaneIsHealthy,
           MatchMachines, CloneTemplate, GenerateCritConfig, GenerateMachine, CleanupInfra,
           CleanupConfig, ReconcileDelete, DeleteMachine, UpdateStatus, UpdateRemoteStatus
      <4>2. CASE Crash \/ Informers \/ ClusterProgress \/ UploadCritConfig
        BY <4>2 DEF Crash, Informers, SyncCCP, SyncMachines, SyncSecrets, ClusterProgress,
           UploadCritConfig
      <4>3. CASE User
        BY <2>0, <4>3 DEF User, EditSpec, DeleteCCP, PauseCluster, RemoveWorker, CCP
      <4>4. ASSUME NEW m \in MachineId, Machinery(m) \/ NodeBreaks(m) \/ DeleteMachineByHand(m) PROVE ccp' = ccp
        BY <4>4 DEF Machinery, NodeBreaks, DeleteMachineByHand, NodeJoins, NodeRecovers, SetNodeRef, RemoveNode,
           RemoveMachine, CollectGarbage
      <4> QED BY <4>1, <4>2, <4>3, <4>4 DEF Next
    <3> QED BY <3>1
  <2> QED BY <2>1, <2>2
<1>3. TypeOK /\ KeepsInitialized /\ [Next]_vars => KeepsInitialized'
  BY KeepsInitializedStep
<1> QED
  BY TypeCorrect, <1>1, <1>2, <1>3, PTL DEF Spec, InitializedOnce

=============================================================================
