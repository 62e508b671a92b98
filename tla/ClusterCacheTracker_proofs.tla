--------------------- MODULE ClusterCacheTracker_proofs ---------------------
(***************************************************************************)
(* For any number of callers, watches and caches: a watch the tracker has  *)
(* recorded is alive, or its record is about to be deleted.                *)
(*                                                                         *)
(* The lock that Watch holds across calls is what makes this inductive: a  *)
(* caller that is about to register a watch has the cache of the cluster,  *)
(* or else some goroutine that has deleted the cache still waits for the   *)
(* lock to delete the watches.                                             *)
(***************************************************************************)
EXTENDS ClusterCacheTracker, TLAPS

\* A goroutine is between the two deletions of a cleanup.
Forgetting == \E k \in Cleaner : cpc[k] = "deleteWatches"

\* The write lock is held by the caller between its second check and its return.
LockHeld == \A p \in Caller : wpc[p] \in {"getCache", "watch"} <=> watchesLock = p

\* What a caller registers, and where: the cache it got is that of the cluster,
\* unless the watches are about to be deleted.
CallerSound ==
    \A p \in Caller :
        /\ wpc[p] # "idle" => winfo[p] \in Info
        /\ wpc[p] = "watch" => wcache[p] \in CacheId
        /\ wpc[p] = "watch" => wcache[p] = clusterCaches \/ Forgetting

\* Caches in use have been started, and those that were not are new; a goroutine
\* polls before it cleans up.
CachesKnown ==
    /\ clusterCaches \in started \cup {None}
    /\ \A k \in Cleaner : cpc[k] = "stop" => ccache[k] \in started
    /\ \A c \in CacheId : c \in polling => unhealthyCount[c] < Threshold /\ cpc[c] = "none"
    /\ \A c \in CacheId : c \notin started => unhealthyCount[c] = 0 /\ cpc[c] = "none"

IInv == TypeOK /\ LockHeld /\ CallerSound /\ CachesKnown /\ RecordedWatchesAlive

USE TrackerAssumption
USE DEF envVars, cacheVars, watchVars, healthVars, cleanVars

\* Nothing is recorded at the start.
LEMMA InitIInv == Init => IInv
<1> SUFFICES ASSUME Init PROVE IInv
  OBVIOUS
<1>1. TypeOK
  BY DEF Init, TypeOK
<1>2. LockHeld /\ CallerSound
  BY DEF Init, LockHeld, CallerSound
<1>3. CachesKnown /\ RecordedWatchesAlive
  BY DEF Init, CachesKnown, RecordedWatchesAlive, Cleaner
<1> QED
  BY <1>1, <1>2, <1>3 DEF IInv

-----------------------------------------------------------------------------
(* Watch *)

\* The first check only reads the record.
LEMMA KeepsWatchFirst ==
    ASSUME IInv, NEW p \in Caller, WatchFirst(p)
    PROVE  IInv'
<1> USE DEF IInv
<1>1. TypeOK'
  BY DEF WatchFirst, TypeOK
<1>2. LockHeld' /\ CallerSound'
  BY DEF WatchFirst, TypeOK, LockHeld, CallerSound, Forgetting
<1>3. CachesKnown' /\ RecordedWatchesAlive'
  BY DEF WatchFirst, CachesKnown, RecordedWatchesAlive
<1> QED
  BY <1>1, <1>2, <1>3

\* The second check is made with the lock.
LEMMA KeepsWatchLocked ==
    ASSUME IInv, NEW p \in Caller, WatchLocked(p)
    PROVE  IInv'
<1> USE DEF IInv
<1>1. TypeOK'
  BY DEF WatchLocked, WatchReturns, TypeOK
<1>2. LockHeld' /\ CallerSound'
  BY DEF WatchLocked, WatchReturns, TypeOK, LockHeld, CallerSound, Forgetting
<1>3. CachesKnown' /\ RecordedWatchesAlive'
  BY DEF WatchLocked, CachesKnown, RecordedWatchesAlive
<1> QED
  BY <1>1, <1>2, <1>3

\* The caller gets the cache of the cluster, or starts one.
LEMMA KeepsGetOrCreate ==
    ASSUME IInv, NEW p \in Caller, GetOrCreateClusterCache(p)
    PROVE  IInv'
<1> USE DEF IInv
<1>1. TypeOK'
  BY DEF GetOrCreateClusterCache, WatchReturns, TypeOK
<1>2. LockHeld'
  BY DEF GetOrCreateClusterCache, WatchReturns, TypeOK, LockHeld
<1>3. CallerSound'
  BY DEF GetOrCreateClusterCache, WatchReturns, TypeOK, LockHeld, CallerSound, Forgetting
<1>4. CachesKnown'
  BY DEF GetOrCreateClusterCache, WatchReturns, TypeOK, CachesKnown
<1>5. RecordedWatchesAlive'
  BY DEF GetOrCreateClusterCache, WatchReturns, TypeOK, CachesKnown, RecordedWatchesAlive
<1> QED
  BY <1>1, <1>2, <1>3, <1>4, <1>5

\* The watch is recorded with the cache the caller got, before the lock is released.
LEMMA KeepsRegisterWatch ==
    ASSUME IInv, NEW p \in Caller, RegisterWatch(p)
    PROVE  IInv'
<1> USE DEF IInv
<1>0. winfo[p] \in Info /\ wcache[p] \in CacheId
  BY DEF RegisterWatch, CallerSound
<1>1. TypeOK'
  <2>0. registered[wcache[p]] \in [Info -> Nat]
    BY <1>0 DEF TypeOK
  <2>1. registered' \in [CacheId -> [Info -> Nat]] /\ watches' \in SUBSET Info
    <3>1. [registered[wcache[p]] EXCEPT ![winfo[p]] = @ + 1] \in [Info -> Nat]
      BY <1>0, <2>0
    <3> QED
      <4>1. CASE UNCHANGED <<registered, watches>>
        BY <4>1 DEF TypeOK
      <4>2. CASE /\ registered' = [registered EXCEPT ![wcache[p]][winfo[p]] = @ + 1]
                 /\ watches' = watches \cup {winfo[p]}
        BY <1>0, <3>1, <4>2 DEF TypeOK
      <4> QED
        BY <4>1, <4>2 DEF RegisterWatch
  <2>2. /\ wpc' \in [Caller -> {"idle", "lock", "getCache", "watch"}]
        /\ winfo' \in [Caller -> Info \cup {None}] /\ wcache' \in [Caller -> CacheId \cup {None}]
        /\ watchesLock' \in Caller \cup {None}
    BY DEF RegisterWatch, WatchReturns, TypeOK
  <2> QED
    BY <2>1, <2>2 DEF RegisterWatch, TypeOK
<1>2. LockHeld' /\ CallerSound'
  BY DEF RegisterWatch, WatchReturns, TypeOK, LockHeld, CallerSound, Forgetting
<1>3. CachesKnown'
  BY DEF RegisterWatch, CachesKnown
<1>4. RecordedWatchesAlive'
  <2>1. UNCHANGED <<clusterCaches, stopped, cpc>>
    BY DEF RegisterWatch
  <2>2. CASE UNCHANGED <<registered, watches>>
    BY <2>1, <2>2 DEF RecordedWatchesAlive
  <2>3. CASE /\ registered' = [registered EXCEPT ![wcache[p]][winfo[p]] = @ + 1]
             /\ watches' = watches \cup {winfo[p]}
    <3>1. \A c \in CacheId, w \in Info : registered[c][w] > 0 => registered'[c][w] > 0
      BY <1>0, <2>3 DEF TypeOK
    <3>2. registered'[wcache[p]][winfo[p]] > 0
      BY <1>0, <2>3 DEF TypeOK
    <3>3. wcache[p] = clusterCaches \/ Forgetting
      BY DEF RegisterWatch, CallerSound
    <3>4. watches \subseteq Info /\ clusterCaches \in CacheId \cup {None}
      BY DEF TypeOK
    <3> QED
      BY <1>0, <2>1, <2>3, <3>1, <3>2, <3>3, <3>4 DEF Forgetting, RecordedWatchesAlive
  <2> QED
    BY <2>2, <2>3 DEF RegisterWatch
<1> QED
  BY <1>1, <1>2, <1>3, <1>4

-----------------------------------------------------------------------------
(* The health check and the reconciler *)

\* A health check counts failures, and cleans up at the threshold.
LEMMA KeepsRunHealthCheck ==
    ASSUME IInv, NEW c \in CacheId, RunHealthCheckWithThreshold(c)
    PROVE  IInv'
<1> USE DEF IInv
<1>0. unhealthyCount[c] + 1 \in 0..Threshold
  BY DEF RunHealthCheckWithThreshold, TypeOK, CachesKnown
<1>1. /\ polling' \subseteq polling
      /\ cpc' = cpc \/ (clusterCaches # None /\ cpc' = [cpc EXCEPT ![c] = "get"])
      /\ unhealthyCount' \in [CacheId -> 0..Threshold]
  BY <1>0 DEF RunHealthCheckWithThreshold, TypeOK
<1>2. /\ cpc' \in [Cleaner -> {"none", "get", "stop", "deleteCache", "deleteWatches"}]
      /\ \A k \in Cleaner : cpc'[k] = cpc[k] \/ (cpc[k] = "none" /\ k = c /\ cpc'[k] = "get")
  BY <1>1 DEF RunHealthCheckWithThreshold, TypeOK, CachesKnown
<1>3. TypeOK'
  BY <1>1, <1>2 DEF RunHealthCheckWithThreshold, TypeOK
<1>4. LockHeld' /\ CallerSound'
  BY <1>2 DEF RunHealthCheckWithThreshold, LockHeld, CallerSound, Forgetting
<1>5. CachesKnown'
  <2>1. UNCHANGED <<clusterCaches, started, ccache>>
    BY DEF RunHealthCheckWithThreshold
  <2>2. \A k \in Cleaner : cpc'[k] = "stop" => ccache'[k] \in started'
    BY <1>2, <2>1 DEF CachesKnown
  <2>3. /\ \A d \in CacheId : d # c => unhealthyCount'[d] = unhealthyCount[d] /\ cpc'[d] = cpc[d]
        /\ c \in polling' => unhealthyCount'[c] < Threshold /\ cpc'[c] = "none"
    BY <1>0 DEF RunHealthCheckWithThreshold, ThresholdReached, TypeOK, CachesKnown, Cleaner
  <2>4. c \in started
    BY DEF RunHealthCheckWithThreshold, TypeOK
  <2> QED
    BY <1>1, <2>1, <2>2, <2>3, <2>4 DEF CachesKnown
<1>6. RecordedWatchesAlive'
  BY <1>2 DEF RunHealthCheckWithThreshold, RecordedWatchesAlive
<1> QED
  BY <1>3, <1>4, <1>5, <1>6

\* The health check of a stopped cache cleans up.
LEMMA KeepsHealthCheckStopped ==
    ASSUME IInv, NEW c \in CacheId, HealthCheckStopped(c)
    PROVE  IInv'
<1> USE DEF IInv
<1>0. /\ cpc' \in [Cleaner -> {"none", "get", "stop", "deleteCache", "deleteWatches"}]
      /\ \A k \in Cleaner : cpc'[k] = cpc[k] \/ (cpc[k] = "none" /\ k = c /\ cpc'[k] = "get")
  BY DEF HealthCheckStopped, TypeOK, CachesKnown
<1>1. TypeOK'
  BY <1>0 DEF HealthCheckStopped, TypeOK
<1>2. LockHeld' /\ CallerSound'
  BY <1>0 DEF HealthCheckStopped, LockHeld, CallerSound, Forgetting
<1>3. CachesKnown'
  BY <1>0 DEF HealthCheckStopped, TypeOK, CachesKnown
<1>4. RecordedWatchesAlive'
  BY <1>0 DEF HealthCheckStopped, RecordedWatchesAlive
<1> QED
  BY <1>1, <1>2, <1>3, <1>4

\* It cleans up the cache the cluster has now.
LEMMA KeepsHealthCheckGet ==
    ASSUME IInv, NEW c \in CacheId, HealthCheckGet(c)
    PROVE  IInv'
<1> USE DEF IInv
<1>1. TypeOK'
  BY DEF HealthCheckGet, TypeOK
<1>2. LockHeld' /\ CallerSound'
  BY DEF HealthCheckGet, TypeOK, LockHeld, CallerSound, Forgetting
<1>3. CachesKnown' /\ RecordedWatchesAlive'
  BY DEF HealthCheckGet, TypeOK, CachesKnown, RecordedWatchesAlive
<1> QED
  BY <1>1, <1>2, <1>3

\* So does the reconciler when the cluster is gone.
LEMMA KeepsReconcile == ASSUME IInv, Reconcile PROVE IInv'
<1> USE DEF IInv
<1>0. Reconciler \in Cleaner /\ Reconciler \notin CacheId
  BY DEF Cleaner
<1>1. /\ cpc' \in [Cleaner -> {"none", "get", "stop", "deleteCache", "deleteWatches"}]
      /\ ccache' \in [Cleaner -> CacheId \cup {None}]
      /\ \A k \in Cleaner : cpc'[k] = cpc[k] \/ (cpc[k] = "none" /\ cpc'[k] = "stop")
      /\ \A k \in Cleaner \ {Reconciler} : cpc'[k] = cpc[k] /\ ccache'[k] = ccache[k]
      /\ cpc'[Reconciler] = "stop" => ccache'[Reconciler] \in started
  <2>1. CASE UNCHANGED cleanVars
    BY <1>0, <2>1 DEF Reconcile, TypeOK
  <2>2. CASE /\ clusterCaches # None
             /\ ccache' = [ccache EXCEPT ![Reconciler] = clusterCaches]
             /\ cpc' = [cpc EXCEPT ![Reconciler] = "stop"]
    BY <1>0, <2>2 DEF Reconcile, TypeOK, CachesKnown
  <2> QED
    BY <2>1, <2>2 DEF Reconcile
<1>2. TypeOK'
  <2>1. queued' \in BOOLEAN
    BY DEF Reconcile
  <2> QED
    BY <1>1, <2>1 DEF Reconcile, TypeOK
<1>3. LockHeld' /\ CallerSound'
  BY <1>1 DEF Reconcile, LockHeld, CallerSound, Forgetting
<1>4. CachesKnown'
  BY <1>0, <1>1 DEF Reconcile, CachesKnown, Cleaner
<1>5. RecordedWatchesAlive'
  BY <1>1 DEF Reconcile, RecordedWatchesAlive
<1> QED
  BY <1>2, <1>3, <1>4, <1>5

-----------------------------------------------------------------------------
(* The cleanup *)

\* A stopped cache is deleted next.
LEMMA KeepsStopCache ==
    ASSUME IInv, NEW k \in Cleaner, StopCache(k)
    PROVE  IInv'
<1> USE DEF IInv
<1>1. TypeOK'
  BY DEF StopCache, TypeOK, CachesKnown
<1>2. LockHeld' /\ CallerSound'
  BY DEF StopCache, TypeOK, LockHeld, CallerSound, Forgetting
<1>3. CachesKnown' /\ RecordedWatchesAlive'
  BY DEF StopCache, TypeOK, CachesKnown, RecordedWatchesAlive
<1> QED
  BY <1>1, <1>2, <1>3

\* The goroutine that deleted the cache deletes the watches next.
LEMMA KeepsDeleteClusterCache ==
    ASSUME IInv, NEW k \in Cleaner, DeleteClusterCache(k)
    PROVE  IInv'
<1> USE DEF IInv
<1>1. TypeOK'
  BY DEF DeleteClusterCache, TypeOK
<1>2. LockHeld' /\ CallerSound'
  BY DEF DeleteClusterCache, TypeOK, LockHeld, CallerSound, Forgetting
<1>3. CachesKnown' /\ RecordedWatchesAlive'
  BY DEF DeleteClusterCache, TypeOK, CachesKnown, RecordedWatchesAlive
<1> QED
  BY <1>1, <1>2, <1>3

\* No caller is about to register a watch, for none holds the lock.
LEMMA KeepsDeleteWatches ==
    ASSUME IInv, NEW k \in Cleaner, DeleteWatchesForCluster(k)
    PROVE  IInv'
<1> USE DEF IInv
<1>1. TypeOK'
  BY DEF DeleteWatchesForCluster, TypeOK
<1>2. LockHeld' /\ CallerSound'
  BY DEF DeleteWatchesForCluster, TypeOK, LockHeld, CallerSound, Forgetting
<1>3. CachesKnown' /\ RecordedWatchesAlive'
  BY DEF DeleteWatchesForCluster, TypeOK, CachesKnown, RecordedWatchesAlive
<1> QED
  BY <1>1, <1>2, <1>3

-----------------------------------------------------------------------------

\* What happens to the clusters concerns none of this.
LEMMA KeepsOthers ==
    ASSUME IInv, ChangeCluster \/ RemoveKubeconfig \/ ChangeApi \/ UNCHANGED vars
    PROVE  IInv'
<1> USE DEF IInv
<1>1. TypeOK'
  <2>1. cluster' \in BOOLEAN /\ kubeconfig' \in BOOLEAN /\ apiUp' \in BOOLEAN /\ queued' \in BOOLEAN
    BY Zenon DEF ChangeCluster, RemoveKubeconfig, ChangeApi, vars, TypeOK
  <2>2. changes' \in 0..MaxChanges
    BY DEF ChangeCluster, RemoveKubeconfig, ChangeApi, vars, TypeOK
  <2> QED
    BY <2>1, <2>2 DEF ChangeCluster, RemoveKubeconfig, ChangeApi, vars, TypeOK
<1>2. LockHeld' /\ CallerSound'
  BY DEF ChangeCluster, RemoveKubeconfig, ChangeApi, vars, LockHeld, CallerSound, Forgetting
<1>3. CachesKnown' /\ RecordedWatchesAlive'
  BY DEF ChangeCluster, RemoveKubeconfig, ChangeApi, vars, CachesKnown, RecordedWatchesAlive
<1> QED
  BY <1>1, <1>2, <1>3

\* Every step keeps the invariant.
LEMMA Inductive == IInv /\ [Next]_vars => IInv'
<1> SUFFICES ASSUME IInv, [Next]_vars PROVE IInv'
  OBVIOUS
<1>1. ASSUME NEW p \in Caller, Watch(p) PROVE IInv'
  BY <1>1, KeepsWatchFirst, KeepsWatchLocked, KeepsGetOrCreate, KeepsRegisterWatch DEF Watch
<1>2. ASSUME NEW c \in CacheId, HealthCheckCluster(c) PROVE IInv'
  BY <1>2, KeepsRunHealthCheck, KeepsHealthCheckStopped, KeepsHealthCheckGet
  DEF HealthCheckCluster
<1>3. ASSUME NEW k \in Cleaner, StopAndForget(k) PROVE IInv'
  BY <1>3, KeepsStopCache, KeepsDeleteClusterCache, KeepsDeleteWatches DEF StopAndForget
<1>4. CASE Reconcile
  BY <1>4, KeepsReconcile
<1>5. CASE ChangeCluster \/ RemoveKubeconfig \/ ChangeApi \/ UNCHANGED vars
  BY <1>5, KeepsOthers
<1> QED
  BY <1>1, <1>2, <1>3, <1>4, <1>5 DEF Next

\* Every variable keeps its type: only caches that were started are stopped, and no
\* health check counts past the threshold.
THEOREM TypeCorrect == Spec => []TypeOK
<1>1. IInv => TypeOK
  BY DEF IInv
<1> QED
  BY <1>1, InitIInv, Inductive, PTL DEF Spec

\* ClusterCacheTracker.Watch may rely on its record: however the health checks and the
\* reconciler collide in their cleanups, a recorded watch is registered with the running
\* cache of the cluster, or the record or the cache is about to be deleted.
THEOREM WatchesTheorem == Spec => []RecordedWatchesAlive
<1>1. IInv => RecordedWatchesAlive
  BY DEF IInv
<1> QED
  BY <1>1, InitIInv, Inductive, PTL DEF Spec

=============================================================================
