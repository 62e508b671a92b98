------------------------ MODULE ClusterCacheTracker ------------------------
(***************************************************************************)
(* internal/remote/cluster_cache.go: the tracker of the caches of workload *)
(* clusters, for one cluster.  Three kinds of goroutines share it:         *)
(*  - callers of Watch, each a reconcile pass of some controller;          *)
(*  - healthCheckCluster, one for every cache ever started;                *)
(*  - the pass of ClusterCacheReconciler for the cluster.                  *)
(*                                                                         *)
(* clusterCachesLock is held for the body of the functions that take it    *)
(* and by nobody while waiting for another lock, so each of those bodies   *)
(* is one step.  watchesLock is held by Watch across calls and is a        *)
(* variable.  The tracker keeps at most one entry for the cluster:         *)
(* clusterCaches and watches are the entries of the two maps for its key.  *)
(***************************************************************************)
EXTENDS Integers, FiniteSets

CONSTANTS
    Caller,         \* concurrent callers of Watch
    Info,           \* watchInfo: watcher, kind and event handler
    CacheId,        \* caches that may be started (bounds creation)
    Threshold,      \* unhealthyThreshold
    MaxChanges,     \* bound on changes of the cluster and of its API server
    Reconciler,     \* the goroutine of ClusterCacheReconciler
    None            \* no cache, no caller, no watch

ASSUME TrackerAssumption ==
    /\ Threshold \in Nat \ {0} /\ MaxChanges \in Nat
    /\ Reconciler \notin CacheId \cup {None}
    /\ None \notin CacheId /\ None \notin Caller /\ None \notin Info

VARIABLES
    \* the management and the workload cluster
    cluster,        \* the Cluster object exists
    kubeconfig,     \* its kubeconfig secret exists
    apiUp,          \* the API server of the workload cluster answers
    \* the tracker
    clusterCaches,  \* the cache of the cluster, or None
    watches,        \* watches recorded for the cluster
    watchesLock,    \* who holds the write lock
    \* the caches themselves
    started,        \* caches created so far
    stopped,        \* caches whose stop channel is closed
    registered,     \* how often Watcher.Watch was called for a cache and a watch
    \* the goroutines
    wpc, winfo, wcache,             \* Watch, by caller
    polling, unhealthyCount,        \* healthCheckCluster, by cache
    cpc, ccache,                    \* the cleanup at the end of both, by goroutine
    queued,                         \* the cluster is in the reconciler's work queue
    changes                         \* bound

envVars == <<cluster, kubeconfig, apiUp>>
cacheVars == <<started, stopped, registered>>
watchVars == <<wpc, winfo, wcache>>
healthVars == <<polling, unhealthyCount>>
cleanVars == <<cpc, ccache>>
vars == <<envVars, clusterCaches, watches, watchesLock, cacheVars,
          watchVars, healthVars, cleanVars, queued, changes>>

\* The goroutines that stop a cache and delete the two entries of its cluster.
Cleaner == CacheId \cup {Reconciler}

TypeOK ==
    /\ cluster \in BOOLEAN /\ kubeconfig \in BOOLEAN /\ apiUp \in BOOLEAN
    /\ clusterCaches \in CacheId \cup {None}
    /\ watches \in SUBSET Info /\ watchesLock \in Caller \cup {None}
    /\ started \in SUBSET CacheId /\ stopped \in SUBSET started
    /\ registered \in [CacheId -> [Info -> Nat]]
    /\ wpc \in [Caller -> {"idle", "lock", "getCache", "watch"}]
    /\ winfo \in [Caller -> Info \cup {None}] /\ wcache \in [Caller -> CacheId \cup {None}]
    /\ polling \in SUBSET started /\ unhealthyCount \in [CacheId -> 0..Threshold]
    /\ cpc \in [Cleaner -> {"none", "get", "stop", "deleteCache", "deleteWatches"}]
    /\ ccache \in [Cleaner -> CacheId \cup {None}] /\ queued \in BOOLEAN
    /\ changes \in 0..MaxChanges

Init ==
    /\ cluster = TRUE /\ kubeconfig = TRUE /\ apiUp = TRUE
    /\ clusterCaches = None /\ watches = {} /\ watchesLock = None
    /\ started = {} /\ stopped = {}
    /\ registered = [c \in CacheId |-> [w \in Info |-> 0]]
    /\ wpc = [p \in Caller |-> "idle"] /\ winfo = [p \in Caller |-> None]
    /\ wcache = [p \in Caller |-> None]
    /\ polling = {} /\ unhealthyCount = [c \in CacheId |-> 0]
    /\ cpc = [k \in Cleaner |-> "none"] /\ ccache = [k \in Cleaner |-> None]
    /\ queued = TRUE
    /\ changes = MaxChanges

-----------------------------------------------------------------------------
(* Watch *)

\* Watch returns and, if it holds the lock, releases it.
WatchReturns(p) ==
    /\ wpc' = [wpc EXCEPT ![p] = "idle"]
    /\ winfo' = [winfo EXCEPT ![p] = None]
    /\ wcache' = [wcache EXCEPT ![p] = None]

\* The first check, under the read lock.  A watch that exists is a no-op.
WatchFirst(p) ==
    /\ wpc[p] = "idle" /\ watchesLock = None
    /\ \E w \in Info \ watches :
          /\ winfo' = [winfo EXCEPT ![p] = w]
          /\ wpc' = [wpc EXCEPT ![p] = "lock"]
    /\ UNCHANGED <<envVars, clusterCaches, watches, watchesLock, cacheVars, wcache,
                   healthVars, cleanVars, queued, changes>>

\* The second check, under the write lock.
WatchLocked(p) ==
    /\ wpc[p] = "lock" /\ watchesLock = None
    /\ \/ winfo[p] \in watches /\ WatchReturns(p) /\ UNCHANGED watchesLock
       \/ /\ winfo[p] \notin watches
          /\ watchesLock' = p
          /\ wpc' = [wpc EXCEPT ![p] = "getCache"]
          /\ UNCHANGED <<winfo, wcache>>
    /\ UNCHANGED <<envVars, clusterCaches, watches, cacheVars, healthVars, cleanVars, queued, changes>>

\* getOrCreateClusterCache.  A new cache needs the kubeconfig secret and an API
\* server that answers, and may fail even so; with it starts a health check.
GetOrCreateClusterCache(p) ==
    /\ wpc[p] = "getCache"
    /\ \/ /\ clusterCaches # None
          /\ wcache' = [wcache EXCEPT ![p] = clusterCaches]
          /\ wpc' = [wpc EXCEPT ![p] = "watch"]
          /\ UNCHANGED <<clusterCaches, started, polling, watchesLock, winfo>>
       \/ /\ clusterCaches = None /\ kubeconfig /\ apiUp
          /\ \E c \in CacheId \ started :
                /\ clusterCaches' = c
                /\ started' = started \cup {c}
                /\ polling' = polling \cup {c}
                /\ wcache' = [wcache EXCEPT ![p] = c]
          /\ wpc' = [wpc EXCEPT ![p] = "watch"]
          /\ UNCHANGED <<watchesLock, winfo>>
       \/ /\ clusterCaches = None
          /\ WatchReturns(p) /\ watchesLock' = None
          /\ UNCHANGED <<clusterCaches, started, polling>>
    /\ UNCHANGED <<envVars, watches, stopped, registered, unhealthyCount, cleanVars, queued, changes>>

\* Watcher.Watch, whose error leaves the watch unrecorded.
RegisterWatch(p) ==
    /\ wpc[p] = "watch"
    /\ \/ /\ registered' = [registered EXCEPT ![wcache[p]][winfo[p]] = @ + 1]
          /\ watches' = watches \cup {winfo[p]}
       \/ UNCHANGED <<registered, watches>>
    /\ WatchReturns(p) /\ watchesLock' = None
    /\ UNCHANGED <<envVars, clusterCaches, started, stopped, healthVars, cleanVars, queued, changes>>

-----------------------------------------------------------------------------
(* healthCheckCluster, of the cache c *)

\* Mutant: one failure too many is tolerated.
MutThresholdReached(n) == n > Threshold

\* The error of the last health check is returned.
ThresholdReached(n) == n >= Threshold

\* runHealthCheckWithThreshold: without a cache for the cluster the check is
\* over; otherwise consecutive failures are counted, up to the threshold.
RunHealthCheckWithThreshold(c) ==
    /\ c \in polling
    /\ \/ /\ clusterCaches = None
          /\ polling' = polling \ {c}
          /\ UNCHANGED <<unhealthyCount, cpc>>
       \/ /\ clusterCaches # None /\ apiUp
          /\ unhealthyCount' = [unhealthyCount EXCEPT ![c] = 0]
          /\ UNCHANGED <<polling, cpc>>
       \/ /\ clusterCaches # None /\ ~apiUp
          /\ LET n == unhealthyCount[c] + 1
             IN  /\ unhealthyCount' = [unhealthyCount EXCEPT ![c] = n]
                 /\ \/ ~ThresholdReached(n) /\ UNCHANGED <<polling, cpc>>
                    \/ /\ ThresholdReached(n)
                       /\ polling' = polling \ {c}
                       /\ cpc' = [cpc EXCEPT ![c] = "get"]
    /\ UNCHANGED <<envVars, clusterCaches, watches, watchesLock, cacheVars, watchVars,
                   ccache, queued, changes>>

\* wait.PollImmediateUntil also returns an error, ErrWaitTimeout, when the stop
\* channel closes.
HealthCheckStopped(c) ==
    /\ c \in polling /\ c \in stopped
    /\ polling' = polling \ {c}
    /\ cpc' = [cpc EXCEPT ![c] = "get"]
    /\ UNCHANGED <<envVars, clusterCaches, watches, watchesLock, cacheVars, watchVars,
                   unhealthyCount, ccache, queued, changes>>

\* Mutant: the goroutine ends without cleaning up.
MutHealthCheckGet(c) ==
    /\ cpc[c] = "get"
    /\ cpc' = [cpc EXCEPT ![c] = "none"]
    /\ UNCHANGED <<envVars, clusterCaches, watches, watchesLock, cacheVars, watchVars,
                   healthVars, ccache, queued, changes>>

\* The cache to clean up is looked up again, by the key of the cluster.
HealthCheckGet(c) ==
    /\ cpc[c] = "get"
    /\ ccache' = [ccache EXCEPT ![c] = clusterCaches]
    /\ cpc' = [cpc EXCEPT ![c] = IF clusterCaches = None THEN "none" ELSE "stop"]
    /\ UNCHANGED <<envVars, clusterCaches, watches, watchesLock, cacheVars, watchVars,
                   healthVars, queued, changes>>

-----------------------------------------------------------------------------
(* ClusterCacheReconciler.Reconcile: a cluster that exists needs nothing, the *)
(* cache of one that is gone is looked up and cleaned up.                     *)

Reconcile ==
    /\ cpc[Reconciler] = "none" /\ queued
    /\ queued' = FALSE
    /\ \/ (cluster \/ clusterCaches = None) /\ UNCHANGED cleanVars
       \/ /\ ~cluster /\ clusterCaches # None
          /\ ccache' = [ccache EXCEPT ![Reconciler] = clusterCaches]
          /\ cpc' = [cpc EXCEPT ![Reconciler] = "stop"]
    /\ UNCHANGED <<envVars, clusterCaches, watches, watchesLock, cacheVars, watchVars,
                   healthVars, changes>>

-----------------------------------------------------------------------------
(* The cleanup of both: Stop, deleteClusterCache, deleteWatchesForCluster *)

\* clusterCache.Stop, of the cache looked up before; a second Stop does nothing.
StopCache(k) ==
    /\ cpc[k] = "stop"
    /\ stopped' = stopped \cup {ccache[k]}
    /\ cpc' = [cpc EXCEPT ![k] = "deleteCache"]
    /\ UNCHANGED <<envVars, clusterCaches, watches, watchesLock, started, registered, watchVars,
                   healthVars, ccache, queued, changes>>

\* Mutant: the watches are forgotten and the cache is kept.
MutDeleteClusterCache(k) ==
    /\ cpc[k] = "deleteCache" /\ watchesLock = None
    /\ watches' = {}
    /\ cpc' = [cpc EXCEPT ![k] = "deleteWatches"]
    /\ UNCHANGED <<envVars, clusterCaches, watchesLock, cacheVars, watchVars,
                   healthVars, ccache, queued, changes>>

\* deleteClusterCache deletes whatever cache the entry holds by now.
DeleteClusterCache(k) ==
    /\ cpc[k] = "deleteCache"
    /\ clusterCaches' = None
    /\ cpc' = [cpc EXCEPT ![k] = "deleteWatches"]
    /\ UNCHANGED <<envVars, watches, watchesLock, cacheVars, watchVars,
                   healthVars, ccache, queued, changes>>

\* deleteWatchesForCluster waits for the lock.
DeleteWatchesForCluster(k) ==
    /\ cpc[k] = "deleteWatches" /\ watchesLock = None
    /\ watches' = {}
    /\ cpc' = [cpc EXCEPT ![k] = "none"] /\ ccache' = [ccache EXCEPT ![k] = None]
    /\ UNCHANGED <<envVars, clusterCaches, watchesLock, cacheVars, watchVars,
                   healthVars, queued, changes>>

-----------------------------------------------------------------------------
(* The clusters *)

\* A Cluster is deleted, and may be created again under the same name.
ChangeCluster ==
    /\ changes > 0 /\ changes' = changes - 1
    /\ cluster' = ~cluster /\ queued' = TRUE
    /\ kubeconfig' = (kubeconfig \/ cluster')
    /\ UNCHANGED <<apiUp, clusterCaches, watches, watchesLock, cacheVars, watchVars,
                   healthVars, cleanVars>>

\* The garbage collector removes the secret of a deleted cluster.
RemoveKubeconfig ==
    /\ ~cluster /\ kubeconfig
    /\ kubeconfig' = FALSE
    /\ UNCHANGED <<cluster, apiUp, clusterCaches, watches, watchesLock, cacheVars, watchVars,
                   healthVars, cleanVars, queued, changes>>

ChangeApi ==
    /\ changes > 0 /\ changes' = changes - 1
    /\ apiUp' = ~apiUp
    /\ UNCHANGED <<cluster, kubeconfig, clusterCaches, watches, watchesLock, cacheVars, watchVars,
                   healthVars, cleanVars, queued>>

-----------------------------------------------------------------------------

Watch(p) ==
    \/ WatchFirst(p) \/ WatchLocked(p) \/ GetOrCreateClusterCache(p) \/ RegisterWatch(p)

StopAndForget(k) == StopCache(k) \/ DeleteClusterCache(k) \/ DeleteWatchesForCluster(k)

HealthCheckCluster(c) ==
    RunHealthCheckWithThreshold(c) \/ HealthCheckStopped(c) \/ HealthCheckGet(c)

Next ==
    \/ \E p \in Caller : Watch(p)
    \/ \E c \in CacheId : HealthCheckCluster(c)
    \/ Reconcile
    \/ \E k \in Cleaner : StopAndForget(k)
    \/ ChangeCluster \/ RemoveKubeconfig \/ ChangeApi

Spec == Init /\ [][Next]_vars

\* Goroutines run on: a call of Watch that was made returns, health checks are
\* made as long as they are due, a queued pass runs.  Nobody has to call Watch,
\* and the clusters need not change.
FairSpec ==
    /\ Spec
    /\ \A p \in Caller : WF_vars(wpc[p] # "idle" /\ Watch(p))
    /\ \A c \in CacheId : WF_vars(HealthCheckCluster(c))
    /\ WF_vars(Reconcile)
    /\ \A k \in Cleaner : WF_vars(StopAndForget(k))

-----------------------------------------------------------------------------
(* Properties *)

\* A recorded watch makes every later call of Watch a no-op, so it had better be
\* alive: it is registered with the cache of the cluster, and that cache runs,
\* unless a goroutine is about to delete the entry that is out of date.
RecordedWatchesAlive ==
    /\ \A w \in watches :
          \/ clusterCaches # None /\ registered[clusterCaches][w] > 0
          \/ \E k \in Cleaner : cpc[k] = "deleteWatches"
    /\ clusterCaches \in stopped => \E k \in Cleaner : cpc[k] = "deleteCache"

\* healthCheckCluster: a cluster that stops answering for good is forgotten.
UnhealthyForgotten == <>[]~apiUp => <>[](clusterCaches = None /\ watches = {})

=============================================================================
