----------------------- MODULE MCClusterCacheTracker -----------------------
(* The model-checking instance of ClusterCacheTracker.  Its run checks a    *)
(* liveness property, so no symmetry is declared.                           *)
EXTENDS ClusterCacheTracker
=============================================================================
