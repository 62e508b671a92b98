------------------------ MODULE MCClusterBootstrap ------------------------
EXTENDS ClusterBootstrap
=============================================================================
