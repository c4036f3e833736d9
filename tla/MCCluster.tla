------------------------------ MODULE MCCluster ------------------------------
EXTENDS Cluster
=============================================================================
