--------------------------- MODULE MCReconcileLoop ---------------------------
(* ReconcileLoop with pods, pods of ignored namespaces, ClusterSPIFFEIDs    *)
(* and nodes, which reconcile lists but no controller watches.              *)
EXTENDS ReconcileLoop

MCKinds == {"Pod", "IgnoredPod", "ClusterSPIFFEID", "Node"}
MCWatched == {"Pod", "IgnoredPod", "ClusterSPIFFEID"}
MCIgnored == {"IgnoredPod"}
=============================================================================
