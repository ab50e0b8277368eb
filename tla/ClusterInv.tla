----------------------------- MODULE ClusterInv -----------------------------
(***************************************************************************)
(* The inductive invariant of the cluster.                                 *)
(***************************************************************************)
EXTENDS Cluster, SafeInv

\* Between handlers every node is well formed, and every correct node is backed
\* by its peers as Safe says; a faulty replica's node is never used.
IndInv ==
  /\ TypeOK
  /\ \A i \in Replicas : Local(node[i])
  /\ \A i \in Correct : Safe(node[i], node, Correct)
  /\ \A i \in Faulty, j \in Replicas : node[i].out[j] = <<>>

=============================================================================
