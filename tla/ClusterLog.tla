----------------------------- MODULE ClusterLog -----------------------------
(***************************************************************************)
(* The cluster keeps one replicated log: what its correct nodes execute,   *)
(* with their low watermarks, is a behaviour of ReplicatedLog.             *)
(***************************************************************************)
EXTENDS ClusterInv

\* The digests a node has executed, in order.
Executed(s) == [n \in 1..Len(s.executed) |-> s.executed[n].digest]

Log == INSTANCE ReplicatedLog WITH
         Servers  <- Correct,
         Interval <- K,
         log      <- [i \in Correct |-> Executed(node[i])],
         low      <- [i \in Correct |-> node[i].h]

\* Every step of the cluster appends to the history of one correct node,
\* consistently with the others, or moves the watermark of one correct node up
\* to a checkpoint that a correct node has executed, or does neither: no handler
\* rewrites what was executed, runs ahead of its peers' checkpoints, or does
\* both at once (try_execute, on_checkpoint, garbage_collect).
KeepsOneLog == Log!Spec

=============================================================================
