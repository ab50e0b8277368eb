------------------------------ MODULE ViewInv -------------------------------
(***************************************************************************)
(* The inductive invariants behind PendingHasTimer, QuorumOverlooked,      *)
(* OneViewChange, RequestsAgree and ReplyIsExecution: every correct node   *)
(* is as NodeInv says.                                                     *)
(***************************************************************************)
EXTENDS Cluster, NodeInv

\* start_timer_if_not_running and manage_timer agree with timer_running_
\* whenever the constructor left it false (on_request, on_preprepare_impl,
\* try_execute).
AllArmed == \A i \in Correct : Armed(node[i])

\* on_checkpoint marks a checkpoint stable only as it moves the low watermark to
\* it, so the one vote that can go uncounted is the node's own (make_checkpoint).
AllCounted == \A i \in Correct : Counted(node[i])

\* No quorum ever asks for view 2: at most 2f replicas may (start_view_change,
\* on_viewchange, on_newview).
AllEarly == \A i \in Correct : Early(node[i])

\* What a correct node logs, executes or proposes under a digest is the request
\* with that digest or the null request, in every view (on_request,
\* on_preprepare_impl, on_viewchange).
AllMatched == \A i \in Correct : Matched(node[i])

\* last_replies_, from which a repeated request is answered, holds results of
\* executions too (try_execute, on_request).
AllAnswered == \A i \in Correct : Answered(node[i])

=============================================================================
