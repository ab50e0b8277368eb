------------------------------ MODULE MCCluster -----------------------------
(***************************************************************************)
(* Values of the constants of Cluster for TLC.                             *)
(***************************************************************************)
EXTENDS ClusterLog, ViewInv

\* Two requests of client 4, and one of client 7: ids that are no replica's,
\* of four and of seven.
ReqA == RequestMsg("A", 1, 4)
ReqB == RequestMsg("B", 2, 4)
ReqOf7 == RequestMsg("A", 1, 7)

\* What the client first sends to replica 1, where a new Client's current_view_
\* of 1 points.  In ATwice its retry of A has also gone to replica 2.
To1(requests) == [i \in Replicas |-> IF i = 1 THEN requests ELSE <<>>]
Nothing == To1(<<>>)
ATo1 == To1(<<ReqA>>)
ABTo1 == To1(<<ReqA, ReqB>>)
Of7To1 == To1(<<ReqOf7>>)
ATwice == [To1(<<ReqA, ReqB>>) EXCEPT ![2] = <<ReqA>>]

JustA == {ReqA}
JustOf7 == {ReqOf7}

\* A primary that proposes to some replicas and is silent otherwise.
OneProposal == {<<0, PrePrepareMsg(0, 1, get_hash(ReqA), ReqA)>>}

\* A primary that proposes two requests under one number, and commits both.
TwoProposals ==
  {<<0, PrePrepareMsg(0, 1, get_hash(ReqA), ReqA)>>,
   <<0, PrePrepareMsg(0, 1, get_hash(ReqB), ReqB)>>,
   <<0, CommitMsg(0, 1, get_hash(ReqA), 0)>>,
   <<0, CommitMsg(0, 1, get_hash(ReqB), 0)>>}

\* The same primary may also vote for the checkpoint of the first request, or for
\* a state nobody was in (CORRUPT_CHECKPOINT of byzantine_node.hh).
FaultyPrimary ==
  TwoProposals \cup {<<0, CheckpointMsg(1, <<"A">>, 0)>>,
                     <<0, CheckpointMsg(1, <<"x">>, 0)>>}

-----------------------------------------------------------------------------
(* Behaviours in which requests and messages never wait while a timer runs:    *)
(* the first request or message in a fixed order is handled, and a timer       *)
(* expires or a client retries only when there is none.  They are behaviours   *)
(* of Spec, so what they violate Spec violates.                                *)

Waiting == {i \in up : unsent[i] # <<>>}
Busy == {i * N + j : <<i, j>> \in {x \in Replicas \X up : node[x[1]].out[x[2]] # <<>>}}
Timed == {i \in up : node[i].timer # Off}

PromptNext ==
  \/ \E i \in Replicas : Crash(i)
  \/ \E i, j \in Replicas : Lose(i, j)
  \/ Waiting # {} /\ Submit(Min(Waiting))
  \/ /\ Waiting = {} /\ Busy # {}
     /\ Deliver(Min(Busy) \div N, Min(Busy) % N)
  \/ /\ Waiting = {} /\ Busy = {}
     /\ \/ \E req \in Blocking : Retry(req)
        \/ Timed # {} /\ Timeout(Min(Timed))

PromptSpec == Init /\ [][PromptNext]_vars

=============================================================================
