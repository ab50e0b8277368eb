----------------------------- MODULE SystemInv ------------------------------
(***************************************************************************)
(* What the client of System counts, and what it believes, is what the     *)
(* nodes of the same system have executed.                                 *)
(***************************************************************************)
EXTENDS System, ClusterInv, ViewInv

\* The replicas of R that may vote for result as the answer to the request of
\* timestamp x, where the nodes are nd.
Backers(nd, x, result, R) == {i \in R : i \in Faulty \/ Done(nd[i], Id, x, result)}

\* The votes counted for a result are no more than the replicas that are faulty
\* or have executed the request in flight with that result: a reply that is kept
\* and sent again counts once, and one to an earlier request not at all
\* (on_reply, on_request, try_execute).
VotesAreExecutions ==
  \A x \in DOMAIN inflight : \A r \in DOMAIN inflight[x].result_counts :
    inflight[x].result_counts[r] <=
      Cardinality(Backers(node, x, r, inflight[x].seen_replicas))

\* A promise is set only to a result that f + 1 replicas, less the faulty ones,
\* have computed for the timestamp under which the call is in flight: at least one
\* correct replica has, whatever the faulty ones reply (on_reply).
AnswerIsExecuted ==
  [][\A c \in C!CallIds : future'[c] # future[c] /\ future'[c].state = "ready" =>
       \E x \in DOMAIN inflight, r \in future'[c].value :
         LET D == {i \in Correct : Done(node[i], Id, x, r)}
         IN  /\ inflight[x].call = c
             /\ Cardinality(D) >= f + 1 - Cardinality(Faulty) /\ D # {}]_systemVars

-----------------------------------------------------------------------------
(* The inductive invariant. *)

\* The threads are inside a call only while they have one.
ThreadsOK ==
  /\ timestamp \in Nat
  /\ ts \in [Threads -> Nat]
  /\ done \in [Threads -> Nat]
  /\ DOMAIN pc = Threads \cup {C!Loop}
  /\ \A t \in Threads : pc[t] # "idle" => done[t] < Len(Calls[t])

EntriesOK ==
  /\ DOMAIN future = C!CallIds
  /\ \A x \in DOMAIN inflight :
       /\ DOMAIN inflight[x] = {"call", "seen_replicas", "result_counts"}
       /\ inflight[x].seen_replicas \subseteq Replicas
       /\ \A r \in DOMAIN inflight[x].result_counts :
            inflight[x].result_counts[r] \in Nat

\* The cluster is in order although its replies are taken.
ClusterOK ==
  /\ IndInv
  /\ AllAnswered
  /\ \A i \in Faulty : node[i].replies[Id] = <<>>

\* The reply the event loop is working on is one its sender may send.
LoopOK ==
  pc[C!Loop] \in {"lock", "finding"} =>
    msg.replica_id \in Backers(node, msg.timestamp, msg.result, Replicas)

\* The nodes, the threads, what is in flight and the event loop go together
\* (send_to_client, invoke, invoke_async, on_reply).
SystemOK == ClusterOK /\ ThreadsOK /\ EntriesOK /\ VotesAreExecutions /\ LoopOK

=============================================================================
