------------------------------- MODULE System -------------------------------
(***************************************************************************)
(* A client and the cluster it talks to: the client's requests are what    *)
(* the nodes receive, and the nodes' replies what the client receives.     *)
(* Submissions and Blocking are what other clients send.                   *)
(***************************************************************************)
EXTENDS Cluster

CONSTANTS
  Id,               \* the client's id
  Threads,          \* the client's threads
  Calls,            \* Calls[t] is what thread t calls, in order
  FaultyReplies,    \* the replies faulty replicas may send to the client
  FirstTimestamps,  \* values the uninitialised timestamp_ may have
  Word64,           \* number of values of a uint64_t
  MaxResends        \* bound: how many times invoke sends a request again

VARIABLES mu, timestamp, current_view, inflight, future, pc, done, ts, msg, resends

localVars ==
  <<mu, timestamp, current_view, inflight, future, pc, done, ts, msg, resends>>

C == INSTANCE Client WITH MaxRetries <- MaxResends, retries <- resends,
                          wire <- unsent

ASSUME SystemAssumption ==
  /\ C!ClientAssumption
  /\ Id \in Clients
  /\ \A m \in FaultyReplies : m \in Reply /\ m.replica_id \in Faulty
  /\ FirstTimestamps \subseteq 0..(Word64 - 1)

systemVars == <<vars, localVars>>

SystemInit == Init /\ \E first \in FirstTimestamps : C!InitClient(first)

ThreadStep(t) ==
  C!ThreadStep(t) /\ UNCHANGED <<node, up, retries, timeouts, faults>>

Resend(t) ==
  C!Retry(t) /\ UNCHANGED <<node, up, retries, timeouts, faults>>

\* The event loop takes the next reply on the connection from replica r.
ReplyArrives(r) ==
  /\ node[r].replies[Id] # <<>>
  /\ C!Receive(Head(node[r].replies[Id]))
  /\ node' = [node EXCEPT ![r].replies[Id] = Tail(@)]
  /\ UNCHANGED <<up, unsent, retries, timeouts, faults>>

\* The event loop takes a reply of a faulty replica.
FaultyReplyArrives ==
  /\ faults < MaxFaulty
  /\ faults' = faults + 1
  /\ \E m \in FaultyReplies : C!Receive(m)
  /\ UNCHANGED <<node, up, unsent, retries, timeouts>>

LoopStep ==
  \/ \E r \in Replicas : ReplyArrives(r)
  \/ FaultyReplyArrives
  \/ (C!Lock \/ C!FinishReply) /\ UNCHANGED vars

\* A node runs a handler, stops, or another client sends a request again.
NodeStep == Next /\ UNCHANGED localVars

SystemNext ==
  \/ \E t \in Threads : ThreadStep(t) \/ Resend(t)
  \/ LoopStep
  \/ NodeStep

\* The program does not stall: while a thread or an event loop can take a step,
\* or wait_for can time out, some step is taken.  Every behaviour is finite, so
\* this is no more than that each of them gets its turn.
Fairness == WF_systemVars(SystemNext)

SystemSpec == SystemInit /\ [][SystemNext]_systemVars /\ Fairness

\* Every call of invoke returns, although the replica it first sends to may be
\* silent, as long as no view-change timer expires: the request is sent again to
\* all, gets to the primary, and f + 1 equal replies come back (invoke, on_request,
\* try_execute, on_reply).
InvokeReturns == \A t \in Threads : <>(done[t] = Len(Calls[t]))

=============================================================================
