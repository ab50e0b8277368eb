------------------------------ MODULE KvClient ------------------------------
(***************************************************************************)
(* The client in front of a replicated key-value store.                    *)
(*                                                                         *)
(* The replicas are node.cc seen from outside, and assumed better than     *)
(* Cluster shows them to be: the correct ones execute the requests they    *)
(* receive in one order of operations, while Agreement compares digests    *)
(* and has an exception.  They may leave a request, execute it more than   *)
(* once, or answer it again.  A reply that has been sent and not received  *)
(* is one that has still to be sent.  A faulty replica answers what it     *)
(* likes out of FaultyReplies, under its own replica_id.                   *)
(***************************************************************************)
EXTENDS Client, KeyValueStore

CONSTANTS
  Faulty,           \* the faulty replicas
  FaultyReplies,    \* the replies they may send
  FirstTimestamps,  \* values the uninitialised timestamp_ may have
  Views,            \* the views replicas may be in
  MaxAnswers,       \* bound: how many replies a correct replica sends
  MaxFaulty         \* bound: how many replies faulty replicas send

ASSUME KvClientAssumption ==
  /\ Faulty \subseteq Replicas /\ Cardinality(Faulty) <= f
  /\ \A m \in FaultyReplies : m.replica_id \in Faulty
  /\ FirstTimestamps \subseteq 0..(Word64 - 1)
  /\ Views \subseteq Nat
  /\ MaxAnswers \in Nat /\ MaxFaulty \in Nat

VARIABLES
  store,    \* the service's state
  order,    \* the requests executed, in order, with their results
  answers,  \* answers[r] is the number of replies received from replica r
  faults    \* number of replies received from faulty replicas

vars == <<clientVars, store, order, answers, faults>>

Init ==
  /\ \E first \in FirstTimestamps : InitClient(first)
  /\ wire = [r \in Replicas |-> <<>>]
  /\ store = EmptyStore
  /\ order = <<>>
  /\ answers = [r \in Replicas |-> 0]
  /\ faults = 0

\* A request reaches replica r and is executed by the correct replicas
\* (try_execute).
Execute(r) ==
  /\ r \notin Faulty
  /\ wire[r] # <<>>
  /\ LET m == Head(wire[r])
     IN  /\ store' = Stored(store, m.operation)
         /\ order' = Append(order, [req |-> m, result |-> Answered(store, m.operation)])
  /\ wire' = [wire EXCEPT ![r] = Tail(@)]
  /\ UNCHANGED <<mu, timestamp, current_view, inflight, future, pc, done, ts, msg,
                 retries, answers, faults>>

\* A request reaches replica r and is not executed: a view change is going on, the
\* window is full, or it has been executed (on_request).
Ignore(r) ==
  /\ wire[r] # <<>>
  /\ wire' = [wire EXCEPT ![r] = Tail(@)]
  /\ UNCHANGED <<mu, timestamp, current_view, inflight, future, pc, done, ts, msg,
                 retries, store, order, answers, faults>>

\* A reply of the correct replica r arrives, the first (try_execute) or a
\* repeated one (on_request).
ReplyArrives(r) ==
  /\ r \notin Faulty
  /\ answers[r] < MaxAnswers
  /\ answers' = [answers EXCEPT ![r] = @ + 1]
  /\ \E n \in 1..Len(order), v \in Views :
       Receive(ReplyMsg(v, order[n].req.timestamp, Id, r, order[n].result))
  /\ UNCHANGED <<wire, store, order, faults>>

\* A reply of a faulty replica arrives.
FaultyReplyArrives ==
  /\ faults < MaxFaulty
  /\ faults' = faults + 1
  /\ \E m \in FaultyReplies : Receive(m)
  /\ UNCHANGED <<wire, store, order, answers>>

Next ==
  \/ ClientStep /\ UNCHANGED <<store, order, answers, faults>>
  \/ \E r \in Replicas : Execute(r) \/ Ignore(r) \/ ReplyArrives(r)
  \/ FaultyReplyArrives

Spec == Init /\ [][Next]_vars

\* The value a future holds is the key-value store's answer to its own
\* operation, at a place in the one order of execution: neither a faulty
\* replica nor another thread's call supplies it (on_reply, invoke_async).
OwnAnswer ==
  \A c \in CallIds : future[c].state = "ready" =>
    \E n \in 1..Len(order) :
      /\ order[n].req.operation = Calls[c[1]][c[2]].operation
      /\ future[c].value = {order[n].result}

-----------------------------------------------------------------------------
(* The inductive invariant behind PromisesKept and OwnAnswer. *)

\* Call c has incremented timestamp_.
Stamped(c) ==
  \/ c[2] <= done[c[1]]
  \/ c[2] = done[c[1]] + 1 /\ pc[c[1]] \in {"emplace", "emplacing", "send", "wait"}

StampedCalls == {c \in CallIds : Stamped(c)}

\* The requests on their way, and the ones executed.
Sent == UNION {{wire[r][i] : i \in 1..Len(wire[r])} : r \in Replicas}

Executed == {order[n].req : n \in 1..Len(order)}

\* The timestamps that still mean a call to somebody.
Used == DOMAIN inflight \cup {m.timestamp : m \in Sent \cup Executed}

\* How many increments ago timestamp_ was x, as far as 64 bits tell.
Age(x) == IF x <= timestamp THEN timestamp - x ELSE timestamp - x + Word64

\* No timestamp in use is older than there are calls, so that timestamp_ has not
\* come round to it again; the calls between the increment and the emplace have
\* one that nobody uses.
StampInv ==
  /\ timestamp \in 0..(Word64 - 1) /\ ts \in [Threads -> 0..(Word64 - 1)]
  /\ \A x \in Used : x \in 0..(Word64 - 1) /\ Age(x) < Cardinality(StampedCalls)
  /\ \A t \in Threads :
       /\ pc[t] = "store" => ts[t] = (timestamp + 1) % Word64
       /\ pc[t] \in {"emplace", "emplacing", "send"} => ts[t] = timestamp
       /\ pc[t] \in {"emplace", "emplacing"} => timestamp \notin Used

\* The correct replicas have answered a request of timestamp x with result.
Given(x, result) ==
  \E n \in 1..Len(order) : order[n].req.timestamp = x /\ order[n].result = result

OperationOf(c) == Calls[c[1]][c[2]].operation

\* A sequence, of whatever.
IsSeq(s) == s \in Seq({s[i] : i \in 1..Len(s)})

\* A request whose timestamp is in flight asks for the operation of the call in
\* flight, and a result that no correct replica gave has no votes but the faulty
\* replicas'.
VoteInv ==
  /\ DOMAIN wire = Replicas /\ (\A r \in Replicas : IsSeq(wire[r])) /\ IsSeq(order)
  /\ \A m \in Sent \cup Executed :
       m.timestamp \in DOMAIN inflight =>
         m.operation = OperationOf(inflight[m.timestamp].call)
  /\ \A t \in Threads :
       pc[t] = "send" /\ ts[t] \in DOMAIN inflight => inflight[ts[t]].call = Current(t)
  /\ pc[Loop] # "idle" => msg.replica_id \in Faulty \/ Given(msg.timestamp, msg.result)
  /\ \A x \in DOMAIN inflight : \A r \in DOMAIN inflight[x].result_counts :
       \/ Given(x, r)
       \/ inflight[x].result_counts[r] <=
            Cardinality(inflight[x].seen_replicas \cap Faulty)

\* Between steps of calls of invoke_async: timestamps are told apart, and the
\* votes counted are votes for an answer (invoke_async, on_reply).
AnswerInv == ClientInv /\ StampInv /\ PromisesKept /\ VoteInv /\ OwnAnswer

=============================================================================
