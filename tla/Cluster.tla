------------------------------ MODULE Cluster -------------------------------
(***************************************************************************)
(* N nodes and the connections between them.                               *)
(*                                                                         *)
(* A step is one handler run by one node: of a client's request, of the    *)
(* message at the head of the connection from a peer, of the expiry of the *)
(* view-change timer.  A connection delivers in order, once, and nothing   *)
(* reconnects or resends; a node that stops terminates its connections, so *)
(* what it had sent may still arrive or be lost.                           *)
(*                                                                         *)
(* The replicas of Faulty run no handler: they send what they like out of  *)
(* FaultyMessages, under their own replica_id.                             *)
(***************************************************************************)
EXTENDS Replica

CONSTANTS
  Faulty,         \* the faulty replicas
  FaultyMessages, \* the <<replica, message>> pairs faulty replicas may send
  Submissions,    \* Submissions[i] is what the clients first send to replica i
  Blocking,       \* the requests made with Client::invoke, which retries
  CanCrash,       \* the replicas that may stop
  TimerInit,      \* values the uninitialised timer_running_ may start with
  MaxRetries,     \* bound: how many times requests are sent again
  MaxTimeouts,    \* bound: how many timers expire
  MaxFaulty       \* bound: how many messages faulty replicas send

ASSUME ClusterAssumption ==
  /\ Faulty \subseteq Replicas
  /\ \A x \in FaultyMessages : /\ x[1] \in Faulty
                               /\ x[2] \in Message
                               /\ x[2].type \in {"prepare", "commit", "checkpoint",
                                                 "viewchange"}
                                    => x[2].replica_id = x[1]
  /\ Submissions \in [Replicas -> Seq(Request)]
  /\ Blocking \subseteq Request
  /\ CanCrash \subseteq Replicas
  /\ TimerInit \subseteq BOOLEAN
  /\ MaxRetries \in Nat
  /\ MaxTimeouts \in Nat
  /\ MaxFaulty \in Nat

\* Two quorums of 2f + 1 have a correct replica in common.  For n = 3f + 1
\* this says that at most f replicas are faulty.
ASSUME QuorumAssumption == N + Cardinality(Faulty) < 2 * (2 * f + 1)

Correct == Replicas \ Faulty

VARIABLES
  node,      \* node[i] is replica i's pbft::Node
  up,        \* the correct replicas that have not stopped
  unsent,    \* unsent[i] is in transit from the clients to replica i
  retries,   \* number of times a request was sent again
  timeouts,  \* number of timers that have expired
  faults     \* number of messages sent by faulty replicas

vars == <<node, up, unsent, retries, timeouts, faults>>

\* broadcast and send_to_replica skip a terminated connection.
Connected(s, alive) ==
  [s EXCEPT !.out = [j \in Replicas |-> IF j \in alive THEN s.out[j] ELSE <<>>]]

Init ==
  /\ \E running \in [Replicas -> TimerInit] :
       node = [i \in Replicas |-> NewNode(i, running[i])]
  /\ up = Correct
  /\ unsent = Submissions
  /\ retries = 0
  /\ timeouts = 0
  /\ faults = 0

\* The next request of the clients reaches replica i.
Submit(i) ==
  /\ i \in up
  /\ unsent[i] # <<>>
  /\ unsent' = [unsent EXCEPT ![i] = Tail(@)]
  /\ node' = [node EXCEPT ![i] = Connected(on_request(@, Head(unsent[i])), up)]
  /\ UNCHANGED <<up, retries, timeouts, faults>>

\* Client::invoke times out and broadcasts the request again.  When it does is
\* left open: its timeout is not tied to what the nodes do.
Retry(req) ==
  /\ retries < MaxRetries
  /\ retries' = retries + 1
  /\ unsent' = [i \in Replicas |-> IF i \in up THEN Append(unsent[i], req)
                                    ELSE unsent[i]]
  /\ UNCHANGED <<node, up, timeouts, faults>>

\* Node j runs the handler of the next message on the connection from i.
Deliver(i, j) ==
  /\ j \in up /\ i # j
  /\ node[i].out[j] # <<>>
  /\ node' = [node EXCEPT
                ![i].out[j] = Tail(@),
                ![j] = Connected(Handle(@, Head(node[i].out[j]), i), up)]
  /\ UNCHANGED <<up, unsent, retries, timeouts, faults>>

\* The view-change timer of node i expires.
Timeout(i) ==
  /\ i \in up
  /\ node[i].timer # Off
  /\ timeouts < MaxTimeouts
  /\ timeouts' = timeouts + 1
  /\ node' = [node EXCEPT ![i] = Connected(start_view_change(@), up)]
  /\ UNCHANGED <<up, unsent, retries, faults>>

\* Node::stop, or the process ends.
Crash(i) ==
  /\ i \in up \cap CanCrash
  /\ up' = up \ {i}
  /\ node' = [j \in Replicas |-> Connected(node[j], up')]
  /\ UNCHANGED <<unsent, retries, timeouts, faults>>

\* What a stopped node had sent to j and j had not received is lost.
Lose(i, j) ==
  /\ i \notin up
  /\ node[i].out[j] # <<>>
  /\ node' = [node EXCEPT ![i].out[j] = <<>>]
  /\ UNCHANGED <<up, unsent, retries, timeouts, faults>>

\* Node j receives a message of a faulty replica b.
FaultySend(b, j) ==
  /\ j \in up
  /\ faults < MaxFaulty
  /\ faults' = faults + 1
  /\ \E x \in FaultyMessages :
       /\ x[1] = b
       /\ node' = [node EXCEPT ![j] = Connected(Handle(@, x[2], b), up)]
  /\ UNCHANGED <<up, unsent, retries, timeouts>>

Next ==
  \/ \E i \in Replicas : Submit(i)
  \/ \E req \in Blocking : Retry(req)
  \/ \E i, j \in Replicas : Deliver(i, j)
  \/ \E i \in Replicas : Timeout(i)
  \/ \E i \in Replicas : Crash(i)
  \/ \E i, j \in Replicas : Lose(i, j)
  \/ \E b \in Faulty, j \in Replicas : FaultySend(b, j)

Spec == Init /\ [][Next]_vars

-----------------------------------------------------------------------------
(* Invariants. *)

\* Every node is a Node with its own id, and only correct replicas run: the
\* members of node.hh have their types and every message queued is well formed.
TypeOK ==
  /\ node = [i \in Replicas |-> node[i]]
  /\ \A i \in Replicas : IsNode(node[i]) /\ node[i].id = i
  /\ up \subseteq Correct
  /\ unsent \in [Replicas -> Seq(Request)]
  /\ retries \in Nat
  /\ timeouts \in Nat
  /\ faults \in Nat

\* Every entry of reqlog_ lies between the watermarks, so the log of a node
\* never holds more than log_size + 1 entries, whatever its peers send
\* (guards of on_request, on_preprepare_impl, on_prepare and on_commit, and
\* garbage_collect).
LogInWindow ==
  \A i \in Correct :
    DOMAIN node[i].reqlog \subseteq node[i].h .. H(node[i])

\* The exponential backoff never engages: a pending timer was armed with the
\* exponent 0, and a node that is changing view has no timer pending, so it
\* waits for the new view without a limit (start_timer_if_not_running,
\* start_view_change).
BackoffNeverEngages ==
  \A i \in Correct :
    LET s == node[i]
    IN  /\ s.timer # Off => s.timer_running /\ ~s.view_changing /\ s.timer = 0
        /\ s.view_change_timeout_count = (IF s.view_changing THEN 1 ELSE 0)

\* The opposite, which view_change_timeout_count_ is kept for: a node that waits
\* for a NewView that is not on its way has a timer pending, longer by a power
\* of two for every timeout counted (start_timer_if_not_running).
BackoffEngages ==
  (\A i, j \in Replicas : node[i].out[j] = <<>>) =>
    \A i \in up :
      node[i].view_changing => node[i].timer = node[i].view_change_timeout_count

\* A correct node broadcasts Commit for two digests at one sequence number only
\* at its low watermark or below, on a checkpoint number: on_preprepare_impl
\* keeps the digest of an entry until garbage_collect erases it, but then
\* accepts the number h_ again.
VotesUnique ==
  \A i \in Correct : \A x, y \in node[i].voted :
    x[1] = y[1] /\ x[2] # y[2] => x[1] % K = 0 /\ x[1] <= node[i].h

\* The low watermark of a correct node is a multiple of the checkpoint interval,
\* and its stable digest is the state that the correct members of a quorum had
\* after executing that many requests: wrong votes of the faulty replicas
\* neither move the window nor choose the digest (on_checkpoint).
StableIsExecuted ==
  \A i \in Correct :
    LET s == node[i]
    IN  /\ s.h % K = 0
        /\ Cardinality({q \in Replicas : q \in Correct =>
             /\ s.h <= Len(node[q].executed)
             /\ s.last_stable_digest = ServiceState(node[q], s.h)}) >= 2 * f + 1

\* What a correct node executed at n was committed by a quorum: 2f + 1
\* replicas of which every correct one has broadcast Commit for that digest at
\* n (try_commit, on_commit), whatever order Commits and PrePrepares came in.
ExecutedIsCertified ==
  \A i \in Correct : \A n \in 1..Len(node[i].executed) :
    Cardinality({q \in Replicas : q \in Correct =>
      <<n, node[i].executed[n].digest>> \in node[q].voted}) >= 2 * f + 1

\* Agreement: two correct nodes execute the same digest at every sequence
\* number, unless it is a checkpoint number that some correct node has already
\* left behind (try_execute).
Agreement ==
  \A i, j \in Correct :
    \A n \in 1..Len(node[i].executed) \cap 1..Len(node[j].executed) :
      \/ node[i].executed[n].digest = node[j].executed[n].digest
      \/ n % K = 0 /\ \E q \in Correct : n <= node[q].h

\* Until it first changes view, a backup that has accepted a request and not
\* executed it has a view-change timer pending (on_preprepare_impl,
\* manage_timer), so that a primary that stops is noticed.
PendingHasTimer ==
  \A i \in up :
    LET s == node[i]
    IN  /\ is_waiting_for_request(s)
        /\ ~is_primary(s) /\ ~s.view_changing /\ s.view = 0
        => s.timer # Off

\* Every reply to a client, first or repeated, carries the result of an
\* execution of the request it names (try_execute, on_request's resend from
\* last_replies_).
ReplyIsExecution ==
  \A i \in Correct, c \in Clients : \A k \in 1..Len(node[i].replies[c]) :
    LET m == node[i].replies[c][k]
    IN  \E n \in 1..Len(node[i].executed) :
          /\ node[i].executed[n].req.client_id = c
          /\ node[i].executed[n].req.timestamp = m.timestamp
          /\ m.result = ServiceState(node[i], n)

\* A node overlooks a quorum of checkpoint votes only if it completed the quorum
\* itself: make_checkpoint adds the node's own vote and does not count, so above
\* the low watermark there are at most 2f + 1 equal votes, and if so many, its
\* own is one.  The next equal vote moves the window (on_checkpoint).
QuorumOverlooked ==
  \A i \in Correct : \A n \in DOMAIN node[i].checkpoints :
    LET cp == node[i].checkpoints[n]
    IN  n > node[i].h =>
          \A x \in cp.votes :
            Cardinality(Voters(cp, x[1])) >= 2 * f + 1 =>
              /\ Cardinality(Voters(cp, x[1])) = 2 * f + 1
              /\ i \in Voters(cp, x[1])

\* Two correct nodes execute the same request at every sequence number, or one
\* of them the null request in its place: on_viewchange sends a digest it takes
\* from a proof with the null request.  The checkpoint numbers that some correct
\* node has left behind are excepted as in Agreement (try_execute).
RequestsAgree ==
  \A i, j \in Correct :
    \A n \in 1..Len(node[i].executed) \cap 1..Len(node[j].executed) :
      LET a == node[i].executed[n].req
          b == node[j].executed[n].req
      IN  \/ a = b \/ a = NullReq \/ b = NullReq
          \/ n % K = 0 /\ \E q \in Correct : n <= node[q].h

\* Two correct nodes that execute the same digest at a sequence number execute
\* the same request there, the one that was prepared (on_viewchange,
\* on_newview).
OneRequestPerDigest ==
  \A i, j \in Correct :
    \A n \in 1..Len(node[i].executed) \cap 1..Len(node[j].executed) :
      node[i].executed[n].digest = node[j].executed[n].digest
        => node[i].executed[n].req = node[j].executed[n].req

\* Only Prepares for its own digest count towards a prepared entry: every correct
\* replica counted has accepted that digest, or has left the number behind
\* (on_prepare, try_prepare).
PreparesMatch ==
  \A i \in Correct : \A n \in DOMAIN node[i].reqlog :
    LET e == node[i].reqlog[n]
    IN  e.stage = "PREPARED" =>
          \A q \in e.prepares \cap Correct :
            \/ n <= node[q].h
            \/ /\ n \in DOMAIN node[q].reqlog
               /\ node[q].reqlog[n].has_preprepare
               /\ node[q].reqlog[n].digest = e.digest

\* Four nodes change view once, if the primary of view 0 does not ask for a view
\* change: it never arms a timer, so a correct one does not.  The primary of view
\* 1 then spent its own timer to get there, and arms no other, which leaves 2f
\* replicas to ask for view 2 (on_request, on_newview).
OneViewChange == \A i \in Correct : node[i].view <= 1

\* No node executes a client's request twice.
ExactlyOnce ==
  \A i \in up : \A k, l \in 1..Len(node[i].executed) :
    /\ node[i].executed[k].req = node[i].executed[l].req
    /\ node[i].executed[k].req # NullReq
    => k = l

\* For every number a new primary proposes, it proposes the digest of a proof
\* with the highest view, if it holds a proof for that number.
NewViewKeepsPrepared ==
  \A i \in Correct, j \in Replicas : \A k \in 1..Len(node[i].out[j]) :
    LET m == node[i].out[j][k]
    IN  m.type = "newview" =>
          LET proofs == UNION {vc.prepared_proofs : vc \in m.view_changes}
          IN  \A pp \in {m.pre_prepares[l] : l \in 1..Len(m.pre_prepares)} :
                LET P == {p \in proofs : p.seq_num = pp.seq_num}
                IN  P # {} => \E p \in P : /\ p.digest = pp.req_digest
                                           /\ \A q \in P : q.view <= p.view

\* A request a client insists on does not get stuck: where nothing is in
\* transit, no timer is pending and sending the request again would change no
\* node, more than 2f running nodes have executed it.
NeverStuck ==
  \A req \in Blocking :
    /\ \A i, j \in Replicas : node[i].out[j] = <<>>
    /\ \A i \in up : node[i].timer = Off /\ on_request(node[i], req) = node[i]
    => Cardinality({i \in up : \E k \in 1..Len(node[i].executed) :
                                 node[i].executed[k].req = req}) > 2 * f

-----------------------------------------------------------------------------
(* Action properties. *)

\* No step replaces the digest of an entry that has a PrePrepare
\* (on_preprepare_impl's mismatch test, and on_request at a primary, which has
\* no such test).
DigestSticky ==
  [][\A i \in Correct :
       \A n \in DOMAIN node[i].reqlog \cap DOMAIN node'[i].reqlog :
         node[i].reqlog[n].has_preprepare =>
           /\ node'[i].reqlog[n].has_preprepare
           /\ node'[i].reqlog[n].digest = node[i].reqlog[n].digest]_vars

=============================================================================
