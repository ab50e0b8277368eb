---------------------------- MODULE ReplyProofs -----------------------------
(***************************************************************************)
(* The turns of a node, and its replies to clients, for every value of the *)
(* constants: Answered and what follows.                                   *)
(***************************************************************************)
EXTENDS ViewInv, LocalProofs

\* The prover, unless a proof or a step names another.
USE ZenonT(40)

\* Every node is one, and only what correct nodes send is on the connections.
WellFormed ==
  /\ DOMAIN node = Replicas
  /\ \A i \in Replicas : Local(node[i]) /\ node[i].id = i
  /\ \A i \in Faulty, j \in Replicas : node[i].out[j] = <<>>
  /\ up \subseteq Correct
  /\ unsent \in [Replicas -> Seq(Request)]

\* u is t with some of its messages gone.
Shrunk(t, u) ==
  SameExcept(t, u, {"out"}) /\ \A j \in Replicas : Sent(u, j) \subseteq Sent(t, j)

\* Node i may receive m from src.
Received(i, m, src) ==
  \/ src \in Correct /\ m \in Sent(node[src], i)
  \/ \E x \in FaultyMessages : x[1] = src /\ x[2] = m

\* Node i runs a handler that leaves it as t.
Runs(i, t) ==
  \/ \E src \in Replicas, m \in Message :
       src # i /\ Received(i, m, src) /\ t = Handle(node[i], m, src)
  \/ \E k \in 1..Len(unsent[i]) :
       unsent[i][k] \in Request /\ t = on_request(node[i], unsent[i][k])
  \/ node[i].timer # Off /\ t = start_view_change(node[i])

\* What a step makes of node i: u.
Turn(i, u) ==
  \E t : /\ Local(t) /\ Local(u) /\ Shrunk(t, u) /\ u.id = node[i].id
         /\ t = node[i] \/ (i \in Correct /\ Runs(i, t))

-----------------------------------------------------------------------------
(* A step of the cluster is a turn of every node. *)

\* A request leaves the identity of the node alone.
LEMMA OnRequestId ==
  ASSUME NEW s, Local(s), NEW m \in Request
  PROVE  on_request(s, m).id = s.id
<1>1. PICK t : t = on_request(s, m)
  OBVIOUS
<1>2. CASE SameExcept(s, t, {"replies"})
  BY SMTT(20), <1>1, <1>2 DEF SameExcept, NodeFields
<1>3. ASSUME NEW u, SameExcept(s, u, {"timer", "timer_running"}),
             t = send_to_replica(u, primary(s), m)
      PROVE  t.id = s.id
  BY SMTT(20), <1>3 DEF SameExcept, NodeFields, send_to_replica
<1>4. ASSUME NEW u, SequenceAssigned(s, m, u), t = broadcast(u, OwnPrePrepare(s, m))
      PROVE  t.id = s.id
  <2>1. u.id = s.id
    BY SMTT(20), <1>4 DEF SequenceAssigned, SameExcept, NodeFields
  <2> QED BY SMTT(20), <1>4, <2>1 DEF broadcast
<1> QED
  BY <1>1, <1>2, <1>3, <1>4, OnRequestLocal

\* Every handler leaves a node a node.
LEMMA HandleLocal ==
  ASSUME NEW s, Local(s), NEW m \in Message, NEW src
  PROVE  LET t == Handle(s, m, src)
         IN  Local(t) /\ t.id = s.id
<1>0. PICK t : t = Handle(s, m, src)
  OBVIOUS
<1>1. CASE m \in Request
  <2>1. t = on_request(s, m)
    BY SMTT(20), <1>0, <1>1 DEF Handle, Request
  <2> QED BY <1>0, <1>1, <2>1, OnRequestLocal, OnRequestId
<1>2. ASSUME Local(t), SameExcept(s, t, PhaseFields) PROVE t.id = s.id
  BY SMTT(20), <1>2 DEF SameExcept, NodeFields, PhaseFields, TryExecuteFields, ExecuteFields
<1>3. CASE m \in PrePrepare
  <2>1. t = s \/ t = on_preprepare_impl(s, m)
    BY SMTT(20), <1>0, <1>3 DEF Handle, PrePrepare, on_preprepare
  <2> QED BY <1>0, <1>2, <1>3, <2>1, OnPrePrepareImplLocal
<1>4. CASE m \in Vote
  <2>1. t = on_prepare(s, m, src) \/ t = on_commit(s, m)
    BY SMTT(20), <1>0, <1>4 DEF Handle, Vote
  <2> QED BY <1>0, <1>2, <1>4, <2>1, OnPrepareLocal, OnCommitLocal
<1>5. CASE m \in CheckpointVote
  <2>1. t = on_checkpoint(s, m)
    BY SMTT(20), <1>0, <1>5 DEF Handle, CheckpointVote
  <2>2. /\ Local(t)
        /\ \/ t = s
           \/ SameExcept(s, t, {"checkpoints"})
           \/ SameExcept(s, t, {"checkpoints", "h", "seq_num", "reqlog", "last_stable_digest"})
    BY <1>5, <2>1, OnCheckpointLocal DEF BecameStable
  <2>3. t.id = s.id
    BY SMTT(20), <2>2 DEF SameExcept, NodeFields
  <2> QED BY <1>0, <2>2, <2>3
<1>6. CASE m \in ViewChange
  <2>1. t = on_viewchange(s, m)
    BY SMTT(20), <1>0, <1>6 DEF Handle, ViewChange
  <2>2. Local(t) /\ SameExcept(s, t, ViewFields)
    BY <1>6, <2>1, OnViewChangeLocal
  <2>3. t.id = s.id
    BY ZenonT(40), <2>2 DEF SameExcept, ViewFields, NodeFields
  <2> QED BY <1>0, <2>2, <2>3
<1>7. CASE m \in NewView
  <2>1. t = on_newview(s, m, src)
    BY SMTT(20), <1>0, <1>7 DEF Handle, NewView
  <2>2. Local(t) /\ SameExcept(s, t, NewViewFields)
    BY <1>7, <2>1, OnNewViewLocal
  <2>3. t.id = s.id
    BY SMTT(20), <2>2 DEF SameExcept, NewViewFields, NodeFields, PhaseFields,
         TryExecuteFields, ExecuteFields
  <2> QED BY <1>0, <2>2, <2>3
<1> QED
  BY <1>1, <1>3, <1>4, <1>5, <1>6, <1>7 DEF Message

\* Terminated connections.
LEMMA ConnectedShrunk ==
  ASSUME NEW s, Local(s), NEW alive
  PROVE  LET t == Connected(s, alive)
         IN  Local(t) /\ Shrunk(s, t) /\ t.id = s.id
<1>0. PICK t : t = Connected(s, alive)
  OBVIOUS
<1>1. s.out \in [Replicas -> Seq(Message)] /\ DOMAIN s = NodeFields
  BY SMTT(20) DEF Local, IsNode
<1>2. /\ SameExcept(s, t, {"out"})
      /\ t.out = [j \in Replicas |-> IF j \in alive THEN s.out[j] ELSE <<>>]
  BY SMTT(20), <1>0, <1>1 DEF Connected, SameExcept, NodeFields
<1>3. t.out \in [Replicas -> Seq(Message)]
  BY SMTT(20), <1>1, <1>2
<1>4. \A j \in Replicas : t.out[j] = s.out[j] \/ t.out[j] = <<>>
  BY <1>2
<1>5. IsNode(t)
  BY ZenonT(40), <1>2, <1>3 DEF Local, IsNode, SameExcept, NodeFields
<1>6. SameExcept(s, t, Loose)
  BY SMTT(20), <1>2 DEF SameExcept, Loose
<1>7. Local(t)
  BY <1>5, <1>6, LocalFrame
<1>8. \A j \in Replicas : Sent(t, j) \subseteq Sent(s, j)
  <2> SUFFICES ASSUME NEW j \in Replicas
               PROVE  Sent(t, j) \subseteq Sent(s, j)
    OBVIOUS
  <2>1. CASE t.out[j] = s.out[j]
    BY <2>1 DEF Sent
  <2>2. CASE t.out[j] = <<>>
    BY SMTT(20), <2>2 DEF Sent
  <2> QED BY <1>4, <2>1, <2>2
<1>9. t.id = s.id
  BY SMTT(20), <1>2 DEF SameExcept, NodeFields
<1> QED
  BY <1>0, <1>2, <1>7, <1>8, <1>9 DEF Shrunk

\* A message is taken off a connection, or all of them are lost.
LEMMA TakenShrunk ==
  ASSUME NEW s, Local(s), NEW j \in Replicas, s.out[j] # <<>>,
         NEW q \in {Tail(s.out[j]), <<>>}
  PROVE  LET t == [s EXCEPT !.out[j] = q]
         IN  Local(t) /\ Shrunk(s, t) /\ t.id = s.id
<1>0. PICK t : t = [s EXCEPT !.out[j] = q]
  OBVIOUS
<1>1. s.out \in [Replicas -> Seq(Message)] /\ DOMAIN s = NodeFields
  BY SMTT(20) DEF Local, IsNode
<1>2. /\ SameExcept(s, t, {"out"})
      /\ t.out = [s.out EXCEPT ![j] = q]
  BY SMTT(20), <1>0, <1>1 DEF SameExcept, NodeFields
<1>3. q \in Seq(Message) /\ \A k \in 1..Len(q) : k + 1 \in 1..Len(s.out[j])
                              /\ q[k] = s.out[j][k + 1]
  <2>1. s.out[j] \in Seq(Message)
    BY SMTT(20), <1>1
  <2>2. CASE q = Tail(s.out[j])
    BY SMTT(20), <2>1, <2>2
  <2>3. CASE q = <<>>
    BY SMTT(20), <2>3
  <2> QED BY <2>2, <2>3
<1>4. t.out \in [Replicas -> Seq(Message)]
  BY ZenonT(40), <1>1, <1>2, <1>3
<1>5. IsNode(t)
  BY ZenonT(40), <1>2, <1>4 DEF Local, IsNode, SameExcept, NodeFields
<1>6. SameExcept(s, t, Loose)
  BY SMTT(20), <1>2 DEF SameExcept, Loose
<1>7. Local(t)
  BY <1>5, <1>6, LocalFrame
<1>8. \A l \in Replicas : Sent(t, l) \subseteq Sent(s, l)
  <2> SUFFICES ASSUME NEW l \in Replicas
               PROVE  Sent(t, l) \subseteq Sent(s, l)
    OBVIOUS
  <2>1. CASE l # j
    <3>1. t.out[l] = s.out[l]
      BY SMTT(20), <1>1, <1>2, <2>1
    <3> QED BY <3>1 DEF Sent
  <2>2. CASE l = j
    <3>1. t.out[l] = q
      BY SMTT(20), <1>1, <1>2, <2>2
    <3>2. ASSUME NEW m \in Sent(t, l) PROVE m \in Sent(s, l)
      <4>1. PICK k \in 1..Len(q) : m = q[k]
        BY <3>1 DEF Sent
      <4>2. PICK k2 \in 1..Len(s.out[j]) : m = s.out[j][k2]
        BY <1>3, <4>1
      <4> QED BY <2>2, <4>2 DEF Sent
    <3> QED BY <3>2
  <2> QED BY <2>1, <2>2
<1>9. t.id = s.id
  BY SMTT(20), <1>2 DEF SameExcept, NodeFields
<1> QED
  BY <1>0, <1>2, <1>7, <1>8, <1>9 DEF Shrunk

\* A node that a step leaves alone.
LEMMA IdleTurn ==
  ASSUME NEW i \in Replicas, Local(node[i])
  PROVE  Turn(i, node[i])
<1>1. Shrunk(node[i], node[i])
  BY SameSelf DEF Shrunk
<1> QED
  BY <1>1 DEF Turn

\* A node that runs a handler.
LEMMA HandlerTurn ==
  ASSUME NEW i \in Correct, NEW t, Local(t), Runs(i, t), t.id = node[i].id, NEW alive
  PROVE  Turn(i, Connected(t, alive))
<1>1. PICK u : u = Connected(t, alive)
  OBVIOUS
<1>2. Local(u) /\ Shrunk(t, u) /\ u.id = t.id
  BY <1>1, ConnectedShrunk
<1> QED
  BY <1>1, <1>2 DEF Turn

\* A step in which node a runs a handler.
LEMMA OneTurn ==
  ASSUME WellFormed, NEW a \in Correct, NEW t, Local(t), Runs(a, t), t.id = node[a].id,
         NEW alive, NEW nd, nd = [node EXCEPT ![a] = Connected(t, alive)]
  PROVE  DOMAIN nd = Replicas /\ \A i \in Replicas : Turn(i, nd[i])
<1>1. DOMAIN node = Replicas /\ a \in Replicas
  BY DEF WellFormed, Correct
<1>2. PICK u : u = Connected(t, alive)
  OBVIOUS
<1>3. nd = [node EXCEPT ![a] = u]
  BY <1>2
<1>4. DOMAIN nd = Replicas /\ nd[a] = u /\ \A i \in Replicas : i # a => nd[i] = node[i]
  BY SMTT(20), <1>1, <1>3
<1>5. Turn(a, u)
  BY <1>2, HandlerTurn
<1>6. \A i \in Replicas : Turn(i, node[i])
  BY IdleTurn DEF WellFormed
<1> QED
  BY <1>4, <1>5, <1>6

\* Node b handles the first message on its connection from a.
LEMMA DeliverTurns ==
  ASSUME WellFormed, NEW a \in Replicas, NEW b \in Replicas, Deliver(a, b)
  PROVE  DOMAIN node' = Replicas /\ \A i \in Replicas : Turn(i, node'[i])
<1>1. /\ DOMAIN node = Replicas /\ Local(node[a]) /\ Local(node[b]) /\ node[b].id = b
      /\ up \subseteq Correct
  BY DEF WellFormed
<1>2. b \in Correct /\ a # b /\ node[a].out[b] # <<>>
  BY <1>1 DEF Deliver
<1>3. PICK m : m = Head(node[a].out[b])
  OBVIOUS
<1>4. m \in Message /\ m \in Sent(node[a], b)
  <2>1. node[a].out[b] \in Seq(Message)
    BY ZenonT(40), <1>1 DEF Local, IsNode
  <2>2. m = node[a].out[b][1] /\ 1 \in 1..Len(node[a].out[b]) /\ m \in Message
    BY SMTT(20), <1>2, <1>3, <2>1
  <2> QED BY <2>2 DEF Sent
<1>5. a \in Correct
  BY <1>2 DEF WellFormed, Correct
<1>6. PICK t : t = Handle(node[b], m, a)
  OBVIOUS
<1>7. Runs(b, t)
  BY <1>2, <1>4, <1>5, <1>6 DEF Runs, Received
<1>8. Local(t) /\ t.id = node[b].id
  BY <1>1, <1>2, <1>4, <1>6, HandleLocal
<1>9. Turn(b, Connected(t, up))
  BY <1>2, <1>7, <1>8, HandlerTurn
<1>10. PICK w : w = Connected(t, up)
  OBVIOUS
<1>11. PICK q : q = [node[a] EXCEPT !.out[b] = Tail(node[a].out[b])]
  OBVIOUS
<1>12. node' = [[node EXCEPT ![a] = q] EXCEPT ![b] = w]
  BY <1>1, <1>2, <1>3, <1>6, <1>10, <1>11 DEF Deliver
<1>13. /\ DOMAIN node' = Replicas /\ node'[a] = q /\ node'[b] = w
       /\ \A i \in Replicas : i # a /\ i # b => node'[i] = node[i]
  BY SMTT(20), <1>1, <1>2, <1>12
<1>14. Turn(a, q)
  <2>1. Local(q) /\ Shrunk(node[a], q) /\ q.id = node[a].id
    BY <1>1, <1>2, <1>11, TakenShrunk
  <2> QED BY <1>1, <2>1 DEF Turn
<1>15. \A i \in Replicas : Turn(i, node[i])
  BY IdleTurn DEF WellFormed
<1> QED
  BY <1>9, <1>10, <1>13, <1>14, <1>15

\* One case per action.
LEMMA NextTurns ==
  ASSUME WellFormed, [Next]_vars
  PROVE  DOMAIN node' = Replicas /\ \A i \in Replicas : Turn(i, node'[i])
<1> DEFINE Goal == DOMAIN node' = Replicas /\ \A i \in Replicas : Turn(i, node'[i])
<1>0. /\ DOMAIN node = Replicas /\ up \subseteq Correct
      /\ \A i \in Replicas : Local(node[i]) /\ node[i].id = i
      /\ unsent \in [Replicas -> Seq(Request)]
  BY DEF WellFormed
<1>a. \A i \in Replicas : Turn(i, node[i])
  BY <1>0, IdleTurn
<1>1. ASSUME NEW a \in Replicas, Submit(a) PROVE Goal
  <2>1. PICK req : req = Head(unsent[a])
    OBVIOUS
  <2>2. req \in Request /\ 1 \in 1..Len(unsent[a]) /\ req = unsent[a][1]
    <3>1. unsent[a] \in Seq(Request) /\ unsent[a] # <<>>
      BY SMTT(20), <1>0, <1>1 DEF Submit
    <3> QED BY SMTT(20), <2>1, <3>1
  <2>3. PICK t : t = on_request(node[a], req)
    OBVIOUS
  <2>4. Local(t) /\ Runs(a, t) /\ t.id = node[a].id
    <3>1. Local(t) /\ t.id = node[a].id
      BY <1>0, <2>2, <2>3, OnRequestLocal, OnRequestId
    <3>2. Runs(a, t)
      BY <2>2, <2>3 DEF Runs
    <3> QED BY <3>1, <3>2
  <2>5. node' = [node EXCEPT ![a] = Connected(t, up)] /\ a \in Correct
    BY <1>0, <1>1, <2>1, <2>3 DEF Submit
  <2> QED BY SMTT(20), <2>4, <2>5, OneTurn
<1>2. ASSUME NEW req \in Blocking, Retry(req) PROVE Goal
  BY <1>0, <1>a, <1>2 DEF Retry
<1>3. ASSUME NEW a \in Replicas, NEW b \in Replicas, Deliver(a, b) PROVE Goal
  BY <1>3, DeliverTurns
<1>4. ASSUME NEW a \in Replicas, Timeout(a) PROVE Goal
  <2>1. PICK t : t = start_view_change(node[a])
    OBVIOUS
  <2>2. node[a].timer # Off /\ a \in Correct
    BY <1>0, <1>4 DEF Timeout
  <2>3. Local(t) /\ Runs(a, t) /\ t.id = node[a].id
    <3>1. Local(t) /\ SameExcept(node[a], t, ViewFields)
      BY <1>0, <2>1, <2>2, StartViewChangeLocal
    <3>2. t.id = node[a].id
      BY SMTT(20), <3>1 DEF SameExcept, ViewFields, NodeFields
    <3>3. Runs(a, t)
      BY <2>1, <2>2 DEF Runs
    <3> QED BY <3>1, <3>2, <3>3
  <2>4. node' = [node EXCEPT ![a] = Connected(t, up)]
    BY <1>4, <2>1 DEF Timeout
  <2> QED BY ZenonT(40), <2>2, <2>3, <2>4, OneTurn
<1>5. ASSUME NEW a \in Replicas, Crash(a) PROVE Goal
  <2>1. DOMAIN node' = Replicas /\ \A i \in Replicas : node'[i] = Connected(node[i], up')
    BY SMTT(20), <1>5 DEF Crash
  <2>2. \A i \in Replicas : Turn(i, Connected(node[i], up'))
    BY <1>0, ConnectedShrunk DEF Turn
  <2> QED BY <2>1, <2>2
<1>6. ASSUME NEW a \in Replicas, NEW b \in Replicas, Lose(a, b) PROVE Goal
  <2>1. PICK q : q = [node[a] EXCEPT !.out[b] = <<>>]
    OBVIOUS
  <2>2. node' = [node EXCEPT ![a] = q] /\ node[a].out[b] # <<>>
    BY <1>6, <2>1 DEF Lose
  <2>3. /\ DOMAIN node' = Replicas /\ node'[a] = q
        /\ \A i \in Replicas : i # a => node'[i] = node[i]
    BY SMTT(20), <1>0, <2>2
  <2>4. Local(q) /\ Shrunk(node[a], q) /\ q.id = node[a].id
    BY <1>0, <2>1, <2>2, TakenShrunk
  <2>5. Turn(a, q)
    BY <1>0, <2>4 DEF Turn
  <2> QED BY <1>a, <2>3, <2>5
<1>7. ASSUME NEW b \in Faulty, NEW a \in Replicas, FaultySend(b, a) PROVE Goal
  <2>1. PICK x \in FaultyMessages :
          /\ x[1] = b
          /\ node' = [node EXCEPT ![a] = Connected(Handle(@, x[2], b), up)]
    BY <1>7 DEF FaultySend
  <2>2. x[2] \in Message /\ b \in Replicas
    BY ClusterAssumption
  <2>3. a \in Correct /\ b # a
    BY <1>0, <1>7 DEF FaultySend, Correct
  <2>4. PICK t : t = Handle(node[a], x[2], b)
    OBVIOUS
  <2>5. Local(t) /\ t.id = node[a].id
    <3>1. Local(node[a]) /\ b # node[a].id /\ x[2] \in Message
      BY <1>0, <2>2, <2>3
    <3> QED BY <2>4, <3>1, HandleLocal
  <2>6. Runs(a, t)
    <3>1. Received(a, x[2], b)
      BY <2>1 DEF Received
    <3> QED BY <2>2, <2>3, <2>4, <3>1 DEF Runs
  <2>7. node' = [node EXCEPT ![a] = Connected(t, up)]
    BY <2>1, <2>4
  <2> QED BY ZenonT(40), <2>3, <2>5, <2>6, <2>7, OneTurn
<1>8. CASE UNCHANGED vars
  <2>1. node' = node
    BY <1>8 DEF vars
  <2> QED BY <1>0, <1>a, <2>1
<1> QED
  BY <1>1, <1>2, <1>3, <1>4, <1>5, <1>6, <1>7, <1>8 DEF Next

\* What is in transit from the clients after a step was there before it, or is a
\* request that is sent again.
LEMMA UnsentAfter ==
  ASSUME unsent \in [Replicas -> Seq(Request)], [Next]_vars
  PROVE  /\ unsent' \in [Replicas -> Seq(Request)]
         /\ \A i \in Replicas : \A k \in 1..Len(unsent'[i]) :
              unsent'[i][k] \in Blocking \/ \E l \in 1..Len(unsent[i]) :
                unsent'[i][k] = unsent[i][l]
<1> DEFINE Old(i, q) == \A k \in 1..Len(q) :
              q[k] \in Blocking \/ \E l \in 1..Len(unsent[i]) : q[k] = unsent[i][l]
           Goal == /\ unsent' \in [Replicas -> Seq(Request)]
                   /\ \A i \in Replicas : Old(i, unsent'[i])
<1>1. ASSUME NEW a \in Replicas, Submit(a) PROVE Goal
  <2>1. unsent[a] \in Seq(Request) /\ unsent[a] # <<>>
    BY SMTT(20), <1>1 DEF Submit
  <2>2. PICK q : q = Tail(unsent[a])
    OBVIOUS
  <2>3. q \in Seq(Request) /\ \A k \in 1..Len(q) :
          k + 1 \in 1..Len(unsent[a]) /\ q[k] = unsent[a][k + 1]
    BY SMTT(20), <2>1, <2>2
  <2>4. unsent' = [unsent EXCEPT ![a] = q]
    BY <1>1, <2>2 DEF Submit
  <2>5. /\ unsent' \in [Replicas -> Seq(Request)] /\ unsent'[a] = q
        /\ \A i \in Replicas : i # a => unsent'[i] = unsent[i]
    BY SMTT(20), <2>3, <2>4
  <2>6. Old(a, q)
    BY <2>3
  <2>7. \A i \in Replicas : Old(i, unsent[i])
    OBVIOUS
  <2> HIDE DEF Old
  <2> QED BY <2>5, <2>6, <2>7
<1>2. ASSUME NEW req \in Blocking, Retry(req) PROVE Goal
  <2>1. req \in Request
    BY ClusterAssumption
  <2>2. unsent' = [i \in Replicas |-> IF i \in up THEN Append(unsent[i], req) ELSE unsent[i]]
    BY <1>2 DEF Retry
  <2>3. \A i \in Replicas : /\ unsent[i] \in Seq(Request)
                            /\ Append(unsent[i], req) \in Seq(Request)
    BY SMTT(20), <2>1
  <2>4. unsent' \in [Replicas -> Seq(Request)]
    BY SMTT(20), <2>2, <2>3
  <2>5. ASSUME NEW i \in Replicas PROVE Old(i, unsent'[i])
    <3>1. CASE i \in up
      <4>1. unsent'[i] = Append(unsent[i], req)
        BY <2>2, <3>1
      <4>2. PICK q : q = Append(unsent[i], req)
        OBVIOUS
      <4>3. \A k \in 1..Len(q) : q[k] = req \/ (k \in 1..Len(unsent[i]) /\ q[k] = unsent[i][k])
        BY SMTT(20), <2>3, <4>2
      <4>4. Old(i, q)
        BY <4>3
      <4> QED BY <4>1, <4>2, <4>4
    <3>2. CASE i \notin up
      <4>1. unsent'[i] = unsent[i]
        BY <2>2, <3>2
      <4> QED BY <4>1
    <3> QED BY <3>1, <3>2
  <2> QED BY <2>4, <2>5
<1>3. CASE UNCHANGED unsent
  BY <1>3
<1>4. (\A a \in Replicas : ~Submit(a)) /\ (\A req \in Blocking : ~Retry(req))
        => UNCHANGED unsent
  BY DEF Next, Deliver, Timeout, Crash, Lose, FaultySend, vars
<1> QED
  BY <1>1, <1>2, <1>3, <1>4

\* Nodes stay well formed.
LEMMA NextWellFormed ==
  ASSUME WellFormed, [Next]_vars
  PROVE  WellFormed'
<1>1. DOMAIN node' = Replicas /\ \A i \in Replicas : Turn(i, node'[i])
  BY NextTurns
<1>2. \A i \in Replicas : Local(node'[i]) /\ node'[i].id = i
  <2> SUFFICES ASSUME NEW i \in Replicas
               PROVE  Local(node'[i]) /\ node'[i].id = i
    OBVIOUS
  <2>1. Local(node'[i]) /\ node'[i].id = node[i].id
    BY <1>1 DEF Turn
  <2> QED BY <2>1 DEF WellFormed
<1>3. ASSUME NEW i \in Faulty, NEW j \in Replicas PROVE node'[i].out[j] = <<>>
  <2>1. i \in Replicas /\ i \notin Correct
    BY ClusterAssumption DEF Correct
  <2>2. PICK t : Shrunk(t, node'[i]) /\ t = node[i]
    BY <1>1, <2>1 DEF Turn
  <2>3. Sent(node'[i], j) \subseteq Sent(node[i], j)
    BY <2>2 DEF Shrunk
  <2>4. node[i].out[j] = <<>>
    BY DEF WellFormed
  <2>5. PICK q : q = node'[i].out[j]
    OBVIOUS
  <2>6. q \in Seq(Message)
    <3>1. node'[i].out \in [Replicas -> Seq(Message)]
      BY ZenonT(40), <1>2, <2>1 DEF Local, IsNode
    <3> QED BY ZenonT(40), <2>5, <3>1
  <2>7. 1 \notin 1..Len(q)
    <3>1. Sent(node[i], j) = {}
      BY SMTT(20), <2>4 DEF Sent
    <3> QED BY <2>3, <2>5, <3>1 DEF Sent
  <2>8. q = <<>>
    BY SMTT(20), <2>6, <2>7
  <2> QED BY <2>5, <2>8
<1>4. up' \subseteq Correct
  <2>1. up \subseteq Correct
    BY DEF WellFormed
  <2>2. up' \subseteq up
    BY DEF Next, Submit, Retry, Deliver, Timeout, Crash, Lose, FaultySend, vars
  <2> QED BY <2>1, <2>2
<1>5. unsent' \in [Replicas -> Seq(Request)]
  <2>1. unsent \in [Replicas -> Seq(Request)]
    BY DEF WellFormed
  <2> QED BY <2>1, UnsentAfter
<1> QED
  BY <1>1, <1>2, <1>3, <1>4, <1>5 DEF WellFormed

\* What a node is at first.
LEMMA FirstNodes ==
  ASSUME Init, NEW i \in Replicas
  PROVE  /\ Local(node[i]) /\ Fresh(node[i], i) /\ node[i].view_changing = FALSE
         /\ node[i].timer_running \in TimerInit
<1>1. PICK running \in [Replicas -> TimerInit] :
        node = [j \in Replicas |-> NewNode(j, running[j])]
  BY DEF Init
<1>2. PICK r : r = running[i] /\ r \in TimerInit /\ r \in BOOLEAN
  BY <1>1, ClusterAssumption
<1>3. node[i] = NewNode(i, r)
  BY <1>1, <1>2
<1> QED
  <2>1. PICK s : s = NewNode(i, r)
    OBVIOUS
  <2>2. Fresh(s, i) /\ s.view_changing = FALSE /\ s.timer_running = r
    BY <2>1, NewNodeFields
  <2>3. Local(s)
    BY <1>2, <2>1, NewNodeLocal
  <2> QED BY <1>2, <1>3, <2>1, <2>2, <2>3

\* New nodes are nodes.
LEMMA InitWellFormed == Init => WellFormed
<1> SUFFICES ASSUME Init PROVE WellFormed
  OBVIOUS
<1>1. \A i \in Replicas : Local(node[i]) /\ node[i].id = i
  <2> SUFFICES ASSUME NEW i \in Replicas
               PROVE  Local(node[i]) /\ node[i].id = i
    OBVIOUS
  <2>1. Local(node[i]) /\ Fresh(node[i], i)
    BY FirstNodes
  <2> QED BY <2>1 DEF Fresh
<1>2. ASSUME NEW i \in Faulty, NEW j \in Replicas PROVE node[i].out[j] = <<>>
  <2>1. i \in Replicas
    BY ClusterAssumption
  <2>2. Fresh(node[i], i)
    BY <2>1, FirstNodes
  <2>3. node[i].out = [l \in Replicas |-> <<>>]
    BY <2>2 DEF Fresh
  <2> QED BY <2>3
<1>3. DOMAIN node = Replicas /\ up = Correct /\ unsent = Submissions
  BY DEF Init
<1>4. Submissions \in [Replicas -> Seq(Request)]
  BY ClusterAssumption
<1> QED
  BY <1>1, <1>2, <1>3, <1>4 DEF WellFormed

\* Nodes are well formed, always.
LEMMA AlwaysWellFormed == Spec => []WellFormed
BY InitWellFormed, NextWellFormed, PTL DEF Spec

-----------------------------------------------------------------------------
(* What a node tells clients is what it executed. *)

\* What Answered depends on.
ReplyFields == {"id", "executed", "replies", "last_replies"}

\* What was executed depends on the history only.
LEMMA SameDone ==
  ASSUME NEW s, NEW t, t.executed = s.executed, NEW c, NEW timestamp, NEW result
  PROVE  Done(t, c, timestamp, result) <=> Done(s, c, timestamp, result)
<1> USE SMTT(30)
<1>1. \A n : ServiceState(t, n) = ServiceState(s, n)
  BY DEF ServiceState
<1> QED
  BY <1>1 DEF Done

\* A function that leaves the executions and the replies alone.
LEMMA AnsweredFrame ==
  ASSUME NEW s, NEW t, NEW F, Answered(s), SameExcept(s, t, F),
         F \cap ReplyFields = {}
  PROVE  Answered(t)
<1>1. /\ t.executed = s.executed /\ t.replies = s.replies
      /\ t.last_replies = s.last_replies /\ t.id = s.id
  BY SMTT(30) DEF SameExcept, NodeFields, ReplyFields
<1>2. \A c, m : ReplyOK(s, c, m) => ReplyOK(t, c, m)
  BY <1>1, SameDone DEF ReplyOK
<1>3. \A c \in Clients : \A k \in 1..Len(t.replies[c]) : ReplyOK(t, c, t.replies[c][k])
  BY <1>1, <1>2 DEF Answered
<1>4. \A c \in DOMAIN t.last_replies :
        Done(t, c, t.last_replies[c].timestamp, t.last_replies[c].result)
  BY <1>1, SameDone DEF Answered
<1> QED
  BY <1>3, <1>4 DEF Answered

\* What was executed stays executed when the history grows.
LEMMA DoneStays ==
  ASSUME NEW s, NEW t, Len(s.executed) \in Nat, Len(t.executed) \in Nat, Grows(s, t),
         NEW c, NEW timestamp, NEW result, Done(s, c, timestamp, result)
  PROVE  Done(t, c, timestamp, result)
<1> USE SMTT(30)
<1>1. PICK n \in 1..Len(s.executed) :
        /\ s.executed[n].req.client_id = c
        /\ s.executed[n].req.timestamp = timestamp
        /\ result = ServiceState(s, n)
  BY DEF Done
<1>2. n \in 1..Len(t.executed) /\ t.executed[n] = s.executed[n]
  BY DEF Grows
<1>3. ServiceState(t, n) = ServiceState(s, n)
  BY DEF Grows, ServiceState
<1> QED
  BY <1>1, <1>2, <1>3 DEF Done

\* send_to_client appends to the queue of one client.
LEMMA QueuedReply ==
  ASSUME NEW R \in [Clients -> Seq(Reply)], NEW c \in Clients, NEW m
  PROVE  LET T == [R EXCEPT ![c] = Append(@, m)]
         IN  \A d \in Clients : \A k \in 1..Len(T[d]) :
               \/ k \in 1..Len(R[d]) /\ T[d][k] = R[d][k]
               \/ d = c /\ T[d][k] = m
<1> DEFINE T == [R EXCEPT ![c] = Append(@, m)]
<1> SUFFICES ASSUME NEW d \in Clients, NEW k \in 1..Len(T[d])
             PROVE  \/ k \in 1..Len(R[d]) /\ T[d][k] = R[d][k]
                    \/ d = c /\ T[d][k] = m
  BY DEF T
<1>1. CASE d # c
  BY SMTT(20), <1>1
<1>2. CASE d = c
  BY SMTT(20), <1>2
<1> QED
  BY <1>1, <1>2

\* last_replies_[client_id] is overwritten.
LEMMA StoredReply ==
  ASSUME NEW R, NEW T, NEW c, NEW timestamp, NEW result,
         T = R \/ T = Put(R, c, [timestamp |-> timestamp, result |-> result]),
         NEW d \in DOMAIN T
  PROVE  \/ d \in DOMAIN R /\ T[d] = R[d]
         \/ d = c /\ T[d].timestamp = timestamp /\ T[d].result = result
BY SMTT(20) DEF Put

\* A reply is added, to the queue of its client or to last_replies.
LEMMA AnsweredMore ==
  ASSUME NEW s, NEW t, Local(s), Local(t), Answered(s), Grows(s, t),
         NEW m, NEW c,
         \/ t.replies = s.replies
         \/ c \in Clients /\ t.replies = [s.replies EXCEPT ![c] = Append(@, m)],
         \/ t.last_replies = s.last_replies
         \/ t.last_replies = Put(s.last_replies, c,
              [timestamp |-> m.timestamp, result |-> m.result]),
         ReplyOK(t, c, m)
  PROVE  Answered(t)
<1>1. /\ Len(s.executed) \in Nat /\ Len(t.executed) \in Nat
      /\ s.replies \in [Clients -> Seq(Reply)]
  BY DEF Local, IsNode
<1>2. ASSUME NEW d \in Clients, NEW k \in 1..Len(t.replies[d])
      PROVE  ReplyOK(t, d, t.replies[d][k])
  <2>1. \/ k \in 1..Len(s.replies[d]) /\ t.replies[d][k] = s.replies[d][k]
        \/ d = c /\ t.replies[d][k] = m
    <3>1. CASE t.replies = s.replies
      BY <1>2, <3>1
    <3>2. CASE c \in Clients /\ t.replies = [s.replies EXCEPT ![c] = Append(@, m)]
      <4>1. \A e \in Clients : \A l \in 1..Len([s.replies EXCEPT ![c] = Append(@, m)][e]) :
              \/ /\ l \in 1..Len(s.replies[e])
                 /\ [s.replies EXCEPT ![c] = Append(@, m)][e][l] = s.replies[e][l]
              \/ e = c /\ [s.replies EXCEPT ![c] = Append(@, m)][e][l] = m
        BY <1>1, <3>2, QueuedReply
      <4> QED BY <1>2, <3>2, <4>1
    <3> QED BY <3>1, <3>2
  <2>2. CASE k \in 1..Len(s.replies[d]) /\ t.replies[d][k] = s.replies[d][k]
    <3>1. PICK x : x = s.replies[d][k] /\ ReplyOK(s, d, x)
      BY <2>2 DEF Answered
    <3>2. Done(t, d, x.timestamp, x.result)
      BY <1>1, <3>1, DoneStays DEF ReplyOK
    <3>3. x.replica_id = t.id
      BY <3>1 DEF ReplyOK, Grows
    <3> QED BY <2>2, <3>1, <3>2, <3>3 DEF ReplyOK
  <2> QED BY <2>1, <2>2
<1>3. ASSUME NEW d \in DOMAIN t.last_replies
      PROVE  Done(t, d, t.last_replies[d].timestamp, t.last_replies[d].result)
  <2>1. \/ d \in DOMAIN s.last_replies /\ t.last_replies[d] = s.last_replies[d]
        \/ /\ d = c /\ t.last_replies[d].timestamp = m.timestamp
           /\ t.last_replies[d].result = m.result
    BY SMTT(30), <1>3, StoredReply
  <2>2. CASE d \in DOMAIN s.last_replies /\ t.last_replies[d] = s.last_replies[d]
    <3>1. Done(s, d, s.last_replies[d].timestamp, s.last_replies[d].result)
      BY <2>2 DEF Answered
    <3> QED BY <1>1, <2>2, <3>1, DoneStays
  <2>3. Done(t, c, m.timestamp, m.result)
    BY DEF ReplyOK
  <2> QED BY <2>1, <2>2, <2>3
<1> QED
  BY <1>2, <1>3 DEF Answered

-----------------------------------------------------------------------------
(* Execution. *)

\* manage_timer changes the timer only, also in the middle of a round.
LEMMA ManageTimerFields ==
  ASSUME NEW s, DOMAIN s = NodeFields
  PROVE  SameExcept(s, manage_timer(s), {"timer", "timer_running"})
BY DEF manage_timer, stop_timer, start_timer_if_not_running, SameExcept, NodeFields

\* So does make_checkpoint its checkpoints and what it sends.
LEMMA MakeCheckpointFields ==
  ASSUME NEW s, DOMAIN s = NodeFields
  PROVE  SameExcept(s, make_checkpoint(s), {"checkpoints", "out"})
BY DEF make_checkpoint, broadcast, SameExcept, NodeFields

\* A round tells the client of the request it executes what the service
\* answered, and remembers it.
LEMMA ExecuteNextReplies ==
  ASSUME NEW s, Local(s), CanExecute(s)
  PROVE  LET t == ExecuteNext(s)
         IN  \E m, c :
               /\ t.replies = IF c \in Clients
                              THEN [s.replies EXCEPT ![c] = Append(@, m)]
                              ELSE s.replies
               /\ t.last_replies = Put(s.last_replies, c,
                    [timestamp |-> m.timestamp, result |-> m.result])
               /\ ReplyOK(t, c, m)
               /\ Local(t) /\ Grows(s, t)
<1> USE SMTT(30)
<1> DEFINE e == s.reqlog[s.last_exec + 1]
           done == [s EXCEPT !.last_exec = @ + 1,
                             !.executed =
                               Append(@, [req |-> e.req, digest |-> e.digest])]
           result == get_checkpoint_digest(done)
           c == e.req.client_id
           m == ReplyMsg(s.view, e.req.timestamp, c, s.id, result)
           told == send_to_client(done, c, m)
           cached == [told EXCEPT !.last_replies =
                        Put(@, c, [timestamp |-> e.req.timestamp,
                                   result |-> result])]
           u == manage_timer(cached)
           t == ExecuteNext(s)
<1>1. t = IF u.last_exec % K = 0 THEN make_checkpoint(u) ELSE u
  BY DEF ExecuteNext
<1>2. /\ SameExcept(s, done, {"last_exec", "executed"})
      /\ done.executed = Append(s.executed, [req |-> e.req, digest |-> e.digest])
  BY Zenon DEF Local, IsNode, NodeFields, SameExcept
<1>3. m.timestamp = e.req.timestamp /\ m.result = result /\ m.replica_id = s.id
  BY DEF ReplyMsg
<1> HIDE DEF e, done, m
<1>4. /\ SameExcept(done, told, {"replies"})
      /\ told.replies = IF c \in Clients THEN [s.replies EXCEPT ![c] = Append(@, m)]
                        ELSE s.replies
  <2>1. DOMAIN done = NodeFields /\ done.replies = s.replies
    BY <1>2 DEF SameExcept, NodeFields
  <2>2. CASE c \in Clients
    <3>1. told = [done EXCEPT !.replies[c] = Append(@, m)]
      BY <2>2 DEF send_to_client
    <3> HIDE DEF told, c
    <3> QED BY <2>1, <2>2, <3>1 DEF SameExcept, NodeFields
  <2>3. CASE c \notin Clients
    <3>1. told = done
      BY <2>3 DEF send_to_client
    <3> QED BY Zenon, <2>1, <2>3, <3>1 DEF SameExcept
  <2> QED BY Zenon, <2>2, <2>3
<1> HIDE DEF told, result, c
<1>5. /\ SameExcept(told, cached, {"last_replies"})
      /\ cached.last_replies = Put(s.last_replies, c,
           [timestamp |-> m.timestamp, result |-> m.result])
  BY <1>2, <1>3, <1>4 DEF SameExcept, NodeFields
<1> HIDE DEF cached
<1>6. SameExcept(cached, u, {"timer", "timer_running"})
  BY <1>5, ManageTimerFields DEF SameExcept
<1> HIDE DEF u
<1>7. SameExcept(u, t, {"checkpoints", "out"})
  BY <1>1, <1>6, MakeCheckpointFields DEF SameExcept
<1>8. Local(t) /\ SameExcept(s, t, TryExecuteFields)
  BY ExecuteRoundLocal DEF ExecuteRound
<1> HIDE DEF t
<1>9. /\ t.executed = done.executed /\ t.replies = told.replies
      /\ t.last_replies = cached.last_replies
  BY ZenonT(40), <1>4, <1>5, <1>6, <1>7 DEF SameExcept, NodeFields
<1>10. /\ s.executed \in Seq([req : Request, digest : Digest])
       /\ Len(s.executed) \in Nat
       /\ [req |-> e.req, digest |-> e.digest] \in [req : Request, digest : Digest]
  <2>1. e \in Entry
    BY DEF CanExecute, Local, IsNode, IsMap, e
  <2> QED BY ZenonT(40), <2>1 DEF Entry, Local, IsNode
<1>11. /\ Len(t.executed) = Len(s.executed) + 1
       /\ t.executed[Len(t.executed)] = [req |-> e.req, digest |-> e.digest]
       /\ \A k \in 1..Len(s.executed) : t.executed[k] = s.executed[k]
  BY <1>2, <1>9, <1>10
<1>12. Grows(s, t)
  <2>1. t.id = s.id /\ t.voted = s.voted
    BY <1>8 DEF SameExcept, NodeFields, TryExecuteFields, ExecuteFields
  <2> QED BY <1>10, <1>11, <2>1 DEF Grows
<1>13. Done(t, c, m.timestamp, m.result)
  <2>1. m.result = ServiceState(t, Len(t.executed))
    BY Zenon, <1>3, <1>9 DEF result, get_checkpoint_digest, ServiceState
  <2>2. Len(t.executed) \in 1..Len(t.executed)
    BY <1>10, <1>11
  <2>3. t.executed[Len(t.executed)].req = e.req
    BY <1>11
  <2> QED BY Zenon, <1>3, <2>1, <2>2, <2>3 DEF Done, c
<1>13a. ReplyOK(t, c, m)
  BY Zenon, <1>3, <1>12, <1>13 DEF ReplyOK, Grows
<1>14. t.replies = (IF c \in Clients THEN [s.replies EXCEPT ![c] = Append(@, m)]
                    ELSE s.replies)
  BY Zenon, <1>4, <1>9
<1>15. t.last_replies = Put(s.last_replies, c,
         [timestamp |-> m.timestamp, result |-> m.result])
  BY Zenon, <1>5, <1>9
<1>16. \E x, d : /\ t.replies = IF d \in Clients
                                THEN [s.replies EXCEPT ![d] = Append(@, x)]
                                ELSE s.replies
                 /\ t.last_replies = Put(s.last_replies, d,
                      [timestamp |-> x.timestamp, result |-> x.result])
                 /\ ReplyOK(t, d, x)
                 /\ Local(t) /\ Grows(s, t)
  BY Zenon, <1>8, <1>12, <1>13a, <1>14, <1>15
<1> QED
  BY Zenon, <1>16 DEF t

\* A round of try_execute.
LEMMA ExecuteRoundAnswered ==
  ASSUME NEW s, Local(s), Answered(s)
  PROVE  Answered(ExecuteRound(s))
<1>1. CASE ~CanExecute(s)
  BY SMTT(20), <1>1 DEF ExecuteRound
<1>2. CASE CanExecute(s)
  <2>1. PICK t : t = ExecuteRound(s)
    OBVIOUS
  <2>2. t = ExecuteNext(s)
    BY SMTT(20), <1>2, <2>1 DEF ExecuteRound
  <2>3. PICK m, c :
          /\ t.replies = IF c \in Clients
                         THEN [s.replies EXCEPT ![c] = Append(@, m)] ELSE s.replies
          /\ t.last_replies = Put(s.last_replies, c,
               [timestamp |-> m.timestamp, result |-> m.result])
          /\ ReplyOK(t, c, m)
          /\ Local(t) /\ Grows(s, t)
    BY <1>2, <2>2, ExecuteNextReplies
  <2>4. \/ t.replies = s.replies
        \/ c \in Clients /\ t.replies = [s.replies EXCEPT ![c] = Append(@, m)]
    BY <2>3
  <2> QED BY <2>1, <2>3, <2>4, AnsweredMore
<1> QED
  BY SMTT(20), <1>1, <1>2

\* All of try_execute.
LEMMA TryExecuteAnswered ==
  ASSUME NEW s, Local(s), Answered(s)
  PROVE  Answered(try_execute(s))
<1> USE SMTT(30)
<1>a. PICK n \in Nat : \E r : IsExecution(r, s, n) /\ try_execute(s) = r[n]
  BY TryExecuteRounds
<1>1. PICK r : IsExecution(r, s, n) /\ try_execute(s) = r[n]
  BY <1>a
<1> DEFINE P(m) == Local(r[m]) /\ Answered(r[m])
           T == {m \in Nat : m <= n /\ ~P(m)}
<1>2. SUFFICES ASSUME T # {} PROVE FALSE
  BY <1>1
<1>3. PICK m \in T : \A y \in T : m <= y
  <2>1. T \subseteq Nat
    OBVIOUS
  <2> HIDE DEF T
  <2> QED BY Zenon, <1>2, <2>1, LeastNumber
<1>4. m \in Nat /\ m <= n /\ ~P(m)
  OBVIOUS
<1>5. \A k \in 0..n : r[k] = IF k = 0 THEN s ELSE ExecuteRound(r[k - 1])
  BY <1>1 DEF IsExecution
<1>6. m # 0
  <2>1. r[0] = s
    BY <1>5
  <2> QED BY Zenon, <1>4, <2>1
<1>7. m - 1 \in Nat /\ m - 1 < m /\ m - 1 <= n /\ m \in 0..n
  BY <1>4, <1>6
<1>8. P(m - 1)
  <2> HIDE DEF P
  <2> QED BY <1>3, <1>7
<1>9. r[m] = ExecuteRound(r[m - 1])
  BY <1>5, <1>6, <1>7
<1>10. P(m)
  BY Zenon, <1>8, <1>9, ExecuteRoundLocal, ExecuteRoundAnswered
<1> QED
  BY <1>4, <1>10

-----------------------------------------------------------------------------
(* One lemma per handler. *)

\* try_commit executes, or does nothing.
LEMMA TryCommitAnswered ==
  ASSUME NEW s, Local(s), NEW n \in DOMAIN s.reqlog, Answered(s)
  PROVE  Answered(try_commit(s, n))
<1>1. CASE try_commit(s, n) = s
  BY SMTT(20), <1>1
<1>2. ASSUME NEW t, Local(t), CommittedAt(s, n, t), try_commit(s, n) = try_execute(t)
      PROVE  Answered(try_commit(s, n))
  <2>1. SameExcept(s, t, {"reqlog"})
    BY <1>2 DEF CommittedAt, EntryStored
  <2>2. Answered(t)
    BY SMTT(20), <2>1, AnsweredFrame DEF ReplyFields
  <2> QED BY <1>2, <2>2, TryExecuteAnswered
<1> QED
  BY <1>1, <1>2, TryCommitLocal

\* try_prepare sends a Commit and goes on with try_commit, or does nothing.
LEMMA TryPrepareAnswered ==
  ASSUME NEW s, Local(s), NEW n \in DOMAIN s.reqlog, Answered(s)
  PROVE  Answered(try_prepare(s, n))
<1>1. CASE try_prepare(s, n) = s
  BY SMTT(20), <1>1
<1>2. ASSUME NEW t, Local(t), PreparedAt(s, n, t), NEW w, NEW m \in Message,
             w = broadcast(t, m), n \in DOMAIN w.reqlog,
             try_prepare(s, n) = try_commit(w, n)
      PROVE  Answered(try_prepare(s, n))
  <2>1. SameExcept(s, t, {"reqlog", "voted"})
    BY <1>2 DEF PreparedAt
  <2>2. Answered(t)
    BY SMTT(20), <2>1, AnsweredFrame DEF ReplyFields
  <2>3. Local(w) /\ SameExcept(t, w, {"out"})
    BY <1>2, BroadcastLocal
  <2>4. Answered(w)
    BY ZenonT(40), <2>2, <2>3, AnsweredFrame DEF ReplyFields
  <2> QED BY <1>2, <2>3, <2>4, TryCommitAnswered
<1> QED
  BY <1>1, <1>2, TryPrepareLocal

\* A Commit.
LEMMA OnCommitAnswered ==
  ASSUME NEW s, Local(s), NEW m \in Vote, Answered(s)
  PROVE  Answered(on_commit(s, m))
<1> DEFINE t == on_commit(s, m)
<1>1. CASE EntryStored(s, m.seq_num, At(s.reqlog, m.seq_num, NewEntry), t)
  <2>1. SameExcept(s, t, {"reqlog"})
    BY <1>1 DEF EntryStored
  <2> HIDE DEF t
  <2>2. Answered(t)
    BY SMTT(20), <2>1, AnsweredFrame DEF ReplyFields
  <2> QED BY SMTT(20), <2>2 DEF t
<1>2. ASSUME NEW u, Local(u), CommitCounted(s, m, u), m.seq_num \in DOMAIN u.reqlog,
             t = try_commit(u, m.seq_num)
      PROVE  Answered(t)
  <2>1. SameExcept(s, u, {"reqlog"})
    BY <1>2 DEF CommitCounted, EntryStored
  <2>2. Answered(u)
    BY SMTT(20), <2>1, AnsweredFrame DEF ReplyFields
  <2> QED BY <1>2, <2>2, TryCommitAnswered
<1> QED
  BY <1>1, <1>2, OnCommitLocal

\* A Prepare.
LEMMA OnPrepareAnswered ==
  ASSUME NEW s, Local(s), NEW m \in Vote, NEW src, Answered(s)
  PROVE  Answered(on_prepare(s, m, src))
<1> DEFINE t == on_prepare(s, m, src)
<1>1. ASSUME NEW u, Local(u), PrepareCounted(s, m, u), m.seq_num \in DOMAIN u.reqlog,
             t = try_prepare(u, m.seq_num)
      PROVE  Answered(t)
  <2>1. SameExcept(s, u, {"reqlog"})
    BY <1>1 DEF PrepareCounted, EntryStored
  <2>2. Answered(u)
    BY SMTT(20), <2>1, AnsweredFrame DEF ReplyFields
  <2> QED BY <1>1, <2>2, TryPrepareAnswered
<1> QED
  BY <1>1, OnPrepareLocal

\* A PrePrepare, on its own or of a NewView.
LEMMA OnPrePrepareImplAnswered ==
  ASSUME NEW s, Local(s), NEW m \in PrePrepare, Answered(s)
  PROVE  Answered(on_preprepare_impl(s, m))
<1> DEFINE t == on_preprepare_impl(s, m)
<1>1. ASSUME NEW u, Local(u), PrePrepareStored(s, m, u), NEW w, NEW p \in Message,
             w = broadcast(u, p), m.seq_num \in DOMAIN w.reqlog,
             t = try_prepare(w, m.seq_num)
      PROVE  Answered(t)
  <2>1. SameExcept(s, u, {"timer", "timer_running", "reqlog"})
    BY <1>1 DEF PrePrepareStored
  <2>2. Answered(u)
    BY SMTT(20), <2>1, AnsweredFrame DEF ReplyFields
  <2>3. Local(w) /\ SameExcept(u, w, {"out"})
    BY <1>1, BroadcastLocal
  <2>4. Answered(w)
    BY SMTT(20), <2>2, <2>3, AnsweredFrame DEF ReplyFields
  <2> QED BY <1>1, <2>3, <2>4, TryPrepareAnswered
<1> QED
  BY <1>1, OnPrePrepareImplLocal

\* A request: a repeated one is answered from last_replies_.
LEMMA OnRequestAnswered ==
  ASSUME NEW s, Local(s), NEW m \in Request, Answered(s)
  PROVE  Answered(on_request(s, m))
<1> DEFINE c == m.client_id
           reply == ReplyMsg(s.view, m.timestamp, c, s.id, s.last_replies[c].result)
<1>1. CASE AlreadyReplied(s, m)
  <2>1. PICK t : t = on_request(s, m)
    OBVIOUS
  <2>2. t = send_to_client(s, c, reply)
    BY <1>1, <2>1 DEF on_request
  <2>3. Local(t)
    BY <2>1, OnRequestLocal
  <2>4. /\ reply.timestamp = m.timestamp /\ reply.result = s.last_replies[c].result
        /\ reply.replica_id = s.id
    BY ZenonT(40) DEF ReplyMsg
  <2>5. DOMAIN s = NodeFields /\ Len(s.executed) \in Nat
    BY ZenonT(40) DEF Local, IsNode
  <2> HIDE DEF reply
  <2>6. /\ SameExcept(s, t, {"replies"})
        /\ \/ t.replies = s.replies
           \/ c \in Clients /\ t.replies = [s.replies EXCEPT ![c] = Append(@, reply)]
    BY ZenonT(40), <2>2, <2>5 DEF send_to_client, SameExcept, NodeFields
  <2>7. /\ t.executed = s.executed /\ t.id = s.id /\ t.voted = s.voted
        /\ t.last_replies = s.last_replies
    BY SMTT(20), <2>6 DEF SameExcept, NodeFields
  <2>8. Grows(s, t)
    BY SMTT(20), <2>5, <2>7 DEF Grows
  <2>9. ReplyOK(t, c, reply)
    <3>1. Done(s, c, s.last_replies[c].timestamp, s.last_replies[c].result)
      BY <1>1 DEF Answered, AlreadyReplied
    <3>2. Done(s, c, reply.timestamp, reply.result)
      BY <1>1, <2>4, <3>1 DEF AlreadyReplied
    <3>3. Done(t, c, reply.timestamp, reply.result)
      BY <2>7, <3>2, SameDone
    <3> QED BY <2>4, <2>7, <3>3 DEF ReplyOK
  <2> HIDE DEF c
  <2>10. Answered(t)
    BY <2>3, <2>6, <2>7, <2>8, <2>9, AnsweredMore
  <2> QED BY SMTT(20), <2>1, <2>10
<1>2. CASE ~AlreadyReplied(s, m)
  <2>1. CASE s.view_changing
    BY SMTT(20), <1>2, <2>1 DEF on_request
  <2>2. CASE ~s.view_changing /\ ~is_primary(s)
    <3>1. on_request(s, m)
            = send_to_replica(start_timer_if_not_running(s), primary(s), m)
      BY <1>2, <2>2 DEF on_request
    <3>2. PICK u : u = start_timer_if_not_running(s)
      OBVIOUS
    <3>3. Local(u) /\ SameExcept(s, u, {"timer", "timer_running"})
      BY <3>2, StartTimerLocal
    <3>4. primary(s) \in Replicas /\ m \in Message
      BY ZenonT(40), PrimaryIsReplica DEF Local, IsNode, Message
    <3>5. SameExcept(u, send_to_replica(u, primary(s), m), {"out"})
      BY <3>3, <3>4, SendToReplicaLocal
    <3>6. Answered(u)
      BY SMTT(20), <3>3, AnsweredFrame DEF ReplyFields
    <3>7. Answered(send_to_replica(u, primary(s), m))
      BY SMTT(20), <3>5, <3>6, AnsweredFrame DEF ReplyFields
    <3> QED BY <3>1, <3>2, <3>7
  <2>3. CASE ~s.view_changing /\ is_primary(s)
    <3>1. CASE s.seq_num < s.h \/ s.seq_num >= H(s) \/ InProgress(s, m)
      <4>1. on_request(s, m) = s
        BY <1>2, <2>3, <3>1 DEF on_request
      <4> QED BY SMTT(20), <4>1
    <3>2. CASE ~(s.seq_num < s.h \/ s.seq_num >= H(s) \/ InProgress(s, m))
      <4>1. on_request(s, m) = AssignSequence(s, m)
        BY <1>2, <2>3, <3>2 DEF on_request
      <4>2. PICK u : /\ Local(u) /\ SequenceAssigned(s, m, u)
                     /\ OwnPrePrepare(s, m) \in Message
                     /\ AssignSequence(s, m) = broadcast(u, OwnPrePrepare(s, m))
        BY <2>3, <3>2, AssignSequenceLocal
      <4>3. SameExcept(s, u, {"seq_num", "reqlog"})
        BY <4>2 DEF SequenceAssigned
      <4>4. Answered(u)
        BY SMTT(20), <4>3, AnsweredFrame DEF ReplyFields
      <4>5. PICK w : w = broadcast(u, OwnPrePrepare(s, m))
        OBVIOUS
      <4>6. SameExcept(u, w, {"out"})
        BY <4>2, <4>5, BroadcastLocal
      <4>7. Answered(w)
        BY ZenonT(40), <4>4, <4>6, AnsweredFrame DEF ReplyFields
      <4> QED BY <4>1, <4>2, <4>5, <4>7
    <3> QED BY <3>1, <3>2
  <2> QED BY <2>1, <2>2, <2>3
<1> QED
  BY <1>1, <1>2

\* A Checkpoint: garbage collection keeps the replies.
LEMMA OnCheckpointAnswered ==
  ASSUME NEW s, Local(s), NEW m \in CheckpointVote, Answered(s)
  PROVE  Answered(on_checkpoint(s, m))
<1>1. PICK t : t = on_checkpoint(s, m)
  OBVIOUS
<1> DEFINE F == {"checkpoints", "h", "seq_num", "reqlog", "last_stable_digest"}
<1>2. t = s \/ SameExcept(s, t, {"checkpoints"}) \/ SameExcept(s, t, F)
  BY <1>1, OnCheckpointLocal DEF BecameStable
<1>3. SameExcept(s, t, {"checkpoints"}) => Answered(t)
  BY SMTT(20), AnsweredFrame DEF ReplyFields
<1>4. SameExcept(s, t, F) => Answered(t)
  BY SMTT(20), AnsweredFrame DEF ReplyFields
<1> QED
  BY <1>1, <1>2, <1>3, <1>4

\* A ViewChange, and the expiry of the timer.
LEMMA ViewAnswered ==
  ASSUME NEW s, NEW t, SameExcept(s, t, ViewFields), Answered(s)
  PROVE  Answered(t)
BY SMTT(20), AnsweredFrame DEF ViewFields, ReplyFields

\* A NewView: every PrePrepare in it may lead to executions.
LEMMA OnNewViewAnswered ==
  ASSUME NEW s, Local(s), NEW m \in NewView, NEW src, Answered(s)
  PROVE  Answered(on_newview(s, m, src))
<1>0. PICK t, O, v : t = on_newview(s, m, src) /\ O = m.pre_prepares /\ v = m.next_view
  OBVIOUS
<1>1. O \in Seq(PrePrepare) /\ v \in Nat
  BY SMTT(20), <1>0 DEF NewView
<1>2. ASSUME NEW r, IsInstallation(r, EnterView(s, v), O, Len(O)), t = Settle(r[Len(O)])
      PROVE  Answered(t)
  <2>1. PICK w : w = EnterView(s, v)
    OBVIOUS
  <2>2. /\ Local(w)
        /\ SameExcept(s, w, {"view", "view_changing", "view_change_timeout_count"})
    BY <1>1, <2>1, EnterViewLocal
  <2>3. Answered(w)
    BY SMTT(20), <2>2, AnsweredFrame DEF ReplyFields
  <2>4. IsInstallation(r, w, O, Len(O))
    BY <1>2, <2>1
  <2>5. \A k \in 0..Len(O) : Local(r[k])
    BY <1>1, <2>2, <2>4, InstallationLocal
  <2> DEFINE T == {k \in 0..Len(O) : ~Answered(r[k])}
  <2>6. T = {}
    <3> SUFFICES ASSUME T # {} PROVE FALSE
      OBVIOUS
    <3>1. PICK k \in T : \A y \in T : k <= y
      <4>1. T \subseteq Nat
        BY SMTT(20)
      <4> HIDE DEF T
      <4> QED BY <4>1, LeastNumber
    <3>2. \A l \in 0..Len(O) : r[l] = IF l = 0 THEN w ELSE on_preprepare_impl(r[l - 1], O[l])
      BY SMTT(20), <2>4 DEF IsInstallation
    <3>3. k \in 0..Len(O) /\ ~Answered(r[k])
      OBVIOUS
    <3>4. r[0] = w
      BY SMTT(20), <1>1, <3>2
    <3>5. k # 0
      BY <2>3, <3>3, <3>4
    <3>6. k - 1 \in 0..Len(O) /\ k - 1 < k /\ k \in 1..Len(O)
      BY SMTT(20), <1>1, <3>3, <3>5
    <3>7. Answered(r[k - 1])
      BY SMTT(20), <3>1, <3>6
    <3>8. r[k] = on_preprepare_impl(r[k - 1], O[k]) /\ O[k] \in PrePrepare
      BY SMTT(20), <1>1, <3>2, <3>5, <3>6
    <3>9. Local(r[k - 1])
      BY <2>5, <3>6
    <3> QED BY <3>3, <3>7, <3>8, <3>9, OnPrePrepareImplAnswered
  <2>7. Len(O) \in 0..Len(O)
    BY SMTT(20), <1>1
  <2>8. Answered(r[Len(O)])
    BY SMTT(20), <2>6, <2>7
  <2>9. SameExcept(r[Len(O)], t, {"seq_num", "timer", "timer_running"})
    BY <1>2, <2>5, <2>7, SettleLocal
  <2> QED BY SMTT(20), <2>8, <2>9, AnsweredFrame DEF ReplyFields
<1> QED
  BY <1>0, <1>2, OnNewViewLocal

\* Every handler.
LEMMA HandleAnswered ==
  ASSUME NEW s, Local(s), NEW m \in Message, NEW src, Answered(s)
  PROVE  Local(Handle(s, m, src)) /\ Answered(Handle(s, m, src))
<1>1. CASE m \in Request
  <2>1. Handle(s, m, src) = on_request(s, m)
    BY SMTT(20), <1>1 DEF Handle, Request
  <2> QED BY <1>1, <2>1, OnRequestLocal, OnRequestAnswered
<1>2. CASE m \in PrePrepare
  <2>1. Handle(s, m, src) = on_preprepare(s, m, src)
    BY SMTT(20), <1>2 DEF Handle, PrePrepare
  <2> QED BY <1>2, <2>1, OnPrePrepareImplLocal, OnPrePrepareImplAnswered
              DEF on_preprepare
<1>3. CASE m \in Vote /\ m.type = "prepare"
  <2>1. Handle(s, m, src) = on_prepare(s, m, src)
    BY SMTT(20), <1>3 DEF Handle
  <2> QED BY <1>3, <2>1, OnPrepareLocal, OnPrepareAnswered
<1>4. CASE m \in Vote /\ m.type = "commit"
  <2>1. Handle(s, m, src) = on_commit(s, m)
    BY SMTT(20), <1>4 DEF Handle
  <2> QED BY <1>4, <2>1, OnCommitLocal, OnCommitAnswered
<1>5. CASE m \in CheckpointVote
  <2>1. Handle(s, m, src) = on_checkpoint(s, m)
    BY SMTT(20), <1>5 DEF Handle, CheckpointVote
  <2> QED BY <1>5, <2>1, OnCheckpointLocal, OnCheckpointAnswered
<1>6. CASE m \in ViewChange
  <2>1. Handle(s, m, src) = on_viewchange(s, m)
    BY SMTT(20), <1>6 DEF Handle, ViewChange
  <2> QED BY <1>6, <2>1, OnViewChangeLocal, ViewAnswered
<1>7. CASE m \in NewView
  <2>1. Handle(s, m, src) = on_newview(s, m, src)
    BY SMTT(20), <1>7 DEF Handle, NewView
  <2> QED BY <1>7, <2>1, OnNewViewLocal, OnNewViewAnswered
<1>8. m \in Vote => m.type \in {"prepare", "commit"}
  BY SMTT(20) DEF Vote
<1> QED
  BY <1>1, <1>2, <1>3, <1>4, <1>5, <1>6, <1>7, <1>8 DEF Message

\* A node that is faulty takes no step.
LEMMA FaultyIdle ==
  ASSUME WellFormed, [Next]_vars, NEW i \in Faulty
  PROVE  node'[i].replies = node[i].replies
<1>1. i \in Replicas /\ i \notin Correct
  BY ClusterAssumption DEF Correct
<1>2. Turn(i, node'[i])
  BY <1>1, NextTurns
<1>3. Shrunk(node[i], node'[i])
  BY <1>1, <1>2 DEF Turn
<1> QED
  BY SMTT(20), <1>3 DEF Shrunk, SameExcept, NodeFields

\* The first reply to a client is about an execution.
LEMMA FirstReply ==
  ASSUME NEW s, Local(s), Answered(s), NEW c \in Clients, s.replies[c] # <<>>
  PROVE  ReplyOK(s, c, Head(s.replies[c]))
<1>1. s.replies[c] \in Seq(Reply)
  BY ZenonT(40) DEF Local, IsNode
<1>2. 1 \in 1..Len(s.replies[c]) /\ Head(s.replies[c]) = s.replies[c][1]
  BY SMTT(20), <1>1
<1> QED
  BY <1>2 DEF Answered

\* The replicas are finitely many, and no more than f of them are faulty.
LEMMA Replication ==
  /\ f \in Nat /\ Cardinality(Faulty) \in Nat /\ Cardinality(Faulty) <= f
  /\ \A R : R \subseteq Replicas => IsFiniteSet(R) /\ Cardinality(R) \in Nat
<1> USE SMTT(30)
<1>1. IsFiniteSet(Replicas) /\ N \in Nat /\ f \in Nat
  BY ConstantTypes
<1>2. \A R : R \subseteq Replicas => IsFiniteSet(R) /\ Cardinality(R) \in Nat
  BY <1>1, FS_Subset, FS_CardinalityType
<1>3. Cardinality(Faulty) \in Nat
  BY Zenon, <1>2, ClusterAssumption
<1>4. N >= 3 * f + 1
  BY <1>1, ConfigAssumption DEF f
<1> QED
  BY <1>1, <1>2, <1>3, <1>4, QuorumAssumption

\* f + 1 replicas, less the faulty ones, are correct.
LEMMA Outvoted ==
  ASSUME NEW D, D \subseteq Correct, NEW B, B \subseteq Faulty \cup D,
         Cardinality(B) >= f + 1
  PROVE  Cardinality(D) >= f + 1 - Cardinality(Faulty) /\ D # {}
<1>1. /\ D \subseteq Replicas /\ Faulty \subseteq Replicas /\ Faulty \cap D = {}
      /\ Faulty \cup D \subseteq Replicas /\ B \subseteq Replicas
  BY ClusterAssumption DEF Correct
<1>2. /\ IsFiniteSet(D) /\ IsFiniteSet(Faulty) /\ IsFiniteSet(Faulty \cup D)
      /\ Cardinality(D) \in Nat /\ Cardinality(B) \in Nat
      /\ Cardinality(Faulty \cup D) \in Nat
      /\ Cardinality(Faulty) \in Nat /\ Cardinality(Faulty) <= f /\ f \in Nat
  BY <1>1, Replication
<1>3. Cardinality(B) <= Cardinality(Faulty \cup D)
  BY ZenonT(40), <1>2, FS_Subset
<1>4. Cardinality(Faulty \cup D) <= Cardinality(Faulty) + Cardinality(D)
  <2>1. Cardinality(Faulty \cap D) \in Nat
    BY <1>1, Replication
  <2>2. Cardinality(Faulty \cup D) =
          Cardinality(Faulty) + Cardinality(D) - Cardinality(Faulty \cap D)
    BY <1>2, FS_Union
  <2> QED BY SMTT(20), <1>2, <2>1, <2>2
<1>5. Cardinality(D) >= f + 1 - Cardinality(Faulty) /\ Cardinality(D) > 0
  BY SMTT(20), <1>2, <1>3, <1>4
<1>6. D # {}
  BY SMTT(20), <1>5, FS_EmptySet
<1> QED
  BY <1>5, <1>6

\* Client a takes a reply, and nothing else of the node changes.
LEMMA ReplyTaken ==
  ASSUME NEW s, Local(s), Answered(s), NEW a \in Clients, s.replies[a] # <<>>
  PROVE  LET t == [s EXCEPT !.replies[a] = Tail(s.replies[a])]
         IN  Local(t) /\ Answered(t) /\ SameExcept(s, t, {"replies"})
<1>0. PICK t, q : q = Tail(s.replies[a]) /\ t = [s EXCEPT !.replies[a] = q]
  OBVIOUS
<1>1. s.replies \in [Clients -> Seq(Reply)] /\ DOMAIN s = NodeFields
  BY DEF Local, IsNode
<1>2. SameExcept(s, t, {"replies"}) /\ t.replies = [s.replies EXCEPT ![a] = q]
  BY ZenonT(40), <1>0, <1>1 DEF SameExcept, NodeFields
<1>3. q \in Seq(Reply) /\ \A k \in 1..Len(q) : /\ k + 1 \in 1..Len(s.replies[a])
                                               /\ q[k] = s.replies[a][k + 1]
  <2>1. s.replies[a] \in Seq(Reply)
    BY SMTT(20), <1>1
  <2> QED BY SMTT(20), <1>0, <2>1
<1>4. t.replies \in [Clients -> Seq(Reply)]
  <2>1. q \in Seq(Reply)
    BY <1>3
  <2>2. \A S, g : g \in [Clients -> S] /\ q \in S => [g EXCEPT ![a] = q] \in [Clients -> S]
    OBVIOUS
  <2> QED BY <1>1, <1>2, <2>1, <2>2
<1>5. IsNode(t)
  BY ZenonT(40), <1>2, <1>4 DEF Local, IsNode, SameExcept, NodeFields
<1>6. Local(t)
  <2>1. SameExcept(s, t, Loose)
    BY SMTT(20), <1>2 DEF SameExcept, Loose
  <2> QED BY <1>5, <2>1, LocalFrame
<1>7. /\ t.id = s.id /\ t.executed = s.executed /\ t.last_replies = s.last_replies
  BY SMTT(20), <1>2 DEF SameExcept, NodeFields
<1>8. \A c \in Clients : \A k \in 1..Len(t.replies[c]) :
        \E l \in 1..Len(s.replies[c]) : t.replies[c][k] = s.replies[c][l]
  <2> SUFFICES ASSUME NEW c \in Clients, NEW k \in 1..Len(t.replies[c])
               PROVE  \E l \in 1..Len(s.replies[c]) : t.replies[c][k] = s.replies[c][l]
    OBVIOUS
  <2>1. CASE c = a
    <3>1. t.replies[c] = q
      BY ZenonT(40), <1>1, <1>2, <2>1
    <3> QED BY <1>3, <2>1, <3>1
  <2>2. CASE c # a
    <3>1. t.replies[c] = s.replies[c]
      BY ZenonT(40), <1>1, <1>2, <2>2
    <3> QED BY <3>1
  <2> QED BY <2>1, <2>2
<1>9. \A c, m : ReplyOK(s, c, m) => ReplyOK(t, c, m)
  BY <1>7, SameDone DEF ReplyOK
<1>10. \A c \in Clients : \A k \in 1..Len(t.replies[c]) : ReplyOK(t, c, t.replies[c][k])
  BY <1>8, <1>9 DEF Answered
<1>11. \A c \in DOMAIN t.last_replies :
         Done(t, c, t.last_replies[c].timestamp, t.last_replies[c].result)
  BY <1>7, SameDone DEF Answered
<1>12. Answered(t)
  BY <1>10, <1>11 DEF Answered
<1> QED
  BY <1>0, <1>2, <1>6, <1>12

-----------------------------------------------------------------------------
(* Replies. *)

\* A node that runs a handler.
LEMMA RunsAnswered ==
  ASSUME NEW i, Local(node[i]), Answered(node[i]), NEW t, Runs(i, t)
  PROVE  Answered(t)
<1>1. ASSUME NEW src \in Replicas, NEW m \in Message, t = Handle(node[i], m, src)
      PROVE  Answered(t)
  BY <1>1, HandleAnswered
<1>2. ASSUME NEW req \in Request, t = on_request(node[i], req) PROVE Answered(t)
  BY <1>2, OnRequestAnswered
<1>3. ASSUME node[i].timer # Off, t = start_view_change(node[i]) PROVE Answered(t)
  <2>1. SameExcept(node[i], t, ViewFields)
    BY <1>3, StartViewChangeLocal
  <2> QED BY <2>1, ViewAnswered
<1> QED
  BY <1>1, <1>2, <1>3 DEF Runs

\* A new node has told clients nothing.
LEMMA FirstAnswered ==
  ASSUME Init, NEW i \in Replicas
  PROVE  Answered(node[i])
<1>1. Fresh(node[i], i)
  BY FirstNodes
<1>2. /\ node[i].last_replies = EmptyMap
      /\ node[i].replies = [c \in Clients |-> <<>>]
  BY <1>1 DEF Fresh
<1> QED
  BY SMTT(20), <1>2 DEF Answered, EmptyMap

\* A step of the cluster.
LEMMA NextAnswered ==
  ASSUME WellFormed, [Next]_vars, NEW i \in Replicas, Answered(node[i])
  PROVE  Answered(node'[i])
<1>1. Local(node[i])
  BY DEF WellFormed
<1>2. PICK t : Shrunk(t, node'[i]) /\ (t = node[i] \/ Runs(i, t))
  BY NextTurns DEF Turn
<1>3. Answered(t)
  BY <1>1, <1>2, RunsAnswered
<1>4. SameExcept(t, node'[i], {"out"}) /\ {"out"} \cap ReplyFields = {}
  BY SMTT(20), <1>2 DEF Shrunk, ReplyFields
<1> QED
  BY <1>3, <1>4, AnsweredFrame

\* What a correct node has sent to clients is its own and was executed, and so was
\* what it keeps in last_replies_ to send again: the inductive invariant behind
\* ReplyIsExecution (try_execute, on_request).
THEOREM AnswersKept == Spec => []AllAnswered
<1>1. Init => AllAnswered
  BY FirstAnswered DEF AllAnswered, Correct
<1>2. WellFormed /\ AllAnswered /\ [Next]_vars => AllAnswered'
  BY NextAnswered DEF AllAnswered, Correct
<1> QED
  BY <1>1, <1>2, AlwaysWellFormed, PTL DEF Spec

\* Every reply a correct node sends, first or repeated, carries the result of an
\* execution of the request it names, at that node: for any number of replicas,
\* any constants and whatever the faulty replicas send (try_execute, on_request).
THEOREM RepliesExecuted == Spec => []ReplyIsExecution
<1>1. AllAnswered => ReplyIsExecution
  <2>1. ASSUME AllAnswered, NEW i \in Correct, NEW c \in Clients,
               NEW k \in 1..Len(node[i].replies[c])
        PROVE  Done(node[i], c, node[i].replies[c][k].timestamp,
                    node[i].replies[c][k].result)
    BY <2>1 DEF AllAnswered, Answered, ReplyOK
  <2> QED BY <2>1 DEF ReplyIsExecution, Done
<1> QED
  BY <1>1, AnswersKept, PTL


=============================================================================
