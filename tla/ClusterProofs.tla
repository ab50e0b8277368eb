--------------------------- MODULE ClusterProofs ----------------------------
(***************************************************************************)
(* IndInv is an inductive invariant of the cluster, and what follows; the  *)
(* cluster implements ReplicatedLog.                                       *)
(***************************************************************************)
EXTENDS ClusterLog, SafeProofs

\* The prover, unless a proof or a step names another.
USE SMTT(30)

\* What IndInv says of the nodes.
NodesOK(nd) ==
  /\ nd = [i \in Replicas |-> nd[i]]
  /\ \A i \in Replicas : Local(nd[i]) /\ nd[i].id = i
  /\ \A i \in Correct : Safe(nd[i], nd, Correct)
  /\ \A i \in Faulty, j \in Replicas : nd[i].out[j] = <<>>

\* IndInv, with what it says of the nodes set apart.
LEMMA IndInvNodes ==
  IndInv <=> /\ NodesOK(node)
             /\ up \subseteq Correct
             /\ unsent \in [Replicas -> Seq(Request)]
             /\ retries \in Nat /\ timeouts \in Nat /\ faults \in Nat
BY DEF IndInv, TypeOK, NodesOK, Local

\* Any two quorums have a correct replica in common.
LEMMA QuorumsIntersect ==
  ASSUME NEW Q1 \in SUBSET Replicas, NEW Q2 \in SUBSET Replicas,
         Cardinality(Q1) >= 2 * f + 1, Cardinality(Q2) >= 2 * f + 1
  PROVE  \E q \in Q1 \cap Q2 : q \in Correct
<1>1. IsFiniteSet(Replicas) /\ Cardinality(Replicas) = N /\ N \in Nat /\ f \in Nat
  BY ConstantTypes
<1>2. /\ IsFiniteSet(Q1) /\ IsFiniteSet(Q2) /\ IsFiniteSet(Faulty)
      /\ IsFiniteSet(Q1 \cap Q2)
  BY <1>1, ClusterAssumption, FS_Subset
<1>3. /\ Cardinality(Q1) \in Nat /\ Cardinality(Q2) \in Nat /\ Cardinality(Faulty) \in Nat
      /\ Cardinality(Q1 \cap Q2) \in Nat
  BY <1>2, FS_CardinalityType
<1>4. Cardinality(Q1 \cup Q2) = Cardinality(Q1) + Cardinality(Q2) - Cardinality(Q1 \cap Q2)
  BY <1>2, FS_Union
<1>5. Cardinality(Q1 \cup Q2) <= N /\ Cardinality(Q1 \cup Q2) \in Nat
  <2>1. Q1 \cup Q2 \subseteq Replicas
    OBVIOUS
  <2> QED BY <1>1, <2>1, LargerSet
<1>6. Cardinality(Q1 \cap Q2) > Cardinality(Faulty)
  BY <1>1, <1>3, <1>4, <1>5, QuorumAssumption
<1>7. ~(Q1 \cap Q2 \subseteq Faulty)
  <2> SUFFICES ASSUME Q1 \cap Q2 \subseteq Faulty PROVE FALSE
    OBVIOUS
  <2>1. Cardinality(Q1 \cap Q2) <= Cardinality(Faulty)
    BY <1>2, FS_Subset
  <2> QED BY <1>3, <1>6, <2>1
<1> QED
  BY <1>7 DEF Correct

\* So every quorum has a correct member.
LEMMA CorrectQuorums ==
  QuorumsMeet(Correct)
BY QuorumsIntersect DEF QuorumsMeet

\* A correct node is ready to handle a message.
LEMMA NodeReady ==
  ASSUME NEW nd, NodesOK(nd), NEW i \in Correct
  PROVE  Ready(nd[i], nd, Correct) /\ i \in Replicas /\ nd[i].id = i
<1>1. i \in Replicas
  BY ZenonT(40) DEF Correct
<1>2. Peers(nd[i], nd, Correct)
  <2> SUFFICES ASSUME NEW q \in Correct PROVE Len(nd[q].executed) \in Nat
    BY DEF Peers
  <2>1. Local(nd[q])
    BY DEF NodesOK, Correct
  <2> QED BY ZenonT(40), <2>1 DEF Local, IsNode
<1> QED
  BY <1>1, <1>2 DEF Ready, NodesOK

\* One correct node moves on and its peers stay.
LEMMA Replace ==
  ASSUME NEW nd, NodesOK(nd), NEW j \in Correct, NEW w, Ready(w, nd, Correct),
         Grows(nd[j], w)
  PROVE  NodesOK([nd EXCEPT ![j] = w])
<1> DEFINE nd2 == [nd EXCEPT ![j] = w]
<1>1. /\ DOMAIN nd = Replicas /\ j \in Replicas /\ Correct \subseteq Replicas
      /\ Correct \cap Faulty = {}
  BY DEF NodesOK, Correct
<1>2. /\ nd2 = [i \in Replicas |-> nd2[i]] /\ nd2[j] = w
      /\ \A i \in Replicas \ {j} : nd2[i] = nd[i]
  BY Zenon, <1>1
<1> HIDE DEF nd2
<1>3. w.id = j
  BY NodeReady DEF Grows
<1>4. \A i \in Replicas : Local(nd2[i]) /\ nd2[i].id = i
  BY <1>2, <1>3 DEF Ready, NodesOK
<1>5. \A q \in Correct : Grows(nd[q], nd2[q]) /\ Len(nd2[q].executed) \in Nat
  <2> SUFFICES ASSUME NEW q \in Correct
               PROVE  Grows(nd[q], nd2[q]) /\ Len(nd2[q].executed) \in Nat
    BY Zenon
  <2>1. Len(nd[q].executed) \in Nat /\ Len(nd2[q].executed) \in Nat
    <3>1. Local(nd[q]) /\ Local(nd2[q])
      BY <1>1, <1>4 DEF NodesOK
    <3> QED BY Zenon, <3>1 DEF Local, IsNode
  <2>2. CASE q = j
    BY ZenonT(40), <1>2, <2>1, <2>2
  <2>3. CASE q # j
    BY <1>1, <1>2, <2>1, <2>3 DEF Grows
  <2> QED BY <2>2, <2>3
<1>6. \A i \in Correct : Safe(nd2[i], nd2, Correct)
  <2> SUFFICES ASSUME NEW i \in Correct PROVE Safe(nd2[i], nd2, Correct)
    BY Zenon
  <2>1. CASE i = j
    <3>1. Peers(w, nd2, Correct)
      BY <1>5 DEF Peers
    <3>2. Safe(w, nd2, Correct)
      BY ZenonT(40), <1>5, <3>1, PeersGrow DEF Ready
    <3> QED BY ZenonT(40), <1>2, <2>1, <3>2
  <2>2. CASE i # j
    <3>1. nd2[i] = nd[i] /\ Ready(nd[i], nd, Correct)
      BY ZenonT(40), <1>1, <1>2, <2>2, NodeReady
    <3>2. Peers(nd[i], nd2, Correct)
      BY <1>5 DEF Peers
    <3>3. Safe(nd[i], nd2, Correct)
      BY ZenonT(40), <1>5, <3>1, <3>2, PeersGrow DEF Ready
    <3> QED BY <3>1, <3>3
  <2> QED BY <2>1, <2>2
<1>7. \A i \in Faulty, k \in Replicas : nd2[i].out[k] = <<>>
  <2> SUFFICES ASSUME NEW i \in Faulty, NEW k \in Replicas PROVE nd2[i].out[k] = <<>>
    BY Zenon
  <2>1. i \in Replicas \ {j}
    BY <1>1, ClusterAssumption
  <2>2. nd2[i] = nd[i]
    BY <1>2, <2>1
  <2>3. nd[i].out[k] = <<>>
    BY DEF NodesOK
  <2> QED BY <2>2, <2>3
<1>8. NodesOK(nd2)
  BY ZenonT(40), <1>2, <1>4, <1>6, <1>7 DEF NodesOK
<1> QED
  BY <1>8 DEF nd2

\* A client takes a reply of node i: its peers do not notice.
LEMMA ReplyTakenSafe ==
  ASSUME NEW nd, NodesOK(nd), NEW i \in Correct, NEW t, Local(t),
         SameExcept(nd[i], t, {"replies"})
  PROVE  NodesOK([nd EXCEPT ![i] = t])
<1> USE ZenonT(40)
<1>1. PICK s : s = nd[i]
  OBVIOUS
<1>2. Local(s) /\ Peers(s, nd, Correct) /\ Safe(s, nd, Correct) /\ SameExcept(s, t, {"replies"})
  BY <1>1, NodeReady DEF Ready
<1>3. SameExcept(s, t, Free)
  BY SMTT(20), <1>2 DEF SameExcept, Free
<1>4. Backed(t, nd, Correct) /\ Extended(s, t) /\ Peers(t, nd, Correct)
  BY <1>2, <1>3, FreeBacked DEF Safe
<1>5. t.id = s.id /\ t.view = s.view /\ t.reqlog = s.reqlog /\ t.seq_num = s.seq_num
  BY SMTT(20), <1>2 DEF SameExcept, NodeFields
<1>6. SeqNumOK(t)
  BY SMTT(20), <1>2, <1>5 DEF Safe, SeqNumOK, is_primary, primary
<1>7. Ready(t, nd, Correct) /\ Grows(nd[i], t)
  BY <1>1, <1>4, <1>6 DEF Ready, Safe, Extended
<1> QED
  BY <1>7, Replace

\* Messages are dropped from the connections of a node.
LEMMA Dropped ==
  ASSUME NEW s, NEW t, NEW nd, NEW C, Ready(s, nd, C), SameExcept(s, t, {"out"}),
         t.out \in [Replicas -> Seq(Message)],
         \A j \in Replicas : \A k \in 1..Len(t.out[j]) :
           \E l \in 1..Len(s.out[j]) : t.out[j][k] = s.out[j][l]
  PROVE  Ready(t, nd, C) /\ Extended(s, t) /\ t.reqlog = s.reqlog
<1>1. Local(t)
  <2>1. IsNode(t)
    BY DEF Ready, Local, IsNode, SameExcept, NodeFields
  <2>2. SameExcept(s, t, Loose)
    BY DEF SameExcept, Loose
  <2> QED BY ZenonT(40), <2>1, <2>2, LocalFrame DEF Ready
<1>2. OutOK(s) => \A j \in Replicas : \A k \in 1..Len(t.out[j]) : MessageOK(t.out[j][k], s)
  BY DEF OutOK
<1>3. t.reqlog = s.reqlog
  BY DEF SameExcept, NodeFields
<1> QED
  BY ZenonT(40), <1>1, <1>2, <1>3, OutBacked DEF Ready, Safe

\* What Connected does to one node.
LEMMA ConnectedFields ==
  ASSUME NEW s, Local(s), NEW alive
  PROVE  LET t == Connected(s, alive)
         IN  /\ SameExcept(s, t, {"out"}) /\ Local(t)
             /\ t.out \in [Replicas -> Seq(Message)]
             /\ \A j \in Replicas : t.out[j] = s.out[j] \/ t.out[j] = <<>>
<1> DEFINE t == Connected(s, alive)
<1>0. s.out \in [Replicas -> Seq(Message)] /\ DOMAIN s = NodeFields
  BY DEF Local, IsNode
<1>1. /\ SameExcept(s, t, {"out"})
      /\ t.out = [j \in Replicas |-> IF j \in alive THEN s.out[j] ELSE <<>>]
  BY <1>0 DEF Connected, SameExcept, NodeFields
<1> HIDE DEF t
<1>2. t.out \in [Replicas -> Seq(Message)]
  BY <1>0, <1>1
<1>3. \A j \in Replicas : t.out[j] = s.out[j] \/ t.out[j] = <<>>
  BY ZenonT(40), <1>1
<1>4. IsNode(t)
  BY ZenonT(40), <1>1, <1>2 DEF Local, IsNode, SameExcept, NodeFields
<1>5. SameExcept(s, t, Loose)
  BY <1>1 DEF SameExcept, Loose
<1>6. Local(t)
  BY ZenonT(40), <1>4, <1>5, LocalFrame
<1>7. /\ SameExcept(s, t, {"out"}) /\ Local(t)
      /\ t.out \in [Replicas -> Seq(Message)]
      /\ \A j \in Replicas : t.out[j] = s.out[j] \/ t.out[j] = <<>>
  BY ZenonT(40), <1>1, <1>2, <1>3, <1>6
<1> QED
  BY ZenonT(40), <1>7 DEF t

\* A node that loses connections loses nothing else.
LEMMA ConnectedReady ==
  ASSUME NEW s, NEW nd, NEW C, Ready(s, nd, C), NEW alive
  PROVE  LET t == Connected(s, alive)
         IN  Ready(t, nd, C) /\ Extended(s, t) /\ t.reqlog = s.reqlog
<1> DEFINE t == Connected(s, alive)
<1>1. /\ SameExcept(s, t, {"out"})
      /\ t.out \in [Replicas -> Seq(Message)]
      /\ \A j \in Replicas : t.out[j] = s.out[j] \/ t.out[j] = <<>>
  BY ConnectedFields DEF Ready
<1> HIDE DEF t
<1>3. ASSUME NEW j \in Replicas, NEW k \in 1..Len(t.out[j])
      PROVE  \E l \in 1..Len(s.out[j]) : t.out[j][k] = s.out[j][l]
  <2>1. t.out[j] # <<>>
    BY <1>3
  <2> QED BY ZenonT(40), <1>1, <1>3, <2>1
<1>4. Ready(t, nd, C) /\ Extended(s, t) /\ t.reqlog = s.reqlog
  BY ZenonT(40), <1>1, <1>3, Dropped
<1> QED
  BY <1>4 DEF t

\* What a step does to a correct node, and what it leaves of it alone.
Moves(s, t) == Grows(s, t) /\ Sticky(s, t) /\ OneMove(s, t)
Kept(s, t) == t.executed = s.executed /\ t.h = s.h

\* What every step guarantees: one correct node at most executes or moves its
\* low watermark.
StepOK(nd, nd2) ==
  /\ NodesOK(nd2)
  /\ \A i \in Correct : Moves(nd[i], nd2[i])
  /\ \A i, j \in Correct : i # j => Kept(nd[i], nd2[i]) \/ Kept(nd[j], nd2[j])

\* A node that a step leaves alone.
LEMMA MovesReflexive ==
  ASSUME NEW s, Local(s)
  PROVE  Moves(s, s)
<1>1. Len(s.executed) \in Nat
  BY DEF Local, IsNode
<1> QED
  BY <1>1 DEF Moves, Grows, Sticky, OneMove

\* A step that replaces the node of i.
LEMMA OneNode ==
  ASSUME NEW nd, NodesOK(nd), NEW i \in Correct, NEW t, Moves(nd[i], t),
         NodesOK([nd EXCEPT ![i] = t])
  PROVE  StepOK(nd, [nd EXCEPT ![i] = t])
<1> DEFINE nd2 == [nd EXCEPT ![i] = t]
<1>1. DOMAIN nd = Replicas /\ Correct \subseteq Replicas
  BY DEF NodesOK, Correct
<1>2. nd2[i] = t /\ \A a \in Correct \ {i} : nd2[a] = nd[a]
  BY <1>1
<1> HIDE DEF nd2
<1>3. ASSUME NEW a \in Correct PROVE Moves(nd[a], nd2[a])
  <2>1. Local(nd[a])
    BY <1>1 DEF NodesOK
  <2> QED BY ZenonT(40), <1>2, <2>1, MovesReflexive
<1>4. \A a, b \in Correct : a # b => Kept(nd[a], nd2[a]) \/ Kept(nd[b], nd2[b])
  BY <1>2 DEF Kept
<1> QED
  BY ZenonT(40), <1>3, <1>4 DEF StepOK, nd2

\* Node j runs a handler that leaves it as t.
LEMMA HandlerStep ==
  ASSUME NEW nd, NodesOK(nd), NEW j \in Correct, NEW t, NEW alive,
         Ready(t, nd, Correct), Moves(nd[j], t)
  PROVE  StepOK(nd, [nd EXCEPT ![j] = Connected(t, alive)])
<1> DEFINE w == Connected(t, alive)
           nd2 == [nd EXCEPT ![j] = w]
<1>1. Ready(w, nd, Correct) /\ Extended(t, w) /\ w.reqlog = t.reqlog
  BY ConnectedReady
<1>2. Ready(nd[j], nd, Correct)
  BY NodeReady
<1> HIDE DEF w
<1>3. Moves(nd[j], w)
  <2>1. Grows(nd[j], w)
    BY ZenonT(40), <1>1, <1>2, GrowsTransitive DEF Ready, Extended, Moves
  <2>2. Sticky(nd[j], w)
    BY <1>1 DEF Sticky, Moves
  <2>3. w.h = t.h /\ w.executed = t.executed
    <3>1. SameExcept(t, w, {"out"})
      BY ConnectedFields DEF Ready, w
    <3> QED BY <3>1 DEF SameExcept, NodeFields
  <2>4. OneMove(nd[j], w)
    BY <2>3 DEF OneMove, Moves
  <2> QED BY ZenonT(40), <2>1, <2>2, <2>4 DEF Moves
<1>4. NodesOK(nd2)
  BY ZenonT(40), <1>1, <1>3, Replace DEF Moves
<1> QED
  BY ZenonT(40), <1>3, <1>4, OneNode DEF w

\* Freshly constructed nodes satisfy the invariant.
LEMMA InitNodes == Init => NodesOK(node)
<1> SUFFICES ASSUME Init PROVE NodesOK(node)
  OBVIOUS
<1>1. PICK running \in [Replicas -> TimerInit] :
        node = [i \in Replicas |-> NewNode(i, running[i])]
  BY DEF Init
<1>2. \A i \in Replicas : node[i] = NewNode(i, running[i]) /\ running[i] \in BOOLEAN
  BY <1>1, ClusterAssumption
<1>3. ASSUME NEW i \in Replicas PROVE Fresh(node[i], i)
  BY ZenonT(40), <1>2, NewNodeFields
<1>5. ASSUME NEW i \in Replicas PROVE Local(node[i])
  BY ZenonT(40), <1>2, NewNodeLocal
<1>6. ASSUME NEW i \in Correct PROVE Safe(node[i], node, Correct)
  <2>0. i \in Replicas
    BY DEF Correct
  <2> DEFINE s == node[i]
  <2>1. /\ s.h = 0 /\ s.reqlog = EmptyMap /\ s.checkpoints = EmptyMap
        /\ s.last_stable_digest = <<>> /\ s.executed = <<>> /\ s.voted = {}
        /\ s.out = [j \in Replicas |-> <<>>] /\ s.id = i
    BY <1>3, <2>0 DEF Fresh
  <2>2. DOMAIN EmptyMap = {}
    BY DEF EmptyMap
  <2>3. \A q \in Correct : Reached(Peer(s, node, q), 0, <<>>)
    <3> SUFFICES ASSUME NEW q \in Correct PROVE Reached(Peer(s, node, q), 0, <<>>)
      BY Zenon
    <3>1. Peer(s, node, q) = node[q]
      BY <2>1 DEF Peer
    <3>2. node[q].executed = <<>>
      BY <1>3 DEF Correct, Fresh
    <3>3. ServiceState(node[q], 0) = <<>>
      BY DEF ServiceState
    <3> QED BY <3>1, <3>2, <3>3 DEF Reached
  <2> HIDE DEF s
  <2>4. StableOK(s, node, Correct)
    <3>1. Attesters(s, node, Correct, 0, <<>>) = Replicas
      BY <2>3 DEF Attesters
    <3>2. Cardinality(Replicas) >= 2 * f + 1 /\ 0 % K = 0
      BY ConstantTypes
    <3> QED BY ZenonT(40), <2>1, <3>1, <3>2 DEF StableOK
  <2>5. OutOK(s)
    BY <2>1 DEF OutOK
  <2>6. /\ SeqNumOK(s) /\ CommitsOK(s, node, Correct) /\ VotedOK(s)
        /\ ExecutedOK(s, node, Correct) /\ CheckpointsOK(s, node, Correct)
    BY <2>1, <2>2 DEF SeqNumOK, CommitsOK, VotedOK, ExecutedOK, CheckpointsOK
  <2>7. Safe(s, node, Correct)
    BY ZenonT(40), <2>4, <2>5, <2>6 DEF Safe, Backed
  <2> QED BY <2>7 DEF s
<1>7. \A i \in Faulty, j \in Replicas : node[i].out[j] = <<>>
  BY <1>3, ClusterAssumption DEF Fresh
<1> QED
  BY ZenonT(30), <1>1, <1>3, <1>5, <1>6, <1>7 DEF NodesOK, Fresh

\* Every node loses connections at once, as when a replica stops.
LEMMA AllConnected ==
  ASSUME NEW nd, NodesOK(nd), NEW alive
  PROVE  StepOK(nd, [i \in Replicas |-> Connected(nd[i], alive)])
<1> DEFINE nd2 == [i \in Replicas |-> Connected(nd[i], alive)]
<1>1. \A i \in Replicas : nd2[i] = Connected(nd[i], alive)
  OBVIOUS
<1>2. nd2 = [i \in Replicas |-> nd2[i]]
  OBVIOUS
<1> HIDE DEF nd2
<1>3. ASSUME NEW i \in Replicas
      PROVE  /\ Local(nd2[i]) /\ nd2[i].id = i
             /\ \A j \in Replicas : nd2[i].out[j] = nd[i].out[j] \/ nd2[i].out[j] = <<>>
  <2>1. Local(nd[i]) /\ nd[i].id = i
    BY DEF NodesOK
  <2>2. /\ SameExcept(nd[i], nd2[i], {"out"}) /\ Local(nd2[i])
        /\ \A j \in Replicas : nd2[i].out[j] = nd[i].out[j] \/ nd2[i].out[j] = <<>>
    BY <1>1, <2>1, ConnectedFields
  <2>3. nd2[i].id = nd[i].id
    BY <2>2 DEF SameExcept, NodeFields
  <2> QED BY ZenonT(40), <2>1, <2>2, <2>3
<1>4. ASSUME NEW i \in Correct
      PROVE  /\ Ready(nd2[i], nd, Correct) /\ i \in Replicas
             /\ Moves(nd[i], nd2[i]) /\ Kept(nd[i], nd2[i])
  <2>1. Ready(nd[i], nd, Correct) /\ i \in Replicas
    BY NodeReady
  <2>2. Ready(nd2[i], nd, Correct) /\ Extended(nd[i], nd2[i])
    BY ZenonT(40), <1>1, <2>1, ConnectedReady
  <2>3. Kept(nd[i], nd2[i])
    <3>1. SameExcept(nd[i], nd2[i], {"out"})
      BY ZenonT(40), <1>1, <2>1, ConnectedFields DEF Ready
    <3> QED BY ZenonT(40), <3>1 DEF SameExcept, NodeFields, Kept
  <2> QED BY ZenonT(40), <2>1, <2>2, <2>3 DEF Extended, Moves, OneMove
<1>5. ASSUME NEW i \in Correct PROVE Safe(nd2[i], nd2, Correct)
  <2>1. Peers(nd2[i], nd2, Correct)
    <3> SUFFICES ASSUME NEW q \in Correct PROVE Len(nd2[q].executed) \in Nat
      BY DEF Peers
    <3>1. Local(nd2[q])
      BY ZenonT(40), <1>4 DEF Ready
    <3> QED BY ZenonT(40), <3>1 DEF Local, IsNode
  <2>2. Ready(nd2[i], nd, Correct) /\ \A q \in Correct : Grows(nd[q], nd2[q])
    BY <1>4 DEF Moves
  <2> QED BY ZenonT(40), <2>1, <2>2, PeersGrow DEF Ready
<1>6. ASSUME NEW i \in Faulty, NEW j \in Replicas PROVE nd2[i].out[j] = <<>>
  <2>1. i \in Replicas
    BY ClusterAssumption
  <2>2. nd[i].out[j] = <<>>
    BY DEF NodesOK
  <2> QED BY ZenonT(40), <1>3, <2>1, <2>2
<1>7. NodesOK(nd2)
  BY ZenonT(30), <1>2, <1>3, <1>5, <1>6 DEF NodesOK
<1>8. StepOK(nd, nd2)
  BY ZenonT(40), <1>4, <1>7 DEF StepOK
<1> QED
  BY <1>8 DEF nd2

\* The head of a connection, or all of it, is taken off.
LEMMA TakenOff ==
  ASSUME NEW nd, NodesOK(nd), NEW i \in Correct, NEW j \in Replicas,
         NEW q \in {Tail(nd[i].out[j]), <<>>}, nd[i].out[j] # <<>>
  PROVE  StepOK(nd, [nd EXCEPT ![i].out[j] = q])
<1> DEFINE s == nd[i]
           t == [s EXCEPT !.out[j] = q]
           nd2 == [nd EXCEPT ![i].out[j] = q]
<1>0. Ready(s, nd, Correct) /\ i \in Replicas /\ DOMAIN nd = Replicas
  BY NodeReady DEF NodesOK
<1>1. nd2 = [nd EXCEPT ![i] = t]
  BY ZenonT(40), <1>0
<1> HIDE DEF nd2
<1>2. s.out \in [Replicas -> Seq(Message)] /\ DOMAIN s = NodeFields
  BY ZenonT(40), <1>0 DEF Ready, Local, IsNode
<1>3. SameExcept(s, t, {"out"}) /\ t.out = [s.out EXCEPT ![j] = q]
  BY <1>2 DEF SameExcept, NodeFields
<1>10. s.out[j] # <<>> /\ (q = Tail(s.out[j]) \/ q = <<>>)
  OBVIOUS
<1> HIDE DEF s, t
<1>4. s.out[j] \in Seq(Message) /\ q \in Seq(Message)
  <2>1. s.out[j] \in Seq(Message)
    BY <1>2
  <2>2. Tail(s.out[j]) \in Seq(Message) /\ <<>> \in Seq(Message)
    BY <1>10, <2>1
  <2> QED BY ZenonT(30), <1>10, <2>1, <2>2
<1>5. t.out \in [Replicas -> Seq(Message)]
  BY ZenonT(40), <1>2, <1>3, <1>4
<1>6. ASSUME NEW a \in Replicas, NEW k \in 1..Len(t.out[a])
      PROVE  \E l \in 1..Len(s.out[a]) : t.out[a][k] = s.out[a][l]
  <2>1. CASE a # j
    <3>1. t.out[a] = s.out[a]
      BY ZenonT(40), <1>2, <1>3, <2>1
    <3> QED BY ZenonT(40), <3>1, <1>6
  <2>2. CASE a = j
    <3>1. t.out[a] = q
      BY ZenonT(40), <1>2, <1>3, <2>2
    <3>2. q # <<>>
      BY <3>1, <1>6
    <3>3. q = Tail(s.out[j])
      BY ZenonT(40), <1>10, <3>2
    <3>4. k + 1 \in 1..Len(s.out[j]) /\ q[k] = s.out[j][k + 1]
      BY <1>4, <1>6, <3>1, <3>3, <1>10
    <3> QED BY ZenonT(40), <3>1, <3>4, <2>2
  <2> QED BY ZenonT(40), <2>1, <2>2
<1>7. Ready(t, nd, Correct) /\ Extended(s, t) /\ t.reqlog = s.reqlog
  BY ZenonT(40), <1>0, <1>3, <1>5, <1>6, Dropped
<1>8. NodesOK(nd2)
  <2>1. Grows(nd[i], t)
    BY ZenonT(40), <1>7 DEF Extended, s
  <2> QED BY ZenonT(40), <1>1, <1>7, <2>1, Replace
<1>9. Moves(nd[i], t)
  BY <1>7 DEF Extended, Moves, OneMove, s
<1> QED
  BY ZenonT(40), <1>1, <1>8, <1>9, OneNode DEF nd2

-----------------------------------------------------------------------------
(* One lemma per action. *)

\* Nothing happens to the nodes.
LEMMA Unchanged ==
  ASSUME NEW nd, NodesOK(nd)
  PROVE  StepOK(nd, nd)
<1>1. \A i \in Correct : Local(nd[i])
  BY DEF NodesOK, Correct
<1> QED
  BY ZenonT(40), <1>1, MovesReflexive DEF StepOK, Kept

\* Two steps are a step, if the first takes a message off a connection.
LEMMA StepAfter ==
  ASSUME NEW nd, NEW nd1, NEW nd2, StepOK(nd1, nd2),
         \A i \in Correct : /\ nd1[i].id = nd[i].id /\ nd1[i].h = nd[i].h
                            /\ nd1[i].reqlog = nd[i].reqlog
                            /\ nd1[i].executed = nd[i].executed
                            /\ nd1[i].voted = nd[i].voted
  PROVE  StepOK(nd, nd2)
<1>1. ASSUME NEW i \in Correct PROVE Moves(nd[i], nd2[i])
  BY DEF StepOK, Moves, Grows, Sticky, OneMove
<1>2. \A i \in Correct : Kept(nd1[i], nd2[i]) => Kept(nd[i], nd2[i])
  BY DEF Kept
<1> QED
  BY ZenonT(40), <1>1, <1>2 DEF StepOK

\* A client's request reaches a node.
LEMMA SubmitStep ==
  ASSUME NodesOK(node), NEW alive, NEW i \in Correct, NEW req \in Request
  PROVE  StepOK(node, [node EXCEPT ![i] = Connected(on_request(@, req), alive)])
<1> DEFINE t == on_request(node[i], req)
<1>1. Ready(node[i], node, Correct) /\ i \in Replicas /\ DOMAIN node = Replicas
  BY ZenonT(30), NodeReady DEF NodesOK
<1>2. Ready(t, node, Correct) /\ Extended(node[i], t)
  BY <1>1, OnRequestSafe
<1>3. [node EXCEPT ![i] = Connected(on_request(@, req), alive)]
        = [node EXCEPT ![i] = Connected(t, alive)]
  OBVIOUS
<1> HIDE DEF t
<1>4. StepOK(node, [node EXCEPT ![i] = Connected(t, alive)])
  BY ZenonT(40), <1>2, HandlerStep DEF Extended, Moves, OneMove
<1> QED
  BY ZenonT(40), <1>3, <1>4

\* A view-change timer expires.
LEMMA TimeoutStep ==
  ASSUME NodesOK(node), NEW alive, NEW i \in Correct, node[i].timer # Off
  PROVE  StepOK(node, [node EXCEPT ![i] = Connected(start_view_change(@), alive)])
<1> DEFINE t == start_view_change(node[i])
<1>1. Ready(node[i], node, Correct) /\ i \in Replicas /\ DOMAIN node = Replicas
  BY NodeReady DEF NodesOK
<1>2. Ready(t, node, Correct) /\ Extended(node[i], t)
  BY <1>1, StartViewChangeSafe
<1>3. [node EXCEPT ![i] = Connected(start_view_change(@), alive)]
        = [node EXCEPT ![i] = Connected(t, alive)]
  OBVIOUS
<1> HIDE DEF t
<1>4. StepOK(node, [node EXCEPT ![i] = Connected(t, alive)])
  BY ZenonT(40), <1>2, HandlerStep DEF Extended, Moves, OneMove
<1> QED
  BY ZenonT(40), <1>3, <1>4

\* A node handles a message that its sender backs.
LEMMA HandleStep ==
  ASSUME NEW nd, NodesOK(nd), NEW alive, NEW j \in Correct, NEW src, src # j,
         NEW m \in Message,
         m.type = "commit" => CommitBacked(nd[j], nd, Correct, m),
         m.type = "checkpoint" => CheckpointBacked(nd[j], nd, Correct, m)
  PROVE  StepOK(nd, [nd EXCEPT ![j] = Connected(Handle(nd[j], m, src), alive)])
<1> DEFINE t == Handle(nd[j], m, src)
<1>1. Ready(nd[j], nd, Correct) /\ nd[j].id = j
  BY ZenonT(40), NodeReady
<1>2. Ready(t, nd, Correct) /\ Moves(nd[j], t)
  BY ZenonT(40), <1>1, HandleSafe, CorrectQuorums DEF Moves
<1> HIDE DEF t
<1>3. StepOK(nd, [nd EXCEPT ![j] = Connected(t, alive)])
  BY ZenonT(40), <1>2, HandlerStep
<1> QED
  BY ZenonT(40), <1>3 DEF t

\* A message is taken off its connection and handled.
LEMMA DeliverStep ==
  ASSUME NodesOK(node), NEW alive, NEW i \in Replicas, NEW j \in Correct, i # j,
         node[i].out[j] # <<>>
  PROVE  StepOK(node, [node EXCEPT
                         ![i].out[j] = Tail(@),
                         ![j] = Connected(Handle(@, Head(node[i].out[j]), i), alive)])
<1> DEFINE m   == Head(node[i].out[j])
           nd1 == [node EXCEPT ![i].out[j] = Tail(node[i].out[j])]
           nd2 == [nd1 EXCEPT ![j] = Connected(Handle(nd1[j], m, i), alive)]
<1>1. /\ i \in Correct /\ j \in Replicas /\ DOMAIN node = Replicas
      /\ Correct \subseteq Replicas
  BY DEF NodesOK, Correct
<1>2. [node EXCEPT ![i].out[j] = Tail(@),
                   ![j] = Connected(Handle(@, Head(node[i].out[j]), i), alive)] = nd2
  BY Zenon, <1>1
<1>3. StepOK(node, nd1)
  BY ZenonT(40), <1>1, TakenOff
<1>4. nd1[j] = node[j] /\ \A k \in Replicas \ {i} : nd1[k] = node[k]
  BY <1>1
<1>5. Local(node[i]) /\ node[i].id = i /\ OutOK(node[i])
  BY Zenon, <1>1 DEF NodesOK, Safe, Backed
<1>6. node[i].out \in [Replicas -> Seq(Message)] /\ DOMAIN node[i] = NodeFields
  BY Zenon, <1>5 DEF Local, IsNode
<1>7. m \in Message /\ MessageOK(m, node[i])
  <2>1. node[i].out[j] \in Seq(Message)
    BY ZenonT(40), <1>1, <1>6
  <2>2. 1 \in 1..Len(node[i].out[j]) /\ m = node[i].out[j][1] /\ m \in Message
    BY <2>1
  <2> HIDE DEF m
  <2> QED BY ZenonT(40), <1>1, <1>5, <2>2 DEF OutOK
<1>8. /\ nd1[i].voted = node[i].voted /\ nd1[i].executed = node[i].executed
      /\ nd1[i].reqlog = node[i].reqlog /\ nd1[i].id = node[i].id
      /\ nd1[i].h = node[i].h
  BY ZenonT(40), <1>1, <1>6 DEF NodeFields
<1> HIDE DEF m, nd1
<1>9. Peer(nd1[j], nd1, i) = nd1[i]
  <2>1. node[j].id = j
    BY ZenonT(40), <1>1 DEF NodesOK
  <2> QED BY ZenonT(40), <1>4, <2>1 DEF Peer
<1>10. m.type = "commit" => CommitBacked(nd1[j], nd1, Correct, m)
  BY ZenonT(40), <1>5, <1>7, <1>8, <1>9 DEF MessageOK, CommitBacked
<1>11. m.type = "checkpoint" => CheckpointBacked(nd1[j], nd1, Correct, m)
  <2> SUFFICES ASSUME m.type = "checkpoint" PROVE CheckpointBacked(nd1[j], nd1, Correct, m)
    OBVIOUS
  <2>1. /\ m.replica_id = i /\ m.seq_num % K = 0
        /\ Reached(node[i], m.seq_num, m.state_digest)
    BY ZenonT(40), <1>5, <1>7 DEF MessageOK
  <2>2. Reached(nd1[i], m.seq_num, m.state_digest)
    BY ZenonT(40), <1>8, <2>1 DEF Reached, ServiceState
  <2> QED BY ZenonT(40), <1>9, <2>1, <2>2 DEF CheckpointBacked
<1>12. StepOK(nd1, nd2)
  BY ZenonT(30), <1>3, <1>7, <1>10, <1>11, HandleStep DEF StepOK
<1>13. \A k \in Correct : /\ nd1[k].id = node[k].id /\ nd1[k].h = node[k].h
                          /\ nd1[k].reqlog = node[k].reqlog
                          /\ nd1[k].executed = node[k].executed
                          /\ nd1[k].voted = node[k].voted
  BY ZenonT(40), <1>1, <1>4, <1>8
<1> HIDE DEF nd2
<1>14. StepOK(node, nd2)
  BY ZenonT(40), <1>12, <1>13, StepAfter
<1> QED
  BY ZenonT(40), <1>2, <1>14

\* A faulty replica's message carries its own id, so it needs no backing.
LEMMA FaultySendStep ==
  ASSUME NodesOK(node), NEW alive, NEW b \in Faulty, NEW j \in Correct,
         NEW x \in FaultyMessages, x[1] = b
  PROVE  StepOK(node, [node EXCEPT ![j] = Connected(Handle(@, x[2], b), alive)])
<1> DEFINE m == x[2]
<1>1. b # j /\ j \in Replicas /\ DOMAIN node = Replicas
  BY DEF NodesOK, Correct
<1>2. m \in Message /\ (m.type \in {"commit", "checkpoint"} => m.replica_id \notin Correct)
  BY ClusterAssumption DEF Correct
<1>3. [node EXCEPT ![j] = Connected(Handle(@, x[2], b), alive)]
        = [node EXCEPT ![j] = Connected(Handle(node[j], m, b), alive)]
  OBVIOUS
<1> HIDE DEF m
<1>4. /\ m.type = "commit" => CommitBacked(node[j], node, Correct, m)
      /\ m.type = "checkpoint" => CheckpointBacked(node[j], node, Correct, m)
  BY <1>2 DEF CommitBacked, CheckpointBacked
<1>5. StepOK(node, [node EXCEPT ![j] = Connected(Handle(node[j], m, b), alive)])
  BY ZenonT(30), <1>1, <1>2, <1>4, HandleStep
<1> QED
  BY ZenonT(40), <1>3, <1>5

\* What is in transit from the clients is requests.
InTransit(u) == u \in [Replicas -> Seq(Request)]

\* Every step keeps the nodes in order, the accepted digests in place and what
\* was executed, and moves the history or the low watermark of one node.
LEMMA NextNodes ==
  ASSUME NodesOK(node), up \subseteq Correct, InTransit(unsent),
         [Next]_vars
  PROVE  StepOK(node, node')
<1>1. ASSUME NEW i \in Replicas, Submit(i) PROVE StepOK(node, node')
  <2>1. i \in Correct /\ unsent[i] # <<>>
    BY <1>1 DEF Submit
  <2>2. Head(unsent[i]) \in Request
    <3>1. unsent[i] \in Seq(Request)
      BY DEF InTransit
    <3> QED BY <2>1, <3>1
  <2>3. node' = [node EXCEPT ![i] = Connected(on_request(@, Head(unsent[i])), up)]
    BY <1>1 DEF Submit
  <2> QED BY ZenonT(30), <2>1, <2>2, <2>3, SubmitStep
<1>2. ASSUME NEW req \in Blocking, Retry(req) PROVE StepOK(node, node')
  BY ZenonT(40), <1>2, Unchanged DEF Retry
<1>3. ASSUME NEW i \in Replicas, NEW j \in Replicas, Deliver(i, j) PROVE StepOK(node, node')
  BY ZenonT(40), <1>3, DeliverStep DEF Deliver
<1>4. ASSUME NEW i \in Replicas, Timeout(i) PROVE StepOK(node, node')
  BY ZenonT(30), <1>4, TimeoutStep DEF Timeout
<1>5. ASSUME NEW i \in Replicas, Crash(i) PROVE StepOK(node, node')
  BY <1>5, AllConnected DEF Crash
<1>6. ASSUME NEW i \in Replicas, NEW j \in Replicas, Lose(i, j) PROVE StepOK(node, node')
  <2>1. i \in Correct /\ node[i].out[j] # <<>>
    BY Zenon, <1>6 DEF Lose, NodesOK, Correct
  <2> QED BY ZenonT(40), <1>6, <2>1, TakenOff DEF Lose
<1>7. ASSUME NEW b \in Faulty, NEW j \in Replicas, FaultySend(b, j)
      PROVE  StepOK(node, node')
  <2>1. PICK x \in FaultyMessages :
          /\ x[1] = b
          /\ node' = [node EXCEPT ![j] = Connected(Handle(@, x[2], b), up)]
    BY ZenonT(40), <1>7 DEF FaultySend
  <2>2. j \in Correct
    BY <1>7 DEF FaultySend
  <2> QED BY ZenonT(40), <2>1, <2>2, FaultySendStep
<1>8. CASE UNCHANGED vars
  BY ZenonT(40), <1>8, Unchanged DEF vars
<1> QED
  BY ZenonT(40), <1>1, <1>2, <1>3, <1>4, <1>5, <1>6, <1>7, <1>8 DEF Next

\* The variables beside the nodes keep their types.
LEMMA NextRest ==
  ASSUME up \subseteq Correct, unsent \in [Replicas -> Seq(Request)],
         retries \in Nat, timeouts \in Nat, faults \in Nat, [Next]_vars
  PROVE  /\ up' \subseteq Correct /\ unsent' \in [Replicas -> Seq(Request)]
         /\ retries' \in Nat /\ timeouts' \in Nat /\ faults' \in Nat
<1> DEFINE Goal == /\ up' \subseteq Correct /\ unsent' \in [Replicas -> Seq(Request)]
                   /\ retries' \in Nat /\ timeouts' \in Nat /\ faults' \in Nat
<1>1. ASSUME NEW i \in Replicas, Submit(i) PROVE Goal
  BY <1>1 DEF Submit
<1>2. ASSUME NEW req \in Blocking, Retry(req) PROVE Goal
  <2>1. req \in Request /\ up \subseteq Replicas
    BY ZenonT(40), ClusterAssumption DEF Correct
  <2> QED BY <1>2, <2>1 DEF Retry
<1>3. ASSUME NEW i \in Replicas, NEW j \in Replicas, Deliver(i, j) PROVE Goal
  BY <1>3 DEF Deliver
<1>4. ASSUME NEW i \in Replicas, Timeout(i) PROVE Goal
  BY <1>4 DEF Timeout
<1>5. ASSUME NEW i \in Replicas, Crash(i) PROVE Goal
  BY <1>5 DEF Crash
<1>6. ASSUME NEW i \in Replicas, NEW j \in Replicas, Lose(i, j) PROVE Goal
  BY <1>6 DEF Lose
<1>7. ASSUME NEW b \in Faulty, NEW j \in Replicas, FaultySend(b, j) PROVE Goal
  BY <1>7 DEF FaultySend
<1>8. CASE UNCHANGED vars
  BY <1>8 DEF vars
<1> QED
  BY ZenonT(40), <1>1, <1>2, <1>3, <1>4, <1>5, <1>6, <1>7, <1>8 DEF Next

-----------------------------------------------------------------------------

\* It holds at first.
LEMMA InitIndInv == Init => IndInv
<1> SUFFICES ASSUME Init PROVE IndInv
  OBVIOUS
<1>1. NodesOK(node)
  BY InitNodes
<1>2. /\ up \subseteq Correct /\ unsent = Submissions
      /\ retries \in Nat /\ timeouts \in Nat /\ faults \in Nat
  BY DEF Init
<1>3. Submissions \in [Replicas -> Seq(Request)]
  BY ZenonT(40), ClusterAssumption
<1> QED
  BY ZenonT(40), <1>1, <1>2, <1>3, IndInvNodes

\* Every step keeps it.
LEMMA NextIndInv == IndInv /\ [Next]_vars => IndInv'
<1> SUFFICES ASSUME IndInv, [Next]_vars PROVE IndInv'
  OBVIOUS
<1>1. /\ NodesOK(node) /\ up \subseteq Correct /\ unsent \in [Replicas -> Seq(Request)]
      /\ retries \in Nat /\ timeouts \in Nat /\ faults \in Nat
  BY IndInvNodes
<1>2. NodesOK(node')
  <2>1. InTransit(unsent)
    BY <1>1 DEF InTransit
  <2> QED BY ZenonT(40), <1>1, <2>1, NextNodes DEF StepOK
<1>3. /\ up' \subseteq Correct /\ unsent' \in [Replicas -> Seq(Request)]
      /\ retries' \in Nat /\ timeouts' \in Nat /\ faults' \in Nat
  BY <1>1, NextRest
<1> QED
  BY ZenonT(40), <1>2, <1>3 DEF IndInv, TypeOK, NodesOK, Local

\* The inductive invariant: every node is well formed between handlers and
\* every correct node's log, votes, executions, checkpoints, watermark and
\* outgoing messages are backed by its peers, for any number of replicas,
\* any constants and whatever the faulty replicas send.
THEOREM Inductive == Spec => []IndInv
BY InitIndInv, NextIndInv, PTL DEF Spec

\* Every variable, and every member of every node, keeps its type.
THEOREM TypeCorrect == Spec => []TypeOK
<1>1. IndInv => TypeOK
  BY ZenonT(40) DEF IndInv
<1> QED
  BY <1>1, Inductive, PTL

\* The log of a correct node stays between its watermarks (on_request,
\* on_preprepare_impl, on_prepare, on_commit, garbage_collect).
THEOREM WindowKept == Spec => []LogInWindow
<1>1. IndInv => LogInWindow
  BY ZenonT(40) DEF IndInv, Local, LogInWindow, Correct
<1> QED
  BY <1>1, Inductive, PTL

\* No timer is ever armed with a doubled timeout, and a node that is changing
\* view has none (start_timer_if_not_running, start_view_change).
THEOREM BackoffUnused == Spec => []BackoffNeverEngages
<1>1. IndInv => BackoffNeverEngages
  BY ZenonT(40) DEF IndInv, Local, TimerOK, BackoffNeverEngages, Correct
<1> QED
  BY <1>1, Inductive, PTL

\* A correct node commits two digests at one number only at a checkpoint number
\* at or below its low watermark (on_preprepare_impl, try_prepare).
THEOREM VotesAreUnique == Spec => []VotesUnique
<1>1. IndInv => VotesUnique
  BY ZenonT(40) DEF IndInv, Safe, Backed, VotedOK, VotesUnique
<1> QED
  BY <1>1, Inductive, PTL

\* A low watermark and its digest were reached by the correct members of a
\* quorum (make_checkpoint, on_checkpoint).
THEOREM StableWasExecuted == Spec => []StableIsExecuted
<1>1. ASSUME IndInv, NEW i \in Correct
      PROVE  /\ node[i].h % K = 0
             /\ Cardinality({q \in Replicas : q \in Correct =>
                  /\ node[i].h <= Len(node[q].executed)
                  /\ node[i].last_stable_digest = ServiceState(node[q], node[i].h)})
                >= 2 * f + 1
  <2>1. node[i].id = i /\ StableOK(node[i], node, Correct)
    BY ZenonT(30), <1>1 DEF IndInv, TypeOK, Safe, Backed, Correct
  <2>2. Attesters(node[i], node, Correct, node[i].h, node[i].last_stable_digest)
          = {q \in Replicas : q \in Correct =>
               /\ node[i].h <= Len(node[q].executed)
               /\ node[i].last_stable_digest = ServiceState(node[q], node[i].h)}
    BY ZenonT(40), <2>1 DEF Attesters, Reached, Peer
  <2> QED BY ZenonT(40), <2>1, <2>2 DEF StableOK
<1>2. IndInv => StableIsExecuted
  BY <1>1 DEF StableIsExecuted
<1> QED
  BY <1>2, Inductive, PTL

\* The committers of an executed digest, seen from the cluster.
LEMMA ExecutionCommitters ==
  ASSUME IndInv, NEW i \in Correct, NEW n \in 1..Len(node[i].executed)
  PROVE  Cardinality({q \in Replicas : q \in Correct =>
           <<n, node[i].executed[n].digest>> \in node[q].voted}) >= 2 * f + 1
<1>1. node[i].id = i /\ ExecutedOK(node[i], node, Correct)
  BY ZenonT(30) DEF IndInv, TypeOK, Safe, Backed, Correct
<1>2. Committers(node[i], node, Correct, n, node[i].executed[n].digest)
        = {q \in Replicas : q \in Correct =>
             <<n, node[i].executed[n].digest>> \in node[q].voted}
  BY ZenonT(40), <1>1 DEF Committers, Peer
<1> QED
  BY ZenonT(40), <1>1, <1>2 DEF ExecutedOK

\* What a correct node executes was committed by the correct members of a
\* quorum (on_commit, try_commit, try_execute).
THEOREM ExecutionsCertified == Spec => []ExecutedIsCertified
<1>1. IndInv => ExecutedIsCertified
  BY ZenonT(40), ExecutionCommitters DEF ExecutedIsCertified
<1> QED
  BY <1>1, Inductive, PTL

\* Two quorums share a correct replica, which would have committed both digests.
LEMMA IndInvAgrees == IndInv => Agreement
<1>1. ASSUME IndInv, NEW i \in Correct, NEW j \in Correct,
             NEW n \in 1..Len(node[i].executed) \cap 1..Len(node[j].executed)
      PROVE  \/ node[i].executed[n].digest = node[j].executed[n].digest
             \/ (n % K = 0 /\ \E q \in Correct : n <= node[q].h)
  <2> DEFINE d1 == node[i].executed[n].digest
             d2 == node[j].executed[n].digest
             Q1 == {q \in Replicas : q \in Correct => <<n, d1>> \in node[q].voted}
             Q2 == {q \in Replicas : q \in Correct => <<n, d2>> \in node[q].voted}
  <2>1. Cardinality(Q1) >= 2 * f + 1 /\ Cardinality(Q2) >= 2 * f + 1
    BY ZenonT(40), <1>1, ExecutionCommitters
  <2>2. Q1 \in SUBSET Replicas /\ Q2 \in SUBSET Replicas
    OBVIOUS
  <2> HIDE DEF d1, d2
  <2>3. PICK q \in Q1 \cap Q2 : q \in Correct
    <3> HIDE DEF Q1, Q2
    <3> QED BY ZenonT(40), <2>1, <2>2, QuorumsIntersect
  <2>4. <<n, d1>> \in node[q].voted /\ <<n, d2>> \in node[q].voted
    BY ZenonT(40), <2>3
  <2>5. VotedOK(node[q])
    BY ZenonT(40), <1>1, <2>3 DEF IndInv, Safe, Backed
  <2>6. d1 # d2 => n % K = 0 /\ n <= node[q].h
    BY ZenonT(40), <2>4, <2>5 DEF VotedOK
  <2> QED BY ZenonT(40), <2>3, <2>6 DEF d1, d2
<1> QED
  BY ZenonT(40), <1>1 DEF Agreement

\* Two correct nodes never execute different digests at one number, except at a
\* checkpoint number that a correct node has left behind.
THEOREM AgreementHolds == Spec => []Agreement
BY IndInvAgrees, Inductive, PTL

\* No step of the cluster replaces the digest of an accepted PrePrepare while
\* its entry is in the log (on_preprepare_impl, on_request, on_newview).
THEOREM DigestsStick == Spec => DigestSticky
<1>1. IndInv /\ [Next]_vars =>
        [\A i \in Correct :
           \A n \in DOMAIN node[i].reqlog \cap DOMAIN node'[i].reqlog :
             node[i].reqlog[n].has_preprepare =>
               /\ node'[i].reqlog[n].has_preprepare
               /\ node'[i].reqlog[n].digest = node[i].reqlog[n].digest]_vars
  <2> SUFFICES ASSUME IndInv, [Next]_vars
               PROVE  \A i \in Correct : Sticky(node[i], node'[i])
    BY DEF Sticky
  <2>1. NodesOK(node) /\ up \subseteq Correct /\ InTransit(unsent)
    BY IndInvNodes DEF InTransit
  <2> QED BY ZenonT(40), <2>1, NextNodes DEF StepOK, Moves
<1> QED
  BY <1>1, Inductive, PTL DEF Spec, DigestSticky

-----------------------------------------------------------------------------
(* The cluster implements ReplicatedLog. *)

\* Sequences with the same elements are the same.
LEMMA SameElements ==
  ASSUME NEW S, NEW q \in Seq(S), NEW r \in Seq(S), Len(q) = Len(r),
         \A n \in 1..Len(q) : r[n] = q[n]
  PROVE  r = q
OBVIOUS

\* What a correct node holds before and after a step.
LEMMA NodeTypes ==
  ASSUME NEW nd, NodesOK(nd), NEW i \in Correct
  PROVE  /\ nd[i].h \in Nat /\ Len(nd[i].executed) \in Nat
         /\ nd[i].executed \in Seq([req : Request, digest : Digest])
<1>1. Local(nd[i])
  BY DEF NodesOK, Correct
<1> QED
  BY ZenonT(40), <1>1 DEF Local, IsNode

\* The history of a node as ReplicatedLog sees it.
LEMMA ExecutedFields ==
  ASSUME NEW s, Len(s.executed) \in Nat
  PROVE  /\ Len(Executed(s)) = Len(s.executed)
         /\ \A n \in 1..Len(s.executed) : Executed(s)[n] = s.executed[n].digest
BY DEF Executed

\* Only node j changes: it appends to its history.
LEMMA ExecuteStep ==
  ASSUME NodesOK(node), NodesOK(node'), Agreement', NEW j \in Correct,
         \A i \in Correct \ {j} : Kept(node[i], node'[i]),
         Grows(node[j], node'[j]), node'[j].h = node[j].h,
         node'[j].executed # node[j].executed
  PROVE  Log!Execute(j)
<1> DEFINE l == [i \in Correct |-> Executed(node[i])]
           m == [i \in Correct |-> Executed(node'[i])]
           w == [i \in Correct |-> node[i].h]
           x == [i \in Correct |-> node'[i].h]
<1>1. x = w
  BY DEF Kept
<1>2. \A i \in Correct \ {j} : m[i] = l[i]
  BY DEF Kept, Executed
<1>3. \A i \in Correct :
        /\ Len(l[i]) = Len(node[i].executed) /\ Len(m[i]) = Len(node'[i].executed)
        /\ \A n \in 1..Len(node[i].executed) : l[i][n] = node[i].executed[n].digest
        /\ \A n \in 1..Len(node'[i].executed) : m[i][n] = node'[i].executed[n].digest
  BY ZenonT(40), NodeTypes, ExecutedFields
<1>4. DOMAIN l = Correct /\ DOMAIN m = Correct /\ m = [i \in Correct |-> m[i]]
  OBVIOUS
<1> HIDE DEF l, m
<1>5. m = [l EXCEPT ![j] = m[j]]
  BY ZenonT(40), <1>2, <1>4
<1>6. Len(l[j]) < Len(m[j]) /\ \A n \in 1..Len(l[j]) : m[j][n] = l[j][n]
  <2>1. /\ Len(node[j].executed) \in Nat /\ Len(node'[j].executed) \in Nat
        /\ node[j].executed \in Seq([req : Request, digest : Digest])
        /\ node'[j].executed \in Seq([req : Request, digest : Digest])
    BY ZenonT(30), NodeTypes
  <2>2. /\ Len(node[j].executed) <= Len(node'[j].executed)
        /\ \A k \in 1..Len(node[j].executed) : node'[j].executed[k] = node[j].executed[k]
    BY DEF Grows
  <2>3. Len(node[j].executed) # Len(node'[j].executed)
    BY ZenonT(40), <2>1, <2>2, SameElements
  <2>4. \A n \in 1..Len(node[j].executed) : n \in 1..Len(node'[j].executed)
    BY <2>1, <2>2
  <2>5. \A n \in 1..Len(node[j].executed) : m[j][n] = l[j][n]
    BY ZenonT(30), <1>3, <2>2, <2>4
  <2>6. Len(l[j]) < Len(m[j])
    BY <1>3, <2>1, <2>2, <2>3
  <2> QED BY ZenonT(40), <1>3, <2>5, <2>6
<1>7. Log!Consistent(m, w)
  <2> SUFFICES ASSUME NEW a \in Correct, NEW b \in Correct,
                      NEW n \in 1..Len(m[a]) \cap 1..Len(m[b])
               PROVE  \/ m[a][n] = m[b][n]
                      \/ n % K = 0 /\ \E q \in Correct : n <= w[q]
    BY ZenonT(40) DEF Log!Consistent
  <2>1. n \in 1..Len(node'[a].executed) \cap 1..Len(node'[b].executed)
    BY ZenonT(40), <1>3
  <2>2. \/ node'[a].executed[n].digest = node'[b].executed[n].digest
        \/ n % K = 0 /\ \E q \in Correct : n <= node'[q].h
    BY ZenonT(40), <2>1 DEF Agreement
  <2>3. m[a][n] = node'[a].executed[n].digest /\ m[b][n] = node'[b].executed[n].digest
    BY ZenonT(40), <1>3, <2>1
  <2>4. \A q \in Correct : w[q] = node'[q].h
    BY ZenonT(40), <1>1
  <2> HIDE DEF w
  <2> QED BY ZenonT(40), <2>2, <2>3, <2>4
<1> QED
  BY ZenonT(40), <1>1, <1>5, <1>6, <1>7 DEF Log!Execute, l, m

\* Only node j changes: it moves its low watermark up.
LEMMA DiscardStep ==
  ASSUME NodesOK(node), NodesOK(node'), StableIsExecuted', NEW j \in Correct,
         \A i \in Correct \ {j} : Kept(node[i], node'[i]),
         node'[j].executed = node[j].executed,
         node[j].h <= node'[j].h, node'[j].h # node[j].h
  PROVE  Log!Discard(j)
<1> DEFINE l == [i \in Correct |-> Executed(node[i])]
           m == [i \in Correct |-> Executed(node'[i])]
           w == [i \in Correct |-> node[i].h]
           x == [i \in Correct |-> node'[i].h]
<1>1. m = l
  BY DEF Kept, Executed
<1>2. x = [w EXCEPT ![j] = x[j]]
  BY ZenonT(30) DEF Kept
<1>3. w[j] < x[j]
  BY NodeTypes
<1>4. /\ node'[j].h % K = 0
      /\ Cardinality({q \in Replicas : q \in Correct =>
           /\ node'[j].h <= Len(node'[q].executed)
           /\ node'[j].last_stable_digest = ServiceState(node'[q], node'[j].h)}) >= 2 * f + 1
  BY ZenonT(40) DEF StableIsExecuted
<1>5. \E q \in Correct : x[j] <= Len(l[q])
  <2> DEFINE Q == {q \in Replicas : q \in Correct =>
                    /\ node'[j].h <= Len(node'[q].executed)
                    /\ node'[j].last_stable_digest = ServiceState(node'[q], node'[j].h)}
  <2>1. Cardinality(Q) >= 2 * f + 1 /\ Q \in SUBSET Replicas
    BY ZenonT(40), <1>4
  <2> HIDE DEF Q
  <2>2. PICK q \in Q : q \in Correct
    BY ZenonT(40), <2>1, QuorumsIntersect
  <2>3. node'[j].h <= Len(node'[q].executed)
    BY ZenonT(40), <2>2 DEF Q
  <2>4. Len(l[q]) = Len(node[q].executed) /\ node'[q].executed = node[q].executed
    BY ZenonT(40), <2>2, NodeTypes, ExecutedFields DEF Kept
  <2> QED BY ZenonT(40), <2>2, <2>3, <2>4
<1> QED
  BY ZenonT(40), <1>1, <1>2, <1>3, <1>4, <1>5 DEF Log!Discard

\* What the correct nodes execute, with their low watermarks, is a behaviour of
\* ReplicatedLog: for any number of replicas, any constants and whatever the
\* faulty replicas send, the histories grow at the end, one at a time, and
\* stay one log (try_execute, on_checkpoint).
THEOREM OneLog == Spec => KeepsOneLog
<1>1. Init => Log!Init
  <2> SUFFICES ASSUME Init, NEW i \in Correct
               PROVE  Executed(node[i]) = <<>> /\ node[i].h = 0
    BY ZenonT(40) DEF Log!Init
  <2>1. node[i].executed = <<>> /\ node[i].h = 0
    BY DEF Init, NewNode, Correct
  <2>2. Executed(node[i]) = [n \in {} |-> node[i].executed[n].digest]
    BY <2>1 DEF Executed
  <2> QED BY <2>1, <2>2
<1>2. IndInv /\ IndInv' /\ Agreement' /\ StableIsExecuted' /\ [Next]_vars
        => [Log!Next]_<<[i \in Correct |-> Executed(node[i])],
                        [i \in Correct |-> node[i].h]>>
  <2> SUFFICES ASSUME IndInv, IndInv', Agreement', StableIsExecuted', [Next]_vars
               PROVE  \/ Log!Next
                      \/ /\ [i \in Correct |-> Executed(node'[i])]
                             = [i \in Correct |-> Executed(node[i])]
                         /\ [i \in Correct |-> node'[i].h]
                             = [i \in Correct |-> node[i].h]
    OBVIOUS
  <2>1. NodesOK(node) /\ up \subseteq Correct /\ InTransit(unsent)
    BY IndInvNodes DEF InTransit
  <2>2. StepOK(node, node')
    BY ZenonT(40), <2>1, NextNodes
  <2>3. CASE \A i \in Correct : Kept(node[i], node'[i])
    BY ZenonT(40), <2>3 DEF Kept, Executed
  <2>4. CASE ~ \A i \in Correct : Kept(node[i], node'[i])
    <3>1. PICK j \in Correct : ~Kept(node[j], node'[j])
      BY ZenonT(40), <2>4
    <3>2. \A i \in Correct \ {j} : Kept(node[i], node'[i])
      BY ZenonT(40), <2>2, <3>1 DEF StepOK
    <3>3. NodesOK(node') /\ Grows(node[j], node'[j]) /\ OneMove(node[j], node'[j])
      BY ZenonT(40), <2>2 DEF StepOK, Moves
    <3>4. CASE node'[j].executed # node[j].executed
      <4>1. Log!Execute(j)
        BY ZenonT(40), <2>1, <3>2, <3>3, <3>4, ExecuteStep DEF OneMove
      <4> QED BY ZenonT(40), <4>1 DEF Log!Next
    <3>5. CASE node'[j].executed = node[j].executed
      <4>1. node'[j].h # node[j].h /\ node[j].h <= node'[j].h
        BY ZenonT(40), <3>1, <3>3, <3>5 DEF Kept, OneMove
      <4>2. Log!Discard(j)
        BY ZenonT(40), <2>1, <3>2, <3>3, <3>5, <4>1, DiscardStep
      <4> QED BY ZenonT(40), <4>2 DEF Log!Next
    <3> QED BY ZenonT(40), <3>4, <3>5
  <2> QED BY ZenonT(40), <2>3, <2>4
<1> QED
  BY <1>1, <1>2, Inductive, AgreementHolds, StableWasExecuted, PTL
     DEF Spec, KeepsOneLog, Log!Spec

=============================================================================
