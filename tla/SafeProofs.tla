----------------------------- MODULE SafeProofs -----------------------------
(***************************************************************************)
(* The handlers of a correct node, and what they call, preserve Safe,      *)
(* never take a vote or an execution back, and keep the digest of every    *)
(* entry they keep.                                                        *)
(***************************************************************************)
EXTENDS SafeInv, LocalProofs

\* The prover, unless a proof or a step names another.
USE ZenonT(40)

(* What Safe asks of a node and of its peers. *)

\* Every handler but on_checkpoint also keeps every entry and the low watermark.
Extended(s, t) ==
  /\ Grows(s, t) /\ Sticky(s, t)
  /\ DOMAIN s.reqlog \subseteq DOMAIN t.reqlog
  /\ t.h = s.h

\* A handler moves the low watermark up or executes, never both.
OneMove(s, t) == t.h = s.h \/ (s.h <= t.h /\ t.executed = s.executed)

\* Grows composes along the calls of a handler.
LEMMA GrowsTransitive ==
  ASSUME NEW s, NEW t, NEW u, Local(s), Local(t), Local(u), Grows(s, t), Grows(t, u)
  PROVE  Grows(s, u)
<1> USE SMTT(30)
<1>1. /\ Len(s.executed) \in Nat /\ Len(t.executed) \in Nat /\ Len(u.executed) \in Nat
  BY Zenon DEF Local, IsNode
<1> QED
  BY <1>1 DEF Grows

\* A call that changes nothing extends the node.
LEMMA ExtendedReflexive ==
  ASSUME NEW s, Local(s)
  PROVE  Extended(s, s)
<1> USE SMTT(30)
<1>1. Len(s.executed) \in Nat
  BY Zenon DEF Local, IsNode
<1> QED
  BY <1>1 DEF Extended, Grows, Sticky

\* Extended composes along the calls of a handler.
LEMMA ExtendedTransitive ==
  ASSUME NEW s, NEW t, NEW u, Local(s), Local(t), Local(u),
         Extended(s, t), Extended(t, u)
  PROVE  Extended(s, u)
<1> USE SMTT(30)
<1>1. Grows(s, u)
  BY Zenon, GrowsTransitive DEF Extended
<1>2. Sticky(s, u) /\ DOMAIN s.reqlog \subseteq DOMAIN u.reqlog /\ u.h = s.h
  BY DEF Extended, Sticky
<1> QED
  BY <1>1, <1>2 DEF Extended

\* A state once reached stays in the history of the node.
LEMMA ReachedMonotone ==
  ASSUME NEW p, NEW q, NEW n \in Nat, NEW d,
         Len(p.executed) \in Nat, Len(q.executed) \in Nat,
         Grows(p, q), Reached(p, n, d)
  PROVE  Reached(q, n, d)
<1> USE SMTT(30)
<1>1. n <= Len(p.executed) /\ n <= Len(q.executed)
  BY DEF Reached, Grows
<1>2. \A k \in 1..n : q.executed[k] = p.executed[k]
  BY <1>1 DEF Grows
<1>3. ServiceState(q, n) = ServiceState(p, n)
  BY Zenon, <1>2 DEF ServiceState
<1> QED
  BY <1>1, <1>3 DEF Reached

\* The nodes of the peers of s that matter to it.
Peers(s, nd, C) == \A q \in C \ {s.id} : Len(nd[q].executed) \in Nat

\* From s to t and from nd to nd2 nothing is taken back.
AllGrow(s, nd, t, nd2, C) ==
  Grows(s, t) /\ \A q \in C \ {s.id} : Grows(nd[q], nd2[q])

\* So what backed a claim about the votes and states of replicas still does.
LEMMA BackingMonotone ==
  ASSUME NEW s, NEW t, NEW nd, NEW nd2, NEW C, NEW n \in Nat, NEW d,
         Local(s), Local(t), Peers(s, nd, C), Peers(t, nd2, C),
         AllGrow(s, nd, t, nd2, C)
  PROVE  /\ Committers(s, nd, C, n, d) \subseteq Committers(t, nd2, C, n, d)
         /\ Attesters(s, nd, C, n, d) \subseteq Attesters(t, nd2, C, n, d)
         /\ \A q \in C : Reached(Peer(s, nd, q), n, d) => Reached(Peer(t, nd2, q), n, d)
<1> USE Zenon
<1>1. \A q \in C : /\ Grows(Peer(s, nd, q), Peer(t, nd2, q))
                   /\ Len(Peer(s, nd, q).executed) \in Nat
                   /\ Len(Peer(t, nd2, q).executed) \in Nat
  <2> TAKE q \in C
  <2>1. t.id = s.id /\ Grows(s, t)
    BY DEF AllGrow, Grows
  <2>2. Len(s.executed) \in Nat /\ Len(t.executed) \in Nat
    BY DEF Local, IsNode
  <2>3. CASE q = s.id
    BY <2>1, <2>2, <2>3 DEF Peer
  <2>4. CASE q # s.id
    <3>1. Peer(s, nd, q) = nd[q] /\ Peer(t, nd2, q) = nd2[q]
      BY SMTT(20), <2>1, <2>4 DEF Peer
    <3>2. Grows(nd[q], nd2[q])
      BY <2>4 DEF AllGrow
    <3>3. Len(nd[q].executed) \in Nat /\ Len(nd2[q].executed) \in Nat
      BY SMTT(20), <2>1, <2>4 DEF Peers
    <3> QED BY <3>1, <3>2, <3>3
  <2> QED BY <2>3, <2>4
<1>2. \A q \in C : Peer(s, nd, q).voted \subseteq Peer(t, nd2, q).voted
  BY <1>1 DEF Grows
<1>3. \A q \in C : Reached(Peer(s, nd, q), n, d) => Reached(Peer(t, nd2, q), n, d)
  BY SMTT(20), <1>1, ReachedMonotone
<1>4. Committers(s, nd, C, n, d) \subseteq Committers(t, nd2, C, n, d)
  BY <1>2 DEF Committers
<1>5. Attesters(s, nd, C, n, d) \subseteq Attesters(t, nd2, C, n, d)
  BY SMTT(20), <1>3 DEF Attesters
<1> QED
  BY <1>3, <1>4, <1>5

\* Sets of replicas are finite, so a larger one is no smaller.
LEMMA LargerSet ==
  ASSUME NEW A, NEW B, A \subseteq B, B \subseteq Replicas
  PROVE  /\ Cardinality(A) \in Nat /\ Cardinality(B) \in Nat
         /\ Cardinality(A) <= Cardinality(B)
<1> USE SMTT(30)
<1>1. IsFiniteSet(Replicas)
  BY ConstantTypes, FS_Interval DEF Replicas
<1>2. IsFiniteSet(B) /\ IsFiniteSet(A)
  BY <1>1, FS_Subset
<1> QED
  BY Zenon, <1>2, FS_Subset, FS_CardinalityType

\* A message that was backed still is.
LEMMA MessageMonotone ==
  ASSUME NEW s, NEW t, Local(s), Local(t), Grows(s, t), NEW m \in Message,
         MessageOK(m, s)
  PROVE  MessageOK(m, t)
<1> USE SMTT(30)
<1>1. t.id = s.id /\ s.voted \subseteq t.voted
  BY Zenon DEF Grows
<1>2. Len(s.executed) \in Nat /\ Len(t.executed) \in Nat
  BY Zenon DEF Local, IsNode
<1>3. CASE m.type = "checkpoint"
  <2>1. m.seq_num \in Nat
    BY <1>3 DEF Message, Request, PrePrepare, Vote, CheckpointVote, ViewChange, NewView
  <2>2. Reached(s, m.seq_num, m.state_digest)
    BY Zenon, <1>3 DEF MessageOK
  <2>3. Reached(t, m.seq_num, m.state_digest)
    BY <1>2, <2>1, <2>2, ReachedMonotone
  <2> QED BY Zenon, <1>1, <1>3, <2>3 DEF MessageOK
<1>4. CASE m.type # "checkpoint"
  BY Zenon, <1>1, <1>4 DEF MessageOK
<1> QED
  BY <1>3, <1>4

\* What of Safe carries over when nothing is taken back, field by field.
LEMMA Carried ==
  ASSUME NEW s, NEW t, NEW nd, NEW nd2, NEW C,
         Local(s), Local(t), Peers(s, nd, C), Peers(t, nd2, C),
         AllGrow(s, nd, t, nd2, C)
  PROVE  /\ CommitsOK(s, nd, C) /\ t.reqlog = s.reqlog => CommitsOK(t, nd2, C)
         /\ ExecutedOK(s, nd, C) =>
              \A n \in 1..Len(s.executed) :
                Cardinality(Committers(t, nd2, C, n, t.executed[n].digest)) >= 2 * f + 1
         /\ CheckpointsOK(s, nd, C) /\ t.checkpoints = s.checkpoints
              => CheckpointsOK(t, nd2, C)
         /\ /\ StableOK(s, nd, C) /\ t.h = s.h
            /\ t.last_stable_digest = s.last_stable_digest
            => StableOK(t, nd2, C)
         /\ OutOK(s) /\ t.out = s.out => OutOK(t)
<1> USE SMTT(30)
<1>0. /\ f \in Nat
      /\ \A n, d : Committers(t, nd2, C, n, d) \subseteq Replicas
      /\ \A n, d : Attesters(t, nd2, C, n, d) \subseteq Replicas
  BY Zenon, ConstantTypes DEF Committers, Attesters
<1>1. ASSUME CommitsOK(s, nd, C), t.reqlog = s.reqlog PROVE CommitsOK(t, nd2, C)
  <2> SUFFICES ASSUME NEW n \in DOMAIN s.reqlog
               PROVE  s.reqlog[n].commits
                        \subseteq Committers(t, nd2, C, n, s.reqlog[n].digest)
    BY Zenon, <1>1 DEF CommitsOK
  <2>1. n \in Nat
    BY Zenon DEF Local, IsNode, IsMap
  <2> QED BY <1>1, <2>1, BackingMonotone DEF CommitsOK
<1>2. ASSUME ExecutedOK(s, nd, C), NEW n \in 1..Len(s.executed)
      PROVE  Cardinality(Committers(t, nd2, C, n, t.executed[n].digest)) >= 2 * f + 1
  <2> DEFINE d == s.executed[n].digest
             A == Committers(s, nd, C, n, d)
             B == Committers(t, nd2, C, n, d)
  <2>1. n \in Nat /\ t.executed[n] = s.executed[n]
    BY DEF AllGrow, Grows
  <2>2. A \subseteq B /\ B \subseteq Replicas
    BY <1>0, <2>1, BackingMonotone
  <2>3. Cardinality(A) >= 2 * f + 1
    BY Zenon, <1>2 DEF ExecutedOK
  <2>4. Cardinality(B) >= 2 * f + 1
    <3> HIDE DEF A, B
    <3> QED BY <1>0, <2>2, <2>3, LargerSet
  <2> QED BY <2>1, <2>4
<1>3. ASSUME CheckpointsOK(s, nd, C), t.checkpoints = s.checkpoints
      PROVE  CheckpointsOK(t, nd2, C)
  <2> SUFFICES ASSUME NEW n \in DOMAIN s.checkpoints, NEW x \in s.checkpoints[n].votes,
                      x[2] \in C
               PROVE  n % K = 0 /\ Reached(Peer(t, nd2, x[2]), n, x[1])
    BY Zenon, <1>3 DEF CheckpointsOK
  <2>1. n \in Nat
    BY Zenon DEF Local, IsNode, IsMap
  <2>2. n % K = 0 /\ Reached(Peer(s, nd, x[2]), n, x[1])
    BY Zenon, <1>3 DEF CheckpointsOK
  <2> DEFINE d == x[1]
  <2>3. \A q \in C : Reached(Peer(s, nd, q), n, d) => Reached(Peer(t, nd2, q), n, d)
    <3> HIDE DEF d
    <3> QED BY Zenon, <2>1, BackingMonotone
  <2> QED BY Zenon, <2>2, <2>3
<1>4. ASSUME StableOK(s, nd, C), t.h = s.h, t.last_stable_digest = s.last_stable_digest
      PROVE  StableOK(t, nd2, C)
  <2> DEFINE d == s.last_stable_digest
             A == Attesters(s, nd, C, s.h, d)
             B == Attesters(t, nd2, C, s.h, d)
  <2>1. s.h \in Nat
    BY Zenon DEF Local, IsNode
  <2>2. A \subseteq B /\ B \subseteq Replicas
    BY Zenon, <1>0, <2>1, BackingMonotone
  <2>3. Cardinality(A) >= 2 * f + 1
    BY Zenon, <1>4 DEF StableOK
  <2>4. Cardinality(B) >= 2 * f + 1
    <3> HIDE DEF A, B
    <3> QED BY <1>0, <2>2, <2>3, LargerSet
  <2> QED BY <1>4, <2>4 DEF StableOK
<1>5. ASSUME OutOK(s), t.out = s.out PROVE OutOK(t)
  <2> SUFFICES ASSUME NEW j \in Replicas, NEW k \in 1..Len(s.out[j])
               PROVE  MessageOK(s.out[j][k], t)
    BY Zenon, <1>5 DEF OutOK
  <2>1. s.out[j] \in Seq(Message)
    BY Zenon DEF Local, IsNode
  <2>2. s.out[j][k] \in Message
    BY <2>1
  <2>3. MessageOK(s.out[j][k], s)
    BY <1>5 DEF OutOK
  <2>4. Grows(s, t)
    BY DEF AllGrow
  <2> QED BY <2>2, <2>3, <2>4, MessageMonotone
<1> QED
  BY Zenon, <1>1, <1>2, <1>3, <1>4, <1>5

\* What a function that executes nothing has to show: what it changed is backed.
LEMMA CarriedBacked ==
  ASSUME NEW s, NEW t, NEW nd, NEW nd2, NEW C,
         Local(s), Local(t), Peers(s, nd, C), Peers(t, nd2, C),
         AllGrow(s, nd, t, nd2, C), Backed(s, nd, C), t.executed = s.executed,
         CommitsOK(t, nd2, C) \/ t.reqlog = s.reqlog,
         VotedOK(t),
         CheckpointsOK(t, nd2, C) \/ t.checkpoints = s.checkpoints,
         \/ StableOK(t, nd2, C)
         \/ t.h = s.h /\ t.last_stable_digest = s.last_stable_digest,
         OutOK(t) \/ t.out = s.out
  PROVE  Backed(t, nd2, C)
<1> USE Zenon
<1>1. /\ CommitsOK(s, nd, C) /\ ExecutedOK(s, nd, C) /\ CheckpointsOK(s, nd, C)
      /\ StableOK(s, nd, C) /\ OutOK(s)
  BY DEF Backed
<1>2. CommitsOK(t, nd2, C)
  BY <1>1, Carried
<1>3. CheckpointsOK(t, nd2, C)
  BY <1>1, Carried
<1>4. StableOK(t, nd2, C)
  BY <1>1, Carried
<1>5. OutOK(t)
  BY <1>1, Carried
<1>6. \A n \in 1..Len(s.executed) :
        Cardinality(Committers(t, nd2, C, n, t.executed[n].digest)) >= 2 * f + 1
  BY <1>1, Carried
<1>7. ExecutedOK(t, nd2, C)
  BY <1>6 DEF ExecutedOK
<1> QED
  BY <1>2, <1>3, <1>4, <1>5, <1>7 DEF Backed

\* Growing is all that Backed asks of the peers.
LEMMA PeersGrow ==
  ASSUME NEW s, NEW nd, NEW nd2, NEW C,
         Local(s), Peers(s, nd, C), Peers(s, nd2, C),
         \A q \in C \ {s.id} : Grows(nd[q], nd2[q]),
         Safe(s, nd, C)
  PROVE  Safe(s, nd2, C)
<1> USE SMTT(30)
<1>1. AllGrow(s, nd, s, nd2, C)
  BY Zenon, ExtendedReflexive DEF Extended, AllGrow
<1>2. Backed(s, nd2, C)
  BY Zenon, <1>1, Carried DEF Safe, Backed, ExecutedOK
<1> QED
  BY <1>2 DEF Safe

-----------------------------------------------------------------------------

\* A peer that does not change does not take anything back.
LEMMA PeersStay ==
  ASSUME NEW s, NEW t, NEW nd, NEW C, Peers(s, nd, C), Grows(s, t)
  PROVE  AllGrow(s, nd, t, nd, C) /\ Peers(t, nd, C)
<1> USE SMTT(30)
<1>1. \A q : Len(nd[q].executed) \in Nat => Grows(nd[q], nd[q])
  BY DEF Grows
<1> QED
  BY <1>1 DEF AllGrow, Peers, Grows

\* The fields Backed does not mention.
Free == {"view", "seq_num", "last_exec", "last_replies", "replies", "view_changing",
         "view_change_store", "view_change_timeout_count", "timer", "timer_running"}

\* Changing members that Backed does not mention keeps it.
LEMMA FreeBacked ==
  ASSUME NEW s, NEW t, NEW nd, NEW C, Local(s), Local(t), Peers(s, nd, C),
         SameExcept(s, t, Free)
  PROVE  /\ Backed(s, nd, C) => Backed(t, nd, C)
         /\ Extended(s, t) /\ Peers(t, nd, C)
<1> USE SMTT(30)
<1>1. /\ t.id = s.id /\ t.h = s.h /\ t.reqlog = s.reqlog /\ t.checkpoints = s.checkpoints
      /\ t.last_stable_digest = s.last_stable_digest /\ t.executed = s.executed
      /\ t.voted = s.voted /\ t.out = s.out
  BY Zenon DEF SameExcept, NodeFields, Free
<1>2. Extended(s, t)
  <2>1. Extended(s, s)
    BY Zenon, ExtendedReflexive
  <2> QED BY ZenonT(40), <1>1, <2>1 DEF Extended, Grows, Sticky
<1>3. Peers(t, nd, C) /\ AllGrow(s, nd, t, nd, C)
  BY <1>2, PeersStay DEF Extended
<1>5. ASSUME Backed(s, nd, C) PROVE Backed(t, nd, C)
  <2>1. VotedOK(t)
    BY <1>1, <1>5 DEF Backed, VotedOK
  <2> QED BY ZenonT(40), <1>1, <1>3, <1>5, <2>1, CarriedBacked
<1> QED
  BY Zenon, <1>2, <1>3, <1>5

\* A correct node, possibly in the middle of a handler.
Ready(s, nd, C) == Local(s) /\ Peers(s, nd, C) /\ Safe(s, nd, C)

\* Only what is on the connections changes, and it is backed.
LEMMA OutBacked ==
  ASSUME NEW s, NEW t, NEW nd, NEW C, Local(s), Local(t), Peers(s, nd, C),
         SameExcept(s, t, {"out"}),
         OutOK(s) => \A j \in Replicas : \A k \in 1..Len(t.out[j]) : MessageOK(t.out[j][k], s)
  PROVE  /\ Backed(s, nd, C) => Backed(t, nd, C)
         /\ SeqNumOK(s) => SeqNumOK(t)
         /\ Extended(s, t) /\ Peers(t, nd, C)
<1> USE ZenonT(40)
<1>1. /\ t.id = s.id /\ t.h = s.h /\ t.reqlog = s.reqlog /\ t.checkpoints = s.checkpoints
      /\ t.last_stable_digest = s.last_stable_digest /\ t.executed = s.executed
      /\ t.voted = s.voted /\ t.view = s.view /\ t.seq_num = s.seq_num
  BY SMTT(20) DEF SameExcept, NodeFields
<1>2. Extended(s, t)
  <2>1. Extended(s, s)
    BY Zenon, ExtendedReflexive
  <2> QED BY ZenonT(40), <1>1, <2>1 DEF Extended, Grows, Sticky
<1>3. Peers(t, nd, C) /\ AllGrow(s, nd, t, nd, C)
  BY <1>2, PeersStay DEF Extended
<1>4. SeqNumOK(s) => SeqNumOK(t)
  BY SMTT(20), <1>1 DEF SeqNumOK, is_primary, primary
<1>5. ASSUME Backed(s, nd, C) PROVE Backed(t, nd, C)
  <2>1. VotedOK(t)
    BY SMTT(20), <1>1, <1>5 DEF Backed, VotedOK
  <2>2. OutOK(t)
    <3> SUFFICES ASSUME NEW j \in Replicas, NEW k \in 1..Len(t.out[j])
                 PROVE  MessageOK(t.out[j][k], t)
      BY DEF OutOK
    <3>1. MessageOK(t.out[j][k], s)
      BY <1>5 DEF Backed
    <3>2. \A n, d : Reached(s, n, d) => Reached(t, n, d)
      BY <1>1 DEF Reached, ServiceState
    <3> QED BY <1>1, <3>1, <3>2 DEF MessageOK
  <2> QED BY <1>1, <1>3, <1>5, <2>1, <2>2, CarriedBacked
<1> QED
  BY <1>2, <1>3, <1>4, <1>5

-----------------------------------------------------------------------------
(* The handlers. *)

\* Broadcasting a message that is backed.
LEMMA BroadcastSafe ==
  ASSUME NEW s, NEW nd, NEW C, Local(s), Peers(s, nd, C),
         NEW m \in Message, MessageOK(m, s)
  PROVE  LET t == broadcast(s, m)
         IN  /\ Local(t) /\ Peers(t, nd, C) /\ Extended(s, t)
             /\ SameExcept(s, t, {"out"})
             /\ Backed(s, nd, C) => Backed(t, nd, C)
             /\ SeqNumOK(s) => SeqNumOK(t)
<1> DEFINE t == broadcast(s, m)
<1>1. /\ Local(t) /\ SameExcept(s, t, {"out"})
      /\ t.out = [j \in Replicas |-> IF j = s.id THEN s.out[j] ELSE Append(s.out[j], m)]
  BY BroadcastLocal
<1>2. ASSUME OutOK(s), NEW j \in Replicas, NEW k \in 1..Len(t.out[j])
      PROVE  MessageOK(t.out[j][k], s)
  <2> HIDE DEF t
  <2>1. s.out[j] \in Seq(Message)
    BY SMTT(20) DEF Local, IsNode
  <2>2. t.out[j] = IF j = s.id THEN s.out[j] ELSE Append(s.out[j], m)
    BY <1>1
  <2>3. CASE t.out[j] = s.out[j]
    BY <1>2, <2>3 DEF OutOK
  <2>4. CASE t.out[j] = Append(s.out[j], m)
    <3>1. k \in 1..Len(s.out[j]) \/ t.out[j][k] = m
      BY SMTT(20), <2>1, <2>4
    <3>2. k \in 1..Len(s.out[j]) => t.out[j][k] = s.out[j][k]
      BY SMTT(20), <2>1, <2>4
    <3> QED BY <1>2, <3>1, <3>2 DEF OutOK
  <2> QED BY <2>2, <2>3, <2>4
<1>3. /\ Backed(s, nd, C) => Backed(t, nd, C)
      /\ SeqNumOK(s) => SeqNumOK(t)
      /\ Extended(s, t) /\ Peers(t, nd, C)
  <2> HIDE DEF t
  <2> QED BY <1>1, <1>2, OutBacked
<1> QED
  BY <1>1, <1>3

\* Storing an entry that keeps an accepted digest and whose Commits are backed.
LEMMA EntrySafe ==
  ASSUME NEW s, NEW t, NEW nd, NEW C, NEW n \in Nat, NEW e2,
         Ready(s, nd, C), Local(t),
         SameExcept(s, t, {"reqlog", "timer", "timer_running", "seq_num"}),
         t.reqlog = Put(s.reqlog, n, e2), s.seq_num <= t.seq_num,
         At(s.reqlog, n, NewEntry).has_preprepare =>
           e2.has_preprepare /\ e2.digest = At(s.reqlog, n, NewEntry).digest,
         e2.commits \subseteq Committers(s, nd, C, n, e2.digest),
         e2.stage = "COMMITTED" => Cardinality(e2.commits) >= 2 * f + 1,
         is_primary(s) /\ e2.has_preprepare => n <= t.seq_num
  PROVE  Ready(t, nd, C) /\ Extended(s, t)
<1>1. /\ t.id = s.id /\ t.h = s.h /\ t.checkpoints = s.checkpoints
      /\ t.last_stable_digest = s.last_stable_digest /\ t.executed = s.executed
      /\ t.voted = s.voted /\ t.out = s.out /\ t.view = s.view
  BY DEF SameExcept, NodeFields
<1>2. /\ DOMAIN t.reqlog = DOMAIN s.reqlog \cup {n}
      /\ t.reqlog[n] = e2
      /\ \A k \in DOMAIN s.reqlog \ {n} : t.reqlog[k] = s.reqlog[k]
  BY DEF Put
<1>3. Extended(s, t)
  <2>1. Extended(s, s)
    BY Zenon, ExtendedReflexive DEF Ready
  <2>2. Sticky(s, t)
    BY <1>2 DEF Sticky, At
  <2> QED BY ZenonT(40), <1>1, <1>2, <2>1, <2>2 DEF Extended, Grows
<1>4. Peers(t, nd, C) /\ AllGrow(s, nd, t, nd, C)
  BY <1>3, PeersStay DEF Extended, Ready
<1>5. CommitsOK(t, nd, C)
  <2> SUFFICES ASSUME NEW k \in DOMAIN t.reqlog
               PROVE  /\ t.reqlog[k].commits \subseteq Committers(t, nd, C, k, t.reqlog[k].digest)
                      /\ t.reqlog[k].stage = "COMMITTED" =>
                           Cardinality(t.reqlog[k].commits) >= 2 * f + 1
    BY DEF CommitsOK
  <2>1. CASE k = n
    <3>1. Committers(s, nd, C, n, e2.digest) \subseteq Committers(t, nd, C, n, e2.digest)
      BY <1>4, BackingMonotone DEF Ready
    <3> QED BY <1>2, <2>1, <3>1
  <2>2. CASE k # n
    <3>1. k \in DOMAIN s.reqlog /\ t.reqlog[k] = s.reqlog[k] /\ k \in Nat
      BY ZenonT(40), <1>2, <2>2 DEF Ready, Local, IsNode, IsMap
    <3> DEFINE d == s.reqlog[k].digest
    <3>2. Committers(s, nd, C, k, d) \subseteq Committers(t, nd, C, k, d)
      <4> HIDE DEF d
      <4> QED BY <1>4, <3>1, BackingMonotone DEF Ready
    <3>3. /\ s.reqlog[k].commits \subseteq Committers(s, nd, C, k, d)
          /\ s.reqlog[k].stage = "COMMITTED" => Cardinality(s.reqlog[k].commits) >= 2 * f + 1
      BY <3>1 DEF Ready, Safe, Backed, CommitsOK
    <3> QED BY <3>1, <3>2, <3>3
  <2> QED BY <2>1, <2>2
<1>6. VotedOK(t)
  <2>1. VotedOK(s)
    BY DEF Ready, Safe, Backed
  <2>2. ASSUME NEW x \in s.voted, ~(x[1] <= s.h)
        PROVE  /\ x[1] \in DOMAIN t.reqlog /\ t.reqlog[x[1]].has_preprepare
               /\ t.reqlog[x[1]].digest = x[2]
    <3>1. /\ x[1] \in DOMAIN s.reqlog /\ s.reqlog[x[1]].has_preprepare
          /\ s.reqlog[x[1]].digest = x[2]
      BY <2>1, <2>2 DEF VotedOK
    <3> QED BY <1>3, <3>1 DEF Extended, Sticky
  <2> QED BY <1>1, <2>1, <2>2 DEF VotedOK
<1>7. SeqNumOK(t)
  <2> SUFFICES ASSUME is_primary(s), NEW k \in DOMAIN t.reqlog, t.reqlog[k].has_preprepare
               PROVE  k <= t.seq_num
    BY <1>1 DEF SeqNumOK, is_primary, primary
  <2>1. CASE k = n
    BY <1>2, <2>1
  <2>2. CASE k # n
    <3>1. k \in DOMAIN s.reqlog /\ t.reqlog[k] = s.reqlog[k] /\ k \in Nat
      BY <1>2, <2>2 DEF Ready, Local, IsNode, IsMap
    <3>2. k <= s.seq_num
      BY <3>1 DEF Ready, Safe, SeqNumOK
    <3>3. s.seq_num \in Nat /\ t.seq_num \in Nat
      BY SMTT(20) DEF Ready, Local, IsNode
    <3> QED BY SMTT(20), <3>1, <3>2, <3>3
  <2> QED BY <2>1, <2>2
<1>8. Backed(t, nd, C)
  BY <1>1, <1>4, <1>5, <1>6, CarriedBacked DEF Ready, Safe
<1> QED
  BY <1>3, <1>4, <1>7, <1>8 DEF Ready, Safe

\* A checkpoint made after a multiple of K executions is backed by them.
LEMMA MakeCheckpointSafe ==
  ASSUME NEW s, NEW nd, NEW C, Ready(s, nd, C), s.last_exec % K = 0
  PROVE  Ready(make_checkpoint(s), nd, C) /\ Extended(s, make_checkpoint(s))
<1> DEFINE m == OwnCheckpoint(s)
           n == s.last_exec
           d == get_checkpoint_digest(s)
<1>0. Local(s)
  BY DEF Ready
<1>1. PICK t : /\ Local(t) /\ SameExcept(s, t, {"checkpoints"})
               /\ t.checkpoints = OwnVote(s)
               /\ m \in Message
               /\ make_checkpoint(s) = broadcast(t, m)
  BY <1>0, MakeCheckpointLocal
<1>2. /\ t.id = s.id /\ t.h = s.h /\ t.reqlog = s.reqlog
      /\ t.last_stable_digest = s.last_stable_digest /\ t.executed = s.executed
      /\ t.voted = s.voted /\ t.out = s.out /\ t.view = s.view /\ t.seq_num = s.seq_num
  BY <1>1 DEF SameExcept, NodeFields
<1>3. Extended(s, t)
  <2>1. Extended(s, s)
    BY Zenon, <1>0, ExtendedReflexive
  <2> QED BY ZenonT(40), <1>2, <2>1 DEF Extended, Grows, Sticky
<1>4. Peers(t, nd, C) /\ AllGrow(s, nd, t, nd, C)
  BY <1>3, PeersStay DEF Extended, Ready
<1>5. n \in Nat /\ n = Len(s.executed) /\ Reached(t, n, d)
  BY SMTT(20), <1>0, <1>2 DEF Local, IsNode, Reached, get_checkpoint_digest, ServiceState
<1>6. CheckpointsOK(t, nd, C)
  <2> SUFFICES ASSUME NEW k \in DOMAIN t.checkpoints, NEW x \in t.checkpoints[k].votes,
                      x[2] \in C
               PROVE  k % K = 0 /\ Reached(Peer(t, nd, x[2]), k, x[1])
    BY DEF CheckpointsOK
  <2>1. \/ k = n /\ x = <<d, s.id>>
        \/ k \in DOMAIN s.checkpoints /\ x \in s.checkpoints[k].votes
    <3> DEFINE cp == At(s.checkpoints, n, NewCheckpoint)
               new == [cp EXCEPT !.votes = @ \cup {<<d, s.id>>}]
    <3>1. cp \in Checkpoint
      BY ZenonT(40), <1>0 DEF At, NewCheckpoint, Checkpoint, Local, IsNode, IsMap
    <3>2. new.votes = cp.votes \cup {<<d, s.id>>}
      <4> HIDE DEF cp, d
      <4> QED BY <3>1 DEF Checkpoint
    <3>3. n \notin DOMAIN s.checkpoints => cp.votes = {}
      BY DEF At, NewCheckpoint
    <3>4. n \in DOMAIN s.checkpoints => cp = s.checkpoints[n]
      BY SMTT(20) DEF At
    <3>5. t.checkpoints = Put(s.checkpoints, n, new)
      BY <1>1 DEF OwnVote
    <3> HIDE DEF new, cp, d, n
    <3>6. CASE k = n
      <4>1. t.checkpoints[k] = new
        BY <3>5, <3>6 DEF Put
      <4> QED BY SMTT(20), <3>2, <3>3, <3>4, <3>6, <4>1
    <3>7. CASE k # n
      <4>1. k \in DOMAIN s.checkpoints /\ t.checkpoints[k] = s.checkpoints[k]
        BY <3>5, <3>7 DEF Put
      <4> QED BY SMTT(20), <4>1
    <3> QED BY <3>6, <3>7
  <2>2. CASE k = n /\ x = <<d, s.id>>
    <3>1. x[2] = t.id /\ x[1] = d
      <4> HIDE DEF d
      <4> QED BY <1>2, <2>2
    <3> QED BY <1>5, <2>2, <3>1 DEF Peer
  <2>3. CASE k \in DOMAIN s.checkpoints /\ x \in s.checkpoints[k].votes
    <3>1. k \in Nat
      BY ZenonT(40), <1>0, <2>3 DEF Local, IsNode, IsMap
    <3>2. k % K = 0 /\ Reached(Peer(s, nd, x[2]), k, x[1])
      BY <2>3 DEF Ready, Safe, Backed, CheckpointsOK
    <3> DEFINE y == x[1]
    <3>3. \A q \in C : Reached(Peer(s, nd, q), k, y) => Reached(Peer(t, nd, q), k, y)
      <4> HIDE DEF y
      <4> QED BY ZenonT(40), <1>0, <1>1, <1>4, <3>1, BackingMonotone DEF Ready
    <3> QED BY ZenonT(40), <3>2, <3>3
  <2> QED BY <2>1, <2>2, <2>3
<1>7. VotedOK(t) /\ SeqNumOK(t)
  BY SMTT(20), <1>2 DEF Ready, Safe, Backed, VotedOK, SeqNumOK, is_primary, primary
<1>8. Ready(t, nd, C)
  <2>1. Backed(t, nd, C)
    BY <1>0, <1>1, <1>2, <1>4, <1>6, <1>7, CarriedBacked DEF Ready, Safe
  <2> QED BY <1>1, <1>4, <1>7, <2>1 DEF Ready, Safe
<1>9. MessageOK(m, t)
  <2>1. /\ m.type = "checkpoint" /\ m.replica_id = s.id /\ m.seq_num = n
        /\ m.state_digest = d
    BY DEF OwnCheckpoint, CheckpointMsg
  <2> HIDE DEF m, d, n
  <2> QED BY <1>2, <1>5, <2>1 DEF MessageOK, n
<1> HIDE DEF m
<1>10. /\ Local(broadcast(t, m)) /\ Peers(broadcast(t, m), nd, C)
       /\ Extended(t, broadcast(t, m)) /\ Safe(broadcast(t, m), nd, C)
  BY SMTT(20), <1>1, <1>8, <1>9, BroadcastSafe DEF Ready, Safe
<1> QED
  BY <1>0, <1>1, <1>3, <1>10, ExtendedTransitive DEF Ready

\* What a round executes was committed by a quorum.
LEMMA ExecuteRoundSafe ==
  ASSUME NEW s, NEW nd, NEW C, Ready(s, nd, C)
  PROVE  Ready(ExecuteRound(s), nd, C) /\ Extended(s, ExecuteRound(s))
<1>0. Local(s)
  BY SMTT(20) DEF Ready
<1>1. CASE ~CanExecute(s)
  BY <1>0, <1>1, ExtendedReflexive DEF ExecuteRound
<1>2. CASE CanExecute(s)
  <2> DEFINE n == s.last_exec + 1
             e == s.reqlog[n]
  <2>1. PICK t : /\ Local(t) /\ SameExcept(s, t, ExecuteFields)
                 /\ t.last_exec = n
                 /\ t.executed = Append(s.executed,
                      [req |-> s.reqlog[t.last_exec].req,
                       digest |-> s.reqlog[t.last_exec].digest])
                 /\ ExecuteNext(s) = IF t.last_exec % K = 0
                                     THEN make_checkpoint(t) ELSE t
    BY <1>0, <1>2, ExecuteNextLocal
  <2>2. /\ t.id = s.id /\ t.h = s.h /\ t.reqlog = s.reqlog /\ t.checkpoints = s.checkpoints
        /\ t.last_stable_digest = s.last_stable_digest
        /\ t.voted = s.voted /\ t.out = s.out /\ t.view = s.view /\ t.seq_num = s.seq_num
    BY <2>1 DEF SameExcept, NodeFields, ExecuteFields
  <2>3. /\ n \in DOMAIN s.reqlog /\ e.stage = "COMMITTED"
        /\ n \in Nat /\ n = Len(s.executed) + 1 /\ s.executed \in Seq([req : Request, digest : Digest])
    BY ZenonT(40), <1>0, <1>2 DEF CanExecute, Local, IsNode, IsMap
  <2>4. /\ Len(t.executed) = n
        /\ t.executed[n].digest = e.digest
        /\ \A k \in 1..Len(s.executed) : t.executed[k] = s.executed[k]
    <3> DEFINE x == [req |-> e.req, digest |-> e.digest]
    <3>1. t.executed = Append(s.executed, x) /\ x.digest = e.digest
      BY <2>1
    <3> HIDE DEF x, n
    <3> QED BY SMTT(20), <2>3, <3>1
  <2>5. Extended(s, t)
    <3> HIDE DEF n
    <3> QED BY SMTT(20), <2>2, <2>3, <2>4 DEF Extended, Grows, Sticky
  <2>6. Peers(t, nd, C) /\ AllGrow(s, nd, t, nd, C)
    BY <2>5, PeersStay DEF Extended, Ready
  <2>7. Cardinality(Committers(t, nd, C, n, e.digest)) >= 2 * f + 1
    <3> DEFINE A == Committers(s, nd, C, n, e.digest)
               B == Committers(t, nd, C, n, e.digest)
    <3>1. A \subseteq B
      <4> HIDE DEF n, e
      <4> QED BY ZenonT(40), <1>0, <2>1, <2>3, <2>6, BackingMonotone DEF Ready
    <3>2. e.commits \subseteq A /\ Cardinality(e.commits) >= 2 * f + 1
      BY <2>3 DEF Ready, Safe, Backed, CommitsOK
    <3>3. B \subseteq Replicas /\ f \in Nat
      BY ConstantTypes DEF Committers
    <3> HIDE DEF A, B, e
    <3>4. Cardinality(B) >= Cardinality(e.commits) /\ Cardinality(B) \in Nat
          /\ Cardinality(e.commits) \in Nat
      BY <3>1, <3>2, <3>3, LargerSet
    <3>5. Cardinality(B) >= 2 * f + 1
      BY SMTT(20), <3>2, <3>3, <3>4
    <3> QED BY <3>5 DEF B
  <2>8. ExecutedOK(t, nd, C)
    <3> SUFFICES ASSUME NEW k \in 1..Len(t.executed)
                 PROVE  Cardinality(Committers(t, nd, C, k, t.executed[k].digest)) >= 2 * f + 1
      BY DEF ExecutedOK
    <3>1. CASE k = n
      BY SMTT(20), <2>4, <2>7, <3>1
    <3>2. CASE k # n
      <4>1. k \in 1..Len(s.executed)
        BY SMTT(30), <2>3, <2>4, <3>2
      <4>2. ExecutedOK(s, nd, C)
        BY DEF Ready, Safe, Backed
      <4> QED BY <1>0, <2>1, <2>6, <4>1, <4>2, Carried DEF Ready
    <3> QED BY <3>1, <3>2
  <2>9. VotedOK(t) /\ SeqNumOK(t)
    BY SMTT(20), <2>2 DEF Ready, Safe, Backed, VotedOK, SeqNumOK, is_primary, primary
  <2>10. Ready(t, nd, C)
    <3>1. Local(t)
      BY <2>1
    <3> QED BY <2>2, <2>6, <2>8, <2>9, <3>1, Carried DEF Ready, Safe, Backed
  <2>11. CASE t.last_exec % K = 0
    <3>1. ExecuteRound(s) = make_checkpoint(t)
      BY SMTT(20), <1>2, <2>1, <2>11 DEF ExecuteRound
    <3>2. Ready(make_checkpoint(t), nd, C) /\ Extended(t, make_checkpoint(t))
      BY <2>10, <2>11, MakeCheckpointSafe
    <3> QED BY ZenonT(40), <1>0, <2>5, <2>10, <3>1, <3>2, ExtendedTransitive DEF Ready
  <2>12. CASE t.last_exec % K # 0
    BY ZenonT(40), <1>2, <2>1, <2>5, <2>10, <2>12 DEF ExecuteRound
  <2> QED BY <2>11, <2>12
<1> QED
  BY <1>1, <1>2

\* try_execute keeps the node safe.
LEMMA TryExecuteSafe ==
  ASSUME NEW s, NEW nd, NEW C, Ready(s, nd, C)
  PROVE  Ready(try_execute(s), nd, C) /\ Extended(s, try_execute(s))
<1>0. Local(s)
  BY SMTT(20) DEF Ready
<1>a. PICK n \in Nat : \E r : IsExecution(r, s, n) /\ try_execute(s) = r[n]
  BY <1>0, TryExecuteRounds
<1>1. PICK r : IsExecution(r, s, n) /\ try_execute(s) = r[n]
  BY <1>a
<1> DEFINE P(m) == Ready(r[m], nd, C) /\ Extended(s, r[m])
           T == {m \in Nat : m <= n /\ ~P(m)}
<1>2. SUFFICES ASSUME T # {} PROVE FALSE
  BY SMTT(20), <1>1
<1>3. PICK m \in T : \A y \in T : m <= y
  <2>1. T \subseteq Nat
    OBVIOUS
  <2> HIDE DEF T
  <2> QED BY <1>2, <2>1, LeastNumber
<1>4. m \in Nat /\ m <= n /\ ~P(m)
  OBVIOUS
<1>5. \A k \in 0..n : r[k] = IF k = 0 THEN s ELSE ExecuteRound(r[k - 1])
  BY <1>1 DEF IsExecution
<1>6. m # 0
  BY SMTT(30), <1>0, <1>4, <1>5, ExtendedReflexive
<1>7. m - 1 \in Nat /\ m - 1 < m /\ m - 1 <= n /\ m \in 0..n
  BY SMTT(20), <1>4, <1>6
<1>8. P(m - 1)
  <2> HIDE DEF P
  <2> QED BY SMTT(20), <1>3, <1>7
<1>9. r[m] = ExecuteRound(r[m - 1])
  BY <1>5, <1>6, <1>7
<1>10. Ready(r[m], nd, C) /\ Extended(r[m - 1], r[m])
  BY <1>8, <1>9, ExecuteRoundSafe
<1>11. P(m)
  BY <1>0, <1>8, <1>10, ExtendedTransitive DEF Ready
<1> QED
  BY <1>4, <1>11

\* An entry of the log, as CommitsOK describes it.
LEMMA EntryBacked ==
  ASSUME NEW s, NEW nd, NEW C, Ready(s, nd, C), NEW n
  PROVE  LET e == At(s.reqlog, n, NewEntry)
         IN  /\ e \in Entry /\ EntryOK(e)
             /\ e.commits \subseteq Committers(s, nd, C, n, e.digest)
             /\ e.stage = "COMMITTED" => Cardinality(e.commits) >= 2 * f + 1
             /\ is_primary(s) /\ e.has_preprepare => n <= s.seq_num
<1> DEFINE e == At(s.reqlog, n, NewEntry)
<1>1. e \in Entry /\ EntryOK(e)
  BY EntryAt DEF Ready
<1>2. CASE n \in DOMAIN s.reqlog
  <2>1. e = s.reqlog[n]
    BY <1>2 DEF At
  <2> HIDE DEF e
  <2>2. /\ e.commits \subseteq Committers(s, nd, C, n, e.digest)
        /\ e.stage = "COMMITTED" => Cardinality(e.commits) >= 2 * f + 1
    BY <1>2, <2>1 DEF Ready, Safe, Backed, CommitsOK
  <2>3. is_primary(s) /\ e.has_preprepare => n <= s.seq_num
    BY <1>2, <2>1 DEF Ready, Safe, SeqNumOK
  <2> QED BY <1>1, <2>2, <2>3 DEF e
<1>3. CASE n \notin DOMAIN s.reqlog
  <2>1. e.commits = {} /\ e.stage = "NONE" /\ e.has_preprepare = FALSE
    BY <1>3 DEF At, NewEntry
  <2> HIDE DEF e
  <2> QED BY <1>1, <2>1 DEF e
<1> QED
  BY <1>2, <1>3

\* try_commit keeps the node safe: a committed entry has its quorum.
LEMMA TryCommitSafe ==
  ASSUME NEW s, NEW nd, NEW C, Ready(s, nd, C), NEW n \in DOMAIN s.reqlog
  PROVE  Ready(try_commit(s, n), nd, C) /\ Extended(s, try_commit(s, n))
<1>0. Local(s) /\ n \in Nat
  BY InLogInWindow DEF Ready
<1>1. CASE try_commit(s, n) = s
  BY <1>0, <1>1, ExtendedReflexive
<1>2. CASE \E t : /\ Local(t) /\ CommittedAt(s, n, t)
                  /\ try_commit(s, n) = try_execute(t)
  <2>1. PICK t : /\ Local(t) /\ CommittedAt(s, n, t)
                 /\ try_commit(s, n) = try_execute(t)
    BY SMTT(20), <1>2
  <2> DEFINE e == At(s.reqlog, n, NewEntry)
             e2 == [e EXCEPT !.stage = "COMMITTED"]
  <2>2. /\ e \in Entry
        /\ e.commits \subseteq Committers(s, nd, C, n, e.digest)
        /\ is_primary(s) /\ e.has_preprepare => n <= s.seq_num
    BY EntryBacked
  <2>3. e = s.reqlog[n]
    BY DEF At
  <2>4. Cardinality(e.commits) >= 2 * f + 1 /\ EntryStored(s, n, e2, t)
    BY <2>1, <2>3 DEF CommittedAt
  <2>5. /\ e2.has_preprepare = e.has_preprepare /\ e2.digest = e.digest
        /\ e2.commits = e.commits
    <3> HIDE DEF e
    <3> QED BY ZenonT(40), <2>2 DEF Entry
  <2>6. /\ SameExcept(s, t, {"reqlog", "timer", "timer_running", "seq_num"})
        /\ t.reqlog = Put(s.reqlog, n, e2) /\ t.seq_num = s.seq_num
        /\ s.seq_num \in Nat
    <3> HIDE DEF e2
    <3> QED BY <1>0, <2>4 DEF EntryStored, SameExcept, NodeFields, Local, IsNode
  <2>7. s.seq_num <= t.seq_num
    BY SMTT(20), <2>6
  <2>8. Ready(t, nd, C) /\ Extended(s, t)
    <3>1. Local(t)
      BY <2>1
    <3>2. /\ e.has_preprepare => e2.has_preprepare /\ e2.digest = e.digest
          /\ e2.commits \subseteq Committers(s, nd, C, n, e2.digest)
          /\ Cardinality(e2.commits) >= 2 * f + 1
          /\ is_primary(s) /\ e2.has_preprepare => n <= t.seq_num
      <4> HIDE DEF e, e2
      <4> QED BY <2>2, <2>4, <2>5, <2>6
    <3> HIDE DEF e2
    <3> QED BY <1>0, <2>6, <2>7, <3>1, <3>2, EntrySafe
  <2>9. Ready(try_execute(t), nd, C) /\ Extended(t, try_execute(t))
    BY <2>8, TryExecuteSafe
  <2> QED BY ZenonT(40), <1>0, <2>1, <2>8, <2>9, ExtendedTransitive DEF Ready
<1> QED
  BY ZenonT(40), <1>0, <1>1, <1>2, TryCommitLocal

\* The vote for the digest of an entry.
LEMMA VoteSafe ==
  ASSUME NEW s, NEW nd, NEW C, Ready(s, nd, C),
         NEW n \in DOMAIN s.reqlog, s.reqlog[n].has_preprepare
  PROVE  LET x == <<n, s.reqlog[n].digest>>
             t == [s EXCEPT !.voted = @ \cup {x}]
         IN  /\ Ready(t, nd, C) /\ Extended(s, t)
             /\ SameExcept(s, t, {"voted"}) /\ t.voted = s.voted \cup {x}
<1> USE SMTT(30)
<1> DEFINE d == s.reqlog[n].digest
           x == <<n, d>>
           t == [s EXCEPT !.voted = @ \cup {x}]
<1>0. Local(s) /\ n \in Nat /\ d \in Digest
  <2>1. Local(s)
    BY Zenon DEF Ready
  <2>2. n \in Nat /\ s.reqlog[n] \in Entry
    BY ZenonT(40), <2>1, InLogInWindow
  <2> QED BY <2>1, <2>2 DEF Entry
<1>1. SameExcept(s, t, {"voted"}) /\ t.voted = s.voted \cup {x}
  BY ZenonT(40), <1>0 DEF Local, IsNode, SameExcept, NodeFields
<1> HIDE DEF t
<1>2. /\ t.id = s.id /\ t.h = s.h /\ t.reqlog = s.reqlog /\ t.checkpoints = s.checkpoints
      /\ t.last_stable_digest = s.last_stable_digest /\ t.executed = s.executed
      /\ t.out = s.out /\ t.view = s.view /\ t.seq_num = s.seq_num
  BY Zenon, <1>1 DEF SameExcept, NodeFields
<1>3. Local(t)
  <2>1. t.voted \subseteq Nat \X Digest
    <3>1. s.voted \subseteq Nat \X Digest
      BY ZenonT(40), <1>0 DEF Local, IsNode
    <3> HIDE DEF d
    <3> QED BY <1>0, <1>1, <3>1
  <2>2. IsNode(t)
    BY ZenonT(40), <1>0, <1>1, <2>1 DEF Local, IsNode, SameExcept, NodeFields
  <2>3. SameExcept(s, t, Loose)
    BY Zenon, <1>1 DEF SameExcept, Loose
  <2> QED BY <1>0, <2>2, <2>3, LocalFrame
<1>4. Extended(s, t)
  <2>1. Extended(s, s)
    BY Zenon, <1>0, ExtendedReflexive
  <2> QED BY ZenonT(40), <1>1, <1>2, <2>1 DEF Extended, Grows, Sticky
<1>5. Peers(t, nd, C) /\ AllGrow(s, nd, t, nd, C)
  BY <1>4, PeersStay DEF Extended, Ready
<1>6. VotedOK(t)
  <2>1. VotedOK(s) /\ s.h % K = 0
    BY Zenon DEF Ready, Safe, Backed, StableOK
  <2>2. x[1] = n /\ x[2] = d
    <3> HIDE DEF d
    <3> QED OBVIOUS
  <2> HIDE DEF x
  <2>3. ASSUME NEW y \in t.voted
        PROVE  \/ y[1] <= s.h
               \/ /\ y[1] \in DOMAIN s.reqlog /\ s.reqlog[y[1]].has_preprepare
                  /\ s.reqlog[y[1]].digest = y[2]
    <3>1. CASE y = x
      BY Zenon, <2>2, <3>1
    <3>2. CASE y \in s.voted
      BY Zenon, <2>1, <3>2 DEF VotedOK
    <3> QED BY Zenon, <1>1, <3>1, <3>2
  <2>4. n <= s.h => n % K = 0
    <3>1. n \in s.h .. H(s) /\ s.h \in Nat
      BY <1>0 DEF Local, IsNode
    <3> QED BY <1>0, <2>1, <3>1
  <2>5. ASSUME NEW y \in s.voted, y[1] = n, y[2] # d
        PROVE  n % K = 0 /\ n <= s.h
    <3>1. n <= s.h
      BY ZenonT(40), <2>3, <2>5, <1>1
    <3> QED BY Zenon, <2>4, <3>1
  <2>6. ASSUME NEW y \in t.voted, NEW z \in t.voted, y[1] = z[1], y[2] # z[2]
        PROVE  y[1] % K = 0 /\ y[1] <= s.h
    <3>1. CASE y \in s.voted /\ z \in s.voted
      BY ZenonT(40), <2>1, <2>6, <3>1 DEF VotedOK
    <3>2. CASE y = x /\ z \in s.voted
      BY ZenonT(40), <2>2, <2>5, <2>6, <3>2
    <3>3. CASE y \in s.voted /\ z = x
      BY <2>2, <2>5, <2>6, <3>3
    <3>4. CASE y = x /\ z = x
      BY Zenon, <2>6, <3>4
    <3> QED BY ZenonT(40), <1>1, <3>1, <3>2, <3>3, <3>4
  <2> QED BY <1>2, <2>3, <2>6 DEF VotedOK
<1>7. SeqNumOK(t)
  BY <1>2 DEF Ready, Safe, SeqNumOK, is_primary, primary
<1>8. Ready(t, nd, C)
  BY ZenonT(30), <1>0, <1>2, <1>3, <1>5, <1>6, <1>7, Carried DEF Ready, Safe, Backed, ExecutedOK
<1> QED
  BY ZenonT(40), <1>1, <1>4, <1>8 DEF t

\* try_prepare keeps the node safe: the Commit it broadcasts is for the digest
\* of the log.
LEMMA TryPrepareSafe ==
  ASSUME NEW s, NEW nd, NEW C, Ready(s, nd, C), NEW n \in DOMAIN s.reqlog
  PROVE  Ready(try_prepare(s, n), nd, C) /\ Extended(s, try_prepare(s, n))
<1>0. Local(s) /\ n \in Nat
  BY DEF Ready, Local, IsNode, IsMap
<1>1. CASE try_prepare(s, n) = s
  BY ZenonT(40), <1>0, <1>1, ExtendedReflexive
<1>2. CASE \E t : /\ Local(t) /\ PreparedAt(s, n, t)
                  /\ OwnCommit(s, n) \in Message
                  /\ n \in DOMAIN broadcast(t, OwnCommit(s, n)).reqlog
                  /\ try_prepare(s, n) = try_commit(broadcast(t, OwnCommit(s, n)), n)
  <2> DEFINE m == OwnCommit(s, n)
             d == s.reqlog[n].digest
             x == <<n, d>>
             w == [s EXCEPT !.voted = @ \cup {x}]
             e == At(w.reqlog, n, NewEntry)
             e2 == [e EXCEPT !.stage = "PREPARED", !.commits = @ \cup {s.id}]
  <2>1. PICK t : /\ Local(t) /\ PreparedAt(s, n, t) /\ m \in Message
                 /\ n \in DOMAIN broadcast(t, m).reqlog
                 /\ try_prepare(s, n) = try_commit(broadcast(t, m), n)
    BY <1>2
  <2>2. /\ Ready(w, nd, C) /\ Extended(s, w)
        /\ SameExcept(s, w, {"voted"}) /\ w.voted = s.voted \cup {x}
    <3>1. s.reqlog[n].has_preprepare
      BY <2>1 DEF PreparedAt
    <3> QED BY SMTT(20), <3>1, VoteSafe
  <2> HIDE DEF w
  <2>3. w.reqlog = s.reqlog /\ w.id = s.id /\ w.seq_num = s.seq_num
    BY <2>2 DEF SameExcept, NodeFields
  <2>4. e = s.reqlog[n]
    BY <2>3 DEF At
  <2>5. /\ e \in Entry
        /\ e.commits \subseteq Committers(w, nd, C, n, e.digest)
        /\ is_primary(w) /\ e.has_preprepare => n <= w.seq_num
    BY ZenonT(40), <2>2, EntryBacked
  <2>6. /\ SameExcept(s, t, {"reqlog", "voted"})
        /\ t.reqlog = Put(w.reqlog, n, e2)
        /\ t.voted = w.voted
    BY SMTT(30), <2>1, <2>2, <2>3, <2>4 DEF PreparedAt
  <2>7. /\ e2.has_preprepare = e.has_preprepare /\ e2.digest = e.digest
        /\ e2.commits = e.commits \cup {s.id} /\ e2.stage = "PREPARED"
    <3> HIDE DEF e
    <3> QED BY <2>5 DEF Entry
  <2>8. s.id \in Committers(w, nd, C, n, e.digest)
    <3>1. s.id \in Replicas
      BY ZenonT(40), <1>0 DEF Local, IsNode
    <3>2. x \in w.voted /\ x = <<n, e.digest>>
      <4> HIDE DEF e
      <4> QED BY <2>2, <2>4
    <3> HIDE DEF e
    <3> QED BY ZenonT(40), <2>3, <3>1, <3>2 DEF Committers, Peer
  <2>9. SameExcept(w, t, {"reqlog", "timer", "timer_running", "seq_num"})
    <3> HIDE DEF e2
    <3>1. \A y \in NodeFields \ {"reqlog", "voted"} : t[y] = s[y]
      BY <2>6 DEF SameExcept
    <3>2. \A y \in NodeFields \ {"voted"} : w[y] = s[y]
      BY <2>2 DEF SameExcept
    <3>3. \A y \in NodeFields \ {"reqlog"} : t[y] = w[y]
      BY <2>6, <3>1, <3>2
    <3> QED BY <2>6, <3>3 DEF SameExcept
  <2>10. t.seq_num = w.seq_num /\ w.seq_num <= t.seq_num
    <3>1. t.seq_num = s.seq_num
      BY <2>6 DEF SameExcept, NodeFields
    <3>2. s.seq_num \in Nat
      BY ZenonT(40), <1>0 DEF Local, IsNode
    <3> QED BY SMTT(20), <2>3, <3>1, <3>2
  <2>11. Ready(t, nd, C) /\ Extended(w, t)
    <3>1. Local(t) /\ Ready(w, nd, C)
      BY <2>1, <2>2
    <3>2. /\ e.has_preprepare => e2.has_preprepare /\ e2.digest = e.digest
          /\ e2.commits \subseteq Committers(w, nd, C, n, e2.digest)
          /\ e2.stage # "COMMITTED"
          /\ is_primary(w) /\ e2.has_preprepare => n <= t.seq_num
      <4> HIDE DEF e, e2
      <4> QED BY <2>5, <2>7, <2>8, <2>10
    <3>3. t.reqlog = Put(w.reqlog, n, e2)
      BY <2>6
    <3> HIDE DEF e2
    <3> QED BY <1>0, <2>9, <2>10, <3>1, <3>2, <3>3, EntrySafe
  <2>12. MessageOK(m, t)
    <3>1. m.type = "commit" /\ m.replica_id = s.id /\ m.seq_num = n /\ m.req_digest = d
      BY DEF OwnCommit, CommitMsg
    <3>2. t.id = s.id /\ x \in t.voted
      <4> HIDE DEF e2
      <4> QED BY <2>2, <2>6 DEF SameExcept, NodeFields
    <3> HIDE DEF m, d
    <3> QED BY <3>1, <3>2 DEF MessageOK
  <2> DEFINE b == broadcast(t, m)
  <2>13. Ready(b, nd, C) /\ Extended(t, b)
    <3> HIDE DEF m
    <3> QED BY ZenonT(40), <2>1, <2>11, <2>12, BroadcastSafe DEF Ready, Safe
  <2>14. Ready(try_commit(b, n), nd, C) /\ Extended(b, try_commit(b, n))
    <3>1. n \in DOMAIN b.reqlog
      BY <2>1
    <3> HIDE DEF b
    <3> QED BY <2>13, <3>1, TryCommitSafe
  <2>15. try_prepare(s, n) = try_commit(b, n)
    BY <2>1
  <2> HIDE DEF b
  <2>16. Extended(s, t)
    BY ZenonT(40), <1>0, <2>1, <2>2, <2>11, ExtendedTransitive DEF Ready
  <2>17. Extended(s, b)
    BY <1>0, <2>1, <2>16, <2>13, ExtendedTransitive DEF Ready
  <2>18. Extended(s, try_commit(b, n))
    BY ZenonT(40), <1>0, <2>13, <2>14, <2>17, ExtendedTransitive DEF Ready
  <2> QED BY ZenonT(40), <2>14, <2>15, <2>18
<1> QED
  BY ZenonT(40), <1>0, <1>1, <1>2, TryPrepareLocal

-----------------------------------------------------------------------------
(* The handlers. *)

\* A Commit from a correct replica is one it has voted.
CommitBacked(s, nd, C, m) ==
  m.replica_id \in C => <<m.seq_num, m.req_digest>> \in Peer(s, nd, m.replica_id).voted

\* on_commit keeps the node safe if the sender has voted for what it says.
LEMMA OnCommitSafe ==
  ASSUME NEW s, NEW nd, NEW C, Ready(s, nd, C), NEW m \in Vote, CommitBacked(s, nd, C, m)
  PROVE  Ready(on_commit(s, m), nd, C) /\ Extended(s, on_commit(s, m))
<1> USE SMTT(30)
<1> DEFINE n == m.seq_num
           e == At(s.reqlog, n, NewEntry)
           t == on_commit(s, m)
<1>0. Local(s) /\ n \in Nat /\ m.replica_id \in Replicas /\ s.seq_num \in Nat
  BY DEF Ready, Vote, Local, IsNode
<1>1. /\ e \in Entry
      /\ e.commits \subseteq Committers(s, nd, C, n, e.digest)
      /\ e.stage = "COMMITTED" => Cardinality(e.commits) >= 2 * f + 1
      /\ is_primary(s) /\ e.has_preprepare => n <= s.seq_num
  BY EntryBacked
<1>2. CASE t = s
  BY Zenon, <1>0, <1>2, ExtendedReflexive
<1>3. CASE EntryStored(s, n, e, t)
  <2>1. Local(t)
    BY ZenonT(40), <1>0, OnCommitLocal
  <2> HIDE DEF e, t
  <2>2. /\ SameExcept(s, t, {"reqlog", "timer", "timer_running", "seq_num"})
        /\ t.reqlog = Put(s.reqlog, n, e) /\ t.seq_num = s.seq_num
    BY <1>3 DEF EntryStored, SameExcept, NodeFields
  <2>3. s.seq_num <= t.seq_num
    BY <1>0, <2>2
  <2>4. Ready(t, nd, C) /\ Extended(s, t)
    <3>1. At(s.reqlog, n, NewEntry).has_preprepare =>
            e.has_preprepare /\ e.digest = At(s.reqlog, n, NewEntry).digest
      BY DEF e
    <3>2. is_primary(s) /\ e.has_preprepare => n <= t.seq_num
      BY ZenonT(40), <1>1, <2>2
    <3> QED BY ZenonT(40), <1>0, <1>1, <2>1, <2>2, <2>3, <3>1, <3>2, EntrySafe
  <2> QED BY <2>4 DEF t
<1>4. CASE \E u : /\ Local(u) /\ CommitCounted(s, m, u)
                  /\ n \in DOMAIN u.reqlog /\ t = try_commit(u, n)
  <2>1. PICK u : /\ Local(u) /\ CommitCounted(s, m, u)
                 /\ n \in DOMAIN u.reqlog /\ t = try_commit(u, n)
    BY <1>4
  <2> DEFINE e2 == [e EXCEPT !.commits = @ \cup {m.replica_id}]
  <2>2. e.has_preprepare /\ e.digest = m.req_digest /\ EntryStored(s, n, e2, u)
    BY Zenon, <2>1 DEF CommitCounted
  <2>3. /\ e2.has_preprepare = e.has_preprepare /\ e2.digest = e.digest
        /\ e2.commits = e.commits \cup {m.replica_id} /\ e2.stage = e.stage
    <3> HIDE DEF e
    <3> QED BY <1>1 DEF Entry
  <2>4. m.replica_id \in Committers(s, nd, C, n, e.digest)
    <3> HIDE DEF e
    <3> QED BY ZenonT(40), <1>0, <2>2 DEF CommitBacked, Committers
  <2>5. e2.stage = "COMMITTED" => Cardinality(e2.commits) >= 2 * f + 1
    <3>1. e2.commits \subseteq Replicas /\ e.commits \subseteq e2.commits
      <4> HIDE DEF e, e2
      <4> QED BY Zenon, <1>0, <1>1, <2>3 DEF Entry
    <3>2. f \in Nat
      BY ConstantTypes
    <3> HIDE DEF e, e2
    <3>3. /\ Cardinality(e.commits) \in Nat /\ Cardinality(e2.commits) \in Nat
          /\ Cardinality(e.commits) <= Cardinality(e2.commits)
      BY Zenon, <3>1, LargerSet
    <3> QED BY <1>1, <2>3, <3>2, <3>3
  <2>6. /\ SameExcept(s, u, {"reqlog", "timer", "timer_running", "seq_num"})
        /\ u.reqlog = Put(s.reqlog, n, e2) /\ u.seq_num = s.seq_num
    <3> HIDE DEF e2
    <3> QED BY <2>2 DEF EntryStored, SameExcept, NodeFields
  <2>7. s.seq_num <= u.seq_num
    BY <1>0, <2>6
  <2>8. Ready(u, nd, C) /\ Extended(s, u)
    <3>1. Local(u)
      BY <2>1
    <3>2. /\ e.has_preprepare => e2.has_preprepare /\ e2.digest = e.digest
          /\ e2.commits \subseteq Committers(s, nd, C, n, e2.digest)
          /\ is_primary(s) /\ e2.has_preprepare => n <= u.seq_num
      <4> HIDE DEF e, e2
      <4> QED BY ZenonT(40), <1>1, <2>3, <2>4, <2>6
    <3> HIDE DEF e2
    <3> QED BY ZenonT(30), <1>0, <2>5, <2>6, <2>7, <3>1, <3>2, EntrySafe
  <2>9. Ready(try_commit(u, n), nd, C) /\ Extended(u, try_commit(u, n))
    <3>1. n \in DOMAIN u.reqlog
      BY Zenon, <2>1
    <3> QED BY <2>8, <3>1, TryCommitSafe
  <2> HIDE DEF t
  <2>10. Ready(t, nd, C) /\ Extended(s, t)
    BY ZenonT(40), <1>0, <2>1, <2>8, <2>9, ExtendedTransitive DEF Ready
  <2> QED BY <2>10 DEF t
<1> QED
  BY ZenonT(40), <1>0, <1>2, <1>3, <1>4, OnCommitLocal

\* on_prepare keeps the node safe, whoever sends the Prepare.
LEMMA OnPrepareSafe ==
  ASSUME NEW s, NEW nd, NEW C, Ready(s, nd, C), NEW m \in Vote, NEW src
  PROVE  Ready(on_prepare(s, m, src), nd, C) /\ Extended(s, on_prepare(s, m, src))
<1> USE SMTT(30)
<1> DEFINE n == m.seq_num
           e == At(s.reqlog, n, NewEntry)
           e2 == [e EXCEPT !.prepares = @ \cup {m.replica_id}]
           t == on_prepare(s, m, src)
<1>0. Local(s) /\ n \in Nat /\ s.seq_num \in Nat
  BY ZenonT(40) DEF Ready, Vote, Local, IsNode
<1>1. CASE t = s
  BY Zenon, <1>0, <1>1, ExtendedReflexive
<1>2. CASE \E u : /\ Local(u) /\ PrepareCounted(s, m, u)
                  /\ n \in DOMAIN u.reqlog /\ t = try_prepare(u, n)
  <2>1. PICK u : /\ Local(u) /\ PrepareCounted(s, m, u)
                 /\ n \in DOMAIN u.reqlog /\ t = try_prepare(u, n)
    BY <1>2
  <2>2. /\ e \in Entry
        /\ e.commits \subseteq Committers(s, nd, C, n, e.digest)
        /\ e.stage = "COMMITTED" => Cardinality(e.commits) >= 2 * f + 1
        /\ is_primary(s) /\ e.has_preprepare => n <= s.seq_num
    BY Zenon, EntryBacked
  <2>3. /\ e2.has_preprepare = e.has_preprepare /\ e2.digest = e.digest
        /\ e2.commits = e.commits /\ e2.stage = e.stage
    <3> HIDE DEF e
    <3> QED BY <2>2 DEF Entry
  <2>4. /\ SameExcept(s, u, {"reqlog", "timer", "timer_running", "seq_num"})
        /\ u.reqlog = Put(s.reqlog, n, e2) /\ u.seq_num = s.seq_num
    <3>1. EntryStored(s, n, e2, u)
      BY <2>1 DEF PrepareCounted
    <3> HIDE DEF e2
    <3> QED BY <3>1 DEF EntryStored, SameExcept, NodeFields
  <2>5. Ready(u, nd, C) /\ Extended(s, u)
    <3>1. Local(u) /\ s.seq_num <= u.seq_num
      BY <1>0, <2>1, <2>4
    <3>2. /\ e.has_preprepare => e2.has_preprepare /\ e2.digest = e.digest
          /\ e2.commits \subseteq Committers(s, nd, C, n, e2.digest)
          /\ e2.stage = "COMMITTED" => Cardinality(e2.commits) >= 2 * f + 1
          /\ is_primary(s) /\ e2.has_preprepare => n <= u.seq_num
      <4> HIDE DEF e, e2
      <4> QED BY Zenon, <2>2, <2>3, <2>4
    <3> HIDE DEF e2
    <3> QED BY ZenonT(40), <1>0, <2>4, <3>1, <3>2, EntrySafe
  <2>6. Ready(try_prepare(u, n), nd, C) /\ Extended(u, try_prepare(u, n))
    <3>1. n \in DOMAIN u.reqlog
      BY Zenon, <2>1
    <3> QED BY Zenon, <2>5, <3>1, TryPrepareSafe
  <2> HIDE DEF t
  <2>7. Ready(t, nd, C) /\ Extended(s, t)
    BY ZenonT(40), <1>0, <2>1, <2>5, <2>6, ExtendedTransitive DEF Ready
  <2> QED BY ZenonT(40), <2>7 DEF t
<1> QED
  BY ZenonT(40), <1>0, <1>1, <1>2, OnPrepareLocal

\* The entry that an accepted or assigned PrePrepare leaves.
LEMMA PrePreparedFields ==
  ASSUME NEW e \in Entry, NEW v, NEW d, NEW req, NEW i
  PROVE  LET e2 == PrePrepared(e, v, d, req, i)
         IN  /\ e2.has_preprepare /\ e2.digest = d
             /\ e2.commits = e.commits /\ e2.stage = "PRE_PREPARED"
BY ZenonT(40) DEF PrePrepared, Entry

\* A PrePrepare is accepted only by a backup.
LEMMA OnPrePrepareImplSafe ==
  ASSUME NEW s, NEW nd, NEW C, Ready(s, nd, C), NEW m \in PrePrepare, ~is_primary(s)
  PROVE  /\ Ready(on_preprepare_impl(s, m), nd, C)
         /\ Extended(s, on_preprepare_impl(s, m))
         /\ ~is_primary(on_preprepare_impl(s, m))
<1> USE SMTT(30)
<1> DEFINE n == m.seq_num
           e == At(s.reqlog, n, NewEntry)
           e2 == PrePrepared(e, m.view, m.req_digest, m.req, s.id)
           t == on_preprepare_impl(s, m)
           p == OwnPrepare(s, m)
<1>0. Local(s) /\ n \in Nat /\ s.seq_num \in Nat
  BY Zenon DEF Ready, PrePrepare, Local, IsNode
<1>1. ~is_primary(t)
  <2>1. SameExcept(s, t, PhaseFields)
    BY <1>0, OnPrePrepareImplLocal
  <2>2. t.id = s.id /\ t.view = s.view
    <3> HIDE DEF t
    <3> QED BY <2>1 DEF SameExcept, NodeFields, PhaseFields, TryExecuteFields, ExecuteFields
  <2> HIDE DEF t
  <2> QED BY Zenon, <2>2 DEF is_primary, primary
<1>2. CASE t = s
  BY <1>0, <1>1, <1>2, ExtendedReflexive
<1>3. CASE \E u : /\ Local(u) /\ PrePrepareStored(s, m, u) /\ p \in Message
                  /\ n \in DOMAIN broadcast(u, p).reqlog
                  /\ t = try_prepare(broadcast(u, p), n)
  <2>1. PICK u : /\ Local(u) /\ PrePrepareStored(s, m, u) /\ p \in Message
                 /\ n \in DOMAIN broadcast(u, p).reqlog
                 /\ t = try_prepare(broadcast(u, p), n)
    BY <1>3
  <2>2. /\ e \in Entry /\ EntryOK(e)
        /\ e.commits \subseteq Committers(s, nd, C, n, e.digest)
    BY Zenon, EntryBacked
  <2>3. /\ e2.has_preprepare /\ e2.digest = m.req_digest
        /\ e2.commits = e.commits /\ e2.stage = "PRE_PREPARED"
    <3> HIDE DEF e
    <3> QED BY <2>2, PrePreparedFields
  <2>4. /\ e.has_preprepare => e.digest = m.req_digest
        /\ SameExcept(s, u, {"timer", "timer_running", "reqlog"})
        /\ u.reqlog = Put(s.reqlog, n, e2)
    BY Zenon, <2>1 DEF PrePrepareStored
  <2>5. /\ SameExcept(s, u, {"reqlog", "timer", "timer_running", "seq_num"})
        /\ u.seq_num = s.seq_num
    <3> HIDE DEF e, e2
    <3> QED BY <2>4 DEF SameExcept, NodeFields
  <2>6. Ready(u, nd, C) /\ Extended(s, u)
    <3>1. Local(u) /\ s.seq_num <= u.seq_num
      BY <1>0, <2>1, <2>5
    <3>2. /\ e.has_preprepare => e2.has_preprepare /\ e2.digest = e.digest
          /\ e2.commits \subseteq Committers(s, nd, C, n, e2.digest)
          /\ e2.stage # "COMMITTED"
      <4> HIDE DEF e, e2
      <4>1. e.has_preprepare => e2.digest = e.digest
        BY Zenon, <2>3, <2>4
      <4>2. ~e.has_preprepare => e.commits = {}
        BY Zenon, <2>2 DEF EntryOK
      <4>3. e2.commits \subseteq Committers(s, nd, C, n, e2.digest)
        BY ZenonT(40), <2>2, <2>3, <4>1, <4>2
      <4> QED BY Zenon, <2>3, <4>1, <4>3
    <3>3. u.reqlog = Put(s.reqlog, n, e2)
      BY <2>4
    <3> HIDE DEF e2
    <3> QED BY ZenonT(40), <1>0, <2>5, <3>1, <3>2, <3>3, EntrySafe
  <2>7. MessageOK(p, u)
    <3>1. p.type = "prepare"
      BY ZenonT(40) DEF OwnPrepare, PrepareMsg
    <3> HIDE DEF p
    <3> QED BY Zenon, <3>1 DEF MessageOK
  <2> DEFINE b == broadcast(u, p)
  <2>8. Ready(b, nd, C) /\ Extended(u, b)
    <3> HIDE DEF p
    <3> QED BY ZenonT(40), <2>1, <2>6, <2>7, BroadcastSafe DEF Ready, Safe
  <2>9. Ready(try_prepare(b, n), nd, C) /\ Extended(b, try_prepare(b, n))
    <3>1. n \in DOMAIN b.reqlog
      BY ZenonT(40), <2>1
    <3> HIDE DEF b
    <3> QED BY ZenonT(40), <2>8, <3>1, TryPrepareSafe
  <2>10. t = try_prepare(b, n)
    BY ZenonT(40), <2>1
  <2> HIDE DEF b, t
  <2>11. Extended(s, b)
    BY ZenonT(40), <1>0, <2>1, <2>6, <2>8, ExtendedTransitive DEF Ready
  <2>12. Ready(t, nd, C) /\ Extended(s, t)
    BY ZenonT(40), <1>0, <2>8, <2>9, <2>10, <2>11, ExtendedTransitive DEF Ready
  <2> QED BY Zenon, <1>1, <2>12 DEF t
<1> QED
  BY ZenonT(40), <1>0, <1>2, <1>3, OnPrePrepareImplLocal

\* A primary assigns a number it holds no PrePrepare for.
LEMMA SequenceAssignedSafe ==
  ASSUME NEW s, NEW t, NEW nd, NEW C, Ready(s, nd, C), Local(t), NEW m \in Request,
         SequenceAssigned(s, m, t)
  PROVE  Ready(t, nd, C) /\ Extended(s, t)
<1> USE SMTT(30)
<1> DEFINE n == s.seq_num + 1
           e == At(s.reqlog, n, NewEntry)
           e2 == PrePrepared(e, s.view, get_hash(m), m, s.id)
<1>0. Local(s) /\ n \in Nat /\ s.seq_num \in Nat
  <2>1. Local(s)
    BY ZenonT(40) DEF Ready
  <2>2. s.seq_num \in Nat
    BY ZenonT(40), <2>1 DEF Local, IsNode
  <2> QED BY <2>1, <2>2
<1>1. /\ is_primary(s)
      /\ SameExcept(s, t, {"seq_num", "reqlog"})
      /\ t.seq_num = n /\ t.reqlog = Put(s.reqlog, n, e2)
  BY ZenonT(40) DEF SequenceAssigned
<1>2. /\ e \in Entry /\ EntryOK(e)
      /\ is_primary(s) /\ e.has_preprepare => n <= s.seq_num
  BY EntryBacked
<1>3. ~e.has_preprepare /\ e.commits = {}
  <2>1. ~e.has_preprepare
    <3> HIDE DEF e
    <3> QED BY <1>0, <1>1, <1>2
  <2> HIDE DEF e
  <2> QED BY Zenon, <1>2, <2>1 DEF EntryOK
<1>4. /\ e2.has_preprepare /\ e2.commits = e.commits /\ e2.stage = "PRE_PREPARED"
  <2> HIDE DEF e
  <2> QED BY <1>2, PrePreparedFields
<1>5. SameExcept(s, t, {"reqlog", "timer", "timer_running", "seq_num"})
  <2> HIDE DEF e2
  <2> QED BY <1>1 DEF SameExcept
<1>6. /\ s.seq_num <= t.seq_num
      /\ e2.commits \subseteq Committers(s, nd, C, n, e2.digest)
      /\ e2.stage # "COMMITTED" /\ n <= t.seq_num
  <2> HIDE DEF e, e2
  <2> QED BY <1>0, <1>1, <1>3, <1>4
<1>7. t.reqlog = Put(s.reqlog, n, e2)
  BY Zenon, <1>1
<1> HIDE DEF e2, n
<1> QED
  BY ZenonT(40), <1>0, <1>3, <1>5, <1>6, <1>7, EntrySafe

\* on_request keeps the node safe.
LEMMA OnRequestSafe ==
  ASSUME NEW s, NEW nd, NEW C, Ready(s, nd, C), NEW m \in Request
  PROVE  Ready(on_request(s, m), nd, C) /\ Extended(s, on_request(s, m))
<1> USE SMTT(30)
<1> DEFINE t == on_request(s, m)
           p == OwnPrePrepare(s, m)
<1>0. Local(s) /\ Local(t)
  BY OnRequestLocal DEF Ready
<1>1. CASE SameExcept(s, t, {"replies"})
  <2> HIDE DEF t
  <2>1. SameExcept(s, t, Free)
    BY <1>1 DEF SameExcept, Free
  <2>2. SeqNumOK(t)
    <3>1. /\ t.id = s.id /\ t.view = s.view /\ t.seq_num = s.seq_num
          /\ t.reqlog = s.reqlog
      BY <1>1 DEF SameExcept, NodeFields
    <3> QED BY Zenon, <3>1 DEF Ready, Safe, SeqNumOK, is_primary, primary
  <2>3. Ready(t, nd, C) /\ Extended(s, t)
    BY ZenonT(40), <1>0, <2>1, <2>2, FreeBacked DEF Ready, Safe
  <2> QED BY Zenon, <2>3 DEF t
<1>2. CASE \E u : /\ Local(u) /\ SameExcept(s, u, {"timer", "timer_running"})
                  /\ t = send_to_replica(u, primary(s), m)
  <2>1. PICK u : /\ Local(u) /\ SameExcept(s, u, {"timer", "timer_running"})
                 /\ t = send_to_replica(u, primary(s), m)
    BY <1>2
  <2>2. SameExcept(s, u, Free)
    BY <2>1 DEF SameExcept, Free
  <2>3. SeqNumOK(u)
    <3>1. /\ u.id = s.id /\ u.view = s.view /\ u.seq_num = s.seq_num
          /\ u.reqlog = s.reqlog
      BY Zenon, <2>1 DEF SameExcept, NodeFields
    <3> QED BY Zenon, <3>1 DEF Ready, Safe, SeqNumOK, is_primary, primary
  <2>4. Ready(u, nd, C) /\ Extended(s, u)
    BY ZenonT(40), <1>0, <2>1, <2>2, <2>3, FreeBacked DEF Ready, Safe
  <2>5. m \in Message /\ m.type = "request"
    BY DEF Message, Request
  <2>6. primary(s) \in Replicas
    <3>1. s.view \in Nat
      BY ZenonT(40), <1>0 DEF Local, IsNode
    <3> QED BY ZenonT(40), <3>1, PrimaryIsReplica
  <2> DEFINE j == primary(s)
  <2> HIDE DEF j, t
  <2>7. /\ SameExcept(u, t, {"out"})
        /\ t.out = [k \in Replicas |->
             IF k = j /\ j # u.id THEN Append(u.out[k], m) ELSE u.out[k]]
    BY ZenonT(40), <2>1, <2>5, <2>6, SendToReplicaLocal DEF j
  <2>8. ASSUME OutOK(u), NEW i \in Replicas, NEW k \in 1..Len(t.out[i])
        PROVE  MessageOK(t.out[i][k], u)
    <3>1. u.out[i] \in Seq(Message)
      BY ZenonT(40), <2>1 DEF Local, IsNode
    <3>2. t.out[i] = Append(u.out[i], m) \/ t.out[i] = u.out[i]
      BY ZenonT(40), <2>7
    <3>3. (k \in 1..Len(u.out[i]) /\ t.out[i][k] = u.out[i][k]) \/ t.out[i][k] = m
      <4>1. PICK o, v : o = u.out[i] /\ v = t.out[i]
        BY Zenon
      <4>2. o \in Seq(Message) /\ (v = Append(o, m) \/ v = o) /\ k \in 1..Len(v)
        BY Zenon, <3>1, <3>2, <4>1
      <4>3. (k \in 1..Len(o) /\ v[k] = o[k]) \/ v[k] = m
        BY SMTT(20), <4>2
      <4> QED BY Zenon, <4>1, <4>3
    <3> QED BY ZenonT(40), <2>5, <2>8, <3>3 DEF OutOK, MessageOK
  <2>9. Ready(t, nd, C) /\ Extended(u, t)
    BY Zenon, <1>0, <2>1, <2>4, <2>7, <2>8, OutBacked DEF Ready, Safe
  <2>10. Ready(t, nd, C) /\ Extended(s, t)
    BY ZenonT(40), <1>0, <2>1, <2>4, <2>9, ExtendedTransitive
  <2> QED BY <2>10 DEF t
<1>3. CASE \E u : /\ Local(u) /\ SequenceAssigned(s, m, u) /\ p \in Message
                  /\ t = broadcast(u, p)
  <2>1. PICK u : /\ Local(u) /\ SequenceAssigned(s, m, u) /\ p \in Message
                 /\ t = broadcast(u, p)
    BY <1>3
  <2>2. Ready(u, nd, C) /\ Extended(s, u)
    BY <2>1, SequenceAssignedSafe
  <2>3. MessageOK(p, u)
    <3>1. p.type = "preprepare"
      BY Zenon DEF OwnPrePrepare, PrePrepareMsg
    <3> HIDE DEF p
    <3> QED BY <3>1 DEF MessageOK
  <2> HIDE DEF p, t
  <2>4. Ready(t, nd, C) /\ Extended(u, t)
    BY ZenonT(40), <2>1, <2>2, <2>3, BroadcastSafe DEF Ready, Safe
  <2>5. Ready(t, nd, C) /\ Extended(s, t)
    BY ZenonT(40), <1>0, <2>1, <2>2, <2>4, ExtendedTransitive
  <2> QED BY <2>5 DEF t
<1> QED
  BY ZenonT(40), <1>0, <1>1, <1>2, <1>3, OnRequestLocal

\* A Checkpoint from a correct replica is of a state it has reached.
CheckpointBacked(s, nd, C, m) ==
  m.replica_id \in C => /\ m.seq_num % K = 0
                        /\ Reached(Peer(s, nd, m.replica_id), m.seq_num, m.state_digest)

\* Every quorum has a correct member.
QuorumsMeet(C) ==
  \A Q \in SUBSET Replicas : Cardinality(Q) >= 2 * f + 1 => Q \cap C # {}

\* The votes on_checkpoint counts are backed.
LEMMA VoteAddedBacked ==
  ASSUME NEW s, NEW nd, NEW C, Ready(s, nd, C), NEW m \in CheckpointVote,
         CheckpointBacked(s, nd, C, m), NEW x \in VoteAdded(s, m).votes, x[2] \in C
  PROVE  m.seq_num % K = 0 /\ Reached(Peer(s, nd, x[2]), m.seq_num, x[1])
<1> DEFINE n == m.seq_num
           cp == At(s.checkpoints, n, NewCheckpoint)
           y == <<m.state_digest, m.replica_id>>
<1>1. cp \in Checkpoint
  <2>1. IsMap(s.checkpoints, Nat, Checkpoint)
    BY ZenonT(40) DEF Ready, Local, IsNode
  <2> QED BY <2>1 DEF At, NewCheckpoint, Checkpoint, IsMap
<1>2. VoteAdded(s, m).votes = cp.votes \cup {y}
  <2>1. VoteAdded(s, m) = [cp EXCEPT !.votes = @ \cup {y}]
    BY SMTT(20) DEF VoteAdded
  <2> HIDE DEF cp, y
  <2> QED BY <1>1, <2>1 DEF Checkpoint
<1>3. CASE x = y
  <2>1. x[1] = m.state_digest /\ x[2] = m.replica_id
    BY <1>3
  <2> QED BY SMTT(20), <2>1 DEF CheckpointBacked
<1>4. CASE x \in cp.votes
  <2>1. n \in DOMAIN s.checkpoints /\ cp = s.checkpoints[n]
    BY <1>4 DEF At, NewCheckpoint
  <2> HIDE DEF cp
  <2> QED BY <1>4, <2>1 DEF Ready, Safe, Backed, CheckpointsOK
<1> HIDE DEF cp, y
<1> QED
  BY <1>2, <1>3, <1>4

\* A checkpoint becomes stable only at a state a quorum attests.
LEMMA OnCheckpointSafe ==
  ASSUME NEW s, NEW nd, NEW C, Ready(s, nd, C), NEW m \in CheckpointVote,
         CheckpointBacked(s, nd, C, m), QuorumsMeet(C)
  PROVE  /\ Ready(on_checkpoint(s, m), nd, C)
         /\ Grows(s, on_checkpoint(s, m)) /\ Sticky(s, on_checkpoint(s, m))
         /\ OneMove(s, on_checkpoint(s, m))
<1> DEFINE n == m.seq_num
           d == m.state_digest
           cp == VoteAdded(s, m)
           t == on_checkpoint(s, m)
<1>0. Local(s) /\ Local(t)
  BY OnCheckpointLocal DEF Ready
<1>1. CASE t = s
  BY <1>0, <1>1, ExtendedReflexive DEF Extended, OneMove
<1>2. ASSUME VoteStored(s, m, t), AllGrow(s, nd, t, nd, C), Peers(t, nd, C)
      PROVE  CheckpointsOK(t, nd, C)
  <2> HIDE DEF t, cp
  <2> SUFFICES ASSUME NEW k \in DOMAIN t.checkpoints, NEW x \in t.checkpoints[k].votes,
                      x[2] \in C
               PROVE  k % K = 0 /\ Reached(Peer(t, nd, x[2]), k, x[1])
    BY DEF CheckpointsOK
  <2>1. k \in Nat
    BY ZenonT(40), <1>0 DEF Local, IsNode, IsMap
  <2>2. k % K = 0 /\ Reached(Peer(s, nd, x[2]), k, x[1])
    <3>1. CASE k = n
      <4>1. x \in VoteAdded(s, m).votes
        BY <1>2, <3>1 DEF VoteStored
      <4> QED BY <3>1, <4>1, VoteAddedBacked
    <3>2. CASE k # n
      <4>1. k \in DOMAIN s.checkpoints /\ x \in s.checkpoints[k].votes
        BY <1>2, <3>2 DEF VoteStored
      <4> QED BY <4>1 DEF Ready, Safe, Backed, CheckpointsOK
    <3> QED BY <3>1, <3>2
  <2> DEFINE y == x[1]
  <2>3. \A q \in C : Reached(Peer(s, nd, q), k, y) => Reached(Peer(t, nd, q), k, y)
    <3> HIDE DEF y
    <3> QED BY ZenonT(40), <1>0, <1>2, <2>1, BackingMonotone DEF Ready
  <2> QED BY <2>2, <2>3
<1>3. CASE VoteStored(s, m, t) /\ SameExcept(s, t, {"checkpoints"})
  <2> HIDE DEF t, cp
  <2>1. /\ t.id = s.id /\ t.h = s.h /\ t.reqlog = s.reqlog
        /\ t.last_stable_digest = s.last_stable_digest /\ t.executed = s.executed
        /\ t.voted = s.voted /\ t.out = s.out /\ t.view = s.view /\ t.seq_num = s.seq_num
    BY <1>3 DEF SameExcept, NodeFields
  <2>2. Extended(s, t)
    <3>1. Extended(s, s)
      BY Zenon, <1>0, ExtendedReflexive
    <3> QED BY ZenonT(40), <2>1, <3>1 DEF Extended, Grows, Sticky
  <2>3. Peers(t, nd, C) /\ AllGrow(s, nd, t, nd, C)
    BY <2>2, PeersStay DEF Extended, Ready
  <2>4. CheckpointsOK(t, nd, C)
    BY <1>2, <1>3, <2>3
  <2>5. VotedOK(t) /\ SeqNumOK(t)
    <3>1. VotedOK(s) /\ SeqNumOK(s)
      BY ZenonT(40) DEF Ready, Safe, Backed
    <3>2. VotedOK(t)
      <4>1. t.h = s.h /\ t.voted = s.voted /\ t.reqlog = s.reqlog
        BY Zenon, <2>1
      <4> QED BY SMTT(20), <3>1, <4>1 DEF VotedOK
    <3>3. SeqNumOK(t)
      BY ZenonT(40), <2>1, <3>1 DEF SeqNumOK, is_primary, primary
    <3> QED BY Zenon, <3>2, <3>3
  <2>6. Ready(t, nd, C)
    BY ZenonT(40), <1>0, <2>1, <2>3, <2>4, <2>5, Carried DEF Ready, Safe, Backed, ExecutedOK
  <2> QED BY <2>2, <2>6 DEF Extended, OneMove, t
<1>4. CASE VoteStored(s, m, t) /\ BecameStable(s, m, t)
  <2> DEFINE Q == Voters(cp, d)
             S == {k \in DOMAIN s.reqlog : k > n}
  <2>0. /\ Cardinality(Q) >= 2 * f + 1
        /\ SameExcept(s, t, {"checkpoints", "h", "seq_num", "reqlog", "last_stable_digest"})
        /\ t.h = n /\ t.last_stable_digest = d
        /\ t.reqlog = Restrict(s.reqlog, S)
        /\ \A k \in DOMAIN s.reqlog : k <= t.seq_num
        /\ s.h <= n
    BY <1>4 DEF BecameStable, VoteStored
  <2> HIDE DEF t, cp
  <2>1. /\ t.id = s.id /\ t.executed = s.executed
        /\ t.voted = s.voted /\ t.out = s.out /\ t.view = s.view
    BY <2>0 DEF SameExcept, NodeFields
  <2>2. /\ DOMAIN t.reqlog = S
        /\ \A k \in S : t.reqlog[k] = s.reqlog[k]
    BY <2>0 DEF Restrict
  <2>3. Grows(s, t) /\ Sticky(s, t)
    <3>1. Extended(s, s)
      BY Zenon, <1>0, ExtendedReflexive
    <3>2. Grows(s, t)
      BY ZenonT(40), <2>1, <3>1 DEF Extended, Grows
    <3>3. Sticky(s, t)
      BY ZenonT(40), <2>2 DEF Sticky
    <3> QED BY Zenon, <3>2, <3>3
  <2>4. Peers(t, nd, C) /\ AllGrow(s, nd, t, nd, C)
    BY <2>3, PeersStay DEF Ready
  <2>5. n \in Nat /\ s.h \in Nat /\ t.seq_num \in Nat /\ Q \subseteq Replicas
    BY ZenonT(40), <1>0 DEF CheckpointVote, Local, IsNode, Voters
  <2>6. \A q \in Q \cap C : n % K = 0 /\ Reached(Peer(s, nd, q), n, d)
    <3> SUFFICES ASSUME NEW q \in Q \cap C
                 PROVE  n % K = 0 /\ Reached(Peer(s, nd, q), n, d)
      OBVIOUS
    <3> DEFINE x == <<d, q>>
    <3>1. x \in VoteAdded(s, m).votes /\ x[1] = d /\ x[2] = q
      BY SMTT(20) DEF Voters, cp
    <3> HIDE DEF x
    <3> QED BY <3>1, VoteAddedBacked
  <2>7. n % K = 0
    <3>1. Q \cap C # {}
      <4> HIDE DEF Q
      <4> QED BY <2>0, <2>5 DEF QuorumsMeet
    <3> QED BY <2>6, <3>1
  <2>8. StableOK(t, nd, C)
    <3> DEFINE B == Attesters(t, nd, C, n, d)
    <3>1. \A q \in Q \cap C : Reached(Peer(t, nd, q), n, d)
      <4> HIDE DEF Q
      <4> QED BY ZenonT(40), <1>0, <2>4, <2>5, <2>6, BackingMonotone DEF Ready
    <3>2. Q \subseteq B /\ B \subseteq Replicas
      BY SMTT(20), <2>5, <3>1 DEF Attesters
    <3>3. Cardinality(B) >= 2 * f + 1
      <4> HIDE DEF Q, B
      <4>1. /\ Cardinality(Q) \in Nat /\ Cardinality(B) \in Nat
            /\ Cardinality(Q) <= Cardinality(B)
        BY <3>2, LargerSet
      <4> QED BY SMTT(20), <2>0, <4>1, ConstantTypes
    <3> QED BY <2>0, <2>7, <3>3 DEF StableOK
  <2>9. CheckpointsOK(t, nd, C)
    BY ZenonT(40), <1>2, <1>4, <2>4
  <2>10. CommitsOK(t, nd, C)
    <3> SUFFICES ASSUME NEW k \in DOMAIN t.reqlog
                 PROVE  /\ t.reqlog[k].commits
                             \subseteq Committers(t, nd, C, k, t.reqlog[k].digest)
                        /\ t.reqlog[k].stage = "COMMITTED" =>
                             Cardinality(t.reqlog[k].commits) >= 2 * f + 1
      BY DEF CommitsOK
    <3>1. k \in DOMAIN s.reqlog /\ t.reqlog[k] = s.reqlog[k] /\ k \in Nat
      BY ZenonT(40), <1>0, <2>2 DEF Local, IsNode, IsMap
    <3> DEFINE c == s.reqlog[k].digest
    <3>2. Committers(s, nd, C, k, c) \subseteq Committers(t, nd, C, k, c)
      <4> HIDE DEF c
      <4> QED BY ZenonT(40), <1>0, <2>4, <3>1, BackingMonotone DEF Ready
    <3>3. /\ s.reqlog[k].commits \subseteq Committers(s, nd, C, k, c)
          /\ s.reqlog[k].stage = "COMMITTED" => Cardinality(s.reqlog[k].commits) >= 2 * f + 1
      BY <3>1 DEF Ready, Safe, Backed, CommitsOK
    <3> QED BY <3>1, <3>2, <3>3
  <2>11. VotedOK(t)
    <3>1. VotedOK(s)
      BY DEF Ready, Safe, Backed
    <3>2. \A x \in s.voted : x[1] \in Nat
      <4>1. s.voted \subseteq Nat \X Digest
        BY <1>0 DEF Local, IsNode
      <4> QED BY ZenonT(40), <4>1
    <3>3. ASSUME NEW x \in s.voted, ~(x[1] <= n)
          PROVE  /\ x[1] \in DOMAIN t.reqlog /\ t.reqlog[x[1]].has_preprepare
                 /\ t.reqlog[x[1]].digest = x[2]
      <4>1. x[1] \in Nat /\ ~(x[1] <= s.h) /\ x[1] > n
        BY SMTT(20), <2>0, <2>5, <3>2, <3>3
      <4>2. /\ x[1] \in DOMAIN s.reqlog /\ s.reqlog[x[1]].has_preprepare
            /\ s.reqlog[x[1]].digest = x[2]
        BY <3>1, <4>1 DEF VotedOK
      <4> QED BY <2>2, <4>1, <4>2
    <3>4. \A x, y \in s.voted : x[1] = y[1] /\ x[2] # y[2] => x[1] % K = 0 /\ x[1] <= n
      <4>1. \A x, y \in s.voted : x[1] = y[1] /\ x[2] # y[2] => x[1] % K = 0 /\ x[1] <= s.h
        BY <3>1 DEF VotedOK
      <4> QED BY SMTT(20), <2>0, <2>5, <3>2, <4>1
    <3> QED BY ZenonT(40), <2>0, <2>1, <3>3, <3>4 DEF VotedOK
  <2>12. SeqNumOK(t)
    BY <2>0, <2>2 DEF SeqNumOK
  <2>13. Backed(t, nd, C)
    BY ZenonT(40), <1>0, <2>1, <2>4, <2>8, <2>9, <2>10, <2>11, Carried DEF Ready, Safe, Backed, ExecutedOK
  <2>14. Ready(t, nd, C)
    BY <1>0, <2>4, <2>12, <2>13 DEF Ready, Safe
  <2>15. OneMove(s, t)
    BY <2>0, <2>1 DEF OneMove
  <2> QED BY <2>3, <2>14, <2>15 DEF t
<1> QED
  <2>1. \/ t = s
        \/ VoteStored(s, m, t) /\ SameExcept(s, t, {"checkpoints"})
        \/ VoteStored(s, m, t) /\ BecameStable(s, m, t)
    BY <1>0, OnCheckpointLocal
  <2> QED BY ZenonT(40), <1>1, <1>3, <1>4, <2>1

\* recompute_highest_sequence restores what a new primary needs of seq_num_.
LEMMA SettleSafe ==
  ASSUME NEW s, NEW nd, NEW C, Local(s), Peers(s, nd, C), Backed(s, nd, C)
  PROVE  Ready(Settle(s), nd, C) /\ Extended(s, Settle(s))
<1> DEFINE t == Settle(s)
<1>1. /\ Local(t) /\ SameExcept(s, t, {"seq_num", "timer", "timer_running"})
      /\ \A n \in DOMAIN s.reqlog : n <= t.seq_num
  BY SettleLocal
<1> HIDE DEF t
<1>2. SameExcept(s, t, Free) /\ t.reqlog = s.reqlog
  BY <1>1 DEF SameExcept, NodeFields, Free
<1>3. Backed(t, nd, C) /\ Extended(s, t) /\ Peers(t, nd, C)
  BY <1>1, <1>2, FreeBacked
<1>4. SeqNumOK(t)
  BY <1>1, <1>2 DEF SeqNumOK
<1>5. Ready(t, nd, C)
  BY <1>1, <1>3, <1>4 DEF Ready, Safe
<1> QED
  BY <1>3, <1>5 DEF t

\* Entering a view keeps the node backed.
LEMMA EnterViewBacked ==
  ASSUME NEW s, NEW nd, NEW C, Local(s), Peers(s, nd, C), Backed(s, nd, C), NEW v \in Nat
  PROVE  LET t == EnterView(s, v)
         IN  Local(t) /\ Peers(t, nd, C) /\ Backed(t, nd, C) /\ Extended(s, t)
<1> DEFINE t == EnterView(s, v)
<1>1. /\ Local(t)
      /\ SameExcept(s, t, {"view", "view_changing", "view_change_timeout_count"})
  BY SMTT(20), EnterViewLocal
<1>2. SameExcept(s, t, Free)
  <2> HIDE DEF t
  <2> QED BY <1>1 DEF SameExcept, Free
<1>3. Peers(t, nd, C) /\ Backed(t, nd, C) /\ Extended(s, t)
  <2> HIDE DEF t
  <2> QED BY <1>1, <1>2, FreeBacked
<1> QED
  BY <1>1, <1>3

\* on_viewchange keeps the node safe, whatever the ViewChange says.
LEMMA OnViewChangeSafe ==
  ASSUME NEW s, NEW nd, NEW C, Ready(s, nd, C), NEW m \in ViewChange
  PROVE  Ready(on_viewchange(s, m), nd, C) /\ Extended(s, on_viewchange(s, m))
<1> DEFINE t == on_viewchange(s, m)
           v == m.next_view
<1>0. Local(s) /\ Local(t) /\ v \in Nat
  BY OnViewChangeLocal DEF Ready, ViewChange
<1>1. CASE t = s
  BY <1>0, <1>1, ExtendedReflexive
<1>2. ASSUME NEW u, Local(u), ViewChangeStored(s, m, u)
      PROVE  Ready(u, nd, C) /\ Extended(s, u)
  <2>1. SameExcept(s, u, {"view_change_store"})
    BY <1>2 DEF ViewChangeStored
  <2>2. SameExcept(s, u, Free)
    BY <2>1 DEF SameExcept, Free
  <2>3. /\ u.id = s.id /\ u.view = s.view /\ u.seq_num = s.seq_num
        /\ u.reqlog = s.reqlog
    BY <2>1 DEF SameExcept, NodeFields
  <2>4. SeqNumOK(u)
    BY <2>3 DEF Ready, Safe, SeqNumOK, is_primary, primary
  <2> QED BY ZenonT(40), <1>0, <1>2, <2>2, <2>4, FreeBacked DEF Ready, Safe
<1>3. CASE ViewChangeStored(s, m, t)
  <2> HIDE DEF t
  <2>1. Ready(t, nd, C) /\ Extended(s, t)
    BY ZenonT(40), <1>0, <1>2, <1>3
  <2> QED BY <2>1 DEF t
<1>4. CASE \E u, nv : /\ Local(u) /\ ViewChangeStored(s, m, u)
                      /\ IsNewView(nv, v)
                      /\ t = Settle(EnterView(broadcast(u, nv), v))
  <2>1. PICK u, nv : /\ Local(u) /\ ViewChangeStored(s, m, u)
                     /\ IsNewView(nv, v)
                     /\ t = Settle(EnterView(broadcast(u, nv), v))
    BY <1>4
  <2>2. Ready(u, nd, C) /\ Extended(s, u)
    BY <1>2, <2>1
  <2>3. nv \in Message /\ MessageOK(nv, u)
    <3>1. nv \in Message /\ nv.type = "newview"
      BY <1>0, <2>1, NewViewType
    <3> QED BY <3>1 DEF MessageOK
  <2> DEFINE b == broadcast(u, nv)
             w == EnterView(b, v)
  <2>4. Ready(b, nd, C) /\ Extended(u, b)
    BY ZenonT(40), <2>1, <2>2, <2>3, BroadcastSafe DEF Ready, Safe
  <2>5. t = Settle(w)
    BY <2>1
  <2>6. Local(w) /\ Peers(w, nd, C) /\ Backed(w, nd, C) /\ Extended(b, w)
    <3> HIDE DEF b, v
    <3> QED BY <1>0, <2>4, EnterViewBacked DEF Ready, Safe
  <2>7. Ready(Settle(w), nd, C) /\ Extended(w, Settle(w))
    <3> HIDE DEF w
    <3> QED BY <2>6, SettleSafe
  <2> HIDE DEF b, w, t
  <2>8. Extended(s, b)
    BY ZenonT(40), <1>0, <2>1, <2>2, <2>4, ExtendedTransitive DEF Ready
  <2>9. Extended(s, w)
    BY ZenonT(40), <1>0, <2>4, <2>6, <2>8, ExtendedTransitive DEF Ready
  <2>10. Ready(t, nd, C) /\ Extended(s, t)
    BY ZenonT(40), <1>0, <2>5, <2>6, <2>7, <2>9, ExtendedTransitive
  <2> QED BY SMTT(20), <2>10 DEF t
<1> QED
  <2>1. \/ t = s
        \/ ViewChangeStored(s, m, t)
        \/ \E u, nv : /\ Local(u) /\ ViewChangeStored(s, m, u)
                      /\ IsNewView(nv, v)
                      /\ t = Settle(EnterView(broadcast(u, nv), v))
    BY <1>0, OnViewChangeLocal
  <2> QED BY ZenonT(40), <1>1, <1>3, <1>4, <2>1

\* start_view_change keeps the node safe.
LEMMA StartViewChangeSafe ==
  ASSUME NEW s, NEW nd, NEW C, Ready(s, nd, C), s.timer # Off
  PROVE  Ready(start_view_change(s), nd, C) /\ Extended(s, start_view_change(s))
<1> DEFINE t == start_view_change(s)
<1>0. Local(s)
  BY SMTT(20) DEF Ready
<1>1. PICK u, vc : /\ Local(u) /\ SameExcept(s, u, LeavingFields)
                   /\ vc \in ViewChange /\ Local(broadcast(u, vc))
                   /\ t = on_viewchange(broadcast(u, vc), vc)
  BY <1>0, StartViewChangeLocal
<1> HIDE DEF t
<1>2. Ready(u, nd, C) /\ Extended(s, u)
  <2>1. SameExcept(s, u, Free)
    BY ZenonT(40), <1>1 DEF SameExcept, Free, LeavingFields
  <2>2. /\ u.id = s.id /\ u.view = s.view /\ u.seq_num = s.seq_num
        /\ u.reqlog = s.reqlog
    BY SMTT(20), <1>1 DEF SameExcept, NodeFields, LeavingFields
  <2>3. SeqNumOK(u)
    BY <2>2 DEF Ready, Safe, SeqNumOK, is_primary, primary
  <2> QED BY ZenonT(40), <1>0, <1>1, <2>1, <2>3, FreeBacked DEF Ready, Safe
<1> DEFINE b == broadcast(u, vc)
<1>3. Ready(b, nd, C) /\ Extended(u, b)
  <2>1. vc \in Message /\ MessageOK(vc, u)
    BY <1>1 DEF Message, ViewChange, MessageOK
  <2> QED BY <1>1, <1>2, <2>1, BroadcastSafe DEF Ready, Safe
<1>4. t = on_viewchange(b, vc)
  BY <1>1
<1> HIDE DEF b
<1>5. Ready(t, nd, C) /\ Extended(b, t)
  BY ZenonT(40), <1>1, <1>3, <1>4, OnViewChangeSafe
<1>6. Extended(s, b)
  BY ZenonT(40), <1>0, <1>1, <1>2, <1>3, ExtendedTransitive DEF Ready
<1>7. Extended(s, t)
  BY ZenonT(40), <1>0, <1>3, <1>5, <1>6, ExtendedTransitive DEF Ready
<1> QED
  BY <1>5, <1>7 DEF t

\* A NewView comes from the primary of its view, so not from this node.
LEMMA OnNewViewSafe ==
  ASSUME NEW s, NEW nd, NEW C, Ready(s, nd, C), NEW m \in NewView,
         NEW src, src # s.id
  PROVE  Ready(on_newview(s, m, src), nd, C) /\ Extended(s, on_newview(s, m, src))
<1> DEFINE t == on_newview(s, m, src)
           O == m.pre_prepares
           v == m.next_view
           w == EnterView(s, v)
           n == Len(O)
<1>0. /\ Local(s) /\ v \in Nat /\ O \in Seq(PrePrepare) /\ n \in Nat
  BY SMTT(20) DEF Ready, NewView
<1>1. CASE t = s
  BY <1>0, <1>1, ExtendedReflexive
<1>2. CASE /\ comes_from_primary(src, v)
           /\ \E r : IsInstallation(r, w, O, n) /\ t = Settle(r[n])
  <2>1. PICK r : IsInstallation(r, w, O, n) /\ t = Settle(r[n])
    BY <1>2
  <2>2. Local(w) /\ Peers(w, nd, C) /\ Backed(w, nd, C) /\ Extended(s, w) /\ w.view = v
    <3> HIDE DEF v
    <3> QED BY <1>0, EnterViewBacked, EnterViewLocal DEF Ready, Safe
  <2>3. ~is_primary(w)
    <3>1. w.id = s.id /\ src = v % N
      BY <1>2, <2>2 DEF Extended, Grows, comes_from_primary
    <3> HIDE DEF w, v
    <3> QED BY <2>2, <3>1 DEF is_primary, primary
  <2>4. Ready(w, nd, C)
    <3> HIDE DEF w
    <3> QED BY <2>2, <2>3 DEF Ready, Safe, SeqNumOK
  <2>5. Ready(r[n], nd, C) /\ Extended(w, r[n])
    <3> HIDE DEF w, O
    <3> DEFINE P(k) == Ready(r[k], nd, C) /\ Extended(w, r[k]) /\ ~is_primary(r[k])
               T == {k \in 0..n : ~P(k)}
    <3>1. SUFFICES ASSUME T # {} PROVE FALSE
      BY SMTT(20), <1>0
    <3>2. PICK k \in T : \A y \in T : k <= y
      <4>1. T \subseteq Nat
        BY SMTT(30), <1>0
      <4> HIDE DEF T
      <4> QED BY <3>1, <4>1, LeastNumber
    <3>3. k \in 0..n /\ ~P(k)
      OBVIOUS
    <3>4. \A i \in 0..n : r[i] = IF i = 0 THEN w ELSE on_preprepare_impl(r[i - 1], O[i])
      BY <2>1 DEF IsInstallation
    <3>5. k # 0
      BY ZenonT(40), <2>2, <2>3, <2>4, <3>3, <3>4, ExtendedReflexive
    <3>6. k - 1 \in 0..n /\ k - 1 < k /\ k \in 1..n
      BY SMTT(20), <1>0, <3>3, <3>5
    <3>7. P(k - 1)
      <4> HIDE DEF P
      <4> QED BY SMTT(20), <3>2, <3>6
    <3>8. r[k] = on_preprepare_impl(r[k - 1], O[k]) /\ O[k] \in PrePrepare
      BY SMTT(20), <1>0, <3>4, <3>5, <3>6
    <3>9. Ready(r[k], nd, C) /\ Extended(r[k - 1], r[k]) /\ ~is_primary(r[k])
      BY <3>7, <3>8, OnPrePrepareImplSafe
    <3>10. P(k)
      BY ZenonT(40), <2>2, <3>7, <3>9, ExtendedTransitive DEF Ready
    <3> QED BY ZenonT(40), <3>3, <3>10
  <2> DEFINE x == r[n]
  <2> HIDE DEF x, w, t
  <2>6. Ready(x, nd, C) /\ Extended(w, x) /\ t = Settle(x)
    BY <2>1, <2>5 DEF x
  <2>7. Ready(t, nd, C) /\ Extended(x, t)
    BY <2>6, SettleSafe DEF Ready, Safe
  <2>8. Extended(s, x)
    BY ZenonT(40), <1>0, <2>2, <2>6, ExtendedTransitive DEF Ready
  <2>9. Extended(s, t)
    BY ZenonT(40), <1>0, <2>6, <2>7, <2>8, ExtendedTransitive DEF Ready
  <2> QED BY <2>7, <2>9 DEF t
<1> QED
  <2>1. \/ t = s
        \/ /\ comes_from_primary(src, v)
           /\ \E r : IsInstallation(r, w, O, n) /\ t = Settle(r[n])
    BY <1>0, OnNewViewLocal
  <2> QED BY <1>1, <1>2, <2>1

\* Every handler, on any message that is backed if it comes from a correct node.
LEMMA HandleSafe ==
  ASSUME NEW s, NEW nd, NEW C, Ready(s, nd, C), QuorumsMeet(C),
         NEW src, src # s.id, NEW m \in Message,
         m.type = "commit" => CommitBacked(s, nd, C, m),
         m.type = "checkpoint" => CheckpointBacked(s, nd, C, m)
  PROVE  LET t == Handle(s, m, src)
         IN  Ready(t, nd, C) /\ Grows(s, t) /\ Sticky(s, t) /\ OneMove(s, t)
<1> DEFINE t == Handle(s, m, src)
<1>0. Local(s)
  BY DEF Ready
<1>1. CASE m \in Request
  <2>1. t = on_request(s, m)
    BY <1>1 DEF Handle, Request
  <2> QED BY <1>1, <2>1, OnRequestSafe DEF Extended, OneMove
<1>2. CASE m \in PrePrepare
  <2>1. t = on_preprepare(s, m, src)
    BY <1>2 DEF Handle, PrePrepare
  <2>2. CASE comes_from_primary(src, s.view)
    <3>1. ~is_primary(s)
      BY <2>2 DEF comes_from_primary, is_primary, primary
    <3>2. t = on_preprepare_impl(s, m)
      BY <2>1, <2>2 DEF on_preprepare
    <3> QED BY ZenonT(40), <1>2, <3>1, <3>2, OnPrePrepareImplSafe DEF Extended, OneMove
  <2>3. CASE ~comes_from_primary(src, s.view)
    <3>1. t = s
      BY <2>1, <2>3 DEF on_preprepare
    <3> QED BY <1>0, <3>1, ExtendedReflexive DEF Extended, OneMove
  <2> QED BY <2>2, <2>3
<1>3. CASE m \in Vote /\ m.type = "prepare"
  <2>1. t = on_prepare(s, m, src)
    BY <1>3 DEF Handle
  <2> QED BY SMTT(20), <1>3, <2>1, OnPrepareSafe DEF Extended, OneMove
<1>4. CASE m \in Vote /\ m.type = "commit"
  <2>1. t = on_commit(s, m)
    BY <1>4 DEF Handle
  <2> QED BY <1>4, <2>1, OnCommitSafe DEF Extended, OneMove
<1>5. CASE m \in CheckpointVote
  <2>1. t = on_checkpoint(s, m) /\ m.type = "checkpoint"
    BY <1>5 DEF Handle, CheckpointVote
  <2> QED BY ZenonT(40), <1>5, <2>1, OnCheckpointSafe
<1>6. CASE m \in ViewChange
  <2>1. t = on_viewchange(s, m)
    BY <1>6 DEF Handle, ViewChange
  <2> QED BY <1>6, <2>1, OnViewChangeSafe DEF Extended, OneMove
<1>7. CASE m \in NewView
  <2>1. t = on_newview(s, m, src)
    BY <1>7 DEF Handle, NewView
  <2> QED BY SMTT(20), <1>7, <2>1, OnNewViewSafe DEF Extended, OneMove
<1>8. m \in Vote => m.type \in {"prepare", "commit"}
  BY SMTT(20) DEF Vote
<1> QED
  BY ZenonT(40), <1>1, <1>2, <1>3, <1>4, <1>5, <1>6, <1>7, <1>8 DEF Message


=============================================================================
