---------------------------- MODULE LocalProofs -----------------------------
(***************************************************************************)
(* Every member function of the node preserves Local: types, window, timer *)
(* and the shape of log entries.  The constructor establishes it.  At the  *)
(* end: what Safe, which relates a node to its peers, asks of either.      *)
(***************************************************************************)
EXTENDS ReplicaInv, Sequences, FiniteSetTheorems,
        WellFoundedInduction, TLAPS

\* The prover, unless a proof or a step names another.
USE SMTT(30)

(* Facts about numbers and finite sets. *)

\* A set of natural numbers that is not empty has a least element.  The proofs
\* about the loops of try_execute and on_newview rest on it.
LEMMA LeastNumber ==
  ASSUME NEW T, T \subseteq Nat, T # {}
  PROVE  \E x \in T : \A y \in T : x <= y
<1>1. PICK x \in T : \A y \in T : ~(<<y, x>> \in OpToRel(<, Nat))
  BY Zenon, NatLessThanWellFounded, WFMin
<1>2. \A y \in T : ~(y < x)
  BY Zenon, <1>1 DEF OpToRel
<1> QED
  BY <1>2

\* Max of a set of natural numbers with an upper bound is its greatest member.
LEMMA MaxOfBounded ==
  ASSUME NEW S, S \subseteq Nat, S # {}, NEW b \in Nat, \A x \in S : x <= b
  PROVE  Max(S) \in S /\ \A x \in S : x <= Max(S)
<1> DEFINE U == {u \in Nat : \A x \in S : x <= u}
<1>1. U \subseteq Nat /\ U # {}
  OBVIOUS
<1>2. PICK u \in U : \A y \in U : u <= y
  <2> HIDE DEF U
  <2> QED BY Zenon, <1>1, LeastNumber
<1>3. u \in S
  <2> SUFFICES ASSUME u \notin S PROVE FALSE
    OBVIOUS
  <2>0. u \in Nat /\ \A x \in S : x \in Nat /\ x <= u /\ x # u
    BY <1>2
  <2>1. \A x \in S : x <= u - 1
    <3> HIDE DEF U
    <3> QED BY <2>0
  <2>3. u - 1 \in Nat
    <3> HIDE DEF U
    <3>1. PICK x \in S : TRUE
      BY Zenon
    <3>2. x \in Nat /\ x <= u /\ x # u
      BY <2>0
    <3> QED BY <2>0, <3>2
  <2>2. u - 1 \in U
    BY <2>1, <2>3
  <2> QED
    BY <2>2, <1>2
<1>4. \E x \in S : \A y \in S : x >= y
  BY <1>2, <1>3
<1> QED
  BY Zenon, <1>4 DEF Max

\* A finite set of natural numbers has an upper bound.
LEMMA FiniteIsBounded ==
  ASSUME NEW S, S \subseteq Nat, IsFiniteSet(S)
  PROVE  \E b \in Nat : \A x \in S : x <= b
<1>1. PICK q \in Seq(S) : \A x \in S : \E n \in 1..Len(q) : q[n] = x
  BY DEF IsFiniteSet
<1> DEFINE Bounded(k) == \E b \in Nat : \A n \in 1..k : q[n] <= b
           T == {k \in Nat : k <= Len(q) /\ ~Bounded(k)}
<1>2. T = {}
  <2> SUFFICES ASSUME T # {} PROVE FALSE
    BY Zenon
  <2>1. T \subseteq Nat
    OBVIOUS
  <2>2. PICK k \in T : \A y \in T : k <= y
    <3> HIDE DEF T
    <3> QED BY Zenon, <2>1, LeastNumber
  <2>3. k # 0
    <3>1. Bounded(0)
      <4>1. \A n \in 1..0 : q[n] <= 0
        OBVIOUS
      <4> QED BY Zenon, <4>1
    <3> HIDE DEF Bounded
    <3> QED BY <3>1, <2>2
  <2>4. k \in Nat /\ k <= Len(q) /\ Len(q) \in Nat
    BY <2>2, <1>1
  <2>10. k - 1 \in Nat /\ k - 1 < k /\ k \in 1..Len(q)
    <3> HIDE DEF T
    <3> QED BY <2>3, <2>4
  <2>5. Bounded(k - 1)
    <3> HIDE DEF Bounded
    <3> QED BY <2>2, <2>4, <2>10
  <2>6. PICK b \in Nat : \A n \in 1..(k - 1) : q[n] <= b
    BY Zenon, <2>5
  <2>7. \A n \in 1..k : q[n] \in Nat
    <3> HIDE DEF T, Bounded
    <3> TAKE n \in 1..k
    <3>1. n \in 1..Len(q)
      BY <2>4
    <3>2. q[n] \in S
      BY <3>1
    <3> QED BY Zenon, <3>2
  <2>8. PICK c \in Nat : b <= c /\ q[k] <= c
    <3> HIDE DEF T, Bounded
    <3>1. CASE b <= q[k]
      BY <3>1, <2>7, <2>10
    <3>2. CASE ~(b <= q[k])
      BY <3>2, <2>7, <2>10
    <3> QED BY <3>1, <3>2
  <2>9. \A n \in 1..k : q[n] <= c
    <3> TAKE n \in 1..k
    <3>1. CASE n = k
      BY <3>1, <2>8
    <3>2. CASE n # k
      <4> HIDE DEF T, Bounded
      <4>1. n \in 1..(k - 1) /\ q[n] \in Nat
        BY <3>2, <2>4, <2>7
      <4> QED BY <4>1, <2>6, <2>8
    <3> QED BY <3>1, <3>2
  <2> QED
    BY Zenon, <2>9, <2>2
<1>3. Len(q) \in Nat
  BY <1>1
<1>4. Bounded(Len(q))
  <2> HIDE DEF Bounded
  <2> QED BY <1>2, <1>3
<1> QED
  BY Zenon, <1>1, <1>4

\* Max of a finite set of natural numbers.
LEMMA MaxOfFinite ==
  ASSUME NEW S, S \subseteq Nat, S # {}, IsFiniteSet(S)
  PROVE  Max(S) \in S /\ Max(S) \in Nat /\ \A x \in S : x <= Max(S)
<1> USE Zenon
<1>1. PICK b \in Nat : \A x \in S : x <= b
  BY FiniteIsBounded
<1> QED
  BY <1>1, MaxOfBounded

\* A remainder is below the divisor.
LEMMA RemainderBelow ==
  ASSUME NEW a \in Nat, NEW b \in Nat, b > 0
  PROVE  a % b \in 0..(b - 1)
  OBVIOUS

\* A set that lists the values of a function on a finite set is finite.
LEMMA FiniteValues ==
  ASSUME NEW S, IsFiniteSet(S), NEW g, NEW T, T = {g[x] : x \in S}
  PROVE  IsFiniteSet(T)
<1>1. PICK q \in Seq(S) : \A x \in S : \E n \in 1..Len(q) : q[n] = x
  BY DEF IsFiniteSet
<1> DEFINE r == [n \in 1..Len(q) |-> g[q[n]]]
<1>a. Len(q) \in Nat /\ \A n \in 1..Len(q) : q[n] \in S
  BY <1>1
<1>b. \A n \in 1..Len(q) : g[q[n]] \in T
  BY <1>a
<1>2. r \in Seq(T) /\ Len(r) = Len(q)
  <2>1. r \in [1..Len(q) -> T]
    BY <1>b
  <2>2. DOMAIN r = 1..Len(q)
    OBVIOUS
  <2> HIDE DEF r
  <2> QED BY <1>a, <2>1, <2>2
<1>3. \A y \in T : \E n \in 1..Len(r) : r[n] = y
  <2> TAKE y \in T
  <2>1. PICK x \in S : y = g[x]
    OBVIOUS
  <2>2. PICK n \in 1..Len(q) : q[n] = x
    BY <1>1
  <2>3. r[n] = y
    BY <2>1, <2>2
  <2> HIDE DEF r
  <2> QED BY <1>2, <2>2, <2>3
<1> QED
  BY Zenon, <1>2, <1>3 DEF IsFiniteSet

-----------------------------------------------------------------------------
(* Nodes. *)

\* Nodes s and t differ at most in the fields F.
SameExcept(s, t, F) ==
  /\ DOMAIN t = NodeFields
  /\ \A x \in NodeFields \ F : t[x] = s[x]

\* A node that is left alone.
LEMMA SameSelf ==
  ASSUME NEW s, Local(s), NEW F
  PROVE  SameExcept(s, s, F)
BY DEF SameExcept, Local, IsNode

\* The constants' types in the form the provers use.
LEMMA ConstantTypes ==
  /\ N \in Nat /\ N > 0 /\ K \in Nat /\ K > 0 /\ L \in Nat /\ f \in Nat
  /\ N >= 3 * f + 1
  /\ Word \in Nat /\ Word > 0 /\ Clients \subseteq Nat
  /\ Replicas \subseteq Nat /\ IsFiniteSet(Replicas) /\ Cardinality(Replicas) = N
<1>1. IsFiniteSet(0..(N - 1)) /\ Cardinality(0..(N - 1)) = N
  BY ConfigAssumption, FS_Interval
<1>2. f \in Nat /\ N >= 3 * f + 1
  BY ConfigAssumption DEF f
<1> QED
  BY <1>1, <1>2, ConfigAssumption DEF Replicas

\* The primary of a view is one of the replicas.
LEMMA PrimaryIsReplica ==
  ASSUME NEW s, s.view \in Nat
  PROVE  primary(s) \in Replicas
  BY ConstantTypes, RemainderBelow DEF primary, Replicas

\* Storing a value of the right type in a map.
LEMMA PutMap ==
  ASSUME NEW S, NEW T, NEW map, IsMap(map, S, T), NEW k \in S, NEW v \in T
  PROVE  IsMap(Put(map, k, v), S, T)
  BY DEF IsMap, Put

\* The log of a node is finite.
LEMMA LogFinite ==
  ASSUME NEW s, Local(s)
  PROVE  IsFiniteSet(DOMAIN s.reqlog) /\ DOMAIN s.reqlog \subseteq Nat
<1>1. s.h \in Nat /\ H(s) \in Nat
  BY ConstantTypes DEF Local, IsNode, H
<1>2. IsFiniteSet(s.h .. H(s))
  BY <1>1, FS_Interval
<1>3. DOMAIN s.reqlog \in SUBSET (s.h .. H(s))
  BY DEF Local
<1>4. IsFiniteSet(DOMAIN s.reqlog)
  BY Zenon, <1>2, <1>3, FS_Subset
<1> QED
  BY <1>4 DEF Local, IsNode, IsMap

-----------------------------------------------------------------------------
(* Timer. *)

\* start_timer_if_not_running changes the timer only.
LEMMA StartTimerLocal ==
  ASSUME NEW s, Local(s)
  PROVE  /\ Local(start_timer_if_not_running(s))
         /\ SameExcept(s, start_timer_if_not_running(s), {"timer", "timer_running"})
<1> DEFINE t == start_timer_if_not_running(s)
<1>1. SameExcept(s, t, {"timer", "timer_running"})
  BY Zenon DEF Local, IsNode, start_timer_if_not_running, SameExcept, NodeFields
<1>2. /\ t.timer_running \in BOOLEAN
      /\ t.timer \in Nat \cup {Off}
      /\ t.timer # Off => t.timer_running /\ ~s.view_changing /\ t.timer = 0
  BY Zenon DEF Local, IsNode, start_timer_if_not_running, NodeFields, TimerOK, Off
<1>3. IsNode(t)
  BY <1>1, <1>2 DEF Local, IsNode, SameExcept, NodeFields
<1>4. /\ t.h = s.h /\ t.reqlog = s.reqlog /\ t.view_changing = s.view_changing
      /\ t.view_change_timeout_count = s.view_change_timeout_count
      /\ t.executed = s.executed /\ t.last_exec = s.last_exec
  BY <1>1 DEF SameExcept, NodeFields
<1>5. Local(t)
  <2> HIDE DEF t
  <2>1. TimerOK(t)
    BY <1>2, <1>4 DEF Local, TimerOK
  <2> QED
    BY <1>3, <1>4, <2>1 DEF Local, H
<1> QED
  BY <1>1, <1>5

\* stop_timer changes the timer only.
LEMMA StopTimerLocal ==
  ASSUME NEW s, Local(s)
  PROVE  /\ Local(stop_timer(s))
         /\ SameExcept(s, stop_timer(s), {"timer", "timer_running"})
<1> DEFINE t == stop_timer(s)
<1>1. SameExcept(s, t, {"timer", "timer_running"})
  BY Zenon DEF Local, IsNode, stop_timer, SameExcept, NodeFields
<1>2. /\ t.timer_running \in BOOLEAN
      /\ t.timer \in Nat \cup {Off}
      /\ t.timer # Off => t.timer_running /\ ~s.view_changing /\ t.timer = 0
  BY Zenon DEF Local, IsNode, stop_timer, NodeFields, TimerOK, Off
<1>3. IsNode(t)
  BY <1>1, <1>2 DEF Local, IsNode, SameExcept, NodeFields
<1>4. /\ t.h = s.h /\ t.reqlog = s.reqlog /\ t.view_changing = s.view_changing
      /\ t.view_change_timeout_count = s.view_change_timeout_count
      /\ t.executed = s.executed /\ t.last_exec = s.last_exec
  BY <1>1 DEF SameExcept, NodeFields
<1>5. Local(t)
  <2> HIDE DEF t
  <2>1. TimerOK(t)
    BY <1>2, <1>4 DEF Local, TimerOK
  <2> QED
    BY <1>3, <1>4, <2>1 DEF Local, H
<1> QED
  BY <1>1, <1>5

\* manage_timer changes the timer only.
LEMMA ManageTimerLocal ==
  ASSUME NEW s, Local(s)
  PROVE  /\ Local(manage_timer(s))
         /\ SameExcept(s, manage_timer(s), {"timer", "timer_running"})
<1> DEFINE t == stop_timer(s)
           u == start_timer_if_not_running(t)
<1>1. Local(t) /\ SameExcept(s, t, {"timer", "timer_running"})
  BY StopTimerLocal
<1>2. Local(u) /\ SameExcept(t, u, {"timer", "timer_running"})
  BY <1>1, StartTimerLocal
<1>3. SameExcept(s, s, {"timer", "timer_running"})
  BY DEF SameExcept, Local, IsNode
<1>4. SameExcept(s, u, {"timer", "timer_running"})
  BY <1>1, <1>2 DEF SameExcept
<1>5. manage_timer(s) \in {s, t, u}
  BY DEF manage_timer
<1> HIDE DEF t, u
<1> QED
  BY <1>1, <1>2, <1>3, <1>4, <1>5

-----------------------------------------------------------------------------
(* Frames. *)

\* Fields that Local only constrains through IsNode.
Loose == {"out", "replies", "last_replies", "checkpoints", "last_stable_digest",
          "voted", "seq_num", "view_change_store", "view"}

\* Members that Local does not mention may change freely within their types.
LEMMA LocalFrame ==
  ASSUME NEW s, NEW t, Local(s), IsNode(t), SameExcept(s, t, Loose)
  PROVE  Local(t)
<1>1. /\ t.h = s.h /\ t.reqlog = s.reqlog /\ t.view_changing = s.view_changing
      /\ t.view_change_timeout_count = s.view_change_timeout_count
      /\ t.executed = s.executed /\ t.last_exec = s.last_exec
      /\ t.timer = s.timer /\ t.timer_running = s.timer_running
  BY DEF SameExcept, NodeFields, Loose
<1>2. TimerOK(t)
  BY <1>1 DEF Local, TimerOK
<1> QED
  BY <1>1, <1>2 DEF Local, H

\* Storing a well-formed entry at a number in the window.
LEMMA PutEntryLocal ==
  ASSUME NEW s, Local(s), NEW n, InWindow(s, n), n \in Nat, NEW e \in Entry, EntryOK(e),
         NEW t, SameExcept(s, t, {"reqlog"}), t.reqlog = Put(s.reqlog, n, e)
  PROVE  Local(t)
<1>1. /\ t.h = s.h /\ t.view_changing = s.view_changing
      /\ t.view_change_timeout_count = s.view_change_timeout_count
      /\ t.executed = s.executed /\ t.last_exec = s.last_exec
      /\ t.timer = s.timer /\ t.timer_running = s.timer_running
  BY DEF SameExcept, NodeFields
<1>2. TimerOK(t)
  BY <1>1 DEF Local, TimerOK
<1>3. /\ DOMAIN t.reqlog = DOMAIN s.reqlog \cup {n}
      /\ \A k \in DOMAIN t.reqlog : t.reqlog[k] = IF k = n THEN e ELSE s.reqlog[k]
      /\ t.reqlog = [k \in DOMAIN t.reqlog |-> t.reqlog[k]]
  BY DEF Put
<1>4. IsMap(t.reqlog, Nat, Entry)
  BY <1>3 DEF Local, IsNode, IsMap
<1>5. IsNode(t)
  BY <1>4 DEF Local, IsNode, SameExcept, NodeFields
<1>6. DOMAIN t.reqlog \subseteq t.h .. H(t)
  BY <1>1, <1>3, ConstantTypes DEF Local, IsNode, InWindow, H
<1>7. \A k \in DOMAIN t.reqlog : EntryOK(t.reqlog[k])
  BY <1>3 DEF Local
<1> QED
  BY <1>1, <1>2, <1>5, <1>6, <1>7 DEF Local

-----------------------------------------------------------------------------
(* Sending. *)

\* broadcast changes the connections only.
LEMMA BroadcastLocal ==
  ASSUME NEW s, Local(s), NEW m \in Message
  PROVE  /\ Local(broadcast(s, m))
         /\ SameExcept(s, broadcast(s, m), {"out"})
         /\ broadcast(s, m).out = [j \in Replicas |->
              IF j = s.id THEN s.out[j] ELSE Append(s.out[j], m)]
<1> DEFINE t == broadcast(s, m)
<1>1. t.out = [j \in Replicas |-> IF j = s.id THEN s.out[j] ELSE Append(s.out[j], m)]
  BY DEF Local, IsNode, broadcast, NodeFields
<1>2. SameExcept(s, t, {"out"})
  BY DEF Local, IsNode, broadcast, SameExcept
<1>3. IsNode(t)
  BY <1>1, <1>2 DEF Local, IsNode, NodeFields, SameExcept
<1>4. SameExcept(s, t, Loose)
  BY <1>2 DEF SameExcept, Loose
<1>5. Local(t)
  <2> HIDE DEF t
  <2> QED BY <1>3, <1>4, LocalFrame
<1> QED
  BY <1>1, <1>2, <1>5

\* send_to_replica changes the connections only.
LEMMA SendToReplicaLocal ==
  ASSUME NEW s, Local(s), NEW j \in Replicas, NEW m \in Message
  PROVE  /\ Local(send_to_replica(s, j, m))
         /\ SameExcept(s, send_to_replica(s, j, m), {"out"})
         /\ send_to_replica(s, j, m).out = [k \in Replicas |->
              IF k = j /\ j # s.id THEN Append(s.out[k], m) ELSE s.out[k]]
<1> DEFINE t == send_to_replica(s, j, m)
<1>1. t.out = [k \in Replicas |->
                 IF k = j /\ j # s.id THEN Append(s.out[k], m) ELSE s.out[k]]
  BY Zenon DEF Local, IsNode, send_to_replica, NodeFields
<1>2. SameExcept(s, t, {"out"})
  BY DEF Local, IsNode, send_to_replica, SameExcept
<1>3. IsNode(t)
  BY <1>1, <1>2 DEF Local, IsNode, NodeFields, SameExcept
<1>4. SameExcept(s, t, Loose)
  BY <1>2 DEF SameExcept, Loose
<1>5. Local(t)
  <2> HIDE DEF t
  <2> QED BY <1>3, <1>4, LocalFrame
<1> QED
  BY <1>1, <1>2, <1>5

\* send_to_client changes the replies only.
LEMMA SendToClientLocal ==
  ASSUME NEW s, Local(s), NEW c, NEW m \in Reply
  PROVE  /\ Local(send_to_client(s, c, m))
         /\ SameExcept(s, send_to_client(s, c, m), {"replies"})
<1> DEFINE t == send_to_client(s, c, m)
<1>1. t.replies \in [Clients -> Seq(Reply)]
  BY DEF Local, IsNode, send_to_client, NodeFields
<1>2. SameExcept(s, t, {"replies"})
  BY DEF Local, IsNode, send_to_client, SameExcept
<1>3. IsNode(t)
  BY <1>1, <1>2 DEF Local, IsNode, NodeFields, SameExcept
<1>4. SameExcept(s, t, Loose)
  BY <1>2 DEF SameExcept, Loose
<1>5. Local(t)
  <2> HIDE DEF t
  <2> QED BY <1>3, <1>4, LocalFrame
<1> QED
  BY <1>2, <1>5

-----------------------------------------------------------------------------
(* Checkpoints and execution. *)

\* What a sequence over S holds.
LEMMA ElementOf ==
  ASSUME NEW S, NEW q \in Seq(S), NEW k \in 1..Len(q)
  PROVE  q[k] \in S
OBVIOUS

\* The checkpoint digest of a well-formed node has its type.
LEMMA StateDigestType ==
  ASSUME NEW s, Local(s)
  PROVE  get_checkpoint_digest(s) \in StateDigest
<1>1. /\ s.executed \in Seq([req : Request, digest : Digest])
      /\ Len(s.executed) \in Nat
  BY DEF Local, IsNode
<1>2. \A k \in 1..Len(s.executed) : s.executed[k].req.operation \in ServiceOperation
  <2> TAKE k \in 1..Len(s.executed)
  <2>1. s.executed[k] \in [req : Request, digest : Digest]
    BY Zenon, <1>1, ElementOf
  <2>2. s.executed[k].req \in Request
    BY Zenon, <2>1
  <2> QED BY <2>2 DEF Request
<1> QED
  BY <1>1, <1>2 DEF get_checkpoint_digest, ServiceState, StateDigest

\* A checkpoint entry with one more vote has its type.
LEMMA VoteType ==
  ASSUME NEW cp \in Checkpoint, NEW d \in StateDigest, NEW r \in Replicas
  PROVE  [cp EXCEPT !.votes = @ \cup {<<d, r>>}] \in Checkpoint
<1>1. cp.votes \in SUBSET (StateDigest \X Replicas) /\ cp.stable \in BOOLEAN
  BY DEF Checkpoint
<1>2. cp.votes \cup {<<d, r>>} \in SUBSET (StateDigest \X Replicas)
  BY <1>1
<1>3. [cp EXCEPT !.votes = @ \cup {<<d, r>>}]
        = [votes |-> cp.votes \cup {<<d, r>>}, stable |-> cp.stable]
  BY DEF Checkpoint
<1> QED
  BY <1>1, <1>2, <1>3 DEF Checkpoint

\* The vote a node adds for its own checkpoint.
OwnVote(s) ==
  Put(s.checkpoints, s.last_exec,
      [At(s.checkpoints, s.last_exec, NewCheckpoint) EXCEPT
         !.votes = @ \cup {<<get_checkpoint_digest(s), s.id>>}])

OwnCheckpoint(s) == CheckpointMsg(s.last_exec, get_checkpoint_digest(s), s.id)

\* make_checkpoint changes the checkpoint votes and the connections only.
LEMMA MakeCheckpointLocal ==
  ASSUME NEW s, Local(s)
  PROVE  \E t : /\ Local(t) /\ SameExcept(s, t, {"checkpoints"})
                /\ t.checkpoints = OwnVote(s)
                /\ OwnCheckpoint(s) \in Message
                /\ make_checkpoint(s) = broadcast(t, OwnCheckpoint(s))
                /\ Local(make_checkpoint(s))
                /\ SameExcept(s, make_checkpoint(s), {"checkpoints", "out"})
<1> DEFINE t == [s EXCEPT !.checkpoints = OwnVote(s)]
           m == OwnCheckpoint(s)
<1>1. make_checkpoint(s) = broadcast(t, m)
  BY DEF make_checkpoint, OwnVote, OwnCheckpoint
<1>2. SameExcept(s, t, {"checkpoints"}) /\ t.checkpoints = OwnVote(s)
  BY DEF Local, IsNode, SameExcept, NodeFields
<1>3. get_checkpoint_digest(s) \in StateDigest
  BY StateDigestType
<1>4. At(s.checkpoints, s.last_exec, NewCheckpoint) \in Checkpoint
  BY DEF At, NewCheckpoint, Checkpoint, Local, IsNode, IsMap
<1>5. s.id \in Replicas /\ s.last_exec \in Nat /\ IsMap(s.checkpoints, Nat, Checkpoint)
  BY DEF Local, IsNode
<1>6. IsMap(OwnVote(s), Nat, Checkpoint)
  <2> DEFINE cp == [At(s.checkpoints, s.last_exec, NewCheckpoint) EXCEPT
                      !.votes = @ \cup {<<get_checkpoint_digest(s), s.id>>}]
  <2>1. cp \in Checkpoint
    BY <1>3, <1>4, <1>5, VoteType
  <2> HIDE DEF cp
  <2>2. IsMap(Put(s.checkpoints, s.last_exec, cp), Nat, Checkpoint)
    BY <2>1, <1>5 DEF Put, IsMap
  <2> QED
    BY <2>2 DEF OwnVote, cp
<1>7. m \in Message
  BY <1>3, <1>5 DEF OwnCheckpoint, CheckpointMsg, Message, CheckpointVote
<1> HIDE DEF t, m
<1>8. IsNode(t)
  BY <1>2, <1>6 DEF Local, IsNode, NodeFields, SameExcept
<1>9. Local(t)
  BY <1>2, <1>8, LocalFrame DEF SameExcept, Loose
<1>10. Local(broadcast(t, m)) /\ SameExcept(t, broadcast(t, m), {"out"})
  BY Zenon, <1>7, <1>9, BroadcastLocal
<1>11. SameExcept(s, broadcast(t, m), {"checkpoints", "out"})
  BY <1>2, <1>10 DEF SameExcept
<1> QED
  BY <1>1, <1>2, <1>7, <1>9, <1>10, <1>11 DEF m

\* The fields a round of try_execute changes before it may make a checkpoint.
ExecuteFields ==
  {"last_exec", "executed", "replies", "last_replies", "timer", "timer_running"}

\* Those that change before it calls manage_timer.
AnswerFields == {"last_exec", "executed", "replies", "last_replies"}

\* A round executes the entry after the last one executed, answers, manages the
\* timer, and then makes a checkpoint if it is due.
LEMMA ExecuteNextTimed ==
  ASSUME NEW s, Local(s), CanExecute(s)
  PROVE  \E c, t :
           /\ Local(c) /\ SameExcept(s, c, AnswerFields)
           /\ c.last_exec = s.last_exec + 1
           /\ c.executed = Append(s.executed,
                [req |-> s.reqlog[s.last_exec + 1].req,
                 digest |-> s.reqlog[s.last_exec + 1].digest])
           /\ t = manage_timer(c)
           /\ ExecuteNext(s) = IF t.last_exec % K = 0
                               THEN make_checkpoint(t) ELSE t
<1> DEFINE e == s.reqlog[s.last_exec + 1]
           done == [s EXCEPT !.last_exec = @ + 1,
                             !.executed =
                               Append(@, [req |-> e.req, digest |-> e.digest])]
           result == get_checkpoint_digest(done)
           c == e.req.client_id
           m == ReplyMsg(s.view, e.req.timestamp, c, s.id, result)
           told == send_to_client(done, c, m)
           cached == [told EXCEPT !.last_replies =
                        Put(@, c, [timestamp |-> e.req.timestamp,
                                   result |-> result])]
           t == manage_timer(cached)
<1>1. ExecuteNext(s) = IF t.last_exec % K = 0 THEN make_checkpoint(t) ELSE t
  BY DEF ExecuteNext
<1>2. e \in Entry
  BY DEF CanExecute, Local, IsNode, IsMap
<1>3. /\ SameExcept(s, done, {"last_exec", "executed"})
      /\ done.last_exec = s.last_exec + 1
      /\ done.executed = Append(s.executed, [req |-> e.req, digest |-> e.digest])
  BY Zenon DEF Local, IsNode, NodeFields, SameExcept
<1>4. Local(done)
  <2> HIDE DEF e, done
  <2>1. [req |-> e.req, digest |-> e.digest] \in [req : Request, digest : Digest]
    BY <1>2 DEF Entry
  <2>2. /\ done.executed \in Seq([req : Request, digest : Digest])
        /\ Len(done.executed) = done.last_exec
        /\ done.last_exec \in Nat
    BY <1>3, <2>1 DEF Local, IsNode
  <2>3. IsNode(done)
    BY <1>3, <2>2 DEF Local, IsNode, NodeFields, SameExcept
  <2>4. /\ done.h = s.h /\ done.reqlog = s.reqlog
        /\ done.view_changing = s.view_changing
        /\ done.view_change_timeout_count = s.view_change_timeout_count
        /\ done.timer = s.timer /\ done.timer_running = s.timer_running
    BY <1>3 DEF SameExcept, NodeFields
  <2>5. TimerOK(done)
    BY <2>4 DEF Local, TimerOK
  <2> QED
    BY <2>2, <2>3, <2>4, <2>5 DEF Local, H
<1>5. result \in StateDigest
  <2> HIDE DEF done
  <2> QED BY <1>4, StateDigestType
<1>6. m \in Reply
  <2> HIDE DEF e, result
  <2> QED BY <1>2, <1>5 DEF Local, IsNode, Entry, Request, Reply, ReplyMsg
<1>7. Local(told) /\ SameExcept(done, told, {"replies"})
  <2> HIDE DEF done, m
  <2> QED BY <1>4, <1>6, SendToClientLocal
<1>8. /\ SameExcept(told, cached, {"last_replies"})
      /\ cached.last_replies = Put(told.last_replies, c,
           [timestamp |-> e.req.timestamp, result |-> result])
  <2> HIDE DEF told, e, result
  <2> QED BY ZenonT(40), <1>7 DEF Local, IsNode, NodeFields, SameExcept
<1>9. IsMap(cached.last_replies, Nat, [timestamp : Nat, result : StateDigest])
  <2> HIDE DEF told, e, result, cached
  <2>1. c \in Nat /\ e.req.timestamp \in Nat
    BY <1>2 DEF Entry, Request
  <2>2. IsMap(told.last_replies, Nat, [timestamp : Nat, result : StateDigest])
    BY <1>7 DEF Local, IsNode
  <2> DEFINE v == [timestamp |-> e.req.timestamp, result |-> result]
             T == [timestamp : Nat, result : StateDigest]
  <2>3. v \in T
    BY <1>5, <2>1
  <2>4. cached.last_replies = Put(told.last_replies, c, v)
    BY <1>8
  <2> HIDE DEF v, T, c
  <2>5. IsMap(told.last_replies, Nat, T)
    BY <2>2 DEF T
  <2>6. IsMap(Put(told.last_replies, c, v), Nat, T)
    BY Zenon, <2>1, <2>3, <2>5, PutMap
  <2> QED
    BY <2>4, <2>6 DEF T
<1>10. Local(cached)
  <2> HIDE DEF told, cached
  <2>1. IsNode(cached)
    BY Zenon, <1>7, <1>8, <1>9 DEF Local, IsNode, NodeFields, SameExcept
  <2> QED
    BY <1>7, <1>8, <2>1, LocalFrame DEF SameExcept, Loose
<1>11. /\ SameExcept(s, cached, AnswerFields)
       /\ cached.last_exec = done.last_exec /\ cached.executed = done.executed
  <2> HIDE DEF done, told, cached
  <2> QED
    BY <1>3, <1>7, <1>8 DEF SameExcept, AnswerFields, NodeFields
<1>12. /\ cached.last_exec = s.last_exec + 1
       /\ cached.executed = Append(s.executed,
            [req |-> s.reqlog[s.last_exec + 1].req,
             digest |-> s.reqlog[s.last_exec + 1].digest])
  <2> HIDE DEF done, cached
  <2> QED BY <1>3, <1>11
<1>13. t = manage_timer(cached)
  OBVIOUS
<1> HIDE DEF cached, t
<1> QED
  BY Zenon, <1>1, <1>10, <1>11, <1>12, <1>13

\* So a round before make_checkpoint executes one more request.
LEMMA ExecuteNextLocal ==
  ASSUME NEW s, Local(s), CanExecute(s)
  PROVE  \E t : /\ Local(t) /\ SameExcept(s, t, ExecuteFields)
                /\ t.last_exec = s.last_exec + 1
                /\ t.executed = Append(s.executed,
                     [req |-> s.reqlog[t.last_exec].req,
                      digest |-> s.reqlog[t.last_exec].digest])
                /\ ExecuteNext(s) = IF t.last_exec % K = 0
                                    THEN make_checkpoint(t) ELSE t
<1> USE Zenon
<1>1. PICK c, t :
        /\ Local(c) /\ SameExcept(s, c, AnswerFields)
        /\ c.last_exec = s.last_exec + 1
        /\ c.executed = Append(s.executed,
             [req |-> s.reqlog[s.last_exec + 1].req,
              digest |-> s.reqlog[s.last_exec + 1].digest])
        /\ t = manage_timer(c)
        /\ ExecuteNext(s) = IF t.last_exec % K = 0 THEN make_checkpoint(t) ELSE t
  BY ExecuteNextTimed
<1>2. Local(t) /\ SameExcept(c, t, {"timer", "timer_running"})
  BY <1>1, ManageTimerLocal
<1>3. /\ SameExcept(s, t, ExecuteFields)
      /\ t.last_exec = c.last_exec /\ t.executed = c.executed
  BY SMTT(20), <1>1, <1>2 DEF SameExcept, ExecuteFields, AnswerFields, NodeFields
<1> QED
  BY <1>1, <1>2, <1>3

\* r lists the states of the loop of try_execute after 0..n rounds from s.
IsExecution(r, s, n) ==
  r = [k \in 0..n |-> IF k = 0 THEN s ELSE ExecuteRound(r[k - 1])]

\* The recursive function of try_execute is defined.
LEMMA ExecutionExists ==
  ASSUME NEW s, NEW n \in Nat
  PROVE  \E r : IsExecution(r, s, n)
<1> DEFINE P(m) == \E r : IsExecution(r, s, m)
           T == {m \in Nat : ~P(m)}
<1> SUFFICES ASSUME T # {} PROVE FALSE
  OBVIOUS
<1>1. PICK m \in T : \A y \in T : m <= y
  <2>1. T \subseteq Nat
    OBVIOUS
  <2> HIDE DEF T
  <2> QED BY Zenon, <2>1, LeastNumber
<1>2. CASE m = 0
  <2> DEFINE r == [k \in 0..m |-> s]
  <2>1. r = [k \in 0..m |-> IF k = 0 THEN s ELSE ExecuteRound(r[k - 1])]
    BY <1>2
  <2> QED BY <2>1 DEF IsExecution
<1>3. CASE m # 0
  <2>1. m - 1 \in Nat /\ m - 1 < m
    BY <1>3
  <2>2. P(m - 1)
    <3> HIDE DEF P
    <3> QED BY <1>1, <2>1
  <2>3. PICK g : g = [k \in 0..(m - 1) |-> IF k = 0 THEN s ELSE ExecuteRound(g[k - 1])]
    BY <2>2 DEF IsExecution
  <2> DEFINE r == [k \in 0..m |-> IF k = m THEN ExecuteRound(g[m - 1]) ELSE g[k]]
  <2>4. ASSUME NEW k \in 0..m
        PROVE  r[k] = IF k = 0 THEN s ELSE ExecuteRound(r[k - 1])
    <3>1. CASE k = m
      <4>1. r[k] = ExecuteRound(g[m - 1])
        BY <3>1
      <4>2. r[m - 1] = g[m - 1]
        BY <2>1
      <4> QED BY <4>1, <4>2, <3>1, <1>3
    <3>2. CASE k # m
      <4>1. k \in 0..(m - 1)
        BY <3>2
      <4>2. r[k] = g[k]
        BY <3>2
      <4>3. g[k] = IF k = 0 THEN s ELSE ExecuteRound(g[k - 1])
        BY <2>3, <4>1
      <4>4. k # 0 => r[k - 1] = g[k - 1]
        BY <4>1
      <4> QED BY <4>2, <4>3, <4>4
    <3> QED BY <3>1, <3>2
  <2>5. r = [k \in 0..m |-> IF k = 0 THEN s ELSE ExecuteRound(r[k - 1])]
    BY <2>4
  <2> QED
    BY Zenon, <2>5 DEF IsExecution
<1> QED
  BY <1>2, <1>3

\* try_execute is a sequence of rounds of its loop.
LEMMA TryExecuteRounds ==
  ASSUME NEW s, Local(s)
  PROVE  \E n \in Nat : \E r : IsExecution(r, s, n) /\ try_execute(s) = r[n]
<1> DEFINE n == Cardinality(DOMAIN s.reqlog)
           r == CHOOSE r : r = [k \in 0..n |->
                  IF k = 0 THEN s ELSE ExecuteRound(r[k - 1])]
<1>1. n \in Nat
  BY LogFinite, FS_CardinalityType
<1>2. try_execute(s) = r[n]
  BY Zenon DEF try_execute
<1>3. IsExecution(r, s, n)
  <2> HIDE DEF n
  <2>1. \E g : g = [k \in 0..n |-> IF k = 0 THEN s ELSE ExecuteRound(g[k - 1])]
    BY Zenon, <1>1, ExecutionExists DEF IsExecution
  <2> QED
    BY Zenon, <2>1, Zenon DEF IsExecution
<1> HIDE DEF n, r
<1> QED
  BY <1>1, <1>2, <1>3

\* try_execute changes no more than its rounds.
TryExecuteFields == ExecuteFields \cup {"checkpoints", "out"}

\* A round of try_execute keeps the node well formed and the log alone.
LEMMA ExecuteRoundLocal ==
  ASSUME NEW s, Local(s)
  PROVE  /\ Local(ExecuteRound(s))
         /\ SameExcept(s, ExecuteRound(s), TryExecuteFields)
<1>1. CASE ~CanExecute(s)
  <2>1. ExecuteRound(s) = s
    BY <1>1 DEF ExecuteRound
  <2> QED
    BY <2>1 DEF SameExcept, Local, IsNode
<1>2. CASE CanExecute(s)
  <2>1. ExecuteRound(s) = ExecuteNext(s)
    BY <1>2 DEF ExecuteRound
  <2>2. PICK t : /\ Local(t) /\ SameExcept(s, t, ExecuteFields)
                 /\ ExecuteNext(s) = IF t.last_exec % K = 0
                                     THEN make_checkpoint(t) ELSE t
    BY Zenon, <1>2, ExecuteNextLocal
  <2>3. /\ Local(make_checkpoint(t))
        /\ SameExcept(t, make_checkpoint(t), {"checkpoints", "out"})
    BY <2>2, MakeCheckpointLocal
  <2>4. /\ SameExcept(s, t, TryExecuteFields)
        /\ SameExcept(s, make_checkpoint(t), TryExecuteFields)
    BY <2>2, <2>3 DEF SameExcept, TryExecuteFields, ExecuteFields
  <2> QED
    BY <2>1, <2>2, <2>3, <2>4
<1> QED
  BY <1>1, <1>2

\* So does all of try_execute.
LEMMA TryExecuteLocal ==
  ASSUME NEW s, Local(s)
  PROVE  /\ Local(try_execute(s))
         /\ SameExcept(s, try_execute(s), TryExecuteFields)
<1>a. PICK n \in Nat : \E r : IsExecution(r, s, n) /\ try_execute(s) = r[n]
  BY TryExecuteRounds
<1>1. PICK r : IsExecution(r, s, n) /\ try_execute(s) = r[n]
  BY <1>a
<1> DEFINE P(m) == Local(r[m]) /\ SameExcept(s, r[m], TryExecuteFields)
           T == {m \in Nat : m <= n /\ ~P(m)}
<1>2. SUFFICES ASSUME T # {} PROVE FALSE
  BY <1>1
<1>3. PICK m \in T : \A y \in T : m <= y
  <2>1. T \subseteq Nat
    OBVIOUS
  <2> HIDE DEF T
  <2> QED BY Zenon, <1>2, <2>1, LeastNumber
<1>4. m \in Nat /\ m <= n /\ ~P(m)
  OBVIOUS
<1>5. \A k \in 0..n : r[k] = IF k = 0 THEN s ELSE ExecuteRound(r[k - 1])
  BY <1>1 DEF IsExecution
<1>6. m # 0
  <2>1. r[0] = s
    BY <1>5
  <2> QED BY Zenon, <1>4, <2>1, SameSelf
<1>7. m - 1 \in Nat /\ m - 1 < m /\ m - 1 <= n /\ m \in 0..n
  BY <1>4, <1>6
<1>8. P(m - 1)
  <2> HIDE DEF P
  <2> QED BY <1>3, <1>7
<1>9. r[m] = ExecuteRound(r[m - 1])
  BY <1>5, <1>6, <1>7
<1>10. Local(r[m]) /\ SameExcept(r[m - 1], r[m], TryExecuteFields)
  BY <1>8, <1>9, ExecuteRoundLocal
<1>11. P(m)
  BY <1>8, <1>10 DEF SameExcept
<1> QED
  BY <1>4, <1>11

\* seq_num_ = recompute_highest_sequence() reaches every entry of the log.
LEMMA HighestSequence ==
  ASSUME NEW s, s.last_exec \in Nat, s.h \in Nat,
         DOMAIN s.reqlog \subseteq Nat, IsFiniteSet(DOMAIN s.reqlog)
  PROVE  /\ recompute_highest_sequence(s) \in Nat
         /\ \A n \in DOMAIN s.reqlog : n <= recompute_highest_sequence(s)
<1> USE Zenon
<1> DEFINE S == {s.last_exec, s.h} \cup DOMAIN s.reqlog
<1>1. S \subseteq Nat /\ S # {}
  OBVIOUS
<1>2. IsFiniteSet(S)
  <2>1. IsFiniteSet({s.last_exec} \cup {s.h})
    BY FS_Singleton, FS_Union
  <2>2. {s.last_exec} \cup {s.h} = {s.last_exec, s.h}
    OBVIOUS
  <2> QED BY <2>1, <2>2, FS_Union
<1>3. Max(S) \in Nat /\ \A x \in S : x <= Max(S)
  <2> HIDE DEF S
  <2> QED BY <1>1, <1>2, MaxOfFinite
<1> QED
  BY SMTT(20), <1>3 DEF recompute_highest_sequence

\* The entry of checkpoints_ with the vote of a CheckpointMsg added.
VoteAdded(s, m) ==
  [At(s.checkpoints, m.seq_num, NewCheckpoint) EXCEPT
     !.votes = @ \cup {<<m.state_digest, m.replica_id>>}]

\* on_checkpoint stores the vote of m.
VoteStored(s, m, t) ==
  /\ s.h <= m.seq_num
  /\ DOMAIN t.checkpoints \subseteq DOMAIN s.checkpoints \cup {m.seq_num}
  /\ \A n \in DOMAIN t.checkpoints :
       t.checkpoints[n].votes = IF n = m.seq_num THEN VoteAdded(s, m).votes
                                ELSE s.checkpoints[n].votes

\* on_checkpoint finds the checkpoint of m stable.
BecameStable(s, m, t) ==
  /\ Cardinality(Voters(VoteAdded(s, m), m.state_digest)) >= 2 * f + 1
  /\ SameExcept(s, t, {"checkpoints", "h", "seq_num", "reqlog", "last_stable_digest"})
  /\ t.h = m.seq_num
  /\ t.last_stable_digest = m.state_digest
  /\ t.reqlog = Restrict(s.reqlog, {n \in DOMAIN s.reqlog : n > m.seq_num})
  /\ \A n \in DOMAIN s.reqlog : n <= t.seq_num

\* on_checkpoint keeps the node well formed, garbage collection included.
LEMMA OnCheckpointLocal ==
  ASSUME NEW s, Local(s), NEW m \in CheckpointVote
  PROVE  LET t == on_checkpoint(s, m)
         IN  /\ Local(t)
             /\ \/ t = s
                \/ VoteStored(s, m, t) /\ SameExcept(s, t, {"checkpoints"})
                \/ VoteStored(s, m, t) /\ BecameStable(s, m, t)
<1> DEFINE cp      == VoteAdded(s, m)
           enough  == Cardinality(Voters(cp, m.state_digest)) >= 2 * f + 1
           stable  == ~cp.stable /\ enough
           new     == [cp EXCEPT !.stable = @ \/ stable]
           stored  == [s EXCEPT !.checkpoints = Put(@, m.seq_num, new)]
           moved   == [stored EXCEPT !.last_stable_digest = m.state_digest,
                                     !.h = m.seq_num]
           top     == recompute_highest_sequence(moved)
           t       == garbage_collect([moved EXCEPT !.seq_num = top])
<1>1. on_checkpoint(s, m) = IF m.seq_num < s.h THEN s
                            ELSE IF ~stable THEN stored ELSE t
  <2>1. advance_watermarks([stored EXCEPT !.last_stable_digest = m.state_digest],
                           m.seq_num) = moved
    BY DEF advance_watermarks
  <2> HIDE DEF moved
  <2> QED BY <2>1 DEF on_checkpoint, VoteAdded
<1>2. /\ m.seq_num \in Nat /\ m.state_digest \in StateDigest
      /\ m.replica_id \in Replicas
  BY DEF CheckpointVote
<1>3. cp \in Checkpoint
  <2>1. At(s.checkpoints, m.seq_num, NewCheckpoint) \in Checkpoint
    BY DEF At, NewCheckpoint, Checkpoint, Local, IsNode, IsMap
  <2> QED BY ZenonT(40), <1>2, <2>1, VoteType DEF VoteAdded
<1>4. new \in Checkpoint /\ new.votes = cp.votes
  <2> HIDE DEF cp
  <2> QED BY Zenon, <1>3 DEF Checkpoint
<1>5. /\ SameExcept(s, stored, {"checkpoints"})
      /\ stored.checkpoints = Put(s.checkpoints, m.seq_num, new)
  <2> HIDE DEF new
  <2> QED BY DEF Local, IsNode, SameExcept, NodeFields
<1>6. /\ IsMap(stored.checkpoints, Nat, Checkpoint)
      /\ DOMAIN stored.checkpoints = DOMAIN s.checkpoints \cup {m.seq_num}
      /\ \A n \in DOMAIN stored.checkpoints :
           stored.checkpoints[n] = IF n = m.seq_num THEN new ELSE s.checkpoints[n]
  <2> HIDE DEF new, stored
  <2> QED BY <1>2, <1>4, <1>5 DEF Local, IsNode, IsMap, Put
<1>7. Local(stored)
  <2> HIDE DEF stored
  <2>1. IsNode(stored)
    BY ZenonT(30), <1>5, <1>6 DEF Local, IsNode, NodeFields, SameExcept
  <2> QED BY <1>5, <2>1, LocalFrame DEF SameExcept, Loose
<1>8. CASE m.seq_num < s.h
  BY <1>1, <1>8
<1>9. CASE ~(m.seq_num < s.h) /\ ~stable
  <2>1. on_checkpoint(s, m) = stored
    <3> HIDE DEF stable, stored, t
    <3> QED BY ZenonT(40), <1>1, <1>9
  <2>2. VoteStored(s, m, stored)
    <3> HIDE DEF stored, new
    <3> QED BY <1>2, <1>4, <1>6, <1>9 DEF VoteStored, Local, IsNode
  <2> QED
    <3> HIDE DEF stored
    <3> QED BY <1>5, <1>7, <2>1, <2>2
<1>10. CASE ~(m.seq_num < s.h) /\ stable
  <2>1. on_checkpoint(s, m) = t
    <3> HIDE DEF stable, stored, t
    <3> QED BY <1>1, <1>10
  <2>2. /\ SameExcept(stored, moved, {"h", "last_stable_digest"})
        /\ moved.h = m.seq_num /\ moved.last_stable_digest = m.state_digest
    <3> HIDE DEF stored
    <3> QED BY Zenon, <1>7 DEF Local, IsNode, SameExcept, NodeFields
  <2>3. /\ SameExcept(moved, t, {"seq_num", "reqlog", "checkpoints"})
        /\ t.seq_num = top
        /\ t.reqlog = Restrict(moved.reqlog, {n \in DOMAIN moved.reqlog : n > moved.h})
        /\ t.checkpoints = Restrict(moved.checkpoints,
                             {n \in DOMAIN moved.checkpoints : n >= moved.h})
    <3> HIDE DEF moved, top
    <3> QED BY Zenon, <2>2 DEF garbage_collect, SameExcept, NodeFields
  <2>4. /\ moved.reqlog = s.reqlog /\ moved.last_exec = s.last_exec
        /\ moved.checkpoints = stored.checkpoints
    <3> HIDE DEF stored, moved
    <3> QED BY <1>5, <2>2 DEF SameExcept, NodeFields
  <2>5. top \in Nat /\ \A n \in DOMAIN s.reqlog : n <= top
    <3> HIDE DEF moved
    <3>1. s.last_exec \in Nat
      BY DEF Local, IsNode
    <3> QED BY <1>2, <2>2, <2>4, <3>1, LogFinite, HighestSequence
  <2>6. SameExcept(s, t, {"checkpoints", "h", "seq_num", "reqlog", "last_stable_digest"})
    <3> HIDE DEF stored, moved, t
    <3> QED BY <1>5, <2>2, <2>3 DEF SameExcept
  <2>7. t.h = m.seq_num /\ t.last_stable_digest = m.state_digest
    <3> HIDE DEF moved, t
    <3> QED BY <2>2, <2>3 DEF SameExcept, NodeFields
  <2>8. t.reqlog = Restrict(s.reqlog, {n \in DOMAIN s.reqlog : n > m.seq_num})
    <3> HIDE DEF moved, t
    <3> QED BY <2>2, <2>3, <2>4
  <2>9. /\ DOMAIN t.reqlog = {n \in DOMAIN s.reqlog : n > m.seq_num}
        /\ \A n \in DOMAIN t.reqlog : t.reqlog[n] = s.reqlog[n]
        /\ IsMap(t.reqlog, Nat, Entry)
    <3> HIDE DEF t
    <3> QED BY <2>8 DEF Restrict, IsMap, Local, IsNode
  <2>10. /\ DOMAIN t.checkpoints \subseteq DOMAIN stored.checkpoints
         /\ \A n \in DOMAIN t.checkpoints : t.checkpoints[n] = stored.checkpoints[n]
         /\ IsMap(t.checkpoints, Nat, Checkpoint)
    <3> HIDE DEF t, moved, stored
    <3> QED BY <1>6, <2>3, <2>4 DEF Restrict, IsMap
  <2>11. VoteStored(s, m, t)
    <3> HIDE DEF t, stored, new
    <3> QED BY <1>2, <1>4, <1>6, <1>10, <2>10 DEF VoteStored, Local, IsNode
  <2>12. BecameStable(s, m, t)
    <3>1. enough
      BY <1>10
    <3> HIDE DEF t, top
    <3> QED BY <2>3, <2>5, <2>6, <2>7, <2>8, <3>1 DEF BecameStable
  <2>18. t.seq_num \in Nat
    <3> HIDE DEF t, top
    <3> QED BY <2>3, <2>5
  <2> HIDE DEF t
  <2>13. IsNode(t)
    BY ZenonT(40), <1>2, <2>18, <2>6, <2>7, <2>9, <2>10
       DEF Local, IsNode, NodeFields, SameExcept
  <2>14. /\ t.view_changing = s.view_changing
         /\ t.view_change_timeout_count = s.view_change_timeout_count
         /\ t.executed = s.executed /\ t.last_exec = s.last_exec
         /\ t.timer = s.timer /\ t.timer_running = s.timer_running
    BY <2>6 DEF SameExcept, NodeFields
  <2>15. TimerOK(t)
    BY <2>14 DEF Local, TimerOK
  <2>16. DOMAIN t.reqlog \subseteq t.h .. H(t)
    BY <1>2, <1>10, <2>7, <2>9, ConstantTypes DEF Local, IsNode, H
  <2>17. Local(t)
    BY <2>9, <2>13, <2>14, <2>15, <2>16 DEF Local
  <2> QED
    BY <2>1, <2>11, <2>12, <2>17
<1> QED
  BY <1>8, <1>9, <1>10

-----------------------------------------------------------------------------
(* The three phases. *)

\* What the three phases may change.
PhaseFields == TryExecuteFields \cup {"reqlog", "voted"}

\* t is s with the entry e stored at n.
EntryStored(s, n, e, t) ==
  /\ SameExcept(s, t, {"reqlog"})
  /\ t.reqlog = Put(s.reqlog, n, e)

\* reqlog_[n] read with operator[] is a well-formed entry.
LEMMA EntryAt ==
  ASSUME NEW s, Local(s), NEW n
  PROVE  At(s.reqlog, n, NewEntry) \in Entry /\ EntryOK(At(s.reqlog, n, NewEntry))
<1>0. NullReq \in Request
  BY DEF NullReq, RequestMsg, Request, ServiceOperation
<1>2. ZeroDigest \in Digest
  BY <1>0 DEF ZeroDigest, Digest
<1>3. NewEntry \in Entry
  BY <1>0, <1>2 DEF NewEntry, Entry, Stages
<1>1. NewEntry \in Entry /\ EntryOK(NewEntry)
  BY <1>3 DEF NewEntry, EntryOK
<1> QED
  BY <1>1 DEF At, Local, IsNode, IsMap

\* Storing a well-formed entry inside the window keeps the node well formed.
LEMMA EntryStoredLocal ==
  ASSUME NEW s, Local(s), NEW n \in Nat, InWindow(s, n), NEW e \in Entry, EntryOK(e),
         NEW t, t = [s EXCEPT !.reqlog = Put(@, n, e)]
  PROVE  Local(t) /\ EntryStored(s, n, e, t)
<1>1. EntryStored(s, n, e, t)
  BY DEF EntryStored, SameExcept, Local, IsNode, NodeFields
<1> QED
  BY Zenon, <1>1, PutEntryLocal DEF EntryStored

\* What is in the log is in the window.
LEMMA InLogInWindow ==
  ASSUME NEW s, Local(s), NEW n \in DOMAIN s.reqlog
  PROVE  n \in Nat /\ InWindow(s, n) /\ s.reqlog[n] \in Entry /\ EntryOK(s.reqlog[n])
         /\ At(s.reqlog, n, NewEntry) = s.reqlog[n]
  BY ConstantTypes DEF Local, IsNode, IsMap, InWindow, H, At

\* try_commit leaves the node alone, or marks the entry COMMITTED and executes.
CommittedAt(s, n, t) ==
  /\ s.reqlog[n].stage = "PREPARED"
  /\ Cardinality(s.reqlog[n].commits) >= 2 * f + 1
  /\ EntryStored(s, n, [s.reqlog[n] EXCEPT !.stage = "COMMITTED"], t)

\* try_commit keeps the node well formed.
LEMMA TryCommitLocal ==
  ASSUME NEW s, Local(s), NEW n \in DOMAIN s.reqlog
  PROVE  /\ Local(try_commit(s, n)) /\ SameExcept(s, try_commit(s, n), PhaseFields)
         /\ \/ try_commit(s, n) = s
            \/ \E t : /\ Local(t) /\ CommittedAt(s, n, t)
                      /\ try_commit(s, n) = try_execute(t)
<1> DEFINE e == s.reqlog[n]
           e2 == [e EXCEPT !.stage = "COMMITTED"]
           t == [s EXCEPT !.reqlog = Put(@, n, e2)]
           ready == e.stage = "PREPARED" /\ Cardinality(e.commits) >= 2 * f + 1
<1>1. try_commit(s, n) = IF ready THEN try_execute(t) ELSE s
  BY DEF try_commit
<1>2. n \in Nat /\ InWindow(s, n) /\ e \in Entry /\ EntryOK(e)
  BY InLogInWindow
<1>3. CASE ~ready
  BY Zenon, <1>1, <1>3, SameSelf
<1>4. CASE ready
  <2>1. e2 \in Entry /\ EntryOK(e2)
    <3> HIDE DEF e
    <3> QED BY <1>2, <1>4 DEF Entry, EntryOK, Stages
  <2>2. Local(t) /\ EntryStored(s, n, e2, t)
    <3> HIDE DEF e2
    <3> QED BY <1>2, <2>1, EntryStoredLocal
  <2>3. try_commit(s, n) = try_execute(t)
    <3> HIDE DEF t
    <3> QED BY <1>1, <1>4
  <2>4. CommittedAt(s, n, t)
    <3> HIDE DEF t
    <3> QED BY <1>4, <2>2 DEF CommittedAt
  <2> HIDE DEF t
  <2>5. Local(try_execute(t)) /\ SameExcept(t, try_execute(t), TryExecuteFields)
    BY <2>2, TryExecuteLocal
  <2>6. SameExcept(s, try_execute(t), PhaseFields)
    BY <2>2, <2>5 DEF EntryStored, SameExcept, PhaseFields
  <2> QED
    BY <2>2, <2>3, <2>4, <2>5, <2>6
<1> QED
  BY <1>3, <1>4

\* try_prepare leaves the node alone, or votes for the entry, sends the Commit
\* and goes on with try_commit.
PreparedAt(s, n, t) ==
  LET e == s.reqlog[n]
  IN  /\ e.stage = "PRE_PREPARED" /\ e.has_preprepare
      /\ SameExcept(s, t, {"reqlog", "voted"})
      /\ t.reqlog = Put(s.reqlog, n, [e EXCEPT !.stage = "PREPARED",
                                               !.commits = @ \cup {s.id}])
      /\ t.voted = s.voted \cup {<<n, e.digest>>}

OwnCommit(s, n) == CommitMsg(s.view, n, s.reqlog[n].digest, s.id)

\* try_prepare keeps the node well formed.
LEMMA TryPrepareLocal ==
  ASSUME NEW s, Local(s), NEW n \in DOMAIN s.reqlog
  PROVE  /\ Local(try_prepare(s, n)) /\ SameExcept(s, try_prepare(s, n), PhaseFields)
         /\ \/ try_prepare(s, n) = s
            \/ \E t : /\ Local(t) /\ PreparedAt(s, n, t)
                      /\ OwnCommit(s, n) \in Message
                      /\ n \in DOMAIN broadcast(t, OwnCommit(s, n)).reqlog
                      /\ try_prepare(s, n) =
                           try_commit(broadcast(t, OwnCommit(s, n)), n)
<1> DEFINE e == s.reqlog[n]
           e2 == [e EXCEPT !.stage = "PREPARED", !.commits = @ \cup {s.id}]
           u == [s EXCEPT !.reqlog = Put(@, n, e2)]
           t == [s EXCEPT !.reqlog = Put(@, n, e2), !.voted = @ \cup {<<n, e.digest>>}]
           m == OwnCommit(s, n)
           w == broadcast(t, m)
           ready == /\ e.stage = "PRE_PREPARED" /\ e.has_preprepare
                    /\ Cardinality(e.prepares) >= 2 * f
<1>1. try_prepare(s, n) = IF ready THEN try_commit(w, n) ELSE s
  BY DEF try_prepare, OwnCommit
<1>2. n \in Nat /\ InWindow(s, n) /\ e \in Entry /\ EntryOK(e)
  BY InLogInWindow
<1>3. CASE ~ready
  BY Zenon, <1>1, <1>3, SameSelf
<1>4. CASE ready
  <2>0. s.id \in Replicas /\ s.view \in Nat /\ s.voted \subseteq Nat \X Digest
    BY DEF Local, IsNode
  <2>1. e2 \in Entry /\ EntryOK(e2)
    <3> HIDE DEF e
    <3> QED BY Zenon, <1>2, <1>4, <2>0 DEF Entry, EntryOK, Stages
  <2>2. Local(u) /\ EntryStored(s, n, e2, u)
    <3> HIDE DEF e2
    <3> QED BY <1>2, <2>1, EntryStoredLocal
  <2>3. SameExcept(u, t, {"voted"}) /\ t.voted = s.voted \cup {<<n, e.digest>>}
    <3> HIDE DEF e, e2
    <3> QED BY Zenon DEF SameExcept, Local, IsNode, NodeFields
  <2>4. t.voted \subseteq Nat \X Digest
    <3> HIDE DEF e, t
    <3> QED BY <1>2, <2>0, <2>3 DEF Entry
  <2>5. Local(t)
    <3> HIDE DEF u, t
    <3>1. IsNode(t)
      BY ZenonT(40), <2>2, <2>3, <2>4 DEF Local, IsNode, NodeFields, SameExcept
    <3> QED BY <2>2, <2>3, <3>1, LocalFrame DEF SameExcept, Loose
  <2>6. PreparedAt(s, n, t)
    <3> HIDE DEF u, t
    <3> QED BY <1>4, <2>2, <2>3
               DEF PreparedAt, EntryStored, SameExcept, NodeFields
  <2>7. m \in Message
    <3> HIDE DEF e
    <3>1. e.digest \in HashValue
      BY <1>2, <1>4 DEF EntryOK
    <3> QED BY <1>2, <2>0, <3>1 DEF OwnCommit, CommitMsg, Message, Vote, e
  <2>8. try_prepare(s, n) = try_commit(w, n)
    <3> HIDE DEF w
    <3> QED BY <1>1, <1>4
  <2> HIDE DEF t, m
  <2>9. Local(w) /\ SameExcept(t, w, {"out"})
    BY ZenonT(30), <2>5, <2>7, BroadcastLocal
  <2>10. n \in DOMAIN w.reqlog
    <3> HIDE DEF w
    <3>1. w.reqlog = t.reqlog
      BY <2>9 DEF SameExcept, NodeFields
    <3> QED BY <2>6, <3>1 DEF PreparedAt, Put
  <2>11. SameExcept(s, try_commit(w, n), PhaseFields) /\ Local(try_commit(w, n))
    <3> HIDE DEF w
    <3>1. /\ Local(try_commit(w, n))
          /\ SameExcept(w, try_commit(w, n), PhaseFields)
      BY <2>9, <2>10, TryCommitLocal
    <3> QED BY <2>6, <2>9, <3>1
               DEF PreparedAt, SameExcept, PhaseFields, TryExecuteFields
  <2> QED
    BY <2>5, <2>6, <2>7, <2>8, <2>10, <2>11 DEF m
<1> QED
  BY <1>3, <1>4

\* on_commit counts the Commit m of an entry whose digest it carries.
CommitCounted(s, m, t) ==
  LET e == At(s.reqlog, m.seq_num, NewEntry)
  IN  /\ e.has_preprepare /\ e.digest = m.req_digest
      /\ EntryStored(s, m.seq_num, [e EXCEPT !.commits = @ \cup {m.replica_id}], t)

\* on_commit keeps the node well formed.
LEMMA OnCommitLocal ==
  ASSUME NEW s, Local(s), NEW m \in Vote
  PROVE  LET t == on_commit(s, m)
         IN  /\ Local(t) /\ SameExcept(s, t, PhaseFields)
             /\ \/ t = s
                \/ EntryStored(s, m.seq_num, At(s.reqlog, m.seq_num, NewEntry), t)
                \/ \E u : /\ Local(u) /\ CommitCounted(s, m, u)
                          /\ m.seq_num \in DOMAIN u.reqlog
                          /\ t = try_commit(u, m.seq_num)
<1> DEFINE n == m.seq_num
           e == At(s.reqlog, n, NewEntry)
           matches == e.digest = m.req_digest
           e2 == [e EXCEPT !.commits = @ \cup {m.replica_id}]
           refused == s.view_changing \/ m.view # s.view \/ ~InWindow(s, n)
           u == [s EXCEPT !.reqlog = Put(@, n, e2)]
           w == [s EXCEPT !.reqlog = Put(@, n, e)]
<1>1. on_commit(s, m) = IF refused THEN s ELSE IF matches THEN try_commit(u, n) ELSE w
  BY DEF on_commit
<1>2. n \in Nat /\ m.req_digest \in HashValue /\ m.replica_id \in Replicas
  BY DEF Vote
<1>3. e \in Entry /\ EntryOK(e)
  BY EntryAt
<1>4. CASE refused
  <2>1. on_commit(s, m) = s
    <3> HIDE DEF refused, u, w
    <3> QED BY <1>1, <1>4
  <2> QED BY Zenon, <2>1, SameSelf
<1>5. CASE ~refused /\ ~matches
  <2>1. on_commit(s, m) = w
    <3> HIDE DEF refused, matches, u, w
    <3> QED BY <1>1, <1>5
  <2>2. Local(w) /\ EntryStored(s, n, e, w)
    <3> HIDE DEF e
    <3> QED BY <1>2, <1>3, <1>5, EntryStoredLocal
  <2>3. SameExcept(s, w, PhaseFields)
    <3> HIDE DEF w
    <3> QED BY <2>2 DEF EntryStored, SameExcept, PhaseFields
  <2> QED
    <3> HIDE DEF w
    <3> QED BY <2>1, <2>2, <2>3
<1>6. CASE ~refused /\ matches
  <2>1. on_commit(s, m) = try_commit(u, n)
    <3> HIDE DEF refused, matches, u, w
    <3> QED BY <1>1, <1>6
  <2>2. e.has_preprepare
    <3> HIDE DEF e
    <3> QED BY <1>2, <1>3, <1>6 DEF EntryOK, ZeroDigest, HashValue
  <2>3. e2 \in Entry /\ EntryOK(e2)
    <3> HIDE DEF e
    <3> QED BY <1>2, <1>3, <2>2 DEF Entry, EntryOK
  <2>4. Local(u) /\ EntryStored(s, n, e2, u)
    <3> HIDE DEF e2
    <3> QED BY <1>2, <1>6, <2>3, EntryStoredLocal
  <2>5. CommitCounted(s, m, u)
    <3> HIDE DEF u
    <3> QED BY <1>6, <2>2, <2>4 DEF CommitCounted
  <2> HIDE DEF u
  <2>6. n \in DOMAIN u.reqlog
    BY <2>4 DEF EntryStored, Put
  <2>7. /\ Local(try_commit(u, n))
        /\ SameExcept(u, try_commit(u, n), PhaseFields)
    BY <2>4, <2>6, TryCommitLocal
  <2>8. SameExcept(s, try_commit(u, n), PhaseFields)
    BY ZenonT(40), <2>4, <2>7 DEF EntryStored, SameExcept, PhaseFields
  <2> QED
    BY <2>1, <2>4, <2>5, <2>6, <2>7, <2>8
<1> QED
  BY Zenon, <1>4, <1>5, <1>6

\* on_prepare adds to the prepares of an entry.
PrepareCounted(s, m, t) ==
  LET e == At(s.reqlog, m.seq_num, NewEntry)
  IN  EntryStored(s, m.seq_num, [e EXCEPT !.prepares = @ \cup {m.replica_id}], t)

\* on_prepare keeps the node well formed.
LEMMA OnPrepareLocal ==
  ASSUME NEW s, Local(s), NEW m \in Vote, NEW src
  PROVE  LET t == on_prepare(s, m, src)
         IN  /\ Local(t) /\ SameExcept(s, t, PhaseFields)
             /\ \/ t = s
                \/ \E u : /\ Local(u) /\ PrepareCounted(s, m, u)
                          /\ m.seq_num \in DOMAIN u.reqlog
                          /\ t = try_prepare(u, m.seq_num)
<1> DEFINE n == m.seq_num
           e == At(s.reqlog, n, NewEntry)
           e2 == [e EXCEPT !.prepares = @ \cup {m.replica_id}]
           refused == \/ comes_from_primary(src, s.view) \/ s.view_changing
                      \/ m.view # s.view \/ ~InWindow(s, n)
                      \/ Conflicts(e, m.req_digest)
           u == [s EXCEPT !.reqlog = Put(@, n, e2)]
<1>1. on_prepare(s, m, src) = IF refused THEN s ELSE try_prepare(u, n)
  BY DEF on_prepare
<1>2. n \in Nat /\ m.replica_id \in Replicas
  BY DEF Vote
<1>3. e \in Entry /\ EntryOK(e)
  BY EntryAt
<1>4. CASE refused
  <2>1. on_prepare(s, m, src) = s
    <3> HIDE DEF refused, u
    <3> QED BY <1>1, <1>4
  <2> QED BY Zenon, <2>1, SameSelf
<1>5. CASE ~refused
  <2>1. on_prepare(s, m, src) = try_prepare(u, n)
    <3> HIDE DEF refused, u
    <3> QED BY <1>1, <1>5
  <2>2. e2 \in Entry /\ EntryOK(e2)
    <3> HIDE DEF e
    <3> QED BY <1>2, <1>3 DEF Entry, EntryOK
  <2>3. Local(u) /\ EntryStored(s, n, e2, u)
    <3> HIDE DEF e2
    <3> QED BY <1>2, <1>5, <2>2, EntryStoredLocal
  <2>4. PrepareCounted(s, m, u)
    <3> HIDE DEF u
    <3> QED BY <2>3 DEF PrepareCounted
  <2> HIDE DEF u
  <2>5. n \in DOMAIN u.reqlog
    BY <2>3 DEF EntryStored, Put
  <2>6. /\ Local(try_prepare(u, n))
        /\ SameExcept(u, try_prepare(u, n), PhaseFields)
    BY <2>3, <2>5, TryPrepareLocal
  <2>7. SameExcept(s, try_prepare(u, n), PhaseFields)
    BY <2>3, <2>6 DEF EntryStored, SameExcept, PhaseFields
  <2> QED
    BY <2>1, <2>3, <2>4, <2>5, <2>6, <2>7
<1> QED
  BY <1>4, <1>5

\* An entry with an accepted PrePrepare is well formed.
LEMMA PrePreparedEntry ==
  ASSUME NEW e \in Entry, NEW v \in Nat, NEW d \in HashValue, NEW req \in Request,
         NEW i \in Replicas
  PROVE  PrePrepared(e, v, d, req, i) \in Entry /\ EntryOK(PrePrepared(e, v, d, req, i))
<1>1. d \in Digest
  BY DEF HashValue, Digest
<1>2. PrePrepared(e, v, d, req, i) \in Entry
  BY Zenon, <1>1 DEF PrePrepared, Entry, Stages
<1>3. EntryOK(PrePrepared(e, v, d, req, i))
  BY ZenonT(40) DEF PrePrepared, Entry, EntryOK
<1> QED
  BY <1>2, <1>3

\* on_preprepare_impl accepts the PrePrepare m.
PrePrepareStored(s, m, t) ==
  LET e == At(s.reqlog, m.seq_num, NewEntry)
  IN  /\ e.has_preprepare => e.digest = m.req_digest
      /\ SameExcept(s, t, {"timer", "timer_running", "reqlog"})
      /\ t.reqlog = Put(s.reqlog, m.seq_num,
                        PrePrepared(e, m.view, m.req_digest, m.req, s.id))

OwnPrepare(s, m) == PrepareMsg(s.view, m.seq_num, m.req_digest, s.id)

\* on_preprepare_impl keeps the node well formed.
LEMMA OnPrePrepareImplLocal ==
  ASSUME NEW s, Local(s), NEW m \in PrePrepare
  PROVE  LET t == on_preprepare_impl(s, m)
         IN  /\ Local(t) /\ SameExcept(s, t, PhaseFields)
             /\ \/ t = s
                \/ \E u : /\ Local(u) /\ PrePrepareStored(s, m, u)
                          /\ OwnPrepare(s, m) \in Message
                          /\ m.seq_num \in DOMAIN broadcast(u, OwnPrepare(s, m)).reqlog
                          /\ t = try_prepare(broadcast(u, OwnPrepare(s, m)), m.seq_num)
<1> DEFINE n == m.seq_num
           e == At(s.reqlog, n, NewEntry)
           e2 == PrePrepared(e, m.view, m.req_digest, m.req, s.id)
           refused == \/ s.view_changing \/ m.view # s.view \/ ~InWindow(s, n)
                      \/ Conflicts(e, m.req_digest)
           timed == start_timer_if_not_running(s)
           u == [timed EXCEPT !.reqlog = Put(@, n, e2)]
           p == OwnPrepare(s, m)
           w == broadcast(u, p)
<1>1. on_preprepare_impl(s, m) = IF refused THEN s ELSE try_prepare(w, n)
  BY DEF on_preprepare_impl, OwnPrepare
<1>2. /\ n \in Nat /\ m.req_digest \in HashValue /\ m.view \in Nat
      /\ m.req \in Request
  BY DEF PrePrepare
<1>3. e \in Entry /\ EntryOK(e) /\ s.id \in Replicas /\ s.view \in Nat
  BY Zenon, EntryAt DEF Local, IsNode
<1>4. CASE refused
  <2>1. on_preprepare_impl(s, m) = s
    <3> HIDE DEF refused, w
    <3> QED BY ZenonT(40), <1>1, <1>4
  <2> QED BY Zenon, <2>1, SameSelf
<1>5. CASE ~refused
  <2>1. on_preprepare_impl(s, m) = try_prepare(w, n)
    <3> HIDE DEF refused, w
    <3> QED BY <1>1, <1>5
  <2>2. e2 \in Entry /\ EntryOK(e2)
    <3> HIDE DEF e
    <3> QED BY <1>2, <1>3, PrePreparedEntry
  <2>3. Local(timed) /\ SameExcept(s, timed, {"timer", "timer_running"})
    BY StartTimerLocal
  <2>4. InWindow(timed, n) /\ timed.reqlog = s.reqlog
    <3> HIDE DEF timed
    <3> QED BY <1>5, <2>3 DEF InWindow, H, SameExcept, NodeFields
  <2>5. Local(u) /\ EntryStored(timed, n, e2, u)
    <3> HIDE DEF e2, timed
    <3> QED BY ZenonT(40), <1>2, <2>2, <2>3, <2>4, EntryStoredLocal
  <2>6. PrePrepareStored(s, m, u)
    <3> HIDE DEF u, timed
    <3> QED BY <1>5, <2>3, <2>4, <2>5
               DEF PrePrepareStored, EntryStored, SameExcept, Conflicts
  <2>7. p \in Message
    BY <1>2, <1>3 DEF OwnPrepare, PrepareMsg, Message, Vote
  <2> HIDE DEF u, p
  <2>8. Local(w) /\ SameExcept(u, w, {"out"})
    BY ZenonT(30), <2>5, <2>7, BroadcastLocal
  <2>9. n \in DOMAIN w.reqlog
    <3> HIDE DEF w
    <3>1. w.reqlog = u.reqlog
      BY <2>8 DEF SameExcept, NodeFields
    <3> QED BY <2>5, <3>1 DEF EntryStored, Put
  <2>10. Local(try_prepare(w, n)) /\ SameExcept(s, try_prepare(w, n), PhaseFields)
    <3> HIDE DEF w, timed
    <3>1. /\ Local(try_prepare(w, n))
          /\ SameExcept(w, try_prepare(w, n), PhaseFields)
      BY <2>8, <2>9, TryPrepareLocal
    <3> QED BY ZenonT(40), <2>6, <2>8, <3>1 DEF PrePrepareStored, SameExcept, PhaseFields,
               TryExecuteFields, ExecuteFields
  <2> QED
    BY <2>1, <2>5, <2>6, <2>7, <2>9, <2>10 DEF p
<1> QED
  BY <1>4, <1>5

\* The primary assigns the next number to the request m.
SequenceAssigned(s, m, t) ==
  LET e == At(s.reqlog, s.seq_num + 1, NewEntry)
  IN  /\ is_primary(s) /\ s.h <= s.seq_num
      /\ SameExcept(s, t, {"seq_num", "reqlog"})
      /\ t.seq_num = s.seq_num + 1
      /\ t.reqlog = Put(s.reqlog, s.seq_num + 1,
                        PrePrepared(e, s.view, get_hash(m), m, s.id))

OwnPrePrepare(s, m) == PrePrepareMsg(s.view, s.seq_num + 1, get_hash(m), m)

\* The primary's assignment of a number keeps the node well formed.
LEMMA AssignSequenceLocal ==
  ASSUME NEW s, Local(s), NEW m \in Request, is_primary(s),
         ~(s.seq_num < s.h), ~(s.seq_num >= H(s))
  PROVE  /\ Local(AssignSequence(s, m))
         /\ \E t : /\ Local(t) /\ SequenceAssigned(s, m, t)
                   /\ OwnPrePrepare(s, m) \in Message
                   /\ AssignSequence(s, m) = broadcast(t, OwnPrePrepare(s, m))
<1> DEFINE n == s.seq_num + 1
           e == At(s.reqlog, n, NewEntry)
           e2 == PrePrepared(e, s.view, get_hash(m), m, s.id)
           t == [s EXCEPT !.seq_num = n, !.reqlog = Put(@, n, e2)]
           u == [s EXCEPT !.reqlog = Put(@, n, e2)]
           p == OwnPrePrepare(s, m)
<1>1. AssignSequence(s, m) = broadcast(t, p)
  BY DEF AssignSequence, OwnPrePrepare
<1>2. /\ s.seq_num \in Nat /\ s.h \in Nat /\ s.view \in Nat /\ s.id \in Replicas
      /\ n \in Nat /\ InWindow(s, n)
  BY ConstantTypes DEF Local, IsNode, InWindow, H
<1>3. get_hash(m) \in HashValue
  BY DEF get_hash, HashValue
<1>4. e2 \in Entry /\ EntryOK(e2)
  <2>1. e \in Entry
    BY EntryAt
  <2> HIDE DEF e
  <2> QED BY <1>2, <1>3, <2>1, PrePreparedEntry
<1>5. Local(u) /\ EntryStored(s, n, e2, u)
  <2> HIDE DEF e2, n
  <2> QED BY <1>2, <1>4, EntryStoredLocal
<1>6. SameExcept(u, t, {"seq_num"}) /\ t.seq_num = n
  <2> HIDE DEF e2, n
  <2> QED BY Zenon DEF SameExcept, Local, IsNode, NodeFields
<1>7. Local(t)
  <2> HIDE DEF u, t, n
  <2>1. IsNode(t)
    BY ZenonT(30), <1>2, <1>5, <1>6 DEF Local, IsNode, NodeFields, SameExcept
  <2> QED BY <1>5, <1>6, <2>1, LocalFrame DEF SameExcept, Loose
<1>8. SequenceAssigned(s, m, t)
  <2> HIDE DEF u, t
  <2> QED BY <1>2, <1>5, <1>6
             DEF SequenceAssigned, EntryStored, SameExcept, NodeFields
<1>9. p \in Message
  BY <1>2, <1>3 DEF OwnPrePrepare, PrePrepareMsg, Message, PrePrepare
<1>10. Local(broadcast(t, p))
  <2> HIDE DEF t, p
  <2> QED BY ZenonT(30), <1>7, <1>9, BroadcastLocal
<1> HIDE DEF t
<1> QED
  BY <1>1, <1>7, <1>8, <1>9, <1>10

\* on_request resends a reply or refuses, forwards, or assigns a number.
LEMMA OnRequestLocal ==
  ASSUME NEW s, Local(s), NEW m \in Request
  PROVE  LET t == on_request(s, m)
         IN  /\ Local(t)
             /\ \/ SameExcept(s, t, {"replies"})
                \/ \E u : /\ Local(u) /\ SameExcept(s, u, {"timer", "timer_running"})
                          /\ t = send_to_replica(u, primary(s), m)
                \/ \E u : /\ Local(u) /\ SequenceAssigned(s, m, u)
                          /\ OwnPrePrepare(s, m) \in Message
                          /\ t = broadcast(u, OwnPrePrepare(s, m))
<1> DEFINE t == on_request(s, m)
           c == m.client_id
           known == AlreadyReplied(s, m)
           reply == ReplyMsg(s.view, m.timestamp, c, s.id, s.last_replies[c].result)
<1>0. /\ s.view \in Nat /\ s.id \in Replicas
      /\ m.timestamp \in Nat /\ c \in Nat /\ m \in Message
      /\ primary(s) \in Replicas
  <2>1. s.view \in Nat /\ s.id \in Replicas
    BY DEF Local, IsNode
  <2>2. m.timestamp \in Nat /\ c \in Nat /\ m \in Message
    BY DEF Request, Message
  <2>3. primary(s) \in Replicas
    BY <2>1, PrimaryIsReplica
  <2> QED BY ZenonT(40), <2>1, <2>2, <2>3
<1>1. SameExcept(s, s, {"replies"})
  BY DEF SameExcept, Local, IsNode
<1>2. CASE known
  <2>1. t = send_to_client(s, c, reply)
    BY <1>2 DEF on_request
  <2>2. reply \in Reply
    <3>1. s.last_replies[c].result \in StateDigest
      BY <1>2 DEF AlreadyReplied, Local, IsNode, IsMap
    <3> QED BY ZenonT(40), <1>0, <3>1 DEF ReplyMsg, Reply
  <2> QED
    <3> HIDE DEF reply
    <3> QED BY ZenonT(40), <2>1, <2>2, SendToClientLocal
<1>3. CASE ~known /\ s.view_changing
  <2>1. t = s
    BY <1>3 DEF on_request
  <2> QED BY <1>1, <2>1
<1>4. CASE ~known /\ ~s.view_changing /\ ~is_primary(s)
  <2> DEFINE u == start_timer_if_not_running(s)
  <2>1. t = send_to_replica(u, primary(s), m)
    BY <1>4 DEF on_request
  <2>2. Local(u) /\ SameExcept(s, u, {"timer", "timer_running"})
    BY StartTimerLocal
  <2> HIDE DEF u
  <2>3. Local(send_to_replica(u, primary(s), m))
    BY ZenonT(40), <1>0, <2>2, SendToReplicaLocal
  <2> QED BY <2>1, <2>2, <2>3
<1>5. CASE /\ ~known /\ ~s.view_changing /\ is_primary(s)
           /\ s.seq_num < s.h \/ s.seq_num >= H(s) \/ InProgress(s, m)
  <2>1. t = s
    BY <1>5 DEF on_request
  <2> QED BY <1>1, <2>1
<1>6. CASE /\ ~known /\ ~s.view_changing /\ is_primary(s)
           /\ ~(s.seq_num < s.h \/ s.seq_num >= H(s) \/ InProgress(s, m))
  <2>1. t = AssignSequence(s, m)
    BY <1>6 DEF on_request
  <2> HIDE DEF t
  <2>2. Local(AssignSequence(s, m))
    BY <1>6, AssignSequenceLocal
  <2>3. PICK u : /\ Local(u) /\ SequenceAssigned(s, m, u)
                 /\ OwnPrePrepare(s, m) \in Message
                 /\ AssignSequence(s, m) = broadcast(u, OwnPrePrepare(s, m))
    BY <1>6, AssignSequenceLocal
  <2>4. t = broadcast(u, OwnPrePrepare(s, m)) /\ Local(t)
    BY <2>1, <2>2, <2>3
  <2> QED BY ZenonT(40), <2>3, <2>4 DEF t
<1> QED
  BY <1>2, <1>3, <1>4, <1>5, <1>6

-----------------------------------------------------------------------------
(* The member functions of the view change. *)

\* The finite sets of ViewChangeMsg a node may hold.
VSet(V) == V \subseteq ViewChange /\ IsFiniteSet(V)

\* The proofs of a V set are finitely many.
LEMMA ProofsFinite ==
  ASSUME NEW V, VSet(V)
  PROVE  /\ IsFiniteSet(UNION {vc.prepared_proofs : vc \in V})
         /\ UNION {vc.prepared_proofs : vc \in V} \subseteq Proof
<1> DEFINE g == [vc \in V |-> vc.prepared_proofs]
           T == {vc.prepared_proofs : vc \in V}
<1>1. T = {g[vc] : vc \in V}
  OBVIOUS
<1>2. IsFiniteSet(T)
  <2> HIDE DEF g, T
  <2> QED BY <1>1, FiniteValues DEF VSet
<1>3. \A P \in T : IsFiniteSet(P) /\ P \subseteq Proof
  BY DEF VSet, ViewChange
<1> QED
  BY Zenon, <1>2, <1>3, FS_UNION

\* min_s is a natural number.
LEMMA MinSType ==
  ASSUME NEW V, VSet(V)
  PROVE  MinS(V) \in Nat
<1> DEFINE g == [vc \in V |-> vc.last_stable_checkpoint]
           T == {vc.last_stable_checkpoint : vc \in V}
<1>1. T = {g[vc] : vc \in V}
  OBVIOUS
<1>2. IsFiniteSet(T)
  <2> HIDE DEF g, T
  <2> QED BY <1>1, FiniteValues DEF VSet
<1>3. T \subseteq Nat
  BY DEF VSet, ViewChange
<1>4. IsFiniteSet({0} \cup T)
  <2> HIDE DEF T
  <2> QED BY Zenon, <1>2, FS_Singleton, FS_Union
<1>5. Max({0} \cup T) \in Nat
  <2> HIDE DEF T
  <2> DEFINE S == {0} \cup T
  <2>1. S \subseteq Nat /\ S # {} /\ IsFiniteSet(S)
    BY <1>3, <1>4
  <2>2. Max(S) \in Nat
    <3> HIDE DEF S
    <3> QED BY Zenon, <2>1, MaxOfFinite
  <2> QED BY <2>2
<1> QED
  BY <1>5 DEF MinS

\* max_s is a natural number.
LEMMA MaxSType ==
  ASSUME NEW V, VSet(V)
  PROVE  MaxS(V) \in Nat
<1> DEFINE A == UNION {vc.prepared_proofs : vc \in V}
           g == [p \in A |-> p.seq_num]
           T == UNION {{p.seq_num : p \in vc.prepared_proofs} : vc \in V}
<1>1. T = {g[p] : p \in A}
  <2>1. \A x : x \in T <=> \E vc \in V : \E p \in vc.prepared_proofs : x = p.seq_num
    OBVIOUS
  <2>2. \A x : x \in {g[p] : p \in A} <=> \E p \in A : x = p.seq_num
    BY Zenon
  <2>3. \A p : p \in A <=> \E vc \in V : p \in vc.prepared_proofs
    OBVIOUS
  <2>4. \A x : x \in T <=> x \in {g[p] : p \in A}
    <3> HIDE DEF T, g, A
    <3> QED BY Zenon, <2>1, <2>2, <2>3
  <2> HIDE DEF T, g, A
  <2> QED BY <2>4
<1>2. IsFiniteSet(A) /\ A \subseteq Proof
  BY ProofsFinite
<1>3. IsFiniteSet(T)
  <2> HIDE DEF g, T, A
  <2> QED BY <1>1, <1>2, FiniteValues
<1>4. T \subseteq Nat
  <2> HIDE DEF A
  <2> QED BY ZenonT(40), <1>1, <1>2 DEF Proof
<1>5. IsFiniteSet({0} \cup T)
  <2> HIDE DEF T
  <2> QED BY Zenon, <1>3, FS_Singleton, FS_Union
<1>6. Max({0} \cup T) \in Nat
  <2> HIDE DEF T
  <2> DEFINE S == {0} \cup T
  <2>1. S \subseteq Nat /\ S # {} /\ IsFiniteSet(S)
    BY <1>4, <1>5
  <2>2. Max(S) \in Nat
    <3> HIDE DEF S
    <3> QED BY Zenon, <2>1, MaxOfFinite
  <2> QED BY <2>2
<1> QED
  BY <1>6 DEF MaxS

\* The choice of ChooseDigest is defined: among finitely many proofs one has
\* the highest view, and of those one comes from the first replica.
LEMMA ChooseDigestType ==
  ASSUME NEW V, VSet(V), NEW n
  PROVE  ChooseDigest(V, n) \in HashValue
<1> DEFINE all == UNION {{vc.replica_id} \X vc.prepared_proofs : vc \in V}
           found == {x \in all : x[2].seq_num = n /\ x[2].view > 0}
           Best(x) == \A y \in found : \/ x[2].view > y[2].view
                                       \/ x[2].view = y[2].view /\ x[1] <= y[1]
           best == CHOOSE x \in found : Best(x)
<1>1. ChooseDigest(V, n) = IF found = {} THEN EmptyHash ELSE best[2].digest
  BY DEF ChooseDigest
<1>2. EmptyHash \in HashValue
  BY DEF EmptyHash, HashValue, NullReq, RequestMsg, Request, ServiceOperation
<1>3. all \subseteq Replicas \X Proof
  BY DEF VSet, ViewChange
<1>4. SUFFICES ASSUME found # {} PROVE best[2].digest \in HashValue
  <2> HIDE DEF found, best
  <2> QED BY <1>1, <1>2
<1> DEFINE views == {x[2].view : x \in found}
           A == UNION {vc.prepared_proofs : vc \in V}
           g == [p \in A |-> p.view]
           B == {g[p] : p \in A}
<1>5. IsFiniteSet(B)
  <2>1. IsFiniteSet(A)
    BY ProofsFinite
  <2> HIDE DEF A, g
  <2> QED BY <2>1, FiniteValues
<1>6. views \subseteq B
  OBVIOUS
<1>7. views \subseteq Nat /\ views # {}
  <2> HIDE DEF all
  <2> QED BY <1>3, <1>4 DEF Proof
<1>8. Max(views) \in views /\ \A v \in views : v <= Max(views)
  <2> HIDE DEF views, B
  <2>1. IsFiniteSet(views)
    BY <1>5, <1>6, FS_Subset
  <2> QED BY Zenon, <1>7, <2>1, MaxOfFinite
<1> DEFINE top == Max(views)
           ids == {x[1] : x \in {x \in found : x[2].view = top}}
<1>9. ids \subseteq Nat /\ ids # {}
  <2> HIDE DEF all, top
  <2>1. ids \subseteq Nat
    BY Zenon, <1>3, ConstantTypes
  <2>2. ids # {}
    BY Zenon, <1>8 DEF top
  <2> QED BY <2>1, <2>2
<1>10. PICK i \in ids : \A j \in ids : i <= j
  <2> HIDE DEF ids
  <2> QED BY Zenon, <1>9, LeastNumber
<1>11. PICK x \in found : x[2].view = top /\ x[1] = i
  <2> HIDE DEF found, top
  <2> QED BY <1>10
<1>12. Best(x)
  <2> SUFFICES ASSUME NEW y \in found
               PROVE  \/ x[2].view > y[2].view
                      \/ x[2].view = y[2].view /\ x[1] <= y[1]
    OBVIOUS
  <2> HIDE DEF found
  <2>1. y[2].view \in views
    OBVIOUS
  <2>2. y[2].view <= top /\ y[2].view \in Nat /\ top \in Nat
    <3> HIDE DEF views
    <3> QED BY Zenon, <1>7, <1>8, <2>1
  <2>3. y[2].view = top => y[1] \in ids
    <3> HIDE DEF top
    <3> QED OBVIOUS
  <2>4. y[2].view = top => x[1] <= y[1]
    <3> HIDE DEF top, ids
    <3> QED BY <1>10, <1>11, <2>3
  <2> HIDE DEF top
  <2> QED BY <1>11, <2>2, <2>4
<1>13. best \in found
  <2> HIDE DEF found, Best
  <2> QED BY <1>12
<1> HIDE DEF best, all
<1> QED
  BY <1>3, <1>13 DEF Proof

\* The O set of a new primary is a sequence of PrePrepares.
LEMMA NewPrePreparesType ==
  ASSUME NEW V, VSet(V), NEW v \in Nat
  PROVE  NewPrePrepares(v, V) \in Seq(PrePrepare)
<1> DEFINE a == MaxS(V) - MinS(V)
           b == IF a < 0 THEN 0 ELSE a
           O == NewPrePrepares(v, V)
<1>1. MinS(V) \in Nat /\ MaxS(V) \in Nat
  BY MinSType, MaxSType
<1>2. b \in Nat /\ 1..a = 1..b
  BY <1>1
<1>3. \A k \in 1..b : PrePrepareMsg(v, MinS(V) + k, ChooseDigest(V, MinS(V) + k), NullReq)
                        \in PrePrepare
  <2> TAKE k \in 1..b
  <2>1. MinS(V) + k \in Nat
    BY <1>1, <1>2
  <2>2. ChooseDigest(V, MinS(V) + k) \in HashValue
    BY ChooseDigestType
  <2>3. NullReq \in Request
    BY DEF NullReq, RequestMsg, Request, ServiceOperation
  <2> HIDE DEF b
  <2> QED BY <2>1, <2>2, <2>3 DEF PrePrepareMsg, PrePrepare
<1>4. O = [k \in 1..b |->
             PrePrepareMsg(v, MinS(V) + k, ChooseDigest(V, MinS(V) + k), NullReq)]
  <2> HIDE DEF b
  <2> QED BY <1>2 DEF NewPrePrepares
<1> HIDE DEF b
<1> QED
  BY <1>2, <1>3, <1>4
\* Entering a view ends the view change, whose timer is not pending.
LEMMA EnterViewLocal ==
  ASSUME NEW s, Local(s), NEW v \in Nat
  PROVE  /\ Local(EnterView(s, v))
         /\ SameExcept(s, EnterView(s, v),
                       {"view", "view_changing", "view_change_timeout_count"})
         /\ EnterView(s, v).view = v
<1> DEFINE t == EnterView(s, v)
<1>1. SameExcept(s, t, {"view", "view_changing", "view_change_timeout_count"})
  BY Zenon DEF Local, IsNode, EnterView, SameExcept, NodeFields
<1>2. t.view = v /\ t.view_changing = FALSE /\ t.view_change_timeout_count = 0
  BY ZenonT(40) DEF Local, IsNode, EnterView, NodeFields
<1>3. IsNode(t)
  <2> HIDE DEF t
  <2>1. t.view_changing \in BOOLEAN
    BY Zenon, <1>2, Zenon
  <2>2. t.view \in Nat /\ t.view_change_timeout_count \in Nat
    BY <1>2
  <2> QED BY ZenonT(40), <1>1, <2>1, <2>2 DEF Local, IsNode, SameExcept, NodeFields
<1>4. /\ t.h = s.h /\ t.reqlog = s.reqlog /\ t.timer = s.timer
      /\ t.timer_running = s.timer_running
      /\ t.executed = s.executed /\ t.last_exec = s.last_exec
  BY ZenonT(40), <1>1 DEF SameExcept, NodeFields
<1>5. TimerOK(t)
  BY <1>2, <1>4 DEF Local, TimerOK
<1> HIDE DEF t
<1>6. Local(t)
  BY <1>3, <1>4, <1>5 DEF Local, H
<1> QED
  BY <1>1, <1>2, <1>6 DEF t

\* How on_viewchange and on_newview end.
Settle(s) == manage_timer([s EXCEPT !.seq_num = recompute_highest_sequence(s)])

\* The end of a view change, seq_num_ and the timer, keeps the node well
\* formed.
LEMMA SettleLocal ==
  ASSUME NEW s, Local(s)
  PROVE  /\ Local(Settle(s))
         /\ SameExcept(s, Settle(s), {"seq_num", "timer", "timer_running"})
         /\ \A n \in DOMAIN s.reqlog : n <= Settle(s).seq_num
<1> DEFINE x == recompute_highest_sequence(s)
           u == [s EXCEPT !.seq_num = x]
           t == manage_timer(u)
<1>1. x \in Nat /\ \A n \in DOMAIN s.reqlog : n <= x
  <2>1. s.last_exec \in Nat /\ s.h \in Nat /\ DOMAIN s.reqlog \subseteq Nat
    BY DEF Local, IsNode, IsMap
  <2>2. IsFiniteSet(DOMAIN s.reqlog)
    BY LogFinite
  <2> QED BY ZenonT(40), <2>1, <2>2, HighestSequence
<1>2. SameExcept(s, u, {"seq_num"}) /\ u.seq_num = x
  BY ZenonT(40) DEF Local, IsNode, SameExcept, NodeFields
<1>3. IsNode(u)
  <2> HIDE DEF u, x
  <2> QED BY ZenonT(40), <1>1, <1>2 DEF Local, IsNode, SameExcept, NodeFields
<1>4. Local(u)
  <2> HIDE DEF u, x
  <2>1. SameExcept(s, u, Loose)
    BY <1>2 DEF SameExcept, Loose
  <2> QED BY <1>3, <2>1, LocalFrame
<1>5. Local(t) /\ SameExcept(u, t, {"timer", "timer_running"})
  <2> HIDE DEF u
  <2> QED BY <1>4, ManageTimerLocal
<1>6. SameExcept(s, t, {"seq_num", "timer", "timer_running"})
  <2> HIDE DEF u, t
  <2> QED BY <1>2, <1>5 DEF SameExcept
<1>7. t.seq_num = x
  <2> HIDE DEF u, t, x
  <2> QED BY <1>2, <1>5 DEF SameExcept, NodeFields
<1>8. Settle(s) = t
  BY DEF Settle
<1> HIDE DEF t, x
<1> QED
  BY <1>1, <1>5, <1>6, <1>7, <1>8

ViewFields == {"view_change_store", "view", "view_changing",
               "view_change_timeout_count", "seq_num", "timer", "timer_running",
               "out"}

\* t is s with the ViewChange m stored.
ViewChangeStored(s, m, t) ==
  /\ SameExcept(s, t, {"view_change_store"})
  /\ t.view_change_store = Put(s.view_change_store, <<m.next_view, m.replica_id>>, m)

\* The NewView that starts view v, for some set of ViewChange messages.
IsNewView(nv, v) ==
  \E V : VSet(V) /\ nv = NewViewMsg(v, V, NewPrePrepares(v, V))

\* What a new primary broadcasts is a NewView.
LEMMA NewViewType ==
  ASSUME NEW v \in Nat, NEW nv, IsNewView(nv, v)
  PROVE  nv \in Message /\ nv.type = "newview"
<1>1. PICK V : VSet(V) /\ nv = NewViewMsg(v, V, NewPrePrepares(v, V))
  BY DEF IsNewView
<1>2. NewPrePrepares(v, V) \in Seq(PrePrepare)
  BY <1>1, NewPrePreparesType
<1> QED
  BY <1>1, <1>2 DEF NewViewMsg, NewView, Message, VSet

\* A ViewChange is dropped, stored, or completes the V set of a view this node
\* leads: then the node announces the view and enters it.
LEMMA OnViewChangeLocal ==
  ASSUME NEW s, Local(s), NEW m \in ViewChange
  PROVE  LET t == on_viewchange(s, m)
         IN  /\ Local(t) /\ SameExcept(s, t, ViewFields)
             /\ \/ t = s
                \/ ViewChangeStored(s, m, t)
                \/ \E u, nv :
                     /\ Local(u) /\ ViewChangeStored(s, m, u)
                     /\ IsNewView(nv, m.next_view)
                     /\ t = Settle(EnterView(broadcast(u, nv), m.next_view))
<1> DEFINE t == on_viewchange(s, m)
           v == m.next_view
           key == <<v, m.replica_id>>
           store == Put(s.view_change_store, key, m)
           u == [s EXCEPT !.view_change_store = store]
           R == {r \in Replicas : <<v, r>> \in DOMAIN store}
           V == {store[<<v, r>>] : r \in R}
           nv == NewViewMsg(v, V, NewPrePrepares(v, V))
           sent == broadcast(u, nv)
           entered == EnterView(sent, v)
<1>1. t = IF v < s.view \/ v % N # s.id THEN s
          ELSE IF Cardinality(V) < 2 * f + 1 THEN u ELSE Settle(entered)
  BY DEF on_viewchange, Settle
<1>2. v \in Nat /\ key \in Nat \X Replicas
  BY DEF ViewChange
<1>3. IsMap(store, Nat \X Replicas, ViewChange)
  <2>1. IsMap(s.view_change_store, Nat \X Replicas, ViewChange)
    BY DEF Local, IsNode
  <2> HIDE DEF key
  <2> QED BY ZenonT(40), <1>2, <2>1 DEF IsMap, Put
<1>4. ViewChangeStored(s, m, u) /\ u.view_change_store = store
  BY DEF ViewChangeStored, Local, IsNode, SameExcept, NodeFields
<1>5. Local(u)
  <2> HIDE DEF u, store
  <2>1. SameExcept(s, u, {"view_change_store"})
    BY <1>4 DEF ViewChangeStored
  <2>2. IsNode(u)
    BY ZenonT(40), <1>3, <1>4, <2>1 DEF Local, IsNode, SameExcept, NodeFields
  <2>3. SameExcept(s, u, Loose)
    BY <2>1 DEF SameExcept, Loose
  <2> QED BY <2>2, <2>3, LocalFrame
<1>6. VSet(V)
  <2>1. \A r \in R : store[<<v, r>>] \in ViewChange
    <3> HIDE DEF store, v
    <3> QED BY <1>3 DEF IsMap
  <2>2. V \subseteq ViewChange
    <3> HIDE DEF R, store, v
    <3> QED BY Zenon, <2>1
  <2>3. IsFiniteSet(R)
    <3>1. IsFiniteSet(Replicas) /\ R \subseteq Replicas
      BY ConstantTypes, FS_Interval DEF Replicas
    <3> HIDE DEF R
    <3> QED BY <3>1, FS_Subset
  <2> DEFINE g == [r \in R |-> store[<<v, r>>]]
  <2>4. V = {g[r] : r \in R}
    <3> HIDE DEF R, store, v
    <3> QED OBVIOUS
  <2>5. IsFiniteSet(V)
    <3> HIDE DEF V, R, g
    <3> QED BY <2>3, <2>4, FiniteValues
  <2> QED BY <2>2, <2>5 DEF VSet
<1>7. IsNewView(nv, v)
  <2> HIDE DEF V, v
  <2> QED BY <1>6 DEF IsNewView
<1>8. nv \in Message
  <2> HIDE DEF nv, v
  <2> QED BY <1>2, <1>7, NewViewType
<1>9. Local(sent) /\ SameExcept(u, sent, {"out"})
  <2> HIDE DEF u, nv
  <2> QED BY Zenon, <1>5, <1>8, BroadcastLocal
<1>10. /\ Local(entered)
       /\ SameExcept(sent, entered, {"view", "view_changing", "view_change_timeout_count"})
  <2> HIDE DEF sent, v
  <2> QED BY <1>2, <1>9, EnterViewLocal
<1>11. /\ Local(Settle(entered))
       /\ SameExcept(entered, Settle(entered), {"seq_num", "timer", "timer_running"})
  <2> HIDE DEF entered
  <2> QED BY <1>10, SettleLocal
<1>12. SameExcept(s, u, {"view_change_store"})
  <2> HIDE DEF u
  <2> QED BY <1>4 DEF ViewChangeStored
<1>13. /\ SameExcept(s, s, ViewFields) /\ SameExcept(s, u, ViewFields)
       /\ SameExcept(s, Settle(entered), ViewFields)
  <2>1. SameExcept(s, s, ViewFields)
    BY DEF SameExcept, Local, IsNode
  <2> HIDE DEF u, sent, entered
  <2>2. SameExcept(s, u, ViewFields)
    BY <1>12 DEF SameExcept, ViewFields
  <2>3. SameExcept(s, Settle(entered), ViewFields)
    BY <1>12, <1>9, <1>10, <1>11 DEF SameExcept, ViewFields
  <2> QED BY ZenonT(40), <2>1, <2>2, <2>3
<1>14. t = s \/ t = u \/ t = Settle(entered)
  <2> HIDE DEF t, u, V, entered
  <2> QED BY <1>1
<1>15. Local(t) /\ SameExcept(s, t, ViewFields)
  <2> HIDE DEF t, u, entered
  <2> QED BY <1>5, <1>11, <1>13, <1>14
<1>16. \/ t = s
       \/ ViewChangeStored(s, m, t)
       \/ /\ Local(u) /\ ViewChangeStored(s, m, u) /\ IsNewView(nv, v)
          /\ t = Settle(EnterView(broadcast(u, nv), v))
  <2> HIDE DEF t, u, nv, v
  <2> QED BY <1>4, <1>5, <1>7, <1>14
<1> QED
  BY <1>15, <1>16

\* The fields start_view_change sets before it broadcasts.
LeavingFields == {"view_changing", "view_change_timeout_count", "timer", "timer_running"}

\* A node whose timer expired and that leaves its view is well formed.
LEMMA LeavingLocal ==
  ASSUME NEW s, Local(s), s.timer # Off
  PROVE  LET t == [s EXCEPT !.view_changing = TRUE,
                            !.view_change_timeout_count = @ + 1, !.timer = Off]
         IN  Local(t) /\ SameExcept(s, t, LeavingFields)
<1> DEFINE t == [s EXCEPT !.view_changing = TRUE,
                          !.view_change_timeout_count = @ + 1, !.timer = Off]
<1>1. SameExcept(s, t, LeavingFields)
  BY ZenonT(30) DEF Local, IsNode, SameExcept, NodeFields, LeavingFields
<1>2. /\ t.view_changing = TRUE /\ t.timer = Off
      /\ t.timer_running = s.timer_running
      /\ t.view_change_timeout_count = s.view_change_timeout_count + 1
  BY DEF Local, IsNode, NodeFields
<1>3. s.view_change_timeout_count = 0
  BY DEF Local, TimerOK
<1> HIDE DEF t
<1>4. TimerOK(t)
  BY <1>2, <1>3 DEF TimerOK
<1>5. t.timer \in Nat \cup {Off} /\ t.view_change_timeout_count \in Nat
  BY <1>2, <1>3
<1>6. t.view_changing \in BOOLEAN /\ t.timer_running \in BOOLEAN
  <2>1. s.timer_running \in BOOLEAN
    BY ZenonT(40) DEF Local, IsNode
  <2> QED BY ZenonT(40), <1>2, <2>1
<1>7. IsNode(t)
  BY ZenonT(40), <1>1, <1>5, <1>6 DEF Local, IsNode, SameExcept, NodeFields, LeavingFields
<1>8. /\ t.h = s.h /\ t.reqlog = s.reqlog
      /\ t.executed = s.executed /\ t.last_exec = s.last_exec
  BY <1>1 DEF SameExcept, NodeFields, LeavingFields
<1>9. Local(t)
  BY ZenonT(40), <1>4, <1>7, <1>8 DEF Local, H
<1> QED
  BY <1>1, <1>9 DEF t

\* The prepared proofs of a node.
ProofsOf(s) ==
  {PrepareProof(s.reqlog[n].view, n, s.reqlog[n].digest) :
     n \in {n \in DOMAIN s.reqlog : s.reqlog[n].stage = "PREPARED"}}

\* The P set of a ViewChange is a finite set of proofs.
LEMMA ProofsOfType ==
  ASSUME NEW s, Local(s)
  PROVE  ProofsOf(s) \subseteq Proof /\ IsFiniteSet(ProofsOf(s))
<1> DEFINE D == {n \in DOMAIN s.reqlog : s.reqlog[n].stage = "PREPARED"}
           g == [n \in D |-> PrepareProof(s.reqlog[n].view, n, s.reqlog[n].digest)]
<1>1. ProofsOf(s) = {g[n] : n \in D}
  BY Zenon DEF ProofsOf
<1>2. IsFiniteSet(D)
  <2>1. D \subseteq DOMAIN s.reqlog
    OBVIOUS
  <2> HIDE DEF D
  <2> QED BY <2>1, LogFinite, FS_Subset
<1>3. \A n \in D : g[n] \in Proof
  <2> SUFFICES ASSUME NEW n \in D PROVE g[n] \in Proof
    BY Zenon
  <2>1. n \in Nat /\ s.reqlog[n] \in Entry /\ EntryOK(s.reqlog[n])
    BY DEF Local, IsNode, IsMap
  <2>2. s.reqlog[n].stage # "NONE"
    OBVIOUS
  <2>3. s.reqlog[n].digest \in HashValue
    BY <2>1, <2>2 DEF EntryOK
  <2>4. s.reqlog[n].view \in Nat
    BY <2>1 DEF Entry
  <2>5. g[n] = PrepareProof(s.reqlog[n].view, n, s.reqlog[n].digest)
    OBVIOUS
  <2> HIDE DEF g, D
  <2> QED BY <2>1, <2>3, <2>4, <2>5 DEF PrepareProof, Proof
<1> HIDE DEF g, D
<1> QED
  BY <1>1, <1>2, <1>3, FiniteValues

\* The view change timer: the node stops its timer, announces the next view
\* and handles its own announcement.
LEMMA StartViewChangeLocal ==
  ASSUME NEW s, Local(s), s.timer # Off
  PROVE  LET t == start_view_change(s)
         IN  /\ Local(t) /\ SameExcept(s, t, ViewFields)
             /\ \E u, vc : /\ Local(u) /\ SameExcept(s, u, LeavingFields)
                           /\ vc \in ViewChange /\ Local(broadcast(u, vc))
                           /\ t = on_viewchange(broadcast(u, vc), vc)
<1> DEFINE t == start_view_change(s)
           s1 == [s EXCEPT !.view_changing = TRUE,
                           !.view_change_timeout_count = @ + 1, !.timer = Off]
           u == stop_timer(s1)
           vc == ViewChangeMsg(s.view + 1, s.h % Word, s.id, ProofsOf(s))
           sent == broadcast(u, vc)
<1>1. t = on_viewchange(sent, vc)
  BY DEF start_view_change, ProofsOf
<1>2. Local(s1) /\ SameExcept(s, s1, LeavingFields)
  BY Zenon, LeavingLocal
<1>3. Local(u) /\ SameExcept(s1, u, {"timer", "timer_running"})
  <2> HIDE DEF s1
  <2> QED BY <1>2, StopTimerLocal
<1>4. SameExcept(s, u, LeavingFields)
  <2> HIDE DEF s1, u
  <2> QED BY <1>2, <1>3 DEF SameExcept, LeavingFields
<1>5. vc \in ViewChange
  <2>1. s.view + 1 \in Nat /\ s.h % Word \in Nat /\ s.id \in Replicas
    <3>1. s.view \in Nat /\ s.h \in Nat /\ s.id \in Replicas
      BY DEF Local, IsNode
    <3> QED BY <3>1, ConfigAssumption
  <2> QED BY <2>1, ProofsOfType DEF ViewChangeMsg, ViewChange
<1>6. Local(sent) /\ SameExcept(u, sent, {"out"})
  <2>1. vc \in Message
    BY <1>5 DEF Message
  <2> HIDE DEF u, vc
  <2> QED BY Zenon, <1>3, <2>1, BroadcastLocal
<1>7. Local(t) /\ SameExcept(sent, t, ViewFields)
  <2> HIDE DEF t, sent, vc
  <2> QED BY <1>1, <1>5, <1>6, OnViewChangeLocal
<1>8. SameExcept(s, t, ViewFields)
  <2> HIDE DEF t, sent, vc, u
  <2> QED BY <1>4, <1>6, <1>7 DEF SameExcept, ViewFields, LeavingFields
<1>9. /\ Local(u) /\ SameExcept(s, u, LeavingFields)
      /\ vc \in ViewChange /\ Local(broadcast(u, vc))
      /\ t = on_viewchange(broadcast(u, vc), vc)
  <2> HIDE DEF t, u, vc
  <2> QED BY <1>1, <1>3, <1>4, <1>5, <1>6
<1>10. \E x, y : /\ Local(x) /\ SameExcept(s, x, LeavingFields)
                 /\ y \in ViewChange /\ Local(broadcast(x, y))
                 /\ t = on_viewchange(broadcast(x, y), y)
  <2> HIDE DEF t, u, vc
  <2> QED BY <1>9
<1> QED
  BY <1>7, <1>8, <1>10

-----------------------------------------------------------------------------

\* r[k] is node s after the first k PrePrepares of O.
IsInstallation(r, s, O, n) ==
  r = [k \in 0..n |-> IF k = 0 THEN s ELSE on_preprepare_impl(r[k - 1], O[k])]

\* The recursive function of on_newview is defined.
LEMMA InstallationExists ==
  ASSUME NEW s, NEW O, NEW n \in Nat
  PROVE  \E r : IsInstallation(r, s, O, n)
<1> DEFINE P(m) == \E r : IsInstallation(r, s, O, m)
           T == {m \in Nat : ~P(m)}
<1> SUFFICES ASSUME T # {} PROVE FALSE
  OBVIOUS
<1>1. PICK m \in T : \A y \in T : m <= y
  <2>1. T \subseteq Nat
    OBVIOUS
  <2> HIDE DEF T
  <2> QED BY Zenon, <2>1, LeastNumber
<1>2. CASE m = 0
  <2> DEFINE r == [k \in 0..m |-> s]
  <2>1. r = [k \in 0..m |-> IF k = 0 THEN s ELSE on_preprepare_impl(r[k - 1], O[k])]
    BY <1>2
  <2> QED BY <2>1 DEF IsInstallation
<1>3. CASE m # 0
  <2>1. m - 1 \in Nat /\ m - 1 < m
    BY <1>3
  <2>2. P(m - 1)
    <3> HIDE DEF P
    <3> QED BY <1>1, <2>1
  <2>3. PICK g : g = [k \in 0..(m - 1) |->
                        IF k = 0 THEN s ELSE on_preprepare_impl(g[k - 1], O[k])]
    BY <2>2 DEF IsInstallation
  <2> DEFINE r == [k \in 0..m |->
                     IF k = m THEN on_preprepare_impl(g[m - 1], O[m]) ELSE g[k]]
  <2>4. ASSUME NEW k \in 0..m
        PROVE  r[k] = IF k = 0 THEN s ELSE on_preprepare_impl(r[k - 1], O[k])
    <3>1. CASE k = m
      <4>1. r[k] = on_preprepare_impl(g[m - 1], O[k])
        BY <3>1
      <4>2. r[m - 1] = g[m - 1]
        BY <2>1
      <4> QED BY <4>1, <4>2, <3>1, <1>3
    <3>2. CASE k # m
      <4>1. k \in 0..(m - 1)
        BY <3>2
      <4>2. r[k] = g[k]
        BY <3>2
      <4>3. g[k] = IF k = 0 THEN s ELSE on_preprepare_impl(g[k - 1], O[k])
        BY <2>3, <4>1
      <4>4. k # 0 => r[k - 1] = g[k - 1]
        BY <4>1
      <4> QED BY <4>2, <4>3, <4>4
    <3> QED BY <3>1, <3>2
  <2>5. r = [k \in 0..m |-> IF k = 0 THEN s ELSE on_preprepare_impl(r[k - 1], O[k])]
    BY <2>4
  <2> QED
    BY Zenon, <2>5 DEF IsInstallation
<1> QED
  BY <1>2, <1>3

\* Installing PrePrepares one after the other.
LEMMA InstallationLocal ==
  ASSUME NEW s, Local(s), NEW O \in Seq(PrePrepare), NEW r,
         IsInstallation(r, s, O, Len(O))
  PROVE  \A k \in 0..Len(O) : Local(r[k]) /\ SameExcept(s, r[k], PhaseFields)
<1> DEFINE P(m) == Local(r[m]) /\ SameExcept(s, r[m], PhaseFields)
           T == {m \in 0..Len(O) : ~P(m)}
<1>2. SUFFICES ASSUME T # {} PROVE FALSE
  OBVIOUS
<1>3. PICK m \in T : \A y \in T : m <= y
  <2>1. T \subseteq Nat
    OBVIOUS
  <2> HIDE DEF T
  <2> QED BY Zenon, <1>2, <2>1, LeastNumber
<1>4. m \in 0..Len(O) /\ ~P(m)
  OBVIOUS
<1>5. \A k \in 0..Len(O) : r[k] = IF k = 0 THEN s ELSE on_preprepare_impl(r[k - 1], O[k])
  BY DEF IsInstallation
<1>6. m # 0
  <2>1. r[0] = s
    BY <1>5
  <2>2. SameExcept(s, s, PhaseFields)
    BY Zenon DEF SameExcept, Local, IsNode
  <2>3. P(0)
    BY Zenon, <2>1, <2>2
  <2> HIDE DEF P
  <2> QED BY <1>4, <2>3
<1>7. m - 1 \in 0..Len(O) /\ m - 1 < m /\ m \in 1..Len(O)
  BY <1>4, <1>6
<1>8. P(m - 1)
  <2> HIDE DEF P
  <2> QED BY <1>3, <1>7
<1>9. r[m] = on_preprepare_impl(r[m - 1], O[m]) /\ O[m] \in PrePrepare
  BY <1>5, <1>6, <1>7
<1>10. Local(r[m]) /\ SameExcept(r[m - 1], r[m], PhaseFields)
  BY Zenon, <1>8, <1>9, OnPrePrepareImplLocal
<1>11. P(m)
  BY <1>8, <1>10 DEF SameExcept
<1> QED
  BY <1>4, <1>11

NewViewFields == PhaseFields \cup {"view", "view_changing",
                                   "view_change_timeout_count", "seq_num"}

\* A NewView is dropped, or the node enters the view, takes every PrePrepare
\* of it in order, and recomputes seq_num_ and its timer.
LEMMA OnNewViewLocal ==
  ASSUME NEW s, Local(s), NEW m \in NewView, NEW src
  PROVE  LET t == on_newview(s, m, src)
             O == m.pre_prepares
         IN  /\ Local(t) /\ SameExcept(s, t, NewViewFields)
             /\ \/ t = s
                \/ /\ comes_from_primary(src, m.next_view)
                   /\ \E r : /\ IsInstallation(r, EnterView(s, m.next_view), O, Len(O))
                             /\ t = Settle(r[Len(O)])
<1> DEFINE t == on_newview(s, m, src)
           O == m.pre_prepares
           v == m.next_view
           V == m.view_changes
           s1 == EnterView(s, v)
           min_s == MinS(V)
           max_s == Max({min_s, MaxS(V)})
           r == CHOOSE r : r = [k \in 0..Len(O) |->
                  IF k = 0 THEN s1 ELSE on_preprepare_impl(r[k - 1], O[k])]
           last == r[Len(O)]
           refused == \/ ~comes_from_primary(src, v)
                      \/ ~s.view_changing
                      \/ v <= s.view
                      \/ Cardinality(V) < 2 * f + 1
                      \/ Len(O) # max_s - min_s
<1>1. t = IF refused THEN s ELSE Settle(last)
  BY Zenon DEF on_newview, Settle
<1>2. O \in Seq(PrePrepare) /\ Len(O) \in Nat /\ v \in Nat
  BY DEF NewView
<1>3. IsInstallation(r, s1, O, Len(O))
  <2> HIDE DEF s1, O
  <2>1. \E g : g = [k \in 0..Len(O) |->
                      IF k = 0 THEN s1 ELSE on_preprepare_impl(g[k - 1], O[k])]
    <3>1. \E g : IsInstallation(g, s1, O, Len(O))
      BY <1>2, InstallationExists
    <3> QED BY Zenon, <3>1, Zenon DEF IsInstallation
  <2> QED
    BY Zenon, <2>1, Zenon DEF IsInstallation
<1>4. /\ Local(s1)
      /\ SameExcept(s, s1, {"view", "view_changing", "view_change_timeout_count"})
  <2> HIDE DEF v
  <2> QED BY <1>2, EnterViewLocal
<1>5. Local(last) /\ SameExcept(s1, last, PhaseFields)
  <2> HIDE DEF r, s1, O
  <2>1. Len(O) \in 0..Len(O)
    BY <1>2
  <2> QED BY <1>2, <1>3, <1>4, <2>1, InstallationLocal
<1>6. /\ Local(Settle(last))
      /\ SameExcept(last, Settle(last), {"seq_num", "timer", "timer_running"})
  <2> HIDE DEF last
  <2> QED BY <1>5, SettleLocal
<1>7. SameExcept(s, Settle(last), NewViewFields) /\ SameExcept(s, s, NewViewFields)
  <2>1. SameExcept(s, s, NewViewFields)
    BY Zenon DEF SameExcept, Local, IsNode
  <2> HIDE DEF last, s1
  <2>2. SameExcept(s, Settle(last), NewViewFields)
    BY <1>4, <1>5, <1>6 DEF SameExcept, NewViewFields, PhaseFields, TryExecuteFields,
                            ExecuteFields
  <2> QED BY <2>1, <2>2
<1>8. t = s \/ (~refused /\ t = Settle(last))
  <2> HIDE DEF t, refused, last
  <2> QED BY <1>1
<1>9. Local(t) /\ SameExcept(s, t, NewViewFields)
  <2> HIDE DEF t, refused, last
  <2> QED BY <1>6, <1>7, <1>8
<1>10. \/ t = s
       \/ /\ comes_from_primary(src, v)
          /\ \E x : IsInstallation(x, s1, O, Len(O)) /\ t = Settle(x[Len(O)])
  <2>1. ~refused => comes_from_primary(src, v)
    OBVIOUS
  <2> HIDE DEF t, refused, r, s1, O
  <2> QED BY <1>3, <1>8, <2>1
<1> QED
  BY <1>9, <1>10

-----------------------------------------------------------------------------
(* The constructor. *)

\* The members of a node after its constructor, but for the flags.
Fresh(s, i) ==
  /\ DOMAIN s = NodeFields /\ s.id = i
  /\ s.view = 0 /\ s.seq_num = 0 /\ s.last_exec = 0 /\ s.h = 0
  /\ s.reqlog = EmptyMap /\ s.last_replies = EmptyMap /\ s.checkpoints = EmptyMap
  /\ s.last_stable_digest = <<>> /\ s.view_change_store = EmptyMap
  /\ s.view_change_timeout_count = 0
  /\ s.timer = Off /\ s.executed = <<>> /\ s.voted = {}
  /\ s.out = [j \in Replicas |-> <<>>]
  /\ s.replies = [c \in Clients |-> <<>>]

\* What the constructor sets; timer_running_ keeps what was in memory.
LEMMA NewNodeFields ==
  ASSUME NEW i, NEW r
  PROVE  LET s == NewNode(i, r)
         IN  Fresh(s, i) /\ s.view_changing = FALSE /\ s.timer_running = r
<1> USE Zenon
<1> DEFINE s == NewNode(i, r)
<1>1. DOMAIN s = NodeFields
  BY DEF NewNode, NodeFields
<1>2. /\ s.id = i /\ s.view = 0 /\ s.seq_num = 0 /\ s.last_exec = 0 /\ s.h = 0
      /\ s.reqlog = EmptyMap /\ s.last_replies = EmptyMap /\ s.checkpoints = EmptyMap
      /\ s.last_stable_digest = <<>> /\ s.view_change_store = EmptyMap
      /\ s.view_change_timeout_count = 0
      /\ s.timer = Off /\ s.executed = <<>> /\ s.voted = {}
      /\ s.out = [j \in Replicas |-> <<>>]
      /\ s.replies = [c \in Clients |-> <<>>]
  BY DEF NewNode
<1>3. s.view_changing = FALSE /\ s.timer_running = r
  BY DEF NewNode
<1> HIDE DEF s
<1>4. Fresh(s, i)
  BY <1>1, <1>2 DEF Fresh
<1> QED
  BY <1>3, <1>4 DEF s

\* A new node is a node.
LEMMA NewNodeLocal ==
  ASSUME NEW i \in Replicas, NEW r \in BOOLEAN
  PROVE  Local(NewNode(i, r))
<1>0. PICK s : s = NewNode(i, r)
  BY Zenon
<1>1. Fresh(s, i) /\ s.view_changing = FALSE /\ s.timer_running = r
  BY Zenon, <1>0, NewNodeFields
<1>2. \A S, T : IsMap(EmptyMap, S, T)
  BY DEF IsMap, EmptyMap
<1>3. DOMAIN EmptyMap = {}
  BY DEF EmptyMap
<1>4. s.last_stable_digest \in StateDigest
  BY <1>1 DEF StateDigest, Fresh
<1>5. /\ s.out \in [Replicas -> Seq(Message)]
      /\ s.replies \in [Clients -> Seq(Reply)]
  BY <1>1 DEF Fresh
<1>6. IsNode(s)
  <2>1. s.view_changing \in BOOLEAN /\ s.timer_running \in BOOLEAN
    BY Zenon, <1>1 DEF Fresh
  <2> QED BY <1>1, <1>2, <1>4, <1>5, <2>1 DEF IsNode, Fresh
<1>7. TimerOK(s)
  BY <1>1 DEF TimerOK, Fresh
<1>8. Local(s)
  BY <1>1, <1>3, <1>6, <1>7 DEF Local, Fresh
<1> QED
  BY Zenon, <1>0, <1>8

\* What node s has on its connection to replica j.
Sent(s, j) == {s.out[j][k] : k \in 1..Len(s.out[j])}

=============================================================================
