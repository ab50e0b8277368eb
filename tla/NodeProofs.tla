----------------------------- MODULE NodeProofs -----------------------------
(***************************************************************************)
(* The timers, the checkpoint votes, the views and the requests of a node, *)
(* for every value of the constants: the invariants of NodeInv.            *)
(***************************************************************************)
EXTENDS NodeInv, LocalProofs

\* The prover, unless a proof or a step names another.
USE ZenonT(40)

(* Timers, votes, views and requests. *)

\* What all handlers but those of view changes leave alone, and what they keep.
\* They send nothing about views.
Steady(s, t) ==
  /\ t.id = s.id /\ t.view = s.view /\ t.view_changing = s.view_changing
  /\ t.view_change_store = s.view_change_store
  /\ Armed(s) => Armed(t)
  /\ Counted(s) => Counted(t)
  /\ \A j \in Replicas : \A m \in Sent(t, j) :
       m \in Sent(s, j) \/ m.type \notin {"viewchange", "newview"}

\* Requests stay with their digests, or the null request stands for them.
Loyal(s, t) ==
  /\ Holds(s) => Holds(t)
  /\ \A j \in Replicas : \A m \in Sent(t, j) : m \in Sent(s, j) \/ Faithful(m)

\* The timer is not started.
Quiet(s, t) == t.timer_running => s.timer_running

\* A step of the three phases or of execution.
Phase(s, t) == Steady(s, t) /\ Loyal(s, t) /\ Quiet(s, t)

\* A handler that returns early has taken no step.
LEMMA PhaseSelf ==
  ASSUME NEW s
  PROVE  Phase(s, s)
BY DEF Phase, Steady, Loyal, Quiet

\* Calls one after the other, such as on_commit and try_execute, leave views
\* alone if each does.
LEMMA SteadyThen ==
  ASSUME NEW s, NEW t, NEW u, Steady(s, t), Steady(t, u)
  PROVE  Steady(s, u)
BY DEF Steady

\* Calls one after the other leave requests with their digests if each does.
LEMMA LoyalThen ==
  ASSUME NEW s, NEW t, NEW u, Loyal(s, t), Loyal(t, u)
  PROVE  Loyal(s, u)
BY DEF Loyal

\* Calls one after the other are a step of the three phases if each is.
LEMMA PhaseThen ==
  ASSUME NEW s, NEW t, NEW u, Phase(s, t), Phase(t, u)
  PROVE  Phase(s, u)
BY SteadyThen, LoyalThen DEF Phase, Quiet

-----------------------------------------------------------------------------
(* What the invariants depend on. *)

\* Every accepted PrePrepare of t is one of s.
SameEntries(s, t) ==
  \A n \in DOMAIN t.reqlog : t.reqlog[n].has_preprepare =>
    /\ n \in DOMAIN s.reqlog /\ s.reqlog[n].has_preprepare
    /\ t.reqlog[n].digest = s.reqlog[n].digest
    /\ t.reqlog[n].req = s.reqlog[n].req
    /\ t.reqlog[n].view = s.reqlog[n].view

\* What Armed depends on: the view, the timer, and the PrePrepares accepted and
\* not executed (is_waiting_for_request).
LEMMA ArmedSame ==
  ASSUME NEW s, NEW t, t.id = s.id, t.view = s.view,
         t.view_changing = s.view_changing, t.timer = s.timer,
         t.timer_running = s.timer_running, t.last_exec = s.last_exec,
         SameEntries(s, t)
  PROVE  Armed(s) => Armed(t)
BY DEF Armed, SameEntries, is_primary, primary, is_waiting_for_request

\* What Counted depends on: the votes and the low watermark.
LEMMA CountedSame ==
  ASSUME NEW s, NEW t, t.id = s.id, t.h = s.h, t.checkpoints = s.checkpoints
  PROVE  Counted(s) => Counted(t)
BY DEF Counted

\* What Holds depends on: the PrePrepares accepted and the history.
LEMMA HoldsSame ==
  ASSUME NEW s, NEW t, t.executed = s.executed, SameEntries(s, t)
  PROVE  Holds(s) => Holds(t)
BY DEF Holds, SameEntries

\* The votes of the three phases and of checkpoints say nothing about views or
\* requests.
VoteTypes == {"prepare", "commit", "checkpoint"}

\* So a vote may be sent at any time.
LEMMA VoteIsFaithful ==
  ASSUME NEW m, m.type \in VoteTypes
  PROVE  Faithful(m) /\ m.type \notin {"viewchange", "newview"}
BY SMTT(20) DEF VoteTypes, Faithful

\* What broadcast and send_to_replica add to a connection.
LEMMA AppendedSent ==
  ASSUME NEW s, NEW t, NEW m, Local(s),
         \A j \in Replicas : t.out[j] = s.out[j] \/ t.out[j] = Append(s.out[j], m)
  PROVE  \A j \in Replicas : Sent(t, j) \subseteq Sent(s, j) \cup {m}
<1> SUFFICES ASSUME NEW j \in Replicas
             PROVE  Sent(t, j) \subseteq Sent(s, j) \cup {m}
  BY SMTT(30)
<1>1. s.out[j] \in Seq(Message)
  BY SMTT(20) DEF Local, IsNode
<1>2. CASE t.out[j] = s.out[j]
  BY <1>2 DEF Sent
<1>3. CASE t.out[j] = Append(s.out[j], m)
  <2>1. \A k \in 1..Len(t.out[j]) :
          t.out[j][k] = m \/ (k \in 1..Len(s.out[j]) /\ t.out[j][k] = s.out[j][k])
    BY SMTT(20), <1>1, <1>3
  <2> QED BY <2>1 DEF Sent
<1> QED
  BY <1>2, <1>3

\* A broadcast.
LEMMA BroadcastSteady ==
  ASSUME NEW s, NEW m \in Message, Local(s), m.type \notin {"viewchange", "newview"}
  PROVE  LET t == broadcast(s, m)
         IN  Steady(s, t) /\ Quiet(s, t) /\ (Faithful(m) => Loyal(s, t))
<1>0. PICK t : t = broadcast(s, m)
  OBVIOUS
<1>1. /\ SameExcept(s, t, {"out"})
      /\ t.out = [j \in Replicas |->
                    IF j = s.id THEN s.out[j] ELSE Append(s.out[j], m)]
  BY <1>0, BroadcastLocal
<1>2. /\ t.id = s.id /\ t.view = s.view /\ t.view_changing = s.view_changing
      /\ t.view_change_store = s.view_change_store
      /\ t.timer = s.timer /\ t.timer_running = s.timer_running
      /\ t.last_exec = s.last_exec /\ t.h = s.h /\ t.checkpoints = s.checkpoints
      /\ t.executed = s.executed /\ t.reqlog = s.reqlog
  BY SMTT(20), <1>1 DEF SameExcept, NodeFields
<1>3. SameEntries(s, t)
  BY <1>2 DEF SameEntries
<1>4. \A j \in Replicas : Sent(t, j) \subseteq Sent(s, j) \cup {m}
  <2>1. \A j \in Replicas : t.out[j] = s.out[j] \/ t.out[j] = Append(s.out[j], m)
    BY <1>1
  <2> QED BY <2>1, AppendedSent
<1>5. Steady(s, t)
  BY <1>2, <1>3, <1>4, ArmedSame, CountedSame DEF Steady
<1>6. Faithful(m) => Loyal(s, t)
  BY <1>2, <1>3, <1>4, HoldsSame DEF Loyal
<1> QED
  BY <1>0, <1>2, <1>5, <1>6 DEF Quiet

\* The broadcast of a vote.
LEMMA VotePhase ==
  ASSUME NEW s, NEW m \in Message, Local(s), m.type \in VoteTypes
  PROVE  Phase(s, broadcast(s, m))
BY VoteIsFaithful, BroadcastSteady DEF Phase

\* The log changes without a new PrePrepare.
LEMMA EntriesPhase ==
  ASSUME NEW s, NEW t, SameExcept(s, t, {"reqlog", "voted"}), SameEntries(s, t)
  PROVE  Phase(s, t)
<1>1. /\ t.id = s.id /\ t.view = s.view /\ t.view_changing = s.view_changing
      /\ t.view_change_store = s.view_change_store
      /\ t.timer = s.timer /\ t.timer_running = s.timer_running
      /\ t.last_exec = s.last_exec /\ t.h = s.h /\ t.checkpoints = s.checkpoints
      /\ t.executed = s.executed /\ t.out = s.out
  BY SMTT(20) DEF SameExcept, NodeFields
<1>2. \A j \in Replicas : Sent(t, j) = Sent(s, j)
  BY <1>1 DEF Sent
<1>3. Steady(s, t)
  BY <1>1, <1>2, ArmedSame, CountedSame DEF Steady
<1>4. Loyal(s, t)
  BY <1>1, <1>2, HoldsSame DEF Loyal
<1> QED
  BY <1>1, <1>3, <1>4 DEF Phase, Quiet

\* An entry is stored with what it had of a PrePrepare.
LEMMA PutEntries ==
  ASSUME NEW s, NEW t, NEW n, NEW e, t.reqlog = Put(s.reqlog, n, e),
         e.has_preprepare =>
           /\ n \in DOMAIN s.reqlog /\ s.reqlog[n].has_preprepare
           /\ e.digest = s.reqlog[n].digest /\ e.req = s.reqlog[n].req
           /\ e.view = s.reqlog[n].view
  PROVE  SameEntries(s, t)
<1>1. \A k \in DOMAIN t.reqlog :
        \/ k = n /\ t.reqlog[k] = e
        \/ k \in DOMAIN s.reqlog /\ t.reqlog[k] = s.reqlog[k]
  BY SMTT(20) DEF Put
<1> QED
  BY <1>1 DEF SameEntries

-----------------------------------------------------------------------------
(* Timers. *)

\* What a timer operation keeps.
LEMMA TimerSteady ==
  ASSUME NEW s, NEW t, SameExcept(s, t, {"timer", "timer_running"}),
         Armed(s) => Armed(t)
  PROVE  Steady(s, t) /\ Loyal(s, t)
<1>1. /\ t.id = s.id /\ t.view = s.view /\ t.view_changing = s.view_changing
      /\ t.view_change_store = s.view_change_store
      /\ t.h = s.h /\ t.checkpoints = s.checkpoints
      /\ t.executed = s.executed /\ t.out = s.out /\ t.reqlog = s.reqlog
  BY SMTT(20) DEF SameExcept, NodeFields
<1>2. \A j \in Replicas : Sent(t, j) = Sent(s, j)
  BY <1>1 DEF Sent
<1>3. SameEntries(s, t)
  BY <1>1 DEF SameEntries
<1>4. Steady(s, t)
  BY <1>1, <1>2, CountedSame DEF Steady
<1>5. Loyal(s, t)
  BY <1>1, <1>2, <1>3, HoldsSame DEF Loyal
<1> QED
  BY <1>4, <1>5

\* start_timer_if_not_running leaves a timer pending, outside a view change.
LEMMA StartTimerArmed ==
  ASSUME NEW s, Local(s), Armed(s)
  PROVE  LET t == start_timer_if_not_running(s)
         IN  /\ Armed(t)
             /\ ~s.view_changing => t.timer_running
             /\ ~is_primary(s) /\ ~s.view_changing /\ s.view = 0 => t.timer # Off
<1>0. PICK t : t = start_timer_if_not_running(s)
  OBVIOUS
<1>1. /\ DOMAIN s = NodeFields /\ s.view_change_timeout_count # Off
      /\ s.timer_running \in BOOLEAN /\ s.view_changing \in BOOLEAN
  BY SMTT(20) DEF Local, IsNode, Off
<1>2. CASE s.timer_running \/ s.view_changing
  <2>1. t = s
    BY <1>0, <1>2 DEF start_timer_if_not_running
  <2> QED BY <1>0, <1>2, <2>1 DEF Armed
<1>3. CASE ~s.timer_running /\ ~s.view_changing
  <2>1. t = [s EXCEPT !.timer = s.view_change_timeout_count, !.timer_running = TRUE]
    BY <1>0, <1>3 DEF start_timer_if_not_running
  <2>2. t.timer_running /\ t.timer # Off
    BY SMTT(20), <1>1, <2>1 DEF NodeFields
  <2> QED BY <1>0, <2>2 DEF Armed
<1> QED
  BY <1>2, <1>3

\* start_timer_if_not_running touches the timer only.
LEMMA StartTimerSteady ==
  ASSUME NEW s, Local(s)
  PROVE  LET t == start_timer_if_not_running(s)
         IN  Steady(s, t) /\ Loyal(s, t)
BY StartTimerLocal, StartTimerArmed, TimerSteady

\* manage_timer leaves a timer pending if one was and a request is waiting, and
\* none otherwise.
LEMMA ManageTimerArmed ==
  ASSUME NEW s, Local(s),
         ~is_primary(s) /\ ~s.view_changing /\ s.view = 0 /\ is_waiting_for_request(s)
           => s.timer_running
  PROVE  Armed(manage_timer(s))
<1>0. PICK t : t = manage_timer(s)
  OBVIOUS
<1>a. /\ DOMAIN s = NodeFields /\ s.view_change_timeout_count \in Nat
      /\ s.timer_running \in BOOLEAN /\ s.view_changing \in BOOLEAN
  BY DEF Local, IsNode
<1>1. SameExcept(s, t, {"timer", "timer_running"})
  BY <1>0, ManageTimerLocal
<1>2. /\ t.id = s.id /\ t.view = s.view /\ t.view_changing = s.view_changing
      /\ t.reqlog = s.reqlog /\ t.last_exec = s.last_exec
  BY SMTT(20), <1>1 DEF SameExcept, NodeFields
<1>3. /\ is_primary(t) <=> is_primary(s)
      /\ is_waiting_for_request(t) <=> is_waiting_for_request(s)
  BY <1>2 DEF is_primary, primary, is_waiting_for_request
<1>4. CASE ~is_waiting_for_request(s)
  <2>1. t = stop_timer(s)
    BY <1>0, <1>4 DEF manage_timer
  <2>2. ~t.timer_running
    BY SMTT(20), <1>a, <2>1 DEF stop_timer, NodeFields
  <2> QED BY <1>0, <1>3, <1>4, <2>2 DEF Armed
<1>5. CASE is_waiting_for_request(s) /\ s.timer_running /\ ~s.view_changing
  <2>1. PICK u : u = stop_timer(s)
    OBVIOUS
  <2>2. u = [s EXCEPT !.timer = Off, !.timer_running = FALSE]
    BY <1>5, <2>1 DEF stop_timer
  <2>3. /\ DOMAIN u = NodeFields /\ ~u.timer_running /\ ~u.view_changing
        /\ u.view_change_timeout_count \in Nat
    BY SMTT(20), <1>a, <1>5, <2>2 DEF NodeFields
  <2>4. t = start_timer_if_not_running(u)
    BY <1>0, <1>5, <2>1 DEF manage_timer
  <2>5. t = [u EXCEPT !.timer = u.view_change_timeout_count, !.timer_running = TRUE]
    BY <2>3, <2>4 DEF start_timer_if_not_running
  <2>6. t.timer_running /\ t.timer # Off
    BY SMTT(20), <2>3, <2>5 DEF NodeFields, Off
  <2> QED BY <1>0, <2>6 DEF Armed
<1>6. CASE is_waiting_for_request(s) /\ ~s.timer_running
  <2>1. t = s
    BY <1>0, <1>6 DEF manage_timer
  <2> QED BY <1>0, <1>6, <2>1 DEF Armed
<1>7. CASE s.view_changing
  BY <1>0, <1>2, <1>7 DEF Armed
<1> QED
  BY <1>a, <1>4, <1>5, <1>6, <1>7

\* manage_timer restarts a timer or stops it, and starts none.
LEMMA ManageTimerQuiet ==
  ASSUME NEW s
  PROVE  Quiet(s, manage_timer(s))
<1>1. CASE s.timer_running
  BY <1>1 DEF Quiet
<1>2. CASE ~s.timer_running
  BY <1>2 DEF Quiet, manage_timer, stop_timer
<1> QED
  BY <1>1, <1>2

-----------------------------------------------------------------------------
(* Votes for checkpoints. *)

\* A checkpoint after a vote for d of replica r.
Voted(cp, d, r) == [cp EXCEPT !.votes = @ \cup {<<d, r>>}]

\* Its voters.
LEMMA VotersAfter ==
  ASSUME NEW cp \in Checkpoint, NEW d \in StateDigest, NEW r \in Replicas,
         NEW new, new = Voted(cp, d, r)
  PROVE  /\ Voters(new, d) = Voters(cp, d) \cup {r}
         /\ \A x : x # d => Voters(new, x) = Voters(cp, x)
         /\ new.votes = cp.votes \cup {<<d, r>>} /\ new.stable = cp.stable
<1> USE SMTT(30)
<1>1. new.votes = cp.votes \cup {<<d, r>>} /\ new.stable = cp.stable
  BY DEF Checkpoint, Voted
<1>2. Voters(new, d) = Voters(cp, d) \cup {r}
  BY <1>1 DEF Voters
<1>3. \A x : x # d => Voters(new, x) = Voters(cp, x)
  BY <1>1 DEF Voters
<1> QED
  BY Zenon, <1>1, <1>2, <1>3

\* Voters form a finite set.
LEMMA VotersFinite ==
  ASSUME NEW cp, NEW d
  PROVE  IsFiniteSet(Voters(cp, d)) /\ Cardinality(Voters(cp, d)) \in Nat
<1>1. Voters(cp, d) \subseteq Replicas
  BY DEF Voters
<1> QED
  BY <1>1, ConstantTypes, FS_Subset, FS_CardinalityType

\* The node's own vote may complete a quorum, but not exceed it.
LEMMA OwnVoteShort ==
  ASSUME NEW cp \in Checkpoint, NEW d \in StateDigest, NEW i \in Replicas, Short(cp, i)
  PROVE  Short(Voted(cp, d, i), i)
<1>0. PICK new : new = Voted(cp, d, i)
  OBVIOUS
<1>1. /\ Voters(new, d) = Voters(cp, d) \cup {i}
      /\ new.votes = cp.votes \cup {<<d, i>>} /\ new.stable = cp.stable
      /\ \A x : x # d => Voters(new, x) = Voters(cp, x)
  BY SMTT(20), <1>0, VotersAfter
<1>2. f \in Nat
  BY ConstantTypes
<1>3. ASSUME Cardinality(Voters(new, d)) >= 2 * f + 1
      PROVE  Cardinality(Voters(new, d)) = 2 * f + 1 /\ i \in Voters(new, d)
  <2>1. i \in Voters(new, d)
    BY <1>1
  <2>2. CASE i \in Voters(cp, d)
    <3>1. Voters(new, d) = Voters(cp, d)
      BY <1>1, <2>2
    <3>2. <<d, i>> \in cp.votes /\ <<d, i>>[1] = d
      BY <2>2 DEF Voters
    <3>3. Cardinality(Voters(cp, d)) >= 2 * f + 1
            => Cardinality(Voters(cp, d)) = 2 * f + 1
      BY SMTT(20), <3>2 DEF Short
    <3> QED BY <1>3, <2>1, <3>1, <3>3
  <2>3. CASE i \notin Voters(cp, d)
    <3>1. Cardinality(Voters(new, d)) = Cardinality(Voters(cp, d)) + 1
      BY <1>1, <2>3, VotersFinite, FS_AddElement
    <3>2. ~(Cardinality(Voters(cp, d)) >= 2 * f + 1)
      <4> SUFFICES ASSUME Cardinality(Voters(cp, d)) >= 2 * f + 1 PROVE FALSE
        OBVIOUS
      <4>1. Voters(cp, d) # {}
        BY SMTT(20), <1>2, FS_EmptySet
      <4>2. PICK r \in Voters(cp, d) : TRUE
        BY <4>1
      <4>3. <<d, r>> \in cp.votes /\ <<d, r>>[1] = d
        BY <4>2 DEF Voters
      <4> QED BY <2>3, <4>3 DEF Short
    <3> QED BY SMTT(20), <1>2, <1>3, <2>1, <3>1, <3>2, VotersFinite
  <2> QED BY <2>2, <2>3
<1>4. ASSUME NEW x \in new.votes, Cardinality(Voters(new, x[1])) >= 2 * f + 1
      PROVE  Cardinality(Voters(new, x[1])) = 2 * f + 1 /\ i \in Voters(new, x[1])
  <2>1. CASE x[1] = d
    BY <1>3, <1>4, <2>1
  <2>2. CASE x[1] # d
    <3>1. x \in cp.votes
      BY SMTT(20), <1>1, <2>2
    <3>2. Voters(new, x[1]) = Voters(cp, x[1])
      BY <1>1, <2>2
    <3> QED BY <1>4, <3>1, <3>2 DEF Short
  <2> QED BY <2>1, <2>2
<1> QED
  BY <1>0, <1>1, <1>4 DEF Short

\* Another vote that does not complete a quorum leaves none overlooked.
LEMMA VoteShort ==
  ASSUME NEW cp \in Checkpoint, NEW d \in StateDigest, NEW r \in Replicas, NEW i,
         Short(cp, i), NEW new, new = Voted(cp, d, r),
         ~(Cardinality(Voters(new, d)) >= 2 * f + 1)
  PROVE  Short(new, i)
<1>1. /\ new.votes = cp.votes \cup {<<d, r>>} /\ new.stable = cp.stable
      /\ \A x : x # d => Voters(new, x) = Voters(cp, x)
  BY SMTT(20), VotersAfter
<1>2. ASSUME NEW x \in new.votes, Cardinality(Voters(new, x[1])) >= 2 * f + 1
      PROVE  Cardinality(Voters(new, x[1])) = 2 * f + 1 /\ i \in Voters(new, x[1])
  <2>1. x[1] # d
    BY <1>2
  <2>2. x \in cp.votes
    BY SMTT(20), <1>1, <2>1
  <2> QED BY <1>1, <1>2, <2>1, <2>2 DEF Short
<1> QED
  BY <1>1, <1>2 DEF Short

\* A checkpoint without votes.
LEMMA NewCheckpointShort ==
  ASSUME NEW i
  PROVE  NewCheckpoint \in Checkpoint /\ Short(NewCheckpoint, i)
BY SMTT(20) DEF NewCheckpoint, Checkpoint, Short

-----------------------------------------------------------------------------
(* Execution. *)

\* make_checkpoint adds the node's own vote and broadcasts it.
LEMMA MakeCheckpointPhase ==
  ASSUME NEW s, Local(s)
  PROVE  Phase(s, make_checkpoint(s))
<1>1. PICK t : /\ Local(t) /\ SameExcept(s, t, {"checkpoints"})
               /\ t.checkpoints = OwnVote(s)
               /\ OwnCheckpoint(s) \in Message
               /\ make_checkpoint(s) = broadcast(t, OwnCheckpoint(s))
  BY MakeCheckpointLocal
<1>2. /\ t.id = s.id /\ t.view = s.view /\ t.view_changing = s.view_changing
      /\ t.view_change_store = s.view_change_store
      /\ t.timer = s.timer /\ t.timer_running = s.timer_running
      /\ t.last_exec = s.last_exec /\ t.h = s.h
      /\ t.executed = s.executed /\ t.reqlog = s.reqlog /\ t.out = s.out
  BY SMTT(20), <1>1 DEF SameExcept, NodeFields
<1>3. SameEntries(s, t) /\ \A j \in Replicas : Sent(t, j) = Sent(s, j)
  BY <1>2 DEF SameEntries, Sent
<1>4. Counted(s) => Counted(t)
  <2> SUFFICES ASSUME Counted(s), NEW n \in DOMAIN t.checkpoints, n > t.h
               PROVE  Short(t.checkpoints[n], t.id)
    BY DEF Counted
  <2>1. PICK cp : cp = At(s.checkpoints, s.last_exec, NewCheckpoint)
    OBVIOUS
  <2>2. PICK d : d = get_checkpoint_digest(s)
    OBVIOUS
  <2>3. d \in StateDigest /\ s.id \in Replicas
    BY <2>2, StateDigestType DEF Local, IsNode
  <2>4. \/ n = s.last_exec /\ t.checkpoints[n] = Voted(cp, d, s.id)
        \/ n \in DOMAIN s.checkpoints /\ t.checkpoints[n] = s.checkpoints[n]
    BY SMTT(20), <1>1, <2>1, <2>2 DEF OwnVote, Put, Voted
  <2>5. CASE n \in DOMAIN s.checkpoints /\ t.checkpoints[n] = s.checkpoints[n]
    BY <1>2, <2>5 DEF Counted
  <2>6. CASE n = s.last_exec /\ t.checkpoints[n] = Voted(cp, d, s.id)
    <3>1. CASE n \in DOMAIN s.checkpoints
      <4>1. cp = s.checkpoints[n] /\ cp \in Checkpoint
        BY ZenonT(40), <2>1, <2>6, <3>1 DEF At, Local, IsNode, IsMap
      <4>2. Short(cp, s.id)
        BY <1>2, <3>1, <4>1 DEF Counted
      <4> QED BY <1>2, <2>3, <2>6, <4>1, <4>2, OwnVoteShort
    <3>2. CASE n \notin DOMAIN s.checkpoints
      <4>1. cp = NewCheckpoint
        BY <2>1, <2>6, <3>2 DEF At
      <4>2. cp \in Checkpoint /\ Short(cp, s.id)
        BY <4>1, NewCheckpointShort
      <4> QED BY <1>2, <2>3, <2>6, <4>2, OwnVoteShort
    <3> QED BY <3>1, <3>2
  <2> QED BY <2>4, <2>5, <2>6
<1>5. Phase(s, t)
  <2>1. Steady(s, t)
    BY <1>2, <1>3, <1>4, ArmedSame DEF Steady
  <2>2. Loyal(s, t)
    BY <1>2, <1>3, HoldsSame DEF Loyal
  <2> QED BY <1>2, <2>1, <2>2 DEF Phase, Quiet
<1>6. OwnCheckpoint(s).type \in VoteTypes
  BY SMTT(20) DEF OwnCheckpoint, CheckpointMsg, VoteTypes
<1> QED
  BY <1>1, <1>5, <1>6, VotePhase, PhaseThen

\* A round of try_execute.
LEMMA ExecuteNextPhase ==
  ASSUME NEW s, Local(s), CanExecute(s)
  PROVE  Phase(s, ExecuteNext(s))
<1>1. PICK c, t :
        /\ Local(c) /\ SameExcept(s, c, AnswerFields)
        /\ c.last_exec = s.last_exec + 1
        /\ c.executed = Append(s.executed,
             [req |-> s.reqlog[s.last_exec + 1].req,
              digest |-> s.reqlog[s.last_exec + 1].digest])
        /\ t = manage_timer(c)
        /\ ExecuteNext(s) = IF t.last_exec % K = 0 THEN make_checkpoint(t) ELSE t
  BY ExecuteNextTimed
<1>2. Local(t) /\ SameExcept(c, t, {"timer", "timer_running"}) /\ Quiet(c, t)
  BY <1>1, ManageTimerLocal, ManageTimerQuiet
<1>3. /\ c.id = s.id /\ c.view = s.view /\ c.view_changing = s.view_changing
      /\ c.view_change_store = s.view_change_store
      /\ c.timer_running = s.timer_running
      /\ c.h = s.h /\ c.checkpoints = s.checkpoints
      /\ c.reqlog = s.reqlog /\ c.out = s.out
  BY SMTT(20), <1>1 DEF SameExcept, NodeFields, AnswerFields
<1>4. /\ t.id = c.id /\ t.view = c.view /\ t.view_changing = c.view_changing
      /\ t.view_change_store = c.view_change_store
      /\ t.h = c.h /\ t.checkpoints = c.checkpoints
      /\ t.reqlog = c.reqlog /\ t.out = c.out /\ t.executed = c.executed
  BY SMTT(20), <1>2 DEF SameExcept, NodeFields
<1>5. Armed(s) => Armed(t)
  <2>1. is_primary(c) <=> is_primary(s)
    BY <1>3 DEF is_primary, primary
  <2>2. is_waiting_for_request(c) => is_waiting_for_request(s)
    <3>1. \A n \in DOMAIN s.reqlog : n > c.last_exec => n > s.last_exec
      BY SMTT(20), <1>1, LogFinite DEF Local, IsNode
    <3> QED BY <1>3, <3>1 DEF is_waiting_for_request
  <2> SUFFICES ASSUME Armed(s) PROVE Armed(t)
    OBVIOUS
  <2>3. ~is_primary(c) /\ ~c.view_changing /\ c.view = 0 /\ is_waiting_for_request(c)
          => c.timer_running
    BY <1>3, <2>1, <2>2 DEF Armed
  <2> QED BY <1>1, <2>3, ManageTimerArmed
<1>6. Holds(s) => Holds(t)
  <2> SUFFICES ASSUME Holds(s) PROVE Holds(t)
    OBVIOUS
  <2>1. \A n \in DOMAIN t.reqlog : t.reqlog[n].has_preprepare =>
          Matches(t.reqlog[n].digest, t.reqlog[n].req)
    BY <1>3, <1>4 DEF Holds
  <2>2. ASSUME NEW n \in 1..Len(t.executed)
        PROVE  Matches(t.executed[n].digest, t.executed[n].req)
    <3>1. PICK e : e = s.reqlog[s.last_exec + 1]
      OBVIOUS
    <3>2. s.last_exec + 1 \in DOMAIN s.reqlog /\ e.has_preprepare
      BY SMTT(20), <3>1 DEF CanExecute, Local, EntryOK
    <3>3. Matches(e.digest, e.req)
      BY <3>1, <3>2 DEF Holds
    <3>4. /\ s.executed \in Seq([req : Request, digest : Digest])
          /\ Len(s.executed) \in Nat
      BY SMTT(20) DEF Local, IsNode
    <3>5. t.executed = Append(s.executed, [req |-> e.req, digest |-> e.digest])
      BY <1>1, <1>4, <3>1
    <3>6. \/ n \in 1..Len(s.executed) /\ t.executed[n] = s.executed[n]
          \/ t.executed[n] = [req |-> e.req, digest |-> e.digest]
      BY SMTT(20), <2>2, <3>4, <3>5
    <3>7. CASE n \in 1..Len(s.executed) /\ t.executed[n] = s.executed[n]
      BY <3>7 DEF Holds
    <3>8. CASE t.executed[n] = [req |-> e.req, digest |-> e.digest]
      <4>1. t.executed[n].req = e.req /\ t.executed[n].digest = e.digest
        BY SMTT(20), <3>8
      <4> QED BY <3>3, <4>1
    <3> QED BY <3>6, <3>7, <3>8
  <2> QED BY <2>1, <2>2 DEF Holds
<1>7. Phase(s, t)
  <2>1. \A j \in Replicas : Sent(t, j) = Sent(s, j)
    BY <1>3, <1>4 DEF Sent
  <2>2. Counted(s) => Counted(t)
    <3>1. t.id = s.id /\ t.h = s.h /\ t.checkpoints = s.checkpoints
      BY <1>3, <1>4
    <3> QED BY <3>1, CountedSame
  <2>3. Steady(s, t)
    BY <1>3, <1>4, <1>5, <2>1, <2>2 DEF Steady
  <2>4. Loyal(s, t)
    BY <1>6, <2>1 DEF Loyal
  <2> QED BY <1>2, <1>3, <2>3, <2>4 DEF Phase, Quiet
<1>8. Phase(t, make_checkpoint(t))
  BY <1>2, MakeCheckpointPhase
<1> QED
  BY <1>1, <1>7, <1>8, PhaseThen

\* All of try_execute.
LEMMA TryExecutePhase ==
  ASSUME NEW s, Local(s)
  PROVE  Phase(s, try_execute(s))
<1>1. PICK n \in Nat : \E r : IsExecution(r, s, n) /\ try_execute(s) = r[n]
  BY TryExecuteRounds
<1>2. PICK r : IsExecution(r, s, n) /\ try_execute(s) = r[n]
  BY <1>1
<1> DEFINE P(m) == Local(r[m]) /\ Phase(s, r[m])
           T == {m \in Nat : m <= n /\ ~P(m)}
<1>3. SUFFICES ASSUME T # {} PROVE FALSE
  BY SMTT(20), <1>2
<1>4. PICK m \in T : \A y \in T : m <= y
  <2>1. T \subseteq Nat
    OBVIOUS
  <2> HIDE DEF T
  <2> QED BY <1>3, <2>1, LeastNumber
<1>5. m \in Nat /\ m <= n /\ ~P(m)
  OBVIOUS
<1>6. \A k \in 0..n : r[k] = IF k = 0 THEN s ELSE ExecuteRound(r[k - 1])
  BY SMTT(20), <1>2 DEF IsExecution
<1>7. m # 0
  <2>1. r[0] = s
    BY SMTT(20), <1>6
  <2> QED BY <1>5, <2>1, PhaseSelf
<1>8. m - 1 \in Nat /\ m - 1 < m /\ m - 1 <= n /\ m \in 0..n
  BY SMTT(20), <1>5, <1>7
<1>9. P(m - 1)
  <2> HIDE DEF P
  <2> QED BY SMTT(20), <1>4, <1>8
<1>10. r[m] = ExecuteRound(r[m - 1])
  BY SMTT(20), <1>6, <1>7, <1>8
<1>11. Phase(r[m - 1], r[m])
  BY <1>9, <1>10, PhaseSelf, ExecuteNextPhase DEF ExecuteRound
<1>12. P(m)
  BY <1>9, <1>10, <1>11, ExecuteRoundLocal, PhaseThen
<1> QED
  BY <1>5, <1>12

-----------------------------------------------------------------------------
(* The three phases. *)

\* try_commit changes the stage of an entry and executes, or does nothing.
LEMMA TryCommitPhase ==
  ASSUME NEW s, Local(s), NEW n \in DOMAIN s.reqlog
  PROVE  Phase(s, try_commit(s, n))
<1>1. CASE try_commit(s, n) = s
  BY <1>1, PhaseSelf
<1>2. ASSUME NEW t, Local(t), CommittedAt(s, n, t), try_commit(s, n) = try_execute(t)
      PROVE  Phase(s, try_commit(s, n))
  <2>1. PICK e : e = [s.reqlog[n] EXCEPT !.stage = "COMMITTED"]
    OBVIOUS
  <2>2. SameExcept(s, t, {"reqlog"}) /\ t.reqlog = Put(s.reqlog, n, e)
    BY <1>2, <2>1 DEF CommittedAt, EntryStored
  <2>3. s.reqlog[n] \in Entry
    BY InLogInWindow
  <2>4. /\ e.has_preprepare = s.reqlog[n].has_preprepare
        /\ e.digest = s.reqlog[n].digest /\ e.req = s.reqlog[n].req
        /\ e.view = s.reqlog[n].view
    BY SMTT(20), <2>1, <2>3 DEF Entry
  <2>5. SameEntries(s, t)
    BY <2>2, <2>4, PutEntries
  <2>6. SameExcept(s, t, {"reqlog", "voted"})
    BY <2>2 DEF SameExcept
  <2> QED BY <1>2, <2>5, <2>6, EntriesPhase, TryExecutePhase, PhaseThen
<1> QED
  BY <1>1, <1>2, TryCommitLocal

\* try_prepare changes the stage of an entry, sends a Commit and goes on with
\* try_commit, or does nothing.
LEMMA TryPreparePhase ==
  ASSUME NEW s, Local(s), NEW n \in DOMAIN s.reqlog
  PROVE  Phase(s, try_prepare(s, n))
<1>1. CASE try_prepare(s, n) = s
  BY <1>1, PhaseSelf
<1>2. ASSUME NEW t, Local(t), PreparedAt(s, n, t), NEW m \in Message, NEW w,
             m.type \in VoteTypes, w = broadcast(t, m), n \in DOMAIN w.reqlog,
             try_prepare(s, n) = try_commit(w, n)
      PROVE  Phase(s, try_prepare(s, n))
  <2>1. PICK e : e = [s.reqlog[n] EXCEPT !.stage = "PREPARED", !.commits = @ \cup {s.id}]
    OBVIOUS
  <2>2. SameExcept(s, t, {"reqlog", "voted"}) /\ t.reqlog = Put(s.reqlog, n, e)
    BY <1>2, <2>1 DEF PreparedAt
  <2>3. s.reqlog[n] \in Entry
    BY InLogInWindow
  <2>4. /\ e.has_preprepare = s.reqlog[n].has_preprepare
        /\ e.digest = s.reqlog[n].digest /\ e.req = s.reqlog[n].req
        /\ e.view = s.reqlog[n].view
    BY SMTT(20), <2>1, <2>3 DEF Entry
  <2>5. SameEntries(s, t)
    BY <2>2, <2>4, PutEntries
  <2>6. Phase(s, w)
    BY <1>2, <2>2, <2>5, EntriesPhase, VotePhase, PhaseThen
  <2>7. Local(w)
    BY <1>2, BroadcastLocal
  <2> QED BY <1>2, <2>6, <2>7, TryCommitPhase, PhaseThen
<1>3. OwnCommit(s, n).type \in VoteTypes
  BY SMTT(20) DEF OwnCommit, CommitMsg, VoteTypes
<1> QED
  BY <1>1, <1>2, <1>3, TryPrepareLocal

\* An entry is stored with what operator[] found or created.
LEMMA CountedEntry ==
  ASSUME NEW s, NEW t, NEW n, NEW e, Local(s), EntryStored(s, n, e, t),
         e.has_preprepare = At(s.reqlog, n, NewEntry).has_preprepare,
         e.digest = At(s.reqlog, n, NewEntry).digest,
         e.req = At(s.reqlog, n, NewEntry).req,
         e.view = At(s.reqlog, n, NewEntry).view
  PROVE  Phase(s, t)
<1>1. SameExcept(s, t, {"reqlog", "voted"}) /\ t.reqlog = Put(s.reqlog, n, e)
  BY DEF EntryStored, SameExcept
<1>2. CASE n \in DOMAIN s.reqlog
  <2>1. At(s.reqlog, n, NewEntry) = s.reqlog[n]
    BY <1>2 DEF At
  <2>2. SameEntries(s, t)
    BY <1>1, <1>2, <2>1, PutEntries
  <2> QED BY <1>1, <2>2, EntriesPhase
<1>3. CASE n \notin DOMAIN s.reqlog
  <2>1. At(s.reqlog, n, NewEntry) = NewEntry
    BY <1>3 DEF At
  <2>2. ~e.has_preprepare
    BY SMTT(20), <2>1 DEF NewEntry
  <2>3. SameEntries(s, t)
    BY <1>1, <2>2, PutEntries
  <2> QED BY <1>1, <2>3, EntriesPhase
<1> QED
  BY <1>2, <1>3

\* A Commit.
LEMMA OnCommitPhase ==
  ASSUME NEW s, Local(s), NEW m \in Vote
  PROVE  Phase(s, on_commit(s, m))
<1>0. PICK t, n, e : /\ t = on_commit(s, m) /\ n = m.seq_num
                     /\ e = At(s.reqlog, m.seq_num, NewEntry)
  OBVIOUS
<1>1. e \in Entry
  BY <1>0, EntryAt
<1>2. CASE t = s
  BY <1>0, <1>2, PhaseSelf
<1>3. CASE EntryStored(s, n, e, t)
  BY <1>0, <1>3, CountedEntry
<1>4. ASSUME NEW u, Local(u), CommitCounted(s, m, u), n \in DOMAIN u.reqlog,
             t = try_commit(u, n)
      PROVE  Phase(s, t)
  <2>1. PICK e2 : e2 = [e EXCEPT !.commits = @ \cup {m.replica_id}]
    OBVIOUS
  <2>2. EntryStored(s, n, e2, u)
    BY <1>0, <1>4, <2>1 DEF CommitCounted
  <2>3. /\ e2.has_preprepare = e.has_preprepare
        /\ e2.digest = e.digest /\ e2.req = e.req /\ e2.view = e.view
    BY SMTT(20), <1>1, <2>1 DEF Entry
  <2>4. Phase(s, u)
    BY <1>0, <2>2, <2>3, CountedEntry
  <2> QED BY <1>4, <2>4, TryCommitPhase, PhaseThen
<1> QED
  BY <1>0, <1>2, <1>3, <1>4, OnCommitLocal

\* A Prepare.
LEMMA OnPreparePhase ==
  ASSUME NEW s, Local(s), NEW m \in Vote, NEW src
  PROVE  Phase(s, on_prepare(s, m, src))
<1>0. PICK t, n, e : /\ t = on_prepare(s, m, src) /\ n = m.seq_num
                     /\ e = At(s.reqlog, m.seq_num, NewEntry)
  OBVIOUS
<1>1. e \in Entry
  BY <1>0, EntryAt
<1>2. CASE t = s
  BY <1>0, <1>2, PhaseSelf
<1>3. ASSUME NEW u, Local(u), PrepareCounted(s, m, u), n \in DOMAIN u.reqlog,
             t = try_prepare(u, n)
      PROVE  Phase(s, t)
  <2>1. PICK e2 : e2 = [e EXCEPT !.prepares = @ \cup {m.replica_id}]
    OBVIOUS
  <2>2. EntryStored(s, n, e2, u)
    BY <1>0, <1>3, <2>1 DEF PrepareCounted
  <2>3. /\ e2.has_preprepare = e.has_preprepare
        /\ e2.digest = e.digest /\ e2.req = e.req /\ e2.view = e.view
    BY SMTT(20), <1>1, <2>1 DEF Entry
  <2>4. Phase(s, u)
    BY <1>0, <2>2, <2>3, CountedEntry
  <2> QED BY <1>3, <2>4, TryPreparePhase, PhaseThen
<1> QED
  BY <1>0, <1>2, <1>3, OnPrepareLocal

\* Only a backup starts its timer, outside a view change.
Tame(s, t) == t.timer_running => s.timer_running \/ (~s.view_changing /\ ~is_primary(s))

\* A PrePrepare is stored, after the timer was started.
LEMMA PrePrepareSteady ==
  ASSUME NEW s, Local(s), NEW m \in PrePrepare, ~s.view_changing, m.view = s.view,
         InWindow(s, m.seq_num), NEW a, a = start_timer_if_not_running(s),
         NEW u, u = [a EXCEPT !.reqlog =
                       Put(@, m.seq_num,
                           PrePrepared(At(s.reqlog, m.seq_num, NewEntry), m.view,
                                       m.req_digest, m.req, s.id))]
  PROVE  /\ Local(u) /\ m.seq_num \in DOMAIN u.reqlog
         /\ Steady(s, u) /\ (Matches(m.req_digest, m.req) => Loyal(s, u))
<1>0. PICK n, pp : /\ n = m.seq_num
                   /\ pp = PrePrepared(At(s.reqlog, m.seq_num, NewEntry), m.view,
                                       m.req_digest, m.req, s.id)
  OBVIOUS
<1>1. Local(a) /\ SameExcept(s, a, {"timer", "timer_running"})
  BY StartTimerLocal
<1>2. /\ a.id = s.id /\ a.view = s.view /\ a.view_changing = s.view_changing
      /\ a.view_change_store = s.view_change_store /\ a.h = s.h
      /\ a.checkpoints = s.checkpoints /\ a.executed = s.executed
      /\ a.reqlog = s.reqlog /\ a.out = s.out
  BY SMTT(20), <1>1 DEF SameExcept, NodeFields
<1>3. pp \in Entry /\ EntryOK(pp)
  <2>1. /\ m.view \in Nat /\ m.req_digest \in HashValue /\ m.req \in Request
        /\ s.id \in Replicas
    BY SMTT(20) DEF PrePrepare, Local, IsNode
  <2>2. At(s.reqlog, m.seq_num, NewEntry) \in Entry
    BY EntryAt
  <2> QED BY <1>0, <2>1, <2>2, PrePreparedEntry
<1>4. /\ pp.has_preprepare /\ pp.digest = m.req_digest /\ pp.req = m.req
      /\ pp.view = s.view
  <2>1. At(s.reqlog, m.seq_num, NewEntry) \in Entry
    BY EntryAt
  <2> QED BY SMTT(20), <1>0, <2>1 DEF PrePrepared, Entry
<1>5. SameExcept(a, u, {"reqlog"}) /\ u.reqlog = Put(s.reqlog, n, pp)
  <2>1. DOMAIN a = NodeFields
    BY <1>1 DEF SameExcept
  <2>2. u = [a EXCEPT !.reqlog = Put(@, n, pp)]
    BY <1>0
  <2> QED BY SMTT(20), <1>2, <2>1, <2>2 DEF SameExcept, NodeFields
<1>6. Local(u)
  <2>1. InWindow(a, n) /\ n \in Nat
    BY SMTT(20), <1>0, <1>2 DEF InWindow, H, PrePrepare
  <2>2. u.reqlog = Put(a.reqlog, n, pp)
    BY <1>2, <1>5
  <2> QED BY <1>1, <1>3, <1>5, <2>1, <2>2, PutEntryLocal
<1>7. /\ u.id = a.id /\ u.view = a.view /\ u.view_changing = a.view_changing
      /\ u.view_change_store = a.view_change_store /\ u.h = a.h
      /\ u.checkpoints = a.checkpoints /\ u.executed = a.executed /\ u.out = a.out
      /\ u.timer = a.timer /\ u.timer_running = a.timer_running
  BY SMTT(20), <1>5 DEF SameExcept, NodeFields
<1>8. \A k \in DOMAIN u.reqlog :
        \/ k = n /\ u.reqlog[k] = pp
        \/ k \in DOMAIN s.reqlog /\ u.reqlog[k] = s.reqlog[k]
  BY SMTT(20), <1>5 DEF Put
<1>9. n \in DOMAIN u.reqlog
  BY SMTT(20), <1>5 DEF Put
<1>10. Armed(s) => Armed(u)
  <2>1. is_primary(u) <=> is_primary(s)
    BY <1>2, <1>7 DEF is_primary, primary
  <2> SUFFICES ASSUME Armed(s) PROVE Armed(u)
    OBVIOUS
  <2>2. /\ a.timer_running
        /\ ~is_primary(s) /\ ~s.view_changing /\ s.view = 0 => a.timer # Off
    BY StartTimerArmed
  <2> QED BY <1>2, <1>7, <2>1, <2>2 DEF Armed
<1>11. Counted(s) => Counted(u)
  <2>1. u.id = s.id /\ u.h = s.h /\ u.checkpoints = s.checkpoints
    BY <1>2, <1>7
  <2> QED BY <2>1, CountedSame
<1>12. u.out = s.out /\ u.view = s.view /\ u.executed = s.executed
  BY <1>2, <1>7
<1>a. \A j \in Replicas : Sent(u, j) = Sent(s, j)
  BY <1>12 DEF Sent
<1>13. Steady(s, u)
  BY <1>2, <1>7, <1>10, <1>11, <1>a DEF Steady
<1>14. ASSUME Matches(m.req_digest, m.req) PROVE Loyal(s, u)
  <2>1. Holds(s) => Holds(u)
    <3>1. Matches(pp.digest, pp.req)
      BY <1>4, <1>14
    <3> QED BY <1>8, <1>12, <3>1 DEF Holds
  <2> QED BY <1>a, <2>1 DEF Loyal
<1> QED
  BY <1>0, <1>6, <1>9, <1>13, <1>14

\* A PrePrepare, on its own or of a NewView.
LEMMA OnPrePrepareImplSteady ==
  ASSUME NEW s, Local(s), NEW m \in PrePrepare
  PROVE  LET t == on_preprepare_impl(s, m)
         IN  /\ Steady(s, t) /\ (Matches(m.req_digest, m.req) => Loyal(s, t))
             /\ t.timer_running => s.timer_running \/ ~s.view_changing
<1>0. PICK t : t = on_preprepare_impl(s, m)
  OBVIOUS
<1>1. CASE t = s
  BY <1>0, <1>1, PhaseSelf DEF Phase
<1>2. CASE t # s
  <2>1. PICK a : a = start_timer_if_not_running(s)
    OBVIOUS
  <2>2. PICK u : u = [a EXCEPT !.reqlog =
                        Put(@, m.seq_num,
                            PrePrepared(At(s.reqlog, m.seq_num, NewEntry), m.view,
                                        m.req_digest, m.req, s.id))]
    OBVIOUS
  <2>3. PICK w : w = broadcast(u, OwnPrepare(s, m))
    OBVIOUS
  <2>4. /\ ~s.view_changing /\ m.view = s.view /\ InWindow(s, m.seq_num)
        /\ t = try_prepare(w, m.seq_num)
    BY <1>0, <1>2, <2>1, <2>2, <2>3 DEF on_preprepare_impl, OwnPrepare
  <2>5. /\ Local(u) /\ m.seq_num \in DOMAIN u.reqlog
        /\ Steady(s, u) /\ (Matches(m.req_digest, m.req) => Loyal(s, u))
    BY <2>1, <2>2, <2>4, PrePrepareSteady
  <2>6. OwnPrepare(s, m) \in Message /\ OwnPrepare(s, m).type \in VoteTypes
    BY SMTT(20) DEF OwnPrepare, PrepareMsg, VoteTypes, Message, Vote, PrePrepare,
                    Local, IsNode
  <2>7. Local(w) /\ SameExcept(u, w, {"out"}) /\ Phase(u, w)
    BY <2>3, <2>5, <2>6, BroadcastLocal, VotePhase
  <2>8. m.seq_num \in DOMAIN w.reqlog
    BY SMTT(20), <2>5, <2>7 DEF SameExcept, NodeFields
  <2>9. Phase(u, t)
    BY <2>4, <2>7, <2>8, TryPreparePhase, PhaseThen
  <2> QED BY <1>0, <2>4, <2>5, <2>9, SteadyThen, LoyalThen DEF Phase
<1> QED
  BY <1>1, <1>2

-----------------------------------------------------------------------------
(* Requests and checkpoints. *)

\* The primary assigns a number to a request.
LEMMA AssignedSteady ==
  ASSUME NEW s, Local(s), NEW m \in Request, NEW u, SequenceAssigned(s, m, u)
  PROVE  Steady(s, u) /\ Quiet(s, u) /\ Loyal(s, u)
<1>0. PICK n, pp : /\ n = s.seq_num + 1
                   /\ pp = PrePrepared(At(s.reqlog, s.seq_num + 1, NewEntry), s.view,
                                       get_hash(m), m, s.id)
  OBVIOUS
<1>1. /\ is_primary(s) /\ SameExcept(s, u, {"seq_num", "reqlog"})
      /\ u.reqlog = Put(s.reqlog, n, pp)
  BY <1>0 DEF SequenceAssigned
<1>2. /\ u.id = s.id /\ u.view = s.view /\ u.view_changing = s.view_changing
      /\ u.view_change_store = s.view_change_store /\ u.h = s.h
      /\ u.checkpoints = s.checkpoints /\ u.executed = s.executed
      /\ u.timer_running = s.timer_running /\ u.out = s.out
  BY SMTT(20), <1>1 DEF SameExcept, NodeFields
<1>3. is_primary(u)
  BY <1>1, <1>2 DEF is_primary, primary
<1>4. \A j \in Replicas : Sent(u, j) = Sent(s, j)
  BY <1>2 DEF Sent
<1>5. Steady(s, u)
  BY <1>2, <1>3, <1>4, CountedSame DEF Steady, Armed
<1>6. pp.digest = get_hash(m) /\ pp.req = m
  <2>1. At(s.reqlog, s.seq_num + 1, NewEntry) \in Entry
    BY EntryAt
  <2> QED BY SMTT(20), <1>0, <2>1 DEF PrePrepared, Entry
<1>7. Loyal(s, u)
  <2>1. Matches(pp.digest, pp.req)
    BY <1>6 DEF Matches
  <2>2. \A k \in DOMAIN u.reqlog :
          \/ k = n /\ u.reqlog[k] = pp
          \/ k \in DOMAIN s.reqlog /\ u.reqlog[k] = s.reqlog[k]
    BY SMTT(20), <1>1 DEF Put
  <2>3. Holds(s) => Holds(u)
    BY <1>2, <2>1, <2>2 DEF Holds
  <2> QED BY <1>4, <2>3 DEF Loyal
<1> QED
  BY <1>2, <1>5, <1>7 DEF Quiet

\* A request.
LEMMA OnRequestSteady ==
  ASSUME NEW s, Local(s), NEW m \in Request
  PROVE  LET t == on_request(s, m)
         IN  Steady(s, t) /\ Tame(s, t) /\ Loyal(s, t)
<1>0. PICK t : t = on_request(s, m)
  OBVIOUS
<1>1. m \in Message /\ m.type = "request"
  BY SMTT(20) DEF Message, Request
<1>2. m.type \notin {"viewchange", "newview"} /\ Faithful(m)
  BY SMTT(20), <1>1 DEF Faithful
<1>3. CASE AlreadyReplied(s, m)
  <2>1. PICK reply : t = send_to_client(s, m.client_id, reply)
    BY <1>0, <1>3 DEF on_request
  <2>2. DOMAIN s = NodeFields
    BY DEF Local, IsNode
  <2>3. SameExcept(s, t, {"replies"})
    BY ZenonT(40), <2>1, <2>2 DEF send_to_client, SameExcept, NodeFields
  <2>4. /\ t.id = s.id /\ t.view = s.view /\ t.view_changing = s.view_changing
        /\ t.view_change_store = s.view_change_store /\ t.last_exec = s.last_exec
        /\ t.timer = s.timer /\ t.timer_running = s.timer_running
        /\ t.h = s.h /\ t.checkpoints = s.checkpoints
        /\ t.executed = s.executed /\ t.out = s.out /\ t.reqlog = s.reqlog
    BY ZenonT(40), <2>3 DEF SameExcept, NodeFields
  <2>5. SameEntries(s, t) /\ \A j \in Replicas : Sent(t, j) = Sent(s, j)
    BY <2>4 DEF SameEntries, Sent
  <2>6. Steady(s, t)
    BY <2>4, <2>5, ArmedSame, CountedSame DEF Steady
  <2>7. Loyal(s, t)
    BY <2>4, <2>5, HoldsSame DEF Loyal
  <2> QED BY <1>0, <2>4, <2>6, <2>7 DEF Tame
<1>4. CASE t = s
  BY <1>0, <1>4, PhaseSelf DEF Phase, Tame
<1>5. CASE ~AlreadyReplied(s, m) /\ ~s.view_changing /\ ~is_primary(s)
  <2>1. PICK a : a = start_timer_if_not_running(s)
    OBVIOUS
  <2>2. t = send_to_replica(a, primary(s), m)
    BY <1>0, <1>5, <2>1 DEF on_request
  <2>3. Local(a) /\ Steady(s, a) /\ Loyal(s, a)
    BY <2>1, StartTimerLocal, StartTimerSteady
  <2>4. primary(s) \in Replicas
    BY PrimaryIsReplica DEF Local, IsNode
  <2>5. /\ SameExcept(a, t, {"out"})
        /\ t.out = [k \in Replicas |-> IF k = primary(s) /\ primary(s) # a.id
                                       THEN Append(a.out[k], m) ELSE a.out[k]]
    BY <1>1, <2>2, <2>3, <2>4, SendToReplicaLocal
  <2>6. /\ t.id = a.id /\ t.view = a.view /\ t.view_changing = a.view_changing
        /\ t.view_change_store = a.view_change_store /\ t.last_exec = a.last_exec
        /\ t.timer = a.timer /\ t.timer_running = a.timer_running
        /\ t.h = a.h /\ t.checkpoints = a.checkpoints
        /\ t.executed = a.executed /\ t.reqlog = a.reqlog
    BY ZenonT(40), <2>5 DEF SameExcept, NodeFields
  <2>7. SameEntries(a, t)
    BY <2>6 DEF SameEntries
  <2>8. \A j \in Replicas : Sent(t, j) \subseteq Sent(a, j) \cup {m}
    <3>1. \A j \in Replicas : t.out[j] = a.out[j] \/ t.out[j] = Append(a.out[j], m)
      BY <2>5
    <3> QED BY <2>3, <3>1, AppendedSent
  <2>9. Steady(a, t)
    BY <1>2, <2>6, <2>7, <2>8, ArmedSame, CountedSame DEF Steady
  <2>10. Loyal(a, t)
    BY <1>2, <2>6, <2>7, <2>8, HoldsSame DEF Loyal
  <2> QED BY <1>0, <1>5, <2>3, <2>9, <2>10, SteadyThen, LoyalThen DEF Tame
<1>6. CASE is_primary(s) /\ t = AssignSequence(s, m)
           /\ ~(s.seq_num < s.h \/ s.seq_num >= H(s))
  <2>1. PICK u : /\ Local(u) /\ SequenceAssigned(s, m, u)
                 /\ OwnPrePrepare(s, m) \in Message
                 /\ t = broadcast(u, OwnPrePrepare(s, m))
    BY <1>6, AssignSequenceLocal
  <2>2. Steady(s, u) /\ Quiet(s, u) /\ Loyal(s, u)
    BY <2>1, AssignedSteady
  <2>3. PICK p : p = OwnPrePrepare(s, m)
    OBVIOUS
  <2>4. p.type = "preprepare" /\ p.req_digest = get_hash(m) /\ p.req = m
    BY ZenonT(40), <2>3 DEF OwnPrePrepare, PrePrepareMsg
  <2>5. p.type \notin {"viewchange", "newview"}
    BY SMTT(20), <2>4
  <2>6. Faithful(p)
    BY SMTT(20), <2>4 DEF Faithful, Matches
  <2>7. Steady(u, t) /\ Quiet(u, t) /\ (Faithful(p) => Loyal(u, t))
    BY <2>1, <2>3, <2>5, BroadcastSteady
  <2> QED BY <1>0, <2>2, <2>6, <2>7, SteadyThen, LoyalThen DEF Tame, Quiet
<1> QED
  BY <1>0, <1>3, <1>4, <1>5, <1>6 DEF on_request

\* What on_checkpoint does to the votes.
LEMMA OnCheckpointVotes ==
  ASSUME NEW s, Local(s), NEW m \in CheckpointVote, NEW t, t = on_checkpoint(s, m),
         NEW cp, cp = Voted(At(s.checkpoints, m.seq_num, NewCheckpoint),
                            m.state_digest, m.replica_id)
  PROVE  \/ t = s
         \/ /\ cp.stable \/ ~(Cardinality(Voters(cp, m.state_digest)) >= 2 * f + 1)
            /\ t.h = s.h
            /\ \A k \in DOMAIN t.checkpoints :
                 \/ /\ k = m.seq_num /\ t.checkpoints[k].votes = cp.votes
                    /\ t.checkpoints[k].stable = cp.stable
                 \/ k \in DOMAIN s.checkpoints /\ t.checkpoints[k] = s.checkpoints[k]
         \/ /\ s.h <= m.seq_num /\ t.h = m.seq_num
            /\ \A k \in DOMAIN t.checkpoints : k # m.seq_num =>
                 k \in DOMAIN s.checkpoints /\ t.checkpoints[k] = s.checkpoints[k]
<1> DEFINE stable == ~cp.stable /\ Cardinality(Voters(cp, m.state_digest)) >= 2 * f + 1
<1>1. PICK c2 : c2 = [cp EXCEPT !.stable = @ \/ stable]
  OBVIOUS
<1>2. PICK stored : stored = [s EXCEPT !.checkpoints = Put(@, m.seq_num, c2)]
  OBVIOUS
<1>3. PICK moved : moved = [stored EXCEPT !.last_stable_digest = m.state_digest,
                                          !.h = m.seq_num]
  OBVIOUS
<1>4. PICK x : x = [moved EXCEPT !.seq_num = recompute_highest_sequence(moved)]
  OBVIOUS
<1>5. t = IF m.seq_num < s.h THEN s ELSE IF ~stable THEN stored ELSE garbage_collect(x)
  BY ZenonT(40), <1>1, <1>2, <1>3, <1>4 DEF on_checkpoint, Voted, advance_watermarks
<1>6. DOMAIN s = NodeFields /\ s.h \in Nat /\ m.seq_num \in Nat
  BY SMTT(20) DEF Local, IsNode, CheckpointVote
<1>7. /\ DOMAIN stored = NodeFields /\ stored.h = s.h
      /\ stored.checkpoints = Put(s.checkpoints, m.seq_num, c2)
  BY ZenonT(40), <1>2, <1>6 DEF NodeFields
<1>8. \A k \in DOMAIN stored.checkpoints :
        \/ k = m.seq_num /\ stored.checkpoints[k] = c2
        \/ k \in DOMAIN s.checkpoints /\ stored.checkpoints[k] = s.checkpoints[k]
  BY SMTT(20), <1>7 DEF Put
<1>9. CASE m.seq_num < s.h
  BY <1>5, <1>9
<1>10. CASE ~(m.seq_num < s.h) /\ ~stable
  <2>1. t = stored
    BY <1>5, <1>10
  <2>2. At(s.checkpoints, m.seq_num, NewCheckpoint) \in Checkpoint
    <3>1. NewCheckpoint \in Checkpoint
      BY NewCheckpointShort
    <3> QED BY ZenonT(40), <3>1 DEF At, Local, IsNode, IsMap
  <2>3. cp \in Checkpoint
    <3>1. m.state_digest \in StateDigest /\ m.replica_id \in Replicas
      BY SMTT(20) DEF CheckpointVote
    <3> QED BY <2>2, <3>1, VoteType DEF Voted
  <2>4. c2.votes = cp.votes /\ c2.stable = cp.stable
    BY ZenonT(40), <1>1, <1>10, <2>3 DEF Checkpoint
  <2> QED BY <1>7, <1>8, <1>10, <2>1, <2>4
<1>11. CASE ~(m.seq_num < s.h) /\ stable
  <2>1. t = garbage_collect(x)
    BY <1>5, <1>11
  <2>2. /\ DOMAIN x = NodeFields /\ x.h = m.seq_num
        /\ x.checkpoints = stored.checkpoints
    BY ZenonT(40), <1>3, <1>4, <1>7 DEF NodeFields
  <2>3. /\ t.h = m.seq_num
        /\ t.checkpoints = Restrict(stored.checkpoints,
             {k \in DOMAIN stored.checkpoints : k >= m.seq_num})
    BY ZenonT(40), <2>1, <2>2 DEF garbage_collect, NodeFields
  <2>4. \A k \in DOMAIN t.checkpoints :
          k \in DOMAIN stored.checkpoints /\ t.checkpoints[k] = stored.checkpoints[k]
    BY ZenonT(40), <2>3 DEF Restrict
  <2>5. s.h <= m.seq_num
    BY SMTT(20), <1>6, <1>11
  <2> QED BY <1>8, <2>3, <2>4, <2>5
<1> QED
  BY <1>9, <1>10, <1>11

\* A Checkpoint.
LEMMA OnCheckpointPhase ==
  ASSUME NEW s, Local(s), NEW m \in CheckpointVote
  PROVE  Phase(s, on_checkpoint(s, m))
<1>0. PICK t : t = on_checkpoint(s, m)
  OBVIOUS
<1>1. PICK old : old = At(s.checkpoints, m.seq_num, NewCheckpoint)
  OBVIOUS
<1>2. PICK cp : cp = Voted(old, m.state_digest, m.replica_id)
  OBVIOUS
<1>3. m.seq_num \in Nat /\ m.state_digest \in StateDigest /\ m.replica_id \in Replicas
  BY ZenonT(40) DEF CheckpointVote
<1>4. /\ s.h \in Nat /\ DOMAIN s.checkpoints \subseteq Nat
      /\ \A k \in DOMAIN s.checkpoints : s.checkpoints[k] \in Checkpoint
  BY ZenonT(40) DEF Local, IsNode, IsMap
<1>5. /\ Local(t)
      /\ \/ t = s
         \/ VoteStored(s, m, t) /\ SameExcept(s, t, {"checkpoints"})
         \/ VoteStored(s, m, t) /\ BecameStable(s, m, t)
  BY <1>0, OnCheckpointLocal
<1>6. CASE t = s
  BY <1>0, <1>6, PhaseSelf
<1>7. CASE t # s
  <2>1. /\ t.id = s.id /\ t.view = s.view /\ t.view_changing = s.view_changing
        /\ t.view_change_store = s.view_change_store /\ t.last_exec = s.last_exec
        /\ t.timer = s.timer /\ t.timer_running = s.timer_running
        /\ t.executed = s.executed /\ t.out = s.out
    <3>1. CASE SameExcept(s, t, {"checkpoints"})
      BY ZenonT(40), <3>1 DEF SameExcept, NodeFields
    <3>2. CASE BecameStable(s, m, t)
      BY SMTT(20), <3>2 DEF BecameStable, SameExcept, NodeFields
    <3> QED BY <1>5, <1>7, <3>1, <3>2
  <2>2. SameEntries(s, t)
    <3>1. CASE SameExcept(s, t, {"checkpoints"})
      <4>1. t.reqlog = s.reqlog
        BY SMTT(20), <3>1 DEF SameExcept, NodeFields
      <4> QED BY <4>1 DEF SameEntries
    <3>2. CASE BecameStable(s, m, t)
      <4>1. \A k \in DOMAIN t.reqlog : k \in DOMAIN s.reqlog /\ t.reqlog[k] = s.reqlog[k]
        BY ZenonT(40), <3>2 DEF BecameStable, Restrict
      <4> QED BY <4>1 DEF SameEntries
    <3> QED BY <1>5, <1>7, <3>1, <3>2
  <2>3. ASSUME Counted(s) PROVE Counted(t)
    <3>1. CASE /\ cp.stable \/ ~(Cardinality(Voters(cp, m.state_digest)) >= 2 * f + 1)
               /\ t.h = s.h
               /\ \A k \in DOMAIN t.checkpoints :
                    \/ /\ k = m.seq_num /\ t.checkpoints[k].votes = cp.votes
                       /\ t.checkpoints[k].stable = cp.stable
                    \/ k \in DOMAIN s.checkpoints /\ t.checkpoints[k] = s.checkpoints[k]
      <4> SUFFICES ASSUME NEW k \in DOMAIN t.checkpoints, k > t.h
                   PROVE  Short(t.checkpoints[k], t.id)
        BY DEF Counted
      <4>1. k > s.h
        BY <3>1
      <4>2. CASE k \in DOMAIN s.checkpoints /\ t.checkpoints[k] = s.checkpoints[k]
        BY <2>1, <2>3, <4>1, <4>2 DEF Counted
      <4>3. CASE /\ k = m.seq_num /\ t.checkpoints[k].votes = cp.votes
                 /\ t.checkpoints[k].stable = cp.stable
        <5>1. old \in Checkpoint /\ Short(old, s.id)
          <6>1. CASE m.seq_num \in DOMAIN s.checkpoints
            BY <1>1, <1>4, <2>3, <4>1, <4>3, <6>1 DEF At, Counted
          <6>2. CASE m.seq_num \notin DOMAIN s.checkpoints
            BY <1>1, <6>2, NewCheckpointShort DEF At
          <6> QED BY <6>1, <6>2
        <5>2. cp.stable = old.stable
          BY ZenonT(40), <1>2, <5>1 DEF Voted, Checkpoint
        <5>3. ~(Cardinality(Voters(cp, m.state_digest)) >= 2 * f + 1)
          BY <3>1, <5>1, <5>2 DEF Short
        <5>4. Short(cp, s.id)
          BY <1>2, <1>3, <5>1, <5>3, VoteShort
        <5>5. \A d : Voters(t.checkpoints[k], d) = Voters(cp, d)
          BY <4>3 DEF Voters
        <5> QED BY <2>1, <4>3, <5>4, <5>5 DEF Short
      <4> QED BY <3>1, <4>2, <4>3
    <3>2. CASE /\ s.h <= m.seq_num /\ t.h = m.seq_num
               /\ \A k \in DOMAIN t.checkpoints : k # m.seq_num =>
                    k \in DOMAIN s.checkpoints /\ t.checkpoints[k] = s.checkpoints[k]
      <4> SUFFICES ASSUME NEW k \in DOMAIN t.checkpoints, k > t.h
                   PROVE  Short(t.checkpoints[k], t.id)
        BY DEF Counted
      <4>0. k \in Nat
        BY ZenonT(40), <1>5 DEF Local, IsNode, IsMap
      <4>1. k > m.seq_num /\ k # m.seq_num /\ k > s.h
        BY SMTT(20), <1>3, <1>4, <3>2, <4>0
      <4> QED BY <2>1, <2>3, <3>2, <4>1 DEF Counted
    <3>3. cp = Voted(At(s.checkpoints, m.seq_num, NewCheckpoint), m.state_digest,
                     m.replica_id)
      BY <1>1, <1>2
    <3> QED BY SMTT(20), <1>0, <1>7, <3>1, <3>2, <3>3, OnCheckpointVotes
  <2>4. \A j \in Replicas : Sent(t, j) = Sent(s, j)
    BY <2>1 DEF Sent
  <2>5. Steady(s, t)
    BY <2>1, <2>2, <2>3, <2>4, ArmedSame DEF Steady
  <2>6. Loyal(s, t)
    BY <2>1, <2>2, <2>4, HoldsSame DEF Loyal
  <2> QED BY <1>0, <2>1, <2>5, <2>6 DEF Phase, Quiet
<1> QED
  BY <1>6, <1>7

\* Every handler but the two of the view change.
LEMMA HandleSteady ==
  ASSUME NEW s, Local(s), NEW m \in Message, NEW src, src # s.id,
         m.type \notin {"viewchange", "newview"}
  PROVE  LET t == Handle(s, m, src)
         IN  /\ Local(t) /\ Steady(s, t) /\ Tame(s, t)
             /\ Faithful(m) => Loyal(s, t)
<1>0. PICK t : t = Handle(s, m, src)
  OBVIOUS
<1>1. CASE m \in Request
  <2>1. m.type = "request"
    BY SMTT(20), <1>1 DEF Request
  <2>2. t = on_request(s, m)
    BY SMTT(20), <1>0, <2>1 DEF Handle
  <2> QED BY <1>0, <1>1, <2>2, OnRequestLocal, OnRequestSteady
<1>2. CASE m \in PrePrepare
  <2>1. m.type = "preprepare"
    BY SMTT(20), <1>2 DEF PrePrepare
  <2>2. t = on_preprepare(s, m, src)
    BY SMTT(20), <1>0, <2>1 DEF Handle
  <2>3. CASE t = s
    BY <1>0, <2>3, PhaseSelf DEF Phase, Tame
  <2>4. CASE comes_from_primary(src, s.view) /\ t = on_preprepare_impl(s, m)
    <3>1. ~is_primary(s)
      BY <2>4 DEF comes_from_primary, is_primary, primary
    <3>2. Faithful(m) => Matches(m.req_digest, m.req)
      BY <2>1 DEF Faithful
    <3>3. Local(t)
      BY <1>2, <2>4, OnPrePrepareImplLocal
    <3> QED BY <1>0, <1>2, <2>4, <3>1, <3>2, <3>3, OnPrePrepareImplSteady DEF Tame
  <2> QED BY <2>2, <2>3, <2>4 DEF on_preprepare
<1>3. CASE m \in Vote
  <2>1. m.type \in {"prepare", "commit"}
    BY SMTT(20), <1>3 DEF Vote
  <2>2. \/ t = on_prepare(s, m, src)
        \/ t = on_commit(s, m)
    BY SMTT(20), <1>0, <2>1 DEF Handle
  <2>3. Local(t) /\ Phase(s, t)
    BY <1>3, <2>2, OnPrepareLocal, OnCommitLocal, OnPreparePhase, OnCommitPhase
  <2> QED BY <1>0, <2>3 DEF Phase, Quiet, Tame
<1>4. CASE m \in CheckpointVote
  <2>1. m.type = "checkpoint"
    BY SMTT(20), <1>4 DEF CheckpointVote
  <2>2. t = on_checkpoint(s, m)
    BY SMTT(20), <1>0, <2>1 DEF Handle
  <2>3. Local(t) /\ Phase(s, t)
    BY <1>4, <2>2, OnCheckpointLocal, OnCheckpointPhase
  <2> QED BY <1>0, <2>3 DEF Phase, Quiet, Tame
<1>5. m \notin ViewChange /\ m \notin NewView
  BY SMTT(20) DEF ViewChange, NewView
<1> QED
  BY <1>1, <1>2, <1>3, <1>4, <1>5 DEF Message

-----------------------------------------------------------------------------
(* The handlers of the view change. *)

\* The ViewChanges for view v that a node has stored.
Asking(s, v) ==
  {s.view_change_store[<<v, r>>] :
     r \in {r \in Replicas : <<v, r>> \in DOMAIN s.view_change_store}}

\* They are a V set.
LEMMA AskingType ==
  ASSUME NEW s, Local(s), NEW v \in Nat
  PROVE  VSet(Asking(s, v))
<1>1. PICK R : R = {r \in Replicas : <<v, r>> \in DOMAIN s.view_change_store}
  OBVIOUS
<1>2. PICK g : g = [r \in R |-> s.view_change_store[<<v, r>>]]
  OBVIOUS
<1>3. Asking(s, v) = {g[r] : r \in R}
  <2>1. \A r \in R : g[r] = s.view_change_store[<<v, r>>]
    BY <1>2
  <2>2. Asking(s, v) = {s.view_change_store[<<v, r>>] : r \in R}
    BY <1>1 DEF Asking
  <2> QED BY <2>1, <2>2
<1>4. \A r \in R : g[r] \in ViewChange
  <2>1. IsMap(s.view_change_store, Nat \X Replicas, ViewChange)
    BY DEF Local, IsNode
  <2>2. \A x \in DOMAIN s.view_change_store : s.view_change_store[x] \in ViewChange
    BY SMTT(20), <2>1 DEF IsMap
  <2> QED BY <1>1, <1>2, <2>2
<1>5. IsFiniteSet(R)
  <2>1. IsFiniteSet(Replicas) /\ R \subseteq Replicas
    BY SMTT(20), <1>1, ConstantTypes, FS_Interval DEF Replicas
  <2> QED BY <2>1, FS_Subset
<1>6. IsFiniteSet({g[r] : r \in R})
  BY <1>5, FiniteValues
<1> QED
  BY ZenonT(40), <1>3, <1>4, <1>6 DEF VSet

\* The NewView for the ViewChanges stored.
NewViewOf(s, v) == NewViewMsg(v, Asking(s, v), NewPrePrepares(v, Asking(s, v)))

\* What on_viewchange does: nothing, or store the message, and with a quorum of
\* them announce the view, enter it and settle.
LEMMA OnViewChangeSteps ==
  ASSUME NEW s, Local(s), NEW m \in ViewChange, NEW t, t = on_viewchange(s, m)
  PROVE  \/ t = s
         \/ /\ m.next_view >= s.view /\ m.next_view % N = s.id
            /\ \E u :
                 /\ Local(u) /\ ViewChangeStored(s, m, u)
                 /\ \/ t = u
                    \/ /\ ~(Cardinality(Asking(u, m.next_view)) < 2 * f + 1)
                       /\ t = Settle(EnterView(broadcast(u, NewViewOf(u, m.next_view)),
                                               m.next_view))
<1> USE SMTT(30)
<1> DEFINE v == m.next_view
           store == Put(s.view_change_store, <<v, m.replica_id>>, m)
           u == [s EXCEPT !.view_change_store = store]
           V == {store[<<v, r>>] : r \in {r \in Replicas : <<v, r>> \in DOMAIN store}}
<1>1. t = IF v < s.view \/ v % N # s.id THEN s
          ELSE IF Cardinality(V) < 2 * f + 1 THEN u
          ELSE Settle(EnterView(broadcast(u, NewViewMsg(v, V, NewPrePrepares(v, V))), v))
  BY DEF on_viewchange, Settle
<1>2. /\ store = Put(s.view_change_store, <<v, m.replica_id>>, m)
      /\ v = m.next_view
  OBVIOUS
<1>3. u = [s EXCEPT !.view_change_store = store]
  OBVIOUS
<1>0. V = {store[<<v, r>>] : r \in {r \in Replicas : <<v, r>> \in DOMAIN store}}
  OBVIOUS
<1> HIDE DEF v, store, u, V
<1>4. DOMAIN s = NodeFields
  BY Zenon DEF Local, IsNode
<1>5. SameExcept(s, u, {"view_change_store"}) /\ u.view_change_store = store
  BY <1>3, <1>4 DEF SameExcept, NodeFields
<1>6. ViewChangeStored(s, m, u)
  BY Zenon, <1>2, <1>5 DEF ViewChangeStored
<1>7. Local(u)
  <2>1. IsMap(store, Nat \X Replicas, ViewChange)
    <3>1. IsMap(s.view_change_store, Nat \X Replicas, ViewChange)
      BY Zenon DEF Local, IsNode
    <3>2. PICK key \in Nat \X Replicas : key = <<v, m.replica_id>>
      BY ZenonT(40), <1>2 DEF ViewChange
    <3> QED BY ZenonT(40), <1>2, <3>1, <3>2 DEF IsMap, Put
  <2>2. IsNode(u)
    BY ZenonT(40), <1>5, <2>1 DEF Local, IsNode, SameExcept, NodeFields
  <2>3. SameExcept(s, u, Loose)
    BY <1>5 DEF SameExcept, Loose
  <2> QED BY Zenon, <2>2, <2>3, LocalFrame
<1>8. t = IF v < s.view \/ v % N # s.id THEN s
          ELSE IF Cardinality(Asking(u, v)) < 2 * f + 1 THEN u
          ELSE Settle(EnterView(broadcast(u, NewViewOf(u, v)), v))
  <2>1. V = Asking(u, v)
    BY ZenonT(40), <1>0, <1>5 DEF Asking
  <2> QED BY Zenon, <1>1, <2>1 DEF NewViewOf
<1>9. v \in Nat /\ s.view \in Nat
  BY ZenonT(40), <1>2 DEF ViewChange, Local, IsNode
<1>10. ~(v < s.view) => v >= s.view
  BY <1>9
<1> QED
  BY ZenonT(40), <1>2, <1>6, <1>7, <1>8, <1>10

\* A node that leaves its view.
Leaving(s) ==
  stop_timer([s EXCEPT !.view_changing = TRUE,
                       !.view_change_timeout_count = @ + 1, !.timer = Off])

\* The ViewChange of a node.
AskOf(s) == ViewChangeMsg(s.view + 1, s.h % Word, s.id, ProofsOf(s))

\* What start_view_change does.
LEMMA StartViewChangeSteps ==
  ASSUME NEW s, Local(s), s.timer # Off
  PROVE  /\ SameExcept(s, Leaving(s), LeavingFields)
         /\ Leaving(s).view_changing /\ ~Leaving(s).timer_running
         /\ AskOf(s) \in ViewChange /\ AskOf(s) \in Message
         /\ Local(Leaving(s)) /\ Local(broadcast(Leaving(s), AskOf(s)))
         /\ start_view_change(s) =
              on_viewchange(broadcast(Leaving(s), AskOf(s)), AskOf(s))
<1>1. PICK s1 : s1 = [s EXCEPT !.view_changing = TRUE,
                               !.view_change_timeout_count = @ + 1, !.timer = Off]
  OBVIOUS
<1>2. PICK u : u = Leaving(s)
  OBVIOUS
<1>3. PICK vc : vc = AskOf(s)
  OBVIOUS
<1>4. u = stop_timer(s1)
  BY <1>1, <1>2 DEF Leaving
<1>5. Local(s1) /\ SameExcept(s, s1, LeavingFields)
  BY <1>1, LeavingLocal
<1>6. DOMAIN s = NodeFields /\ s.timer_running /\ s.view \in Nat /\ s.h \in Nat
      /\ s.id \in Replicas
  BY ZenonT(40) DEF Local, IsNode, TimerOK
<1>7. DOMAIN s1 = NodeFields /\ s1.view_changing /\ s1.timer_running
  BY SMTT(20), <1>1, <1>6 DEF NodeFields
<1>8. u.view_changing /\ ~u.timer_running
  BY SMTT(20), <1>4, <1>7 DEF stop_timer, NodeFields
<1>9. Local(u) /\ SameExcept(s1, u, {"timer", "timer_running"})
  BY <1>4, <1>5, StopTimerLocal
<1>10. SameExcept(s, u, LeavingFields)
  BY SMTT(20), <1>5, <1>9 DEF SameExcept, LeavingFields
<1>11. vc \in ViewChange
  <2>1. s.view + 1 \in Nat /\ s.h % Word \in Nat
    BY SMTT(20), <1>6, ConfigAssumption
  <2> QED BY ZenonT(40), <1>3, <1>6, <2>1, ProofsOfType DEF AskOf, ViewChangeMsg, ViewChange
<1>12. vc \in Message
  BY <1>11 DEF Message
<1>13. Local(broadcast(u, vc))
  BY <1>9, <1>12, BroadcastLocal
<1>14. start_view_change(s) = on_viewchange(broadcast(u, vc), vc)
  BY <1>2, <1>3 DEF start_view_change, Leaving, AskOf, ProofsOf
<1> QED
  BY <1>2, <1>3, <1>8, <1>9, <1>10, <1>11, <1>12, <1>13, <1>14

\* What on_newview does, guards included.
LEMMA OnNewViewSteps ==
  ASSUME NEW s, Local(s), NEW m \in NewView, NEW src, NEW t, t = on_newview(s, m, src),
         t # s
  PROVE  /\ src = m.next_view % N /\ s.view_changing /\ m.next_view > s.view
         /\ Local(EnterView(s, m.next_view))
         /\ \E r : /\ IsInstallation(r, EnterView(s, m.next_view), m.pre_prepares,
                                     Len(m.pre_prepares))
                   /\ t = Settle(r[Len(m.pre_prepares)])
<1>1. /\ comes_from_primary(src, m.next_view) /\ s.view_changing
      /\ ~(m.next_view <= s.view)
  BY ZenonT(40) DEF on_newview
<1>2. m.next_view \in Nat /\ s.view \in Nat
  BY ZenonT(40) DEF NewView, Local, IsNode
<1>3. src = m.next_view % N /\ m.next_view > s.view
  BY SMTT(20), <1>1, <1>2 DEF comes_from_primary
<1>4. Local(EnterView(s, m.next_view))
  BY <1>2, EnterViewLocal
<1>5. \E r : /\ IsInstallation(r, EnterView(s, m.next_view), m.pre_prepares,
                               Len(m.pre_prepares))
             /\ t = Settle(r[Len(m.pre_prepares)])
  BY OnNewViewLocal
<1> QED
  BY <1>1, <1>3, <1>4, <1>5

\* Taking the PrePrepares of a NewView is steady, and loyal if they are faithful.
LEMMA InstallationSteady ==
  ASSUME NEW s, Local(s), NEW O \in Seq(PrePrepare), NEW r,
         IsInstallation(r, s, O, Len(O))
  PROVE  LET t == r[Len(O)]
         IN  /\ Local(t) /\ Steady(s, t)
             /\ (\A k \in 1..Len(O) : Matches(O[k].req_digest, O[k].req)) => Loyal(s, t)
<1> DEFINE good == \A k \in 1..Len(O) : Matches(O[k].req_digest, O[k].req)
           P(m) == Steady(s, r[m]) /\ (good => Loyal(s, r[m]))
           T == {m \in 0..Len(O) : ~P(m)}
<1>0. Len(O) \in Nat
  BY SMTT(20)
<1>1. \A k \in 0..Len(O) : Local(r[k])
  BY InstallationLocal
<1>2. \A k \in 0..Len(O) : P(k)
  <2> SUFFICES ASSUME T # {} PROVE FALSE
    OBVIOUS
  <2>1. PICK m \in T : \A y \in T : m <= y
    <3>1. T \subseteq Nat
      BY SMTT(20)
    <3> HIDE DEF T
    <3> QED BY <3>1, LeastNumber
  <2>2. m \in 0..Len(O) /\ ~P(m)
    OBVIOUS
  <2>3. \A k \in 0..Len(O) : r[k] = IF k = 0 THEN s ELSE on_preprepare_impl(r[k - 1], O[k])
    BY DEF IsInstallation
  <2>4. m # 0
    <3>1. r[0] = s
      BY SMTT(20), <1>0, <2>3
    <3>2. P(0)
      BY <3>1, PhaseSelf DEF Phase
    <3> HIDE DEF P
    <3> QED BY SMTT(20), <2>2, <3>2
  <2>5. m - 1 \in 0..Len(O) /\ m - 1 < m /\ m \in 1..Len(O)
    BY SMTT(20), <1>0, <2>2, <2>4
  <2>6. P(m - 1)
    <3> HIDE DEF P
    <3> QED BY SMTT(20), <2>1, <2>5
  <2>7. r[m] = on_preprepare_impl(r[m - 1], O[m]) /\ O[m] \in PrePrepare
    BY SMTT(20), <2>2, <2>3, <2>4, <2>5
  <2>8. Local(r[m - 1])
    BY <1>1, <2>5
  <2>9. /\ Steady(r[m - 1], r[m])
        /\ Matches(O[m].req_digest, O[m].req) => Loyal(r[m - 1], r[m])
    BY <2>7, <2>8, OnPrePrepareImplSteady
  <2>10. P(m)
    BY <2>5, <2>6, <2>9, SteadyThen, LoyalThen
  <2> QED BY <2>2, <2>10
<1>3. Len(O) \in 0..Len(O)
  BY SMTT(20), <1>0
<1> QED
  BY <1>1, <1>2, <1>3

\* Settling changes seq_num_ and stops the timer or restarts it.
LEMMA SettleFields ==
  ASSUME NEW s, Local(s), NEW t, t = Settle(s)
  PROVE  /\ Local(t)
         /\ t.id = s.id /\ t.view = s.view /\ t.view_changing = s.view_changing
         /\ t.view_change_store = s.view_change_store
         /\ t.h = s.h /\ t.checkpoints = s.checkpoints
         /\ t.reqlog = s.reqlog /\ t.executed = s.executed /\ t.out = s.out
         /\ Quiet(s, t)
<1>1. PICK a : a = [s EXCEPT !.seq_num = recompute_highest_sequence(s)]
  OBVIOUS
<1>2. t = manage_timer(a)
  BY <1>1 DEF Settle
<1>3. DOMAIN s = NodeFields
  BY DEF Local, IsNode
<1>4. a.timer_running = s.timer_running
  BY SMTT(20), <1>1, <1>3 DEF NodeFields
<1>5. Quiet(s, t)
  <2>1. Quiet(a, t)
    BY <1>2, ManageTimerQuiet
  <2> QED BY <1>4, <2>1 DEF Quiet
<1>6. Local(t) /\ SameExcept(s, t, {"seq_num", "timer", "timer_running"})
  BY SettleLocal
<1>7. /\ t.id = s.id /\ t.view = s.view /\ t.view_changing = s.view_changing
      /\ t.view_change_store = s.view_change_store
      /\ t.h = s.h /\ t.checkpoints = s.checkpoints
      /\ t.reqlog = s.reqlog /\ t.executed = s.executed /\ t.out = s.out
  BY SMTT(20), <1>6 DEF SameExcept, NodeFields
<1> QED
  BY <1>5, <1>6, <1>7

\* Entering a view.
LEMMA EnterViewFields ==
  ASSUME NEW s, Local(s), NEW v \in Nat, NEW t, t = EnterView(s, v)
  PROVE  /\ Local(t)
         /\ t.view = v /\ ~t.view_changing
         /\ t.id = s.id /\ t.view_change_store = s.view_change_store
         /\ t.h = s.h /\ t.checkpoints = s.checkpoints
         /\ t.reqlog = s.reqlog /\ t.executed = s.executed /\ t.out = s.out
         /\ t.timer_running = s.timer_running
<1>1. DOMAIN s = NodeFields
  BY DEF Local, IsNode
<1>2. ~t.view_changing
  BY SMTT(20), <1>1 DEF EnterView, NodeFields
<1>3. /\ Local(t) /\ t.view = v
      /\ SameExcept(s, t, {"view", "view_changing", "view_change_timeout_count"})
  BY EnterViewLocal
<1>4. /\ t.id = s.id /\ t.view_change_store = s.view_change_store
      /\ t.h = s.h /\ t.checkpoints = s.checkpoints
      /\ t.reqlog = s.reqlog /\ t.executed = s.executed /\ t.out = s.out
      /\ t.timer_running = s.timer_running
  BY SMTT(20), <1>3 DEF SameExcept, NodeFields
<1> QED
  BY <1>2, <1>3, <1>4

\* Storing a ViewChange.
LEMMA StoredFields ==
  ASSUME NEW s, NEW m, NEW u, ViewChangeStored(s, m, u)
  PROVE  /\ u.id = s.id /\ u.view = s.view /\ u.view_changing = s.view_changing
         /\ u.h = s.h /\ u.checkpoints = s.checkpoints /\ u.last_exec = s.last_exec
         /\ u.reqlog = s.reqlog /\ u.executed = s.executed /\ u.out = s.out
         /\ u.timer = s.timer /\ u.timer_running = s.timer_running
BY SMTT(20) DEF ViewChangeStored, SameExcept, NodeFields

\* Announcing a view and entering it.
LEMMA NewViewSent ==
  ASSUME NEW u, Local(u), NEW v \in Nat
  PROVE  LET t == Settle(EnterView(broadcast(u, NewViewOf(u, v)), v))
         IN  /\ Local(t) /\ t.view = v /\ ~t.view_changing
             /\ t.id = u.id /\ t.view_change_store = u.view_change_store
             /\ t.h = u.h /\ t.checkpoints = u.checkpoints
             /\ t.reqlog = u.reqlog /\ t.executed = u.executed
             /\ Quiet(u, t)
             /\ \A j \in Replicas : Sent(t, j) \subseteq Sent(u, j) \cup {NewViewOf(u, v)}
<1>0. PICK t : t = Settle(EnterView(broadcast(u, NewViewOf(u, v)), v))
  OBVIOUS
<1>1. PICK nv : nv = NewViewOf(u, v)
  OBVIOUS
<1>2. PICK b : b = broadcast(u, nv)
  OBVIOUS
<1>3. PICK e : e = EnterView(b, v)
  OBVIOUS
<1>4. t = Settle(e)
  BY <1>0, <1>1, <1>2, <1>3
<1>5. nv \in Message
  <2>1. IsNewView(nv, v)
    BY <1>1, AskingType DEF NewViewOf, IsNewView
  <2> QED BY <2>1, NewViewType
<1>6. /\ Local(b) /\ SameExcept(u, b, {"out"})
      /\ \A j \in Replicas : b.out[j] = u.out[j] \/ b.out[j] = Append(u.out[j], nv)
  <2>1. \A j \in Replicas : b.out[j] = IF j = u.id THEN u.out[j] ELSE Append(u.out[j], nv)
    <3>1. b.out = [j \in Replicas |-> IF j = u.id THEN u.out[j] ELSE Append(u.out[j], nv)]
      BY <1>2, <1>5, BroadcastLocal
    <3> QED BY <3>1
  <2> QED BY <1>2, <1>5, <2>1, BroadcastLocal
<1>7. /\ b.id = u.id /\ b.view_change_store = u.view_change_store
      /\ b.h = u.h /\ b.checkpoints = u.checkpoints
      /\ b.reqlog = u.reqlog /\ b.executed = u.executed
      /\ b.timer_running = u.timer_running
  BY SMTT(20), <1>6 DEF SameExcept, NodeFields
<1>8. \A j \in Replicas : Sent(b, j) \subseteq Sent(u, j) \cup {nv}
  BY <1>6, AppendedSent
<1>9. /\ Local(e) /\ e.view = v /\ ~e.view_changing
      /\ e.id = b.id /\ e.view_change_store = b.view_change_store
      /\ e.h = b.h /\ e.checkpoints = b.checkpoints
      /\ e.reqlog = b.reqlog /\ e.executed = b.executed /\ e.out = b.out
      /\ e.timer_running = b.timer_running
  BY SMTT(20), <1>3, <1>6, EnterViewFields
<1>10. /\ Local(t) /\ t.id = e.id /\ t.view = e.view /\ t.view_changing = e.view_changing
       /\ t.view_change_store = e.view_change_store
       /\ t.h = e.h /\ t.checkpoints = e.checkpoints
       /\ t.reqlog = e.reqlog /\ t.executed = e.executed /\ t.out = e.out
       /\ Quiet(e, t)
  BY ZenonT(40), <1>4, <1>9, SettleFields
<1>11. /\ t.view = v /\ ~t.view_changing
       /\ t.id = u.id /\ t.view_change_store = u.view_change_store
       /\ t.h = u.h /\ t.checkpoints = u.checkpoints
       /\ t.reqlog = u.reqlog /\ t.executed = u.executed
       /\ t.out = b.out
  BY ZenonT(40), <1>7, <1>9, <1>10
<1>12. Quiet(u, t)
  BY <1>7, <1>9, <1>10 DEF Quiet
<1>13. \A j \in Replicas : Sent(t, j) = Sent(b, j)
  BY <1>11 DEF Sent
<1> QED
  BY <1>0, <1>1, <1>8, <1>10, <1>11, <1>12, <1>13

\* A node that enters a view on its own is its primary.
LEMMA OnViewChangeArmed ==
  ASSUME NEW s, Local(s), NEW m \in ViewChange
  PROVE  LET t == on_viewchange(s, m)
         IN  (Armed(s) => Armed(t)) /\ (Counted(s) => Counted(t))
<1>1. PICK t : t = on_viewchange(s, m)
  OBVIOUS
<1>2. m.next_view \in Nat
  BY SMTT(20) DEF ViewChange
<1>3. CASE t = s
  BY <1>1, <1>3
<1>4. CASE t # s
  <2>1. PICK u : /\ Local(u) /\ ViewChangeStored(s, m, u)
                 /\ \/ t = u
                    \/ t = Settle(EnterView(broadcast(u, NewViewOf(u, m.next_view)),
                                            m.next_view))
    BY SMTT(20), <1>1, <1>4, OnViewChangeSteps
  <2>2. m.next_view % N = s.id
    BY <1>1, <1>4, OnViewChangeSteps
  <2>3. /\ u.id = s.id /\ u.view = s.view /\ u.view_changing = s.view_changing
        /\ u.h = s.h /\ u.checkpoints = s.checkpoints /\ u.last_exec = s.last_exec
        /\ u.reqlog = s.reqlog /\ u.timer = s.timer /\ u.timer_running = s.timer_running
    BY SMTT(20), <2>1, StoredFields
  <2>4. CASE t = u
    <3>1. SameEntries(s, u)
      BY <2>3 DEF SameEntries
    <3> QED BY <1>1, <2>3, <2>4, <3>1, ArmedSame, CountedSame
  <2>5. CASE t = Settle(EnterView(broadcast(u, NewViewOf(u, m.next_view)), m.next_view))
    <3>1. /\ t.view = m.next_view /\ t.id = u.id
          /\ t.h = u.h /\ t.checkpoints = u.checkpoints
      BY <1>2, <2>1, <2>5, NewViewSent
    <3>2. is_primary(t)
      BY <2>2, <2>3, <3>1 DEF is_primary, primary
    <3>3. t.id = s.id /\ t.h = s.h /\ t.checkpoints = s.checkpoints
      BY SMTT(20), <2>3, <3>1
    <3> QED BY <1>1, <3>2, <3>3, CountedSame DEF Armed
  <2> QED BY <2>1, <2>4, <2>5
<1> QED
  BY <1>3, <1>4

\* A node that asks for a view change has no use for its timer.
LEMMA StartViewChangeArmed ==
  ASSUME NEW s, Local(s), s.timer # Off
  PROVE  LET t == start_view_change(s)
         IN  Armed(t) /\ (Counted(s) => Counted(t))
<1>1. PICK u : u = Leaving(s)
  OBVIOUS
<1>2. PICK vc : vc = AskOf(s)
  OBVIOUS
<1>3. PICK b : b = broadcast(u, vc)
  OBVIOUS
<1>4. /\ SameExcept(s, u, LeavingFields) /\ u.view_changing
      /\ vc \in ViewChange /\ vc \in Message /\ Local(u) /\ Local(b)
      /\ start_view_change(s) = on_viewchange(b, vc)
  BY <1>1, <1>2, <1>3, StartViewChangeSteps
<1>5. SameExcept(u, b, {"out"})
  BY <1>3, <1>4, BroadcastLocal
<1>6. b.view_changing /\ b.id = s.id /\ b.h = s.h /\ b.checkpoints = s.checkpoints
  BY SMTT(20), <1>4, <1>5 DEF SameExcept, NodeFields, LeavingFields
<1>7. Armed(b) /\ (Counted(s) => Counted(b))
  BY <1>6, CountedSame DEF Armed
<1> QED
  BY <1>4, <1>7, OnViewChangeArmed

\* A node that accepts a NewView leaves view 0.
LEMMA OnNewViewArmed ==
  ASSUME NEW s, Local(s), NEW m \in NewView, NEW src
  PROVE  LET t == on_newview(s, m, src)
         IN  (Armed(s) => Armed(t)) /\ (Counted(s) => Counted(t))
<1>1. PICK t : t = on_newview(s, m, src)
  OBVIOUS
<1>2. CASE t = s
  BY <1>1, <1>2
<1>3. CASE t # s
  <2>1. PICK e : e = EnterView(s, m.next_view)
    OBVIOUS
  <2>2. PICK r : /\ IsInstallation(r, e, m.pre_prepares, Len(m.pre_prepares))
                 /\ t = Settle(r[Len(m.pre_prepares)])
    BY SMTT(20), <1>1, <1>3, <2>1, OnNewViewSteps
  <2>3. m.next_view > s.view
    BY <1>1, <1>3, OnNewViewSteps
  <2>4. m.next_view \in Nat /\ s.view \in Nat
    BY ZenonT(40) DEF NewView, Local, IsNode
  <2>12. m.pre_prepares \in Seq(PrePrepare)
    BY SMTT(20) DEF NewView
  <2>5. /\ Local(e) /\ e.view = m.next_view
        /\ e.id = s.id /\ e.h = s.h /\ e.checkpoints = s.checkpoints
    BY SMTT(20), <2>1, <2>4, EnterViewFields
  <2>6. PICK last : last = r[Len(m.pre_prepares)]
    OBVIOUS
  <2>7. Local(last) /\ Steady(e, last)
    BY <2>2, <2>5, <2>6, <2>12, InstallationSteady
  <2>8. /\ t.id = last.id /\ t.view = last.view
        /\ t.h = last.h /\ t.checkpoints = last.checkpoints
    BY <2>2, <2>6, <2>7, SettleFields
  <2>9. last.view = e.view /\ (Counted(e) => Counted(last))
    BY <2>7 DEF Steady
  <2>10. t.view # 0
    BY SMTT(20), <2>3, <2>4, <2>5, <2>8, <2>9
  <2>11. Counted(s) => Counted(t)
    BY <2>5, <2>8, <2>9, CountedSame
  <2> QED BY <1>1, <2>10, <2>11 DEF Armed
<1> QED
  BY <1>2, <1>3

\* Every handler keeps a node's timer armed and its votes counted.
LEMMA HandleArmed ==
  ASSUME NEW s, Local(s), NEW m \in Message, NEW src, src # s.id
  PROVE  LET t == Handle(s, m, src)
         IN  (Armed(s) => Armed(t)) /\ (Counted(s) => Counted(t))
<1> USE SMTT(30)
<1>1. CASE m.type \notin {"viewchange", "newview"}
  BY Zenon, <1>1, HandleSteady DEF Steady
<1>2. CASE m.type = "viewchange"
  <2>1. m \in ViewChange
    BY <1>2 DEF Message, Request, PrePrepare, Vote, CheckpointVote, NewView
  <2>2. Handle(s, m, src) = on_viewchange(s, m)
    BY <1>2 DEF Handle
  <2> QED BY ZenonT(40), <2>1, <2>2, OnViewChangeArmed
<1>3. CASE m.type = "newview"
  <2>1. m \in NewView
    BY <1>3 DEF Message, Request, PrePrepare, Vote, CheckpointVote, ViewChange
  <2>2. Handle(s, m, src) = on_newview(s, m, src)
    BY <1>3 DEF Handle
  <2> QED BY ZenonT(40), <2>1, <2>2, OnNewViewArmed
<1> QED
  BY ZenonT(40), <1>1, <1>2, <1>3

-----------------------------------------------------------------------------
(* Four nodes change view once. *)

\* Early, with the messages a node has sent as sets.
LEMMA EarlySent ==
  ASSUME NEW s
  PROVE  (\A j \in Replicas : \A k \in 1..Len(s.out[j]) : AskOK(s.out[j][k], s.id))
           <=> (\A j \in Replicas : \A m \in Sent(s, j) : AskOK(m, s.id))
BY DEF Sent

\* Nothing but the timer of a backup changes.
LEMMA EarlyFrame ==
  ASSUME N = 4, NEW s, NEW t, Early(s), t.id = s.id, t.view = s.view,
         t.view_changing = s.view_changing, t.view_change_store = s.view_change_store,
         Tame(s, t),
         \A j \in Replicas : \A m \in Sent(t, j) : m \in Sent(s, j) \/ AskOK(m, s.id)
  PROVE  Early(t)
<1>1. 0 % N = 0 /\ 1 % N = 1
  BY SMTT(20)
<1>2. s.id = 0 => ~t.timer_running
  <2>1. s.id = 0 => is_primary(s)
    BY <1>1 DEF Early, is_primary, primary
  <2> QED BY <2>1 DEF Early, Tame
<1>3. s.id = 1 /\ <<1, 1>> \in DOMAIN s.view_change_store => ~t.timer_running
  <2>1. s.id = 1 /\ s.view = 1 => is_primary(s)
    BY <1>1 DEF is_primary, primary
  <2> QED BY <2>1 DEF Early, Tame
<1>4. \A j \in Replicas : \A m \in Sent(s, j) : AskOK(m, s.id)
  BY EarlySent DEF Early
<1>5. \A j \in Replicas : \A m \in Sent(t, j) : AskOK(m, t.id)
  BY <1>4
<1>6. \A j \in Replicas : \A k \in 1..Len(t.out[j]) : AskOK(t.out[j][k], t.id)
  BY <1>5, EarlySent
<1> QED
  BY <1>2, <1>3, <1>6 DEF Early

\* Any handler but the two of the view change.
LEMMA SteadyEarly ==
  ASSUME N = 4, NEW s, NEW t, Early(s), Steady(s, t), Tame(s, t)
  PROVE  Early(t)
<1>1. \A m : m.type \notin {"viewchange", "newview"} => AskOK(m, s.id)
  BY SMTT(20) DEF AskOK
<1>2. \A j \in Replicas : \A m \in Sent(t, j) : m \in Sent(s, j) \/ AskOK(m, s.id)
  BY <1>1 DEF Steady
<1> QED
  BY <1>2, EarlyFrame DEF Steady

\* Two replicas are no quorum.
LEMMA TwoAsk ==
  ASSUME N = 4, NEW s, NEW v,
         \A r \in Replicas : <<v, r>> \in DOMAIN s.view_change_store => r \in {2, 3}
  PROVE  Cardinality(Asking(s, v)) < 2 * f + 1
<1>1. PICK a : a = s.view_change_store[<<v, 2>>]
  OBVIOUS
<1>2. PICK b : b = s.view_change_store[<<v, 3>>]
  OBVIOUS
<1>3. Asking(s, v) \subseteq {a, b}
  BY <1>1, <1>2 DEF Asking
<1>4. IsFiniteSet({a, b}) /\ Cardinality({a, b}) <= 2
  <2>1. IsFiniteSet({a}) /\ Cardinality({a}) = 1
    BY SMTT(30), FS_Singleton
  <2>2. /\ IsFiniteSet({a} \cup {b})
        /\ Cardinality({a} \cup {b}) = 1 \/ Cardinality({a} \cup {b}) = 2
    BY SMTT(20), <2>1, FS_AddElement
  <2>3. {a} \cup {b} = {a, b}
    OBVIOUS
  <2> QED BY SMTT(20), <2>2, <2>3
<1>5. Cardinality(Asking(s, v)) <= 2 /\ Cardinality(Asking(s, v)) \in Nat
  <2>1. /\ IsFiniteSet(Asking(s, v))
        /\ Cardinality(Asking(s, v)) <= Cardinality({a, b})
    BY <1>3, <1>4, FS_Subset
  <2>2. Cardinality(Asking(s, v)) \in Nat /\ Cardinality({a, b}) \in Nat
    BY <1>4, <2>1, FS_CardinalityType
  <2> QED BY SMTT(20), <1>4, <2>1, <2>2
<1>6. f = 1
  BY SMTT(20) DEF f
<1> QED
  BY SMTT(20), <1>5, <1>6

\* A ViewChange, of another replica or the node's own.
LEMMA OnViewChangeEarly ==
  ASSUME N = 4, NEW s, Local(s), Early(s), NEW m \in ViewChange,
         CanAsk(m.next_view, m.replica_id),
         m.replica_id = s.id => s.view_changing /\ ~s.timer_running
  PROVE  Early(on_viewchange(s, m))
<1>0. PICK t : t = on_viewchange(s, m)
  OBVIOUS
<1>1. PICK v \in Nat : v = m.next_view
  BY SMTT(20) DEF ViewChange
<1>2. PICK q : q = m.replica_id
  OBVIOUS
<1>3. CASE t = s
  BY <1>0, <1>3
<1>4. CASE t # s
  <2>1. /\ v % N = s.id
        /\ \E u :
             /\ Local(u) /\ ViewChangeStored(s, m, u)
             /\ \/ t = u
                \/ /\ ~(Cardinality(Asking(u, v)) < 2 * f + 1)
                   /\ t = Settle(EnterView(broadcast(u, NewViewOf(u, v)), v))
    BY SMTT(20), <1>0, <1>1, <1>4, OnViewChangeSteps
  <2>2. PICK u : /\ Local(u) /\ ViewChangeStored(s, m, u)
                 /\ \/ t = u
                    \/ /\ ~(Cardinality(Asking(u, v)) < 2 * f + 1)
                       /\ t = Settle(EnterView(broadcast(u, NewViewOf(u, v)), v))
    BY <2>1
  <2>3. /\ u.id = s.id /\ u.view = s.view /\ u.view_changing = s.view_changing
        /\ u.out = s.out /\ u.timer_running = s.timer_running
    BY SMTT(20), <2>2, StoredFields
  <2>4. DOMAIN u.view_change_store = DOMAIN s.view_change_store \cup {<<v, q>>}
    BY ZenonT(40), <1>1, <1>2, <2>2 DEF ViewChangeStored, Put
  <2>5. \A x \in DOMAIN u.view_change_store : CanAsk(x[1], x[2])
    <3>1. CanAsk(<<v, q>>[1], <<v, q>>[2])
      BY ZenonT(40), <1>1, <1>2
    <3> QED BY <2>4, <3>1 DEF Early
  <2>6. s.id = 1 /\ <<1, 1>> \in DOMAIN u.view_change_store =>
          ~u.timer_running /\ (u.view_changing \/ u.view = 1)
    <3>1. CASE <<1, 1>> \in DOMAIN s.view_change_store
      BY <2>3, <3>1 DEF Early
    <3>2. CASE <<1, 1>> = <<v, q>>
      BY ZenonT(40), <1>2, <2>3, <3>2
    <3> QED BY <2>4, <3>1, <3>2
  <2>7. \A j \in Replicas : \A k \in 1..Len(u.out[j]) : AskOK(u.out[j][k], u.id)
    BY <2>3 DEF Early
  <2>8. Early(u)
    BY <2>3, <2>4, <2>5, <2>6, <2>7 DEF Early
  <2>9. CASE t = u
    BY <1>0, <2>8, <2>9
  <2>10. CASE /\ ~(Cardinality(Asking(u, v)) < 2 * f + 1)
              /\ t = Settle(EnterView(broadcast(u, NewViewOf(u, v)), v))
    <3>1. v = 1 /\ <<1, 1>> \in DOMAIN u.view_change_store
      <4> SUFFICES ASSUME v # 1 \/ <<1, 1>> \notin DOMAIN u.view_change_store
                   PROVE  FALSE
        OBVIOUS
      <4>1. ASSUME NEW r \in Replicas, <<v, r>> \in DOMAIN u.view_change_store
            PROVE  r \in {2, 3}
        <5>1. CanAsk(v, r)
          <6>1. <<v, r>>[1] = v /\ <<v, r>>[2] = r
            BY SMTT(20)
          <6> QED BY <2>5, <4>1, <6>1
        <5>2. ~(v = 1 /\ r = 1)
          BY <4>1
        <5>3. r \in 0..3
          BY SMTT(20) DEF Replicas
        <5> QED BY SMTT(20), <5>1, <5>2, <5>3 DEF CanAsk
      <4> QED BY <2>10, <4>1, TwoAsk
    <3>2. /\ t.view = v /\ ~t.view_changing /\ t.id = u.id
          /\ t.view_change_store = u.view_change_store /\ Quiet(u, t)
          /\ \A j \in Replicas : Sent(t, j) \subseteq Sent(u, j) \cup {NewViewOf(u, v)}
      <4>1. Local(u)
        BY <2>2
      <4>2. t = Settle(EnterView(broadcast(u, NewViewOf(u, v)), v))
        BY <2>10
      <4> QED BY <4>1, <4>2, NewViewSent
    <3>3. s.id = 1
      BY SMTT(20), <2>1, <3>1
    <3>4. ~t.timer_running
      BY <2>3, <2>8, <3>1, <3>2, <3>3 DEF Early, Quiet
    <3>5. AskOK(NewViewOf(u, v), u.id)
      BY SMTT(20), <3>1 DEF NewViewOf, NewViewMsg, AskOK
    <3>6. \A j \in Replicas : \A x \in Sent(u, j) : AskOK(x, u.id)
      BY <2>7, EarlySent
    <3>7. \A j \in Replicas : \A x \in Sent(t, j) : AskOK(x, t.id)
      BY <3>2, <3>5, <3>6
    <3>8. \A j \in Replicas : \A k \in 1..Len(t.out[j]) : AskOK(t.out[j][k], t.id)
      BY <3>7, EarlySent
    <3>9. t.view <= 1 /\ t.id = 1 /\ t.id # 0
      BY SMTT(20), <2>3, <3>1, <3>2, <3>3
    <3> QED BY <1>0, <2>5, <3>1, <3>2, <3>4, <3>8, <3>9 DEF Early
  <2> QED BY <2>2, <2>9, <2>10
<1> QED
  BY <1>3, <1>4

\* A timer expires: not at the primary of view 0, and not for a second time at
\* the primary of view 1.
LEMMA StartViewChangeEarly ==
  ASSUME N = 4, NEW s, Local(s), s.timer # Off, Early(s)
  PROVE  Early(start_view_change(s))
<1>1. PICK u : u = Leaving(s)
  OBVIOUS
<1>2. PICK vc : vc = AskOf(s)
  OBVIOUS
<1>3. PICK b : b = broadcast(u, vc)
  OBVIOUS
<1>4. /\ SameExcept(s, u, LeavingFields) /\ u.view_changing /\ ~u.timer_running
      /\ vc \in ViewChange /\ vc \in Message /\ Local(u) /\ Local(b)
      /\ start_view_change(s) = on_viewchange(b, vc)
  BY <1>1, <1>2, <1>3, StartViewChangeSteps
<1>5. s.timer_running /\ ~s.view_changing /\ s.id \in 0..3 /\ s.view \in Nat
  BY SMTT(20) DEF Local, IsNode, TimerOK, Replicas
<1>6. s.id # 0 /\ (s.id = 1 => s.view # 1 /\ <<1, 1>> \notin DOMAIN s.view_change_store)
  BY <1>5 DEF Early
<1>7. s.view <= 1
  BY DEF Early
<1>8. vc.next_view = s.view + 1 /\ vc.replica_id = s.id /\ vc.type = "viewchange"
  BY SMTT(20), <1>2 DEF AskOf, ViewChangeMsg
<1>9. CanAsk(vc.next_view, vc.replica_id)
  BY SMTT(20), <1>5, <1>6, <1>7, <1>8 DEF CanAsk
<1>10. AskOK(vc, s.id)
  <2>1. vc.type # "newview"
    BY SMTT(20), <1>8
  <2> QED BY <1>8, <1>9, <2>1 DEF AskOK
<1>11. /\ u.id = s.id /\ u.view = s.view /\ u.view_change_store = s.view_change_store
       /\ u.out = s.out
  BY SMTT(20), <1>4 DEF SameExcept, NodeFields, LeavingFields
<1>12. /\ SameExcept(u, b, {"out"})
       /\ \A j \in Replicas : b.out[j] = u.out[j] \/ b.out[j] = Append(u.out[j], vc)
  <2>1. b.out = [j \in Replicas |-> IF j = u.id THEN u.out[j] ELSE Append(u.out[j], vc)]
    BY <1>3, <1>4, BroadcastLocal
  <2>2. \A j \in Replicas : b.out[j] = u.out[j] \/ b.out[j] = Append(u.out[j], vc)
    BY <2>1
  <2> QED BY <1>3, <1>4, <2>2, BroadcastLocal
<1>13. /\ b.id = s.id /\ b.view = s.view /\ b.view_change_store = s.view_change_store
       /\ b.view_changing /\ ~b.timer_running
  <2>1. /\ b.id = u.id /\ b.view = u.view /\ b.view_change_store = u.view_change_store
        /\ b.view_changing = u.view_changing /\ b.timer_running = u.timer_running
    BY SMTT(20), <1>12 DEF SameExcept, NodeFields
  <2> QED BY <1>4, <1>11, <2>1
<1>14. \A j \in Replicas : \A m \in Sent(b, j) : AskOK(m, b.id)
  <2>1. \A j \in Replicas : Sent(b, j) \subseteq Sent(u, j) \cup {vc}
    BY <1>4, <1>12, AppendedSent
  <2>2. \A j \in Replicas : Sent(u, j) = Sent(s, j)
    BY <1>11 DEF Sent
  <2>3. \A j \in Replicas : \A m \in Sent(s, j) : AskOK(m, s.id)
    BY EarlySent DEF Early
  <2> QED BY <1>10, <1>13, <2>1, <2>2, <2>3
<1>15. \A j \in Replicas : \A k \in 1..Len(b.out[j]) : AskOK(b.out[j][k], b.id)
  BY <1>14, EarlySent
<1>16. Early(b)
  BY <1>6, <1>7, <1>13, <1>15 DEF Early
<1> QED
  BY <1>4, <1>8, <1>9, <1>13, <1>16, OnViewChangeEarly

\* A NewView: for view 1, and the backups 2 and 3 only accept it.
LEMMA OnNewViewEarly ==
  ASSUME N = 4, NEW s, Local(s), Early(s), NEW m \in NewView, m.next_view = 1,
         NEW src, src # s.id
  PROVE  Early(on_newview(s, m, src))
<1>1. PICK t : t = on_newview(s, m, src)
  OBVIOUS
<1>2. CASE t = s
  BY <1>1, <1>2
<1>3. CASE t # s
  <2>1. PICK e : e = EnterView(s, 1)
    OBVIOUS
  <2>2. PICK r : /\ IsInstallation(r, e, m.pre_prepares, Len(m.pre_prepares))
                 /\ t = Settle(r[Len(m.pre_prepares)])
    BY SMTT(20), <1>1, <1>3, <2>1, OnNewViewSteps
  <2>3. src = 1 % N /\ s.view_changing
    BY SMTT(20), <1>1, <1>3, OnNewViewSteps
  <2>4. s.id # 1 /\ s.id # 0
    <3>1. src = 1
      BY SMTT(20), <2>3
    <3> QED BY <2>3, <3>1 DEF Early
  <2>5. m.pre_prepares \in Seq(PrePrepare)
    BY SMTT(20) DEF NewView
  <2>6. 1 \in Nat /\ 1 <= 1
    BY SMTT(20)
  <2>7. /\ Local(e) /\ e.view = 1
        /\ e.id = s.id /\ e.view_change_store = s.view_change_store /\ e.out = s.out
    BY SMTT(20), <2>1, <2>6, EnterViewFields
  <2>8. PICK last : last = r[Len(m.pre_prepares)]
    OBVIOUS
  <2>9. Local(last) /\ Steady(e, last)
    BY <2>2, <2>5, <2>7, <2>8, InstallationSteady
  <2>10. /\ t.id = last.id /\ t.view = last.view /\ t.out = last.out
         /\ t.view_change_store = last.view_change_store
    BY SMTT(20), <2>2, <2>8, <2>9, SettleFields
  <2>11. /\ last.id = e.id /\ last.view = e.view
         /\ last.view_change_store = e.view_change_store
         /\ \A j \in Replicas : \A x \in Sent(last, j) :
              x \in Sent(e, j) \/ x.type \notin {"viewchange", "newview"}
    BY <2>9 DEF Steady
  <2>12. /\ t.id = s.id /\ t.view = 1 /\ t.view_change_store = s.view_change_store
    BY ZenonT(40), <2>7, <2>10, <2>11
  <2>13. \A j \in Replicas : \A x \in Sent(t, j) : AskOK(x, t.id)
    <3>1. \A j \in Replicas : Sent(t, j) = Sent(last, j) /\ Sent(e, j) = Sent(s, j)
      BY <2>7, <2>10 DEF Sent
    <3>2. \A x : x.type \notin {"viewchange", "newview"} => AskOK(x, s.id)
      BY SMTT(20) DEF AskOK
    <3>3. \A j \in Replicas : \A x \in Sent(s, j) : AskOK(x, s.id)
      BY EarlySent DEF Early
    <3> QED BY <2>11, <2>12, <3>1, <3>2, <3>3
  <2>14. \A j \in Replicas : \A k \in 1..Len(t.out[j]) : AskOK(t.out[j][k], t.id)
    BY <2>13, EarlySent
  <2> QED BY <1>1, <2>4, <2>6, <2>12, <2>14 DEF Early
<1> QED
  BY <1>2, <1>3

\* Every handler, for a message its sender may have sent.
LEMMA HandleEarly ==
  ASSUME N = 4, NEW s, Local(s), Early(s), NEW m \in Message, NEW src, src # s.id,
         AskOK(m, src)
  PROVE  Early(Handle(s, m, src))
<1>1. CASE m.type \notin {"viewchange", "newview"}
  BY <1>1, HandleSteady, SteadyEarly
<1>2. CASE m.type = "viewchange"
  <2>1. m \in ViewChange
    BY SMTT(20), <1>2 DEF Message, Request, PrePrepare, Vote, CheckpointVote, NewView
  <2>2. Handle(s, m, src) = on_viewchange(s, m)
    BY SMTT(20), <1>2 DEF Handle
  <2>3. m.replica_id = src /\ CanAsk(m.next_view, src)
    BY <1>2 DEF AskOK
  <2> QED BY <2>1, <2>2, <2>3, OnViewChangeEarly
<1>3. CASE m.type = "newview"
  <2>1. m \in NewView
    BY SMTT(20), <1>3 DEF Message, Request, PrePrepare, Vote, CheckpointVote, ViewChange
  <2>2. Handle(s, m, src) = on_newview(s, m, src)
    BY SMTT(20), <1>3 DEF Handle
  <2>3. m.next_view = 1
    BY <1>3 DEF AskOK
  <2> QED BY <2>1, <2>2, <2>3, OnNewViewEarly
<1> QED
  BY ZenonT(40), <1>1, <1>2, <1>3

=============================================================================
