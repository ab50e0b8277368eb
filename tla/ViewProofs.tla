----------------------------- MODULE ViewProofs -----------------------------
(***************************************************************************)
(* The invariants of ViewInv, for every value of the constants the         *)
(* theorems allow.                                                         *)
(***************************************************************************)
EXTENDS ClusterProofs, ReplyProofs, NodeProofs

\* The prover, unless a proof or a step names another.
USE ZenonT(40)

(* Requests and their digests. *)

\* Matched, with the messages a node has sent as sets.
LEMMA MatchedSent ==
  ASSUME NEW s
  PROVE  Matched(s) <=>
           /\ Holds(s)
           /\ \A j \in Replicas : \A m \in Sent(s, j) : Faithful(m)
BY DEF Matched, Sent

\* Any handler but the two of the view change.
LEMMA LoyalMatched ==
  ASSUME NEW s, NEW t, Matched(s), Loyal(s, t)
  PROVE  Matched(t)
<1>1. Holds(s) /\ \A j \in Replicas : \A m \in Sent(s, j) : Faithful(m)
  BY MatchedSent
<1> QED
  BY <1>1, MatchedSent DEF Loyal

\* A new primary proposes the null request under every digest it chooses.
LEMMA NewViewFaithful ==
  ASSUME NEW u, Local(u), NEW v \in Nat
  PROVE  Faithful(NewViewOf(u, v))
<1>1. PICK V : V = Asking(u, v)
  OBVIOUS
<1>2. VSet(V)
  BY <1>1, AskingType
<1>3. PICK O : O = NewPrePrepares(v, V)
  OBVIOUS
<1>4. O \in Seq(PrePrepare)
  BY <1>2, <1>3, NewPrePreparesType
<1>5. ASSUME NEW k \in 1..Len(O) PROVE Matches(O[k].req_digest, O[k].req)
  <2>1. k \in DOMAIN O
    BY SMTT(20), <1>4
  <2>2. O[k] = PrePrepareMsg(v, MinS(V) + k, ChooseDigest(V, MinS(V) + k), NullReq)
    BY ZenonT(40), <1>3, <2>1 DEF NewPrePrepares
  <2>3. O[k].req = NullReq
    BY SMTT(20), <2>2 DEF PrePrepareMsg
  <2> QED BY <2>3 DEF Matches
<1>6. PICK nv : nv = NewViewOf(u, v)
  OBVIOUS
<1>7. nv.type = "newview" /\ nv.pre_prepares = O
  BY ZenonT(40), <1>1, <1>3, <1>6 DEF NewViewOf, NewViewMsg
<1>8. Faithful(nv)
  <2>1. nv.type # "preprepare"
    BY ZenonT(40), <1>7
  <2> QED BY <1>5, <1>7, <2>1 DEF Faithful
<1> QED
  BY <1>6, <1>8

\* A ViewChange.
LEMMA OnViewChangeMatched ==
  ASSUME NEW s, Local(s), Matched(s), NEW m \in ViewChange
  PROVE  Matched(on_viewchange(s, m))
<1>0. PICK t : t = on_viewchange(s, m)
  OBVIOUS
<1>1. PICK v \in Nat : v = m.next_view
  BY SMTT(20) DEF ViewChange
<1>2. CASE t = s
  BY <1>0, <1>2
<1>3. CASE t # s
  <2>1. \E u :
          /\ Local(u) /\ ViewChangeStored(s, m, u)
          /\ \/ t = u
             \/ t = Settle(EnterView(broadcast(u, NewViewOf(u, v)), v))
    BY SMTT(20), <1>0, <1>1, <1>3, OnViewChangeSteps
  <2>2. PICK u : /\ Local(u) /\ ViewChangeStored(s, m, u)
                 /\ \/ t = u
                    \/ t = Settle(EnterView(broadcast(u, NewViewOf(u, v)), v))
    BY <2>1
  <2>3. u.reqlog = s.reqlog /\ u.executed = s.executed /\ u.out = s.out
    BY SMTT(20), <2>2, StoredFields
  <2>4. Holds(s) /\ \A j \in Replicas : \A x \in Sent(s, j) : Faithful(x)
    BY MatchedSent
  <2>5. Holds(u)
    BY <2>3, <2>4 DEF Holds
  <2>6. \A j \in Replicas : \A x \in Sent(u, j) : Faithful(x)
    BY <2>3, <2>4 DEF Sent
  <2>7. CASE t = u
    BY <1>0, <2>5, <2>6, <2>7, MatchedSent
  <2>8. CASE t = Settle(EnterView(broadcast(u, NewViewOf(u, v)), v))
    <3>0. Local(u)
      BY <2>2
    <3>1. /\ t.reqlog = u.reqlog /\ t.executed = u.executed
          /\ \A j \in Replicas : Sent(t, j) \subseteq Sent(u, j) \cup {NewViewOf(u, v)}
      BY <2>8, <3>0, NewViewSent
    <3>2. \A j \in Replicas : \A x \in Sent(t, j) : Faithful(x)
      BY <2>6, <3>0, <3>1, NewViewFaithful
    <3>3. Holds(t)
      BY <2>5, <3>1 DEF Holds
    <3> QED BY <1>0, <3>2, <3>3, MatchedSent
  <2> QED BY <2>2, <2>7, <2>8
<1> QED
  BY <1>2, <1>3

\* A node that asks for a view change.
LEMMA StartViewChangeMatched ==
  ASSUME NEW s, Local(s), s.timer # Off, Matched(s)
  PROVE  Matched(start_view_change(s))
<1>1. PICK u : u = Leaving(s)
  OBVIOUS
<1>2. PICK vc : vc = AskOf(s)
  OBVIOUS
<1>3. PICK b : b = broadcast(u, vc)
  OBVIOUS
<1>4. /\ SameExcept(s, u, LeavingFields)
      /\ vc \in ViewChange /\ vc \in Message /\ Local(u) /\ Local(b)
      /\ start_view_change(s) = on_viewchange(b, vc)
  BY <1>1, <1>2, <1>3, StartViewChangeSteps
<1>5. Holds(s) /\ \A j \in Replicas : \A x \in Sent(s, j) : Faithful(x)
  BY MatchedSent
<1>6. vc.type = "viewchange"
  BY ZenonT(40), <1>2 DEF AskOf, ViewChangeMsg
<1>7. Faithful(vc)
  <2>1. vc.type \notin {"preprepare", "newview"}
    BY ZenonT(40), <1>6
  <2> QED BY <2>1 DEF Faithful
<1>8. u.reqlog = s.reqlog /\ u.executed = s.executed /\ u.out = s.out
  BY ZenonT(40), <1>4 DEF SameExcept, NodeFields, LeavingFields
<1>9. /\ SameExcept(u, b, {"out"})
      /\ \A j \in Replicas : b.out[j] = u.out[j] \/ b.out[j] = Append(u.out[j], vc)
  <2>1. b.out = [j \in Replicas |-> IF j = u.id THEN u.out[j] ELSE Append(u.out[j], vc)]
    BY <1>3, <1>4, BroadcastLocal
  <2>2. \A j \in Replicas : b.out[j] = u.out[j] \/ b.out[j] = Append(u.out[j], vc)
    BY <2>1
  <2> QED BY <1>3, <1>4, <2>2, BroadcastLocal
<1>10. b.reqlog = s.reqlog /\ b.executed = s.executed
  BY ZenonT(40), <1>8, <1>9 DEF SameExcept, NodeFields
<1>11. Holds(b)
  BY <1>5, <1>10 DEF Holds
<1>12. \A j \in Replicas : \A x \in Sent(b, j) : Faithful(x)
  <2>1. \A j \in Replicas : Sent(b, j) \subseteq Sent(u, j) \cup {vc}
    BY <1>4, <1>9, AppendedSent
  <2>2. \A j \in Replicas : Sent(u, j) = Sent(s, j)
    BY <1>8 DEF Sent
  <2> QED BY <1>5, <1>7, <2>1, <2>2
<1>13. Matched(b)
  BY <1>11, <1>12, MatchedSent
<1> QED
  BY <1>4, <1>13, OnViewChangeMatched

\* A NewView whose PrePrepares go with their digests.
LEMMA OnNewViewMatched ==
  ASSUME NEW s, Local(s), Matched(s), NEW m \in NewView, NEW src,
         \A k \in 1..Len(m.pre_prepares) :
           Matches(m.pre_prepares[k].req_digest, m.pre_prepares[k].req)
  PROVE  Matched(on_newview(s, m, src))
<1>1. PICK t : t = on_newview(s, m, src)
  OBVIOUS
<1>2. CASE t = s
  BY <1>1, <1>2
<1>3. CASE t # s
  <2>0. PICK v \in Nat : v = m.next_view
    BY SMTT(20) DEF NewView
  <2>1. PICK e : e = EnterView(s, v)
    OBVIOUS
  <2>2. PICK r : /\ IsInstallation(r, e, m.pre_prepares, Len(m.pre_prepares))
                 /\ t = Settle(r[Len(m.pre_prepares)])
    BY SMTT(20), <1>1, <1>3, <2>0, <2>1, OnNewViewSteps
  <2>3. m.pre_prepares \in Seq(PrePrepare)
    BY ZenonT(40) DEF NewView
  <2>4. /\ Local(e) /\ e.reqlog = s.reqlog /\ e.executed = s.executed
        /\ e.out = s.out
    BY SMTT(20), <2>1, EnterViewFields
  <2>5. Matched(e)
    BY <2>4 DEF Matched, Holds
  <2>6. PICK last : last = r[Len(m.pre_prepares)]
    OBVIOUS
  <2>7. Local(last) /\ Loyal(e, last)
    BY <2>2, <2>3, <2>4, <2>6, InstallationSteady
  <2>8. Matched(last)
    BY <2>5, <2>7, LoyalMatched
  <2>9. t.reqlog = last.reqlog /\ t.executed = last.executed /\ t.out = last.out
    BY ZenonT(40), <2>2, <2>6, <2>7, SettleFields
  <2> QED BY <1>1, <2>8, <2>9 DEF Matched, Holds
<1> QED
  BY <1>2, <1>3

\* Every handler, for a faithful message.
LEMMA HandleMatched ==
  ASSUME NEW s, Local(s), Matched(s), NEW m \in Message, NEW src, src # s.id,
         Faithful(m)
  PROVE  Matched(Handle(s, m, src))
<1>1. CASE m.type \notin {"viewchange", "newview"}
  BY <1>1, HandleSteady, LoyalMatched
<1>2. CASE m.type = "viewchange"
  <2>1. m \in ViewChange
    BY ZenonT(40), <1>2 DEF Message, Request, PrePrepare, Vote, CheckpointVote, NewView
  <2>2. Handle(s, m, src) = on_viewchange(s, m)
    BY ZenonT(40), <1>2 DEF Handle
  <2> QED BY <2>1, <2>2, OnViewChangeMatched
<1>3. CASE m.type = "newview"
  <2>1. m \in NewView
    BY ZenonT(40), <1>3 DEF Message, Request, PrePrepare, Vote, CheckpointVote, ViewChange
  <2>2. Handle(s, m, src) = on_newview(s, m, src)
    BY ZenonT(40), <1>3 DEF Handle
  <2>3. \A k \in 1..Len(m.pre_prepares) :
          Matches(m.pre_prepares[k].req_digest, m.pre_prepares[k].req)
    BY <1>3 DEF Faithful
  <2> QED BY <2>1, <2>2, <2>3, OnNewViewMatched
<1> QED
  BY ZenonT(40), <1>1, <1>2, <1>3

-----------------------------------------------------------------------------
(* Timers and checkpoint votes. *)

\* A node keeps what NodeInv says of it when messages of its own are gone.
LEMMA ShrunkKeeps ==
  ASSUME NEW t, NEW u, Shrunk(t, u)
  PROVE  /\ Armed(t) => Armed(u)
         /\ Counted(t) => Counted(u)
         /\ Early(t) => Early(u)
         /\ Matched(t) => Matched(u)
<1>1. /\ u.id = t.id /\ u.view = t.view /\ u.view_changing = t.view_changing
      /\ u.timer = t.timer /\ u.timer_running = t.timer_running
      /\ u.last_exec = t.last_exec /\ u.reqlog = t.reqlog
      /\ u.h = t.h /\ u.checkpoints = t.checkpoints /\ u.executed = t.executed
      /\ u.view_change_store = t.view_change_store
  BY SMTT(20) DEF Shrunk, SameExcept, NodeFields
<1>2. SameEntries(t, u)
  BY <1>1 DEF SameEntries
<1>3. \A j \in Replicas : \A m \in Sent(u, j) : m \in Sent(t, j)
  BY DEF Shrunk
<1>4. Armed(t) => Armed(u)
  BY <1>1, <1>2, ArmedSame
<1>5. Counted(t) => Counted(u)
  BY <1>1, CountedSame
<1>6. ASSUME Early(t) PROVE Early(u)
  <2>1. \A j \in Replicas : \A k \in 1..Len(u.out[j]) : AskOK(u.out[j][k], u.id)
    <3>1. \A j \in Replicas : \A m \in Sent(t, j) : AskOK(m, t.id)
      BY <1>6, EarlySent DEF Early
    <3>2. \A j \in Replicas : \A m \in Sent(u, j) : AskOK(m, u.id)
      BY <1>1, <1>3, <3>1
    <3> QED BY <3>2, EarlySent
  <2> QED BY <1>1, <1>6, <2>1 DEF Early
<1>7. ASSUME Matched(t) PROVE Matched(u)
  <2>1. Holds(t) => Holds(u)
    BY <1>1, <1>2, HoldsSame
  <2>2. Loyal(t, u)
    BY <1>3, <2>1 DEF Loyal
  <2> QED BY <1>1, <1>7, <2>2, LoyalMatched
<1> QED
  BY <1>4, <1>5, <1>6, <1>7

\* A node that runs a handler.
LEMMA RunsArmed ==
  ASSUME NEW i \in Correct, Local(node[i]), node[i].id = i, NEW t, Runs(i, t)
  PROVE  (Armed(node[i]) => Armed(t)) /\ (Counted(node[i]) => Counted(t))
<1>1. ASSUME NEW src \in Replicas, NEW m \in Message, src # i, t = Handle(node[i], m, src)
      PROVE  (Armed(node[i]) => Armed(t)) /\ (Counted(node[i]) => Counted(t))
  BY <1>1, HandleArmed
<1>2. ASSUME NEW req \in Request, t = on_request(node[i], req)
      PROVE  (Armed(node[i]) => Armed(t)) /\ (Counted(node[i]) => Counted(t))
  BY <1>2, OnRequestSteady DEF Steady
<1>3. ASSUME node[i].timer # Off, t = start_view_change(node[i])
      PROVE  (Armed(node[i]) => Armed(t)) /\ (Counted(node[i]) => Counted(t))
  BY <1>3, StartViewChangeArmed
<1> QED
  BY <1>1, <1>2, <1>3 DEF Runs

\* A step of the cluster.
LEMMA NextArmed ==
  ASSUME WellFormed, [Next]_vars
  PROVE  (AllArmed => AllArmed') /\ (AllCounted => AllCounted')
<1>1. ASSUME NEW i \in Correct
      PROVE  /\ Armed(node[i]) => Armed(node'[i])
             /\ Counted(node[i]) => Counted(node'[i])
  <2>1. i \in Replicas /\ Local(node[i]) /\ node[i].id = i
    BY DEF WellFormed, Correct
  <2>2. PICK t : Shrunk(t, node'[i]) /\ (t = node[i] \/ Runs(i, t))
    BY <2>1, NextTurns DEF Turn
  <2>3. (Armed(node[i]) => Armed(t)) /\ (Counted(node[i]) => Counted(t))
    BY <2>1, <2>2, RunsArmed
  <2> QED BY <2>2, <2>3, ShrunkKeeps
<1> QED
  BY <1>1 DEF AllArmed, AllCounted, Correct

\* No checkpoint above the low watermark is marked stable, and none holds a
\* quorum of votes but one that the node's own vote completed: the inductive
\* invariant behind QuorumOverlooked (make_checkpoint, on_checkpoint).
THEOREM CountsKept == Spec => []AllCounted
<1>1. Init => AllCounted
  <2> SUFFICES ASSUME Init, NEW i \in Correct PROVE Counted(node[i])
    BY DEF AllCounted
  <2>1. node[i].checkpoints = EmptyMap
    BY FirstNodes DEF Fresh, Correct
  <2>2. DOMAIN EmptyMap = {}
    BY ZenonT(40) DEF EmptyMap
  <2> QED BY <2>1, <2>2 DEF Counted
<1>2. WellFormed /\ AllCounted /\ [Next]_vars => AllCounted'
  BY NextArmed
<1> QED
  BY <1>1, <1>2, AlwaysWellFormed, PTL DEF Spec

\* A node overlooks a quorum of checkpoint votes only if its own vote completes
\* it, for any number of replicas and whatever the faulty ones send
\* (make_checkpoint, on_checkpoint, try_execute).
THEOREM OverlookedIsOwn == Spec => []QuorumOverlooked
<1>1. WellFormed /\ AllCounted => QuorumOverlooked
  <2> SUFFICES ASSUME WellFormed, AllCounted, NEW i \in Correct,
                      NEW n \in DOMAIN node[i].checkpoints, n > node[i].h
               PROVE  LET cp == node[i].checkpoints[n]
                      IN  \A x \in cp.votes :
                            Cardinality(Voters(cp, x[1])) >= 2 * f + 1 =>
                              /\ Cardinality(Voters(cp, x[1])) = 2 * f + 1
                              /\ i \in Voters(cp, x[1])
    BY DEF QuorumOverlooked
  <2>1. node[i].id = i
    BY DEF WellFormed, Correct
  <2>2. Short(node[i].checkpoints[n], i)
    BY <2>1 DEF AllCounted, Counted
  <2> QED BY <2>2 DEF Short
<1> QED
  BY <1>1, CountsKept, AlwaysWellFormed, PTL

\* If the constructor leaves timer_running_ false, it tells, outside a view change,
\* whether a timer is pending, and a backup that waits for a request has one: the
\* inductive invariant behind PendingHasTimer (manage_timer, stop_timer).
THEOREM TimersKept ==
  ASSUME TimerInit \subseteq {FALSE}
  PROVE  Spec => []AllArmed
<1>1. Init => AllArmed
  <2> SUFFICES ASSUME Init, NEW i \in Correct PROVE Armed(node[i])
    BY DEF AllArmed
  <2>1. i \in Replicas
    BY DEF Correct
  <2>2. Fresh(node[i], i) /\ node[i].timer_running \in TimerInit
    BY <2>1, FirstNodes
  <2>3. ~node[i].timer_running
    BY <2>2
  <2>4. node[i].reqlog = EmptyMap
    BY <2>2 DEF Fresh
  <2>5. DOMAIN EmptyMap = {}
    BY ZenonT(40) DEF EmptyMap
  <2>6. ~is_waiting_for_request(node[i])
    BY <2>4, <2>5 DEF is_waiting_for_request
  <2> QED BY <2>3, <2>6 DEF Armed
<1>2. WellFormed /\ AllArmed /\ [Next]_vars => AllArmed'
  BY NextArmed
<1> QED
  BY <1>1, <1>2, AlwaysWellFormed, PTL DEF Spec

\* Until its first view change, a backup that has accepted a request and not
\* executed it has a timer pending, if the constructor leaves timer_running_
\* false: for any number of replicas, any order of messages and whatever the
\* faulty replicas send (on_preprepare_impl, manage_timer, try_execute).
THEOREM PendingIsTimed ==
  ASSUME TimerInit \subseteq {FALSE}
  PROVE  Spec => []PendingHasTimer
<1>1. WellFormed /\ AllArmed => PendingHasTimer
  BY DEF WellFormed, AllArmed, Armed, PendingHasTimer
<1>2. Spec => []AllArmed
  BY TimersKept
<1> QED
  BY <1>1, <1>2, AlwaysWellFormed, PTL

-----------------------------------------------------------------------------
(* Views and requests. *)

\* What a node receives is what a correct node sent or a faulty one may send.
LEMMA ReceivedEarly ==
  ASSUME WellFormed, AllEarly, \A x \in FaultyMessages : AskOK(x[2], x[1]),
         NEW i \in Replicas, NEW src, NEW m, Received(i, m, src)
  PROVE  AskOK(m, src)
<1>1. CASE src \in Correct /\ m \in Sent(node[src], i)
  <2>1. Early(node[src]) /\ node[src].id = src
    BY <1>1 DEF AllEarly, WellFormed, Correct
  <2>2. \A j \in Replicas : \A l \in Sent(node[src], j) : AskOK(l, src)
    BY <2>1, EarlySent DEF Early
  <2> QED BY <1>1, <2>2
<1>2. CASE \E x \in FaultyMessages : x[1] = src /\ x[2] = m
  BY <1>2
<1> QED
  BY <1>1, <1>2 DEF Received

\* A node that runs a handler, one of four.
LEMMA RunsEarly ==
  ASSUME N = 4, WellFormed, AllEarly, \A x \in FaultyMessages : AskOK(x[2], x[1]),
         NEW i \in Correct, NEW t, Runs(i, t)
  PROVE  Early(t)
<1>0. i \in Replicas /\ Local(node[i]) /\ node[i].id = i /\ Early(node[i])
  BY DEF WellFormed, AllEarly, Correct
<1>1. ASSUME NEW src \in Replicas, NEW m \in Message, src # i, Received(i, m, src),
             t = Handle(node[i], m, src)
      PROVE  Early(t)
  <2>1. AskOK(m, src)
    BY <1>0, <1>1, ReceivedEarly
  <2> QED BY <1>0, <1>1, <2>1, HandleEarly
<1>2. ASSUME NEW req \in Request, t = on_request(node[i], req) PROVE Early(t)
  <2>1. Steady(node[i], t) /\ Tame(node[i], t)
    BY <1>0, <1>2, OnRequestSteady
  <2> QED BY <1>0, <2>1, SteadyEarly
<1>3. ASSUME node[i].timer # Off, t = start_view_change(node[i]) PROVE Early(t)
  BY <1>0, <1>3, StartViewChangeEarly
<1> QED
  BY <1>1, <1>2, <1>3 DEF Runs

\* Of four nodes only replicas 2 and 3 ever ask for view 2, one too few: the
\* inductive invariant behind OneViewChange, if timer_running_ starts false and a
\* faulty replica asks only for the views a correct replica in its place could
\* ask for, and announces no view but the first (start_view_change, on_newview).
THEOREM AsksKept ==
  ASSUME N = 4, TimerInit \subseteq {FALSE},
         \A x \in FaultyMessages : AskOK(x[2], x[1])
  PROVE  Spec => []AllEarly
<1>1. Init => AllEarly
  <2> SUFFICES ASSUME Init, NEW i \in Correct PROVE Early(node[i])
    BY DEF AllEarly
  <2>1. i \in Replicas
    BY DEF Correct
  <2>2. /\ Fresh(node[i], i) /\ node[i].view_changing = FALSE
        /\ node[i].timer_running \in TimerInit
    BY <2>1, FirstNodes
  <2>3. ~node[i].timer_running /\ ~node[i].view_changing
    BY <2>2
  <2>4. /\ node[i].view = 0 /\ node[i].view_change_store = EmptyMap
        /\ node[i].out = [j \in Replicas |-> <<>>]
    BY <2>2 DEF Fresh
  <2>5. DOMAIN EmptyMap = {}
    BY ZenonT(40) DEF EmptyMap
  <2>6. node[i].view <= 1 /\ node[i].view # 1
    BY SMTT(20), <2>4
  <2>7. \A j \in Replicas : \A k \in 1..Len(node[i].out[j]) : FALSE
    BY SMTT(20), <2>4
  <2> QED BY <2>3, <2>4, <2>5, <2>6, <2>7 DEF Early
<1>2. WellFormed /\ AllEarly /\ [Next]_vars => AllEarly'
  <2> SUFFICES ASSUME WellFormed, AllEarly, [Next]_vars, NEW i \in Correct
               PROVE  Early(node'[i])
    BY DEF AllEarly, Correct
  <2>1. i \in Replicas /\ Early(node[i])
    BY DEF AllEarly, Correct
  <2>2. PICK t : Shrunk(t, node'[i]) /\ (t = node[i] \/ Runs(i, t))
    BY <2>1, NextTurns DEF Turn
  <2>3. Early(t)
    BY <2>1, <2>2, RunsEarly
  <2> QED BY <2>2, <2>3, ShrunkKeeps
<1> QED
  BY <1>1, <1>2, AlwaysWellFormed, PTL DEF Spec

\* Four nodes leave view 0 for view 1 at most, under the conditions of AsksKept:
\* whatever else a faulty replica sends, and in whatever order timers expire,
\* messages arrive and replicas stop (start_view_change, on_viewchange,
\* on_newview).
THEOREM ViewsEndAtOne ==
  ASSUME N = 4, TimerInit \subseteq {FALSE},
         \A x \in FaultyMessages : AskOK(x[2], x[1])
  PROVE  Spec => []OneViewChange
<1>1. AllEarly => OneViewChange
  BY DEF AllEarly, Early, OneViewChange
<1>2. Spec => []AllEarly
  BY AsksKept
<1> QED
  BY <1>1, <1>2, PTL

\* What a node receives from a correct node goes with its digests.
LEMMA ReceivedFaithful ==
  ASSUME AllMatched, \A x \in FaultyMessages : Faithful(x[2]),
         NEW i \in Replicas, NEW src, NEW m, Received(i, m, src)
  PROVE  Faithful(m)
<1>1. CASE src \in Correct /\ m \in Sent(node[src], i)
  <2>1. Matched(node[src])
    BY <1>1 DEF AllMatched
  <2>2. \A j \in Replicas : \A l \in Sent(node[src], j) : Faithful(l)
    BY <2>1, MatchedSent
  <2> QED BY <1>1, <2>2
<1>2. CASE \E x \in FaultyMessages : x[1] = src /\ x[2] = m
  BY <1>2
<1> QED
  BY <1>1, <1>2 DEF Received

\* A node that runs a handler.
LEMMA RunsMatched ==
  ASSUME WellFormed, AllMatched, \A x \in FaultyMessages : Faithful(x[2]),
         NEW i \in Correct, NEW t, Runs(i, t)
  PROVE  Matched(t)
<1>0. i \in Replicas /\ Local(node[i]) /\ node[i].id = i /\ Matched(node[i])
  BY DEF WellFormed, AllMatched, Correct
<1>1. ASSUME NEW src \in Replicas, NEW m \in Message, src # i, Received(i, m, src),
             t = Handle(node[i], m, src)
      PROVE  Matched(t)
  <2>1. Faithful(m)
    BY <1>0, <1>1, ReceivedFaithful
  <2> QED BY <1>0, <1>1, <2>1, HandleMatched
<1>2. ASSUME NEW req \in Request, t = on_request(node[i], req) PROVE Matched(t)
  <2>1. Loyal(node[i], t)
    BY <1>0, <1>2, OnRequestSteady
  <2> QED BY <1>0, <2>1, LoyalMatched
<1>3. ASSUME node[i].timer # Off, t = start_view_change(node[i]) PROVE Matched(t)
  BY <1>0, <1>3, StartViewChangeMatched
<1> QED
  BY <1>1, <1>2, <1>3 DEF Runs

\* Under every digest a correct node logs, executes or proposes that digest's
\* request or the null request, in every view and for any number of replicas, if
\* the proposals of the faulty replicas do so too, which no handler tests
\* (on_preprepare_impl, on_viewchange, on_newview).
THEOREM MatchesKept ==
  ASSUME \A x \in FaultyMessages : Faithful(x[2])
  PROVE  Spec => []AllMatched
<1>1. Init => AllMatched
  <2> SUFFICES ASSUME Init, NEW i \in Correct PROVE Matched(node[i])
    BY DEF AllMatched
  <2>1. i \in Replicas
    BY DEF Correct
  <2>2. Fresh(node[i], i)
    BY <2>1, FirstNodes
  <2>3. /\ node[i].reqlog = EmptyMap /\ node[i].executed = <<>>
        /\ node[i].out = [j \in Replicas |-> <<>>]
    BY <2>2 DEF Fresh
  <2>4. DOMAIN EmptyMap = {}
    BY SMTT(20) DEF EmptyMap
  <2>5. /\ \A j \in Replicas : \A k \in 1..Len(node[i].out[j]) : FALSE
        /\ \A n \in 1..Len(node[i].executed) : FALSE
    BY SMTT(20), <2>3
  <2> QED BY <2>3, <2>4, <2>5 DEF Matched, Holds
<1>2. WellFormed /\ AllMatched /\ [Next]_vars => AllMatched'
  <2> SUFFICES ASSUME WellFormed, AllMatched, [Next]_vars, NEW i \in Correct
               PROVE  Matched(node'[i])
    BY DEF AllMatched, Correct
  <2>1. i \in Replicas /\ Matched(node[i])
    BY DEF AllMatched, Correct
  <2>2. PICK t : Shrunk(t, node'[i]) /\ (t = node[i] \/ Runs(i, t))
    BY <2>1, NextTurns DEF Turn
  <2>3. Matched(t)
    BY <2>1, <2>2, RunsMatched
  <2> QED BY <2>2, <2>3, ShrunkKeeps
<1> QED
  BY <1>1, <1>2, AlwaysWellFormed, PTL DEF Spec

\* Two correct nodes execute the same request at a sequence number, or one of
\* them the null request, except where Agreement has its exception: in every view,
\* for any number of replicas and under the condition of MatchesKept
\* (try_execute, on_viewchange).
THEOREM RequestsAgreed ==
  ASSUME \A x \in FaultyMessages : Faithful(x[2])
  PROVE  Spec => []RequestsAgree
<1>1. AllMatched /\ Agreement => RequestsAgree
  <2> SUFFICES ASSUME AllMatched, Agreement, NEW i \in Correct, NEW j \in Correct,
                      NEW n \in 1..Len(node[i].executed) \cap 1..Len(node[j].executed),
                      NEW a, a = node[i].executed[n].req,
                      NEW b, b = node[j].executed[n].req
               PROVE  \/ a = b \/ a = NullReq \/ b = NullReq
                      \/ n % K = 0 /\ \E q \in Correct : n <= node[q].h
    BY DEF RequestsAgree
  <2>1. /\ a = NullReq \/ node[i].executed[n].digest = get_hash(a)
        /\ b = NullReq \/ node[j].executed[n].digest = get_hash(b)
    BY DEF AllMatched, Matched, Holds, Matches
  <2>2. get_hash(a) = get_hash(b) => a = b
    BY SMTT(20) DEF get_hash
  <2> QED BY <2>1, <2>2 DEF Agreement
<1>2. Spec => []AllMatched
  BY MatchesKept
<1> QED
  BY <1>1, <1>2, AgreementHolds, PTL

=============================================================================
