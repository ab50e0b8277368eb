------------------------------ MODULE NodeInv -------------------------------
(***************************************************************************)
(* What a node keeps about its timer, its checkpoint votes, its view and   *)
(* its requests.  Each predicate is about node s alone, with the messages  *)
(* it has sent, so that a handler keeps it whatever the other nodes do.    *)
(***************************************************************************)
EXTENDS ReplicaInv

\* In view 0 a backup that thinks its timer runs has one pending, and a backup
\* that waits for a request thinks so.  A backup leaves view 0 for good.
Armed(s) ==
  ~is_primary(s) /\ ~s.view_changing /\ s.view = 0 =>
    /\ s.timer_running => s.timer # Off
    /\ is_waiting_for_request(s) => s.timer_running

\* At most 2f + 1 equal votes, and if so many, one of them is node i's own.
Short(cp, i) ==
  /\ ~cp.stable
  /\ \A x \in cp.votes :
       Cardinality(Voters(cp, x[1])) >= 2 * f + 1 =>
         Cardinality(Voters(cp, x[1])) = 2 * f + 1 /\ i \in Voters(cp, x[1])

Counted(s) ==
  \A n \in DOMAIN s.checkpoints : n > s.h => Short(s.checkpoints[n], s.id)

-----------------------------------------------------------------------------
(* Four nodes. *)

\* Replica r may ask for view v.  The primary of view 0 arms no timer, and the
\* primary of view 1 no second one.
CanAsk(v, r) == (v = 1 /\ r # 0) \/ (v = 2 /\ r \in {2, 3})

\* What node i may have sent about views.
AskOK(m, i) ==
  /\ m.type = "viewchange" => m.replica_id = i /\ CanAsk(m.next_view, i)
  /\ m.type = "newview" => m.next_view = 1

\* The primary of view 0 stays there and the primary of view 1 enters it only
\* with its own ViewChange, after which its timer stays off.
Early(s) ==
  /\ s.view <= 1
  /\ s.id = 0 => s.view = 0 /\ ~s.view_changing /\ ~s.timer_running
  /\ s.id = 1 =>
       /\ s.view = 1 => <<1, 1>> \in DOMAIN s.view_change_store
       /\ <<1, 1>> \in DOMAIN s.view_change_store =>
            ~s.timer_running /\ (s.view_changing \/ s.view = 1)
  /\ \A x \in DOMAIN s.view_change_store : CanAsk(x[1], x[2])
  /\ \A j \in Replicas : \A k \in 1..Len(s.out[j]) : AskOK(s.out[j][k], s.id)

-----------------------------------------------------------------------------

\* The null request may stand for any other.
Matches(digest, req) == req = NullReq \/ digest = get_hash(req)

\* A message that proposes each digest with its own request or the null request.
Faithful(m) ==
  /\ m.type = "preprepare" => Matches(m.req_digest, m.req)
  /\ m.type = "newview" => \A k \in 1..Len(m.pre_prepares) :
       Matches(m.pre_prepares[k].req_digest, m.pre_prepares[k].req)

\* What the log holds and what was executed.
Holds(s) ==
  /\ \A n \in DOMAIN s.reqlog : s.reqlog[n].has_preprepare =>
       Matches(s.reqlog[n].digest, s.reqlog[n].req)
  /\ \A n \in 1..Len(s.executed) : Matches(s.executed[n].digest, s.executed[n].req)

Matched(s) ==
  /\ Holds(s)
  /\ \A j \in Replicas : \A k \in 1..Len(s.out[j]) : Faithful(s.out[j][k])

=============================================================================
