----------------------------- MODULE ReplicaInv -----------------------------
(***************************************************************************)
(* What every handler of a node preserves, about the node alone.  It holds *)
(* between any two calls inside a handler, not only between handlers.      *)
(***************************************************************************)
EXTENDS Replica

\* A timer is pending only outside a view change, with the exponent 0.
TimerOK(s) ==
  /\ s.timer # Off => s.timer_running /\ ~s.view_changing /\ s.timer = 0
  /\ s.view_change_timeout_count = (IF s.view_changing THEN 1 ELSE 0)

\* A digest is either the hash of an accepted PrePrepare or still all zero, and
\* no Commit is counted before there is one.
EntryOK(e) ==
  IF e.has_preprepare THEN e.digest \in HashValue /\ e.stage # "NONE"
  ELSE e.digest = ZeroDigest /\ e.stage = "NONE" /\ e.commits = {}

Local(s) ==
  /\ IsNode(s)
  /\ DOMAIN s.reqlog \subseteq s.h .. H(s)
  /\ TimerOK(s)
  /\ Len(s.executed) = s.last_exec
  /\ \A n \in DOMAIN s.reqlog : EntryOK(s.reqlog[n])

-----------------------------------------------------------------------------
(* What a handler may do to its node. *)

\* Votes and executions are never taken back.
Grows(s, t) ==
  /\ t.id = s.id
  /\ s.voted \subseteq t.voted
  /\ Len(s.executed) <= Len(t.executed)
  /\ \A k \in 1..Len(s.executed) : t.executed[k] = s.executed[k]

-----------------------------------------------------------------------------
(* Replies. *)

\* Node s has executed a request of client c with this timestamp and result.
Done(s, c, timestamp, result) ==
  \E n \in 1..Len(s.executed) :
    /\ s.executed[n].req.client_id = c
    /\ s.executed[n].req.timestamp = timestamp
    /\ result = ServiceState(s, n)

\* Reply m is node s's own, and tells client c of an execution.
ReplyOK(s, c, m) == m.replica_id = s.id /\ Done(s, c, m.timestamp, m.result)

\* What node s has sent to clients, and what it would send again, was executed.
Answered(s) ==
  /\ \A c \in Clients : \A k \in 1..Len(s.replies[c]) :
       ReplyOK(s, c, s.replies[c][k])
  /\ \A c \in DOMAIN s.last_replies :
       Done(s, c, s.last_replies[c].timestamp, s.last_replies[c].result)

=============================================================================
