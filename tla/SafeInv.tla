------------------------------ MODULE SafeInv -------------------------------
(***************************************************************************)
(* What every handler of a node preserves about the node and its peers:    *)
(* Safe(s, nd, C), where nd[q] is replica q's node and C the set of        *)
(* correct replicas.  It holds between any two calls inside a handler, not *)
(* only between handlers.                                                  *)
(***************************************************************************)
EXTENDS ReplicaInv

\* Replica q as node s and its peers nd see it; s itself may be mid-handler.
Peer(s, nd, q) == IF q = s.id THEN s ELSE nd[q]

\* Node p was in state `digest' after n requests.
Reached(p, n, digest) ==
  n <= Len(p.executed) /\ digest = ServiceState(p, n)

\* The replicas that, if correct, have broadcast Commit for the digest at n.
Committers(s, nd, C, n, digest) ==
  {q \in Replicas : q \in C => <<n, digest>> \in Peer(s, nd, q).voted}

\* The replicas that, if correct, were in that state after n requests.
Attesters(s, nd, C, n, digest) ==
  {q \in Replicas : q \in C => Reached(Peer(s, nd, q), n, digest)}

\* A message of node p is backed by what p did.
MessageOK(m, p) ==
  /\ m.type = "commit" =>
       m.replica_id = p.id /\ <<m.seq_num, m.req_digest>> \in p.voted
  /\ m.type = "checkpoint" =>
       /\ m.replica_id = p.id
       /\ m.seq_num % K = 0
       /\ Reached(p, m.seq_num, m.state_digest)

\* The primary's seq_num_ has reached every number it holds a PrePrepare for.
SeqNumOK(s) ==
  is_primary(s) => \A n \in DOMAIN s.reqlog :
    s.reqlog[n].has_preprepare => n <= s.seq_num

\* Commits counted for an entry are for its digest; 2f + 1 committed it.
CommitsOK(s, nd, C) ==
  \A n \in DOMAIN s.reqlog :
    LET e == s.reqlog[n]
    IN  /\ e.commits \subseteq Committers(s, nd, C, n, e.digest)
        /\ e.stage = "COMMITTED" => Cardinality(e.commits) >= 2 * f + 1

\* A Commit is for the digest the log holds, until the log forgets it.
VotedOK(s) ==
  /\ \A x \in s.voted : \/ x[1] <= s.h
                        \/ /\ x[1] \in DOMAIN s.reqlog
                           /\ s.reqlog[x[1]].has_preprepare
                           /\ s.reqlog[x[1]].digest = x[2]
  /\ \A x, y \in s.voted :
       x[1] = y[1] /\ x[2] # y[2] => x[1] % K = 0 /\ x[1] <= s.h

ExecutedOK(s, nd, C) ==
  \A n \in 1..Len(s.executed) :
    Cardinality(Committers(s, nd, C, n, s.executed[n].digest)) >= 2 * f + 1

CheckpointsOK(s, nd, C) ==
  \A n \in DOMAIN s.checkpoints : \A x \in s.checkpoints[n].votes :
    x[2] \in C => n % K = 0 /\ Reached(Peer(s, nd, x[2]), n, x[1])

StableOK(s, nd, C) ==
  /\ s.h % K = 0
  /\ Cardinality(Attesters(s, nd, C, s.h, s.last_stable_digest)) >= 2 * f + 1

OutOK(s) == \A j \in Replicas : \A k \in 1..Len(s.out[j]) : MessageOK(s.out[j][k], s)

\* All that does not depend on view_ and seq_num_.
Backed(s, nd, C) ==
  /\ CommitsOK(s, nd, C)
  /\ VotedOK(s)
  /\ ExecutedOK(s, nd, C)
  /\ CheckpointsOK(s, nd, C)
  /\ StableOK(s, nd, C)
  /\ OutOK(s)

Safe(s, nd, C) == SeqNumOK(s) /\ Backed(s, nd, C)

-----------------------------------------------------------------------------
\* An accepted digest is kept for as long as the entry is.
Sticky(s, t) ==
  \A n \in DOMAIN s.reqlog \cap DOMAIN t.reqlog :
    s.reqlog[n].has_preprepare =>
      t.reqlog[n].has_preprepare /\ t.reqlog[n].digest = s.reqlog[n].digest

=============================================================================
