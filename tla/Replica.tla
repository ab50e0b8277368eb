------------------------------ MODULE Replica -------------------------------
(***************************************************************************)
(* pbft::Node (node.hh, node.cc) as a value.                               *)
(*                                                                         *)
(* A node is single threaded: the event loop runs one handler to its end   *)
(* before the next.  So a node is a record s holding the member variables, *)
(* and every member function that changes state is an operator from s to   *)
(* the node after the call, under the name it has in the code.  A call in  *)
(* a handler is an application of the callee, in the order of the code.    *)
(*                                                                         *)
(* Beside the members s holds                                              *)
(*   out      the messages handed to net_->send_msg, one FIFO queue per    *)
(*            peer (a TCP connection), not yet received;                   *)
(*   replies  the same for the connected clients;                          *)
(*   executed the requests passed to service_->execute, in order: the      *)
(*            state of a deterministic service is a function of it;        *)
(*   voted    a history variable: the <<seq, digest>> pairs for which the  *)
(*            node has broadcast a Commit.                                 *)
(* Logging and metrics are left out: no handler reads them back.           *)
(***************************************************************************)
EXTENDS Messages, Integers, FiniteSets, FiniteSetsExt

CONSTANTS
  N,        \* config.num_replicas
  K,        \* config.checkpoint_interval
  L,        \* config.log_size
  Word,     \* number of values of a uint32_t
  Clients   \* the clients added with add_client

\* try_execute computes last_exec_ % K_, so K_ = 0 has no defined behaviour.
ASSUME ConfigAssumption ==
  /\ N \in Nat \ {0}
  /\ K \in Nat \ {0}
  /\ L \in Nat
  /\ Word \in Nat \ {0}
  /\ Clients \subseteq Nat

Replicas == 0..(N - 1)

f == (N - 1) \div 3

\* std::map and std::unordered_map: m[k] for reading, with the value a missing
\* key would be created with, and m[k] = v.
At(map, k, default) == IF k \in DOMAIN map THEN map[k] ELSE default

Put(map, k, v) ==
  [x \in DOMAIN map \cup {k} |-> IF x = k THEN v ELSE map[x]]

EmptyMap == [x \in {} |-> 0]

\* A ReqLogEntry as operator[] creates it.  Its seq is its key in reqlog_.
NewEntry ==
  [view |-> 0, digest |-> ZeroDigest, req |-> NullReq, stage |-> "NONE",
   has_preprepare |-> FALSE, prepares |-> {}, commits |-> {}]

NewCheckpoint == [votes |-> {}, stable |-> FALSE]

\* The value of `timer' when view_change_timer_ is not pending.
Off == -1

\* A node after its constructor.  timer_running_ has no initialiser, so its
\* first value is a parameter.
NewNode(i, running) ==
  [id |-> i, view |-> 0, seq_num |-> 0, last_exec |-> 0, h |-> 0,
   reqlog |-> EmptyMap, last_replies |-> EmptyMap, checkpoints |-> EmptyMap,
   last_stable_digest |-> <<>>,
   view_changing |-> FALSE, view_change_store |-> EmptyMap,
   view_change_timeout_count |-> 0,
   timer_running |-> running, timer |-> Off,
   executed |-> <<>>, voted |-> {},
   out |-> [j \in Replicas |-> <<>>],
   replies |-> [c \in Clients |-> <<>>]]

\* H_ is L_ at first and h_ + L_ after every advance_watermarks.
H(s) == s.h + L

primary(s) == s.view % N

is_primary(s) == s.id = primary(s)

\* src is the replica conn_to_peer_ gives for the connection.
comes_from_primary(src, view) == src = view % N

\* Mutant: the high watermark is not tested.
InWindowNoHigh(s, seq) == s.h <= seq

InWindow(s, seq) == s.h <= seq /\ seq <= H(s)

-----------------------------------------------------------------------------
(* Sending. *)

broadcast(s, m) ==
  [s EXCEPT !.out = [j \in Replicas |->
     IF j = s.id THEN s.out[j] ELSE Append(s.out[j], m)]]

send_to_replica(s, j, m) ==
  IF j = s.id THEN s ELSE [s EXCEPT !.out[j] = Append(@, m)]

send_to_client(s, c, m) ==
  IF c \in Clients THEN [s EXCEPT !.replies[c] = Append(@, m)] ELSE s

-----------------------------------------------------------------------------
(* Timer.  `timer' is Off, or the exponent of the pending timeout          *)
(* vc_timeout_ * (1u << view_change_timeout_count_).                       *)

is_waiting_for_request(s) ==
  \E n \in DOMAIN s.reqlog : s.reqlog[n].has_preprepare /\ n > s.last_exec

\* Mutant: the timer is started only if it is running.
start_timer_if_running(s) ==
  IF s.timer_running /\ ~s.view_changing
  THEN [s EXCEPT !.timer = s.view_change_timeout_count,
                 !.timer_running = TRUE]
  ELSE s

start_timer_if_not_running(s) ==
  IF ~s.timer_running /\ ~s.view_changing
  THEN [s EXCEPT !.timer = s.view_change_timeout_count,
                 !.timer_running = TRUE]
  ELSE s

stop_timer(s) ==
  IF s.timer_running
  THEN [s EXCEPT !.timer = Off, !.timer_running = FALSE]
  ELSE s

manage_timer(s) ==
  IF ~is_waiting_for_request(s) THEN stop_timer(s)
  ELSE IF s.timer_running THEN start_timer_if_not_running(stop_timer(s))
  ELSE s

-----------------------------------------------------------------------------
(* Execution and checkpoints. *)

\* The state of the service after n operations: the operations, in order.
ServiceState(s, n) == [k \in 1..n |-> s.executed[k].req.operation]

\* service_->get_checkpoint_digest()
get_checkpoint_digest(s) == ServiceState(s, Len(s.executed))

make_checkpoint(s) ==
  LET digest == get_checkpoint_digest(s)
      cp     == At(s.checkpoints, s.last_exec, NewCheckpoint)
  IN  broadcast([s EXCEPT !.checkpoints =
                   Put(@, s.last_exec,
                       [cp EXCEPT !.votes = @ \cup {<<digest, s.id>>}])],
                CheckpointMsg(s.last_exec, digest, s.id))

CanExecute(s) ==
  /\ s.last_exec + 1 \in DOMAIN s.reqlog
  /\ s.reqlog[s.last_exec + 1].stage = "COMMITTED"

\* What a round of the loop of try_execute executes.  The result of service_->execute is
\* taken to be the whole service state, the finest answer a service can give.
ExecuteNext(s) ==
  LET e      == s.reqlog[s.last_exec + 1]
      done   == [s EXCEPT !.last_exec = @ + 1,
                          !.executed =
                             Append(@, [req |-> e.req, digest |-> e.digest])]
      result == get_checkpoint_digest(done)
      c      == e.req.client_id
      told   == send_to_client(done, c,
                  ReplyMsg(s.view, e.req.timestamp, c, s.id, result))
      cached == [told EXCEPT !.last_replies =
                   Put(@, c, [timestamp |-> e.req.timestamp,
                              result |-> result])]
      timed  == manage_timer(cached)
  IN  IF timed.last_exec % K = 0 THEN make_checkpoint(timed) ELSE timed

ExecuteRound(s) == IF CanExecute(s) THEN ExecuteNext(s) ELSE s

\* Every round executes another entry of reqlog_, so as many rounds as it has
\* entries are enough.
try_execute(s) ==
  LET rounds == Cardinality(DOMAIN s.reqlog)
      after[k \in 0..rounds] ==
        IF k = 0 THEN s ELSE ExecuteRound(after[k - 1])
  IN  after[rounds]

recompute_highest_sequence(s) == Max({s.last_exec, s.h} \cup DOMAIN s.reqlog)

\* Mutant: the checkpoint's number stays above the low watermark.
advance_watermarks_short(s, stable_seq) == [s EXCEPT !.h = stable_seq - 1]

advance_watermarks(s, stable_seq) == [s EXCEPT !.h = stable_seq]

garbage_collect(s) ==
  [s EXCEPT
     !.reqlog = Restrict(@, {n \in DOMAIN @ : n > s.h}),
     !.checkpoints = Restrict(@, {n \in DOMAIN @ : n >= s.h})]

\* Mutant: votes for any digest count.
VotersAny(cp, digest) == {r \in Replicas : \E x \in cp.votes : x[2] = r}

Voters(cp, digest) == {r \in Replicas : <<digest, r>> \in cp.votes}

on_checkpoint(s, m) ==
  LET old     == At(s.checkpoints, m.seq_num, NewCheckpoint)
      cp      == [old EXCEPT !.votes = @ \cup {<<m.state_digest, m.replica_id>>}]
      stable  == ~cp.stable /\ Cardinality(Voters(cp, m.state_digest)) >= 2 * f + 1
      stored  == [s EXCEPT !.checkpoints =
                    Put(@, m.seq_num, [cp EXCEPT !.stable = @ \/ stable])]
      moved   == advance_watermarks(
                   [stored EXCEPT !.last_stable_digest = m.state_digest],
                   m.seq_num)
  IN  IF m.seq_num < s.h THEN s
      ELSE IF ~stable THEN stored
      ELSE garbage_collect(
             [moved EXCEPT !.seq_num = recompute_highest_sequence(moved)])

-----------------------------------------------------------------------------
(* The three phases. *)

\* Mutant: a quorum of 2f.
try_commit_2f(s, n) ==
  LET e == s.reqlog[n]
  IN  IF e.stage = "PREPARED" /\ Cardinality(e.commits) >= 2 * f
      THEN try_execute([s EXCEPT !.reqlog =
                          Put(@, n, [e EXCEPT !.stage = "COMMITTED"])])
      ELSE s

try_commit(s, n) ==
  LET e == s.reqlog[n]
  IN  IF e.stage = "PREPARED" /\ Cardinality(e.commits) >= 2 * f + 1
      THEN try_execute([s EXCEPT !.reqlog =
                          Put(@, n, [e EXCEPT !.stage = "COMMITTED"])])
      ELSE s

try_prepare(s, n) ==
  LET e == s.reqlog[n]
  IN  IF /\ e.stage = "PRE_PREPARED"
         /\ e.has_preprepare
         /\ Cardinality(e.prepares) >= 2 * f
      THEN try_commit(
             broadcast([s EXCEPT !.reqlog = Put(@, n,
                                   [e EXCEPT !.stage = "PREPARED",
                                             !.commits = @ \cup {s.id}]),
                                 !.voted = @ \cup {<<n, e.digest>>}],
                       CommitMsg(s.view, n, e.digest, s.id)),
             n)
      ELSE s

on_commit(s, m) ==
  LET e       == At(s.reqlog, m.seq_num, NewEntry)
      matches == e.digest = m.req_digest
      e2      == IF matches THEN [e EXCEPT !.commits = @ \cup {m.replica_id}]
                 ELSE e
      s2      == [s EXCEPT !.reqlog = Put(@, m.seq_num, e2)]
  IN  IF \/ s.view_changing
         \/ m.view # s.view
         \/ ~InWindow(s, m.seq_num)
      THEN s
      ELSE IF matches THEN try_commit(s2, m.seq_num) ELSE s2

\* Mutant: the digest is not compared.
ConflictsNever(e, digest) == FALSE

\* A PrePrepare for another digest has been accepted.
Conflicts(e, digest) == e.has_preprepare /\ e.digest # digest

on_prepare(s, m, src) ==
  LET e == At(s.reqlog, m.seq_num, NewEntry)
  IN  IF \/ comes_from_primary(src, s.view)
         \/ s.view_changing
         \/ m.view # s.view
         \/ ~InWindow(s, m.seq_num)
         \/ Conflicts(e, m.req_digest)
      THEN s
      ELSE try_prepare(
             [s EXCEPT !.reqlog = Put(@, m.seq_num,
                [e EXCEPT !.prepares = @ \cup {m.replica_id}])],
             m.seq_num)

\* The entry after a PrePrepare for it is accepted by, or assigned at, node i.
PrePrepared(e, view, digest, req, i) ==
  [e EXCEPT !.view = view, !.digest = digest, !.req = req,
            !.has_preprepare = TRUE, !.stage = "PRE_PREPARED",
            !.prepares = @ \cup {i}]

on_preprepare_impl(s, m) ==
  LET e == At(s.reqlog, m.seq_num, NewEntry)
  IN  IF \/ s.view_changing
         \/ m.view # s.view
         \/ ~InWindow(s, m.seq_num)
         \/ Conflicts(e, m.req_digest)
      THEN s
      ELSE try_prepare(
             broadcast([start_timer_if_not_running(s) EXCEPT !.reqlog =
                          Put(@, m.seq_num,
                              PrePrepared(e, m.view, m.req_digest, m.req, s.id))],
                       PrepareMsg(s.view, m.seq_num, m.req_digest, s.id)),
             m.seq_num)

on_preprepare(s, m, src) ==
  IF comes_from_primary(src, s.view) THEN on_preprepare_impl(s, m) ELSE s

\* The primary refuses a request that some entry of the log already carries.
InProgress(s, m) ==
  \E n \in DOMAIN s.reqlog :
    /\ s.reqlog[n].has_preprepare
    /\ s.reqlog[n].req.client_id = m.client_id
    /\ s.reqlog[n].req.timestamp = m.timestamp

\* Mutant: the timestamp is not compared.
AlreadyRepliedAny(s, m) == m.client_id \in DOMAIN s.last_replies

\* The last request of the client that was executed here is this one.
AlreadyReplied(s, m) ==
  /\ m.client_id \in DOMAIN s.last_replies
  /\ s.last_replies[m.client_id].timestamp = m.timestamp

\* Mutant: the primary starts a timer too.
AssignSequenceTimed(s, m) ==
  LET n == s.seq_num + 1
      e == At(s.reqlog, n, NewEntry)
  IN  broadcast([start_timer_if_not_running(s) EXCEPT !.seq_num = n,
                          !.reqlog = Put(@, n,
                             PrePrepared(e, s.view, get_hash(m), m, s.id))],
                PrePrepareMsg(s.view, n, get_hash(m), m))

\* Mutant: the digest is taken before the request is stored.
AssignSequenceStale(s, m) ==
  LET n == s.seq_num + 1
      e == At(s.reqlog, n, NewEntry)
  IN  broadcast([s EXCEPT !.seq_num = n,
                          !.reqlog = Put(@, n,
                             PrePrepared(e, s.view, get_hash(e.req), m, s.id))],
                PrePrepareMsg(s.view, n, get_hash(e.req), m))

AssignSequence(s, m) ==
  LET n == s.seq_num + 1
      e == At(s.reqlog, n, NewEntry)
  IN  broadcast([s EXCEPT !.seq_num = n,
                          !.reqlog = Put(@, n,
                             PrePrepared(e, s.view, get_hash(m), m, s.id))],
                PrePrepareMsg(s.view, n, get_hash(m), m))

on_request(s, m) ==
  LET c == m.client_id
  IN  IF AlreadyReplied(s, m)
      THEN send_to_client(s, c,
             ReplyMsg(s.view, m.timestamp, c, s.id, s.last_replies[c].result))
      ELSE IF s.view_changing THEN s
      ELSE IF ~is_primary(s)
      THEN send_to_replica(start_timer_if_not_running(s), primary(s), m)
      ELSE IF s.seq_num < s.h \/ s.seq_num >= H(s) \/ InProgress(s, m) THEN s
      ELSE AssignSequence(s, m)

-----------------------------------------------------------------------------
(* View change. *)

\* min_s and max_s of a V set, a set of ViewChangeMsg.
MinS(V) == Max({0} \cup {vc.last_stable_checkpoint : vc \in V})

MaxS(V) ==
  Max({0} \cup UNION {{p.seq_num : p \in vc.prepared_proofs} : vc \in V})

\* The digest proposed for n: of the proof with the highest view above 0, the
\* first replica's among equals, and the hash of "" when there is none.
ChooseDigest(V, n) ==
  LET found == {x \in UNION {{vc.replica_id} \X vc.prepared_proofs : vc \in V} :
                  x[2].seq_num = n /\ x[2].view > 0}
      best  == CHOOSE x \in found : \A y \in found :
                 x[2].view > y[2].view \/ (x[2].view = y[2].view /\ x[1] <= y[1])
  IN  IF found = {} THEN EmptyHash ELSE best[2].digest

\* The O set.
NewPrePrepares(view, V) ==
  [k \in 1..(MaxS(V) - MinS(V)) |->
     PrePrepareMsg(view, MinS(V) + k, ChooseDigest(V, MinS(V) + k), NullReq)]

EnterView(s, view) ==
  [s EXCEPT !.view_changing = FALSE, !.view = view,
            !.view_change_timeout_count = 0]

on_viewchange(s, m) ==
  LET v      == m.next_view
      store  == Put(s.view_change_store, <<v, m.replica_id>>, m)
      stored == [s EXCEPT !.view_change_store = store]
      V      == {store[<<v, r>>] :
                   r \in {r \in Replicas : <<v, r>> \in DOMAIN store}}
      moved  == EnterView(
                  broadcast(stored, NewViewMsg(v, V, NewPrePrepares(v, V))), v)
  IN  IF v < s.view \/ v % N # s.id THEN s
      ELSE IF Cardinality(V) < 2 * f + 1 THEN stored
      ELSE manage_timer(
             [moved EXCEPT !.seq_num = recompute_highest_sequence(moved)])

\* The timer callback.  The timer is one-shot, so it is no longer pending.
\* last_stable_checkpoint is a uint32_t.
start_view_change(s) ==
  LET P  == {PrepareProof(s.reqlog[n].view, n, s.reqlog[n].digest) :
               n \in {n \in DOMAIN s.reqlog : s.reqlog[n].stage = "PREPARED"}}
      vc == ViewChangeMsg(s.view + 1, s.h % Word, s.id, P)
      s1 == [s EXCEPT !.view_changing = TRUE,
                      !.view_change_timeout_count = @ + 1,
                      !.timer = Off]
  IN  on_viewchange(broadcast(stop_timer(s1), vc), vc)

on_newview(s, m, src) ==
  LET V     == m.view_changes
      O     == m.pre_prepares
      min_s == MinS(V)
      max_s == Max({min_s, MaxS(V)})
      after[k \in 0..Len(O)] ==
        IF k = 0 THEN EnterView(s, m.next_view)
        ELSE on_preprepare_impl(after[k - 1], O[k])
      last  == after[Len(O)]
  IN  IF \/ ~comes_from_primary(src, m.next_view)
         \/ ~s.view_changing
         \/ m.next_view <= s.view
         \/ Cardinality(V) < 2 * f + 1
         \/ Len(O) # max_s - min_s
      THEN s
      ELSE manage_timer([last EXCEPT !.seq_num = recompute_highest_sequence(last)])

-----------------------------------------------------------------------------
(* register_handlers: what node s does with a message received from src.   *)

Handle(s, m, src) ==
  CASE m.type = "request"    -> on_request(s, m)
    [] m.type = "preprepare" -> on_preprepare(s, m, src)
    [] m.type = "prepare"    -> on_prepare(s, m, src)
    [] m.type = "commit"     -> on_commit(s, m)
    [] m.type = "checkpoint" -> on_checkpoint(s, m)
    [] m.type = "viewchange" -> on_viewchange(s, m)
    [] m.type = "newview"    -> on_newview(s, m, src)

-----------------------------------------------------------------------------
(* Types. *)

IsMap(map, S, T) == DOMAIN map \subseteq S /\ map \in [DOMAIN map -> T]

Stages == {"NONE", "PRE_PREPARED", "PREPARED", "COMMITTED"}

Entry == [view : Nat, digest : Digest, req : Request, stage : Stages,
          has_preprepare : BOOLEAN, prepares : SUBSET Replicas,
          commits : SUBSET Replicas]

StateDigest == Seq(ServiceOperation)

Checkpoint == [votes : SUBSET (StateDigest \X Replicas), stable : BOOLEAN]

ViewChange == [type : {"viewchange"}, next_view : Nat,
               last_stable_checkpoint : Nat, replica_id : Replicas,
               prepared_proofs : {P \in SUBSET Proof : IsFiniteSet(P)}]

PrePrepare == [type : {"preprepare"}, view : Nat, seq_num : Nat,
               req_digest : HashValue, req : Request]

NewView == [type : {"newview"}, next_view : Nat,
            view_changes : {V \in SUBSET ViewChange : IsFiniteSet(V)},
            pre_prepares : Seq(PrePrepare)]

Vote == [type : {"prepare", "commit"}, view : Nat, seq_num : Nat,
         req_digest : HashValue, replica_id : Replicas]

CheckpointVote == [type : {"checkpoint"}, seq_num : Nat,
                   state_digest : StateDigest, replica_id : Replicas]

\* What a node may receive from a peer.  Digests that travel are hash values.
Message == Request \cup PrePrepare \cup Vote \cup CheckpointVote \cup ViewChange
             \cup NewView

Reply == [type : {"reply"}, view : Nat, timestamp : Nat, client_id : Nat,
          replica_id : Replicas, result : StateDigest]

NodeFields ==
  {"id", "view", "seq_num", "last_exec", "h", "reqlog", "last_replies",
   "checkpoints", "last_stable_digest", "view_changing", "view_change_store",
   "view_change_timeout_count", "timer_running", "timer", "executed", "voted",
   "out", "replies"}

IsNode(s) ==
  /\ DOMAIN s = NodeFields
  /\ s.id \in Replicas
  /\ s.view \in Nat /\ s.seq_num \in Nat /\ s.last_exec \in Nat /\ s.h \in Nat
  /\ IsMap(s.reqlog, Nat, Entry)
  /\ IsMap(s.last_replies, Nat, [timestamp : Nat, result : StateDigest])
  /\ IsMap(s.checkpoints, Nat, Checkpoint)
  /\ s.last_stable_digest \in StateDigest
  /\ s.view_changing \in BOOLEAN
  /\ IsMap(s.view_change_store, Nat \X Replicas, ViewChange)
  /\ s.view_change_timeout_count \in Nat
  /\ s.timer_running \in BOOLEAN
  /\ s.timer \in Nat \cup {Off}
  /\ s.executed \in Seq([req : Request, digest : Digest])
  /\ s.voted \subseteq Nat \X Digest
  /\ s.out \in [Replicas -> Seq(Message)]
  /\ s.replies \in [Clients -> Seq(Reply)]

=============================================================================
