# A TLA+ model of pbft-cpp

This directory models the PBFT replicas and the client of this repository, checks
them with TLC on small instances, and proves their main safety properties with
TLAPS for every number of replicas, threads and calls, those that bound the views
for four replicas only. Paths below are relative to the repository.

## The system

| part | source | modelled in | status |
|---|---|---|---|
| Node: requests, three phases, execution | `src/node.cc` 150-408 | `Replica`, `Cluster` | modelled |
| Node: checkpoints, watermarks, garbage collection | `src/node.cc` 413-476 | `Replica`, `Cluster` | modelled |
| Node: view change, timer | `src/node.cc` 481-685 | `Replica`, `Cluster` | modelled |
| Client | `src/client.cc`, `client.hh` | `Client`, `KvClient`, `System` | modelled |
| Service | `service_interface.hh`, `KeyValueStore::execute` of `examples/kv_store/kv_store.cc` | `Replica`, `KeyValueStore` | modelled |
| Messages | `include/pbft/messages.hh` | `Messages` | fields only, not the wire format |
| Network (salticidae) | as `node.cc`, `node.hh`, `client.cc` use it | `Cluster`, `System` | external; handshakes taken as done |
| Serialization, metrics, digest and command lines of the example | | | not modelled |

A `Node` runs on one event loop, so a handler is atomic. Nodes interact only by
messages. A client is shared by the application's threads, which call `invoke`
and `invoke_async`, and a thread that runs its event loop and `on_reply`. It
sends a request to the replica it believes is primary and, when `invoke` times
out, to all of them; it believes a result that f + 1 replicas report.

## Modules

- `Messages`: the message records. A digest is a record that names what was
  hashed, so equal digests mean equal requests. The C set of a ViewChange is
  left out because no code reads it.
- `Replica`: a node is a record with the members of `node.hh`, and every member
  function of `node.cc` is an operator of the same name from node to node.
  `out[j]` is the connection to replica j. `voted` and `executed` are history:
  the Commits broadcast and the requests executed.
- `Cluster`: N nodes. Its actions are `Submit`, `Deliver` and `Timeout`, which
  run one handler each, `Retry` (`Client::invoke`), `Crash` (`Node::stop`),
  `Lose` (what a stopped node sent is lost) and `FaultySend`.
- `ReplicatedLog`: what the replicas promise together, one log. `ClusterLog` is
  the refinement mapping: a server's log is the digests a correct node has
  executed, its low watermark is `h_`.
- `Client`: the client's state with a program counter for each thread. A call is
  cut where another thread may come between: the load and the store of
  `++timestamp_`, the beginning and the end of the access to
  `inflight_requests_`, the send. `mu_` is taken where the code takes it. What
  a data race does is left open; `NoRace` says whether there is one. Three steps
  are coarser than the code: `set_value` and the erase in `on_reply` are one, both
  being under `mu_`; a send reads `current_view_` once, where the code reads it
  twice, for a test that always succeeds and for the connection; and a timed-out
  `wait_for` and its broadcast are one, so that the model has no broadcast after the
  answer, which would only be a duplicate.
- `KeyValueStore`: `execute` of the key-value example. An operation is its
  sequence of words.
- `KvClient`: the client in front of the key-value store. Its replicas are
  `node.cc` seen from outside: they execute in one order, may ignore requests, and
  answer late or repeatedly. A faulty one answers what it likes. The one order of
  operations is an assumption, and more than `ReplicatedLog` promises: there
  the logs are of digests and may differ at a checkpoint number already left
  behind, and after two view changes two nodes may execute different operations
  under one digest (`Diverge`).
- `System`: `Client` composed with `Cluster`. The client's `wire` is the
  cluster's `unsent`, and it takes its replies from the nodes. A faulty replica
  sends it replies of `FaultyReplies`, under its own id.
- `ReplicaInv`, `SafeInv`, `ClusterInv`: the inductive invariant `IndInv` of the
  cluster.
- `NodeInv`, `ViewInv`: five more, each about one node and what it has sent:
  `AllArmed`, `AllCounted`, `AllEarly`, `AllMatched`, `AllAnswered`. Those of the
  client are at the end of `Client` and of `KvClient`.
- `SystemInv`: what the client counts and believes, compared with what the nodes
  of the same system have executed, and the inductive invariant `SystemOK`.
- `MCCluster`, `MCClient`, `MCSystem`: constants for TLC.
- `LocalProofs`, `SafeProofs`, `ClusterProofs`, `ReplyProofs`, `NodeProofs`,
  `ViewProofs`, `SystemProofs`, `ClientProofs`: the proofs.

Connections, those of the clients included, deliver in order and at most once.
A faulty replica runs no handler; it sends messages of `FaultyMessages` under
its own id, as `test/integration/byzantine_node.hh` does. That is an
assumption: `on_prepare` (`node.cc:298`), `on_commit` (348), `on_checkpoint` (430)
and `on_viewchange` (533) count a vote under the `replica_id` in the message and
never compare it with the connection. Without it no quorum would mean anything.
Definitions marked "Mutant" are wrong forms of the definition that follows
them. They show that a property can fail, and no specification uses them.

## Runs

All runs but `Diverge` have N = 4, f = 1. A replica that is faulty with no
messages is silent. The client's id is that of no replica, and it sends to replica
1 first, because a new `Client` has `current_view_` 1.

| run | instance | checks | distinct states |
|---|---|---|---|
| `Requests` | K=1, L=1, two requests, one retry, a silent backup, replica 0 may stop | `TypeOK`, `LogInWindow`, `ReplyIsExecution`, `PendingHasTimer`, `AllAnswered` | 232,378 |
| `FaultyPrimary` | K=1, L=1, 4 messages of a primary with two proposals for one number and right or wrong checkpoint votes | `VotesUnique`, `ExecutedIsCertified`, `Agreement`, `RequestsAgree`, `StableIsExecuted`, `QuorumOverlooked`, `AllCounted`, `DigestSticky`, `KeepsOneLog` | 466,867 |
| `ViewChange` | K=1, L=2, two requests, a primary that proposes to at most two replicas, 8 timeouts | `IndInv`, `OneViewChange`, `PendingHasTimer`, `AllArmed`, `AllEarly`, `AllMatched` | 319,677 |
| `System` | K=2, L=4, one `invoke`, one resend, no timeout, replica 1 silent but for one wrong reply, `timestamp_` starts at 0 or wraps | `SystemOK`, `VotesAreExecutions`, `InvokeReturns`, `AnswerIsExecuted` | 155,552 |
| `Client` | two threads, three calls of `invoke_async`, one faulty replica, `timestamp_` starts at 0 or wraps | `ClientInv`, `NoRace`, `InflightIsPending`, `PromisesKept`, `OwnAnswer` | 2,783,456 |

Some of what they show is worth saying in words.

- `QuorumOverlooked`: `make_checkpoint` adds the node's own vote without counting.
  If that vote is the 2f + 1st, the window does not move until one more
  arrives. This is the only way a quorum is overlooked.
- `Agreement` and `RequestsAgree` in `FaultyPrimary`: number 1 is a checkpoint
  number there, so they are strict until some node has moved its window past it. Every
  way to execute number 1 is also met before that, with the Checkpoints still in
  transit.
- `RequestsAgree` and `AllMatched` leave room for the null request under another
  request's digest, because `on_viewchange` proposes it so. With four correct
  nodes or a primary that only proposes this never happens: proofs of view 0 lose
  (`Prepared`) and no node leaves view 1. With seven it does, and `Diverge` shows
  what comes of it.
- `KeepsOneLog`: the cluster implements `ReplicatedLog`.
- `OwnAnswer`: a future never holds a faulty replica's value or the answer to
  another call.
- `AnswerIsExecuted`: when a promise is set, f + 1 replicas, less the faulty ones,
  have executed a request of this client and timestamp with that result. It names
  the request by client and timestamp, not by operation, because nodes take both
  from the message and do not check who sent it. In `OwnAnswer` the operation is
  compared too, with replicas that execute what the client sent.

Seven runs show where the code departs from what its comments or tests say.

| run | violates | says | what happens |
|---|---|---|---|
| `Stuck` | `NeverStuck` | `test/integration/integration.cc` 152-166 | The timers of 2 and 3 expire in view 1 before the PrePrepare arrives. They drop it and ask for view 2. Primary 1 has no timer, so the third ViewChange never comes. |
| `Twice` | `ExactlyOnce` | `messages.hh:31` | A late copy of request 1 is executed again after request 2, since only the last reply is remembered. |
| `Prepared` | `NewViewKeepsPrepared` | `node.cc:563` | A proof of view 0 is never chosen. |
| `Diverge` | `OneRequestPerDigest` | `node.cc:563`, `service_interface.hh:7` | Seven nodes, two view changes. Primary 2 keeps the request prepared in view 1 and executes it. The others received its digest with the null request (575), stored that (256) and execute the empty operation. |
| `Backoff` | `BackoffEngages` | `node.hh:137` | A node that waits for a NewView has no timer (658), and a NewView resets the count: the timeout never doubles. |
| `Buffered` | `PreparesMatch` | `node.cc` 289-290 | A Prepare for A that came before the PrePrepare for B is counted for B. Commits are compared, so `ExecutedIsCertified` holds all the same. |
| `ClientRace` | `NoRace` | `client.hh:47` | `invoke` adds to `inflight_requests_` without `mu_` while `on_reply` looks a late reply up. |

Two more departures have no run of their own. `timer_running_` has no
initialiser (`node.hh:154`), though `node_ut.cc:1104` expects false; if it starts
true no timer is added, and `PendingHasTimer` fails in `Requests` with
`TimerInit = {TRUE}`. Every run starts it at false. And a new primary does not
count the numbers of its own NewView (`node.cc:591`), though `node.hh:67` says
of `seq_num_` "Last assigned seq num": its next request may get one of them.

`Diverge` runs `PromptSpec` of `MCCluster`, which handles requests and messages
in a fixed order and lets a timer expire only when there are none. The
counterexample has 130 states, too many for a search over all orders. Its behaviours are behaviours of `Spec`.

### Bounds

`K` and `L` are small so that the window fills and checkpoints become stable
after one or two requests. `MaxRetries`, `MaxTimeouts`, `MaxFaulty`,
`MaxAnswers` and `MaxResends` bound how often the action may happen, not when.
Retries are in `Requests`, `Stuck`, `Backoff` and `Diverge`; with two retries a request arms the timers of the
backups and reaches them again in view 1, as the counterexample of `Stuck`
does. `ViewChange` has none, for its running time: two requests and a partial
proposal arm the timers instead. Eight timeouts are more than its behaviours can
use. In `Diverge` eleven timeouts are six in view 0 and five in view 1, enough
for two view changes. The runs do not reach `Word`, the width of
`last_stable_checkpoint`, so its truncation is modelled and not exercised.
`view_` has 32 bits and `next_view` 64: `EnterView` does not truncate, so runs and
theorems speak of views below 2^32. `Word64` is 4 in `Client`, so
that `timestamp_` wraps; three calls never share a value then. `OneViewChange`
is about four nodes whose first primary does not itself ask for a view change;
it is not claimed for larger clusters. CHECK_DEADLOCK is off because a cluster
with nothing left to do stops.

### Fairness

`System` assumes weak fairness of its next-state relation: while a thread, an
event loop or a timed-out `wait_for` can go on, something does. The code
justifies it: a loop dispatches until it is stopped and `invoke` loops until it
has an answer. All behaviours of the run are finite, so nothing is starved and
no more is needed. The run allows no view-change timeout and one silent replica
that is not the primary, so it shows progress only while no timer expires, with
a wrong reply or without; `Stuck` shows what may happen when timers do expire.

## Proofs

### The cluster

`ClusterProofs` proves `Spec => []IndInv`, and from it `TypeOK`, `LogInWindow`,
`BackoffNeverEngages` (the general form of what `Backoff` shows), `VotesUnique`,
`StableIsExecuted`, `ExecutedIsCertified`, `Agreement` and `DigestSticky`, and
that the cluster implements `ReplicatedLog`, `Spec => KeepsOneLog`. They hold for all constants that satisfy

- `ConfigAssumption` (`Replica`) and `ClusterAssumption` (`Cluster`), the types;
- `QuorumAssumption`: two sets of 2f + 1 replicas share a correct one.

`Agreement` alone is not inductive: it does not say why a node may count a
Commit. `IndInv` adds that. `Local` says a node is well formed: log in the
window, an entry without PrePrepare has no Commits. `Safe` says it is backed by
its peers: a counted Commit of a correct replica was voted by it, a vote is for
the digest in the log until the log forgets it, each execution has 2f + 1
committers, a checkpoint vote of a correct replica is a state it reached, and
messages in transit say what their sender did. Two nodes that execute different
digests at n have quorums with a common correct replica; it voted twice at n,
which `VotedOK` allows only for a checkpoint number it has left behind.

That exception is in the code: a number equal to `h_` passes the window test
after its entry was erased. `Agreement` is therefore stated with it, and it
compares digests, not operations: a NewView proposes a prepared digest with the
null request.

`LocalProofs` proves `Local` for each function, `SafeProofs` proves `Safe` for
what handlers call and for the handlers, and `ClusterProofs` lifts it to actions.

The refinement needs more than the invariant: every step must leave all correct
nodes but one as they are, extend what that one executed or leave it, and not
move its watermark in the same step. `Extended` and `OneMove` in `SafeProofs` say
so of a handler, `StepOK` in `ClusterProofs` of an action. `OneLog` reads
off that a step is an `Execute`, whose consistency is `Agreement` after the step, a
`Discard`, whose checkpoint is `StableIsExecuted`, or a stutter.

### Timers, votes, views, requests, replies

These five invariants are about one node and what it sends, so they do not need
`IndInv`. `Turn` in `ReplyProofs` says what every action does to a node: at most one handler
runs, on a message that a correct node sent or a faulty one may send, and then
messages may be gone. It remains to show that each handler keeps the invariant:
`ReplyProofs` does so for `AllAnswered`, `NodeProofs` for `AllArmed`, `AllCounted`
and `AllEarly`, and for `AllMatched` both `NodeProofs` and, for the handlers of the
view change, `ViewProofs`, which has the theorems. Each invariant is a theorem of
its own, and the property follows from it. The assumptions are those above and
what the table adds.

| invariant, by theorem | property, by theorem | if |
|---|---|---|
| `AllArmed`, `TimersKept` | `PendingHasTimer`, `PendingIsTimed` | `timer_running_` starts false |
| `AllCounted`, `CountsKept` | `QuorumOverlooked`, `OverlookedIsOwn` | |
| `AllAnswered`, `AnswersKept` | `ReplyIsExecution`, `RepliesExecuted` | |
| `AllEarly`, `AsksKept` | `OneViewChange`, `ViewsEndAtOne` | N = 4, `timer_running_` starts false, (a) |
| `AllMatched`, `MatchesKept` | `RequestsAgree`, `RequestsAgreed`, with `Agreement` | (b) |

(a) A faulty replica asks only for views that a correct one in its place could
ask for (`CanAsk`) and announces no view but 1. A NewView is not compared with
ViewChanges a backup has seen, so without this the views are up to the faulty
replicas. (b) A faulty replica proposes under a digest only the request with that
digest or the null request. No node compares the two, so without this a faulty
primary can have any request stored under any digest.

Why the invariants are needed:

- `AllArmed`: `manage_timer` acts on `timer_running_`, so it must tell the truth;
  in view 0, outside a view change, it does.
- `AllCounted` adds that no checkpoint above `h_` is marked stable; otherwise
  `on_checkpoint` would ignore later votes.
- `AllEarly`: view 2 needs three of four replicas. Replica 0 arms no timer as
  primary of view 0 and never leaves it; replica 1 enters view 1 only by its own
  ViewChange, which stopped its timer, and as primary arms no other.
- `AllMatched`: a node takes request and digest from one message, so what its
  peers have sent must go together too; the O set of a new primary does, because
  it holds the null request only. It holds in every view and for any number of
  replicas. That the request itself survives a view change does not follow, and is
  false (`Prepared`, `Diverge`).
- `AllAnswered`: a repeated reply comes from `last_replies_`, so what is stored
  there must have been executed too; and a queued reply bears the id of the node
  that computed it.

### The client

`ClientProofs` proves `Spec => []ClientInv` for any number of threads, calls,
retries and replicas, whatever the replies. `NoRace` and `InflightIsPending` are
not inductive: the first needs to know who holds `mu_` at each point of a call, the
second that a call yet to be issued has a pending future and no entry. `LockInv`
and `EntryInv` say that. It follows that `InflightIsPending` always holds, and
that `NoRace` holds if all calls use `invoke_async`; with `invoke` it does not
(`ClientRace`). The assumption is `ClientAssumption`, the types. As in the
runs, what a race would do to the map is outside the model, so for `invoke` the
theorems speak of behaviours in which the racing accesses still take effect one
after the other.

For the client in front of the key-value store it proves `PromisesKept` and
`OwnAnswer`, with the one order of operations that `KvClient` assumes, for any
number of threads, replicas and calls, any operations and whatever faulty replicas answer, if all calls use `invoke_async` and there are
no more of them than `timestamp_` has values. `AnswerInv` in `KvClient` is the
inductive invariant: timestamps given out are consecutive modulo the word, so
distinct; what a correct replica answers is the store's result at the place
where it executed the request; and the votes counted for a result come from as
many distinct replicas, so f + 1 of them include a correct one. TLC has checked
it on the instance of `Client` too, where it takes the run to its time limit, so
that run leaves it out.

### The client and its cluster

`SystemProofs` joins the two: it proves `SystemSpec => []SystemOK`, and from it
`VotesAreExecutions`, `AnswerIsExecuted` and `Agreement`, for any number of
replicas, threads and calls, any mix of `invoke` and `invoke_async`, and whatever
the faulty replicas send to nodes and client. The assumptions are those of the
cluster and `SystemAssumption`: the client is one of `Clients`, `timestamp_`
starts anywhere in its range, and a faulty replica's reply bears a faulty
replica's id. The last is assumed of the faulty replicas: `on_reply` takes the id
from the message and, like the nodes, does not compare it with the connection.

`VotesAreExecutions` alone is not inductive. A vote is an execution because the
reply was, on its way through the event loop (`LoopOK`) as in the node's queue
(`AllAnswered`), and it stays one because a node only adds to what it has executed
(`Later`), which is `IndInv`. `IndInv` has to be proved again here, since the
client's steps are not steps of `Cluster`: it takes replies out of a node
(`ReplyTaken`, `ReplyTakenSafe`) and puts requests of its own in transit
(`Sending`), which are requests because a thread inside a call has one
(`ThreadsOK`). A reply is counted only if its sender is not in `seen_replicas`, so
with each vote the set of those who may have cast it grows by one
(`SoundCounted`); f + 1 votes less the faulty ones are executions, and at most f
replicas are faulty (`Outvoted`). As above, what a race would do to the
map is outside the model. With f = 1 the second vote erases the entry, so TLC
sees no entry with more than one vote for a result; the theorems are about
any f.

### Only model-checked

`InvokeReturns`, and the seven violations. Liveness and ENABLED are out of the
prover's reach, as is induction over recursive definitions.

## Not modelled

- Serialization: bytes written and read through salticidae's `DataStream`, one
  message at a time. No state of the protocol depends on it, and its primitives
  are outside the repository.
- Handshakes and connecting: done before the first request, by `connect_sync`.
- `KeyValueStore::get_checkpoint_digest`: text that is concatenated and hashed.
  `Replica` takes the digest of a service to name its state.
- The command lines of the example, the configuration file, TLS: input and
  set-up.
- Metrics and logging: they do not feed back into the protocol.
- `Client::stop` and the destructors: no call returns after them.
