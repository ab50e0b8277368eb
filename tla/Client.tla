------------------------------- MODULE Client -------------------------------
(***************************************************************************)
(* pbft::Client (client.hh, client.cc) and the threads that run it.        *)
(*                                                                         *)
(* The application's threads call invoke and invoke_async; another thread  *)
(* runs the event loop, and with it on_reply.  The module has one action   *)
(* per piece of a call that other threads cannot interrupt: a load or a    *)
(* store of timestamp_, the beginning and the end of an access to          *)
(* inflight_requests_, a send.  mu_ is taken where the code takes it.      *)
(*                                                                         *)
(* Two accesses to inflight_requests_ that overlap have no defined         *)
(* outcome; the module says when that happens (NoRace) and nothing of what *)
(* follows.                                                                *)
(*                                                                         *)
(* Requests leave by the variable wire and replies arrive as the argument  *)
(* of Receive: a module that composes the client with replicas supplies    *)
(* both.                                                                   *)
(***************************************************************************)
EXTENDS Messages, Integers, FiniteSets, FiniteSetsExt

CONSTANTS
  N,          \* config.num_replicas
  Id,         \* the client's id
  Threads,    \* the application's threads
  Calls,      \* Calls[t] is what thread t calls, in order
  Word64,     \* number of values of a uint64_t
  MaxRetries  \* bound: how many times invoke sends a request again

Replicas == 0..(N - 1)

f == (N - 1) \div 3

\* The thread that runs the event loop.
Loop == "loop"

\* The value of mu when mu_ is not held.
Free == "free"

Call == [how : {"invoke", "invoke_async"}, operation : Operation]

ASSUME ClientAssumption ==
  /\ N \in Nat \ {0}
  /\ Id \in Nat
  /\ Loop \notin Threads /\ Free \notin Threads
  /\ Calls \in [Threads -> Seq(Call)]
  /\ Word64 \in Nat \ {0}
  /\ MaxRetries \in Nat

\* The calls by name: <<t, k>> is the k-th call of thread t.
CallIds == UNION {{t} \X (1..Len(Calls[t])) : t \in Threads}

VARIABLES
  mu,            \* the thread that holds mu_, or Free
  timestamp,     \* timestamp_
  current_view,  \* current_view_
  inflight,      \* inflight_requests_
  future,        \* future[c] is the state shared by call c's promise and future
  pc,            \* pc[t] is the next piece of code of thread t
  done,          \* done[t] is the number of calls of t that have returned
  ts,            \* ts[t] is the local variable ts of t's call
  msg,           \* the reply on_reply is working on
  retries,       \* number of times invoke has sent a request again
  wire           \* wire[r] is what has been sent to replica r and not received

clientVars ==
  <<mu, timestamp, current_view, inflight, future, pc, done, ts, msg, retries, wire>>

\* add_replica skips the client's own id.
Connected == Replicas \ {Id}

Current(t) == <<t, done[t] + 1>>

CurrentCall(t) == Calls[t][done[t] + 1]

\* A future is pending until its promise is set or destroyed.
Pending == [state |-> "pending", value |-> {}]
Ready(v) == [state |-> "ready", value |-> {v}]
Broken == [state |-> "broken", value |-> {}]

\* timestamp_ has no initialiser.  first is the value it happens to have.
InitClient(first) ==
  /\ mu = Free
  /\ timestamp = first
  /\ current_view = 1
  /\ inflight = [x \in {} |-> 0]
  /\ future = [c \in CallIds |-> Pending]
  /\ pc = [t \in Threads \cup {Loop} |-> "idle"]
  /\ done = [t \in Threads |-> 0]
  /\ ts = [t \in Threads |-> 0]
  /\ msg = <<>>
  /\ retries = 0

-----------------------------------------------------------------------------
(* The beginning of a call. *)

HasCall(t, how) ==
  /\ pc[t] = "idle"
  /\ done[t] < Len(Calls[t])
  /\ CurrentCall(t).how = how

Goto(t, label) == pc' = [pc EXCEPT ![t] = label]

\* invoke takes no lock.
Invoke(t) ==
  /\ HasCall(t, "invoke")
  /\ Goto(t, "load")
  /\ UNCHANGED <<mu, timestamp, current_view, inflight, future, done, ts, msg,
                 retries, wire>>

\* Mutant: the lock is not taken.
InvokeAsyncUnlocked(t) ==
  /\ HasCall(t, "invoke_async")
  /\ Goto(t, "load")
  /\ UNCHANGED <<mu, timestamp, current_view, inflight, future, done, ts, msg,
                 retries, wire>>

InvokeAsync(t) ==
  /\ HasCall(t, "invoke_async")
  /\ mu = Free
  /\ mu' = t
  /\ Goto(t, "load")
  /\ UNCHANGED <<timestamp, current_view, inflight, future, done, ts, msg,
                 retries, wire>>

-----------------------------------------------------------------------------
(* uint64_t ts = ++timestamp_, a load and a store. *)

Load(t) ==
  /\ pc[t] = "load"
  /\ ts' = [ts EXCEPT ![t] = (timestamp + 1) % Word64]
  /\ Goto(t, "store")
  /\ UNCHANGED <<mu, timestamp, current_view, inflight, future, done, msg,
                 retries, wire>>

Store(t) ==
  /\ pc[t] = "store"
  /\ timestamp' = ts[t]
  /\ Goto(t, "emplace")
  /\ UNCHANGED <<mu, current_view, inflight, future, done, ts, msg, retries, wire>>

-----------------------------------------------------------------------------
(* inflight_requests_.emplace *)

NewInflight(c) ==
  [call |-> c, seen_replicas |-> {}, result_counts |-> [x \in {} |-> 0]]

BeginEmplace(t) ==
  /\ pc[t] = "emplace"
  /\ Goto(t, "emplacing")
  /\ UNCHANGED <<mu, timestamp, current_view, inflight, future, done, ts, msg,
                 retries, wire>>

\* An entry with the same timestamp stays; the new promise is destroyed.
EndEmplace(t) ==
  /\ pc[t] = "emplacing"
  /\ IF ts[t] \in DOMAIN inflight
     THEN /\ future' = [future EXCEPT ![Current(t)] = Broken]
          /\ UNCHANGED inflight
     ELSE /\ inflight' = [x \in DOMAIN inflight \cup {ts[t]} |->
               IF x = ts[t] THEN NewInflight(Current(t)) ELSE inflight[x]]
          /\ UNCHANGED future
  /\ Goto(t, "send")
  /\ UNCHANGED <<mu, timestamp, current_view, done, ts, msg, retries, wire>>

-----------------------------------------------------------------------------
(* Sending, and the rest of the call. *)

primary_hint == current_view % N

SendTo(R, m) ==
  wire' = [r \in Replicas |-> IF r \in R THEN Append(wire[r], m) ELSE wire[r]]

TheRequest(t) == RequestMsg(CurrentCall(t).operation, ts[t], Id)

\* To the replica believed to be the primary or, if there is no connection to
\* it, to all.  invoke_async then returns its future and releases mu_.
Send(t) ==
  /\ pc[t] = "send"
  /\ SendTo(IF primary_hint \in Connected THEN {primary_hint} ELSE Connected,
            TheRequest(t))
  /\ IF CurrentCall(t).how = "invoke"
     THEN Goto(t, "wait") /\ UNCHANGED <<mu, done>>
     ELSE /\ Goto(t, "idle")
          /\ mu' = Free
          /\ done' = [done EXCEPT ![t] = @ + 1]
  /\ UNCHANGED <<timestamp, current_view, inflight, future, ts, msg, retries>>

\* invoke's future is ready: fut.get() returns the value, or throws.
Return(t) ==
  /\ pc[t] = "wait"
  /\ future[Current(t)] # Pending
  /\ Goto(t, "idle")
  /\ done' = [done EXCEPT ![t] = @ + 1]
  /\ UNCHANGED <<mu, timestamp, current_view, inflight, future, ts, msg, retries,
                 wire>>

\* Mutant: invoke sends the request to the same replica again.
RetryHint(t) ==
  /\ pc[t] = "wait"
  /\ future[Current(t)] = Pending
  /\ retries < MaxRetries
  /\ retries' = retries + 1
  /\ SendTo({primary_hint}, TheRequest(t))
  /\ UNCHANGED <<mu, timestamp, current_view, inflight, future, pc, done, ts, msg>>

\* wait_for times out: invoke broadcasts the request and waits again.
Retry(t) ==
  /\ pc[t] = "wait"
  /\ future[Current(t)] = Pending
  /\ retries < MaxRetries
  /\ retries' = retries + 1
  /\ SendTo(Connected, TheRequest(t))
  /\ UNCHANGED <<mu, timestamp, current_view, inflight, future, pc, done, ts, msg>>

-----------------------------------------------------------------------------
(* on_reply *)

\* The loop takes a reply.  current_view_ is written before mu_ is taken.
Receive(m) ==
  /\ pc[Loop] = "idle"
  /\ IF m.client_id # Id
     THEN UNCHANGED <<current_view, msg, pc>>
     ELSE /\ current_view' = Max({current_view, m.view})
          /\ msg' = m
          /\ Goto(Loop, "lock")
  /\ UNCHANGED <<mu, timestamp, inflight, future, done, ts, retries>>

\* std::lock_guard and the beginning of the access to inflight_requests_.
Lock ==
  /\ pc[Loop] = "lock"
  /\ mu = Free
  /\ mu' = Loop
  /\ Goto(Loop, "finding")
  /\ UNCHANGED <<timestamp, current_view, inflight, future, done, ts, msg, retries,
                 wire>>

\* Mutant: f replicas are enough.
AcceptedEarly(e, result) == e.result_counts[result] >= f

Accepted(e, result) == e.result_counts[result] >= f + 1

Without(map, k) == [x \in DOMAIN map \ {k} |-> map[x]]

\* result_counts[result] after its increment; it starts at 0.
Incremented(counts, result) ==
  [x \in DOMAIN counts \cup {result} |->
     IF x # result THEN counts[x]
     ELSE IF x \in DOMAIN counts THEN counts[x] + 1 ELSE 1]

\* Mutant: the replica is not added to seen_replicas.
CountedUnseen(e, m) == [e EXCEPT !.result_counts = Incremented(@, m.result)]

\* The entry after the reply m, which is the first of its replica.
Counted(e, m) ==
  [e EXCEPT !.seen_replicas = @ \cup {m.replica_id},
            !.result_counts = Incremented(@, m.result)]

\* Mutant: the entry is not erased.
CountReplyKept ==
  LET e == Counted(inflight[msg.timestamp], msg)
  IN  /\ inflight' = [inflight EXCEPT ![msg.timestamp] = e]
      /\ future' = IF Accepted(e, msg.result)
                   THEN [future EXCEPT ![e.call] = Ready(msg.result)]
                   ELSE future

CountReply ==
  LET e == Counted(inflight[msg.timestamp], msg)
  IN  IF Accepted(e, msg.result)
      THEN /\ future' = [future EXCEPT ![e.call] = Ready(msg.result)]
           /\ inflight' = Without(inflight, msg.timestamp)
      ELSE /\ inflight' = [inflight EXCEPT ![msg.timestamp] = e]
           /\ UNCHANGED future

\* Mutant: a replica is counted again.
FreshAlways == msg.timestamp \in DOMAIN inflight

\* The request is in flight and the replica has not answered it yet.
Fresh ==
  /\ msg.timestamp \in DOMAIN inflight
  /\ msg.replica_id \notin inflight[msg.timestamp].seen_replicas

\* The rest of on_reply, to the release of mu_.
FinishReply ==
  /\ pc[Loop] = "finding"
  /\ IF Fresh THEN CountReply ELSE UNCHANGED <<inflight, future>>
  /\ mu' = Free
  /\ msg' = <<>>
  /\ Goto(Loop, "idle")
  /\ UNCHANGED <<timestamp, current_view, done, ts, retries, wire>>

-----------------------------------------------------------------------------

ThreadStep(t) ==
  \/ Invoke(t) \/ InvokeAsync(t)
  \/ Load(t) \/ Store(t)
  \/ BeginEmplace(t) \/ EndEmplace(t)
  \/ Send(t) \/ Return(t)

ClientStep == (\E t \in Threads : ThreadStep(t) \/ Retry(t)) \/ Lock \/ FinishReply

-----------------------------------------------------------------------------
(* Properties. *)

\* No two threads are inside inflight_requests_ at the same time: what mu_ is
\* there for (on_reply and invoke_async take it, invoke does not).
NoRace ==
  \A p, q \in Threads \cup {Loop} :
    pc[p] \in {"emplacing", "finding"} /\ pc[q] \in {"emplacing", "finding"} => p = q

\* A request is in flight as long as its future is pending, and no longer: the
\* entry is erased with the set_value, so no late reply sets a promise twice,
\* and no two entries hold one call's promise.  Where a call has one of f + 1
\* votes missing, no result has more than f (on_reply, EndEmplace).
InflightIsPending ==
  \A x \in DOMAIN inflight :
    /\ future[inflight[x].call] = Pending
    /\ \A y \in DOMAIN inflight : inflight[x].call = inflight[y].call => x = y
    /\ \A r \in DOMAIN inflight[x].result_counts :
         inflight[x].result_counts[r] <= f

\* No two calls in flight have the same timestamp, so that no promise is
\* destroyed and every future gets a value or waits for one (invoke_async).
PromisesKept == \A c \in CallIds : future[c].state # "broken"

-----------------------------------------------------------------------------
(* The inductive invariant behind NoRace and InflightIsPending. *)

\* Where a call of invoke_async holds mu_.
Inside == {"load", "store", "emplace", "emplacing", "send"}

\* Call c has its entry, or had it, where the threads are at p after d calls.
IssuedAt(c, d, p) ==
  \/ c[2] <= d[c[1]]
  \/ c[2] = d[c[1]] + 1 /\ p[c[1]] \in {"send", "wait"}

Issued(c) == IssuedAt(c, done, pc)

\* A thread is inside invoke_async, and the loop inside inflight_requests_,
\* exactly while it holds mu_.
LockInv ==
  /\ mu \in Threads \cup {Loop, Free}
  /\ pc \in [Threads \cup {Loop} -> Inside \cup {"idle", "wait", "lock", "finding"}]
  /\ done \in [Threads -> Nat]
  /\ \A t \in Threads :
       /\ pc[t] \in Inside \cup {"idle", "wait"}
       /\ pc[t] # "idle" => done[t] < Len(Calls[t])
       /\ pc[t] = "wait" => CurrentCall(t).how = "invoke"
       /\ mu = t <=> pc[t] \in Inside /\ CurrentCall(t).how = "invoke_async"
  /\ pc[Loop] \in {"idle", "lock", "finding"}
  /\ mu = Loop <=> pc[Loop] = "finding"

\* Every entry belongs to a call that was issued and waits, one entry to a call,
\* and a call that has yet to be issued waits too.
EntryInv ==
  /\ DOMAIN future = CallIds
  /\ \A x \in DOMAIN inflight :
       /\ DOMAIN inflight[x] = {"call", "seen_replicas", "result_counts"}
       /\ inflight[x].call \in CallIds /\ Issued(inflight[x].call)
       /\ \A r \in DOMAIN inflight[x].result_counts :
            inflight[x].result_counts[r] \in 1..f
  /\ InflightIsPending
  /\ \A c \in CallIds : ~Issued(c) => future[c] = Pending

\* Between steps the lock is held where it should be, and the entries and the
\* futures belong together (on_reply, invoke_async, invoke).
ClientInv == LockInv /\ EntryInv

=============================================================================
