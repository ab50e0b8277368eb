---------------------------- MODULE ClientProofs ----------------------------
(***************************************************************************)
(* The client's lock and its requests in flight, for any threads, calls    *)
(* and replicas.                                                           *)
(***************************************************************************)
EXTENDS KvClient, FiniteSetTheorems, TLAPS

\* The prover, unless a proof or a step names another.
USE SMTT(30)

\* The parts of a call's name.
LEMMA CallParts ==
  ASSUME NEW c \in CallIds
  PROVE  c[1] \in Threads /\ c[2] \in 1..Len(Calls[c[1]]) /\ c = <<c[1], c[2]>>
BY DEF CallIds

\* A thread with a call left is at one of its calls.
LEMMA CurrentParts ==
  ASSUME NEW t \in Threads, done \in [Threads -> Nat], done[t] < Len(Calls[t])
  PROVE  /\ Current(t) \in CallIds /\ CurrentCall(t) \in Call
         /\ Current(t)[1] = t /\ Current(t)[2] = done[t] + 1
<1>1. Calls[t] \in Seq(Call) /\ Len(Calls[t]) \in Nat
  BY ClientAssumption
<1>2. done[t] + 1 \in 1..Len(Calls[t])
  BY <1>1
<1> QED
  BY <1>1, <1>2 DEF Current, CurrentCall, CallIds

\* How many equal replies are not enough.
LEMMA FaultBound == f \in Int
BY ClientAssumption DEF f

\* A step that neither sends nor receives for the threads.
LEMMA Still ==
  ASSUME ClientInv, UNCHANGED <<mu, inflight, future, pc, done>>
  PROVE  ClientInv'
BY DEF ClientInv, LockInv, EntryInv, Issued, IssuedAt, InflightIsPending, CurrentCall

\* A step that leaves the entries alone and takes back no issued call.
LEMMA EntriesStay ==
  ASSUME EntryInv, UNCHANGED <<inflight, future>>,
         \A c \in CallIds : Issued(c) => IssuedAt(c, done', pc')
  PROVE  EntryInv'
BY DEF EntryInv, InflightIsPending, Issued

\* A thread that moves on inside its call.
LEMMA IssuedStays ==
  ASSUME NEW t \in Threads \cup {Loop}, NEW label, pc' = [pc EXCEPT ![t] = label],
         LockInv, done' = done,
         pc[t] \in {"send", "wait"} => label \in {"send", "wait"}
  PROVE  \A c \in CallIds : Issued(c) => IssuedAt(c, done', pc')
<1> TAKE c \in CallIds
<1>1. c[1] \in Threads
  BY CallParts
<1>2. pc[c[1]] \in {"send", "wait"} => pc'[c[1]] \in {"send", "wait"}
  BY <1>1 DEF LockInv
<1> QED
  BY <1>2 DEF Issued, IssuedAt

\* A call returns.
LEMMA IssuedReturns ==
  ASSUME NEW t \in Threads, pc' = [pc EXCEPT ![t] = "idle"], LockInv,
         done' = [done EXCEPT ![t] = @ + 1]
  PROVE  \A c \in CallIds : Issued(c) => IssuedAt(c, done', pc')
<1> TAKE c \in CallIds
<1>1. c[1] \in Threads /\ c[2] \in Nat
  BY CallParts, ClientAssumption
<1>2. CASE c[1] = t
  BY <1>1, <1>2 DEF Issued, IssuedAt, LockInv
<1>3. CASE c[1] # t
  BY <1>1, <1>3 DEF Issued, IssuedAt, LockInv
<1> QED
  BY <1>2, <1>3

\* A thread moves to another place where it holds what it held.
LEMMA LockStays ==
  ASSUME LockInv, NEW t \in Threads, NEW label \in Inside, pc[t] \in Inside,
         pc' = [pc EXCEPT ![t] = label], UNCHANGED <<mu, done>>
  PROVE  LockInv'
<1>1. /\ pc' \in [Threads \cup {Loop} -> Inside \cup {"idle", "wait", "lock", "finding"}]
      /\ pc'[t] = label /\ pc'[Loop] = pc[Loop]
      /\ \A u \in Threads \ {t} : pc'[u] = pc[u]
  BY ClientAssumption DEF LockInv
<1>2. pc[t] # "idle" /\ pc[t] # "wait" /\ label # "idle" /\ label # "wait"
  BY DEF Inside
<1> QED
  BY <1>1, <1>2 DEF LockInv, CurrentCall

\* invoke and invoke_async begin.
LEMMA CallStep ==
  ASSUME ClientInv, NEW t \in Threads, Invoke(t) \/ InvokeAsync(t)
  PROVE  ClientInv'
<1>1. /\ pc' = [pc EXCEPT ![t] = "load"] /\ pc[t] = "idle" /\ done' = done
      /\ done[t] < Len(Calls[t]) /\ UNCHANGED <<inflight, future>>
      /\ \/ CurrentCall(t).how = "invoke" /\ mu' = mu
         \/ CurrentCall(t).how = "invoke_async" /\ mu = Free /\ mu' = t
  BY DEF Invoke, InvokeAsync, HasCall, Goto
<1>2. EntryInv'
  BY Zenon, <1>1, IssuedStays, EntriesStay DEF ClientInv
<1>3. /\ pc' \in [Threads \cup {Loop} -> Inside \cup {"idle", "wait", "lock", "finding"}]
      /\ pc'[t] = "load" /\ pc'[Loop] = pc[Loop]
      /\ \A u \in Threads \ {t} : pc'[u] = pc[u]
  BY <1>1, ClientAssumption DEF ClientInv, LockInv, Inside
<1>4. "load" \in Inside /\ "idle" \notin Inside /\ "load" # "idle" /\ "load" # "wait"
  BY DEF Inside
<1>5. Loop \notin Threads /\ Free \notin Threads /\ Loop # Free
  BY ClientAssumption DEF Loop, Free
<1>6. mu' \in Threads \cup {Loop, Free} /\ (mu' = Loop <=> pc'[Loop] = "finding")
  BY <1>1, <1>3, <1>5 DEF ClientInv, LockInv
<1>7. ASSUME NEW u \in Threads
      PROVE  /\ pc'[u] \in Inside \cup {"idle", "wait"}
             /\ pc'[u] # "idle" => done[u] < Len(Calls[u])
             /\ pc'[u] = "wait" => CurrentCall(u).how = "invoke"
             /\ mu' = u <=> pc'[u] \in Inside /\ CurrentCall(u).how = "invoke_async"
  <2>1. CASE u = t
    BY <1>1, <1>3, <1>4, <1>5, <2>1 DEF ClientInv, LockInv
  <2>2. CASE u # t
    BY <1>1, <1>3, <1>5, <2>2 DEF ClientInv, LockInv
  <2> QED BY <2>1, <2>2
<1>8. LockInv'
  BY <1>1, <1>3, <1>6, <1>7 DEF ClientInv, LockInv, CurrentCall
<1> QED
  BY <1>2, <1>8 DEF ClientInv

\* The steps up to the emplace.
LEMMA InsideStep ==
  ASSUME ClientInv, NEW t \in Threads, Load(t) \/ Store(t) \/ BeginEmplace(t)
  PROVE  ClientInv'
<1>1. PICK label \in Inside : pc' = [pc EXCEPT ![t] = label]
  BY DEF Load, Store, BeginEmplace, Goto, Inside
<1>2. /\ pc[t] \in Inside \ {"send", "wait"} /\ done' = done
      /\ UNCHANGED <<mu, inflight, future>>
  BY DEF Load, Store, BeginEmplace, Inside
<1>3. EntryInv'
  BY Zenon, <1>1, <1>2, IssuedStays, EntriesStay DEF ClientInv
<1>4. LockInv'
  BY Zenon, <1>1, <1>2, LockStays DEF ClientInv
<1> QED
  BY <1>3, <1>4 DEF ClientInv

\* The emplace: the call gets its entry, or its promise is destroyed.
LEMMA EmplaceStep ==
  ASSUME ClientInv, NEW t \in Threads, EndEmplace(t)
  PROVE  ClientInv'
<1>0. PICK c : c = Current(t)
  BY Zenon
<1>1. /\ pc[t] = "emplacing" /\ pc' = [pc EXCEPT ![t] = "send"] /\ done' = done /\ mu' = mu
  BY DEF EndEmplace, Goto
<1>2. LockInv'
  BY Zenon, <1>1, LockStays DEF ClientInv, Inside
<1>3. done[t] < Len(Calls[t]) /\ done \in [Threads -> Nat] /\ pc'[t] = "send"
  BY <1>1 DEF ClientInv, LockInv
<1>4. c \in CallIds /\ c[1] = t /\ c[2] = done[t] + 1
  BY <1>0, <1>3, CurrentParts
<1>5. ~Issued(c) /\ IssuedAt(c, done', pc')
  BY <1>1, <1>3, <1>4 DEF Issued, IssuedAt
<1>6. \A b \in CallIds : Issued(b) => IssuedAt(b, done', pc')
  BY Zenon, <1>1, IssuedStays DEF ClientInv
<1>7. \A b \in CallIds : ~IssuedAt(b, done', pc') => b # c /\ ~Issued(b)
  BY <1>5, <1>6
<1>8. CASE ts[t] \in DOMAIN inflight
  <2>1. inflight' = inflight /\ future' = [future EXCEPT ![c] = Broken]
    BY <1>0, <1>8 DEF EndEmplace
  <2>2. \A x \in DOMAIN inflight : inflight[x].call # c
    BY <1>5 DEF ClientInv, EntryInv
  <2>3. InflightIsPending'
    BY <2>1, <2>2 DEF ClientInv, EntryInv, InflightIsPending
  <2> QED BY <1>2, <1>6, <1>7, <2>1, <2>3 DEF ClientInv, EntryInv, Issued
<1>9. CASE ts[t] \notin DOMAIN inflight
  <2> DEFINE e == NewInflight(c)
             x0 == ts[t]
  <2>1. /\ inflight' = [x \in DOMAIN inflight \cup {x0} |->
                          IF x = x0 THEN e ELSE inflight[x]]
        /\ future' = future
    BY <1>0, <1>9 DEF EndEmplace
  <2>2. /\ e.call = c /\ DOMAIN e.result_counts = {}
        /\ DOMAIN e = {"call", "seen_replicas", "result_counts"}
    BY DEF NewInflight
  <2>3. future[c] = Pending /\ \A x \in DOMAIN inflight : inflight[x].call # c
    BY <1>4, <1>5 DEF ClientInv, EntryInv
  <2> HIDE DEF e, x0
  <2>4. /\ DOMAIN inflight' = DOMAIN inflight \cup {x0} /\ inflight'[x0] = e
        /\ \A x \in DOMAIN inflight \ {x0} : inflight'[x] = inflight[x]
    BY <2>1
  <2>5. InflightIsPending'
    BY <2>1, <2>2, <2>3, <2>4 DEF ClientInv, EntryInv, InflightIsPending
  <2>6. \A x \in DOMAIN inflight' :
          /\ DOMAIN inflight'[x] = {"call", "seen_replicas", "result_counts"}
          /\ inflight'[x].call \in CallIds /\ IssuedAt(inflight'[x].call, done', pc')
          /\ \A r \in DOMAIN inflight'[x].result_counts :
               inflight'[x].result_counts[r] \in 1..f
    BY <1>4, <1>5, <1>6, <2>2, <2>4 DEF ClientInv, EntryInv
  <2> QED BY Zenon, <1>2, <1>7, <2>1, <2>5, <2>6 DEF ClientInv, EntryInv, Issued
<1> QED
  BY <1>8, <1>9

\* A thread leaves its call, and mu_ if it holds it.
LEMMA Leaves ==
  ASSUME LockInv, NEW t \in Threads, pc' = [pc EXCEPT ![t] = "idle"],
         done' = [done EXCEPT ![t] = @ + 1],
         \/ mu = t /\ mu' = Free
         \/ mu # t /\ mu' = mu
  PROVE  LockInv'
<1>1. /\ Loop \notin Threads /\ Free \notin Threads /\ Loop # Free
      /\ "idle" \notin Inside
  BY ClientAssumption DEF Loop, Free, Inside
<1>2. /\ pc' \in [Threads \cup {Loop} -> Inside \cup {"idle", "wait", "lock", "finding"}]
      /\ pc'[t] = "idle" /\ pc'[Loop] = pc[Loop]
      /\ \A u \in Threads \ {t} : pc'[u] = pc[u] /\ done'[u] = done[u]
      /\ done' \in [Threads -> Nat]
  BY <1>1 DEF LockInv
<1>3. mu' # t /\ \A u \in Threads \ {t} : mu' = u <=> mu = u
  BY <1>1
<1>4. mu' \in Threads \cup {Loop, Free} /\ (mu' = Loop <=> pc'[Loop] = "finding")
  BY <1>1, <1>2 DEF LockInv
<1>5. \A u \in Threads \ {t} : CurrentCall(u)' = CurrentCall(u)
  BY <1>2 DEF CurrentCall
<1>6. ASSUME NEW u \in Threads
      PROVE  /\ pc'[u] \in Inside \cup {"idle", "wait"}
             /\ pc'[u] # "idle" => done'[u] < Len(Calls[u])
             /\ pc'[u] = "wait" => CurrentCall(u)'.how = "invoke"
             /\ mu' = u <=> pc'[u] \in Inside /\ CurrentCall(u)'.how = "invoke_async"
  <2>1. CASE u = t
    BY <1>1, <1>2, <1>3, <2>1
  <2>2. CASE u # t
    BY <1>2, <1>3, <1>5, <2>2 DEF LockInv
  <2> QED BY <2>1, <2>2
<1> QED
  BY <1>2, <1>4, <1>6 DEF LockInv

\* The request is sent: invoke waits, invoke_async returns and releases mu_.
LEMMA SendStep ==
  ASSUME ClientInv, NEW t \in Threads, Send(t)
  PROVE  ClientInv'
<1>1. pc[t] = "send" /\ UNCHANGED <<inflight, future>>
  BY DEF Send
<1>2. /\ Loop \notin Threads /\ Free \notin Threads /\ Loop # Free
      /\ "send" \in Inside /\ "idle" \notin Inside /\ "wait" \notin Inside
  BY ClientAssumption DEF Loop, Free, Inside
<1>3. CASE CurrentCall(t).how = "invoke"
  <2>1. pc' = [pc EXCEPT ![t] = "wait"] /\ UNCHANGED <<mu, done>>
    BY <1>3 DEF Send, Goto
  <2>2. EntryInv'
    BY Zenon, <1>1, <2>1, IssuedStays, EntriesStay DEF ClientInv
  <2>3. /\ pc' \in [Threads \cup {Loop} -> Inside \cup {"idle", "wait", "lock", "finding"}]
        /\ pc'[t] = "wait" /\ pc'[Loop] = pc[Loop]
        /\ \A u \in Threads \ {t} : pc'[u] = pc[u]
    BY <1>2, <2>1 DEF ClientInv, LockInv
  <2>4. LockInv'
    BY <1>1, <1>2, <1>3, <2>1, <2>3 DEF ClientInv, LockInv, CurrentCall
  <2> QED BY <2>2, <2>4 DEF ClientInv
<1>4. CASE CurrentCall(t).how # "invoke"
  <2>1. /\ pc' = [pc EXCEPT ![t] = "idle"] /\ mu' = Free
        /\ done' = [done EXCEPT ![t] = @ + 1]
    BY <1>4 DEF Send, Goto
  <2>2. EntryInv'
    BY Zenon, <1>1, <2>1, IssuedReturns, EntriesStay DEF ClientInv
  <2>3. CurrentCall(t).how = "invoke_async"
    <3>1. CurrentCall(t) \in Call
      BY <1>1, CurrentParts DEF ClientInv, LockInv
    <3> QED BY <1>4, <3>1 DEF Call
  <2>4. mu = t
    BY <1>1, <1>2, <2>3 DEF ClientInv, LockInv
  <2> QED BY Zenon, <1>2, <2>1, <2>2, <2>4, Leaves DEF ClientInv
<1> QED
  BY <1>3, <1>4

\* invoke returns.
LEMMA ReturnStep ==
  ASSUME ClientInv, NEW t \in Threads, Return(t)
  PROVE  ClientInv'
<1>1. /\ pc[t] = "wait" /\ pc' = [pc EXCEPT ![t] = "idle"] /\ mu' = mu
      /\ done' = [done EXCEPT ![t] = @ + 1] /\ UNCHANGED <<inflight, future>>
  BY DEF Return, Goto
<1>2. EntryInv'
  BY Zenon, <1>1, IssuedReturns, EntriesStay DEF ClientInv
<1>3. mu # t
  BY <1>1 DEF ClientInv, LockInv, Inside
<1> QED
  BY Zenon, <1>1, <1>2, <1>3, Leaves DEF ClientInv

\* The event loop takes a reply, or the lock.
LEMMA LoopStep ==
  ASSUME ClientInv, pc[Loop] \in {"idle", "lock"}, UNCHANGED <<inflight, future, done>>,
         \/ pc' = [pc EXCEPT ![Loop] = "lock"] /\ mu' = mu
         \/ pc' = [pc EXCEPT ![Loop] = "finding"] /\ mu = Free /\ mu' = Loop
  PROVE  ClientInv'
<1>1. PICK label \in {"lock", "finding"} : pc' = [pc EXCEPT ![Loop] = label]
  OBVIOUS
<1>2. EntryInv'
  BY Zenon, <1>1, IssuedStays, EntriesStay DEF ClientInv
<1>3. Loop \notin Threads /\ Free \notin Threads /\ Loop # Free
  BY ClientAssumption DEF Loop, Free
<1>4. /\ pc' \in [Threads \cup {Loop} -> Inside \cup {"idle", "wait", "lock", "finding"}]
      /\ pc'[Loop] = label /\ \A u \in Threads : pc'[u] = pc[u]
  BY <1>1, <1>3 DEF ClientInv, LockInv
<1>5. mu' = Loop <=> pc'[Loop] = "finding"
  BY <1>3 DEF ClientInv, LockInv
<1>6. \A u \in Threads : mu' = u <=> mu = u
  BY <1>3
<1>7. ASSUME NEW u \in Threads
      PROVE  /\ pc'[u] \in Inside \cup {"idle", "wait"}
             /\ pc'[u] # "idle" => done'[u] < Len(Calls[u])
             /\ pc'[u] = "wait" => CurrentCall(u)'.how = "invoke"
             /\ mu' = u <=> pc'[u] \in Inside /\ CurrentCall(u)'.how = "invoke_async"
  <2>1. pc'[u] = pc[u] /\ done' = done /\ CurrentCall(u)' = CurrentCall(u)
    BY <1>4 DEF CurrentCall
  <2>2. /\ pc[u] \in Inside \cup {"idle", "wait"}
        /\ pc[u] # "idle" => done[u] < Len(Calls[u])
        /\ pc[u] = "wait" => CurrentCall(u).how = "invoke"
        /\ mu = u <=> pc[u] \in Inside /\ CurrentCall(u).how = "invoke_async"
    BY DEF ClientInv, LockInv
  <2> QED BY Zenon, <1>6, <2>1, <2>2
<1>8. mu' \in Threads \cup {Loop, Free} /\ done' \in [Threads -> Nat]
  BY DEF ClientInv, LockInv
<1>9. LockInv'
  BY Zenon, <1>4, <1>5, <1>7, <1>8 DEF LockInv
<1> QED
  BY <1>2, <1>9 DEF ClientInv

\* A reply that does not complete its request is counted.
LEMMA CountedEntry ==
  ASSUME EntryInv, NEW k \in DOMAIN inflight, NEW m
  PROVE  LET e == Counted(inflight[k], m)
         IN  /\ e.call = inflight[k].call
             /\ DOMAIN e = {"call", "seen_replicas", "result_counts"}
             /\ ~Accepted(e, m.result) =>
                  \A r \in DOMAIN e.result_counts : e.result_counts[r] \in 1..f
<1> DEFINE o == inflight[k]
           n == Incremented(o.result_counts, m.result)
           e == Counted(o, m)
<1>1. DOMAIN o = {"call", "seen_replicas", "result_counts"}
  BY DEF EntryInv
<1>2. \A r \in DOMAIN o.result_counts : o.result_counts[r] \in 1..f
  BY DEF EntryInv
<1>3. /\ DOMAIN n = DOMAIN o.result_counts \cup {m.result}
      /\ \A r \in DOMAIN n : r # m.result => n[r] = o.result_counts[r]
      /\ n[m.result] = IF m.result \in DOMAIN o.result_counts
                       THEN o.result_counts[m.result] + 1 ELSE 1
  BY DEF Incremented
<1>4. /\ e.call = o.call /\ e.result_counts = n
      /\ DOMAIN e = {"call", "seen_replicas", "result_counts"}
  BY <1>1 DEF Counted
<1> HIDE DEF o, n, e
<1>5. n[m.result] \in Int /\ n[m.result] >= 1
  BY <1>2, <1>3, FaultBound
<1>6. ASSUME ~Accepted(e, m.result), NEW r \in DOMAIN n PROVE n[r] \in 1..f
  <2>1. CASE r = m.result
    BY <1>4, <1>5, <1>6, <2>1, FaultBound DEF Accepted
  <2>2. CASE r # m.result
    BY <1>2, <1>3, <2>2
  <2> QED BY <2>1, <2>2
<1> QED
  BY <1>4, <1>6 DEF e, o

\* The rest of on_reply.
LEMMA FinishStep ==
  ASSUME ClientInv, FinishReply
  PROVE  ClientInv'
<1>1. /\ pc[Loop] = "finding" /\ pc' = [pc EXCEPT ![Loop] = "idle"] /\ mu' = Free
      /\ done' = done
  BY DEF FinishReply, Goto
<1>2. Loop \notin Threads /\ Free \notin Threads /\ Loop # Free /\ mu = Loop
  BY <1>1, ClientAssumption DEF Loop, Free, ClientInv, LockInv
<1>3. LockInv'
  <2>1. /\ pc' \in [Threads \cup {Loop} -> Inside \cup {"idle", "wait", "lock", "finding"}]
        /\ pc'[Loop] = "idle" /\ \A u \in Threads : pc'[u] = pc[u]
    BY <1>1, <1>2 DEF ClientInv, LockInv
  <2> QED BY <1>1, <1>2, <2>1 DEF ClientInv, LockInv, CurrentCall
<1>4. \A b \in CallIds : Issued(b) => IssuedAt(b, done', pc')
  BY Zenon, <1>1, IssuedStays DEF ClientInv
<1>5. CASE ~Fresh
  <2>1. UNCHANGED <<inflight, future>>
    BY <1>5 DEF FinishReply
  <2> QED BY <1>3, <1>4, <2>1, EntriesStay DEF ClientInv
<1>6. CASE Fresh
  <2>0. PICK k, m : k = msg.timestamp /\ m = msg
    BY Zenon
  <2>1. PICK e : e = Counted(inflight[k], m)
    BY Zenon
  <2>2. k \in DOMAIN inflight
    BY <1>6, <2>0 DEF Fresh
  <2>3. /\ e.call = inflight[k].call
        /\ DOMAIN e = {"call", "seen_replicas", "result_counts"}
        /\ ~Accepted(e, m.result) =>
             \A r \in DOMAIN e.result_counts : e.result_counts[r] \in 1..f
    BY <2>1, <2>2, CountedEntry DEF ClientInv
  <2>4. e.call \in CallIds /\ Issued(e.call)
    BY <2>2, <2>3 DEF ClientInv, EntryInv
  <2>5. CASE Accepted(e, m.result)
    <3>1. /\ future' = [future EXCEPT ![e.call] = Ready(m.result)]
          /\ inflight' = [x \in DOMAIN inflight \ {k} |-> inflight[x]]
      BY <1>6, <2>0, <2>1, <2>5 DEF FinishReply, CountReply, Without
    <3>2. \A x \in DOMAIN inflight \ {k} : inflight[x].call # e.call
      BY <2>2, <2>3 DEF ClientInv, EntryInv, InflightIsPending
    <3>3. InflightIsPending'
      BY <3>1, <3>2 DEF ClientInv, EntryInv, InflightIsPending
    <3> QED BY <1>3, <1>4, <2>4, <3>1, <3>3 DEF ClientInv, EntryInv, Issued
  <2>6. CASE ~Accepted(e, m.result)
    <3>1. inflight' = [inflight EXCEPT ![k] = e] /\ future' = future
      BY <1>6, <2>0, <2>1, <2>6 DEF FinishReply, CountReply
    <3>2. /\ DOMAIN inflight' = DOMAIN inflight /\ inflight'[k] = e
          /\ \A x \in DOMAIN inflight \ {k} : inflight'[x] = inflight[x]
      BY <2>2, <3>1
    <3>3. \A x \in DOMAIN inflight : inflight'[x].call = inflight[x].call
      BY <2>3, <3>2
    <3>4. \A x \in DOMAIN inflight : \A r \in DOMAIN inflight'[x].result_counts :
            inflight'[x].result_counts[r] \in 1..f /\ inflight'[x].result_counts[r] <= f
      BY <2>3, <2>6, <3>2, FaultBound DEF ClientInv, EntryInv
    <3>5. InflightIsPending'
      <4>1. \A x \in DOMAIN inflight : future[inflight[x].call] = Pending
        BY DEF ClientInv, EntryInv, InflightIsPending
      <4>2. \A x, y \in DOMAIN inflight : inflight[x].call = inflight[y].call => x = y
        BY DEF ClientInv, EntryInv, InflightIsPending
      <4>3. \A x \in DOMAIN inflight : future'[inflight'[x].call] = Pending
        BY Zenon, <3>1, <3>3, <4>1
      <4>4. \A x, y \in DOMAIN inflight : inflight'[x].call = inflight'[y].call => x = y
        BY <3>3, <4>2
      <4> QED BY Zenon, <3>2, <3>4, <4>3, <4>4 DEF InflightIsPending
    <3>6. \A x \in DOMAIN inflight' :
            /\ DOMAIN inflight'[x] = {"call", "seen_replicas", "result_counts"}
            /\ inflight'[x].call \in CallIds /\ IssuedAt(inflight'[x].call, done', pc')
      BY <1>4, <2>3, <3>2, <3>3 DEF ClientInv, EntryInv
    <3>7. DOMAIN future' = CallIds
      BY <3>1 DEF ClientInv, EntryInv
    <3>8. \A c \in CallIds : ~IssuedAt(c, done', pc') => future'[c] = Pending
      BY Zenon, <1>4, <3>1 DEF ClientInv, EntryInv
    <3>9. \A x \in DOMAIN inflight' : \A r \in DOMAIN inflight'[x].result_counts :
            inflight'[x].result_counts[r] \in 1..f
      BY Zenon, <3>2, <3>4
    <3>10. EntryInv'
      BY Zenon, <3>5, <3>6, <3>7, <3>8, <3>9 DEF EntryInv, Issued
    <3> QED BY Zenon, <1>3, <3>10 DEF ClientInv
  <2> QED BY <2>5, <2>6
<1> QED
  BY <1>5, <1>6

-----------------------------------------------------------------------------

\* The client before its first call.
LEMMA ClientInit == Init => ClientInv
<1> SUFFICES ASSUME Init PROVE ClientInv
  OBVIOUS
<1>1. /\ mu = Free /\ inflight = [x \in {} |-> 0] /\ future = [c \in CallIds |-> Pending]
      /\ pc = [t \in Threads \cup {Loop} |-> "idle"] /\ done = [t \in Threads |-> 0]
  BY DEF Init, InitClient
<1>2. Loop \notin Threads /\ Free \notin Threads /\ Loop # Free /\ "idle" \notin Inside
  BY ClientAssumption DEF Loop, Free, Inside
<1>3. LockInv
  BY <1>1, <1>2 DEF LockInv
<1>4. EntryInv
  BY <1>1 DEF EntryInv, InflightIsPending
<1> QED BY <1>3, <1>4 DEF ClientInv

\* The inductive invariant of the client, for any number of threads, calls,
\* retries and replicas, and whatever replies arrive (on_reply, invoke_async, and
\* invoke where its emplace and on_reply's find take effect one after the other).
THEOREM ClientInductive == Spec => []ClientInv
<1>1. Init => ClientInv
  BY ClientInit
<1>2. ClientInv /\ [Next]_vars => ClientInv'
  <2> SUFFICES ASSUME ClientInv, [Next]_vars PROVE ClientInv'
    OBVIOUS
  <2>1. ASSUME NEW t \in Threads, ThreadStep(t) PROVE ClientInv'
    BY <2>1, CallStep, InsideStep, EmplaceStep, SendStep, ReturnStep DEF ThreadStep
  <2>2. ASSUME NEW t \in Threads, Retry(t) PROVE ClientInv'
    BY <2>2, Still DEF Retry
  <2>3. ASSUME NEW m, Receive(m) PROVE ClientInv'
    <3>1. CASE m.client_id # Id
      BY <2>3, <3>1, Still DEF Receive
    <3>2. CASE m.client_id = Id
      BY <2>3, <3>2, LoopStep DEF Receive, Goto
    <3> QED BY <3>1, <3>2
  <2>4. CASE Lock
    BY <2>4, LoopStep DEF Lock, Goto
  <2>5. CASE FinishReply
    BY <2>5, FinishStep
  <2>6. ASSUME NEW r \in Replicas, Execute(r) \/ Ignore(r) PROVE ClientInv'
    BY <2>6, Still DEF Execute, Ignore
  <2>7. ASSUME NEW r \in Replicas, ReplyArrives(r) PROVE ClientInv'
    BY <2>3, <2>7 DEF ReplyArrives
  <2>8. CASE FaultyReplyArrives
    BY <2>3, <2>8 DEF FaultyReplyArrives
  <2>9. CASE UNCHANGED vars
    BY <2>9, Still DEF vars, clientVars
  <2> QED
    BY <2>1, <2>2, <2>4, <2>5, <2>6, <2>7, <2>8, <2>9 DEF Next, ClientStep
<1> QED
  BY <1>1, <1>2, PTL DEF Spec

\* Every call is an invoke_async.
AsyncOnly ==
  \A t \in Threads : \A k \in 1..Len(Calls[t]) : Calls[t][k].how = "invoke_async"

\* As long as every call is an invoke_async, no two threads are inside
\* inflight_requests_ at once (invoke_async, on_reply).
THEOREM AsyncIsRaceFree ==
  ASSUME AsyncOnly
  PROVE  Spec => []NoRace
<1>1. ClientInv => NoRace
  <2> SUFFICES ASSUME ClientInv, NEW p \in Threads \cup {Loop}, NEW q \in Threads \cup {Loop},
                      pc[p] \in {"emplacing", "finding"}, pc[q] \in {"emplacing", "finding"}
               PROVE  p = q
    BY DEF NoRace
  <2>1. ASSUME NEW u \in Threads \cup {Loop}, pc[u] \in {"emplacing", "finding"}
        PROVE  mu = u
    <3>1. CASE u = Loop
      <4>1. pc[Loop] = "finding"
        BY <2>1, <3>1 DEF ClientInv, LockInv
      <4> QED BY <3>1, <4>1 DEF ClientInv, LockInv
    <3>2. CASE u \in Threads
      <4>1. pc[u] = "emplacing" /\ pc[u] \in Inside
        BY <2>1, <3>2 DEF ClientInv, LockInv, Inside
      <4>2. CurrentCall(u).how = "invoke_async"
        <5>1. done[u] \in Nat /\ done[u] < Len(Calls[u])
          BY <3>2, <4>1 DEF ClientInv, LockInv
        <5>2. Len(Calls[u]) \in Nat
          BY <3>2, ClientAssumption
        <5>3. done[u] + 1 \in 1..Len(Calls[u])
          BY <5>1, <5>2
        <5> QED BY <3>2, <5>3 DEF CurrentCall, AsyncOnly
      <4> QED BY <3>2, <4>1, <4>2 DEF ClientInv, LockInv
    <3> QED BY <3>1, <3>2
  <2> QED BY <2>1
<1> QED
  BY <1>1, ClientInductive, PTL

\* A request in flight has a future that waits, and no result
\* of it has more than f votes (on_reply, invoke, invoke_async).
THEOREM InflightWaits == Spec => []InflightIsPending
<1>1. ClientInv => InflightIsPending
  BY DEF ClientInv, EntryInv
<1> QED
  BY <1>1, ClientInductive, PTL

-----------------------------------------------------------------------------
(* Timestamps and answers, where every call is an invoke_async. *)

\* Only the holder of mu_ is inside a call.
LEMMA AsyncAlone ==
  ASSUME ClientInv, AsyncOnly
  PROVE  /\ \A t \in Threads : pc[t] # "idle" => pc[t] \in Inside /\ mu = t
         /\ \A t, u \in Threads : pc[t] # "idle" /\ pc[u] # "idle" => t = u
<1>1. ASSUME NEW t \in Threads, pc[t] # "idle" PROVE pc[t] \in Inside /\ mu = t
  <2>1. done[t] \in Nat /\ done[t] < Len(Calls[t]) /\ Len(Calls[t]) \in Nat
    BY <1>1, ClientAssumption DEF ClientInv, LockInv
  <2>2. done[t] + 1 \in 1..Len(Calls[t])
    BY <2>1
  <2>3. CurrentCall(t).how = "invoke_async"
    BY <2>2 DEF CurrentCall, AsyncOnly
  <2> QED BY <1>1, <2>3 DEF ClientInv, LockInv
<1> QED
  BY <1>1

\* The increment of a uint64_t.
LEMMA NextStamp ==
  ASSUME NEW x \in 0..(Word64 - 1)
  PROVE  (x + 1) % Word64 = IF x + 1 = Word64 THEN 0 ELSE x + 1
BY ClientAssumption

\* A sequence is one of its own elements.
LEMMA IsSeqIntro ==
  ASSUME NEW S, NEW s \in Seq(S)
  PROVE  IsSeq(s)
BY DEF IsSeq

\* The elements of an extended sequence.
LEMMA AppendAt ==
  ASSUME NEW S, NEW s \in Seq(S), NEW e
  PROVE  \A i \in 1..Len(Append(s, e)) :
           Append(s, e)[i] = e \/ (i \in 1..Len(s) /\ Append(s, e)[i] = s[i])
<1>1. Len(Append(s, e)) = Len(s) + 1 /\ Len(s) \in Nat
  OBVIOUS
<1>2. \A i \in 1..Len(s) : Append(s, e)[i] = s[i]
  OBVIOUS
<1>3. Append(s, e)[Len(s) + 1] = e
  OBVIOUS
<1> QED
  BY <1>1, <1>2, <1>3

\* The requests on their way and the ones executed, where neither changes.
LEMMA UsedSame ==
  ASSUME UNCHANGED <<wire, order>>
  PROVE  /\ Sent' = Sent /\ Executed' = Executed
         /\ DOMAIN inflight' \subseteq DOMAIN inflight => Used' \subseteq Used
BY DEF Sent, Executed, Used

\* Where a call has incremented timestamp_ and not returned.
After == {"emplace", "emplacing", "send", "wait"}

\* A step that takes no thread over the increment.
LEMMA StampedStays ==
  ASSUME LockInv, NEW t \in Threads \cup {Loop}, NEW label,
         pc' = [pc EXCEPT ![t] = label], done' = done, pc[t] \in After <=> label \in After
  PROVE  StampedCalls' = StampedCalls
<1>1. ASSUME NEW c \in CallIds PROVE Stamped(c)' <=> Stamped(c)
  <2>1. c[1] \in Threads
    BY CallParts
  <2>2. pc'[c[1]] \in After <=> pc[c[1]] \in After
    BY <2>1 DEF LockInv
  <2> QED BY <2>2 DEF Stamped, After
<1> QED
  BY <1>1 DEF StampedCalls

\* A step that leaves timestamp_ alone, and takes no timestamp into use but the
\* current one.
LEMMA StampsStay ==
  ASSUME StampInv, timestamp' = timestamp, StampedCalls' = StampedCalls,
         ts' \in [Threads -> 0..(Word64 - 1)],
         \/ Used' \subseteq Used
         \/ Used' \subseteq Used \cup {timestamp} /\ 0 < Cardinality(StampedCalls),
         \A t \in Threads :
           /\ pc'[t] = "store" => ts'[t] = (timestamp + 1) % Word64
           /\ pc'[t] \in {"emplace", "emplacing", "send"} => ts'[t] = timestamp
           /\ pc'[t] \in {"emplace", "emplacing"} => timestamp \notin Used'
  PROVE  StampInv'
<1>1. timestamp \in 0..(Word64 - 1)
  BY DEF StampInv
<1>2. ASSUME NEW x \in Used'
      PROVE  x \in 0..(Word64 - 1) /\ Age(x)' < Cardinality(StampedCalls)
  <2>1. Age(x)' = Age(x)
    BY DEF Age
  <2>2. CASE x \in Used
    BY <2>1, <2>2 DEF StampInv
  <2>3. CASE x = timestamp /\ 0 < Cardinality(StampedCalls)
    BY <1>1, <2>1, <2>3, ClientAssumption DEF Age
  <2> QED BY <1>2, <2>2, <2>3
<1> QED
  BY <1>1, <1>2 DEF StampInv

\* A result given stays given.
LEMMA GivenStays ==
  ASSUME \A n \in 1..Len(order) : n \in 1..Len(order') /\ order'[n] = order[n],
         NEW x, NEW result, Given(x, result)
  PROVE  Given(x, result)'
BY DEF Given

\* A step that sets no future and keeps what was executed.
LEMMA AnswersStay ==
  ASSUME OwnAnswer, PromisesKept, future' = future,
         \A n \in 1..Len(order) : n \in 1..Len(order') /\ order'[n] = order[n]
  PROVE  OwnAnswer' /\ PromisesKept'
BY DEF OwnAnswer, PromisesKept

\* A step that leaves requests, entries and votes alone.
LEMMA VotesStay ==
  ASSUME VoteInv, UNCHANGED <<wire, order, inflight>>,
         \A t \in Threads : pc'[t] = "send" =>
           pc[t] = "send" /\ ts'[t] = ts[t] /\ done'[t] = done[t],
         pc'[Loop] # "idle" =>
           msg'.replica_id \in Faulty \/ Given(msg'.timestamp, msg'.result)
  PROVE  VoteInv'
<1>1. Sent' = Sent /\ Executed' = Executed
  BY UsedSame
<1>2. \A x, r : Given(x, r)' <=> Given(x, r)
  BY DEF Given
<1>3. \A t \in Threads : pc'[t] = "send" /\ ts'[t] \in DOMAIN inflight =>
        inflight[ts'[t]].call = Current(t)'
  BY DEF VoteInv, Current
<1>4. \A r \in Replicas : IsSeq(wire[r])'
  <2>1. \A r \in Replicas : IsSeq(wire[r])
    BY ZenonT(40) DEF VoteInv
  <2>2. \A r : IsSeq(wire[r]) <=> IsSeq(wire[r])'
    BY ZenonT(40) DEF IsSeq
  <2> QED BY Zenon, <2>1, <2>2
<1>5. DOMAIN wire' = Replicas /\ IsSeq(order)'
  BY ZenonT(40) DEF VoteInv, IsSeq
<1>6. \A m \in Sent' \cup Executed' :
        m.timestamp \in DOMAIN inflight' =>
          m.operation = OperationOf(inflight'[m.timestamp].call)
  BY <1>1 DEF VoteInv
<1>7. \A x \in DOMAIN inflight : \A r \in DOMAIN inflight[x].result_counts :
        \/ Given(x, r)'
        \/ inflight[x].result_counts[r] <= Cardinality(inflight[x].seen_replicas \cap Faulty)
  <2> SUFFICES ASSUME NEW x \in DOMAIN inflight,
                      NEW r \in DOMAIN inflight[x].result_counts
               PROVE  \/ Given(x, r)'
                      \/ inflight[x].result_counts[r]
                           <= Cardinality(inflight[x].seen_replicas \cap Faulty)
    BY Zenon
  <2>1. \/ Given(x, r)
        \/ inflight[x].result_counts[r] <= Cardinality(inflight[x].seen_replicas \cap Faulty)
    BY ZenonT(40) DEF VoteInv
  <2> QED BY Zenon, <1>2, <2>1
<1> QED
  BY Zenon, <1>2, <1>3, <1>4, <1>5, <1>6, <1>7 DEF VoteInv

\* The beginning of a call, the load and the beginning of the emplace.
LEMMA QuietAnswer ==
  ASSUME AsyncOnly, AnswerInv, NEW t \in Threads, order' = order,
         Invoke(t) \/ InvokeAsync(t) \/ Load(t) \/ BeginEmplace(t)
  PROVE  AnswerInv'
<1>1. /\ UNCHANGED <<timestamp, inflight, future, msg, wire, done>>
      /\ \/ /\ pc' = [pc EXCEPT ![t] = "load"] /\ pc[t] = "idle" /\ ts' = ts
         \/ /\ pc' = [pc EXCEPT ![t] = "store"] /\ pc[t] = "load"
            /\ ts' = [ts EXCEPT ![t] = (timestamp + 1) % Word64]
         \/ /\ pc' = [pc EXCEPT ![t] = "emplacing"] /\ pc[t] = "emplace" /\ ts' = ts
  BY DEF Invoke, InvokeAsync, Load, BeginEmplace, HasCall, Goto
<1>2. ClientInv' /\ ClientInv
  BY CallStep, InsideStep DEF AnswerInv
<1>3. /\ timestamp \in 0..(Word64 - 1) /\ ts \in [Threads -> 0..(Word64 - 1)]
      /\ (timestamp + 1) % Word64 \in 0..(Word64 - 1)
  BY NextStamp, ClientAssumption DEF AnswerInv, StampInv
<1>4. StampedCalls' = StampedCalls
  BY ZenonT(40), <1>1, <1>2, StampedStays DEF After, ClientInv
<1>5. Used' \subseteq Used
  BY <1>1, UsedSame
<1>6. /\ t \in DOMAIN pc /\ Loop # t /\ Loop \in DOMAIN pc /\ Threads \subseteq DOMAIN pc
  BY <1>2, ClientAssumption DEF ClientInv, LockInv
<1>7. StampInv'
  <2>1. ts' \in [Threads -> 0..(Word64 - 1)]
    BY <1>1, <1>3
  <2>2. ASSUME NEW u \in Threads
        PROVE  /\ pc'[u] = "store" => ts'[u] = (timestamp + 1) % Word64
               /\ pc'[u] \in {"emplace", "emplacing", "send"} => ts'[u] = timestamp
               /\ pc'[u] \in {"emplace", "emplacing"} => timestamp \notin Used'
    <3>1. CASE u = t
      BY ZenonT(40), <1>1, <1>3, <1>5, <1>6, <3>1 DEF AnswerInv, StampInv
    <3>2. CASE u # t
      <4>1. pc'[u] = pc[u] /\ ts'[u] = ts[u]
        BY <1>1, <1>3, <1>6, <3>2
      <4> QED BY <1>5, <4>1 DEF AnswerInv, StampInv
    <3> QED BY <3>1, <3>2
  <2> QED BY Zenon, <1>1, <1>4, <1>5, <2>1, <2>2, StampsStay DEF AnswerInv
<1>8. VoteInv'
  <2>1. \A u \in Threads : pc'[u] = "send" =>
           pc[u] = "send" /\ ts'[u] = ts[u] /\ done'[u] = done[u]
    BY <1>1, <1>3, <1>6
  <2>2. pc'[Loop] = pc[Loop]
    BY <1>1, <1>6
  <2>3. pc'[Loop] # "idle" =>
           msg'.replica_id \in Faulty \/ Given(msg'.timestamp, msg'.result)
    BY <1>1, <2>2 DEF AnswerInv, VoteInv
  <2> QED BY Zenon, <1>1, <2>1, <2>3, VotesStay DEF AnswerInv
<1>9. OwnAnswer' /\ PromisesKept'
  BY ZenonT(40), <1>1, AnswersStay DEF AnswerInv
<1> QED
  BY Zenon, <1>2, <1>7, <1>8, <1>9 DEF AnswerInv

\* One more increment, as long as there are fewer than Word64 of them, makes every
\* timestamp in use one older and uses a fresh one.
LEMMA AgeGrows ==
  ASSUME NEW x \in 0..(Word64 - 1), NEW n \in Nat, n < Word64, Age(x) < n,
         timestamp \in 0..(Word64 - 1), timestamp' = (timestamp + 1) % Word64
  PROVE  Age(x)' = Age(x) + 1 /\ x # timestamp' /\ timestamp' \in 0..(Word64 - 1)
<1>1. timestamp' = IF timestamp + 1 = Word64 THEN 0 ELSE timestamp + 1
  BY NextStamp
<1> QED
  BY <1>1, ClientAssumption DEF Age

\* The store of the incremented timestamp.
LEMMA StoreAnswer ==
  ASSUME AsyncOnly, IsFiniteSet(CallIds), Cardinality(CallIds) <= Word64,
         AnswerInv, NEW t \in Threads, order' = order, Store(t)
  PROVE  AnswerInv'
<1>0. PICK c : c = Current(t)
  BY Zenon
<1>1. /\ UNCHANGED <<inflight, future, msg, wire, done, ts>> /\ pc[t] = "store"
      /\ pc' = [pc EXCEPT ![t] = "emplace"] /\ timestamp' = ts[t]
  BY DEF Store, Goto
<1>2. ClientInv' /\ ClientInv
  BY InsideStep DEF AnswerInv
<1>3. /\ timestamp \in 0..(Word64 - 1) /\ ts \in [Threads -> 0..(Word64 - 1)]
      /\ timestamp' = (timestamp + 1) % Word64 /\ timestamp' \in 0..(Word64 - 1)
  BY ZenonT(40), <1>1 DEF AnswerInv, StampInv
<1>4. /\ t \in DOMAIN pc /\ Loop # t /\ Loop \in DOMAIN pc /\ Threads \subseteq DOMAIN pc
      /\ done \in [Threads -> Nat] /\ done[t] < Len(Calls[t])
  BY <1>1, <1>2, ClientAssumption DEF ClientInv, LockInv
<1>5. c \in CallIds /\ c[1] = t /\ c[2] = done[t] + 1
  BY <1>0, <1>4, CurrentParts
<1>6. StampedCalls' = StampedCalls \cup {c} /\ c \notin StampedCalls
  <2>1. ASSUME NEW b \in CallIds PROVE Stamped(b)' <=> Stamped(b) \/ b = c
    <3>1. b[1] \in Threads /\ b = <<b[1], b[2]>> /\ c = <<c[1], c[2]>>
      BY <1>5, CallParts
    <3>2. CASE b[1] # t
      <4>1. pc'[b[1]] = pc[b[1]] /\ b # c
        BY <1>1, <1>4, <1>5, <3>1, <3>2
      <4> QED BY <1>1, <4>1 DEF Stamped
    <3>3. CASE b[1] = t
      <4>1. pc'[t] = "emplace" /\ pc[t] = "store" /\ (b = c <=> b[2] = done[t] + 1)
        BY <1>1, <1>4, <1>5, <3>1, <3>3
      <4> QED BY <1>1, <3>3, <4>1 DEF Stamped
    <3> QED BY <3>2, <3>3
  <2>2. ~Stamped(c)
    BY <1>1, <1>4, <1>5 DEF Stamped
  <2> QED BY <1>5, <2>1, <2>2 DEF StampedCalls
<1>7. /\ Cardinality(StampedCalls) \in Nat
      /\ Cardinality(StampedCalls)' = Cardinality(StampedCalls) + 1
      /\ Cardinality(StampedCalls) < Word64
  <2>1. StampedCalls \subseteq CallIds /\ StampedCalls' \subseteq CallIds
    BY <1>5, <1>6 DEF StampedCalls
  <2>2. IsFiniteSet(StampedCalls) /\ Cardinality(StampedCalls') <= Cardinality(CallIds)
    BY <2>1, FS_Subset
  <2>3. Cardinality(StampedCalls \cup {c}) = Cardinality(StampedCalls) + 1
    BY ZenonT(40), <1>6, <2>2, FS_AddElement
  <2>4. Cardinality(StampedCalls) \in Nat /\ Cardinality(CallIds) \in Nat
    BY <2>2, FS_CardinalityType
  <2> QED BY <1>6, <2>2, <2>3, <2>4, ClientAssumption
<1>8. Used' = Used
  BY <1>1 DEF Used, Sent, Executed
<1>9. ASSUME NEW x \in Used
      PROVE  /\ x \in 0..(Word64 - 1) /\ x # timestamp'
             /\ Age(x)' < Cardinality(StampedCalls)'
  <2>1. x \in 0..(Word64 - 1) /\ Age(x) < Cardinality(StampedCalls) /\ Age(x) \in Int
    BY <1>3, ClientAssumption DEF AnswerInv, StampInv, Age
  <2>2. Age(x)' = Age(x) + 1 /\ x # timestamp'
    BY <1>3, <1>7, <2>1, AgeGrows
  <2> QED BY <1>7, <2>1, <2>2
<1>10. \A u \in Threads \ {t} : pc'[u] = "idle"
  BY <1>1, <1>2, <1>4, AsyncAlone
<1>11. pc'[t] = "emplace"
  BY <1>1, <1>4
<1>12. StampInv'
  <2>1. ASSUME NEW u \in Threads
        PROVE  /\ pc'[u] = "store" => ts'[u] = (timestamp' + 1) % Word64
               /\ pc'[u] \in {"emplace", "emplacing", "send"} => ts'[u] = timestamp'
               /\ pc'[u] \in {"emplace", "emplacing"} => timestamp' \notin Used'
    BY <1>1, <1>8, <1>9, <1>10, <1>11
  <2>2. \A x \in Used' : x \in 0..(Word64 - 1) /\ Age(x)' < Cardinality(StampedCalls)'
    BY <1>8, <1>9
  <2>3. timestamp' \in 0..(Word64 - 1) /\ ts' \in [Threads -> 0..(Word64 - 1)]
    BY <1>1, <1>3
  <2> QED BY Zenon, <2>1, <2>2, <2>3 DEF StampInv
<1>13. VoteInv'
  <2>1. \A u \in Threads : pc'[u] # "send"
    BY <1>10, <1>11
  <2>2. pc'[Loop] = pc[Loop]
    BY ZenonT(40), <1>1, <1>4
  <2>3. pc'[Loop] # "idle" =>
           msg'.replica_id \in Faulty \/ Given(msg'.timestamp, msg'.result)
    BY <1>1, <2>2 DEF AnswerInv, VoteInv
  <2> QED BY Zenon, <1>1, <2>1, <2>3, VotesStay DEF AnswerInv
<1>14. OwnAnswer' /\ PromisesKept'
  BY <1>1, AnswersStay DEF AnswerInv
<1> QED
  BY <1>2, <1>12, <1>13, <1>14 DEF AnswerInv

\* The emplace finds no entry of the call's timestamp, so it keeps the promise.
LEMMA EmplaceAnswer ==
  ASSUME AsyncOnly, AnswerInv, NEW t \in Threads, order' = order, EndEmplace(t),
         IsFiniteSet(CallIds)
  PROVE  AnswerInv'
<1>0. PICK c, x0 : c = Current(t) /\ x0 = timestamp
  BY Zenon
<1>1. /\ UNCHANGED <<msg, wire, done, ts, timestamp>> /\ pc[t] = "emplacing"
      /\ pc' = [pc EXCEPT ![t] = "send"]
  BY DEF EndEmplace, Goto
<1>2. ClientInv' /\ ClientInv
  BY EmplaceStep DEF AnswerInv
<1>3. ts[t] = x0 /\ x0 \notin Used /\ ts \in [Threads -> 0..(Word64 - 1)]
  BY <1>0, <1>1 DEF AnswerInv, StampInv
<1>4. x0 \notin DOMAIN inflight
  BY <1>3 DEF Used
<1>5. /\ future' = future
      /\ inflight' = [x \in DOMAIN inflight \cup {x0} |->
                        IF x = x0 THEN NewInflight(c) ELSE inflight[x]]
  BY <1>0, <1>3, <1>4 DEF EndEmplace
<1>6. /\ DOMAIN inflight' = DOMAIN inflight \cup {x0}
      /\ inflight'[x0].call = c /\ DOMAIN inflight'[x0].result_counts = {}
      /\ \A x \in DOMAIN inflight : inflight'[x] = inflight[x]
  BY ZenonT(40), <1>4, <1>5 DEF NewInflight
<1>7. /\ t \in DOMAIN pc /\ Loop # t /\ Loop \in DOMAIN pc /\ Threads \subseteq DOMAIN pc
      /\ done \in [Threads -> Nat] /\ done[t] < Len(Calls[t])
  BY <1>1, <1>2, ClientAssumption DEF ClientInv, LockInv
<1>8. pc'[t] = "send" /\ pc'[Loop] = pc[Loop] /\ \A u \in Threads \ {t} : pc'[u] = "idle"
  BY <1>1, <1>2, <1>7, AsyncAlone
<1>9. StampedCalls' = StampedCalls
  BY ZenonT(40), <1>1, <1>2, StampedStays DEF After, ClientInv
<1>10. 0 < Cardinality(StampedCalls)
  <2>1. c \in CallIds /\ c[1] = t /\ c[2] = done[t] + 1
    BY <1>0, <1>7, CurrentParts
  <2>2. c \in StampedCalls
    BY <1>1, <2>1 DEF StampedCalls, Stamped
  <2>3. IsFiniteSet(StampedCalls)
    BY ZenonT(40), FS_Subset DEF StampedCalls
  <2> QED BY <2>2, <2>3, FS_EmptySet, FS_CardinalityType
<1>11. Sent' = Sent /\ Executed' = Executed /\ Used' \subseteq Used \cup {x0}
  <2>1. Sent' = Sent /\ Executed' = Executed
    BY ZenonT(40), <1>1, UsedSame
  <2> QED BY <1>6, <2>1 DEF Used
<1>12. StampInv'
  <2>1. \A u \in Threads :
               /\ pc'[u] = "store" => ts'[u] = (timestamp + 1) % Word64
               /\ pc'[u] \in {"emplace", "emplacing", "send"} => ts'[u] = timestamp
               /\ pc'[u] \in {"emplace", "emplacing"} => timestamp \notin Used'
    BY <1>0, <1>1, <1>3, <1>8
  <2>2. ts' \in [Threads -> 0..(Word64 - 1)]
    BY <1>1, <1>3
  <2> QED BY Zenon, <1>0, <1>1, <1>9, <1>10, <1>11, <2>1, <2>2, StampsStay DEF AnswerInv
<1>13. VoteInv'
  <2>1. ASSUME NEW m \in Sent' \cup Executed', m.timestamp \in DOMAIN inflight'
        PROVE  m.operation = OperationOf(inflight'[m.timestamp].call)
    <3>1. m \in Sent \cup Executed /\ m.timestamp # x0
      BY ZenonT(40), <1>3, <1>11 DEF Used
    <3> QED BY ZenonT(40), <1>6, <2>1, <3>1 DEF AnswerInv, VoteInv
  <2>2. \A u \in Threads : pc'[u] = "send" /\ ts'[u] \in DOMAIN inflight' =>
          inflight'[ts'[u]].call = Current(u)'
    BY ZenonT(40), <1>0, <1>1, <1>3, <1>6, <1>8 DEF Current
  <2>3. \A x, r : Given(x, r)' <=> Given(x, r)
    BY DEF Given
  <2>4. \A x \in DOMAIN inflight' : \A r \in DOMAIN inflight'[x].result_counts :
          \/ Given(x, r)'
          \/ inflight'[x].result_counts[r] <=
               Cardinality(inflight'[x].seen_replicas \cap Faulty)
    <3> SUFFICES ASSUME NEW x \in DOMAIN inflight',
                        NEW r \in DOMAIN inflight'[x].result_counts
                 PROVE  \/ Given(x, r)'
                        \/ inflight'[x].result_counts[r] <=
                             Cardinality(inflight'[x].seen_replicas \cap Faulty)
      BY Zenon
    <3>1. x # x0
      BY Zenon, <1>6
    <3>2. x \in DOMAIN inflight /\ inflight'[x] = inflight[x]
      BY Zenon, <1>6, <3>1
    <3>3. r \in DOMAIN inflight[x].result_counts
      BY Zenon, <3>2
    <3>4. \/ Given(x, r)
          \/ inflight[x].result_counts[r] <=
               Cardinality(inflight[x].seen_replicas \cap Faulty)
      BY Zenon, <3>2, <3>3 DEF AnswerInv, VoteInv
    <3> QED BY Zenon, <2>3, <3>2, <3>4
  <2>5. /\ DOMAIN wire' = Replicas /\ IsSeq(order)'
        /\ \A r \in Replicas : IsSeq(wire[r])'
    BY ZenonT(40), <1>1 DEF AnswerInv, VoteInv, IsSeq
  <2>6. pc'[Loop] # "idle" =>
           msg'.replica_id \in Faulty \/ Given(msg.timestamp, msg.result)'
    BY ZenonT(40), <1>1, <1>8, <2>3 DEF AnswerInv, VoteInv
  <2> QED BY ZenonT(40), <2>1, <2>2, <2>4, <2>5, <2>6 DEF VoteInv
<1>14. OwnAnswer' /\ PromisesKept'
  BY <1>5, AnswersStay DEF AnswerInv
<1> QED
  BY <1>2, <1>12, <1>13, <1>14 DEF AnswerInv

\* The request is sent with the timestamp and the operation of its call.
LEMMA SendAnswer ==
  ASSUME AsyncOnly, AnswerInv, NEW t \in Threads, order' = order, Send(t),
         IsFiniteSet(CallIds)
  PROVE  AnswerInv'
<1>0. PICK c, m, R : /\ c = Current(t) /\ m = TheRequest(t)
                     /\ R = IF primary_hint \in Connected THEN {primary_hint} ELSE Connected
  BY Zenon
<1>1. /\ UNCHANGED <<msg, inflight, future, ts, timestamp>> /\ pc[t] = "send"
      /\ wire' = [r \in Replicas |-> IF r \in R THEN Append(wire[r], m) ELSE wire[r]]
  BY <1>0 DEF Send, SendTo
<1>2. ClientInv' /\ ClientInv
  BY SendStep DEF AnswerInv
<1>3. /\ t \in DOMAIN pc /\ Loop # t /\ Loop \in DOMAIN pc /\ Threads \subseteq DOMAIN pc
      /\ done \in [Threads -> Nat] /\ done[t] < Len(Calls[t]) /\ Len(Calls[t]) \in Nat
  BY <1>1, <1>2, ClientAssumption DEF ClientInv, LockInv
<1>4. CurrentCall(t).how = "invoke_async"
  <2>1. done[t] + 1 \in 1..Len(Calls[t])
    BY <1>3
  <2> QED BY <2>1 DEF CurrentCall, AsyncOnly
<1>5. pc' = [pc EXCEPT ![t] = "idle"] /\ done' = [done EXCEPT ![t] = @ + 1]
  BY <1>4 DEF Send, Goto
<1>6. pc'[Loop] = pc[Loop] /\ \A u \in Threads : pc'[u] = "idle"
  BY <1>1, <1>2, <1>3, <1>5, AsyncAlone
<1>7. c \in CallIds /\ c[1] = t /\ c[2] = done[t] + 1
  BY <1>0, <1>3, CurrentParts
<1>8. StampedCalls' = StampedCalls
  <2>1. ASSUME NEW b \in CallIds PROVE Stamped(b)' <=> Stamped(b)
    <3>1. b[1] \in Threads /\ b[2] \in Nat
      BY CallParts, ClientAssumption
    <3>2. CASE b[1] # t
      BY ZenonT(40), <1>3, <1>5, <3>1, <3>2 DEF Stamped
    <3>3. CASE b[1] = t
      BY <1>1, <1>3, <1>5, <3>1, <3>3 DEF Stamped
    <3> QED BY <3>2, <3>3
  <2> QED BY <2>1 DEF StampedCalls
<1>9. 0 < Cardinality(StampedCalls)
  <2>1. c \in StampedCalls
    BY <1>1, <1>7 DEF StampedCalls, Stamped
  <2>2. IsFiniteSet(StampedCalls)
    BY FS_Subset DEF StampedCalls
  <2> QED BY <2>1, <2>2, FS_EmptySet, FS_CardinalityType
<1>10. ts[t] = timestamp /\ m.timestamp = timestamp /\ m.operation = OperationOf(c)
  <2>1. ts[t] = timestamp
    BY <1>1 DEF AnswerInv, StampInv
  <2> QED BY ZenonT(40), <1>0, <1>7, <2>1 DEF TheRequest, RequestMsg, OperationOf, CurrentCall
<1>11. ASSUME NEW r \in Replicas
       PROVE  /\ IsSeq(wire[r])'
              /\ \A i \in 1..Len(wire'[r]) : wire'[r][i] \in Sent \cup {m}
  <2>1. PICK S : wire[r] \in Seq(S)
    BY ZenonT(40) DEF AnswerInv, VoteInv, IsSeq
  <2>2. \A i \in 1..Len(wire[r]) : wire[r][i] \in Sent
    BY DEF Sent
  <2>3. CASE r \in R
    <3>1. wire'[r] = Append(wire[r], m)
      BY <1>1, <2>3
    <3>2. Append(wire[r], m) \in Seq(S \cup {m})
      BY <2>1
    <3>3. \A i \in 1..Len(Append(wire[r], m)) :
            \/ Append(wire[r], m)[i] = m
            \/ i \in 1..Len(wire[r]) /\ Append(wire[r], m)[i] = wire[r][i]
      BY Zenon, <2>1, AppendAt
    <3>4. IsSeq(Append(wire[r], m))
      BY ZenonT(40), <3>2, IsSeqIntro
    <3> QED BY Zenon, <2>2, <3>1, <3>3, <3>4 DEF IsSeq
  <2>4. CASE r \notin R
    <3>1. wire'[r] = wire[r]
      BY <1>1, <2>4
    <3>2. IsSeq(wire[r])
      BY ZenonT(40), <2>1, IsSeqIntro
    <3> QED BY ZenonT(40), <2>2, <3>1, <3>2 DEF IsSeq
  <2> QED BY ZenonT(40), <2>3, <2>4
<1>12. Sent' \subseteq Sent \cup {m} /\ Executed' = Executed
  <2>1. ASSUME NEW x \in Sent' PROVE x \in Sent \cup {m}
    <3>1. PICK r \in Replicas : x \in {wire'[r][i] : i \in 1..Len(wire'[r])}
      BY ZenonT(40) DEF Sent
    <3>2. PICK i \in 1..Len(wire'[r]) : x = wire'[r][i]
      BY Zenon, <3>1
    <3> QED BY Zenon, <1>11, <3>2
  <2>2. Executed' = Executed
    BY ZenonT(40) DEF Executed
  <2> QED BY Zenon, <2>1, <2>2
<1>13. Used' \subseteq Used \cup {timestamp}
  BY ZenonT(40), <1>1, <1>10, <1>12 DEF Used
<1>14. StampInv'
  <2>1. ts' \in [Threads -> 0..(Word64 - 1)]
    BY <1>1 DEF AnswerInv, StampInv
  <2>2. \A u \in Threads :
               /\ pc'[u] = "store" => ts'[u] = (timestamp + 1) % Word64
               /\ pc'[u] \in {"emplace", "emplacing", "send"} => ts'[u] = timestamp
               /\ pc'[u] \in {"emplace", "emplacing"} => timestamp \notin Used'
    BY <1>6
  <2> QED BY ZenonT(40), <1>1, <1>8, <1>9, <1>13, <2>1, <2>2, StampsStay DEF AnswerInv
<1>15. VoteInv'
  <2>1. ASSUME NEW q \in Sent' \cup Executed', q.timestamp \in DOMAIN inflight
        PROVE  q.operation = OperationOf(inflight[q.timestamp].call)
    <3>1. CASE q \in Sent \cup Executed
      BY ZenonT(40), <2>1, <3>1 DEF AnswerInv, VoteInv
    <3>2. CASE q = m
      <4>1. inflight[m.timestamp].call = c
        BY ZenonT(40), <1>0, <1>1, <1>10, <2>1, <3>2 DEF AnswerInv, VoteInv
      <4> QED BY <1>10, <3>2, <4>1
    <3> QED BY ZenonT(40), <1>12, <3>1, <3>2
  <2>2. \A x, r : Given(x, r)' <=> Given(x, r)
    BY DEF Given
  <2>3. \A x \in DOMAIN inflight : \A r \in DOMAIN inflight[x].result_counts :
          \/ Given(x, r)'
          \/ inflight[x].result_counts[r] <=
               Cardinality(inflight[x].seen_replicas \cap Faulty)
    BY ZenonT(40), <2>2 DEF AnswerInv, VoteInv
  <2>4. DOMAIN wire' = Replicas /\ IsSeq(order)'
    <3>1. DOMAIN wire = Replicas /\ IsSeq(order)
      BY Zenon DEF AnswerInv, VoteInv
    <3>2. IsSeq(order)'
      BY Zenon, <3>1 DEF IsSeq
    <3>3. DOMAIN wire' = Replicas
      BY Zenon, <1>1, <3>1
    <3> QED BY Zenon, <3>2, <3>3
  <2>5. pc'[Loop] # "idle" =>
           msg'.replica_id \in Faulty \/ Given(msg.timestamp, msg.result)'
    BY ZenonT(40), <1>1, <1>6, <2>2 DEF AnswerInv, VoteInv
  <2>6. \A u \in Threads : pc'[u] # "send"
    BY ZenonT(40), <1>6
  <2> QED BY ZenonT(40), <1>1, <1>11, <2>1, <2>3, <2>4, <2>5, <2>6 DEF VoteInv
<1>16. OwnAnswer' /\ PromisesKept'
  BY <1>1, AnswersStay DEF AnswerInv
<1> QED
  BY <1>2, <1>14, <1>15, <1>16 DEF AnswerInv

\* The event loop takes a reply of a faulty replica, or an answer given.
LEMMA ReceiveAnswer ==
  ASSUME AnswerInv, UNCHANGED <<wire, order>>, NEW m, Receive(m),
         m.replica_id \in Faulty \/ Given(m.timestamp, m.result)
  PROVE  AnswerInv'
<1>1. /\ UNCHANGED <<inflight, future, ts, timestamp, done>>
      /\ \/ pc' = pc /\ msg' = msg
         \/ pc' = [pc EXCEPT ![Loop] = "lock"] /\ msg' = m /\ pc[Loop] = "idle"
  BY DEF Receive, Goto
<1>2. ClientInv' /\ ClientInv
  <2>1. CASE m.client_id # Id
    BY <2>1, Still DEF Receive, AnswerInv
  <2>2. CASE m.client_id = Id
    BY ZenonT(40), <2>2, LoopStep DEF Receive, Goto, AnswerInv
  <2> QED BY <2>1, <2>2 DEF AnswerInv
<1>3. Loop \notin Threads /\ Loop \in DOMAIN pc /\ Threads \subseteq DOMAIN pc
  BY <1>2, ClientAssumption DEF ClientInv, LockInv
<1>4. \A u \in Threads : pc'[u] = pc[u]
  BY <1>1, <1>3
<1>5. StampedCalls' = StampedCalls
  BY <1>1, <1>4, CallParts DEF StampedCalls, Stamped
<1>6. Used' = Used
  BY <1>1 DEF Used, Sent, Executed
<1>7. StampInv'
  BY ZenonT(40), <1>1, <1>4, <1>5, <1>6, StampsStay DEF AnswerInv, StampInv
<1>8. pc'[Loop] # "idle" =>
         msg'.replica_id \in Faulty \/ Given(msg'.timestamp, msg'.result)
  BY <1>1 DEF AnswerInv, VoteInv
<1>9. VoteInv'
  BY Zenon, <1>1, <1>4, <1>8, VotesStay DEF AnswerInv
<1>10. OwnAnswer' /\ PromisesKept'
  BY <1>1, AnswersStay DEF AnswerInv
<1> QED
  BY <1>2, <1>7, <1>9, <1>10 DEF AnswerInv

\* The event loop takes mu_.
LEMMA LockAnswer ==
  ASSUME AnswerInv, order' = order, Lock
  PROVE  AnswerInv'
<1>1. /\ UNCHANGED <<inflight, future, ts, timestamp, done, wire, msg>>
      /\ pc' = [pc EXCEPT ![Loop] = "finding"] /\ pc[Loop] = "lock"
  BY DEF Lock, Goto
<1>2. ClientInv' /\ ClientInv
  BY LoopStep DEF Lock, Goto, AnswerInv
<1>3. Loop \notin Threads /\ Loop \in DOMAIN pc /\ Threads \subseteq DOMAIN pc
  BY <1>2, ClientAssumption DEF ClientInv, LockInv
<1>4. \A u \in Threads : pc'[u] = pc[u]
  BY <1>1, <1>3
<1>5. StampedCalls' = StampedCalls
  BY <1>1, <1>4, CallParts DEF StampedCalls, Stamped
<1>6. Used' = Used
  BY <1>1 DEF Used, Sent, Executed
<1>7. StampInv'
  BY ZenonT(40), <1>1, <1>4, <1>5, <1>6, StampsStay DEF AnswerInv, StampInv
<1>8. msg'.replica_id \in Faulty \/ Given(msg'.timestamp, msg'.result)
  BY <1>1 DEF AnswerInv, VoteInv
<1>9. VoteInv'
  BY Zenon, <1>1, <1>4, <1>8, VotesStay DEF AnswerInv
<1>10. OwnAnswer' /\ PromisesKept'
  BY <1>1, AnswersStay DEF AnswerInv
<1> QED
  BY <1>2, <1>7, <1>9, <1>10 DEF AnswerInv

\* The faulty replicas are few.
LEMMA FewFaulty == IsFiniteSet(Faulty) /\ Cardinality(Faulty) \in Nat /\ Cardinality(Faulty) <= f
<1>1. IsFiniteSet(Replicas)
  BY ClientAssumption, FS_Interval DEF Replicas
<1> QED
  BY <1>1, KvClientAssumption, FS_Subset, FS_CardinalityType

\* A reply counted leaves every result given, or with no votes but the faulty
\* replicas'.
LEMMA CountedVotes ==
  ASSUME AnswerInv, Fresh, pc[Loop] = "finding", NEW k, NEW m, k = msg.timestamp, m = msg
  PROVE  LET e == Counted(inflight[k], m)
         IN  \A r \in DOMAIN e.result_counts :
               Given(k, r) \/ e.result_counts[r] <= Cardinality(e.seen_replicas \cap Faulty)
<1>1. k \in DOMAIN inflight /\ m.replica_id \notin inflight[k].seen_replicas
  BY DEF Fresh
<1>2. PICK o, n : o = inflight[k] /\ n = Incremented(o.result_counts, m.result)
  BY Zenon
<1>3. PICK e : e = Counted(o, m)
  BY ZenonT(40)
<1>4. DOMAIN o = {"call", "seen_replicas", "result_counts"}
  BY <1>1, <1>2 DEF AnswerInv, ClientInv, EntryInv
<1>5. e.seen_replicas = o.seen_replicas \cup {m.replica_id} /\ e.result_counts = n
  BY ZenonT(40), <1>2, <1>3, <1>4 DEF Counted
<1>6. /\ DOMAIN n = DOMAIN o.result_counts \cup {m.result}
      /\ \A r \in DOMAIN n : r # m.result => n[r] = o.result_counts[r]
      /\ n[m.result] = IF m.result \in DOMAIN o.result_counts
                       THEN o.result_counts[m.result] + 1 ELSE 1
  BY <1>2 DEF Incremented
<1> DEFINE A == o.seen_replicas \cap Faulty
           B == e.seen_replicas \cap Faulty
<1>7. IsFiniteSet(A) /\ IsFiniteSet(B)
  BY ZenonT(40), FewFaulty, FS_Subset
<1>8. /\ Cardinality(A) \in Nat /\ Cardinality(B) \in Nat /\ Cardinality(A) <= Cardinality(B)
  <2>1. A \subseteq B
    BY <1>5
  <2> QED BY <1>7, <2>1, FS_Subset, FS_CardinalityType
<1>9. m.replica_id \in Faulty => Cardinality(B) = Cardinality(A) + 1
  <2> SUFFICES ASSUME m.replica_id \in Faulty PROVE Cardinality(B) = Cardinality(A) + 1
    OBVIOUS
  <2>1. B = A \cup {m.replica_id} /\ m.replica_id \notin A
    BY <1>1, <1>2, <1>5
  <2> HIDE DEF A, B
  <2> QED BY <1>7, <2>1, FS_AddElement
<1>10. ASSUME NEW r \in DOMAIN o.result_counts
       PROVE  Given(k, r) \/ o.result_counts[r] <= Cardinality(A)
  BY ZenonT(40), <1>1, <1>2 DEF AnswerInv, VoteInv
<1>11. ASSUME NEW r \in DOMAIN o.result_counts PROVE o.result_counts[r] \in Nat
  <2>1. o.result_counts[r] \in 1..f
    BY ZenonT(40), <1>1, <1>2, <1>11 DEF AnswerInv, ClientInv, EntryInv
  <2> QED BY <2>1, FaultBound
<1>12. m.replica_id \in Faulty \/ Given(k, m.result)
  BY ZenonT(40) DEF AnswerInv, VoteInv
<1> HIDE DEF A, B
<1>13. ASSUME NEW r \in DOMAIN n PROVE Given(k, r) \/ n[r] <= Cardinality(B)
  <2>1. CASE r # m.result
    BY <1>6, <1>8, <1>10, <1>11, <2>1
  <2>2. CASE r = m.result /\ r \in DOMAIN o.result_counts
    BY <1>6, <1>8, <1>9, <1>10, <1>11, <1>12, <2>2
  <2>3. CASE r = m.result /\ r \notin DOMAIN o.result_counts
    BY <1>6, <1>8, <1>9, <1>12, <2>3
  <2> QED BY ZenonT(40), <1>6, <2>1, <2>2, <2>3
<1> QED
  BY Zenon, <1>2, <1>3, <1>5, <1>13 DEF B

\* Votes are numbers.
LEMMA CountedInt ==
  ASSUME AnswerInv, NEW k \in DOMAIN inflight, NEW m, NEW e, e = Counted(inflight[k], m)
  PROVE  e.result_counts[m.result] \in Int
<1>1. DOMAIN inflight[k] = {"call", "seen_replicas", "result_counts"}
  BY ZenonT(40) DEF AnswerInv, ClientInv, EntryInv
<1>2. \A r \in DOMAIN inflight[k].result_counts : inflight[k].result_counts[r] \in Int
  BY FaultBound DEF AnswerInv, ClientInv, EntryInv
<1> QED
  BY <1>1, <1>2 DEF Counted, Incremented

\* The rest of on_reply: a result is accepted only if a correct replica gave it.
LEMMA FinishAnswer ==
  ASSUME AnswerInv, order' = order, FinishReply
  PROVE  AnswerInv'
<1>1. /\ UNCHANGED <<ts, timestamp, done, wire>> /\ pc[Loop] = "finding"
      /\ pc' = [pc EXCEPT ![Loop] = "idle"]
  BY DEF FinishReply, Goto
<1>2. ClientInv' /\ ClientInv
  BY FinishStep DEF AnswerInv
<1>3. Loop \notin Threads /\ Loop \in DOMAIN pc /\ Threads \subseteq DOMAIN pc
  BY <1>2, ClientAssumption DEF ClientInv, LockInv
<1>4. pc'[Loop] = "idle" /\ \A u \in Threads : pc'[u] = pc[u]
  BY <1>1, <1>3
<1>5. StampedCalls' = StampedCalls
  BY <1>1, <1>4, CallParts DEF StampedCalls, Stamped
<1>6. Sent' = Sent /\ Executed' = Executed
  BY <1>1, UsedSame
<1>7. DOMAIN inflight' \subseteq DOMAIN inflight => StampInv'
  <2> SUFFICES ASSUME DOMAIN inflight' \subseteq DOMAIN inflight PROVE StampInv'
    OBVIOUS
  <2>1. Used' \subseteq Used
    BY <1>1, UsedSame
  <2> QED BY Zenon, <1>1, <1>4, <1>5, <2>1, StampsStay DEF AnswerInv, StampInv
<1>8. CASE ~Fresh
  <2>1. UNCHANGED <<inflight, future>>
    BY <1>8 DEF FinishReply
  <2>2. OwnAnswer' /\ PromisesKept'
    BY <2>1, AnswersStay DEF AnswerInv
  <2>3. VoteInv'
    BY Zenon, <1>1, <1>4, <2>1, VotesStay DEF AnswerInv
  <2> QED BY <1>2, <1>7, <2>1, <2>2, <2>3 DEF AnswerInv
<1>9. CASE Fresh
  <2>0. PICK k, m : k = msg.timestamp /\ m = msg
    BY Zenon
  <2>1. PICK e : e = Counted(inflight[k], m)
    BY Zenon
  <2>2. k \in DOMAIN inflight
    BY ZenonT(40), <1>9, <2>0 DEF Fresh
  <2>3. e.call = inflight[k].call
    BY <2>1, <2>2, CountedEntry DEF AnswerInv, ClientInv
  <2>4. \A r \in DOMAIN e.result_counts :
          Given(k, r) \/ e.result_counts[r] <= Cardinality(e.seen_replicas \cap Faulty)
    BY Zenon, <1>1, <1>9, <2>0, <2>1, CountedVotes
  <2>5. \A x, r : Given(x, r)' <=> Given(x, r)
    BY DEF Given
  <2>6. ASSUME DOMAIN inflight' \subseteq DOMAIN inflight,
               \A x \in DOMAIN inflight' : inflight'[x] = inflight[x] \/ (x = k /\ inflight'[x] = e)
        PROVE  VoteInv'
    <3>1. \A x \in DOMAIN inflight' : inflight'[x].call = inflight[x].call
      BY ZenonT(40), <2>3, <2>6
    <3>2. \A q \in Sent' \cup Executed' : q.timestamp \in DOMAIN inflight' =>
            q.operation = OperationOf(inflight'[q.timestamp].call)
      BY ZenonT(40), <1>6, <2>6, <3>1 DEF AnswerInv, VoteInv
    <3>3. \A t \in Threads : pc'[t] = "send" /\ ts'[t] \in DOMAIN inflight' =>
            inflight'[ts'[t]].call = Current(t)'
      BY <1>1, <1>4, <2>6, <3>1 DEF AnswerInv, VoteInv, Current
    <3>4. \A x \in DOMAIN inflight' : \A r \in DOMAIN inflight'[x].result_counts :
            \/ Given(x, r)'
            \/ inflight'[x].result_counts[r] <=
                 Cardinality(inflight'[x].seen_replicas \cap Faulty)
      <4>1. \A x \in DOMAIN inflight : \A r \in DOMAIN inflight[x].result_counts :
              \/ Given(x, r)
              \/ inflight[x].result_counts[r] <=
                   Cardinality(inflight[x].seen_replicas \cap Faulty)
        BY ZenonT(40) DEF AnswerInv, VoteInv
      <4> QED BY ZenonT(40), <2>4, <2>5, <2>6, <4>1
    <3>5. /\ DOMAIN wire' = Replicas /\ IsSeq(order)'
          /\ \A r \in Replicas : IsSeq(wire[r])'
      BY ZenonT(40), <1>1 DEF AnswerInv, VoteInv, IsSeq
    <3> QED BY Zenon, <1>4, <3>2, <3>3, <3>4, <3>5 DEF VoteInv
  <2>7. CASE Accepted(e, m.result)
    <3>1. /\ future' = [future EXCEPT ![e.call] = Ready(m.result)]
          /\ inflight' = [x \in DOMAIN inflight \ {k} |-> inflight[x]]
      BY ZenonT(40), <1>9, <2>0, <2>1, <2>7 DEF FinishReply, CountReply, Without
    <3>2. Given(k, m.result)
      <4>1. m.result \in DOMAIN e.result_counts
        <5>1. DOMAIN inflight[k] = {"call", "seen_replicas", "result_counts"}
          BY <1>2, <2>2 DEF ClientInv, EntryInv
        <5> QED BY ZenonT(40), <2>1, <5>1 DEF Counted, Incremented
      <4>2. Cardinality(e.seen_replicas \cap Faulty) \in Nat
            /\ Cardinality(e.seen_replicas \cap Faulty) <= f
        <5>1. IsFiniteSet(e.seen_replicas \cap Faulty)
              /\ Cardinality(e.seen_replicas \cap Faulty) <= Cardinality(Faulty)
          BY FewFaulty, FS_Subset
        <5>2. Cardinality(e.seen_replicas \cap Faulty) \in Nat
          BY ZenonT(40), <5>1, FS_CardinalityType
        <5> QED BY <5>1, <5>2, FewFaulty, FaultBound
      <4>3. e.result_counts[m.result] >= f + 1 /\ e.result_counts[m.result] \in Int
        BY <2>1, <2>2, <2>7, CountedInt DEF Accepted
      <4> QED BY <2>4, <4>1, <4>2, <4>3, FaultBound
    <3>3. PICK n \in 1..Len(order) : order[n].req.timestamp = k /\ order[n].result = m.result
      BY ZenonT(40), <3>2 DEF Given
    <3>4. order[n].req.operation = OperationOf(e.call)
      <4>1. order[n].req \in Executed
        BY ZenonT(40) DEF Executed
      <4> QED BY <2>2, <2>3, <3>3, <4>1 DEF AnswerInv, VoteInv
    <3>5. ASSUME NEW c \in CallIds
          PROVE  /\ future'[c].state # "broken"
                 /\ future'[c].state = "ready" =>
                      \E i \in 1..Len(order) :
                        /\ order[i].req.operation = Calls[c[1]][c[2]].operation
                        /\ future'[c].value = {order[i].result}
      <4>1. DOMAIN future = CallIds
        BY <1>2 DEF ClientInv, EntryInv
      <4>2. CASE c = e.call
        BY ZenonT(40), <3>1, <3>3, <3>4, <4>1, <4>2 DEF Ready, OperationOf
      <4>3. CASE c # e.call
        BY ZenonT(40), <3>1, <4>1, <4>3 DEF AnswerInv, OwnAnswer, PromisesKept
      <4> QED BY ZenonT(40), <4>2, <4>3
    <3>6. OwnAnswer' /\ PromisesKept'
      BY <3>5 DEF OwnAnswer, PromisesKept
    <3>7. VoteInv' /\ StampInv'
      BY <1>7, <2>6, <3>1
    <3> QED BY <1>2, <3>6, <3>7 DEF AnswerInv
  <2>8. CASE ~Accepted(e, m.result)
    <3>1. inflight' = [inflight EXCEPT ![k] = e] /\ future' = future
      BY <1>9, <2>0, <2>1, <2>8 DEF FinishReply, CountReply
    <3>2. OwnAnswer' /\ PromisesKept'
      BY <3>1, AnswersStay DEF AnswerInv
    <3>3. VoteInv' /\ StampInv'
      BY <1>7, <2>2, <2>6, <3>1
    <3> QED BY ZenonT(40), <1>2, <3>2, <3>3 DEF AnswerInv
  <2> QED BY <2>7, <2>8
<1> QED
  BY <1>8, <1>9

\* A request leaves its connection: executed by the correct replicas, or not.
LEMMA ExecuteAnswer ==
  ASSUME AnswerInv, NEW r \in Replicas, Execute(r) \/ Ignore(r)
  PROVE  AnswerInv'
<1>0. PICK m : m = Head(wire[r])
  BY Zenon
<1>1. /\ UNCHANGED <<mu, inflight, future, ts, timestamp, done, pc, msg>> /\ wire[r] # <<>>
      /\ wire' = [wire EXCEPT ![r] = Tail(@)]
      /\ order' = order \/ \E a : order' = Append(order, [req |-> m, result |-> a])
  BY ZenonT(40), <1>0 DEF Execute, Ignore
<1>2. ClientInv' /\ ClientInv
  BY <1>1, Still DEF AnswerInv
<1>3. DOMAIN wire = Replicas /\ IsSeq(order) /\ \A p \in Replicas : IsSeq(wire[p])
  BY ZenonT(40) DEF AnswerInv, VoteInv
<1>4. PICK S : wire[r] \in Seq(S)
  BY ZenonT(40), <1>3 DEF IsSeq
<1>5. m \in Sent
  <2>1. m = wire[r][1] /\ 1 \in 1..Len(wire[r])
    BY <1>0, <1>1, <1>4
  <2> QED BY <2>1 DEF Sent
<1>6. ASSUME NEW p \in Replicas
      PROVE  IsSeq(wire[p])' /\ \A i \in 1..Len(wire'[p]) : wire'[p][i] \in Sent
  <2>1. CASE p = r
    <3>1. wire'[p] = Tail(wire[r])
      BY <1>1, <1>3, <2>1
    <3>2. Tail(wire[r]) \in Seq(S)
      BY <1>1, <1>4
    <3>3. \A i \in 1..Len(Tail(wire[r])) :
            i + 1 \in 1..Len(wire[r]) /\ Tail(wire[r])[i] = wire[r][i + 1]
      BY <1>1, <1>4
    <3>4. IsSeq(Tail(wire[r]))
      BY ZenonT(40), <3>2, IsSeqIntro
    <3>5. \A i \in 1..Len(Tail(wire[r])) : Tail(wire[r])[i] \in Sent
      BY <3>3 DEF Sent
    <3> QED BY ZenonT(40), <3>1, <3>4, <3>5 DEF IsSeq
  <2>2. CASE p # r
    <3>1. wire'[p] = wire[p]
      BY <1>1, <1>3, <2>2
    <3> QED BY <1>3, <3>1 DEF Sent, IsSeq
  <2> QED BY <2>1, <2>2
<1>7. Sent' \subseteq Sent
  BY <1>6 DEF Sent
<1>8. /\ IsSeq(order)' /\ Executed' \subseteq Executed \cup {m}
      /\ \A n \in 1..Len(order) : n \in 1..Len(order') /\ order'[n] = order[n]
  <2>1. CASE order' = order
    BY <1>3, <2>1 DEF IsSeq, Executed
  <2>2. CASE order' # order
    <3>1. PICK a : order' = Append(order, [req |-> m, result |-> a])
      BY ZenonT(40), <1>1, <2>2
    <3>2. PICK e : e = [req |-> m, result |-> a]
      BY Zenon
    <3>3. PICK T : order \in Seq(T)
      BY <1>3 DEF IsSeq
    <3>4. order' = Append(order, e) /\ e.req = m
      BY <3>1, <3>2
    <3>5. order' \in Seq(T \cup {e})
      BY <3>3, <3>4
    <3>6. /\ Len(order') = Len(order) + 1 /\ Len(order) \in Nat
          /\ \A n \in 1..Len(order) : order'[n] = order[n]
      BY <3>3, <3>4
    <3>7. \A n \in 1..Len(order') : order'[n] = e \/ (n \in 1..Len(order) /\ order'[n] = order[n])
      BY Zenon, <3>3, <3>4, AppendAt
    <3>8. IsSeq(order)'
      <4>1. PICK o : o = order'
        BY Zenon
      <4>2. IsSeq(o)
        BY ZenonT(40), <3>5, <4>1, IsSeqIntro
      <4> QED BY <4>1, <4>2 DEF IsSeq
    <3>9. Executed' \subseteq Executed \cup {m}
      BY <3>4, <3>7 DEF Executed
    <3> QED BY <3>6, <3>8, <3>9
  <2> QED BY <2>1, <2>2
<1>9. Sent' \cup Executed' \subseteq Sent \cup Executed
  BY ZenonT(40), <1>5, <1>7, <1>8
<1>10. Used' \subseteq Used
  BY ZenonT(40), <1>1, <1>9 DEF Used
<1>11. StampedCalls' = StampedCalls
  BY <1>1 DEF StampedCalls, Stamped
<1>12. StampInv'
  BY ZenonT(40), <1>1, <1>10, <1>11, StampsStay DEF AnswerInv, StampInv
<1>13. \A x, a : Given(x, a) => Given(x, a)'
  BY <1>8, GivenStays
<1>14. VoteInv'
  <2>1. \A q \in Sent' \cup Executed' : q.timestamp \in DOMAIN inflight =>
          q.operation = OperationOf(inflight[q.timestamp].call)
    BY ZenonT(40), <1>9 DEF AnswerInv, VoteInv
  <2>2. \A t \in Threads : pc[t] = "send" /\ ts[t] \in DOMAIN inflight =>
          inflight[ts[t]].call = Current(t)'
    BY ZenonT(40), <1>1 DEF AnswerInv, VoteInv, Current
  <2>3. \A x \in DOMAIN inflight : \A a \in DOMAIN inflight[x].result_counts :
          \/ Given(x, a)'
          \/ inflight[x].result_counts[a] <= Cardinality(inflight[x].seen_replicas \cap Faulty)
    BY ZenonT(40), <1>13 DEF AnswerInv, VoteInv
  <2>4. pc[Loop] # "idle" => msg.replica_id \in Faulty \/ Given(msg.timestamp, msg.result)'
    <3>1. PICK x, a : x = msg.timestamp /\ a = msg.result
      BY ZenonT(40)
    <3>2. pc[Loop] # "idle" => msg.replica_id \in Faulty \/ Given(x, a)
      BY ZenonT(40), <3>1 DEF AnswerInv, VoteInv
    <3>3. Given(msg.timestamp, msg.result)' <=> Given(x, a)'
      BY ZenonT(40), <1>1, <3>1 DEF Given
    <3> QED BY Zenon, <1>13, <3>2, <3>3
  <2>5. DOMAIN wire' = Replicas
    BY <1>1, <1>3
  <2> QED BY ZenonT(40), <1>1, <1>6, <1>8, <2>1, <2>2, <2>3, <2>4, <2>5 DEF VoteInv
<1>15. OwnAnswer' /\ PromisesKept'
  BY <1>1, <1>8, AnswersStay DEF AnswerInv
<1> QED
  BY <1>2, <1>12, <1>14, <1>15 DEF AnswerInv

\* The inductive invariant of the timestamps and the votes, for any number of
\* threads and calls of invoke_async up to the number of values of timestamp_,
\* any store and whatever the faulty replicas answer (invoke_async, on_reply).
THEOREM AnswersInductive ==
  ASSUME AsyncOnly, IsFiniteSet(CallIds), Cardinality(CallIds) <= Word64
  PROVE  Spec => []AnswerInv
<1>1. Init => AnswerInv
  <2> SUFFICES ASSUME Init PROVE AnswerInv
    OBVIOUS
  <2>1. PICK first \in FirstTimestamps : InitClient(first)
    BY DEF Init
  <2>2. /\ timestamp = first /\ inflight = [x \in {} |-> 0]
        /\ future = [c \in CallIds |-> Pending]
        /\ pc = [t \in Threads \cup {Loop} |-> "idle"] /\ ts = [t \in Threads |-> 0]
        /\ wire = [r \in Replicas |-> <<>>] /\ order = <<>>
    BY <2>1 DEF Init, InitClient
  <2>3. ClientInv
    BY ZenonT(40), ClientInit
  <2>4. Sent = {} /\ Executed = {} /\ DOMAIN inflight = {}
    BY <2>2 DEF Sent, Executed
  <2>5. Used = {}
    BY <2>4 DEF Used
  <2>6. timestamp \in 0..(Word64 - 1) /\ ts \in [Threads -> 0..(Word64 - 1)]
    BY <2>2, KvClientAssumption, ClientAssumption
  <2>7. StampInv
    BY <2>2, <2>5, <2>6 DEF StampInv
  <2>8. IsSeq(<<>>)
    <3>1. <<>> \in Seq({})
      OBVIOUS
    <3> QED BY Zenon, <3>1, IsSeqIntro
  <2>9. VoteInv
    BY ZenonT(40), <2>2, <2>4, <2>8 DEF VoteInv
  <2>10. OwnAnswer /\ PromisesKept
    BY ZenonT(40), <2>2 DEF OwnAnswer, PromisesKept, Pending
  <2> QED BY <2>3, <2>7, <2>9, <2>10 DEF AnswerInv
<1>2. AnswerInv /\ [Next]_vars => AnswerInv'
  <2> SUFFICES ASSUME AnswerInv, [Next]_vars PROVE AnswerInv'
    OBVIOUS
  <2>1. ASSUME NEW t \in Threads, ThreadStep(t), order' = order PROVE AnswerInv'
    <3>1. ~Return(t)
      <4>1. pc[t] # "wait"
        BY AsyncAlone DEF AnswerInv, Inside
      <4> QED BY <4>1 DEF Return
    <3> QED BY Zenon, <2>1, <3>1, QuietAnswer, StoreAnswer, EmplaceAnswer, SendAnswer
            DEF ThreadStep
  <2>2. ASSUME NEW t \in Threads, Retry(t) PROVE FALSE
    <3>1. pc[t] # "wait"
      BY AsyncAlone DEF AnswerInv, Inside
    <3> QED BY <2>2, <3>1 DEF Retry
  <2>3. CASE Lock /\ order' = order
    BY <2>3, LockAnswer
  <2>4. CASE FinishReply /\ order' = order
    BY <2>4, FinishAnswer
  <2>5. ASSUME NEW r \in Replicas, Execute(r) \/ Ignore(r) PROVE AnswerInv'
    BY <2>5, ExecuteAnswer
  <2>6. ASSUME NEW r \in Replicas, ReplyArrives(r) PROVE AnswerInv'
    <3>1. PICK n \in 1..Len(order), v \in Views :
            Receive(ReplyMsg(v, order[n].req.timestamp, Id, r, order[n].result))
      BY <2>6 DEF ReplyArrives
    <3>2. PICK m : m = ReplyMsg(v, order[n].req.timestamp, Id, r, order[n].result)
      BY Zenon
    <3>3. Given(m.timestamp, m.result)
      BY <3>2 DEF Given, ReplyMsg
    <3>4. UNCHANGED <<wire, order>>
      BY <2>6 DEF ReplyArrives
    <3> QED BY Zenon, <3>1, <3>2, <3>3, <3>4, ReceiveAnswer
  <2>7. CASE FaultyReplyArrives
    <3>1. PICK m \in FaultyReplies : Receive(m)
      BY <2>7 DEF FaultyReplyArrives
    <3>2. m.replica_id \in Faulty /\ UNCHANGED <<wire, order>>
      BY <2>7, KvClientAssumption DEF FaultyReplyArrives
    <3> QED BY Zenon, <3>1, <3>2, ReceiveAnswer
  <2>8. CASE UNCHANGED vars
    <3>1. UNCHANGED <<wire, order, inflight, future, timestamp, ts, pc, done, mu, msg>>
      BY <2>8 DEF vars, clientVars
    <3>2. ClientInv'
      BY ZenonT(40), <3>1, Still DEF AnswerInv
    <3>3. StampedCalls' = StampedCalls /\ Used' = Used
      BY <3>1 DEF StampedCalls, Stamped, Used, Sent, Executed
    <3>4. StampInv'
      BY Zenon, <3>1, <3>3, StampsStay DEF AnswerInv, StampInv
    <3>5. VoteInv'
      BY Zenon, <3>1, VotesStay DEF AnswerInv, VoteInv
    <3>6. OwnAnswer' /\ PromisesKept'
      BY <3>1, AnswersStay DEF AnswerInv
    <3> QED BY ZenonT(40), <3>2, <3>4, <3>5, <3>6 DEF AnswerInv
  <2> QED
    BY Zenon, <2>1, <2>2, <2>3, <2>4, <2>5, <2>6, <2>7, <2>8 DEF Next, ClientStep
<1> QED
  BY <1>1, <1>2, PTL DEF Spec

\* No promise is destroyed: where all calls are invoke_async and there are no more
\* of them than timestamp_ has values, no two in flight share a timestamp.
THEOREM PromisesAreKept ==
  ASSUME AsyncOnly, IsFiniteSet(CallIds), Cardinality(CallIds) <= Word64
  PROVE  Spec => []PromisesKept
<1>1. AnswerInv => PromisesKept
  BY DEF AnswerInv
<1> QED
  BY <1>1, AnswersInductive, PTL

\* A future's value is the store's answer to its own call's operation, at a place
\* in the one order of execution (on_reply, invoke_async).
THEOREM AnswersAreOwn ==
  ASSUME AsyncOnly, IsFiniteSet(CallIds), Cardinality(CallIds) <= Word64
  PROVE  Spec => []OwnAnswer
<1>1. AnswerInv => OwnAnswer
  BY DEF AnswerInv
<1> QED
  BY <1>1, AnswersInductive, PTL

=============================================================================
