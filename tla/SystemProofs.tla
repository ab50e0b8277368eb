---------------------------- MODULE SystemProofs ----------------------------
(***************************************************************************)
(* What the client believes was executed, for every value of the           *)
(* constants: the invariant of SystemInv and what follows.                 *)
(***************************************************************************)
EXTENDS SystemInv, ClusterProofs, ReplyProofs

\* The prover, unless a proof or a step names another.
USE ZenonT(40)

\* An entry has its shape, and no more votes than backers.
Sound(e, nd, x) ==
  /\ DOMAIN e = {"call", "seen_replicas", "result_counts"}
  /\ e.seen_replicas \subseteq Replicas
  /\ \A r \in DOMAIN e.result_counts :
       /\ e.result_counts[r] \in Nat
       /\ e.result_counts[r] <= Cardinality(Backers(nd, x, r, e.seen_replicas))

\* What was executed on nd was executed on nd2.
Later(nd, nd2) ==
  \A i \in Correct : \A x, r : Done(nd[i], Id, x, r) => Done(nd2[i], Id, x, r)

\* The entries, one by one.
LEMMA EntriesSound ==
  EntriesOK /\ VotesAreExecutions <=>
    DOMAIN future = C!CallIds /\ \A x \in DOMAIN inflight : Sound(inflight[x], node, x)
BY DEF EntriesOK, VotesAreExecutions, Sound

\* An entry stays sound while the nodes execute more.
LEMMA SoundLater ==
  ASSUME NEW e, NEW nd, NEW nd2, NEW x, Sound(e, nd, x), Later(nd, nd2)
  PROVE  Sound(e, nd2, x)
<1> SUFFICES ASSUME NEW r \in DOMAIN e.result_counts
             PROVE  e.result_counts[r] <= Cardinality(Backers(nd2, x, r, e.seen_replicas))
  BY DEF Sound
<1>1. PICK P, Q : /\ P = Backers(nd, x, r, e.seen_replicas)
                  /\ Q = Backers(nd2, x, r, e.seen_replicas)
  OBVIOUS
<1>2. P \subseteq Q /\ Q \subseteq Replicas
  BY <1>1 DEF Backers, Later, Sound, Correct
<1>3. Cardinality(P) \in Nat /\ Cardinality(Q) \in Nat /\ Cardinality(P) <= Cardinality(Q)
  BY ZenonT(40), <1>2, Replication, FS_Subset
<1>4. e.result_counts[r] \in Nat /\ e.result_counts[r] <= Cardinality(P)
  BY <1>1 DEF Sound
<1>5. e.result_counts[r] <= Cardinality(Q)
  BY SMTT(20), <1>3, <1>4
<1> QED
  BY <1>1, <1>5

\* So does one to which a reply of a backer is counted that has not been seen.
LEMMA SoundCounted ==
  ASSUME NEW e, NEW nd, NEW x, Sound(e, nd, x), NEW m,
         m.replica_id \notin e.seen_replicas,
         m.replica_id \in Backers(nd, x, m.result, Replicas)
  PROVE  LET d == C!Counted(e, m)
         IN  /\ Sound(d, nd, x) /\ d.call = e.call
             /\ m.result \in DOMAIN d.result_counts
<1>0. PICK d : d = C!Counted(e, m)
  OBVIOUS
<1>1. /\ DOMAIN d = {"call", "seen_replicas", "result_counts"}
      /\ d.call = e.call
      /\ d.seen_replicas = e.seen_replicas \cup {m.replica_id}
      /\ d.result_counts = C!Incremented(e.result_counts, m.result)
  BY ZenonT(40), <1>0 DEF C!Counted, Sound
<1>2. m.result \in DOMAIN d.result_counts
  BY <1>1 DEF C!Incremented
<1>3. d.seen_replicas \subseteq Replicas
  BY <1>1 DEF Sound, Backers
<1>4. ASSUME NEW r \in DOMAIN d.result_counts
      PROVE  /\ d.result_counts[r] \in Nat
             /\ d.result_counts[r] <= Cardinality(Backers(nd, x, r, d.seen_replicas))
  <2>1. PICK P, Q : /\ P = Backers(nd, x, r, e.seen_replicas)
                    /\ Q = Backers(nd, x, r, d.seen_replicas)
    OBVIOUS
  <2>2. P \subseteq Q /\ Q \subseteq Replicas /\ m.replica_id \notin P
    BY <1>1, <1>3, <2>1 DEF Backers
  <2>3. /\ IsFiniteSet(P) /\ Cardinality(P) \in Nat /\ Cardinality(Q) \in Nat
        /\ Cardinality(P) <= Cardinality(Q)
    BY ZenonT(40), <2>2, Replication, FS_Subset
  <2>4. CASE r # m.result
    <3>1. r \in DOMAIN e.result_counts /\ d.result_counts[r] = e.result_counts[r]
      BY ZenonT(40), <1>1, <1>4, <2>4 DEF C!Incremented
    <3>2. e.result_counts[r] \in Nat /\ e.result_counts[r] <= Cardinality(P)
      BY <2>1, <3>1 DEF Sound
    <3>3. d.result_counts[r] \in Nat /\ d.result_counts[r] <= Cardinality(Q)
      BY SMTT(20), <2>3, <3>1, <3>2
    <3> QED BY <2>1, <3>3
  <2>5. CASE r = m.result
    <3>1. Q = P \cup {m.replica_id}
      BY <1>1, <2>1, <2>5 DEF Backers
    <3>2. Cardinality(Q) = Cardinality(P) + 1
      BY <2>2, <2>3, <3>1, FS_AddElement
    <3>3. \/ d.result_counts[r] = 1
          \/ r \in DOMAIN e.result_counts /\ d.result_counts[r] = e.result_counts[r] + 1
      BY ZenonT(40), <1>1, <1>4, <2>5 DEF C!Incremented
    <3>4. r \in DOMAIN e.result_counts =>
            e.result_counts[r] \in Nat /\ e.result_counts[r] <= Cardinality(P)
      BY <2>1 DEF Sound
    <3>5. d.result_counts[r] \in Nat /\ d.result_counts[r] <= Cardinality(Q)
      BY SMTT(20), <2>3, <3>2, <3>3, <3>4
    <3> QED BY <2>1, <3>5
  <2> QED BY <2>4, <2>5
<1>5. Sound(d, nd, x)
  BY <1>1, <1>3, <1>4 DEF Sound
<1> QED
  BY <1>0, <1>1, <1>2, <1>5

\* f + 1 votes, less the faulty ones, are executions.
LEMMA AcceptedExecuted ==
  ASSUME NEW e, NEW nd, NEW x, Sound(e, nd, x), NEW r \in DOMAIN e.result_counts,
         C!Accepted(e, r)
  PROVE  LET D == {i \in Correct : Done(nd[i], Id, x, r)}
         IN  Cardinality(D) >= f + 1 - Cardinality(Faulty) /\ D # {}
<1>1. PICK D, B : /\ D = {i \in Correct : Done(nd[i], Id, x, r)}
                  /\ B = Backers(nd, x, r, e.seen_replicas)
  OBVIOUS
<1>2. D \subseteq Correct /\ B \subseteq Faulty \cup D /\ B \subseteq Replicas
  BY <1>1 DEF Backers, Sound, Correct
<1>3. e.result_counts[r] \in Nat /\ e.result_counts[r] <= Cardinality(B)
  BY <1>1 DEF Sound
<1>4. Cardinality(B) >= f + 1
  BY SMTT(20), <1>2, <1>3, Replication DEF C!Accepted, C!f, f
<1> QED
  BY <1>1, <1>2, <1>4, Outvoted

-----------------------------------------------------------------------------
(* The nodes. *)

\* A step of the nodes.
LEMMA NodesMove ==
  ASSUME ClusterOK, [Next]_vars
  PROVE  ClusterOK' /\ Later(node, node')
<1>1. IndInv /\ IndInv'
  BY NextIndInv DEF ClusterOK
<1>2. NodesOK(node) /\ up \subseteq Correct /\ InTransit(unsent)
  BY <1>1, IndInvNodes DEF InTransit
<1>3. StepOK(node, node')
  BY <1>2, NextNodes
<1>4. WellFormed
  BY ZenonT(40), <1>2, <1>1 DEF WellFormed, NodesOK, IndInv, TypeOK
<1>5. AllAnswered'
  <2> SUFFICES ASSUME NEW i \in Correct PROVE Answered(node'[i])
    BY DEF AllAnswered
  <2>1. Answered(node[i]) /\ i \in Replicas
    BY DEF ClusterOK, AllAnswered, Correct
  <2> QED BY <1>4, <2>1, NextAnswered
<1>6. \A i \in Faulty : node'[i].replies[Id] = <<>>
  BY <1>4, FaultyIdle DEF ClusterOK
<1>7. Later(node, node')
  <2> SUFFICES ASSUME NEW i \in Correct, NEW x, NEW r, Done(node[i], Id, x, r)
               PROVE  Done(node'[i], Id, x, r)
    BY DEF Later
  <2>1. Grows(node[i], node'[i])
    BY <1>3 DEF StepOK, Moves
  <2>2. Len(node[i].executed) \in Nat /\ Len(node'[i].executed) \in Nat
    BY <1>2, <1>3, NodeTypes DEF StepOK
  <2> QED BY <2>1, <2>2, DoneStays
<1> QED
  BY <1>1, <1>5, <1>6, <1>7 DEF ClusterOK

\* A step that only sends to the nodes, or lets a faulty one send.
LEMMA NodesRest ==
  ASSUME ClusterOK, UNCHANGED <<node, up, retries, timeouts>>, faults' \in Nat,
         unsent' \in [Replicas -> Seq(Request)]
  PROVE  ClusterOK' /\ Later(node, node')
<1>1. IndInv
  BY DEF ClusterOK
<1>2. IndInv'
  BY <1>1 DEF IndInv, TypeOK
<1>3. AllAnswered' /\ \A i \in Faulty : node'[i].replies[Id] = <<>>
  BY DEF ClusterOK, AllAnswered
<1> QED
  BY <1>2, <1>3 DEF ClusterOK, Later

\* The client takes a reply: of a correct node, about an execution of its own.
LEMMA NodesHeard ==
  ASSUME ClusterOK, NEW r \in Replicas, ReplyArrives(r)
  PROVE  LET m == Head(node[r].replies[Id])
         IN  /\ ClusterOK' /\ Later(node, node')
             /\ m.client_id = Id =>
                  m.replica_id \in Backers(node, m.timestamp, m.result, Replicas)
<1>1. PICK s : s = node[r]
  OBVIOUS
<1>2. PICK t : t = [s EXCEPT !.replies[Id] = Tail(s.replies[Id])]
  OBVIOUS
<1>3. /\ s.replies[Id] # <<>>
      /\ node' = [node EXCEPT ![r].replies[Id] = Tail(node[r].replies[Id])]
      /\ UNCHANGED <<up, unsent, retries, timeouts, faults>>
  BY ZenonT(40), <1>1 DEF ReplyArrives
<1>4. r \in Correct
  BY <1>1, <1>3 DEF ClusterOK, Correct
<1>5. /\ NodesOK(node) /\ up \subseteq Correct /\ unsent \in [Replicas -> Seq(Request)]
      /\ retries \in Nat /\ timeouts \in Nat /\ faults \in Nat
  BY IndInvNodes DEF ClusterOK
<1>6. Local(s) /\ Answered(s) /\ s.id = r
  BY <1>1, <1>4, <1>5 DEF NodesOK, ClusterOK, AllAnswered
<1>7. Local(t) /\ Answered(t) /\ SameExcept(s, t, {"replies"})
  BY <1>2, <1>3, <1>6, ReplyTaken, SystemAssumption
<1>8. NodesOK([node EXCEPT ![r] = t])
  BY <1>1, <1>4, <1>5, <1>7, ReplyTakenSafe
<1>9. node = [i \in Replicas |-> node[i]]
  BY <1>5 DEF NodesOK
<1>10. node' = [node EXCEPT ![r] = t]
  BY ZenonT(40), <1>1, <1>2, <1>3, <1>9
<1>11. node'[r] = t /\ \A i \in Replicas : i # r => node'[i] = node[i]
  BY ZenonT(40), <1>9, <1>10
<1>12. IndInv'
  <2>1. NodesOK(node')
    BY <1>8, <1>10
  <2>2. /\ up' \subseteq Correct /\ unsent' \in [Replicas -> Seq(Request)]
        /\ retries' \in Nat /\ timeouts' \in Nat /\ faults' \in Nat
    BY <1>3, <1>5
  <2> QED BY ZenonT(40), <2>1, <2>2 DEF IndInv, TypeOK, NodesOK, Local
<1>13. AllAnswered'
  BY <1>7, <1>11 DEF AllAnswered, ClusterOK, Correct
<1>14. \A i \in Faulty : node'[i].replies[Id] = <<>>
  BY <1>4, <1>11, ClusterAssumption DEF ClusterOK, Correct
<1>15. t.executed = s.executed
  BY ZenonT(40), <1>7 DEF SameExcept, NodeFields
<1>16. Later(node, node')
  BY <1>1, <1>11, <1>15, SameDone DEF Later, Correct
<1>17. ReplyOK(s, Id, Head(s.replies[Id]))
  BY <1>3, <1>6, FirstReply, SystemAssumption
<1>18. PICK m : m = Head(s.replies[Id])
  OBVIOUS
<1>19. m.replica_id \in Backers(node, m.timestamp, m.result, Replicas)
  BY <1>1, <1>6, <1>17, <1>18 DEF ReplyOK, Backers
<1> QED
  BY <1>1, <1>12, <1>13, <1>14, <1>16, <1>18, <1>19 DEF ClusterOK

-----------------------------------------------------------------------------
(* The steps of the system. *)

LEMMA SystemSteps ==
  ASSUME [SystemNext]_systemVars
  PROVE  \/ [Next]_vars /\ UNCHANGED localVars
         \/ \E t \in Threads : ThreadStep(t) \/ Resend(t)
         \/ \E r \in Replicas : ReplyArrives(r)
         \/ FaultyReplyArrives
         \/ (C!Lock \/ C!FinishReply) /\ UNCHANGED vars
BY DEF SystemNext, LoopStep, NodeStep, systemVars

\* What a thread sends is a request.
LEMMA Sending ==
  ASSUME SystemOK, NEW t \in Threads, NEW R, pc[t] # "idle",
         C!SendTo(R, C!TheRequest(t))
  PROVE  unsent' \in [Replicas -> Seq(Request)]
<1>1. unsent \in [Replicas -> Seq(Request)]
  BY DEF SystemOK, ClusterOK, IndInv, TypeOK
<1>2. /\ done[t] \in Nat /\ done[t] < Len(Calls[t]) /\ ts[t] \in Nat
      /\ Calls[t] \in Seq(C!Call) /\ Id \in Nat
  BY ZenonT(40), SystemAssumption DEF SystemOK, ThreadsOK, C!ClientAssumption
<1>3. Calls[t][done[t] + 1] \in C!Call
  BY SMTT(20), <1>2
<1>4. Calls[t][done[t] + 1].operation \in ServiceOperation
  <2>1. \A c \in C!Call : c.operation \in Operation
    BY ZenonT(40) DEF C!Call
  <2> QED BY <1>3, <2>1 DEF ServiceOperation
<1>5. PICK m : m = C!TheRequest(t)
  OBVIOUS
<1>6. m \in Request
  BY ZenonT(40), <1>2, <1>4, <1>5 DEF Request, C!TheRequest, C!RequestMsg, C!CurrentCall
<1>7. unsent' = [r \in Replicas |-> IF r \in R THEN Append(unsent[r], m) ELSE unsent[r]]
  BY <1>5 DEF C!SendTo, C!Replicas, Replicas
<1>8. \A r \in Replicas : unsent[r] \in Seq(Request) /\ Append(unsent[r], m) \in Seq(Request)
  BY SMTT(20), <1>1, <1>6
<1> QED
  BY <1>7, <1>8

\* The cluster stays in order, and what was executed stays executed.
LEMMA ClusterSide ==
  ASSUME SystemOK, [SystemNext]_systemVars
  PROVE  ClusterOK' /\ Later(node, node')
<1>1. ClusterOK /\ unsent \in [Replicas -> Seq(Request)] /\ faults \in Nat
  BY DEF SystemOK, ClusterOK, IndInv, TypeOK
<1>2. CASE [Next]_vars
  BY <1>1, <1>2, NodesMove
<1>3. CASE \E t \in Threads : ThreadStep(t) \/ Resend(t)
  <2>1. PICK t \in Threads : ThreadStep(t) \/ Resend(t)
    BY <1>3
  <2>2. UNCHANGED <<node, up, retries, timeouts, faults>>
    BY <2>1 DEF ThreadStep, Resend
  <2>3. unsent' = unsent \/ C!Send(t) \/ C!Retry(t)
    BY <2>1 DEF ThreadStep, Resend, C!ThreadStep, C!Invoke, C!InvokeAsync,
       C!Load, C!Store, C!BeginEmplace, C!EndEmplace, C!Return
  <2>4. unsent' = unsent \/ (pc[t] # "idle" /\ \E R : C!SendTo(R, C!TheRequest(t)))
    BY <2>3 DEF C!Send, C!Retry
  <2>5. unsent' \in [Replicas -> Seq(Request)]
    BY <1>1, <2>4, Sending
  <2> QED BY <1>1, <2>2, <2>5, NodesRest
<1>4. CASE \E r \in Replicas : ReplyArrives(r)
  BY <1>1, <1>4, NodesHeard
<1>5. CASE FaultyReplyArrives
  <2>1. UNCHANGED <<node, up, unsent, retries, timeouts>> /\ faults' = faults + 1
    BY <1>5 DEF FaultyReplyArrives
  <2>2. faults' \in Nat
    BY SMTT(20), <1>1, <2>1
  <2> QED BY <1>1, <2>1, <2>2, NodesRest
<1>6. CASE UNCHANGED vars
  BY <1>1, <1>6, NodesMove
<1> QED
  BY <1>2, <1>3, <1>4, <1>5, <1>6, SystemSteps

\* The reply in the event loop stays one its sender may send.
LEMMA LoopSide ==
  ASSUME SystemOK, [SystemNext]_systemVars, Later(node, node')
  PROVE  LoopOK'
<1>1. ClusterOK /\ LoopOK /\ C!Loop \in DOMAIN pc /\ C!Loop \notin Threads
  BY SystemAssumption DEF SystemOK, ThreadsOK, C!ClientAssumption
<1>2. \A x, r : Backers(node, x, r, Replicas) \subseteq Backers(node', x, r, Replicas)
  BY DEF Backers, Later, Correct
<1>3. CASE msg' = msg /\ (pc'[C!Loop] = pc[C!Loop] \/ pc[C!Loop] = "lock")
  BY <1>1, <1>2, <1>3 DEF LoopOK
<1>4. ASSUME NEW m, C!Receive(m),
             m.client_id = Id =>
               m.replica_id \in Backers(node, m.timestamp, m.result, Replicas)
      PROVE  LoopOK'
  <2>1. CASE m.client_id # Id
    <3>1. msg' = msg /\ pc'[C!Loop] = pc[C!Loop]
      BY <1>4, <2>1 DEF C!Receive
    <3> QED BY <1>3, <3>1
  <2>2. CASE m.client_id = Id
    <3>1. msg' = m
      BY <1>4, <2>2 DEF C!Receive
    <3> QED BY <1>2, <1>4, <2>2, <3>1 DEF LoopOK
  <2> QED BY <2>1, <2>2
<1>5. CASE UNCHANGED localVars
  BY <1>3, <1>5 DEF localVars
<1>6. CASE \E t \in Threads : ThreadStep(t) \/ Resend(t)
  <2>1. PICK t \in Threads : ThreadStep(t) \/ Resend(t)
    BY <1>6
  <2>2. msg' = msg /\ (pc' = pc \/ \E l : pc' = [pc EXCEPT ![t] = l])
    BY <2>1 DEF ThreadStep, Resend, C!ThreadStep, C!Invoke, C!InvokeAsync,
       C!Load, C!Store, C!BeginEmplace, C!EndEmplace, C!Send, C!Return, C!Retry, C!Goto
  <2>3. pc'[C!Loop] = pc[C!Loop]
    BY <1>1, <2>2
  <2> QED BY <1>3, <2>2, <2>3
<1>7. CASE \E r \in Replicas : ReplyArrives(r)
  BY <1>1, <1>4, <1>7, NodesHeard DEF ReplyArrives
<1>8. CASE FaultyReplyArrives
  <2>1. PICK m \in FaultyReplies : C!Receive(m)
    BY <1>8 DEF FaultyReplyArrives
  <2>2. m.replica_id \in Backers(node, m.timestamp, m.result, Replicas)
    BY <2>1, SystemAssumption, ClusterAssumption DEF Backers
  <2> QED BY <1>4, <2>1, <2>2
<1>9. CASE C!Lock
  BY <1>3, <1>9 DEF C!Lock
<1>10. CASE C!FinishReply
  <2>1. pc'[C!Loop] = "idle"
    BY <1>1, <1>10 DEF C!FinishReply, C!Goto
  <2> QED BY ZenonT(40), <2>1 DEF LoopOK
<1> QED
  BY <1>5, <1>6, <1>7, <1>8, <1>9, <1>10, SystemSteps

\* A thread that moves on is inside a call, or returns from it.
LEMMA ThreadMoves ==
  ASSUME ThreadsOK, NEW t \in Threads, C!ThreadStep(t)
  PROVE  /\ timestamp' \in Nat /\ ts' \in [Threads -> Nat]
         /\ \E l : /\ pc' = [pc EXCEPT ![t] = l]
                              /\ \/ done' = done /\ done[t] < Len(Calls[t])
                                 \/ l = "idle" /\ done' = [done EXCEPT ![t] = @ + 1]
<1>1. timestamp \in Nat /\ ts \in [Threads -> Nat] /\ Word64 \in Nat \ {0}
  BY SystemAssumption DEF ThreadsOK, C!ClientAssumption
<1>2. timestamp' \in Nat /\ ts' \in [Threads -> Nat]
  <2>1. CASE C!Load(t)
    <3>1. (timestamp + 1) % Word64 \in Nat
      BY SMTT(20), <1>1
    <3> QED BY ZenonT(40), <1>1, <2>1, <3>1 DEF C!Load
  <2>2. CASE C!Store(t)
    BY ZenonT(40), <1>1, <2>2 DEF C!Store
  <2>3. CASE UNCHANGED <<timestamp, ts>>
    BY <1>1, <2>3
  <2> QED BY <2>1, <2>2, <2>3 DEF C!ThreadStep, C!Invoke, C!InvokeAsync,
         C!BeginEmplace, C!EndEmplace, C!Send, C!Return
<1>3. pc[t] # "idle" => done[t] < Len(Calls[t])
  BY DEF ThreadsOK
<1>4. \E l :
        /\ pc' = [pc EXCEPT ![t] = l]
        /\ \/ done' = done /\ done[t] < Len(Calls[t])
           \/ l = "idle" /\ done' = [done EXCEPT ![t] = @ + 1]
  <2>1. CASE C!Invoke(t) \/ C!InvokeAsync(t)
    BY <2>1 DEF C!Invoke, C!InvokeAsync, C!HasCall, C!Goto
  <2>2. CASE C!Load(t) \/ C!Store(t)
    BY <1>3, <2>2 DEF C!Load, C!Store, C!Goto
  <2>3. CASE C!BeginEmplace(t)
    BY <1>3, <2>3 DEF C!BeginEmplace, C!Goto
  <2>4. CASE C!EndEmplace(t)
    BY <1>3, <2>4 DEF C!EndEmplace, C!Goto
  <2>5. CASE C!Send(t)
    BY <1>3, <2>5 DEF C!Send, C!Goto
  <2>6. CASE C!Return(t)
    BY <2>6 DEF C!Return, C!Goto
  <2> QED BY <2>1, <2>2, <2>3, <2>4, <2>5, <2>6 DEF C!ThreadStep
<1> QED
  BY <1>2, <1>4

\* The threads stay inside the calls they have.
LEMMA ThreadsSide ==
  ASSUME SystemOK, [SystemNext]_systemVars
  PROVE  ThreadsOK'
<1>1. ThreadsOK /\ C!Loop \notin Threads
  BY SystemAssumption DEF SystemOK, C!ClientAssumption
<1>2. CASE \E t \in Threads : C!ThreadStep(t)
  <2>1. PICK t \in Threads : C!ThreadStep(t)
    BY <1>2
  <2>2. PICK l : /\ pc' = [pc EXCEPT ![t] = l]
                            /\ \/ done' = done /\ done[t] < Len(Calls[t])
                               \/ l = "idle" /\ done' = [done EXCEPT ![t] = @ + 1]
    BY <1>1, <2>1, ThreadMoves
  <2>3. done' \in [Threads -> Nat] /\ \A u \in Threads : u # t => done'[u] = done[u]
    BY SMTT(20), <1>1, <2>2 DEF ThreadsOK
  <2>4. /\ DOMAIN pc' = Threads \cup {C!Loop} /\ pc'[t] = l
        /\ \A u \in Threads : u # t => pc'[u] = pc[u]
    BY ZenonT(40), <1>1, <2>2 DEF ThreadsOK
  <2>5. \A u \in Threads : pc'[u] # "idle" => done'[u] < Len(Calls[u])
    <3> SUFFICES ASSUME NEW u \in Threads, pc'[u] # "idle"
                 PROVE  done'[u] < Len(Calls[u])
      OBVIOUS
    <3>1. CASE u = t
      BY <2>2, <2>4, <3>1
    <3>2. CASE u # t
      BY <1>1, <2>3, <2>4, <3>2 DEF ThreadsOK
    <3> QED BY <3>1, <3>2
  <2> QED BY <1>1, <2>1, <2>3, <2>4, <2>5, ThreadMoves DEF ThreadsOK
<1>3. CASE UNCHANGED <<timestamp, ts, done>> /\
           (pc' = pc \/ \E l : pc' = [pc EXCEPT ![C!Loop] = l])
  <2>1. DOMAIN pc' = Threads \cup {C!Loop} /\ \A u \in Threads : pc'[u] = pc[u]
    BY <1>1, <1>3 DEF ThreadsOK
  <2> QED BY <1>1, <1>3, <2>1 DEF ThreadsOK
<1>4. CASE UNCHANGED localVars
  BY <1>3, <1>4 DEF localVars
<1>5. CASE \E t \in Threads : C!Retry(t)
  BY <1>3, <1>5 DEF C!Retry
<1>6. CASE (\E m : C!Receive(m)) \/ C!Lock \/ C!FinishReply
  BY <1>3, <1>6 DEF C!Receive, C!Lock, C!FinishReply, C!Goto
<1> QED
  BY <1>2, <1>4, <1>5, <1>6, SystemSteps
     DEF ThreadStep, Resend, ReplyArrives, FaultyReplyArrives

\* Entries and promises change when a request is put in flight and when a reply is
\* counted.
LEMMA EntrySteps ==
  ASSUME [SystemNext]_systemVars
  PROVE  \/ UNCHANGED <<inflight, future>>
         \/ \E t \in Threads : C!EndEmplace(t)
         \/ C!FinishReply /\ UNCHANGED node
BY SystemSteps DEF localVars, vars, ThreadStep, Resend, ReplyArrives,
   FaultyReplyArrives, C!ThreadStep, C!Invoke, C!InvokeAsync, C!Load, C!Store,
   C!BeginEmplace, C!Send, C!Return, C!Retry, C!Receive, C!Lock

\* The reply that is counted, if its request is in flight and its sender new.
LEMMA ReplyCounted ==
  ASSUME SystemOK, C!FinishReply, C!Fresh
  PROVE  LET e == C!Counted(inflight[msg.timestamp], msg)
         IN  /\ Sound(e, node, msg.timestamp)
             /\ e.call = inflight[msg.timestamp].call
             /\ msg.result \in DOMAIN e.result_counts
             /\ msg.timestamp \in DOMAIN inflight
<1>1. PICK x, e0 : x = msg.timestamp /\ e0 = inflight[x]
  OBVIOUS
<1>2. x \in DOMAIN inflight /\ msg.replica_id \notin e0.seen_replicas
  BY <1>1 DEF C!Fresh
<1>3. Sound(e0, node, x)
  BY <1>1, <1>2, EntriesSound DEF SystemOK
<1>4. msg.replica_id \in Backers(node, x, msg.result, Replicas)
  BY <1>1 DEF SystemOK, LoopOK, C!FinishReply
<1>5. LET e == C!Counted(e0, msg)
      IN  Sound(e, node, x) /\ e.call = e0.call /\ msg.result \in DOMAIN e.result_counts
  BY <1>2, <1>3, <1>4, SoundCounted
<1> QED
  BY <1>1, <1>2, <1>5

\* The entries keep their shape, and no vote is counted that is not one.
LEMMA EntriesSide ==
  ASSUME SystemOK, [SystemNext]_systemVars, Later(node, node')
  PROVE  EntriesOK' /\ VotesAreExecutions'
<1>1. DOMAIN future = C!CallIds /\ \A x \in DOMAIN inflight : Sound(inflight[x], node', x)
  <2>1. DOMAIN future = C!CallIds /\ \A x \in DOMAIN inflight : Sound(inflight[x], node, x)
    BY EntriesSound DEF SystemOK
  <2> QED BY <2>1, SoundLater
<1>2. DOMAIN future' = C!CallIds /\ \A x \in DOMAIN inflight' : Sound(inflight'[x], node', x)
  <2>1. CASE UNCHANGED <<inflight, future>>
    BY <1>1, <2>1
  <2>2. CASE \E t \in Threads : C!EndEmplace(t)
    <3>1. PICK t \in Threads : C!EndEmplace(t)
      BY <2>2
    <3>2. CASE ts[t] \in DOMAIN inflight
      BY <1>1, <3>1, <3>2 DEF C!EndEmplace
    <3>3. CASE ts[t] \notin DOMAIN inflight
      <4>1. PICK e : e = C!NewInflight(C!Current(t))
        OBVIOUS
      <4>2. Sound(e, node', ts[t])
        BY ZenonT(40), <4>1 DEF Sound, C!NewInflight
      <4>3. /\ future' = future
            /\ inflight' = [x \in DOMAIN inflight \cup {ts[t]} |->
                              IF x = ts[t] THEN e ELSE inflight[x]]
        BY <3>1, <3>3, <4>1 DEF C!EndEmplace
      <4> QED BY <1>1, <4>2, <4>3
    <3> QED BY <3>2, <3>3
  <2>3. CASE C!FinishReply /\ UNCHANGED node
    <3>1. CASE ~C!Fresh
      BY <1>1, <2>3, <3>1 DEF C!FinishReply
    <3>2. CASE C!Fresh
      <4>1. PICK e, x0 : x0 = msg.timestamp /\ e = C!Counted(inflight[x0], msg)
        OBVIOUS
      <4>2. Sound(e, node', x0) /\ x0 \in DOMAIN inflight
        BY <2>3, <3>2, <4>1, ReplyCounted
      <4>3. \/ /\ future' = [future EXCEPT ![e.call] = C!Ready(msg.result)]
               /\ inflight' = C!Without(inflight, x0)
            \/ future' = future /\ inflight' = [inflight EXCEPT ![x0] = e]
        BY <2>3, <3>2, <4>1 DEF C!FinishReply, C!CountReply
      <4>4. DOMAIN future' = C!CallIds
        BY <1>1, <4>3
      <4>5. CASE inflight' = C!Without(inflight, x0)
        BY <1>1, <4>4, <4>5 DEF C!Without
      <4>6. CASE inflight' = [inflight EXCEPT ![x0] = e]
        BY <1>1, <4>2, <4>4, <4>6
      <4> QED BY <4>3, <4>5, <4>6
    <3> QED BY <3>1, <3>2
  <2> QED BY <2>1, <2>2, <2>3, EntrySteps
<1> QED
  BY <1>2 DEF EntriesOK, VotesAreExecutions, Sound

\* A promise is set by the vote that makes f + 1.
LEMMA AnswerStep ==
  ASSUME SystemOK, [SystemNext]_systemVars, NEW c \in C!CallIds,
         future'[c] # future[c], future'[c].state = "ready"
  PROVE  \E x \in DOMAIN inflight, r \in future'[c].value :
           LET D == {i \in Correct : Done(node[i], Id, x, r)}
           IN  /\ inflight[x].call = c
               /\ Cardinality(D) >= f + 1 - Cardinality(Faulty) /\ D # {}
<1>1. DOMAIN future = C!CallIds
  BY DEF SystemOK, EntriesOK
<1>2. ASSUME NEW t \in Threads, C!EndEmplace(t) PROVE FALSE
  <2>1. future' = [future EXCEPT ![C!Current(t)] = C!Broken]
    BY <1>2 DEF C!EndEmplace
  <2>2. future'[c] = C!Broken
    BY <1>1, <2>1
  <2> QED BY SMTT(20), <2>2 DEF C!Broken
<1>3. C!FinishReply
  BY <1>2, EntrySteps
<1>4. PICK x, e, r : /\ x = msg.timestamp /\ e = C!Counted(inflight[x], msg)
                     /\ r = msg.result
  OBVIOUS
<1>5. C!Fresh /\ C!Accepted(e, r) /\ future' = [future EXCEPT ![e.call] = C!Ready(r)]
  BY <1>3, <1>4 DEF C!FinishReply, C!CountReply
<1>6. /\ Sound(e, node, x) /\ e.call = inflight[x].call
      /\ r \in DOMAIN e.result_counts /\ x \in DOMAIN inflight
  BY <1>3, <1>4, <1>5, ReplyCounted
<1>7. e.call = c /\ future'[c] = C!Ready(r)
  BY <1>1, <1>5
<1>8. r \in future'[c].value
  BY SMTT(20), <1>7 DEF C!Ready
<1>9. LET D == {i \in Correct : Done(node[i], Id, x, r)}
      IN  Cardinality(D) >= f + 1 - Cardinality(Faulty) /\ D # {}
  <2>1. Sound(e, node, x) /\ r \in DOMAIN e.result_counts /\ C!Accepted(e, r)
    BY <1>5, <1>6
  <2> QED BY SMTT(20), <2>1, AcceptedExecuted
<1> QED
  BY <1>6, <1>7, <1>8, <1>9

-----------------------------------------------------------------------------
(* Theorems. *)

LEMMA InitSystemOK == SystemInit => SystemOK
<1> SUFFICES ASSUME SystemInit PROVE SystemOK
  OBVIOUS
<1>0. PICK first \in FirstTimestamps : C!InitClient(first)
  BY DEF SystemInit
<1>1. Init /\ C!InitClient(first) /\ first \in Nat
  <2>1. first \in 0..(Word64 - 1)
    BY SystemAssumption
  <2>2. first \in Nat
    BY SMTT(20), <2>1, SystemAssumption DEF C!ClientAssumption
  <2> QED BY <1>0, <2>2 DEF SystemInit
<1>2. \A i \in Faulty : node[i].replies[Id] = <<>>
  <2> SUFFICES ASSUME NEW i \in Faulty PROVE node[i].replies[Id] = <<>>
    OBVIOUS
  <2>1. node[i].replies = [c \in Clients |-> <<>>]
    BY <1>1, FirstNodes, ClusterAssumption DEF Fresh
  <2> QED BY <2>1, SystemAssumption
<1>3. ClusterOK
  BY <1>1, <1>2, InitIndInv, FirstAnswered DEF ClusterOK, AllAnswered, Correct
<1>4. ThreadsOK /\ LoopOK
  BY ZenonT(40), <1>1 DEF C!InitClient, ThreadsOK, LoopOK
<1>5. EntriesOK /\ VotesAreExecutions
  BY <1>1 DEF C!InitClient, EntriesOK, VotesAreExecutions
<1> QED
  BY <1>3, <1>4, <1>5 DEF SystemOK

LEMMA NextSystemOK == SystemOK /\ [SystemNext]_systemVars => SystemOK'
<1> SUFFICES ASSUME SystemOK, [SystemNext]_systemVars PROVE SystemOK'
  OBVIOUS
<1>1. ClusterOK' /\ Later(node, node')
  BY ClusterSide
<1>2. ThreadsOK' /\ EntriesOK' /\ VotesAreExecutions' /\ LoopOK'
  BY <1>1, ThreadsSide, EntriesSide, LoopSide
<1> QED
  BY <1>1, <1>2 DEF SystemOK

\* The inductive invariant of a client and its cluster: the nodes are in order
\* although the client takes their replies, a reply in the event loop is about an
\* execution of its sender unless that is faulty, and so is every vote counted,
\* for any number of replicas and threads, any calls and whatever the faulty
\* replicas send (invoke, invoke_async, on_reply, send_to_client).
THEOREM SystemInductive == SystemSpec => []SystemOK
BY InitSystemOK, NextSystemOK, PTL DEF SystemSpec

\* No result has more votes than there are faulty replicas and replicas that have
\* executed the request with it, among those that have answered (on_reply's
\* seen_replicas and result_counts).
THEOREM VotesExecuted == SystemSpec => []VotesAreExecutions
<1>1. SystemOK => VotesAreExecutions
  BY DEF SystemOK
<1> QED
  BY <1>1, SystemInductive, PTL

\* A promise is only ever set to a result that a correct replica has computed
\* (on_reply's f + 1 equal replies).
THEOREM AnswersExecuted == SystemSpec => AnswerIsExecuted
<1>1. SystemOK /\ [SystemNext]_systemVars =>
        [\A c \in C!CallIds : future'[c] # future[c] /\ future'[c].state = "ready" =>
           \E x \in DOMAIN inflight, r \in future'[c].value :
             LET D == {i \in Correct : Done(node[i], Id, x, r)}
             IN  /\ inflight[x].call = c
                 /\ Cardinality(D) >= f + 1 - Cardinality(Faulty) /\ D # {}]_systemVars
  BY AnswerStep
<1> QED
  BY <1>1, SystemInductive, PTL DEF SystemSpec, AnswerIsExecuted

\* Two correct nodes never execute different digests at one number, except at a
\* checkpoint number that a correct node has left behind, also while a client takes
\* their replies and sends what its threads call (try_execute, send_to_client).
THEOREM SystemAgrees == SystemSpec => []Agreement
<1>1. SystemOK => Agreement
  BY IndInvAgrees DEF SystemOK, ClusterOK
<1> QED
  BY <1>1, SystemInductive, PTL

=============================================================================
