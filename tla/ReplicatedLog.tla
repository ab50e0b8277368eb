--------------------------- MODULE ReplicatedLog ----------------------------
(***************************************************************************)
(* What the replicas promise together: one log of requests.                *)
(*                                                                         *)
(* A server appends to its copy of the log and moves a low watermark up.   *)
(* A number at which two copies disagree is a checkpoint number that some  *)
(* server's watermark has reached: the protocol decides a number once, but *)
(* a server whose watermark stands at a number takes a second proposal for *)
(* it.                                                                     *)
(***************************************************************************)
EXTENDS Naturals, Sequences

CONSTANTS
  Servers,  \* the replicas that follow the protocol
  Interval  \* the distance between checkpoint numbers

VARIABLES
  log,  \* log[i] is what server i has executed
  low   \* low[i] is the low watermark of server i

\* The copies agree, but for the checkpoint numbers left behind.
Consistent(l, w) ==
  \A i, j \in Servers : \A n \in 1..Len(l[i]) \cap 1..Len(l[j]) :
    \/ l[i][n] = l[j][n]
    \/ n % Interval = 0 /\ \E q \in Servers : n <= w[q]

Init ==
  /\ log = [i \in Servers |-> <<>>]
  /\ low = [i \in Servers |-> 0]

\* Server i appends one or more requests and stays consistent with the others.
Execute(i) ==
  /\ log' = [log EXCEPT ![i] = log'[i]]
  /\ Len(log[i]) < Len(log'[i])
  /\ \A n \in 1..Len(log[i]) : log'[i][n] = log[i][n]
  /\ Consistent(log', low)
  /\ UNCHANGED low

\* Server i moves its watermark up to a checkpoint that a server has reached.
Discard(i) ==
  /\ low' = [low EXCEPT ![i] = low'[i]]
  /\ low[i] < low'[i]
  /\ low'[i] % Interval = 0
  /\ \E j \in Servers : low'[i] <= Len(log[j])
  /\ UNCHANGED log

Next == \E i \in Servers : Execute(i) \/ Discard(i)

Spec == Init /\ [][Next]_<<log, low>>

=============================================================================
