------------------------------ MODULE MCSystem ------------------------------
(***************************************************************************)
(* Values of the constants of System for TLC.                              *)
(***************************************************************************)
EXTENDS SystemInv

OneInvoke == [t \in {"t1"} |-> <<[how |-> "invoke", operation |-> "A"]>>]

\* Replica 1 answers the call, whose timestamp is 1 or, once timestamp_ has
\* wrapped, 0, with a result of its own, as often as it may.
Invented == {ReplyMsg(0, x, 4, 1, <<"A", "A">>) : x \in {0, 1}}

NoSubmissions == [i \in Replicas |-> <<>>]

=============================================================================
