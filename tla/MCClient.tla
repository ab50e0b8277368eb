------------------------------ MODULE MCClient ------------------------------
(***************************************************************************)
(* Values of the constants of KvClient for TLC.                            *)
(***************************************************************************)
EXTENDS KvClient

PutX == <<"PUT", "x", "1">>
GetX == <<"GET", "x">>
DeleteX == <<"DELETE", "x">>
Operations == {PutX, GetX, DeleteX}

ReadsOne == [w \in {"1"} |-> 1]

Made(how, operation) == [how |-> how, operation |-> operation]

\* Two threads that use invoke_async.
AsyncCalls ==
  [t \in {"t1", "t2"} |->
     IF t = "t1" THEN <<Made("invoke_async", PutX), Made("invoke_async", GetX)>>
     ELSE <<Made("invoke_async", DeleteX)>>]

\* One thread that uses invoke, as kv_client does.
BlockingCalls == [t \in {"t1"} |-> <<Made("invoke", PutX), Made("invoke", GetX)>>]

\* Replica 3 answers before there is an answer, with a value of its own and
\* from a later view, and answers for another client.
WrongReplies ==
  {ReplyMsg(2, x, 4, 3, Answer("VALUE", 9)) : x \in {1, 2}}
    \cup {ReplyMsg(2, 1, 5, 3, OK)}

=============================================================================
