------------------------------ MODULE Messages ------------------------------
(***************************************************************************)
(* The wire messages of messages.hh as records, and the digests they       *)
(* carry.  Byte layout, opcodes and sizes are left out: no handler of the  *)
(* node branches on them.                                                  *)
(*                                                                         *)
(* salticidae::get_hash is taken to be collision free, so the digest of a  *)
(* request is the request itself behind a tag.  Four kinds of digest       *)
(* occur: of a request, of the empty string (the null request a new        *)
(* primary proposes), the all-zero value of a default uint256_t, and a     *)
(* hash of something else, which only a faulty replica sends.              *)
(***************************************************************************)
EXTENDS Naturals, Sequences

CONSTANT Operation   \* the operations of the service that clients ask for

RequestMsg(operation, timestamp, client_id) ==
  [type |-> "request", operation |-> operation, timestamp |-> timestamp,
   client_id |-> client_id]

\* RequestMsg null_req("", 0, 0) of on_viewchange.
NullReq == RequestMsg("", 0, 0)

get_hash(req) == [kind |-> "request", of |-> req]

\* salticidae::get_hash("")
EmptyHash == [kind |-> "empty", of |-> NullReq]

\* The value of a default-constructed uint256_t.
ZeroDigest == [kind |-> "zero", of |-> NullReq]

ReplyMsg(view, timestamp, client_id, replica_id, result) ==
  [type |-> "reply", view |-> view, timestamp |-> timestamp,
   client_id |-> client_id, replica_id |-> replica_id, result |-> result]

\* Mutant: the digest is not copied.
PrePrepareMsgNoDigest(view, seq_num, req_digest, req) ==
  [type |-> "preprepare", view |-> view, seq_num |-> seq_num,
   req_digest |-> ZeroDigest, req |-> req]

PrePrepareMsg(view, seq_num, req_digest, req) ==
  [type |-> "preprepare", view |-> view, seq_num |-> seq_num,
   req_digest |-> req_digest, req |-> req]

PrepareMsg(view, seq_num, req_digest, replica_id) ==
  [type |-> "prepare", view |-> view, seq_num |-> seq_num,
   req_digest |-> req_digest, replica_id |-> replica_id]

CommitMsg(view, seq_num, req_digest, replica_id) ==
  [type |-> "commit", view |-> view, seq_num |-> seq_num,
   req_digest |-> req_digest, replica_id |-> replica_id]

CheckpointMsg(seq_num, state_digest, replica_id) ==
  [type |-> "checkpoint", seq_num |-> seq_num, state_digest |-> state_digest,
   replica_id |-> replica_id]

PrepareProof(view, seq_num, digest) ==
  [view |-> view, seq_num |-> seq_num, digest |-> digest]

\* checkpoint_proof is left out: no handler reads it.
ViewChangeMsg(next_view, last_stable_checkpoint, replica_id, prepared_proofs) ==
  [type |-> "viewchange", next_view |-> next_view,
   last_stable_checkpoint |-> last_stable_checkpoint,
   replica_id |-> replica_id, prepared_proofs |-> prepared_proofs]

\* view_changes is a set of ViewChangeMsg (the code's vector has one of each
\* replica), pre_prepares a sequence of PrePrepareMsg.
NewViewMsg(next_view, view_changes, pre_prepares) ==
  [type |-> "newview", next_view |-> next_view,
   view_changes |-> view_changes, pre_prepares |-> pre_prepares]

-----------------------------------------------------------------------------
(* The types of the values above. *)

\* The empty operation is the null request's.
ServiceOperation == Operation \cup {""}

Request == [type : {"request"}, operation : ServiceOperation, timestamp : Nat,
            client_id : Nat]

Digest == [kind : {"request", "empty", "zero", "other"}, of : Request]

\* The digests get_hash can return.
HashValue == [kind : {"request", "empty", "other"}, of : Request]

Proof == [view : Nat, seq_num : Nat, digest : HashValue]

=============================================================================
