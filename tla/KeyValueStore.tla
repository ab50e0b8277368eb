--------------------------- MODULE KeyValueStore ----------------------------
(***************************************************************************)
(* KeyValueStore::execute of the key-value example (kv_store.cc).          *)
(*                                                                         *)
(* An operation is the sequence of words an istringstream splits its text  *)
(* into.  The texts of the answers are kept apart by a tag.                *)
(***************************************************************************)
EXTENDS Naturals, Sequences

CONSTANTS
  Numeral,  \* Numeral[w] is the number at the front of word w, if there is one
  Word32    \* number of values of a uint32_t

EmptyStore == [k \in {} |-> 0]

\* iss >> value fails on a word that is no number and on one out of range.
ReadsNumber(w) == w \in DOMAIN Numeral /\ Numeral[w] < Word32

Answer(tag, value) == [tag |-> tag, value |-> value]
OK == Answer("OK", 0)
Error == Answer("ERROR", 0)
NotFound == Answer("NOT_FOUND", 0)

IsCommand(op, cmd, words) == Len(op) >= words /\ op[1] = cmd

IsPut(op) == IsCommand(op, "PUT", 3) /\ ReadsNumber(op[3])
IsGet(op) == IsCommand(op, "GET", 2)
IsDelete(op) == IsCommand(op, "DELETE", 2)

\* The store after an operation.
Stored(store, op) ==
  IF IsPut(op)
  THEN [k \in DOMAIN store \cup {op[2]} |->
          IF k = op[2] THEN Numeral[op[3]] ELSE store[k]]
  ELSE IF IsDelete(op) THEN [k \in DOMAIN store \ {op[2]} |-> store[k]]
  ELSE store

\* Its answer.
Answered(store, op) ==
  IF IsPut(op) \/ IsDelete(op) THEN OK
  ELSE IF ~IsGet(op) THEN Error
  ELSE IF op[2] \in DOMAIN store THEN Answer("VALUE", store[op[2]])
  ELSE NotFound

=============================================================================
