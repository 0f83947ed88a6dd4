---------------------------- MODULE Transactions ----------------------------
(***************************************************************************)
(* Transactions as the scheduler sees them: an identifier, the objects     *)
(* read and the objects written (txn_t in wrapper/include/pmhw.h).  The    *)
(* identifiers are positions in the workload, 1..NumTxns; the order of the *)
(* read and write arrays, and duplicates in them, play no part in the      *)
(* conflict check and are abstracted to sets.                              *)
(***************************************************************************)
EXTENDS Integers

CONSTANTS NumTxns,    \* workload->num_txns
          Objects,    \* the object identifiers (obj_id_t)
          reads,      \* reads[t]: the objects transaction t reads
          writes      \* writes[t]: the objects transaction t writes

Txns == 1..NumTxns

ASSUME TransactionsAssumption ==
         /\ NumTxns \in Nat
         /\ reads  \in [Txns -> SUBSET Objects]
         /\ writes \in [Txns -> SUBSET Objects]

(***************************************************************************)
(* check_txn_conflict: the three nested loops, reads of a against writes   *)
(* of b, writes of a against reads of b, writes of a against writes of b.  *)
(***************************************************************************)
check_txn_conflict(a, b) ==
  \/ \E r \in reads[a],  w \in writes[b] : r = w
  \/ \E w \in writes[a], r \in reads[b]  : w = r
  \/ \E w \in writes[a], v \in writes[b] : w = v
=============================================================================
