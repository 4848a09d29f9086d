----------------------------- MODULE MCPipeline -----------------------------
(* Small instances of WithdrawalPipeline for TLC. *)
EXTENDS WithdrawalPipeline

\* The goroutines and requests that call FinalizeWithdrawal, and two withdrawals.
CONSTANTS consumer, reconciler, w1, t1, t2

MCFinalizers == {consumer, reconciler, w1}
MCAmounts == {1}

\* The rows are created in this order; the other is the same with the names exchanged.
InOrder == txn[t2].status # "none" => txn[t1].status # "none"
=============================================================================
