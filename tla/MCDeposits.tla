----------------------------- MODULE MCDeposits -----------------------------
(* Small instances of Deposits for TLC. *)
EXTENDS Deposits

\* An amount below the minimum and one that is accepted.
MCAmounts == 1..2
=============================================================================
