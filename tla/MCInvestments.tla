---------------------------- MODULE MCInvestments ----------------------------
(* Small instances of Investments for TLC. *)
EXTENDS Investments, TLC

\* One slot or two of a property that has two.
MCSlots == 1..2

\* Requests are told apart by nothing but their state.
RequestSymmetry == Permutations(Requests)
=============================================================================
