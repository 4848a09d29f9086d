---------------------------- MODULE MCWithdrawals ----------------------------
(* Small instances of Withdrawals for TLC. *)
EXTENDS Withdrawals, TLC

\* One kobo and two kobo can be withdrawn; zero is below the minimum.
MCAmounts == 0..2

\* Request handlers are interchangeable, and so are users.
HandlerSymmetry == Permutations(Requesters) \cup Permutations(Users)
=============================================================================
