------------------------------- MODULE Wallet -------------------------------
(***************************************************************************)
(* The wallet row and the balance operations of wallet_repository.go.      *)
(*                                                                         *)
(* A wallet is the pair of columns the withdrawal and deposit flows touch: *)
(* main_balance and locked_balance.  Every operation below is one UPDATE   *)
(* of that row inside a database transaction; PostgreSQL evaluates it on   *)
(* the newest committed row, so an operation is a function from row to     *)
(* row.  RowAllowed is what the CHECK constraints accept: a transaction    *)
(* whose row they reject is rolled back.                                   *)
(***************************************************************************)
EXTENDS Integers

\* The columns of a wallet row that hold money a user can move.
WalletRow == [main : Int, locked : Int]

\* A wallet as registration creates it, before any deposit.
EmptyWallet == [main |-> 0, locked |-> 0]

\* Wallet.AvailableBalance: the part of the main balance that is not reserved.
AvailableBalance(w) == w.main - w.locked

\* Mutant of RowAllowed: migration 12 without its check on locked_balance >= 0.
RowAllowedNegative(w) == w.main >= 0 /\ w.locked <= w.main

\* The CHECK constraints of migrations 1 and 12.
RowAllowed(w) == /\ w.main >= 0
                 /\ w.locked >= 0
                 /\ w.locked <= w.main

\* FindByUserIDForUpdate then main_balance = before + amount: a verified deposit.
Credit(w, amount) == [w EXCEPT !.main = @ + amount]

\* LockFunds refuses when the available balance is short ...
CanLock(w, amount) == AvailableBalance(w) >= amount

\* Mutant of LockFunds: the balance is checked but nothing is reserved.
LockNothing(w, amount) == w

\* ... and otherwise reserves the amount without debiting it.
LockFunds(w, amount) == [w EXCEPT !.locked = @ + amount]

\* The money left for the bank: it is debited and its reservation ends.
ReleaseFundsOnSuccess(w, amount) ==
    [main |-> w.main - amount, locked |-> w.locked - amount]

\* Mutant of ReleaseFundsOnFailure: the reservation of a failed transfer is forgotten.
ReleaseFundsForgotten(w, amount) == w

\* The transfer failed: only the reservation ends.
ReleaseFundsOnFailure(w, amount) == [w EXCEPT !.locked = @ - amount]

\* The wallet update of FinalizeWithdrawal, by the outcome of the transfer.
Release(w, amount, success) ==
    IF success THEN ReleaseFundsOnSuccess(w, amount)
               ELSE ReleaseFundsOnFailure(w, amount)
=============================================================================
