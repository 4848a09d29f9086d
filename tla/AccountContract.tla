--------------------------- MODULE AccountContract ---------------------------
(***************************************************************************)
(* What the wallet promises its users, without locked balances, row locks, *)
(* request handlers or finalizers.  An account has a balance.  A           *)
(* withdrawal reserves part of it when it is made, at most one per user is *)
(* open at a time, and it is settled exactly once: it either takes its     *)
(* amount out of the balance or leaves the balance as it was.              *)
(***************************************************************************)
EXTENDS Integers

CONSTANTS Users,     \* the account holders
          Ids,       \* the withdrawals that may ever be made
          Amounts    \* the amounts of money a user can ask to move

VARIABLES balance,   \* user -> money of the user held by the platform
          status,    \* withdrawal -> "none", "pending", "completed" or "failed"
          claim      \* withdrawal -> who made it and for how much

contractVars == <<balance, status, claim>>

Claims == [user : Users, amount : Nat]

\* A withdrawal of u that has not been settled.
Open(u, t) == status[t] = "pending" /\ claim[t].user = u

Init == /\ balance \in [Users -> Nat]
        /\ status = [t \in Ids |-> "none"]
        /\ claim \in [Ids -> Claims]

\* A verified deposit.
Deposit(u, amount) == /\ balance' = [balance EXCEPT ![u] = @ + amount]
                      /\ UNCHANGED <<status, claim>>

\* With nothing else open, all of the balance is available.
Reserve(t, u, amount) == /\ status[t] = "none"
                         /\ \A other \in Ids : ~Open(u, other)
                         /\ amount <= balance[u]
                         /\ status' = [status EXCEPT ![t] = "pending"]
                         /\ claim' = [claim EXCEPT ![t] = [user |-> u, amount |-> amount]]
                         /\ UNCHANGED balance

\* The bank has the money.
Pay(t) == /\ status[t] = "pending"
          /\ status' = [status EXCEPT ![t] = "completed"]
          /\ balance' = [balance EXCEPT ![claim[t].user] = @ - claim[t].amount]
          /\ UNCHANGED claim

\* The bank does not get the money, now or later.
Return(t) == /\ status[t] = "pending"
             /\ status' = [status EXCEPT ![t] = "failed"]
             /\ UNCHANGED <<balance, claim>>

Next == \/ \E u \in Users, amount \in Amounts : Deposit(u, amount)
        \/ \E t \in Ids, u \in Users, amount \in Amounts : Reserve(t, u, amount)
        \/ \E t \in Ids : Pay(t) \/ Return(t)

Spec == Init /\ [][Next]_contractVars
=============================================================================
