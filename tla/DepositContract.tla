--------------------------- MODULE DepositContract ---------------------------
(***************************************************************************)
(* What a deposit promises: a payment that was billed and paid is credited *)
(* to its owner, in full, exactly once; nothing else is credited.          *)
(***************************************************************************)
EXTENDS Integers

CONSTANTS Users,      \* the account holders
          Payments,   \* the payments that may ever be billed
          Amounts     \* the amounts a user can ask to deposit

VARIABLES balance,    \* user -> money of the user held by the platform
          bill,       \* payment -> who is billed and for how much
          billed,     \* the payments that have been billed
          paid,       \* the payments whose money has arrived
          credited    \* the payments that were added to a balance

contractVars == <<balance, bill, billed, paid, credited>>

Init == /\ balance = [u \in Users |-> 0]
        /\ bill \in [Payments -> [user : Users, amount : Nat]]
        /\ billed = {}
        /\ paid = {}
        /\ credited = {}

Bill(p, u, amount) == /\ p \notin billed
                      /\ billed' = billed \cup {p}
                      /\ bill' = [bill EXCEPT ![p] = [user |-> u, amount |-> amount]]
                      /\ UNCHANGED <<balance, paid, credited>>

Pay(p) == /\ p \in billed \ paid
          /\ paid' = paid \cup {p}
          /\ UNCHANGED <<balance, bill, billed, credited>>

Credit(p) == /\ p \in paid \ credited
             /\ credited' = credited \cup {p}
             /\ balance' = [balance EXCEPT ![bill[p].user] = @ + bill[p].amount]
             /\ UNCHANGED <<bill, billed, paid>>

Next == \/ \E p \in Payments, u \in Users, amount \in Amounts : Bill(p, u, amount)
        \/ \E p \in Payments : Pay(p) \/ Credit(p)

Spec == Init /\ [][Next]_contractVars
=============================================================================
