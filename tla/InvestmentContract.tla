-------------------------- MODULE InvestmentContract --------------------------
(***************************************************************************)
(* What an investor is promised: an investment is one step.  It takes its  *)
(* price out of what the investor can spend, takes slots that are still    *)
(* free, and is made at most once for a key; nothing else moves slots, and *)
(* a request that is refused or given up has no effect at all.  Where a    *)
(* debit went on without its transaction, what that user has paid and can  *)
(* spend may be wrong from then on; everything else is kept.               *)
(***************************************************************************)
EXTENDS Naturals

CONSTANTS Users, Properties, Keys, NoKey, Slots, Units, Price

VARIABLES
    funds,   \* user -> what the user can spend
    free,    \* property -> the slots nobody has bought
    holds,   \* user, property -> the slots bought
    paid,    \* user, property -> the price paid
    made,    \* user, key -> the investments made for that key
    adrift   \* the users with a debit that went on without its transaction

investVars == <<funds, free, holds, paid, made, adrift>>

ContractInit == /\ funds \in [Users -> Nat]
                /\ free = [p \in Properties |-> Units]
                /\ holds = [u \in Users |-> [p \in Properties |-> 0]]
                /\ paid = [u \in Users |-> [p \in Properties |-> 0]]
                /\ made = [u \in Users |-> [k \in Keys \cup {NoKey} |-> 0]]
                /\ adrift = {}

Invest(u, p, k, n) == /\ n * Price <= funds[u]
                      /\ n <= free[p]
                      /\ k = NoKey \/ made[u][k] = 0
                      /\ funds' = [funds EXCEPT ![u] = @ - n * Price]
                      /\ free' = [free EXCEPT ![p] = @ - n]
                      /\ holds' = [holds EXCEPT ![u][p] = @ + n]
                      /\ paid' = [paid EXCEPT ![u][p] = @ + n * Price]
                      /\ made' = [made EXCEPT ![u][k] = @ + 1]
                      /\ UNCHANGED adrift

\* Deposits and withdrawals of one unit.
Move(u) == /\ funds'[u] \in {funds[u] - 1, funds[u], funds[u] + 1} \cap Nat
           /\ \A v \in Users \ {u} : funds'[v] = funds[v]
           /\ UNCHANGED <<free, holds, paid, made, adrift>>

Lose(u) == /\ adrift' = adrift \cup {u}
           /\ UNCHANGED <<funds, free, holds, paid, made>>

\* The ledger row of a debit adrift, and the save of its copy of the wallet.
StrayRow(u, p, n) == /\ u \in adrift
                     /\ paid' = [paid EXCEPT ![u][p] = @ + n * Price]
                     /\ UNCHANGED <<funds, free, holds, made, adrift>>

StraySave(u) == /\ u \in adrift
                /\ funds'[u] \in Nat
                /\ \A v \in Users \ {u} : funds'[v] = funds[v]
                /\ UNCHANGED <<free, holds, paid, made, adrift>>

ContractNext == \E u \in Users :
    \/ \E p \in Properties, k \in Keys \cup {NoKey}, n \in Slots : Invest(u, p, k, n)
    \/ \E p \in Properties, n \in Slots : StrayRow(u, p, n)
    \/ Move(u) \/ Lose(u) \/ StraySave(u)

ContractSpec == ContractInit /\ [][ContractNext]_investVars
=============================================================================
