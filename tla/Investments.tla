----------------------------- MODULE Investments -----------------------------
(***************************************************************************)
(* CreateInvestment (investment_service.go): one transaction that looks    *)
(* for the idempotency key, locks the property, locks the wallet, debits   *)
(* it, and records funding, investment and event.                          *)
(*                                                                         *)
(* The debit is written through repository methods that take no            *)
(* transaction and so use another connection: the insert into the ledger   *)
(* needs a share of the lock of the wallet's row for its foreign key, and  *)
(* the save of the wallet needs the row itself.  Both wait for whoever     *)
(* holds the lock, their own transaction included, and stay when it is     *)
(* rolled back.  DebitWays has the ways in which a request may debit: in   *)
(* the code it is {"outside"}; "inside" is what the comments describe.     *)
(***************************************************************************)
EXTENDS Wallet, FiniteSets

CONSTANTS
    Requests,     \* requests for an investment that may be in progress
    NoRequest,    \* nobody holds the lock
    Users,
    Properties,   \* the properties on offer
    Keys,         \* idempotency keys
    NoKey,        \* a request without one
    Slots,        \* the numbers of slots a request may ask for
    Units,        \* total_units of a property
    Price,        \* unit_price; target_amount is Units * Price (checkFinancials)
    Minimum,      \* minimum_investment
    MaxMain,      \* bound of the deposits
    MaxLost,      \* bound of the transactions lost while a debit waits
    DebitWays     \* "inside" the transaction, "outside" it or both

ASSUME AmountsAssumption == /\ {Units, Minimum, MaxMain, MaxLost} \subseteq Nat
                            /\ Price \in Nat \ {0}
                            /\ Slots \subseteq Nat \ {0}
ASSUME NamesAssumption   == NoRequest \notin Requests /\ NoKey \notin Keys
ASSUME DebitAssumption   == DebitWays \subseteq {"inside", "outside"}
ASSUME SomeAssumption    == Users # {} /\ Properties # {} /\ Slots # {}

VARIABLES
    wallet,         \* user -> the row of wallets
    ledger,         \* user, property -> total of the investment rows in wallet_transactions
    sold,           \* property -> units_sold (and raised_amount, times Price)
    investors,      \* property -> investor_count
    holds,          \* user, property -> slots in the rows of investments
    made,           \* user, key -> the rows of investments with that idempotency key
    propertyLock,   \* property -> the request whose transaction has locked its row
    walletLock,     \* user -> the request whose transaction has locked the wallet
    req,            \* request -> its local variables, and the wallet it has read
    lost            \* history: user -> the debits that went on without their transaction

tables == <<wallet, ledger, sold, investors, holds, made>>
locks  == <<propertyLock, walletLock>>
vars   == <<tables, locks, req, lost>>

IdleRequest == [pc |-> "idle", user |-> CHOOSE u \in Users : TRUE,
                property |-> CHOOSE p \in Properties : TRUE, key |-> NoKey,
                slots |-> CHOOSE n \in Slots : TRUE, row |-> EmptyWallet]
RequestPCs   == {"idle", "checked", "propertyLocked", "walletLocked", "inserted", "saved",
                 "debited"}
RequestState == [pc : RequestPCs, user : Users, property : Properties, key : Keys \cup {NoKey},
                 slots : Slots, row : WalletRow]

TypeOK == /\ wallet \in [Users -> WalletRow]
          /\ \A u \in Users : RowAllowed(wallet[u])
          /\ ledger \in [Users -> [Properties -> Nat]]
          /\ sold \in [Properties -> 0 .. Units]
          /\ investors \in [Properties -> Nat]
          /\ holds \in [Users -> [Properties -> Nat]]
          /\ made \in [Users -> [Keys \cup {NoKey} -> Nat]]
          /\ propertyLock \in [Properties -> Requests \cup {NoRequest}]
          /\ walletLock \in [Users -> Requests \cup {NoRequest}]
          /\ req \in [Requests -> RequestState]
          /\ lost \in [Users -> 0 .. MaxLost]

Init == /\ wallet = [u \in Users |-> EmptyWallet]
        /\ ledger = [u \in Users |-> [p \in Properties |-> 0]]
        /\ sold = [p \in Properties |-> 0]
        /\ investors = [p \in Properties |-> 0]
        /\ holds = [u \in Users |-> [p \in Properties |-> 0]]
        /\ made = [u \in Users |-> [k \in Keys \cup {NoKey} |-> 0]]
        /\ propertyLock = [p \in Properties |-> NoRequest]
        /\ walletLock = [u \in Users |-> NoRequest]
        /\ req = [r \in Requests |-> IdleRequest]
        /\ lost = [u \in Users |-> 0]

-----------------------------------------------------------------------------
(* The checks, in their order *)

Amount(r) == req[r].slots * Price

\* Mutant of Available: a property is open until it is funded, whatever is asked for.
AnyLeft(r) == Units - sold[req[r].property] > 0

\* CanAcceptInvestments (funded means that no slot is left), the minimum and the slots.
Available(r) == LET left == Units - sold[req[r].property]
                IN  /\ left > 0
                    /\ Amount(r) >= Minimum
                    /\ req[r].slots <= left

\* Wallet.CanInvest
CanInvest(r) == AvailableBalance(wallet[req[r].user]) >= Amount(r)

\* Mutant of KeyIsNew: the look before the locks is all there is.
KeyWasNew(r) == TRUE

\* The unique index on user_id and idempotency_key, where there is a key.
KeyIsNew(r) == req[r].key = NoKey \/ made[req[r].user][req[r].key] = 0

At(r, pc)     == req[r].pc = pc
GoTo(r, pc)   == req' = [req EXCEPT ![r].pc = pc]
Answer(r)     == req' = [req EXCEPT ![r] = IdleRequest]
Held(r, lock) == [x \in DOMAIN lock |-> IF lock[x] = r THEN NoRequest ELSE lock[x]]

\* The end of a transaction, committed or rolled back.
Unlock(r) == /\ propertyLock' = Held(r, propertyLock)
             /\ walletLock' = Held(r, walletLock)

Rollback(r) == /\ Unlock(r)
               /\ Answer(r)
               /\ UNCHANGED <<tables, lost>>

\* The transaction of the request is still there, and so are its locks.
Alive(r) == propertyLock[req[r].property] = r

-----------------------------------------------------------------------------
(* The steps of CreateInvestment *)

\* A key that is found is answered with its investment, and nothing is done.
Begin(r, u, p, k, n) ==
    /\ At(r, "idle")
    /\ k = NoKey \/ made[u][k] = 0
    /\ req' = [req EXCEPT ![r] = [pc |-> "checked", user |-> u, property |-> p, key |-> k,
                                  slots |-> n, row |-> EmptyWallet]]
    /\ UNCHANGED <<tables, locks, lost>>

LockProperty(r) ==
    /\ At(r, "checked")
    /\ propertyLock[req[r].property] = NoRequest
    /\ Available(r)
    /\ propertyLock' = [propertyLock EXCEPT ![req[r].property] = r]
    /\ GoTo(r, "propertyLocked")
    /\ UNCHANGED <<tables, walletLock, lost>>

RejectProperty(r) ==
    /\ At(r, "checked")
    /\ propertyLock[req[r].property] = NoRequest
    /\ ~Available(r)
    /\ Rollback(r)

\* Mutant of LockWallet: the row is read without FOR UPDATE.
ReadWallet(r) ==
    /\ At(r, "propertyLocked")
    /\ walletLock[req[r].user] = NoRequest
    /\ CanInvest(r)
    /\ req' = [req EXCEPT ![r].pc = "walletLocked", ![r].row = wallet[req[r].user]]
    /\ UNCHANGED <<tables, locks, lost>>

LockWallet(r) ==
    /\ At(r, "propertyLocked")
    /\ walletLock[req[r].user] = NoRequest
    /\ CanInvest(r)
    /\ walletLock' = [walletLock EXCEPT ![req[r].user] = r]
    /\ req' = [req EXCEPT ![r].pc = "walletLocked", ![r].row = wallet[req[r].user]]
    /\ UNCHANGED <<tables, propertyLock, lost>>

RejectWallet(r) ==
    /\ At(r, "propertyLocked")
    /\ walletLock[req[r].user] = NoRequest
    /\ ~CanInvest(r)
    /\ Rollback(r)

\* The debit as the row that was read has it, all columns of it.
Debited(r) == [req[r].row EXCEPT !.main = @ - Amount(r)]

\* CreateTransaction and Update as two statements of the transaction: nobody else
\* sees them before it commits.
DebitInside(r) ==
    /\ "inside" \in DebitWays
    /\ At(r, "walletLocked")
    /\ Alive(r)
    /\ GoTo(r, "debited")
    /\ UNCHANGED <<tables, locks, lost>>

\* CreateTransaction on another connection, which commits when nobody has locked the
\* wallet.
Insert(r) ==
    LET u == req[r].user
        p == req[r].property
    IN  /\ "outside" \in DebitWays
        /\ At(r, "walletLocked")
        /\ walletLock[u] = NoRequest
        /\ ledger' = [ledger EXCEPT ![u][p] = @ + Amount(r)]
        /\ GoTo(r, "inserted")
        /\ UNCHANGED <<wallet, sold, investors, holds, made, locks, lost>>

\* Update of the wallet on another connection: the copy, whatever the row is by now.
Save(r) ==
    /\ At(r, "inserted")
    /\ walletLock[req[r].user] = NoRequest
    /\ RowAllowed(Debited(r))
    /\ wallet' = [wallet EXCEPT ![req[r].user] = Debited(r)]
    /\ GoTo(r, "saved")
    /\ UNCHANGED <<ledger, sold, investors, holds, made, locks, lost>>

\* While the insert waits, the connection of the transaction breaks, or the client gives
\* up and the rollback comes before the cancellation of the insert.  Anywhere else the
\* next statement is the transaction's, and the request fails.
LoseTransaction(r) ==
    /\ "outside" \in DebitWays
    /\ At(r, "walletLocked")
    /\ Alive(r)
    /\ Unlock(r)
    /\ \A u \in Users : lost[u] < MaxLost
    /\ lost' = [lost EXCEPT ![req[r].user] = @ + 1]
    /\ UNCHANGED <<tables, req>>

\* HasActiveInvestmentByUserAndProperty
NewInvestor(u, p) == IF holds[u][p] = 0 THEN 1 ELSE 0

\* IncrementFunding, Create and CreateEvent, for which the transaction must be there;
\* what it has written becomes visible, a debit inside it included.
Commit(r) ==
    LET u == req[r].user
        p == req[r].property
        n == req[r].slots
        inside == At(r, "debited")
    IN  /\ req[r].pc \in {"debited", "saved"}
        /\ Alive(r)
        /\ KeyIsNew(r)
        /\ RowAllowed(Debited(r))
        /\ wallet' = IF inside THEN [wallet EXCEPT ![u] = Debited(r)] ELSE wallet
        /\ ledger' = IF inside THEN [ledger EXCEPT ![u][p] = @ + Amount(r)] ELSE ledger
        /\ sold' = [sold EXCEPT ![p] = @ + n]
        /\ investors' = [investors EXCEPT ![p] = @ + NewInvestor(u, p)]
        /\ holds' = [holds EXCEPT ![u][p] = @ + n]
        /\ made' = [made EXCEPT ![u][req[r].key] = @ + 1]
        /\ Unlock(r)
        /\ Answer(r)
        /\ UNCHANGED lost

RejectKey(r) ==
    /\ req[r].pc \in {"debited", "saved"}
    /\ Alive(r)
    /\ ~KeyIsNew(r)
    /\ Rollback(r)

\* The client gives up, a statement fails, of a lost transaction every one, or the
\* process dies: a transaction that is still there is rolled back.
RequestFails(r) ==
    /\ ~At(r, "idle")
    /\ Rollback(r)

\* Deposits and withdrawals, which lock the wallet first.
OthersMove(u, row) ==
    /\ walletLock[u] = NoRequest
    /\ RowAllowed(row)
    /\ wallet' = [wallet EXCEPT ![u] = row]
    /\ UNCHANGED <<ledger, sold, investors, holds, made, locks, req, lost>>

Deposit(u) == wallet[u].main < MaxMain /\ OthersMove(u, Credit(wallet[u], 1))
Withdraw(u) == \/ CanLock(wallet[u], 1) /\ OthersMove(u, LockFunds(wallet[u], 1))
               \/ \E success \in BOOLEAN : OthersMove(u, Release(wallet[u], 1, success))

\* HasActiveInvestmentByUserAndProperty is the next statement of the transaction.
FindItLost(r) == At(r, "saved") /\ ~Alive(r) /\ Rollback(r)

\* What the server does for a request, apart from failing.
Proceed(r) == \/ LockProperty(r) \/ RejectProperty(r)
              \/ LockWallet(r)   \/ RejectWallet(r)
              \/ DebitInside(r)
              \/ Insert(r)       \/ Save(r)
              \/ Commit(r)       \/ RejectKey(r)
              \/ FindItLost(r)

Next == \/ \E r \in Requests :
              \/ \E u \in Users, p \in Properties, k \in Keys \cup {NoKey}, n \in Slots :
                    Begin(r, u, p, k, n)
              \/ Proceed(r)
              \/ RequestFails(r)
              \/ LoseTransaction(r)
        \/ \E u \in Users : Deposit(u) \/ Withdraw(u)

\* Row locks are granted in turn, so a request that waits for one gets it if it
\* becomes free again and again.
Fairness == \A r \in Requests : SF_vars(Proceed(r))

Spec == Init /\ [][Next]_vars /\ Fairness

-----------------------------------------------------------------------------
(* Properties *)

\* The slots of a property that are held, told apart by their holder and a number.
SlotsHeld(p) == UNION {{u} \X (1 .. holds[u][p]) : u \in Users}
Investors(p) == {u \in Users : holds[u][p] > 0}

\* The funding columns are those of the investments: slots sold are slots held, and
\* investors are counted once however many investments they make at a time
\* (HasActiveInvestmentByUserAndProperty, IncrementFunding).  The ledger has the price
\* of every slot, and of nothing else until a debit of the user goes on without its
\* transaction (investment_service.go:233).
FundingAgrees == \A p \in Properties :
    /\ sold[p] = Cardinality(SlotsHeld(p))
    /\ investors[p] = Cardinality(Investors(p))
    /\ \A u \in Users : /\ ledger[u][p] >= holds[u][p] * Price
                        /\ lost[u] = 0 => ledger[u][p] = holds[u][p] * Price

Contract == INSTANCE InvestmentContract
            WITH funds <- [u \in Users |-> AvailableBalance(wallet[u])],
                 free <- [p \in Properties |-> Units - sold[p]],
                 paid <- ledger,
                 adrift <- {u \in Users : lost[u] > 0}

\* An investment is one step to everybody else: debit, funding, record and key
\* together, slots never oversold, money reserved for a withdrawal never spent, one
\* investment per key.  A request that ends otherwise leaves nothing, unless it loses
\* its transaction while the debit waits on the other connection: then the ledger and
\* the wallet of its user may move, and nothing else.
ContractSpec == Contract!ContractSpec

\* Every request is answered, although it takes two locks (the property first, "to
\* prevent deadlocks", investment_service.go:144) and may be refused while others wait.
Answered == \A r \in Requests : ~At(r, "idle") ~> At(r, "idle")
=============================================================================
