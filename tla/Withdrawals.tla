----------------------------- MODULE Withdrawals -----------------------------
(***************************************************************************)
(* The withdrawal half of wallet_service.go: request handlers that reserve *)
(* money (InitiateWithdrawal) and finalizers that settle the reservation   *)
(* (FinalizeWithdrawal, called by the queue worker, by the reconciliation  *)
(* loop and by the transfer webhook, in any order and at the same time).   *)
(*                                                                         *)
(* Both begin with a read outside any transaction and act on it later, so  *)
(* each has a program counter between the read and the commit.  A database *)
(* transaction is one action: every one of them first locks the wallet row *)
(* of the user.  CHECK constraints and unique indexes are conjuncts of the *)
(* commit; when one of them fails the transaction is rolled back.          *)
(*                                                                         *)
(* Nothing keeps two calls for one withdrawal apart.  overlapped records   *)
(* for which withdrawals that has happened; no action looks at it.         *)
(***************************************************************************)
EXTENDS Wallet

CONSTANTS
    Users,               \* the wallet owners
    Ids,                 \* the ledger rows (withdrawals) that may be created
    Requesters,          \* API requests in progress to POST /wallet/withdraw
    Finalizers,          \* calls of FinalizeWithdrawal that may be in progress
    Amounts,             \* the amounts users deposit and ask to withdraw
    MinWithdrawalAmount, \* cfg.MinWithdrawalAmount
    MaxWithdrawalAmount, \* cfg.MaxWithdrawalAmount
    LedgerHasUpdatedAt,  \* wallet_transactions has the column updated_at
    MaxMain              \* bound: deposits stop at this main balance

ASSUME AmountsAssumption == Amounts \subseteq Nat
ASSUME LimitsAssumption  == /\ MinWithdrawalAmount \in Nat
                            /\ MaxWithdrawalAmount \in Nat
                            /\ MaxMain \in Nat
ASSUME SetsAssumption    == Users # {} /\ Ids # {}
ASSUME SchemaAssumption  == LedgerHasUpdatedAt \in BOOLEAN

VARIABLES
    wallet,    \* user -> the row of wallets
    txn,       \* withdrawal -> its row of wallet_transactions
    outbox,    \* the withdrawals whose withdrawal.process event is committed
    req,       \* request handler -> what it has read and asks for
    fin,       \* finalizer -> what it has read and was told
    overlapped \* history: the withdrawals that two calls were settling at once

vars == <<wallet, txn, outbox, req, fin, overlapped>>

Statuses == {"none", "pending", "completed", "failed"}
Terminal == {"completed", "failed"}

SomeUser == CHOOSE u \in Users : TRUE
NoRow    == [status |-> "none", user |-> SomeUser, amount |-> 0]
Rows     == [status : Statuses, user : Users, amount : Nat]

\* The local variables of a handler and of a finalizer; idle ones hold nothing.
IdleRequest   == [pc |-> "idle", user |-> SomeUser, amount |-> 0]
RequestState  == {IdleRequest} \cup [pc : {"checked"}, user : Users, amount : Amounts]
IdleFinalizer == [pc |-> "idle", txn |-> CHOOSE t \in Ids : TRUE, success |-> FALSE]
FinalizeState == [pc : {"idle", "read"}, txn : Ids, success : BOOLEAN]

TypeOK == /\ wallet \in [Users -> WalletRow]
          /\ txn \in [Ids -> Rows]
          /\ outbox \in SUBSET Ids
          /\ req \in [Requesters -> RequestState]
          /\ fin \in [Finalizers -> FinalizeState]
          /\ overlapped \in SUBSET Ids

Init == /\ wallet = [u \in Users |-> EmptyWallet]
        /\ txn = [t \in Ids |-> NoRow]
        /\ outbox = {}
        /\ req = [r \in Requesters |-> IdleRequest]
        /\ fin = [f \in Finalizers |-> IdleFinalizer]
        /\ overlapped = {}

-----------------------------------------------------------------------------
(* InitiateWithdrawal *)

\* The pending withdrawals of a user, what GetPendingWithdrawalByUser selects.
PendingOf(u) == {t \in Ids : txn[t].status = "pending" /\ txn[t].user = u}

\* The limits a request must respect before anything is read.
ValidAmount(amount) == /\ amount > 0
                       /\ amount >= MinWithdrawalAmount
                       /\ amount <= MaxWithdrawalAmount

\* Steps 1 and 2: the limits, then the read (no lock) for a pending withdrawal.
RequestCheck(r, u, amount) ==
    /\ req[r].pc = "idle"
    /\ ValidAmount(amount)
    /\ PendingOf(u) = {}
    /\ req' = [req EXCEPT ![r] = [pc |-> "checked", user |-> u, amount |-> amount]]
    /\ UNCHANGED <<wallet, txn, outbox, fin, overlapped>>

\* Mutant of IndexAdmits: migration 15 is not there, only the unlocked read is.
IndexMissing(u) == u \in Users

\* The partial unique index of migration 15 admits the row only when the user
\* has no other pending withdrawal at commit time.
IndexAdmits(u) == PendingOf(u) = {}

\* Step 5: one transaction locks the funds, inserts the pending ledger row and
\* inserts the outbox event.
RequestCommit(r, t) ==
    LET u == req[r].user
        amount == req[r].amount
    IN  /\ req[r].pc = "checked"
        /\ txn[t].status = "none"
        /\ CanLock(wallet[u], amount)
        /\ RowAllowed(LockFunds(wallet[u], amount))
        /\ IndexAdmits(u)
        /\ wallet' = [wallet EXCEPT ![u] = LockFunds(@, amount)]
        /\ txn' = [txn EXCEPT ![t] = [status |-> "pending", user |-> u, amount |-> amount]]
        /\ outbox' = outbox \cup {t}
        /\ req' = [req EXCEPT ![r] = IdleRequest]
        /\ UNCHANGED <<fin, overlapped>>

\* The bank does not resolve the account or its name differs, the transaction is
\* rolled back, or the API process dies: nothing is committed.
RequestFails(r) == /\ req[r].pc = "checked"
                   /\ req' = [req EXCEPT ![r] = IdleRequest]
                   /\ UNCHANGED <<wallet, txn, outbox, fin, overlapped>>

-----------------------------------------------------------------------------
(* FinalizeWithdrawal *)

\* The history: a call for t begins.
Overlap(t) ==
    overlapped' = IF \E f \in Finalizers : fin[f].pc = "read" /\ fin[f].txn = t
                  THEN overlapped \cup {t} ELSE overlapped

\* Mutant of FinalizeRead: the early return for a settled withdrawal is gone.
FinalizeReadSettled(f, t, success) ==
    /\ fin[f].pc = "idle"
    /\ txn[t].status # "none"
    /\ fin' = [fin EXCEPT ![f] = [pc |-> "read", txn |-> t, success |-> success]]
    /\ Overlap(t)
    /\ UNCHANGED <<wallet, txn, outbox, req>>

\* The row is read without a lock; a row that is not pending ends the call.
FinalizeRead(f, t, success) ==
    /\ fin[f].pc = "idle"
    /\ txn[t].status = "pending"
    /\ fin' = [fin EXCEPT ![f] = [pc |-> "read", txn |-> t, success |-> success]]
    /\ Overlap(t)
    /\ UNCHANGED <<wallet, txn, outbox, req>>

\* Mutant of FinalStatus: the vocabulary of payments in the ledger.
FinalStatusOfPayment(success) == IF success THEN "success" ELSE "failed"

\* The status a transfer that worked, or did not, leaves in the ledger.
FinalStatus(success) == IF success THEN "completed" ELSE "failed"

\* One transaction releases the funds and sets the status WHERE id = t, whatever
\* the status is by then.
FinalizeCommit(f) ==
    LET t == fin[f].txn
        u == txn[t].user
        released == Release(wallet[u], txn[t].amount, fin[f].success)
    IN  /\ fin[f].pc = "read"
        /\ LedgerHasUpdatedAt
        /\ RowAllowed(released)
        /\ wallet' = [wallet EXCEPT ![u] = released]
        /\ txn' = [txn EXCEPT ![t].status = FinalStatus(fin[f].success)]
        /\ fin' = [fin EXCEPT ![f] = IdleFinalizer]
        /\ UNCHANGED <<outbox, req, overlapped>>

\* The transactions of these calls are rolled back (a CHECK constraint, a missing
\* column, a lost connection), or the process they all run in dies first.
FinalizeFails(F) ==
    /\ F # {} /\ \A f \in F : fin[f].pc = "read"
    /\ fin' = [f \in Finalizers |-> IF f \in F THEN IdleFinalizer ELSE fin[f]]
    /\ UNCHANGED <<wallet, txn, outbox, req, overlapped>>

-----------------------------------------------------------------------------
(* The rest of the system *)

\* A verified deposit commits (module Deposits).
DepositCommit(u, amount) ==
    /\ wallet[u].main + amount <= MaxMain
    /\ wallet' = [wallet EXCEPT ![u] = Credit(@, amount)]
    /\ UNCHANGED <<txn, outbox, req, fin, overlapped>>

Next == \/ \E r \in Requesters, u \in Users, amount \in Amounts : RequestCheck(r, u, amount)
        \/ \E r \in Requesters, t \in Ids : RequestCommit(r, t)
        \/ \E r \in Requesters : RequestFails(r)
        \/ \E f \in Finalizers, t \in Ids, success \in BOOLEAN : FinalizeRead(f, t, success)
        \/ \E f \in Finalizers : FinalizeCommit(f)
        \/ \E F \in SUBSET Finalizers : FinalizeFails(F)
        \/ \E u \in Users, amount \in Amounts : DepositCommit(u, amount)

Spec == Init /\ [][Next]_vars
-----------------------------------------------------------------------------
(* What must hold however many finalizers run *)

\* A user has at most one pending withdrawal, although the handler looks for one
\* outside the transaction that creates the row (InitiateWithdrawal, step 2).
OnePendingPerUser ==
    \A u \in Users : \A s, t \in PendingOf(u) : s = t

\* No more money is locked than a pending withdrawal asks for, and none without
\* one: whatever finalizers do, they never strand a reservation.
LockedCoveredByPending ==
    \A u \in Users : \/ wallet[u].locked = 0
                     \/ \E t \in PendingOf(u) : wallet[u].locked <= txn[t].amount

\* FinalizeWithdrawal runs to completion a second time for the same withdrawal.
SettledAgain(t) == /\ txn[t].status \in Terminal
                   /\ wallet' # wallet
                   /\ \E f \in Finalizers : /\ fin[f].pc = "read" /\ fin[f].txn = t
                                            /\ fin'[f].pc = "idle"

\* The database stops a second settlement of a withdrawal unless its user has by
\* then another pending withdrawal, whose reservation pays for it.
SecondSettlementNeedsAnother ==
    [][\A t \in Ids : SettledAgain(t) => PendingOf(txn[t].user) \ {t} # {}]_vars

-----------------------------------------------------------------------------
(* What holds where calls of FinalizeWithdrawal for one withdrawal do not overlap *)

\* No two calls were ever settling one withdrawal of u at once.
Undisturbed(u) == \A t \in overlapped : txn[t].user # u

\* The locked balance is the amount of the pending withdrawal, and zero when
\* there is none: the redundant column does not drift from the ledger, as long as
\* calls for one withdrawal of the user do not overlap.
LockedIsPending ==
    \A u \in Users : Undisturbed(u) =>
        /\ \A t \in PendingOf(u) : wallet[u].locked = txn[t].amount
        /\ PendingOf(u) = {} => wallet[u].locked = 0

\* FinalizeWithdrawal is "safe to call multiple times": a completed withdrawal is
\* not debited again by a later or concurrent call for it.
DebitedOnce ==
    [][\A t \in Ids : (txn[t].status = "completed" /\ SettledAgain(t)) =>
          wallet'[txn[t].user].main = wallet[txn[t].user].main]_vars

\* A call settles a withdrawal that another one has settled while it was open.
Resettles(f) == /\ fin[f].txn \in overlapped
                /\ txn[fin[f].txn].status \in Terminal
                /\ FinalizeCommit(f)

\* The wallet implements the account the users are promised: the locked column,
\* the handlers and the finalizers are its implementation.  Every step keeps the
\* promise, except a second settlement out of calls that overlapped; so do the
\* steps that come after one.
Contract == INSTANCE AccountContract
                WITH balance <- [u \in Users |-> wallet[u].main],
                     status  <- [t \in Ids |-> txn[t].status],
                     claim   <- [t \in Ids |-> [user |-> txn[t].user, amount |-> txn[t].amount]]

ContractSpec == /\ Contract!Init
                /\ [][(\E f \in Finalizers : Resettles(f)) \/ Contract!Next]_(Contract!contractVars)
=============================================================================
