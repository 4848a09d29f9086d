------------------------------ MODULE Deposits ------------------------------
(***************************************************************************)
(* The deposit half of wallet_service.go: InitiateDeposit records a        *)
(* pending payment and opens a checkout at the payment provider; webhooks  *)
(* of the provider run CreditFromPaymentReference, any number of them at   *)
(* the same time for one payment.                                          *)
(*                                                                         *)
(* A handler has a program counter because each of its database calls and  *)
(* its call to the provider is a separate step: it looks the payment up,   *)
(* asks the provider, looks for the ledger row (on the base connection,    *)
(* outside the transaction's lock), credits in one transaction, and then   *)
(* marks the payment, after the commit.                                    *)
(***************************************************************************)
EXTENDS Wallet

CONSTANTS
    Users,              \* the wallet owners
    Payments,           \* the references of the deposits that may be made
    Handlers,           \* webhook requests in progress
    Amounts,            \* the amounts users ask to deposit
    MinDepositAmount,   \* cfg.MinDepositAmount
    MaxDepositAmount,   \* cfg.MaxDepositAmount
    MockProvider        \* payments.NewProvider returned the mock, not Paystack

ASSUME AmountsAssumption  == Amounts \subseteq Nat
ASSUME LimitsAssumption   == MinDepositAmount \in Nat /\ MaxDepositAmount \in Nat
ASSUME SetsAssumption     == Users # {} /\ Payments # {}
ASSUME ProviderAssumption == MockProvider \in BOOLEAN

VARIABLES
    wallet,   \* user -> the row of wallets
    payment,  \* reference -> its row of payments
    ledger,   \* the references that have a deposit row in wallet_transactions
    charge,   \* reference -> what the provider knows of the checkout
    hook,     \* reference -> event -> its webhook: none, due or acknowledged
    handler   \* webhook request -> its local variables

vars == <<wallet, payment, ledger, charge, hook, handler>>

SomeUser == CHOOSE u \in Users : TRUE
NoRow    == [status |-> "none", user |-> SomeUser, amount |-> 0]
Rows     == [status : {"none", "pending", "success", "failed"}, user : Users, amount : Nat]

\* The provider sends one webhook for each of its events; the code does not look
\* at the event.  A handler that is idle holds nothing.
Events       == {"failed", "success"}
IdleHandler  == [pc |-> "idle", payment |-> CHOOSE p \in Payments : TRUE,
                 event |-> "failed", verified |-> 0]
HandlerPCs   == {"idle", "found", "failed", "succeeded", "absent", "credited", "marked"}
HandlerState == [pc : HandlerPCs, payment : Payments, event : Events, verified : Nat]

TypeOK == /\ wallet \in [Users -> WalletRow]
          /\ payment \in [Payments -> Rows]
          /\ ledger \in SUBSET Payments
          /\ charge \in [Payments -> {"none", "open", "failed", "success"}]
          /\ hook \in [Payments -> [Events -> {"none", "due", "acked"}]]
          /\ handler \in [Handlers -> HandlerState]

Init == /\ wallet = [u \in Users |-> EmptyWallet]
        /\ payment = [p \in Payments |-> NoRow]
        /\ ledger = {}
        /\ charge = [p \in Payments |-> "none"]
        /\ hook = [p \in Payments |-> [e \in Events |-> "none"]]
        /\ handler = [h \in Handlers |-> IdleHandler]

-----------------------------------------------------------------------------
(* InitiateDeposit *)

ValidDeposit(amount) == amount >= MinDepositAmount /\ amount <= MaxDepositAmount

\* The pending payment is committed before the provider is called.
InitiateDeposit(p, u, amount) ==
    /\ payment[p].status = "none"
    /\ ValidDeposit(amount)
    /\ payment' = [payment EXCEPT ![p] = [status |-> "pending", user |-> u, amount |-> amount]]
    /\ UNCHANGED <<wallet, ledger, charge, hook, handler>>

\* The provider opens the checkout; when it refuses, the row stays pending and
\* this step is never taken.
InitializeDeposit(p) ==
    /\ payment[p].status # "none"
    /\ charge[p] = "none"
    /\ charge' = [charge EXCEPT ![p] = "open"]
    /\ UNCHANGED <<wallet, payment, ledger, hook, handler>>

-----------------------------------------------------------------------------
(* The provider *)

\* The customer's attempt fails; the customer may try again.
ChargeFails(p) == /\ charge[p] = "open"
                  /\ charge' = [charge EXCEPT ![p] = "failed"]
                  /\ hook' = [hook EXCEPT ![p]["failed"] = "due"]
                  /\ UNCHANGED <<wallet, payment, ledger, handler>>

\* The customer pays what was asked.
ChargeSucceeds(p) == /\ charge[p] \in {"open", "failed"}
                     /\ charge' = [charge EXCEPT ![p] = "success"]
                     /\ hook' = [hook EXCEPT ![p]["success"] = "due"]
                     /\ UNCHANGED <<wallet, payment, ledger, handler>>

\* The status and the amount VerifyTransaction returns.  The mock answers
\* "success" with amount 0, whatever happened.
Verified(p)       == MockProvider \/ charge[p] = "success"
VerifiedAmount(p) == IF MockProvider THEN 0 ELSE payment[p].amount

-----------------------------------------------------------------------------
(* HandleWebhook and CreditFromPaymentReference *)

\* The handler returns: 200 acknowledges the webhook, anything else leaves it due.
Return(h, acknowledge) ==
    /\ handler' = [handler EXCEPT ![h] = IdleHandler]
    /\ hook' = IF acknowledge
                THEN [hook EXCEPT ![handler[h].payment][handler[h].event] = "acked"]
                ELSE hook

\* Mutant of FindProcessed: any status but pending counts as processed, as the
\* handler's comment has it.
FindNotPending(h, p, e) ==
    /\ handler[h].pc = "idle"
    /\ hook[p][e] # "none"
    /\ payment[p].status \in {"success", "failed"}
    /\ hook' = [hook EXCEPT ![p][e] = "acked"]
    /\ UNCHANGED <<wallet, payment, ledger, charge, handler>>

\* Steps 1 and 2 for a payment that is already marked: answered with 200.
FindProcessed(h, p, e) ==
    /\ handler[h].pc = "idle"
    /\ hook[p][e] # "none"
    /\ payment[p].status = "success"
    /\ hook' = [hook EXCEPT ![p][e] = "acked"]
    /\ UNCHANGED <<wallet, payment, ledger, charge, handler>>

\* Steps 1 and 2 for one that is pending, or that failed before.  The provider
\* may deliver a webhook again after it was acknowledged.
FindUnprocessed(h, p, e) ==
    /\ handler[h].pc = "idle"
    /\ hook[p][e] # "none"
    /\ payment[p].status \in {"pending", "failed"}
    /\ handler' = [handler EXCEPT ![h] = [pc |-> "found", payment |-> p,
                                           event |-> e, verified |-> 0]]
    /\ UNCHANGED <<wallet, payment, ledger, charge, hook>>

\* Step 3: the provider answers.
VerifyTransaction(h) ==
    LET p == handler[h].payment
    IN  /\ handler[h].pc = "found"
        /\ handler' = [handler EXCEPT
               ![h].pc = IF Verified(p) THEN "succeeded" ELSE "failed",
               ![h].verified = VerifiedAmount(p)]
        /\ UNCHANGED <<wallet, payment, ledger, charge, hook>>

\* Mutant of MarkFailed: the provider's word for the status is stored.
MarkAbandoned(h) ==
    /\ handler[h].pc = "failed"
    /\ payment' = [payment EXCEPT ![handler[h].payment].status = "abandoned"]
    /\ Return(h, TRUE)
    /\ UNCHANGED <<wallet, ledger, charge>>

\* Step 3, not successful: MarkFailed writes whatever the status is by now, its
\* error is ignored, and the webhook is acknowledged.
MarkFailed(h) ==
    /\ handler[h].pc = "failed"
    /\ \/ payment' = [payment EXCEPT ![handler[h].payment].status = "failed"]
       \/ UNCHANGED payment
    /\ Return(h, TRUE)
    /\ UNCHANGED <<wallet, ledger, charge>>

\* Step 4, first statement: TransactionExists.
TransactionExists(h) ==
    /\ handler[h].pc = "succeeded"
    /\ handler' = [handler EXCEPT ![h].pc =
                       IF handler[h].payment \in ledger THEN "credited" ELSE "absent"]
    /\ UNCHANGED <<wallet, payment, ledger, charge, hook>>

\* Mutant of ReferenceIsNew: no unique constraint behind TransactionExists.
ReferenceUnchecked(p) == p \in Payments

\* wallet_transactions.reference is UNIQUE.
ReferenceIsNew(p) == p \notin ledger

\* Step 4: under the wallet's row lock, the balance and the ledger row.
CreditCommit(h) ==
    LET p == handler[h].payment
    IN  /\ handler[h].pc = "absent"
        /\ ReferenceIsNew(p)
        /\ wallet' = [wallet EXCEPT ![payment[p].user] = Credit(@, payment[p].amount)]
        /\ ledger' = ledger \cup {p}
        /\ handler' = [handler EXCEPT ![h].pc = "credited"]
        /\ UNCHANGED <<payment, charge, hook>>

\* After the commit: MarkSuccess, whose error is ignored.
MarkSuccess(h) ==
    /\ handler[h].pc = "credited"
    /\ \/ payment' = [payment EXCEPT ![handler[h].payment].status = "success"]
       \/ UNCHANGED payment
    /\ handler' = [handler EXCEPT ![h].pc = "marked"]
    /\ UNCHANGED <<wallet, ledger, charge, hook>>

\* Step 5: the notifier is nil, so Notify panics and the Recovery middleware
\* answers 500; only when the user is not found is it skipped and 200 sent.
Notify(h) ==
    /\ handler[h].pc = "marked"
    /\ \E userFound \in BOOLEAN : Return(h, ~userFound)
    /\ UNCHANGED <<wallet, payment, ledger, charge>>

\* Mutant of HandlerFails: the error of the credit transaction is ignored.
ErrorIgnored(h) ==
    /\ handler[h].pc = "absent"
    /\ handler' = [handler EXCEPT ![h].pc = "credited"]
    /\ UNCHANGED <<wallet, payment, ledger, charge, hook>>

\* An error of the provider or of the database (the transaction is rolled back,
\* as it is when the reference is not new) returns 500; a crash answers nothing.
HandlerFails(h) ==
    /\ handler[h].pc # "idle"
    /\ Return(h, FALSE)
    /\ UNCHANGED <<wallet, payment, ledger, charge>>

-----------------------------------------------------------------------------
Deliver(p, e) == \E h \in Handlers : FindProcessed(h, p, e) \/ FindUnprocessed(h, p, e)

HandlerStep(h) == \/ VerifyTransaction(h)
                  \/ MarkFailed(h)
                  \/ TransactionExists(h)
                  \/ CreditCommit(h)
                  \/ MarkSuccess(h)
                  \/ Notify(h)
                  \/ HandlerFails(h)

Next == \/ \E p \in Payments, u \in Users, amount \in Amounts : InitiateDeposit(p, u, amount)
        \/ \E p \in Payments : InitializeDeposit(p) \/ ChargeFails(p) \/ ChargeSucceeds(p)
        \/ \E p \in Payments, e \in Events : Deliver(p, e)
        \/ \E h \in Handlers : HandlerStep(h)

\* Every handler ends, by its next step or by a failure.  The provider redelivers
\* a webhook until it is answered 200, and a payment that is retried for ever does
\* not fail at the same call for ever.
Fairness ==
    /\ \A h \in Handlers : WF_vars(HandlerStep(h))
    /\ \A p \in Payments : SF_vars(Deliver(p, "success") /\ hook[p]["success"] = "due")
    /\ \A p \in Payments, h \in Handlers :
          /\ SF_vars(VerifyTransaction(h) /\ handler[h].payment = p)
          /\ SF_vars(TransactionExists(h) /\ handler[h].payment = p)
          /\ SF_vars(CreditCommit(h) /\ handler[h].payment = p)

Spec == Init /\ [][Next]_vars
FairSpec == Spec /\ Fairness
-----------------------------------------------------------------------------
\* A payment is recorded as successful only after its credit is committed: a user
\* never sees a successful deposit that is missing from the balance.
SuccessIsCredited == \A p \in Payments : payment[p].status = "success" => p \in ledger

\* The credit path is idempotent, credits only what the provider verified as
\* paid: see module DepositContract.
Contract == INSTANCE DepositContract
                WITH balance  <- [u \in Users |-> wallet[u].main],
                     bill     <- [p \in Payments |-> [user   |-> payment[p].user,
                                                      amount |-> payment[p].amount]],
                     billed   <- {p \in Payments : payment[p].status # "none"},
                     paid     <- {p \in Payments : charge[p] = "success"},
                     credited <- ledger

ContractSpec == Contract!Spec

\* No paid deposit is lost: whatever fails, the redelivered webhook ends in a credit,
\* also of a payment that an earlier failed charge has marked failed.
PaidIsCredited == \A p \in Payments : charge[p] = "success" ~> p \in ledger

\* A deposit is credited only when the amount the provider verified is the amount
\* of the payment.
CreditsVerifiedAmount ==
    [][\A p \in ledger' \ ledger : \E h \in Handlers :
          /\ handler[h].pc = "absent" /\ handler[h].payment = p
          /\ handler[h].verified = payment[p].amount]_vars
=============================================================================
