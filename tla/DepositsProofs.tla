--------------------------- MODULE DepositsProofs ---------------------------
(***************************************************************************)
(* Proofs about Deposits, for every set of users, payments and webhook     *)
(* requests and every amount and limit.                                    *)
(***************************************************************************)
EXTENDS Deposits, TLAPS

-----------------------------------------------------------------------------
(* Type correctness *)

LEMMA Choices == SomeUser \in Users /\ IdleHandler \in HandlerState
  BY SetsAssumption DEF SomeUser, IdleHandler, HandlerState, HandlerPCs, Events

\* Returning from a handler keeps handlers and webhooks well typed.
LEMMA ReturnTyped ==
  ASSUME TypeOK, NEW h \in Handlers, NEW acknowledge \in BOOLEAN, Return(h, acknowledge)
  PROVE  /\ handler' \in [Handlers -> HandlerState]
         /\ hook' \in [Payments -> [Events -> {"none", "due", "acked"}]]
<1>1. handler' \in [Handlers -> HandlerState]
  BY Choices DEF Return, TypeOK
<1>2. handler[h].payment \in Payments /\ handler[h].event \in Events
  BY DEF TypeOK, HandlerState
<1>3. hook' \in [Payments -> [Events -> {"none", "due", "acked"}]]
  BY <1>2 DEF Return, TypeOK
<1> QED
  BY <1>1, <1>3

\* Marking a payment changes its status and nothing else.
LEMMA Marked ==
  ASSUME payment \in [Payments -> Rows], NEW p \in Payments,
         NEW status \in {"success", "failed"},
         payment' = [payment EXCEPT ![p].status = status] \/ payment' = payment
  PROVE  /\ payment' \in [Payments -> Rows]
         /\ \A q \in Payments : /\ payment'[q].user = payment[q].user
                               /\ payment'[q].amount = payment[q].amount
                               /\ payment'[q].status \in {payment[q].status, status}
         /\ \A q \in Payments \ {p} : payment'[q].status = payment[q].status
<1>1. CASE payment' = [payment EXCEPT ![p].status = status]
  <2>1. [payment[p] EXCEPT !.status = status] \in Rows
    BY DEF Rows
  <2>2. \A q \in Payments : payment'[q] = IF q = p THEN [payment[p] EXCEPT !.status = status]
                                                   ELSE payment[q]
    BY <1>1
  <2>3. DOMAIN payment' = Payments
    BY <1>1
  <2>4. payment' \in [Payments -> Rows]
    BY <1>1, <2>1
  <2> QED
    BY <2>2, <2>4 DEF Rows
<1>2. CASE payment' = payment
  BY <1>2
<1> QED
  BY <1>1, <1>2

LEMMA InitTyped == Init => TypeOK
  BY Choices DEF Init, TypeOK, EmptyWallet, WalletRow, NoRow, Rows

LEMMA NextTyped == TypeOK /\ [Next]_vars => TypeOK'
<1> SUFFICES ASSUME TypeOK, [Next]_vars PROVE TypeOK'
  OBVIOUS
<1> USE DEF TypeOK
<1>1. ASSUME NEW p \in Payments, NEW u \in Users, NEW amount \in Amounts,
             InitiateDeposit(p, u, amount)
      PROVE  TypeOK'
  <2>1. [status |-> "pending", user |-> u, amount |-> amount] \in Rows
    BY AmountsAssumption DEF Rows
  <2>2. payment' \in [Payments -> Rows]
    BY <1>1, <2>1 DEF InitiateDeposit
  <2> QED
    BY <1>1, <2>2 DEF InitiateDeposit
<1>2. ASSUME NEW p \in Payments,
             InitializeDeposit(p) \/ ChargeFails(p) \/ ChargeSucceeds(p)
      PROVE  TypeOK'
  <2>1. CASE InitializeDeposit(p)
    BY <2>1 DEF InitializeDeposit
  <2>2. CASE ChargeFails(p)
    BY <2>2 DEF ChargeFails, Events
  <2>3. CASE ChargeSucceeds(p)
    BY <2>3 DEF ChargeSucceeds, Events
  <2> QED
    BY <1>2, <2>1, <2>2, <2>3
<1>3. ASSUME NEW p \in Payments, NEW e \in Events, NEW h \in Handlers,
             FindProcessed(h, p, e) \/ FindUnprocessed(h, p, e)
      PROVE  TypeOK'
  <2>1. [pc |-> "found", payment |-> p, event |-> e, verified |-> 0] \in HandlerState
    BY DEF HandlerState, HandlerPCs
  <2>2. CASE FindProcessed(h, p, e)
    BY <2>2 DEF FindProcessed
  <2>3. CASE FindUnprocessed(h, p, e)
    BY <2>1, <2>3 DEF FindUnprocessed
  <2> QED
    BY <1>3, <2>2, <2>3
<1>4. ASSUME NEW h \in Handlers, HandlerStep(h)
      PROVE  TypeOK'
  <2> DEFINE p == handler[h].payment
  <2>1. handler[h] \in HandlerState /\ p \in Payments
    BY DEF HandlerState
  <2>2. CASE VerifyTransaction(h)
    <3>1. VerifiedAmount(p) \in Nat
      BY <2>1 DEF VerifiedAmount, Rows
    <3> QED
      BY <2>1, <2>2, <3>1 DEF VerifyTransaction, HandlerState, HandlerPCs
  <2>3. CASE MarkFailed(h)
    <3>1. payment' \in [Payments -> Rows]
      BY <2>1, <2>3, Marked DEF MarkFailed
    <3> QED
      BY <2>3, <3>1, ReturnTyped DEF MarkFailed
  <2>4. CASE TransactionExists(h)
    BY <2>1, <2>4 DEF TransactionExists, HandlerState, HandlerPCs
  <2>5. CASE CreditCommit(h)
    <3>1. payment[p].user \in Users /\ payment[p].amount \in Nat
      BY <2>1 DEF Rows
    <3>2. wallet' \in [Users -> WalletRow]
      BY <2>5, <3>1 DEF CreditCommit, Credit, WalletRow
    <3>3. handler' \in [Handlers -> HandlerState]
      BY <2>1, <2>5 DEF CreditCommit, HandlerState, HandlerPCs
    <3> QED
      BY <2>1, <2>5, <3>2, <3>3 DEF CreditCommit
  <2>6. CASE MarkSuccess(h)
    <3>1. payment' \in [Payments -> Rows]
      BY <2>1, <2>6, Marked DEF MarkSuccess
    <3>2. handler' \in [Handlers -> HandlerState]
      BY <2>1, <2>6 DEF MarkSuccess, HandlerState, HandlerPCs
    <3> QED
      BY <2>6, <3>1, <3>2 DEF MarkSuccess
  <2>7. CASE Notify(h)
    BY <2>7, ReturnTyped DEF Notify
  <2>8. CASE HandlerFails(h)
    BY <2>8, ReturnTyped DEF HandlerFails
  <2> QED
    BY <1>4, <2>2, <2>3, <2>4, <2>5, <2>6, <2>7, <2>8 DEF HandlerStep
<1>5. CASE UNCHANGED vars
  BY <1>5 DEF vars
<1> QED
  BY <1>1, <1>2, <1>3, <1>4, <1>5 DEF Next, Deliver

\* Every reachable state of the deposit flow is well typed.
THEOREM TypeCorrect == Spec => []TypeOK
  BY InitTyped, NextTyped, PTL DEF Spec

-----------------------------------------------------------------------------
(* What a handler knows *)

\* A checkout exists only for a payment that was recorded before.
RecordedBeforeCharge ==
    \A p \in Payments : charge[p] # "none" => payment[p].status # "none"

\* What a handler has seen stays true: ledger rows and successful charges are
\* never taken back, so it may act on them later, in another step.
HandlerKnows ==
    \A h \in Handlers : LET p == handler[h].payment IN
        /\ handler[h].pc \in {"credited", "marked"} => p \in ledger
        /\ handler[h].pc \in {"succeeded", "absent"} => MockProvider \/ charge[p] = "success"

\* Webhooks are sent only about a checkout that was opened.
HookAfterCharge ==
    \A p \in Payments, e \in Events : hook[p][e] # "none" => charge[p] # "none"

\* A handler that is busy works on a recorded payment.
BusyOnRecorded ==
    \A h \in Handlers : handler[h].pc # "idle" => charge[handler[h].payment] # "none"

DepositInv == /\ TypeOK
              /\ RecordedBeforeCharge
              /\ HookAfterCharge
              /\ BusyOnRecorded
              /\ HandlerKnows
              /\ SuccessIsCredited

LEMMA InitDeposit == Init => DepositInv
  BY InitTyped DEF Init, DepositInv, RecordedBeforeCharge, HookAfterCharge, BusyOnRecorded,
     HandlerKnows, SuccessIsCredited, NoRow, IdleHandler

\* A handler that returns leaves the others and what they know alone.
LEMMA ReturnKeeps ==
  ASSUME DepositInv, NEW h \in Handlers, NEW acknowledge \in BOOLEAN, Return(h, acknowledge),
         handler[h].pc # "idle", ledger' = ledger, charge' = charge
  PROVE  HandlerKnows' /\ BusyOnRecorded' /\ HookAfterCharge'
<1> USE DEF DepositInv
<1>1. /\ handler'[h].pc = "idle"
      /\ \A g \in Handlers \ {h} : handler'[g] = handler[g]
      /\ handler[h].payment \in Payments /\ handler[h].event \in Events
  BY DEF Return, TypeOK, HandlerState, IdleHandler
<1>2. HandlerKnows' /\ BusyOnRecorded'
  BY <1>1 DEF HandlerKnows, BusyOnRecorded, TypeOK, HandlerState
<1>3. ASSUME NEW p \in Payments, NEW e \in Events, hook'[p][e] # "none"
      PROVE  charge'[p] # "none"
  <2>1. CASE p = handler[h].payment
    BY <2>1 DEF BusyOnRecorded
  <2>2. CASE p # handler[h].payment
    <3>1. hook'[p] = hook[p]
      BY <1>1, <2>2 DEF Return, TypeOK
    <3> QED
      BY <1>3, <3>1 DEF HookAfterCharge
  <2> QED
    BY <2>1, <2>2
<1> QED
  BY <1>2, <1>3 DEF HookAfterCharge

\* A handler that moves on, knowing what its new program counter says.
LEMMA AdvanceKeeps ==
  ASSUME DepositInv, NEW h \in Handlers, NEW row \in HandlerState,
         handler[h].pc # "idle", row.payment = handler[h].payment,
         handler' = [handler EXCEPT ![h] = row],
         row.pc \in {"credited", "marked"} => row.payment \in ledger',
         row.pc \in {"succeeded", "absent"} => MockProvider \/ charge[row.payment] = "success",
         ledger \subseteq ledger', charge' = charge, hook' = hook
  PROVE  HandlerKnows' /\ BusyOnRecorded' /\ HookAfterCharge'
<1> USE DEF DepositInv
<1>1. handler'[h] = row /\ \A g \in Handlers \ {h} : handler'[g] = handler[g]
  BY DEF TypeOK
<1>2. HandlerKnows'
  BY <1>1 DEF HandlerKnows
<1>3. BusyOnRecorded'
  BY <1>1 DEF BusyOnRecorded
<1> QED
  BY <1>2, <1>3 DEF HookAfterCharge

LEMMA NextDeposit == DepositInv /\ [Next]_vars => DepositInv'
<1> DEFINE Rest == RecordedBeforeCharge /\ HookAfterCharge /\ BusyOnRecorded
                   /\ HandlerKnows /\ SuccessIsCredited
<1> SUFFICES ASSUME DepositInv, [Next]_vars PROVE Rest'
  BY NextTyped DEF DepositInv
<1> USE DEF DepositInv
<1>1. ASSUME NEW p \in Payments, NEW u \in Users, NEW amount \in Amounts,
             InitiateDeposit(p, u, amount)
      PROVE  Rest'
  BY <1>1 DEF InitiateDeposit, TypeOK, RecordedBeforeCharge, HookAfterCharge, BusyOnRecorded,
     HandlerKnows, SuccessIsCredited
<1>2. ASSUME NEW p \in Payments,
             InitializeDeposit(p) \/ ChargeFails(p) \/ ChargeSucceeds(p)
      PROVE  Rest'
  <2>1. /\ payment[p].status # "none"
        /\ charge' = [charge EXCEPT ![p] = charge'[p]]
        /\ charge'[p] # "none"
        /\ charge[p] = "success" => charge'[p] = "success"
        /\ UNCHANGED <<payment, ledger, handler>>
        /\ \A q \in Payments \ {p} : hook'[q] = hook[q]
    BY <1>2 DEF InitializeDeposit, ChargeFails, ChargeSucceeds, TypeOK, RecordedBeforeCharge
  <2>2. \A q \in Payments : /\ q # p => charge'[q] = charge[q]
                            /\ charge[q] # "none" => charge'[q] # "none"
                            /\ charge[q] = "success" => charge'[q] = "success"
    BY <2>1 DEF TypeOK
  <2>3. RecordedBeforeCharge' /\ SuccessIsCredited'
    BY <2>1, <2>2 DEF RecordedBeforeCharge, SuccessIsCredited
  <2>4. HookAfterCharge'
    BY <2>1, <2>2 DEF HookAfterCharge
  <2>5. BusyOnRecorded' /\ HandlerKnows'
    BY <2>1, <2>2 DEF BusyOnRecorded, HandlerKnows, TypeOK, HandlerState
  <2> QED
    BY <2>3, <2>4, <2>5
<1>3. ASSUME NEW p \in Payments, NEW e \in Events, NEW h \in Handlers,
             FindProcessed(h, p, e) \/ FindUnprocessed(h, p, e)
      PROVE  Rest'
  <2>1. charge[p] # "none"
    BY <1>3 DEF FindProcessed, FindUnprocessed, HookAfterCharge
  <2>2. CASE FindProcessed(h, p, e)
    <3>1. \A q \in Payments \ {p} : hook'[q] = hook[q]
      BY <2>2 DEF FindProcessed, TypeOK
    <3> QED
      BY <2>1, <2>2, <3>1 DEF FindProcessed, RecordedBeforeCharge, HookAfterCharge,
         BusyOnRecorded, HandlerKnows, SuccessIsCredited
  <2>3. CASE FindUnprocessed(h, p, e)
    BY <2>1, <2>3 DEF FindUnprocessed, TypeOK, RecordedBeforeCharge, HookAfterCharge,
       BusyOnRecorded, HandlerKnows, SuccessIsCredited
  <2> QED
    BY <1>3, <2>2, <2>3
<1>4. ASSUME NEW h \in Handlers, HandlerStep(h)
      PROVE  Rest'
  <2>1. PICK p \in Payments : p = handler[h].payment
    BY DEF TypeOK, HandlerState
  <2>2. handler[h] \in HandlerState
    BY DEF TypeOK
  <2>3. CASE VerifyTransaction(h)
    <3> DEFINE row == [handler[h] EXCEPT !.pc = IF Verified(p) THEN "succeeded" ELSE "failed",
                                         !.verified = VerifiedAmount(p)]
    <3>1. VerifiedAmount(p) \in Nat
      BY DEF VerifiedAmount, TypeOK, Rows
    <3>2. row \in HandlerState /\ row.payment = p /\ row.pc \in {"succeeded", "failed"}
      BY <2>1, <2>2, <3>1 DEF HandlerState, HandlerPCs
    <3>3. row.pc = "succeeded" => MockProvider \/ charge[p] = "success"
      BY <2>2 DEF HandlerState, Verified
    <3>4. handler' = [handler EXCEPT ![h] = row]
      BY <2>1, <2>3 DEF VerifyTransaction, TypeOK
    <3> HIDE DEF row
    <3>5. HandlerKnows' /\ BusyOnRecorded' /\ HookAfterCharge'
      BY <2>1, <2>3, <3>2, <3>3, <3>4, AdvanceKeeps DEF VerifyTransaction
    <3> QED
      BY <2>3, <3>5 DEF VerifyTransaction, RecordedBeforeCharge, SuccessIsCredited
  <2>4. CASE MarkFailed(h)
    <3>1. HandlerKnows' /\ BusyOnRecorded' /\ HookAfterCharge'
      BY <2>4, ReturnKeeps DEF MarkFailed
    <3>2. \A q \in Payments : payment'[q].status \in {payment[q].status, "failed"}
      BY <2>1, <2>4, Marked DEF MarkFailed, TypeOK
    <3> QED
      BY <2>4, <3>1, <3>2 DEF MarkFailed, RecordedBeforeCharge, SuccessIsCredited
  <2>5. CASE TransactionExists(h)
    <3> DEFINE row == [handler[h] EXCEPT !.pc = IF p \in ledger THEN "credited" ELSE "absent"]
    <3>1. row \in HandlerState /\ row.payment = p
      BY <2>1, <2>2 DEF HandlerState, HandlerPCs
    <3>2. row.pc = IF p \in ledger THEN "credited" ELSE "absent"
      BY <2>2 DEF HandlerState
    <3>3. MockProvider \/ charge[p] = "success"
      BY <2>1, <2>5 DEF TransactionExists, HandlerKnows
    <3>4. handler' = [handler EXCEPT ![h] = row]
      BY <2>1, <2>5 DEF TransactionExists, TypeOK
    <3> HIDE DEF row
    <3>5. HandlerKnows' /\ BusyOnRecorded' /\ HookAfterCharge'
      BY <2>1, <2>5, <3>1, <3>2, <3>3, <3>4, AdvanceKeeps DEF TransactionExists
    <3> QED
      BY <2>5, <3>5 DEF TransactionExists, RecordedBeforeCharge, SuccessIsCredited
  <2>6. CASE CreditCommit(h)
    <3> DEFINE row == [handler[h] EXCEPT !.pc = "credited"]
    <3>1. row \in HandlerState /\ row.payment = p /\ row.pc = "credited"
      BY <2>1, <2>2 DEF HandlerState, HandlerPCs
    <3>2. handler' = [handler EXCEPT ![h] = row] /\ ledger' = ledger \cup {p}
      BY <2>1, <2>6 DEF CreditCommit, TypeOK
    <3> HIDE DEF row
    <3>3. HandlerKnows' /\ BusyOnRecorded' /\ HookAfterCharge'
      BY <2>1, <2>6, <3>1, <3>2, AdvanceKeeps DEF CreditCommit
    <3> QED
      BY <2>6, <3>2, <3>3 DEF CreditCommit, RecordedBeforeCharge, SuccessIsCredited
  <2>7. CASE MarkSuccess(h)
    <3> DEFINE row == [handler[h] EXCEPT !.pc = "marked"]
    <3>1. row \in HandlerState /\ row.payment = p /\ row.pc = "marked"
      BY <2>1, <2>2 DEF HandlerState, HandlerPCs
    <3>2. handler' = [handler EXCEPT ![h] = row]
      BY <2>7 DEF MarkSuccess, TypeOK
    <3>3. p \in ledger
      BY <2>1, <2>7 DEF MarkSuccess, HandlerKnows
    <3> HIDE DEF row
    <3>4. HandlerKnows' /\ BusyOnRecorded' /\ HookAfterCharge'
      BY <2>1, <2>7, <3>1, <3>2, <3>3, AdvanceKeeps DEF MarkSuccess
    <3>5. /\ \A q \in Payments : payment'[q].status \in {payment[q].status, "success"}
          /\ \A q \in Payments \ {p} : payment'[q].status = payment[q].status
      BY <2>1, <2>7, Marked DEF MarkSuccess, TypeOK
    <3> QED
      BY <2>7, <3>3, <3>4, <3>5 DEF MarkSuccess, RecordedBeforeCharge, SuccessIsCredited
  <2>8. CASE Notify(h)
    <3>1. HandlerKnows' /\ BusyOnRecorded' /\ HookAfterCharge'
      BY <2>8, ReturnKeeps DEF Notify
    <3> QED
      BY <2>8, <3>1 DEF Notify, RecordedBeforeCharge, SuccessIsCredited
  <2>9. CASE HandlerFails(h)
    <3>1. HandlerKnows' /\ BusyOnRecorded' /\ HookAfterCharge'
      BY <2>9, ReturnKeeps DEF HandlerFails
    <3> QED
      BY <2>9, <3>1 DEF HandlerFails, RecordedBeforeCharge, SuccessIsCredited
  <2> QED
    BY <1>4, <2>3, <2>4, <2>5, <2>6, <2>7, <2>8, <2>9 DEF HandlerStep
<1>5. CASE UNCHANGED vars
  BY <1>5 DEF vars, RecordedBeforeCharge, HookAfterCharge, BusyOnRecorded, HandlerKnows,
     SuccessIsCredited
<1> QED
  BY <1>1, <1>2, <1>3, <1>4, <1>5 DEF Next, Deliver

LEMMA DepositInvariant == Spec => []DepositInv
  BY InitDeposit, NextDeposit, PTL DEF Spec

\* Whatever webhooks, retries, failures and late marks interleave, a payment is
\* recorded as successful only when its credit is in the ledger.
THEOREM SuccessIsCreditedCorrect == Spec => []SuccessIsCredited
  BY DepositInvariant, PTL DEF DepositInv

-----------------------------------------------------------------------------
(* The credit path implements the deposit contract *)

LEMMA InitRefines == Init => Contract!Init
  BY SetsAssumption DEF Init, Contract!Init, EmptyWallet, NoRow, SomeUser

\* Only four steps show: recording a payment bills it, a successful charge pays
\* it, and the commit of a handler credits it.
LEMMA NextRefines ==
  ASSUME ~MockProvider, DepositInv, [Next]_vars
  PROVE  [Contract!Next]_(Contract!contractVars)
<1> USE DEF DepositInv, Contract!contractVars
<1> DEFINE bills == [p \in Payments |-> [user |-> payment[p].user, amount |-> payment[p].amount]]
           billed == {p \in Payments : payment[p].status # "none"}
           paid == {p \in Payments : charge[p] = "success"}
           balances == [u \in Users |-> wallet[u].main]
<1>1. ASSUME UNCHANGED <<wallet, ledger, charge>>,
             \A p \in Payments : /\ payment'[p].user = payment[p].user
                                 /\ payment'[p].amount = payment[p].amount
                                 /\ (payment'[p].status = "none" <=> payment[p].status = "none")
      PROVE  UNCHANGED Contract!contractVars
  <2>1. bills' = bills /\ billed' = billed /\ paid' = paid /\ balances' = balances
    BY <1>1
  <2> QED
    BY <1>1, <2>1
<1>2. ASSUME NEW p \in Payments, NEW u \in Users, NEW amount \in Amounts,
             InitiateDeposit(p, u, amount)
      PROVE  Contract!Bill(p, u, amount)
  <2>1. payment' = [payment EXCEPT ![p] = [status |-> "pending", user |-> u, amount |-> amount]]
    BY <1>2 DEF InitiateDeposit
  <2>2. payment[p].status = "none" /\ UNCHANGED <<wallet, ledger, charge>>
    BY <1>2 DEF InitiateDeposit
  <2>3. bills' = [bills EXCEPT ![p] = [user |-> u, amount |-> amount]]
    BY <2>1 DEF TypeOK
  <2>4. billed' = billed \cup {p} /\ p \notin billed
    BY <2>1, <2>2 DEF TypeOK
  <2> QED
    BY <2>2, <2>3, <2>4 DEF Contract!Bill
<1>3. ASSUME NEW p \in Payments, InitializeDeposit(p) \/ ChargeFails(p)
      PROVE  UNCHANGED Contract!contractVars
  <2>1. UNCHANGED <<wallet, payment, ledger>> /\ charge[p] # "success"
    BY <1>3 DEF InitializeDeposit, ChargeFails
  <2>2. paid' = paid
    BY <1>3, <2>1 DEF InitializeDeposit, ChargeFails, TypeOK
  <2> QED
    BY <2>1, <2>2
<1>4. ASSUME NEW p \in Payments, ChargeSucceeds(p)
      PROVE  Contract!Pay(p)
  <2>1. /\ UNCHANGED <<wallet, payment, ledger>>
        /\ charge' = [charge EXCEPT ![p] = "success"]
        /\ charge[p] \in {"open", "failed"}
    BY <1>4 DEF ChargeSucceeds
  <2>2. paid' = paid \cup {p} /\ p \notin paid
    BY <2>1 DEF TypeOK
  <2>3. p \in billed
    BY <2>1 DEF RecordedBeforeCharge
  <2> QED
    BY <2>1, <2>2, <2>3 DEF Contract!Pay
<1>5. ASSUME NEW h \in Handlers, CreditCommit(h)
      PROVE  \E p \in Payments : Contract!Credit(p)
  <2>1. PICK p \in Payments : p = handler[h].payment
    BY DEF TypeOK, HandlerState
  <2>2. PICK u \in Users, amount \in Nat : u = payment[p].user /\ amount = payment[p].amount
    BY DEF TypeOK, Rows
  <2>3. /\ wallet' = [wallet EXCEPT ![u] = Credit(wallet[u], amount)]
        /\ ledger' = ledger \cup {p} /\ p \notin ledger
        /\ UNCHANGED <<payment, charge>>
    BY <1>5, <2>1, <2>2 DEF CreditCommit, ReferenceIsNew
  <2>4. p \in paid
    BY <1>5, <2>1 DEF CreditCommit, HandlerKnows
  <2>5. balances' = [balances EXCEPT ![u] = @ + amount]
    BY <2>3 DEF TypeOK, WalletRow, Credit
  <2> QED
    BY <2>1, <2>2, <2>3, <2>4, <2>5 DEF Contract!Credit
<1>6. ASSUME NEW h \in Handlers, HandlerStep(h), ~CreditCommit(h)
      PROVE  UNCHANGED Contract!contractVars
  <2>1. PICK p \in Payments : p = handler[h].payment
    BY DEF TypeOK, HandlerState
  <2>2. CASE MarkFailed(h) \/ MarkSuccess(h)
    <3>1. PICK status \in {"success", "failed"} :
             payment' = [payment EXCEPT ![p].status = status] \/ payment' = payment
      BY <2>1, <2>2 DEF MarkFailed, MarkSuccess
    <3>2. charge[p] # "none" /\ payment[p].status # "none"
      BY <2>1, <2>2 DEF MarkFailed, MarkSuccess, BusyOnRecorded, RecordedBeforeCharge
    <3>3. \A q \in Payments : /\ payment'[q].user = payment[q].user
                              /\ payment'[q].amount = payment[q].amount
                              /\ payment'[q].status \in {payment[q].status, status}
                              /\ q # p => payment'[q].status = payment[q].status
      BY <3>1, Marked DEF TypeOK
    <3>4. UNCHANGED <<wallet, ledger, charge>>
      BY <2>2 DEF MarkFailed, MarkSuccess
    <3> QED
      BY <1>1, <3>2, <3>3, <3>4
  <2>3. CASE VerifyTransaction(h) \/ TransactionExists(h) \/ Notify(h) \/ HandlerFails(h)
    BY <1>1, <2>3 DEF VerifyTransaction, TransactionExists, Notify, HandlerFails
  <2> QED
    BY <1>6, <2>2, <2>3 DEF HandlerStep
<1>7. ASSUME NEW p \in Payments, NEW e \in Events, Deliver(p, e)
      PROVE  UNCHANGED Contract!contractVars
  BY <1>1, <1>7 DEF Deliver, FindProcessed, FindUnprocessed
<1>8. CASE UNCHANGED vars
  BY <1>1, <1>8 DEF vars
<1> QED
  BY <1>2, <1>3, <1>4, <1>5, <1>6, <1>7, <1>8 DEF Next, Contract!Next

\* With a provider that reports what happened, whatever webhooks, retries and
\* failures interleave, a payment is credited at most once, only after it was paid,
\* with its own amount and to its own user.
THEOREM ContractImplemented ==
  ASSUME ~MockProvider
  PROVE  Spec => ContractSpec
<1>1. DepositInv /\ [Next]_vars => [Contract!Next]_(Contract!contractVars)
  BY NextRefines
<1> QED
  BY <1>1, InitRefines, DepositInvariant, PTL DEF Spec, ContractSpec, Contract!Spec
=============================================================================
