------------------------- MODULE WithdrawalPipeline -------------------------
(***************************************************************************)
(* A withdrawal from the committed request to its settlement: the outbox   *)
(* relays it to the queue, the worker's consumer asks the provider for a   *)
(* bank transfer, and the consumer, the reconciliation loop or a transfer  *)
(* webhook learns how the transfer ended and calls FinalizeWithdrawal.     *)
(*                                                                         *)
(* The module extends Withdrawals: the finalizers there are the callers    *)
(* here, and every step on wallets and ledger is a step of that module.    *)
(* The outbox is what RelayContract leaves of it, which module Outbox      *)
(* implements: messages of an event until it ends, published or given up.  *)
(* The worker process runs that outbox's dispatcher, one consumer and one  *)
(* reconciliation loop; it loses its local state when it dies, which it    *)
(* also does after each settlement: its notifier is nil.                   *)
(***************************************************************************)
EXTENDS Withdrawals, FiniteSets

CONSTANTS
    Consumer,          \* the consumer goroutine of startWithdrawalProcessor
    Reconciler,        \* the goroutine of startReconciliationWorker
    Webhooks,          \* API requests in progress to the transfer webhook
    MaxCopies,         \* bound: unacknowledged messages of one withdrawal
    MaxFaults,         \* bound: lost answers, database errors, crashes
    TransfersReverse   \* a successful transfer may be reversed later

ASSUME CallersAssumption == /\ Finalizers = {Consumer, Reconciler} \cup Webhooks
                            /\ Consumer # Reconciler
                            /\ Consumer \notin Webhooks /\ Reconciler \notin Webhooks
ASSUME BoundsAssumption  == MaxCopies \in Nat \ {0} /\ MaxFaults \in Nat
ASSUME FlagsAssumption   == TransfersReverse \in BOOLEAN

Worker == {Consumer, Reconciler}

VARIABLES
    relayed,   \* the events the outbox is done with, published or given up
    queue,     \* withdrawal -> its messages the broker holds, not acknowledged
    transfer,  \* withdrawal -> its transfer at the provider, by reference
    saved,     \* the withdrawals whose external_reference is stored
    notice,    \* withdrawal -> the transfer webhooks the provider has to deliver
    job,       \* worker goroutine -> where it is and what it holds
    faults     \* how many faults have happened

pipelineVars == <<vars, relayed, queue, transfer, saved, notice, job, faults>>
outside      == <<relayed, queue, transfer, saved, notice, faults>>

Outcomes  == {"success", "failed", "reversed"}
Transfers == {"none", "pending"} \cup Outcomes
JobPCs    == {"idle", "received", "initiated", "finalize", "finalizing", "queried", "dying"}
IdleJob   == [pc |-> "idle", txn |-> CHOOSE t \in Ids : TRUE, result |-> "none"]

PipelineTypeOK ==
    /\ TypeOK
    /\ relayed \in SUBSET outbox
    /\ queue \in [Ids -> 0 .. MaxCopies]
    /\ transfer \in [Ids -> Transfers]
    /\ saved \in SUBSET Ids
    /\ notice \in [Ids -> SUBSET Outcomes]
    /\ job \in [Worker -> [pc : JobPCs, txn : Ids, result : Transfers]]
    /\ faults \in 0 .. MaxFaults

PipelineInit ==
    /\ Init
    /\ relayed = {}
    /\ queue = [t \in Ids |-> 0]
    /\ transfer = [t \in Ids |-> "none"]
    /\ saved = {}
    /\ notice = [t \in Ids |-> {}]
    /\ job = [g \in Worker |-> IdleJob]
    /\ faults = 0

Fault == faults < MaxFaults /\ faults' = faults + 1

-----------------------------------------------------------------------------
(* The API and the outbox *)

\* The request handlers of Withdrawals, and deposits.
RequestStep == /\ \/ \E r \in Requesters, u \in Users, amount \in Amounts :
                        RequestCheck(r, u, amount)
                  \/ \E r \in Requesters, t \in Ids : RequestCommit(r, t)
                  \/ \E r \in Requesters : RequestFails(r)
                  \/ \E u \in Users, amount \in Amounts : DepositCommit(u, amount)
               /\ UNCHANGED <<outside, job>>

\* The dispatcher publishes the event, and again when it dies before recording that,
\* for which a settlement by its worker is enough.
PublishEvent(t) ==
    /\ t \in outbox \ relayed
    /\ queue[t] < MaxCopies
    /\ queue' = [queue EXCEPT ![t] = @ + 1]
    /\ \/ relayed' = relayed \cup {t} /\ UNCHANGED faults
       \/ /\ relayed' = relayed
          /\ IF \E g \in Worker : job[g].pc \in {"finalize", "finalizing", "dying"}
             THEN UNCHANGED faults ELSE Fault
    /\ UNCHANGED <<vars, transfer, saved, notice, job>>

\* MaxRetries publications failed and the event is marked failed, or it is marked
\* published and the broker, which is asked for no confirm, has lost the message.
GiveUpEvent(t) ==
    /\ t \in outbox \ relayed
    /\ Fault
    /\ relayed' = relayed \cup {t}
    /\ UNCHANGED <<vars, queue, transfer, saved, notice, job>>

-----------------------------------------------------------------------------
(* startWithdrawalProcessor *)

\* The handler returns nil: Ack.  It returns an error: Nack, the message stays.
Ack(t) == queue' = [queue EXCEPT ![t] = @ - 1] /\ job' = [job EXCEPT ![Consumer] = IdleJob]
Nack   == job' = [job EXCEPT ![Consumer] = IdleJob] /\ UNCHANGED queue

\* Step 1: a withdrawal that is not pending any more is acknowledged.
Receive(t) ==
    /\ job[Consumer].pc = "idle"
    /\ queue[t] > 0
    /\ IF txn[t].status = "pending"
       THEN /\ job' = [job EXCEPT ![Consumer] = [pc |-> "received", txn |-> t, result |-> "none"]]
            /\ UNCHANGED queue
       ELSE Ack(t)
    /\ UNCHANGED <<vars, relayed, transfer, saved, notice, faults>>

\* Any error of that lookup counts as a withdrawal that does not exist: acknowledged.
LookupFails(t) ==
    /\ job[Consumer].pc = "idle"
    /\ queue[t] > 0
    /\ Fault
    /\ Ack(t)
    /\ UNCHANGED <<vars, relayed, transfer, saved, notice>>

\* The transfer t is now as result says; the provider notifies final results.
SetTransfer(t, result) ==
    /\ transfer' = [transfer EXCEPT ![t] = result]
    /\ notice' = [notice EXCEPT ![t] = @ \cup ({result} \cap Outcomes)]

\* Mutant of InitiateTransfer: an answer that is lost is taken for a failed transfer.
TakeLostForFailed(result) ==
    LET t == job[Consumer].txn
    IN  /\ job[Consumer].pc = "received"
        /\ transfer[t] = "none"
        /\ SetTransfer(t, result)
        /\ Fault
        /\ job' = [job EXCEPT ![Consumer].pc = "finalize", ![Consumer].result = "failed"]
        /\ UNCHANGED <<vars, relayed, queue, saved>>

\* Step 3 for a reference that is new to the provider.  When the answer is lost the
\* message is requeued, although the transfer exists.
InitiateTransfer(result) ==
    LET t == job[Consumer].txn
    IN  /\ job[Consumer].pc = "received"
        /\ transfer[t] = "none"
        /\ SetTransfer(t, result)
        /\ \/ /\ job' = [job EXCEPT ![Consumer].pc = "initiated", ![Consumer].result = result]
              /\ UNCHANGED <<queue, faults>>
           \/ Nack /\ Fault
        /\ UNCHANGED <<vars, relayed, saved>>

\* Step 3 for a reference the provider has seen.  Paystack rejects it: requeued.  The
\* mock, which the hybrid provider asks too, answers as it did the first time.
DuplicateReference ==
    LET t == job[Consumer].txn
    IN  /\ job[Consumer].pc = "received"
        /\ transfer[t] # "none"
        /\ \/ Nack
           \/ /\ transfer[t] # "reversed"
              /\ job' = [job EXCEPT ![Consumer].pc = "initiated",
                                    ![Consumer].result = transfer[t]]
              /\ UNCHANGED queue
        /\ UNCHANGED <<vars, relayed, transfer, saved, notice, faults>>

\* Step 3, the provider cannot be reached: requeued.
InitiateFails ==
    /\ job[Consumer].pc = "received"
    /\ Fault
    /\ Nack
    /\ UNCHANGED <<vars, relayed, transfer, saved, notice>>

\* Mutant of SaveTransferCode: the message is acknowledged here, and again at the end.
SaveAndAcknowledge ==
    LET t == job[Consumer].txn
    IN  /\ job[Consumer].pc = "initiated"
        /\ saved' = saved \cup {t}
        /\ queue' = [queue EXCEPT ![t] = @ - 1]
        /\ job' = [job EXCEPT ![Consumer].pc = "finalize"]
        /\ UNCHANGED <<vars, relayed, transfer, notice, faults>>

\* Steps 4 and 5: the transfer code is stored, an error of that is ignored; a
\* result that is not final is left to the webhook and to reconciliation.
SaveTransferCode ==
    LET t == job[Consumer].txn
    IN  /\ job[Consumer].pc = "initiated"
        /\ \/ saved' = saved \cup {t} /\ UNCHANGED faults
           \/ saved' = saved /\ Fault
        /\ IF job[Consumer].result \in {"success", "failed"}
           THEN job' = [job EXCEPT ![Consumer].pc = "finalize"] /\ UNCHANGED queue
           ELSE Ack(t)
        /\ UNCHANGED <<vars, relayed, transfer, notice>>

-----------------------------------------------------------------------------
(* reconcilePendingWithdrawals *)

\* One row of the batch: a pending withdrawal, by now old enough, with a transfer
\* code.  Rows without one are skipped.
ReconcileQuery(t) ==
    /\ job[Reconciler].pc = "idle"
    /\ txn[t].status = "pending"
    /\ t \in saved
    /\ job' = [job EXCEPT ![Reconciler] = [pc |-> "queried", txn |-> t, result |-> "none"]]
    /\ UNCHANGED <<vars, outside>>

\* VerifyTransfer: a final result is acted upon, a pending one or an error is not.
VerifyTransfer ==
    LET t == job[Reconciler].txn
    IN  /\ job[Reconciler].pc = "queried"
        /\ \/ /\ transfer[t] \in Outcomes
              /\ job' = [job EXCEPT ![Reconciler].pc = "finalize",
                                    ![Reconciler].result = transfer[t]]
              /\ UNCHANGED faults
           \/ /\ transfer[t] \notin Outcomes
              /\ job' = [job EXCEPT ![Reconciler] = IdleJob]
              /\ UNCHANGED faults
           \/ /\ Fault
              /\ job' = [job EXCEPT ![Reconciler] = IdleJob]
        /\ UNCHANGED <<vars, relayed, queue, transfer, saved, notice>>

-----------------------------------------------------------------------------
(* FinalizeWithdrawal as the worker calls it *)

\* After the call, whatever it returned: the consumer acknowledges, the loop goes on.
Finished(g) == IF g = Consumer THEN Ack(job[g].txn)
                               ELSE job' = [job EXCEPT ![g] = IdleJob] /\ UNCHANGED queue

\* Nothing but an error keeps the transaction of the call f from committing.
Rejected(f) ==
    LET row == txn[fin[f].txn]
    IN  \/ ~LedgerHasUpdatedAt
        \/ ~RowAllowed(Release(wallet[row.user], row.amount, fin[f].success))

\* Errors cost a fault; a rejected transaction fails for free.
CallFails(f) == /\ FinalizeFails({f})
                /\ IF Rejected(f) THEN UNCHANGED faults ELSE Fault

WorkerFinalizeRead(g) ==
    /\ job[g].pc = "finalize"
    /\ IF txn[job[g].txn].status = "pending"
       THEN /\ FinalizeRead(g, job[g].txn, job[g].result = "success")
            /\ job' = [job EXCEPT ![g].pc = "finalizing"]
            /\ UNCHANGED queue
       ELSE Finished(g) /\ UNCHANGED vars
    /\ UNCHANGED <<relayed, transfer, saved, notice, faults>>

\* After the commit Notify is called on a nil notifier, and nothing recovers.
WorkerFinalizeCommit(g) ==
    /\ job[g].pc = "finalizing"
    /\ FinalizeCommit(g)
    /\ job' = [job EXCEPT ![g].pc = "dying"]
    /\ UNCHANGED outside

\* The caller logs or ignores the error.
WorkerFinalizeFails(g) ==
    /\ job[g].pc = "finalizing"
    /\ CallFails(g)
    /\ Finished(g)
    /\ UNCHANGED <<relayed, transfer, saved, notice>>

\* The worker process dies, by that panic or by a fault, and starts again: the
\* broker redelivers what was not acknowledged.
WorkerDies ==
    LET open == {g \in Worker : fin[g].pc = "read"}
    IN  /\ IF \E g \in Worker : job[g].pc = "dying"
           THEN UNCHANGED faults
           ELSE Fault /\ \E g \in Worker : job[g].pc # "idle"
        /\ IF open = {} THEN UNCHANGED vars ELSE FinalizeFails(open)
        /\ job' = [g \in Worker |-> IdleJob]
        /\ UNCHANGED <<relayed, queue, transfer, saved, notice>>

-----------------------------------------------------------------------------
(* HandleTransferWebhook *)

\* 200 is answered: the provider stops, or has sent the webhook a second time.
Acknowledge(t, event) == notice' = [notice EXCEPT ![t] = @ \ {event}]

\* The webhook in the hands of request w is the one its call of FinalizeWithdrawal
\* was made for; failed and reversed transfers are the same to the code.
WebhookReceive(w, t, event) ==
    /\ fin[w].pc = "idle"
    /\ event \in notice[t]
    /\ IF txn[t].status = "pending"
       THEN FinalizeRead(w, t, event = "success") /\ UNCHANGED notice
       ELSE Acknowledge(t, event) /\ UNCHANGED vars
    /\ UNCHANGED <<relayed, queue, transfer, saved, job, faults>>

\* GetWithdrawalByReference finds nothing or fails, which is one to the code: 200.
WebhookLookupFails(w, t, event) ==
    /\ fin[w].pc = "idle"
    /\ event \in notice[t]
    /\ Fault
    /\ Acknowledge(t, event)
    /\ UNCHANGED <<vars, relayed, queue, transfer, saved, job>>

\* The notifier panics, the Recovery middleware answers 500: delivered again later.
WebhookCommit(w) == FinalizeCommit(w) /\ UNCHANGED <<outside, job>>

\* The error of the service is answered with 200: the provider will not come back.
WebhookFails(w) ==
    /\ fin[w].pc = "read"
    /\ CallFails(w)
    /\ \E event \in notice[fin[w].txn] : /\ (event = "success") = fin[w].success
                                           /\ Acknowledge(fin[w].txn, event)
    /\ UNCHANGED <<relayed, queue, transfer, saved, job>>

\* The API process dies before it answers.
WebhookDies(w) == /\ fin[w].pc = "read"
                  /\ Fault
                  /\ FinalizeFails({w})
                  /\ UNCHANGED <<relayed, queue, transfer, saved, notice, job>>

-----------------------------------------------------------------------------
(* The provider *)

\* A pending transfer ends.
TransferEnds(t, result) ==
    /\ transfer[t] = "pending"
    /\ SetTransfer(t, result)
    /\ UNCHANGED <<vars, relayed, queue, saved, job, faults>>

\* A successful transfer comes back.
TransferReverses(t) ==
    /\ TransfersReverse
    /\ transfer[t] = "success"
    /\ SetTransfer(t, "reversed")
    /\ UNCHANGED <<vars, relayed, queue, saved, job, faults>>

-----------------------------------------------------------------------------
ConsumerStep == \/ \E t \in Ids : Receive(t) \/ LookupFails(t)
                \/ \E result \in {"pending", "success", "failed"} : InitiateTransfer(result)
                \/ DuplicateReference
                \/ InitiateFails
                \/ SaveTransferCode

CallStep(g) == WorkerFinalizeRead(g) \/ WorkerFinalizeCommit(g) \/ WorkerFinalizeFails(g)

WebhookStep(w) == \/ \E t \in Ids, event \in Outcomes : WebhookReceive(w, t, event)
                  \/ \E t \in Ids, event \in Outcomes : WebhookLookupFails(w, t, event)
                  \/ WebhookCommit(w)
                  \/ WebhookFails(w)
                  \/ WebhookDies(w)

PipelineNext == \/ RequestStep
                \/ \E t \in Ids : PublishEvent(t) \/ GiveUpEvent(t)
                \/ ConsumerStep
                \/ \E t \in Ids : ReconcileQuery(t)
                \/ VerifyTransfer
                \/ \E g \in Worker : CallStep(g)
                \/ WorkerDies
                \/ \E w \in Webhooks : WebhookStep(w)
                \/ \E t \in Ids, result \in {"success", "failed"} : TransferEnds(t, result)
                \/ \E t \in Ids : TransferReverses(t)

\* Every goroutine and request goes on, a dead worker is started again, the broker
\* delivers, the ticker of the reconciliation loop ticks and transfers end.
PipelineFairness ==
    /\ \A t \in Ids : WF_pipelineVars(PublishEvent(t))
    /\ WF_pipelineVars(ConsumerStep)
    /\ \A t \in Ids : SF_pipelineVars(ReconcileQuery(t))
    /\ WF_pipelineVars(VerifyTransfer)
    /\ \A g \in Worker : WF_pipelineVars(CallStep(g))
    /\ WF_pipelineVars(WorkerDies /\ \E g \in Worker : job[g].pc = "dying")
    /\ \A w \in Webhooks : WF_pipelineVars(WebhookStep(w))
    /\ \A t \in Ids : WF_pipelineVars(\E result \in {"success", "failed"} : TransferEnds(t, result))

PipelineSpec == PipelineInit /\ [][PipelineNext]_pipelineVars
FairPipelineSpec == PipelineSpec /\ PipelineFairness
-----------------------------------------------------------------------------
\* The ledger never contradicts the bank: a withdrawal is completed only when its
\* transfer succeeded, and the money goes back to the user only when the transfer
\* failed or came back - through retries, duplicates, races and crashes.
LedgerAgreesWithBank ==
    \A t \in Ids :
        /\ txn[t].status = "completed" => transfer[t] \in {"success", "reversed"}
        /\ txn[t].status = "failed" => transfer[t] \in {"failed", "reversed"}

\* The bank is asked only to pay a withdrawal that is pending, and that is reserved
\* at that moment unless calls for a withdrawal of its user have overlapped.
TransferIsReserved ==
    [][\A t \in Ids : (transfer[t] = "none" /\ transfer'[t] # "none") =>
          /\ txn[t].status = "pending"
          /\ Undisturbed(txn[t].user) => wallet[txn[t].user].locked >= txn[t].amount]_pipelineVars

\* A withdrawal that has reached the bank does not stay pending for ever, unless
\* calls for a withdrawal of its user have overlapped: FinalizeWithdrawal marks the
\* transaction "completed" or "failed" (wallet_service.go:463), and reconciliation is
\* "a safety net for missed webhooks" (worker/main.go:388).
TransferIsSettled ==
    \A t \in Ids : transfer[t] # "none" ~>
        (txn[t].status \in Terminal \/ ~Undisturbed(txn[t].user))
=============================================================================
