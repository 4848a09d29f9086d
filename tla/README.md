# PropVest backend: TLA+ models, model checking and proofs

PropVest lets users deposit money into a wallet, invest it in slots of
properties, and withdraw it to a bank account.  This directory holds TLA+
specifications of the parts of `src/` in which money can be lost or made, and of
those that decide who may act (sessions, one-time codes, rate limits), the TLC
configurations that check them on small instances, and proofs, checked by TLAPS, of
their main properties for instances of any size.

`PROJECT.json` is the index: components, runs, mutants (a plausible bug for each
property, which TLC must find), the map from definitions to source lines, the
disagreements found between code and comments, the hazards, and the theorems.

## 1. The system

Two processes share one PostgreSQL database and one RabbitMQ broker: the API
(`src/cmd/api`) and the worker (`src/cmd/worker`).  Any number of each may run.
The payment provider (Paystack, or a mock in development) is called by both and
calls the API back through webhooks.

    user ──HTTP──> API ──tx──> wallets, wallet_transactions, payments,
                    ^          outbox_events, investments, properties
                    │                    │ claimed by
      webhooks      │              outbox dispatcher ──publish──> RabbitMQ
                    │                                                │
    provider <──────┴── reconciliation loop <── worker ──> consumer <┘
        ^                                                    │
        └────────────── InitiateTransfer ────────────────────┘

| Component | State | Operations | What makes it correct |
|---|---|---|---|
| Wallet balances (`wallet_repository.go`, migrations 1, 12) | `main_balance`, `locked_balance`, `earnings_balance` | credit, `LockFunds`, `ReleaseFundsOn*`, `Update` | never negative; the locked part is exactly what is reserved |
| Withdrawals (`wallet_service.go`) | ledger rows with a status, reservations | `InitiateWithdrawal`, `FinalizeWithdrawal` | one pending withdrawal per user; each is settled once |
| Deposits (`wallet_service.go`, `payment_repository.go`) | `payments`, deposit rows of the ledger | `InitiateDeposit`, webhook, `CreditFromPaymentReference` | a payment is credited when it was paid, once, in full, and eventually |
| Outbox (`outbox_repository.go`, `outbox_dispatcher.go`) | `outbox_events`, the batch in a dispatcher's memory | create, claim, publish, mark, retry, recover | every committed event is published or given up, by one dispatcher at a time |
| Worker (`cmd/worker/main.go`) | unacknowledged messages, `external_reference` | consumer, reconciliation loop | a withdrawal is paid out at most once and its end is recorded truthfully |
| Transfer webhook (`handlers/wallet.go`) | - | `HandleTransferWebhook` | idempotent under redelivery |
| Queue client (`queue.go`) | connection, channel | publish, consume with ack or nack | no message is dropped silently |
| Provider clients (`payments/`) | - | initialize, verify, transfer, verify transfer | a lost answer is not taken for a failure |
| Investments (`investment_service.go`) | `investments`, funding columns of `properties`, wallet, row locks | `CreateInvestment` | debit, funding and investment all or none; slots never oversold; one per idempotency key; every request answered |
| Properties and media (`property_service.go`, its repositories) | the property row, images with a cover flag, documents; the copy each request carries | create, update, publish, delete, upload, set cover, delete image | published once and announced; never back to draft; one cover, the same in both tables; terms fixed by the first sale |
| Sessions (`auth_service.go`, `user_service.go`, `middleware/auth.go`) | `refresh_tokens`, the password hash, tokens in the hands of clients | register, login, refresh, logout, logout of all devices, password change | a refresh token is exchanged once; a password change ends all sessions; a closed account is closed |
| Phone change, one-time codes (`user_service.go`) | `otp_verifications`, `users.phone` | request, verify | a code has a bounded number of attempts and one use, a user a bounded number of codes |
| Rate limiters (`middleware/`) | maps of entries with mutexes | check and record, cleanup goroutine, status | no attempt is forgotten inside the window |
| Notifications, hub (`notification_service.go`, `realtime/`) | notification rows, connected clients | notify, push, mark read | a client is closed once |
| HTTP layer, configuration, mail, SMS, validators, tools | none | - | - |

**How the parts interact.**  `InitiateWithdrawal` commits the reservation, the
pending ledger row and an outbox event in one transaction.  A dispatcher relays
the event to the queue.  The consumer asks the provider for the transfer.  Then
three callers may report its end to `FinalizeWithdrawal` with no coordination:
the consumer (when the provider answers with a final status), the reconciliation
loop (every five minutes) and the transfer webhook.  Deposits run the other way:
the provider's webhook makes the API verify the payment and credit the wallet.

**What is hard.**

* Reads outside the transaction that acts on them: the pending withdrawal in
  `InitiateWithdrawal`, the status in `FinalizeWithdrawal`, `TransactionExists`
  in the credit path, the attempts of an event in the dispatcher.
* At-least-once everywhere: webhooks, queue messages, outbox publications.
* Crashes between a commit, a call to the outside and the record of it.  One
  crash is built in: both processes pass a nil notifier to the wallet service,
  so every settlement in the worker ends in a panic that kills the process, and
  every webhook that settles or credits is answered 500 after its commit.
* Updates `WHERE id = ?` that do not look at what the row has become, and saves of
  all columns of a copy (properties, one-time codes, the wallet of an investor).
* A transaction that makes statements on another connection, and waits for itself.
* Sequences of statements with no transaction at all: sessions and one-time codes.
* Safety nets that are conditional: reconciliation skips withdrawals without a
  transfer code, a failed outbox event is never looked at again.

The hazards are listed line by line in `PROJECT.json` with the properties that
cover them.

## 2. The modules

| Module | Stands for | Extends |
|---|---|---|
| `Wallet` | the wallet row, its balance operations and CHECK constraints | - |
| `AccountContract` | abstract: what a wallet owner is promised | - |
| `Withdrawals` | `InitiateWithdrawal`, `FinalizeWithdrawal` | `Wallet`; refines `AccountContract` |
| `DepositContract` | abstract: billed, paid, credited once and in full | - |
| `Deposits` | `InitiateDeposit`, `HandleWebhook`, `CreditFromPaymentReference` | `Wallet`; refines `DepositContract` |
| `RelayContract` | abstract: messages of a committed event until it ends, once and for all | - |
| `Outbox` | outbox repository and dispatcher | refines `RelayContract` |
| `WithdrawalPipeline` | consumer, reconciliation loop, transfer webhook, queue, provider | `Withdrawals`; refines it and `AccountContract` |
| `ListingContract` | abstract: what an investor is promised of a property | - |
| `Listings` | creation, edits, publication, deletion, images and cover of a property, its funding columns | refines `ListingContract` |
| `InvestmentContract` | abstract: an investment is one step | - |
| `Investments` | `CreateInvestment`, its row locks and its two connections | `Wallet`; refines `InvestmentContract` |
| `SessionContract` | abstract: what the holder of an account is promised | - |
| `Sessions` | registration, login, refresh, logout, change of password | refines `SessionContract` |
| `PhoneCodes` | `RequestPhoneChange`, `VerifyPhoneChange` | - |
| `Limiter` | the limiter of requests and that of withdrawals, for one key | - |
| `MCWithdrawals`, `MCDeposits`, `MCPipeline`, `MCListings`, `MCInvestments`, `MCSessions`, `MCPhoneCodes`, `MCLimiter` | small instances for TLC | |
| `WithdrawalsProofs` (with the pipeline), `DepositsProofs`, `OutboxProofs`, `ListingsProofs`, `InvestmentsProofs`, `SessionsProofs`, `PhoneCodesProofs`, `LimiterProofs` | theorems and proofs | |

**Grain of atomicity.**  One database transaction is one action, because every
one of them starts by locking the row it changes (`FOR UPDATE` on the wallet,
`SKIP LOCKED` on the events); that of `CreateInvestment` takes two locks and waits,
and so is several steps in `Investments`.  Everything outside a transaction - a read before
it, a call to the provider, an update after it, an acknowledgement - is an
action of its own, and the program counter and the local variables the code
carries across it are part of the state (`req`, `fin`, `handler`, `disp`,
`job`).  Constraints of the schema are conjuncts of the commit: where one fails
the transaction is rolled back, which is the action for failures (`RequestFails`,
`FinalizeFails`, `HandlerFails`).

**Withdrawals.**  The history `overlapped` has the withdrawals that a call began to
settle while another call was between its read and its commit.  `RequestCheck` is steps 1 and 2 of `InitiateWithdrawal`
(limits, unlocked read), `RequestCommit` its transaction, with the partial
unique index of migration 15 as `IndexAdmits`.  `FinalizeRead` is the unlocked
read of the status, `FinalizeCommit` the transaction, which sets the status
`WHERE id`, whatever it is by then.  `LedgerHasUpdatedAt` says whether
`wallet_transactions` has the column that transaction writes; the migrations
say it has not (section 4, 2, where that is the whole story: no withdrawal is ever
settled).  The passing runs are made with the column present, because without it nothing
after the first reservation of a user ever happens.  `FinalizeFails` takes a set of calls, as a process that dies
takes all of its calls with it.

**Deposits.**  A webhook request is a handler that walks through `found`,
`succeeded` or `failed`, `absent` or `credited`, `marked`; `HandlerFails` ends
it anywhere without acknowledging.  The provider's side is `charge` and `hook`:
a charge may fail and then succeed, each event has one webhook, delivered until
it is answered 200 and possibly again after that.  The source checks neither the
event nor the amount.  The mock provider is a constant: it verifies every
reference, with amount 0.

**Outbox.**  `disp` is a dispatcher's memory: the claimed batch with the attempts
it saw.  A batch may be any set of at most `BatchSize` due events, because
`SKIP LOCKED` passes over what another transaction holds.  Time is abstract: a
backoff elapses (`BackoffElapses`), and a claim may be stale at any moment.  That
recovery takes back a claim which a live dispatcher still holds, because that one was
stuck for longer than `StaleTimeout` (5 minutes), counts as a fault, and the history
variable `seized` has the events it happened to.  "Sent" means written to the broker's
connection: there are no publisher confirms, so a dispatcher knows no more.
For `RelayContract` an event has ended when its result is recorded and no dispatcher
holds it (`Stage`).

**WithdrawalPipeline.**  The finalizers of `Withdrawals` are the worker's two
goroutines and the webhook requests; every step on wallets or ledger is a step
of that module, so all that is proved about it carries over.  The outbox is
reduced to `RelayContract`, which `Outbox` implements: messages of an event are
written until it ends.  The last message and the end are one step here, because only
these actions look at `relayed`; every further message, and an end without one, costs
a fault, as they take a crash, a stall, a lost update or a refused publish.  A further
message is free while a settlement of the worker is about to kill its process, because
the dispatcher runs in that process too (`cmd/worker/main.go:180`).  `queue` counts unacknowledged messages; `transfer` is the provider's
record by reference; a second request with the same reference is rejected by Paystack
and answered as the first one by the mock, which the hybrid provider asks as well
(`DuplicateReference` has both);
`saved` is `external_reference`; `notice` holds the webhooks due.  A webhook whose
look-up fails is answered 200 and lost, at the cost of a fault (`WebhookLookupFails`).  A worker's
settlement leads to `dying`, and `WorkerDies` takes both goroutines down.  The
branch "missing bank details" of the consumer is left out: `InitiateWithdrawal`
always stores them.

**Listings.**  One property, its images and the administrators' requests about
them.  A request reads the property row without a lock and keeps that copy (`row`
in `req`) while it validates or uploads a file; `UpdateSave`, `AddCover` and
`CoverCommit` then save every column of it, status, deletion mark and sold slots
included.  (Saving a copy of a row that was soft-deleted meanwhile matches no row,
and gorm's `Save` then inserts with ON CONFLICT UPDATE, which brings it back.)
The transactions of `SetCoverImage` and `DeleteImage` read the property on another
connection in the middle, so they have two steps, `PickSet` or `RemoveCover` and
`CoverCommit`; what they write becomes visible at the second, and until then
their row locks keep other changes of the images out (`ImagesUnlocked`).
`IncrementFunding` is what the commit of `Investments` does to the property, under
its row lock.  That only one image has the cover's flag, deleted ones included, is the
unique index of migration 17 (`OneCover`, part of `TypeOK`).
`overtaken` is history: `Acting` counts, at each write, whether the request acts on
something that is no longer as it read it (the columns a save writes without meaning
to set them, slots sold, the cover, the flag of an image).

**Investments.**  `Begin` is the look for the idempotency key, `LockProperty` and
`LockWallet` are the two `FOR UPDATE` reads with the checks that follow each, then the
debit is made, and `Commit` is the rest of the transaction, which becomes visible at
once.  Locks have owners (`propertyLock`, `walletLock`); a step whose lock is taken
waits, its own transaction being a holder like any other.  The debit is written by
`CreateTransaction` and `Update` of the wallet repository, which take no transaction and
so run, and commit, on another connection: `Insert` writes the row of the ledger, for
which its foreign key needs a share of the lock of the wallet's row, and `Save` the
wallet, all columns of the copy that was read (`row`).  `DebitWays` says which debits
there are: the code has `"outside"`, and then `Insert` waits for its own transaction.
`"inside"` (`DebitInside`) is what the comments describe, and the only way in which
`Commit` is ever reached; it is in the model so that what the locks are for can be
checked at all.  The wait ends when the request does (`RequestFails`), or when only its
transaction does (`LoseTransaction`: the connection breaks, or the rollback comes before
the cancellation of the insert).  Then the debit goes on: it writes a row of the ledger
for an investment that does not exist and saves a wallet that may be out of date, and the
next statement finds the transaction gone (`FindItLost`).  `lost` counts for each user how often
that happened, and the contract then promises that user's `paid` and `funds` no more
(`adrift`), but everything else of the user and all of everybody else.
A second request with the same key that gets past `Begin` is rejected by the unique
index and answered with an error, not with the first one's investment.

**Sessions.**  One account, one step per statement, because only `Register` uses a
transaction.  A refresh token is a signature over the user and two times that are
cut to seconds, so the second of its issue stands for the token: the second request
for a token in one second gets the same string, whose hash is in the table already.
After a login or a registration that is only logged (`StoreToken`), and the client
gets a token that may be revoked; after a refresh it is an error, and the old token
is already revoked.  Access tokens are stored nowhere; they end by themselves.
`born` and `parent` of a row are history.  So is `contested`: the tokens that were
exchanged or revoked while another request was exchanging them, that a login stored
after the password it had checked was replaced, or that were given for a contested one;
and `closed`, the time at which all sessions were ended while no request was about to
give out tokens, until the next login.
No code sets `IsActive` to false, so the check for it is left out.  A token is generated
and stored in one step, so in one second: between the two there is only the hash.  A
logout whose statement fails is answered OK all the same; to the account it is a logout
that was not made.

**PhoneCodes.**  One user's codes, one step per statement.  A verification holds the
attempts of the row it read and saves all columns from that copy, ignoring an error.
`contested` has the codes that two requests verified at once, or of which a save was
lost; the properties about attempts and uses are about the others.  `crowded` says
that requests for codes overlapped.  The two look-ups of `RequestPhoneChange` ignore
their errors: a phone that somebody has may go on (`RequestCount`), and a code may be
created although there is one to try (`RequestFindFails`); `blind` has the codes that
were created so.  A row older than the hour in which it counts
is found by no query (`HourPasses`).

**Limiter.**  The two limiters are one module, because they lock alike and differ in
what an entry forgets (`kind`).  A request looks its entry up under the lock of the
map and uses it later under its own, when the cleanup goroutine, which has read the
clock before it waits for the locks, may have deleted it from the map; the entry
then lives on in the hands of those requests.  The status of the withdrawal limiter is
read in the same two steps (`StatusLookUp`, `StatusRead`; `asked` is the entry between
them).  `admitted` counts what was recorded in the entry of the map.  A refused request
is told when to try again in whole seconds, as a time of day, as Unix time and as a
number of seconds to wait; the clock has `Second` ticks a second, `Whole` drops the
rest, and `Told` has both ways of saying it.

## 3. The runs

| Run | Question | Bounds |
|---|---|---|
| `withdrawals` | does the wallet keep its promise, whatever requests and calls overlap? | 2 users, 2 withdrawals, 2 requests, 2 finalizers, amounts 0..2, balance up to 2, the column `updated_at` present |
| `deposits` | is a paid deposit credited once, in full, and eventually? | 1 payment, 2 concurrent handlers, 2 webhook events, amounts 1..2 |
| `outbox` | is every event handled to the end, by one dispatcher at a time, and is the end final? | 2 events (one without a queue), 2 dispatchers, batches of 2, 2 retries, 3 faults: crashes, lost updates, stalls |
| `pipeline` | from request to settlement under any single fault: do ledger, reservations and bank agree? | 1 user, 2 withdrawals, 1 request at a time, 2 worker goroutines, 1 webhook request, 1 unacknowledged message per withdrawal, 1 fault, reversals, balance up to 1, the column `updated_at` present |
| `pipeline_never_settles` | does a settlement mark its withdrawal, and reconciliation catch what the webhook missed? **Violated.** | as above, no fault, no reversals, the schema of the migrations |
| `pipeline_double_debit` | is `FinalizeWithdrawal` "safe to call multiple times"? **Violated.** | as `pipeline`, no fault, no reversals, balance up to 2 |
| `listings` | does a property keep what investors are promised, and does the cover agree in both tables? | 1 property, 2 administrators, 3 images, 1 or 2 slots, 1 act on what has changed |
| `investments` | is an investment one step, and what is left when its transaction is lost? | 2 users, 2 requests, 1 property of 2 slots, 1 key, balance up to 2, the debit inside the transaction or on another connection, 1 lost transaction |
| `investments_self_wait` | "single transaction", locks ordered "to prevent deadlocks"? **Violated.** | as above, the debit on another connection only |
| `sessions` | do sessions keep their contract, and is a closed account closed? | 2 requests, 4 seconds, refresh tokens good for 3 and access tokens for 1, 1 change of password |
| `phone_codes` | what are the limits of attempts, uses and codes worth without a lock? | 2 requests, 2 phones of which 1 is asked for, 4 codes of which 2 in an hour, 2 attempts each, 1 contested code at a time |
| `limiter` | is any attempt forgotten within its window, and is the client told the truth? | 2 requests and 1 for the status, 4 entries, 2 attempts in a window of 3 ticks, 2 ticks a second, 9 points in time, either limiter |

*Why these bounds are enough.*  The races of the withdrawal flow need two
requests of one user, two calls for one withdrawal, and another withdrawal of
the same user whose reservation a late call may take: two withdrawals and two or
three finalizers.  Amount 0 is below the minimum and 1 and 2 differ, so a wrong
amount shows.  In the outbox two dispatchers and two events in batches of two
give overlapping and partial batches; two retries separate the first failure from
the last, and three faults let recovery take an event from a stuck dispatcher whose
record of it, and that of the next one, are then lost or late.  The pipeline is
the largest model; with one unit of money two withdrawals follow each other, so
a late message, call or webhook of the first meets the reservation of the
second.  `InOrder` creates the two rows in one order; the other is the same with the names
exchanged.  One fault of any kind is allowed in addition to the crash after
every settlement, which is free; an answer that is lost because the process died
by another goroutine's panic is free as well.  A listing has two requests in
progress, because every race on it is between one request that has read and one
that writes; three images are a cover, another to move it to and one to remove;
two slots are sold together or one by one.
Two investments meet at one property, at one wallet or with one key, and one may
wait for each of the other's locks; one loses its transaction, and its debit goes on
before, between or after the steps of the other.  In four seconds a session is opened, exchanged
and exchanged again while the first token expires, and an access token outlives a
logout.  With two codes in an hour and four in all, two are requested after the hour of
the first two has passed; two requests are two for codes, two for one code, or one of
each.  Every code is good for ten minutes, so `InOrder` leaves out that a later one
expires first.  `OneContested` is a bound, to stay within minutes: a contested code is promised
nothing, and the theorems have any number of them.  Two requests at a limiter of two
are the one that holds an entry which is being deleted and the one that finds it gone;
nine points in time are almost three windows, and with two ticks to a second and three to
a window an attempt may leave the window in the middle of a second.  The theorems of
section 5 hold for every value of the modules' constants.

*Deadlock* is checked in `withdrawals`, `deposits` and the runs of
investments, sessions, codes and limiter.  The outbox
and the pipeline may come to rest, when every event is dealt with or every
withdrawal settled, so there the check is off.  What must have happened by then in the
outbox is a liveness property; of the pipeline none can be had (section 4, 2 and 3).
A listing is at rest when its property is deleted and no image is left.

*Bounds in guards*: `MaxMain` stops deposits in `Withdrawals`, `MaxFaults` counts
faults in `Outbox` and `WithdrawalPipeline`, `MaxLost` the lost transactions in
`Investments`, `MaxCopies` bounds the messages of
one withdrawal in the queue.  `Ids`, `Payments`, `NumEvents` bound how many rows
are created; `MaxTime`, `MaxPassword`, `MaxCodes` and `MaxOvertaken` bound the clock,
the changes of password, the codes and the acts on what has changed.

### Fairness

* `Deposits`: each handler goes on or fails (weak); the provider redelivers the
  successful webhook until it gets a 200 (strong, because the handlers may all be
  busy in between); a call that is tried for ever for one payment is not refused
  for ever (strong, one per call and payment).  Nothing is assumed of the user.
* `Outbox`: the ticker of each dispatcher ticks, its calls return, a backoff
  elapses, and the recovery loop finds a claim that nobody holds.
* `WithdrawalPipeline`, for the run that is violated: goroutines, webhook requests and
  dispatchers go on, a dead worker is started again, transfers end, and the reconciliation query is
  strong, because its guard is lost whenever the worker dies and starts anew.
  No fairness is assumed for faults, requests, deposits or reversals, nor that a
  particular webhook is delivered.
* `Investments`, for the run that is violated: strong, for all that the server does for
  one request.  PostgreSQL
  grants a row lock in turn, so a request that waits gets it if it becomes free
  again and again.  That a client gives up is not assumed: it would end any wait.

### Assumptions that the code does not enforce

* `LedgerHasUpdatedAt = TRUE` in the runs `withdrawals`, `pipeline` and
  `pipeline_double_debit`, which the migrations contradict: it is what the code takes for
  granted.  The theorems hold for both values; the run `pipeline_never_settles` has the
  schema as it is (section 4, 2).
* `MockProvider = FALSE` in the run `deposits` (section 4, 5).
* `"inside" \in DebitWays` in the run `investments`.  In the code every debit is outside,
  and then there is no investment at all (`investments_self_wait`, and the theorem
  `NothingIsEverSold`).  The run and the theorems have both ways, so what they say of a
  debit outside is about the code and what they say of a commit is about the code with
  its debit moved into the transaction.
* In `Withdrawals` and the pipeline nothing is assumed of the schedule.  Nothing in
  the code keeps two calls of `FinalizeWithdrawal` for one withdrawal apart, so
  `overlapped` records for which withdrawals that happened, and no action looks at it.
  `LockedIsPending` and the reservation in `TransferIsReserved`
  are promised to a user until calls overlap on a withdrawal of that user.  The
  contract excepts only the step that does the harm, the second commit (`Resettles`),
  and holds every step after it to its promises.  One pending withdrawal per user, no
  stranded reservation, a second settlement only at the expense of the next withdrawal,
  and a ledger that agrees with the bank have no exception.  Dropping any of the
  exceptions makes TLC find the same behaviour with no fault at all: the late call for
  the first withdrawal releases the reservation of the second, which is then
  transferred, and whose own settlement the CHECK constraint rejects for ever.
* In `Listings` nothing is assumed of the schedule either.  The contract excepts the
  one step that acts on something that has changed since it was read, and holds every
  other step to its promises, also those that come later; `CoverAgrees` holds until
  the first such act; `VisibleWasAnnounced` has no exception.  Without the exceptions
  TLC refutes the contract by an edit that brings a deleted property back, and
  `CoverAgrees` by one that saves the cover its copy had.
* In `Outbox`, `Sessions`, `PhoneCodes` and `Limiter` nothing is assumed of the
  schedule: every interleaving is in the model, and the exception is in the
  properties, by history variables that say of which event, token, code or entry the
  promise is lost (`seized`, `contested`, `crowded`, `blind`, an entry deleted while a
  request held it) and keep it for all others.  TLC refutes those of `Outbox` and `Sessions`, and
  `RequestsBounded`, when the exception is dropped (section 4); what is compared with a
  contested code or recorded in a deleted entry is not counted at all.  In `Sessions` the abstract `SessionContract` has
  the exception too, as a stage of a token: what is contested once stays so and
  promises nothing, everything else keeps its full promise.

## 4. What disagrees with the comments

Three of these have a run that finds the counterexample.  For the others the constant
is named with which TLC finds it, in the module and cfg given.

1. `FinalizeWithdrawal` is not safe to call multiple times at once
   (`wallet_service.go:466`): it debits the user twice (`pipeline_double_debit`).
2. With the schema of the migrations no withdrawal is ever settled: the
   transaction writes `wallet_transactions.updated_at`, which does not exist
   (`wallet_service.go:522` and 543), so a call never does what line 463 says, and
   reconciliation is no safety net (`pipeline_never_settles`).
3. With that column, reconciliation is still not a safety net for a missed webhook
   (`worker/main.go:388`) when the answer of the transfer call was lost as well, which
   takes no more than the crash that follows the settlement of another withdrawal: it
   skips rows without a transfer code (`LedgerHasUpdatedAt = TRUE`, `MaxFaults = 1` and
   `TransferIsSettled` in `MCPipelineNeverSettles.cfg`; the one fault is a look-up of the
   webhook that fails and is answered 200, `handlers/wallet.go:1374`).
4. A published event can be retried, although `outbox_repository.go:110` says it
   will not, when a stuck dispatcher records its own failure after another one
   published it (`PublishedIsFinal` for all events, not only those outside `seized`, in
   `MCOutbox`).
5. The amount the provider verified is compared with nothing, although
   `handlers/wallet.go:853` and 861 say it is (`MockProvider = TRUE` and
   `CreditsVerifiedAmount` in `MCDeposits`); with Paystack the run `deposits` relies
   on the checkout being opened for the amount of the payment.
6. An edit that read the draft takes a published property back to draft: `Update`
   saves all columns of a copy read without a lock, and passes by the check that
   `UpdateStatus` makes against exactly this race (`property_repository.go:75`;
   `StaysPublished` in `MCListings`).
7. "Stolen token can only be used once" (`auth_service.go:55`): two refreshes with
   one token both find it valid before either revokes it, and both get a new pair
   when they store it in different seconds (`UsedOnce` for all tokens, not only those
   outside `contested`, in `MCSessions`).
8. `CreateInvestment` is not "a single transaction" with locks in an order "to
   prevent deadlocks" (`investment_service.go:119` and 144): its debit waits on
   another connection for its own row lock, where PostgreSQL sees no cycle
   (`investments_self_wait`).

Noted while modelling, without a run of their own: `outbox_repository.go:22` says
that events are never lost, but one that failed `MaxRetries` times is marked
failed and no code looks at it again, which leaves its withdrawal pending and the
user unable to make another; a reversal after a completed withdrawal is ignored
(the invariant `LedgerAgreesWithBank` admits it, so that it says what the code
does); the lookup error in the consumer acknowledges the message as if the
withdrawal did not exist.

Of properties: `DeleteImage` says "If deleted image was cover, assigns new cover
from remaining images" (`property_service.go:111`), but it reads the remaining
images outside its transaction, where the image it has just deleted is still
among them, and `is_cover` stays set on that image, which the unique index of
migration 17 counts although migration 20 made deletion soft; so the removal of the
cover always fails (`RemoveCover`, whose remaining case is a removal that raced with
a change of cover), and the branch for "no images left" is never taken.  An edit of a
draft is saved and then answered 404, because `UpdateProperty` returns the public
view.  No code sets the statuses `funded` and `completed`.  Migration 16 creates
`properties` only if migration 1 did not, which it did, with other columns; the
module takes the table as migration 16 and the model describe it.

Of investments: two requests with one key that both look before either has inserted
end in one investment and one error, not in the replay that the key is for; so no
harm is done, but the client is told that the investment failed.  A debit that outlives
its transaction leaves a row of the ledger without an investment, and saves over whatever
happened to the wallet since it was read.

Of sessions: a login or registration in the second of an earlier token's issue gets
the same refresh token, which is dead if that one was revoked; a refresh in the
second of issue revokes the token and then fails, because the new one is the same
string.  Two concurrent changes of password both succeed, and the later overwrites
the earlier.

Of one-time codes: wrong codes that are compared at the same time are counted as one,
a save from an old copy takes back the attempts or the use that another request has
recorded (`models/otp_verification.go:87` and 98), and requests that overlap get more
codes in an hour than the limit and leave several of them active.  One request alone does
the latter when the look-up for an active code fails, because only `err == nil` is tested
(`user_service.go:236`); in the same way a phone that somebody has gets a code when the
look-up of the phone fails (line 219), and the unique index refuses it at the end.

Of the limiters: failed validations do count (`withdrawal_rate_limit.go:32` says they
do not), because an attempt is recorded before the handler runs; a fixed window
admits twice its limit across its seam; a key is always an IP address, because
`cmd/api/main.go` registers the limiter before authentication.  "Try again at",
`Retry-After` and `X-RateLimit-Reset` drop the fraction of a second
(`withdrawal_rate_limit.go:296`, 300 and 310), so a client that does what it is told may
be refused once more, and be told the same for less than a second.

## 5. What is proved

All eight proof modules are checked by TLAPS without gaps.  The theorems hold for
every number of users, withdrawals, requests, dispatchers, messages, images, codes and
faults,
from the ASSUMEs of the modules alone (amounts and limits are natural numbers,
sets of users and rows are not empty, the callers of the pipeline are distinct).

**Withdrawals** (`WithdrawalsProofs`).  `CommonInv` is inductive for every
interleaving of finalizers: types, the CHECK constraints on every wallet,
at most one pending withdrawal per user, and a locked balance covered by it.  The
last parts need each other: that a
reservation is covered is preserved by a request only because the index admits it
when nothing else is pending, and by a settlement because the CHECK rejects a
release of what is not locked.  `SettleInv` adds that a call nobody overlapped has
its withdrawal to itself and still finds it pending when it commits (`CallsAlone`), and
that the locked balance equals the pending amount of every user whose calls did not
overlap (`LockedIsPending`).  A request makes its withdrawal out of an id that no call
can hold, so what has overlapped does not spread to another user.  That the wallet
implements `AccountContract` (`ContractImplemented`) needs only `CallsAlone` and
`CommonInv`: a reservation is made with nothing locked, because nothing is pending, and
a call commits either a pending withdrawal, once, or one that had overlapped.

**Deposits** (`DepositsProofs`).  `DepositInv` says what a handler may know at each
of its steps (a handler past the credit has a ledger row, one past verification
has a successful charge) and that only recorded payments are charged or handled.
It gives `SuccessIsCredited` and the refinement of `DepositContract`, under
`MockProvider = FALSE`.

**Outbox** (`OutboxProofs`).  `SentInv` (an event whose publication a dispatcher is
about to record was sent) gives `PublishedWasSent`.  `OwnerInv` is about stuck
dispatchers too.  An event that was never seized is claimed, with the attempts its
holder saw, and in no other hands (`HolderOwnsClaim`); of any event, seized or not, a
holder has seen at most the attempts that the row has by now (`AttemptsSeen`), since no
statement takes attempts away.  The first gives `PublishedIsFinal`, the second that
`GivenUpAfterRetries` holds of every event, although a stuck dispatcher decides from
attempts that are out of date.  Both together give the refinement of `RelayContract`
(`ContractImplemented`), with no exception for what was seized: a recorded result counts
as the end of the event only when no dispatcher holds it any more (`Stage`), and then
nobody can write its message, record another result or claim it again; who holds it has
it open, because it was committed (`AttemptsSeen`); and what ends published was sent.

**Pipeline** (the second part of `WithdrawalsProofs`).  Every step maps to a step of `Withdrawals` or
leaves it unchanged (`PipelineIsWithdrawals`), so the invariants above are used here by citation.  `AgreementInv`
says that whatever a webhook, a goroutine or an open call believes about a transfer
is borne out by the provider's record; final results never change except from
success to reversed, so beliefs do not go stale, and `LedgerAgreesWithBank` follows
however calls overlap.  Between the consumer's check and its call to the provider
nobody can settle a withdrawal that has no transfer, because nothing would bear that
out (`AgreementInv`), so a transfer is only initiated for a withdrawal that is still
pending, and that is reserved by `SettleInv` (`TransferIsReserved`).
`PipelineImplementsContract` combines the refinements.

**Listings** (`ListingsProofs`).  That what is visible was announced is not
inductive, because any copy may be saved at any time; `CopiesAnnounced` adds that
no copy in a request's hands is of a published property that was never announced,
which needs no assumption, as events are never deleted.  `ListingInv` has what holds
whatever copies are saved: a property that is not there has no data, one that is has
slots (`RowFacts`), a copy that may be saved is of a row that was found (`CopyFacts`),
and the transaction that has set a cover is alone, with the images as it saw them
(`ImageFacts`).  `FlagFacts` adds what the unique index lets through: one flag at most,
deleted images included, and a save in progress that does not make a second one.  With it an act that `overtaken` does not count changes of the row only
what it means to change (`AsRead`), so it is a step of `ListingContract` or a stutter
(`ContractImplemented`), and flags and cover agree until the count starts.

**Investments** (`InvestmentsProofs`).  `LockInv` says of a request past a lock that it
either holds it, and then what it read under it is still so (`HoldsBoth`), or has lost its
transaction, and then its user is one of those in `lost` (`Adrift`).  A debit outside is
only ever made adrift, because the lock it waits for is that of its own transaction; so
what commits was debited inside (`CommitInside`).  With that slots are never
oversold (part of `TypeOK`), and every step is a step of `InvestmentContract` or a
stutter.  `FundingInv` adds that the columns `sold` and `investors` of a property count
the slots and the investors in its rows of `investments`, and that the ledger has their
price, and more only for a user who has lost a transaction (`FundingAgrees`).  Slots are
counted as pairs of a user and a number, so that no
sum over users is needed: a commit adds as many pairs as it buys, and an investor
exactly if the user held none (`MoreSlots`); that these sets are finite, for any number
of users, is part of the invariant.  All of it holds for every `DebitWays`; for that of
the code `NothingIsEverSold` says what it comes to.

**Sessions** (`SessionsProofs`).  All of it holds for every interleaving.
`RevokedIsFinal` rests on the unique token hash.  `SessionInv` says what a request may
rely on between two of its statements: a token that is being exchanged is live until
its one exchange revokes it, or it is contested (`Exchanges`); a login goes on with a
password the account has had (`Logins`); and while `closed` stands no token is live, no
request is about to give one out and no access token is newer (`Ended`), from which
`ClosedIsClosed` follows.  With it every step is a step of `SessionContract` or a
stutter (`ContractImplemented`): a revocation in the middle of somebody's exchange is a
`Close` that makes the token contested, a late login an `Open` of a contested one.
What the contract comes to is then proved from its steps alone (`Promised`): a token
that is neither spent nor contested is of a password that is not outdated
(`OldSessionsEnd`), and what was given in exchange has a spent or contested parent, a
spent one for only one token (`UsedOnce`: two exchanges of one token are possible only
if they overlap).

**Phone codes** (`PhoneCodesProofs`).  `CodeInv` holds for a code that is not
contested: at most one request verifies it (`Alone`), which holds the attempts that
the row has (`CopyFact`), and the row has counted what was compared and applied
(`History`).  `AskInv` follows a request for a code
from the count of the last hour to the insert.  However requests overlap, each of them
counted when there was room for one, so the codes of an hour and the requests on that way
together stay below the limit and the number of requests (`Reserved`).  As long as only one
is on it (`OneAsks`) there is still room when it inserts (`Room`), and if its look-up
succeeded no other code for the phone (`NoneValid`); codes are numbered in the order in
which they are created (`InTurn`), so of two that are valid for one phone the later one was
created blind (`OneValid`).

**Limiters** (`LimiterProofs`).  The attempts of an entry are counted as the pairs of a
time and an ordinal, so the count is a cardinality (`Stack`, `Total`), and the lemmas
say what recording, forgetting and splitting a history do to it.  `LimiterInv` relates
the entry in the map to `admitted`, all that was admitted through it in the current
window.  In a sliding window the two are the same up to what the entry has yet to
forget (`Sliding`).  In a fixed one the entry has every attempt since its window began,
and those of the window before are at most `Limit` (`Seam`), so two limits bound what a
window across the seam admits.  No entry exceeds its limit (`EntryLimit`), in the map
or in the hands of a request after the cleanup deleted it, and when the map has no entry
there is nothing to remember (`Forgotten`): the cleanup, which read the clock before it
waited for the lock, deletes only what every request that comes later would forget as
well (`ExpiredIsForgotten`).  `WithinLimit` and `StatusTruthful` follow.  `RetryWorks` needs that an entry with attempts
has an earliest one (`Earliest`), with which the entry is full until that leaves the window
and not after (`FirstToLeave`), and that dropping a fraction loses less than a second
(`Truncation`).

**Only model-checked**: the liveness properties `PaidIsCredited` and `Settled`, because
liveness under fairness is outside of what the prover handles, and that
`TransferIsSettled`, `Answered` and `DebitedOnce` are violated.  Every invariant and every
safety property that a passing run
checks is a theorem, and none assumes anything of the schedule.  The one hypothesis left
is `~MockProvider`, of the deposit contract (section 3).

## 6. What is not modelled, and the plan

Written in this order: `Wallet` and `Withdrawals` with `AccountContract`, then
`Deposits`, `Outbox`, `WithdrawalPipeline`, `Listings`, `Investments`, `Sessions`,
`PhoneCodes` and `Limiter`, each with its runs and its proofs.  Left out of `Listings`:
slugs, which are checked for uniqueness before they are saved and by a unique index
when they are; the status history, which the code does not write yet; documents,
single rows that nothing else depends on; and the media store.

Next:

1. A broker connection that is lost for good (`queue.go:179`), as a variant of the
   pipeline: the consumer ends and nobody starts it again, so that no withdrawal is
   paid out until the process is restarted.

Not planned: the hub and the notifications, because the API starts the hub but no
route registers a client with it, and nothing creates a notification service; the
user's profile (name and avatar, single-row updates); the stubs for mail verification
and a forgotten password; HTTP routing, DTOs, formatting, logging, mail and SMS (no
state of their own); signatures and password hashing (pure functions); list and
metrics queries (read only); and uploads to the media store beyond the cover image
rule.
