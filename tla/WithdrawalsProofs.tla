-------------------------- MODULE WithdrawalsProofs --------------------------
(***************************************************************************)
(* Proofs about Withdrawals and about WithdrawalPipeline, for every set of *)
(* users, withdrawals, request handlers, finalizers and webhooks and every *)
(* amount and bound.  First the withdrawal flow alone: its invariants and  *)
(* the account contract.  Then the pipeline: it takes only steps of that   *)
(* flow, so all of that holds of it, its ledger agrees with the bank, and  *)
(* the bank is asked only for money that is reserved.  None of it assumes  *)
(* that calls of FinalizeWithdrawal for one withdrawal are kept apart; the *)
(* history of those that were not says what they can have broken.          *)
(***************************************************************************)
EXTENDS WithdrawalPipeline, TLAPS

-----------------------------------------------------------------------------
(* Type correctness *)

\* The choices that stand for the columns of a row that does not exist yet.
LEMMA Choices == SomeUser \in Users /\ (CHOOSE t \in Ids : TRUE) \in Ids
  BY SetsAssumption DEF SomeUser

\* Each balance operation maps a wallet row to a wallet row.
LEMMA WalletOperations ==
  ASSUME NEW w \in WalletRow, NEW amount \in Nat, NEW success \in BOOLEAN
  PROVE  /\ Credit(w, amount) \in WalletRow
         /\ LockFunds(w, amount) \in WalletRow
         /\ Release(w, amount, success) \in WalletRow
<1> USE DEF WalletRow
<1>1. Credit(w, amount) \in WalletRow
  BY DEF Credit
<1>2. LockFunds(w, amount) \in WalletRow
  BY DEF LockFunds
<1>3. ReleaseFundsOnSuccess(w, amount) \in WalletRow
  BY DEF ReleaseFundsOnSuccess
<1>4. ReleaseFundsOnFailure(w, amount) \in WalletRow
  BY DEF ReleaseFundsOnFailure
<1> QED
  BY <1>1, <1>2, <1>3, <1>4 DEF Release

\* What a request handler asks for.
LEMMA RequestTyped ==
  ASSUME TypeOK, NEW r \in Requesters
  PROVE  /\ req[r].user \in Users /\ req[r].amount \in Nat
         /\ req[r].pc = "checked" => req[r].amount \in Amounts
<1>1. \/ req[r] = IdleRequest
      \/ req[r] \in [pc : {"checked"}, user : Users, amount : Amounts]
  BY DEF TypeOK, RequestState
<1>2. CASE req[r] = IdleRequest
  BY <1>2, Choices DEF IdleRequest
<1>3. CASE req[r] \in [pc : {"checked"}, user : Users, amount : Amounts]
  BY <1>3, AmountsAssumption
<1> QED
  BY <1>1, <1>2, <1>3

LEMMA InitTyped == Init => TypeOK
  BY Choices DEF Init, TypeOK, EmptyWallet, WalletRow, NoRow, Rows, Statuses,
     IdleRequest, RequestState, IdleFinalizer, FinalizeState

LEMMA NextTyped == TypeOK /\ [Next]_vars => TypeOK'
<1> SUFFICES ASSUME TypeOK, [Next]_vars PROVE TypeOK'
  OBVIOUS
<1> USE DEF TypeOK
<1>1. ASSUME NEW r \in Requesters, NEW u \in Users, NEW amount \in Amounts,
             RequestCheck(r, u, amount)
      PROVE  TypeOK'
  BY <1>1, AmountsAssumption DEF RequestCheck, RequestState
<1>2. ASSUME NEW r \in Requesters, NEW t \in Ids, RequestCommit(r, t)
      PROVE  TypeOK'
  <2> DEFINE u == req[r].user
             amount == req[r].amount
  <2>1. u \in Users /\ amount \in Nat
    BY RequestTyped
  <2>2. wallet' \in [Users -> WalletRow]
    BY <1>2, <2>1, WalletOperations DEF RequestCommit
  <2>3. txn' \in [Ids -> Rows]
    BY <1>2, <2>1 DEF RequestCommit, Rows, Statuses
  <2>4. req' \in [Requesters -> RequestState]
    BY <1>2, Choices DEF RequestCommit, RequestState, IdleRequest
  <2> QED
    BY <1>2, <2>2, <2>3, <2>4 DEF RequestCommit
<1>3. ASSUME NEW r \in Requesters, RequestFails(r)
      PROVE  TypeOK'
  BY <1>3, Choices DEF RequestFails, RequestState, IdleRequest
<1>4. ASSUME NEW f \in Finalizers, NEW t \in Ids, NEW success \in BOOLEAN,
             FinalizeRead(f, t, success)
      PROVE  TypeOK'
  BY <1>4 DEF FinalizeRead, FinalizeState, Overlap
<1>5. ASSUME NEW f \in Finalizers, FinalizeCommit(f)
      PROVE  TypeOK'
  <2> DEFINE t == fin[f].txn
             u == txn[t].user
  <2>1. t \in Ids /\ fin[f].success \in BOOLEAN
    BY DEF FinalizeState
  <2>2. u \in Users /\ txn[t].amount \in Nat
    BY <2>1 DEF Rows
  <2>3. wallet' \in [Users -> WalletRow]
    BY <1>5, <2>1, <2>2, WalletOperations DEF FinalizeCommit
  <2>4. txn' \in [Ids -> Rows]
    BY <1>5, <2>1 DEF FinalizeCommit, FinalStatus, Rows, Statuses
  <2>5. fin' \in [Finalizers -> FinalizeState]
    BY <1>5, Choices DEF FinalizeCommit, FinalizeState, IdleFinalizer
  <2> QED
    BY <1>5, <2>3, <2>4, <2>5 DEF FinalizeCommit
<1>6. ASSUME NEW F \in SUBSET Finalizers, FinalizeFails(F)
      PROVE  TypeOK'
  BY <1>6, Choices DEF FinalizeFails, FinalizeState, IdleFinalizer
<1>7. ASSUME NEW u \in Users, NEW amount \in Amounts, DepositCommit(u, amount)
      PROVE  TypeOK'
  BY <1>7, AmountsAssumption, WalletOperations DEF DepositCommit
<1>8. CASE UNCHANGED vars
  BY <1>8 DEF vars
<1> QED
  BY <1>1, <1>2, <1>3, <1>4, <1>5, <1>6, <1>7, <1>8 DEF Next

\* Every reachable state of the withdrawal flow is well typed.
THEOREM TypeCorrect == Spec => []TypeOK
  BY InitTyped, NextTyped, PTL DEF Spec

-----------------------------------------------------------------------------
(* Invariants that hold however many finalizers run *)

\* The CHECK constraints hold of every committed wallet row.
RowsAllowed == \A u \in Users : RowAllowed(wallet[u])

\* What a step relies on and re-establishes.  The unique index and the CHECK
\* constraints are what make LockedCoveredByPending inductive.
CommonInv == /\ TypeOK
             /\ RowsAllowed
             /\ OnePendingPerUser
             /\ LockedCoveredByPending

LEMMA InitCommon == Init => CommonInv
<1> SUFFICES ASSUME Init PROVE RowsAllowed /\ OnePendingPerUser /\ LockedCoveredByPending
  BY InitTyped DEF CommonInv
<1>1. \A u \in Users : wallet[u] = EmptyWallet /\ PendingOf(u) = {}
  BY DEF Init, PendingOf, NoRow
<1> QED
  BY <1>1 DEF RowsAllowed, RowAllowed, EmptyWallet, OnePendingPerUser, LockedCoveredByPending

\* A request that commits makes the only pending withdrawal of its user, and
\* changes the pending withdrawals of nobody else.
LEMMA CommitPending ==
  ASSUME TypeOK, NEW r \in Requesters, NEW t \in Ids, RequestCommit(r, t),
         NEW u \in Users, u = req[r].user
  PROVE  /\ PendingOf(u) = {}
         /\ PendingOf(u)' = {t}
         /\ \A v \in Users \ {u} : PendingOf(v)' = PendingOf(v)
         /\ \A s \in Ids \ {t} : txn'[s] = txn[s]
         /\ txn'[t].amount = req[r].amount
<1> USE DEF TypeOK
<1>1. PendingOf(u) = {} /\ txn[t].status = "none"
  BY DEF RequestCommit, IndexAdmits
<1>2. txn' = [txn EXCEPT ![t] = [status |-> "pending", user |-> u, amount |-> req[r].amount]]
  BY DEF RequestCommit
<1>3. \A s \in Ids \ {t} : txn'[s] = txn[s]
  BY <1>2
<1>4. txn'[t] = [status |-> "pending", user |-> u, amount |-> req[r].amount]
  BY <1>2
<1>5. PendingOf(u)' = {t}
  BY <1>1, <1>3, <1>4 DEF PendingOf
<1>6. \A v \in Users \ {u} : PendingOf(v)' = PendingOf(v)
  BY <1>1, <1>3, <1>4 DEF PendingOf
<1> QED
  BY <1>1, <1>3, <1>4, <1>5, <1>6

\* A finalizer that commits takes its withdrawal out of the pending ones and
\* changes nothing else in the ledger.
LEMMA FinalizePending ==
  ASSUME TypeOK, NEW f \in Finalizers, FinalizeCommit(f),
         NEW t \in Ids, t = fin[f].txn
  PROVE  /\ \A v \in Users : PendingOf(v)' = PendingOf(v) \ {t}
         /\ \A s \in Ids : txn'[s].amount = txn[s].amount /\ txn'[s].user = txn[s].user
         /\ \A s \in Ids \ {t} : txn'[s] = txn[s]
<1> DEFINE outcome == IF fin[f].success THEN "completed" ELSE "failed"
<1> USE DEF TypeOK
<1>1. txn' = [txn EXCEPT ![t].status = outcome]
  BY DEF FinalizeCommit, FinalStatus
<1>2. outcome # "pending"
  OBVIOUS
<1> HIDE DEF outcome
<1>3. \A s \in Ids : txn'[s].amount = txn[s].amount /\ txn'[s].user = txn[s].user
  BY <1>1 DEF Rows
<1>4. \A s \in Ids \ {t} : txn'[s] = txn[s]
  BY <1>1
<1>5. txn'[t].status # "pending"
  BY <1>1, <1>2 DEF Rows
<1>6. \A v \in Users : PendingOf(v)' = PendingOf(v) \ {t}
  BY <1>3, <1>4, <1>5 DEF PendingOf
<1> QED
  BY <1>3, <1>4, <1>6

LEMMA NextCommon == CommonInv /\ [Next]_vars => CommonInv'
<1> SUFFICES ASSUME CommonInv, [Next]_vars
             PROVE  RowsAllowed' /\ OnePendingPerUser' /\ LockedCoveredByPending'
  BY NextTyped DEF CommonInv
<1> USE DEF CommonInv
<1>1. ASSUME UNCHANGED <<wallet, txn>>
      PROVE  RowsAllowed' /\ OnePendingPerUser' /\ LockedCoveredByPending'
  BY <1>1 DEF RowsAllowed, OnePendingPerUser, LockedCoveredByPending, PendingOf
<1>2. ASSUME NEW r \in Requesters, NEW t \in Ids, RequestCommit(r, t)
      PROVE  RowsAllowed' /\ OnePendingPerUser' /\ LockedCoveredByPending'
  <2>1. PICK u \in Users, amount \in Nat : u = req[r].user /\ amount = req[r].amount
    BY RequestTyped
  <2>2. /\ wallet' = [wallet EXCEPT ![u] = LockFunds(wallet[u], amount)]
        /\ RowAllowed(LockFunds(wallet[u], amount))
    BY <1>2, <2>1 DEF RequestCommit
  <2>3. /\ PendingOf(u) = {}
        /\ PendingOf(u)' = {t}
        /\ \A v \in Users \ {u} : PendingOf(v)' = PendingOf(v)
        /\ \A s \in Ids \ {t} : txn'[s] = txn[s]
        /\ txn'[t].amount = amount
        /\ txn[t].status = "none"
    BY <1>2, <2>1, CommitPending DEF RequestCommit
  <2>4. wallet'[u] = LockFunds(wallet[u], amount) /\ \A v \in Users \ {u} : wallet'[v] = wallet[v]
    BY <2>1, <2>2 DEF TypeOK
  <2>5. RowsAllowed'
    BY <2>2, <2>4 DEF RowsAllowed
  <2>6. OnePendingPerUser'
    BY <2>3 DEF OnePendingPerUser
  <2>7. wallet'[u].locked = amount
    <3>1. wallet[u].locked = 0 /\ wallet[u] \in WalletRow
      BY <2>1, <2>3 DEF LockedCoveredByPending, TypeOK
    <3> QED
      BY <2>4, <3>1 DEF LockFunds, WalletRow
  <2>8. LockedCoveredByPending'
    <3>1. ASSUME NEW v \in Users \ {u}, NEW s \in PendingOf(v)
          PROVE  txn'[s] = txn[s]
      BY <2>3, <3>1 DEF PendingOf
    <3> QED
      BY <2>3, <2>4, <2>7, <3>1 DEF LockedCoveredByPending
  <2> QED
    BY <2>5, <2>6, <2>8
<1>3. ASSUME NEW f \in Finalizers, FinalizeCommit(f)
      PROVE  RowsAllowed' /\ OnePendingPerUser' /\ LockedCoveredByPending'
  <2>1. PICK t \in Ids : t = fin[f].txn
    BY DEF TypeOK, FinalizeState
  <2>2. PICK u \in Users, amount \in Nat : u = txn[t].user /\ amount = txn[t].amount
    BY DEF TypeOK, Rows
  <2>3. /\ wallet' = [wallet EXCEPT ![u] = Release(wallet[u], amount, fin[f].success)]
        /\ RowAllowed(Release(wallet[u], amount, fin[f].success))
    BY <1>3, <2>1, <2>2 DEF FinalizeCommit
  <2>4. /\ wallet'[u] = Release(wallet[u], amount, fin[f].success)
        /\ \A v \in Users \ {u} : wallet'[v] = wallet[v]
        /\ wallet[u] \in WalletRow
    BY <2>3 DEF TypeOK
  <2>5. /\ \A v \in Users : PendingOf(v)' = PendingOf(v) \ {t}
        /\ \A s \in Ids : txn'[s].amount = txn[s].amount
    BY <1>3, <2>1, FinalizePending
  <2>6. RowsAllowed'
    BY <2>3, <2>4 DEF RowsAllowed
  <2>7. OnePendingPerUser'
    BY <2>5 DEF OnePendingPerUser
  <2>8. wallet'[u].locked = wallet[u].locked - amount /\ wallet'[u].locked >= 0
    BY <2>3, <2>4 DEF RowAllowed, Release, ReleaseFundsOnSuccess, ReleaseFundsOnFailure, WalletRow
  <2>9. ASSUME NEW v \in Users \ {u}
        PROVE  \/ wallet'[v].locked = 0
               \/ \E s \in PendingOf(v)' : wallet'[v].locked <= txn'[s].amount
    <3>1. \A s \in PendingOf(v) : s \in PendingOf(v)' /\ txn'[s].amount = txn[s].amount
      BY <2>2, <2>5, <2>9 DEF PendingOf
    <3> QED
      BY <2>4, <2>9, <3>1 DEF LockedCoveredByPending
  <2>10. \/ wallet'[u].locked = 0
         \/ \E s \in PendingOf(u)' : wallet'[u].locked <= txn'[s].amount
    <3> DEFINE before == wallet[u].locked
               after == wallet'[u].locked
    <3>0. before \in Int /\ after = before - amount /\ after >= 0
      BY <2>4, <2>8 DEF WalletRow
    <3>1. CASE before = 0
      BY <3>0, <3>1
    <3>2. CASE \E s \in PendingOf(u) : before <= txn[s].amount
      <4>1. PICK s \in PendingOf(u) : before <= txn[s].amount
        BY <3>2
      <4>2. s \in Ids /\ txn[s].amount \in Nat
        BY <4>1 DEF PendingOf, TypeOK, Rows
      <4>3. CASE s = t
        BY <2>2, <3>0, <4>1, <4>3
      <4>4. CASE s # t
        BY <2>5, <3>0, <4>1, <4>2, <4>4
      <4> QED
        BY <4>3, <4>4
    <3> QED
      BY <3>1, <3>2 DEF LockedCoveredByPending
  <2>11. LockedCoveredByPending'
    BY <2>9, <2>10 DEF LockedCoveredByPending
  <2> QED
    BY <2>6, <2>7, <2>11
<1>4. ASSUME NEW u \in Users, NEW amount \in Amounts, DepositCommit(u, amount)
      PROVE  RowsAllowed' /\ OnePendingPerUser' /\ LockedCoveredByPending'
  <2>1. /\ amount \in Nat
        /\ txn' = txn
        /\ wallet' = [wallet EXCEPT ![u] = Credit(wallet[u], amount)]
    BY <1>4, AmountsAssumption DEF DepositCommit
  <2>2. \A v \in Users : /\ wallet'[v].locked = wallet[v].locked
                         /\ wallet'[v].main >= wallet[v].main
                         /\ wallet'[v].main \in Int
    BY <2>1 DEF TypeOK, WalletRow, Credit
  <2>3. RowsAllowed'
    BY <2>2 DEF RowsAllowed, RowAllowed, TypeOK, WalletRow
  <2> QED
    BY <2>1, <2>2, <2>3 DEF OnePendingPerUser, LockedCoveredByPending, PendingOf
<1> QED
  BY <1>1, <1>2, <1>3, <1>4
     DEF Next, vars, RequestCheck, RequestFails, FinalizeRead, FinalizeFails

LEMMA CommonInvariant == Spec => []CommonInv
  BY InitCommon, NextCommon, PTL DEF Spec

\* However the unlocked check of InitiateWithdrawal interleaves with other
\* requests, no user ever has two pending withdrawals.
THEOREM OnePendingPerUserCorrect == Spec => []OnePendingPerUser
  BY CommonInvariant, PTL DEF CommonInv

\* However many finalizers run, stale or not, a reservation never outlives the
\* withdrawal it was made for.
THEOREM LockedCovered == Spec => []LockedCoveredByPending
  BY CommonInvariant, PTL DEF CommonInv

\* However many finalizers run, FinalizeWithdrawal settles a withdrawal a second
\* time only while its user has another pending withdrawal: without one the CHECK
\* on locked_balance rolls the second settlement back.
THEOREM SecondSettlement == Spec => SecondSettlementNeedsAnother
<1> DEFINE Guarded == \A t \in Ids : SettledAgain(t) => PendingOf(txn[t].user) \ {t} # {}
<1>1. CommonInv /\ [Next]_vars => [Guarded]_vars
  <2> SUFFICES ASSUME CommonInv, Next, NEW t \in Ids, SettledAgain(t)
               PROVE  PendingOf(txn[t].user) \ {t} # {}
    BY DEF vars
  <2> USE DEF CommonInv
  <2>1. PICK f \in Finalizers : fin[f].pc = "read" /\ fin[f].txn = t /\ fin'[f].pc = "idle"
    BY DEF SettledAgain
  <2>2. FinalizeCommit(f)
    <3>1. wallet' # wallet /\ fin' # fin
      BY <2>1 DEF SettledAgain
    <3>2. PICK g \in Finalizers : FinalizeCommit(g)
      BY <3>1 DEF Next, RequestCheck, RequestCommit, RequestFails, FinalizeRead,
         FinalizeFails, DepositCommit
    <3>3. g = f
      BY <2>1, <3>2 DEF FinalizeCommit, TypeOK
    <3> QED
      BY <3>2, <3>3
  <2>3. PICK u \in Users, amount \in Nat : u = txn[t].user /\ amount = txn[t].amount
    BY DEF TypeOK, Rows
  <2>4. /\ wallet' = [wallet EXCEPT ![u] = Release(wallet[u], amount, fin[f].success)]
        /\ RowAllowed(Release(wallet[u], amount, fin[f].success))
        /\ wallet[u] \in WalletRow
    BY <2>1, <2>2, <2>3 DEF FinalizeCommit, TypeOK
  <2>5. amount > 0
    <3> SUFFICES ASSUME amount = 0 PROVE FALSE
      BY <2>3
    <3>1. Release(wallet[u], 0, fin[f].success) = wallet[u]
      BY <2>4 DEF Release, ReleaseFundsOnSuccess, ReleaseFundsOnFailure, WalletRow
    <3>2. wallet' = wallet
      BY <2>4, <3>1 DEF TypeOK
    <3> QED
      BY <3>2 DEF SettledAgain
  <2>6. wallet[u].locked > 0
    BY <2>4, <2>5 DEF RowAllowed, Release, ReleaseFundsOnSuccess, ReleaseFundsOnFailure, WalletRow
  <2>7. PendingOf(u) # {}
    BY <2>3, <2>6 DEF LockedCoveredByPending
  <2>8. t \notin PendingOf(u)
    BY DEF SettledAgain, PendingOf, Terminal
  <2> QED
    BY <2>3, <2>7, <2>8
<1> QED
  BY <1>1, CommonInvariant, PTL DEF Spec, SecondSettlementNeedsAnother

-----------------------------------------------------------------------------
(* What the history of overlapping calls adds *)

\* Only withdrawals that exist are settled, and a call that nobody overlapped has
\* its withdrawal to itself and still finds it pending when it commits.
CallsAlone ==
    /\ \A t \in overlapped : txn[t].status # "none"
    /\ \A f \in Finalizers : fin[f].pc = "read" =>
          /\ txn[fin[f].txn].status # "none"
          /\ fin[f].txn \notin overlapped =>
                /\ txn[fin[f].txn].status = "pending"
                /\ \A g \in Finalizers \ {f} : fin[g].pc = "read" => fin[g].txn # fin[f].txn

SettleInv == /\ CommonInv
             /\ CallsAlone
             /\ LockedIsPending

LEMMA InitSettle == Init => SettleInv
  BY InitCommon DEF Init, SettleInv, LockedIsPending, CallsAlone, PendingOf, NoRow,
     EmptyWallet, IdleFinalizer

\* A withdrawal and the user it belongs to, as a call of FinalizeWithdrawal finds
\* them: overlapped, or pending and in nobody else's hands.
LEMMA FoundByCall ==
  ASSUME TypeOK, CallsAlone, NEW f \in Finalizers, fin[f].pc = "read",
         NEW t \in Ids, t = fin[f].txn
  PROVE  /\ txn[t].status \in {"pending"} \cup Terminal
         /\ t \notin overlapped =>
              /\ txn[t].status = "pending"
              /\ \A g \in Finalizers \ {f} : fin[g].pc = "read" => fin[g].txn # t
  BY DEF TypeOK, CallsAlone, Rows, Statuses, Terminal

LEMMA NextSettle == SettleInv /\ [Next]_vars => SettleInv'
<1> SUFFICES ASSUME SettleInv, [Next]_vars PROVE LockedIsPending' /\ CallsAlone'
  BY NextCommon DEF SettleInv
<1> USE DEF SettleInv, CommonInv
<1>0. ASSUME UNCHANGED <<wallet, txn, fin, overlapped>>
      PROVE  LockedIsPending' /\ CallsAlone'
  BY <1>0 DEF LockedIsPending, CallsAlone, Undisturbed, PendingOf
<1>1. ASSUME NEW r \in Requesters, NEW t \in Ids, RequestCommit(r, t)
      PROVE  LockedIsPending' /\ CallsAlone'
  <2>1. PICK u \in Users, amount \in Nat : u = req[r].user /\ amount = req[r].amount
    BY RequestTyped
  <2>2. /\ PendingOf(u) = {}
        /\ PendingOf(u)' = {t}
        /\ \A v \in Users \ {u} : PendingOf(v)' = PendingOf(v)
        /\ \A s \in Ids \ {t} : txn'[s] = txn[s]
        /\ txn'[t].amount = amount
        /\ txn[t].status = "none"
    BY <1>1, <2>1, CommitPending DEF RequestCommit
  <2>3. /\ wallet'[u] = LockFunds(wallet[u], amount)
        /\ \A v \in Users \ {u} : wallet'[v] = wallet[v]
        /\ wallet[u] \in WalletRow
        /\ fin' = fin /\ overlapped' = overlapped
    BY <1>1, <2>1 DEF RequestCommit, TypeOK
  <2>4. t \notin overlapped /\ overlapped \subseteq Ids
    BY <2>2 DEF CallsAlone, TypeOK
  <2>5. wallet'[u].locked = amount
    <3>1. wallet[u].locked = 0
      BY <2>2 DEF LockedCoveredByPending
    <3> QED
      BY <2>3, <3>1 DEF LockFunds, WalletRow
  <2>6. LockedIsPending'
    <3>1. ASSUME NEW v \in Users \ {u}, NEW s \in PendingOf(v) PROVE txn'[s] = txn[s]
      BY <2>2, <3>1 DEF PendingOf
    <3>2. ASSUME NEW v \in Users, Undisturbed(v)' PROVE Undisturbed(v)
      BY <2>2, <2>3, <2>4, <3>2 DEF Undisturbed
    <3> QED
      BY <2>2, <2>3, <2>5, <3>1, <3>2 DEF LockedIsPending
  <2>7. CallsAlone'
    <3>1. ASSUME NEW f \in Finalizers, fin[f].pc = "read"
          PROVE  fin[f].txn \in Ids \ {t}
      BY <2>2, <3>1 DEF CallsAlone, TypeOK, FinalizeState
    <3> QED
      BY <2>2, <2>3, <2>4, <3>1 DEF CallsAlone
  <2> QED
    BY <2>6, <2>7
<1>2. ASSUME NEW f \in Finalizers, NEW t \in Ids, NEW success \in BOOLEAN,
             FinalizeRead(f, t, success)
      PROVE  LockedIsPending' /\ CallsAlone'
  <2>1. /\ fin[f].pc = "idle" /\ txn[t].status = "pending"
        /\ wallet' = wallet /\ txn' = txn
        /\ overlapped \subseteq overlapped' /\ overlapped' \subseteq overlapped \cup {t}
        /\ (\E g \in Finalizers : fin[g].pc = "read" /\ fin[g].txn = t) => t \in overlapped'
    BY <1>2 DEF FinalizeRead, Overlap
  <2>2. /\ fin'[f] = [pc |-> "read", txn |-> t, success |-> success]
        /\ \A g \in Finalizers \ {f} : fin'[g] = fin[g]
    BY <1>2 DEF FinalizeRead, TypeOK
  <2>3. LockedIsPending'
    <3>1. ASSUME NEW v \in Users, Undisturbed(v)' PROVE Undisturbed(v)
      BY <2>1, <3>1 DEF Undisturbed
    <3>2. ASSUME NEW v \in Users PROVE PendingOf(v)' = PendingOf(v)
      BY <2>1 DEF PendingOf
    <3> QED
      BY <2>1, <3>1, <3>2 DEF LockedIsPending
  <2>4. \A s \in overlapped' : txn'[s].status # "none"
    BY <2>1 DEF CallsAlone
  <2>5. ASSUME NEW g \in Finalizers, fin'[g].pc = "read"
        PROVE  /\ txn'[fin'[g].txn].status # "none"
               /\ fin'[g].txn \notin overlapped' =>
                     /\ txn'[fin'[g].txn].status = "pending"
                     /\ \A h \in Finalizers \ {g} : fin'[h].pc = "read" => fin'[h].txn # fin'[g].txn
    <3>1. CASE g = f
      BY <2>1, <2>2, <3>1
    <3>2. CASE g # f
      BY <2>1, <2>2, <2>5, <3>2 DEF CallsAlone
    <3> QED
      BY <3>1, <3>2
  <2>6. CallsAlone'
    BY <2>4, <2>5 DEF CallsAlone
  <2> QED
    BY <2>3, <2>6
<1>3. ASSUME NEW f \in Finalizers, FinalizeCommit(f)
      PROVE  LockedIsPending' /\ CallsAlone'
  <2>1. PICK t \in Ids : t = fin[f].txn
    BY DEF TypeOK, FinalizeState
  <2>2. PICK u \in Users, amount \in Nat : u = txn[t].user /\ amount = txn[t].amount
    BY DEF TypeOK, Rows
  <2>3. /\ wallet'[u] = Release(wallet[u], amount, fin[f].success)
        /\ \A v \in Users \ {u} : wallet'[v] = wallet[v]
        /\ wallet[u] \in WalletRow
        /\ fin[f].pc = "read" /\ overlapped' = overlapped /\ overlapped \subseteq Ids
    BY <1>3, <2>1, <2>2 DEF FinalizeCommit, TypeOK
  <2>4. /\ \A v \in Users : PendingOf(v)' = PendingOf(v) \ {t}
        /\ \A s \in Ids : txn'[s].amount = txn[s].amount /\ txn'[s].user = txn[s].user
        /\ \A s \in Ids \ {t} : txn'[s] = txn[s]
    BY <1>3, <2>1, FinalizePending
  <2>5. t \notin overlapped =>
          /\ txn[t].status = "pending"
          /\ \A g \in Finalizers \ {f} : fin[g].pc = "read" => fin[g].txn # t
    BY <2>1, <2>3, FoundByCall
  <2>6. ASSUME NEW v \in Users, Undisturbed(v)' PROVE Undisturbed(v)
    BY <2>3, <2>4, <2>6 DEF Undisturbed
  <2>7. ASSUME Undisturbed(u) PROVE PendingOf(u)' = {} /\ wallet'[u].locked = 0
    <3>1. t \in PendingOf(u)
      BY <2>2, <2>5, <2>7 DEF PendingOf, Undisturbed
    <3>2. PendingOf(u) = {t} /\ wallet[u].locked = amount
      BY <2>2, <2>7, <3>1 DEF OnePendingPerUser, LockedIsPending
    <3> QED
      BY <2>3, <2>4, <3>2
         DEF Release, ReleaseFundsOnSuccess, ReleaseFundsOnFailure, WalletRow
  <2>8. ASSUME NEW v \in Users \ {u}
        PROVE  /\ PendingOf(v)' = PendingOf(v) /\ wallet'[v] = wallet[v]
               /\ \A s \in PendingOf(v) : txn'[s].amount = txn[s].amount
    BY <2>2, <2>3, <2>4, <2>8 DEF PendingOf
  <2>9. LockedIsPending'
    BY <2>6, <2>7, <2>8 DEF LockedIsPending
  <2>10. /\ fin'[f].pc = "idle"
         /\ \A g \in Finalizers \ {f} : fin'[g] = fin[g]
    BY <1>3 DEF FinalizeCommit, IdleFinalizer, TypeOK
  <2>11. txn'[t].status # "none"
    BY <1>3, <2>1 DEF FinalizeCommit, FinalStatus, TypeOK, Rows
  <2>12. ASSUME NEW g \in Finalizers, fin'[g].pc = "read"
         PROVE  /\ txn'[fin'[g].txn].status # "none"
                /\ fin'[g].txn \notin overlapped' =>
                      /\ txn'[fin'[g].txn].status = "pending"
                      /\ \A h \in Finalizers \ {g} : fin'[h].pc = "read" => fin'[h].txn # fin'[g].txn
    <3>1. g # f /\ fin'[g] = fin[g]
      BY <2>10, <2>12
    <3>2. PICK s \in Ids : s = fin[g].txn
      BY DEF TypeOK, FinalizeState
    <3>3. CASE s = t
      BY <2>3, <2>5, <2>11, <2>12, <3>1, <3>2, <3>3
    <3>4. CASE s # t
      <4>1. txn'[s] = txn[s]
        BY <2>4, <3>4
      <4> QED
        BY <2>3, <2>10, <2>12, <3>1, <3>2, <4>1 DEF CallsAlone
    <3> QED
      BY <3>3, <3>4
  <2>13. \A s \in overlapped' : txn'[s].status # "none"
    BY <2>3, <2>4, <2>11 DEF CallsAlone
  <2>14. CallsAlone'
    BY <2>12, <2>13 DEF CallsAlone
  <2> QED
    BY <2>9, <2>14
<1>4. ASSUME NEW F \in SUBSET Finalizers, FinalizeFails(F)
      PROVE  LockedIsPending' /\ CallsAlone'
  <2>1. /\ \A g \in Finalizers : fin'[g] = fin[g] \/ fin'[g].pc = "idle"
        /\ wallet' = wallet /\ txn' = txn /\ overlapped' = overlapped
    BY <1>4 DEF FinalizeFails, IdleFinalizer
  <2>2. LockedIsPending'
    BY <2>1 DEF LockedIsPending, Undisturbed, PendingOf
  <2>3. CallsAlone'
    BY <2>1 DEF CallsAlone
  <2> QED
    BY <2>2, <2>3
<1>5. ASSUME NEW u \in Users, NEW amount \in Amounts, DepositCommit(u, amount)
      PROVE  LockedIsPending' /\ CallsAlone'
  <2>1. /\ txn' = txn /\ fin' = fin /\ overlapped' = overlapped
        /\ wallet' = [wallet EXCEPT ![u] = Credit(wallet[u], amount)]
    BY <1>5 DEF DepositCommit
  <2>2. \A v \in Users : wallet'[v].locked = wallet[v].locked
    BY <2>1 DEF TypeOK, WalletRow, Credit
  <2>3. LockedIsPending'
    BY <2>1, <2>2 DEF LockedIsPending, Undisturbed, PendingOf
  <2>4. CallsAlone'
    BY <2>1 DEF CallsAlone
  <2> QED
    BY <2>3, <2>4
<1> QED
  BY <1>0, <1>1, <1>2, <1>3, <1>4, <1>5 DEF Next, vars, RequestCheck, RequestFails

LEMMA SettleInvariant == Spec => []SettleInv
  BY InitSettle, NextSettle, PTL DEF Spec

\* locked_balance equals the amount of the user's pending withdrawal, and is zero
\* when there is none, until two calls of FinalizeWithdrawal overlap on one
\* withdrawal of the user; what other users' calls do never matters.
THEOREM LockedIsPendingCorrect == Spec => []LockedIsPending
<1>1. SettleInv => LockedIsPending
  BY DEF SettleInv
<1> QED
  BY <1>1, SettleInvariant, PTL

-----------------------------------------------------------------------------
(* The wallet implements the account contract *)

LEMMA InitRefines == Init => Contract!Init
  BY SetsAssumption DEF Init, Contract!Init, Contract!Claims, EmptyWallet, NoRow, SomeUser

\* The committing step of each handler is one step of the contract, unless it
\* settles what is settled; every other step leaves balance, status and claim.
LEMMA NextRefines ==
  ASSUME SettleInv, [Next]_vars
  PROVE  [(\E f \in Finalizers : Resettles(f)) \/ Contract!Next]_(Contract!contractVars)
<1> USE DEF SettleInv, CommonInv, Contract!contractVars
<1>1. ASSUME UNCHANGED <<wallet, txn>>
      PROVE  UNCHANGED Contract!contractVars
  BY <1>1
<1>2. ASSUME NEW r \in Requesters, NEW t \in Ids, RequestCommit(r, t)
      PROVE  Contract!Next
  <2>1. PICK u \in Users, amount \in Nat : u = req[r].user /\ amount = req[r].amount
    BY RequestTyped
  <2>2. amount \in Amounts
    BY <1>2, <2>1, RequestTyped DEF RequestCommit
  <2>3. PendingOf(u) = {} /\ wallet[u].locked = 0 /\ wallet[u] \in WalletRow
    BY <1>2, <2>1 DEF RequestCommit, IndexAdmits, LockedCoveredByPending, TypeOK
  <2>4. amount <= wallet[u].main
    BY <1>2, <2>1, <2>3 DEF RequestCommit, CanLock, AvailableBalance, WalletRow
  <2>5. /\ txn' = [txn EXCEPT ![t] = [status |-> "pending", user |-> u, amount |-> amount]]
        /\ txn[t].status = "none"
    BY <1>2, <2>1 DEF RequestCommit
  <2>6. \A v \in Users : wallet'[v].main = wallet[v].main
    BY <1>2, <2>1 DEF RequestCommit, LockFunds, TypeOK, WalletRow
  <2>7. \A other \in Ids : ~Contract!Open(u, other)
    BY <2>3 DEF PendingOf, Contract!Open
  <2>8. Contract!Reserve(t, u, amount)
    BY <2>4, <2>5, <2>6, <2>7 DEF Contract!Reserve, TypeOK
  <2> QED
    BY <2>1, <2>2, <2>8 DEF Contract!Next
<1>3. ASSUME NEW f \in Finalizers, FinalizeCommit(f), ~Resettles(f)
      PROVE  Contract!Next
  <2>1. PICK t \in Ids : t = fin[f].txn
    BY DEF TypeOK, FinalizeState
  <2>2. PICK u \in Users, amount \in Nat : u = txn[t].user /\ amount = txn[t].amount
    BY DEF TypeOK, Rows
  <2>3. /\ wallet'[u] = Release(wallet[u], amount, fin[f].success)
        /\ \A v \in Users \ {u} : wallet'[v] = wallet[v]
        /\ wallet[u] \in WalletRow
    BY <1>3, <2>1, <2>2 DEF FinalizeCommit, TypeOK
  <2>4. txn[t].status = "pending"
    <3>1. fin[f].pc = "read"
      BY <1>3 DEF FinalizeCommit
    <3> QED
      BY <1>3, <2>1, <3>1, FoundByCall DEF Resettles
  <2>5. \A s \in Ids : txn'[s].amount = txn[s].amount /\ txn'[s].user = txn[s].user
    BY <1>3, <2>1, FinalizePending
  <2>6. CASE fin[f].success
    <3>1. txn' = [txn EXCEPT ![t].status = "completed"]
      BY <1>3, <2>1, <2>6 DEF FinalizeCommit, FinalStatus
    <3>2. \A v \in Users : wallet'[v].main = IF v = u THEN wallet[v].main - amount
                                                      ELSE wallet[v].main
      BY <2>3, <2>6 DEF Release, ReleaseFundsOnSuccess
    <3>3. [s \in Ids |-> txn[s].status]' = [[s \in Ids |-> txn[s].status] EXCEPT ![t] = "completed"]
      BY <3>1 DEF TypeOK, Rows
    <3>4. [v \in Users |-> wallet[v].main]' = [[v \in Users |-> wallet[v].main] EXCEPT ![u] = @ - amount]
      BY <3>2
    <3>5. [s \in Ids |-> [user |-> txn[s].user, amount |-> txn[s].amount]]'
            = [s \in Ids |-> [user |-> txn[s].user, amount |-> txn[s].amount]]
      BY <2>5
    <3>6. Contract!Pay(t)
      BY <2>2, <2>4, <3>3, <3>4, <3>5 DEF Contract!Pay
    <3> QED
      BY <3>6 DEF Contract!Next
  <2>7. CASE ~fin[f].success
    <3>1. txn' = [txn EXCEPT ![t].status = "failed"]
      BY <1>3, <2>1, <2>7 DEF FinalizeCommit, FinalStatus
    <3>2. \A v \in Users : wallet'[v].main = wallet[v].main
      BY <2>3, <2>7 DEF Release, ReleaseFundsOnFailure, WalletRow
    <3>3. Contract!Return(t)
      BY <2>4, <2>5, <3>1, <3>2 DEF Contract!Return, TypeOK, Rows
    <3> QED
      BY <3>3 DEF Contract!Next
  <2> QED
    BY <2>6, <2>7
<1>4. ASSUME NEW u \in Users, NEW amount \in Amounts, DepositCommit(u, amount)
      PROVE  Contract!Next
  <2>1. txn' = txn /\ wallet' = [wallet EXCEPT ![u] = Credit(wallet[u], amount)]
    BY <1>4 DEF DepositCommit
  <2>2. \A v \in Users : wallet'[v].main = IF v = u THEN wallet[v].main + amount
                                                    ELSE wallet[v].main
    BY <2>1 DEF TypeOK, WalletRow, Credit
  <2>3. Contract!Deposit(u, amount)
    BY <2>1, <2>2 DEF Contract!Deposit
  <2> QED
    BY <2>3 DEF Contract!Next
<1> QED
  BY <1>1, <1>2, <1>3, <1>4
     DEF Next, vars, RequestCheck, RequestFails, FinalizeRead, FinalizeFails

\* The wallet implements the account contract: every withdrawal is reserved out of
\* an available balance and settled exactly once, whatever requests, deposits and
\* failures interleave.  The one step that breaks it is the second commit of calls
\* of FinalizeWithdrawal that overlapped, and the steps after it keep it again.
THEOREM ContractImplemented == Spec => ContractSpec
  BY NextRefines, InitRefines, SettleInvariant, PTL DEF Spec, ContractSpec

-----------------------------------------------------------------------------
(* The pipeline drives the withdrawal flow and nothing else *)

\* The callers of FinalizeWithdrawal are what the finalizers of Withdrawals are.
LEMMA Callers ==
  /\ Consumer \in Worker /\ Reconciler \in Worker
  /\ Consumer # Reconciler
  /\ Worker \subseteq Finalizers /\ Webhooks \subseteq Finalizers
  BY CallersAssumption DEF Worker

\* Every step of the pipeline is a step of the withdrawal flow, or changes nothing
\* the withdrawal flow is about.
LEMMA PipelineStepIsStep ==
  ASSUME PipelineTypeOK, PipelineNext
  PROVE  [Next]_vars
<1>1. CASE RequestStep
  BY <1>1 DEF RequestStep, Next
<1>2. CASE \E t \in Ids : PublishEvent(t) \/ GiveUpEvent(t)
  BY <1>2 DEF PublishEvent, GiveUpEvent
<1>3. CASE ConsumerStep
  BY <1>3 DEF ConsumerStep, Receive, LookupFails, InitiateTransfer, DuplicateReference,
     InitiateFails, SaveTransferCode
<1>4. CASE (\E t \in Ids : ReconcileQuery(t)) \/ VerifyTransfer
  BY <1>4 DEF ReconcileQuery, VerifyTransfer
<1>5. ASSUME NEW g \in Worker, CallStep(g)
      PROVE  [Next]_vars
  <2>1. g \in Finalizers /\ job[g].txn \in Ids
    BY Callers DEF PipelineTypeOK
  <2>2. CASE WorkerFinalizeRead(g)
    <3>1. CASE FinalizeRead(g, job[g].txn, job[g].result = "success")
      <4>1. (job[g].result = "success") \in BOOLEAN
        OBVIOUS
      <4> QED
        BY <2>1, <3>1, <4>1 DEF Next
    <3> QED
      BY <2>2, <3>1 DEF WorkerFinalizeRead
  <2>3. CASE WorkerFinalizeCommit(g)
    BY <2>1, <2>3 DEF WorkerFinalizeCommit, Next
  <2>4. CASE WorkerFinalizeFails(g)
    BY <2>1, <2>4 DEF WorkerFinalizeFails, CallFails, Next
  <2> QED
    BY <1>5, <2>2, <2>3, <2>4 DEF CallStep
<1>6. CASE WorkerDies
  <2>1. {g \in Worker : fin[g].pc = "read"} \in SUBSET Finalizers
    BY Callers
  <2> QED
    BY <1>6, <2>1 DEF WorkerDies, Next
<1>7. ASSUME NEW w \in Webhooks, WebhookStep(w)
      PROVE  [Next]_vars
  <2>1. w \in Finalizers
    BY Callers
  <2>2. ASSUME NEW t \in Ids, NEW event \in Outcomes, WebhookReceive(w, t, event)
        PROVE  [Next]_vars
    <3>1. CASE FinalizeRead(w, t, event = "success")
      <4>1. (event = "success") \in BOOLEAN
        OBVIOUS
      <4> QED
        BY <2>1, <3>1, <4>1 DEF Next
    <3> QED
      BY <2>2, <3>1 DEF WebhookReceive
  <2>3. CASE WebhookCommit(w)
    BY <2>1, <2>3 DEF WebhookCommit, Next
  <2>4. CASE WebhookFails(w) \/ WebhookDies(w)
    BY <2>1, <2>4 DEF WebhookFails, WebhookDies, CallFails, Next
  <2>5. CASE \E t \in Ids, event \in Outcomes : WebhookLookupFails(w, t, event)
    BY <2>5 DEF WebhookLookupFails
  <2> QED
    BY <1>7, <2>2, <2>3, <2>4, <2>5 DEF WebhookStep
<1>8. CASE \E t \in Ids, result \in {"success", "failed"} : TransferEnds(t, result)
  BY <1>8 DEF TransferEnds
<1>9. CASE \E t \in Ids : TransferReverses(t)
  BY <1>9 DEF TransferReverses
<1> QED
  BY <1>1, <1>2, <1>3, <1>4, <1>5, <1>6, <1>7, <1>8, <1>9 DEF PipelineNext

-----------------------------------------------------------------------------
(* Type correctness *)

\* The consumer works on a message the broker holds until it is acknowledged,
\* which is what keeps the count of messages from going below zero.
ConsumerHolds == job[Consumer].pc # "idle" => queue[job[Consumer].txn] > 0

TypedInv == PipelineTypeOK /\ ConsumerHolds

LEMMA InitTypedInv == PipelineInit => TypedInv
<1> SUFFICES ASSUME PipelineInit PROVE TypedInv
  OBVIOUS
<1>1. TypeOK
  BY InitTyped DEF PipelineInit
<1>2. IdleJob \in [pc : JobPCs, txn : Ids, result : Transfers]
  BY Choices DEF IdleJob, JobPCs, Transfers
<1> QED
  BY <1>1, <1>2, Callers, BoundsAssumption
     DEF PipelineInit, Init, TypedInv, PipelineTypeOK, ConsumerHolds, IdleJob, Transfers

\* The part of the type invariant that is about the queue and the worker.
WorkTyped == /\ queue \in [Ids -> 0 .. MaxCopies]
             /\ job \in [Worker -> [pc : JobPCs, txn : Ids, result : Transfers]]
             /\ ConsumerHolds

\* An acknowledgement takes one message from the queue and frees the consumer.
LEMMA AckTyped ==
  ASSUME WorkTyped, NEW t \in Ids, queue[t] > 0, Ack(t)
  PROVE  WorkTyped'
  BY Choices, Callers, BoundsAssumption
     DEF WorkTyped, Ack, IdleJob, JobPCs, Transfers, ConsumerHolds

\* A requeued message stays, and the consumer is free.
LEMMA NackTyped == ASSUME WorkTyped, Nack PROVE WorkTyped'
  BY Choices, Callers DEF WorkTyped, Nack, IdleJob, JobPCs, Transfers, ConsumerHolds

\* A worker goroutine that is at work stays with its withdrawal.
LEMMA JobTyped ==
  ASSUME WorkTyped, NEW g \in Worker, NEW pc \in JobPCs, NEW result \in Transfers,
         job[g].pc # "idle", queue' = queue,
         job' = [job EXCEPT ![g].pc = pc, ![g].result = result]
  PROVE  WorkTyped'
  BY Callers DEF WorkTyped, ConsumerHolds

\* A worker goroutine other than the consumer is freed.
LEMMA FreeTyped ==
  ASSUME WorkTyped, NEW g \in Worker, queue' = queue, job' = [job EXCEPT ![g] = IdleJob]
  PROVE  WorkTyped'
  BY Choices, Callers DEF WorkTyped, IdleJob, JobPCs, Transfers, ConsumerHolds

LEMMA SameTyped == ASSUME WorkTyped, UNCHANGED <<queue, job>> PROVE WorkTyped'
  BY DEF WorkTyped, ConsumerHolds

LEMMA NextWork == ASSUME TypedInv, PipelineNext PROVE WorkTyped'
<1>1. WorkTyped
  BY DEF TypedInv, PipelineTypeOK, WorkTyped
<1> USE DEF outside
<1>2. CASE RequestStep
  BY <1>1, <1>2, SameTyped DEF RequestStep
<1>3. ASSUME NEW t \in Ids, PublishEvent(t) \/ GiveUpEvent(t)
      PROVE  WorkTyped'
  <2>1. CASE PublishEvent(t)
    BY <1>1, <2>1, BoundsAssumption DEF PublishEvent, WorkTyped, ConsumerHolds
  <2>2. CASE GiveUpEvent(t)
    BY <1>1, <2>2, SameTyped DEF GiveUpEvent
  <2> QED
    BY <1>3, <2>1, <2>2
<1>4. CASE ConsumerStep
  <2>1. job[Consumer] \in [pc : JobPCs, txn : Ids, result : Transfers]
    BY <1>1, Callers DEF WorkTyped
  <2>2. ASSUME NEW t \in Ids, Receive(t) PROVE WorkTyped'
    <3>1. CASE txn[t].status = "pending"
      BY <1>1, <2>2, <3>1, Callers DEF Receive, WorkTyped, JobPCs, Transfers, ConsumerHolds
    <3> QED
      BY <1>1, <2>2, <3>1, AckTyped DEF Receive
  <2>3. ASSUME NEW t \in Ids, LookupFails(t) PROVE WorkTyped'
    BY <1>1, <2>3, AckTyped DEF LookupFails
  <2>4. ASSUME NEW result \in {"pending", "success", "failed"}, InitiateTransfer(result)
        PROVE  WorkTyped'
    <3>1. CASE Nack
      BY <1>1, <3>1, NackTyped
    <3>2. CASE /\ job' = [job EXCEPT ![Consumer].pc = "initiated", ![Consumer].result = result]
               /\ queue' = queue
      BY <1>1, <2>4, <3>2, Callers, JobTyped DEF InitiateTransfer, JobPCs, Transfers, Outcomes
    <3> QED
      BY <2>4, <3>1, <3>2 DEF InitiateTransfer
  <2>5. CASE DuplicateReference \/ InitiateFails
    <3>1. CASE Nack
      BY <1>1, <3>1, NackTyped
    <3>2. CASE /\ job' = [job EXCEPT ![Consumer].pc = "initiated",
                                     ![Consumer].result = transfer[job[Consumer].txn]]
               /\ queue' = queue /\ job[Consumer].pc = "received"
      <4>1. transfer[job[Consumer].txn] \in Transfers
        BY <2>1 DEF TypedInv, PipelineTypeOK
      <4> QED
        BY <1>1, <3>2, <4>1, Callers, JobTyped DEF JobPCs
    <3> QED
      BY <2>5, <3>1, <3>2 DEF DuplicateReference, InitiateFails
  <2>6. CASE SaveTransferCode
    <3>1. CASE job' = [job EXCEPT ![Consumer].pc = "finalize"] /\ queue' = queue
      BY <1>1, <2>1, <2>6, <3>1, Callers DEF SaveTransferCode, WorkTyped, JobPCs, ConsumerHolds
    <3>2. CASE Ack(job[Consumer].txn)
      BY <1>1, <2>1, <2>6, <3>2, AckTyped DEF SaveTransferCode, WorkTyped, ConsumerHolds
    <3> QED
      BY <2>6, <3>1, <3>2 DEF SaveTransferCode
  <2> QED
    BY <1>4, <2>2, <2>3, <2>4, <2>5, <2>6 DEF ConsumerStep
<1>5. ASSUME NEW t \in Ids, ReconcileQuery(t) PROVE WorkTyped'
  BY <1>1, <1>5, Callers DEF ReconcileQuery, WorkTyped, JobPCs, Transfers, ConsumerHolds
<1>6. CASE VerifyTransfer
  <2>1. CASE job' = [job EXCEPT ![Reconciler] = IdleJob]
    BY <1>1, <1>6, <2>1, Callers, FreeTyped DEF VerifyTransfer
  <2>2. CASE /\ transfer[job[Reconciler].txn] \in Outcomes
             /\ job' = [job EXCEPT ![Reconciler].pc = "finalize",
                                   ![Reconciler].result = transfer[job[Reconciler].txn]]
    BY <1>1, <1>6, <2>2, Callers, JobTyped DEF VerifyTransfer, JobPCs, Transfers
  <2> QED
    BY <1>6, <2>1, <2>2 DEF VerifyTransfer
<1>7. ASSUME NEW g \in Worker, CallStep(g) PROVE WorkTyped'
  <2>1. job[g] \in [pc : JobPCs, txn : Ids, result : Transfers]
    BY <1>1 DEF WorkTyped
  <2>2. ASSUME job[g].pc # "idle", Finished(g) PROVE WorkTyped'
    <3>1. CASE g = Consumer
      BY <1>1, <2>1, <2>2, <3>1, AckTyped DEF Finished, WorkTyped, ConsumerHolds
    <3>2. CASE g # Consumer
      BY <1>1, <2>2, <3>2, FreeTyped DEF Finished
    <3> QED
      BY <3>1, <3>2
  <2>3. CASE WorkerFinalizeRead(g)
    <3>1. CASE job' = [job EXCEPT ![g].pc = "finalizing"] /\ queue' = queue
      BY <1>1, <2>1, <2>3, <3>1, Callers DEF WorkerFinalizeRead, WorkTyped, JobPCs, ConsumerHolds
    <3> QED
      BY <2>2, <2>3, <3>1 DEF WorkerFinalizeRead
  <2>4. CASE WorkerFinalizeCommit(g)
    BY <1>1, <2>1, <2>4, Callers DEF WorkerFinalizeCommit, WorkTyped, JobPCs, ConsumerHolds
  <2>5. CASE WorkerFinalizeFails(g)
    BY <2>2, <2>5 DEF WorkerFinalizeFails
  <2> QED
    BY <1>7, <2>3, <2>4, <2>5 DEF CallStep
<1>8. CASE WorkerDies
  BY <1>1, <1>8, Choices, Callers DEF WorkerDies, WorkTyped, IdleJob, JobPCs, Transfers, ConsumerHolds
<1>9. ASSUME NEW w \in Webhooks, WebhookStep(w) PROVE WorkTyped'
  BY <1>1, <1>9, SameTyped DEF WebhookStep, WebhookReceive, WebhookCommit, WebhookFails, WebhookLookupFails,
     WebhookDies
<1>10. ASSUME NEW t \in Ids, NEW result \in {"success", "failed"}, TransferEnds(t, result)
       PROVE  WorkTyped'
  BY <1>1, <1>10, SameTyped DEF TransferEnds
<1>11. ASSUME NEW t \in Ids, TransferReverses(t) PROVE WorkTyped'
  BY <1>1, <1>11, SameTyped DEF TransferReverses
<1> QED
  BY <1>2, <1>3, <1>4, <1>5, <1>6, <1>7, <1>8, <1>9, <1>10, <1>11 DEF PipelineNext

\* The provider: its transfers and the webhooks about them.
LEMMA NextProvider ==
  ASSUME TypedInv, PipelineNext
  PROVE  transfer' \in [Ids -> Transfers] /\ notice' \in [Ids -> SUBSET Outcomes]
<1> USE DEF TypedInv, PipelineTypeOK
<1>1. ASSUME NEW t \in Ids, NEW result \in {"pending", "success", "failed", "reversed"},
             SetTransfer(t, result)
      PROVE  transfer' \in [Ids -> Transfers] /\ notice' \in [Ids -> SUBSET Outcomes]
  BY <1>1 DEF SetTransfer, Transfers, Outcomes
<1>2. ASSUME NEW t \in Ids, NEW event \in Outcomes, Acknowledge(t, event)
      PROVE  notice' \in [Ids -> SUBSET Outcomes]
  BY <1>2 DEF Acknowledge
<1>3. CASE UNCHANGED <<transfer, notice>>
  BY <1>3
<1>4. ASSUME NEW result \in {"pending", "success", "failed"}, InitiateTransfer(result)
      PROVE  transfer' \in [Ids -> Transfers] /\ notice' \in [Ids -> SUBSET Outcomes]
  BY <1>1, <1>4, Callers DEF InitiateTransfer
<1>5. ASSUME NEW w \in Webhooks, WebhookStep(w)
      PROVE  transfer' \in [Ids -> Transfers] /\ notice' \in [Ids -> SUBSET Outcomes]
  <2>1. fin[w].txn \in Ids
    BY Callers DEF TypeOK, FinalizeState
  <2>2. \A event \in notice[fin[w].txn] : event \in Outcomes
    BY <2>1
  <2> QED
    BY <1>2, <1>3, <1>5, <2>1, <2>2 DEF WebhookStep, WebhookReceive, WebhookCommit,
       WebhookFails, WebhookLookupFails,
     WebhookDies, outside
<1>6. ASSUME NEW t \in Ids, TransferReverses(t) \/ \E result \in {"success", "failed"} : TransferEnds(t, result)
      PROVE  transfer' \in [Ids -> Transfers] /\ notice' \in [Ids -> SUBSET Outcomes]
  BY <1>1, <1>6 DEF TransferReverses, TransferEnds
<1> QED
  BY <1>3, <1>4, <1>5, <1>6 DEF PipelineNext, RequestStep, PublishEvent, GiveUpEvent,
     ConsumerStep, Receive, LookupFails, DuplicateReference, InitiateFails, SaveTransferCode,
     ReconcileQuery, VerifyTransfer, CallStep, WorkerFinalizeRead, WorkerFinalizeCommit,
     WorkerFinalizeFails, WorkerDies, outside

LEMMA NextRest ==
  ASSUME TypedInv, PipelineNext
  PROVE  relayed' \in SUBSET outbox' /\ saved' \in SUBSET Ids /\ faults' \in 0 .. MaxFaults
<1> USE DEF TypedInv, PipelineTypeOK
<1>1. outbox \subseteq outbox'
  BY PipelineStepIsStep DEF Next, vars, RequestCheck, RequestCommit, RequestFails,
     FinalizeRead, FinalizeCommit, FinalizeFails, DepositCommit
<1>2. relayed' = relayed \/ \E t \in outbox : relayed' = relayed \cup {t}
  BY DEF PipelineNext, RequestStep, PublishEvent, GiveUpEvent,
     ConsumerStep, Receive, LookupFails, InitiateTransfer, DuplicateReference, InitiateFails,
     SaveTransferCode, ReconcileQuery, VerifyTransfer, CallStep, WorkerFinalizeRead,
     WorkerFinalizeCommit, WorkerFinalizeFails, WorkerDies, WebhookStep, WebhookReceive,
     WebhookCommit, WebhookFails, WebhookLookupFails,
     WebhookDies, TransferEnds, TransferReverses, outside
<1>3. saved' = saved \/ \E t \in Ids : saved' = saved \cup {t}
  BY Callers DEF PipelineNext, RequestStep, PublishEvent, GiveUpEvent,
     ConsumerStep, Receive, LookupFails, InitiateTransfer, DuplicateReference, InitiateFails,
     SaveTransferCode, ReconcileQuery, VerifyTransfer, CallStep, WorkerFinalizeRead,
     WorkerFinalizeCommit, WorkerFinalizeFails, WorkerDies, WebhookStep, WebhookReceive,
     WebhookCommit, WebhookFails, WebhookLookupFails,
     WebhookDies, TransferEnds, TransferReverses, outside
<1>4. faults' = faults \/ Fault
  BY DEF PipelineNext, RequestStep, PublishEvent, GiveUpEvent,
     ConsumerStep, Receive, LookupFails, InitiateTransfer, DuplicateReference, InitiateFails,
     SaveTransferCode, ReconcileQuery, VerifyTransfer, CallStep, WorkerFinalizeRead,
     WorkerFinalizeCommit, WorkerFinalizeFails, CallFails, WorkerDies, WebhookStep,
     WebhookReceive, WebhookCommit, WebhookFails, WebhookLookupFails,
     WebhookDies, TransferEnds,
     TransferReverses, outside
<1> QED
  BY <1>1, <1>2, <1>3, <1>4, BoundsAssumption DEF Fault

LEMMA NextTypedInv == TypedInv /\ [PipelineNext]_pipelineVars => TypedInv'
<1>1. ASSUME TypedInv, PipelineNext PROVE TypedInv'
  <2>1. TypeOK'
    BY <1>1, PipelineStepIsStep, NextTyped DEF TypedInv, PipelineTypeOK
  <2> QED
    BY <1>1, <2>1, NextWork, NextProvider, NextRest DEF TypedInv, PipelineTypeOK, WorkTyped
<1>2. ASSUME TypedInv, UNCHANGED pipelineVars PROVE TypedInv'
  BY <1>2, NextTyped DEF TypedInv, PipelineTypeOK, ConsumerHolds, pipelineVars, vars, TypeOK
<1> QED
  BY <1>1, <1>2

LEMMA TypedInvariant == PipelineSpec => []TypedInv
  BY InitTypedInv, NextTypedInv, PTL DEF PipelineSpec

\* Every reachable state of the pipeline is well typed: in particular the consumer
\* never acknowledges a message twice, and an outbox event is relayed only after
\* its withdrawal is committed.
THEOREM PipelineTypeCorrect == PipelineSpec => []PipelineTypeOK
  BY TypedInvariant, PTL DEF TypedInv

\* The pipeline, with its crashes, retries and duplicates, makes the withdrawal
\* flow take no step that module Withdrawals does not have.
THEOREM PipelineIsWithdrawals == PipelineSpec => Spec
<1>1. PipelineInit => Init
  BY DEF PipelineInit
<1>2. TypedInv /\ [PipelineNext]_pipelineVars => [Next]_vars
  BY PipelineStepIsStep DEF TypedInv, pipelineVars, vars
<1> QED
  BY <1>1, <1>2, TypedInvariant, PTL DEF PipelineSpec, Spec

-----------------------------------------------------------------------------
(* The ledger agrees with the bank *)

\* The transfers that bear out a result: a failure is final, a success may come back.
BearsOut(success) == IF success THEN {"success", "reversed"} ELSE {"failed", "reversed"}

\* A worker goroutine that has heard how its transfer ended.
Heard(g) == \/ job[g].pc = "finalize"
            \/ job[g].pc = "initiated" /\ job[g].result \in Outcomes

\* Whatever anybody has been told about a transfer, and still acts upon, is true.
NoticesAgree == \A t \in Ids : \A event \in notice[t] : transfer[t] \in BearsOut(event = "success")
JobsAgree    == \A g \in Worker : Heard(g) =>
                    transfer[job[g].txn] \in BearsOut(job[g].result = "success")
CallsAgree   == \A f \in Finalizers : fin[f].pc = "read" =>
                    transfer[fin[f].txn] \in BearsOut(fin[f].success)

AgreementInv == /\ TypedInv
                /\ NoticesAgree
                /\ JobsAgree
                /\ CallsAgree
                /\ LedgerAgreesWithBank

\* A step that leaves the transfers alone.
LEMMA SameTransfers ==
  ASSUME PipelineNext
  PROVE  \/ transfer' = transfer
         \/ \E result \in {"pending", "success", "failed"} : InitiateTransfer(result)
         \/ \E t \in Ids, result \in {"success", "failed"} : TransferEnds(t, result)
         \/ \E t \in Ids : TransferReverses(t)
  BY DEF PipelineNext, RequestStep, PublishEvent, GiveUpEvent,
     ConsumerStep, Receive, LookupFails, DuplicateReference, InitiateFails,
     SaveTransferCode, ReconcileQuery, VerifyTransfer, CallStep, WorkerFinalizeRead,
     WorkerFinalizeCommit, WorkerFinalizeFails, WorkerDies, WebhookStep, WebhookReceive,
     WebhookCommit, WebhookFails, WebhookLookupFails,
     WebhookDies, outside

\* What the bank has done it never takes back, but for a reversal.
LEMMA TransferKept ==
  ASSUME TypedInv, PipelineNext, NEW t \in Ids, NEW success \in BOOLEAN,
         transfer[t] \in BearsOut(success)
  PROVE  transfer'[t] \in BearsOut(success)
<1> USE DEF TypedInv, PipelineTypeOK
<1>1. ASSUME NEW result \in {"pending", "success", "failed"}, InitiateTransfer(result)
      PROVE  transfer'[t] \in BearsOut(success)
  BY <1>1, Callers DEF InitiateTransfer, SetTransfer, BearsOut
<1>2. ASSUME NEW s \in Ids, NEW result \in {"success", "failed"}, TransferEnds(s, result)
      PROVE  transfer'[t] \in BearsOut(success)
  BY <1>2 DEF TransferEnds, SetTransfer, BearsOut
<1>3. ASSUME NEW s \in Ids, TransferReverses(s)
      PROVE  transfer'[t] \in BearsOut(success)
  BY <1>3 DEF TransferReverses, SetTransfer, BearsOut
<1> QED
  BY <1>1, <1>2, <1>3, SameTransfers

LEMMA NextNotices == ASSUME AgreementInv, PipelineNext PROVE NoticesAgree'
<1> USE DEF AgreementInv, TypedInv, PipelineTypeOK
<1>1. ASSUME notice' = notice PROVE NoticesAgree'
  BY <1>1, TransferKept DEF NoticesAgree
<1>2. ASSUME NEW t \in Ids, NEW event, Acknowledge(t, event) PROVE NoticesAgree'
  <2>1. \A s \in Ids : notice'[s] \subseteq notice[s]
    BY <1>2 DEF Acknowledge
  <2> QED
    BY <2>1, TransferKept DEF NoticesAgree
<1>3. ASSUME NEW t \in Ids, NEW result \in Transfers, SetTransfer(t, result),
             \A event \in notice[t] : result \in BearsOut(event = "success")
      PROVE  NoticesAgree'
  <2>1. /\ transfer'[t] = result
        /\ notice'[t] = notice[t] \cup ({result} \cap Outcomes)
        /\ \A s \in Ids \ {t} : transfer'[s] = transfer[s] /\ notice'[s] = notice[s]
    BY <1>3 DEF SetTransfer
  <2>2. result \in Outcomes => result \in BearsOut(result = "success")
    BY DEF Outcomes, BearsOut
  <2> QED
    BY <1>3, <2>1, <2>2 DEF NoticesAgree
<1>4. ASSUME NEW result \in {"pending", "success", "failed"}, InitiateTransfer(result)
      PROVE  NoticesAgree'
  <2>1. PICK t \in Ids : t = job[Consumer].txn
    BY Callers
  <2>2. notice[t] = {}
    BY <1>4, <2>1 DEF InitiateTransfer, NoticesAgree, BearsOut
  <2> QED
    BY <1>3, <1>4, <2>1, <2>2 DEF InitiateTransfer, Transfers, Outcomes
<1>5. ASSUME NEW t \in Ids, NEW result \in {"success", "failed"}, TransferEnds(t, result)
      PROVE  NoticesAgree'
  <2>1. notice[t] = {}
    BY <1>5 DEF TransferEnds, NoticesAgree, BearsOut
  <2> QED
    BY <1>3, <1>5, <2>1 DEF TransferEnds, Transfers, Outcomes
<1>6. ASSUME NEW t \in Ids, TransferReverses(t) PROVE NoticesAgree'
  <2>1. \A event \in notice[t] : "reversed" \in BearsOut(event = "success")
    BY DEF BearsOut
  <2> QED
    BY <1>3, <1>6, <2>1 DEF TransferReverses, Transfers, Outcomes
<1>7. ASSUME NEW w \in Webhooks, WebhookStep(w) PROVE NoticesAgree'
  <2>1. fin[w].txn \in Ids
    BY Callers DEF TypeOK, FinalizeState
  <2> QED
    BY <1>1, <1>2, <1>7, <2>1 DEF WebhookStep, WebhookReceive, WebhookCommit, WebhookFails,
       WebhookLookupFails,
     WebhookDies, outside
<1> QED
  BY <1>1, <1>4, <1>5, <1>6, <1>7 DEF PipelineNext, RequestStep, PublishEvent, GiveUpEvent,
     ConsumerStep, Receive, LookupFails, DuplicateReference, InitiateFails, SaveTransferCode,
     ReconcileQuery, VerifyTransfer, CallStep, WorkerFinalizeRead, WorkerFinalizeCommit,
     WorkerFinalizeFails, WorkerDies, outside

LEMMA NextJobs == ASSUME AgreementInv, PipelineNext PROVE JobsAgree'
<1> SUFFICES ASSUME NEW g \in Worker, Heard(g)'
             PROVE  transfer'[job'[g].txn] \in BearsOut(job'[g].result = "success")
  BY DEF JobsAgree
<1> USE DEF AgreementInv, TypedInv, PipelineTypeOK
<1> DEFINE Goal == transfer'[job'[g].txn] \in BearsOut(job'[g].result = "success")
<1>0. g = Consumer \/ g = Reconciler
  BY DEF Worker
<1>1. ASSUME job'[g].txn = job[g].txn, job'[g].result = job[g].result, Heard(g)
      PROVE  Goal
  <2>1. (job[g].result = "success") \in BOOLEAN /\ job[g].txn \in Ids
    OBVIOUS
  <2> QED
    BY <1>1, <2>1, TransferKept DEF JobsAgree
<1>2. ASSUME job'[g] = IdleJob PROVE Goal
  BY <1>2 DEF Heard, IdleJob
<1>3. ASSUME job' = job PROVE Goal
  BY <1>1, <1>3 DEF Heard
<1>4. ASSUME NEW h \in Worker, \A k \in Worker \ {h} : job'[k] = job[k], g # h PROVE Goal
  BY <1>1, <1>4 DEF Heard
<1>5. CASE ConsumerStep
  <2>1. \A k \in Worker \ {Consumer} : job'[k] = job[k]
    BY <1>5 DEF ConsumerStep, Receive, LookupFails, InitiateTransfer, DuplicateReference,
       InitiateFails, SaveTransferCode, Ack, Nack
  <2> SUFFICES ASSUME g = Consumer PROVE Goal
    BY <1>4, <2>1, Callers
  <2>2. ASSUME NEW t \in Ids, Receive(t) \/ LookupFails(t) PROVE Goal
    BY <1>2, <1>3, <2>2 DEF Receive, LookupFails, Ack, Heard
  <2>3. ASSUME NEW result \in {"pending", "success", "failed"}, InitiateTransfer(result)
        PROVE  Goal
    <3>1. CASE Nack
      BY <1>2, <3>1 DEF Nack
    <3>2. CASE job' = [job EXCEPT ![Consumer].pc = "initiated", ![Consumer].result = result]
      <4>1. transfer'[job'[g].txn] = result /\ job'[g].result = result /\ job'[g].pc = "initiated"
        BY <2>3, <3>2 DEF InitiateTransfer, SetTransfer
      <4> QED
        BY <4>1 DEF Heard, Outcomes, BearsOut
    <3> QED
      BY <2>3, <3>1, <3>2 DEF InitiateTransfer
  <2>4. CASE DuplicateReference \/ InitiateFails
    <3>1. CASE Nack
      BY <1>2, <3>1 DEF Nack
    <3>2. CASE /\ job' = [job EXCEPT ![Consumer].pc = "initiated",
                                     ![Consumer].result = transfer[job[Consumer].txn]]
               /\ transfer' = transfer
      <4>1. /\ transfer'[job'[g].txn] = job'[g].result /\ job'[g].pc = "initiated"
        BY <3>2
      <4> QED
        BY <4>1 DEF Heard, Outcomes, BearsOut
    <3> QED
      BY <2>4, <3>1, <3>2 DEF DuplicateReference, InitiateFails
  <2>5. CASE SaveTransferCode
    BY <1>1, <1>2, <2>5 DEF SaveTransferCode, Ack, Heard, Outcomes
  <2> QED
    BY <1>5, <2>2, <2>3, <2>4, <2>5 DEF ConsumerStep
<1>6. ASSUME NEW t \in Ids, ReconcileQuery(t) PROVE Goal
  BY <1>0, <1>4, <1>6, Callers DEF ReconcileQuery, Heard
<1>7. CASE VerifyTransfer
  <2>1. CASE job' = [job EXCEPT ![Reconciler] = IdleJob]
    BY <1>0, <1>2, <1>4, <2>1, Callers
  <2>2. CASE /\ transfer[job[Reconciler].txn] \in Outcomes
             /\ job' = [job EXCEPT ![Reconciler].pc = "finalize",
                                   ![Reconciler].result = transfer[job[Reconciler].txn]]
    <3>1. CASE g = Reconciler
      <4>1. transfer' = transfer
        BY <1>7 DEF VerifyTransfer
      <4> QED
        BY <2>2, <3>1, <4>1 DEF Outcomes, BearsOut
    <3> QED
      BY <1>0, <1>4, <2>2, <3>1, Callers
  <2> QED
    BY <1>7, <2>1, <2>2 DEF VerifyTransfer
<1>8. ASSUME NEW h \in Worker, CallStep(h) PROVE Goal
  <2>1. \A k \in Worker \ {h} : job'[k] = job[k]
    BY <1>8 DEF CallStep, WorkerFinalizeRead, WorkerFinalizeCommit, WorkerFinalizeFails,
       Finished, Ack
  <2>2. job'[h] = IdleJob \/ job'[h].pc \in {"finalizing", "dying"}
    BY <1>8 DEF CallStep, WorkerFinalizeRead, WorkerFinalizeCommit, WorkerFinalizeFails,
       Finished, Ack
  <2> QED
    BY <1>2, <1>4, <2>1, <2>2 DEF Heard
<1>9. CASE WorkerDies
  BY <1>2, <1>9 DEF WorkerDies
<1> QED
  BY <1>3, <1>5, <1>6, <1>7, <1>8, <1>9 DEF PipelineNext, RequestStep, PublishEvent,
     GiveUpEvent, WebhookStep, WebhookReceive, WebhookCommit, WebhookFails, WebhookLookupFails,
     WebhookDies,
     TransferEnds, TransferReverses

\* A call of FinalizeWithdrawal begins only with a result that the bank bears out.
LEMMA ReadBornOut ==
  ASSUME AgreementInv, PipelineNext, NEW f \in Finalizers, fin'[f] # fin[f], fin'[f].pc = "read"
  PROVE  transfer'[fin'[f].txn] \in BearsOut(fin'[f].success)
<1> USE DEF AgreementInv, TypedInv, PipelineTypeOK
<1>1. ASSUME NEW h \in Finalizers, NEW t \in Ids, NEW success \in BOOLEAN,
             FinalizeRead(h, t, success), transfer[t] \in BearsOut(success)
      PROVE  transfer'[fin'[f].txn] \in BearsOut(fin'[f].success)
  <2>1. f = h /\ fin'[f].txn = t /\ fin'[f].success = success
    BY <1>1 DEF FinalizeRead, TypeOK
  <2> QED
    BY <1>1, <2>1, TransferKept
<1>2. ASSUME NEW h \in Finalizers, FinalizeCommit(h) PROVE FALSE
  BY <1>2 DEF FinalizeCommit, IdleFinalizer, TypeOK
<1>3. ASSUME NEW F, FinalizeFails(F) PROVE FALSE
  BY <1>3 DEF FinalizeFails, IdleFinalizer
<1>4. ASSUME NEW g \in Worker, CallStep(g)
      PROVE  transfer'[fin'[f].txn] \in BearsOut(fin'[f].success)
  <2>1. CASE FinalizeRead(g, job[g].txn, job[g].result = "success") /\ WorkerFinalizeRead(g)
    <3>1. transfer[job[g].txn] \in BearsOut(job[g].result = "success")
      BY <2>1 DEF WorkerFinalizeRead, JobsAgree, Heard
    <3>2. job[g].txn \in Ids /\ (job[g].result = "success") \in BOOLEAN
      OBVIOUS
    <3> QED
      BY <1>1, <2>1, <3>1, <3>2, Callers
  <2> QED
    BY <1>2, <1>3, <1>4, <2>1, Callers DEF CallStep, WorkerFinalizeRead,
       WorkerFinalizeCommit, WorkerFinalizeFails, CallFails, vars
<1>5. ASSUME NEW w \in Webhooks, WebhookStep(w)
      PROVE  transfer'[fin'[f].txn] \in BearsOut(fin'[f].success)
  <2>1. ASSUME NEW t \in Ids, NEW event \in notice[t], FinalizeRead(w, t, event = "success")
        PROVE  transfer'[fin'[f].txn] \in BearsOut(fin'[f].success)
    <3>1. transfer[t] \in BearsOut(event = "success") /\ (event = "success") \in BOOLEAN
      BY DEF NoticesAgree
    <3> QED
      BY <1>1, <2>1, <3>1, Callers
  <2> QED
    BY <1>2, <1>3, <1>5, <2>1, Callers DEF WebhookStep, WebhookReceive, WebhookCommit,
       WebhookFails, WebhookLookupFails,
     WebhookDies, CallFails, vars
<1>6. CASE WorkerDies
  BY <1>3, <1>6 DEF WorkerDies, vars
<1> QED
  BY <1>4, <1>5, <1>6 DEF PipelineNext, RequestStep, RequestCheck, RequestCommit,
     RequestFails, DepositCommit, PublishEvent, GiveUpEvent, ConsumerStep, Receive,
     LookupFails, InitiateTransfer, DuplicateReference, InitiateFails, SaveTransferCode,
     ReconcileQuery, VerifyTransfer, TransferEnds, TransferReverses, vars

LEMMA NextCalls == ASSUME AgreementInv, PipelineNext PROVE CallsAgree'
<1> SUFFICES ASSUME NEW f \in Finalizers, fin'[f].pc = "read"
             PROVE  transfer'[fin'[f].txn] \in BearsOut(fin'[f].success)
  BY DEF CallsAgree
<1>1. CASE fin'[f] = fin[f]
  <2>1. fin[f].txn \in Ids /\ fin[f].success \in BOOLEAN
    BY DEF AgreementInv, TypedInv, PipelineTypeOK, TypeOK, FinalizeState
  <2> QED
    BY <1>1, <2>1, TransferKept DEF AgreementInv, CallsAgree
<1> QED
  BY <1>1, ReadBornOut

\* How a step may change a withdrawal: it is created pending, or a finalizer that
\* has read it settles it the way it was told.
LEMMA StatusSteps ==
  ASSUME TypedInv, PipelineNext, NEW t \in Ids
  PROVE  \/ txn'[t] = txn[t]
         \/ txn[t].status = "none" /\ txn'[t].status = "pending"
         \/ \E f \in Finalizers : /\ fin[f].pc = "read" /\ fin[f].txn = t
                                  /\ txn'[t].status = FinalStatus(fin[f].success)
<1> USE DEF TypedInv, PipelineTypeOK, TypeOK
<1>1. ASSUME NEW r \in Requesters, NEW s \in Ids, RequestCommit(r, s)
      PROVE  \/ txn'[t] = txn[t]
             \/ txn[t].status = "none" /\ txn'[t].status = "pending"
  BY <1>1 DEF RequestCommit
<1>2. ASSUME NEW f \in Finalizers, FinalizeCommit(f)
      PROVE  \/ txn'[t] = txn[t]
             \/ /\ fin[f].pc = "read" /\ fin[f].txn = t
                /\ txn'[t].status = FinalStatus(fin[f].success)
  BY <1>2 DEF FinalizeCommit, Rows
<1> QED
  BY <1>1, <1>2, PipelineStepIsStep DEF Next, vars, RequestCheck, RequestFails,
     FinalizeRead, FinalizeFails, DepositCommit

LEMMA NextLedger == ASSUME AgreementInv, PipelineNext PROVE LedgerAgreesWithBank'
<1> SUFFICES ASSUME NEW t \in Ids, NEW success \in BOOLEAN,
                    txn'[t].status = FinalStatus(success)
             PROVE  transfer'[t] \in BearsOut(success)
  BY DEF LedgerAgreesWithBank, FinalStatus, BearsOut
<1> USE DEF AgreementInv
<1>1. CASE txn'[t] = txn[t]
  <2>1. transfer[t] \in BearsOut(success)
    BY <1>1 DEF LedgerAgreesWithBank, FinalStatus, BearsOut
  <2> QED
    BY <2>1, TransferKept
<1>2. ASSUME NEW f \in Finalizers, fin[f].pc = "read", fin[f].txn = t,
             txn'[t].status = FinalStatus(fin[f].success)
      PROVE  transfer'[t] \in BearsOut(success)
  <2>1. fin[f].success = success
    <3>1. fin[f].success \in BOOLEAN
      BY DEF TypedInv, PipelineTypeOK, TypeOK, FinalizeState
    <3> QED
      BY <1>2, <3>1 DEF FinalStatus
  <2>2. transfer[t] \in BearsOut(success)
    BY <1>2, <2>1 DEF CallsAgree
  <2> QED
    BY <2>2, TransferKept
<1> QED
  BY <1>1, <1>2, StatusSteps DEF FinalStatus

LEMMA InitAgreement == PipelineInit => AgreementInv
<1> SUFFICES ASSUME PipelineInit PROVE AgreementInv
  OBVIOUS
<1>1. \A t \in Ids : txn[t].status = "none" /\ notice[t] = {}
  BY DEF PipelineInit, Init, NoRow
<1>2. (\A g \in Worker : job[g].pc = "idle") /\ (\A f \in Finalizers : fin[f].pc = "idle")
  BY DEF PipelineInit, Init, IdleJob, IdleFinalizer
<1> QED
  BY <1>1, <1>2, InitTypedInv DEF AgreementInv, NoticesAgree, JobsAgree, CallsAgree,
     Heard, LedgerAgreesWithBank

LEMMA NextAgreement == AgreementInv /\ [PipelineNext]_pipelineVars => AgreementInv'
<1>1. ASSUME AgreementInv, PipelineNext PROVE AgreementInv'
  BY <1>1, NextTypedInv, NextNotices, NextJobs, NextCalls, NextLedger DEF AgreementInv
<1>2. ASSUME AgreementInv, UNCHANGED pipelineVars PROVE AgreementInv'
  BY <1>2, NextTypedInv DEF AgreementInv, NoticesAgree, JobsAgree, CallsAgree, Heard,
     LedgerAgreesWithBank, pipelineVars, vars
<1> QED
  BY <1>1, <1>2

LEMMA AgreementInvariant == PipelineSpec => []AgreementInv
  BY InitAgreement, NextAgreement, PTL DEF PipelineSpec

\* Whatever is lost, duplicated, retried or raced, with or without coordination of
\* the callers of FinalizeWithdrawal, the ledger never contradicts the bank.
THEOREM LedgerAgreesCorrect == PipelineSpec => []LedgerAgreesWithBank
  BY AgreementInvariant, PTL DEF AgreementInv

-----------------------------------------------------------------------------
(* What holds of the withdrawal flow holds of the pipeline *)

\* The consumer handles only withdrawals that exist, and a row is never deleted.
ReceivedExists == job[Consumer].pc = "received" => txn[job[Consumer].txn].status # "none"

LEMMA ReceivedExistsInvariant == PipelineSpec => []ReceivedExists
<1>1. PipelineInit => ReceivedExists
  BY Callers DEF PipelineInit, ReceivedExists, IdleJob
<1>2. ASSUME TypedInv, ReceivedExists, PipelineNext PROVE ReceivedExists'
  <2> USE DEF TypedInv, PipelineTypeOK
  <2>1. job[Consumer].txn \in Ids
    BY <1>2, Callers
  <2>2. \A t \in Ids : txn[t].status # "none" => txn'[t].status # "none"
    BY <1>2, StatusSteps DEF FinalStatus
  <2>3. CASE job'[Consumer] = job[Consumer]
    BY <1>2, <2>1, <2>2, <2>3 DEF ReceivedExists
  <2>4. CASE job'[Consumer].pc # "received"
    BY <2>4 DEF ReceivedExists
  <2>5. CASE ConsumerStep
    <3>1. ASSUME NEW t \in Ids, Receive(t), txn[t].status = "pending" PROVE ReceivedExists'
      BY <1>2, <2>2, <3>1, Callers DEF Receive, ReceivedExists
    <3> QED
      BY <1>2, <2>4, <2>5, <3>1, Callers DEF ConsumerStep, Receive, LookupFails,
         InitiateTransfer, DuplicateReference, InitiateFails, SaveTransferCode, Ack, Nack,
         IdleJob
  <2>6. CASE (\E t \in Ids : ReconcileQuery(t)) \/ VerifyTransfer
    BY <1>2, <2>3, <2>6, Callers DEF ReconcileQuery, VerifyTransfer
  <2>7. ASSUME NEW g \in Worker, CallStep(g) PROVE ReceivedExists'
    <3>1. CASE g = Consumer
      BY <1>2, <2>4, <2>7, <3>1, Callers DEF CallStep, WorkerFinalizeRead,
         WorkerFinalizeCommit, WorkerFinalizeFails, Finished, Ack, IdleJob
    <3>2. CASE g # Consumer
      BY <1>2, <2>3, <2>7, <3>2, Callers DEF CallStep, WorkerFinalizeRead,
         WorkerFinalizeCommit, WorkerFinalizeFails, Finished
    <3> QED
      BY <3>1, <3>2
  <2>8. CASE WorkerDies
    BY <2>4, <2>8, Callers DEF WorkerDies, IdleJob
  <2> QED
    BY <1>2, <2>3, <2>5, <2>6, <2>7, <2>8 DEF PipelineNext, RequestStep, PublishEvent,
       GiveUpEvent, WebhookStep, WebhookReceive, WebhookCommit, WebhookFails, WebhookLookupFails,
     WebhookDies,
       TransferEnds, TransferReverses, outside
<1>3. ReceivedExists /\ UNCHANGED pipelineVars => ReceivedExists'
  BY DEF ReceivedExists, pipelineVars, vars
<1> QED
  BY <1>1, <1>2, <1>3, TypedInvariant, PTL DEF PipelineSpec

\* The worker asks the bank only to pay a withdrawal that is pending, also when it
\* handles an old message of one that has long been settled, and the money is then
\* reserved unless calls for a withdrawal of the same user have overlapped.
THEOREM TransferIsReservedCorrect == PipelineSpec => TransferIsReserved
<1> DEFINE Reserved == \A t \in Ids : (transfer[t] = "none" /\ transfer'[t] # "none") =>
                           /\ txn[t].status = "pending"
                           /\ Undisturbed(txn[t].user) =>
                                wallet[txn[t].user].locked >= txn[t].amount
<1>1. ASSUME AgreementInv, SettleInv, ReceivedExists, PipelineNext PROVE Reserved
  <2> SUFFICES ASSUME NEW t \in Ids, transfer[t] = "none", transfer'[t] # "none"
               PROVE  /\ txn[t].status = "pending"
                      /\ Undisturbed(txn[t].user) =>
                           wallet[txn[t].user].locked >= txn[t].amount
    OBVIOUS
  <2> USE DEF AgreementInv, TypedInv, PipelineTypeOK
  <2>1. PICK result \in {"pending", "success", "failed"} : InitiateTransfer(result)
    BY <1>1, SameTransfers DEF TransferEnds, TransferReverses, SetTransfer
  <2>2. job[Consumer].pc = "received" /\ job[Consumer].txn = t
    BY <1>1, <2>1 DEF InitiateTransfer, SetTransfer
  <2>3. txn[t] \in Rows
    BY <1>1 DEF TypeOK
  <2>4. txn[t].status = "pending"
    BY <1>1, <2>2, <2>3 DEF ReceivedExists, LedgerAgreesWithBank, Rows, Statuses
  <2>5. t \in PendingOf(txn[t].user) /\ txn[t].user \in Users /\ txn[t].amount \in Nat
    BY <2>3, <2>4 DEF PendingOf, Rows
  <2> QED
    BY <1>1, <2>4, <2>5 DEF SettleInv, LockedIsPending
<1>2. AgreementInv /\ SettleInv /\ ReceivedExists /\ [PipelineNext]_pipelineVars
        => [Reserved]_pipelineVars
  BY <1>1
<1> QED
  BY <1>2, AgreementInvariant, ReceivedExistsInvariant, PipelineIsWithdrawals, SettleInvariant,
     PTL DEF PipelineSpec, TransferIsReserved

\* The pipeline as a whole implements the account contract, with the same exception:
\* its crashes, retries and duplicates add nothing to what can break it.
THEOREM PipelineImplementsContract == PipelineSpec => ContractSpec
  BY PipelineIsWithdrawals, ContractImplemented, PTL
=============================================================================
