-------------------------- MODULE InvestmentsProofs --------------------------
(***************************************************************************)
(* Proofs about Investments, for any users, properties, keys and requests, *)
(* in whichever of its ways a debit is made.                               *)
(***************************************************************************)
EXTENDS Investments, FiniteSetTheorems, TLAPS

-----------------------------------------------------------------------------
(* The invariant *)

RowsOK == /\ wallet \in [Users -> WalletRow]
          /\ \A u \in Users : RowAllowed(wallet[u])
          /\ ledger \in [Users -> [Properties -> Nat]]
          /\ sold \in [Properties -> 0 .. Units]
          /\ investors \in [Properties -> Nat]
          /\ holds \in [Users -> [Properties -> Nat]]
          /\ made \in [Users -> [Keys \cup {NoKey} -> Nat]]
          /\ lost \in [Users -> 0 .. MaxLost]

LocksOK == /\ propertyLock \in [Properties -> Requests \cup {NoRequest}]
           /\ walletLock \in [Users -> Requests \cup {NoRequest}]
           /\ req \in [Requests -> RequestState]

\* What a request has checked stays true for as long as it holds the lock: nobody
\* else sells slots of its property or moves the money of its user.
HoldsBoth(r) == /\ propertyLock[req[r].property] = r
            /\ walletLock[req[r].user] = r
            /\ req[r].row = wallet[req[r].user]
            /\ Available(r) /\ CanInvest(r)

\* The transaction is gone, and the debit goes on without it.
Adrift(r) == propertyLock[req[r].property] # r /\ lost[req[r].user] > 0

Checked(r) ==
    /\ req[r].pc = "propertyLocked" => propertyLock[req[r].property] = r /\ Available(r)
    /\ req[r].pc = "walletLocked" => HoldsBoth(r) \/ Adrift(r)
    /\ req[r].pc = "debited" => "inside" \in DebitWays /\ HoldsBoth(r)
    /\ req[r].pc \in {"inserted", "saved"} => Adrift(r)

LockInv == TypeOK /\ \A r \in Requests : Checked(r)

LEMMA TypeParts == /\ TypeOK <=> RowsOK /\ LocksOK
                   /\ TypeOK' <=> RowsOK' /\ LocksOK'
  BY DEF TypeOK, RowsOK, LocksOK

LEMMA IdleTyped == IdleRequest \in RequestState
  BY SomeAssumption DEF IdleRequest, RequestState, RequestPCs, EmptyWallet, WalletRow

LEMMA Moved ==
  ASSUME LocksOK, NEW r \in Requests, NEW pc \in RequestPCs, GoTo(r, pc)
  PROVE  /\ req' \in [Requests -> RequestState]
         /\ req'[r] = [req[r] EXCEPT !.pc = pc]
         /\ \A s \in Requests \ {r} : req'[s] = req[s]
  BY DEF GoTo, LocksOK, RequestState

LEMMA Answering ==
  ASSUME LocksOK, NEW r \in Requests, Answer(r)
  PROVE  /\ req' \in [Requests -> RequestState]
         /\ req'[r].pc = "idle"
         /\ \A s \in Requests \ {r} : req'[s] = req[s]
<1>1. IdleRequest.pc = "idle"
  BY DEF IdleRequest
<1> QED
  BY <1>1, IdleTyped DEF Answer, LocksOK

\* Unlocking frees the locks of the request and no others.
LEMMA Unlocked ==
  ASSUME LocksOK, NEW r \in Requests, Unlock(r)
  PROVE  /\ propertyLock' \in [Properties -> Requests \cup {NoRequest}]
         /\ walletLock' \in [Users -> Requests \cup {NoRequest}]
         /\ \A s \in Requests \ {r} :
              /\ \A p \in Properties : propertyLock[p] = s <=> propertyLock'[p] = s
              /\ \A u \in Users : walletLock[u] = s => walletLock'[u] = s
         /\ \A p \in Properties : propertyLock'[p] # r
  BY NamesAssumption DEF LocksOK, Unlock, Held

\* A request whose locks, slots and money nobody touches keeps what it has checked.
LEMMA Untouched ==
  ASSUME TypeOK, NEW s \in Requests, Checked(s), req'[s] = req[s],
         \A p \in Properties : /\ propertyLock[p] = s <=> propertyLock'[p] = s
                               /\ propertyLock[p] = s => sold'[p] = sold[p],
         \A u \in Users : walletLock[u] = s => walletLock'[u] = s /\ wallet'[u] = wallet[u],
         \A u \in Users : lost[u] > 0 => lost'[u] > 0
  PROVE  Checked(s)'
<1>1. req[s].property \in Properties /\ req[s].user \in Users
  BY DEF TypeOK, RequestState
<1>2. HoldsBoth(s) => HoldsBoth(s)'
  BY <1>1 DEF HoldsBoth, Available, CanInvest, Amount
<1>3. Adrift(s) => Adrift(s)'
  BY <1>1 DEF Adrift
<1>4. propertyLock[req[s].property] = s /\ Available(s)
        => (propertyLock[req[s].property] = s /\ Available(s))'
  BY <1>1 DEF Available, Amount
<1> QED
  BY <1>2, <1>3, <1>4 DEF Checked

\* A request that ends without having written anything.
LEMMA RolledBack ==
  ASSUME LockInv, NEW r \in Requests, Rollback(r)
  PROVE  LockInv'
<1>1. RowsOK /\ LocksOK
  BY TypeParts DEF LockInv
<1>2. RowsOK'
  BY <1>1 DEF Rollback, tables, RowsOK
<1>3. LocksOK'
  BY <1>1, Answering, Unlocked DEF Rollback, LocksOK
<1>4. ASSUME NEW s \in Requests PROVE Checked(s)'
  <2>1. CASE s = r
    BY <1>1, <2>1, Answering DEF Rollback, Checked
  <2>2. CASE s # r
    <3>1. UNCHANGED <<tables, lost>> /\ Unlock(r) /\ Answer(r)
      BY DEF Rollback
    <3>2. req'[s] = req[s]
      BY <1>1, <2>2, <3>1, Answering
    <3>3. /\ \A p \in Properties : propertyLock[p] = s <=> propertyLock'[p] = s
          /\ \A u \in Users : walletLock[u] = s => walletLock'[u] = s
      BY <1>1, <2>2, <3>1, Unlocked
    <3>4. sold' = sold /\ wallet' = wallet /\ lost' = lost
      BY <3>1 DEF tables
    <3> QED
      BY <3>2, <3>3, <3>4, Untouched DEF LockInv
  <2> QED
    BY <2>1, <2>2
<1> QED
  BY <1>2, <1>3, <1>4, TypeParts DEF LockInv

\* A request that goes on, with its own locks changed at most.
LEMMA WentOn ==
  ASSUME LockInv, NEW r \in Requests, req' \in [Requests -> RequestState],
         \A s \in Requests \ {r} : req'[s] = req[s],
         RowsOK', sold' = sold,
         \A u \in Users : lost[u] > 0 => lost'[u] > 0,
         propertyLock' \in [Properties -> Requests \cup {NoRequest}],
         walletLock' \in [Users -> Requests \cup {NoRequest}],
         \A s \in Requests \ {r} :
            /\ \A p \in Properties : propertyLock[p] = s <=> propertyLock'[p] = s
            /\ \A u \in Users : walletLock[u] = s => walletLock'[u] = s /\ wallet'[u] = wallet[u],
         Checked(r)'
  PROVE  LockInv'
<1>1. LocksOK'
  BY DEF LocksOK
<1>2. ASSUME NEW s \in Requests \ {r} PROVE Checked(s)'
  BY Untouched DEF LockInv
<1> QED
  BY <1>1, <1>2, TypeParts DEF LockInv

LEMMA AmountTyped ==
  ASSUME LocksOK, NEW r \in Requests
  PROVE  /\ req[r].slots \in Nat \ {0}
         /\ req[r].user \in Users
         /\ req[r].property \in Properties
         /\ req[r].key \in Keys \cup {NoKey}
         /\ Amount(r) \in Nat
<1>1. req[r] \in RequestState
  BY DEF LocksOK
<1>2. req[r].slots \in Nat \ {0}
  BY <1>1, AmountsAssumption DEF RequestState
<1>3. Price \in Nat
  BY AmountsAssumption
<1>4. Amount(r) \in Nat
  BY <1>2, <1>3 DEF Amount
<1> QED
  BY <1>1, <1>2, <1>4 DEF RequestState

LEMMA DebitedTyped ==
  ASSUME LocksOK, NEW r \in Requests
  PROVE  Debited(r) \in WalletRow
<1>1. req[r].row \in WalletRow /\ Amount(r) \in Nat
  BY AmountTyped DEF LocksOK, RequestState
<1> QED
  BY <1>1 DEF Debited, WalletRow

-----------------------------------------------------------------------------
(* What a commit does *)

\* A debit that is made inside the transaction is that of the row as it is, and none is
\* made on another connection while the transaction is there.
LEMMA CommitInside ==
  ASSUME LockInv, NEW r \in Requests, Commit(r)
  PROVE  /\ At(r, "debited") /\ HoldsBoth(r) /\ "inside" \in DebitWays
         /\ Debited(r) = [wallet[req[r].user] EXCEPT !.main = @ - Amount(r)]
<1>1. At(r, "debited")
  BY DEF Commit, At, Alive, LockInv, Checked, Adrift
<1> QED
  BY <1>1 DEF At, LockInv, Checked, HoldsBoth, Debited

\* The row that a commit writes is allowed, for the available balance covers it, and
\* no more slots are sold than there are.
LEMMA CommitRows ==
  ASSUME LockInv, NEW r \in Requests, Commit(r)
  PROVE  /\ RowsOK'
         /\ sold' = [sold EXCEPT ![req[r].property] = @ + req[r].slots]
         /\ wallet' = [wallet EXCEPT ![req[r].user].main = @ - Amount(r)]
         /\ ledger' = [ledger EXCEPT ![req[r].user][req[r].property] = @ + Amount(r)]
<1> DEFINE u == req[r].user
           p == req[r].property
           n == req[r].slots
           row == [wallet[u] EXCEPT !.main = @ - Amount(r)]
<1>1. /\ RowsOK /\ LocksOK
      /\ u \in Users /\ p \in Properties /\ n \in Nat
      /\ req[r].key \in Keys \cup {NoKey}
      /\ Amount(r) \in Nat
  BY TypeParts, AmountTyped DEF LockInv
<1>2. /\ wallet' = [wallet EXCEPT ![u] = row]
      /\ RowAllowed(row)
      /\ ledger' = [ledger EXCEPT ![u][p] = @ + Amount(r)]
      /\ sold' = [sold EXCEPT ![p] = @ + n]
      /\ investors' = [investors EXCEPT ![p] = @ + NewInvestor(u, p)]
      /\ holds' = [holds EXCEPT ![u][p] = @ + n]
      /\ made' = [made EXCEPT ![u][req[r].key] = @ + 1]
      /\ lost' = lost
  BY CommitInside DEF Commit
<1>3. row \in WalletRow
  <2>1. wallet[u] \in WalletRow
    BY <1>1 DEF RowsOK
  <2>2. wallet[u].main - Amount(r) \in Int
    BY <1>1, <2>1 DEF WalletRow
  <2> QED
    BY <2>1, <2>2 DEF WalletRow
<1>4. wallet' \in [Users -> WalletRow] /\ \A v \in Users : RowAllowed(wallet'[v])
  BY <1>1, <1>2, <1>3 DEF RowsOK
<1>5. ledger' \in [Users -> [Properties -> Nat]] /\ holds' \in [Users -> [Properties -> Nat]]
  BY <1>1, <1>2 DEF RowsOK
<1>6. sold' \in [Properties -> 0 .. Units]
  <2>1. n <= Units - sold[p]
    BY CommitInside DEF HoldsBoth, Available
  <2>2. sold[p] \in 0 .. Units /\ Units \in Nat
    BY <1>1, AmountsAssumption DEF RowsOK
  <2>3. sold[p] + n \in 0 .. Units
    BY <1>1, <2>1, <2>2
  <2> QED
    BY <1>1, <1>2, <2>3 DEF RowsOK
<1>7. investors' \in [Properties -> Nat]
  <2>1. NewInvestor(u, p) \in Nat
    BY DEF NewInvestor
  <2> QED
    BY <1>1, <1>2, <2>1 DEF RowsOK
<1>8. made' \in [Users -> [Keys \cup {NoKey} -> Nat]]
  <2>1. made[u] \in [Keys \cup {NoKey} -> Nat]
    BY <1>1 DEF RowsOK
  <2>2. [made[u] EXCEPT ![req[r].key] = @ + 1] \in [Keys \cup {NoKey} -> Nat]
    BY <1>1, <2>1
  <2>3. made' = [made EXCEPT ![u] = [made[u] EXCEPT ![req[r].key] = @ + 1]]
    BY <1>1, <1>2
  <2> QED
    BY <1>1, <2>2, <2>3 DEF RowsOK
<1>9. lost' \in [Users -> 0 .. MaxLost]
  BY <1>1, <1>2 DEF RowsOK
<1> QED
  BY <1>2, <1>4, <1>5, <1>6, <1>7, <1>8, <1>9 DEF RowsOK

LEMMA Committed ==
  ASSUME LockInv, NEW r \in Requests, Commit(r)
  PROVE  LockInv'
<1>1. RowsOK /\ LocksOK
  BY TypeParts DEF LockInv
<1>2. Unlock(r) /\ Answer(r)
  BY DEF Commit
<1>3. LocksOK'
  BY <1>1, <1>2, Answering, Unlocked DEF LocksOK
<1>4. ASSUME NEW s \in Requests PROVE Checked(s)'
  <2>1. CASE s = r
    BY <1>1, <1>2, <2>1, Answering DEF Checked
  <2>2. CASE s # r
    <3>1. req'[s] = req[s]
      BY <1>1, <1>2, <2>2, Answering
    <3>2. /\ \A p \in Properties : propertyLock[p] = s <=> propertyLock'[p] = s
          /\ \A u \in Users : walletLock[u] = s => walletLock'[u] = s
      BY <1>1, <1>2, <2>2, Unlocked
    <3>3. propertyLock[req[r].property] = r /\ walletLock[req[r].user] = r
      BY CommitInside DEF HoldsBoth
    <3>4. /\ \A p \in Properties : propertyLock[p] = s => sold'[p] = sold[p]
          /\ \A u \in Users : walletLock[u] = s => wallet'[u] = wallet[u]
      <4>1. /\ \A p \in Properties : p # req[r].property => sold'[p] = sold[p]
            /\ \A u \in Users : u # req[r].user => wallet'[u] = wallet[u]
        <5>1. /\ sold' = [sold EXCEPT ![req[r].property] = @ + req[r].slots]
              /\ wallet' = [wallet EXCEPT ![req[r].user].main = @ - Amount(r)]
          BY CommitRows
        <5> QED
          BY <1>1, <5>1 DEF RowsOK
      <4> QED
        BY <2>2, <3>3, <4>1
    <3>5. lost' = lost
      BY DEF Commit
    <3> QED
      BY <3>1, <3>2, <3>4, <3>5, Untouched DEF LockInv
  <2> QED
    BY <2>1, <2>2
<1> QED
  BY <1>3, <1>4, CommitRows, TypeParts DEF LockInv

\* Deposits and withdrawals touch wallets that no investment has locked.
LEMMA OthersMoved ==
  ASSUME LockInv, NEW u \in Users, NEW row \in WalletRow, OthersMove(u, row)
  PROVE  LockInv'
<1>1. RowsOK /\ LocksOK
  BY TypeParts DEF LockInv
<1>2. RowsOK' /\ LocksOK'
  BY <1>1 DEF OthersMove, RowsOK, LocksOK, locks
<1>3. ASSUME NEW s \in Requests PROVE Checked(s)'
  <2>1. walletLock[u] # s
    BY NamesAssumption DEF OthersMove
  <2>2. \A v \in Users : walletLock[v] = s => wallet'[v] = wallet[v]
    BY <1>1, <2>1 DEF OthersMove, RowsOK
  <2>3. /\ sold' = sold /\ propertyLock' = propertyLock /\ walletLock' = walletLock /\ req' = req
        /\ lost' = lost
    BY DEF OthersMove, locks
  <2> QED
    BY <2>2, <2>3, Untouched DEF LockInv
<1> QED
  BY <1>2, <1>3, TypeParts DEF LockInv

LEMMA RowsMoved ==
  ASSUME NEW w \in WalletRow
  PROVE  /\ Credit(w, 1) \in WalletRow
         /\ LockFunds(w, 1) \in WalletRow
         /\ \A success \in BOOLEAN : Release(w, 1, success) \in WalletRow
  BY DEF WalletRow, Credit, LockFunds, Release, ReleaseFundsOnSuccess, ReleaseFundsOnFailure

LEMMA InitLockInv == Init => LockInv
<1>1. EmptyWallet \in WalletRow /\ RowAllowed(EmptyWallet) /\ 0 \in 0 .. Units
  BY AmountsAssumption DEF EmptyWallet, WalletRow, RowAllowed
<1>2. IdleRequest.pc = "idle"
  BY DEF IdleRequest
<1>3. Init => TypeOK
  <2>1. 0 \in 0 .. MaxLost
    BY AmountsAssumption
  <2> QED
    BY <1>1, <2>1, IdleTyped DEF Init, TypeOK
<1>4. Init => \A r \in Requests : Checked(r)
  BY <1>2 DEF Init, Checked
<1> QED
  BY <1>3, <1>4 DEF LockInv

LEMMA NextLockInv == LockInv /\ [Next]_vars => LockInv'
<1> SUFFICES ASSUME LockInv, [Next]_vars PROVE LockInv'
  OBVIOUS
<1>0. /\ RowsOK /\ LocksOK
      /\ \A r \in Requests : Checked(r)
  BY TypeParts DEF LockInv
<1>1. ASSUME NEW r \in Requests, NEW u \in Users, NEW p \in Properties,
             NEW k \in Keys \cup {NoKey}, NEW n \in Slots, Begin(r, u, p, k, n)
      PROVE  LockInv'
  <2>1. EmptyWallet \in WalletRow
    BY DEF EmptyWallet, WalletRow
  <2>2. LocksOK' /\ RowsOK'
    BY <1>0, <1>1, <2>1
       DEF Begin, LocksOK, RowsOK, tables, locks, RequestState, RequestPCs
  <2>3. /\ req'[r].pc = "checked"
        /\ \A s \in Requests \ {r} : req'[s] = req[s]
    BY <1>0, <1>1 DEF Begin, LocksOK
  <2>4. Checked(r)'
    BY <2>3 DEF Checked
  <2> QED
    BY <1>0, <1>1, <2>2, <2>3, <2>4, WentOn DEF Begin, tables, locks, LocksOK
<1>2. ASSUME NEW r \in Requests, LockProperty(r) PROVE LockInv'
  <2>1. /\ GoTo(r, "propertyLocked") /\ "propertyLocked" \in RequestPCs
        /\ UNCHANGED <<tables, lost>> /\ walletLock' = walletLock
        /\ propertyLock' = [propertyLock EXCEPT ![req[r].property] = r]
        /\ propertyLock[req[r].property] = NoRequest
        /\ Available(r)
    BY <1>2 DEF LockProperty, RequestPCs
  <2>2. /\ req' \in [Requests -> RequestState]
        /\ req'[r] = [req[r] EXCEPT !.pc = "propertyLocked"]
        /\ \A s \in Requests \ {r} : req'[s] = req[s]
    BY <1>0, <2>1, Moved
  <2>3. /\ req'[r].property = req[r].property /\ req'[r].slots = req[r].slots
        /\ req'[r].pc = "propertyLocked" /\ req[r].property \in Properties
    BY <1>0, <2>2 DEF LocksOK, RequestState
  <2>4. Checked(r)'
    BY <1>0, <2>1, <2>3 DEF Checked, Available, Amount, tables, LocksOK
  <2>5. \A s \in Requests \ {r}, p \in Properties : propertyLock[p] = s <=> propertyLock'[p] = s
    BY <1>0, <2>1, NamesAssumption DEF LocksOK
  <2>6. propertyLock' \in [Properties -> Requests \cup {NoRequest}]
    BY <1>0, <2>1 DEF LocksOK
  <2>7. RowsOK'
    BY <1>0, <2>1 DEF RowsOK, tables
  <2> QED
    BY <1>0, <2>1, <2>2, <2>4, <2>5, <2>6, <2>7, WentOn DEF LocksOK, tables
<1>3. ASSUME NEW r \in Requests,
             RejectProperty(r) \/ RejectWallet(r) \/ RejectKey(r) \/ FindItLost(r)
               \/ RequestFails(r)
      PROVE  LockInv'
  BY <1>3, RolledBack DEF RejectProperty, RejectWallet, RejectKey, FindItLost, RequestFails
<1>4. ASSUME NEW r \in Requests, LockWallet(r) PROVE LockInv'
  <2>1. /\ req' = [req EXCEPT ![r].pc = "walletLocked", ![r].row = wallet[req[r].user]]
        /\ UNCHANGED <<tables, lost>> /\ propertyLock' = propertyLock
        /\ walletLock' = [walletLock EXCEPT ![req[r].user] = r]
        /\ walletLock[req[r].user] = NoRequest
        /\ CanInvest(r)
        /\ propertyLock[req[r].property] = r /\ Available(r)
    BY <1>0, <1>4 DEF LockWallet, At, Checked
  <2>2. /\ req[r].user \in Users /\ req[r] \in RequestState
        /\ wallet[req[r].user] \in WalletRow
    BY <1>0 DEF LocksOK, RowsOK, RequestState
  <2>3. /\ req'[r] = [req[r] EXCEPT !.pc = "walletLocked", !.row = wallet[req[r].user]]
        /\ \A s \in Requests \ {r} : req'[s] = req[s]
    BY <1>0, <2>1 DEF LocksOK
  <2>4. [req[r] EXCEPT !.pc = "walletLocked", !.row = wallet[req[r].user]] \in RequestState
    BY <2>2 DEF RequestState, RequestPCs
  <2>5. req' \in [Requests -> RequestState]
    BY <1>0, <2>1, <2>3, <2>4 DEF LocksOK
  <2>6. /\ req'[r].property = req[r].property /\ req'[r].slots = req[r].slots
        /\ req'[r].user = req[r].user /\ req'[r].row = wallet[req[r].user]
        /\ req'[r].pc = "walletLocked"
    BY <2>2, <2>3 DEF RequestState
  <2>7. Checked(r)'
    <3>1. HoldsBoth(r)'
      BY <1>0, <2>1, <2>2, <2>6 DEF HoldsBoth, Available, CanInvest, Amount, tables, LocksOK
    <3> QED
      BY <2>6, <3>1 DEF Checked
  <2>8. \A s \in Requests \ {r}, u \in Users : walletLock[u] = s => walletLock'[u] = s
    BY <1>0, <2>1, NamesAssumption DEF LocksOK
  <2>9. walletLock' \in [Users -> Requests \cup {NoRequest}] /\ RowsOK'
    BY <1>0, <2>1 DEF LocksOK, RowsOK, tables
  <2> QED
    BY <1>0, <2>1, <2>3, <2>5, <2>7, <2>8, <2>9, WentOn DEF LocksOK, tables
<1>5. ASSUME NEW r \in Requests, DebitInside(r) PROVE LockInv'
  <2>1. /\ GoTo(r, "debited") /\ "debited" \in RequestPCs
        /\ UNCHANGED <<tables, lost>> /\ UNCHANGED locks
        /\ HoldsBoth(r) /\ "inside" \in DebitWays
    BY <1>0, <1>5 DEF DebitInside, RequestPCs, At, Checked, Adrift, Alive
  <2>2. /\ req' \in [Requests -> RequestState]
        /\ req'[r] = [req[r] EXCEPT !.pc = "debited"]
        /\ \A s \in Requests \ {r} : req'[s] = req[s]
    BY <1>0, <2>1, Moved
  <2>3. /\ req'[r].property = req[r].property /\ req'[r].slots = req[r].slots
        /\ req'[r].user = req[r].user /\ req'[r].row = req[r].row
        /\ req'[r].pc = "debited"
    BY <1>0, <2>2 DEF LocksOK, RequestState
  <2>4. Checked(r)'
    <3>1. HoldsBoth(r)'
      BY <2>1, <2>3 DEF HoldsBoth, Available, CanInvest, Amount, tables, locks
    <3> QED
      BY <2>1, <2>3, <3>1 DEF Checked
  <2>5. RowsOK'
    BY <1>0, <2>1 DEF RowsOK, tables
  <2> QED
    BY <1>0, <2>1, <2>2, <2>4, <2>5, WentOn DEF LocksOK, locks, tables
<1>6. ASSUME NEW r \in Requests, LoseTransaction(r) PROVE LockInv'
  <2>1. /\ Unlock(r) /\ UNCHANGED <<tables, req>> /\ At(r, "walletLocked")
        /\ lost' = [lost EXCEPT ![req[r].user] = @ + 1]
        /\ \A u \in Users : lost[u] < MaxLost
    BY <1>6 DEF LoseTransaction
  <2>2. req[r].user \in Users /\ req[r].property \in Properties
    BY <1>0 DEF LocksOK, RequestState
  <2>3. /\ lost' \in [Users -> 0 .. MaxLost] /\ lost'[req[r].user] > 0
        /\ \A u \in Users : lost[u] > 0 => lost'[u] > 0
    BY <1>0, <2>1, <2>2, AmountsAssumption DEF RowsOK
  <2>4. RowsOK'
    BY <1>0, <2>1, <2>3 DEF RowsOK, tables
  <2>5. Checked(r)'
    <3>1. Adrift(r)'
      BY <1>0, <2>1, <2>2, <2>3, Unlocked DEF Adrift
    <3> QED
      BY <2>1, <3>1 DEF Checked, At
  <2> QED
    BY <1>0, <2>1, <2>3, <2>4, <2>5, Unlocked, WentOn DEF LocksOK, tables
<1>7. ASSUME NEW r \in Requests, Insert(r) PROVE LockInv'
  <2>1. /\ GoTo(r, "inserted") /\ "inserted" \in RequestPCs /\ At(r, "walletLocked")
        /\ ledger' = [ledger EXCEPT ![req[r].user][req[r].property] = @ + Amount(r)]
        /\ walletLock[req[r].user] = NoRequest
        /\ UNCHANGED <<wallet, sold, investors, holds, made, locks, lost>>
    BY <1>7 DEF Insert, RequestPCs
  <2>2. Adrift(r)
    BY <1>0, <2>1, NamesAssumption DEF Checked, At, HoldsBoth
  <2>3. /\ req' \in [Requests -> RequestState]
        /\ req'[r] = [req[r] EXCEPT !.pc = "inserted"]
        /\ \A s \in Requests \ {r} : req'[s] = req[s]
    BY <1>0, <2>1, Moved
  <2>4. /\ req'[r].property = req[r].property /\ req'[r].user = req[r].user
        /\ req'[r].pc = "inserted"
    BY <1>0, <2>3 DEF LocksOK, RequestState
  <2>5. Checked(r)'
    BY <2>1, <2>2, <2>4 DEF Checked, Adrift, locks
  <2>6. ledger' \in [Users -> [Properties -> Nat]]
    BY <1>0, <2>1, AmountTyped DEF RowsOK
  <2>7. RowsOK'
    BY <1>0, <2>1, <2>6 DEF RowsOK
  <2> QED
    BY <1>0, <2>1, <2>3, <2>5, <2>7, WentOn DEF LocksOK, locks
<1>8. ASSUME NEW r \in Requests, Save(r) PROVE LockInv'
  <2>1. /\ GoTo(r, "saved") /\ "saved" \in RequestPCs /\ At(r, "inserted")
        /\ wallet' = [wallet EXCEPT ![req[r].user] = Debited(r)] /\ RowAllowed(Debited(r))
        /\ walletLock[req[r].user] = NoRequest
        /\ UNCHANGED <<ledger, sold, investors, holds, made, locks, lost>>
    BY <1>8 DEF Save, RequestPCs
  <2>2. Adrift(r)
    BY <1>0, <2>1 DEF Checked, At
  <2>3. /\ req' \in [Requests -> RequestState]
        /\ req'[r] = [req[r] EXCEPT !.pc = "saved"]
        /\ \A s \in Requests \ {r} : req'[s] = req[s]
    BY <1>0, <2>1, Moved
  <2>4. /\ req'[r].property = req[r].property /\ req'[r].user = req[r].user
        /\ req'[r].pc = "saved"
    BY <1>0, <2>3 DEF LocksOK, RequestState
  <2>5. Checked(r)'
    BY <2>1, <2>2, <2>4 DEF Checked, Adrift, locks
  <2>6. Debited(r) \in WalletRow
    BY <1>0, DebitedTyped
  <2>7. RowsOK'
    BY <1>0, <2>1, <2>6 DEF RowsOK
  <2>8. \A s \in Requests, u \in Users : walletLock[u] = s => wallet'[u] = wallet[u]
    BY <1>0, <2>1, NamesAssumption DEF RowsOK, LocksOK
  <2> QED
    BY <1>0, <2>1, <2>3, <2>5, <2>7, <2>8, WentOn DEF LocksOK, locks
<1>9. ASSUME NEW r \in Requests, Commit(r) PROVE LockInv'
  BY <1>9, Committed
<1>10. ASSUME NEW u \in Users, Deposit(u) \/ Withdraw(u) PROVE LockInv'
  <2>1. wallet[u] \in WalletRow
    BY <1>0 DEF RowsOK
  <2>2. CASE Deposit(u)
    BY <2>1, <2>2, RowsMoved, OthersMoved DEF Deposit
  <2>3. CASE Withdraw(u)
    BY <2>1, <2>3, RowsMoved, OthersMoved DEF Withdraw
  <2> QED
    BY <1>10, <2>2, <2>3
<1>11. CASE UNCHANGED vars
  <2>1. LocksOK' /\ RowsOK'
    BY <1>0, <1>11 DEF vars, tables, locks, RowsOK, LocksOK
  <2>2. \A r \in Requests : Checked(r)'
    BY <1>0, <1>11, Untouched DEF vars, tables, locks, LockInv
  <2> QED
    BY <2>1, <2>2, TypeParts DEF LockInv
<1> QED
  BY <1>1, <1>2, <1>3, <1>4, <1>5, <1>6, <1>7, <1>8, <1>9, <1>10, <1>11
     DEF Next, Proceed

LEMMA LockInvCorrect == Spec => []LockInv
  BY InitLockInv, NextLockInv, PTL DEF Spec

\* The rows are well typed and allowed by the constraints of the schema, and never
\* are more slots sold than a property has.
THEOREM TypeCorrect == Spec => []TypeOK
<1>1. LockInv => TypeOK
  BY DEF LockInv
<1> QED
  BY <1>1, LockInvCorrect, PTL

-----------------------------------------------------------------------------
(* The funding columns *)

\* What FundingAgrees says of one property, with what counting needs: the slots of a
\* property and its investors are finitely many, however many users there are.
FundedBy(p) == /\ IsFiniteSet(SlotsHeld(p)) /\ sold[p] = Cardinality(SlotsHeld(p))
               /\ IsFiniteSet(Investors(p)) /\ investors[p] = Cardinality(Investors(p))
               /\ \A u \in Users : /\ ledger[u][p] >= holds[u][p] * Price
                                   /\ lost[u] = 0 => ledger[u][p] = holds[u][p] * Price

FundingInv == LockInv /\ \A p \in Properties : FundedBy(p)

LEMMA InSlotsHeld ==
  ASSUME NEW p
  PROVE  /\ \A x : x \in SlotsHeld(p)
                     <=> \E u \in Users : \E i \in 1 .. holds[u][p] : x = <<u, i>>
         /\ \A x : (x \in SlotsHeld(p))'
                     <=> \E u \in Users : \E i \in 1 .. holds'[u][p'] : x = <<u, i>>
  BY DEF SlotsHeld

\* Nothing that a property's funding depends on has changed but for debits adrift.
LEMMA SameFunding ==
  ASSUME NEW p \in Properties, FundedBy(p), sold'[p] = sold[p], investors'[p] = investors[p],
         \A u \in Users : /\ holds'[u][p] = holds[u][p]
                          /\ ledger'[u][p] >= holds[u][p] * Price
                          /\ lost'[u] = 0 => lost[u] = 0 /\ ledger'[u][p] = ledger[u][p]
  PROVE  FundedBy(p)'
<1>1. SlotsHeld(p)' = SlotsHeld(p)
  <2>1. {{u} \X (1 .. holds'[u][p]) : u \in Users} = {{u} \X (1 .. holds[u][p]) : u \in Users}
    OBVIOUS
  <2> QED
    BY <2>1 DEF SlotsHeld
<1>2. Investors(p)' = Investors(p)
  BY DEF Investors
<1> QED
  BY <1>1, <1>2 DEF FundedBy

\* n more slots for u: as many pairs more, and one investor more if u had none.
LEMMA MoreSlots ==
  ASSUME NEW p \in Properties, NEW u \in Users, NEW n \in Nat \ {0},
         holds \in [Users -> [Properties -> Nat]],
         holds' = [holds EXCEPT ![u][p] = @ + n],
         IsFiniteSet(SlotsHeld(p)), IsFiniteSet(Investors(p))
  PROVE  /\ IsFiniteSet(SlotsHeld(p)')
         /\ Cardinality(SlotsHeld(p)') = Cardinality(SlotsHeld(p)) + n
         /\ IsFiniteSet(Investors(p)')
         /\ Cardinality(Investors(p)') = Cardinality(Investors(p)) + NewInvestor(u, p)
<1> DEFINE h == holds[u][p]
           New == {u} \X (h + 1 .. h + n)
<1>1. /\ h \in Nat /\ holds'[u][p] = h + n
      /\ \A v \in Users : v # u => holds'[v][p] = holds[v][p]
  OBVIOUS
<1>2. SlotsHeld(p)' = SlotsHeld(p) \cup New
  <2>1. ASSUME NEW x, (x \in SlotsHeld(p))' PROVE x \in SlotsHeld(p) \cup New
    <3>1. PICK v \in Users : \E i \in 1 .. holds'[v][p] : x = <<v, i>>
      BY <2>1, InSlotsHeld
    <3>2. PICK i \in 1 .. holds'[v][p] : x = <<v, i>>
      BY <3>1
    <3>3. CASE v = u /\ i > h
      BY <1>1, <3>2, <3>3
    <3>4. CASE v = u /\ i <= h
      <4>1. i \in 1 .. holds[v][p]
        BY <1>1, <3>2, <3>4
      <4> QED
        BY <3>2, <4>1, InSlotsHeld
    <3>5. CASE v # u
      <4>1. i \in 1 .. holds[v][p]
        BY <1>1, <3>2, <3>5
      <4> QED
        BY <3>2, <4>1, InSlotsHeld
    <3> QED
      BY <1>1, <3>2, <3>3, <3>4, <3>5
  <2>2. ASSUME NEW x \in SlotsHeld(p) PROVE (x \in SlotsHeld(p))'
    <3>1. PICK v \in Users : \E i \in 1 .. holds[v][p] : x = <<v, i>>
      BY <2>2, InSlotsHeld
    <3>2. PICK i \in 1 .. holds[v][p] : x = <<v, i>>
      BY <3>1
    <3>3. i \in 1 .. holds'[v][p]
      BY <1>1, <3>2
    <3> QED
      BY <3>2, <3>3, InSlotsHeld
  <2>3. ASSUME NEW x \in New PROVE (x \in SlotsHeld(p))'
    <3>1. PICK i \in h + 1 .. h + n : x = <<u, i>>
      BY <2>3
    <3>2. i \in 1 .. holds'[u][p]
      BY <1>1, <3>1
    <3> QED
      BY <3>1, <3>2, InSlotsHeld
  <2> QED
    BY <2>1, <2>2, <2>3
<1>3. SlotsHeld(p) \cap New = {}
  <2> SUFFICES ASSUME NEW x \in SlotsHeld(p), x \in New PROVE FALSE
    OBVIOUS
  <2>1. PICK v \in Users : \E i \in 1 .. holds[v][p] : x = <<v, i>>
    BY InSlotsHeld
  <2>2. PICK i \in 1 .. holds[v][p] : x = <<v, i>>
    BY <2>1
  <2>3. PICK j \in h + 1 .. h + n : x = <<u, j>>
    OBVIOUS
  <2>4. v = u /\ i = j
    BY <2>2, <2>3
  <2> QED
    BY <1>1, <2>2, <2>4
<1>4. IsFiniteSet(New) /\ Cardinality(New) = n
  <2>1. IsFiniteSet({u}) /\ Cardinality({u}) = 1
    BY FS_Singleton
  <2>2. IsFiniteSet(h + 1 .. h + n) /\ Cardinality(h + 1 .. h + n) = n
    <3>1. h + 1 \in Int /\ h + n \in Int /\ ~(h + 1 > h + n) /\ (h + n) - (h + 1) + 1 = n
      BY <1>1
    <3>2. /\ IsFiniteSet(h + 1 .. h + n)
          /\ Cardinality(h + 1 .. h + n)
               = IF h + 1 > h + n THEN 0 ELSE (h + n) - (h + 1) + 1
      BY <3>1, FS_Interval
    <3> QED
      BY <3>1, <3>2
  <2>3. IsFiniteSet(New) /\ Cardinality(New) = 1 * n
    BY <2>1, <2>2, FS_Product
  <2> QED
    BY <2>3
<1>5. /\ IsFiniteSet(SlotsHeld(p) \cup New)
      /\ Cardinality(SlotsHeld(p) \cup New) = Cardinality(SlotsHeld(p)) + n
  <2>1. /\ IsFiniteSet(SlotsHeld(p) \cup New)
        /\ Cardinality(SlotsHeld(p) \cup New)
             = Cardinality(SlotsHeld(p)) + Cardinality(New) - Cardinality(SlotsHeld(p) \cap New)
    BY <1>4, FS_Union
  <2>2. Cardinality(SlotsHeld(p) \cap New) = 0
    BY <1>3, FS_EmptySet
  <2>3. Cardinality(SlotsHeld(p)) \in Nat
    BY FS_CardinalityType
  <2> QED
    BY <1>4, <2>1, <2>2, <2>3
<1>6. Investors(p)' = Investors(p) \cup {u}
  BY <1>1 DEF Investors
<1>7. u \in Investors(p) <=> h # 0
  BY <1>1 DEF Investors
<1>8. /\ IsFiniteSet(Investors(p) \cup {u})
      /\ Cardinality(Investors(p) \cup {u}) = Cardinality(Investors(p)) + NewInvestor(u, p)
  <2>1. /\ IsFiniteSet(Investors(p) \cup {u})
        /\ u \notin Investors(p) =>
             Cardinality(Investors(p) \cup {u}) = Cardinality(Investors(p)) + 1
        /\ u \in Investors(p) => Investors(p) \cup {u} = Investors(p)
    BY FS_AddElement
  <2>2. Cardinality(Investors(p)) \in Nat
    BY FS_CardinalityType
  <2>3. CASE holds[u][p] = 0
    BY <1>7, <2>1, <2>3 DEF NewInvestor
  <2>4. CASE holds[u][p] # 0
    <3>1. Investors(p) \cup {u} = Investors(p)
      BY <1>7, <2>1, <2>4
    <3>2. NewInvestor(u, p) = 0
      BY <2>4 DEF NewInvestor
    <3>3. Cardinality(Investors(p)) = Cardinality(Investors(p)) + 0
      BY <2>2
    <3> QED
      BY <2>1, <3>1, <3>2, <3>3, Zenon
  <2> QED
    BY <2>3, <2>4
<1> QED
  BY <1>2, <1>5, <1>6, <1>8

LEMMA InitFunding == Init => \A p \in Properties : FundedBy(p)
<1> SUFFICES ASSUME Init, NEW p \in Properties PROVE FundedBy(p)
  OBVIOUS
<1>1. \A u \in Users : holds[u][p] = 0 /\ ledger[u][p] = 0
  BY DEF Init
<1>2. SlotsHeld(p) = {} /\ Investors(p) = {}
  BY <1>1, InSlotsHeld DEF Investors
<1>3. sold[p] = 0 /\ investors[p] = 0
  BY DEF Init
<1>4. \A u \in Users : holds[u][p] * Price = 0
  BY <1>1, AmountsAssumption
<1> QED
  BY <1>1, <1>2, <1>3, <1>4, FS_EmptySet DEF FundedBy

LEMMA CommitFunding ==
  ASSUME LockInv, NEW r \in Requests, Commit(r), NEW p \in Properties, FundedBy(p)
  PROVE  FundedBy(p)'
<1> DEFINE v == req[r].user
           q == req[r].property
           n == req[r].slots
<1>1. /\ RowsOK /\ LocksOK
      /\ v \in Users /\ q \in Properties /\ n \in Nat \ {0}
      /\ Amount(r) \in Nat
  BY TypeParts, AmountTyped DEF LockInv
<1>2. /\ ledger' = [ledger EXCEPT ![v][q] = @ + Amount(r)]
      /\ sold' = [sold EXCEPT ![q] = @ + n]
      /\ investors' = [investors EXCEPT ![q] = @ + NewInvestor(v, q)]
      /\ holds' = [holds EXCEPT ![v][q] = @ + n]
      /\ lost' = lost
  BY CommitRows DEF Commit
<1>3. CASE p = q
  <2>1. /\ sold'[p] = sold[p] + n /\ investors'[p] = investors[p] + NewInvestor(v, p)
        /\ holds'[v][p] = holds[v][p] + n /\ ledger'[v][p] = ledger[v][p] + Amount(r)
        /\ \A u \in Users : u # v => holds'[u][p] = holds[u][p] /\ ledger'[u][p] = ledger[u][p]
    BY <1>1, <1>2, <1>3 DEF RowsOK
  <2>2. /\ IsFiniteSet(SlotsHeld(p)')
        /\ Cardinality(SlotsHeld(p)') = Cardinality(SlotsHeld(p)) + n
        /\ IsFiniteSet(Investors(p)')
        /\ Cardinality(Investors(p)') = Cardinality(Investors(p)) + NewInvestor(v, p)
    BY <1>1, <1>2, <1>3, MoreSlots DEF RowsOK, FundedBy
  <2>3. /\ ledger'[v][p] >= holds'[v][p] * Price
        /\ lost'[v] = 0 => ledger'[v][p] = holds'[v][p] * Price
    <3>1. /\ holds[v][p] \in Nat /\ ledger[v][p] \in Nat /\ Price \in Nat
          /\ ledger[v][p] >= holds[v][p] * Price
          /\ lost'[v] = 0 => ledger[v][p] = holds[v][p] * Price
      BY <1>1, <1>2, AmountsAssumption DEF RowsOK, FundedBy
    <3>2. \A a, b, c \in Nat : (a + b) * c = a * c + b * c
      OBVIOUS
    <3>3. holds'[v][p] * Price = holds[v][p] * Price + Amount(r)
      <4>1. Amount(r) = n * Price
        BY DEF Amount
      <4>2. (holds[v][p] + n) * Price = holds[v][p] * Price + n * Price
        BY <1>1, <3>1, <3>2
      <4> QED
        BY <2>1, <4>1, <4>2
    <3>4. holds[v][p] * Price \in Int
      BY <3>1
    <3> QED
      BY <1>1, <2>1, <3>1, <3>3, <3>4
  <2>4. \A u \in Users : /\ ledger'[u][p] >= holds'[u][p] * Price
                         /\ lost'[u] = 0 => ledger'[u][p] = holds'[u][p] * Price
    BY <1>2, <2>1, <2>3 DEF FundedBy
  <2> QED
    BY <2>1, <2>2, <2>4 DEF FundedBy
<1>4. CASE p # q
  <2>1. /\ sold'[p] = sold[p] /\ investors'[p] = investors[p]
        /\ \A u \in Users : holds'[u][p] = holds[u][p] /\ ledger'[u][p] = ledger[u][p]
    BY <1>1, <1>2, <1>4 DEF RowsOK
  <2>2. \A u \in Users : ledger[u][p] >= holds[u][p] * Price
    BY DEF FundedBy
  <2> QED
    BY <1>2, <2>1, <2>2, SameFunding
<1> QED
  BY <1>3, <1>4

\* A row that a debit adrift writes is one of a user who has lost a transaction.
LEMMA InsertFunding ==
  ASSUME LockInv, NEW r \in Requests, Insert(r), NEW p \in Properties, FundedBy(p)
  PROVE  FundedBy(p)'
<1> DEFINE v == req[r].user
           q == req[r].property
<1>1. /\ RowsOK /\ LocksOK /\ v \in Users /\ q \in Properties /\ Amount(r) \in Nat
  BY TypeParts, AmountTyped DEF LockInv
<1>2. /\ ledger' = [ledger EXCEPT ![v][q] = @ + Amount(r)]
      /\ UNCHANGED <<sold, investors, holds, lost>>
      /\ walletLock[v] = NoRequest /\ At(r, "walletLocked")
  BY DEF Insert
<1>3. lost[v] > 0
  BY <1>2, NamesAssumption DEF LockInv, Checked, At, HoldsBoth, Adrift
<1>4. \A u \in Users : ledger'[u][p] >= ledger[u][p] /\ (u # v => ledger'[u][p] = ledger[u][p])
  BY <1>1, <1>2 DEF RowsOK
<1>5. \A u \in Users : ledger[u][p] >= holds[u][p] * Price
  BY DEF FundedBy
<1>6. \A u \in Users : ledger[u][p] \in Int /\ ledger'[u][p] \in Int /\ holds[u][p] * Price \in Int
  BY <1>1, <1>2, AmountsAssumption DEF RowsOK
<1>7. \A u \in Users : ledger'[u][p] >= holds[u][p] * Price
  <2> SUFFICES ASSUME NEW u \in Users PROVE ledger'[u][p] >= holds[u][p] * Price
    OBVIOUS
  <2> DEFINE worth == holds[u][p] * Price
  <2>1. ledger'[u][p] >= ledger[u][p] /\ ledger[u][p] >= worth
    BY <1>4, <1>5
  <2>2. ledger[u][p] \in Int /\ ledger'[u][p] \in Int /\ worth \in Int
    BY <1>6
  <2> HIDE DEF worth
  <2>3. ledger'[u][p] >= worth
    BY <2>1, <2>2
  <2> QED
    BY <2>3 DEF worth
<1>8. \A u \in Users : lost'[u] = 0 => lost[u] = 0 /\ ledger'[u][p] = ledger[u][p]
  BY <1>2, <1>3, <1>4
<1>9. /\ sold'[p] = sold[p] /\ investors'[p] = investors[p]
      /\ \A u \in Users : holds'[u][p] = holds[u][p]
  BY <1>2
<1> QED
  BY <1>7, <1>8, <1>9, SameFunding

\* Losing a transaction writes nothing.
LEMMA LoseFunding ==
  ASSUME LockInv, NEW r \in Requests, LoseTransaction(r), NEW p \in Properties, FundedBy(p)
  PROVE  FundedBy(p)'
<1>1. RowsOK
  BY TypeParts DEF LockInv
<1>2. UNCHANGED tables /\ lost' = [lost EXCEPT ![req[r].user] = @ + 1]
  BY DEF LoseTransaction
<1>3. \A u \in Users : lost'[u] = 0 => lost[u] = 0
  BY <1>1, <1>2, AmountsAssumption DEF RowsOK
<1>4. \A u \in Users : ledger[u][p] >= holds[u][p] * Price
  BY DEF FundedBy
<1> QED
  BY <1>2, <1>3, <1>4, SameFunding DEF tables

LEMMA NextFunding == FundingInv /\ [Next]_vars => FundingInv'
<1> SUFFICES ASSUME FundingInv, [Next]_vars PROVE FundingInv'
  OBVIOUS
<1>1. LockInv'
  BY NextLockInv DEF FundingInv
<1>2. CASE UNCHANGED <<ledger, sold, investors, holds, lost>>
  <2>1. ASSUME NEW p \in Properties PROVE FundedBy(p)'
    <3>1. FundedBy(p)
      BY DEF FundingInv
    <3>2. \A u \in Users : ledger[u][p] >= holds[u][p] * Price
      BY <3>1 DEF FundedBy
    <3> QED
      BY <1>2, <3>1, <3>2, SameFunding
  <2> QED
    BY <1>1, <2>1 DEF FundingInv
<1>3. ASSUME NEW r \in Requests, Commit(r) PROVE FundingInv'
  BY <1>1, <1>3, CommitFunding DEF FundingInv
<1>4. ASSUME NEW r \in Requests, Insert(r) PROVE FundingInv'
  BY <1>1, <1>4, InsertFunding DEF FundingInv
<1>5. ASSUME NEW r \in Requests, LoseTransaction(r) PROVE FundingInv'
  BY <1>1, <1>5, LoseFunding DEF FundingInv
<1> QED
  BY <1>2, <1>3, <1>4, <1>5
     DEF Next, Proceed, Begin, LockProperty, RejectProperty, LockWallet, RejectWallet, DebitInside,
         Save, FindItLost, RejectKey, RequestFails, Rollback, Deposit, Withdraw, OthersMove,
         tables, vars

\* The funding columns of every property are those of its investments: as many slots
\* sold as are held, every investor counted once.  The ledger has the price of every
\* slot that is held, and nothing else for a user who has not lost a transaction while
\* the debit waited (investment_service.go:233).
THEOREM FundingAgreesCorrect == Spec => []FundingAgrees
<1>1. Init => FundingInv
  BY InitLockInv, InitFunding DEF FundingInv
<1>2. FundingInv => FundingAgrees
  BY DEF FundingInv, FundedBy, FundingAgrees
<1> QED
  BY <1>1, <1>2, NextFunding, PTL DEF Spec

-----------------------------------------------------------------------------
(* The contract *)

LEMMA InitRefines == Init => Contract!ContractInit
<1> SUFFICES ASSUME Init PROVE Contract!ContractInit
  OBVIOUS
<1>1. [u \in Users |-> AvailableBalance(wallet[u])] \in [Users -> Nat]
  BY DEF Init, AvailableBalance, EmptyWallet
<1>2. [p \in Properties |-> Units - sold[p]] = [p \in Properties |-> Units]
  BY AmountsAssumption DEF Init
<1>3. {u \in Users : lost[u] > 0} = {}
  BY DEF Init
<1> QED
  BY <1>1, <1>2, <1>3 DEF Init, Contract!ContractInit

LEMMA CommitRefines ==
  ASSUME LockInv, NEW r \in Requests, Commit(r),
         NEW u \in Users, NEW p \in Properties, NEW k \in Keys \cup {NoKey}, NEW n \in Slots,
         req[r].user = u, req[r].property = p, req[r].key = k, req[r].slots = n
  PROVE  Contract!Invest(u, p, k, n)
<1> DEFINE Funds == [v \in Users |-> AvailableBalance(wallet[v])]
           Free == [q \in Properties |-> Units - sold[q]]
<1>1. /\ RowsOK /\ LocksOK
      /\ u \in Users /\ p \in Properties /\ n \in Nat /\ Amount(r) \in Nat
  BY TypeParts, AmountTyped DEF LockInv
<1>2. /\ ledger' = [ledger EXCEPT ![u][p] = @ + n * Price]
      /\ holds' = [holds EXCEPT ![u][p] = @ + n]
      /\ made' = [made EXCEPT ![u][k] = @ + 1]
      /\ k = NoKey \/ made[u][k] = 0
      /\ Available(r) /\ CanInvest(r)
      /\ lost' = lost
  BY CommitInside, CommitRows DEF Commit, Amount, KeyIsNew, HoldsBoth
<1>3. n * Price <= Funds[u] /\ n <= Free[p]
  BY <1>1, <1>2 DEF CanInvest, Available, Amount
<1>4. Free' = [Free EXCEPT ![p] = @ - n]
  <2>1. sold[p] \in Int /\ Units \in Int
    BY <1>1, AmountsAssumption DEF RowsOK
  <2>2. sold' = [sold EXCEPT ![p] = @ + n]
    BY CommitRows
  <2>3. Free'[p] = Free[p] - n
    BY <1>1, <2>1, <2>2 DEF RowsOK
  <2>4. \A q \in Properties : q # p => Free'[q] = Free[q]
    BY <1>1, <2>2 DEF RowsOK
  <2> QED
    BY <1>1, <2>3, <2>4
<1>5. Funds' = [Funds EXCEPT ![u] = @ - n * Price]
  <2>1. wallet' = [wallet EXCEPT ![u].main = @ - Amount(r)]
    BY CommitRows
  <2>2. wallet[u] \in WalletRow
    BY <1>1 DEF RowsOK
  <2>3. /\ wallet'[u].main = wallet[u].main - Amount(r)
        /\ wallet'[u].locked = wallet[u].locked
    BY <1>1, <2>1, <2>2 DEF RowsOK, WalletRow
  <2>4. Funds'[u] = Funds[u] - Amount(r)
    BY <1>1, <2>2, <2>3 DEF AvailableBalance, WalletRow
  <2>5. \A v \in Users : v # u => Funds'[v] = Funds[v]
    BY <1>1, <2>1 DEF RowsOK
  <2> QED
    BY <1>1, <2>4, <2>5 DEF Amount
<1> QED
  BY <1>2, <1>3, <1>4, <1>5 DEF Contract!Invest

LEMMA OthersMoveRefines ==
  ASSUME LockInv, NEW u \in Users, NEW row \in WalletRow, OthersMove(u, row),
         AvailableBalance(row) \in {AvailableBalance(wallet[u]) - 1, AvailableBalance(wallet[u]),
                                   AvailableBalance(wallet[u]) + 1}
  PROVE  Contract!Move(u)
<1> DEFINE Funds == [v \in Users |-> AvailableBalance(wallet[v])]
<1>1. RowsOK
  BY TypeParts DEF LockInv
<1>2. /\ wallet' = [wallet EXCEPT ![u] = row] /\ RowAllowed(row)
      /\ UNCHANGED <<ledger, sold, holds, made, lost>>
  BY DEF OthersMove
<1>3. Funds'[u] \in {Funds[u] - 1, Funds[u], Funds[u] + 1} \cap Nat
  BY <1>1, <1>2 DEF RowsOK, AvailableBalance, RowAllowed, WalletRow
<1>4. \A v \in Users \ {u} : Funds'[v] = Funds[v]
  BY <1>1, <1>2 DEF RowsOK
<1> QED
  BY <1>2, <1>3, <1>4 DEF Contract!Move

LEMMA LoseRefines ==
  ASSUME LockInv, NEW r \in Requests, LoseTransaction(r)
  PROVE  \E u \in Users : Contract!Lose(u)
<1>1. RowsOK /\ req[r].user \in Users
  BY TypeParts, AmountTyped DEF LockInv
<1>2. UNCHANGED tables /\ lost' = [lost EXCEPT ![req[r].user] = @ + 1]
  BY DEF LoseTransaction
<1>3. {u \in Users : lost'[u] > 0} = {u \in Users : lost[u] > 0} \cup {req[r].user}
  BY <1>1, <1>2, AmountsAssumption DEF RowsOK
<1>4. UNCHANGED <<wallet, ledger, sold, holds, made>>
  BY <1>2 DEF tables
<1>5. PICK u \in Users : u = req[r].user
  BY <1>1
<1>6. Contract!Lose(u)
  BY <1>3, <1>4, <1>5 DEF Contract!Lose
<1> QED
  BY <1>6

LEMMA InsertRefines ==
  ASSUME LockInv, NEW r \in Requests, Insert(r)
  PROVE  \E u \in Users, p \in Properties, n \in Slots : Contract!StrayRow(u, p, n)
<1>1. /\ RowsOK /\ LocksOK /\ req[r].user \in Users /\ req[r].property \in Properties
      /\ req[r].slots \in Slots
  BY TypeParts, AmountTyped DEF LockInv, LocksOK, RequestState
<1>2. lost[req[r].user] > 0
  BY NamesAssumption DEF Insert, LockInv, Checked, At, HoldsBoth, Adrift
<1>3. Contract!StrayRow(req[r].user, req[r].property, req[r].slots)
  BY <1>1, <1>2 DEF Insert, Amount, Contract!StrayRow
<1> QED
  BY <1>1, <1>3

LEMMA SaveRefines ==
  ASSUME LockInv, NEW r \in Requests, Save(r)
  PROVE  \E u \in Users : Contract!StraySave(u)
<1> DEFINE u == req[r].user
           Funds == [v \in Users |-> AvailableBalance(wallet[v])]
<1>1. RowsOK /\ u \in Users /\ Debited(r) \in WalletRow
  BY TypeParts, AmountTyped, DebitedTyped DEF LockInv
<1>2. lost[u] > 0
  BY DEF Save, LockInv, Checked, At, Adrift
<1>3. /\ wallet' = [wallet EXCEPT ![u] = Debited(r)] /\ RowAllowed(Debited(r))
      /\ UNCHANGED <<ledger, sold, holds, made, lost>>
  BY DEF Save
<1>4. Funds'[u] \in Nat
  <2>1. wallet'[u] = Debited(r)
    BY <1>1, <1>3 DEF RowsOK
  <2>2. AvailableBalance(Debited(r)) \in Nat
    BY <1>1, <1>3 DEF AvailableBalance, RowAllowed, WalletRow
  <2> QED
    BY <1>1, <2>1, <2>2 DEF AvailableBalance
<1>5. \A v \in Users \ {u} : Funds'[v] = Funds[v]
  BY <1>1, <1>3 DEF RowsOK
<1>6. Contract!StraySave(u)
  BY <1>1, <1>2, <1>3, <1>4, <1>5 DEF Contract!StraySave
<1> QED
  BY <1>1, <1>6

LEMMA NextRefines ==
  LockInv /\ [Next]_vars => [Contract!ContractNext]_(Contract!investVars)
<1> SUFFICES ASSUME LockInv, [Next]_vars
             PROVE  Contract!ContractNext \/ UNCHANGED Contract!investVars
  BY DEF Contract!investVars
<1>1. CASE UNCHANGED <<tables, lost>>
  BY <1>1 DEF tables, Contract!investVars
<1>2. ASSUME NEW r \in Requests, Commit(r) PROVE Contract!ContractNext
  <2>1. /\ req[r].user \in Users /\ req[r].property \in Properties
        /\ req[r].key \in Keys \cup {NoKey} /\ req[r].slots \in Slots
    BY DEF LockInv, TypeOK, RequestState
  <2>2. PICK u \in Users, p \in Properties, k \in Keys \cup {NoKey}, n \in Slots :
          req[r].user = u /\ req[r].property = p /\ req[r].key = k /\ req[r].slots = n
    BY <2>1
  <2>3. Contract!Invest(u, p, k, n)
    BY <1>2, <2>2, CommitRefines
  <2> QED
    BY <2>3 DEF Contract!ContractNext
<1>3. ASSUME NEW u \in Users, Deposit(u) \/ Withdraw(u) PROVE Contract!ContractNext
  <2>1. wallet[u] \in WalletRow
    BY DEF LockInv, TypeOK
  <2>2. PICK row \in {Credit(wallet[u], 1), LockFunds(wallet[u], 1), Release(wallet[u], 1, TRUE),
                      Release(wallet[u], 1, FALSE)} : OthersMove(u, row)
    BY <1>3 DEF Deposit, Withdraw
  <2>3. row \in WalletRow
    BY <2>1, <2>2, RowsMoved
  <2>4. AvailableBalance(row) \in {AvailableBalance(wallet[u]) - 1, AvailableBalance(wallet[u]),
                                  AvailableBalance(wallet[u]) + 1}
    BY <2>1, <2>2 DEF AvailableBalance, Credit, LockFunds, Release, ReleaseFundsOnSuccess,
                      ReleaseFundsOnFailure, WalletRow
  <2>5. Contract!Move(u)
    BY <2>2, <2>3, <2>4, OthersMoveRefines
  <2> QED
    BY <2>5 DEF Contract!ContractNext
<1>4. ASSUME NEW r \in Requests, LoseTransaction(r) PROVE Contract!ContractNext
  BY <1>4, LoseRefines DEF Contract!ContractNext
<1>5. ASSUME NEW r \in Requests, Insert(r) PROVE Contract!ContractNext
  BY <1>5, InsertRefines DEF Contract!ContractNext
<1>6. ASSUME NEW r \in Requests, Save(r) PROVE Contract!ContractNext
  BY <1>6, SaveRefines DEF Contract!ContractNext
<1> QED
  BY <1>1, <1>2, <1>3, <1>4, <1>5, <1>6
     DEF Next, Proceed, Begin, LockProperty, RejectProperty, LockWallet, RejectWallet, DebitInside,
         FindItLost, RejectKey, RequestFails, Rollback, vars

\* An investment is one step of the contract, however requests, deposits and
\* withdrawals overlap and whatever fails: no slot is sold twice, reserved money is
\* not spent, and a key is used once.  What a debit adrift writes, after its transaction
\* was lost, reaches the ledger and the wallet of its own user only.
THEOREM ContractImplemented == Spec => ContractSpec
  BY LockInvCorrect, InitRefines, NextRefines, PTL DEF Spec, ContractSpec, Contract!ContractSpec

\* With the debit made where the code makes it, on another connection
\* (investment_service.go:233, 241), no investment is ever made: no slot is sold and
\* nobody holds one, whatever happens.
THEOREM NothingIsEverSold ==
  DebitWays = {"outside"} /\ Spec => [](\A p \in Properties : sold[p] = 0)
<1> DEFINE Unsold == \A p \in Properties : sold[p] = 0
<1> SUFFICES ASSUME DebitWays = {"outside"} PROVE Spec => []Unsold
  OBVIOUS
<1>1. Init => Unsold
  BY DEF Init
<1>2. LockInv /\ Unsold /\ [Next]_vars => Unsold'
  <2> SUFFICES ASSUME LockInv, Unsold, [Next]_vars PROVE Unsold'
    OBVIOUS
  <2>1. CASE UNCHANGED sold
    BY <2>1
  <2>2. ASSUME NEW r \in Requests, Commit(r) PROVE FALSE
    BY <2>2, CommitInside
  <2> QED
    BY <2>1, <2>2
       DEF Next, Proceed, Begin, LockProperty, RejectProperty, LockWallet, RejectWallet, DebitInside,
           Insert, Save, LoseTransaction, FindItLost, RejectKey, RequestFails, Rollback, Deposit,
           Withdraw, OthersMove, tables, vars
<1> QED
  BY <1>1, <1>2, LockInvCorrect, PTL DEF Spec
=============================================================================
