--------------------------- MODULE SessionsProofs ---------------------------
(***************************************************************************)
(* Proofs about Sessions, for any number of requests, however they overtake*)
(* each other, any lifetimes of the tokens and any bounds.                 *)
(***************************************************************************)
EXTENDS Sessions, TLAPS

-----------------------------------------------------------------------------
(* Type correctness *)

LEMMA IdleTyped == IdleRequest \in RequestState /\ IdleRequest.pc = "idle" /\ NoRow \in TokenRow
  BY TimeAssumption DEF IdleRequest, RequestState, RequestPCs, NoRow, TokenRow, Versions

LEMMA Entered ==
  ASSUME req \in [Requests -> RequestState], NEW r \in Requests, NEW pc \in RequestPCs,
         NEW t \in Times \cup {None}, NEW v \in Versions, Enter(r, pc, t, v)
  PROVE  /\ req' \in [Requests -> RequestState]
         /\ req'[r].pc = pc /\ req'[r].token = t /\ req'[r].password = v
         /\ \A s \in Requests \ {r} : req'[s] = req[s]
<1>1. [pc |-> pc, token |-> t, password |-> v] \in RequestState
  BY DEF RequestState
<1> QED
  BY <1>1 DEF Enter

LEMMA Answered ==
  ASSUME req \in [Requests -> RequestState], NEW r \in Requests, Answer(r)
  PROVE  /\ req' \in [Requests -> RequestState]
         /\ req'[r].pc = "idle"
         /\ \A s \in Requests \ {r} : req'[s] = req[s]
  BY IdleTyped DEF Answer

LEMMA RequestTyped ==
  ASSUME TypeOK, NEW r \in Requests
  PROVE  /\ req \in [Requests -> RequestState]
         /\ req[r].pc \in RequestPCs /\ req[r].token \in Times \cup {None}
         /\ req[r].password \in Versions
         /\ req[r].pc \in {"rotate", "reissue"} => req[r].token \in Times
  BY DEF TypeOK, RequestState

\* What the operations on the rows do.
LEMMA CreatedRow ==
  ASSUME row \in [Times -> TokenRow], NEW t \in Times, NEW v \in Versions,
         NEW p \in Times \cup {None}, Created(t, v, p)
  PROVE  /\ row' \in [Times -> TokenRow]
         /\ row'[t].status = "live" /\ row'[t].born = v /\ row'[t].parent = p
         /\ \A u \in Times : u # t => row'[u] = row[u]
<1>1. [status |-> "live", born |-> v, parent |-> p] \in TokenRow
  BY DEF TokenRow
<1> QED
  BY <1>1 DEF Created

LEMMA RevokedRow ==
  ASSUME row \in [Times -> TokenRow], NEW t \in Times, row' = Revoked(t)
  PROVE  /\ row' \in [Times -> TokenRow]
         /\ row'[t].status = IF row[t].status = "none" THEN "none" ELSE "revoked"
         /\ \A u \in Times : /\ u # t => row'[u] = row[u]
                             /\ row'[u].born = row[u].born /\ row'[u].parent = row[u].parent
<1>1. CASE row[t].status = "none"
  BY <1>1 DEF Revoked
<1>2. CASE row[t].status # "none"
  <2> DEFINE gone == [row[t] EXCEPT !.status = "revoked"]
  <2>1. /\ gone \in TokenRow /\ gone.status = "revoked"
        /\ gone.born = row[t].born /\ gone.parent = row[t].parent
    <3>1. row[t] \in TokenRow
      OBVIOUS
    <3> QED
      BY <3>1 DEF TokenRow
  <2>2. row' = [row EXCEPT ![t] = gone]
    BY <1>2 DEF Revoked
  <2> HIDE DEF gone
  <2> QED
    BY <1>2, <2>1, <2>2
<1> QED
  BY <1>1, <1>2

LEMMA AllRevokedRow ==
  ASSUME row \in [Times -> TokenRow], row' = AllRevoked
  PROVE  /\ row' \in [Times -> TokenRow]
         /\ \A t \in Times : /\ row'[t].status = IF row[t].status = "live" THEN "revoked"
                                                                           ELSE row[t].status
                             /\ row'[t].born = row[t].born /\ row'[t].parent = row[t].parent
<1>1. ASSUME NEW t \in Times
      PROVE  LET gone == [row[t] EXCEPT !.status = "revoked"]
             IN  /\ gone \in TokenRow /\ gone.status = "revoked"
                 /\ gone.born = row[t].born /\ gone.parent = row[t].parent
  <2>1. row[t] \in TokenRow
    OBVIOUS
  <2> QED
    BY <2>1 DEF TokenRow
<1> QED
  BY <1>1 DEF AllRevoked

LEMMA TokensGiven ==
  ASSUME TypeOK, GiveTokens, now' = now
  PROVE  held' \in SUBSET Times /\ access' \in SUBSET (0 .. now') /\ held \subseteq held'
  BY TimeAssumption DEF TypeOK, GiveTokens, Times

\* The history of contested tokens only grows.
LEMMA ContestedGrows ==
  TypeOK /\ [Next]_vars => contested \subseteq contested' /\ contested' \in SUBSET Times
<1> SUFFICES ASSUME TypeOK, [Next]_vars
             PROVE  contested \subseteq contested' /\ contested' \in SUBSET Times
  OBVIOUS
<1>1. contested \in SUBSET Times /\ now \in Times
  BY DEF TypeOK
<1>2. ASSUME NEW r \in Requests, NEW T, contested' = contested \cup (T \cap Exchanging(r))
      PROVE  contested \subseteq contested' /\ contested' \in SUBSET Times
  BY <1>1, <1>2 DEF Exchanging
<1>3. ASSUME NEW r \in Requests, RefreshRevoke(r) \/ LogoutAll(r) \/ ChangeRevoke(r)
      PROVE  contested \subseteq contested' /\ contested' \in SUBSET Times
  <2>1. PICK T \in {{req[r].token}, Times} : contested' = contested \cup (T \cap Exchanging(r))
    <3>1. Exchanging(r) = Times \cap Exchanging(r)
      BY DEF Exchanging
    <3> QED
      BY <1>3, <3>1 DEF RefreshRevoke, LogoutAll, ChangeRevoke, RevokeAllByUserID
  <2> QED
    BY <1>2, <2>1
<1>4. ASSUME NEW r \in Requests, NEW t \in Times, Logout(r, t)
      PROVE  contested \subseteq contested' /\ contested' \in SUBSET Times
  BY <1>2, <1>4 DEF Logout
<1>5. ASSUME NEW r \in Requests, StoreToken(r) \/ RefreshStore(r)
      PROVE  contested \subseteq contested' /\ contested' \in SUBSET Times
  BY <1>1, <1>5 DEF StoreToken, RefreshStore
<1> QED
  BY <1>1, <1>3, <1>4, <1>5 DEF Next, RequestStep, RegisterRead, RegisterCommit, LoginRead, RefreshRead,
     ChangeRead, ChangeUpdate, RequestFails, Tick, vars

LEMMA InitTyped == Init => TypeOK
<1> SUFFICES ASSUME Init PROVE TypeOK
  OBVIOUS
<1>1. 0 \in Times /\ 0 \in Versions
  BY TimeAssumption DEF Times, Versions
<1>2. row \in [Times -> TokenRow] /\ req \in [Requests -> RequestState]
  BY IdleTyped DEF Init
<1>3. \A r \in Requests : req[r].pc = "idle"
  BY IdleTyped DEF Init
<1> QED
  BY <1>1, <1>2, <1>3 DEF Init, TypeOK

\* A step that moves the request r and gives no tokens is typed if it keeps the rest.
LEMMA StepTyped ==
  ASSUME TypeOK, NEW r \in Requests, UNCHANGED now, held \subseteq held', held' \in SUBSET Times,
         access' \in SUBSET (0 .. now'),
         req' \in [Requests -> RequestState],
         \A s \in Requests \ {r} : req'[s] = req[s],
         req'[r].pc \in {"rotate", "reissue"} => req'[r].token \in held',
         accounts' \in {0, 1}, password' \in Versions, row' \in [Times -> TokenRow],
         outdated' \in Versions, closed' \in Times \cup {None}, contested' \in SUBSET Times
  PROVE  TypeOK'
  BY DEF TypeOK

LEMMA NextTyped == TypeOK /\ [Next]_vars => TypeOK'
<1> SUFFICES ASSUME TypeOK, [Next]_vars PROVE TypeOK'
  OBVIOUS
<1> USE DEF RequestPCs
<1>0. /\ 0 \in Versions /\ None \in Times \cup {None} /\ now \in Times /\ password \in Versions
      /\ req \in [Requests -> RequestState] /\ row \in [Times -> TokenRow]
  BY TimeAssumption DEF TypeOK, Versions
<1>c. contested' \in SUBSET Times
  BY ContestedGrows
<1>1. ASSUME NEW r \in Requests, RegisterRead(r) \/ LoginRead(r) \/ ChangeRead(r) PROVE TypeOK'
  <2>1. PICK pc \in {"creating", "store", "change"}, v \in {0, password} : Enter(r, pc, None, v)
    BY <1>1 DEF RegisterRead, LoginRead, ChangeRead
  <2>2. UNCHANGED <<now, accounts, password, row, held, access, outdated>> /\ closed' \in {closed, None}
    BY <1>1 DEF RegisterRead, LoginRead, ChangeRead
  <2>3. pc \in RequestPCs /\ v \in Versions /\ pc \notin {"rotate", "reissue"}
    BY <1>0
  <2>4. /\ req' \in [Requests -> RequestState] /\ req'[r].pc = pc
        /\ \A s \in Requests \ {r} : req'[s] = req[s]
    BY <1>0, <2>1, <2>3, Entered
  <2> QED
    BY <1>c, <2>2, <2>3, <2>4, StepTyped DEF TypeOK
<1>2. ASSUME NEW r \in Requests, RegisterCommit(r) PROVE TypeOK'
  <2>1. accounts' = 1
    BY <1>2 DEF RegisterCommit, EmailIsNew
  <2>2. /\ req' \in [Requests -> RequestState] /\ req'[r].pc = "store"
        /\ \A s \in Requests \ {r} : req'[s] = req[s]
    BY <1>0, <1>2, Entered DEF RegisterCommit
  <2> QED
    BY <1>c, <1>2, <2>1, <2>2, StepTyped DEF RegisterCommit, TypeOK
<1>3. ASSUME NEW r \in Requests, StoreToken(r) \/ RefreshStore(r) PROVE TypeOK'
  <2>1. /\ GiveTokens /\ Answer(r)
        /\ UNCHANGED <<now, accounts, password, outdated, closed>>
    BY <1>3 DEF StoreToken, RefreshStore
  <2>2. row' \in [Times -> TokenRow]
    <3>1. CASE Created(now, req[r].password, None)
      BY <1>0, <3>1, RequestTyped, CreatedRow
    <3>2. CASE req[r].pc = "reissue" /\ Created(now, row[req[r].token].born, req[r].token)
      <4>1. req[r].token \in Times /\ row[req[r].token].born \in Versions
        BY <1>0, <3>2, RequestTyped DEF TokenRow
      <4> QED
        BY <1>0, <3>2, <4>1, CreatedRow
    <3> QED
      BY <1>0, <1>3, <3>1, <3>2 DEF StoreToken, RefreshStore
  <2>3. /\ req' \in [Requests -> RequestState] /\ req'[r].pc = "idle"
        /\ \A s \in Requests \ {r} : req'[s] = req[s]
    BY <1>0, <2>1, Answered
  <2>4. held' \in SUBSET Times /\ access' \in SUBSET (0 .. now') /\ held \subseteq held'
    BY <2>1, TokensGiven
  <2> QED
    BY <1>c, <2>1, <2>2, <2>3, <2>4, StepTyped DEF TypeOK
<1>4. ASSUME NEW r \in Requests, NEW t \in Times, RefreshRead(r, t) PROVE TypeOK'
  <2>1. /\ req' \in [Requests -> RequestState] /\ req'[r].token = t
        /\ \A s \in Requests \ {r} : req'[s] = req[s]
    BY <1>0, <1>4, Entered DEF RefreshRead
  <2> QED
    BY <1>c, <1>4, <2>1, StepTyped DEF RefreshRead, TypeOK
<1>5. ASSUME NEW r \in Requests, RefreshRevoke(r) PROVE TypeOK'
  <2>1. req[r].token \in Times /\ req[r].token \in held
    BY <1>5, RequestTyped DEF RefreshRevoke, TypeOK
  <2>2. row' \in [Times -> TokenRow]
    BY <1>0, <1>5, <2>1, RevokedRow DEF RefreshRevoke
  <2>3. /\ req' \in [Requests -> RequestState] /\ req'[r].token = req[r].token
        /\ \A s \in Requests \ {r} : req'[s] = req[s]
    BY <1>0, <1>5, <2>1, Entered DEF RefreshRevoke
  <2> QED
    BY <1>c, <1>5, <2>1, <2>2, <2>3, StepTyped DEF RefreshRevoke, TypeOK
<1>6. ASSUME NEW r \in Requests, NEW t \in Times, Logout(r, t) PROVE TypeOK'
  <2>1. row' \in [Times -> TokenRow]
    BY <1>0, <1>6, RevokedRow DEF Logout
  <2> QED
    BY <1>c, <1>6, <2>1 DEF Logout, TypeOK
<1>7. ASSUME NEW r \in Requests, LogoutAll(r) PROVE TypeOK'
  <2>1. row' \in [Times -> TokenRow] /\ closed' \in {now, None}
    BY <1>0, <1>7, AllRevokedRow DEF LogoutAll, RevokeAllByUserID
  <2> QED
    BY <1>c, <1>7, <2>1 DEF LogoutAll, TypeOK
<1>8. ASSUME NEW r \in Requests, ChangeUpdate(r) PROVE TypeOK'
  <2>1. password' \in Versions /\ password + 1 \in Versions
    BY <1>0, <1>8, TimeAssumption DEF ChangeUpdate, Versions
  <2>2. /\ req' \in [Requests -> RequestState] /\ req'[r].pc = "revokeAll"
        /\ \A s \in Requests \ {r} : req'[s] = req[s]
    BY <1>0, <1>8, <2>1, Entered DEF ChangeUpdate
  <2> QED
    BY <1>c, <1>8, <2>1, <2>2, StepTyped DEF ChangeUpdate, TypeOK
<1>9. ASSUME NEW r \in Requests, ChangeRevoke(r) PROVE TypeOK'
  <2>1. row' \in [Times -> TokenRow] /\ closed' \in {now, None}
    BY <1>0, <1>9, AllRevokedRow DEF ChangeRevoke, RevokeAllByUserID
  <2>2. /\ req' \in [Requests -> RequestState] /\ req'[r].pc = "idle"
        /\ \A s \in Requests \ {r} : req'[s] = req[s]
    BY <1>0, <1>9, Answered DEF ChangeRevoke
  <2>3. outdated' \in Versions
    BY <1>9, RequestTyped DEF ChangeRevoke
  <2> QED
    BY <1>c, <1>9, <2>1, <2>2, <2>3, StepTyped DEF ChangeRevoke, TypeOK
<1>10. ASSUME NEW r \in Requests, RequestFails(r) PROVE TypeOK'
  <2>1. /\ req' \in [Requests -> RequestState] /\ req'[r].pc = "idle"
        /\ \A s \in Requests \ {r} : req'[s] = req[s]
    BY <1>0, <1>10, Answered DEF RequestFails
  <2> QED
    BY <1>c, <1>10, <2>1, StepTyped DEF RequestFails, TypeOK
<1>11. CASE Tick
  <2>1. now' \in Times /\ 0 .. now \subseteq 0 .. now'
    BY <1>0, <1>11, TimeAssumption DEF Tick, Times
  <2> QED
    BY <1>c, <1>11, <2>1 DEF Tick, TypeOK
<1>12. CASE UNCHANGED vars
  BY <1>12 DEF vars, TypeOK
<1> QED
  BY <1>1, <1>2, <1>3, <1>4, <1>5, <1>6, <1>7, <1>8, <1>9, <1>10, <1>11, <1>12
     DEF Next, RequestStep

\* All variables stay well typed, there is at most one account of a registration, and
\* only tokens that were given to a client are ever exchanged.
THEOREM TypeCorrect == Spec => []TypeOK
  BY InitTyped, NextTyped, PTL DEF Spec

-----------------------------------------------------------------------------
(* A revoked token stays revoked *)

LEMMA Steps ==
  ASSUME TypeOK, [Next]_vars
  PROVE  \/ row' = row
         \/ \E t \in Times : row' = Revoked(t)
         \/ row' = AllRevoked
         \/ \E v \in Versions, p \in Times \cup {None} : HashIsNew(now) /\ Created(now, v, p)
<1>1. ASSUME NEW r \in Requests, RefreshRevoke(r) PROVE \E t \in Times : row' = Revoked(t)
  BY <1>1, RequestTyped DEF RefreshRevoke
<1>2. ASSUME NEW r \in Requests, RefreshStore(r)
      PROVE  \E v \in Versions, p \in Times \cup {None} : HashIsNew(now) /\ Created(now, v, p)
  <2>1. req[r].token \in Times
    BY <1>2, RequestTyped DEF RefreshStore
  <2>2. row[req[r].token].born \in Versions
    BY <2>1 DEF TypeOK, TokenRow
  <2> QED
    BY <1>2, <2>1, <2>2 DEF RefreshStore
<1>3. ASSUME NEW r \in Requests, StoreToken(r)
      PROVE  \/ row' = row
             \/ \E v \in Versions, p \in Times \cup {None} : HashIsNew(now) /\ Created(now, v, p)
  BY <1>3, RequestTyped DEF StoreToken
<1>4. ASSUME NEW r \in Requests,
             \/ RegisterRead(r) \/ RegisterCommit(r) \/ LoginRead(r) \/ ChangeRead(r)
             \/ ChangeUpdate(r) \/ RequestFails(r) \/ \E t \in Times : RefreshRead(r, t)
      PROVE  row' = row
  BY <1>4 DEF RegisterRead, RegisterCommit, LoginRead, ChangeRead, ChangeUpdate, RequestFails, RefreshRead
<1>5. ASSUME NEW r \in Requests, LogoutAll(r) \/ ChangeRevoke(r) PROVE row' = AllRevoked
  BY <1>5 DEF LogoutAll, ChangeRevoke, RevokeAllByUserID
<1>6. ASSUME NEW r \in Requests, NEW t \in Times, Logout(r, t) PROVE row' = Revoked(t)
  BY <1>6 DEF Logout
<1>7. Tick \/ UNCHANGED vars => row' = row
  BY DEF Tick, vars
<1> QED
  BY <1>1, <1>2, <1>3, <1>4, <1>5, <1>6, <1>7 DEF Next, RequestStep

\* A revoked token never works again, whatever requests do to each other.
THEOREM RevokedIsFinalCorrect == Spec => RevokedIsFinal
<1>1. TypeOK /\ [Next]_vars
         => [\A t \in Times : row[t].status = "revoked" => row'[t].status = "revoked"]_vars
  <2> SUFFICES ASSUME TypeOK, [Next]_vars, NEW t \in Times, row[t].status = "revoked"
               PROVE  row'[t].status = "revoked"
    OBVIOUS
  <2>0. row \in [Times -> TokenRow] /\ now \in Times
    BY DEF TypeOK
  <2>1. ASSUME NEW u \in Times, row' = Revoked(u) PROVE row'[t].status = "revoked"
    BY <2>0, <2>1, RevokedRow
  <2>2. CASE row' = AllRevoked
    BY <2>0, <2>2, AllRevokedRow
  <2>3. ASSUME NEW v \in Versions, NEW p \in Times \cup {None}, HashIsNew(now), Created(now, v, p)
        PROVE  row'[t].status = "revoked"
    BY <2>0, <2>3, CreatedRow DEF HashIsNew
  <2> QED
    BY <2>1, <2>2, <2>3, Steps
<1> QED
  BY <1>1, TypeCorrect, PTL DEF Spec, RevokedIsFinal

-----------------------------------------------------------------------------
(* The invariant *)

InExchange(s, t) == req[s].pc \in {"rotate", "reissue"} /\ req[s].token = t

\* A token that is being exchanged is live until its one exchange has revoked it, or it
\* is contested; and only tokens that were issued are contested or exchanged.
Exchanges ==
    /\ \A t \in contested : row[t].status # "none"
    /\ \A r \in Requests : \A t \in Times : InExchange(r, t) =>
          /\ row[t].status # "none"
          /\ t \notin contested /\ req[r].pc = "rotate" => row[t].status = "live"
          /\ t \notin contested /\ req[r].pc = "reissue" =>
                /\ row[t].status = "revoked"
                /\ \A s \in Requests : InExchange(s, t) => s = r

\* A login goes on with a password that the account has had.
Logins == /\ outdated <= password
          /\ \A r \in Requests :
                /\ req[r].pc = "store" => accounts = 1 /\ req[r].password <= password
                /\ req[r].pc = "revokeAll" => req[r].password <= password

\* Since all sessions were ended there is nothing to go on with.
Ended == closed # None => /\ closed <= now
                          /\ \A a \in access : a <= closed
                          /\ \A t \in Times : row[t].status # "live"
                          /\ \A r \in Requests : req[r].pc \notin {"store", "rotate", "reissue"}

SessionInv == Exchanges /\ Logins /\ Ended

LEMMA InitSession == Init => SessionInv
<1> SUFFICES ASSUME Init PROVE SessionInv
  OBVIOUS
<1>1. \A r \in Requests : req[r].pc = "idle"
  BY IdleTyped DEF Init
<1> QED
  BY <1>1 DEF Init, SessionInv, Exchanges, InExchange, Logins, Ended

\* A request goes on or ends, and the rows stay as they are.
LEMMA MoveKeeps ==
  ASSUME TypeOK, SessionInv, UNCHANGED <<now, row, access, outdated, contested>>,
         accounts = 1 => accounts' = 1,
         password <= password', password' \in Nat,
         closed' \in {closed, None},
         NEW r \in Requests, \A s \in Requests \ {r} : req'[s] = req[s],
         req'[r].pc # "reissue",
         req'[r].pc = "rotate" => row[req'[r].token].status = "live" /\ req'[r].token \in Times,
         req'[r].pc = "store" => accounts' = 1 /\ req'[r].password = password /\ closed' = None,
         req'[r].pc = "revokeAll" => req'[r].password = password'
  PROVE  SessionInv'
<1>0. \A s \in Requests : req[s].password \in Nat
  BY RequestTyped DEF Versions
<1>1. password \in Nat /\ outdated \in Nat
  BY DEF TypeOK, Versions
<1>2. Exchanges'
  <2>1. ASSUME NEW s \in Requests, NEW t \in Times, InExchange(s, t)'
        PROVE  /\ row[t].status # "none"
               /\ t \notin contested /\ req'[s].pc = "rotate" => row[t].status = "live"
               /\ t \notin contested /\ req'[s].pc = "reissue" =>
                     /\ row[t].status = "revoked"
                     /\ \A o \in Requests : InExchange(o, t)' => o = s
    <3>1. CASE s = r
      BY <2>1, <3>1 DEF InExchange
    <3>2. CASE s # r
      <4>1. req'[s] = req[s] /\ InExchange(s, t)
        BY <2>1, <3>2 DEF InExchange
      <4>2. /\ row[t].status # "none"
            /\ t \notin contested /\ req[s].pc = "rotate" => row[t].status = "live"
            /\ t \notin contested /\ req[s].pc = "reissue" =>
                  /\ row[t].status = "revoked"
                  /\ \A o \in Requests : InExchange(o, t) => o = s
        BY <4>1 DEF SessionInv, Exchanges
      <4>3. ASSUME NEW o \in Requests, InExchange(o, t)', row[t].status = "revoked"
            PROVE  InExchange(o, t)
        <5>1. CASE o = r
          BY <4>3, <5>1 DEF InExchange
        <5>2. CASE o # r
          BY <4>3, <5>2 DEF InExchange
        <5> QED
          BY <5>1, <5>2
      <4> QED
        BY <4>1, <4>2, <4>3
    <3> QED
      BY <3>1, <3>2
  <2>2. \A t \in contested : row[t].status # "none"
    BY DEF SessionInv, Exchanges
  <2> QED
    BY <2>1, <2>2 DEF Exchanges
<1>3. Logins'
  BY <1>0, <1>1 DEF SessionInv, Logins
<1>4. Ended'
  BY DEF SessionInv, Ended
<1> QED
  BY <1>2, <1>3, <1>4 DEF SessionInv

\* The rows that matter to exchanges are as before, or their tokens are contested by
\* now; r, if it goes on, has the one token t that nobody else is exchanging.
LEMMA ExchangesKept ==
  ASSUME TypeOK, Exchanges, contested \subseteq contested', NEW r \in Requests, NEW t \in Times,
         \A s \in Requests \ {r} : req'[s] = req[s],
         \A u \in Times : row[u].status # "none" => row'[u].status # "none",
         \A u \in contested' \ contested : row'[u].status # "none",
         \A s \in Requests \ {r} : \A u \in Times :
            InExchange(s, u) => u \in contested' \/ row'[u].status = row[u].status,
         \A u \in Times : InExchange(r, u)' =>
            /\ u = t /\ row[t].status # "none" /\ req'[r].pc = "reissue"
            /\ t \notin contested' =>
                  /\ row'[t].status = "revoked"
                  /\ \A s \in Requests \ {r} : ~InExchange(s, t)
  PROVE  Exchanges'
<1>1. \A s \in Requests \ {r} : \A u \in Times : InExchange(s, u)' <=> InExchange(s, u)
  BY DEF InExchange
<1>2. \A u \in contested' : row'[u].status # "none"
  BY DEF Exchanges, TypeOK
<1>3. ASSUME NEW s \in Requests, NEW u \in Times, InExchange(s, u)'
      PROVE  /\ row'[u].status # "none"
             /\ u \notin contested' /\ req'[s].pc = "rotate" => row'[u].status = "live"
             /\ u \notin contested' /\ req'[s].pc = "reissue" =>
                   /\ row'[u].status = "revoked"
                   /\ \A o \in Requests : InExchange(o, u)' => o = s
  <2>1. CASE s = r
    <3>1. u = t /\ row'[t].status # "none" /\ req'[r].pc = "reissue"
      BY <1>3, <2>1
    <3>2. t \notin contested' =>
            /\ row'[t].status = "revoked"
            /\ \A o \in Requests \ {r} : ~InExchange(o, t)
      BY <1>3, <2>1
    <3>3. t \notin contested' => \A o \in Requests \ {r} : ~InExchange(o, t)'
      BY <1>1, <3>2
    <3> QED
      BY <2>1, <3>1, <3>2, <3>3
  <2>2. CASE s # r
    <3>1. req'[s] = req[s] /\ InExchange(s, u)
      BY <1>1, <1>3, <2>2
    <3>2. /\ row[u].status # "none"
          /\ u \notin contested /\ req[s].pc = "rotate" => row[u].status = "live"
          /\ u \notin contested /\ req[s].pc = "reissue" =>
                /\ row[u].status = "revoked"
                /\ \A o \in Requests : InExchange(o, u) => o = s
      BY <3>1 DEF Exchanges
    <3>3. u \notin contested' => row'[u].status = row[u].status
      BY <2>2, <3>1
    <3>4. u \notin contested' => ~InExchange(r, u)'
      BY <2>2, <3>1
    <3> QED
      BY <1>1, <3>1, <3>2, <3>3, <3>4
  <2> QED
    BY <2>1, <2>2
<1> QED
  BY <1>2, <1>3 DEF Exchanges

LEMMA IssueKeeps ==
  ASSUME TypeOK, SessionInv, NEW r \in Requests, StoreToken(r) \/ RefreshStore(r)
  PROVE  SessionInv'
<1>0. /\ row \in [Times -> TokenRow] /\ now \in Times
      /\ req \in [Requests -> RequestState]
  BY DEF TypeOK
<1>1. /\ UNCHANGED <<now, accounts, password, outdated, closed>>
      /\ Answer(r) /\ req[r].pc \in {"store", "reissue"}
  BY DEF StoreToken, RefreshStore
<1>2. /\ req'[r].pc = "idle"
      /\ \A s \in Requests \ {r} : req'[s] = req[s]
  BY <1>0, <1>1, Answered
<1>3. \/ row' = row /\ contested' = contested
      \/ /\ row[now].status = "none" /\ row'[now].status = "live"
         /\ \A t \in Times : t # now => row'[t] = row[t]
         /\ contested' \in {contested, contested \cup {now}}
  <2>1. StoreToken(r) => req[r].password \in Versions
    BY RequestTyped
  <2>2. RefreshStore(r) => req[r].token \in Times /\ row[req[r].token].born \in Versions
    <3>1. RefreshStore(r) => req[r].token \in Times
      BY RequestTyped DEF RefreshStore
    <3> QED
      BY <1>0, <3>1 DEF TokenRow
  <2>3. CASE RefreshStore(r)
    BY <1>0, <2>2, <2>3, CreatedRow DEF RefreshStore, HashIsNew
  <2>4. CASE StoreToken(r)
    BY <1>0, <2>1, <2>4, CreatedRow DEF StoreToken, HashIsNew
  <2> QED
    BY <2>3, <2>4
<1>4. closed = None
  BY <1>1 DEF SessionInv, Ended
<1>5. Exchanges'
  <2>1. ASSUME NEW s \in Requests, NEW u \in Times, InExchange(s, u)
        PROVE  row'[u].status = row[u].status
    BY <1>0, <1>3, <2>1 DEF SessionInv, Exchanges
  <2>2. \A u \in Times : row[u].status # "none" => row'[u].status # "none"
    BY <1>3
  <2>3. \A u \in contested' \ contested : row'[u].status # "none"
    BY <1>3
  <2>4. contested \subseteq contested'
    BY <1>3
  <2>5. \A u \in Times : ~InExchange(r, u)'
    BY <1>2 DEF InExchange
  <2> QED
    BY <1>0, <1>2, <2>1, <2>2, <2>3, <2>4, <2>5, ExchangesKept DEF SessionInv
<1>6. Logins' /\ Ended'
  BY <1>1, <1>2, <1>4 DEF SessionInv, Logins, Ended
<1> QED
  BY <1>5, <1>6 DEF SessionInv

LEMMA RevokeKeeps ==
  ASSUME TypeOK, SessionInv, NEW r \in Requests, RefreshRevoke(r)
  PROVE  SessionInv'
<1>0. /\ row \in [Times -> TokenRow]
      /\ req \in [Requests -> RequestState]
      /\ req[r].token \in Times /\ req[r].pc = "rotate" /\ 0 \in Versions
  BY RequestTyped, TimeAssumption DEF TypeOK, RefreshRevoke, Versions
<1>t. PICK t \in Times : t = req[r].token
  BY <1>0
<1>1. /\ req'[r].pc = "reissue" /\ req'[r].token = t
      /\ \A s \in Requests \ {r} : req'[s] = req[s]
  BY <1>0, <1>t, Entered DEF RefreshRevoke, RequestPCs
<1>2. row[t].status # "none"
  BY <1>0, <1>t DEF SessionInv, Exchanges, InExchange
<1>3. /\ row'[t].status = "revoked"
      /\ \A u \in Times : u # t => row'[u] = row[u]
  BY <1>0, <1>t, <1>2, RevokedRow DEF RefreshRevoke
<1>4. /\ contested' = contested \cup ({t} \cap Exchanging(r))
      /\ UNCHANGED <<now, accounts, password, access, outdated, closed>>
  BY <1>t DEF RefreshRevoke
<1>5. ASSUME NEW s \in Requests \ {r}, InExchange(s, t) PROVE t \in contested'
  BY <1>4, <1>5 DEF InExchange, Exchanging
<1>6. Exchanges'
  <2>1. \A s \in Requests \ {r} : \A u \in Times :
          InExchange(s, u) => u \in contested' \/ row'[u].status = row[u].status
    BY <1>3, <1>5
  <2>2. \A u \in Times : InExchange(r, u)' =>
            /\ u = t /\ row[t].status # "none" /\ req'[r].pc = "reissue"
            /\ t \notin contested' =>
                  /\ row'[t].status = "revoked"
                  /\ \A s \in Requests \ {r} : ~InExchange(s, t)
    <3>1. \A u \in Times : InExchange(r, u)' => u = t
      BY <1>1 DEF InExchange
    <3> QED
      BY <1>1, <1>2, <1>3, <1>5, <3>1
  <2>3. /\ contested \subseteq contested'
        /\ \A u \in contested' \ contested : row'[u].status # "none"
        /\ \A u \in Times : row[u].status # "none" => row'[u].status # "none"
    BY <1>3, <1>4
  <2> QED
    BY <1>1, <2>1, <2>2, <2>3, ExchangesKept DEF SessionInv
<1>8. Logins'
  BY <1>1, <1>4 DEF SessionInv, Logins
<1>9. closed = None
  BY <1>0 DEF SessionInv, Ended
<1>10. Ended'
  BY <1>4, <1>9 DEF Ended
<1> QED
  BY <1>6, <1>8, <1>10 DEF SessionInv

LEMMA LogoutKeeps ==
  ASSUME TypeOK, SessionInv, NEW r \in Requests, NEW t \in Times, Logout(r, t)
  PROVE  SessionInv'
<1>0. row \in [Times -> TokenRow]
  BY DEF TypeOK
<1>1. /\ UNCHANGED <<now, accounts, password, access, req, outdated, closed>> /\ req[r].pc = "idle"
      /\ contested' = contested \cup ({t} \cap Exchanging(r))
  BY DEF Logout, Begin
<1>2. /\ row'[t].status = IF row[t].status = "none" THEN "none" ELSE "revoked"
      /\ \A u \in Times : u # t => row'[u] = row[u]
  BY <1>0, RevokedRow DEF Logout
<1>3. Exchanges'
  <2>1. ASSUME NEW s \in Requests \ {r}, InExchange(s, t)
        PROVE  t \in contested' /\ row[t].status # "none"
    BY <1>1, <2>1 DEF InExchange, Exchanging, SessionInv, Exchanges
  <2>2. \A u \in contested' \ contested : row'[u].status # "none"
    <3>1. t \in Exchanging(r) => row[t].status # "none"
      <4>1. t \in Exchanging(r) => \E s \in Requests \ {r} : InExchange(s, t)
        BY DEF Exchanging, InExchange
      <4> QED
        BY <2>1, <4>1
    <3> QED
      BY <1>1, <1>2, <3>1
  <2>3. \A s \in Requests \ {r} : \A u \in Times :
          InExchange(s, u) => u \in contested' \/ row'[u].status = row[u].status
    BY <1>2, <2>1
  <2>4. \A u \in Times : ~InExchange(r, u)'
    BY <1>1 DEF InExchange
  <2>5. /\ contested \subseteq contested'
        /\ \A u \in Times : row[u].status # "none" => row'[u].status # "none"
        /\ \A s \in Requests \ {r} : req'[s] = req[s]
    BY <1>1, <1>2
  <2> QED
    BY <2>2, <2>3, <2>4, <2>5, ExchangesKept DEF SessionInv
<1>4. Logins' /\ Ended'
  BY <1>1, <1>2 DEF SessionInv, Logins, Ended
<1> QED
  BY <1>3, <1>4 DEF SessionInv

LEMMA RevokeAllKeeps ==
  ASSUME TypeOK, SessionInv, NEW r \in Requests, LogoutAll(r) \/ ChangeRevoke(r)
  PROVE  SessionInv'
<1>0. /\ row \in [Times -> TokenRow]
      /\ req \in [Requests -> RequestState]
  BY DEF TypeOK
<1>1. /\ UNCHANGED <<now, accounts, password, access>>
      /\ row' = AllRevoked
      /\ closed' = IF Opening = {} THEN now ELSE None
      /\ contested' = contested \cup Exchanging(r)
      /\ req[r].pc \in {"idle", "revokeAll"}
  BY DEF LogoutAll, ChangeRevoke, RevokeAllByUserID, Begin
<1>2. /\ \A s \in Requests : req'[s] = req[s] \/ req'[s].pc = "idle"
      /\ \A s \in Requests \ {r} : req'[s] = req[s]
      /\ req'[r].pc = "idle"
  BY <1>0, Answered DEF LogoutAll, ChangeRevoke, Begin
<1>3. \A t \in Times : /\ row'[t].status # "live"
                       /\ row[t].status # "none" => row'[t].status # "none"
  BY <1>0, <1>1, AllRevokedRow
<1>4. Exchanges'
  <2>1. \A s \in Requests \ {r} : \A u \in Times : InExchange(s, u) => u \in contested'
    BY <1>1 DEF InExchange, Exchanging
  <2>2. \A u \in contested' \ contested : row'[u].status # "none"
    <3>1. \A u \in Exchanging(r) : u \in Times /\ \E s \in Requests \ {r} : InExchange(s, u)
      BY DEF Exchanging, InExchange
    <3>2. \A u \in Exchanging(r) : row[u].status # "none"
      BY <3>1 DEF SessionInv, Exchanges
    <3> QED
      BY <1>1, <1>3, <3>1, <3>2
  <2>3. \A u \in Times : ~InExchange(r, u)'
    BY <1>2 DEF InExchange
  <2>4. contested \subseteq contested'
    BY <1>1
  <2>5. PICK t \in Times : TRUE
    BY DEF TypeOK
  <2> QED
    BY <1>2, <1>3, <2>1, <2>2, <2>3, <2>4, ExchangesKept DEF SessionInv
<1>5. Ended'
  <2>1. CASE Opening # {}
    BY <1>1, <2>1 DEF Ended
  <2>2. CASE Opening = {}
    <3>1. \A s \in Requests : req'[s].pc \notin {"store", "rotate", "reissue"}
      BY <1>2, <2>2 DEF Opening
    <3>2. now <= now /\ \A a \in access : a <= now
      BY TimeAssumption DEF TypeOK, Times
    <3> QED
      BY <1>1, <1>3, <2>2, <3>1, <3>2 DEF Ended
  <2> QED
    BY <2>1, <2>2
<1>7. Logins'
  <2>1. outdated' <= password
    BY DEF SessionInv, Logins, LogoutAll, ChangeRevoke
  <2> QED
    BY <1>1, <1>2, <2>1 DEF SessionInv, Logins
<1> QED
  BY <1>4, <1>5, <1>7 DEF SessionInv

LEMMA TickKeeps == TypeOK /\ SessionInv /\ Tick => SessionInv'
<1> SUFFICES ASSUME TypeOK, SessionInv, Tick PROVE SessionInv'
  OBVIOUS
<1>1. closed # None => closed \in Nat /\ now \in Nat
  BY TimeAssumption DEF TypeOK, Times
<1>2. Exchanges' /\ Logins'
  BY DEF Tick, SessionInv, Exchanges, InExchange, Logins
<1>3. Ended'
  BY <1>1 DEF Tick, SessionInv, Ended
<1> QED
  BY <1>2, <1>3 DEF SessionInv

LEMMA NextSession == TypeOK /\ SessionInv /\ [Next]_vars => SessionInv'
<1> SUFFICES ASSUME TypeOK, SessionInv, [Next]_vars PROVE SessionInv'
  OBVIOUS
<1> USE DEF RequestPCs
<1>0. /\ 0 \in Versions /\ None \in Times \cup {None} /\ password \in Versions
      /\ req \in [Requests -> RequestState]
      /\ password \in Nat /\ password <= password
  BY TimeAssumption DEF TypeOK, Versions
<1>1. ASSUME NEW r \in Requests, RegisterRead(r) \/ ChangeRead(r) PROVE SessionInv'
  <2>1. PICK pc \in {"creating", "change"}, v \in {0, password} : Enter(r, pc, None, v)
    BY <1>1 DEF RegisterRead, ChangeRead
  <2>2. pc \in RequestPCs /\ v \in Versions /\ pc \notin {"store", "rotate", "reissue", "revokeAll"}
    BY <1>0
  <2>3. /\ req'[r].pc = pc
        /\ \A s \in Requests \ {r} : req'[s] = req[s]
    BY <1>0, <2>1, <2>2, Entered
  <2> QED
    BY <1>0, <1>1, <2>2, <2>3, MoveKeeps DEF RegisterRead, ChangeRead
<1>2. ASSUME NEW r \in Requests, RegisterCommit(r) \/ LoginRead(r) PROVE SessionInv'
  <2>1. Enter(r, "store", None, password) /\ accounts' = 1 /\ closed' = None
        /\ UNCHANGED <<now, row, access, outdated, contested, password>>
    BY <1>2 DEF RegisterCommit, EmailIsNew, LoginRead
  <2>2. /\ req'[r].pc = "store" /\ req'[r].password = password
        /\ \A s \in Requests \ {r} : req'[s] = req[s]
    BY <1>0, <2>1, Entered
  <2> QED
    BY <1>0, <2>1, <2>2, MoveKeeps
<1>3. ASSUME NEW r \in Requests, NEW t \in Times, RefreshRead(r, t) PROVE SessionInv'
  <2>1. /\ req'[r].pc = "rotate" /\ req'[r].token = t
        /\ \A s \in Requests \ {r} : req'[s] = req[s]
    BY <1>0, <1>3, Entered DEF RefreshRead
  <2>2. row[t].status = "live"
    BY <1>3 DEF RefreshRead, IsValid
  <2> QED
    BY <1>0, <1>3, <2>1, <2>2, MoveKeeps DEF RefreshRead
<1>4. ASSUME NEW r \in Requests, ChangeUpdate(r) PROVE SessionInv'
  <2>1. password' = password + 1 /\ password + 1 \in Versions /\ password + 1 \in Nat
    BY <1>0, <1>4, TimeAssumption DEF ChangeUpdate, Versions
  <2>2. /\ req'[r].pc = "revokeAll" /\ req'[r].password = password + 1
        /\ \A s \in Requests \ {r} : req'[s] = req[s]
    BY <1>0, <1>4, <2>1, Entered DEF ChangeUpdate
  <2>3. UNCHANGED <<now, accounts, row, access, outdated, closed, contested>>
    BY <1>4 DEF ChangeUpdate
  <2> QED
    BY <1>0, <2>1, <2>2, <2>3, MoveKeeps
<1>5. ASSUME NEW r \in Requests, RequestFails(r) PROVE SessionInv'
  <2>1. /\ req'[r].pc = "idle"
        /\ \A s \in Requests \ {r} : req'[s] = req[s]
    BY <1>0, <1>5, Answered DEF RequestFails
  <2> QED
    BY <1>0, <1>5, <2>1, MoveKeeps DEF RequestFails
<1>6. CASE UNCHANGED vars
  BY <1>6 DEF vars, SessionInv, Exchanges, InExchange, Logins, Ended
<1> QED
  BY <1>1, <1>2, <1>3, <1>4, <1>5, <1>6, IssueKeeps, RevokeKeeps, LogoutKeeps, RevokeAllKeeps, TickKeeps
     DEF Next, RequestStep

\* No access token of the account works any more once AccessTTL has passed since all
\* of its sessions were ended, if nobody was logging in or refreshing then, and nobody
\* has logged in since.
THEOREM ClosedIsClosedCorrect == Spec => []ClosedIsClosed
<1>1. TypeOK /\ SessionInv => ClosedIsClosed
  <2> SUFFICES ASSUME TypeOK, SessionInv, closed # None, now >= closed + AccessTTL,
                      NEW a \in access, now < a + AccessTTL
               PROVE  FALSE
    BY DEF ClosedIsClosed, Authenticated
  <2>1. a \in Nat /\ closed \in Nat /\ now \in Nat
    BY TimeAssumption DEF TypeOK, Times
  <2>2. a <= closed
    BY DEF SessionInv, Ended
  <2> QED
    BY <2>1, <2>2, TimeAssumption
<1>2. TypeOK /\ SessionInv /\ [Next]_vars => SessionInv'
  BY NextSession
<1> QED
  BY <1>1, <1>2, InitTyped, NextTyped, InitSession, PTL DEF Spec

-----------------------------------------------------------------------------
(* The sessions keep the promises of SessionContract *)

Rotating(t) == \E r \in Requests : req[r].pc = "reissue" /\ req[r].token = t

LEMMA StageIs ==
  ASSUME NEW t \in Times, row \in [Times -> TokenRow]
  PROVE  /\ t \in contested => Stage(t) = "contested"
         /\ t \notin contested => /\ row[t].status = "none" => Stage(t) = "unused"
                                  /\ row[t].status = "live" => Stage(t) = "live"
                                  /\ row[t].status = "revoked" /\ Rotating(t) => Stage(t) = "rotating"
                                  /\ row[t].status = "revoked" /\ ~Rotating(t) => Stage(t) = "spent"
<1>1. row[t].status \in {"none", "live", "revoked"}
  BY DEF TokenRow
<1> QED
  BY <1>1 DEF Stage, Rotating

LEMMA StagePrime ==
  ASSUME NEW t \in Times, row' \in [Times -> TokenRow]
  PROVE  /\ t \in contested' => Stage(t)' = "contested"
         /\ t \notin contested' =>
               /\ row'[t].status = "none" => Stage(t)' = "unused"
               /\ row'[t].status = "live" => Stage(t)' = "live"
               /\ row'[t].status = "revoked" /\ Rotating(t)' => Stage(t)' = "rotating"
               /\ row'[t].status = "revoked" /\ ~Rotating(t)' => Stage(t)' = "spent"
<1>1. row'[t].status \in {"none", "live", "revoked"}
  BY DEF TokenRow
<1> QED
  BY <1>1 DEF Stage, Rotating

LEMMA StageKept ==
  ASSUME NEW t \in Times, row'[t].status = row[t].status, t \in contested' <=> t \in contested,
         t \in contested \/ (Rotating(t)' <=> Rotating(t))
  PROVE  Stage(t)' = Stage(t)
<1>1. CASE t \in contested
  BY <1>1 DEF Stage
<1>2. CASE t \notin contested
  BY <1>2 DEF Stage, Rotating
<1> QED
  BY <1>1, <1>2

\* A step that leaves every row as it is in the contract.
RowsAsBefore == \A t \in Times : /\ Stage(t)' = Stage(t)
                                 /\ row'[t].born = row[t].born
                                 /\ row'[t].parent = row[t].parent

\* The request moves, and exchanges nothing before and after.
LEMMA Moves ==
  ASSUME row' = row, contested' = contested,
         NEW r \in Requests, \A s \in Requests \ {r} : req'[s] = req[s],
         req[r].pc # "reissue", req'[r].pc # "reissue"
  PROVE  RowsAsBefore
<1>1. \A t \in Times : Rotating(t)' <=> Rotating(t)
  BY DEF Rotating
<1> QED
  BY <1>1, StageKept DEF RowsAsBefore

\* What a step must do to the stages to be a Close of the contract.
LEMMA Closes ==
  ASSUME NEW T \in SUBSET Times, NEW D \in SUBSET Times,
         UNCHANGED <<accounts, password, outdated>>,
         \A t \in D : Stage(t) \in {"live", "rotating"},
         \A t \in Times :
            /\ t \in D => Stage(t)' = "contested"
            /\ t \notin D => Stage(t)' = IF t \in T /\ Stage(t) \in {"live", "rotating"}
                                         THEN "spent" ELSE Stage(t)
            /\ row'[t].born = row[t].born /\ row'[t].parent = row[t].parent
  PROVE  Contract!ContractNext
<1>1. Contract!Close(T, D)
  BY DEF Contract!Close, Contract!GivenBack
<1> QED
  BY <1>1 DEF Contract!ContractNext

\* The same for a step that is about one token.
LEMMA ClosesOne ==
  ASSUME NEW t \in Times, UNCHANGED <<accounts, password, outdated>>,
         \/ Stage(t) \in {"live", "rotating"} /\ Stage(t)' = "contested"
         \/ Stage(t)' = IF Stage(t) \in {"live", "rotating"} THEN "spent" ELSE Stage(t),
         \A u \in Times : u # t => Stage(u)' = Stage(u),
         \A u \in Times : row'[u].born = row[u].born /\ row'[u].parent = row[u].parent
  PROVE  Contract!ContractNext
<1>1. CASE Stage(t) \in {"live", "rotating"} /\ Stage(t)' = "contested"
  <2>1. PICK T \in SUBSET Times, D \in SUBSET Times : T = {} /\ D = {t}
    OBVIOUS
  <2> QED
    BY <1>1, <2>1, Closes
<1>2. CASE Stage(t)' = IF Stage(t) \in {"live", "rotating"} THEN "spent" ELSE Stage(t)
  <2>1. PICK T \in SUBSET Times, D \in SUBSET Times : T = {t} /\ D = {}
    OBVIOUS
  <2> QED
    BY <1>2, <2>1, Closes
<1> QED
  BY <1>1, <1>2

LEMMA InitRefines == Init => Contract!ContractInit
<1> SUFFICES ASSUME Init PROVE Contract!ContractInit
  OBVIOUS
<1>1. \A t \in Times : row[t] = NoRow
  BY DEF Init
<1>2. \A t \in Times : row[t].status = "none" /\ row[t].born = 0 /\ row[t].parent = None
  BY <1>1 DEF NoRow
<1>3. \A t \in Times : Stage(t) = "unused"
  BY <1>2 DEF Init, Stage
<1> QED
  BY <1>2, <1>3 DEF Init, Contract!ContractInit

LEMMA StoreRefines ==
  ASSUME TypeOK, SessionInv, NEW r \in Requests, StoreToken(r)
  PROVE  Contract!ContractNext \/ UNCHANGED Contract!cvars
<1>0. /\ row \in [Times -> TokenRow] /\ now \in Times /\ req \in [Requests -> RequestState]
      /\ req[r].password \in Versions /\ None \in Times \cup {None}
      /\ req[r].pc = "store"
  BY RequestTyped DEF TypeOK, StoreToken
<1>1. UNCHANGED <<accounts, password, outdated>>
  BY DEF StoreToken
<1>2. /\ req'[r].pc = "idle"
      /\ \A s \in Requests \ {r} : req'[s] = req[s]
  BY <1>0, Answered DEF StoreToken
<1>3. CASE row' = row /\ contested' = contested
  <2>1. RowsAsBefore
    BY <1>0, <1>2, <1>3, Moves
  <2> QED
    BY <1>1, <2>1 DEF RowsAsBefore, Contract!cvars
<1>4. CASE /\ HashIsNew(now) /\ Created(now, req[r].password, None)
           /\ contested' = contested \cup (IF req[r].password < outdated THEN {now} ELSE {})
  <2>0. PICK v \in Versions, n \in Times : v = req[r].password /\ n = now
    BY <1>0
  <2>1. /\ accounts = 1 /\ v \in 0 .. password /\ outdated \in Nat
    BY <1>0, <2>0 DEF SessionInv, Logins, TypeOK, Versions
  <2>2. /\ row[n].status = "none" /\ row' \in [Times -> TokenRow]
        /\ row'[n].status = "live" /\ row'[n].born = v /\ row'[n].parent = None
        /\ \A u \in Times : u # n => row'[u] = row[u]
    BY <1>0, <1>4, <2>0, CreatedRow DEF HashIsNew
  <2>3. \A t \in Times : Rotating(t)' <=> Rotating(t)
    BY <1>0, <1>2 DEF Rotating
  <2>4. n \notin contested
    BY <2>2 DEF SessionInv, Exchanges
  <2>5. /\ \A t \in Times : t # n => (t \in contested' <=> t \in contested)
        /\ n \in contested' <=> ~(outdated <= v)
    BY <1>4, <2>0, <2>1, <2>4
  <2>6. Stage(n) = "unused"
    BY <1>0, <2>2, <2>4, StageIs
  <2>7. Stage(n)' = IF outdated <= v THEN "live" ELSE "contested"
    BY <2>2, <2>5, StagePrime
  <2>8. \A t \in Times : t # n => Stage(t)' = Stage(t)
    BY <2>2, <2>3, <2>5, StageKept
  <2>9. Contract!Open(n, v)
    BY <1>0, <1>1, <2>1, <2>2, <2>6, <2>7, <2>8 DEF Contract!Open, Contract!Issue
  <2> QED
    BY <2>1, <2>9 DEF Contract!ContractNext
<1> QED
  BY <1>3, <1>4 DEF StoreToken

LEMMA RevokeRefines ==
  ASSUME TypeOK, SessionInv, NEW r \in Requests, RefreshRevoke(r)
  PROVE  Contract!ContractNext \/ UNCHANGED Contract!cvars
<1>0. /\ row \in [Times -> TokenRow] /\ req \in [Requests -> RequestState]
      /\ req[r].token \in Times /\ req[r].pc = "rotate" /\ 0 \in Versions
  BY RequestTyped, TimeAssumption DEF TypeOK, RefreshRevoke, Versions
<1>t. PICK t \in Times : t = req[r].token
  BY <1>0
<1>1. /\ req'[r].pc = "reissue" /\ req'[r].token = t
      /\ \A s \in Requests \ {r} : req'[s] = req[s]
  BY <1>0, <1>t, Entered DEF RefreshRevoke, RequestPCs
<1>2. row[t].status # "none" /\ (t \notin contested => row[t].status = "live")
  BY <1>0, <1>t DEF SessionInv, Exchanges, InExchange
<1>3. /\ row'[t].status = "revoked" /\ row' \in [Times -> TokenRow]
      /\ \A u \in Times : /\ u # t => row'[u] = row[u]
                          /\ row'[u].born = row[u].born /\ row'[u].parent = row[u].parent
  BY <1>0, <1>t, <1>2, RevokedRow DEF RefreshRevoke
<1>4. /\ UNCHANGED <<accounts, password, outdated>>
      /\ contested' = contested \cup ({t} \cap Exchanging(r))
  BY <1>t DEF RefreshRevoke
<1>5. /\ Rotating(t)'
      /\ \A u \in Times : u # t => (Rotating(u)' <=> Rotating(u))
  BY <1>0, <1>t, <1>1 DEF Rotating
<1>6. \A u \in Times : u # t => Stage(u)' = Stage(u)
  BY <1>3, <1>4, <1>5, StageKept
<1>7. CASE t \in contested
  <2>1. Stage(t) = "contested" /\ Stage(t)' = "contested"
    BY <1>0, <1>3, <1>4, <1>7, StageIs, StagePrime
  <2> QED
    BY <1>3, <1>4, <1>6, <2>1 DEF Contract!cvars
<1>8. CASE t \notin contested /\ t \in Exchanging(r)
  <2>1. Stage(t) = "live" /\ Stage(t)' = "contested"
    BY <1>0, <1>2, <1>3, <1>4, <1>8, StageIs, StagePrime
  <2> QED
    BY <1>3, <1>4, <1>6, <2>1, ClosesOne
<1>9. CASE t \notin contested /\ t \notin Exchanging(r)
  <2>1. Stage(t) = "live" /\ Stage(t)' = "rotating"
    BY <1>0, <1>2, <1>3, <1>4, <1>5, <1>9, StageIs, StagePrime
  <2>2. Contract!GiveUp(t)
    BY <1>3, <1>4, <1>6, <2>1 DEF Contract!GiveUp
  <2> QED
    BY <2>2 DEF Contract!ContractNext
<1> QED
  BY <1>7, <1>8, <1>9

LEMMA ReissueRefines ==
  ASSUME TypeOK, SessionInv, NEW r \in Requests, RefreshStore(r)
  PROVE  Contract!ContractNext
<1>0. /\ row \in [Times -> TokenRow] /\ now \in Times /\ req \in [Requests -> RequestState]
      /\ req[r].token \in Times /\ req[r].pc = "reissue"
  BY RequestTyped DEF TypeOK, RefreshStore
<1>t. PICK t \in Times, n \in Times : t = req[r].token /\ n = now
  BY <1>0
<1>1. /\ req'[r].pc = "idle"
      /\ \A s \in Requests \ {r} : req'[s] = req[s]
  BY <1>0, Answered DEF RefreshStore
<1>2. /\ row[t].status # "none"
      /\ t \notin contested =>
            /\ row[t].status = "revoked"
            /\ \A s \in Requests \ {r} : ~(req[s].pc = "reissue" /\ req[s].token = t)
  BY <1>0, <1>t DEF SessionInv, Exchanges, InExchange
<1>3. row[t].born \in Versions
  BY <1>0 DEF TokenRow
<1>4. /\ row[n].status = "none" /\ row' \in [Times -> TokenRow]
      /\ row'[n].status = "live" /\ row'[n].born = row[t].born /\ row'[n].parent = t
      /\ \A u \in Times : u # n => row'[u] = row[u]
  BY <1>0, <1>t, <1>3, CreatedRow DEF RefreshStore, HashIsNew
<1>5. /\ UNCHANGED <<accounts, password, outdated>>
      /\ contested' = contested \cup (IF t \in contested THEN {n} ELSE {})
  BY <1>t DEF RefreshStore
<1>6. t # n /\ n \notin contested
  BY <1>2, <1>4 DEF SessionInv, Exchanges
<1>7. \A u \in Times : u # t => (Rotating(u)' <=> Rotating(u))
  BY <1>0, <1>t, <1>1 DEF Rotating
<1>8. Stage(n) = "unused"
  BY <1>0, <1>4, <1>6, StageIs
<1>9. \A u \in Times : u # t /\ u # n => Stage(u)' = Stage(u)
  BY <1>4, <1>5, <1>7, StageKept
<1>10. CASE t \in contested
  <2>1. Stage(t) = "contested" /\ Stage(t)' = "contested" /\ Stage(n)' = "contested"
    BY <1>0, <1>4, <1>5, <1>10, StageIs, StagePrime
  <2>2. Contract!ReplaceContested(t, n)
    BY <1>4, <1>5, <1>8, <1>9, <2>1 DEF Contract!ReplaceContested, Contract!Issue
  <2> QED
    BY <2>2 DEF Contract!ContractNext
<1>11. CASE t \notin contested
  <2>1. Rotating(t) /\ ~Rotating(t)'
    BY <1>0, <1>t, <1>1, <1>2, <1>11 DEF Rotating
  <2>2. contested' = contested
    BY <1>5, <1>11
  <2>3. Stage(t) = "rotating"
    BY <1>0, <1>2, <1>11, <2>1, StageIs
  <2>4. Stage(t)' = "spent" /\ Stage(n)' = "live"
    BY <1>2, <1>4, <1>6, <1>11, <2>1, <2>2, StagePrime
  <2>5. Contract!Replace(t, n)
    BY <1>4, <1>5, <1>6, <1>8, <1>9, <2>3, <2>4 DEF Contract!Replace
  <2> QED
    BY <2>5 DEF Contract!ContractNext
<1> QED
  BY <1>10, <1>11

\* What other requests are exchanging, and nobody contests, is live or rotating.
LEMMA Disputable ==
  ASSUME TypeOK, SessionInv, NEW r \in Requests, NEW t \in Exchanging(r), t \notin contested
  PROVE  t \in Times /\ Stage(t) \in {"live", "rotating"}
<1>1. t \in Times /\ \E s \in Requests : req[s].pc \in {"rotate", "reissue"} /\ req[s].token = t
  BY DEF Exchanging
<1>2. PICK s \in Requests : req[s].pc \in {"rotate", "reissue"} /\ req[s].token = t
  BY <1>1
<1>3. row \in [Times -> TokenRow]
  BY DEF TypeOK
<1>4. CASE req[s].pc = "rotate"
  <2>1. row[t].status = "live"
    BY <1>1, <1>2, <1>4 DEF SessionInv, Exchanges, InExchange
  <2> QED
    BY <1>1, <1>3, <2>1, StageIs
<1>5. CASE req[s].pc = "reissue"
  <2>1. row[t].status = "revoked" /\ Rotating(t)
    BY <1>1, <1>2, <1>5 DEF SessionInv, Exchanges, InExchange, Rotating
  <2> QED
    BY <1>1, <1>3, <2>1, StageIs
<1> QED
  BY <1>2, <1>4, <1>5

LEMMA LogoutRefines ==
  ASSUME TypeOK, SessionInv, NEW r \in Requests, NEW t \in Times, Logout(r, t)
  PROVE  Contract!ContractNext \/ UNCHANGED Contract!cvars
<1>0. row \in [Times -> TokenRow] /\ row[t].status \in {"none", "live", "revoked"}
  BY DEF TypeOK, TokenRow
<1>1. /\ UNCHANGED <<accounts, password, req, outdated>> /\ req[r].pc = "idle"
      /\ contested' = contested \cup ({t} \cap Exchanging(r))
  BY DEF Logout, Begin
<1>2. /\ row' \in [Times -> TokenRow]
      /\ row'[t].status = IF row[t].status = "none" THEN "none" ELSE "revoked"
      /\ \A u \in Times : /\ u # t => row'[u] = row[u]
                          /\ row'[u].born = row[u].born /\ row'[u].parent = row[u].parent
  BY <1>0, RevokedRow DEF Logout
<1>3. \A u \in Times : Rotating(u)' <=> Rotating(u)
  BY <1>1 DEF Rotating
<1>4. \A u \in Times : u # t => Stage(u)' = Stage(u)
  BY <1>1, <1>2, <1>3, StageKept
<1>5. CASE t \in contested
  <2>1. Stage(t) = "contested" /\ Stage(t)' = "contested"
    BY <1>0, <1>1, <1>2, <1>5, StageIs, StagePrime
  <2> QED
    BY <1>1, <1>2, <1>4, <2>1 DEF Contract!cvars
<1>6. CASE t \notin contested /\ t \in Exchanging(r)
  <2>1. Stage(t) \in {"live", "rotating"}
    BY <1>6, Disputable
  <2>2. Stage(t)' = "contested"
    BY <1>1, <1>2, <1>6, StagePrime
  <2> QED
    BY <1>1, <1>2, <1>4, <2>1, <2>2, ClosesOne
<1>7. CASE t \notin contested /\ t \notin Exchanging(r)
  <2>1. ~Rotating(t) /\ ~Rotating(t)' /\ contested' = contested
    BY <1>1, <1>3, <1>7 DEF Exchanging, Rotating
  <2>2. Stage(t)' = IF Stage(t) \in {"live", "rotating"} THEN "spent" ELSE Stage(t)
    BY <1>0, <1>2, <1>7, <2>1, StageIs, StagePrime
  <2> QED
    BY <1>1, <1>2, <1>4, <2>2, ClosesOne
<1> QED
  BY <1>5, <1>6, <1>7

\* All sessions are ended; what somebody else was exchanging is contested.
LEMMA AllGivenBack ==
  ASSUME TypeOK, SessionInv, NEW r \in Requests, LogoutAll(r) \/ ChangeRevoke(r)
  PROVE  \E D \in SUBSET Times :
           /\ \A t \in D : Stage(t) \in {"live", "rotating"}
           /\ \A t \in Times :
                /\ t \in D => Stage(t)' = "contested"
                /\ t \notin D => Stage(t)' = IF Stage(t) \in {"live", "rotating"}
                                             THEN "spent" ELSE Stage(t)
                /\ row'[t].born = row[t].born /\ row'[t].parent = row[t].parent
<1> DEFINE D == Exchanging(r) \ contested
<1>0. /\ row \in [Times -> TokenRow]
      /\ req \in [Requests -> RequestState]
  BY DEF TypeOK
<1>1. row' = AllRevoked /\ contested' = contested \cup Exchanging(r)
  BY DEF LogoutAll, ChangeRevoke, RevokeAllByUserID
<1>2. /\ req'[r].pc = "idle"
      /\ \A s \in Requests \ {r} : req'[s] = req[s]
  BY <1>0, Answered DEF LogoutAll, ChangeRevoke, Begin
<1>3. /\ row' \in [Times -> TokenRow]
      /\ \A t \in Times : /\ row'[t].status = IF row[t].status = "live" THEN "revoked"
                                                                        ELSE row[t].status
                          /\ row'[t].born = row[t].born /\ row'[t].parent = row[t].parent
  BY <1>0, <1>1, AllRevokedRow
<1>4. D \in SUBSET Times /\ \A t \in D : Stage(t) \in {"live", "rotating"}
  BY Disputable DEF Exchanging
<1>5. ASSUME NEW t \in Times
      PROVE  /\ t \in D => Stage(t)' = "contested"
             /\ t \notin D => Stage(t)' = IF Stage(t) \in {"live", "rotating"}
                                          THEN "spent" ELSE Stage(t)
  <2>0. row[t].status \in {"none", "live", "revoked"}
    BY <1>0 DEF TokenRow
  <2>1. CASE t \in contested
    <3>1. Stage(t) = "contested" /\ Stage(t)' = "contested"
      BY <1>0, <1>1, <1>3, <2>1, StageIs, StagePrime
    <3> QED
      BY <2>1, <3>1
  <2>2. CASE t \in D
    BY <1>1, <1>3, <2>2, StagePrime
  <2>3. CASE t \notin contested /\ t \notin D
    <3>1. ~Rotating(t)' /\ t \notin contested'
      BY <1>1, <1>2, <2>3 DEF Exchanging, Rotating
    <3>2. Stage(t)' = IF row[t].status = "none" THEN "unused" ELSE "spent"
      BY <1>3, <2>0, <3>1, StagePrime
    <3>3. /\ row[t].status = "none" => Stage(t) = "unused"
          /\ row[t].status = "live" => Stage(t) = "live"
          /\ row[t].status = "revoked" => Stage(t) \in {"rotating", "spent"}
      BY <1>0, <2>3, StageIs
    <3> QED
      BY <2>0, <2>3, <3>2, <3>3
  <2> QED
    BY <2>1, <2>2, <2>3
<1> HIDE DEF D
<1> QED
  BY <1>3, <1>4, <1>5

LEMMA LogoutAllRefines ==
  ASSUME TypeOK, SessionInv, NEW r \in Requests, LogoutAll(r)
  PROVE  Contract!ContractNext
<1>1. PICK D \in SUBSET Times :
           /\ \A t \in D : Stage(t) \in {"live", "rotating"}
           /\ \A t \in Times :
                /\ t \in D => Stage(t)' = "contested"
                /\ t \notin D => Stage(t)' = IF Stage(t) \in {"live", "rotating"}
                                             THEN "spent" ELSE Stage(t)
                /\ row'[t].born = row[t].born /\ row'[t].parent = row[t].parent
  BY AllGivenBack
<1>2. UNCHANGED <<accounts, password, outdated>>
  BY DEF LogoutAll
<1> QED
  BY <1>1, <1>2, Closes

LEMMA ChangeRefines ==
  ASSUME TypeOK, SessionInv, NEW r \in Requests, ChangeRevoke(r)
  PROVE  Contract!ContractNext
<1>1. PICK D \in SUBSET Times :
           /\ \A t \in D : Stage(t) \in {"live", "rotating"}
           /\ \A t \in Times :
                /\ t \in D => Stage(t)' = "contested"
                /\ t \notin D => Stage(t)' = IF Stage(t) \in {"live", "rotating"}
                                             THEN "spent" ELSE Stage(t)
                /\ row'[t].born = row[t].born /\ row'[t].parent = row[t].parent
  BY AllGivenBack
<1>2. PICK v \in Versions : v = req[r].password
  BY RequestTyped
<1>3. /\ v \in 0 .. password /\ outdated' = v
      /\ UNCHANGED <<accounts, password>>
  BY <1>2 DEF ChangeRevoke, SessionInv, Logins, TypeOK, Versions
<1>4. Contract!Acknowledge(v, D)
  BY <1>1, <1>3 DEF Contract!Acknowledge, Contract!GivenBack
<1> QED
  BY <1>3, <1>4 DEF Contract!ContractNext

LEMMA FailRefines ==
  ASSUME TypeOK, SessionInv, NEW r \in Requests, RequestFails(r)
  PROVE  Contract!ContractNext \/ UNCHANGED Contract!cvars
<1>0. /\ row \in [Times -> TokenRow] /\ req \in [Requests -> RequestState]
  BY DEF TypeOK
<1>1. /\ req'[r].pc = "idle"
      /\ \A s \in Requests \ {r} : req'[s] = req[s]
  BY <1>0, Answered DEF RequestFails
<1>2. UNCHANGED <<accounts, password, row, outdated, contested>>
  BY DEF RequestFails
<1>3. CASE req[r].pc # "reissue"
  <2>1. RowsAsBefore
    BY <1>1, <1>2, <1>3, Moves
  <2> QED
    BY <1>2, <2>1 DEF RowsAsBefore, Contract!cvars
<1>4. CASE req[r].pc = "reissue"
  <2>1. PICK t \in Times : t = req[r].token
    BY <1>4, RequestTyped
  <2>2. \A u \in Times : u # t => (Rotating(u)' <=> Rotating(u))
    BY <1>1, <1>4, <2>1 DEF Rotating
  <2>3. CASE t \in contested
    <3>1. RowsAsBefore
      BY <1>2, <2>2, <2>3, StageKept DEF RowsAsBefore
    <3> QED
      BY <1>2, <3>1 DEF RowsAsBefore, Contract!cvars
  <2>4. CASE t \notin contested
    <3>1. /\ row[t].status = "revoked"
          /\ \A s \in Requests \ {r} : ~(req[s].pc = "reissue" /\ req[s].token = t)
      BY <1>4, <2>1, <2>4 DEF SessionInv, Exchanges, InExchange
    <3>2. Rotating(t) /\ ~Rotating(t)'
      BY <1>1, <1>4, <2>1, <3>1 DEF Rotating
    <3>3. Stage(t) = "rotating" /\ Stage(t)' = "spent"
      BY <1>0, <1>2, <2>4, <3>1, <3>2, StageIs, StagePrime
    <3>4. \A u \in Times : u # t => Stage(u)' = Stage(u)
      BY <1>2, <2>2, StageKept
    <3> QED
      BY <1>2, <3>3, <3>4, ClosesOne
  <2> QED
    BY <2>3, <2>4
<1> QED
  BY <1>3, <1>4

LEMMA NextRefines ==
  TypeOK /\ SessionInv /\ [Next]_vars => [Contract!ContractNext]_(Contract!cvars)
<1> SUFFICES ASSUME TypeOK, SessionInv, [Next]_vars
             PROVE  Contract!ContractNext \/ UNCHANGED Contract!cvars
  OBVIOUS
<1> USE DEF RequestPCs
<1>0. /\ 0 \in Versions /\ None \in Times \cup {None} /\ password \in Versions
      /\ req \in [Requests -> RequestState]
  BY TimeAssumption DEF TypeOK, Versions
<1>1. ASSUME NEW r \in Requests, NEW pc \in RequestPCs, NEW t \in Times \cup {None}, NEW v \in Versions,
             req[r].pc # "reissue", pc # "reissue", Enter(r, pc, t, v), row' = row,
             contested' = contested
      PROVE  RowsAsBefore
  <2>1. /\ req'[r].pc = pc
        /\ \A s \in Requests \ {r} : req'[s] = req[s]
    BY <1>0, <1>1, Entered
  <2> QED
    BY <1>1, <2>1, Moves
<1>2. ASSUME NEW r \in Requests,
             \/ RegisterRead(r) \/ LoginRead(r) \/ ChangeRead(r)
             \/ \E t \in Times : RefreshRead(r, t)
      PROVE  UNCHANGED Contract!cvars
  <2>1. RowsAsBefore
    BY <1>0, <1>1, <1>2 DEF RegisterRead, LoginRead, ChangeRead, RefreshRead, Begin
  <2>2. UNCHANGED <<accounts, password, outdated>>
    BY <1>2 DEF RegisterRead, LoginRead, ChangeRead, RefreshRead
  <2> QED
    BY <2>1, <2>2 DEF RowsAsBefore, Contract!cvars
<1>3. ASSUME NEW r \in Requests, RegisterCommit(r) PROVE Contract!ContractNext
  <2>1. RowsAsBefore
    BY <1>0, <1>1, <1>3 DEF RegisterCommit
  <2>2. /\ accounts = 0 /\ accounts' = 1
        /\ UNCHANGED <<password, outdated>>
    BY <1>3 DEF RegisterCommit, EmailIsNew
  <2> QED
    BY <2>1, <2>2 DEF RowsAsBefore, Contract!Enroll, Contract!ContractNext
<1>4. ASSUME NEW r \in Requests, ChangeUpdate(r) PROVE Contract!ContractNext
  <2>1. password + 1 \in Versions
    BY <1>0, <1>4, TimeAssumption DEF ChangeUpdate, Versions
  <2>2. RowsAsBefore
    BY <1>0, <1>1, <1>4, <2>1 DEF ChangeUpdate
  <2>3. password' = password + 1 /\ UNCHANGED <<accounts, outdated>>
    BY <1>4 DEF ChangeUpdate
  <2> QED
    BY <2>2, <2>3 DEF RowsAsBefore, Contract!ChangeSecret, Contract!ContractNext
<1>5. CASE Tick \/ UNCHANGED vars
  <2>1. UNCHANGED <<accounts, password, row, req, outdated, contested>>
    BY <1>5 DEF Tick, vars
  <2>2. RowsAsBefore
    BY <2>1, StageKept DEF Rotating, RowsAsBefore
  <2> QED
    BY <2>1, <2>2 DEF RowsAsBefore, Contract!cvars
<1> QED
  BY <1>2, <1>3, <1>4, <1>5, StoreRefines, RevokeRefines, ReissueRefines, LogoutRefines,
     LogoutAllRefines, ChangeRefines, FailRefines DEF Next, RequestStep

\* Sessions are opened, exchanged and ended as SessionContract promises, however the
\* requests overtake each other; what they were about at once is contested.
THEOREM ContractImplemented == Spec => ContractSpec
<1>1. TypeOK /\ SessionInv /\ [Next]_vars => SessionInv' /\ [Contract!ContractNext]_(Contract!cvars)
  BY NextSession, NextRefines
<1> QED
  BY <1>1, InitTyped, NextTyped, InitSession, InitRefines, PTL
     DEF Spec, ContractSpec, Contract!ContractSpec
-----------------------------------------------------------------------------
(* What the promises come to: invariants of every step of the contract *)

\* A session that goes on is not outdated; what was exchanged is spent, for one token.
Promised ==
    /\ \A t \in Times : Stage(t) \in {"live", "rotating"} => outdated <= row[t].born
    /\ \A t, p \in Times : row[t].parent = p => Stage(p) \in {"spent", "contested"}
    /\ \A t, u, p \in Times : row[t].parent = p /\ row[u].parent = p /\ Stage(p) = "spent" => t = u

\* What a step of the contract must leave as it is to leave the promises kept.
LEMMA PromisesKept ==
  ASSUME Promised, outdated' = outdated,
         \A t \in Times :
            /\ Stage(t)' \in {"live", "rotating"} => Stage(t) \in {"live", "rotating"}
            /\ Stage(t) = "spent" => Stage(t)' \in {"spent", "contested"}
            /\ Stage(t) = "contested" => Stage(t)' = "contested"
            /\ row'[t].born = row[t].born /\ row'[t].parent = row[t].parent
  PROVE  Promised'
<1>1. \A t \in Times : Stage(t)' \in {"live", "rotating"} => outdated' <= row'[t].born
  BY DEF Promised
<1>2. \A t, p \in Times : row'[t].parent = p => Stage(p)' \in {"spent", "contested"}
  BY DEF Promised
<1>3. \A t, p \in Times : row'[t].parent = p /\ Stage(p)' = "spent" => Stage(p) = "spent"
  BY DEF Promised
<1>4. \A t, u, p \in Times : row'[t].parent = p /\ row'[u].parent = p /\ Stage(p)' = "spent" => t = u
  BY <1>3 DEF Promised
<1> QED
  BY <1>1, <1>2, <1>4 DEF Promised

\* A token is issued: n is the token, v the password, q what it was given for.
LEMMA PromisesIssue ==
  ASSUME Promised, outdated' = outdated, None \notin Times,
         NEW n \in Times, NEW v, NEW q \in Times \cup {None},
         Stage(n) = "unused",
         row'[n].born = v, row'[n].parent = q,
         Stage(n)' \in {"live", "rotating"} => outdated <= v,
         q \in Times => /\ q # n /\ Stage(q) \in {"rotating", "contested"}
                        /\ Stage(q)' = IF Stage(q) = "rotating" THEN "spent" ELSE "contested",
         \A t \in Times \ {n} : /\ t # q => Stage(t)' = Stage(t)
                                /\ row'[t].born = row[t].born /\ row'[t].parent = row[t].parent
  PROVE  Promised'
<1>1. \A t \in Times : Stage(t)' \in {"live", "rotating"} => outdated' <= row'[t].born
  BY DEF Promised
<1>2. \A t \in Times \ {n} : \A p \in Times : row[t].parent = p =>
         /\ p # n /\ Stage(p) \in {"spent", "contested"}
         /\ p = q => Stage(p)' = "contested"
         /\ Stage(p)' = Stage(p)
  BY DEF Promised
<1>3. \A t, p \in Times : row'[t].parent = p => Stage(p)' \in {"spent", "contested"}
  BY <1>2
<1>4. ASSUME NEW t \in Times, NEW u \in Times, NEW p \in Times,
             row'[t].parent = p, row'[u].parent = p, Stage(p)' = "spent"
      PROVE  t = u
  <2>1. CASE t # n /\ u # n
    BY <1>2, <1>4, <2>1 DEF Promised
  <2>2. CASE t = n \/ u = n
    BY <1>2, <1>4, <2>2
  <2> QED
    BY <2>1, <2>2
<1> QED
  BY <1>1, <1>3, <1>4 DEF Promised

LEMMA NextPromised ==
  ASSUME TypeOK, TypeOK', Promised, Contract!ContractNext \/ UNCHANGED Contract!cvars
  PROVE  Promised'
<1>0. /\ row \in [Times -> TokenRow] /\ None \notin Times
      /\ \A t \in Times : row[t].born \in Nat
  BY NoneAssumption DEF TypeOK, TokenRow, Versions, Times
<1>1. CASE UNCHANGED Contract!cvars \/ Contract!Enroll \/ Contract!ChangeSecret
  <2>1. outdated' = outdated /\ \A t \in Times : Stage(t)' = Stage(t) /\ row'[t].born = row[t].born
                                                  /\ row'[t].parent = row[t].parent
    BY <1>1 DEF Contract!cvars, Contract!Enroll, Contract!ChangeSecret
  <2> QED
    BY <1>0, <2>1, PromisesKept
<1>2. ASSUME NEW n \in Times, NEW v \in 0 .. password, Contract!Open(n, v) PROVE Promised'
  <2>1. /\ outdated' = outdated /\ Stage(n) = "unused"
        /\ Stage(n)' = IF outdated <= v THEN "live" ELSE "contested"
        /\ row'[n].born = v /\ row'[n].parent = None
        /\ \A t \in Times \ {n} : /\ Stage(t)' = Stage(t)
                                  /\ row'[t].born = row[t].born /\ row'[t].parent = row[t].parent
    BY <1>2 DEF Contract!Open, Contract!Issue
  <2> QED
    BY <1>0, <2>1, PromisesIssue
<1>3. ASSUME NEW t \in Times, NEW n \in Times, Contract!Replace(t, n) PROVE Promised'
  <2>1. /\ outdated' = outdated /\ Stage(n) = "unused" /\ Stage(t) = "rotating" /\ t # n
        /\ Stage(n)' = "live" /\ Stage(t)' = "spent"
        /\ row'[n].born = row[t].born /\ row'[n].parent = t
        /\ \A u \in Times \ {n} : /\ u # t => Stage(u)' = Stage(u)
                                  /\ row'[u].born = row[u].born /\ row'[u].parent = row[u].parent
    BY <1>3 DEF Contract!Replace
  <2>2. outdated <= row[t].born
    BY <2>1 DEF Promised
  <2> QED
    BY <1>0, <2>1, <2>2, PromisesIssue
<1>4. ASSUME NEW t \in Times, NEW n \in Times, Contract!ReplaceContested(t, n) PROVE Promised'
  <2>1. /\ outdated' = outdated /\ Stage(n) = "unused" /\ Stage(t) = "contested" /\ t # n
        /\ Stage(n)' = "contested" /\ Stage(t)' = "contested"
        /\ row'[n].born = row[t].born /\ row'[n].parent = t
        /\ \A u \in Times \ {n} : /\ u # t => Stage(u)' = Stage(u)
                                  /\ row'[u].born = row[u].born /\ row'[u].parent = row[u].parent
    BY <1>4 DEF Contract!ReplaceContested, Contract!Issue
  <2> QED
    BY <1>0, <2>1, PromisesIssue
<1>5. ASSUME NEW t \in Times, Contract!GiveUp(t) PROVE Promised'
  <2>1. /\ outdated' = outdated /\ Stage(t) = "live" /\ Stage(t)' = "rotating"
        /\ \A u \in Times : /\ u # t => Stage(u)' = Stage(u)
                            /\ row'[u].born = row[u].born /\ row'[u].parent = row[u].parent
    BY <1>5 DEF Contract!GiveUp
  <2> QED
    BY <1>0, <2>1, PromisesKept
<1>6. ASSUME NEW T \in SUBSET Times, NEW D \in SUBSET Times, Contract!Close(T, D) PROVE Promised'
  <2>1. /\ outdated' = outdated /\ \A t \in D : Stage(t) \in {"live", "rotating"}
        /\ \A t \in Times :
              /\ Stage(t)' = IF t \in D THEN "contested"
                             ELSE IF t \in T /\ Stage(t) \in {"live", "rotating"} THEN "spent"
                             ELSE Stage(t)
              /\ row'[t].born = row[t].born /\ row'[t].parent = row[t].parent
    BY <1>6 DEF Contract!Close, Contract!GivenBack
  <2> QED
    BY <1>0, <2>1, PromisesKept
<1>7. ASSUME NEW v \in 0 .. password, NEW D \in SUBSET Times, Contract!Acknowledge(v, D)
      PROVE  Promised'
  <2>1. /\ \A t \in D : Stage(t) \in {"live", "rotating"}
        /\ \A t \in Times :
              /\ Stage(t)' = IF t \in D THEN "contested"
                             ELSE IF Stage(t) \in {"live", "rotating"} THEN "spent"
                             ELSE Stage(t)
              /\ row'[t].born = row[t].born /\ row'[t].parent = row[t].parent
    BY <1>7 DEF Contract!Acknowledge, Contract!GivenBack
  <2>2. \A t \in Times : /\ Stage(t)' \notin {"live", "rotating"}
                         /\ Stage(t) \in {"spent", "contested"} => Stage(t)' = Stage(t)
    BY <2>1
  <2>3. \A t, p \in Times : row'[t].parent = p => Stage(p)' = Stage(p) /\ row[t].parent = p
    BY <2>1, <2>2 DEF Promised
  <2> QED
    BY <2>1, <2>2, <2>3 DEF Promised
<1> QED
  BY <1>1, <1>2, <1>3, <1>4, <1>5, <1>6, <1>7 DEF Contract!ContractNext

LEMMA InitPromised == Init => Promised
<1> SUFFICES ASSUME Init PROVE Promised
  OBVIOUS
<1>1. \A t \in Times : row[t] = NoRow
  BY DEF Init
<1>2. \A t \in Times : row[t].status = "none" /\ row[t].parent = None
  BY <1>1 DEF NoRow
<1>3. \A t \in Times : Stage(t) = "unused"
  BY <1>2 DEF Init, Stage
<1> QED
  BY <1>2, <1>3, NoneAssumption DEF Promised, Times

LEMMA AlwaysPromised == Spec => []Promised
<1>1. TypeOK /\ TypeOK' /\ SessionInv /\ Promised /\ [Next]_vars => SessionInv' /\ Promised'
  BY NextSession, NextRefines, NextPromised
<1> QED
  BY <1>1, InitTyped, NextTyped, InitSession, InitPromised, PTL DEF Spec

\* A refresh token is exchanged for at most one other, unless another request was
\* exchanging or revoking it at the time.
THEOREM UsedOnceCorrect == Spec => []UsedOnce
<1>1. TypeOK /\ Promised => UsedOnce
  <2> SUFFICES ASSUME TypeOK, Promised, NEW t \in Times, NEW u \in Times,
                      row[t].parent \notin contested \cup {None}, row[t].parent = row[u].parent
               PROVE  t = u
    BY DEF UsedOnce
  <2>1. row[t].parent \in Times
    BY DEF TypeOK, TokenRow
  <2>2. PICK p \in Times : p = row[t].parent /\ p # None /\ p \notin contested
    BY <2>1
  <2>3. Stage(p) # "contested"
    BY <2>2 DEF Stage
  <2>4. Stage(p) = "spent"
    BY <2>2, <2>3 DEF Promised
  <2> QED
    BY <2>2, <2>4 DEF Promised
<1> QED
  BY <1>1, TypeCorrect, AlwaysPromised, PTL

\* Once a change of password is acknowledged, the sessions of the older password are
\* over, except those that a request was refreshing or opening meanwhile.
THEOREM OldSessionsEndCorrect == Spec => []OldSessionsEnd
<1>1. TypeOK /\ Promised => OldSessionsEnd
  BY StageIs DEF TypeOK, Promised, OldSessionsEnd
<1> QED
  BY <1>1, TypeCorrect, AlwaysPromised, PTL
=============================================================================
