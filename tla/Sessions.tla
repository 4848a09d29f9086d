------------------------------ MODULE Sessions ------------------------------
(***************************************************************************)
(* The sessions of one account: registration, login, refresh, logout       *)
(* (auth_service.go) and the change of password (user_service.go).  None   *)
(* of them but registration uses a transaction, so every statement is a    *)
(* step, and a request carries what it has read.                           *)
(*                                                                         *)
(* A refresh token is signed over the user and two times that are cut to   *)
(* seconds: two tokens of one second are the same string and have the same *)
(* hash.  So the second of its issue is the token.  An access token is     *)
(* stored nowhere and is good until it expires.                            *)
(***************************************************************************)
EXTENDS Naturals

CONSTANTS
    Requests,     \* API requests that may be in progress
    None,         \* no token
    RefreshTTL,   \* JWT_REFRESH_TTL and JWT_ACCESS_TTL, in units of the clock
    AccessTTL,
    MaxTime,      \* bound of the clock
    MaxPassword   \* bound of the changes of password

ASSUME TimeAssumption     == {RefreshTTL, AccessTTL, MaxTime, MaxPassword} \subseteq Nat
ASSUME NoneAssumption     == None \notin 0 .. MaxTime

VARIABLES
    now,        \* the clock
    accounts,   \* the rows of users with the account's email
    password,   \* the version of password_hash
    row,        \* token -> its row of refresh_tokens
    held,       \* the refresh tokens that clients were given
    access,     \* the access tokens that clients were given
    req,        \* request -> its local variables
    outdated,   \* history: the last change of password that was acknowledged
    closed,     \* history: when all sessions were ended, and no login since
    contested   \* history: the tokens that two requests were about at once

vars == <<now, accounts, password, row, held, access, req, outdated, closed, contested>>

Times    == 0 .. MaxTime
Versions == 0 .. MaxPassword

\* `born' (the password the session was opened with) and `parent' (the token
\* exchanged for this one) are history; the table has neither.
NoRow == [status |-> "none", born |-> 0, parent |-> None]
TokenRow == [status : {"none", "live", "revoked"}, born : Versions, parent : Times \cup {None}]

IdleRequest  == [pc |-> "idle", token |-> None, password |-> 0]
RequestPCs   == {"idle", "creating", "store", "rotate", "reissue", "change", "revokeAll"}
RequestState == [pc : RequestPCs, token : Times \cup {None}, password : Versions]

TypeOK == /\ now \in Times
          /\ accounts \in {0, 1}
          /\ password \in Versions
          /\ row \in [Times -> TokenRow]
          /\ held \in SUBSET Times
          /\ access \in SUBSET (0 .. now)
          /\ req \in [Requests -> RequestState]
          /\ outdated \in Versions
          /\ closed \in Times \cup {None}
          /\ contested \in SUBSET Times
          /\ \A r \in Requests : req[r].pc \in {"rotate", "reissue"} => req[r].token \in held

Init == /\ now = 0
        /\ accounts = 0
        /\ password = 0
        /\ row = [t \in Times |-> NoRow]
        /\ held = {}
        /\ access = {}
        /\ req = [r \in Requests |-> IdleRequest]
        /\ outdated = 0
        /\ closed = None
        /\ contested = {}

-----------------------------------------------------------------------------
(* Tokens *)

Unexpired(t) == now < t + RefreshTTL

\* Mutant of IsValid: only the expiry is checked.
IsUnexpired(t) == row[t].status # "none" /\ Unexpired(t)

\* RefreshToken.IsValid, once the signature and the expiry were checked.
IsValid(t) == row[t].status = "live" /\ Unexpired(t)

\* Mutant of HashIsNew: the hash is unique among the tokens that are not revoked.
HashIsNotLive(t) == row[t].status # "live"

\* Create fails on the unique token_hash when the second has its token already.
HashIsNew(t) == row[t].status = "none"

Created(t, v, parent) ==
    row' = [row EXCEPT ![t] = [status |-> "live", born |-> v, parent |-> parent]]

Revoked(t) == IF row[t].status = "none" THEN row ELSE [row EXCEPT ![t].status = "revoked"]

AllRevoked == [t \in Times |-> IF row[t].status = "live" THEN [row[t] EXCEPT !.status = "revoked"]
                                                        ELSE row[t]]

\* The client is given the pair of tokens of this second.
GiveTokens == /\ held' = held \cup {now}
              /\ access' = access \cup {now}

\* middleware.Auth: any access token of the account that has not expired.
Authenticated == \E a \in access : now < a + AccessTTL

Begin(r) == req[r].pc = "idle"
Enter(r, pc, t, v) == req' = [req EXCEPT ![r] = [pc |-> pc, token |-> t, password |-> v]]
Answer(r) == req' = [req EXCEPT ![r] = IdleRequest]

\* The tokens that requests other than r have found valid and are exchanging.
Exchanging(r) == {t \in Times : \E s \in Requests \ {r} :
                                    req[s].pc \in {"rotate", "reissue"} /\ req[s].token = t}

\* The requests that will give tokens to a client if nothing fails.
Opening == {r \in Requests : req[r].pc \in {"store", "rotate", "reissue"}}

-----------------------------------------------------------------------------
(* Register and Login *)

\* ExistsByEmail and ExistsByPhone, then the slow hash of the password.
RegisterRead(r) ==
    /\ Begin(r)
    /\ accounts = 0
    /\ Enter(r, "creating", None, 0)
    /\ UNCHANGED <<now, accounts, password, row, held, access, outdated, closed, contested>>

\* Mutant of EmailIsNew: the check before the transaction is all there is.
EmailWasChecked == TRUE

\* The unique indexes on email and phone.
EmailIsNew == accounts = 0

RegisterCommit(r) ==
    /\ req[r].pc = "creating"
    /\ EmailIsNew
    /\ accounts' = accounts + 1
    /\ Enter(r, "store", None, password)
    /\ closed' = None
    /\ UNCHANGED <<now, password, row, held, access, outdated, contested>>

\* FindByEmail and the comparison with the password hash of that row.
LoginRead(r) ==
    /\ Begin(r)
    /\ accounts = 1
    /\ Enter(r, "store", None, password)
    /\ closed' = None
    /\ UNCHANGED <<now, accounts, password, row, held, access, outdated, contested>>

\* The tokens are generated and the row inserted in one second.  An error of Create is
\* only logged: the client gets the tokens all the same.  The password may have been
\* changed since it was verified.
StoreToken(r) ==
    /\ req[r].pc = "store"
    /\ \/ /\ HashIsNew(now)
          /\ Created(now, req[r].password, None)
          /\ contested' = contested \cup (IF req[r].password < outdated THEN {now} ELSE {})
       \/ UNCHANGED <<row, contested>>
    /\ GiveTokens
    /\ Answer(r)
    /\ UNCHANGED <<now, accounts, password, outdated, closed>>

-----------------------------------------------------------------------------
(* RefreshAccessToken *)

RefreshRead(r, t) ==
    /\ Begin(r)
    /\ t \in held
    /\ IsValid(t)
    /\ Enter(r, "rotate", t, 0)
    /\ UNCHANGED <<now, accounts, password, row, held, access, outdated, closed, contested>>

\* Mutant of RefreshRevoke: the token is left as it is.
RefreshKeep(r) ==
    /\ req[r].pc = "rotate"
    /\ contested' = contested \cup ({req[r].token} \cap Exchanging(r))
    /\ Enter(r, "reissue", req[r].token, 0)
    /\ UNCHANGED <<now, accounts, password, row, held, access, outdated, closed>>

\* RevokeByTokenHash is unconditional: it does not say whether it found the
\* token live.
RefreshRevoke(r) ==
    /\ req[r].pc = "rotate"
    /\ row' = Revoked(req[r].token)
    /\ contested' = contested \cup ({req[r].token} \cap Exchanging(r))
    /\ Enter(r, "reissue", req[r].token, 0)
    /\ UNCHANGED <<now, accounts, password, held, access, outdated, closed>>

RefreshStore(r) ==
    /\ req[r].pc = "reissue"
    /\ HashIsNew(now)
    /\ Created(now, row[req[r].token].born, req[r].token)
    /\ contested' = contested \cup (IF req[r].token \in contested THEN {now} ELSE {})
    /\ GiveTokens
    /\ Answer(r)
    /\ UNCHANGED <<now, accounts, password, outdated, closed>>

-----------------------------------------------------------------------------
(* Logout, LogoutAllDevices and ChangePassword *)

\* An error of the database is answered with OK as well; then nothing changes.
Logout(r, t) ==
    /\ Begin(r)
    /\ t \in held
    /\ row' = Revoked(t)
    /\ contested' = contested \cup ({t} \cap Exchanging(r))
    /\ UNCHANGED <<now, accounts, password, held, access, req, outdated, closed>>

RevokeAllByUserID(r) ==
    /\ row' = AllRevoked
    /\ closed' = IF Opening = {} THEN now ELSE None
    /\ contested' = contested \cup Exchanging(r)

LogoutAll(r) ==
    /\ Begin(r)
    /\ Authenticated
    /\ RevokeAllByUserID(r)
    /\ UNCHANGED <<now, accounts, password, held, access, req, outdated>>

\* The current password is verified against the row that was read.
ChangeRead(r) ==
    /\ Begin(r)
    /\ Authenticated
    /\ Enter(r, "change", None, password)
    /\ UNCHANGED <<now, accounts, password, row, held, access, outdated, closed, contested>>

ChangeUpdate(r) ==
    /\ req[r].pc = "change"
    /\ password < MaxPassword
    /\ password' = password + 1
    /\ Enter(r, "revokeAll", None, password + 1)
    /\ UNCHANGED <<now, accounts, row, held, access, outdated, closed, contested>>

\* The change is acknowledged only after the sessions were revoked.
ChangeRevoke(r) ==
    /\ req[r].pc = "revokeAll"
    /\ RevokeAllByUserID(r)
    /\ outdated' = req[r].password
    /\ Answer(r)
    /\ UNCHANGED <<now, accounts, password, held, access>>

-----------------------------------------------------------------------------
\* A statement fails, the client goes away or the process dies: the request ends
\* with what it has written, and the client is given nothing.
RequestFails(r) ==
    /\ req[r].pc # "idle"
    /\ Answer(r)
    /\ UNCHANGED <<now, accounts, password, row, held, access, outdated, closed, contested>>

Tick == /\ now < MaxTime
        /\ now' = now + 1
        /\ UNCHANGED <<accounts, password, row, held, access, req, outdated, closed, contested>>

RequestStep(r) == \/ RegisterRead(r)
                  \/ RegisterCommit(r)
                  \/ LoginRead(r)
                  \/ StoreToken(r)
                  \/ \E t \in Times : RefreshRead(r, t) \/ Logout(r, t)
                  \/ RefreshRevoke(r)
                  \/ RefreshStore(r)
                  \/ LogoutAll(r)
                  \/ ChangeRead(r)
                  \/ ChangeUpdate(r)
                  \/ ChangeRevoke(r)
                  \/ RequestFails(r)

Next == Tick \/ \E r \in Requests : RequestStep(r)

Spec == Init /\ [][Next]_vars

-----------------------------------------------------------------------------
(* What must hold *)

\* A revoked token never works again, not even when the account is used in the
\* second of its issue, in which a login is given the very same token
\* (RevokeByTokenHash, Create and the unique token_hash).
RevokedIsFinal ==
    [][\A t \in Times : row[t].status = "revoked" => row'[t].status = "revoked"]_vars

\* Access tokens cannot be revoked, so the account is really closed once the
\* last of them has expired: at the latest AccessTTL after all sessions were
\* ended, if nobody was logging in or refreshing then and nobody has logged in since
\* (Auth, RefreshAccessToken, LogoutAllDevices).
ClosedIsClosed == closed # None /\ now >= closed + AccessTTL => ~Authenticated

\* "Stolen token can only be used once" (auth_service.go:55): no two tokens were given
\* in exchange for the same one, unless it was exchanged while another request was
\* exchanging or revoking it.
UsedOnce == \A t, u \in Times :
    row[t].parent \notin contested \cup {None} /\ row[t].parent = row[u].parent => t = u

\* Once a change of password is acknowledged no session goes on that was opened with
\* an older one, with the same exception, and unless the login was in progress.
OldSessionsEnd == \A t \in Times : row[t].status = "live" /\ t \notin contested
                                      => outdated <= row[t].born

\* A token whose revocation somebody has promised to replace is given up.
Stage(t) == CASE t \in contested -> "contested"
              [] t \notin contested /\ row[t].status = "none" -> "unused"
              [] t \notin contested /\ row[t].status = "live" -> "live"
              [] OTHER -> IF \E r \in Requests : req[r].pc = "reissue" /\ req[r].token = t
                          THEN "rotating" ELSE "spent"

Contract == INSTANCE SessionContract
            WITH Tokens <- Times, secret <- password,
                 stage <- [t \in Times |-> Stage(t)],
                 born  <- [t \in Times |-> row[t].born],
                 parent <- [t \in Times |-> row[t].parent]

\* The sessions of an account keep the promises of SessionContract.
ContractSpec == Contract!ContractSpec
=============================================================================
