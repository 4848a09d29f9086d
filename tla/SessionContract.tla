--------------------------- MODULE SessionContract ---------------------------
(***************************************************************************)
(* What the holder of an account is promised about sessions: there is one  *)
(* account; a login opens a session; a refresh token is exchanged for at   *)
(* most one other, and never after it was given back; giving all of them   *)
(* back ends every session; and once a change of password is acknowledged, *)
(* no session goes on that was opened with an older one.                   *)
(*                                                                         *)
(* A token that is given back while it is being exchanged is contested,    *)
(* and so are a token of a login that the change of password overtook and  *)
(* what is given for a contested token.  These are promised nothing.       *)
(***************************************************************************)
EXTENDS Naturals

CONSTANTS Tokens, None

VARIABLES
    accounts,   \* how many accounts were made of one registration
    secret,     \* the version of the password
    outdated,   \* the acknowledged changes: older passwords are of no use
    stage,      \* token -> "unused", "live", "rotating", "spent" or "contested"
    born,       \* token -> the password its session was opened with
    parent      \* token -> the token it was given for, None after a login

cvars == <<accounts, secret, outdated, stage, born, parent>>

ContractInit == /\ accounts = 0
                /\ secret = 0
                /\ outdated = 0
                /\ stage = [t \in Tokens |-> "unused"]
                /\ born = [t \in Tokens |-> 0]
                /\ parent = [t \in Tokens |-> None]

Enroll == /\ accounts = 0
          /\ accounts' = 1
          /\ UNCHANGED <<secret, outdated, stage, born, parent>>

Issue(t, v, from, as) == /\ stage[t] = "unused"
                         /\ stage' = [stage EXCEPT ![t] = as]
                         /\ born' = [born EXCEPT ![t] = v]
                         /\ parent' = [parent EXCEPT ![t] = from]
                         /\ UNCHANGED <<accounts, secret, outdated>>

Open(t, v) == /\ accounts = 1
              /\ v \in 0 .. secret
              /\ Issue(t, v, None, IF outdated <= v THEN "live" ELSE "contested")

GiveUp(t) == /\ stage[t] = "live"
             /\ stage' = [stage EXCEPT ![t] = "rotating"]
             /\ UNCHANGED <<accounts, secret, outdated, born, parent>>

Replace(t, u) == /\ stage[t] = "rotating"
                 /\ stage[u] = "unused"
                 /\ stage' = [stage EXCEPT ![t] = "spent", ![u] = "live"]
                 /\ born' = [born EXCEPT ![u] = born[t]]
                 /\ parent' = [parent EXCEPT ![u] = t]
                 /\ UNCHANGED <<accounts, secret, outdated>>

ReplaceContested(t, u) == stage[t] = "contested" /\ Issue(u, born[t], t, "contested")

\* The tokens of T are given back, those of D while they are being exchanged.
GivenBack(T, D) == /\ \A t \in D : stage[t] \in {"live", "rotating"}
                   /\ stage' = [t \in Tokens |->
                          IF t \in D THEN "contested"
                          ELSE IF t \in T /\ stage[t] \in {"live", "rotating"} THEN "spent"
                          ELSE stage[t]]

Close(T, D) == GivenBack(T, D) /\ UNCHANGED <<accounts, secret, outdated, born, parent>>

ChangeSecret == /\ secret' = secret + 1
                /\ UNCHANGED <<accounts, outdated, stage, born, parent>>

Acknowledge(v, D) == /\ v \in 0 .. secret
                     /\ outdated' = v
                     /\ GivenBack(Tokens, D)
                     /\ UNCHANGED <<accounts, secret, born, parent>>

ContractNext == \/ Enroll
                \/ \E t \in Tokens, v \in 0 .. secret : Open(t, v)
                \/ \E t \in Tokens : GiveUp(t)
                \/ \E t, u \in Tokens : Replace(t, u) \/ ReplaceContested(t, u)
                \/ \E T, D \in SUBSET Tokens : Close(T, D)
                \/ ChangeSecret
                \/ \E v \in 0 .. secret, D \in SUBSET Tokens : Acknowledge(v, D)

ContractSpec == ContractInit /\ [][ContractNext]_cvars
=============================================================================
