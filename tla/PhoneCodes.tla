------------------------------ MODULE PhoneCodes ------------------------------
(***************************************************************************)
(* The change of a user's phone by a one-time code (RequestPhoneChange and *)
(* VerifyPhoneChange in user_service.go).  There is no transaction: every  *)
(* statement is a step.  A verification reads the row of the code, and     *)
(* saves all of its columns from that copy afterwards; an error of that    *)
(* save is ignored.                                                        *)
(*                                                                         *)
(* Everything is about one user, because every query is: codes are created *)
(* in the order of their numbers, and other users matter for their phones. *)
(* A code is fresh until it expires, and becomes old after the hour in     *)
(* which it counts as a request; no query finds an old one.                *)
(***************************************************************************)
EXTENDS Naturals, FiniteSets

CONSTANTS
    Requests,      \* API requests of the user that may be in progress
    Phones,        \* phone numbers
    Targets,       \* those the user asks to change to
    MaxCodes,      \* bound of the codes created
    MaxRecent,     \* codes a user may request within an hour (5)
    MaxAttempts    \* wrong codes after which a code is blocked (3)

ASSUME PhonesAssumption == Targets \subseteq Phones /\ Targets # {}
ASSUME RequestsAssumption == IsFiniteSet(Requests)
ASSUME LimitsAssumption == /\ MaxCodes \in Nat
                           /\ {MaxRecent, MaxAttempts} \subseteq Nat \ {0}

VARIABLES
    phone,       \* users.phone of the user
    taken,       \* those of Targets that are the phones of other users
    code,        \* number -> its row of otp_verifications
    req,         \* request -> its local variables
    contested,   \* history: codes with a save that was lost, or with two requests
                 \* that verified them at once
    guesses,     \* history of the others: wrong codes compared with this one
    applied,     \* history of the others: changes of the phone it was good for
    crowded,     \* history: whether requests for codes overlapped
    blind        \* history: codes created although the look-up of an earlier one failed

vars == <<phone, taken, code, req, guesses, applied, contested, crowded, blind>>

Ids == 1 .. MaxCodes

AnyPhone == CHOOSE p \in Targets : TRUE
NoCode   == [status |-> "none", phone |-> AnyPhone, attempts |-> 0, fresh |-> FALSE]
CodeRow  == [status : {"none", "open", "verified", "old"}, phone : Targets,
             attempts : 0 .. MaxAttempts, fresh : BOOLEAN]

IdleRequest == [pc |-> "idle", phone |-> AnyPhone, id |-> 0, attempts |-> 0]
RequestPCs  == {"idle", "counted", "absent", "unseen", "wrong", "right", "updated"}
RequestState == [pc : RequestPCs, phone : Targets, id : Ids \cup {0}, attempts : 0 .. MaxAttempts]

Verifying(r) == req[r].pc \in {"wrong", "right", "updated"}
Asking(r)    == req[r].pc \in {"counted", "absent", "unseen"}

TypeOK == /\ phone \in Phones
          /\ taken \in SUBSET Targets
          /\ code \in [Ids -> CodeRow]
          /\ req \in [Requests -> RequestState]
          /\ guesses \in [Ids -> Nat]
          /\ applied \in [Ids -> Nat]
          /\ contested \in SUBSET Ids
          /\ crowded \in BOOLEAN
          /\ blind \in SUBSET Ids
          /\ phone \notin taken
          /\ \A r \in Requests : Verifying(r) => /\ req[r].id \in Ids
                                                 /\ req[r].attempts < MaxAttempts

Init == /\ phone \in Phones
        /\ taken \in SUBSET (Targets \ {phone})
        /\ code = [c \in Ids |-> NoCode]
        /\ req = [r \in Requests |-> IdleRequest]
        /\ guesses = [c \in Ids |-> 0]
        /\ applied = [c \in Ids |-> 0]
        /\ contested = {}
        /\ crowded = FALSE
        /\ blind = {}

-----------------------------------------------------------------------------
(* Queries *)

\* OTPVerification.IsValid, and the conditions of FindActiveByUserAndPhone.
IsValid(c) == /\ code[c].status = "open"
              /\ code[c].fresh
              /\ code[c].attempts < MaxAttempts

Active(p) == {c \in Ids : code[c].phone = p /\ IsValid(c)}

\* ORDER BY created_at DESC LIMIT 1
FindActiveByUserAndPhone(p, c) == c \in Active(p) /\ \A d \in Active(p) : d <= c

Recent == {c \in Ids : code[c].status \in {"open", "verified"}}

\* Mutant of BelowHourlyLimit: one request too many.
AtHourlyLimit == Cardinality(Recent) <= MaxRecent

\* CountRecentByUser
BelowHourlyLimit == Cardinality(Recent) < MaxRecent

Begin(r)  == req[r].pc = "idle"
Enter(r, pc, p, c, n) ==
    req' = [req EXCEPT ![r] = [pc |-> pc, phone |-> p, id |-> c, attempts |-> n]]
Answer(r) == req' = [req EXCEPT ![r] = IdleRequest]

-----------------------------------------------------------------------------
(* RequestPhoneChange *)

\* FindByPhone finds no other user with the phone, or fails: its error is ignored, so
\* a taken phone may go on as well.
RequestCount(r, p) ==
    /\ Begin(r)
    /\ BelowHourlyLimit
    /\ Enter(r, "counted", p, 0, 0)
    /\ crowded' = (crowded \/ \E s \in Requests \ {r} : Asking(s))
    /\ UNCHANGED <<phone, taken, code, guesses, applied, contested, blind>>

RequestFind(r) ==
    /\ req[r].pc = "counted"
    /\ IF Active(req[r].phone) = {} THEN Enter(r, "absent", req[r].phone, 0, 0) ELSE Answer(r)
    /\ UNCHANGED <<phone, taken, code, guesses, applied, contested, crowded, blind>>

\* The look-up fails: its error is ignored, and the request goes on as if no code
\* had been found.
RequestFindFails(r) ==
    /\ req[r].pc = "counted"
    /\ Enter(r, "unseen", req[r].phone, 0, 0)
    /\ UNCHANGED <<phone, taken, code, guesses, applied, contested, crowded, blind>>

\* The next row of the table.
Create(c, p) ==
    /\ code[c].status = "none"
    /\ \A d \in Ids : d < c => code[d].status # "none"
    /\ code' = [code EXCEPT ![c] = [status |-> "open", phone |-> p, attempts |-> 0, fresh |-> TRUE]]

\* The new code is sent by SMS; that an SMS does not arrive changes nothing here.
RequestCreate(r, c) ==
    /\ req[r].pc \in {"absent", "unseen"}
    /\ Create(c, req[r].phone)
    /\ blind' = IF req[r].pc = "unseen" THEN blind \cup {c} ELSE blind
    /\ Answer(r)
    /\ UNCHANGED <<phone, taken, guesses, applied, contested, crowded>>

-----------------------------------------------------------------------------
(* VerifyPhoneChange *)

\* The histories are kept for codes that are not contested.
Counted(history, c) == IF c \in contested' THEN history ELSE [history EXCEPT ![c] = @ + 1]

\* otp.Verify: the hash of what was submitted is the stored one, or not.
Compare(r, p, c) ==
    \/ /\ Enter(r, "wrong", p, c, code[c].attempts)
       /\ guesses' = Counted(guesses, c)
    \/ /\ Enter(r, "right", p, c, code[c].attempts)
       /\ UNCHANGED guesses

\* The row is read and the code compared with its hash.
VerifyRead(r, p, c) ==
    /\ Begin(r)
    /\ FindActiveByUserAndPhone(p, c)
    /\ contested' = IF \E s \in Requests \ {r} : Verifying(s) /\ req[s].id = c
                    THEN contested \cup {c} ELSE contested
    /\ Compare(r, p, c)
    /\ UNCHANGED <<phone, taken, code, applied, crowded, blind>>

\* Update: the columns of the copy, whatever the row has become.
Save(r, status, n) ==
    code' = [code EXCEPT ![req[r].id].status = status, ![req[r].id].attempts = n]

\* Mutant of IncrementAttempts: the incremented copy is not saved.
AttemptsInMemory(r) ==
    /\ req[r].pc = "wrong"
    /\ Answer(r)
    /\ UNCHANGED <<phone, taken, code, guesses, applied, contested, crowded, blind>>

IncrementAttempts(r) ==
    /\ req[r].pc = "wrong"
    /\ Save(r, "open", req[r].attempts + 1)
    /\ Answer(r)
    /\ UNCHANGED <<phone, taken, guesses, applied, contested, crowded, blind>>

\* Mutant of UpdatePhone: the check made when the code was asked for is trusted.
UpdatePhoneUnchecked(r) ==
    /\ req[r].pc = "right"
    /\ phone' = req[r].phone
    /\ UNCHANGED contested
    /\ applied' = Counted(applied, req[r].id)
    /\ Enter(r, "updated", req[r].phone, req[r].id, req[r].attempts)
    /\ UNCHANGED <<taken, code, guesses, crowded, blind>>

\* The unique index on users.phone decides again.
UpdatePhone(r) ==
    /\ req[r].pc = "right"
    /\ req[r].phone \notin taken
    /\ phone' = req[r].phone
    /\ UNCHANGED contested
    /\ applied' = Counted(applied, req[r].id)
    /\ Enter(r, "updated", req[r].phone, req[r].id, req[r].attempts)
    /\ UNCHANGED <<taken, code, guesses, crowded, blind>>

\* Mutant of MarkVerified: the time of verification is not set.
SaveUnmarked(r) ==
    /\ req[r].pc = "updated"
    /\ Save(r, "open", req[r].attempts)
    /\ Answer(r)
    /\ UNCHANGED <<phone, taken, guesses, applied, contested, crowded, blind>>

MarkVerified(r) ==
    /\ req[r].pc = "updated"
    /\ Save(r, "verified", req[r].attempts)
    /\ Answer(r)
    /\ UNCHANGED <<phone, taken, guesses, applied, contested, crowded, blind>>

\* The save fails, which is ignored, or the process dies before it.
SaveLost(r) ==
    /\ req[r].pc \in {"wrong", "updated"}
    /\ contested' = contested \cup {req[r].id}
    /\ Answer(r)
    /\ UNCHANGED <<phone, taken, code, guesses, applied, crowded, blind>>

\* Any other failure ends the request before it has written anything.
RequestFails(r) ==
    /\ req[r].pc \in {"counted", "absent", "unseen", "right"}
    /\ Answer(r)
    /\ UNCHANGED <<phone, taken, code, guesses, applied, contested, crowded, blind>>

-----------------------------------------------------------------------------
(* Time and other users *)

Expire(c) ==
    /\ code[c].fresh
    /\ code' = [code EXCEPT ![c].fresh = FALSE]
    /\ UNCHANGED <<phone, taken, req, guesses, applied, contested, crowded, blind>>

\* An hour is longer than the ten minutes a code is good for, and than any request
\* lasts.  What the row of an old code says does not matter any more.
HourPasses(c) ==
    /\ c \in Recent /\ ~code[c].fresh
    /\ \A d \in Recent : c <= d
    /\ \A r \in Requests : ~(Verifying(r) /\ req[r].id = c)
    /\ code' = [code EXCEPT ![c] = [NoCode EXCEPT !.status = "old"]]
    /\ contested' = contested \ {c}
    /\ guesses' = [guesses EXCEPT ![c] = 0]
    /\ applied' = [applied EXCEPT ![c] = 0]
    /\ blind' = blind \ {c}
    /\ UNCHANGED <<phone, taken, req, crowded>>

\* Another user registers with a phone, changes to it or gives it up.
OthersChange(T) ==
    /\ phone \notin T
    /\ taken' = T
    /\ UNCHANGED <<phone, code, req, guesses, applied, contested, crowded, blind>>

RequestStep(r) ==
    \/ \E p \in Targets : RequestCount(r, p) \/ \E c \in Ids : VerifyRead(r, p, c)
    \/ RequestFind(r)
    \/ RequestFindFails(r)
    \/ \E c \in Ids : RequestCreate(r, c)
    \/ IncrementAttempts(r)
    \/ UpdatePhone(r)
    \/ MarkVerified(r)
    \/ SaveLost(r)
    \/ RequestFails(r)

Next == \/ \E r \in Requests : RequestStep(r)
        \/ \E c \in Ids : Expire(c) \/ HourPasses(c)
        \/ \E T \in SUBSET Targets : OthersChange(T)

Spec == Init /\ [][Next]_vars

-----------------------------------------------------------------------------
(* Properties *)

\* "After 3 failed attempts, OTP is blocked" (migration 3): at most MaxAttempts
\* wrong codes are compared with one whose saves all succeed and that is never
\* verified by two requests at once (VerifyPhoneChange).
GuessesBounded == \A c \in Ids \ contested : guesses[c] <= MaxAttempts

\* "Once verified, OTP cannot be reused": under the same condition a code changes
\* the phone at most once.
UsedOnce == \A c \in Ids \ contested : applied[c] <= 1

\* However the requests of a user overlap, fewer codes are created in an hour than
\* the limit and the requests in progress together: each of them counts before it
\* creates.  As long as they do not overlap, there are at most MaxRecent, and a
\* second code to try for a phone has been created only because the look-up of the
\* first one failed (unless a save from an old copy opened a used one again)
\* (RequestPhoneChange).
RequestsBounded ==
    /\ Cardinality(Recent) < MaxRecent + Cardinality(Requests)
    /\ ~crowded => /\ Cardinality(Recent) <= MaxRecent
                   /\ \A c, d \in Ids \ contested :
                          c < d /\ IsValid(c) /\ IsValid(d) /\ code[c].phone = code[d].phone
                              => d \in blind
=============================================================================
