--------------------------- MODULE PhoneCodesProofs ---------------------------
(***************************************************************************)
(* Proofs about PhoneCodes, for any number of requests, phones and codes   *)
(* and any limits.                                                         *)
(***************************************************************************)
EXTENDS PhoneCodes, FiniteSetTheorems, TLAPS

-----------------------------------------------------------------------------
(* Type correctness *)

\* TypeOK in two parts: the rows and histories, and the requests.
RowsOK == /\ phone \in Phones
          /\ taken \in SUBSET Targets
          /\ code \in [Ids -> CodeRow]
          /\ guesses \in [Ids -> Nat]
          /\ applied \in [Ids -> Nat]
          /\ contested \in SUBSET Ids
          /\ crowded \in BOOLEAN
          /\ blind \in SUBSET Ids
          /\ phone \notin taken

RequestsOK == /\ req \in [Requests -> RequestState]
              /\ \A r \in Requests : Verifying(r) => /\ req[r].id \in Ids
                                                     /\ req[r].attempts < MaxAttempts

LEMMA TypeParts == /\ TypeOK <=> RowsOK /\ RequestsOK
                   /\ TypeOK' <=> RowsOK' /\ RequestsOK'
  BY DEF TypeOK, RowsOK, RequestsOK

LEMMA IdleTyped == /\ AnyPhone \in Targets
                   /\ IdleRequest \in RequestState
                   /\ NoCode \in CodeRow
<1>1. AnyPhone \in Targets
  BY PhonesAssumption DEF AnyPhone
<1>2. 0 \in 0 .. MaxAttempts
  BY LimitsAssumption
<1> QED
  BY <1>1, <1>2 DEF IdleRequest, RequestState, RequestPCs, NoCode, CodeRow

\* A request that goes on.
LEMMA Moved ==
  ASSUME RequestsOK, NEW r \in Requests, NEW pc \in RequestPCs, NEW p \in Targets,
         NEW c \in Ids \cup {0}, NEW n \in 0 .. MaxAttempts, Enter(r, pc, p, c, n),
         pc \in {"wrong", "right", "updated"} => c \in Ids /\ n < MaxAttempts
  PROVE  /\ RequestsOK'
         /\ req'[r] = [pc |-> pc, phone |-> p, id |-> c, attempts |-> n]
         /\ \A s \in Requests \ {r} : req'[s] = req[s]
<1>1. /\ req'[r] = [pc |-> pc, phone |-> p, id |-> c, attempts |-> n]
      /\ \A s \in Requests \ {r} : req'[s] = req[s]
  BY DEF Enter, RequestsOK
<1>2. req' \in [Requests -> RequestState]
  BY DEF Enter, RequestsOK, RequestState
<1> QED
  BY <1>1, <1>2 DEF RequestsOK, Verifying

LEMMA Answered ==
  ASSUME RequestsOK, NEW r \in Requests, Answer(r)
  PROVE  /\ RequestsOK'
         /\ req'[r].pc = "idle"
         /\ \A s \in Requests \ {r} : req'[s] = req[s]
<1>1. IdleRequest.pc = "idle"
  BY DEF IdleRequest
<1>2. /\ req' \in [Requests -> RequestState]
      /\ req'[r].pc = "idle"
      /\ \A s \in Requests \ {r} : req'[s] = req[s]
  BY <1>1, IdleTyped DEF Answer, RequestsOK
<1> QED
  BY <1>2 DEF RequestsOK, Verifying

LEMMA RequestTyped ==
  ASSUME RequestsOK, NEW r \in Requests
  PROVE  /\ req[r].phone \in Targets
         /\ req[r].id \in Ids \cup {0}
         /\ req[r].attempts \in 0 .. MaxAttempts
         /\ req[r].pc \in RequestPCs
  BY DEF RequestsOK, RequestState

LEMMA CountedTyped ==
  ASSUME NEW history \in [Ids -> Nat], NEW c \in Ids
  PROVE  Counted(history, c) \in [Ids -> Nat]
  BY DEF Counted

LEMMA SavedTyped ==
  ASSUME RowsOK, RequestsOK, NEW r \in Requests, Verifying(r), NEW status \in {"open", "verified"},
         NEW n \in 0 .. MaxAttempts, Save(r, status, n)
  PROVE  /\ code' \in [Ids -> CodeRow]
         /\ code'[req[r].id].status = status /\ code'[req[r].id].attempts = n
         /\ \A c \in Ids : c # req[r].id => code'[c] = code[c]
  BY DEF RowsOK, RequestsOK, Save, CodeRow

LEMMA InitTyped == Init => TypeOK
<1> SUFFICES ASSUME Init PROVE RowsOK /\ RequestsOK
  BY TypeParts
<1>1. IdleRequest.pc = "idle"
  BY DEF IdleRequest
<1>2. code \in [Ids -> CodeRow]
  BY IdleTyped DEF Init
<1>3. guesses \in [Ids -> Nat] /\ applied \in [Ids -> Nat]
  BY DEF Init
<1>4. RowsOK
  BY <1>2, <1>3 DEF Init, RowsOK
<1>5. RequestsOK
  BY <1>1, IdleTyped DEF Init, RequestsOK, Verifying
<1> QED
  BY <1>4, <1>5

LEMMA NextTyped == TypeOK /\ [Next]_vars => TypeOK'
<1> SUFFICES ASSUME TypeOK, [Next]_vars PROVE RowsOK' /\ RequestsOK'
  BY TypeParts
<1>0. RowsOK /\ RequestsOK /\ 0 \in 0 .. MaxAttempts
  BY TypeParts, LimitsAssumption
<1>1. ASSUME NEW r \in Requests, NEW p \in Targets, RequestCount(r, p) PROVE RowsOK' /\ RequestsOK'
  <2>1. RequestsOK'
    BY <1>0, <1>1, Moved DEF RequestCount, RequestPCs
  <2>2. crowded' \in BOOLEAN
    BY <1>0, <1>1 DEF RequestCount, RowsOK
  <2> QED
    BY <1>0, <1>1, <2>1, <2>2 DEF RequestCount, RowsOK
<1>2. ASSUME NEW r \in Requests, RequestFind(r) PROVE RowsOK' /\ RequestsOK'
  <2>1. RequestsOK'
    <3>1. CASE Enter(r, "absent", req[r].phone, 0, 0)
      BY <1>0, <3>1, Moved, RequestTyped DEF RequestPCs
    <3>2. CASE Answer(r)
      BY <1>0, <3>2, Answered
    <3> QED
      BY <1>2, <3>1, <3>2 DEF RequestFind
  <2> QED
    BY <1>0, <1>2, <2>1 DEF RequestFind, RowsOK
<1>3. ASSUME NEW r \in Requests, NEW c \in Ids, RequestCreate(r, c) PROVE RowsOK' /\ RequestsOK'
  <2>1. code' \in [Ids -> CodeRow]
    BY <1>0, <1>3, RequestTyped DEF RequestCreate, Create, RowsOK, CodeRow
  <2>2. blind' \in SUBSET Ids
    BY <1>0, <1>3 DEF RequestCreate, RowsOK
  <2> QED
    BY <1>0, <1>3, <2>1, <2>2, Answered DEF RequestCreate, RowsOK
<1>11. ASSUME NEW r \in Requests, RequestFindFails(r) PROVE RowsOK' /\ RequestsOK'
  <2>1. RequestsOK'
    BY <1>0, <1>11, Moved, RequestTyped DEF RequestFindFails, RequestPCs
  <2> QED
    BY <1>0, <1>11, <2>1 DEF RequestFindFails, RowsOK
<1>4. ASSUME NEW r \in Requests, NEW p \in Targets, NEW c \in Ids, VerifyRead(r, p, c)
      PROVE  RowsOK' /\ RequestsOK'
  <2>1. code[c].attempts \in 0 .. MaxAttempts /\ code[c].attempts < MaxAttempts
    BY <1>0, <1>4 DEF VerifyRead, FindActiveByUserAndPhone, Active, IsValid, RowsOK, CodeRow
  <2>2. RequestsOK'
    BY <1>0, <1>4, <2>1, Moved DEF VerifyRead, Compare, RequestPCs
  <2>3. guesses' \in [Ids -> Nat]
    BY <1>0, <1>4, CountedTyped DEF VerifyRead, Compare, RowsOK
  <2>4. contested' \in SUBSET Ids
    BY <1>0, <1>4 DEF VerifyRead, RowsOK
  <2> QED
    BY <1>0, <1>4, <2>2, <2>3, <2>4 DEF VerifyRead, RowsOK
<1>5. ASSUME NEW r \in Requests, IncrementAttempts(r) \/ MarkVerified(r)
      PROVE  RowsOK' /\ RequestsOK'
  <2>1. Verifying(r) /\ Answer(r) /\ UNCHANGED <<phone, taken, guesses, applied, contested, crowded, blind>>
    BY <1>5 DEF IncrementAttempts, MarkVerified, Verifying
  <2>2. req[r].attempts \in 0 .. MaxAttempts /\ req[r].attempts + 1 \in 0 .. MaxAttempts
    BY <1>0, <2>1, RequestTyped, LimitsAssumption DEF RequestsOK
  <2>3. code' \in [Ids -> CodeRow]
    BY <1>0, <1>5, <2>1, <2>2, SavedTyped DEF IncrementAttempts, MarkVerified
  <2> QED
    BY <1>0, <2>1, <2>3, Answered DEF RowsOK
<1>6. ASSUME NEW r \in Requests, UpdatePhone(r) PROVE RowsOK' /\ RequestsOK'
  <2>1. /\ req[r].id \in Ids /\ req[r].attempts < MaxAttempts
        /\ req[r].attempts \in 0 .. MaxAttempts /\ req[r].phone \in Targets
    BY <1>0, <1>6, RequestTyped DEF UpdatePhone, RequestsOK, Verifying
  <2>2. RequestsOK'
    BY <1>0, <1>6, <2>1, Moved DEF UpdatePhone, RequestPCs
  <2>3. applied' \in [Ids -> Nat]
    BY <1>0, <1>6, <2>1, CountedTyped DEF UpdatePhone, RowsOK
  <2> QED
    BY <1>0, <1>6, <2>1, <2>2, <2>3, PhonesAssumption DEF UpdatePhone, RowsOK
<1>7. ASSUME NEW r \in Requests, SaveLost(r) \/ RequestFails(r) PROVE RowsOK' /\ RequestsOK'
  <2>1. contested' \in SUBSET Ids
    BY <1>0, <1>7 DEF SaveLost, RequestFails, RowsOK, RequestsOK, Verifying
  <2> QED
    BY <1>0, <1>7, <2>1, Answered DEF SaveLost, RequestFails, RowsOK
<1>8. ASSUME NEW c \in Ids, Expire(c) \/ HourPasses(c) PROVE RowsOK' /\ RequestsOK'
  <2>1. code' \in [Ids -> CodeRow]
    <3>1. [code[c] EXCEPT !.fresh = FALSE] \in CodeRow
      BY <1>0 DEF RowsOK, CodeRow
    <3>2. [NoCode EXCEPT !.status = "old"] \in CodeRow
      BY IdleTyped DEF CodeRow
    <3>3. CASE Expire(c)
      <4>1. code' = [code EXCEPT ![c] = [code[c] EXCEPT !.fresh = FALSE]]
        BY <3>3 DEF Expire
      <4> QED
        BY <1>0, <3>1, <4>1 DEF RowsOK
    <3>4. CASE HourPasses(c)
      BY <1>0, <3>2, <3>4 DEF HourPasses, RowsOK
    <3> QED
      BY <1>8, <3>3, <3>4
  <2>2. /\ guesses' \in [Ids -> Nat] /\ applied' \in [Ids -> Nat]
        /\ contested' \in SUBSET Ids /\ blind' \in SUBSET Ids
    BY <1>0, <1>8 DEF Expire, HourPasses, RowsOK
  <2>3. UNCHANGED <<phone, taken, req, crowded>>
    BY <1>8 DEF Expire, HourPasses
  <2> QED
    BY <1>0, <2>1, <2>2, <2>3 DEF RowsOK, RequestsOK, Verifying
<1>9. ASSUME NEW T \in SUBSET Targets, OthersChange(T) PROVE RowsOK' /\ RequestsOK'
  BY <1>0, <1>9 DEF OthersChange, RowsOK, RequestsOK, Verifying
<1>10. CASE UNCHANGED vars
  BY <1>0, <1>10 DEF vars, RowsOK, RequestsOK, Verifying
<1> QED
  BY <1>1, <1>2, <1>3, <1>4, <1>5, <1>6, <1>7, <1>8, <1>9, <1>10, <1>11 DEF Next, RequestStep

\* The rows and requests are well typed, a code is never compared once it is blocked,
\* and two users never have one phone.
THEOREM TypeCorrect == Spec => []TypeOK
  BY InitTyped, NextTyped, PTL DEF Spec

-----------------------------------------------------------------------------
(* The attempts and the use of a code *)

At(r, pc, c) == req[r].pc = pc /\ req[r].id = c
Guessing(c)  == \E r \in Requests : At(r, "wrong", c)
Applying(c)  == \E r \in Requests : At(r, "updated", c)

\* One request at a time verifies a code that is not contested.
Alone == \A r, s \in Requests :
             Verifying(r) /\ Verifying(s) /\ req[r].id = req[s].id /\ req[r].id \notin contested
                => r = s

\* ... so the copy it holds is the row.
CopyFact == \A r \in Requests : Verifying(r) /\ req[r].id \notin contested
                => /\ code[req[r].id].status = "open"
                   /\ code[req[r].id].attempts = req[r].attempts

\* The row counts what was compared with it, and knows whether it was used, except
\* for what a request is about to save.
History == \A c \in Ids : c \notin contested
              => /\ ~Guessing(c) => guesses[c] = code[c].attempts
                 /\ Guessing(c) => guesses[c] = code[c].attempts + 1
                 /\ applied[c] <= 1
                 /\ code[c].status \in {"none", "open"} /\ ~Applying(c) => applied[c] = 0

Unused == \A c \in Ids : code[c].status = "none" => c \notin contested /\ code[c].attempts = 0

CodeInv == Alone /\ CopyFact /\ History /\ Unused

\* A step that touches neither the rows nor a verification that is to be saved.
LEMMA Quiet ==
  ASSUME TypeOK, CodeInv, UNCHANGED <<guesses, applied, contested>>,
         \A c \in Ids : /\ code'[c].status = code[c].status
                        /\ code'[c].attempts = code[c].attempts,
         \A r \in Requests : \/ req'[r] = req[r]
                             \/ /\ req[r].pc \notin {"wrong", "updated"}
                                /\ req'[r].pc \notin {"wrong", "right", "updated"}
  PROVE  CodeInv'
<1>1. \A c \in Ids : (Guessing(c) <=> Guessing(c)') /\ (Applying(c) <=> Applying(c)')
  BY DEF Guessing, Applying, At
<1>2. \A r \in Requests : Verifying(r)' => Verifying(r) /\ req'[r] = req[r] /\ req[r].id \in Ids
  BY DEF Verifying, TypeOK
<1>3. Alone' /\ CopyFact'
  BY <1>2 DEF CodeInv, Alone, CopyFact
<1>4. History' /\ Unused'
  BY <1>1 DEF CodeInv, History, Unused
<1> QED
  BY <1>3, <1>4 DEF CodeInv

\* A step of the request r about the code d alone, that may contest it.
LEMMA Local ==
  ASSUME TypeOK, CodeInv, NEW r \in Requests, NEW d \in Ids,
         \A c \in Ids : c # d => /\ code'[c] = code[c]
                                 /\ guesses'[c] = guesses[c]
                                 /\ applied'[c] = applied[c],
         contested' \in {contested, contested \cup {d}},
         \A s \in Requests \ {r} : req'[s] = req[s],
         Verifying(r) => req[r].id = d,
         Verifying(r)' => req'[r].id = d,
         code[d].status # "none" /\ code'[d].status # "none",
         d \notin contested' =>
            /\ \A s \in Requests \ {r} : ~(Verifying(s) /\ req[s].id = d)
            /\ Verifying(r)' => /\ code'[d].status = "open"
                                /\ code'[d].attempts = req'[r].attempts
            /\ req'[r].pc # "wrong" => guesses'[d] = code'[d].attempts
            /\ req'[r].pc = "wrong" => guesses'[d] = code'[d].attempts + 1
            /\ applied'[d] <= 1
            /\ code'[d].status = "open" /\ req'[r].pc # "updated" => applied'[d] = 0
  PROVE  CodeInv'
<1>1. \A c \in Ids : c # d => /\ Guessing(c) <=> Guessing(c)'
                              /\ Applying(c) <=> Applying(c)'
                              /\ c \in contested <=> c \in contested'
  BY DEF Guessing, Applying, At, Verifying
<1>2. \A s \in Requests : s # r => (Verifying(s)' <=> Verifying(s)) /\ req'[s].id = req[s].id
                                   /\ req'[s].attempts = req[s].attempts
  BY DEF Verifying
<1>3. \A s \in Requests : Verifying(s) => req[s].id \in Ids
  BY DEF TypeOK
<1>4. Alone'
  BY <1>1, <1>2, <1>3 DEF CodeInv, Alone
<1>5. CopyFact'
  BY <1>1, <1>2, <1>3 DEF CodeInv, CopyFact
<1>6. d \notin contested' => /\ Guessing(d)' <=> req'[r].pc = "wrong"
                             /\ Applying(d)' <=> req'[r].pc = "updated"
  BY <1>2 DEF Guessing, Applying, At, Verifying
<1>7. History'
  <2> SUFFICES ASSUME NEW c \in Ids, c \notin contested'
               PROVE  /\ ~Guessing(c)' => guesses'[c] = code'[c].attempts
                      /\ Guessing(c)' => guesses'[c] = code'[c].attempts + 1
                      /\ applied'[c] <= 1
                      /\ code'[c].status \in {"none", "open"} /\ ~Applying(c)' => applied'[c] = 0
    BY DEF History
  <2>1. CASE c = d
    BY <1>6, <2>1
  <2>2. CASE c # d
    BY <1>1, <2>2 DEF CodeInv, History
  <2> QED
    BY <2>1, <2>2
<1>8. Unused'
  BY <1>1 DEF CodeInv, Unused
<1> QED
  BY <1>4, <1>5, <1>7, <1>8 DEF CodeInv

\* What the invariant says of a request that verifies a code.
LEMMA Holder ==
  ASSUME TypeOK, CodeInv, NEW r \in Requests, Verifying(r)
  PROVE  /\ req[r].id \in Ids
         /\ code[req[r].id].status # "none"
         /\ req[r].id \notin contested =>
               /\ \A s \in Requests \ {r} : ~(Verifying(s) /\ req[s].id = req[r].id)
               /\ code[req[r].id].status = "open"
               /\ code[req[r].id].attempts = req[r].attempts
               /\ req[r].pc # "wrong" => guesses[req[r].id] = req[r].attempts
               /\ req[r].pc = "wrong" => guesses[req[r].id] = req[r].attempts + 1
               /\ applied[req[r].id] <= 1
               /\ req[r].pc # "updated" => applied[req[r].id] = 0
<1>1. req[r].id \in Ids
  BY DEF TypeOK
<1>2. code[req[r].id].status # "none"
  BY <1>1 DEF CodeInv, CopyFact, Unused
<1>3. ASSUME req[r].id \notin contested
      PROVE  /\ \A s \in Requests \ {r} : ~(Verifying(s) /\ req[s].id = req[r].id)
             /\ code[req[r].id].status = "open"
             /\ code[req[r].id].attempts = req[r].attempts
  BY <1>3 DEF CodeInv, Alone, CopyFact
<1>4. ASSUME req[r].id \notin contested
      PROVE  /\ Guessing(req[r].id) <=> req[r].pc = "wrong"
             /\ Applying(req[r].id) <=> req[r].pc = "updated"
  BY <1>3, <1>4 DEF Guessing, Applying, At, Verifying
<1> QED
  BY <1>1, <1>2, <1>3, <1>4 DEF CodeInv, History

LEMMA InitCode == Init => CodeInv
<1> SUFFICES ASSUME Init PROVE CodeInv
  OBVIOUS
<1>1. /\ IdleRequest.pc = "idle"
      /\ \A r \in Requests : req[r].pc = "idle"
      /\ \A c \in Ids : /\ code[c].status = "none" /\ code[c].attempts = 0
                        /\ guesses[c] = 0 /\ applied[c] = 0
      /\ contested = {}
  BY DEF Init, IdleRequest, NoCode
<1> QED
  BY <1>1 DEF CodeInv, Alone, CopyFact, History, Unused, Verifying, Guessing, Applying, At

LEMMA VerifyKeeps ==
  ASSUME TypeOK, CodeInv, NEW r \in Requests, NEW p \in Targets, NEW c \in Ids, VerifyRead(r, p, c)
  PROVE  CodeInv'
<1>0. RequestsOK /\ RowsOK
  BY TypeParts
<1>1. /\ code[c].status = "open" /\ code[c].attempts < MaxAttempts
      /\ code[c].attempts \in 0 .. MaxAttempts
      /\ ~Verifying(r)
      /\ UNCHANGED <<code, applied>>
  BY <1>0 DEF VerifyRead, FindActiveByUserAndPhone, Active, IsValid, RowsOK, CodeRow, Begin, Verifying
<1>2. PICK pc \in {"wrong", "right"} :
         /\ Enter(r, pc, p, c, code[c].attempts)
         /\ guesses' = IF pc = "wrong" THEN Counted(guesses, c) ELSE guesses
  BY DEF VerifyRead, Compare
<1>3. /\ req'[r] = [pc |-> pc, phone |-> p, id |-> c, attempts |-> code[c].attempts]
      /\ \A s \in Requests \ {r} : req'[s] = req[s]
  BY <1>0, <1>1, <1>2, Moved DEF RequestPCs
<1>4. contested' \in {contested, contested \cup {c}}
  BY DEF VerifyRead
<1>5. c \notin contested' => /\ c \notin contested
                             /\ \A s \in Requests \ {r} : ~(Verifying(s) /\ req[s].id = c)
  BY DEF VerifyRead
<1>6. c \notin contested => \/ ~Guessing(c) /\ ~Applying(c)
                            \/ \E s \in Requests \ {r} : Verifying(s) /\ req[s].id = c
  BY <1>1 DEF Guessing, Applying, At, Verifying
<1>7. c \notin contested' => /\ guesses[c] = code[c].attempts
                             /\ applied[c] = 0
  BY <1>1, <1>5, <1>6 DEF CodeInv, History
<1>8. /\ \A d \in Ids : d # c => guesses'[d] = guesses[d]
      /\ c \notin contested' => guesses'[c] = IF pc = "wrong" THEN guesses[c] + 1 ELSE guesses[c]
  BY <1>0, <1>2 DEF Counted, RowsOK
<1> QED
  BY <1>1, <1>3, <1>4, <1>5, <1>7, <1>8, Local DEF Verifying

LEMMA SaveKeeps ==
  ASSUME TypeOK, CodeInv, NEW r \in Requests, IncrementAttempts(r) \/ MarkVerified(r)
  PROVE  CodeInv'
<1>0. RequestsOK /\ RowsOK
  BY TypeParts
<1> DEFINE d == req[r].id
<1>1. /\ Verifying(r)
      /\ Answer(r)
      /\ UNCHANGED <<guesses, applied, contested>>
  BY DEF IncrementAttempts, MarkVerified, Verifying
<1>2. /\ req'[r].pc = "idle"
      /\ \A s \in Requests \ {r} : req'[s] = req[s]
  BY <1>0, <1>1, Answered
<1>3. PICK status \in {"open", "verified"}, n \in 0 .. MaxAttempts :
         /\ Save(r, status, n)
         /\ req[r].pc = "wrong" => status = "open" /\ n = req[r].attempts + 1
         /\ req[r].pc = "updated" => status = "verified" /\ n = req[r].attempts
         /\ req[r].pc \in {"wrong", "updated"}
  <2>1. req[r].attempts \in 0 .. MaxAttempts /\ req[r].attempts + 1 \in 0 .. MaxAttempts
    BY <1>0, <1>1, RequestTyped, LimitsAssumption DEF RequestsOK
  <2>2. CASE IncrementAttempts(r)
    BY <2>1, <2>2 DEF IncrementAttempts
  <2>3. CASE MarkVerified(r)
    BY <2>1, <2>3 DEF MarkVerified
  <2> QED
    BY <2>2, <2>3
<1>4. /\ d \in Ids
      /\ code'[d].status = status /\ code'[d].attempts = n
      /\ \A c \in Ids : c # d => code'[c] = code[c]
  BY <1>0, <1>1, <1>3, Holder, SavedTyped
<1>5. d \notin contested => /\ guesses[d] = n
                            /\ applied[d] <= 1
                            /\ status = "open" => applied[d] = 0
                            /\ \A s \in Requests \ {r} : ~(Verifying(s) /\ req[s].id = d)
  BY <1>1, <1>3, Holder
<1>6. code[d].status # "none"
  BY <1>1, Holder
<1> HIDE DEF d
<1>7. /\ Verifying(r) => req[r].id = d
      /\ ~Verifying(r)'
  BY <1>2 DEF d, Verifying
<1> QED
  BY <1>1, <1>2, <1>3, <1>4, <1>5, <1>6, <1>7, Local

LEMMA UpdateKeeps ==
  ASSUME TypeOK, CodeInv, NEW r \in Requests, UpdatePhone(r)
  PROVE  CodeInv'
<1>0. RequestsOK /\ RowsOK
  BY TypeParts
<1> DEFINE d == req[r].id
<1>1. /\ Verifying(r) /\ req[r].pc = "right"
      /\ UNCHANGED <<guesses, code, contested>>
      /\ applied' = Counted(applied, d)
      /\ Enter(r, "updated", req[r].phone, d, req[r].attempts)
  BY DEF UpdatePhone, Verifying
<1>2. /\ req'[r] = [pc |-> "updated", phone |-> req[r].phone, id |-> d, attempts |-> req[r].attempts]
      /\ \A s \in Requests \ {r} : req'[s] = req[s]
  BY <1>0, <1>1, RequestTyped, Moved DEF RequestPCs, RequestsOK
<1>3. /\ d \in Ids
      /\ code[d].status # "none"
      /\ d \notin contested => /\ code[d].status = "open"
                               /\ code[d].attempts = req[r].attempts
                               /\ guesses[d] = req[r].attempts
                               /\ applied[d] = 0
                               /\ \A s \in Requests \ {r} : ~(Verifying(s) /\ req[s].id = d)
  BY <1>1, Holder
<1>4. /\ \A c \in Ids : c # d => applied'[c] = applied[c]
      /\ d \notin contested' => applied'[d] = applied[d] + 1
  BY <1>0, <1>1, <1>3 DEF Counted, RowsOK
<1>5. /\ Verifying(r) => req[r].id = d
      /\ req'[r].pc = "updated" /\ req'[r].id = d /\ req'[r].attempts = req[r].attempts
  BY <1>2
<1> HIDE DEF d
<1> QED
  BY <1>1, <1>2, <1>3, <1>4, <1>5, Local

LEMMA LostKeeps ==
  ASSUME TypeOK, CodeInv, NEW r \in Requests, SaveLost(r)
  PROVE  CodeInv'
<1>0. RequestsOK /\ RowsOK
  BY TypeParts
<1>1. Verifying(r) /\ Answer(r) /\ UNCHANGED <<guesses, code, applied>>
  BY DEF SaveLost, Verifying
<1>2. /\ req'[r].pc = "idle"
      /\ \A s \in Requests \ {r} : req'[s] = req[s]
  BY <1>0, <1>1, Answered
<1>3. req[r].id \in Ids /\ code[req[r].id].status # "none"
  BY <1>1, Holder
<1>4. contested' = contested \cup {req[r].id}
  BY DEF SaveLost
<1>5. ~Verifying(r)'
  BY <1>2 DEF Verifying
<1> QED
  BY <1>1, <1>2, <1>3, <1>4, <1>5, Local

LEMMA CreateKeeps ==
  ASSUME TypeOK, CodeInv, NEW r \in Requests, NEW c \in Ids, RequestCreate(r, c)
  PROVE  CodeInv'
<1>0. RequestsOK /\ RowsOK
  BY TypeParts
<1>1. /\ req'[r].pc = "idle" /\ ~Verifying(r)'
      /\ \A s \in Requests \ {r} : req'[s] = req[s]
  BY <1>0, Answered DEF RequestCreate, Verifying
<1>2. /\ req[r].pc \in {"absent", "unseen"} /\ ~Verifying(r)
      /\ UNCHANGED <<guesses, applied, contested>>
  BY DEF RequestCreate, Verifying
<1>3. /\ code[c].status = "none"
      /\ code'[c].status = "open" /\ code'[c].attempts = 0
      /\ \A d \in Ids : d # c => code'[d] = code[d]
  BY <1>0 DEF RequestCreate, Create, RowsOK
<1>4. c \notin contested /\ code[c].attempts = 0
  BY <1>3 DEF CodeInv, Unused
<1>5. \A s \in Requests : Verifying(s) => req[s].id # c /\ req[s].id \in Ids
  BY <1>3, Holder
<1>6. \A s \in Requests : Verifying(s)' => Verifying(s) /\ req'[s] = req[s]
  BY <1>1 DEF Verifying
<1>7. \A d \in Ids : (Guessing(d) <=> Guessing(d)') /\ (Applying(d) <=> Applying(d)')
  BY <1>1, <1>2 DEF Guessing, Applying, At
<1>8. ~Guessing(c) /\ ~Applying(c)
  BY <1>5 DEF Guessing, Applying, At, Verifying
<1>9. Alone' /\ CopyFact'
  BY <1>2, <1>3, <1>5, <1>6 DEF CodeInv, Alone, CopyFact
<1>10. History' /\ Unused'
  BY <1>2, <1>3, <1>4, <1>7, <1>8 DEF CodeInv, History, Unused
<1> QED
  BY <1>9, <1>10 DEF CodeInv

LEMMA HourKeeps ==
  ASSUME TypeOK, CodeInv, NEW c \in Ids, HourPasses(c)
  PROVE  CodeInv'
<1>0. RequestsOK /\ RowsOK
  BY TypeParts
<1>1. [NoCode EXCEPT !.status = "old"].status = "old" /\ [NoCode EXCEPT !.status = "old"].attempts = 0
  BY DEF NoCode
<1>2. /\ code'[c].status = "old" /\ code'[c].attempts = 0
      /\ \A d \in Ids : d # c => code'[d] = code[d]
  BY <1>0, <1>1 DEF HourPasses, RowsOK
<1>3. /\ guesses'[c] = 0 /\ applied'[c] = 0
      /\ \A d \in Ids : d # c => guesses'[d] = guesses[d] /\ applied'[d] = applied[d]
  BY <1>0 DEF HourPasses, RowsOK
<1>4. contested' = contested \ {c} /\ req' = req
  BY DEF HourPasses
<1>5. \A r \in Requests : Verifying(r) => req[r].id \in Ids /\ req[r].id # c
  BY <1>0 DEF HourPasses, RequestsOK
<1>6. ~Guessing(c) /\ ~Applying(c)
  BY <1>5 DEF Guessing, Applying, At, Verifying
<1>7. \A d \in Ids : (Guessing(d) <=> Guessing(d)') /\ (Applying(d) <=> Applying(d)')
  BY <1>4 DEF Guessing, Applying, At
<1>8. \A r \in Requests : Verifying(r)' <=> Verifying(r)
  BY <1>4 DEF Verifying
<1>9. Alone' /\ CopyFact'
  BY <1>2, <1>4, <1>5, <1>8 DEF CodeInv, Alone, CopyFact
<1>10. History' /\ Unused'
  BY <1>2, <1>3, <1>4, <1>6, <1>7 DEF CodeInv, History, Unused
<1> QED
  BY <1>9, <1>10 DEF CodeInv

LEMMA NextCode == TypeOK /\ CodeInv /\ [Next]_vars => CodeInv'
<1> SUFFICES ASSUME TypeOK, CodeInv, [Next]_vars PROVE CodeInv'
  OBVIOUS
<1>0. RequestsOK /\ RowsOK
  BY TypeParts
<1>1. ASSUME NEW r \in Requests, NEW p \in Targets, RequestCount(r, p) PROVE CodeInv'
  <2>1. req[r].pc = "idle" /\ UNCHANGED <<code, guesses, applied, contested>>
    BY <1>1 DEF RequestCount, Begin
  <2>2. /\ req'[r].pc = "counted"
        /\ \A s \in Requests \ {r} : req'[s] = req[s]
    BY <1>0, <1>1 DEF RequestCount, Enter, RequestsOK
  <2> QED
    BY <2>1, <2>2, Quiet
<1>2. ASSUME NEW r \in Requests, RequestFind(r) \/ RequestFindFails(r) \/ RequestFails(r)
      PROVE  CodeInv'
  <2>1. /\ req[r].pc \in {"counted", "absent", "unseen", "right"}
        /\ UNCHANGED <<code, guesses, applied, contested>>
    BY <1>2 DEF RequestFind, RequestFindFails, RequestFails
  <2>2. /\ req'[r].pc \in {"idle", "absent", "unseen"}
        /\ \A s \in Requests \ {r} : req'[s] = req[s]
    <3>1. CASE \E pc \in {"absent", "unseen"} : Enter(r, pc, req[r].phone, 0, 0)
      BY <1>0, <3>1 DEF Enter, RequestsOK
    <3>2. CASE Answer(r)
      BY <1>0, <3>2, Answered
    <3> QED
      BY <1>2, <3>1, <3>2 DEF RequestFind, RequestFindFails, RequestFails
  <2> QED
    BY <2>1, <2>2, Quiet
<1>3. ASSUME NEW c \in Ids, Expire(c) PROVE CodeInv'
  <2>1. UNCHANGED <<req, guesses, applied, contested>>
    BY <1>3 DEF Expire
  <2>2. code' = [code EXCEPT ![c] = [code[c] EXCEPT !.fresh = FALSE]]
    BY <1>3 DEF Expire
  <2>3. [code[c] EXCEPT !.fresh = FALSE].status = code[c].status /\ [code[c] EXCEPT !.fresh = FALSE].attempts = code[c].attempts
    BY <1>0 DEF RowsOK, CodeRow
  <2>4. \A d \in Ids : code'[d].status = code[d].status /\ code'[d].attempts = code[d].attempts
    BY <1>0, <2>2, <2>3 DEF RowsOK
  <2> QED
    BY <2>1, <2>4, Quiet
<1>4. ASSUME NEW T \in SUBSET Targets, OthersChange(T) PROVE CodeInv'
  BY <1>4, Quiet DEF OthersChange
<1>5. CASE UNCHANGED vars
  BY <1>5, Quiet DEF vars
<1> QED
  BY <1>1, <1>2, <1>3, <1>4, <1>5, VerifyKeeps, SaveKeeps, UpdateKeeps, LostKeeps, CreateKeeps, HourKeeps
     DEF Next, RequestStep

\* At most MaxAttempts wrong codes are compared with a code that is not contested.
THEOREM GuessesBoundedCorrect == Spec => []GuessesBounded
<1>1. TypeOK /\ CodeInv => GuessesBounded
  <2> SUFFICES ASSUME TypeOK, CodeInv, NEW c \in Ids, c \notin contested
               PROVE  guesses[c] <= MaxAttempts
    BY DEF GuessesBounded
  <2>0. code[c].attempts \in 0 .. MaxAttempts
    BY DEF TypeOK, CodeRow
  <2>1. CASE ~Guessing(c)
    BY <2>0, <2>1, LimitsAssumption DEF CodeInv, History
  <2>2. CASE Guessing(c)
    <3>1. PICK r \in Requests : At(r, "wrong", c)
      BY <2>2 DEF Guessing
    <3>2. Verifying(r) /\ req[r].attempts < MaxAttempts /\ code[c].attempts = req[r].attempts
      BY <3>1 DEF At, Verifying, TypeOK, CodeInv, CopyFact
    <3>3. guesses[c] = code[c].attempts + 1
      BY <2>2 DEF CodeInv, History
    <3> QED
      BY <2>0, <3>2, <3>3, LimitsAssumption
  <2> QED
    BY <2>1, <2>2
<1> QED
  BY <1>1, InitTyped, NextTyped, InitCode, NextCode, PTL DEF Spec

\* A code that is not contested changes the phone at most once.
THEOREM UsedOnceCorrect == Spec => []UsedOnce
<1>1. CodeInv => UsedOnce
  BY DEF CodeInv, History, UsedOnce
<1> QED
  BY <1>1, InitTyped, NextTyped, InitCode, NextCode, PTL DEF Spec

-----------------------------------------------------------------------------
(* The requests for codes *)

Valid(c) == c \notin contested /\ IsValid(c)

\* The requests that are to create a code.
Askers == {r \in Requests : Asking(r)}

\* Every request that is to create a code counted when there was room for one.
Reserved == Cardinality(Recent) + Cardinality(Askers) < MaxRecent + Cardinality(Requests)

\* Codes are created in the order of their numbers.
InTurn == \A c, d \in Ids : d < c /\ code[c].status # "none" => code[d].status # "none"

\* What holds as long as requests for codes have not overlapped.
OneAsks  == \A r, s \in Requests : Asking(r) /\ Asking(s) => r = s
Room     == /\ Cardinality(Recent) <= MaxRecent
            /\ \A r \in Requests : Asking(r) => Cardinality(Recent) < MaxRecent
NoneValid == \A r \in Requests : req[r].pc = "absent"
                => \A c \in Ids : Valid(c) => code[c].phone # req[r].phone
OneValid == \A c, d \in Ids :
                c < d /\ Valid(c) /\ Valid(d) /\ code[c].phone = code[d].phone => d \in blind

\* A code stays recent while a request verifies it.
StillRecent == \A r \in Requests : Verifying(r) => req[r].id \in Recent

AskInv == /\ StillRecent /\ InTurn /\ Reserved
          /\ ~crowded => OneAsks /\ Room /\ NoneValid /\ OneValid

LEMMA RecentFinite == /\ IsFiniteSet(Recent) /\ Cardinality(Recent) \in Nat
                      /\ IsFiniteSet(Recent') /\ Cardinality(Recent') \in Nat
<1>1. IsFiniteSet(Ids)
  BY LimitsAssumption, FS_Interval DEF Ids
<1>2. Recent \subseteq Ids /\ Recent' \subseteq Ids
  BY DEF Recent, Ids
<1> QED
  BY <1>1, <1>2, FS_Subset, FS_CardinalityType

LEMMA AskersFinite ==
  /\ Cardinality(Requests) \in Nat
  /\ IsFiniteSet(Askers) /\ Cardinality(Askers) \in Nat
  /\ IsFiniteSet(Askers') /\ Cardinality(Askers') \in Nat
  /\ Cardinality(Askers') <= Cardinality(Requests)
<1>1. Askers \subseteq Requests /\ Askers' \subseteq Requests
  BY DEF Askers
<1> QED
  BY <1>1, RequestsAssumption, FS_Subset, FS_CardinalityType

\* A step after which no request asks that did not, and no code is valid or recent
\* that was not.
LEMMA Shrinks ==
  ASSUME TypeOK, AskInv, crowded' = crowded,
         Recent' \subseteq Recent,
         \A c \in Ids : (code'[c].status = "none") <=> (code[c].status = "none"),
         \A c \in Ids : Valid(c)' => /\ Valid(c) /\ code'[c].phone = code[c].phone
                                     /\ c \in blind => c \in blind',
         \A r \in Requests : Asking(r)' => req'[r] = req[r],
         \A r \in Requests : Verifying(r)' => req'[r].id \in Recent'
  PROVE  AskInv'
<1>1. Cardinality(Recent') <= Cardinality(Recent)
  BY RecentFinite, FS_Subset
<1>2. StillRecent'
  BY DEF StillRecent
<1>3. InTurn'
  BY DEF AskInv, InTurn
<1>4. \A r \in Requests : Asking(r)' => Asking(r)
  BY DEF Asking
<1>5. Reserved'
  <2>1. Askers' \subseteq Askers
    BY <1>4 DEF Askers
  <2>2. Cardinality(Askers') <= Cardinality(Askers)
    BY <2>1, AskersFinite, FS_Subset
  <2> QED
    BY <1>1, <2>2, RecentFinite, AskersFinite, LimitsAssumption DEF AskInv, Reserved
<1> SUFFICES ASSUME ~crowded PROVE OneAsks' /\ Room' /\ NoneValid' /\ OneValid'
  BY <1>2, <1>3, <1>5 DEF AskInv
<1>6. OneAsks /\ Room /\ NoneValid /\ OneValid
  BY DEF AskInv
<1>7. OneAsks'
  BY <1>4, <1>6 DEF OneAsks
<1>8. Room'
  BY <1>1, <1>4, <1>6, RecentFinite, LimitsAssumption DEF Room
<1>9. \A r \in Requests : req'[r].pc = "absent" => req'[r] = req[r]
  BY DEF Asking
<1>10. NoneValid'
  BY <1>6, <1>9 DEF NoneValid
<1>11. OneValid'
  BY <1>6 DEF OneValid
<1> QED
  BY <1>7, <1>8, <1>10, <1>11

\* ... and one that changes no row either.
LEMMA RowsKept ==
  ASSUME TypeOK, AskInv, UNCHANGED <<code, crowded, blind>>, contested \subseteq contested',
         NEW r \in Requests, \A s \in Requests \ {r} : req'[s] = req[s],
         ~Asking(r)', Verifying(r)' => req'[r].id \in Recent
  PROVE  AskInv'
<1>1. Recent' = Recent
  BY DEF Recent
<1>2. \A c \in Ids : Valid(c)' => /\ Valid(c) /\ code'[c].phone = code[c].phone
                                  /\ c \in blind => c \in blind'
  BY DEF Valid, IsValid
<1>3. \A s \in Requests : Asking(s)' => req'[s] = req[s]
  OBVIOUS
<1>4. \A s \in Requests : Verifying(s)' => req'[s].id \in Recent'
  BY <1>1 DEF AskInv, StillRecent, Verifying
<1> QED
  BY <1>1, <1>2, <1>3, <1>4, Shrinks

LEMMA InitAsk == Init => AskInv
<1> SUFFICES ASSUME Init PROVE AskInv
  OBVIOUS
<1>1. /\ IdleRequest.pc = "idle" /\ NoCode.status = "none"
      /\ \A r \in Requests : req[r].pc = "idle"
      /\ \A c \in Ids : code[c].status = "none"
  BY DEF Init, IdleRequest, NoCode
<1>2. Recent = {} /\ Askers = {}
  BY <1>1 DEF Recent, Askers, Asking
<1>3. Cardinality(Recent) <= MaxRecent
  BY <1>2, FS_EmptySet, LimitsAssumption
<1>4. Reserved
  <2>1. Cardinality(Recent) = 0 /\ Cardinality(Askers) = 0
    BY <1>2, FS_EmptySet
  <2> QED
    BY <2>1, AskersFinite, LimitsAssumption DEF Reserved
<1> QED
  BY <1>1, <1>3, <1>4 DEF AskInv, StillRecent, InTurn, OneAsks, Room, NoneValid, OneValid, Valid,
                          IsValid, Verifying, Asking

LEMMA CountAsks ==
  ASSUME TypeOK, AskInv, NEW r \in Requests, NEW p \in Targets, RequestCount(r, p)
  PROVE  AskInv'
<1>0. RequestsOK /\ RowsOK
  BY TypeParts
<1>1. /\ req'[r].pc = "counted"
      /\ \A s \in Requests \ {r} : req'[s] = req[s]
  BY <1>0 DEF RequestCount, Enter, RequestsOK
<1>2. /\ Recent' = Recent /\ UNCHANGED <<code, blind>>
      /\ \A c \in Ids : Valid(c)' <=> Valid(c)
  BY DEF RequestCount, Recent, Valid, IsValid
<1>3. StillRecent' /\ InTurn'
  BY <1>1, <1>2 DEF AskInv, StillRecent, InTurn, Verifying
<1>6. Cardinality(Recent') < MaxRecent
  BY <1>2 DEF RequestCount, BelowHourlyLimit
<1>7. Reserved'
  BY <1>6, RecentFinite, AskersFinite, LimitsAssumption DEF Reserved
<1> SUFFICES ASSUME ~crowded' PROVE OneAsks' /\ Room' /\ NoneValid' /\ OneValid'
  BY <1>3, <1>7 DEF AskInv
<1>4. ~crowded /\ \A s \in Requests \ {r} : ~Asking(s)
  BY <1>0 DEF RequestCount, RowsOK
<1>5. OneAsks' /\ NoneValid' /\ OneValid'
  BY <1>1, <1>2, <1>4 DEF AskInv, OneAsks, NoneValid, OneValid, Asking
<1>8. Room'
  BY <1>6, RecentFinite, LimitsAssumption DEF Room
<1> QED
  BY <1>5, <1>8

LEMMA FindAsks ==
  ASSUME TypeOK, AskInv, NEW r \in Requests, RequestFind(r) \/ RequestFindFails(r)
  PROVE  AskInv'
<1>0. RequestsOK /\ RowsOK
  BY TypeParts
<1>1. UNCHANGED <<code, contested, crowded, blind>> /\ Asking(r)
  BY DEF RequestFind, RequestFindFails, Asking
<1>2. CASE Answer(r)
  <2>1. /\ ~Asking(r)' /\ ~Verifying(r)'
        /\ \A s \in Requests \ {r} : req'[s] = req[s]
    BY <1>0, <1>2, Answered DEF Asking, Verifying
  <2> QED
    BY <1>1, <2>1, RowsKept
<1>3. ASSUME NEW pc \in {"absent", "unseen"}, Enter(r, pc, req[r].phone, 0, 0),
             pc = "absent" => Active(req[r].phone) = {}
      PROVE  AskInv'
  <2>1. /\ req'[r].pc = pc /\ req'[r].phone = req[r].phone
        /\ \A s \in Requests \ {r} : req'[s] = req[s]
    BY <1>0, <1>3 DEF Enter, RequestsOK
  <2>2. Recent' = Recent /\ \A c \in Ids : Valid(c)' <=> Valid(c)
    BY <1>1 DEF Recent, Valid, IsValid
  <2>3. StillRecent' /\ InTurn'
    BY <1>1, <2>1, <2>2 DEF AskInv, StillRecent, InTurn, Verifying
  <2>5. \A s \in Requests : Asking(s)' <=> Asking(s)
    BY <1>1, <2>1 DEF Asking
  <2>9. Reserved'
    <3>1. Askers' = Askers
      BY <2>5 DEF Askers
    <3> QED
      BY <2>2, <3>1 DEF AskInv, Reserved
  <2> SUFFICES ASSUME ~crowded PROVE OneAsks' /\ Room' /\ NoneValid' /\ OneValid'
    BY <1>1, <2>3, <2>9 DEF AskInv
  <2>4. OneAsks /\ Room /\ NoneValid /\ OneValid
    BY DEF AskInv
  <2>6. OneAsks' /\ Room' /\ OneValid'
    BY <1>1, <2>2, <2>4, <2>5 DEF OneAsks, Room, OneValid
  <2>7. pc = "absent" => \A c \in Ids : Valid(c) => code[c].phone # req[r].phone
    BY <1>3 DEF Active, Valid
  <2>8. NoneValid'
    BY <1>1, <2>1, <2>2, <2>4, <2>7 DEF NoneValid
  <2> QED
    BY <2>6, <2>8
<1> QED
  BY <1>2, <1>3 DEF RequestFind, RequestFindFails

LEMMA CreateAsks ==
  ASSUME TypeOK, AskInv, NEW r \in Requests, NEW c \in Ids, RequestCreate(r, c)
  PROVE  AskInv'
<1>0. RequestsOK /\ RowsOK
  BY TypeParts
<1>1. /\ ~Asking(r)' /\ ~Verifying(r)' /\ req'[r].pc = "idle"
      /\ \A s \in Requests \ {r} : req'[s] = req[s]
  BY <1>0, Answered DEF RequestCreate, Asking, Verifying
<1>2. /\ req[r].pc \in {"absent", "unseen"} /\ Asking(r)
      /\ UNCHANGED <<contested, crowded>>
      /\ blind' = IF req[r].pc = "unseen" THEN blind \cup {c} ELSE blind
  BY DEF RequestCreate, Asking
<1>3. /\ code[c].status = "none"
      /\ code'[c].status = "open" /\ code'[c].phone = req[r].phone
      /\ \A d \in Ids : d # c => code'[d] = code[d]
      /\ \A d \in Ids : d < c => code[d].status # "none"
  BY <1>0 DEF RequestCreate, Create, RowsOK
<1>4. Recent' = Recent \cup {c} /\ c \notin Recent
  BY <1>3 DEF Recent
<1>5. Cardinality(Recent') = Cardinality(Recent) + 1
  BY <1>4, RecentFinite, FS_AddElement
<1>6. StillRecent'
  BY <1>1, <1>4 DEF AskInv, StillRecent, Verifying
<1>14. InTurn'
  <2>1. \A d \in Ids : d \in Nat
    BY DEF Ids
  <2> QED
    BY <1>3, <2>1 DEF AskInv, InTurn
<1>15. Reserved'
  <2>1. Askers' = Askers \ {r} /\ r \in Askers
    BY <1>1, <1>2 DEF Askers, Asking
  <2>2. Cardinality(Askers') = Cardinality(Askers) - 1
    BY <2>1, AskersFinite, FS_RemoveElement
  <2> QED
    BY <1>5, <2>2, RecentFinite, AskersFinite, LimitsAssumption DEF AskInv, Reserved
<1> SUFFICES ASSUME ~crowded PROVE OneAsks' /\ Room' /\ NoneValid' /\ OneValid'
  BY <1>2, <1>6, <1>14, <1>15 DEF AskInv
<1>7. OneAsks /\ Room /\ NoneValid /\ OneValid
  BY DEF AskInv
<1>8. \A s \in Requests : ~Asking(s)'
  BY <1>1, <1>2, <1>7 DEF OneAsks, Asking
<1>9. OneAsks' /\ NoneValid'
  BY <1>8 DEF OneAsks, NoneValid, Asking
<1>10. Room'
  BY <1>2, <1>5, <1>7, <1>8, RecentFinite, LimitsAssumption DEF Room
<1>11. \A d \in Ids : d # c => (Valid(d)' <=> Valid(d)) /\ code'[d].phone = code[d].phone
  BY <1>2, <1>3 DEF Valid, IsValid
<1>12. req[r].pc = "absent" => \A d \in Ids : Valid(d) => code[d].phone # req[r].phone
  BY <1>7 DEF NoneValid
<1>13. \A d \in Ids : c < d => ~Valid(d)
  BY <1>3 DEF AskInv, InTurn, Valid, IsValid
<1>16. OneValid'
  <2> SUFFICES ASSUME NEW a \in Ids, NEW b \in Ids, a < b, Valid(a)', Valid(b)',
                      code'[a].phone = code'[b].phone
               PROVE  b \in blind'
    BY DEF OneValid
  <2>1. a \in Nat /\ b \in Nat /\ c \in Nat
    BY DEF Ids
  <2>2. CASE b = c
    <3>1. a # c /\ Valid(a) /\ code[a].phone = req[r].phone
      BY <1>3, <1>11, <2>1, <2>2
    <3>2. req[r].pc = "unseen"
      BY <1>2, <1>12, <3>1
    <3> QED
      BY <1>2, <2>2, <3>2
  <2>3. CASE b # c
    <3>1. Valid(b)
      BY <1>11, <2>3
    <3>2. a # c
      BY <1>13, <3>1
    <3>3. Valid(a) /\ code[a].phone = code[b].phone
      BY <1>11, <2>3, <3>2
    <3>4. b \in blind
      BY <1>7, <3>1, <3>3 DEF OneValid
    <3> QED
      BY <1>2, <3>4
  <2> QED
    BY <2>2, <2>3
<1> QED
  BY <1>9, <1>10, <1>16

LEMMA SaveAsks ==
  ASSUME TypeOK, CodeInv, AskInv, NEW r \in Requests, IncrementAttempts(r) \/ MarkVerified(r)
  PROVE  AskInv'
<1>0. RequestsOK /\ RowsOK
  BY TypeParts
<1> DEFINE d == req[r].id
<1>1. /\ Verifying(r) /\ d \in Ids /\ d \in Recent
      /\ Answer(r)
      /\ UNCHANGED <<contested, crowded, blind>>
  BY Holder DEF IncrementAttempts, MarkVerified, Verifying, AskInv, StillRecent
<1>2. /\ ~Asking(r)' /\ ~Verifying(r)'
      /\ \A s \in Requests \ {r} : req'[s] = req[s]
  BY <1>0, <1>1, Answered DEF Asking, Verifying
<1>3. d \notin contested => /\ code[d].status = "open"
                            /\ code[d].attempts = req[r].attempts
                            /\ req[r].attempts < MaxAttempts
  BY <1>0, <1>1, Holder DEF RequestsOK
<1>4. PICK status \in {"open", "verified"}, n \in 0 .. MaxAttempts :
         Save(r, status, n)
  <2>1. req[r].attempts \in 0 .. MaxAttempts /\ req[r].attempts + 1 \in 0 .. MaxAttempts
    BY <1>0, <1>1, RequestTyped, LimitsAssumption DEF RequestsOK
  <2> QED
    BY <2>1 DEF IncrementAttempts, MarkVerified
<1>5. /\ code'[d].status = status /\ code'[d].attempts = n
      /\ \A c \in Ids : c # d => code'[c] = code[c]
  BY <1>0, <1>1, <1>4, SavedTyped
<1>6. code'[d].phone = code[d].phone /\ code'[d].fresh = code[d].fresh
  <2>1. code[d] \in CodeRow
    BY <1>0, <1>1 DEF RowsOK
  <2>2. code' = [code EXCEPT ![d] = [code[d] EXCEPT !.status = status, !.attempts = n]]
    BY <1>0, <1>1, <1>4 DEF Save, RowsOK
  <2>3. [code[d] EXCEPT !.status = status, !.attempts = n].phone = code[d].phone
        /\ [code[d] EXCEPT !.status = status, !.attempts = n].fresh = code[d].fresh
    BY <2>1 DEF CodeRow
  <2>4. code'[d] = [code[d] EXCEPT !.status = status, !.attempts = n]
    BY <1>0, <1>1, <2>2 DEF RowsOK
  <2> QED
    BY <2>3, <2>4
<1>11. code[d].status # "none"
  BY <1>1 DEF Recent
<1> HIDE DEF d
<1>7. Recent' = Recent
  BY <1>1, <1>5 DEF Recent
<1>8. \A c \in Ids : Valid(c)' => /\ Valid(c) /\ code'[c].phone = code[c].phone
                                  /\ c \in blind => c \in blind'
  BY <1>1, <1>3, <1>5, <1>6 DEF Valid, IsValid
<1>9. \A s \in Requests : Asking(s)' => req'[s] = req[s]
  BY <1>2
<1>10. \A s \in Requests : Verifying(s)' => req'[s].id \in Recent'
  BY <1>2, <1>7 DEF AskInv, StillRecent, Verifying
<1>12. \A c \in Ids : (code'[c].status = "none") <=> (code[c].status = "none")
  BY <1>5, <1>11
<1> QED
  BY <1>1, <1>7, <1>8, <1>9, <1>10, <1>12, Shrinks

LEMMA VerifyAsks ==
  ASSUME TypeOK, AskInv, NEW r \in Requests, NEW p \in Targets, NEW c \in Ids, VerifyRead(r, p, c)
  PROVE  AskInv'
<1>0. RequestsOK /\ RowsOK
  BY TypeParts
<1>1. /\ c \in Recent
      /\ UNCHANGED <<code, crowded, blind>> /\ contested \subseteq contested'
      /\ code[c].attempts < MaxAttempts /\ code[c].attempts \in 0 .. MaxAttempts
  BY <1>0 DEF VerifyRead, FindActiveByUserAndPhone, Active, IsValid, Recent, RowsOK, CodeRow
<1>2. PICK pc \in {"wrong", "right"} : Enter(r, pc, p, c, code[c].attempts)
  BY DEF VerifyRead, Compare
<1>3. /\ req'[r] = [pc |-> pc, phone |-> p, id |-> c, attempts |-> code[c].attempts]
      /\ \A s \in Requests \ {r} : req'[s] = req[s]
  BY <1>0, <1>1, <1>2, Moved DEF RequestPCs
<1>4. ~Asking(r)' /\ req'[r].id \in Recent
  BY <1>1, <1>3 DEF Asking
<1> QED
  BY <1>1, <1>3, <1>4, RowsKept

LEMMA TimeAsks ==
  ASSUME TypeOK, AskInv, NEW c \in Ids, Expire(c) \/ HourPasses(c)
  PROVE  AskInv'
<1>0. RequestsOK /\ RowsOK
  BY TypeParts
<1>1. UNCHANGED <<req, crowded>>
  BY DEF Expire, HourPasses
<1>2. CASE Expire(c)
  <2>1. [code[c] EXCEPT !.fresh = FALSE] \in CodeRow /\ code[c] \in CodeRow
        /\ [code[c] EXCEPT !.fresh = FALSE].fresh = FALSE
        /\ [code[c] EXCEPT !.fresh = FALSE].status = code[c].status
    BY <1>0 DEF RowsOK, CodeRow
  <2>2. code' = [code EXCEPT ![c] = [code[c] EXCEPT !.fresh = FALSE]]
    BY <1>2 DEF Expire
  <2>3. /\ code'[c].fresh = FALSE /\ code'[c].status = code[c].status
        /\ \A d \in Ids : d # c => code'[d] = code[d]
    BY <1>0, <2>1, <2>2 DEF RowsOK
  <2>4. Recent' = Recent
    BY <2>3 DEF Recent
  <2>5. \A d \in Ids : Valid(d)' => /\ Valid(d) /\ code'[d].phone = code[d].phone
                                    /\ d \in blind => d \in blind'
    BY <1>2, <2>3 DEF Expire, Valid, IsValid
  <2>6. \A d \in Ids : (code'[d].status = "none") <=> (code[d].status = "none")
    BY <2>3
  <2> QED
    BY <1>1, <2>4, <2>5, <2>6, Shrinks DEF AskInv, StillRecent, Verifying
<1>3. CASE HourPasses(c)
  <2>1. [NoCode EXCEPT !.status = "old"].status = "old"
    BY DEF NoCode
  <2>2. /\ code'[c].status = "old"
        /\ \A d \in Ids : d # c => code'[d] = code[d]
    BY <1>0, <1>3, <2>1 DEF HourPasses, RowsOK
  <2>3. Recent' = Recent \ {c}
    BY <2>2 DEF Recent
  <2>4. \A d \in Ids : Valid(d)' => /\ Valid(d) /\ code'[d].phone = code[d].phone
                                    /\ d \in blind => d \in blind'
    BY <1>3, <2>2 DEF HourPasses, Valid, IsValid
  <2>6. \A d \in Ids : (code'[d].status = "none") <=> (code[d].status = "none")
    BY <1>3, <2>2 DEF HourPasses, Recent
  <2>5. \A r \in Requests : Verifying(r)' => req'[r].id \in Recent'
    BY <1>1, <1>3, <2>3 DEF HourPasses, AskInv, StillRecent, Verifying
  <2> QED
    BY <1>1, <2>3, <2>4, <2>5, <2>6, Shrinks
<1> QED
  BY <1>2, <1>3

LEMMA NextAsk == TypeOK /\ CodeInv /\ AskInv /\ [Next]_vars => AskInv'
<1> SUFFICES ASSUME TypeOK, CodeInv, AskInv, [Next]_vars PROVE AskInv'
  OBVIOUS
<1>0. RequestsOK /\ RowsOK
  BY TypeParts
<1>1. ASSUME NEW r \in Requests, SaveLost(r) \/ RequestFails(r) PROVE AskInv'
  <2>1. UNCHANGED <<code, crowded, blind>> /\ contested \subseteq contested'
    BY <1>1 DEF SaveLost, RequestFails
  <2>2. /\ ~Asking(r)' /\ ~Verifying(r)'
        /\ \A s \in Requests \ {r} : req'[s] = req[s]
    BY <1>0, <1>1, Answered DEF SaveLost, RequestFails, Asking, Verifying
  <2> QED
    BY <2>1, <2>2, RowsKept
<1>2. ASSUME NEW r \in Requests, UpdatePhone(r) PROVE AskInv'
  <2>1. UNCHANGED <<code, crowded, contested, blind>> /\ Verifying(r)
    BY <1>2 DEF UpdatePhone, Verifying
  <2>2. /\ req'[r].pc = "updated" /\ req'[r].id = req[r].id
        /\ \A s \in Requests \ {r} : req'[s] = req[s]
    BY <1>0, <1>2 DEF UpdatePhone, Enter, RequestsOK
  <2>3. ~Asking(r)' /\ req'[r].id \in Recent
    BY <2>1, <2>2 DEF Asking, AskInv, StillRecent
  <2> QED
    BY <2>1, <2>2, <2>3, RowsKept
<1>3. ASSUME UNCHANGED <<code, req, contested, crowded, blind>> PROVE AskInv'
  <2>1. Recent' = Recent
    BY <1>3 DEF Recent
  <2>2. \A c \in Ids : Valid(c)' => /\ Valid(c) /\ code'[c].phone = code[c].phone
                                    /\ c \in blind => c \in blind'
    BY <1>3 DEF Valid, IsValid
  <2> QED
    BY <1>3, <2>1, <2>2, Shrinks DEF AskInv, StillRecent, Verifying
<1>4. ASSUME NEW T \in SUBSET Targets, OthersChange(T) PROVE AskInv'
  BY <1>3, <1>4 DEF OthersChange
<1>5. CASE UNCHANGED vars
  BY <1>3, <1>5 DEF vars
<1> QED
  BY <1>1, <1>2, <1>4, <1>5, CountAsks, FindAsks, CreateAsks, VerifyAsks, SaveAsks, TimeAsks
     DEF Next, RequestStep

\* However requests overlap, the codes of an hour stay below the limit and the number of
\* requests together; as long as they do not, there are at most MaxRecent, and a second
\* one to try for a phone only after a look-up that failed.
THEOREM RequestsBoundedCorrect == Spec => []RequestsBounded
<1>1. AskInv => RequestsBounded
  <2>1. Reserved => Cardinality(Recent) < MaxRecent + Cardinality(Requests)
    BY RecentFinite, AskersFinite, LimitsAssumption DEF Reserved
  <2> QED
    BY <2>1 DEF AskInv, Room, OneValid, Valid, RequestsBounded
<1> QED
  BY <1>1, InitTyped, NextTyped, InitCode, NextCode, InitAsk, NextAsk, PTL DEF Spec
=============================================================================
