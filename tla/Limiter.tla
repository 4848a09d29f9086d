------------------------------- MODULE Limiter -------------------------------
(***************************************************************************)
(* The two in-memory limiters, for one key.  Both keep a map from keys to  *)
(* entries and lock in two levels: the entry is looked up or created under *)
(* the lock of the map and used, later, under its own; a cleanup goroutine *)
(* deletes entries under both.  They differ in what an entry forgets:      *)
(* that of withdrawals (withdrawal_rate_limit.go) the attempts that have   *)
(* left a sliding window, that of requests (rate_limit.go) all attempts    *)
(* when its fixed window is over.                                          *)
(***************************************************************************)
EXTENDS Naturals, FiniteSets

CONSTANTS
    Requests,   \* requests with the key that may be in progress
    Entries,    \* addresses of entries
    None,       \* no entry
    Limit,      \* attempts per window (3 an hour; 60 or 10 a minute)
    Window,     \* the window, in units of the clock
    Second,     \* a second, in units of the clock
    MaxTime     \* bound of the clock

ASSUME LimitAssumption == {Limit, Window, Second} \subseteq Nat \ {0}
ASSUME TimeAssumption  == MaxTime \in Nat
ASSUME NoneAssumption  == None \notin Entries

VARIABLES
    kind,       \* which limiter it is: "sliding" or "fixed"
    now,        \* the clock
    current,    \* the entry that the map has for the key
    entry,      \* address -> the entry there
    req,        \* request -> the entry it has looked up
    asked,      \* the entry that a request for the status has looked up
    sweep,      \* the time the cleanup goroutine has read, MaxTime + 1 if none
    admitted    \* history: time -> attempts of the window that ends now that were
                \* recorded in the entry of the map

vars == <<kind, now, current, entry, req, asked, sweep, admitted>>

Times   == 0 .. MaxTime
NoTime  == MaxTime + 1
Nothing == [t \in Times |-> 0]

\* `attempts' is the count of a fixed window by the time of its increments; a
\* sliding one has no `reset'.
NoEntry == [attempts |-> Nothing, reset |-> 0]
Entry   == [attempts : [Times -> Nat], reset : Nat]

TypeOK == /\ kind \in {"sliding", "fixed"}
          /\ now \in Times
          /\ current \in Entries \cup {None}
          /\ entry \in [Entries -> Entry]
          /\ req \in [Requests -> Entries \cup {None}]
          /\ asked \in Entries \cup {None}
          /\ sweep \in (0 .. now) \cup {NoTime}
          /\ admitted \in [Times -> Nat]
          /\ \A e \in Entries, t \in Times : t > now => entry[e].attempts[t] = 0

Init == /\ kind \in {"sliding", "fixed"}
        /\ now = 0
        /\ current = None
        /\ entry = [e \in Entries |-> NoEntry]
        /\ req = [r \in Requests |-> None]
        /\ asked = None
        /\ sweep = NoTime
        /\ admitted = Nothing

-----------------------------------------------------------------------------
(* Entries *)

\* The number of attempts, counted as the pairs of a time and an ordinal.
Stack(attempts) == UNION {{t} \X (1 .. attempts[t]) : t \in Times}
Total(attempts) == Cardinality(Stack(attempts))

\* attempt.After(now.Add(-window)), for an attempt at time t
InWindow(t, at) == at < t + Window

Within(attempts, at) == [t \in Times |-> IF InWindow(t, at) THEN attempts[t] ELSE 0]

\* What an entry is when it has forgotten what it forgets at the given time.
Pruned(e, at)  == [e EXCEPT !.attempts = Within(@, at)]
Renewed(e, at) == IF at > e.reset THEN [attempts |-> Nothing, reset |-> at + Window] ELSE e
Kept(e, at)    == IF kind = "sliding" THEN Pruned(e, at) ELSE Renewed(e, at)

Created(at) == [attempts |-> Nothing, reset |-> IF kind = "fixed" THEN at + Window ELSE 0]

Recorded(history) == [history EXCEPT ![now] = @ + 1]

\* Entries that nothing refers to are collected.
Collected(entries) == [e \in Entries |->
    IF e = current' \/ e = asked' \/ \E r \in Requests : req'[r] = e THEN entries[e] ELSE NoEntry]

Unused == {e \in Entries : e \notin {current, asked} /\ \A r \in Requests : req[r] # e}

-----------------------------------------------------------------------------
(* A request: checkAndRecord and allow *)

\* Under the lock of the map.
LookUp(r) ==
    /\ req[r] = None
    /\ current # None
    /\ req' = [req EXCEPT ![r] = current]
    /\ UNCHANGED <<kind, now, current, entry, asked, sweep, admitted>>

LookUpNew(r, e) ==
    /\ req[r] = None
    /\ current = None
    /\ e \in Unused
    /\ current' = e
    /\ entry' = [entry EXCEPT ![e] = Created(now)]
    /\ req' = [req EXCEPT ![r] = e]
    /\ UNCHANGED <<kind, now, asked, sweep, admitted>>

\* Mutant of Full: one attempt too many.
AlmostFull(e) == Total(e.attempts) > Limit

Full(e) == Total(e.attempts) >= Limit

\* Under the lock of the entry, which the map may no longer have.  What happens to
\* the request afterwards, in the handler, does not change the record.
Admit(r) ==
    LET e == req[r]
        kept == Kept(entry[e], now)
    IN  /\ e # None
        /\ ~Full(kept)
        /\ req' = [req EXCEPT ![r] = None]
        /\ UNCHANGED <<kind, now, current, asked, sweep>>
        /\ entry' = Collected([entry EXCEPT ![e] = [kept EXCEPT !.attempts = Recorded(@)]])
        /\ admitted' = IF e = current THEN Recorded(admitted) ELSE admitted

Refuse(r) ==
    LET e == req[r]
        kept == Kept(entry[e], now)
    IN  /\ e # None
        /\ Full(kept)
        /\ req' = [req EXCEPT ![r] = None]
        /\ UNCHANGED <<kind, now, current, asked, sweep, admitted>>
        /\ entry' = Collected([entry EXCEPT ![e] = kept])

-----------------------------------------------------------------------------
(* GetWithdrawalRateLimitStatus, and the answer to a refused request *)

\* Under the lock of the map; without an entry the answer is that nothing is used.
StatusLookUp ==
    /\ asked = None
    /\ current # None
    /\ asked' = current
    /\ UNCHANGED <<kind, now, current, entry, req, sweep, admitted>>

Used(e) == Total(Within(entry[e].attempts, now))

\* Under the lock of the entry: the answer is Used(asked).
StatusRead ==
    /\ asked # None
    /\ asked' = None
    /\ UNCHANGED <<kind, now, current, req, sweep, admitted>>
    /\ entry' = Collected(entry)

\* Mutant of NextAllowed: the newest attempt is taken for the oldest.
NextAllowedLast(e) ==
    (CHOOSE t \in Times : e.attempts[t] > 0 /\ \A u \in Times : e.attempts[u] > 0 => u <= t) + Window

\* When the oldest attempt leaves the window, for an entry that is full.
NextAllowed(e) ==
    (CHOOSE t \in Times : e.attempts[t] > 0 /\ \A u \in Times : e.attempts[u] > 0 => t <= u) + Window

\* Unix, Format("15:04:05") and int(Seconds()) drop the fraction of a second.
Whole(time) == time - (time % Second)

\* What the client is told: the time, and in Retry-After how long to wait.
Told(e) == {Whole(NextAllowed(e)), now + Whole(NextAllowed(e) - now)}

-----------------------------------------------------------------------------
(* cleanup *)

\* Mutant of CleanupTick: the window is added to the time instead of subtracted.
CleanupTickAhead ==
    /\ sweep = NoTime
    /\ sweep' = now + Window
    /\ UNCHANGED <<kind, now, current, entry, req, asked, admitted>>

\* The ticker fires: the goroutine reads the clock and then waits for the lock.
CleanupTick ==
    /\ sweep = NoTime
    /\ sweep' = now
    /\ UNCHANGED <<kind, now, current, entry, req, asked, admitted>>

\* Mutant of Expired: an entry is dropped when its window is over for most of it.
ExpiredSoon(e, at) == IF kind = "sliding" THEN Total(Within(e.attempts, at + 1)) = 0
                                          ELSE at > e.reset

Expired(e, at) == IF kind = "sliding" THEN Total(Within(e.attempts, at)) = 0
                                      ELSE at > e.reset + Window

\* Under both locks.
Cleanup ==
    /\ sweep # NoTime
    /\ sweep' = NoTime
    /\ UNCHANGED <<kind, now, req, asked, admitted>>
    /\ \/ /\ current # None
          /\ Expired(entry[current], sweep)
          /\ current' = None
          /\ entry' = Collected(entry)
       \/ /\ current # None
          /\ ~Expired(entry[current], sweep)
          /\ entry' = IF kind = "sliding"
                      THEN [entry EXCEPT ![current] = Pruned(@, sweep)] ELSE entry
          /\ UNCHANGED current
       \/ /\ current = None
          /\ UNCHANGED <<current, entry>>

Tick == /\ now < MaxTime
        /\ now' = now + 1
        /\ admitted' = Within(admitted, now + 1)
        /\ UNCHANGED <<kind, current, entry, req, asked, sweep>>

RequestStep(r) == \/ LookUp(r)
                  \/ \E e \in Entries : LookUpNew(r, e)
                  \/ Admit(r)
                  \/ Refuse(r)

Next == \/ Tick
        \/ CleanupTick \/ Cleanup
        \/ StatusLookUp \/ StatusRead
        \/ \E r \in Requests : RequestStep(r)

Spec == Init /\ [][Next]_vars

-----------------------------------------------------------------------------
(* Properties *)

\* At most Limit attempts are admitted in any window by the sliding limiter, and
\* twice as many, at the seam of two windows, by the fixed one; not counted are those
\* of requests that had looked up an entry which the cleanup then deleted.  Whatever
\* the cleanup deletes, no other attempt is forgotten within its window; and an entry
\* keeps to its limit after it was deleted, so each deletion lets at most Limit
\* further attempts through.
WithinLimit == /\ Total(admitted) <= (IF kind = "sliding" THEN Limit ELSE 2 * Limit)
               /\ \A e \in Entries : Total(entry[e].attempts) <= Limit

\* The status of the withdrawal limiter is what it has admitted in the window that
\* ends when the entry is read, unless the entry was deleted after it was looked up;
\* and where there is no entry nothing is used (GetWithdrawalRateLimitStatus).
StatusTruthful == kind = "sliding" =>
    /\ current = None => Total(admitted) = 0
    /\ asked # None /\ asked = current => Used(asked) = Total(admitted)

\* "Try again at": the times that a refused request is told are never later than
\* needed, and less than a second too early: the entry stays full until then, and
\* has room a second later (checkAndRecord and WithdrawalRateLimit).
RetryWorks == kind = "sliding" => \A e \in Entries :
    LET kept == Kept(entry[e], now)
    IN  Full(kept) => \A t \in Told(kept) :
            /\ \A u \in now .. MaxTime : u < t => Full(Kept(kept, u))
            /\ ~Full(Kept(kept, t + Second))
=============================================================================
