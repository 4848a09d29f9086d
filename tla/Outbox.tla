------------------------------- MODULE Outbox -------------------------------
(***************************************************************************)
(* The transactional outbox: outbox_repository.go and the dispatchers of   *)
(* outbox_dispatcher.go, one in each worker process.                       *)
(*                                                                         *)
(* A dispatcher claims a batch of pending events in one transaction and    *)
(* then, event by event, publishes to RabbitMQ and records the result, two *)
(* steps with no lock around them.  Every dispatcher also runs a recovery  *)
(* loop that puts events claimed too long ago back to pending.  Status and *)
(* attempts of an event are in the database; what a dispatcher has claimed,*)
(* and the attempts it saw, are in its memory and are lost by a crash.     *)
(***************************************************************************)
EXTENDS Integers, FiniteSets

CONSTANTS
    NumEvents,         \* the events 1 .. NumEvents, in the order of created_at
    Unmapped,          \* events whose type getQueueName does not know
    Dispatchers,       \* the dispatcher instances
    BatchSize,         \* Config.BatchSize
    MaxRetries,        \* Config.MaxRetries
    MaxFaults          \* bound: crashes, database errors and stalls

Events == 1 .. NumEvents

ASSUME SizesAssumption == /\ NumEvents \in Nat
                          /\ BatchSize \in Nat \ {0}
                          /\ MaxRetries \in Nat \ {0}
                          /\ MaxFaults \in Nat
ASSUME UnmappedAssumption == Unmapped \subseteq Events

VARIABLES
    event,     \* event -> its row of outbox_events
    disp,      \* dispatcher -> the claimed events it has not dealt with yet
    sent,      \* the events written to the broker's connection at least once
    faults,    \* how many faults have happened
    seized     \* history: the events taken back from a dispatcher that still held them

vars == <<event, disp, sent, faults, seized>>

Statuses == {"none", "pending", "claimed", "published", "failed"}

\* due stands for available_at <= now.
EventRow == [status : Statuses, attempts : Nat, due : BOOLEAN]

\* An event as ClaimEvents returned it: the attempts are not read again.
Claimed == [id : Events, attempts : Nat]

DispatcherState == [pc : {"idle", "publish", "published", "refused"}, batch : SUBSET Claimed]
IdleDispatcher  == [pc |-> "idle", batch |-> {}]

TypeOK == /\ event \in [Events -> EventRow]
          /\ disp \in [Dispatchers -> DispatcherState]
          /\ sent \in SUBSET Events
          /\ faults \in 0 .. MaxFaults
          /\ seized \in SUBSET Events

Init == /\ event = [e \in Events |-> [status |-> "none", attempts |-> 0, due |-> FALSE]]
        /\ disp = [d \in Dispatchers |-> IdleDispatcher]
        /\ sent = {}
        /\ faults = 0
        /\ seized = {}

Fault == faults < MaxFaults /\ faults' = faults + 1

-----------------------------------------------------------------------------
(* The transaction that owns the event, and time *)

\* CreateEvent: the event is committed with the business state.
CreateEvent(e) ==
    /\ event[e].status = "none"
    /\ event' = [event EXCEPT ![e] = [status |-> "pending", attempts |-> 0, due |-> TRUE]]
    /\ UNCHANGED <<disp, sent, faults, seized>>

\* The backoff of calculateBackoff is over.
BackoffElapses(e) ==
    /\ event[e].status = "pending"
    /\ ~event[e].due
    /\ event' = [event EXCEPT ![e].due = TRUE]
    /\ UNCHANGED <<disp, sent, faults, seized>>

-----------------------------------------------------------------------------
(* processBatch *)

\* Mutant of Claimable: the filter on the status is gone.
ClaimableAnyStatus == {e \in Events : event[e].status \in {"pending", "claimed"} /\ event[e].due}

Claimable == {e \in Events : event[e].status = "pending" /\ event[e].due}

\* What LIMIT batchSize may return: SKIP LOCKED passes over the claimable rows that
\* another dispatcher has locked, and that one may yet roll back.
IsBatch(S) == S # {} /\ S \subseteq Claimable /\ Cardinality(S) <= BatchSize

\* ClaimEvents: FOR UPDATE SKIP LOCKED makes it one step.
ClaimEvents(d, S) ==
    /\ disp[d].pc = "idle"
    /\ IsBatch(S)
    /\ event' = [e \in Events |-> IF e \in S THEN [event[e] EXCEPT !.status = "claimed"]
                                             ELSE event[e]]
    /\ disp' = [disp EXCEPT ![d] =
                    [pc |-> "publish",
                     batch |-> {[id |-> e, attempts |-> event[e].attempts] : e \in S}]]
    /\ UNCHANGED <<sent, faults, seized>>

\* The event the loop over the batch has arrived at.
Current(d, c) == c \in disp[d].batch /\ \A other \in disp[d].batch : c.id <= other.id

\* processEvent returns nil: the message is written to the broker's connection.
\* There are no publisher confirms, so this is all a dispatcher ever knows.
Publish(d, c) ==
    /\ disp[d].pc = "publish"
    /\ Current(d, c)
    /\ c.id \notin Unmapped
    /\ sent' = sent \cup {c.id}
    /\ disp' = [disp EXCEPT ![d].pc = "published"]
    /\ UNCHANGED <<event, faults, seized>>

\* Mutant of PublishRefused: the error of the publish is dropped.
PublishErrorDropped(d, c) ==
    /\ disp[d].pc = "publish"
    /\ Current(d, c)
    /\ disp' = [disp EXCEPT ![d].pc = "published"]
    /\ UNCHANGED <<event, sent, faults, seized>>

\* processEvent returns an error: the type is unknown, or the publish failed or
\* timed out; after a timeout the broker may have the message all the same.
PublishRefused(d, c) ==
    /\ disp[d].pc = "publish"
    /\ Current(d, c)
    /\ sent' \in {sent} \cup (IF c.id \in Unmapped THEN {} ELSE {sent \cup {c.id}})
    /\ disp' = [disp EXCEPT ![d].pc = "refused"]
    /\ UNCHANGED <<event, faults, seized>>

\* The loop goes on with the rest of the batch.
Continue(d, c) ==
    disp' = [disp EXCEPT ![d] =
                 [pc    |-> IF disp[d].batch = {c} THEN "idle" ELSE "publish",
                  batch |-> disp[d].batch \ {c}]]

\* MarkPublished: WHERE id = e, whatever the status is by now.
MarkPublished(d, c) ==
    /\ disp[d].pc = "published"
    /\ Current(d, c)
    /\ event' = [event EXCEPT ![c.id].status = "published"]
    /\ Continue(d, c)
    /\ UNCHANGED <<sent, faults, seized>>

\* Mutant of MarkFailed: every failed try counts as the last.
MarkFailedAtOnce(d, c) ==
    /\ disp[d].pc = "refused"
    /\ Current(d, c)
    /\ event' = [event EXCEPT ![c.id].status = "failed"]
    /\ Continue(d, c)
    /\ UNCHANGED <<sent, faults, seized>>

\* handleFailure, the last try: MarkFailed, WHERE id = e.
MarkFailed(d, c) ==
    /\ disp[d].pc = "refused"
    /\ Current(d, c)
    /\ c.attempts + 1 >= MaxRetries
    /\ event' = [event EXCEPT ![c.id].status = "failed"]
    /\ Continue(d, c)
    /\ UNCHANGED <<sent, faults, seized>>

\* Mutant of IncrementAttempts: a status of its own for an event that waits.
MarkRetrying(d, c) ==
    /\ disp[d].pc = "refused"
    /\ Current(d, c)
    /\ c.attempts + 1 < MaxRetries
    /\ event' = [event EXCEPT ![c.id] =
                     [status |-> "retrying", attempts |-> event[c.id].attempts + 1, due |-> FALSE]]
    /\ Continue(d, c)
    /\ UNCHANGED <<sent, faults, seized>>

\* handleFailure before that: IncrementAttempts, WHERE id = e, unclaims the event
\* and schedules it after a backoff.
IncrementAttempts(d, c) ==
    /\ disp[d].pc = "refused"
    /\ Current(d, c)
    /\ c.attempts + 1 < MaxRetries
    /\ event' = [event EXCEPT ![c.id] =
                     [status |-> "pending", attempts |-> event[c.id].attempts + 1, due |-> FALSE]]
    /\ Continue(d, c)
    /\ UNCHANGED <<sent, faults, seized>>

\* The update that records the result fails; the error is logged and forgotten.
RecordLost(d, c) ==
    /\ disp[d].pc \in {"published", "refused"}
    /\ Current(d, c)
    /\ Fault
    /\ Continue(d, c)
    /\ UNCHANGED <<event, sent, seized>>

\* The worker dies and starts again.
Crash(d) == /\ disp[d].pc # "idle"
            /\ Fault
            /\ disp' = [disp EXCEPT ![d] = IdleDispatcher]
            /\ UNCHANGED <<event, sent, seized>>

-----------------------------------------------------------------------------
(* recoveryLoop *)

Held(e) == \E d \in Dispatchers : \E c \in disp[d].batch : c.id = e

\* Mutants of MayBeStale: no event ever is; or one is by the age of its claim alone,
\* which a published event keeps.
NeverStale(e) == e \notin Events
StaleByAge(e) == event[e].status \in {"claimed", "published"}

\* The claims RecoverStaleEvents may find older than StaleTimeout.
MayBeStale(e) == event[e].status = "claimed"

\* RecoverStaleEvents, one UPDATE: attempts are counted, never compared.  A dispatcher
\* that is alive holds a claim that long only when it is stuck, which is a fault.
RecoverStaleEvents(S) ==
    /\ S # {}
    /\ \A e \in S : MayBeStale(e)
    /\ IF \E e \in S : Held(e) THEN Fault ELSE UNCHANGED faults
    /\ seized' = seized \cup {e \in S : Held(e)}
    /\ event' = [e \in Events |->
                    IF e \in S
                    THEN [status |-> "pending", attempts |-> event[e].attempts + 1, due |-> TRUE]
                    ELSE event[e]]
    /\ UNCHANGED <<disp, sent>>

-----------------------------------------------------------------------------
Dispatch(d) == \E c \in disp[d].batch : \/ Publish(d, c)
                                        \/ PublishRefused(d, c)
                                        \/ MarkPublished(d, c)
                                        \/ MarkFailed(d, c)
                                        \/ IncrementAttempts(d, c)
                                        \/ RecordLost(d, c)

Poll(d) == \E S \in SUBSET Events : ClaimEvents(d, S)

Next == \/ \E e \in Events : CreateEvent(e) \/ BackoffElapses(e)
        \/ \E d \in Dispatchers : Poll(d) \/ Dispatch(d) \/ Crash(d)
        \/ \E S \in SUBSET Events : RecoverStaleEvents(S)

\* Tickers tick and calls return; a claim nobody holds gets old.
Fairness == /\ \A d \in Dispatchers : WF_vars(Poll(d)) /\ WF_vars(Dispatch(d))
            /\ \A e \in Events : /\ WF_vars(BackoffElapses(e))
                                 /\ WF_vars(~Held(e) /\ RecoverStaleEvents({e}))

Spec == Init /\ [][Next]_vars
FairSpec == Spec /\ Fairness
-----------------------------------------------------------------------------
\* An event is recorded as published only after it was written to the broker's
\* connection: no crash, failed update or race with recovery skips that.
PublishedWasSent == \A e \in Events : event[e].status = "published" => e \in sent

\* An event is given up only after MaxRetries tries were counted against it, stuck
\* dispatchers included: the attempts one saw are no more than those of the row.
GivenUpAfterRetries ==
    \A e \in Events : event[e].status = "failed" => event[e].attempts + 1 >= MaxRetries

\* A dispatcher that holds an event owns it: the row is claimed and no other
\* dispatcher holds it, so no event is processed twice at once, unless recovery took
\* it from a dispatcher that was stuck.
HolderOwnsClaim ==
    \A d \in Dispatchers : \A c \in disp[d].batch : c.id \notin seized =>
        /\ event[c.id].status = "claimed"
        /\ event[c.id].attempts = c.attempts
        /\ \A g \in Dispatchers \ {d} : \A o \in disp[g].batch : o.id # c.id

\* "Once marked published, the event will not be retried or reclaimed", with the same
\* exception.
PublishedIsFinal ==
    [][\A e \in Events \ seized' :
            event[e].status = "published" => event'[e].status = "published"]_vars

\* What an event has come to.  A recorded result counts once nobody holds the event:
\* until then a dispatcher that was stuck may write its message and record another one.
Stage(e) == IF event[e].status = "none" THEN "none"
            ELSE IF event[e].status \in {"published", "failed"} /\ ~Held(e)
                 THEN event[e].status ELSE "open"

\* Dispatchers, claims, retries and recovery implement the contract of a relay, of stuck
\* dispatchers too: an event that has ended is never written, nor opened, again.
Contract == INSTANCE RelayContract WITH stage   <- [e \in Events |-> Stage(e)],
                                        written <- sent

ContractSpec == Contract!Spec

\* Every committed event is eventually published or given up.
Settled == \A e \in Events :
    event[e].status = "pending" ~> event[e].status \in {"published", "failed"}
=============================================================================
