---------------------------- MODULE OutboxProofs ----------------------------
(***************************************************************************)
(* Proofs about Outbox, for any number of events and dispatchers, any      *)
(* batch size, retry limit and number of faults.                           *)
(***************************************************************************)
EXTENDS Outbox, TLAPS

-----------------------------------------------------------------------------
(* Type correctness *)

\* The loop over a batch goes on: only the batch and the place of d change.
LEMMA ContinueBatch ==
  ASSUME TypeOK, NEW d \in Dispatchers, NEW c \in disp[d].batch, Continue(d, c)
  PROVE  /\ disp' \in [Dispatchers -> DispatcherState]
         /\ disp'[d].batch = disp[d].batch \ {c}
         /\ disp'[d].pc \in {"idle", "publish"}
         /\ \A g \in Dispatchers \ {d} : disp'[g] = disp[g]
  BY DEF Continue, TypeOK, DispatcherState

\* What recovery took from a dispatcher stays in the history.
LEMMA SeizedStays == TypeOK /\ [Next]_vars => seized \subseteq seized' /\ seized' \in SUBSET Events
  BY DEF Next, Poll, Dispatch, CreateEvent, BackoffElapses, ClaimEvents, Publish, PublishRefused,
     MarkPublished, MarkFailed, IncrementAttempts, RecordLost, Crash, RecoverStaleEvents, vars,
     TypeOK

LEMMA InitTyped == Init => TypeOK
  BY SizesAssumption DEF Init, TypeOK, EventRow, Statuses, DispatcherState, IdleDispatcher

LEMMA NextTyped == TypeOK /\ [Next]_vars => TypeOK'
<1> SUFFICES ASSUME TypeOK, Next, seized' \in SUBSET Events PROVE TypeOK'
  BY SeizedStays DEF TypeOK, vars
<1> USE DEF TypeOK
<1>0. Fault => faults' \in 0 .. MaxFaults
  BY SizesAssumption DEF Fault
<1>1. ASSUME NEW e \in Events, CreateEvent(e) PROVE TypeOK'
  BY <1>1 DEF CreateEvent, EventRow, Statuses
<1>2. ASSUME NEW e \in Events, BackoffElapses(e) PROVE TypeOK'
  BY <1>2 DEF BackoffElapses, EventRow
<1>3. ASSUME NEW d \in Dispatchers, NEW S \in SUBSET Events, ClaimEvents(d, S) PROVE TypeOK'
  <2>1. event' \in [Events -> EventRow]
    BY <1>3 DEF ClaimEvents, EventRow, Statuses
  <2>2. {[id |-> e, attempts |-> event[e].attempts] : e \in S} \in SUBSET Claimed
    BY DEF Claimed, EventRow
  <2> QED
    BY <1>3, <2>1, <2>2 DEF ClaimEvents, DispatcherState
<1>4. ASSUME NEW d \in Dispatchers, NEW c \in disp[d].batch, Publish(d, c) PROVE TypeOK'
  <2>1. c.id \in Events
    BY DEF DispatcherState, Claimed
  <2> QED
    BY <1>4, <2>1 DEF Publish, DispatcherState
<1>5. ASSUME NEW d \in Dispatchers, NEW c \in disp[d].batch, PublishRefused(d, c) PROVE TypeOK'
  <2>1. c.id \in Events
    BY DEF DispatcherState, Claimed
  <2> QED
    BY <1>5, <2>1 DEF PublishRefused, DispatcherState
<1>6. ASSUME NEW d \in Dispatchers, NEW c \in disp[d].batch, MarkPublished(d, c) PROVE TypeOK'
  BY <1>6, ContinueBatch DEF MarkPublished, EventRow, Statuses
<1>7. ASSUME NEW d \in Dispatchers, NEW c \in disp[d].batch, MarkFailed(d, c) PROVE TypeOK'
  BY <1>7, ContinueBatch DEF MarkFailed, EventRow, Statuses
<1>8. ASSUME NEW d \in Dispatchers, NEW c \in disp[d].batch, IncrementAttempts(d, c)
      PROVE  TypeOK'
  <2> DEFINE row == [status |-> "pending", attempts |-> event[c.id].attempts + 1, due |-> FALSE]
  <2>1. event[c.id].attempts \in Nat
    BY DEF DispatcherState, Claimed, EventRow
  <2>2. row \in EventRow
    BY <2>1 DEF EventRow, Statuses
  <2> HIDE DEF row
  <2>3. event' = [event EXCEPT ![c.id] = row]
    BY <1>8 DEF IncrementAttempts, row
  <2>4. event' \in [Events -> EventRow]
    BY <2>2, <2>3
  <2> QED
    BY <1>8, <2>4, ContinueBatch DEF IncrementAttempts
<1>9. ASSUME NEW d \in Dispatchers, NEW c \in disp[d].batch, RecordLost(d, c) PROVE TypeOK'
  BY <1>0, <1>9, ContinueBatch DEF RecordLost
<1>10. ASSUME NEW d \in Dispatchers, Crash(d) PROVE TypeOK'
  BY <1>0, <1>10 DEF Crash, IdleDispatcher, DispatcherState
<1>11. ASSUME NEW S \in SUBSET Events, RecoverStaleEvents(S) PROVE TypeOK'
  <2>1. event' \in [Events -> EventRow]
    BY <1>11 DEF RecoverStaleEvents, EventRow, Statuses
  <2>2. faults' \in 0 .. MaxFaults
    BY <1>0, <1>11 DEF RecoverStaleEvents
  <2> QED
    BY <1>11, <2>1, <2>2 DEF RecoverStaleEvents
<1> QED
  BY <1>1, <1>2, <1>3, <1>4, <1>5, <1>6, <1>7, <1>8, <1>9, <1>10, <1>11 DEF Next, Poll, Dispatch

\* Every reachable state of the outbox is well typed.
THEOREM TypeCorrect == Spec => []TypeOK
  BY InitTyped, NextTyped, PTL DEF Spec

-----------------------------------------------------------------------------
(* Nothing is recorded as published that was not, stuck dispatchers or not *)

\* A dispatcher about to record a publication has made it.
HolderHasSent ==
    \A d \in Dispatchers : disp[d].pc = "published" =>
        \A c \in disp[d].batch : Current(d, c) => c.id \in sent

SentInv == TypeOK /\ PublishedWasSent /\ HolderHasSent

LEMMA InitSent == Init => SentInv
  BY InitTyped DEF Init, SentInv, PublishedWasSent, HolderHasSent, IdleDispatcher

LEMMA NextSent == SentInv /\ [Next]_vars => SentInv'
<1> SUFFICES ASSUME SentInv, [Next]_vars PROVE PublishedWasSent' /\ HolderHasSent'
  BY NextTyped DEF SentInv
<1> USE DEF SentInv, PublishedWasSent, HolderHasSent
<1>1. CASE UNCHANGED vars
  BY <1>1 DEF vars, Current
<1>2. CASE Next
  <2>1. ASSUME sent \subseteq sent',
               \A e \in Events : event'[e].status = "published" => event[e].status = "published"
        PROVE  PublishedWasSent'
    BY <2>1
  <2>2. ASSUME sent \subseteq sent', NEW d \in Dispatchers, disp'[d].pc # "published",
               \A g \in Dispatchers \ {d} : disp'[g] = disp[g]
        PROVE  HolderHasSent'
    BY <2>2 DEF Current
  <2>3. ASSUME sent \subseteq sent', disp' = disp PROVE HolderHasSent'
    BY <2>3 DEF Current
  <2>4. ASSUME NEW d \in Dispatchers, NEW c \in disp[d].batch
        PROVE  c.id \in Events
    BY DEF TypeOK, DispatcherState, Claimed
  <2>5. ASSUME NEW e \in Events, CreateEvent(e) PROVE PublishedWasSent' /\ HolderHasSent'
    BY <2>5, <2>1, <2>3 DEF CreateEvent, TypeOK
  <2>6. ASSUME NEW e \in Events, BackoffElapses(e) PROVE PublishedWasSent' /\ HolderHasSent'
    BY <2>6, <2>1, <2>3 DEF BackoffElapses, TypeOK, EventRow
  <2>7. ASSUME NEW d \in Dispatchers, NEW S \in SUBSET Events, ClaimEvents(d, S)
        PROVE  PublishedWasSent' /\ HolderHasSent'
    <3>1. PublishedWasSent'
      BY <2>7, <2>1 DEF ClaimEvents, TypeOK, EventRow
    <3> QED
      BY <2>7, <2>2, <3>1 DEF ClaimEvents, TypeOK
  <2>8. ASSUME NEW d \in Dispatchers, NEW c \in disp[d].batch, Publish(d, c)
        PROVE  PublishedWasSent' /\ HolderHasSent'
    <3>1. PublishedWasSent'
      BY <2>8, <2>1 DEF Publish
    <3>2. /\ disp'[d].batch = disp[d].batch
          /\ \A g \in Dispatchers \ {d} : disp'[g] = disp[g]
      BY <2>8 DEF Publish, TypeOK, DispatcherState
    <3>3. ASSUME NEW o \in disp[d].batch, \A other \in disp[d].batch : o.id <= other.id
          PROVE  o.id = c.id
      BY <2>8, <2>4, <3>3 DEF Publish, Current, Events
    <3> QED
      BY <2>8, <3>1, <3>2, <3>3 DEF Publish, Current
  <2>9. ASSUME NEW d \in Dispatchers, NEW c \in disp[d].batch, PublishRefused(d, c)
        PROVE  PublishedWasSent' /\ HolderHasSent'
    <3>1. sent \subseteq sent'
      BY <2>9 DEF PublishRefused
    <3> QED
      BY <2>9, <2>1, <2>2, <3>1 DEF PublishRefused, TypeOK, DispatcherState
  <2>10. ASSUME NEW d \in Dispatchers, NEW c \in disp[d].batch, MarkPublished(d, c)
         PROVE  PublishedWasSent' /\ HolderHasSent'
    <3>1. c.id \in sent
      BY <2>10 DEF MarkPublished
    <3>2. PublishedWasSent'
      BY <2>10, <3>1 DEF MarkPublished, TypeOK
    <3> QED
      BY <2>10, <2>2, <3>2, ContinueBatch DEF MarkPublished
  <2>11. ASSUME NEW d \in Dispatchers, NEW c \in disp[d].batch, MarkFailed(d, c)
         PROVE  PublishedWasSent' /\ HolderHasSent'
    <3>1. PublishedWasSent'
      BY <2>11, <2>1, <2>4 DEF MarkFailed, TypeOK, EventRow
    <3> QED
      BY <2>11, <2>2, <3>1, ContinueBatch DEF MarkFailed
  <2>12. ASSUME NEW d \in Dispatchers, NEW c \in disp[d].batch, IncrementAttempts(d, c)
         PROVE  PublishedWasSent' /\ HolderHasSent'
    <3>1. PublishedWasSent'
      BY <2>12, <2>1, <2>4 DEF IncrementAttempts, TypeOK
    <3> QED
      BY <2>12, <2>2, <3>1, ContinueBatch DEF IncrementAttempts
  <2>13. ASSUME NEW d \in Dispatchers, NEW c \in disp[d].batch, RecordLost(d, c)
         PROVE  PublishedWasSent' /\ HolderHasSent'
    BY <2>13, <2>1, <2>2, ContinueBatch DEF RecordLost
  <2>14. ASSUME NEW d \in Dispatchers, Crash(d) PROVE PublishedWasSent' /\ HolderHasSent'
    BY <2>14, <2>1, <2>2 DEF Crash, IdleDispatcher, TypeOK
  <2>15. ASSUME NEW S \in SUBSET Events, RecoverStaleEvents(S)
         PROVE  PublishedWasSent' /\ HolderHasSent'
    BY <2>15, <2>1, <2>3 DEF RecoverStaleEvents, TypeOK
  <2> QED
    BY <1>2, <2>5, <2>6, <2>7, <2>8, <2>9, <2>10, <2>11, <2>12, <2>13, <2>14, <2>15
       DEF Next, Poll, Dispatch
<1> QED
  BY <1>1, <1>2

\* Whatever dispatchers crash, stall, race with recovery or lose updates: an event
\* recorded as published was written to the connection of the broker.
THEOREM PublishedWasSentCorrect == Spec => []PublishedWasSent
<1>1. SentInv => PublishedWasSent
  BY DEF SentInv
<1> QED
  BY <1>1, InitSent, NextSent, PTL DEF Spec

-----------------------------------------------------------------------------
(* Ownership of claims, and what the attempts of a dispatcher are worth *)

\* An event in somebody's hands was committed, and its row has at least as many
\* attempts as were seen when it was claimed, taken back meanwhile or not.
AttemptsSeen ==
    \A d \in Dispatchers : \A c \in disp[d].batch :
        event[c.id].status # "none" /\ c.attempts <= event[c.id].attempts

OwnerInv == TypeOK /\ HolderOwnsClaim /\ AttemptsSeen /\ GivenUpAfterRetries

LEMMA InitOwner == Init => OwnerInv
  BY InitTyped DEF Init, OwnerInv, HolderOwnsClaim, AttemptsSeen, GivenUpAfterRetries,
     IdleDispatcher

\* A step that adds to no batch, leaves the rows of held events committed and takes no
\* attempts away.
LEMMA SeenStays ==
  ASSUME TypeOK, AttemptsSeen,
         \A d \in Dispatchers : disp'[d].batch \subseteq disp[d].batch,
         event' \in [Events -> EventRow],
         \A e \in Events : event[e].status # "none" =>
            event'[e].status # "none" /\ event[e].attempts <= event'[e].attempts
  PROVE  AttemptsSeen'
<1> SUFFICES ASSUME NEW d \in Dispatchers, NEW c \in disp[d].batch
             PROVE  event'[c.id].status # "none" /\ c.attempts <= event'[c.id].attempts
  BY DEF AttemptsSeen
<1>1. c.id \in Events /\ c.attempts \in Nat
  BY DEF TypeOK, DispatcherState, Claimed
<1>2. event[c.id].attempts \in Nat /\ event'[c.id].attempts \in Nat
  BY <1>1 DEF TypeOK, EventRow
<1>3. event[c.id].status # "none" /\ c.attempts <= event[c.id].attempts
  BY DEF AttemptsSeen
<1> QED
  BY <1>1, <1>2, <1>3

\* A dispatcher that records a result for an event owns the event, and so do the
\* others their events, afterwards as well.
LEMMA RecordKeepsOwners ==
  ASSUME TypeOK, HolderOwnsClaim, seized' = seized,
         NEW d \in Dispatchers, NEW c \in disp[d].batch, Continue(d, c),
         \A e \in Events \ {c.id} : event'[e] = event[e]
  PROVE  HolderOwnsClaim'
<1> SUFFICES ASSUME NEW g \in Dispatchers, NEW o \in disp'[g].batch, o.id \notin seized
             PROVE  /\ event'[o.id].status = "claimed"
                    /\ event'[o.id].attempts = o.attempts
                    /\ \A h \in Dispatchers \ {g} : \A p \in disp'[h].batch : p.id # o.id
  BY DEF HolderOwnsClaim
<1>1. \A h \in Dispatchers : disp'[h].batch \subseteq disp[h].batch
  BY ContinueBatch
<1>2. o \in disp[g].batch /\ o \in Claimed /\ c \in Claimed
  BY <1>1 DEF TypeOK, DispatcherState
<1>3. o.id # c.id
  <2>1. CASE g = d
    <3>1. o # c
      BY <2>1, ContinueBatch
    <3>2. o.id = c.id => o.attempts = event[o.id].attempts /\ c.attempts = event[c.id].attempts
      BY <1>2 DEF HolderOwnsClaim
    <3> QED
      BY <1>2, <3>1, <3>2 DEF Claimed
  <2>2. CASE g # d
    BY <1>2, <2>2 DEF HolderOwnsClaim
  <2> QED
    BY <2>1, <2>2
<1>4. event'[o.id] = event[o.id]
  BY <1>2, <1>3 DEF Claimed
<1> QED
  BY <1>1, <1>2, <1>4 DEF HolderOwnsClaim

\* What every step does to the events and to who owns them.
LEMMA NextOwner ==
  ASSUME OwnerInv, [Next]_vars
  PROVE  /\ HolderOwnsClaim'
         /\ AttemptsSeen'
         /\ GivenUpAfterRetries'
         /\ \A e \in Events \ seized' :
               event[e].status = "published" => event'[e].status = "published"
<1> DEFINE Goal == /\ HolderOwnsClaim'
                   /\ AttemptsSeen'
                   /\ GivenUpAfterRetries'
                   /\ \A e \in Events \ seized' :
                         event[e].status = "published" => event'[e].status = "published"
<1> USE DEF OwnerInv
<1>0. ASSUME NEW d \in Dispatchers, NEW c \in disp[d].batch
      PROVE  /\ c.id \in Events /\ c.attempts \in Nat
             /\ event[c.id].attempts \in Nat
             /\ event[c.id].status # "none" /\ c.attempts <= event[c.id].attempts
             /\ c.id \notin seized =>
                   event[c.id].status = "claimed" /\ event[c.id].attempts = c.attempts
  <2>1. c.id \in Events /\ c.attempts \in Nat
    BY DEF TypeOK, DispatcherState, Claimed
  <2>2. event[c.id].attempts \in Nat
    BY <2>1 DEF TypeOK, EventRow
  <2> QED
    BY <2>1, <2>2 DEF HolderOwnsClaim, AttemptsSeen
<1>t. event' \in [Events -> EventRow] /\ \A e \in Events : event[e].attempts \in Nat
  BY NextTyped DEF TypeOK, EventRow
<1>1. ASSUME NEW e \in Events, CreateEvent(e) PROVE Goal
  <2>1. /\ \A g \in Events \ {e} : event'[g] = event[g]
        /\ event'[e].status = "pending" /\ event[e].status = "none"
        /\ disp' = disp /\ seized' = seized
    BY <1>1 DEF CreateEvent, TypeOK
  <2>2. HolderOwnsClaim' /\ AttemptsSeen'
    BY <1>0, <2>1 DEF HolderOwnsClaim, AttemptsSeen
  <2> QED
    BY <2>1, <2>2 DEF GivenUpAfterRetries
<1>2. ASSUME NEW e \in Events, BackoffElapses(e) PROVE Goal
  <2>1. /\ \A g \in Events \ {e} : event'[g] = event[g]
        /\ event'[e].status = "pending" /\ event[e].status = "pending"
        /\ event'[e].attempts = event[e].attempts
        /\ disp' = disp /\ seized' = seized
    BY <1>2 DEF BackoffElapses, TypeOK, EventRow
  <2>2. HolderOwnsClaim' /\ AttemptsSeen'
    BY <1>0, <2>1 DEF HolderOwnsClaim, AttemptsSeen
  <2> QED
    BY <2>1, <2>2 DEF GivenUpAfterRetries
<1>3. ASSUME NEW d \in Dispatchers, NEW S \in SUBSET Events, ClaimEvents(d, S) PROVE Goal
  <2>1. /\ \A e \in Events \ S : event'[e] = event[e]
        /\ \A e \in S : /\ event[e].status = "pending"
                         /\ event'[e].status = "claimed"
                         /\ event'[e].attempts = event[e].attempts
        /\ seized' = seized
    BY <1>3 DEF ClaimEvents, IsBatch, Claimable, TypeOK, EventRow
  <2>2. /\ disp'[d].batch = {[id |-> e, attempts |-> event[e].attempts] : e \in S}
        /\ \A g \in Dispatchers \ {d} : disp'[g] = disp[g]
    BY <1>3 DEF ClaimEvents, TypeOK
  <2>3. \A o \in disp'[d].batch : o.id \in S /\ o.attempts = event[o.id].attempts
    BY <2>2
  <2>4. ASSUME NEW g \in Dispatchers \ {d}, NEW o \in disp'[g].batch
        PROVE  /\ o \in disp[g].batch
               /\ o.id \in S => o.id \in seized
               /\ event'[o.id].status # "none"
               /\ event'[o.id].attempts = event[o.id].attempts
    <3>1. o \in disp[g].batch
      BY <2>2
    <3>2. /\ o.id \in Events
          /\ event[o.id].status # "none"
          /\ o.id \notin seized => event[o.id].status = "claimed"
      BY <1>0, <3>1
    <3> QED
      BY <2>1, <3>1, <3>2
  <2>5. HolderOwnsClaim'
    <3> SUFFICES ASSUME NEW g \in Dispatchers, NEW o \in disp'[g].batch, o.id \notin seized
                 PROVE  /\ event'[o.id].status = "claimed"
                        /\ event'[o.id].attempts = o.attempts
                        /\ \A h \in Dispatchers \ {g} : \A p \in disp'[h].batch : p.id # o.id
      BY <2>1 DEF HolderOwnsClaim
    <3>1. CASE g = d
      BY <2>1, <2>3, <2>4, <3>1
    <3>2. CASE g # d
      <4>1. o \in disp[g].batch /\ o.id \in Events \ S
        BY <1>0, <2>4, <3>2
      <4>2. event'[o.id].status = "claimed" /\ event'[o.id].attempts = o.attempts
        BY <1>0, <2>1, <4>1
      <4>3. \A h \in Dispatchers \ {g, d} : \A p \in disp'[h].batch : p.id # o.id
        BY <2>2, <4>1 DEF HolderOwnsClaim
      <4>4. \A p \in disp'[d].batch : p.id # o.id
        BY <2>3, <4>1
      <4> QED
        BY <4>2, <4>3, <4>4
    <3> QED
      BY <3>1, <3>2
  <2>6. AttemptsSeen'
    <3> SUFFICES ASSUME NEW g \in Dispatchers, NEW o \in disp'[g].batch
                 PROVE  event'[o.id].status # "none" /\ o.attempts <= event'[o.id].attempts
      BY DEF AttemptsSeen
    <3>1. CASE g = d
      BY <1>t, <2>1, <2>3, <3>1
    <3>2. CASE g # d
      BY <1>0, <2>4, <3>2
    <3> QED
      BY <3>1, <3>2
  <2> QED
    BY <2>1, <2>5, <2>6 DEF GivenUpAfterRetries
<1>4. ASSUME NEW d \in Dispatchers, event' = event, seized' = seized,
             disp'[d].batch \subseteq disp[d].batch,
             \A g \in Dispatchers \ {d} : disp'[g] = disp[g]
      PROVE  Goal
  <2>1. \A g \in Dispatchers : disp'[g].batch \subseteq disp[g].batch
    BY <1>4
  <2>2. HolderOwnsClaim'
    BY <1>4, <2>1 DEF HolderOwnsClaim
  <2>3. AttemptsSeen'
    BY <1>4, <2>1 DEF AttemptsSeen
  <2> QED
    BY <1>4, <2>2, <2>3 DEF GivenUpAfterRetries
<1>5. ASSUME NEW d \in Dispatchers, NEW c \in disp[d].batch, Publish(d, c) PROVE Goal
  BY <1>4, <1>5 DEF Publish, TypeOK, DispatcherState
<1>6. ASSUME NEW d \in Dispatchers, NEW c \in disp[d].batch, PublishRefused(d, c) PROVE Goal
  BY <1>4, <1>6 DEF PublishRefused, TypeOK, DispatcherState
<1>7. ASSUME NEW d \in Dispatchers, NEW c \in disp[d].batch, MarkPublished(d, c) PROVE Goal
  <2>1. /\ \A e \in Events \ {c.id} : event'[e] = event[e]
        /\ event'[c.id].status = "published" /\ event'[c.id].attempts = event[c.id].attempts
        /\ seized' = seized
    BY <1>0, <1>7 DEF MarkPublished, TypeOK, EventRow
  <2>2. HolderOwnsClaim'
    BY <1>7, <2>1, RecordKeepsOwners DEF MarkPublished
  <2>3. AttemptsSeen'
    BY <1>t, <1>7, <2>1, SeenStays, ContinueBatch DEF MarkPublished
  <2> QED
    BY <2>1, <2>2, <2>3 DEF GivenUpAfterRetries
<1>8. ASSUME NEW d \in Dispatchers, NEW c \in disp[d].batch, MarkFailed(d, c) PROVE Goal
  <2>1. /\ \A e \in Events \ {c.id} : event'[e] = event[e]
        /\ event'[c.id].attempts = event[c.id].attempts /\ event'[c.id].status = "failed"
        /\ c.attempts + 1 >= MaxRetries
        /\ seized' = seized
    BY <1>0, <1>8 DEF MarkFailed, TypeOK, EventRow
  <2>2. HolderOwnsClaim'
    BY <1>8, <2>1, RecordKeepsOwners DEF MarkFailed
  <2>3. AttemptsSeen'
    BY <1>t, <1>8, <2>1, SeenStays, ContinueBatch DEF MarkFailed
  <2>4. GivenUpAfterRetries'
    BY <1>0, <2>1, SizesAssumption DEF GivenUpAfterRetries
  <2> QED
    BY <1>0, <2>1, <2>2, <2>3, <2>4
<1>9. ASSUME NEW d \in Dispatchers, NEW c \in disp[d].batch, IncrementAttempts(d, c)
      PROVE  Goal
  <2>1. /\ \A e \in Events \ {c.id} : event'[e] = event[e]
        /\ event'[c.id].status = "pending" /\ event'[c.id].attempts = event[c.id].attempts + 1
        /\ seized' = seized
    BY <1>0, <1>9 DEF IncrementAttempts, TypeOK
  <2>2. HolderOwnsClaim'
    BY <1>9, <2>1, RecordKeepsOwners DEF IncrementAttempts
  <2>3. AttemptsSeen'
    BY <1>t, <1>9, <2>1, SeenStays, ContinueBatch DEF IncrementAttempts
  <2> QED
    BY <1>0, <2>1, <2>2, <2>3 DEF GivenUpAfterRetries
<1>10. ASSUME NEW d \in Dispatchers, NEW c \in disp[d].batch, RecordLost(d, c) PROVE Goal
  BY <1>4, <1>10, ContinueBatch DEF RecordLost
<1>11. ASSUME NEW d \in Dispatchers, Crash(d) PROVE Goal
  BY <1>4, <1>11 DEF Crash, IdleDispatcher, TypeOK
<1>12. ASSUME NEW S \in SUBSET Events, RecoverStaleEvents(S) PROVE Goal
  <2>1. /\ \A e \in Events \ S : event'[e] = event[e]
        /\ \A e \in S : event[e].status = "claimed"
        /\ \A e \in S : event'[e].status = "pending"
        /\ \A e \in S : event'[e].attempts = event[e].attempts + 1
        /\ seized \subseteq seized' /\ disp' = disp
    BY <1>12 DEF RecoverStaleEvents, MayBeStale, TypeOK
  <2>2. ASSUME NEW d \in Dispatchers, NEW c \in disp[d].batch, c.id \notin seized'
        PROVE  c.id \in Events \ S /\ c.id \notin seized
    <3>1. Held(c.id) /\ c.id \in Events
      BY <1>0 DEF Held
    <3>2. c.id \in S => c.id \in seized'
      BY <1>12, <3>1 DEF RecoverStaleEvents
    <3> QED
      BY <2>1, <2>2, <3>1, <3>2
  <2>3. HolderOwnsClaim'
    BY <2>1, <2>2 DEF HolderOwnsClaim
  <2>4. AttemptsSeen'
    <3>1. \A e \in Events : event[e].status # "none" =>
             event'[e].status # "none" /\ event[e].attempts <= event'[e].attempts
      BY <1>t, <2>1
    <3> QED
      BY <1>t, <2>1, <3>1, SeenStays
  <2>5. GivenUpAfterRetries'
    BY <2>1 DEF GivenUpAfterRetries
  <2>6. \A e \in Events \ seized' :
           event[e].status = "published" => event'[e].status = "published"
    BY <2>1
  <2> QED
    BY <2>3, <2>4, <2>5, <2>6
<1>13. CASE UNCHANGED vars
  BY <1>13 DEF vars, HolderOwnsClaim, AttemptsSeen, GivenUpAfterRetries
<1> QED
  BY <1>1, <1>2, <1>3, <1>5, <1>6, <1>7, <1>8, <1>9, <1>10, <1>11, <1>12, <1>13
     DEF Next, Poll, Dispatch

LEMMA OwnerInvariant == Spec => []OwnerInv
<1>1. OwnerInv /\ [Next]_vars => OwnerInv'
  BY NextOwner, NextTyped DEF OwnerInv
<1> QED
  BY <1>1, InitOwner, PTL DEF Spec

\* Unless recovery took an event from a dispatcher that was stuck with it, the event is
\* never in the hands of two dispatchers, nor of one that no longer has the claim.
THEOREM HolderOwnsClaimCorrect == Spec => []HolderOwnsClaim
<1>1. OwnerInv => HolderOwnsClaim
  BY DEF OwnerInv
<1> QED
  BY <1>1, OwnerInvariant, PTL

\* An event is given up only after MaxRetries tries were counted against it, by stuck
\* dispatchers as well.
THEOREM GivenUpAfterRetriesCorrect == Spec => []GivenUpAfterRetries
<1>1. OwnerInv => GivenUpAfterRetries
  BY DEF OwnerInv
<1> QED
  BY <1>1, OwnerInvariant, PTL

\* A published event that was never taken from a stuck dispatcher is not retried and
\* not reclaimed.  The README (section 4, 4) says what happens to one that was.
THEOREM PublishedIsFinalCorrect == Spec => PublishedIsFinal
<1>1. OwnerInv /\ [Next]_vars
        => [\A e \in Events \ seized' :
               event[e].status = "published" => event'[e].status = "published"]_vars
  BY NextOwner
<1> QED
  BY <1>1, OwnerInvariant, PTL DEF Spec, PublishedIsFinal

-----------------------------------------------------------------------------
(* The outbox implements the contract of a relay *)

\* What an event may come to in a step that writes no message: nothing new, or its end.
StageMoves(e) ==
    \/ Stage(e)' = Stage(e)
    \/ /\ Stage(e) = "open"
       /\ \/ Stage(e)' = "published" /\ e \in sent
          \/ Stage(e)' = "failed"

\* A step comes down to that if it changes only rows of events that are held, pending
\* or claimed, takes back no commit, and lets dispatchers take only pending events.
LEMMA StageStep ==
  ASSUME TypeOK, PublishedWasSent', sent' = sent, NEW e \in Events,
         Held(e)' => Held(e) \/ event[e].status = "pending",
         \/ event'[e].status = event[e].status
         \/ /\ Held(e) \/ event[e].status \in {"pending", "claimed"}
            /\ event[e].status # "none" /\ event'[e].status # "none"
  PROVE  StageMoves(e)
<1> DEFINE before == event[e].status
           after  == event'[e].status
<1>1. after = "published" => e \in sent
  BY DEF PublishedWasSent
<1>2. CASE before = "none"
  BY <1>2 DEF Stage, StageMoves
<1>3. CASE before \in {"published", "failed"} /\ ~Held(e)
  <2>1. after = before /\ ~Held(e)'
    BY <1>3
  <2> QED
    BY <1>3, <2>1 DEF Stage, StageMoves
<1>4. CASE before # "none" /\ (before \notin {"published", "failed"} \/ Held(e))
  <2>1. Stage(e) = "open" /\ after # "none"
    BY <1>4 DEF Stage
  <2> QED
    BY <1>1, <2>1 DEF Stage, StageMoves
<1> QED
  BY <1>2, <1>3, <1>4

\* Events that end in one step end together.
LEMMA EventsEnd ==
  ASSUME sent' = sent, \A e \in Events : StageMoves(e)
  PROVE  Contract!Next
<1> DEFINE P == {e \in Events : Stage(e) = "open" /\ Stage(e)' = "published"}
           F == {e \in Events : Stage(e) = "open" /\ Stage(e)' = "failed"}
<1>1. P \cup F \subseteq Contract!Open
  BY DEF Contract!Open
<1>2. P \subseteq sent
  BY DEF StageMoves
<1>3. ASSUME NEW e \in Events
      PROVE  Stage(e)' = IF e \in P THEN "published" ELSE IF e \in F THEN "failed" ELSE Stage(e)
  BY <1>3 DEF StageMoves
<1>4. P \in SUBSET Events /\ F \in SUBSET Events
  OBVIOUS
<1> HIDE DEF P, F
<1>5. [e \in Events |-> Stage(e)]'
        = [e \in Events |-> IF e \in P THEN "published"
                             ELSE IF e \in F THEN "failed" ELSE [x \in Events |-> Stage(x)][e]]
  BY <1>3
<1>6. Contract!End(P, F)
  BY <1>1, <1>2, <1>5 DEF Contract!End
<1> QED
  BY <1>4, <1>6 DEF Contract!Next

\* A message is written of an event in somebody's hands, which is why it is open.
LEMMA MessageWritten ==
  ASSUME TypeOK, AttemptsSeen, NEW d \in Dispatchers, NEW c \in disp[d].batch,
         event' = event, \A g \in Dispatchers : disp'[g].batch = disp[g].batch,
         sent' = sent \cup {c.id}
  PROVE  Contract!Next
<1>1. c.id \in Events /\ event[c.id].status # "none" /\ Held(c.id)
  BY DEF TypeOK, DispatcherState, Claimed, AttemptsSeen, Held
<1>2. c.id \in Contract!Open
  BY <1>1 DEF Contract!Open, Stage
<1>3. ASSUME NEW e \in Events PROVE Stage(e)' = Stage(e)
  BY DEF Stage, Held
<1>4. [e \in Events |-> Stage(e)]' = [e \in Events |-> Stage(e)]
  BY <1>3
<1>5. Contract!Write(c.id)
  BY <1>2, <1>4 DEF Contract!Write
<1> QED
  BY <1>1, <1>5 DEF Contract!Next

LEMMA InitRefines == Init => Contract!Init
  BY DEF Init, Contract!Init, Stage

LEMMA NextRefines ==
  ASSUME SentInv, OwnerInv, Next
  PROVE  Contract!Next
<1>0. TypeOK /\ AttemptsSeen /\ PublishedWasSent'
  BY NextSent DEF SentInv, OwnerInv
<1>1. \A d \in Dispatchers : \A c \in disp[d].batch : c.id \in Events
  BY <1>0 DEF TypeOK, DispatcherState, Claimed
<1>2. ASSUME sent' = sent,
             \A e \in Events : Held(e)' => Held(e) \/ event[e].status = "pending",
             \A e \in Events :
                \/ event'[e].status = event[e].status
                \/ /\ Held(e) \/ event[e].status \in {"pending", "claimed"}
                   /\ event[e].status # "none" /\ event'[e].status # "none"
      PROVE  Contract!Next
  BY <1>0, <1>2, StageStep, EventsEnd
<1>3. ASSUME NEW e \in Events, CreateEvent(e) PROVE Contract!Next
  <2>1. /\ event[e].status = "none"
        /\ event'[e].status = "pending"
        /\ \A o \in Events \ {e} : event'[o] = event[o]
        /\ disp' = disp /\ sent' = sent
    BY <1>0, <1>3 DEF CreateEvent, TypeOK
  <2>2. Stage(e) = "none" /\ Stage(e)' = "open"
    BY <2>1 DEF Stage
  <2>3. ASSUME NEW o \in Events \ {e} PROVE Stage(o)' = Stage(o)
    BY <2>1 DEF Stage, Held
  <2>4. [o \in Events |-> Stage(o)]' = [[o \in Events |-> Stage(o)] EXCEPT ![e] = "open"]
    BY <2>2, <2>3
  <2>5. Contract!Commit(e)
    BY <2>1, <2>2, <2>4 DEF Contract!Commit
  <2> QED
    BY <2>5 DEF Contract!Next
<1>4. ASSUME NEW e \in Events, BackoffElapses(e) PROVE Contract!Next
  BY <1>0, <1>2, <1>4 DEF BackoffElapses, TypeOK, EventRow, Held
<1>5. ASSUME NEW d \in Dispatchers, NEW S \in SUBSET Events, ClaimEvents(d, S)
      PROVE  Contract!Next
  <2>1. /\ sent' = sent
        /\ \A e \in S : event[e].status = "pending" /\ event'[e].status = "claimed"
        /\ \A e \in Events \ S : event'[e] = event[e]
    BY <1>0, <1>5 DEF ClaimEvents, IsBatch, Claimable, TypeOK, EventRow
  <2>2. ASSUME NEW e \in Events \ S, Held(e)' PROVE Held(e)
    <3>1. /\ \A c \in disp'[d].batch : c.id \in S
          /\ \A g \in Dispatchers \ {d} : disp'[g] = disp[g]
      BY <1>0, <1>5 DEF ClaimEvents, TypeOK
    <3> QED
      BY <2>2, <3>1 DEF Held
  <2> QED
    BY <1>2, <2>1, <2>2
<1>6. ASSUME NEW d \in Dispatchers, NEW c \in disp[d].batch, Publish(d, c)
      PROVE  Contract!Next
  <2>1. \A g \in Dispatchers : disp'[g].batch = disp[g].batch
    BY <1>0, <1>6 DEF Publish, TypeOK, DispatcherState
  <2> QED
    BY <1>0, <1>6, <2>1, MessageWritten DEF Publish
<1>7. ASSUME NEW d \in Dispatchers, NEW c \in disp[d].batch, PublishRefused(d, c)
      PROVE  Contract!Next
  <2>1. \A g \in Dispatchers : disp'[g].batch = disp[g].batch
    BY <1>0, <1>7 DEF PublishRefused, TypeOK, DispatcherState
  <2>2. CASE sent' = sent
    <3>1. event' = event
      BY <1>7 DEF PublishRefused
    <3>2. \A e \in Events : Held(e)' => Held(e)
      BY <2>1 DEF Held
    <3> QED
      BY <1>2, <2>2, <3>1, <3>2
  <2>3. CASE sent' = sent \cup {c.id}
    BY <1>0, <1>7, <2>1, <2>3, MessageWritten DEF PublishRefused
  <2> QED
    BY <1>7, <2>2, <2>3 DEF PublishRefused
<1>8. ASSUME NEW d \in Dispatchers, NEW c \in disp[d].batch, Continue(d, c), sent' = sent,
             \A e \in Events \ {c.id} : event'[e] = event[e],
             event'[c.id].status # "none"
      PROVE  Contract!Next
  <2>1. Held(c.id) /\ event[c.id].status # "none"
    BY <1>0 DEF Held, AttemptsSeen
  <2>2. \A g \in Dispatchers : disp'[g].batch \subseteq disp[g].batch
    BY <1>0, <1>8, ContinueBatch
  <2>3. \A e \in Events : Held(e)' => Held(e)
    BY <2>2 DEF Held
  <2> QED
    BY <1>2, <1>8, <2>1, <2>3
<1>9. ASSUME NEW d \in Dispatchers, NEW c \in disp[d].batch,
             \/ MarkPublished(d, c) \/ MarkFailed(d, c) \/ IncrementAttempts(d, c)
      PROVE  Contract!Next
  <2>1. /\ Continue(d, c) /\ sent' = sent
        /\ \A e \in Events \ {c.id} : event'[e] = event[e]
    BY <1>0, <1>9 DEF MarkPublished, MarkFailed, IncrementAttempts, TypeOK
  <2>2. event'[c.id].status \in {"published", "failed", "pending"}
    BY <1>0, <1>1, <1>9 DEF MarkPublished, MarkFailed, IncrementAttempts, TypeOK, EventRow
  <2> QED
    BY <1>8, <2>1, <2>2
<1>10. ASSUME NEW d \in Dispatchers, NEW c \in disp[d].batch, RecordLost(d, c)
       PROVE  Contract!Next
  <2>1. event[c.id].status # "none"
    BY <1>0 DEF AttemptsSeen
  <2> QED
    BY <1>8, <1>10, <2>1 DEF RecordLost
<1>11. ASSUME NEW d \in Dispatchers, Crash(d) PROVE Contract!Next
  <2>1. \A g \in Dispatchers : disp'[g].batch \subseteq disp[g].batch
    BY <1>0, <1>11 DEF Crash, IdleDispatcher, TypeOK
  <2>2. \A e \in Events : Held(e)' => Held(e)
    BY <2>1 DEF Held
  <2> QED
    BY <1>2, <1>11, <2>2 DEF Crash
<1>12. ASSUME NEW S \in SUBSET Events, RecoverStaleEvents(S) PROVE Contract!Next
  <2>1. /\ sent' = sent /\ disp' = disp
        /\ \A e \in S : event[e].status = "claimed" /\ event'[e].status = "pending"
        /\ \A e \in Events \ S : event'[e] = event[e]
    BY <1>0, <1>12 DEF RecoverStaleEvents, MayBeStale, TypeOK
  <2>2. \A e \in Events : Held(e)' => Held(e)
    BY <2>1 DEF Held
  <2> QED
    BY <1>2, <2>1, <2>2
<1> QED
  BY <1>3, <1>4, <1>5, <1>6, <1>7, <1>9, <1>10, <1>11, <1>12 DEF Next, Poll, Dispatch

\* With any number of dispatchers that crash, stall and lose their updates, the outbox
\* relays: a message is written only of an event that is committed and has not ended,
\* an event that has ended is not opened again, and one that ends published was written.
THEOREM ContractImplemented == Spec => ContractSpec
<1>1. SentInv /\ OwnerInv /\ [Next]_vars => [Contract!Next]_(Contract!relayVars)
  <2>1. ASSUME UNCHANGED vars PROVE UNCHANGED Contract!relayVars
    BY <2>1 DEF vars, Contract!relayVars, Stage, Held
  <2> QED
    BY <2>1, NextRefines
<1>2. Spec => []SentInv
  BY InitSent, NextSent, PTL DEF Spec
<1> QED
  BY <1>1, <1>2, InitRefines, OwnerInvariant, PTL DEF Spec, ContractSpec, Contract!Spec
=============================================================================
