---------------------------- MODULE RelayContract ----------------------------
(***************************************************************************)
(* What the outbox promises those who commit an event, without claims,     *)
(* batches, retries or dispatchers: the message may be written to the      *)
(* broker any number of times while the event is open, then the event      *)
(* ends, once and for all, published or given up, and it ends published    *)
(* only if a message was written.  Nothing is written of an event that was *)
(* not committed, or that has ended.                                       *)
(***************************************************************************)

CONSTANT Events     \* the events that may ever be committed

VARIABLES stage,    \* event -> "none", "open", "published" or "failed"
          written   \* the events whose message was written at least once

relayVars == <<stage, written>>

Open == {e \in Events : stage[e] = "open"}

Init == /\ stage = [e \in Events |-> "none"]
        /\ written = {}

\* The business state is committed, and with it the event.
Commit(e) == /\ stage[e] = "none"
             /\ stage' = [stage EXCEPT ![e] = "open"]
             /\ UNCHANGED written

\* The message is written, perhaps not for the first time.
Write(e) == /\ e \in Open
            /\ written' = written \cup {e}
            /\ UNCHANGED stage

\* Some open events end at once, those in P published and those in F given up.
End(P, F) == /\ P \cup F \subseteq Open
             /\ P \subseteq written
             /\ stage' = [e \in Events |-> IF e \in P THEN "published"
                                           ELSE IF e \in F THEN "failed" ELSE stage[e]]
             /\ UNCHANGED written

Next == \/ \E e \in Events : Commit(e) \/ Write(e)
        \/ \E P, F \in SUBSET Events : End(P, F)

Spec == Init /\ [][Next]_relayVars
=============================================================================
