---------------------------- MODULE IngestionWorker ----------------------------
(***************************************************************************)
(* The Go worker: a read loop and a reclaim loop feed a channel, one       *)
(* processor turns each message into a transaction and acknowledges it.    *)
(* Every pod runs all three.  A message carries the context of the loop    *)
(* that delivered it, so stopping the consumer fails whatever its pod does *)
(* next with a message already in hand.  Time is abstract.                 *)
(***************************************************************************)
EXTENDS OrderStore, FiniteSets

CONSTANTS
  InitialPods,         \* the deployment's pods; it keeps as many running
  MaxDeliveryAttempts,
  InboxCapacity        \* bound: a batch in hand and the channel's 100 slots

ASSUME WorkerAssumption ==
  /\ InitialPods \subseteq Workers /\ IsFiniteSet(InitialPods)
  /\ MaxDeliveryAttempts \in Nat \ {0} /\ InboxCapacity \in Nat \ {0}

VARIABLES
  pod,       \* "absent", "live", "draining" (consumer cancelled) or "dead"
  inbox,     \* entries handed to the processor and not yet taken
  burying,   \* per loop, the entry failMessage is dead-lettering and its next command
  current,   \* the entry in process
  stage,     \* how far process has come with it
  listed,    \* an entry XPENDING listed and its count, where XCLAIM is overdue
  tries,     \* history: times an entry was handed to a processor
  late,      \* history: times one was claimed under an outdated count
  dropped    \* history: entries acknowledged after a permanent error

loopVars == <<inbox, burying, listed, tries, late>>
processorVars == <<current, stage, dropped>>
workerVars == <<pod, loopVars, processorVars>>

Loops == {"read", "reclaim"}
Nothing == [entry |-> NoOne, next |-> "none"]
Unlisted == [entry |-> NoOne, count |-> 0]

WorkerInit ==
  /\ pod = [w \in Workers |-> IF w \in InitialPods THEN "live" ELSE "absent"]
  /\ inbox = [w \in Workers |-> <<>>]
  /\ burying = [w \in Workers |-> [l \in Loops |-> Nothing]]
  /\ current = [w \in Workers |-> NoOne] /\ stage = [w \in Workers |-> "idle"]
  /\ listed = [w \in Workers |-> Unlisted]
  /\ tries = [e \in Events |-> 0] /\ late = [e \in Events |-> 0] /\ dropped = {}

Running == {w \in Workers : pod[w] \in {"live", "draining"}}

-----------------------------------------------------------------------------
\* A pod comes up under a fresh consumer name.
Start(w) ==
  /\ pod[w] = "absent" /\ Cardinality(Running) < Cardinality(InitialPods)
  /\ pod' = [pod EXCEPT ![w] = "live"]
  /\ UNCHANGED <<storeVars, loopVars, processorVars>>

\* Mutant: one delivery too many goes to the processor.
SparedOnce(count) == count > MaxDeliveryAttempts + 1
Exhausted(count) == count > MaxDeliveryAttempts

Hold(w, l, h) == burying' = [burying EXCEPT ![w][l] = h]

\* An entry without a readable payload.  (Mutant: it is handed on all the same.)
HandedOn(e) == FALSE
Unreadable(e) == e \in Malformed

\* processMessageWithDeliveryCount: to the dead-letter stream or to the channel.
Deliver(w, l, e, count) ==
  IF Unreadable(e) \/ Exhausted(count)
  THEN Hold(w, l, [entry |-> e, next |-> "add"]) /\ UNCHANGED <<inbox, tries>>
  ELSE /\ Len(inbox[w]) < InboxCapacity
       /\ inbox' = [inbox EXCEPT ![w] = Append(@, e)]
       /\ tries' = [tries EXCEPT ![e] = @ + 1]
       /\ UNCHANGED burying

\* The answer to XREADGROUP or XCLAIM is lost: the entry is on the consumer's name, and
\* the consumer does not know.
AnswerLost == Fault /\ UNCHANGED <<inbox, burying, tries>>

\* consumeLoop asks for new entries only.
Read(w) ==
  /\ pod[w] = "live" /\ burying[w]["read"] = Nothing /\ cursor < Len(stream)
  /\ cursor' = cursor + 1
  /\ Assign(stream[cursor + 1], w, 1)
  /\ \/ Deliver(w, "read", stream[cursor + 1], 1) /\ NoFault
     \/ AnswerLost
  /\ UNCHANGED <<pod, listed, late, processorVars, stream, dlq, tableVars, restarts, delays>>

\* Entries of every consumer but this one.  (Mutant: of this one only.)
OwnOnly(w, e) == owner[e] = w
Reclaimable(w, e) == owner[e] # w

\* Some pod still has the entry in memory.
Held(e) ==
  \E w \in Workers :
    \/ current[w] = e
    \/ \E i \in DOMAIN inbox[w] : inbox[w][i] = e
    \/ \E l \in Loops : burying[w][l].entry = e

\* An entry nobody holds gets idle in time; one that is held does when its pod is slow.
TurnsIdle(e) ==
  \/ ~Held(e) /\ UNCHANGED delays
  \/ Held(e) /\ delays > 0 /\ delays' = delays - 1

\* XCLAIM, and the delivery under the count XPENDING showed.
Claimed(w, e, count) ==
  /\ TurnsIdle(e)
  /\ Assign(e, w, deliveries[e] + 1)
  /\ \/ Deliver(w, "reclaim", e, count + 1) /\ NoFault
     \/ AnswerLost
  /\ late' = IF count = deliveries[e] THEN late ELSE [late EXCEPT ![e] = @ + 1]

\* reclaimPending: XCLAIM's MinIdle makes it fail when another claim came first, so
\* XPENDING and a prompt XCLAIM are one step.
Reclaim(w) ==
  /\ pod[w] = "live" /\ burying[w]["reclaim"] = Nothing /\ listed[w] = Unlisted
  /\ \E e \in pending : Reclaimable(w, e) /\ Claimed(w, e, deliveries[e])
  /\ UNCHANGED <<pod, listed, processorVars, stream, cursor, dlq, tableVars, restarts>>

\* A full channel holds the loop up between the two commands, past reclaimIdle.
ListLate(w) ==
  /\ pod[w] = "live" /\ burying[w]["reclaim"] = Nothing /\ listed[w] = Unlisted
  /\ delays > 0 /\ delays' = delays - 1
  /\ \E e \in pending :
       /\ Reclaimable(w, e) /\ ~Held(e)
       /\ listed' = [listed EXCEPT ![w] = [entry |-> e, count |-> deliveries[e]]]
  /\ UNCHANGED <<pod, inbox, burying, tries, late, processorVars, stream, groupVars, dlq,
                 tableVars, faults, restarts>>

\* The overdue XCLAIM finds the entry idle, whoever had it meanwhile, or gets nothing.
ClaimLate(w) ==
  LET e == listed[w].entry IN
  /\ pod[w] = "live" /\ listed[w] # Unlisted
  /\ listed' = [listed EXCEPT ![w] = Unlisted]
  /\ \/ e \in pending /\ Claimed(w, e, listed[w].count)
     \/ /\ e \notin pending \/ Held(e) \/ deliveries[e] # listed[w].count
        /\ UNCHANGED <<inbox, burying, tries, late, groupVars, faults, delays>>
  /\ UNCHANGED <<pod, processorVars, stream, cursor, dlq, tableVars, restarts>>

\* deadLetter's XADD; an error may come after the fact and leaves the entry pending.
DeadLetterAdd(w, l) ==
  LET e == burying[w][l].entry
      copied == dlq' = [dlq EXCEPT ![e] = @ + 1] IN
  /\ burying[w][l].next = "add"
  /\ \/ pod[w] = "live" /\ copied /\ Hold(w, l, [entry |-> e, next |-> "ack"]) /\ NoFault
     \/ Fault /\ (copied \/ UNCHANGED dlq) /\ Hold(w, l, Nothing)
     \/ pod[w] = "draining" /\ NoFault /\ UNCHANGED dlq /\ Hold(w, l, Nothing)
  /\ UNCHANGED <<pod, inbox, listed, tries, late, processorVars, stream, groupVars, tableVars, restarts, delays>>

\* deadLetter's XACK; without it the entry will be dead-lettered again.
DeadLetterAck(w, l) ==
  LET e == burying[w][l].entry IN
  /\ burying[w][l].next = "ack"
  /\ Hold(w, l, Nothing)
  /\ \/ pod[w] = "live" /\ XAck(e) /\ NoFault
     \/ Fault /\ (XAck(e) \/ UNCHANGED groupVars)
     \/ pod[w] = "draining" /\ NoFault /\ UNCHANGED groupVars
  /\ UNCHANGED <<pod, inbox, listed, tries, late, processorVars, stream, dlq, tableVars, restarts, delays>>

-----------------------------------------------------------------------------
Reach(w, s) == stage' = [stage EXCEPT ![w] = s]
Done(w) == current' = [current EXCEPT ![w] = NoOne] /\ Reach(w, "idle")

\* process takes the next message off the channel and opens its transaction, or cannot
\* and leaves the message pending.
Take(w) ==
  /\ pod[w] \in {"live", "draining"} /\ stage[w] = "idle" /\ inbox[w] # <<>>
  /\ inbox' = [inbox EXCEPT ![w] = Tail(@)]
  /\ \/ /\ pod[w] = "live" /\ NoFault
        /\ current' = [current EXCEPT ![w] = Head(inbox[w])] /\ Reach(w, "deduct")
     \/ pod[w] = "draining" /\ NoFault /\ UNCHANGED <<current, stage>>
     \/ Fault /\ UNCHANGED <<current, stage>>
  /\ UNCHANGED <<pod, burying, listed, tries, late, dropped, stream, groupVars, dlq, tableVars,
                 restarts, delays>>

\* The UPDATE waits for the row, then sees what was committed.  No row updated is a
\* permanent error.
Deduct(w) ==
  LET sku == SkuOf[current[w]] IN
  /\ pod[w] = "live" /\ stage[w] = "deduct" /\ lock[sku] = NoOne
  /\ IF stock[sku] >= Quantity[current[w]]
     THEN Reach(w, "insert") /\ lock' = [lock EXCEPT ![sku] = w]
     ELSE Reach(w, "ack_permanent") /\ UNCHANGED lock
  /\ UNCHANGED <<pod, loopVars, current, dropped, stream, groupVars, dlq, stock, orders,
                 faults, restarts, delays>>

\* Mutant: the insert ignores a conflict.
InsertIgnoresConflict(e) == TRUE
InsertAllowed(e) == e \notin orders

Insert(w) ==
  /\ pod[w] = "live" /\ stage[w] = "insert" /\ InsertAllowed(current[w])
  /\ Reach(w, "commit")
  /\ UNCHANGED <<pod, loopVars, current, dropped, storeVars>>

Apply(e) ==
  /\ stock' = [stock EXCEPT ![SkuOf[e]] = @ - Quantity[e]]
  /\ orders' = orders \cup {e}

\* COMMIT; its answer may get lost on the way back.
Commit(w) ==
  /\ pod[w] = "live" /\ stage[w] = "commit"
  /\ Apply(current[w]) /\ Unlock(w)
  /\ \/ Reach(w, "ack_committed") /\ NoFault /\ UNCHANGED current
     \/ Done(w) /\ Fault
  /\ UNCHANGED <<pod, loopVars, dropped, stream, groupVars, dlq, restarts, delays>>

\* A duplicate event_id is an error like any other.
Conflict(w) == stage[w] = "insert" /\ ~InsertAllowed(current[w])

\* Whether giving up leaves the entry pending.  (Mutant: it is acknowledged.)
GivenUpAcked(e) == XAck(e)
GivenUp(e) == UNCHANGED groupVars

\* A transient error: the deferred rollback, and the message stays pending.
GiveUp(w) ==
  /\ stage[w] \in {"deduct", "insert", "commit"}
  /\ \/ (Conflict(w) \/ pod[w] = "draining") /\ NoFault
     \/ Fault
  /\ GivenUp(current[w])
  /\ Unlock(w) /\ Done(w)
  /\ UNCHANGED <<pod, loopVars, dropped, stream, dlq, stock, orders, restarts, delays>>

\* The acknowledgement of a committed or of a rejected message.
Ack(w) ==
  /\ stage[w] \in {"ack_committed", "ack_permanent"}
  /\ Done(w)
  /\ \/ /\ pod[w] = "live" /\ XAck(current[w]) /\ NoFault
        /\ dropped' = IF stage[w] = "ack_permanent" THEN dropped \cup {current[w]} ELSE dropped
     \/ /\ Fault /\ XAck(current[w])
        /\ dropped' = IF stage[w] = "ack_permanent" THEN dropped \cup {current[w]} ELSE dropped
     \/ Fault /\ UNCHANGED <<groupVars, dropped>>
     \/ pod[w] = "draining" /\ NoFault /\ UNCHANGED <<groupVars, dropped>>
  /\ UNCHANGED <<pod, loopVars, stream, dlq, tableVars, restarts, delays>>

-----------------------------------------------------------------------------
\* SIGTERM: consumerCancel.  The processor keeps taking messages off the channel.
Drain(w) ==
  /\ pod[w] = "live" /\ restarts > 0
  /\ restarts' = restarts - 1
  /\ pod' = [pod EXCEPT ![w] = "draining"]
  /\ UNCHANGED <<loopVars, processorVars, stream, groupVars, dlq, tableVars, faults, delays>>

\* The drain deadline, or a kill: what was in memory is gone, the database rolls back.
Die(w) ==
  /\ \/ pod[w] = "draining" /\ UNCHANGED restarts
     \/ pod[w] = "live" /\ restarts > 0 /\ restarts' = restarts - 1
  /\ pod' = [pod EXCEPT ![w] = "dead"]
  /\ inbox' = [inbox EXCEPT ![w] = <<>>]
  /\ burying' = [burying EXCEPT ![w] = [l \in Loops |-> Nothing]]
  /\ listed' = [listed EXCEPT ![w] = Unlisted]
  /\ Done(w) /\ Unlock(w)
  /\ UNCHANGED <<tries, late, dropped, stream, groupVars, dlq, stock, orders, faults, delays>>

LoopStep(w) ==
  \/ Read(w) \/ Reclaim(w) \/ ListLate(w) \/ ClaimLate(w)
  \/ \E l \in Loops : DeadLetterAdd(w, l) \/ DeadLetterAck(w, l)
ProcessorStep(w) ==
  Take(w) \/ Deduct(w) \/ Insert(w) \/ Commit(w) \/ GiveUp(w) \/ Ack(w)
PodStep(w) == Start(w) \/ Drain(w) \/ Die(w)

WorkerStep == \E w \in Workers : LoopStep(w) \/ ProcessorStep(w) \/ PodStep(w)

WorkerTypeOK ==
  /\ pod \in [Workers -> {"absent", "live", "draining", "dead"}]
  /\ inbox \in [Workers -> Seq(Attempts)]
  /\ burying \in [Workers -> [Loops -> [entry : Events \cup {NoOne},
                                        next : {"none", "add", "ack"}]]]
  /\ current \in [Workers -> Attempts \cup {NoOne}]
  /\ stage \in [Workers -> {"idle", "deduct", "insert", "commit",
                            "ack_committed", "ack_permanent"}]
  /\ listed \in [Workers -> [entry : Events \cup {NoOne}, count : Nat]]
  /\ tries \in [Events -> Nat] /\ late \in [Events -> Nat] /\ dropped \subseteq Attempts
=============================================================================
