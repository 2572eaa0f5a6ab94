----------------------------- MODULE OrderPipeline -----------------------------
(***************************************************************************)
(* The order pipeline: the gateway's concurrent checkouts, the stream, and *)
(* the workers that book what the stream carries.                          *)
(***************************************************************************)
EXTENDS Checkout, IngestionWorker

vars == <<storeVars, checkoutVars, workerVars>>

Init == StoreInit /\ CheckoutInit /\ WorkerInit

HandedOut(e) == \E i \in 1..cursor : stream[i] = e
Settled(e) == HandedOut(e) /\ e \notin pending
AtRest ==
  /\ \A a \in Attempts : progress[a] \in {"accepted", "rejected", "failed"}
  /\ \A e \in Events : Published(e) => Settled(e)
Quiet == AtRest /\ UNCHANGED vars

Next ==
  \/ CheckoutStep /\ UNCHANGED workerVars
  \/ WorkerStep /\ UNCHANGED checkoutVars
  \/ Quiet

Spec == Init /\ [][Next]_vars

\* Each loop and the processor are goroutines of their own; the deployment replaces its
\* pods and a draining pod meets its deadline.
Fairness ==
  \A w \in Workers :
    /\ WF_vars(Read(w) /\ UNCHANGED checkoutVars)
    /\ WF_vars((Reclaim(w) \/ ClaimLate(w)) /\ UNCHANGED checkoutVars)
    /\ \A l \in Loops :
         WF_vars((DeadLetterAdd(w, l) \/ DeadLetterAck(w, l)) /\ UNCHANGED checkoutVars)
    /\ WF_vars(ProcessorStep(w) /\ UNCHANGED checkoutVars)
    /\ WF_vars(Start(w) /\ UNCHANGED checkoutVars)
    /\ WF_vars(pod[w] = "draining" /\ Die(w) /\ UNCHANGED checkoutVars)

FairSpec == Spec /\ Fairness

-----------------------------------------------------------------------------
\* The tables and variables hold what the two services and their stores declare.
TypeOK == StoreTypeOK /\ CheckoutTypeOK /\ WorkerTypeOK

\* IdempotencyService: whatever fails and however often the client retries, one key puts
\* at most one entry on the stream.
OneEntryPerKey ==
  \A a, b \in Attempts :
    Keyed(a) /\ KeyOf[a] = KeyOf[b] /\ Published(a) /\ Published(b) => a = b

\* At-least-once: an entry leaves the group's pending list only once it was booked,
\* rejected for good or copied to the dead-letter stream.
NothingLost ==
  \A i \in 1..cursor :
    stream[i] \in pending \cup orders \cup dropped \/ dlq[stream[i]] > 0

\* MaxDeliveryAttempts: over every pod, restart and reclaim, a message is tried no more
\* often than that, but for one more try with each claim that came too late for its count.
TriesCapped == \A e \in Events : tries[e] <= MaxDeliveryAttempts + late[e]

\* The abstract order book the pipeline implements.
Book == INSTANCE OrderBook WITH
  offered <- {e \in Events : Published(e)}, booked <- orders, shelf <- stock

\* However often an entry is delivered, and to however many pods at once, it is booked at
\* most once and takes its quantity off the shelf exactly then: exactly-once effects.
ImplementsOrderBook == Book!Spec

\* Every entry is settled in the end, as long as the deployment keeps two pods running.
EverySettles == \A e \in Events : Published(e) ~> Settled(e)
-----------------------------------------------------------------------------
\* The inductive strengthening of the safety properties above, one part per concern.

\* An attempt that may still publish, or has.
Holds(a) == progress[a] \in {"claimed", "checked", "releasing"} \/ Published(a)

\* A claim in force belongs to one attempt, from SETNX to the end of the stream.
ClaimInv ==
  /\ \A a \in Attempts : Published(a) => progress[a] \in {"accepted", "failed"}
  /\ \A a \in Attempts : Keyed(a) /\ Holds(a) =>
       /\ KeyOf[a] \in claims
       /\ \A b \in Attempts : KeyOf[b] = KeyOf[a] /\ Holds(b) => a = b

\* The stream holds an entry once; what is pending or was ever delivered was read from it.
StreamInv ==
  /\ \A i, j \in DOMAIN stream : stream[i] = stream[j] => i = j
  /\ \A e \in Events : e \in pending \/ deliveries[e] > 0 => HandedOut(e)

\* What a pod has in hand came from the stream.
InHandInv ==
  \A w \in Workers :
    /\ \A i \in DOMAIN inbox[w] : Published(inbox[w][i])
    /\ stage[w] = "idle" <=> current[w] = NoOne
    /\ current[w] # NoOne => Published(current[w])
    /\ \A l \in Loops : burying[w][l].next # "none" => burying[w][l].entry \in Events

\* Between its deduction and its commit a transaction keeps the row it read, and the order
\* it inserts is not there; an acknowledgement waits for what it acknowledges.
BookingInv ==
  \A w \in Workers :
    /\ stage[w] \in {"insert", "commit"} =>
         /\ lock[SkuOf[current[w]]] = w
         /\ stock[SkuOf[current[w]]] >= Quantity[current[w]]
    /\ stage[w] = "commit" => current[w] \notin orders
    /\ stage[w] = "ack_committed" => current[w] \in orders
    /\ \A l \in Loops : burying[w][l].next = "ack" => dlq[burying[w][l].entry] > 0

\* No try without a delivery.
TriesInv == TriesCapped /\ \A e \in Events : tries[e] <= deliveries[e]

PInv ==
  /\ TypeOK /\ ClaimInv /\ StreamInv /\ InHandInv /\ BookingInv /\ TriesInv /\ NothingLost
=============================================================================
