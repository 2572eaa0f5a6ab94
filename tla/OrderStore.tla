------------------------------ MODULE OrderStore ------------------------------
(***************************************************************************)
(* What the gateway and the workers share: the Valkey stream with its      *)
(* consumer group and dead-letter stream, and the two PostgreSQL tables.   *)
(* Both services are external; the operators are the commands src/ sends.  *)
(* A stream entry is named by the checkout attempt, or by the foreign      *)
(* publisher's entry, that wrote it.                                       *)
(***************************************************************************)
EXTENDS Integers, Sequences

CONSTANTS
  Attempts,      \* checkout requests, each of which writes at most one entry
  Malformed,     \* entries without a readable payload, from other publishers
  Skus, SkuOf, Quantity, InitialStock,
  Workers,       \* consumer names: a pod that is replaced comes back under a new one
  NoOne

Events == Attempts \cup Malformed

ASSUME StoreAssumption ==
  /\ Attempts \cap Malformed = {}
  /\ NoOne \notin Events \cup Workers
  /\ SkuOf \in [Attempts -> Skus]
  /\ Quantity \in [Attempts -> Nat \ {0}]
  /\ InitialStock \in [Skus -> Nat]

VARIABLES
  stream,      \* rivulet.orders.in, every entry ever written
  cursor,      \* entries handed to the consumer group so far
  pending,     \* the group's pending entries list
  owner,       \* the consumer a pending entry was last delivered to
  deliveries,  \* its delivery count
  dlq,         \* copies of an entry on rivulet.orders.in.dlq
  stock,       \* inventory.quantity
  orders,      \* orders.event_id
  lock,        \* the transaction holding a sku's inventory row
  faults,      \* environment budget: failed or ambiguous commands
  restarts,    \* environment budget: pods stopped or killed
  delays       \* environment budget: entries held, or reclaims held up, past reclaimIdle

groupVars == <<cursor, pending, owner, deliveries>>
tableVars == <<stock, orders, lock>>
storeVars == <<stream, groupVars, dlq, tableVars, faults, restarts, delays>>

CONSTANTS MaxFaults, MaxRestarts, MaxDelays

ASSUME BudgetAssumption == MaxFaults \in Nat /\ MaxRestarts \in Nat /\ MaxDelays \in Nat

StoreInit ==
  /\ stream = <<>> /\ cursor = 0 /\ pending = {}
  /\ owner = [e \in Events |-> NoOne] /\ deliveries = [e \in Events |-> 0]
  /\ dlq = [e \in Events |-> 0]
  /\ stock = InitialStock /\ orders = {} /\ lock = [s \in Skus |-> NoOne]
  /\ faults = MaxFaults /\ restarts = MaxRestarts
  /\ delays = MaxDelays

Published(e) == \E i \in DOMAIN stream : stream[i] = e

\* A command fails: one unit of the budget.
Fault == faults > 0 /\ faults' = faults - 1
NoFault == UNCHANGED faults

\* XADD
XAdd(e) == stream' = Append(stream, e)

\* XREADGROUP ">" and XCLAIM put an entry on a consumer's name.
Assign(e, w, count) ==
  /\ pending' = pending \cup {e}
  /\ owner' = [owner EXCEPT ![e] = w]
  /\ deliveries' = [deliveries EXCEPT ![e] = count]

\* XACK, whoever owns the entry.
XAck(e) == pending' = pending \ {e} /\ UNCHANGED <<cursor, owner, deliveries>>

\* Ending a transaction gives up its row locks.
Unlock(w) == lock' = [s \in Skus |-> IF lock[s] = w THEN NoOne ELSE lock[s]]

StoreTypeOK ==
  /\ stream \in Seq(Events) /\ cursor \in 0..Len(stream)
  /\ pending \subseteq Events
  /\ owner \in [Events -> Workers \cup {NoOne}]
  /\ deliveries \in [Events -> Nat] /\ dlq \in [Events -> Nat]
  /\ stock \in [Skus -> Int] /\ orders \subseteq Attempts
  /\ lock \in [Skus -> Workers \cup {NoOne}]
  /\ faults \in Nat /\ restarts \in Nat /\ delays \in Nat
=============================================================================
