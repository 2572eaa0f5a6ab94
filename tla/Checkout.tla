------------------------------- MODULE Checkout -------------------------------
(***************************************************************************)
(* The API gateway's checkout: claim the client's idempotency key, look at *)
(* the stock, publish the order event.  Attempts run concurrently; a       *)
(* client that retries is another attempt with the same key.  A claim      *)
(* outlives the modelled window (its TTL is a day).                        *)
(***************************************************************************)
EXTENDS OrderStore

CONSTANTS
  KeyOf,   \* attempt -> X-Request-ID
  Blank    \* no X-Request-ID

ASSUME CheckoutAssumption == DOMAIN KeyOf = Attempts

VARIABLES
  claims,    \* idempotency keys set in Valkey
  progress   \* attempt -> where processCheckout stands or how it ended

checkoutVars == <<claims, progress>>

Keyed(a) == KeyOf[a] # Blank
Advance(a, next) == progress' = [progress EXCEPT ![a] = next]

CheckoutInit == claims = {} /\ progress = [a \in Attempts |-> "new"]

\* checkAndSet: SETNX.  An error leaves the claim in doubt and is not released.
Claim(a) ==
  /\ progress[a] = "new"
  /\ \/ ~Keyed(a) /\ Advance(a, "claimed") /\ NoFault /\ UNCHANGED claims
     \/ /\ Keyed(a) /\ KeyOf[a] \notin claims
        /\ claims' = claims \cup {KeyOf[a]} /\ Advance(a, "claimed") /\ NoFault
     \/ /\ Keyed(a) /\ KeyOf[a] \in claims
        /\ Advance(a, "rejected") /\ NoFault /\ UNCHANGED claims
     \/ Keyed(a) /\ Advance(a, "failed") /\ Fault /\ claims' \in {claims, claims \cup {KeyOf[a]}}
  /\ UNCHANGED <<stream, groupVars, dlq, tableVars, restarts, delays>>

\* hasSufficientInventory, a read of the committed quantity.
PreCheck(a) ==
  /\ progress[a] = "claimed"
  /\ \/ stock[SkuOf[a]] >= Quantity[a] /\ Advance(a, "checked") /\ NoFault
     \/ stock[SkuOf[a]] < Quantity[a] /\ Advance(a, "releasing") /\ NoFault
     \/ Advance(a, "releasing") /\ Fault
  /\ UNCHANGED <<claims, stream, groupVars, dlq, tableVars, restarts, delays>>

\* release: a DEL whose failure is suppressed.
Release(a) ==
  /\ progress[a] = "releasing"
  /\ Advance(a, "rejected")
  /\ \/ claims' = claims \ {KeyOf[a]} /\ NoFault
     \/ claims' \in {claims, claims \ {KeyOf[a]}} /\ Fault
  /\ UNCHANGED <<stream, groupVars, dlq, tableVars, restarts, delays>>

\* Where a failed publish leads.  (Mutant: the claim is released on every failure.)
ReleasedAfterPublish == "releasing"
AfterFailedPublish == "failed"

\* produce: a failed XADD may have been applied, so the claim stays.
Publish(a) ==
  /\ progress[a] = "checked"
  /\ \/ XAdd(a) /\ Advance(a, "accepted") /\ NoFault
     \/ (XAdd(a) \/ UNCHANGED stream) /\ Advance(a, AfterFailedPublish) /\ Fault
  /\ UNCHANGED <<claims, groupVars, dlq, tableVars, restarts, delays>>

\* The gateway dies under the request; nothing is undone.
GatewayDies(a) ==
  /\ progress[a] \in {"claimed", "checked", "releasing"}
  /\ Advance(a, "failed") /\ Fault
  /\ UNCHANGED <<claims, stream, groupVars, dlq, tableVars, restarts, delays>>

\* A publisher other than the gateway (the consumer_lag incident) writes bare fields.
ForeignPublish ==
  /\ \E m \in Malformed : ~Published(m) /\ XAdd(m)
  /\ UNCHANGED <<checkoutVars, groupVars, dlq, tableVars, faults, restarts, delays>>

CheckoutStep ==
  \/ \E a \in Attempts : Claim(a) \/ PreCheck(a) \/ Release(a) \/ Publish(a) \/ GatewayDies(a)
  \/ ForeignPublish

CheckoutTypeOK ==
  /\ claims \subseteq {KeyOf[a] : a \in Attempts}
  /\ progress \in [Attempts -> {"new", "claimed", "checked", "releasing", "accepted",
                                "rejected", "failed"}]
=============================================================================
