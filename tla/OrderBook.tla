------------------------------- MODULE OrderBook -------------------------------
(***************************************************************************)
(* What the order pipeline promises the shop: an order is booked at most   *)
(* once, only when it was published and the shelf holds it, and booking it *)
(* takes exactly its quantity off the shelf.                               *)
(***************************************************************************)
EXTENDS Integers

CONSTANTS Attempts, Malformed, Skus, SkuOf, Quantity, InitialStock

VARIABLES
  offered,  \* entries published
  booked,   \* orders booked
  shelf     \* what is left of each sku

vars == <<offered, booked, shelf>>

Init == offered = {} /\ booked = {} /\ shelf = InitialStock

Offer(e) ==
  /\ e \notin offered /\ offered' = offered \cup {e}
  /\ UNCHANGED <<booked, shelf>>

Book(a) ==
  /\ a \in offered \ booked /\ shelf[SkuOf[a]] >= Quantity[a]
  /\ booked' = booked \cup {a}
  /\ shelf' = [shelf EXCEPT ![SkuOf[a]] = @ - Quantity[a]]
  /\ UNCHANGED offered

Next ==
  \/ \E e \in Attempts \cup Malformed : Offer(e)
  \/ \E a \in Attempts : Book(a)

Spec == Init /\ [][Next]_vars
=============================================================================
