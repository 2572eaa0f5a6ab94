---------------------------- MODULE MCOrderPipeline ----------------------------
(***************************************************************************)
(* Instances of OrderPipeline for TLC: a client that retries under one     *)
(* key, a second client without a key, stock for one of them (and enough   *)
(* for the first client's order to be deducted twice), an entry no worker  *)
(* can read, two pods and one replacement.                                 *)
(***************************************************************************)
EXTENDS OrderPipeline, TLC

CONSTANTS a1, a2, b1, m1, w1, w2, w3, s1, k1, none

MCKeyOf == [a \in Attempts |-> IF a = b1 THEN none ELSE k1]
MCSkuOf == [a \in Attempts |-> s1]
MCQuantity == [a \in Attempts |-> IF a = b1 THEN 2 ELSE 1]
MCStock == [s \in {s1} |-> 2]

\* The two pods of the deployment are alike.
PodSymmetry == Permutations({w1, w2})
=============================================================================
