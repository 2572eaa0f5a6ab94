--------------------------- MODULE MCIncidentRunner ---------------------------
(***************************************************************************)
(* Instances of IncidentRunner for TLC: an alert delivered twice under one *)
(* fingerprint, and two operators who answer at the same time.             *)
(***************************************************************************)
EXTENDS IncidentRunner, TLC

CONSTANTS d1, d2, d3, p1, p2, f1

MCWorkloads == {{d1, d2}, {d3, p1, p2}}
MCFewer == {{d1, d2}, {d3, p1}}
MCOne == {{d3, p1}}
MCPrintOf == [d \in Deliveries |-> IF d = d3 THEN Unprinted ELSE f1]
=============================================================================
