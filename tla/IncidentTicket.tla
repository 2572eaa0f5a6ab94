---------------------------- MODULE IncidentTicket ----------------------------
(***************************************************************************)
(* What the agent promises about one incident, without its machinery: it   *)
(* is open, may be put to a human once, is tried a bounded number of times *)
(* and never after a refusal, and closes with an outcome that agrees with  *)
(* what happened.  IncidentGraph implements it.                            *)
(***************************************************************************)
EXTENDS Naturals

CONSTANT MaxTries  \* attempts allowed

VARIABLES
  stage,    \* "open", "asked" (a human is being asked) or "closed"
  tries,    \* remediation attempts
  won,      \* an attempt ended without an error
  consent,  \* "unset", "yes" or "no"
  outcome   \* "running" until a verdict is given

vars == <<stage, tries, won, consent, outcome>>

Init ==
  /\ stage = "open" /\ tries = 0 /\ won = FALSE
  /\ consent = "unset" /\ outcome = "running"

Ask ==
  /\ stage = "open" /\ consent = "unset" /\ tries < MaxTries
  /\ stage' = "asked"
  /\ UNCHANGED <<tries, won, consent, outcome>>

Answer ==
  /\ stage = "asked"
  /\ stage' = "open" /\ consent' \in {"yes", "no"}
  /\ UNCHANGED <<tries, won, outcome>>

Try ==
  /\ stage = "open" /\ consent # "no" /\ tries < MaxTries
  /\ tries' = tries + 1 /\ won' \in {won, TRUE}
  /\ UNCHANGED <<stage, consent, outcome>>

\* An attempt the executor refused leaves no trace, so "no_action" may follow tries.
Close ==
  /\ stage = "open" /\ stage' = "closed"
  /\ \/ won /\ outcome' = "resolved"
     \/ ~won /\ tries > 0 /\ outcome' = "failed"
     \/ ~won /\ outcome' = "no_action"
  /\ UNCHANGED <<tries, won, consent>>

\* An unapproved proposal the run cannot even build ends it without a verdict.
Abandon ==
  /\ stage = "open" /\ consent = "unset" /\ tries < MaxTries
  /\ stage' = "closed"
  /\ UNCHANGED <<tries, won, consent, outcome>>

Next == Ask \/ Answer \/ Try \/ Close \/ Abandon

Spec == Init /\ [][Next]_vars
=============================================================================
