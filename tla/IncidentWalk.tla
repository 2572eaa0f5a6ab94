----------------------------- MODULE IncidentWalk -----------------------------
(***************************************************************************)
(* What a checkpoint of an incident holds, as far as the runner and the    *)
(* API can tell two checkpoints apart, and which checkpoint may follow     *)
(* which.  IncidentGraph is checked to walk this way; IncidentRunner uses  *)
(* it in place of the graph.                                               *)
(***************************************************************************)
EXTENDS Integers

CONSTANT MaxTries   \* max_action_attempts

ASSUME MaxTriesAssumption == MaxTries \in Nat \ {0}

Places == {"work", "approve", "execute", "verify", "complete", "end"}
Answers == {"unset", "yes", "no"}

\* at: the next node ("work" is everything up to and with propose); needs, granted,
\* stamped: requires_human_approval, approval_granted, approval_requested_at is set;
\* tries: action_attempts.
Checkpoints ==
  [at : Places, needs : BOOLEAN, granted : Answers, stamped : BOOLEAN, tries : 0..MaxTries]

Fresh == [at |-> "work", needs |-> FALSE, granted |-> "unset", stamped |-> FALSE, tries |-> 0]

Awaiting(s) == s.needs /\ s.granted = "unset"
To(s, place) == [s EXCEPT !.at = place]
TriesLeft(s) == s.tries < MaxTries

\* propose_node picks a call that needs consent, one that does not, or none.
Proposed(s) ==
  {To(s, "complete")} \cup
  (IF TriesLeft(s)
   THEN {To([s EXCEPT !.needs = TRUE], "approve"), To([s EXCEPT !.needs = FALSE], "execute")}
   ELSE {})

\* Mutant: whatever the human answered counts as consent.
AnyAnswerIsYes(s, answer) == {[To(s, "execute") EXCEPT !.granted = answer]}
\* approve_node after interrupt() returned the answer.
Decided(s, answer) ==
  {[To(s, IF answer = "yes" THEN "execute" ELSE "complete") EXCEPT !.granted = answer]}

\* Mutant: a decision on record is not looked at again.
PausesDecided(s, answer) == s.needs /\ (s.stamped => answer = "unset") /\ s.stamped
\* approve_node calls interrupt() and no answer is there for it to return.
Pauses(s, answer) == s.at = "approve" /\ Awaiting(s) /\ s.stamped /\ answer = "unset"

\* approve_node: settled, first pass, or answered.
Approved(s, answer) ==
  IF ~Awaiting(s)
  THEN {To(s, IF s.needs /\ s.granted = "no" THEN "complete" ELSE "execute")}
  ELSE IF ~s.stamped THEN {[s EXCEPT !.stamped = TRUE]}
  ELSE IF answer = "unset" THEN {}
  ELSE Decided(s, answer)

\* Mutant: the attempt is not counted.
NotCounted(s) == s.tries
Counted(s) == IF TriesLeft(s) THEN s.tries + 1 ELSE s.tries

\* execute_node: with work it counts an attempt, without it does not.
Executed(s) == {To(s, "verify"), [To(s, "verify") EXCEPT !.tries = Counted(s)]}

Verified(s) == {To(s, "complete")} \cup (IF TriesLeft(s) THEN {To(s, "work")} ELSE {})

\* The checkpoints a node may leave, given the answer interrupt() would return.
Onward(s, answer) ==
  CASE s.at = "work" -> Proposed(s)
    [] s.at = "approve" -> Approved(s, answer)
    [] s.at = "execute" -> Executed(s)
    [] s.at = "verify" -> Verified(s)
    [] s.at = "complete" -> {To(s, "end")}
    [] s.at = "end" -> {}
=============================================================================
