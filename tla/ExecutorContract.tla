--------------------------- MODULE ExecutorContract ---------------------------
(***************************************************************************)
(* What SafeExecutor.execute may return, as execute_node sees it.  The     *)
(* module IncidentGraph relies on this contract; SafeExecutor meets it.    *)
(***************************************************************************)

CONSTANTS
  Snapshots,  \* tools with a snapshot handler
  Verifiers   \* tools with a verifier

\* `ran': the tool was dispatched; `error': an exception was recorded; `verified':
\* the verifier's word; `reported': verification_passed in the tool's own output.
ExecutorResults(tool) ==
  {r \in [ran : BOOLEAN, error : BOOLEAN,
          verified : {"yes", "no", "none"}, reported : {"yes", "no", "none"}] :
     \/ tool \in Snapshots /\ r = [ran |-> FALSE, error |-> TRUE,
                                   verified |-> "none", reported |-> "none"]
     \/ r = [ran |-> TRUE, error |-> TRUE, verified |-> "none", reported |-> "none"]
     \/ tool \notin Verifiers /\ r.ran /\ ~r.error /\ r.verified = "none"
     \/ /\ tool \in Verifiers /\ r.ran /\ r.verified # "none"
        /\ r.verified = "yes" => ~r.error}
=============================================================================
