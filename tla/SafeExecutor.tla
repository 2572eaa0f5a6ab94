----------------------------- MODULE SafeExecutor -----------------------------
(***************************************************************************)
(* One SafeExecutor.execute call, cut where it awaits: the audit hook, the *)
(* snapshot handler, the tool, the verifier, the rollback handler.  Each   *)
(* await may answer, fail, time out where the code bounds it, or be        *)
(* cancelled by the runner.  `effect' is what the call did to the managed  *)
(* system, which the executor itself cannot see.                           *)
(***************************************************************************)
EXTENDS PolicyEngine, ExecutorContract

CONSTANTS
  Registered,   \* registered tool -> risk tier
  Rollbacks,    \* tools with a rollback handler
  Proposals,    \* actions execute may be called with: [tool, args, tier, approval]
  HasAuditHook  \* an audit hook is injected

ASSUME ExecutorAssumption ==
  /\ \A t \in DOMAIN Registered : Registered[t] \in Tiers
  /\ Proposals \subseteq [tool : STRING, args : ArgShapes, tier : Tiers, approval : BOOLEAN]
  /\ HasAuditHook \in BOOLEAN

VARIABLES
  action,     \* the ProposedAction
  pc,         \* where the call stands
  decision,   \* PolicyDecision
  status, ran, verified, error, rolledBack, captured,  \* the ExecutionResult
  exit,       \* how the call ends: "none" while it runs
  effect,     \* "untouched", "changed" or "restored"
  audits,     \* history: statuses handed to the audit hook
  rollbacks   \* history: rollback handler calls

resultVars == <<status, ran, verified, error, rolledBack, captured>>
vars == <<action, pc, decision, resultVars, exit, effect, audits, rollbacks>>

Pcs == {"start", "snapshot", "dispatch", "tool", "verify", "rollback", "audit", "done"}
Statuses == {"not_dispatched", "rejected", "approval_required", "snapshot_failed",
             "succeeded", "verified", "verification_failed", "failed"}
Undecided == [allowed |-> FALSE, tier |-> ProhibitedTier, approval |-> FALSE]

Init ==
  /\ action \in Proposals
  /\ pc = "start" /\ decision = Undecided
  /\ status = "not_dispatched" /\ ran = FALSE /\ verified = "none" /\ error = FALSE
  /\ rolledBack = FALSE /\ captured = FALSE
  /\ exit = "none" /\ effect = "untouched" /\ audits = <<>> /\ rollbacks = 0

-----------------------------------------------------------------------------
\* Step 2: neither the registration nor the proposal can lower the other's tier.
\* (Mutant: the proposal's tier is trusted.)
ProposedTier == action.tier
BaseTier == IF Registered[action.tool] > action.tier THEN Registered[action.tool] ELSE action.tier

\* Step 4: the proposal's approval flag replaces the policy's, in both directions.
\* (Mutant: a proposal that asks for approval does not get it.)
PolicyApprovalOnly(d) == [d EXCEPT !.approval = @ /\ action.approval]
Reconciled(d) == [d EXCEPT !.approval = action.approval]

\* A call that ends here ends through the audit hook.
EndThroughAudit(how) == pc' = "audit" /\ exit' = how

\* Steps 1 to 6 run without giving up control.
Decide ==
  /\ pc = "start"
  /\ IF action.tool \notin DOMAIN Registered
     THEN EndThroughAudit("rejected") /\ UNCHANGED <<decision, status>>
     ELSE LET classified == Classify(action.tool, action.args, BaseTier) IN
          /\ decision' = IF classified.allowed THEN Reconciled(classified) ELSE classified
          /\ IF ~decision'.allowed
             THEN EndThroughAudit("rejected") /\ status' = "rejected"
             ELSE IF decision'.approval
             THEN EndThroughAudit("needs_approval") /\ status' = "approval_required"
             ELSE /\ pc' = IF action.tool \in Snapshots THEN "snapshot" ELSE "dispatch"
                  /\ UNCHANGED <<exit, status>>
  /\ UNCHANGED <<action, ran, verified, error, rolledBack, captured, effect, audits, rollbacks>>

\* Step 7 fails closed: no snapshot, no dispatch.  (Mutants: it fails open; the error is
\* raised instead of returned.)
SnapshotFailedOpen ==
  pc' = "dispatch" /\ UNCHANGED <<status, error, exit>>
SnapshotRaised ==
  /\ status' = "snapshot_failed" /\ error' = TRUE
  /\ EndThroughAudit("raised")
SnapshotFailed ==
  /\ status' = "snapshot_failed" /\ error' = TRUE
  /\ EndThroughAudit("returned")

Snapshot ==
  /\ pc = "snapshot"
  /\ \/ captured' = TRUE /\ pc' = "dispatch" /\ UNCHANGED <<status, error, exit>>
     \/ SnapshotFailed /\ UNCHANGED captured
  /\ UNCHANGED <<action, decision, ran, verified, rolledBack, effect, audits, rollbacks>>

\* Step 8 marks the call dispatched before it awaits the registry.
Dispatch ==
  /\ pc = "dispatch"
  /\ ran' = TRUE /\ pc' = "tool"
  /\ UNCHANGED <<action, decision, status, verified, error, rolledBack, captured, exit,
                 effect, audits, rollbacks>>

\* The registry answers.
ToolSucceeds ==
  /\ pc = "tool"
  /\ effect' = "changed" /\ status' = "succeeded"
  /\ IF action.tool \in Verifiers
     THEN pc' = "verify" /\ UNCHANGED exit
     ELSE EndThroughAudit("returned")
  /\ UNCHANGED <<action, decision, ran, verified, error, rolledBack, captured, audits, rollbacks>>

\* The except clauses of the dispatch, the one for CancelledError included, all go through
\* _maybe_rollback.  (Mutant: only Exception is caught.)
CancelUncaught(how) == IF how = "cancelled" THEN "done" ELSE "rollback"
AfterFailure(how) == "rollback"

\* The handler raised, its input or output did not validate, or the run was cancelled:
\* what it did before that stands.
ToolFails ==
  /\ pc = "tool"
  /\ effect' \in {"untouched", "changed"}
  /\ status' = "failed" /\ error' = TRUE
  /\ exit' \in {"returned", "cancelled"}
  /\ pc' = AfterFailure(exit')
  /\ UNCHANGED <<action, decision, ran, verified, rolledBack, captured, audits, rollbacks>>

\* Step 9: only an explicit True verifies; False keeps the error unset.
Verify ==
  /\ pc = "verify"
  /\ exit' = "returned"
  /\ \/ /\ verified' = "yes" /\ status' = "verified"
        /\ pc' = "audit" /\ UNCHANGED error
     \/ /\ verified' = "no" /\ status' = "verification_failed"
        /\ error' \in {error, TRUE}
        /\ pc' = "rollback"
  /\ UNCHANGED <<action, decision, ran, rolledBack, captured, effect, audits, rollbacks>>

\* _maybe_rollback needs a handler and a captured snapshot.
MayRollback == action.tool \in Rollbacks /\ captured

\* The handler says True, False, fails or times out.  (Mutants: its answer is not looked
\* at; a rollback that worked clears the error.)
RollbackTrusted == rolledBack' = TRUE /\ effect' \in {effect, "restored"} /\ UNCHANGED error
RollbackClears == rolledBack' = TRUE /\ effect' = "restored" /\ error' = FALSE
RollbackOutcome ==
  \/ rolledBack' = TRUE /\ effect' = "restored" /\ UNCHANGED error
  \/ rolledBack' = FALSE /\ error' \in {error, TRUE} /\ effect' \in {effect, "restored"}

Rollback ==
  /\ pc = "rollback"
  /\ pc' = "audit"
  /\ IF MayRollback
     THEN rollbacks' = rollbacks + 1 /\ RollbackOutcome
     ELSE UNCHANGED <<rollbacks, rolledBack, error, effect>>
  /\ UNCHANGED <<action, decision, status, ran, verified, captured, exit, audits>>

\* _safe_audit: best effort, never fails the call.  (Mutant: only returns are audited.)
AuditReturnsOnly == IF HasAuditHook /\ exit = "returned" THEN Append(audits, status) ELSE audits
Audited == IF HasAuditHook THEN Append(audits, status) ELSE audits

Audit ==
  /\ pc = "audit"
  /\ audits' = Audited /\ pc' = "done"
  /\ UNCHANGED <<action, decision, resultVars, exit, effect, rollbacks>>

\* Cancellation outside the dispatch is caught nowhere: no rollback and no audit
\* follow, and a handler it interrupts may have done its work.
CancelAwait ==
  /\ \/ pc \in {"snapshot", "verify"} /\ UNCHANGED <<rollbacks, effect, audits>>
     \/ /\ pc = "rollback" /\ MayRollback
        /\ rollbacks' = rollbacks + 1 /\ effect' \in {effect, "restored"}
        /\ UNCHANGED audits
     \/ /\ pc = "audit" /\ HasAuditHook
        /\ audits' = Audited /\ UNCHANGED <<rollbacks, effect>>
  /\ exit' = "cancelled" /\ pc' = "done"
  /\ UNCHANGED <<action, decision, resultVars>>

Finished == pc = "done" /\ UNCHANGED vars

Next ==
  \/ Decide \/ Snapshot \/ Dispatch \/ ToolSucceeds \/ ToolFails \/ Verify
  \/ Rollback \/ Audit \/ CancelAwait \/ Finished

Spec == Init /\ [][Next]_vars

\* asyncio.wait_for bounds the three injected handlers; nothing bounds the tool or the
\* audit hook.  (Mutant: the rollback handler is awaited without a bound.)
RollbackUnbounded == WF_vars(Snapshot) /\ WF_vars(Verify)
HandlersBounded == WF_vars(Snapshot) /\ WF_vars(Verify) /\ WF_vars(Rollback)

FairSpec == Spec /\ HandlersBounded

-----------------------------------------------------------------------------
TypeOK ==
  /\ action \in Proposals /\ pc \in Pcs
  /\ decision \in [allowed : BOOLEAN, tier : Tiers, approval : BOOLEAN]
  /\ status \in Statuses
  /\ ran \in BOOLEAN /\ verified \in {"yes", "no", "none"} /\ error \in BOOLEAN
  /\ rolledBack \in BOOLEAN /\ captured \in BOOLEAN
  /\ exit \in {"none", "returned", "rejected", "needs_approval", "cancelled"}
  /\ effect \in {"untouched", "changed", "restored"}
  /\ audits \in Seq(Statuses) /\ rollbacks \in Nat

\* Fail-closed on pre-state capture: a tool with a snapshot handler changes nothing
\* before a snapshot was captured.
FailClosed ==
  ran \/ effect # "untouched" => (action.tool \in Snapshots => captured)

\* Step 6 gates dispatch: a call the planner asked approval for, or one policy does not
\* allow, leaves the system as it was.
UnapprovedNeverRuns ==
  ran \/ effect # "untouched" => ~action.approval /\ decision.allowed

\* A proposal cannot understate a tool's registered tier where no rule speaks for it.
TierNotLowered ==
  ran /\ (\A i \in DOMAIN DefaultRules : ~Matches(DefaultRules[i], action.tool, action.args))
    => decision.tier >= Registered[action.tool] /\ decision.tier >= action.tier

\* The system-namespace rule precedes every tool's own rule, so even an allowlist that
\* names a system namespace does not open it.
SystemNamespacesUntouched == ran => action.args.namespace \notin SystemNamespaces

\* What a call that is over owes the system it changed: one rollback, if its tool failed or
\* did not verify and there is a handler and a state to go back to.
RollbackDue ==
  IF status \in {"failed", "verification_failed"} /\ action.tool \in Rollbacks \cap Snapshots
  THEN 1 ELSE 0

\* _maybe_rollback is called exactly when it is due, once across the failure paths of the
\* dispatch and of the verification; a call cancelled while its tool ran is no exception.
RollbackExactlyWhenDue == pc = "done" => rollbacks = RollbackDue

\* A result that says rolled_back tells the truth about the system.
RollbackTruthful == rolledBack => effect = "restored" /\ captured

\* Whatever execute raises or returns was audited once, under its terminal status.  Only a
\* cancellation can be silent, and only one that struck in the snapshot or the verifier,
\* or in the rollback handler itself: a call cut in its dispatch is audited too.
NeverSilent ==
  /\ Len(audits) <= 1
  /\ pc = "done" /\ HasAuditHook /\ audits # <<status>> =>
       /\ exit = "cancelled"
       /\ status \in {"not_dispatched", "succeeded"} \/ rollbacks = 1

\* Every result execute returns is one execute_node is modelled to handle.
MeetsContract ==
  pc = "done" /\ exit = "returned" =>
    \E rep \in {"yes", "no", "none"} :
      [ran |-> ran, error |-> error, verified |-> verified, reported |-> rep]
        \in ExecutorResults(action.tool)

\* A hung snapshot, verification or rollback handler does not hold the call.
HandlersReturn ==
  pc \in {"snapshot", "verify", "rollback"} ~> pc \in {"dispatch", "audit", "done"}

-----------------------------------------------------------------------------
\* The inductive strengthening of the invariants above, one part per concern.

Begun == pc # "start" /\ action.tool \in DOMAIN Registered
Gated == {"snapshot", "dispatch", "tool", "verify", "rollback"}

\* The decision is the policy's on the higher tier, with the proposal's approval flag;
\* past the gate it allows the call.
DecisionInv ==
  /\ Begun =>
       /\ decision.tier = Classify(action.tool, action.args, BaseTier).tier
       /\ decision.allowed = Classify(action.tool, action.args, BaseTier).allowed
  /\ pc \in Gated \/ ran => Begun /\ decision.allowed /\ ~action.approval

\* Nothing is dispatched, changed or rolled back without its pre-state.
CaptureInv ==
  /\ pc = "snapshot" => action.tool \in Snapshots
  /\ pc \in {"start", "snapshot", "dispatch"} => ~ran
  /\ pc \in {"tool", "verify", "rollback"} => ran
  /\ ~ran => effect = "untouched"
  /\ captured => action.tool \in Snapshots
  /\ pc = "dispatch" \/ ran => (action.tool \in Snapshots => captured)
  /\ rolledBack => effect = "restored" /\ captured

\* What the call still owes: its rollback, then its audit.
DebtInv ==
  /\ pc \in {"start", "snapshot", "dispatch", "tool", "verify"} =>
       /\ rollbacks = 0 /\ ~rolledBack
       /\ status = IF pc = "verify" THEN "succeeded" ELSE "not_dispatched"
  /\ pc = "rollback" =>
       rollbacks = 0 /\ ~rolledBack /\ status \in {"failed", "verification_failed"}
  /\ pc \in {"audit", "done"} => rollbacks = RollbackDue
  /\ pc # "done" => audits = <<>>
  /\ pc = "done" /\ HasAuditHook =>
       \/ audits = <<status>>
       \/ exit = "cancelled" /\ (status \in {"not_dispatched", "succeeded"} \/ rollbacks = 1)
  /\ audits \in {<<>>, <<status>>}

\* The fields of the result agree with each other on every path.
ResultInv ==
  /\ pc \in {"start", "snapshot", "dispatch", "tool", "verify"} =>
       ~error /\ verified = "none" /\ exit = "none"
  /\ pc = "verify" => action.tool \in Verifiers
  /\ pc = "rollback" =>
       (error /\ verified = "none") \/ (verified = "no" /\ action.tool \in Verifiers)
  /\ pc \in {"audit", "done"} /\ exit = "returned" =>
       \/ ~ran /\ error /\ verified = "none" /\ action.tool \in Snapshots
       \/ ran /\ error /\ verified = "none"
       \/ ran /\ ~error /\ verified = "none" /\ action.tool \notin Verifiers
       \/ ran /\ ~error /\ verified = "yes" /\ action.tool \in Verifiers
       \/ ran /\ verified = "no" /\ action.tool \in Verifiers

EInv == TypeOK /\ DecisionInv /\ CaptureInv /\ DebtInv /\ ResultInv
=============================================================================
