-------------------------- MODULE SafeExecutorProofs --------------------------
(***************************************************************************)
(* Proofs about SafeExecutor: the inductive invariant EInv and the safety  *)
(* properties it implies, for any registry, handlers, allowlist, autonomous*)
(* threshold and proposals.                                                *)
(***************************************************************************)
EXTENDS SafeExecutor, TLAPS

\* A non-empty set of rule indices has a least element, and Min is it.
LEMMA FirstRule ==
  ASSUME NEW S \in SUBSET (1..10), S # {}
  PROVE  Min(S) \in S /\ \A j \in S : Min(S) <= j
<1>1. \E i \in S : \A j \in S : i <= j
  <2>1. SUFFICES ASSUME \A i \in S : \E j \in S : j < i PROVE FALSE
    OBVIOUS
  <2>2. 1 \notin S /\ 2 \notin S /\ 3 \notin S
    BY <2>1
  <2>3. 4 \notin S /\ 5 \notin S /\ 6 \notin S
    BY <2>1, <2>2
  <2>4. 7 \notin S /\ 8 \notin S /\ 9 \notin S /\ 10 \notin S
    BY <2>1, <2>2, <2>3
  <2>5. PICK i \in S : TRUE
    OBVIOUS
  <2>6. i \in 1..10
    OBVIOUS
  <2>7. i \in {1, 2, 3, 4, 5, 6, 7, 8, 9, 10}
    BY <2>6
  <2>8. QED
    BY <2>2, <2>3, <2>4, <2>5, <2>7
<1>2. QED
  BY <1>1 DEF Min

\* The rule that decides is one of DefaultRules, or none matches.
LEMMA RuleTierBounded ==
  ASSUME NEW tool, NEW args, NEW base \in Tiers
  PROVE  RuleTier(tool, args, base) \in Tiers
<1> DEFINE hits == {i \in DOMAIN DefaultRules : Matches(DefaultRules[i], tool, args)}
<1>1. DOMAIN DefaultRules = 1..10
  BY DEF DefaultRules
<1>2. \A i \in 1..10 : DefaultRules[i].tier \in Tiers
  BY DEF DefaultRules, Rule, Tiers
<1>3. CASE hits = {}
  BY <1>3 DEF RuleTier
<1>4. CASE hits # {}
  <2>1. Min(hits) \in 1..10
    BY <1>1, <1>4, FirstRule
  <2>2. QED
    BY <2>1, <1>2, <1>4 DEF RuleTier
<1>5. QED
  BY <1>3, <1>4

\* classify returns a decision.
LEMMA ClassifyType ==
  ASSUME NEW tool, NEW args, NEW base \in Tiers
  PROVE  Classify(tool, args, base) \in [allowed : BOOLEAN, tier : Tiers, approval : BOOLEAN]
BY RuleTierBounded DEF Classify, Tiers, ProhibitedTier

\* Step 2 of execute: the base tier is no lower than the registered or the proposed one.
LEMMA BaseTierType ==
  ASSUME TypeOK, action.tool \in DOMAIN Registered
  PROVE  BaseTier \in Tiers /\ BaseTier >= action.tier /\ BaseTier >= Registered[action.tool]
<1>1. action.tier \in Tiers /\ Registered[action.tool] \in Tiers
  BY ExecutorAssumption DEF TypeOK
<1>2. QED
  BY <1>1 DEF BaseTier, Tiers

-----------------------------------------------------------------------------
\* TypeOK in three parts, one for each kind of variable: flags, labels and data.
Flags ==
  ran \in BOOLEAN /\ error \in BOOLEAN /\ rolledBack \in BOOLEAN /\ captured \in BOOLEAN
Labels ==
  /\ pc \in Pcs
  /\ status \in Statuses
  /\ verified \in {"yes", "no", "none"}
  /\ exit \in {"none", "returned", "rejected", "needs_approval", "cancelled"}
  /\ effect \in {"untouched", "changed", "restored"}
Data ==
  /\ action \in Proposals
  /\ decision \in [allowed : BOOLEAN, tier : Tiers, approval : BOOLEAN]
  /\ audits \in Seq(Statuses) /\ rollbacks \in Nat

\* The three parts are TypeOK.
LEMMA TypeParts == TypeOK <=> Flags /\ Labels /\ Data
BY Zenon DEF TypeOK, Flags, Labels, Data

\* A call that has not started owes nothing and has done nothing.
LEMMA InitInv == Init => EInv
<1> SUFFICES ASSUME Init PROVE EInv
  OBVIOUS
<1>1. Flags /\ Labels
  BY Zenon DEF Init, Flags, Labels, Pcs, Statuses
<1>2. Data
  BY DEF Init, Data, Undecided, Tiers, ProhibitedTier
<1>3. DecisionInv /\ CaptureInv /\ ResultInv
  BY DEF Init, DecisionInv, Begun, Gated, CaptureInv, ResultInv
<1>4. DebtInv
  BY DEF Init, DebtInv
<1>5. QED
  BY <1>1, <1>2, <1>3, <1>4, TypeParts DEF EInv

\* Every step of execute writes a Boolean to each flag.
LEMMA FlagsStep == Flags /\ [Next]_vars => Flags'
BY Zenon DEF Flags, Next, Decide, Snapshot, SnapshotFailed, Dispatch, ToolSucceeds, ToolFails,
       Verify, Rollback, RollbackOutcome, Audit, CancelAwait, Finished, vars, resultVars

\* Every step of execute writes a known label.
LEMMA LabelsStep == Labels /\ [Next]_vars => Labels'
<1> SUFFICES ASSUME Labels, [Next]_vars PROVE Labels'
  OBVIOUS
<1> USE DEF Labels, Pcs, Statuses, EndThroughAudit
<1>1. CASE Decide
  BY <1>1, Zenon DEF Decide
<1>2. CASE Snapshot
  BY <1>2, Zenon DEF Snapshot, SnapshotFailed
<1>3. CASE Dispatch \/ ToolSucceeds
  BY <1>3, Zenon DEF Dispatch, ToolSucceeds
<1>4. CASE ToolFails
  BY <1>4, Zenon DEF ToolFails, AfterFailure
<1>5. CASE Verify
  BY <1>5, Zenon DEF Verify
<1>6. CASE Rollback
  BY <1>6, Zenon DEF Rollback, RollbackOutcome
<1>7. CASE Audit \/ UNCHANGED vars
  BY <1>7, Zenon DEF Audit, vars, resultVars
<1>8. CASE CancelAwait
  BY <1>8, Zenon DEF CancelAwait, resultVars
<1>9. QED
  BY <1>1, <1>2, <1>3, <1>4, <1>5, <1>6, <1>7, <1>8 DEF Next, Finished

\* classify's decision, the audit history and the rollback count keep their types.
LEMMA DataStep == TypeOK /\ [Next]_vars => Data'
<1> SUFFICES ASSUME TypeOK, [Next]_vars PROVE Data'
  OBVIOUS
<1>1. Data /\ Labels
  BY TypeParts
<1>2. action' = action
  BY DEF Next, Decide, Snapshot, Dispatch, ToolSucceeds, ToolFails, Verify, Rollback, Audit,
         CancelAwait, Finished, vars
<1>3. decision' \in [allowed : BOOLEAN, tier : Tiers, approval : BOOLEAN]
  <2>1. CASE Decide /\ action.tool \in DOMAIN Registered
    <3>1. Classify(action.tool, action.args, BaseTier)
            \in [allowed : BOOLEAN, tier : Tiers, approval : BOOLEAN]
      BY <2>1, BaseTierType, ClassifyType
    <3>2. action.approval \in BOOLEAN
      BY <1>1, ExecutorAssumption DEF Data
    <3>3. QED
      BY <2>1, <3>1, <3>2 DEF Decide, Reconciled
  <2>2. CASE ~(Decide /\ action.tool \in DOMAIN Registered)
    <3>1. decision' = decision
      BY <2>2 DEF Next, Decide, Snapshot, Dispatch, ToolSucceeds, ToolFails, Verify, Rollback,
                  Audit, CancelAwait, Finished, vars
    <3>2. QED
      BY <1>1, <3>1 DEF Data
  <2>3. QED
    BY <2>1, <2>2
<1>4. rollbacks' \in {rollbacks, rollbacks + 1}
  BY Zenon DEF Next, Decide, Snapshot, Dispatch, ToolSucceeds, ToolFails, Verify, Rollback,
               Audit, CancelAwait, Finished, vars
<1>5. audits' \in {audits, Append(audits, status)}
  BY Zenon DEF Next, Decide, Snapshot, Dispatch, ToolSucceeds, ToolFails, Verify, Rollback,
               Audit, CancelAwait, Audited, Finished, vars
<1>6. Append(audits, status) \in Seq(Statuses)
  BY <1>1 DEF Data, Labels
<1>7. QED
  BY <1>1, <1>2, <1>3, <1>4, <1>5, <1>6 DEF Data

\* Every step of execute keeps the types.
LEMMA TypeStep == TypeOK /\ [Next]_vars => TypeOK'
<1> SUFFICES ASSUME TypeOK, [Next]_vars PROVE TypeOK'
  OBVIOUS
<1>1. Flags' /\ Labels' /\ Data'
  BY TypeParts, FlagsStep, LabelsStep, DataStep
<1>2. QED
  BY <1>1 DEF TypeOK, Flags, Labels, Data

\* The gate: what leaves Decide for the snapshot or the dispatch is allowed and needs no
\* approval, and nothing changes the decision afterwards.
LEMMA DecisionStep ==
  ASSUME TypeOK, DecisionInv, CaptureInv, [Next]_vars
  PROVE  DecisionInv'
<1>1. CASE Decide
  <2>1. action' = action /\ ran' = ran /\ ~ran /\ pc = "start"
    BY <1>1 DEF Decide, CaptureInv
  <2>2. CASE action.tool \notin DOMAIN Registered
    BY <1>1, <2>1, <2>2 DEF Decide, EndThroughAudit, DecisionInv, Begun, Gated
  <2>3. CASE action.tool \in DOMAIN Registered
    <3> DEFINE d == Classify(action.tool, action.args, BaseTier)
    <3>1. d \in [allowed : BOOLEAN, tier : Tiers, approval : BOOLEAN]
      BY <2>3, BaseTierType, ClassifyType
    <3>2. decision' = IF d.allowed THEN Reconciled(d) ELSE d
      BY <1>1, <2>3 DEF Decide
    <3> HIDE DEF d
    <3>3. decision'.tier = d.tier /\ decision'.allowed = d.allowed
      BY <3>1, <3>2 DEF Reconciled
    <3>4. decision'.allowed => decision'.approval = action.approval
      BY <3>1, <3>2 DEF Reconciled
    <3>5. pc' \in Gated => decision'.allowed /\ ~decision'.approval
      BY <1>1, <2>3 DEF Decide, EndThroughAudit, Gated
    <3>6. BaseTier' = BaseTier
      BY <2>1 DEF BaseTier
    <3>7. pc' # "start"
      BY <1>1 DEF Decide, EndThroughAudit
    <3>8. Begun'
      BY <2>1, <2>3, <3>7 DEF Begun
    <3>9. d = Classify(action'.tool, action'.args, BaseTier')
      BY <2>1, <3>6 DEF d
    <3>10. QED
      BY <2>1, <3>3, <3>4, <3>5, <3>8, <3>9 DEF DecisionInv
  <2>4. QED
    BY <2>2, <2>3
<1>2. CASE ~Decide
  <2>1. UNCHANGED <<action, decision>>
    BY <1>2 DEF Next, Snapshot, Dispatch, ToolSucceeds, ToolFails, Verify, Rollback, Audit,
                CancelAwait, Finished, vars
  <2>2. BaseTier' = BaseTier
    BY <2>1 DEF BaseTier
  <2>3. (pc' = "start") = (pc = "start")
    BY <1>2 DEF Next, Snapshot, SnapshotFailed, Dispatch, ToolSucceeds, ToolFails, AfterFailure,
                Verify, Rollback, Audit, CancelAwait, Finished, vars, EndThroughAudit
  <2>4. pc' \in Gated \/ ran' => pc \in Gated \/ ran
    BY <1>2 DEF Next, Snapshot, SnapshotFailed, Dispatch, ToolSucceeds, ToolFails, Verify,
                Rollback, Audit, CancelAwait, Finished, vars, resultVars, EndThroughAudit, Gated
  <2>5. QED
    BY <2>1, <2>2, <2>3, <2>4 DEF DecisionInv, Begun
<1>3. QED
  BY <1>1, <1>2

\* Pre-state and effect: what the capture says of the dispatch survives every step.
LEMMA CaptureStep ==
  ASSUME TypeOK, CaptureInv, DebtInv, [Next]_vars
  PROVE  CaptureInv'
<1>1. Flags
  BY TypeParts
<1>2. CASE Decide
  BY <1>1, <1>2 DEF Decide, EndThroughAudit, CaptureInv, Flags
<1>3. CASE Snapshot
  BY <1>1, <1>3 DEF Snapshot, SnapshotFailed, EndThroughAudit, CaptureInv, Flags
<1>4. CASE Dispatch
  BY <1>1, <1>4 DEF Dispatch, CaptureInv, DebtInv, Flags
<1>5. CASE ToolSucceeds
  BY <1>1, <1>5 DEF ToolSucceeds, EndThroughAudit, CaptureInv, DebtInv, Flags
<1>6. CASE ToolFails
  BY <1>1, <1>6 DEF ToolFails, AfterFailure, CaptureInv, DebtInv, Flags
<1>7. CASE Verify
  BY <1>1, <1>7 DEF Verify, CaptureInv, Flags
<1>8. CASE Rollback
  BY <1>1, <1>8 DEF Rollback, RollbackOutcome, MayRollback, CaptureInv, Flags
<1>9. CASE Audit
  BY <1>1, <1>9 DEF Audit, resultVars, CaptureInv, Flags
<1>10. CASE CancelAwait
  BY <1>1, <1>10 DEF CancelAwait, resultVars, CaptureInv, DebtInv, Flags
<1>11. CASE UNCHANGED vars
  BY <1>11 DEF vars, resultVars, CaptureInv
<1>12. QED
  BY <1>2, <1>3, <1>4, <1>5, <1>6, <1>7, <1>8, <1>9, <1>10, <1>11 DEF Next, Finished

\* The fields of the result stay consistent with each other.
LEMMA ResultStep ==
  ASSUME TypeOK, CaptureInv, ResultInv, [Next]_vars
  PROVE  ResultInv'
<1>1. Flags
  BY TypeParts
<1>2. CASE Decide
  BY <1>1, <1>2 DEF Decide, EndThroughAudit, ResultInv, Flags
<1>3. CASE Snapshot
  BY <1>1, <1>3 DEF Snapshot, SnapshotFailed, EndThroughAudit, ResultInv, CaptureInv, Flags
<1>4. CASE Dispatch
  BY <1>1, <1>4 DEF Dispatch, ResultInv, Flags
<1>5. CASE ToolSucceeds
  BY <1>1, <1>5 DEF ToolSucceeds, EndThroughAudit, ResultInv, CaptureInv, Flags
<1>6. CASE ToolFails
  BY <1>1, <1>6 DEF ToolFails, AfterFailure, ResultInv, Flags
<1>7. CASE Verify
  <2>1. action' = action /\ ran' = ran /\ ran /\ ~error /\ action.tool \in Verifiers
    BY <1>7 DEF Verify, ResultInv, CaptureInv
  <2>2. CASE pc' = "audit"
    <3>1. verified' = "yes" /\ error' = error
      BY <1>7, <2>2, Zenon DEF Verify
    <3>2. QED
      BY <2>1, <2>2, <3>1 DEF ResultInv
  <2>3. CASE pc' = "rollback"
    <3>1. verified' = "no"
      BY <1>7, <2>3 DEF Verify
    <3>2. QED
      BY <2>1, <2>3, <3>1 DEF ResultInv
  <2>4. QED
    BY <1>7, <2>2, <2>3 DEF Verify
<1>8. CASE Rollback
  BY <1>1, <1>8 DEF Rollback, RollbackOutcome, ResultInv, CaptureInv, Flags
<1>9. CASE Audit
  BY <1>1, <1>9 DEF Audit, resultVars, ResultInv, Flags
<1>10. CASE CancelAwait
  BY <1>1, <1>10 DEF CancelAwait, resultVars, ResultInv, Flags
<1>11. CASE UNCHANGED vars
  BY <1>11 DEF vars, resultVars, ResultInv
<1>12. QED
  BY <1>2, <1>3, <1>4, <1>5, <1>6, <1>7, <1>8, <1>9, <1>10, <1>11 DEF Next, Finished

\* What is owed is paid once: the rollback by Rollback, the audit entry by Audit.
LEMMA DebtStep ==
  ASSUME TypeOK, CaptureInv, DebtInv, ResultInv, [Next]_vars
  PROVE  DebtInv'
<1>1. Flags
  BY TypeParts
<1>2. CASE Decide
  BY <1>1, <1>2 DEF Decide, EndThroughAudit, DebtInv, RollbackDue, Flags
<1>3. CASE Snapshot
  BY <1>1, <1>3 DEF Snapshot, SnapshotFailed, EndThroughAudit, DebtInv, RollbackDue, Flags
<1>4. CASE Dispatch
  BY <1>1, <1>4 DEF Dispatch, DebtInv, Flags
<1>5. CASE ToolSucceeds
  BY <1>1, <1>5 DEF ToolSucceeds, EndThroughAudit, DebtInv, RollbackDue, Flags
<1>6. CASE ToolFails
  BY <1>1, <1>6 DEF ToolFails, AfterFailure, DebtInv, Flags
<1>7. CASE Verify
  BY <1>1, <1>7 DEF Verify, DebtInv, RollbackDue, Flags
<1>8. CASE Rollback
  <2>1. rollbacks' = RollbackDue
    <3>1. rollbacks = 0 /\ status \in {"failed", "verification_failed"}
      BY <1>8 DEF Rollback, DebtInv
    <3>2. captured <=> action.tool \in Snapshots
      BY <1>8 DEF Rollback, CaptureInv
    <3>3. rollbacks' = IF MayRollback THEN rollbacks + 1 ELSE rollbacks
      BY <1>8, Zenon DEF Rollback
    <3>4. QED
      BY <3>1, <3>2, <3>3 DEF MayRollback, RollbackDue
  <2>2. RollbackDue' = RollbackDue
    BY <1>8 DEF Rollback, RollbackDue
  <2>3. pc' = "audit" /\ audits' = <<>>
    BY <1>8 DEF Rollback, DebtInv
  <2>4. QED
    BY <2>1, <2>2, <2>3 DEF DebtInv
<1>9. Append(<<>>, status) = <<status>>
  OBVIOUS
<1>10. CASE Audit
  BY <1>1, <1>9, <1>10 DEF Audit, Audited, resultVars, DebtInv, RollbackDue, Flags
<1>11. CASE CancelAwait
  <2>1. audits' \in {<<>>, <<status>>}
    BY <1>9, <1>11 DEF CancelAwait, Audited, DebtInv
  <2>2. /\ pc' = "done" /\ exit' = "cancelled" /\ status' = status
        /\ RollbackDue' = RollbackDue
    BY <1>11 DEF CancelAwait, resultVars, RollbackDue
  \* Cut in the snapshot or the verifier: nothing has failed, so nothing is due.
  <2>3. CASE pc \in {"snapshot", "verify"}
    <3>1. rollbacks' = 0 /\ rollbacks = 0
      BY <1>11, <2>3 DEF CancelAwait, DebtInv
    <3>2. status \in {"not_dispatched", "succeeded"}
      BY <2>3 DEF DebtInv
    <3>3. RollbackDue = 0
      BY <3>2 DEF RollbackDue
    <3>4. QED
      BY <2>1, <2>2, <3>1, <3>2, <3>3 DEF DebtInv
  \* Cut in the rollback handler: it was called, and it was due.
  <2>4. CASE pc = "rollback"
    <3>1. rollbacks' = 1
      BY <1>11, <2>4 DEF CancelAwait, DebtInv
    <3>2. RollbackDue = 1
      BY <1>11, <2>4 DEF CancelAwait, MayRollback, DebtInv, CaptureInv, RollbackDue
    <3>3. QED
      BY <2>1, <2>2, <3>1, <3>2 DEF DebtInv
  \* Cut in the audit hook: the record was handed over.
  <2>5. CASE pc = "audit"
    <3>1. rollbacks' = RollbackDue /\ HasAuditHook
      BY <1>11, <2>5 DEF CancelAwait, DebtInv
    <3>2. audits' = <<status>>
      BY <1>9, <1>11, <2>5, <3>1 DEF CancelAwait, Audited, DebtInv
    <3>3. QED
      BY <2>2, <3>1, <3>2 DEF DebtInv
  <2>6. QED
    BY <1>11, <2>3, <2>4, <2>5 DEF CancelAwait
<1>12. CASE UNCHANGED vars
  BY <1>12 DEF vars, resultVars, DebtInv, RollbackDue
<1>13. QED
  BY <1>2, <1>3, <1>4, <1>5, <1>6, <1>7, <1>8, <1>10, <1>11, <1>12 DEF Next, Finished

-----------------------------------------------------------------------------
\* SafeExecutor.execute keeps its decision, its pre-state, its debts and its result
\* consistent across every await, failure and cancellation.
THEOREM Invariance == Spec => []EInv
<1>1. Init => EInv
  BY InitInv
<1>2. EInv /\ [Next]_vars => EInv'
  <2> SUFFICES ASSUME EInv, [Next]_vars PROVE EInv'
    OBVIOUS
  <2>1. TypeOK /\ DecisionInv /\ CaptureInv /\ DebtInv /\ ResultInv
    BY DEF EInv
  <2>2. TypeOK' /\ DecisionInv' /\ CaptureInv' /\ DebtInv' /\ ResultInv'
    BY <2>1, TypeStep, DecisionStep, CaptureStep, DebtStep, ResultStep
  <2>3. QED
    BY <2>2 DEF EInv
<1>3. QED
  BY <1>1, <1>2, PTL DEF Spec

\* The call's ExecutionResult, PolicyDecision and histories stay in their types.
THEOREM TypeCorrect == Spec => []TypeOK
<1>1. EInv => TypeOK
  BY DEF EInv
<1>2. QED
  BY <1>1, Invariance, PTL

\* Step 7 of execute: whatever fails or is cancelled, a tool with a snapshot handler is
\* not dispatched without a captured snapshot.
THEOREM FailsClosed == Spec => []FailClosed
<1>1. EInv => FailClosed
  BY DEF EInv, CaptureInv, FailClosed
<1>2. QED
  BY <1>1, Invariance, PTL

\* Steps 4 to 6 of execute: what was not allowed, or asked for approval, changed nothing.
THEOREM GateHolds == Spec => []UnapprovedNeverRuns
<1>1. EInv => UnapprovedNeverRuns
  BY DEF EInv, CaptureInv, DecisionInv, UnapprovedNeverRuns
<1>2. QED
  BY <1>1, Invariance, PTL

\* Step 2 of execute: with no rule for a tool, what ran was judged by the higher of the
\* registered and the proposed tier.
THEOREM TierKept == Spec => []TierNotLowered
<1>1. EInv => TierNotLowered
  <2> SUFFICES ASSUME EInv, ran,
                      \A i \in DOMAIN DefaultRules :
                        ~Matches(DefaultRules[i], action.tool, action.args)
               PROVE  decision.tier >= Registered[action.tool] /\ decision.tier >= action.tier
    BY DEF TierNotLowered
  <2>1. TypeOK /\ action.tool \in DOMAIN Registered /\ decision.allowed
    BY DEF EInv, DecisionInv, Begun
  <2>2. /\ decision.tier = Classify(action.tool, action.args, BaseTier).tier
        /\ decision.allowed = Classify(action.tool, action.args, BaseTier).allowed
    BY DEF EInv, DecisionInv, Begun
  <2>3. RuleTier(action.tool, action.args, BaseTier) = BaseTier
    BY DEF RuleTier
  <2>4. decision.tier = BaseTier
    BY <2>1, <2>2, <2>3 DEF Classify
  <2>5. QED
    BY <2>1, <2>4, BaseTierType
<1>2. QED
  BY <1>1, Invariance, PTL

\* PolicyEngine.classify: a call into a system namespace is prohibited, whatever the
\* allowlist says and whichever tool it is.
LEMMA SystemNamespaceProhibited ==
  ASSUME NEW tool, NEW args, NEW base, args.namespace \in SystemNamespaces
  PROVE  ~Classify(tool, args, base).allowed
<1> DEFINE hits == {i \in DOMAIN DefaultRules : Matches(DefaultRules[i], tool, args)}
<1>1. DOMAIN DefaultRules = 1..10
  BY DEF DefaultRules
<1>2. DefaultRules[1].tier = 4 /\ DefaultRules[2].tier = 4 /\ DefaultRules[3].tier = 4
  BY DEF DefaultRules, Rule
<1>3. 3 \in hits
  <2>1. DefaultRules[3].tool = "*" /\ DefaultRules[3].applies = "system_namespace"
    BY DEF DefaultRules, Rule
  <2>2. QED
    BY <1>1, <2>1 DEF Matches
<1>4. Min(hits) \in 1..10 /\ Min(hits) <= 3
  BY <1>1, <1>3, FirstRule
<1>5. Min(hits) = 1 \/ Min(hits) = 2 \/ Min(hits) = 3
  BY <1>4
<1>6. RuleTier(tool, args, base) = 4
  <2>1. RuleTier(tool, args, base) = DefaultRules[Min(hits)].tier
    BY <1>3 DEF RuleTier
  <2>2. QED
    BY <2>1, <1>2, <1>5
<1>7. QED
  BY <1>6 DEF Classify, ProhibitedTier

\* The rule list's order: a system namespace is out of reach of every tool.
THEOREM SystemNamespacesSafe == Spec => []SystemNamespacesUntouched
<1>1. EInv => SystemNamespacesUntouched
  <2> SUFFICES ASSUME EInv, ran, action.args.namespace \in SystemNamespaces PROVE FALSE
    BY DEF SystemNamespacesUntouched
  <2>1. Classify(action.tool, action.args, BaseTier).allowed
    BY DEF EInv, DecisionInv, Begun
  <2>2. QED
    BY <2>1, SystemNamespaceProhibited
<1>2. QED
  BY <1>1, Invariance, PTL

\* _maybe_rollback across both failure paths, cancellation included: exactly one call when
\* one is due.
THEOREM RollsBackWhenDue == Spec => []RollbackExactlyWhenDue
<1>1. EInv => RollbackExactlyWhenDue
  BY DEF EInv, DebtInv, RollbackExactlyWhenDue
<1>2. QED
  BY <1>1, Invariance, PTL

\* _maybe_rollback reports rolled_back only for a restored system.
THEOREM RollbackReportTrue == Spec => []RollbackTruthful
<1>1. EInv => RollbackTruthful
  BY DEF EInv, CaptureInv, RollbackTruthful
<1>2. QED
  BY <1>1, Invariance, PTL

\* _safe_audit on every exit, once; silent only after a cut outside the dispatch.
THEOREM AuditedOnce == Spec => []NeverSilent
<1>1. EInv => NeverSilent
  <2> SUFFICES ASSUME EInv PROVE NeverSilent
    OBVIOUS
  <2>1. audits \in {<<>>, <<status>>}
    BY DEF EInv, DebtInv
  <2>2. Len(audits) <= 1
    <3>1. CASE audits = <<>>
      BY <3>1
    <3>2. CASE audits = <<status>>
      BY <3>2
    <3>3. QED
      BY <2>1, <3>1, <3>2
  <2>3. QED
    BY <2>2 DEF EInv, DebtInv, NeverSilent
<1>2. QED
  BY <1>1, Invariance, PTL

\* Every result execute returns is one execute_node is modelled to handle: what
\* IncidentGraph assumes of the executor holds for every registry.
THEOREM ContractMet == Spec => []MeetsContract
<1>1. EInv => MeetsContract
  <2> SUFFICES ASSUME EInv, pc = "done", exit = "returned"
               PROVE  \E rep \in {"yes", "no", "none"} :
                        [ran |-> ran, error |-> error, verified |-> verified, reported |-> rep]
                          \in ExecutorResults(action.tool)
    BY DEF MeetsContract
  <2> DEFINE r == [ran |-> ran, error |-> error, verified |-> verified, reported |-> "none"]
  <2>1. Flags /\ verified \in {"yes", "no", "none"}
    BY TypeParts DEF EInv, Labels
  <2>2. r \in [ran : BOOLEAN, error : BOOLEAN,
               verified : {"yes", "no", "none"}, reported : {"yes", "no", "none"}]
    BY <2>1 DEF Flags
  <2>3. \/ ~ran /\ error /\ verified = "none" /\ action.tool \in Snapshots
        \/ ran /\ error /\ verified = "none"
        \/ ran /\ ~error /\ verified = "none" /\ action.tool \notin Verifiers
        \/ ran /\ ~error /\ verified = "yes" /\ action.tool \in Verifiers
        \/ ran /\ verified = "no" /\ action.tool \in Verifiers
    BY DEF EInv, ResultInv
  <2>4. ran \in BOOLEAN /\ error \in BOOLEAN
    BY <2>1 DEF Flags
  <2>5. r.ran = ran /\ r.error = error /\ r.verified = verified
    OBVIOUS
  <2>6. \/ action.tool \in Snapshots /\ r = [ran |-> FALSE, error |-> TRUE,
                                             verified |-> "none", reported |-> "none"]
        \/ r = [ran |-> TRUE, error |-> TRUE, verified |-> "none", reported |-> "none"]
        \/ action.tool \notin Verifiers /\ r.ran /\ ~r.error /\ r.verified = "none"
        \/ /\ action.tool \in Verifiers /\ r.ran /\ r.verified # "none"
           /\ r.verified = "yes" => ~r.error
    <3>1. CASE ~ran /\ error /\ verified = "none" /\ action.tool \in Snapshots
      <4>1. ran = FALSE /\ error = TRUE
        BY <2>4, <3>1
      <4>2. QED
        BY <3>1, <4>1
    <3>2. CASE ran /\ error /\ verified = "none"
      <4>1. ran = TRUE /\ error = TRUE
        BY <2>4, <3>2
      <4>2. QED
        BY <3>2, <4>1
    <3>3. CASE ran /\ ~error /\ verified = "none" /\ action.tool \notin Verifiers
      BY <2>5, <3>3
    <3>4. CASE ran /\ ~error /\ verified = "yes" /\ action.tool \in Verifiers
      BY <2>5, <3>4
    <3>5. CASE ran /\ verified = "no" /\ action.tool \in Verifiers
      BY <2>5, <3>5
    <3>6. QED
      BY <2>3, <3>1, <3>2, <3>3, <3>4, <3>5
  <2>7. r \in ExecutorResults(action.tool)
    BY <2>2, <2>6 DEF ExecutorResults
  <2>8. QED
    BY <2>7
<1>2. QED
  BY <1>1, Invariance, PTL

-----------------------------------------------------------------------------
\* PolicyEngine.classify's checks before any rule.
HardLimits == ran \/ effect # "untouched" => ~HardRejected(action.tool, action.args)

\* No tier, approval flag, rule or registration gets a call past the hard checks: outside
\* the allowlist, with a wildcard, or with a blocked tool, nothing is ever changed.
THEOREM HardLimitsHold == Spec => []HardLimits
<1>1. EInv => HardLimits
  <2> SUFFICES ASSUME EInv, ran \/ effect # "untouched", HardRejected(action.tool, action.args)
               PROVE  FALSE
    BY DEF HardLimits
  <2>1. ran
    BY DEF EInv, CaptureInv
  <2>2. Classify(action.tool, action.args, BaseTier).allowed
    BY <2>1 DEF EInv, DecisionInv, Begun
  <2> QED BY <2>2 DEF Classify, ProhibitedTier
<1> QED BY <1>1, Invariance, PTL

\* A status says what became of the system, whatever was cancelled or rolled back.
StatusTellsEffect ==
  /\ status \in {"succeeded", "verified"} => effect = "changed"
  /\ status = "verification_failed" => effect # "untouched"
  /\ status \in {"not_dispatched", "rejected", "approval_required", "snapshot_failed"} =>
       effect = "untouched"
EffectInv == StatusTellsEffect /\ (pc = "verify" => status = "succeeded")

\* Only a failed call is rolled back, and a tool that answered has a status of its own.
LEMMA EffectStep ==
  ASSUME EInv, EffectInv, [Next]_vars
  PROVE  EffectInv'
<1> USE DEF EffectInv, StatusTellsEffect, EndThroughAudit
<1>1. CASE Decide
  BY <1>1 DEF Decide, EInv, CaptureInv
<1>2. CASE Snapshot
  BY <1>2 DEF Snapshot, SnapshotFailed, EInv, CaptureInv
<1>3. CASE Dispatch
  BY <1>3 DEF Dispatch
<1>4. CASE ToolSucceeds \/ ToolFails
  BY <1>4 DEF ToolSucceeds, ToolFails, AfterFailure
<1>5. CASE Verify
  BY <1>5 DEF Verify
<1>6. CASE Rollback
  <2>1. status \in {"failed", "verification_failed"} /\ status' = status /\ pc' = "audit"
    BY <1>6 DEF Rollback, EInv, DebtInv
  <2>2. effect' \in {effect, "restored"}
    BY <1>6 DEF Rollback, RollbackOutcome
  <2> QED BY <2>1, <2>2
<1>7. CASE Audit
  BY <1>7 DEF Audit, resultVars
<1>8. CASE CancelAwait
  <2>1. status' = status /\ pc' = "done"
    BY <1>8 DEF CancelAwait, resultVars
  <2>2. CASE pc = "rollback"
    <3>1. status \in {"failed", "verification_failed"} /\ effect' \in {effect, "restored"}
      BY <1>8, <2>2 DEF CancelAwait, EInv, DebtInv
    <3> QED BY <2>1, <3>1
  <2>3. CASE pc # "rollback"
    BY <1>8, <2>1, <2>3 DEF CancelAwait
  <2> QED BY <2>2, <2>3
<1>9. CASE UNCHANGED vars
  BY <1>9 DEF vars, resultVars
<1> QED BY <1>1, <1>2, <1>3, <1>4, <1>5, <1>6, <1>7, <1>8, <1>9 DEF Next, Finished

\* ExecutionResult.status can be believed about the managed system, which the executor
\* itself cannot see: success means changed, a refusal or a failed snapshot untouched.
THEOREM StatusTrue == Spec => []StatusTellsEffect
<1>1. Init => EffectInv
  BY DEF Init, EffectInv, StatusTellsEffect
<1>2. EInv /\ EffectInv /\ [Next]_vars => EffectInv'
  BY EffectStep
<1>3. EffectInv => StatusTellsEffect
  BY DEF EffectInv
<1> QED BY <1>1, <1>2, <1>3, Invariance, PTL DEF Spec

\* The awaits still ahead of a call, at most.
AwaitsAhead ==
  CASE pc = "start" -> 7
    [] pc = "snapshot" -> 6
    [] pc = "dispatch" -> 5
    [] pc = "tool" -> 4
    [] pc = "verify" -> 3
    [] pc = "rollback" -> 2
    [] pc = "audit" -> 1
    [] OTHER -> 0

\* execute never goes back: a rollback is not retried, a failed audit not repeated and no
\* path leads to a second dispatch.  What HandlersReturn adds is that bounded awaits end.
THEOREM NeverGoesBack == Spec => [][AwaitsAhead' < AwaitsAhead]_vars
<1>1. ASSUME Next, vars' # vars
      PROVE  AwaitsAhead' < AwaitsAhead
  <2> USE DEF AwaitsAhead, EndThroughAudit
  <2>1. CASE Decide
    <3>1. pc = "start" /\ pc' \in {"snapshot", "dispatch", "audit"}
      BY <2>1 DEF Decide
    <3> QED BY <3>1
  <2>2. CASE Snapshot
    <3>1. pc = "snapshot" /\ pc' \in {"dispatch", "audit"}
      BY <2>2 DEF Snapshot, SnapshotFailed
    <3> QED BY <3>1
  <2>3. CASE Dispatch
    BY <2>3 DEF Dispatch
  <2>4. CASE ToolSucceeds \/ ToolFails
    <3>1. pc = "tool" /\ pc' \in {"verify", "rollback", "audit"}
      BY <2>4 DEF ToolSucceeds, ToolFails, AfterFailure
    <3> QED BY <3>1
  <2>5. CASE Verify
    <3>1. pc = "verify" /\ pc' \in {"rollback", "audit"}
      BY <2>5 DEF Verify
    <3> QED BY <3>1
  <2>6. CASE Rollback
    BY <2>6 DEF Rollback
  <2>7. CASE Audit
    BY <2>7 DEF Audit
  <2>8. CASE CancelAwait
    <3>1. pc \in {"snapshot", "verify", "rollback", "audit"} /\ pc' = "done"
      BY <2>8 DEF CancelAwait
    <3> QED BY <3>1
  <2> QED BY <1>1, <2>1, <2>2, <2>3, <2>4, <2>5, <2>6, <2>7, <2>8 DEF Next, Finished
<1>2. [Next]_vars => [AwaitsAhead' < AwaitsAhead]_vars
  BY <1>1
<1> QED BY <1>2, PTL DEF Spec
=============================================================================
