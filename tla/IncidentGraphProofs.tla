------------------------- MODULE IncidentGraphProofs -------------------------
(***************************************************************************)
(* IncidentGraph's safety, for every alert, model answer, tool table and   *)
(* threshold the assumptions allow.  IInv is inductive; the invariants the *)
(* runs check are its conjuncts or follow from it.                         *)
(***************************************************************************)
EXTENDS IncidentGraph, FiniteSetTheorems, TLAPS

USE DEF Calls, EarlyExit, AttemptsLeft, NeedsApproval, Undecided, Denied, AttemptCounted

\* _build_fallback_args and the fallback paths: a fallback is well typed and allowed.
LEMMA FallbackCallAllowed ==
  ASSUME TypeOK
  PROVE  \/ FallbackCall = NoCall
         \/ FallbackCall \in Calls /\ FallbackCall.tool \notin ForbiddenHere
  BY TablesAssumption DEF TypeOK, FallbackCall, HasFallback, NoActionCategory, FallbackArgs

\* The candidate of propose_node is well typed, and allowed whichever path built it.
LEMMA CandidateAllowed ==
  ASSUME TypeOK, NEW answer \in LLMAnswers \cup {NoCall}
  PROVE  \/ Candidate(answer) = NoCall
         \/ Candidate(answer) \in Calls /\ Candidate(answer).tool \notin ForbiddenHere
<1>1. CASE answer.tool = NoTool \/ conf < ConfidencePropose \/ answer.tool \in ForbiddenHere
  BY <1>1, FallbackCallAllowed DEF Candidate
<1>2. CASE ~(answer.tool = NoTool \/ conf < ConfidencePropose \/ answer.tool \in ForbiddenHere)
  <2>1. answer \in Calls
    BY <1>2, ModelAssumption DEF NoCall
  <2> QED BY <1>2, <2>1, TablesAssumption DEF Candidate
<1> QED BY <1>1, <1>2

\* _clamp_namespace changes nothing but the arguments.
LEMMA ClampKeepsTool ==
  ASSUME NEW c \in Calls
  PROVE  /\ ClampNamespace(c) \in Calls
         /\ ClampNamespace(c).tool = c.tool
         /\ ClampNamespace(c).tier = c.tier
  BY TablesAssumption DEF ClampNamespace

\* A new incident satisfies every part of the inductive invariant.
LEMMA InitInv == Init => IInv
<1> SUFFICES ASSUME Init PROVE IInv
  OBVIOUS
<1>1. TypeOK
  <2>1. executed \in Seq(Records)
    BY DEF Init
  <2>2. proposal \in Calls \cup {NoCall}
    BY DEF Init
  <2>3. approved \subseteq [tool : Tools, args : Args] /\ direct \subseteq DOMAIN Registered
    BY DEF Init
  <2>4. node \in Nodes /\ phase \in Phases /\ status \in Statuses
    BY DEF Init, Nodes, Phases, Statuses
  <2>5. /\ budget \in Nat /\ iters \in Nat /\ stagnation \in Nat /\ attempts \in Nat
        /\ conf \in Int /\ lastConf \in Int
    BY ThresholdAssumption DEF Init
  <2>6. hypothesized \in BOOLEAN /\ needsHuman \in BOOLEAN /\ requested \in BOOLEAN
        /\ granted \in {"unset", "yes", "no"}
    BY DEF Init
  <2> QED
    BY <2>1, <2>2, <2>3, <2>4, <2>5, <2>6 DEF Init, TypeOK
<1>2. LoopInv
  BY ThresholdAssumption DEF Init, LoopInv, MaxInvestigations
<1>3. StageInv /\ ProposalInv /\ NoActionInv
  BY DEF Init, StageInv, ProposalInv, NoActionInv
<1>4. /\ ForbiddenNeverDispatched /\ MutatingAtMostOnce /\ AttemptsBounded
      /\ NoActionUntouched /\ DeclaredTier2NeedsGrant /\ CompletedIsTerminal
  BY ThresholdAssumption
  DEF Init, ForbiddenNeverDispatched, MutatingAtMostOnce, AttemptsBounded, NoActionUntouched,
      DeclaredTier2NeedsGrant, CompletedIsTerminal
<1> QED BY <1>1, <1>2, <1>3, <1>4 DEF IInv

-----------------------------------------------------------------------------
\* Every node's update keeps the state well typed.
LEMMA TypeStep ==
  ASSUME IInv, [Next]_vars
  PROVE  TypeOK'
<1> USE DEF IInv, TypeOK, vars, hypothesisVars, loopVars, approvalVars, historyVars, Finish,
            AfterPhase, Nodes, Phases, Statuses
<1>1. CASE Triage
  <2>1. conf' \in {conf} \cup Levels \cup {20} /\ hypothesized' \in {hypothesized, TRUE}
    BY <1>1, Zenon DEF Triage
  <2>2. node' \in Nodes /\ phase' \in Phases /\ status' \in Statuses
    BY <1>1 DEF Triage
  <2>3. /\ budget' \in Nat /\ iters' \in Nat /\ lastConf' \in Int
        /\ stagnation' \in Nat /\ attempts' \in Nat
    BY <1>1, ThresholdAssumption DEF Triage
  <2>4. conf' \in Int
    BY <2>1, ModelAssumption
  <2>5. hypothesized' \in BOOLEAN
    BY <2>1, Zenon
  <2> QED BY <1>1, <2>2, <2>3, <2>4, <2>5 DEF Triage
<1>2. CASE Investigate
  BY <1>2, ModelAssumption DEF Investigate
<1>3. CASE Hypothesize
  <2>1. /\ node' \in Nodes
        /\ UNCHANGED <<alert, hypothesized, budget, iters, attempts, proposal, needsHuman,
                       approvalVars, executed, historyVars>>
    BY <1>3 DEF Hypothesize, AfterHypothesize
  <2>2. CASE NotRefined
    BY <2>1, <2>2 DEF NotRefined
  <2>3. ASSUME NEW level \in Levels, Refined(level)
        PROVE  TypeOK'
    BY <2>1, <2>3, ModelAssumption DEF Refined
  <2> QED BY <1>3, <2>2, <2>3 DEF Hypothesize
<1>4. CASE Propose
  <2>1. PICK answer \in LLMAnswers \cup {NoCall} :
          \/ phase' = "complete" /\ status' \in Statuses /\ UNCHANGED <<proposal, needsHuman>>
          \/ /\ Proposable(Candidate(answer))
             /\ proposal' = ClampNamespace(Candidate(answer))
             /\ needsHuman' = (Candidate(answer).tier >= 2)
             /\ phase' \in {"approve", "execute"} /\ UNCHANGED status
    BY <1>4 DEF Propose
  <2>2. proposal' \in Calls \cup {NoCall} /\ needsHuman' \in BOOLEAN
    <3>1. CASE UNCHANGED <<proposal, needsHuman>>
      BY <3>1
    <3>2. CASE Proposable(Candidate(answer))
               /\ proposal' = ClampNamespace(Candidate(answer))
               /\ needsHuman' = (Candidate(answer).tier >= 2)
      <4>1. Candidate(answer) \in Calls
        BY <3>2, CandidateAllowed DEF Proposable
      <4>2. proposal' \in Calls
        BY <3>2, <4>1, ClampKeepsTool
      <4>3. needsHuman' \in BOOLEAN
        BY <3>2
      <4> QED BY <4>2, <4>3
    <3> QED BY <2>1, <3>1, <3>2
  <2>3. phase' \in Phases /\ status' \in Statuses
    BY <2>1
  <2> HIDE DEF Calls
  <2> QED BY <1>4, <2>2, <2>3 DEF Propose
<1>5. CASE ApproveSettled
  BY <1>5 DEF ApproveSettled
<1>6. CASE ApproveStamp
  BY <1>6 DEF ApproveStamp
<1>7. CASE ApprovePause
  BY <1>7 DEF ApprovePause
<1>8. CASE Decide
  BY <1>8 DEF Decide, Call, StageInv, ProposalInv
<1>9. CASE Execute
  <2>1. phase' \in Phases /\ status' \in Statuses /\ attempts' \in Nat
    BY <1>9 DEF Execute
  <2>2. executed' \in Seq(Records)
    <3>1. CASE executed' = executed
      BY <3>1
    <3>2. CASE HasWork /\ \E r \in ExecutorResults(proposal.tool) :
                             executed' = Append(executed, Record(r))
      <4>1. PICK r \in ExecutorResults(proposal.tool) : executed' = Append(executed, Record(r))
        BY <3>2
      <4>2. Record(r) \in Records
        BY <3>2 DEF HasWork, Records, Record, ExecutorResults
      <4> HIDE DEF Calls
      <4> QED BY <4>1, <4>2
    <3> QED BY <1>9, <3>1, <3>2 DEF Execute
  <2> QED BY <1>9, <2>1, <2>2 DEF Execute
<1>10. CASE ExecuteAborts
  BY <1>10 DEF ExecuteAborts
<1>11. CASE Verify
  BY <1>11 DEF Verify
<1>12. CASE Complete
  BY <1>12 DEF Complete, FinalStatus
<1>13. CASE UNCHANGED vars
  BY <1>13
<1> QED
  BY <1>1, <1>2, <1>3, <1>4, <1>5, <1>6, <1>7, <1>8, <1>9, <1>10, <1>11, <1>12, <1>13
  DEF Next, GraphStep, Finished

-----------------------------------------------------------------------------
\* The counters stay coupled, and route_after_hypothesize stops the loop in time.
LEMMA LoopStep ==
  ASSUME IInv, [Next]_vars
  PROVE  LoopInv'
<1> USE ThresholdAssumption DEF IInv, TypeOK, LoopInv, MaxInvestigations
<1>1. CASE Triage
  BY <1>1 DEF Triage
<1>2. CASE Investigate
  BY <1>2 DEF Investigate
<1>3. CASE Hypothesize
  BY <1>3 DEF Hypothesize, AfterHypothesize
<1>4. CASE \/ Propose \/ ApproveSettled \/ ApproveStamp \/ ApprovePause \/ Decide
           \/ Execute \/ ExecuteAborts \/ Verify \/ Complete
  <2>1. UNCHANGED <<budget, iters>> /\ node' # "investigate"
    BY <1>4 DEF Propose, ApproveSettled, ApproveStamp, ApprovePause, Decide, Execute,
                ExecuteAborts, Verify, Complete, AfterPhase, loopVars
  <2> QED BY <2>1
<1>5. CASE UNCHANGED vars
  BY <1>5 DEF vars, loopVars
<1> QED BY <1>1, <1>2, <1>3, <1>4, <1>5 DEF Next, GraphStep, Finished

\* The alert never changes, so neither do the table entries it selects.
LEMMA AlertFixed ==
  ASSUME [Next]_vars
  PROVE  /\ alert' = alert
         /\ NoActionCategory' <=> NoActionCategory
         /\ ForbiddenHere' = ForbiddenHere
<1>1. alert' = alert
  BY DEF Next, GraphStep, Finished, vars, Triage, Investigate, Hypothesize, Propose,
         ApproveSettled, ApproveStamp, ApprovePause, Decide, Execute, ExecuteAborts,
         Verify, Complete
<1> QED BY <1>1 DEF NoActionCategory, HasFallback, ForbiddenHere

\* Each node hands the next one what it relies on.
LEMMA StageStep ==
  ASSUME IInv, [Next]_vars
  PROVE  StageInv'
<1> USE DEF IInv, StageInv, AfterPhase, Finish, hypothesisVars, loopVars, approvalVars,
            historyVars
<1>1. CASE Triage
  BY <1>1, ThresholdAssumption DEF Triage
<1>2. CASE Investigate
  BY <1>2 DEF Investigate
<1>3. CASE Hypothesize
  BY <1>3, ThresholdAssumption DEF Hypothesize, AfterHypothesize, NotRefined, Refined
<1>4. CASE Propose
  BY <1>4 DEF Propose
<1>5. CASE ApproveSettled
  BY <1>5 DEF ApproveSettled, TypeOK
<1>6. CASE ApproveStamp
  BY <1>6 DEF ApproveStamp
<1>7. CASE ApprovePause
  BY <1>7 DEF ApprovePause
<1>8. CASE Decide
  BY <1>8 DEF Decide
<1>9. CASE Execute
  BY <1>9 DEF Execute, HasWork, ProposalInv
<1>10. CASE ExecuteAborts
  BY <1>10 DEF ExecuteAborts, DeclaredTier
<1>11. CASE Verify
  BY <1>11, ThresholdAssumption DEF Verify, TypeOK
<1>12. CASE Complete
  BY <1>12 DEF Complete
<1>13. CASE UNCHANGED vars
  BY <1>13 DEF vars
<1> QED
  BY <1>1, <1>2, <1>3, <1>4, <1>5, <1>6, <1>7, <1>8, <1>9, <1>10, <1>11, <1>12, <1>13
  DEF Next, GraphStep, Finished

-----------------------------------------------------------------------------
\* Only execute_node adds to executed_actions, one record of a guarded proposal.
LEMMA ExecutedGrows ==
  ASSUME IInv, [Next]_vars
  PROVE  \/ UNCHANGED executed /\ (attempts' = attempts \/ attempts' = attempts + 1 \/ Triage)
         \/ /\ node = "execute" /\ HasWork /\ ~ExecutorRaises
            /\ UNCHANGED <<granted, proposal>> /\ attempts' = attempts + 1
            /\ \E r \in ExecutorResults(proposal.tool) : executed' = Append(executed, Record(r))
<1>1. CASE Execute
  BY <1>1 DEF Execute, approvalVars
<1>2. CASE \/ Investigate \/ Hypothesize \/ Propose \/ ApproveSettled \/ ApproveStamp
           \/ ApprovePause \/ Decide \/ ExecuteAborts \/ Verify \/ Complete
  BY <1>2 DEF Investigate, Hypothesize, Propose, ApproveSettled, ApproveStamp, ApprovePause,
              Decide, ExecuteAborts, Verify, Complete
<1>3. CASE Triage
  BY <1>3 DEF Triage
<1>4. CASE UNCHANGED vars
  BY <1>4 DEF vars
<1> QED BY <1>1, <1>2, <1>3, <1>4 DEF Next, GraphStep, Finished

\* A decision on record stays.
LEMMA GrantedStays ==
  ASSUME IInv, [Next]_vars
  PROVE  granted = "unset" \/ granted' = granted
<1>1. CASE Decide
  BY <1>1 DEF Decide, IInv, StageInv
<1>2. CASE GraphStep
  BY <1>2 DEF GraphStep, Triage, Investigate, Hypothesize, Propose, ApproveSettled, ApproveStamp,
              ApprovePause, Execute, ExecuteAborts, Verify, Complete, approvalVars
<1>3. CASE UNCHANGED vars
  BY <1>3 DEF vars, approvalVars
<1> QED BY <1>1, <1>2, <1>3 DEF Next, Finished

\* The guards of propose_node carry over from the proposal to the records.
LEMMA ExecutedStep ==
  ASSUME IInv, [Next]_vars
  PROVE  /\ ForbiddenNeverDispatched' /\ MutatingAtMostOnce'
         /\ AttemptsBounded' /\ DeclaredTier2NeedsGrant'
<1> USE DEF IInv, TypeOK
<1> HIDE DEF Calls
<1>1. CASE UNCHANGED executed
  <2>1. ForbiddenNeverDispatched' /\ MutatingAtMostOnce'
    BY <1>1, AlertFixed DEF ForbiddenNeverDispatched, MutatingAtMostOnce
  <2>2. DeclaredTier2NeedsGrant'
    BY <1>1, GrantedStays DEF DeclaredTier2NeedsGrant
  <2>3. AttemptsBounded'
    <3>1. CASE Triage
      BY <1>1, <3>1, ThresholdAssumption DEF Triage, AttemptsBounded, StageInv
    <3>2. CASE Execute
      BY <1>1, <3>2, ThresholdAssumption DEF Execute, HasWork, AttemptsBounded
    <3>3. CASE UNCHANGED attempts
      BY <1>1, <3>3 DEF AttemptsBounded
    <3> QED
      BY <3>1, <3>2, <3>3
      DEF Next, GraphStep, Finished, vars, Investigate, Hypothesize, Propose, ApproveSettled,
          ApproveStamp, ApprovePause, Decide, ExecuteAborts, Verify, Complete
  <2> QED BY <2>1, <2>2, <2>3
<1>2. ASSUME node = "execute", HasWork, ~ExecutorRaises,
             UNCHANGED <<granted, proposal>>, attempts' = attempts + 1,
             NEW r \in ExecutorResults(proposal.tool), executed' = Append(executed, Record(r))
      PROVE  /\ ForbiddenNeverDispatched' /\ MutatingAtMostOnce'
             /\ AttemptsBounded' /\ DeclaredTier2NeedsGrant'
  <2>1. /\ Record(r).tool = proposal.tool /\ Record(r).tier = proposal.tier
    BY DEF Record
  <2>2. /\ DOMAIN executed' = 1..(Len(executed) + 1) /\ DOMAIN executed = 1..Len(executed)
        /\ Len(executed') = Len(executed) + 1 /\ Len(executed) \in Nat
        /\ executed'[Len(executed) + 1] = Record(r)
        /\ \A i \in 1..Len(executed) : executed'[i] = executed[i]
    BY <1>2
  <2>3. ForbiddenNeverDispatched'
    BY <1>2, <2>1, <2>2, AlertFixed DEF ForbiddenNeverDispatched, ProposalInv
  <2>4. MutatingAtMostOnce'
    BY <1>2, <2>1, <2>2 DEF MutatingAtMostOnce, ProposalInv
  <2>5. AttemptsBounded'
    BY <1>2, <2>2, ThresholdAssumption DEF AttemptsBounded, HasWork
  <2>6. DeclaredTier2NeedsGrant'
    BY <1>2, <2>1, <2>2 DEF DeclaredTier2NeedsGrant, ProposalInv, ExecutorRaises
  <2> QED BY <2>3, <2>4, <2>5, <2>6
<1> QED BY <1>1, <1>2, ExecutedGrows

-----------------------------------------------------------------------------
\* propose_node lets through only what its guards accept; no later node changes it.
LEMMA ProposalStep ==
  ASSUME IInv, [Next]_vars
  PROVE  ProposalInv'
<1> USE DEF IInv, TypeOK, AfterPhase, Finish
<1> HIDE DEF Calls
<1>1. CASE Propose
  <2> SUFFICES ASSUME node' \in {"approve", "execute", "waiting"}
               PROVE  ProposalInv'
    BY DEF ProposalInv
  <2>1. PICK answer \in LLMAnswers \cup {NoCall} :
          /\ Proposable(Candidate(answer))
          /\ proposal' = ClampNamespace(Candidate(answer))
          /\ needsHuman' = (Candidate(answer).tier >= 2)
    BY <1>1 DEF Propose
  <2> DEFINE c == Candidate(answer)
  <2>2. c \in Calls /\ c.tool \notin ForbiddenHere
    BY <2>1, CandidateAllowed DEF Proposable
  <2>3. proposal'.tool = c.tool /\ proposal'.tier = c.tier
    BY <2>1, <2>2, ClampKeepsTool
  <2>4. proposal' # NoCall
    BY <2>1, <2>3, TablesAssumption DEF Proposable, SatisfiesSchema, NoCall, ClampNamespace
  <2>5. c.tool \in MutatingTools => \A i \in DOMAIN executed : executed[i].tool # c.tool
    BY <2>1 DEF Proposable, AlreadyExecuted
  <2>6. UNCHANGED executed
    BY <1>1 DEF Propose
  <2> QED BY <2>1, <2>2, <2>3, <2>4, <2>5, <2>6, AlertFixed DEF ProposalInv
<1>2. CASE ApproveSettled \/ ApproveStamp \/ ApprovePause \/ Decide
  <2>1. UNCHANGED <<proposal, needsHuman, executed>> /\ node \in {"approve", "waiting"}
    BY <1>2 DEF ApproveSettled, ApproveStamp, ApprovePause, Decide
  <2> QED BY <2>1, AlertFixed DEF ProposalInv
<1>3. CASE \/ Triage \/ Investigate \/ Hypothesize \/ Execute \/ ExecuteAborts \/ Verify
           \/ Complete
  <2>1. node' \notin {"approve", "execute", "waiting"}
    BY <1>3 DEF Triage, Investigate, Hypothesize, AfterHypothesize, Execute, ExecuteAborts,
                Verify, Complete
  <2> QED BY <2>1 DEF ProposalInv
<1>4. CASE UNCHANGED vars
  BY <1>4, AlertFixed DEF ProposalInv, vars
<1> QED BY <1>1, <1>2, <1>3, <1>4 DEF Next, GraphStep, Finished

\* A no-action alert goes from triage to the end and touches nothing on the way.
LEMMA NoActionStep ==
  ASSUME IInv, [Next]_vars
  PROVE  NoActionInv' /\ NoActionUntouched'
<1> SUFFICES ASSUME NoActionCategory
             PROVE  /\ node' \in {"triage", "complete", "end"} /\ ~needsHuman'
                    /\ executed' = <<>> /\ direct' = {} /\ iters' = 0 /\ ~requested'
  BY AlertFixed DEF NoActionInv, NoActionUntouched
<1>1. /\ node \in {"triage", "complete", "end"} /\ ~needsHuman
      /\ executed = <<>> /\ direct = {} /\ iters = 0 /\ ~requested
  BY DEF IInv, NoActionInv, NoActionUntouched
<1>2. CASE Triage
  BY <1>1, <1>2 DEF Triage, Finish, approvalVars, historyVars
<1>3. CASE Complete
  BY <1>1, <1>3 DEF Complete, loopVars, approvalVars, historyVars
<1>4. CASE UNCHANGED vars
  BY <1>1, <1>4 DEF vars, loopVars, approvalVars, historyVars
<1> QED
  BY <1>1, <1>2, <1>3, <1>4
  DEF Next, GraphStep, Finished, Investigate, Hypothesize, Propose, ApproveSettled,
      ApproveStamp, ApprovePause, Decide, Execute, ExecuteAborts, Verify

\* complete_node is the only way to "end", and it gives a verdict that fits the history.
LEMMA CompletedStep ==
  ASSUME IInv, [Next]_vars
  PROVE  CompletedIsTerminal'
<1> USE DEF IInv
<1>1. CASE Complete
  <2>1. /\ node = "complete" /\ status' = FinalStatus /\ UNCHANGED <<executed, attempts>>
        /\ ~(needsHuman /\ granted = "unset")
    BY <1>1 DEF Complete, StageInv
  <2>2. executed # <<>> => attempts > 0
    BY DEF AttemptsBounded, TypeOK
  <2>3. CASE \E i \in DOMAIN executed : executed[i].success
    BY <2>1, <2>2, <2>3 DEF CompletedIsTerminal, FinalStatus
  <2>4. CASE ~\E i \in DOMAIN executed : executed[i].success
    BY <2>1, <2>2, <2>4 DEF CompletedIsTerminal, FinalStatus
  <2> QED BY <2>3, <2>4
<1>2. CASE UNCHANGED vars
  BY <1>2 DEF vars, CompletedIsTerminal
<1>3. CASE Next /\ ~Complete /\ ~UNCHANGED vars
  <2>1. node' # "end"
    BY <1>3
    DEF Next, GraphStep, Finished, Triage, Investigate, Hypothesize, AfterHypothesize, Propose,
        ApproveSettled, ApproveStamp, ApprovePause, Decide, Execute, ExecuteAborts, Verify,
        AfterPhase
  <2> QED BY <2>1 DEF CompletedIsTerminal
<1> QED BY <1>1, <1>2, <1>3

-----------------------------------------------------------------------------
\* The graph keeps IInv, whatever the language model, the tools and the operator do.
THEOREM Invariance == Spec => []IInv
<1>1. Init => IInv
  BY InitInv
<1>2. IInv /\ [Next]_vars => IInv'
  BY TypeStep, LoopStep, StageStep, ExecutedStep, ProposalStep, NoActionStep, CompletedStep
  DEF IInv
<1> QED BY <1>1, <1>2, PTL DEF Spec

\* The update every node returns is a well-typed AgentState.
THEOREM TypeCorrect == Spec => []TypeOK
<1>1. IInv => TypeOK
  BY DEF IInv
<1> QED BY <1>1, Invariance, PTL

\* propose_node's category check: a forbidden tool never reaches SafeExecutor.
THEOREM NeverForbidden == Spec => []ForbiddenNeverDispatched
<1>1. IInv => ForbiddenNeverDispatched
  BY DEF IInv
<1> QED BY <1>1, Invariance, PTL

\* is_action_already_executed: a mutating tool reaches SafeExecutor at most once.
THEOREM AtMostOnce == Spec => []MutatingAtMostOnce
<1>1. IInv => MutatingAtMostOnce
  BY DEF IInv
<1> QED BY <1>1, Invariance, PTL

\* The retry budget holds for every MaxActionAttempts.
THEOREM FiniteRetries == Spec => []AttemptsBounded
<1>1. IInv => AttemptsBounded
  BY DEF IInv
<1> QED BY <1>1, Invariance, PTL

\* The investigation loop's true length, for every configured budget.
THEOREM LoopBound == Spec => []InvestigationsBounded
<1>1. IInv => InvestigationsBounded
  BY DEF IInv, LoopInv, InvestigationsBounded
<1> QED BY <1>1, Invariance, PTL

\* No declared Tier-2 call runs in an incident no human granted.
THEOREM DeclaredTier2Gated == Spec => []DeclaredTier2NeedsGrant
<1>1. IInv => DeclaredTier2NeedsGrant
  BY DEF IInv
<1> QED BY <1>1, Invariance, PTL

\* What approve_incident finds in a paused incident.
THEOREM PausedAnswerable == Spec => []PausedIsAnswerable
<1>1. IInv => PausedIsAnswerable
  BY DEF IInv, StageInv, ProposalInv, PausedIsAnswerable
<1> QED BY <1>1, Invariance, PTL

\* An incident that reaches the end has an honest terminal status.
THEOREM HonestOutcome == Spec => []CompletedIsTerminal
<1>1. IInv => CompletedIsTerminal
  BY DEF IInv
<1> QED BY <1>1, Invariance, PTL

\* A no-action alert is left alone.
THEOREM NoActionLeftAlone == Spec => []NoActionUntouched
<1>1. IInv => NoActionUntouched
  BY DEF IInv
<1> QED BY <1>1, Invariance, PTL

\* After a denial nothing is executed and the denial is not forgotten.
THEOREM DenialIsFinal == Spec => DeniedNeverExecutes
<1>1. IInv /\ [Next]_vars =>
        [granted = "no" => UNCHANGED <<executed, attempts, granted>>]_vars
  <2> SUFFICES ASSUME IInv, Next, granted = "no"
               PROVE  UNCHANGED <<executed, attempts, granted>>
    OBVIOUS
  <2>1. node \in {"complete", "end"}
    BY DEF IInv, StageInv
  <2> QED
    BY <2>1
    DEF Next, GraphStep, Finished, vars, Triage, Investigate, Hypothesize, Propose,
        ApproveSettled, ApproveStamp, ApprovePause, Decide, Execute, ExecuteAborts, Verify,
        Complete, approvalVars
<1> QED BY <1>1, Invariance, PTL DEF Spec, DeniedNeverExecutes

-----------------------------------------------------------------------------
\* An attempt only adds to what was won.
LEMMA WonGrows ==
  ASSUME IInv, [Next]_vars
  PROVE  Won' \in {Won, TRUE} /\ (UNCHANGED executed => Won' = Won)
<1>1. CASE UNCHANGED executed
  BY <1>1 DEF Won
<1>2. ASSUME NEW r \in ExecutorResults(proposal.tool), executed' = Append(executed, Record(r))
      PROVE  Won => Won'
  <2>1. /\ DOMAIN executed = 1..Len(executed)
        /\ DOMAIN executed' = 1..(Len(executed) + 1) /\ Len(executed) \in Nat
        /\ \A i \in 1..Len(executed) : executed'[i] = executed[i]
    BY <1>2 DEF IInv, TypeOK
  <2> QED BY <2>1 DEF Won
<1>3. Won \in BOOLEAN /\ Won' \in BOOLEAN
  BY DEF Won
<1> QED BY <1>1, <1>2, <1>3, ExecutedGrows

\* Every step of the graph is a step of the ticket, or none.
LEMMA TicketStep ==
  ASSUME IInv, [Next]_vars
  PROVE  [Ticket!Next]_Ticket!vars
<1> DEFINE stage == IF node = "waiting" THEN "asked" ELSE IF Over THEN "closed" ELSE "open"
           outcome == IF node = "end" THEN status ELSE "running"
<1> USE DEF Over, Ticket!vars
<1>1. CASE Triage
  <2>1. attempts' = attempts /\ UNCHANGED <<granted, executed>> /\ stage' = stage /\ outcome' = outcome
    BY <1>1 DEF Triage, IInv, StageInv, approvalVars
  <2> QED BY <2>1, WonGrows
<1>2. CASE Investigate \/ Hypothesize \/ Propose \/ ApproveSettled \/ ApproveStamp \/ Verify
  <2>1. UNCHANGED <<attempts, granted, executed>>
    BY <1>2 DEF Investigate, Hypothesize, Propose, ApproveSettled, ApproveStamp, Verify, approvalVars
  <2>2. node \notin {"waiting", "end", "aborted"} /\ node' \notin {"waiting", "end", "aborted"}
    BY <1>2 DEF Investigate, Hypothesize, AfterHypothesize, Propose, ApproveSettled, ApproveStamp,
                Verify, AfterPhase
  <2> QED BY <2>1, <2>2, WonGrows
<1>3. CASE ApprovePause
  <2>1. UNCHANGED <<attempts, granted, executed, status>>
    BY <1>3 DEF ApprovePause, approvalVars
  <2>2. Ticket!Ask
    BY <1>3, <2>1, WonGrows DEF ApprovePause, IInv, StageInv, Ticket!Ask
  <2> QED BY <2>2 DEF Ticket!Next
<1>4. CASE Decide
  <2>1. UNCHANGED <<attempts, executed>> /\ node' \in {"execute", "complete"}
        /\ granted' \in {"yes", "no"}
    BY <1>4 DEF Decide, AfterPhase, Finish
  <2>2. Ticket!Answer
    BY <1>4, <2>1, WonGrows DEF Decide, Ticket!Answer
  <2> QED BY <2>2 DEF Ticket!Next
<1>5. CASE Execute
  <2>1. node = "execute" /\ node' = "verify" /\ UNCHANGED <<granted, proposal>>
    BY <1>5 DEF Execute, approvalVars
  <2>2. CASE HasWork
    <3>1. attempts' = attempts + 1 /\ attempts < MaxActionAttempts
      BY <1>5, <2>2 DEF Execute, HasWork
    <3>2. granted # "no"
      BY <2>1 DEF IInv, StageInv
    <3>3. Ticket!Try
      BY <2>1, <3>1, <3>2, WonGrows DEF Ticket!Try
    <3> QED BY <3>3 DEF Ticket!Next
  <2>3. CASE ~HasWork
    BY <1>5, <2>1, <2>3, WonGrows DEF Execute
  <2> QED BY <2>2, <2>3
<1>6. CASE ExecuteAborts
  <2>1. UNCHANGED <<attempts, granted, executed>> /\ node = "execute" /\ node' = "aborted"
        /\ attempts < MaxActionAttempts
    BY <1>6 DEF ExecuteAborts, approvalVars, HasWork
  <2>2. granted = "unset"
    BY <1>6 DEF ExecuteAborts, DeclaredTier, IInv, TypeOK, StageInv
  <2>3. Ticket!Abandon
    BY <2>1, <2>2, WonGrows DEF Ticket!Abandon
  <2> QED BY <2>3 DEF Ticket!Next
<1>7. CASE Complete
  <2>1. UNCHANGED <<attempts, granted, executed>> /\ node = "complete" /\ node' = "end"
        /\ status' = FinalStatus
    BY <1>7 DEF Complete, approvalVars
  <2>2. CompletedIsTerminal'
    BY CompletedStep
  <2>3. Ticket!Close
    BY <2>1, <2>2, WonGrows DEF CompletedIsTerminal, Won, Ticket!Close, IInv, TypeOK
  <2> QED BY <2>3 DEF Ticket!Next
<1>8. CASE UNCHANGED vars
  BY <1>8, WonGrows DEF vars, approvalVars
<1> QED
  BY <1>1, <1>2, <1>3, <1>4, <1>5, <1>6, <1>7, <1>8 DEF Next, GraphStep, Finished

\* The graph implements the abstract incident, for every value of the constants.
THEOREM Refinement == Spec => ImplementsTicket
<1>1. Init => Ticket!Init
  BY DEF Init, Ticket!Init, Won, Over
<1>2. IInv /\ [Next]_vars => [Ticket!Next]_Ticket!vars
  BY TicketStep
<1> QED BY <1>1, <1>2, Invariance, PTL DEF Spec, ImplementsTicket, Ticket!Spec

-----------------------------------------------------------------------------
\* Every step of the graph moves its checkpoint along IncidentWalk, or not at all.
LEMMA WalkStep ==
  ASSUME IInv, [Next]_vars
  PROVE  \/ Checkpoint' = Checkpoint
         \/ \E answer \in Walk!Answers : Checkpoint' \in Walk!Onward(Checkpoint, answer)
<1> DEFINE Place == IF node \in {"triage", "investigate", "hypothesize", "propose"} THEN "work"
                    ELSE IF node = "waiting" THEN "approve"
                    ELSE IF node = "aborted" THEN "execute" ELSE node
           At(p, n, g, m, t) == [at |-> p, needs |-> n, granted |-> g, stamped |-> m, tries |-> t]
<1> USE DEF Walk!Answers, Walk!Onward
<1>a. Checkpoint = At(Place, needsHuman, granted, requested, attempts)
  BY DEF Checkpoint
<1>b. Checkpoint' = At(Place', needsHuman', granted', requested', attempts')
  BY DEF Checkpoint
<1>c. "unset" \in Walk!Answers
  OBVIOUS
<1>1. CASE Triage
  <2>1. /\ node = "triage" /\ node' \in {"complete", "investigate"} /\ attempts' = attempts
        /\ UNCHANGED <<needsHuman, granted, requested>>
    BY <1>1 DEF Triage, approvalVars, IInv, StageInv
  <2>2. CASE node' = "investigate"
    BY <1>a, <1>b, <2>1, <2>2
  <2>3. CASE node' = "complete"
    <3>1. Checkpoint' \in Walk!Proposed(Checkpoint)
      BY <1>a, <1>b, <2>1, <2>3 DEF Walk!Proposed, Walk!To
    <3> QED BY <1>a, <1>c, <2>1, <3>1
  <2> QED BY <2>1, <2>2, <2>3
<1>2. CASE Investigate \/ Hypothesize
  <2>1. /\ node \in {"investigate", "hypothesize"}
        /\ node' \in {"investigate", "hypothesize", "propose"}
        /\ UNCHANGED <<attempts, needsHuman, granted, requested>>
    BY <1>2 DEF Investigate, Hypothesize, AfterHypothesize, approvalVars
  <2> QED BY <1>a, <1>b, <2>1
<1>3. CASE Propose
  <2>1. /\ node = "propose" /\ attempts < MaxActionAttempts
        /\ UNCHANGED <<attempts, granted, requested>>
    BY <1>3 DEF Propose, approvalVars, IInv, StageInv
  <2>2. \/ node' = "complete" /\ UNCHANGED needsHuman
        \/ node' = "approve" /\ needsHuman' = TRUE
        \/ node' = "execute" /\ needsHuman' = FALSE
    BY <1>3 DEF Propose, AfterPhase, Finish, NeedsApproval
  <2>3. \/ Checkpoint' = [Checkpoint EXCEPT !.at = "complete"]
        \/ Checkpoint' = [[Checkpoint EXCEPT !.needs = TRUE] EXCEPT !.at = "approve"]
        \/ Checkpoint' = [[Checkpoint EXCEPT !.needs = FALSE] EXCEPT !.at = "execute"]
    <3>1. CASE node' = "complete" /\ UNCHANGED needsHuman
      BY <1>a, <1>b, <2>1, <3>1
    <3>2. CASE node' = "approve" /\ needsHuman' = TRUE
      <4>1. [Checkpoint EXCEPT !.needs = needsHuman'] =
              At(Place, needsHuman', granted, requested, attempts)
        BY DEF Checkpoint
      <4>2. [At(Place, needsHuman', granted, requested, attempts) EXCEPT !.at = "approve"] =
              At("approve", needsHuman', granted, requested, attempts)
        OBVIOUS
      <4>3. Checkpoint' = At("approve", needsHuman', granted, requested, attempts)
        BY <1>b, <2>1, <3>2
      <4> QED BY <3>2, <4>1, <4>2, <4>3, Zenon
    <3>3. CASE node' = "execute" /\ needsHuman' = FALSE
      <4>1. [Checkpoint EXCEPT !.needs = needsHuman'] =
              At(Place, needsHuman', granted, requested, attempts)
        BY DEF Checkpoint
      <4>2. [At(Place, needsHuman', granted, requested, attempts) EXCEPT !.at = "execute"] =
              At("execute", needsHuman', granted, requested, attempts)
        OBVIOUS
      <4>3. Checkpoint' = At("execute", needsHuman', granted, requested, attempts)
        BY <1>b, <2>1, <3>3
      <4> QED BY <3>3, <4>1, <4>2, <4>3, Zenon
    <3> QED BY <2>2, <3>1, <3>2, <3>3
  <2>4. Checkpoint.tries < MaxActionAttempts
    BY <1>a, <2>1
  <2>5. Checkpoint' \in Walk!Proposed(Checkpoint)
    BY <2>3, <2>4 DEF Walk!Proposed, Walk!To, Walk!TriesLeft
  <2> QED BY <1>a, <1>c, <2>1, <2>5
<1>4. CASE ApproveSettled
  <2>1. /\ node = "approve" /\ ~(needsHuman /\ granted = "unset")
        /\ node' = IF needsHuman /\ granted = "no" THEN "complete" ELSE "execute"
        /\ UNCHANGED <<attempts, needsHuman, granted, requested>>
    BY <1>4 DEF ApproveSettled, Undecided, AfterPhase, Finish, approvalVars
  <2>2. Checkpoint' \in Walk!Approved(Checkpoint, "unset")
    BY <1>a, <1>b, <2>1 DEF Walk!Approved, Walk!Awaiting, Walk!To
  <2> QED BY <1>a, <1>c, <2>1, <2>2
<1>5. CASE ApproveStamp
  <2>1. /\ node = "approve" /\ needsHuman /\ granted = "unset" /\ ~requested
        /\ node' = "approve" /\ requested' = TRUE
        /\ UNCHANGED <<attempts, needsHuman, granted>>
    BY <1>5 DEF ApproveStamp, Undecided, AfterPhase
  <2>2. Checkpoint.needs /\ Checkpoint.granted = "unset" /\ ~Checkpoint.stamped
    BY <1>a, <2>1
  <2>3. Checkpoint' = [Checkpoint EXCEPT !.stamped = TRUE]
    <3>1. [Checkpoint EXCEPT !.stamped = requested'] =
            At(Place, needsHuman, granted, requested', attempts)
      BY DEF Checkpoint
    <3>2. Checkpoint' = At(Place, needsHuman, granted, requested', attempts)
      BY <1>b, <2>1
    <3> QED BY <2>1, <3>1, <3>2, Zenon
  <2>4. Checkpoint' \in Walk!Approved(Checkpoint, "unset")
    BY <2>2, <2>3 DEF Walk!Approved, Walk!Awaiting
  <2> QED BY <1>a, <1>c, <2>1, <2>4
<1>6. CASE ApprovePause \/ ExecuteAborts \/ UNCHANGED vars
  <2>1. UNCHANGED <<attempts, needsHuman, granted, requested>> /\ Place' = Place
    BY <1>6 DEF ApprovePause, ExecuteAborts, vars, approvalVars
  <2> QED BY <1>a, <1>b, <2>1
<1>7. CASE Decide
  <2>1. /\ node = "waiting" /\ needsHuman /\ granted = "unset" /\ requested = TRUE
        /\ UNCHANGED <<attempts, needsHuman, requested>>
    BY <1>7 DEF Decide, IInv, StageInv, TypeOK
  <2>2. /\ granted' \in {"yes", "no"}
        /\ node' = IF granted' = "yes" THEN "execute" ELSE "complete"
    BY <1>7 DEF Decide, Denied, Finish, AfterPhase
  <2>3. Checkpoint.needs /\ Checkpoint.granted = "unset" /\ Checkpoint.stamped
    BY <1>a, <2>1
  <2>4. Checkpoint' = [[Checkpoint EXCEPT !.at = node'] EXCEPT !.granted = granted']
    <3>1. [Checkpoint EXCEPT !.at = node'] =
            At(node', needsHuman, granted, requested, attempts)
      BY DEF Checkpoint
    <3>2. [At(node', needsHuman, granted, requested, attempts) EXCEPT !.granted = granted'] =
            At(node', needsHuman, granted', requested, attempts)
      OBVIOUS
    <3>3. Checkpoint' = At(node', needsHuman, granted', requested, attempts)
      BY <1>b, <2>1, <2>2
    <3> QED BY <3>1, <3>2, <3>3, Zenon
  <2>5. Checkpoint' \in Walk!Approved(Checkpoint, granted')
    BY <2>2, <2>3, <2>4 DEF Walk!Approved, Walk!Awaiting, Walk!Decided, Walk!To
  <2> QED BY <1>a, <2>1, <2>2, <2>5
<1>8. CASE Execute
  <2>1. /\ node = "execute" /\ node' = "verify" /\ attempts < MaxActionAttempts
        /\ attempts' \in {attempts, attempts + 1}
        /\ UNCHANGED <<needsHuman, granted, requested>>
    BY <1>8 DEF Execute, AttemptCounted, approvalVars, IInv, StageInv
  <2>2. Checkpoint.tries = attempts
    BY <1>a
  <2>3. \/ Checkpoint' = [Checkpoint EXCEPT !.at = "verify"]
        \/ Checkpoint' = [[Checkpoint EXCEPT !.at = "verify"] EXCEPT !.tries = attempts + 1]
    <3>1. CASE attempts' = attempts
      BY <1>a, <1>b, <2>1, <3>1
    <3>2. CASE attempts' = attempts + 1
      <4>1. [Checkpoint EXCEPT !.at = "verify"] =
              At("verify", needsHuman, granted, requested, attempts)
        BY DEF Checkpoint
      <4>2. [At("verify", needsHuman, granted, requested, attempts) EXCEPT !.tries = attempts + 1] =
              At("verify", needsHuman, granted, requested, attempts + 1)
        OBVIOUS
      <4>3. Checkpoint' = At("verify", needsHuman, granted, requested, attempts + 1)
        BY <1>b, <2>1, <3>2
      <4> QED BY <4>1, <4>2, <4>3, Zenon
    <3> QED BY <2>1, <3>1, <3>2
  <2>4. Checkpoint' \in Walk!Executed(Checkpoint)
    BY <2>1, <2>2, <2>3 DEF Walk!Executed, Walk!Counted, Walk!TriesLeft, Walk!To
  <2> QED BY <1>a, <1>c, <2>1, <2>4
<1>9. CASE Verify
  <2>1. /\ node = "verify" /\ UNCHANGED <<attempts, needsHuman, granted, requested>>
        /\ node' = "complete" \/ (node' = "propose" /\ attempts < MaxActionAttempts)
    BY <1>9 DEF Verify, Finish, AfterPhase, AttemptsLeft, approvalVars
  <2>2. Checkpoint' \in Walk!Verified(Checkpoint)
    BY <1>a, <1>b, <2>1 DEF Walk!Verified, Walk!TriesLeft, Walk!To
  <2> QED BY <1>a, <1>c, <2>1, <2>2
<1>10. CASE Complete
  <2>1. /\ node = "complete" /\ node' = "end"
        /\ UNCHANGED <<attempts, needsHuman, granted, requested>>
    BY <1>10 DEF Complete, approvalVars
  <2> QED BY <1>a, <1>b, <1>c, <2>1 DEF Walk!To
<1> QED
  BY <1>1, <1>2, <1>3, <1>4, <1>5, <1>6, <1>7, <1>8, <1>9, <1>10
  DEF Next, GraphStep, Finished

\* IncidentRunner's stand-in for the graph is sound: every checkpoint the graph can write
\* after another is one IncidentWalk lets it write.
THEOREM WalksAsAssumed == Spec => WalksAsRunnerAssumes
<1>1. IInv /\ [Next]_vars =>
        [ \/ Checkpoint' = Checkpoint
          \/ \E answer \in Walk!Answers : Checkpoint' \in Walk!Onward(Checkpoint, answer) ]_vars
  BY WalkStep
<1> QED BY <1>1, Invariance, PTL DEF Spec, WalksAsRunnerAssumes

-----------------------------------------------------------------------------
\* What is left of an incident: the attempts and investigations its budgets still allow,
\* and how far the node about to run is from the end within one attempt.
Rank ==
  CASE node = "triage" -> 9
    [] node = "hypothesize" -> 8
    [] node \in {"investigate", "verify"} -> 7
    [] node = "propose" -> 6
    [] node = "approve" -> IF requested THEN 4 ELSE 5
    [] node = "waiting" -> 3
    [] node = "execute" -> 2
    [] node = "complete" -> 1
    [] OTHER -> 0
StepsLeft ==
  8 * (MaxActionAttempts - attempts) + 2 * (MaxInvestigations - iters) + Rank

\* The router's arithmetic bounds the investigations by a number.
LEMMA MaxInvestigationsNat == MaxInvestigations \in Nat
  BY ThresholdAssumption DEF MaxInvestigations

\* Neither budget is ever overdrawn, so what is left is a number.
LEMMA StepsLeftNat ==
  ASSUME IInv
  PROVE  StepsLeft \in Nat
<1>1. Rank \in Nat
  BY DEF Rank
<1>2. attempts \in Nat /\ attempts <= MaxActionAttempts
  BY DEF IInv, TypeOK, AttemptsBounded
<1>3. iters \in Nat /\ iters <= MaxInvestigations
  BY DEF IInv, TypeOK, LoopInv
<1> QED BY <1>1, <1>2, <1>3, MaxInvestigationsNat, ThresholdAssumption DEF StepsLeft

\* The two budgets untouched, the place decides.
LEMMA PlaceDecides ==
  ASSUME IInv, attempts' = attempts, iters' = iters, Rank \in Nat, Rank' \in Nat, Rank' < Rank
  PROVE  StepsLeft' < StepsLeft
<1>1. attempts \in Nat /\ iters \in Nat
  BY DEF IInv, TypeOK
<1>2. MaxActionAttempts \in Nat /\ MaxInvestigations \in Nat
  BY MaxInvestigationsNat, ThresholdAssumption
<1>3. PICK b \in Int : b = 8 * (MaxActionAttempts - attempts) + 2 * (MaxInvestigations - iters)
  BY <1>1, <1>2
<1>4. StepsLeft = b + Rank /\ StepsLeft' = b + Rank'
  BY <1>3 DEF StepsLeft
<1> QED BY <1>3, <1>4

\* Every node uses something up: an attempt, an investigation, or a place in the graph.
LEMMA StepsLeftStep ==
  ASSUME IInv, Next, vars' # vars
  PROVE  StepsLeft' < StepsLeft
<1>1. attempts \in Nat /\ iters \in Nat
  BY DEF IInv, TypeOK
<1>2. MaxActionAttempts \in Nat /\ MaxInvestigations \in Nat
  BY MaxInvestigationsNat, ThresholdAssumption
<1> USE DEF AfterPhase, Finish, loopVars, approvalVars
<1>3. CASE Triage
  <2>1. node = "triage" /\ node' \in {"complete", "investigate"}
    BY <1>3 DEF Triage
  <2>2. attempts' = attempts /\ iters' = iters
    BY <1>3 DEF Triage, IInv, StageInv
  <2>3. Rank = 9 /\ Rank' \in 0..7
    BY <2>1 DEF Rank
  <2> QED BY <2>2, <2>3, PlaceDecides
<1>4. CASE Investigate
  <2>1. node = "investigate" /\ node' = "hypothesize"
    BY <1>4 DEF Investigate
  <2>2. attempts' = attempts /\ iters' = iters + 1
    BY <1>4 DEF Investigate
  <2>3. Rank = 7 /\ Rank' = 8
    BY <2>1 DEF Rank
  <2> QED BY <1>1, <1>2, <2>2, <2>3 DEF StepsLeft
<1>5. CASE Hypothesize
  <2>1. node = "hypothesize" /\ node' \in {"investigate", "propose"}
    BY <1>5 DEF Hypothesize, AfterHypothesize
  <2>2. attempts' = attempts /\ iters' = iters
    BY <1>5 DEF Hypothesize
  <2>3. Rank = 8 /\ Rank' \in 0..7
    BY <2>1 DEF Rank
  <2> QED BY <2>2, <2>3, PlaceDecides
<1>6. CASE Propose
  <2>1. node = "propose" /\ node' \in {"approve", "execute", "complete"}
    BY <1>6 DEF Propose
  <2>2. attempts' = attempts /\ iters' = iters
    BY <1>6 DEF Propose
  <2>3. Rank = 6 /\ Rank' \in 0..5
    BY <2>1 DEF Rank
  <2> QED BY <2>2, <2>3, PlaceDecides
<1>7. CASE ApproveSettled
  <2>1. node = "approve" /\ node' \in {"execute", "complete"}
    BY <1>7 DEF ApproveSettled
  <2>2. attempts' = attempts /\ iters' = iters
    BY <1>7 DEF ApproveSettled
  <2>3. Rank \in 4..5 /\ Rank' \in 0..2
    BY <2>1 DEF Rank
  <2> QED BY <2>2, <2>3, PlaceDecides
<1>8. CASE ApproveStamp
  <2>1. node = "approve" /\ node' = "approve" /\ ~requested /\ requested'
    BY <1>8 DEF ApproveStamp
  <2>2. attempts' = attempts /\ iters' = iters
    BY <1>8 DEF ApproveStamp
  <2>3. Rank = 5 /\ Rank' = 4
    BY <2>1 DEF Rank
  <2> QED BY <2>2, <2>3, PlaceDecides
<1>9. CASE ApprovePause
  <2>1. node = "approve" /\ requested /\ node' = "waiting"
    BY <1>9 DEF ApprovePause
  <2>2. attempts' = attempts /\ iters' = iters
    BY <1>9 DEF ApprovePause
  <2>3. Rank = 4 /\ Rank' = 3
    BY <2>1 DEF Rank
  <2> QED BY <2>2, <2>3, PlaceDecides
<1>10. CASE Decide
  <2>1. node = "waiting" /\ node' \in {"execute", "complete"}
    BY <1>10 DEF Decide
  <2>2. attempts' = attempts /\ iters' = iters
    BY <1>10 DEF Decide
  <2>3. Rank = 3 /\ Rank' \in 0..2
    BY <2>1 DEF Rank
  <2> QED BY <2>2, <2>3, PlaceDecides
<1>11. CASE Execute
  <2>1. node = "execute" /\ node' = "verify"
    BY <1>11 DEF Execute
  <2>2. HasWork
    BY <2>1 DEF HasWork, IInv, StageInv, ProposalInv
  <2>3. attempts' = attempts + 1 /\ iters' = iters
    BY <1>11, <2>2 DEF Execute
  <2>4. Rank = 2 /\ Rank' = 7
    BY <2>1 DEF Rank
  <2> QED BY <1>1, <1>2, <2>3, <2>4 DEF StepsLeft
<1>12. CASE ExecuteAborts
  <2>1. node = "execute" /\ node' = "aborted"
    BY <1>12 DEF ExecuteAborts
  <2>2. attempts' = attempts /\ iters' = iters
    BY <1>12 DEF ExecuteAborts
  <2>3. Rank = 2 /\ Rank' = 0
    BY <2>1 DEF Rank
  <2> QED BY <2>2, <2>3, PlaceDecides
<1>13. CASE Verify
  <2>1. node = "verify" /\ node' \in {"propose", "complete"}
    BY <1>13 DEF Verify
  <2>2. attempts' = attempts /\ iters' = iters
    BY <1>13 DEF Verify
  <2>3. Rank = 7 /\ Rank' \in 0..6
    BY <2>1 DEF Rank
  <2> QED BY <2>2, <2>3, PlaceDecides
<1>14. CASE Complete
  <2>1. node = "complete" /\ node' = "end"
    BY <1>14 DEF Complete
  <2>2. attempts' = attempts /\ iters' = iters
    BY <1>14 DEF Complete
  <2>3. Rank = 1 /\ Rank' = 0
    BY <2>1 DEF Rank
  <2> QED BY <2>2, <2>3, PlaceDecides
<1> QED
  BY <1>3, <1>4, <1>5, <1>6, <1>7, <1>8, <1>9, <1>10, <1>11, <1>12, <1>13, <1>14
  DEF Next, GraphStep, Finished

\* The graph cannot go round for ever, whatever the model answers and the tools return:
\* it starts with a number of steps fixed by the two budgets, and every step of a node and
\* every decision of a human uses at least one of them up.  What Terminates adds is that
\* the steps are taken.
THEOREM StepsRunOut ==
  Spec => /\ StepsLeft = 8 * MaxActionAttempts + 2 * MaxInvestigations + 9
          /\ [](StepsLeft \in Nat)
          /\ [][StepsLeft' < StepsLeft]_vars
<1>1. Init => StepsLeft = 8 * MaxActionAttempts + 2 * MaxInvestigations + 9
  <2>1. Init => attempts = 0 /\ iters = 0 /\ Rank = 9
    BY DEF Init, Rank
  <2> QED BY <2>1, MaxInvestigationsNat, ThresholdAssumption DEF StepsLeft
<1>2. IInv => StepsLeft \in Nat
  BY StepsLeftNat
<1>3. IInv /\ [Next]_vars => [StepsLeft' < StepsLeft]_vars
  BY StepsLeftStep
<1> QED BY <1>1, <1>2, <1>3, Invariance, PTL DEF Spec

-----------------------------------------------------------------------------
\* The consent on record and the calls approved belong together, and there is at most one.
OneConsent ==
  /\ granted = "yes" <=> approved # {}
  /\ \A c, d \in approved : c = d

\* Only a decision adds to the calls a human approved.
LEMMA ConsentStep ==
  ASSUME IInv, OneConsent, [Next]_vars
  PROVE  OneConsent'
<1>1. CASE Decide
  <2>1. granted = "unset" /\ approved = {}
    BY <1>1 DEF Decide, IInv, StageInv, OneConsent
  <2>2. \/ granted' = "yes" /\ approved' = {Call(proposal)}
        \/ granted' = "no" /\ approved' = {}
    BY <1>1, <2>1 DEF Decide
  <2> QED BY <2>2 DEF OneConsent
<1>2. CASE GraphStep
  <2>1. UNCHANGED <<granted, approved>>
    BY <1>2 DEF GraphStep, Triage, Investigate, Hypothesize, Propose, ApproveSettled,
                ApproveStamp, ApprovePause, Execute, ExecuteAborts, Verify, Complete,
                approvalVars, historyVars
  <2> QED BY <2>1 DEF OneConsent
<1>3. CASE UNCHANGED vars
  BY <1>3 DEF vars, approvalVars, historyVars, OneConsent
<1> QED BY <1>1, <1>2, <1>3 DEF Next, Finished

\* approve_node never asks twice: one decision of one human, on one call, is all the
\* consent an incident ever gets, and it is on record exactly when it was given.
THEOREM AskedOnce == Spec => []OneConsent
<1>1. Init => OneConsent
  BY DEF Init, OneConsent
<1>2. IInv /\ OneConsent /\ [Next]_vars => OneConsent'
  BY ConsentStep
<1> QED BY <1>1, <1>2, Invariance, PTL DEF Spec

-----------------------------------------------------------------------------
\* No declared tier understates the registered one, neither the model's nor the table's.
HonestTiers ==
  /\ \A a \in LLMAnswers :
       a.tool \in DOMAIN Registered => a.tier >= Registered[a.tool]
  /\ \A c \in DOMAIN Fallback :
       Fallback[c].tool \in DOMAIN Registered => Fallback[c].tier >= Registered[Fallback[c].tool]

\* A proposal on its way, and every record, declares at least its registered tier.
Honest(c) == c.tool \in DOMAIN Registered /\ c.tier >= Registered[c.tool]
HonestInv ==
  /\ node \in {"approve", "execute", "waiting"} => Honest(proposal)
  /\ \A i \in DOMAIN executed : Honest(executed[i])

\* Whichever path built the candidate, its tier is as honest as its source.
LEMMA CandidateHonest ==
  ASSUME TypeOK, HonestTiers, NEW answer \in LLMAnswers \cup {NoCall},
         Candidate(answer).tool \in DOMAIN Registered
  PROVE  Honest(Candidate(answer))
<1>1. NoTool \notin DOMAIN Registered
  BY TablesAssumption
<1>2. CASE answer.tool = NoTool \/ conf < ConfidencePropose \/ answer.tool \in ForbiddenHere
  <2>1. Candidate(answer) = FallbackCall
    BY <1>2 DEF Candidate
  <2>2. FallbackCall # NoCall
    BY <1>1, <2>1 DEF NoCall
  <2>3. /\ alert.category \in DOMAIN Fallback
        /\ FallbackCall.tool = Fallback[alert.category].tool
        /\ FallbackCall.tier = Fallback[alert.category].tier
    BY <2>2 DEF FallbackCall, HasFallback
  <2> QED BY <2>1, <2>3 DEF HonestTiers, Honest
<1>3. CASE ~(answer.tool = NoTool \/ conf < ConfidencePropose \/ answer.tool \in ForbiddenHere)
  <2>1. answer \in LLMAnswers /\ answer \in Calls
    BY <1>3, ModelAssumption DEF NoCall
  <2>2. Candidate(answer).tool = answer.tool /\ Candidate(answer).tier = answer.tier
    BY <1>3, <2>1 DEF Candidate
  <2> QED BY <2>1, <2>2 DEF HonestTiers, Honest
<1> QED BY <1>2, <1>3

\* What propose_node hands on is honest.
LEMMA ProposeHonest ==
  ASSUME IInv, HonestTiers, Propose, node' \in {"approve", "execute", "waiting"}
  PROVE  Honest(proposal')
<1>1. PICK answer \in LLMAnswers \cup {NoCall} :
        /\ Proposable(Candidate(answer))
        /\ proposal' = ClampNamespace(Candidate(answer))
  BY DEF Propose, AfterPhase, Finish
<1> DEFINE c == Candidate(answer)
<1>2. c \in Calls
  BY <1>1, CandidateAllowed DEF Proposable, IInv
<1>3. ClampNamespace(c).tool = c.tool /\ ClampNamespace(c).tier = c.tier
  BY <1>2, ClampKeepsTool
<1>4. c.tool \in DOMAIN Registered
  BY <1>1, <1>3 DEF Proposable, SatisfiesSchema
<1>5. Honest(c)
  BY <1>4, CandidateHonest DEF IInv
<1> QED BY <1>1, <1>3, <1>5 DEF Honest

\* A proposal leaves propose_node as it is until its record is written.
LEMMA ProposalKept ==
  ASSUME IInv, [Next]_vars, ~Propose, node' \in {"approve", "execute", "waiting"}
  PROVE  node \in {"approve", "execute", "waiting"} /\ proposal' = proposal
<1>1. CASE Triage \/ Investigate \/ Hypothesize \/ Verify \/ Complete \/ Execute \/ ExecuteAborts
  BY <1>1 DEF Triage, Investigate, Hypothesize, AfterHypothesize, Verify, Complete, Execute,
              ExecuteAborts, AfterPhase, Finish
<1>2. CASE ApproveSettled \/ ApproveStamp \/ ApprovePause \/ Decide
  BY <1>2 DEF ApproveSettled, ApproveStamp, ApprovePause, Decide
<1>3. CASE UNCHANGED vars
  BY <1>3 DEF vars
<1> QED BY <1>1, <1>2, <1>3 DEF Next, GraphStep, Finished

\* Honesty carries over from the proposal to its record.
LEMMA HonestStep ==
  ASSUME IInv, HonestTiers, HonestInv, [Next]_vars
  PROVE  HonestInv'
<1>1. node' \in {"approve", "execute", "waiting"} => Honest(proposal')
  BY ProposeHonest, ProposalKept DEF HonestInv
<1>2. \A i \in DOMAIN executed' : Honest(executed'[i])
  <2>1. CASE UNCHANGED executed
    BY <2>1 DEF HonestInv
  <2>2. CASE node = "execute"
             /\ \E r \in ExecutorResults(proposal.tool) : executed' = Append(executed, Record(r))
    <3>1. PICK r \in ExecutorResults(proposal.tool) : executed' = Append(executed, Record(r))
      BY <2>2
    <3>2. executed \in Seq(Records)
      BY DEF IInv, TypeOK
    <3>3. Record(r).tool = proposal.tool /\ Record(r).tier = proposal.tier
      BY DEF Record
    <3>4. Honest(Record(r))
      BY <2>2, <3>3 DEF HonestInv, Honest
    <3>5. \A i \in DOMAIN executed' :
            executed'[i] = Record(r) \/ (i \in DOMAIN executed /\ executed'[i] = executed[i])
      BY <3>1, <3>2
    <3> QED BY <3>4, <3>5 DEF HonestInv
  <2> QED BY <2>1, <2>2, ExecutedGrows
<1> QED BY <1>1, <1>2 DEF HonestInv, Honest

\* A record of a tool registered as Tier 2 or above declares as much.
LEMMA HonestAtLeastTwo ==
  ASSUME IInv, HonestInv, NEW i \in DOMAIN executed, Registered[executed[i].tool] >= 2
  PROVE  executed[i].tier >= 2
<1>1. executed[i].tool \in DOMAIN Registered /\ executed[i].tier >= Registered[executed[i].tool]
  BY DEF HonestInv, Honest
<1>2. executed[i] \in Records
  BY DEF IInv, TypeOK
<1>3. executed[i].tier \in Int /\ Registered[executed[i].tool] \in Nat
  BY <1>1, <1>2, TablesAssumption DEF Records
<1> QED BY <1>1, <1>3

\* A tool registered as Tier 2 or above ran only in an incident whose human said yes.
Tier2RanOnConsent ==
  \A i \in DOMAIN executed :
     executed[i].ran /\ Registered[executed[i].tool] >= 2 => approved # {}

\* What is true of "Tier-2 actions always pause for a human" when no declared tier
\* understates the registered one: the incident paused and a human said yes to a call,
\* though not to each.  A model that understates a tier is the one way around the pause.
THEOREM HonestTiersPause == HonestTiers => (Spec => []Tier2RanOnConsent)
<1> SUFFICES ASSUME HonestTiers PROVE Spec => []Tier2RanOnConsent
  OBVIOUS
<1>1. Init => HonestInv
  BY DEF Init, HonestInv
<1>2. IInv /\ HonestInv /\ [Next]_vars => HonestInv'
  BY HonestStep
<1>3. IInv /\ HonestInv /\ OneConsent => Tier2RanOnConsent
  <2> SUFFICES ASSUME IInv, HonestInv, OneConsent, NEW i \in DOMAIN executed,
                      Registered[executed[i].tool] >= 2
               PROVE  approved # {}
    BY DEF Tier2RanOnConsent
  <2>1. executed[i].tier >= 2
    BY HonestAtLeastTwo
  <2> QED BY <2>1 DEF IInv, DeclaredTier2NeedsGrant, OneConsent
<1> QED BY <1>1, <1>2, <1>3, AskedOnce, Invariance, PTL DEF Spec

\* The calls that ran with a tool registered as Tier 2 or above, though no human said yes
\* to them: what Tier2AlwaysPauses says there are none of.
Unasked ==
  {i \in DOMAIN executed : /\ executed[i].ran /\ Registered[executed[i].tool] >= 2
                           /\ Call(executed[i]) \notin approved}
UnaskedBounded == Cardinality(Unasked) < MaxActionAttempts

\* An attempt went to the call that was asked about, whether it left a record or raised.
SpentOnAsked ==
  \/ Len(executed) < attempts
  \/ \E j \in DOMAIN executed : Call(executed[j]) \in approved

\* Consent given is first used on the call it was given for.
AnsweredInv ==
  /\ granted = "yes" => SpentOnAsked \/ (node = "execute" /\ Call(proposal) \in approved)
  /\ \A i \in DOMAIN executed : executed[i].tier >= 2 => SpentOnAsked

\* execute_node is the only way to use an answer, and it counts the attempt.
LEMMA AnsweredStep ==
  ASSUME IInv, OneConsent, AnsweredInv, [Next]_vars
  PROVE  AnsweredInv'
<1> USE DEF AfterPhase, Finish, approvalVars, historyVars
<1>0. /\ executed \in Seq(Records) /\ attempts \in Nat /\ Len(executed) <= attempts
  BY DEF IInv, TypeOK, AttemptsBounded
<1>1. approved \subseteq approved'
  BY DEF Next, GraphStep, Finished, Triage, Investigate, Hypothesize, Propose, ApproveSettled,
         ApproveStamp, ApprovePause, Decide, Execute, ExecuteAborts, Verify, Complete, vars
<1>2. CASE Execute
  <2>1. HasWork
    BY <1>2 DEF Execute, HasWork, IInv, StageInv, ProposalInv
  <2>2. /\ attempts' = attempts + 1 /\ UNCHANGED <<granted, approved>>
        /\ \/ ExecutorRaises /\ executed' = executed
           \/ /\ ~ExecutorRaises
              /\ \E r \in ExecutorResults(proposal.tool) : executed' = Append(executed, Record(r))
    BY <1>2, <2>1 DEF Execute
  <2>3. CASE ExecutorRaises /\ executed' = executed
    <3>1. SpentOnAsked'
      BY <1>0, <2>2, <2>3 DEF SpentOnAsked
    <3> QED BY <3>1 DEF AnsweredInv
  <2>4. ASSUME ~ExecutorRaises, NEW r \in ExecutorResults(proposal.tool),
               executed' = Append(executed, Record(r))
        PROVE  AnsweredInv'
    <3>1. /\ Len(executed') = Len(executed) + 1 /\ executed'[Len(executed) + 1] = Record(r)
          /\ DOMAIN executed' = 1..(Len(executed) + 1)
          /\ \A j \in DOMAIN executed : j \in DOMAIN executed' /\ executed'[j] = executed[j]
          /\ \A j \in DOMAIN executed' : j \in DOMAIN executed \/ j = Len(executed) + 1
      BY <1>0, <2>4
    <3>2. Call(Record(r)) = Call(proposal) /\ Record(r).tier = proposal.tier
      BY DEF Record, Call
    <3>3. SpentOnAsked => SpentOnAsked'
      <4>1. CASE Len(executed) < attempts
        BY <1>0, <2>2, <3>1, <4>1 DEF SpentOnAsked
      <4>2. CASE \E j \in DOMAIN executed : Call(executed[j]) \in approved
        <5>1. PICK j \in DOMAIN executed : Call(executed[j]) \in approved
          BY <4>2
        <5>2. j \in DOMAIN executed' /\ Call(executed[j])' \in approved'
          BY <2>2, <3>1, <5>1 DEF Call
        <5> QED BY <5>2 DEF SpentOnAsked, Call
      <4> QED BY <4>1, <4>2 DEF SpentOnAsked
    <3>4. granted = "yes" => SpentOnAsked'
      <4>1. CASE Call(proposal) \in approved
        BY <2>2, <3>1, <3>2, <4>1 DEF SpentOnAsked, Call
      <4> QED BY <3>3, <4>1 DEF AnsweredInv
    <3>5. proposal.tier >= 2 => granted = "yes"
      BY <1>2, <2>4 DEF Execute, ExecutorRaises, IInv, ProposalInv
    <3>6. ASSUME NEW i \in DOMAIN executed', executed'[i].tier >= 2
          PROVE  SpentOnAsked'
      <4>1. CASE i \in DOMAIN executed
        BY <3>1, <3>3, <3>6, <4>1 DEF AnsweredInv
      <4>2. CASE i = Len(executed) + 1
        BY <3>1, <3>2, <3>4, <3>5, <3>6, <4>2
      <4> QED BY <3>1, <4>1, <4>2
    <3> QED BY <2>2, <3>4, <3>6 DEF AnsweredInv
  <2> QED BY <2>2, <2>3, <2>4
<1>3. CASE Triage
  <2>1. /\ executed = <<>> /\ granted = "unset" /\ UNCHANGED <<executed, granted>>
    BY <1>3 DEF Triage, IInv, StageInv
  <2> QED BY <2>1 DEF AnsweredInv
<1>4. CASE Decide
  <2>1. /\ granted' = "yes" => node' = "execute" /\ Call(proposal)' \in approved'
        /\ UNCHANGED <<executed, attempts>>
    BY <1>4 DEF Decide, Call
  <2>2. SpentOnAsked => SpentOnAsked'
    BY <1>1, <2>1 DEF SpentOnAsked, Call
  <2> QED BY <2>1, <2>2 DEF AnsweredInv
<1>5. CASE Complete \/ Verify \/ ExecuteAborts \/ ApproveSettled \/ ApproveStamp
           \/ ApprovePause \/ Propose \/ Investigate \/ Hypothesize \/ UNCHANGED vars
  <2>1. /\ UNCHANGED <<executed, attempts, granted, approved>>
        /\ node = "execute" => granted # "yes" \/ UNCHANGED <<node, proposal>>
    BY <1>5 DEF Complete, Verify, ExecuteAborts, DeclaredTier, ApproveSettled, ApproveStamp,
                ApprovePause, Propose, Investigate, Hypothesize, vars
  <2> QED BY <2>1 DEF AnsweredInv, SpentOnAsked, Call
<1> QED BY <1>2, <1>3, <1>4, <1>5 DEF Next, GraphStep, Finished

\* What there is to the documented "Tier-2 actions always pause for a human" when no
\* declared tier understates the registered one: the answer a human gives is first used on
\* the call it was given for, so of the attempts an incident has one less than all may run
\* a Tier-2 tool unasked.  With the two attempts GraphContext has unless told otherwise
\* that is one; none only if there is a single attempt.
THEOREM HonestTiersUnaskedBounded == HonestTiers => (Spec => []UnaskedBounded)
<1> SUFFICES ASSUME HonestTiers PROVE Spec => []UnaskedBounded
  OBVIOUS
<1>1. Init => HonestInv /\ OneConsent /\ AnsweredInv
  BY DEF Init, HonestInv, OneConsent, AnsweredInv
<1>2. IInv /\ HonestInv /\ [Next]_vars => HonestInv'
  BY HonestStep
<1>3. IInv /\ OneConsent /\ [Next]_vars => OneConsent'
  BY ConsentStep
<1>4. IInv /\ OneConsent /\ AnsweredInv /\ [Next]_vars => AnsweredInv'
  BY AnsweredStep
<1>5. IInv /\ HonestInv /\ AnsweredInv => UnaskedBounded
  <2> SUFFICES ASSUME IInv, HonestInv, AnsweredInv PROVE UnaskedBounded
    OBVIOUS
  <2>1. /\ executed \in Seq(Records) /\ attempts \in Nat /\ Len(executed) <= attempts
        /\ attempts <= MaxActionAttempts /\ MaxActionAttempts \in Nat \ {0}
    BY ThresholdAssumption DEF IInv, TypeOK, AttemptsBounded
  <2> DEFINE D == 1..Len(executed)
  <2>2. /\ DOMAIN executed = D /\ IsFiniteSet(D) /\ Cardinality(D) = Len(executed)
        /\ Len(executed) \in Nat
    <3>1. DOMAIN executed = D /\ Len(executed) \in Nat
      BY <2>1
    <3>2. IsFiniteSet(D) /\ Cardinality(D) = IF 1 > Len(executed) THEN 0 ELSE Len(executed) - 1 + 1
      BY <3>1, FS_Interval
    <3> QED BY <3>1, <3>2
  <2>3. /\ Unasked \in SUBSET D /\ IsFiniteSet(Unasked) /\ Cardinality(Unasked) \in Nat
        /\ Cardinality(Unasked) <= Len(executed)
        /\ Cardinality(Unasked) = Len(executed) => Unasked = D
    <3>1. Unasked \in SUBSET D
      BY <2>2 DEF Unasked
    <3> QED BY <2>2, <3>1, FS_Subset, FS_CardinalityType
  <2>4. CASE Unasked = {}
    BY <2>1, <2>4, FS_EmptySet DEF UnaskedBounded
  <2>5. CASE Unasked # {}
    <3>1. PICK i \in DOMAIN executed : Registered[executed[i].tool] >= 2
      BY <2>5 DEF Unasked
    <3>2. SpentOnAsked
      BY <3>1, HonestAtLeastTwo DEF AnsweredInv
    <3>3. Len(executed) < attempts \/ Unasked # D
      BY <2>2, <3>2 DEF SpentOnAsked, Unasked
    <3> QED BY <2>1, <2>2, <2>3, <3>3 DEF UnaskedBounded
  <2> QED BY <2>4, <2>5
<1> QED BY <1>1, <1>2, <1>3, <1>4, <1>5, Invariance, PTL DEF Spec

-----------------------------------------------------------------------------
\* "No mutation of the infrastructure bypasses SafeExecutor" holds if every tool the model
\* may name while it investigates is read-only, which investigate_node does not check.
THEOREM ReadOnlyPicksNoBypass ==
  (\A t \in InvestigationPicks : Registered[t] = 0) => (Spec => []MutationsGoThroughExecutor)
<1> SUFFICES ASSUME \A t \in InvestigationPicks : Registered[t] = 0
             PROVE  Spec => []MutationsGoThroughExecutor
  OBVIOUS
<1>1. Init => MutationsGoThroughExecutor
  BY DEF Init, MutationsGoThroughExecutor
<1>2. MutationsGoThroughExecutor /\ [Next]_vars => MutationsGoThroughExecutor'
  <2> SUFFICES ASSUME MutationsGoThroughExecutor, [Next]_vars PROVE MutationsGoThroughExecutor'
    OBVIOUS
  <2>1. CASE Investigate
    BY <2>1 DEF Investigate, MutationsGoThroughExecutor
  <2>2. CASE UNCHANGED direct
    BY <2>2 DEF MutationsGoThroughExecutor
  <2> QED BY <2>1, <2>2 DEF Next, GraphStep, Finished, Triage, Hypothesize, Propose,
               ApproveSettled, ApproveStamp, ApprovePause, Decide, Execute, ExecuteAborts,
               Verify, Complete, vars, historyVars
<1> QED BY <1>1, <1>2, PTL DEF Spec
=============================================================================
