---------------------------- MODULE IncidentGraph ----------------------------
(***************************************************************************)
(* One incident walking the agent's LangGraph state machine: triage,       *)
(* investigate, hypothesize, propose, approve, execute, verify, complete.  *)
(* A step is one node: it reads the state, asks the language model or a    *)
(* tool, writes its state update and routes along the graph's edges.  The  *)
(* language model is an adversary: it may fail, answer any confidence and  *)
(* propose any call of LLMAnswers under any risk tier.  SafeExecutor       *)
(* appears by its contract (ExecutorContract), which the module            *)
(* SafeExecutor is checked to meet.                                        *)
(***************************************************************************)
EXTENDS Integers, Sequences, ExecutorContract

CONSTANTS
  Alerts,              \* incoming alerts: [category, namesService, allowedNamespace]
  Tools,               \* tool names the model or the tables may use
  Args,                \* argument sets, told apart only by what the guards test
  LLMAnswers,          \* the model's remediation proposals: [tool, args, tier]
  InvestigationPicks,  \* tools the model may name while investigating
  Levels,              \* confidences the model may report, in percent
  Fallback,            \* FALLBACK_ACTIONS: category -> [tool, tier]
  Forbidden,           \* _CATEGORY_FORBIDDEN_TOOLS: category -> set of tools
  MutatingTools,       \* MUTATING_TOOLS
  NamespacedTools,     \* _TOOLS_WITH_NAMESPACE
  Registered,          \* RegisteredTier: registered tool -> tier
  InIncidentNamespace, \* Args -> Args, the namespace replaced by the incident's
  ValidCalls,          \* <<tool, args>> that validate against the input model
  GlobArgs,            \* arguments with wildcard characters
  TemplateArgs,        \* fallback arguments of an alert that names its service
  UnnamedArgs          \* the same without a service name

CONSTANTS
  InitialIterationBudget, StagnationLimit, MaxActionAttempts,
  ConfidencePropose, ConfidenceFastPath, MinImprovement

NoTool == "none"
Calls == [tool : Tools, args : Args, tier : Int]

ASSUME TablesAssumption ==
  /\ Alerts \subseteq [category : STRING, namesService : BOOLEAN, allowedNamespace : BOOLEAN]
  /\ \A c \in DOMAIN Fallback : Fallback[c].tool \in Tools /\ Fallback[c].tier \in Int
  /\ \A c \in DOMAIN Forbidden : Forbidden[c] \subseteq Tools
  /\ {TemplateArgs, UnnamedArgs} \subseteq Args
  /\ InIncidentNamespace \in [Args -> Args]
  /\ DOMAIN Registered \subseteq Tools /\ NoTool \notin DOMAIN Registered
  /\ \A t \in DOMAIN Registered : Registered[t] \in Nat

ASSUME ModelAssumption ==
  /\ LLMAnswers \subseteq Calls
  /\ InvestigationPicks \subseteq DOMAIN Registered
  /\ Levels \subseteq Int

ASSUME ThresholdAssumption ==
  /\ InitialIterationBudget \in Nat \ {0}
  /\ StagnationLimit \in Nat \ {0}
  /\ MaxActionAttempts \in Nat \ {0}
  /\ {ConfidencePropose, ConfidenceFastPath, MinImprovement} \subseteq Int

VARIABLES
  node,        \* the node about to run, or "waiting", "end", "aborted"
  phase,       \* current_phase
  status,      \* status
  alert,       \* incident_metadata
  hypothesized,\* hypotheses is not empty
  conf,        \* confidence of the top hypothesis
  budget, iters, lastConf, stagnation,  \* the investigation loop
  attempts,    \* action_attempts
  proposal,    \* proposed_actions[0], or NoCall
  needsHuman,  \* requires_human_approval
  granted,     \* approval_granted: "unset", "yes", "no"
  requested,   \* approval_requested_at is set
  executed,    \* executed_actions
  approved,    \* history: the calls a human said yes to
  direct       \* history: tools investigate_node ran outside SafeExecutor

loopVars == <<budget, iters, lastConf, stagnation>>
hypothesisVars == <<hypothesized, conf>>
approvalVars == <<granted, requested>>
historyVars == <<approved, direct>>
vars == <<node, phase, status, alert, hypothesisVars, loopVars, attempts, proposal,
          needsHuman, approvalVars, executed, historyVars>>

NoCall == [tool |-> NoTool, args |-> UnnamedArgs, tier |-> 0]
Call(c) == [tool |-> c.tool, args |-> c.args]

-----------------------------------------------------------------------------
\* create_initial_state
Init ==
  /\ node = "triage" /\ phase = "triage" /\ status = "running"
  /\ alert \in Alerts
  /\ hypothesized = FALSE /\ conf = 0
  /\ budget = InitialIterationBudget /\ iters = 0 /\ lastConf = 0 /\ stagnation = 0
  /\ attempts = 0 /\ proposal = NoCall /\ needsHuman = FALSE
  /\ granted = "unset" /\ requested = FALSE
  /\ executed = <<>> /\ approved = {} /\ direct = {}

HasFallback == alert.category \in DOMAIN Fallback
NoActionCategory == HasFallback /\ Fallback[alert.category].tool = NoTool
ForbiddenHere ==
  IF alert.category \in DOMAIN Forbidden THEN Forbidden[alert.category] ELSE {}

\* A node that ends the incident leaves its verdict and goes to complete_node.
Finish(verdict) == phase' = "complete" /\ status' = verdict
AfterPhase(onward) == node' = IF phase' \in onward THEN phase' ELSE "complete"

-----------------------------------------------------------------------------
\* The early exit before any model call.
EarlyExit == NoActionCategory

\* triage_node: no-action categories skip to complete, every other alert gets
\* hypotheses, from the model or the 0.2 fallback.
Triage ==
  /\ node = "triage"
  /\ \/ /\ EarlyExit
        /\ Finish("no_action")
        /\ UNCHANGED hypothesisVars
     \/ /\ ~EarlyExit
        /\ phase' = "investigate" /\ hypothesized' = TRUE
        /\ conf' \in Levels \cup {20}
        /\ UNCHANGED status
  /\ budget' = InitialIterationBudget /\ iters' = 0
  /\ lastConf' = 0 /\ stagnation' = 0 /\ attempts' = 0
  /\ node' = IF phase' = "complete" THEN "complete" ELSE "investigate"
  /\ UNCHANGED <<alert, proposal, needsHuman, approvalVars, executed, historyVars>>

\* investigate_node: at most one tool per iteration, dispatched on the
\* registry itself, whatever tier it is registered with.
Investigate ==
  /\ node = "investigate"
  /\ budget' = IF budget > 0 THEN budget - 1 ELSE 0
  /\ iters' = iters + 1
  /\ phase' = "hypothesize" /\ node' = "hypothesize"
  /\ \/ UNCHANGED direct
     \/ \E t \in InvestigationPicks : direct' = direct \cup {t}
  /\ UNCHANGED <<status, alert, hypothesisVars, lastConf, stagnation, attempts, proposal,
                 needsHuman, approvalVars, executed, approved>>

\* Mutant: the iteration count is not compared.
AfterHypothesizeUncounted ==
  IF stagnation >= 2 \/ lastConf >= 50 THEN "propose" ELSE "investigate"

\* route_after_hypothesize: its constants are its own, and a budget of 0 reads as 3.
AfterHypothesize ==
  IF \/ iters >= (IF budget = 0 THEN 3 ELSE budget)
     \/ stagnation >= 2
     \/ lastConf >= 50
  THEN "propose" ELSE "investigate"

\* hypothesize_node
MayRefine == hypothesized /\ conf < ConfidenceFastPath /\ budget > 0

Refined(level) ==
  /\ conf' = level /\ lastConf' = level
  /\ stagnation' = IF level - lastConf >= MinImprovement THEN 0 ELSE stagnation + 1
  /\ phase' = IF level >= ConfidenceFastPath \/ stagnation' >= StagnationLimit
              THEN "propose" ELSE "investigate"
  /\ UNCHANGED status

\* The fast path, an exhausted budget and a failed model call leave the same update.
NotRefined ==
  IF hypothesized
  THEN phase' = "propose" /\ lastConf' = conf /\ UNCHANGED <<status, conf, stagnation>>
  ELSE Finish("failed") /\ UNCHANGED <<conf, lastConf, stagnation>>

Hypothesize ==
  /\ node = "hypothesize"
  /\ \/ NotRefined
     \/ MayRefine /\ \E level \in Levels : Refined(level)
  /\ UNCHANGED <<alert, hypothesized, budget, iters, attempts, proposal, needsHuman,
                 approvalVars, executed, historyVars>>
  /\ node' = AfterHypothesize'

-----------------------------------------------------------------------------
\* _build_fallback_args: the deployment tools need the alert's service name.
FallbackArgs(tool) ==
  IF tool \in NamespacedTools /\ ~alert.namesService THEN UnnamedArgs ELSE TemplateArgs

FallbackCall ==
  IF ~HasFallback \/ NoActionCategory \/ Fallback[alert.category].tool \in ForbiddenHere
  THEN NoCall
  ELSE [tool |-> Fallback[alert.category].tool,
        args |-> FallbackArgs(Fallback[alert.category].tool),
        tier |-> Fallback[alert.category].tier]

\* Mutant: the model's answer is not compared with the forbidden tools.
CandidateUnchecked(answer) ==
  IF answer.tool = NoTool \/ conf < ConfidencePropose THEN FallbackCall ELSE answer

\* The model's answer, or the category's fallback in its place.
Candidate(answer) ==
  IF answer.tool = NoTool \/ conf < ConfidencePropose \/ answer.tool \in ForbiddenHere
  THEN FallbackCall
  ELSE [answer EXCEPT !.args =
          IF answer.tool \in NamespacedTools THEN @ ELSE InIncidentNamespace[@]]

\* _clamp_namespace
ClampNamespace(c) ==
  [c EXCEPT !.args = IF c.tool \in NamespacedTools THEN InIncidentNamespace[@] ELSE @]

\* Mutant: a mutating tool counts as executed only with the very same arguments.
AlreadyExecutedExactly(c) ==
  \E i \in DOMAIN executed : executed[i].tool = c.tool /\ executed[i].args = c.args

\* is_action_already_executed
AlreadyExecuted(c) ==
  \E i \in DOMAIN executed :
     /\ executed[i].tool = c.tool
     /\ (c.tool \in MutatingTools \/ executed[i].args = c.args)

\* _args_satisfy_schema
SatisfiesSchema(c) == c.tool \in DOMAIN Registered /\ <<c.tool, c.args>> \in ValidCalls

Proposable(c) == c # NoCall /\ ~AlreadyExecuted(c) /\ SatisfiesSchema(ClampNamespace(c))

\* The attempt cap of propose_node, execute_node and verify_node.
AttemptsLeft == attempts < MaxActionAttempts

\* requires_approval follows from the declared tier.  (Mutant: off by one.)
NeedsApprovalAboveTwo(tier) == tier > 2
NeedsApproval(tier) == tier >= 2

\* propose_node.  NoCall as an answer stands for a failed model call too.  (The
\* node's count_action_attempts test can only hold for a duplicate.)
Propose ==
  /\ node = "propose"
  /\ \E answer \in LLMAnswers \cup {NoCall} :
       LET c == Candidate(answer) IN
       IF ~AttemptsLeft
       THEN Finish("failed") /\ UNCHANGED <<proposal, needsHuman>>
       ELSE IF hypothesized /\ ~NoActionCategory /\ Proposable(c)
       THEN /\ proposal' = ClampNamespace(c)
            /\ needsHuman' = NeedsApproval(c.tier)
            /\ phase' = IF needsHuman' THEN "approve" ELSE "execute"
            /\ UNCHANGED status
       ELSE Finish("no_action") /\ UNCHANGED <<proposal, needsHuman>>
  /\ AfterPhase({"approve", "execute"})
  /\ UNCHANGED <<alert, hypothesisVars, loopVars, attempts, approvalVars, executed,
                 historyVars>>

-----------------------------------------------------------------------------
\* No decision is on record yet.  (Mutant: an earlier decision is not looked at.)
UndecidedOrNot == needsHuman
Undecided == needsHuman /\ granted = "unset"

\* approve_node without a pause: nothing to ask, or a decision already on record.
ApproveSettled ==
  /\ node = "approve" /\ ~Undecided
  /\ IF needsHuman /\ granted = "no"
     THEN Finish("no_action")
     ELSE phase' = "execute" /\ UNCHANGED status
  /\ AfterPhase({"approve", "execute"})
  /\ UNCHANGED <<alert, hypothesisVars, loopVars, attempts, proposal, needsHuman,
                 approvalVars, executed, historyVars>>

\* approve_node's first pass stamps approval_requested_at and re-enters the node.
ApproveStamp ==
  /\ node = "approve" /\ Undecided /\ ~requested
  /\ requested' = TRUE /\ phase' = "approve"
  /\ AfterPhase({"approve", "execute"})
  /\ UNCHANGED <<status, alert, hypothesisVars, loopVars, attempts, proposal, needsHuman,
                 granted, executed, historyVars>>

\* approve_node's second pass calls interrupt(): the graph run returns, paused.
ApprovePause ==
  /\ node = "approve" /\ Undecided /\ requested
  /\ node' = "waiting"
  /\ UNCHANGED <<phase, status, alert, hypothesisVars, loopVars, attempts, proposal,
                 needsHuman, approvalVars, executed, historyVars>>

\* A denial closes the incident.  (Mutant: it is recorded, and execution goes on.)
DeniedButExecuted == granted' = "no" /\ phase' = "execute" /\ UNCHANGED status
Denied == granted' = "no" /\ Finish("no_action")

\* Command(resume=...): interrupt() returns the human's decision.
Decide ==
  /\ node = "waiting"
  /\ \/ /\ granted' = "yes" /\ phase' = "execute"
        /\ approved' = approved \cup {Call(proposal)}
        /\ UNCHANGED status
     \/ Denied /\ UNCHANGED approved
  /\ AfterPhase({"approve", "execute"})
  /\ UNCHANGED <<alert, hypothesisVars, loopVars, attempts, proposal, needsHuman,
                 requested, executed, direct>>

-----------------------------------------------------------------------------
\* What ProposedAction is built with: an approval lowers the tier to 1.
DeclaredTier == IF granted = "yes" THEN 1 ELSE proposal.tier

HasWork == proposal # NoCall /\ AttemptsLeft

\* PolicyEngine.classify raises, or the executor's approval gate does.
ExecutorRaises ==
  \/ proposal.tool \in NamespacedTools /\ ~alert.allowedNamespace
  \/ proposal.args \in GlobArgs
  \/ needsHuman /\ granted # "yes"

\* executed_actions grows by one record; `ran' and `tier' are history.
Record(r) ==
  [tool |-> proposal.tool, args |-> proposal.args, tier |-> proposal.tier,
   ran |-> r.ran, success |-> r.ran /\ ~r.error,
   verified |-> r.verified, reported |-> r.reported]

\* Both the normal and the exception path count an attempt.  (Mutant: only the first.)
AttemptUnlessRaised == IF ExecutorRaises THEN attempts ELSE attempts + 1
AttemptCounted == attempts + 1

\* execute_node.  Its phase is overwritten: the edge to verify is unconditional.
Execute ==
  /\ node = "execute" /\ (HasWork => DeclaredTier \in 0..4)
  /\ node' = "verify"
  /\ IF ~HasWork
     THEN Finish("failed") /\ UNCHANGED <<attempts, executed>>
     ELSE /\ attempts' = AttemptCounted
          /\ IF ExecutorRaises
             THEN phase' = "propose" /\ UNCHANGED executed
             ELSE \E r \in ExecutorResults(proposal.tool) :
                    /\ executed' = Append(executed, Record(r))
                    /\ phase' = IF r.ran /\ ~r.error THEN "verify" ELSE "propose"
          /\ UNCHANGED status
  /\ UNCHANGED <<alert, hypothesisVars, loopVars, proposal, needsHuman, approvalVars,
                 historyVars>>

\* ProposedAction refuses a tier outside 0..4 before the node's try block: the
\* exception leaves the graph and the run ends where it stands.
ExecuteAborts ==
  /\ node = "execute" /\ HasWork /\ DeclaredTier \notin 0..4
  /\ node' = "aborted"
  /\ UNCHANGED <<phase, status, alert, hypothesisVars, loopVars, attempts, proposal,
                 needsHuman, approvalVars, executed, historyVars>>

\* verify_node reads the last record of executed_actions.
Verify ==
  /\ node = "verify"
  /\ IF executed = <<>> THEN Finish("failed")
     ELSE LET last == executed[Len(executed)] IN
       IF last.verified = "yes" \/ (last.verified = "none" /\ last.success)
       THEN Finish("resolved")
       ELSE IF ~AttemptsLeft THEN Finish("failed")
       ELSE phase' = "propose" /\ UNCHANGED status
  /\ AfterPhase({"propose"})
  /\ UNCHANGED <<alert, hypothesisVars, loopVars, attempts, proposal, needsHuman,
                 approvalVars, executed, historyVars>>

\* Mutants: the verdict that led here is kept; an unlisted status is written.
KeptVerdict == status
UnlistedStatus == IF executed # <<>> THEN "escalated" ELSE "no_action"

\* complete_node derives the status afresh, whatever verdict led to it.
FinalStatus ==
  IF needsHuman /\ granted = "unset" THEN "running"
  ELSE IF \E i \in DOMAIN executed : executed[i].success THEN "resolved"
  ELSE IF executed # <<>> THEN "failed"
  ELSE "no_action"

Complete ==
  /\ node = "complete"
  /\ status' = FinalStatus /\ phase' = "complete" /\ node' = "end"
  /\ UNCHANGED <<alert, hypothesisVars, loopVars, attempts, proposal, needsHuman,
                 approvalVars, executed, historyVars>>

GraphStep ==
  \/ Triage \/ Investigate \/ Hypothesize \/ Propose
  \/ ApproveSettled \/ ApproveStamp \/ ApprovePause
  \/ Execute \/ ExecuteAborts \/ Verify \/ Complete

Over == node \in {"end", "aborted"}
Finished == Over /\ UNCHANGED vars

Next == GraphStep \/ Decide \/ Finished

Spec == Init /\ [][Next]_vars

\* The runner's task drives every node; the operator answers a pending request.
Fairness == WF_vars(GraphStep) /\ WF_vars(Decide)
FairSpec == Spec /\ Fairness

-----------------------------------------------------------------------------
Nodes == {"triage", "investigate", "hypothesize", "propose", "approve", "execute",
          "verify", "complete", "waiting", "end", "aborted"}
Phases == Nodes \ {"waiting", "end", "aborted"}
Statuses == {"running", "resolved", "failed", "no_action"}
Records ==
  [tool : Tools, args : Args, tier : Int, ran : BOOLEAN, success : BOOLEAN,
   verified : {"yes", "no", "none"}, reported : {"yes", "no", "none"}]

\* The state has the shape state.py's AgentState declares.
TypeOK ==
  /\ node \in Nodes /\ phase \in Phases /\ status \in Statuses
  /\ alert \in Alerts
  /\ hypothesized \in BOOLEAN /\ conf \in Int
  /\ budget \in Nat /\ iters \in Nat /\ lastConf \in Int /\ stagnation \in Nat
  /\ attempts \in Nat
  /\ proposal \in Calls \cup {NoCall}
  /\ needsHuman \in BOOLEAN
  /\ granted \in {"unset", "yes", "no"} /\ requested \in BOOLEAN
  /\ executed \in Seq(Records)
  /\ approved \subseteq [tool : Tools, args : Args]
  /\ direct \subseteq DOMAIN Registered

\* propose_node's category check covers both of its fallback paths: SafeExecutor
\* never answers a call of a tool the category forbids.
ForbiddenNeverDispatched ==
  \A i \in DOMAIN executed : executed[i].tool \notin ForbiddenHere

\* is_action_already_executed: whatever arguments the model drifts to, a tool of
\* MUTATING_TOOLS is executed at most once per incident.
MutatingAtMostOnce ==
  \A i, j \in DOMAIN executed :
     executed[i].tool = executed[j].tool /\ executed[i].tool \in MutatingTools => i = j

\* The retry budget of propose_node, execute_node and verify_node: attempts never
\* pass the cap and every dispatch is one of them.
AttemptsBounded == attempts <= MaxActionAttempts /\ Len(executed) <= attempts

\* route_after_hypothesize compares a growing count with a shrinking budget: the
\* loop runs about half the configured budget, three times when it is one.
MaxInvestigations ==
  IF InitialIterationBudget = 1 THEN 3 ELSE (InitialIterationBudget + 1) \div 2
InvestigationsBounded == iters <= MaxInvestigations

\* An alert whose category needs no action is closed without the agent touching
\* anything: no investigation, no tool, no pause.
NoActionUntouched ==
  NoActionCategory =>
     executed = <<>> /\ direct = {} /\ iters = 0 /\ ~requested

\* A paused incident is one the approval endpoint can answer: still running, with a
\* proposal that asked for approval and no decision on record.
PausedIsAnswerable ==
  node = "waiting" =>
    /\ status = "running" /\ needsHuman /\ granted = "unset" /\ requested
    /\ proposal # NoCall /\ attempts < MaxActionAttempts

\* SafeExecutor never runs a call the planner declared as Tier 2 or above before a
\* human has granted approval in this incident.
DeclaredTier2NeedsGrant ==
  \A i \in DOMAIN executed : executed[i].tier >= 2 => granted = "yes"

\* complete_node leaves no incident in "running", and its verdict agrees with what
\* was dispatched: "no_action" means nothing ran, "failed" that no try succeeded.
CompletedIsTerminal ==
  node = "end" =>
    /\ status \in {"resolved", "failed", "no_action"}
    /\ status = "resolved" <=> \E i \in DOMAIN executed : executed[i].success
    /\ status = "no_action" => \A i \in DOMAIN executed : ~executed[i].ran
    /\ status = "failed" => attempts > 0

\* Once an operator denies a request, the incident never executes anything again.
DeniedNeverExecutes == [][granted = "no" => UNCHANGED <<executed, attempts, granted>>]_vars

\* Some attempt ended without an error.
Won == \E i \in DOMAIN executed : executed[i].success

\* The abstract incident the graph implements.
Ticket == INSTANCE IncidentTicket WITH
  MaxTries <- MaxActionAttempts,
  stage <- IF node = "waiting" THEN "asked" ELSE IF Over THEN "closed" ELSE "open",
  tries <- attempts,
  won <- Won,
  consent <- granted,
  outcome <- IF node = "end" THEN status ELSE "running"

\* Every behaviour of the graph is a behaviour of the ticket: asked at most once,
\* tried a bounded number of times and never after a refusal, closed truthfully.
ImplementsTicket == Ticket!Spec

\* The checkpoint the runner and the approval endpoint see.
Checkpoint ==
  [at |-> IF node \in {"triage", "investigate", "hypothesize", "propose"} THEN "work"
          ELSE IF node = "waiting" THEN "approve"
          ELSE IF node = "aborted" THEN "execute" ELSE node,
   needs |-> needsHuman, granted |-> granted, stamped |-> requested, tries |-> attempts]

Walk == INSTANCE IncidentWalk WITH MaxTries <- MaxActionAttempts

\* From one checkpoint to the next the graph goes only where IncidentRunner, which takes
\* IncidentWalk in its place, lets it go.
WalksAsRunnerAssumes ==
  [][ \/ Checkpoint' = Checkpoint
      \/ \E answer \in Walk!Answers : Checkpoint' \in Walk!Onward(Checkpoint, answer) ]_vars

\* Every incident comes to an end, if the operator answers its request.
Terminates == <>Over

-----------------------------------------------------------------------------
\* The inductive strengthening of the invariants above, one part per concern.

\* What the node about to run may rely on.
StageInv ==
  /\ node \in {"triage", "investigate", "hypothesize"} =>
       attempts = 0 /\ executed = <<>> /\ granted = "unset" /\ ~needsHuman /\ ~requested
  /\ node = "triage" => iters = 0 /\ direct = {}
  /\ node \in {"investigate", "hypothesize"} => hypothesized
  /\ node \in {"propose", "approve", "execute", "waiting", "aborted"} =>
       attempts < MaxActionAttempts
  /\ node \notin {"complete", "end"} => status = "running"
  /\ node \notin {"approve", "waiting"} => (needsHuman => granted # "unset")
  /\ node = "waiting" => needsHuman /\ granted = "unset" /\ requested
  /\ node = "approve" => needsHuman
  /\ node = "aborted" => granted # "yes"
  /\ granted = "no" => node \in {"complete", "end"}

\* The loop counters determine each other.
LoopInv ==
  /\ budget = IF iters < InitialIterationBudget THEN InitialIterationBudget - iters ELSE 0
  /\ iters <= MaxInvestigations
  /\ node = "investigate" => iters < MaxInvestigations

\* A proposal on its way to the executor passed every guard of propose_node.
ProposalInv ==
  node \in {"approve", "execute", "waiting"} =>
    /\ proposal # NoCall
    /\ proposal.tool \notin ForbiddenHere
    /\ proposal.tier >= 2 => needsHuman
    /\ proposal.tool \in MutatingTools =>
         \A i \in DOMAIN executed : executed[i].tool # proposal.tool

\* A no-action alert never leaves triage but for the end.
NoActionInv ==
  NoActionCategory => node \in {"triage", "complete", "end"} /\ ~needsHuman

IInv ==
  /\ TypeOK /\ StageInv /\ LoopInv /\ ProposalInv /\ NoActionInv
  /\ ForbiddenNeverDispatched /\ MutatingAtMostOnce /\ AttemptsBounded
  /\ NoActionUntouched /\ DeclaredTier2NeedsGrant /\ CompletedIsTerminal

-----------------------------------------------------------------------------
\* What the documentation promises and the code does not keep; the runs that
\* refute these name the line that promises.

\* agent_dag.md: Tier-2 actions always pause for a human.
Tier2AlwaysPauses ==
  \A i \in DOMAIN executed :
     executed[i].ran /\ Registered[executed[i].tool] >= 2 => Call(executed[i]) \in approved

\* agent_design.md: no mutation of the infrastructure bypasses SafeExecutor.
MutationsGoThroughExecutor == \A t \in direct : Registered[t] = 0
=============================================================================
