SPECIFICATION Spec
CONSTANTS
  Alerts <- MCAlerts
  Tools <- MCTools
  Args <- MCArgs
  LLMAnswers <- MCAnswers
  InvestigationPicks <- MCPicks
  Levels <- MCLevels
  Fallback <- MCFallback
  Forbidden <- MCForbidden
  MutatingTools <- MCMutating
  NamespacedTools <- MCNamespaced
  Registered <- MCRegistered
  InIncidentNamespace <- MCInIncidentNamespace
  ValidCalls <- MCValidCalls
  GlobArgs = {"glob"}
  TemplateArgs = "template"
  UnnamedArgs = "unnamed"
  Snapshots <- MCHandled
  Verifiers <- MCHandled
  InitialIterationBudget = 3
  StagnationLimit = 2
  MaxActionAttempts = 2
  ConfidencePropose = 55
  ConfidenceFastPath = 80
  MinImprovement = 5
INVARIANT
  Tier2AlwaysPauses
