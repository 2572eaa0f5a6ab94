SPECIFICATION FairSpec
CONSTANTS
  AllowedNamespaces <- MCNamespaces
  MaxAutonomousTier = 1
  Registered <- MCRegistered
  Snapshots <- MCSnapshots
  Verifiers <- MCVerifiers
  Rollbacks <- MCRollbacks
  Proposals <- MCProposals
  HasAuditHook = TRUE
INVARIANTS
  TypeOK
  FailClosed
  UnapprovedNeverRuns
  TierNotLowered
  SystemNamespacesUntouched
  RollbackExactlyWhenDue
  RollbackTruthful
  NeverSilent
  MeetsContract
PROPERTIES
  HandlersReturn
