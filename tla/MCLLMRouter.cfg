SPECIFICATION FairSpec
CONSTANTS
  flash = flash
  pro = pro
  first = first
  resumed = resumed
  Callers = {first, resumed}
  Metered = {first}
  Models = {flash, pro}
  ModelMap <- MCModelMap
  Fallbacks <- MCFallbacks
  Sizes = {1, 9}
  SizeThreshold = 6
  Errors <- MCErrors
  Quotas <- MCQuotas
  DefaultQuota = 1
  Threshold = 2
  MaxRetries = 1
  Budget = 3
  InitialBackoff = 4
  MaxBackoff = 4
  AbsoluteCap = 4
  RetryAfter = {50}
  MaxDays = 1
  MaxFailures = 6
INVARIANTS
  QuotaOverrunBounded
  BreakerBoundsHammering
PROPERTIES
  CallsEnd
  ModelsComeBack
