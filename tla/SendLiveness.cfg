\* Two processes whose ticks compete for one row; nothing fails but the engine, so
\* that every reserved slot has one owner and outcomes and retries do arrive.
SPECIFICATION FairSpec
CONSTANTS
  Emails = {e1}
  Unowned = {}
  Procs = {p1, p2}
  Requests = {}
  MaxSendAttempts = 2
  Budget = 2
  Batch = 1
  MaxClaims = 0
  MaxCrashes = 0
  DbErrors = FALSE
  Purges = FALSE
  EarlyAccess = FALSE
INVARIANTS NoLostSlot
PROPERTIES SendingResolves SoftFailureRetried ScheduledSent
CHECK_DEADLOCK FALSE
