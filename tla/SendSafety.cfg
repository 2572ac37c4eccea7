\* One row and everybody who can race for it: two processes with a tick each and
\* a user who dispatches and purges it.
SPECIFICATION Spec
CONSTANTS
  Emails = {e1}
  Unowned = {}
  Procs = {p1, p2}
  Requests = {r1}
  MaxSendAttempts = 2
  Budget = 1
  Batch = 1
  MaxClaims = 2
  MaxCrashes = 0
  DbErrors = FALSE
  Purges = TRUE
  EarlyAccess = FALSE
SYMMETRY RowSymmetry
INVARIANTS SendLock RetryLeft CopiesAccounted
PROPERTIES SentIsFinal
CHECK_DEADLOCK FALSE
