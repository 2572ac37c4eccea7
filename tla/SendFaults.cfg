\* The same race with a crash and with failing database statements.
SPECIFICATION Spec
CONSTANTS
  Emails = {e1}
  Unowned = {e1}
  Procs = {p1}
  Requests = {r1, r2}
  MaxSendAttempts = 2
  Budget = 1
  Batch = 1
  MaxClaims = 2
  MaxCrashes = 1
  DbErrors = TRUE
  Purges = TRUE
  EarlyAccess = FALSE
SYMMETRY RowSymmetry
INVARIANTS IInv SlotsAccounted
PROPERTIES ImplementsOutbox
CHECK_DEADLOCK FALSE
