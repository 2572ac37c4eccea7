\* A mail and a draft, the app killed once; a row may fail and be retried by the user.
SPECIFICATION FairSpec
CONSTANTS
  Mail = {m1}
  Stored = {}
  Drafts = {d1}
  NoTarget = NoTarget
  MaxAttempts = 2
  MaxRows = 2
  MaxTaps = 2
  MaxRequeues = 1
  MaxKills = 1
INVARIANTS TypeOK CopiesExplained LatestMoveWins NoStrandedPlaceholder
PROPERTIES RowSettles
CHECK_DEADLOCK FALSE
