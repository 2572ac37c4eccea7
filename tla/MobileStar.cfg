\* The star of a mail: toggles, on a mail the local store holds.
SPECIFICATION Spec
CONSTANTS
  Mail = {m1}
  Stored = {m1}
  Drafts = {}
  NoTarget = NoTarget
  MaxAttempts = 2
  MaxRows = 2
  MaxTaps = 2
  MaxRequeues = 0
  MaxKills = 0
INVARIANTS LatestStarWins
CHECK_DEADLOCK FALSE
