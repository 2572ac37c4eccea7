\* One message and a second delivery of it; two hard deletes; faults anywhere.
SPECIFICATION FairSpec
CONSTANTS
  Mails = {m1}
  Parts = {a}
  Purgers = {p1, p2}
  Batch = 1
  MaxTries = 2
  MaxMoves = 2
  MaxFaults = 2
INVARIANTS DiskMatchesRows AcceptedIsStored
PROPERTIES ImplementsMailStore OnlyDiscardedIsDeleted ExpiredIsDeleted
CHECK_DEADLOCK FALSE
