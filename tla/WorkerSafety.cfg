\* A nameless and a named email, two workers, two digests, a job that fails.
SPECIFICATION Spec
CONSTANTS
  e1 = e1
  e2 = e2
  Emails = {e1, e2}
  Named = {e2}
  Urgency <- Urgency2
  Cap = 1
  Workers = {w1, w2}
  Attempts = 2
  NoEmail = NoEmail
  MaxDigests = 2
  MaxFaults = 1
SYMMETRY WorkerSymmetry
INVARIANTS FannedOut HeaderNameWins PrioritiesKept
CHECK_DEADLOCK FALSE
