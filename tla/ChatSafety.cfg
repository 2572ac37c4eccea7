\* Two users, one attachment, two requests at a time, a sweep and a crash.
SPECIFICATION Spec
CONSTANTS
  Users = {u1, u2}
  Creator = u1
  Files = {f1}
  Workers = {w1, w2}
  Nobody = Nobody
  MaxTime = 3
  MaxRequests = 4
  MaxSweeps = 1
  MaxCuts = 1
SYMMETRY WorkerSymmetry
INVARIANTS TypeOK ClaimedInTimeKeepsBytes NamedIsAttached AsIfAlone
CHECK_DEADLOCK FALSE
