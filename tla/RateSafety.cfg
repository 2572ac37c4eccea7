\* Expiries, a crash and Redis commands whose answer or execution is lost.
SPECIFICATION Spec
CONSTANTS
  c1 = c1
  c2 = c2
  c3 = c3
  p1 = p1
  p2 = p2
  Callers = {c1, c2, c3}
  Procs = {p1, p2}
  ProcOf <- Placement
  Redis = Redis
  NoStore = NoStore
  LimitHour = 1
  LimitDay = 2
  Limit <- Limits
  MaxAttempts = 3
  MaxRolls = 1
  MaxCrashes = 1
  MaxFallbacks = 1
INVARIANTS CeilingUpToStale QuietExact
CHECK_DEADLOCK FALSE
