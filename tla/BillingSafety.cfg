\* Two requests at a time, two top-ups, duplicated and reordered webhooks, one
\* request that is cut off.
SPECIFICATION Spec
CONSTANTS
  Workers = {w1, w2}
  Topups = {t1, t2}
  NoTopup = NoTopup
  Price = 1
  Amount <- OnePrice
  Trial = 1
  Period = 1
  Grace = 1
  MaxTime = 2
  MaxDeliveries = 2
  MaxAborts = 1
SYMMETRY RequestSymmetry
INVARIANTS NeverOverdrawn LedgerExplainsBalance CreditedOnce SucceededIsCredited PaidTime PaidIsServed
CHECK_DEADLOCK FALSE
