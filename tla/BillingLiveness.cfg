\* Ticks, time and webhooks of a top-up; a request may be cut off.
SPECIFICATION FairSpec
CONSTANTS
  Workers = {w1, w2}
  Topups = {t1}
  NoTopup = NoTopup
  Price = 1
  Amount <- OnePrice
  Trial = 1
  Period = 1
  Grace = 1
  MaxTime = 3
  MaxDeliveries = 1
  MaxAborts = 1
PROPERTIES NothingOverdue
CHECK_DEADLOCK FALSE
