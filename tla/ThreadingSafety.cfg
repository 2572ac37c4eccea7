\* Three messages, one of them older than the threads, two backfills, a fault.
SPECIFICATION Spec
CONSTANTS
  m1 = m1
  m2 = m2
  m3 = m3
  Mails = {m1, m2, m3}
  Legacy = {m1}
  Jobs = {j1, j2}
  Subject <- Subjects3
  Sender <- Senders3
  Answers <- Answers3
  Sent <- Sent3
  Empty = ""
  Window = 2
  Limit = 1
  MaxThreads = 4
  MaxFaults = 1
INVARIANTS CountExact RepliesJoin NoSplit
CHECK_DEADLOCK FALSE
