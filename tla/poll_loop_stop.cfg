CONSTANTS
  None = None
  Ticks = {t1, t2}
  Callers = {q1}
  Messages = {m1, m2}
  BatchSize = 2
SPECIFICATION PollSpec
INVARIANT StopDrains
CHECK_DEADLOCK FALSE
