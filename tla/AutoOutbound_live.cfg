SPECIFICATION LiveSpec
CONSTANTS
  t1 = t1 a1 = a1 a2 = a2
  NoTarget = NoTarget NoAttempt = NoAttempt
  Targets = {t1}
  Attempts = {a1, a2}
  MaxConcurrency = 1
INVARIANTS CallsAreCounted OneCallAtATime AnsweredIsNotCalledAgain
PROPERTIES CallingEnds CapacityReturns
CHECK_DEADLOCK FALSE
