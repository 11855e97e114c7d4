\* A worker that dies in the last attempt.
CONSTANTS
  c1 = c1
  c2 = c2
  w1 = w1
  w2 = w2
  r1 = r1
  r2 = r2
  None = None
  Contracts <- OneContract
  Workers <- OneWorker
  Requests <- OneRequest
  Events <- CrashEvents
  MaxAttempts = 3
  MaxPayload = 1
SPECIFICATION LiveSpec
CHECK_DEADLOCK FALSE
PROPERTIES
  PreparationEnds
