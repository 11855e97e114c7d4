\* Two contracts, two workers that may crash or stall: every queued job comes to an end.
CONSTANTS
  c1 = c1
  c2 = c2
  w1 = w1
  w2 = w2
  r1 = r1
  r2 = r2
  None = None
  Contracts <- TwoContracts
  Workers <- TwoWorkers
  Requests <- OneRequest
  Events <- LiveEvents
  MaxAttempts = 2
  MaxPayload = 1
SPECIFICATION LiveSpec
CHECK_DEADLOCK FALSE
INVARIANTS
  OneWorkerUnlessStolen
PROPERTIES
  QueuedJobIsSettled
