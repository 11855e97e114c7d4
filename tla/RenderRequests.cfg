\* Two requests in flight beside a worker that crashes or stalls.
CONSTANTS
  c1 = c1
  c2 = c2
  w1 = w1
  w2 = w2
  r1 = r1
  r2 = r2
  None = None
  Contracts <- OneContract
  Workers <- OneWorker
  Requests <- TwoRequests
  Events <- AllEvents
  MaxAttempts = 2
  MaxPayload = 2
SPECIFICATION Spec
SYMMETRY Symmetry
CHECK_DEADLOCK FALSE
INVARIANTS
  TypeOK
  LockedWhileProcessing
  DoneShowsLatestPayload
  DoneHasSigner
