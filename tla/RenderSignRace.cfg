\* An update that overlaps the applicant signing.
CONSTANTS
  c1 = c1
  c2 = c2
  w1 = w1
  w2 = w2
  r1 = r1
  r2 = r2
  None = None
  Contracts <- OneContract
  Workers <- OneWorker
  Requests <- TwoRequests
  Events <- SignEvents
  MaxAttempts = 2
  MaxPayload = 2
SPECIFICATION Spec
CHECK_DEADLOCK FALSE
PROPERTIES
  SignedContractIsKept
