\* A deletion beside the vice rector's signature.
CONSTANTS
  AdRequests = {r1, r2}
  NoAdRequest = None
  MaxVersion = 1
SPECIFICATION AdSpec
CHECK_DEADLOCK FALSE
PROPERTIES
  DeletionSparesRector
