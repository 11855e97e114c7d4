\* An edit that passed its check before a signature.
CONSTANTS
  s1 = s1
  s2 = s2
  r1 = r1
  r2 = r2
  None = None
  Signers <- TwoSigners
  Requests <- TwoRequests
  Handlers <- RaceHandlers
  MaxVersion = 2
SPECIFICATION Spec
SYMMETRY Symmetry
CHECK_DEADLOCK FALSE
PROPERTIES
  NoEditAfterFirstSignature
