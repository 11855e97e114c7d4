\* ECP beside eGov Mobile signatures, links and late signers, two requests in flight.
CONSTANTS
  s1 = s1
  s2 = s2
  r1 = r1
  r2 = r2
  None = None
  Signers <- TwoSigners
  Requests <- TwoRequests
  Handlers <- ProviderHandlers
  MaxVersion = 2
SPECIFICATION Spec
SYMMETRY Symmetry
CHECK_DEADLOCK FALSE
INVARIANTS
  SignedSignerHasSignature
PROPERTIES
  SignedDocumentIsImmutable
  SignaturesAreFinal
  KeepsTheContract
