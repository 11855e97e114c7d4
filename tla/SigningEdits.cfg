\* Edits, pages, links and signers beside SMS signatures, two requests in flight.
CONSTANTS
  s1 = s1
  s2 = s2
  r1 = r1
  r2 = r2
  None = None
  Signers <- TwoSigners
  Requests <- TwoRequests
  Handlers <- EditHandlers
  MaxVersion = 2
SPECIFICATION Spec
SYMMETRY Symmetry
CHECK_DEADLOCK FALSE
INVARIANTS
  TypeOK
  NoLostCompletion
PROPERTIES
  SmsSignatureCoversContent
