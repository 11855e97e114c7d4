\* One request at a time: what the edit check is meant to ensure, and the last of two signers,
\* by any provider.
CONSTANTS
  s1 = s1
  s2 = s2
  r1 = r1
  r2 = r2
  None = None
  Signers <- TwoSigners
  Requests <- OneRequest
  Handlers <- AllHandlers
  MaxVersion = 2
SPECIFICATION Spec
SYMMETRY Symmetry
CHECK_DEADLOCK FALSE
INVARIANTS
  SignaturesAgree
PROPERTIES
  NoEditAfterFirstSignature
  NoSignerAfterFirstSignature
  SignedSignerStaysSigned
  LastCompletionSignsDocument
