\* Two overlapping appends and verify_audit_chain.
CONSTANTS
  r1 = r1
  r2 = r2
  opened = opened
  signed = signed
  Requests <- TwoRequests
  Events <- TwoEvents
  MaxEntries = 3
  MaxAppends = 2
SPECIFICATION Spec
SYMMETRY Symmetry
CHECK_DEADLOCK FALSE
INVARIANTS
  ChainVerifies
