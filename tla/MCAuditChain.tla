---------------------------- MODULE MCAuditChain ----------------------------
(* Instances of AuditChain for TLC.                                        *)
EXTENDS AuditChain, TLC

CONSTANTS r1, r2, opened, signed

TwoRequests == {r1, r2}
TwoEvents == {opened, signed}

Symmetry == Permutations(TwoRequests) \cup Permutations(TwoEvents)
=============================================================================
