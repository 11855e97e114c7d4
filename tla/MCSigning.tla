------------------------------ MODULE MCSigning ------------------------------
(* Instances of Signing for TLC: two signers, one or two requests in       *)
(* flight, and the handlers each run lets them enter.                      *)
EXTENDS Signing, TLC

CONSTANTS s1, s2, r1, r2

TwoSigners == {s1, s2}
OneRequest == {r1}
TwoRequests == {r1, r2}

EditHandlers == {"link", "page", "callback", "fill", "add", "sms", "crash"}
ProviderHandlers == {"link", "add", "choose", "ecp", "egov", "crash"}
AllHandlers == EditHandlers \cup ProviderHandlers
RaceHandlers == {"callback", "sms"}

Symmetry == Permutations(TwoSigners) \cup Permutations(TwoRequests)
=============================================================================
