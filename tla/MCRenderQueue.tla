---------------------------- MODULE MCRenderQueue ----------------------------
(* Instances of RenderQueue for TLC.                                       *)
EXTENDS RenderQueue, TLC

CONSTANTS c1, c2, w1, w2, r1, r2

OneContract == {c1}
TwoContracts == {c1, c2}
OneWorker == {w1}
TwoWorkers == {w1, w2}
OneRequest == {r1}
TwoRequests == {r1, r2}

LiveEvents == {"crash", "stall"}
AllEvents == {"update", "page", "crash", "stall", "abort", "sign"}
CrashEvents == {"crash"}
SignEvents == {"update", "sign"}

Symmetry == Permutations(TwoRequests) \cup Permutations(TwoWorkers)
=============================================================================
