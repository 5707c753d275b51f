------------------------- MODULE MCSimulationManager -------------------------
(* Instances of SimulationManager for TLC. *)
EXTENDS SimulationManager, TLC

CONSTANTS r1, r2, r3, l1, l2, l3, l4

MCReq == {r1, r2, r3}
MCLoop == {l1, l2, l3, l4}
MCReqPair == {r1, r2}
MCLoopPair == {l1, l2, l3}

\* Requests are interchangeable, and so are task identities.
MCSymmetry == Permutations(MCReq) \cup Permutations(MCLoop)
=============================================================================
