---------------------------- MODULE MCTerrariumTick ----------------------------
(* Bounded instances of TerrariumTick. *)
EXTENDS TerrariumTick

MCMoods == {"calm"}
MCHostile == -98
MCDeltas == {-3, 0}
MCReplies == {7}

\* Agents that are created without a history, or with two observations.
MCHistories == {<<>>, <<<<"OBSERVE", Nobody>>, <<"OBSERVE", Nobody>>>>}
=============================================================================
