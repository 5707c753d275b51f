--------------------------- MODULE MCTerrariumClient ---------------------------
(* A bounded instance of TerrariumClient. *)
EXTENDS TerrariumClient
=============================================================================
