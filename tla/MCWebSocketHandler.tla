--------------------------- MODULE MCWebSocketHandler ---------------------------
(* Symmetry for the model checking of WebSocketHandler. *)
EXTENDS WebSocketHandler

\* Connections, and tasks, are interchangeable in the safety properties.
MCSymmetry == Permutations(Conn) \cup Permutations(Task)
=============================================================================
