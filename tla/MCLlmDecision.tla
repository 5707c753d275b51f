---------------------------- MODULE MCLlmDecision -----------------------------
(* LlmDecision with the three attempts of the code and two decisions.      *)
EXTENDS LlmDecision
=============================================================================
