----------------------------- MODULE DecisionCalls -----------------------------
(***************************************************************************)
(* What a decision by an LLM promises to the tick that waits for it: calls *)
(* one after the other, MaxCalls at most, and then its end, whatever that  *)
(* is.  A call is repeated only while the decision is open.                *)
(***************************************************************************)
EXTENDS Naturals

CONSTANT MaxCalls

VARIABLE call  \* the call the decision waits for; 0 between two decisions

Init == call = 0

Ask      == call = 0 /\ call' = 1
AskAgain == call \in 1 .. (MaxCalls - 1) /\ call' = call + 1
End      == call # 0 /\ call' = 0

Next == Ask \/ AskAgain \/ End
Spec == Init /\ [][Next]_call
=============================================================================
