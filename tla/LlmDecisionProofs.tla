-------------------------- MODULE LlmDecisionProofs ---------------------------
(***************************************************************************)
(* For any number of attempts: the prompts of a decision, and that it      *)
(* keeps the promise of DecisionCalls.  The invariant pairs the prompts of *)
(* a decision with its answers: one prompt more than answers while a call  *)
(* is open, and every answer but the last was complained about.            *)
(***************************************************************************)
EXTENDS LlmDecision, TLAPS

Refused == {"array", "shape", "rules"}

Paired ==
    /\ Len(answers) <= Len(told) /\ Len(told) <= Len(answers) + 1
    /\ attempt # 0 => Len(told) = attempt /\ Len(answers) = attempt - 1
    /\ Len(told) > 0 => told[1] = "none"
    /\ \A n \in 1 .. Len(answers) :
          n < Len(told) => answers[n] \in Refused /\ told[n + 1] = Complain(answers[n])

MockInv ==
    provider = "mock" =>
        /\ attempt # 0 => outcome = "none"
        /\ outcome \in {"none", "cancelled", "gave_up"}
        /\ outcome = "gave_up" => Len(answers) = MaxAttempts

DecisionInv == TypeOK /\ Paired /\ MockInv

-----------------------------------------------------------------------------

\* What was complained about was JSON, and never a failed call.
LEMMA RefusedIsJson ==
  \A a \in Refused : /\ ParsesAsJson(a) /\ ~Retryable(a)
                     /\ Complain(a) \in Complaint
  BY DEF Refused, ParsesAsJson, Retryable, ErrorCode, Complain, Complaint

\* The JSON that is no valid action.
LEMMA RefuseMeetsRefused ==
  \A a \in Answer : ParsesAsJson(a) /\ a # "valid" => a \in Refused
  BY DEF ParsesAsJson, Refused

\* The answers of one kind or another are all answers.
LEMMA AnswersAreAnswers == Answers \subseteq Answer
  BY DEF Answers, MockAnswers, Answer, Text

LEMMA DecisionInit == Init => DecisionInv
  BY MaxAttemptsAssumption, MaxDecisionsAssumption
     DEF Init, DecisionInv, TypeOK, Paired, MockInv, Complaint

\* An answer that ends the decision.
LEMMA EndKeepsPairs ==
  ASSUME DecisionInv, NEW a \in Answers, Receive(a),
         NEW how \in {"call_failed", "no_json", "gave_up", "decided"}, End(how)
  PROVE  TypeOK' /\ Paired'
  <1> USE MaxAttemptsAssumption, MaxDecisionsAssumption, AnswersAreAnswers
  <1>1. TypeOK'
    BY DEF DecisionInv, TypeOK, Paired, Receive, End
  <1>2. /\ Len(answers') = Len(answers) + 1
        /\ \A n \in 1 .. Len(answers) : answers'[n] = answers[n]
        /\ told' = told /\ attempt' = 0
        /\ Len(told) = Len(answers) + 1
    BY DEF DecisionInv, TypeOK, Paired, Receive, End
  <1>3. \A n \in 1 .. Len(answers') :
           n < Len(told') => answers'[n] \in Refused /\ told'[n + 1] = Complain(answers'[n])
    BY <1>2 DEF DecisionInv, TypeOK, Paired
  <1> QED
    BY <1>1, <1>2, <1>3 DEF DecisionInv, TypeOK, Paired

\* An answer that is complained about.
LEMMA PostKeepsPairs ==
  ASSUME DecisionInv, NEW a \in Answers, Receive(a), a \in Refused,
         attempt < MaxAttempts, Post(attempt + 1, Complain(a)), UNCHANGED outcome
  PROVE  TypeOK' /\ Paired'
  <1> USE MaxAttemptsAssumption, MaxDecisionsAssumption, AnswersAreAnswers,
          RefusedIsJson
  <1>1. TypeOK'
    BY DEF DecisionInv, TypeOK, Paired, Receive, Post
  <1>2. /\ Len(answers') = Len(answers) + 1
        /\ \A n \in 1 .. Len(answers) : answers'[n] = answers[n]
        /\ answers'[Len(answers) + 1] = a
        /\ Len(told') = Len(told) + 1
        /\ \A n \in 1 .. Len(told) : told'[n] = told[n]
        /\ told'[Len(told) + 1] = Complain(a)
        /\ attempt' = attempt + 1 /\ attempt # 0
        /\ Len(told) = Len(answers) + 1 /\ Len(told) = attempt
    BY DEF DecisionInv, TypeOK, Paired, Receive, Post
  <1>3. \A n \in 1 .. Len(answers') :
           n < Len(told') => answers'[n] \in Refused /\ told'[n + 1] = Complain(answers'[n])
    <2> SUFFICES ASSUME NEW n \in 1 .. Len(answers')
                 PROVE answers'[n] \in Refused /\ told'[n + 1] = Complain(answers'[n])
      OBVIOUS
    <2>1. CASE n \in 1 .. Len(answers)
      BY <1>2, <2>1 DEF DecisionInv, TypeOK, Paired
    <2>2. CASE n = Len(answers) + 1
      BY <1>2, <2>2
    <2>3. Len(answers) \in Nat
      BY DEF DecisionInv, TypeOK
    <2> QED
      BY <1>2, <2>1, <2>2, <2>3
  <1> QED
    BY <1>1, <1>2, <1>3 DEF DecisionInv, TypeOK, Paired

LEMMA DecisionStep == DecisionInv /\ [Next]_vars => DecisionInv'
  <1> SUFFICES ASSUME DecisionInv, [Next]_vars PROVE DecisionInv'
    OBVIOUS
  <1> USE MaxAttemptsAssumption, MaxDecisionsAssumption
  <1>1. CASE Decide
    BY <1>1 DEF Decide, DecisionInv, TypeOK, Paired, MockInv, Complaint
  <1>2. CASE DecideNothing
    BY <1>2 DEF DecideNothing, DecisionInv, TypeOK, Paired, MockInv
  <1>3. CASE TimesOut
    <2>1. "timeout" \in Answers /\ provider # "mock"
      BY <1>3 DEF TimesOut, Receive, Answers, MockAnswers
    <2>2. TypeOK' /\ Paired'
      BY <1>3, <2>1, EndKeepsPairs DEF TimesOut
    <2> QED
      BY <1>3, <2>1, <2>2 DEF TimesOut, Receive, DecisionInv, MockInv
  <1>4. CASE CallFails
    <2>1. PICK a \in Answers : /\ Receive(a) /\ ErrorCode(a) # "none"
                               /\ End("call_failed")
      BY <1>4 DEF CallFails, Receive
    <2>2. TypeOK' /\ Paired'
      BY <2>1, EndKeepsPairs
    <2>3. provider # "mock"
      BY <2>1 DEF Answers, MockAnswers, ErrorCode
    <2> QED
      BY <2>1, <2>2, <2>3 DEF Receive, DecisionInv, MockInv
  <1>5. CASE NoJson
    <2>1. PICK a \in Answers : /\ Receive(a) /\ ~ParsesAsJson(a)
                               /\ End("no_json")
      BY <1>5 DEF NoJson, Receive
    <2>2. TypeOK' /\ Paired'
      BY <2>1, EndKeepsPairs
    <2>3. provider # "mock"
      BY <2>1 DEF Answers, MockAnswers, ParsesAsJson
    <2> QED
      BY <2>1, <2>2, <2>3 DEF Receive, DecisionInv, MockInv
  <1>6. CASE Refuse
    <2>1. PICK a \in Answer :
            /\ Receive(a) /\ ParsesAsJson(a) /\ a # "valid"
            /\ IF attempt < MaxAttempts
               THEN Post(attempt + 1, Complain(a)) /\ UNCHANGED outcome
               ELSE End("gave_up")
      BY <1>6 DEF Refuse
    <2>2. a \in Answers /\ a \in Refused
      BY <2>1, RefuseMeetsRefused DEF Receive
    <2>3. CASE attempt < MaxAttempts
      <3>1. TypeOK' /\ Paired'
        BY <2>1, <2>2, <2>3, PostKeepsPairs
      <3> QED
        BY <2>1, <2>3, <3>1 DEF Receive, Post, DecisionInv, TypeOK, MockInv
    <2>4. CASE ~(attempt < MaxAttempts)
      <3>1. TypeOK' /\ Paired'
        BY <2>1, <2>2, <2>4, EndKeepsPairs
      <3>2. Len(answers') = MaxAttempts
        BY <2>1, <2>4 DEF Receive, DecisionInv, TypeOK, Paired
      <3> QED
        BY <2>1, <2>4, <3>1, <3>2 DEF Receive, End, DecisionInv, MockInv
    <2> QED
      BY <2>3, <2>4
  <1>7. CASE Accept
    <2>1. "valid" \in Answers /\ provider # "mock"
      BY <1>7 DEF Accept, Receive, Answers, MockAnswers
    <2>2. TypeOK' /\ Paired'
      BY <1>7, <2>1, EndKeepsPairs DEF Accept
    <2> QED
      BY <1>7, <2>1, <2>2 DEF Accept, Receive, DecisionInv, MockInv
  <1>8. CASE Cancel
    BY <1>8 DEF Cancel, End, DecisionInv, TypeOK, Paired, MockInv
  <1>9. CASE UNCHANGED vars
    BY <1>9 DEF vars, DecisionInv, TypeOK, Paired, MockInv
  <1> QED
    BY <1>1, <1>2, <1>3, <1>4, <1>5, <1>6, <1>7, <1>8, <1>9 DEF Next

\* The invariant behind the theorems, LLMAgentActor.decide's types included.
THEOREM DecisionInvariant == Spec => []DecisionInv
  BY DecisionInit, DecisionStep, PTL DEF Spec

\* attempt, prompts, answers and outcome of LLMAgentActor.decide have their types.
THEOREM TypeCorrect == Spec => []TypeOK
  BY DecisionInvariant, PTL DEF DecisionInv

\* decide's validation_error: prompts correct the answer just before them.
THEOREM PromptsCorrectTheLastAnswer == Spec => []ComplaintsAreAboutTheLastAnswer
  <1>1. DecisionInv => ComplaintsAreAboutTheLastAnswer
    <2> SUFFICES ASSUME DecisionInv, NEW n \in 1 .. Len(told)
                 PROVE told[n] = IF n = 1 THEN "none" ELSE Complain(answers[n - 1])
      BY DEF ComplaintsAreAboutTheLastAnswer
    <2>1. CASE n = 1
      BY <2>1 DEF DecisionInv, TypeOK, Paired
    <2>2. CASE n # 1
      <3>1. n - 1 \in 1 .. Len(answers) /\ n - 1 < Len(told)
        BY <2>2 DEF DecisionInv, TypeOK, Paired
      <3>2. told[(n - 1) + 1] = Complain(answers[n - 1])
        BY <3>1 DEF DecisionInv, Paired
      <3> QED
        BY <2>2, <3>2
    <2> QED
      BY <2>1, <2>2
  <1> QED
    BY DecisionInvariant, <1>1, PTL

\* LLMManager.generate_json: what it raises is never tried again by decide.
THEOREM ErrorsAreFinal == Spec => []OnlyJsonIsTriedAgain
  <1>1. DecisionInv => OnlyJsonIsTriedAgain
    BY RefusedIsJson DEF DecisionInv, Paired, OnlyJsonIsTriedAgain
  <1> QED
    BY DecisionInvariant, <1>1, PTL

\* MockLLMProvider's JSON is no AgentAction, whatever the number of attempts.
THEOREM MockDecidesNothing == Spec => []MockProviderNeverDecides
  <1>1. DecisionInv => MockProviderNeverDecides
    BY DEF DecisionInv, MockInv, MockProviderNeverDecides
  <1> QED
    BY DecisionInvariant, <1>1, PTL

\* decide keeps the promise that run_tick relies on: calls one by one, at
\* most MAX_ATTEMPTS of them, then an end.
THEOREM DecisionsKeepTheirPromise == Spec => ImplementsCalls
  <1>1. Init => Calls!Init
    BY DEF Init, Calls!Init
  <1>2. DecisionInv /\ [Next]_vars => [Calls!Next]_attempt
    <2> SUFFICES ASSUME DecisionInv, Next PROVE [Calls!Next]_attempt
      BY DEF vars
    <2> USE MaxAttemptsAssumption
        DEF Calls!Next, Calls!Ask, Calls!AskAgain, Calls!End, Post, End
    <2>1. CASE Decide
      BY <2>1 DEF Decide
    <2>2. CASE DecideNothing
      BY <2>2 DEF DecideNothing
    <2>3. CASE TimesOut \/ CallFails \/ NoJson \/ Accept
      BY <2>3 DEF TimesOut, CallFails, NoJson, Accept, Receive
    <2>4. CASE Refuse
      BY <2>4 DEF Refuse, Receive, DecisionInv, TypeOK
    <2>5. CASE Cancel
      BY <2>5 DEF Cancel
    <2> QED
      BY <2>1, <2>2, <2>3, <2>4, <2>5 DEF Next
  <1> QED
    BY <1>1, <1>2, DecisionInvariant, PTL DEF Spec, ImplementsCalls, Calls!Spec
=============================================================================
