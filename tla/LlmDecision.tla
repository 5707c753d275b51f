------------------------------ MODULE LlmDecision ------------------------------
(***************************************************************************)
(* One decision of an agent, through its three layers: the attempts of     *)
(* LLMAgentActor.decide, the prompt and the JSON of LLMManager, and the    *)
(* errors of the provider.  The only await is the provider's request, so   *)
(* the handling of an answer up to the next request is one step.           *)
(*                                                                         *)
(* The server's answers are told apart as far as the code does:            *)
(*   timeout, unreachable, closed   the request itself fails; closed is    *)
(*                                  the client after LLMManager.close      *)
(*   401, 404, 429, 500, 400        one status of each class               *)
(*   no_body, no_map, error         a body that is no JSON, or JSON but no  *)
(*                                  object; an object with an error field  *)
(*   blank, prose, scalar, array    texts that are no JSON object          *)
(*   shape, rules, valid            objects: not an AgentAction, one that  *)
(*                                  _validate_action refuses, and a good   *)
(*                                  one                                    *)
(***************************************************************************)
EXTENDS Naturals, Sequences

CONSTANTS
    MaxAttempts,  \* LLMAgentActor.MAX_ATTEMPTS
    MaxDecisions  \* bound: decisions asked for
ASSUME MaxAttemptsAssumption == MaxAttempts \in Nat \ {0}
ASSUME MaxDecisionsAssumption == MaxDecisions \in Nat

VARIABLES
    provider,   \* the provider _create_provider has made; "none": no manager
    asked,      \* history: decisions asked for
    attempt,    \* the attempt that waits for its answer; 0: none does
    complaint,  \* validation_error
    answers,    \* history: the answers of this decision
    told,       \* history: the complaint in the prompt of each of its calls
    outcome     \* how the last decision ended

vars == <<provider, asked, attempt, complaint, answers, told, outcome>>

Transport == {"timeout", "unreachable", "closed"}
Status    == {"401", "404", "429", "500", "400"}
Body      == {"no_body", "no_map", "error"}
Text      == {"blank", "prose", "scalar", "array", "shape", "rules", "valid"}
Answer    == Transport \cup Status \cup Body \cup Text
Complaint == {"none", "object", "schema", "rules"}

TypeOK ==
    /\ provider \in {"ollama", "mock", "none"}
    /\ asked \in 0 .. MaxDecisions
    /\ attempt \in 0 .. MaxAttempts
    /\ complaint \in Complaint
    /\ answers \in Seq(Answer) /\ Len(answers) <= MaxAttempts
    /\ told \in Seq(Complaint) /\ Len(told) <= MaxAttempts
    /\ outcome \in {"none", "decided", "gave_up", "cancelled", "call_failed",
                    "no_json", "no_manager"}

Init ==
    /\ provider \in {"ollama", "mock", "none"}
    /\ asked = 0
    /\ attempt = 0
    /\ complaint = "none"
    /\ answers = <<>>
    /\ told = <<>>
    /\ outcome = "none"

-----------------------------------------------------------------------------
(* The provider and the manager *)

\* What the provider makes of the server's answer: the LLMProviderError's
\* code, "none" for a text, and the name of an exception that generate does
\* not turn into one: httpx counts a closed client as no request error.
ErrorCode(a) ==
    CASE a = "timeout"     -> "TIMEOUT"
      [] a = "unreachable" -> "CONNECTION_ERROR"
      [] a = "closed"      -> "RuntimeError"
      [] a = "401"         -> "AUTHENTICATION_ERROR"
      [] a = "404"         -> "MODEL_NOT_FOUND"
      [] a = "429"         -> "RATE_LIMITED"
      [] a = "500"         -> "PROVIDER_UNAVAILABLE"
      [] a = "400"         -> "BAD_REQUEST"
      [] a = "no_body"     -> "INVALID_RESPONSE"
      [] a = "no_map"      -> "AttributeError"
      [] a = "error"       -> "PROVIDER_ERROR"
      [] a = "blank"       -> "EMPTY_RESPONSE"
      [] OTHER             -> "none"

\* The errors a provider marks as worth another try.
Retryable(a) ==
    ErrorCode(a) \in {"TIMEOUT", "CONNECTION_ERROR", "RATE_LIMITED",
                      "PROVIDER_UNAVAILABLE", "INVALID_RESPONSE",
                      "PROVIDER_ERROR", "EMPTY_RESPONSE"}

\* The mock provider answers a request for JSON with an object of its own,
\* which describes the call and is no AgentAction.
MockAnswers == {"shape"}

\* What the provider in use can answer.
Answers == IF provider = "mock" THEN MockAnswers ELSE Answer

\* _parse_json_response: objects and arrays only, in a fence or not.
ParsesAsJson(a) == a \in {"array", "shape", "rules", "valid"}

-----------------------------------------------------------------------------
(* The attempts *)

\* One request: the prompt carries the complaint about the last answer.
Post(n, c) ==
    /\ attempt' = n
    /\ complaint' = c
    /\ told' = Append(told, c)

End(how) ==
    /\ attempt' = 0
    /\ outcome' = how
    /\ UNCHANGED <<complaint, told>>

\* Mutant: the complaint of the last decision is still there.
DecideAgain ==
    /\ provider # "none"
    /\ attempt = 0 /\ asked < MaxDecisions
    /\ asked' = asked + 1
    /\ answers' = <<>>
    /\ attempt' = 1
    /\ told' = <<complaint>>
    /\ outcome' = "none"
    /\ UNCHANGED <<provider, complaint>>

Decide ==
    /\ provider # "none"
    /\ attempt = 0 /\ asked < MaxDecisions
    /\ asked' = asked + 1
    /\ answers' = <<>>
    /\ attempt' = 1
    /\ complaint' = "none"
    /\ told' = <<"none">>
    /\ outcome' = "none"
    /\ UNCHANGED provider

\* Without a manager, or its prompt file, decide fails before its first call.
DecideNothing ==
    /\ provider = "none"
    /\ asked < MaxDecisions
    /\ asked' = asked + 1
    /\ outcome' = "no_manager"
    /\ UNCHANGED <<provider, attempt, complaint, answers, told>>

Receive(a) ==
    /\ attempt # 0
    /\ a \in Answers
    /\ answers' = Append(answers, a)
    /\ UNCHANGED <<provider, asked>>

\* Mutant: the HTTP client is made without a timeout.
TimesOutNever == attempt # 0 /\ FALSE /\ UNCHANGED vars

\* generate_json raises outside of decide's try: the decision ends with it,
\* and whether the error was retryable goes to the log.
TimesOut == Receive("timeout") /\ End("call_failed")

CallFails ==
    \E a \in Answer \ {"timeout"} :
        /\ Receive(a)
        /\ ErrorCode(a) # "none"
        /\ End("call_failed")

NoJson ==
    \E a \in Answer :
        /\ Receive(a)
        /\ ErrorCode(a) = "none" /\ ~ParsesAsJson(a)
        /\ End("no_json")

\* What decide writes into validation_error.
Complain(a) ==
    CASE a = "array" -> "object"
      [] a = "shape" -> "schema"
      [] a = "rules" -> "rules"

\* Mutant: one attempt too many.
RefuseOnceMore ==
    \E a \in Answer :
        /\ Receive(a)
        /\ ParsesAsJson(a) /\ a # "valid"
        /\ IF attempt <= MaxAttempts
           THEN Post(attempt + 1, Complain(a)) /\ UNCHANGED outcome
           ELSE End("gave_up")

\* JSON that is no valid action: another attempt, or the ValueError.
Refuse ==
    \E a \in Answer :
        /\ Receive(a)
        /\ ParsesAsJson(a) /\ a # "valid"
        /\ IF attempt < MaxAttempts
           THEN Post(attempt + 1, Complain(a)) /\ UNCHANGED outcome
           ELSE End("gave_up")

Accept == Receive("valid") /\ End("decided")

\* The tick's task is cancelled while it awaits the answer.
Cancel ==
    /\ attempt # 0
    /\ End("cancelled")
    /\ UNCHANGED <<provider, asked, answers>>

Next ==
    \/ Decide \/ DecideNothing
    \/ TimesOut \/ CallFails \/ NoJson \/ Refuse \/ Accept
    \/ Cancel

Spec == Init /\ [][Next]_vars

\* Of the server nothing is assumed, only that the client's timeout comes
\* when no answer does; the mock provider answers by itself.
FairSpec ==
    /\ Spec
    /\ WF_vars(TimesOut)
    /\ WF_vars(provider = "mock" /\ Refuse)

-----------------------------------------------------------------------------
(* Safety *)

\* A prompt asks for a correction exactly of the answer before it, and the
\* first prompt of a decision of nothing, whatever the last decision met.
ComplaintsAreAboutTheLastAnswer ==
    \A n \in 1 .. Len(told) :
        told[n] = IF n = 1 THEN "none" ELSE Complain(answers[n - 1])

\* A second call follows on JSON only: no failed call and no text that is no
\* JSON is ever tried again, the retryable errors included.
OnlyJsonIsTriedAgain ==
    \A n \in 1 .. Len(answers) :
        n < Len(told) => ParsesAsJson(answers[n]) /\ ~Retryable(answers[n])

\* With the provider "mock" no decision is ever made: each costs all the
\* attempts and fails the tick.
MockProviderNeverDecides ==
    provider = "mock" /\ attempt = 0 /\ outcome # "none" =>
        \/ outcome = "cancelled"
        \/ outcome = "gave_up" /\ Len(answers) = MaxAttempts

\* The decision keeps the promise TerrariumTick relies on.
Calls == INSTANCE DecisionCalls WITH MaxCalls <- MaxAttempts, call <- attempt
ImplementsCalls == Calls!Spec

(* Liveness *)

\* Every decision ends, whatever the LLM answers.
DecisionsEnd == attempt # 0 ~> attempt = 0
=============================================================================
