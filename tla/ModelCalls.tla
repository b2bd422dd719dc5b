------------------------------ MODULE ModelCalls ------------------------------
(***************************************************************************)
(* What an agent's run sends to the model: the runtime builds a list of    *)
(* messages, extends it by the plan, the tool calls with their results and *)
(* the reflections, and passes the whole list to the provider of the       *)
(* primary model, which makes its own request of it; a failed request goes *)
(* to the fallback model once.                                             *)
(*                                                                         *)
(* A message is its role and what it is: its text is abstracted.           *)
(***************************************************************************)
EXTENDS Naturals, Sequences, FiniteSets

CONSTANTS
  Primaries,    \* the providers an agent's primary model may name
  MaxRounds,    \* bound: rounds of tool calls
  MaxParallel,  \* bound: tool calls in one answer
  ReflectEvery  \* reflection_interval

ASSUME CallsAssumption ==
  /\ MaxRounds \in Nat
  /\ MaxParallel \in Nat \ {0}
  /\ ReflectEvery \in Nat \ {0}

Providers == {"anthropic", "claude-code", "openai", "ollama"}
NoModel == "no model"

VARIABLES
  registered,  \* the providers that the daemon found
  primary,     \* the provider that the agent's primary model names
  fallback,    \* and the one its fallback names, or NoModel
  planning,    \* planning_enabled
  streaming,   \* streaming: answers are assembled from the chunks of a stream
  messages,    \* the list
  runPhase,    \* what the run does next
  rounds,      \* rounds of tool calls so far
  sinceReflection, \* tool_calls_since_reflection
  request      \* the last request: who got it, and which messages it holds

callsVars == <<registered, primary, fallback, planning, streaming, messages, runPhase, rounds,
               sinceReflection, request>>
agentVars == <<registered, primary, fallback, planning, streaming>>

NoRequest == [to |-> NoModel, model |-> NoModel, list |-> <<>>, seen |-> {}]
Msg(role, what) == [role |-> role, what |-> what]
Positions(role) == {i \in DOMAIN messages : messages[i].role = role}
First(S) == {i \in S : \A j \in S : i <= j}
Last(S) == {i \in S : \A j \in S : j <= i}

(* Earlier turns, and the memories that were found relevant. *)
Beginnings ==
  {Memory \o History : Memory \in {<<>>, <<Msg("system", "memory")>>},
                       History \in {<<>>, <<Msg("user", "earlier"), Msg("assistant", "answer")>>}}

CallsInit ==
  /\ registered \in SUBSET Providers
  /\ primary \in Primaries
  /\ fallback \in Primaries \cup {NoModel}
  /\ planning \in BOOLEAN /\ streaming \in BOOLEAN
  /\ \E b \in Beginnings :
       messages = <<Msg("system", "prompt")>> \o b \o <<Msg("user", "question")>>
  /\ runPhase = IF planning THEN "planning" ELSE "asking"
  /\ rounds = 0 /\ sinceReflection = 0
  /\ request = NoRequest

-----------------------------------------------------------------------------
(* build_request_body of the providers: the positions of the messages that *)
(* reach the model.                                                        *)

(* Anthropic has one system prompt: each one found replaces the one before.*)
AnthropicSees == Last(Positions("system")) \cup (DOMAIN messages \ Positions("system"))

OpenAISees == DOMAIN messages

(* Tool calls become an empty message of the user. *)
OllamaSees == DOMAIN messages \ Positions("calls")

(* The first system prompt, the last message of the user, and of the other *)
(* messages the texts and results of all but the last.                     *)
ClaudeCodeSees ==
  LET conversation == DOMAIN messages \ Positions("system")
  IN First(Positions("system")) \cup Last(Positions("user"))
       \cup ((conversation \ Last(conversation)) \ Positions("calls"))

Sees(provider) ==
  CASE provider = "anthropic" -> AnthropicSees
    [] provider = "openai" -> OpenAISees
    [] provider = "ollama" -> OllamaSees
    [] provider = "claude-code" -> ClaudeCodeSees

Asked(to, model) ==
  request' = [to |-> to, model |-> model, list |-> messages, seen |-> Sees(to)]

-----------------------------------------------------------------------------
(* The planning prompt is added, and the plan if there is one: an error,   *)
(* or a provider that is not registered, is passed over.                   *)
Plan ==
  /\ runPhase = "planning"
  /\ \/ /\ primary \in registered
        /\ messages' = messages \o <<Msg("system", "plan it"), Msg("assistant", "plan")>>
     \/ messages' = Append(messages, Msg("system", "plan it"))
  /\ runPhase' = "asking"
  /\ UNCHANGED <<agentVars, rounds, sinceReflection, request>>

ReflectionDue == planning /\ sinceReflection >= ReflectEvery

Reflect ==
  /\ runPhase = "asking" /\ ReflectionDue
  /\ \/ /\ primary \in registered
        /\ messages' = messages \o <<Msg("system", "reflect"), Msg("assistant", "reflection")>>
     \/ messages' = Append(messages, Msg("system", "reflect"))
  /\ sinceReflection' = 0
  /\ UNCHANGED <<agentVars, runPhase, rounds, request>>

-----------------------------------------------------------------------------
(* How many tool calls the providers make of an answer: a list that may    *)
(* be empty is still one of tool calls to OpenAI's provider; Ollama's      *)
(* reads the text alone; Claude Code's takes the first call it finds, and  *)
(* its stream passes on the text only.                                     *)
AnthropicAnswers == 1 .. MaxParallel
OpenAIAnswers == IF streaming THEN 1 .. MaxParallel ELSE 0 .. MaxParallel
OllamaAnswers == {}
ToolUse == {1}
ClaudeCodeAnswers == IF streaming THEN {} ELSE ToolUse

CallsIn(provider) ==
  CASE provider = "anthropic" -> AnthropicAnswers
    [] provider = "openai" -> OpenAIAnswers
    [] provider = "ollama" -> OllamaAnswers
    [] provider = "claude-code" -> ClaudeCodeAnswers

AnswersText ==
  /\ runPhase' = "completed"
  /\ messages' = Append(messages, Msg("assistant", "answer"))

AnswersCalls ==
  /\ rounds < MaxRounds
  /\ \E n \in CallsIn(primary) : messages' = Append(messages, [role |-> "calls", what |-> n])
  /\ runPhase' = "executing"

(* Whatever the error: a status, a timeout, an answer that does not parse. *)
RequestFails ==
  /\ runPhase' = "falling back"
  /\ UNCHANGED messages

(* The request to the primary model: a text ends the run, tool calls are   *)
(* executed, and an error is left to the fallback.                         *)
Ask ==
  /\ runPhase = "asking" /\ ~ReflectionDue
  /\ primary \in registered
  /\ Asked(primary, "primary")
  /\ AnswersText \/ AnswersCalls \/ RequestFails
  /\ UNCHANGED <<agentVars, rounds, sinceReflection>>

(* No provider of that name: the router's error is handled like another. *)
ProviderNotFound ==
  /\ runPhase = "asking" /\ ~ReflectionDue
  /\ primary \notin registered
  /\ runPhase' = "falling back"
  /\ UNCHANGED <<agentVars, messages, rounds, sinceReflection, request>>

(* Slip: the first error ends the round, as it ends the request. *)
ExecuteToolsUntilError ==
  /\ runPhase = "executing"
  /\ \E n \in 1 .. messages[Len(messages)].what :
       /\ messages' = messages \o [i \in 1 .. n |-> [role |-> "result", what |-> i]]
       /\ sinceReflection' = sinceReflection + n
  /\ rounds' = rounds + 1
  /\ runPhase' = "asking"
  /\ UNCHANGED <<agentVars, request>>

(* The tool calls of the answer, each with its result, in their order. *)
ExecuteTools ==
  /\ runPhase = "executing"
  /\ LET n == messages[Len(messages)].what
     IN /\ messages' = messages \o [i \in 1 .. n |-> [role |-> "result", what |-> i]]
        /\ sinceReflection' = sinceReflection + n
  /\ rounds' = rounds + 1
  /\ runPhase' = "asking"
  /\ UNCHANGED <<agentVars, request>>

(* The answer of the fallback model ends the run: its tool calls are       *)
(* dropped.                                                                *)
FallBack ==
  /\ runPhase = "falling back" /\ fallback \in registered
  /\ Asked(fallback, "fallback")
  /\ runPhase' \in {"completed", "failed"}
  /\ UNCHANGED <<agentVars, messages, rounds, sinceReflection>>

NoFallback ==
  /\ runPhase = "falling back" /\ fallback \notin registered
  /\ runPhase' = "failed"
  /\ UNCHANGED <<agentVars, messages, rounds, sinceReflection, request>>

CallsNext == Plan \/ Reflect \/ Ask \/ ProviderNotFound \/ ExecuteTools \/ FallBack \/ NoFallback
CallsSpec == CallsInit /\ [][CallsNext]_callsVars

-----------------------------------------------------------------------------
CallsTypeOK ==
  /\ registered \subseteq Providers
  /\ runPhase \in {"planning", "asking", "executing", "falling back", "completed", "failed"}
  /\ request.seen \subseteq DOMAIN request.list
  /\ rounds \in 0 .. MaxRounds

(* The protocol of the providers' APIs: in whatever is sent, to the        *)
(* fallback model too, the tool calls of an answer are followed by all of  *)
(* their results, in order and before anything else, though plans and      *)
(* reflections are put in between the rounds.                              *)
CallsAreAnswered ==
  LET list == request.list
  IN \A i \in DOMAIN list : list[i].role = "calls" =>
       \A k \in 1 .. list[i].what :
         /\ i + k \in DOMAIN list
         /\ list[i + k] = [role |-> "result", what |-> k]

(* What the provider says it does: it converts our messages. *)
MessagesReachModel ==
  request.to = "anthropic" => request.seen = DOMAIN request.list

(* The same of Claude Code and the results of the tools. *)
ResultsReachModel ==
  \A i \in DOMAIN request.list : request.list[i].role = "result" => i \in request.seen
=============================================================================
