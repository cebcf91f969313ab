-------------------------------- MODULE Turn --------------------------------
(***************************************************************************)
(* One turn of the dispatcher, between the history it loads and the reply  *)
(* it posts (process_inbound): requests in the format of the model's       *)
(* provider (services/providers), answers, retries, tool calls.            *)
(*                                                                         *)
(* Abstractions.  A message is its role, the tool calls it makes or        *)
(* answers, and its length in tokens; text, prices and token counts of     *)
(* answers are left out, and so is the volatile part of the system prompt, *)
(* which process_inbound never sends.  What a tool does is outside.        *)
(***************************************************************************)
EXTENDS Integers, FiniteSetsExt, SequencesExt

CONSTANTS Providers,     \* among "anthropic", "openai", "local", "ollama_cloud"
          NumCtx,        \* OLLAMA_NUM_CTX
          SystemTokens,  \* length of the boot document
          OutputReserve, \* _OUTPUT_RESERVE
          MaxToolIter,   \* MAX_TOOL_ITER
          Tokens,        \* lengths of messages
          MaxRows,       \* bound: rows of a session
          MaxCalls       \* bound: tool calls in one answer

VARIABLES provider,  \* of the session's model
          messages,  \* the conversation so far, in the normalized format
          request,   \* the messages of the last request, in the provider's format
          iteration, \* of the tool loop
          attempt,   \* of the current call
          supports,  \* models.supports_tools
          reply,     \* what is posted in the end
          at         \* where the turn is

vars == <<provider, messages, request, iteration, attempt, supports, reply, at>>

(***************************************************************************)
(* The normalized format                                                   *)
(***************************************************************************)

Plain(role, t) == [role |-> role, calls |-> <<>>, results |-> <<>>, tokens |-> t]

\* The calls of an answer and what the tools returned for them.
AssistantMessage(calls, t) == [Plain("assistant", t) EXCEPT !.calls = calls]
ToolResultMessage(calls, t) == [Plain("user", t) EXCEPT !.results = calls]

\* The newest rows of a session, from the first of a user on.
History(rows, window) ==
    LET newest == SubSeq(rows, Max({1, Len(rows) - window + 1}), Len(rows))
        ofUser == {i \in DOMAIN newest : newest[i].role = "user"}
    IN  IF ofUser = {} THEN <<>> ELSE SubSeq(newest, Min(ofUser), Len(newest))

(***************************************************************************)
(* The providers' formats                                                  *)
(***************************************************************************)

Total(msgs) == FoldSeq(LAMBDA m, n : m.tokens + n, 0, msgs)

\* _trim of a local model: the newest messages that fit beside the system prompt,
\* the last one always, and none of the assistant before the first of a user.
Trim(msgs) ==
    LET budget == NumCtx - SystemTokens - OutputReserve
        Newest(i) == SubSeq(msgs, i, Len(msgs))
        fits == {i \in DOMAIN msgs : i = Len(msgs) \/ Total(Newest(i)) <= budget}
        opens == {i \in DOMAIN msgs : i >= Min(fits) /\ msgs[i].role = "user"}
    IN  IF budget <= 0 \/ opens = {} THEN <<Last(msgs)>> ELSE Newest(Min(opens))

\* A message as it stands, and one whose results are a message each.
Verbatim(m) == [role |-> m.role, calls |-> m.calls, results |-> m.results]
FannedOut(m) ==
    IF m.results = <<>> THEN <<Verbatim(m)>>
    ELSE [i \in DOMAIN m.results |-> [role |-> "tool", calls |-> <<>>, results |-> <<m.results[i]>>]]

\* The messages of a request, after the system prompt.  OpenAI and Ollama have the
\* second form; a local model is sent what _trim leaves, Ollama's cloud everything.
AnthropicMessages(msgs) == [i \in DOMAIN msgs |-> Verbatim(msgs[i])]
OpenAIMessages(msgs) == FlattenSeq([i \in DOMAIN msgs |-> FannedOut(msgs[i])])
OllamaMessages(msgs) == OpenAIMessages(Trim(msgs))
CloudMessages(msgs) == OpenAIMessages(msgs)

FormatRequest(p, msgs) ==
    CASE p = "anthropic" -> AnthropicMessages(msgs)
      [] p = "openai" -> OpenAIMessages(msgs)
      [] p = "local" -> OllamaMessages(msgs)
      [] p = "ollama_cloud" -> CloudMessages(msgs)

\* How often a call is tried: the SDKs are given five retries.
SdkTries == 6
OllamaTries == 3
Tries(p) == IF p \in {"anthropic", "openai"} THEN SdkTries ELSE OllamaTries

\* Why an answer ends, in the provider's words and in those of parse_response.  Ollama
\* has no word for calls of tools: that there are any is the sign.
NativeReasons(p) ==
    CASE p = "anthropic" -> {"tool_use", "end_turn", "max_tokens"}
      [] p = "openai" -> {"tool_calls", "stop", "length", "content_filter"}
      [] OTHER -> {"stop", "length"}

OpenAIReason(native) ==
    CASE native = "tool_calls" -> "tool_use" [] native = "stop" -> "end_turn"
      [] native = "length" -> "max_tokens" [] OTHER -> "other"
OllamaReason(calls, native) == IF calls # <<>> THEN "tool_use" ELSE OpenAIReason(native)

StopReason(p, calls, native) ==
    CASE p = "anthropic" -> native
      [] p = "openai" -> OpenAIReason(native)
      [] OTHER -> OllamaReason(calls, native)

(***************************************************************************)
(* The turn                                                                *)
(***************************************************************************)

Post(text) == reply' = text /\ at' = "ended"

\* The rows of the session, the newest `window` of which are loaded; a session that
\* ends on an answer has been answered.
Begin(rows, window) ==
    LET history == History(rows, window) IN
    /\ at = "begin"
    /\ messages' = IF history = <<>> THEN <<Plain("user", Min(Tokens))>> ELSE history
    /\ IF Last(messages').role = "assistant" THEN Post("none")
       ELSE at' = "format" /\ UNCHANGED reply
    /\ UNCHANGED <<provider, request, iteration, attempt, supports>>

\* fetch_session_start fails.
NoContext ==
    /\ at = "format" /\ iteration = 0
    /\ Post("no context")
    /\ UNCHANGED <<provider, messages, request, iteration, attempt, supports>>

Send ==
    /\ at = "format"
    /\ request' = FormatRequest(provider, messages)
    /\ attempt' = 1 /\ at' = "call"
    /\ UNCHANGED <<provider, messages, iteration, supports, reply>>

\* A server error or no connection.
CallFails ==
    /\ at = "call"
    /\ IF attempt < Tries(provider)
       THEN attempt' = attempt + 1 /\ UNCHANGED <<reply, at>>
       ELSE Post("overloaded") /\ UNCHANGED attempt
    /\ UNCHANGED <<provider, messages, request, iteration, supports>>

\* The request itself is refused, perhaps for its tools, or the key is missing.
CallRefused ==
    /\ at = "call"
    /\ Post("overloaded")
    /\ \/ supports' = FALSE
       \/ UNCHANGED supports
    /\ UNCHANGED <<provider, messages, request, iteration, attempt>>

\* The model's answer ends the turn, or its tools are called, each with a result or
\* an error, and it is asked again.
Answer(n, native, text, t) ==
    LET calls == [i \in 1..n |-> <<iteration, i>>]
        asked == StopReason(provider, calls, native) = "tool_use"
    IN
    /\ at = "call"
    /\ native \in {"tool_use", "tool_calls"} => n > 0
    /\ IF ~asked
       THEN Post(IF text THEN "text" ELSE "empty") /\ UNCHANGED <<messages, iteration>>
       ELSE /\ messages' = messages \o <<AssistantMessage(calls, Min(Tokens)), ToolResultMessage(calls, t)>>
            /\ iteration' = iteration + 1
            /\ IF iteration' = MaxToolIter THEN Post("exceeded")
               ELSE at' = "format" /\ UNCHANGED reply
    /\ UNCHANGED <<provider, request, attempt, supports>>

Init ==
    /\ provider \in Providers
    /\ messages = <<>> /\ request = <<>>
    /\ iteration = 0 /\ attempt = 0
    /\ supports = TRUE
    /\ reply = "none" /\ at = "begin"

Rows == UNION {[1..n -> {Plain(role, t) : role \in {"user", "assistant"}, t \in Tokens}] : n \in 1..MaxRows}

Next ==
    \/ \E rows \in Rows, window \in 1..MaxRows : Begin(rows, window)
    \/ NoContext \/ Send \/ CallFails \/ CallRefused
    \/ \E n \in 0..MaxCalls, native \in NativeReasons(provider),
          text \in BOOLEAN, t \in Tokens : Answer(n, native, text, t)

Spec == Init /\ [][Next]_vars

(***************************************************************************)
(* Properties                                                              *)
(***************************************************************************)

\* "drops any leading non-user turn so the request opens cleanly on a user
\* message" (_trim): whatever is trimmed in whatever iteration of the tool loop,
\* the model is told what it was asked, before results of tools it called.
OpensOnUser == request # <<>> => Head(request).role = "user"
=============================================================================
