------------------------------ MODULE Translation ------------------------------
(***************************************************************************)
(* The bodies of requests and answers in five dialects, and the            *)
(* translators between them (src/translate and the adapters of             *)
(* service.rs).  A body is a record of the keys it has.  A text is a       *)
(* sequence of pieces, so that joining texts is concatenation.             *)
(***************************************************************************)
EXTENDS Naturals, Sequences, SequencesExt

Has(body, key)       == key \in DOMAIN body
Get(body, key, else) == IF Has(body, key) THEN body[key] ELSE else
Only(body, keys)     == [k \in DOMAIN body \cap keys |-> body[k]]
Without(body, keys)  == [k \in DOMAIN body \ keys |-> body[k]]
When(cond, body)     == IF cond THEN body ELSE <<>>

\* TLC's @@, as something that the provers can expand: f's keys go before g's.
f ++ g == [k \in DOMAIN f \cup DOMAIN g |-> IF k \in DOMAIN f THEN f[k] ELSE g[k]]

\* Of the keys, those that a body has, by their places; and what is under the first of these.
There(body, keys)   == {i \in DOMAIN keys : Has(body, keys[i])}
FirstOf(body, keys) == body[keys[CHOOSE i \in There(body, keys) : \A j \in There(body, keys) : i <= j]]

\* ProtocolFormat
Dialects == {"openai", "claude", "gemini", "ollama", "responses"}

Error     == [error |-> TRUE]
Bad(body) == body = Error

\* Content is a string, an array of items, some other value, or null.
Str(text)  == [form |-> "string", text |-> text]
Arr(items) == [form |-> "array", items |-> items]
Other      == [form |-> "other"]
Null       == [form |-> "null"]

\* in: the dialect an item is written in.
Item(kind, in, text) == [kind |-> kind, in |-> in, text |-> text]
\* of: the id of the call.  An item of Gemini's has only the name of what is called.
CallItem(kind, in, text, of, name) == Item(kind, in, text) ++ [of |-> of, name |-> name]

MapSeq(s, Op(_))    == [i \in DOMAIN s |-> Op(s[i])]
FlatMap(s, Op(_))   == FlattenSeq(MapSeq(s, Op))
OfKind(items, kind) == SelectSeq(items, LAMBDA x : x.kind = kind)

\* What a value is as a text.
Json == <<"json">>

\* The texts among some items, in one.
Texts(items) == FlatMap(items, LAMBDA x : IF x.kind = "text" THEN x.text ELSE <<>>)

\* extract_text_content, extract_assistant_text, message_text, claude_blocks_to_text
TextOf(content) ==
  CASE content.form = "string" -> content.text
    [] content.form = "array"  -> Texts(content.items)
    [] OTHER                   -> <<>>

IsSystem(m) == m.role = "system"
CallsOf(m)  == Get(m, "calls", <<>>)

\* What is made of the system's messages, wherever they stand.
OfSystem(messages, Op(_)) == FlatMap(messages, LAMBDA m : When(IsSystem(m), Op(m.content)))
-------------------------------------------------------------------------------
(***************************************************************************)
(* Requests                                                                *)
(***************************************************************************)
\* openai_content_to_claude_blocks
ClaudeBlocks(content) ==
  CASE content.form = "string" -> <<Item("text", "claude", content.text)>>
    [] content.form = "array"  ->
         MapSeq(content.items, LAMBDA x : IF x.kind \in {"text", "image"}
                                          THEN [x EXCEPT !.in = "claude"] ELSE x)
    [] content.form = "other"  -> <<Item("text", "claude", Json)>>
    [] content.form = "null"   -> <<>>

Turn(role, blocks) == <<[role |-> role, content |-> Arr(blocks)]>>

\* Mistake: an assistant that calls has said nothing.
AssistantBlocks_CallsOnly(m) ==
  IF CallsOf(m) = <<>> /\ m.content.form = "string" THEN <<Item("text", "claude", m.content.text)>>
  ELSE MapSeq(CallsOf(m), LAMBDA c : CallItem("call", "claude", <<>>, c.id, c.name))

\* The text of an assistant whose content is an array is not looked at.
AssistantBlocks(m) ==
  (IF m.content.form = "string" /\ m.content.text # <<>>
   THEN <<Item("text", "claude", m.content.text)>> ELSE <<>>)
  \o MapSeq(CallsOf(m), LAMBDA c : CallItem("call", "claude", <<>>, c.id, c.name))

ClaudeTurn(m) ==
  CASE m.role = "user"      -> Turn("user", ClaudeBlocks(m.content))
    [] m.role = "assistant" -> Turn("assistant", IF AssistantBlocks(m) = <<>>
                                                 THEN <<Item("text", "claude", <<>>)>>
                                                 ELSE AssistantBlocks(m))
    [] m.role = "tool"      -> Turn("user", <<CallItem("result", "claude", TextOf(m.content), m.of, "")>>)
    [] OTHER                -> <<>>

\* tools: the dialect the tools are written in.
OpenTools(body) == Has(body, "tools") /\ body.tools = "openai"
Choice(body)    == Get(body, "tool_choice", "auto")

\* Mistake: a choice of none leaves the tools in.
ToClaude_KeepTools(body) ==
  LET messages == Get(body, "messages", <<>>)
      system   == OfSystem(messages, ClaudeBlocks)
  IN  IF messages = <<>> THEN Error
      ELSE [messages |-> FlatMap(messages, ClaudeTurn), stream |-> Get(body, "stream", FALSE)]
           ++ When(system # <<>>, [system |-> Arr(system)])
           ++ When(OpenTools(body), [tools |-> "claude"])

\* openai_to_claude::translate_request
ToClaude(body) ==
  LET messages == Get(body, "messages", <<>>)
      system   == OfSystem(messages, ClaudeBlocks)
  IN  IF messages = <<>> THEN Error
      ELSE [messages |-> FlatMap(messages, ClaudeTurn), stream |-> Get(body, "stream", FALSE)]
           ++ When(system # <<>>, [system |-> Arr(system)])
           ++ When(OpenTools(body) /\ Choice(body) # "none", [tools |-> "claude"])
           ++ When(Has(body, "tool_choice") /\ Choice(body) # "none", [tool_choice |-> Choice(body)])

\* openai_content_to_gemini_parts
GeminiParts(content) ==
  CASE content.form = "array" ->
         FlatMap(content.items, LAMBDA x : When(x.kind \in {"text", "image"}, <<[x EXCEPT !.in = "gemini"]>>))
    [] content.form = "other" -> <<Item("text", "gemini", Json)>>
    [] OTHER                  -> <<Item("text", "gemini", TextOf(content))>>

GeminiText(text) == IF text = <<>> THEN <<>> ELSE <<Item("text", "gemini", text)>>

\* A result has the name of what was called only if the client has written it there.
GeminiResult(m) ==
  CallItem("result", "gemini", IF m.content.form = "string" THEN m.content.text ELSE <<>>, "",
           Get(m, "name", "unknown"))

Said(role, parts) == [role |-> role, parts |-> parts]

\* The contents after one more message: results in a row are one turn.
GeminiTurn(contents, m) ==
  CASE m.role = "user" -> Append(contents, Said("user", GeminiParts(m.content)))
    [] m.role = "assistant" ->
         LET parts == GeminiText(TextOf(m.content))
                      \o MapSeq(CallsOf(m), LAMBDA c : CallItem("call", "gemini", <<>>, "", c.name))
         IN  IF parts = <<>> THEN contents ELSE Append(contents, Said("model", parts))
    [] m.role = "tool" ->
         IF contents # <<>> /\ Last(contents).role = "function"
         THEN [contents EXCEPT ![Len(contents)].parts = Append(@, GeminiResult(m))]
         ELSE Append(contents, Said("function", <<GeminiResult(m)>>))
    [] OTHER -> contents

GeminiContents(messages) ==
  LET sofar[i \in 0 .. Len(messages)] == IF i = 0 THEN <<>> ELSE GeminiTurn(sofar[i - 1], messages[i])
  IN  sofar[Len(messages)]

\* openai_to_gemini::translate_request.  Whether to stream is not in the body.
ToGemini(body) ==
  LET system == OfSystem(body.messages, LAMBDA c : GeminiText(TextOf(c)))
  IN  IF ~Has(body, "messages") THEN Error
      ELSE [contents |-> GeminiContents(body.messages)]
           ++ When(system # <<>>, [systemInstruction |-> system])
           ++ When(OpenTools(body), [tools |-> "gemini"])
           ++ When(Has(body, "tool_choice"), [tool_choice |-> Choice(body)])

\* ollama::translate_request_to_ollama: a choice of tools is left out.
ToOllama(body) == [stream |-> Get(body, "stream", FALSE)] ++ Only(body, {"messages", "tools"})

\* response_input_content, codex_response_message_content
InputItems(content) ==
  CASE content.form = "string" -> <<Item("text", "responses", content.text)>>
    [] content.form = "array"  ->
         MapSeq(content.items, LAMBDA x : IF x.kind = "text" THEN [x EXCEPT !.in = "responses"] ELSE x)
    [] content.form = "other"  -> <<Item("text", "responses", Json)>>
    [] content.form = "null"   -> <<>>

\* openai_messages_to_responses_input, claude_messages_to_responses_input,
\* codex_response_input_from_messages: the calls of a message are left out.
InputMessages(messages) ==
  FlatMap(messages, LAMBDA m :
    When(~IsSystem(m), <<[typed |-> TRUE, role |-> m.role, content |-> Arr(InputItems(m.content))]>>))

\* system_messages_to_instructions, codex_response_instructions
Instructions(messages) == OfSystem(messages, TextOf)

Copied == {"tools", "tool_choice"}

\* openai_request_to_responses
ToResponses(body) ==
  LET messages == Get(body, "messages", <<>>)
  IN  [stream |-> Get(body, "stream", FALSE),
       input  |-> Get(body, "input", Arr(InputMessages(messages)))]
      ++ Only(body, Copied \cup {"instructions"})
      ++ When(Instructions(messages) # <<>>, [instructions |-> Instructions(messages)])

\* claude_request_to_responses
ClaudeToResponses(body) ==
  [stream |-> Get(body, "stream", FALSE),
   input  |-> Arr(InputMessages(Get(body, "messages", <<>>)))]
  ++ When(Has(body, "system"), [instructions |-> TextOf(Get(body, "system", Null))])
  ++ Only(body, Copied)
-------------------------------------------------------------------------------
(***************************************************************************)
(* Answers                                                                 *)
(***************************************************************************)
Usage(input, output) == [input |-> input, output |-> output]
NoUsage              == Usage(0, 0)

\* An answer of chat: the first choice, and what it has cost.
Chat(text, calls, finish, usage) ==
  [choices |-> <<[text |-> text, calls |-> calls, finish |-> finish]>>, usage |-> usage]

\* Mistake: why the answer ended is not told.
ClaudeStop_AlwaysStop(reason) == "stop"

\* claude_stop_to_openai_finish
ClaudeStop(reason) ==
  CASE reason = "max_tokens" -> "length" [] reason = "tool_use" -> "tool_calls" [] OTHER -> "stop"

\* gemini_finish_to_openai
GeminiFinish(reason) ==
  CASE reason = "MAX_TOKENS" -> "length"
    [] reason \in {"SAFETY", "RECITATION"} -> "content_filter"
    [] OTHER -> "stop"

\* openai_finish_to_messages_stop_reason
MessagesStopReason(finish) ==
  CASE finish = "length" -> "max_tokens"
    [] finish \in {"tool_calls", "function_call"} -> "tool_use"
    [] OTHER -> "end_turn"

\* claude_to_openai::translate_response
ClaudeToOpenAI(body) ==
  LET content == Get(body, "content", Null)
      calls   == IF content.form = "array" THEN OfKind(content.items, "call") ELSE <<>>
  IN  Chat(IF content.form = "array" THEN TextOf(content) ELSE <<>>,
           MapSeq(calls, LAMBDA c : [id |-> c.of, name |-> c.name]),
           ClaudeStop(Get(body, "stop_reason", "end_turn")), Get(body, "usage", NoUsage))

\* gemini_to_openai::translate_response; the ids of calls are made up.
GeminiToOpenAI(body) ==
  IF Get(body, "candidates", <<>>) = <<>> THEN Error
  ELSE LET parts == body.candidates[1].parts
       IN  Chat(TextOf(Arr(parts)),
                MapSeq(OfKind(parts, "call"), LAMBDA c : [id |-> "", name |-> c.name]),
                GeminiFinish(body.candidates[1].finish), Get(body, "usageMetadata", NoUsage))

\* ollama::translate_response_to_openai
OllamaToOpenAI(body) ==
  LET message == Get(body, "message", [text |-> <<>>, calls |-> <<>>])
  IN  Chat(message.text, message.calls, IF Get(body, "done", FALSE) THEN "stop" ELSE "null",
           Get(body, "eval", NoUsage))

\* responses_response_to_openai: of the output, only texts.
ResponsesToOpenAI(body) ==
  LET status == Get(body, "status", "completed") IN
  IF Has(body, "choices") THEN body
  ELSE Chat(Texts(Get(body, "output", <<>>)), <<>>,
            CASE status = "incomplete" -> "length" [] status = "failed" -> "error" [] OTHER -> "stop",
            Get(body, "usage", NoUsage))

ToOpenAI(format, body) ==
  CASE format = "claude"    -> ClaudeToOpenAI(body)
    [] format = "gemini"    -> GeminiToOpenAI(body)
    [] format = "ollama"    -> OllamaToOpenAI(body)
    [] format = "responses" -> ResponsesToOpenAI(body)
    [] format = "openai"    -> body

FromOpenAI(format, body) ==
  CASE format = "claude"    -> ToClaude(body)
    [] format = "gemini"    -> ToGemini(body)
    [] format = "ollama"    -> ToOllama(body)
    [] format = "responses" -> ToResponses(body)
    [] format = "openai"    -> body

\* TranslatorRegistry::translate_request.  Without a translator of their own, a request of
\* another dialect is first read as if it were an answer in it.
TranslateRequest(source, target, body) ==
  CASE source = target \/ target = "openai"          -> body
    [] source = "openai"                             -> FromOpenAI(target, body)
    [] source = "claude" /\ target = "responses"     -> ClaudeToResponses(body)
    [] OTHER -> IF Bad(ToOpenAI(source, body)) THEN Error
                ELSE FromOpenAI(target, ToOpenAI(source, body))

\* extract_assistant_text
AssistantText(body) == IF Has(body, "choices") /\ body.choices # <<>> THEN body.choices[1].text ELSE <<>>

\* adapt_to_responses
AdaptToResponses(body) ==
  IF Has(body, "output") THEN body
  ELSE [output |-> <<Item("text", "responses", AssistantText(body))>>]

\* adapt_to_messages; a call is told of, not passed on.
AdaptToMessages(body) ==
  [content     |-> Arr(<<Item("text", "claude", AssistantText(body))>>),
   stop_reason |-> IF Has(body, "choices") /\ body.choices # <<>>
                   THEN MessagesStopReason(body.choices[1].finish) ELSE "end_turn"]
  ++ Only(body, {"usage"})

\* adapt_to_ollama
AdaptToOllama(body) == [message |-> [text |-> AssistantText(body), calls |-> <<>>], done |-> TRUE]

\* The end of adapt_success_body, for a client that does not stream.
AdaptTo(client, body) ==
  CASE client = "responses" -> AdaptToResponses(body)
    [] client = "messages"  -> AdaptToMessages(body)
    [] client = "ollama"    -> AdaptToOllama(body)
    [] client \in {"files", "speech", "transcriptions"} -> Error
    [] OTHER                -> body

\* Mistake: a body without a usage counts as one that says null.
ExtractUsage_Null(body) == Get(body, "usage", Get(body, "usageMetadata", Null))

\* cost::extract_usage
ExtractUsage(body) == Get(body, "usage", Get(body, "usageMetadata", NoUsage))
===============================================================================
