-------------------------------- MODULE Exchange --------------------------------
(***************************************************************************)
(* One request on its way to one provider and back: it is normalized,      *)
(* translated into the provider's dialect and sent; what comes back, as    *)
(* JSON, as a body of events or as a stream, is adapted to what the client *)
(* has called.  (ChatService::route, from normalize_request to the         *)
(* RoutedResult; which provider is tried when is Router's.)                *)
(***************************************************************************)
EXTENDS Search, SseAdapter

CONSTANTS
  Requests,    \* [client, body, headers, suffix]
  Providers,   \* the rows of providers, each with the account it is called with
  Outages,     \* sets of providers whose circuits are open
  Replies(_),  \* the JSON answers of an upstream that speaks a dialect
  Findings(_)  \* what a search engine has found

\* EndpointKind
Endpoints == DOMAIN DefaultPath

\* The limits of a search are numbers, and its filters either keep a domain or leave it out.
IsSearch(body) ==
  /\ \A k \in {"max_results", "top_k"} \cap DOMAIN body : body[k] \in Nat
  /\ LET filters == Filters(body) IN
     /\ Len(filters) \in Nat /\ DOMAIN filters = 1 .. Len(filters)
     /\ \A i \in DOMAIN filters : filters[i].minus \in BOOLEAN

\* A request is an endpoint that a client has called and what it has called it with.
ASSUME RequestsAssumption ==
  \A r \in Requests :
    /\ r.client \in Endpoints
    /\ r = [client |-> r.client, body |-> r.body, headers |-> r.headers, suffix |-> r.suffix]
    /\ r.client = "search" => IsSearch(r.body)

\* The columns of a provider's row, and those of its account.
ASSUME ProvidersAssumption ==
  \A p \in Providers :
    /\ DOMAIN p = {"name", "prefix", "protocol", "lists", "default", "base", "paths", "streams",
                   "key", "auth", "extra", "account"}
    /\ IsFiniteSet(p.extra)
    /\ p.account = NoAccount \/ {"key", "oauth"} \subseteq DOMAIN p.account

\* The keys that an answer in a dialect has; if it says what it has cost, it does so in numbers.
IsAnswer(dialect, r) ==
  /\ CASE dialect = "openai"    -> Has(r, "choices") /\ r.choices # <<>>
       [] dialect = "claude"    -> {"content", "stop_reason"} \subseteq DOMAIN r /\ r.content.form = "array"
       [] dialect = "gemini"    -> Has(r, "candidates")
       [] dialect = "ollama"    -> Has(r, "message")
       [] dialect = "responses" -> Has(r, "output") /\ ~Has(r, "choices")
  /\ Has(r, "usageMetadata") => dialect = "gemini"
  /\ \A k \in {"usage", "usageMetadata", "eval"} \cap DOMAIN r : r[k] \in [input : Nat, output : Nat]

ASSUME RepliesAssumption == \A dialect \in Dialects : \A r \in Replies(dialect) : IsAnswer(dialect, r)

\* Where what a search engine has found stands in its answer.
Listed(r) == IF Has(r, "organic") THEN r.organic ELSE Get(Get(r, "web", r), "results", <<>>)

\* Under which names an engine's results have their address and their text.
AddressKeys(engine) == {IF engine = "serper-search" THEN "link" ELSE "url"}
TextKeys(engine) ==
  CASE engine = "serper-search"     -> {"snippet", "description"}
    [] engine = "brave-search"      -> {"description"}
    [] engine = "perplexity-search" -> {"snippet"}
    [] engine = "exa-search"        -> {"highlights", "text"}
    [] engine = "tavily-search"     -> {"content"}

\* An engine lists its results in its place, each with a title, an address and a text.
Lists(engine, r) ==
  /\ CASE engine = "serper-search" -> Has(r, "organic")
       [] engine = "brave-search"  -> ~Has(r, "organic") /\ Has(r, "web") /\ Has(r.web, "results")
       [] OTHER -> ~Has(r, "organic") /\ ~Has(r, "web") /\ Has(r, "results")
  /\ Len(Listed(r)) \in Nat /\ DOMAIN Listed(r) = 1 .. Len(Listed(r))
  /\ \A i \in DOMAIN Listed(r) :
       LET x == Listed(r)[i]
           texts == TextKeys(engine) \cap DOMAIN x
       IN  /\ {"title"} \cup AddressKeys(engine) \subseteq DOMAIN x /\ texts # {}
           /\ \A k \in AddressKeys(engine) \cup texts : x[k] # ""

ASSUME FindingsAssumption == \A engine \in Engines : \A r \in Findings(engine) : Lists(engine, r)

VARIABLES
  asked,     \* the client's body
  carried,   \* [headers, suffix]: what else the client's request has
  down,      \* the providers that are left out, their circuits being open
  normal,    \* normalized.body
  provider,
  sent,      \* provider_body, with the model's name in it
  call,      \* [method, url, body, headers]: what goes out
  reply,     \* what the upstream answers, if as one body
  answer,    \* what the client gets, if as one body
  counted,   \* the usage that is logged
  stage

request      == <<asked, carried, down, normal, provider, sent, call>>
exchangeVars == <<request, reply, answer, counted, stage>>
vars == <<streamVars, exchangeVars>>

Nothing == [nothing |-> TRUE]
-------------------------------------------------------------------------------
(***************************************************************************)
(* The request                                                             *)
(***************************************************************************)
\* The key without which an endpoint refuses a request.
Required == [embeddings |-> "input", images |-> "prompt", music |-> "prompt", videos |-> "prompt",
             moderations |-> "input", rerank |-> "query", search |-> "query", speech |-> "input"]

UserSays(content) == [role |-> "user", content |-> content]

\* The messages that an input stands for.
MessagesOf(input) ==
  CASE input.form = "string" -> <<UserSays(input)>>
    [] input.form = "array"  -> MapSeq(input.items, LAMBDA x : IF Has(x, "role") THEN x ELSE UserSays(Other))
    [] OTHER                 -> <<UserSays(input)>>

\* What the code puts in where the client has written nothing.
Defaults(client, body) ==
  CASE client = "moderations" -> body ++ [model |-> Named("openai", "omni-moderation-latest")]
    [] client = "search" ->
         body ++ [model |-> Named("search", "web"), provider |-> "web",
                  search_type |-> Get(body, "provider", "web")]
    [] OTHER -> body

\* normalize_request, the arm of the endpoint
Shaped(client, body) ==
  CASE client = "completions" ->
         IF Has(body, "messages") THEN body
         ELSE IF ~Has(body, "prompt") THEN Error
         ELSE Without(body, {"prompt"}) ++ [messages |-> <<UserSays(Str(FlattenSeq(body.prompt)))>>]
    [] client = "messages" ->
         body ++ When(Has(body, "input"), [messages |-> Get(body, "input", Arr(<<>>)).items])
              ++ [stream |-> FALSE]
    [] client = "responses" ->
         body ++ When(Has(body, "input"), [messages |-> MessagesOf(Get(body, "input", Null))])
    [] client = "ollama" -> IF Has(body, "messages") THEN body ELSE Error
    [] client = "chat"   -> body
    [] client \in DOMAIN Required ->
         IF ~Has(body, Required[client]) THEN Error
         ELSE IF client = "rerank" /\ Get(body, "documents", <<>>) = <<>> THEN Error
         ELSE Defaults(client, body)
    [] client \in {"files", "transcriptions"} -> Error

NormalizeRequest(client, body) ==
  IF Bad(Shaped(client, body)) \/ ~Has(Shaped(client, body), "model") THEN Error
  ELSE Shaped(client, body)

Streams == Get(normal, "stream", FALSE)

\* ProtocolFormat::detect_source
DetectSource(client, body) ==
  CASE client = "messages"  -> "claude"
    [] client = "responses" -> IF Has(body, "messages") /\ ~Has(body, "input") THEN "openai" ELSE "responses"
    [] client = "ollama"    -> "ollama"
    [] OTHER                -> "openai"

\* endpoint_translates_to_claude_messages
ToMessagesEndpoint(client) == client \in Family \ {"ollama"}

\* provider_supports_routed_endpoint
Supports(p, client) ==
  \/ SupportsEndpoint(p.lists, client)
  \/ ToMessagesEndpoint(client) /\ FromProvider(p) = "claude" /\ SupportsEndpoint(p.lists, "messages")
  \/ client \in Family /\ FromProvider(p) = "responses" /\ SupportsEndpoint(p.lists, "responses")

\* upstream_endpoint_for_provider
UpstreamEndpoint(client, format) ==
  IF ToMessagesEndpoint(client) /\ format = "claude" THEN "messages"
  ELSE IF client \in Family /\ format = "responses" THEN "responses"
  ELSE client

IsCodex(p) == p.name = "codex"

\* codex_input_is_response_items
ResponseItems(input) == input.form = "array" /\ \A i \in DOMAIN input.items : Has(input.items[i], "typed")

\* codex_response_input
CodexInput(body, messages) ==
  IF InputMessages(messages) # <<>> THEN Arr(InputMessages(messages))
  ELSE Arr(<<[typed |-> TRUE, role |-> "user", content |-> Arr(InputItems(Get(body, "input", Null)))]>>)

\* maybe_adapt_codex_responses_request
AdaptForCodex(body, normalized) ==
  LET messages == Get(body, "messages", Get(normalized, "messages", <<>>)) IN
  [stream |-> TRUE, store |-> FALSE,
   input  |-> IF ResponseItems(Get(body, "input", Null)) THEN body.input
              ELSE CodexInput(body, messages)]
  ++ Without(body, {"messages", "max_tokens"})
  ++ [instructions |-> Instructions(Get(normalized, "messages", <<>>))]

Prepared(client, p, body, normalized) ==
  IF UpstreamEndpoint(client, FromProvider(p)) = "responses" /\ IsCodex(p)
  THEN AdaptForCodex(body, normalized) ELSE body
-------------------------------------------------------------------------------
(***************************************************************************)
(* The answer                                                              *)
(***************************************************************************)
Events == [events |-> TRUE]   \* a body of events: what they are is the script

\* The dialect in which a provider is asked and answers: its own or its account's, and Responses
\* where that is what is called.
Speaks(client, p) ==
  LET own == FromProvider(Resolved(p)) IN IF own = "openai" /\ client = "responses" THEN "responses" ELSE own

\* What a script's answer has cost; only the response at its end says so.
Spent(s) == IF \E i \in DOMAIN s.frames : s.frames[i].kind \in {"completed", "incomplete"}
            THEN Usage(2, 3) ELSE NoUsage

FrameTexts(frames, cut) == MapSeq(frames, LAMBDA i : FrameText(i, cut))

Rebuilt ==
  [output |-> <<Item("text", "responses", FrameTexts(Reconstruct(script).output, hurt))>>,
   status |-> Reconstruct(script).status, usage |-> Spent(script)]

Capture(body) == [raw |-> body]

\* adapt_responses_success_body
ResponsesSuccess(body) ==
  CASE body = Events /\ Streams  -> Capture(Events)
    [] body = Events /\ ~Streams -> Rebuilt
    [] body # Events             -> AdaptToResponses(body)

\* responses_stream_error_message
Failed(body) == Get(body, "status", "completed") = "failed"

\* Of what Codex has streamed for a client that does not stream.
Collected ==
  IF script.frames = <<>> \/ Failed(Rebuilt) THEN Error
  ELSE IF endpoint = "responses" THEN Rebuilt
  ELSE AdaptTo(endpoint, ResponsesToOpenAI(Rebuilt))

\* execute_prepared: what a search engine has found is normalized as it comes in.
Received == IF endpoint = "search" THEN NormalizeSearch(provider.name, sent, reply) ELSE reply

\* Of a body that has come whole, for a client of the provider's dialect.  What is no JSON is raw.
SameDialect ==
  IF endpoint = "responses" THEN ResponsesSuccess(reply)
  ELSE IF Streams \/ reply = Events THEN Capture(Received) ELSE Received

\* body_for_adapt
ForAdapt ==
  LET target == FromProvider(provider) IN
  CASE target = "responses" ->
         IF Streams /\ reply = Events /\ endpoint \in {"chat", "messages"}
         THEN [sse |-> Transcript(endpoint, script, hurt)]
         ELSE ResponsesToOpenAI(ResponsesSuccess(Received))
    [] target # "responses" -> ToOpenAI(target, Received)

OtherDialect ==
  IF Bad(ForAdapt) THEN Error
  ELSE IF endpoint = "responses" THEN ResponsesSuccess(ForAdapt)
  ELSE IF Streams THEN Capture(ForAdapt)
  ELSE IF ForAdapt = Events THEN Error ELSE AdaptTo(endpoint, ForAdapt)

Buffered ==
  LET body == IF DetectSource(endpoint, normal) = FromProvider(provider) THEN SameDialect ELSE OtherDialect
  IN  IF Failed(body) THEN Error ELSE body
-------------------------------------------------------------------------------
(***************************************************************************)
(* The steps                                                               *)
(***************************************************************************)
Init ==
  /\ StreamInit
  /\ \E r \in Requests : endpoint = r.client /\ asked = r.body /\ carried = Only(r, {"headers", "suffix"})
  /\ down \in Outages
  /\ normal = Nothing /\ provider = Nothing /\ sent = Nothing /\ call = Nothing
  /\ reply = Nothing /\ answer = Nothing /\ counted = NoUsage
  /\ stage = "asked"

\* A model that cannot be split is found out with the first candidate.
Normalize ==
  /\ stage = "asked"
  /\ normal' = NormalizeRequest(endpoint, asked)
  /\ stage' = IF Bad(normal') THEN "refused"
              ELSE IF Bad(SplitModel(normal'.model)) THEN "refused" ELSE "normal"
  /\ UNCHANGED <<streamVars, asked, carried, down, provider, sent, call, reply, answer, counted>>

\* prepare_upstream_request; a search's model stays as it is.
WithModel(body) == IF endpoint = "search" THEN body ELSE [model |-> SplitModel(normal.model).name] ++ body

\* execute_prepared
CallTo(p, added, upstream, body) ==
  LET url == Url(p, EndpointPath(p, upstream, Get(body, "stream", FALSE)), Suffix(upstream, carried.suffix))
  IN  [headers |-> Headers(p, PassedOn(carried.headers), added)]
      ++ IF upstream = "search" THEN SearchRequest(p, body, url)
         ELSE [method |-> "POST", url |-> url, body |-> body]

\* A search without its query is not sent.
Sendable(upstream, body) == upstream = "search" => Has(body, "query")

Usable == {p \in Providers \ down : Supports(p, endpoint)}

\* One of the providers that match and are in service is called.
Send(p) ==
  LET body     == TranslateRequest(DetectSource(endpoint, normal), FromProvider(p), normal)
      upstream == UpstreamEndpoint(endpoint, FromProvider(p))
      adapted  == Prepared(endpoint, p, body, normal)
      passed   == PassedOn(carried.headers)
      final    == IF NeedsInjection(FromProvider(p), passed) THEN InjectBody(adapted) ELSE adapted
      prepared == ForceStream(Resolved(p), upstream, WithModel(final))
  IN
  /\ stage = "normal"
  /\ p \in Matching(Usable, SplitModel(normal.model))
  /\ Bad(body) \/ (Callable(p, upstream) /\ Sendable(upstream, prepared))
  /\ provider' = p
  /\ IF Bad(body)   \* such a request fails, whoever else there is
     THEN stage' = "refused" /\ UNCHANGED <<sent, call>>
     ELSE /\ stage' = "sent"
          /\ sent' = prepared
          /\ call' = CallTo(Resolved(p), Added(p, passed), upstream, prepared)
  /\ UNCHANGED <<streamVars, asked, carried, down, normal, reply, answer, counted>>

\* Whether a stream was asked for or not, an upstream may answer with JSON.
AnswerWhole ==
  /\ stage = "sent"
  /\ reply' \in IF endpoint = "search" THEN Findings(provider.name) ELSE Replies(Speaks(endpoint, provider))
  /\ stage' = "replied"
  /\ UNCHANGED <<streamVars, request, answer, counted>>

\* Events under a content type that does not say so are a body like another.
AnswerEvents ==
  /\ stage = "sent" /\ Speaks(endpoint, provider) = "responses" /\ endpoint # "search"
  /\ script' \in {s \in Scripts : s.frames # <<>>}
  /\ reply' = Events
  /\ stage' = "replied"
  /\ UNCHANGED <<endpoint, arrived, used, hurt, started, done, out, phase>>
  /\ UNCHANGED <<request, answer, counted>>

Collects == IsCodex(provider) /\ ~Streams /\ UpstreamEndpoint(endpoint, FromProvider(provider)) = "responses"

\* Codex always streams; its stream is read to its end, chunk by chunk.
Collect ==
  /\ stage = "sent" /\ Collects /\ Speaks(endpoint, provider) = "responses"
  /\ script' \in Scripts
  /\ hurt' \in SUBSET {i \in DOMAIN script'.frames : script'.frames[i].wide}
  /\ reply' = Events
  /\ stage' = "collected"
  /\ UNCHANGED <<endpoint, arrived, used, started, done, out, phase>>
  /\ UNCHANGED <<request, answer, counted>>

Adapts == FromProvider(provider) = "responses" /\ endpoint \in {"chat", "messages"}

StreamAdapted ==
  /\ stage = "sent" /\ Get(sent, "stream", FALSE) /\ ~Collects /\ Adapts
  /\ Open
  /\ stage' = "streaming"
  /\ UNCHANGED <<request, reply, answer, counted>>

\* Any other stream is the client's as it is.
StreamRelayed ==
  /\ stage = "sent" /\ Get(sent, "stream", FALSE) /\ ~Collects /\ ~Adapts
  /\ stage' = "relayed"
  /\ UNCHANGED <<streamVars, request, reply, answer, counted>>

Answer ==
  /\ stage \in {"replied", "collected"}
  /\ answer' = IF stage = "collected" THEN Collected ELSE Buffered
  /\ stage' = IF Bad(answer') THEN "failed" ELSE "answered"
  /\ counted' = IF Bad(answer') THEN NoUsage ELSE ExtractUsage(answer')
  /\ UNCHANGED <<streamVars, request, reply>>

Stream == stage = "streaming" /\ Reading /\ UNCHANGED exchangeVars

\* What an event says of the cost, and what is known after it.
FrameUsage(frame) == IF frame.kind \in {"completed", "incomplete"} THEN Usage(2, 3) ELSE NoUsage
After(known, new) == Usage(IF new.input > 0 THEN new.input ELSE known.input,
                           IF new.output > 0 THEN new.output ELSE known.output)

\* extract_usage_from_sse: line by line, so that an empty line is not waited for.
SseUsage(s, size) ==
  LET frames == CameIn(s, size).frames
      sofar[i \in 0 .. Len(frames)] ==
        IF i = 0 THEN NoUsage ELSE After(sofar[i - 1], FrameUsage(frames[i]))
  IN  sofar[Len(frames)]

\* The watcher of a stream takes its cost from the upstream's own bytes.  (When it looks is
\* RequestLog's.)
LogStream ==
  /\ stage = "streaming" /\ phase \in {"ended", "broken"}
  /\ counted' = SseUsage(script, arrived)
  /\ stage' = "logged"
  /\ UNCHANGED <<streamVars, request, reply, answer>>

Next ==
  \/ Normalize
  \/ \E p \in Providers : Send(p)
  \/ AnswerWhole \/ AnswerEvents \/ Collect \/ StreamAdapted \/ StreamRelayed
  \/ Answer
  \/ Stream \/ LogStream

Spec == Init /\ [][Next]_vars
-------------------------------------------------------------------------------
(***************************************************************************)
(* What an upstream and a client read                                      *)
(***************************************************************************)
\* Who says what: one triple for each piece of a text, each image, each call and each result.
\* An upstream sees what is written in its dialect, a call by its id or, at Gemini, its name.
ReadText(who, text) == MapSeq(text, LAMBDA piece : <<who, "text", piece>>)

ReadItem(who, in, x) ==
  IF x.in # in THEN <<>>
  ELSE CASE x.kind = "text"   -> ReadText(who, x.text)
         [] x.kind = "image"  -> <<<<who, "image", x.text>>>>
         [] x.kind = "call"   -> <<<<"assistant", "call", IF in = "gemini" THEN x.name ELSE x.of>>>>
         [] x.kind = "result" -> <<<<"tool", "result", IF in = "gemini" THEN x.name ELSE x.of>>>>
                                 \o ReadText("tool", x.text)
         [] OTHER             -> <<>>

ReadItems(who, in, items) == FlatMap(items, LAMBDA x : ReadItem(who, in, x))

ReadContent(who, in, content) ==
  CASE content.form = "string" -> ReadText(who, content.text)
    [] content.form = "array"  -> ReadItems(who, in, content.items)
    [] OTHER                   -> <<>>

Called(named, c) == IF named THEN c.name ELSE c.id

ReadChatTurn(named, m) ==
  (IF m.role = "tool" THEN <<<<"tool", "result", IF named THEN Get(m, "name", "unknown") ELSE m.of>>>> ELSE <<>>)
  \o ReadContent(m.role, "openai", m.content)
  \o MapSeq(CallsOf(m), LAMBDA c : <<"assistant", "call", Called(named, c)>>)

\* The system's texts come first, wherever they stand.
ReadChat(messages, named) ==
  FlatMap(messages, LAMBDA m : When(IsSystem(m), ReadChatTurn(named, m)))
  \o FlatMap(messages, LAMBDA m : When(~IsSystem(m), ReadChatTurn(named, m)))

ReadClaude(body) ==
  ReadContent("system", "claude", Get(body, "system", Null))
  \o FlatMap(Get(body, "messages", <<>>), LAMBDA m : ReadContent(m.role, "claude", m.content))

ReadGemini(body) ==
  ReadItems("system", "gemini", Get(body, "systemInstruction", <<>>))
  \o FlatMap(body.contents, LAMBDA c :
       ReadItems(IF c.role = "model" THEN "assistant" ELSE c.role, "gemini", c.parts))

ReadInput(body) ==
  ReadText("system", Get(body, "instructions", <<>>))
  \o CASE body.input.form = "string" -> ReadContent("user", "responses", body.input)
       [] body.input.form = "array"  -> FlatMap(body.input.items, LAMBDA m :
                                          ReadContent(Get(m, "role", "user"), "responses", m.content))

Read(dialect, body) ==
  CASE dialect = "claude"    -> ReadClaude(body)
    [] dialect = "gemini"    -> ReadGemini(body)
    [] dialect = "responses" -> ReadInput(body)
    [] OTHER                 -> ReadChat(Get(body, "messages", <<>>), FALSE)

\* The conversation as the client has written it.
Conversation ==
  CASE endpoint = "messages" -> ReadClaude(normal)
    [] DetectSource(endpoint, normal) = "responses" -> ReadInput(asked)
    [] OTHER -> ReadChat(Get(normal, "messages", <<>>), FromProvider(provider) = "gemini")

\* The pairs between which there is a way.  The others refuse the request, or leave the
\* conversation or its dialect as it is.
Translates ==
  LET source == DetectSource(endpoint, normal)
      target == FromProvider(provider)
  IN  \/ source = Speaks(endpoint, provider) /\ target = FromProvider(Resolved(provider))
      \/ target = Speaks(endpoint, provider) /\ (source = "openai" \/ <<source, target>> = <<"claude", "responses">>)

\* Responses is told texts; what came of a call is a text of its own only in a chat.
Told(triple) == triple[2] = "text" /\ (endpoint = "messages" => triple[1] # "tool")

IsSent == stage \in {"sent", "replied", "collected", "answered", "streaming", "relayed", "logged"}

\* The attribution that goes before everything else, once.
Attribution ==
  LET body == TranslateRequest(DetectSource(endpoint, normal), FromProvider(provider), normal)
  IN  IF NeedsInjection(FromProvider(provider), PassedOn(carried.headers))
         /\ ~Attributed(Get(body, "system", Null))
      THEN <<<<"system", "text", Billing>>>> ELSE <<>>

IsSeq(s) == s \in Seq(Range(s))

\* Content of these kinds of items, written in a dialect.
IsContent(content, in, kinds) ==
  /\ content.form \in {"string", "array", "null"}
  /\ content.form = "string" => IsSeq(content.text)
  /\ content.form = "array"  =>
       /\ IsSeq(content.items)
       /\ \A x \in Range(content.items) :
            {"kind", "in", "text"} \subseteq DOMAIN x /\ x.in = in /\ x.kind \in kinds /\ IsSeq(x.text)

IsClaudeMessage(m) ==
  m.role \in {"user", "assistant"} /\ IsContent(m.content, "claude", {"text", "image", "call", "result"})

\* What an upstream is told only the texts of, and what it is not told at all if it is an array.
TextsOnly  == {<<"claude", "tool">>, <<"gemini", "system">>, <<"gemini", "assistant">>}
StringOnly == {<<"claude", "assistant">>, <<"gemini", "tool">>}

\* A message of a chat that can be told in a dialect.
IsChatMessage(dialect, m) ==
  /\ m.role \in {"system", "user", "assistant", "tool"}
  /\ IsContent(m.content, "openai",
               IF <<dialect, m.role>> \in TextsOnly THEN {"text"} ELSE {"text", "image"})
  /\ <<dialect, m.role>> \in StringOnly => m.content.form # "array"
  /\ IsSeq(CallsOf(m)) /\ (m.role # "assistant" => CallsOf(m) = <<>>)

\* An input whose items Codex is told as they are, or as messages: no system's is among them.  (Of
\* a request that has both, an input and messages, it is told the messages.)
IsInput(input) ==
  /\ input.form \in {"string", "array"}
  /\ input.form = "string" => IsSeq(input.text)
  /\ input.form = "array"  =>
       /\ IsSeq(input.items)
       /\ \A m \in Range(input.items) :
            /\ {"role", "content"} \subseteq DOMAIN m /\ IsContent(m.content, "responses", {"text", "image"})
            /\ IsCodex(provider) => ~IsSystem(m)

\* The client has written a conversation in its dialect, and nothing that the translator into
\* the provider's leaves out.
Tellable ==
  LET source   == DetectSource(endpoint, normal)
      dialect  == Speaks(endpoint, provider)
      messages == Get(normal, "messages", <<>>)
  IN  CASE source = "claude" ->
             /\ IsSeq(messages) /\ \A m \in Range(messages) : IsClaudeMessage(m)
             /\ IsContent(Get(normal, "system", Null), "claude", {"text"})
        [] source = "responses" ->
             /\ Has(asked, "input") /\ IsInput(asked.input) /\ IsSeq(Get(asked, "instructions", <<>>))
             /\ IsCodex(provider) => ~Has(asked, "messages")
        [] OTHER ->
             /\ IsSeq(messages) /\ \A m \in Range(messages) : IsChatMessage(dialect, m)
             /\ dialect = "responses" => {"input", "instructions"} \cap DOMAIN normal = {}
             /\ endpoint = "responses" /\ IsCodex(provider) => dialect # "ollama"

\* The conversation, after the attribution.
ToldAsAsked ==
  LET dialect == Speaks(endpoint, provider)
      whole   == DetectSource(endpoint, normal) = dialect
  IN  Read(dialect, sent) =
        Attribution \o IF dialect = "responses" /\ ~whole
                       THEN FlatMap(Conversation, LAMBDA t : When(Told(t), <<t>>)) ELSE Conversation

\* Whether to stream, which Codex always does, whether tools may be used, and who the user is.
SwitchedAsAsked ==
  LET dialect == Speaks(endpoint, provider) IN
  /\ dialect # "gemini" =>
       (Get(sent, "stream", FALSE) <=>
          \/ Streams
          \/ /\ UpstreamEndpoint(endpoint, FromProvider(provider)) = "responses"
             /\ IsCodexResponses(Resolved(provider)))
  /\ Has(sent, "tools") /\ Choice(asked) = "none" /\ dialect # "ollama" => Choice(sent) = "none"
  /\ /\ Has(asked, "tools") /\ Choice(asked) # "none"
     /\ DetectSource(endpoint, normal) = "openai" => asked.tools = "openai"
     => Has(sent, "tools")
  /\ endpoint = "messages" /\ dialect = "claude" /\ Has(asked, "metadata") /\ Has(asked.metadata, "user_id") =>
       sent.metadata.user_id = asked.metadata.user_id

\* The pages of the dialects that have one.
Home == [openai |-> "/chat/completions", claude |-> "/messages", responses |-> "/responses"]

Paths(p) ==
  LET keys == {"chat.completions", "chat", "completions", "messages", "responses"}
  IN  UNION {{f[k].at : k \in DOMAIN f \cap keys} : f \in {p.paths, p.streams}}

\* The page is one where the dialect of the body is read.
AddressedByDialect ==
  LET dialect == Speaks(endpoint, provider) IN
  dialect \in DOMAIN Home =>
    /\ call.url.at = Home[dialect] \/ call.url.at \in Paths(provider)
    /\ call.url.base = IF call.url.at \in Paths(provider) /\ call.url.base = "" THEN "" ELSE Resolved(provider).base
    /\ call.url.suffix = IF dialect = "responses" THEN carried.suffix ELSE ""

Names(headers)      == MapSeq(headers, LAMBDA h : h[1])
OfWhom(headers, n)  == {h[2] : h \in {x \in {headers[i] : i \in DOMAIN headers} : x[1] = n}}

\* No header goes out twice, and of those that are passed on the client's counts: if that of the
\* key is none of the line's others, nor one that is passed on.
HeadersOnce ==
  LET p == Resolved(provider) IN
  AuthHeader(p) \cap (p.extra \cup PassedNames) = {} =>
    /\ IsInjective(Names(call.headers))
    /\ \A n \in PassedOn(carried.headers) : OfWhom(call.headers, n) = {"client"}
    /\ \A n \in p.extra \ {"version"} : OfWhom(call.headers, n) # {}

\* A model named without its provider goes to one that is in service and known for it.
NoStrays ==
  ~normal.model.slash =>
    LET vendor   == InferProvider(normal.model)
        Knows(p) == (vendor # "" /\ IsOf(p, vendor)) \/ HasDefault(p, normal.model)
    IN  Knows(provider) \/ ~\E p \in Usable : Knows(p)

\* What is asked for in a search is in the engine's own words: how many results, within what is
\* allowed, news or all, and which domains.
SearchedAsAsked ==
  LET body   == call.body
      wanted == Get(asked, "max_results", Get(asked, "top_k", 5))
      told   == {body[k] : k \in DOMAIN body \cap {"num", "count", "max_results", "numResults"}}
      news   == Get(asked, "search_type", Get(asked, "provider", "web")) = "news"
      Domains(keys) == UNION {Range(body[k]) : k \in DOMAIN body \cap keys}
      Asked(minus)  == {f.domain : f \in {x \in Range(Get(asked, "domain_filter", <<>>)) : x.minus = minus}}
  IN  /\ asked.query \in {body[k] : k \in DOMAIN body \cap {"q", "query"}}
      /\ \A n \in told : n \in 1 .. 100 /\ (wanted \in 1 .. 100 => n = wanted)
      /\ provider.name = "exa-search"    => (news <=> Get(body, "category", "") = "news")
      /\ provider.name = "tavily-search" => (news <=> body.topic = "news")
      /\ provider.name \in {"exa-search", "tavily-search"} =>
           /\ Domains({"includeDomains", "include_domains"}) = Asked(FALSE)
           /\ Domains({"excludeDomains", "exclude_domains"}) = Asked(TRUE)

\* To whom and where a request goes, under which headers, what its model is called there, how it
\* is to be answered, and what a search engine is asked for.
Directed ==
  /\ endpoint \in Family /\ Translates => AddressedByDialect /\ SwitchedAsAsked
  /\ endpoint # "search" => sent.model = normal.model.name
  /\ endpoint = "search" /\ provider.name \in Engines /\ FromProvider(provider) = "openai" => SearchedAsAsked
  /\ NoStrays
  /\ HeadersOnce

\* A provider of another dialect is told the conversation the client has had: the same texts,
\* images, calls and results by the same speakers and in the same order, the system's first; and
\* whether to stream and whether tools may be used; Responses is told the texts only.  It is told
\* so where that dialect is read, and if the client has written nothing that the translator
\* leaves out.  The model is named as the provider names it, every header goes out once, and a
\* search engine gets the search (openai_to_claude.rs:8, openai_to_gemini.rs:12,
\* openai_responses.rs:5, service.rs:1814, 1990, 2869, upstream.rs:264, 761, 829, search.rs:20).
SentAsAsked ==
  IsSent =>
    /\ endpoint \in Family /\ Translates /\ Tellable => ToldAsAsked
    /\ Directed

\* An answer by what the client of it gets to know.
Heard(text, calls, cut, usage) == [text |-> text, calls |-> calls, cut |-> cut, usage |-> usage]
NamesOf(calls) == MapSeq(calls, LAMBDA c : c.name)

HearChat(body) ==
  Heard(AssistantText(body), NamesOf(body.choices[1].calls),
        body.choices[1].finish = "length", Get(body, "usage", NoUsage))

HearClaude(body) ==
  Heard(TextOf(body.content), NamesOf(OfKind(body.content.items, "call")),
        body.stop_reason = "max_tokens", Get(body, "usage", NoUsage))

HearGemini(body) ==
  Heard(TextOf(Arr(body.candidates[1].parts)), NamesOf(OfKind(body.candidates[1].parts, "call")),
        body.candidates[1].finish = "MAX_TOKENS", Get(body, "usageMetadata", NoUsage))

HearOllama(body) ==
  Heard(body.message.text, NamesOf(body.message.calls), FALSE, Get(body, "eval", NoUsage))

HearResponses(body) ==
  Heard(Texts(body.output), NamesOf(OfKind(body.output, "call")),
        Get(body, "status", "completed") = "incomplete", Get(body, "usage", NoUsage))

\* What the events of a script say, whichever way they are put together: the deltas of the text.
HearEvents ==
  Heard(FrameTexts(FramesOf(script, {i \in DOMAIN script.frames : script.frames[i].kind = "text"}), {}),
        <<>>, \E i \in DOMAIN script.frames : script.frames[i].kind = "incomplete", Spent(script))

Hear(dialect, body) ==
  CASE dialect = "claude"    -> HearClaude(body)
    [] dialect = "gemini"    -> HearGemini(body)
    [] dialect = "ollama"    -> HearOllama(body)
    [] dialect = "responses" -> HearResponses(body)
    [] OTHER                 -> HearChat(body)

ClientDialect ==
  CASE endpoint = "messages"  -> "claude"
    [] endpoint = "responses" -> "responses"
    [] endpoint = "ollama"    -> "ollama"
    [] OTHER                  -> "openai"

\* The events of one whole answer: each text is in an item, and it has one end.
Complete(s) ==
  /\ s.frames # <<>> /\ Last(s.frames).kind \in {"completed", "incomplete"}
  /\ \A i \in DOMAIN s.frames :
       /\ s.frames[i].kind \in {"completed", "incomplete"} => i = Len(s.frames)
       /\ s.frames[i].kind \in {"text", "thought"} =>
            \E j \in DOMAIN s.frames : i < j /\ s.frames[j].kind = "item"
       /\ s.frames[i].kind \notin {"failed", "error"}

\* The account speaks what its line speaks.
OneDialect == FromProvider(Resolved(provider)) = FromProvider(provider)

\* The same text, calls for a client of chat, and for clients of chat and of messages whether the
\* answer was cut off and what it has cost.
HeardAsSaid ==
  ~Streams /\ (reply = Events => Complete(script) /\ hurt = {}) =>
    LET said   == IF reply = Events THEN HearEvents ELSE Hear(Speaks(endpoint, provider), reply)
        heard  == Hear(ClientDialect, answer)
        direct == DetectSource(endpoint, normal) = Speaks(endpoint, provider)
    IN  /\ heard.text = said.text
        /\ endpoint \in {"chat", "completions"} /\ Speaks(endpoint, provider) # "responses" =>
             heard.calls = said.calls
        /\ direct \/ endpoint \in {"chat", "completions", "messages"} =>
             /\ heard.cut = said.cut
             /\ heard.usage = said.usage
             /\ ClientDialect # "ollama" => counted = said.usage

\* The engine's results in their order, each with its title, its address and a text.  News at
\* Serper and Brave is asked for where there is none.
FoundAsListed ==
  LET news   == provider.name \in {"serper-search", "brave-search"} /\ IsNews(normal)
      listed == Listed(reply)
  IN  ~news => /\ Len(answer.results) = Len(listed)
               /\ \A i \in DOMAIN listed :
                    /\ answer.results[i].position = i
                    /\ answer.results[i].title = listed[i].title
                    /\ answer.results[i].url \in {Get(listed[i], "url", ""), Get(listed[i], "link", "")} \ {""}
                    /\ answer.results[i].snippet # ""

\* A client that does not stream hears what the upstream has said, whichever dialects lie
\* between and however the upstream has sent it; a search finds what the engine has found; and
\* what a stream has cost is counted once it is there in whole (service.rs:2533, 2721,
\* claude_to_openai.rs:7, gemini_to_openai.rs:8, search.rs:197, cost.rs:267).
AnsweredAsReplied ==
  /\ stage = "answered" /\ endpoint \in Family /\ OneDialect => HeardAsSaid
  /\ /\ stage = "answered" /\ endpoint = "search" /\ ~Streams
     /\ provider.name \in Engines /\ FromProvider(provider) = "openai"
     => FoundAsListed
  /\ stage = "logged" /\ Complete(script) /\ arrived = Size(script) => counted = Spent(script)

\* What an account of the custom line says in its own dialect is heard: "Custom API accounts carry
\* their own endpoint config." (upstream.rs:302, service.rs:543)
CustomIsHeard ==
  stage = "answered" /\ endpoint \in Family /\ ~OneDialect /\ ~Streams =>
    Hear(ClientDialect, answer).text = Hear(Speaks(endpoint, provider), reply).text

TypeOK ==
  /\ StreamType
  /\ stage \in {"asked", "normal", "refused", "sent", "replied", "collected", "answered", "failed",
                "streaming", "relayed", "logged"}
  /\ [client |-> endpoint, body |-> asked] ++ carried \in Requests
  /\ provider \in Providers \cup {Nothing}
  /\ IsSent => Supports(provider, endpoint) /\ {"method", "url", "body", "headers"} \subseteq DOMAIN call
  /\ stage \in {"streaming", "logged"} <=> phase # "waiting"
  /\ counted \in [input : Nat, output : Nat]
===============================================================================
