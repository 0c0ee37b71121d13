------------------------------ MODULE MCExchange ------------------------------
(***************************************************************************)
(* Conversations with a system's message, an image, two calls and their    *)
(* results, in each client's dialect; one provider of each dialect, Codex, *)
(* a custom line and the search engines; every sequence of a few events.   *)
(***************************************************************************)
EXTENDS Exchange

\* All sequences of up to MaxFrames events of these kinds.
CONSTANTS MaxFrames, LiveKinds

OpenText(text)  == Item("text", "openai", text)
OpenImage(name) == Item("image", "openai", <<name>>)
CallF == [id |-> "i1", name |-> "f"]
CallG == [id |-> "i2", name |-> "g"]

Talk == <<
  [role |-> "system", content |-> Str(<<"s1">>)],
  [role |-> "user", content |-> Arr(<<OpenText(<<"a">>), OpenImage("p"), OpenText(<<"b">>)>>)],
  [role |-> "assistant", content |-> Str(<<"c">>), calls |-> <<CallF, CallG>>],
  [role |-> "tool", content |-> Str(<<"r1">>), of |-> "i1", name |-> "f"],
  [role |-> "tool", content |-> Str(<<"r2">>), of |-> "i2", name |-> "g"],
  [role |-> "system", content |-> Arr(<<OpenText(<<"s2">>)>>)],
  [role |-> "assistant", content |-> Null, calls |-> <<CallF>>],
  [role |-> "tool", content |-> Str(<<"r3">>), of |-> "i1"],
  [role |-> "user", content |-> Str(<<"d">>)]>>

Hello == <<[role |-> "user", content |-> Str(<<"hi">>)]>>

ClaudeTalk == <<
  [role |-> "user", content |-> Arr(<<Item("text", "claude", <<"a">>), Item("image", "claude", <<"p">>)>>)],
  [role |-> "assistant", content |-> Arr(<<Item("text", "claude", <<"c">>),
                                           CallItem("call", "claude", <<>>, "i1", "f")>>)],
  [role |-> "user", content |-> Arr(<<CallItem("result", "claude", <<"r1">>, "i1", "f")>>)],
  [role |-> "user", content |-> Str(<<"d">>)]>>

Typed(role, text)   == [typed |-> TRUE, role |-> role, content |-> Arr(<<Item("text", "responses", text)>>)]
Untyped(role, text) == [role |-> role, content |-> Str(text)]

\* A model that nobody is known for: any provider may be asked.
M       == [model |-> Bare("", "m")]
Tools   == [tools |-> "openai"]
Filter(domain, minus) == [domain |-> domain, minus |-> minus]
Engine(name) == [model |-> Named(name, "web")]

Bodies(client) ==
  CASE client = "chat" ->
         {M ++ [messages |-> Talk] ++ t : t \in
            {<<>>, Tools, Tools ++ [tool_choice |-> "none"], Tools ++ [tool_choice |-> "required"]}}
         \cup {M ++ [messages |-> Hello, stream |-> TRUE], M ++ [messages |-> <<>>], M, [messages |-> Hello]}
         \cup {[model |-> m, messages |-> Hello] : m \in
                 {Named("vertex", "m"), Named("", "m"), Bare("claude", "m"), Bare("llama", "m"), Bare("", "d")}}
    [] client = "completions" -> {M ++ [prompt |-> <<<<"a">>, <<"b">>>>], M ++ [messages |-> Hello], M}
    [] client = "messages" ->
         {M ++ [messages |-> ClaudeTalk, system |-> Str(<<"s1">>)],
          M ++ [messages |-> ClaudeTalk, system |-> Arr(<<Item("text", "claude", <<"s1">>)>>), tools |-> "claude",
                metadata |-> [user_id |-> "client"]],
          M ++ [messages |-> Hello, system |-> Arr(<<Item("text", "claude", <<Billing>>)>>)],
          M ++ [messages |-> Hello, stream |-> TRUE], M ++ [input |-> Arr(ClaudeTalk)]}
    [] client = "responses" ->
         {M ++ [input |-> Str(<<"hi">>)], M ++ [input |-> Str(<<"hi">>), stream |-> TRUE],
          M ++ [input |-> Arr(<<Typed("user", <<"a">>), Typed("assistant", <<"b">>)>>), instructions |-> <<"s1">>],
          M ++ [input |-> Arr(<<Untyped("user", <<"a">>), Untyped("assistant", <<"b">>)>>)],
          M ++ [messages |-> Talk]}
    [] client = "ollama" -> {M ++ [messages |-> Hello], M ++ [messages |-> Talk, stream |-> TRUE], M}
    [] client = "rerank" -> {M ++ [query |-> "q", documents |-> <<"d">>], M ++ [query |-> "q"]}
    [] client = "search" ->
         {Engine(e) ++ [query |-> "q"] ++ more : e \in Engines \cup {"open-search"}, more \in
            {<<>>, [max_results |-> 0], [top_k |-> 7, language |-> "l"], [max_results |-> 500, country |-> "c"],
             [search_type |-> "news", domain_filter |-> <<Filter("w", FALSE), Filter("v", TRUE)>>]}}
         \cup {[query |-> "q"], M}
    [] client = "embeddings" -> {M ++ [input |-> "q"], [input |-> "q"]}
    [] client \in {"moderations", "speech"} -> {[input |-> "q"]}
    [] client = "files"  -> {M}

\* What else a request has: a client's own headers, one that is never passed on, and a suffix.
Carried(client) ==
  [headers : {{}, {"user-agent", "originator", "cookie"}, {"x-app", "anthropic-version"}},
   suffix  : IF client = "responses" THEN {"", "/compact"} ELSE {""}]

Plain0 == [headers |-> {}, suffix |-> ""]

MCRequests ==
  UNION {{[client |-> c, body |-> b] ++ Plain0 : b \in Bodies(c)} :
           c \in Family \cup {"rerank", "search", "embeddings", "moderations", "speech", "files"}}
  \cup UNION {{[client |-> c, body |-> M ++ [messages |-> Hello]] ++ x : x \in Carried(c)} : c \in {"chat", "messages"}}
  \cup {[client |-> "responses", body |-> M ++ [input |-> Str(<<"hi">>)]] ++ x : x \in Carried("responses")}

Line(name) ==
  [name |-> name, prefix |-> name, protocol |-> "none", lists |-> {}, default |-> NoModel, base |-> name,
   paths |-> <<>>, streams |-> <<>>, key |-> TRUE, auth |-> "bearer", extra |-> {}, account |-> NoAccount]

Key == [key |-> TRUE, oauth |-> FALSE]

OpenAI == [default |-> Named("openai", "d")] ++ Line("openai")

MCProviders ==
  {OpenAI,
   [lists |-> {"messages"}, auth |-> "x-api-key", extra |-> {"anthropic-version"},
    paths |-> [messages |-> At("/messages")]] ++ Line("anthropic"),
   [protocol |-> "gemini", lists |-> {"chat"}, account |-> Key,
    paths |-> [chat |-> At("/generate")], streams |-> [chat |-> At("/stream")]] ++ Line("vertex"),
   [lists |-> {"chat", "ollama"}, key |-> FALSE] ++ Line("ollama"),
   [protocol |-> "openai-responses", lists |-> {"responses"}] ++ Line("other"),
   [protocol |-> "openai-responses", lists |-> {"responses"}, extra |-> {"openai-beta", "originator"},
    paths |-> [responses |-> [at |-> "/codex/responses", absolute |-> TRUE]],
    account |-> [key |-> TRUE, oauth |-> TRUE, remote |-> "id"]] ++ Line("codex"),
   [lists |-> {"chat", "messages", "responses"},
    account |-> Key ++ [base |-> "own", protocol |-> "claude", lists |-> {"messages"}]] ++ Line("custom")}
  \cup {[lists |-> {"search"}, auth |-> "x-api-key",
         paths |-> IF e = "open-search" THEN <<>> ELSE [search |-> [at |-> e, absolute |-> TRUE]]] ++ Line(e)
          : e \in Engines \cup {"open-search"}}

\* The provider that a model is the default of may be out of service.
MCOutages == {{}, {OpenAI}}

U == Usage(2, 3)
Calls == {<<>>, <<CallF, CallG>>}
AnswerTexts == {<<>>, <<"x", "y">>}

MCReplies(dialect) ==
  CASE dialect = "openai" -> {Chat(t, c, f, U) : t \in AnswerTexts, c \in Calls, f \in {"stop", "length"}}
    [] dialect = "claude" ->
         {[content |-> Arr(<<Item("text", "claude", t)>> \o
                           MapSeq(c, LAMBDA x : CallItem("call", "claude", <<>>, x.id, x.name))),
           stop_reason |-> r, usage |-> U] : t \in AnswerTexts, c \in Calls, r \in {"end_turn", "max_tokens", "tool_use"}}
    [] dialect = "gemini" ->
         {[candidates |-> <<[parts |-> MapSeq(t, LAMBDA x : Item("text", "gemini", <<x>>)) \o
                             MapSeq(c, LAMBDA x : CallItem("call", "gemini", <<>>, "", x.name)),
                             finish |-> f]>>, usageMetadata |-> U]
            : t \in AnswerTexts, c \in Calls, f \in {"STOP", "MAX_TOKENS"}}
         \cup {[candidates |-> <<>>]}
    [] dialect = "ollama" -> {[message |-> [text |-> t, calls |-> c], done |-> TRUE, eval |-> U]
                                : t \in AnswerTexts, c \in Calls}
    [] dialect = "responses" -> {[output |-> <<Item("text", "responses", t)>>, status |-> s, usage |-> U]
                                   : t \in AnswerTexts, s \in {"completed", "incomplete", "failed"}}

Result1(engine) ==
  [title |-> "t", score |-> "1"]
  ++ (CASE engine = "serper-search" -> [link |-> "u", description |-> "s"]
        [] engine = "brave-search"  -> [url |-> "u", description |-> "s", age |-> "1"]
        [] engine = "exa-search"    -> [url |-> "u", text |-> "s"]
        [] engine = "tavily-search" -> [url |-> "u", content |-> "s"]
        [] OTHER                    -> [url |-> "u", snippet |-> "s"])
Result2(engine) == [title |-> "t2"] ++ Result1(engine)

MCFindings(engine) ==
  LET found == <<Result2(engine), Result1(engine)>>
  IN  {CASE engine = "serper-search" -> [organic |-> found]
         [] engine = "brave-search"  -> [web |-> [results |-> found]]
         [] OTHER                    -> [results |-> found]}

SomeFrames == UNION {[1 .. n -> [kind : LiveKinds, wide : {FALSE}]] : n \in 0 .. MaxFrames}

F(kind) == [kind |-> kind, wide |-> FALSE]
W(kind) == [kind |-> kind, wide |-> TRUE]

\* Whole answers, as Codex and as others send them, and two answers in one stream.
Longer == {<<F("created"), F("text"), W("text"), F("item"), F("completed"), F("[DONE]")>>,
           <<F("created"), F("thought"), F("text"), F("item"), F("incomplete")>>,
           <<W("text"), F("junk"), W("text"), F("completed")>>,
           <<F("text"), F("item"), F("text"), F("item"), F("completed")>>,
           <<F("created"), F("text"), F("failed"), F("[DONE]")>>}

MCScripts ==
  [frames : SomeFrames, crlf : {FALSE}, closed : {TRUE}, full : {FALSE}]
  \cup [frames : Longer, crlf : BOOLEAN, closed : BOOLEAN, full : BOOLEAN]
===============================================================================
