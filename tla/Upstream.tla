-------------------------------- MODULE Upstream --------------------------------
(***************************************************************************)
(* What a call is addressed to and carries: the provider with an account's *)
(* settings over its own, the path of an endpoint, the URL and the         *)
(* headers.  (upstream.rs, fingerprint.rs; models' names in service.rs)    *)
(***************************************************************************)
EXTENDS Translation

NoAccount == [account |-> FALSE]
NoModel   == [slash |-> FALSE, prefix |-> "", name |-> "", family |-> ""]
-------------------------------------------------------------------------------
(***************************************************************************)
(* Models.  A name is [slash, prefix, name, family]: what stands before    *)
(* the first slash, what behind it, and the beginning of a bare name.      *)
(***************************************************************************)
Named(prefix, name) == [slash |-> TRUE, prefix |-> prefix, name |-> name, family |-> ""]
Bare(family, name)  == [slash |-> FALSE, prefix |-> "", name |-> name, family |-> family]

\* split_model
SplitModel(model) ==
  IF model.slash /\ (model.prefix = "" \/ model.name = "") THEN Error
  ELSE IF model.slash THEN Named(model.prefix, model.name) ELSE model

\* infer_provider_from_model_name
InferProvider(model) ==
  CASE model.family = "claude" -> "anthropic"
    [] model.family \in {"gpt", "o1", "o3", "o4", "chatgpt"} -> "openai"
    [] model.family \in {"gemini", "gemma"}     -> "gemini"
    [] model.family = "llama"                   -> "meta"
    [] model.family \in {"mistral", "codestral"} -> "mistral"
    [] model.family = "command"                 -> "cohere"
    [] model.family = "deepseek"                -> "deepseek"
    [] OTHER                                    -> ""

\* ProtocolFormat::from_provider
FromProvider(p) ==
  CASE p.protocol \in {"claude", "anthropic"} -> "claude"
    [] p.protocol \in {"gemini", "vertex"}    -> "gemini"
    [] p.protocol = "ollama"                  -> "ollama"
    [] p.protocol = "openai-responses"        -> "responses"
    [] p.protocol = "none" ->
         CASE p.name = "anthropic"           -> "claude"
           [] p.name \in {"vertex", "gemini"} -> "gemini"
           [] p.name = "ollama"              -> "ollama"
           [] OTHER                          -> "openai"
    [] OTHER -> "openai"

\* The provider is of the vendor, or the model is its default.
IsOf(p, vendor)      == vendor \in {p.name, p.prefix} \/ (vendor = "anthropic" /\ FromProvider(p) = "claude")
HasDefault(p, model) == p.default # NoModel /\ p.default.name = model.name

\* find_providers_for_bare_model
ForBareModel(providers, model) ==
  LET vendor   == InferProvider(model)
      matching == {p \in providers : (vendor # "" /\ IsOf(p, vendor)) \/ HasDefault(p, model)}
  IN  IF matching = {} /\ vendor = "" THEN providers ELSE matching

\* The matching providers of a candidate model.
Matching(providers, model) ==
  IF model.slash THEN {p \in providers : model.prefix \in {p.prefix, p.name}}
  ELSE ForBareModel(providers, model)
-------------------------------------------------------------------------------
(***************************************************************************)
(* The address                                                             *)
(***************************************************************************)
Family == {"chat", "completions", "messages", "responses", "ollama"}

\* EndpointKind::capability and as_str
Capability(endpoint) == IF endpoint = "completions" THEN "chat" ELSE endpoint
AsStr(endpoint) ==
  CASE endpoint = "chat"   -> "chat.completions"
    [] endpoint = "images" -> "images.generations"
    [] endpoint = "music"  -> "music.generations"
    [] endpoint = "videos" -> "videos.generations"
    [] OTHER               -> endpoint

\* supports_endpoint
SupportsEndpoint(lists, endpoint) ==
  lists = {} \/ Capability(endpoint) \in lists \/ (endpoint \in Family /\ "chat" \in lists)

\* provider_with_account_auth: what the account has goes over what its provider has.
Resolved(p) ==
  LET a == p.account IN
  IF a = NoAccount THEN p
  ELSE [p EXCEPT !.key      = a.key,
                 !.base     = Get(a, "base", @),
                 !.protocol = Get(a, "protocol", @),
                 !.lists    = IF Get(a, "lists", {}) # {} THEN a.lists ELSE @,
                 !.extra    = IF a.oauth /\ p.name = "codex" /\ Has(a, "remote")
                              THEN @ \cup {"chatgpt-account-id"} ELSE @]

\* Accounts are what lines with OAuth and the custom line are called with (execution_targets).
Callable(p, endpoint) ==
  /\ SupportsEndpoint(Resolved(p).lists, endpoint)
  /\ p.account = NoAccount => p.name \notin {"codex", "custom"}

DefaultPath ==
  [chat |-> "/chat/completions", completions |-> "/chat/completions", messages |-> "/messages",
   responses |-> "/responses", files |-> "/files", ollama |-> "/api/chat", embeddings |-> "/embeddings",
   images |-> "/images/generations", music |-> "/music/generations", videos |-> "/videos/generations",
   moderations |-> "/moderations", rerank |-> "/rerank", search |-> "/search",
   speech |-> "/audio/speech", transcriptions |-> "/audio/transcriptions"]

At(path) == [at |-> path, absolute |-> FALSE]

\* provider_path_override: the endpoint's own name, then its capability, then chat.
KeysOf(endpoint) ==
  <<AsStr(endpoint), Capability(endpoint)>> \o IF endpoint \in Family THEN <<"chat">> ELSE <<>>

Overrides(paths, endpoint) == There(paths, KeysOf(endpoint)) # {}

\* endpoint_path
EndpointPath(p, endpoint, streams) ==
  IF streams /\ Overrides(p.streams, endpoint) THEN FirstOf(p.streams, KeysOf(endpoint))
  ELSE IF Overrides(p.paths, endpoint) THEN FirstOf(p.paths, KeysOf(endpoint))
  ELSE At(DefaultPath[endpoint])

\* append_suffix_if_needed
Suffix(endpoint, suffix) == IF endpoint = "responses" THEN suffix ELSE ""

\* build_url
Url(p, path, suffix) ==
  [base |-> IF path.absolute THEN "" ELSE p.base, at |-> path.at, suffix |-> suffix]

\* is_codex_responses_provider
IsCodexResponses(p) == "codex" \in {p.name, p.prefix} \/ p.base = "/backend-api/codex"

\* force_codex_responses_stream
ForceStream(p, endpoint, body) ==
  IF endpoint = "responses" /\ IsCodexResponses(p) THEN [stream |-> TRUE] ++ body ELSE body
-------------------------------------------------------------------------------
(***************************************************************************)
(* The headers, each with whose it is                                      *)
(***************************************************************************)
\* Of the names that are passed on, those that the router may add by itself.
PassedNames == {"user-agent", "originator", "openai-beta", "anthropic-version", "x-app", "x-client-request-id"}

From(names, whose) == MapSeq(SetToSeq(names), LAMBDA n : <<n, whose>>)

\* PassthroughHeaders::from_header_map
PassedOn(headers) == headers \cap PassedNames

AuthHeader(p) ==
  CASE ~p.key \/ p.auth = "none" -> {}
    [] p.auth \in {"bearer", "authorization", "token", "basic"} -> {"authorization"}
    [] OTHER -> {p.auth}

CodexDefaults(p, passed) ==
  IF IsCodexResponses(p) THEN {"originator", "openai-beta"} \ (p.extra \cup passed) ELSE {}

\* skip_codex_extra_header
Skipped(p, passed) == passed \cup IF IsCodexResponses(p) THEN {"version"} ELSE {}

\* Mistake: a provider's own header is sent along with the client's.
ProviderHeaders_Both(p, passed) ==
  From(AuthHeader(p), "key") \o From(CodexDefaults(p, passed), "codex") \o From(p.extra, "provider")

\* apply_provider_headers
ProviderHeaders(p, passed) ==
  From(AuthHeader(p), "key") \o From(CodexDefaults(p, passed), "codex")
  \o From(p.extra \ Skipped(p, passed), "provider")

\* apply_passthrough_headers: what is passed on, and what was put there for the client.
Headers(p, passed, added) ==
  ProviderHeaders(p, passed \cup added) \o From(passed, "client") \o From(added, "router")
-------------------------------------------------------------------------------
(***************************************************************************)
(* What Claude Code sends is added for other clients (fingerprint.rs, which *)
(* is on unless KOU_CC_FINGERPRINT says otherwise)                         *)
(***************************************************************************)
Billing == "x-anthropic-billing-header"

\* needs_injection
NeedsInjection(format, passed) == format = "claude" /\ "x-app" \notin passed

\* classify_provider
FirstParty(p) ==
  \/ p.name \in {"anthropic", "claude-oauth", "anthropic-oauth", "claude", "foundry"}
  \/ p.base \in {"api.anthropic.com", "services.ai.azure.com"}

\* generate_headers, of which only these names
Generated(p) == {"x-app", "user-agent", "anthropic-version"} \cup IF FirstParty(p) THEN {"x-client-request-id"} ELSE {}

\* PassthroughHeaders::merge
Added(p, passed) == IF NeedsInjection(FromProvider(p), passed) THEN Generated(p) \ passed ELSE {}

Begins(x) == x.kind = "text" /\ x.text # <<>> /\ x.text[1] = Billing
Attributed(system) ==
  CASE system.form = "array"  -> \E i \in DOMAIN system.items : Begins(system.items[i])
    [] system.form = "string" -> system.text # <<>> /\ system.text[1] = Billing
    [] OTHER                  -> FALSE

\* inject_metadata
InjectMetadata(body) ==
  [metadata |-> Get(body, "metadata", <<>>) ++ [user_id |-> "router"]] ++ body

\* inject_body
InjectBody(body) ==
  LET system == Get(body, "system", Null)
      blocks == CASE system.form = "array"  -> system.items
                  [] system.form = "string" -> <<Item("text", "claude", system.text)>>
                  [] OTHER                  -> <<>>
  IN  InjectMetadata(
        IF Attributed(system) THEN body
        ELSE [system |-> Arr(<<Item("text", "claude", <<Billing>>)>> \o blocks)] ++ body)
===============================================================================
