--------------------------------- MODULE Search ---------------------------------
(***************************************************************************)
(* The five search engines: how a search is put to each, and how each      *)
(* one's results become the router's.  (search.rs)                         *)
(***************************************************************************)
EXTENDS Upstream

Engines == {"serper-search", "brave-search", "perplexity-search", "exa-search", "tavily-search"}

SearchType(payload) == Get(payload, "search_type", Get(payload, "provider", "web"))
IsNews(payload)     == SearchType(payload) = "news"

\* max_results or top_k, between 1 and 100
Limit(payload) ==
  LET asked == Get(payload, "max_results", Get(payload, "top_k", 5))
  IN  IF asked < 1 THEN 1 ELSE IF asked > 100 THEN 100 ELSE asked

\* split_domain_filters: a filter with a minus leaves its domain out.
Kept(filters)    == FlatMap(filters, LAMBDA f : IF f.minus THEN <<>> ELSE <<f.domain>>)
LeftOut(filters) == FlatMap(filters, LAMBDA f : IF f.minus THEN <<f.domain>> ELSE <<>>)
Filters(payload) == Get(payload, "domain_filter", <<>>)

\* key |-> what the payload has under name, if it has it.
Under(key, payload, name) == When(Has(payload, name), [k \in {key} |-> payload[name]])
List(key, values)         == When(values # <<>>, [k \in {key} |-> values])

SerperQuery(payload) ==
  [q |-> payload.query, num |-> Limit(payload)]
  ++ Under("gl", payload, "country") ++ Under("hl", payload, "language")

BraveQuery(payload) ==
  [q |-> payload.query, count |-> Limit(payload)]
  ++ Under("country", payload, "country") ++ Under("search_lang", payload, "language")

PerplexityQuery(payload) ==
  [query |-> payload.query, max_results |-> Limit(payload)]
  ++ Under("country", payload, "country") ++ Under("search_language_filter", payload, "language")
  ++ List("search_domain_filter", Filters(payload))

ExaQuery(payload) ==
  [query |-> payload.query, numResults |-> Limit(payload)]
  ++ List("includeDomains", Kept(Filters(payload))) ++ List("excludeDomains", LeftOut(Filters(payload)))
  ++ When(IsNews(payload), [category |-> "news"])

TavilyQuery(payload) ==
  [query |-> payload.query, max_results |-> Limit(payload),
   topic |-> IF IsNews(payload) THEN "news" ELSE "general"]
  ++ List("include_domains", Kept(Filters(payload))) ++ List("exclude_domains", LeftOut(Filters(payload)))
  ++ Under("country", payload, "country")

SearchQuery(engine, payload) ==
  CASE engine = "serper-search"     -> SerperQuery(payload)
    [] engine = "brave-search"      -> BraveQuery(payload)
    [] engine = "perplexity-search" -> PerplexityQuery(payload)
    [] engine = "exa-search"        -> ExaQuery(payload)
    [] engine = "tavily-search"     -> TavilyQuery(payload)
    [] OTHER                        -> payload

\* Where Serper and Brave have their pages.
Page(engine, payload) ==
  CASE engine = "serper-search" -> IF IsNews(payload) THEN "/news" ELSE "/search"
    [] engine = "brave-search"  -> IF IsNews(payload) THEN "/res/v1/news/search" ELSE "/res/v1/web/search"

\* search_url_is_overridden: what the call was prepared with is not the bare base.
Overridden(p, url) == url # Url(p, At(""), "")

\* build_search_request of a payload with a query
SearchRequest(p, payload, url) ==
  [method |-> IF p.name = "brave-search" THEN "GET" ELSE "POST",
   url    |-> IF p.name \in {"serper-search", "brave-search"} /\ ~Overridden(p, url)
              THEN Url(p, At(Page(p.name, payload)), "") ELSE url,
   body   |-> SearchQuery(p.name, payload)]
-------------------------------------------------------------------------------
(***************************************************************************)
(* Results.  For each engine, the keys under which a result may have what  *)
(* the router's result has; the first that is there counts.                *)
(***************************************************************************)
Plainly == [title |-> <<"title">>, url |-> <<"url">>, score |-> <<>>, favicon |-> <<>>, content |-> <<>>]

SerperKeys     == [url |-> <<"link">>, snippet |-> <<"snippet", "description">>, published |-> <<"date">>] ++ Plainly
BraveKeys      == [snippet |-> <<"description">>, published |-> <<"page_age", "age">>, favicon |-> <<"favicon">>] ++ Plainly
PerplexityKeys == [snippet |-> <<"snippet">>, published |-> <<"date", "last_updated">>] ++ Plainly
ExaKeys        == [snippet |-> <<"highlights", "text">>, published |-> <<"publishedDate">>, score |-> <<"score">>,
                   favicon |-> <<"favicon">>, content |-> <<"text">>] ++ Plainly
TavilyKeys     == [snippet |-> <<"content">>, published |-> <<"published_date">>, score |-> <<"score">>,
                   content |-> <<"raw_content">>] ++ Plainly

KeysOfResult(engine) ==
  CASE engine = "serper-search"     -> SerperKeys
    [] engine = "brave-search"      -> BraveKeys
    [] engine = "perplexity-search" -> PerplexityKeys
    [] engine = "exa-search"        -> ExaKeys
    [] engine = "tavily-search"     -> TavilyKeys

ValueOf(item, keys) == IF There(item, keys) = {} THEN "" ELSE FirstOf(item, keys)

\* Where the engine's results are in its answer.
ResultsIn(engine, news, raw) ==
  CASE engine = "serper-search" -> Get(raw, IF news THEN "news" ELSE "organic", <<>>)
    [] engine = "brave-search"  -> Get(IF news THEN Get(raw, "news", raw) ELSE Get(raw, "web", <<>>), "results", <<>>)
    [] OTHER                    -> Get(raw, "results", <<>>)

\* normalize_search_response
NormalizeSearch(engine, payload, raw) ==
  LET items  == ResultsIn(engine, IsNews(payload), raw)
      keys   == KeysOfResult(engine)
      Result(i) == [k \in DOMAIN keys |-> ValueOf(items[i], keys[k])] ++ [position |-> i]
  IN  [results |-> IF engine \in Engines THEN [i \in DOMAIN items |-> Result(i)] ELSE items,
       query   |-> payload.query]
===============================================================================
