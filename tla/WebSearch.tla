----------------------------- MODULE WebSearch ------------------------------
(***************************************************************************)
(* web_search: the provider the desk configured, the one request a call    *)
(* makes of it, and the list of links it comes back as.                    *)
(*                                                                         *)
(* Source: websearch.rs.  A response is its status, whether its body is    *)
(* JSON and its rows; a row is whether it has a url.                       *)
(***************************************************************************)
EXTENDS Fetch, Lists

DEFAULT_WEB_HITS == 5
MAX_WEB_HITS == 10
BRAVE_API == Url("https", Name(<<"api", "search", "brave", "com">>), <<"res", "v1", "web", "search">>)

configured(policy) ==
    \/ policy.provider = <<"searxng">> /\ policy.url # <<>>
    \/ policy.provider = <<"brave">> /\ key_named(policy.key)

limit_of_web(limit) ==
    IF limit = <<>> THEN DEFAULT_WEB_HITS
    ELSE IF limit[1] > MAX_WEB_HITS THEN MAX_WEB_HITS
    ELSE IF limit[1] < 1 THEN 1 ELSE limit[1]

\* The URL a provider is asked at, over http or https and without a credential.
endpoint(url) ==
    IF parses(url) THEN [ok |-> TRUE, url |-> url, key |-> "none"] ELSE Refused("not a search url")

\* SearxNG is asked at its instance's search path.
searxng_asks(policy) == endpoint([policy.url[1] EXCEPT !.path = Trimmed(@) \o <<"search">>])

\* Brave's key is read now, and travels as a header.
brave_asks(policy, files) ==
    LET key == search_key(policy.key, files) IN
    IF key.ok THEN [endpoint(BRAVE_API) EXCEPT !.key = key.source] ELSE key

\* The query, then the provider, then its request.
search_begins(input, policy, files) ==
    IF input.query \in {"blank", "too long"} THEN Refused("query")
    ELSE IF ~configured(policy) THEN Refused("not configured")
    ELSE IF policy.provider = <<"searxng">> THEN searxng_asks(policy)
    ELSE brave_asks(policy, files)

\* What the provider answered, or why it did not.
fetched(response) ==
    IF response.status = 429 THEN Refused("rate limited")
    ELSE IF response.status \notin 200 .. 299 THEN Refused("status")
    ELSE IF ~response.json THEN Refused("not json")
    ELSE [ok |-> TRUE, rows |-> response.rows]

LINK == 700         \* what a rendered link comes to, its snippet capped

\* The rows that have a url, and no more than the limit: the answer does not
\* say that there were more.
search_reads(input, response) ==
    LET held == fetched(response)
        hits == Kept(held.rows, {row \in Range(held.rows) : row.url})
    IN IF ~held.ok THEN held
       ELSE [ok |-> TRUE,
             text |-> [size |-> HEADER + LINK * Least(Len(hits), limit_of_web(input.limit)),
                       withheld |-> Len(hits) > limit_of_web(input.limit), said |-> FALSE]]
=============================================================================
