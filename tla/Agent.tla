------------------------------- MODULE Agent --------------------------------
(***************************************************************************)
(* How the ask agent is configured: a file, the environment and the flags, *)
(* merged setting by setting, and the credentials a call is made with.     *)
(*                                                                         *)
(* Sources: agent.rs, websearch.rs (Provider, SearchKey),                  *)
(* model/credentials.rs, github.rs (discover), supplier/config.rs.         *)
(*                                                                         *)
(* What nobody said is <<>>, and <<v>> is a value.  A host is a record of  *)
(* its kind and its labels or numbers; a URL is a record of its parts, its *)
(* path the segments between slashes; a file is where its path starts from *)
(* and its name.                                                           *)
(***************************************************************************)
EXTENDS Integers, Sequences, FiniteSets

unwrap_or(opt, default) == IF opt = <<>> THEN default ELSE opt[1]

Name(labels) == [kind |-> "name", at |-> labels]
V4(bytes) == [kind |-> "v4", at |-> bytes]
V6(segments) == [kind |-> "v6", at |-> segments]
Url(scheme, host, path) == [scheme |-> scheme, user |-> FALSE, host |-> host, path |-> path]

Settings ==
    {"model", "base_url", "compat", "max_tokens", "max_input_tokens", "max_conversation_tokens",
     "timeout_secs", "key_file", "strict", "cache_control", "count_tokens", "tools", "tool_steps",
     "tool_result_bytes", "tool_timeout_secs", "fetch_hosts", "fetch_bytes", "search_provider",
     "search_url", "search_key", "search_key_file"}

Profiles == {"anthropic", "ollama"}
Providers == {"searxng", "brave"}

-----------------------------------------------------------------------------
(* Where a setting comes from.                                               *)

Unsaid == [s \in Settings |-> <<>>]

\* `higher` over `lower`, setting by setting.
under(lower, higher) == [s \in Settings |-> IF higher[s] = <<>> THEN lower[s] ELSE higher[s]]

\* The two settings whose value is a name: one nobody knows is noted and is no
\* value.  It never becomes the default's or the other's.
Known(setting, value) ==
    CASE setting = "compat" -> value \in Profiles
      [] setting = "search_provider" -> value \in Providers
      [] OTHER -> TRUE

from_json(said) ==
    [over |-> [s \in Settings |->
                  IF s \in DOMAIN said /\ Known(s, said[s]) THEN <<said[s]>> ELSE <<>>],
     notes |-> {<<"not a setting", name>> : name \in DOMAIN said \ Settings}
          \cup {<<"unknown name", s>> : s \in {s \in DOMAIN said : ~Known(s, said[s])}}]

\* A file that is not there says nothing, in silence; one that cannot be read
\* or does not decode says nothing and is noted.
from_file(file) ==
    CASE file.is = "absent" -> [over |-> Unsaid, notes |-> {}]
      [] file.is \in {"unreadable", "undecodable"} ->
             [over |-> Unsaid, notes |-> {<<file.is, "agent/config.json">>}]
      [] OTHER -> from_json(file.said)

\* A variable that is unset, or blank (<<>>), names nothing.
var(env, name) == IF name \in DOMAIN env THEN env[name] ELSE <<>>

from_vars(env) ==
    LET compat == var(env, "GYLD_AGENT_COMPAT")
        known == compat # <<>> /\ Known("compat", compat[1])
    IN [over |-> [Unsaid EXCEPT !["model"] = var(env, "GYLD_AGENT_MODEL"),
                                !["base_url"] = var(env, "ANTHROPIC_BASE_URL"),
                                !["compat"] = IF known THEN compat ELSE <<>>],
        notes |-> IF compat # <<>> /\ ~known THEN {<<"unknown name", "GYLD_AGENT_COMPAT">>} ELSE {}]

-----------------------------------------------------------------------------
(* What the settings come to.                                                *)

\* The profile an endpoint's host implies, itself or under it.
detect(url) ==
    LET labels == url.host.at
        n == Len(labels)
    IN IF url.host.kind = "name" /\ n >= 2 /\ SubSeq(labels, n - 1, n) = <<"anthropic", "com">>
       THEN "anthropic" ELSE "ollama"

counts_tokens(compat) == compat = "anthropic"
sends_bearer(compat) == compat = "ollama"
default_max_output_tokens(compat) == IF compat = "anthropic" THEN 64000 ELSE 32768
default_max_input_tokens(compat) == IF compat = "anthropic" THEN 200000 ELSE 65536

DEFAULT_BASE_URL == Url("https", Name(<<"api", "anthropic", "com">>), <<>>)
DEFAULT_KEY_FILE == [from |-> "bundle", name |-> "agent/api-key"]

\* A path is the bundle root's unless it is absolute.
Placed(path) == IF path.from = "relative" THEN [path EXCEPT !.from = "bundle"] ELSE path

\* A key written inline, when it is not blank (<<>>), or else a file.
SearchKey(given, file) ==
    [given |-> unwrap_or(given, <<>>),
     file |-> IF file = <<>> THEN <<>> ELSE <<Placed(file[1])>>]

key_named(key) == key.given # <<>> \/ key.file # <<>>

FetchPolicy(merged) ==
    [hosts |-> {entry.host : entry \in {e \in unwrap_or(merged["fetch_hosts"], {}) : ~e.blank}},
     bytes |-> unwrap_or(merged["fetch_bytes"], 262144)]

\* A URL that is blank (<<>>) is none.
SearchPolicy(merged) ==
    [provider |-> merged["search_provider"],
     url |-> unwrap_or(merged["search_url"], <<>>),
     key |-> SearchKey(merged["search_key"], merged["search_key_file"])]

ToolPolicy(merged) ==
    [allow |-> merged["tools"],
     steps |-> unwrap_or(merged["tool_steps"], 6),
     bytes |-> unwrap_or(merged["tool_result_bytes"], 16384),
     timeout |-> unwrap_or(merged["tool_timeout_secs"], 20),
     fetch |-> FetchPolicy(merged),
     search |-> SearchPolicy(merged)]

\* A path without the slashes it ends with.
Trimmed(path) ==
    SubSeq(path, 1, CHOOSE n \in 0 .. Len(path) :
                        /\ n > 0 => path[n] # ""
                        /\ \A i \in n + 1 .. Len(path) : path[i] = "")

\* The default is taken last, once the profile is known.
resolve_from(merged) ==
    LET base_url == [unwrap_or(merged["base_url"], DEFAULT_BASE_URL) EXCEPT !.path = Trimmed(@)]
        compat == unwrap_or(merged["compat"], detect(base_url))
    IN [model |-> unwrap_or(merged["model"], "claude-opus-5"),
        base_url |-> base_url,
        compat |-> compat,
        max_input_tokens |-> unwrap_or(merged["max_input_tokens"], default_max_input_tokens(compat)),
        max_output_tokens |-> unwrap_or(merged["max_tokens"], default_max_output_tokens(compat)),
        max_conversation_tokens |-> unwrap_or(merged["max_conversation_tokens"], 1000000),
        timeout |-> unwrap_or(merged["timeout_secs"], 300),
        key_file |-> IF merged["key_file"] = <<>> THEN DEFAULT_KEY_FILE ELSE Placed(merged["key_file"][1]),
        count_tokens |-> unwrap_or(merged["count_tokens"], counts_tokens(compat)),
        shape |-> [strict |-> unwrap_or(merged["strict"], TRUE),
                   cache_control |-> unwrap_or(merged["cache_control"], TRUE)],
        tools |-> ToolPolicy(merged)]

\* The file, the environment over it, the flags over both.
resolve(file, env, flags) ==
    LET held == from_file(file)
        said == from_vars(env)
    IN [config |-> resolve_from(under(under(held.over, said.over), flags)),
        notes |-> held.notes \cup said.notes]

-----------------------------------------------------------------------------
(* The credentials, each read at the moment of its call.  A key file is      *)
(* absent, shared (another account may read it), blank or private.           *)

Refused(why) == [ok |-> FALSE, why |-> why]
Key(source) == [ok |-> TRUE, source |-> source]

\* A file is read, its mode is checked, and its first line is the key.
read_key(state) ==
    CASE state = "absent" -> Refused("no key file")
      [] state = "shared" -> Refused("key file mode")
      [] state = "blank" -> Refused("empty key file")
      [] OTHER -> Key("file")

discover_key(env, state) ==
    IF var(env, "ANTHROPIC_API_KEY") # <<>> \/ var(env, "ANTHROPIC_AUTH_TOKEN") # <<>>
    THEN Key("env") ELSE read_key(state)

\* SearchKey::value, over the states of the key files.
search_key(key, files) ==
    IF key.given # <<>> THEN Key("given")
    ELSE IF key.file # <<>> THEN read_key(files[key.file[1]])
    ELSE Refused("no search key")

\* The github token, discovered once: the environment's, or what gh said in
\* time.
discover_token(env, gh) ==
    IF var(env, "GITHUB_TOKEN") # <<>> THEN "env" ELSE IF gh = "token" THEN "gh" ELSE "none"
=============================================================================
