------------------------------- MODULE Tools --------------------------------
(***************************************************************************)
(* The tools of a running desk: each question is planned against the       *)
(* newest build and answered with the configuration of its own moment,     *)
(* and each call runs on a thread of its own, which its turn waits for no  *)
(* longer than the call's budget.                                          *)
(*                                                                         *)
(* Sources: tools.rs, toolset.rs, ask.rs, supplier/consultation.rs,        *)
(* supplier/config.rs, model/https.rs (post) and the tools' own modules.   *)
(*                                                                         *)
(* Meanwhile the configuration and the key files are edited and builds     *)
(* land.  The loop's budgets and the records are Consult's; here a round   *)
(* of the model is one call.  The model, the web and gh are external.      *)
(***************************************************************************)
EXTENDS Toolset

CONSTANTS
    MaxTurns,       \* bound: how many questions are asked
    MaxCalls,       \* bound: how many calls they make together
    MaxEdits,       \* bound: how often the configuration or a key file changes
    MaxFaults,      \* bound: how many tools panic
    Envs,           \* the environments the supplier may be started in
    Flags,          \* the settings it is given as flags
    Files,          \* what agent/config.json may hold
    KeyFiles,       \* the key files a configuration may name
    KeyStates,      \* what may become of one
    Builds,         \* the builds, in the order they land
    Library,        \* the documents under the sources roots
    Envelopes,      \* the questions a reader may send
    Reaches(_, _),  \* the calls a turn's model may make as the desk's n-th
    Web(_, _)       \* what may answer a tool's request of a URL

TurnIds == 1 .. MaxTurns

ASSUME BoundsAssumption ==
    MaxTurns \in Nat /\ MaxCalls \in Nat /\ MaxEdits \in Nat /\ MaxFaults \in Nat
ASSUME KeyStatesAssumption == KeyStates \subseteq {"absent", "shared", "blank", "private"}

\* There is a build, and what a build and a document's file hold are lists.
ASSUME BuildsAssumption ==
    /\ IsSequence(Builds) /\ Builds # <<>>
    /\ \A b \in Range(Builds) :
          /\ IsSequence(b.listed)
          /\ b.index = "held" => IsSequence(b.documents) /\ IsSequence(b.tags)
          /\ \A s \in DOMAIN b.emits : IsSequence(b.emits[s].questions) /\ IsSequence(b.emits[s].rulings)
          /\ \A s \in DOMAIN b.projects : IsSequence(b.projects[s])
ASSUME LibraryAssumption == \A file_at \in DOMAIN Library : IsSequence(Library[file_at])

\* What a model says of a call is its tool and an input of that tool's.
ASSUME ReachesAssumption ==
    \A t \in TurnIds, n \in 1 .. MaxCalls : \A reach \in Reaches(t, n) :
        /\ reach = [tool |-> reach.tool, input |-> reach.input]
        /\ reach.tool = "github" => IsSequence(reach.input.repo) /\ IsSequence(reach.input.path)
        /\ reach.tool \in {"search_sources", "web_search"} =>
              reach.input.limit = <<>> \/ reach.input.limit[1] \in Int

\* What a configuration comes to: URLs with their parts, caps that are sizes,
\* and no key file but the desk's.
Settled(config) ==
    LET search == config.tools.search IN
    /\ {"host", "path"} \subseteq DOMAIN config.base_url
    /\ config.key_file \in KeyFiles
    /\ config.tools.bytes \in Nat /\ config.tools.fetch.bytes \in Nat
    /\ search.url # <<>> => {"scheme", "user", "host", "path"} \subseteq DOMAIN search.url[1]
    /\ search.key.file # <<>> => search.key.file[1] \in KeyFiles
ASSUME SettledAssumption == \A said \in Files, e \in Envs : Settled(resolve(said, e, Flags).config)

VARIABLES
    env,        \* the environment, as it was at the start
    file,       \* agent/config.json
    keys,       \* the key files
    latest,     \* how many builds have landed
    token,      \* where the github token was found, once it was looked for
    pc,         \* how far each turn has got
    plan,       \* the build and the question it was planned with
    conf,       \* the configuration it was made with
    enabled,    \* the tools it may call
    noted,      \* what it was told of its configuration
    posted,     \* its request of the model, while one is out
    calls,      \* the calls made, in order, with their threads
    edits,      \* how many edits there have been
    faults      \* how many faults

turnVars == <<pc, plan, conf, enabled, noted, posted>>
deskVars == <<env, file, keys, latest, token, edits>>
vars == <<turnVars, deskVars, calls, faults>>

None == <<>>
Unasked == [build |-> 0, context |-> None]

-----------------------------------------------------------------------------
(* The desk.                                                                 *)

\* Attach: the github token is discovered here and only here.
Attach ==
    /\ token = "undiscovered"
    /\ \E gh \in {"token", "nothing"} : token' = discover_token(env, gh)
    /\ UNCHANGED <<env, file, keys, latest, edits, turnVars, calls, faults>>

EditConfig ==
    /\ token # "undiscovered"
    /\ edits < MaxEdits
    /\ \E f \in Files \ {file} : file' = f
    /\ edits' = edits + 1
    /\ UNCHANGED <<env, keys, latest, token, turnVars, calls, faults>>

EditKey ==
    /\ token # "undiscovered"
    /\ edits < MaxEdits
    /\ \E k \in KeyFiles : \E s \in KeyStates \ {keys[k]} : keys' = [keys EXCEPT ![k] = s]
    /\ edits' = edits + 1
    /\ UNCHANGED <<env, file, latest, token, turnVars, calls, faults>>

BuildLands ==
    /\ token # "undiscovered"
    /\ latest < Len(Builds)
    /\ latest' = latest + 1
    /\ UNCHANGED <<env, file, keys, token, edits, turnVars, calls, faults>>

-----------------------------------------------------------------------------
(* Planning: what is refused before anything is begun.                       *)

\* The agent's readiness, by presence alone: no key is opened here.
agent_state(config, build) ==
    [key |-> \/ var(env, "ANTHROPIC_API_KEY") # <<>>
             \/ var(env, "ANTHROPIC_AUTH_TOKEN") # <<>>
             \/ keys[config.key_file] # "absent",
     index |-> build.index # "absent",
     streams |-> {build.listed[i] : i \in DOMAIN build.listed}]

MAX_CONTEXT_BYTES == 262144
MAX_QUESTION_BYTES == 8192
valid_conversation_id(id) == id \notin {"", "two words"}

\* AskContext::parse, its checks in order.
parse_context(envelope) ==
    LET c == envelope[1] IN
    IF envelope = None THEN Refused("context is required")
    ELSE IF c.size > MAX_CONTEXT_BYTES THEN Refused("too large an envelope")
    ELSE IF c.format # "gyld.ask-context.v1" THEN Refused("another format")
    ELSE IF ~valid_stream_id(c.stream) THEN Refused("not a stream id")
    ELSE IF c.slot = "" THEN Refused("no slot")
    ELSE IF ~valid_conversation_id(c.conversation) THEN Refused("not a conversation id")
    ELSE IF c.question = 0 THEN Refused("no question")
    ELSE IF c.question > MAX_QUESTION_BYTES THEN Refused("too long a question")
    ELSE [ok |-> TRUE, context |-> c]

\* Consultation::resolve
consultation(build, envelope, agent) ==
    LET parsed == parse_context(envelope) IN
    IF ~parsed.ok THEN parsed
    ELSE IF ~agent.key THEN Refused("no model key")
    ELSE IF ~agent.index THEN Refused("no source index")
    ELSE IF parsed.context.stream \notin agent.streams THEN Refused("stream not listed")
    ELSE parsed

\* explain: the newest build and the configuration of now.
Explain(t) ==
    /\ pc[t] = "new"
    /\ token # "undiscovered"
    /\ latest > 0
    /\ \A s \in TurnIds : s < t => pc[s] # "new"
    /\ \E envelope \in Envelopes :
          LET now == resolve(file, env, Flags).config
              asked == consultation(Builds[latest], envelope, agent_state(now, Builds[latest]))
          IN IF asked.ok
             THEN /\ plan' = [plan EXCEPT ![t] = [build |-> latest, context |-> <<asked.context>>]]
                  /\ pc' = [pc EXCEPT ![t] = "planned"]
             ELSE /\ pc' = [pc EXCEPT ![t] = "ended"]
                  /\ UNCHANGED plan
    /\ UNCHANGED <<conf, enabled, noted, posted, deskVars, calls, faults>>

-----------------------------------------------------------------------------
(* A turn.                                                                   *)

\* resolve_agent, read afresh for the turn.
Resolve(t) ==
    /\ pc[t] = "planned"
    /\ LET now == resolve(file, env, Flags) IN
       /\ conf' = [conf EXCEPT ![t] = <<now.config>>]
       /\ noted' = [noted EXCEPT ![t] = now.notes]
    /\ pc' = [pc EXCEPT ![t] = "resolved"]
    /\ UNCHANGED <<plan, enabled, posted, deskVars, calls, faults>>

\* Seeded bug: the newest build is read at each call.
build_of_Newest(t) == latest

\* The build a turn's tools read: the one its index is in.
build_of(t) == plan[t].build

\* ground, and the tools of the turn.
Open(t) ==
    /\ pc[t] = "resolved"
    /\ IF read_index(Builds[build_of(t)]).ok
       THEN LET tools == registry(conf[t][1].tools, token) IN
            /\ enabled' = [enabled EXCEPT ![t] = tools.held]
            /\ noted' = [noted EXCEPT ![t] = @ \cup tools.notes
                            \cup {<<"citation", s>> : s \in DOMAIN resolve_sources(Builds[build_of(t)], plan[t].context[1])}]
            /\ pc' = [pc EXCEPT ![t] = "open"]
       ELSE /\ pc' = [pc EXCEPT ![t] = "ended"]
            /\ UNCHANGED <<enabled, noted>>
    /\ UNCHANGED <<plan, conf, posted, deskVars, calls, faults>>

\* The key is discovered at the moment of the call, and no call is made without
\* one.
Post(t) ==
    /\ pc[t] = "open"
    /\ LET key == discover_key(env, keys[conf[t][1].key_file])
           url == [conf[t][1].base_url EXCEPT !.path = @ \o <<"v1", "messages">>]
       IN IF key.ok
          THEN /\ posted' = [posted EXCEPT ![t] = <<[url |-> url, key |-> key.source]>>]
               /\ pc' = [pc EXCEPT ![t] = "posted"]
          ELSE /\ pc' = [pc EXCEPT ![t] = "ended"]
               /\ UNCHANGED posted
    /\ UNCHANGED <<plan, conf, enabled, noted, deskVars, calls, faults>>

Spawned(t, reach) ==
    [turn |-> t, tool |-> reach.tool, input |-> reach.input, phase |-> "begun",
     request |-> None, hops |-> 0, result |-> None, answer |-> None]

\* ToolAnswer::answered, capped to the desk's budget, and ToolAnswer::refused.
answered(result, cap) ==
    LET cut == result.text.size > cap IN
    [ok |-> TRUE, why |-> "answered", size |-> Least(result.text.size, cap), truncated |-> cut,
     withheld |-> cut \/ result.text.withheld, said |-> result.text.said,
     hits |-> IF "hits" \in DOMAIN result THEN result.hits ELSE {}]
refused(why) ==
    [ok |-> FALSE, why |-> why, size |-> 0, truncated |-> FALSE, withheld |-> FALSE, said |-> FALSE,
     hits |-> {}]

\* The model reaches for a tool: one this turn does not have is refused where
\* it stands, and any other runs on a thread.
Call(t) ==
    /\ pc[t] = "posted"
    /\ Len(calls) < MaxCalls
    /\ \E reach \in Reaches(t, Len(calls) + 1) :
          IF reach.tool \in enabled[t]
          THEN /\ calls' = Append(calls, Spawned(t, reach))
               /\ pc' = [pc EXCEPT ![t] = "waiting"]
          ELSE /\ calls' = Append(calls, [Spawned(t, reach) EXCEPT
                              !.phase = "ended", !.answer = <<refused("not enabled")>>])
               /\ pc' = [pc EXCEPT ![t] = "open"]
    /\ posted' = [posted EXCEPT ![t] = None]
    /\ UNCHANGED <<plan, conf, enabled, noted, deskVars, faults>>

\* The model says its last, or fails.
Close(t) ==
    /\ pc[t] = "posted"
    /\ pc' = [pc EXCEPT ![t] = "ended"]
    /\ posted' = [posted EXCEPT ![t] = None]
    /\ UNCHANGED <<plan, conf, enabled, noted, deskVars, calls, faults>>

-----------------------------------------------------------------------------
(* A call's thread.                                                          *)

Waited(n) == calls[n].answer = None

\* The thread says how it went; nobody hears one that was given up.
Tells(n, result) ==
    calls' = [calls EXCEPT ![n].phase = IF Waited(n) THEN "told" ELSE "ended",
                           ![n].result = <<result>>, ![n].request = None]

\* What a tool over the build, or over the documents, says of each call it may
\* get: neither a build nor the library ever changes.
local_reaches == {reach \in UNION {Reaches(t, n) : t \in TurnIds, n \in 1 .. MaxCalls} :
                     reach.tool \in LocalTools}
local_answer == [b \in DOMAIN Builds |-> [reach \in local_reaches |->
    CASE reach.tool = "read_source" -> read_source(reach.input, Builds[b])
      [] reach.tool = "gyld_query" -> gyld_query(reach.input, Builds[b])
      [] OTHER -> search_sources(reach.input, Builds[b], Library)]]

\* A tool over the build, or over the documents.
Reads(n) ==
    LET call == calls[n] IN
       /\ call.phase = "begun"
       /\ call.tool \in LocalTools
       /\ Tells(n, local_answer[build_of(call.turn)][[tool |-> call.tool, input |-> call.input]])
       /\ UNCHANGED <<turnVars, deskVars, faults>>

Asks(n, url, key, hops) ==
    calls' = [calls EXCEPT ![n].phase = "asked", ![n].hops = hops,
                           ![n].request = <<[url |-> url, key |-> key]>>]

begins(call) ==
    LET policy == conf[call.turn][1].tools IN
    CASE call.tool = "fetch_url" -> fetch_begins(call.input, policy.fetch)
      [] call.tool = "web_search" -> search_begins(call.input, policy.search, keys)
      [] call.tool = "github" -> github_begins(call.input)

\* A network tool makes its request, or refuses to.
Requests(n) ==
    /\ calls[n].phase = "begun"
    /\ calls[n].tool \in NetworkTools
    /\ LET begun == begins(calls[n]) IN
       IF begun.ok THEN Asks(n, begun.url, begun.key, 0) ELSE Tells(n, begun)
    /\ UNCHANGED <<turnVars, deskVars, faults>>

\* What github and web_search read in a response their client did not follow.
reads(call, response) ==
    IF call.tool = "github"
    THEN github_reads(call.input, response, conf[call.turn][1].tools.bytes)
    ELSE search_reads(call.input, response)

\* It is answered.  fetch_url walks a chain of redirects by hand; the other
\* clients follow one unseen, the provider's key with them.
Served(n) ==
    LET call == calls[n] IN
       /\ call.phase = "asked"
       /\ \E response \in Web(call.tool, call.request[1].url) :
             IF call.tool = "fetch_url"
             THEN LET next == follow(response, call.hops, conf[call.turn][1].tools.fetch) IN
                  IF next.go THEN Asks(n, next.url, "none", call.hops + 1) ELSE Tells(n, next.done)
             ELSE LET next == redirected(response, call.hops) IN
                  IF next.go THEN Asks(n, next.url, call.request[1].key, call.hops + 1)
                  ELSE Tells(n, IF next.stops THEN Refused("transport") ELSE reads(call, response))
       /\ UNCHANGED <<turnVars, deskVars, faults>>

\* Seeded bug: a client without a timeout.
TimesOut_Never(n) ==
    /\ calls[n].phase = "asked"
    /\ FALSE
    /\ UNCHANGED vars

\* Every client is built with the budget of a call as its timeout.
TimesOut(n) ==
    /\ calls[n].phase = "asked"
    /\ Tells(n, Refused("transport"))
    /\ UNCHANGED <<turnVars, deskVars, faults>>

\* A tool that panics drops its end of the channel.
Panics(n) ==
    /\ calls[n].phase \in {"begun", "asked"}
    /\ faults < MaxFaults
    /\ faults' = faults + 1
    /\ calls' = [calls EXCEPT ![n].phase = IF Waited(n) THEN "dropped" ELSE "ended", ![n].request = None]
    /\ UNCHANGED <<turnVars, deskVars>>

Answers(n, answer) ==
    /\ calls' = [calls EXCEPT ![n].answer = <<answer>>, ![n].result = None,
                              ![n].phase = IF @ \in {"told", "dropped"} THEN "ended" ELSE @]
    /\ pc' = [pc EXCEPT ![calls[n].turn] = "open"]
    /\ UNCHANGED <<plan, conf, enabled, noted, posted, deskVars, faults>>

\* run_within's three ends: the tool's own answer, none, or no answer in time.
Received(n) ==
    /\ calls[n].phase = "told"
    /\ LET result == calls[n].result[1] IN
       Answers(n, IF result.ok THEN answered(result, conf[calls[n].turn][1].tools.bytes)
                  ELSE refused(result.why))
Disconnected(n) ==
    /\ calls[n].phase = "dropped"
    /\ Answers(n, refused("ended without answering"))
Abandoned(n) ==
    /\ Waited(n)
    /\ calls[n].phase \in {"begun", "asked"}
    /\ Answers(n, refused("did not answer in time"))

-----------------------------------------------------------------------------

Init ==
    /\ env \in Envs
    /\ file \in Files
    /\ keys = [k \in KeyFiles |-> "private"]
    /\ latest = 1
    /\ token = "undiscovered"
    /\ pc = [t \in TurnIds |-> "new"]
    /\ plan = [t \in TurnIds |-> Unasked]
    /\ conf = [t \in TurnIds |-> None]
    /\ enabled = [t \in TurnIds |-> {}]
    /\ noted = [t \in TurnIds |-> {}]
    /\ posted = [t \in TurnIds |-> None]
    /\ calls = <<>>
    /\ edits = 0
    /\ faults = 0

Next ==
    \/ Attach
    \/ EditConfig
    \/ EditKey
    \/ BuildLands
    \/ \E t \in TurnIds : Explain(t)
    \/ \E t \in TurnIds : Resolve(t)
    \/ \E t \in TurnIds : Open(t)
    \/ \E t \in TurnIds : Post(t)
    \/ \E t \in TurnIds : Call(t)
    \/ \E t \in TurnIds : Close(t)
    \/ \E n \in DOMAIN calls : Reads(n)
    \/ \E n \in DOMAIN calls : Requests(n)
    \/ \E n \in DOMAIN calls : Served(n)
    \/ \E n \in DOMAIN calls : TimesOut(n)
    \/ \E n \in DOMAIN calls : Panics(n)
    \/ \E n \in DOMAIN calls : Received(n)
    \/ \E n \in DOMAIN calls : Disconnected(n)
    \/ \E n \in DOMAIN calls : Abandoned(n)

CallIds == 1 .. MaxCalls
Called(n) == n \in DOMAIN calls

\* The threads of the host run, the clients' timeouts fire and the channel is
\* read or given up.  Nothing is asked of the web, of the model or of the desk.
Fairness ==
    \A n \in CallIds :
        /\ WF_vars(Called(n) /\ Reads(n))
        /\ WF_vars(Called(n) /\ Requests(n))
        /\ WF_vars(Called(n) /\ TimesOut(n))
        /\ WF_vars(Called(n) /\ Received(n))
        /\ WF_vars(Called(n) /\ Disconnected(n))
        /\ WF_vars(Called(n) /\ Abandoned(n))

Spec == Init /\ [][Next]_vars /\ Fairness

-----------------------------------------------------------------------------
(* Properties                                                                *)

Phases == {"new", "planned", "resolved", "open", "posted", "waiting", "ended"}
ThreadPhases == {"begun", "asked", "told", "dropped", "ended"}

\* The redirects that a tool's client follows.
Chain(tool) == IF tool = "fetch_url" THEN MAX_HOPS ELSE REDIRECTS

\* The type invariant: a call is one thread's, no thread makes more requests
\* than a chain of redirects has, a turn waits for one call at most, and one
\* that was asked has its build and its configuration (tools.rs, fetch.rs).
TypeOK ==
    /\ latest \in 1 .. Len(Builds) /\ edits \in 0 .. MaxEdits /\ faults \in 0 .. MaxFaults
    /\ keys \in [KeyFiles -> KeyStates \cup {"private"}]
    /\ token \in {"undiscovered", "none", "env", "gh"}
    /\ pc \in [TurnIds -> Phases]
    /\ enabled \in [TurnIds -> SUBSET Offered]
    /\ \A t \in TurnIds :
          /\ (posted[t] # None) <=> (pc[t] = "posted")
          /\ plan[t].build \in 0 .. latest
          /\ pc[t] \in Phases \ {"new", "planned", "ended"} => conf[t] # None
          /\ Cardinality({n \in DOMAIN calls : calls[n].turn = t /\ Waited(n)})
                = IF pc[t] = "waiting" THEN 1 ELSE 0
    /\ Len(calls) <= MaxCalls
    /\ \A n \in DOMAIN calls :
          /\ calls[n].phase \in ThreadPhases
          /\ calls[n].hops \in 0 .. Chain(calls[n].tool)
          /\ (calls[n].request # None) <=> (calls[n].phase = "asked")
          /\ (calls[n].result # None) => (calls[n].phase \in {"told", "ended"})

\* Where the configuration of a call's own turn lets its tool go.
MayReach(call, request) ==
    LET policy == conf[call.turn][1].tools
        url == request.url
    IN /\ call.tool \in enabled[call.turn]
       /\ url.scheme \in {"http", "https"} /\ ~url.user
       /\ CASE call.tool = "fetch_url" ->
                 /\ url.host \in policy.fetch.hosts \/ (ANY_HOST \in policy.fetch.hosts /\ ~private(url.host))
                 /\ request.key = "none"
            [] call.tool = "github" ->
                 /\ url.host = API
                 /\ call.input.kind # "search" => SubSeq(url.path, 1, 3) = <<"repos">> \o call.input.repo
                 /\ \A i \in DOMAIN url.path : url.path[i] # ".."
            [] call.tool = "web_search" ->
                 IF policy.search.provider = <<"brave">>
                 THEN /\ url = BRAVE_API
                      /\ request.key = "file" => keys[policy.search.key.file[1]] = "private"
                 ELSE url.host = policy.search.url[1].host /\ request.key = "none"

\* A tool asks only what the configuration its turn was made with says, also on
\* a thread its turn gave up and whatever the configuration has become since:
\* fetch_url at each one of a chain of redirects, github and web_search where
\* their call begins; and a key out of a file begins a request, the model's too,
\* only when nobody but its owner can read that file at that moment.  Where the
\* redirects of github, of web_search and of the model lead, nobody checks
\* (fetch.rs run, websearch.rs, github.rs, https.rs post).
NothingUnasked ==
    [][/\ \A n \in DOMAIN calls' :
             /\ calls'[n].request # None
             /\ n \in DOMAIN calls => calls'[n].request # calls[n].request
             /\ calls'[n].tool = "fetch_url" \/ calls'[n].hops = 0
             => MayReach(calls'[n], calls'[n].request[1])
       /\ \A t \in TurnIds :
             posted'[t] # None /\ posted[t] = None
             => /\ posted'[t][1].url.host = conf[t][1].base_url.host
                /\ posted'[t][1].key = "file" => keys[conf[t][1].key_file] = "private"
      ]_vars

\* The slots a call can name: gyld_query reads one without the blanks around it,
\* and refuses one that is empty or too long.
Nameable(slot) == slot_fits(slot) /\ string(slot) = slot

\* A turn's tools answer about one build: a row that search_sources found can be
\* read with gyld_query later in the turn, though other builds land meanwhile.
\* The two differ in what they take: a slot that a call cannot name, and a list
\* over MAX_READ_BYTES, are searched and not read (tools.rs ToolContext::beside,
\* search.rs records, toolset.rs record, slot, read).
HitsAreAnswered ==
    \A m, n \in DOMAIN calls :
        /\ m < n /\ calls[m].turn = calls[n].turn
        /\ calls[m].tool = "search_sources" /\ ~Waited(m)
        /\ calls[n].tool = "gyld_query" /\ ~Waited(n)
        /\ calls[n].input.kind = "record" /\ Nameable(calls[n].input.slot)
        /\ \E h \in calls[m].answer[1].hits :
              h.place = <<"label", calls[n].input.stream, calls[n].input.slot>>
        /\ calls[n].answer[1].why \notin
              {"not enabled", "ended without answering", "did not answer in time", "too large"}
        => calls[n].answer[1].ok

\* An answer keeps to the desk's budget, and it says when something was withheld
\* from it: a page cut at its own cap, a file or a search without room, lines
\* that matched past the limit, or the budget itself (fetch.rs take, github.rs
\* with_contents, search.rs render, tools.rs capped).  web_search is left out:
\* it drops the links past its limit in silence.
CutIsSaid ==
    \A n \in DOMAIN calls :
        LET answer == calls[n].answer[1] IN
        ~Waited(n) /\ answer.ok
        => /\ answer.size <= conf[calls[n].turn][1].tools.bytes
           /\ calls[n].tool # "web_search" /\ answer.withheld => answer.truncated \/ answer.said

\* Every call is answered, and its thread ends, also once its turn has given it
\* up: nothing is left running behind a desk (tools.rs run_within, the clients'
\* timeouts).
CallsReturn ==
    \A n \in CallIds : Called(n) ~> (Called(n) /\ ~Waited(n) /\ calls[n].phase = "ended")

=============================================================================
