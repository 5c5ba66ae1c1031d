------------------------------ MODULE MCTools -------------------------------
(* The desk, the builds, the questions and the web of the model-checking run *)
(* of Tools.                                                                 *)
EXTENDS Tools

Docs == Name(<<"docs", "example">>)
Wiki == Name(<<"wiki", "example">>)
Local == Name(<<"desk", "localhost">>)
Bundle(name) == [from |-> "bundle", name |-> name]
Relative(name) == [from |-> "relative", name |-> name]
Host(h) == [host |-> h, blank |-> FALSE]

\* A key in a file, and a github token only gh has.
MCEnvs == {[ANTHROPIC_AUTH_TOKEN |-> <<>>, GYLD_AGENT_COMPAT |-> <<"olama">>, GITHUB_TOKEN |-> <<>>]}
MCFlags == [Unsaid EXCEPT !["tool_timeout_secs"] = <<5>>]

\* A desk that names its hosts and searches with a key out of a file, its
\* answers small; one that goes anywhere and lists its tools; one that says
\* nothing.
Named == [fetch_hosts |-> {Host(Docs), [Host(Wiki) EXCEPT !.blank = TRUE]},
          fetch_bytes |-> 1000, tool_result_bytes |-> 1200,
          search_provider |-> "brave", search_key |-> <<>>, search_key_file |-> Relative("brave")]
Anywhere == [base_url |-> Url("http", Name(<<"localhost">>), <<"">>), fetch_hosts |-> {Host(ANY_HOST)},
             search_provider |-> "searxng", search_url |-> <<Url("http", Local, <<"">>)>>,
             tools |-> {"fetch_url", "web_search", "search_sources", "gyld_query", "shell"},
             tool_result_bytes |-> 900, colour |-> "red"]
MCFiles == {[is |-> "held", said |-> Named], [is |-> "held", said |-> Anywhere], [is |-> "undecodable"]}

MCKeyFiles == {Bundle("brave"), DEFAULT_KEY_FILE}
MCKeyStates == {"shared"}

Row(slot, n) == [slot |-> slot, says |-> Line([key |-> n], 200)]
Ruling(slot) == [slot |-> "r1", decides |-> slot, selects |-> "", reopens |-> "", occurred |-> {},
                 says |-> Line([key |-> 3, custody |-> 9], 40)]
Emitted(slots) == [questions |-> [i \in DOMAIN slots |-> Row(slots[i], 90 * i)],
                   rulings |-> <<Ruling("custody")>>]

\* The second build no longer asks what the first one did; the list of the big
\* stream is over what gyld_query reads.
Build(slots) ==
    [index |-> "held", root |-> [given |-> "../wz", relative_to |-> "checkout"],
     documents |-> <<[id |-> "Keys", path |-> "Keys.md", climbs |-> FALSE],
                     [id |-> "Out", path |-> "../Out.md", climbs |-> TRUE]>>,
     tags |-> <<[tag |-> "Q1", document |-> "Keys", heading |-> {"rotation"}]>>,
     unresolved |-> {"Q2"}, cited_by |-> {[stream |-> "base", slot |-> "custody", tags |-> {"Q2"}]},
     listed |-> <<"big", "base", "../up">>,
     emits |-> ("base" :> Emitted(slots)) @@ ("big" :> Emitted(<<"custody">>)),
     projects |-> ("base" :> <<Row("custody", 0)>>), diffs |-> {},
     large |-> {<<"decide-now", "big">>}]
MCBuilds == <<Build(<<"custody", "rotation">>), Build(<<"rotation">>)>>

MCLibrary == (<<"checkout", "Keys.md">> :>
    <<[heading |-> "", text |-> Line([key |-> 0], 20)],
      [heading |-> "rotation", text |-> Line([rotation |-> 3], 11)],
      [heading |-> "", text |-> Line([key |-> 300, rotation |-> 310], 400)]>>)

Question == [size |-> 900, format |-> "gyld.ask-context.v1", stream |-> "base", slot |-> "custody",
             conversation |-> "c", question |-> 40, sources |-> {"Q1"}]
MCEnvelopes == {<<Question>>}

Record(stream, slot) == [tool |-> "gyld_query", input |-> [kind |-> "record", stream |-> stream, slot |-> slot,
                                                           left |-> "", right |-> ""]]
Search(limit) == [tool |-> "search_sources", input |-> [words |-> {"key"}, limit |-> limit]]
Fetch(url) == [tool |-> "fetch_url", input |-> [url |-> <<url>>]]
Read(tag) == [tool |-> "read_source", input |-> [tag |-> tag, document |-> "Keys", heading |-> {}]]
Github(kind, path) == [tool |-> "github", input |-> [kind |-> kind, repo |-> <<"o", "n">>,
                                                    path |-> path, query |-> "q"]]
Web_search == [tool |-> "web_search", input |-> [query |-> "q", limit |-> <<40>>]]

MCReaches(t, n) ==
    CASE t = 1 /\ n = 1 -> {Search(<<6>>), Fetch(Url("http", Docs, <<"a">>)), Github("tree", <<"src", "..">>)}
      [] t = 1 /\ n # 1 -> {Record("base", "custody"), Record("base", " custody"), Record("big", "custody"),
                            Read("Q1"), Github("file", <<"", "src", "", "a.rs">>), Github("file", <<"", "">>),
                            Github("tree", <<"too long">>), Github("search", <<>>), Web_search}
      [] OTHER -> {Fetch(Url("http", Docs, <<"b">>))}

Page(size, type) == [status |-> 200, location |-> <<>>, type |-> type, size |-> size, stump |-> 1, markup |-> 300]
Moves(url) == [Page(0, "none") EXCEPT !.status = 302, !.location = <<url>>]
Rows(n) == [status |-> 200, location |-> <<>>, json |-> TRUE, rows |-> [i \in 1 .. n |-> [url |-> i # 2]]]
Held(is, size, encoding) == [status |-> 200, location |-> <<>>, spent |-> FALSE,
                             body |-> [is |-> is, size |-> size, encoding |-> encoding, entries |-> size]]
Elsewhere(response, url) == [response EXCEPT !.status = 301, !.location = <<url>>]
Garbled == Held("nothing", 0, "")

MCWeb(tool, url) ==
    CASE tool = "fetch_url" ->
            IF url.path = <<"a">>
            THEN {Moves(Url("http", Docs, <<"b">>)), Moves(Url("http", V4(<<10, 0, 0, 1>>), <<"c">>)),
                  Page(1000, "text"), Page(1001, "html")}
            ELSE {Moves(Url("http", Docs, <<"a">>)),
                  Moves(Url("http", V6(<<0, 0, 0, 0, 0, 65535, 32512, 1>>), <<"c">>))}
      [] tool = "github" ->
            IF url.host # API
            THEN {Held("file", 600, "base64"), Elsewhere(Garbled, Url("ftp", Docs, <<>>))}
            ELSE IF url.path[1] = "search"
            THEN {Held("items", 12, ""), Garbled, [Garbled EXCEPT !.status = 403, !.spent = TRUE]}
            ELSE {Held("file", 10, "none"), Held("file", 10, "not base64"), Held("directory", 20, ""),
                  Elsewhere(Garbled, Url("https", Docs, <<>>))}
      [] tool = "web_search" ->
            IF url.host = Local THEN {Rows(7), Elsewhere(Rows(0), Url("http", Docs, <<"">>))}
            ELSE {[Rows(0) EXCEPT !.status = 429], [Rows(0) EXCEPT !.status = 301]}
=============================================================================
