------------------------------ MODULE Toolset -------------------------------
(***************************************************************************)
(* The tools that answer about a build: read_source and gyld_query over    *)
(* what the build emitted, search_sources over the same records and over   *)
(* the documents its index names.                                          *)
(*                                                                         *)
(* Sources: toolset.rs, search.rs, sources.rs.                             *)
(*                                                                         *)
(* A build is its source index ("absent", "bad" or "held": its root, its   *)
(* documents, the passages its tags resolve to), the streams it lists, the *)
(* decide-now list and the declarations it emits for each, its diffs, and  *)
(* which of these documents are `large`: over what gyld_query reads.  A    *)
(* line of text is its length and where each of its words stands.  The     *)
(* library is what the documents' files hold.                              *)
(***************************************************************************)
EXTENDS GitHub

Line(words, length) == [words |-> words, length |-> length]
ROW == 400          \* what a row, a hit or a passage comes to

Answered(n) == [ok |-> TRUE, text |-> Text(HEAD + ROW * n), hits |-> {}]

\* The first of what is found, when anything is.
First(found_rows) == SubSeq(found_rows, 1, Least(1, Len(found_rows)))

-----------------------------------------------------------------------------
(* read_source                                                               *)

read_index(build) == IF build.index = "held" THEN [ok |-> TRUE] ELSE Refused("no source index")

\* What a tag resolves to, or why it does not: the index says so, or does not
\* list it.
one_tag(build, tag) ==
    IF \E i \in DOMAIN build.tags : build.tags[i].tag = tag THEN Answered(1)
    ELSE IF tag \in build.unresolved THEN Refused("resolves to nothing")
    ELSE Refused("no such tag")

\* The passages of a document, by its id or its path, under a heading that
\* holds the wanted words.
a_document(build, document, heading) ==
    LET held == First(Kept(build.documents,
                           {d \in Range(build.documents) : d.id = document \/ d.path = document}))
        passages == Kept(build.tags, {t \in Range(build.tags) :
                                         t.document = held[1].id /\ heading \subseteq t.heading})
    IN IF held = <<>> THEN Refused("no such document")
       ELSE IF passages = <<>> THEN Refused("no tag under it")
       ELSE Answered(Len(passages))

read_source(input, build) ==
    IF build.index # "held" THEN read_index(build)
    ELSE IF input.tag # "" THEN one_tag(build, input.tag)
    ELSE IF input.document # "" THEN a_document(build, input.document, input.heading)
    ELSE Refused("neither a tag nor a document")

\* What the record's own citations resolve to: SourceIndex::cited, and the
\* citations of a question's ground.
cited(build, stream, slot) ==
    UNION {c.tags : c \in {c \in build.cited_by : c.stream = stream /\ c.slot = slot}}
resolve_sources(build, context) ==
    [tag \in context.sources \cup cited(build, context.stream, context.slot) |->
        \E i \in DOMAIN build.tags : build.tags[i].tag = tag]

-----------------------------------------------------------------------------
(* gyld_query                                                                *)

\* A stream id is lower case words joined by hyphens; the streams named here
\* are such words, "../up" is not.
valid_stream_id(id) == id \notin {"", "../up", "Base"}

streams_of(build) == Kept(build.listed, {id \in Range(build.listed) : valid_stream_id(id)})

\* A field of the input is read without the blanks around it.
string(field) == IF field = " custody" THEN "custody" ELSE field
slot_fits(slot) == slot \notin {"", "too long"}

\* MAX_READ_BYTES bounds what this tool reads, and this tool alone.
read(build, document, held) ==
    IF document \in build.large THEN Refused("too large") ELSE [ok |-> TRUE, held |-> held]

\* The build must have emitted the list it is asked for.
decide_now_of(build, stream) ==
    IF stream \in DOMAIN build.emits THEN read(build, <<"decide-now", stream>>, build.emits[stream])
    ELSE Refused("no decide-now list")

\* The first of the rows with that slot, and of the rulings that decide it.
row_of(list, slot) == First(Kept(list.questions, {row \in Range(list.questions) : row.slot = slot}))
ruling_of(list, slot) == First(Kept(list.rulings, {r \in Range(list.rulings) : r.decides = slot}))

\* A record: the row with that slot; its ruling and its declaration, when there
\* are any, beside it.
record(build, stream, slot) ==
    LET list == decide_now_of(build, stream) IN
    IF ~list.ok THEN list
    ELSE IF row_of(list.held, slot) = <<>> THEN Refused("no such row")
    ELSE Answered(1 + Len(ruling_of(list.held, slot))
                    + (IF stream \in DOMAIN build.projects
                          /\ <<"projection", stream>> \notin build.large THEN 1 ELSE 0))

decide_now(build, stream) ==
    LET list == decide_now_of(build, stream) IN
    IF list.ok THEN Answered(Len(list.held.questions)) ELSE list

\* The census: every stream the build lists.
streams(build) ==
    LET census == read(build, <<"census">>, build.listed) IN
    IF census.ok THEN Answered(Len(census.held)) ELSE census

\* Every ruling of any stream that mentions the slot; a stream whose list cannot
\* be read is said to emit none, as one that has no list.
rulings(build, slot) ==
    LET census == read(build, <<"census">>, streams_of(build))
        mentions(r) == slot \in {r.decides, r.selects, r.reopens} \cup r.occurred
        of(stream) == IF decide_now_of(build, stream).ok
                      THEN Kept(build.emits[stream].rulings,
                                {r \in Range(build.emits[stream].rulings) : mentions(r)})
                      ELSE <<>>
    IN IF ~census.ok THEN census
       ELSE Answered(Len(FlattenSeq([i \in DOMAIN census.held |-> of(census.held[i])])))

diff(build, left, right) ==
    LET emitted == read(build, <<"diff", left, right>>, <<left, right>>) IN
    IF <<left, right>> \notin build.diffs THEN Refused("no such diff")
    ELSE IF emitted.ok THEN Answered(1) ELSE emitted

\* The fields a kind needs, each where it may stand in a path checked first.
gyld_query(input, build) ==
    LET stream(id) == valid_stream_id(id)
        slot == string(input.slot)
    IN CASE input.kind = "streams" -> streams(build)
         [] input.kind = "decide_now" ->
                IF stream(input.stream) THEN decide_now(build, input.stream) ELSE Refused("stream id")
         [] input.kind = "record" ->
                IF ~stream(input.stream) THEN Refused("stream id")
                ELSE IF ~slot_fits(slot) THEN Refused("slot") ELSE record(build, input.stream, slot)
         [] input.kind = "rulings" -> IF slot_fits(slot) THEN rulings(build, slot) ELSE Refused("slot")
         [] input.kind = "diff" ->
                IF stream(input.left) /\ stream(input.right) THEN diff(build, input.left, input.right)
                ELSE Refused("stream id")
         [] OTHER -> Refused("no such kind")

-----------------------------------------------------------------------------
(* search_sources                                                            *)

DEFAULT_HITS == 10
MAX_HITS == 25
MAX_WORDS == 12
EXCERPT == 160

limit_of(limit) ==
    IF limit = <<>> THEN DEFAULT_HITS
    ELSE IF limit[1] > MAX_HITS THEN MAX_HITS ELSE IF limit[1] < 1 THEN 1 ELSE limit[1]

\* The part of a line an excerpt shows: half of it before the match, but never
\* past either end of the line.
excerpt(length, found_at) ==
    LET start == Least(Less(found_at, EXCERPT \div 2), Less(length, EXCERPT)) IN
    start .. Least(start + EXCERPT, length) - 1

\* What a line offered under a heading comes to, when every word stands on it.
matches(words, line) == words \subseteq DOMAIN line.words
hit(place, above, number, words, line) ==
    LET first == CHOOSE n \in {line.words[w] : w \in words} :
                     \A w \in words : n <= line.words[w]
    IN [place |-> place, under |-> above, line |-> number, shows |-> excerpt(line.length, first)]

\* The hits in a text, each under the heading of the last heading line so far.
offered(place, lines, words) ==
    LET headings(i) == {j \in 1 .. i : lines[j].heading # ""}
        heading(i) == IF headings(i) = {} THEN "no heading yet"
                      ELSE lines[Max(headings(i))].heading
        matched == Kept([i \in DOMAIN lines |-> i], {i \in DOMAIN lines : matches(words, lines[i].text)})
    IN [n \in DOMAIN matched |->
           hit(place, heading(matched[n]), matched[n], words, lines[matched[n]].text)]

\* Where the documents are: as given, or beside the checkout or the repository.
sources_root(root) ==
    IF root.given = "" THEN Refused("no sources root")
    ELSE IF root.given = "absolute" THEN [ok |-> TRUE, at |-> root.given]
    ELSE IF root.relative_to \in {"checkout", "repository"} THEN [ok |-> TRUE, at |-> root.relative_to]
    ELSE Refused("an unknown sources root")

\* Every document the index lists, but one outside the root or unreadable.
documents(build, library, words) ==
    LET root == sources_root(build.root)
        held(d) == IF ~d.climbs /\ <<root.at, d.path>> \in DOMAIN library
                   THEN offered(<<"document", d.id>>, library[<<root.at, d.path>>], words) ELSE <<>>
    IN IF build.index # "held" \/ ~root.ok THEN <<>>
       ELSE FlattenSeq([i \in DOMAIN build.documents |-> held(build.documents[i])])

\* Each row is searched as a text of one line.
found_in(kind, stream, rows, words) ==
    FlattenSeq([i \in DOMAIN rows |->
        offered(<<kind, stream, rows[i].slot>>, <<[heading |-> kind, text |-> rows[i].says]>>, words)])

\* What the census's streams emitted, however large: the rows, then the rulings,
\* then what is declared.
records(build, words) ==
    LET emitted(stream) ==
            IF stream \in DOMAIN build.emits
            THEN found_in("label", stream, build.emits[stream].questions, words)
                 \o found_in("ruling text", stream, build.emits[stream].rulings, words)
            ELSE <<>>
        declared(stream) ==
            IF stream \in DOMAIN build.projects
            THEN found_in("declared", stream, build.projects[stream], words) ELSE <<>>
        census == streams_of(build)
    IN FlattenSeq([i \in DOMAIN census |-> emitted(census[i]) \o declared(census[i])])

\* Every line that matched is counted, and the first of them are the hits.
search_sources(input, build, library) ==
    LET matched == documents(build, library, input.words) \o records(build, input.words)
        hits == SubSeq(matched, 1, Least(Len(matched), limit_of(input.limit)))
        cut == Len(matched) > Len(hits)
    IN IF input.words = {} \/ Cardinality(input.words) > MAX_WORDS THEN Refused("query")
       ELSE [ok |-> TRUE,
             text |-> [size |-> HEAD + ROW * Len(hits), withheld |-> cut, said |-> cut],
             hits |-> {hits[i] : i \in DOMAIN hits}]

-----------------------------------------------------------------------------
(* Which tools there are.                                                    *)

LocalTools == {"read_source", "gyld_query", "search_sources"}
NetworkTools == {"fetch_url", "github", "web_search"}
Offered == LocalTools \cup NetworkTools

\* A network tool is on when the desk said where it may go.
on_by_default(policy, token) ==
    LocalTools
    \cup (IF policy.fetch.hosts # {} THEN {"fetch_url"} ELSE {})
    \cup (IF token # "none" THEN {"github"} ELSE {})
    \cup (IF configured(policy.search) THEN {"web_search"} ELSE {})

\* ToolPolicy::allowing and ToolRegistry::build: what the desk lists, or else
\* what is on by default; a name nobody offers is noted.
registry(policy, token) ==
    LET allow == unwrap_or(policy.allow, on_by_default(policy, token)) IN
    [held |-> allow \cap Offered, notes |-> {<<"no such tool", name>> : name \in allow \ Offered}]
=============================================================================
