------------------------------- MODULE GitHub -------------------------------
(***************************************************************************)
(* github: reading a public repository, one request a call.                *)
(*                                                                         *)
(* Source: github.rs.  A repository is its parts, a path its segments.  A  *)
(* response is its status, whether its rate limit is spent, and its body:  *)
(* a file (its encoding and size), a directory (its entries) or the items  *)
(* a search found.  A body that did not arrive whole, or that is not JSON, *)
(* is taken for one that says nothing: no encoding, no size, no entries.   *)
(***************************************************************************)
EXTENDS WebSearch

API == Name(<<"api", "github", "com">>)
HEAD == 150         \* what the head of an answer comes to
LINE == 60          \* what a line of a listing comes to

\* `owner/name`, and neither of them a path.
repository(input) ==
    /\ Len(input.repo) = 2
    /\ \A i \in 1 .. 2 : input.repo[i] \notin {"", ".", "..", "not a name"}

\* A path stays in the repository, and within 1024 bytes.
a_path(input) ==
    IF ".." \in Range(input.path) THEN Refused("climbs out of the repository")
    ELSE IF "too long" \in Range(input.path) THEN Refused("too long a path")
    ELSE [ok |-> TRUE]

at(path) == [ok |-> TRUE, url |-> Url("https", API, path), key |-> "none"]

\* An absent path is the root; empty segments are dropped.
contents_at(input) ==
    at(<<"repos">> \o input.repo \o <<"contents">>
       \o Kept(input.path, {segment \in Range(input.path) : segment # ""}))

github_begins(input) ==
    IF input.kind = "search"
    THEN IF input.query = "blank" THEN Refused("no query")
         ELSE IF input.repo # <<>> /\ ~repository(input) THEN Refused("not a repository")
         ELSE at(<<"search", "code">>)
    ELSE IF input.kind \notin {"readme", "file", "tree"} THEN Refused("no such kind")
    ELSE IF ~repository(input) THEN Refused("not a repository")
    ELSE IF input.kind = "readme" THEN at(<<"repos">> \o input.repo \o <<"readme">>)
    ELSE IF ~a_path(input).ok THEN a_path(input)
    ELSE IF input.kind = "file" /\ Range(input.path) \subseteq {""} THEN Refused("no path")
    ELSE contents_at(input)

\* Answered::read: a redirect that was not followed is refused by its status.
answered_read(response) ==
    IF response.status \in 200 .. 299 THEN [ok |-> TRUE]
    ELSE IF response.spent /\ response.status \in {403, 429} THEN Refused("rate limit is spent")
    ELSE Refused("status")

\* A file, in the room that the head and what is said of a cut leave of the
\* budget.
with_contents(body, bytes) ==
    LET room == Less(bytes, HEAD + 128)
        cut == body.size > room
    IN IF body.encoding = "none"
       THEN [ok |-> TRUE, text |-> [size |-> HEAD + LINE, withheld |-> TRUE, said |-> TRUE]]
       ELSE IF body.encoding = "not base64" THEN Refused("base64 that does not decode")
       ELSE IF body.encoding \notin {"base64", ""} THEN Refused("encoding")
       ELSE [ok |-> TRUE, text |-> [size |-> HEAD + (IF cut THEN room + 85 ELSE body.size),
                                    withheld |-> cut, said |-> cut]]

listing(entries) == [ok |-> TRUE, text |-> Text(HEAD + LINE * entries)]

\* A search says the rest was cut at the item that takes it past the budget.
found(items, bytes) ==
    LET last == Less(bytes, HEAD) \div LINE + 1 IN
    [ok |-> TRUE,
     text |-> [size |-> HEAD + LINE * (IF items < last THEN items ELSE last + 1),
               withheld |-> items > last, said |-> items >= last]]

\* A directory asked for as a file is listed, and a file asked for as a
\* directory is named.
github_reads(input, response, bytes) ==
    LET answered == answered_read(response) IN
    IF ~answered.ok THEN answered
    ELSE IF input.kind = "search" THEN found(response.body.entries, bytes)
    ELSE IF input.kind = "readme" THEN with_contents(response.body, bytes)
    ELSE IF response.body.is = "directory" THEN listing(response.body.entries)
    ELSE IF input.kind = "tree" THEN listing(1)
    ELSE with_contents(response.body, bytes)
=============================================================================
