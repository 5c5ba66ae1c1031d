------------------------------- MODULE Fetch --------------------------------
(***************************************************************************)
(* fetch_url: where it may go, the redirects it follows itself, and the    *)
(* page it reads.                                                          *)
(*                                                                         *)
(* Sources: fetch.rs, tools.rs (ToolOutput, capped).                       *)
(*                                                                         *)
(* A text is its size, whether something was withheld from it, and whether *)
(* it says so itself.  A response is its status, its location, its content *)
(* type and the size of its body; `stump` is what a cut at the cap leaves  *)
(* of a character, `markup` what the reduction of HTML drops.              *)
(***************************************************************************)
EXTENDS Agent

MAX_HOPS == 3
ANY_HOST == [kind |-> "name", at |-> <<"*">>]

Text(size) == [size |-> size, withheld |-> FALSE, said |-> FALSE]
Least(a, b) == IF a < b THEN a ELSE b
Less(a, b) == IF a > b THEN a - b ELSE 0

-----------------------------------------------------------------------------
(* The two rules on where a request may go.                                  *)

Loopback(v4) == v4[1] = 127
Private4(v4) ==
    \/ v4[1] = 10
    \/ v4[1] = 172 /\ v4[2] \in 16 .. 31
    \/ v4[1] = 192 /\ v4[2] = 168
    \/ v4[1] = 169 /\ v4[2] = 254
    \/ v4 = <<0, 0, 0, 0>>

Mapped(v6) == SubSeq(v6, 1, 6) = <<0, 0, 0, 0, 0, 65535>>
to_ipv4(v6) == <<v6[7] \div 256, v6[7] % 256, v6[8] \div 256, v6[8] % 256>>
unique_local(v6) == v6[1] \div 512 = 126     \* segment & 0xfe00 = 0xfc00
link_local(v6) == v6[1] \div 64 = 1018       \* segment & 0xffc0 = 0xfe80

\* An address no page should be able to send this supplier at.
private(host) ==
    LET v4 == IF host.kind = "v6" /\ Mapped(host.at) THEN to_ipv4(host.at) ELSE host.at IN
    CASE host.kind = "name" -> host.at # <<>> /\ host.at[Len(host.at)] = "localhost"
      [] host.kind = "v6" /\ ~Mapped(host.at) ->
             \/ host.at \in {<<0, 0, 0, 0, 0, 0, 0, 0>>, <<0, 0, 0, 0, 0, 0, 0, 1>>}
             \/ unique_local(host.at)
             \/ link_local(host.at)
      [] OTHER -> Loopback(v4) \/ Private4(v4)

\* http and https, and no credential in the URL.
parses(url) == url.scheme \in {"http", "https"} /\ ~url.user

\* On the list, or under its wildcard; a private address only by its name.
allowed(url, hosts) ==
    /\ url.host.at # <<>>
    /\ url.host \in hosts \/ ANY_HOST \in hosts
    /\ private(url.host) => url.host \in hosts

Goes(url, hosts) == parses(url) /\ allowed(url, hosts)

-----------------------------------------------------------------------------
(* A page.                                                                   *)

readable(type) == type \in {"none", "text", "html", "json", "xhtml"}

\* Seeded bug: no more than the cap is read, so that no cut is seen.
take_Capped(body, cap) ==
    LET read == Least(body.size, cap) IN
    IF read > cap THEN [size |-> Less(cap, body.stump), truncated |-> TRUE]
    ELSE [size |-> read, truncated |-> FALSE]

\* One byte past the cap is read, to tell a body cut from one that just fits.
take(body, cap) ==
    LET read == Least(body.size, cap + 1) IN
    IF read > cap THEN [size |-> Less(cap, body.stump), truncated |-> TRUE]
    ELSE [size |-> read, truncated |-> FALSE]

\* HTML loses its markup.
to_text(size, body) == IF body.type \in {"html", "xhtml"} THEN Less(size, body.markup) ELSE size

HEADER == 200       \* what the header of a page comes to

read_page(body, cap) ==
    IF ~readable(body.type) THEN Refused("content type")
    ELSE LET taken == take(body, cap) IN
         [ok |-> TRUE,
          text |-> [size |-> HEADER + to_text(taken.size, body),
                    withheld |-> body.size > cap, said |-> taken.truncated]]

Moved(status) == status \in {301, 302, 303, 307, 308}

\* Seeded bug: a redirect is followed wherever it leads.
follow_Unchecked(response, hops, policy) ==
    LET ends(done) == [go |-> FALSE, done |-> done] IN
    IF ~Moved(response.status) THEN ends(read_page(response, policy.bytes))
    ELSE IF response.location = <<>> THEN ends(Refused("no location"))
    ELSE IF hops = MAX_HOPS THEN ends(Refused("too many redirects"))
    ELSE [go |-> TRUE, url |-> response.location[1]]

\* Seeded bug: one redirect too many.
follow_OneMore(response, hops, policy) ==
    LET ends(done) == [go |-> FALSE, done |-> done] IN
    IF ~Moved(response.status) THEN ends(read_page(response, policy.bytes))
    ELSE IF response.location = <<>> THEN ends(Refused("no location"))
    ELSE IF ~Goes(response.location[1], policy.hosts) THEN ends(Refused("where it may not go"))
    ELSE IF hops > MAX_HOPS THEN ends(Refused("too many redirects"))
    ELSE [go |-> TRUE, url |-> response.location[1]]

\* What a response leads to: another request, checked as the first one was, or
\* the end of the call.  `hops` requests have been made before this one.
follow(response, hops, policy) ==
    LET ends(done) == [go |-> FALSE, done |-> done] IN
    IF ~Moved(response.status) THEN ends(read_page(response, policy.bytes))
    ELSE IF response.location = <<>> THEN ends(Refused("no location"))
    ELSE IF ~Goes(response.location[1], policy.hosts) THEN ends(Refused("where it may not go"))
    ELSE IF hops = MAX_HOPS THEN ends(Refused("too many redirects"))
    ELSE [go |-> TRUE, url |-> response.location[1]]

\* reqwest's own policy, which the other clients keep: ten redirects, wherever
\* they lead over http or https; without a location that can be read there is
\* nothing to follow.
REDIRECTS == 10
redirected(response, hops) ==
    IF ~Moved(response.status) \/ response.location = <<>> THEN [go |-> FALSE, stops |-> FALSE]
    ELSE IF hops = REDIRECTS \/ response.location[1].scheme \notin {"http", "https"}
         THEN [go |-> FALSE, stops |-> TRUE]
    ELSE [go |-> TRUE, url |-> response.location[1]]

\* The checks before anything is requested.
fetch_begins(input, policy) ==
    IF input.url = <<>> THEN Refused("no url")
    ELSE IF policy.hosts = {} THEN Refused("not configured")
    ELSE IF ~Goes(input.url[1], policy.hosts) THEN Refused("where it may not go")
    ELSE [ok |-> TRUE, url |-> input.url[1], key |-> "none"]
=============================================================================
