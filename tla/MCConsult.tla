------------------------------ MODULE MCConsult ------------------------------
(* The turns, endpoints and streams of the model-checking runs of Consult.   *)
EXTENDS Consult

MCThread == [t \in TurnIds |-> "c"]

MCUrls == {"hosted", "local", "proxy"}

\* An endpoint that takes everything, a local one that has no count and takes
\* neither feature, and one that refuses a feature where it counts already.
MCAccepts ==
    [url \in MCUrls |->
        [strict |-> url = "hosted", cache_control |-> url # "local",
         count |-> CASE url = "hosted" -> "loose" [] url = "local" -> "none" [] OTHER -> "picky",
         names |-> CASE url = "hosted" -> {"cache_control"} [] url = "local" -> {"neither"}
                     [] OTHER -> {"strict"}]]

Full == [strict |-> TRUE, cache_control |-> TRUE]
Config(url) == [base_url |-> url, count_tokens |-> TRUE, shape |-> Full, noted |-> url = "proxy"]

\* The first turn is asked of the local endpoint, the others of any: the
\* configuration may be changed between two questions.
MCConfigs == [t \in TurnIds |-> IF t = 1 THEN {Config("local")} ELSE {Config(url) : url \in MCUrls}]

Starts(size) == [type |-> "message_start", input |-> size]
Opens(i, kind, id, tool) ==
    [type |-> "content_block_start", index |-> i, block |-> Opened(i, kind, id, tool)]
Fills(i, kind, piece) == [type |-> "content_block_delta", index |-> i, kind |-> kind, piece |-> piece]
Stops(i) == [type |-> "content_block_stop", index |-> i]
Ends(why, n) == [type |-> "message_delta", reason |-> why, output |-> n]
Junk == [type |-> "ping"]
Breaks == [type |-> "error"]

\* Prose, begun without a block, and an end.
Answers(size, why) == <<Starts(size), Junk, Fills(0, "text_delta", ""), Stops(0), Ends(why, 1)>>

Id(size, n) == ToString(size * 10 + n)

\* Reasoning, then a read and an offer whose blocks arrive interleaved.
Read(size) ==
    <<Starts(size), Opens(0, "thinking", "none", "none"), Fills(0, "signature_delta", ""), Stops(0),
      Opens(1, "tool_use", Id(size, 1), "read_source"),
      Opens(2, "tool_use", Id(size, 2), DRAFT_TOOL),
      Fills(1, "input_json_delta", "head"), Fills(2, "input_json_delta", "head"),
      Fills(2, "input_json_delta", "tail"), Fills(1, "input_json_delta", "tail"),
      Stops(2), Stops(1), Ends(TOOL_USE, 0)>>

\* A tool nobody enabled.
Reaches(size) ==
    <<Starts(size), Opens(0, "tool_use", Id(size, 1), "web_search"), Stops(0), Ends(TOOL_USE, 1)>>

\* A read beside an offer that was cut short.
BadOffer(size) ==
    <<Starts(size), Opens(0, "tool_use", Id(size, 1), "read_source"), Stops(0),
      Opens(1, "tool_use", Id(size, 2), DRAFT_TOOL), Fills(1, "input_json_delta", "head"),
      Stops(1), Ends(TOOL_USE, 1)>>

\* Prose, and then the stream fails.
Fails(size) == <<Starts(size), Fills(0, "text_delta", ""), Breaks>>

\* A first step answers or reaches for a tool; a later one reaches again, past
\* the steps of a turn, or breaks.
MCTranscripts(size) ==
    IF size = 1 THEN {Answers(size, END_TURN), Read(size), Reaches(size)}
    ELSE {BadOffer(size), Fails(size)}
=============================================================================
