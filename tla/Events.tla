------------------------------- MODULE Events -------------------------------
(***************************************************************************)
(* The fold of one streamed reply of the model into events for the reader  *)
(* and an outcome for the loop.                                            *)
(*                                                                         *)
(* Sources: model/sse.rs, model/outcome.rs.                                *)
(*                                                                         *)
(* Text is abstracted away: a block is its kind, its identity, the fields  *)
(* the deltas have filled and the fragments of its input.  A tool's input  *)
(* arrives as a head and a tail; anything else does not decode.            *)
(***************************************************************************)
EXTENDS Lists

DRAFT_TOOL == "propose_draft"
END_TURN == "end_turn"
TOOL_USE == "tool_use"

\* The strings of a stream, spelling out those the fold has of its own.
Texts == STRING \cup {"", "none", "text", "thinking"}

\* What an endpoint may stream.
Blocks == [index : Nat, kind : Texts, id : Texts, tool : Texts, filled : SUBSET Texts,
           json : Seq(Texts)]
Payloads ==
    [type : {"message_start"}, input : Nat]
        \cup [type : {"content_block_start"}, index : Nat, block : Blocks]
        \cup [type : {"content_block_delta"}, index : Nat, kind : Texts, piece : Texts]
        \cup [type : {"content_block_stop"}, index : Nat]
        \cup [type : {"message_delta"}, reason : Texts, output : Nat]
        \cup [type : {"error", "ping"}]

\* A payload that asks for a tool.
Asks(payload) == payload.type = "content_block_start" /\ payload.block.kind = "tool_use"

\* The content block an endpoint opens.
Opened(index, kind, id, tool) ==
    [index |-> index, kind |-> kind, id |-> id, tool |-> tool, filled |-> {},
     json |-> <<>>]

\* What a delta for a block nobody opened opens.
Opening(index, delta) ==
    Opened(index,
           IF delta \in {"thinking_delta", "signature_delta"} THEN "thinking" ELSE "text",
           "none", "none")

Decodes(json) == json = <<"head", "tail">>

\* A tool's input once its block has closed.
Input(block) ==
    IF Decodes(block.json) THEN "value" ELSE IF block.json = <<>> THEN "empty" ELSE "text"

\* The state of a fold before the first payload.
Fold == [open |-> <<>>, content |-> <<>>, stop_reason |-> "", input |-> 0, output |-> 0,
         said |-> <<>>, broke |-> FALSE]

At(f, index) == {i \in DOMAIN f.open : f.open[i].index = index}

\* One delta written into the block it belongs to.
Filled(block, e) ==
    CASE e.kind = "text_delta" -> [block EXCEPT !.filled = @ \cup {"text"}]
      [] e.kind = "input_json_delta" -> [block EXCEPT !.json = Append(@, e.piece)]
      [] e.kind \in {"thinking_delta", "signature_delta"} /\ block.kind = "thinking" ->
             [block EXCEPT !.filled = @ \cup {e.kind}]
      [] OTHER -> block

\* A delta is written into the block of its index, which is opened when no start
\* of it was seen.
DeltaArrives(f, e) ==
    LET opened == IF At(f, e.index) = {} THEN Append(f.open, Opening(e.index, e.kind))
                                         ELSE f.open
        at == CHOOSE i \in DOMAIN opened :
                 /\ opened[i].index = e.index
                 /\ \A j \in 1 .. i - 1 : opened[j].index # e.index
    IN [f EXCEPT !.open = [opened EXCEPT ![at] = Filled(@, e)],
                 !.said = IF e.kind = "text_delta" THEN Append(@, [stream |-> "answer"]) ELSE @]

\* A block closes: it joins the content, in the order of the closings, and a
\* draft is shown as soon as it is whole.
BlockCloses(f, e) ==
    IF At(f, e.index) = {} THEN f
    ELSE LET at == CHOOSE i \in At(f, e.index) : \A j \in At(f, e.index) : i <= j
             block == f.open[at]
             drafts == block.kind = "tool_use" /\ block.tool = DRAFT_TOOL
         IN [f EXCEPT !.open = RemoveAt(@, at),
                      !.content = Append(@, block),
                      !.said = IF drafts
                               THEN Append(@, [stream |-> "draft", whole |-> Input(block) = "value"])
                               ELSE @]

fold_event(f, e) ==
    IF f.broke THEN f
    ELSE CASE e.type = "message_start" -> [f EXCEPT !.input = e.input]
           [] e.type = "content_block_start" -> [f EXCEPT !.open = Append(@, e.block)]
           [] e.type = "content_block_delta" -> DeltaArrives(f, e)
           [] e.type = "content_block_stop" -> BlockCloses(f, e)
           [] e.type = "message_delta" ->
                  [f EXCEPT !.stop_reason = IF e.reason = "none" THEN @ ELSE e.reason,
                            !.output = IF e.output > 0 THEN e.output ELSE @]
           [] e.type = "error" -> [f EXCEPT !.broke = TRUE]
           [] OTHER -> f                  \* not JSON, or of no type it knows

fold_stream(payloads) == FoldLeft(fold_event, Fold, payloads)

-----------------------------------------------------------------------------
(* What the loop reads off an outcome.                                       *)

tokens(f) == f.input + f.output
complete(reason) == reason \in {END_TURN, TOOL_USE}

ToolUses(f) == Kept(f.content, {block \in Range(f.content) : block.kind = "tool_use"})

\* The calls the loop must answer: every one but the offer.
calls(f) == Kept(ToolUses(f), {block \in Range(ToolUses(f)) : block.tool # DRAFT_TOOL})

\* The offers made beside them.
Offers(f) == Kept(ToolUses(f), {block \in Range(ToolUses(f)) : block.tool = DRAFT_TOOL})
=============================================================================
