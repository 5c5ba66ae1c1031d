------------------------------- MODULE Turns --------------------------------
(***************************************************************************)
(* The transcript of a conversation: what a follow-up replays of the       *)
(* records earlier turns left on the ask surface.                          *)
(*                                                                         *)
(* Sources: conversation.rs.                                               *)
(*                                                                         *)
(* The surface folds one key per conversation; a turn groups its records   *)
(* by run, so they are kept by run here, with the order in which the runs  *)
(* first appeared.  A record is its stream, and what the fold reads of it. *)
(***************************************************************************)
EXTENDS Lists

\* What a turn did, in order: a run of prose, a call, what it returned.
Parts == {"prose", "called", "returned"}

Turn(run) == [run |-> run, question |-> FALSE, parts |-> <<>>, drafted |-> FALSE,
              closed |-> FALSE]

\* Two chunks in a row are one run of prose.
Prose(parts) ==
    IF parts # <<>> /\ Last(parts) = "prose" THEN parts ELSE Append(parts, "prose")

\* Seeded bug: the close of a turn is not read back.
Folded_Unclosed(turn, record) ==
    CASE record.stream = "question" -> [turn EXCEPT !.question = TRUE]
      [] record.stream = "answer" -> [turn EXCEPT !.parts = Prose(@)]
      [] record.stream = "tool_call" -> [turn EXCEPT !.parts = Append(@, "called")]
      [] record.stream = "tool_result" -> [turn EXCEPT !.parts = Append(@, "returned")]
      [] record.stream = "draft" -> [turn EXCEPT !.drafted = TRUE]
      [] OTHER -> turn

\* One record folded into its turn.  An `end` says something unless it is
\* clean; a citation and a note are not replayed.
Folded(turn, record) ==
    CASE record.stream = "question" -> [turn EXCEPT !.question = TRUE]
      [] record.stream = "answer" -> [turn EXCEPT !.parts = Prose(@)]
      [] record.stream = "tool_call" -> [turn EXCEPT !.parts = Append(@, "called")]
      [] record.stream = "tool_result" -> [turn EXCEPT !.parts = Append(@, "returned")]
      [] record.stream = "draft" -> [turn EXCEPT !.drafted = TRUE]
      [] record.stream = "end" -> [turn EXCEPT !.closed = ~record.clean]
      [] OTHER -> turn

TurnOf(run, records) == FoldLeft(Folded, Turn(run), records)

\* The turns of a conversation, in the order their runs first appeared; one
\* with no question is not a turn.
turns(order, records) ==
    LET all == [i \in DOMAIN order |-> TurnOf(order[i], records[order[i]])]
    IN Kept(all, {turn \in Range(all) : turn.question})
=============================================================================
