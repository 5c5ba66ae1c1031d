------------------------------- MODULE AskLog -------------------------------
(***************************************************************************)
(* What a reader of the ask surface may rely on: the abstract              *)
(* specification of one conversation's records, run by run, which Consult  *)
(* implements.  A record once shown stays; a run is opened by its          *)
(* question, cites before it answers, makes one call at a time, and says   *)
(* nothing after its end.                                                  *)
(***************************************************************************)
EXTENDS Integers, SequencesExt

CONSTANTS
    Runs,
    Losable     \* the streams whose records may be missing

VARIABLE log    \* per run, the records shown so far

Streams(said) == {said[i].stream : i \in DOMAIN said}

\* The calls shown of a run, and those shown as answered.
Ids(said, stream) == {said[i].id : i \in {j \in DOMAIN said : said[j].stream = stream}}
Called(said) == Ids(said, "tool_call")
Returned(said) == Ids(said, "tool_result")

\* Every call shown has been shown its result, or may have lost it.
Settled(said) == "tool_result" \in Losable \/ Called(said) \subseteq Returned(said)

\* The record may be shown next.
Follows(said, record) ==
    /\ "end" \notin Streams(said)
    /\ CASE record.stream = "question" -> said = <<>>
         [] record.stream = "citation" ->
                Streams(said) \cap {"answer", "draft", "tool_call", "tool_result"} = {}
         [] record.stream = "tool_call" ->
                record.id \notin Called(said) \cup Returned(said) /\ Settled(said)
         [] record.stream = "tool_result" ->
                /\ record.id \notin Returned(said)
                /\ record.id \in Called(said) \/ "tool_call" \in Losable
         [] record.stream = "end" -> record.clean => Settled(said)
         [] OTHER -> TRUE

Init == log = [r \in Runs |-> <<>>]

\* One more record of one run is shown.
Shows(r) ==
    LET record == Last(log'[r])
    IN /\ Len(log'[r]) = Len(log[r]) + 1
       /\ log' = [log EXCEPT ![r] = Append(@, record)]
       /\ Follows(log[r], record)

Next == \E r \in Runs : Shows(r)

Spec == Init /\ [][Next]_log
=============================================================================
