-------------------------- MODULE ConsultLogProofs ---------------------------
(***************************************************************************)
(* A consultation implements AskLog: every step of any turn, of a crash or *)
(* of the faults shows one more record that may follow those shown of its  *)
(* run, or shows nothing, for any Losable.                                 *)
(*                                                                         *)
(* Queued says that what the work has said may be appended in the order it *)
(* was said, whichever of it is lost; Uttering how the calls still to be   *)
(* made stand to what was said.                                            *)
(*                                                                         *)
(* What is shown of a conversation is then what a follow-up replays of it: *)
(* Listed says that its order has each run once, opened by its question.   *)
(***************************************************************************)
EXTENDS ConsultProofs

\* The ids of a stream's records shown, and of the first n queued.
QueuedIds(ch, n, stream) == {ch[j].id : j \in {j \in 1 .. n : ch[j].stream = stream}}
Said(s, ch, n, stream) == Log!Ids(s, stream) \cup QueuedIds(ch, n, stream)
Uttered(s, ch, stream) == Said(s, ch, Len(ch), stream)

\* Every call said was answered.
Paired(made, answered) == "tool_result" \in Losable \/ made \subseteq answered

\* The record may come behind the first n queued.
MayCome(s, ch, n, x) ==
    /\ x.stream = "citation" => n = 0 /\ Log!Streams(s) \subseteq {"question", "note"}
    /\ x.stream = "tool_call" =>
          /\ x.id \notin Said(s, ch, n, "tool_call") \cup Said(s, ch, n, "tool_result")
          /\ Paired(Said(s, ch, n, "tool_call"), Said(s, ch, n, "tool_result"))
    /\ x.stream = "tool_result" =>
          /\ x.id \notin Said(s, ch, n, "tool_result")
          /\ x.id \in Said(s, ch, n, "tool_call") \/ "tool_call" \in Losable

Queued(s, ch) == \A i \in 1 .. Len(ch) : MayCome(s, ch, i - 1, ch[i])

\* A run's records, from its question to its end.
Placed(t) ==
    /\ pc[t] \in {"new", "accepted", "resumed", "read"} => records[t] = <<>>
    /\ pc[t] \notin {"ended", "dead"} => "end" \notin Log!Streams(records[t])
    /\ pc[t] # "begun" => channel[t] = <<>>
    /\ pc[t] = "asked" \/ work[t] = "grounding" =>
          Log!Streams(records[t]) \subseteq {"question", "note"} /\ channel[t] = <<>>
    /\ Queued(records[t], channel[t])

\* The ids the endpoints may have given in the first n replies of a turn.
Given(n) == UNION {AskedBy(p, Len(p)) : p \in UNION {Transcripts(m) : m \in 1 .. n}}

\* A call about to be made was not heard of, and the one that runs is the only
\* one open.
Uttering(made, answered, phase, calling, n) ==
    /\ phase \in Waits \cup {"calling", "ok"} => Paired(made, answered)
    /\ phase \in Waits \cup Calls => made \cup answered \subseteq Given(n)
    /\ phase \in Calls =>
          /\ IdsIn(calling) \subseteq Given(n)
          /\ \A i, j \in 1 .. Len(calling) : calling[i].id = calling[j].id => i = j
    /\ phase = "calling" => IdsIn(calling) \cap (made \cup answered) = {}
    /\ phase = "running" =>
          /\ Head(calling).id \in made \/ "tool_call" \in Losable
          /\ Head(calling).id \notin answered
          /\ Paired(made, answered \cup {Head(calling).id})
          /\ IdsIn(Tail(calling)) \cap (made \cup answered) = {}
UtteringOf(t) ==
    Uttering(Uttered(records[t], channel[t], "tool_call"),
             Uttered(records[t], channel[t], "tool_result"),
             work[t], pending[t], Len(steps[t]))

Logged(t) == Placed(t) /\ UtteringOf(t)

-----------------------------------------------------------------------------
(* What is said, as it is said and as it is taken.                           *)

\* One more record shown.
LEMMA IdsShown ==
    ASSUME NEW s \in Seq(AskRecords), NEW r \in AskRecords, NEW stream
    PROVE  /\ Log!Ids(Append(s, r), stream) =
                 Log!Ids(s, stream) \cup (IF r.stream = stream THEN {r.id} ELSE {})
           /\ Log!Streams(Append(s, r)) = Log!Streams(s) \cup {r.stream}
<1>1. PICK n \in Nat : n = Len(s) /\ DOMAIN s = 1 .. n
  OBVIOUS
<1> DEFINE u == Append(s, r)
<1>2. DOMAIN u = 1 .. n + 1 /\ u[n + 1] = r /\ \A i \in 1 .. n : u[i] = s[i]
  BY <1>1
<1> HIDE DEF u
<1>3. n + 1 \in 1 .. n + 1 /\ \A i \in 1 .. n + 1 : i \in 1 .. n \/ i = n + 1
  BY <1>1
<1>4. Log!Streams(u) = Log!Streams(s) \cup {r.stream}
  BY <1>1, <1>2, <1>3 DEF Log!Streams
<1>5. Log!Ids(u, stream) = Log!Ids(s, stream) \cup (IF r.stream = stream THEN {r.id} ELSE {})
  BY <1>1, <1>2, <1>3 DEF Log!Ids
<1>6. QED
  BY <1>4, <1>5 DEF u

LEMMA StreamsShown ==
    ASSUME NEW s \in Seq(AskRecords), NEW r \in AskRecords, NEW u, u = Append(s, r) \/ u = s
    PROVE  Log!Streams(u) \subseteq Log!Streams(s) \cup {r.stream}
<1>1. Log!Streams(Append(s, r)) = Log!Streams(s) \cup {r.stream}
  BY IdsShown
<1>2. QED
  BY <1>1

LEMMA NothingShown ==
    /\ \A stream : Log!Ids(<<>>, stream) = {} /\ QueuedIds(<<>>, 0, stream) = {}
    /\ Log!Streams(<<>>) = {}
BY DEF Log!Ids, Log!Streams, QueuedIds

\* The first queued, and those behind it.
LEMMA IdsTaken ==
    ASSUME NEW ch \in Seq(Replies), ch # <<>>, NEW n \in 0 .. Len(ch) - 1, NEW stream
    PROVE  QueuedIds(ch, n + 1, stream) =
              QueuedIds(Tail(ch), n, stream) \cup
                 (IF Head(ch).stream = stream THEN {Head(ch).id} ELSE {})
<1> DEFINE u == Tail(ch)
<1>1. PICK k \in Nat : k = Len(ch) /\ k > 0
  OBVIOUS
<1>2. Head(ch) = ch[1] /\ \A i \in 1 .. n : u[i] = ch[i + 1]
  BY <1>1
<1> HIDE DEF u
<1>3. /\ \A i \in 1 .. n : i + 1 \in 1 .. n + 1
      /\ \A i \in 1 .. n + 1 : i = 1 \/ (i - 1 \in 1 .. n /\ (i - 1) + 1 = i)
      /\ 1 \in 1 .. n + 1
  BY <1>1
<1> DEFINE taken == IF Head(ch).stream = stream THEN {Head(ch).id} ELSE {}
           all == QueuedIds(ch, n + 1, stream)
           rest == QueuedIds(u, n, stream)
<1>4. ASSUME NEW i \in 1 .. n + 1, ch[i].stream = stream PROVE ch[i].id \in rest \cup taken
  <2>1. CASE i = 1
    BY <1>2, <1>4, <2>1
  <2>2. CASE i # 1
    <3>1. i - 1 \in 1 .. n /\ u[i - 1] = ch[i]
      BY <1>2, <1>3, <2>2
    <3>2. QED
      BY <1>4, <3>1 DEF QueuedIds
  <2>3. QED
    BY <2>1, <2>2
<1>5. ASSUME NEW i \in 1 .. n, u[i].stream = stream PROVE u[i].id \in all
  BY <1>2, <1>3, <1>5 DEF QueuedIds
<1>6. taken \subseteq all
  BY <1>2, <1>3 DEF QueuedIds
<1>7. all \subseteq rest \cup taken
  BY <1>4 DEF QueuedIds
<1>8. rest \subseteq all
  BY <1>5 DEF QueuedIds
<1>9. QED
  BY <1>6, <1>7, <1>8 DEF u

\* More queued behind what is.
LEMMA IdsJoined ==
    ASSUME NEW ch \in Seq(Replies), NEW r \in Seq(Replies), NEW stream
    PROVE  /\ \A n \in 0 .. Len(ch) : QueuedIds(ch \o r, n, stream) = QueuedIds(ch, n, stream)
           /\ QueuedIds(ch \o r, Len(ch \o r), stream) =
                 QueuedIds(ch, Len(ch), stream) \cup QueuedIds(r, Len(r), stream)
<1> DEFINE u == ch \o r
<1>1. PICK k \in Nat, m \in Nat : k = Len(ch) /\ m = Len(r)
  OBVIOUS
<1>2. /\ Len(u) = k + m /\ \A i \in 1 .. k : u[i] = ch[i]
      /\ \A i \in 1 .. m : u[k + i] = r[i]
  BY <1>1
<1> HIDE DEF u
<1>3. ASSUME NEW n \in 0 .. k PROVE QueuedIds(u, n, stream) = QueuedIds(ch, n, stream)
  <2>1. \A i \in 1 .. n : i \in 1 .. k /\ u[i] = ch[i]
    BY <1>1, <1>2
  <2>2. QED
    BY <2>1 DEF QueuedIds
<1>4. /\ \A i \in 1 .. k + m : i \in 1 .. k \/ (i - k \in 1 .. m /\ k + (i - k) = i)
      /\ \A i \in 1 .. k : i \in 1 .. k + m
      /\ \A i \in 1 .. m : k + i \in 1 .. k + m
  BY <1>1
<1>5. QueuedIds(u, k + m, stream) \subseteq QueuedIds(ch, k, stream) \cup QueuedIds(r, m, stream)
  <2> SUFFICES ASSUME NEW i \in 1 .. k + m, u[i].stream = stream
               PROVE  u[i].id \in QueuedIds(ch, k, stream) \cup QueuedIds(r, m, stream)
    BY DEF QueuedIds
  <2>1. CASE i \in 1 .. k
    BY <1>2, <2>1 DEF QueuedIds
  <2>2. CASE i \notin 1 .. k
    <3>1. i - k \in 1 .. m /\ u[i] = r[i - k]
      BY <1>2, <1>4, <2>2
    <3>2. QED
      BY <3>1 DEF QueuedIds
  <2>3. QED
    BY <2>1, <2>2
<1>6. QueuedIds(ch, k, stream) \subseteq QueuedIds(u, k + m, stream)
  BY <1>2, <1>4 DEF QueuedIds
<1>7. QueuedIds(r, m, stream) \subseteq QueuedIds(u, k + m, stream)
  <2> SUFFICES ASSUME NEW i \in 1 .. m, r[i].stream = stream
               PROVE  r[i].id \in QueuedIds(u, k + m, stream)
    BY DEF QueuedIds
  <2>1. k + i \in 1 .. k + m /\ u[k + i] = r[i]
    BY <1>2, <1>4
  <2>2. QED
    BY <2>1 DEF QueuedIds
<1>8. QED
  BY <1>1, <1>2, <1>3, <1>5, <1>6, <1>7 DEF u

\* What is queued behind the record the task takes may come next, whether that
\* record is shown or lost.
LEMMA Behind ==
    ASSUME NEW s \in Seq(AskRecords), NEW ch \in Seq(Replies), ch # <<>>, Queued(s, ch),
           NEW u \in Seq(AskRecords),
           \/ u = Append(s, Head(ch))
           \/ u = s /\ (Head(ch).stream \in Losable \/ Head(ch).stream = "draft")
    PROVE  /\ Queued(u, Tail(ch))
           /\ \A stream : Uttered(u, Tail(ch), stream) \subseteq Uttered(s, ch, stream)
           /\ \A stream \in {"tool_call", "tool_result"} :
                 Uttered(u, Tail(ch), stream) = Uttered(s, ch, stream) \/ stream \in Losable
<1> DEFINE x == Head(ch)
           rest == Tail(ch)
<1>1. PICK k \in Nat : k = Len(ch) /\ k > 0
  OBVIOUS
<1>2. rest \in Seq(Replies) /\ Len(rest) = k - 1 /\ x \in AskRecords
        /\ \A i \in 1 .. k - 1 : rest[i] = ch[i + 1]
  BY <1>1 DEF AskRecords
<1>3. ASSUME NEW n \in 0 .. k - 1, NEW stream
      PROVE  /\ Said(u, rest, n, stream) \subseteq Said(s, ch, n + 1, stream)
             /\ stream \in {"tool_call", "tool_result"} =>
                   Said(u, rest, n, stream) = Said(s, ch, n + 1, stream) \/ stream \in Losable
  <2> DEFINE taken == IF x.stream = stream THEN {x.id} ELSE {}
  <2>1. QueuedIds(ch, n + 1, stream) = QueuedIds(rest, n, stream) \cup taken
    BY <1>1, IdsTaken
  <2>2. CASE u = Append(s, x)
    <3>1. Log!Ids(u, stream) = Log!Ids(s, stream) \cup taken
      BY <1>2, <2>2, IdsShown
    <3>2. QED
      BY <2>1, <3>1 DEF Said
  <2>3. CASE u = s /\ (x.stream \in Losable \/ x.stream = "draft")
    <3>1. stream \in {"tool_call", "tool_result"} /\ stream \notin Losable => taken = {}
      BY <2>3
    <3>2. QED
      BY <2>1, <2>3, <3>1 DEF Said
  <2>4. QED
    BY <2>2, <2>3
<1> HIDE DEF x, rest
<1>4. Queued(u, rest)
  <2> SUFFICES ASSUME NEW i \in 1 .. k - 1 PROVE MayCome(u, rest, i - 1, rest[i])
    BY <1>2 DEF Queued
  <2>1. i \in 1 .. k /\ i + 1 \in 1 .. k /\ i - 1 \in 0 .. k - 1 /\ (i - 1) + 1 = i /\ (i + 1) - 1 = i /\ i # 0
    BY <1>1
  <2>2. MayCome(s, ch, i, rest[i])
    BY <1>1, <1>2, <2>1 DEF Queued
  <2> DEFINE r == rest[i]
             made == Said(s, ch, i, "tool_call")
             made2 == Said(u, rest, i - 1, "tool_call")
             answered == Said(s, ch, i, "tool_result")
             answered2 == Said(u, rest, i - 1, "tool_result")
  <2>3. /\ made2 \subseteq made /\ answered2 \subseteq answered
        /\ made2 = made \/ "tool_call" \in Losable
        /\ answered2 = answered \/ "tool_result" \in Losable
    BY <1>3, <2>1
  <2>4. r.stream # "citation"
    BY <2>1, <2>2 DEF MayCome
  <2>5. r.stream = "tool_call" => r.id \notin made \cup answered /\ Paired(made, answered)
    BY <2>2 DEF MayCome
  <2>6. r.stream = "tool_result" => r.id \notin answered /\ (r.id \in made \/ "tool_call" \in Losable)
    BY <2>2 DEF MayCome
  <2> HIDE DEF r, made, made2, answered, answered2
  <2>7. r.stream = "tool_call" => r.id \notin made2 \cup answered2 /\ Paired(made2, answered2)
    BY <2>3, <2>5 DEF Paired
  <2>8. r.stream = "tool_result" => r.id \notin answered2 /\ (r.id \in made2 \/ "tool_call" \in Losable)
    BY <2>3, <2>6
  <2>9. QED
    BY <2>4, <2>7, <2>8 DEF MayCome, r, made2, answered2
<1>5. k - 1 \in 0 .. k - 1 /\ (k - 1) + 1 = k
  BY <1>1
<1>6. ASSUME NEW stream
      PROVE  /\ Uttered(u, rest, stream) \subseteq Uttered(s, ch, stream)
             /\ stream \in {"tool_call", "tool_result"} =>
                   Uttered(u, rest, stream) = Uttered(s, ch, stream) \/ stream \in Losable
  BY <1>1, <1>2, <1>3, <1>5 DEF Uttered
<1>7. QED
  BY <1>4, <1>6 DEF rest

\* How the calls stand to what was said does not change by losing some of it.
LEMMA UtteringLess ==
    ASSUME NEW made, NEW answered, NEW made2, NEW answered2,
           made2 \subseteq made, answered2 \subseteq answered,
           made2 = made \/ "tool_call" \in Losable,
           answered2 = answered \/ "tool_result" \in Losable,
           NEW phase, NEW calling, NEW n, Uttering(made, answered, phase, calling, n)
    PROVE  Uttering(made2, answered2, phase, calling, n)
<1>1. Paired(made, answered) => Paired(made2, answered2)
  BY DEF Paired
<1>2. Paired(made, answered \cup {Head(calling).id}) => Paired(made2, answered2 \cup {Head(calling).id})
  BY DEF Paired
<1>3. made2 \cup answered2 \subseteq made \cup answered
  OBVIOUS
<1>4. QED
  BY <1>1, <1>2, <1>3 DEF Uttering

\* The record the task takes may be shown.
LEMMA Shown ==
    ASSUME NEW s \in Seq(AskRecords), NEW ch \in Seq(Replies), ch # <<>>, Queued(s, ch),
           "end" \notin Log!Streams(s)
    PROVE  Log!Follows(s, Head(ch))
<1>1. PICK k \in Nat : k = Len(ch) /\ k > 0
  OBVIOUS
<1>2. MayCome(s, ch, 0, Head(ch))
  <2>1. 1 \in 1 .. k /\ 1 - 1 = 0 /\ Head(ch) = ch[1]
    BY <1>1
  <2>2. QED
    BY <1>1, <2>1 DEF Queued
<1> DEFINE x == Head(ch)
<1>3. x \in Replies
  OBVIOUS
<1> HIDE DEF x
<1>4. x.stream \in {"citation", "answer", "draft", "note", "tool_call", "tool_result"}
  BY <1>3 DEF Replies
<1>5. \A stream : Said(s, ch, 0, stream) = Log!Ids(s, stream)
  BY DEF Said, QueuedIds
<1>6. x.stream = "citation" => Log!Streams(s) \cap {"answer", "draft", "tool_call", "tool_result"} = {}
  BY <1>2 DEF MayCome, x
<1>7. x.stream = "tool_call" =>
        /\ x.id \notin Log!Called(s) \cup Log!Returned(s)
        /\ Log!Settled(s)
  BY <1>2, <1>5 DEF MayCome, Paired, x, Log!Called, Log!Returned, Log!Settled
<1>8. x.stream = "tool_result" =>
        /\ x.id \notin Log!Returned(s)
        /\ x.id \in Log!Called(s) \/ "tool_call" \in Losable
  BY <1>2, <1>5 DEF MayCome, x, Log!Called, Log!Returned
<1>9. Log!Follows(s, x)
  BY <1>4, <1>6, <1>7, <1>8 DEF Log!Follows
<1>10. QED
  BY <1>9 DEF x

\* What the work says may come behind what it has said, if only the first of it
\* has to be looked at.
LEMMA Speaks ==
    ASSUME NEW s \in Seq(AskRecords), NEW ch \in Seq(Replies), NEW r \in Seq(Replies), Queued(s, ch),
           \A i \in 1 .. Len(r) :
              r[i].stream \in {"citation", "tool_call", "tool_result"} =>
                 i = 1 /\ MayCome(s, ch, Len(ch), r[1])
    PROVE  /\ Queued(s, ch \o r)
           /\ \A stream : Uttered(s, ch \o r, stream) = Uttered(s, ch, stream) \cup QueuedIds(r, Len(r), stream)
<1> DEFINE u == ch \o r
<1>1. PICK k \in Nat, m \in Nat : k = Len(ch) /\ m = Len(r)
  OBVIOUS
<1>2. /\ Len(u) = k + m /\ \A i \in 1 .. k : u[i] = ch[i]
      /\ \A i \in 1 .. m : u[k + i] = r[i]
  BY <1>1
<1>3. ASSUME NEW n \in 0 .. k, NEW stream PROVE Said(s, u, n, stream) = Said(s, ch, n, stream)
  <2>1. n \in 0 .. Len(ch)
    BY <1>1
  <2>2. QueuedIds(u, n, stream) = QueuedIds(ch, n, stream)
    BY <2>1, IdsJoined
  <2>3. QED
    BY <2>2 DEF Said
<1>4. \A stream : Uttered(s, u, stream) = Uttered(s, ch, stream) \cup QueuedIds(r, Len(r), stream)
  BY IdsJoined DEF Uttered, Said
<1> HIDE DEF u
<1>5. ASSUME NEW n \in 0 .. k, NEW x PROVE MayCome(s, u, n, x) <=> MayCome(s, ch, n, x)
  <2>1. Said(s, u, n, "tool_call") = Said(s, ch, n, "tool_call")
          /\ Said(s, u, n, "tool_result") = Said(s, ch, n, "tool_result")
    BY <1>3
  <2>2. QED
    BY <2>1 DEF MayCome
<1>6. Queued(s, u)
  <2> SUFFICES ASSUME NEW i \in 1 .. k + m PROVE MayCome(s, u, i - 1, u[i])
    BY <1>2 DEF Queued
  <2>1. CASE i \in 1 .. k
    <3>1. i - 1 \in 0 .. k /\ MayCome(s, ch, i - 1, ch[i])
      BY <1>1, <2>1 DEF Queued
    <3>2. QED
      BY <1>2, <1>5, <2>1, <3>1
  <2>2. CASE i \notin 1 .. k
    <3>1. i - k \in 1 .. m /\ k + (i - k) = i
      BY <1>1, <2>2
    <3>2. u[i] = r[i - k]
      BY <1>2, <3>1
    <3>3. CASE u[i].stream \in {"citation", "tool_call", "tool_result"}
      <4>1. i - k = 1 /\ MayCome(s, ch, k, u[i])
        BY <1>1, <3>1, <3>2, <3>3
      <4>2. i - 1 = k /\ k \in 0 .. k
        BY <1>1, <4>1
      <4>3. QED
        BY <1>5, <4>1, <4>2
    <3>4. CASE u[i].stream \notin {"citation", "tool_call", "tool_result"}
      BY <3>4 DEF MayCome
    <3>5. QED
      BY <3>3, <3>4
  <2>3. QED
    BY <2>1, <2>2
<1>7. QED
  BY <1>4, <1>6 DEF u

-----------------------------------------------------------------------------
(* One step of a turn, and what it shows.                                    *)

\* A step shows one more record of the run, which may follow, or none.
Showing(t) == UNCHANGED records \/ Log!Shows(t)

LEMMA ShowsOne ==
    ASSUME TypeOK, NEW t \in TurnIds, NEW record, Log!Follows(records[t], record),
           records' = [records EXCEPT ![t] = Append(@, record)]
    PROVE  Showing(t)
<1>1. records[t] \in Seq(AskRecords) /\ records'[t] = Append(records[t], record)
  BY DEF TypeOK
<1>2. Len(records'[t]) = Len(records[t]) + 1 /\ Log!Last(records'[t]) = record
  BY <1>1 DEF Log!Last
<1>3. Log!Shows(t)
  BY <1>2 DEF Log!Shows
<1>4. QED
  BY <1>3 DEF Showing

\* An append shows the record, or loses it.
LEMMA ShowsOrLoses ==
    ASSUME TypeOK, NEW t \in TurnIds, NEW record \in AskRecords, AppendAsk(t, record),
           Log!Follows(records[t], record)
    PROVE  /\ Showing(t)
           /\ \/ records'[t] = Append(records[t], record)
              \/ records'[t] = records[t] /\ record.stream \in Losable
<1>1. CASE records' = [records EXCEPT ![t] = Append(@, record)]
  BY <1>1, ShowsOne DEF TypeOK
<1>2. CASE record.stream \in Losable /\ UNCHANGED records
  BY <1>2 DEF Showing
<1>3. QED
  BY <1>1, <1>2 DEF AppendAsk

LEMMA LoggedAlone ==
    ASSUME NEW t \in TurnIds, Logged(t),
           UNCHANGED <<pc[t], work[t], records[t], channel[t], pending[t], steps[t]>>
    PROVE  Logged(t)'
BY DEF Logged, Placed, UtteringOf

\* Nothing is said of a run that was not begun.
LEMMA Unsaid ==
    ASSUME NEW s \in Seq(AskRecords), Log!Streams(s) \subseteq {"question", "note"}
    PROVE  Uttered(s, <<>>, "tool_call") = {} /\ Uttered(s, <<>>, "tool_result") = {}
<1>1. Log!Ids(s, "tool_call") = {} /\ Log!Ids(s, "tool_result") = {}
  BY DEF Log!Ids, Log!Streams
<1>2. Len(<<>>) = 0
  OBVIOUS
<1>3. QED
  BY <1>1, <1>2, NothingShown DEF Uttered, Said

LEMMA QueuedNone == \A s : Queued(s, <<>>)
<1>1. Len(<<>>) = 0
  OBVIOUS
<1>2. QED
  BY <1>1 DEF Queued

LEMMA UtteringIdle ==
    \A made, answered, calling, n : \A phase \in {"idle", "grounding", "refused", "panicked"} :
        Uttering(made, answered, phase, calling, n)
BY DEF Uttering, Waits, Calls

LEMMA LoggedTaskStep ==
    ASSUME TypeOK, Joined, NEW t \in TurnIds, TaskOf(t), Logged(t)
    PROVE  Logged(t)' /\ Showing(t)
<1>1. /\ records[t] \in Seq(AskRecords) /\ channel[t] \in Seq(Replies)
      /\ pc \in [TurnIds -> Phases]
  BY DEF TypeOK
<1>2. /\ work[t] = "idle" <=> pc[t] \notin {"begun", "closing"}
      /\ pc[t] = "closing" => work[t] \in Done
  BY DEF Joined
<1>3. Placed(t) /\ UtteringOf(t)
  BY DEF Logged
<1>4. CASE Accept(t) \/ Resume(t) \/ ReadPrior(t)
  <2>1. /\ UNCHANGED <<work, channel, records, pending, steps>>
        /\ \E from \in {"new", "accepted", "resumed"}, to \in {"accepted", "resumed", "read"} :
              Goes(t, from, to)
    BY <1>4 DEF Accept, Resume, ReadPrior, workVars, logVars
  <2>2. Placed(t)'
    BY <1>1, <1>2, <1>3, <2>1 DEF Placed, Goes
  <2>3. UtteringOf(t)'
    BY <1>3, <2>1 DEF UtteringOf
  <2>4. QED
    BY <2>1, <2>2, <2>3 DEF Logged, Showing
<1>5. CASE AskQuestion(t)
  <2> DEFINE record == [stream |-> "question"]
  <2>1. /\ UNCHANGED <<work, channel, pending, steps>> /\ AppendAsk(t, record)
        /\ Goes(t, "read", "asked")
    BY <1>5 DEF AskQuestion, workVars
  <2>2. /\ pc[t] = "read" /\ pc'[t] = "asked" /\ records[t] = <<>> /\ channel[t] = <<>>
        /\ work'[t] = "idle"
    BY <1>1, <1>2, <1>3, <2>1 DEF Placed, Goes
  <2>3. Log!Follows(records[t], record) /\ record \in AskRecords
    BY <2>2, NothingShown DEF Log!Follows, AskRecords
  <2>4. /\ Showing(t)
        /\ records'[t] = Append(records[t], record) \/ records'[t] = records[t]
    BY <2>1, <2>3, ShowsOrLoses
  <2>5. Log!Streams(records'[t]) \subseteq {"question"}
    <3>1. Log!Streams(records'[t]) \subseteq Log!Streams(records[t]) \cup {record.stream}
      BY <1>1, <2>3, <2>4, StreamsShown
    <3>2. QED
      BY <2>2, <3>1, NothingShown
  <2>6. Queued(records'[t], channel'[t])
    BY <2>1, <2>2, QueuedNone
  <2>7. Placed(t)'
    BY <2>1, <2>2, <2>5, <2>6 DEF Placed
  <2>8. UtteringOf(t)'
    BY <2>2, UtteringIdle DEF UtteringOf
  <2>9. QED
    BY <2>4, <2>7, <2>8 DEF Logged
<1>6. CASE Begin(t)
  <2>1. /\ Goes(t, "asked", "begun") /\ work' = [work EXCEPT ![t] = "grounding"]
        /\ UNCHANGED <<channel, pending, steps>>
        /\ AppendAsk(t, Note("config")) \/ UNCHANGED records
    BY <1>6 DEF Begin
  <2>2. /\ pc[t] = "asked" /\ pc'[t] = "begun" /\ channel[t] = <<>> /\ work'[t] = "grounding"
        /\ "end" \notin Log!Streams(records[t])
        /\ Log!Streams(records[t]) \subseteq {"question", "note"}
    BY <1>1, <1>3, <2>1 DEF Placed, Goes, TypeOK
  <2>3. Note("config") \in AskRecords /\ Note("config").stream = "note"
    BY DEF Note, AskRecords, Replies
  <2>4. Log!Follows(records[t], Note("config"))
    BY <2>2, <2>3 DEF Log!Follows
  <2>5. /\ Showing(t)
        /\ records'[t] = Append(records[t], Note("config")) \/ records'[t] = records[t]
    BY <2>1, <2>3, <2>4, ShowsOrLoses DEF Showing
  <2>6. Log!Streams(records'[t]) \subseteq {"question", "note"}
    <3>1. Log!Streams(records'[t]) \subseteq Log!Streams(records[t]) \cup {Note("config").stream}
      BY <1>1, <2>3, <2>5, StreamsShown
    <3>2. QED
      BY <2>2, <2>3, <3>1
  <2>7. Queued(records'[t], channel'[t])
    BY <2>1, <2>2, QueuedNone
  <2>8. Placed(t)'
    BY <2>1, <2>2, <2>6, <2>7 DEF Placed
  <2>9. UtteringOf(t)'
    BY <2>2, UtteringIdle DEF UtteringOf
  <2>10. QED
    BY <2>5, <2>8, <2>9 DEF Logged
<1>7. CASE Receive(t)
  <2> DEFINE s == records[t]
             ch == channel[t]
             x == Head(ch)
  <2>1. /\ pc[t] = "begun" /\ ch # <<>> /\ channel' = [channel EXCEPT ![t] = Tail(@)]
        /\ UNCHANGED <<pc, work, pending, steps>>
        /\ \/ x.stream = "draft" /\ UNCHANGED records
           \/ AppendAsk(t, x)
    BY <1>7 DEF Receive, workVars
  <2>2. x \in AskRecords /\ x \in Replies
    BY <1>1, <2>1 DEF AskRecords
  <2>3. "end" \notin Log!Streams(s) /\ Queued(s, ch) /\ work[t] # "grounding"
    BY <1>3, <2>1 DEF Placed
  <2>4. Log!Follows(s, x)
    BY <1>1, <2>1, <2>3, Shown
  <2>5. /\ Showing(t)
        /\ \/ records'[t] = Append(s, x)
           \/ records'[t] = s /\ (x.stream \in Losable \/ x.stream = "draft")
    BY <2>1, <2>2, <2>4, ShowsOrLoses DEF Showing
  <2> DEFINE u == records'[t]
  <2>6. u \in Seq(AskRecords)
    BY <1>1, <2>2, <2>5, Puts
  <2>7. "end" \notin Log!Streams(u)
    <3>1. x.stream # "end"
      BY <2>2 DEF Replies
    <3>2. Log!Streams(u) \subseteq Log!Streams(s) \cup {x.stream}
      <4>1. s \in Seq(AskRecords) /\ (u = Append(s, x) \/ u = s)
        BY <1>1, <2>5
      <4> HIDE DEF s, x, u
      <4>2. QED
        BY <2>2, <4>1, StreamsShown
    <3>3. QED
      BY <2>3, <3>1, <3>2
  <2>8. channel'[t] = Tail(ch)
    BY <2>1 DEF TypeOK
  <2> HIDE DEF x, s, ch, u
  <2>9. /\ Queued(u, Tail(ch))
        /\ \A stream : Uttered(u, Tail(ch), stream) \subseteq Uttered(s, ch, stream)
        /\ \A stream \in {"tool_call", "tool_result"} :
              Uttered(u, Tail(ch), stream) = Uttered(s, ch, stream) \/ stream \in Losable
    <3>1. s \in Seq(AskRecords) /\ ch \in Seq(Replies)
      BY <1>1 DEF s, ch
    <3>2. \/ u = Append(s, Head(ch))
          \/ u = s /\ (Head(ch).stream \in Losable \/ Head(ch).stream = "draft")
      BY <2>5 DEF u, x
    <3>3. QED
      BY <2>1, <2>3, <2>6, <3>1, <3>2, Behind
  <2>10. Placed(t)'
    BY <2>1, <2>3, <2>7, <2>8, <2>9 DEF Placed, u
  <2>11. UtteringOf(t)'
    <3>1. Uttering(Uttered(s, ch, "tool_call"), Uttered(s, ch, "tool_result"),
                   work[t], pending[t], Len(steps[t]))
      BY <1>3 DEF UtteringOf, s, ch
    <3>2. Uttering(Uttered(u, Tail(ch), "tool_call"), Uttered(u, Tail(ch), "tool_result"),
                   work[t], pending[t], Len(steps[t]))
      BY <2>9, <3>1, UtteringLess
    <3>3. QED
      BY <2>1, <2>8, <3>2 DEF UtteringOf, u
  <2>12. QED
    BY <2>5, <2>10, <2>11 DEF Logged
<1>8. CASE Close(t)
  <2>1. /\ channel[t] = <<>> /\ Goes(t, "begun", "closing") /\ work[t] \in Done
        /\ UNCHANGED <<work, channel, records, pending, steps>>
    BY <1>8 DEF Close, workVars, logVars
  <2>2. Placed(t)'
    BY <1>1, <1>3, <2>1 DEF Placed, Goes, Done
  <2>3. UtteringOf(t)'
    BY <1>3, <2>1 DEF UtteringOf
  <2>4. QED
    BY <2>1, <2>2, <2>3 DEF Logged, Showing
<1>9. CASE AppendEnd(t)
  <2> DEFINE record == [stream |-> "end", clean |-> Clean(t)]
  <2>1. /\ Goes(t, "closing", "ended") /\ AppendAsk(t, record) /\ UNCHANGED channel
        /\ work' = [u \in TurnIds |-> IF u \in {t} THEN "idle" ELSE work[u]]
    BY <1>9 DEF AppendEnd, Forget
  <2>2. pc[t] = "closing" /\ pc'[t] = "ended" /\ channel[t] = <<>> /\ work'[t] = "idle"
        /\ "end" \notin Log!Streams(records[t])
    BY <1>1, <1>3, <2>1 DEF Placed, Goes
  <2>3. record.clean => Log!Settled(records[t])
    <3> SUFFICES ASSUME Clean(t) PROVE Log!Settled(records[t])
      OBVIOUS
    <3>1. Paired(Uttered(records[t], <<>>, "tool_call"), Uttered(records[t], <<>>, "tool_result"))
      BY <1>3, <2>2 DEF Clean, UtteringOf, Uttering
    <3>2. \A stream : Uttered(records[t], <<>>, stream) = Log!Ids(records[t], stream)
      <4>1. Len(<<>>) = 0
        OBVIOUS
      <4>2. QED
        BY <4>1, NothingShown DEF Uttered, Said
    <3>3. QED
      BY <3>1, <3>2 DEF Paired, Log!Settled, Log!Called, Log!Returned
  <2>4. record \in AskRecords /\ record.stream = "end"
    BY DEF AskRecords, Clean
  <2>5. Log!Follows(records[t], record)
    BY <2>2, <2>3, <2>4 DEF Log!Follows
  <2>6. Showing(t)
    BY <2>1, <2>4, <2>5, ShowsOrLoses
  <2>7. Placed(t)'
    BY <2>1, <2>2, QueuedNone DEF Placed
  <2>8. UtteringOf(t)'
    BY <2>2, UtteringIdle DEF UtteringOf
  <2>9. QED
    BY <2>6, <2>7, <2>8 DEF Logged
<1>10. QED
  BY <1>4, <1>5, <1>6, <1>7, <1>8, <1>9 DEF TaskOf

\* What the work says joins what is queued.
LEMMA SaysMore ==
    ASSUME TypeOK, NEW t \in TurnIds, Logged(t), pc[t] = "begun", UNCHANGED <<pc, records>>,
           NEW r \in Seq(Replies), Says(t, r), work'[t] # "grounding",
           \A i \in 1 .. Len(r) :
              r[i].stream \in {"citation", "tool_call", "tool_result"} =>
                 i = 1 /\ MayCome(records[t], channel[t], Len(channel[t]), r[1])
    PROVE  /\ Placed(t)'
           /\ \A stream : Uttered(records'[t], channel'[t], stream) =
                             Uttered(records[t], channel[t], stream) \cup QueuedIds(r, Len(r), stream)
<1>1. records[t] \in Seq(AskRecords) /\ channel[t] \in Seq(Replies) /\ channel'[t] = channel[t] \o r
  BY DEF TypeOK, Says
<1>2. Queued(records[t], channel[t])
  BY DEF Logged, Placed
<1>3. /\ Queued(records[t], channel[t] \o r)
      /\ \A stream : Uttered(records[t], channel[t] \o r, stream) =
                        Uttered(records[t], channel[t], stream) \cup QueuedIds(r, Len(r), stream)
  BY <1>1, <1>2, Speaks
<1>4. Placed(t)'
  BY <1>1, <1>3 DEF Logged, Placed
<1>5. QED
  BY <1>1, <1>3, <1>4

LEMMA OneQueued ==
    ASSUME NEW x, NEW stream
    PROVE  QueuedIds(<<x>>, Len(<<x>>), stream) = IF x.stream = stream THEN {x.id} ELSE {}
<1>1. Len(<<x>>) = 1 /\ <<x>>[1] = x
  OBVIOUS
<1>2. QED
  BY <1>1 DEF QueuedIds

\* Notes, prose and drafts are of no call.
Quiet(r) == \A i \in 1 .. Len(r) : r[i].stream \in {"answer", "draft", "note"}

LEMMA QuietIds ==
    ASSUME NEW r, Quiet(r), NEW stream \in {"tool_call", "tool_result"}
    PROVE  QueuedIds(r, Len(r), stream) = {}
BY DEF Quiet, QueuedIds

\* A turn that goes on waiting, and says nothing of a call.
LEMMA GoesOnWaiting ==
    ASSUME TypeOK, NEW t \in TurnIds, Logged(t), pc[t] = "begun", work[t] \in Waits,
           UNCHANGED <<pc, records, steps>>, work'[t] \in Waits \cup {"ok", "refused"},
           UNCHANGED channel \/ \E r \in Seq(Replies) : Quiet(r) /\ Says(t, r)
    PROVE  Logged(t)' /\ Showing(t)
<1>1. /\ Placed(t)'
      /\ \A stream \in {"tool_call", "tool_result"} :
            Uttered(records'[t], channel'[t], stream) = Uttered(records[t], channel[t], stream)
  <2>1. work'[t] # "grounding"
    BY DEF Waits
  <2>2. CASE UNCHANGED channel
    BY <2>1, <2>2 DEF Logged, Placed
  <2>3. ASSUME NEW r \in Seq(Replies), Quiet(r), Says(t, r)
        PROVE  /\ Placed(t)'
               /\ \A stream \in {"tool_call", "tool_result"} :
                     Uttered(records'[t], channel'[t], stream) = Uttered(records[t], channel[t], stream)
    <3>1. \A i \in 1 .. Len(r) : r[i].stream \notin {"citation", "tool_call", "tool_result"}
      BY <2>3 DEF Quiet
    <3>2. /\ Placed(t)'
          /\ \A stream : Uttered(records'[t], channel'[t], stream) =
                            Uttered(records[t], channel[t], stream) \cup QueuedIds(r, Len(r), stream)
      BY <2>1, <2>3, <3>1, SaysMore
    <3>3. QED
      BY <2>3, <3>2, QuietIds
  <2>4. QED
    BY <2>2, <2>3
<1>2. UtteringOf(t)'
  <2>1. UtteringOf(t)
    BY DEF Logged
  <2> DEFINE made == Uttered(records[t], channel[t], "tool_call")
             answered == Uttered(records[t], channel[t], "tool_result")
  <2>2. Uttering(made, answered, work[t], pending[t], Len(steps[t]))
    BY <2>1 DEF UtteringOf
  <2> HIDE DEF made, answered
  <2>3. Uttering(made, answered, work'[t], pending'[t], Len(steps[t]))
    BY <2>2 DEF Uttering, Waits, Calls
  <2>4. QED
    BY <1>1, <2>3 DEF UtteringOf, made, answered
<1>3. QED
  BY <1>1, <1>2 DEF Logged, Showing

LEMMA LoggedAskStep ==
    ASSUME TypeOK, Joined, NEW t \in TurnIds, AskOf(t), Logged(t)
    PROVE  Logged(t)' /\ Showing(t)
<1>1. /\ records[t] \in Seq(AskRecords) /\ channel[t] \in Seq(Replies)
      /\ work \in [TurnIds -> WorkPhases]
  BY DEF TypeOK
<1>2. /\ work[t] = "idle" <=> pc[t] \notin {"begun", "closing"}
      /\ pc[t] = "closing" => work[t] \in Done
  BY DEF Joined
<1>3. Placed(t) /\ UtteringOf(t)
  BY DEF Logged
<1>4. CASE Ground(t)
  <2> DEFINE x == [stream |-> "citation"]
  <2>1. /\ work[t] = "grounding" /\ UNCHANGED <<pc, records, pending, steps>>
        /\ \/ WorkGoes(t, "counting") /\ Says(t, <<x>>)
           \/ WorkGoes(t, "refused") /\ UNCHANGED channel
    BY <1>4 DEF Ground, taskVars, logVars
  <2>2. pc[t] = "begun" /\ channel[t] = <<>> /\ Log!Streams(records[t]) \subseteq {"question", "note"}
    BY <1>2, <1>3, <2>1 DEF Placed, Done
  <2>3. CASE WorkGoes(t, "counting") /\ Says(t, <<x>>)
    <3>1. work'[t] = "counting"
      BY <1>1, <2>3 DEF WorkGoes
    <3>2. <<x>> \in Seq(Replies) /\ Len(<<x>>) = 1 /\ <<x>>[1] = x
      BY DEF Replies
    <3>3. MayCome(records[t], channel[t], Len(channel[t]), x)
      <4>1. Len(channel[t]) = 0
        BY <2>2
      <4>2. QED
        BY <2>2, <4>1 DEF MayCome
    <3>4. \A i \in 1 .. Len(<<x>>) : i = 1 /\ MayCome(records[t], channel[t], Len(channel[t]), <<x>>[1])
      BY <3>2, <3>3
    <3>5. /\ Placed(t)'
          /\ \A stream : Uttered(records'[t], channel'[t], stream) =
                            Uttered(records[t], channel[t], stream) \cup QueuedIds(<<x>>, Len(<<x>>), stream)
      BY <2>1, <2>2, <2>3, <3>1, <3>2, <3>4, SaysMore
    <3>6. Uttered(records'[t], channel'[t], "tool_call") = {} /\ Uttered(records'[t], channel'[t], "tool_result") = {}
      BY <1>1, <2>2, <3>5, OneQueued, Unsaid
    <3>7. UtteringOf(t)'
      BY <3>1, <3>6 DEF UtteringOf, Uttering, Paired, Waits, Calls
    <3>8. QED
      BY <2>1, <3>5, <3>7 DEF Logged, Showing
  <2>4. CASE WorkGoes(t, "refused") /\ UNCHANGED channel
    <3>1. work'[t] = "refused"
      BY <1>1, <2>4 DEF WorkGoes
    <3>2. Placed(t)'
      BY <1>3, <2>1, <2>2, <2>4, <3>1 DEF Placed
    <3>3. UtteringOf(t)'
      BY <3>1, UtteringIdle DEF UtteringOf
    <3>4. QED
      BY <2>1, <3>2, <3>3 DEF Logged, Showing
  <2>5. QED
    BY <2>1, <2>3, <2>4
<1>5. CASE CountTokens(t) \/ Counted(t) \/ Rejected(t) \/ Unanswered(t)
  <2>1. work[t] \in Waits /\ UNCHANGED <<pc, records, steps>>
    BY <1>5 DEF CountTokens, Counted, Rejected, Unanswered, Waits, taskVars, logVars
  <2>2. pc[t] = "begun"
    BY <1>2, <2>1 DEF Waits, Done
  <2>3. \E to \in Waits \cup {"refused"} : WorkGoes(t, to)
    BY <1>5 DEF CountTokens, Counted, Rejected, Unanswered, Weigh, Waits
  <2>4. work'[t] \in Waits \cup {"ok", "refused"}
    BY <1>1, <2>3 DEF WorkGoes
  <2>5. \/ UNCHANGED channel \/ Says(t, <<>>)
        \/ \E of \in {"estimate", "strict", "cache_control"} : Says(t, <<Note(of)>>)
    <3>1. CASE CountTokens(t)
      BY <3>1 DEF CountTokens, Weigh
    <3>2. CASE Counted(t)
      BY <3>2 DEF Counted, Weigh
    <3>3. CASE Rejected(t)
      <4>1. PICK named : LET field == Blamed(shape[t], named)
                         IN UNCHANGED channel \/ (field # "nothing" /\ Says(t, <<Note(field)>>))
        BY <3>3 DEF Rejected
      <4>2. Blamed(shape[t], named) \in {"strict", "cache_control", "nothing"}
        BY DEF Blamed
      <4>3. QED
        BY <4>1, <4>2
    <3>4. CASE Unanswered(t)
      BY <3>4 DEF Unanswered
    <3>5. QED
      BY <1>5, <3>1, <3>2, <3>3, <3>4
  <2>6. ASSUME NEW of \in {"estimate", "strict", "cache_control"}
        PROVE  <<Note(of)>> \in Seq(Replies) /\ Quiet(<<Note(of)>>)
    <3>1. Note(of) \in Replies /\ Note(of).stream = "note"
      BY DEF Note, Replies
    <3>2. QED
      BY <3>1 DEF Quiet
  <2>7. <<>> \in Seq(Replies) /\ Quiet(<<>>)
    BY DEF Quiet
  <2>8. UNCHANGED channel \/ \E r \in Seq(Replies) : Quiet(r) /\ Says(t, r)
    BY <2>5, <2>6, <2>7
  <2>9. QED
    BY <2>1, <2>2, <2>4, <2>8, GoesOnWaiting
<1>6. QED
  BY <1>4, <1>5 DEF AskOf

\* A reply gives ids that none before it in the turn gave.
LEMMA GivenMore ==
    ASSUME NEW n \in 0 .. MaxSteps, NEW p \in Transcripts(n + 1)
    PROVE  /\ Given(n) \subseteq Given(n + 1)
           /\ AskedBy(p, Len(p)) \subseteq Given(n + 1)
           /\ AskedBy(p, Len(p)) \cap Given(n) = {}
           /\ p \in Seq(Payloads)
           /\ \A i, j \in 1 .. Len(p) :
                 Asks(p[i]) /\ Asks(p[j]) /\ p[i].block.id = p[j].block.id => i = j
<1>1. /\ n + 1 \in 1 .. n + 1 /\ n + 1 \in 1 .. MaxSteps + 1 /\ n + 1 \notin 1 .. n
      /\ \A m \in 1 .. n : m \in 1 .. n + 1 /\ m \in 1 .. MaxSteps + 1 /\ m # n + 1
  BY BudgetsAssumption
<1>2. Given(n) \subseteq Given(n + 1)
  BY <1>1 DEF Given
<1>3. AskedBy(p, Len(p)) \subseteq Given(n + 1)
  BY <1>1 DEF Given
<1>4. p \in Seq(Payloads)
  BY <1>1, TranscriptsAssumption
<1>5. ASSUME NEW m \in 1 .. n, NEW q \in Transcripts(m), NEW id \in AskedBy(p, Len(p)), id \in AskedBy(q, Len(q))
      PROVE  FALSE
  <2>1. q \in Seq(Payloads)
    BY <1>1, TranscriptsAssumption
  <2>2. PICK i \in 1 .. Len(p) : Asks(p[i]) /\ p[i].block.id = id
    BY DEF AskedBy
  <2>3. PICK j \in 1 .. Len(q) : Asks(q[j]) /\ q[j].block.id = id
    BY <1>5 DEF AskedBy
  <2>4. i \in DOMAIN p /\ j \in DOMAIN q
    BY <1>4, <2>1, <2>2, <2>3
  <2>5. QED
    BY <1>1, <2>2, <2>3, <2>4, IdsAssumption
<1>6. AskedBy(p, Len(p)) \cap Given(n) = {}
  BY <1>5 DEF Given
<1>7. ASSUME NEW i \in 1 .. Len(p), NEW j \in 1 .. Len(p),
             Asks(p[i]), Asks(p[j]), p[i].block.id = p[j].block.id
      PROVE  i = j
  <2>1. i \in DOMAIN p /\ j \in DOMAIN p
    BY <1>4
  <2>2. QED
    BY <1>1, <1>7, <2>1, IdsAssumption
<1>8. QED
  BY <1>2, <1>3, <1>4, <1>6, <1>7

\* The first of some calls of different ids, and those behind it.
LEMMA CallsTaken ==
    ASSUME NEW calling \in Seq(Blocks), calling # <<>>,
           \A i, j \in 1 .. Len(calling) : calling[i].id = calling[j].id => i = j
    PROVE  /\ IdsIn(calling) = IdsIn(Tail(calling)) \cup {Head(calling).id}
           /\ Head(calling).id \notin IdsIn(Tail(calling))
           /\ \A i, j \in 1 .. Len(Tail(calling)) : Tail(calling)[i].id = Tail(calling)[j].id => i = j
<1> DEFINE rest == Tail(calling)
<1>1. PICK k \in Nat : k = Len(calling) /\ k > 0
  OBVIOUS
<1>2. Len(rest) = k - 1 /\ Head(calling) = calling[1] /\ \A i \in 1 .. k - 1 : rest[i] = calling[i + 1]
  BY <1>1
<1> HIDE DEF rest
<1>3. /\ \A i \in 1 .. k - 1 : i + 1 \in 1 .. k /\ i + 1 # 1
      /\ \A i \in 1 .. k : i = 1 \/ (i - 1 \in 1 .. k - 1 /\ (i - 1) + 1 = i)
      /\ 1 \in 1 .. k
      /\ \A i, j \in 1 .. k - 1 : i + 1 = j + 1 => i = j
  BY <1>1
<1>4. ASSUME NEW i \in 1 .. k - 1 PROVE rest[i].id = calling[i + 1].id /\ i + 1 \in 1 .. k /\ i + 1 # 1
  BY <1>2, <1>3
<1>5. Head(calling).id \notin IdsIn(rest)
  BY <1>1, <1>2, <1>3, <1>4 DEF IdsIn
<1>6. ASSUME NEW i \in 1 .. k - 1, NEW j \in 1 .. k - 1, rest[i].id = rest[j].id PROVE i = j
  <2>1. i + 1 = j + 1
    BY <1>1, <1>4, <1>6
  <2>2. QED
    BY <1>3, <2>1
<1>7. IdsIn(rest) \cup {Head(calling).id} \subseteq IdsIn(calling)
  BY <1>1, <1>2, <1>3, <1>4 DEF IdsIn
<1>8. IdsIn(calling) \subseteq IdsIn(rest) \cup {Head(calling).id}
  <2> SUFFICES ASSUME NEW i \in 1 .. k PROVE calling[i].id \in IdsIn(rest) \cup {Head(calling).id}
    BY <1>1 DEF IdsIn
  <2>1. CASE i = 1
    BY <1>2, <2>1
  <2>2. CASE i # 1
    <3>1. i - 1 \in 1 .. k - 1 /\ rest[i - 1].id = calling[i].id
      BY <1>3, <1>4, <2>2
    <3>2. QED
      BY <1>2, <3>1 DEF IdsIn
  <2>3. QED
    BY <2>1, <2>2
<1>9. QED
  BY <1>2, <1>5, <1>6, <1>7, <1>8 DEF rest

\* The reply streams, and what it asks for is to be called.
LEMMA LoggedStream ==
    ASSUME TypeOK, Joined, NEW t \in TurnIds, Stream(t), Logged(t)
    PROVE  Logged(t)' /\ Showing(t)
<1>1. PICK payloads \in Transcripts(Size(t)) :
        LET f == fold_stream(payloads)
            note == IF ~f.broke /\ ~Stopped(t, f) /\ AtItsLast(t) THEN <<Note("steps")>> ELSE <<>>
        IN /\ Says(t, f.said \o note)
           /\ \/ WorkGoes(t, "refused") /\ UNCHANGED <<pending, steps>>
              \/ WorkGoes(t, "ok") /\ UNCHANGED <<pending, steps>>
              \/ /\ WorkGoes(t, "calling") /\ ~AtItsLast(t)
                 /\ pending' = [pending EXCEPT ![t] = calls(f)]
                 /\ steps' = [steps EXCEPT ![t] = Append(@,
                                 [asked |-> ToolUses(f), answers |-> <<>>, offers |-> Offers(f)])]
  BY DEF Stream
<1> DEFINE f == fold_stream(payloads)
           note == IF ~f.broke /\ ~Stopped(t, f) /\ AtItsLast(t) THEN <<Note("steps")>> ELSE <<>>
           r == f.said \o note
           n == Len(steps[t])
<1>2. work[t] = "posting" /\ UNCHANGED <<pc, records>>
  BY DEF Stream, taskVars, logVars
<1>3. pc[t] = "begun"
  BY <1>2 DEF Joined, Done
<1>4. /\ n \in 0 .. MaxSteps /\ steps[t] \in Seq(Rounds) /\ Size(t) = n + 1
      /\ work \in [TurnIds -> WorkPhases] /\ DOMAIN pending = TurnIds /\ DOMAIN steps = TurnIds
  BY DEF TypeOK, Size
<1>5. f \in FoldStates
  BY <1>4, GivenMore, StreamTyped
<1>6. Says(t, r) /\ r \in Seq(Replies) /\ Quiet(r)
  <2>1. f.said \in Seq(Sayings)
    BY <1>5 DEF FoldStates
  <2>2. note = <<>> \/ note = <<Note("steps")>>
    OBVIOUS
  <2>3. Says(t, r)
    BY <1>1
  <2> HIDE DEF f, note
  <2> DEFINE mild == [stream : {"answer"}] \cup [stream : {"draft"}, whole : BOOLEAN]
                       \cup [stream : {"note"}, of : {"steps"}]
  <2>4. Sayings \subseteq mild /\ Note("steps") \in mild
    BY DEF Sayings, Note
  <2>5. mild \subseteq Replies /\ \A x \in mild : x.stream \in {"answer", "draft", "note"}
    BY DEF Replies
  <2> HIDE DEF mild
  <2>6. f.said \in Seq(mild) /\ note \in Seq(mild)
    <3> DEFINE said == f.said
               last == Note("steps")
    <3>1. said \in Seq(Sayings) /\ last \in mild /\ (note = <<>> \/ note = <<last>>)
      BY <2>1, <2>2, <2>4
    <3> HIDE DEF said, last
    <3>2. said \in Seq(mild)
      BY ONLY <2>4, <3>1
    <3>3. note \in Seq(mild)
      <4>1. <<last>> \in Seq(mild) /\ <<>> \in Seq(mild)
        BY ONLY <3>1
      <4>2. QED
        BY ONLY <3>1, <4>1
    <3>4. QED
      BY <3>2, <3>3 DEF said
  <2>7. r \in Seq(mild)
    BY <2>6, Joins
  <2> HIDE DEF r
  <2>8. r \in Seq(Replies) /\ \A i \in 1 .. Len(r) : r[i] \in mild
    BY <2>5, <2>7
  <2>9. QED
    BY <2>3, <2>5, <2>8 DEF Quiet
<1>7. CASE (WorkGoes(t, "refused") \/ WorkGoes(t, "ok")) /\ UNCHANGED <<pending, steps>>
  <2>1. work'[t] \in Waits \cup {"ok", "refused"} /\ work[t] \in Waits
    BY <1>2, <1>4, <1>7 DEF WorkGoes, Waits
  <2> HIDE DEF r
  <2>2. QED
    BY <1>2, <1>3, <1>6, <1>7, <2>1, GoesOnWaiting
<1>8. CASE /\ WorkGoes(t, "calling") /\ ~AtItsLast(t)
           /\ pending' = [pending EXCEPT ![t] = calls(f)]
           /\ steps' = [steps EXCEPT ![t] = Append(@,
                           [asked |-> ToolUses(f), answers |-> <<>>, offers |-> Offers(f)])]
  <2> DEFINE calling == calls(f)
             ids == AskedBy(payloads, Len(payloads))
             made == Uttered(records[t], channel[t], "tool_call")
             answered == Uttered(records[t], channel[t], "tool_result")
  <2>1. work'[t] = "calling" /\ pending'[t] = calling /\ Len(steps'[t]) = n + 1
    <3> DEFINE round == [asked |-> ToolUses(f), answers |-> <<>>, offers |-> Offers(f)]
    <3>1. ToolUses(f) \in Seq(Blocks) /\ Offers(f) \in Seq(Blocks)
      BY <1>5, OutcomeParts
    <3>2. round \in Rounds
      BY <3>1 DEF Rounds
    <3>3. work'[t] = "calling" /\ pending'[t] = calling /\ steps'[t] = Append(steps[t], round)
      BY <1>4, <1>8 DEF WorkGoes
    <3> HIDE DEF round, calling
    <3>4. QED
      BY <1>4, <3>2, <3>3
  <2>2. /\ Given(n) \subseteq Given(n + 1) /\ ids \subseteq Given(n + 1) /\ ids \cap Given(n) = {}
        /\ payloads \in Seq(Payloads)
        /\ \A i, j \in 1 .. Len(payloads) :
              Asks(payloads[i]) /\ Asks(payloads[j]) /\ payloads[i].block.id = payloads[j].block.id => i = j
    BY <1>4, GivenMore
  <2>3. NamedOnce(f, ids)
    BY <2>2, StreamNamed
  <2> HIDE DEF f
  <2>4. /\ \A i, j \in 1 .. Len(calling) : calling[i].id = calling[j].id => i = j
        /\ IdsIn(ToolUses(f)) \subseteq ids
    BY <1>5, <2>3, CallsNamed
  <2>5. IdsIn(calling) \subseteq ids
    BY <1>5, <2>4, OutcomeParts
  <2>6. Paired(made, answered) /\ made \cup answered \subseteq Given(n)
    BY <1>2 DEF Logged, UtteringOf, Uttering, Waits
  <2> HIDE DEF calling, ids, made, answered, r, n
  <2>7. Uttering(made, answered, "calling", calling, n + 1)
    BY <2>2, <2>4, <2>5, <2>6 DEF Uttering, Waits, Calls
  <2>8. \A i \in 1 .. Len(r) : r[i].stream \notin {"citation", "tool_call", "tool_result"}
    BY <1>6 DEF Quiet
  <2>9. /\ Placed(t)'
        /\ \A stream : Uttered(records'[t], channel'[t], stream) =
                          Uttered(records[t], channel[t], stream) \cup QueuedIds(r, Len(r), stream)
    BY <1>2, <1>3, <1>6, <2>1, <2>8, SaysMore
  <2>10. Uttered(records'[t], channel'[t], "tool_call") = made /\ Uttered(records'[t], channel'[t], "tool_result") = answered
    BY <1>6, <2>9, QuietIds DEF made, answered
  <2>11. UtteringOf(t)'
    BY <2>1, <2>7, <2>10 DEF UtteringOf
  <2>12. QED
    BY <1>2, <2>9, <2>11 DEF Logged, Showing
<1>9. QED
  BY <1>1, <1>7, <1>8

LEMMA LoggedToolStep ==
    ASSUME TypeOK, Joined, NEW t \in TurnIds, ToolOf(t), Logged(t)
    PROVE  Logged(t)' /\ Showing(t)
<1> DEFINE calling == pending[t]
           x == Head(calling)
           n == Len(steps[t])
           made == Uttered(records[t], channel[t], "tool_call")
           answered == Uttered(records[t], channel[t], "tool_result")
<1>1. /\ records[t] \in Seq(AskRecords) /\ channel[t] \in Seq(Replies)
      /\ work \in [TurnIds -> WorkPhases] /\ calling \in Seq(Blocks)
      /\ DOMAIN pending = TurnIds /\ DOMAIN steps = TurnIds
  BY DEF TypeOK
<1>2. /\ work[t] = "idle" <=> pc[t] \notin {"begun", "closing"}
      /\ pc[t] = "closing" => work[t] \in Done
      /\ work[t] \in Calls => calling # <<>>
  BY DEF Joined
<1>3. Placed(t) /\ Uttering(made, answered, work[t], calling, n)
  BY DEF Logged, UtteringOf
<1>4. calling # <<>> => x \in Blocks /\ x.id \in Texts
  <2>1. calling # <<>> => x \in Blocks
    BY <1>1, Takes1
  <2>2. QED
    BY <2>1 DEF Blocks
<1> HIDE DEF calling, x, made, answered, n
<1>5. CASE Stream(t)
  BY <1>5, LoggedStream
<1>6. CASE CallTool(t)
  <2> DEFINE said == [stream |-> "tool_call", id |-> x.id]
  <2>1. /\ work[t] = "calling" /\ WorkGoes(t, "running") /\ Says(t, <<said>>)
        /\ UNCHANGED <<pc, records, pending, steps>>
    BY <1>6 DEF CallTool, taskVars, logVars, x, calling
  <2>2. pc[t] = "begun" /\ work'[t] = "running" /\ calling # <<>>
    BY <1>1, <1>2, <2>1 DEF WorkGoes, Done, Calls
  <2>3. said \in Replies /\ <<said>> \in Seq(Replies)
    BY <1>4, <2>2 DEF Replies
  <2>4. /\ Paired(made, answered) /\ made \cup answered \subseteq Given(n) /\ IdsIn(calling) \subseteq Given(n)
        /\ \A i, j \in 1 .. Len(calling) : calling[i].id = calling[j].id => i = j
        /\ IdsIn(calling) \cap (made \cup answered) = {}
    BY <1>3, <2>1 DEF Uttering, Waits, Calls
  <2>5. IdsIn(calling) = IdsIn(Tail(calling)) \cup {x.id} /\ x.id \notin IdsIn(Tail(calling))
    BY <1>1, <2>2, <2>4, CallsTaken DEF x
  <2>6. MayCome(records[t], channel[t], Len(channel[t]), said)
    BY <2>4, <2>5 DEF MayCome, made, answered, Uttered
  <2>7. \A i \in 1 .. Len(<<said>>) : i = 1 /\ <<said>>[1] = said
    OBVIOUS
  <2> HIDE DEF said
  <2>8. /\ Placed(t)'
        /\ \A stream : Uttered(records'[t], channel'[t], stream) =
                          Uttered(records[t], channel[t], stream) \cup QueuedIds(<<said>>, Len(<<said>>), stream)
    BY <2>1, <2>2, <2>3, <2>6, <2>7, SaysMore
  <2>9. /\ Uttered(records'[t], channel'[t], "tool_call") = made \cup {x.id}
        /\ Uttered(records'[t], channel'[t], "tool_result") = answered
    BY <2>8, OneQueued DEF said, made, answered
  <2>10. Uttering(made \cup {x.id}, answered, "running", calling, n)
    <3>1. Paired(made \cup {x.id}, answered \cup {x.id})
      BY <2>4 DEF Paired
    <3>2. QED
      BY <2>4, <2>5, <3>1 DEF Uttering, Waits, Calls, x
  <2>11. UtteringOf(t)'
    BY <2>1, <2>2, <2>9, <2>10 DEF UtteringOf, calling, n
  <2>12. QED
    BY <2>1, <2>8, <2>11 DEF Logged, Showing
<1>7. CASE ToolReturns(t)
  <2> DEFINE more == Len(calling) > 1
  <2>1. PICK ok \in BOOLEAN : Says(t, <<[stream |-> "tool_result", id |-> x.id, ok |-> ok]>>)
    BY <1>7, ReturnsOne DEF x, calling
  <2> DEFINE said == [stream |-> "tool_result", id |-> x.id, ok |-> ok]
  <2>2. /\ work[t] = "running" /\ UNCHANGED <<pc, records>>
        /\ pending' = [pending EXCEPT ![t] = Tail(calling)]
        /\ WorkGoes(t, IF more THEN "calling" ELSE "counting")
        /\ Says(t, <<said>>)
    BY <1>7, <2>1 DEF ToolReturns, taskVars, logVars, calling
  <2>3. n \in Nat /\ Len(steps'[t]) = n
    <3>1. steps[t] \in Seq(Rounds)
      BY DEF TypeOK
    <3>2. \E round : steps' = [steps EXCEPT ![t] = [steps[t] EXCEPT ![n] = round]]
      BY <1>7, ReturnsOne DEF n
    <3>3. QED
      BY <1>1, <3>1, <3>2 DEF n
  <2>4. /\ pc[t] = "begun" /\ calling # <<>> /\ pending'[t] = Tail(calling)
        /\ work'[t] \in {"calling", "counting"}
    BY <1>1, <1>2, <2>2 DEF WorkGoes, Done, Calls
  <2>5. said \in Replies /\ <<said>> \in Seq(Replies)
    BY <1>4, <2>4 DEF Replies
  <2>6. /\ made \cup answered \subseteq Given(n) /\ IdsIn(calling) \subseteq Given(n)
        /\ \A i, j \in 1 .. Len(calling) : calling[i].id = calling[j].id => i = j
        /\ x.id \in made \/ "tool_call" \in Losable
        /\ x.id \notin answered
        /\ Paired(made, answered \cup {x.id})
        /\ IdsIn(Tail(calling)) \cap (made \cup answered) = {}
    BY <1>3, <2>2 DEF Uttering, Waits, Calls, x
  <2>7. /\ IdsIn(calling) = IdsIn(Tail(calling)) \cup {x.id} /\ x.id \notin IdsIn(Tail(calling))
        /\ \A i, j \in 1 .. Len(Tail(calling)) : Tail(calling)[i].id = Tail(calling)[j].id => i = j
    BY <1>1, <2>4, <2>6, CallsTaken DEF x
  <2>8. MayCome(records[t], channel[t], Len(channel[t]), said)
    BY <2>6 DEF MayCome, made, answered, Uttered
  <2>9. \A i \in 1 .. Len(<<said>>) : i = 1 /\ <<said>>[1] = said
    OBVIOUS
  <2>10. said.stream = "tool_result" /\ said.id = x.id
    OBVIOUS
  <2> HIDE DEF said
  <2>11. work'[t] # "grounding"
    BY <2>4
  <2>12. /\ Placed(t)'
        /\ \A stream : Uttered(records'[t], channel'[t], stream) =
                          Uttered(records[t], channel[t], stream) \cup QueuedIds(<<said>>, Len(<<said>>), stream)
    BY <2>2, <2>4, <2>5, <2>8, <2>9, <2>11, SaysMore
  <2>13. /\ Uttered(records'[t], channel'[t], "tool_call") = made
         /\ Uttered(records'[t], channel'[t], "tool_result") = answered \cup {x.id}
    BY <2>10, <2>12, OneQueued DEF made, answered
  <2>14. ASSUME NEW phase \in {"calling", "counting"}
         PROVE  Uttering(made, answered \cup {x.id}, phase, Tail(calling), n)
    BY <2>6, <2>7 DEF Uttering, Waits, Calls
  <2>15. UtteringOf(t)'
    BY <2>3, <2>4, <2>13, <2>14 DEF UtteringOf
  <2>16. QED
    BY <2>2, <2>12, <2>15 DEF Logged, Showing
<1>8. CASE LateAnswer(t)
  <2>1. UNCHANGED <<pc, work, records, channel, pending, steps>>
    BY <1>8 DEF LateAnswer, taskVars, logVars
  <2>2. QED
    BY <2>1, LoggedAlone DEF Showing
<1>9. CASE WorkPanics(t)
  <2>1. /\ UNCHANGED <<pc, records, channel, pending, steps>> /\ WorkGoes(t, "panicked")
    BY <1>9 DEF WorkPanics, taskVars, logVars
  <2>2. work'[t] = "panicked"
    BY <1>1, <2>1 DEF WorkGoes
  <2>3. Placed(t)'
    BY <1>3, <2>1, <2>2 DEF Placed
  <2>4. UtteringOf(t)'
    BY <2>2, UtteringIdle DEF UtteringOf
  <2>5. QED
    BY <2>1, <2>3, <2>4 DEF Logged, Showing
<1>10. QED
  BY <1>5, <1>6, <1>7, <1>8, <1>9 DEF ToolOf

-----------------------------------------------------------------------------
(* The refinement.                                                           *)

LEMMA LoggedStep ==
    ASSUME TypeOK, Joined, \A t \in TurnIds : Logged(t), [Next]_vars
    PROVE  (\A t \in TurnIds : Logged(t))' /\ (UNCHANGED records \/ \E t \in TurnIds : Log!Shows(t))
<1>1. CASE Restart
  <2>1. /\ UNCHANGED records /\ \A t \in TurnIds : channel'[t] = <<>> /\ work'[t] = "idle"
        /\ \A t \in TurnIds : pc'[t] = IF Alive(t) THEN "dead" ELSE pc[t]
    BY <1>1 DEF Restart, Forget
  <2>2. ASSUME NEW t \in TurnIds PROVE Logged(t)'
    <3>1. Placed(t)
      BY DEF Logged
    <3>2. pc'[t] \in {"new", "ended", "dead"} /\ (pc'[t] = "new" => pc[t] = "new")
      BY <2>1 DEF Alive
    <3>3. Placed(t)'
      BY <2>1, <3>1, <3>2, QueuedNone DEF Placed
    <3>4. UtteringOf(t)'
      BY <2>1, UtteringIdle DEF UtteringOf
    <3>5. QED
      BY <3>3, <3>4 DEF Logged
  <2>3. QED
    BY <2>1, <2>2
<1>2. CASE UNCHANGED vars
  BY <1>2, LoggedAlone DEF vars, taskVars, workVars, logVars
<1>3. ASSUME NEW t \in TurnIds, TaskOf(t) \/ AskOf(t) \/ ToolOf(t)
      PROVE  (\A u \in TurnIds : Logged(u))' /\ (UNCHANGED records \/ \E u \in TurnIds : Log!Shows(u))
  <2>1. Logged(t)' /\ Showing(t)
    BY <1>3, LoggedTaskStep, LoggedAskStep, LoggedToolStep
  <2>2. ASSUME NEW u \in TurnIds, u # t PROVE Logged(u)'
    <3>1. Own(u)' = Own(u)
      BY <1>3, <2>2, OthersKeepTheirs
    <3>2. UNCHANGED <<pc[u], work[u], records[u], channel[u], pending[u], steps[u]>>
      BY <3>1 DEF Own
    <3>3. QED
      BY <3>2, LoggedAlone
  <2>3. QED
    BY <2>1, <2>2 DEF Showing
<1>4. QED
  BY <1>1, <1>2, <1>3, EachStep

LEMMA AlwaysLogged == Spec => [](\A t \in TurnIds : Logged(t))
<1>1. Init => \A t \in TurnIds : Logged(t)
  <2> SUFFICES ASSUME Init, NEW t \in TurnIds PROVE Logged(t)
    OBVIOUS
  <2>1. pc[t] = "new" /\ records[t] = <<>> /\ channel[t] = <<>> /\ work[t] = "idle"
    BY DEF Init
  <2>2. Placed(t)
    BY <2>1, QueuedNone, NothingShown DEF Placed
  <2>3. UtteringOf(t)
    BY <2>1, UtteringIdle DEF UtteringOf
  <2>4. QED
    BY <2>2, <2>3 DEF Logged
<1>2. QED
  BY <1>1, AlwaysJoined, LoggedStep, PTL DEF Spec

\* consultation.rs, conversation.rs:282: whatever is lost and whichever turns
\* overlap, what the surface shows of each run is a log AskLog allows.
THEOREM ImplementsAskLog == Spec => ShowsTheLog
<1>1. Init => Log!Init
  BY DEF Init, Log!Init
<1>2. TypeOK /\ Joined /\ (\A t \in TurnIds : Logged(t)) /\ [Next]_vars => [Log!Next]_records
  BY LoggedStep DEF Log!Next
<1>3. QED
  BY <1>1, <1>2, AlwaysJoined, AlwaysLogged, PTL DEF Spec, ShowsTheLog, Log!Spec

-----------------------------------------------------------------------------
(* What the fold of a run's records tells.                                   *)

TurnStates(run) ==
    [run : {run}, question : BOOLEAN, parts : Seq(Parts), drafted : BOOLEAN, closed : BOOLEAN]

LEMMA FoldedTells ==
    ASSUME NEW run, NEW turn \in TurnStates(run), NEW x \in AskRecords
    PROVE  /\ Folded(turn, x) \in TurnStates(run)
           /\ turn.question \/ x.stream = "question" => Folded(turn, x).question
           /\ x.stream = "end" => Folded(turn, x).closed = ~x.clean
<1>1. Prose(turn.parts) \in Seq(Parts) /\ Append(turn.parts, "called") \in Seq(Parts)
        /\ Append(turn.parts, "returned") \in Seq(Parts)
  BY DEF TurnStates, Prose, Parts
<1>2. x.stream = "end" => x.clean \in BOOLEAN
  BY DEF AskRecords, Replies
<1>3. QED
  BY <1>1, <1>2 DEF Folded, TurnStates

\* h is the turn as it is told after each of the records.
ToldBy(h, run, s) ==
    /\ h \in [0 .. Len(s) -> TurnStates(run)]
    /\ h[0] = Turn(run)
    /\ \A i \in 1 .. Len(s) : h[i] = Folded(h[i - 1], s[i])
    /\ TurnOf(run, s) = h[Len(s)]

LEMMA TurnStepwise ==
    ASSUME NEW run, NEW s \in Seq(AskRecords)
    PROVE  \E h : ToldBy(h, run, s)
<1> DEFINE D == TurnStates(run)
           base == Turn(run)
           step == [i \in 1 .. Len(s) |-> [d \in D |-> Folded(d, s[i])]]
           Is(g) == g = [S \in SUBSET (DOMAIN s) |->
                           IF S = {} THEN base ELSE Folded(g[S \ {Max(S)}], s[Max(S)])]
           iter == CHOOSE g : Is(g)
<1>1. PICK n \in Nat : n = Len(s) /\ DOMAIN s = 1 .. n /\ \A i \in 1 .. n : s[i] \in AskRecords
  OBVIOUS
<1>0. base \in D
  <2>1. <<>> \in Seq(Parts)
    OBVIOUS
  <2>2. QED
    BY <2>1 DEF Turn, TurnStates
<1>2. step \in [1 .. n -> [D -> D]]
  <2>1. \A i \in 1 .. n, d \in D : Folded(d, s[i]) \in D
    BY <1>1, FoldedTells
  <2> HIDE DEF D
  <2>2. QED
    BY <1>1, <2>1
<1>3. \A i \in 1 .. n, d \in D : step[i][d] = Folded(d, s[i])
  <2> HIDE DEF D
  <2> QED BY <1>1
<1>7. TurnOf(run, s) = iter[1 .. n]
  BY <1>1 DEF TurnOf, FoldLeft, MapThenFoldSet
<1> HIDE DEF step, D, base
<1>4. PICK g : Folds(g, D, base, n, step)
  BY <1>0, <1>2, FoldExists
<1>5. Is(g)
  <2>1. ASSUME NEW S \in SUBSET (1 .. n), S # {}
        PROVE  g[S] = Folded(g[S \ {Max(S)}], s[Max(S)])
    <3>1. Max(S) \in 1 .. n /\ S \ {Max(S)} \in SUBSET (1 .. n)
      BY <2>1, MaxPart
    <3>2. g[S \ {Max(S)}] \in D /\ g[S] = step[Max(S)][g[S \ {Max(S)}]]
      BY <1>4, <2>1, <3>1 DEF Folds
    <3>3. QED
      BY <1>3, <3>1, <3>2
  <2>2. g[{}] = base /\ g = [S \in SUBSET (1 .. n) |-> g[S]]
    BY <1>4 DEF Folds
  <2>3. QED
    BY <1>1, <2>1, <2>2
<1>6. Is(iter)
  <2> HIDE DEF Is
  <2> QED BY <1>5
<1> HIDE DEF iter
<1>8. Unfolds(iter, D, base, n, step)
  <2>1. ASSUME NEW S \in SUBSET (1 .. n), S # {}, iter[S \ {Max(S)}] \in D
        PROVE  iter[S] = step[Max(S)][iter[S \ {Max(S)}]]
    <3>1. iter[S] = Folded(iter[S \ {Max(S)}], s[Max(S)])
      BY <1>1, <1>6, <2>1
    <3>2. QED
      BY <1>3, <2>1, <3>1, MaxPart
  <2>2. iter[{}] = base
    BY <1>1, <1>6
  <2>3. QED
    BY <2>1, <2>2 DEF Unfolds
<1>9. PICK h : Stepwise(h, D, base, n, step) /\ h[n] = iter[1 .. n]
  BY <1>0, <1>2, <1>8, FoldStepwise
<1>10. ASSUME NEW i \in 1 .. n PROVE h[i] = Folded(h[i - 1], s[i])
  <2>1. i - 1 \in 0 .. n
    OBVIOUS
  <2>2. h[i - 1] \in D /\ h[i] = step[i][h[i - 1]]
    BY <1>9, <2>1 DEF Stepwise
  <2>3. QED
    BY <1>3, <2>2
<1>11. ToldBy(h, run, s)
  BY <1>1, <1>7, <1>9, <1>10 DEF Stepwise, ToldBy, D, base
<1>12. QED
  BY <1>11

\* A run that begins with its question is a turn, and its end is read back.
LEMMA TurnTold ==
    ASSUME NEW run, NEW s \in Seq(AskRecords), s # <<>>, s[1].stream = "question"
    PROVE  /\ TurnOf(run, s) \in TurnStates(run)
           /\ TurnOf(run, s).question
           /\ Last(s).stream = "end" => TurnOf(run, s).closed = ~Last(s).clean
<1>1. PICK n \in Nat : n = Len(s) /\ n > 0
  OBVIOUS
<1>2. PICK h : ToldBy(h, run, s)
  BY TurnStepwise
<1>3. \A i \in 1 .. n : h[i] = Folded(h[i - 1], s[i]) /\ h[i - 1] \in TurnStates(run) /\ s[i] \in AskRecords
  BY <1>1, <1>2 DEF ToldBy
<1>4. TurnOf(run, s) = h[n] /\ h[n] \in TurnStates(run)
  BY <1>1, <1>2 DEF ToldBy
<1> DEFINE good == {i \in 0 .. n : i = 0 \/ h[i].question}
<1>5. 0 \in good
  OBVIOUS
<1>6. ASSUME NEW i \in 1 .. n, i - 1 \in good PROVE i \in good
  <2>1. i = 1 \/ h[i - 1].question
    BY <1>6
  <2>2. Folded(h[i - 1], s[i]).question
    BY <1>3, <2>1, FoldedTells
  <2>3. QED
    BY <1>3, <2>2
<1>7. n \in good
  <2> HIDE DEF good
  <2>1. 0 .. n \subseteq good
    BY <1>5, <1>6, InductionUpTo
  <2>2. QED
    BY <2>1
<1>8. h[n].question
  BY <1>1, <1>7
<1>9. Last(s) = s[n] /\ n \in 1 .. n
  BY <1>1 DEF Last
<1>10. Last(s).stream = "end" => h[n].closed = ~Last(s).clean
  <2>1. h[n] = Folded(h[n - 1], s[n]) /\ h[n - 1] \in TurnStates(run) /\ s[n] \in AskRecords
    BY <1>3, <1>9
  <2>2. s[n].stream = "end" => Folded(h[n - 1], s[n]).closed = ~s[n].clean
    BY <2>1, FoldedTells
  <2>3. QED
    BY <1>9, <2>1, <2>2
<1>11. QED
  BY <1>4, <1>8, <1>10

\* A filter of a sequence that is all let through.
LEMMA KeptAll ==
    ASSUME NEW D, NEW s \in Seq(D), NEW yes, \A i \in 1 .. Len(s) : s[i] \in yes
    PROVE  Kept(s, yes) = s
<1>1. PICK n \in Nat : n = Len(s)
  OBVIOUS
<1>2. PICK h : KeptBy(h, s, yes, D)
  BY KeptStepwise
<1> DEFINE good == {m \in 0 .. n : Len(h[m]) = m /\ \A i \in 1 .. m : h[m][i] = s[i]}
<1>3. 0 \in good
  BY <1>2 DEF KeptBy
<1>4. ASSUME NEW m \in 1 .. n, m - 1 \in good PROVE m \in good
  <2>1. m - 1 \in 0 .. n /\ m \in 0 .. n /\ s[m] \in D
    BY <1>1
  <2>2. PICK u \in Seq(D) : u = h[m - 1]
    BY <1>1, <1>2, <2>1 DEF KeptBy
  <2>3. h[m] = Append(u, s[m])
    BY <1>1, <1>2, <2>2 DEF KeptBy
  <2>4. Len(u) = m - 1 /\ \A i \in 1 .. m - 1 : u[i] = s[i]
    BY <1>4, <2>2
  <2> HIDE DEF good
  <2>5. Len(h[m]) = m /\ \A i \in 1 .. m : h[m][i] = s[i]
    BY <2>1, <2>3, <2>4
  <2>6. QED
    BY <2>1, <2>5 DEF good
<1>5. n \in good
  <2> HIDE DEF good
  <2>1. 0 .. n \subseteq good
    BY <1>3, <1>4, InductionUpTo
  <2>2. QED
    BY <2>1
<1>6. Kept(s, yes) = h[n] /\ h[n] \in Seq(D)
  BY <1>1, <1>2 DEF KeptBy
<1>7. Len(h[n]) = n /\ \A i \in 1 .. n : h[n][i] = s[i]
  BY <1>5
<1>8. QED
  BY <1>1, <1>6, <1>7

-----------------------------------------------------------------------------
(* What a follow-up replays.                                                 *)

\* The runs of a conversation, each once and as it first appeared, and each
\* opened by its question.
ListedRuns ==
    /\ \A t \in TurnIds : records[t] # <<>> =>
          /\ records[t][1].stream = "question"
          /\ \E i \in 1 .. Len(order[Conv(t)]) : order[Conv(t)][i] = t
    /\ \A c \in Conversations : \A i \in 1 .. Len(order[c]) :
          /\ records[order[c][i]] # <<>> /\ Conv(order[c][i]) = c
          /\ \A j \in 1 .. Len(order[c]) : order[c][i] = order[c][j] => i = j

Listed == ListedRuns /\ \A t \in TurnIds : pc[t] \in {"asked", "begun", "closing"} => records[t] # <<>>

LEMMA ListsOne ==
    ASSUME TypeOK, ListedRuns, NEW t \in TurnIds, NEW x \in AskRecords, AppendAsk(t, x),
           records[t] # <<>> \/ x.stream = "question"
    PROVE  /\ ListedRuns'
           /\ \A u \in TurnIds : records[u] # <<>> => records'[u] # <<>>
           /\ x.stream \notin Losable => records'[t] # <<>>
<1>1. CASE UNCHANGED <<records, order>> /\ x.stream \in Losable
  BY <1>1 DEF ListedRuns
<1>2. CASE /\ records' = [records EXCEPT ![t] = Append(@, x)]
           /\ order' = [order EXCEPT ![Conv(t)] = IF records[t] = <<>> THEN Append(@, t) ELSE @]
  <2>1. /\ records \in [TurnIds -> Seq(AskRecords)] /\ order \in [Conversations -> Seq(TurnIds)]
        /\ \A u \in TurnIds : Conv(u) \in Conversations
    BY ThreadAssumption DEF TypeOK, Conv
  <2>2. PICK s \in Seq(AskRecords) : s = records[t]
    BY <2>1
  <2>3. records'[t] = Append(s, x) /\ records'[t] # <<>> /\ \A u \in TurnIds \ {t} : records'[u] = records[u]
    BY <1>2, <2>1, <2>2
  <2>4. records'[t][1].stream = "question"
    <3>1. CASE s = <<>>
      BY <2>2, <2>3, <3>1
    <3>2. CASE s # <<>>
      <4>1. Append(s, x)[1] = s[1]
        BY <3>2
      <4>2. QED
        BY <2>2, <2>3, <3>2, <4>1 DEF ListedRuns
    <3>3. QED
      BY <3>1, <3>2
  <2>5. ASSUME NEW c \in Conversations
        PROVE  order'[c] = order[c] \/ (c = Conv(t) /\ s = <<>> /\ order'[c] = Append(order[c], t))
    BY <1>2, <2>1, <2>2
  <2>6. ASSUME NEW u \in TurnIds, records'[u] # <<>>
        PROVE  \E i \in 1 .. Len(order'[Conv(u)]) : order'[Conv(u)][i] = u
    <3>1. PICK o \in Seq(TurnIds) : o = order[Conv(u)]
      BY <2>1
    <3>2. CASE records[u] # <<>>
      <4>1. PICK i \in 1 .. Len(o) : o[i] = u
        BY <3>1, <3>2 DEF ListedRuns
      <4>2. order'[Conv(u)] = o \/ order'[Conv(u)] = Append(o, t)
        BY <2>1, <2>5, <3>1
      <4>3. i \in 1 .. Len(order'[Conv(u)]) /\ order'[Conv(u)][i] = u
        BY <4>1, <4>2
      <4>4. QED
        BY <4>3
    <3>3. CASE records[u] = <<>>
      <4>1. u = t
        BY <2>3, <2>6, <3>3
      <4>2. order'[Conv(u)] = Append(o, t)
        BY <1>2, <2>1, <3>1, <3>3, <4>1
      <4>3. Len(o) + 1 \in 1 .. Len(Append(o, t)) /\ Append(o, t)[Len(o) + 1] = t
        OBVIOUS
      <4>4. QED
        BY <4>1, <4>2, <4>3
    <3>4. QED
      BY <3>2, <3>3
  <2>7. ASSUME NEW c \in Conversations, NEW i \in 1 .. Len(order'[c])
        PROVE  /\ records'[order'[c][i]] # <<>> /\ Conv(order'[c][i]) = c
               /\ \A j \in 1 .. Len(order'[c]) : order'[c][i] = order'[c][j] => i = j
    <3>1. PICK o \in Seq(TurnIds) : o = order[c]
      BY <2>1
    <3>2. \A k \in 1 .. Len(o) :
             /\ o[k] \in TurnIds /\ records[o[k]] # <<>> /\ Conv(o[k]) = c
             /\ \A j \in 1 .. Len(o) : o[k] = o[j] => k = j
      BY <3>1 DEF ListedRuns
    <3>3. \A k \in 1 .. Len(o) : records'[o[k]] # <<>>
      BY <2>3, <3>2
    <3>4. CASE order'[c] = o
      BY <3>2, <3>3, <3>4
    <3>5. CASE c = Conv(t) /\ s = <<>> /\ order'[c] = Append(o, t)
      <4>1. PICK l \in Nat : l = Len(o)
        OBVIOUS
      <4>2. /\ Len(order'[c]) = l + 1 /\ order'[c][l + 1] = t
            /\ \A k \in 1 .. l : order'[c][k] = o[k]
        BY <3>5, <4>1
      <4>3. \A k \in 1 .. l : o[k] # t
        BY <2>2, <3>2, <3>5, <4>1
      <4>4. \A k \in 1 .. l + 1 : k = l + 1 \/ k \in 1 .. l
        BY <4>1
      <4>5. /\ records'[order'[c][i]] # <<>> /\ Conv(order'[c][i]) = c
            /\ i \in 1 .. l + 1 /\ \A j \in 1 .. Len(order'[c]) : j \in 1 .. l + 1
        <5>1. i \in 1 .. l + 1 /\ \A j \in 1 .. Len(order'[c]) : j \in 1 .. l + 1
          BY <2>7, <4>2
        <5>2. CASE i = l + 1
          BY <2>3, <3>5, <4>2, <5>1, <5>2 DEF Conv
        <5>3. CASE i \in 1 .. l
          BY <3>2, <3>3, <4>1, <4>2, <5>1, <5>3
        <5>4. QED
          BY <4>4, <5>1, <5>2, <5>3
      <4>6. ASSUME NEW j \in 1 .. l + 1, order'[c][i] = order'[c][j] PROVE i = j
        <5>1. CASE i = l + 1 /\ j = l + 1
          BY <5>1
        <5>2. CASE i = l + 1 /\ j \in 1 .. l
          BY <4>2, <4>3, <4>6, <5>2
        <5>3. CASE i \in 1 .. l /\ j = l + 1
          BY <4>2, <4>3, <4>6, <5>3
        <5>4. CASE i \in 1 .. l /\ j \in 1 .. l
          BY <3>2, <4>1, <4>2, <4>6, <5>4
        <5>5. QED
          BY <4>4, <4>5, <5>1, <5>2, <5>3, <5>4
      <4>7. QED
        BY <4>5, <4>6
    <3>6. QED
      BY <2>5, <2>7, <3>1, <3>4, <3>5, <2>2
  <2>8. ASSUME NEW u \in TurnIds, records'[u] # <<>> PROVE records'[u][1].stream = "question"
    BY <2>3, <2>4, <2>8 DEF ListedRuns
  <2>9. QED
    BY <2>3, <2>6, <2>7, <2>8 DEF ListedRuns, Conv
<1>3. QED
  BY <1>1, <1>2 DEF AppendAsk

LEMMA ListsNone ==
    ASSUME ListedRuns, UNCHANGED <<records, order>>
    PROVE  ListedRuns'
BY DEF ListedRuns

LEMMA ListsThenGoes ==
    ASSUME TypeOK, Listed, NEW t \in TurnIds, NEW x \in AskRecords, AppendAsk(t, x),
           records[t] # <<>> \/ (x.stream = "question" /\ x.stream \notin Losable),
           \A u \in TurnIds \ {t} : pc'[u] = pc[u]
    PROVE  Listed'
<1>1. ListedRuns' /\ (\A u \in TurnIds : records[u] # <<>> => records'[u] # <<>>) /\ records'[t] # <<>>
  BY ListsOne DEF Listed
<1>2. QED
  BY <1>1 DEF Listed

LEMMA ListsMore ==
    ASSUME TypeOK, Listed, NEW t \in TurnIds, records[t] # <<>>,
           \A u \in TurnIds \ {t} : pc'[u] = pc[u]
    PROVE  \A x \in AskRecords : AppendAsk(t, x) => Listed'
BY ListsThenGoes

LEMMA ListedStep ==
    ASSUME "question" \notin Losable, TypeOK, Joined, \A t \in TurnIds : Logged(t), Listed, [Next]_vars
    PROVE  Listed'
<1>1. CASE Restart
  <2>1. UNCHANGED <<records, order>> /\ \A u \in TurnIds : pc'[u] = IF Alive(u) THEN "dead" ELSE pc[u]
    BY <1>1 DEF Restart
  <2>2. \A u \in TurnIds : pc'[u] \notin {"asked", "begun", "closing"}
    BY <2>1 DEF Alive
  <2>3. QED
    BY <2>1, <2>2, ListsNone DEF Listed
<1>2. CASE UNCHANGED vars
  BY <1>2, ListsNone DEF vars, taskVars, logVars, Listed
<1>3. ASSUME NEW t \in TurnIds, TaskOf(t) PROVE Listed'
  <2>1. pc \in [TurnIds -> Phases] /\ channel[t] \in Seq(Replies)
    BY DEF TypeOK
  <2>2. CASE Accept(t) \/ Resume(t) \/ ReadPrior(t)
    <3>1. /\ UNCHANGED <<records, order>>
          /\ \E from \in Phases, to \in {"accepted", "resumed", "read"} : Goes(t, from, to)
      BY <2>2 DEF Accept, Resume, ReadPrior, logVars, Phases
    <3>2. \A u \in TurnIds : pc'[u] \in {"asked", "begun", "closing"} => pc[u] = pc'[u]
      BY <2>1, <3>1 DEF Goes
    <3>3. QED
      BY <3>1, <3>2, ListsNone DEF Listed
  <2>3. CASE AskQuestion(t)
    <3>1. Goes(t, "read", "asked") /\ AppendAsk(t, [stream |-> "question"])
      BY <2>3 DEF AskQuestion
    <3>2. \A u \in TurnIds \ {t} : pc'[u] = pc[u]
      BY <2>1, <3>1 DEF Goes
    <3>3. [stream |-> "question"] \in AskRecords
      BY DEF AskRecords
    <3>4. QED
      BY <3>1, <3>2, <3>3, ListsThenGoes
  <2>4. CASE Begin(t)
    <3>1. /\ Goes(t, "asked", "begun")
          /\ AppendAsk(t, Note("config")) \/ UNCHANGED <<records, order>>
      BY <2>4 DEF Begin
    <3>2. records[t] # <<>> /\ \A u \in TurnIds \ {t} : pc'[u] = pc[u]
      BY <2>1, <3>1 DEF Goes, Listed
    <3>3. Note("config") \in AskRecords
      BY DEF AskRecords, Replies, Note
    <3>4. CASE UNCHANGED <<records, order>>
      BY <3>2, <3>4, ListsNone DEF Listed
    <3>5. QED
      BY <3>1, <3>2, <3>3, <3>4, ListsMore
  <2>5. CASE Receive(t)
    <3>1. /\ pc[t] = "begun" /\ UNCHANGED pc /\ channel[t] # <<>>
          /\ AppendAsk(t, Head(channel[t])) \/ UNCHANGED <<records, order>>
      BY <2>5 DEF Receive
    <3>2. records[t] # <<>>
      BY <3>1 DEF Listed
    <3>3. Head(channel[t]) \in AskRecords
      <4>1. Head(channel[t]) \in Replies
        BY <2>1, <3>1
      <4>2. QED
        BY <4>1 DEF AskRecords
    <3>4. CASE UNCHANGED <<records, order>>
      BY <3>1, <3>4, ListsNone DEF Listed
    <3>5. QED
      BY <3>1, <3>2, <3>3, <3>4, ListsMore
  <2>6. CASE Close(t)
    <3>1. UNCHANGED <<records, order>> /\ Goes(t, "begun", "closing")
      BY <2>6 DEF Close, logVars
    <3>2. records[t] # <<>> /\ \A u \in TurnIds \ {t} : pc'[u] = pc[u]
      BY <2>1, <3>1 DEF Goes, Listed
    <3>3. QED
      BY <3>1, <3>2, ListsNone DEF Listed
  <2>7. CASE AppendEnd(t)
    <3>1. Goes(t, "closing", "ended") /\ AppendAsk(t, [stream |-> "end", clean |-> Clean(t)])
      BY <2>7 DEF AppendEnd
    <3>2. records[t] # <<>> /\ \A u \in TurnIds \ {t} : pc'[u] = pc[u]
      BY <2>1, <3>1 DEF Goes, Listed
    <3>3. [stream |-> "end", clean |-> Clean(t)] \in AskRecords
      <4>1. Clean(t) \in BOOLEAN
        BY DEF Clean
      <4>2. QED
        BY <4>1 DEF AskRecords
    <3>4. QED
      BY <3>1, <3>2, <3>3, ListsMore
  <2>8. QED
    BY <1>3, <2>2, <2>3, <2>4, <2>5, <2>6, <2>7 DEF TaskOf
<1>4. ASSUME NEW t \in TurnIds, AskOf(t) \/ ToolOf(t) PROVE Listed'
  <2>1. UNCHANGED <<pc, records, order>>
    BY <1>4 DEF AskOf, ToolOf, Ground, CountTokens, Counted, Rejected, Unanswered, Stream, CallTool,
                ToolReturns, LateAnswer, WorkPanics, taskVars, logVars
  <2>2. QED
    BY <2>1, ListsNone DEF Listed
<1>5. QED
  BY <1>1, <1>2, <1>3, <1>4, EachStep

LEMMA PriorStep ==
    DOMAIN prior = TurnIds /\ [Next]_vars => (DOMAIN prior = TurnIds)'
<1> SUFFICES ASSUME DOMAIN prior = TurnIds, [Next]_vars PROVE DOMAIN prior' = TurnIds
  OBVIOUS
<1>1. CASE Restart \/ UNCHANGED vars
  BY <1>1 DEF Restart, Forget, vars, taskVars
<1>2. ASSUME NEW t \in TurnIds, TaskOf(t) PROVE DOMAIN prior' = TurnIds
  BY <1>2 DEF TaskOf, Accept, Resume, ReadPrior, AskQuestion, Begin, Receive, Close, AppendEnd, Forget
<1>3. ASSUME NEW t \in TurnIds, AskOf(t) \/ ToolOf(t) PROVE DOMAIN prior' = TurnIds
  <2>1. UNCHANGED prior
    BY <1>3 DEF AskOf, ToolOf, Ground, CountTokens, Counted, Rejected, Unanswered, Stream, CallTool,
                ToolReturns, LateAnswer, WorkPanics, taskVars
  <2>2. QED
    BY <2>1
<1>4. QED
  BY <1>1, <1>2, <1>3, EachStep

LEMMA AlwaysListed ==
    ASSUME "question" \notin Losable
    PROVE  Spec => [](Listed /\ DOMAIN prior = TurnIds)
<1>1. Init => Listed /\ DOMAIN prior = TurnIds
  <2> SUFFICES ASSUME Init PROVE Listed /\ DOMAIN prior = TurnIds
    OBVIOUS
  <2>1. /\ \A t \in TurnIds : records[t] = <<>> /\ pc[t] = "new"
        /\ \A c \in Conversations : Len(order[c]) = 0
        /\ DOMAIN prior = TurnIds
    BY DEF Init
  <2>2. QED
    BY <2>1 DEF Listed, ListedRuns
<1>2. TypeOK /\ Joined /\ (\A t \in TurnIds : Logged(t)) /\ (Listed /\ DOMAIN prior = TurnIds) /\ [Next]_vars
        => (Listed /\ DOMAIN prior = TurnIds)'
  BY ListedStep, PriorStep
<1>3. QED
  BY <1>1, <1>2, AlwaysJoined, AlwaysLogged, PTL DEF Spec

\* A conversation's turns, read back where the session holds it.
LEMMA ReadsBack ==
    ASSUME TypeOK, ListedRuns, NEW c \in Conversations
    PROVE  LET all == turns(order[c], records)
           IN /\ DOMAIN all = 1 .. Len(order[c])
              /\ \A i \in 1 .. Len(order[c]) :
                    /\ all[i].run = order[c][i]
                    /\ Ended(order[c][i]) => all[i].closed = ~EndedClean(order[c][i])
<1>1. PICK o \in Seq(TurnIds), n \in Nat : o = order[c] /\ n = Len(o) /\ DOMAIN o = 1 .. n
  BY DEF TypeOK
<1> DEFINE all == [i \in DOMAIN o |-> TurnOf(o[i], records[o[i]])]
           D == UNION {TurnStates(run) : run \in TurnIds}
           asked == {turn \in Range(all) : turn.question}
<1>2. ASSUME NEW i \in 1 .. n
      PROVE  /\ o[i] \in TurnIds /\ all[i] = TurnOf(o[i], records[o[i]])
             /\ all[i] \in TurnStates(o[i]) /\ all[i].question
             /\ Ended(o[i]) => all[i].closed = ~EndedClean(o[i])
  <2>1. o[i] \in TurnIds /\ records[o[i]] # <<>> /\ all[i] = TurnOf(o[i], records[o[i]])
    BY <1>1 DEF ListedRuns
  <2>2. PICK s \in Seq(AskRecords) : s = records[o[i]]
    BY <2>1 DEF TypeOK
  <2>3. s # <<>> /\ s[1].stream = "question"
    BY <2>1, <2>2 DEF ListedRuns
  <2> HIDE DEF all
  <2>4. /\ TurnOf(o[i], s) \in TurnStates(o[i]) /\ TurnOf(o[i], s).question
        /\ Last(s).stream = "end" => TurnOf(o[i], s).closed = ~Last(s).clean
    BY <2>3, TurnTold
  <2>5. Ended(o[i]) => all[i].closed = ~EndedClean(o[i])
    BY <2>1, <2>2, <2>4 DEF Ended, EndedClean
  <2>6. QED
    BY <2>1, <2>2, <2>4, <2>5
<1>3. DOMAIN all = 1 .. n /\ Len(all) = n /\ turns(order[c], records) = Kept(all, asked)
  BY <1>1 DEF turns
<1>4. all \in Seq(D) /\ \A i \in 1 .. n : all[i] \in asked
  <2>1. \A i \in 1 .. n : all[i] \in D
    BY <1>2
  <2>2. all = [i \in 1 .. n |-> all[i]]
    BY <1>1
  <2>3. \A i \in 1 .. n : all[i] \in Range(all)
    BY <1>3 DEF Range
  <2>4. \A i \in 1 .. n : all[i].question
    BY <1>2
  <2>5. [i \in 1 .. n |-> all[i]] \in Seq(D)
    <3> HIDE DEF all, D
    <3> QED BY <2>1
  <2> HIDE DEF all, D
  <2>6. all \in Seq(D)
    BY ONLY <2>2, <2>5
  <2>7. QED
    BY <2>3, <2>4, <2>6
<1>5. \A i \in 1 .. n : all[i].run = o[i]
  <2> HIDE DEF all
  <2> QED BY <1>2 DEF TurnStates
<1> HIDE DEF all, D, asked
<1>6. Kept(all, asked) = all
  BY <1>3, <1>4, KeptAll
<1>7. QED
  BY <1>1, <1>2, <1>3, <1>5, <1>6

LEMMA ReplaysOne ==
    ASSUME TypeOK, Listed, DOMAIN prior = TurnIds, NEW t \in TurnIds, ReadPrior(t), Conv(t) \in held,
           NEW run \in TurnIds, Conv(run) = Conv(t), Ended(run)
    PROVE  /\ Cardinality(Replayed(prior'[t], run)) = 1
           /\ \A i \in Replayed(prior'[t], run) : prior'[t][i].closed = ~EndedClean(run)
<1>1. PICK c \in Conversations : c = Conv(t)
  BY ThreadAssumption DEF Conv
<1>2. PICK all : all = turns(order[c], records)
  OBVIOUS
<1>3. prior'[t] = all
  BY <1>1, <1>2 DEF ReadPrior, Readable
<1>4. PICK o : o = order[c]
  OBVIOUS
<1>5. /\ DOMAIN all = 1 .. Len(o)
      /\ \A i \in 1 .. Len(o) : all[i].run = o[i] /\ (Ended(o[i]) => all[i].closed = ~EndedClean(o[i]))
  BY <1>2, <1>4, ReadsBack DEF Listed
<1>6. /\ \E i \in 1 .. Len(o) : o[i] = run
      /\ \A i, j \in 1 .. Len(o) : o[i] = o[j] => i = j
  BY <1>1, <1>4 DEF Listed, ListedRuns, Ended
<1>7. PICK k \in 1 .. Len(o) : o[k] = run
  BY <1>6
<1>8. Replayed(all, run) = {k}
  BY <1>5, <1>6, <1>7 DEF Replayed
<1>9. Cardinality({k}) = 1
  BY FS_Singleton
<1>10. all[k].closed = ~EndedClean(run)
  BY <1>5, <1>7
<1>11. QED
  BY <1>3, <1>8, <1>9, <1>10

\* conversation.rs, turns: whichever turns overlap, whatever was lost of them
\* and however often the process began again, a turn whose session holds the
\* conversation replays each run that has ended, once, and tells of its end
\* as the surface does.  A question that is lost leaves records that are no
\* turn, which are not replayed at all, so no question may be.
THEOREM TheEndedAreReplayed ==
    ASSUME "question" \notin Losable
    PROVE  Spec => ReplaysTheEnded
<1> DEFINE Reads(t) ==
             pc[t] = "resumed" /\ pc'[t] = "read" /\ Conv(t) \in held =>
               \A run \in TurnIds : Conv(run) = Conv(t) /\ Ended(run) =>
                   /\ Cardinality(Replayed(prior'[t], run)) = 1
                   /\ \A i \in Replayed(prior'[t], run) : prior'[t][i].closed = ~EndedClean(run)
<1>1. ASSUME TypeOK, Listed, DOMAIN prior = TurnIds, [Next]_vars, NEW t \in TurnIds,
             pc[t] = "resumed", pc'[t] = "read"
      PROVE  ReadPrior(t)
  <2>1. pc \in [TurnIds -> Phases]
    BY <1>1 DEF TypeOK
  <2>2. ~Restart
    BY <1>1 DEF Restart, Alive
  <2>3. ~UNCHANGED vars
    BY <1>1 DEF vars, taskVars
  <2>4. PICK u \in TurnIds : TaskOf(u) \/ AskOf(u) \/ ToolOf(u)
    BY <1>1, <2>2, <2>3, EachStep
  <2>5. pc' # pc
    BY <1>1
  <2>6. TaskOf(u)
    BY <2>4, <2>5 DEF AskOf, ToolOf, Ground, CountTokens, Counted, Rejected, Unanswered, Stream, CallTool,
                ToolReturns, LateAnswer, WorkPanics, taskVars
  <2>7. ~Receive(u)
    BY <2>5 DEF Receive
  <2>8. ASSUME NEW from \in Phases, NEW to \in Phases, Goes(u, from, to) PROVE u = t /\ to = "read"
    BY <1>1, <2>1, <2>8 DEF Goes
  <2>9. ~(Accept(u) \/ Resume(u) \/ AskQuestion(u) \/ Begin(u) \/ Close(u) \/ AppendEnd(u))
    BY <2>8 DEF Accept, Resume, AskQuestion, Begin, Close, AppendEnd, Phases
  <2>10. ReadPrior(u)
    BY <2>6, <2>7, <2>9 DEF TaskOf
  <2>11. u = t
    BY <2>8, <2>10 DEF ReadPrior, Phases
  <2>12. QED
    BY <2>10, <2>11
<1>2. TypeOK /\ (Listed /\ DOMAIN prior = TurnIds) /\ [Next]_vars => \A t \in TurnIds : Reads(t)
  BY <1>1, ReplaysOne
<1>3. TypeOK /\ (Listed /\ DOMAIN prior = TurnIds) /\ [Next]_vars => [\A t \in TurnIds : Reads(t)]_vars
  BY <1>2
<1>4. QED
  BY <1>3, AlwaysJoined, AlwaysListed, PTL DEF Spec, ReplaysTheEnded
=============================================================================
