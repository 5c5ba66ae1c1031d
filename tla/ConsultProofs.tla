---------------------------- MODULE ConsultProofs -----------------------------
(***************************************************************************)
(* The safety of a consultation, for any number of turns and of            *)
(* conversations, any budgets, endpoints and configurations, any streams   *)
(* an endpoint may answer with and any of the faults.                      *)
(*                                                                         *)
(* Joined says how the task of a turn and its work keep together; Rounded  *)
(* what is left to answer of the round in hand; Metered what a step was    *)
(* weighed at before it was posted.                                        *)
(*                                                                         *)
(* They rest on what the fold of a stream comes to: its type, what it says *)
(* the reply used, and the tool uses it hands to the loop.                 *)
(***************************************************************************)
EXTENDS Consult, ListsProofs

-----------------------------------------------------------------------------
(* The fold of a stream, for every stream.                                   *)

Sayings == [stream : {"answer"}] \cup [stream : {"draft"}, whole : BOOLEAN]
FoldStates == [open : Seq(Blocks), content : Seq(Blocks), stop_reason : Texts, input : Nat,
               output : Nat, said : Seq(Sayings), broke : BOOLEAN]

LEMMA LeastIn ==
    ASSUME NEW n \in Nat, NEW S \in SUBSET (1 .. n), S # {}
    PROVE  \E i \in S : \A j \in S : i <= j
<1>1. S \in SUBSET Nat
  OBVIOUS
<1>2. QED
  BY <1>1, LeastOfASet

\* A sequence with one element changed, or one taken out.
LEMMA Replaced ==
    ASSUME NEW D, NEW s \in Seq(D), NEW at \in 1 .. Len(s), NEW d \in D
    PROVE  /\ [s EXCEPT ![at] = d] \in Seq(D)
           /\ Len([s EXCEPT ![at] = d]) = Len(s)
           /\ \A i \in 1 .. Len(s) : [s EXCEPT ![at] = d][i] = IF i = at THEN d ELSE s[i]
OBVIOUS

LEMMA TakenOut ==
    ASSUME NEW D, NEW s \in Seq(D), NEW at \in 1 .. Len(s)
    PROVE  /\ RemoveAt(s, at) \in Seq(D)
           /\ Len(RemoveAt(s, at)) = Len(s) - 1
           /\ \A i \in 1 .. Len(s) - 1 :
                 RemoveAt(s, at)[i] = IF i < at THEN s[i] ELSE s[i + 1]
<1>0. PICK n \in Nat : n = Len(s)
  OBVIOUS
<1> DEFINE a == SubSeq(s, 1, at - 1)
           b == SubSeq(s, at + 1, Len(s))
<1>1. a \in Seq(D) /\ Len(a) = at - 1 /\ \A i \in 1 .. at - 1 : a[i] = s[i]
  OBVIOUS
<1>2. b \in Seq(D) /\ Len(b) = Len(s) - at /\ \A i \in 1 .. Len(s) - at : b[i] = s[at + i]
  OBVIOUS
<1>3. RemoveAt(s, at) = a \o b
  BY DEF RemoveAt
<1> HIDE DEF a, b
<1>4. at \in 1 .. n /\ n = Len(s)
  BY <1>0
<1>5. a \o b \in Seq(D) /\ Len(a \o b) = n - 1
  <2>1. Len(a) + Len(b) = n - 1
    BY <1>1, <1>2, <1>4
  <2>2. QED
    BY <1>1, <1>2, <2>1, ConcatProperties
<1>6. ASSUME NEW i \in 1 .. n - 1 PROVE (a \o b)[i] = IF i < at THEN s[i] ELSE s[i + 1]
  <2>1. CASE i < at
    <3>1. i \in 1 .. Len(a)
      BY <1>1, <1>4, <2>1
    <3>2. QED
      BY <1>1, <1>2, <2>1, <3>1
  <2>2. CASE ~(i < at)
    <3>1. i - (at - 1) \in 1 .. n - at /\ i > at - 1 /\ at + (i - (at - 1)) = i + 1
      BY <1>4, <2>2
    <3>2. (a \o b)[i] = b[i - (at - 1)]
      BY <1>1, <1>2, <1>4, <3>1
    <3>3. b[i - (at - 1)] = s[at + (i - (at - 1))]
      BY <1>2, <1>4, <3>1
    <3>4. QED
      BY <2>2, <3>1, <3>2, <3>3
  <2>3. QED
    BY <2>1, <2>2
<1>7. QED
  BY <1>3, <1>4, <1>5, <1>6

LEMMA SomeTexts == "" \in Texts /\ "none" \in Texts /\ "text" \in Texts /\ "thinking" \in Texts
BY DEF Texts

LEMMA OneMore ==
    ASSUME NEW D, NEW S \in SUBSET D, NEW d \in D
    PROVE  S \cup {d} \in SUBSET D
OBVIOUS

LEMMA OpensABlock ==
    ASSUME NEW index \in Nat, NEW delta
    PROVE  /\ Opening(index, delta) \in Blocks
           /\ Opening(index, delta).index = index /\ Opening(index, delta).kind # "tool_use"
<1>1. {} \in SUBSET Texts /\ <<>> \in Seq(Texts)
  OBVIOUS
<1>2. \A kind \in {"text", "thinking"} : /\ Opened(index, kind, "none", "none") \in Blocks
                                         /\ Opened(index, kind, "none", "none").index = index
                                         /\ Opened(index, kind, "none", "none").kind = kind
  BY <1>1, SomeTexts DEF Opened, Blocks
<1>3. QED
  BY <1>2 DEF Opening

LEMMA FillsABlock ==
    ASSUME NEW b \in Blocks, NEW e \in Payloads, e.type = "content_block_delta"
    PROVE  /\ Filled(b, e) \in Blocks
           /\ Filled(b, e).kind = b.kind /\ Filled(b, e).id = b.id
<1>1. e.kind \in Texts /\ e.piece \in Texts
  BY DEF Payloads
<1>2. b.filled \cup {"text"} \in SUBSET Texts /\ b.filled \cup {e.kind} \in SUBSET Texts
        /\ Append(b.json, e.piece) \in Seq(Texts)
  <2>1. b.filled \in SUBSET Texts /\ b.json \in Seq(Texts)
    BY DEF Blocks
  <2>2. b.filled \cup {"text"} \in SUBSET Texts
    BY <2>1, SomeTexts
  <2>3. b.filled \cup {e.kind} \in SUBSET Texts
    BY <1>1, <2>1
  <2>4. Append(b.json, e.piece) \in Seq(Texts)
    BY <1>1, <2>1
  <2>5. QED
    BY <2>2, <2>3, <2>4
<1>3. \A x \in SUBSET Texts : [b EXCEPT !.filled = x] \in Blocks
                                 /\ [b EXCEPT !.filled = x].kind = b.kind
                                 /\ [b EXCEPT !.filled = x].id = b.id
  BY DEF Blocks
<1>4. \A x \in Seq(Texts) : [b EXCEPT !.json = x] \in Blocks
                                /\ [b EXCEPT !.json = x].kind = b.kind
                                /\ [b EXCEPT !.json = x].id = b.id
  BY DEF Blocks
<1>5. \/ Filled(b, e) = [b EXCEPT !.filled = b.filled \cup {"text"}]
      \/ Filled(b, e) = [b EXCEPT !.json = Append(b.json, e.piece)]
      \/ Filled(b, e) = [b EXCEPT !.filled = b.filled \cup {e.kind}]
      \/ Filled(b, e) = b
  BY DEF Filled
<1>6. QED
  BY <1>2, <1>3, <1>4, <1>5

\* A delta opens a block or finds one, and fills the first of its index.
LEMMA DeltaFillsOne ==
    ASSUME NEW f \in FoldStates, NEW e \in Payloads, e.type = "content_block_delta"
    PROVE  LET opened == IF At(f, e.index) = {} THEN Append(f.open, Opening(e.index, e.kind))
                                                ELSE f.open
           IN  /\ opened \in Seq(Blocks)
               /\ \E at \in 1 .. Len(opened) :
                     DeltaArrives(f, e) =
                        [f EXCEPT !.open = [opened EXCEPT ![at] = Filled(opened[at], e)],
                                  !.said = IF e.kind = "text_delta"
                                           THEN Append(@, [stream |-> "answer"]) ELSE @]
<1> DEFINE opened == IF At(f, e.index) = {} THEN Append(f.open, Opening(e.index, e.kind))
                                            ELSE f.open
           here == {i \in 1 .. Len(opened) : opened[i].index = e.index}
           first(i) == i \in DOMAIN opened /\ opened[i].index = e.index
                          /\ \A j \in 1 .. i - 1 : opened[j].index # e.index
<1>1. e.index \in Nat /\ e.kind \in Texts /\ f.open \in Seq(Blocks)
  BY DEF Payloads, FoldStates
<1>2. Opening(e.index, e.kind) \in Blocks /\ Opening(e.index, e.kind).index = e.index
  BY <1>1, OpensABlock
<1>3. opened \in Seq(Blocks)
  BY <1>1, <1>2
<1>4. here # {}
  <2>1. CASE At(f, e.index) = {}
    <3>1. opened = Append(f.open, Opening(e.index, e.kind))
      BY <2>1
    <3>2. Len(opened) \in 1 .. Len(opened) /\ opened[Len(opened)] = Opening(e.index, e.kind)
      BY <1>1, <1>2, <3>1
    <3>3. QED
      BY <1>2, <3>2
  <2>2. CASE At(f, e.index) # {}
    BY <1>1, <2>2 DEF At
  <2>3. QED
    BY <2>1, <2>2
<1> HIDE DEF opened
<1>5. PICK at \in here : \A j \in here : at <= j
  <2>1. Len(opened) \in Nat /\ here \in SUBSET (1 .. Len(opened))
    BY <1>3
  <2> HIDE DEF here
  <2>2. QED
    BY <1>4, <2>1, LeastIn
<1>6. first(at)
  BY <1>3, <1>5
<1> DEFINE found == CHOOSE i \in DOMAIN opened :
                       /\ opened[i].index = e.index
                       /\ \A j \in 1 .. i - 1 : opened[j].index # e.index
<1>7. found \in 1 .. Len(opened)
  BY <1>3, <1>6
<1>8. DeltaArrives(f, e) =
        [f EXCEPT !.open = [opened EXCEPT ![found] = Filled(opened[found], e)],
                  !.said = IF e.kind = "text_delta" THEN Append(@, [stream |-> "answer"]) ELSE @]
  BY DEF DeltaArrives, opened
<1> HIDE DEF found
<1>9. QED
  BY <1>3, <1>7, <1>8 DEF opened

LEMMA ClosesOne ==
    ASSUME NEW f \in FoldStates, NEW e \in Payloads, e.type = "content_block_stop",
           At(f, e.index) # {}
    PROVE  \E at \in 1 .. Len(f.open) : \E said \in Seq(Sayings) :
              BlockCloses(f, e) =
                 [f EXCEPT !.open = RemoveAt(f.open, at),
                           !.content = Append(f.content, f.open[at]), !.said = said]
<1> DEFINE at == CHOOSE i \in At(f, e.index) : \A j \in At(f, e.index) : i <= j
           block == f.open[at]
           drafts == block.kind = "tool_use" /\ block.tool = DRAFT_TOOL
           said == IF drafts THEN Append(f.said, [stream |-> "draft", whole |-> Input(block) = "value"])
                             ELSE f.said
<1>1. f.open \in Seq(Blocks) /\ f.said \in Seq(Sayings)
  BY DEF FoldStates
<1>2. At(f, e.index) \in SUBSET (1 .. Len(f.open)) /\ Len(f.open) \in Nat
  BY <1>1 DEF At
<1>3. \E i \in At(f, e.index) : \A j \in At(f, e.index) : i <= j
  BY <1>2, LeastIn
<1>4. at \in 1 .. Len(f.open)
  BY <1>2, <1>3
<1>5. [stream |-> "draft", whole |-> Input(block) = "value"] \in Sayings
  BY DEF Sayings
<1>6. said \in Seq(Sayings)
  BY <1>1, <1>5
<1>7. BlockCloses(f, e) =
        [f EXCEPT !.open = RemoveAt(f.open, at), !.content = Append(f.content, f.open[at]),
                  !.said = said]
  BY DEF BlockCloses
<1> HIDE DEF at, said
<1>8. QED
  BY <1>4, <1>6, <1>7

-----------------------------------------------------------------------------
(* The type of a fold.                                                       *)

LEMMA FoldTyped == Fold \in FoldStates
<1>1. <<>> \in Seq(Blocks) /\ <<>> \in Seq(Sayings)
  OBVIOUS
<1>2. QED
  BY <1>1, SomeTexts DEF Fold, FoldStates

LEMMA EventTyped ==
    ASSUME NEW f \in FoldStates, NEW e \in Payloads
    PROVE  fold_event(f, e) \in FoldStates
<1>1. CASE f.broke
  <2>1. fold_event(f, e) = f
    BY <1>1 DEF fold_event
  <2>2. QED
    BY <2>1
<1>2. CASE ~f.broke /\ e.type = "message_start"
  <2>1. e.input \in Nat
    BY <1>2 DEF Payloads
  <2>2. fold_event(f, e) = [f EXCEPT !.input = e.input]
    BY <1>2 DEF fold_event
  <2>3. QED
    BY <2>1, <2>2 DEF FoldStates
<1>3. CASE ~f.broke /\ e.type = "content_block_start"
  <2>1. e.block \in Blocks
    BY <1>3 DEF Payloads
  <2>2. fold_event(f, e) = [f EXCEPT !.open = Append(f.open, e.block)]
    BY <1>3 DEF fold_event
  <2>3. Append(f.open, e.block) \in Seq(Blocks)
    BY <2>1 DEF FoldStates
  <2>4. QED
    BY <2>2, <2>3 DEF FoldStates
<1>4. CASE ~f.broke /\ e.type = "content_block_delta"
  <2> DEFINE opened == IF At(f, e.index) = {} THEN Append(f.open, Opening(e.index, e.kind))
                                              ELSE f.open
             said == IF e.kind = "text_delta" THEN Append(f.said, [stream |-> "answer"]) ELSE f.said
  <2>1. PICK at \in 1 .. Len(opened) :
           DeltaArrives(f, e) = [f EXCEPT !.open = [opened EXCEPT ![at] = Filled(opened[at], e)],
                                          !.said = said]
    BY <1>4, DeltaFillsOne
  <2>2. opened \in Seq(Blocks)
    BY <1>4, DeltaFillsOne
  <2> HIDE DEF opened
  <2>3. opened[at] \in Blocks
    BY <2>1, <2>2
  <2>4. [opened EXCEPT ![at] = Filled(opened[at], e)] \in Seq(Blocks)
    BY <1>4, <2>1, <2>2, <2>3, FillsABlock, Replaced
  <2>5. said \in Seq(Sayings)
    <3>1. f.said \in Seq(Sayings) /\ [stream |-> "answer"] \in Sayings
      BY DEF FoldStates, Sayings
    <3>2. QED
      BY <3>1
  <2> HIDE DEF said
  <2>6. fold_event(f, e) = DeltaArrives(f, e)
    BY <1>4 DEF fold_event
  <2>7. QED
    BY <2>1, <2>4, <2>5, <2>6 DEF FoldStates
<1>5. CASE ~f.broke /\ e.type = "content_block_stop"
  <2>1. fold_event(f, e) = BlockCloses(f, e)
    BY <1>5 DEF fold_event
  <2>2. CASE At(f, e.index) = {}
    BY <2>1, <2>2 DEF BlockCloses
  <2>3. CASE At(f, e.index) # {}
    <3>1. PICK at \in 1 .. Len(f.open), said \in Seq(Sayings) :
              BlockCloses(f, e) =
                 [f EXCEPT !.open = RemoveAt(f.open, at),
                           !.content = Append(f.content, f.open[at]), !.said = said]
      BY <1>5, <2>3, ClosesOne
    <3>2. f.open \in Seq(Blocks) /\ f.content \in Seq(Blocks)
      BY DEF FoldStates
    <3>3. RemoveAt(f.open, at) \in Seq(Blocks) /\ Append(f.content, f.open[at]) \in Seq(Blocks)
      BY <3>2, TakenOut
    <3> DEFINE opened == RemoveAt(f.open, at)
               closed == Append(f.content, f.open[at])
    <3>4. fold_event(f, e) = [f EXCEPT !.open = opened, !.content = closed, !.said = said]
      BY <2>1, <3>1
    <3>5. opened \in Seq(Blocks) /\ closed \in Seq(Blocks)
      BY <3>3
    <3> HIDE DEF opened, closed
    <3>6. QED
      BY <3>4, <3>5 DEF FoldStates
  <2>4. QED
    BY <2>2, <2>3
<1>6. CASE ~f.broke /\ e.type = "message_delta"
  <2>1. e.reason \in Texts /\ e.output \in Nat
    BY <1>6 DEF Payloads
  <2>2. fold_event(f, e) =
           [f EXCEPT !.stop_reason = IF e.reason = "none" THEN f.stop_reason ELSE e.reason,
                     !.output = IF e.output > 0 THEN e.output ELSE f.output]
    BY <1>6 DEF fold_event
  <2>3. QED
    BY <2>1, <2>2 DEF FoldStates
<1>7. CASE ~f.broke /\ e.type \in {"error", "ping"}
  <2>1. fold_event(f, e) = [f EXCEPT !.broke = TRUE] \/ fold_event(f, e) = f
    BY <1>7 DEF fold_event
  <2>2. QED
    BY <2>1 DEF FoldStates
<1>8. QED
  BY <1>1, <1>2, <1>3, <1>4, <1>5, <1>6, <1>7 DEF Payloads

-----------------------------------------------------------------------------
(* The fold of a whole stream, payload by payload.                           *)

\* h is the fold after each payload of the stream.
StreamBy(h, payloads) ==
    /\ h \in [0 .. Len(payloads) -> FoldStates]
    /\ h[0] = Fold
    /\ \A i \in 1 .. Len(payloads) : h[i] = fold_event(h[i - 1], payloads[i])
    /\ fold_stream(payloads) = h[Len(payloads)]

LEMMA StreamStepwise ==
    ASSUME NEW payloads \in Seq(Payloads)
    PROVE  \E h : StreamBy(h, payloads)
<1> DEFINE step == [i \in 1 .. Len(payloads) |-> [f \in FoldStates |-> fold_event(f, payloads[i])]]
           Is(g) == g = [S \in SUBSET (DOMAIN payloads) |->
                           IF S = {} THEN Fold
                           ELSE fold_event(g[S \ {Max(S)}], payloads[Max(S)])]
           iter == CHOOSE g : Is(g)
<1>1. PICK n \in Nat : n = Len(payloads) /\ DOMAIN payloads = 1 .. n
                          /\ \A i \in 1 .. n : payloads[i] \in Payloads
  OBVIOUS
<1>2. step \in [1 .. n -> [FoldStates -> FoldStates]] /\ Fold \in FoldStates
  BY <1>1, EventTyped, FoldTyped
<1>3. \A i \in 1 .. n, f \in FoldStates : step[i][f] = fold_event(f, payloads[i])
  BY <1>1
<1> HIDE DEF step
<1>4. PICK g : Folds(g, FoldStates, Fold, n, step)
  BY <1>2, FoldExists
<1>5. Is(g)
  <2>1. ASSUME NEW S \in SUBSET (1 .. n), S # {}
        PROVE  g[S] = fold_event(g[S \ {Max(S)}], payloads[Max(S)])
    <3>1. Max(S) \in 1 .. n /\ S \ {Max(S)} \in SUBSET (1 .. n)
      BY <2>1, MaxPart
    <3>2. g[S \ {Max(S)}] \in FoldStates /\ g[S] = step[Max(S)][g[S \ {Max(S)}]]
      BY <1>4, <2>1, <3>1 DEF Folds
    <3>3. QED
      BY <1>3, <3>1, <3>2
  <2>2. g[{}] = Fold /\ g = [S \in SUBSET (1 .. n) |-> g[S]]
    BY <1>4 DEF Folds
  <2>3. QED
    BY <1>1, <2>1, <2>2
<1>6. Is(iter)
  <2> HIDE DEF Is
  <2> QED BY <1>5
<1>7. fold_stream(payloads) = iter[1 .. n]
  BY <1>1 DEF fold_stream, FoldLeft, MapThenFoldSet
<1> HIDE DEF iter
<1>8. Unfolds(iter, FoldStates, Fold, n, step)
  <2>1. ASSUME NEW S \in SUBSET (1 .. n), S # {}, iter[S \ {Max(S)}] \in FoldStates
        PROVE  iter[S] = step[Max(S)][iter[S \ {Max(S)}]]
    <3>1. iter[S] = fold_event(iter[S \ {Max(S)}], payloads[Max(S)])
      BY <1>1, <1>6, <2>1
    <3>2. QED
      BY <1>3, <2>1, <3>1, MaxPart
  <2>2. iter[{}] = Fold
    BY <1>1, <1>6
  <2>3. QED
    BY <2>1, <2>2 DEF Unfolds
<1>9. PICK h : Stepwise(h, FoldStates, Fold, n, step) /\ h[n] = iter[1 .. n]
  BY <1>2, <1>8, FoldStepwise
<1>10. ASSUME NEW i \in 1 .. n PROVE h[i] = fold_event(h[i - 1], payloads[i])
  <2>1. i - 1 \in 0 .. n
    OBVIOUS
  <2>2. h[i - 1] \in FoldStates /\ h[i] = step[i][h[i - 1]]
    BY <1>9, <2>1 DEF Stepwise
  <2>3. QED
    BY <1>3, <2>2
<1>11. StreamBy(h, payloads)
  BY <1>1, <1>7, <1>9, <1>10 DEF Stepwise, StreamBy
<1>12. QED
  BY <1>11

LEMMA StreamTyped ==
    ASSUME NEW payloads \in Seq(Payloads)
    PROVE  fold_stream(payloads) \in FoldStates
<1>1. PICK h : StreamBy(h, payloads)
  BY StreamStepwise
<1>2. Len(payloads) \in 0 .. Len(payloads)
  OBVIOUS
<1>3. QED
  BY <1>1, <1>2 DEF StreamBy

-----------------------------------------------------------------------------
(* What a reply is said to have used.                                        *)

\* Only the start of a message and its delta say what was used.
LEMMA EventUses ==
    ASSUME NEW f \in FoldStates, NEW e \in Payloads
    PROVE  /\ \/ fold_event(f, e).input = f.input
              \/ e.type = "message_start" /\ fold_event(f, e).input = e.input
           /\ \/ fold_event(f, e).output = f.output
              \/ e.type = "message_delta" /\ fold_event(f, e).output = e.output
<1>1. CASE f.broke
  BY <1>1 DEF fold_event
<1>2. CASE ~f.broke /\ e.type = "content_block_delta"
  <2>1. fold_event(f, e) = DeltaArrives(f, e)
    BY <1>2 DEF fold_event
  <2>2. DeltaArrives(f, e).input = f.input /\ DeltaArrives(f, e).output = f.output
    BY DEF DeltaArrives, FoldStates
  <2>3. QED
    BY <2>1, <2>2
<1>3. CASE ~f.broke /\ e.type = "content_block_stop"
  <2>1. fold_event(f, e) = BlockCloses(f, e)
    BY <1>3 DEF fold_event
  <2>2. BlockCloses(f, e).input = f.input /\ BlockCloses(f, e).output = f.output
    BY DEF BlockCloses, FoldStates
  <2>3. QED
    BY <2>1, <2>2
<1>4. CASE ~f.broke /\ e.type \notin {"content_block_delta", "content_block_stop"}
  BY <1>4 DEF fold_event, FoldStates
<1>5. QED
  BY <1>1, <1>2, <1>3, <1>4

\* A reply costs at most what its stream may say it did.
THEOREM StreamPriced ==
    ASSUME NEW payloads \in Seq(Payloads), NEW most \in Nat, NEW out \in Nat,
           \A i \in DOMAIN payloads :
              /\ payloads[i].type = "message_start" => payloads[i].input <= most
              /\ payloads[i].type = "message_delta" => payloads[i].output <= out
    PROVE  tokens(fold_stream(payloads)) \in 0 .. most + out
<1> DEFINE cheap == {f \in FoldStates : f.input <= most /\ f.output <= out}
<1>1. PICK h : StreamBy(h, payloads)
  BY StreamStepwise
<1>2. PICK n \in Nat : n = Len(payloads) /\ DOMAIN payloads = 1 .. n
                          /\ \A i \in 1 .. n : payloads[i] \in Payloads
  OBVIOUS
<1>3. h[0] \in cheap
  <2>1. Fold.input = 0 /\ Fold.output = 0
    BY DEF Fold
  <2>2. h[0] = Fold /\ 0 <= most /\ 0 <= out
    BY <1>1 DEF StreamBy
  <2>3. QED
    BY <2>1, <2>2, FoldTyped
<1>4. ASSUME NEW i \in 1 .. n, h[i - 1] \in cheap PROVE h[i] \in cheap
  <2>1. PICK f \in FoldStates : f = h[i - 1] /\ f.input <= most /\ f.output <= out
    BY <1>4
  <2>2. PICK e \in Payloads : e = payloads[i]
    BY <1>2
  <2>3. h[i] = fold_event(f, e) /\ h[i] \in FoldStates
    BY <1>1, <1>2, <2>1, <2>2, EventTyped DEF StreamBy
  <2>4. /\ e.type = "message_start" => e.input <= most
        /\ e.type = "message_delta" => e.output <= out
    BY <1>2, <2>2
  <2>5. h[i].input <= most /\ h[i].output <= out
    BY <2>1, <2>3, <2>4, EventUses
  <2>6. QED
    BY <2>3, <2>5
<1>5. \A i \in 0 .. n : h[i] \in cheap
  <2> HIDE DEF cheap
  <2> QED BY <1>3, <1>4, StaysIn
<1>6. PICK f \in FoldStates : f = fold_stream(payloads) /\ f.input <= most /\ f.output <= out
  BY <1>1, <1>2, <1>5 DEF StreamBy
<1>7. f.input \in Nat /\ f.output \in Nat
  BY DEF FoldStates
<1>8. QED
  BY <1>6, <1>7 DEF tokens

-----------------------------------------------------------------------------
(* The tools a reply asks for.                                               *)

IsUse(block) == block.kind = "tool_use"

\* No two tool uses of s share an id; none of s shares one with t; they all
\* have theirs from ids.
Distinct(s) ==
    \A i, j \in 1 .. Len(s) : IsUse(s[i]) /\ IsUse(s[j]) /\ s[i].id = s[j].id => i = j
Apart(s, t) ==
    \A i \in 1 .. Len(s), j \in 1 .. Len(t) : IsUse(s[i]) /\ IsUse(t[j]) => s[i].id # t[j].id
From(s, ids) == \A i \in 1 .. Len(s) : IsUse(s[i]) => s[i].id \in ids

\* Each block a fold holds, open or closed, is a use of its own.
NamedOnce(f, ids) ==
    /\ Distinct(f.open) /\ From(f.open, ids)
    /\ Distinct(f.content) /\ From(f.content, ids)
    /\ Apart(f.open, f.content)

\* A block put at the end, and one that was somewhere else.
LEMMA NamesOneMore ==
    ASSUME NEW s \in Seq(Blocks), NEW b \in Blocks, NEW ids, Distinct(s), From(s, ids),
           IsUse(b) => b.id \in ids /\ \A i \in 1 .. Len(s) : IsUse(s[i]) => s[i].id # b.id
    PROVE  Distinct(Append(s, b)) /\ From(Append(s, b), ids)
<1>1. PICK n \in Nat : n = Len(s)
  OBVIOUS
<1> DEFINE more == Append(s, b)
<1>2. Len(more) = n + 1 /\ more[n + 1] = b /\ \A i \in 1 .. n : more[i] = s[i]
  BY <1>1
<1>3. \A i \in 1 .. n + 1 : i = n + 1 \/ i \in 1 .. n
  BY <1>1
<1> HIDE DEF more
<1>4. From(more, ids)
  BY <1>1, <1>2, <1>3 DEF From
<1>5. Distinct(more)
  <2>1. ASSUME NEW i \in 1 .. n + 1, NEW j \in 1 .. n + 1,
               IsUse(more[i]), IsUse(more[j]), more[i].id = more[j].id
        PROVE  i = j
    <3>1. CASE i \in 1 .. n /\ j \in 1 .. n
      BY <1>1, <1>2, <2>1, <3>1 DEF Distinct
    <3>2. CASE i = n + 1 /\ j \in 1 .. n
      BY <1>1, <1>2, <2>1, <3>2
    <3>3. CASE j = n + 1 /\ i \in 1 .. n
      BY <1>1, <1>2, <2>1, <3>3
    <3>4. QED
      BY <1>3, <3>1, <3>2, <3>3
  <2>2. QED
    BY <1>2, <2>1 DEF Distinct
<1>6. QED
  BY <1>4, <1>5 DEF more

LEMMA ApartOneMore ==
    ASSUME NEW s \in Seq(Blocks), NEW t \in Seq(Blocks), NEW b \in Blocks, Apart(s, t)
    PROVE  /\ (IsUse(b) => \A j \in 1 .. Len(t) : IsUse(t[j]) => t[j].id # b.id)
              => Apart(Append(s, b), t)
           /\ (IsUse(b) => \A j \in 1 .. Len(s) : IsUse(s[j]) => s[j].id # b.id)
              => Apart(s, Append(t, b))
<1>1. PICK n \in Nat : n = Len(s) /\ Len(Append(s, b)) = n + 1 /\ Append(s, b)[n + 1] = b
                          /\ \A i \in 1 .. n : Append(s, b)[i] = s[i]
  OBVIOUS
<1>2. PICK m \in Nat : m = Len(t) /\ Len(Append(t, b)) = m + 1 /\ Append(t, b)[m + 1] = b
                          /\ \A i \in 1 .. m : Append(t, b)[i] = t[i]
  OBVIOUS
<1>3. (\A i \in 1 .. n + 1 : i = n + 1 \/ i \in 1 .. n)
        /\ (\A i \in 1 .. m + 1 : i = m + 1 \/ i \in 1 .. m)
  OBVIOUS
<1>4. (IsUse(b) => \A j \in 1 .. Len(t) : IsUse(t[j]) => t[j].id # b.id)
         => Apart(Append(s, b), t)
  BY <1>1, <1>3 DEF Apart
<1>5. (IsUse(b) => \A j \in 1 .. Len(s) : IsUse(s[j]) => s[j].id # b.id)
         => Apart(s, Append(t, b))
  BY <1>2, <1>3 DEF Apart
<1>6. QED
  BY <1>4, <1>5

\* The blocks of t have the kinds and ids of blocks of s, each those of its own.
Renames(at, t, s) ==
    /\ at \in [1 .. Len(t) -> 1 .. Len(s)]
    /\ \A i, j \in 1 .. Len(t) : at[i] = at[j] => i = j
    /\ \A i \in 1 .. Len(t) : t[i].kind = s[at[i]].kind /\ t[i].id = s[at[i]].id

LEMMA NamesOfOthers ==
    ASSUME NEW s, NEW t, NEW u, NEW ids, NEW at, Renames(at, t, s), Distinct(s), From(s, ids)
    PROVE  Distinct(t) /\ From(t, ids) /\ (Apart(s, u) => Apart(t, u))
<1> USE DEF Renames
<1>1. Distinct(t)
  <2>1. ASSUME NEW i \in 1 .. Len(t), NEW j \in 1 .. Len(t),
               IsUse(t[i]), IsUse(t[j]), t[i].id = t[j].id
        PROVE  i = j
    <3>1. at[i] \in 1 .. Len(s) /\ at[j] \in 1 .. Len(s)
      OBVIOUS
    <3>2. IsUse(s[at[i]]) /\ IsUse(s[at[j]]) /\ s[at[i]].id = s[at[j]].id
      BY <2>1 DEF IsUse
    <3>3. at[i] = at[j]
      BY <3>1, <3>2 DEF Distinct
    <3>4. QED
      BY <3>3
  <2>2. QED
    BY <2>1 DEF Distinct
<1>2. From(t, ids)
  BY DEF From, IsUse
<1>3. ASSUME Apart(s, u) PROVE Apart(t, u)
  BY <1>3 DEF Apart, IsUse
<1>4. QED
  BY <1>1, <1>2, <1>3

LEMMA FromMore ==
    ASSUME NEW f, NEW ids, NEW more, NamedOnce(f, ids), ids \subseteq more
    PROVE  NamedOnce(f, more)
BY DEF NamedOnce, From

\* A delta fills a block, and opens it first when nobody did.
LEMMA DeltaNamed ==
    ASSUME NEW f \in FoldStates, NEW e \in Payloads, NEW ids, NamedOnce(f, ids),
           e.type = "content_block_delta"
    PROVE  NamedOnce(DeltaArrives(f, e), ids)
<1> DEFINE opening == Opening(e.index, e.kind)
           opened == IF At(f, e.index) = {} THEN Append(f.open, opening) ELSE f.open
<1>1. f.open \in Seq(Blocks) /\ f.content \in Seq(Blocks)
  BY DEF FoldStates
<1>2. opening \in Blocks /\ ~IsUse(opening)
  <2>1. e.index \in Nat
    BY DEF Payloads
  <2>2. QED
    BY <2>1, OpensABlock DEF IsUse
<1> HIDE DEF opening
<1>3. Distinct(opened) /\ From(opened, ids) /\ Apart(opened, f.content)
  <2>1. Distinct(f.open) /\ From(f.open, ids) /\ Apart(f.open, f.content)
    BY DEF NamedOnce
  <2>2. Distinct(Append(f.open, opening)) /\ From(Append(f.open, opening), ids)
    BY <1>1, <1>2, <2>1, NamesOneMore
  <2>3. Apart(Append(f.open, opening), f.content)
    BY <1>1, <1>2, <2>1, ApartOneMore
  <2>4. QED
    BY <2>1, <2>2, <2>3
<1>4. opened \in Seq(Blocks)
      /\ \E at \in 1 .. Len(opened) :
            /\ DeltaArrives(f, e).open = [opened EXCEPT ![at] = Filled(opened[at], e)]
            /\ DeltaArrives(f, e).content = f.content
  <2>1. opened \in Seq(Blocks)
    BY DeltaFillsOne DEF opening
  <2>2. PICK at \in 1 .. Len(opened) :
           DeltaArrives(f, e) =
              [f EXCEPT !.open = [opened EXCEPT ![at] = Filled(opened[at], e)],
                        !.said = IF e.kind = "text_delta"
                                 THEN Append(f.said, [stream |-> "answer"]) ELSE f.said]
    BY DeltaFillsOne DEF opening
  <2> HIDE DEF opened
  <2>3. QED
    BY <2>1, <2>2 DEF FoldStates
<1> HIDE DEF opened
<1>5. PICK at \in 1 .. Len(opened) :
         /\ DeltaArrives(f, e).open = [opened EXCEPT ![at] = Filled(opened[at], e)]
         /\ DeltaArrives(f, e).content = f.content
  BY <1>4
<1> DEFINE filled == [opened EXCEPT ![at] = Filled(opened[at], e)]
<1>6. /\ filled \in Seq(Blocks) /\ Len(filled) = Len(opened)
      /\ \A i \in 1 .. Len(opened) : filled[i] = IF i = at THEN Filled(opened[at], e) ELSE opened[i]
  <2>1. opened[at] \in Blocks
    BY <1>4
  <2>2. Filled(opened[at], e) \in Blocks
    BY <2>1, FillsABlock
  <2>3. QED
    BY <1>4, <2>2, Replaced
<1> HIDE DEF filled
<1>7. \A i \in 1 .. Len(filled) : filled[i].kind = opened[i].kind /\ filled[i].id = opened[i].id
  <2>1. opened[at] \in Blocks
    BY <1>4
  <2>2. Filled(opened[at], e).kind = opened[at].kind /\ Filled(opened[at], e).id = opened[at].id
    BY <2>1, FillsABlock
  <2>3. QED
    BY <1>6, <2>2
<1>8. Distinct(filled) /\ From(filled, ids) /\ Apart(filled, f.content)
  <2> DEFINE same == [i \in 1 .. Len(filled) |-> i]
  <2>1. same \in [1 .. Len(filled) -> 1 .. Len(opened)]
        /\ \A i, j \in 1 .. Len(filled) : same[i] = same[j] => i = j
    BY <1>6
  <2>2. \A i \in 1 .. Len(filled) : filled[i].kind = opened[same[i]].kind /\ filled[i].id = opened[same[i]].id
    BY <1>7
  <2> HIDE DEF same
  <2>3. Renames(same, filled, opened)
    BY <2>1, <2>2 DEF Renames
  <2>4. QED
    BY <1>3, <2>3, NamesOfOthers
<1>9. QED
  BY <1>5, <1>8 DEF NamedOnce, filled

\* A block that closes is taken from the open ones and put with the closed.
LEMMA CloseNamed ==
    ASSUME NEW f \in FoldStates, NEW e \in Payloads, NEW ids, NamedOnce(f, ids),
           e.type = "content_block_stop"
    PROVE  NamedOnce(BlockCloses(f, e), ids)
<1>1. CASE At(f, e.index) = {}
  BY <1>1 DEF BlockCloses
<1>2. CASE At(f, e.index) # {}
  <2>1. PICK at \in 1 .. Len(f.open), said \in Seq(Sayings) :
              BlockCloses(f, e) =
                 [f EXCEPT !.open = RemoveAt(f.open, at),
                           !.content = Append(f.content, f.open[at]), !.said = said]
    BY <1>2, ClosesOne
  <2> DEFINE rest == RemoveAt(f.open, at)
             block == f.open[at]
             old == [i \in 1 .. Len(rest) |-> IF i < at THEN i ELSE i + 1]
  <2>2. f.open \in Seq(Blocks) /\ f.content \in Seq(Blocks) /\ block \in Blocks
    BY DEF FoldStates
  <2>3. BlockCloses(f, e).open = rest /\ BlockCloses(f, e).content = Append(f.content, block)
    BY <2>1 DEF FoldStates
  <2>4. PICK n \in Nat : n = Len(f.open)
    BY <2>2
  <2>5. rest \in Seq(Blocks) /\ Len(rest) = n - 1
          /\ \A i \in 1 .. n - 1 : rest[i] = IF i < at THEN f.open[i] ELSE f.open[i + 1]
    BY <2>2, <2>4, TakenOut
  <2> HIDE DEF rest
  <2>6. /\ old \in [1 .. Len(rest) -> 1 .. Len(f.open)]
        /\ \A i, j \in 1 .. Len(rest) : old[i] = old[j] => i = j
        /\ \A i \in 1 .. Len(rest) : old[i] # at /\ rest[i] = f.open[old[i]]
    BY <2>4, <2>5
  <2> HIDE DEF old
  <2>7. Distinct(rest) /\ From(rest, ids) /\ Apart(rest, f.content)
    <3>1. Distinct(f.open) /\ From(f.open, ids) /\ Apart(f.open, f.content)
      BY DEF NamedOnce
    <3>2. \A i \in 1 .. Len(rest) : rest[i].kind = f.open[old[i]].kind /\ rest[i].id = f.open[old[i]].id
      BY <2>6
    <3>3. Renames(old, rest, f.open)
      BY <2>6, <3>2 DEF Renames
    <3>4. QED
      BY <3>1, <3>3, NamesOfOthers
  <2>8. IsUse(block) => \A i \in 1 .. Len(rest) : IsUse(rest[i]) => rest[i].id # block.id
    <3>1. ASSUME IsUse(block), NEW i \in 1 .. Len(rest), IsUse(rest[i]) PROVE rest[i].id # block.id
      <4>1. old[i] \in 1 .. Len(f.open) /\ old[i] # at /\ rest[i] = f.open[old[i]]
        BY <2>6
      <4>2. QED
        BY <3>1, <4>1 DEF NamedOnce, Distinct
    <3>2. QED
      BY <3>1
  <2>9. Distinct(Append(f.content, block)) /\ From(Append(f.content, block), ids)
    <3>1. IsUse(block) => /\ block.id \in ids
                          /\ \A i \in 1 .. Len(f.content) : IsUse(f.content[i]) => f.content[i].id # block.id
      BY DEF NamedOnce, From, Apart
    <3>2. Distinct(f.content) /\ From(f.content, ids)
      BY DEF NamedOnce
    <3> HIDE DEF block
    <3>3. QED
      BY <2>2, <3>1, <3>2, NamesOneMore
  <2>10. Apart(rest, Append(f.content, block))
    <3> HIDE DEF block
    <3> QED BY <2>2, <2>5, <2>7, <2>8, ApartOneMore
  <2>11. QED
    BY <2>3, <2>7, <2>9, <2>10 DEF NamedOnce
<1>3. QED
  BY <1>1, <1>2

\* One event names no more than what it asks for.
LEMMA EventNamed ==
    ASSUME NEW f \in FoldStates, NEW e \in Payloads, NEW ids, NamedOnce(f, ids),
           Asks(e) => e.block.id \notin ids
    PROVE  NamedOnce(fold_event(f, e), ids \cup (IF Asks(e) THEN {e.block.id} ELSE {}))
<1> DEFINE more == ids \cup (IF Asks(e) THEN {e.block.id} ELSE {})
<1>1. ids \subseteq more
  OBVIOUS
<1>2. CASE f.broke
  <2>1. fold_event(f, e) = f
    BY <1>2 DEF fold_event
  <2>2. QED
    BY <1>1, <2>1, FromMore
<1>3. CASE ~f.broke /\ e.type = "content_block_start"
  <2>1. fold_event(f, e) = [f EXCEPT !.open = Append(f.open, e.block)]
    BY <1>3 DEF fold_event
  <2>2. e.block \in Blocks /\ f.open \in Seq(Blocks) /\ f.content \in Seq(Blocks)
    BY <1>3 DEF Payloads, FoldStates
  <2>3. fold_event(f, e).open = Append(f.open, e.block) /\ fold_event(f, e).content = f.content
    BY <2>1 DEF FoldStates
  <2>4. NamedOnce(f, more)
    BY <1>1, FromMore
  <2>5. IsUse(e.block) => e.block.id \in more /\ e.block.id \notin ids
    BY <1>3 DEF Asks, IsUse
  <2>6. IsUse(e.block) => /\ \A i \in 1 .. Len(f.open) : IsUse(f.open[i]) => f.open[i].id # e.block.id
                          /\ \A i \in 1 .. Len(f.content) : IsUse(f.content[i]) => f.content[i].id # e.block.id
    BY <2>5 DEF NamedOnce, From
  <2> HIDE DEF more
  <2>7. Distinct(Append(f.open, e.block)) /\ From(Append(f.open, e.block), more)
    <3>1. Distinct(f.open) /\ From(f.open, more)
      BY <2>4 DEF NamedOnce
    <3>2. QED
      BY <2>2, <2>5, <2>6, <3>1, NamesOneMore
  <2>8. Apart(Append(f.open, e.block), f.content)
    <3>1. Apart(f.open, f.content)
      BY DEF NamedOnce
    <3>2. QED
      BY <2>2, <2>6, <3>1, ApartOneMore
  <2>9. NamedOnce(fold_event(f, e), more)
    BY <2>3, <2>4, <2>7, <2>8 DEF NamedOnce
  <2>10. QED
    BY <2>9 DEF more
<1>4. CASE ~f.broke /\ e.type = "content_block_delta"
  <2>1. fold_event(f, e) = DeltaArrives(f, e)
    BY <1>4 DEF fold_event
  <2>2. NamedOnce(fold_event(f, e), ids)
    BY <1>4, <2>1, DeltaNamed
  <2>3. QED
    BY <1>1, <2>2, FromMore
<1>5. CASE ~f.broke /\ e.type = "content_block_stop"
  <2>1. fold_event(f, e) = BlockCloses(f, e)
    BY <1>5 DEF fold_event
  <2>2. NamedOnce(fold_event(f, e), ids)
    BY <1>5, <2>1, CloseNamed
  <2>3. QED
    BY <1>1, <2>2, FromMore
<1>6. CASE ~f.broke /\ e.type \notin {"content_block_start", "content_block_delta", "content_block_stop"}
  <2>1. fold_event(f, e).open = f.open /\ fold_event(f, e).content = f.content
    BY <1>6 DEF fold_event, FoldStates
  <2>2. NamedOnce(fold_event(f, e), ids)
    BY <2>1 DEF NamedOnce
  <2>3. QED
    BY <1>1, <2>2, FromMore
<1>7. QED
  BY <1>2, <1>3, <1>4, <1>5, <1>6

\* The ids a stream asks under.
AskedBy(payloads, n) == {payloads[i].block.id : i \in {i \in 1 .. n : Asks(payloads[i])}}

\* Each tool use of a reply is one its stream asked for, and none is there twice.
LEMMA StreamNamed ==
    ASSUME NEW payloads \in Seq(Payloads),
           \A i, j \in 1 .. Len(payloads) :
              Asks(payloads[i]) /\ Asks(payloads[j]) /\ payloads[i].block.id = payloads[j].block.id
                 => i = j
    PROVE  NamedOnce(fold_stream(payloads), AskedBy(payloads, Len(payloads)))
<1>1. PICK h : StreamBy(h, payloads)
  BY StreamStepwise
<1>2. PICK n \in Nat : n = Len(payloads) /\ \A i \in 1 .. n : payloads[i] \in Payloads
  OBVIOUS
<1> DEFINE good == {m \in 0 .. n : NamedOnce(h[m], AskedBy(payloads, m))}
<1>3. 0 \in good
  <2>1. Fold.open = <<>> /\ Fold.content = <<>> /\ h[0] = Fold
    BY <1>1 DEF Fold, StreamBy
  <2>2. NamedOnce(h[0], AskedBy(payloads, 0))
    BY <2>1 DEF NamedOnce, Distinct, From, Apart
  <2>3. QED
    BY <2>2
<1>4. ASSUME NEW m \in 1 .. n, m - 1 \in good PROVE m \in good
  <2> DEFINE e == payloads[m]
             before == AskedBy(payloads, m - 1)
  <2>1. m - 1 \in 0 .. n /\ m \in 0 .. n /\ e \in Payloads
    BY <1>2
  <2>2. h[m - 1] \in FoldStates /\ h[m] = fold_event(h[m - 1], e)
    BY <1>1, <1>2, <2>1 DEF StreamBy
  <2>3. Asks(e) => e.block.id \notin before
    <3>1. ASSUME Asks(e), NEW i \in 1 .. m - 1, Asks(payloads[i]), payloads[i].block.id = e.block.id
          PROVE  FALSE
      <4>1. i \in 1 .. n /\ i # m
        BY <2>1
      <4>2. QED
        BY <1>2, <3>1, <4>1
    <3>2. QED
      BY <3>1 DEF AskedBy
  <2>4. AskedBy(payloads, m) = before \cup (IF Asks(e) THEN {e.block.id} ELSE {})
    <3>1. \A i : i \in 1 .. m <=> i \in 1 .. m - 1 \/ i = m
      BY <2>1
    <3>2. QED
      BY <3>1 DEF AskedBy
  <2>5. NamedOnce(h[m - 1], before)
    BY <1>4
  <2> HIDE DEF before, e
  <2>6. NamedOnce(h[m], AskedBy(payloads, m))
    BY <2>1, <2>2, <2>3, <2>4, <2>5, EventNamed
  <2>7. QED
    BY <2>1, <2>6
<1>5. n \in good
  <2> HIDE DEF good
  <2>1. 0 .. n \subseteq good
    BY <1>3, <1>4, InductionUpTo
  <2>2. QED
    BY <2>1
<1>6. QED
  BY <1>1, <1>2, <1>5 DEF StreamBy

-----------------------------------------------------------------------------
(* What the loop reads off an outcome.                                       *)

IdsIn(s) == {s[i].id : i \in 1 .. Len(s)}

\* What is kept of some blocks are some of them.
LEMMA KeptBlocks ==
    ASSUME NEW s \in Seq(Blocks), NEW yes
    PROVE  /\ Kept(s, yes) \in Seq(Blocks)
           /\ \A i \in 1 .. Len(Kept(s, yes)) : Kept(s, yes)[i] \in yes
           /\ \E at : Renames(at, Kept(s, yes), s)
           /\ IdsIn(Kept(s, yes)) = {s[i].id : i \in {i \in 1 .. Len(s) : s[i] \in yes}}
<1> DEFINE t == Kept(s, yes)
<1>1. PICK at : Picks(at, t, s, Len(s), yes)
  BY KeptPicks
<1>2. t \in Seq(Blocks)
  BY KeptPicks
<1> HIDE DEF t
<1>3. at \in [1 .. Len(t) -> 1 .. Len(s)] /\ \A i \in 1 .. Len(t) : t[i] = s[at[i]] /\ t[i] \in yes
  BY <1>1 DEF Picks
<1>4. \A i, j \in 1 .. Len(t) : at[i] = at[j] => i = j
  <2>1. ASSUME NEW i \in 1 .. Len(t), NEW j \in 1 .. Len(t), at[i] = at[j], i # j PROVE FALSE
    <3>1. i < j \/ j < i
      BY <1>2, <2>1
    <3>2. at[i] \in Nat /\ at[j] \in Nat /\ (at[i] < at[j] \/ at[j] < at[i])
      BY <1>1, <1>3, <3>1 DEF Picks
    <3>3. QED
      BY <2>1, <3>2
  <2>2. QED
    BY <2>1
<1>5. Renames(at, t, s)
  BY <1>3, <1>4 DEF Renames
<1>6. IdsIn(t) = {s[i].id : i \in {i \in 1 .. Len(s) : s[i] \in yes}}
  <2>1. \A i \in 1 .. Len(s) : s[i] \in yes => \E j \in 1 .. Len(t) : at[j] = i
    BY <1>1 DEF Picks
  <2>2. \A j \in 1 .. Len(t) : at[j] \in {i \in 1 .. Len(s) : s[i] \in yes} /\ t[j].id = s[at[j]].id
    BY <1>3
  <2>3. IdsIn(t) \subseteq {s[i].id : i \in {i \in 1 .. Len(s) : s[i] \in yes}}
    BY ONLY <2>2 DEF IdsIn
  <2>4. {s[i].id : i \in {i \in 1 .. Len(s) : s[i] \in yes}} \subseteq IdsIn(t)
    <3> SUFFICES ASSUME NEW i \in 1 .. Len(s), s[i] \in yes PROVE s[i].id \in IdsIn(t)
      OBVIOUS
    <3>1. PICK j \in 1 .. Len(t) : at[j] = i
      BY <2>1
    <3>2. t[j].id = s[i].id
      BY <2>2, <3>1
    <3>3. QED
      BY ONLY <3>2, j \in 1 .. Len(t) DEF IdsIn
  <2>5. QED
    BY <2>3, <2>4
<1>7. QED
  BY <1>2, <1>3, <1>5, <1>6 DEF t

\* The calls and the offers of a reply are its tool uses between them.
LEMMA OutcomeParts ==
    ASSUME NEW f \in FoldStates
    PROVE  /\ ToolUses(f) \in Seq(Blocks) /\ calls(f) \in Seq(Blocks) /\ Offers(f) \in Seq(Blocks)
           /\ Len(calls(f)) + Len(Offers(f)) = Len(ToolUses(f))
           /\ IdsIn(calls(f)) \cup IdsIn(Offers(f)) = IdsIn(ToolUses(f))
<1> DEFINE uses == ToolUses(f)
           called == {block \in Range(uses) : block.tool # DRAFT_TOOL}
           offered == {block \in Range(uses) : block.tool = DRAFT_TOOL}
<1>1. uses \in Seq(Blocks)
  <2>1. f.content \in Seq(Blocks)
    BY DEF FoldStates
  <2>2. QED
    BY <2>1, KeptBlocks DEF ToolUses
<1>2. calls(f) = Kept(uses, called) /\ Offers(f) = Kept(uses, offered)
  BY DEF calls, Offers
<1> HIDE DEF uses
<1>3. \A i \in 1 .. Len(uses) : uses[i] \in offered <=> uses[i] \notin called
  <2>1. \A i \in 1 .. Len(uses) : uses[i] \in Range(uses)
    BY <1>1 DEF Range
  <2>2. QED
    BY <2>1
<1> HIDE DEF called, offered
<1>4. Len(Kept(uses, called)) + Len(Kept(uses, offered)) = Len(uses)
  BY <1>1, <1>3, KeptParts
<1>5. IdsIn(Kept(uses, called)) \cup IdsIn(Kept(uses, offered)) = IdsIn(uses)
  <2>1. IdsIn(Kept(uses, called)) = {uses[i].id : i \in {i \in 1 .. Len(uses) : uses[i] \in called}}
    BY <1>1, KeptBlocks
  <2>2. IdsIn(Kept(uses, offered)) = {uses[i].id : i \in {i \in 1 .. Len(uses) : uses[i] \in offered}}
    BY <1>1, KeptBlocks
  <2>3. QED
    BY <1>3, <2>1, <2>2 DEF IdsIn
<1>6. Kept(uses, called) \in Seq(Blocks) /\ Kept(uses, offered) \in Seq(Blocks)
  BY <1>1, KeptBlocks
<1>7. QED
  BY <1>1, <1>2, <1>4, <1>5, <1>6 DEF uses

\* No two calls of a reply share an id, and each has one its stream asked under.
THEOREM CallsNamed ==
    ASSUME NEW f \in FoldStates, NEW ids, NamedOnce(f, ids)
    PROVE  /\ \A i, j \in 1 .. Len(calls(f)) : calls(f)[i].id = calls(f)[j].id => i = j
           /\ IdsIn(ToolUses(f)) \subseteq ids
<1> DEFINE uses == ToolUses(f)
           isUse == {block \in Range(f.content) : block.kind = "tool_use"}
           called == {block \in Range(uses) : block.tool # DRAFT_TOOL}
<1>1. f.content \in Seq(Blocks) /\ Distinct(f.content) /\ From(f.content, ids)
  BY DEF FoldStates, NamedOnce
<1>2. uses = Kept(f.content, isUse) /\ calls(f) = Kept(uses, called)
  BY DEF ToolUses, calls
<1>3. \A block \in isUse : IsUse(block)
  BY DEF IsUse
<1> HIDE DEF uses, isUse, called
<1>4. uses \in Seq(Blocks) /\ \A i \in 1 .. Len(uses) : IsUse(uses[i])
  BY <1>1, <1>2, <1>3, KeptBlocks
<1>5. PICK at : Renames(at, uses, f.content)
  BY <1>1, <1>2, KeptBlocks
<1>6. Distinct(uses) /\ From(uses, ids)
  BY <1>1, <1>5, NamesOfOthers
<1> DEFINE made == calls(f)
<1>7. PICK of : Renames(of, made, uses)
  BY <1>2, <1>4, KeptBlocks
<1> HIDE DEF made
<1>8. Distinct(made)
  BY <1>6, <1>7, NamesOfOthers
<1>9. \A i \in 1 .. Len(made) : IsUse(made[i])
  BY <1>4, <1>7 DEF Renames, IsUse
<1>10. \A i, j \in 1 .. Len(made) : made[i].id = made[j].id => i = j
  BY <1>8, <1>9 DEF Distinct
<1>11. IdsIn(uses) \subseteq ids
  BY <1>4, <1>6 DEF IdsIn, From
<1>12. QED
  BY <1>10, <1>11 DEF uses, made

-----------------------------------------------------------------------------
(* The state of a turn.                                                      *)

Waits == {"counting", "asking", "posting"}
Calls == {"calling", "running"}

\* The work is under way from the moment the task reads its channel to the
\* record that ends the turn, and begins with nothing.
Joined ==
    \A t \in TurnIds :
        /\ work[t] = "idle" <=> pc[t] \notin {"begun", "closing"}
        /\ pc[t] = "closing" => work[t] \in Done
        /\ work[t] # "idle" => conf[t] \in Configs[t]
        /\ pc[t] \in {"new", "accepted", "resumed", "read", "asked"} => used[t] = 0
        /\ work[t] \in {"idle", "grounding"} => total[t] = 0 /\ steps[t] = <<>>
        /\ work[t] = "posting" => tries[t] <= MAX_DEGRADATIONS
        /\ work[t] \in Calls => steps[t] # <<>> /\ pending[t] # <<>>
        /\ t \in failed => pc[t] \in {"closing", "ended"}

\* Every tool a round asked for has its one answer.
Answered(round) ==
    /\ Len(round.answers) = Len(round.asked)
    /\ Range(round.answers) = IdsIn(round.asked)

\* The answers of the round in hand, the calls to come and the offers are what
\* it asked for.
Remaining(round, calling) ==
    /\ Len(round.answers) + Len(calling) + Len(round.offers) = Len(round.asked)
    /\ Range(round.answers) \cup IdsIn(calling) \cup IdsIn(round.offers) = IdsIn(round.asked)

RoundsOf(t) ==
    /\ work[t] \in Waits => \A i \in 1 .. Len(steps[t]) : Answered(steps[t][i])
    /\ work[t] \in Calls =>
          /\ \A i \in 1 .. Len(steps[t]) - 1 : Answered(steps[t][i])
          /\ Remaining(steps[t][Len(steps[t])], pending[t])
Rounded == \A t \in TurnIds : RoundsOf(t)

\* What a turn used is what it adds up, until it fails; a body is posted
\* only if the conversation can pay for it.
MeterOf(t) ==
    /\ work[t] \notin {"idle", "refused", "panicked"} => used[t] = total[t]
    /\ work[t] = "posting" /\ Budget > 0 => spent[t] + total[t] + Size(t) <= Budget
    /\ Budget > 0 /\ used[t] > 0 => spent[t] + used[t] <= Budget + MaxOutput
Metered == \A t \in TurnIds : MeterOf(t)

\* The steps of one turn: of its task, of its work up to the reply, and of the
\* reply and the calls it asks for.
TaskOf(t) ==
    Accept(t) \/ Resume(t) \/ ReadPrior(t) \/ AskQuestion(t) \/ Begin(t)
        \/ Receive(t) \/ Close(t) \/ AppendEnd(t)
AskOf(t) == Ground(t) \/ CountTokens(t) \/ Counted(t) \/ Rejected(t) \/ Unanswered(t)
ToolOf(t) == Stream(t) \/ CallTool(t) \/ ToolReturns(t) \/ LateAnswer(t) \/ WorkPanics(t)

\* Nothing is known of no endpoint.
Forgotten == learned.base_url = "none" => learned = Nothing

-----------------------------------------------------------------------------
(* The shape of the state.                                                   *)

\* Putting one more at the end, putting more, and taking the first away.
LEMMA Puts ==
    ASSUME NEW D, NEW s \in Seq(D), NEW d \in D
    PROVE  Append(s, d) \in Seq(D)
OBVIOUS

LEMMA Joins ==
    ASSUME NEW D, NEW s \in Seq(D), NEW r \in Seq(D)
    PROVE  s \o r \in Seq(D)
OBVIOUS

LEMMA Takes1 ==
    ASSUME NEW D, NEW s \in Seq(D), s # <<>>
    PROVE  Head(s) \in D /\ Tail(s) \in Seq(D) /\ Len(Tail(s)) = Len(s) - 1
OBVIOUS

LEMMA MoreLeft ==
    ASSUME NEW D, NEW s \in Seq(D), Len(s) > 1
    PROVE  Tail(s) # <<>>
<1>1. s # <<>> /\ Len(s) \in Nat
  OBVIOUS
<1>2. Len(Tail(s)) = Len(s) - 1
  BY <1>1, HeadTailProperties
<1>3. PICK n \in Nat : n = Len(s) /\ n > 1
  BY <1>1
<1>4. Len(Tail(s)) # 0
  BY ONLY <1>2, <1>3
<1>5. Len(<<>>) = 0
  OBVIOUS
<1>6. QED
  BY ONLY <1>4, <1>5

LEMMA FaultTyped ==
    ASSUME TypeOK, NEW kind, Fault(kind) \/ NoFault
    PROVE  faults' \in 0 .. MaxFaults
BY FaultsAssumption DEF TypeOK, Fault, NoFault

LEMMA AppendTyped ==
    ASSUME TypeOK, NEW t \in TurnIds, NEW record \in AskRecords, AppendAsk(t, record)
    PROVE  /\ records' \in [TurnIds -> Seq(AskRecords)]
           /\ order' \in [Conversations -> Seq(TurnIds)]
           /\ held' \subseteq Conversations
           /\ faults' \in 0 .. MaxFaults
<1>1. Conv(t) \in Conversations
  BY ThreadAssumption DEF Conv
<1>2. records[t] \in Seq(AskRecords) /\ order[Conv(t)] \in Seq(TurnIds)
  BY <1>1 DEF TypeOK
<1>3. Append(records[t], record) \in Seq(AskRecords) /\ Append(order[Conv(t)], t) \in Seq(TurnIds)
  BY <1>2, Puts
<1>4. faults' \in 0 .. MaxFaults
  BY FaultTyped DEF AppendAsk
<1>5. CASE records' = [records EXCEPT ![t] = Append(@, record)]
             /\ order' = [order EXCEPT ![Conv(t)] = IF records[t] = <<>> THEN Append(@, t) ELSE @]
             /\ held' = held \cup {Conv(t)}
  BY <1>1, <1>2, <1>3, <1>4, <1>5 DEF TypeOK
<1>6. CASE UNCHANGED <<records, order, held>>
  BY <1>4, <1>6 DEF TypeOK
<1>7. QED
  BY <1>5, <1>6 DEF AppendAsk

LEMMA SaysTyped ==
    ASSUME TypeOK, NEW t \in TurnIds, NEW replies \in Seq(Replies), Says(t, replies)
    PROVE  channel' \in [TurnIds -> Seq(Replies)]
<1>1. channel[t] \o replies \in Seq(Replies)
  BY Joins DEF TypeOK
<1>2. QED
  BY <1>1 DEF TypeOK, Says

LEMMA ForgetTyped ==
    ASSUME TypeOK, NEW gone, Forget(gone)
    PROVE  /\ spent' \in [TurnIds -> Nat] /\ total' \in [TurnIds -> Nat]
           /\ malformed' \in [TurnIds -> BOOLEAN]
           /\ work' \in [TurnIds -> WorkPhases]
           /\ DOMAIN conf' = TurnIds /\ \A t \in TurnIds : conf'[t] \in Configs[t] \cup {NoConfig}
           /\ reason' \in [TurnIds -> Texts]
           /\ steps' \in [TurnIds -> Seq(Rounds)] /\ \A t \in TurnIds : Len(steps'[t]) <= MaxSteps
           /\ pending' \in [TurnIds -> Seq(Blocks)]
           /\ shape' \in [TurnIds -> Shapes]
           /\ tries' \in [TurnIds -> 0 .. MAX_DEGRADATIONS + 1]
<1>1. <<>> \in Seq(Rounds) /\ <<>> \in Seq(Blocks) /\ Len(<<>>) <= MaxSteps
  BY BudgetsAssumption
<1>2. 0 \in 0 .. MAX_DEGRADATIONS + 1 /\ NoConfig.shape \in Shapes /\ "idle" \in WorkPhases
  BY DEF MAX_DEGRADATIONS, NoConfig, Shapes, WorkPhases
<1>3. spent' \in [TurnIds -> Nat] /\ total' \in [TurnIds -> Nat]
  BY DEF TypeOK, Forget
<1>4. malformed' \in [TurnIds -> BOOLEAN] /\ work' \in [TurnIds -> WorkPhases]
  BY <1>2 DEF TypeOK, Forget
<1>5. DOMAIN conf' = TurnIds /\ \A t \in TurnIds : conf'[t] \in Configs[t] \cup {NoConfig}
  BY DEF TypeOK, Forget
<1>6. reason' \in [TurnIds -> Texts]
  BY SomeTexts DEF TypeOK, Forget
<1>7. steps' \in [TurnIds -> Seq(Rounds)] /\ \A t \in TurnIds : Len(steps'[t]) <= MaxSteps
  BY <1>1 DEF TypeOK, Forget
<1>8. pending' \in [TurnIds -> Seq(Blocks)] /\ shape' \in [TurnIds -> Shapes]
        /\ tries' \in [TurnIds -> 0 .. MAX_DEGRADATIONS + 1]
  BY <1>1, <1>2 DEF TypeOK, Forget
<1>9. QED
  BY <1>3, <1>4, <1>5, <1>6, <1>7, <1>8

\* What a record of the surface or the channel may be.
LEMMA RecordsTyped ==
    /\ Replies \subseteq AskRecords
    /\ [stream |-> "question"] \in AskRecords
    /\ \A clean \in BOOLEAN : [stream |-> "end", clean |-> clean] \in AskRecords
    /\ [stream |-> "citation"] \in Replies
    /\ \A of \in {"config", "estimate", "strict", "cache_control", "steps"} : Note(of) \in Replies
    /\ \A id \in Texts : [stream |-> "tool_call", id |-> id] \in Replies
    /\ \A id \in Texts, ok \in BOOLEAN :
          [stream |-> "tool_result", id |-> id, ok |-> ok] \in Replies
    /\ Sayings \subseteq Replies
<1>1. Replies \subseteq AskRecords
  BY DEF AskRecords
<1>2. [stream |-> "question"] \in AskRecords
  BY DEF AskRecords
<1>3. \A clean \in BOOLEAN : [stream |-> "end", clean |-> clean] \in AskRecords
  BY DEF AskRecords
<1>4. [stream |-> "citation"] \in Replies
  BY DEF Replies
<1>5. \A of \in {"config", "estimate", "strict", "cache_control", "steps"} : Note(of) \in Replies
  BY DEF Replies, Note
<1>6. \A id \in Texts : [stream |-> "tool_call", id |-> id] \in Replies
  BY DEF Replies
<1>7. \A id \in Texts, ok \in BOOLEAN :
          [stream |-> "tool_result", id |-> id, ok |-> ok] \in Replies
  BY DEF Replies
<1>8. Sayings \subseteq Replies
  BY DEF Replies, Sayings
<1>9. QED
  BY <1>1, <1>2, <1>3, <1>4, <1>5, <1>6, <1>7, <1>8

\* What an endpoint's reply comes to.
LEMMA ReplyTyped ==
    ASSUME TypeOK, NEW t \in TurnIds, NEW payloads \in Transcripts(Size(t))
    PROVE  /\ payloads \in Seq(Payloads)
           /\ Size(t) \in 1 .. MaxSteps + 1
           /\ fold_stream(payloads) \in FoldStates
           /\ tokens(fold_stream(payloads)) \in 0 .. Size(t) + MaxOutput
<1>1. Len(steps[t]) \in 0 .. MaxSteps
  BY DEF TypeOK
<1>2. Size(t) \in 1 .. MaxSteps + 1 /\ Size(t) \in Nat
  BY <1>1, BudgetsAssumption DEF Size
<1> DEFINE size == Size(t)
<1>3. size \in 1 .. MaxSteps + 1 /\ size \in Nat /\ payloads \in Transcripts(size)
  BY <1>2
<1> HIDE DEF size
<1>4. payloads \in Seq(Payloads)
        /\ \A i \in DOMAIN payloads :
              /\ payloads[i].type = "message_start" => payloads[i].input <= size
              /\ payloads[i].type = "message_delta" => payloads[i].output <= MaxOutput
  BY <1>3, TranscriptsAssumption
<1>5. MaxOutput \in Nat
  BY BudgetsAssumption
<1>6. tokens(fold_stream(payloads)) \in 0 .. size + MaxOutput
  BY <1>3, <1>4, <1>5, StreamPriced
<1>7. QED
  BY <1>2, <1>4, <1>6, StreamTyped DEF size

LEMMA TypedTaskStep ==
    ASSUME TypeOK, Joined, NEW t \in TurnIds, TaskOf(t)
    PROVE  TypeOK'
<1> USE DEF TaskOf, taskVars, workVars, logVars, history
<1>0. Conv(t) \in Conversations
  BY ThreadAssumption DEF Conv
<1>1. CASE Accept(t)
  BY <1>1 DEF TypeOK, Accept, Goes, Phases
<1>2. CASE Resume(t)
  <2>1. faults' \in 0 .. MaxFaults
    BY <1>2, FaultTyped DEF Resume
  <2>2. QED
    BY <1>0, <1>2, <2>1 DEF TypeOK, Resume, Goes, Phases
<1>3. CASE ReadPrior(t)
  BY <1>3 DEF TypeOK, ReadPrior, Goes, Phases
<1>4. CASE AskQuestion(t)
  <2>1. AppendAsk(t, [stream |-> "question"])
    BY <1>4 DEF AskQuestion
  <2>2. /\ records' \in [TurnIds -> Seq(AskRecords)] /\ order' \in [Conversations -> Seq(TurnIds)]
        /\ held' \subseteq Conversations /\ faults' \in 0 .. MaxFaults
    BY <2>1, AppendTyped, RecordsTyped
  <2>3. QED
    BY <1>4, <2>2 DEF TypeOK, AskQuestion, Goes, Phases
<1>5. CASE Begin(t)
  <2>1. PICK c \in Configs[t] :
          /\ conf' = [conf EXCEPT ![t] = c]
          /\ IF c.noted THEN AppendAsk(t, Note("config")) ELSE UNCHANGED <<records, order, held, faults>>
    BY <1>5 DEF Begin
  <2>2. /\ records' \in [TurnIds -> Seq(AskRecords)] /\ order' \in [Conversations -> Seq(TurnIds)]
        /\ held' \subseteq Conversations /\ faults' \in 0 .. MaxFaults
    <3>1. CASE AppendAsk(t, Note("config"))
      <4>1. Note("config") \in AskRecords
        BY RecordsTyped
      <4>2. QED
        BY <3>1, <4>1, AppendTyped
    <3>2. CASE UNCHANGED <<records, order, held, faults>>
      BY <3>2 DEF TypeOK
    <3>3. QED
      BY <2>1, <3>1, <3>2
  <2>3. DOMAIN conf' = TurnIds /\ \A u \in TurnIds : conf'[u] \in Configs[u] \cup {NoConfig}
    BY <2>1 DEF TypeOK
  <2>4. spent' \in [TurnIds -> Nat] /\ pc' \in [TurnIds -> Phases] /\ work' \in [TurnIds -> WorkPhases]
    BY <1>0, <1>5 DEF TypeOK, Begin, Goes, Phases, WorkPhases
  <2>5. QED
    BY <1>5, <2>2, <2>3, <2>4 DEF TypeOK, Begin
<1>6. CASE Receive(t)
  <2>1. Head(channel[t]) \in Replies /\ Tail(channel[t]) \in Seq(Replies)
    <3>1. channel[t] \in Seq(Replies) /\ channel[t] # <<>>
      BY <1>6 DEF TypeOK, Receive
    <3>2. QED
      BY <3>1, Takes1
  <2>2. channel' \in [TurnIds -> Seq(Replies)]
    BY <1>6, <2>1 DEF TypeOK, Receive
  <2>3. \/ malformed' = [malformed EXCEPT ![t] = TRUE] /\ UNCHANGED <<records, order, held, faults>>
        \/ AppendAsk(t, Head(channel[t])) /\ UNCHANGED malformed
    BY <1>6 DEF Receive
  <2>4. /\ records' \in [TurnIds -> Seq(AskRecords)] /\ order' \in [Conversations -> Seq(TurnIds)]
        /\ held' \subseteq Conversations /\ faults' \in 0 .. MaxFaults
        /\ malformed' \in [TurnIds -> BOOLEAN]
    <3>1. CASE AppendAsk(t, Head(channel[t])) /\ UNCHANGED malformed
      <4>1. Head(channel[t]) \in AskRecords
        BY <2>1, RecordsTyped
      <4>2. malformed' \in [TurnIds -> BOOLEAN]
        BY <3>1 DEF TypeOK
      <4>3. QED
        BY <3>1, <4>1, <4>2, AppendTyped
    <3>2. CASE malformed' = [malformed EXCEPT ![t] = TRUE] /\ UNCHANGED <<records, order, held, faults>>
      BY <3>2 DEF TypeOK
    <3>3. QED
      BY <2>3, <3>1, <3>2
  <2>5. QED
    BY <1>6, <2>2, <2>4 DEF TypeOK, Receive
<1>7. CASE Close(t)
  <2>1. ledger' \in [Conversations -> Nat]
    BY <1>0, <1>7 DEF TypeOK, Close
  <2>2. used' \in [TurnIds -> Nat]
    BY <1>7 DEF TypeOK, Close, Notes
  <2>3. failed' \subseteq TurnIds /\ UNCHANGED rejections
    BY <1>7 DEF TypeOK, Close, Notes
  <2>4. QED
    BY <1>7, <2>1, <2>2, <2>3 DEF TypeOK, Close, Goes, Phases
<1>8. CASE AppendEnd(t)
  <2>1. AppendAsk(t, [stream |-> "end", clean |-> Clean(t)]) /\ Clean(t) \in BOOLEAN
    BY <1>8 DEF AppendEnd, Clean, complete
  <2>2. /\ records' \in [TurnIds -> Seq(AskRecords)] /\ order' \in [Conversations -> Seq(TurnIds)]
        /\ held' \subseteq Conversations /\ faults' \in 0 .. MaxFaults
    <3>1. [stream |-> "end", clean |-> Clean(t)] \in AskRecords
      BY <2>1, RecordsTyped
    <3>2. QED
      BY <2>1, <3>1, AppendTyped
  <2>3. Forget({t})
    BY <1>8 DEF AppendEnd
  <2>4. QED
    BY <1>8, <2>2, <2>3, ForgetTyped DEF TypeOK, AppendEnd, Goes, Phases
<1>9. QED
  BY <1>1, <1>2, <1>3, <1>4, <1>5, <1>6, <1>7, <1>8

\* What is learnt, and a shape made of it.
LEMMA LearntTyped ==
    ASSUME TypeOK, NEW t \in TurnIds
    PROVE  /\ conf[t].base_url \in Urls \cup {"none"} /\ conf[t].count_tokens \in BOOLEAN
           /\ conf[t].shape \in Shapes
           /\ Learned(conf[t].base_url) \in Learnt
           /\ Learned(conf[t].base_url).base_url = conf[t].base_url
           /\ starting_shape(conf[t]) \in Shapes
<1>1. conf[t] \in [base_url : Urls \cup {"none"}, count_tokens : BOOLEAN, shape : Shapes, noted : BOOLEAN]
  <2> DEFINE all == [base_url : Urls, count_tokens : BOOLEAN, shape : Shapes, noted : BOOLEAN]
  <2>1. Configs[t] \in SUBSET all
    BY ConfigsAssumption
  <2>2. NoConfig \in [base_url : Urls \cup {"none"}, count_tokens : BOOLEAN, shape : Shapes, noted : BOOLEAN]
    BY DEF NoConfig, Shapes
  <2>3. CASE conf[t] \in Configs[t]
    <3>1. conf[t] \in all
      BY <2>1, <2>3
    <3>2. QED
      BY <3>1
  <2>4. QED
    BY <2>2, <2>3 DEF TypeOK
<1>2. Learned(conf[t].base_url) \in Learnt /\ Learned(conf[t].base_url).base_url = conf[t].base_url
  BY <1>1 DEF TypeOK, Learned, Learnt, Nothing
<1>3. starting_shape(conf[t]) \in Shapes
  BY <1>1, <1>2 DEF starting_shape, Learnt, Shapes
<1>4. QED
  BY <1>1, <1>2, <1>3

LEMMA WeighTyped ==
    ASSUME TypeOK, NEW t \in TurnIds, NEW counted, NEW notes \in Seq(Replies), Weigh(t, counted, notes)
    PROVE  /\ work' \in [TurnIds -> WorkPhases]
           /\ channel' \in [TurnIds -> Seq(Replies)]
           /\ tries' \in [TurnIds -> 0 .. MAX_DEGRADATIONS + 1]
           /\ shape' \in [TurnIds -> Shapes]
<1>1. starting_shape(conf[t]) \in Shapes
  BY LearntTyped
<1>2. channel' \in [TurnIds -> Seq(Replies)]
  BY SaysTyped DEF Weigh
<1>3. 0 \in 0 .. MAX_DEGRADATIONS + 1
  BY DEF MAX_DEGRADATIONS
<1>4. QED
  BY <1>1, <1>2, <1>3 DEF TypeOK, Weigh, WorkGoes, WorkPhases

LEMMA OneNote ==
    /\ <<>> \in Seq(Replies)
    /\ \A of \in {"config", "estimate", "strict", "cache_control", "steps"} : <<Note(of)>> \in Seq(Replies)
    /\ <<[stream |-> "citation"]>> \in Seq(Replies)
    /\ \A id \in Texts : <<[stream |-> "tool_call", id |-> id]>> \in Seq(Replies)
    /\ \A id \in Texts, ok \in BOOLEAN :
          <<[stream |-> "tool_result", id |-> id, ok |-> ok]>> \in Seq(Replies)
<1>1. \A reply \in Replies : <<reply>> \in Seq(Replies)
  OBVIOUS
<1>2. QED
  BY <1>1, RecordsTyped

\* The endpoint of a turn that is under way is one there is.
LEMMA Endpoint ==
    ASSUME Joined, NEW t \in TurnIds, work[t] # "idle"
    PROVE  conf[t].base_url \in Urls /\ Accepts[conf[t].base_url].names \subseteq Named
<1>1. conf[t] \in Configs[t]
  BY DEF Joined
<1>2. Configs[t] \in SUBSET [base_url : Urls, count_tokens : BOOLEAN, shape : Shapes, noted : BOOLEAN]
  BY ConfigsAssumption
<1>3. conf[t].base_url \in Urls
  BY <1>1, <1>2
<1>4. QED
  BY <1>3, AcceptsAssumption

LEMMA RejectionsTyped ==
    ASSUME NEW was \in [asked : SUBSET Urls, counted : SUBSET Urls], NEW url \in Urls
    PROVE  /\ [was EXCEPT !.asked = @ \cup {url}] \in [asked : SUBSET Urls, counted : SUBSET Urls]
           /\ [was EXCEPT !.counted = @ \cup {url}] \in [asked : SUBSET Urls, counted : SUBSET Urls]
OBVIOUS

LEMMA TypedAskStep ==
    ASSUME TypeOK, Joined, NEW t \in TurnIds, AskOf(t)
    PROVE  TypeOK'
<1> USE DEF AskOf, taskVars, workVars, logVars, history
<1> DEFINE url == conf[t].base_url
<1>0. /\ url \in Urls \cup {"none"} /\ conf[t].count_tokens \in BOOLEAN
      /\ Learned(url) \in Learnt
  BY LearntTyped
<1>1. CASE Ground(t)
  <2>1. faults' \in 0 .. MaxFaults
    BY <1>1, FaultTyped DEF Ground
  <2>2. channel' \in [TurnIds -> Seq(Replies)]
    <3>1. Says(t, <<[stream |-> "citation"]>>) \/ UNCHANGED channel
      BY <1>1 DEF Ground
    <3>2. QED
      BY <3>1, OneNote, SaysTyped DEF TypeOK
  <2>3. work' \in [TurnIds -> WorkPhases]
    BY <1>1 DEF TypeOK, Ground, WorkGoes, WorkPhases
  <2>4. QED
    BY <1>1, <2>1, <2>2, <2>3 DEF TypeOK, Ground
<1>2. CASE CountTokens(t)
  <2>1. learned' \in Learnt
    BY <1>0, <1>2 DEF TypeOK, CountTokens
  <2>2. \/ Weigh(t, Estimate(t), <<Note("estimate")>>) /\ NoFault
        \/ WorkGoes(t, "asking") /\ UNCHANGED <<channel, shape, tries, faults>>
    BY <1>2 DEF CountTokens
  <2>3. /\ work' \in [TurnIds -> WorkPhases] /\ channel' \in [TurnIds -> Seq(Replies)]
        /\ faults' \in 0 .. MaxFaults /\ tries' \in [TurnIds -> 0 .. MAX_DEGRADATIONS + 1]
        /\ shape' \in [TurnIds -> Shapes]
    <3>1. CASE Weigh(t, Estimate(t), <<Note("estimate")>>) /\ NoFault
      BY <3>1, OneNote, WeighTyped, FaultTyped
    <3>2. CASE WorkGoes(t, "asking") /\ UNCHANGED <<channel, shape, tries, faults>>
      BY <3>2 DEF TypeOK, WorkGoes, WorkPhases
    <3>3. QED
      BY <2>2, <3>1, <3>2
  <2>4. QED
    BY <1>2, <2>1, <2>3 DEF TypeOK, CountTokens
<1>3. CASE Counted(t)
  <2>1. learned' \in Learnt
    <3>1. learned' \in {[Learned(url) EXCEPT !.no_count_tokens = TRUE], Learned(url), learned}
      BY <1>3 DEF Counted
    <3>2. QED
      BY <1>0, <3>1 DEF TypeOK, Learnt
  <2>0. faults' \in 0 .. MaxFaults
    <3>1. NoFault \/ Fault("status") \/ Fault("transport")
      BY <1>3 DEF Counted
    <3>2. QED
      BY <3>1, FaultTyped
  <2>2. \/ Weigh(t, Estimate(t), <<Note("estimate")>>)
        \/ Weigh(t, Size(t), <<>>)
        \/ WorkGoes(t, "refused") /\ UNCHANGED <<channel, shape, tries>>
    BY <1>3 DEF Counted
  <2>3. /\ work' \in [TurnIds -> WorkPhases] /\ channel' \in [TurnIds -> Seq(Replies)]
        /\ tries' \in [TurnIds -> 0 .. MAX_DEGRADATIONS + 1]
        /\ shape' \in [TurnIds -> Shapes]
    <3>1. CASE Weigh(t, Estimate(t), <<Note("estimate")>>)
      BY <3>1, OneNote, WeighTyped
    <3>2. CASE Weigh(t, Size(t), <<>>)
      BY <3>2, OneNote, WeighTyped
    <3>3. CASE WorkGoes(t, "refused") /\ UNCHANGED <<channel, shape, tries>>
      BY <3>3 DEF TypeOK, WorkGoes, WorkPhases
    <3>4. QED
      BY <2>2, <3>1, <3>2, <3>3
  <2>4. rejections' \in [asked : SUBSET Urls, counted : SUBSET Urls]
    <3>1. UNCHANGED rejections \/ rejections' = [rejections EXCEPT !.counted = @ \cup {url}]
      BY <1>3 DEF Counted
    <3>2. url \in Urls
      BY <1>3, Endpoint DEF Counted
    <3>3. QED
      BY <3>1, <3>2, RejectionsTyped DEF TypeOK
  <2>5. QED
    BY <1>3, <2>0, <2>1, <2>3, <2>4 DEF TypeOK, Counted
<1>4. CASE Rejected(t)
  <2>1. PICK named \in Named :
           LET field == Blamed(shape[t], named)
               smaller == Without(shape[t], field)
           IN IF field = "nothing"
              THEN /\ WorkGoes(t, "refused")
                   /\ UNCHANGED <<channel, shape, tries, learned>>
              ELSE /\ WorkGoes(t, IF tries[t] = MAX_DEGRADATIONS THEN "refused" ELSE "posting")
                   /\ learned' = Remember(url, smaller)
                   /\ Says(t, <<Note(field)>>)
                   /\ shape' = [shape EXCEPT ![t] = smaller]
                   /\ tries' = [tries EXCEPT ![t] = @ + 1]
    <3>1. url \in Urls /\ Accepts[url].names \subseteq Named
      BY <1>4, Endpoint DEF Rejected
    <3>2. QED
      BY <1>4, <3>1 DEF Rejected
  <2>9. faults' \in 0 .. MaxFaults
    <3>1. NoFault \/ Fault("status")
      BY <1>4 DEF Rejected
    <3>2. QED
      BY <3>1, FaultTyped
  <2>10. rejections' \in [asked : SUBSET Urls, counted : SUBSET Urls]
    <3>1. rejections' = [rejections EXCEPT !.asked = @ \cup {url}]
      BY <1>4 DEF Rejected
    <3>2. url \in Urls
      BY <1>4, Endpoint DEF Rejected
    <3>3. QED
      BY <3>1, <3>2, RejectionsTyped DEF TypeOK
  <2> DEFINE field == Blamed(shape[t], named)
             smaller == Without(shape[t], field)
  <2>2. field \in {"strict", "cache_control", "nothing"}
    BY DEF Blamed
  <2>3. smaller \in Shapes
    BY DEF TypeOK, Without, Shapes
  <2>4. work' \in [TurnIds -> WorkPhases]
    BY <2>1 DEF TypeOK, WorkGoes, WorkPhases
  <2>5. tries[t] \in 0 .. MAX_DEGRADATIONS
    BY <1>4 DEF TypeOK, Joined, Rejected, MAX_DEGRADATIONS
  <2>6. CASE field = "nothing"
    BY <1>4, <2>1, <2>4, <2>6, <2>9, <2>10 DEF TypeOK, Rejected
  <2>7. CASE field # "nothing"
    <3>1. channel' \in [TurnIds -> Seq(Replies)]
      <4>1. Says(t, <<Note(field)>>) /\ <<Note(field)>> \in Seq(Replies)
        BY <2>1, <2>2, <2>7, OneNote
      <4>2. QED
        BY <4>1, SaysTyped
    <3>2. learned' \in Learnt
      <4>1. learned' = Remember(url, smaller)
        BY <2>1, <2>7
      <4>2. QED
        BY <1>0, <2>3, <4>1 DEF Remember, Learnt, Shapes
    <3>3. shape' \in [TurnIds -> Shapes]
      <4>1. shape' = [shape EXCEPT ![t] = smaller]
        BY <2>1, <2>7
      <4> HIDE DEF smaller
      <4>2. QED
        BY <2>3, <4>1 DEF TypeOK
    <3>4. tries' \in [TurnIds -> 0 .. MAX_DEGRADATIONS + 1]
      <4>1. tries' = [tries EXCEPT ![t] = @ + 1]
        BY <2>1, <2>7
      <4>2. QED
        BY <2>5, <4>1 DEF TypeOK, MAX_DEGRADATIONS
    <3>5. QED
      BY <1>4, <2>4, <2>9, <2>10, <3>1, <3>2, <3>3, <3>4 DEF TypeOK, Rejected
  <2>8. QED
    BY <2>6, <2>7
<1>5. CASE Unanswered(t)
  <2>1. faults' \in 0 .. MaxFaults
    BY <1>5, FaultTyped DEF Unanswered
  <2>2. QED
    BY <1>5, <2>1 DEF TypeOK, Unanswered, WorkGoes, WorkPhases
<1>6. QED
  BY <1>1, <1>2, <1>3, <1>4, <1>5

LEMMA TypedReplyStep ==
    ASSUME TypeOK, Joined, NEW t \in TurnIds, Stream(t)
    PROVE  TypeOK'
<1> USE DEF taskVars, workVars, logVars, history
<1>1. PICK payloads \in Transcripts(Size(t)) :
        LET f == fold_stream(payloads)
            stops == Stopped(t, f)
            last == AtItsLast(t)
        IN /\ used' = [used EXCEPT ![t] = @ + tokens(f)]
           /\ Says(t, f.said \o
                      (IF ~f.broke /\ ~stops /\ last THEN <<Note("steps")>> ELSE <<>>))
           /\ IF f.broke
              THEN /\ WorkGoes(t, "refused")
                   /\ UNCHANGED <<total, reason, pending, steps>>
              ELSE /\ total' = [total EXCEPT ![t] = @ + tokens(f)]
                   /\ reason' = [reason EXCEPT ![t] = f.stop_reason]
                   /\ IF stops \/ last
                      THEN WorkGoes(t, "ok") /\ UNCHANGED <<pending, steps>>
                      ELSE /\ WorkGoes(t, "calling")
                           /\ pending' = [pending EXCEPT ![t] = calls(f)]
                           /\ steps' = [steps EXCEPT ![t] = Append(@,
                                 [asked |-> ToolUses(f), answers |-> <<>>, offers |-> Offers(f)])]
  BY DEF Stream
<1> DEFINE f == fold_stream(payloads)
           note == IF ~f.broke /\ ~Stopped(t, f) /\ AtItsLast(t) THEN <<Note("steps")>> ELSE <<>>
           round == [asked |-> ToolUses(f), answers |-> <<>>, offers |-> Offers(f)]
<1>2. f \in FoldStates /\ tokens(f) \in Nat
  <2>1. Size(t) \in Nat /\ MaxOutput \in Nat
    BY ReplyTyped, BudgetsAssumption
  <2>2. QED
    BY <2>1, ReplyTyped
<1>3. /\ used' = [used EXCEPT ![t] = @ + tokens(f)]
      /\ Says(t, f.said \o note)
      /\ \/ WorkGoes(t, "refused") /\ UNCHANGED <<total, reason, pending, steps>>
         \/ /\ total' = [total EXCEPT ![t] = @ + tokens(f)]
            /\ reason' = [reason EXCEPT ![t] = f.stop_reason]
            /\ \/ WorkGoes(t, "ok") /\ UNCHANGED <<pending, steps>>
               \/ /\ WorkGoes(t, "calling") /\ ~AtItsLast(t)
                  /\ pending' = [pending EXCEPT ![t] = calls(f)]
                  /\ steps' = [steps EXCEPT ![t] = Append(@, round)]
  BY <1>1
<1> HIDE DEF f
<1>4. channel' \in [TurnIds -> Seq(Replies)]
  <2>1. f.said \in Seq(Replies)
    <3>1. f.said \in Seq(Sayings) /\ Sayings \subseteq Replies
      BY <1>2, RecordsTyped DEF FoldStates
    <3>2. QED
      BY <3>1
  <2>2. note \in Seq(Replies)
    BY OneNote
  <2> HIDE DEF note
  <2>3. f.said \o note \in Seq(Replies)
    BY <2>1, <2>2, Joins
  <2>4. QED
    BY <1>3, <2>3, SaysTyped
<1>5. used' \in [TurnIds -> Nat] /\ total' \in [TurnIds -> Nat]
  <2> DEFINE cost == tokens(f)
  <2>1. /\ used' = [used EXCEPT ![t] = @ + cost]
        /\ total' = [total EXCEPT ![t] = @ + cost] \/ UNCHANGED total
    BY <1>3
  <2>2. cost \in Nat
    BY <1>2
  <2> HIDE DEF cost
  <2>3. used \in [TurnIds -> Nat] /\ total \in [TurnIds -> Nat]
    BY DEF TypeOK
  <2>4. used[t] + cost \in Nat /\ total[t] + cost \in Nat
    BY ONLY <2>2, <2>3, t \in TurnIds
  <2>5. used' \in [TurnIds -> Nat]
    BY ONLY <2>1, <2>3, <2>4
  <2>6. total' \in [TurnIds -> Nat]
    BY ONLY <2>1, <2>3, <2>4
  <2>7. QED
    BY <2>5, <2>6
<1>6. work' \in [TurnIds -> WorkPhases]
  BY <1>3 DEF TypeOK, WorkGoes, WorkPhases
<1>7. reason' \in [TurnIds -> Texts]
  <2>1. f.stop_reason \in Texts
    BY <1>2 DEF FoldStates
  <2>2. QED
    BY <1>3, <2>1 DEF TypeOK
<1>8. pending' \in [TurnIds -> Seq(Blocks)]
  <2>1. pending' = [pending EXCEPT ![t] = calls(f)] \/ UNCHANGED pending
    BY <1>3
  <2>2. calls(f) \in Seq(Blocks)
    BY <1>2, OutcomeParts
  <2>3. QED
    BY <2>1, <2>2 DEF TypeOK
<1>9. steps' \in [TurnIds -> Seq(Rounds)] /\ \A u \in TurnIds : Len(steps'[u]) <= MaxSteps
  <2>1. CASE UNCHANGED steps
    BY <2>1 DEF TypeOK
  <2>2. CASE ~AtItsLast(t) /\ steps' = [steps EXCEPT ![t] = Append(@, round)]
    <3>1. round \in Rounds
      <4>1. ToolUses(f) \in Seq(Blocks) /\ Offers(f) \in Seq(Blocks) /\ <<>> \in Seq(Texts)
        BY <1>2, OutcomeParts
      <4>2. QED
        BY <4>1 DEF Rounds
    <3> HIDE DEF round
    <3>2. steps[t] \in Seq(Rounds) /\ Len(steps[t]) <= MaxSteps /\ Len(steps[t]) # MaxSteps
      BY <2>2 DEF TypeOK, AtItsLast
    <3>3. Append(steps[t], round) \in Seq(Rounds) /\ Len(Append(steps[t], round)) = Len(steps[t]) + 1
            /\ Len(steps[t]) \in Nat
      BY <3>1, <3>2
    <3>4. MaxSteps \in Nat
      BY BudgetsAssumption
    <3>5. Len(Append(steps[t], round)) <= MaxSteps
      BY <3>2, <3>3, <3>4
    <3>6. QED
      BY <2>2, <3>3, <3>5 DEF TypeOK
  <2>3. QED
    BY <1>3, <2>1, <2>2
<1>10. QED
  BY <1>4, <1>5, <1>6, <1>7, <1>8, <1>9 DEF TypeOK, Stream

\* What a call that returns does to the round in hand.
LEMMA AnsweringTyped ==
    ASSUME NEW round \in Rounds, NEW id \in Texts, NEW more \in BOOLEAN
    PROVE  /\ Answering(round, id, more) \in Seq(Texts)
           /\ Len(Answering(round, id, more)) =
                 Len(round.answers) + 1 + (IF more THEN 0 ELSE Len(round.offers))
           /\ Range(Answering(round, id, more)) =
                 Range(round.answers) \cup {id} \cup (IF more THEN {} ELSE IdsIn(round.offers))
<1> DEFINE first == Append(round.answers, id)
           second == IF more THEN <<>> ELSE [i \in DOMAIN round.offers |-> round.offers[i].id]
<1>1. round.answers \in Seq(Texts) /\ round.offers \in Seq(Blocks)
  BY DEF Rounds
<1>2. first \in Seq(Texts) /\ Len(first) = Len(round.answers) + 1
        /\ Range(first) = Range(round.answers) \cup {id}
  <2>1. PICK n \in Nat : n = Len(round.answers) /\ DOMAIN round.answers = 1 .. n
    BY <1>1
  <2>2. /\ Len(first) = n + 1 /\ DOMAIN first = 1 .. n + 1 /\ first[n + 1] = id
        /\ \A i \in 1 .. n : first[i] = round.answers[i]
    BY <1>1, <2>1
  <2>3. first \in Seq(Texts)
    BY <1>1, Puts
  <2> HIDE DEF first
  <2>4. (\A i \in 1 .. n + 1 : i = n + 1 \/ i \in 1 .. n) /\ n + 1 \in 1 .. n + 1
          /\ \A i \in 1 .. n : i \in 1 .. n + 1
    BY <2>1
  <2>5. Range(first) = Range(round.answers) \cup {id}
    BY <2>1, <2>2, <2>4 DEF Range
  <2>6. QED
    BY <2>1, <2>2, <2>3, <2>5
<1>3. second \in Seq(Texts) /\ Len(second) = (IF more THEN 0 ELSE Len(round.offers))
        /\ Range(second) = (IF more THEN {} ELSE IdsIn(round.offers))
  <2>1. CASE more
    BY <2>1 DEF Range
  <2>2. CASE ~more
    <3> DEFINE offered == [i \in 1 .. Len(round.offers) |-> round.offers[i].id]
    <3>0. second = offered
      BY <1>1, <2>2
    <3>1. \A i \in 1 .. Len(round.offers) : round.offers[i].id \in Texts
      <4>1. \A i \in 1 .. Len(round.offers) : round.offers[i] \in Blocks
        BY <1>1
      <4>2. QED
        BY <4>1 DEF Blocks
    <3>2. offered \in Seq(Texts) /\ Len(offered) = Len(round.offers)
      BY <1>1, <3>1
    <3>3. Range(offered) = IdsIn(round.offers)
      BY <1>1 DEF Range, IdsIn
    <3> HIDE DEF second, offered
    <3>4. QED
      BY <2>2, <3>0, <3>2, <3>3
  <2>3. QED
    BY <2>1, <2>2
<1>4. Answering(round, id, more) = first \o second
  BY DEF Answering
<1> HIDE DEF first, second
<1>5. first \o second \in Seq(Texts) /\ Len(first \o second) = Len(first) + Len(second)
  BY <1>2, <1>3, ConcatProperties
<1>6. Range(first \o second) = Range(first) \cup Range(second)
  BY <1>2, <1>3, RangeConcatenation
<1>7. QED
  BY <1>2, <1>3, <1>4, <1>5, <1>6

\* One call answered: what it says, and what is left.
LEMMA ReturnsOne ==
    ASSUME TypeOK, Joined, NEW t \in TurnIds, ToolReturns(t)
    PROVE  LET calling == pending[t]
               more == Len(calling) > 1
               n == Len(steps[t])
           IN  /\ Head(calling).id \in Texts /\ Len(calling) > 0
               /\ n \in 1 .. MaxSteps /\ steps[t][n] \in Rounds
               /\ steps' = [steps EXCEPT ![t] =
                              [steps[t] EXCEPT ![n] =
                                 [steps[t][n] EXCEPT !.answers =
                                    Answering(steps[t][n], Head(calling).id, more)]]]
               /\ pending' = [pending EXCEPT ![t] = Tail(calling)]
               /\ WorkGoes(t, IF more THEN "calling" ELSE "counting")
               /\ \E ok \in BOOLEAN :
                     /\ Says(t, <<[stream |-> "tool_result", id |-> Head(calling).id, ok |-> ok]>>)
                     /\ Fault("tool") \/ NoFault
<1>1. work[t] = "running" /\ pending[t] # <<>> /\ steps[t] # <<>>
  BY DEF ToolReturns, Joined, Calls
<1>2. pending[t] \in Seq(Blocks) /\ steps[t] \in Seq(Rounds) /\ Len(steps[t]) <= MaxSteps
  BY DEF TypeOK
<1>3. Head(pending[t]) \in Blocks /\ Len(pending[t]) > 0
  BY <1>1, <1>2
<1>4. Head(pending[t]).id \in Texts
  BY <1>3 DEF Blocks
<1>5. Len(steps[t]) \in 1 .. MaxSteps /\ steps[t][Len(steps[t])] \in Rounds
  BY <1>1, <1>2, BudgetsAssumption
<1>6. QED
  BY <1>3, <1>4, <1>5 DEF ToolReturns

LEMMA TypedToolStep ==
    ASSUME TypeOK, Joined, NEW t \in TurnIds,
           CallTool(t) \/ ToolReturns(t) \/ LateAnswer(t) \/ WorkPanics(t)
    PROVE  TypeOK'
<1> USE DEF taskVars, workVars, logVars, history
<1>1. CASE CallTool(t)
  <2>1. Head(pending[t]).id \in Texts
    <3>1. pending[t] \in Seq(Blocks) /\ pending[t] # <<>>
      BY <1>1 DEF TypeOK, Joined, Calls, CallTool
    <3>2. Head(pending[t]) \in Blocks
      BY <3>1
    <3>3. QED
      BY <3>2 DEF Blocks
  <2>2. channel' \in [TurnIds -> Seq(Replies)]
    <3>1. Says(t, <<[stream |-> "tool_call", id |-> Head(pending[t]).id]>>)
      BY <1>1 DEF CallTool
    <3>2. QED
      BY <2>1, <3>1, OneNote, SaysTyped
  <2>3. QED
    BY <1>1, <2>2 DEF TypeOK, CallTool, WorkGoes, WorkPhases
<1>2. CASE ToolReturns(t)
  <2> DEFINE calling == pending[t]
             more == Len(calling) > 1
             n == Len(steps[t])
             round == [steps[t][n] EXCEPT !.answers = Answering(steps[t][n], Head(calling).id, more)]
  <2>1. /\ Head(calling).id \in Texts /\ Len(calling) > 0
        /\ n \in 1 .. MaxSteps /\ steps[t][n] \in Rounds
        /\ steps' = [steps EXCEPT ![t] = [steps[t] EXCEPT ![n] = round]]
        /\ pending' = [pending EXCEPT ![t] = Tail(calling)]
        /\ WorkGoes(t, IF more THEN "calling" ELSE "counting")
        /\ \E ok \in BOOLEAN :
              /\ Says(t, <<[stream |-> "tool_result", id |-> Head(calling).id, ok |-> ok]>>)
              /\ Fault("tool") \/ NoFault
    BY <1>2, ReturnsOne
  <2>2. channel' \in [TurnIds -> Seq(Replies)] /\ faults' \in 0 .. MaxFaults
    BY <2>1, OneNote, SaysTyped, FaultTyped
  <2>3. round \in Rounds
    <3>1. Answering(steps[t][n], Head(calling).id, more) \in Seq(Texts)
      <4>1. more \in BOOLEAN
        BY <2>1
      <4> HIDE DEF more, calling, n
      <4>2. QED
        BY <2>1, <4>1, AnsweringTyped
    <3>2. QED
      BY <2>1, <3>1 DEF Rounds
  <2>4. steps' \in [TurnIds -> Seq(Rounds)] /\ \A u \in TurnIds : Len(steps'[u]) <= MaxSteps
    <3> HIDE DEF round
    <3>1. steps[t] \in Seq(Rounds) /\ n \in 1 .. Len(steps[t]) /\ Len(steps[t]) <= MaxSteps
      BY <2>1 DEF TypeOK
    <3>2. [steps[t] EXCEPT ![n] = round] \in Seq(Rounds)
            /\ Len([steps[t] EXCEPT ![n] = round]) = Len(steps[t])
      BY <2>3, <3>1, Replaced
    <3>3. QED
      BY <2>1, <3>1, <3>2 DEF TypeOK
  <2>5. pending' \in [TurnIds -> Seq(Blocks)]
    <3>1. Tail(calling) \in Seq(Blocks)
      BY <2>1 DEF TypeOK
    <3>2. QED
      BY <2>1, <3>1 DEF TypeOK
  <2>6. work' \in [TurnIds -> WorkPhases]
    BY <2>1 DEF TypeOK, WorkGoes, WorkPhases
  <2>7. QED
    BY <1>2, <2>2, <2>4, <2>5, <2>6 DEF TypeOK, ToolReturns
<1>3. CASE LateAnswer(t)
  BY <1>3 DEF TypeOK, LateAnswer
<1>4. CASE WorkPanics(t)
  <2>1. faults' \in 0 .. MaxFaults
    BY <1>4, FaultTyped DEF WorkPanics
  <2>2. QED
    BY <1>4, <2>1 DEF TypeOK, WorkPanics, WorkGoes, WorkPhases
<1>5. QED
  BY <1>1, <1>2, <1>3, <1>4

LEMMA TypedRestart ==
    ASSUME TypeOK, Restart
    PROVE  TypeOK'
<1>1. faults' \in 0 .. MaxFaults
  BY FaultTyped DEF Restart
<1>2. Forget(TurnIds)
  BY DEF Restart
<1>3. /\ pc' \in [TurnIds -> Phases] /\ channel' \in [TurnIds -> Seq(Replies)]
      /\ records' \in [TurnIds -> Seq(AskRecords)] /\ order' \in [Conversations -> Seq(TurnIds)]
      /\ held' \subseteq Conversations /\ resumed' \subseteq Conversations
      /\ ledger' \in [Conversations -> Nat] /\ used' \in [TurnIds -> Nat]
  <2>1. <<>> \in Seq(Replies)
    OBVIOUS
  <2>2. QED
    BY <2>1 DEF TypeOK, Restart, Phases
<1>4. /\ learned' \in Learnt /\ failed' \subseteq TurnIds
      /\ rejections' \in [asked : SUBSET Urls, counted : SUBSET Urls]
  BY DEF Restart, Learnt, Nothing
<1>5. QED
  BY <1>1, <1>2, <1>3, <1>4, ForgetTyped DEF TypeOK

-----------------------------------------------------------------------------
(* How the task and its work keep together.                                  *)

LEMMA JoinedTaskStep ==
    ASSUME TypeOK, Joined, NEW t \in TurnIds, TaskOf(t)
    PROVE  Joined'
<1> USE DEF TaskOf, taskVars, workVars, history, Joined, Goes, Done, Calls
<1>1. CASE Accept(t) \/ Resume(t) \/ ReadPrior(t) \/ AskQuestion(t)
  <2>1. UNCHANGED <<workVars, used, failed>>
    BY <1>1 DEF Accept, Resume, ReadPrior, AskQuestion
  <2>2. \E from, to \in {"new", "accepted", "resumed", "read", "asked"} : Goes(t, from, to)
    BY <1>1 DEF Accept, Resume, ReadPrior, AskQuestion
  <2>3. pc \in [TurnIds -> Phases]
    BY DEF TypeOK
  <2>4. QED
    BY ONLY Joined, <2>1, <2>2, <2>3 DEF Joined, Goes, workVars, Done, Calls
<1>2. CASE Begin(t)
  BY <1>2 DEF TypeOK, Begin
<1>3. CASE Receive(t)
  BY <1>3 DEF Receive
<1>4. CASE Close(t)
  BY <1>4 DEF TypeOK, Close, Notes
<1>5. CASE AppendEnd(t)
  <2>1. /\ Goes(t, "closing", "ended") /\ UNCHANGED <<used, failed>>
        /\ work' = [u \in TurnIds |-> IF u \in {t} THEN "idle" ELSE work[u]]
        /\ conf' = [u \in TurnIds |-> IF u \in {t} THEN NoConfig ELSE conf[u]]
        /\ total' = [u \in TurnIds |-> IF u \in {t} THEN 0 ELSE total[u]]
        /\ steps' = [u \in TurnIds |-> IF u \in {t} THEN <<>> ELSE steps[u]]
        /\ pending' = [u \in TurnIds |-> IF u \in {t} THEN <<>> ELSE pending[u]]
        /\ tries' = [u \in TurnIds |-> IF u \in {t} THEN 0 ELSE tries[u]]
    BY <1>5 DEF AppendEnd, Forget
  <2>2. pc \in [TurnIds -> Phases]
    BY DEF TypeOK
  <2>3. QED
    BY ONLY Joined, <2>1, <2>2 DEF Joined, Goes, Done, Calls
<1>6. QED
  BY <1>1, <1>2, <1>3, <1>4, <1>5

LEMMA WeighMoves ==
    ASSUME NEW t \in TurnIds, NEW counted, NEW notes, Weigh(t, counted, notes)
    PROVE  \/ WorkGoes(t, "refused") /\ tries' = [tries EXCEPT ![t] = 0]
           \/ WorkGoes(t, "posting") /\ tries' = [tries EXCEPT ![t] = 0] /\ Fits(t, counted)
BY DEF Weigh

LEMMA JoinedAskStep ==
    ASSUME TypeOK, Joined, NEW t \in TurnIds, AskOf(t)
    PROVE  Joined'
<1> USE DEF AskOf
<1>1. work[t] \in {"grounding", "counting", "asking", "posting"}
  BY DEF Ground, CountTokens, Counted, Rejected, Unanswered
<1>2. UNCHANGED <<pc, conf, total, steps, pending, used, failed>>
  BY DEF Ground, CountTokens, Counted, Rejected, Unanswered, taskVars, history
<1>3. \/ WorkGoes(t, "counting") /\ UNCHANGED tries
      \/ WorkGoes(t, "asking") /\ UNCHANGED tries
      \/ WorkGoes(t, "refused")
      \/ WorkGoes(t, "posting") /\ tries' = [tries EXCEPT ![t] = 0]
      \/ /\ WorkGoes(t, "posting") /\ tries' = [tries EXCEPT ![t] = @ + 1]
         /\ work[t] = "posting" /\ tries[t] # MAX_DEGRADATIONS
  <2>1. CASE Ground(t)
    BY <2>1 DEF Ground
  <2>2. CASE CountTokens(t)
    BY <2>2, WeighMoves DEF CountTokens
  <2>3. CASE Counted(t)
    BY <2>3, WeighMoves DEF Counted
  <2>4. CASE Rejected(t)
    BY <2>4 DEF Rejected
  <2>5. CASE Unanswered(t)
    BY <2>5 DEF Unanswered
  <2>6. QED
    BY <2>1, <2>2, <2>3, <2>4, <2>5
<1>9. \A u \in TurnIds : u # t => tries'[u] = tries[u]
  <2>1. DOMAIN tries = TurnIds
    BY DEF TypeOK
  <2>2. \A x : tries' = [tries EXCEPT ![t] = x] => \A u \in TurnIds : u # t => tries'[u] = tries[u]
    BY <2>1
  <2>3. UNCHANGED tries \/ \E x : tries' = [tries EXCEPT ![t] = x]
    BY DEF Ground, CountTokens, Counted, Rejected, Unanswered, Weigh
  <2>4. QED
    BY <2>2, <2>3
<1>4. tries[t] \in 0 .. MAX_DEGRADATIONS + 1 /\ (work[t] = "posting" => tries[t] <= MAX_DEGRADATIONS)
        /\ MAX_DEGRADATIONS = 2 /\ DOMAIN tries = TurnIds /\ DOMAIN work = TurnIds
  BY DEF TypeOK, Joined, MAX_DEGRADATIONS
<1>5. \A u \in TurnIds : work'[u] = "posting" => tries'[u] <= MAX_DEGRADATIONS
  <2>1. \A u \in TurnIds : work[u] = "posting" => tries[u] <= MAX_DEGRADATIONS
    BY DEF Joined
  <2>2. ASSUME NEW u \in TurnIds, work'[u] = "posting" PROVE tries'[u] <= MAX_DEGRADATIONS
    <3>1. CASE u = t
      BY <1>3, <1>4, <2>2, <3>1 DEF WorkGoes
    <3>2. CASE u # t
      <4>1. work'[u] = work[u]
        <5>1. \E to \in {"counting", "asking", "refused", "posting"} : WorkGoes(t, to)
          BY <1>3
        <5>2. QED
          BY <1>4, <3>2, <5>1 DEF WorkGoes
      <4>2. CASE UNCHANGED tries
        BY <2>1, <2>2, <4>1, <4>2
      <4>3. CASE tries' = [tries EXCEPT ![t] = 0] \/ tries' = [tries EXCEPT ![t] = @ + 1]
        BY <1>4, <2>1, <2>2, <3>2, <4>1, <4>3
      <4>4. CASE WorkGoes(t, "refused")
        BY <1>9, <2>1, <2>2, <3>2, <4>1
      <4>5. QED
        BY <1>3, <4>2, <4>3, <4>4
    <3>3. QED
      BY <3>1, <3>2
  <2>3. QED
    BY <2>2
<1>6. \A u \in TurnIds :
         \/ u # t /\ work'[u] = work[u]
         \/ u = t /\ work'[u] \in {"counting", "asking", "refused", "posting"}
  <2>1. \E to \in {"counting", "asking", "refused", "posting"} : WorkGoes(t, to)
    BY <1>3
  <2>2. QED
    BY <1>4, <2>1 DEF WorkGoes
<1>7. pc[t] = "begun"
  BY <1>1 DEF Joined, Done
<1>8. QED
  BY <1>1, <1>2, <1>5, <1>6, <1>7 DEF Joined, Calls, Done

LEMMA JoinedToolStep ==
    ASSUME TypeOK, Joined, NEW t \in TurnIds, ToolOf(t)
    PROVE  Joined'
<1> USE DEF ToolOf, taskVars, workVars, history
<1>1. CASE Stream(t)
  <2>1. work[t] = "posting" /\ UNCHANGED <<pc, conf, tries, failed>>
    BY <1>1 DEF Stream
  <2>2. PICK payloads \in Transcripts(Size(t)) :
          LET f == fold_stream(payloads)
          IN \/ WorkGoes(t, "refused") /\ UNCHANGED <<pending, steps>>
             \/ WorkGoes(t, "ok") /\ UNCHANGED <<pending, steps>>
             \/ /\ WorkGoes(t, "calling") /\ calls(f) # <<>>
                /\ pending' = [pending EXCEPT ![t] = calls(f)]
                /\ \E round : steps' = [steps EXCEPT ![t] = Append(@, round)]
    BY <1>1 DEF Stream, Stopped
  <2>3. \E cost, more : /\ used' = [used EXCEPT ![t] = cost]
                        /\ total' = [total EXCEPT ![t] = more] \/ UNCHANGED total
    BY <1>1 DEF Stream
  <2>4. pc[t] = "begun" /\ conf[t] \in Configs[t]
    BY <2>1 DEF Joined, Done
  <2>5. \A round : Append(steps[t], round) # <<>>
    <3>1. ASSUME NEW round PROVE Append(steps[t], round) # <<>>
      <4>1. steps[t] \in Seq(Rounds \cup {round})
        <5>1. steps[t] \in Seq(Rounds)
          BY DEF TypeOK
        <5>2. QED
          BY <5>1
      <4>2. QED
        BY <4>1
    <3>2. QED
      BY <3>1
  <2>6. \A u \in TurnIds : u # t =>
          /\ work'[u] = work[u] /\ used'[u] = used[u] /\ total'[u] = total[u]
          /\ steps'[u] = steps[u] /\ pending'[u] = pending[u]
    BY <2>2, <2>3 DEF TypeOK, WorkGoes
  <2>7. work'[t] \in {"refused", "ok"} \/ (work'[t] = "calling" /\ steps'[t] # <<>> /\ pending'[t] # <<>>)
    BY <2>2, <2>5 DEF TypeOK, WorkGoes
  <2>8. QED
    BY <2>1, <2>4, <2>6, <2>7 DEF Joined, Calls, Done
<1>2. CASE CallTool(t)
  BY <1>2 DEF TypeOK, Joined, CallTool, WorkGoes, Calls, Done
<1>3. CASE ToolReturns(t)
  <2>1. LET calling == pending[t]
            more == Len(calling) > 1
            n == Len(steps[t])
        IN /\ n \in 1 .. MaxSteps
           /\ \E round : steps' = [steps EXCEPT ![t] = [steps[t] EXCEPT ![n] = round]]
           /\ pending' = [pending EXCEPT ![t] = Tail(calling)]
           /\ WorkGoes(t, IF more THEN "calling" ELSE "counting")
    BY <1>3, ReturnsOne
  <2>2. work[t] = "running" /\ UNCHANGED <<pc, conf, total, tries, used, failed>>
    BY <1>3 DEF ToolReturns
  <2>3. pc[t] = "begun" /\ conf[t] \in Configs[t] /\ pending[t] \in Seq(Blocks)
    BY <2>2 DEF TypeOK, Joined, Done
  <2>4. \A u \in TurnIds : u # t =>
          work'[u] = work[u] /\ steps'[u] = steps[u] /\ pending'[u] = pending[u]
    BY <2>1 DEF TypeOK, WorkGoes
  <2>5. steps'[t] # <<>>
    <3>1. steps[t] \in Seq(Rounds) /\ Len(steps[t]) \in 1 .. MaxSteps
      BY <2>1 DEF TypeOK
    <3>2. \A round : DOMAIN [steps[t] EXCEPT ![Len(steps[t])] = round] = 1 .. Len(steps[t])
      BY <3>1
    <3>3. DOMAIN steps'[t] = 1 .. Len(steps[t])
      BY <2>1, <3>2 DEF TypeOK
    <3>4. 1 \in DOMAIN steps'[t]
      BY <3>1, <3>3
    <3>5. QED
      BY <3>4
  <2>6. work'[t] = "counting" \/ (work'[t] = "calling" /\ pending'[t] # <<>>)
    <3>1. CASE Len(pending[t]) > 1
      <4>1. Tail(pending[t]) # <<>>
        BY <2>3, <3>1, MoreLeft
      <4>2. QED
        BY <2>1, <3>1, <4>1 DEF TypeOK, WorkGoes
    <3>2. CASE ~(Len(pending[t]) > 1)
      BY <2>1, <3>2 DEF TypeOK, WorkGoes
    <3>3. QED
      BY <3>1, <3>2
  <2>7. QED
    BY <2>2, <2>3, <2>4, <2>5, <2>6 DEF Joined, Calls, Done
<1>4. CASE LateAnswer(t)
  BY <1>4 DEF Joined, LateAnswer
<1>5. CASE WorkPanics(t)
  BY <1>5 DEF TypeOK, Joined, WorkPanics, WorkGoes, Calls, Done
<1>6. QED
  BY <1>1, <1>2, <1>3, <1>4, <1>5

LEMMA JoinedRestart ==
    ASSUME TypeOK, Joined, Restart
    PROVE  Joined'
BY DEF TypeOK, Joined, Restart, Forget, Alive, Calls, Done, Phases

LEMMA EachStep ==
    [Next]_vars => \/ Restart
                   \/ UNCHANGED vars
                   \/ \E t \in TurnIds : TaskOf(t) \/ AskOf(t) \/ ToolOf(t)
BY DEF Next, TaskOf, AskOf, ToolOf

LEMMA AlwaysJoined == Spec => [](TypeOK /\ Joined)
<1>1. Init => TypeOK /\ Joined
  <2> SUFFICES ASSUME Init PROVE TypeOK /\ Joined
    OBVIOUS
  <2>1. <<>> \in Seq(Rounds) /\ <<>> \in Seq(Blocks) /\ <<>> \in Seq(Replies)
          /\ <<>> \in Seq(AskRecords) /\ <<>> \in Seq(TurnIds) /\ Len(<<>>) = 0
    OBVIOUS
  <2>2. /\ "" \in Texts /\ NoConfig.shape \in Shapes /\ Nothing \in Learnt
        /\ 0 \in 0 .. MAX_DEGRADATIONS + 1 /\ 0 \in 0 .. MaxFaults /\ 0 <= MaxSteps
    <3>1. 0 \in 0 .. MAX_DEGRADATIONS + 1 /\ 0 \in 0 .. MaxFaults /\ 0 <= MaxSteps
      BY FaultsAssumption, BudgetsAssumption DEF MAX_DEGRADATIONS
    <3>2. NoConfig.shape \in Shapes /\ Nothing \in Learnt
      BY DEF NoConfig, Shapes, Nothing, Learnt
    <3>3. QED
      BY <3>1, <3>2, SomeTexts
  <2>3. TypeOK
    BY <2>1, <2>2 DEF Init, TypeOK, Phases, WorkPhases
  <2>4. Joined
    BY DEF Init, Joined, Calls, Done
  <2>5. QED
    BY <2>3, <2>4
<1>2. TypeOK /\ Joined /\ [Next]_vars => TypeOK' /\ Joined'
  <2> SUFFICES ASSUME TypeOK, Joined, [Next]_vars PROVE TypeOK' /\ Joined'
    OBVIOUS
  <2>1. CASE Restart
    BY <2>1, TypedRestart, JoinedRestart
  <2>2. CASE UNCHANGED vars
    <3>1. TypeOK'
      BY <2>2 DEF vars, taskVars, workVars, logVars, history, TypeOK
    <3>2. Joined'
      BY <2>2 DEF vars, taskVars, workVars, logVars, history, Joined
    <3>3. QED
      BY <3>1, <3>2
  <2>3. ASSUME NEW t \in TurnIds, TaskOf(t) PROVE TypeOK' /\ Joined'
    BY <2>3, TypedTaskStep, JoinedTaskStep
  <2>4. ASSUME NEW t \in TurnIds, AskOf(t) PROVE TypeOK' /\ Joined'
    BY <2>4, TypedAskStep, JoinedAskStep
  <2>5. ASSUME NEW t \in TurnIds, ToolOf(t) PROVE TypeOK' /\ Joined'
    BY <2>5, TypedReplyStep, TypedToolStep, JoinedToolStep DEF ToolOf
  <2>6. QED
    BY <2>1, <2>2, <2>3, <2>4, <2>5, EachStep
<1>3. QED
  BY <1>1, <1>2, PTL DEF Spec

\* The shape of the state, whatever an endpoint streams and whichever faults
\* there are.
THEOREM ConsultTyped == Spec => []TypeOK
BY AlwaysJoined, PTL

-----------------------------------------------------------------------------
(* What is learnt of an endpoint.                                            *)

\* No step unlearns, and what is learnt is learnt of an answer just given.
LEMMA Learns ==
    ASSUME TypeOK, Joined, NEW t \in TurnIds,
           CountTokens(t) \/ Counted(t) \/ Rejected(t)
    PROVE  LET url == conf[t].base_url
           IN  /\ url \in Urls
               /\ \/ UNCHANGED <<learned, rejections>>
                  \/ learned' = Learned(url) /\ UNCHANGED rejections
                  \/ /\ learned' = [Learned(url) EXCEPT !.no_count_tokens = TRUE]
                     /\ rejections' = [rejections EXCEPT !.counted = @ \cup {url}]
                  \/ /\ learned' = learned \/ \E s \in Shapes : learned' = Remember(url, s)
                     /\ rejections' = [rejections EXCEPT !.asked = @ \cup {url}]
<1> DEFINE url == conf[t].base_url
<1>1. url \in Urls
  BY Endpoint DEF CountTokens, Counted, Rejected
<1>2. CASE CountTokens(t)
  BY <1>1, <1>2 DEF CountTokens, history
<1>3. CASE Counted(t)
  BY <1>1, <1>3 DEF Counted
<1>4. CASE Rejected(t)
  <2>1. \A field : Without(shape[t], field) \in Shapes
    BY DEF TypeOK, Without, Shapes
  <2>2. /\ learned' = learned \/ \E field : learned' = Remember(url, Without(shape[t], field))
        /\ rejections' = [rejections EXCEPT !.asked = @ \cup {url}]
    BY <1>4 DEF Rejected
  <2>3. QED
    BY <1>1, <2>1, <2>2
<1>5. QED
  BY <1>2, <1>3, <1>4

\* The steps that leave what is learnt alone, and the one that drops it.
LEMMA LearnsOrNot ==
    ASSUME TypeOK, Joined, [Next]_vars
    PROVE  \/ UNCHANGED <<learned, rejections>>
           \/ learned' = Nothing
           \/ \E t \in TurnIds : CountTokens(t) \/ Counted(t) \/ Rejected(t)
<1> USE DEF history
<1>1. CASE Restart
  BY <1>1 DEF Restart
<1>2. CASE UNCHANGED vars
  BY <1>2 DEF vars
<1>3. ASSUME NEW t \in TurnIds, TaskOf(t) PROVE UNCHANGED <<learned, rejections>>
  BY <1>3 DEF TaskOf, Accept, Resume, ReadPrior, AskQuestion, Begin, Receive, Close, Notes, AppendEnd
<1>4. ASSUME NEW t \in TurnIds, ToolOf(t) PROVE UNCHANGED <<learned, rejections>>
  BY <1>4 DEF ToolOf, Stream, CallTool, ToolReturns, LateAnswer, WorkPanics
<1>5. ASSUME NEW t \in TurnIds, AskOf(t)
      PROVE  UNCHANGED <<learned, rejections>> \/ CountTokens(t) \/ Counted(t) \/ Rejected(t)
  BY <1>5 DEF AskOf, Ground, Unanswered
<1>6. QED
  BY <1>1, <1>2, <1>3, <1>4, <1>5, EachStep

LEMMA LearntStep ==
    ASSUME TypeOK, Joined, Forgotten, LearntOfItsEndpoint, [Next]_vars
    PROVE  /\ Forgotten' /\ LearntOfItsEndpoint'
           /\ learned'.base_url = learned.base_url =>
                /\ learned.no_strict => learned'.no_strict
                /\ learned.no_cache_control => learned'.no_cache_control
                /\ learned.no_count_tokens => learned'.no_count_tokens
<1> USE DEF Forgotten, LearntOfItsEndpoint, Nothing
<1>1. CASE UNCHANGED <<learned, rejections>>
  BY <1>1
<1>2. CASE learned' = Nothing
  BY <1>2
<1>3. ASSUME NEW t \in TurnIds, CountTokens(t) \/ Counted(t) \/ Rejected(t)
      PROVE  /\ Forgotten' /\ LearntOfItsEndpoint'
             /\ learned'.base_url = learned.base_url =>
                  /\ learned.no_strict => learned'.no_strict
                  /\ learned.no_cache_control => learned'.no_cache_control
                  /\ learned.no_count_tokens => learned'.no_count_tokens
  <2>1. PICK url \in Urls :
           \/ UNCHANGED <<learned, rejections>>
           \/ learned' = Learned(url) /\ UNCHANGED rejections
           \/ /\ learned' = [Learned(url) EXCEPT !.no_count_tokens = TRUE]
              /\ rejections' = [rejections EXCEPT !.counted = @ \cup {url}]
           \/ /\ learned' = learned \/ \E s \in Shapes : learned' = Remember(url, s)
              /\ rejections' = [rejections EXCEPT !.asked = @ \cup {url}]
    BY <1>3, Learns
  <2>2. url # "none"
    BY UrlsAssumption
  <2> DEFINE was == Learned(url)
  <2>3. /\ was \in Learnt /\ was.base_url = url
        /\ was.no_strict \/ was.no_cache_control => url \in rejections.asked
        /\ was.no_count_tokens => url \in rejections.counted
        /\ learned.base_url = url => was = learned
    BY <2>1, <2>2 DEF TypeOK, Learned, Learnt
  <2>0. rejections \in [asked : SUBSET Urls, counted : SUBSET Urls]
    BY DEF TypeOK
  <2> HIDE DEF was
  <2>4. CASE UNCHANGED <<learned, rejections>>
    BY <2>4
  <2>5. CASE learned' = was /\ UNCHANGED rejections
    BY <2>2, <2>3, <2>5
  <2>6. CASE /\ learned' = [was EXCEPT !.no_count_tokens = TRUE]
             /\ rejections' = [rejections EXCEPT !.counted = @ \cup {url}]
    <3>1. url \in rejections'.counted /\ rejections'.asked = rejections.asked
      BY <2>0, <2>6
    <3>2. QED
      BY <2>2, <2>3, <2>6, <3>1 DEF Learnt
  <2>7. CASE /\ learned' = learned \/ \E s \in Shapes : learned' = Remember(url, s)
             /\ rejections' = [rejections EXCEPT !.asked = @ \cup {url}]
    <3>0. /\ url \in rejections'.asked /\ rejections.asked \subseteq rejections'.asked
          /\ rejections'.counted = rejections.counted
      BY <2>0, <2>7
    <3>1. CASE learned' = learned
      BY <3>0, <3>1
    <3>2. CASE \E s \in Shapes : learned' = Remember(url, s)
      <4>1. PICK s \in Shapes :
               learned' = [was EXCEPT !.no_strict = @ \/ ~s.strict,
                                      !.no_cache_control = @ \/ ~s.cache_control]
        BY <3>2 DEF Remember, was
      <4>2. /\ learned'.base_url = url
            /\ learned'.no_strict = (was.no_strict \/ ~s.strict)
            /\ learned'.no_cache_control = (was.no_cache_control \/ ~s.cache_control)
            /\ learned'.no_count_tokens = was.no_count_tokens
        BY <2>3, <4>1 DEF Learnt
      <4>3. QED
        BY <2>2, <2>3, <3>0, <4>2
    <3>3. QED
      BY <2>7, <3>1, <3>2
  <2>8. QED
    BY <2>1, <2>4, <2>5, <2>6, <2>7 DEF was
<1>4. QED
  BY <1>1, <1>2, <1>3, LearnsOrNot

LEMMA AlwaysLearnt == Spec => [](Forgotten /\ LearntOfItsEndpoint)
<1>1. Init => Forgotten /\ LearntOfItsEndpoint
  <2>1. ~Nothing.no_strict /\ ~Nothing.no_cache_control /\ ~Nothing.no_count_tokens
    BY DEF Nothing
  <2>2. Init => learned = Nothing
    BY DEF Init
  <2>3. QED
    BY <2>1, <2>2 DEF Forgotten, LearntOfItsEndpoint
<1>2. QED
  BY <1>1, AlwaysJoined, LearntStep, PTL DEF Spec

\* model/https.rs, Learned: what is held against an endpoint is what that very
\* endpoint answered, a 400 to a question or a 404 to a count, whichever turns
\* used the client in between.
THEOREM HeldForItsOwnAnswers == Spec => []LearntOfItsEndpoint
BY AlwaysLearnt, PTL

\* model/https.rs, remember: an endpoint is never offered again what it refused
\* while the client stays with it.
THEOREM LearningLasts == Spec => NothingIsUnlearnt
<1>1. TypeOK /\ Joined /\ Forgotten /\ LearntOfItsEndpoint /\ [Next]_vars
        => [learned'.base_url = learned.base_url =>
              /\ learned.no_strict => learned'.no_strict
              /\ learned.no_cache_control => learned'.no_cache_control
              /\ learned.no_count_tokens => learned'.no_count_tokens]_vars
  BY LearntStep
<1>2. QED
  BY <1>1, AlwaysJoined, AlwaysLearnt, PTL DEF Spec, NothingIsUnlearnt

-----------------------------------------------------------------------------
(* Every call is answered.                                                   *)

-----------------------------------------------------------------------------
(* A turn steps alone.                                                       *)

\* What the other turns have of their own.
Own(u) == <<pc[u], work[u], conf[u], spent[u], total[u], used[u], reason[u], steps[u], pending[u],
            channel[u], malformed[u], records[u]>>

LEMMA OthersKeepTheirs ==
    ASSUME TypeOK, NEW t \in TurnIds, TaskOf(t) \/ AskOf(t) \/ ToolOf(t),
           NEW u \in TurnIds, u # t
    PROVE  Own(u)' = Own(u)
<1> USE DEF TypeOK, Own, Goes, WorkGoes, Says, taskVars, workVars, logVars, history
<1>0. ASSUME NEW record, AppendAsk(t, record) PROVE records'[u] = records[u]
  BY <1>0 DEF AppendAsk
<1>1. CASE Accept(t) \/ Resume(t) \/ ReadPrior(t)
  BY <1>1 DEF Accept, Resume, ReadPrior
<1>2. CASE AskQuestion(t)
  BY <1>0, <1>2 DEF AskQuestion
<1>3. CASE Begin(t)
  <2>1. records'[u] = records[u] /\ conf'[u] = conf[u]
    BY <1>0, <1>3 DEF Begin
  <2>2. QED
    BY <1>3, <2>1 DEF Begin
<1>4. CASE Receive(t)
  <2>1. records'[u] = records[u] /\ malformed'[u] = malformed[u]
    BY <1>0, <1>4 DEF Receive
  <2>2. QED
    BY <1>4, <2>1 DEF Receive
<1>5. CASE Close(t)
  BY <1>5 DEF Close, Notes
<1>6. CASE AppendEnd(t)
  BY <1>0, <1>6 DEF AppendEnd, Forget
<1>7. CASE Ground(t) \/ Unanswered(t) \/ CallTool(t) \/ LateAnswer(t) \/ WorkPanics(t)
  BY <1>7 DEF Ground, Unanswered, CallTool, LateAnswer, WorkPanics
<1>8. CASE CountTokens(t)
  BY <1>8 DEF CountTokens, Weigh
<1>9. CASE Counted(t)
  BY <1>9 DEF Counted, Weigh
<1>10. CASE Rejected(t)
  BY <1>10 DEF Rejected
<1>11. CASE Stream(t)
  <2>1. PICK payloads \in Transcripts(Size(t)) :
          LET f == fold_stream(payloads)
          IN /\ used' = [used EXCEPT ![t] = @ + tokens(f)]
             /\ UNCHANGED total \/ total' = [total EXCEPT ![t] = @ + tokens(f)]
             /\ UNCHANGED reason \/ reason' = [reason EXCEPT ![t] = f.stop_reason]
             /\ UNCHANGED pending \/ pending' = [pending EXCEPT ![t] = calls(f)]
             /\ UNCHANGED steps \/ steps' = [steps EXCEPT ![t] = Append(@,
                                 [asked |-> ToolUses(f), answers |-> <<>>, offers |-> Offers(f)])]
             /\ \E to \in {"refused", "ok", "calling"} : work' = [work EXCEPT ![t] = to]
             /\ \E replies : channel' = [channel EXCEPT ![t] = @ \o replies]
    BY <1>11 DEF Stream
  <2>2. UNCHANGED <<taskVars, conf, logVars>>
    BY <1>11 DEF Stream
  <2>3. QED
    BY <2>1, <2>2
<1>12. CASE ToolReturns(t)
  <2>1. UNCHANGED <<taskVars, conf, total, reason, logVars, used>>
    BY <1>12 DEF ToolReturns
  <2>2. \E to \in {"calling", "counting"} : work' = [work EXCEPT ![t] = to]
    BY <1>12 DEF ToolReturns
  <2>3. \E replies : channel' = [channel EXCEPT ![t] = @ \o replies]
    BY <1>12 DEF ToolReturns
  <2>4. pending' = [pending EXCEPT ![t] = Tail(@)] /\ steps'[u] = steps[u]
    BY <1>12 DEF ToolReturns
  <2>5. QED
    BY <2>1, <2>2, <2>3, <2>4
<1>13. QED
  BY <1>1, <1>2, <1>3, <1>4, <1>5, <1>6, <1>7, <1>8, <1>9, <1>10, <1>11, <1>12
     DEF TaskOf, AskOf, ToolOf

-----------------------------------------------------------------------------
(* Every call is answered.                                                   *)

LEMMA RoundsKept ==
    ASSUME TypeOK, Joined, NEW t \in TurnIds, RoundsOf(t), UNCHANGED <<steps[t], pending[t]>>,
           \/ work'[t] = work[t]
           \/ work[t] \in {"grounding"} \cup Waits /\ work'[t] \in Waits
           \/ work[t] \in Calls /\ work'[t] \in Calls
           \/ work'[t] \notin Waits \cup Calls
    PROVE  RoundsOf(t)'
<1>1. steps'[t] = steps[t] /\ pending'[t] = pending[t] /\ Waits \cap Calls = {}
  BY DEF Waits, Calls
<1>2. CASE work'[t] = work[t]
  BY <1>1, <1>2 DEF RoundsOf
<1>3. CASE work[t] = "grounding" /\ work'[t] \in Waits
  <2>1. steps[t] = <<>>
    BY <1>3 DEF Joined
  <2>2. \A i \in 1 .. Len(steps[t]) : FALSE
    BY <2>1
  <2>3. QED
    BY <1>1, <1>3, <2>2 DEF RoundsOf
<1>4. CASE work[t] \in Waits /\ work'[t] \in Waits
  BY <1>1, <1>4 DEF RoundsOf
<1>5. CASE work[t] \in Calls /\ work'[t] \in Calls
  BY <1>1, <1>5 DEF RoundsOf
<1>6. CASE work'[t] \notin Waits \cup Calls
  BY <1>6 DEF RoundsOf
<1>7. QED
  BY <1>2, <1>3, <1>4, <1>5, <1>6

\* What a reply asks for is what is left to answer.
LEMMA RoundBegins ==
    ASSUME TypeOK, Joined, NEW t \in TurnIds, RoundsOf(t), Stream(t), work'[t] = "calling"
    PROVE  RoundsOf(t)'
<1>1. PICK payloads \in Transcripts(Size(t)) :
        LET f == fold_stream(payloads)
        IN /\ pending' = [pending EXCEPT ![t] = calls(f)]
           /\ steps' = [steps EXCEPT ![t] = Append(@,
                                 [asked |-> ToolUses(f), answers |-> <<>>, offers |-> Offers(f)])]
  BY DEF TypeOK, Stream, WorkGoes
<1> DEFINE f == fold_stream(payloads)
           round == [asked |-> ToolUses(f), answers |-> <<>>, offers |-> Offers(f)]
<1>2. f \in FoldStates
  BY ReplyTyped
<1> HIDE DEF f
<1>3. pending'[t] = calls(f) /\ steps'[t] = Append(steps[t], round)
  BY <1>1 DEF TypeOK, f
<1>4. Remaining(round, calls(f))
  <2>1. ToolUses(f) \in Seq(Blocks) /\ calls(f) \in Seq(Blocks) /\ Offers(f) \in Seq(Blocks)
          /\ Len(calls(f)) + Len(Offers(f)) = Len(ToolUses(f))
          /\ IdsIn(calls(f)) \cup IdsIn(Offers(f)) = IdsIn(ToolUses(f))
    BY <1>2, OutcomeParts
  <2>2. Range(<<>>) = {} /\ Len(<<>>) = 0
    BY DEF Range
  <2>3. round.asked = ToolUses(f) /\ round.answers = <<>> /\ round.offers = Offers(f)
    OBVIOUS
  <2> HIDE DEF round
  <2>4. Len(calls(f)) \in Nat /\ Len(Offers(f)) \in Nat
    BY <2>1
  <2>5. Len(round.answers) + Len(calls(f)) + Len(round.offers) = Len(round.asked)
    BY <2>1, <2>2, <2>3, <2>4
  <2>6. QED
    BY <2>1, <2>2, <2>3, <2>5 DEF Remaining
<1>5. \A i \in 1 .. Len(steps[t]) : Answered(steps[t][i])
  BY DEF Stream, RoundsOf, Waits
<1> HIDE DEF round
<1>6. PICK n \in Nat : n = Len(steps[t]) /\ Len(Append(steps[t], round)) = n + 1
          /\ Append(steps[t], round)[n + 1] = round
          /\ \A i \in 1 .. n : Append(steps[t], round)[i] = steps[t][i]
  <2>1. steps[t] \in Seq(Rounds)
    BY DEF TypeOK
  <2>2. \E n \in Nat : n = Len(steps[t])
    BY <2>1
  <2>3. QED
    BY <2>1, <2>2
<1>7. \A i \in 1 .. (n + 1) - 1 : Answered(steps'[t][i])
  BY <1>3, <1>5, <1>6
<1>8. QED
  BY <1>3, <1>4, <1>6, <1>7 DEF RoundsOf, Waits

\* A call that is answered leaves one less, and the last one none.
LEMMA RoundGoesOn ==
    ASSUME TypeOK, Joined, NEW t \in TurnIds, RoundsOf(t), ToolReturns(t)
    PROVE  RoundsOf(t)'
<1> DEFINE calling == pending[t]
           more == Len(calling) > 1
           n == Len(steps[t])
           old == steps[t][n]
           id == Head(calling).id
           round == [old EXCEPT !.answers = Answering(old, id, more)]
<1>1. /\ id \in Texts /\ Len(calling) > 0
      /\ n \in 1 .. MaxSteps /\ old \in Rounds
      /\ steps' = [steps EXCEPT ![t] = [steps[t] EXCEPT ![n] = round]]
      /\ pending' = [pending EXCEPT ![t] = Tail(calling)]
      /\ WorkGoes(t, IF more THEN "calling" ELSE "counting")
  BY ReturnsOne
<1>2. calling \in Seq(Blocks) /\ steps[t] \in Seq(Rounds) /\ DOMAIN steps = TurnIds /\ DOMAIN pending = TurnIds
        /\ DOMAIN work = TurnIds
  BY DEF TypeOK
<1>3. /\ \A i \in 1 .. n - 1 : Answered(steps[t][i])
      /\ Remaining(old, calling)
  BY DEF ToolReturns, RoundsOf, Calls
<1>4. n \in Nat /\ n \in 1 .. n /\ n > 0
  BY <1>1
<1>5. steps'[t] = [steps[t] EXCEPT ![n] = round] /\ pending'[t] = Tail(calling)
        /\ work'[t] = IF more THEN "calling" ELSE "counting"
  BY <1>1, <1>2 DEF WorkGoes
<1> HIDE DEF round, more, calling, id
<1>6. Len(steps'[t]) = n /\ steps'[t][n] = round /\ \A i \in 1 .. n - 1 : steps'[t][i] = steps[t][i]
  BY <1>2, <1>4, <1>5
<1>7. /\ round.asked = old.asked /\ round.offers = old.offers
      /\ round.answers = Answering(old, id, more)
  BY <1>1 DEF Rounds, round
<1>8. more \in BOOLEAN
  BY <1>1 DEF more
<1> HIDE DEF old
<1>9. PICK k \in Nat, a \in Nat, o \in Nat :
         k = Len(calling) /\ a = Len(old.answers) /\ o = Len(old.offers)
  <2>1. old.answers \in Seq(Texts) /\ old.offers \in Seq(Blocks)
    BY <1>1 DEF Rounds
  <2>2. Len(calling) \in Nat /\ Len(old.answers) \in Nat /\ Len(old.offers) \in Nat
    BY <1>2, <2>1
  <2>3. QED
    BY <2>2
<1>10. Len(round.answers) = a + 1 + (IF more THEN 0 ELSE o)
  <2>1. Len(Answering(old, id, more)) =
          Len(old.answers) + 1 + (IF more THEN 0 ELSE Len(old.offers))
    BY <1>1, <1>8, AnsweringTyped
  <2>2. QED
    BY ONLY <1>7, <1>9, <2>1
<1>11. Range(round.answers) = Range(old.answers) \cup {id} \cup (IF more THEN {} ELSE IdsIn(old.offers))
  <2>1. Range(Answering(old, id, more)) =
          Range(old.answers) \cup {id} \cup (IF more THEN {} ELSE IdsIn(old.offers))
    BY <1>1, <1>8, AnsweringTyped
  <2>2. QED
    BY <1>7, <2>1
<1>12. IdsIn(calling) = {id} \cup IdsIn(Tail(calling)) /\ Len(Tail(calling)) = k - 1
  <2>1. k > 0 /\ Head(calling) = calling[1] /\ Len(Tail(calling)) = k - 1
          /\ \A i \in 1 .. k - 1 : Tail(calling)[i] = calling[i + 1]
    <3>1. calling # <<>>
      BY <1>1, <1>2
    <3>2. QED
      BY <1>1, <1>2, <1>9, <3>1, HeadTailProperties
  <2>2. (\A i \in 1 .. k : i = 1 \/ i - 1 \in 1 .. k - 1) /\ 1 \in 1 .. k
          /\ (\A i \in 1 .. k - 1 : i + 1 \in 1 .. k) /\ \A i \in 1 .. k : (i - 1) + 1 = i
    BY <2>1
  <2>3. ASSUME NEW i \in 1 .. k PROVE calling[i].id \in {id} \cup IdsIn(Tail(calling))
    <3>1. CASE i = 1
      BY <2>1, <3>1 DEF id
    <3>2. CASE i # 1
      <4>1. i - 1 \in 1 .. k - 1 /\ (i - 1) + 1 = i
        BY <2>2, <3>2
      <4>2. Tail(calling)[i - 1] = calling[i]
        BY <2>1, <4>1
      <4>3. QED
        BY <2>1, <4>1, <4>2 DEF IdsIn
    <3>3. QED
      BY <3>1, <3>2
  <2>4. id \in IdsIn(calling)
    BY <1>9, <2>1, <2>2 DEF IdsIn, id
  <2>5. IdsIn(Tail(calling)) \subseteq IdsIn(calling)
    BY <1>9, <2>1, <2>2 DEF IdsIn
  <2>6. IdsIn(calling) \subseteq {id} \cup IdsIn(Tail(calling))
    BY <1>9, <2>3 DEF IdsIn
  <2>7. QED
    BY <2>1, <2>4, <2>5, <2>6
<1>13. a + k + o = Len(old.asked)
         /\ Range(old.answers) \cup IdsIn(calling) \cup IdsIn(old.offers) = IdsIn(old.asked)
  BY <1>3, <1>9 DEF Remaining
<1>14. CASE more
  <2>1. Remaining(round, Tail(calling))
    <3>0. Len(round.answers) = a + 1 /\ Len(Tail(calling)) = k - 1 /\ Len(round.offers) = o
      BY <1>7, <1>9, <1>10, <1>12, <1>14
    <3>1. Len(round.answers) + Len(Tail(calling)) + Len(round.offers) = Len(round.asked)
      BY <1>7, <1>13, <3>0
    <3>2. QED
      BY <1>7, <1>11, <1>12, <1>13, <1>14, <3>1 DEF Remaining
  <2>2. QED
    BY <1>3, <1>5, <1>6, <1>14, <2>1 DEF RoundsOf, Waits
<1>15. CASE ~more
  <2>1. k = 1
    BY <1>1, <1>9, <1>15 DEF more
  <2>2. IdsIn(Tail(calling)) = {}
    BY <1>12, <2>1 DEF IdsIn
  <2>3. Answered(round)
    <3>1. Len(round.answers) = Len(round.asked)
      BY <1>7, <1>9, <1>10, <1>13, <1>15, <2>1
    <3>2. QED
      BY <1>7, <1>11, <1>12, <1>13, <1>15, <2>2, <3>1 DEF Answered
  <2>4. \A i \in 1 .. n : i = n \/ i \in 1 .. n - 1
    BY <1>4
  <2>5. QED
    BY <1>3, <1>5, <1>6, <1>15, <2>3, <2>4 DEF RoundsOf, Calls
<1>16. QED
  BY <1>14, <1>15

LEMMA RoundsStep ==
    ASSUME TypeOK, Joined, NEW t \in TurnIds, RoundsOf(t), TaskOf(t) \/ AskOf(t) \/ ToolOf(t)
    PROVE  RoundsOf(t)'
<1> USE DEF taskVars, workVars
<1>1. CASE TaskOf(t)
  <2>1. UNCHANGED <<steps, pending>> \/ AppendEnd(t)
    BY <1>1 DEF TaskOf, Accept, Resume, ReadPrior, AskQuestion, Begin, Receive, Close
  <2>2. work'[t] = work[t] \/ work'[t] \in {"grounding", "idle"}
    BY <1>1 DEF TypeOK, TaskOf, Accept, Resume, ReadPrior, AskQuestion, Begin, Receive, Close,
                AppendEnd, Forget
  <2>3. CASE AppendEnd(t)
    BY <2>3 DEF AppendEnd, Forget, RoundsOf, Waits, Calls
  <2>4. CASE UNCHANGED <<steps, pending>>
    BY <2>2, <2>4, RoundsKept DEF Waits, Calls
  <2>5. QED
    BY <2>1, <2>3, <2>4
<1>2. CASE AskOf(t)
  <2>1. work[t] \in {"grounding"} \cup Waits /\ UNCHANGED <<steps, pending>>
    BY <1>2 DEF AskOf, Ground, CountTokens, Counted, Rejected, Unanswered, Waits
  <2>2. \E to \in {"counting", "asking", "posting", "refused"} : WorkGoes(t, to)
    BY <1>2 DEF AskOf, Ground, CountTokens, Counted, Rejected, Unanswered, Weigh
  <2>3. work'[t] \in Waits \/ work'[t] \notin Waits \cup Calls
    BY <2>2 DEF TypeOK, WorkGoes, Waits, Calls
  <2>4. QED
    BY <2>1, <2>3, RoundsKept
<1>3. CASE Stream(t)
  <2>1. CASE work'[t] = "calling"
    BY <1>3, <2>1, RoundBegins
  <2>2. CASE work'[t] # "calling"
    <3>1. \E to \in {"ok", "refused", "calling"} : WorkGoes(t, to)
      BY <1>3 DEF Stream
    <3>2. work'[t] \in {"ok", "refused"}
      BY <2>2, <3>1 DEF TypeOK, WorkGoes
    <3>3. QED
      BY <3>2 DEF RoundsOf, Waits, Calls
  <2>3. QED
    BY <2>1, <2>2
<1>4. CASE CallTool(t)
  <2>1. work[t] = "calling" /\ work'[t] = "running" /\ UNCHANGED <<steps, pending>>
    BY <1>4 DEF TypeOK, CallTool, WorkGoes
  <2>2. QED
    BY <2>1, RoundsKept DEF Calls
<1>5. CASE ToolReturns(t)
  BY <1>5, RoundGoesOn
<1>6. CASE LateAnswer(t)
  BY <1>6, RoundsKept DEF LateAnswer
<1>7. CASE WorkPanics(t)
  <2>1. work'[t] = "panicked" /\ UNCHANGED <<steps, pending>>
    BY <1>7 DEF TypeOK, WorkPanics, WorkGoes
  <2>2. QED
    BY <2>1, RoundsKept DEF Waits, Calls
<1>8. QED
  BY <1>1, <1>2, <1>3, <1>4, <1>5, <1>6, <1>7 DEF ToolOf

LEMMA AlwaysRounded == Spec => []Rounded
<1>1. Init => Rounded
  BY DEF Init, Rounded, RoundsOf, Waits, Calls
<1>2. TypeOK /\ Joined /\ Rounded /\ [Next]_vars => Rounded'
  <2> SUFFICES ASSUME TypeOK, Joined, Rounded, [Next]_vars, NEW u \in TurnIds PROVE RoundsOf(u)'
    BY DEF Rounded
  <2>0. RoundsOf(u)
    BY DEF Rounded
  <2>1. CASE Restart
    BY <2>1 DEF Restart, Forget, RoundsOf, Waits, Calls
  <2>2. CASE UNCHANGED vars
    BY <2>0, <2>2, RoundsKept DEF vars, workVars
  <2>3. ASSUME NEW t \in TurnIds, TaskOf(t) \/ AskOf(t) \/ ToolOf(t) PROVE RoundsOf(u)'
    <3>1. CASE u = t
      BY <2>0, <2>3, <3>1, RoundsStep
    <3>2. CASE u # t
      BY <2>0, <2>3, <3>2, OthersKeepTheirs, RoundsKept DEF Own
    <3>3. QED
      BY <3>1, <3>2
  <2>4. QED
    BY <2>1, <2>2, <2>3, EachStep
<1>3. QED
  BY <1>1, <1>2, AlwaysJoined, PTL DEF Spec

\* model/client.rs, request.rs: a round goes back to the model with one answer
\* to every tool it asked for, the offers among them.
THEOREM NoCallIsForgotten == Spec => []EveryCallIsAnswered
<1>1. TypeOK /\ Rounded => EveryCallIsAnswered
  <2> SUFFICES ASSUME TypeOK, Rounded, NEW t \in TurnIds, work[t] \in Waits, NEW i \in DOMAIN steps[t]
               PROVE  /\ Len(steps[t][i].answers) = Len(steps[t][i].asked)
                      /\ {steps[t][i].answers[j] : j \in DOMAIN steps[t][i].answers}
                           = {steps[t][i].asked[j].id : j \in DOMAIN steps[t][i].asked}
    BY DEF EveryCallIsAnswered, Waits
  <2>1. steps[t] \in Seq(Rounds)
    BY DEF TypeOK
  <2>2. i \in 1 .. Len(steps[t]) /\ steps[t][i] \in Rounds
    BY <2>1
  <2>3. Answered(steps[t][i])
    BY <2>2 DEF Rounded, RoundsOf
  <2>4. DOMAIN steps[t][i].asked = 1 .. Len(steps[t][i].asked)
    BY <2>2 DEF Rounds
  <2>5. QED
    BY <2>3, <2>4 DEF Answered, Range, IdsIn
<1>2. QED
  BY <1>1, AlwaysJoined, AlwaysRounded, PTL

-----------------------------------------------------------------------------
(* What a conversation may spend.                                            *)

LEMMA SizeTyped ==
    ASSUME TypeOK, NEW t \in TurnIds
    PROVE  Size(t) \in Nat /\ spent[t] \in Nat /\ total[t] \in Nat /\ used[t] \in Nat
BY DEF TypeOK, Size

LEMMA MeterKept ==
    ASSUME TypeOK, NEW t \in TurnIds, MeterOf(t),
           UNCHANGED <<spent[t], total[t], used[t], steps[t]>>,
           \/ work'[t] = work[t]
           \/ work'[t] \in {"refused", "panicked"}
           \/ /\ work[t] \notin {"idle", "refused", "panicked"}
              /\ work'[t] = "posting" /\ Budget > 0 => spent[t] + total[t] + Size(t) <= Budget
    PROVE  MeterOf(t)'
<1>1. Size(t)' = Size(t)
  BY DEF Size
<1>2. QED
  BY <1>1 DEF MeterOf

\* A body that fits is one the conversation can pay for.
LEMMA FitsIt ==
    ASSUME TypeOK, NEW t \in TurnIds, Fits(t, Size(t)) \/ Fits(t, Estimate(t))
    PROVE  Budget > 0 => spent[t] + total[t] + Size(t) <= Budget
<1>1. PICK x \in Nat, y \in Nat, z \in Nat, b \in Nat :
         x = spent[t] /\ y = total[t] /\ z = Size(t) /\ b = Budget
  BY SizeTyped, BudgetsAssumption
<1>2. Estimate(t) = z + 1
  BY <1>1 DEF Estimate
<1>3. b > 0 => x + y + z <= b \/ x + y + (z + 1) <= b
  BY <1>1, <1>2 DEF Fits
<1>4. b > 0 => x + y + z <= b
  BY <1>3
<1>5. QED
  BY <1>1, <1>4

LEMMA MeterAskStep ==
    ASSUME TypeOK, Joined, NEW t \in TurnIds, MeterOf(t), AskOf(t)
    PROVE  MeterOf(t)'
<1>1. UNCHANGED <<spent, total, used, steps>>
  BY DEF AskOf, Ground, CountTokens, Counted, Rejected, Unanswered, taskVars, history
<1>2. work[t] \notin {"idle", "refused", "panicked"}
  BY DEF AskOf, Ground, CountTokens, Counted, Rejected, Unanswered
<1>3. \/ \E to \in {"counting", "asking", "refused"} : WorkGoes(t, to)
      \/ Fits(t, Size(t)) \/ Fits(t, Estimate(t))
      \/ work[t] = "posting" /\ WorkGoes(t, "posting")
  <2>1. CASE Ground(t)
    BY <2>1 DEF Ground
  <2>2. CASE CountTokens(t)
    BY <2>2, WeighMoves DEF CountTokens
  <2>3. CASE Counted(t)
    BY <2>3, WeighMoves DEF Counted
  <2>4. CASE Rejected(t)
    BY <2>4 DEF Rejected
  <2>5. CASE Unanswered(t)
    BY <2>5 DEF Unanswered
  <2>6. QED
    BY <2>1, <2>2, <2>3, <2>4, <2>5 DEF AskOf
<1>4. work'[t] = "posting" /\ Budget > 0 => spent[t] + total[t] + Size(t) <= Budget
  <2>1. CASE \E to \in {"counting", "asking", "refused"} : WorkGoes(t, to)
    BY <2>1 DEF TypeOK, WorkGoes
  <2>2. CASE Fits(t, Size(t)) \/ Fits(t, Estimate(t))
    BY <2>2, FitsIt
  <2>3. CASE work[t] = "posting" /\ WorkGoes(t, "posting")
    BY <2>3 DEF MeterOf
  <2>4. QED
    BY <1>3, <2>1, <2>2, <2>3
<1>5. QED
  BY <1>1, <1>2, <1>4, MeterKept

\* One reply more than was weighed, and no more than that.
LEMMA MeterReplyStep ==
    ASSUME TypeOK, Joined, NEW t \in TurnIds, MeterOf(t), Stream(t)
    PROVE  MeterOf(t)'
<1>1. PICK payloads \in Transcripts(Size(t)) :
        LET f == fold_stream(payloads)
        IN /\ used' = [used EXCEPT ![t] = @ + tokens(f)]
           /\ \/ WorkGoes(t, "refused")
              \/ /\ total' = [total EXCEPT ![t] = @ + tokens(f)]
                 /\ WorkGoes(t, "ok") \/ WorkGoes(t, "calling")
  BY DEF Stream
<1> DEFINE cost == tokens(fold_stream(payloads))
<1>2. cost \in 0 .. Size(t) + MaxOutput
  BY ReplyTyped
<1>3. /\ used' = [used EXCEPT ![t] = @ + cost]
      /\ \/ WorkGoes(t, "refused")
         \/ /\ total' = [total EXCEPT ![t] = @ + cost]
            /\ WorkGoes(t, "ok") \/ WorkGoes(t, "calling")
  BY <1>1
<1> HIDE DEF cost
<1>4. PICK x \in Nat, y \in Nat, z \in Nat, b \in Nat, m \in Nat :
         x = spent[t] /\ y = total[t] /\ z = Size(t) /\ b = Budget /\ m = MaxOutput
  BY SizeTyped, BudgetsAssumption
<1>5. work[t] = "posting" /\ spent'[t] = x
  BY <1>4 DEF Stream, taskVars
<1>6. used[t] = y /\ (b > 0 => x + y + z <= b)
  BY <1>4, <1>5 DEF MeterOf
<1>7. used'[t] = y + cost
  BY <1>3, <1>6 DEF TypeOK
<1>8. \/ work'[t] = "refused"
      \/ work'[t] \in {"ok", "calling"} /\ total'[t] = y + cost
  BY <1>3, <1>4 DEF TypeOK, WorkGoes
<1>9. cost \in Nat /\ cost <= z + m
  BY <1>2, <1>4
<1>10. b > 0 => x + (y + cost) <= b + m
  BY <1>6, <1>9
<1>11. Budget > 0 => spent'[t] + used'[t] <= Budget + MaxOutput
  BY <1>4, <1>5, <1>7, <1>10
<1>12. QED
  BY <1>7, <1>8, <1>11 DEF MeterOf

LEMMA MeterStep ==
    ASSUME TypeOK, Joined, NEW t \in TurnIds, MeterOf(t), TaskOf(t) \/ AskOf(t) \/ ToolOf(t)
    PROVE  MeterOf(t)'
<1> USE DEF taskVars, workVars, history
<1>0. spent[t] \in Nat /\ total[t] \in Nat /\ used[t] \in Nat /\ Budget \in Nat /\ MaxOutput \in Nat
  BY BudgetsAssumption DEF TypeOK
<1>1. CASE Accept(t) \/ Resume(t) \/ ReadPrior(t) \/ AskQuestion(t) \/ Receive(t)
  BY <1>1, MeterKept DEF Accept, Resume, ReadPrior, AskQuestion, Receive
<1>2. CASE Begin(t)
  <2>1. pc[t] = "asked" /\ work'[t] = "grounding" /\ UNCHANGED <<total, used>>
    BY <1>2 DEF TypeOK, Begin, Goes
  <2>2. used[t] = 0 /\ total[t] = 0
    BY <2>1 DEF Joined
  <2>3. QED
    BY <2>1, <2>2 DEF MeterOf
<1>3. CASE Close(t)
  <2>1. UNCHANGED <<spent, total, steps, work, used>>
    BY <1>3 DEF Close, Notes
  <2>2. QED
    BY <2>1, MeterKept
<1>4. CASE AppendEnd(t)
  <2>1. work'[t] = "idle" /\ spent'[t] = 0 /\ used'[t] = used[t]
    BY <1>4 DEF AppendEnd, Forget
  <2>2. Budget > 0 /\ used[t] > 0 => 0 + used[t] <= Budget + MaxOutput
    <3>1. Budget > 0 /\ used[t] > 0 => spent[t] + used[t] <= Budget + MaxOutput
      BY DEF MeterOf
    <3>2. QED
      BY <1>0, <3>1
  <2>3. QED
    BY <2>1, <2>2 DEF MeterOf
<1>5. CASE AskOf(t)
  BY <1>5, MeterAskStep
<1>6. CASE Stream(t)
  BY <1>6, MeterReplyStep
<1>7. CASE CallTool(t) \/ LateAnswer(t) \/ WorkPanics(t)
  <2>1. UNCHANGED <<spent, total, used, steps>>
    BY <1>7 DEF CallTool, LateAnswer, WorkPanics
  <2>2. \/ work'[t] = work[t] \/ work'[t] = "panicked"
        \/ work[t] = "calling" /\ work'[t] = "running"
    BY <1>7 DEF TypeOK, CallTool, LateAnswer, WorkPanics, WorkGoes
  <2>3. QED
    BY <2>1, <2>2, MeterKept
<1>8. CASE ToolReturns(t)
  <2>1. UNCHANGED <<spent, total, used>> /\ work[t] = "running"
    BY <1>8 DEF ToolReturns
  <2>2. work'[t] \in {"calling", "counting"}
    <3>1. \E to \in {"calling", "counting"} : WorkGoes(t, to)
      BY <1>8 DEF ToolReturns
    <3>2. QED
      BY <3>1 DEF TypeOK, WorkGoes
  <2>3. QED
    BY <2>1, <2>2 DEF MeterOf
<1>9. QED
  BY <1>1, <1>2, <1>3, <1>4, <1>5, <1>6, <1>7, <1>8 DEF TaskOf, ToolOf

LEMMA AlwaysMetered == Spec => []Metered
<1>1. Init => Metered
  <2>1. Init => \A t \in TurnIds : work[t] = "idle" /\ used[t] = 0
    BY DEF Init
  <2>2. QED
    BY <2>1 DEF Metered, MeterOf
<1>2. TypeOK /\ Joined /\ Metered /\ [Next]_vars => Metered'
  <2> SUFFICES ASSUME TypeOK, Joined, Metered, [Next]_vars, NEW u \in TurnIds PROVE MeterOf(u)'
    BY DEF Metered
  <2>0. MeterOf(u)
    BY DEF Metered
  <2>1. CASE Restart
    <3>1. work'[u] = "idle" /\ used'[u] = 0
      BY <2>1 DEF Restart, Forget
    <3>2. QED
      BY <3>1 DEF MeterOf
  <2>2. CASE UNCHANGED vars
    BY <2>0, <2>2, MeterKept DEF vars, workVars, taskVars, history
  <2>3. ASSUME NEW t \in TurnIds, TaskOf(t) \/ AskOf(t) \/ ToolOf(t) PROVE MeterOf(u)'
    <3>1. CASE u = t
      BY <2>0, <2>3, <3>1, MeterStep
    <3>2. CASE u # t
      BY <2>0, <2>3, <3>2, OthersKeepTheirs, MeterKept DEF Own
    <3>3. QED
      BY <3>1, <3>2
  <2>4. QED
    BY <2>1, <2>2, <2>3, EachStep
<1>3. QED
  BY <1>1, <1>2, AlwaysJoined, PTL DEF Spec

\* model/client.rs, consult: a turn of any number of steps carries its
\* conversation past the budget by the output of one reply at most.
THEOREM OverrunBounded == Spec => []OverrunIsOneReply
<1>1. Metered => OverrunIsOneReply
  BY DEF Metered, MeterOf, OverrunIsOneReply
<1>2. QED
  BY <1>1, AlwaysMetered, PTL

-----------------------------------------------------------------------------
(* What the ledger holds.                                                    *)

\* A turn whose use is in the ledger of a conversation.
Charged(t, c) == Conv(t) = c /\ Closed(t) /\ t \in Paid

LEMMA ChargeTyped ==
    ASSUME TypeOK, NEW c
    PROVE  /\ Charge(c, Paid) \in Seq(Nat) /\ Len(Charge(c, Paid)) = MaxTurns
           /\ \A t \in TurnIds : Charge(c, Paid)[t] = IF Charged(t, c) THEN used[t] ELSE 0
<1>1. MaxTurns \in Nat
  BY MaxTurnsAssumption
<1>2. \A t \in TurnIds : (IF Charged(t, c) THEN used[t] ELSE 0) \in Nat
  BY DEF TypeOK
<1>3. Charge(c, Paid) \in [1 .. MaxTurns -> Nat]
  BY <1>2 DEF Charge, Charged, TurnIds
<1>4. QED
  BY <1>1, <1>3 DEF Charge, Charged

LEMMA ChargeKept ==
    ASSUME TypeOK, ChargedOnce, UNCHANGED ledger,
           \A u \in TurnIds : (Closed(u)' <=> Closed(u)) /\ (Closed(u) => used'[u] = used[u]),
           UNCHANGED failed
    PROVE  ChargedOnce'
<1>1. ASSUME NEW c \in Conversations PROVE ledger'[c] = Summed(Charge(c, Paid)')
  <2>1. Paid' = Paid /\ \A u \in TurnIds : Conv(u)' = Conv(u)
    BY DEF Conv, Paid
  <2>2. Charge(c, Paid)' = Charge(c, Paid)
    BY <2>1 DEF Charge
  <2>3. QED
    BY <2>2 DEF ChargedOnce
<1>2. QED
  BY <1>1 DEF ChargedOnce

\* What a turn cost joins the ledger of its conversation as it closes.
LEMMA ChargeJoins ==
    ASSUME TypeOK, TypeOK', Joined, Metered, ChargedOnce, NEW t \in TurnIds, Close(t)
    PROVE  ChargedOnce'
<1>1. /\ pc[t] = "begun" /\ pc' = [pc EXCEPT ![t] = "closing"]
      /\ ledger' = IF work[t] = "ok" THEN [ledger EXCEPT ![Conv(t)] = @ + total[t]] ELSE ledger
      /\ failed' = IF work[t] = "ok" THEN failed ELSE failed \cup {t}
      /\ used' = used
  BY DEF Close, Goes, Notes
<1>2. ~Closed(t) /\ Closed(t)' /\ (work[t] = "ok" => used[t] = total[t]) /\ t \notin failed
  BY <1>1 DEF TypeOK, Closed, Joined, Metered, MeterOf
<1>3. \A u \in TurnIds, c \in Conversations : u # t => (Charged(u, c)' <=> Charged(u, c))
  BY <1>1 DEF TypeOK, Closed, Charged, Conv, Paid
<1>0. \A c \in Conversations : ~Charged(t, c) /\ (Charged(t, c)' <=> Conv(t) = c /\ work[t] = "ok")
  BY <1>1, <1>2 DEF Charged, Paid, Conv
<1>4. ASSUME NEW c \in Conversations PROVE ledger'[c] = Summed(Charge(c, Paid)')
  <2> DEFINE was == Charge(c, Paid)
             is == Charge(c, Paid)'
  <2>1. /\ was \in Seq(Nat) /\ Len(was) = MaxTurns
        /\ \A u \in TurnIds : was[u] = IF Charged(u, c) THEN used[u] ELSE 0
    BY ChargeTyped
  <2>2. /\ is \in Seq(Nat) /\ Len(is) = MaxTurns
        /\ \A u \in TurnIds : is[u] = IF Charged(u, c)' THEN used[u] ELSE 0
    <3>1. MaxTurns \in Nat
      BY MaxTurnsAssumption
    <3>2. is = [u \in 1 .. MaxTurns |-> IF Charged(u, c)' THEN used[u] ELSE 0]
      BY <1>1, <3>1 DEF Charge, Charged, TurnIds
    <3>3. \A u \in TurnIds : (IF Charged(u, c)' THEN used[u] ELSE 0) \in Nat
      BY DEF TypeOK
    <3> HIDE DEF is
    <3>4. is \in [1 .. MaxTurns -> Nat]
      BY <3>2, <3>3 DEF TurnIds
    <3>5. QED
      BY <3>1, <3>2, <3>4 DEF TurnIds
  <2>3. Summed(was) = ledger[c]
    BY DEF ChargedOnce
  <2> HIDE DEF was, is
  <2>4. t \in 1 .. Len(was) /\ \A i \in 1 .. Len(was) : i # t => is[i] = was[i]
    BY <1>3, <2>1, <2>2 DEF TurnIds
  <2>5. Summed(is) = Summed(was) + is[t] - was[t]
    BY <2>1, <2>2, <2>4, SummedChange
  <2>6. was[t] = 0 /\ is[t] = IF Conv(t) = c /\ work[t] = "ok" THEN total[t] ELSE 0
    BY <1>0, <1>2, <2>1, <2>2
  <2>7. ledger[c] \in Nat /\ total[t] \in Nat
    BY DEF TypeOK
  <2>8. ledger'[c] = ledger[c] + (IF Conv(t) = c /\ work[t] = "ok" THEN total[t] ELSE 0)
    <3>1. DOMAIN ledger = Conversations
      BY DEF TypeOK
    <3>2. CASE work[t] = "ok" /\ Conv(t) = c
      BY <1>1, <3>1, <3>2
    <3>3. CASE ~(work[t] = "ok" /\ Conv(t) = c)
      <4>1. ledger'[c] = ledger[c]
        BY <1>1, <3>1, <3>3
      <4>2. QED
        BY <2>7, <3>3, <4>1
    <3>4. QED
      BY <3>2, <3>3
  <2>9. Summed(is) = ledger'[c]
    BY <2>3, <2>5, <2>6, <2>7, <2>8
  <2>10. QED
    BY <2>9 DEF is
<1>5. QED
  BY <1>4 DEF ChargedOnce

LEMMA ChargedStep ==
    ASSUME TypeOK, TypeOK', Joined, Metered, ChargedOnce, [Next]_vars
    PROVE  ChargedOnce'
<1>1. CASE Restart
  <2>1. ASSUME NEW c \in Conversations PROVE ledger'[c] = Summed(Charge(c, Paid)')
    <3>1. ledger'[c] = 0 /\ \A u \in TurnIds : used'[u] = 0
      BY <1>1 DEF Restart
    <3> DEFINE is == Charge(c, Paid)'
    <3>2. is = [u \in 1 .. MaxTurns |-> 0]
      BY <3>1 DEF Charge, TurnIds
    <3>3. is \in Seq(Nat) /\ \A i \in 1 .. Len(is) : is[i] = 0
      BY <3>2, MaxTurnsAssumption
    <3> HIDE DEF is
    <3>4. Summed(is) = 0
      BY <3>3, SummedZero
    <3>5. QED
      BY <3>1, <3>4 DEF is
  <2>2. QED
    BY <2>1 DEF ChargedOnce
<1>2. CASE UNCHANGED vars
  BY <1>2, ChargeKept DEF vars, taskVars, history, Closed
<1>3. ASSUME NEW t \in TurnIds, TaskOf(t) \/ AskOf(t) \/ ToolOf(t) PROVE ChargedOnce'
  <2>1. CASE Close(t)
    BY <2>1, ChargeJoins
  <2>2. CASE ~Close(t)
    <3>1. UNCHANGED <<ledger, failed>>
      BY <1>3, <2>2 DEF history, TaskOf, AskOf, ToolOf, Accept, Resume, ReadPrior, AskQuestion, Begin, Receive,
            AppendEnd, Ground, CountTokens, Counted, Rejected, Unanswered, Stream, CallTool,
            ToolReturns, LateAnswer, WorkPanics
    <3>2. (Closed(t)' <=> Closed(t)) /\ (Closed(t) => used'[t] = used[t])
      <4>1. CASE TaskOf(t)
        <5>1. UNCHANGED used
          BY <2>2, <4>1 DEF history, TaskOf, Accept, Resume, ReadPrior, AskQuestion, Begin, Receive,
                AppendEnd
        <5>2. \/ Goes(t, "closing", "ended") \/ UNCHANGED pc
              \/ \E from, to \in Phases \ {"closing", "ended"} : Goes(t, from, to)
          BY <2>2, <4>1 DEF TaskOf, Accept, Resume, ReadPrior, AskQuestion, Begin, Receive, AppendEnd,
                Phases
        <5>3. pc \in [TurnIds -> Phases]
          BY DEF TypeOK
        <5>4. QED
          BY <5>1, <5>2, <5>3 DEF Goes, Closed
      <4>2. CASE Stream(t)
        <5>1. ~Closed(t) /\ UNCHANGED pc
          BY <4>2 DEF Stream, Joined, Closed, Done, taskVars
        <5>2. QED
          BY <5>1 DEF Closed
      <4>3. CASE AskOf(t) \/ (ToolOf(t) /\ ~Stream(t))
        BY <4>3 DEF AskOf, ToolOf, Ground, CountTokens, Counted, Rejected, Unanswered, CallTool,
              ToolReturns, LateAnswer, WorkPanics, taskVars, history, Closed
      <4>4. QED
        BY <1>3, <4>1, <4>2, <4>3
    <3>3. \A u \in TurnIds : u # t => pc'[u] = pc[u] /\ used'[u] = used[u]
      BY <1>3, OthersKeepTheirs DEF Own
    <3>4. \A u \in TurnIds : (Closed(u)' <=> Closed(u)) /\ (Closed(u) => used'[u] = used[u])
      BY <3>2, <3>3 DEF Closed
    <3>5. QED
      BY <3>1, <3>4, ChargeKept
  <2>3. QED
    BY <2>1, <2>2
<1>4. QED
  BY <1>1, <1>2, <1>3, EachStep

\* consultation.rs:121, 221: the ledger of a conversation holds what each closed
\* turn used, once, however its turns overlap, but for the turns that failed.
THEOREM EachTurnChargedOnce == Spec => []ChargedOnce
<1>1. Init => ChargedOnce
  <2> SUFFICES ASSUME Init, NEW c \in Conversations PROVE ledger[c] = Summed(Charge(c, Paid))
    BY DEF ChargedOnce
  <2>1. ledger[c] = 0 /\ \A u \in TurnIds : used[u] = 0
    BY DEF Init
  <2> DEFINE is == Charge(c, Paid)
  <2>2. is = [u \in 1 .. MaxTurns |-> 0]
    BY <2>1 DEF Charge, TurnIds
  <2>3. is \in Seq(Nat) /\ \A i \in 1 .. Len(is) : is[i] = 0
    BY <2>2, MaxTurnsAssumption
  <2> HIDE DEF is
  <2>4. Summed(is) = 0
    BY <2>3, SummedZero
  <2>5. QED
    BY <2>1, <2>4 DEF is
<1>2. QED
  BY <1>1, AlwaysJoined, AlwaysMetered, ChargedStep, PTL DEF Spec
=============================================================================
