----------------------------- MODULE ToolsProofs -----------------------------
(***************************************************************************)
(* The safety of the tools, for any number of turns and of calls, any      *)
(* builds, configurations and key files, whatever the model reaches for    *)
(* and whatever the web answers.                                           *)
(***************************************************************************)
EXTENDS Tools, ListsProofs

-----------------------------------------------------------------------------
(* What is searched.                                                         *)

LEMMA OfferedOf ==
    ASSUME NEW place, NEW lines, IsSequence(lines), NEW words
    PROVE  /\ IsSequence(offered(place, lines, words))
           /\ \A x \in Range(offered(place, lines, words)) : x.place = place
<1> DEFINE yes == {i \in DOMAIN lines : matches(words, lines[i].text)}
           own == [i \in DOMAIN lines |-> i]
           matched == Kept(own, yes)
           all == offered(place, lines, words)
<1>1. PICK n \in Nat : DOMAIN lines = 1 .. n
  BY SequenceDomain
<1>2. IsSequence(own)
  <2>1. DOMAIN own = 1 .. n /\ own = [i \in 1 .. n |-> own[i]]
    BY <1>1
  <2> HIDE DEF own
  <2>2. QED
    BY <2>1, FunctionListed
<1> HIDE DEF yes, own
<1>3. matched \in Seq(Range(own))
  BY <1>2, KeptAmong
<1>4. PICK m \in Nat : DOMAIN matched = 1 .. m
  BY <1>3, SequenceOf
<1>5. DOMAIN all = 1 .. m /\ all = [i \in 1 .. m |-> all[i]] /\ \A i \in 1 .. m : all[i].place = place
  BY <1>4 DEF offered, hit, own, yes
<1> HIDE DEF all
<1>6. IsSequence(all)
  BY <1>5, FunctionListed
<1>7. \A x \in Range(all) : x.place = place
  BY <1>5 DEF Range
<1>8. QED
  BY <1>6, <1>7 DEF all

\* What was found is found in a row of these.
PlacedIn(finds, kind, stream, rows) ==
    \A x \in Range(finds) : \E i \in 1 .. Len(rows) : x.place = <<kind, stream, rows[i].slot>>

LEMMA FoundIn ==
    ASSUME NEW kind, NEW stream, NEW rows, IsSequence(rows), NEW words
    PROVE  /\ IsSequence(found_in(kind, stream, rows, words))
           /\ PlacedIn(found_in(kind, stream, rows, words), kind, stream, rows)
<1> DEFINE Row(i) == offered(<<kind, stream, rows[i].slot>>,
                             <<[heading |-> kind, text |-> rows[i].says]>>, words)
           s == [i \in DOMAIN rows |-> Row(i)]
<1>1. PICK n \in Nat : n = Len(rows) /\ DOMAIN rows = 1 .. n
  BY SequenceDomain
<1>2. ASSUME NEW i \in 1 .. n
      PROVE  s[i] = Row(i) /\ IsSequence(s[i])
             /\ \A x \in Range(s[i]) : x.place = <<kind, stream, rows[i].slot>>
  <2> DEFINE line == <<[heading |-> kind, text |-> rows[i].says]>>
             place == <<kind, stream, rows[i].slot>>
  <2>1. IsSequence(line)
    <3>1. DOMAIN line = 1 .. 1 /\ line = [j \in 1 .. 1 |-> line[j]]
      OBVIOUS
    <3> HIDE DEF line
    <3>2. QED
      BY <3>1, FunctionListed
  <2>2. s[i] = offered(place, line, words)
    BY <1>1
  <2> HIDE DEF line, place, s
  <2>3. IsSequence(s[i]) /\ \A x \in Range(s[i]) : x.place = place
    BY <2>1, <2>2, OfferedOf
  <2>4. QED
    BY <2>2, <2>3 DEF place, line
<1>3. DOMAIN s = 1 .. n /\ s = [i \in 1 .. n |-> s[i]] /\ found_in(kind, stream, rows, words) = FlattenSeq(s)
  BY <1>1 DEF found_in
<1> HIDE DEF s, Row
<1>4. /\ IsSequence(FlattenSeq(s))
      /\ \A x \in Range(FlattenSeq(s)) : \E i \in 1 .. n : x \in Range(s[i])
  BY <1>2, <1>3, FlattenedFrom
<1>5. QED
  BY <1>1, <1>2, <1>3, <1>4 DEF PlacedIn

\* A row that was found by its label is one that the build emitted.
EmittedIn(b, place) ==
    place[1] = "label"
    => /\ place[2] \in DOMAIN b.emits /\ valid_stream_id(place[2])
       /\ \E i \in 1 .. Len(b.emits[place[2]].questions) :
             b.emits[place[2]].questions[i].slot = place[3]

LEMMA LabelEmitted ==
    ASSUME NEW b, NEW place, NEW kind, NEW stream, NEW slot, place = <<kind, stream, slot>>
    PROVE  EmittedIn(b, place)
           <=> (kind = "label"
                => /\ stream \in DOMAIN b.emits /\ valid_stream_id(stream)
                   /\ \E i \in 1 .. Len(b.emits[stream].questions) :
                         b.emits[stream].questions[i].slot = slot)
<1>1. place[1] = kind /\ place[2] = stream /\ place[3] = slot
  OBVIOUS
<1>2. QED
  BY <1>1 DEF EmittedIn

LEMMA OtherKinds ==
    ASSUME NEW b, NEW finds, NEW kind, NEW stream, NEW rows,
           PlacedIn(finds, kind, stream, rows), kind # "label"
    PROVE  \A x \in Range(finds) : EmittedIn(b, x.place)
<1> TAKE x \in Range(finds)
<1>1. PICK i \in 1 .. Len(rows) : x.place = <<kind, stream, rows[i].slot>>
  BY DEF PlacedIn
<1>2. QED
  BY <1>1, LabelEmitted

LEMMA Listless == IsSequence(<<>>) /\ Range(<<>>) = {}
<1>1. <<>> \in Seq({}) /\ DOMAIN <<>> = {}
  OBVIOUS
<1>2. QED
  BY <1>1, SequenceOf DEF Range

LEMMA RecordsFrom ==
    ASSUME NEW b \in Range(Builds), NEW words
    PROVE  /\ IsSequence(records(b, words))
           /\ \A x \in Range(records(b, words)) : EmittedIn(b, x.place)
<1> DEFINE Emitted(stream) ==
             IF stream \in DOMAIN b.emits
             THEN found_in("label", stream, b.emits[stream].questions, words)
                  \o found_in("ruling text", stream, b.emits[stream].rulings, words)
             ELSE <<>>
           Declared(stream) ==
             IF stream \in DOMAIN b.projects
             THEN found_in("declared", stream, b.projects[stream], words) ELSE <<>>
           census == streams_of(b)
           s == [i \in DOMAIN census |-> Emitted(census[i]) \o Declared(census[i])]
           Of(x) == EmittedIn(b, x.place)
<1>1. ASSUME NEW stream, valid_stream_id(stream)
      PROVE  IsSequence(Emitted(stream)) /\ \A x \in Range(Emitted(stream)) : Of(x)
  <2>1. CASE stream \in DOMAIN b.emits
    <3> DEFINE q == b.emits[stream].questions
               r == b.emits[stream].rulings
               f == found_in("label", stream, q, words)
               g == found_in("ruling text", stream, r, words)
    <3>1. IsSequence(q) /\ IsSequence(r)
      BY <2>1, BuildsAssumption
    <3> HIDE DEF q, r
    <3>2. IsSequence(f) /\ PlacedIn(f, "label", stream, q)
      BY <3>1, FoundIn
    <3>3. IsSequence(g) /\ PlacedIn(g, "ruling text", stream, r)
      BY <3>1, FoundIn
    <3>4. \A x \in Range(f) : EmittedIn(b, x.place)
      <4> TAKE x \in Range(f)
      <4>1. PICK i \in 1 .. Len(q) : x.place = <<"label", stream, q[i].slot>>
        BY <3>2 DEF PlacedIn
      <4>2. QED
        BY <1>1, <2>1, <4>1, LabelEmitted DEF q
    <3>5. \A x \in Range(g) : EmittedIn(b, x.place)
      <4>1. "ruling text" # "label" /\ "declared" # "label"
        OBVIOUS
      <4>2. QED
        BY <3>3, <4>1, OtherKinds
    <3>6. Emitted(stream) = f \o g
      BY <2>1 DEF q, r
    <3> HIDE DEF f, g, Emitted
    <3>7. IsSequence(f \o g) /\ \A x \in Range(f \o g) : x \in Range(f) \/ x \in Range(g)
      BY <3>2, <3>3, JoinedFrom
    <3>8. QED
      BY <3>4, <3>5, <3>6, <3>7
  <2>2. CASE stream \notin DOMAIN b.emits
    BY <2>2, Listless
  <2>3. QED
    BY <2>1, <2>2
<1>2. ASSUME NEW stream
      PROVE  IsSequence(Declared(stream)) /\ \A x \in Range(Declared(stream)) : Of(x)
  <2>1. CASE stream \in DOMAIN b.projects
    <3> DEFINE r == b.projects[stream]
               g == found_in("declared", stream, r, words)
    <3>1. IsSequence(r)
      BY <2>1, BuildsAssumption
    <3> HIDE DEF r
    <3>3. IsSequence(g) /\ PlacedIn(g, "declared", stream, r)
      BY <3>1, FoundIn
    <3>5. \A x \in Range(g) : EmittedIn(b, x.place)
      <4>1. "ruling text" # "label" /\ "declared" # "label"
        OBVIOUS
      <4>2. QED
        BY <3>3, <4>1, OtherKinds
    <3>6. Declared(stream) = g
      BY <2>1 DEF r
    <3> HIDE DEF g, Declared
    <3>7. QED
      BY <3>3, <3>5, <3>6
  <2>2. CASE stream \notin DOMAIN b.projects
    BY <2>2, Listless
  <2>3. QED
    BY <2>1, <2>2
<1>3. PICK n \in Nat : DOMAIN census = 1 .. n /\ \A i \in 1 .. n : valid_stream_id(census[i])
  <2> DEFINE yes == {id \in Range(b.listed) : valid_stream_id(id)}
  <2>1. IsSequence(b.listed)
    BY BuildsAssumption
  <2>2. census = Kept(b.listed, yes) /\ \A id \in yes : valid_stream_id(id)
    BY DEF streams_of
  <2> HIDE DEF yes, census
  <2>3. census \in Seq(Range(b.listed)) /\ \A i \in 1 .. Len(census) : census[i] \in yes
    BY <2>1, <2>2, KeptAmong
  <2>4. DOMAIN census = 1 .. Len(census) /\ Len(census) \in Nat
    BY <2>3, SequenceOf
  <2>5. QED
    BY <2>2, <2>3, <2>4
<1>4. DOMAIN s = 1 .. n /\ s = [i \in 1 .. n |-> s[i]]
      /\ \A i \in 1 .. n : s[i] = Emitted(census[i]) \o Declared(census[i])
  <2> HIDE DEF Emitted, Declared, census
  <2> QED BY <1>3
<1>5. records(b, words) = FlattenSeq(s)
  BY DEF records
<1> HIDE DEF Emitted, Declared, census, s, Of
<1>6. ASSUME NEW i \in 1 .. n PROVE IsSequence(s[i]) /\ \A x \in Range(s[i]) : Of(x)
  <2>1. valid_stream_id(census[i])
    BY <1>3
  <2> DEFINE f == Emitted(census[i])
             g == Declared(census[i])
  <2>2. /\ IsSequence(f) /\ (\A x \in Range(f) : Of(x))
        /\ IsSequence(g) /\ (\A x \in Range(g) : Of(x))
        /\ s[i] = f \o g
    BY <1>1, <1>2, <1>4, <2>1
  <2> HIDE DEF f, g
  <2>3. IsSequence(f \o g) /\ \A x \in Range(f \o g) : x \in Range(f) \/ x \in Range(g)
    BY <2>2, JoinedFrom
  <2>4. QED
    BY <2>2, <2>3
<1>7. /\ IsSequence(FlattenSeq(s))
      /\ \A x \in Range(FlattenSeq(s)) : \E i \in 1 .. n : x \in Range(s[i])
  BY <1>4, <1>6, FlattenedFrom
<1>8. QED
  BY <1>5, <1>6, <1>7 DEF Of

LEMMA DocumentsFrom ==
    ASSUME NEW b \in Range(Builds), NEW words
    PROVE  /\ IsSequence(documents(b, Library, words))
           /\ \A x \in Range(documents(b, Library, words)) : EmittedIn(b, x.place)
<1> DEFINE root == sources_root(b.root)
           lines(d) == Library[<<root.at, d.path>>]
           Held(d) == IF ~d.climbs /\ <<root.at, d.path>> \in DOMAIN Library
                      THEN offered(<<"document", d.id>>, lines(d), words) ELSE <<>>
           s == [i \in DOMAIN b.documents |-> Held(b.documents[i])]
<1>1. CASE b.index # "held" \/ ~root.ok
  BY <1>1, Listless DEF documents
<1>2. CASE ~(b.index # "held" \/ ~root.ok)
  <2>1. documents(b, Library, words) = FlattenSeq(s)
    BY <1>2 DEF documents
  <2>2. IsSequence(b.documents)
    BY <1>2, BuildsAssumption
  <2>3. PICK n \in Nat : DOMAIN b.documents = 1 .. n
    BY <2>2, SequenceDomain
  <2>4. ASSUME NEW d PROVE IsSequence(Held(d)) /\ \A x \in Range(Held(d)) : EmittedIn(b, x.place)
    <3>1. CASE ~d.climbs /\ <<root.at, d.path>> \in DOMAIN Library
      <4> DEFINE l == lines(d)
                 place == <<"document", d.id>>
      <4>1. IsSequence(l)
        BY <3>1, LibraryAssumption
      <4>2. Held(d) = offered(place, l, words)
        BY <3>1
      <4>3. EmittedIn(b, place)
        <5>1. place[1] = "document"
          OBVIOUS
        <5>2. QED
          BY <5>1 DEF EmittedIn
      <4> HIDE DEF l, place, Held
      <4>4. QED
        BY <4>1, <4>2, <4>3, OfferedOf
    <3>2. CASE ~(~d.climbs /\ <<root.at, d.path>> \in DOMAIN Library)
      <4>1. Held(d) = <<>>
        BY <3>2
      <4> HIDE DEF Held
      <4>2. QED
        BY <4>1, Listless
    <3>3. QED
      BY <3>1, <3>2
  <2>5. DOMAIN s = 1 .. n /\ s = [i \in 1 .. n |-> s[i]]
        /\ \A i \in 1 .. n : s[i] = Held(b.documents[i])
    <3> HIDE DEF Held
    <3> QED BY <2>3
  <2> HIDE DEF s, Held
  <2>6. \A i \in 1 .. n : IsSequence(s[i]) /\ \A x \in Range(s[i]) : EmittedIn(b, x.place)
    BY <2>4, <2>5
  <2>7. /\ IsSequence(FlattenSeq(s))
        /\ \A x \in Range(FlattenSeq(s)) : \E i \in 1 .. n : x \in Range(s[i])
    BY <2>5, <2>6, FlattenedFrom
  <2>8. QED
    BY <2>1, <2>6, <2>7
<1>3. QED
  BY <1>1, <1>2

-----------------------------------------------------------------------------
(* What a tool says.                                                         *)

\* An answer has a size, and says itself what was withheld from it.
Honest(result) ==
    result.ok => result.text.size \in Nat /\ (result.text.withheld => result.text.said)

LEMMA AnsweredHonest ==
    ASSUME NEW n \in Nat
    PROVE  Honest(Answered(n)) /\ Answered(n).ok
BY DEF Honest, Answered, Text, HEAD, ROW

LEMMA TextHonest ==
    ASSUME NEW size \in Nat, NEW withheld \in BOOLEAN, NEW said \in BOOLEAN, withheld => said
    PROVE  Honest([ok |-> TRUE, text |-> [size |-> size, withheld |-> withheld, said |-> said]])
<1> DEFINE text == [size |-> size, withheld |-> withheld, said |-> said]
           result == [ok |-> TRUE, text |-> text]
<1>1. text.size = size /\ text.withheld = withheld /\ text.said = said /\ result.text = text
  OBVIOUS
<1> HIDE DEF text
<1>2. result.text.size \in Nat /\ (result.text.withheld => result.text.said)
  BY <1>1
<1>3. QED
  BY <1>2 DEF Honest, text

LEMMA RefusedHonest == \A why : Honest(Refused(why)) /\ ~Refused(why).ok
BY DEF Honest, Refused

LEMMA KeptLen ==
    ASSUME NEW s, IsSequence(s), NEW yes
    PROVE  IsSequence(Kept(s, yes)) /\ Len(Kept(s, yes)) \in Nat
BY KeptAmong, SequenceOf

LEMMA FirstLen ==
    ASSUME NEW s, IsSequence(s)
    PROVE  Len(First(s)) \in Nat /\ (Len(s) > 0 => First(s) # <<>>)
<1>1. PICK n \in Nat : n = Len(s)
  BY SequenceDomain
<1> DEFINE m == Least(1, Len(s))
<1>2. m \in 0 .. Len(s) /\ (n > 0 => m = 1)
  BY <1>1 DEF Least
<1> HIDE DEF m
<1>3. Len(SubSeq(s, 1, m)) = m
  BY <1>2, PrefixFrom
<1>4. First(s) = SubSeq(s, 1, m)
  BY DEF First, m
<1>5. m \in Nat /\ Len(<<>>) = 0
  BY <1>1, <1>2
<1>6. QED
  BY <1>1, <1>2, <1>3, <1>4, <1>5

LEMMA ReadSourceHonest ==
    ASSUME NEW b \in Range(Builds), NEW input
    PROVE  Honest(read_source(input, b))
<1> SUFFICES ASSUME b.index = "held" PROVE Honest(read_source(input, b))
  BY RefusedHonest DEF read_source, read_index
<1>1. IsSequence(b.documents) /\ IsSequence(b.tags)
  BY BuildsAssumption
<1>2. Honest(one_tag(b, input.tag))
  BY AnsweredHonest, RefusedHonest DEF one_tag
<1>3. Honest(a_document(b, input.document, input.heading))
  <2> DEFINE held == First(Kept(b.documents,
                           {d \in Range(b.documents) : d.id = input.document \/ d.path = input.document}))
             yes == {t \in Range(b.tags) : t.document = held[1].id /\ input.heading \subseteq t.heading}
             passages == Kept(b.tags, yes)
  <2>1. a_document(b, input.document, input.heading)
          = IF held = <<>> THEN Refused("no such document")
            ELSE IF passages = <<>> THEN Refused("no tag under it")
            ELSE Answered(Len(passages))
    BY DEF a_document
  <2> HIDE DEF held, yes
  <2>2. Len(passages) \in Nat
    BY <1>1, KeptLen
  <2> HIDE DEF passages
  <2>3. QED
    BY <2>1, <2>2, AnsweredHonest, RefusedHonest
<1>4. QED
  BY <1>2, <1>3, RefusedHonest DEF read_source

\* A document is read, or it is too large.
LEMMA ReadOrLarge ==
    ASSUME NEW b, NEW document, NEW held
    PROVE  \/ read(b, document, held).ok /\ read(b, document, held).held = held
           \/ read(b, document, held) = Refused("too large")
<1>1. [ok |-> TRUE, held |-> held].ok /\ [ok |-> TRUE, held |-> held].held = held
  OBVIOUS
<1>2. QED
  BY <1>1, Zenon DEF read

LEMMA ListRead ==
    ASSUME NEW b, NEW stream
    PROVE  \/ /\ stream \in DOMAIN b.emits
              /\ decide_now_of(b, stream).ok /\ decide_now_of(b, stream).held = b.emits[stream]
           \/ /\ stream \in DOMAIN b.emits
              /\ decide_now_of(b, stream) = Refused("too large")
           \/ /\ stream \notin DOMAIN b.emits
              /\ decide_now_of(b, stream) = Refused("no decide-now list")
BY ReadOrLarge DEF decide_now_of

LEMMA RefusalOf == \A why : Refused(why).ok = FALSE /\ Refused(why).why = why
BY DEF Refused

\* A record is answered when the build emitted a row of its slot, in a list that
\* can be read.
LEMMA RecordAnswered ==
    ASSUME NEW b \in Range(Builds), NEW stream, stream \in DOMAIN b.emits, NEW slot
    PROVE  /\ Honest(record(b, stream, slot))
           /\ (\E i \in 1 .. Len(b.emits[stream].questions) :
                  b.emits[stream].questions[i].slot = slot)
              => record(b, stream, slot).ok \/ record(b, stream, slot).why = "too large"
<1> SUFFICES ASSUME decide_now_of(b, stream) # Refused("too large")
             PROVE  /\ Honest(record(b, stream, slot))
                    /\ (\E i \in 1 .. Len(b.emits[stream].questions) :
                           b.emits[stream].questions[i].slot = slot)
                       => record(b, stream, slot).ok
  <2>1. CASE decide_now_of(b, stream) = Refused("too large")
    <3>1. record(b, stream, slot) = Refused("too large")
      BY <2>1, RefusalOf DEF record
    <3>2. QED
      BY <3>1, RefusedHonest, RefusalOf
  <2>2. QED
    BY <2>1
<1> DEFINE list == b.emits[stream]
           yes == {row \in Range(list.questions) : row.slot = slot}
           decides == {r \in Range(list.rulings) : r.decides = slot}
           row == row_of(list, slot)
           ruling == ruling_of(list, slot)
           rest == IF stream \in DOMAIN b.projects
                      /\ <<"projection", stream>> \notin b.large THEN 1 ELSE 0
<1>1. IsSequence(list.questions) /\ IsSequence(list.rulings)
  BY BuildsAssumption
<1>2. row = First(Kept(list.questions, yes)) /\ ruling = First(Kept(list.rulings, decides))
  BY DEF row_of, ruling_of
<1>3. record(b, stream, slot)
        = IF row = <<>> THEN Refused("no such row") ELSE Answered(1 + Len(ruling) + rest)
  <2>1. decide_now_of(b, stream).ok /\ decide_now_of(b, stream).held = list
    BY ListRead
  <2> HIDE DEF list
  <2>2. QED
    BY <2>1 DEF record
<1>4. \A i \in 1 .. Len(list.questions) : list.questions[i].slot = slot => list.questions[i] \in yes
  BY <1>1, SequenceDomain
<1> HIDE DEF list, yes, decides, row, ruling
<1>5. /\ IsSequence(Kept(list.questions, yes))
      /\ \A i \in 1 .. Len(list.questions) :
            list.questions[i] \in yes => Len(Kept(list.questions, yes)) > 0
  BY <1>1, KeptAmong, SequenceOf
<1>6. IsSequence(Kept(list.rulings, decides))
  BY <1>1, KeptLen
<1>7. /\ Len(Kept(list.questions, yes)) > 0 => row # <<>>
      /\ Len(ruling) \in Nat
  BY <1>2, <1>5, <1>6, FirstLen
<1>8. 1 + Len(ruling) + rest \in Nat
  <2>1. rest = 1 \/ rest = 0
    BY Zenon DEF rest
  <2>2. ASSUME NEW m \in Nat, NEW k, k = 1 \/ k = 0 PROVE 1 + m + k \in Nat
    BY ONLY <2>2
  <2> DEFINE length == Len(ruling)
  <2>3. length \in Nat
    BY <1>7
  <2> HIDE DEF rest, length
  <2>4. 1 + length + rest \in Nat
    BY ONLY <2>1, <2>2, <2>3
  <2>5. QED
    BY <2>4 DEF length
<1> HIDE DEF rest
<1>9. Honest(record(b, stream, slot)) /\ (row # <<>> => record(b, stream, slot).ok)
  BY <1>3, <1>8, AnsweredHonest, RefusedHonest
<1>10. (\E i \in 1 .. Len(list.questions) : list.questions[i].slot = slot) => row # <<>>
  BY <1>4, <1>5, <1>7
<1>11. QED
  BY <1>9, <1>10 DEF list

LEMMA RulingsHonest ==
    ASSUME NEW b \in Range(Builds), NEW slot
    PROVE  Honest(rulings(b, slot))
<1> SUFFICES ASSUME read(b, <<"census">>, streams_of(b)) # Refused("too large")
             PROVE  Honest(rulings(b, slot))
  <2>1. CASE read(b, <<"census">>, streams_of(b)) = Refused("too large")
    <3>1. rulings(b, slot) = Refused("too large")
      BY <2>1, RefusalOf DEF rulings
    <3>2. QED
      BY <3>1, RefusedHonest
  <2>2. QED
    BY <2>1
<1> DEFINE yes(stream) == {r \in Range(b.emits[stream].rulings) :
                              slot \in {r.decides, r.selects, r.reopens} \cup r.occurred}
           of(stream) == IF decide_now_of(b, stream).ok
                         THEN Kept(b.emits[stream].rulings, yes(stream)) ELSE <<>>
           census == streams_of(b)
           s == [i \in DOMAIN census |-> of(census[i])]
<1>1. rulings(b, slot) = Answered(Len(FlattenSeq(s)))
  <2>1. /\ read(b, <<"census">>, streams_of(b)).ok
        /\ read(b, <<"census">>, streams_of(b)).held = census
    BY ReadOrLarge
  <2>2. QED
    BY <2>1 DEF rulings
<1>2. PICK n \in Nat : DOMAIN census = 1 .. n
  <2> DEFINE valid == {id \in Range(b.listed) : valid_stream_id(id)}
  <2>1. IsSequence(b.listed)
    BY BuildsAssumption
  <2>2. census = Kept(b.listed, valid)
    BY DEF streams_of
  <2> HIDE DEF valid, census
  <2>3. QED
    BY <2>1, <2>2, KeptLen, SequenceDomain
<1>3. ASSUME NEW stream PROVE IsSequence(of(stream))
  <2>1. CASE decide_now_of(b, stream).ok
    <3>1. IsSequence(b.emits[stream].rulings)
      <4>1. stream \in DOMAIN b.emits
        BY <2>1, ListRead, RefusalOf
      <4>2. QED
        BY <4>1, BuildsAssumption
    <3>2. of(stream) = Kept(b.emits[stream].rulings, yes(stream))
      BY <2>1
    <3> HIDE DEF yes, of
    <3>3. QED
      BY <3>1, <3>2, KeptLen
  <2>2. CASE ~decide_now_of(b, stream).ok
    BY <2>2, Listless
  <2>3. QED
    BY <2>1, <2>2
<1> HIDE DEF of, census
<1>4. DOMAIN s = 1 .. n /\ s = [i \in 1 .. n |-> s[i]] /\ \A i \in 1 .. n : s[i] = of(census[i])
  BY <1>2
<1> HIDE DEF s
<1>5. IsSequence(FlattenSeq(s))
  BY <1>3, <1>4, FlattenedFrom
<1>6. Len(FlattenSeq(s)) \in Nat
  BY <1>5, SequenceDomain
<1>7. QED
  BY <1>1, <1>6, AnsweredHonest

LEMMA GyldHonest ==
    ASSUME NEW b \in Range(Builds), NEW input
    PROVE  Honest(gyld_query(input, b))
<1>1. Honest(streams(b))
  <2>1. IsSequence(b.listed)
    BY BuildsAssumption
  <2>2. Honest(Answered(Len(b.listed)))
    BY <2>1, SequenceDomain, AnsweredHonest
  <2>3. CASE read(b, <<"census">>, b.listed).ok /\ read(b, <<"census">>, b.listed).held = b.listed
    BY <2>2, <2>3 DEF streams
  <2>4. CASE read(b, <<"census">>, b.listed) = Refused("too large")
    <3>1. streams(b) = Refused("too large")
      BY <2>4, RefusalOf DEF streams
    <3>2. QED
      BY <3>1, RefusedHonest
  <2>5. QED
    BY <2>3, <2>4, ReadOrLarge
<1>2. ASSUME NEW stream PROVE Honest(decide_now(b, stream))
  <2>1. CASE decide_now_of(b, stream).ok
    <3> DEFINE q == b.emits[stream].questions
    <3>1. stream \in DOMAIN b.emits /\ decide_now_of(b, stream).held = b.emits[stream]
      BY <2>1, ListRead, RefusalOf
    <3>2. IsSequence(q)
      BY <3>1, BuildsAssumption
    <3>3. decide_now(b, stream) = Answered(Len(q))
      BY <2>1, <3>1 DEF decide_now
    <3> HIDE DEF q
    <3>4. QED
      BY <3>2, <3>3, SequenceDomain, AnsweredHonest
  <2>2. CASE ~decide_now_of(b, stream).ok
    <3>1. PICK why : decide_now_of(b, stream) = Refused(why)
      <4>1. \/ decide_now_of(b, stream) = Refused("too large")
            \/ decide_now_of(b, stream) = Refused("no decide-now list")
        BY <2>2, ListRead
      <4>2. QED
        BY <4>1
    <3>2. decide_now(b, stream) = Refused(why)
      BY <3>1, RefusalOf DEF decide_now
    <3>3. QED
      BY <3>2, RefusedHonest
  <2>3. QED
    BY <2>1, <2>2
<1>3. ASSUME NEW stream, NEW slot PROVE Honest(record(b, stream, slot))
  <2>1. CASE stream \notin DOMAIN b.emits
    <3>1. record(b, stream, slot) = Refused("no decide-now list")
      BY <2>1, ListRead, RefusalOf DEF record
    <3>2. QED
      BY <3>1, RefusedHonest
  <2>2. QED
    BY <2>1, RecordAnswered
<1>4. \A slot : Honest(rulings(b, slot))
  BY RulingsHonest
<1>5. \A left, right : Honest(diff(b, left, right))
  <2>1. 1 \in Nat
    OBVIOUS
  <2>2. ASSUME NEW left, NEW right PROVE Honest(diff(b, left, right))
    <3> DEFINE emitted == read(b, <<"diff", left, right>>, <<left, right>>)
    <3>1. diff(b, left, right) = IF <<left, right>> \notin b.diffs THEN Refused("no such diff")
                                 ELSE IF emitted.ok THEN Answered(1) ELSE emitted
      BY DEF diff
    <3>2. emitted.ok \/ emitted = Refused("too large")
      BY ReadOrLarge
    <3> HIDE DEF emitted
    <3>3. QED
      BY <2>1, <3>1, <3>2, AnsweredHonest, RefusedHonest
  <2>3. QED
    BY <2>2
<1>6. QED
  BY <1>1, <1>2, <1>3, <1>4, <1>5, RefusedHonest DEF gyld_query

LEMMA LimitIsOne ==
    ASSUME NEW limit, limit = <<>> \/ limit[1] \in Int
    PROVE  limit_of(limit) \in Nat
BY DEF limit_of, DEFAULT_HITS, MAX_HITS

\* Every row that a search found by its label is one that the build emitted.
LEMMA SearchFinds ==
    ASSUME NEW b \in Range(Builds), NEW input, input.limit = <<>> \/ input.limit[1] \in Int
    PROVE  /\ Honest(search_sources(input, b, Library))
           /\ search_sources(input, b, Library).ok
              => \A h \in search_sources(input, b, Library).hits : EmittedIn(b, h.place)
<1> DEFINE left == documents(b, Library, input.words)
           right == records(b, input.words)
           matched == left \o right
           n == Least(Len(matched), limit_of(input.limit))
           hits == SubSeq(matched, 1, n)
           cut == Len(matched) > Len(hits)
           refused_words == input.words = {} \/ Cardinality(input.words) > MAX_WORDS
           result == search_sources(input, b, Library)
<1>1. result = IF refused_words THEN Refused("query")
               ELSE [ok |-> TRUE,
                     text |-> [size |-> HEAD + ROW * Len(hits), withheld |-> cut, said |-> cut],
                     hits |-> {hits[i] : i \in DOMAIN hits}]
  BY DEF search_sources
<1>2. /\ IsSequence(left) /\ IsSequence(right)
      /\ \A x \in Range(left) : EmittedIn(b, x.place)
      /\ \A x \in Range(right) : EmittedIn(b, x.place)
  BY DocumentsFrom, RecordsFrom
<1> HIDE DEF left, right, refused_words, result
<1>3. IsSequence(matched) /\ \A x \in Range(matched) : EmittedIn(b, x.place)
  BY <1>2, JoinedFrom
<1> HIDE DEF matched
<1>4. n \in 0 .. Len(matched)
  <2>1. Len(matched) \in Nat /\ limit_of(input.limit) \in Nat
    BY <1>3, SequenceDomain, LimitIsOne
  <2>2. QED
    BY <2>1 DEF Least
<1> HIDE DEF n
<1>5. /\ IsSequence(hits) /\ Len(hits) = n
      /\ Range(hits) \subseteq Range(matched)
  BY <1>3, <1>4, PrefixFrom
<1>6. Len(hits) \in Nat
  BY <1>5, SequenceDomain
<1>7. \A i \in DOMAIN hits : EmittedIn(b, hits[i].place)
  <2> HIDE DEF hits
  <2> QED BY <1>3, <1>5 DEF Range
<1> HIDE DEF hits, cut
<1>8. Honest(result)
  <2>1. CASE refused_words
    BY <1>1, <2>1, RefusedHonest
  <2>2. CASE ~refused_words
    BY <1>1, <1>6, <2>2 DEF Honest, HEAD, ROW
  <2>3. QED
    BY <2>1, <2>2
<1>9. result.ok => \A h \in result.hits : EmittedIn(b, h.place)
  <2>1. CASE refused_words
    BY <1>1, <2>1, RefusedHonest
  <2>2. CASE ~refused_words
    <3>1. result.hits = {hits[i] : i \in DOMAIN hits}
      BY <1>1, <2>2
    <3>2. QED
      BY <1>7, <3>1
  <2>3. QED
    BY <2>1, <2>2
<1>10. QED
  BY <1>8, <1>9 DEF result

-----------------------------------------------------------------------------
(* What the tools over the network say.                                      *)

\* What the web answers has sizes, and a provider's rows are a list.
Measured(tool, response) ==
    CASE tool = "fetch_url" -> {response.size, response.stump, response.markup} \subseteq Nat
      [] tool = "github" -> {response.body.size, response.body.entries} \subseteq Nat
      [] tool = "web_search" -> response.json => IsSequence(response.rows)

WebIsMeasured ==
    \A tool \in NetworkTools : \A url : \A response \in Web(tool, url) : Measured(tool, response)

LEMMA PageHonest ==
    ASSUME NEW response, Measured("fetch_url", response), NEW cap \in Nat
    PROVE  Honest(read_page(response, cap))
<1>1. response.size \in Nat /\ response.stump \in Nat /\ response.markup \in Nat
  BY DEF Measured
<1> DEFINE taken == take(response, cap)
<1>2. taken.size \in Nat /\ (response.size > cap => taken.truncated)
  BY <1>1 DEF take, Least, Less
<1>3. to_text(taken.size, response) \in Nat
  <2> HIDE DEF taken
  <2> QED BY <1>1, <1>2 DEF to_text, Less
<1>4. CASE ~readable(response.type)
  BY <1>4, RefusedHonest DEF read_page
<1>5. CASE readable(response.type)
  <2>1. read_page(response, cap)
          = [ok |-> TRUE, text |-> [size |-> HEADER + to_text(taken.size, response),
                                    withheld |-> response.size > cap, said |-> taken.truncated]]
    BY <1>5 DEF read_page
  <2>2. HEADER + to_text(taken.size, response) \in Nat
    <3> HIDE DEF taken
    <3> QED BY <1>3 DEF HEADER
  <2>3. (response.size > cap) \in BOOLEAN /\ taken.truncated \in BOOLEAN
    BY DEF take
  <2> HIDE DEF taken
  <2>4. QED
    BY <1>2, <2>1, <2>2, <2>3, TextHonest
<1>6. QED
  BY <1>4, <1>5

LEMMA GithubHonest ==
    ASSUME NEW response, Measured("github", response), NEW input, NEW cap \in Nat
    PROVE  Honest(github_reads(input, response, cap))
<1> DEFINE body == response.body
<1>1. body.size \in Nat /\ body.entries \in Nat
  BY DEF Measured
<1> HIDE DEF body
<1>2. Honest(with_contents(body, cap))
  <2> DEFINE room == Less(cap, HEAD + 128)
             cut == body.size > room
             size == HEAD + (IF cut THEN room + 85 ELSE body.size)
  <2>1. CASE body.encoding = "none"
    <3>1. HEAD + LINE \in Nat
      BY DEF HEAD, LINE
    <3>2. QED
      BY <2>1, <3>1, TextHonest DEF with_contents
  <2>2. CASE body.encoding \notin {"none", "base64", ""}
    <3>1. \E why : with_contents(body, cap) = Refused(why)
      BY <2>2 DEF with_contents
    <3>2. QED
      BY <3>1, RefusedHonest
  <2>3. CASE body.encoding \in {"base64", ""}
    <3>1. with_contents(body, cap)
            = [ok |-> TRUE, text |-> [size |-> size, withheld |-> cut, said |-> cut]]
      BY <2>3 DEF with_contents
    <3>2. room \in Nat
      BY DEF Less, HEAD
    <3>3. cut \in BOOLEAN
      OBVIOUS
    <3> HIDE DEF room, cut
    <3>4. size \in Nat
      BY <1>1, <3>2 DEF HEAD
    <3> HIDE DEF size
    <3>5. QED
      BY <3>1, <3>3, <3>4, TextHonest
  <2>4. QED
    BY <2>1, <2>2, <2>3
<1>3. Honest(found(body.entries, cap))
  <2> DEFINE last == Less(cap, HEAD) \div LINE + 1
  <2>1. last \in Nat
    BY DEF Less, HEAD, LINE
  <2> HIDE DEF last
  <2>2. found(body.entries, cap)
          = [ok |-> TRUE,
             text |-> [size |-> HEAD + LINE * (IF body.entries < last THEN body.entries ELSE last + 1),
                       withheld |-> body.entries > last, said |-> body.entries >= last]]
    BY DEF found, last
  <2> DEFINE size == HEAD + LINE * (IF body.entries < last THEN body.entries ELSE last + 1)
             withheld == body.entries > last
             said == body.entries >= last
  <2>3. size \in Nat /\ withheld \in BOOLEAN /\ said \in BOOLEAN /\ (withheld => said)
    BY <1>1, <2>1 DEF HEAD, LINE
  <2>4. found(body.entries, cap) = [ok |-> TRUE, text |-> [size |-> size, withheld |-> withheld, said |-> said]]
    BY <2>2
  <2> HIDE DEF size, withheld, said
  <2>5. QED
    BY <2>3, <2>4, TextHonest
<1>4. \A entries \in Nat : Honest(listing(entries))
  BY DEF listing, Honest, Text, HEAD, LINE
<1>5. 1 \in Nat
  OBVIOUS
<1>6. CASE ~answered_read(response).ok
  BY <1>6 DEF github_reads, Honest
<1>7. CASE answered_read(response).ok
  BY <1>1, <1>2, <1>3, <1>4, <1>5, <1>7 DEF github_reads, body
<1>8. QED
  BY <1>6, <1>7

LEMMA SearchReads ==
    ASSUME NEW response, Measured("web_search", response), NEW input,
           input.limit = <<>> \/ input.limit[1] \in Int
    PROVE  search_reads(input, response).ok => search_reads(input, response).text.size \in Nat
<1> DEFINE held == fetched(response)
           yes == {row \in Range(held.rows) : row.url}
           hits == Kept(held.rows, yes)
<1>1. CASE ~held.ok
  BY <1>1 DEF search_reads
<1>2. CASE held.ok
  <2>1. IsSequence(held.rows)
    BY <1>2 DEF fetched, Refused, Measured
  <2> HIDE DEF held, yes
  <2>2. Len(hits) \in Nat
    BY <2>1, KeptLen
  <2>3. limit_of_web(input.limit) \in Nat
    BY DEF limit_of_web, DEFAULT_WEB_HITS, MAX_WEB_HITS
  <2>4. search_reads(input, response)
          = [ok |-> TRUE,
             text |-> [size |-> HEADER + LINK * Least(Len(hits), limit_of_web(input.limit)),
                       withheld |-> Len(hits) > limit_of_web(input.limit), said |-> FALSE]]
    BY <1>2 DEF search_reads, held, yes
  <2> HIDE DEF hits
  <2>5. QED
    BY <2>2, <2>3, <2>4 DEF HEADER, LINK, Least
<1>3. QED
  BY <1>1, <1>2

-----------------------------------------------------------------------------
(* The inductive invariant.                                                  *)

\* The desk: its builds, its files and its token.
DeskOK ==
    /\ latest \in 1 .. Len(Builds) /\ edits \in 0 .. MaxEdits /\ faults \in 0 .. MaxFaults
    /\ env \in Envs /\ file \in Files
    /\ keys \in [KeyFiles -> KeyStates \cup {"private"}]
    /\ token \in {"undiscovered", "none", "env", "gh"}

\* The turns a call may be made in, or may have been made in.
Late == {"open", "posted", "waiting", "ended"}

\* A turn holds its build from its planning on, and its configuration from its
\* first step on.
TurnOK(t) ==
    /\ (posted[t] # None) <=> (pc[t] = "posted")
    /\ plan[t].build \in 0 .. latest
    /\ pc[t] \notin {"new", "ended"} => plan[t].build \in 1 .. latest
    /\ pc[t] \notin {"new", "planned", "ended"} => conf[t] # None /\ Settled(conf[t][1])

TurnsOK ==
    /\ pc \in [TurnIds -> Phases]
    /\ enabled \in [TurnIds -> SUBSET Offered]
    /\ DOMAIN plan = TurnIds /\ DOMAIN conf = TurnIds /\ DOMAIN posted = TurnIds
    /\ \A t \in TurnIds : TurnOK(t)

\* A call is what the model reached for, and how far its thread has got.
ThreadOK(c) ==
    /\ c = [turn |-> c.turn, tool |-> c.tool, input |-> c.input, phase |-> c.phase,
            request |-> c.request, hops |-> c.hops, result |-> c.result, answer |-> c.answer]
    /\ c.turn \in TurnIds
    /\ \E t \in TurnIds, n \in 1 .. MaxCalls : [tool |-> c.tool, input |-> c.input] \in Reaches(t, n)
    /\ c.phase \in ThreadPhases
    /\ c.hops \in 0 .. Chain(c.tool)
    /\ (c.request # None) <=> (c.phase = "asked")
    /\ c.phase = "asked" => c.tool \in NetworkTools
    /\ c.result # None => c.phase \in {"told", "ended"}
    /\ c.phase = "told" => c.result # None
    /\ c.phase \in {"told", "dropped"} => c.answer = None
    /\ c.answer = None => c.phase # "ended"

\* Its turn is one that got so far, with its build, its configuration and the
\* tool; and waits for it as long as it has no answer.
BelongsOK(c) ==
    /\ pc[c.turn] \in Late
    /\ plan[c.turn].build \in 1 .. latest
    /\ conf[c.turn] # None /\ Settled(conf[c.turn][1])
    /\ c.phase # "ended" => c.tool \in enabled[c.turn]
    /\ c.answer = None => pc[c.turn] = "waiting"

\* The record a call asks for is a row the build emitted.
AsksEmitted(c, b) ==
    /\ c.tool = "gyld_query" /\ c.input.kind = "record"
    /\ Nameable(c.input.slot)
    /\ EmittedIn(b, <<"label", c.input.stream, c.input.slot>>)

\* What the thread said is what its tool may say of the turn's build.
SizedOK(c, result) ==
    /\ result.ok => result.text.size \in Nat
    /\ c.tool # "web_search" => Honest(result)
SaidOK(c, b, result) ==
    /\ WebIsMeasured => SizedOK(c, result)
    /\ c.tool = "search_sources" /\ result.ok => \A h \in result.hits : EmittedIn(b, h.place)
    /\ AsksEmitted(c, b) => result.ok \/ result.why = "too large"

Unheard == {"not enabled", "ended without answering", "did not answer in time", "too large"}

\* And what the turn was answered is that, kept to the budget.
CutOK(c, budget, answer) ==
    answer.ok => /\ answer.size <= budget
                 /\ c.tool # "web_search" /\ answer.withheld => answer.truncated \/ answer.said
HeardOK(c, b, budget, answer) ==
    /\ WebIsMeasured => CutOK(c, budget, answer)
    /\ c.tool = "search_sources" => \A h \in answer.hits : EmittedIn(b, h.place)
    /\ AsksEmitted(c, b) => answer.ok \/ answer.why \in Unheard

FitsOK(c) ==
    /\ c.result # None => SaidOK(c, Builds[plan[c.turn].build], c.result[1])
    /\ c.answer # None => HeardOK(c, Builds[plan[c.turn].build], conf[c.turn][1].tools.bytes, c.answer[1])

CallsOK ==
    /\ IsSequence(calls) /\ Len(calls) <= MaxCalls
    /\ \A n \in DOMAIN calls : ThreadOK(calls[n]) /\ BelongsOK(calls[n]) /\ FitsOK(calls[n])

\* A turn that waits does so for one call.
WaitsOK ==
    \A t \in TurnIds : pc[t] = "waiting" =>
        \E n \in DOMAIN calls :
            \A m \in DOMAIN calls : (m = n) <=> (calls[m].turn = t /\ calls[m].answer = None)

-----------------------------------------------------------------------------
(* A step of one call.                                                       *)

\* The list with an element in the place of its n-th.
Replaced(s, n, x) == [m \in DOMAIN s |-> IF m = n THEN x ELSE s[m]]

LEMMA ReplacedList ==
    ASSUME NEW s, IsSequence(s), NEW n, NEW x
    PROVE  /\ IsSequence(Replaced(s, n, x)) /\ Len(Replaced(s, n, x)) = Len(s)
           /\ DOMAIN Replaced(s, n, x) = DOMAIN s
           /\ n \in DOMAIN s => Replaced(s, n, x)[n] = x
           /\ \A m \in DOMAIN s : m # n => Replaced(s, n, x)[m] = s[m]
<1> DEFINE t == Replaced(s, n, x)
<1>1. PICK k \in Nat : DOMAIN s = 1 .. k /\ k = Len(s)
  BY SequenceDomain
<1>2. /\ DOMAIN t = 1 .. k /\ t = [m \in 1 .. k |-> t[m]]
      /\ n \in DOMAIN s => t[n] = x
      /\ \A m \in DOMAIN s : m # n => t[m] = s[m]
  BY <1>1 DEF Replaced
<1> HIDE DEF t
<1>3. IsSequence(t) /\ Len(t) = k
  BY <1>2, FunctionListed
<1>4. QED
  BY <1>1, <1>2, <1>3 DEF t

LEMMA ExtendedList ==
    ASSUME NEW s, IsSequence(s), NEW x
    PROVE  /\ IsSequence(Append(s, x)) /\ Len(Append(s, x)) = Len(s) + 1
           /\ DOMAIN Append(s, x) = DOMAIN s \cup {Len(s) + 1}
           /\ Append(s, x)[Len(s) + 1] = x
           /\ \A m \in DOMAIN s : Append(s, x)[m] = s[m] /\ m # Len(s) + 1
<1> DEFINE D == Range(s) \cup {x}
           t == Append(s, x)
<1>1. PICK k \in Nat : DOMAIN s = 1 .. k /\ k = Len(s) /\ \A m \in 1 .. k : s[m] \in Range(s)
  BY SequenceDomain
<1>2. s \in Seq(D) /\ x \in D
  <2> DEFINE R == Range(s)
  <2>1. s \in Seq(R) /\ R \subseteq D
    BY DEF IsSequence
  <2> HIDE DEF R, D
  <2>2. s \in Seq(D)
    BY <2>1
  <2>3. QED
    BY <2>2 DEF D
<1> HIDE DEF D
<1>3. t \in Seq(D) /\ Len(t) = Len(s) + 1
  BY <1>2
<1>4. t[Len(s) + 1] = x /\ \A m \in 1 .. k : t[m] = s[m]
  BY <1>1, <1>2
<1>5. IsSequence(t) /\ DOMAIN t = 1 .. k + 1
  BY <1>1, <1>3, SequenceOf
<1>6. DOMAIN t = DOMAIN s \cup {Len(s) + 1} /\ \A m \in DOMAIN s : m # Len(s) + 1
  <2> HIDE DEF t
  <2> QED BY <1>1, <1>5
<1>7. QED
  BY <1>1, <1>3, <1>4, <1>5, <1>6

\* A call's record, of its eight fields.
Thread(turn, tool, input, phase, request, hops, result, answer) ==
    [turn |-> turn, tool |-> tool, input |-> input, phase |-> phase,
     request |-> request, hops |-> hops, result |-> result, answer |-> answer]

LEMMA PhaseSet ==
    ASSUME NEW turn, NEW tool, NEW input, NEW phase, NEW request, NEW hops, NEW result, NEW answer,
           NEW x
    PROVE  [Thread(turn, tool, input, phase, request, hops, result, answer) EXCEPT !.phase = x]
              = Thread(turn, tool, input, x, request, hops, result, answer)
BY DEF Thread

LEMMA RequestSet ==
    ASSUME NEW turn, NEW tool, NEW input, NEW phase, NEW request, NEW hops, NEW result, NEW answer,
           NEW x
    PROVE  [Thread(turn, tool, input, phase, request, hops, result, answer) EXCEPT !.request = x]
              = Thread(turn, tool, input, phase, x, hops, result, answer)
BY DEF Thread

LEMMA HopsSet ==
    ASSUME NEW turn, NEW tool, NEW input, NEW phase, NEW request, NEW hops, NEW result, NEW answer,
           NEW x
    PROVE  [Thread(turn, tool, input, phase, request, hops, result, answer) EXCEPT !.hops = x]
              = Thread(turn, tool, input, phase, request, x, result, answer)
BY DEF Thread

LEMMA ResultSet ==
    ASSUME NEW turn, NEW tool, NEW input, NEW phase, NEW request, NEW hops, NEW result, NEW answer,
           NEW x
    PROVE  [Thread(turn, tool, input, phase, request, hops, result, answer) EXCEPT !.result = x]
              = Thread(turn, tool, input, phase, request, hops, x, answer)
BY DEF Thread

LEMMA AnswerSet ==
    ASSUME NEW turn, NEW tool, NEW input, NEW phase, NEW request, NEW hops, NEW result, NEW answer,
           NEW x
    PROVE  [Thread(turn, tool, input, phase, request, hops, result, answer) EXCEPT !.answer = x]
              = Thread(turn, tool, input, phase, request, hops, result, x)
BY DEF Thread

\* The edits that the actions make of a record.
EditTold(c, p, r, q) == [c EXCEPT !.phase = p, !.result = r, !.request = q]
EditAsked(c, p, h, q) == [c EXCEPT !.phase = p, !.hops = h, !.request = q]
EditDropped(c, p, q) == [c EXCEPT !.phase = p, !.request = q]
EditAnswered(c, a, r, p) == [c EXCEPT !.answer = a, !.result = r, !.phase = p]

LEMMA ThreadTold ==
    ASSUME NEW turn, NEW tool, NEW input, NEW phase, NEW request, NEW hops, NEW result, NEW answer,
           NEW c, c = Thread(turn, tool, input, phase, request, hops, result, answer), NEW p, NEW r, NEW q
    PROVE  EditTold(c, p, r, q) = Thread(turn, tool, input, p, q, hops, r, answer)
<1> DEFINE d1 == [c EXCEPT !.phase = p]
           d2 == [d1 EXCEPT !.result = r]
<1>0. EditTold(c, p, r, q) = [d2 EXCEPT !.request = q]
  BY DEF EditTold
<1>1. d1 = Thread(turn, tool, input, p, request, hops, result, answer)
  BY PhaseSet
<1> HIDE DEF d1
<1>2. d2 = Thread(turn, tool, input, p, request, hops, r, answer)
  BY <1>1, ResultSet
<1> HIDE DEF d2
<1>3. QED
  BY <1>0, <1>2, RequestSet

LEMMA ThreadAsked ==
    ASSUME NEW turn, NEW tool, NEW input, NEW phase, NEW request, NEW hops, NEW result, NEW answer,
           NEW c, c = Thread(turn, tool, input, phase, request, hops, result, answer), NEW p, NEW h, NEW q
    PROVE  EditAsked(c, p, h, q) = Thread(turn, tool, input, p, q, h, result, answer)
<1> DEFINE d1 == [c EXCEPT !.phase = p]
           d2 == [d1 EXCEPT !.hops = h]
<1>0. EditAsked(c, p, h, q) = [d2 EXCEPT !.request = q]
  BY DEF EditAsked
<1>1. d1 = Thread(turn, tool, input, p, request, hops, result, answer)
  BY PhaseSet
<1> HIDE DEF d1
<1>2. d2 = Thread(turn, tool, input, p, request, h, result, answer)
  BY <1>1, HopsSet
<1> HIDE DEF d2
<1>3. QED
  BY <1>0, <1>2, RequestSet

LEMMA ThreadDropped ==
    ASSUME NEW turn, NEW tool, NEW input, NEW phase, NEW request, NEW hops, NEW result, NEW answer,
           NEW c, c = Thread(turn, tool, input, phase, request, hops, result, answer), NEW p, NEW q
    PROVE  EditDropped(c, p, q) = Thread(turn, tool, input, p, q, hops, result, answer)
<1> DEFINE d1 == [c EXCEPT !.phase = p]
<1>0. EditDropped(c, p, q) = [d1 EXCEPT !.request = q]
  BY DEF EditDropped
<1>1. d1 = Thread(turn, tool, input, p, request, hops, result, answer)
  BY PhaseSet
<1> HIDE DEF d1
<1>2. QED
  BY <1>0, <1>1, RequestSet

LEMMA ThreadAnswered ==
    ASSUME NEW turn, NEW tool, NEW input, NEW phase, NEW request, NEW hops, NEW result, NEW answer,
           NEW c, c = Thread(turn, tool, input, phase, request, hops, result, answer), NEW a, NEW r, NEW p
    PROVE  EditAnswered(c, a, r, p) = Thread(turn, tool, input, p, request, hops, r, a)
<1> DEFINE d1 == [c EXCEPT !.answer = a]
           d2 == [d1 EXCEPT !.result = r]
<1>0. EditAnswered(c, a, r, p) = [d2 EXCEPT !.phase = p]
  BY DEF EditAnswered
<1>1. d1 = Thread(turn, tool, input, phase, request, hops, result, a)
  BY AnswerSet
<1> HIDE DEF d1
<1>2. d2 = Thread(turn, tool, input, phase, request, hops, r, a)
  BY <1>1, ResultSet
<1> HIDE DEF d2
<1>3. QED
  BY <1>0, <1>2, PhaseSet

\* A call's fields, apart from the record they are read out of.
LEMMA ThreadOf ==
    ASSUME NEW c, ThreadOK(c)
    PROVE  \E turn, tool, input, phase, request, hops, result, answer :
              /\ c = Thread(turn, tool, input, phase, request, hops, result, answer)
              /\ c.turn = turn /\ c.tool = tool /\ c.input = input /\ c.phase = phase
              /\ c.request = request /\ c.hops = hops /\ c.result = result /\ c.answer = answer
<1>1. c = Thread(c.turn, c.tool, c.input, c.phase, c.request, c.hops, c.result, c.answer)
  BY DEF ThreadOK, Thread
<1>2. QED
  BY <1>1

LEMMA TellsTo ==
    ASSUME NEW n \in DOMAIN calls, ThreadOK(calls[n]), NEW said, Tells(n, said)
    PROVE  LET c == calls[n] IN
           calls' = Replaced(calls, n,
               Thread(c.turn, c.tool, c.input, IF c.answer = None THEN "told" ELSE "ended",
                      None, c.hops, <<said>>, c.answer))
<1> DEFINE c == calls[n]
           p == IF c.answer = None THEN "told" ELSE "ended"
           r == <<said>>
           q == None
           d == EditTold(c, p, r, q)
<1>1. calls' = [calls EXCEPT ![n].phase = p, ![n].result = r, ![n].request = q]
  BY DEF Tells, Waited
<1> HIDE DEF p, q, r
<1>2. calls' = Replaced(calls, n, d)
  BY <1>1 DEF Replaced, EditTold
<1>3. PICK turn, tool, input, phase, request, hops, result, answer :
        /\ c = Thread(turn, tool, input, phase, request, hops, result, answer)
        /\ c.turn = turn /\ c.tool = tool /\ c.input = input /\ c.phase = phase
        /\ c.request = request /\ c.hops = hops /\ c.result = result /\ c.answer = answer
  BY ThreadOf
<1> HIDE DEF c
<1>4. d = Thread(turn, tool, input, p, q, hops, r, answer)
  BY <1>3, ThreadTold
<1> HIDE DEF d
<1>5. d = Thread(c.turn, c.tool, c.input, p, q, c.hops, r, c.answer)
  BY <1>3, <1>4
<1>6. QED
  BY <1>2, <1>5 DEF c, p, q, r

LEMMA AsksTo ==
    ASSUME NEW n \in DOMAIN calls, ThreadOK(calls[n]), NEW url, NEW key, NEW count, Asks(n, url, key, count)
    PROVE  LET c == calls[n] IN
           calls' = Replaced(calls, n,
               Thread(c.turn, c.tool, c.input, "asked", <<[url |-> url, key |-> key]>>, count,
                      c.result, c.answer))
<1> DEFINE c == calls[n]
           p == "asked"
           q == <<[url |-> url, key |-> key]>>
           d == EditAsked(c, p, count, q)
<1>1. calls' = [calls EXCEPT ![n].phase = p, ![n].hops = count, ![n].request = q]
  BY DEF Asks
<1> HIDE DEF p, q
<1>2. calls' = Replaced(calls, n, d)
  BY <1>1 DEF Replaced, EditAsked
<1>3. PICK turn, tool, input, phase, request, hops, result, answer :
        /\ c = Thread(turn, tool, input, phase, request, hops, result, answer)
        /\ c.turn = turn /\ c.tool = tool /\ c.input = input /\ c.phase = phase
        /\ c.request = request /\ c.hops = hops /\ c.result = result /\ c.answer = answer
  BY ThreadOf
<1> HIDE DEF c
<1>4. d = Thread(turn, tool, input, p, q, count, result, answer)
  BY <1>3, ThreadAsked
<1> HIDE DEF d
<1>5. d = Thread(c.turn, c.tool, c.input, p, q, count, c.result, c.answer)
  BY <1>3, <1>4
<1>6. QED
  BY <1>2, <1>5 DEF c, p, q

LEMMA PanicsTo ==
    ASSUME NEW n \in DOMAIN calls, ThreadOK(calls[n]), Panics(n)
    PROVE  LET c == calls[n] IN
           calls' = Replaced(calls, n,
               Thread(c.turn, c.tool, c.input, IF c.answer = None THEN "dropped" ELSE "ended",
                      None, c.hops, c.result, c.answer))
<1> DEFINE c == calls[n]
           p == IF c.answer = None THEN "dropped" ELSE "ended"
           q == None
           d == EditDropped(c, p, q)
<1>1. calls' = [calls EXCEPT ![n].phase = p, ![n].request = q]
  BY DEF Panics, Waited
<1> HIDE DEF p, q
<1>2. calls' = Replaced(calls, n, d)
  BY <1>1 DEF Replaced, EditDropped
<1>3. PICK turn, tool, input, phase, request, hops, result, answer :
        /\ c = Thread(turn, tool, input, phase, request, hops, result, answer)
        /\ c.turn = turn /\ c.tool = tool /\ c.input = input /\ c.phase = phase
        /\ c.request = request /\ c.hops = hops /\ c.result = result /\ c.answer = answer
  BY ThreadOf
<1> HIDE DEF c
<1>4. d = Thread(turn, tool, input, p, q, hops, result, answer)
  BY <1>3, ThreadDropped
<1> HIDE DEF d
<1>5. d = Thread(c.turn, c.tool, c.input, p, q, c.hops, c.result, c.answer)
  BY <1>3, <1>4
<1>6. QED
  BY <1>2, <1>5 DEF c, p, q

LEMMA AnswersTo ==
    ASSUME NEW n \in DOMAIN calls, ThreadOK(calls[n]), NEW heard, Answers(n, heard)
    PROVE  LET c == calls[n] IN
           calls' = Replaced(calls, n,
               Thread(c.turn, c.tool, c.input,
                      IF c.phase \in {"told", "dropped"} THEN "ended" ELSE c.phase,
                      c.request, c.hops, None, <<heard>>))
<1> DEFINE c == calls[n]
           p == IF c.phase \in {"told", "dropped"} THEN "ended" ELSE c.phase
           r == None
           a == <<heard>>
           d == EditAnswered(c, a, r, p)
<1>1. calls' = [calls EXCEPT ![n].answer = a, ![n].result = r,
                             ![n].phase = IF @ \in {"told", "dropped"} THEN "ended" ELSE @]
  BY DEF Answers
<1>2. calls' = Replaced(calls, n, d)
  <2> HIDE DEF r, a
  <2> QED BY <1>1 DEF Replaced, EditAnswered
<1> HIDE DEF p, r, a
<1>3. PICK turn, tool, input, phase, request, hops, result, answer :
        /\ c = Thread(turn, tool, input, phase, request, hops, result, answer)
        /\ c.turn = turn /\ c.tool = tool /\ c.input = input /\ c.phase = phase
        /\ c.request = request /\ c.hops = hops /\ c.result = result /\ c.answer = answer
  BY ThreadOf
<1> HIDE DEF c
<1>4. d = Thread(turn, tool, input, p, request, hops, r, a)
  BY <1>3, ThreadAnswered
<1> HIDE DEF d
<1>5. d = Thread(c.turn, c.tool, c.input, p, c.request, c.hops, r, a)
  BY <1>3, <1>4
<1>6. QED
  BY <1>2, <1>5 DEF c, p, r, a

LEMMA TurnsSame ==
    ASSUME TurnsOK, UNCHANGED turnVars, latest' = latest
    PROVE  TurnsOK'
<1>1. pc' = pc /\ plan' = plan /\ conf' = conf /\ enabled' = enabled /\ posted' = posted
  BY DEF turnVars
<1>2. ASSUME NEW t \in TurnIds PROVE TurnOK(t)'
  <2>1. TurnOK(t)
    BY DEF TurnsOK
  <2>2. QED
    BY <1>1, <2>1 DEF TurnOK
<1>3. QED
  BY <1>1, <1>2 DEF TurnsOK

\* A step of the n-th call alone that leaves its turn and its answer.
LEMMA ThreadStep ==
    ASSUME TurnsOK, CallsOK, WaitsOK, UNCHANGED turnVars, latest' = latest,
           NEW n \in DOMAIN calls, NEW d, calls' = Replaced(calls, n, d), ThreadOK(d),
           d.turn = calls[n].turn, d.tool = calls[n].tool, d.input = calls[n].input,
           d.answer = calls[n].answer, calls[n].phase # "ended",
           d.result # None => SaidOK(calls[n], Builds[plan[calls[n].turn].build], d.result[1])
    PROVE  TurnsOK' /\ CallsOK' /\ WaitsOK'
<1> DEFINE c == calls[n]
<1>1. TurnsOK'
  BY TurnsSame
<1>2. pc' = pc /\ plan' = plan /\ conf' = conf /\ enabled' = enabled
  BY DEF turnVars
<1>3. /\ IsSequence(calls') /\ Len(calls') = Len(calls) /\ DOMAIN calls' = DOMAIN calls
      /\ calls'[n] = d /\ \A m \in DOMAIN calls : m # n => calls'[m] = calls[m]
  BY ReplacedList DEF CallsOK
<1>4. ThreadOK(c) /\ BelongsOK(c) /\ FitsOK(c)
  BY DEF CallsOK
<1>5. BelongsOK(d)
  BY <1>4 DEF BelongsOK
<1>6. FitsOK(d)
  <2> DEFINE b == Builds[plan[c.turn].build]
             budget == conf[c.turn][1].tools.bytes
  <2> HIDE DEF b, budget
  <2>1. \A result : SaidOK(c, b, result) => SaidOK(d, b, result)
    BY DEF SaidOK, SizedOK, AsksEmitted
  <2>2. \A answer : HeardOK(c, b, budget, answer) => HeardOK(d, b, budget, answer)
    BY DEF HeardOK, CutOK, AsksEmitted
  <2>3. c.answer # None => HeardOK(c, b, budget, c.answer[1])
    BY <1>4 DEF FitsOK, b, budget
  <2>4. d.result # None => SaidOK(c, b, d.result[1])
    BY DEF b
  <2>5. (d.result # None => SaidOK(d, b, d.result[1])) /\ (d.answer # None => HeardOK(d, b, budget, d.answer[1]))
    BY <2>1, <2>2, <2>3, <2>4
  <2>6. QED
    BY <2>5 DEF FitsOK, b, budget
<1>7. ASSUME NEW m \in DOMAIN calls'
      PROVE  (ThreadOK(calls[m]) /\ BelongsOK(calls[m]) /\ FitsOK(calls[m]))'
  <2>1. ThreadOK(calls'[m]) /\ BelongsOK(calls'[m]) /\ FitsOK(calls'[m])
    BY <1>3, <1>5, <1>6 DEF CallsOK
  <2>2. ThreadOK(calls[m])'
    BY <2>1 DEF ThreadOK
  <2>3. BelongsOK(calls[m])'
    BY <1>2, <2>1 DEF BelongsOK
  <2>4. FitsOK(calls[m])'
    BY <1>2, <2>1 DEF FitsOK
  <2>5. QED
    BY <2>2, <2>3, <2>4
<1>8. CallsOK'
  BY <1>3, <1>7 DEF CallsOK
<1>9. WaitsOK'
  <2>1. \A m \in DOMAIN calls : calls'[m].turn = calls[m].turn /\ calls'[m].answer = calls[m].answer
    BY <1>3
  <2> SUFFICES ASSUME NEW s \in TurnIds, pc'[s] = "waiting"
               PROVE  \E k \in DOMAIN calls' :
                         \A m \in DOMAIN calls' : (m = k) <=> (calls'[m].turn = s /\ calls'[m].answer = None)
    BY DEF WaitsOK
  <2>2. PICK k \in DOMAIN calls :
          \A m \in DOMAIN calls : (m = k) <=> (calls[m].turn = s /\ calls[m].answer = None)
    BY <1>2 DEF WaitsOK
  <2>3. DOMAIN calls' = DOMAIN calls
    BY <1>3
  <2>4. \A m \in DOMAIN calls' : (m = k) <=> (calls'[m].turn = s /\ calls'[m].answer = None)
    BY ONLY <2>1, <2>2, <2>3
  <2>5. QED
    BY <2>3, <2>4
<1>10. QED
  BY <1>1, <1>8, <1>9

LEMMA CallAt ==
    ASSUME CallsOK, NEW n \in DOMAIN calls
    PROVE  ThreadOK(calls[n]) /\ BelongsOK(calls[n]) /\ FitsOK(calls[n])
BY DEF CallsOK

LEMMA TellsStep ==
    ASSUME TurnsOK, CallsOK, WaitsOK, UNCHANGED turnVars, latest' = latest,
           NEW n \in DOMAIN calls, calls[n].phase \in {"begun", "asked"}, NEW said, Tells(n, said),
           SaidOK(calls[n], Builds[plan[calls[n].turn].build], said)
    PROVE  TurnsOK' /\ CallsOK' /\ WaitsOK'
<1> DEFINE c == calls[n]
           p == IF c.answer = None THEN "told" ELSE "ended"
           d == Thread(c.turn, c.tool, c.input, p, None, c.hops, <<said>>, c.answer)
<1>1. ThreadOK(c)
  BY CallAt
<1>2. calls' = Replaced(calls, n, d)
  BY <1>1, TellsTo
<1>3. /\ d.turn = c.turn /\ d.tool = c.tool /\ d.input = c.input /\ d.phase = p
      /\ d.request = None /\ d.hops = c.hops /\ d.result = <<said>> /\ d.answer = c.answer
  BY DEF Thread
<1>4. /\ d = Thread(d.turn, d.tool, d.input, d.phase, d.request, d.hops, d.result, d.answer)
      /\ d.result # None /\ d.result[1] = said
  <2>1. <<said>> # <<>> /\ <<said>>[1] = said
    OBVIOUS
  <2> HIDE DEF c, p
  <2>2. QED
    BY <1>3, <2>1 DEF None
<1> HIDE DEF d
<1>5. ThreadOK(d)
  BY <1>1, <1>3, <1>4 DEF ThreadOK, Thread, ThreadPhases
<1>6. c.phase # "ended"
  OBVIOUS
<1>7. QED
  BY <1>2, <1>3, <1>4, <1>5, <1>6, ThreadStep

LEMMA AsksStep ==
    ASSUME TurnsOK, CallsOK, WaitsOK, UNCHANGED turnVars, latest' = latest,
           NEW n \in DOMAIN calls, calls[n].phase \in {"begun", "asked"}, calls[n].tool \in NetworkTools,
           NEW url, NEW key, NEW count \in 0 .. Chain(calls[n].tool), Asks(n, url, key, count)
    PROVE  TurnsOK' /\ CallsOK' /\ WaitsOK'
<1> DEFINE c == calls[n]
           q == <<[url |-> url, key |-> key]>>
           d == Thread(c.turn, c.tool, c.input, "asked", q, count, c.result, c.answer)
<1>1. ThreadOK(c)
  BY CallAt
<1>2. calls' = Replaced(calls, n, d)
  BY <1>1, AsksTo
<1>3. /\ d.turn = c.turn /\ d.tool = c.tool /\ d.input = c.input /\ d.phase = "asked"
      /\ d.request = q /\ d.hops = count /\ d.result = c.result /\ d.answer = c.answer
  BY DEF Thread
<1>4. q # None
  BY DEF None
<1>5. d = Thread(d.turn, d.tool, d.input, d.phase, d.request, d.hops, d.result, d.answer)
  <2> HIDE DEF c, q
  <2> QED BY <1>3
<1>6. c.result = None
  BY <1>1 DEF ThreadOK
<1> HIDE DEF d, q
<1>7. ThreadOK(d)
  BY <1>1, <1>3, <1>4, <1>5, <1>6 DEF ThreadOK, Thread, ThreadPhases
<1>8. c.phase # "ended"
  OBVIOUS
<1>9. QED
  BY <1>2, <1>3, <1>6, <1>7, <1>8, ThreadStep

LEMMA PanicsStep ==
    ASSUME TurnsOK, CallsOK, WaitsOK, NEW n \in DOMAIN calls, Panics(n)
    PROVE  TurnsOK' /\ CallsOK' /\ WaitsOK'
<1> DEFINE c == calls[n]
           p == IF c.answer = None THEN "dropped" ELSE "ended"
           d == Thread(c.turn, c.tool, c.input, p, None, c.hops, c.result, c.answer)
<1>1. ThreadOK(c)
  BY CallAt
<1>2. calls' = Replaced(calls, n, d)
  BY <1>1, PanicsTo
<1>3. /\ d.turn = c.turn /\ d.tool = c.tool /\ d.input = c.input /\ d.phase = p
      /\ d.request = None /\ d.hops = c.hops /\ d.result = c.result /\ d.answer = c.answer
  BY DEF Thread
<1>4. d = Thread(d.turn, d.tool, d.input, d.phase, d.request, d.hops, d.result, d.answer)
  <2> HIDE DEF c, p
  <2> QED BY <1>3
<1>5. c.phase \in {"begun", "asked"} /\ c.result = None
  BY <1>1 DEF Panics, ThreadOK
<1>6. UNCHANGED turnVars /\ latest' = latest
  BY DEF Panics, deskVars
<1> HIDE DEF d
<1>7. ThreadOK(d)
  BY <1>1, <1>3, <1>4, <1>5 DEF ThreadOK, Thread, ThreadPhases
<1>8. c.phase # "ended"
  BY <1>5
<1>9. QED
  BY <1>2, <1>3, <1>5, <1>6, <1>7, <1>8, ThreadStep

-----------------------------------------------------------------------------
(* What the threads say.                                                     *)

LEMMA ToolsApart ==
    /\ \A tool \in NetworkTools : tool \notin LocalTools
    /\ \A tool \in LocalTools : tool \in {"read_source", "gyld_query", "search_sources"}
    /\ \A tool \in NetworkTools : tool \in {"fetch_url", "github", "web_search"}
BY DEF NetworkTools, LocalTools

LEMMA RefusalSaid ==
    ASSUME NEW c, c.tool \in NetworkTools, NEW b, NEW said, ~said.ok
    PROVE  SaidOK(c, b, said)
BY DEF SaidOK, SizedOK, Honest, AsksEmitted, NetworkTools

\* What is known of the input a model reached for a tool with.
LEMMA InputOK ==
    ASSUME NEW c, ThreadOK(c)
    PROVE  /\ c.tool = "github" => IsSequence(c.input.repo) /\ IsSequence(c.input.path)
           /\ c.tool \in {"search_sources", "web_search"} =>
                 c.input.limit = <<>> \/ c.input.limit[1] \in Int
<1>1. PICK t \in TurnIds, n \in 1 .. MaxCalls : [tool |-> c.tool, input |-> c.input] \in Reaches(t, n)
  BY DEF ThreadOK
<1> DEFINE reach == [tool |-> c.tool, input |-> c.input]
<1>2. reach.tool = c.tool /\ reach.input = c.input /\ reach \in Reaches(t, n)
  BY <1>1
<1> HIDE DEF reach
<1>3. /\ reach.tool = "github" => IsSequence(reach.input.repo) /\ IsSequence(reach.input.path)
      /\ reach.tool \in {"search_sources", "web_search"} =>
              reach.input.limit = <<>> \/ reach.input.limit[1] \in Int
  BY <1>2, ReachesAssumption
<1>4. QED
  BY <1>2, <1>3

LEMMA BuildAt == \A i \in 1 .. Len(Builds) : Builds[i] \in Range(Builds) /\ i \in DOMAIN Builds
BY BuildsAssumption, SequenceDomain

\* The record that a search found is one that can be read, if its list can be.
LEMMA EmittedRead ==
    ASSUME NEW c, NEW b \in Range(Builds), AsksEmitted(c, b)
    PROVE  gyld_query(c.input, b).ok \/ gyld_query(c.input, b).why = "too large"
<1> DEFINE stream == c.input.stream
           slot == c.input.slot
<1>1. EmittedIn(b, <<"label", stream, slot>>)
  BY DEF AsksEmitted
<1>2. c.input.kind = "record" /\ slot_fits(slot) /\ string(slot) = slot
  BY DEF AsksEmitted, Nameable
<1> HIDE DEF stream, slot
<1>3. /\ stream \in DOMAIN b.emits /\ valid_stream_id(stream)
      /\ \E i \in 1 .. Len(b.emits[stream].questions) : b.emits[stream].questions[i].slot = slot
  BY <1>1, LabelEmitted
<1>4. gyld_query(c.input, b) = record(b, stream, slot)
  BY <1>2, <1>3 DEF gyld_query, stream, slot
<1>5. QED
  BY <1>3, <1>4, RecordAnswered

LEMMA LocalSaid ==
    ASSUME NEW c, ThreadOK(c), c.tool \in LocalTools, NEW i \in 1 .. Len(Builds)
    PROVE  SaidOK(c, Builds[i], local_answer[i][[tool |-> c.tool, input |-> c.input]])
<1> DEFINE reach == [tool |-> c.tool, input |-> c.input]
           b == Builds[i]
           said == local_answer[i][reach]
<1>1. i \in DOMAIN Builds /\ b \in Range(Builds)
  BY BuildAt
<1>2. reach \in local_reaches
  <2>1. PICK t \in TurnIds, n \in 1 .. MaxCalls : reach \in Reaches(t, n)
    BY DEF ThreadOK
  <2>2. reach.tool \in LocalTools
    OBVIOUS
  <2> HIDE DEF reach
  <2>3. QED
    BY <2>1, <2>2 DEF local_reaches
<1>3. reach.tool = c.tool /\ reach.input = c.input
  OBVIOUS
<1> HIDE DEF reach
<1>4. said = CASE reach.tool = "read_source" -> read_source(reach.input, b)
               [] reach.tool = "gyld_query" -> gyld_query(reach.input, b)
               [] OTHER -> search_sources(reach.input, b, Library)
  BY <1>1, <1>2 DEF local_answer
<1> HIDE DEF said, b
<1>5. ASSUME c.tool = "read_source" PROVE SaidOK(c, b, said)
  <2>1. said = read_source(c.input, b)
    BY <1>3, <1>4, <1>5
  <2>2. Honest(said)
    BY <1>1, <2>1, ReadSourceHonest
  <2>3. QED
    BY <1>5, <2>2 DEF SaidOK, SizedOK, Honest, AsksEmitted
<1>6. ASSUME c.tool = "gyld_query" PROVE SaidOK(c, b, said)
  <2>1. said = gyld_query(c.input, b)
    BY <1>3, <1>4, <1>6
  <2>2. Honest(said) /\ (AsksEmitted(c, b) => said.ok \/ said.why = "too large")
    BY <1>1, <2>1, GyldHonest, EmittedRead
  <2>3. QED
    BY <1>6, <2>2 DEF SaidOK, SizedOK, Honest
<1>7. ASSUME c.tool = "search_sources" PROVE SaidOK(c, b, said)
  <2>1. said = search_sources(c.input, b, Library)
    BY <1>3, <1>4, <1>7
  <2>2. Honest(said) /\ (said.ok => \A h \in said.hits : EmittedIn(b, h.place))
    BY <1>1, <1>7, <2>1, InputOK, SearchFinds
  <2>3. QED
    BY <1>7, <2>2 DEF SaidOK, SizedOK, Honest, AsksEmitted
<1>8. SaidOK(c, b, said)
  BY <1>5, <1>6, <1>7, ToolsApart
<1>9. QED
  BY <1>8 DEF b, said, reach

LEMMA HonestSaid ==
    ASSUME NEW c, c.tool \in NetworkTools, NEW b, NEW said,
           WebIsMeasured => (c.tool # "web_search" => Honest(said)) /\ (said.ok => said.text.size \in Nat)
    PROVE  SaidOK(c, b, said)
BY DEF SaidOK, SizedOK, AsksEmitted, NetworkTools

LEMMA PageSaid ==
    ASSUME NEW c, c.tool = "fetch_url", NEW b, NEW url, NEW response \in Web("fetch_url", url),
           NEW policy, policy.bytes \in Nat, NEW hops,
           ~follow(response, hops, policy).go
    PROVE  SaidOK(c, b, follow(response, hops, policy).done)
<1> DEFINE said == follow(response, hops, policy).done
           page == read_page(response, policy.bytes)
<1>1. said = page \/ \E why : said = Refused(why)
  <2> DEFINE ends(done) == [go |-> FALSE, done |-> done]
             to == IF ~Moved(response.status) THEN ends(page)
                   ELSE IF response.location = <<>> THEN ends(Refused("no location"))
                   ELSE IF ~Goes(response.location[1], policy.hosts) THEN ends(Refused("where it may not go"))
                   ELSE IF hops = MAX_HOPS THEN ends(Refused("too many redirects"))
                   ELSE [go |-> TRUE, url |-> response.location[1]]
  <2>1. follow(response, hops, policy) = to
    BY DEF follow
  <2>2. \A done : ends(done).done = done
    OBVIOUS
  <2>3. [go |-> TRUE, url |-> response.location[1]].go
    OBVIOUS
  <2> HIDE DEF page, ends
  <2>4. to \in {ends(page), ends(Refused("no location")), ends(Refused("where it may not go")),
                ends(Refused("too many redirects"))}
    BY <2>1, <2>3
  <2>5. QED
    BY <2>1, <2>2, <2>4
<1>2. WebIsMeasured => Honest(page)
  BY PageHonest DEF WebIsMeasured, NetworkTools
<1>3. WebIsMeasured => Honest(said) /\ (said.ok => said.text.size \in Nat)
  <2> HIDE DEF said, page
  <2> QED BY <1>1, <1>2, RefusedHonest DEF Honest
<1>4. QED
  <2>1. c.tool \in NetworkTools
    BY DEF NetworkTools
  <2> HIDE DEF said
  <2>2. SaidOK(c, b, said)
    BY <1>3, <2>1, HonestSaid
  <2>3. QED
    BY <2>2 DEF said

LEMMA GithubSaid ==
    ASSUME NEW c, c.tool = "github", NEW b, NEW url, NEW response \in Web("github", url),
           NEW bytes \in Nat
    PROVE  SaidOK(c, b, github_reads(c.input, response, bytes))
<1> DEFINE said == github_reads(c.input, response, bytes)
<1>1. c.tool \in NetworkTools
  BY DEF NetworkTools
<1>2. WebIsMeasured => Honest(said)
  BY GithubHonest DEF WebIsMeasured, NetworkTools
<1> HIDE DEF said
<1>3. WebIsMeasured => Honest(said) /\ (said.ok => said.text.size \in Nat)
  BY <1>2 DEF Honest
<1>4. SaidOK(c, b, said)
  BY <1>1, <1>3, HonestSaid
<1>5. QED
  BY <1>4 DEF said

LEMMA SearchSaid ==
    ASSUME NEW c, c.tool = "web_search", NEW b, NEW url, NEW response \in Web("web_search", url),
           c.input.limit = <<>> \/ c.input.limit[1] \in Int
    PROVE  SaidOK(c, b, search_reads(c.input, response))
<1> DEFINE said == search_reads(c.input, response)
<1>1. c.tool \in NetworkTools
  BY DEF NetworkTools
<1>2. WebIsMeasured => (said.ok => said.text.size \in Nat)
  BY SearchReads DEF WebIsMeasured, NetworkTools
<1> HIDE DEF said
<1>3. SaidOK(c, b, said)
  BY <1>1, <1>2, HonestSaid
<1>4. QED
  BY <1>3 DEF said

-----------------------------------------------------------------------------
(* The steps of a thread.                                                    *)

SafeOK == TurnsOK /\ CallsOK /\ WaitsOK

LEMMA Unmoved ==
    ASSUME UNCHANGED deskVars
    PROVE  latest' = latest
BY DEF deskVars

LEMMA ReadsKeeps ==
    ASSUME DeskOK, SafeOK, NEW n \in DOMAIN calls, Reads(n)
    PROVE  SafeOK'
<1> DEFINE c == calls[n]
           i == plan[c.turn].build
           said == local_answer[i][[tool |-> c.tool, input |-> c.input]]
<1>1. ThreadOK(c) /\ BelongsOK(c)
  BY CallAt DEF SafeOK
<1>2. /\ c.phase = "begun" /\ c.tool \in LocalTools /\ Tells(n, said)
      /\ UNCHANGED turnVars /\ latest' = latest
  BY Unmoved DEF Reads, build_of
<1>3. i \in 1 .. Len(Builds)
  BY <1>1 DEF BelongsOK, DeskOK
<1> HIDE DEF said
<1>4. SaidOK(c, Builds[i], said)
  BY <1>1, <1>2, <1>3, LocalSaid DEF said
<1>5. QED
  BY <1>2, <1>4, TellsStep DEF SafeOK

LEMMA RequestsKeeps ==
    ASSUME SafeOK, NEW n \in DOMAIN calls, Requests(n)
    PROVE  SafeOK'
<1> DEFINE c == calls[n]
           begun == begins(c)
<1>1. /\ c.phase = "begun" /\ c.tool \in NetworkTools
      /\ IF begun.ok THEN Asks(n, begun.url, begun.key, 0) ELSE Tells(n, begun)
      /\ UNCHANGED turnVars /\ latest' = latest
  BY Unmoved DEF Requests
<1> HIDE DEF begun
<1>2. 0 \in 0 .. Chain(c.tool)
  BY DEF Chain, MAX_HOPS, REDIRECTS
<1>3. CASE begun.ok
  BY <1>1, <1>2, <1>3, AsksStep DEF SafeOK
<1>4. CASE ~begun.ok
  <2>1. SaidOK(c, Builds[plan[c.turn].build], begun)
    BY <1>1, <1>4, RefusalSaid
  <2>2. QED
    BY <1>1, <1>4, <2>1, TellsStep DEF SafeOK
<1>5. QED
  BY <1>3, <1>4

LEMMA TimesOutKeeps ==
    ASSUME SafeOK, NEW n \in DOMAIN calls, TimesOut(n)
    PROVE  SafeOK'
<1> DEFINE c == calls[n]
           said == Refused("transport")
<1>1. c.phase = "asked" /\ Tells(n, said) /\ UNCHANGED turnVars /\ latest' = latest
  BY Unmoved DEF TimesOut
<1>2. c.tool \in NetworkTools
  BY <1>1, CallAt DEF SafeOK, ThreadOK
<1>3. ~said.ok
  BY RefusedHonest
<1> HIDE DEF said
<1>4. SaidOK(c, Builds[plan[c.turn].build], said)
  BY <1>2, <1>3, RefusalSaid
<1>5. QED
  BY <1>1, <1>4, TellsStep DEF SafeOK

LEMMA PanicsKeeps ==
    ASSUME SafeOK, NEW n \in DOMAIN calls, Panics(n)
    PROVE  SafeOK'
BY PanicsStep DEF SafeOK

LEMMA ServedKeeps ==
    ASSUME SafeOK, NEW n \in DOMAIN calls, Served(n)
    PROVE  SafeOK'
<1> DEFINE c == calls[n]
           policy == conf[c.turn][1].tools
           b == Builds[plan[c.turn].build]
<1>1. ThreadOK(c) /\ BelongsOK(c)
  BY CallAt DEF SafeOK
<1>2. c.phase = "asked" /\ UNCHANGED turnVars /\ latest' = latest
  BY Unmoved DEF Served
<1>3. c.tool \in NetworkTools
  BY <1>1, <1>2 DEF ThreadOK
<1>4. policy.bytes \in Nat /\ policy.fetch.bytes \in Nat
  BY <1>1 DEF BelongsOK, Settled
<1>5. PICK response \in Web(c.tool, c.request[1].url) :
        IF c.tool = "fetch_url"
        THEN LET next == follow(response, c.hops, policy.fetch) IN
             IF next.go THEN Asks(n, next.url, "none", c.hops + 1) ELSE Tells(n, next.done)
        ELSE LET next == redirected(response, c.hops) IN
             IF next.go THEN Asks(n, next.url, c.request[1].key, c.hops + 1)
             ELSE Tells(n, IF next.stops THEN Refused("transport") ELSE reads(c, response))
  BY DEF Served
<1> HIDE DEF policy
<1>6. CASE c.tool = "fetch_url"
  <2> DEFINE next == follow(response, c.hops, policy.fetch)
  <2>1. IF next.go THEN Asks(n, next.url, "none", c.hops + 1) ELSE Tells(n, next.done)
    BY <1>5, <1>6
  <2>2. CASE next.go
    <3>1. c.hops # MAX_HOPS
      BY <2>2 DEF follow
    <3>2. c.hops + 1 \in 0 .. Chain(c.tool)
      BY <1>1, <1>6, <3>1 DEF ThreadOK, Chain, MAX_HOPS
    <3> HIDE DEF next
    <3>3. QED
      BY <1>2, <1>3, <2>1, <2>2, <3>2, AsksStep DEF SafeOK
  <2>3. CASE ~next.go
    <3>1. SaidOK(c, b, next.done)
      BY <1>4, <1>5, <1>6, <2>3, PageSaid
    <3> HIDE DEF next
    <3>2. QED
      BY <1>2, <2>1, <2>3, <3>1, TellsStep DEF SafeOK
  <2>4. QED
    BY <2>2, <2>3
<1>7. SaidOK(c, b, reads(c, response)) \/ c.tool = "fetch_url"
  <2>1. CASE c.tool = "github"
    <3>1. reads(c, response) = github_reads(c.input, response, policy.bytes)
      BY <2>1 DEF reads, policy
    <3>2. QED
      BY <1>4, <1>5, <2>1, <3>1, GithubSaid
  <2>2. CASE c.tool = "web_search"
    <3>1. reads(c, response) = search_reads(c.input, response)
      BY <2>2 DEF reads
    <3>2. QED
      BY <1>1, <1>5, <2>2, <3>1, InputOK, SearchSaid
  <2>3. QED
    BY <1>3, <2>1, <2>2, ToolsApart
<1>8. CASE c.tool # "fetch_url"
  <2> DEFINE next == redirected(response, c.hops)
             key == c.request[1].key
             read_in == reads(c, response)
             said == IF next.stops THEN Refused("transport") ELSE read_in
  <2>1. IF next.go THEN Asks(n, next.url, key, c.hops + 1) ELSE Tells(n, said)
    BY <1>5, <1>8
  <2>2. next.go => c.hops # REDIRECTS
    BY DEF redirected
  <2>3. SaidOK(c, b, read_in)
    BY <1>7, <1>8
  <2> HIDE DEF next, read_in, key
  <2>4. CASE next.go
    <3>1. c.hops + 1 \in 0 .. Chain(c.tool)
      BY <1>1, <1>8, <2>2, <2>4 DEF ThreadOK, Chain, REDIRECTS
    <3>2. QED
      BY <1>2, <1>3, <2>1, <2>4, <3>1, AsksStep DEF SafeOK
  <2>5. CASE ~next.go
    <3>1. SaidOK(c, b, said)
      <4>1. ~Refused("transport").ok
        BY RefusedHonest
      <4>2. SaidOK(c, b, Refused("transport"))
        BY <1>3, <4>1, RefusalSaid
      <4>3. QED
        BY <2>3, <4>2
    <3>2. Tells(n, said)
      BY <2>1, <2>5
    <3> HIDE DEF said
    <3>3. QED
      BY <1>2, <3>1, <3>2, TellsStep DEF SafeOK
  <2>6. QED
    BY <2>4, <2>5
<1>9. QED
  BY <1>6, <1>8

-----------------------------------------------------------------------------
(* The answers a turn hears.                                                 *)

LEMMA AnswersStep ==
    ASSUME SafeOK, NEW n \in DOMAIN calls, calls[n].answer = None, NEW heard, Answers(n, heard),
           HeardOK(calls[n], Builds[plan[calls[n].turn].build], conf[calls[n].turn][1].tools.bytes, heard)
    PROVE  SafeOK'
<1> DEFINE c == calls[n]
           t == c.turn
           p == IF c.phase \in {"told", "dropped"} THEN "ended" ELSE c.phase
           d == Thread(t, c.tool, c.input, p, c.request, c.hops, None, <<heard>>)
<1>1. ThreadOK(c) /\ BelongsOK(c) /\ t \in TurnIds /\ pc[t] = "waiting"
  BY CallAt DEF SafeOK, ThreadOK, BelongsOK
<1>2. calls' = Replaced(calls, n, d)
  BY <1>1, AnswersTo
<1>3. /\ d.turn = t /\ d.tool = c.tool /\ d.input = c.input /\ d.phase = p
      /\ d.request = c.request /\ d.hops = c.hops /\ d.result = None /\ d.answer = <<heard>>
  BY DEF Thread
<1>4. d = Thread(d.turn, d.tool, d.input, d.phase, d.request, d.hops, d.result, d.answer)
  <2> HIDE DEF c, p, t
  <2> QED BY <1>3
<1>5. d.answer # None /\ d.answer[1] = heard
  BY <1>3 DEF None
<1>6. /\ pc' = [pc EXCEPT ![t] = "open"] /\ plan' = plan /\ conf' = conf /\ enabled' = enabled
      /\ posted' = posted /\ latest' = latest
  BY DEF Answers, deskVars
<1>7. /\ pc \in [TurnIds -> Phases] /\ pc'[t] = "open"
      /\ \A s \in TurnIds : s # t => pc'[s] = pc[s]
  BY <1>1, <1>6 DEF SafeOK, TurnsOK
<1>8. \A m \in DOMAIN calls : m # n /\ calls[m].turn = t => calls[m].answer # None
  BY <1>1 DEF SafeOK, WaitsOK
<1> HIDE DEF d
<1>9. ThreadOK(d)
  BY <1>1, <1>3, <1>4, <1>5 DEF ThreadOK, Thread, ThreadPhases
<1>10. /\ IsSequence(calls') /\ Len(calls') = Len(calls) /\ DOMAIN calls' = DOMAIN calls
       /\ calls'[n] = d /\ \A m \in DOMAIN calls : m # n => calls'[m] = calls[m]
  BY <1>2, ReplacedList DEF SafeOK, CallsOK
<1>11. TurnsOK'
  <2>1. pc' \in [TurnIds -> Phases]
    BY <1>6, <1>7 DEF Phases
  <2>2. ASSUME NEW s \in TurnIds PROVE TurnOK(s)'
    <3>1. TurnOK(s)
      BY DEF SafeOK, TurnsOK
    <3>2. CASE s = t
      BY <1>1, <1>6, <1>7, <3>1, <3>2 DEF TurnOK
    <3>3. CASE s # t
      BY <1>6, <1>7, <3>1, <3>3 DEF TurnOK
    <3>4. QED
      BY <3>2, <3>3
  <2>3. QED
    BY <1>6, <2>1, <2>2 DEF SafeOK, TurnsOK
<1>12. ASSUME NEW m \in DOMAIN calls'
       PROVE  (ThreadOK(calls[m]) /\ BelongsOK(calls[m]) /\ FitsOK(calls[m]))'
  <2>1. CASE m = n
    <3>1. calls'[m] = d
      BY <1>10, <2>1
    <3>2. ThreadOK(calls[m])'
      BY <1>9, <3>1 DEF ThreadOK
    <3>3. p # "ended" => c.phase # "ended"
      OBVIOUS
    <3>4. BelongsOK(calls[m])'
      BY <1>1, <1>3, <1>5, <1>6, <1>7, <3>1, <3>3 DEF BelongsOK, Late
    <3>5. FitsOK(calls[m])'
      <4> DEFINE b == Builds[plan[t].build]
                 budget == conf[t][1].tools.bytes
      <4>1. HeardOK(c, b, budget, heard)
        OBVIOUS
      <4> HIDE DEF b, budget
      <4>2. HeardOK(d, b, budget, heard)
        BY <1>3, <4>1 DEF HeardOK, CutOK, AsksEmitted
      <4>3. QED
        BY <1>3, <1>5, <1>6, <3>1, <4>2 DEF FitsOK, b, budget
    <3>6. QED
      BY <3>2, <3>4, <3>5
  <2>2. CASE m # n
    <3>1. calls'[m] = calls[m] /\ m \in DOMAIN calls
      BY <1>10, <2>2
    <3>2. ThreadOK(calls[m]) /\ BelongsOK(calls[m]) /\ FitsOK(calls[m])
      BY <3>1, CallAt DEF SafeOK
    <3>3. calls[m].turn \in TurnIds
      BY <3>2 DEF ThreadOK
    <3>4. ThreadOK(calls[m])'
      BY <3>1, <3>2 DEF ThreadOK
    <3>5. BelongsOK(calls[m])'
      <4>1. CASE calls[m].turn = t
        BY <1>6, <1>7, <1>8, <2>2, <3>1, <3>2, <4>1 DEF BelongsOK, Late
      <4>2. CASE calls[m].turn # t
        BY <1>6, <1>7, <3>1, <3>2, <3>3, <4>2 DEF BelongsOK
      <4>3. QED
        BY <4>1, <4>2
    <3>6. FitsOK(calls[m])'
      BY <1>6, <3>1, <3>2 DEF FitsOK
    <3>7. QED
      BY <3>4, <3>5, <3>6
  <2>3. QED
    BY <2>1, <2>2
<1>13. CallsOK'
  BY <1>10, <1>12 DEF SafeOK, CallsOK
<1>14. WaitsOK'
  <2> SUFFICES ASSUME NEW s \in TurnIds, pc'[s] = "waiting"
               PROVE  \E k \in DOMAIN calls' :
                         \A m \in DOMAIN calls' : (m = k) <=> (calls'[m].turn = s /\ calls'[m].answer = None)
    BY DEF WaitsOK
  <2>1. s # t /\ pc[s] = "waiting"
    BY <1>7
  <2>2. PICK k \in DOMAIN calls :
          \A m \in DOMAIN calls : (m = k) <=> (calls[m].turn = s /\ calls[m].answer = None)
    BY <2>1 DEF SafeOK, WaitsOK
  <2>3. \A m \in DOMAIN calls : (calls'[m].turn = s /\ calls'[m].answer = None)
                                  <=> (calls[m].turn = s /\ calls[m].answer = None)
    BY <1>3, <1>10, <2>1
  <2>4. DOMAIN calls' = DOMAIN calls
    BY <1>10
  <2>5. \A m \in DOMAIN calls' : (m = k) <=> (calls'[m].turn = s /\ calls'[m].answer = None)
    BY ONLY <2>2, <2>3, <2>4
  <2>6. QED
    BY <2>4, <2>5
<1>15. QED
  BY <1>11, <1>13, <1>14 DEF SafeOK

LEMMA RefusedHeard ==
    ASSUME NEW c, NEW b, NEW budget, NEW why, AsksEmitted(c, b) => why \in Unheard
    PROVE  HeardOK(c, b, budget, refused(why))
<1>1. ~refused(why).ok /\ refused(why).hits = {} /\ refused(why).why = why
  BY DEF refused
<1>2. QED
  BY <1>1 DEF HeardOK, CutOK

LEMMA AnsweredHeard ==
    ASSUME NEW c, NEW b, NEW budget \in Nat, NEW said, said.ok, SaidOK(c, b, said)
    PROVE  HeardOK(c, b, budget, answered(said, budget))
<1> DEFINE size == said.text.size
           cut == size > budget
           answer == answered(said, budget)
<1>1. /\ answer.ok /\ answer.size = Least(size, budget)
      /\ answer.truncated = cut /\ (answer.withheld <=> (cut \/ said.text.withheld))
      /\ (answer.said = said.text.said)
      /\ answer.hits = IF "hits" \in DOMAIN said THEN said.hits ELSE {}
  BY DEF answered
<1> HIDE DEF answer
<1>2. WebIsMeasured => CutOK(c, budget, answer)
  <2> SUFFICES ASSUME WebIsMeasured PROVE CutOK(c, budget, answer)
    OBVIOUS
  <2>1. size \in Nat /\ (c.tool # "web_search" => (said.text.withheld => said.text.said))
    BY DEF SaidOK, SizedOK, Honest
  <2>2. answer.size <= budget
    BY <1>1, <2>1 DEF Least
  <2>3. c.tool # "web_search" /\ answer.withheld => answer.truncated \/ answer.said
    <3> HIDE DEF cut
    <3> QED BY <1>1, <2>1
  <2>4. QED
    BY <2>2, <2>3 DEF CutOK
<1>3. c.tool = "search_sources" => \A h \in answer.hits : EmittedIn(b, h.place)
  <2> HIDE DEF cut, size
  <2> QED BY <1>1 DEF SaidOK
<1>4. HeardOK(c, b, budget, answer)
  BY <1>1, <1>2, <1>3 DEF HeardOK
<1>5. QED
  BY <1>4 DEF answer

LEMMA ReceivedKeeps ==
    ASSUME SafeOK, NEW n \in DOMAIN calls, Received(n)
    PROVE  SafeOK'
<1> DEFINE c == calls[n]
           said == c.result[1]
           b == Builds[plan[c.turn].build]
           budget == conf[c.turn][1].tools.bytes
           heard == IF said.ok THEN answered(said, budget) ELSE refused(said.why)
<1>1. ThreadOK(c) /\ BelongsOK(c) /\ FitsOK(c)
  BY CallAt DEF SafeOK
<1>2. c.phase = "told" /\ Answers(n, heard)
  BY DEF Received
<1>3. c.answer = None /\ c.result # None
  BY <1>1, <1>2 DEF ThreadOK
<1>4. SaidOK(c, b, said) /\ budget \in Nat
  BY <1>1, <1>3 DEF FitsOK, BelongsOK, Settled
<1> HIDE DEF said, b, budget
<1>5. HeardOK(c, b, budget, heard)
  <2>1. CASE said.ok
    BY <1>4, <2>1, AnsweredHeard
  <2>2. CASE ~said.ok
    <3>1. AsksEmitted(c, b) => said.why \in Unheard
      BY <1>4, <2>2 DEF SaidOK, Unheard
    <3>2. QED
      BY <2>2, <3>1, RefusedHeard
  <2>3. QED
    BY <2>1, <2>2
<1> HIDE DEF heard
<1>6. QED
  BY <1>2, <1>3, <1>5, AnswersStep DEF b, budget

LEMMA UnheardKeeps ==
    ASSUME SafeOK, NEW n \in DOMAIN calls, Disconnected(n) \/ Abandoned(n)
    PROVE  SafeOK'
<1> DEFINE c == calls[n]
           b == Builds[plan[c.turn].build]
           budget == conf[c.turn][1].tools.bytes
<1>1. PICK why \in Unheard : Answers(n, refused(why))
  BY DEF Disconnected, Abandoned, Unheard
<1>2. c.answer = None
  BY CallAt DEF SafeOK, ThreadOK, Disconnected, Abandoned, Waited
<1> DEFINE heard == refused(why)
<1>3. HeardOK(c, b, budget, heard)
  BY RefusedHeard
<1>4. Answers(n, heard)
  BY <1>1
<1> HIDE DEF heard
<1>5. QED
  BY <1>2, <1>3, <1>4, AnswersStep

-----------------------------------------------------------------------------
(* The steps of the desk and of a turn.                                      *)

LEMMA CallsStay ==
    ASSUME SafeOK, calls' = calls, latest \in Nat, latest' \in Nat, latest <= latest',
           \A t \in TurnIds : pc[t] \in Late =>
               /\ pc'[t] \in Late /\ (pc[t] = "waiting" => pc'[t] = "waiting")
               /\ plan'[t] = plan[t] /\ conf'[t] = conf[t] /\ enabled'[t] = enabled[t]
    PROVE  CallsOK'
<1>1. ASSUME NEW m \in DOMAIN calls
      PROVE  (ThreadOK(calls[m]) /\ BelongsOK(calls[m]) /\ FitsOK(calls[m]))'
  <2>1. ThreadOK(calls[m]) /\ BelongsOK(calls[m]) /\ FitsOK(calls[m])
    BY CallAt DEF SafeOK
  <2> DEFINE t == calls[m].turn
  <2>2. t \in TurnIds /\ pc[t] \in Late
    BY <2>1 DEF ThreadOK, BelongsOK
  <2>3. /\ pc'[t] \in Late /\ (pc[t] = "waiting" => pc'[t] = "waiting")
        /\ plan'[t] = plan[t] /\ conf'[t] = conf[t] /\ enabled'[t] = enabled[t]
    BY <2>2
  <2>4. ThreadOK(calls[m])'
    BY <2>1 DEF ThreadOK
  <2>5. BelongsOK(calls[m])'
    BY <2>1, <2>3 DEF BelongsOK
  <2>6. FitsOK(calls[m])'
    BY <2>1, <2>3 DEF FitsOK
  <2>7. QED
    BY <2>4, <2>5, <2>6
<1>2. QED
  BY <1>1 DEF SafeOK, CallsOK

LEMMA DeskStep ==
    ASSUME SafeOK, UNCHANGED turnVars, calls' = calls, latest \in Nat, latest' \in Nat, latest <= latest'
    PROVE  SafeOK'
<1>1. pc' = pc /\ plan' = plan /\ conf' = conf /\ enabled' = enabled /\ posted' = posted
  BY DEF turnVars
<1>2. CallsOK'
  BY <1>1, CallsStay
<1>3. TurnsOK'
  <2>1. ASSUME NEW t \in TurnIds PROVE TurnOK(t)'
    <3>1. TurnOK(t)
      BY DEF SafeOK, TurnsOK
    <3>2. QED
      BY <1>1, <3>1 DEF TurnOK
  <2>2. QED
    BY <1>1, <2>1 DEF SafeOK, TurnsOK
<1>4. WaitsOK'
  BY <1>1 DEF SafeOK, WaitsOK
<1>5. QED
  BY <1>2, <1>3, <1>4 DEF SafeOK

\* A step of a turn that waits for nothing, and will not.
LEMMA TurnStep ==
    ASSUME SafeOK, calls' = calls, latest \in Nat, latest' = latest, NEW t \in TurnIds,
           pc' \in [TurnIds -> Phases], enabled' \in [TurnIds -> SUBSET Offered],
           DOMAIN plan' = TurnIds, DOMAIN conf' = TurnIds, DOMAIN posted' = TurnIds,
           \A s \in TurnIds : s # t =>
               /\ pc'[s] = pc[s] /\ plan'[s] = plan[s] /\ conf'[s] = conf[s]
               /\ enabled'[s] = enabled[s] /\ posted'[s] = posted[s],
           TurnOK(t)', pc[t] # "waiting", pc'[t] # "waiting",
           pc[t] \in Late => /\ pc'[t] \in Late /\ plan'[t] = plan[t]
                             /\ conf'[t] = conf[t] /\ enabled'[t] = enabled[t]
    PROVE  SafeOK'
<1>1. CallsOK'
  <2>1. \A s \in TurnIds : pc[s] \in Late =>
               /\ pc'[s] \in Late /\ (pc[s] = "waiting" => pc'[s] = "waiting")
               /\ plan'[s] = plan[s] /\ conf'[s] = conf[s] /\ enabled'[s] = enabled[s]
    <3> TAKE s \in TurnIds
    <3>1. CASE s = t
      BY <3>1
    <3>2. CASE s # t
      BY <3>2
    <3>3. QED
      BY <3>1, <3>2
  <2>2. latest <= latest' /\ latest' \in Nat
    OBVIOUS
  <2>3. QED
    BY <2>1, <2>2, CallsStay
<1>2. TurnsOK'
  <2>1. ASSUME NEW s \in TurnIds PROVE TurnOK(s)'
    <3>1. TurnOK(s)
      BY DEF SafeOK, TurnsOK
    <3>2. CASE s # t
      BY <3>1, <3>2 DEF TurnOK
    <3>3. QED
      BY <3>2
  <2>2. QED
    BY <2>1 DEF TurnsOK
<1>3. WaitsOK'
  <2>1. \A s \in TurnIds : pc'[s] = "waiting" => pc[s] = "waiting"
    OBVIOUS
  <2>2. QED
    BY <2>1 DEF SafeOK, WaitsOK
<1>4. QED
  BY <1>1, <1>2, <1>3 DEF SafeOK

LEMMA TurnAt ==
    ASSUME SafeOK, NEW t \in TurnIds
    PROVE  /\ TurnOK(t) /\ pc \in [TurnIds -> Phases] /\ enabled \in [TurnIds -> SUBSET Offered]
           /\ DOMAIN plan = TurnIds /\ DOMAIN conf = TurnIds /\ DOMAIN posted = TurnIds
BY DEF SafeOK, TurnsOK

LEMMA ExplainKeeps ==
    ASSUME DeskOK, SafeOK, NEW t \in TurnIds, Explain(t)
    PROVE  SafeOK'
<1>1. /\ pc[t] = "new" /\ latest' = latest /\ calls' = calls /\ latest \in Nat /\ latest > 0
      /\ conf' = conf /\ enabled' = enabled /\ posted' = posted
  BY DEF Explain, deskVars, DeskOK
<1>2. \/ /\ \E context : plan' = [plan EXCEPT ![t] = [build |-> latest, context |-> context]]
         /\ pc' = [pc EXCEPT ![t] = "planned"]
      \/ plan' = plan /\ pc' = [pc EXCEPT ![t] = "ended"]
  BY DEF Explain
<1>3. TurnOK(t) /\ pc \in [TurnIds -> Phases] /\ DOMAIN plan = TurnIds
  BY TurnAt
<1>4. pc' \in [TurnIds -> Phases] /\ DOMAIN plan' = TurnIds
  BY <1>2, <1>3 DEF Phases
<1>5. \A s \in TurnIds : s # t => pc'[s] = pc[s] /\ plan'[s] = plan[s]
  BY <1>2, <1>3
<1>6. /\ pc'[t] \in {"planned", "ended"}
      /\ plan'[t].build \in 0 .. latest /\ (pc'[t] = "planned" => plan'[t].build \in 1 .. latest)
  <2>1. CASE plan' = plan /\ pc' = [pc EXCEPT ![t] = "ended"]
    BY <1>3, <2>1 DEF TurnOK
  <2>2. ASSUME NEW context, plan' = [plan EXCEPT ![t] = [build |-> latest, context |-> context]],
               pc' = [pc EXCEPT ![t] = "planned"]
        PROVE  pc'[t] = "planned" /\ plan'[t].build = latest
    BY <1>3, <2>2
  <2>3. QED
    BY <1>1, <1>2, <2>1, <2>2
<1>7. TurnOK(t)'
  BY <1>1, <1>3, <1>6 DEF TurnOK
<1>8. pc[t] \notin Late /\ pc[t] # "waiting" /\ pc'[t] # "waiting"
  BY <1>1, <1>6 DEF Late
<1>9. QED
  BY <1>1, <1>4, <1>5, <1>7, <1>8, TurnAt, TurnStep

LEMMA ResolveKeeps ==
    ASSUME DeskOK, SafeOK, NEW t \in TurnIds, Resolve(t)
    PROVE  SafeOK'
<1> DEFINE config == resolve(file, env, Flags).config
<1>1. /\ pc[t] = "planned" /\ latest' = latest /\ calls' = calls /\ latest \in Nat
      /\ plan' = plan /\ enabled' = enabled /\ posted' = posted
      /\ conf' = [conf EXCEPT ![t] = <<config>>] /\ pc' = [pc EXCEPT ![t] = "resolved"]
  BY DEF Resolve, deskVars, DeskOK
<1>2. Settled(config)
  BY SettledAssumption DEF DeskOK
<1>3. TurnOK(t) /\ pc \in [TurnIds -> Phases] /\ DOMAIN conf = TurnIds
  BY TurnAt
<1> HIDE DEF config
<1>4. /\ pc' \in [TurnIds -> Phases] /\ DOMAIN conf' = TurnIds
      /\ pc'[t] = "resolved" /\ conf'[t] = <<config>>
  BY <1>1, <1>3 DEF Phases
<1>5. \A s \in TurnIds : s # t => pc'[s] = pc[s] /\ conf'[s] = conf[s]
  BY <1>1, <1>3
<1>6. conf'[t] # None /\ conf'[t][1] = config
  BY <1>4 DEF None
<1>7. TurnOK(t)'
  BY <1>1, <1>2, <1>3, <1>4, <1>6 DEF TurnOK
<1>8. pc[t] \notin Late /\ pc[t] # "waiting" /\ pc'[t] # "waiting"
  BY <1>1, <1>4 DEF Late
<1>9. QED
  BY <1>1, <1>4, <1>5, <1>7, <1>8, TurnAt, TurnStep

LEMMA OpenKeeps ==
    ASSUME DeskOK, SafeOK, NEW t \in TurnIds, Open(t)
    PROVE  SafeOK'
<1> DEFINE held == registry(conf[t][1].tools, token).held
<1>1. /\ pc[t] = "resolved" /\ latest' = latest /\ calls' = calls /\ latest \in Nat
      /\ plan' = plan /\ conf' = conf /\ posted' = posted
  BY DEF Open, deskVars, DeskOK
<1>2. \/ enabled' = [enabled EXCEPT ![t] = held] /\ pc' = [pc EXCEPT ![t] = "open"]
      \/ enabled' = enabled /\ pc' = [pc EXCEPT ![t] = "ended"]
  BY DEF Open
<1>3. held \in SUBSET Offered
  BY DEF registry
<1> HIDE DEF held
<1>4. TurnOK(t) /\ pc \in [TurnIds -> Phases] /\ enabled \in [TurnIds -> SUBSET Offered]
  BY TurnAt
<1>5. /\ pc' \in [TurnIds -> Phases] /\ enabled' \in [TurnIds -> SUBSET Offered]
      /\ pc'[t] \in {"open", "ended"}
  BY <1>2, <1>3, <1>4 DEF Phases
<1>6. \A s \in TurnIds : s # t => pc'[s] = pc[s] /\ enabled'[s] = enabled[s]
  BY <1>2, <1>4
<1>7. TurnOK(t)'
  BY <1>1, <1>4, <1>5 DEF TurnOK
<1>8. pc[t] \notin Late /\ pc[t] # "waiting" /\ pc'[t] # "waiting"
  BY <1>1, <1>5 DEF Late
<1>9. QED
  BY <1>1, <1>5, <1>6, <1>7, <1>8, TurnAt, TurnStep

LEMMA PostKeeps ==
    ASSUME DeskOK, SafeOK, NEW t \in TurnIds, Post(t)
    PROVE  SafeOK'
<1>1. /\ pc[t] = "open" /\ latest' = latest /\ calls' = calls /\ latest \in Nat
      /\ plan' = plan /\ conf' = conf /\ enabled' = enabled
  BY DEF Post, deskVars, DeskOK
<1>2. \/ \E request : posted' = [posted EXCEPT ![t] = <<request>>] /\ pc' = [pc EXCEPT ![t] = "posted"]
      \/ posted' = posted /\ pc' = [pc EXCEPT ![t] = "ended"]
  BY DEF Post
<1>3. TurnOK(t) /\ pc \in [TurnIds -> Phases] /\ DOMAIN posted = TurnIds
  BY TurnAt
<1>4. /\ pc' \in [TurnIds -> Phases] /\ DOMAIN posted' = TurnIds
      /\ pc'[t] \in {"posted", "ended"}
  BY <1>2, <1>3 DEF Phases
<1>5. \A s \in TurnIds : s # t => pc'[s] = pc[s] /\ posted'[s] = posted[s]
  BY <1>2, <1>3
<1>6. (posted'[t] # None) <=> (pc'[t] = "posted")
  <2>1. CASE posted' = posted /\ pc' = [pc EXCEPT ![t] = "ended"]
    BY <1>1, <1>3, <2>1 DEF TurnOK
  <2>2. ASSUME NEW request, posted' = [posted EXCEPT ![t] = <<request>>],
               pc' = [pc EXCEPT ![t] = "posted"]
        PROVE  posted'[t] # None /\ pc'[t] = "posted"
    <3>1. <<request>> # <<>>
      OBVIOUS
    <3>2. QED
      BY <1>3, <2>2, <3>1 DEF None
  <2>3. QED
    BY <1>2, <2>1, <2>2
<1>7. TurnOK(t)'
  BY <1>1, <1>3, <1>4, <1>6 DEF TurnOK
<1>8. pc'[t] \in Late /\ pc[t] # "waiting" /\ pc'[t] # "waiting"
  BY <1>1, <1>4 DEF Late
<1>9. QED
  BY <1>1, <1>4, <1>5, <1>7, <1>8, TurnAt, TurnStep

LEMMA CloseKeeps ==
    ASSUME DeskOK, SafeOK, NEW t \in TurnIds, Close(t)
    PROVE  SafeOK'
<1>1. /\ pc[t] = "posted" /\ latest' = latest /\ calls' = calls /\ latest \in Nat
      /\ plan' = plan /\ conf' = conf /\ enabled' = enabled
      /\ posted' = [posted EXCEPT ![t] = None] /\ pc' = [pc EXCEPT ![t] = "ended"]
  BY DEF Close, deskVars, DeskOK
<1>3. TurnOK(t) /\ pc \in [TurnIds -> Phases] /\ DOMAIN posted = TurnIds
  BY TurnAt
<1>4. /\ pc' \in [TurnIds -> Phases] /\ DOMAIN posted' = TurnIds
      /\ pc'[t] = "ended" /\ posted'[t] = None
  BY <1>1, <1>3 DEF Phases
<1>5. \A s \in TurnIds : s # t => pc'[s] = pc[s] /\ posted'[s] = posted[s]
  BY <1>1, <1>3
<1>7. TurnOK(t)'
  BY <1>1, <1>3, <1>4 DEF TurnOK
<1>8. pc'[t] \in Late /\ pc[t] # "waiting" /\ pc'[t] # "waiting"
  BY <1>1, <1>4 DEF Late
<1>9. QED
  BY <1>1, <1>4, <1>5, <1>7, <1>8, TurnAt, TurnStep

Barred(t, reach) ==
    [Spawned(t, reach) EXCEPT !.phase = "ended", !.answer = <<refused("not enabled")>>]

CallOf(d, t, reach) ==
    /\ ThreadOK(d) /\ d.turn = t /\ d.tool = reach.tool /\ d.result = None
    /\ d = Spawned(t, reach) => d.answer = None
    /\ d = Barred(t, reach) => d.phase = "ended" /\ d.answer = <<refused("not enabled")>>

LEMMA CallTo ==
    ASSUME NEW t, NEW k, NEW reach \in Reaches(t, k), t \in TurnIds, k \in 1 .. MaxCalls,
           NEW d,
           d = Spawned(t, reach) \/ d = Barred(t, reach)
    PROVE  CallOf(d, t, reach)
<1> DEFINE c == Spawned(t, reach)
           heard == <<refused("not enabled")>>
           e == [c EXCEPT !.phase = "ended", !.answer = heard]
<1>1. heard # None
  BY DEF None
<1> HIDE DEF heard
<1>2. c = Thread(t, reach.tool, reach.input, "begun", None, 0, None, None)
  BY DEF Spawned, Thread
<1>3. e = Thread(t, reach.tool, reach.input, "ended", None, 0, None, heard)
  <2> DEFINE tool == reach.tool
             input == reach.input
             c1 == [c EXCEPT !.phase = "ended"]
  <2>1. e = [c1 EXCEPT !.answer = heard]
    OBVIOUS
  <2>2. c1 = Thread(t, tool, input, "ended", None, 0, None, None)
    <3> HIDE DEF tool, input
    <3>1. c = Thread(t, tool, input, "begun", None, 0, None, None)
      BY <1>2 DEF tool, input
    <3>2. QED
      BY <3>1, PhaseSet
  <2> HIDE DEF c1, tool, input
  <2>3. e = Thread(t, tool, input, "ended", None, 0, None, heard)
    BY <2>1, <2>2, AnswerSet
  <2>4. QED
    BY <2>3 DEF tool, input
<1>4. [tool |-> reach.tool, input |-> reach.input] \in Reaches(t, k)
  BY ReachesAssumption
<1> HIDE DEF c, e
<1>5. 0 \in 0 .. Chain(reach.tool)
  BY DEF Chain, MAX_HOPS, REDIRECTS
<1>6. c.turn = t /\ c.tool = reach.tool /\ c.input = reach.input /\ c.phase = "begun" /\ c.request = None
      /\ c.hops = 0 /\ c.result = None /\ c.answer = None
  BY <1>2 DEF Thread
<1>7. e.turn = t /\ e.tool = reach.tool /\ e.input = reach.input /\ e.phase = "ended" /\ e.request = None
      /\ e.hops = 0 /\ e.result = None /\ e.answer = heard
  BY <1>3 DEF Thread
<1>8. ThreadOK(c)
  <2>1. c = Thread(c.turn, c.tool, c.input, c.phase, c.request, c.hops, c.result, c.answer)
    BY <1>2, <1>6
  <2>2. QED
    BY <1>4, <1>5, <1>6, <2>1 DEF ThreadOK, Thread, ThreadPhases
<1>9. ThreadOK(e)
  <2>1. e = Thread(e.turn, e.tool, e.input, e.phase, e.request, e.hops, e.result, e.answer)
    BY <1>3, <1>7
  <2>2. QED
    BY <1>1, <1>4, <1>5, <1>7, <2>1 DEF ThreadOK, Thread, ThreadPhases
<1>10. d = c \/ d = e
  BY DEF c, e, heard, Barred
<1>11. e = Barred(t, reach) /\ e # c
  BY <1>6, <1>7, <1>1 DEF e, heard, c, Barred
<1>12. QED
  BY <1>6, <1>7, <1>8, <1>9, <1>10, <1>11 DEF c, heard, CallOf

LEMMA CallKeeps ==
    ASSUME DeskOK, SafeOK, NEW t \in TurnIds, Call(t)
    PROVE  SafeOK'
<1> DEFINE k == Len(calls) + 1
<1>1. /\ pc[t] = "posted" /\ Len(calls) < MaxCalls
      /\ plan' = plan /\ conf' = conf /\ enabled' = enabled /\ posted' = [posted EXCEPT ![t] = None]
      /\ latest' = latest
  BY DEF Call, deskVars
<1>2. PICK reach, d :
        /\ reach \in Reaches(t, k)
        /\ calls' = Append(calls, d)
        /\ \/ reach.tool \in enabled[t] /\ d = Spawned(t, reach) /\ pc' = [pc EXCEPT ![t] = "waiting"]
           \/ d = Barred(t, reach) /\ pc' = [pc EXCEPT ![t] = "open"]
  BY DEF Call, Barred
<1>3. TurnOK(t) /\ pc \in [TurnIds -> Phases] /\ DOMAIN posted = TurnIds
  BY TurnAt
<1>4. IsSequence(calls) /\ Len(calls) \in Nat /\ k \in 1 .. MaxCalls
  <2>1. IsSequence(calls)
    BY DEF SafeOK, CallsOK
  <2>2. Len(calls) \in Nat
    BY <2>1, SequenceDomain
  <2>3. QED
    BY <1>1, <2>1, <2>2, BoundsAssumption
<1>5. /\ ThreadOK(d) /\ d.turn = t /\ d.tool = reach.tool /\ d.result = None
      /\ d = Spawned(t, reach) => d.answer = None
      /\ d = Barred(t, reach) => d.phase = "ended" /\ d.answer = <<refused("not enabled")>>
  <2>1. /\ reach \in Reaches(t, k) /\ t \in TurnIds /\ k \in 1 .. MaxCalls
        /\ d = Spawned(t, reach) \/ d = Barred(t, reach)
    BY <1>2, <1>4
  <2> HIDE DEF k
  <2>2. CallOf(d, t, reach)
    BY ONLY <2>1, CallTo
  <2>3. QED
    BY <2>2 DEF CallOf
<1>6. \/ reach.tool \in enabled[t] /\ d.answer = None /\ pc'[t] = "waiting"
      \/ /\ d.phase = "ended" /\ d.answer # None /\ d.answer[1] = refused("not enabled")
         /\ pc'[t] = "open"
  <2>1. CASE reach.tool \in enabled[t] /\ d = Spawned(t, reach) /\ pc' = [pc EXCEPT ![t] = "waiting"]
    BY <1>3, <1>5, <2>1
  <2>2. CASE d = Barred(t, reach) /\ pc' = [pc EXCEPT ![t] = "open"]
    <3>1. \A heard : <<heard>> # None /\ <<heard>>[1] = heard
      BY DEF None
    <3>2. QED
      BY <1>3, <1>5, <2>2, <3>1
  <2>3. QED
    BY <1>2, <2>1, <2>2
<1>7. /\ pc' \in [TurnIds -> Phases] /\ DOMAIN posted' = TurnIds
      /\ \A s \in TurnIds : s # t => pc'[s] = pc[s] /\ posted'[s] = posted[s]
      /\ posted'[t] = None
  BY <1>1, <1>2, <1>3 DEF Phases
<1>8. /\ IsSequence(calls') /\ Len(calls') = k /\ DOMAIN calls' = DOMAIN calls \cup {k}
      /\ calls'[k] = d /\ \A m \in DOMAIN calls : calls'[m] = calls[m] /\ m # k
  BY <1>2, <1>4, ExtendedList
<1>9. TurnsOK'
  <2>1. ASSUME NEW s \in TurnIds PROVE TurnOK(s)'
    <3>1. TurnOK(s)
      BY DEF SafeOK, TurnsOK
    <3>2. CASE s = t
      BY <1>1, <1>6, <1>7, <3>1, <3>2 DEF TurnOK
    <3>3. CASE s # t
      BY <1>1, <1>7, <3>1, <3>3 DEF TurnOK
    <3>4. QED
      BY <3>2, <3>3
  <2>2. QED
    BY <1>1, <1>7, <2>1 DEF SafeOK, TurnsOK
<1>10. \A m \in DOMAIN calls : calls[m].turn = t => calls[m].answer # None
  BY <1>1, CallAt DEF SafeOK, BelongsOK
<1>11. ASSUME NEW m \in DOMAIN calls'
       PROVE  (ThreadOK(calls[m]) /\ BelongsOK(calls[m]) /\ FitsOK(calls[m]))'
  <2>1. CASE m = k
    <3>1. calls'[m] = d
      BY <1>8, <2>1
    <3>2. ThreadOK(calls[m])'
      BY <1>5, <3>1 DEF ThreadOK
    <3>3. BelongsOK(calls[m])'
      BY <1>1, <1>3, <1>5, <1>6, <3>1 DEF BelongsOK, TurnOK, Late, None
    <3>4. FitsOK(calls[m])'
      <4> DEFINE b == Builds[plan[t].build]
                 budget == conf[t][1].tools.bytes
      <4>1. d.answer # None => HeardOK(d, b, budget, d.answer[1])
        <5> HIDE DEF b, budget
        <5>1. "not enabled" \in Unheard
          BY DEF Unheard
        <5>2. HeardOK(d, b, budget, refused("not enabled"))
          BY <5>1, RefusedHeard
        <5>3. QED
          BY <1>6, <5>2
      <4> HIDE DEF b, budget
      <4>2. QED
        BY <1>1, <1>5, <3>1, <4>1 DEF FitsOK, b, budget
    <3>5. QED
      BY <3>2, <3>3, <3>4
  <2>2. CASE m # k
    <3>1. calls'[m] = calls[m] /\ m \in DOMAIN calls
      BY <1>8, <2>2
    <3>2. ThreadOK(calls[m]) /\ BelongsOK(calls[m]) /\ FitsOK(calls[m])
      BY <3>1, CallAt DEF SafeOK
    <3>3. calls[m].turn \in TurnIds
      BY <3>2 DEF ThreadOK
    <3>4. ThreadOK(calls[m])'
      BY <3>1, <3>2 DEF ThreadOK
    <3>5. BelongsOK(calls[m])'
      <4>1. CASE calls[m].turn = t
        BY <1>1, <1>6, <1>10, <3>1, <3>2, <4>1 DEF BelongsOK, Late
      <4>2. CASE calls[m].turn # t
        BY <1>1, <1>7, <3>1, <3>2, <3>3, <4>2 DEF BelongsOK
      <4>3. QED
        BY <4>1, <4>2
    <3>6. FitsOK(calls[m])'
      BY <1>1, <3>1, <3>2 DEF FitsOK
    <3>7. QED
      BY <3>4, <3>5, <3>6
  <2>3. QED
    BY <2>1, <2>2
<1>12. CallsOK'
  BY <1>4, <1>8, <1>11 DEF CallsOK
<1>13. WaitsOK'
  <2> SUFFICES ASSUME NEW s \in TurnIds, pc'[s] = "waiting"
               PROVE  \E n \in DOMAIN calls' :
                         \A m \in DOMAIN calls' : (m = n) <=> (calls'[m].turn = s /\ calls'[m].answer = None)
    BY DEF WaitsOK
  <2>1. CASE s = t
    <3>1. d.answer = None
      BY <1>6, <2>1
    <3>2. \A m \in DOMAIN calls' : (m = k) <=> (calls'[m].turn = s /\ calls'[m].answer = None)
      BY <1>5, <1>8, <1>10, <2>1, <3>1
    <3>3. QED
      BY <1>8, <3>2
  <2>2. CASE s # t
    <3>1. PICK n \in DOMAIN calls :
            \A m \in DOMAIN calls : (m = n) <=> (calls[m].turn = s /\ calls[m].answer = None)
      BY <1>7, <2>2 DEF SafeOK, WaitsOK
    <3>2. \A m \in DOMAIN calls' : (m = n) <=> (calls'[m].turn = s /\ calls'[m].answer = None)
      BY <1>5, <1>8, <2>2, <3>1
    <3>3. QED
      BY <1>8, <3>2
  <2>3. QED
    BY <2>1, <2>2
<1>14. QED
  BY <1>9, <1>12, <1>13 DEF SafeOK

-----------------------------------------------------------------------------
(* The invariant holds.                                                      *)

LEMMA InitInv ==
    ASSUME Init
    PROVE  DeskOK /\ SafeOK
<1>1. Len(Builds) \in Nat /\ 1 \in 1 .. Len(Builds)
  <2>1. Builds \in Seq(Range(Builds)) /\ Builds # <<>>
    BY BuildsAssumption DEF IsSequence
  <2> DEFINE R == Range(Builds)
  <2> HIDE DEF R
  <2>2. Len(Builds) \in Nat /\ Len(Builds) # 0
    BY <2>1 DEF R
  <2>3. QED
    BY <2>2
<1>2. DeskOK
  BY <1>1, BoundsAssumption DEF Init, DeskOK
<1>3. calls = <<>> /\ \A t \in TurnIds : pc[t] = "new"
  BY DEF Init
<1>4. CallsOK
  <2>1. IsSequence(calls) /\ DOMAIN calls = {} /\ Len(calls) = 0
    BY <1>3, Listless
  <2>2. QED
    BY <2>1, BoundsAssumption DEF CallsOK
<1>5. TurnsOK
  <2>1. \A t \in TurnIds : TurnOK(t)
    BY <1>1, <1>2 DEF Init, TurnOK, Unasked, DeskOK
  <2>2. pc \in [TurnIds -> Phases] /\ enabled \in [TurnIds -> SUBSET Offered]
    BY DEF Init, Phases
  <2>3. QED
    BY <2>1, <2>2 DEF TurnsOK, Init
<1>6. WaitsOK
  BY <1>3 DEF WaitsOK
<1>7. QED
  BY <1>2, <1>4, <1>5, <1>6 DEF SafeOK

LEMMA DeskSame ==
    ASSUME DeskOK, UNCHANGED deskVars, faults' \in 0 .. MaxFaults
    PROVE  DeskOK'
BY DEF DeskOK, deskVars

LEMMA DeskMoves ==
    ASSUME DeskOK, SafeOK, Attach \/ EditConfig \/ EditKey \/ BuildLands
    PROVE  DeskOK' /\ SafeOK'
<1>1. PICK n \in Nat : n = Len(Builds) /\ latest \in 1 .. n
  BY BuildsAssumption, SequenceDomain DEF DeskOK
<1>2. UNCHANGED turnVars /\ calls' = calls /\ latest \in Nat
  BY <1>1 DEF Attach, EditConfig, EditKey, BuildLands
<1>3. latest' \in 1 .. n /\ latest <= latest'
  BY <1>1 DEF Attach, EditConfig, EditKey, BuildLands
<1>4. SafeOK'
  <2>1. latest' \in Nat
    BY <1>3
  <2>2. QED
    BY <1>2, <1>3, <2>1, DeskStep
<1>5. DeskOK'
  <2>1. CASE Attach
    <3>1. token' \in {"env", "gh", "none"}
      BY <2>1 DEF Attach, discover_token
    <3>2. QED
      BY <2>1, <3>1 DEF Attach, DeskOK
  <2>2. CASE EditConfig
    <3>1. edits' \in 0 .. MaxEdits
      BY <2>2, BoundsAssumption DEF EditConfig, DeskOK
    <3>2. QED
      BY <2>2, <3>1 DEF EditConfig, DeskOK
  <2>3. CASE EditKey
    <3>1. edits' \in 0 .. MaxEdits
      BY <2>3, BoundsAssumption DEF EditKey, DeskOK
    <3>2. keys' \in [KeyFiles -> KeyStates \cup {"private"}]
      BY <2>3 DEF EditKey, DeskOK
    <3>3. QED
      BY <2>3, <3>1, <3>2 DEF EditKey, DeskOK
  <2>4. CASE BuildLands
    BY <1>1, <1>3, <2>4 DEF BuildLands, DeskOK
  <2>5. QED
    BY <2>1, <2>2, <2>3, <2>4
<1>6. QED
  BY <1>4, <1>5

LEMMA TurnMoves ==
    ASSUME DeskOK, SafeOK, NEW t \in TurnIds,
           \/ Explain(t) \/ Resolve(t) \/ Open(t) \/ Post(t) \/ Call(t) \/ Close(t)
    PROVE  DeskOK' /\ SafeOK'
<1>1. UNCHANGED deskVars /\ faults' = faults
  BY DEF Explain, Resolve, Open, Post, Call, Close
<1>2. DeskOK'
  BY <1>1, DeskSame DEF DeskOK
<1>3. SafeOK'
  BY ExplainKeeps, ResolveKeeps, OpenKeeps, PostKeeps, CallKeeps, CloseKeeps
<1>4. QED
  BY <1>2, <1>3

LEMMA ThreadMoves ==
    ASSUME DeskOK, SafeOK, NEW n \in DOMAIN calls,
           \/ Reads(n) \/ Requests(n) \/ Served(n) \/ TimesOut(n) \/ Panics(n)
           \/ Received(n) \/ Disconnected(n) \/ Abandoned(n)
    PROVE  DeskOK' /\ SafeOK'
<1>1. UNCHANGED deskVars
  BY DEF Reads, Requests, Served, TimesOut, Panics, Received, Disconnected, Abandoned, Answers
<1>2. faults' \in 0 .. MaxFaults
  <2>1. faults' = faults \/ (faults < MaxFaults /\ faults' = faults + 1)
    BY DEF Reads, Requests, Served, TimesOut, Panics, Received, Disconnected, Abandoned, Answers
  <2>2. QED
    BY <2>1, BoundsAssumption DEF DeskOK
<1>3. DeskOK'
  BY <1>1, <1>2, DeskSame
<1>4. SafeOK'
  BY ReadsKeeps, RequestsKeeps, ServedKeeps, TimesOutKeeps, PanicsKeeps, ReceivedKeeps, UnheardKeeps
<1>5. QED
  BY <1>3, <1>4

LEMMA NextInv ==
    ASSUME DeskOK, SafeOK, [Next]_vars
    PROVE  DeskOK' /\ SafeOK'
<1>1. CASE Next
  BY <1>1, DeskMoves, TurnMoves, ThreadMoves DEF Next
<1>2. CASE UNCHANGED vars
  <2>1. UNCHANGED turnVars /\ UNCHANGED deskVars /\ calls' = calls /\ faults' = faults
    BY <1>2 DEF vars
  <2>2. DeskOK'
    BY <2>1, DeskSame DEF DeskOK
  <2>3. latest \in Nat /\ latest' = latest /\ latest <= latest'
    BY <2>1 DEF DeskOK, deskVars
  <2>4. SafeOK'
    BY <2>1, <2>3, DeskStep
  <2>5. QED
    BY <2>2, <2>4
<1>3. QED
  BY <1>1, <1>2

\* The inductive invariant: the builds and the files of the desk, what a turn
\* holds from which step on, how far a call's thread has got, and what it said
\* and its turn heard of it, which fits the turn's own build and configuration
\* (tools.rs run_within, https.rs, search.rs, toolset.rs).
THEOREM Invariant == Spec => [](DeskOK /\ SafeOK)
<1>1. Init => DeskOK /\ SafeOK
  BY InitInv
<1>2. DeskOK /\ SafeOK /\ [Next]_vars => (DeskOK /\ SafeOK)'
  BY NextInv
<1>3. QED
  BY <1>1, <1>2, PTL DEF Spec

-----------------------------------------------------------------------------
(* What it comes to.                                                         *)

\* A call is one thread's, with no more requests than a chain of redirects has;
\* a turn waits for one call at most, and one that was asked has its build and
\* its configuration (tools.rs, fetch.rs).
LEMMA TypeHolds ==
    ASSUME DeskOK, SafeOK
    PROVE  TypeOK
<1>1. ASSUME NEW t \in TurnIds
      PROVE  /\ (posted[t] # None) <=> (pc[t] = "posted")
             /\ plan[t].build \in 0 .. latest
             /\ pc[t] \in Phases \ {"new", "planned", "ended"} => conf[t] # None
             /\ Cardinality({n \in DOMAIN calls : calls[n].turn = t /\ Waited(n)})
                   = IF pc[t] = "waiting" THEN 1 ELSE 0
  <2>1. TurnOK(t)
    BY TurnAt
  <2> DEFINE waits == {n \in DOMAIN calls : calls[n].turn = t /\ Waited(n)}
  <2>2. CASE pc[t] = "waiting"
    <3>1. PICK n \in DOMAIN calls :
            \A m \in DOMAIN calls : (m = n) <=> (calls[m].turn = t /\ calls[m].answer = None)
      BY <2>2 DEF SafeOK, WaitsOK
    <3>2. waits = {n}
      BY <3>1 DEF Waited
    <3> HIDE DEF waits
    <3>3. Cardinality(waits) = 1
      BY <3>2, FS_Singleton
    <3>4. QED
      BY <2>1, <2>2, <3>3 DEF TurnOK, waits
  <2>3. CASE pc[t] # "waiting"
    <3>1. waits = {}
      BY <2>3, CallAt DEF SafeOK, BelongsOK, Waited
    <3> HIDE DEF waits
    <3>2. Cardinality(waits) = 0
      BY <3>1, FS_EmptySet
    <3>3. QED
      BY <2>1, <2>3, <3>2 DEF TurnOK, waits
  <2>4. QED
    BY <2>2, <2>3
<1>2. \A n \in DOMAIN calls : ThreadOK(calls[n])
  BY CallAt DEF SafeOK
<1>3. \A n \in DOMAIN calls :
         /\ calls[n].phase \in ThreadPhases
         /\ calls[n].hops \in 0 .. Chain(calls[n].tool)
         /\ (calls[n].request # None) <=> (calls[n].phase = "asked")
         /\ (calls[n].result # None) => (calls[n].phase \in {"told", "ended"})
  BY <1>2 DEF ThreadOK
<1>4. QED
  BY <1>1, <1>3 DEF TypeOK, DeskOK, SafeOK, TurnsOK, CallsOK

THEOREM TypeCorrect == Spec => []TypeOK
BY Invariant, TypeHolds, PTL

LEMMA CutHolds ==
    ASSUME SafeOK, WebIsMeasured
    PROVE  CutIsSaid
<1> SUFFICES ASSUME NEW n \in DOMAIN calls, ~Waited(n), calls[n].answer[1].ok
             PROVE  /\ calls[n].answer[1].size <= conf[calls[n].turn][1].tools.bytes
                    /\ calls[n].tool # "web_search" /\ calls[n].answer[1].withheld
                       => calls[n].answer[1].truncated \/ calls[n].answer[1].said
  BY DEF CutIsSaid
<1>1. FitsOK(calls[n]) /\ calls[n].answer # None
  BY CallAt DEF SafeOK, Waited
<1>2. CutOK(calls[n], conf[calls[n].turn][1].tools.bytes, calls[n].answer[1])
  BY <1>1 DEF FitsOK, HeardOK
<1>3. QED
  BY <1>2 DEF CutOK

\* An answer keeps to the desk's budget and says when something was withheld
\* from it, whatever the web answers with, when that has sizes (fetch.rs take,
\* github.rs with_contents, search.rs render, tools.rs capped).
THEOREM SaysWhatItCuts ==
    ASSUME WebIsMeasured
    PROVE  Spec => []CutIsSaid
BY Invariant, CutHolds, PTL

LEMMA HitsHold ==
    ASSUME DeskOK, SafeOK
    PROVE  HitsAreAnswered
<1> SUFFICES ASSUME NEW m \in DOMAIN calls, NEW n \in DOMAIN calls,
                    calls[m].turn = calls[n].turn,
                    calls[m].tool = "search_sources", ~Waited(m),
                    calls[n].tool = "gyld_query", ~Waited(n),
                    calls[n].input.kind = "record", Nameable(calls[n].input.slot),
                    NEW h \in calls[m].answer[1].hits,
                    h.place = <<"label", calls[n].input.stream, calls[n].input.slot>>,
                    calls[n].answer[1].why \notin Unheard
             PROVE  calls[n].answer[1].ok
  BY DEF HitsAreAnswered, Unheard
<1> DEFINE i == plan[calls[n].turn].build
           b == Builds[i]
           stream == calls[n].input.stream
           slot == calls[n].input.slot
           budget == conf[calls[n].turn][1].tools.bytes
<1>1. /\ BelongsOK(calls[n])
      /\ calls[m].answer # None /\ HeardOK(calls[m], b, budget, calls[m].answer[1])
      /\ calls[n].answer # None /\ HeardOK(calls[n], b, budget, calls[n].answer[1])
  BY CallAt DEF SafeOK, Waited, FitsOK
<1>2. b \in Range(Builds)
  <2>1. i \in 1 .. Len(Builds)
    BY <1>1 DEF BelongsOK, DeskOK
  <2>2. QED
    BY <2>1, BuildAt
<1> HIDE DEF b, budget
<1>3. EmittedIn(b, h.place)
  BY <1>1 DEF HeardOK
<1>4. AsksEmitted(calls[n], b)
  BY <1>3 DEF AsksEmitted
<1>5. QED
  BY <1>1, <1>4 DEF HeardOK

\* A row that search_sources found can be read with gyld_query later in the
\* turn, though other builds land meanwhile: a slot that no call can name, and a
\* list over MAX_READ_BYTES, are the only rows it finds and cannot read (tools.rs
\* ToolContext::beside, search.rs records, toolset.rs record, slot, read).
THEOREM AnswersItsHits == Spec => []HitsAreAnswered
BY Invariant, HitsHold, PTL

-----------------------------------------------------------------------------
(* Where the requests go.                                                    *)

LEMMA PrefixOfJoin ==
    ASSUME NEW a, IsSequence(a), NEW b, IsSequence(b)
    PROVE  SubSeq(a \o b, 1, Len(a)) = a
<1> DEFINE D == Range(a) \cup Range(b)
           s == a \o b
<1>1. a \in Seq(Range(a)) /\ b \in Seq(Range(b))
  BY DEF IsSequence
<1>2. a \in Seq(D) /\ b \in Seq(D)
  <2> DEFINE A == Range(a)
             B == Range(b)
  <2>1. a \in Seq(A) /\ b \in Seq(B) /\ A \subseteq D /\ B \subseteq D
    BY <1>1
  <2> HIDE DEF A, B, D
  <2>2. QED
    BY <2>1
<1> HIDE DEF D
<1>3. PICK n \in Nat : n = Len(a)
  BY <1>2
<1>4. s \in Seq(D) /\ n <= Len(s) /\ \A i \in 1 .. n : s[i] = a[i] /\ i \in 1 .. Len(s)
  BY <1>2, <1>3
<1> HIDE DEF s
<1>5. SubSeq(s, 1, n) = [i \in 1 .. n |-> s[i]]
  BY <1>3, <1>4
<1>6. a = [i \in 1 .. n |-> a[i]]
  BY <1>2, <1>3
<1>7. QED
  BY <1>3, <1>4, <1>5, <1>6 DEF s

LEMMA JoinsApart ==
    ASSUME NEW a, IsSequence(a), NEW b, IsSequence(b), NEW c, IsSequence(c)
    PROVE  (a \o b) \o c = a \o (b \o c)
<1> DEFINE A == Range(a)
           B == Range(b)
           C == Range(c)
           D == A \cup B \cup C
<1>1. a \in Seq(A) /\ b \in Seq(B) /\ c \in Seq(C) /\ A \subseteq D /\ B \subseteq D /\ C \subseteq D
  BY DEF IsSequence
<1> HIDE DEF A, B, C, D
<1>2. a \in Seq(D) /\ b \in Seq(D) /\ c \in Seq(D)
  BY <1>1
<1>3. QED
  BY <1>2

LEMMA One ==
    ASSUME NEW x
    PROVE  IsSequence(<<x>>) /\ Len(<<x>>) = 1 /\ Range(<<x>>) = {x}
<1> DEFINE s == <<x>>
<1>1. DOMAIN s = 1 .. 1 /\ s = [i \in 1 .. 1 |-> s[i]] /\ s[1] = x
  OBVIOUS
<1> HIDE DEF s
<1>2. IsSequence(s) /\ Len(s) = 1
  BY <1>1, FunctionListed
<1>3. Range(s) = {x}
  BY <1>1 DEF Range
<1>4. QED
  BY <1>2, <1>3 DEF s

\* A path under a repository's own, with nothing in it that climbs.
LEMMA UnderRepository ==
    ASSUME NEW input, repository(input), IsSequence(input.repo), NEW rest, IsSequence(rest),
           ".." \notin Range(rest)
    PROVE  LET path == (<<"repos">> \o input.repo) \o rest IN
           /\ SubSeq(path, 1, 3) = <<"repos">> \o input.repo
           /\ \A i \in DOMAIN path : path[i] # ".."
<1> DEFINE repo == input.repo
           start == <<"repos">>
           own == start \o repo
           path == own \o rest
<1>1. Len(repo) = 2 /\ repo[1] # ".." /\ repo[2] # ".."
  <2>1. 1 \in 1 .. 2 /\ 2 \in 1 .. 2
    OBVIOUS
  <2>2. Len(repo) = 2 /\ \A i \in 1 .. 2 : repo[i] \notin {"", ".", "..", "not a name"}
    BY DEF repository
  <2> HIDE DEF repo
  <2>3. QED
    BY <2>1, <2>2
<1>2. IsSequence(start) /\ Len(start) = 1 /\ Range(start) = {"repos"}
  BY One
<1> HIDE DEF repo, start
<1>3. ".." \notin Range(repo)
  <2>1. IsSequence(repo)
    BY DEF repo
  <2>2. DOMAIN repo = 1 .. 2
    BY <1>1, <2>1, SequenceDomain
  <2>3. QED
    BY <1>1, <2>2 DEF Range
<1>4. /\ IsSequence(own) /\ Len(own) = 3
      /\ \A x \in Range(own) : x \in Range(start) \/ x \in Range(repo)
  <2>1. IsSequence(repo)
    BY DEF repo
  <2>2. /\ IsSequence(own) /\ Len(own) = Len(start) + Len(repo)
        /\ \A x \in Range(own) : x \in Range(start) \/ x \in Range(repo)
    BY <1>2, <2>1, JoinedFrom
  <2> HIDE DEF own
  <2>3. QED
    BY <1>1, <1>2, <2>2
<1> HIDE DEF own
<1>5. SubSeq(path, 1, 3) = own
  BY <1>4, PrefixOfJoin
<1>6. IsSequence(path) /\ \A x \in Range(path) : x \in Range(own) \/ x \in Range(rest)
  BY <1>4, JoinedFrom
<1> HIDE DEF path
<1>7. ".." \notin Range(path)
  BY <1>2, <1>3, <1>4, <1>6
<1>8. \A i \in DOMAIN path : path[i] # ".."
  BY <1>7 DEF Range
<1>9. QED
  BY <1>5, <1>8 DEF path, own, start, repo

LEMMA ReadPrivate ==
    ASSUME NEW state \in KeyStates \cup {"private"}, read_key(state).ok
    PROVE  state = "private"
BY KeyStatesAssumption DEF read_key, Refused

\* Where a URL may be asked for under a list of hosts.
LEMMA GoesWhere ==
    ASSUME NEW url, NEW hosts, Goes(url, hosts)
    PROVE  /\ url.scheme \in {"http", "https"} /\ ~url.user
           /\ url.host \in hosts \/ (ANY_HOST \in hosts /\ ~private(url.host))
BY DEF Goes, parses, allowed

LEMMA FetchReaches ==
    ASSUME NEW c, c.tool = "fetch_url", c.tool \in enabled[c.turn], NEW url,
           Goes(url, conf[c.turn][1].tools.fetch.hosts)
    PROVE  MayReach(c, [url |-> url, key |-> "none"])
BY GoesWhere DEF MayReach

LEMMA GithubReaches ==
    ASSUME NEW c, ThreadOK(c), c.tool = "github", c.tool \in enabled[c.turn],
           github_begins(c.input).ok
    PROVE  MayReach(c, [url |-> github_begins(c.input).url, key |-> github_begins(c.input).key])
<1> DEFINE input == c.input
           begun == github_begins(input)
<1>1. IsSequence(input.repo) /\ IsSequence(input.path)
  BY InputOK
<1>2. ASSUME NEW path, begun = at(path), \A i \in DOMAIN path : path[i] # "..",
             input.kind # "search" => SubSeq(path, 1, 3) = <<"repos">> \o input.repo
      PROVE  MayReach(c, [url |-> begun.url, key |-> begun.key])
  <2> HIDE DEF begun
  <2>1. begun.url = Url("https", API, path)
    BY <1>2 DEF at
  <2>2. /\ begun.url.scheme = "https" /\ ~begun.url.user /\ begun.url.host = API /\ begun.url.path = path
    BY <2>1 DEF Url
  <2>3. QED
    BY <1>2, <2>2 DEF MayReach
<1> DEFINE reached == MayReach(c, [url |-> begun.url, key |-> begun.key])
<1>3. ASSUME input.kind = "search" PROVE reached
  <2> DEFINE path == <<"search", "code">>
  <2>1. begun = at(path)
    BY <1>3, RefusedHonest DEF github_begins
  <2>2. \A i \in DOMAIN path : path[i] # ".."
    OBVIOUS
  <2> HIDE DEF begun, path
  <2>3. QED
    BY <1>2, <1>3, <2>1, <2>2
<1>4. ASSUME input.kind # "search" PROVE reached
  <2>1. repository(input)
    BY <1>4, RefusedHonest DEF github_begins
  <2>2. \/ begun = at(<<"repos">> \o input.repo \o <<"readme">>)
        \/ a_path(input).ok /\ begun = contents_at(input)
    BY <1>4, RefusedHonest DEF github_begins
  <2>3. CASE begun = at(<<"repos">> \o input.repo \o <<"readme">>)
    <3> DEFINE rest == <<"readme">>
               path == (<<"repos">> \o input.repo) \o rest
    <3>1. IsSequence(rest) /\ ".." \notin Range(rest)
      BY One
    <3>2. begun = at(path)
      BY <2>3
    <3> HIDE DEF rest, begun
    <3>3. /\ SubSeq(path, 1, 3) = <<"repos">> \o input.repo
          /\ \A i \in DOMAIN path : path[i] # ".."
      BY <1>1, <2>1, <3>1, UnderRepository
    <3> HIDE DEF path
    <3>4. QED
      BY <1>2, <3>2, <3>3
  <2>4. CASE a_path(input).ok /\ begun = contents_at(input)
    <3> DEFINE start == <<"contents">>
               yes == {segment \in Range(input.path) : segment # ""}
               kept == Kept(input.path, yes)
               own == <<"repos">> \o input.repo
               path == (own \o start) \o kept
    <3>1. begun = at(path)
      BY <2>4 DEF contents_at
    <3> HIDE DEF begun, yes
    <3>2. IsSequence(start) /\ Range(start) = {"contents"} /\ IsSequence(<<"repos">>)
      BY One
    <3>3. kept \in Seq(Range(input.path))
      BY <1>1, KeptAmong
    <3>4. IsSequence(kept) /\ ".." \notin Range(kept)
      <4>1. ".." \notin Range(input.path)
        BY <2>4, RefusedHonest DEF a_path
      <4> DEFINE R == Range(input.path)
      <4>2. kept \in Seq(R) /\ ".." \notin R
        BY <3>3, <4>1
      <4> HIDE DEF R, kept
      <4>3. QED
        BY <4>2, SequenceOf
    <3> HIDE DEF kept
    <3>5. IsSequence(own)
      BY <1>1, <3>2, JoinedFrom
    <3> DEFINE rest == start \o kept
    <3>6. IsSequence(rest) /\ ".." \notin Range(rest)
      <4> HIDE DEF start
      <4>1. IsSequence(rest) /\ \A x \in Range(rest) : x \in Range(start) \/ x \in Range(kept)
        BY <3>2, <3>4, JoinedFrom
      <4>2. QED
        BY <3>2, <3>4, <4>1
    <3>7. path = own \o rest
      <4> HIDE DEF own, start
      <4>1. (own \o start) \o kept = own \o (start \o kept)
        BY ONLY <3>2, <3>4, <3>5, JoinsApart
      <4>2. QED
        BY <4>1
    <3> HIDE DEF rest
    <3>8. /\ SubSeq(own \o rest, 1, 3) = own
          /\ \A i \in DOMAIN (own \o rest) : (own \o rest)[i] # ".."
      BY <1>1, <2>1, <3>6, UnderRepository
    <3> DEFINE whole == own \o rest
    <3>9. begun = at(whole)
      BY <3>1, <3>7
    <3> HIDE DEF whole
    <3>10. QED
      BY <1>2, <3>8, <3>9 DEF whole
  <2>5. QED
    BY <2>2, <2>3, <2>4
<1>5. QED
  BY <1>3, <1>4

LEMMA SearchReaches ==
    ASSUME DeskOK, NEW c, BelongsOK(c), c.tool = "web_search", c.tool \in enabled[c.turn],
           search_begins(c.input, conf[c.turn][1].tools.search, keys).ok
    PROVE  LET begun == search_begins(c.input, conf[c.turn][1].tools.search, keys) IN
           MayReach(c, [url |-> begun.url, key |-> begun.key])
<1> DEFINE policy == conf[c.turn][1].tools.search
           begun == search_begins(c.input, policy, keys)
           reached == MayReach(c, [url |-> begun.url, key |-> begun.key])
<1>1. /\ policy.url # <<>> => {"scheme", "user", "host", "path"} \subseteq DOMAIN policy.url[1]
      /\ policy.key.file # <<>> => policy.key.file[1] \in KeyFiles
  BY DEF BelongsOK, Settled
<1>2. <<"searxng">> # <<"brave">>
  <2>1. <<"searxng">>[1] # <<"brave">>[1]
    OBVIOUS
  <2>2. QED
    BY <2>1
<1>3. \/ policy.provider = <<"searxng">> /\ policy.url # <<>> /\ begun = searxng_asks(policy)
      \/ policy.provider = <<"brave">> /\ begun = brave_asks(policy, keys)
  <2> HIDE DEF policy
  <2> DEFINE asks == IF policy.provider = <<"searxng">> THEN searxng_asks(policy) ELSE brave_asks(policy, keys)
             why == IF c.input.query \in {"blank", "too long"} THEN "query" ELSE "not configured"
  <2>1. begun = Refused(why) \/ (configured(policy) /\ begun = asks)
    BY DEF search_begins
  <2>2. begun.ok
    BY DEF policy
  <2> HIDE DEF begun, asks, why
  <2>3. configured(policy) /\ begun = asks
    BY <2>1, <2>2, RefusedHonest
  <2>4. \/ policy.provider = <<"searxng">> /\ policy.url # <<>>
        \/ policy.provider = <<"brave">>
    BY <2>3 DEF configured
  <2>5. QED
    BY <1>2, <2>3, <2>4 DEF asks
<1>4. ASSUME policy.provider = <<"searxng">>, policy.url # <<>>, begun = searxng_asks(policy)
      PROVE  reached
  <2> DEFINE given == policy.url[1]
             url == [given EXCEPT !.path = Trimmed(@) \o <<"search">>]
  <2>1. begun = IF parses(url) THEN [ok |-> TRUE, url |-> url, key |-> "none"] ELSE Refused("not a search url")
    BY <1>4 DEF searxng_asks, endpoint
  <2>2. url.host = given.host
    BY <1>1, <1>4
  <2> HIDE DEF url
  <2>3. parses(url) /\ begun = [ok |-> TRUE, url |-> url, key |-> "none"]
    BY <2>1, RefusedHonest
  <2> HIDE DEF begun
  <2>4. parses(url) /\ begun.url = url /\ begun.key = "none"
    BY <2>3
  <2>5. QED
    BY <1>2, <1>4, <2>2, <2>4 DEF MayReach, parses
<1>5. ASSUME policy.provider = <<"brave">>, begun = brave_asks(policy, keys)
      PROVE  reached
  <2> DEFINE key == search_key(policy.key, keys)
             asks == [ok |-> TRUE, url |-> BRAVE_API, key |-> "none"]
  <2>1. parses(BRAVE_API)
    BY DEF parses, BRAVE_API, Url
  <2>2. endpoint(BRAVE_API) = asks
    BY <2>1 DEF endpoint
  <2>3. key.ok /\ begun = [asks EXCEPT !.key = key.source]
    BY <1>5, <2>2 DEF brave_asks
  <2> HIDE DEF begun
  <2>4. begun.url = BRAVE_API /\ begun.key = key.source
    BY <2>3
  <2>5. key.source = "file" => keys[policy.key.file[1]] = "private"
    <3> SUFFICES ASSUME key.source = "file" PROVE keys[policy.key.file[1]] = "private"
      OBVIOUS
    <3> DEFINE state == keys[policy.key.file[1]]
    <3>1. policy.key.file # <<>> /\ key = read_key(state)
      BY <2>3, RefusedHonest DEF search_key, Key
    <3>2. state \in KeyStates \cup {"private"}
      BY <1>1, <3>1 DEF DeskOK
    <3> HIDE DEF state, key
    <3>3. state = "private"
      BY <2>3, <3>1, <3>2, ReadPrivate
    <3>4. QED
      BY <3>3 DEF state
  <2> HIDE DEF key
  <2>6. QED
    BY <1>5, <2>1, <2>4, <2>5 DEF MayReach, parses
<1> HIDE DEF reached
<1>6. reached
  BY <1>3, <1>4, <1>5
<1>7. QED
  BY <1>6 DEF reached

LEMMA BegunReaches ==
    ASSUME DeskOK, NEW c, ThreadOK(c), BelongsOK(c), c.tool \in NetworkTools, c.tool \in enabled[c.turn],
           begins(c).ok
    PROVE  MayReach(c, [url |-> begins(c).url, key |-> begins(c).key])
<1> DEFINE begun == begins(c)
           reached == MayReach(c, [url |-> begun.url, key |-> begun.key])
<1>1. ASSUME c.tool = "fetch_url" PROVE reached
  <2> DEFINE policy == conf[c.turn][1].tools.fetch
             url == c.input.url[1]
  <2>1. begun = fetch_begins(c.input, policy)
    BY <1>1 DEF begins
  <2>2. Goes(url, policy.hosts) /\ begun = [ok |-> TRUE, url |-> url, key |-> "none"]
    BY <2>1, RefusedHonest DEF fetch_begins
  <2> HIDE DEF begun, url
  <2>3. begun.url = url /\ begun.key = "none"
    BY <2>2
  <2>4. QED
    BY <1>1, <2>2, <2>3, FetchReaches
<1>2. ASSUME c.tool = "github" PROVE reached
  <2>1. begun = github_begins(c.input)
    BY <1>2 DEF begins
  <2> HIDE DEF begun
  <2>2. begun.ok
    BY DEF begun
  <2>3. QED
    BY <1>2, <2>1, <2>2, GithubReaches
<1>3. ASSUME c.tool = "web_search" PROVE reached
  <2>1. begun = search_begins(c.input, conf[c.turn][1].tools.search, keys)
    BY <1>3 DEF begins
  <2> HIDE DEF begun
  <2>2. begun.ok
    BY DEF begun
  <2>3. QED
    BY <1>3, <2>1, <2>2, SearchReaches
<1> HIDE DEF reached
<1>4. reached
  BY <1>1, <1>2, <1>3, ToolsApart
<1>5. QED
  BY <1>4 DEF reached

\* What a step asks of the web where somebody checks it, and of the model.
Checked(c) == c.tool = "fetch_url" \/ c.hops = 0
CallsAsked ==
    \A n \in DOMAIN calls' :
       /\ calls'[n].request # None
       /\ n \in DOMAIN calls => calls'[n].request # calls[n].request
       /\ Checked(calls'[n])
       => MayReach(calls'[n], calls'[n].request[1])
AskedOf(t) ==
    posted'[t] # None /\ posted[t] = None
    => /\ posted'[t][1].url.host = conf[t][1].base_url.host
       /\ posted'[t][1].key = "file" => keys[conf[t][1].key_file] = "private"

LEMMA CallsKept ==
    ASSUME calls' = calls
    PROVE  CallsAsked
BY DEF CallsAsked

LEMMA CallReplaced ==
    ASSUME CallsOK, NEW n \in DOMAIN calls, NEW d, calls' = Replaced(calls, n, d),
           \/ d.request = None
           \/ d.request = calls[n].request
           \/ Checked(d) => MayReach(d, d.request[1])
    PROVE  CallsAsked
<1>1. /\ DOMAIN calls' = DOMAIN calls /\ calls'[n] = d
      /\ \A m \in DOMAIN calls : m # n => calls'[m] = calls[m]
  BY ReplacedList DEF CallsOK
<1>2. QED
  BY <1>1 DEF CallsAsked

LEMMA TellsAsked ==
    ASSUME CallsOK, NEW n \in DOMAIN calls, NEW said, Tells(n, said)
    PROVE  CallsAsked
<1> DEFINE c == calls[n]
           p == IF c.answer = None THEN "told" ELSE "ended"
           d == Thread(c.turn, c.tool, c.input, p, None, c.hops, <<said>>, c.answer)
<1>1. calls' = Replaced(calls, n, d)
  BY CallAt, TellsTo
<1>2. d.request = None
  BY DEF Thread
<1> HIDE DEF d
<1>3. QED
  BY <1>1, <1>2, CallReplaced

LEMMA PanicsAsked ==
    ASSUME CallsOK, NEW n \in DOMAIN calls, Panics(n)
    PROVE  CallsAsked
<1> DEFINE c == calls[n]
           p == IF c.answer = None THEN "dropped" ELSE "ended"
           d == Thread(c.turn, c.tool, c.input, p, None, c.hops, c.result, c.answer)
<1>1. calls' = Replaced(calls, n, d)
  BY CallAt, PanicsTo
<1>2. d.request = None
  BY DEF Thread
<1> HIDE DEF d
<1>3. QED
  BY <1>1, <1>2, CallReplaced

LEMMA AnswersAsked ==
    ASSUME CallsOK, NEW n \in DOMAIN calls, NEW heard, Answers(n, heard)
    PROVE  CallsAsked
<1> DEFINE c == calls[n]
           p == IF c.phase \in {"told", "dropped"} THEN "ended" ELSE c.phase
           d == Thread(c.turn, c.tool, c.input, p, c.request, c.hops, None, <<heard>>)
<1>1. calls' = Replaced(calls, n, d)
  BY CallAt, AnswersTo
<1>2. d.request = c.request
  BY DEF Thread
<1> HIDE DEF d
<1>3. QED
  BY <1>1, <1>2, CallReplaced

\* Where a call may reach is a matter of its turn, its tool and its input.
LEMMA ReachesAlike ==
    ASSUME NEW c, NEW d, d.turn = c.turn, d.tool = c.tool, d.input = c.input,
           NEW request, MayReach(c, request)
    PROVE  MayReach(d, request)
BY DEF MayReach

LEMMA AsksAsked ==
    ASSUME CallsOK, NEW n \in DOMAIN calls, NEW url, NEW key, NEW count, Asks(n, url, key, count),
           calls[n].tool = "fetch_url" \/ count = 0 => MayReach(calls[n], [url |-> url, key |-> key])
    PROVE  CallsAsked
<1> DEFINE c == calls[n]
           request == [url |-> url, key |-> key]
           d == Thread(c.turn, c.tool, c.input, "asked", <<request>>, count, c.result, c.answer)
<1>1. calls' = Replaced(calls, n, d)
  BY CallAt, AsksTo
<1> HIDE DEF request
<1>2. /\ d.turn = c.turn /\ d.tool = c.tool /\ d.input = c.input
      /\ d.request = <<request>> /\ d.hops = count
  BY DEF Thread
<1>3. c.tool = "fetch_url" \/ count = 0 => MayReach(c, request)
  BY DEF request
<1> HIDE DEF c, d
<1>4. MayReach(c, request) => MayReach(d, request)
  BY <1>2, ReachesAlike
<1>5. d.request[1] = request
  BY <1>2
<1>6. Checked(d) => MayReach(d, d.request[1])
  BY <1>2, <1>3, <1>4, <1>5 DEF Checked
<1>7. QED
  BY <1>1, <1>6, CallReplaced

LEMMA RequestsAsked ==
    ASSUME DeskOK, SafeOK, NEW n \in DOMAIN calls, Requests(n)
    PROVE  CallsAsked
<1> DEFINE c == calls[n]
           begun == begins(c)
<1>1. /\ c.phase = "begun" /\ c.tool \in NetworkTools
      /\ IF begun.ok THEN Asks(n, begun.url, begun.key, 0) ELSE Tells(n, begun)
  BY DEF Requests
<1>2. CallsOK /\ ThreadOK(c) /\ BelongsOK(c)
  BY CallAt DEF SafeOK
<1>3. c.tool \in enabled[c.turn]
  BY <1>1, <1>2 DEF BelongsOK
<1>4. begun.ok => MayReach(c, [url |-> begun.url, key |-> begun.key])
  BY <1>1, <1>2, <1>3, BegunReaches
<1> HIDE DEF begun
<1>5. QED
  BY <1>1, <1>2, <1>4, AsksAsked, TellsAsked

LEMMA ServedAsked ==
    ASSUME SafeOK, NEW n \in DOMAIN calls, Served(n)
    PROVE  CallsAsked
<1> DEFINE c == calls[n]
           policy == conf[c.turn][1].tools
<1>1. CallsOK /\ BelongsOK(c)
  BY CallAt DEF SafeOK
<1>2. c.phase = "asked"
  BY DEF Served
<1>3. c.tool \in enabled[c.turn]
  BY <1>1, <1>2 DEF BelongsOK
<1>4. PICK response \in Web(c.tool, c.request[1].url) :
        IF c.tool = "fetch_url"
        THEN LET next == follow(response, c.hops, policy.fetch) IN
             IF next.go THEN Asks(n, next.url, "none", c.hops + 1) ELSE Tells(n, next.done)
        ELSE LET next == redirected(response, c.hops) IN
             IF next.go THEN Asks(n, next.url, c.request[1].key, c.hops + 1)
             ELSE Tells(n, IF next.stops THEN Refused("transport") ELSE reads(c, response))
  BY DEF Served
<1>5. CASE c.tool # "fetch_url"
  <2>1. \/ \E said : Tells(n, said)
        \/ \E url, key : Asks(n, url, key, c.hops + 1)
    BY <1>4, <1>5
  <2>2. c.hops + 1 # 0
    <3>1. ThreadOK(c)
      BY CallAt DEF SafeOK
    <3>2. c.hops \in 0 .. Chain(c.tool) /\ Chain(c.tool) \in {3, 10}
      BY <3>1 DEF ThreadOK, Chain, MAX_HOPS, REDIRECTS
    <3>3. c.hops \in Nat
      BY <3>2
    <3>4. QED
      BY <3>3
  <2>3. QED
    BY <1>1, <1>5, <2>1, <2>2, TellsAsked, AsksAsked
<1>6. CASE c.tool = "fetch_url"
  <2> DEFINE next == follow(response, c.hops, policy.fetch)
             url == response.location[1]
  <2>1. IF next.go THEN Asks(n, next.url, "none", c.hops + 1) ELSE Tells(n, next.done)
    BY <1>4, <1>6
  <2>2. CASE ~next.go
    BY <1>1, <2>1, <2>2, TellsAsked
  <2>3. CASE next.go
    <3>1. next.url = url /\ Goes(url, policy.fetch.hosts)
      BY <2>3 DEF follow
    <3> HIDE DEF next, url
    <3>2. MayReach(c, [url |-> url, key |-> "none"])
      BY <1>3, <1>6, <3>1, FetchReaches
    <3>3. Asks(n, url, "none", c.hops + 1)
      BY <2>1, <2>3, <3>1
    <3>4. QED
      BY <1>1, <3>2, <3>3, AsksAsked
  <2>4. QED
    BY <2>2, <2>3
<1>7. QED
  BY <1>5, <1>6

LEMMA CallAsked ==
    ASSUME SafeOK, NEW t \in TurnIds, Call(t)
    PROVE  CallsAsked
<1> DEFINE k == Len(calls) + 1
<1>1. PICK reach, d : calls' = Append(calls, d) /\ (d = Spawned(t, reach) \/ d = Barred(t, reach))
  BY DEF Call, Barred
<1>2. d.request = None
  <2> DEFINE c == Spawned(t, reach)
             heard == <<refused("not enabled")>>
             e == [c EXCEPT !.phase = "ended", !.answer = heard]
  <2>1. c = Thread(t, reach.tool, reach.input, "begun", None, 0, None, None) /\ c.request = None
    BY DEF Spawned, Thread
  <2> HIDE DEF c, heard
  <2>2. e.request = c.request
    <3> DEFINE tool == reach.tool
               input == reach.input
               c1 == [c EXCEPT !.phase = "ended"]
    <3>1. c = Thread(t, tool, input, "begun", None, 0, None, None)
      BY <2>1
    <3> HIDE DEF tool, input
    <3>2. c1 = Thread(t, tool, input, "ended", None, 0, None, None)
      BY <3>1, PhaseSet
    <3>3. e = [c1 EXCEPT !.answer = heard]
      OBVIOUS
    <3> HIDE DEF c1, e
    <3>4. e = Thread(t, tool, input, "ended", None, 0, None, heard)
      BY <3>2, <3>3, AnswerSet
    <3>5. QED
      BY <2>1, <3>4 DEF Thread
  <2>3. Barred(t, reach) = e /\ Spawned(t, reach) = c
    BY DEF Barred, c, heard
  <2> HIDE DEF e
  <2>4. QED
    BY <1>1, <2>1, <2>2, <2>3
<1>3. /\ DOMAIN calls' = DOMAIN calls \cup {k} /\ calls'[k] = d
      /\ \A m \in DOMAIN calls : calls'[m] = calls[m]
  BY <1>1, ExtendedList DEF SafeOK, CallsOK
<1> HIDE DEF k
<1>4. QED
  BY <1>2, <1>3 DEF CallsAsked

LEMMA PostAsked ==
    ASSUME DeskOK, SafeOK, NEW u \in TurnIds, Post(u), NEW t \in TurnIds
    PROVE  AskedOf(t)
<1> DEFINE config == conf[u][1]
           state == keys[config.key_file]
           key == discover_key(env, state)
           url == [config.base_url EXCEPT !.path = @ \o <<"v1", "messages">>]
           request == [url |-> url, key |-> key.source]
<1>1. pc[u] = "open" /\ (posted' = posted \/ (key.ok /\ posted' = [posted EXCEPT ![u] = <<request>>]))
  BY DEF Post
<1>2. Settled(config) /\ DOMAIN posted = TurnIds
  BY <1>1, TurnAt DEF TurnOK
<1>3. CASE posted' = posted
  BY <1>3 DEF AskedOf
<1>4. CASE key.ok /\ posted' = [posted EXCEPT ![u] = <<request>>]
  <2>1. url.host = config.base_url.host
    BY <1>2 DEF Settled
  <2>2. key.source = "file" => state = "private"
    <3>1. state \in KeyStates \cup {"private"}
      BY <1>2 DEF Settled, DeskOK
    <3> HIDE DEF state
    <3>2. key = Key("env") \/ key = read_key(state)
      BY DEF discover_key
    <3>3. Key("env").source # "file"
      BY DEF Key
    <3> HIDE DEF key
    <3>4. QED
      BY <1>4, <3>1, <3>2, <3>3, ReadPrivate
  <2>3. request.url = url /\ request.key = key.source
    OBVIOUS
  <2> HIDE DEF request, key, state, url
  <2>4. posted'[t] = IF t = u THEN <<request>> ELSE posted[t]
    BY <1>2, <1>4
  <2>5. CASE t = u
    <3>1. posted'[t][1] = request
      BY <2>4, <2>5
    <3>2. QED
      BY <2>1, <2>2, <2>3, <2>5, <3>1 DEF AskedOf, state
  <2>6. CASE t # u
    BY <2>4, <2>6 DEF AskedOf
  <2>7. QED
    BY <2>5, <2>6
<1>5. QED
  BY <1>1, <1>3, <1>4

\* Any other step leaves what was asked of the model, or ends it.
LEMMA PostedKept ==
    ASSUME SafeOK, NEW u, posted' = posted \/ posted' = [posted EXCEPT ![u] = None], NEW t \in TurnIds
    PROVE  AskedOf(t)
<1>1. DOMAIN posted = TurnIds
  BY DEF SafeOK, TurnsOK
<1>2. posted'[t] = posted[t] \/ posted'[t] = None
  BY <1>1
<1>3. QED
  BY <1>2 DEF AskedOf

LEMMA ThreadAsksWhere ==
    ASSUME DeskOK, SafeOK, NEW n \in DOMAIN calls,
           \/ Reads(n) \/ Requests(n) \/ Served(n) \/ TimesOut(n) \/ Panics(n)
           \/ Received(n) \/ Disconnected(n) \/ Abandoned(n)
    PROVE  CallsAsked /\ posted' = posted
<1>0. CallsOK
  BY DEF SafeOK
<1>1. CASE Reads(n)
  <2>1. \E said : Tells(n, said)
    BY <1>1 DEF Reads
  <2>2. QED
    BY <1>0, <1>1, <2>1, TellsAsked DEF Reads, turnVars
<1>2. CASE Requests(n)
  BY <1>2, RequestsAsked DEF Requests, turnVars
<1>3. CASE Served(n)
  BY <1>3, ServedAsked DEF Served, turnVars
<1>4. CASE TimesOut(n)
  BY <1>0, <1>4, TellsAsked DEF TimesOut, turnVars
<1>5. CASE Panics(n)
  BY <1>0, <1>5, PanicsAsked DEF Panics, turnVars
<1>6. CASE Received(n) \/ Disconnected(n) \/ Abandoned(n)
  <2>1. \E heard : Answers(n, heard)
    BY <1>6 DEF Received, Disconnected, Abandoned
  <2>2. QED
    BY <1>0, <2>1, AnswersAsked DEF Answers
<1>7. QED
  BY <1>1, <1>2, <1>3, <1>4, <1>5, <1>6

LEMMA AsksWhere ==
    ASSUME DeskOK, SafeOK, Next
    PROVE  CallsAsked /\ \A t \in TurnIds : AskedOf(t)
<1>1. CASE Attach \/ EditConfig \/ EditKey \/ BuildLands
  <2>1. calls' = calls /\ posted' = posted
    BY <1>1 DEF Attach, EditConfig, EditKey, BuildLands, turnVars
  <2>2. QED
    BY <2>1, CallsKept, PostedKept
<1>2. ASSUME NEW u \in TurnIds, Explain(u) \/ Resolve(u) \/ Open(u) \/ Close(u)
      PROVE  CallsAsked /\ \A t \in TurnIds : AskedOf(t)
  <2>1. calls' = calls /\ (posted' = posted \/ posted' = [posted EXCEPT ![u] = None])
    BY <1>2 DEF Explain, Resolve, Open, Close
  <2>2. QED
    BY <2>1, CallsKept, PostedKept
<1>3. ASSUME NEW u \in TurnIds, Post(u)
      PROVE  CallsAsked /\ \A t \in TurnIds : AskedOf(t)
  <2>1. calls' = calls
    BY <1>3 DEF Post
  <2>2. QED
    BY <1>3, <2>1, CallsKept, PostAsked
<1>4. ASSUME NEW u \in TurnIds, Call(u)
      PROVE  CallsAsked /\ \A t \in TurnIds : AskedOf(t)
  <2>1. posted' = [posted EXCEPT ![u] = None]
    BY <1>4 DEF Call
  <2>2. QED
    BY <1>4, <2>1, CallAsked, PostedKept
<1>5. ASSUME NEW n \in DOMAIN calls,
             \/ Reads(n) \/ Requests(n) \/ Served(n) \/ TimesOut(n) \/ Panics(n)
             \/ Received(n) \/ Disconnected(n) \/ Abandoned(n)
      PROVE  CallsAsked /\ \A t \in TurnIds : AskedOf(t)
  BY <1>5, ThreadAsksWhere, PostedKept
<1>6. QED
  BY <1>1, <1>2, <1>3, <1>4, <1>5 DEF Next

\* A tool asks only where the configuration of its own turn says, also on a thread
\* whose turn gave it up and whatever the configuration has become since: fetch_url
\* at each one of a chain of redirects, github and web_search where their call
\* begins; and a key out of a file begins a request only when nobody but its owner
\* can read that file at that moment (fetch.rs run, websearch.rs, github.rs,
\* https.rs post).
THEOREM AsksWhereItMay == Spec => NothingUnasked
<1>1. DeskOK /\ SafeOK /\ [Next]_vars => [CallsAsked /\ \A t \in TurnIds : AskedOf(t)]_vars
  BY AsksWhere
<1>2. [CallsAsked /\ \A t \in TurnIds : AskedOf(t)]_vars
      => [/\ \A n \in DOMAIN calls' :
                /\ calls'[n].request # None
                /\ n \in DOMAIN calls => calls'[n].request # calls[n].request
                /\ calls'[n].tool = "fetch_url" \/ calls'[n].hops = 0
                => MayReach(calls'[n], calls'[n].request[1])
          /\ \A t \in TurnIds :
                posted'[t] # None /\ posted[t] = None
                => /\ posted'[t][1].url.host = conf[t][1].base_url.host
                   /\ posted'[t][1].key = "file" => keys[conf[t][1].key_file] = "private"
         ]_vars
  BY DEF CallsAsked, AskedOf, Checked
<1>3. QED
  BY <1>1, <1>2, Invariant, PTL DEF Spec, NothingUnasked

-----------------------------------------------------------------------------
(* What two of the operators come to.                                       *)

\* An excerpt is a part of its line and shows the match: all of a line that is
\* short enough, and of a longer one as much as an excerpt has (search.rs
\* excerpt).
THEOREM ExcerptShowsItsMatch ==
    ASSUME NEW length \in Nat, NEW match \in 0 .. length - 1
    PROVE  /\ excerpt(length, match) \subseteq 0 .. length - 1
           /\ match \in excerpt(length, match)
           /\ length <= EXCERPT => excerpt(length, match) = 0 .. length - 1
           /\ length > EXCERPT => \E start \in Nat : excerpt(length, match) = start .. start + EXCERPT - 1
<1> DEFINE start == Least(Less(match, 80), Less(length, 160))
           end == Least(start + 160, length)
<1>1. 160 \div 2 = 80
  OBVIOUS
<1>2. excerpt(length, match) = start .. end - 1
  BY <1>1 DEF excerpt, EXCERPT
<1>3. /\ start \in Nat /\ end \in Nat /\ end <= length
      /\ start <= match /\ match < end
      /\ length <= 160 => start = 0 /\ end = length
      /\ length > 160 => end = start + 160
  BY DEF Least, Less
<1> HIDE DEF start, end
<1>4. QED
  BY <1>2, <1>3 DEF EXCERPT

\* An IPv4 address is private however it is written: in an IPv6 one that maps it
\* too (fetch.rs private, to_ipv4_mapped).
THEOREM PrivateHoweverWritten ==
    ASSUME NEW a \in 0 .. 255, NEW b \in 0 .. 255, NEW c \in 0 .. 255, NEW d \in 0 .. 255
    PROVE  private(V6(<<0, 0, 0, 0, 0, 65535, a * 256 + b, c * 256 + d>>)) <=> private(V4(<<a, b, c, d>>))
<1> DEFINE short == <<a, b, c, d>>
           long == <<0, 0, 0, 0, 0, 65535, a * 256 + b, c * 256 + d>>
<1>1. /\ (a * 256 + b) \div 256 = a /\ (a * 256 + b) % 256 = b
      /\ (c * 256 + d) \div 256 = c /\ (c * 256 + d) % 256 = d
  OBVIOUS
<1>2. long[7] = a * 256 + b /\ long[8] = c * 256 + d
  OBVIOUS
<1>3. SubSeq(long, 1, 6) = <<0, 0, 0, 0, 0, 65535>>
  <2>1. SubSeq(long, 1, 6) = [i \in 1 .. 6 |-> long[i]]
    <3>1. long \in Seq(Int) /\ Len(long) = 8
      OBVIOUS
    <3> HIDE DEF long
    <3>2. DOMAIN SubSeq(long, 1, 6) = 1 .. 6 /\ \A i \in 1 .. 6 : SubSeq(long, 1, 6)[i] = long[i]
      BY <3>1
    <3>3. SubSeq(long, 1, 6) \in Seq(Int)
      BY <3>1
    <3>4. QED
      BY <3>2, <3>3
  <2>2. \A i \in 1 .. 6 : long[i] = <<0, 0, 0, 0, 0, 65535>>[i]
    OBVIOUS
  <2> DEFINE start == <<0, 0, 0, 0, 0, 65535>>
  <2>3. start = [i \in 1 .. 6 |-> start[i]]
    OBVIOUS
  <2> HIDE DEF long
  <2>4. \A i \in 1 .. 6 : long[i] = start[i]
    BY <2>2
  <2> HIDE DEF start
  <2>5. SubSeq(long, 1, 6) = start
    BY <2>1, <2>3, <2>4
  <2>6. QED
    BY <2>5 DEF start
<1> HIDE DEF long
<1>4. to_ipv4(long) = short /\ Mapped(long)
  BY <1>1, <1>2, <1>3 DEF to_ipv4, Mapped
<1> HIDE DEF short
<1>5. private(V6(long)) <=> Loopback(short) \/ Private4(short)
  BY <1>4 DEF private, V6
<1>6. private(V4(short)) <=> Loopback(short) \/ Private4(short)
  BY DEF private, V4
<1>7. QED
  BY <1>5, <1>6 DEF short, long
=============================================================================
