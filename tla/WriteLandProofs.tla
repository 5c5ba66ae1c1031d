--------------------------- MODULE WriteLandProofs ---------------------------
(* Theorems about what a write leaves behind, landed or refused.            *)
EXTENDS WritePathProofs

\* Before a run's snapshot is taken, and from then to the end of its landing.
Prior == {"new", "staged", "planned"}
Under == {"snapped"} \cup GatedPhases

\* No other name, snapshot, text or build holds k's record.
Unseen(k) ==
    /\ \A s \in Streams : k \notin over[s].text \cup kept[s].text
    /\ \A q \in Runs : k \notin snap[q].note.text \cup snap[q].staged.text
    /\ \A q \in Runs \ {k} : k \notin text[q]
    /\ \A b \in Builds, s \in Streams : k \notin built[b].text[s].text

-----------------------------------------------------------------------------
(* Where a record can come from.                                             *)

\* The steps that touch a tree, a snapshot, a text or a build.
Touches(r) ==
    \/ TakeSnapshot(r) \/ TryHold(r) \/ WriteOverlay(r) \/ StageNotebook(r) \/ MergeAnswers(r)
    \/ HostWrites(r) \/ HostCaptures(r) \/ HostEmits(r) \/ RestoreNotebook(r) \/ RestoreStaged(r)
    \/ Discard(r) \/ Settle(r)

LEMMA OrTouches ==
    ASSUME NEW r \in Runs, RunStep(r)
    PROVE  UNCHANGED <<over, kept, snap, text, built>> \/ Touches(r)
<1> USE DEF treeVars, buildVars
<1>1. MakePlan(r) \/ Busy(r) \/ CannotStart(r) \/ Launch(r) \/ WriteFails(r) \/ MergeRefuses(r)
        => UNCHANGED <<over, kept, snap, text, built>>
  BY DEF MakePlan, Busy, CannotStart, Launch, WriteFails, MergeRefuses
<1>2. HostExits(r) \/ Judge(r) \/ OneLinePanics(r) \/ RestoreFails(r) \/ Finish(r) \/ FreeGate(r)
        \/ Tell(r)
        => UNCHANGED <<over, kept, snap, text, built>>
  BY DEF HostExits, Judge, OneLinePanics, RestoreFails, Finish, FreeGate, Tell
<1>3. QED
  BY <1>1, <1>2 DEF RunStep, Serve, Write, Host, Land, Touches

\* The pieces of the state, each of its type.
LEMMA Pieces ==
    ASSUME TypeOK
    PROVE  /\ pc \in [Runs -> Phases] /\ verdict \in [Runs -> Verdicts] /\ exit \in [Runs -> {0, 1}]
           /\ req \in [Runs -> Requests] /\ \A r \in Runs : req[r].stream \in Streams
           /\ text \in [Runs -> SUBSET Records]
           /\ over \in [Streams -> Held] /\ kept \in [Streams -> Held]
           /\ snap \in [Runs -> [note : Held, staged : Held]]
           /\ built \in [Builds -> [there : BOOLEAN, whole : BOOLEAN, text : [Streams -> Held]]]
           /\ Runs \subseteq Builds /\ Runs \subseteq Nat /\ Runs \subseteq Records
           /\ Free \notin Runs /\ NoBuild \notin Builds /\ minted \in Nat /\ 0 \notin Runs
BY MaxRunsAssumption DEF TypeOK, Runs, Builds, Records, Requests, Free, NoBuild

\* What laying the stage puts at a name was at one of its two names before.
LEMMA StageLays ==
    ASSUME TypeOK, NEW a \in BOOLEAN, NEW s \in Streams
    PROVE  /\ KeptAfter(a)[s] \in {kept[s], over[s]}
           /\ OverAfter(a)[s] \in {over[s], KeptLink, SeedLink, Absent}
BY DEF KeptAfter, OverAfter

\* What a host reads at a name is at one of its two names, or is the owner's.
LEMMA SeenAt ==
    ASSUME NEW s \in Streams
    PROVE  /\ Seen(s).text \subseteq over[s].text \cup kept[s].text \cup {0}
           /\ Home(s).text \subseteq over[s].text \cup kept[s].text
BY DEF Seen, ReadOf, Home, File, Absent

LEMMA LaidUnseen ==
    ASSUME TypeOK, NEW k \in Runs, Unseen(k), NEW a \in BOOLEAN, LayStage(a),
           UNCHANGED <<snap, text, built>>
    PROVE  Unseen(k)'
<1>1. ASSUME NEW s \in Streams
      PROVE  k \notin over'[s].text \cup kept'[s].text
  BY StageLays DEF Unseen, LayStage, KeptLink, SeedLink, Absent
<1>2. QED
  BY <1>1 DEF Unseen

\* A record comes to light only as its own run writes it.
LEMMA StaysUnseen ==
    ASSUME TypeOK, NEW k \in Runs, Unseen(k), NEW r \in Runs, RunStep(r),
           r # k \/ pc'[k] \notin {"written", "wrote"}
    PROVE  Unseen(k)'
<1> USE DEF treeVars, buildVars
<1>a. PICK s \in Streams : s = req[r].stream
  BY Pieces
<1>b. k \notin Home(s).text \cup Seen(s).text
  BY <1>a, SeenAt, Pieces DEF Unseen
<1>1. CASE UNCHANGED <<over, kept, snap, text, built>>
  BY <1>1 DEF Unseen
<1>2. CASE TakeSnapshot(r)
  <2>1. snap' = snap \/ snap' = [snap EXCEPT ![r] = [note |-> Home(s), staged |-> over[s]]]
    BY <1>2, <1>a DEF TakeSnapshot
  <2>2. UNCHANGED <<over, kept, text, built>>
    BY <1>2 DEF TakeSnapshot
  <2>3. \A q \in Runs : k \notin snap'[q].note.text \cup snap'[q].staged.text
    <3>1. k \notin over[s].text \cup Home(s).text
      BY <1>b DEF Unseen
    <3>2. ASSUME NEW q \in Runs
          PROVE  snap'[q] = snap[q] \/ snap'[q] = [note |-> Home(s), staged |-> over[s]]
      BY <2>1, Pieces
    <3>3. QED
      BY <3>1, <3>2 DEF Unseen
  <2>4. QED
    BY <2>2, <2>3 DEF Unseen
<1>3. CASE TryHold(r) \/ MergeAnswers(r)
  <2>1. text' = text \/ text' = [text EXCEPT ![r] = {r}]
           \/ text' = [text EXCEPT ![r] = Seen(s).text \cup {r}]
    BY <1>3, <1>a DEF TryHold, MergeAnswers
  <2>2. UNCHANGED <<over, kept, snap, built>>
    BY <1>3 DEF TryHold, MergeAnswers
  <2>3. \A q \in Runs \ {k} : k \notin text'[q]
    <3>1. ASSUME NEW q \in Runs \ {k}
          PROVE  text'[q] = text[q] \/ (q = r /\ text'[q] \in {{r}, Seen(s).text \cup {r}})
      BY <2>1, Pieces
    <3>2. QED
      BY <3>1, <1>b DEF Unseen
  <2>4. QED
    BY <2>2, <2>3 DEF Unseen
<1>4. CASE WriteOverlay(r)
  <2>1. r # k
    BY <1>4, Pieces DEF WriteOverlay, Goto
  <2>2. k \notin File(text[r]).text
    BY <2>1 DEF Unseen, File
  <2>3. \A t \in Streams : k \notin over'[t].text \cup kept'[t].text
    BY <1>4, <1>a, <2>2, Pieces DEF WriteOverlay, PutHome, Unseen
  <2>4. QED
    BY <1>4, <2>3 DEF WriteOverlay, Unseen
<1>5. CASE StageNotebook(r)
  BY <1>5, <1>a, Pieces DEF StageNotebook, PutStaged, Unseen, KeptLink
<1>6. CASE HostWrites(r)
  <2>1. r # k
    BY <1>6, Pieces DEF HostWrites, Goto
  <2>2. k \notin File({r}).text
    BY <2>1 DEF File
  <2>3. /\ \/ over' = [over EXCEPT ![s] = File({r})] /\ kept' = kept
           \/ kept' = [kept EXCEPT ![s] = File({r})] /\ over' = over
        /\ UNCHANGED <<snap, text, built>>
    BY <1>6, <1>a DEF HostWrites
  <2>4. QED
    BY <2>2, <2>3, Pieces DEF Unseen
<1>7. CASE HostCaptures(r)
  <2>1. \A t \in Streams : k \notin Seen(t).text
    BY SeenAt, Pieces DEF Unseen
  <2>2. \A b \in Builds, t \in Streams : k \notin built'[b].text[t].text
    BY <1>7, <2>1, Pieces DEF HostCaptures, Unseen
  <2>3. QED
    BY <1>7, <2>2 DEF HostCaptures, Unseen
<1>8. CASE HostEmits(r)
  <2>1. \A b \in Builds, t \in Streams : k \notin built'[b].text[t].text
    BY <1>8, Pieces DEF HostEmits, Unseen
  <2>2. QED
    BY <1>8, <2>1 DEF HostEmits, Unseen
<1>9. CASE RestoreNotebook(r) \/ RestoreStaged(r)
  <2>1. k \notin snap[r].note.text \cup snap[r].staged.text
    BY DEF Unseen
  <2>2. QED
    BY <1>9, <1>a, <2>1, Pieces DEF RestoreNotebook, RestoreStaged, PutHome, PutStaged, Unseen
<1>10. CASE Discard(r)
  <2>1. built' = built \/ built' = [built EXCEPT ![r] = NoDir]
    BY <1>10 DEF Discard
  <2>2. \A b \in Builds, t \in Streams : k \notin built'[b].text[t].text
    <3>1. \A t \in Streams : NoDir.text[t].text = {}
      BY DEF NoDir, Absent
    <3>2. QED
      BY <2>1, <3>1, Pieces DEF Unseen
  <2>3. QED
    BY <1>10, <2>2 DEF Discard, Unseen
<1>11. CASE Settle(r)
  <2>1. UNCHANGED <<snap, text, built>> /\ (LayStage(TRUE) \/ UNCHANGED <<over, kept>>)
    BY <1>11 DEF Settle
  <2>2. QED
    BY <2>1, LaidUnseen DEF Unseen
<1>12. QED
  BY <1>1, <1>2, <1>3, <1>4, <1>5, <1>6, <1>7, <1>8, <1>9, <1>10, <1>11, OrTouches DEF Touches

-----------------------------------------------------------------------------
(* The restore of a snapshot.                                                *)

\* Without a decisions root a shipped sample is never missing from the stage.
Seeded == ~Decisions => \A s \in Samples : over[s] # Absent

Restorable(r) ==
    /\ pc[r] \in Prior => Unseen(r)
    /\ r \notin snap[r].note.text \cup snap[r].staged.text
    /\ pc[r] \in {"putback", "restored"} => Writes(r) /\ Home(req[r].stream) = snap[r].note
    /\ ~Decisions /\ Writes(r) /\ pc[r] \in Under /\ req[r].stream \in Samples
          => snap[r].note # Absent

AllRestorable == Seeded /\ \A r \in Runs : Restorable(r)

\* The moves of a run besides the taking of its snapshot and the putting back.
LEMMA OtherMoves ==
    ASSUME TypeOK, NEW r \in Runs, RunStep(r),
           ~TakeSnapshot(r), ~RestoreNotebook(r), ~RestoreStaged(r)
    PROVE  /\ snap' = snap
           /\ pc'[r] \in Prior => pc[r] \in Prior
           /\ pc'[r] \in Under => pc[r] \in Under
           /\ pc'[r] \notin {"putback", "restored"}
<1> USE Pieces DEF Goto, Answered, Prior, Under, GatedPhases
<1>1. MakePlan(r) \/ TryHold(r) \/ Busy(r) \/ CannotStart(r) \/ Launch(r)
        => /\ snap' = snap
           /\ pc'[r] \in Prior => pc[r] \in Prior
           /\ pc'[r] \in Under => pc[r] \in Under
           /\ pc'[r] \notin {"putback", "restored"}
  BY DEF MakePlan, TryHold, Busy, CannotStart, Launch
<1>2. Write(r)
        => /\ snap' = snap
           /\ pc'[r] \in Prior => pc[r] \in Prior
           /\ pc'[r] \in Under => pc[r] \in Under
           /\ pc'[r] \notin {"putback", "restored"}
  BY DEF Write, WriteOverlay, StageNotebook, WriteFails, MergeAnswers, MergeRefuses
<1>3. Host(r)
        => /\ snap' = snap
           /\ pc'[r] \in Prior => pc[r] \in Prior
           /\ pc'[r] \in Under => pc[r] \in Under
           /\ pc'[r] \notin {"putback", "restored"}
  BY DEF Host, HostWrites, HostCaptures, HostEmits, HostExits
<1>4. Land(r)
        => /\ snap' = snap
           /\ pc'[r] \in Prior => pc[r] \in Prior
           /\ pc'[r] \in Under => pc[r] \in Under
           /\ pc'[r] \notin {"putback", "restored"}
  BY DEF Land, Judge, OneLinePanics, RestoreFails, Discard, Settle, Finish, FreeGate, Tell
<1>5. QED
  BY <1>1, <1>2, <1>3, <1>4 DEF RunStep, Serve

\* Nothing written at a name leaves it empty.
LEMMA NextSeeded ==
    ASSUME TypeOK, Phased, AllRestorable, NEW r \in Runs, RunStep(r)
    PROVE  Seeded'
<1> SUFFICES ASSUME ~Decisions, NEW s \in Samples PROVE over'[s] # Absent
  BY DEF Seeded
<1>a. over[s] # Absent /\ s \in Streams /\ req[r].stream \in Streams
  BY SamplesAssumption, Pieces DEF AllRestorable, Seeded
<1>b. \A t \in SUBSET Records : File(t) # Absent
  BY DEF File, Absent
<1>1. CASE WriteOverlay(r)
  <2>1. over' = [over EXCEPT ![req[r].stream] = File(text[r])]
    BY <1>1 DEF WriteOverlay, PutHome
  <2>2. File(text[r]) # Absent
    BY <1>b, Pieces
  <2>3. QED
    BY <2>1, <2>2, <1>a, Pieces
<1>2. CASE HostWrites(r)
  <2>1. over' = over \/ over' = [over EXCEPT ![req[r].stream] = File({r})]
    BY <1>2 DEF HostWrites
  <2>2. File({r}) # Absent
    BY DEF File, Absent
  <2>3. QED
    BY <2>1, <2>2, <1>a, Pieces
<1>3. CASE RestoreNotebook(r)
  <2>1. Writes(r) /\ pc[r] \in Under
    BY <1>3 DEF RestoreNotebook, Under, GatedPhases
  <2>2. req[r].stream = s => snap[r].note # Absent
    BY <2>1 DEF AllRestorable, Restorable
  <2>3. QED
    BY <1>3, <1>a, <2>2, Pieces DEF RestoreNotebook, PutHome
<1>4. CASE Settle(r)
  BY <1>4, <1>a DEF Settle, treeVars
<1>5. CASE StageNotebook(r) \/ RestoreStaged(r)
  BY <1>5, <1>a DEF StageNotebook, RestoreStaged, PutStaged
<1>6. CASE TakeSnapshot(r) \/ TryHold(r) \/ MergeAnswers(r) \/ HostCaptures(r) \/ HostEmits(r) \/ Discard(r)
  BY <1>6, <1>a DEF TakeSnapshot, TryHold, MergeAnswers, HostCaptures, HostEmits, Discard, treeVars
<1>7. QED
  BY <1>1, <1>2, <1>3, <1>4, <1>5, <1>6, <1>a, OrTouches DEF Touches

\* Laying the stage while the gate is held leaves a notebook as it was put back.
LEMMA StageKeepsHome ==
    ASSUME TypeOK, Seeded, LayStage(FALSE), NEW s \in Streams
    PROVE  Home(s)' = Home(s)
<1>1. ~Adopts(s, FALSE)
  BY DEF Adopts
<1>2. KeptAfter(FALSE)[s] = kept[s]
  BY <1>1 DEF KeptAfter
<1>3. ~Decisions => OverAfter(FALSE)[s] = over[s]
  BY <1>1 DEF OverAfter, Seeded
<1>4. QED
  BY <1>2, <1>3 DEF LayStage, Home, Seeded

LEMMA NextRestorable ==
    ASSUME TypeOK, Phased, GateExact, AllRestorable, [Next]_vars
    PROVE  AllRestorable'
<1>a. Seeded /\ \A r \in Runs : Restorable(r) /\ PhaseSays(r)
  BY DEF AllRestorable, Phased
<1>1. ASSUME NEW q \in Offers, NEW w \in Worths, Receive(q, w)
      PROVE  AllRestorable'
  <2>1. PICK m \in Runs : m = minted + 1
    BY <1>1, Pieces, MaxRunsAssumption DEF Receive, Runs
  <2>2. /\ pc' = [pc EXCEPT ![m] = "staged"] /\ req' = [req EXCEPT ![m] = q]
        /\ UNCHANGED <<snap, text, built>> /\ LayStage(gate = Free)
    BY <1>1, <2>1 DEF Receive, Goto, buildVars
  <2>3. pc[m] = "new"
    BY <1>a, <2>1, Pieces DEF PhaseSays
  <2>4. Seeded'
    <3> SUFFICES ASSUME ~Decisions, NEW s \in Samples PROVE over'[s] # Absent
      BY DEF Seeded
    <3>1. over[s] # Absent /\ s \in Streams /\ ~Adopts(s, gate = Free)
      BY <1>a, SamplesAssumption DEF Seeded, Adopts
    <3>2. QED
      BY <2>2, <3>1 DEF LayStage, OverAfter
  <2>5. ASSUME NEW r \in Runs, pc'[r] \in Prior PROVE Unseen(r)'
    <3>1. Unseen(r)
      BY <1>a, <2>2, <2>3, <2>5, Pieces DEF Restorable, Prior
    <3>2. QED
      BY <2>2, <3>1, LaidUnseen
  <2>6. Restorable(m)'
    BY <1>a, <2>2, <2>5, Pieces DEF Restorable, Prior, Under, GatedPhases
  <2>7. ASSUME NEW r \in Runs \ {m} PROVE Restorable(r)'
    <3>1. pc'[r] = pc[r] /\ req'[r] = req[r] /\ snap'[r] = snap[r] /\ (Writes(r)' <=> Writes(r))
      BY <2>2, Pieces DEF Writes
    <3>2. pc[r] \in {"putback", "restored"} => Home(req[r].stream)' = Home(req[r].stream)
      <4> SUFFICES ASSUME pc[r] \in {"putback", "restored"}
                   PROVE  Home(req[r].stream)' = Home(req[r].stream)
        OBVIOUS
      <4>1. Writes(r) /\ pc[r] \in GatedPhases
        BY <1>a DEF Restorable, GatedPhases
      <4>2. gate # Free
        BY <4>1, Pieces DEF GateExact
      <4>3. LayStage(FALSE)
        BY <2>2, <4>2
      <4>4. QED
        <5>1. PICK s \in Streams : s = req[r].stream
          BY Pieces
        <5>2. Home(s)' = Home(s)
          BY <4>3, <1>a, StageKeepsHome
        <5>3. QED
          BY <5>1, <5>2, <3>1
    <3>3. QED
      BY <1>a, <2>5, <3>1, <3>2 DEF Restorable
  <2>8. QED
    BY <2>4, <2>6, <2>7 DEF AllRestorable
<1>2. ASSUME NEW r \in Runs, RunStep(r)
      PROVE  AllRestorable'
  <2>a. OthersKept(r)
    BY <1>2, OthersKeep
  <2>b. Seeded'
    BY <1>2, NextSeeded
  <2>c. ASSUME NEW q \in Runs \ {r} PROVE Restorable(q)'
    <3>1. /\ pc'[q] = pc[q] /\ req'[q] = req[q] /\ snap'[q] = snap[q]
          /\ (Writes(q)' <=> Writes(q)) /\ Restorable(q)
      BY <2>a, <1>a DEF OthersKept, Writes
    <3>2. pc[q] \in Prior => Unseen(q)'
      BY <1>2, <3>1, StaysUnseen DEF Restorable
    <3>3. pc[q] \in {"putback", "restored"} => Home(req[q].stream)' = Home(req[q].stream)
      <4> SUFFICES ASSUME pc[q] \in {"putback", "restored"}
                   PROVE  UNCHANGED <<over, kept>>
        BY <3>1 DEF Home
      <4>1. gate = q
        BY <3>1 DEF Restorable, GatedPhases, GateExact
      <4>2. QED
        BY <4>1, <1>2, TreesHeld
    <3>4. QED
      BY <3>1, <3>2, <3>3 DEF Restorable
  <2>d. req' = req /\ Restorable(r) /\ (Writes(r)' <=> Writes(r)) /\ req[r].stream \in Streams
    BY <2>a, <1>a, Pieces DEF OthersKept, Writes
  <2>e. Restorable(r)'
    <3>1. CASE TakeSnapshot(r)
      <4>1. pc[r] = "planned" /\ pc'[r] = "snapped"
        BY <3>1, Pieces DEF TakeSnapshot, Goto
      <4>2. Unseen(r)
        BY <4>1, <2>d DEF Restorable, Prior
      <4>3. snap'[r] = IF Writes(r) THEN [note |-> Home(req[r].stream), staged |-> over[req[r].stream]]
                       ELSE snap[r]
        BY <3>1, Pieces DEF TakeSnapshot
      <4>4. r \notin snap'[r].note.text \cup snap'[r].staged.text
        <5>1. r \notin Home(req[r].stream).text \cup over[req[r].stream].text
          BY <4>2, <2>d, SeenAt DEF Unseen
        <5>2. QED
          BY <5>1, <4>2, <4>3 DEF Unseen
      <4>5. ~Decisions /\ Writes(r) /\ req[r].stream \in Samples => snap'[r].note # Absent
        BY <4>3, <1>a DEF Seeded, Home
      <4>6. QED
        BY <4>1, <4>4, <4>5, <2>d DEF Restorable, Prior
    <3>2. CASE RestoreNotebook(r)
      <4>1. pc[r] = "refused" /\ pc'[r] = "putback" /\ Writes(r) /\ snap' = snap
        BY <3>2, Pieces DEF RestoreNotebook, Goto
      <4>2. Home(req[r].stream)' = snap[r].note
        BY <3>2, <2>d, Pieces DEF RestoreNotebook, PutHome, Home
      <4>3. QED
        BY <4>1, <4>2, <2>d DEF Restorable, Prior, Under, GatedPhases
    <3>3. CASE RestoreStaged(r)
      <4>1. pc[r] = "putback" /\ pc'[r] = "restored" /\ snap' = snap
        BY <3>3, Pieces DEF RestoreStaged, Goto
      <4>2. Home(req[r].stream)' = Home(req[r].stream)
        BY <3>3, <2>d, Pieces DEF RestoreStaged, PutStaged, Home
      <4>3. QED
        BY <4>1, <4>2, <2>d DEF Restorable, Prior, Under, GatedPhases
    <3>4. CASE ~TakeSnapshot(r) /\ ~RestoreNotebook(r) /\ ~RestoreStaged(r)
      <4>1. /\ snap' = snap
            /\ pc'[r] \in Prior => pc[r] \in Prior
            /\ pc'[r] \in Under => pc[r] \in Under
            /\ pc'[r] \notin {"putback", "restored"}
        BY <1>2, <3>4, OtherMoves
      <4>2. pc'[r] \in Prior => Unseen(r)'
        BY <4>1, <1>2, <2>d, StaysUnseen DEF Restorable, Prior
      <4>3. QED
        BY <4>1, <4>2, <2>d DEF Restorable
    <3>5. QED
      BY <3>1, <3>2, <3>3, <3>4
  <2>1. QED
    BY <2>b, <2>c, <2>e DEF AllRestorable
<1>3. CASE UNCHANGED vars
  BY <1>3, <1>a DEF vars, runVars, treeVars, buildVars, AllRestorable, Seeded, Restorable, Unseen, Home,
                    Writes
<1>4. QED
  BY <1>1, <1>2, <1>3 DEF Next, Arrive

LEMMA InitRestorable == Init => AllRestorable
<1> SUFFICES ASSUME Init PROVE AllRestorable
  OBVIOUS
<1>1. Seeded
  BY SamplesAssumption DEF Init, Seeded, SeedLink, Absent
<1>2. ASSUME NEW r \in Runs PROVE Restorable(r)
  <2>1. r # 0
    BY MaxRunsAssumption DEF Runs
  <2>2. \A s \in Streams : over[s].text = {} /\ kept[s].text = {}
    BY DEF Init, SeedLink, Absent
  <2>3. \A q \in Runs : snap[q].note.text = {} /\ snap[q].staged.text = {} /\ text[q] = {} /\ pc[q] = "new"
    BY DEF Init, Absent
  <2>4. \A b \in Builds, s \in Streams : r \notin built[b].text[s].text
    BY <2>1 DEF Init, NoDir, Absent, File
  <2>5. QED
    BY <2>2, <2>3, <2>4 DEF Restorable, Unseen, Under, GatedPhases
<1>3. QED
  BY <1>1, <1>2 DEF AllRestorable

LEMMA AlwaysGated == Spec => [](TypeOK /\ Phased /\ GateExact)
BY InitTypes, InitPhased, InitGate, NextTypes, NextPhased, NextGate, PTL DEF Spec

\* outcome.rs:135: a refused write that has been put back is the snapshot's
\* again, and holds nothing of the run, however requests and runs overlap.
THEOREM RestoredAsItWas == Spec => []RestoredExactly
<1>1. AllRestorable => RestoredExactly
  <2> SUFFICES ASSUME AllRestorable, NEW r \in Runs, pc[r] \in {"putback", "restored"}
               PROVE  Home(req[r].stream) = snap[r].note /\ r \notin Home(req[r].stream).text
    BY DEF RestoredExactly
  <2>1. QED
    BY DEF AllRestorable, Restorable
<1>2. TypeOK /\ Phased /\ GateExact /\ AllRestorable /\ [Next]_vars => AllRestorable'
  BY NextRestorable
<1>3. QED
  BY <1>1, <1>2, AlwaysGated, InitRestorable, PTL DEF Spec

-----------------------------------------------------------------------------
(* With the handler held to the end.                                         *)

\* No request is streamed and no read or write of the supplier's own fails: the
\* desk's requests are served one after the other.  Hosts fail as they like.
OneByOne == (\A q \in Offers : ~q.streamed) /\ "io" \notin Faults

\* One run at a time.
Alone ==
    /\ \A r \in Runs : pc[r] \notin {"new", "done"} => handler = r /\ ~req[r].streamed
    /\ \A r \in Runs : pc[r] \notin {"unrestored", "died"}
    /\ handler # Free => handler = minted

\* A run that takes a step is under way, and goes on or comes to its end.
LEMMA StepsAlone ==
    ASSUME OneByOne, TypeOK, Alone, NEW r \in Runs, RunStep(r)
    PROVE  /\ pc[r] \notin {"new", "done"} /\ handler = r
           /\ handler' = IF pc'[r] = "done" THEN Free ELSE r
           /\ pc'[r] \notin {"new", "unrestored", "died"}
           /\ \A q \in Runs \ {r} : pc[q] \in {"new", "done"}
           /\ ~CannotStart(r) /\ ~WriteFails(r) /\ ~OneLinePanics(r) /\ ~RestoreFails(r)
<1>1. pc[r] \notin {"new", "done"}
  <2>1. Serve(r) \/ Write(r) => pc[r] \notin {"new", "done"}
    BY DEF Serve, Write, MakePlan, TakeSnapshot, TryHold, Busy, CannotStart, Launch, WriteOverlay,
           StageNotebook, WriteFails, MergeAnswers, MergeRefuses
  <2>2. Host(r) \/ Land(r) => pc[r] \notin {"new", "done"}
    BY DEF Host, Land, HostWrites, HostCaptures, HostEmits, HostExits, Judge, OneLinePanics,
           RestoreNotebook, RestoreStaged, RestoreFails, Discard, Settle, Finish, FreeGate, Tell
  <2>3. QED
    BY <2>1, <2>2 DEF RunStep
<1>2. handler = r /\ ~req[r].streamed
  BY <1>1 DEF Alone
<1>3. ~CannotStart(r) /\ ~WriteFails(r) /\ ~OneLinePanics(r) /\ ~RestoreFails(r)
  BY <1>2 DEF OneByOne, CannotStart, WriteFails, OneLinePanics, RestoreFails
<1>4. \A q \in Runs \ {r} : pc[q] \in {"new", "done"}
  BY <1>2 DEF Alone
<1>5. handler' = (IF pc'[r] = "done" THEN Free ELSE r) /\ pc'[r] \notin {"new", "unrestored", "died"}
  <2> USE <1>2, <1>3, Pieces DEF Goto, Answered
  <2>1. MakePlan(r) => handler' = (IF pc'[r] = "done" THEN Free ELSE r) /\ pc'[r] \notin {"new", "unrestored", "died"}
    BY DEF MakePlan
  <2>2. TakeSnapshot(r) \/ TryHold(r) \/ Busy(r) \/ Launch(r)
          => handler' = (IF pc'[r] = "done" THEN Free ELSE r) /\ pc'[r] \notin {"new", "unrestored", "died"}
    BY DEF TakeSnapshot, TryHold, Busy, Launch
  <2>3. Write(r) => handler' = (IF pc'[r] = "done" THEN Free ELSE r) /\ pc'[r] \notin {"new", "unrestored", "died"}
    BY DEF Write, WriteOverlay, StageNotebook, MergeAnswers, MergeRefuses
  <2>4. Host(r) => handler' = (IF pc'[r] = "done" THEN Free ELSE r) /\ pc'[r] \notin {"new", "unrestored", "died"}
    BY DEF Host, HostWrites, HostCaptures, HostEmits, HostExits
  <2>5. Judge(r) \/ RestoreNotebook(r) \/ RestoreStaged(r) \/ Discard(r)
          => handler' = (IF pc'[r] = "done" THEN Free ELSE r) /\ pc'[r] \notin {"new", "unrestored", "died"}
    BY DEF Judge, RestoreNotebook, RestoreStaged, Discard
  <2>6. Settle(r) \/ Finish(r) \/ FreeGate(r) \/ Tell(r)
          => handler' = (IF pc'[r] = "done" THEN Free ELSE r) /\ pc'[r] \notin {"new", "unrestored", "died"}
    BY DEF Settle, Finish, FreeGate, Tell
  <2>7. QED
    BY <2>1, <2>2, <2>3, <2>4, <2>5, <2>6 DEF RunStep, Serve, Land
<1>6. QED
  BY <1>1, <1>2, <1>3, <1>4, <1>5

\* A request arrives when no run is under way.
LEMMA ArrivesAlone ==
    ASSUME OneByOne, TypeOK, Phased, Alone, NEW q \in Offers, NEW w \in Worths, Receive(q, w)
    PROVE  \E m \in Runs :
              /\ m = minted + 1 /\ pc[m] = "new" /\ minted' = m /\ handler' = m
              /\ pc' = [pc EXCEPT ![m] = "staged"] /\ req' = [req EXCEPT ![m] = q]
              /\ worth' = [worth EXCEPT ![m] = w]
              /\ ~q.streamed
              /\ \A r \in Runs : pc[r] \in {"new", "done"}
              /\ \A r \in Runs : r > m => pc[r] = "new"
<1>1. PICK m \in Runs : m = minted + 1
  BY Pieces, MaxRunsAssumption DEF Receive, Runs
<1>2. \A r \in Runs : r > minted => pc[r] = "new"
  BY DEF Phased, PhaseSays
<1>3. m > minted /\ \A r \in Runs : r > m => r > minted
  BY <1>1, Pieces
<1>4. handler = Free /\ \A r \in Runs : r # Free
  BY Pieces DEF Receive
<1>5. \A r \in Runs : pc[r] \in {"new", "done"}
  BY <1>4 DEF Alone
<1>6. ~q.streamed
  BY DEF OneByOne
<1>7. QED
  BY <1>1, <1>2, <1>3, <1>5, <1>6 DEF Receive, Goto

LEMMA NextAlone ==
    ASSUME OneByOne, TypeOK, Phased, Alone, [Next]_vars
    PROVE  Alone'
<1>1. ASSUME NEW q \in Offers, NEW w \in Worths, Receive(q, w)
      PROVE  Alone'
  <2>1. PICK m \in Runs :
              /\ m = minted + 1 /\ pc[m] = "new" /\ minted' = m /\ handler' = m
              /\ pc' = [pc EXCEPT ![m] = "staged"] /\ req' = [req EXCEPT ![m] = q]
              /\ worth' = [worth EXCEPT ![m] = w]
              /\ ~q.streamed
              /\ \A r \in Runs : pc[r] \in {"new", "done"}
              /\ \A r \in Runs : r > m => pc[r] = "new"
    BY <1>1, ArrivesAlone
  <2>2. QED
    BY <2>1, Pieces DEF Alone
<1>2. ASSUME NEW r \in Runs, RunStep(r)
      PROVE  Alone'
  <2>1. OthersKept(r)
    BY <1>2, OthersKeep
  <2>2. /\ pc[r] \notin {"new", "done"} /\ handler = r
        /\ handler' = IF pc'[r] = "done" THEN Free ELSE r
        /\ pc'[r] \notin {"new", "unrestored", "died"}
        /\ \A q \in Runs \ {r} : pc[q] \in {"new", "done"}
    BY <1>2, StepsAlone
  <2>3. QED
    BY <2>1, <2>2 DEF Alone, OthersKept
<1>3. CASE UNCHANGED vars
  BY <1>3 DEF vars, runVars, Alone
<1>4. QED
  BY <1>1, <1>2, <1>3 DEF Next, Arrive

-----------------------------------------------------------------------------
(* What a name may hold.                                                     *)

Formed(h) == h.kind # "file" => h.text = {}
StagedForm(h) == Formed(h) /\ (~Decisions => h.kind # "link")
KeptForm(h) == Formed(h) /\ h.kind \in {"absent", "file"} /\ (~Decisions => h = Absent)
NoteForm(h) == IF Decisions THEN KeptForm(h) ELSE StagedForm(h)

Forms ==
    /\ \A s \in Streams : StagedForm(over[s]) /\ KeptForm(kept[s])
    /\ \A r \in Runs : NoteForm(snap[r].note) /\ StagedForm(snap[r].staged)

LEMMA FormsOf ==
    /\ StagedForm(Absent) /\ StagedForm(SeedLink) /\ (Decisions => StagedForm(KeptLink))
    /\ KeptForm(Absent) /\ NoteForm(Absent)
    /\ \A t : StagedForm(File(t)) /\ NoteForm(File(t)) /\ (Decisions => KeptForm(File(t)))
BY DecisionsAssumption
   DEF StagedForm, KeptForm, NoteForm, Formed, Absent, SeedLink, KeptLink, File

LEMMA FormsLaid ==
    ASSUME TypeOK, Forms, NEW a \in BOOLEAN, LayStage(a), NEW s \in Streams
    PROVE  StagedForm(over'[s]) /\ KeptForm(kept'[s])
<1>1. StagedForm(over[s]) /\ KeptForm(kept[s])
  BY DEF Forms
<1>2. Adopts(s, a) => Decisions /\ KeptForm(over[s])
  BY <1>1 DEF Adopts, StagedForm, KeptForm
<1>3. KeptForm(kept'[s])
  BY <1>1, <1>2 DEF LayStage, KeptAfter
<1>4. over'[s] \in {over[s], SeedLink, Absent} \/ (Decisions /\ over'[s] = KeptLink)
  BY <1>2 DEF LayStage, OverAfter
<1>5. QED
  BY <1>1, <1>3, <1>4, FormsOf

LEMMA FormsPut ==
    ASSUME TypeOK, Forms, NEW s \in Streams, NEW h, NoteForm(h), PutHome(s, h), NEW t \in Streams
    PROVE  StagedForm(over'[t]) /\ KeptForm(kept'[t])
BY Pieces DEF Forms, PutHome, NoteForm

LEMMA NextForms ==
    ASSUME TypeOK, Forms, [Next]_vars
    PROVE  Forms'
<1>1. ASSUME NEW q \in Offers, NEW w \in Worths, Receive(q, w)
      PROVE  Forms'
  BY <1>1, FormsLaid DEF Receive, Forms
<1>2. ASSUME NEW r \in Runs, RunStep(r)
      PROVE  Forms'
  <2> USE DEF treeVars
  <2>a. PICK s \in Streams : s = req[r].stream
    BY Pieces
  <2>b. /\ StagedForm(over[s]) /\ KeptForm(kept[s])
        /\ NoteForm(snap[r].note) /\ StagedForm(snap[r].staged)
    BY DEF Forms
  <2>1. CASE TakeSnapshot(r)
    <3>1. NoteForm(Home(s))
      BY <2>b DEF Home, NoteForm
    <3>2. snap' = snap \/ snap' = [snap EXCEPT ![r] = [note |-> Home(s), staged |-> over[s]]]
      BY <2>1, <2>a DEF TakeSnapshot
    <3>3. ASSUME NEW q \in Runs PROVE NoteForm(snap'[q].note) /\ StagedForm(snap'[q].staged)
      <4>1. snap'[q] = snap[q] \/ snap'[q] = [note |-> Home(s), staged |-> over[s]]
        BY <3>2, Pieces
      <4>2. QED
        BY <4>1, <3>1, <2>b DEF Forms
    <3>4. UNCHANGED <<over, kept>>
      BY <2>1 DEF TakeSnapshot
    <3>5. QED
      BY <3>3, <3>4 DEF Forms
  <2>2. CASE WriteOverlay(r) \/ RestoreNotebook(r)
    <3>1. snap' = snap /\ \E h : NoteForm(h) /\ PutHome(s, h)
      BY <2>2, <2>a, <2>b, FormsOf DEF WriteOverlay, RestoreNotebook
    <3>2. QED
      BY <3>1, FormsPut DEF Forms
  <2>3. CASE StageNotebook(r) \/ RestoreStaged(r)
    <3>1. snap' = snap /\ kept' = kept
      BY <2>3 DEF StageNotebook, RestoreStaged, PutStaged
    <3>2. over' = over \/ (Decisions /\ over' = [over EXCEPT ![s] = KeptLink])
             \/ over' = [over EXCEPT ![s] = snap[r].staged]
      BY <2>3, <2>a DEF StageNotebook, RestoreStaged, PutStaged
    <3>3. ASSUME NEW t \in Streams PROVE StagedForm(over'[t])
      BY <3>2, <2>b, FormsOf, Pieces DEF Forms
    <3>4. QED
      BY <3>1, <3>3 DEF Forms
  <2>4. CASE HostWrites(r)
    <3>1. /\ snap' = snap
          /\ \/ over' = [over EXCEPT ![s] = File({r})] /\ kept' = kept
             \/ over[s] = KeptLink /\ kept' = [kept EXCEPT ![s] = File({r})] /\ over' = over
      BY <2>4, <2>a DEF HostWrites
    <3>2. over[s] = KeptLink => Decisions
      BY <2>b, DecisionsAssumption DEF StagedForm, KeptLink
    <3>3. ASSUME NEW t \in Streams PROVE StagedForm(over'[t]) /\ KeptForm(kept'[t])
      <4>1. over'[t] \in {over[t], File({r})} /\ (kept'[t] = kept[t] \/ (Decisions /\ kept'[t] = File({r})))
        BY <3>1, <3>2, Pieces
      <4>2. StagedForm(over[t]) /\ KeptForm(kept[t])
        BY DEF Forms
      <4>3. QED
        BY <4>1, <4>2, FormsOf
    <3>4. QED
      BY <3>1, <3>3 DEF Forms
  <2>5. CASE Settle(r)
    <3>1. snap' = snap /\ (LayStage(TRUE) \/ UNCHANGED <<over, kept>>)
      BY <2>5 DEF Settle
    <3>2. QED
      BY <3>1, FormsLaid DEF Forms
  <2>6. CASE TryHold(r) \/ MergeAnswers(r) \/ HostCaptures(r) \/ HostEmits(r) \/ Discard(r)
    BY <2>6 DEF TryHold, MergeAnswers, HostCaptures, HostEmits, Discard, Forms
  <2>7. QED
    BY <1>2, <2>1, <2>2, <2>3, <2>4, <2>5, <2>6, OrTouches DEF Touches, Forms
<1>3. CASE UNCHANGED vars
  BY <1>3 DEF vars, runVars, treeVars, Forms
<1>4. QED
  BY <1>1, <1>2, <1>3 DEF Next, Arrive

LEMMA InitAlone == Init => Alone /\ Forms
BY FormsOf DEF Init, Alone, Forms

LEMMA AlwaysAlone == ASSUME OneByOne PROVE Spec => [](Alone /\ Forms)
BY InitAlone, NextAlone, NextForms, AlwaysGated, PTL DEF Spec

-----------------------------------------------------------------------------
(* A refused write leaves no trace.                                          *)

\* k's record is met at its own notebook and in its own build at most.
Confined(k) ==
    /\ \A s \in Streams \ {req[k].stream} : k \notin over[s].text \cup kept[s].text
    /\ \A q \in Runs : k \notin snap[q].note.text \cup snap[q].staged.text
    /\ \A q \in Runs \ {k} : k \notin text[q]
    /\ \A b \in Builds, s \in Streams :
           b # k \/ ~BuildsDir(k) => k \notin built[b].text[s].text

\* The phases in which nothing holds it: before the write, and once refused.
Hidden(k) ==
    \/ ~Writes(k)
    \/ pc[k] \in Prior \cup {"snapped", "merging", "towrite"}
    \/ pc[k] = "ready" /\ ~Whole(k)
    \/ pc[k] = "running" /\ ~IsAnswer(k)
    \/ pc[k] \in {"closing", "freed", "done"} /\ verdict[k] # "accepted"

Traceless(k) ==
    /\ Hidden(k) => Unseen(k)
    /\ pc[k] \in {"written", "ready", "running", "wrote", "captured", "emitted", "exited",
                  "refused", "putback", "restored"} => Confined(k)
    /\ pc[k] = "putback" => k \notin Home(req[k].stream).text
    /\ pc[k] = "restored" => \A s \in Streams : k \notin over[s].text \cup kept[s].text

AllTraceless == \A k \in Runs : Traceless(k)

LEMMA UnseenTraceless ==
    ASSUME NEW k \in Runs, Unseen(k), req[k].stream \in Streams
    PROVE  Traceless(k)
BY SeenAt DEF Unseen, Traceless, Confined

LEMMA UnseenTracelessNext ==
    ASSUME NEW k \in Runs, Unseen(k)', req'[k].stream \in Streams
    PROVE  Traceless(k)'
<1>1. \A s \in Streams : Home(s)'.text \subseteq over'[s].text \cup kept'[s].text
  BY DEF Home
<1>2. QED
  BY <1>1 DEF Unseen, Traceless, Confined

\* What a run does to its own record between its write and the end.
LEMMA StaysConfined ==
    ASSUME TypeOK, NEW k \in Runs, Confined(k), NEW s \in Streams, s = req[k].stream,
           \/ StageNotebook(k) \/ Launch(k) \/ HostCaptures(k) \/ HostEmits(k)
           \/ HostExits(k) \/ Judge(k) \/ RestoreNotebook(k) \/ RestoreStaged(k)
    PROVE  Confined(k)'
<1> USE DEF treeVars, buildVars
<1>1. CASE Launch(k) \/ HostExits(k) \/ Judge(k)
  BY <1>1 DEF Launch, HostExits, Judge, Confined, BuildsDir
<1>2. CASE StageNotebook(k) \/ RestoreNotebook(k) \/ RestoreStaged(k)
  <2>1. UNCHANGED <<req, snap, text, built>>
    BY <1>2 DEF StageNotebook, RestoreNotebook, RestoreStaged
  <2>2. ASSUME NEW t \in Streams \ {s} PROVE over'[t] = over[t] /\ kept'[t] = kept[t]
    BY <1>2, Pieces DEF StageNotebook, RestoreNotebook, RestoreStaged, PutHome, PutStaged
  <2>3. QED
    BY <2>1, <2>2 DEF Confined, BuildsDir
<1>3. CASE HostCaptures(k) \/ HostEmits(k)
  <2>1. UNCHANGED <<req, snap, text, over, kept>> /\ \A b \in Builds \ {k} : built'[b] = built[b]
    BY <1>3, Pieces DEF HostCaptures, HostEmits
  <2>2. ~BuildsDir(k) => built'[k].text = built[k].text
    BY <1>3, Pieces DEF HostCaptures, HostEmits
  <2>3. QED
    BY <2>1, <2>2, Pieces DEF Confined, BuildsDir
<1>4. QED
  BY <1>1, <1>2, <1>3

\* The write itself, of the text or of a fork's module.
LEMMA Confines ==
    ASSUME TypeOK, NEW k \in Runs, Unseen(k), NEW s \in Streams, s = req[k].stream,
           WriteOverlay(k) \/ HostWrites(k)
    PROVE  Confined(k)'
<1>1. UNCHANGED <<req, snap, text, built>>
  BY DEF WriteOverlay, HostWrites, treeVars, buildVars
<1>2. ASSUME NEW t \in Streams \ {s} PROVE over'[t] = over[t] /\ kept'[t] = kept[t]
  BY Pieces DEF WriteOverlay, HostWrites, PutHome
<1>3. QED
  BY <1>1, <1>2 DEF Confined, Unseen, BuildsDir

LEMMA TracelessStep ==
    ASSUME OneByOne, TypeOK, Phased, GateExact, AllRestorable, Alone, Forms, NEW k \in Runs, Traceless(k),
           RunStep(k)
    PROVE  Traceless(k)'
<1> USE DEF treeVars, buildVars, runVars
<1>a. OthersKept(k)
  BY OthersKeep
<1>b. /\ req' = req /\ (Writes(k)' <=> Writes(k)) /\ (Whole(k)' <=> Whole(k))
      /\ (IsAnswer(k)' <=> IsAnswer(k)) /\ PhaseSays(k) /\ Restorable(k)
  BY <1>a DEF OthersKept, Writes, Whole, IsAnswer, Phased, AllRestorable
<1>c. PICK s \in Streams : s = req[k].stream
  BY Pieces
<1>d. CASE Unseen(k) /\ pc'[k] \notin {"written", "wrote"}
  <2>1. Unseen(k)'
    BY <1>d, StaysUnseen
  <2>2. QED
    BY <2>1, <1>b, <1>c, UnseenTracelessNext
<1>e. CASE ~Hidden(k) \/ pc'[k] \in {"written", "wrote"}
  <2> USE <1>b, <1>c, Pieces DEF Goto
  <2>a. ASSUME Confined(k)', Writes(k), pc'[k] \notin {"putback", "restored"}, ~Hidden(k)'
        PROVE  Traceless(k)'
    BY <2>a DEF Traceless
  <2>1. CASE WriteOverlay(k)
    <3>1. pc[k] = "towrite" /\ pc'[k] = "written" /\ Unseen(k)
      BY <2>1 DEF WriteOverlay, Traceless, Hidden
    <3>2. Writes(k)
      BY <3>1 DEF PhaseSays, IsAnswer, Writes
    <3>3. ~Hidden(k)'
      BY <3>1, <3>2 DEF Hidden, Prior
    <3>4. QED
      BY <2>1, <2>a, <3>1, <3>2, <3>3, Confines
  <2>2. CASE HostWrites(k)
    <3>1. pc[k] = "running" /\ pc'[k] = "wrote" /\ IsFork(k)
      BY <2>2 DEF HostWrites
    <3>2. Writes(k) /\ ~IsAnswer(k)
      BY <3>1 DEF IsFork, IsAnswer, Writes
    <3>3. Unseen(k) /\ ~Hidden(k)'
      BY <3>1, <3>2 DEF Traceless, Hidden, Prior
    <3>4. QED
      BY <2>2, <2>a, <3>1, <3>2, <3>3, Confines
  <2>3. CASE StageNotebook(k)
    <3>1. pc[k] = "written" /\ pc'[k] = (IF Whole(k) THEN "ready" ELSE "running") /\ Confined(k)
      BY <2>3 DEF StageNotebook, Traceless
    <3>2. IsAnswer(k) /\ Writes(k)
      BY <3>1 DEF PhaseSays, IsAnswer, Writes
    <3>3. ~Hidden(k)'
      BY <3>1, <3>2 DEF Hidden, Prior
    <3>4. QED
      BY <2>3, <2>a, <3>1, <3>2, <3>3, StaysConfined
  <2>4. CASE Launch(k)
    <3>1. pc[k] = "ready" /\ Confined(k) /\ Writes(k) /\ Whole(k)
      BY <2>4, <1>e DEF Launch, Traceless, Hidden
    <3>2. pc'[k] = "running" /\ IsAnswer(k)
      BY <2>4, <3>1 DEF Launch, Whole
    <3>3. ~Hidden(k)'
      BY <3>1, <3>2 DEF Hidden, Prior
    <3>4. QED
      BY <2>4, <2>a, <3>1, <3>2, <3>3, StaysConfined
  <2>5. CASE HostCaptures(k) \/ HostEmits(k) \/ HostExits(k)
    <3>1. /\ pc[k] \in {"running", "wrote", "captured", "emitted"}
          /\ pc'[k] \in {"captured", "emitted", "exited"}
      BY <2>5 DEF HostCaptures, HostEmits, HostExits
    <3>2. Confined(k) /\ Writes(k)
      BY <3>1, <1>e DEF Traceless, Hidden
    <3>3. ~Hidden(k)'
      BY <3>1, <3>2 DEF Hidden, Prior
    <3>4. QED
      BY <2>5, <2>a, <3>1, <3>2, <3>3, StaysConfined
  <2>6. CASE Judge(k)
    <3>1. pc[k] = "exited" /\ pc'[k] \in {"accepted", "refused"} /\ Confined(k) /\ Writes(k)
      BY <2>6, <1>e DEF Judge, Traceless, Hidden
    <3>2. ~Hidden(k)'
      BY <3>1 DEF Hidden, Prior
    <3>3. QED
      BY <2>6, <2>a, <3>1, <3>2, StaysConfined
  <2>7. CASE RestoreNotebook(k)
    <3>1. pc[k] = "refused" /\ pc'[k] = "putback" /\ Confined(k) /\ Writes(k)
      BY <2>7 DEF RestoreNotebook, Traceless
    <3>2. Home(s)' = snap[k].note
      BY <2>7 DEF RestoreNotebook, PutHome, Home
    <3>3. k \notin Home(req[k].stream)'.text
      BY <3>2 DEF Restorable
    <3>4. Confined(k)'
      BY <2>7, <3>1, StaysConfined
    <3>5. ~Hidden(k)'
      BY <3>1 DEF Hidden, Prior
    <3>6. QED
      BY <3>1, <3>3, <3>4, <3>5 DEF Traceless
  <2>8. CASE RestoreStaged(k)
    <3>1. pc[k] = "putback" /\ pc'[k] = "restored" /\ Confined(k) /\ Writes(k)
          /\ k \notin Home(s).text
      BY <2>8 DEF RestoreStaged, Traceless, PhaseSays
    <3>2. k \notin over'[s].text \cup kept'[s].text
      <4>1. CASE Decisions
        BY <4>1, <2>8, <3>1 DEF RestoreStaged, PutStaged, Home, Restorable
      <4>2. CASE ~Decisions
        <5>1. kept[s].text = {}
          BY <4>2 DEF Forms, KeptForm, Absent
        <5>2. QED
          BY <4>2, <5>1, <2>8, <3>1 DEF RestoreStaged, PutStaged, Home
      <4>3. QED
        BY <4>1, <4>2
    <3>3. Confined(k)'
      BY <2>8, <3>1, StaysConfined
    <3>4. \A t \in Streams : k \notin over'[t].text \cup kept'[t].text
      BY <3>2, <3>3 DEF Confined
    <3>5. ~Hidden(k)'
      BY <3>1 DEF Hidden, Prior
    <3>6. QED
      BY <3>1, <3>3, <3>4, <3>5 DEF Traceless
  <2>9. CASE Discard(k)
    <3>1. Writes(k)
      BY <1>e, <2>9 DEF Hidden, Discard
    <3>2. pc[k] = "restored" /\ pc'[k] = "closing" /\ Confined(k)
          /\ \A t \in Streams : k \notin over[t].text \cup kept[t].text
      BY <2>9, <3>1 DEF Discard, Traceless, Alone
    <3>3. built' = IF BuildsDir(k) THEN [built EXCEPT ![k] = NoDir] ELSE built
      BY <2>9 DEF Discard, OneByOne
    <3>4. \A t \in Streams : NoDir.text[t].text = {}
      BY DEF NoDir, Absent
    <3>5. \A b \in Builds, t \in Streams : k \notin built'[b].text[t].text
      BY <3>2, <3>3, <3>4 DEF Confined
    <3>6. UNCHANGED <<over, kept, snap, text>>
      BY <2>9 DEF Discard
    <3>7. Unseen(k)'
      BY <3>2, <3>5, <3>6 DEF Unseen, Confined
    <3>8. QED
      BY <3>7, UnseenTracelessNext
  <2>10. CASE Settle(k) \/ Finish(k) \/ FreeGate(k) \/ Tell(k)
    <3>1. Writes(k) /\ verdict[k] = "accepted"
      BY <1>e, <2>10 DEF Settle, Finish, FreeGate, Tell, Hidden, PhaseSays
    <3>2. verdict' = verdict /\ pc'[k] \in {"settled", "closing", "freed", "done"}
      BY <2>10 DEF Settle, Finish, FreeGate, Tell
    <3>3. QED
      BY <3>1, <3>2 DEF Traceless, Hidden, Prior
  <2>11. ~MakePlan(k) /\ ~TakeSnapshot(k) /\ ~TryHold(k) /\ ~Busy(k) /\ ~MergeAnswers(k) /\ ~MergeRefuses(k)
    <3>1. pc'[k] \notin {"written", "wrote"} /\ pc[k] \in Prior \cup {"snapped", "merging"}
            => Hidden(k) /\ pc'[k] \notin {"written", "wrote"}
      BY DEF Hidden
    <3>2. MakePlan(k) \/ TakeSnapshot(k) \/ TryHold(k) \/ Busy(k) \/ MergeAnswers(k) \/ MergeRefuses(k)
            => pc'[k] \notin {"written", "wrote"} /\ pc[k] \in Prior \cup {"snapped", "merging"}
      BY DEF MakePlan, TakeSnapshot, TryHold, Busy, MergeAnswers, MergeRefuses, Answered, Prior
    <3>3. QED
      BY <3>1, <3>2, <1>e
  <2>12. QED
    BY <2>1, <2>2, <2>3, <2>4, <2>5, <2>6, <2>7, <2>8, <2>9, <2>10, <2>11, StepsAlone
       DEF RunStep, Serve, Write, Host, Land
<1>f. QED
  BY <1>d, <1>e DEF Traceless

LEMMA NextTraceless ==
    ASSUME OneByOne, TypeOK, Phased, GateExact, AllRestorable, Alone, Forms, AllTraceless, [Next]_vars
    PROVE  AllTraceless'
<1>1. ASSUME NEW q \in Offers, NEW w \in Worths, Receive(q, w), NEW k \in Runs
      PROVE  Traceless(k)'
  <2>1. PICK m \in Runs :
              /\ m = minted + 1 /\ pc[m] = "new" /\ minted' = m /\ handler' = m
              /\ pc' = [pc EXCEPT ![m] = "staged"] /\ req' = [req EXCEPT ![m] = q]
              /\ worth' = [worth EXCEPT ![m] = w]
              /\ ~q.streamed
              /\ \A r \in Runs : pc[r] \in {"new", "done"}
              /\ \A r \in Runs : r > m => pc[r] = "new"
    BY <1>1, ArrivesAlone
  <2>2. /\ UNCHANGED <<snap, text, built, verdict>> /\ LayStage(gate = Free)
        /\ req'[k].stream \in Streams
    BY <1>1, <2>1, Pieces, OffersAssumption DEF Receive, buildVars, Requests
  <2>3. CASE Unseen(k)
    <3>1. Unseen(k)'
      BY <2>2, <2>3, LaidUnseen
    <3>2. QED
      BY <3>1, <2>2, UnseenTracelessNext
  <2>4. CASE ~Unseen(k)
    <3>1. Traceless(k)
      BY DEF AllTraceless
    <3>2. ~Hidden(k) /\ k # m /\ pc[k] = "done"
      BY <2>1, <2>4, <3>1 DEF Traceless, Hidden, Prior
    <3>3. pc'[k] = "done" /\ req'[k] = req[k] /\ verdict'[k] = verdict[k]
      BY <2>1, <2>2, <3>2, Pieces
    <3>4. ~Hidden(k)'
      BY <3>2, <3>3 DEF Hidden, Writes, Whole, IsAnswer, Prior
    <3>5. QED
      BY <3>3, <3>4 DEF Traceless
  <2>5. QED
    BY <2>3, <2>4
<1>2. ASSUME NEW r \in Runs, RunStep(r), NEW k \in Runs
      PROVE  Traceless(k)'
  <2>1. CASE k = r
    BY <1>2, <2>1, TracelessStep DEF AllTraceless
  <2>2. CASE k # r /\ Unseen(k)
    <3>1. Unseen(k)' /\ OthersKept(r)
      BY <1>2, <2>2, StaysUnseen, OthersKeep
    <3>2. req'[k].stream \in Streams
      BY <3>1, Pieces DEF OthersKept
    <3>3. QED
      BY <3>1, <3>2, UnseenTracelessNext
  <2>3. CASE k # r /\ ~Unseen(k)
    <3>1. Traceless(k) /\ pc[k] \in {"new", "done"} /\ OthersKept(r)
      BY <1>2, <2>3, StepsAlone, OthersKeep DEF AllTraceless
    <3>2. ~Hidden(k) /\ pc[k] = "done"
      BY <2>3, <3>1 DEF Traceless, Hidden, Prior
    <3>3. pc'[k] = "done" /\ req'[k] = req[k] /\ verdict'[k] = verdict[k]
      BY <2>3, <3>1, <3>2 DEF OthersKept
    <3>4. ~Hidden(k)'
      BY <3>2, <3>3 DEF Hidden, Writes, Whole, IsAnswer, Prior
    <3>5. QED
      BY <3>3, <3>4 DEF Traceless
  <2>4. QED
    BY <2>1, <2>2, <2>3
<1>3. CASE UNCHANGED vars
  BY <1>3 DEF vars, runVars, treeVars, buildVars, AllTraceless, Traceless, Hidden, Unseen, Confined, Home,
                    Writes, Whole, IsAnswer, BuildsDir
<1>4. QED
  BY <1>1, <1>2, <1>3 DEF Next, Arrive, AllTraceless

LEMMA AlwaysRestorable == Spec => []AllRestorable
BY NextRestorable, AlwaysGated, InitRestorable, PTL DEF Spec

\* outcome.rs:3: with the handler held to the end, no name, snapshot or build
\* that could be answered with holds a record whose run was refused.
THEOREM NoTraceIsLeft == ASSUME OneByOne PROVE Spec => []RefusedLeavesNoTrace
<1>1. Init => AllTraceless
  <2> SUFFICES ASSUME Init, NEW k \in Runs PROVE Traceless(k)
    BY DEF AllTraceless
  <2>1. Restorable(k) /\ pc[k] = "new" /\ req[k].stream \in Streams
    BY InitRestorable, InitTypes, Pieces DEF AllRestorable, Init
  <2>2. Unseen(k)
    BY <2>1 DEF Restorable, Prior
  <2>3. QED
    BY <2>1, <2>2, UnseenTraceless
<1>2. Alone /\ AllTraceless => RefusedLeavesNoTrace
  <2> SUFFICES ASSUME Alone, AllTraceless, NEW r \in Runs, Writes(r), pc[r] \in {"done", "died"},
                      verdict[r] # "accepted"
               PROVE  ~Traces(r)
    BY DEF RefusedLeavesNoTrace
  <2>1. Unseen(r)
    BY DEF AllTraceless, Traceless, Hidden, Alone
  <2>2. r # 0
    BY MaxRunsAssumption DEF Runs
  <2>3. \A s \in Streams : r \notin Home(s).text \cup Seen(s).text
    BY <2>1, <2>2, SeenAt DEF Unseen
  <2>4. QED
    BY <2>1, <2>3 DEF Traces, Unseen, Complete
<1>3. TypeOK /\ Phased /\ GateExact /\ AllRestorable /\ Alone /\ Forms /\ AllTraceless /\ [Next]_vars
        => AllTraceless'
  BY NextTraceless
<1>4. QED
  BY <1>1, <1>2, <1>3, AlwaysGated, AlwaysRestorable, AlwaysAlone, PTL DEF Spec

-----------------------------------------------------------------------------
(* The stage and the decisions root agree.                                   *)

\* A stream's two names agree, where there are two trees.
Agrees(s) == Decisions => Agreed(ForcedModules(s), kept[s], over[s])

\* Between two writes of a run, or with a fork's module not adopted yet, they do not.
Unsettled(r) ==
    \/ pc[r] \in {"written", "putback"}
    \/ IsFork(r) /\ pc[r] \in {"wrote", "exited", "accepted", "refused"}

\* Where a fork's host has written its module: over another notebook's, or
\* through the link to it, only when it was told to force.
ForkWrote(r, s) ==
    \/ over[s] = File({r}) /\ (kept[s] # Absent => Forced(r))
    \/ over[s] = KeptLink /\ kept[s] = File({r}) /\ Forced(r) /\ Decisions

\* An agreement the snapshot holds, which a restore brings back.
SnapAgrees(r) == Decisions => Agreed(ForcedModules(req[r].stream), snap[r].note, snap[r].staged)

Told(r) ==
    /\ Writes(r) /\ pc[r] \in Under => SnapAgrees(r)
    /\ IsFork(r) /\ (pc[r] \in {"wrote", "accepted"} \/ (pc[r] = "exited" /\ exit[r] = 0)) =>
          ForkWrote(r, req[r].stream)
    /\ IsAnswer(r) /\ (\/ pc[r] \in {"running", "captured", "emitted", "exited", "accepted", "refused"}
                       \/ pc[r] = "ready" /\ Whole(r)) => InPlace(r)
    /\ pc[r] \in {"captured", "emitted"} => BuildsDir(r)

Agreeing ==
    /\ \A s \in Streams : Agrees(s) \/ \E r \in Runs : Unsettled(r) /\ req[r].stream = s
    /\ \A r \in Runs : Told(r)

\* A verdict once accepted is not taken back.
LEMMA AcceptedStays ==
    ASSUME TypeOK, Phased, NEW r \in Runs, RunStep(r), verdict[r] = "accepted"
    PROVE  verdict' = verdict /\ pc'[r] \in {"settled", "closing", "freed", "done", "died"}
<1>1. pc[r] \in LandedPhases
  BY DEF Phased, PhaseSays
<1>2. ~Serve(r) /\ ~Write(r) /\ ~Host(r)
  BY <1>1 DEF LandedPhases, Serve, Write, Host, MakePlan, TakeSnapshot, TryHold, Busy, CannotStart, Launch,
              WriteOverlay, StageNotebook, WriteFails, MergeAnswers, MergeRefuses, HostWrites,
              HostCaptures, HostEmits, HostExits
<1>3. ~Judge(r) /\ ~RestoreNotebook(r) /\ ~RestoreStaged(r) /\ ~RestoreFails(r) /\ ~Discard(r)
  BY <1>1 DEF LandedPhases, Judge, RestoreNotebook, RestoreStaged, RestoreFails, Discard
<1>4. OneLinePanics(r) \/ Settle(r) \/ Finish(r) \/ FreeGate(r) \/ Tell(r)
  BY <1>2, <1>3 DEF RunStep, Land
<1>5. QED
  BY <1>4, Pieces DEF OneLinePanics, Settle, Finish, FreeGate, Tell, Goto

\* A fork once accepted is not taken back, so an agreement outlives a step.
LEMMA ForcedGrows ==
    ASSUME TypeOK, Phased, NEW r \in Runs, RunStep(r), NEW s \in Streams
    PROVE  ForcedModules(s) \subseteq ForcedModules(s)'
<1>1. OthersKept(r)
  BY OthersKeep
<1>2. \A g \in Runs : verdict[g] = "accepted" => verdict'[g] = "accepted"
  BY <1>1, AcceptedStays DEF OthersKept
<1>3. \A g \in Runs : req'[g] = req[g]
  BY <1>1 DEF OthersKept
<1>4. QED
  BY <1>2, <1>3 DEF ForcedModules, Forced, IsFork

LEMMA AgreedGrows ==
    ASSUME NEW F, NEW G, F \subseteq G, NEW n, NEW t, Agreed(F, n, t)
    PROVE  Agreed(G, n, t)
BY DEF Agreed

LEMMA LaidAgreed ==
    ASSUME TypeOK, Forms, NEW a \in BOOLEAN, LayStage(a), NEW s \in Streams, Agrees(s)
    PROVE  /\ Decisions => Agreed(ForcedModules(s), kept'[s], over'[s])
           /\ Seen(s)' = Seen(s) \/ Seen(s) = Absent
<1>1. CASE Decisions /\ over[s].kind # "file" /\ (kept[s] # Absent <=> over[s] = KeptLink)
  <2>1. ~Adopts(s, a)
    BY <1>1 DEF Adopts
  <2>2. kept'[s] = kept[s]
    BY <2>1 DEF LayStage, KeptAfter
  <2>3. CASE kept[s] # Absent
    <3>1. over'[s] = KeptLink /\ KeptLink.kind # "file"
      BY <1>1, <2>1, <2>3 DEF LayStage, OverAfter, KeptLink
    <3>2. QED
      BY <1>1, <2>2, <2>3, <3>1 DEF Agreed, Seen
  <2>4. CASE kept[s] = Absent
    <3>1. over[s] # KeptLink /\ ~Dangling(s)
      BY <1>1, <2>4 DEF Dangling
    <3>2. over'[s] = over[s] \/ (over[s] = Absent /\ over'[s] = SeedLink)
      BY <1>1, <2>1, <2>4, <3>1 DEF LayStage, OverAfter
    <3>3. SeedLink # KeptLink /\ SeedLink.kind # "file"
      BY DEF SeedLink, KeptLink
    <3>4. over[s] = Absent => Seen(s) = Absent
      BY <2>4 DEF Seen, ReadOf, Absent
    <3>5. over'[s] = over[s] => Seen(s)' = Seen(s)
      BY <2>2 DEF Seen
    <3>6. Agreed(ForcedModules(s), kept'[s], over'[s])
      BY <1>1, <2>2, <2>4, <3>1, <3>2, <3>3 DEF Agreed
    <3>7. QED
      BY <3>2, <3>4, <3>5, <3>6
  <2>5. QED
    BY <2>3, <2>4
<1>2. CASE Decisions /\ kept[s] \notin {Absent, over[s]} /\ over[s] \in ForcedModules(s)
  <2>1. over[s].kind = "file" /\ ~Adopts(s, a) /\ over[s] # Absent /\ ~Dangling(s)
    BY <1>2 DEF ForcedModules, File, Adopts, Absent, Dangling
  <2>2. kept'[s] = kept[s]
    BY <2>1 DEF LayStage, KeptAfter
  <2>3. over'[s] = over[s]
    BY <2>1 DEF LayStage, OverAfter
  <2>4. QED
    BY <1>2, <2>2, <2>3 DEF Agreed, Seen
<1>3. CASE ~Decisions
  <2>1. over'[s] = over[s] \/ over[s] = Absent
    BY <1>3 DEF LayStage, OverAfter, Adopts
  <2>2. kept'[s] = kept[s]
    BY <1>3 DEF LayStage, KeptAfter, Adopts
  <2>3. over[s] = Absent => Seen(s) = Absent
    BY DEF Seen, ReadOf, Absent
  <2>4. QED
    BY <1>3, <2>1, <2>2, <2>3 DEF Seen
<1>4. QED
  BY <1>1, <1>2, <1>3, DecisionsAssumption DEF Agrees, Agreed

\* A fork's module is adopted, or stays beside the notebook it was forced over.
LEMMA LaidAdopts ==
    ASSUME TypeOK, Decisions, LayStage(TRUE), NEW s \in Streams, NEW r \in Runs, ForkWrote(r, s)
    PROVE  /\ Seen(s)' = File({r})
           /\ \/ kept'[s] = File({r}) /\ over'[s] = KeptLink
              \/ Forced(r) /\ over'[s] = File({r}) /\ kept'[s] \notin {Absent, over'[s]}
<1>a. File({r}).kind = "file" /\ File({r}) # Absent /\ KeptLink.kind = "link" /\ KeptLink # File({r})
  BY DEF File, Absent, KeptLink
<1>1. CASE over[s] = File({r}) /\ kept[s] \in {Absent, over[s]}
  <2>1. Adopts(s, TRUE)
    BY <1>1, <1>a DEF Adopts
  <2>2. kept'[s] = File({r}) /\ over'[s] = KeptLink
    BY <1>1, <2>1 DEF LayStage, KeptAfter, OverAfter
  <2>3. QED
    BY <2>2, <1>a DEF Seen, ReadOf
<1>2. CASE over[s] = File({r}) /\ kept[s] \notin {Absent, over[s]} /\ Forced(r)
  <2>1. ~Adopts(s, TRUE) /\ ~Dangling(s)
    BY <1>2 DEF Adopts, Dangling
  <2>2. kept'[s] = kept[s] /\ over'[s] = over[s]
    BY <1>2, <1>a, <2>1 DEF LayStage, KeptAfter, OverAfter
  <2>3. QED
    BY <1>2, <2>2, <1>a DEF Seen, ReadOf
<1>3. CASE over[s] = KeptLink /\ kept[s] = File({r})
  <2>1. ~Adopts(s, TRUE)
    BY <1>3, <1>a DEF Adopts
  <2>2. kept'[s] = kept[s] /\ over'[s] = KeptLink
    BY <1>3, <1>a, <2>1 DEF LayStage, KeptAfter, OverAfter
  <2>3. QED
    BY <1>3, <2>2, <1>a DEF Seen, ReadOf
<1>4. QED
  BY <1>1, <1>2, <1>3 DEF ForkWrote

\* A run's steps leave the names of other streams as they are, or lay the stage.
LEMMA OtherNames ==
    ASSUME TypeOK, NEW r \in Runs, RunStep(r)
    PROVE  \/ LayStage(TRUE)
           \/ \A t \in Streams \ {req[r].stream} : over'[t] = over[t] /\ kept'[t] = kept[t]
<1> USE Pieces DEF treeVars
<1>1. CASE WriteOverlay(r) \/ RestoreNotebook(r)
  BY <1>1 DEF WriteOverlay, RestoreNotebook, PutHome
<1>2. CASE StageNotebook(r) \/ RestoreStaged(r)
  BY <1>2 DEF StageNotebook, RestoreStaged, PutStaged
<1>3. CASE HostWrites(r) \/ Settle(r)
  BY <1>3 DEF HostWrites, Settle
<1>4. CASE TakeSnapshot(r) \/ TryHold(r) \/ MergeAnswers(r) \/ HostCaptures(r) \/ HostEmits(r) \/ Discard(r)
  BY <1>4 DEF TakeSnapshot, TryHold, MergeAnswers, HostCaptures, HostEmits, Discard
<1>5. QED
  BY <1>1, <1>2, <1>3, <1>4, OrTouches DEF Touches

\* The names of the run's own stream.
LEMMA OwnNames ==
    ASSUME TypeOK, Phased, TextFollowed, AllRestorable, Forms, Agreeing, Alone,
           NEW r \in Runs, RunStep(r), ~RestoreFails(r), ~OneLinePanics(r), ~WriteFails(r), Decisions,
           "io" \notin Faults, NEW s \in Streams, s = req[r].stream,
           Agrees(s) \/ Unsettled(r)
    PROVE  Agreed(ForcedModules(s)', kept'[s], over'[s]) \/ Unsettled(r)'
<1> USE Pieces DEF treeVars, buildVars, Goto
<1>g. \A n, t : Agreed(ForcedModules(s), n, t) => Agreed(ForcedModules(s)', n, t)
  BY ForcedGrows DEF Agreed
<1>a. PhaseSays(r) /\ Told(r) /\ Restorable(r) /\ (IsAnswer(r) => TextSays(r)) /\ req' = req
  BY OthersKeep DEF Phased, Agreeing, AllRestorable, TextFollowed, OthersKept
<1>b. IsFork(r)' <=> IsFork(r)
  BY <1>a DEF IsFork
<1>1. CASE WriteOverlay(r)
  BY <1>1 DEF WriteOverlay, Unsettled
<1>2. CASE StageNotebook(r)
  <2>1. pc[r] = "written" /\ kept'[s] = kept[s] /\ over'[s] = KeptLink
    BY <1>2 DEF StageNotebook, PutStaged
  <2>2. IsAnswer(r)
    BY <2>1, <1>a DEF PhaseSays
  <2>3. kept[s].kind = "file"
    BY <2>1, <2>2, <1>a DEF TextSays, Kept, Home
  <2>4. KeptLink.kind # "file" /\ kept[s] # Absent
    BY <2>3 DEF Absent, KeptLink
  <2>5. QED
    BY <2>1, <2>4 DEF Agreed
<1>3. CASE HostWrites(r)
  BY <1>3, <1>b DEF HostWrites, Unsettled
<1>4. CASE RestoreNotebook(r)
  BY <1>4 DEF RestoreNotebook, Unsettled
<1>5. CASE RestoreStaged(r)
  <2>1. pc[r] = "putback" /\ kept'[s] = kept[s] /\ over'[s] = snap[r].staged
    BY <1>5 DEF RestoreStaged, PutStaged
  <2>2. Writes(r) /\ kept[s] = snap[r].note
    BY <2>1, <1>a DEF Restorable, Home
  <2>3. Agreed(ForcedModules(s), snap[r].note, snap[r].staged)
    BY <2>1, <2>2, <1>a DEF Told, SnapAgrees, Under, GatedPhases
  <2>4. QED
    BY <2>1, <2>2, <2>3, <1>g
<1>6. CASE Settle(r)
  <2>1. pc[r] = "accepted"
    BY <1>6 DEF Settle
  <2>2. CASE IsFork(r)
    <3>1. LayStage(TRUE)
      BY <1>6, <2>2 DEF Settle, Writes, IsFork
    <3>2. ForkWrote(r, s)
      BY <1>a, <2>1, <2>2 DEF Told
    <3>3. \/ kept'[s] = File({r}) /\ over'[s] = KeptLink
          \/ Forced(r) /\ over'[s] = File({r}) /\ kept'[s] \notin {Absent, over'[s]}
      BY <3>1, <3>2, LaidAdopts
    <3>4. verdict[r] = "accepted"
      BY <1>a, <2>1 DEF PhaseSays, LandedPhases
    <3>5. Forced(r) => File({r}) \in ForcedModules(s)
      BY <3>4 DEF ForcedModules
    <3>6. File({r}) # Absent /\ KeptLink.kind # "file"
      BY DEF File, Absent, KeptLink
    <3>7. Agreed(ForcedModules(s), kept'[s], over'[s])
      BY <3>3, <3>5, <3>6 DEF Agreed
    <3>8. QED
      BY <3>7, <1>g
  <2>3. CASE ~IsFork(r)
    <3>1. Agrees(s)
      BY <2>1, <2>3 DEF Unsettled
    <3>2. LayStage(TRUE) \/ UNCHANGED <<over, kept>>
      BY <1>6 DEF Settle
    <3>3. Agreed(ForcedModules(s), kept'[s], over'[s])
      BY <3>1, <3>2, LaidAgreed DEF Agrees
    <3>4. QED
      BY <3>3, <1>g
  <2>4. QED
    BY <2>2, <2>3
<1>7. CASE UNCHANGED <<over, kept>> /\ ~StageNotebook(r) /\ ~RestoreStaged(r) /\ ~Settle(r) /\ ~RestoreNotebook(r)
  <2> SUFFICES ASSUME Unsettled(r) PROVE Unsettled(r)'
    BY <1>7, <1>g DEF Agrees
  <2>1. /\ pc[r] \in {"written", "putback", "wrote", "exited", "accepted", "refused"}
        /\ pc[r] \notin {"written", "putback"} => IsFork(r)
    BY DEF Unsettled
  <2>2. ~Serve(r)
    BY <2>1, <1>a DEF Serve, MakePlan, TakeSnapshot, TryHold, Busy, CannotStart, Launch
  <2>3. CASE Write(r)
    BY <2>1, <2>3, <1>7 DEF Write, WriteOverlay, WriteFails, MergeAnswers, MergeRefuses, Unsettled
  <2>4. CASE Host(r)
    BY <2>1, <2>4, <1>b DEF Host, HostWrites, HostCaptures, HostEmits, HostExits, Unsettled
  <2>5. CASE Land(r)
    BY <2>1, <2>5, <1>7, <1>b
       DEF Land, Judge, Discard, Finish, FreeGate, Tell, Unsettled, Alone, Writes, IsFork
  <2>6. QED
    BY <2>2, <2>3, <2>4, <2>5 DEF RunStep
<1>8. CASE TakeSnapshot(r) \/ TryHold(r) \/ MergeAnswers(r) \/ HostCaptures(r) \/ HostEmits(r) \/ Discard(r)
  <2>1. UNCHANGED <<over, kept>> /\ ~StageNotebook(r) /\ ~RestoreStaged(r) /\ ~Settle(r) /\ ~RestoreNotebook(r)
    BY <1>8 DEF TakeSnapshot, TryHold, MergeAnswers, HostCaptures, HostEmits, Discard,
                StageNotebook, RestoreStaged, Settle, RestoreNotebook
  <2>2. QED
    BY <1>7, <2>1
<1>9. QED
  BY <1>1, <1>2, <1>3, <1>4, <1>5, <1>6, <1>7, <1>8, OrTouches DEF Touches

\* What is told of a run, as it goes on.
LEMMA ToldStep ==
    ASSUME OneByOne, TypeOK, Phased, TextFollowed, TextFollowed', AllRestorable, Forms, Agreeing, Alone,
           NEW r \in Runs, RunStep(r)
    PROVE  Told(r)'
<1> USE Pieces DEF treeVars, buildVars, Goto
<1>a. /\ PhaseSays(r) /\ Told(r) /\ Restorable(r) /\ req' = req
      /\ (IsFork(r)' <=> IsFork(r)) /\ (IsAnswer(r)' <=> IsAnswer(r)) /\ (Writes(r)' <=> Writes(r))
      /\ (Whole(r)' <=> Whole(r))
  BY OthersKeep DEF Phased, Agreeing, AllRestorable, OthersKept, IsFork, IsAnswer, Writes, Whole
<1>b. PICK s \in Streams : s = req[r].stream
  OBVIOUS
<1>c. Agrees(s) \/ Unsettled(r)
  <2>1. \A q \in Runs \ {r} : ~Unsettled(q)
    BY StepsAlone DEF Unsettled
  <2>2. QED
    BY <2>1 DEF Agreeing
<1>1. Writes(r) /\ pc'[r] \in Under => (Decisions => Agreed(ForcedModules(s)', snap'[r].note, snap'[r].staged))
  <2> SUFFICES ASSUME Writes(r), pc'[r] \in Under, Decisions
               PROVE  Agreed(ForcedModules(s), snap'[r].note, snap'[r].staged)
    BY ForcedGrows, AgreedGrows
  <2>1. CASE TakeSnapshot(r) /\ Writes(r)
    <3>1. pc[r] = "planned" /\ snap'[r] = [note |-> Home(s), staged |-> over[s]]
      BY <2>1, <1>b DEF TakeSnapshot
    <3>2. Agrees(s)
      BY <3>1, <1>c DEF Unsettled
    <3>3. QED
      BY <3>1, <3>2 DEF Agrees, Home
  <2>2. CASE RestoreNotebook(r) \/ RestoreStaged(r)
    BY <2>2, <1>a, <1>b DEF RestoreNotebook, RestoreStaged, Told, SnapAgrees, Restorable, Under, GatedPhases
  <2>3. CASE ~TakeSnapshot(r) /\ ~RestoreNotebook(r) /\ ~RestoreStaged(r)
    BY <2>3, <1>a, <1>b, OtherMoves DEF Told, SnapAgrees
  <2>4. QED
    BY <2>1, <2>2, <2>3
<1>2. IsFork(r) /\ (pc'[r] \in {"wrote", "accepted"} \/ (pc'[r] = "exited" /\ exit'[r] = 0))
        => ForkWrote(r, s)'
  <2> SUFFICES ASSUME IsFork(r), pc'[r] \in {"wrote", "accepted"} \/ (pc'[r] = "exited" /\ exit'[r] = 0)
               PROVE  ForkWrote(r, s)'
    OBVIOUS
  <2>a. ForkWrote(r, s) /\ UNCHANGED <<over, kept>> => ForkWrote(r, s)'
    BY <1>a DEF ForkWrote, Forced
  <2>1. HostWrites(r) \/ HostExits(r) \/ Judge(r)
    <3>1. ~Serve(r) /\ ~Write(r)
      BY DEF Serve, Write, MakePlan, TakeSnapshot, TryHold, Busy, CannotStart, Launch, Answered, WriteOverlay,
             StageNotebook, WriteFails, MergeAnswers, MergeRefuses
    <3>2. Host(r) => HostWrites(r) \/ HostExits(r)
      BY DEF Host, HostCaptures, HostEmits
    <3>3. Land(r) => Judge(r)
      BY DEF Land, OneLinePanics, RestoreNotebook, RestoreStaged, RestoreFails, Discard, Settle, Finish,
             FreeGate, Tell
    <3>4. QED
      BY <3>1, <3>2, <3>3 DEF RunStep
  <2>2. CASE HostWrites(r)
    <3>1. /\ pc[r] = "running" /\ (over[s] = Absent \/ Forced(r))
          /\ \/ over'[s] = File({r}) /\ kept'[s] = kept[s]
             \/ over[s] = KeptLink /\ over'[s] = KeptLink /\ kept'[s] = File({r})
      BY <2>2, <1>b DEF HostWrites
    <3>2. Agrees(s)
      BY <3>1, <1>c DEF Unsettled
    <3>3. Absent # KeptLink /\ (KeptLink = over[s] => Decisions)
      BY DecisionsAssumption DEF Absent, KeptLink, Forms, StagedForm
    <3>4. Absent \notin ForcedModules(s)
      BY DEF ForcedModules, Absent, File
    <3>5. over[s] = Absent => kept[s] = Absent
      BY <3>2, <3>3, <3>4 DEF Agrees, Agreed, Forms, KeptForm
    <3>6. Forced(r)' <=> Forced(r)
      BY <1>a DEF Forced
    <3>7. QED
      BY <3>1, <3>3, <3>5, <3>6 DEF ForkWrote
  <2>3. CASE HostExits(r)
    <3>1. pc'[r] = "exited" /\ UNCHANGED <<over, kept>>
      BY <2>3 DEF HostExits
    <3>3. exit'[r] = 0
      BY <3>1
    <3>4. pc[r] \in {"wrote", "emitted"} \/ (pc[r] = "running" /\ req[r].verb = "diff")
      BY <2>3, <3>3 DEF HostExits
    <3>5. pc[r] = "wrote"
      BY <3>4, <1>a DEF Told, IsFork, BuildsDir
    <3>2. QED
      BY <3>1, <3>5, <1>a, <1>b, <2>a DEF Told
  <2>4. CASE Judge(r)
    <3>1. pc[r] = "exited" /\ exit[r] = 0 /\ UNCHANGED <<over, kept>>
      BY <2>4 DEF Judge, Refuses
    <3>2. QED
      BY <3>1, <1>a, <1>b, <2>a DEF Told
  <2>5. QED
    BY <2>1, <2>2, <2>3, <2>4
<1>3. IsAnswer(r) /\ (\/ pc'[r] \in {"running", "captured", "emitted", "exited", "accepted", "refused"}
                      \/ pc'[r] = "ready" /\ Whole(r)) => InPlace(r)'
  <2> SUFFICES ASSUME IsAnswer(r), \/ pc'[r] \in {"running", "captured", "emitted", "exited", "accepted", "refused"}
                                   \/ pc'[r] = "ready" /\ Whole(r)
               PROVE  InPlace(r)'
    OBVIOUS
  <2>1. CASE pc'[r] = "running" \/ pc'[r] = "ready"
    <3>1. TextSays(r)'
      BY <1>a DEF TextFollowed
    <3>2. QED
      BY <2>1, <3>1, <1>a DEF TextSays
  <2>2. CASE pc'[r] \in {"captured", "emitted", "exited", "accepted", "refused"}
    <3>1. HostCaptures(r) \/ HostEmits(r) \/ HostExits(r) \/ Judge(r)
      <4>1. ~Serve(r) /\ ~Write(r)
        BY <2>2 DEF Serve, Write, MakePlan, TakeSnapshot, TryHold, Busy, CannotStart, Launch, Answered,
               WriteOverlay, StageNotebook, WriteFails, MergeAnswers, MergeRefuses
      <4>2. Host(r) => HostCaptures(r) \/ HostEmits(r) \/ HostExits(r)
        BY <2>2 DEF Host, HostWrites
      <4>3. Land(r) => Judge(r)
        BY <2>2 DEF Land, OneLinePanics, RestoreNotebook, RestoreStaged, RestoreFails, Discard, Settle,
                    Finish, FreeGate, Tell
      <4>4. QED
        BY <4>1, <4>2, <4>3 DEF RunStep
    <3>2. UNCHANGED <<over, kept>> /\ pc[r] \in {"running", "wrote", "captured", "emitted", "exited"}
      BY <3>1 DEF HostCaptures, HostEmits, HostExits, Judge
    <3>3. pc[r] # "wrote"
      BY <1>a DEF PhaseSays, IsFork, IsAnswer
    <3>4. InPlace(r)
      BY <3>2, <3>3, <1>a DEF Told
    <3>5. QED
      BY <3>2, <3>4, <1>a DEF InPlace, Kept, Home
  <2>3. QED
    BY <2>1, <2>2
<1>4. pc'[r] \in {"captured", "emitted"} => BuildsDir(r)
  <2> SUFFICES ASSUME pc'[r] \in {"captured", "emitted"} PROVE BuildsDir(r)
    OBVIOUS
  <2>1. HostCaptures(r) \/ HostEmits(r)
    <3>1. ~Serve(r) /\ ~Write(r)
      BY DEF Serve, Write, MakePlan, TakeSnapshot, TryHold, Busy, CannotStart, Launch, Answered,
             WriteOverlay, StageNotebook, WriteFails, MergeAnswers, MergeRefuses
    <3>2. ~Land(r)
      BY DEF Land, Judge, OneLinePanics, RestoreNotebook, RestoreStaged, RestoreFails, Discard, Settle,
             Finish, FreeGate, Tell
    <3>3. Host(r) => HostCaptures(r) \/ HostEmits(r)
      BY DEF Host, HostWrites, HostExits
    <3>4. QED
      BY <3>1, <3>2, <3>3 DEF RunStep
  <2>2. QED
    BY <2>1, <1>a DEF HostCaptures, HostEmits, Told
<1>5. QED
  BY <1>1, <1>2, <1>3, <1>4, <1>a, <1>b DEF Told, SnapAgrees, BuildsDir

LEMMA NextAgreeing ==
    ASSUME OneByOne, TypeOK, Phased, GateExact, TextFollowed, TextFollowed', AllRestorable, Forms, Alone, Agreeing,
           [Next]_vars
    PROVE  Agreeing'
<1>1. ASSUME NEW q \in Offers, NEW w \in Worths, Receive(q, w)
      PROVE  Agreeing'
  <2>1. PICK m \in Runs :
              /\ m = minted + 1 /\ pc[m] = "new" /\ minted' = m /\ handler' = m
              /\ pc' = [pc EXCEPT ![m] = "staged"] /\ req' = [req EXCEPT ![m] = q]
              /\ worth' = [worth EXCEPT ![m] = w]
              /\ ~q.streamed
              /\ \A r \in Runs : pc[r] \in {"new", "done"}
              /\ \A r \in Runs : r > m => pc[r] = "new"
    BY <1>1, ArrivesAlone
  <2>2. LayStage(gate = Free)
    BY <1>1 DEF Receive
  <2>3. ASSUME NEW s \in Streams PROVE Agrees(s)'
    <3>1. Agrees(s)
      BY <2>1 DEF Agreeing, Unsettled
    <3>2. ForcedModules(s) \subseteq ForcedModules(s)'
      <4>1. verdict' = verdict /\ verdict[m] # "accepted"
        BY <1>1, <2>1 DEF Receive, Phased, PhaseSays, LandedPhases
      <4>2. \A g \in Runs \ {m} : req'[g] = req[g]
        BY <2>1, Pieces
      <4>3. QED
        BY <4>1, <4>2 DEF ForcedModules, Forced, IsFork
    <3>3. QED
      BY <2>2, <3>1, <3>2, LaidAgreed DEF Agrees, Agreed
  <2>4. ASSUME NEW r \in Runs PROVE pc'[r] \in {"new", "staged", "done"}
    BY <2>1, Pieces
  <2>5. QED
    BY <2>3, <2>4 DEF Agreeing, Told, Under, GatedPhases
<1>2. ASSUME NEW r \in Runs, RunStep(r)
      PROVE  Agreeing'
  <2>1. OthersKept(r) /\ \A q \in Runs \ {r} : pc[q] \in {"new", "done"}
    BY <1>2, OthersKeep, StepsAlone
  <2>2. ASSUME NEW q \in Runs PROVE Told(q)'
    <3>1. CASE q = r
      BY <1>2, <3>1, ToldStep
    <3>2. CASE q # r
      BY <2>1, <3>2 DEF OthersKept, Told, Under, GatedPhases
    <3>3. QED
      BY <3>1, <3>2
  <2>3. ASSUME NEW s \in Streams
        PROVE  Agrees(s)' \/ (Unsettled(r)' /\ req'[r].stream = s)
    <3>a. Agrees(s) \/ (Unsettled(r) /\ req[r].stream = s)
      BY <2>1 DEF Agreeing, Unsettled
    <3>1. CASE ~Decisions
      BY <3>1 DEF Agrees
    <3>2. CASE Decisions /\ s = req[r].stream
      <4>1. ~RestoreFails(r) /\ ~OneLinePanics(r) /\ ~WriteFails(r) /\ "io" \notin Faults
        BY <1>2, StepsAlone DEF OneByOne
      <4>2. Agreed(ForcedModules(s)', kept'[s], over'[s]) \/ Unsettled(r)'
        BY <1>2, <3>2, <3>a, <4>1, OwnNames
      <4>3. QED
        BY <3>2, <4>2, <2>1 DEF OthersKept, Agrees, Agreed
    <3>3. CASE s # req[r].stream
      <4>1. Agrees(s)
        BY <3>3, <3>a
      <4>2. LayStage(TRUE) \/ (over'[s] = over[s] /\ kept'[s] = kept[s])
        BY <1>2, <3>3, OtherNames
      <4>3. Decisions => Agreed(ForcedModules(s), kept'[s], over'[s])
        BY <4>1, <4>2, LaidAgreed DEF Agrees
      <4>4. ForcedModules(s) \subseteq ForcedModules(s)'
        BY <1>2, ForcedGrows
      <4>5. QED
        BY <4>3, <4>4 DEF Agrees, Agreed
    <3>4. QED
      BY <3>1, <3>2, <3>3
  <2>4. QED
    BY <2>2, <2>3 DEF Agreeing
<1>3. CASE UNCHANGED vars
  <2>1. UNCHANGED <<pc, req, verdict, exit, snap, over, kept>>
    BY <1>3 DEF vars, runVars, treeVars
  <2>2. ASSUME NEW s \in Streams PROVE ForcedModules(s)' = ForcedModules(s)
    BY <2>1 DEF ForcedModules, Forced, IsFork
  <2>3. ASSUME NEW s \in Streams PROVE Agrees(s) => Agrees(s)'
    BY <2>1, <2>2 DEF Agrees, Agreed
  <2>4. ASSUME NEW r \in Runs PROVE Unsettled(r)' <=> Unsettled(r)
    BY <2>1 DEF Unsettled, IsFork
  <2>5. ASSUME NEW r \in Runs PROVE Told(r)'
    <3>1. Told(r) /\ req[r].stream \in Streams
      BY Pieces DEF Agreeing
    <3>2. SnapAgrees(r) => SnapAgrees(r)'
      BY <2>1, <2>2, <3>1 DEF SnapAgrees, Agreed
    <3>3. QED
      BY <2>1, <3>1, <3>2 DEF Told, ForkWrote, Forced, InPlace, Kept, Home, Writes, IsFork, IsAnswer, Whole, BuildsDir
  <2>6. QED
    BY <2>1, <2>3, <2>4, <2>5 DEF Agreeing
<1>4. QED
  BY <1>1, <1>2, <1>3 DEF Next, Arrive

LEMMA InitAgreeing == Init => Agreeing
<1> SUFFICES ASSUME Init PROVE Agreeing
  OBVIOUS
<1>1. ASSUME NEW s \in Streams PROVE Agrees(s)
  <2>1. kept[s] = Absent /\ over[s] \in {SeedLink, Absent}
    BY DEF Init
  <2>2. QED
    BY <2>1 DEF Agrees, Agreed, SeedLink, KeptLink, Absent
<1>2. \A r \in Runs : pc[r] = "new"
  BY DEF Init
<1>3. QED
  BY <1>1, <1>2 DEF Agreeing, Told, Under, GatedPhases

LEMMA AlwaysFollowed == Spec => [](TypeOK /\ Phased /\ GateExact /\ TextFollowed)
BY InitTypes, InitPhased, InitGate, InitText, NextTypes, NextPhased, NextGate, NextText, PTL DEF Spec

LEMMA AlwaysAgreeing == ASSUME OneByOne PROVE Spec => []Agreeing
BY InitAgreeing, NextAgreeing, AlwaysFollowed, AlwaysRestorable, AlwaysAlone, PTL DEF Spec

\* bundle.rs, lay_stage and stage_notebook: with no run under way every
\* notebook is what its stream reads, and every module of a host is adopted or
\* stands in the dispute a forced fork left.
THEOREM StageAndNotebooksAgree == ASSUME OneByOne PROVE Spec => []StageAgrees
<1>1. Alone /\ Agreeing => StageAgrees
  <2> SUFFICES ASSUME Alone, Agreeing, Decisions, handler = Free, NEW s \in Streams
               PROVE  Agreed(ForcedModules(s), kept[s], over[s])
    BY DEF StageAgrees
  <2>1. \A r \in Runs : pc[r] \in {"new", "done"}
    BY MaxRunsAssumption DEF Alone, Runs, Free
  <2>2. Agrees(s)
    BY <2>1 DEF Agreeing, Unsettled
  <2>3. QED
    BY <2>2 DEF Agrees
<1>2. QED
  BY <1>1, AlwaysAgreeing, AlwaysAlone, PTL

-----------------------------------------------------------------------------
(* What was saved stays.                                                     *)

\* A run whose outcome is that its record is saved, and no answer replaced it.
Saved(k) ==
    /\ Writes(k) /\ verdict[k] = "accepted"
    /\ pc[k] \in {"settled", "closing", "freed", "done"}
    /\ ~Superseded(k)

\* A run has rewritten the module and is not judged yet, or what it refused is
\* being put back.
Replacing(h, s) ==
    /\ req[h].stream = s
    /\ \/ /\ Rewrites(h)
          /\ pc[h] \in {"written", "ready", "running", "wrote", "captured", "emitted", "exited", "refused"}
       \/ Writes(h) /\ pc[h] = "putback"

\* What a host read as the snapshot was taken.
Before(held) == IF Decisions THEN ReadOf(held.note, held.staged) ELSE held.note

Remains(k) ==
    Saved(k) =>
      LET s == req[k].stream IN
      /\ k \in Seen(s).text \/ \E h \in Runs : Replacing(h, s)
      /\ \A h \in Runs \ {k} : Writes(h) /\ req[h].stream = s /\ pc[h] \in Under =>
            /\ k \in Before(snap[h]).text
            /\ ~Whole(h) /\ pc[h] = "towrite" => k \in text[h]
            /\ ~Whole(h) /\ pc[h] = "written" => k \in Home(s).text

AllRemain == \A k \in Runs : Remains(k)

\* Who is saved after a step of another run was saved before it, by an earlier run.
LEMMA SavedBefore ==
    ASSUME OneByOne, TypeOK, Phased, Alone, NEW r \in Runs, RunStep(r), NEW k \in Runs \ {r}, Saved(k)'
    PROVE  /\ Saved(k) /\ pc[k] = "done" /\ k < r /\ req' = req
           /\ ~(Rewrites(r) /\ req[r].stream = req[k].stream /\ verdict'[r] = "accepted")
<1>a. OthersKept(r) /\ \A q \in Runs \ {r} : pc[q] \in {"new", "done"}
  BY OthersKeep, StepsAlone
<1>1. req' = req /\ pc'[k] = pc[k] /\ verdict'[k] = verdict[k] /\ (Writes(k)' <=> Writes(k))
  BY <1>a DEF OthersKept, Writes
<1>2. pc[k] = "done" /\ Writes(k) /\ verdict[k] = "accepted"
  BY <1>a, <1>1 DEF Saved
<1>3. k < r
  <2>1. minted = r
    <3>1. handler = r /\ r # Free
      BY StepsAlone, Pieces
    <3>2. QED
      BY <3>1 DEF Alone
  <2>2. ~(k > minted)
    BY <1>2 DEF Phased, PhaseSays
  <2>3. k \in Nat /\ r \in Nat /\ k # r
    BY Pieces
  <2>4. QED
    BY <2>1, <2>2, <2>3
<1>4. \A w \in Runs : verdict[w] = "accepted" => verdict'[w] = "accepted"
  BY <1>a, AcceptedStays DEF OthersKept
<1>5. Superseded(k) => Superseded(k)'
  BY <1>1, <1>4 DEF Superseded, Rewrites, Forced, IsFork, Whole, IsAnswer
<1>6. Saved(k)
  BY <1>1, <1>2, <1>5 DEF Saved
<1>7. Rewrites(r) /\ req[r].stream = req[k].stream /\ verdict'[r] = "accepted" => Superseded(k)'
  BY <1>1, <1>3, Pieces DEF Superseded, Rewrites, Forced, IsFork, Whole, IsAnswer
<1>8. QED
  BY <1>1, <1>2, <1>3, <1>6, <1>7 DEF Saved

\* A record that is read is of a file: never a link's, nor the owner's of old.
LEMMA ReadIsFile ==
    ASSUME NEW note, NEW staged, NEW k \in Runs, StagedForm(staged), KeptForm(note)
    PROVE  /\ k \in ReadOf(note, staged).text /\ ~Decisions => ReadOf(note, staged) = staged
           /\ k \in staged.text => ReadOf(note, staged) = staged
           /\ staged = Absent => k \notin ReadOf(note, staged).text
<1>1. k # 0
  BY Pieces, MaxRunsAssumption DEF Runs
<1>2. k \notin File({0}).text /\ k \notin Absent.text
  BY <1>1 DEF File, Absent
<1>3. QED
  BY <1>2 DEF ReadOf, StagedForm, KeptForm, Formed, Absent

\* A step of a run on another stream, or of one that writes nothing.
LEMMA RemainsAway ==
    ASSUME OneByOne, TypeOK, Phased, GateExact, Forms, Alone, Agreeing, AllRemain, NEW r \in Runs, RunStep(r),
           NEW k \in Runs \ {r}, Saved(k)', ~Writes(r) \/ req[r].stream # req[k].stream
    PROVE  Remains(k)'
<1>a. Saved(k) /\ pc[k] = "done" /\ req' = req
  BY SavedBefore
<1>b. OthersKept(r) /\ \A q \in Runs \ {r} : pc[q] \in {"new", "done"}
  BY OthersKeep, StepsAlone
<1>c. PICK s \in Streams : s = req[k].stream
  BY Pieces
<1>1. ~Replacing(r, s) /\ \A h \in Runs \ {r} : ~Replacing(h, s)
  BY <1>b, <1>c DEF Replacing, Rewrites, Forced, IsFork, Whole, IsAnswer, Writes
<1>2. k \in Seen(s).text
  BY <1>a, <1>c, <1>1 DEF AllRemain, Remains
<1>f. UNCHANGED <<over[s], kept[s]>> => Seen(s)' = Seen(s)
  BY DEF Seen
<1>3. Seen(s)' = Seen(s)
  <2>1. CASE ~Writes(r)
    <3>1. gate # r
      BY <2>1 DEF GateExact
    <3>2. UNCHANGED <<over, kept>>
      BY <3>1, TreesHeld
    <3>3. QED
      BY <3>2, <1>f
  <2>2. CASE req[r].stream # s
    <3>1. CASE LayStage(TRUE)
      <4>1. \A q \in Runs : Unsettled(q) => req[q].stream # s
        BY <1>b, <2>2 DEF Unsettled
      <4>2. Agrees(s)
        BY <4>1 DEF Agreeing
      <4>3. Seen(s)' = Seen(s) \/ Seen(s) = Absent
        BY <3>1, <4>2, LaidAgreed
      <4>4. QED
        BY <1>2, <4>3 DEF Absent
    <3>2. CASE over'[s] = over[s] /\ kept'[s] = kept[s]
      BY <3>2, <1>f
    <3>3. s \in Streams \ {req[r].stream}
      BY <2>2
    <3>4. QED
      BY <3>1, <3>2, <3>3, OtherNames
  <2>3. QED
    BY <1>c, <2>1, <2>2
<1>4. \A h \in Runs \ {k} : ~(Writes(h)' /\ req'[h].stream = s /\ pc'[h] \in Under)
  BY <1>a, <1>b, <1>c DEF OthersKept, Writes, Under, GatedPhases
<1>5. QED
  BY <1>a, <1>c, <1>2, <1>3, <1>4 DEF Remains

\* What is left to show of a step of a writing run on k's own stream.
RemainsNext(k, r, s) ==
    /\ k \in Seen(s)'.text \/ Replacing(r, s)'
    /\ pc'[r] \in Under => /\ k \in Before(snap'[r]).text
                           /\ ~Whole(r) /\ pc'[r] = "towrite" => k \in text'[r]
                           /\ ~Whole(r) /\ pc'[r] = "written" => k \in Home(s)'.text

LEMMA RemainsOwn ==
    ASSUME OneByOne, TypeOK, Phased, GateExact, Forms, AllRestorable, Alone, Agreeing, AllRemain,
           NEW r \in Runs, RunStep(r), NEW k \in Runs \ {r}, Saved(k)', Writes(r),
           NEW s \in Streams, s = req[r].stream, s = req[k].stream
    PROVE  RemainsNext(k, r, s)
<1>a. Saved(k) /\ pc[k] = "done" /\ req' = req /\ ~(Rewrites(r) /\ verdict'[r] = "accepted")
  BY SavedBefore
<1>b. \A q \in Runs \ {r} : pc[q] \in {"new", "done"}
  BY StepsAlone
<1>c. /\ k \in Seen(s).text \/ Replacing(r, s)
      /\ pc[r] \in Under => /\ k \in Before(snap[r]).text
                            /\ ~Whole(r) /\ pc[r] = "towrite" => k \in text[r]
                            /\ ~Whole(r) /\ pc[r] = "written" => k \in Home(s).text
  BY <1>a, <1>b DEF AllRemain, Remains, Replacing
<1>d. Agrees(s) \/ Unsettled(r)
  BY <1>b DEF Agreeing, Unsettled
<1>e. PhaseSays(r) /\ Told(r) /\ (Whole(r)' <=> Whole(r)) /\ (Rewrites(r)' <=> Rewrites(r)) /\ Writes(r)'
  BY <1>a DEF Phased, Agreeing, Rewrites, Forced, IsFork, Whole, IsAnswer, Writes
<1> USE Pieces DEF Goto, Answered, treeVars, buildVars
<1>f. UNCHANGED <<over[s], kept[s]>> => Seen(s)' = Seen(s)
  BY DEF Seen
<1>g. StagedForm(over[s]) /\ KeptForm(kept[s]) /\ NoteForm(snap[r].note) /\ StagedForm(snap[r].staged)
  BY DEF Forms
<1>h. \A t : ReadOf(t, KeptLink) = t /\ \A u : ReadOf(u, File(t)) = File(t)
  BY DEF ReadOf, KeptLink, File
<1>i. pc[r] \notin {"written", "ready", "running", "wrote", "captured", "emitted", "exited", "refused", "putback"}
        => k \in Seen(s).text
  BY <1>c DEF Replacing
<1>1. CASE TakeSnapshot(r)
  <2>1. pc[r] = "planned" /\ pc'[r] = "snapped" /\ snap'[r] = [note |-> Home(s), staged |-> over[s]]
        /\ UNCHANGED <<over, kept>>
    BY <1>1 DEF TakeSnapshot
  <2>2. k \in Seen(s).text
    BY <2>1, <1>i
  <2>3. k \in Before(snap'[r]).text
    <3>1. CASE Decisions
      BY <2>1, <2>2, <3>1 DEF Before, Home, Seen
    <3>2. CASE ~Decisions
      <4>1. Seen(s) = over[s]
        BY <2>2, <3>2, <1>g, ReadIsFile DEF Seen
      <4>2. QED
        BY <2>1, <2>2, <3>2, <4>1 DEF Before, Home
    <3>3. QED
      BY <3>1, <3>2
  <2>4. QED
    BY <2>1, <2>2, <2>3, <1>f DEF RemainsNext
<1>2. CASE MergeAnswers(r)
  <2>1. pc[r] = "merging" /\ pc'[r] = "towrite" /\ text'[r] = Seen(s).text \cup {r} /\ snap' = snap
        /\ UNCHANGED <<over, kept>>
    BY <1>2 DEF MergeAnswers
  <2>2. k \in Seen(s).text
    BY <2>1, <1>i
  <2>3. QED
    BY <2>1, <2>2, <1>c, <1>f DEF RemainsNext, Under, GatedPhases
<1>3. CASE WriteOverlay(r)
  <2>1. pc[r] = "towrite" /\ pc'[r] = "written" /\ snap' = snap /\ Home(s)' = File(text[r])
    BY <1>3 DEF WriteOverlay, PutHome, Home
  <2>2. Whole(r) => Replacing(r, s)'
    BY <2>1, <1>a, <1>e DEF Replacing, Rewrites
  <2>3. ~Whole(r) => k \in File(text[r]).text
    BY <2>1, <1>c DEF File, Under, GatedPhases
  <2>4. Seen(s)' \in {Seen(s), File(text[r])}
    <3>1. CASE Decisions
      <4>1. over' = over /\ kept'[s] = File(text[r])
        BY <1>3, <3>1 DEF WriteOverlay, PutHome
      <4>2. QED
        BY <4>1 DEF Seen, ReadOf
    <3>2. CASE ~Decisions
      <4>1. over'[s] = File(text[r])
        BY <1>3, <3>2 DEF WriteOverlay, PutHome
      <4>2. QED
        BY <4>1, <1>h DEF Seen
    <3>3. QED
      BY <3>1, <3>2
  <2>5. k \in Seen(s).text
    BY <2>1, <1>i
  <2>6. QED
    BY <2>1, <2>2, <2>3, <2>4, <2>5, <1>c DEF RemainsNext, Under, GatedPhases
<1>4. CASE HostWrites(r)
  <2>1. pc[r] = "running" /\ pc'[r] = "wrote" /\ IsFork(r) /\ snap' = snap /\ (over[s] = Absent \/ Forced(r))
    BY <1>4 DEF HostWrites
  <2>2. CASE Forced(r)
    <3>1. Replacing(r, s)'
      BY <2>1, <2>2, <1>a, <1>e DEF Replacing, Rewrites
    <3>2. QED
      BY <2>1, <3>1, <1>c DEF RemainsNext, Under, GatedPhases
  <2>3. CASE ~Forced(r)
    <3>1. ~Rewrites(r)
      BY <2>1, <2>3 DEF Rewrites, Whole, IsAnswer, IsFork
    <3>2. k \in Seen(s).text
      BY <2>1, <3>1, <1>c DEF Replacing
    <3>3. k \notin Seen(s).text
      BY <2>1, <2>3, <1>g, ReadIsFile DEF Seen
    <3>4. QED
      BY <3>2, <3>3
  <2>4. QED
    BY <2>2, <2>3
<1>5. CASE RestoreNotebook(r)
  <2>1. pc[r] = "refused" /\ pc'[r] = "putback" /\ snap' = snap
    BY <1>5 DEF RestoreNotebook
  <2>2. Replacing(r, s)'
    BY <2>1, <1>a, <1>e DEF Replacing
  <2>3. QED
    BY <2>1, <2>2, <1>c DEF RemainsNext, Under, GatedPhases
<1>6. CASE Settle(r)
  <2>1. pc[r] = "accepted" /\ pc'[r] = "settled" /\ snap' = snap
        /\ (UNCHANGED <<over, kept>> \/ (Decisions /\ LayStage(TRUE)))
    BY <1>6 DEF Settle
  <2>2. k \in Seen(s).text
    BY <2>1, <1>i
  <2>3. ~IsFork(r)
    <3> SUFFICES ASSUME IsFork(r) PROVE FALSE
      OBVIOUS
    <3>1. ForkWrote(r, s)
      BY <2>1, <1>e DEF Told
    <3>2. Seen(s) = File({r})
      BY <3>1, <1>h DEF ForkWrote, Seen
    <3>3. QED
      BY <2>2, <3>2 DEF File
  <2>4. Agrees(s)
    BY <2>1, <2>3, <1>d DEF Unsettled
  <2>5. Seen(s)' = Seen(s)
    <3>1. CASE Decisions /\ LayStage(TRUE)
      <4>1. Seen(s)' = Seen(s) \/ Seen(s) = Absent
        BY <3>1, <2>4, LaidAgreed
      <4>2. QED
        BY <2>2, <4>1 DEF Absent
    <3>2. QED
      BY <2>1, <3>1, <1>f
  <2>6. QED
    BY <2>1, <2>2, <2>5, <1>c DEF RemainsNext, Under, GatedPhases
<1>7. CASE StageNotebook(r)
  <2>1. /\ snap' = snap /\ pc[r] = "written" /\ pc'[r] = (IF Whole(r) THEN "ready" ELSE "running")
        /\ kept' = kept /\ over'[s] = IF Decisions THEN KeptLink ELSE over[s]
    BY <1>7 DEF StageNotebook, PutStaged
  <2>2. CASE Whole(r)
    <3>1. Replacing(r, s)'
      BY <2>1, <2>2, <1>a, <1>e DEF Replacing, Rewrites
    <3>2. QED
      BY <2>1, <2>2, <3>1, <1>c DEF RemainsNext, Under, GatedPhases
  <2>3. CASE ~Whole(r)
    <3>1. k \in Home(s).text
      BY <2>1, <2>3, <1>c DEF Under, GatedPhases
    <3>2. Seen(s)' = Home(s)
      <4>1. CASE Decisions
        BY <2>1, <4>1, <1>h DEF Seen, Home
      <4>2. CASE ~Decisions
        <5>1. ReadOf(kept[s], over[s]) = over[s]
          BY <3>1, <4>2, <1>g, ReadIsFile DEF Home
        <5>2. QED
          BY <2>1, <4>2, <5>1 DEF Seen, Home
      <4>3. QED
        BY <4>1, <4>2
    <3>3. QED
      BY <2>1, <2>3, <3>1, <3>2, <1>c DEF RemainsNext, Under, GatedPhases
  <2>4. QED
    BY <2>2, <2>3
<1>10. CASE RestoreStaged(r)
  <2>1. /\ snap' = snap /\ pc[r] = "putback" /\ pc'[r] = "restored"
        /\ kept' = kept /\ over'[s] = IF Decisions THEN snap[r].staged ELSE over[s]
    BY <1>10 DEF RestoreStaged, PutStaged
  <2>2. k \in Before(snap[r]).text /\ Home(s) = snap[r].note
    BY <2>1, <1>c DEF Under, GatedPhases, AllRestorable, Restorable
  <2>3. k \in Seen(s)'.text
    <3>1. CASE Decisions
      <4>1. Seen(s)' = ReadOf(snap[r].note, snap[r].staged)
        BY <2>1, <2>2, <3>1 DEF Seen, Home
      <4>2. QED
        BY <2>2, <3>1, <4>1 DEF Before
    <3>2. CASE ~Decisions
      <4>1. k \in over[s].text
        BY <2>2, <3>2 DEF Before, Home
      <4>2. ReadOf(kept[s], over[s]) = over[s]
        BY <4>1, <1>g, ReadIsFile
      <4>3. QED
        BY <2>1, <3>2, <4>1, <4>2 DEF Seen
    <3>3. QED
      BY <3>1, <3>2
  <2>4. QED
    BY <2>1, <2>3, <1>c DEF RemainsNext, Under, GatedPhases
<1>8. CASE UNCHANGED <<over, kept, snap>> /\ ~TakeSnapshot(r) /\ ~RestoreNotebook(r) /\ ~RestoreStaged(r)
            /\ ~MergeAnswers(r) /\ ~WriteOverlay(r) /\ ~StageNotebook(r) /\ ~HostWrites(r)
  <2>1. pc'[r] \in Under => pc[r] \in Under
    BY <1>8, OtherMoves
  <2>2. ~Whole(r) => pc'[r] \notin {"towrite", "written"}
    <3>1. Serve(r) /\ ~Whole(r) => pc'[r] \notin {"towrite", "written"}
      BY DEF Serve, MakePlan, TakeSnapshot, TryHold, Busy, CannotStart, Launch
    <3>2. Write(r) => pc'[r] \notin {"towrite", "written"}
      BY <1>8 DEF Write, WriteFails, MergeRefuses
    <3>3. Host(r) => pc'[r] \notin {"towrite", "written"}
      BY DEF Host, HostWrites, HostCaptures, HostEmits, HostExits
    <3>4. Land(r) => pc'[r] \notin {"towrite", "written"}
      BY DEF Land, Judge, OneLinePanics, RestoreNotebook, RestoreStaged, RestoreFails, Discard, Settle,
             Finish, FreeGate, Tell
    <3>5. QED
      BY <3>1, <3>2, <3>3, <3>4 DEF RunStep
  <2>3. Replacing(r, s) => Replacing(r, s)'
    <3> SUFFICES ASSUME Replacing(r, s)
                 PROVE  /\ Rewrites(r)
                        /\ pc'[r] \in {"written", "ready", "running", "wrote", "captured", "emitted", "exited",
                                      "refused"}
      BY <1>a, <1>e DEF Replacing
    <3>1. pc[r] # "putback"
      <4>1. Serve(r) \/ Write(r) \/ Host(r) => pc[r] # "putback"
        BY DEF Serve, Write, Host, MakePlan, TakeSnapshot, TryHold, Busy, CannotStart, Launch, WriteOverlay,
               StageNotebook, WriteFails, MergeAnswers, MergeRefuses, HostWrites, HostCaptures, HostEmits, HostExits
      <4>2. Land(r) => pc[r] # "putback"
        BY <1>8, StepsAlone DEF Land, Judge, Discard, Settle, Finish, FreeGate, Tell
      <4>3. QED
        BY <4>1, <4>2 DEF RunStep
    <3>2. Rewrites(r) /\ pc[r] \in {"written", "ready", "running", "wrote", "captured", "emitted", "exited", "refused"}
      BY <3>1 DEF Replacing
    <3>3. ~(IsAnswer(r) /\ req[r].merge)
      BY <3>2 DEF Rewrites, Forced, Whole, IsAnswer, IsFork
    <3>4. CASE Serve(r)
      BY <3>2, <3>3, <3>4 DEF Serve, MakePlan, TakeSnapshot, TryHold, Busy, CannotStart, Launch
    <3>5. CASE Write(r)
      BY <3>2, <3>5, <1>8, StepsAlone DEF Write, MergeRefuses
    <3>6. CASE Host(r)
      BY <3>2, <3>6 DEF Host, HostWrites, HostCaptures, HostEmits, HostExits
    <3>7. CASE Land(r)
      <4>1. Judge(r)
        BY <3>2, <3>7, <1>8, StepsAlone DEF Land, Discard, Settle, Finish, FreeGate, Tell
      <4>2. verdict'[r] # "accepted"
        BY <3>2, <1>a
      <4>3. QED
        BY <4>1, <4>2, <3>2 DEF Judge
    <3>8. QED
      BY <3>2, <3>4, <3>5, <3>6, <3>7 DEF RunStep
  <2>4. QED
    BY <1>8, <2>1, <2>2, <2>3, <1>c, <1>f DEF RemainsNext
<1>9. QED
  <2>1. TryHold(r) \/ HostCaptures(r) \/ HostEmits(r) \/ Discard(r) => UNCHANGED <<over, kept, snap>>
    BY DEF TryHold, HostCaptures, HostEmits, Discard
  <2>2. QED
    BY <1>1, <1>2, <1>3, <1>4, <1>5, <1>6, <1>7, <1>8, <1>10, <2>1, OrTouches DEF Touches

\* How a run comes to be saved: its judging is behind it, and it lands.
LEMMA LandsItself ==
    ASSUME OneByOne, TypeOK, Phased, Alone, NEW r \in Runs, RunStep(r), Saved(r)'
    PROVE  /\ req' = req /\ Writes(r) /\ verdict' = verdict /\ verdict[r] = "accepted"
           /\ Settle(r) \/ ((Finish(r) \/ FreeGate(r) \/ Tell(r)) /\ Saved(r))
<1>a. req' = req /\ Writes(r) /\ verdict'[r] = "accepted" /\ pc'[r] \in {"settled", "closing", "freed", "done"}
  BY OthersKeep DEF OthersKept, Saved, Writes
<1> USE Pieces DEF Goto, Answered, treeVars, buildVars
<1>1. verdict[r] = "accepted"
  <2> SUFFICES ASSUME verdict[r] # "accepted" PROVE FALSE
    OBVIOUS
  <2>1. Serve(r) => verdict'[r] # "accepted"
    BY <1>a DEF Serve, MakePlan, TakeSnapshot, TryHold, Busy, CannotStart, Launch, Writes
  <2>2. Write(r) => verdict'[r] # "accepted"
    BY DEF Write, WriteOverlay, StageNotebook, WriteFails, MergeAnswers, MergeRefuses
  <2>3. Host(r) => verdict'[r] # "accepted"
    BY DEF Host, HostWrites, HostCaptures, HostEmits, HostExits
  <2>4. Land(r) => verdict'[r] # "accepted"
    BY <1>a DEF Land, Judge, OneLinePanics, RestoreNotebook, RestoreStaged, RestoreFails, Discard, Settle,
                Finish, FreeGate, Tell
  <2>5. QED
    BY <1>a, <2>1, <2>2, <2>3, <2>4 DEF RunStep
<1>2. verdict' = verdict /\ pc[r] \in LandedPhases
  BY <1>1, AcceptedStays DEF Phased, PhaseSays
<1>3. Settle(r) \/ Finish(r) \/ FreeGate(r) \/ Tell(r)
  <2>1. ~Serve(r) /\ ~Write(r) /\ ~Host(r)
    BY <1>2 DEF LandedPhases, Serve, Write, Host, MakePlan, TakeSnapshot, TryHold, Busy, CannotStart, Launch,
                WriteOverlay, StageNotebook, WriteFails, MergeAnswers, MergeRefuses, HostWrites,
                HostCaptures, HostEmits, HostExits
  <2>2. ~Judge(r) /\ ~RestoreNotebook(r) /\ ~RestoreStaged(r) /\ ~Discard(r)
    BY <1>2 DEF LandedPhases, Judge, RestoreNotebook, RestoreStaged, Discard
  <2>3. QED
    BY <2>1, <2>2, StepsAlone DEF RunStep, Land
<1>4. Finish(r) \/ FreeGate(r) \/ Tell(r) => pc[r] \in {"settled", "closing", "freed"}
  BY DEF Finish, FreeGate, Tell
<1>5. Superseded(r) => Superseded(r)'
  BY <1>a, <1>2 DEF Superseded, Rewrites, Forced, IsFork, Whole, IsAnswer
<1>6. QED
  BY <1>a, <1>1, <1>2, <1>3, <1>4, <1>5 DEF Saved

\* The run's own record, once it is accepted and landed.
LEMMA RemainsItself ==
    ASSUME OneByOne, TypeOK, Phased, Forms, Alone, Agreeing, AllRemain, NEW r \in Runs, RunStep(r), Saved(r)'
    PROVE  Remains(r)'
<1>a. OthersKept(r) /\ \A q \in Runs \ {r} : pc[q] \in {"new", "done"}
  BY OthersKeep, StepsAlone
<1>b. /\ req' = req /\ Writes(r) /\ Told(r)
      /\ Settle(r) \/ ((Finish(r) \/ FreeGate(r) \/ Tell(r)) /\ Saved(r))
  BY LandsItself DEF Agreeing
<1>c. PICK s \in Streams : s = req[r].stream
  BY Pieces
<1> USE Pieces DEF Goto, treeVars, buildVars
<1>f. UNCHANGED <<over, kept>> => Seen(s)' = Seen(s)
  BY DEF Seen
<1>1. r \in Seen(s)'.text
  <2>1. CASE Settle(r)
    <3>1. pc[r] = "accepted"
      BY <2>1 DEF Settle
    <3>2. IF Decisions THEN LayStage(TRUE) ELSE UNCHANGED <<over, kept>>
      BY <2>1, <1>b DEF Settle, OneByOne
    <3>3. CASE IsFork(r)
      <4>1. ForkWrote(r, s)
        BY <1>b, <1>c, <3>1, <3>3 DEF Told
      <4>a. \A t : ReadOf(t, KeptLink) = t /\ \A u : ReadOf(u, File(t)) = File(t)
        BY DEF ReadOf, KeptLink, File
      <4>2. Seen(s) = File({r})
        BY <4>1, <4>a DEF ForkWrote, Seen
      <4>3. Decisions => Seen(s)' = File({r})
        BY <3>2, <4>1, LaidAdopts
      <4>4. Seen(s)' = File({r})
        BY <3>2, <4>2, <4>3, <1>f
      <4>5. QED
        BY <4>4 DEF File
    <3>4. CASE ~IsFork(r)
      <4>1. IsAnswer(r)
        BY <1>b, <3>4 DEF Writes, IsFork, IsAnswer
      <4>2. r \in Home(s).text /\ Home(s).kind = "file" /\ (Decisions => over[s] = KeptLink)
        BY <1>b, <1>c, <3>1, <4>1 DEF Told, InPlace, Kept
      <4>3. Seen(s) = Home(s)
        BY <4>2, DecisionsAssumption DEF Seen, ReadOf, Home, KeptLink
      <4>4. Agrees(s)
        <5>1. \A q \in Runs : ~Unsettled(q)
          BY <1>a, <3>1, <3>4 DEF Unsettled
        <5>2. QED
          BY <5>1 DEF Agreeing
      <4>5. Seen(s)' = Seen(s)
        <5>1. CASE LayStage(TRUE)
          <6>1. Seen(s)' = Seen(s) \/ Seen(s) = Absent
            BY <5>1, <4>4, LaidAgreed
          <6>2. QED
            BY <4>2, <4>3, <6>1 DEF Absent
        <5>2. CASE UNCHANGED <<over, kept>>
          BY <5>2, <1>f
        <5>3. QED
          BY <3>2, <5>1, <5>2
      <4>6. QED
        BY <4>2, <4>3, <4>5
    <3>5. QED
      BY <3>3, <3>4
  <2>2. CASE Finish(r) \/ FreeGate(r) \/ Tell(r)
    <3>1. pc[r] \in {"settled", "closing", "freed"} /\ UNCHANGED <<over, kept>>
      BY <2>2 DEF Finish, FreeGate, Tell
    <3>2. Saved(r)
      BY <2>2, <1>b DEF Settle, Finish, FreeGate, Tell
    <3>3. \A h \in Runs : ~Replacing(h, s)
      BY <1>a, <3>1 DEF Replacing
    <3>4. r \in Seen(s).text
      BY <3>2, <3>3, <1>c DEF AllRemain, Remains
    <3>5. QED
      BY <3>1, <3>4, <1>f
  <2>3. QED
    BY <1>b, <2>1, <2>2
<1>2. \A h \in Runs \ {r} : pc'[h] \notin Under
  BY <1>a DEF OthersKept, Under, GatedPhases
<1>3. QED
  BY <1>b, <1>c, <1>1, <1>2 DEF Remains

\* A request that arrives finds who is saved as they were.
LEMMA SavedArrives ==
    ASSUME OneByOne, TypeOK, Phased, Alone, NEW q \in Offers, NEW w \in Worths, Receive(q, w),
           NEW k \in Runs, Saved(k)'
    PROVE  /\ Saved(k) /\ req'[k] = req[k] /\ pc'[k] = pc[k]
           /\ \A h \in Runs : pc[h] \in {"new", "done"} /\ pc'[h] \in {"new", "staged", "done"}
<1>1. PICK m \in Runs :
            /\ m = minted + 1 /\ pc[m] = "new" /\ minted' = m /\ handler' = m
            /\ pc' = [pc EXCEPT ![m] = "staged"] /\ req' = [req EXCEPT ![m] = q]
            /\ worth' = [worth EXCEPT ![m] = w]
            /\ ~q.streamed
            /\ \A r \in Runs : pc[r] \in {"new", "done"}
            /\ \A r \in Runs : r > m => pc[r] = "new"
  BY ArrivesAlone
<1>2. verdict' = verdict
  BY DEF Receive
<1>3. k # m /\ req'[k] = req[k] /\ pc'[k] = pc[k]
  BY <1>1, Pieces DEF Saved
<1>4. Superseded(k) => Superseded(k)'
  <2>1. \A h \in Runs : verdict[h] = "accepted" => h # m
    BY <1>1 DEF Phased, PhaseSays, LandedPhases
  <2>2. \A h \in Runs \ {m} : req'[h] = req[h]
    BY <1>1, Pieces
  <2>3. QED
    BY <1>2, <1>3, <2>1, <2>2 DEF Superseded, Rewrites, Forced, IsFork, Whole, IsAnswer
<1>5. Saved(k)
  BY <1>2, <1>3, <1>4 DEF Saved, Writes
<1>6. QED
  BY <1>1, <1>3, <1>5, Pieces

LEMMA NextRemain ==
    ASSUME OneByOne, TypeOK, Phased, GateExact, AllRestorable, Forms, Alone, Agreeing, AllRemain, [Next]_vars
    PROVE  AllRemain'
<1>1. ASSUME NEW q \in Offers, NEW w \in Worths, Receive(q, w), NEW k \in Runs, Saved(k)'
      PROVE  Remains(k)'
  <2>1. /\ Saved(k) /\ req'[k] = req[k]
        /\ \A h \in Runs : pc[h] \in {"new", "done"} /\ pc'[h] \in {"new", "staged", "done"}
    BY <1>1, SavedArrives
  <2>2. PICK s \in Streams : s = req[k].stream
    BY Pieces
  <2>3. k \in Seen(s).text
    BY <2>1, <2>2 DEF AllRemain, Remains, Replacing
  <2>4. Agrees(s) /\ LayStage(gate = Free)
    BY <1>1, <2>1 DEF Agreeing, Unsettled, Receive
  <2>5. Seen(s)' = Seen(s)
    <3>1. Seen(s)' = Seen(s) \/ Seen(s) = Absent
      BY <2>4, LaidAgreed
    <3>2. QED
      BY <2>3, <3>1 DEF Absent
  <2>6. QED
    BY <2>1, <2>2, <2>3, <2>5 DEF Remains, Under, GatedPhases
<1>2. ASSUME NEW r \in Runs, RunStep(r), NEW k \in Runs, Saved(k)'
      PROVE  Remains(k)'
  <2>1. CASE k = r
    BY <1>2, <2>1, RemainsItself
  <2>2. CASE k # r /\ (~Writes(r) \/ req[r].stream # req[k].stream)
    BY <1>2, <2>2, RemainsAway
  <2>3. CASE k # r /\ Writes(r) /\ req[r].stream = req[k].stream
    <3>1. PICK s \in Streams : s = req[r].stream
      BY Pieces
    <3>2. RemainsNext(k, r, s)
      BY ONLY <1>2, <2>3, <3>1, RemainsOwn, OneByOne, TypeOK, Phased, GateExact, Forms, AllRestorable, Alone,
              Agreeing, AllRemain
    <3>3. req' = req /\ OthersKept(r) /\ \A q \in Runs \ {r} : pc[q] \in {"new", "done"}
      BY <1>2, OthersKeep, StepsAlone DEF OthersKept
    <3>4. \A h \in Runs \ {r} : pc'[h] \notin Under
      BY <3>3 DEF OthersKept, Under, GatedPhases
    <3>5. Whole(r)' <=> Whole(r)
      BY <3>3 DEF Whole, IsAnswer
    <3>6. QED
      BY <2>3, <3>1, <3>2, <3>3, <3>4, <3>5 DEF Remains, RemainsNext
  <2>4. QED
    BY <2>1, <2>2, <2>3
<1>3. ASSUME UNCHANGED vars, NEW k \in Runs
      PROVE  Remains(k)'
  BY <1>3 DEF vars, runVars, treeVars, AllRemain, Remains, Saved, Superseded, Replacing, Rewrites, Forced,
              Whole, IsAnswer, IsFork, Writes, Home, Seen, Before
<1>4. QED
  <2>1. ASSUME NEW k \in Runs, ~Saved(k)' PROVE Remains(k)'
    BY <2>1 DEF Remains
  <2>2. QED
    BY <1>1, <1>2, <1>3, <2>1 DEF Next, Arrive, AllRemain

LEMMA AlwaysRemains == ASSUME OneByOne PROVE Spec => []AllRemain
<1>1. Init => AllRemain
  BY DEF Init, AllRemain, Remains, Saved
<1>2. QED
  BY <1>1, NextRemain, AlwaysGated, AlwaysRestorable, AlwaysAgreeing, AlwaysAlone, PTL DEF Spec

\* gate.rs:11: with the handler held to the end, a record a desk was told is
\* saved is what its stream's hosts read until a later run rewrites the module.
THEOREM SavedIsKept == ASSUME OneByOne PROVE Spec => []SavedStays
<1>1. TypeOK /\ GateExact /\ AllRemain => SavedStays
  <2> SUFFICES ASSUME TypeOK, GateExact, AllRemain, NEW r \in Runs, Writes(r), pc[r] = "done",
                      verdict[r] = "accepted", gate = Free, ~Superseded(r)
               PROVE  r \in Seen(req[r].stream).text
    BY DEF SavedStays
  <2>1. Saved(r)
    BY DEF Saved
  <2>2. \A h \in Runs : ~(Writes(h) /\ pc[h] \in GatedPhases)
    BY Pieces DEF GateExact
  <2>3. \A h \in Runs, s \in Streams : ~Replacing(h, s)
    BY <2>2 DEF Replacing, Rewrites, Forced, IsFork, Whole, IsAnswer, Writes, GatedPhases
  <2>4. QED
    BY <2>1, <2>3, Pieces DEF AllRemain, Remains
<1>2. QED
  BY <1>1, AlwaysGated, AlwaysRemains, PTL

-----------------------------------------------------------------------------
(* What was saved is in the latest build.                                    *)

\* The host of a build has read the stage, and has not failed since.
Captured == {"captured", "emitted", "accepted", "settled"}
Capturing(h) == pc[h] \in Captured \/ (pc[h] = "exited" /\ exit[h] = 0)

\* A capture that was not cut short is a whole directory.
Completed(r) == BuildsDir(r) /\ Capturing(r) /\ pc[r] # "captured" => built[r].whole

Current(k) ==
    Saved(k) /\ IsAnswer(k) =>
      LET s == req[k].stream IN
      /\ pc[k] # "settled" => latest \in Runs /\ k \in built[latest].text[s].text
      /\ \A h \in Runs \ {k} : BuildsDir(h) /\ Capturing(h) =>
            k \in built[h].text[s].text \/ (Whole(h) /\ req[h].stream = s)

AllCurrent == (\A r \in Runs : Completed(r)) /\ \A k \in Runs : Current(k)

\* A build is read once, and goes on as it was read.
LEMMA CaptureGoesOn ==
    ASSUME OneByOne, TypeOK, Phased, Alone, NEW r \in Runs, RunStep(r), BuildsDir(r), Capturing(r)'
    PROVE  \/ HostCaptures(r) /\ pc'[r] = "captured"
           \/ /\ Capturing(r)
              /\ built'[r].text = built[r].text
              /\ built[r].whole => built'[r].whole
              /\ pc[r] = "captured" /\ pc'[r] # "captured" => built'[r].whole
<1> USE Pieces DEF Goto, Answered, treeVars, buildVars, Capturing, Captured
<1>a. ~IsFork(r) /\ req[r].verb # "diff" /\ PhaseSays(r)
  BY DEF BuildsDir, IsFork, Phased
<1>1. ~Serve(r) /\ ~Write(r)
  BY DEF Serve, Write, MakePlan, TakeSnapshot, TryHold, Busy, CannotStart, Launch, WriteOverlay,
         StageNotebook, WriteFails, MergeAnswers, MergeRefuses
<1>2. CASE HostCaptures(r)
  BY <1>2 DEF HostCaptures
<1>3. CASE HostEmits(r)
  <2>1. pc[r] = "captured" /\ built' = [built EXCEPT ![r].whole = TRUE]
    BY <1>3 DEF HostEmits
  <2>2. QED
    BY <2>1
<1>4. CASE HostExits(r)
  <2>1. pc'[r] = "exited" /\ built' = built
    BY <1>4 DEF HostExits
  <2>2. exit'[r] = 0
    BY <2>1
  <2>3. pc[r] = "emitted"
    BY <1>4, <1>a, <2>2 DEF HostExits, PhaseSays
  <2>4. QED
    BY <2>1, <2>3
<1>5. CASE Judge(r)
  <2>1. pc[r] = "exited" /\ exit[r] = 0 /\ built' = built
    BY <1>5 DEF Judge, Refuses
  <2>2. QED
    BY <2>1
<1>6. CASE Settle(r)
  BY <1>6 DEF Settle
<1>7. ~HostWrites(r)
  BY <1>a DEF HostWrites
<1>8. Land(r) => Judge(r) \/ Settle(r)
  BY DEF Land, OneLinePanics, RestoreNotebook, RestoreStaged, RestoreFails, Discard, Finish, FreeGate, Tell
<1>9. QED
  BY <1>1, <1>2, <1>3, <1>4, <1>5, <1>6, <1>7, <1>8 DEF RunStep, Host

\* The latest build changes only as a run that ends makes its own the latest.
LEMMA LatestMoves ==
    ASSUME OneByOne, TypeOK, Phased, BuildsStand, Alone, AllCurrent, NEW r \in Runs, RunStep(r)
    PROVE  \/ latest' = latest /\ (latest # NoBuild => built'[latest] = built[latest])
           \/ Finish(r) /\ BuildsDir(r) /\ latest' = r /\ built' = built
<1> USE Pieces DEF Goto, Answered, treeVars, buildVars
<1>1. CASE Finish(r)
  BY <1>1 DEF Finish, OneByOne
<1>2. CASE pc[r] \in {"running", "captured", "refused", "restored"} /\ latest' = latest
  <2>1. latest # r
    BY <1>2 DEF BuildsStand, Stands, ClosedPhases
  <2>2. \A b \in Builds \ {r} : built'[b] = built[b]
    BY OthersKeep DEF OthersKept
  <2>3. latest # NoBuild => latest \in Builds
    BY DEF TypeOK
  <2>4. QED
    BY <1>2, <2>1, <2>2, <2>3
<1>3. CASE UNCHANGED <<built, latest>>
  BY <1>3
<1>4. Serve(r) => UNCHANGED <<built, latest>>
  BY DEF Serve, MakePlan, TakeSnapshot, TryHold, Busy, CannotStart, Launch
<1>5. Write(r) => UNCHANGED <<built, latest>>
  BY DEF Write, WriteOverlay, StageNotebook, WriteFails, MergeAnswers, MergeRefuses
<1>6. Host(r) => UNCHANGED <<built, latest>> \/ (pc[r] \in {"running", "captured"} /\ latest' = latest)
  BY DEF Host, HostWrites, HostCaptures, HostEmits, HostExits
<1>7. Discard(r) => pc[r] \in {"refused", "restored"} /\ latest' = latest
  BY DEF Discard, Alone
<1>8. Land(r) => UNCHANGED <<built, latest>> \/ Discard(r) \/ Finish(r)
  BY DEF Land, Judge, OneLinePanics, RestoreNotebook, RestoreStaged, RestoreFails, Settle, FreeGate, Tell
<1>9. QED
  BY <1>1, <1>2, <1>3, <1>4, <1>5, <1>6, <1>7, <1>8 DEF RunStep

LEMMA CompletedStep ==
    ASSUME OneByOne, TypeOK, Phased, Alone, AllCurrent, NEW r \in Runs, RunStep(r)
    PROVE  \A q \in Runs : Completed(q)'
<1>1. OthersKept(r) /\ req' = req
  BY OthersKeep DEF OthersKept
<1>2. Completed(r)'
  <2> SUFFICES ASSUME BuildsDir(r), Capturing(r)', pc'[r] # "captured" PROVE built'[r].whole
    BY <1>1 DEF Completed, BuildsDir
  <2>1. /\ Capturing(r)
        /\ built[r].whole => built'[r].whole
        /\ pc[r] = "captured" /\ pc'[r] # "captured" => built'[r].whole
    BY CaptureGoesOn
  <2>2. QED
    BY <2>1 DEF AllCurrent, Completed
<1>3. ASSUME NEW q \in Runs \ {r} PROVE Completed(q)'
  <2>1. pc'[q] = pc[q] /\ exit'[q] = exit[q] /\ built'[q] = built[q]
    BY <1>1, Pieces DEF OthersKept
  <2>2. QED
    BY <1>1, <2>1 DEF AllCurrent, Completed, Capturing, BuildsDir
<1>4. QED
  BY <1>2, <1>3

\* A step of another run than the saved one.
LEMMA CurrentAway ==
    ASSUME OneByOne, TypeOK, Phased, BuildsStand, Forms, Alone, Agreeing, AllRemain, AllCurrent,
           NEW r \in Runs, RunStep(r), NEW k \in Runs \ {r}, Saved(k)', IsAnswer(k)
    PROVE  Current(k)'
<1>a. /\ Saved(k) /\ pc[k] = "done" /\ req' = req
      /\ ~(Whole(r) /\ req[r].stream = req[k].stream /\ verdict'[r] = "accepted")
  BY SavedBefore DEF Rewrites
<1>b. OthersKept(r) /\ \A q \in Runs \ {r} : pc[q] \in {"new", "done"}
  BY OthersKeep, StepsAlone
<1>c. PICK s \in Streams : s = req[k].stream
  BY Pieces
<1>d. /\ latest \in Runs /\ k \in built[latest].text[s].text
      /\ BuildsDir(r) /\ Capturing(r) => k \in built[r].text[s].text \/ (Whole(r) /\ req[r].stream = s)
  BY <1>a, <1>c DEF AllCurrent, Current
<1>1. latest' \in Runs /\ k \in built'[latest'].text[s].text
  <2>1. CASE latest' = latest /\ (latest # NoBuild => built'[latest] = built[latest])
    <3>1. latest # NoBuild
      BY <1>d, Pieces
    <3>2. QED
      BY <2>1, <3>1, <1>d
  <2>2. CASE Finish(r) /\ BuildsDir(r) /\ latest' = r /\ built' = built
    <3>1. pc[r] = "settled" /\ verdict' = verdict
      BY <2>2 DEF Finish
    <3>2. verdict[r] = "accepted" /\ Capturing(r)
      BY <3>1 DEF Phased, PhaseSays, Capturing, Captured
    <3>3. QED
      BY <2>2, <3>1, <3>2, <1>a, <1>c, <1>d
  <2>3. QED
    BY <2>1, <2>2, LatestMoves
<1>2. ASSUME BuildsDir(r), Capturing(r)'
      PROVE  k \in built'[r].text[s].text \/ (Whole(r) /\ req[r].stream = s)
  <2>1. CASE HostCaptures(r)
    <3>1. pc[r] = "running" /\ built'[r].text[s] = Seen(s)
      BY <2>1, Pieces DEF HostCaptures
    <3>2. CASE \E h \in Runs : Replacing(h, s)
      <4>1. Rewrites(r) /\ req[r].stream = s
        BY <3>1, <3>2, <1>b DEF Replacing
      <4>2. QED
        BY <4>1, <1>2 DEF Rewrites, Forced, IsFork, BuildsDir
    <3>3. CASE k \in Seen(s).text
      BY <3>1, <3>3
    <3>4. QED
      BY <3>2, <3>3, <1>a, <1>c DEF AllRemain, Remains
  <2>2. CASE Capturing(r) /\ built'[r].text = built[r].text
    BY <1>2, <1>d, <2>2
  <2>3. QED
    BY <1>2, <2>1, <2>2, CaptureGoesOn
<1>3. ASSUME NEW h \in Runs \ {k, r} PROVE ~Capturing(h)'
  BY <1>b DEF OthersKept, Capturing, Captured
<1>4. QED
  BY <1>a, <1>c, <1>1, <1>2, <1>3 DEF Current, BuildsDir, Whole, IsAnswer

\* The saved run's own step.
LEMMA CurrentItself ==
    ASSUME OneByOne, TypeOK, Phased, TextFollowed, Alone, AllCurrent,
           NEW r \in Runs, RunStep(r), Saved(r)', IsAnswer(r)
    PROVE  Current(r)'
<1>a. /\ req' = req /\ verdict[r] = "accepted"
      /\ Settle(r) \/ ((Finish(r) \/ FreeGate(r) \/ Tell(r)) /\ Saved(r))
  BY LandsItself
<1>b. OthersKept(r) /\ \A q \in Runs \ {r} : pc[q] \in {"new", "done"}
  BY OthersKeep, StepsAlone
<1>c. BuildsDir(r) /\ TextSays(r)
  BY DEF BuildsDir, IsAnswer, TextFollowed
<1> USE Pieces DEF Goto, treeVars, buildVars
<1>1. pc'[r] # "settled" => latest' \in Runs /\ r \in built'[latest'].text[req[r].stream].text
  <2>1. CASE Settle(r)
    BY <2>1 DEF Settle
  <2>2. CASE Finish(r)
    <3>1. pc[r] = "settled"
      BY <2>2 DEF Finish
    <3>2. built[r].whole
      BY <3>1, <1>c DEF AllCurrent, Completed, Capturing, Captured
    <3>3. latest' = r /\ built' = built
      BY <2>2, <3>2, <1>c DEF Finish, OneByOne
    <3>4. r \in built[r].text[req[r].stream].text
      BY <1>a, <1>c DEF TextSays
    <3>5. QED
      BY <3>3, <3>4
  <2>3. CASE (FreeGate(r) \/ Tell(r)) /\ Saved(r)
    <3>1. pc[r] # "settled" /\ UNCHANGED <<built, latest>>
      BY <2>3 DEF FreeGate, Tell
    <3>2. QED
      BY <2>3, <3>1 DEF AllCurrent, Current
  <2>4. QED
    BY <1>a, <2>1, <2>2, <2>3
<1>2. ASSUME NEW h \in Runs \ {r} PROVE ~Capturing(h)'
  BY <1>b DEF OthersKept, Capturing, Captured
<1>3. QED
  BY <1>a, <1>1, <1>2 DEF Current

LEMMA NextCurrent ==
    ASSUME OneByOne, TypeOK, Phased, BuildsStand, TextFollowed, Forms, Alone, Agreeing, AllRemain,
           AllCurrent, [Next]_vars
    PROVE  AllCurrent'
<1>1. ASSUME NEW q \in Offers, NEW w \in Worths, Receive(q, w)
      PROVE  AllCurrent'
  <2>1. PICK m \in Runs :
              /\ m = minted + 1 /\ pc[m] = "new" /\ minted' = m /\ handler' = m
              /\ pc' = [pc EXCEPT ![m] = "staged"] /\ req' = [req EXCEPT ![m] = q]
              /\ worth' = [worth EXCEPT ![m] = w]
              /\ ~q.streamed
              /\ \A r \in Runs : pc[r] \in {"new", "done"}
              /\ \A r \in Runs : r > m => pc[r] = "new"
    BY <1>1, ArrivesAlone
  <2>2. ASSUME NEW h \in Runs PROVE ~Capturing(h)'
    BY <2>1, Pieces DEF Capturing, Captured
  <2>3. UNCHANGED <<built, latest>>
    BY <1>1 DEF Receive, buildVars
  <2>4. ASSUME NEW k \in Runs, Saved(k)' PROVE Current(k)'
    <3>1. Saved(k) /\ req'[k] = req[k] /\ pc'[k] = pc[k]
      BY <1>1, <2>4, SavedArrives
    <3>2. QED
      BY <2>2, <2>3, <3>1 DEF AllCurrent, Current, IsAnswer
  <2>5. QED
    BY <2>2, <2>4 DEF AllCurrent, Current, Completed
<1>2. ASSUME NEW r \in Runs, RunStep(r)
      PROVE  AllCurrent'
  <2>1. req' = req
    BY <1>2, OthersKeep DEF OthersKept
  <2>2. ASSUME NEW k \in Runs, Saved(k)', IsAnswer(k) PROVE Current(k)'
    BY <1>2, <2>2, CurrentAway, CurrentItself
  <2>3. QED
    BY <1>2, <2>1, <2>2, CompletedStep DEF AllCurrent, Current, IsAnswer
<1>3. CASE UNCHANGED vars
  BY <1>3 DEF vars, runVars, buildVars, AllCurrent, Current, Completed, Capturing, Saved, Superseded, Rewrites,
              Forced, Whole, IsAnswer, IsFork, Writes, BuildsDir
<1>4. QED
  BY <1>1, <1>2, <1>3 DEF Next, Arrive

LEMMA AlwaysBuilt == Spec => []BuildsStand
BY InitTypes, InitPhased, InitBuilds, NextTypes, NextPhased, NextBuilds, PTL DEF Spec

\* gate.rs:11: ... and in the latest build, whichever run made it.
THEOREM SavedIsInTheLatest == ASSUME OneByOne PROVE Spec => []SavedIsCurrent
<1>1. Init => AllCurrent
  BY DEF Init, AllCurrent, Current, Completed, Saved, Capturing, Captured
<1>2. AllCurrent => SavedIsCurrent
  BY DEF AllCurrent, Current, SavedIsCurrent, Saved, IsAnswer, Writes
<1>3. QED
  BY <1>1, <1>2, NextCurrent, AlwaysFollowed, AlwaysBuilt, AlwaysAgreeing, AlwaysAlone, AlwaysRemains, PTL
     DEF Spec

-----------------------------------------------------------------------------
(* An answer that lands is weighed against the latest build.                 *)

\* From the planning of a run to its landing.
Weighing == {"planned", "snapped", "merging", "towrite", "written", "ready", "running", "wrote", "captured",
             "emitted", "exited", "accepted", "settled"}

Weighed(r) ==
    /\ pc[r] \in Weighing /\ latest # NoBuild => prev[r] = latest
    /\ IsAnswer(r) /\ pc[r] \in {"accepted", "settled"} /\ Fails(r, req[r].stream) =>
          prev[r] # NoBuild /\ Fails(prev[r], req[r].stream)

AllWeighed == \A r \in Runs : Weighed(r)

\* The build a run is weighed against is the latest from its planning on.
LEMMA WeighedStep ==
    ASSUME OneByOne, TypeOK, BuildsStand, Alone, NEW r \in Runs, RunStep(r), pc'[r] \in Weighing
    PROVE  \/ MakePlan(r) /\ pc'[r] = "planned" /\ latest' = latest /\ (latest # NoBuild => prev'[r] = latest)
           \/ pc[r] \in Weighing /\ prev' = prev /\ latest' = latest
<1> USE Pieces DEF Goto, Answered, treeVars, buildVars, Weighing
<1>1. CASE MakePlan(r)
  <2>1. PICK b \in LatestBuild : prev' = [prev EXCEPT ![r] = b]
    BY <1>1 DEF MakePlan
  <2>2. prev'[r] = b
    BY <2>1 DEF TypeOK
  <2>3. latest # NoBuild => LatestBuild = {latest}
    BY DEF LatestBuild, BuildsStand, Stands
  <2>4. pc'[r] = "planned" /\ latest' = latest
    BY <1>1 DEF MakePlan
  <2>5. QED
    BY <1>1, <2>1, <2>2, <2>3, <2>4
<1>2. TakeSnapshot(r) \/ TryHold(r) \/ Busy(r) \/ Launch(r) => pc[r] \in Weighing /\ prev' = prev /\ latest' = latest
  BY DEF TakeSnapshot, TryHold, Busy, Launch
<1>3. Write(r) => pc[r] \in Weighing /\ prev' = prev /\ latest' = latest
  BY DEF Write, WriteOverlay, StageNotebook, WriteFails, MergeAnswers, MergeRefuses
<1>4. Host(r) => pc[r] \in Weighing /\ prev' = prev /\ latest' = latest
  BY DEF Host, HostWrites, HostCaptures, HostEmits, HostExits
<1>5. Land(r) => pc[r] \in Weighing /\ prev' = prev /\ latest' = latest
  BY DEF Land, Judge, OneLinePanics, RestoreNotebook, RestoreStaged, RestoreFails, Discard, Settle, Finish,
         FreeGate, Tell
<1>6. QED
  BY <1>1, <1>2, <1>3, <1>4, <1>5, StepsAlone DEF RunStep, Serve

\* What is accepted is no worse than what it was weighed against.
LEMMA JudgedStep ==
    ASSUME OneByOne, TypeOK, Alone, NEW r \in Runs, RunStep(r), Weighed(r), IsAnswer(r),
           pc'[r] \in {"accepted", "settled"}, Fails(r, req[r].stream)'
    PROVE  prev'[r] # NoBuild /\ Fails(prev[r], req[r].stream)' /\ prev' = prev
<1> USE Pieces DEF Goto, Answered, treeVars, buildVars
<1>1. Judge(r) \/ Settle(r)
  <2>1. ~Serve(r) /\ ~Write(r) /\ ~Host(r)
    BY DEF Serve, Write, Host, MakePlan, TakeSnapshot, TryHold, Busy, CannotStart, Launch, WriteOverlay,
           StageNotebook, WriteFails, MergeAnswers, MergeRefuses, HostWrites, HostCaptures, HostEmits, HostExits
  <2>2. Land(r) => Judge(r) \/ Settle(r)
    BY DEF Land, OneLinePanics, RestoreNotebook, RestoreStaged, RestoreFails, Discard, Finish, FreeGate, Tell
  <2>3. QED
    BY <2>1, <2>2 DEF RunStep
<1>2. req' = req /\ worth' = worth /\ built' = built /\ prev' = prev
  BY <1>1 DEF Judge, Settle
<1>3. Fails(r, req[r].stream)
  BY <1>2 DEF Fails
<1>4. prev[r] # NoBuild /\ Fails(prev[r], req[r].stream)
  <2>1. CASE Judge(r)
    <3>1. ~Refuses(r)
      BY <2>1 DEF Judge
    <3>2. QED
      BY <3>1, <1>3 DEF Refuses
  <2>2. CASE Settle(r)
    BY <2>2, <1>3 DEF Settle, Weighed
  <2>3. QED
    BY <1>1, <2>1, <2>2
<1>5. QED
  BY <1>2, <1>4 DEF Fails

LEMMA NextWeighed ==
    ASSUME OneByOne, TypeOK, Phased, BuildsStand, Alone, AllWeighed, [Next]_vars
    PROVE  AllWeighed'
<1>1. ASSUME NEW q \in Offers, NEW w \in Worths, Receive(q, w)
      PROVE  AllWeighed'
  <2>1. PICK m \in Runs :
              /\ m = minted + 1 /\ pc[m] = "new" /\ minted' = m /\ handler' = m
              /\ pc' = [pc EXCEPT ![m] = "staged"] /\ req' = [req EXCEPT ![m] = q]
              /\ worth' = [worth EXCEPT ![m] = w]
              /\ ~q.streamed
              /\ \A r \in Runs : pc[r] \in {"new", "done"}
              /\ \A r \in Runs : r > m => pc[r] = "new"
    BY <1>1, ArrivesAlone
  <2>2. \A r \in Runs : pc'[r] \in {"new", "staged", "done"}
    BY <2>1, Pieces
  <2>3. QED
    BY <2>2 DEF AllWeighed, Weighed, Weighing
<1>2. ASSUME NEW r \in Runs, RunStep(r)
      PROVE  AllWeighed'
  <2>1. OthersKept(r) /\ \A q \in Runs \ {r} : pc[q] \in {"new", "done"}
    BY <1>2, OthersKeep, StepsAlone
  <2>2. \A q \in Runs \ {r} : Weighed(q)'
    BY <2>1 DEF OthersKept, Weighed, Weighing
  <2>3. pc'[r] \in Weighing /\ latest' # NoBuild => prev'[r] = latest'
    BY <1>2, WeighedStep DEF AllWeighed, Weighed
  <2>4. req' = req /\ (IsAnswer(r)' <=> IsAnswer(r))
    BY <2>1 DEF OthersKept, IsAnswer
  <2>5. IsAnswer(r) /\ pc'[r] \in {"accepted", "settled"} /\ Fails(r, req[r].stream)'
          => prev'[r] # NoBuild /\ Fails(prev[r], req[r].stream)'
    BY <1>2, JudgedStep DEF AllWeighed
  <2>6. QED
    BY <2>2, <2>3, <2>4, <2>5 DEF AllWeighed, Weighed
<1>3. CASE UNCHANGED vars
  BY <1>3 DEF vars, runVars, buildVars, AllWeighed, Weighed, Fails, IsAnswer
<1>4. QED
  BY <1>1, <1>2, <1>3 DEF Next, Arrive

\* outcome.rs:190: with the handler held to the end, an answer that becomes the
\* latest build never turns its stream from ok to not ok.
THEOREM NothingGetsWorse == ASSUME OneByOne PROVE Spec => NeverWorse
<1>1. Init => AllWeighed
  BY DEF Init, AllWeighed, Weighed, Weighing
<1>2. ASSUME TypeOK, AllWeighed, [Next]_vars, NEW r \in Runs, IsAnswer(r), latest' = r, latest # r,
             latest # NoBuild, Fails(r, req[r].stream)
      PROVE  Fails(latest, req[r].stream)
  <2>1. ~(UNCHANGED vars) /\ \A q \in Offers, w \in Worths : ~Receive(q, w)
    BY <1>2 DEF vars, buildVars, Receive
  <2>2. PICK q \in Runs : RunStep(q)
    BY <1>2, <2>1 DEF Next, Arrive
  <2>3. Finish(q) /\ q = r
    <3>1. Serve(q) => latest' = latest
      BY DEF Serve, MakePlan, TakeSnapshot, TryHold, Busy, CannotStart, Launch, buildVars
    <3>2. Write(q) => latest' = latest
      BY DEF Write, WriteOverlay, StageNotebook, WriteFails, MergeAnswers, MergeRefuses, buildVars
    <3>3. Host(q) => latest' = latest
      BY DEF Host, HostWrites, HostCaptures, HostEmits, HostExits, buildVars
    <3>4. Land(q) => latest' = latest \/ Finish(q)
      BY DEF Land, Judge, OneLinePanics, RestoreNotebook, RestoreStaged, RestoreFails, Discard, Settle, FreeGate,
             Tell, buildVars
    <3>5. Finish(q) => latest' \in {latest, q}
      BY DEF Finish
    <3>6. QED
      BY <1>2, <2>2, <3>1, <3>2, <3>3, <3>4, <3>5 DEF RunStep
  <2>4. pc[r] = "settled"
    BY <2>3 DEF Finish
  <2>5. prev[r] = latest /\ Fails(prev[r], req[r].stream)
    BY <1>2, <2>4 DEF AllWeighed, Weighed, Weighing
  <2>6. QED
    BY <2>5
<1>3. TypeOK /\ AllWeighed /\ [Next]_vars =>
        [\A r \in Runs :
            (IsAnswer(r) /\ latest' = r /\ latest # r /\ latest # NoBuild
               /\ Fails(r, req[r].stream)) => Fails(latest, req[r].stream)]_vars
  BY <1>2
<1>4. QED
  BY <1>1, <1>3, NextWeighed, AlwaysGated, AlwaysBuilt, AlwaysAlone, PTL DEF Spec, NeverWorse
=============================================================================
