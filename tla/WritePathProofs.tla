--------------------------- MODULE WritePathProofs ---------------------------
(* Theorems about WritePath, for every value of its constants.              *)
EXTENDS WritePath, TLAPS

-----------------------------------------------------------------------------
(* Types.                                                                    *)

LEMMA StageTypes ==
    ASSUME over \in [Streams -> Held], kept \in [Streams -> Held], NEW a \in BOOLEAN
    PROVE  OverAfter(a) \in [Streams -> Held] /\ KeptAfter(a) \in [Streams -> Held]
  <1>1. {Absent, SeedLink, KeptLink} \subseteq Held
    BY DEF Held, Kinds, Absent, SeedLink, KeptLink
  <1>2. ASSUME NEW s \in Streams
        PROVE  over[s] \in Held /\ kept[s] \in Held
    OBVIOUS
  <1> QED
    BY <1>1, <1>2 DEF OverAfter, KeptAfter

LEMMA InitTypes == Init => TypeOK
  <1> SUFFICES ASSUME Init PROVE TypeOK
    OBVIOUS
  <1>1. Requests # {}
    <2>1. PICK s \in Streams : TRUE
      BY StreamsAssumption
    <2>2. [verb |-> "list", stream |-> s, streamed |-> FALSE, merge |-> FALSE, force |-> FALSE] \in Requests
      BY <2>1 DEF Requests
    <2> QED
      BY <2>2
  <1>2. {Absent, SeedLink, File({0})} \subseteq Held
    BY MaxRunsAssumption DEF Held, Kinds, Absent, SeedLink, File, Records
  <1>3. req \in [Runs -> Requests]
    <2>1. (CHOOSE q \in Requests : TRUE) \in Requests
      BY <1>1
    <2> QED
      BY <2>1 DEF Init
  <1>4. worth \in [Records -> Worths]
    BY DEF Init, Worths
  <1>5. over \in [Streams -> Held] /\ kept \in [Streams -> Held]
    BY <1>2 DEF Init
  <1>6. snap \in [Runs -> [note : Held, staged : Held]]
    BY <1>2 DEF Init
  <1>7. built \in [Builds -> [there : BOOLEAN, whole : BOOLEAN, text : [Streams -> Held]]]
    <2>1. NoDir \in [there : BOOLEAN, whole : BOOLEAN, text : [Streams -> Held]]
      BY <1>2 DEF NoDir
    <2>2. [there |-> TRUE, whole |-> TRUE,
           text |-> [s \in Streams |-> IF s \in Samples THEN File({0}) ELSE Absent]]
          \in [there : BOOLEAN, whole : BOOLEAN, text : [Streams -> Held]]
      BY <1>2
    <2> QED
      BY <2>1, <2>2 DEF Init
  <1>8. /\ handler \in Runs \cup {Free}
        /\ minted \in Records
        /\ gate \in Runs \cup {Free}
        /\ prev \in [Runs -> Builds \cup {NoBuild}]
        /\ text \in [Runs -> SUBSET Records]
        /\ exit \in [Runs -> {0, 1}]
        /\ latest \in Builds \cup {NoBuild}
        /\ publishing \subseteq Runs
    BY MaxRunsAssumption DEF Init, Records, Builds, Free, NoBuild
  <1>9. pc \in [Runs -> Phases] /\ verdict \in [Runs -> Verdicts]
    BY DEF Init, Phases, Verdicts
  <1> QED
    BY <1>3, <1>4, <1>5, <1>6, <1>7, <1>8, <1>9 DEF TypeOK

LEMMA NextTypes == TypeOK /\ [Next]_vars => TypeOK'
  <1> SUFFICES ASSUME TypeOK, [Next]_vars PROVE TypeOK'
    OBVIOUS
  <1> USE DEF runVars, treeVars, buildVars
  <1>a. /\ handler \in Runs \cup {Free} /\ minted \in Records /\ gate \in Runs \cup {Free}
        /\ pc \in [Runs -> Phases] /\ req \in [Runs -> Requests] /\ worth \in [Records -> Worths]
        /\ over \in [Streams -> Held] /\ kept \in [Streams -> Held]
    BY DEF TypeOK
  <1>b. \A r \in Runs : /\ r \in Records
                        /\ req[r].stream \in Streams
                        /\ snap[r].note \in Held /\ snap[r].staged \in Held
                        /\ text[r] \subseteq Records
    BY MaxRunsAssumption DEF TypeOK, Runs, Records, Requests
  <1>c. \A s \in Streams : Home(s) \in Held
    BY DEF Home, TypeOK
  <1>d. /\ Absent \in Held /\ SeedLink \in Held /\ KeptLink \in Held
        /\ \A t \in SUBSET Records : File(t) \in Held
    BY DEF Held, Kinds, Absent, SeedLink, KeptLink, File
  <1>e. \A s \in Streams : Seen(s) \in Held
    <2>1. File({0}) \in Held
      BY <1>d, MaxRunsAssumption DEF Records
    <2> QED
      BY <2>1, <1>a, <1>d DEF Seen, ReadOf
  <1>f. LatestBuild \subseteq Builds \cup {NoBuild}
    BY DEF LatestBuild, Complete
  <1>1. ASSUME NEW q \in Offers, NEW w \in Worths, Receive(q, w)
        PROVE  TypeOK'
    <2>1. minted + 1 \in Runs /\ minted + 1 \in Records
      BY <1>1, <1>a, MaxRunsAssumption DEF Receive, Runs, Records
    <2>2. q \in Requests
      BY OffersAssumption
    <2>3. over' \in [Streams -> Held] /\ kept' \in [Streams -> Held]
      BY <1>1, <1>a, StageTypes DEF Receive, LayStage
    <2>4. pc' \in [Runs -> Phases]
      BY <1>1, <1>a, <2>1 DEF Receive, Goto, Phases
    <2> QED
      BY <1>1, <2>1, <2>2, <2>3, <2>4 DEF Receive, TypeOK
  <1>2. ASSUME NEW r \in Runs, RunStep(r)
        PROVE  TypeOK'
    <2>a. \A p \in Phases : Goto(r, p) => pc' \in [Runs -> Phases]
      BY <1>a DEF Goto
    <2>b. \A v \in Verdicts : Answered(r, v) =>
             /\ pc' \in [Runs -> Phases]
             /\ verdict' \in [Runs -> Verdicts]
             /\ handler' \in Runs \cup {Free}
      BY <2>a DEF Answered, Goto, Phases, TypeOK
    <2>c. ASSUME NEW s \in Streams, NEW h \in Held
          PROVE  /\ PutHome(s, h) => over' \in [Streams -> Held] /\ kept' \in [Streams -> Held]
                 /\ PutStaged(s, h) => over' \in [Streams -> Held] /\ kept' \in [Streams -> Held]
      BY <1>a DEF PutHome, PutStaged
    <2>1. CASE MakePlan(r)
      BY <2>1, <2>a, <2>b, <1>f DEF MakePlan, TypeOK, Phases, Verdicts
    <2>2. CASE TakeSnapshot(r)
      BY <2>2, <2>a, <1>a, <1>b, <1>c DEF TakeSnapshot, TypeOK, Phases
    <2>3. CASE TryHold(r)
      BY <2>3, <2>a, <1>b DEF TryHold, TypeOK, Phases
    <2>4. CASE Busy(r)
      BY <2>4, <2>b DEF Busy, TypeOK, Verdicts
    <2>5. CASE CannotStart(r)
      BY <2>5, <2>b DEF CannotStart, TypeOK, Verdicts
    <2>6. CASE Launch(r)
      BY <2>6, <2>a DEF Launch, TypeOK, Phases
    <2>7. CASE WriteOverlay(r)
      BY <2>7, <2>a, <2>c, <1>b, <1>d DEF WriteOverlay, TypeOK, Phases
    <2>8. CASE StageNotebook(r)
      BY <2>8, <2>a, <2>c, <1>b, <1>d DEF StageNotebook, TypeOK, Phases
    <2>9. CASE WriteFails(r)
      BY <2>9, <2>a, <2>b DEF WriteFails, TypeOK, Phases, Verdicts
    <2>10. CASE MergeAnswers(r)
      <3>1. Seen(req[r].stream).text \cup {r} \subseteq Records
        BY <1>b, <1>e DEF Held
      <3> QED
        BY <2>10, <3>1, <2>a DEF MergeAnswers, TypeOK, Phases
    <2>11. CASE MergeRefuses(r)
      BY <2>11, <2>a DEF MergeRefuses, TypeOK, Phases, Verdicts
    <2>12. CASE HostWrites(r)
      <3>1. File({r}) \in Held
        BY <1>b, <1>d
      <3> QED
        BY <2>12, <3>1, <2>a DEF HostWrites, TypeOK, Phases
    <2>13. CASE HostCaptures(r)
      <3>1. [s \in Streams |-> Seen(s)] \in [Streams -> Held]
        BY <1>e
      <3> QED
        BY <2>13, <3>1, <2>a DEF HostCaptures, TypeOK, Phases
    <2>14. CASE HostEmits(r)
      BY <2>14, <2>a DEF HostEmits, TypeOK, Phases, Runs, Builds
    <2>15. CASE HostExits(r)
      BY <2>15, <2>a DEF HostExits, TypeOK, Phases
    <2>16. CASE Judge(r)
      BY <2>16, <2>a DEF Judge, TypeOK, Phases, Verdicts
    <2>17. CASE OneLinePanics(r)
      BY <2>17, <2>a DEF OneLinePanics, TypeOK, Phases
    <2>18. CASE RestoreNotebook(r)
      BY <2>18, <2>a, <2>c, <1>b DEF RestoreNotebook, TypeOK, Phases
    <2>19. CASE RestoreStaged(r)
      BY <2>19, <2>a, <2>c, <1>b DEF RestoreStaged, TypeOK, Phases
    <2>20. CASE RestoreFails(r)
      BY <2>20, <2>a DEF RestoreFails, TypeOK, Phases
    <2>21. CASE Discard(r)
      <3>1. NoDir \in [there : BOOLEAN, whole : BOOLEAN, text : [Streams -> Held]]
        BY <1>d DEF NoDir
      <3>2. built' \in [Builds -> [there : BOOLEAN, whole : BOOLEAN, text : [Streams -> Held]]]
        BY <2>21, <3>1 DEF Discard, TypeOK
      <3> QED
        BY <2>21, <3>2, <2>a DEF Discard, TypeOK, Phases
    <2>22. CASE Settle(r)
      <3>1. over' \in [Streams -> Held] /\ kept' \in [Streams -> Held]
        BY <2>22, <1>a, StageTypes DEF Settle, LayStage
      <3> QED
        BY <2>22, <3>1, <2>a DEF Settle, TypeOK, Phases
    <2>23. CASE Finish(r)
      <3>1. r \in Builds
        BY <1>b DEF Builds, Records
      <3>2. latest' \in Builds \cup {NoBuild} /\ publishing' \subseteq Runs
        BY <2>23, <3>1 DEF Finish, TypeOK
      <3>3. pc' \in [Runs -> Phases]
        BY <2>23, <2>a DEF Finish, Phases
      <3> QED
        BY <2>23, <3>2, <3>3 DEF Finish, TypeOK
    <2>24. CASE FreeGate(r)
      BY <2>24, <2>a DEF FreeGate, TypeOK, Phases
    <2>25. CASE Tell(r)
      BY <2>25, <2>a DEF Tell, TypeOK, Phases
    <2> QED
      BY <1>2, <2>1, <2>2, <2>3, <2>4, <2>5, <2>6, <2>7, <2>8, <2>9, <2>10, <2>11,
         <2>12, <2>13, <2>14, <2>15, <2>16, <2>17, <2>18, <2>19, <2>20, <2>21, <2>22,
         <2>23, <2>24, <2>25 DEF RunStep, Serve, Write, Host, Land
  <1>3. CASE UNCHANGED vars
    BY <1>3 DEF vars, TypeOK
  <1> QED
    BY <1>1, <1>2, <1>3 DEF Next, Arrive

\* Every variable keeps its type: in particular the stage, the decisions root
\* and every build only ever hold texts of the records there are.
THEOREM TypeCorrect == Spec => []TypeOK
  BY InitTypes, NextTypes, PTL DEF Spec

-----------------------------------------------------------------------------
(* Who changes what.                                                         *)

\* A step of run r leaves every other run, and every other run's build, alone.
OthersKept(r) ==
    /\ req' = req /\ minted' = minted /\ worth' = worth
    /\ \A q \in Runs \ {r} :
          /\ pc'[q] = pc[q] /\ verdict'[q] = verdict[q]
          /\ text'[q] = text[q] /\ exit'[q] = exit[q] /\ snap'[q] = snap[q]
    /\ \A b \in Builds \ {r} : built'[b] = built[b]

LEMMA OthersKeep == TypeOK => \A r \in Runs : RunStep(r) => OthersKept(r)
  <1> SUFFICES ASSUME TypeOK, NEW r \in Runs, RunStep(r) PROVE OthersKept(r)
    OBVIOUS
  <1> USE DEF runVars, treeVars, buildVars, Goto, Answered
  <1>a. /\ pc \in [Runs -> Phases] /\ verdict \in [Runs -> Verdicts]
        /\ text \in [Runs -> SUBSET Records] /\ exit \in [Runs -> {0, 1}]
        /\ DOMAIN snap = Runs /\ DOMAIN built = Builds
    BY DEF TypeOK
  <1>1. CASE MakePlan(r)
    BY <1>1, <1>a DEF MakePlan, OthersKept
  <1>2. CASE TakeSnapshot(r)
    BY <1>2, <1>a DEF TakeSnapshot, OthersKept
  <1>3. CASE TryHold(r)
    BY <1>3, <1>a DEF TryHold, OthersKept
  <1>4. CASE Busy(r)
    BY <1>4, <1>a DEF Busy, OthersKept
  <1>5. CASE CannotStart(r)
    BY <1>5, <1>a DEF CannotStart, OthersKept
  <1>6. CASE Launch(r)
    BY <1>6, <1>a DEF Launch, OthersKept
  <1>7. CASE WriteOverlay(r)
    BY <1>7, <1>a DEF WriteOverlay, OthersKept
  <1>8. CASE StageNotebook(r)
    BY <1>8, <1>a DEF StageNotebook, OthersKept
  <1>9. CASE WriteFails(r)
    BY <1>9, <1>a DEF WriteFails, OthersKept
  <1>10. CASE MergeAnswers(r)
    BY <1>10, <1>a DEF MergeAnswers, OthersKept
  <1>11. CASE MergeRefuses(r)
    BY <1>11, <1>a DEF MergeRefuses, OthersKept
  <1>12. CASE HostWrites(r)
    BY <1>12, <1>a DEF HostWrites, OthersKept
  <1>13. CASE HostCaptures(r)
    BY <1>13, <1>a DEF HostCaptures, OthersKept
  <1>14. CASE HostEmits(r)
    BY <1>14, <1>a DEF HostEmits, OthersKept
  <1>15. CASE HostExits(r)
    BY <1>15, <1>a DEF HostExits, OthersKept
  <1>16. CASE Judge(r)
    BY <1>16, <1>a DEF Judge, OthersKept
  <1>17. CASE OneLinePanics(r)
    BY <1>17, <1>a DEF OneLinePanics, OthersKept
  <1>18. CASE RestoreNotebook(r)
    BY <1>18, <1>a DEF RestoreNotebook, OthersKept
  <1>19. CASE RestoreStaged(r)
    BY <1>19, <1>a DEF RestoreStaged, OthersKept
  <1>20. CASE RestoreFails(r)
    BY <1>20, <1>a DEF RestoreFails, OthersKept
  <1>21. CASE Discard(r)
    BY <1>21, <1>a DEF Discard, OthersKept
  <1>22. CASE Settle(r)
    BY <1>22, <1>a DEF Settle, OthersKept
  <1>23. CASE Finish(r)
    BY <1>23, <1>a DEF Finish, OthersKept
  <1>24. CASE FreeGate(r)
    BY <1>24, <1>a DEF FreeGate, OthersKept
  <1>25. CASE Tell(r)
    BY <1>25, <1>a DEF Tell, OthersKept
  <1>26. CASE Serve(r)
    BY <1>26, <1>1, <1>2, <1>3, <1>4, <1>5, <1>6 DEF Serve
  <1>27. CASE Write(r)
    BY <1>27, <1>7, <1>8, <1>9, <1>10, <1>11 DEF Write
  <1>28. CASE Host(r)
    BY <1>28, <1>12, <1>13, <1>14, <1>15 DEF Host
  <1>29. CASE Land(r)
    BY <1>29, <1>16, <1>17, <1>18, <1>19, <1>20, <1>21, <1>22, <1>23, <1>24, <1>25 DEF Land
  <1> QED
    BY <1>26, <1>27, <1>28, <1>29 DEF RunStep

-----------------------------------------------------------------------------
(* The gate.                                                                 *)

\* What the phase of a run says about its request and its verdict.
LandedPhases == {"accepted", "settled", "closing", "freed", "done"}

PhaseSays(r) ==
    /\ r > minted => pc[r] = "new"
    /\ pc[r] \in {"merging", "towrite", "written"} => IsAnswer(r)
    /\ pc[r] = "wrote" => IsFork(r)
    /\ pc[r] = "putback" => Writes(r)
    /\ verdict[r] = "accepted" => pc[r] \in LandedPhases
    /\ pc[r] \in {"accepted", "settled"} => verdict[r] = "accepted"

Phased == \A r \in Runs : PhaseSays(r)

LEMMA InitPhased == Init => Phased
  BY DEF Init, Phased, PhaseSays

LEMMA NextPhased == TypeOK /\ Phased /\ [Next]_vars => Phased'
  <1> SUFFICES ASSUME TypeOK, Phased, [Next]_vars PROVE Phased'
    OBVIOUS
  <1>a. /\ minted \in Nat /\ pc \in [Runs -> Phases] /\ verdict \in [Runs -> Verdicts]
        /\ req \in [Runs -> Requests] /\ \A r \in Runs : r \in Nat
    BY MaxRunsAssumption DEF TypeOK, Records, Runs
  <1>1. ASSUME NEW q \in Offers, NEW w \in Worths, Receive(q, w)
        PROVE  Phased'
    <2>1. PICK m \in Runs : m = minted + 1
      BY <1>1, <1>a, MaxRunsAssumption DEF Receive, Runs
    <2>2. minted' = m /\ verdict' = verdict /\ pc' = [pc EXCEPT ![m] = "staged"]
          /\ req' = [req EXCEPT ![m] = q]
      BY <1>1, <2>1 DEF Receive, Goto
    <2>3. pc[m] = "new" /\ verdict[m] # "accepted"
      BY <1>a, <2>1 DEF Phased, PhaseSays, LandedPhases
    <2>4. PhaseSays(m)'
      BY <1>a, <2>1, <2>2, <2>3 DEF PhaseSays, LandedPhases
    <2>5. ASSUME NEW r \in Runs \ {m}
          PROVE  PhaseSays(r)'
      <3>1. PhaseSays(r)
        BY DEF Phased
      <3>2. pc'[r] = pc[r] /\ req'[r] = req[r]
        BY <2>2, <1>a
      <3>3. r > minted' => r > minted
        BY <2>1, <2>2, <1>a
      <3> QED
        BY <3>1, <3>2, <3>3, <2>2 DEF PhaseSays, LandedPhases, IsAnswer, IsFork, Writes
    <2> QED
      BY <2>4, <2>5 DEF Phased
  <1>2. ASSUME NEW r \in Runs, RunStep(r)
        PROVE  Phased'
    <2>a. OthersKept(r)
      BY <1>2, OthersKeep
    <2>b. \A q \in Runs \ {r} : PhaseSays(q)'
      BY <2>a DEF OthersKept, Phased, PhaseSays, IsAnswer, IsFork, Writes
    <2>c. PhaseSays(r) /\ req' = req /\ minted' = minted
      BY <2>a DEF Phased, OthersKept
    <2>d. PhaseSays(r)' => Phased'
      BY <2>b DEF Phased
    <2> USE DEF PhaseSays, LandedPhases, IsAnswer, IsFork, Writes, Whole, Goto, Answered,
                runVars
    <2>1. CASE MakePlan(r)
      BY <2>1, <1>a, <2>c, <2>d DEF MakePlan, Phases, Verdicts
    <2>2. CASE TakeSnapshot(r)
      BY <2>2, <1>a, <2>c, <2>d DEF TakeSnapshot, Phases, Verdicts
    <2>3. CASE TryHold(r)
      BY <2>3, <1>a, <2>c, <2>d DEF TryHold, Phases, Verdicts
    <2>4. CASE Busy(r)
      BY <2>4, <1>a, <2>c, <2>d DEF Busy, Phases, Verdicts
    <2>5. CASE CannotStart(r)
      BY <2>5, <1>a, <2>c, <2>d DEF CannotStart, Phases, Verdicts
    <2>6. CASE Launch(r)
      BY <2>6, <1>a, <2>c, <2>d DEF Launch, Phases, Verdicts
    <2>7. CASE WriteOverlay(r)
      BY <2>7, <1>a, <2>c, <2>d DEF WriteOverlay, Phases, Verdicts
    <2>8. CASE StageNotebook(r)
      BY <2>8, <1>a, <2>c, <2>d DEF StageNotebook, Phases, Verdicts
    <2>9. CASE WriteFails(r)
      BY <2>9, <1>a, <2>c, <2>d DEF WriteFails, Phases, Verdicts
    <2>10. CASE MergeAnswers(r)
      BY <2>10, <1>a, <2>c, <2>d DEF MergeAnswers, Phases, Verdicts
    <2>11. CASE MergeRefuses(r)
      BY <2>11, <1>a, <2>c, <2>d DEF MergeRefuses, Phases, Verdicts
    <2>12. CASE HostWrites(r)
      BY <2>12, <1>a, <2>c, <2>d DEF HostWrites, Phases, Verdicts
    <2>13. CASE HostCaptures(r)
      BY <2>13, <1>a, <2>c, <2>d DEF HostCaptures, Phases, Verdicts
    <2>14. CASE HostEmits(r)
      BY <2>14, <1>a, <2>c, <2>d DEF HostEmits, Phases, Verdicts
    <2>15. CASE HostExits(r)
      BY <2>15, <1>a, <2>c, <2>d DEF HostExits, Phases, Verdicts
    <2>16. CASE Judge(r)
      BY <2>16, <1>a, <2>c, <2>d DEF Judge, Phases, Verdicts
    <2>17. CASE OneLinePanics(r)
      BY <2>17, <1>a, <2>c, <2>d DEF OneLinePanics, Phases, Verdicts
    <2>18. CASE RestoreNotebook(r)
      BY <2>18, <1>a, <2>c, <2>d DEF RestoreNotebook, Phases, Verdicts
    <2>19. CASE RestoreStaged(r)
      BY <2>19, <1>a, <2>c, <2>d DEF RestoreStaged, Phases, Verdicts
    <2>20. CASE RestoreFails(r)
      BY <2>20, <1>a, <2>c, <2>d DEF RestoreFails, Phases, Verdicts
    <2>21. CASE Discard(r)
      BY <2>21, <1>a, <2>c, <2>d DEF Discard, Phases, Verdicts
    <2>22. CASE Settle(r)
      BY <2>22, <1>a, <2>c, <2>d DEF Settle, Phases, Verdicts
    <2>23. CASE Finish(r)
      BY <2>23, <1>a, <2>c, <2>d DEF Finish, Phases, Verdicts
    <2>24. CASE FreeGate(r)
      BY <2>24, <1>a, <2>c, <2>d DEF FreeGate, Phases, Verdicts
    <2>25. CASE Tell(r)
      BY <2>25, <1>a, <2>c, <2>d DEF Tell, Phases, Verdicts
    <2>26. CASE Serve(r)
      BY <2>26, <2>1, <2>2, <2>3, <2>4, <2>5, <2>6 DEF Serve
    <2>27. CASE Write(r)
      BY <2>27, <2>7, <2>8, <2>9, <2>10, <2>11 DEF Write
    <2>28. CASE Host(r)
      BY <2>28, <2>12, <2>13, <2>14, <2>15 DEF Host
    <2>29. CASE Land(r)
      BY <2>29, <2>16, <2>17, <2>18, <2>19, <2>20, <2>21, <2>22, <2>23, <2>24, <2>25
         DEF Land
    <2> QED
      BY <1>2, <2>26, <2>27, <2>28, <2>29 DEF RunStep
  <1>3. CASE UNCHANGED vars
    BY <1>3 DEF vars, runVars, Phased, PhaseSays, IsAnswer, IsFork, Writes
  <1> QED
    BY <1>1, <1>2, <1>3 DEF Next, Arrive

LEMMA InitGate == Init => GateExact
  BY DEF Init, GateExact, GatedPhases, Free, Runs

LEMMA NextGate == TypeOK /\ Phased /\ GateExact /\ [Next]_vars => GateExact'
  <1> SUFFICES ASSUME TypeOK, Phased, GateExact, [Next]_vars PROVE GateExact'
    OBVIOUS
  <1>a. /\ minted \in Nat /\ pc \in [Runs -> Phases] /\ req \in [Runs -> Requests]
        /\ \A r \in Runs : r \in Nat /\ r # Free
    BY MaxRunsAssumption DEF TypeOK, Records, Runs, Free
  <1> DEFINE Exact(r) == gate = r <=> (Writes(r) /\ pc[r] \in GatedPhases)
  <1>1. ASSUME NEW q \in Offers, NEW w \in Worths, Receive(q, w)
        PROVE  GateExact'
    <2>1. PICK m \in Runs : m = minted + 1 /\ gate' = gate
      BY <1>1, <1>a, MaxRunsAssumption DEF Receive, Runs
    <2>2. pc[m] = "new" /\ pc'[m] = "staged" /\ gate # m
      BY <1>1, <1>a, <2>1 DEF Receive, Goto, Phased, PhaseSays, GateExact, GatedPhases
    <2>3. \A r \in Runs \ {m} : pc'[r] = pc[r] /\ (Writes(r)' <=> Writes(r))
      BY <1>1, <1>a, <2>1 DEF Receive, Goto, Writes
    <2> QED
      BY <2>1, <2>2, <2>3 DEF GateExact, GatedPhases
  <1>2. ASSUME NEW r \in Runs, RunStep(r)
        PROVE  GateExact'
    <2>a. /\ \A q \in Runs \ {r} : pc'[q] = pc[q]
          /\ \A q \in Runs : Writes(q)' <=> Writes(q)
      BY <1>2, OthersKeep DEF OthersKept, Writes
    <2>b. /\ Exact(r) /\ PhaseSays(r)
          /\ gate = Free \/ gate = r \/ gate \in Runs \ {r}
      BY DEF GateExact, Phased, TypeOK
    <2>c. ASSUME Exact(r)', \A q \in Runs \ {r} : gate' = q <=> gate = q
          PROVE  GateExact'
      BY <2>a, <2>c DEF GateExact
    <2> HIDE DEF Exact
    <2>d. Exact(r)' <=> (gate' = r <=> (Writes(r) /\ pc'[r] \in GatedPhases))
      BY <2>a DEF Exact
    <2>e. Exact(r) <=> (gate = r <=> (Writes(r) /\ pc[r] \in GatedPhases))
      BY DEF Exact
    <2> USE DEF PhaseSays, IsAnswer, IsFork, Writes, Whole, Goto, Answered
    <2>1. CASE MakePlan(r)
      BY <2>1, <1>a, <2>b, <2>c, <2>d, <2>e DEF MakePlan, GatedPhases, runVars
    <2>2. CASE TakeSnapshot(r)
      BY <2>2, <1>a, <2>b, <2>c, <2>d, <2>e DEF TakeSnapshot, GatedPhases, runVars
    <2>3. CASE TryHold(r)
      BY <2>3, <1>a, <2>b, <2>c, <2>d, <2>e DEF TryHold, GatedPhases, runVars
    <2>4. CASE Busy(r)
      BY <2>4, <1>a, <2>b, <2>c, <2>d, <2>e DEF Busy, GatedPhases, runVars
    <2>5. CASE CannotStart(r)
      BY <2>5, <1>a, <2>b, <2>c, <2>d, <2>e DEF CannotStart, GatedPhases, runVars
    <2>6. CASE Launch(r)
      BY <2>6, <1>a, <2>b, <2>c, <2>d, <2>e DEF Launch, GatedPhases, runVars
    <2>7. CASE WriteOverlay(r)
      BY <2>7, <1>a, <2>b, <2>c, <2>d, <2>e DEF WriteOverlay, GatedPhases, runVars
    <2>8. CASE StageNotebook(r)
      BY <2>8, <1>a, <2>b, <2>c, <2>d, <2>e DEF StageNotebook, GatedPhases, runVars
    <2>9. CASE WriteFails(r)
      BY <2>9, <1>a, <2>b, <2>c, <2>d, <2>e DEF WriteFails, GatedPhases, runVars
    <2>10. CASE MergeAnswers(r)
      BY <2>10, <1>a, <2>b, <2>c, <2>d, <2>e DEF MergeAnswers, GatedPhases, runVars
    <2>11. CASE MergeRefuses(r)
      BY <2>11, <1>a, <2>b, <2>c, <2>d, <2>e DEF MergeRefuses, GatedPhases, runVars
    <2>12. CASE HostWrites(r)
      BY <2>12, <1>a, <2>b, <2>c, <2>d, <2>e DEF HostWrites, GatedPhases, runVars
    <2>13. CASE HostCaptures(r)
      BY <2>13, <1>a, <2>b, <2>c, <2>d, <2>e DEF HostCaptures, GatedPhases, runVars
    <2>14. CASE HostEmits(r)
      BY <2>14, <1>a, <2>b, <2>c, <2>d, <2>e DEF HostEmits, GatedPhases, runVars
    <2>15. CASE HostExits(r)
      BY <2>15, <1>a, <2>b, <2>c, <2>d, <2>e DEF HostExits, GatedPhases, runVars
    <2>16. CASE Judge(r)
      BY <2>16, <1>a, <2>b, <2>c, <2>d, <2>e DEF Judge, GatedPhases, runVars
    <2>17. CASE OneLinePanics(r)
      BY <2>17, <1>a, <2>b, <2>c, <2>d, <2>e DEF OneLinePanics, GatedPhases, runVars
    <2>18. CASE RestoreNotebook(r)
      BY <2>18, <1>a, <2>b, <2>c, <2>d, <2>e DEF RestoreNotebook, GatedPhases, runVars
    <2>19. CASE RestoreStaged(r)
      BY <2>19, <1>a, <2>b, <2>c, <2>d, <2>e DEF RestoreStaged, GatedPhases, runVars
    <2>20. CASE RestoreFails(r)
      BY <2>20, <1>a, <2>b, <2>c, <2>d, <2>e DEF RestoreFails, GatedPhases, runVars
    <2>21. CASE Discard(r)
      BY <2>21, <1>a, <2>b, <2>c, <2>d, <2>e DEF Discard, GatedPhases, runVars
    <2>22. CASE Settle(r)
      BY <2>22, <1>a, <2>b, <2>c, <2>d, <2>e DEF Settle, GatedPhases, runVars
    <2>23. CASE Finish(r)
      BY <2>23, <1>a, <2>b, <2>c, <2>d, <2>e DEF Finish, GatedPhases, runVars
    <2>24. CASE FreeGate(r)
      BY <2>24, <1>a, <2>b, <2>c, <2>d, <2>e DEF FreeGate, GatedPhases, runVars
    <2>25. CASE Tell(r)
      BY <2>25, <1>a, <2>b, <2>c, <2>d, <2>e DEF Tell, GatedPhases, runVars
    <2>26. CASE Serve(r)
      BY <2>26, <2>1, <2>2, <2>3, <2>4, <2>5, <2>6 DEF Serve
    <2>27. CASE Write(r)
      BY <2>27, <2>7, <2>8, <2>9, <2>10, <2>11 DEF Write
    <2>28. CASE Host(r)
      BY <2>28, <2>12, <2>13, <2>14, <2>15 DEF Host
    <2>29. CASE Land(r)
      BY <2>29, <2>16, <2>17, <2>18, <2>19, <2>20, <2>21, <2>22, <2>23, <2>24, <2>25
         DEF Land
    <2> QED
      BY <1>2, <2>26, <2>27, <2>28, <2>29 DEF RunStep
  <1>3. CASE UNCHANGED vars
    BY <1>3 DEF vars, runVars, GateExact, Writes
  <1> QED
    BY <1>1, <1>2, <1>3 DEF Next, Arrive

\* The gate names exactly the writing run between its try_hold and the drop of
\* its guard, whichever way that run ends: the guard is dropped once, by its run.
THEOREM GateIsExact == Spec => []GateExact
  <1>1. Init => TypeOK /\ Phased /\ GateExact
    BY InitTypes, InitPhased, InitGate
  <1>2. TypeOK /\ Phased /\ GateExact /\ [Next]_vars => (TypeOK /\ Phased /\ GateExact)'
    BY NextTypes, NextPhased, NextGate
  <1> QED
    BY <1>1, <1>2, PTL DEF Spec

-----------------------------------------------------------------------------
(* The builds.                                                               *)

ClosedPhases == {"closing", "freed", "done"}

Stands(b) ==
    /\ b \in Complete
    /\ b \in Runs => verdict[b] = "accepted" /\ pc[b] \in ClosedPhases

\* What the builds need to be like for the pointer to stand.
BuildsStand ==
    /\ \A b \in Builds : built[b].whole => built[b].there
    /\ \A r \in Runs : pc[r] = "captured" => built[r].there
    /\ latest # NoBuild => Stands(latest)
    /\ \A r \in publishing : Stands(r)

LEMMA InitBuilds == Init => BuildsStand
  BY MaxRunsAssumption
     DEF Init, BuildsStand, Stands, Complete, NoDir, Builds, Runs, NoBuild

LEMMA NextBuilds == TypeOK /\ Phased /\ BuildsStand /\ [Next]_vars => BuildsStand'
  <1> SUFFICES ASSUME TypeOK, Phased, BuildsStand, [Next]_vars PROVE BuildsStand'
    OBVIOUS
  <1>a. /\ pc \in [Runs -> Phases] /\ verdict \in [Runs -> Verdicts] /\ minted \in Nat
        /\ built \in [Builds -> [there : BOOLEAN, whole : BOOLEAN, text : [Streams -> Held]]]
        /\ latest \in Builds \cup {NoBuild} /\ publishing \subseteq Runs
        /\ Runs \subseteq Builds /\ Runs \subseteq Nat
    BY MaxRunsAssumption DEF TypeOK, Runs, Builds, Records
  <1>1. ASSUME NEW q \in Offers, NEW w \in Worths, Receive(q, w)
        PROVE  BuildsStand'
    <2>1. PICK m \in Runs : m = minted + 1
      BY <1>1, <1>a, MaxRunsAssumption DEF Receive, Runs
    <2>2. /\ pc[m] = "new" /\ pc' = [pc EXCEPT ![m] = "staged"]
          /\ UNCHANGED <<verdict, built, latest, publishing>>
      <3>1. m > minted
        BY <2>1, <1>a
      <3> QED
        BY <3>1, <1>1, <2>1, <1>a DEF Receive, Goto, Phased, PhaseSays, buildVars
    <2>3. \A b \in Builds : Stands(b) => Stands(b)'
      BY <2>2, <1>a DEF Stands, Complete, ClosedPhases
    <2> QED
      BY <2>2, <2>3, <1>a DEF BuildsStand
  <1>2. ASSUME NEW r \in Runs, RunStep(r)
        PROVE  BuildsStand'
    <2>a. /\ \A q \in Runs \ {r} : pc'[q] = pc[q] /\ verdict'[q] = verdict[q]
          /\ \A b \in Builds \ {r} : built'[b] = built[b]
      BY <1>2, OthersKeep DEF OthersKept
    <2>b. \A b \in Builds \ {r} : Stands(b) => Stands(b)'
      BY <2>a, <1>a DEF Stands, Complete
    <2>c. r \in Builds /\ PhaseSays(r) /\ (built[r].whole => built[r].there)
          /\ (pc[r] = "captured" => built[r].there)
      BY <1>a DEF Phased, BuildsStand
    <2>d. ASSUME /\ built'[r].whole => built'[r].there
                 /\ pc'[r] = "captured" => built'[r].there,
                 Stands(r) => Stands(r)',
                 UNCHANGED <<latest, publishing>>
          PROVE  BuildsStand'
      BY <2>a, <2>b, <2>d, <1>a DEF BuildsStand
    <2> USE DEF Goto, Answered, runVars, treeVars, buildVars
    <2>1. CASE MakePlan(r)
      BY <2>1, <2>c, <2>d, <1>a
         DEF MakePlan, Stands, Complete, ClosedPhases
    <2>2. CASE TakeSnapshot(r)
      BY <2>2, <2>c, <2>d, <1>a
         DEF TakeSnapshot, Stands, Complete, ClosedPhases
    <2>3. CASE TryHold(r)
      BY <2>3, <2>c, <2>d, <1>a
         DEF TryHold, Stands, Complete, ClosedPhases
    <2>4. CASE Busy(r)
      BY <2>4, <2>c, <2>d, <1>a
         DEF Busy, Stands, Complete, ClosedPhases
    <2>5. CASE CannotStart(r)
      BY <2>5, <2>c, <2>d, <1>a
         DEF CannotStart, Stands, Complete, ClosedPhases
    <2>6. CASE Launch(r)
      BY <2>6, <2>c, <2>d, <1>a
         DEF Launch, Stands, Complete, ClosedPhases
    <2>7. CASE WriteOverlay(r)
      BY <2>7, <2>c, <2>d, <1>a
         DEF WriteOverlay, Stands, Complete, ClosedPhases
    <2>8. CASE StageNotebook(r)
      BY <2>8, <2>c, <2>d, <1>a
         DEF StageNotebook, Stands, Complete, ClosedPhases
    <2>9. CASE WriteFails(r)
      BY <2>9, <2>c, <2>d, <1>a
         DEF WriteFails, Stands, Complete, ClosedPhases
    <2>10. CASE MergeAnswers(r)
      BY <2>10, <2>c, <2>d, <1>a
         DEF MergeAnswers, Stands, Complete, ClosedPhases
    <2>11. CASE MergeRefuses(r)
      BY <2>11, <2>c, <2>d, <1>a
         DEF MergeRefuses, Stands, Complete, ClosedPhases
    <2>12. CASE HostWrites(r)
      BY <2>12, <2>c, <2>d, <1>a
         DEF HostWrites, Stands, Complete, ClosedPhases
    <2>13. CASE HostCaptures(r)
      BY <2>13, <2>c, <2>d, <1>a
         DEF HostCaptures, Stands, Complete, ClosedPhases
    <2>14. CASE HostEmits(r)
      BY <2>14, <2>c, <2>d, <1>a
         DEF HostEmits, Stands, Complete, ClosedPhases
    <2>15. CASE HostExits(r)
      BY <2>15, <2>c, <2>d, <1>a
         DEF HostExits, Stands, Complete, ClosedPhases, PhaseSays
    <2>16. CASE Judge(r)
      BY <2>16, <2>c, <2>d, <1>a
         DEF Judge, Stands, Complete, ClosedPhases
    <2>17. CASE OneLinePanics(r)
      BY <2>17, <2>c, <2>d, <1>a
         DEF OneLinePanics, Stands, Complete, ClosedPhases
    <2>18. CASE RestoreNotebook(r)
      BY <2>18, <2>c, <2>d, <1>a
         DEF RestoreNotebook, Stands, Complete, ClosedPhases
    <2>19. CASE RestoreStaged(r)
      BY <2>19, <2>c, <2>d, <1>a
         DEF RestoreStaged, Stands, Complete, ClosedPhases
    <2>20. CASE RestoreFails(r)
      BY <2>20, <2>c, <2>d, <1>a
         DEF RestoreFails, Stands, Complete, ClosedPhases
    <2>21. CASE Discard(r)
      BY <2>21, <2>c, <2>d, <1>a
         DEF Discard, Stands, Complete, ClosedPhases, NoDir
    <2>22. CASE Settle(r)
      BY <2>22, <2>c, <2>d, <1>a
         DEF Settle, Stands, Complete, ClosedPhases
    <2>23. CASE Finish(r)
      <3>1. verdict'[r] = "accepted" /\ pc'[r] = "closing" /\ built' = built
        BY <2>23, <2>c, <1>a DEF Finish, PhaseSays
      <3>2. built[r].whole => Stands(r)'
        BY <3>1, <2>c DEF Stands, Complete, ClosedPhases
      <3>3. Stands(r) => Stands(r)'
        BY <3>1, <3>2 DEF Stands, Complete
      <3>4. CASE UNCHANGED <<latest, publishing>>
        BY <3>1, <3>3, <3>4, <2>c, <2>d
      <3>5. CASE /\ built[r].whole /\ publishing' = publishing \cup {r}
                 /\ latest' = r \/ latest' = latest
        BY <3>1, <3>2, <3>5, <2>a, <2>b, <2>c, <1>a DEF BuildsStand
      <3> QED
        BY <2>23, <3>4, <3>5 DEF Finish
    <2>24. CASE FreeGate(r)
      BY <2>24, <2>c, <2>d, <1>a
         DEF FreeGate, Stands, Complete, ClosedPhases
    <2>25. CASE Tell(r)
      BY <2>25, <2>c, <2>d, <1>a
         DEF Tell, Stands, Complete, ClosedPhases
    <2>26. CASE Serve(r)
      BY <2>26, <2>1, <2>2, <2>3, <2>4, <2>5, <2>6 DEF Serve
    <2>27. CASE Write(r)
      BY <2>27, <2>7, <2>8, <2>9, <2>10, <2>11 DEF Write
    <2>28. CASE Host(r)
      BY <2>28, <2>12, <2>13, <2>14, <2>15 DEF Host
    <2>29. CASE Land(r)
      BY <2>29, <2>16, <2>17, <2>18, <2>19, <2>20, <2>21, <2>22, <2>23, <2>24, <2>25
         DEF Land
    <2> QED
      BY <1>2, <2>26, <2>27, <2>28, <2>29 DEF RunStep
  <1>3. CASE UNCHANGED vars
    BY <1>3 DEF vars, runVars, buildVars, BuildsStand, Stands, Complete
  <1> QED
    BY <1>1, <1>2, <1>3 DEF Next, Arrive

\* latest.json, once written, names a whole directory of an accepted run, and so
\* does everything handed to be published: no later run's discard removes it.
THEOREM LatestAlwaysStands == Spec => []LatestStands
  <1>1. Init => TypeOK /\ Phased /\ BuildsStand
    BY InitTypes, InitPhased, InitBuilds
  <1>2. TypeOK /\ Phased /\ BuildsStand /\ [Next]_vars => (TypeOK /\ Phased /\ BuildsStand)'
    BY NextTypes, NextPhased, NextBuilds
  <1>3. TypeOK /\ BuildsStand => LatestStands
    BY MaxRunsAssumption DEF TypeOK, BuildsStand, Stands, LatestStands, Runs, NoBuild
  <1> QED
    BY <1>1, <1>2, <1>3, PTL DEF Spec

-----------------------------------------------------------------------------
(* The text a run is judged on.                                              *)

\* r's text is in its notebook, and the stage points at it.
Kept(r) ==
    /\ Home(req[r].stream).kind = "file"
    /\ r \in Home(req[r].stream).text

InPlace(r) == Kept(r) /\ (Decisions => over[req[r].stream] = KeptLink)

\* How far the text of an answer has got, phase by phase.
TextSays(r) ==
    /\ pc[r] = "towrite" => r \in text[r]
    /\ pc[r] = "written" => Kept(r)
    /\ pc[r] = "running" \/ (pc[r] = "ready" /\ Whole(r)) => InPlace(r)
    /\ pc[r] \in {"captured", "emitted"} => r \in built[r].text[req[r].stream].text
    /\ pc[r] = "exited" /\ exit[r] = 0 => r \in built[r].text[req[r].stream].text
    /\ verdict[r] = "accepted" => r \in built[r].text[req[r].stream].text

TextFollowed == \A r \in Runs : IsAnswer(r) => TextSays(r)

LEMMA InitText == Init => TextFollowed
  BY DEF Init, TextFollowed, TextSays

\* The trees change only under the gate.
LEMMA TreesHeld ==
    TypeOK /\ Phased /\ GateExact =>
        \A q \in Runs : RunStep(q) /\ gate # q => UNCHANGED <<over, kept>>
  <1> SUFFICES ASSUME TypeOK, Phased, GateExact, NEW q \in Runs, RunStep(q), gate # q
               PROVE  UNCHANGED <<over, kept>>
    OBVIOUS
  <1>a. PhaseSays(q) /\ ~(Writes(q) /\ pc[q] \in GatedPhases)
    BY DEF Phased, GateExact
  <1> USE <1>a DEF PhaseSays, GatedPhases, IsAnswer, IsFork, Writes, runVars, treeVars,
                   buildVars
  <1>1. CASE MakePlan(q)
    BY <1>1 DEF MakePlan
  <1>2. CASE TakeSnapshot(q)
    BY <1>2 DEF TakeSnapshot
  <1>3. CASE TryHold(q)
    BY <1>3 DEF TryHold
  <1>4. CASE Busy(q)
    BY <1>4 DEF Busy
  <1>5. CASE CannotStart(q)
    BY <1>5 DEF CannotStart
  <1>6. CASE Launch(q)
    BY <1>6 DEF Launch
  <1>7. CASE WriteOverlay(q)
    BY <1>7 DEF WriteOverlay
  <1>8. CASE StageNotebook(q)
    BY <1>8 DEF StageNotebook
  <1>9. CASE WriteFails(q)
    BY <1>9 DEF WriteFails
  <1>10. CASE MergeAnswers(q)
    BY <1>10 DEF MergeAnswers
  <1>11. CASE MergeRefuses(q)
    BY <1>11 DEF MergeRefuses
  <1>12. CASE HostWrites(q)
    BY <1>12 DEF HostWrites
  <1>13. CASE HostCaptures(q)
    BY <1>13 DEF HostCaptures
  <1>14. CASE HostEmits(q)
    BY <1>14 DEF HostEmits
  <1>15. CASE HostExits(q)
    BY <1>15 DEF HostExits
  <1>16. CASE Judge(q)
    BY <1>16 DEF Judge
  <1>17. CASE OneLinePanics(q)
    BY <1>17 DEF OneLinePanics
  <1>18. CASE RestoreNotebook(q)
    BY <1>18 DEF RestoreNotebook
  <1>19. CASE RestoreStaged(q)
    BY <1>19 DEF RestoreStaged
  <1>20. CASE RestoreFails(q)
    BY <1>20 DEF RestoreFails
  <1>21. CASE Discard(q)
    BY <1>21 DEF Discard
  <1>22. CASE Settle(q)
    BY <1>22 DEF Settle
  <1>23. CASE Finish(q)
    BY <1>23 DEF Finish
  <1>24. CASE FreeGate(q)
    BY <1>24 DEF FreeGate
  <1>25. CASE Tell(q)
    BY <1>25 DEF Tell
  <1>26. CASE Serve(q)
    BY <1>26, <1>1, <1>2, <1>3, <1>4, <1>5, <1>6 DEF Serve
  <1>27. CASE Write(q)
    BY <1>27, <1>7, <1>8, <1>9, <1>10, <1>11 DEF Write
  <1>28. CASE Host(q)
    BY <1>28, <1>12, <1>13, <1>14, <1>15 DEF Host
  <1>29. CASE Land(q)
    BY <1>29, <1>16, <1>17, <1>18, <1>19, <1>20, <1>21, <1>22, <1>23, <1>24, <1>25 DEF Land
  <1> QED
    BY <1>26, <1>27, <1>28, <1>29 DEF RunStep

\* Laying the stage without adopting leaves a written notebook where it is.
LEMMA StageKeeps ==
    TypeOK => \A r \in Runs : LayStage(FALSE) /\ req'[r] = req[r] =>
                 (Kept(r) => Kept(r)') /\ (InPlace(r) => InPlace(r)')
  <1> SUFFICES ASSUME TypeOK, NEW r \in Runs, LayStage(FALSE), req'[r] = req[r], Kept(r)
               PROVE  Kept(r)' /\ (InPlace(r) => InPlace(r)')
    BY DEF InPlace
  <1>1. PICK s \in Streams : s = req[r].stream
    BY DEF TypeOK, Requests
  <1>2. \A t \in Streams : ~Adopts(t, FALSE)
    BY DEF Adopts
  <1>3. kept'[s] = kept[s] /\ over' = OverAfter(FALSE)
    BY <1>2 DEF LayStage, KeptAfter
  <1>4. CASE Decisions
    <2>1. kept[s] # Absent /\ Kept(r)'
      BY <1>1, <1>3, <1>4 DEF Kept, Home, Absent
    <2>2. over[s] = KeptLink => over'[s] = KeptLink
      <3>1. KeptLink.kind # "file"
        BY DEF KeptLink
      <3> QED
        BY <1>2, <1>3, <1>4, <2>1, <3>1 DEF OverAfter
    <2> QED
      BY <1>1, <2>1, <2>2 DEF InPlace
  <1>5. CASE ~Decisions
    <2>1. over[s].kind = "file" /\ over[s] # Absent
      BY <1>1, <1>5 DEF Kept, Home, Absent
    <2>2. over'[s] = over[s]
      BY <1>2, <1>3, <1>5, <2>1 DEF OverAfter
    <2> QED
      BY <1>1, <1>5, <2>2 DEF Kept, InPlace, Home
  <1> QED
    BY <1>4, <1>5

LEMMA NextText ==
    TypeOK /\ Phased /\ GateExact /\ TextFollowed /\ [Next]_vars => TextFollowed'
  <1> SUFFICES ASSUME TypeOK, Phased, GateExact, TextFollowed, [Next]_vars
               PROVE  TextFollowed'
    OBVIOUS
  <1>a. /\ pc \in [Runs -> Phases] /\ verdict \in [Runs -> Verdicts] /\ minted \in Nat
        /\ req \in [Runs -> Requests] /\ text \in [Runs -> SUBSET Records]
        /\ exit \in [Runs -> {0, 1}] /\ over \in [Streams -> Held] /\ kept \in [Streams -> Held]
        /\ built \in [Builds -> [there : BOOLEAN, whole : BOOLEAN, text : [Streams -> Held]]]
        /\ Runs \subseteq Builds /\ Runs \subseteq Nat /\ Free \notin Runs
        /\ \A r \in Runs : req[r].stream \in Streams
    BY MaxRunsAssumption DEF TypeOK, Runs, Builds, Records, Requests, Free
  <1>b. \A r \in Runs : Whole(r) => IsAnswer(r)
    BY DEF Whole
  <1>1. ASSUME NEW q \in Offers, NEW w \in Worths, Receive(q, w)
        PROVE  TextFollowed'
    <2>1. PICK m \in Runs : m = minted + 1
      BY <1>1, <1>a, MaxRunsAssumption DEF Receive, Runs
    <2>2. /\ pc' = [pc EXCEPT ![m] = "staged"] /\ req' = [req EXCEPT ![m] = q]
          /\ UNCHANGED <<gate, text, exit, verdict, built>>
      BY <1>1, <2>1 DEF Receive, Goto, buildVars
    <2>3. verdict[m] # "accepted"
      <3>1. m > minted
        BY <2>1, <1>a
      <3> QED
        BY <3>1 DEF Phased, PhaseSays, LandedPhases
    <2>4. TextSays(m)'
      BY <2>2, <2>3, <1>a DEF TextSays
    <2>5. ASSUME NEW r \in Runs \ {m}, IsAnswer(r)'
          PROVE  TextSays(r)'
      <3>1. IsAnswer(r) /\ TextSays(r) /\ pc'[r] = pc[r] /\ req'[r] = req[r]
        BY <2>2, <2>5, <1>a DEF IsAnswer, TextFollowed
      <3>2. pc[r] \in {"written", "ready", "running"} => LayStage(FALSE)
        <4>1. pc[r] \in {"written", "ready", "running"} => gate # Free
          BY <3>1, <1>a DEF GateExact, GatedPhases, Writes, IsAnswer
        <4> QED
          BY <4>1, <1>1 DEF Receive
      <3>3. pc[r] \in {"written", "ready", "running"} =>
               (Kept(r) => Kept(r)') /\ (InPlace(r) => InPlace(r)')
        BY <3>1, <3>2, StageKeeps
      <3> QED
        BY <3>1, <3>3, <2>2 DEF TextSays, Whole, IsAnswer
    <2> QED
      BY <2>4, <2>5 DEF TextFollowed
  <1>2. ASSUME NEW r \in Runs, RunStep(r)
        PROVE  TextFollowed'
    <2>a. OthersKept(r)
      BY <1>2, OthersKeep
    <2>b. ASSUME NEW q \in Runs \ {r}, IsAnswer(q)
          PROVE  TextSays(q)'
      <3>1. /\ TextSays(q) /\ pc'[q] = pc[q] /\ verdict'[q] = verdict[q] /\ text'[q] = text[q]
            /\ exit'[q] = exit[q] /\ req' = req /\ built'[q] = built[q]
        BY <2>a, <2>b, <1>a DEF OthersKept, TextFollowed
      <3>2. pc[q] \in {"written", "ready", "running"} => UNCHANGED <<over, kept>>
        <4>1. pc[q] \in {"written", "ready", "running"} => gate = q
          BY <2>b DEF GateExact, GatedPhases, Writes, IsAnswer
        <4> QED
          BY <4>1, <1>2, TreesHeld
      <3>3. pc[q] \in {"written", "ready", "running"} =>
               (Kept(q)' <=> Kept(q)) /\ (InPlace(q)' <=> InPlace(q))
        BY <3>1, <3>2 DEF Kept, InPlace, Home
      <3> QED
        BY <3>1, <3>3 DEF TextSays, Whole, IsAnswer
    <2>c. /\ req' = req /\ PhaseSays(r) /\ (IsAnswer(r)' <=> IsAnswer(r))
          /\ (Whole(r)' <=> Whole(r)) /\ (IsAnswer(r) => TextSays(r))
      BY <2>a DEF OthersKept, Phased, TextFollowed, IsAnswer, Whole
    <2>d. (IsAnswer(r) => TextSays(r)') => TextFollowed'
      BY <2>b, <2>c, <2>a DEF TextFollowed, OthersKept, IsAnswer
    <2> USE DEF Goto, Answered, runVars, treeVars, buildVars
    <2>1. CASE MakePlan(r)
      BY <2>1, <2>c, <2>d, <1>a DEF MakePlan, TextSays, PhaseSays, LandedPhases, IsAnswer
    <2>2. CASE TakeSnapshot(r)
      BY <2>2, <2>c, <2>d, <1>a DEF TakeSnapshot, TextSays, PhaseSays, LandedPhases
    <2>3. CASE TryHold(r)
      <3>1. Whole(r) => r \in text'[r]
        BY <2>3, <1>a DEF TryHold
      <3> QED
        BY <2>3, <3>1, <2>c, <2>d, <1>a DEF TryHold, TextSays, PhaseSays, LandedPhases
    <2>4. CASE Busy(r)
      BY <2>4, <2>c, <2>d, <1>a DEF Busy, TextSays, PhaseSays, LandedPhases
    <2>5. CASE CannotStart(r)
      BY <2>5, <2>c, <2>d, <1>a DEF CannotStart, TextSays, PhaseSays, LandedPhases
    <2>6. CASE Launch(r)
      <3>1. InPlace(r) => InPlace(r)'
        BY <2>6, <2>c DEF Launch, InPlace, Kept, Home
      <3> QED
        BY <2>6, <3>1, <2>c, <2>d, <1>a DEF Launch, TextSays, PhaseSays, LandedPhases, Whole
    <2>7. CASE WriteOverlay(r)
      <3>1. Home(req[r].stream)' = File(text[r])
        BY <2>7, <2>c, <1>a DEF WriteOverlay, PutHome, Home
      <3>2. IsAnswer(r) => Kept(r)'
        BY <3>1, <2>7, <2>c, <1>a DEF WriteOverlay, Kept, Home, TextSays, File
      <3> QED
        BY <2>7, <3>2, <2>c, <2>d, <1>a DEF WriteOverlay, TextSays, PhaseSays, LandedPhases
    <2>8. CASE StageNotebook(r)
      <3>1. Kept(r) => InPlace(r)'
        BY <2>8, <2>c, <1>a DEF StageNotebook, PutStaged, Kept, InPlace, Home
      <3> QED
        BY <2>8, <3>1, <2>c, <2>d, <1>a DEF StageNotebook, TextSays, PhaseSays, LandedPhases
    <2>9. CASE WriteFails(r)
      BY <2>9, <2>c, <2>d, <1>a DEF WriteFails, TextSays, PhaseSays, LandedPhases
    <2>10. CASE MergeAnswers(r)
      <3>1. r \in text'[r]
        BY <2>10, <1>a DEF MergeAnswers
      <3> QED
        BY <2>10, <3>1, <2>c, <2>d, <1>a DEF MergeAnswers, TextSays, PhaseSays, LandedPhases
    <2>11. CASE MergeRefuses(r)
      BY <2>11, <2>c, <2>d, <1>a DEF MergeRefuses, TextSays, PhaseSays, LandedPhases
    <2>12. CASE HostWrites(r)
      BY <2>12, <2>c, <2>d, <1>a DEF HostWrites, TextSays, PhaseSays, LandedPhases
    <2>13. CASE HostCaptures(r)
      <3>1. InPlace(r) => Seen(req[r].stream) = Home(req[r].stream)
        BY DEF InPlace, Kept, Home, Seen, ReadOf, KeptLink
      <3>2. IsAnswer(r) => r \in built'[r].text[req[r].stream].text
        BY <2>13, <3>1, <2>c, <1>a DEF HostCaptures, TextSays, InPlace, Kept
      <3> QED
        BY <2>13, <3>2, <2>c, <2>d, <1>a DEF HostCaptures, TextSays, PhaseSays, LandedPhases
    <2>14. CASE HostEmits(r)
      BY <2>14, <2>c, <2>d, <1>a DEF HostEmits, TextSays, PhaseSays, LandedPhases
    <2>15. CASE HostExits(r)
      BY <2>15, <2>c, <2>d, <1>a
         DEF HostExits, TextSays, PhaseSays, LandedPhases, IsFork, IsAnswer
    <2>16. CASE Judge(r)
      BY <2>16, <2>c, <2>d, <1>a DEF Judge, TextSays, PhaseSays, LandedPhases, Refuses
    <2>17. CASE OneLinePanics(r)
      BY <2>17, <2>c, <2>d, <1>a DEF OneLinePanics, TextSays, PhaseSays, LandedPhases
    <2>18. CASE RestoreNotebook(r)
      BY <2>18, <2>c, <2>d, <1>a DEF RestoreNotebook, TextSays, PhaseSays, LandedPhases
    <2>19. CASE RestoreStaged(r)
      BY <2>19, <2>c, <2>d, <1>a DEF RestoreStaged, TextSays, PhaseSays, LandedPhases
    <2>20. CASE RestoreFails(r)
      BY <2>20, <2>c, <2>d, <1>a DEF RestoreFails, TextSays, PhaseSays, LandedPhases
    <2>21. CASE Discard(r)
      BY <2>21, <2>c, <2>d, <1>a DEF Discard, TextSays, PhaseSays, LandedPhases
    <2>22. CASE Settle(r)
      BY <2>22, <2>c, <2>d, <1>a DEF Settle, TextSays, PhaseSays, LandedPhases
    <2>23. CASE Finish(r)
      BY <2>23, <2>c, <2>d, <1>a DEF Finish, TextSays, PhaseSays, LandedPhases
    <2>24. CASE FreeGate(r)
      BY <2>24, <2>c, <2>d, <1>a DEF FreeGate, TextSays, PhaseSays, LandedPhases
    <2>25. CASE Tell(r)
      BY <2>25, <2>c, <2>d, <1>a DEF Tell, TextSays, PhaseSays, LandedPhases
    <2>26. CASE Serve(r)
      BY <2>26, <2>1, <2>2, <2>3, <2>4, <2>5, <2>6 DEF Serve
    <2>27. CASE Write(r)
      BY <2>27, <2>7, <2>8, <2>9, <2>10, <2>11 DEF Write
    <2>28. CASE Host(r)
      BY <2>28, <2>12, <2>13, <2>14, <2>15 DEF Host
    <2>29. CASE Land(r)
      BY <2>29, <2>16, <2>17, <2>18, <2>19, <2>20, <2>21, <2>22, <2>23, <2>24, <2>25
         DEF Land
    <2> QED
      BY <1>2, <2>26, <2>27, <2>28, <2>29 DEF RunStep
  <1>3. CASE UNCHANGED vars
    BY <1>3 DEF vars, runVars, treeVars, buildVars, TextFollowed, TextSays, IsAnswer, Whole,
                Kept, InPlace, Home
  <1> QED
    BY <1>1, <1>2, <1>3 DEF Next, Arrive

\* An answer is only ever accepted on a build that read its own text: from the
\* write to the capture nothing else the supplier does touches the notebook or
\* the stage, whatever other requests arrive and however other runs end.
THEOREM AcceptedOnItsText == Spec => []JudgedOnItsText
  <1>1. Init => TypeOK /\ Phased /\ GateExact /\ TextFollowed
    BY InitTypes, InitPhased, InitGate, InitText
  <1>2. TypeOK /\ Phased /\ GateExact /\ TextFollowed /\ [Next]_vars
          => (TypeOK /\ Phased /\ GateExact /\ TextFollowed)'
    BY NextTypes, NextPhased, NextGate, NextText
  <1>3. TextFollowed => JudgedOnItsText
    BY DEF TextFollowed, TextSays, JudgedOnItsText
  <1> QED
    BY <1>1, <1>2, <1>3, PTL DEF Spec

=============================================================================
