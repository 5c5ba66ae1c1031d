----------------------------- MODULE HostsProofs -----------------------------
(***************************************************************************)
(* The safety of the runner's tally and of the end of its hosts, for any   *)
(* number of runs and any of the faults.                                   *)
(*                                                                         *)
(* Followed ties each host to how far its run has got; Tallied ties the    *)
(* tally to the set of the runs between count_in and the drop; Shut says   *)
(* what end_all knows of the tally at each of its own steps.               *)
(***************************************************************************)
EXTENDS Hosts, FiniteSetTheorems, TLAPS

\* What a run's host is, wherever its run has got to.
HostSays(r) ==
    /\ pc[r] \in {"idle", "counted"} => host[r] = "none"
    /\ pc[r] \in {"reading", "watching", "killing"} => host[r] \in {"up", "exited"}
    /\ pc[r] = "reaping" => host[r] = "exited"
    /\ pc[r] = "joining" => host[r] = "reaped"
    /\ pc[r] \in {"leaving", "over"} => host[r] \in {"none", "reaped"}

\* What is left of a host's process once the run that ends it has killed it.
TreeSays(r) ==
    /\ pc[r] \in {"idle", "counted", "reading", "watching"} => fate[r] = "none"
    /\ (fate[r] \in {"ended", "timedout"} /\ pc[r] \in {"reaping", "joining", "leaving", "over"})
          => host[r] # "up" /\ (kid[r] \in {"piped", "quiet"} => ~grouped[r])
    /\ (fate[r] \in {"ended", "timedout"} /\ pc[r] \in {"leaving", "over"})
          => host[r] = "reaped"

Followed == \A r \in Runs : HostSays(r) /\ TreeSays(r)

Shut ==
    /\ shutdown # "off" => ending
    /\ shutdown = "waiting" => running > 0
    /\ (shutdown = "over" /\ left = 0) => CountedIn = {}

-----------------------------------------------------------------------------
(* The tally's set and its size.                                            *)

LEMMA CountedFinite == IsFiniteSet(CountedIn)
<1>1. CountedIn \subseteq Runs
  BY DEF CountedIn
<1>2. QED
  BY <1>1, RunsAssumption, FS_Subset

\* A run that moves within the counted phases, or within the others, leaves the
\* set as it was.
LEMMA SameCounted ==
    ASSUME NEW r \in Runs, NEW p, TypeOK, Goto(r, p),
           pc[r] \in Counting <=> p \in Counting
    PROVE  CountedIn' = CountedIn
BY DEF TypeOK, Goto, CountedIn

LEMMA CountingIn ==
    ASSUME NEW r \in Runs, TypeOK, CountExact, Goto(r, "counted"), pc[r] = "idle",
           running' = running + 1
    PROVE  CountExact'
<1>1. CountedIn' = CountedIn \cup {r}
  BY DEF TypeOK, Goto, CountedIn, Counting
<1>2. r \notin CountedIn
  BY DEF CountedIn, Counting
<1>3. Cardinality(CountedIn \cup {r}) = Cardinality(CountedIn) + 1
  BY <1>2, CountedFinite, FS_AddElement
<1>4. QED
  BY <1>1, <1>3 DEF CountExact

LEMMA CountingOut ==
    ASSUME NEW r \in Runs, TypeOK, CountExact, Goto(r, "over"), pc[r] = "leaving",
           running' = IF running > 0 THEN running - 1 ELSE 0
    PROVE  CountExact'
<1>1. CountedIn' = CountedIn \ {r}
  BY DEF TypeOK, Goto, CountedIn, Counting
<1>2. r \in CountedIn
  BY DEF CountedIn, Counting
<1>3. Cardinality(CountedIn \ {r}) = Cardinality(CountedIn) - 1
  BY <1>2, CountedFinite, FS_RemoveElement
<1>4. Cardinality(CountedIn) \in Nat /\ Cardinality(CountedIn) # 0
  BY <1>2, CountedFinite, FS_CardinalityType, FS_EmptySet
<1>5. QED
  BY <1>1, <1>3, <1>4 DEF CountExact

LEMMA NoneCounted ==
    ASSUME CountExact, running = 0
    PROVE  CountedIn = {}
BY CountedFinite, FS_EmptySet DEF CountExact

-----------------------------------------------------------------------------
(* Types.                                                                    *)

LEMMA TypeStep == TypeOK /\ [Next]_vars => TypeOK'
<1> SUFFICES ASSUME TypeOK, [Next]_vars PROVE TypeOK'
  OBVIOUS
<1> USE DEF TypeOK, RunPhases, Fates, Shutdowns, HostStates, KidStates, tally, procs
<1>1. CASE Shutdown
  <2>1. ending' \in BOOLEAN
    BY <1>1, Zenon DEF Shutdown, EndAll, LookAgain, GiveUp
  <2>2. running' \in Nat /\ shutdown' \in Shutdowns /\ left' \in Nat
    BY <1>1 DEF Shutdown, EndAll, LookAgain, GiveUp
  <2>3. UNCHANGED <<pc, fate, procs>>
    BY <1>1 DEF Shutdown, EndAll, LookAgain, GiveUp
  <2>4. QED
    BY <2>1, <2>2, <2>3
<1>2. ASSUME NEW r \in Runs, RunStep(r) PROVE TypeOK'
  <2>1. CASE CountIn(r)
    BY <2>1 DEF CountIn, Goto, Fated
  <2>2. CASE Spawn(r)
    BY <2>2 DEF Spawn, Goto, Fated
  <2>3. CASE PipesClose(r) \/ Join(r)
    BY <2>3 DEF PipesClose, Join, Goto
  <2>4. CASE SeesEnd(r) \/ SeesDeadline(r)
    BY <2>4 DEF SeesEnd, SeesDeadline, Goto, Fated
  <2>5. CASE TryWait(r) \/ WaitFails(r)
    BY <2>5 DEF TryWait, WaitFails, Goto, Fated
  <2>6. CASE KillTree(r) \/ Reap(r)
    BY <2>6 DEF KillTree, Reap, Goto
  <2>7. CASE CountOut(r)
    BY <2>7 DEF CountOut, Goto
  <2>8. QED
    BY <1>2, <2>1, <2>2, <2>3, <2>4, <2>5, <2>6, <2>7 DEF RunStep
<1>3. ASSUME NEW r \in Runs, Process(r) PROVE TypeOK'
  BY <1>3 DEF Process, Forks, Closes, Exits, Leaves
<1>4. CASE UNCHANGED vars
  BY <1>4 DEF vars
<1>5. QED
  BY <1>1, <1>2, <1>3, <1>4 DEF Next

\* Every variable has its type (exec.rs:101-109: the tally, the flag and the
\* caller that waits), whatever the runs and the hosts do.
THEOREM TypeCorrect == Spec => []TypeOK
<1>1. Init => TypeOK
  <2> SUFFICES ASSUME Init PROVE TypeOK
    OBVIOUS
  <2>1. ending \in BOOLEAN /\ piped \in [Runs -> BOOLEAN] /\ grouped \in [Runs -> BOOLEAN]
    BY Zenon DEF Init
  <2>2. QED
    BY <2>1 DEF Init, TypeOK, RunPhases, Fates, Shutdowns, HostStates, KidStates
<1>2. QED
  BY <1>1, TypeStep, PTL DEF Spec

-----------------------------------------------------------------------------
(* The tally.                                                                *)

LEMMA CountStep == TypeOK /\ CountExact /\ [Next]_vars => CountExact'
<1> SUFFICES ASSUME TypeOK, CountExact, [Next]_vars PROVE CountExact'
  OBVIOUS
<1>1. CASE UNCHANGED <<pc, running>>
  BY <1>1 DEF CountExact, CountedIn
<1>2. ASSUME NEW r \in Runs, RunStep(r) PROVE CountExact'
  <2>1. CASE CountIn(r)
    <3>1. CASE ending
      <4>1. CountedIn' = CountedIn
        BY <2>1, <3>1, SameCounted DEF CountIn, Counting
      <4>2. QED
        BY <2>1, <3>1, <4>1 DEF CountIn, CountExact
    <3>2. CASE ~ending
      BY <2>1, <3>2, CountingIn DEF CountIn
    <3>3. QED
      BY <3>1, <3>2
  <2>2. CASE CountOut(r)
    BY <2>2, CountingOut DEF CountOut
  <2>3. ASSUME NEW p \in Counting, Goto(r, p), pc[r] \in Counting, running' = running
        PROVE  CountExact'
    <3>1. CountedIn' = CountedIn
      BY <2>3, SameCounted
    <3>2. QED
      BY <2>3, <3>1 DEF CountExact
  <2>4. CASE Spawn(r) \/ PipesClose(r) \/ SeesEnd(r) \/ SeesDeadline(r)
    BY <2>3, <2>4 DEF Spawn, PipesClose, SeesEnd, SeesDeadline, Counting, tally
  <2>5. CASE TryWait(r) \/ WaitFails(r) \/ KillTree(r) \/ Reap(r) \/ Join(r)
    BY <2>3, <2>5 DEF TryWait, WaitFails, KillTree, Reap, Join, Counting, tally
  <2>6. QED
    BY <1>2, <2>1, <2>2, <2>4, <2>5 DEF RunStep
<1>3. CASE Shutdown
  BY <1>1, <1>3 DEF Shutdown, EndAll, LookAgain, GiveUp
<1>4. ASSUME NEW r \in Runs, Process(r) PROVE CountExact'
  BY <1>1, <1>4 DEF Process, Forks, Closes, Exits, Leaves, tally
<1>5. CASE UNCHANGED vars
  BY <1>1, <1>5 DEF vars, tally
<1>6. QED
  BY <1>2, <1>3, <1>4, <1>5 DEF Next

\* exec.rs:103: the tally is the number of the runs between their count_in and
\* their drop, so end_all waits for those and for no others.
THEOREM CountIsExact == Spec => []CountExact
<1>1. Init => CountExact
  <2> SUFFICES ASSUME Init PROVE CountExact
    OBVIOUS
  <2>1. CountedIn = {}
    BY DEF Init, CountedIn, Counting
  <2>2. QED
    BY <2>1, FS_EmptySet DEF Init, CountExact
<1>2. QED
  BY <1>1, TypeCorrect, CountStep, PTL DEF Spec

-----------------------------------------------------------------------------
(* The hosts and their runs.                                                 *)

LEMMA FollowedStep == TypeOK /\ Followed /\ [Next]_vars => Followed'
<1> SUFFICES ASSUME TypeOK, Followed, [Next]_vars PROVE Followed'
  OBVIOUS
<1> USE DEF TypeOK, Followed, HostSays, TreeSays, RunPhases, HostStates, KidStates, Fates
<1>1. CASE UNCHANGED <<pc, fate, procs>>
  BY <1>1 DEF procs
<1>2. ASSUME NEW r \in Runs, RunStep(r) PROVE Followed'
  <2>1. CASE CountIn(r)
    BY <2>1 DEF CountIn, Goto, Fated, procs
  <2>2. CASE Spawn(r)
    BY <2>2 DEF Spawn, Goto, Fated
  <2>3. CASE PipesClose(r) \/ Join(r)
    BY <2>3 DEF PipesClose, Join, Goto, procs
  <2>4. CASE SeesEnd(r) \/ SeesDeadline(r)
    BY <2>4 DEF SeesEnd, SeesDeadline, Goto, Fated, procs
  <2>5. CASE TryWait(r) \/ WaitFails(r)
    BY <2>5 DEF TryWait, WaitFails, Goto, Fated
  <2>6. CASE KillTree(r)
    BY <2>6 DEF KillTree, Goto
  <2>7. CASE Reap(r)
    BY <2>7 DEF Reap, Goto
  <2>8. CASE CountOut(r)
    BY <2>8 DEF CountOut, Goto, procs
  <2>9. QED
    BY <1>2, <2>1, <2>2, <2>3, <2>4, <2>5, <2>6, <2>7, <2>8 DEF RunStep
<1>3. CASE Shutdown
  BY <1>1, <1>3 DEF Shutdown, EndAll, LookAgain, GiveUp
<1>4. ASSUME NEW r \in Runs, Process(r) PROVE Followed'
  <2>1. CASE Forks(r)
    BY <2>1 DEF Forks
  <2>2. CASE Closes(r)
    BY <2>2 DEF Closes
  <2>3. CASE Exits(r)
    BY <2>3 DEF Exits
  <2>4. CASE Leaves(r)
    BY <2>4 DEF Leaves
  <2>5. QED
    BY <1>4, <2>1, <2>2, <2>3, <2>4 DEF Process
<1>5. CASE UNCHANGED vars
  BY <1>1, <1>5 DEF vars
<1>6. QED
  BY <1>2, <1>3, <1>4, <1>5 DEF Next

LEMMA AlwaysFollowed == Spec => []Followed
<1>1. Init => Followed
  BY DEF Init, Followed, HostSays, TreeSays
<1>2. QED
  BY <1>1, TypeCorrect, FollowedStep, PTL DEF Spec

\* exec.rs:89 "A host is counted from just before it is spawned until its run
\* has reaped it": no host runs, or waits to be reaped, outside the tally.
THEOREM CountedUntilReaped == Spec => []CountedWhileUp
<1>1. TypeOK /\ Followed => CountedWhileUp
  BY DEF TypeOK, Followed, HostSays, CountedWhileUp, CountedIn, Counting, RunPhases
<1>2. QED
  BY <1>1, TypeCorrect, AlwaysFollowed, PTL

\* exec.rs:91: whoever signals a host's tree has not reaped the host, so the
\* group's id is still the host's own.
THEOREM SignalsOnlyItsOwn == Spec => []SignalsItsOwn
<1>1. Followed => SignalsItsOwn
  BY DEF Followed, HostSays, SignalsItsOwn
<1>2. QED
  BY <1>1, AlwaysFollowed, PTL

\* exec.rs:8: the host a timeout or a shutdown ended is gone, and so is every
\* process it started that did not leave its group.
THEOREM TheTreeIsEnded == Spec => []EndsTheTree
<1>1. Followed => EndsTheTree
  BY DEF Followed, HostSays, TreeSays, EndsTheTree
<1>2. QED
  BY <1>1, AlwaysFollowed, PTL

-----------------------------------------------------------------------------
(* The shutdown.                                                             *)

LEMMA ShutStep == TypeOK /\ CountExact /\ CountExact' /\ Shut /\ [Next]_vars => Shut'
<1> SUFFICES ASSUME TypeOK, CountExact, CountExact', Shut, [Next]_vars PROVE Shut'
  OBVIOUS
<1>1. CASE UNCHANGED <<pc, tally>>
  BY <1>1 DEF Shut, CountedIn, tally
<1>2. ASSUME NEW r \in Runs, RunStep(r) PROVE Shut'
  <2>1. CASE CountIn(r)
    <3>1. CASE ending
      <4>1. CountedIn' = CountedIn
        BY <2>1, <3>1, SameCounted DEF CountIn, Counting
      <4>2. QED
        BY <2>1, <3>1, <4>1 DEF CountIn, Shut
    <3>2. CASE ~ending
      BY <2>1, <3>2 DEF CountIn, Shut, TypeOK, Shutdowns
    <3>3. QED
      BY <3>1, <3>2
  <2>2. CASE CountOut(r)
    <3>1. r \in CountedIn
      BY <2>2 DEF CountOut, CountedIn, Counting
    <3>2. ~(shutdown = "over" /\ left = 0)
      BY <3>1 DEF Shut
    <3>3. QED
      BY <2>2, <3>2 DEF CountOut, Shut, TypeOK
  <2>3. ASSUME NEW p \in Counting, Goto(r, p), pc[r] \in Counting, UNCHANGED tally
        PROVE  Shut'
    <3>1. CountedIn' = CountedIn
      BY <2>3, SameCounted
    <3>2. QED
      BY <2>3, <3>1 DEF Shut, tally
  <2>4. CASE Spawn(r) \/ PipesClose(r) \/ SeesEnd(r) \/ SeesDeadline(r)
    BY <2>3, <2>4 DEF Spawn, PipesClose, SeesEnd, SeesDeadline, Counting
  <2>5. CASE TryWait(r) \/ WaitFails(r) \/ KillTree(r) \/ Reap(r) \/ Join(r)
    BY <2>3, <2>5 DEF TryWait, WaitFails, KillTree, Reap, Join, Counting
  <2>6. QED
    BY <1>2, <2>1, <2>2, <2>4, <2>5 DEF RunStep
<1>3. CASE Shutdown
  <2>1. CountedIn' = CountedIn
    BY <1>3 DEF Shutdown, EndAll, LookAgain, GiveUp, CountedIn
  <2>2. CASE EndAll
    BY <2>1, <2>2, NoneCounted DEF EndAll, Shut, TypeOK
  <2>3. CASE LookAgain
    BY <2>1, <2>3, NoneCounted DEF LookAgain, Shut, TypeOK
  <2>4. CASE GiveUp
    BY <2>1, <2>4, NoneCounted DEF GiveUp, Shut, TypeOK
  <2>5. QED
    BY <1>3, <2>2, <2>3, <2>4 DEF Shutdown
<1>4. ASSUME NEW r \in Runs, Process(r) PROVE Shut'
  BY <1>1, <1>4 DEF Process, Forks, Closes, Exits, Leaves
<1>5. CASE UNCHANGED vars
  BY <1>1, <1>5 DEF vars
<1>6. QED
  BY <1>2, <1>3, <1>4, <1>5 DEF Next

LEMMA AlwaysShut == Spec => []Shut
<1>1. Init => Shut
  BY DEF Init, Shut
<1>2. QED
  BY <1>1, TypeCorrect, CountIsExact, ShutStep, PTL DEF Spec

\* exec.rs:108: the caller of end_all never sleeps on a tally that is already
\* zero: whoever takes it to zero wakes the caller.
THEOREM NoWakeupIsLost == Spec => []NoLostWakeup
<1>1. Shut => NoLostWakeup
  BY DEF Shut, NoLostWakeup
<1>2. QED
  BY <1>1, AlwaysShut, PTL

\* exec.rs:127: an end_all that answered none left no host running, and none
\* can have started since: the flag and the tally are read under one lock.
THEOREM NoHostOutlives == Spec => []NothingOutlives
<1>1. TypeOK /\ Followed /\ Shut => NothingOutlives
  <2> SUFFICES ASSUME TypeOK, Followed, Shut, shutdown = "over", left = 0
               PROVE  /\ CountedIn = {}
                      /\ \A r \in Runs : host[r] \in {"none", "reaped"}
    BY DEF NothingOutlives
  <2>1. CountedIn = {}
    BY DEF Shut
  <2>2. ASSUME NEW r \in Runs PROVE host[r] \in {"none", "reaped"}
    <3>1. pc[r] \in {"idle", "over"}
      BY <2>1 DEF CountedIn, Counting, TypeOK, RunPhases
    <3>2. QED
      BY <3>1 DEF Followed, HostSays
  <2>3. QED
    BY <2>1, <2>2
<1>2. QED
  BY <1>1, TypeCorrect, AlwaysFollowed, AlwaysShut, PTL

=============================================================================
