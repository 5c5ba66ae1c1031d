-------------------------------- MODULE Hosts --------------------------------
(***************************************************************************)
(* The runner's hosts and their end.  Each run counts its host in, spawns  *)
(* it as the leader of a process group, reads its pipes, watches it once   *)
(* they have closed, and reaps it; a timeout or a shutdown makes the run's *)
(* own thread kill the group first.  Hosts::end_all tells every run, waits *)
(* for the tally to reach zero, and refuses every host after it.           *)
(*                                                                         *)
(* Source: exec.rs (Hosts, Tally, Counted, run_counted, the unix tree).    *)
(*                                                                         *)
(* Lines, bytes and exit codes are left out, and so is the clock: a        *)
(* deadline may pass at any time.  A host, and the one process it may      *)
(* start, are external.                                                    *)
(***************************************************************************)
EXTENDS Integers, FiniteSets

CONSTANTS
    Runs,       \* the calls of Runner::run
    Faults      \* of the faults below, those the environment may commit

\* A host that cannot be spawned, a wait that fails, a process that leaves its
\* host's group on purpose.
FaultKinds == {"spawn", "wait", "leave"}

ASSUME RunsAssumption == IsFiniteSet(Runs)
ASSUME FaultsAssumption == Faults \subseteq FaultKinds

VARIABLES
    running,    \* Tally::running, the number counted in
    ending,     \* Tally::ending
    shutdown,   \* the caller of end_all: "off", "waiting", "woken" or "over"
    left,       \* what end_all answered
    pc,         \* how far each run has got
    fate,       \* why a run's host was ended, or how the run came to its end
    host,       \* each run's host: "none", "up", "exited" or "reaped"
    piped,      \* does the host hold its output pipes?
    kid,        \* the process the host started
    grouped     \* is that process in the host's group?

tally == <<running, ending, shutdown, left>>
procs == <<host, piped, kid, grouped>>
vars == <<tally, pc, fate, procs>>

RunPhases == {"idle", "counted", "reading", "watching", "killing", "reaping",
              "joining", "leaving", "over"}
Fates == {"none", "refused", "failed", "exited", "ended", "timedout"}
Shutdowns == {"off", "waiting", "woken", "over"}
HostStates == {"none", "up", "exited", "reaped"}
KidStates == {"none", "piped", "quiet", "dead"}

\* Counted lives from count_in to its drop.
Counting == {"counted", "reading", "watching", "killing", "reaping", "joining", "leaving"}
CountedIn == {r \in Runs : pc[r] \in Counting}

\* Somebody still holds the write end of a pipe.
PipesOpen(r) == (host[r] = "up" /\ piped[r]) \/ kid[r] = "piped"

Init ==
    /\ running = 0
    /\ ending = FALSE
    /\ shutdown = "off"
    /\ left = 0
    /\ pc = [r \in Runs |-> "idle"]
    /\ fate = [r \in Runs |-> "none"]
    /\ host = [r \in Runs |-> "none"]
    /\ piped = [r \in Runs |-> FALSE]
    /\ kid = [r \in Runs |-> "none"]
    /\ grouped = [r \in Runs |-> FALSE]

-----------------------------------------------------------------------------
(* The run (run_counted).                                                    *)

Goto(r, p) == pc' = [pc EXCEPT ![r] = p]
Fated(r, f) == fate' = [fate EXCEPT ![r] = f]

\* Seeded bug: a host is counted in whether or not the end has begun.
CountIn_Always(r) ==
    /\ pc[r] = "idle"
    /\ running' = running + 1
    /\ Goto(r, "counted")
    /\ UNCHANGED <<ending, shutdown, left, fate, procs>>

\* count_in, with the tally locked: counted, or refused once the end has begun.
CountIn(r) ==
    /\ pc[r] = "idle"
    /\ IF ending
       THEN /\ Goto(r, "over")
            /\ Fated(r, "refused")
            /\ UNCHANGED running
       ELSE /\ running' = running + 1
            /\ Goto(r, "counted")
            /\ UNCHANGED fate
    /\ UNCHANGED <<ending, shutdown, left, procs>>

\* Seeded bug: a run whose host cannot be spawned is never counted out.
Spawn_Leaks(r) ==
    /\ pc[r] = "counted"
    /\ \/ /\ host' = [host EXCEPT ![r] = "up"]
          /\ piped' = [piped EXCEPT ![r] = TRUE]
          /\ Goto(r, "reading")
          /\ UNCHANGED fate
       \/ /\ Fated(r, "failed")
          /\ Goto(r, "over")
          /\ UNCHANGED <<host, piped>>
    /\ UNCHANGED <<tally, kid, grouped>>

\* The host starts, or it cannot and the run says so.
Spawn(r) ==
    /\ pc[r] = "counted"
    /\ \/ /\ host' = [host EXCEPT ![r] = "up"]
          /\ piped' = [piped EXCEPT ![r] = TRUE]
          /\ Goto(r, "reading")
          /\ UNCHANGED fate
       \/ /\ "spawn" \in Faults
          /\ Fated(r, "failed")
          /\ Goto(r, "leaving")
          /\ UNCHANGED <<host, piped>>
    /\ UNCHANGED <<tally, kid, grouped>>

\* Both drainers are done: the channel is disconnected, which leaves the loop
\* before the end and the clock are looked at.
PipesClose(r) ==
    /\ pc[r] = "reading"
    /\ ~PipesOpen(r)
    /\ Goto(r, "watching")
    /\ UNCHANGED <<tally, fate, procs>>

\* A line or a tick later the end has begun.
SeesEnd(r) ==
    /\ pc[r] = "reading" \/ (pc[r] = "watching" /\ host[r] = "up")
    /\ ending
    /\ Fated(r, "ended")
    /\ Goto(r, "killing")
    /\ UNCHANGED <<tally, procs>>

\* Seeded bug: a run that has timed out returns, its host running on.
SeesDeadline_Returns(r) ==
    /\ pc[r] = "reading" \/ (pc[r] = "watching" /\ host[r] = "up")
    /\ ~ending
    /\ Fated(r, "timedout")
    /\ Goto(r, "leaving")
    /\ UNCHANGED <<tally, procs>>

\* Seeded bug: the clock is not looked at while the pipes are open.
SeesDeadline_OnlyWatching(r) ==
    /\ pc[r] = "watching" /\ host[r] = "up"
    /\ ~ending
    /\ Fated(r, "timedout")
    /\ Goto(r, "killing")
    /\ UNCHANGED <<tally, procs>>

\* ... or it has not, and the deadline has passed.
SeesDeadline(r) ==
    /\ pc[r] = "reading" \/ (pc[r] = "watching" /\ host[r] = "up")
    /\ ~ending
    /\ Fated(r, "timedout")
    /\ Goto(r, "killing")
    /\ UNCHANGED <<tally, procs>>

\* Seeded bug: the clock is looked at after the host has been reaped.
TryWait_ThenClock(r) ==
    /\ pc[r] = "watching"
    /\ host[r] = "exited"
    /\ host' = [host EXCEPT ![r] = "reaped"]
    /\ \/ Fated(r, "exited") /\ Goto(r, "joining")
       \/ Fated(r, "timedout") /\ Goto(r, "killing")
    /\ UNCHANGED <<tally, piped, kid, grouped>>

\* try_wait reaps a host that has exited ...
TryWait(r) ==
    /\ pc[r] = "watching"
    /\ host[r] = "exited"
    /\ host' = [host EXCEPT ![r] = "reaped"]
    /\ Fated(r, "exited")
    /\ Goto(r, "joining")
    /\ UNCHANGED <<tally, piped, kid, grouped>>

\* ... or says there is no such child (the system reaped it): the run returns
\* at once, its drainers not joined.
WaitFails(r) ==
    /\ "wait" \in Faults
    /\ pc[r] = "watching"
    /\ host[r] = "exited"
    /\ host' = [host EXCEPT ![r] = "reaped"]
    /\ Fated(r, "failed")
    /\ Goto(r, "leaving")
    /\ UNCHANGED <<tally, piped, kid, grouped>>

\* Seeded bug: the host alone is killed, not its group.
KillTree_HostAlone(r) ==
    /\ pc[r] = "killing"
    /\ host' = [host EXCEPT ![r] = IF @ = "up" THEN "exited" ELSE @]
    /\ Goto(r, "reaping")
    /\ UNCHANGED <<tally, fate, piped, kid, grouped>>

\* Seeded bug: counted out as soon as the host is told to end.
KillTree_CountsOut(r) ==
    /\ pc[r] = "killing"
    /\ host' = [host EXCEPT ![r] = IF @ = "up" THEN "exited" ELSE @]
    /\ kid' = [kid EXCEPT ![r] = IF grouped[r] THEN "dead" ELSE @]
    /\ running' = running - 1
    /\ Goto(r, "reaping")
    /\ UNCHANGED <<ending, shutdown, left, fate, piped, grouped>>

\* Tree::end: the whole group, the host with it.
KillTree(r) ==
    /\ pc[r] = "killing"
    /\ host' = [host EXCEPT ![r] = IF @ = "up" THEN "exited" ELSE @]
    /\ kid' = [kid EXCEPT ![r] = IF grouped[r] THEN "dead" ELSE @]
    /\ Goto(r, "reaping")
    /\ UNCHANGED <<tally, fate, piped, grouped>>

\* Child::wait, after the kill.
Reap(r) ==
    /\ pc[r] = "reaping"
    /\ host' = [host EXCEPT ![r] = "reaped"]
    /\ Goto(r, "joining")
    /\ UNCHANGED <<tally, fate, piped, kid, grouped>>

\* The drainers are joined: each ends when its pipe has no writer left.
Join(r) ==
    /\ pc[r] = "joining"
    /\ ~PipesOpen(r)
    /\ Goto(r, "leaving")
    /\ UNCHANGED <<tally, fate, procs>>

\* Seeded bug: whoever waits for the tally is not told.
CountOut_Silent(r) ==
    /\ pc[r] = "leaving"
    /\ running' = running - 1
    /\ Goto(r, "over")
    /\ UNCHANGED <<ending, shutdown, left, fate, procs>>

\* Counted::drop, with the tally locked.
CountOut(r) ==
    /\ pc[r] = "leaving"
    /\ running' = IF running > 0 THEN running - 1 ELSE 0
    /\ shutdown' = IF shutdown = "waiting" THEN "woken" ELSE shutdown
    /\ Goto(r, "over")
    /\ UNCHANGED <<ending, left, fate, procs>>

-----------------------------------------------------------------------------
(* The shutdown (end_all).                                                   *)

\* With the tally locked: the end begins, and the caller waits while any host
\* is counted in.
EndAll ==
    /\ shutdown = "off"
    /\ ending' = TRUE
    /\ IF running > 0 THEN shutdown' = "waiting" /\ UNCHANGED left
                      ELSE shutdown' = "over" /\ left' = 0
    /\ UNCHANGED <<running, pc, fate, procs>>

\* Woken by a run counted out, it looks again.
LookAgain ==
    /\ shutdown = "woken"
    /\ IF running > 0 THEN shutdown' = "waiting" /\ UNCHANGED left
                      ELSE shutdown' = "over" /\ left' = 0
    /\ UNCHANGED <<running, ending, pc, fate, procs>>

\* Its time is up: it answers how many are still counted in.
GiveUp ==
    /\ shutdown \in {"waiting", "woken"}
    /\ shutdown' = "over"
    /\ left' = running
    /\ UNCHANGED <<running, ending, pc, fate, procs>>

-----------------------------------------------------------------------------
(* A host and the process it starts (external).                              *)

Forks(r) ==
    /\ host[r] = "up"
    /\ kid[r] = "none"
    /\ kid' = [kid EXCEPT ![r] = IF piped[r] THEN "piped" ELSE "quiet"]
    /\ grouped' = [grouped EXCEPT ![r] = TRUE]
    /\ UNCHANGED <<tally, pc, fate, host, piped>>

\* Either may close the pipes and run on.
Closes(r) ==
    /\ \/ host[r] = "up" /\ piped' = [piped EXCEPT ![r] = FALSE] /\ UNCHANGED kid
       \/ kid[r] = "piped" /\ kid' = [kid EXCEPT ![r] = "quiet"] /\ UNCHANGED piped
    /\ UNCHANGED <<tally, pc, fate, host, grouped>>

Exits(r) ==
    /\ \/ /\ host[r] = "up"
          /\ host' = [host EXCEPT ![r] = "exited"]
          /\ UNCHANGED kid
       \/ /\ kid[r] \in {"piped", "quiet"}
          /\ kid' = [kid EXCEPT ![r] = "dead"]
          /\ UNCHANGED host
    /\ UNCHANGED <<tally, pc, fate, piped, grouped>>

Leaves(r) ==
    /\ "leave" \in Faults
    /\ kid[r] \in {"piped", "quiet"}
    /\ grouped' = [grouped EXCEPT ![r] = FALSE]
    /\ UNCHANGED <<tally, pc, fate, host, piped, kid>>

-----------------------------------------------------------------------------
RunStep(r) ==
    \/ CountIn(r) \/ Spawn(r) \/ PipesClose(r) \/ SeesEnd(r) \/ SeesDeadline(r)
    \/ TryWait(r) \/ WaitFails(r) \/ KillTree(r) \/ Reap(r) \/ Join(r) \/ CountOut(r)

Shutdown == EndAll \/ LookAgain \/ GiveUp

Process(r) == Forks(r) \/ Closes(r) \/ Exits(r) \/ Leaves(r)

Next == Shutdown \/ \E r \in Runs : RunStep(r) \/ Process(r)

Spec == Init /\ [][Next]_vars

\* A run's thread goes on, and the clock with it; nothing is asked of a host,
\* of the processes it starts or of whoever asks for a shutdown.
Fairness ==
    /\ \A r \in Runs : WF_vars(pc[r] # "idle" /\ RunStep(r))
    /\ WF_vars(LookAgain \/ GiveUp)

FairSpec == Spec /\ Fairness

-----------------------------------------------------------------------------
(* What must hold.                                                           *)

TypeOK ==
    /\ running \in Nat
    /\ ending \in BOOLEAN
    /\ shutdown \in Shutdowns
    /\ left \in Nat
    /\ pc \in [Runs -> RunPhases]
    /\ fate \in [Runs -> Fates]
    /\ host \in [Runs -> HostStates]
    /\ piped \in [Runs -> BOOLEAN]
    /\ kid \in [Runs -> KidStates]
    /\ grouped \in [Runs -> BOOLEAN]

\* exec.rs:103: the tally is the number of the runs that have counted in and
\* not out, whatever they raced with.
CountExact == running = Cardinality(CountedIn)

\* exec.rs:89 "A host is counted from just before it is spawned until its run
\* has reaped it."
CountedWhileUp == \A r \in Runs : host[r] \in {"up", "exited"} => r \in CountedIn

\* exec.rs:127: end_all that answered none left no host behind, and none has
\* started since: a run that raced the end was either seen or refused.
NothingOutlives ==
    shutdown = "over" /\ left = 0 =>
        /\ CountedIn = {}
        /\ \A r \in Runs : host[r] \in {"none", "reaped"}

\* exec.rs:91: the only thread that signals a host's tree has not reaped the
\* host yet, so no signal can reach a process that has since taken its id.
SignalsItsOwn == \A r \in Runs : pc[r] = "killing" => host[r] \in {"up", "exited"}

\* end_all never sleeps on a tally nobody will lower: no wake-up is lost.
NoLostWakeup == shutdown = "waiting" => running > 0

\* exec.rs:8: a timeout or a shutdown ends the host with every process it
\* started that did not leave on purpose.
EndsTheTree ==
    \A r \in Runs :
        (fate[r] \in {"ended", "timedout"} /\ pc[r] \in {"joining", "leaving", "over"})
            => host[r] = "reaped" /\ (kid[r] \in {"piped", "quiet"} => ~grouped[r])

\* exec.rs:8 "Everything is bounded": a run that is counted in returns, however
\* its host behaves, unless a process that left the group holds its pipes.
RunsReturn ==
    \A r \in Runs :
        pc[r] = "counted" ~> (pc[r] = "over" \/ (kid[r] = "piped" /\ ~grouped[r]))

=============================================================================
