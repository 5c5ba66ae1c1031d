----------------------------- MODULE Publication -----------------------------
(***************************************************************************)
(* Publishing builds onto the value surfaces.  Each build that finishes    *)
(* becomes the bundle root's latest and is handed to a task of its own,    *)
(* which picks every chain it will write up, asks whether it has been      *)
(* overtaken, and writes one document per chain.  The tasks share one      *)
(* Writer: a chain is picked up once per process, under a lock held while  *)
(* the node replays it, forgotten when the node refuses a write to it, and *)
(* a refused write goes once more.                                         *)
(*                                                                         *)
(* Sources: supplier/publication.rs, writer.rs, attach.rs; publish.rs;     *)
(* finish in landing.rs; write_latest and latest_build in bundle.rs.       *)
(*                                                                         *)
(* A document's payload is the build it comes from, and a chain's folded   *)
(* value the build whose document it shows.  The node and the client's     *)
(* session are external: an append is one step, refused or folded.         *)
(***************************************************************************)
EXTENDS Integers, Sequences

CONSTANTS
    MaxBuilds,     \* bound: the builds that may finish
    Chains,        \* the chains of the value surfaces
    Docs,          \* Docs[b]: the chains build b has a document for, as published
    MaxRefusals,   \* bound: the writes the node refuses for its own reasons
    Faults         \* of the faults below, those the environment may commit

\* write_latest fails; a subscribe is refused or its connection ends; an append
\* has no connection to go out on.
FaultKinds == {"pointer", "resume", "link"}

\* Build 0 is one an earlier session left; b is the b-th stamp of this one.
Builds == 0 .. MaxBuilds
NoBuild == -1
NoTask == -1

ASSUME MaxBuildsAssumption == MaxBuilds \in Nat
ASSUME DocsAssumption == Docs \in [Builds -> Seq(Chains)]
ASSUME MaxRefusalsAssumption == MaxRefusals \in Nat
ASSUME FaultsAssumption == Faults \subseteq FaultKinds

VARIABLES
    whole,      \* the builds that hold a streams.json
    latest,     \* latest.json
    pc,         \* how far each build's publication has got
    todo,       \* the chains it has still to pick up, or to write
    tries,      \* which attempt the write in hand is on
    lock,       \* the task that holds Resumed::seen across its subscribe
    seen,       \* Resumed::seen
    session,    \* what the client's session holds of each chain
    value,      \* what each chain's fold shows: a build, or NoBuild
    refusals,   \* how many writes the node has refused for its own reasons
    wrote,      \* history: the chains each build's document has landed on
    said,       \* history: the documents each task said it could not publish
    unresumed,  \* history: the chains a subscribe has failed on
    raced       \* history: has a build finished under a task already writing?

rootVars == <<whole, latest>>
nodeVars == <<session, value, refusals>>
history == <<wrote, said, unresumed, raced>>
vars == <<rootVars, pc, todo, tries, lock, seen, nodeVars, history>>

Phases == {"none", "resuming", "writing", "appending", "forgetting", "done"}
Sessions == {"unknown", "held", "dropped"}

\* The chain a task has to deal with next, and the chains of a list of documents.
Chain(t) == Head(todo[t])
ChainsOf(docs) == {docs[i] : i \in 1 .. Len(docs)}

\* Is b what latest_build answers?  The pointer's build while it is whole, else
\* the newest whole one.
IsLatest(b) ==
    /\ b \in whole
    /\ IF latest \in whole THEN b = latest ELSE \A c \in whole : c <= b

Init ==
    /\ whole \in {{}, {0}}
    /\ latest = IF 0 \in whole THEN 0 ELSE NoBuild
    /\ pc = [t \in Builds |-> IF t \in whole THEN "resuming" ELSE "none"]
    /\ todo = [t \in Builds |-> IF t \in whole THEN Docs[t] ELSE <<>>]
    /\ tries = [t \in Builds |-> 1]
    /\ lock = NoTask
    /\ seen = {}
    /\ session = [c \in Chains |-> "unknown"]
    /\ value \in {[c \in Chains |-> NoBuild], [c \in Chains |-> 0]}
    /\ refusals = 0
    /\ wrote = [t \in Builds |-> {}]
    /\ said = [t \in Builds |-> {}]
    /\ unresumed = {}
    /\ raced = FALSE

-----------------------------------------------------------------------------
(* The bundle root.                                                          *)

\* finish: the build is recorded as the latest, then its publication spawned;
\* builds end in any order, the one first stamped perhaps last.
Finish(b) ==
    /\ b \in Builds \ {0}
    /\ b \notin whole
    /\ whole' = whole \cup {b}
    /\ latest' = b \/ ("pointer" \in Faults /\ UNCHANGED latest)
    /\ pc' = [pc EXCEPT ![b] = "resuming"]
    /\ todo' = [todo EXCEPT ![b] = Docs[b]]
    /\ raced' = (raced \/ \E t \in Builds : pc[t] \in {"writing", "appending", "forgetting"})
    /\ UNCHANGED <<tries, lock, seen, nodeVars, wrote, said, unresumed>>

-----------------------------------------------------------------------------
(* Picking a chain up (Resumed::once).                                       *)

\* The chain a task is to pick up now: each of its own in turn before the
\* check, then the one each attempt is about to write.
PicksUp(t) == pc[t] \in {"resuming", "writing"} /\ todo[t] # <<>>

\* It is picked up: on to the next, or to the append.
Onward(t) ==
    IF pc[t] = "writing"
    THEN pc' = [pc EXCEPT ![t] = "appending"] /\ UNCHANGED todo
    ELSE todo' = [todo EXCEPT ![t] = Tail(@)] /\ UNCHANGED pc

\* Marked as picked up, with the lock kept while the node replays it.
PickUp(t) ==
    /\ PicksUp(t)
    /\ lock = NoTask
    /\ Chain(t) \notin seen
    /\ lock' = t
    /\ seen' = seen \cup {Chain(t)}
    /\ UNCHANGED <<rootVars, pc, todo, tries, nodeVars, history>>

\* Seeded bug: the lock is not kept, and a mark is taken for a replay.
PickedUp_Unlocked(t) ==
    /\ PicksUp(t)
    /\ lock # t
    /\ Chain(t) \in seen
    /\ Onward(t)
    /\ UNCHANGED <<rootVars, tries, lock, seen, nodeVars, history>>

PickedUp(t) ==
    /\ PicksUp(t)
    /\ lock = NoTask
    /\ Chain(t) \in seen
    /\ Onward(t)
    /\ UNCHANGED <<rootVars, tries, lock, seen, nodeVars, history>>

\* Seeded bug: a subscribe that fails keeps the lock.
Subscribed_Leaks(t) ==
    /\ PicksUp(t)
    /\ lock = t
    /\ \/ /\ session' = [session EXCEPT ![Chain(t)] = "held"]
          /\ lock' = NoTask
          /\ UNCHANGED unresumed
       \/ /\ "resume" \in Faults
          /\ unresumed' = unresumed \cup {Chain(t)}
          /\ UNCHANGED <<session, lock>>
    /\ Onward(t)
    /\ UNCHANGED <<rootVars, tries, seen, value, refusals, wrote, said, raced>>

\* The replay is done, or the subscribe failed: said, and the write goes ahead.
Subscribed(t) ==
    /\ lock = t
    /\ lock' = NoTask
    /\ \/ /\ session' = [session EXCEPT ![Chain(t)] = "held"]
          /\ UNCHANGED unresumed
       \/ /\ "resume" \in Faults
          /\ unresumed' = unresumed \cup {Chain(t)}
          /\ UNCHANGED session
    /\ Onward(t)
    /\ UNCHANGED <<rootVars, tries, seen, value, refusals, wrote, said, raced>>

-----------------------------------------------------------------------------
(* The check, after the last replay.                                         *)

\* Seeded bug: the newest stamp arbitrates, not the pointer.
Check_ByStamp(t) ==
    /\ pc[t] = "resuming"
    /\ todo[t] = <<>>
    /\ IF \E b \in whole : b > t
       THEN pc' = [pc EXCEPT ![t] = "done"] /\ UNCHANGED todo
       ELSE /\ pc' = [pc EXCEPT ![t] = "writing"]
            /\ todo' = [todo EXCEPT ![t] = Docs[t]]
    /\ UNCHANGED <<rootVars, tries, lock, seen, nodeVars, history>>

\* Seeded bug: nothing is asked once the chains are picked up.
Check_Never(t) ==
    /\ pc[t] = "resuming"
    /\ todo[t] = <<>>
    /\ pc' = [pc EXCEPT ![t] = "writing"]
    /\ todo' = [todo EXCEPT ![t] = Docs[t]]
    /\ UNCHANGED <<rootVars, tries, lock, seen, nodeVars, history>>

Check(t) ==
    /\ pc[t] = "resuming"
    /\ todo[t] = <<>>
    /\ IF ~IsLatest(t)
       THEN pc' = [pc EXCEPT ![t] = "done"] /\ UNCHANGED todo
       ELSE /\ pc' = [pc EXCEPT ![t] = "writing"]
            /\ todo' = [todo EXCEPT ![t] = Docs[t]]
    /\ UNCHANGED <<rootVars, tries, lock, seen, nodeVars, history>>

Finished(t) ==
    /\ pc[t] = "writing"
    /\ todo[t] = <<>>
    /\ pc' = [pc EXCEPT ![t] = "done"]
    /\ UNCHANGED <<rootVars, todo, tries, lock, seen, nodeVars, history>>

-----------------------------------------------------------------------------
(* A write (Writer::write, attempt).                                         *)

\* This document is dealt with; the next one is in hand.
NextDoc(t) ==
    /\ pc' = [pc EXCEPT ![t] = "writing"]
    /\ todo' = [todo EXCEPT ![t] = Tail(@)]
    /\ tries' = [tries EXCEPT ![t] = 1]

\* The op goes out on a chain the session holds, or on one nobody has written,
\* and is folded: its lamport is above every one in the chain.
Accepted(t) ==
    /\ pc[t] = "appending"
    /\ \/ session[Chain(t)] = "held"
       \/ session[Chain(t)] = "unknown" /\ value[Chain(t)] = NoBuild
    /\ session' = [session EXCEPT ![Chain(t)] = "held"]
    /\ value' = [value EXCEPT ![Chain(t)] = t]
    /\ wrote' = [wrote EXCEPT ![t] = @ \cup {Chain(t)}]
    /\ NextDoc(t)
    /\ UNCHANGED <<rootVars, lock, seen, refusals, said, unresumed, raced>>

\* The node refuses it: for its own reasons, or as an equivocation on a chain
\* appended to without its history.  The client drops the chain.
Refused(t) ==
    /\ pc[t] = "appending"
    /\ \/ /\ session[Chain(t)] = "unknown"
          /\ value[Chain(t)] # NoBuild
          /\ UNCHANGED refusals
       \/ /\ session[Chain(t)] # "dropped"
          /\ refusals < MaxRefusals
          /\ refusals' = refusals + 1
    /\ session' = [session EXCEPT ![Chain(t)] = "dropped"]
    /\ pc' = [pc EXCEPT ![t] = "forgetting"]
    /\ UNCHANGED <<rootVars, todo, tries, lock, seen, value, history>>

\* The client's own error: no connection, or a chain it writes no more until a
\* subscribe picks it up.  The document is said not to be published.
NoAnswer(t) ==
    /\ pc[t] = "appending"
    /\ session[Chain(t)] = "dropped" \/ "link" \in Faults
    /\ said' = [said EXCEPT ![t] = @ \cup {Chain(t)}]
    /\ NextDoc(t)
    /\ UNCHANGED <<rootVars, lock, seen, nodeVars, wrote, unresumed, raced>>

\* Seeded bug: the refused chain is tried again without being forgotten.
Forget_Keeps(t) ==
    /\ pc[t] = "forgetting"
    /\ lock = NoTask
    /\ IF tries[t] = 1
       THEN /\ tries' = [tries EXCEPT ![t] = 2]
            /\ pc' = [pc EXCEPT ![t] = "writing"]
            /\ UNCHANGED <<todo, said>>
       ELSE /\ said' = [said EXCEPT ![t] = @ \cup {Chain(t)}]
            /\ NextDoc(t)
    /\ UNCHANGED <<rootVars, lock, seen, nodeVars, wrote, unresumed, raced>>

\* Seeded bug: a refused write is tried until it is accepted.
Forget_Again(t) ==
    /\ pc[t] = "forgetting"
    /\ lock = NoTask
    /\ seen' = seen \ {Chain(t)}
    /\ tries' = [tries EXCEPT ![t] = @ + 1]
    /\ pc' = [pc EXCEPT ![t] = "writing"]
    /\ UNCHANGED <<rootVars, todo, lock, nodeVars, history>>

\* Resumed::forget, and the write goes once more; a second refusal drops it.
Forget(t) ==
    /\ pc[t] = "forgetting"
    /\ lock = NoTask
    /\ seen' = seen \ {Chain(t)}
    /\ IF tries[t] = 1
       THEN /\ tries' = [tries EXCEPT ![t] = 2]
            /\ pc' = [pc EXCEPT ![t] = "writing"]
            /\ UNCHANGED <<todo, said>>
       ELSE /\ said' = [said EXCEPT ![t] = @ \cup {Chain(t)}]
            /\ NextDoc(t)
    /\ UNCHANGED <<rootVars, lock, nodeVars, wrote, unresumed, raced>>

-----------------------------------------------------------------------------
Publish(t) ==
    \/ PickUp(t) \/ PickedUp(t) \/ Subscribed(t) \/ Check(t) \/ Finished(t)
    \/ Accepted(t) \/ Refused(t) \/ NoAnswer(t) \/ Forget(t)

Next == \E t \in Builds : Finish(t) \/ Publish(t)

Spec == Init /\ [][Next]_vars

\* Every task goes on, and the node answers what it is asked; a build need
\* never finish.
Fairness == \A t \in Builds : WF_vars(Publish(t))

FairSpec == Spec /\ Fairness

-----------------------------------------------------------------------------
(* What must hold.                                                           *)

TypeOK ==
    /\ whole \subseteq Builds
    /\ latest \in Builds \cup {NoBuild}
    /\ pc \in [Builds -> Phases]
    /\ todo \in [Builds -> Seq(Chains)]
    /\ tries \in [Builds -> {1, 2}]
    /\ lock \in Builds \cup {NoTask}
    /\ seen \subseteq Chains
    /\ session \in [Chains -> Sessions]
    /\ value \in [Chains -> Builds \cup {NoBuild}]
    /\ refusals \in 0 .. MaxRefusals
    /\ wrote \in [Builds -> SUBSET Chains]
    /\ said \in [Builds -> SUBSET Chains]
    /\ unresumed \subseteq Chains
    /\ raced \in BOOLEAN

AtRest == \A t \in Builds : pc[t] \in {"none", "done"}

\* publication.rs:29 "A publication that has been overtaken must not land":
\* once every publication has ended, each chain of the latest build shows it.
ShowsLatest ==
    AtRest => \A b \in Builds : IsLatest(b) =>
                 \A c \in ChainsOf(Docs[b]) \ said[b] : value[c] = b

\* ... and what the check does achieve: it can only fail to when a build
\* finishes under a task that has passed its check and is still writing.
LandsInOrder == ~raced => ShowsLatest

\* No document of the latest build is lost in silence: once all is at rest each
\* has landed, whatever overtook it, or its task has said it could not.
NewestReaches ==
    AtRest => \A b \in Builds : IsLatest(b) =>
                 ChainsOf(Docs[b]) \subseteq wrote[b] \cup said[b]

\* writer.rs:56 "a second writer to the same chain waits for the first one's
\* replay instead of racing past it": nothing is appended to a chain that has
\* not been replayed, unless its subscribe failed.
ReplayedFirst ==
    \A t \in Builds :
        pc[t] = "appending" => session[Chain(t)] # "unknown" \/ Chain(t) \in unresumed

\* writer.rs:153 "A refused chain is forgotten, so the next attempt on it, this
\* write's or a later one's, picks it up again": once all is at rest, no chain
\* stays marked as picked up while the client will write no more to it.
DroppedIsForgotten == AtRest => \A c \in seen : session[c] # "dropped"

\* A chain the client has dropped is one some task is still to forget or replay.
InHand(c) ==
    \E t \in Builds :
        /\ todo[t] # <<>> /\ Chain(t) = c
        /\ pc[t] = "forgetting" \/ lock = t

\* ... which holds at every moment of a chain no subscribe has failed on.
DroppedIsForgottenOrUnresumed ==
    \A c \in seen \ unresumed : session[c] = "dropped" => InHand(c)

\* A publication ends, whatever the node refuses, and no task is left waiting
\* for the lock another took.
PublicationsEnd == \A t \in Builds : pc[t] = "resuming" ~> pc[t] = "done"

=============================================================================
