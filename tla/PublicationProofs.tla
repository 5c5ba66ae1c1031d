-------------------------- MODULE PublicationProofs --------------------------
(***************************************************************************)
(* The safety of publishing, for any number of builds, any chains and any  *)
(* documents, any number of refusals and any of the faults.                *)
(*                                                                         *)
(* Held says who may hold the lock and what a task in hand of a write has  *)
(* still to write; Fresh that a mark stands for a replay; Covered and      *)
(* Ordered what the publication of the latest build has done so far.       *)
(***************************************************************************)
EXTENDS Publication, TLAPS

Writing == {"writing", "appending", "forgetting"}

Held ==
    /\ lock # NoTask => PicksUp(lock) /\ Chain(lock) \in seen
    /\ \A t \in Builds : pc[t] \in {"appending", "forgetting"} => todo[t] # <<>>
    /\ \A t \in Builds : t \in whole <=> pc[t] # "none"

\* A chain marked as picked up is one the session has folded, unless its
\* subscribe is under way or has failed.
Fresh ==
    \A c \in seen \ unresumed :
        session[c] # "unknown" \/ (lock # NoTask /\ Chain(lock) = c)

\* What the publication of the latest build has dealt with.
Covered ==
    \A t \in Builds :
        /\ pc[t] = "done" /\ IsLatest(t) => todo[t] = <<>>
        /\ pc[t] \in Writing \cup {"done"} /\ IsLatest(t) =>
              ChainsOf(Docs[t]) \subseteq ChainsOf(todo[t]) \cup wrote[t] \cup said[t]

\* While no build has finished under a task that was writing, only the latest
\* build's task writes, and what it has written stands.
Ordered ==
    ~raced => \A t \in Builds :
        /\ pc[t] \in Writing => IsLatest(t)
        /\ pc[t] \in Writing \cup {"done"} /\ IsLatest(t) =>
              \A c \in ChainsOf(Docs[t]) \ (ChainsOf(todo[t]) \cup said[t]) : value[c] = t

-----------------------------------------------------------------------------
(* The list of documents a task has left.                                    *)

LEMMA NoneLeft == ChainsOf(<<>>) = {}
BY DEF ChainsOf

LEMMA FirstLeft ==
    ASSUME NEW docs \in Seq(Chains), docs # <<>>
    PROVE  /\ Head(docs) \in Chains
           /\ Tail(docs) \in Seq(Chains)
           /\ ChainsOf(docs) = {Head(docs)} \cup ChainsOf(Tail(docs))
<1>1. /\ Len(docs) \in Nat /\ Len(docs) > 0
      /\ Head(docs) = docs[1] /\ docs[1] \in Chains
      /\ Tail(docs) \in Seq(Chains) /\ Len(Tail(docs)) = Len(docs) - 1
      /\ \A i \in 1 .. Len(docs) - 1 : Tail(docs)[i] = docs[i + 1]
  OBVIOUS
<1>2. ASSUME NEW i \in 1 .. Len(docs)
      PROVE  docs[i] \in {Head(docs)} \cup ChainsOf(Tail(docs))
  <2>1. CASE i = 1
    BY <1>1, <2>1
  <2>2. CASE i # 1
    <3>1. i - 1 \in 1 .. Len(Tail(docs)) /\ Tail(docs)[i - 1] = docs[i]
      BY <1>1, <2>2
    <3>2. QED
      BY <3>1 DEF ChainsOf
  <2>3. QED
    BY <2>1, <2>2
<1>3. ASSUME NEW i \in 1 .. Len(Tail(docs)) PROVE Tail(docs)[i] \in ChainsOf(docs)
  <2>1. i + 1 \in 1 .. Len(docs) /\ Tail(docs)[i] = docs[i + 1]
    BY <1>1
  <2>2. QED
    BY <2>1 DEF ChainsOf
<1>4. Head(docs) \in ChainsOf(docs)
  BY <1>1 DEF ChainsOf
<1>5. QED
  BY <1>1, <1>2, <1>3, <1>4 DEF ChainsOf

-----------------------------------------------------------------------------
(* The latest build.                                                         *)

LEMMA BuildsAreNumbers == Builds \subseteq Int /\ NoTask \notin Builds /\ NoBuild \notin Builds
BY MaxBuildsAssumption DEF Builds, NoTask, NoBuild

LEMMA OneLatest ==
    ASSUME TypeOK, NEW a, NEW b, IsLatest(a), IsLatest(b) PROVE a = b
<1>1. a \in Int /\ b \in Int
  BY BuildsAreNumbers DEF TypeOK, IsLatest
<1>2. QED
  BY <1>1 DEF IsLatest

\* A build that has been overtaken is never the latest again.
LEMMA OvertakenForGood ==
    ASSUME TypeOK, NEW b \in Builds, Finish(b), NEW t, t \in whole, IsLatest(t)'
    PROVE  IsLatest(t)
BY DEF TypeOK, Finish, IsLatest

LEMMA SameLatest == UNCHANGED rootVars => \A b : IsLatest(b)' <=> IsLatest(b)
BY DEF rootVars, IsLatest

-----------------------------------------------------------------------------
(* Types.                                                                    *)

LEMMA TypeStep == TypeOK /\ Held /\ [Next]_vars => TypeOK'
<1> SUFFICES ASSUME TypeOK, Held, [Next]_vars PROVE TypeOK'
  OBVIOUS
<1> USE DEF TypeOK, Phases, Sessions, rootVars, nodeVars, history
<1>1. ASSUME NEW b \in Builds, Finish(b) PROVE TypeOK'
  <2>1. raced' \in BOOLEAN
    BY <1>1, Zenon DEF Finish
  <2>2. Docs[b] \in Seq(Chains)
    BY DocsAssumption
  <2>3. QED
    BY <1>1, <2>1, <2>2 DEF Finish
<1>2. ASSUME NEW t \in Builds, Publish(t) PROVE TypeOK'
  <2>a. todo[t] # <<>> => Chain(t) \in Chains /\ Tail(todo[t]) \in Seq(Chains)
    BY FirstLeft DEF Chain
  <2>b. /\ pc[t] \in {"appending", "forgetting"} => todo[t] # <<>>
        /\ lock = t => todo[t] # <<>>
    BY BuildsAreNumbers DEF Held, PicksUp
  <2>1. CASE PickUp(t)
    BY <2>1, <2>a DEF PickUp, PicksUp
  <2>2. CASE PickedUp(t)
    BY <2>2, <2>a DEF PickedUp, PicksUp, Onward
  <2>3. CASE Subscribed(t)
    BY <2>3, <2>a, <2>b DEF Subscribed, Onward
  <2>4. CASE Check(t)
    <3>1. Docs[t] \in Seq(Chains)
      BY DocsAssumption
    <3>2. QED
      BY <2>4, <3>1 DEF Check
  <2>5. CASE Finished(t)
    BY <2>5 DEF Finished
  <2>6. CASE Accepted(t)
    BY <2>6, <2>a, <2>b DEF Accepted, NextDoc
  <2>7. CASE Refused(t)
    <3>1. refusals' \in 0 .. MaxRefusals
      BY <2>7, MaxRefusalsAssumption DEF Refused
    <3>2. session' \in [Chains -> Sessions] /\ pc' \in [Builds -> Phases]
      BY <2>7 DEF Refused
    <3>3. UNCHANGED <<rootVars, todo, tries, lock, seen, value, history>>
      BY <2>7 DEF Refused
    <3>4. QED
      BY <3>1, <3>2, <3>3
  <2>8. CASE NoAnswer(t)
    BY <2>8, <2>a, <2>b DEF NoAnswer, NextDoc
  <2>9. CASE Forget(t)
    <3>1. Chain(t) \in Chains /\ Tail(todo[t]) \in Seq(Chains)
      BY <2>9, <2>a, <2>b DEF Forget
    <3>2. /\ seen' \subseteq Chains
          /\ UNCHANGED <<rootVars, lock, nodeVars, wrote, unresumed, raced>>
      BY <2>9 DEF Forget
    <3>3. CASE tries[t] = 1
      BY <2>9, <3>2, <3>3 DEF Forget
    <3>4. CASE tries[t] # 1
      <4>1. said' = [said EXCEPT ![t] = @ \cup {Chain(t)}] /\ NextDoc(t)
        BY <2>9, <3>4 DEF Forget
      <4>2. pc' \in [Builds -> Phases] /\ tries' \in [Builds -> {1, 2}]
        BY <4>1 DEF NextDoc
      <4>3. todo' \in [Builds -> Seq(Chains)]
        BY <3>1, <4>1 DEF NextDoc
      <4>4. said' \in [Builds -> SUBSET Chains]
        BY <3>1, <4>1
      <4>5. QED
        BY <3>2, <4>2, <4>3, <4>4
    <3>5. QED
      BY <3>3, <3>4
  <2>10. QED
    BY <1>2, <2>1, <2>2, <2>3, <2>4, <2>5, <2>6, <2>7, <2>8, <2>9 DEF Publish
<1>3. CASE UNCHANGED vars
  BY <1>3 DEF vars
<1>4. QED
  BY <1>1, <1>2, <1>3 DEF Next

LEMMA HeldStep == TypeOK /\ Held /\ [Next]_vars => Held'
<1> SUFFICES ASSUME TypeOK, Held, [Next]_vars PROVE Held'
  OBVIOUS
<1> USE DEF TypeOK, Phases, Sessions, Held, PicksUp, Chain, rootVars, nodeVars, history
<1>1. ASSUME NEW b \in Builds, Finish(b) PROVE Held'
  <2>1. pc[b] = "none" /\ lock # b
    BY <1>1, BuildsAreNumbers DEF Finish
  <2>2. QED
    BY <1>1, <2>1 DEF Finish
<1>2. ASSUME NEW t \in Builds, Publish(t) PROVE Held'
  <2>a. t # NoTask
    BY BuildsAreNumbers
  <2>1. CASE PickUp(t)
    BY <2>1, <2>a DEF PickUp
  <2>2. CASE PickedUp(t)
    BY <2>2, <2>a DEF PickedUp, Onward
  <2>3. CASE Subscribed(t)
    BY <2>3, <2>a DEF Subscribed, Onward
  <2>4. CASE Check(t)
    BY <2>4, <2>a DEF Check
  <2>5. CASE Finished(t)
    BY <2>5, <2>a DEF Finished
  <2>6. CASE Accepted(t)
    BY <2>6, <2>a DEF Accepted, NextDoc
  <2>7. CASE Refused(t)
    BY <2>7, <2>a DEF Refused
  <2>8. CASE NoAnswer(t)
    BY <2>8, <2>a DEF NoAnswer, NextDoc
  <2>9. CASE Forget(t)
    BY <2>9, <2>a DEF Forget, NextDoc
  <2>10. QED
    BY <1>2, <2>1, <2>2, <2>3, <2>4, <2>5, <2>6, <2>7, <2>8, <2>9 DEF Publish
<1>3. CASE UNCHANGED vars
  BY <1>3 DEF vars
<1>4. QED
  BY <1>1, <1>2, <1>3 DEF Next

LEMMA InitHeld == Init => TypeOK /\ Held
<1> SUFFICES ASSUME Init PROVE TypeOK /\ Held
  OBVIOUS
<1>1. 0 \in Builds
  BY MaxBuildsAssumption DEF Builds
<1>2. TypeOK
  <2>1. whole \subseteq Builds /\ latest \in Builds \cup {NoBuild}
    BY <1>1 DEF Init
  <2>2. <<>> \in Seq(Chains) /\ \A t \in Builds : Docs[t] \in Seq(Chains)
    BY DocsAssumption
  <2>3. todo \in [Builds -> Seq(Chains)]
    BY <2>2 DEF Init
  <2>4. refusals \in 0 .. MaxRefusals
    BY MaxRefusalsAssumption DEF Init
  <2>5. value \in [Chains -> Builds \cup {NoBuild}]
    BY <1>1 DEF Init
  <2>6. pc \in [Builds -> Phases] /\ session \in [Chains -> Sessions]
    BY DEF Init, Phases, Sessions
  <2>7. QED
    BY <2>1, <2>3, <2>4, <2>5, <2>6 DEF Init, TypeOK
<1>3. Held
  BY DEF Init, Held
<1>4. QED
  BY <1>2, <1>3

LEMMA AlwaysHeld == Spec => [](TypeOK /\ Held)
<1>1. QED
  BY InitHeld, TypeStep, HeldStep, PTL DEF Spec

\* Every variable of the root, the tasks and the chains keeps its type.
THEOREM TypeCorrect == Spec => []TypeOK
BY AlwaysHeld, PTL

-----------------------------------------------------------------------------
(* The chains.                                                               *)

LEMMA FreshStep == TypeOK /\ Held /\ Fresh /\ [Next]_vars => Fresh'
<1> SUFFICES ASSUME TypeOK, Held, Fresh, [Next]_vars PROVE Fresh'
  OBVIOUS
<1> USE DEF TypeOK, Phases, Sessions, Held, Fresh, PicksUp, Chain, rootVars, nodeVars, history
<1>1. ASSUME NEW b \in Builds, Finish(b) PROVE Fresh'
  <2>1. pc[b] = "none" /\ lock # b
    BY <1>1, BuildsAreNumbers DEF Finish
  <2>2. QED
    BY <1>1, <2>1 DEF Finish
<1>2. ASSUME NEW t \in Builds, Publish(t) PROVE Fresh'
  <2>a. t # NoTask
    BY BuildsAreNumbers
  <2>1. CASE PickUp(t)
    BY <2>1, <2>a DEF PickUp
  <2>2. CASE PickedUp(t)
    BY <2>2, <2>a DEF PickedUp, Onward
  <2>3. CASE Subscribed(t)
    BY <2>3, <2>a DEF Subscribed, Onward
  <2>4. CASE Check(t)
    BY <2>4, <2>a DEF Check
  <2>5. CASE Finished(t)
    BY <2>5, <2>a DEF Finished
  <2>6. CASE Accepted(t)
    BY <2>6, <2>a DEF Accepted, NextDoc
  <2>7. CASE Refused(t)
    BY <2>7, <2>a DEF Refused
  <2>8. CASE NoAnswer(t)
    BY <2>8, <2>a DEF NoAnswer, NextDoc
  <2>9. CASE Forget(t)
    BY <2>9, <2>a DEF Forget, NextDoc
  <2>10. QED
    BY <1>2, <2>1, <2>2, <2>3, <2>4, <2>5, <2>6, <2>7, <2>8, <2>9 DEF Publish
<1>3. CASE UNCHANGED vars
  BY <1>3 DEF vars
<1>4. QED
  BY <1>1, <1>2, <1>3 DEF Next

LEMMA ReplayedStep == TypeOK /\ Held /\ Fresh /\ ReplayedFirst /\ [Next]_vars => ReplayedFirst'
<1> SUFFICES ASSUME TypeOK, Held, Fresh, ReplayedFirst, [Next]_vars PROVE ReplayedFirst'
  OBVIOUS
<1> USE DEF TypeOK, Phases, Sessions, Held, Fresh, ReplayedFirst, PicksUp, Chain,
            rootVars, nodeVars, history
<1>1. ASSUME NEW b \in Builds, Finish(b) PROVE ReplayedFirst'
  BY <1>1 DEF Finish
<1>2. ASSUME NEW t \in Builds, Publish(t) PROVE ReplayedFirst'
  <2>1. CASE PickUp(t)
    BY <2>1 DEF PickUp
  <2>2. CASE PickedUp(t)
    BY <2>2 DEF PickedUp, Onward
  <2>3. CASE Subscribed(t)
    <3> SUFFICES ASSUME NEW u \in Builds, pc'[u] = "appending"
                 PROVE  session'[Chain(u)'] # "unknown" \/ Chain(u)' \in unresumed'
      OBVIOUS
    <3>1. Chain(t) \in Chains /\ todo[t] # <<>>
      BY <2>3, FirstLeft, BuildsAreNumbers DEF Subscribed
    <3>2. CASE u = t
      <4>1. pc[t] = "writing" /\ UNCHANGED todo
        BY <2>3, <3>1, <3>2, BuildsAreNumbers DEF Subscribed, Onward
      <4>2. QED
        BY <2>3, <3>1, <3>2, <4>1 DEF Subscribed
    <3>3. CASE u # t
      <4>1. pc[u] = "appending" /\ todo'[u] = todo[u]
        BY <2>3, <3>3 DEF Subscribed, Onward
      <4>2. session[Chain(u)] # "unknown" \/ Chain(u) \in unresumed
        BY <4>1
      <4>3. QED
        BY <2>3, <3>1, <4>1, <4>2 DEF Subscribed
    <3>4. QED
      BY <3>2, <3>3
  <2>4. CASE Check(t)
    BY <2>4 DEF Check
  <2>5. CASE Finished(t)
    BY <2>5 DEF Finished
  <2>6. CASE Accepted(t)
    BY <2>6 DEF Accepted, NextDoc
  <2>7. CASE Refused(t)
    BY <2>7 DEF Refused
  <2>8. CASE NoAnswer(t)
    BY <2>8 DEF NoAnswer, NextDoc
  <2>9. CASE Forget(t)
    BY <2>9 DEF Forget, NextDoc
  <2>10. QED
    BY <1>2, <2>1, <2>2, <2>3, <2>4, <2>5, <2>6, <2>7, <2>8, <2>9 DEF Publish
<1>3. CASE UNCHANGED vars
  BY <1>3 DEF vars
<1>4. QED
  BY <1>1, <1>2, <1>3 DEF Next

\* writer.rs:56: nothing is appended to a chain before its replay, unless its
\* subscribe failed; a mark stands for a replay because the lock is kept.
THEOREM NothingRacesTheReplay == Spec => []ReplayedFirst
<1>1. Init => Fresh /\ ReplayedFirst
  BY DEF Init, Fresh, ReplayedFirst
<1>2. QED
  BY <1>1, AlwaysHeld, FreshStep, ReplayedStep, PTL DEF Spec

LEMMA DroppedStep ==
    TypeOK /\ Held /\ DroppedIsForgottenOrUnresumed /\ [Next]_vars
        => DroppedIsForgottenOrUnresumed'
<1> SUFFICES ASSUME TypeOK, Held, DroppedIsForgottenOrUnresumed, [Next]_vars
             PROVE  DroppedIsForgottenOrUnresumed'
  OBVIOUS
<1> USE DEF TypeOK, Phases, Sessions, Held, DroppedIsForgottenOrUnresumed, InHand, PicksUp, Chain,
            rootVars, nodeVars, history
<1>1. ASSUME NEW b \in Builds, Finish(b) PROVE DroppedIsForgottenOrUnresumed'
  <2>1. pc[b] = "none" /\ lock # b
    BY <1>1, BuildsAreNumbers DEF Finish
  <2>2. QED
    BY <1>1, <2>1 DEF Finish
<1>2. ASSUME NEW t \in Builds, Publish(t) PROVE DroppedIsForgottenOrUnresumed'
  <2>a. t # NoTask
    BY BuildsAreNumbers
  <2>1. CASE PickUp(t)
    <3> SUFFICES ASSUME NEW c \in seen' \ unresumed', session'[c] = "dropped"
                 PROVE  InHand(c)'
      OBVIOUS
    <3>1. CASE c = Chain(t)
      BY <2>1, <3>1 DEF PickUp
    <3>2. CASE c # Chain(t)
      <4>1. PICK u \in Builds : todo[u] # <<>> /\ Head(todo[u]) = c /\ pc[u] = "forgetting"
        BY <2>1, <2>a, <3>2, BuildsAreNumbers DEF PickUp
      <4>2. QED
        BY <2>1, <4>1 DEF PickUp
    <3>3. QED
      BY <3>1, <3>2
  <2>2. CASE PickedUp(t)
    <3> SUFFICES ASSUME NEW c \in seen' \ unresumed', session'[c] = "dropped"
                 PROVE  InHand(c)'
      OBVIOUS
    <3>1. PICK u \in Builds : todo[u] # <<>> /\ Head(todo[u]) = c /\ pc[u] = "forgetting"
      BY <2>2, BuildsAreNumbers DEF PickedUp
    <3>2. u # t
      BY <2>2, <3>1 DEF PickedUp
    <3>3. QED
      BY <2>2, <3>1, <3>2 DEF PickedUp, Onward
  <2>3. CASE Subscribed(t)
    <3> SUFFICES ASSUME NEW c \in seen' \ unresumed', session'[c] = "dropped"
                 PROVE  InHand(c)'
      OBVIOUS
    <3>1. session[c] = "dropped" /\ c \in seen \ unresumed /\ c # Chain(t)
      BY <2>3 DEF Subscribed
    <3>2. PICK u \in Builds : todo[u] # <<>> /\ Head(todo[u]) = c /\ pc[u] = "forgetting"
      BY <2>3, <3>1 DEF Subscribed
    <3>3. u # t
      BY <2>3, <2>a, <3>2 DEF Subscribed
    <3>4. QED
      BY <2>3, <3>2, <3>3 DEF Subscribed, Onward
  <2>4. CASE Check(t)
    <3> SUFFICES ASSUME NEW c \in seen' \ unresumed', session'[c] = "dropped"
                 PROVE  InHand(c)'
      OBVIOUS
    <3>1. PICK u \in Builds : /\ todo[u] # <<>> /\ Head(todo[u]) = c
                              /\ pc[u] = "forgetting" \/ lock = u
      BY <2>4 DEF Check
    <3>2. u # t
      BY <2>4, <3>1 DEF Check
    <3>3. QED
      BY <2>4, <3>1, <3>2 DEF Check
  <2>5. CASE Finished(t)
    BY <2>5, <2>a DEF Finished
  <2>6. CASE Accepted(t)
    BY <2>6, <2>a DEF Accepted, NextDoc
  <2>7. CASE Refused(t)
    BY <2>7, <2>a DEF Refused
  <2>8. CASE NoAnswer(t)
    BY <2>8, <2>a DEF NoAnswer, NextDoc
  <2>9. CASE Forget(t)
    BY <2>9, <2>a DEF Forget, NextDoc
  <2>10. QED
    BY <1>2, <2>1, <2>2, <2>3, <2>4, <2>5, <2>6, <2>7, <2>8, <2>9 DEF Publish
<1>3. CASE UNCHANGED vars
  BY <1>3 DEF vars
<1>4. QED
  BY <1>1, <1>2, <1>3 DEF Next

\* writer.rs:153: a chain the client writes no more is not marked as picked up,
\* but for the task that is about to forget or replay it, unless a subscribe of
\* that chain has failed.
THEOREM DroppedIsPickedUpAgain == Spec => []DroppedIsForgottenOrUnresumed
<1>1. Init => DroppedIsForgottenOrUnresumed
  BY DEF Init, DroppedIsForgottenOrUnresumed
<1>2. QED
  BY <1>1, AlwaysHeld, DroppedStep, PTL DEF Spec

-----------------------------------------------------------------------------
(* The order of the publications.                                            *)

\* Dealing with the document in hand leaves the others as they were.
LEMMA OneDealtWith ==
    ASSUME TypeOK, Held, NEW t \in Builds, NextDoc(t),
           pc[t] \in {"appending", "forgetting"}
    PROVE  /\ ChainsOf(todo[t]) = {Chain(t)} \cup ChainsOf(todo'[t])
           /\ \A u \in Builds \ {t} : todo'[u] = todo[u] /\ pc'[u] = pc[u]
           /\ pc'[t] = "writing"
<1>1. todo[t] \in Seq(Chains) /\ todo[t] # <<>>
  BY DEF TypeOK, Held
<1>2. todo'[t] = Tail(todo[t])
  BY DEF TypeOK, NextDoc
<1>3. QED
  BY <1>1, <1>2, FirstLeft DEF TypeOK, NextDoc, Chain

LEMMA CoveredStep == TypeOK /\ Held /\ Covered /\ [Next]_vars => Covered'
<1> SUFFICES ASSUME TypeOK, Held, Covered, [Next]_vars PROVE Covered'
  OBVIOUS
<1> USE DEF Writing
<1>a. /\ pc \in [Builds -> Phases] /\ todo \in [Builds -> Seq(Chains)]
      /\ wrote \in [Builds -> SUBSET Chains] /\ said \in [Builds -> SUBSET Chains]
  BY DEF TypeOK
<1>1. ASSUME NEW b \in Builds, Finish(b) PROVE Covered'
  <2> SUFFICES ASSUME NEW u \in Builds, pc'[u] \in Writing \cup {"done"}, IsLatest(u)'
               PROVE  /\ pc'[u] = "done" => todo'[u] = <<>>
                      /\ ChainsOf(Docs[u]) \subseteq ChainsOf(todo'[u]) \cup wrote'[u] \cup said'[u]
    BY DEF Covered
  <2>1. u # b /\ pc[u] = pc'[u] /\ todo'[u] = todo[u] /\ wrote' = wrote /\ said' = said
    BY <1>1, <1>a DEF Finish
  <2>2. u \in whole
    BY <1>1, <2>1 DEF Finish, IsLatest
  <2>3. IsLatest(u)
    BY <1>1, <2>2, OvertakenForGood
  <2>4. QED
    BY <2>1, <2>3 DEF Covered
<1>2. ASSUME NEW t \in Builds, Publish(t) PROVE Covered'
  <2>a. \A b : IsLatest(b)' <=> IsLatest(b)
    <3>1. UNCHANGED rootVars
      BY <1>2 DEF Publish, PickUp, PickedUp, Subscribed, Check, Finished, Accepted, Refused,
                  NoAnswer, Forget
    <3>2. QED
      BY <3>1, SameLatest
  <2>b. SUFFICES ASSUME NEW u \in Builds, pc'[u] \in Writing \cup {"done"}, IsLatest(u)
                 PROVE  /\ pc'[u] = "done" => todo'[u] = <<>>
                        /\ ChainsOf(Docs[u]) \subseteq ChainsOf(todo'[u]) \cup wrote'[u] \cup said'[u]
    BY <2>a DEF Covered
  <2>c. pc[u] \in Writing \cup {"done"} =>
           /\ pc[u] = "done" => todo[u] = <<>>
           /\ ChainsOf(Docs[u]) \subseteq ChainsOf(todo[u]) \cup wrote[u] \cup said[u]
    BY <2>b DEF Covered
  <2>1. CASE PickUp(t)
    BY <2>1, <2>b, <2>c DEF PickUp, history
  <2>2. CASE PickedUp(t) \/ Subscribed(t)
    <3>1. wrote' = wrote /\ said' = said /\ Onward(t)
      BY <2>2 DEF PickedUp, Subscribed, history
    <3>2. pc[t] \in {"resuming", "writing"}
      BY <2>2, BuildsAreNumbers DEF PickedUp, Subscribed, PicksUp, Held
    <3>3. QED
      BY <1>a, <2>b, <2>c, <3>1, <3>2 DEF Onward
  <2>3. CASE Check(t)
    BY <1>a, <2>3, <2>b, <2>c DEF Check, history
  <2>4. CASE Finished(t)
    BY <1>a, <2>4, <2>b, <2>c DEF Finished, history
  <2>5. CASE Refused(t)
    BY <1>a, <2>5, <2>b, <2>c DEF Refused, history
  <2>6. CASE NextDoc(t) /\ (Accepted(t) \/ NoAnswer(t) \/ Forget(t))
    <3>1. pc[t] \in {"appending", "forgetting"}
      BY <2>6 DEF Accepted, NoAnswer, Forget
    <3>2. /\ wrote[t] \cup said[t] \cup {Chain(t)} \subseteq wrote'[t] \cup said'[t]
          /\ \A v \in Builds \ {t} : wrote'[v] = wrote[v] /\ said'[v] = said[v]
      <4>1. CASE Accepted(t)
        BY <1>a, <4>1 DEF Accepted
      <4>2. CASE NoAnswer(t)
        BY <1>a, <4>2 DEF NoAnswer
      <4>3. CASE Forget(t)
        <5>1. tries[t] # 1
          BY <1>a, <2>6, <3>1, <4>3 DEF Forget, NextDoc, TypeOK
        <5>2. QED
          BY <1>a, <4>3, <5>1 DEF Forget
      <4>4. QED
        BY <2>6, <4>1, <4>2, <4>3
    <3>3. QED
      BY <2>6, <2>b, <2>c, <3>1, <3>2, OneDealtWith
  <2>7. CASE Forget(t) /\ tries[t] = 1
    BY <1>a, <2>7, <2>b, <2>c DEF Forget
  <2>8. Accepted(t) \/ NoAnswer(t) => NextDoc(t)
    BY DEF Accepted, NoAnswer
  <2>9. Forget(t) => NextDoc(t) \/ tries[t] = 1
    BY DEF Forget
  <2>10. QED
    BY <1>2, <2>1, <2>2, <2>3, <2>4, <2>5, <2>6, <2>7, <2>8, <2>9 DEF Publish
<1>3. CASE UNCHANGED vars
  BY <1>3, SameLatest DEF vars, rootVars, history, Covered
<1>4. QED
  BY <1>1, <1>2, <1>3 DEF Next

LEMMA OrderedStep == TypeOK /\ Held /\ Ordered /\ [Next]_vars => Ordered'
<1> SUFFICES ASSUME TypeOK, Held, Ordered, [Next]_vars, ~raced' PROVE Ordered'
  BY DEF Ordered
<1> USE DEF Writing
<1>a. /\ pc \in [Builds -> Phases] /\ todo \in [Builds -> Seq(Chains)]
      /\ said \in [Builds -> SUBSET Chains] /\ value \in [Chains -> Builds \cup {NoBuild}]
  BY DEF TypeOK
<1>1. ASSUME NEW b \in Builds, Finish(b) PROVE Ordered'
  <2>1. ~raced /\ \A v \in Builds : pc[v] \notin Writing
    BY <1>1 DEF Finish
  <2> SUFFICES ASSUME NEW u \in Builds
               PROVE  /\ pc'[u] \in Writing => IsLatest(u)'
                      /\ pc'[u] \in Writing \cup {"done"} /\ IsLatest(u)' =>
                            \A c \in ChainsOf(Docs[u]) \ (ChainsOf(todo'[u]) \cup said'[u]) :
                                value'[c] = u
    BY DEF Ordered
  <2>2. pc'[u] \notin Writing
    BY <1>1, <1>a, <2>1 DEF Finish
  <2>3. ASSUME pc'[u] = "done", IsLatest(u)'
        PROVE  \A c \in ChainsOf(Docs[u]) \ (ChainsOf(todo'[u]) \cup said'[u]) : value'[c] = u
    <3>1. u # b /\ pc[u] = "done" /\ todo'[u] = todo[u] /\ said' = said /\ value' = value
      BY <1>1, <1>a, <2>3 DEF Finish, nodeVars
    <3>2. u \in whole
      BY <1>1, <2>3, <3>1 DEF Finish, IsLatest
    <3>3. IsLatest(u)
      BY <1>1, <2>3, <3>2, OvertakenForGood
    <3>4. QED
      BY <2>1, <3>1, <3>3 DEF Ordered
  <2>4. QED
    BY <2>2, <2>3
<1>2. ASSUME NEW t \in Builds, Publish(t) PROVE Ordered'
  <2>a. (\A b : IsLatest(b)' <=> IsLatest(b)) /\ ~raced
    <3>1. UNCHANGED rootVars /\ raced' = raced
      BY <1>2 DEF Publish, PickUp, PickedUp, Subscribed, Check, Finished, Accepted, Refused,
                  NoAnswer, Forget, history
    <3>2. QED
      BY <3>1, SameLatest
  <2>b. SUFFICES ASSUME NEW u \in Builds
                 PROVE  /\ pc'[u] \in Writing => IsLatest(u)
                        /\ pc'[u] \in Writing \cup {"done"} /\ IsLatest(u) =>
                              \A c \in ChainsOf(Docs[u]) \ (ChainsOf(todo'[u]) \cup said'[u]) :
                                  value'[c] = u
    BY <2>a DEF Ordered
  <2>c. /\ pc[u] \in Writing => IsLatest(u)
        /\ pc[u] \in Writing \cup {"done"} /\ IsLatest(u) =>
              \A c \in ChainsOf(Docs[u]) \ (ChainsOf(todo[u]) \cup said[u]) : value[c] = u
    BY <2>a, <2>b DEF Ordered
  <2>1. CASE PickUp(t)
    BY <2>1, <2>b, <2>c DEF PickUp, history, nodeVars
  <2>2. CASE PickedUp(t) \/ Subscribed(t)
    <3>1. value' = value /\ said' = said /\ Onward(t)
      BY <2>2 DEF PickedUp, Subscribed, history, nodeVars
    <3>2. pc[t] \in {"resuming", "writing"}
      BY <2>2, BuildsAreNumbers DEF PickedUp, Subscribed, PicksUp, Held
    <3>3. QED
      BY <1>a, <2>b, <2>c, <3>1, <3>2 DEF Onward
  <2>3. CASE Check(t)
    BY <1>a, <2>3, <2>b, <2>c DEF Check, history, nodeVars
  <2>4. CASE Finished(t)
    BY <1>a, <2>4, <2>b, <2>c DEF Finished, history, nodeVars
  <2>5. CASE Refused(t)
    BY <1>a, <2>5, <2>b, <2>c DEF Refused, history
  <2>6. CASE Accepted(t)
    <3>1. NextDoc(t) /\ pc[t] = "appending" /\ value' = [value EXCEPT ![Chain(t)] = t] /\ said' = said
      BY <2>6 DEF Accepted
    <3>2. IsLatest(t) /\ Chain(t) \in Chains
      <4>1. IsLatest(t)
        BY <2>a, <3>1 DEF Ordered
      <4>2. QED
        BY <1>a, <3>1, <4>1, FirstLeft DEF Held, Chain
    <3>3. CASE u = t
      BY <1>a, <2>b, <2>c, <3>1, <3>2, <3>3, OneDealtWith
    <3>4. CASE u # t
      <4>1. ~IsLatest(u)
        BY <3>2, <3>4, OneLatest
      <4>2. QED
        BY <2>b, <2>c, <3>1, <3>4, <4>1, OneDealtWith
    <3>5. QED
      BY <3>3, <3>4
  <2>7. CASE NextDoc(t) /\ (NoAnswer(t) \/ Forget(t))
    <3>1. pc[t] \in {"appending", "forgetting"} /\ value' = value
      BY <2>7 DEF NoAnswer, Forget, nodeVars
    <3>2. said' = [said EXCEPT ![t] = @ \cup {Chain(t)}]
      <4>1. CASE NoAnswer(t)
        BY <4>1 DEF NoAnswer
      <4>2. CASE Forget(t)
        <5>1. tries[t] # 1
          BY <2>7, <3>1, <4>2 DEF Forget, NextDoc, TypeOK
        <5>2. QED
          BY <4>2, <5>1 DEF Forget
      <4>3. QED
        BY <2>7, <4>1, <4>2
    <3>3. QED
      BY <1>a, <2>7, <2>b, <2>c, <3>1, <3>2, OneDealtWith
  <2>8. CASE Forget(t) /\ tries[t] = 1
    BY <1>a, <2>8, <2>b, <2>c DEF Forget, nodeVars
  <2>9. NoAnswer(t) => NextDoc(t)
    BY DEF NoAnswer
  <2>10. Forget(t) => NextDoc(t) \/ tries[t] = 1
    BY DEF Forget
  <2>11. QED
    BY <1>2, <2>1, <2>2, <2>3, <2>4, <2>5, <2>6, <2>7, <2>8, <2>9, <2>10 DEF Publish
<1>3. CASE UNCHANGED vars
  BY <1>3, SameLatest DEF vars, rootVars, nodeVars, history, Ordered
<1>4. QED
  BY <1>1, <1>2, <1>3 DEF Next

LEMMA AlwaysCovered == Spec => []Covered
<1>1. Init => Covered
  BY DEF Init, Covered, Writing
<1>2. QED
  BY <1>1, AlwaysHeld, CoveredStep, PTL DEF Spec

\* publication.rs:29: whichever publications overlapped, each document of the
\* latest build has been written, or its task has said that it could not be.
THEOREM NoneLostInSilence == Spec => []NewestReaches
<1>1. Held /\ Covered => NewestReaches
  BY NoneLeft DEF Held, Covered, NewestReaches, AtRest, IsLatest
<1>2. QED
  BY <1>1, AlwaysHeld, AlwaysCovered, PTL

\* publication.rs:33: the pointer arbitrates: unless a build finished under a
\* task that was already writing, every chain shows the latest build at rest.
THEOREM PointerArbitrates == Spec => []LandsInOrder
<1>1. Init => Ordered
  BY DEF Init, Ordered, Writing
<1>2. Held /\ Covered /\ Ordered => LandsInOrder
  BY NoneLeft DEF Held, Covered, Ordered, LandsInOrder, ShowsLatest, AtRest, IsLatest
<1>3. QED
  BY <1>1, <1>2, AlwaysHeld, AlwaysCovered, OrderedStep, PTL DEF Spec
=============================================================================
