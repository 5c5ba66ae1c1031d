------------------------------ MODULE WritePath ------------------------------
(***************************************************************************)
(* The write path of the gyld supplier: one exchange handler that serves   *)
(* the verbs in turn, the streamed runs it leaves behind on their own      *)
(* tasks, the gate that admits one writing verb at a time, the snapshot a  *)
(* refused write is put back from, and the bundle root they all share.     *)
(*                                                                         *)
(* Sources: supplier/exchange.rs, stream.rs, landing.rs, notebook.rs,      *)
(* merge.rs, gate.rs; outcome.rs; bundle.rs; the planner in verbs.rs.      *)
(*                                                                         *)
(* A notebook's text is abstracted to the set of records it holds: record  *)
(* 0 is what the owner had, record r is what run r added.  The Gyld hosts  *)
(* are external: they read the staging tree, and answer or fail.           *)
(***************************************************************************)
EXTENDS Integers, FiniteSets

CONSTANTS
    Streams,      \* the streams of the staging repository, one notebook each
    Samples,      \* the streams whose notebook the Gyld checkout ships
    MaxRuns,      \* bound: how many requests the handler is sent
    Decisions,    \* is a --decisions-root configured?
    Offers,       \* the requests a desk may send
    Faults        \* of the faults below, those the environment may commit

FaultKinds == {"io", "panic"}
Worths == {"good", "finding", "broken"}

\* A request, as far as the write path tells requests apart.  "ask" is an
\* "answer" with a longer text, and "link" a "fork" with another first word.
\* Only those two act on `force`: a forced diff rewrites no module.
Requests == [verb : {"answer", "fork", "rebuild", "diff", "list"}, stream : Streams,
             streamed : BOOLEAN, merge : BOOLEAN, force : BOOLEAN]

ASSUME StreamsAssumption == Streams # {}
ASSUME SamplesAssumption == Samples \subseteq Streams
ASSUME MaxRunsAssumption == MaxRuns \in Nat \ {0}
ASSUME DecisionsAssumption == Decisions \in BOOLEAN
ASSUME OffersAssumption == Offers \subseteq Requests
ASSUME FaultsAssumption == Faults \subseteq FaultKinds

Runs == 1 .. MaxRuns
Records == 0 .. MaxRuns
Builds == 0 .. MaxRuns      \* build 0 was there before, run r builds into r
NoBuild == -1
Free == 0                   \* no run: of the gate and of the handler

\* What one name in the tree holds.
Kinds == {"absent", "seed", "link", "file"}
Held == [kind : Kinds, text : SUBSET Records]
Absent == [kind |-> "absent", text |-> {}]
SeedLink == [kind |-> "seed", text |-> {}]    \* into the Gyld checkout
KeptLink == [kind |-> "link", text |-> {}]    \* into the decisions root
File(text) == [kind |-> "file", text |-> text]

Phases == {"new", "staged", "planned", "snapped", "merging", "towrite",
           "written", "ready", "running", "wrote", "captured", "emitted",
           "exited", "accepted", "settled", "refused", "putback", "restored",
           "unrestored", "closing", "freed", "done", "died"}
Verdicts == {"none", "accepted", "refused", "failed"}

VARIABLES
    handler,    \* the run whose request the exchange handler is serving
    minted,     \* how many runs have been minted
    gate,       \* WriteGate::holder
    pc,         \* how far each run has got
    req,        \* each run's request
    worth,      \* what Gyld will think of each record
    prev,       \* the latest build as each run's handler read it
    snap,       \* each writing run's Snapshot
    text,       \* the text each run is about to write
    exit,       \* the host's exit code
    verdict,    \* what became of each run
    over,       \* <bundle-root>/overlays, the tree the hosts read
    kept,       \* the decisions root
    built,      \* the directories under <bundle-root>/builds
    latest,     \* latest.json
    publishing  \* the builds handed to spawn_publish

runVars == <<pc, req, worth, prev, snap, text, exit, verdict>>
treeVars == <<over, kept>>
buildVars == <<built, latest, publishing>>
vars == <<handler, minted, gate, runVars, treeVars, buildVars>>

-----------------------------------------------------------------------------
(* The requests and what the planner makes of them.                         *)

IsAnswer(r) == req[r].verb = "answer"
IsFork(r) == req[r].verb = "fork"
Whole(r) == IsAnswer(r) /\ ~req[r].merge
Forced(r) == IsFork(r) /\ req[r].force
Writes(r) == req[r].verb \in {"answer", "fork"}
BuildsDir(r) == req[r].verb \in {"answer", "rebuild"}
NeedsBundle(r) == req[r].verb # "fork"

-----------------------------------------------------------------------------
(* The trees.                                                                *)

\* Where a written notebook lives: the decisions root when there is one.
Home(s) == IF Decisions THEN kept[s] ELSE over[s]

\* What a host that opens a module in the staging tree reads, by what the two
\* names hold.
ReadOf(note, staged) == CASE staged.kind = "file" -> staged
                          [] staged.kind = "link" -> note
                          [] staged.kind = "seed" -> File({0})
                          [] OTHER -> Absent

Seen(s) == ReadOf(kept[s], over[s])

Dangling(s) == over[s] = KeptLink /\ kept[s] = Absent

\* adopt_held: a regular file a host left in the staging tree moves to the
\* decisions root, unless another text has that name there.
Adopts(s, adopting) ==
    /\ Decisions
    /\ adopting
    /\ over[s].kind = "file"
    /\ kept[s] \in {Absent, over[s]}

KeptAfter(adopting) ==
    [s \in Streams |-> IF Adopts(s, adopting) THEN over[s] ELSE kept[s]]

\* link_notebooks, drop_dangling and the seeding, in that order.
OverAfter(adopting) ==
    [s \in Streams |->
        LET adopted == Adopts(s, adopting)
            linked == Decisions /\ kept[s] # Absent /\ over[s].kind # "file"
            left == IF Decisions /\ Dangling(s) THEN Absent ELSE over[s]
        IN IF adopted \/ linked THEN KeptLink
           ELSE IF left = Absent /\ s \in Samples THEN SeedLink
           ELSE left]

\* lay_stage.  One caller at a time, under the stage lock.
LayStage(adopting) ==
    /\ over' = OverAfter(adopting)
    /\ kept' = KeptAfter(adopting)

\* Held::put on the notebook's own name.
PutHome(s, held) ==
    IF Decisions
    THEN /\ kept' = [kept EXCEPT ![s] = held]
         /\ UNCHANGED over
    ELSE /\ over' = [over EXCEPT ![s] = held]
         /\ UNCHANGED kept

\* Held::put, and stage_notebook's relink, on the name in the staging tree.
PutStaged(s, held) ==
    /\ over' = IF Decisions THEN [over EXCEPT ![s] = held] ELSE over
    /\ UNCHANGED kept

-----------------------------------------------------------------------------
(* The builds.                                                               *)

NoDir == [there |-> FALSE, whole |-> FALSE, text |-> [s \in Streams |-> Absent]]

Complete == {b \in Builds : built[b].there /\ built[b].whole}

\* latest_build's one answer: the pointer while its directory is whole, else
\* the newest whole directory.
LatestBuild ==
    IF latest \in Complete THEN {latest}
    ELSE IF Complete = {} THEN {NoBuild}
    ELSE {b \in Complete : \A c \in Complete : c <= b}

\* Does build b hold an ok:false validation.json for stream s?
Fails(b, s) == \E k \in built[b].text[s].text : worth[k] # "good"

\* Gyld cannot capture the tree: no streams.json, whatever else was written.
Uncapturable(b) ==
    \E s \in Streams : \E k \in built[b].text[s].text : worth[k] = "broken"

-----------------------------------------------------------------------------
Init ==
    /\ handler = Free
    /\ minted = 0
    /\ gate = Free
    /\ pc = [r \in Runs |-> "new"]
    /\ req = [r \in Runs |-> CHOOSE q \in Requests : TRUE]
    /\ worth \in {[k \in Records |-> IF k = 0 THEN w ELSE "good"] :
                     w \in {"good", "finding"}}
    /\ prev = [r \in Runs |-> NoBuild]
    /\ snap = [r \in Runs |-> [note |-> Absent, staged |-> Absent]]
    /\ text = [r \in Runs |-> {}]
    /\ exit = [r \in Runs |-> 0]
    /\ verdict = [r \in Runs |-> "none"]
    /\ over = [s \in Streams |-> IF s \in Samples THEN SeedLink ELSE Absent]
    /\ kept = [s \in Streams |-> Absent]
    /\ latest \in {0, NoBuild}
    /\ built = [b \in Builds |->
                  IF b = latest
                  THEN [there |-> TRUE, whole |-> TRUE,
                        text |-> [s \in Streams |->
                                    IF s \in Samples THEN File({0}) ELSE Absent]]
                  ELSE NoDir]
    /\ publishing = {}

-----------------------------------------------------------------------------
(* The handler: one request at a time (the kit serialises it).              *)

Goto(r, p) == pc' = [pc EXCEPT ![r] = p]

\* A response that is all the requester hears: the run is over.
Answered(r, v) ==
    /\ Goto(r, "done")
    /\ verdict' = [verdict EXCEPT ![r] = v]
    /\ handler' = Free

\* Seeded bug: the stage is laid adopting whether or not a write is in flight.
Receive_Adopts(q, w) ==
    LET r == minted + 1 IN
    /\ handler = Free /\ minted < MaxRuns
    /\ minted' = r /\ handler' = r
    /\ Goto(r, "staged")
    /\ req' = [req EXCEPT ![r] = q]
    /\ worth' = [worth EXCEPT ![r] = w]
    /\ LayStage(TRUE)
    /\ UNCHANGED <<gate, prev, snap, text, exit, verdict, buildVars>>

\* A request arrives; the stage is laid, adopting unless a write is in flight.
Receive(q, w) ==
    LET r == minted + 1 IN
    /\ handler = Free
    /\ minted < MaxRuns
    /\ minted' = r
    /\ handler' = r
    /\ Goto(r, "staged")
    /\ req' = [req EXCEPT ![r] = q]
    /\ worth' = [worth EXCEPT ![r] = w]
    /\ LayStage(gate = Free)
    /\ UNCHANGED <<gate, prev, snap, text, exit, verdict, buildVars>>

\* The current build is read and the request planned.  A verb that needs a
\* bundle is refused without one; a list is answered here.
MakePlan(r) ==
    /\ handler = r
    /\ pc[r] = "staged"
    /\ \E b \in LatestBuild :
          /\ prev' = [prev EXCEPT ![r] = b]
          /\ \/ NeedsBundle(r) /\ b = NoBuild /\ Answered(r, "failed")
             \/ req[r].verb = "list" /\ b # NoBuild /\ Answered(r, "accepted")
             \/ /\ req[r].verb # "list"
                /\ NeedsBundle(r) => b # NoBuild
                /\ Goto(r, "planned")
                /\ UNCHANGED <<handler, verdict>>
    /\ UNCHANGED <<minted, gate, req, worth, snap, text, exit, treeVars, buildVars>>

\* Snapshot::take: what the two names hold, before the gate is asked for.
TakeSnapshot(r) ==
    /\ handler = r
    /\ pc[r] = "planned"
    /\ snap' = IF Writes(r)
               THEN [snap EXCEPT ![r] = [note |-> Home(req[r].stream),
                                         staged |-> over[req[r].stream]]]
               ELSE snap
    /\ Goto(r, "snapped")
    /\ UNCHANGED <<handler, minted, gate, req, worth, prev, text, exit, verdict,
                   treeVars, buildVars>>

\* Seeded bug: the gate is taken over from whoever holds it.
TryHold_Anyway(r) ==
    /\ handler = r
    /\ pc[r] = "snapped"
    /\ gate' = IF Writes(r) THEN r ELSE gate
    /\ text' = IF Whole(r) THEN [text EXCEPT ![r] = {r}] ELSE text
    /\ Goto(r, IF Whole(r) THEN "towrite" ELSE "ready")
    /\ UNCHANGED <<handler, minted, req, worth, prev, snap, exit, verdict,
                   treeVars, buildVars>>

\* WriteGate::try_hold, for a verb that took a snapshot.
TryHold(r) ==
    /\ handler = r
    /\ pc[r] = "snapped"
    /\ Writes(r) => gate = Free
    /\ gate' = IF Writes(r) THEN r ELSE gate
    /\ text' = IF Whole(r) THEN [text EXCEPT ![r] = {r}] ELSE text
    /\ Goto(r, IF Whole(r) THEN "towrite" ELSE "ready")
    /\ UNCHANGED <<handler, minted, req, worth, prev, snap, exit, verdict,
                   treeVars, buildVars>>

\* The gate is held by another run: refused as data.
Busy(r) ==
    /\ handler = r
    /\ pc[r] = "snapped"
    /\ Writes(r)
    /\ gate # Free
    /\ Answered(r, "failed")
    /\ UNCHANGED <<minted, gate, req, worth, prev, snap, text, exit, treeVars, buildVars>>

\* A stage that cannot be laid, or a name that cannot be read for the snapshot,
\* refuses the verb before a byte is written.
CannotStart(r) ==
    /\ "io" \in Faults
    /\ handler = r
    /\ pc[r] = "staged" \/ (pc[r] = "planned" /\ Writes(r))
    /\ Answered(r, "failed")
    /\ UNCHANGED <<minted, gate, req, worth, prev, snap, text, exit, treeVars, buildVars>>

\* The accept of a streamed request frees the handler; a synchronous one
\* keeps it until the run is over.
Launch(r) ==
    /\ handler = r
    /\ pc[r] = "ready"
    /\ handler' = IF req[r].streamed THEN Free ELSE r
    /\ Goto(r, IF IsAnswer(r) /\ req[r].merge THEN "merging" ELSE "running")
    /\ UNCHANGED <<minted, gate, req, worth, prev, snap, text, exit, verdict,
                   treeVars, buildVars>>

-----------------------------------------------------------------------------
(* The two writes, which the whole-module path makes in the handler and the *)
(* fragment path inside the run.                                            *)

\* write_overlay: forced for an answer, an atomic replace of the name itself.
WriteOverlay(r) ==
    /\ pc[r] = "towrite"
    /\ PutHome(req[r].stream, File(text[r]))
    /\ Goto(r, "written")
    /\ UNCHANGED <<handler, minted, gate, req, worth, prev, snap, text, exit, verdict,
                   buildVars>>

\* stage_notebook: the staging tree is pointed at the notebook.
StageNotebook(r) ==
    /\ pc[r] = "written"
    /\ PutStaged(req[r].stream, KeptLink)
    /\ Goto(r, IF Whole(r) THEN "ready" ELSE "running")
    /\ UNCHANGED <<handler, minted, gate, req, worth, prev, snap, text, exit, verdict,
                   buildVars>>

\* Either write fails.  The handler answers `failed` and the guard's drop frees
\* the gate; fold refuses, and the run goes on to close.  Nothing is restored.
WriteFails(r) ==
    /\ "io" \in Faults
    /\ pc[r] \in {"towrite", "written"}
    /\ IF Whole(r)
       THEN /\ Answered(r, "failed")
            /\ gate' = Free
       ELSE /\ Goto(r, "closing")
            /\ verdict' = [verdict EXCEPT ![r] = "refused"]
            /\ UNCHANGED <<handler, gate>>
    /\ UNCHANGED <<minted, req, worth, prev, snap, text, exit, treeVars, buildVars>>

\* Seeded bug: the fragment replaces the notebook it should be folded into.
MergeAnswers_Replaces(r) ==
    /\ pc[r] = "merging"
    /\ Seen(req[r].stream) # Absent
    /\ text' = [text EXCEPT ![r] = {r}]
    /\ Goto(r, "towrite")
    /\ UNCHANGED <<handler, minted, gate, req, worth, prev, snap, exit, verdict,
                   treeVars, buildVars>>

\* The merge host folds the fragment into the notebook it reads.
MergeAnswers(r) ==
    /\ pc[r] = "merging"
    /\ Seen(req[r].stream) # Absent
    /\ text' = [text EXCEPT ![r] = Seen(req[r].stream).text \cup {r}]
    /\ Goto(r, "towrite")
    /\ UNCHANGED <<handler, minted, gate, req, worth, prev, snap, exit, verdict,
                   treeVars, buildVars>>

\* The merge host refuses, fails, times out or prints no module.
MergeRefuses(r) ==
    /\ pc[r] = "merging"
    /\ Goto(r, "closing")
    /\ verdict' = [verdict EXCEPT ![r] = "refused"]
    /\ UNCHANGED <<handler, minted, gate, req, worth, prev, snap, text, exit,
                   treeVars, buildVars>>

-----------------------------------------------------------------------------
(* The Gyld host of a run (external).                                       *)

\* A fork's host writes its module into the staging tree: over one only when it
\* is told to `--force`, and then as a file in the link's place or through a
\* link to a notebook, as the host pleases.  It does not write through a link
\* into the Gyld checkout.
HostWrites(r) ==
    /\ pc[r] = "running"
    /\ IsFork(r)
    /\ over[req[r].stream] = Absent \/ Forced(r)
    /\ \/ /\ over' = [over EXCEPT ![req[r].stream] = File({r})]
          /\ UNCHANGED kept
       \/ /\ over[req[r].stream] = KeptLink
          /\ kept' = [kept EXCEPT ![req[r].stream] = File({r})]
          /\ UNCHANGED over
    /\ Goto(r, "wrote")
    /\ UNCHANGED <<handler, minted, gate, req, worth, prev, snap, text, exit, verdict,
                   buildVars>>

\* A build's host reads the staging tree into its new directory ...
HostCaptures(r) ==
    /\ pc[r] = "running"
    /\ BuildsDir(r)
    /\ \A s \in Streams : ~Dangling(s)
    /\ built' = [built EXCEPT ![r] = [there |-> TRUE, whole |-> FALSE,
                                      text |-> [s \in Streams |-> Seen(s)]]]
    /\ Goto(r, "captured")
    /\ UNCHANGED <<handler, minted, gate, req, worth, prev, snap, text, exit, verdict,
                   treeVars, latest, publishing>>

\* ... and writes streams.json last, when the capture raised nothing.
HostEmits(r) ==
    /\ pc[r] = "captured"
    /\ ~Uncapturable(r)
    /\ built' = [built EXCEPT ![r].whole = TRUE]
    /\ Goto(r, "emitted")
    /\ UNCHANGED <<handler, minted, gate, req, worth, prev, snap, text, exit, verdict,
                   treeVars, latest, publishing>>

\* It exits 0 when its work is done, or fails at any point: a finding of its
\* own, a traceback, the runner's timeout, a host that never spawned.
HostExits(r) ==
    /\ \/ /\ \/ pc[r] \in {"wrote", "emitted"}
             \/ pc[r] = "running" /\ req[r].verb = "diff"
          /\ exit' = [exit EXCEPT ![r] = 0]
       \/ /\ pc[r] \in {"running", "wrote", "captured", "emitted"}
          /\ exit' = [exit EXCEPT ![r] = 1]
    /\ Goto(r, "exited")
    /\ UNCHANGED <<handler, minted, gate, req, worth, prev, snap, text, verdict,
                   treeVars, buildVars>>

-----------------------------------------------------------------------------
(* Landing: what the run did, and the bundle root made to agree with it.    *)

\* Seeded bug: only the exit code is looked at.
Refuses_ExitOnly(r) == exit[r] # 0

\* classify: did the run make the stream it wrote worse?
Refuses(r) ==
    \/ exit[r] # 0
    \/ /\ IsAnswer(r)
       /\ Fails(r, req[r].stream)
       /\ ~(prev[r] # NoBuild /\ Fails(prev[r], req[r].stream))

Judge(r) ==
    /\ pc[r] = "exited"
    /\ LET v == IF Refuses(r) THEN "refused" ELSE "accepted" IN
       /\ verdict' = [verdict EXCEPT ![r] = v]
       /\ Goto(r, v)
    /\ UNCHANGED <<handler, minted, gate, req, worth, prev, snap, text, exit,
                   treeVars, buildVars>>

\* one_line panics on a message whose 240th byte is inside a character: the
\* host's last word or its document's, before anything is restored, or the line
\* a refusal leaves.  The task unwinds, and the guard's drop frees the gate.
OneLinePanics(r) ==
    /\ "panic" \in Faults
    /\ req[r].streamed
    /\ \/ pc[r] = "exited" /\ (exit[r] # 0 \/ (IsAnswer(r) /\ Fails(r, req[r].stream)))
       \/ pc[r] = "closing" /\ verdict[r] = "refused"
    /\ gate' = IF gate = r THEN Free ELSE gate
    /\ Goto(r, "died")
    /\ UNCHANGED <<handler, minted, req, worth, prev, snap, text, exit, verdict,
                   treeVars, buildVars>>

\* Snapshot::restore, the notebook first and then the name in the stage.
RestoreNotebook(r) ==
    /\ pc[r] = "refused"
    /\ Writes(r)
    /\ PutHome(req[r].stream, snap[r].note)
    /\ Goto(r, "putback")
    /\ UNCHANGED <<handler, minted, gate, req, worth, prev, snap, text, exit, verdict,
                   buildVars>>

RestoreStaged(r) ==
    /\ pc[r] = "putback"
    /\ PutStaged(req[r].stream, snap[r].staged)
    /\ Goto(r, "restored")
    /\ UNCHANGED <<handler, minted, gate, req, worth, prev, snap, text, exit, verdict,
                   buildVars>>

\* Either name cannot be put back: told to the desk, and the landing goes on.
RestoreFails(r) ==
    /\ "io" \in Faults
    /\ pc[r] = "putback" \/ (pc[r] = "refused" /\ Writes(r))
    /\ Goto(r, "unrestored")
    /\ UNCHANGED <<handler, minted, gate, req, worth, prev, snap, text, exit, verdict,
                   treeVars, buildVars>>

\* Seeded bug: the refused build is left where it is, unpublished.
Discard_Leaves(r) ==
    /\ pc[r] = "restored" \/ (pc[r] = "refused" /\ ~Writes(r))
    /\ Goto(r, "closing")
    /\ UNCHANGED <<handler, minted, gate, req, worth, prev, snap, text, exit, verdict,
                   treeVars, buildVars>>

\* Seeded bug: the previous build is removed instead.
Discard_Previous(r) ==
    /\ pc[r] = "restored" \/ (pc[r] = "refused" /\ ~Writes(r))
    /\ built' = IF prev[r] \in Builds THEN [built EXCEPT ![prev[r]] = NoDir] ELSE built
    /\ Goto(r, "closing")
    /\ UNCHANGED <<handler, minted, gate, req, worth, prev, snap, text, exit, verdict,
                   treeVars, latest, publishing>>

\* discard: the directory the refused run built goes, or its removal fails
\* with a line on stderr.
Discard(r) ==
    /\ \/ pc[r] \in {"restored", "unrestored"}
       \/ pc[r] = "refused" /\ ~Writes(r)
    /\ \/ built' = IF BuildsDir(r) THEN [built EXCEPT ![r] = NoDir] ELSE built
       \/ "io" \in Faults /\ UNCHANGED built
    /\ Goto(r, "closing")
    /\ UNCHANGED <<handler, minted, gate, req, worth, prev, snap, text, exit, verdict,
                   treeVars, latest, publishing>>

\* Seeded bug: the stage is laid without adopting here too.
Settle_NoAdopting(r) ==
    /\ pc[r] = "accepted"
    /\ IF Writes(r) /\ Decisions THEN LayStage(FALSE) ELSE UNCHANGED treeVars
    /\ Goto(r, "settled")
    /\ UNCHANGED <<handler, minted, gate, req, worth, prev, snap, text, exit, verdict,
                   buildVars>>

\* settle: the notebook an accepted run wrote is adopted.  A failure of it is
\* a line on stderr.
Settle(r) ==
    /\ pc[r] = "accepted"
    /\ \/ IF Writes(r) /\ Decisions THEN LayStage(TRUE) ELSE UNCHANGED treeVars
       \/ "io" \in Faults /\ UNCHANGED treeVars
    /\ Goto(r, "settled")
    /\ UNCHANGED <<handler, minted, gate, req, worth, prev, snap, text, exit, verdict,
                   buildVars>>

\* Seeded bug: the pointer names a stamp taken afresh, not the run's own.
Finish_FreshStamp(r) ==
    /\ pc[r] = "settled"
    /\ IF BuildsDir(r) /\ built[r].whole
       THEN /\ latest' = r + 1
            /\ publishing' = publishing \cup {r}
       ELSE UNCHANGED <<latest, publishing>>
    /\ Goto(r, "closing")
    /\ UNCHANGED <<handler, minted, gate, req, worth, prev, snap, text, exit, verdict,
                   treeVars, built>>

\* Seeded bug: the build is published and never recorded.
Finish_Unrecorded(r) ==
    /\ pc[r] = "settled"
    /\ publishing' = IF BuildsDir(r) /\ built[r].whole THEN publishing \cup {r}
                                                        ELSE publishing
    /\ Goto(r, "closing")
    /\ UNCHANGED <<handler, minted, gate, req, worth, prev, snap, text, exit, verdict,
                   treeVars, built, latest>>

\* finish: an accepted build becomes the latest, or the pointer cannot be
\* written, and it goes to be published all the same.
Finish(r) ==
    /\ pc[r] = "settled"
    /\ IF BuildsDir(r) /\ built[r].whole
       THEN /\ latest' = r \/ ("io" \in Faults /\ UNCHANGED latest)
            /\ publishing' = publishing \cup {r}
       ELSE UNCHANGED <<latest, publishing>>
    /\ Goto(r, "closing")
    /\ UNCHANGED <<handler, minted, gate, req, worth, prev, snap, text, exit, verdict,
                   treeVars, built>>

\* Seeded bug: every run that ends frees the gate, its own or not.
FreeGate_Anyone(r) ==
    /\ pc[r] = "closing"
    /\ gate' = Free
    /\ Goto(r, "freed")
    /\ UNCHANGED <<handler, minted, req, worth, prev, snap, text, exit, verdict,
                   treeVars, buildVars>>

\* Seeded bug: the guard of a refused run is leaked.
FreeGate_Leaks(r) ==
    /\ pc[r] = "closing"
    /\ gate' = IF gate = r /\ verdict[r] = "accepted" THEN Free ELSE gate
    /\ Goto(r, "freed")
    /\ UNCHANGED <<handler, minted, req, worth, prev, snap, text, exit, verdict,
                   treeVars, buildVars>>

\* The guard is dropped ...
FreeGate(r) ==
    /\ pc[r] = "closing"
    /\ gate' = IF gate = r THEN Free ELSE gate
    /\ Goto(r, "freed")
    /\ UNCHANGED <<handler, minted, req, worth, prev, snap, text, exit, verdict,
                   treeVars, buildVars>>

\* ... and the outcome told: the terminal record, or the response.
Tell(r) ==
    /\ pc[r] = "freed"
    /\ Goto(r, "done")
    /\ handler' = IF handler = r THEN Free ELSE handler
    /\ UNCHANGED <<minted, gate, req, worth, prev, snap, text, exit, verdict,
                   treeVars, buildVars>>

-----------------------------------------------------------------------------
Serve(r) ==
    \/ MakePlan(r) \/ TakeSnapshot(r) \/ TryHold(r)
    \/ Busy(r) \/ CannotStart(r) \/ Launch(r)

Write(r) ==
    \/ WriteOverlay(r) \/ StageNotebook(r) \/ WriteFails(r)
    \/ MergeAnswers(r) \/ MergeRefuses(r)

Host(r) == HostWrites(r) \/ HostCaptures(r) \/ HostEmits(r) \/ HostExits(r)

Land(r) ==
    \/ Judge(r) \/ OneLinePanics(r) \/ RestoreNotebook(r) \/ RestoreStaged(r)
    \/ RestoreFails(r) \/ Discard(r) \/ Settle(r) \/ Finish(r) \/ FreeGate(r) \/ Tell(r)

RunStep(r) == Serve(r) \/ Write(r) \/ Host(r) \/ Land(r)

\* Only an owner's text can be one Gyld dislikes: a fork's host has checked the
\* module it wrote.
Arrive == \E q \in Offers, w \in Worths :
    /\ q.verb # "answer" => w = "good"
    /\ Receive(q, w)

Next == Arrive \/ \E r \in Runs : RunStep(r)

Spec == Init /\ [][Next]_vars

\* Every step of a run is the supplier's own or is bounded by the runner's
\* timeout, so it is taken in the end; a request need never arrive.
Fairness == \A r \in Runs : WF_vars(RunStep(r))

FairSpec == Spec /\ Fairness

-----------------------------------------------------------------------------
(* What must hold.                                                           *)

\* Every variable has its type.
TypeOK ==
    /\ handler \in Runs \cup {Free}
    /\ minted \in Records
    /\ gate \in Runs \cup {Free}
    /\ pc \in [Runs -> Phases]
    /\ req \in [Runs -> Requests]
    /\ worth \in [Records -> Worths]
    /\ prev \in [Runs -> Builds \cup {NoBuild}]
    /\ snap \in [Runs -> [note : Held, staged : Held]]
    /\ text \in [Runs -> SUBSET Records]
    /\ exit \in [Runs -> {0, 1}]
    /\ verdict \in [Runs -> Verdicts]
    /\ over \in [Streams -> Held]
    /\ kept \in [Streams -> Held]
    /\ built \in [Builds -> [there : BOOLEAN, whole : BOOLEAN, text : [Streams -> Held]]]
    /\ latest \in Builds \cup {NoBuild}
    /\ publishing \subseteq Runs

\* From try_hold to the guard's drop.
GatedPhases == {"towrite", "written", "ready", "merging", "running", "wrote",
                "captured", "emitted", "exited", "accepted", "settled",
                "refused", "putback", "restored", "unrestored", "closing"}

\* gate.rs:3 "Writing verbs run ONE AT A TIME": the gate names exactly the one
\* writing run that is between its try_hold and the drop of its guard, however
\* that run ends.
GateExact == \A r \in Runs : gate = r <=> (Writes(r) /\ pc[r] \in GatedPhases)

\* A run that is told "accepted" was judged on a build that read its own text:
\* nothing replaced the notebook between the write and the capture.
JudgedOnItsText ==
    \A r \in Runs :
        IsAnswer(r) /\ verdict[r] = "accepted" => r \in built[r].text[req[r].stream].text

\* bundle.rs:722 "the bundle root's latest successful build": the pointer names
\* a whole directory, and one whose run was accepted; a discard never takes the
\* directory from under it, and what is published is such a build too.
LatestStands ==
    /\ latest # NoBuild => latest \in Complete
    /\ \A r \in Runs : r \in publishing \cup {latest} =>
          verdict[r] = "accepted" /\ r \in Complete

\* outcome.rs:135 "Put both names back exactly as they were": once a refused
\* write has been put back the notebook is the snapshot's, and its own record
\* is not in it, whatever the other runs and the stage did meanwhile.
RestoredExactly ==
    \A r \in Runs :
        pc[r] \in {"putback", "restored"} =>
            /\ Home(req[r].stream) = snap[r].note
            /\ r \notin Home(req[r].stream).text

\* Where record k can be met: a notebook, the stage, a build that could answer.
Traces(k) ==
    \/ \E s \in Streams : k \in Home(s).text \cup Seen(s).text
    \/ \E b \in Complete, s \in Streams : k \in built[b].text[s].text

\* outcome.rs:3 "A writing verb that makes things WORSE is refused and leaves
\* no trace": no tree and no build holds a record whose run was refused.
RefusedLeavesNoTrace ==
    \A r \in Runs :
        (Writes(r) /\ pc[r] \in {"done", "died"} /\ verdict[r] # "accepted") => ~Traces(r)

\* An answer with a whole module, or a fork told to force, replaces what its
\* stream's module held.
Rewrites(w) == Whole(w) \/ Forced(w)

\* Is r's record superseded by a later accepted run that rewrites its module?
Superseded(r) ==
    \E w \in Runs : w > r /\ Rewrites(w) /\ verdict[w] = "accepted"
                    /\ req[w].stream = req[r].stream

\* gate.rs:11: no write is lost to another's refusal.  A record a desk was told
\* is saved is what its stream's hosts read once no write is in flight, until a
\* later run that stands rewrites the module.
SavedStays ==
    \A r \in Runs :
        (Writes(r) /\ pc[r] = "done" /\ verdict[r] = "accepted" /\ gate = Free)
            => Superseded(r) \/ r \in Seen(req[r].stream).text

\* ... and in the latest build, which its own run made.
SavedIsCurrent ==
    \A r \in Runs :
        (IsAnswer(r) /\ pc[r] = "done" /\ verdict[r] = "accepted" /\ gate = Free)
            => Superseded(r) \/ r \in built[latest].text[req[r].stream].text

\* The modules that forced forks which stand wrote for a stream.
ForcedModules(s) ==
    {File({f}) : f \in {g \in Runs : Forced(g) /\ verdict[g] = "accepted" /\ req[g].stream = s}}

\* A notebook and the name in the stage agree: it leads to the notebook where
\* there is one and holds no file of its own.  Or they are in dispute: a forced
\* fork's module stands beside another notebook, and bundle.rs:482 keeps both.
Agreed(forced, note, staged) ==
    \/ /\ note # Absent <=> staged = KeptLink
       /\ staged.kind # "file"
    \/ note \notin {Absent, staged} /\ staged \in forced

\* With no run under way the stage and the decisions root agree: each notebook
\* is what its stream reads, no link leads nowhere, and every module a host
\* wrote into the stage has been adopted, save one a forced fork disputes.
StageAgrees ==
    (Decisions /\ handler = Free /\ gate = Free) =>
        \A s \in Streams : Agreed(ForcedModules(s), kept[s], over[s])

\* outcome.rs:190: an answer that lands never turns its stream from ok to not
\* ok in the bundle the desk shows.
NeverWorse ==
    [][\A r \in Runs :
          (IsAnswer(r) /\ latest' = r /\ latest # r /\ latest # NoBuild
             /\ Fails(r, req[r].stream)) => Fails(latest, req[r].stream)]_vars

\* A request that arrives is answered or its run ends, and the gate it took is
\* freed: neither a refusal nor a run that dies wedges the desk shut (gate.rs:31).
RunsEnd ==
    \A r \in Runs : pc[r] = "staged" ~> (pc[r] \in {"done", "died"} /\ gate # r)

=============================================================================
