# A TLA+ model of the gyld supplier

`glade-gyld` is a long-running supplier process. It attaches to a glade node,
serves one exchange surface (the *verbs* of a design desk: answer, ask, fork,
link, rebuild, diff, list, explain), runs Gyld's Python hosts to do the work,
keeps a *bundle root* of notebooks and builds on disk, and publishes each build
as documents on value surfaces. This directory models the parts of it whose
correctness depends on the order in which things happen.

All source paths below are relative to `src/src/` in the repository.

## 1. Inventory

| component | source | state | operations | who it talks to |
|---|---|---|---|---|
| exchange handler, streamed runs | `supplier/exchange.rs` `stream.rs` `landing.rs` `notebook.rs` `merge.rs` | the request being served; per run: plan, previous build, snapshot, guard | receive, plan, take the snapshot, take the gate, write, launch, land, tell | everything below; the kit calls it one request at a time, streamed runs go on in blocking tasks |
| write gate | `supplier/gate.rs` | `holder`, shared by handler and tasks | `try_hold`, `in_flight`, guard drop | handler, runs |
| judging and restoring | `outcome.rs` | a `Snapshot` per writing run | `classify`, `take`, `restore` | runs, bundle root |
| bundle root | `bundle.rs` | staging tree, decisions root, `builds/`, `latest.json`, the stage lock | `lay_stage`, `stage_notebook`, `write_latest`, `latest_build` | handler, runs, first build, publication |
| planner | `verbs.rs` | none | request to `Plan` | handler |
| attach, first build | `supplier/attach.rs` `first_build.rs` | what the root held at start | publish what is there, or build once | publication, bundle root, hosts |
| publication | `supplier/publication.rs` `publish.rs` | one task per finished build | pick the chains up, ask whether it is overtaken, write each document | writer, pointer |
| writer and chains | `supplier/writer.rs` | `Resumed::seen` under an async lock | `write`, `attempt`, `resume`, `forget` | node, client session |
| host runner, shutdown | `exec.rs` `signals.rs` | tally of running hosts, `ending` | count in, spawn, drain, watch, kill, reap, count out, `end_all` | operating system, runs, shutdown |
| consultation, budgets | `supplier/consultation.rs` `model/client.rs` `prompt.rs` | the ledger of what each conversation spent | steps, tool calls, budgets, terminal record | model client, tools, writer |
| conversation replay | `conversation.rs` | none | records to turns | consultation |
| HTTPS model client | `model/https.rs` `request.rs` `sse.rs` `outcome.rs` | what was learnt per endpoint | degrade ladder, event-stream fold | consultation |
| tools | `tools.rs` `toolset.rs` `search.rs` `sources.rs` `fetch.rs` `github.rs` `websearch.rs` | the calls of a turn, each on a thread of its own | six tools, their budgets and `run_within` | consultation, builds, the web |
| agent configuration | `agent.rs` `model/config.rs` `model/credentials.rs` `supplier/config.rs` | none: read afresh for each turn, a key at each call; the github token once | precedence of flags, environment, file | consultation, attach |
| run ids | `supplier/run_ids.rs` | counter, session tag | `mint` | handler, first build |
| ask context and drafts | `ask.rs` | none | what a question must say, what a draft must hold | handler, consultation |
| envelope, binary, environment | `envelope.rs` `bin/` `environment.rs` | none | parsing, printing, start-up | all |

What is hard, and which component has to be right about it:

* **A streamed run outlives its handler.** The handler answers `accepted` and
  serves the next request while the run's host still reads or writes the stage.
  The write path must keep every reader's and writer's view consistent: at most
  one writing verb (gate), the stage not adopted from under a host, a refused
  write put back *exactly*, no accepted record lost to another's refusal.
* **Judging is relative.** An answer is refused only when its stream turned from
  ok to not ok, compared with a build that was read when it was planned.
* **Every step of a landing may fail** (either of two names written or put back,
  the pointer, the removal of a directory, a panic in wording), and the gate must
  be freed all the same.
* **Publications overlap**, share one writer, and a refused write drops a whole
  chain that another task may be about to write.
* **Shutdown races spawns, timeouts and exits**: no host may be left, none may be
  signalled after it was reaped, and the shutdown may not sleep on a tally nobody
  will lower.
* **Budgets** are read before a turn and charged after it; two turns of one
  conversation may overlap, and a step is bought on an estimate.
* **A turn is two actors**: blocking work that talks to a model and its tools, and a
  task that appends what the work says. What a reader sees must still be one
  well-formed log, whichever of them fails, and whatever is lost on the way.
* **What is learnt of an endpoint** is shared by turns that may be asked of others.
* **Everything around a turn moves while it runs**: the configuration, the mode of a
  key file, the newest build. A turn's requests and answers must be of one
  configuration and one build.
* **The endpoint's errors teach.** Any 400 drops a feature for good, whatever it was about.
* **An abandoned tool goes on running**, and nobody may hear it.

`PROJECT.json` lists each of these under `hazards`, at the line where it bites.

## 2. Modules

| module | what it is |
|---|---|
| `WritePath` | exchange handler, streamed runs, gate, snapshots, staging tree, decisions root, builds, pointer |
| `MCWritePath` | the requests offered in its model-checking runs |
| `WritePathProofs` | its theorems: the gate, the pointer, the text a run is judged on |
| `WriteLandProofs` | its theorems: what a write leaves behind, landed or refused |
| `Publication` | several publications over one `Writer`, the chains and the client's session |
| `MCPublication` | what each build documents in its runs |
| `PublicationProofs` | its theorems |
| `Hosts` | the runner's tally, `run_counted`, the unix process group, `end_all` |
| `MCHosts` | two named runs |
| `HostsProofs` | its theorems |
| `Lists` | the two folds the operators share: a filter and a sum |
| `ListsProofs` | what a fold, a filter and a sum come to, by induction on positions |
| `Events` | the fold of a model's event stream (operators) |
| `Turns` | the fold of a conversation's records into the turns a follow-up replays (operators) |
| `AskLog` | abstract: what a reader of the ask surface may rely on |
| `Consult` | consultations over one ledger and one model client; implements `AskLog`; EXTENDS `Events`, `Turns` |
| `ConsultProofs` | what the fold of any stream comes to, and the safety theorems of `Consult` |
| `ConsultLogProofs` | that it implements `AskLog` |
| `MCConsult` | the endpoints, configurations and streams of its run |
| `Agent` | the agent's configuration and its credentials (operators) |
| `Fetch`, `WebSearch`, `GitHub` | the three network tools and the redirects their clients follow (operators), each EXTENDS the one before |
| `Toolset` | the three tools over a build, and the registry (operators); EXTENDS `GitHub` |
| `Tools` | planning a question, a turn's calls and their threads, beside edits and builds that land; EXTENDS `Toolset` |
| `ToolsProofs` | its safety theorems |
| `MCTools` | the desk, builds, questions and web of its run |

### WritePath

Each run is named by its number (the order `mint` gives). `pc[r]` follows one run
from `Receive` to `Tell`; `handler` is the run whose request the exchange handler
is serving, and a streamed request frees it at `Launch`, which is where the
interleaving begins.

* *Handler.* `Receive` (lay the stage, adopting unless a write is in flight),
  `MakePlan` (read the latest build, refuse a verb that needs one), `TakeSnapshot`,
  `TryHold`/`Busy`, `WriteOverlay`, `StageNotebook`, `Launch`: the order and the
  early returns are those of `answer_verb` in `exchange.rs`. `WriteFails` and
  `CannotStart` are its I/O errors.
* *Run.* A fragment answer first merges (`MergeAnswers`, then the same two
  writes); then the host runs (`HostWrites`, `HostCaptures`, `HostEmits`,
  `HostExits`, external); then it lands: `Judge` (`classify`), and either
  `RestoreNotebook`, `RestoreStaged`, `Discard` or `Settle`, `Finish`; then
  `FreeGate` and `Tell`.
* *Trees.* `over[s]` is a stream's name in `<bundle-root>/overlays`, `kept[s]` its
  name in the decisions root. A name holds nothing, a link into the checkout, a
  link into the decisions root or a file. `Seen(s)` is what a host that opens it
  reads. `KeptAfter` and `OverAfter` are `lay_stage`: adopt, link, drop dangling
  links, seed, in that order.
* *Builds.* A directory is `there`, and `whole` once it holds a `streams.json`.
  `LatestBuild` is `latest_build`, with its fallback.

Abstractions, each of which a property could not tell from the code:
a notebook's text is the set of records it holds (record 0 is the owner's, record
*r* what run *r* added), and `worth[k]` is what Gyld makes of record *k*: good, a
finding, or not capturable. `ask` is an `answer` and `link` a `fork`. A fork carries
`force` (`envelope.rs:81`, `verbs.rs:332`): its host then writes over a module that
stands, as a file in the place of the link or through the link into the decisions
root, which is the host's affair and left open. Adoption meets a file beside another
notebook after the first, and puts it back and keeps both (`bundle.rs:482`). A forced
`diff` writes no module. `lay_stage` is one step. A host fails at any point or succeeds. A panic of `one_line` is
modelled in a streamed run, whose task unwinds; a synchronous one would unwind the
handler, and what the kit then does is not in this repository. `explain` is not a
request of this module.

### Publication

One task per build (`pc[b]`), in the order of `spawn_publish`: pick every chain
up (`PickUp`, `PickedUp`, `Subscribed` are `Resumed::once`, the lock held over the
subscribe), ask once whether it is overtaken (`Check`), then per document pick up
again, append (`Accepted`, `Refused`, `NoAnswer`) and, refused, `Forget` and try
once more. `Finish` is what a landing does: the pointer, then the task. Builds may
finish in any order. A document's payload is its build's number; `value[c]` is the
build a chain's fold shows. The node and the client's session are external: a chain
the session does not hold but the node has a history of is refused as an
equivocation, a refused chain is dropped by the client until a subscribe resumes
it (`writer.rs:74`), and an op that is not placed or not answered in time stands as
placed (`writer.rs:122`). The history variables `wrote`, `said`, `unresumed`,
`raced` are read by properties only.

### Hosts

`pc[r]` follows one call of `run_counted`; `running` and `ending` are the tally,
`shutdown` the caller of `end_all`, asleep, woken or back. A host and one process it
starts may close their pipes, run on, exit, or leave the group. The clock is left
out: a deadline may pass at any tick. `wait` fails only as a unix system makes it
fail there, with no such child. The windows job object and the byte budget are not
modelled.

### Consult

`pc[t]` follows the task of a turn through `consult_run`: `Accept` (the handler
answers and the turn goes on by itself), `Resume`, `ReadPrior`, `AskQuestion`,
`Begin` (the configuration, the notes, what was spent), `Receive` one reply at a
time, `Close` (the channel read to its end, the ledger charged), `AppendEnd`.
`work[t]` follows the blocking work: `Ground`, then per step of `model::consult`
`CountTokens`/`Counted`, the three budgets (`Weigh`, `Fits`), `Rejected` (one rung
of the degrade ladder), `Stream` (a whole stream, folded by `Events`), and per call
`CallTool`, `ToolReturns`; `LateAnswer` is a thread past its deadline. `channel[t]`
joins the two. All turns share `ledger` and `learned`. `Restart` is a crash: tasks,
work, ledger and what was learnt are gone, the records stay, and no session holds a
chain until it takes it up again.

`records[t]` is the run of a turn on the ask surface and `order[c]` the order in
which runs first appeared, which is what `turns` groups by. An append may be lost
(`AppendAsk`), as one that `Writer::write` gave up on. What an endpoint takes, and
what its 400 may name, is the constant `Accepts`. It answers 400 to a shape it does
not take, and, as the fault `status`, to anything else it dislikes of a request (a
prompt too long, a model it does not know); the code tells the two no further apart
than by a field's name in the text, degrades on either and remembers it
(`model/https.rs:245`). A count may be answered 404 in the same way. The streams it
may answer with are `Transcripts`, by the size of the body, which grows by one with
every round. A token is a unit: a body counts its size, and the estimate is above
it. Three history variables are read by properties only: `used` is what the
endpoint's replies said a turn used, whatever became of it, `failed` the turns whose
work ended refused or panicked, `rejections` who answered a question 400 or a count
404.

A chain of `if` or a `match` whose guards overlap is an IF-THEN-ELSE in the model, not
a CASE: CASE leaves open which of several true guards is taken, where the code takes the
first. The proofs are about every choice it leaves, TLC only about the first.

**The refinement.** `Log == INSTANCE AskLog WITH Runs <- TurnIds, log <- records`.
`AskLog` keeps a log per run and says which record may follow: a question first,
citations before anything is answered, one call at a time and each result of a call
that was made, nothing after the end, and a clean end only when every call was
answered; streams in `Losable` may be missing. `ShowsTheLog == Log!Spec` is a
property of the run, through overlapping turns, panics, refused appends and a
restart.

### Agent, the tools' operators, and Tools

`Agent` is `resolve` as a function of the file, the environment and the flags, with
every default and every note, and the credentials as functions of what the key files
are at that moment. The tools' modules say what each tool checks before it asks
anything, where it asks (`fetch_begins`, `search_begins`, `github_begins`), what it
makes of an answer (`follow`, `search_reads`, `github_reads`), and what the three
tools over a build answer (`read_source`, `gyld_query`, `search_sources`). A text is
its size, whether something was withheld from it and whether it says so; a line is
its length and where its words stand; an address is its numbers, so that `private`
does the arithmetic of the code. `fetch_url` walks its redirects by hand (`follow`);
the clients of `github`, `web_search` and the model are built without a redirect
policy, so reqwest's own follows up to ten of them to any host (`redirected`), the
provider's key with them. A `github` body that cannot be read or is no JSON is
answered as an empty file or as no match (`github.rs:259`), as in the code.
`gyld_query` refuses a list over `MAX_READ_BYTES` (a build's `large`), trims the slot
it is asked for and bounds its length; `search_sources` reads the same list whatever
its size.

In `Tools`, `Explain` is the planner's `explain` (the newest build, readiness by
presence), `Resolve`, `Open` and `Post` are the turn's configuration, its tools and
its request of the model with the key read then; `Call` makes a call on a thread;
`Reads`, `Requests`, `Served` (a response, perhaps another hop), `TimesOut` and
`Panics` are the thread; `Received`, `Disconnected` and `Abandoned` are the three
ends of `run_within`. `EditConfig`, `EditKey` and `BuildLands` happen at any time.
What a local tool answers is tabulated (`local_answer`), since builds and documents
do not change. A round of the model is one call here; rounds, budgets and records
are `Consult`'s.

## 3. Runs

| run | bounds | what it asks |
|---|---|---|
| `write_sync` | 3 requests of eight kinds, forced forks among them, 2 streams, one of them with a shipped sample, decisions root | with the handler held to the end: no trace of a refusal, nothing saved is lost before a whole-module answer or a forced fork rewrites it, the pointer's build holds it, stage and decisions root agree but for a module a forced fork disputes, a landing never makes the desk's stream worse |
| `write_streamed` | 2 requests of seven kinds streamed or not, a forced fork among them, I/O faults, panics | the gate is exact, a verdict is passed on the run's own text, the pointer's build stands, a restore is exact, every run ends and frees the gate |
| `hosts` | 2 runs, every fault, a shutdown at any moment | the tally, the wake-up, the reaping and killing order, and that every run returns |
| `consult` | 2 turns of one conversation, 3 endpoints, 1 tool round, a budget of 3, 1 fault of any kind, `end` losable | the log is implemented, calls are answered before the next request, no reply is bought past the budget, the ledger holds each closed turn that did not fail exactly once, what is learnt stays and is of an endpoint that answered so, a follow-up replays what was shown |
| `tools` | 1 turn, 2 calls, 1 edit, 2 builds, 1 panic, every response of a small web | the requests a tool chooses stay within the turn's configuration, the tools answer of one build, no cut is silent, every thread ends |
| `publication` | 1 build at attach, 2 more in any order, 2 chains, 1 refusal, every fault | order of landing, nothing lost in silence, replay before append, a dropped chain picked up again, every publication ends |

Three requests are enough in `write_sync` for the longest chain its properties
speak of: a record that lands, one that is refused over it, one that supersedes it;
two streams let a run meddle with another's name. Two runs are enough where runs
overlap because the gate, the snapshot and the restore relate pairs of runs. Two
builds after the one found at attach give an overtaken task, an overtaking one and
a builder that finishes out of order; build 2 documents fewer chains than build 1,
so overtaking is not the same as overwriting. Two hosts let one be refused, woken
for or outlived by the other. Two turns let one be charged while the other is under
way, learn what the other relies on, and be replayed to the other; one round of tools
lets a second request follow answered calls and a third be refused it; the first
turn is asked of the endpoint that refuses most. The second question of `tools` would
share nothing with the first but the files, so one turn with two calls shows what is
read again between calls and what is not; the second build drops a row the first
lists, so a later read could miss it, and one stream's list is over the size
`gyld_query` reads. `fetch_url`'s chains of redirects run past its last hop there; those
of the other clients are of one hop or two, and `TypeCorrect` is what bounds them by ten.
A root without a decisions root (`Decisions = FALSE`) has no run of
its own: the theorems about the write path are for both. Every bound is a CONSTANT (`MaxRuns`, `MaxBuilds`,
`MaxRefusals`, `MaxTurns`, `MaxCalls`, `MaxEdits`, `MaxFaults`) or the size of a set. Deadlock is not checked because each module's
system comes to rest: no further request need arrive, no further build finish.

Runs that find a disagreement between the code and what it says of itself:

| run | what TLC shows |
|---|---|
| `write_race_trace` | two streamed answers; the second takes its snapshot while the first is in flight, and the gate after the first was refused and put back; its own refusal puts the *first* one's refused text back |
| `write_rebuild_trace` | a rebuild needs no gate, so it captures a notebook not judged yet and becomes the latest build; the answer's refusal does not reach it |
| `write_panic` | `one_line` truncates at byte 240, inside a character, before a refused write is put back |
| `publish_overtaken` | a build finishes between an older publication's check and its last write: a chain shows the older build for good |
| `publish_dropped` | a subscribe that fails after a refusal leaves its chain marked as picked up, and every later write to it fails |
| `consult_charged` | a turn pays for its first reply and is then refused: the total its conversation is measured by stays as it was, where the repository's README (line 687) calls it a running total of the usage across the turns |

`RestoredExactly` (which holds with overlapping runs) and `RefusedLeavesNoTrace`
(which holds with none) together say what the code does achieve; `LandsInOrder`
and `DroppedIsForgottenOrUnresumed` say it of publication, `ChargedOnce` of the ledger.

What `consult` and `tools` say, property by property: `ShowsTheLog` and
`ReplaysTheEnded` are about the two actors and the records, `EveryCallIsAnswered`
about what a next request must carry (a call or an offer unanswered is a request the
endpoint refuses), `OverrunIsOneReply` and `ChargedOnce` about the ledger,
`LearntOfItsEndpoint` and `NothingIsUnlearnt` about the shared client;
`NothingUnasked` is about every hop of `fetch_url`, about where a call of `github` or
`web_search` and a post of the model begin, and about the key such a request begins
with; `HitsAreAnswered` about builds that land, `CutIsSaid` about sizes at their
limits, `CallsReturn` about threads nobody waits for.

What they do not say:

* an endpoint at fault is not told from one that is not: `LearntOfItsEndpoint` asks
  only that the endpoint itself answered 400 or 404 to something;
* where the redirects of `github`, `web_search` and the model lead, nobody checks, and
  `NothingUnasked` says nothing of it;
* two turns of one conversation may both pass a budget only one of them fits:
  `OverrunIsOneReply` is of one turn against what was spent when it began;
* a late answer goes nowhere by the shape of the code and of the model, a channel
  nobody reads: no property could fail of it. `EveryCallIsAnswered` and `CallsReturn`
  catch a call answered twice or never and a thread that does not end;
* that the previous build an answer is weighed against may have changed meanwhile:
  `NeverWorse` is asked where requests do not overlap, `LatestStands` only that it
  still stands;
* that the two names of a notebook agree after a write or a restore failed half way:
  the gate is freed and the run ends, and no more is asked;
* a row in a list over `MAX_READ_BYTES`, or whose slot no call can name, is found by
  `search_sources` and refused by `gyld_query`: `HitsAreAnswered` leaves it out.

Differences between the code and its texts that were met and have no run, because
each is a single statement and needs no interleaving:

* a field dropped for an endpoint in an earlier turn is left out of later ones without
  a note (`model/https.rs:79`; README line 552 promises one), and `remember` records
  a feature as refused also when the configuration had it off (`model/https.rs:88`);
* a 400 that is about neither feature still drops the one its text names, or `strict`
  first, for that endpoint and the turns after it (`model/https.rs:245`);
* `fetch_url` alone turns redirects off (`fetch.rs:91`); a repository that was renamed is
  followed by `github` out of the path that was checked;
* a follow-up replays a turn still under way, or whose end was lost, as a whole one
  (`conversation.rs:165`; README line 662);
* the count is asked of the body in the configured shape, not the learnt one
  (`model/request.rs:146`), and a 400 there refuses the turn;
* `search_sources` reads the documents as they are now, the other tools as the build
  recorded them (`search.rs:167`, `tools.rs:219`), and a hit among rulings or
  declarations may have no row for `gyld_query` to read;
* a github search says the rest was cut also when the item past its budget is the last
  one (`github.rs:520`); `web_search` does not say that links past its limit were
  dropped; a refusal is never capped;
* the model client is built once with the timeout of the configuration at attach
  (`model/https.rs:102`), though every other setting is read afresh.

## 4. Fairness

`WritePath`: weak fairness of each run's step. Once the handler is free, a request
need not arrive, and nothing is assumed of it. A run's steps are the supplier's own
code, and its host's are bounded by the runner's deadline, which is what `RunsReturn`
of `Hosts` shows. `Hosts`: weak fairness of each run that has begun, for its thread
polls at a fixed tick (`exec.rs:203`), and of `end_all` once it waits, whose wait is
bounded. Nothing is assumed of hosts: they may hang for ever. `Publication`: weak
fairness of each task. It covers the node's answer to a subscribe and to an append;
a node that never answers one on a live connection would hold the lock of every
chain, which is a hazard this model assumes away and says so. No strong fairness is
needed for it: the lock is passed on, and a task waiting for it is let in once those
before it have ended. `Tools`: weak fairness of each
step of a call's thread that is the supplier's own, of the client's timeout, which
every client is built with, and of the three ends of `run_within`, whose wait is
bounded. Nothing is assumed of the web, of the model, or that a next call is made.
`Consult` states no fairness: its properties are safety, and whether a turn ends
rests on an endpoint whose timeout is the transport's.

## 5. What is proved

TLAPS proves these for every value of the constants that the named assumptions
allow; TLC has checked the same formulas, and the strengthenings, on the runs above.

* **WritePathProofs** (`StreamsAssumption` to `FaultsAssumption`): any number of
  requests, streams and faults, streamed or not, with or without a decisions root.
  * `TypeCorrect`.
  * `GateIsExact`. `GateExact` is not inductive alone: that a run reaches a phase of
    the gated part only through `TryHold` needs `Phased`, which says which kinds of
    request are in which phases, whether the handler is theirs, and that runs not
    minted yet are new.
  * `LatestAlwaysStands`, by `BuildsStand`: a directory is made, completed and
    removed only by its own run, and what each phase of a run implies of its directory
    and of its verdict; so no discard can take the pointer's target.
  * `AcceptedOnItsText`, by `TextFollowed`: from the write to the capture the run's
    record is in its notebook and the stage leads to it, since whoever holds the gate
    is the only writer of notebooks and a stage laid meanwhile does not adopt.
* **WriteLandProofs**, over the same constants.
  * `RestoredAsItWas`, for streamed runs and every fault too, by `AllRestorable`: until
    its snapshot is taken a run's record is nowhere (`Unseen`), so that the snapshot
    cannot hold it; and the notebook put back stays put, because whoever holds the gate
    is the only writer, a stage laid meanwhile does not adopt, and seeding never finds a
    sample's name empty (`Seeded`).
  * The other five hold under `OneByOne`: no request is streamed, and no read or write
    of the supplier itself fails, the setting of `write_sync`.
    Hosts may still refuse, fail or time out. (A panicking landing is modelled of a
    streamed run only.) Each half is needed, as changing it in `WriteSync.cfg` shows:
    with `StreamedOffers` TLC violates all five, by overlaps like those of the findings;
    with `"io"` among the faults, all but `NeverWorse`, since a relink or a removal that
    fails is told and left. `Alone` (one run under way, the last one minted) and `Forms`
    (what kinds of thing each tree may hold) carry all of them.
  * `NoTraceIsLeft`, by `AllTraceless`: a record under way is `Confined` to its own
    stream's names and its own build, and `Unseen` again once its run is put back and
    discarded.
  * `StageAndNotebooksAgree`, by `Agreeing`: the two names of a stream agree (`Agreed`)
    but for the run between its two writes, or a fork's module not yet adopted; `Told`
    says that a snapshot is of names that agreed, so that a restore makes them agree.
    After a forced fork two names may be in dispute, a file of that fork beside another
    notebook, and stay so until a later write relinks the name.
  * `SavedIsKept`, by `AllRemain`: a saved record is what its stream reads, or a
    whole-module answer or a forced fork not judged yet has replaced it (`Replacing`)
    and has it in its snapshot.
  * `SavedIsInTheLatest`, by `AllCurrent`: a capture under way has read every saved
    record but those it replaces, so a build that becomes the latest holds them.
  * `NothingGetsWorse`, by `AllWeighed`: the build a run's planning read is the latest
    until it lands.
* **HostsProofs** (`RunsAssumption`, `FaultsAssumption`): any finite set of runs.
  * `TypeCorrect`, `CountIsExact` (a cardinality argument: one run enters or leaves
    `CountedIn` per step).
  * `CountedUntilReaped`, `SignalsOnlyItsOwn`, `TheTreeIsEnded`, by `Followed`, which
    says what each phase of a run implies of its host and its group.
  * `NoWakeupIsLost`, `NoHostOutlives`, by `Shut`, which relates the shutdown's state
    to `ending` and to the tally, with `CountIsExact`.
* **PublicationProofs** (`MaxBuildsAssumption` to `FaultsAssumption`): any number of
  builds, any chains, any lists of documents, any number of refusals.
  * `TypeCorrect`, with `Held`, which says that whoever holds the lock has a chain to
    pick up and has marked it, and that a write in hand has a document.
  * `NothingRacesTheReplay`, by `Fresh`: a mark stands for a replay that is done, under
    way or failed.
  * `DroppedIsPickedUpAgain`, inductive with `Held`.
  * `NoneLostInSilence`, by `Covered`: what the latest build's task has dealt with. It
    needs `OvertakenForGood`: a build that is no longer what `latest_build` answers
    never is again, by the pointer or by its fallback.
  * `PointerArbitrates`, by `Ordered`: until a build finishes under a writing task, only
    the latest build's task writes, and only one build is the latest.

* **ListsProofs** (no assumption): what a fold, a filter (`Kept`) and a sum (`Summed`)
  come to. `Induct` is the induction they rest on: a set of naturals that holds 0 and is
  closed under successors holds all of them, from the least element the well-founded
  order gives the rest. `FoldStepwise` says that a fold is a sequence of intermediate
  values, one per position; `KeptPicks` that a filter is a choice of positions, in order;
  `SumChanges` what one changed term does to a sum. The library's `SelectSeq` cannot be
  reasoned about by this prover, so the operators filter with `Kept`.
* **ConsultProofs** (`MaxTurnsAssumption` to `FaultsAssumption`): any number of turns,
  conversations, endpoints and configurations, any streams, any budgets and faults.
  * `StreamPriced` and `CallsNamed` need no assumption: of *any* stream of payloads, the
    tokens charged are those the stream says, and the calls to be answered are among the
    blocks the stream opened, one place each, so that what an endpoint names apart the
    loop answers apart.
  * `ConsultTyped`, with `Joined`: how far the work may be while the task is where it is,
    and what a phase of the work implies of its total, its rounds and its calls.
  * `HeldForItsOwnAnswers`, `LearningLasts`, with `Forgotten`: what is remembered is
    forgotten when the client goes to another endpoint, so that a field is dropped, or a
    count given up, only for the endpoint that answered 400, or 404, itself. Whether it
    was at fault the code does not ask.
  * `NoCallIsForgotten`, by `Rounded`: every round but the last is answered, and of the
    last what is answered and what is pending make up what was asked.
  * `OverrunBounded`, by `Metered`: what a turn used is what it adds up, until it fails,
    and a body is posted only when the conversation can pay for it.
  * `EachTurnChargedOnce`, inductive with `Metered` and `Joined`, by `SumChanges`. The
    sum leaves out the turns that failed, as the code does; `consult_charged` shows what
    the repository's README says instead to be false.
* **ConsultLogProofs**, over the same constants.
  * `ImplementsAskLog`, that `Consult` implements `AskLog` for every set of losable
    streams. `Placed` says where the records of a turn may be while its
    task is where it is, and `Queued` that what waits in the channel may follow what is
    shown, in its order, whatever of it is lost; `Uttering` says that a call to be made is
    one no reader heard of, that the one under way is the only one open, and that every id
    ever said was `Given` by an endpoint in a reply so far. The last is what makes the ids
    of the next reply new. Every step is then a step of `AskLog` or leaves the records
    alone.
  * `TheEndedAreReplayed`, where no question is lost (`"question" \notin Losable`, the
    setting of `consult`), by `Listed`: the order of a conversation has each of its runs
    once, opened by its question, and a turn under way is in it. `TurnTold` follows the
    fold of a run's records to its last one. The hypothesis is the code's own: records
    with no question are no turn and are not replayed (`conversation.rs:162`).
* **ToolsProofs** (`BuildsAssumption`, `LibraryAssumption`, `ReachesAssumption`,
  `SettledAssumption` and the bounds'): any number of turns and of calls, any builds,
  documents, configurations and key files, whatever a model reaches for and whatever the
  web answers. `Invariant` is the inductive invariant: `DeskOK` types the desk; `TurnsOK`
  says what a turn holds from which step on; of each call, `ThreadOK` says how far its
  thread has got, `BelongsOK` that its turn is one that could make it and still holds the
  build, the configuration and the tool, and `FitsOK` that what its thread said, and what
  the turn heard, is what its tool may say of that build; `WaitsOK` that a turn that
  waits does so for exactly one call.
  * `TypeCorrect` needs no more.
  * `AsksWhereItMay` is `NothingUnasked`: a request is made by `Requests` or at a redirect
    by `Served`, and each of the checks before them (`Goes`, `repository`, `a_path`,
    `configured`, `read_key`) implies `MayReach`. `BegunReaches` holds that of the first
    request, tool by tool; `Goes` of every later one of `fetch_url`. Of the later ones
    of `github` and `web_search` there is nothing to prove. Of a path below a repository it takes `UnderRepository`: what
    is kept of a path without `..` leaves the repository's own prefix alone.
  * `AnswersItsHits`, by `RecordsFrom` and `DocumentsFrom`: a hit placed in a stream's
    label is a row that the turn's build emitted under that slot, and `RecordAnswered`:
    such a row is answered. It needs no hypothesis on the
    builds: the property itself leaves out the slots no call can name (`Nameable`), for
    search offers a row whatever its slot (`toolset.rs:52`), and an answer that a list
    was too large.
  * `SaysWhatItCuts`, by `Honest`: an answer that withholds something says so itself, or
    is cut by `answered` and marked. The hypothesis is `WebIsMeasured`, that a response
    has a size; of the web nothing else is assumed.
  * `ExcerptShowsItsMatch` and `PrivateHoweverWritten` are about the operators alone: an
    excerpt is of its line and shows the match, wherever on it that is, and an IPv4
    address is private exactly when the IPv6 address that maps it is.

  `WebIsMeasured` holds of the constants of `MCTools`.

Two assumptions of `Consult` are about its environment. `TranscriptsAssumption`: a
reply's input is what the body was counted at and its output no more than `max_tokens`
asked for, which is what the endpoint contracts for and the code relies on to price a
step; without it no budget bounds anything. `IdsAssumption`: no two tool uses of a turn
have one id, which is how the API identifies a call; were one given twice, the records
would show two results of one call. `UrlsAssumption` only keeps the word for *no
endpoint* apart from the endpoints. The assumptions of `Tools` say only what shape its
constants have: builds and documents hold lists, a reach is a tool and an input, and a
configuration that `resolve` returns has URLs with their parts, sizes that are numbers and
key files that are among the desk's. TLC evaluates all of them in its run.

Model-checked only: liveness (`RunsEnd`, `RunsReturn`, `PublicationsEnd`, `CallsReturn`)
and anything with ENABLED, which the prover does not do. Every other property of a passing
run is proved.

## 6. Not modelled

* Wording and layout: the prompt (`prompt.rs`), the prose a replayed turn is rendered
  as, the bodies of requests but for the two fields that may be dropped, the envelope
  (`envelope.rs`), an answer as overlay text, the fields of a draft. A text is its size
  or its kind wherever a property is about it.
* HTML reduction, base64 and the matching of words: a size, a refusal, or where a word
  stands.
* Transport: reqwest, the node and its client, `gh`, git and Python are external. A post
  of the model is one request: where a redirect of the endpoint takes it is reqwest's.
* The planner's argument checks and the argv of a host (`verbs.rs`): what a verb writes,
  needs and builds is in `WritePath`.
* The first build, the steps inside `lay_stage` and a crash of the write path: in the
  plan. The windows job object and the byte budget on a host's output. Which documents
  a build holds (`publish.rs`), beyond the names of its chains.
* The binary's flags and the environment's capture: constants. The uniqueness of run
  ids (`supplier/run_ids.rs`) and build names rests on the system's clock.

## 7. Plan

What has been built, in order: the write path, publication, hosts; then the
consultation with its abstract log, and the tools with the configuration under them.
What is left:

1. `Stage`: `lay_stage` step by step under its lock, against the relink of
   `stage_notebook` and the restore of a snapshot, which take no lock; and `FirstBuild`
   over `WritePath`: a build at start that lays the stage adopting and asks no gate,
   beside a streamed fork, and a restart that reads the root a crash left.
