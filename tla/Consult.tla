------------------------------ MODULE Consult -------------------------------
(***************************************************************************)
(* A consultation: the turn of a conversation that asks a model, lets it   *)
(* reach for tools under budgets, and streams its reply as records.        *)
(*                                                                         *)
(* Sources: supplier/consultation.rs, model/client.rs, model/https.rs,     *)
(* tools.rs, conversation.rs (Turns) and model/sse.rs (Events).            *)
(*                                                                         *)
(* A turn is two actors: the task that reads what came before and appends  *)
(* the records (pc), and the blocking work that calls the model (work),    *)
(* joined by a channel.  Turns of one conversation may overlap; all turns  *)
(* share the ledger and what the client has learnt of an endpoint.  The    *)
(* model's endpoint, the node and the tools are external.                  *)
(***************************************************************************)
EXTENDS Events, Turns, FiniteSets

CONSTANTS
    MaxTurns,         \* bound: how many questions are asked
    Conversations,
    Thread,           \* the conversation each turn belongs to
    Urls,             \* the endpoints a configuration may name
    Accepts,          \* what each takes: strict, cache_control, a count; and
                      \* what its 400 may name
    Configs,          \* what resolving the configuration may come to, per turn
    Enabled,          \* the tools this desk allows
    Transcripts(_),   \* the streams an endpoint may answer a body of a size with
    MaxSteps,         \* the tool rounds of one turn
    MaxInput,         \* the input budget of one call
    MaxOutput,        \* the output budget of one call
    Budget,           \* the budget of one conversation, 0 for none
    Faults,           \* of the faults below, those the environment may commit
    MaxFaults,        \* bound: how many of them it commits
    Losable           \* bound: the records an append may lose

FaultKinds == {"append", "transport", "status", "tool", "panic", "index", "crash"}
MAX_DEGRADATIONS == 2

TurnIds == 1 .. MaxTurns
Shapes == [strict : BOOLEAN, cache_control : BOOLEAN]
Named == {"strict", "cache_control", "neither"}

ASSUME MaxTurnsAssumption == MaxTurns \in Nat \ {0}
ASSUME ThreadAssumption == Thread \in [TurnIds -> Conversations]
ASSUME AcceptsAssumption ==
    Accepts \in [Urls -> [strict : BOOLEAN, cache_control : BOOLEAN,
                          count : {"none", "loose", "picky"}, names : SUBSET Named \ {{}}]]
ASSUME ConfigsAssumption ==
    Configs \in [TurnIds -> SUBSET [base_url : Urls, count_tokens : BOOLEAN, shape : Shapes, noted : BOOLEAN]]
ASSUME BudgetsAssumption == MaxSteps \in Nat /\ MaxInput \in Nat /\ MaxOutput \in Nat /\ Budget \in Nat
\* What an endpoint streams is a stream of the API's, its input is what the
\* body was counted at, and its output no more than was asked for.
ASSUME TranscriptsAssumption ==
    \A size \in 1 .. MaxSteps + 1 : \A payloads \in Transcripts(size) :
        /\ payloads \in Seq(Payloads)
        /\ \A i \in DOMAIN payloads :
              /\ payloads[i].type = "message_start" => payloads[i].input <= size
              /\ payloads[i].type = "message_delta" => payloads[i].output <= MaxOutput

\* An endpoint gives no two tool uses of a turn one id.
ASSUME IdsAssumption ==
    \A m, n \in 1 .. MaxSteps + 1 : \A p \in Transcripts(m), q \in Transcripts(n) :
        \A i \in DOMAIN p, j \in DOMAIN q :
            Asks(p[i]) /\ Asks(q[j]) /\ p[i].block.id = q[j].block.id =>
                m = n /\ (p = q => i = j)

ASSUME UrlsAssumption == "none" \notin Urls
ASSUME FaultsAssumption == Faults \subseteq FaultKinds /\ MaxFaults \in Nat

NoConfig == [base_url |-> "none", count_tokens |-> FALSE,
             shape |-> [strict |-> FALSE, cache_control |-> FALSE], noted |-> FALSE]
Nothing == [base_url |-> "none", no_strict |-> FALSE, no_cache_control |-> FALSE,
            no_count_tokens |-> FALSE]

VARIABLES
    pc,         \* how far each turn's task has got
    work,       \* how far its blocking work has got
    conf,       \* the configuration it was made with
    prior,      \* the turns it replays
    spent,      \* what its conversation had spent when it began
    total,      \* what its own steps have cost so far
    reason,     \* the stop reason of its last step
    steps,      \* the rounds it has exchanged with the model
    pending,     \* the calls of this round still to be answered
    shape,      \* the shape of the attempt under way
    tries,      \* how many attempts this call has made
    strays,     \* the calls whose threads were abandoned
    channel,    \* what the work has said and the task not yet appended
    malformed,  \* did a draft not decode?
    records,    \* the ask surface, by run
    order,      \* per conversation, the runs in the order they appeared
    held,       \* the conversations whose chain the session holds
    resumed,    \* those a resume has been tried for
    ledger,     \* Ledger::spent
    learned,    \* HttpsModelClient::learned
    used,       \* history: what the endpoints said each turn used
    failed,     \* history: the turns whose work ended refused, or panicked
    rejections, \* history: who answered a question 400, and who a count 404
    faults      \* how many faults there have been

taskVars == <<pc, prior, spent, malformed>>
workVars == <<work, conf, total, reason, steps, pending, shape, tries, strays>>
logVars == <<records, order, held, resumed>>
history == <<used, failed, rejections>>
vars == <<taskVars, workVars, logVars, channel, ledger, learned, history, faults>>

Conv(t) == Thread[t]
Phases == {"new", "accepted", "resumed", "read", "asked", "begun", "closing", "ended", "dead"}
WorkPhases == {"idle", "grounding", "counting", "asking", "posting", "calling", "running", "ok", "refused",
          "panicked"}
Done == {"ok", "refused", "panicked"}
Alive(t) == pc[t] \notin {"new", "ended", "dead"}

Fault(kind) ==
    /\ kind \in Faults
    /\ faults < MaxFaults
    /\ faults' = faults + 1
NoFault == UNCHANGED faults

-----------------------------------------------------------------------------
(* The ask surface.                                                          *)

\* What turns knew is gone with their tasks.
Forget(gone) ==
    /\ prior' = [t \in TurnIds |-> IF t \in gone THEN <<>> ELSE prior[t]]
    /\ spent' = [t \in TurnIds |-> IF t \in gone THEN 0 ELSE spent[t]]
    /\ malformed' = [t \in TurnIds |-> t \notin gone /\ malformed[t]]
    /\ work' = [t \in TurnIds |-> IF t \in gone THEN "idle" ELSE work[t]]
    /\ conf' = [t \in TurnIds |-> IF t \in gone THEN NoConfig ELSE conf[t]]
    /\ total' = [t \in TurnIds |-> IF t \in gone THEN 0 ELSE total[t]]
    /\ reason' = [t \in TurnIds |-> IF t \in gone THEN "" ELSE reason[t]]
    /\ steps' = [t \in TurnIds |-> IF t \in gone THEN <<>> ELSE steps[t]]
    /\ pending' = [t \in TurnIds |-> IF t \in gone THEN <<>> ELSE pending[t]]
    /\ shape' = [t \in TurnIds |-> IF t \in gone THEN NoConfig.shape ELSE shape[t]]
    /\ tries' = [t \in TurnIds |-> IF t \in gone THEN 0 ELSE tries[t]]

\* append_ask: the record is appended, or the write is refused or unanswered
\* twice and lost.  A session that does not hold the chain takes it up again.
AppendAsk(t, record) ==
    \/ /\ records' = [records EXCEPT ![t] = Append(@, record)]
       /\ order' = [order EXCEPT ![Conv(t)] =
                       IF records[t] = <<>> THEN Append(@, t) ELSE @]
       /\ held' = held \cup {Conv(t)}
       /\ NoFault
    \/ /\ record.stream \in Losable
       /\ Fault("append")
       /\ UNCHANGED <<records, order, held>>

\* What fold_log answers: nothing of a chain the session does not hold.
Readable(t) == IF Conv(t) \in held THEN order[Conv(t)] ELSE <<>>

Note(of) == [stream |-> "note", of |-> of]

Init ==
    /\ pc = [t \in TurnIds |-> "new"]
    /\ work = [t \in TurnIds |-> "idle"]
    /\ conf = [t \in TurnIds |-> NoConfig]
    /\ prior = [t \in TurnIds |-> <<>>]
    /\ spent = [t \in TurnIds |-> 0]
    /\ total = [t \in TurnIds |-> 0]
    /\ reason = [t \in TurnIds |-> ""]
    /\ steps = [t \in TurnIds |-> <<>>]
    /\ pending = [t \in TurnIds |-> <<>>]
    /\ shape = [t \in TurnIds |-> NoConfig.shape]
    /\ tries = [t \in TurnIds |-> 0]
    /\ strays = [t \in TurnIds |-> {}]
    /\ channel = [t \in TurnIds |-> <<>>]
    /\ malformed = [t \in TurnIds |-> FALSE]
    /\ records = [t \in TurnIds |-> <<>>]
    /\ order = [c \in Conversations |-> <<>>]
    /\ held = {}
    /\ resumed = {}
    /\ ledger = [c \in Conversations |-> 0]
    /\ learned = Nothing
    /\ used = [t \in TurnIds |-> 0]
    /\ failed = {}
    /\ rejections = [asked |-> {}, counted |-> {}]
    /\ faults = 0

-----------------------------------------------------------------------------
(* The task: consult_run up to its terminal record.                          *)

Goes(t, from, to) == pc[t] = from /\ pc' = [pc EXCEPT ![t] = to]

\* spawn_consult: the exchange answers at once and the turn goes on by itself.
Accept(t) ==
    /\ Goes(t, "new", "accepted")
    /\ \A u \in 1 .. t - 1 : pc[u] # "new"
    /\ UNCHANGED <<prior, spent, malformed, workVars, logVars, channel, ledger, learned, history,
                   faults>>

\* Writer::resume: once for a conversation in a session's life.
Resume(t) ==
    /\ Goes(t, "accepted", "resumed")
    /\ resumed' = resumed \cup {Conv(t)}
    /\ \/ Conv(t) \in resumed /\ UNCHANGED held /\ NoFault
       \/ Conv(t) \notin resumed /\ held' = held \cup {Conv(t)} /\ NoFault
       \/ Conv(t) \notin resumed /\ Fault("append") /\ UNCHANGED held
    /\ UNCHANGED <<prior, spent, malformed, workVars, records, order, channel, ledger, learned,
                   history>>

ReadPrior(t) ==
    /\ Goes(t, "resumed", "read")
    /\ prior' = [prior EXCEPT ![t] = turns(Readable(t), records)]
    /\ UNCHANGED <<spent, malformed, workVars, logVars, channel, ledger, learned, history, faults>>

AskQuestion(t) ==
    /\ Goes(t, "read", "asked")
    /\ AppendAsk(t, [stream |-> "question"])
    /\ UNCHANGED <<prior, spent, malformed, workVars, resumed, channel, ledger, learned, history>>

\* The configuration is resolved at every call, and says what it has to say.
\* What the conversation has spent is read as the work begins.
Begin(t) ==
    /\ Goes(t, "asked", "begun")
    /\ \E c \in Configs[t] :
           /\ conf' = [conf EXCEPT ![t] = c]
           /\ IF c.noted THEN AppendAsk(t, Note("config")) ELSE UNCHANGED <<records, order, held, faults>>
    /\ spent' = [spent EXCEPT ![t] = ledger[Conv(t)]]
    /\ work' = [work EXCEPT ![t] = "grounding"]
    /\ UNCHANGED <<prior, malformed, total, reason, steps, pending, shape, tries, strays, resumed,
                   channel, ledger, learned, history>>

\* One reply off the channel, appended before the next is taken.  A draft that
\* did not decode is no record: the close says so.
Receive(t) ==
    /\ pc[t] = "begun"
    /\ channel[t] # <<>>
    /\ channel' = [channel EXCEPT ![t] = Tail(@)]
    /\ LET reply == Head(channel[t])
           broken == reply.stream = "draft" /\ ~reply.whole
       IN IF broken
          THEN /\ malformed' = [malformed EXCEPT ![t] = TRUE]
               /\ UNCHANGED <<records, order, held, faults>>
          ELSE AppendAsk(t, reply) /\ UNCHANGED malformed
    /\ UNCHANGED <<pc, prior, spent, workVars, resumed, ledger, learned, history>>

Notes(t) ==
    /\ failed' = IF work[t] = "ok" THEN failed ELSE failed \cup {t}
    /\ UNCHANGED <<used, rejections>>

\* Seeded bug: the task closes on the end of the work, with replies unread.
Close_Early(t) ==
    /\ work[t] \in Done
    /\ Goes(t, "begun", "closing")
    /\ ledger' = IF work[t] = "ok" THEN [ledger EXCEPT ![Conv(t)] = @ + total[t]] ELSE ledger
    /\ Notes(t)
    /\ UNCHANGED <<prior, spent, malformed, workVars, logVars, channel, learned, faults>>

\* Seeded bug: what the ledger held when the turn began is what it is set from.
Close_Overwrites(t) ==
    /\ work[t] \in Done
    /\ channel[t] = <<>>
    /\ Goes(t, "begun", "closing")
    /\ ledger' = IF work[t] = "ok" THEN [ledger EXCEPT ![Conv(t)] = spent[t] + total[t]] ELSE ledger
    /\ Notes(t)
    /\ UNCHANGED <<prior, spent, malformed, workVars, logVars, channel, learned, faults>>

\* The channel is closed by the end of the work, and read to its end first.
\* What a turn cost joins the ledger if it ended well.
Close(t) ==
    /\ work[t] \in Done
    /\ channel[t] = <<>>
    /\ Goes(t, "begun", "closing")
    /\ ledger' = IF work[t] = "ok" THEN [ledger EXCEPT ![Conv(t)] = @ + total[t]] ELSE ledger
    /\ Notes(t)
    /\ UNCHANGED <<prior, spent, malformed, workVars, logVars, channel, learned, faults>>

Clean(t) == work[t] = "ok" /\ complete(reason[t]) /\ ~malformed[t]

AppendEnd(t) ==
    /\ Goes(t, "closing", "ended")
    /\ AppendAsk(t, [stream |-> "end", clean |-> Clean(t)])
    /\ Forget({t})
    /\ UNCHANGED <<strays, resumed, channel, ledger, learned, history>>

-----------------------------------------------------------------------------
(* What is learnt of an endpoint.                                            *)

\* Seeded bug: what was learnt outlives the endpoint it was learnt of.
Learned_Kept(url) == [learned EXCEPT !.base_url = url]

\* learned(): dropped with the base URL it was learnt for.
Learned(url) == IF learned.base_url = url THEN learned ELSE [Nothing EXCEPT !.base_url = url]

starting_shape(c) ==
    [strict |-> c.shape.strict /\ ~Learned(c.base_url).no_strict,
     cache_control |-> c.shape.cache_control /\ ~Learned(c.base_url).no_cache_control]

\* Seeded bug: the shape of the last rejection is what is remembered.
Remember_Last(url, s) ==
    [Learned(url) EXCEPT !.no_strict = ~s.strict, !.no_cache_control = ~s.cache_control]

Remember(url, s) ==
    [Learned(url) EXCEPT !.no_strict = @ \/ ~s.strict,
                         !.no_cache_control = @ \/ ~s.cache_control]

\* degrade: the fields a 400 may be retried without, given what it names.
Blamed(s, named) ==
    IF s.strict /\ (named = "strict" \/ named # "cache_control") THEN "strict"
    ELSE IF s.cache_control THEN "cache_control"
    ELSE IF s.strict THEN "strict" ELSE "nothing"

Without(s, field) ==
    [strict |-> s.strict /\ field # "strict",
     cache_control |-> s.cache_control /\ field # "cache_control"]

\* The endpoint takes a body of this shape: one it does not take is a 400.
Takes(url, s) ==
    /\ s.strict => Accepts[url].strict
    /\ s.cache_control => Accepts[url].cache_control

-----------------------------------------------------------------------------
(* The blocking work: ground, then the loop of model::consult.               *)

Says(t, replies) == channel' = [channel EXCEPT ![t] = @ \o replies]

WorkGoes(t, to) == work' = [work EXCEPT ![t] = to]

\* The index is read and its passages cited, before anything is asked of a
\* model; what the allow-list could not honour is said first.
Ground(t) ==
    /\ work[t] = "grounding"
    /\ \/ /\ WorkGoes(t, "counting")
          /\ Says(t, <<[stream |-> "citation"]>>)
          /\ NoFault
       \/ /\ Fault("index")
          /\ WorkGoes(t, "refused")
          /\ UNCHANGED channel
    /\ UNCHANGED <<taskVars, conf, total, reason, steps, pending, shape, tries, strays, logVars,
                   ledger, learned, history>>

\* The body that is about to be sent: it grows with every round.
Size(t) == 1 + Len(steps[t])
Estimate(t) == Size(t) + 1

\* Seeded bug: a step is measured against what the conversation had spent
\* when the turn began.
Fits_AsItBegan(t, counted) ==
    /\ counted <= MaxInput
    /\ Budget > 0 => spent[t] + counted <= Budget

\* The input budget first, then the conversation's.
Fits(t, counted) ==
    /\ counted <= MaxInput
    /\ Budget > 0 => spent[t] + total[t] + counted <= Budget

\* The checks on a count; a call that fits begins in its starting shape, which
\* is read of what was learnt by then.
Weigh(t, counted, notes) ==
    /\ WorkGoes(t, IF Fits(t, counted) THEN "posting" ELSE "refused")
    /\ Says(t, notes)
    /\ tries' = [tries EXCEPT ![t] = 0]
    /\ shape' = IF Fits(t, counted) THEN [shape EXCEPT ![t] = starting_shape(conf[t])] ELSE shape

\* count_tokens: an endpoint known to have no count is not asked.
CountTokens(t) ==
    /\ work[t] = "counting"
    /\ LET c == conf[t]
           asks == c.count_tokens /\ ~Learned(c.base_url).no_count_tokens
       IN IF asks
          THEN /\ WorkGoes(t, "asking")
               /\ learned' = Learned(c.base_url)
               /\ UNCHANGED <<channel, shape, tries, faults>>
          ELSE /\ Weigh(t, Estimate(t), <<Note("estimate")>>)
               /\ NoFault
               /\ learned' = IF c.count_tokens \/ Fits(t, Estimate(t)) THEN Learned(c.base_url)
                             ELSE learned
    /\ UNCHANGED <<taskVars, conf, total, reason, steps, pending, strays, logVars, ledger, history>>

\* What the endpoint answers.  It is asked of the body in the configured shape,
\* and a 404 is taken for an endpoint without a count, whatever it was about.
Counted(t) ==
    /\ work[t] = "asking"
    /\ LET c == conf[t]
           endpoint == Accepts[c.base_url]
           refuses == endpoint.count = "picky" /\ ~Takes(c.base_url, c.shape)
       IN \/ /\ (endpoint.count = "none" /\ NoFault) \/ Fault("status")    \* 404
             /\ Weigh(t, Estimate(t), <<Note("estimate")>>)
             /\ learned' = [Learned(c.base_url) EXCEPT !.no_count_tokens = TRUE]
             /\ rejections' = [rejections EXCEPT !.counted = @ \cup {c.base_url}]
          \/ /\ endpoint.count # "none" /\ ~refuses
             /\ Weigh(t, Size(t), <<>>)
             /\ NoFault
             /\ learned' = IF Fits(t, Size(t)) THEN Learned(c.base_url) ELSE learned
             /\ UNCHANGED rejections
          \/ /\ (refuses /\ NoFault) \/ Fault("transport")
             /\ WorkGoes(t, "refused")
             /\ UNCHANGED <<channel, shape, tries, learned, rejections>>
    /\ UNCHANGED <<taskVars, conf, total, reason, steps, pending, strays, logVars, ledger, used,
                   failed>>

\* One attempt is answered 400: the next is smaller, or there is none.  An
\* endpoint answers 400 to a shape it does not take, and to whatever else it
\* dislikes of the request; what it names need not be at fault.
Rejected(t) ==
    /\ work[t] = "posting"
    /\ (~Takes(conf[t].base_url, shape[t]) /\ NoFault) \/ Fault("status")
    /\ \E named \in Accepts[conf[t].base_url].names :
           LET field == Blamed(shape[t], named)
               smaller == Without(shape[t], field)
           IN IF field = "nothing"
              THEN /\ WorkGoes(t, "refused")
                   /\ UNCHANGED <<channel, shape, tries, learned>>
              ELSE /\ WorkGoes(t, IF tries[t] = MAX_DEGRADATIONS THEN "refused" ELSE "posting")
                   /\ learned' = Remember(conf[t].base_url, smaller)
                   /\ Says(t, <<Note(field)>>)
                   /\ shape' = [shape EXCEPT ![t] = smaller]
                   /\ tries' = [tries EXCEPT ![t] = @ + 1]
    /\ rejections' = [rejections EXCEPT !.asked = @ \cup {conf[t].base_url}]
    /\ UNCHANGED <<taskVars, conf, total, reason, steps, pending, strays, logVars, ledger, used,
                   failed>>

\* Any other answer that is not a stream.
Unanswered(t) ==
    /\ work[t] = "posting"
    /\ Fault("transport")
    /\ WorkGoes(t, "refused")
    /\ UNCHANGED <<taskVars, conf, total, reason, steps, pending, shape, tries, strays, logVars,
                   channel, ledger, learned, history>>

\* What becomes of a turn whose step has come to its end.
Stopped(t, outcome) == outcome.stop_reason # TOOL_USE \/ calls(outcome) = <<>>

\* Seeded bug: one round more than the budget.
AtItsLast_OneMore(t) == Len(steps[t]) > MaxSteps

AtItsLast(t) == Len(steps[t]) = MaxSteps

\* A reply is streamed and folded.  One that breaks takes the turn with it,
\* prose and all that it cost.
Stream(t) ==
    /\ work[t] = "posting"
    /\ Takes(conf[t].base_url, shape[t])
    /\ \E payloads \in Transcripts(Size(t)) :
           LET f == fold_stream(payloads)
               stops == Stopped(t, f)
               last == AtItsLast(t)
           IN /\ used' = [used EXCEPT ![t] = @ + tokens(f)]
              /\ Says(t, f.said \o
                         (IF ~f.broke /\ ~stops /\ last THEN <<Note("steps")>> ELSE <<>>))
              /\ IF f.broke
                 THEN /\ WorkGoes(t, "refused")
                      /\ UNCHANGED <<total, reason, pending, steps>>
                 ELSE /\ total' = [total EXCEPT ![t] = @ + tokens(f)]
                      /\ reason' = [reason EXCEPT ![t] = f.stop_reason]
                      /\ IF stops \/ last
                         THEN WorkGoes(t, "ok") /\ UNCHANGED <<pending, steps>>
                         ELSE /\ WorkGoes(t, "calling")
                              /\ pending' = [pending EXCEPT ![t] = calls(f)]
                              /\ steps' = [steps EXCEPT ![t] = Append(@,
                                    [asked |-> ToolUses(f), answers |-> <<>>, offers |-> Offers(f)])]
    /\ UNCHANGED <<taskVars, conf, shape, tries, strays, logVars, ledger, learned, failed,
                   rejections, faults>>

-----------------------------------------------------------------------------
(* The tools, and the end of the work.                                       *)

\* A call is recorded before it is made, on a thread of its own.
CallTool(t) ==
    /\ work[t] = "calling"
    /\ WorkGoes(t, "running")
    /\ Says(t, <<[stream |-> "tool_call", id |-> Head(pending[t]).id]>>)
    /\ UNCHANGED <<taskVars, conf, total, reason, steps, pending, shape, tries, strays, logVars,
                   ledger, learned, history, faults>>

\* Seeded bug: an offer made beside a call is not answered.
Answering_Calls(round, id, more) == Append(round.answers, id)

\* The ids a round's user message answers: its calls', and its offers'.
Answering(round, id, more) ==
    Append(round.answers, id) \o (IF more THEN <<>> ELSE [i \in DOMAIN round.offers |-> round.offers[i].id])

\* One call is answered: by its tool, by a refusal, or by its deadline, and
\* the thread of a call past its deadline is abandoned.  After the last one
\* the offers of the round are answered and the loop goes round again.
ToolReturns(t) ==
    /\ work[t] = "running"
    /\ LET call == Head(pending[t])
           more == Len(pending[t]) > 1
       IN \E ok \in BOOLEAN, late \in BOOLEAN :
           /\ ok => call.tool \in Enabled /\ ~late
           /\ late => call.tool \in Enabled
           /\ IF ~ok /\ call.tool \in Enabled THEN Fault("tool") ELSE NoFault
           /\ Says(t, <<[stream |-> "tool_result", id |-> call.id, ok |-> ok]>>)
           /\ steps' = [steps EXCEPT ![t][Len(steps[t])].answers =
                           Answering(steps[t][Len(steps[t])], call.id, more)]
           /\ strays' = IF late THEN [strays EXCEPT ![t] = @ \cup {<<Len(steps[t]), call.id>>}]
                                ELSE strays
           /\ pending' = [pending EXCEPT ![t] = Tail(@)]
           /\ WorkGoes(t, IF more THEN "calling" ELSE "counting")
    /\ UNCHANGED <<taskVars, conf, total, reason, shape, tries, logVars, ledger, learned, history>>

\* An abandoned thread answers a channel nobody receives from.
LateAnswer(t) ==
    \E stray \in strays[t] :
        /\ strays' = [strays EXCEPT ![t] = @ \ {stray}]
        /\ UNCHANGED <<taskVars, work, conf, total, reason, steps, pending, shape, tries, logVars,
                       channel, ledger, learned, history, faults>>

\* The blocking task panics: the task it was spawned by awaits an error.
WorkPanics(t) ==
    /\ Fault("panic")
    /\ work[t] \notin Done \cup {"idle"}
    /\ Alive(t)
    /\ WorkGoes(t, "panicked")
    /\ UNCHANGED <<taskVars, conf, total, reason, steps, pending, shape, tries, strays, logVars,
                   channel, ledger, learned, history>>

-----------------------------------------------------------------------------
(* The process ends and another begins: the surface is the node's, the rest  *)
(* is gone.                                                                  *)

Restart ==
    /\ Fault("crash")
    /\ pc' = [t \in TurnIds |-> IF Alive(t) THEN "dead" ELSE pc[t]]
    /\ Forget(TurnIds)
    /\ channel' = [t \in TurnIds |-> <<>>]
    /\ strays' = [t \in TurnIds |-> {}]
    /\ held' = {}
    /\ resumed' = {}
    /\ ledger' = [c \in Conversations |-> 0]
    /\ used' = [t \in TurnIds |-> 0]
    /\ failed' = {}
    /\ rejections' = [asked |-> {}, counted |-> {}]
    /\ learned' = Nothing
    /\ UNCHANGED <<records, order>>

Next ==
    \/ \E t \in TurnIds :
           \/ Accept(t) \/ Resume(t) \/ ReadPrior(t) \/ AskQuestion(t) \/ Begin(t)
           \/ Receive(t) \/ Close(t) \/ AppendEnd(t)
           \/ Ground(t) \/ CountTokens(t) \/ Counted(t) \/ Rejected(t) \/ Unanswered(t) \/ Stream(t)
           \/ CallTool(t) \/ ToolReturns(t) \/ LateAnswer(t) \/ WorkPanics(t)
    \/ Restart

Spec == Init /\ [][Next]_vars

-----------------------------------------------------------------------------
(* Properties.                                                               *)

\* A round of the loop, what the work says and what the surface holds.
Rounds == [asked : Seq(Blocks), answers : Seq(Texts), offers : Seq(Blocks)]
Replies ==
    [stream : {"citation", "answer"}]
        \cup [stream : {"draft"}, whole : BOOLEAN]
        \cup [stream : {"note"}, of : {"config", "estimate", "strict", "cache_control", "steps"}]
        \cup [stream : {"tool_call"}, id : Texts]
        \cup [stream : {"tool_result"}, id : Texts, ok : BOOLEAN]
AskRecords == Replies \cup [stream : {"question"}] \cup [stream : {"end"}, clean : BOOLEAN]
Learnt == [base_url : Urls \cup {"none"}, no_strict : BOOLEAN, no_cache_control : BOOLEAN,
           no_count_tokens : BOOLEAN]

\* The shape of the state.
TypeOK ==
    /\ pc \in [TurnIds -> Phases]
    /\ work \in [TurnIds -> WorkPhases]
    /\ DOMAIN conf = TurnIds /\ \A t \in TurnIds : conf[t] \in Configs[t] \cup {NoConfig}
    /\ spent \in [TurnIds -> Nat] /\ total \in [TurnIds -> Nat] /\ used \in [TurnIds -> Nat]
    /\ reason \in [TurnIds -> Texts]
    /\ steps \in [TurnIds -> Seq(Rounds)] /\ \A t \in TurnIds : Len(steps[t]) <= MaxSteps
    /\ pending \in [TurnIds -> Seq(Blocks)]
    /\ shape \in [TurnIds -> Shapes]
    /\ tries \in [TurnIds -> 0 .. MAX_DEGRADATIONS + 1]
    /\ malformed \in [TurnIds -> BOOLEAN]
    /\ channel \in [TurnIds -> Seq(Replies)]
    /\ records \in [TurnIds -> Seq(AskRecords)]
    /\ order \in [Conversations -> Seq(TurnIds)]
    /\ held \subseteq Conversations /\ resumed \subseteq Conversations
    /\ ledger \in [Conversations -> Nat]
    /\ learned \in Learnt
    /\ failed \subseteq TurnIds /\ rejections \in [asked : SUBSET Urls, counted : SUBSET Urls]
    /\ faults \in 0 .. MaxFaults

\* What the surface shows of each run is what a reader may rely on, whichever
\* records were lost: nothing shown is withdrawn, a question opens a run and
\* its end closes it, one call is answered before the next is made, and an end
\* that says clean leaves no call open (consultation.rs, the channel and its
\* reader; conversation.rs:282, "history already written").
Log == INSTANCE AskLog WITH Runs <- TurnIds, log <- records
ShowsTheLog == Log!Spec

\* A round that goes back to the model answers every tool it asked for once,
\* the offers among them: a tool_use without a result is a 400 for the rest of
\* the turn (model/client.rs, request.rs).
EveryCallIsAnswered ==
    \A t \in TurnIds : work[t] \in {"counting", "asking", "posting"} =>
        \A i \in DOMAIN steps[t] :
            /\ Len(steps[t][i].answers) = Len(steps[t][i].asked)
            /\ {steps[t][i].answers[j] : j \in DOMAIN steps[t][i].answers}
                 = {steps[t][i].asked[j].id : j \in DOMAIN steps[t][i].asked}

\* However many steps a turn takes, it carries its conversation past the
\* budget by no more than the one reply it was in the middle of: its own steps
\* count before the ledger hears of them (model/client.rs, consult).
OverrunIsOneReply ==
    \A t \in TurnIds :
        Budget > 0 /\ used[t] > 0 => spent[t] + used[t] <= Budget + MaxOutput

\* What is remembered of an endpoint is of that endpoint, whichever turns used
\* the client in between: a feature is dropped only where that endpoint itself
\* answered some question 400, for whatever reason, and a count is given up
\* only where that endpoint answered a count 404 (model/https.rs, Learned).
LearntOfItsEndpoint ==
    /\ learned.no_strict \/ learned.no_cache_control => learned.base_url \in rejections.asked
    /\ learned.no_count_tokens => learned.base_url \in rejections.counted

\* While the client stays with an endpoint it never offers it again what it
\* refused, though two turns may learn at once (model/https.rs, remember).
NothingIsUnlearnt ==
    [][learned'.base_url = learned.base_url =>
         /\ learned.no_strict => learned'.no_strict
         /\ learned.no_cache_control => learned'.no_cache_control
         /\ learned.no_count_tokens => learned'.no_count_tokens]_vars

Ended(t) == records[t] # <<>> /\ Last(records[t]).stream = "end"
EndedClean(t) == Ended(t) /\ Last(records[t]).clean

\* Whenever a turn begins and its session could take the conversation up, it
\* replays every turn that has ended, once, and says of each that did not end
\* clean that it did not (conversation.rs, turns).
Replayed(ts, run) == {i \in DOMAIN ts : ts[i].run = run}
ReplaysTheEnded ==
    [][\A t \in TurnIds : pc[t] = "resumed" /\ pc'[t] = "read" /\ Conv(t) \in held =>
         \A run \in TurnIds : Conv(run) = Conv(t) /\ Ended(run) =>
             /\ Cardinality(Replayed(prior'[t], run)) = 1
             /\ \A i \in Replayed(prior'[t], run) : prior'[t][i].closed = ~EndedClean(run)]_vars

\* What turns used, of a conversation's closed turns that are among some.
Closed(t) == pc[t] \in {"closing", "ended"}
Charge(c, some) == [t \in TurnIds |-> IF Conv(t) = c /\ Closed(t) /\ t \in some THEN used[t] ELSE 0]

\* The ledger of a conversation holds what every reply of its closed turns
\* used, each once, though turns overlap and each began from what the ledger
\* held then; what a failed turn used is not in it (consultation.rs:121, 221).
Paid == TurnIds \ failed
ChargedOnce == \A c \in Conversations : ledger[c] = Summed(Charge(c, Paid))

\* What README.md:687 says of the ledger: "a running total of `usage` across
\* the turns of one conversation", with no turn left out.
RunningTotal == \A c \in Conversations : ledger[c] = Summed(Charge(c, TurnIds))
=============================================================================
