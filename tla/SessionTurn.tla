------------------------------ MODULE SessionTurn ------------------------------
(***************************************************************************)
(* One session's turn: the durable state folded from its events (state.rs), *)
(* the pure choice of the next action (decision.rs), the runner's loop      *)
(* around it (runner.rs), and the executor whose tools end on their own     *)
(* (executor.rs).                                                           *)
(*                                                                          *)
(* session is the fold of the log, so a batch of events is one step and a   *)
(* crash keeps it; everything else is lost with the process, or with the    *)
(* runner.  An operator named after an event is that event's fold.  Texts,  *)
(* sizes and clocks are left out: whether a request is over its budget and  *)
(* whether a deadline has passed are choices of the environment.            *)
(***************************************************************************)
EXTENDS Order, Sequences

CONSTANTS
  Input,        \* mailbox inputs
  Waking,       \* those sent with wake
  Replies,      \* what the model may call in a response: sequences of tools,
                \* each of them valid or rejected
  Strategies,   \* context strategies the configuration may name
  RetryLimit,   \* provider_retry_limit
  ContextLimit, \* context_attempt_limit
  MaxCalls,     \* bound: tool invocations
  MaxSteps,     \* bound: provider steps
  MaxTurns,     \* bound: turns
  MaxTroubles   \* bound: provider failures, invalid documents, cancellations,
                \* crashes and runner failures, together

Tools == {"work", "wait", "end", "acknowledged end"}

ASSUME LimitsAssumption ==
  /\ RetryLimit \in Nat \ {0} /\ ContextLimit \in Nat \ {0}
  /\ MaxCalls \in Nat /\ MaxSteps \in Nat /\ MaxTurns \in Nat /\ MaxTroubles \in Nat

ASSUME MenuAssumption ==
  /\ Waking \subseteq Input /\ Input \cap (1 .. MaxCalls) = {}
  /\ Replies \subseteq Seq([tool : Tools, rejected : BOOLEAN])
  /\ Strategies \subseteq {"Compaction", "Handoff"}

VARIABLES
  session,  \* SessionState: the fold of the durable events
  place,    \* where the runner is in its loop
  seen,     \* the runner's snapshot of the executor's table
  queue,    \* tool results sent to this runner and not yet persisted
  live,     \* calls in the executor's table
  sent,     \* those of them whose result was sent, or could not be
  orphan,   \* those of them dispatched by a runner that is gone
  spent,    \* steps and troubles so far
  accepted, \* inputs ever accepted
  news,     \* a fact arrived since the last request was made
  read,     \* inputs and results the model has answered to
  asked     \* entries of this generation the last request held

taskVars == <<seen, queue, live, sent, orphan>>
ghosts   == <<accepted, news, read, asked>>
vars     == <<session, place, taskVars, spent, ghosts>>

Calls == 1 .. MaxCalls

NoStep == [purpose |-> "none", consumed |-> {}]
NoContext == [purpose |-> "none", attempts |-> 0, source |-> 0, keep |-> 0]

Purposes == {"Conversation", "Compaction", "Handoff"}
-----------------------------------------------------------------------------
(* What the state says. *)

Unfinished(s) == {c \in DOMAIN s.pending : s.pending[c].result = "none"}
Finished(s)   == DOMAIN s.pending \ Unfinished(s)
Fresh(s)      == {c \in DOMAIN s.pending : s.pending[c].delivery = "fresh"}

IsEnd(s, c) == s.calls[c].tool \in {"end", "acknowledged end"}

Wakes(s) == s.mail \cap Waking # {}

(* core_outstanding, the open step apart. *)
Outstanding(s) == Unfinished(s) \cup s.mail

(* Where the last response after entry i is, 0 if there is none. *)
LastResponse(s, i) ==
  LET found == {j \in i + 1 .. Len(s.entries) : s.entries[j].kind = "assistant"}
  IN  CHOOSE j \in found \cup {0} : \A k \in found : k <= j

ResponseCalls(s, i) ==
  LET j == LastResponse(s, i) IN IF j = 0 THEN {} ELSE s.entries[j].of

(* The call of the last response that asks to end the turn, 0 if none does. *)
EndCall(s) ==
  LET ends == {c \in ResponseCalls(s, 0) : IsEnd(s, c) /\ ~s.calls[c].rejected}
  IN  CHOOSE c \in ends \cup {0} :
        IF ends = {} THEN c = 0 ELSE c # 0 /\ \A d \in ends : c <= d

EndSucceeded(s) ==
  LET c == EndCall(s)
  IN  c # 0 /\ c \in Finished(s) /\ s.pending[c].result = "ok"

(* outstanding_was_disclosed: the last list shown holds every item. *)
Disclosed(s) ==
  LET lists == {j \in DOMAIN s.entries : s.entries[j].kind = "outstanding"}
  IN  \E j \in lists : /\ \A k \in lists : k <= j
                       /\ Outstanding(s) \subseteq s.entries[j].of

ShouldStartTurn(s) ==
  \/ Wakes(s)
  \/ /\ s.outcome # "Cancelled"
     /\ \/ s.noticed /\ s.outcome # "Failed"
        \/ \E c \in Finished(s) : ~IsEnd(s, c)

FullyIdle(s) ==
  /\ s.turn = 0 /\ s.step = NoStep /\ Unfinished(s) = {} /\ ~Wakes(s)
  /\ s.batch = {} /\ s.waitFor = 0
-----------------------------------------------------------------------------
(* The folds. *)

Entry(kind, of) ==
  IF of = {} THEN <<>> ELSE << [kind |-> kind, of |-> of, closed |-> {}] >>

Restricted(f, S) == [x \in DOMAIN f \cap S |-> f[x]]

(* What is pending of the calls kept, those told of marked so. *)
Told(pending, kept, told) ==
  [c \in kept |-> IF c \in told THEN [pending[c] EXCEPT !.delivery = "sent"] ELSE pending[c]]

InputAppended(s, i) == [s EXCEPT !.mail = @ \cup {i}]

TurnStarted(s) ==
  [s EXCEPT !.turn = s.turns + 1, !.turns = @ + 1, !.cancel = FALSE, !.failures = 0,
            !.retry = TRUE, !.context = NoContext, !.outcome = "None"]

(* Mutant of Terminal: an end whose placeholder was sent is closed as well. *)
TerminalAlways(s) == {c \in Finished(s) : IsEnd(s, c)}

(* A finished end that no request has shown is closed inside its response; *)
(* one already shown as unfinished stays, to be told later.                *)
Terminal(s) == {c \in Finished(s) \cap Fresh(s) : IsEnd(s, c)}

Closed(s) ==
  [i \in DOMAIN s.entries |->
     IF s.entries[i].kind = "assistant"
     THEN [s.entries[i] EXCEPT !.closed = @ \cup (Terminal(s) \cap s.entries[i].of)]
     ELSE s.entries[i]]

TurnFinished(s, outcome) ==
  [s EXCEPT
     !.turn = 0, !.cancel = FALSE, !.failures = 0, !.retry = TRUE, !.context = NoContext,
     !.step = NoStep, !.batch = {}, !.outcome = outcome,
     !.entries = Closed(s), !.pending = Restricted(@, DOMAIN @ \ Terminal(s)),
     !.waitFor = IF outcome = "Cancelled" THEN 0 ELSE @]

(* start_step: what a request delivers.  Once a context transition is under *)
(* way only the rejected calls of its own last response are answered.       *)
Deliverable(s, purpose) ==
  IF s.context = NoContext THEN DOMAIN s.pending
  ELSE IF purpose = "Handoff" THEN ResponseCalls(s, s.context.source) \cap DOMAIN s.pending
  ELSE {}

StepStarted(s, purpose, placeholders, told) ==
  LET may      == Deliverable(s, purpose)
      direct   == may \cap Finished(s) \cap Fresh(s)
      notified == (may \cap Finished(s)) \ Fresh(s)
      waiting  == IF placeholders THEN may \cap Unfinished(s) \cap Fresh(s) ELSE {}
      consumed == IF purpose = "Conversation" THEN s.mail ELSE {}
      first    == purpose # "Conversation" /\ s.context = NoContext
      kept     == IF first THEN DOMAIN s.pending ELSE DOMAIN s.pending \ (direct \cup notified)
      entries  == s.entries \o Entry("inputs", consumed) \o Entry("direct", direct)
                    \o Entry("notified", notified) \o Entry("pending", waiting)
                    \o Entry("outstanding", told \ consumed)
  IN [s EXCEPT
        !.mail = @ \ consumed, !.entries = entries,
        !.pending = Told(@, kept, direct \cup waiting),
        !.waitFor = IF consumed = {} THEN @ ELSE 0,
        !.noticed = @ /\ purpose # "Conversation",
        !.step = [purpose |-> purpose, consumed |-> consumed],
        !.context = IF first THEN [purpose |-> purpose, attempts |-> 0,
                                   source |-> Len(entries), keep |-> Len(entries)] ELSE @,
        !.failure = "none"]

Attempted(context) == [context EXCEPT !.attempts = @ + 1]

WithNew(pending, ids) ==
  [c \in DOMAIN pending \cup ids |->
     IF c \in ids THEN [delivery |-> "fresh", result |-> "none"] ELSE pending[c]]

StepCompleted(s, made) ==
  LET ids == Len(s.calls) + 1 .. Len(s.calls) + Len(made) IN
  [s EXCEPT
      !.step = NoStep, !.calls = @ \o made,
      !.entries = IF s.step.purpose = "Compaction" THEN @
                  ELSE Append(@, [kind |-> "assistant", of |-> ids, closed |-> {}]),
      !.anchored = @ \/ s.step.purpose # "Compaction",
      !.context = IF s.step.purpose = "Conversation" THEN @ ELSE Attempted(@),
      !.pending = WithNew(@, ids),
      !.batch = IF s.step.purpose = "Conversation" THEN ids ELSE {},
      !.failures = 0, !.retry = TRUE, !.failure = "none"]

(* An overflow gives the rejected request's inputs back to the mailbox; an *)
(* invalid document costs an attempt, any other error a retry.             *)
StepFailed(s, error, retryable) ==
  LET attempt == error = "document" /\ s.step.purpose # "Conversation" IN
  [s EXCEPT
     !.step = NoStep, !.failure = error, !.noticed = TRUE,
     !.anchored = @ \/ s.step.purpose # "Compaction",
     !.mail = IF error = "overflow" THEN @ \cup s.step.consumed ELSE @,
     !.context = IF attempt THEN Attempted(@) ELSE @,
     !.failures = IF attempt THEN 0 ELSE @ + 1,
     !.retry = attempt \/ retryable]

StepInterrupted(s, recovery) == [s EXCEPT !.step = NoStep, !.noticed = @ \/ recovery]

AutoWaitEnded(s, timedOut) == [s EXCEPT !.batch = {}, !.noticed = @ \/ timedOut]

(* A second result of a call, or one of a call no longer pending, becomes a *)
(* notice.  earlier: its wait ends before the one already kept.             *)
ToolResult(s, c, result, earlier) ==
  LET waits == /\ s.calls[c].tool = "wait" /\ ~s.calls[c].rejected
               /\ c \in s.batch /\ result = "ok" /\ (s.waitFor = 0 \/ earlier)
  IN [s EXCEPT
        !.pending = IF c \in Unfinished(s) THEN [@ EXCEPT ![c].result = result] ELSE @,
        !.noticed = @ \/ c \notin Unfinished(s),
        !.waitFor = IF waits THEN c ELSE @]

WithFailed(pending, cs) ==
  [c \in DOMAIN pending |->
     IF c \in cs THEN [pending[c] EXCEPT !.result = "bad"] ELSE pending[c]]

ToolsFailed(s, cs) == [s EXCEPT !.pending = WithFailed(@, cs)]

(* Results shown in the entries kept. *)
ShownIn(entries, kinds) ==
  UNION {entries[i].of : i \in {j \in DOMAIN entries : entries[j].kind \in kinds}}

(* The entries of a window that stay: inputs that wait in the mailbox again *)
(* are taken out, and an entry left without any goes.                      *)
Retained(window, mail) ==
  LET stay == {i \in DOMAIN window :
                 window[i].kind = "inputs" => ~ (window[i].of \subseteq mail)}
  IN [k \in 1 .. Cardinality(stay) |->
        LET e == window[Nth(k, stay)] IN
        IF e.kind = "inputs" THEN [e EXCEPT !.of = @ \ mail] ELSE e]

(* Mutant of ContextApplied: results not shown yet are dropped. *)
ContextAppliedForgetting(s, from, to) ==
  LET carried == Unfinished(s)
  IN [s EXCEPT
        !.pending = Told(@, carried, carried),
        !.entries = Retained(SubSeq(@, from + 1, to), s.mail) \o Entry("carried", carried),
        !.generation = @ + 1, !.step = NoStep, !.batch = {}, !.anchored = FALSE,
        !.failure = "none", !.failures = 0, !.retry = TRUE, !.context = NoContext]

ContextApplied(s, from, to) ==
  LET window  == SubSeq(s.entries, from + 1, to)
      carried == Unfinished(s)
      kept    == carried \cup (Finished(s) \ ShownIn(window, {"direct", "notified"}))
  IN [s EXCEPT
        !.pending = Told(@, kept, kept),
        !.entries = Retained(window, s.mail) \o Entry("carried", carried),
        !.generation = @ + 1, !.step = NoStep, !.batch = {}, !.anchored = FALSE,
        !.failure = "none", !.failures = 0, !.retry = TRUE, !.context = NoContext]
-----------------------------------------------------------------------------
NewSession ==
  [mail |-> {}, turn |-> 0, turns |-> 0, cancel |-> FALSE, failures |-> 0, retry |-> TRUE,
   context |-> NoContext, step |-> NoStep, outcome |-> "None", failure |-> "none",
   calls |-> <<>>, pending |-> <<>>, batch |-> {}, waitFor |-> 0, noticed |-> FALSE,
   entries |-> <<>>, generation |-> 1, anchored |-> FALSE]

Init ==
  /\ session = NewSession /\ place = "down"
  /\ seen = {} /\ queue = {} /\ live = {} /\ sent = {} /\ orphan = {}
  /\ spent = [steps |-> 0, troubles |-> 0]
  /\ accepted = {} /\ news = FALSE /\ read = {} /\ asked = 0
-----------------------------------------------------------------------------
TroubleCounted == /\ spent.troubles < MaxTroubles
                  /\ spent' = [spent EXCEPT !.troubles = @ + 1]

(* The executor. *)

(* A tool is over: its result goes to the runner that dispatched it, or    *)
(* nowhere when that runner is gone.                                       *)
ToolEnds(c) ==
  /\ c \in live \ sent
  /\ sent' = sent \cup {c}
  /\ \E result \in IF session.calls[c].rejected THEN {"bad"} ELSE {"ok", "bad"} :
       queue' = IF c \in orphan THEN queue ELSE queue \cup {<<c, result>>}
  /\ UNCHANGED <<session, place, seen, live, orphan, spent, ghosts>>

(* Only then does it leave the table. *)
ToolLeaves(c) ==
  /\ c \in sent
  /\ live' = live \ {c} /\ sent' = sent \ {c} /\ orphan' = orphan \ {c}
  /\ UNCHANGED <<session, place, seen, queue, spent, ghosts>>

-----------------------------------------------------------------------------
(* The runner's mailbox and result channel. *)

Receiving == place \in {"top", "park", "backoff", "model"}

Woken == IF place = "park" THEN "top" ELSE place

ReceiveInput(i) ==
  /\ Receiving /\ i \notin accepted
  /\ session' = InputAppended(session, i)
  /\ place' = Woken
  /\ accepted' = accepted \cup {i} /\ news' = TRUE
  /\ UNCHANGED <<seen, queue, live, sent, orphan, spent, read, asked>>

(* The cancellation is durable before the step is interrupted; the turn's   *)
(* tools are signalled, and end as any tool does.                           *)
CancelTurn ==
  /\ Receiving /\ session.turn # 0 /\ ~session.cancel
  /\ TroubleCounted
  /\ session' = [session EXCEPT !.cancel = TRUE]
  /\ place' = IF place = "model" THEN "cancelling" ELSE "top"
  /\ UNCHANGED <<seen, queue, live, sent, orphan, ghosts>>

StopStep ==
  /\ place = "cancelling" /\ place' = "top"
  /\ session' = StepInterrupted(session, FALSE)
  /\ UNCHANGED <<seen, queue, live, sent, orphan, spent, ghosts>>

PersistResult(c, result) ==
  /\ place \in {"results", "park", "backoff", "model"}
  /\ <<c, result>> \in queue
  /\ \E earlier \in BOOLEAN : session' = ToolResult(session, c, result, earlier)
  /\ queue' = queue \ {<<c, result>>}
  /\ place' = Woken /\ news' = TRUE
  /\ UNCHANGED <<seen, live, sent, orphan, spent, accepted, read, asked>>

(* A deadline armed when the runner parked may have come. *)
DeadlineWakes ==
  /\ place = "park"
  /\ session.batch # {} \/ session.waitFor # 0
  /\ place' = "top"
  /\ UNCHANGED <<session, taskVars, spent, ghosts>>
-----------------------------------------------------------------------------
(* The loop: commands, a snapshot of the table, results, a decision. *)

TakeSnapshot ==
  /\ place = "top"
  /\ place' = "results" /\ seen' = live
  /\ UNCHANGED <<session, queue, live, sent, orphan, spent, ghosts>>

(* Mutant of Deciding: results that wait are not drained. *)
DecidingUndrained == place = "results"

(* decide reads no result that comes after the drain. *)
Deciding == place = "results" /\ queue = {}

(* Calls with no result that the snapshot does not hold. *)
Lost == Unfinished(session) \ seen

Stable    == Deciding /\ session.step = NoStep /\ Lost = {}
Going     == Stable /\ ~session.cancel
Batchless == Going /\ session.batch = {}
Retrying  == Batchless /\ session.turn # 0 /\ session.failures > 0
Calm      == Batchless /\ ~(session.turn # 0 /\ session.failures > 0)
Waiting   == session.waitFor # 0 /\ ~Wakes(session) /\ ~session.noticed
Ready     == Calm /\ ~Waiting
InTurn    == Ready /\ session.turn # 0
Conversing == InTurn /\ session.context = NoContext

(* The snapshot is of this round of the loop only. *)
Decided(s) ==
  /\ session' = s /\ place' = "top" /\ seen' = {}
  /\ UNCHANGED <<queue, live, sent, orphan, spent>>

InterruptStep ==
  /\ Deciding /\ session.step # NoStep
  /\ Decided(StepInterrupted(session, TRUE))
  /\ UNCHANGED ghosts

InterruptTools ==
  /\ Deciding /\ session.step = NoStep /\ Lost # {}
  /\ Decided(ToolsFailed(session, Lost))
  /\ news' = TRUE /\ UNCHANGED <<accepted, read, asked>>

FinishCancelled ==
  /\ Stable /\ session.cancel
  /\ Decided(TurnFinished(session, "Cancelled"))
  /\ UNCHANGED ghosts

BatchFinished == session.batch \cap Unfinished(session) = {}

EndAutoWait ==
  /\ Going /\ session.batch # {}
  /\ Decided(AutoWaitEnded(session, ~BatchFinished /\ ~Wakes(session)))
  /\ UNCHANGED ghosts

ParkInBatch ==
  /\ Going /\ session.batch # {}
  /\ ~BatchFinished /\ ~Wakes(session)
  /\ place' = "park" /\ seen' = {}
  /\ UNCHANGED <<session, queue, live, sent, orphan, spent, ghosts>>

Overflowed == session.failure = "overflow"

GiveUp ==
  /\ Retrying /\ ~Overflowed
  /\ ~session.retry \/ session.failures >= RetryLimit
  /\ Decided(TurnFinished(session, "Failed"))
  /\ UNCHANGED ghosts

ReachWait ==
  /\ Calm /\ session.waitFor # 0
  /\ Decided([session EXCEPT !.waitFor = 0, !.noticed = TRUE])
  /\ news' = TRUE /\ UNCHANGED <<accepted, read, asked>>

(* The runner exits when nothing is left to wait for. *)
Park ==
  /\ \/ Calm /\ Waiting
     \/ Ready /\ session.turn = 0 /\ ~ShouldStartTurn(session)
  /\ place' = IF FullyIdle(session) THEN "down" ELSE "park"
  /\ IF FullyIdle(session) THEN queue' = {} /\ orphan' = live ELSE UNCHANGED <<queue, orphan>>
  /\ seen' = {}
  /\ UNCHANGED <<session, live, sent, spent, ghosts>>

StartTurn ==
  /\ Ready /\ session.turn = 0 /\ ShouldStartTurn(session)
  /\ session.turns < MaxTurns
  /\ Decided(TurnStarted(session))
  /\ UNCHANGED ghosts

(* Mutant of EndHolds: what was left undone need not have been shown. *)
EndHoldsUntold ==
  /\ EndSucceeded(session)
  /\ \/ Outstanding(session) = {}
     \/ session.calls[EndCall(session)].tool = "acknowledged end"

(* The end call's turn is finished when nothing is left undone, or when all *)
(* that is was shown to the model before.                                   *)
EndHolds ==
  /\ EndSucceeded(session)
  /\ \/ Outstanding(session) = {}
     \/ /\ session.calls[EndCall(session)].tool = "acknowledged end"
        /\ Disclosed(session)

FinishTurn ==
  /\ Conversing /\ EndHolds
  /\ Decided(TurnFinished(session, "Finished"))
  /\ UNCHANGED ghosts
-----------------------------------------------------------------------------
(* start_step. *)

(* A compaction keeps a suffix of the entries that splits no response from  *)
(* its answers; sizes decide which.                                         *)
OpenCalls(entries, n) ==
  (UNION {entries[i].of \ entries[i].closed : i \in {j \in 1 .. n : entries[j].kind = "assistant"}})
    \ ShownIn(SubSeq(entries, 1, n), {"pending", "direct"})

(* Mutant of Retentions: one entry too many. *)
RetentionsPastEnd(entries) ==
  {n + 1 : n \in {m \in 1 .. Len(entries) : OpenCalls(entries, m) = {}}} \cup {Len(entries)}

Retentions(entries) ==
  {n \in 1 .. Len(entries) : OpenCalls(entries, n) = {}} \cup {Len(entries)}

Begin(purpose, placeholders, told) ==
  LET s == StepStarted(session, purpose, placeholders, told) IN
  /\ spent.steps < MaxSteps
  /\ spent' = [spent EXCEPT !.steps = @ + 1]
  /\ IF purpose = "Compaction" /\ session.context = NoContext
     THEN \E n \in Retentions(s.entries) : session' = [s EXCEPT !.context.keep = n]
     ELSE session' = s
  /\ place' = "model" /\ seen' = {}
  /\ news' = FALSE /\ asked' = Len(s.entries)
  /\ UNCHANGED <<queue, live, sent, orphan, accepted, read>>

(* A compaction can rescue a conversation that overflowed. *)
Rescue ==
  /\ Retrying /\ Overflowed /\ session.context = NoContext
  /\ "Compaction" \in Strategies /\ Begin("Compaction", TRUE, {})

Retries == Retrying /\ ~Overflowed /\ session.retry /\ session.failures < RetryLimit

BackOff ==
  /\ Retries
  /\ place' = "backoff" /\ seen' = {}
  /\ UNCHANGED <<session, queue, live, sent, orphan, spent, ghosts>>

Retry ==
  /\ place = "backoff"
  /\ Begin(IF session.context = NoContext THEN "Conversation" ELSE session.context.purpose,
           TRUE, {})

ContinueContext ==
  /\ InTurn /\ session.context # NoContext /\ session.context.attempts < ContextLimit
  /\ Begin(session.context.purpose, TRUE, {})

(* The model hears what its end left undone. *)
TellOutstanding ==
  /\ Conversing /\ EndSucceeded(session) /\ ~EndHolds
  /\ Begin("Conversation", TRUE, Outstanding(session))

(* The next request would exceed its budget. *)
PrepareContext ==
  /\ Conversing /\ ~EndSucceeded(session)
  /\ session.anchored /\ session.entries # <<>>
  /\ \E purpose \in Strategies : Begin(purpose, TRUE, {})

(* Mutant of Converse: no placeholders. *)
ConverseBare ==
  /\ Conversing /\ ~EndSucceeded(session)
  /\ Begin("Conversation", FALSE,
           IF LastResponse(session, 0) # 0 /\ ResponseCalls(session, 0) = {}
           THEN Outstanding(session) ELSE {})

Converse ==
  /\ Conversing /\ ~EndSucceeded(session)
  /\ Begin("Conversation", Fresh(session) # {},
           IF LastResponse(session, 0) # 0 /\ ResponseCalls(session, 0) = {}
           THEN Outstanding(session) ELSE {})
-----------------------------------------------------------------------------
(* complete_step, fail_step and apply_context. *)

Shown(s) == ShownIn(s.entries, {"inputs", "direct", "notified"})

Answered(s) ==
  /\ session' = s
  /\ UNCHANGED <<seen, queue, live, sent, orphan, spent, accepted, news>>

Made(reply, spoilt) ==
  [k \in DOMAIN reply |-> [tool |-> reply[k].tool,
                           rejected |-> spoilt \/ reply[k].rejected]]

(* Mutant of Converses: the turn ends in an append of its own. *)
ConversesThenFinishes(reply) ==
  /\ place = "model" /\ session.step.purpose = "Conversation"
  /\ Len(session.calls) + Len(reply) <= MaxCalls
  /\ Answered(StepCompleted(session, Made(reply, FALSE)))
  /\ place' = IF reply = <<>> THEN "top" ELSE "dispatch"
  /\ read' = read \cup Shown(session) /\ asked' = asked

(* A response with calls, or with work outstanding, continues the turn; one *)
(* with neither finishes it in the same append.                             *)
Converses(reply) ==
  LET s == StepCompleted(session, Made(reply, FALSE)) IN
  /\ place = "model" /\ session.step.purpose = "Conversation"
  /\ Len(session.calls) + Len(reply) <= MaxCalls
  /\ Answered(IF reply = <<>> /\ Outstanding(session) = {} THEN TurnFinished(s, "Finished") ELSE s)
  /\ place' = IF reply = <<>> THEN "top" ELSE "dispatch"
  /\ read' = read \cup Shown(session) /\ asked' = asked

DispatchBatch ==
  /\ place = "dispatch"
  /\ place' = "top" /\ live' = live \cup session.batch
  /\ UNCHANGED <<session, seen, queue, sent, orphan, spent, ghosts>>

(* The calls of the response that ends a transition go with it. *)
WithDocument(s) ==
  IF session.context.purpose = "Compaction"
  THEN ContextApplied(s, session.context.keep, session.context.source)
  ELSE ContextApplied(s, 0, 0)

WithoutDocument(s) == [ContextApplied(s, 0, 0) EXCEPT !.noticed = TRUE]

Transition == place = "model" /\ session.step.purpose \in {"Compaction", "Handoff"}

DocumentWritten ==
  /\ Transition
  /\ Answered(WithDocument(session))
  /\ place' = "top"
  /\ read' = read \cup Shown(session) /\ asked' = 0

(* An invalid document: its calls are rejected and fail at once. *)
DocumentInvalid(reply) ==
  LET s    == StepCompleted(session, Made(reply, TRUE))
      last == session.context.attempts + 1 >= ContextLimit
  IN
  /\ Transition /\ TroubleCounted
  /\ reply = <<>> \/ (session.step.purpose = "Handoff" /\ ~last)
  /\ Len(session.calls) + Len(reply) <= MaxCalls
  /\ session' = IF last THEN WithoutDocument(session)
             ELSE ToolsFailed(s, Len(session.calls) + 1 .. Len(s.calls))
  /\ place' = "top" /\ asked' = IF last THEN 0 ELSE asked
  /\ UNCHANGED <<seen, queue, live, sent, orphan, accepted, news, read>>

FailStep(error, retryable) ==
  /\ place = "model" /\ TroubleCounted
  /\ error = "document" => session.step.purpose # "Conversation"
  /\ session' = StepFailed(session, error, retryable)
  /\ place' = "top"
  /\ UNCHANGED <<seen, queue, live, sent, orphan, ghosts>>

(* A transition whose request overflowed, or out of attempts, goes without *)
(* a document; so does a handoff after a conversation overflowed.          *)
ApplyWithoutDocument ==
  /\ \/ /\ Retrying /\ Overflowed
        /\ session.context # NoContext \/ "Handoff" \in Strategies
     \/ InTurn /\ session.context.attempts >= ContextLimit
  /\ Decided(WithoutDocument(session))
  /\ asked' = 0 /\ UNCHANGED <<accepted, news, read>>
-----------------------------------------------------------------------------
(* Crashes, and the runner's own failures. *)

Down == place' = "down" /\ seen' = {} /\ queue' = {}

Crash ==
  /\ place # "down" /\ TroubleCounted /\ Down
  /\ live' = {} /\ sent' = {} /\ orphan' = {}
  /\ UNCHANGED <<session, ghosts>>

(* The runner is rebuilt and RuntimeFault is its first event. *)
RunnerFails ==
  /\ place # "down" /\ TroubleCounted /\ Down
  /\ orphan' = live
  /\ session' = [session EXCEPT !.noticed = TRUE]
  /\ UNCHANGED <<live, sent, ghosts>>

Activate ==
  /\ place = "down"
  /\ place' = "top"
  /\ UNCHANGED <<session, taskVars, spent, ghosts>>
-----------------------------------------------------------------------------
Decides ==
  \/ InterruptStep \/ InterruptTools \/ FinishCancelled \/ EndAutoWait \/ ParkInBatch
  \/ GiveUp \/ ReachWait \/ Park \/ StartTurn \/ FinishTurn \/ Rescue \/ BackOff
  \/ ContinueContext \/ TellOutstanding \/ PrepareContext \/ Converse \/ ApplyWithoutDocument

Completes ==
  \/ \E reply \in Replies : Converses(reply) \/ DocumentInvalid(reply)
  \/ DocumentWritten
  \/ \E error \in {"overflow", "document", "other"}, retryable \in BOOLEAN :
        FailStep(error, retryable)

Runs ==
  \/ TakeSnapshot \/ Decides \/ Retry \/ StopStep \/ Completes \/ DispatchBatch
  \/ DeadlineWakes \/ Activate
  \/ \E q \in queue : PersistResult(q[1], q[2])

Next ==
  \/ Runs
  \/ \E i \in Input : ReceiveInput(i)
  \/ CancelTurn
  \/ \E c \in Calls : ToolEnds(c) \/ ToolLeaves(c)
  \/ Crash \/ RunnerFails

Spec == Init /\ [][Next]_vars
-----------------------------------------------------------------------------
(* Invariants and properties. *)

EntryKinds == {"inputs", "assistant", "direct", "notified", "pending", "outstanding", "carried"}

(* The types of the state. *)
TypeOK ==
  /\ session.mail \subseteq accepted /\ accepted \subseteq Input
  /\ session.turn \in 0 .. session.turns
  /\ session.failures \in Nat /\ session.cancel \in BOOLEAN /\ session.retry \in BOOLEAN
  /\ session.step.purpose \in Purposes \cup {"none"} /\ session.step.consumed \subseteq accepted
  /\ session.context.purpose \in {"none", "Compaction", "Handoff"}
  /\ session.context.attempts \in 0 .. ContextLimit
  /\ session.context.keep \in 0 .. session.context.source
  /\ session.context.source \in 0 .. Len(session.entries)
  /\ session.outcome \in {"None", "Finished", "Failed", "Cancelled"}
  /\ session.failure \in {"none", "overflow", "document", "other"}
  /\ \A c \in DOMAIN session.calls : session.calls[c].tool \in Tools
  /\ DOMAIN session.pending \subseteq DOMAIN session.calls
  /\ session.batch \subseteq DOMAIN session.calls
  /\ session.waitFor \in 0 .. Len(session.calls)
  /\ \A i \in DOMAIN session.entries : session.entries[i].kind \in EntryKinds
  /\ place \in {"down", "top", "results", "park", "backoff", "model", "cancelling", "dispatch"}
  /\ sent \subseteq live /\ orphan \subseteq live /\ live \subseteq DOMAIN session.calls
  /\ seen \subseteq Calls

(* A call is declared interrupted only when no tool runs for it and no      *)
(* result of it waits for the runner: the order of snapshot, drain and      *)
(* decision is what makes this so (TOOL-12).                                *)
NoFalseInterruption ==
  [][\A c \in Unfinished(session) :
       session.step = NoStep /\ place = "results" /\ place' = "top" /\ c \in Finished(session')
         => c \notin live /\ \A q \in queue : q[1] # c]_vars

(* Every request is a legal transcript (PROJECTION-02): a call is answered  *)
(* once, by its result or by a placeholder, before the next response, and   *)
(* nothing is answered whose call is not there.                             *)
Answers(c) == {j \in DOMAIN session.entries :
                 session.entries[j].kind \in {"pending", "direct"} /\ c \in session.entries[j].of}

Responses == {i \in DOMAIN session.entries : session.entries[i].kind = "assistant"}

TranscriptLegal ==
  session.step # NoStep =>
    /\ \A i \in Responses : \A c \in session.entries[i].of :
         IF c \in session.entries[i].closed THEN Answers(c) = {}
         ELSE \E j \in Answers(c) : /\ Answers(c) = {j} /\ i < j
                                    /\ \A k \in Responses : ~(i < k /\ k < j)
    /\ \A c \in DOMAIN session.calls :
         Answers(c) # {} => \E i \in Responses : c \in session.entries[i].of

(* What a request of a generation held is never changed or taken away in    *)
(* that generation (PROJECTION-01).                                         *)
PrefixStable ==
  [][session'.generation = session.generation =>
       /\ Len(session'.entries) >= Len(session.entries)
       /\ \A i \in 1 .. asked : session'.entries[i] = session.entries[i]]_vars

(* A context transition loses only the document (CONTEXT-02): unfinished    *)
(* calls are carried and named, a result not read is told again exactly     *)
(* when it is not in the entries kept, and the mailbox stays, with no       *)
(* second copy of its inputs.                                               *)
ContextKeepsWork ==
  [][session'.generation # session.generation =>
       /\ session'.mail = session.mail
       /\ session.mail \cap ShownIn(session'.entries, {"inputs"}) = {}
       /\ \A c \in Unfinished(session) :
            c \in Unfinished(session') /\ c \in ShownIn(session'.entries, {"carried"})
       /\ \A c \in Finished(session) :
            (c \in Finished(session'))
              # (c \in ShownIn(session'.entries, {"direct", "notified"}))]_vars

(* An end that leaves work undone finishes the turn only when the model was *)
(* told of all of it before it called end (TURN-02).                        *)
EndIsInformed ==
  [][Deciding /\ session'.outcome = "Finished" /\ session.turn # 0 /\ session'.turn = 0 =>
       \A x \in Outstanding(session) :
         \E i \in 1 .. LastResponse(session, 0) :
           session.entries[i].kind = "outstanding" /\ x \in session.entries[i].of]_vars

(* A request says something the model has not answered yet: a response      *)
(* that finished its turn is never asked for again, whatever crashed.       *)
RequestsSaySomething ==
  [][session.step = NoStep /\ session'.step.purpose = "Conversation" /\ ~session.noticed =>
       \/ session'.entries = <<>>
       \/ session'.entries[Len(session'.entries)].kind # "assistant"]_vars

(* An input or a tool's result is dropped from the transcript only after    *)
(* the model has answered a request that held it (CONTEXT-02).              *)
UnreadSurvives ==
  /\ \A i \in accepted : i \in read \cup session.mail \cup Shown(session)
  /\ \A c \in DOMAIN session.calls :
       session.calls[c].rejected \/ IsEnd(session, c)
         \/ c \in read \cup DOMAIN session.pending \cup Shown(session)
================================================================================
