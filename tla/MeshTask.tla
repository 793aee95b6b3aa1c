------------------------------ MODULE MeshTask ------------------------------
(* A task one station delegates to another (crates/station/src/mesh.rs,        *)
(* db/mesh.rs): the owner's row and the pass of its worker that sends the      *)
(* delegation, the stop, the decision and the reworks, one call after another; *)
(* the executor's row, its worker that prepares the session, captures and      *)
(* publishes what the agent did, and the handlers of the owner's requests      *)
(* beside it; and the subscription that brings the executor's journal back.    *)
(*                                                                             *)
(* One assignment of either kind: to a workspace or, by a Leader, to a Worker. *)
(* The agent is a mailbox and its turns; a turn hands in a file and posts a    *)
(* message about it. Access, attachments of the goal and the bound of 64       *)
(* assignments are left out, and a local write does not fail.                  *)
EXTENDS Order, Naturals, Sequences, SequencesExt

CONSTANTS
    Kinds,         \* kinds of assignment: a subset of {"workspace", "worker"}
    MaxReworks,    \* reworks a Leader asks for
    MaxStops,      \* times the user stops the task
    MaxTurns,      \* turns of the agent
    MaxResults,    \* files handed in, with the message about each
    HandingIn,     \* the kinds of assignment whose agent hands in files
    PageLimit,     \* events of a page
    FeedCap,       \* pages received and not applied yet
    MaxFaults      \* lost calls and answers, failures, restarts of a station

ASSUME BoundsAssumption ==
    /\ Kinds # {} /\ Kinds \subseteq {"workspace", "worker"} /\ HandingIn \subseteq Kinds
    /\ {MaxReworks, MaxStops, MaxTurns, MaxResults, MaxFaults} \subseteq Nat
    /\ {PageLimit, FeedCap} \subseteq Nat \ {0}

Goal == 0                                 \* inputs: the goal and the reworks
Reworks == 1 .. MaxReworks
Ended == {"finished", "cancelled"}         \* a turn that fails ends like one that finishes

File(n) == [kind |-> "artifact", n |-> n, status |-> "ready"]
Message(n) == [kind |-> "message", n |-> n, status |-> "ready"]
Run(n, status) == [kind |-> "run", n |-> n, status |-> status]
Attention(why) == [kind |-> "attention", n |-> 0, status |-> why]

VARIABLES
    kind,          \* of the assignment
    \* the owner
    link,          \* its row: state, remote status, cursor, stop, decision
    rework,        \* the rework requests by number
    pass,          \* the pass of its worker: the call it makes, the state it read
    feed,          \* the subscription
    imported,      \* what it brought, in the owner's records
    \* the executor
    row,           \* its row, and whether it has a session and a runtime
    lock,          \* who holds mesh-exec
    work,          \* the pass of its worker
    exports,       \* the journal
    requests,      \* requests of the owner on their way or in their handlers
    \* its agent and the product records
    agent,         \* inputs accepted and not read, those of the turn, its state, and
                   \* the receipt: the request of the last input, if it had one
    runs,          \* task_runs: the status of each turn
    results,       \* files handed in with a message about each, by turn
    \* ghosts and bounds
    goals,         \* copies of the goal the agent accepted
    reworked,      \* reworks it accepted
    stopped,       \* the executor answered that the task is stopped
    stops, faults

ownerVars == <<link, rework, pass, feed, imported>>
agentVars == <<agent, runs, results>>
ghosts == <<goals, reworked, stopped, stops, faults>>
executorVars == <<row, lock, work, exports>>
vars == <<kind, ownerVars, executorVars, requests, agentVars, ghosts>>

-----------------------------------------------------------------------------
Idle == [pc |-> "idle", read |-> "queued"]
Resting == [pc |-> "idle", read |-> "queued", at |-> 0]
Follow(cursor) == [on |-> TRUE, resumed |-> cursor, sent |-> cursor, pages |-> <<>>]
NoFeed == [on |-> FALSE, resumed |-> 0, sent |-> 0, pages |-> <<>>]

Init ==
    /\ kind \in Kinds
    /\ link = [state |-> "none", remote |-> "queued", cursor |-> 0, stop |-> "no",
               decision |-> "none", task |-> "open"]
    /\ rework = [r \in Reworks |-> "none"]
    /\ pass = Idle /\ feed = NoFeed /\ imported = <<>>
    /\ row = [state |-> "none", bound |-> FALSE, runtime |-> FALSE, stop |-> "no",
              decided |-> FALSE]
    /\ lock = "free" /\ work = Resting /\ exports = <<>> /\ requests = {}
    /\ agent = [unread |-> {}, turn |-> {}, state |-> "idle", receipt |-> {}]
    /\ runs = <<>> /\ results = <<>>
    /\ goals = 0 /\ reworked = {} /\ stopped = FALSE /\ stops = 0 /\ faults = 0

Fault == faults < MaxFaults /\ faults' = faults + 1

-----------------------------------------------------------------------------
(* The people of the owner's station. *)

Delegate ==
    /\ link.state = "none"
    /\ link' = [link EXCEPT !.state = "queued"]
    /\ UNCHANGED <<kind, rework, pass, feed, imported, executorVars, requests, agentVars, ghosts>>

QueueRework(r) ==
    /\ kind = "worker" /\ link.state # "none" /\ link.task = "open"
    /\ rework[r] = "none" /\ \A s \in 1 .. r - 1 : rework[s] # "none"
    /\ rework' = [rework EXCEPT ![r] = "queued"]
    /\ UNCHANGED <<kind, link, pass, feed, imported, executorVars, requests, agentVars, ghosts>>

Stop ==
    /\ link.state # "none" /\ stops < MaxStops
    /\ stops' = stops + 1
    /\ link' = [link EXCEPT !.stop = "asked"]
    /\ UNCHANGED <<kind, rework, pass, feed, imported, executorVars, requests, agentVars, goals,
                   reworked, stopped, faults>>

\* transition_task refuses to cancel the task while its run may be under way.
Decidable == link.task = "open" /\ link.remote \in Ended
Decide ==
    /\ link.state # "none" /\ Decidable
    /\ link' = [link EXCEPT !.task = "cancelled", !.decision = "made"]
    /\ UNCHANGED <<kind, rework, pass, feed, imported, executorVars, requests, agentVars, ghosts>>

-----------------------------------------------------------------------------
(* The owner's worker. A request waits while the pass waits for its answer; a  *)
(* request given up may still be on its way.                                   *)

Request(what, r) == [what |-> what, rework |-> r, stage |-> "sent", waiting |-> TRUE]
Send(what, r) == requests' = requests \cup {Request(what, r)}
Waiting == \E q \in requests : q.waiting

Pending(r) == rework[r] = "queued"
OwnerHasWork ==
    \/ link.state = "queued" \/ link.stop = "asked" \/ link.decision = "made"
    \/ \E r \in Reworks : Pending(r)
    \/ link.state # "none" /\ ~feed.on

\* mesh_links: the pass keeps the row as it was. What there is to send is looked up
\* when its turn comes.
PassStarts ==
    /\ pass.pc = "idle" /\ link.state # "none" /\ OwnerHasWork
    /\ pass' = [pc |-> IF link.state = "queued" THEN "delegate" ELSE "stop",
                read |-> link.state]
    /\ IF link.state = "queued" THEN Send("delegate", 0) ELSE UNCHANGED requests
    /\ UNCHANGED <<kind, link, rework, feed, imported, executorVars, agentVars, ghosts>>

CallsStop ==
    /\ pass.pc = "stop" /\ ~Waiting /\ link.stop = "asked"
    /\ Send("cancel", 0)
    /\ UNCHANGED <<kind, ownerVars, executorVars, agentVars, ghosts>>

\* mesh_cancel_sent is committed; the remote status follows in a second write.
MarksStopped ==
    /\ pass.pc = "stopped"
    /\ link' = [link EXCEPT !.remote = "cancelled"]
    /\ pass' = [pass EXCEPT !.pc = "decide"]
    /\ UNCHANGED <<kind, rework, feed, imported, executorVars, requests, agentVars, ghosts>>

PastStop == pass.pc \in {"decide", "rework"} \/ (pass.pc = "stop" /\ link.stop # "asked")
PastDecision == PastStop /\ ~(pass.pc # "rework" /\ link.decision = "made")

CallsDecision ==
    /\ PastStop /\ ~PastDecision /\ ~Waiting
    /\ pass' = [pass EXCEPT !.pc = "decide"]
    /\ Send("decision", 0)
    /\ UNCHANGED <<kind, link, rework, feed, imported, executorVars, agentVars, ghosts>>

CallsRework ==
    /\ PastDecision /\ ~Waiting
    /\ pass' = [pass EXCEPT !.pc = "rework"]
    /\ \E r \in Reworks :
          /\ Pending(r) /\ \A s \in Reworks : Pending(s) => r <= s
          /\ Send("rework", r)
    /\ UNCHANGED <<kind, link, rework, feed, imported, executorVars, agentVars, ghosts>>

\* A pass without a failure makes sure there is a subscription.
PassEnds ==
    /\ PastDecision /\ ~Waiting /\ \A r \in Reworks : ~Pending(r)
    /\ pass' = Idle
    /\ feed' = IF feed.on THEN feed ELSE Follow(link.cursor)
    /\ UNCHANGED <<kind, link, rework, imported, executorVars, requests, agentVars, ghosts>>

\* The answer of the handler, and what the pass writes for it.
Delegated == [link EXCEPT !.state = "received"]
Answered(q, cancelled) ==
    CASE q.what = "delegate" ->
            /\ link' = Delegated
            /\ pass' = [pass EXCEPT !.pc = "stop"] /\ UNCHANGED rework
      [] q.what = "cancel" ->
            /\ link' = IF cancelled THEN [link EXCEPT !.stop = "sent"] ELSE link
            /\ pass' = [pass EXCEPT !.pc = IF cancelled THEN "stopped" ELSE "decide"]
            /\ UNCHANGED rework
      [] q.what = "decision" ->
            /\ link' = [link EXCEPT !.decision = "sent"]
            /\ pass' = [pass EXCEPT !.pc = "rework"] /\ UNCHANGED rework
      [] OTHER ->
            /\ rework' = [rework EXCEPT ![q.rework] = "delivered"]
            /\ UNCHANGED <<link, pass>>

\* What a failed pass writes back is the state it read when it began.
WrittenAsSent == [link EXCEPT !.state = "received"]    \* mutant
WrittenBack == [link EXCEPT !.state = pass.read]
PassFails ==
    /\ link' = WrittenBack
    /\ pass' = Idle

\* The answer reaches the owner, unless it gave up.
Reply(q, cancelled) ==
    /\ requests' = requests \ {q}
    /\ IF q.waiting THEN Answered(q, cancelled) ELSE UNCHANGED <<link, pass, rework>>

\* The handler refuses: the owner's pass fails.
Refuse(q) ==
    /\ requests' = requests \ {q}
    /\ IF q.waiting THEN PassFails ELSE UNCHANGED <<link, pass>>
    /\ UNCHANGED rework

\* A timeout of the caller: the request is lost, or will be handled later.
CallTimesOut(q) ==
    /\ Fault /\ q.waiting
    /\ \/ requests' = (requests \ {q}) \cup {[q EXCEPT !.waiting = FALSE]}
       \/ q.stage = "sent" /\ requests' = requests \ {q}
    /\ PassFails
    /\ UNCHANGED <<kind, rework, feed, imported, executorVars, agentVars, goals, reworked, stopped, stops>>

OwnerRestarts ==
    /\ Fault /\ link.state # "none"
    /\ pass' = Idle /\ feed' = NoFeed
    /\ requests' = {[q EXCEPT !.waiting = FALSE] : q \in requests}
    /\ UNCHANGED <<kind, link, rework, imported, executorVars, agentVars, goals, reworked,
                   stopped, stops>>

-----------------------------------------------------------------------------
(* The executor's agent. *)

AgentIdle == agent.state = "idle" /\ agent.unread = {}

\* append_mailbox takes every copy. append_mailbox_id knows a request by the receipt of
\* the last input, which any other input replaces.
AcceptGoal ==
    IF kind = "worker" /\ Goal \in agent.receipt THEN UNCHANGED <<agent, goals>>
    ELSE /\ agent' = [agent EXCEPT !.unread = @ \cup {Goal},
                                  !.receipt = IF kind = "worker" THEN {Goal} ELSE {}]
         /\ goals' = goals + 1

AcceptRework(r) ==
    IF r \in agent.receipt THEN UNCHANGED <<agent, reworked>>
    ELSE /\ agent' = [agent EXCEPT !.unread = @ \cup {r}, !.receipt = {r}]
         /\ reworked' = reworked \cup {r}

TurnStarts ==
    /\ agent.state = "idle" /\ agent.unread # {} /\ Len(runs) < MaxTurns
    /\ agent' = [agent EXCEPT !.unread = {}, !.turn = agent.unread, !.state = "working"]
    /\ runs' = Append(runs, "running")
    /\ UNCHANGED <<kind, ownerVars, executorVars, requests, results, ghosts>>

\* An input that arrives during the turn is read by it.
TurnReads ==
    /\ agent.state = "working" /\ agent.unread # {}
    /\ agent' = [agent EXCEPT !.turn = @ \cup agent.unread, !.unread = {}]
    /\ UNCHANGED <<kind, ownerVars, executorVars, requests, runs, results, ghosts>>

TurnEnds ==
    /\ \/ agent.state = "working" /\ agent.unread = {}
          /\ runs' = [runs EXCEPT ![Len(runs)] = "finished"]
       \/ agent.state = "cancelling" /\ runs' = [runs EXCEPT ![Len(runs)] = "cancelled"]
    /\ agent' = [agent EXCEPT !.turn = {}, !.state = "idle"]
    /\ UNCHANGED <<kind, ownerVars, executorVars, requests, results, ghosts>>

\* A tool stores the file and posts the message that names it.
HandsIn ==
    /\ agent.state = "working" /\ kind \in HandingIn /\ Len(results) < MaxResults
    /\ results' = Append(results, Len(runs))
    /\ UNCHANGED <<kind, ownerVars, executorVars, requests, agent, runs, ghosts>>

\* cancel_session: a turn is asked to end; what is not read stays.
AskTurnToEnd ==
    agent' = [agent EXCEPT !.state = IF @ = "working" THEN "cancelling" ELSE @]

-----------------------------------------------------------------------------
(* The handlers of the owner's requests. Decisions take no lock. *)

NotRunning == row.state \in {"queued", "preparing", "dispatching"}    \* mutant
Undispatched == row.state \in {"queued", "preparing"}

HandlesDelegate(q) ==
    /\ q.what = "delegate"
    /\ row' = IF row.state = "none" THEN [row EXCEPT !.state = "queued"] ELSE row
    /\ Reply(q, FALSE)
    /\ UNCHANGED <<kind, feed, imported, lock, work, exports, agentVars, ghosts>>

\* A decision is taken once, at its revision.
Settled == [row EXCEPT !.state = "settled", !.decided = TRUE]
HandlesDecision(q) ==
    /\ q.what = "decision" /\ row.state # "none"
    /\ row' = IF row.decided THEN row ELSE Settled
    /\ Reply(q, FALSE)
    /\ UNCHANGED <<kind, feed, imported, lock, work, exports, agentVars, ghosts>>

\* The session is looked up before the lock is taken, its runtime after.
HandlesRework(q) ==
    /\ q.what = "rework" /\ lock = "free" /\ row.runtime
    /\ AcceptRework(q.rework)
    /\ Reply(q, FALSE)
    /\ UNCHANGED <<kind, feed, imported, executorVars, runs, results, goals, stopped,
                   stops, faults>>

Refuses(q) ==
    /\ \/ q.what \in {"decision", "cancel"} /\ row.state = "none"
       \/ q.what = "rework" /\ (~row.bound \/ (lock = "free" /\ ~row.runtime))
    /\ Refuse(q)
    /\ UNCHANGED <<kind, feed, imported, executorVars, agentVars, ghosts>>

\* mesh_cancel_request, before the lock.
FlagsStop(q) ==
    /\ q.what = "cancel" /\ q.stage = "sent" /\ row.state # "none"
    /\ row' = [row EXCEPT !.stop = "asked"]
    /\ requests' = (requests \ {q}) \cup {[q EXCEPT !.stage = "flagged"]}
    /\ UNCHANGED <<kind, ownerVars, lock, work, exports, agentVars, ghosts>>

\* cancel_executor, under the lock: what was not dispatched never will be.
Unasked(q) ==
    /\ q.stage = "flagged" /\ lock = "free"
    /\ Undispatched \/ ~row.runtime
    /\ row' = IF Undispatched THEN [row EXCEPT !.state = "cancelled"] ELSE row
    /\ stopped' = (stopped \/ row'.state = "cancelled")
    /\ Reply(q, row'.state = "cancelled")
    /\ UNCHANGED <<kind, feed, imported, lock, work, exports, agentVars, goals, reworked,
                   stops, faults>>

AsksAgent(q) ==
    /\ q.stage = "flagged" /\ lock = "free" /\ ~Undispatched /\ row.runtime
    /\ lock' = "handler"
    /\ AskTurnToEnd
    /\ requests' = (requests \ {q}) \cup {[q EXCEPT !.stage = "asked"]}
    /\ UNCHANGED <<kind, ownerVars, row, work, exports, runs, results, ghosts>>

\* A session just asked counts as working until its runner has parked.
AgentAnswers(q) ==
    /\ q.stage = "asked"
    /\ lock' = "free"
    /\ \E idle \in {FALSE, AgentIdle} :
          /\ stopped' = (stopped \/ idle)
          /\ Reply(q, idle)
    /\ UNCHANGED <<kind, feed, imported, row, work, exports, agentVars, goals, reworked,
                   stops, faults>>

\* The ingress gives a handler 25 seconds and drops it where it waits.
HandlerDropped(q) ==
    /\ Fault /\ q.stage \in {"flagged", "asked"}
    /\ lock' = IF q.stage = "asked" THEN "free" ELSE lock
    /\ Refuse(q)
    /\ UNCHANGED <<kind, feed, imported, row, work, exports, agentVars, goals, reworked,
                   stopped, stops>>

-----------------------------------------------------------------------------
(* The journal. *)

Bodies == {exports[i].body : i \in DOMAIN exports}
Entry(body) == [body |-> body, ready |-> FALSE]
Export(body) == IF body \in Bodies THEN exports ELSE Append(exports, Entry(body))

\* Files before messages before runs, each once.
RunsFirst(fs, ms, rs) == rs \o fs \o ms       \* mutant
FilesFirst(fs, ms, rs) == fs \o ms \o rs
Records ==
    FilesFirst([n \in DOMAIN results |-> File(n)],
               [n \in DOMAIN results |-> Message(n)],
               [n \in DOMAIN runs |-> Run(n, runs[n])])
Missing == {i \in DOMAIN Records : Records[i] \notin Bodies}
Uncaptured ==
    IF row.bound THEN [k \in 1 .. Cardinality(Missing) |-> Records[Nth(k, Missing)]]
    ELSE <<>>
Unready == {i \in DOMAIN exports : ~exports[i].ready}

-----------------------------------------------------------------------------
(* The executor's worker. *)

ExecutorHasWork ==
    \/ row.stop = "asked" \/ Undispatched
    \/ Uncaptured # <<>> \/ Unready # {}

Works(from, to) == work.pc = from /\ work' = [work EXCEPT !.pc = to]
KeptByWork == <<kind, ownerVars, requests, runs, results, reworked, stopped, stops>>

\* A pass looks for a stop first. It finds the row again under the lock.
Begins == work.pc = "idle" /\ row.state # "none" /\ ExecutorHasWork

WorkCancels ==
    /\ Begins /\ row.stop = "asked" /\ lock = "free"
    /\ IF Undispatched \/ ~row.runtime
       THEN /\ row' = IF Undispatched THEN [row EXCEPT !.state = "cancelled"] ELSE row
            /\ Works("idle", IF row'.state = "cancelled" THEN "flag" ELSE "lock")
            /\ UNCHANGED <<lock, agent>>
       ELSE /\ Works("idle", "asking")
            /\ lock' = "worker" /\ AskTurnToEnd
            /\ UNCHANGED row
    /\ UNCHANGED <<KeptByWork, exports, goals, faults>>

WorkHears ==
    /\ \/ Works("asking", "lock")
       \/ AgentIdle /\ Works("asking", "flag")
    /\ lock' = "free"
    /\ UNCHANGED <<KeptByWork, row, exports, agent, goals, faults>>

WorkFlags ==
    /\ Works("flag", "lock")
    /\ row' = [row EXCEPT !.stop = "sent"]
    /\ UNCHANGED <<KeptByWork, lock, exports, agent, goals, faults>>

WorkLocks ==
    /\ lock = "free" /\ (work.pc = "lock" \/ (Begins /\ row.stop # "asked"))
    /\ lock' = "worker"
    /\ work' = [work EXCEPT !.pc = IF Undispatched THEN "bind" ELSE "capture",
                            !.read = row.state]
    /\ UNCHANGED <<KeptByWork, row, exports, agent, goals, faults>>

Binds ==
    /\ Works("bind", "runtime")
    /\ row' = IF Undispatched THEN [row EXCEPT !.state = "preparing", !.bound = TRUE] ELSE row
    /\ UNCHANGED <<KeptByWork, lock, exports, agent, goals, faults>>

Allocates ==
    /\ Works("runtime", "dispatch")
    /\ row' = [row EXCEPT !.runtime = TRUE]
    /\ UNCHANGED <<KeptByWork, lock, exports, agent, goals, faults>>

\* No access any more, no profile, an input file that cannot be read: the row
\* goes back to what was read under the lock.
PrepareFails ==
    /\ Fault /\ work.pc \in {"bind", "runtime", "dispatch"}
    /\ work' = [work EXCEPT !.pc = "capture"]
    /\ row' = [row EXCEPT !.state = work.read]
    /\ UNCHANGED <<KeptByWork, lock, exports, agent, goals>>

\* The mark that makes a restart know the goal may have been given.
Dispatches ==
    /\ Works("dispatch", "append")
    /\ row' = [row EXCEPT !.state = "dispatching"]
    /\ UNCHANGED <<KeptByWork, lock, exports, agent, goals, faults>>

GivesGoal ==
    /\ Works("append", "running")
    /\ AcceptGoal
    /\ UNCHANGED <<KeptByWork, row, lock, exports, faults>>

\* The agent answers with an error, whether or not it has the goal.
GoalUncertain ==
    /\ Fault /\ Works("append", "uncertain")
    /\ AcceptGoal \/ UNCHANGED <<agent, goals>>
    /\ UNCHANGED <<KeptByWork, row, lock, exports>>

MarksRunning ==
    /\ Works("running", "capture")
    /\ row' = [row EXCEPT !.state = "running"]
    /\ UNCHANGED <<KeptByWork, lock, exports, agent, goals, faults>>

\* A Worker's goal has an id and is given again; a workspace's never is.
MayRepeat == kind = "worker"
MarksUncertain ==
    /\ Works("uncertain", "capture")
    /\ row' = [row EXCEPT !.state = IF MayRepeat THEN "preparing" ELSE "needs_attention"]
    /\ exports' = IF MayRepeat THEN exports ELSE Export(Attention("execution"))
    /\ UNCHANGED <<KeptByWork, lock, agent, goals, faults>>

Captures ==
    /\ work.pc = "capture"
    /\ exports' = exports \o [i \in DOMAIN Uncaptured |-> Entry(Uncaptured[i])]
    /\ lock' = "free"
    /\ work' = IF Uncaptured = <<>> /\ Unready = {} THEN Resting
               ELSE [Resting EXCEPT !.pc = "publish"]
    /\ UNCHANGED <<KeptByWork, row, agent, goals, faults>>

\* Each event is published on its own; one that fails is left for the next pass.
Publishes ==
    /\ work.pc = "publish"
    /\ LET left == {i \in Unready : i > work.at}
       IN  \E i \in left :
              /\ \A j \in left : i <= j
              /\ work' = IF left = {i} THEN Resting ELSE [work EXCEPT !.at = i]
              /\ \/ exports' = [exports EXCEPT ![i].ready = TRUE] /\ UNCHANGED faults
                 \/ Fault /\ UNCHANGED exports
    /\ UNCHANGED <<KeptByWork, row, lock, agent, goals>>

\* mesh_recover_dispatch runs beside the ingress, before the first pass.
ReplayedAll == "preparing"                    \* mutant
Recovered == IF MayRepeat THEN "preparing" ELSE "needs_attention"
Recovers ==
    /\ work.pc = "recover" /\ work' = Resting
    /\ IF row.state = "dispatching"
       THEN /\ row' = [row EXCEPT !.state = Recovered]
            /\ exports' = IF MayRepeat THEN exports ELSE Export(Attention("dispatch"))
       ELSE UNCHANGED <<row, exports>>
    /\ UNCHANGED <<KeptByWork, lock, agent, goals, faults>>

\* The agent's session and a request to end its turn are durable.
ExecutorRestarts ==
    /\ Fault /\ row.state # "none"
    /\ lock' = "free" /\ work' = [Resting EXCEPT !.pc = "recover"]
    /\ requests' = {}
    /\ IF Waiting THEN PassFails ELSE UNCHANGED <<link, pass>>
    /\ feed' = [feed EXCEPT !.sent = feed.resumed]
    /\ UNCHANGED <<kind, rework, imported, row, exports, agentVars, goals, reworked, stopped, stops>>

-----------------------------------------------------------------------------
(* The subscription. *)

\* The events after the cursor as far as they are ready.
AnyEvent(last) == last - feed.sent <= PageLimit    \* mutant: unpublished ones too
Servable(last) ==
    last - feed.sent <= PageLimit /\ \A i \in feed.sent + 1 .. last : exports[i].ready
FeedReads ==
    /\ feed.on /\ Len(feed.pages) < FeedCap
    /\ \E last \in feed.sent + 1 .. Len(exports) :
          /\ Servable(last)
          /\ \A j \in last + 1 .. Len(exports) : ~Servable(j)
          /\ feed' = [feed EXCEPT !.sent = last,
                                  !.pages = Append(@, [from |-> feed.sent + 1, to |-> last])]
    /\ UNCHANGED <<kind, link, rework, pass, imported, executorVars, requests, agentVars, ghosts>>

\* mesh_import: one event and the cursor in one transaction.
Import(body) ==
    /\ imported' = Append(imported, body)
    /\ link' = CASE body.kind = "run" ->
                      [link EXCEPT !.cursor = @ + 1, !.remote = body.status,
                          !.state = IF @ = "needs_attention" THEN "received" ELSE @]
                 [] body.kind = "attention" ->
                      [link EXCEPT !.cursor = @ + 1, !.remote = "unknown",
                                   !.state = "needs_attention"]
                 [] OTHER -> [link EXCEPT !.cursor = @ + 1]

\* A page that was applied already, after a reconnection, ends the feed.
InOrder(page) == page.from > link.cursor
Applies ==
    /\ feed.on /\ feed.pages # <<>>
    /\ LET page == Head(feed.pages)
       IN  IF InOrder(page)
           THEN /\ Import(exports[page.from].body)
                /\ feed' = IF page.from = page.to
                           THEN [feed EXCEPT !.pages = Tail(@), !.resumed = page.to]
                           ELSE [feed EXCEPT !.pages[1].from = page.from + 1]
           ELSE feed' = Follow(link.cursor) /\ UNCHANGED <<link, imported>>
    /\ UNCHANGED <<kind, rework, pass, executorVars, requests, agentVars, ghosts>>

\* A file cannot be read: the feed is dropped and asked again from the cursor.
ApplyFails ==
    /\ Fault /\ feed.on /\ feed.pages # <<>>
    /\ feed' = Follow(link.cursor)
    /\ UNCHANGED <<kind, link, rework, pass, imported, executorVars, requests, agentVars,
                   goals, reworked, stopped, stops>>

\* The connection is made again from the last page applied; pages stay queued.
FeedBreaks ==
    /\ Fault /\ feed.on
    /\ feed' = [feed EXCEPT !.sent = feed.resumed]
    /\ UNCHANGED <<kind, link, rework, pass, imported, executorVars, requests, agentVars,
                   goals, reworked, stopped, stops>>

-----------------------------------------------------------------------------
Owner ==
    \/ Delegate \/ Stop \/ Decide \/ \E r \in Reworks : QueueRework(r)
    \/ PassStarts \/ CallsStop \/ MarksStopped \/ CallsDecision \/ CallsRework \/ PassEnds
    \/ OwnerRestarts \/ FeedReads \/ Applies \/ ApplyFails \/ FeedBreaks

Handlers ==
    \E q \in requests :
        \/ HandlesDelegate(q) \/ HandlesDecision(q) \/ HandlesRework(q) \/ Refuses(q)
        \/ FlagsStop(q) \/ Unasked(q) \/ AsksAgent(q) \/ AgentAnswers(q)
        \/ HandlerDropped(q) \/ CallTimesOut(q)

Worker ==
    \/ WorkCancels \/ WorkHears \/ WorkFlags \/ WorkLocks
    \/ Binds \/ Allocates \/ PrepareFails \/ Dispatches \/ GivesGoal \/ GoalUncertain
    \/ MarksRunning \/ MarksUncertain \/ Captures \/ Publishes
    \/ Recovers \/ ExecutorRestarts

AgentSteps == TurnStarts \/ TurnReads \/ TurnEnds \/ HandsIn

Next == Owner \/ Handlers \/ Worker \/ AgentSteps
Spec == Init /\ [][Next]_vars

-----------------------------------------------------------------------------
(* Properties. *)

\* The goal is given to the agent at most once, whatever is lost, asked again or
\* restarted: to a workspace's always, to a Worker's unless a rework came between, which
\* takes the place of the goal in the agent's receipt.
GoalGivenOnce == goals > 1 => kind = "worker" /\ reworked # {}

\* The goal is given once to every agent ("Never replay it as a fresh mailbox input",
\* mesh_recover_dispatch).
NeverReplayed == goals <= 1

\* Once the executor has said that the task is stopped, the goal is not with the agent,
\* neither waiting nor in a turn, and never will be again: for every kind of task.
StopMeansStopped == stopped => Goal \notin agent.unread \cup agent.turn

\* The same of a workspace's task, whose stop always reaches the agent.
WorkspaceStops == kind = "workspace" => StopMeansStopped

\* The owner's records are the executor's journal up to the cursor, in order, each
\* event once, and each published before.
JournalIsReplicated ==
    /\ imported = [i \in 1 .. link.cursor |-> exports[i].body]
    /\ \A i \in 1 .. link.cursor : exports[i].ready

\* What a run hands in and posts reaches the owner before the news that the run has
\* finished, and a message after the file it names.
ResultsPrecedeTheEnd ==
    \A i \in DOMAIN imported :
        LET before == {imported[j] : j \in 1 .. i}
        IN  /\ imported[i].kind = "message" => File(imported[i].n) \in before
            /\ imported[i].kind = "run" /\ imported[i].status # "running" =>
                 \A n \in DOMAIN results : results[n] = imported[i].n => Message(n) \in before

\* When nothing is left to do, the owner has everything of the executor and the
\* executor everything of the owner, whatever was lost or restarted on the way.
AtRest ==
    /\ pass.pc = "idle" /\ work.pc = "idle" /\ requests = {} /\ ~OwnerHasWork /\ ~ExecutorHasWork
    /\ AgentIdle /\ feed.pages = <<>> /\ feed.sent = Len(exports)
LastWord ==
    IF runs = <<>> THEN link.remote \in {"queued", "cancelled", "unknown"}
    ELSE link.remote \in {Last(runs), "cancelled", "unknown"}
RestMeansDone ==
    (AtRest /\ link.state # "none") =>
        /\ row.state \in {"running", "needs_attention", "cancelled", "settled"}
        /\ Len(imported) = Len(exports) /\ Uncaptured = <<>>
        /\ LastWord
        /\ link.task = "cancelled" => row.decided
        /\ \A r \in Reworks : rework[r] # "none" => r \in reworked
        /\ row.state = "running" => goals # 0
=============================================================================
