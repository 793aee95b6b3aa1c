----------------------------- MODULE SessionSlots -----------------------------
(***************************************************************************)
(* The slot a supervisor keeps for one session (supervisor.rs): who may    *)
(* start, stop and replace the session's runner while requests, deadline   *)
(* wakes, startup discovery, a deletion and a shutdown reach for it.       *)
(*                                                                         *)
(* An action is one critical section under the slot's status lock, or one  *)
(* step taken outside it.  A task that waits for a change registers with   *)
(* the slot's Notify before it takes the lock, so a change between the     *)
(* lock and the wait is not missed: asleep holds the tasks not notified    *)
(* since they registered.  The runner is reduced to what the slot can tell: it   *)
(* drains its mailbox, works, retires when the durable state asks for no   *)
(* work, or ends in one of the ways of RunnerExit.                         *)
(***************************************************************************)
EXTENDS Integers, Sequences, FiniteSets

CONSTANTS
  Clients,     \* external requests: one input each
  Inputs,      \* what they submit: a request id or None, a content, a place in a stream
  Internals,   \* deadline wakes, which wait for room in the mailbox
  Deleters,    \* DELETE requests
  Shutdowns,   \* the caller of shutdown, if there is one
  Discovery, Rebuild,  \* the supervisor's own tasks
  None,        \* no task
  Capacity,    \* session_queue_capacity
  FaultLimit,  \* runner_fault_limit
  Causes,      \* fingerprints of runner failures
  MaxRunners,  \* bound: runners spawned in a behaviour
  MaxFaults    \* bound: runner failures and failing reads or moves

ASSUME LimitsAssumption ==
  /\ Capacity \in Nat \ {0} /\ FaultLimit \in Nat \ {0} /\ MaxRunners \in Nat \ {0}
  /\ MaxFaults \in Nat

Senders == Clients \cup Internals
Stoppers == Deleters \cup Shutdowns
Procs == Senders \cup Stoppers \cup {Discovery, Rebuild}

ASSUME TasksAssumption ==
  /\ Clients \cap Internals = {} /\ Senders \cap Stoppers = {}
  /\ {Discovery, Rebuild} \cap (Senders \cup Stoppers) = {}
  /\ Discovery # Rebuild /\ Shutdowns \cap Deleters = {}
  /\ \A a, b \in Shutdowns : a = b
  /\ None \notin Procs

\* An input with a position has a source of its own, named by its request id.
ASSUME InputsAssumption ==
  /\ \A x \in Inputs : x.positioned \in BOOLEAN
  /\ \A x \in Inputs : x.positioned => x.id # None

VARIABLES
  st,         \* SlotStatus
  cur,        \* runner_id of an Active status, 0 otherwise
  next,       \* next_runner_id: runners spawned so far
  runner,     \* runner id -> where its task is
  completed,  \* completed_runner_id
  seen,       \* runner id -> what runner_exited read of the shutdown flag
  chan,       \* the runner the current mailbox was made for
  holder,     \* the runner that owns the mailbox's receiver, 0 once dropped
  queue,      \* the mailbox
  serving,    \* who asked the Stop being executed
  pc,         \* where each task is
  got,        \* the runner and mailbox a task read from the slot
  asleep,     \* tasks registered for a change and not notified since
  stopping,   \* the supervisor is shutting down
  work,       \* the durable state requires a runner
  ended,      \* the last commit is TurnFinished(Finished)
  streak,     \* the durable fault streak
  failure,    \* fingerprint the rebuild task was given
  live,       \* the runner whose tool is in the executor's table, 0 if none
  asked,      \* client -> the input it submits
  inputs,     \* the durable inputs, in order, by the client that submitted them
  detached,   \* the session directory was moved away
  faults      \* faults spent

slotVars == <<st, cur, next, runner, completed, seen>>
mailVars == <<chan, holder, queue, serving>>
taskVars == <<pc, got, asleep, stopping>>
logVars  == <<work, ended, streak, failure, live, asked, inputs, detached>>
vars == <<slotVars, mailVars, taskVars, logVars, faults>>

Statuses == {"Unchecked", "Recovering", "Active", "Idle", "CircuitOpen",
             "Unavailable", "Deleting", "Deleted"}
Refusing == {"CircuitOpen", "Unavailable", "Deleting", "Deleted"}

RunnerIds == 1 .. MaxRunners
Running == {"drain", "decide", "busy", "stopping"}
Exits == {"idle", "failed", "circuit", "stopped"}

Command(kind, from) == [kind |-> kind, from |-> from, count |-> 0, cause |-> None]
Fault(count, cause) == [kind |-> "fault", from |-> None, count |-> count, cause |-> cause]

Calm == [cause |-> None, count |-> 0, steps |-> 0]

Init ==
  /\ st = "Unchecked" /\ cur = 0 /\ next = 0
  /\ runner = [r \in RunnerIds |-> "none"] /\ completed = 0
  /\ seen = [r \in RunnerIds |-> "unread"]
  /\ chan = 0 /\ holder = 0 /\ queue = <<>> /\ serving = None
  /\ pc = [p \in Procs |-> IF p = Rebuild THEN "off" ELSE "start"]
  /\ got = [p \in Procs |-> [rid |-> 0, chan |-> 0]]
  /\ asleep = {} /\ stopping = FALSE
  /\ work \in BOOLEAN /\ ended \in BOOLEAN /\ streak = Calm /\ failure = None
  /\ live = 0 /\ asked \in [Clients -> Inputs] /\ inputs = <<>> /\ detached = FALSE
  /\ faults = 0

MayFault == faults < MaxFaults /\ faults' = faults + 1

-----------------------------------------------------------------------------
(* The lock, the mailbox and the notification *)

Goto(p, where) == pc' = [pc EXCEPT ![p] = where]
\* Mutant of Notify: notify_one, which wakes one of the tasks that wait.
NotifyOne == asleep' = IF asleep = {} THEN {} ELSE asleep \ {CHOOSE p \in asleep : TRUE}

Notify == asleep' = {}
Register(p) == asleep' = asleep \cup {p}

\* Reserved places count against the mailbox's capacity.
Permits == {i \in Internals : pc[i] = "recheck" /\ got[i].chan = chan}
HasRoom == Len(queue) + Cardinality(Permits) < Capacity
Closed(p) == chan = 0 \/ got[p].chan # chan
Push(command) == queue' = Append(queue, command)

\* What a task holds of the slot once it released the lock.
Nothing == [rid |-> 0, chan |-> 0]
Read(p) == got' = [got EXCEPT ![p] = [rid |-> cur, chan |-> chan]]
Forget(p) == got' = [got EXCEPT ![p] = Nothing]

\* Whoever waits for an answer to a dropped command gets an error, and a
\* Stop that is dropped lets its sender go on.
Queued == {queue[k].from : k \in 1 .. Len(queue)}
Answer(tasks) ==
  pc' = [p \in Procs |-> IF p \in tasks \cap Clients THEN "err"
                         ELSE IF p \in tasks \cap Stoppers THEN "join" ELSE pc[p]]
DropReceiver == chan' = 0 /\ holder' = 0 /\ queue' = <<>> /\ Answer(Queued)

\* activate(): a new mailbox holding the initial commands, a new runner.
Activate(initial) ==
  /\ next < MaxRunners
  /\ next' = next + 1 /\ cur' = next + 1 /\ st' = "Active"
  /\ runner' = [runner EXCEPT ![next + 1] = "drain"]
  /\ chan' = next + 1 /\ holder' = next + 1 /\ queue' = initial
  /\ Notify
  /\ UNCHANGED <<completed, seen, serving>>

-----------------------------------------------------------------------------
(* ensure_active, dispatch_external and send_internal *)

\* submit_input: global capacity is refused once the supervisor stops.
Submit(p) ==
  /\ pc[p] = "start"
  /\ Goto(p, IF p \in Clients /\ stopping THEN "err" ELSE "ensure")
  /\ UNCHANGED <<slotVars, mailVars, got, asleep, stopping, logVars, faults>>

\* Mutant of Claim: a recovery in progress is no reason to wait.
ClaimTwice(p) ==
  /\ pc[p] = "ensure"
  /\ st \in {"Unchecked", "Idle", "Recovering"} /\ ~stopping
  /\ st' = "Recovering"
  /\ Goto(p, "recover")
  /\ UNCHANGED <<cur, next, runner, completed, seen, mailVars, got, asleep, stopping, logVars, faults>>

\* ensure_active: claim the recovery of a slot without a runner.
Claim(p) ==
  /\ pc[p] = "ensure"
  /\ st \in {"Unchecked", "Idle"} /\ ~stopping
  /\ st' = "Recovering"
  /\ Goto(p, "recover")
  /\ UNCHANGED <<cur, next, runner, completed, seen, mailVars, got, asleep, stopping, logVars, faults>>

Proceed(p) ==
  /\ pc[p] = "ensure" /\ st = "Active"
  /\ Goto(p, "dispatch")
  /\ UNCHANGED <<slotVars, mailVars, got, asleep, stopping, logVars, faults>>

\* The slot refuses new work.
Refuse(p) ==
  /\ \/ pc[p] \in {"ensure", "dispatch"} /\ st \in Refusing
     \/ pc[p] = "ensure" /\ st \in {"Unchecked", "Idle"} /\ stopping
  /\ Goto(p, "err")
  /\ UNCHANGED <<slotVars, mailVars, got, asleep, stopping, logVars, faults>>

\* Someone else recovers, or the mailbox of an exited runner returned the
\* command: wait for the slot to change.
AwaitChange(p) ==
  /\ \/ pc[p] \in {"ensure", "dispatch"} /\ st = "Recovering"
     \/ pc[p] = "dispatch" /\ p \in Clients /\ st = "Active" /\ holder = 0
  /\ Goto(p, "wait") /\ Register(p)
  /\ UNCHANGED <<slotVars, mailVars, got, stopping, logVars, faults>>

Woken(p) ==
  /\ pc[p] = "wait" /\ p \notin asleep
  /\ Goto(p, IF p \in Senders THEN "ensure" ELSE IF p \in Shutdowns THEN "slot" ELSE "begin")
  /\ UNCHANGED <<slotVars, mailVars, got, asleep, stopping, logVars, faults>>

\* The runner retired after ensure_active returned.
Retry(p) ==
  /\ pc[p] = "dispatch" /\ st \in {"Unchecked", "Idle"}
  /\ Goto(p, "ensure")
  /\ UNCHANGED <<slotVars, mailVars, got, asleep, stopping, logVars, faults>>

\* try_send under the lock: sent, or refused by a full mailbox.
Dispatch(c) ==
  /\ pc[c] = "dispatch" /\ st = "Active" /\ holder # 0
  /\ IF HasRoom THEN Push(Command("input", c)) /\ Goto(c, "sent")
     ELSE Goto(c, "err") /\ UNCHANGED queue
  /\ UNCHANGED <<slotVars, chan, holder, serving, got, asleep, stopping, logVars, faults>>

\* send_internal takes the sender from the slot, waits for room outside the
\* lock, and sends only if the same runner is still active.
Grab(i) ==
  /\ pc[i] = "dispatch" /\ st = "Active"
  /\ Read(i)
  /\ Goto(i, "reserve") /\ Register(i)
  /\ UNCHANGED <<slotVars, mailVars, stopping, logVars, faults>>

Reserve(i) ==
  /\ pc[i] = "reserve"
  /\ IF Closed(i) THEN Goto(i, "wait") /\ Forget(i) /\ UNCHANGED asleep
     ELSE HasRoom /\ Goto(i, "recheck") /\ asleep' = asleep \ {i} /\ UNCHANGED got
  /\ UNCHANGED <<slotVars, mailVars, stopping, logVars, faults>>

Recheck(i) ==
  /\ pc[i] = "recheck"
  /\ IF st = "Active" /\ cur = got[i].rid
     THEN /\ Goto(i, "ok")
          /\ IF holder # 0 THEN Push(Command("deadline", i)) ELSE UNCHANGED queue
     ELSE Goto(i, "ensure") /\ UNCHANGED queue
  /\ Forget(i)
  /\ UNCHANGED <<slotVars, chan, holder, serving, asleep, stopping, logVars, faults>>

-----------------------------------------------------------------------------
(* Recovery *)

\* recover_state fails: the slot is of no use until the next start.
RecoverFails(p) ==
  /\ pc[p] = "recover"
  /\ MayFault
  /\ IF st = "Recovering" THEN st' = "Unavailable" /\ Notify ELSE UNCHANGED <<st, asleep>>
  /\ Goto(p, IF p = Rebuild THEN "off" ELSE IF p = Discovery THEN "ok" ELSE "err")
  /\ UNCHANGED <<cur, next, runner, completed, seen, mailVars, got, stopping, logVars>>

\* A request recovered the session; diagnostics are recorded as a fault.
Recover(p) ==
  /\ p \in Senders /\ pc[p] = "recover" /\ st = "Recovering"
  /\ \E initial \in {<<>>, <<Fault(1, "diagnostic")>>} : Activate(initial)
  /\ Goto(p, "dispatch")
  /\ UNCHANGED <<got, stopping, logVars, faults>>

\* check_discovered: the startup scan claims a slot nobody asked for.
Discover ==
  /\ pc[Discovery] = "start"
  /\ IF ~stopping /\ st = "Unchecked"
     THEN st' = "Recovering" /\ Goto(Discovery, "recover")
     ELSE Goto(Discovery, "ok") /\ UNCHANGED st
  /\ UNCHANGED <<cur, next, runner, completed, seen, mailVars, got, asleep, stopping, logVars, faults>>

\* A history that ends in TurnFinished(Finished), or whose state requires no
\* runner, leaves the slot idle; otherwise a runner goes on with it.
Discovered ==
  /\ pc[Discovery] = "recover" /\ st = "Recovering"
  /\ \/ /\ ended \/ ~work
        /\ st' = "Idle" /\ Notify
        /\ UNCHANGED <<cur, next, runner, completed, seen, mailVars>>
     \/ /\ ~ended /\ work
        /\ Activate(<<>>)
     \/ Activate(<<Fault(1, "diagnostic")>>)
  /\ Goto(Discovery, "ok")
  /\ UNCHANGED <<got, stopping, logVars, faults>>

\* rebuild_after_failure: the new runner first records the fault, and opens
\* the circuit when the same one has come FaultLimit times in a row.
RebuildRunner ==
  /\ pc[Rebuild] = "recover" /\ st = "Recovering"
  /\ Activate(<<Fault(IF streak.cause = failure THEN streak.count + 1 ELSE 1, failure)>>)
  /\ failure' = None
  /\ Goto(Rebuild, "off")
  /\ UNCHANGED <<got, stopping, work, ended, streak, live, asked, inputs, detached, faults>>

-----------------------------------------------------------------------------
(* The runner's task *)

\* Leave SessionRunner::run; all but an idle exit drop the mailbox.
Exit(r, how) ==
  /\ runner' = [runner EXCEPT ![r] = how]
  /\ UNCHANGED <<st, cur, next, completed, seen>>

\* The next command, while draining the mailbox or beside other work.
Takes(r, kind) ==
  /\ runner[r] \in {"drain", "busy"} /\ holder = r
  /\ queue # <<>> /\ Head(queue).kind = kind

\* What the log tells of an earlier input of the request: at its position in its
\* stream, or else by the receipt of the last input, which any later one replaces.
Earlier(k, c) == asked[inputs[k]].id = asked[c].id /\ asked[c].id # None
Placed(c) ==
  {k \in DOMAIN inputs : Earlier(k, c) /\ asked[inputs[k]].positioned /\ asked[c].positioned}
Receipt(c) == {k \in DOMAIN inputs : Earlier(k, c) /\ k = Len(inputs)}
\* Mutant of Known: the receipt is not looked up.
KnownByPlace(c) == Placed(c)
Known(c) == IF Placed(c) # {} THEN Placed(c) ELSE Receipt(c)
Same(k, c) == asked[inputs[k]].content = asked[c].content

\* The batches the runner appends: what they leave in the log.
AppendInput(c) ==
  inputs' = Append(inputs, c) /\ work' = TRUE /\ ended' = FALSE /\ UNCHANGED streak
AppendFault(f) ==
  /\ streak' = [cause |-> f.cause, count |-> f.count, steps |-> 0]
  /\ work' = TRUE /\ ended' = FALSE /\ UNCHANGED inputs
\* The second completed step after a fault ends the streak.
Calmer(s) == IF s = Calm \/ s.steps + 1 >= 2 THEN Calm ELSE [s EXCEPT !.steps = @ + 1]
AppendStep ==
  /\ streak' = Calmer(streak)
  /\ \/ ended' = FALSE /\ UNCHANGED work
     \/ ended' = TRUE /\ work' = (live # 0)
  /\ UNCHANGED inputs

\* Mutant of HandleInput: the sender is answered, the input not appended.
ConfirmInput(r) ==
  /\ Takes(r, "input")
  /\ Goto(Head(queue).from, "ok")
  /\ queue' = Tail(queue)
  /\ UNCHANGED <<slotVars, chan, holder, serving, got, asleep, stopping, logVars, faults>>

\* handle_command: an input the log has is answered from it; another is durable
\* before it is confirmed.
HandleInput(r) ==
  /\ Takes(r, "input")
  /\ LET c == Head(queue).from IN
     \/ /\ Known(c) # {}
        /\ Goto(c, IF \E k \in Known(c) : Same(k, c) THEN "ok" ELSE "err")
        /\ UNCHANGED <<inputs, work, ended, streak>>
     \/ Known(c) = {} /\ AppendInput(c) /\ Goto(c, "ok")
  /\ queue' = Tail(queue)
  /\ Exit(r, "drain")
  /\ UNCHANGED <<chan, holder, serving, got, asleep, stopping, failure, live, asked, detached,
                 faults>>

\* A deadline wake only makes the runner look at its state again.
HandleDeadline(r) ==
  /\ Takes(r, "deadline")
  /\ queue' = Tail(queue)
  /\ runner' = [runner EXCEPT ![r] = "drain"]
  /\ UNCHANGED <<st, cur, next, completed, seen, chan, holder, serving, taskVars, logVars, faults>>

HandleFault(r) ==
  /\ Takes(r, "fault")
  /\ LET f == Head(queue) IN
     /\ AppendFault(f)
     /\ IF f.cause \in Causes /\ f.count >= FaultLimit
        THEN DropReceiver /\ Exit(r, "circuit")
        ELSE /\ queue' = Tail(queue)
             /\ Exit(r, "drain")
             /\ UNCHANGED <<chan, holder, pc>>
  /\ UNCHANGED <<serving, got, asleep, stopping, failure, live, asked, detached, faults>>

\* Stop: cancel the session's tools and wait for them before answering.
HandleStop(r) ==
  /\ Takes(r, "stop")
  /\ serving' = Head(queue).from
  /\ queue' = Tail(queue)
  /\ Exit(r, "stopping")
  /\ UNCHANGED <<chan, holder, taskVars, logVars, faults>>

Stopped(r) ==
  /\ runner[r] = "stopping" /\ live = 0
  /\ Exit(r, "stopped")
  /\ chan' = 0 /\ holder' = 0 /\ queue' = <<>> /\ serving' = None
  /\ Answer(Queued \cup {serving})
  /\ UNCHANGED <<got, asleep, stopping, logVars, faults>>

\* The mailbox was found empty; then the state decides.
Drained(r) ==
  /\ runner[r] = "drain" /\ queue = <<>>
  /\ Exit(r, "decide")
  /\ UNCHANGED <<mailVars, taskVars, logVars, faults>>

Decide(r) ==
  /\ runner[r] = "decide"
  /\ Exit(r, IF work THEN "busy" ELSE "idle")
  /\ UNCHANGED <<mailVars, taskVars, logVars, faults>>

\* A step with a tool starts it once the step is durable.
CompleteStep(r) ==
  /\ runner[r] = "busy"
  /\ AppendStep
  /\ UNCHANGED live \/ (live = 0 /\ live' = r /\ ~ended')
  /\ Exit(r, "drain")
  /\ UNCHANGED <<mailVars, taskVars, failure, asked, detached, faults>>

\* The tool ends, and leaves the executor's table after its result was sent.
ToolEnds ==
  /\ live # 0
  /\ live' = 0
  /\ ended' = (ended /\ runner[live] \notin Running)
  /\ UNCHANGED <<slotVars, mailVars, taskVars, work, streak, failure, asked, inputs, detached, faults>>

\* A store error or a panic ends the runner; its tools run on.  The append that
\* failed may have reached the log all the same (a failed sync or blocking task, an
\* event that does not fold), and whoever waits for it is told of an error.
Fail(r) ==
  /\ runner[r] \in {"drain", "decide", "busy"}
  /\ MayFault
  /\ Exit(r, "failed")
  /\ failure' \in Causes
  /\ DropReceiver
  /\ \/ UNCHANGED <<inputs, work, ended, streak>>
     \/ Takes(r, "input") /\ Known(Head(queue).from) = {} /\ AppendInput(Head(queue).from)
     \/ Takes(r, "fault") /\ AppendFault(Head(queue))
     \/ runner[r] = "busy" /\ AppendStep
  /\ UNCHANGED <<serving, got, asleep, stopping, live, asked, detached>>

-----------------------------------------------------------------------------
(* runner_exited *)

\* The shutdown flag is read first, outside the status lock.
ReadStopping(r) ==
  /\ runner[r] \in Exits /\ seen[r] = "unread"
  /\ seen' = [seen EXCEPT ![r] = IF stopping THEN "stopping" ELSE "going"]
  /\ UNCHANGED <<st, cur, next, runner, completed, mailVars, taskVars, logVars, faults>>

IsCurrent(r) == st = "Active" /\ cur = r
SettleExit(r) == seen' = [seen EXCEPT ![r] = "unread"]

\* Nothing to do, or the supervisor stops: the mailbox goes with the runner.
ExitIgnored(r) ==
  /\ runner[r] \in Exits /\ seen[r] # "unread"
  /\ ~IsCurrent(r) \/ seen[r] = "stopping"
  /\ IF IsCurrent(r) THEN st' = "Idle" /\ cur' = 0 /\ Notify ELSE UNCHANGED <<st, cur, asleep>>
  /\ runner' = [runner EXCEPT ![r] = "reported"]
  /\ IF holder = r THEN DropReceiver ELSE UNCHANGED <<chan, holder, queue, pc>>
  /\ SettleExit(r)
  /\ UNCHANGED <<next, completed, serving, got, stopping, logVars, faults>>

\* An idle runner whose mailbox filled up meanwhile gets a successor.
ExitIdle(r) ==
  /\ runner[r] = "idle" /\ IsCurrent(r) /\ seen[r] = "going"
  /\ IF queue = <<>>
     THEN /\ st' = "Idle" /\ cur' = 0 /\ chan' = 0 /\ holder' = 0
          /\ runner' = [runner EXCEPT ![r] = "reported"]
          /\ UNCHANGED next
     ELSE /\ next < MaxRunners
          /\ next' = next + 1 /\ cur' = next + 1 /\ holder' = next + 1
          /\ runner' = [runner EXCEPT ![r] = "reported", ![next + 1] = "drain"]
          /\ UNCHANGED <<st, chan>>
  /\ SettleExit(r) /\ Notify
  /\ UNCHANGED <<completed, queue, serving, pc, got, stopping, logVars, faults>>

\* Stopped, the circuit opened, or a failed runner to be rebuilt.
ExitEnded(r) ==
  /\ runner[r] \in {"stopped", "circuit", "failed"} /\ IsCurrent(r) /\ seen[r] = "going"
  /\ st' = CASE runner[r] = "stopped" -> "Idle"
             [] runner[r] = "circuit" -> "CircuitOpen"
             [] runner[r] = "failed"  -> "Recovering"
  /\ cur' = 0
  /\ pc' = IF runner[r] = "failed" THEN [pc EXCEPT ![Rebuild] = "recover"] ELSE pc
  /\ runner' = [runner EXCEPT ![r] = "reported"]
  /\ SettleExit(r) /\ Notify
  /\ UNCHANGED <<next, completed, mailVars, got, stopping, logVars, faults>>

\* complete_runner: fetch_max of the completed id.
Complete(r) ==
  /\ runner[r] = "reported"
  /\ runner' = [runner EXCEPT ![r] = "done"]
  /\ completed' = IF r > completed THEN r ELSE completed
  /\ UNCHANGED <<st, cur, next, seen, mailVars, taskVars, logVars, faults>>

-----------------------------------------------------------------------------
(* delete and shutdown *)

\* delete_owned: from here on the slot refuses work.
BeginDelete(d) ==
  /\ pc[d] \in {"start", "begin"}
  /\ IF stopping \/ st \in {"Deleting", "Deleted"}
     THEN Goto(d, "err") /\ UNCHANGED <<st, cur, got, asleep>>
     ELSE IF st = "Recovering"
     THEN Goto(d, "wait") /\ Register(d) /\ UNCHANGED <<st, cur, got>>
     ELSE /\ Goto(d, IF st = "Active" THEN "stop" ELSE "tools")
          /\ Read(d)
          /\ st' = "Deleting" /\ cur' = 0
          /\ Notify
  /\ UNCHANGED <<next, runner, completed, seen, mailVars, stopping, logVars, faults>>

\* Send Stop, waiting for room; a closed mailbox needs none.
SendStop(p) ==
  /\ pc[p] = "stop"
  /\ IF Closed(p) THEN Goto(p, "join") /\ UNCHANGED queue
     ELSE HasRoom /\ Push(Command("stop", p)) /\ Goto(p, "stopwait")
  /\ UNCHANGED <<slotVars, chan, holder, serving, got, asleep, stopping, logVars, faults>>

\* wait_for_runner
Join(p) ==
  /\ pc[p] = "join" /\ completed >= got[p].rid
  /\ Goto(p, IF p \in Shutdowns THEN "ok" ELSE "tools") /\ Forget(p)
  /\ UNCHANGED <<slotVars, mailVars, asleep, stopping, logVars, faults>>

\* Mutant of CancelTools: the tools are cancelled and not waited for.
CancelToolsOnly(p) ==
  /\ pc[p] = "tools"
  /\ Goto(p, IF p \in Shutdowns THEN "ok" ELSE "detach")
  /\ UNCHANGED <<slotVars, mailVars, got, asleep, stopping, logVars, faults>>

\* cancel_session_and_wait
CancelTools(p) ==
  /\ pc[p] = "tools" /\ live = 0
  /\ Goto(p, IF p \in Shutdowns THEN "ok" ELSE "detach")
  /\ UNCHANGED <<slotVars, mailVars, got, asleep, stopping, logVars, faults>>

\* The directory is moved away; if it was not, the session is idle again.
Detach(d) ==
  /\ pc[d] = "detach"
  /\ \/ st' = "Deleted" /\ detached' = TRUE /\ Goto(d, "ok") /\ UNCHANGED faults
     \/ st' = "Deleted" /\ detached' = TRUE /\ Goto(d, "err") /\ MayFault
     \/ st' = "Idle" /\ UNCHANGED detached /\ Goto(d, "err") /\ MayFault
  /\ Notify
  /\ UNCHANGED <<cur, next, runner, completed, seen, mailVars, got, stopping,
                 work, ended, streak, failure, live, asked, inputs>>

BeginShutdown(p) ==
  /\ pc[p] = "start"
  /\ stopping' = TRUE
  /\ Goto(p, "discovery")
  /\ UNCHANGED <<slotVars, mailVars, got, asleep, logVars, faults>>

AwaitDiscovery(p) ==
  /\ pc[p] = "discovery" /\ pc[Discovery] = "ok"
  /\ Goto(p, "slot")
  /\ UNCHANGED <<slotVars, mailVars, got, asleep, stopping, logVars, faults>>

\* Stop the runner, or cancel the tools of a slot that has none.
StopSlot(p) ==
  /\ pc[p] = "slot"
  /\ Goto(p, IF st \in {"Recovering", "Deleting"} THEN "wait"
                    ELSE IF st = "Active" THEN "stop" ELSE "tools")
  /\ IF st \in {"Recovering", "Deleting"} THEN Register(p) ELSE UNCHANGED asleep
  /\ Read(p)
  /\ UNCHANGED <<slotVars, mailVars, stopping, logVars, faults>>

-----------------------------------------------------------------------------

SendStep(p) ==
  \/ Claim(p) \/ Proceed(p) \/ Refuse(p) \/ AwaitChange(p) \/ Woken(p) \/ Retry(p) \/ Recover(p)
  \/ p \in Clients /\ Dispatch(p)
  \/ p \in Internals /\ (Grab(p) \/ Reserve(p) \/ Recheck(p))

RunnerStep(r) ==
  \/ HandleInput(r) \/ HandleDeadline(r) \/ HandleFault(r) \/ HandleStop(r)
  \/ Stopped(r) \/ Drained(r) \/ Decide(r) \/ CompleteStep(r)

ExitStep(r) == ReadStopping(r) \/ ExitIgnored(r) \/ ExitIdle(r) \/ ExitEnded(r) \/ Complete(r)

StopStep(p) ==
  \/ Woken(p) \/ SendStop(p) \/ Join(p) \/ CancelTools(p)
  \/ p \in Deleters /\ (Detach(p) \/ (pc[p] = "begin" /\ BeginDelete(p)))
  \/ p \in Shutdowns /\ (AwaitDiscovery(p) \/ StopSlot(p))

\* A tool is known to end once it is cancelled.
CancelledToolEnds ==
  /\ \/ \E p \in Stoppers : pc[p] = "tools"
     \/ \E r \in RunnerIds : runner[r] = "stopping"
  /\ ToolEnds

Next ==
  \/ \E p \in Senders : Submit(p) \/ SendStep(p)
  \/ \E r \in RunnerIds : RunnerStep(r) \/ ExitStep(r) \/ Fail(r)
  \/ \E p \in Stoppers : StopStep(p)
  \/ \E d \in Deleters : BeginDelete(d)
  \/ \E p \in Shutdowns : BeginShutdown(p)
  \/ \E p \in Procs : RecoverFails(p)
  \/ Discover \/ Discovered \/ RebuildRunner \/ ToolEnds

\* The scheduler runs every task that can go on; nobody has to send, delete
\* or shut down, and nothing has to fail.
Fairness ==
  /\ \A p \in Senders : WF_vars(SendStep(p))
  /\ \A r \in RunnerIds : WF_vars(RunnerStep(r)) /\ WF_vars(ExitStep(r))
  /\ \A p \in Stoppers : WF_vars(StopStep(p))
  /\ WF_vars(Discover \/ Discovered) /\ WF_vars(RebuildRunner) /\ WF_vars(CancelledToolEnds)

Spec == Init /\ [][Next]_vars
FairSpec == Spec /\ Fairness

-----------------------------------------------------------------------------
(* Properties *)

\* Every variable stays in the set of values its code counterpart can hold.
Commands ==
  [kind : {"input"}, from : Clients, count : {0}, cause : {None}]
    \cup [kind : {"deadline"}, from : Internals, count : {0}, cause : {None}]
    \cup [kind : {"stop"}, from : Stoppers, count : {0}, cause : {None}]
    \cup [kind : {"fault"}, from : {None}, count : Nat, cause : Causes \cup {None, "diagnostic"}]
Places == {"off", "start", "ensure", "recover", "dispatch", "wait", "sent", "reserve", "recheck",
           "ok", "err", "begin", "stop", "stopwait", "join", "tools", "detach", "discovery", "slot"}
Streaks == [cause : Causes \cup {None, "diagnostic"}, count : Nat, steps : Nat]
SlotTypes ==
  /\ st \in Statuses
  /\ cur \in 0 .. MaxRunners /\ next \in 0 .. MaxRunners /\ completed \in 0 .. MaxRunners
  /\ runner \in [RunnerIds -> {"none", "reported", "done"} \cup Running \cup Exits]
  /\ seen \in [RunnerIds -> {"unread", "going", "stopping"}]
MailTypes ==
  /\ chan \in 0 .. MaxRunners /\ holder \in 0 .. MaxRunners
  /\ queue \in Seq(Commands)
  /\ serving \in Stoppers \cup {None}
TaskTypes ==
  /\ pc \in [Procs -> Places]
  /\ got \in [Procs -> [rid : 0 .. MaxRunners, chan : 0 .. MaxRunners]]
  /\ asleep \subseteq Procs
  /\ stopping \in BOOLEAN
LogTypes ==
  /\ work \in BOOLEAN /\ ended \in BOOLEAN /\ detached \in BOOLEAN
  /\ streak \in Streaks
  /\ failure \in Causes \cup {None}
  /\ live \in 0 .. MaxRunners
  /\ asked \in [Clients -> Inputs]
  /\ inputs \in Seq(Clients)
  /\ faults \in Nat
TypeOK == SlotTypes /\ MailTypes /\ TaskTypes /\ LogTypes

\* SUPERVISOR-01, STARTUP-02: a session has one writer.  At most one runner is
\* between its start and its exit, at most one task recovers the session, and
\* never both.
Alive == {r \in RunnerIds : runner[r] \in Running}
Recovering == {p \in Procs : pc[p] = "recover"}
SingleWriter ==
  /\ \A r, s \in Alive : r = s
  /\ \A p, q \in Recovering : p = q
  /\ Alive = {} \/ Recovering = {}

\* DELETE-01: once the directory is moved away no runner and no tool of the
\* session is left that could write to it.
DetachedIsQuiet == detached => Alive = {} /\ Recovering = {} /\ live = 0 /\ holder = 0

\* SUPERVISOR-03: an input is made durable at most once however often its
\* command was dispatched, and when its sender is told that it was, it was: by
\* this command or by an earlier one of the request.  A sender that hears of an
\* error knows nothing.
ConfirmedOnce ==
  /\ \A k, l \in DOMAIN inputs : inputs[k] = inputs[l] => k = l
  /\ \A c \in Clients : pc[c] = "ok" =>
       \E k \in DOMAIN inputs : inputs[k] = c \/ (Earlier(k, c) /\ Same(k, c))

\* A request sent again is not taken for a new one, though the answer to the
\* first was an error and the runner that took it has failed: never while its
\* input is the last, and never at all at a position in a stream.
RetriesAreKnown ==
  \A k, l \in DOMAIN inputs : k < l /\ Earlier(k, inputs[l]) =>
    /\ k + 1 < l
    /\ ~(asked[inputs[k]].positioned /\ asked[inputs[l]].positioned)

\* EMBED-02: after shutdown no runner of the session is left.
ShutdownStopsRunners ==
  \A p \in Shutdowns : pc[p] = "ok" => Alive = {} /\ st # "Recovering"

\* SUPERVISOR-03: whoever started is answered, however the slot
\* changed under it, unless the bound on runners keeps one from starting.
OutOfRunners ==
  next = MaxRunners /\ (st = "Recovering" \/ \E r \in RunnerIds : runner[r] = "idle" /\ queue # <<>>)
EveryoneAnswered ==
  \A p \in Senders \cup Stoppers :
    pc[p] # "start" ~> pc[p] \in {"ok", "err"} \/ OutOfRunners

-----------------------------------------------------------------------------
(* Why the safety properties hold: an inductive invariant, in named parts  *)

Over == {"none", "reported", "done"}

\* Runners follow one another: all but the last spawned are over.
RunnersInTurn ==
  /\ \A r \in RunnerIds : r > next => runner[r] = "none"
  /\ \A r \in RunnerIds : r # next => runner[r] \in Over
  /\ completed \in RunnerIds => runner[completed] = "done"

\* The status tells whether the last runner is over.
StatusTellsRunner ==
  /\ st = "Active" => next \in RunnerIds /\ cur = next /\ runner[next] \notin Over
  /\ st \notin {"Active", "Deleting"} => \A r \in RunnerIds : runner[r] \in Over
  /\ holder # 0 => holder \in RunnerIds /\ runner[holder] \in Running \cup {"idle"}

\* Recovering belongs to the one task that claimed it.
RecoveryClaimed ==
  /\ \A p \in Procs : pc[p] = "recover" => st = "Recovering"
  /\ \A p, q \in Recovering : p = q

\* Deleting belongs to one deletion; it joins the last runner before it goes
\* on, and finds no tool when it moves the directory.
Deletes(d) == pc[d] \in {"stop", "stopwait", "join", "tools", "detach"}
DeletionHeld ==
  /\ \A d \in Deleters : Deletes(d) => st = "Deleting"
  /\ \A d, e \in Deleters : Deletes(d) /\ Deletes(e) => d = e
  /\ \A d \in Deleters : pc[d] \in {"stop", "stopwait", "join"} => got[d].rid = next /\ next > 0
  /\ \A d \in Deleters : pc[d] \in {"tools", "detach"} => \A r \in RunnerIds : runner[r] \in Over
  /\ \A d \in Deleters : pc[d] = "detach" => live = 0
  /\ detached => st = "Deleted"
  /\ st = "Deleted" => live = 0

\* Whoever has a command in the mailbox, or being served, waits for it.
AnswersOwed ==
  /\ \A p \in Queued \cap Stoppers : pc[p] = "stopwait"
  /\ serving # None => pc[serving] = "stopwait" /\ next \in RunnerIds /\ runner[next] = "stopping"

SlotInvariant ==
  RunnersInTurn /\ StatusTellsRunner /\ RecoveryClaimed /\ DeletionHeld /\ AnswersOwed

=============================================================================
