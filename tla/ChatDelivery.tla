--------------------------- MODULE ChatDelivery ---------------------------
(***************************************************************************)
(* Chat notices between stations, from a preference command to the input   *)
(* of an agent: the publisher's chat tables (station/src/db/chats.rs), the *)
(* command plane that changes them exactly once over a network that loses  *)
(* replies (channels/api.rs), the feed that carries notice pages           *)
(* (zork-mesh/src/feed.rs, zork-notify/src/stream.rs), the receiving       *)
(* station's mailbox and cursor (db/chats/messages.rs), the workers that   *)
(* deliver it (channels/delivery.rs) and the session that remembers the    *)
(* last position it took (agent/src/session/runner.rs).                    *)
(*                                                                         *)
(* One chat, one receiving agent, whose station is the publisher itself    *)
(* ("local") or another one ("remote").  A notice is named by its          *)
(* sequence, which orders all notices for the station; a preference is the *)
(* subscription and its revision, the `generation` of the notices made     *)
(* under it; filters and delivery modes decide nothing here.               *)
(***************************************************************************)
EXTENDS Integers, Sequences, FiniteSets, SequencesExt

CONSTANTS
    Commands,     \* bound: invocations of the agent, numbered as they come
    MaxMessages,  \* bound: messages posted
    MaxFaults,    \* bound: crashes, lost connections, failed attempts and writes
    PageLimit,    \* notices in a page (32)
    FeedCap,      \* pages between the feed and its reader (8)
    None          \* no result, no policy, no start

Cmds == 1 .. Commands
Now == 0        \* the start of a preference change that replays nothing

Preferences == [subscribed : BOOLEAN, revision : Nat]
Policies == [generation : Nat, subscribed : BOOLEAN]
Requests == [subscribed : BOOLEAN, start : {None} \cup Nat]
Notices == [message : Nat, generation : Nat, active : BOOLEAN]

\* What a settled command tells its caller.
Cancelled == [status |-> "cancelled"]
Preferred(p) == [status |-> "preferred", prefs |-> p]
Results == {Cancelled} \cup [status : {"preferred"}, prefs : Preferences]

ASSUME ChatAssumption ==
    /\ {Commands, MaxMessages, MaxFaults} \subseteq Nat
    /\ {PageLimit, FeedCap} \subseteq Nat \ {0}
    /\ None \notin Results \cup Policies \cup Requests \cup Nat

VARIABLES
    place,     \* where the receiving agent runs
    posted,    \* visible messages of the chat
    prefs,     \* the agent's preference, at the publisher
    notices,   \* chat_notices: message, generation, active
    receipts,  \* chat_receipts at the publisher: result, cancelled
    effects,   \* ghost: how often a command was executed
    out,       \* chat_outgoing and its receipt, at the caller: operation, result
    policy,    \* chat_receiving_policy: generation, subscribed
    source,    \* chat_sources: registered, position
    mailbox,   \* chat_mailbox in insertion order: sequence, generation, delivered
    taken,     \* the agent's ordered inputs: sequences in order
    call,      \* the call in progress: pc, command, interrupt, answer
    wire,      \* requests under way
    signals,   \* of the source catalog and of the mailbox
    task,      \* the receiving task: pc, the page's end
    feed,      \* its connection: up, cursor, pages; and the resume request
    worker,    \* the agent's delivery worker: pc, index in the mailbox
    inbox,     \* ordered inputs in the runner's mailbox
    faults     \* faults so far

publisher == <<posted, prefs, notices, receipts, effects>>
caller == <<out, policy, call, wire>>
reading == <<task, feed>>
delivering == <<worker, inbox, taken>>
vars == <<place, publisher, caller, source, mailbox, signals, reading, delivering, faults>>

Places == {"local", "remote"}
NoFeed == [up |-> FALSE, cursor |-> 0, request |-> 0, pages |-> <<>>]
Off == [pc |-> "off", through |-> 0]
Idle == [pc |-> "idle", cmd |-> 0, interrupt |-> FALSE, answer |-> None]
Call(pc, c, interrupt) == [pc |-> pc, cmd |-> c, interrupt |-> interrupt, answer |-> None]
NoWorker == [pc |-> "none", job |-> 0]

Pending == {j \in DOMAIN mailbox : ~mailbox[j].delivered}

Told(status) == {c \in Cmds : out[c].result # None /\ out[c].result.status = status}

\* The changes an agent may ask for: a start after a message names one it has seen.
Ops == [subscribed : {FALSE}, start : {None}]
       \cup [subscribed : {TRUE}, start : {None, Now} \cup (1 .. posted)]

Init ==
    /\ place \in Places
    /\ posted = 0
    /\ prefs = [subscribed |-> FALSE, revision |-> 0]
    /\ notices = <<>>
    /\ receipts = [c \in Cmds |-> [result |-> None, cancelled |-> FALSE]]
    /\ effects = [c \in Cmds |-> 0]
    /\ out = [c \in Cmds |-> [op |-> None, result |-> None]]
    /\ policy = None
    /\ source = [registered |-> place = "local", position |-> 0]
    /\ mailbox = <<>>
    /\ taken = <<>>
    /\ call = Idle
    /\ wire = {}
    /\ signals = [sources |-> place = "local", mailbox |-> FALSE]
    /\ task = Off
    /\ feed = NoFeed
    /\ worker = NoWorker
    /\ inbox = <<>>
    /\ faults = 0

-----------------------------------------------------------------------------
(* The publisher's tables. *)

Notice(m, p) == [message |-> m, generation |-> p.revision, active |-> TRUE]

\* A change bumps the revision and revokes what was queued under the old one;
\* a start after a message queues all later ones again.
Changes(op) == op.subscribed # prefs.subscribed \/ op.start # None
NextPrefs(op) ==
    [subscribed |-> op.subscribed,
     revision |-> prefs.revision + (IF Changes(op) THEN 1 ELSE 0)]
Replayed(op) ==
    IF op.subscribed /\ op.start \in 1 .. posted
    THEN [i \in 1 .. (posted - op.start) |-> Notice(op.start + i, NextPrefs(op))]
    ELSE <<>>
Revoked(n) == [n EXCEPT !.active = FALSE]
UpdatePreferences(op) ==
    /\ prefs' = NextPrefs(op)
    /\ notices' = IF Changes(op)
                  THEN [k \in DOMAIN notices |-> Revoked(notices[k])] \o Replayed(op)
                  ELSE notices
    /\ UNCHANGED posted

\* A message, and its notice if the agent is subscribed, in one transaction.
Post ==
    /\ posted < MaxMessages
    /\ posted' = posted + 1
    /\ notices' = IF prefs.subscribed
                  THEN Append(notices, Notice(posted + 1, prefs)) ELSE notices
    /\ UNCHANGED <<place, prefs, receipts, effects, caller, source, mailbox, signals, reading,
                   delivering, faults>>

-----------------------------------------------------------------------------
(* The command plane. *)

Answer(c, answer) ==
    call' = IF call.pc = "sent" /\ call.cmd = c
            THEN [call EXCEPT !.pc = "answered", !.answer = answer] ELSE call

BarredNow(c, interrupt) == interrupt    \* mutant: an earlier interrupt is forgotten
Barred(c, interrupt) == interrupt \/ receipts[c].cancelled

\* The receipt is looked up, and written with the effect, under the command's
\* lock: a settled command answers again, a cancelled one never runs.
Execute(c, interrupt) ==
    /\ <<c, interrupt>> \in wire
    /\ wire' = wire \ {<<c, interrupt>>}
    /\ \/ /\ receipts[c].result # None
          /\ Answer(c, receipts[c].result)
          /\ UNCHANGED publisher
       \/ /\ receipts[c].result = None /\ Barred(c, interrupt)
          /\ receipts' = [receipts EXCEPT ![c].cancelled = TRUE]
          /\ Answer(c, Cancelled)
          /\ UNCHANGED <<posted, prefs, notices, effects>>
       \/ /\ receipts[c].result = None /\ ~Barred(c, interrupt)
          /\ UpdatePreferences(out[c].op)
          /\ receipts' = [receipts EXCEPT ![c].result = Preferred(NextPrefs(out[c].op))]
          /\ effects' = [effects EXCEPT ![c] = @ + 1]
          /\ Answer(c, Preferred(NextPrefs(out[c].op)))
    /\ UNCHANGED <<place, out, policy, source, mailbox, signals, reading, delivering, faults>>

\* A new invocation freezes its command before anything is sent.
Unused(c) == out[c].op = None /\ out[c].result = None
IsNew(c) == call = Idle /\ Unused(c) /\ \A d \in 1 .. (c - 1) : ~Unused(d)
Freeze(c) ==
    /\ IsNew(c)
    /\ \E op \in Ops : out' = [out EXCEPT ![c].op = op]
    /\ call' = Call("register", c, FALSE)
    /\ UNCHANGED <<place, publisher, policy, wire, source, mailbox, signals, reading,
                   delivering, faults>>

\* ... and one interrupted before that never happened.
Withdraw(c) ==
    /\ IsNew(c)
    /\ out' = [out EXCEPT ![c].result = Cancelled]
    /\ UNCHANGED <<place, publisher, policy, call, wire, source, mailbox, signals, reading,
                   delivering, faults>>

\* The same invocation again, to complete the frozen command or to cancel it.
Unsettled(c) == call = Idle /\ out[c].op # None /\ out[c].result = None
Retry(c) ==
    /\ Unsettled(c)
    /\ \E interrupt \in BOOLEAN : call' = Call("register", c, interrupt)
    /\ UNCHANGED <<place, publisher, out, policy, wire, source, mailbox, signals, reading,
                   delivering, faults>>

\* `chat.recover` sends it again, and does nothing else of the invocation.
Recover(c) ==
    /\ Unsettled(c)
    /\ call' = Call("send", c, FALSE)
    /\ UNCHANGED <<place, publisher, out, policy, wire, source, mailbox, signals, reading,
                   delivering, faults>>

\* A preference command makes its publisher a source to follow.
Register ==
    /\ call.pc = "register"
    /\ call' = [call EXCEPT !.pc = "send"]
    /\ source' = [source EXCEPT !.registered = TRUE]
    /\ signals' = [signals EXCEPT !.sources = @ \/ ~source.registered]
    /\ UNCHANGED <<place, publisher, out, policy, wire, mailbox, reading, delivering, faults>>

Send ==
    /\ call.pc = "send"
    /\ call' = [call EXCEPT !.pc = "sent"]
    /\ wire' = wire \cup {<<call.cmd, call.interrupt>>}
    /\ UNCHANGED <<place, publisher, out, policy, source, mailbox, signals, reading,
                   delivering, faults>>

\* No answer in time: the caller hears that delivery is unknown, and the request
\* may still run; one that is lost is one that never runs.
CallFails ==
    /\ place = "remote"
    /\ call.pc = "sent"
    /\ faults < MaxFaults
    /\ call' = Idle
    /\ faults' = faults + 1
    /\ UNCHANGED <<place, publisher, out, policy, wire, source, mailbox, signals, reading,
                   delivering>>

\* Only a newer generation replaces the policy of the receiving side.  The signal
\* of the change matters when there is mail.
Policy(p) == [generation |-> p.revision, subscribed |-> p.subscribed]
NewerAlways(p) == TRUE                  \* mutant: the last answer wins
Newer(p) == policy = None \/ p.revision > policy.generation
RecordPolicy ==
    /\ call.pc = "answered"
    /\ call' = [call EXCEPT !.pc = "settle"]
    /\ IF call.answer # Cancelled /\ Newer(call.answer.prefs)
       THEN /\ policy' = Policy(call.answer.prefs)
            /\ signals' = [signals EXCEPT !.mailbox = @ \/ Pending # {}]
       ELSE UNCHANGED <<policy, signals>>
    /\ UNCHANGED <<place, publisher, out, wire, source, mailbox, reading, delivering, faults>>

Settle ==
    /\ call.pc = "settle"
    /\ out' = [out EXCEPT ![call.cmd].result = call.answer]
    /\ call' = Idle
    /\ UNCHANGED <<place, publisher, policy, wire, source, mailbox, signals, reading,
                   delivering, faults>>

-----------------------------------------------------------------------------
(* The feed and its reader. *)

\* `start`: reads the catalog of sources at every signal, and starts what is
\* not running.
SourcesRead ==
    /\ signals.sources
    /\ signals' = [signals EXCEPT !.sources = FALSE]
    /\ IF source.registered /\ task.pc = "off"
       THEN /\ task' = [Off EXCEPT !.pc = "next"]
            /\ feed' = [up |-> TRUE, cursor |-> source.position,
                        request |-> source.position, pages |-> <<>>]
       ELSE UNCHANGED reading
    /\ UNCHANGED <<place, publisher, caller, source, mailbox, delivering, faults>>

\* Anything that changes the mesh signals the catalog.
MeshChanged ==
    /\ task.pc = "off" /\ source.registered /\ ~signals.sources
    /\ signals' = [signals EXCEPT !.sources = TRUE]
    /\ UNCHANGED <<place, publisher, caller, source, mailbox, reading, delivering, faults>>

FeedConnect ==
    /\ task.pc # "off" /\ ~feed.up
    /\ feed' = [feed EXCEPT !.up = TRUE, !.cursor = feed.request]
    /\ UNCHANGED <<place, publisher, caller, source, mailbox, signals, task, delivering, faults>>

\* The publisher reads a page after the position it has queued already.
PageEnd == IF feed.cursor + PageLimit < Len(notices)
           THEN feed.cursor + PageLimit ELSE Len(notices)
Page == [after |-> feed.cursor,
         items |-> [i \in 1 .. (PageEnd - feed.cursor) |-> notices[feed.cursor + i]]]
FeedRead ==
    /\ task.pc # "off" /\ feed.up
    /\ Len(feed.pages) < FeedCap
    /\ feed.cursor < Len(notices)
    /\ feed' = [feed EXCEPT !.cursor = PageEnd, !.pages = Append(@, Page)]
    /\ UNCHANGED <<place, publisher, caller, source, mailbox, signals, task, delivering, faults>>

Through(page) == page.after + Len(page.items)

\* At the publisher the preference itself decides; elsewhere what its last
\* settled command said, which a newer notice overrides.
AcceptsKnown(generation) ==              \* mutant: a newer generation must be known
    policy # None /\ policy.subscribed /\ generation = policy.generation
Accepts(generation) ==
    IF place = "local"
    THEN prefs.subscribed /\ prefs.revision = generation
    ELSE \/ policy = None
         \/ generation > policy.generation
         \/ policy.subscribed /\ generation = policy.generation

Wanted(page) ==
    {k \in (page.after + 1) .. Through(page) :
        /\ k > source.position
        /\ page.items[k - page.after].active
        /\ Accepts(page.items[k - page.after].generation)}
Mail(page, chosen) ==
    [i \in DOMAIN chosen |->
        [sequence |-> chosen[i], generation |-> page.items[chosen[i] - page.after].generation,
         delivered |-> FALSE]]
\* The elements of a set of numbers in their order.
InOrder(S) ==
    {s \in [1 .. Cardinality(S) -> S] : \A i, j \in 1 .. Cardinality(S) : i < j => s[i] < s[j]}

\* Mail and cursor in one transaction.
Accept ==
    /\ task.pc = "next" /\ feed.pages # <<>>
    /\ LET page == Head(feed.pages)
       IN  /\ \E chosen \in InOrder(Wanted(page)) : mailbox' = mailbox \o Mail(page, chosen)
           /\ source' = [source EXCEPT
                           !.position = IF Through(page) > @ THEN Through(page) ELSE @]
           /\ signals' = [signals EXCEPT !.mailbox = @ \/ Wanted(page) # {}]
           /\ task' = IF place = "local" THEN task
                      ELSE [pc |-> "resume", through |-> Through(page)]
           /\ feed' = [feed EXCEPT !.pages = Tail(@)]
    /\ UNCHANGED <<place, publisher, caller, delivering, faults>>

\* The committed cursor becomes the request of the next connection; a request
\* may not go back, and the task ends over one that would.
Resume ==
    /\ task.pc = "resume"
    /\ IF task.through >= feed.request
       THEN /\ feed' = [feed EXCEPT !.request = task.through]
            /\ task' = [Off EXCEPT !.pc = "next"]
       ELSE /\ feed' = NoFeed
            /\ task' = Off
    /\ UNCHANGED <<place, publisher, caller, source, mailbox, signals, delivering, faults>>

FeedBreaks ==
    /\ place = "remote" /\ feed.up
    /\ faults < MaxFaults
    /\ feed' = [feed EXCEPT !.up = FALSE]
    /\ faults' = faults + 1
    /\ UNCHANGED <<place, publisher, caller, source, mailbox, signals, task, delivering>>

\* The receiving database fails, or at the publisher itself a read does.
SourceFails ==
    /\ task.pc = "next" /\ feed.pages # <<>>
    /\ faults < MaxFaults
    /\ task' = Off
    /\ feed' = NoFeed
    /\ faults' = faults + 1
    /\ UNCHANGED <<place, publisher, caller, source, mailbox, signals, delivering>>

-----------------------------------------------------------------------------
(* From the mailbox to the agent's session. *)

Oldest == CHOOSE j \in Pending : \A i \in Pending : j <= i

\* The manager looks for agents with mail at every signal and whenever a worker
\* has ended.
JoinedNot == FALSE                       \* mutant: only new mail is looked for
Joined == worker.pc = "ended"
Dispatch ==
    /\ signals.mailbox \/ Joined
    /\ signals' = [signals EXCEPT !.mailbox = FALSE]
    /\ worker' = IF worker = NoWorker \/ Joined
                 THEN [NoWorker EXCEPT !.pc = IF Pending # {} THEN "read" ELSE "none"]
                 ELSE worker
    /\ UNCHANGED <<place, publisher, caller, source, mailbox, reading, inbox, taken, faults>>

\* A worker takes the oldest undelivered notice of the source, or ends.
WorkerReads ==
    /\ worker.pc = "read"
    /\ worker' = IF Pending = {} THEN [NoWorker EXCEPT !.pc = "ended"]
                 ELSE [pc |-> "check", job |-> Oldest]
    /\ UNCHANGED <<place, publisher, caller, source, mailbox, signals, reading, inbox, taken, faults>>

\* The preference is checked, the runtime made ready, the preference checked again.
JobAccepted == Accepts(mailbox[worker.job].generation)
WorkerChecks ==
    /\ worker.pc = "check"
    /\ worker' = [worker EXCEPT !.pc = IF JobAccepted THEN "ready" ELSE "finish"]
    /\ UNCHANGED <<place, publisher, caller, source, mailbox, signals, reading, inbox, taken, faults>>

StillAcceptedOnce == TRUE                \* mutant: the first check is enough
StillAccepted == JobAccepted
WorkerAppends ==
    /\ worker.pc = "ready"
    /\ IF StillAccepted
       THEN /\ worker' = [worker EXCEPT !.pc = "sent"]
            /\ inbox' = Append(inbox, mailbox[worker.job].sequence)
       ELSE /\ worker' = [worker EXCEPT !.pc = "finish"]
            /\ UNCHANGED inbox
    /\ UNCHANGED <<place, publisher, caller, source, mailbox, signals, reading,
                   taken, faults>>

\* The runner takes an input only after the last position it took of the source,
\* and answers the attempt that still waits.
FreshAlways(sequence) == TRUE            \* mutant: nothing remembers the position
Fresh(sequence) == taken = <<>> \/ sequence > Last(taken)
Takes ==
    /\ inbox # <<>>
    /\ inbox' = Tail(inbox)
    /\ taken' = IF Fresh(Head(inbox)) THEN Append(taken, Head(inbox)) ELSE taken
    /\ worker' = IF /\ worker.pc = "sent"
                    /\ Len(inbox) = 1
                 THEN [worker EXCEPT !.pc = "finish"] ELSE worker
    /\ UNCHANGED <<place, publisher, caller, source, mailbox, signals, reading, faults>>

WorkerFinishes ==
    /\ worker.pc = "finish"
    /\ mailbox' = [mailbox EXCEPT ![worker.job].delivered = TRUE]
    /\ worker' = [NoWorker EXCEPT !.pc = "read"]
    /\ UNCHANGED <<place, publisher, caller, source, signals, reading, inbox, taken,
                   faults>>

\* Fifteen seconds, no runtime, a full mailbox, a failed receipt: the attempt
\* ends, what it has sent does not.
WorkerFails ==
    /\ worker.pc \in {"check", "ready", "sent", "finish"}
    /\ faults < MaxFaults
    /\ worker' = [NoWorker EXCEPT !.pc = "retry"]
    /\ faults' = faults + 1
    /\ UNCHANGED <<place, publisher, caller, source, mailbox, signals, reading, inbox, taken>>

WorkerRetries ==
    /\ worker.pc = "retry"
    /\ worker' = [NoWorker EXCEPT !.pc = "read"]
    /\ UNCHANGED <<place, publisher, caller, source, mailbox, signals, reading, inbox, taken, faults>>

\* The receiving station stops and starts: calls, feed, workers and the runner
\* begin anew, and the first look at an empty catalog or mailbox is left out; a
\* local publisher stops with it.
Crash ==
    /\ faults < MaxFaults
    /\ faults' = faults + 1
    /\ call' = Idle
    /\ wire' = IF place = "local" THEN {} ELSE wire
    /\ signals' = [sources |-> source.registered, mailbox |-> Pending # {}]
    /\ task' = Off
    /\ feed' = NoFeed
    /\ worker' = NoWorker
    /\ inbox' = <<>>
    /\ UNCHANGED <<place, publisher, out, policy, source, mailbox, taken>>

-----------------------------------------------------------------------------
Command ==
    \/ \E c \in Cmds : \/ Freeze(c) \/ Withdraw(c) \/ Retry(c) \/ Recover(c)
                       \/ \E interrupt \in BOOLEAN : Execute(c, interrupt)
    \/ Register \/ Send \/ RecordPolicy \/ Settle

\* What runs by itself once there is something to do.
Delivery ==
    \/ SourcesRead \/ FeedConnect \/ FeedRead \/ Accept \/ Resume
    \/ Dispatch
    \/ WorkerReads \/ WorkerChecks \/ WorkerAppends \/ WorkerFinishes \/ WorkerRetries
    \/ Takes

Faulty == CallFails \/ FeedBreaks \/ SourceFails \/ WorkerFails \/ Crash

Next == Post \/ Command \/ Delivery \/ MeshChanged \/ Faulty

Spec == Init /\ [][Next]_vars

-----------------------------------------------------------------------------
(* Properties *)

\* The tables, the volatile state of the tasks and the ghosts have their shapes: in
\* particular no cursor passes the publisher's last notice, and a worker's job is a
\* row of the mailbox.
PublisherTyped ==
    /\ posted \in Nat
    /\ prefs \in Preferences
    /\ notices \in Seq(Notices)
    /\ receipts \in [Cmds -> [result : {None} \cup Results, cancelled : BOOLEAN]]
    /\ effects \in [Cmds -> Nat]
CallerTyped ==
    /\ out \in [Cmds -> [op : {None} \cup Requests, result : {None} \cup Results]]
    /\ policy \in {None} \cup Policies
    /\ call \in [pc : {"idle", "register", "send", "sent", "answered", "settle"},
                 cmd : {0} \cup Cmds, interrupt : BOOLEAN, answer : {None} \cup Results]
    /\ call.pc # "idle" => call.cmd \in Cmds
    /\ wire \subseteq Cmds \X BOOLEAN
ReaderTyped ==
    /\ source \in [registered : BOOLEAN, position : 0 .. Len(notices)]
    /\ signals \in [sources : BOOLEAN, mailbox : BOOLEAN]
    /\ task \in [pc : {"off", "next", "resume"}, through : 0 .. Len(notices)]
    /\ feed \in [up : BOOLEAN, cursor : 0 .. Len(notices), request : 0 .. Len(notices),
                 pages : Seq([after : Nat, items : Seq(Notices)])]
    /\ \A i \in DOMAIN feed.pages : Through(feed.pages[i]) <= Len(notices)
AgentTyped ==
    /\ mailbox \in Seq([sequence : 1 .. Len(notices), generation : Nat, delivered : BOOLEAN])
    /\ worker \in [pc : {"none", "read", "check", "ready", "sent", "finish", "retry", "ended"},
                   job : {0} \cup DOMAIN mailbox]
    /\ worker.pc \in {"check", "ready", "sent", "finish"} => worker.job # 0
    /\ inbox \in Seq(1 .. Len(notices))
    /\ taken \in Seq(1 .. Len(notices))
TypeOK ==
    /\ place \in Places
    /\ PublisherTyped
    /\ CallerTyped
    /\ ReaderTyped
    /\ AgentTyped
    /\ faults \in 0 .. MaxFaults

\* The agent takes the notices of a publisher in their order and each at most
\* once: an attempt whose answer was late or lost, a crash before the receipt, a
\* page sent again after a reconnect and a station restart repeat nothing.
TakenInOrder == \A i, j \in DOMAIN taken : i < j => taken[i] < taken[j]

\* The committed cursor passes over no notice that is still wanted: up to it each
\* one in force is in the mailbox, and what the mailbox calls delivered the agent
\* has, whatever answers to preference commands came late or twice; and the next
\* page the reader takes leaves no gap after the cursor.
InForce(k) == notices[k].active
CursorSkipsNothing ==
    /\ \A k \in DOMAIN notices :
          (k <= source.position /\ InForce(k)) => \E j \in DOMAIN mailbox : mailbox[j].sequence = k
    /\ \A j \in DOMAIN mailbox :
          (mailbox[j].delivered /\ InForce(mailbox[j].sequence))
              => mailbox[j].sequence \in ToSet(taken)
    /\ feed.pages # <<>> => Head(feed.pages).after <= source.position

\* Once an agent has the answer to a preference command, nothing of an older
\* generation is handed to its session, nor of that one if it unsubscribed.
Allowed(generation) ==
    \A c \in Told("preferred") :
        LET p == out[c].result.prefs
        IN  p.revision < generation \/ (p.revision = generation /\ p.subscribed)
RevokedStaysOut ==
    [][Len(inbox') > Len(inbox) => Allowed(notices[Last(inbox')].generation)]_vars

\* A command runs at most once however often it is sent, and its caller is told
\* the truth: a committed one has run, a cancelled one never has and never will.
ToldTheTruth ==
    \A c \in Cmds :
        /\ effects[c] <= 1
        /\ c \in Told("cancelled") => effects[c] = 0
        /\ c \in Told("preferred") => effects[c] = 1

\* When nothing of the delivery is left to do, every notice in force has reached
\* its agent, unless the receiving task has ended and no signal starts it again:
\* no wake-up is lost between the manager, the workers and the mailbox.  `AtRest`
\* is where no action of `Delivery` is enabled.
AtRest ==
    /\ ~signals.sources /\ ~signals.mailbox /\ ~Joined
    /\ \/ task.pc = "off"
       \/ task.pc = "next" /\ feed.up /\ feed.pages = <<>> /\ feed.cursor = Len(notices)
    /\ worker.pc \in {"none", "sent", "ended"} /\ inbox = <<>>
Unfollowed == task.pc = "off" /\ ~signals.sources
RestMeansDelivered ==
    AtRest => \A k \in DOMAIN notices : InForce(k) => k \in ToSet(taken) \/ Unfollowed
=============================================================================
