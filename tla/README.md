# A verification project for Zork

Zork is a local-first mesh of agents written in Rust. This directory holds TLA+ models of
its core, the TLC runs that check them, and TLAPS proofs about them. Paths below are
relative to the repository; `session/` is `crates/agent/src/session/`.

1. [The system](#the-system)
2. [What is modelled, and how](#what-is-modelled-and-how)
3. [Runs, bounds and fairness](#runs-bounds-and-fairness)
4. [What is proved](#what-is-proved)
5. [Disagreements found](#disagreements-found)
6. [What is not modelled](#what-is-not-modelled)
7. [Plan](#plan)

## The system

A *station* (`crates/station`) hosts conversations, tasks and artifacts in SQLite and embeds
the *agent runtime* (`crates/agent`). Clients (`crates/zork-client-core` and the user
interfaces above it) reach stations over HTTP or the mesh (`crates/zork-mesh`), keep a local
replica and an outbox, and survive being offline. The agent runtime is the part whose
contracts the repository numbers (`docs/zork-agent-architecture.md`); the project started
there, and goes on with what crosses the network: catalogs, chat notices, the messages of a
client, and tasks one station gives to another.

| Component | State it keeps | Operations | What makes it correct |
|---|---|---|---|
| session log (`store.rs`, `log.rs`, `query.rs`, `recovery.rs`, `compression.rs`) | segments of JSONL on disk, their compressed copies, last sequence per session | append a batch, append a snapshot and rotate, repair a torn tail, recover, compress, query | acknowledged batches survive; sequences order the history; a snapshot changes only the cost of recovery; compression and readers never lose a commit |
| supervisor (`supervisor.rs`, `service.rs`) | per session a slot: status, current runner, mailbox, completed runner, fault streak | create, submit, wake, discover at startup, rebuild after failure, open the circuit, delete, shut down | one writer per session; everyone is answered; deletion and shutdown leave nothing running |
| runner (`runner.rs`) and decision (`decision.rs`) | the folded `SessionState`, open channels | drain commands and results, decide, start and finish turns and steps, retry, transitions, cancel, park | a tool running is never given up; a turn ends when it should and rests when it failed; nothing unread is lost |
| state fold (`state.rs`, `events.rs`) | the fold of the events | one fold per event | the transcript sent is legal and its prefix stable; a transition loses only the document |
| executor (`executor.rs`, `tools.rs`) | table of live calls with their cancel signals | dispatch, end, cancel one, cancel a session and wait | every dispatched call settles; a result is queued before the call leaves the table |
| context (`context.rs`, `projection.rs`) | none of its own | what a transition keeps; the transcript of a request | no response is split from its answers |
| deadline scheduler (`deadline.rs`) | a heap of deadlines | arm, fire | a deadline wakes its session, at rest or not |
| compressor (`compression.rs`) | candidates, a retry delay | scan, compress, wait | every sealed segment is compressed in the end |
| provider adapters (`crates/agent/src/provider`) | continuations | complete a request | wire formats |
| station export (`station/src/db/sync.rs`) | entities with revisions, epoch, floor, exported batches | pull, compact, reset, command with receipt | a page belongs to one frozen cut; a reader behind the floor starts over |
| client replica (`zork-client-core/src/sync.rs`, `store/replica.rs`) | staged pages, published entities, cursor, binding generation | refresh, apply a page, publish, discard, revoke | publication is atomic; the replica converges; a deletion is never missed or undone |
| client outbox and conversation (`zork-client-core/src/delivery.rs`, `store.rs`, `store/messages.rs`, `live.rs`) | rows with attempted and error marks; one range of delivered messages with a cursor before it | enqueue, attempt, acknowledge, fail, withdraw, retry; live events, refresh, load older | an explicit send is attempted once and never lost; the history kept has no gap |
| chat channels (`station/src/channels/*`, `db/chats/*`) | preferences, notices, receipts; at the receiver a policy, sources with a position, a mailbox | preference commands with frozen copies, withdrawal and recovery; publish, receive, deliver to the agent | a command runs once and its caller is told the truth; a notice is taken once, in order; nothing revoked is handed over |
| delegated tasks (`station/src/mesh.rs`, `db/mesh.rs`) | a row per assignment at each station, rework requests, the executor's journal | delegate, stop, decide, rework; prepare, dispatch, capture, publish, import, recover | the goal is given once, a Worker's unless a rework comes between; a stop holds; the owner's records are the executor's journal |
| station delivery (`station/src/delivery.rs`) | bindings, inbound status | handle inbound, reset, delete | a message reaches the agent once |
| feeds and subscriptions (`zork-mesh/src/feed.rs`, `zork-notify/src/stream.rs`, `zork-observe/src/source.rs`) | committed cursor, journal, prepared batch | follow, read a page, commit, prepare, acknowledge, replace | no change is missed; a cursor never passes what was not applied |
| account pool (`profile/src/pool.rs`) | in-flight count and cooldown per profile | acquire, reserve, release, reject | the count equals the leases held |

How they interact: a request reaches the supervisor, which claims the slot, recovers the
session from its log if no runner exists and puts a command into the runner's bounded
mailbox. The runner is the log's only writer: every decision it takes is an event appended
and synced before it takes effect, and its state is the fold of those events. It dispatches
tools to the executor, which sends results back on a second bounded channel and holds the
call in its table until the result is queued. It arms deadlines with the scheduler, which
later asks the supervisor to wake the session. The compressor works on the same files the
runner appends to and queries read.

Between stations and clients everything is a request that may be lost on either way, or a
subscription that starts again from a committed cursor. A client pulls a station's catalog
in pages and publishes a batch when it is whole; it posts messages from its outbox and reads
them back from a live connection and from pages of the history. A station's agents
subscribe to chats by commands that are frozen before they are sent, and their notices come
through a feed into a mailbox from which workers hand them to sessions. A task is delegated
by a durable row at each end: the owner's worker asks until it is answered, the executor
journals what the agent does, and the owner imports the journal.

Hard behaviours: power lost between write, sync, rename and directory sync; a failed append
whose bytes are on disk; a runner that fails with tools running; an exit handled after its
successor started; requests, discovery, rebuild, deletion and shutdown reaching for one
slot; a full mailbox; results that arrive between a snapshot and a decision; a context
transition that overlaps failures, cancellation and late results; an answer lost after the
other side has acted, and a request carried out after its sender gave up; a page read twice;
a restored database; a stop that crosses a preparation. `PROJECT.json` lists them
under `hazards`, each at its line.

## What is modelled, and how

### `SessionLog` and its contract `CommitLog`

`SessionLog` is one session's directory, its writer and the compressor. A file is named
after the sequence of its first event, so `plain` and `zst` map that number to lines; a line
has its sequence, its place in its batch, and (not in the code) the identity of its batch,
so that a sequence reused after a crash is seen. `synced`, `torn` and `dirlog` say what a
loss of power may take: unsynced lines survive as a prefix, perhaps with a torn end, and
directory operations since the last directory sync are undone from some point on. The writer
goes through the calls of `StreamStore::append` (`OpenAppend` with its torn-tail repair,
`WriteBatch`, `SyncBatch`, each of which may fail); `Recover` is the supervisor's
`recover_state`; `Scan`, `Begin`, `Rename`, `SyncLink`, `RemoveSource`, `SyncRemoval` and
`Park` are the steps of the compressor. `BatchAt`, `Commits` and `Recovered` are the readers:
which lines form a commit, and what recovery folds, newest segment first.

`CommitLog` is what a runner may rely on: one ordered history of batches, each whole or
absent; a confirmed batch keeps its place; a batch whose append was never confirmed is
uncertain, and nothing else is. `ImplementsCommitLog` maps the visible commits, the batch
being written and the acknowledged ones to it.

### `SessionSlots`

One slot of the supervisor, with every task that touches it: external requests
(`dispatch_external_owned`), deadline wakes (`send_internal_owned`, which reserves a place in
the mailbox), startup discovery, the exit handler, the rebuild after a failure, deletions and
a shutdown. An action is one critical section under the status lock or one step outside it; a
waiter registers with the slot's `Notify` before it takes the lock, and `asleep` holds those
not notified since. Mailboxes are tied to the runner they were made for (`chan`, `holder`).
The runner is reduced to what the slot can tell of it: it drains its mailbox, works, retires
with its mailbox in hand, fails, opens the circuit or is stopped. Durable facts the
supervisor reads are variables (`work`, `ended`, `streak`).

What a request submits is an element of `Inputs`: a request id or `None`, a content, and
whether it has a position in a stream; `inputs` are the durable ones in their order. The
runner recognises a request sent again by its position (`Placed`) or by the receipt of the
last input (`Receipt`), and answers it from the log. An append can fail before or after its
bytes are durable (a failed sync or blocking task, an event that does not fold): `Fail` leaves
or keeps what the batch brings (`AppendInput`, `AppendFault`, `AppendStep`), and the sender is
told of an error either way. Left out: the limit of 1024 streams, and the order of the
positions within one, which is `ChatDelivery`'s.

### `SessionTurn`

What happens inside a runner. `session` is the fold of the durable events, an operator per
event named after it (`StepStarted`, `StepFailed`, `ToolResult`, `ContextApplied`, ...), so
one append of several events is one action and a crash keeps it. `place` is the runner's
place in its loop: `top` (commands), `results` (snapshot taken, results drained), `park`,
`backoff`, `model` (a request under way), `cancelling`, `dispatch`, or `down`. `decide` is
the group `Decides`: its order of checks is the chain of guards `Stable`, `Going`,
`Batchless`, `Retrying` / `Calm`, `Ready`, `InTurn`, `Conversing`, each the negation of the
early returns before it. The executor's table is `live`; a tool ends by queueing its result
(`ToolEnds`) and leaves the table after (`ToolLeaves`), the order `TOOL-12` depends on.

Data are abstracted to what the properties tell apart. An entry of the generation has its
kind and the inputs or calls it is of; a result is good or bad; texts, usage and catalogs are
left out. Token budgets and clocks are the environment's choice: `PrepareContext` may happen
whenever there is an anchor, a deadline may have passed whenever the code would look. What a
compaction retains is any prefix that `retention_start` could return for some sizes. Four
ghost variables state the properties: `accepted`, `read` (answered by the model), `news` (a
fact since the last request) and `asked` (what the last request held).

A response may call `work`, `wait`, `end` and `end` with `acknowledge_outstanding`; a call may
also be rejected, though the instances use rejected calls only in invalid documents. Work a
tool declares as outstanding on its own (`tool_states`) is left out.

### `ReplicaSync`

A station's catalog and one client of it. `db` is the station's database (the changes in
order, an epoch, a floor, one frozen export, a receipt); a loss of power or a restored copy
puts it back to an earlier state (`Earlier`, kept apart from what the watermark file rules
out by `Possible`). The client has the published catalog `rep`, a staged batch `stage`, an
authorization generation `gen` and the durable record `op` of one command. `task` holds the
coordinator's gate with its request and its answer, `late` an answer to the coordinator of
an earlier generation. `caller` is what the live loop and the user wait for. A page carries
one object and a batch is known by where it starts and ends; an export nobody can name any
more is dropped from the state; a hint is formed and delivered in one step. A page cannot
be replayed and an applied one cannot be met again, because one coordinator asks for one page
at a time. `NoBlindOverwrite` exempts a command whose refresh changed the epoch: the code
gives it the new one.

### `ChatDelivery`

One chat and one receiving agent, at the publisher's station or at another one (`place`).
`Freeze`, `Register`, `Send`, `Execute`, `RecordPolicy`, `Settle`, `Withdraw`, `Retry` and
`Recover` are a preference command from the frozen row to the receipt; a request on the wire
may run after its caller gave up. `FeedRead`, `Accept` and `Resume` are the feed and the
receiving task; the `Worker...` actions look at the mailbox, check the policy, append to the
session and write the receipt, four steps a change of preference may fall between.
`RestMeansDelivered` is stated of the states where no step of the delivery is enabled
(`AtRest`: the negation of the guards of `Delivery`; over all states of the run's instance TLC
finds it equal to `~ENABLED Delivery`), instead of as liveness: these steps never undo each
other, so a run that takes them comes to such a state. It exempts a source whose receiving task
has ended with nothing to start it (`Unfollowed`), which happens; see Disagreements.

### `ClientMessages`

One conversation of one client against its station. A message is its identity. The station
commits a post (`posted`) and publishes it in a later step (`unpublished`); a request of the
pump may time out and be carried out later (`wire`, `posting`). The client keeps `outbox`,
the stored range `cache` with the cursor `older` before it, the pump, the live connection
`feed`, a manual `refresh` and a `loading` of older messages, each of which walks pages it
asked for at one time and stores them at another. The feed and the conversation's own
channel are one queue; a lag and a broken connection are one fault; a store and the
acknowledgement that goes with it are one step, as they are one transaction. Edited
messages, interactions, files, view lines, revocation and the migration of old caches are
left out. `FatesAreTrue` leaves out messages withdrawn after a retry by hand, and
`HistoryHasNoGap` runs in which two messages were published in another order than committed
(the ghost `overtaken`); the instances start from a client that holds a message. Each of
the three is a disagreement below.

### `MeshTask`

One task delegated by its owner's station to an executor, to a workspace or to a Worker
(`kind`). The owner has its row `link`, its reworks and the pass of its worker, which makes
one call after another and keeps the state it read at its start (`pass.read`); requests wait
in `requests` until a handler takes them, and may be handled after the caller gave up. The
executor has its row, the lock `mesh-exec` (`lock`), the pass of its worker (`work`: cancel,
lock, bind, allocate, dispatch, append, mark, capture, publish, each a step) and its journal
`exports`. The subscription is `feed`, the imported events `imported`. The agent is a mailbox
and a turn; a turn hands in a file with its message in one step, and a turn that fails ends
like one that finishes. Turns start, read and end, and files are handed in, whenever the
mailbox and the state of the turn allow it, which is more than the runner and the tools do.
`append_mailbox_id` knows a request by the receipt of the last input only (`agent.receipt`),
as the runner does. Passes start when there is something to do: the notifications that
start them are not modelled, so `RestMeansDone` is a property of states where nothing is left
to do, in the sense of the code's own tests (`OwnerHasWork`, `ExecutorHasWork`). Left out: the
attachments of a goal, the bound of 64 assignments, revoked access, failing local writes.

### Properties

| Property | Code behaviour | Contract |
|---|---|---|
| `AckedSurvive`, `ImplementsCommitLog` | append, sync, repair, recovery | PERSIST-03, EVENT-02 |
| `CacheMatchesLog` | sequence allocation after failures | EVENT-03 |
| `SnapshotsAreDerived`, `RecoveryMatchesMemory` | recovery, whatever snapshots are unusable | SNAPSHOT-01, RECOVERY-01 |
| `SealedGetCompressed` | the compressor's steps and crash points | SEGMENT-02 |
| `SingleWriter` | claims, exits, rebuilds, discovery | SUPERVISOR-01, STARTUP-02 |
| `DetachedIsQuiet` | deletion | DELETE-01 |
| `ConfirmedOnce`, `EveryoneAnswered` | dispatch, retry, failing appends, reservation, notification | SUPERVISOR-02, -03 |
| `RetriesAreKnown` | receipts and positions of inputs | `docs/zork-agent-architecture.md`, durable acknowledgement |
| `NoFalseInterruption` | snapshot, drain, decision | TOOL-12 |
| `TranscriptLegal`, `PrefixStable` | start_step, the folds of deliveries, terminal results | PROJECTION-01, -02 |
| `ContextKeepsWork` | ContextApplied | CONTEXT-02 |
| `EndIsInformed`, `RequestsSaySomething` | control_decision, natural finish | TURN-02 |
| `PublishedIsACut`, `NeverBackwards` | paging, staging, publication, reset | `docs/sync-idle-contract.md` |
| `RefreshIsFresh`, `Converges` | the coordinator's tickets, the live loop | the same |
| `RevokedHoldsNothing` | generations, late answers | |
| `NoBlindOverwrite`, `AppliedIsKept` | commands, revisions, lineage | |
| `ToldTheTruth` | frozen commands, withdrawal, recovery | |
| `TakenInOrder`, `CursorSkipsNothing`, `RestMeansDelivered` | feed, mailbox, workers, ordered inputs | `docs/mesh-notifications.md` |
| `RevokedStaysOut` | the check of the policy before a hand-over | |
| `PostedOnce`, `OneAttemptPerSend`, `FatesAreTrue` | pump, outbox, acknowledgement | `docs/desktop-node.md` |
| `HistoryHasNoGap` | the stored range and its three readers | `docs/client-message-cache.md` |
| `GoalGivenOnce`, `WorkspaceStops` | dispatch, recovery, cancellation | `docs/local-mesh.md` |
| `JournalIsReplicated`, `ResultsPrecedeTheEnd`, `RestMeansDone` | capture, publication, import, the owner's pass | the same |

`TypeOK` is the one type invariant of a module; the runs `log` and `turn` also
check it, to find a mistake in a state before the other properties do.

## Runs, bounds and fairness

| Run | Instance | What it shows |
|---|---|---|
| `log` | 4 appends of up to 2 events, rotation after 2 lines, 1 crash, 1 fault | the safety of the log, its contract, and that sealed segments get compressed |
| `log_brick` | 3 appends, 1 crash, no fault | `RecoveredAcceptsAppends` fails |
| `slots` | 2 requests with either of 2 inputs, a deletion, capacity 1, limit 2, 3 runners, 2 faults | the safety of the slot |
| `slots_live` | a request, a wake and a shutdown behind one mailbox, a circuit that opens | everyone is answered |
| `slots_stop` | a request and a shutdown, 1 fault | `ShutdownStopsRunners` fails |
| `turn` | 1 input, 3 steps, 2 turns, 2 calls, 1 trouble, both strategies | the safety of a turn |
| `turn_unread` | the same with 2 troubles | `UnreadSurvives` fails |
| `replica` | 2 objects, 3 changes, 2 lineages, 2 faults of any kind, a command | publication, revocation, commands, fresh refreshes |
| `replica_live` | the same with 1 fault, settings pages and no command | the replica converges |
| `chat` | 2 commands, 2 messages, pages of 1, 2 pages queued, 1 fault, both places | commands and delivery |
| `messages` | 2 sends, 3 messages of others, 2 of them old, pages of 1, 1 retry, 1 read, 1 fault | outbox and history |
| `mesh` | both kinds, 1 rework, 1 stop, a decision, 2 turns, 1 file, pages of 1, 1 page queued, 1 fault | delegated tasks |

Why the bounds are enough. `log`: three files (sealed, compressed, active) appear with four
appends, and a crash or a fault may fall at every step of a rotation and of a compression.
`slots`: capacity 1 makes the mailbox full with one command (in `slots_live`, or with one
reservation); three runners allow the first to fail, its successor to be judged, and a third to
start behind a late exit. The two requests are one sent twice, or carry one request id with two
contents, one of them at a position (`SomeInputs`); a fault may be a failing append, durable or
not, and the next runner recovers what it left. Requests differ in their input alone, which is
chosen at the start, so permuting them (`AnyClient`) is a symmetry of the specification and of
the properties. That a third request replaces a receipt is left to the proofs. `slots_live` has
one request and no deletion, to stay within what TLC can check for liveness.
`turn`: a step that calls tools, a transition and a step after it need three requests; a call
may end before or after each; a trouble (a provider error of any kind, an invalid document, a
cancellation, a crash, a failed runner) may fall at every place. What one trouble excludes is
a failure inside the handling of another; `turn_unread` uses two. `replica`: two objects make
a batch of two pages that a change, a restart or a retention may divide; two lineages, a cursor
of the other one; two faults, a restore after a power loss or a revocation after a restart.
`chat`: two commands subscribe and revoke, or revoke and subscribe again; two messages under
two generations show a page that is skipped and one that is repeated. `messages`: five
messages with pages of one let the three readers stand at different places of the history,
with a message posted between any two of their steps. `mesh`: one fault (a lost request or
answer, a request handled late, a dropped handler, a failure of the agent or of a
publication, a restart of either station, a broken subscription) may fall at every step;
two turns let a rework begin before or after the first one's results are imported; files are
handed in by workspaces only (`HandingIn`), which is where the order of the journal matters
and keeps the instance of a Worker small. Bounds are guards on named constants (`Max...`,
`Commands`, `PageLimit`, `FeedCap`), and `CHECK_DEADLOCK FALSE` is set because all these
systems really rest: a log with no appends left, a slot whose tasks are done, a runner that
waits for an input, a client that is up to date, a task that is done.

Fairness. `SessionLog`'s `Spec` has weak fairness of the compressor's steps: it is a task of
its own that waits only for a notification or, after a failed pass, for a delay. In
`SessionSlots` every task that can take a step is weakly fair (the Tokio scheduler runs what
is ready), a tool is known to end only once it is cancelled (`cancel_session_and_wait` waits
for it), and nobody has to send, delete, shut down or fail. `SessionTurn` states safety only.
`LiveSpec` of `ReplicaSync` has weak fairness of the union of the steps that lead on (`Progress`):
the coordinator and the live loop are tasks that wait only for an answer or a retry delay.
The other modules state safety, and what must happen in the end as a property of rest.

Every property has a mutant: a plausible bug of the mapped definition (an acknowledgement
before the sync, a claim that does not change the status, a request without placeholders, a
turn that ends in an append of its own, ...) under which TLC finds the property violated. A
mutant stands before the definition it mutates and is not used by the specification.

## What is proved

### `SessionLogProofs`

For batches and targets of any size, and any number of appends, crashes, failing steps and
compressions:

* `LogInvariantHolds`: `Spec => []LogInvariant`;
* `LogTypes`: `Spec => []TypeOK`;
* `AcknowledgedSurvive`: `Spec => []AckedSurvive`;
* `SnapshotsLoseNothing`: `Spec => []SnapshotsAreDerived`;
* `RecoveryRebuilds`: `Spec => []RecoveryMatchesMemory`;
* `CacheIsLastSequence`: `Spec => []CacheMatchesLog`;
* `EveryBatchIsOneCommit`: `Spec => []Identified`;
* `LogImplementsContract`: `Spec => ImplementsCommitLog`.

The assumptions are `BoundsAssumption`, that `None` is no number, and the model's own: directory
operations reach the disk in order. None of the four properties is inductive, because each speaks of the files as they are
read now, and a crash may leave others. The invariant therefore speaks of `Versions(f)`,
everything the file of a segment may turn out to hold (the uncompressed lines, the compressed
ones, and the lines of a removal that is not on disk yet), and of `FilesAt(k)` and `ZstAt(k)`,
the directory left by a crash that undoes the operations after the k-th. `LogInvariant` says:

* `FilesFormed`: a version is a run of batches, each whole but for the last or one a failed
  append cut short; the events of a segment come before the name of the next one, and every
  segment but the first begins with a snapshot.
* `DirectoryHolds`: in every directory a crash may leave, a compressed segment has an
  uncompressed one after it, so there is one to append to; a compressed segment keeps every
  batch of its source in its place.
* `SnapshotsHold`: a snapshot holds what every earlier batch brought, those of a version that
  recovery does not read included. That is why recovery from the latest segment alone is right.
* `AckedHold`: an acknowledged batch has its place in every version of its segment, its lines
  are synced, and the segment is in every directory a crash may leave.
* `MemoryHolds`, `FaultlessHolds`: the runner's state is what the batches bring; without a
  failing step exactly that. The one exception is a last segment left without its first line
  (`Stuck`), on which nothing is appended: it is the state in which `RecoveredAcceptsAppends`
  fails.
* `NumbersHold`, `WriterHolds`, `CompressorHolds`: identities are new, an append in progress
  fits the segment it was opened for, and what the compressor is at is sealed.

The steps come in three kinds. An append grows one file at its end (`ExtendIs`, `ExtendKeeps`,
over `AppendedLines`: a line that was no commit does not become one). A removal or the rename of
a compressed file changes which version is read, and a crash cuts versions at or behind what is
synced (`CrashIs`, `CrashLeaves`): both only narrow what may be found (`Narrows`), and
`NarrowsKeeps` proves the parts for both. The rest leaves the files alone (`FilesStay`). The four
properties follow from the invariant: recovery's choice of the latest snapshot is that of a
maximum, which `OrderProofs` proves to exist.

The refinement rests on the invariant and on `Identified`: an identity belongs to one commit,
whatever file it is found in, and a batch that waits for its sync is not acknowledged yet.
`CommitsNext` proves the step: only `WriteBatch` adds a commit, with a new identity. From both
follows `HistoryHolds`, that the commits read are distinct in identity and in place and include
every acknowledged one, and from that, by `PlacesAre`, `PlacesGrow` and `PlacesAgree`, what the
contract asks of `History`. Each action has its lemma `...Maps`: `WriteBatch` publishes,
`SyncBatch` confirms, a failing write, sync or numbering rejects, a crash and the removal of a
compressed segment's source settle, and the others change nothing the contract sees.

### `SessionSlotsProofs`

It proves, for any number of requests, wakes, deletions and runners, any
capacity, any limit and any set of causes:

* `TypeCorrect`: `Spec => []TypeOK`;
* `SlotInvariantHolds`: `Spec => []SlotInvariant`;
* `OneWriter`: `Spec => []SingleWriter`;
* `DetachedStaysQuiet`: `Spec => []DetachedIsQuiet`;
* `InputsAreConfirmedOnce`: `Spec => []ConfirmedOnce`;
* `RetriesAreNotNew`: `Spec => []RetriesAreKnown`.

The assumptions are those the module declares: positive capacity and limits, disjoint sets of
tasks, at most one shutdown, and that an input with a position has a request id. `SingleWriter` is not inductive: that a new runner is alone
follows from what the status says of the last one, and the status from the order of claims.
`SlotInvariant` has five parts. `RunnersInTurn`: runners are numbered in the order they are
spawned and all but the last are over. `StatusTellsRunner`: `Active` names the last runner and
it is not over; in any other status except `Deleting` every runner is over.
`RecoveryClaimed`: a task that recovers holds the status `Recovering`, and is the only one.
`DeletionHeld`: a deletion holds `Deleting`, joins the last runner before it cancels the
tools, and finds none when it moves the directory. `AnswersOwed`: a stop in the mailbox or
being served belongs to a task that waits for it. The step proof has one case per action, and
lemmas for the moves that actions share (a task that only moves, a runner that goes on, drops
its mailbox or is over, a claim, the end of a recovery). `ConfirmedOnce` alone is not inductive
either: it rests on a client's command being in the mailbox at most once, only while its
sender waits for the answer, and not beside its input in the log (`Confirming`), which every
dispatch, every emptied mailbox and every failing append must keep. The inputs only grow, so
an earlier one a sender was told of stays. `RetriesAreKnown` follows step by step: an input is
appended only when `Known` finds nothing, so neither the last one nor one at a position is of
its request.

### `SessionTurnProofs`

For any inputs, any replies the model may give, any strategies, any limits and any number of
calls, steps, turns and troubles:

* `TurnInvariantHolds`: `Spec => []TurnInvariant`;
* `TypesHold`: `Spec => []TypeOK`;
* `TranscriptsAreLegal`: `Spec => []TranscriptLegal`;
* `NothingRunningIsInterrupted`: `Spec => NoFalseInterruption`;
* `PrefixIsStable`: `Spec => PrefixStable`;
* `ContextLosesNoWork`: `Spec => ContextKeepsWork`;
* `EndsAreInformed`: `Spec => EndIsInformed`;
* `NoRequestIsEmpty`: `Spec => RequestsSaySomething`.

The assumptions are `LimitsAssumption` (limits are positive numbers) and `MenuAssumption`
(inputs are not calls, replies are sequences of calls, strategies are the two there are).

`TranscriptLegal` speaks of a request under way; between requests the transcript may end in a
response whose calls nobody answered yet. What holds always, and what a step, a transition and
an end each preserve, is `Transcript`: responses have calls of their own (`CallsApart`); only
calls of the last response are fresh, and that response then ends the entries, behind what the
last request held (`FreshIsLast`); every other call is answered once before the next response,
or closed by the end of its turn and never answered (`AnswersFit`, `ClosedFits`); a compaction
under way keeps a suffix of the entries that answers no call of those it drops (`KeepsWhole`).
`FreshIsLast` is also why an end may rewrite entries: what it closes lies behind every request.
`Fits` relates the step, the transition and the failures: a step belongs to the transition under
way, attempts are below the limit whenever a step starts, and failures leave a notice. `PlaceFits` and
`TasksKnown` relate the session to the runner's place and to the executor's table; `live
\subseteq seen` at `results` is what the order of snapshot, drain and decision achieves.

The last two theorems need a memory of the past. `ToldBefore`: while the end of the last
response is pending no list of outstanding work is younger than that response; so a list that
discloses everything (`Disclosed`) was read before `end` was called. `TalkGoesOn`: in a turn
that is not cancelled, a response that ends the entries leaves something to say - a notice, an
input, a fresh call, a result not reported, or unfinished work after an answer without calls -
because a response with neither calls nor work ends its turn in the same append; a crash
cannot fall between the two.

A fold of the code is an operator of the model, and the lemmas `...Fields` say once what each
changes; `IsStarted`, `IsApplied`, `HasFailed` and `IsNoted` name the moves the steps are made
of. For each move and each part of the invariant there is a lemma (`Started...`, `Completed...`,
`Applied...`, `...Sound`), and `NextKeeps` has one case per action. `StepIs` sorts the steps by
what they do to the entries, which is what the action properties are about. A transition keeps
a window of the entries in order (`Retained`); `RetainedShape` proves it from
`OrderProofs`' `NthProperties`, which `MeshTaskProofs` uses for its captures as well.

### `ReplicaSyncProofs`

For any catalog, any bounds and any set of faults:

* `RevokedAlwaysHoldsNothing`: `Spec => []RevokedHoldsNothing`;
* `ReplicaInvariantHolds`: `Spec => []ReplicaInvariant`;
* `TypesHold`: `Spec => []TypeOK`;
* `PublishedIsAlwaysACut`: `Spec => []PublishedIsACut`;
* `NothingIsOverwrittenBlindly`: `Spec => []NoBlindOverwrite`;
* `AppliedIsAlwaysKept`: `Spec => []AppliedIsKept`;
* `NothingMovesBackwards`: `Spec => NeverBackwards`;
* `RefreshesAreFresh`: `Spec => RefreshIsFresh`.

The assumption is `ReplicaAssumption`: a finite catalog numbered from one, a `None` that is no
cursor, receipt or task, and bounds that are numbers.

Revocation has an invariant of its own. `RevocationInvariant` adds to the property that a late
answer carries an older generation than the store's, which every write is checked against
(`LateIsOlder`), and that while the live loop is off nobody holds or awaits the coordinator
(`OffIsQuiet`); without these two an answer that arrives after the revocation could be accepted.

The rest follows from `ReplicaInvariant`. That what is published is a cut cannot be seen from
what is published: a batch is put together from pages the station froze earlier, on top of a
base the client published earlier, and the station may since have lost a part of its log. So
the invariant follows a cut from the log to the catalog. `At(id, n)` is an object's version in
the cut at position `n`, `Delta` the rows between two cuts.

* `Lineages`: the watermark file names the database's epoch and a position its log reaches. A
  database that reopens in the same epoch agrees with the lost one only up to that position, so
  every position an actor may hold is bounded by it (`Reached`), and what is held of an earlier
  epoch is claimed nothing about.
* `ExportHonest`, `AnswerHonest`, `StageHonest`: an export is a whole `Delta`, a page is its
  row of that rank, and a stage the rows of the ranks below its index; so the page that ends a
  batch completes it. That a delta has all that changed rests on the floor: the lemma
  `NewExportIs` shows that tombstones the station dropped are none a delta would carry.
* `CatalogHonest`: each published object is as the cut has it (deleted objects may be absent or
  deleted there), or as a confirmed receipt has it. `PublishedIsHonest` is the heart: the base,
  the staged rows and the rule of the newer revision (`Upsert`) together give the new cut, or
  keep the row of the receipt.
* `ReceiptsHonest`, `AppliedHonest`, `CommandHonest`: there is one receipt wherever it is found,
  it tells what the log has at its position, and an applied command comes right after the value
  its user saw.
* `PullHonest`, `AskedPast`: a pull covers callers that still wait, and its stage or answer
  reaches what the station had when they asked, unless it resumes an older stage.

The step proof has a lemma for each part (`...Kept`), over what the station's, the client's and
the coordinator's steps do to the state (`StationMoves`, `MutatingMoves`, ...). Types come first,
with a lemma that each task gets only replies its request can have. `Rev` is a maximum: the lemma
`GreatestIs` proves that a bounded set of numbers has one, from which follow the lemmas about
versions (`RevIs` to `VersionUnique`) that all the rest uses.

### `ChatDeliveryProofs`

For any number of commands, messages and faults and any page size and queue:

* `TypesHold`: `Spec => []TypeOK`;
* `CallersAreToldTheTruth`: `Spec => []ToldTheTruth`;
* `NoticesTakenInOrder`: `Spec => []TakenInOrder`;
* `RevokedIsNotHandedOver`: `Spec => RevokedStaysOut`;
* `TheCursorSkipsNothing`: `Spec => []CursorSkipsNothing`;
* `NoWakeUpIsLost`: `Spec => []RestMeansDelivered`.

The first four rest on `ChatInvariant`. `Asked`: nothing is on the wire or in a receipt that was not
frozen first. `ReceiptsHold`: a receipt has a result exactly if the command has run, never a
result and a cancellation both, and what the caller holds is what the receipt says; that is
the truth callers are told. `PreferencesAgree`: preferences of one revision are the same and
the receiver's policy is one of them, at least as new as any the agent was told; so the
worker's check against the policy rules out everything the agent knows to be revoked.
`MailHonest`: mailbox rows and pages carry the generation their notice was made under. That
notices are taken in order needs only the session's own guard (`Fresh`).

`TheCursorSkipsNothing` needs `CursorInvariant` besides. Before it lies a chain: a notice in force is of
the preference in force (`InForceIsCurrent`, since a change of preferences revokes all notices
before it queues its own), so no policy the receiver can hold refuses it (`InForceIsAccepted`),
and a page read before it was posted or revoked errs only on the side of more mail
(`ItemsInForce`). `PagesConnected`: every page starts at the committed position or before the
end of an earlier page of the queue, and the reader's cursors keep to that; so a page sent again
after a reconnect overlaps and never leaves a gap. That is `PositionCovered`. For
`DeliveredIsTaken` the danger is the session's own guard: an input that comes after a later one
is dropped as old. `OldestFirst` and `NothingMissed` exclude it: rows are in the order of their
notices (`MailInOrder`), a worker takes the oldest one left, and whatever the agent holds or is
about to be given comes after all it misses; so an input the guard drops was taken, or is no
longer in force.

`NoWakeUpIsLost` adds `Woken`: without a worker and without a signal no row waits. Whoever adds
a row signals, whoever answers a signal starts a worker if a row waits, and a worker that ended
over an empty mailbox is joined by a look at the mailbox as it is then. The rest is the cursor
again: a reader with nothing left to read is at the publisher's last notice, and with no page
in the queue `PagesConnected` puts the committed position there as well.

### `ClientMessagesProofs`

For any number of sends, messages, readers and faults:

* `NothingIsPostedTwice`: `Spec => []PostedOnce`;
* `NothingIsSentUnasked`: `Spec => []OneAttemptPerSend`;
* `TheOutboxIsTrue`: `Spec => []FatesAreTrue`;
* `HistoryHolds`: `Spec => []HistoryInvariant`;
* `NothingIsMissing`: `Spec => []HistoryHasNoGap`.

`DeliveryInvariant` counts attempts row by row (`RowsHold`: a row that waits for the pump has
one retry more than its attempts account for, or none of either), and says that whatever the
client reads the station has (`ReadersHonest`, `StationHonest`), which is what makes an
acknowledgement by transcript true.

`HistoryHasNoGap` speaks of what is stored; `HistoryInvariant` adds what is on its way to it. The
client holds a span `a .. b` of the station's messages around those it began with (`HasSpan`),
and the anchors of all readers lie in it (`AnchorsHeld`). A walk has read a span of its own that
ends no earlier than the client began and, once it may be applied, has its anchor or goes back to
the first message (`Shows`); so it meets the range, whatever was stored since, and `MergedSpans`
shows that what `insert_page` stores then is the union of the two. A page of older messages ends
just before the cursor it was asked for, which `StillOlder` checks again (`LoadingHolds`).
The events of a connection skip nothing from the end of its page on (`Follow`): each lies at
most one place behind those before it, and what no event names is still to be published. That
is where `overtaken` comes in: a publication that left a place open would have overtaken the
message there. Nothing from before the client began is published again (`NewIsLate`), so an event
is either held or the next message.

### `MeshTaskProofs`

For any number of reworks, stops, turns, results and faults, any page size, any queue and
either kind of assignment:

* `MeshInvariantHolds`: `Spec => []MeshInvariant`;
* `TheGoalIsGivenOnce`: `Spec => []GoalGivenOnce`;
* `AStoppedWorkspaceStays`: `Spec => []WorkspaceStops`;
* `TheJournalIsReplicated`: `Spec => []JournalIsReplicated`;
* `ResultsComeFirst`: `Spec => []ResultsPrecedeTheEnd`;
* `AtRestAllIsDone`: `Spec => []RestMeansDone`.

The only assumption is `BoundsAssumption`. None of the five properties is inductive: each says
what an actor holds and nothing of where the others are. `MeshInvariant` adds that, in layers
that rest on the ones before:

* `Types`, and `LockHeld`: whoever is past the lock holds it, and one request at a time.
* `GoalSafe`: the row and the worker's place agree (`RowHonest`: `dispatching` means the
  worker is at the goal or a recovery is due, and what a failing preparation writes back is
  the state it prepares); a workspace whose goal was given or whose stop was answered has no
  worker before the goal and no row that leads there (`GoalBarred`). A Worker's goal may be
  asked for again; there the agent's receipt keeps it single until a rework is accepted
  (`ReceiptHonest`: once the goal was given, its receipt stands as long as no rework came).
* `JournalSafe`: a page starts at the cursor or where an earlier page ends, and holds only
  published events (`FeedHonest`). A page that was applied already starts behind the cursor,
  so a reconnection cannot skip or repeat an event.
* `ExportsOrdered`: a file is before its message, the messages of a run before its end, and
  runs one after another (`FilesFirstIn`, `RunsLastIn`, `RunsInOrder`), which needs that only
  the last turn runs (`OneRun`). A capture adds the missing records in the order of the
  product records; `NthProperties` of `OrderProofs` and the lemmas that end in
  `CaptureProperties` prove that of the operators `Missing`, `Nth` and `Uncaptured`.
* `SessionFirst`: whatever the executor has to tell, it tells from a session. A decision takes
  no lock and can fall into a preparation; it is made when the owner knows of an end, so it
  finds the session bound or the assignment cancelled.
* `BeliefsHonest`: what the owner marked as answered the executor has, and its news of the run
  is the last run it imported, or the stop.

Each layer has its lemmas of the form `...Kept` over `Next`, with a case for every action; the
frame lemmas (`OwnerKeeps`, `WorkerKeeps`, `AgentKeeps`, `HandlersKeep`, `HandlersAnswer`,
`HandlersMove`) say once what a group of actions leaves alone. `AtRestAllIsDone` is then a
consequence of the invariant alone: it is safety, that nothing is forgotten when both sides
find nothing to do, and not that they get there.

### Only model-checked

Every invariant and every action property of a passing run is a theorem above, and so is the
refinement of `CommitLog`. Liveness (`SealedGetCompressed`, `EveryoneAnswered`, `Converges`) is
out of the prover's reach and stays with TLC, and so does that `AtRest` of `ChatDelivery` is
exactly `~ENABLED Delivery`.

## Disagreements found

Checked by runs:

* `log_brick`: a session can recover and refuse every append (`session/store.rs`, `last_sequence`).
* `slots_stop`: shutdown can return with a runner about to be rebuilt (`session/supervisor.rs`).
* `turn_unread`: an input taken by a failed request whose retry overflows is dropped unread
  (`session/state.rs`, `StepFailed`).

Met while modelling, and left without a run of their own. In the agent:

* Shutdown can return with the tools of a failed runner running, and failures before the
  fault is durable do not count towards the circuit (`session/supervisor.rs`).
* Input given back by an overflow restarts a failed turn with nothing new.
* An `end` that outlives its turn may finish later turns before they ask the model anything.
* A rebuilt runner that parks while a tool of its predecessor runs is not woken when that
  tool leaves.

In the replica:

* A pull that finds a staged batch continues it to its old cut and returns (`sync.rs:174`);
  the demand is cleared, although `sync.rs:89` and `docs/sync-idle-contract.md` promise that a
  refresh catches up with the changes before it. `RefreshIsFresh` and `Converges` exempt it
  (`resumed`).
* After a revocation and a new pairing, a snapshot leaves out an object that was deleted, and
  a late look-up of a command's receipt puts it back alive (`store/operations.rs:53`,
  `store/replica.rs:110`); `zork-client-types/src/sync.rs:97` calls the absence "a durable
  deletion".

In chat channels:

* After a reconnection the reader meets pages twice; `resume_with` refuses the older cursor
  (`zork-mesh/src/feed.rs:82`) and `?` ends the receiving task (`channels/delivery.rs:152`)
  until a change of the source catalog, although `docs/mesh-notifications.md:24` leaves
  reconnections to the feed.
* `chat.recover` dispatches a command without recording its source first; and a transient
  failure of a local read or of an accept ends the source without a retry.

In the client's conversation:

* Two posters may commit in one order and publish in the other (`channels/api.rs:437`, `:449`,
  without the lock of `channels/client.rs:47`); a live client keeps the two messages the wrong
  way round, although `docs/client-message-cache.md:8` says that positions are the station's
  order.
* A retry of a request that was already posted publishes the old message again; a client that
  does not hold it puts it at the end of its range.
* `retry_delivery` (`store.rs:310`) clears the mark of the attempt, so `withdraw_to_draft`
  ("Withdraw a definitely-unsent message", `store.rs:410`) takes back a message the station
  may have.
* With an empty cache, two readers and more than a page of new messages store two ranges as
  one; a failed store of one live event leaves a hole, since the anchor moves past it; and
  loading older messages does not settle rows of the outbox.

In delegated tasks:

* A Worker's task whose dispatch was interrupted after the agent took the goal goes back to
  `preparing` (`db/mesh.rs:427`, `mesh.rs:1391`), from which a stop is acknowledged without
  asking the agent (`mesh.rs:1476`): the task is `cancelled` and its run goes on, against the
  comment "so no run can start after a cancellation has already been acknowledged"
  (`mesh.rs:1466`). `StopMeansStopped` states it for both kinds and fails for Workers with one
  fault; the run checks it for workspaces (`WorkspaceStops`).
* A Worker's goal whose append was answered with an error is appended again by the next pass
  (`mesh.rs:1391`, after a crash `db/mesh.rs:427`), against "Never replay it as a fresh mailbox
  input" (`db/mesh.rs:412`): the agent knows the request only while it is its last
  (`session/runner.rs:1246`), and a rework may be handled between the two passes, the lock being
  free. `NeverReplayed` states it for both kinds and fails for a Worker with one rework and one
  fault, an append answered with an error though it is durable; the run checks `GoalGivenOnce`,
  which exempts that case and no other.
* A decision takes no lock (`mesh.rs:1098`), so a preparation under way overwrites `settled`,
  and the row counts towards the limit of 64 from then on.
* A failed pass of the owner writes back the state it read at its start (`mesh.rs:1546`) and so
  loses a `needs_attention` imported meanwhile.
* A stop and what it means are two writes (`mesh.rs:1621`): a crash between them leaves the stop
  acknowledged and the remote status as it was (`LastWord` allows it). A stop the executor
  keeps for its own pass may stop a later rework, and a rework queued before a stop or a
  decision is delivered after it.
* Sixteen events that cannot be published hold up those of every other assignment
  (`mesh_pending_exports`).

## What is not modelled

`PROJECT.json` lists every component with its status. Left out for good: provider wire
formats, Slack, credentials, skills and configuration files (I/O), the user interfaces and
mobile glue (presentation), process management, encryption and discovery of the mesh. These
are also most of the lines of the repository, which is why the models cover a small part of it.

Partly modelled: history queries are atomic reads; creation of sessions, the overview cache
and the global capacity semaphore are not in `SessionSlots`; configuration changes, tool
states, tool control and catalogs are not in `SessionTurn`; `SessionSlots` and `SessionTurn`
are not composed, each has an abstraction of the other. `ReplicaSync` has one scope and one
owner. `ChatDelivery` has no change of a chat's epoch, no access or membership, one chat and one
agent, no rejected commands, attachments, inputs of an agent to itself, filters or delivery
modes. What `ClientMessages` and `MeshTask` leave out is said in their sections.

## Plan

Done: `SessionLog` with `CommitLog`, `SessionSlots`, `SessionTurn`, `ReplicaSync`,
`ChatDelivery`, `ClientMessages`, `MeshTask`, and proofs about all seven. Next, in order:

1. `ObservedSource` (`zork-observe/src/source.rs`): bounded journal, prepared batches,
   acknowledgement, replacement.
2. `StationDelivery`: inbound dedup, reset and deletion of bindings (`station/src/delivery.rs`).
3. `SessionTurn` extended: waiters of `tool.cancel`, configuration changes, liveness of calls
   and of waiting inputs; a composition with the slot's startup check.
4. The account pool, and enrolment of a station.
