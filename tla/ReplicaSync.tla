---------------------------- MODULE ReplicaSync ----------------------------
(***************************************************************************)
(* Catalog replication: a station exports frozen, paged cuts of its         *)
(* catalog (station/src/db/sync.rs), a client stages the pages in its own   *)
(* database and publishes a batch when the last page is in                  *)
(* (zork-client-core/src/store/replica.rs).  One coordinator per peer       *)
(* (sync.rs) runs refreshes and commands one at a time over a network that  *)
(* may fail before or after the station has acted, and the device's live    *)
(* loop asks for a refresh at every hint it is not caught up with.          *)
(*                                                                          *)
(* The station's table keeps the newest version of every object and a       *)
(* revision that is the position of that version in the sequence of all     *)
(* changes.  The model keeps the sequence itself, `log`: an object's        *)
(* revision is its last position in it.  A cursor is an epoch and a         *)
(* position.  Epochs are random in the code; here a new one is the next     *)
(* number, which no earlier lineage has used.  A page carries one object.   *)
(***************************************************************************)
EXTENDS Integers, Sequences, FiniteSets, FiniteSetsExt, SequencesExt

CONSTANTS
    Ids,         \* the objects of the catalog, numbered in the order of export
    MaxWrites,   \* bound: changes the station ever commits, the lost ones too
    MaxEpoch,    \* bound: lineages
    MaxFaults,   \* bound: faults of the station, the client and the network
    Faults,      \* the kinds of fault that occur
    Edited,      \* the objects the user may edit
    Opens,       \* whether the user opens settings pages
    None         \* the absent cursor, batch, continuation, task or receipt

\* A version of an object, a position in a lineage, the outcome of a command.
Rows == [rev : Nat, val : Nat]
Cursors == [epoch : Nat, seq : Nat]
Receipts == [epoch : Nat, outcome : {"applied", "conflict", "rejected"}, at : Nat,
             row : Rows]

\* The tasks of the coordinator: who asked, the request and the reply to it.
Callers == {"live", "user"}
Items == [id : Ids, row : Rows]
Starts == {None} \cup Cursors
Requests == [after : Starts,
             next : {None} \cup [from : Starts, through : Cursors, index : Nat]]
Reset == [kind |-> "reset"]
Pages == [kind : {"page"}, from : Starts, through : Cursors, index : Nat,
          last : BOOLEAN, rows : SUBSET Items]
ReceiptReplies == [kind : {"receipt"}, receipt : {None} \cup Receipts]
Replies == {None, Reset} \cup Pages \cup ReceiptReplies
Tasks == [by : Callers, kind : {"pull", "receipt", "command"},
          req : {None} \cup Requests, resets : Nat, covers : SUBSET Callers,
          resuming : BOOLEAN, reply : Replies]

ASSUME ReplicaAssumption ==
    /\ IsFiniteSet(Ids) /\ Ids = 1 .. Cardinality(Ids) /\ Ids # {}
    /\ None \notin Cursors \cup Receipts \cup Tasks
    /\ {MaxWrites, MaxEpoch, MaxFaults} \subseteq Nat
    /\ Faults \subseteq {"maintain", "reopen", "request", "restart", "revoke"}
    /\ Edited \subseteq Ids
    /\ Opens \in BOOLEAN

VARIABLES
    db,       \* the station's database: epoch, floor, log, export, receipt
    mark,     \* the watermark file: newest epoch and position ever served
    writes,   \* changes committed so far; each writes a value of its own
    rep,      \* the client's published catalog: cursor and objects
    stage,    \* the client's staged batch
    gen,      \* the client's authorization generation for the peer
    op,       \* the client's durable record of the one command
    caller,   \* "live" and "user": idle, refreshing, ok, error, mutating, off
    pending,  \* the live loop holds demand it has not met
    signal,   \* the station has changed since the last hint
    task,     \* what holds the coordinator's gate, with its request and reply
    post,     \* the command is on its way to the station
    late,     \* a reply to a coordinator of an earlier generation
    asked,    \* ghost: the station's position when the caller asked
    resumed,  \* ghost: the last published pull resumed a batch staged earlier
    faults    \* faults so far

station == <<db, mark, writes>>
store == <<rep, stage, gen, op>>
loop == <<caller, pending, asked>>
vars == <<station, store, loop, signal, task, post, late, resumed, faults>>

Gone == 0                            \* the value of a deleted object
Record(r, v) == [rev |-> r, val |-> v]
NoRow == Record(0, Gone)
Cursor(e, s) == [epoch |-> e, seq |-> s]

-----------------------------------------------------------------------------
(* The station's table, read from the sequence of changes. *)

Rev(log, id) == Max({0} \cup {i \in DOMAIN log : log[i].id = id})
Row(log, id) ==
    IF Rev(log, id) = 0 THEN NoRow ELSE Record(Rev(log, id), log[Rev(log, id)].val)
Upto(log, n) == SubSeq(log, 1, n)
\* A tombstone at or below the floor has been deleted from the table.
HasRow(d, id) ==
    /\ Rev(d.log, id) # 0
    /\ Row(d.log, id).val # Gone \/ Rev(d.log, id) > d.floor
Here(d) == Cursor(d.epoch, Len(d.log))
PositionOf(cursor) == IF cursor = None THEN 0 ELSE cursor.seq

\* A new export freezes the rows changed after `from`, tombstones in a delta only.
\* Exports that nobody can name any more are not kept.
NewExport(d, from) ==
    [from |-> from, through |-> Here(d), pages |-> 0,
     rows |-> {[id |-> id, row |-> Row(d.log, id)] :
                 id \in {x \in Ids : /\ HasRow(d, x)
                                     /\ Rev(d.log, x) > PositionOf(from)
                                     /\ from # None \/ Row(d.log, x).val # Gone}}]

CursorUnavailable(d, after) ==
    /\ after # None
    /\ \/ after.epoch # d.epoch
       \/ after.seq < d.floor
       \/ after.seq > Len(d.log)

\* A continuation names its batch (by what it is a delta of and reaches) and a
\* page that some earlier page of it has announced.
BatchExpired(d, req) ==
    /\ req.next # None
    /\ \/ d.export = None
       \/ d.export.from # req.next.from
       \/ d.export.through # req.next.through
       \/ req.next.index > d.export.pages

\* The page of the index-th row in export order, if there is one.
PageOf(export, index) ==
    [kind |-> "page", from |-> export.from, through |-> export.through,
     index |-> index, last |-> index + 1 >= Cardinality(export.rows),
     rows |-> {r \in export.rows :
                 Cardinality({q \in export.rows : q.id < r.id}) = index}]

-----------------------------------------------------------------------------
(* The client's replica. *)

\* `upsert`: an older revision is ignored.
UpsertAlways(old, new) == new           \* mutant: an older revision wins
Upsert(old, new) == IF old.rev >= new.rev THEN old ELSE new
\* ... and the same revision must carry the same value.
Conflicts(old, new) == old.rev = new.rev /\ old.val # new.val

\* The staged rows of a batch, and what they are merged into: a delta into the
\* objects, a snapshot of a new epoch into nothing, a snapshot of the same epoch
\* into the objects less those it omits (unless confirmed past its cut).
Staged(rows, id) == CHOOSE r \in rows : r.id = id
Base(r, page, rows) ==
    [id \in Ids |->
        IF page.from # None THEN r.ents[id]
        ELSE IF r.cur # None /\ r.cur.epoch # page.through.epoch THEN NoRow
        ELSE IF /\ r.ents[id].rev <= page.through.seq
                /\ r.ents[id].val # Gone
                /\ \A row \in rows : row.id # id
             THEN Record(page.through.seq, Gone)
             ELSE r.ents[id]]
Publish(r, page, rows) ==
    [cur |-> page.through,
     ents |-> [id \in Ids |->
        IF \E row \in rows : row.id = id
        THEN Upsert(Base(r, page, rows)[id], Staged(rows, id).row)
        ELSE Base(r, page, rows)[id]]]

\* Rows staged for this batch before; another batch starts over.
SameBatch(s, page) == s # None /\ s.from = page.from /\ s.through = page.through
StagedRowsOfPage(s, page) == page.rows  \* mutant: each page replaces the staging
StagedRows(s, page) == (IF SameBatch(s, page) THEN s.rows ELSE {}) \cup page.rows
NextIndex(s, page) == IF SameBatch(s, page) THEN s.index ELSE 0

\* What `apply_replica_page_at` insists on before it writes.
AcceptableAnyGeneration(r, s, g, page) ==   \* mutant: no generation check
    /\ page.from # None => r.cur = page.from
    /\ page.index = NextIndex(s, page)
Acceptable(r, s, g, page) ==
    /\ g = gen
    /\ page.from # None => r.cur = page.from
    /\ page.from = None =>
          \/ r.cur = None
          \/ r.cur.epoch # page.through.epoch
          \/ page.through.seq >= r.cur.seq
    /\ page.index = NextIndex(s, page)
    /\ page.last =>
          \A row \in StagedRows(s, page) :
              ~Conflicts(Base(r, page, StagedRows(s, page))[row.id], row.row)

\* Stores a page; the last one publishes the batch and clears the staging.
ApplyPage(page) ==
    IF page.last
    THEN /\ rep' = Publish(rep, page, StagedRows(stage, page))
         /\ stage' = None
    ELSE /\ stage' = [from |-> page.from, through |-> page.through,
                      index |-> page.index + 1, rows |-> StagedRows(stage, page)]
         /\ UNCHANGED rep

\* The request that continues what is staged, or asks for what comes next.
ReplicaPull(r, s) ==
    IF s # None
    THEN [after |-> s.from,
          next |-> [from |-> s.from, through |-> s.through, index |-> s.index]]
    ELSE [after |-> r.cur, next |-> None]

\* `apply_receipt`: a confirmed object goes ahead of the cursor, in its epoch only.
ReceiptApplies(receipt) ==
    /\ rep.cur # None
    /\ rep.cur.epoch = receipt.epoch
    /\ receipt.row # NoRow
ApplyReceipt(receipt) ==
    IF ReceiptApplies(receipt)
    THEN [rep EXCEPT !.ents[op.id] = Upsert(@, receipt.row)]
    ELSE rep
ReceiptAcceptable(g, receipt) ==
    /\ g = gen
    /\ ReceiptApplies(receipt) => ~Conflicts(rep.ents[op.id], receipt.row)

-----------------------------------------------------------------------------
Nothing == Cursor(0, 0)
Empty == [cur |-> None, ents |-> [id \in Ids |-> NoRow]]
NoOp == [st |-> "none", id |-> 1, epoch |-> 0, rev |-> 0,
         saw |-> Gone, sawEpoch |-> 0, receipt |-> None]

\* A new client of a station whose catalog has its first object.
Init ==
    /\ db = [epoch |-> 1, floor |-> 0, export |-> None, receipt |-> None,
             log |-> <<[id |-> 1, val |-> 1]>>]
    /\ mark = Here(db)
    /\ writes = 1
    /\ rep = Empty /\ stage = None /\ gen = 0 /\ op = NoOp
    /\ caller = [c \in Callers |-> "idle"]
    /\ pending = FALSE
    /\ signal = TRUE
    /\ task = None /\ post = FALSE /\ late = None
    /\ asked = [c \in Callers |-> Nothing]
    /\ resumed = FALSE
    /\ faults = 0

-----------------------------------------------------------------------------
(* The station. *)

Changed(d, id, val) == [d EXCEPT !.log = Append(@, [id |-> id, val |-> val])]

\* A business change of one object and its projection, in one transaction.
StationWrite ==
    /\ writes < MaxWrites
    /\ \E id \in Ids, val \in {Gone, writes + 1} :
          /\ val = Gone => Row(db.log, id).val # Gone
          /\ db' = Changed(db, id, val)
    /\ writes' = writes + 1
    /\ signal' = TRUE
    /\ UNCHANGED <<mark, store, loop, task, post, late, resumed, faults>>

\* Retention: the floor rises, tombstones below it go, exports grow too old.
StationMaintain ==
    /\ faults < MaxFaults /\ "maintain" \in Faults
    /\ \E floor \in db.floor .. Len(db.log), export \in {db.export, None} :
          db' = [db EXCEPT !.floor = floor, !.export = export]
    /\ db' # db
    /\ faults' = faults + 1
    /\ UNCHANGED <<mark, writes, store, loop, signal, task, post, late, resumed>>

\* The earlier states of a database: a backup of it, or what the disk is sure to
\* hold after a power loss.  An export or a receipt is in the ones since its commit.
Earlier(d) ==
    {[epoch |-> d.epoch, floor |-> floor, log |-> Upto(d.log, n),
      export |-> export, receipt |-> receipt] :
        n \in 0 .. Len(d.log), floor \in 0 .. d.floor,
        export \in {None, d.export}, receipt \in {None, d.receipt}}
Possible(d, e) ==
    /\ e.floor <= Len(e.log)
    /\ e.export # None => e.export.through.seq <= Len(e.log)
    /\ IF e.receipt = None
       THEN d.receipt # None => \/ d.receipt.at > Len(e.log)
                                \/ d.receipt.at = Len(e.log) /\ d.receipt.outcome # "applied"
       ELSE d.receipt.at <= Len(e.log)

\* `sync_check_lineage`: a database behind what was served starts a new epoch.
LineageEpochOnly(d, m) ==               \* mutant: positions are not compared
    IF m.epoch # d.epoch
    THEN [d EXCEPT !.epoch = m.epoch + 1, !.export = None]
    ELSE d
Lineage(d, m) ==
    IF m.epoch # d.epoch \/ m.seq > Len(d.log)
    THEN [d EXCEPT !.epoch = m.epoch + 1, !.export = None]
    ELSE d

CommandAppliesUnversioned ==            \* mutant: the expected revision is ignored
    /\ db.receipt = None
    /\ op.epoch = db.epoch
    /\ HasRow(db, op.id)
    /\ Row(db.log, op.id).val # Gone

CommandApplies ==
    /\ db.receipt = None
    /\ op.epoch = db.epoch
    /\ HasRow(db, op.id)
    /\ Row(db.log, op.id).rev = op.rev
    /\ Row(db.log, op.id).val # Gone

\* The station opens its database again: an earlier one, or the same one after a
\* command had advanced the watermark and not committed.
StationReopen ==
    /\ faults < MaxFaults /\ "reopen" \in Faults
    /\ \/ \E e \in {e \in Earlier(db) : Possible(db, e)} :
             /\ e # db
             /\ db' = Lineage(e, mark)
       \/ /\ post /\ CommandApplies
          /\ db' = Lineage(db, Cursor(db.epoch, Len(db.log) + 1))
    /\ db'.epoch <= MaxEpoch
    /\ mark' = Here(db')
    /\ signal' = TRUE
    /\ asked' = [c \in Callers |->
                    Cursor(asked[c].epoch, Min({asked[c].seq, Len(db'.log)}))]
    /\ faults' = faults + 1
    /\ UNCHANGED <<writes, store, caller, pending, task, post, late, resumed>>

\* `sync_pull`: a page of the named batch, or of a new one, or a reset.
StationPull ==
    /\ task # None /\ task.kind = "pull" /\ task.reply = None
    /\ IF CursorUnavailable(db, task.req.after) \/ BatchExpired(db, task.req)
       THEN /\ task' = [task EXCEPT !.reply = Reset]
            /\ UNCHANGED <<db, mark>>
       ELSE \E export \in {IF task.req.next = None
                           THEN NewExport(db, task.req.after) ELSE db.export},
               index \in {IF task.req.next = None THEN 0 ELSE task.req.next.index} :
                /\ task' = [task EXCEPT !.reply = PageOf(export, index)]
                /\ db' = [db EXCEPT !.export =
                             [export EXCEPT !.pages =
                                 IF task'.reply.last THEN @ ELSE Max({@, index + 1})]]
                /\ mark' = Here(db)
    /\ UNCHANGED <<writes, store, loop, signal, post, late, resumed, faults>>

\* `sync_receipt`
StationReceipt ==
    /\ task # None /\ task.kind = "receipt" /\ task.reply = None
    /\ task' = [task EXCEPT !.reply = [kind |-> "receipt", receipt |-> db.receipt]]
    /\ UNCHANGED <<station, store, loop, signal, post, late, resumed, faults>>

\* `sync_mutate`: the change, its projection and the receipt in one transaction,
\* after the watermark; a command seen before has the receipt it had.
StationCommand ==
    /\ post
    /\ writes < MaxWrites
    /\ post' = FALSE
    /\ \E accepted \in BOOLEAN :
          LET applied == CommandApplies /\ accepted
              after == IF applied THEN Changed(db, op.id, writes + 1) ELSE db
              receipt == [epoch |-> db.epoch,
                          outcome |-> IF applied THEN "applied"
                                      ELSE IF CommandApplies THEN "rejected"
                                      ELSE "conflict",
                          at |-> Len(after.log),
                          row |-> IF HasRow(after, op.id)
                                  THEN Row(after.log, op.id) ELSE NoRow]
          IN /\ db' = [after EXCEPT !.receipt = IF @ = None THEN receipt ELSE @]
             /\ writes' = IF applied THEN writes + 1 ELSE writes
             /\ signal' = (signal \/ applied)
    /\ mark' = Here(db')
    /\ task' = IF task # None /\ task.kind = "command" /\ task.reply = None
               THEN [task EXCEPT !.reply = [kind |-> "receipt", receipt |-> db'.receipt]]
               ELSE task
    /\ UNCHANGED <<store, loop, late, resumed, faults>>

-----------------------------------------------------------------------------
(* The coordinator.  `completed[scope]` answers every ticket a pull covers: *)
(* the callers whose ticket was drawn when the pull began.                  *)

PullTask(c, r, s) ==
    [by |-> c, kind |-> "pull", req |-> ReplicaPull(r, s), resets |-> 0,
     covers |-> {x \in Callers : caller[x] = "refreshing"},
     resuming |-> s # None, reply |-> None]
ReceiptTask(c) ==
    [by |-> c, kind |-> "receipt", req |-> None, resets |-> 0,
     covers |-> {}, resuming |-> FALSE, reply |-> None]
CommandTask ==
    [by |-> "user", kind |-> "command", req |-> None, resets |-> 0,
     covers |-> {}, resuming |-> FALSE, reply |-> None]

\* `refresh` takes the gate and looks up the command whose result is not known.
StartRefresh(c) ==
    /\ task = None
    /\ caller[c] = "refreshing"
    /\ task' = IF op.st = "attempted" /\ op.receipt = None
               THEN ReceiptTask(c) ELSE PullTask(c, rep, stage)
    /\ UNCHANGED <<station, store, loop, signal, post, late, resumed, faults>>

\* A refused or failed look-up is remembered as such and does not stop the pull.
TakeLookup ==
    /\ task # None /\ task.kind = "receipt" /\ task.reply # None
    /\ LET receipt == task.reply.receipt
       IN IF receipt # None /\ ReceiptAcceptable(gen, receipt)
          THEN /\ rep' = ApplyReceipt(receipt)
               /\ op' = [op EXCEPT !.receipt = receipt]
          ELSE UNCHANGED <<rep, op>>
    /\ task' = PullTask(task.by, rep', stage)
    /\ UNCHANGED <<station, stage, gen, loop, signal, post, late, resumed, faults>>

\* Every caller the pull covers has its result.
EndRefreshForAll(result) ==             \* mutant: tickets are not compared
    /\ task' = None
    /\ caller' = [c \in Callers |-> IF caller[c] = "refreshing" THEN result ELSE caller[c]]
    /\ asked' = [c \in Callers |-> IF caller[c] = "refreshing" THEN Nothing ELSE asked[c]]
EndRefresh(result) ==
    /\ task' = None
    /\ caller' = [c \in Callers |-> IF c \in task.covers THEN result ELSE caller[c]]
    /\ asked' = [c \in Callers |-> IF c \in task.covers THEN Nothing ELSE asked[c]]

TakePage ==
    /\ task # None /\ task.kind = "pull" /\ task.reply # None /\ task.reply # Reset
    /\ IF Acceptable(rep, stage, gen, task.reply)
       THEN /\ ApplyPage(task.reply)
            /\ IF task.reply.last
               THEN /\ EndRefresh("ok")
                    /\ resumed' = task.resuming
               ELSE /\ task' = [task EXCEPT !.req = ReplicaPull(rep', stage'),
                                            !.reply = None]
                    /\ UNCHANGED <<caller, asked, resumed>>
       ELSE /\ EndRefresh("error")
            /\ UNCHANGED <<rep, stage, resumed>>
    /\ UNCHANGED <<station, gen, op, pending, signal, post, late, faults>>

\* A reset drops what is staged and asks for the whole scope, twice at most.
TakeReset ==
    /\ task # None /\ task.kind = "pull" /\ task.reply = Reset
    /\ IF task.resets < 2
       THEN /\ stage' = None
            /\ task' = [task EXCEPT !.req = [after |-> None, next |-> None],
                                    !.resets = @ + 1, !.resuming = FALSE,
                                    !.reply = None]
            /\ UNCHANGED <<caller, asked>>
       ELSE /\ EndRefresh("error")
            /\ UNCHANGED stage
    /\ UNCHANGED <<station, rep, gen, op, pending, signal, post, late, resumed, faults>>

-----------------------------------------------------------------------------
(* The command: `mutate_catalog` and `Coordinator::mutate`. *)

Draft(id) ==
    [NoOp EXCEPT !.st = "draft", !.id = id, !.rev = rep.ents[id].rev,
                 !.saw = rep.ents[id].val,
                 !.sawEpoch = IF rep.cur = None THEN 0 ELSE rep.cur.epoch]
Ask(c) ==
    /\ caller' = [caller EXCEPT ![c] = "refreshing"]
    /\ asked' = [asked EXCEPT ![c] = Here(db)]

\* The user edits an object: its revision is read, then a refresh is asked for.
UserEdit ==
    /\ caller["user"] = "idle" /\ caller["live"] # "off"
    /\ op.st = "none"
    /\ \E id \in Edited : op' = Draft(id)
    /\ Ask("user")
    /\ UNCHANGED <<station, rep, stage, gen, pending, signal, task, post, late,
                   resumed, faults>>

\* Opening a settings page asks for a refresh too, and only shows its result.
UserRefresh ==
    /\ Opens
    /\ caller["user"] = "idle" /\ caller["live"] # "off"
    /\ Ask("user")
    /\ UNCHANGED <<station, store, pending, signal, task, post, late, resumed, faults>>

UserReturns ==
    /\ caller["user"] \in {"ok", "error"} /\ op.st # "draft"
    /\ caller' = [caller EXCEPT !["user"] = "idle"]
    /\ UNCHANGED <<station, store, pending, asked, signal, task, post, late, resumed, faults>>

\* With the epoch read after the refresh, the intent is complete.
UserIntend ==
    /\ caller["user"] \in {"ok", "error"} /\ op.st = "draft"
    /\ LET row == rep.ents[op.id]
           rev == IF op.rev # 0 THEN op.rev ELSE row.rev
       IN IF caller["user"] = "error" \/ rep.cur = None \/ rev = 0
          THEN /\ op' = NoOp
               /\ caller' = [caller EXCEPT !["user"] = "idle"]
          ELSE /\ op' = [op EXCEPT !.st = "intent", !.epoch = rep.cur.epoch, !.rev = rev,
                            !.saw = IF op.rev # 0 THEN @ ELSE row.val,
                            !.sawEpoch = IF op.rev # 0 THEN @ ELSE rep.cur.epoch]
               /\ caller' = [caller EXCEPT !["user"] = "mutating"]
    /\ UNCHANGED <<station, rep, stage, gen, pending, asked, signal, task, post, late,
                   resumed, faults>>

\* The intent and the attempt are on disk before the request is sent, once.
StartCommand ==
    /\ task = None
    /\ caller["user"] = "mutating"
    /\ op' = [op EXCEPT !.st = "attempted"]
    /\ post' = TRUE
    /\ task' = CommandTask
    /\ UNCHANGED <<station, rep, stage, gen, loop, signal, late, resumed, faults>>

TakeReceipt ==
    /\ task # None /\ task.kind = "command" /\ task.reply # None
    /\ LET receipt == task.reply.receipt
       IN IF ReceiptAcceptable(gen, receipt)
          THEN /\ rep' = ApplyReceipt(receipt)
               /\ op' = [op EXCEPT !.receipt = receipt]
          ELSE UNCHANGED <<rep, op>>
    /\ task' = None
    /\ caller' = [caller EXCEPT !["user"] = "idle"]
    /\ UNCHANGED <<station, stage, gen, pending, asked, signal, post, late, resumed, faults>>

-----------------------------------------------------------------------------
(* The device's live loop. *)

CaughtUpInAnyEpoch ==                   \* mutant: cursors of two epochs compared
    /\ rep.cur # None
    /\ rep.cur.seq >= Len(db.log)
CaughtUp ==
    /\ rep.cur # None
    /\ rep.cur.epoch = db.epoch
    /\ rep.cur.seq >= Len(db.log)

\* A hint carries the station's cursor; one already covered asks for nothing.
ReceiveHint ==
    /\ signal
    /\ caller["live"] = "idle"
    /\ signal' = FALSE
    /\ IF CaughtUp
       THEN UNCHANGED loop
       ELSE Ask("live") /\ pending' = TRUE
    /\ UNCHANGED <<station, store, task, post, late, resumed, faults>>

\* Demand that was not met is tried again after a delay.
RetryPending ==
    /\ pending
    /\ caller["live"] = "idle"
    /\ Ask("live")
    /\ UNCHANGED <<station, store, pending, signal, task, post, late, resumed, faults>>

LiveReturns ==
    /\ caller["live"] \in {"ok", "error"}
    /\ pending' = (caller["live"] = "error")
    /\ caller' = [caller EXCEPT !["live"] = "idle"]
    /\ UNCHANGED <<station, store, asked, signal, task, post, late, resumed, faults>>

-----------------------------------------------------------------------------
(* Faults of the network and the client. *)

\* The request fails in the client's eyes; the station may have served it, may
\* serve a command later, or may never see it.
RequestFails ==
    /\ faults < MaxFaults /\ "request" \in Faults
    /\ task # None
    /\ \/ task.kind = "pull" /\ EndRefresh("error")
       \/ /\ task.kind = "receipt"
          /\ task' = PullTask(task.by, rep, stage)
          /\ UNCHANGED <<caller, asked>>
       \/ /\ task.kind = "command"
          /\ task' = None
          /\ caller' = [caller EXCEPT !["user"] = "idle"]
          /\ UNCHANGED asked
    /\ post' \in {post, FALSE}
    /\ faults' = faults + 1
    /\ UNCHANGED <<station, store, pending, signal, late, resumed>>

\* A new process keeps what is on disk; its feed begins with a hint.
ClientRestart ==
    /\ faults < MaxFaults /\ "restart" \in Faults
    /\ task' = None /\ late' = None
    /\ caller' = [c \in Callers |-> "idle"]
    /\ op' = IF op.st = "attempted" THEN op ELSE NoOp
    /\ pending' = FALSE
    /\ signal' = TRUE
    /\ faults' = faults + 1
    /\ asked' = [c \in Callers |-> Nothing]
    /\ UNCHANGED <<station, rep, stage, gen, post, resumed>>

\* `revoke_replica`: a new generation, nothing of the peer is kept but commands;
\* a reply already under way belongs to the coordinator of the old one.
Revoke ==
    /\ faults < MaxFaults /\ "revoke" \in Faults
    /\ caller["live"] # "off"
    /\ gen' = gen + 1
    /\ rep' = Empty /\ stage' = None
    /\ late' = IF task # None /\ task.reply # None
               THEN [gen |-> gen, reply |-> task.reply] ELSE None
    /\ task' = None
    /\ op' = IF op.st = "attempted" THEN op ELSE NoOp
    /\ caller' = [caller EXCEPT !["live"] = "off", !["user"] = "idle"]
    /\ pending' = FALSE
    /\ faults' = faults + 1
    /\ asked' = [c \in Callers |-> Nothing]
    /\ UNCHANGED <<station, signal, post, resumed>>

\* The peer is paired again: a new coordinator, of the generation it finds.
Reconnect ==
    /\ caller["live"] = "off"
    /\ caller' = [caller EXCEPT !["live"] = "idle"]
    /\ signal' = TRUE
    /\ UNCHANGED <<station, store, pending, asked, task, post, late, resumed, faults>>

LateReply ==
    /\ late # None
    /\ late' = None
    /\ \/ /\ late.reply.kind = "page"
          /\ IF Acceptable(rep, stage, late.gen, late.reply)
             THEN ApplyPage(late.reply) ELSE UNCHANGED <<rep, stage>>
          /\ UNCHANGED op
       \/ /\ late.reply.kind = "receipt"
          /\ IF late.reply.receipt # None /\ ReceiptAcceptable(late.gen, late.reply.receipt)
             THEN /\ rep' = ApplyReceipt(late.reply.receipt)
                  /\ op' = [op EXCEPT !.receipt = late.reply.receipt]
             ELSE UNCHANGED <<rep, op>>
          /\ UNCHANGED stage
       \/ /\ late.reply.kind = "reset"
          /\ stage' = IF late.gen = gen THEN None ELSE stage
          /\ UNCHANGED <<rep, op>>
    /\ UNCHANGED <<station, gen, loop, signal, task, post, resumed, faults>>

-----------------------------------------------------------------------------
Serve == StationPull \/ StationReceipt \/ StationCommand
Client ==
    \/ TakeLookup \/ TakePage \/ TakeReset \/ TakeReceipt
    \/ UserReturns \/ UserIntend \/ StartCommand
    \/ ReceiveHint \/ RetryPending \/ LiveReturns

Next ==
    \/ StationWrite \/ StationMaintain \/ StationReopen
    \/ Serve
    \/ \E c \in Callers : StartRefresh(c)
    \/ Client
    \/ UserEdit \/ UserRefresh
    \/ RequestFails \/ ClientRestart \/ Revoke \/ Reconnect \/ LateReply

Spec == Init /\ [][Next]_vars

\* The station answers, the client's tasks run, the feed delivers its hints and
\* a retry delay elapses.  Nobody has to edit, fail or be paired again.
Progress == Serve \/ (\E c \in Callers : StartRefresh(c)) \/ Client
LiveSpec == Spec /\ WF_vars(Progress)

-----------------------------------------------------------------------------
(* Properties. *)

Databases ==
    [epoch : Nat, floor : Nat, log : Seq([id : Ids, val : Nat]),
     export : {None} \cup [from : Starts, through : Cursors, pages : Nat, rows : SUBSET Items],
     receipt : {None} \cup Receipts]

\* The values the variables of the two databases, the callers and the counters
\* range over.
TypeOK ==
    /\ db \in Databases /\ mark \in Cursors /\ writes \in Nat
    /\ rep \in [cur : Starts, ents : [Ids -> Rows]]
    /\ stage # None =>
          stage \in [from : Starts, through : Cursors, index : Nat, rows : SUBSET Items]
    /\ gen \in Nat
    /\ op \in [st : {"none", "draft", "intent", "attempted"}, id : Ids, epoch : Nat,
               rev : Nat, saw : Nat, sawEpoch : Nat, receipt : {None} \cup Receipts]
    /\ caller \in [Callers -> {"idle", "refreshing", "ok", "error", "mutating", "off"}]
    /\ {pending, signal, post, resumed} \subseteq BOOLEAN
    /\ task # None => task \in Tasks
    /\ late # None => late.gen \in Nat
    /\ asked \in [Callers -> Cursors]
    /\ faults \in 0 .. MaxFaults

\* What a reader of the replica may find for an object: the version of the cut
\* the cursor names (a deletion known by a tombstone, by absence or by never
\* having heard of the object), or the one a receipt has confirmed.
IsCut(id) ==
    LET row == Row(Upto(db.log, rep.cur.seq), id)
    IN \/ rep.ents[id] = row
       \/ rep.ents[id].val = Gone /\ row.val = Gone
IsConfirmed(id) ==
    op.receipt # None /\ op.id = id /\ rep.ents[id] = op.receipt.row

\* The published catalog is one commit of the station, whatever was paged,
\* interrupted, expired, compacted, restored or revoked on the way: never a mix
\* of two cuts, never a missed deletion, never a version of a lost lineage.
PublishedIsACut ==
    rep.cur # None /\ rep.cur.epoch = db.epoch =>
        /\ rep.cur.seq <= Len(db.log)
        /\ \A id \in Ids : IsCut(id) \/ IsConfirmed(id)

\* After a revocation the client holds nothing of the peer until a coordinator of
\* the new generation has published: no late page, reset or receipt gets in.
RevokedHoldsNothing ==
    caller["live"] = "off" => rep = Empty /\ stage = None

\* A command that was applied replaced the very value its user had looked at,
\* when the user looked in the epoch it was applied in.
NoBlindOverwrite ==
    LET r == db.receipt IN
    r # None /\ r.outcome = "applied" /\ op.sawEpoch = r.epoch =>
        Row(Upto(db.log, r.row.rev - 1), op.id).val = op.saw

\* A command the client knows to be applied is in the station's catalog for as
\* long as the epoch lasts, across power losses and restored backups.
AppliedIsKept ==
    LET r == op.receipt IN
    r # None /\ r.outcome = "applied" /\ r.epoch = db.epoch =>
        /\ db.receipt = r
        /\ r.row.rev \in DOMAIN db.log
        /\ db.log[r.row.rev] = [id |-> op.id, val |-> r.row.val]

\* What has been published is not taken back: within a generation and an epoch
\* neither the cursor nor the version of any object moves backwards.
Forwards ==
    gen' = gen /\ rep.cur # None =>
        /\ rep'.cur # None
        /\ rep'.cur.epoch >= rep.cur.epoch
        /\ rep'.cur.epoch = rep.cur.epoch =>
              /\ rep'.cur.seq >= rep.cur.seq
              /\ \A id \in Ids : rep'.ents[id].rev >= rep.ents[id].rev
NeverBackwards == [][Forwards]_vars

Covers(cursor, point) ==
    \/ cursor.epoch > point.epoch
    \/ cursor.epoch = point.epoch /\ cursor.seq >= point.seq

\* A refresh that succeeds has caught up with every change made before it was
\* asked for, also when it shares another caller's pull, unless that pull only
\* finished a batch staged by an earlier one.
Fresh ==
    \A c \in Callers :
        caller[c] = "refreshing" /\ caller'[c] = "ok" /\ ~resumed' =>
            Covers(rep'.cur, asked[c])
RefreshIsFresh == [][Fresh]_vars

Settled ==
    /\ rep.cur = Here(db)
    /\ \A id \in Ids : rep.ents[id].val = Row(db.log, id).val

\* Once the station stops changing and nothing fails, a client that is not
\* revoked ends up with the station's catalog, unless its last pull only
\* finished a batch staged by an earlier one.
Converges == <>[](Settled \/ IsConfirmed(op.id) \/ resumed \/ caller["live"] = "off")
=============================================================================
