------------------------- MODULE ReplicaSyncProofs -------------------------
(***************************************************************************)
(* What ReplicaSync keeps for every catalog, every bound and every choice   *)
(* of faults.  First revocation: a client whose access is revoked holds     *)
(* nothing of the peer, whichever replies to its earlier coordinator are    *)
(* still under way.  Then the replica itself: what it shows is a cut of the *)
(* catalog of the station, nothing is overwritten unread, an applied        *)
(* command stays applied, and neither a publication nor a refresh goes      *)
(* back on what was there.                                                  *)
(***************************************************************************)
EXTENDS ReplicaSync, FiniteSetTheorems, SequenceTheorems, WellFoundedInduction, TLAPS

CallerStates == {"idle", "refreshing", "ok", "error", "mutating", "off"}

(***************************************************************************)
(* The invariant.  A reply that outlived its coordinator carries a          *)
(* generation older than the store's, which is what every write of it is    *)
(* checked against; and while the live loop is off, nobody holds or asks    *)
(* for the gate, so no other reply can arrive.                              *)
(***************************************************************************)
GenerationsTyped ==
    /\ gen \in Nat
    /\ caller \in [Callers -> CallerStates]
LateIsOlder == late # None => late.gen \in Nat /\ late.gen < gen
OffIsQuiet == caller["live"] = "off" => task = None /\ caller["user"] = "idle"
RevocationInvariant ==
    /\ GenerationsTyped
    /\ LateIsOlder
    /\ OffIsQuiet
    /\ RevokedHoldsNothing

LEMMA CallersAre == Callers = {"live", "user"} /\ "live" \in Callers /\ "user" \in Callers
BY DEF Callers

\* No page of an older generation is acceptable, nor is a receipt.
LEMMA LateIsRefused ==
    ASSUME RevocationInvariant, late # None
    PROVE  /\ ~Acceptable(rep, stage, late.gen, late.reply)
           /\ ~ReceiptAcceptable(late.gen, late.reply.receipt)
           /\ late.gen # gen
<1>1. late.gen \in Nat /\ gen \in Nat /\ late.gen < gen
  BY DEF RevocationInvariant, LateIsOlder, GenerationsTyped
<1>2. late.gen # gen
  BY <1>1
<1> QED
  BY <1>2 DEF Acceptable, ReceiptAcceptable

LEMMA InitRevocation == Init => RevocationInvariant
<1> SUFFICES ASSUME Init PROVE RevocationInvariant
  OBVIOUS
<1>1. caller \in [Callers -> CallerStates]
  BY DEF Init, CallerStates
<1>2. caller["live"] = "idle"
  BY CallersAre DEF Init
<1> QED
  BY <1>1, <1>2 DEF Init, RevocationInvariant, GenerationsTyped, LateIsOlder, OffIsQuiet,
     RevokedHoldsNothing

\* Steps of the station, and of the client while no one is off, leave alone what
\* the invariant is about or find the live loop on.
LEMMA StationKeepsRevocation ==
    ASSUME RevocationInvariant,
           StationWrite \/ StationMaintain \/ StationReopen \/ Serve
    PROVE  RevocationInvariant'
<1>1. UNCHANGED <<gen, caller, late, rep, stage>>
  BY DEF StationWrite, StationMaintain, StationReopen, Serve, StationPull, StationReceipt,
     StationCommand, store, loop
<1>2. task = None => task' = None
  BY DEF StationWrite, StationMaintain, StationReopen, Serve, StationPull, StationReceipt,
     StationCommand
<1> QED
  BY <1>1, <1>2 DEF RevocationInvariant, GenerationsTyped, LateIsOlder, OffIsQuiet,
     RevokedHoldsNothing

\* A step that keeps generations and late replies, and that neither finds nor
\* leaves the live loop off.
LEMMA LiveKeepsRevocation ==
    ASSUME RevocationInvariant,
           UNCHANGED <<gen, late>>,
           caller' \in [Callers -> CallerStates],
           caller'["live"] # "off"
    PROVE  RevocationInvariant'
BY DEF RevocationInvariant, GenerationsTyped, LateIsOlder, OffIsQuiet, RevokedHoldsNothing

\* The gate is held or asked for only while the live loop is on.
LEMMA BusyIsOn ==
    ASSUME RevocationInvariant,
           \/ task # None
           \/ caller["user"] # "idle"
           \/ caller["live"] # "off"
    PROVE  caller["live"] # "off"
BY DEF RevocationInvariant, OffIsQuiet

\* The result of a refresh turns no one off.
LEMMA EndRefreshTypes ==
    ASSUME RevocationInvariant, NEW result \in {"ok", "error"}, EndRefresh(result),
           caller["live"] # "off"
    PROVE  caller' \in [Callers -> CallerStates] /\ caller'["live"] # "off"
<1>1. caller \in [Callers -> CallerStates]
  BY DEF RevocationInvariant, GenerationsTyped
<1>2. caller' = [c \in Callers |-> IF c \in task.covers THEN result ELSE caller[c]]
  BY DEF EndRefresh
<1>3. caller'["live"] \in {result, caller["live"]}
  BY <1>2, CallersAre
<1> QED
  BY <1>1, <1>2, <1>3 DEF CallerStates

\* Steps of the coordinator: each finds the gate held or a caller waiting.
LEMMA CoordinatorKeepsRevocation ==
    ASSUME RevocationInvariant,
           \/ \E c \in Callers : StartRefresh(c)
           \/ TakeLookup \/ TakePage \/ TakeReset \/ TakeReceipt
           \/ StartCommand \/ RequestFails
    PROVE  RevocationInvariant'
<1> USE DEF loop, store
<1>0. caller \in [Callers -> CallerStates]
  BY DEF RevocationInvariant, GenerationsTyped
<1>1. caller["live"] # "off"
  <2>1. CASE task # None
    BY <2>1, BusyIsOn
  <2>2. CASE \E c \in Callers : StartRefresh(c)
    <3>1. caller["live"] = "refreshing" \/ caller["user"] = "refreshing"
      BY <2>2, CallersAre DEF StartRefresh
    <3> QED
      BY <3>1, BusyIsOn
  <2>3. CASE StartCommand
    <3>1. caller["user"] = "mutating"
      BY <2>3 DEF StartCommand
    <3> QED
      BY <3>1, BusyIsOn
  <2> QED
    BY <2>1, <2>2, <2>3 DEF TakeLookup, TakePage, TakeReset, TakeReceipt, RequestFails
<1>2. UNCHANGED <<gen, late>>
  BY DEF StartRefresh, TakeLookup, TakePage, TakeReset, TakeReceipt, StartCommand, RequestFails
<1>3. \/ UNCHANGED caller
      \/ EndRefresh("ok") \/ EndRefresh("error")
      \/ caller' = [caller EXCEPT !["user"] = "idle"]
  BY DEF StartRefresh, TakeLookup, TakePage, TakeReset, TakeReceipt, StartCommand, RequestFails
<1>4. CASE UNCHANGED caller
  BY <1>0, <1>1, <1>2, <1>4, LiveKeepsRevocation
<1>5. CASE EndRefresh("ok") \/ EndRefresh("error")
  BY <1>1, <1>2, <1>5, EndRefreshTypes, LiveKeepsRevocation
<1>6. CASE caller' = [caller EXCEPT !["user"] = "idle"]
  <2>1. caller' \in [Callers -> CallerStates] /\ caller'["live"] = caller["live"]
    BY <1>0, <1>6, CallersAre DEF CallerStates
  <2> QED
    BY <1>1, <1>2, <2>1, LiveKeepsRevocation
<1> QED
  BY <1>3, <1>4, <1>5, <1>6

\* Steps of the user and of the live loop: each finds the live loop on.
LEMMA CallersKeepRevocation ==
    ASSUME RevocationInvariant,
           \/ UserEdit \/ UserRefresh \/ UserReturns \/ UserIntend
           \/ ReceiveHint \/ RetryPending \/ LiveReturns
    PROVE  RevocationInvariant'
<1> USE DEF loop, store, Ask
<1>0. caller \in [Callers -> CallerStates]
  BY DEF RevocationInvariant, GenerationsTyped
<1>1. caller["live"] # "off"
  <2>1. CASE UserReturns \/ UserIntend
    <3>1. caller["user"] # "idle"
      BY <2>1 DEF UserReturns, UserIntend
    <3> QED
      BY <3>1, BusyIsOn
  <2> QED
    BY <2>1 DEF UserEdit, UserRefresh, ReceiveHint, RetryPending, LiveReturns
<1>2. UNCHANGED <<gen, late>>
  BY DEF UserEdit, UserRefresh, UserReturns, UserIntend, ReceiveHint, RetryPending,
     LiveReturns
<1>3. \/ UNCHANGED caller
      \/ \E c \in Callers, s \in CallerStates \ {"off"} : caller' = [caller EXCEPT ![c] = s]
  <2>1. CASE UserEdit \/ UserRefresh
    BY <2>1, CallersAre DEF UserEdit, UserRefresh, CallerStates
  <2>2. CASE UserReturns
    BY <2>2, CallersAre DEF UserReturns, CallerStates
  <2>3. CASE UserIntend
    BY <2>3, CallersAre DEF UserIntend, CallerStates
  <2>4. CASE ReceiveHint
    BY <2>4, CallersAre DEF ReceiveHint, CallerStates
  <2>5. CASE RetryPending \/ LiveReturns
    BY <2>5, CallersAre DEF RetryPending, LiveReturns, CallerStates
  <2> QED
    BY <2>1, <2>2, <2>3, <2>4, <2>5
<1>4. caller' \in [Callers -> CallerStates] /\ caller'["live"] # "off"
  BY <1>0, <1>1, <1>3, CallersAre
<1> QED
  BY <1>2, <1>4, LiveKeepsRevocation

\* A revocation raises the generation past the reply it leaves behind, and a late
\* reply is dropped.
LEMMA FaultsKeepRevocation ==
    ASSUME RevocationInvariant,
           ClientRestart \/ Revoke \/ Reconnect \/ LateReply
    PROVE  RevocationInvariant'
<1> USE DEF loop, store
<1>0. gen \in Nat /\ caller \in [Callers -> CallerStates]
  BY DEF RevocationInvariant, GenerationsTyped
<1>1. CASE ClientRestart
  <2>1. caller' \in [Callers -> CallerStates] /\ caller'["live"] # "off"
    BY <1>1, CallersAre DEF ClientRestart, CallerStates
  <2>2. late' = None /\ gen' = gen
    BY <1>1 DEF ClientRestart
  <2> QED
    BY <1>0, <2>1, <2>2 DEF RevocationInvariant, GenerationsTyped, LateIsOlder, OffIsQuiet,
       RevokedHoldsNothing
<1>2. CASE Revoke
  <2>1. /\ gen' = gen + 1 /\ task' = None /\ rep' = Empty /\ stage' = None
        /\ caller' = [caller EXCEPT !["live"] = "off", !["user"] = "idle"]
    BY <1>2 DEF Revoke
  <2>2. caller' \in [Callers -> CallerStates] /\ caller'["user"] = "idle"
    BY <1>0, <2>1, CallersAre DEF CallerStates
  <2>3. late' # None => late'.gen = gen
    BY <1>2 DEF Revoke
  <2>4. LateIsOlder'
    BY <1>0, <2>1, <2>3 DEF LateIsOlder
  <2>5. Empty' = Empty
    BY DEF Empty, NoRow, Record, Gone
  <2> QED
    BY <1>0, <2>1, <2>2, <2>4, <2>5 DEF RevocationInvariant, GenerationsTyped, OffIsQuiet,
       RevokedHoldsNothing
<1>3. CASE Reconnect
  <2>1. caller' \in [Callers -> CallerStates] /\ caller'["live"] # "off"
    BY <1>0, <1>3, CallersAre DEF Reconnect, CallerStates
  <2> QED
    BY <1>3, <2>1, LiveKeepsRevocation DEF Reconnect
<1>4. CASE LateReply
  <2>1. UNCHANGED <<rep, stage>>
    BY <1>4, LateIsRefused DEF LateReply
  <2>2. UNCHANGED <<gen, caller, task>> /\ late' = None
    BY <1>4 DEF LateReply
  <2> QED
    BY <2>1, <2>2 DEF RevocationInvariant, GenerationsTyped, LateIsOlder, OffIsQuiet,
       RevokedHoldsNothing
<1> QED
  BY <1>1, <1>2, <1>3, <1>4

LEMMA NextKeepsRevocation ==
    ASSUME RevocationInvariant, [Next]_vars
    PROVE  RevocationInvariant'
<1>1. CASE UNCHANGED vars
  BY <1>1 DEF vars, store, loop, RevocationInvariant, GenerationsTyped, LateIsOlder,
     OffIsQuiet, RevokedHoldsNothing
<1>2. CASE Next
  BY <1>2, StationKeepsRevocation, CoordinatorKeepsRevocation, CallersKeepRevocation,
     FaultsKeepRevocation DEF Next, Client
<1> QED
  BY <1>1, <1>2

\* Once access to a peer is revoked (state/replication.rs `revoke_replica_access`,
\* store/replica.rs `revoke_replica`), the client's catalog of it and its staging
\* stay empty until the peer is paired again: a page, a reset or a receipt of the
\* old coordinator never passes the generation check.
THEOREM RevokedAlwaysHoldsNothing == Spec => []RevokedHoldsNothing
<1>1. Spec => []RevocationInvariant
  BY InitRevocation, NextKeepsRevocation, PTL DEF Spec
<1>2. RevocationInvariant => RevokedHoldsNothing
  BY DEF RevocationInvariant
<1> QED
  BY <1>1, <1>2, PTL
-----------------------------------------------------------------------------
(***************************************************************************)
(* What a reader of the replica may rely on.                                *)
(*                                                                          *)
(* The invariant follows a version on its whole way: the export the station *)
(* has frozen, the page under way, what the client has staged, what it has  *)
(* published, and what the user has looked at.  Each is a statement about   *)
(* the station's present log that holds while the lineage lasts; it speaks  *)
(* of positions up to the watermark only, because a database that is opened *)
(* again in the same epoch agrees with the one before it up to there.       *)
(***************************************************************************)
\* The replies fit their tasks.
TaskFits(t) ==
    /\ t \in Tasks
    /\ t.kind = "pull" => t.req \in Requests /\ t.reply \in {None, Reset} \cup Pages
    /\ t.kind # "pull" => t.reply \in {None} \cup ReceiptReplies
    /\ t.kind = "command" /\ t.reply # None => t.reply.receipt \in Receipts
TaskTyped == task # None => TaskFits(task)

\* The version of an object in the cut at position n, and what the log says of one.
At(id, n) == Row(Upto(db.log, n), id)
Truthful(id, row) ==
    row.rev \in DOMAIN db.log /\ db.log[row.rev].id = id => db.log[row.rev].val = row.val
OfCut(id, row, n) ==
    /\ row.rev <= n
    /\ row = At(id, n) \/ (row.val = Gone /\ At(id, n).val = Gone)
    /\ Truthful(id, row)

\* The rows of the batch that leads from a start to the cut at n, in export order.
Delta(from, n) ==
    {[id |-> id, row |-> At(id, n)] :
        id \in {x \in Ids : /\ At(x, n).rev > PositionOf(from)
                            /\ from # None \/ At(x, n).val # Gone}}
Rank(rows, r) == Cardinality({q \in rows : q.id < r.id})

Lineages == db.epoch >= 1 /\ mark.epoch = db.epoch /\ mark.seq <= Len(db.log)
Reached(c) == c.epoch <= db.epoch /\ (c.epoch = db.epoch => c.seq <= mark.seq)
HonestBatch(b) ==
    /\ Reached(b.through)
    /\ b.from # None => b.from.epoch = b.through.epoch /\ b.from.seq <= b.through.seq
Current(b) == b.through.epoch = db.epoch
Whole(b) == Delta(b.from, b.through.seq)

ExportHonest ==
    db.export # None =>
        /\ HonestBatch(db.export)
        /\ Current(db.export)
        /\ db.export.rows = Whole(db.export)
PageHonest(p) ==
    /\ HonestBatch(p)
    /\ Current(p) =>
          /\ p.rows = {r \in Whole(p) : Rank(Whole(p), r) = p.index}
          /\ p.last = (p.index + 1 >= Cardinality(Whole(p)))
StageHonest ==
    stage # None =>
        /\ HonestBatch(stage)
        /\ Current(stage) =>
              stage.rows = {r \in Whole(stage) : Rank(Whole(stage), r) < stage.index}

\* Published: each object as the cut has it, or as a receipt of this lineage.
Confirmed(id) ==
    /\ op.receipt # None /\ op.receipt.epoch = db.epoch
    /\ op.id = id /\ rep.ents[id] = op.receipt.row
CatalogHonest ==
    /\ rep.cur = None => \A id \in Ids : rep.ents[id] = NoRow
    /\ rep.cur # None =>
          /\ Reached(rep.cur)
          /\ rep.cur.epoch = db.epoch =>
                \A id \in Ids : OfCut(id, rep.ents[id], rep.cur.seq) \/ Confirmed(id)

\* There is one command, and one receipt of it.
ReceiptHonest(r) ==
    /\ op.st = "attempted" /\ ~post
    /\ db.receipt \in {None, r} /\ op.receipt \in {None, r}
    /\ r.epoch <= db.epoch
    /\ r.epoch = db.epoch =>
          /\ r.at <= mark.seq /\ r.row.rev <= r.at
          /\ Truthful(op.id, r.row)
          /\ r.outcome = "applied" => db.receipt = r
Paged == task # None /\ task.kind = "pull" /\ task.reply # None /\ task.reply # Reset
Answered ==
    /\ task # None /\ task.kind # "pull"
    /\ task.reply # None /\ task.reply.receipt # None
ReceiptsHonest ==
    /\ db.receipt # None => ReceiptHonest(db.receipt)
    /\ op.receipt # None => ReceiptHonest(op.receipt)
    /\ Answered => ReceiptHonest(task.reply.receipt)
\* An applied command is the change at its position, and replaced what its user saw.
AppliedHonest ==
    db.receipt # None /\ db.receipt.outcome = "applied" =>
        /\ db.receipt.at \in DOMAIN db.log /\ db.receipt.row.rev = db.receipt.at
        /\ db.log[db.receipt.at] = [id |-> op.id, val |-> db.receipt.row.val]
        /\ op.sawEpoch = db.receipt.epoch => At(op.id, db.receipt.at - 1).val = op.saw
CommandHonest ==
    /\ post => op.st = "attempted"
    /\ caller["user"] = "mutating" =>
          op.st = "intent" \/ (task # None /\ task.kind = "command")
    /\ op.sawEpoch <= db.epoch
    /\ op.sawEpoch = db.epoch =>
          op.rev <= mark.seq /\ Truthful(op.id, Record(op.rev, op.saw))

\* A pull answers callers that still wait, and reaches what they had asked for.
Reaches(c) == \A x \in task.covers : Covers(c, asked[x])
PullHonest ==
    task # None /\ task.kind = "pull" =>
        /\ \A x \in task.covers : caller[x] = "refreshing"
        /\ \/ task.req = ReplicaPull(rep, stage)
           \/ stage = None /\ task.req = [after |-> None, next |-> None]
        /\ stage # None /\ ~task.resuming => Reaches(stage.through)
AnswerHonest ==
    Paged =>
        /\ PageHonest(task.reply)
        /\ rep.cur # None => rep.cur.epoch <= task.reply.through.epoch
        /\ ~task.resuming => Reaches(task.reply.through)
AskedPast == \A c \in Callers : Covers(Here(db), asked[c])

-----------------------------------------------------------------------------
(* The log: the last change of an object up to a position. *)

\* A bounded nonempty set of naturals has a greatest element: the least bound.
LEMMA GreatestIs ==
    ASSUME NEW S \in SUBSET Nat, S # {}, NEW b \in Nat, \A y \in S : y <= b
    PROVE  Max(S) \in S /\ \A y \in S : y <= Max(S)
<1> DEFINE Bounds == {n \in Nat : \A y \in S : y <= n}
<1>1. b \in Bounds
  OBVIOUS
<1>2. PICK m \in Bounds : \A n \in Bounds : ~(<<n, m>> \in OpToRel(<, Nat))
  <2>1. Bounds # {} /\ Bounds \subseteq Nat
    BY <1>1
  <2> HIDE DEF Bounds
  <2> QED
    BY <2>1, NatLessThanWellFounded, WFMin
<1>3. \A n \in Bounds : m <= n
  <2> SUFFICES ASSUME NEW n \in Bounds, ~(m <= n) PROVE FALSE
    OBVIOUS
  <2>1. n \in Nat /\ m \in Nat /\ n < m
    OBVIOUS
  <2>2. <<n, m>> \in OpToRel(<, Nat)
    BY <2>1 DEF OpToRel
  <2> QED
    BY <1>2, <2>2
<1>4. m \in S
  <2>1. m \in Nat /\ \A y \in S : y \in Nat /\ y <= m
    OBVIOUS
  <2> SUFFICES ASSUME m \notin S PROVE FALSE
    OBVIOUS
  <2>2. \A y \in S : y <= m - 1
    BY <2>1
  <2>3. PICK y \in S : y \in Nat /\ y <= m - 1
    BY <2>1, <2>2
  <2>4. m - 1 \in Bounds
    BY <2>1, <2>2, <2>3
  <2> QED
    BY <1>3, <2>1, <2>4
<1>5. \A y \in S : y <= m
  OBVIOUS
<1>6. \E x \in S : \A y \in S : x >= y
  BY <1>4, <1>5
<1> QED
  BY <1>6 DEF Max

Entries == [id : Ids, val : Nat]
Logs == Seq(Entries)

LEMMA RevIs ==
    ASSUME NEW log \in Logs, NEW id \in Ids
    PROVE  /\ Rev(log, id) \in 0 .. Len(log)
           /\ Rev(log, id) # 0 => log[Rev(log, id)].id = id
           /\ \A i \in DOMAIN log : log[i].id = id => i <= Rev(log, id)
<1> DEFINE S == {0} \cup {i \in DOMAIN log : log[i].id = id}
<1>1. DOMAIN log = 1 .. Len(log) /\ Len(log) \in Nat
  BY LenProperties DEF Logs
<1>2. S \in SUBSET Nat /\ 0 \in S /\ \A y \in S : y <= Len(log)
  BY <1>1
<1>3. Rev(log, id) = Max(S)
  BY DEF Rev
<1> HIDE DEF S
<1>4. Rev(log, id) \in S /\ \A y \in S : y <= Rev(log, id)
  BY <1>1, <1>2, <1>3, GreatestIs
<1> QED
  BY <1>1, <1>4 DEF S

LEMMA RevUnique ==
    ASSUME NEW log \in Logs, NEW id \in Ids, NEW r \in 0 .. Len(log),
           r # 0 => log[r].id = id,
           \A i \in DOMAIN log : log[i].id = id => i <= r
    PROVE  Rev(log, id) = r
<1>1. DOMAIN log = 1 .. Len(log) /\ Len(log) \in Nat
  BY LenProperties DEF Logs
<1>2. /\ Rev(log, id) \in 0 .. Len(log)
      /\ Rev(log, id) # 0 => log[Rev(log, id)].id = id
      /\ \A i \in DOMAIN log : log[i].id = id => i <= Rev(log, id)
  BY RevIs
<1>3. r # 0 => r <= Rev(log, id)
  BY <1>1, <1>2
<1>4. Rev(log, id) # 0 => Rev(log, id) <= r
  BY <1>1, <1>2
<1> QED
  BY <1>1, <1>2, <1>3, <1>4

LEMMA RowIs ==
    ASSUME NEW log \in Logs, NEW id \in Ids
    PROVE  /\ Row(log, id) \in Rows
           /\ Row(log, id).rev = Rev(log, id)
           /\ Rev(log, id) = 0 => Row(log, id).val = Gone
           /\ Rev(log, id) # 0 => Row(log, id).val = log[Rev(log, id)].val
<1>1. DOMAIN log = 1 .. Len(log) /\ Len(log) \in Nat
  BY LenProperties DEF Logs
<1>2. Rev(log, id) \in 0 .. Len(log)
  BY RevIs
<1>3. Rev(log, id) # 0 => log[Rev(log, id)] \in Entries
  BY <1>1, <1>2, ElementOfSeq DEF Logs
<1> QED
  BY <1>1, <1>2, <1>3 DEF Row, Rows, Record, NoRow, Gone, Entries

LEMMA UptoIs ==
    ASSUME NEW log \in Logs, NEW n \in 0 .. Len(log)
    PROVE  /\ Upto(log, n) \in Logs
           /\ Len(Upto(log, n)) = n
           /\ DOMAIN Upto(log, n) = 1 .. n
           /\ \A i \in 1 .. n : Upto(log, n)[i] = log[i]
<1>1. DOMAIN log = 1 .. Len(log) /\ Len(log) \in Nat
  BY LenProperties DEF Logs
<1>2. \A i \in 1 .. n : log[i] \in Entries
  BY <1>1, ElementOfSeq DEF Logs
<1>3. /\ SubSeq(log, 1, n) \in Seq(Entries)
      /\ Len(SubSeq(log, 1, n)) = IF 1 <= n THEN n - 1 + 1 ELSE 0
      /\ \A i \in 1 .. n - 1 + 1 : SubSeq(log, 1, n)[i] = log[1 + i - 1]
  BY <1>1, <1>2, SubSeqProperties
<1>4. Len(SubSeq(log, 1, n)) = n
  BY <1>1, <1>3
<1>5. DOMAIN SubSeq(log, 1, n) = 1 .. n
  BY <1>3, <1>4, LenProperties
<1>6. \A i \in 1 .. n : SubSeq(log, 1, n)[i] = log[i]
  BY <1>1, <1>3
<1> QED
  BY <1>3, <1>4, <1>5, <1>6 DEF Upto, Logs

\* The version of an object at a position: the last change of it up to there.
LEMMA VersionIs ==
    ASSUME NEW log \in Logs, NEW id \in Ids, NEW n \in 0 .. Len(log)
    PROVE  LET row == Row(Upto(log, n), id) IN
           /\ row \in Rows /\ row.rev \in 0 .. n
           /\ row.rev = 0 => row = NoRow
           /\ row.rev # 0 => log[row.rev] = [id |-> id, val |-> row.val]
           /\ \A i \in 1 .. n : log[i].id = id => i <= row.rev
<1> DEFINE cut == Upto(log, n)
<1>1. DOMAIN log = 1 .. Len(log) /\ Len(log) \in Nat
  BY LenProperties DEF Logs
<1>2. /\ cut \in Logs /\ Len(cut) = n /\ DOMAIN cut = 1 .. n
      /\ \A i \in 1 .. n : cut[i] = log[i]
  BY UptoIs
<1> HIDE DEF cut
<1>3. /\ Rev(cut, id) \in 0 .. n
      /\ Rev(cut, id) # 0 => cut[Rev(cut, id)].id = id
      /\ \A i \in 1 .. n : cut[i].id = id => i <= Rev(cut, id)
  BY <1>2, RevIs
<1>4. /\ Row(cut, id) \in Rows /\ Row(cut, id).rev = Rev(cut, id)
      /\ Rev(cut, id) = 0 => Row(cut, id).val = Gone
      /\ Rev(cut, id) # 0 => Row(cut, id).val = cut[Rev(cut, id)].val
  BY <1>2, RowIs
<1>5. Rev(cut, id) = 0 => Row(cut, id) = NoRow
  BY DEF Row
<1>6. ASSUME Rev(cut, id) # 0 PROVE log[Rev(cut, id)] = [id |-> id, val |-> Row(cut, id).val]
  <2>1. Rev(cut, id) \in 1 .. n /\ Rev(cut, id) \in 1 .. Len(log)
    BY <1>1, <1>3, <1>6
  <2>2. log[Rev(cut, id)] \in Entries
    BY <2>1, ElementOfSeq DEF Logs
  <2>3. log[Rev(cut, id)].id = id /\ log[Rev(cut, id)].val = Row(cut, id).val
    BY <1>2, <1>3, <1>4, <1>6, <2>1
  <2> QED
    BY <2>2, <2>3 DEF Entries
<1>7. \A i \in 1 .. n : log[i].id = id => i <= Rev(cut, id)
  BY <1>2, <1>3
<1> QED
  BY <1>3, <1>4, <1>5, <1>6, <1>7 DEF cut

\* Which version it is, whatever log it is read from.
LEMMA VersionUnique ==
    ASSUME NEW log \in Logs, NEW id \in Ids, NEW n \in 0 .. Len(log), NEW row \in Rows,
           row.rev \in 0 .. n,
           row.rev = 0 => row = NoRow,
           row.rev # 0 => log[row.rev] = [id |-> id, val |-> row.val],
           \A i \in 1 .. n : log[i].id = id => i <= row.rev
    PROVE  Row(Upto(log, n), id) = row
<1> DEFINE at == Row(Upto(log, n), id)
<1>1. /\ at \in Rows /\ at.rev \in 0 .. n
      /\ at.rev = 0 => at = NoRow
      /\ at.rev # 0 => log[at.rev] = [id |-> id, val |-> at.val]
      /\ \A i \in 1 .. n : log[i].id = id => i <= at.rev
  BY VersionIs
<1> HIDE DEF at
<1>2. Len(log) \in Nat
  BY LenProperties DEF Logs
<1>3. row.rev # 0 => row.rev <= at.rev
  BY <1>1, <1>2
<1>4. at.rev # 0 => at.rev <= row.rev
  BY <1>1, <1>2
<1>5. at.rev = row.rev
  BY <1>1, <1>2, <1>3, <1>4
<1>6. at.rev # 0 => at.val = row.val
  BY <1>1, <1>5
<1>7. at = row
  BY <1>1, <1>5, <1>6 DEF Rows
<1> QED
  BY <1>7 DEF at

-----------------------------------------------------------------------------
(* The values the operators of the model return. *)

Exports == [from : Starts, through : Cursors, pages : Nat, rows : SUBSET Items]
Catalogs == [cur : Starts, ents : [Ids -> Rows]]
Stages == [from : Starts, through : Cursors, index : Nat, rows : SUBSET Items]
Commands == [st : {"none", "draft", "intent", "attempted"}, id : Ids, epoch : Nat,
             rev : Nat, saw : Nat, sawEpoch : Nat, receipt : {None} \cup Receipts]

LEMMA IdsAre == Ids \subseteq Nat /\ 1 \in Ids /\ IsFiniteSet(Ids)
<1>1. Cardinality(Ids) \in Nat
  BY ReplicaAssumption, FS_CardinalityType
<1>2. Ids = 1 .. Cardinality(Ids) /\ Ids # {} /\ IsFiniteSet(Ids)
  BY ReplicaAssumption
<1> QED
  BY <1>1, <1>2

LEMMA NoneIsNoCursor == None \notin Cursors
BY ReplicaAssumption DEF Cursors

LEMMA NoneIsNoTask == None \notin Tasks
BY ReplicaAssumption

LEMMA NoRowTyped == NoRow \in Rows /\ NoRow.rev = 0 /\ NoRow.val = Gone /\ Gone \in Nat
BY DEF NoRow, Record, Rows, Gone

LEMMA RecordTyped ==
    ASSUME NEW r \in Nat, NEW v \in Nat
    PROVE  Record(r, v) \in Rows /\ Record(r, v).rev = r /\ Record(r, v).val = v
BY DEF Record, Rows

LEMMA UpsertIs ==
    ASSUME NEW old \in Rows, NEW new \in Rows
    PROVE  /\ Upsert(old, new) \in {old, new} /\ Upsert(old, new) \in Rows
           /\ Upsert(old, new).rev >= old.rev /\ Upsert(old, new).rev >= new.rev
BY DEF Upsert, Rows

\* The station's database, field by field.
LEMMA DatabaseIs ==
    ASSUME NEW d \in Databases
    PROVE  /\ d.epoch \in Nat /\ d.floor \in Nat /\ d.log \in Logs
           /\ d.export \in {None} \cup Exports /\ d.receipt \in {None} \cup Receipts
           /\ Len(d.log) \in Nat /\ DOMAIN d.log = 1 .. Len(d.log)
<1>1. d.log \in Seq(Entries)
  BY DEF Databases, Entries
<1> QED
  BY <1>1, LenProperties DEF Databases, Exports, Starts, Items, Logs

LEMMA HereTyped == ASSUME NEW d \in Databases PROVE Here(d) \in Cursors
BY DatabaseIs DEF Here, Cursor, Cursors

LEMMA NewExportTyped ==
    ASSUME NEW d \in Databases, NEW from \in Starts
    PROVE  NewExport(d, from) \in Exports
<1>1. Here(d) \in Cursors /\ d.log \in Logs
  BY HereTyped, DatabaseIs
<1>2. \A id \in Ids : Row(d.log, id) \in Rows
  BY <1>1, RowIs
<1>3. {[id |-> id, row |-> Row(d.log, id)] :
          id \in {x \in Ids : /\ HasRow(d, x)
                              /\ Rev(d.log, x) > PositionOf(from)
                              /\ from # None \/ Row(d.log, x).val # Gone}}
        \in SUBSET Items
  BY <1>2 DEF Items
<1> QED
  BY <1>1, <1>3 DEF NewExport, Exports

LEMMA PageTyped ==
    ASSUME NEW export \in Exports, NEW index \in Nat
    PROVE  PageOf(export, index) \in Pages
BY DEF PageOf, Pages, Exports

LEMMA PullTyped ==
    ASSUME NEW r \in Catalogs, NEW s, s # None => s \in Stages
    PROVE  ReplicaPull(r, s) \in Requests
BY DEF ReplicaPull, Requests, Catalogs, Stages

\* The staged rows with the page's, and what they are published as.
LEMMA StagedRowsTyped ==
    ASSUME NEW s, s # None => s \in Stages, NEW page \in Pages
    PROVE  StagedRows(s, page) \in SUBSET Items
BY DEF StagedRows, SameBatch, Stages, Pages

LEMMA StagedIs ==
    ASSUME NEW rows \in SUBSET Items, NEW id \in Ids, \E row \in rows : row.id = id
    PROVE  /\ Staged(rows, id) \in rows /\ Staged(rows, id).id = id
           /\ Staged(rows, id).row \in Rows
<1>1. Staged(rows, id) \in rows /\ Staged(rows, id).id = id
  BY DEF Staged
<1> QED
  BY <1>1 DEF Items

LEMMA BaseTyped ==
    ASSUME NEW r \in Catalogs, NEW page \in Pages, NEW rows \in SUBSET Items
    PROVE  Base(r, page, rows) \in [Ids -> Rows]
<1>1. \A id \in Ids : r.ents[id] \in Rows
  BY DEF Catalogs
<1>2. Record(page.through.seq, Gone) \in Rows /\ NoRow \in Rows
  BY NoRowTyped, RecordTyped DEF Pages, Cursors
<1> QED
  BY <1>1, <1>2 DEF Base

LEMMA PublishIs ==
    ASSUME NEW r \in Catalogs, NEW page \in Pages, NEW rows \in SUBSET Items
    PROVE  /\ Publish(r, page, rows) \in Catalogs
           /\ Publish(r, page, rows).cur = page.through
           /\ \A id \in Ids :
                 LET base == Base(r, page, rows)[id]
                     new == Publish(r, page, rows).ents[id] IN
                 /\ base \in Rows
                 /\ (\E row \in rows : row.id = id) => new = Upsert(base, Staged(rows, id).row)
                 /\ ~(\E row \in rows : row.id = id) => new = base
<1> DEFINE base == Base(r, page, rows)
           ents == [id \in Ids |-> IF \E row \in rows : row.id = id
                                   THEN Upsert(base[id], Staged(rows, id).row)
                                   ELSE base[id]]
<1>1. base \in [Ids -> Rows]
  BY BaseTyped
<1>2. Publish(r, page, rows) = [cur |-> page.through, ents |-> ents]
  BY DEF Publish
<1> HIDE DEF base
<1>3. ASSUME NEW id \in Ids PROVE ents[id] \in Rows
  <2>1. CASE \E row \in rows : row.id = id
    <3>1. ents[id] = Upsert(base[id], Staged(rows, id).row)
      BY <2>1
    <3> QED
      BY <1>1, <2>1, <3>1, StagedIs, UpsertIs
  <2>2. CASE ~\E row \in rows : row.id = id
    BY <1>1, <2>2
  <2> QED
    BY <2>1, <2>2
<1>4. ents \in [Ids -> Rows]
  BY <1>3
<1>5. page.through \in Starts
  BY DEF Pages, Starts
<1> QED
  BY <1>1, <1>2, <1>4, <1>5 DEF Catalogs, base

LEMMA ReceiptRowTyped ==
    ASSUME NEW r \in Receipts
    PROVE  r.row \in Rows /\ r.epoch \in Nat /\ r.at \in Nat
BY DEF Receipts

\* A receipt changes its object only, and not to an older version.
LEMMA ReceiptIs ==
    ASSUME rep \in Catalogs, op \in Commands, NEW r \in Receipts
    PROVE  /\ ApplyReceipt(r) \in Catalogs /\ ApplyReceipt(r).cur = rep.cur
           /\ \A id \in Ids :
                 /\ ApplyReceipt(r).ents[id].rev >= rep.ents[id].rev
                 /\ \/ ApplyReceipt(r).ents[id] = rep.ents[id]
                    \/ id = op.id /\ ApplyReceipt(r).ents[id] = r.row /\ ReceiptApplies(r)
<1>1. op.id \in Ids /\ r.row \in Rows
  BY ReceiptRowTyped DEF Commands
<1>2. rep.ents \in [Ids -> Rows] /\ rep.cur \in Starts
  BY DEF Catalogs
<1>3. CASE ~ReceiptApplies(r)
  <2>1. ApplyReceipt(r) = rep
    BY <1>3 DEF ApplyReceipt
  <2>2. \A id \in Ids : rep.ents[id].rev \in Nat
    BY <1>2 DEF Rows
  <2> QED
    BY <2>1, <2>2
<1>4. CASE ReceiptApplies(r)
  <2> DEFINE new == Upsert(rep.ents[op.id], r.row)
  <2>1. ApplyReceipt(r) = [rep EXCEPT !.ents[op.id] = new]
    BY <1>4 DEF ApplyReceipt
  <2>2. new \in {rep.ents[op.id], r.row} /\ new \in Rows /\ new.rev >= rep.ents[op.id].rev
    BY <1>1, <1>2, UpsertIs
  <2> HIDE DEF new
  <2>3. /\ ApplyReceipt(r) = [cur |-> rep.cur, ents |-> [rep.ents EXCEPT ![op.id] = new]]
    BY <2>1 DEF Catalogs
  <2>4. [rep.ents EXCEPT ![op.id] = new] \in [Ids -> Rows]
    BY <1>2, <2>2
  <2>5. \A id \in Ids : rep.ents[id].rev \in Nat
    BY <1>2 DEF Rows
  <2>6. \A id \in Ids : ApplyReceipt(r).ents[id] = IF id = op.id THEN new ELSE rep.ents[id]
    BY <1>2, <2>3
  <2> QED
    BY <1>2, <1>4, <2>2, <2>3, <2>4, <2>5, <2>6 DEF Catalogs
<1> QED
  BY <1>3, <1>4

-----------------------------------------------------------------------------
(* What the station's steps do to its database. *)

LEMMA DatabaseTyped ==
    ASSUME NEW d, NEW e \in Nat, NEW f \in Nat, NEW log \in Logs,
           NEW x \in {None} \cup Exports, NEW r \in {None} \cup Receipts,
           d = [epoch |-> e, floor |-> f, export |-> x, receipt |-> r, log |-> log]
    PROVE  /\ d \in Databases
           /\ d.epoch = e /\ d.floor = f /\ d.export = x /\ d.receipt = r /\ d.log = log
<1>1. log \in Seq([id : Ids, val : Nat])
  BY DEF Logs, Entries
<1>2. x \in {None} \cup [from : Starts, through : Cursors, pages : Nat, rows : SUBSET Items]
  BY DEF Exports
<1> QED
  BY <1>1, <1>2 DEF Databases

\* The fields of a database again, for updates of one or two of them.
LEMMA DatabaseFields ==
    ASSUME NEW d \in Databases
    PROVE  d = [epoch |-> d.epoch, floor |-> d.floor, export |-> d.export,
                receipt |-> d.receipt, log |-> d.log]
BY DEF Databases

LEMMA ExportReplaced ==
    ASSUME NEW d \in Databases, NEW x \in {None} \cup Exports, NEW e,
           e = [epoch |-> d.epoch, floor |-> d.floor, export |-> x,
                receipt |-> d.receipt, log |-> d.log]
    PROVE  /\ e \in Databases
           /\ e.epoch = d.epoch /\ e.floor = d.floor /\ e.export = x
           /\ e.receipt = d.receipt /\ e.log = d.log
<1>1. /\ d.epoch \in Nat /\ d.floor \in Nat /\ d.log \in Logs
      /\ d.receipt \in {None} \cup Receipts
  BY DatabaseIs
<1> QED
  BY <1>1, DatabaseTyped

LEMMA ChangedIs ==
    ASSUME NEW d \in Databases, NEW id \in Ids, NEW val \in Nat
    PROVE  LET c == Changed(d, id, val) IN
           /\ c \in Databases
           /\ c.epoch = d.epoch /\ c.floor = d.floor
           /\ c.export = d.export /\ c.receipt = d.receipt
           /\ Len(c.log) = Len(d.log) + 1
           /\ c.log[Len(d.log) + 1] = [id |-> id, val |-> val]
           /\ \A i \in 1 .. Len(d.log) : c.log[i] = d.log[i]
<1> DEFINE entry == [id |-> id, val |-> val]
           log == Append(d.log, entry)
<1>1. entry \in Entries
  BY DEF Entries
<1>2. /\ d.epoch \in Nat /\ d.floor \in Nat /\ d.log \in Logs
      /\ d.export \in {None} \cup Exports /\ d.receipt \in {None} \cup Receipts
  BY DatabaseIs
<1>3. /\ log \in Logs /\ Len(log) = Len(d.log) + 1
      /\ log[Len(d.log) + 1] = entry
      /\ \A i \in 1 .. Len(d.log) : log[i] = d.log[i]
  BY <1>1, <1>2, AppendProperties DEF Logs
<1>4. Changed(d, id, val) = [d EXCEPT !.log = log]
  BY DEF Changed
<1> HIDE DEF log
<1>5. Changed(d, id, val) = [epoch |-> d.epoch, floor |-> d.floor, export |-> d.export,
                             receipt |-> d.receipt, log |-> log]
  BY <1>4, DatabaseFields
<1> QED
  BY <1>2, <1>3, <1>5, DatabaseTyped

LEMMA LineageIs ==
    ASSUME NEW e \in Databases, NEW m \in Cursors
    PROVE  LET d == Lineage(e, m) IN
           /\ d \in Databases
           /\ d.floor = e.floor /\ d.log = e.log /\ d.receipt = e.receipt
           /\ \/ d = e /\ m.epoch = e.epoch /\ m.seq <= Len(e.log)
              \/ d.epoch = m.epoch + 1 /\ d.export = None
<1> DEFINE d == [e EXCEPT !.epoch = m.epoch + 1, !.export = None]
<1>1. /\ e.epoch \in Nat /\ e.floor \in Nat /\ e.log \in Logs
      /\ e.export \in {None} \cup Exports /\ e.receipt \in {None} \cup Receipts
      /\ Len(e.log) \in Nat /\ m.epoch \in Nat /\ m.seq \in Nat
  BY DatabaseIs DEF Cursors
<1>2. d = [epoch |-> m.epoch + 1, floor |-> e.floor, export |-> None,
           receipt |-> e.receipt, log |-> e.log]
  <2>1. e = [epoch |-> e.epoch, floor |-> e.floor, export |-> e.export,
             receipt |-> e.receipt, log |-> e.log]
    BY DatabaseFields
  <2> DEFINE next == m.epoch + 1
  <2>2. d = [e EXCEPT !.epoch = next, !.export = None]
    OBVIOUS
  <2> HIDE DEF d, next
  <2>3. d = [epoch |-> next, floor |-> e.floor, export |-> None,
             receipt |-> e.receipt, log |-> e.log]
    BY <2>1, <2>2
  <2> QED
    BY <2>3 DEF next
<1> HIDE DEF d
<1>3. /\ d \in Databases /\ d.floor = e.floor /\ d.log = e.log /\ d.receipt = e.receipt
      /\ d.epoch = m.epoch + 1 /\ d.export = None
  BY <1>1, <1>2, DatabaseTyped
<1>4. CASE m.epoch # e.epoch \/ m.seq > Len(e.log)
  <2>1. Lineage(e, m) = d
    BY <1>4 DEF Lineage, d
  <2> QED
    BY <1>3, <2>1
<1>5. CASE ~(m.epoch # e.epoch \/ m.seq > Len(e.log))
  <2>1. Lineage(e, m) = e
    BY <1>5 DEF Lineage
  <2> QED
    BY <1>1, <1>5, <2>1
<1> QED
  BY <1>4, <1>5

LEMMA EarlierIs ==
    ASSUME NEW d \in Databases, NEW e \in Earlier(d)
    PROVE  /\ e \in Databases
           /\ e.epoch = d.epoch
           /\ e.export \in {None, d.export} /\ e.receipt \in {None, d.receipt}
           /\ Len(e.log) <= Len(d.log)
           /\ \A i \in 1 .. Len(e.log) : e.log[i] = d.log[i]
<1>1. /\ d.epoch \in Nat /\ d.floor \in Nat /\ d.log \in Logs /\ Len(d.log) \in Nat
      /\ d.export \in {None} \cup Exports /\ d.receipt \in {None} \cup Receipts
  BY DatabaseIs
<1>2. PICK n \in 0 .. Len(d.log), floor \in 0 .. d.floor,
           export \in {None, d.export}, receipt \in {None, d.receipt} :
        e = [epoch |-> d.epoch, floor |-> floor, log |-> Upto(d.log, n),
             export |-> export, receipt |-> receipt]
  BY DEF Earlier
<1> DEFINE log == Upto(d.log, n)
<1>3. log \in Logs /\ Len(log) = n /\ \A i \in 1 .. n : log[i] = d.log[i]
  BY <1>1, UptoIs
<1>4. e = [epoch |-> d.epoch, floor |-> floor, export |-> export, receipt |-> receipt,
           log |-> log]
  BY <1>2
<1> HIDE DEF log
<1>5. /\ e \in Databases /\ e.epoch = d.epoch /\ e.export = export /\ e.receipt = receipt
      /\ e.log = log
  BY <1>1, <1>3, <1>4, DatabaseTyped
<1> QED
  BY <1>1, <1>3, <1>5

StationTypes == db \in Databases /\ mark \in Cursors /\ writes \in Nat

\* A database that is opened again holds a beginning of the log; in the same epoch one up to
\* the watermark, with whatever was committed by then.
LEMMA ReopenIs ==
    ASSUME StationTypes, Lineages, StationReopen
    PROVE  /\ db' \in Databases /\ mark' = Here(db')
           /\ Len(db'.log) <= Len(db.log)
           /\ \A i \in 1 .. Len(db'.log) : db'.log[i] = db.log[i]
           /\ db'.receipt \in {None, db.receipt}
           /\ db'.receipt # None => db'.receipt.at <= Len(db'.log)
           /\ \/ /\ db'.epoch = db.epoch /\ mark.seq <= Len(db'.log)
                 /\ db'.export \in {None, db.export}
                 /\ db'.export # None => db'.export.through.seq <= Len(db'.log)
                 /\ db.receipt # None /\ db.receipt.outcome = "applied"
                       /\ db.receipt.at <= mark.seq => db'.receipt = db.receipt
              \/ db'.epoch = db.epoch + 1 /\ db'.export = None
<1>1. /\ db \in Databases /\ mark \in Cursors /\ mark.epoch = db.epoch
      /\ mark' = Here(db') /\ db.epoch \in Nat /\ Len(db.log) \in Nat
  BY DatabaseIs DEF StationTypes, Lineages, StationReopen
<1>2. CASE \E e \in {e \in Earlier(db) : Possible(db, e)} : db' = Lineage(e, mark)
  <2>1. PICK e \in Earlier(db) : Possible(db, e) /\ db' = Lineage(e, mark)
    BY <1>2
  <2>2. /\ e \in Databases /\ e.epoch = db.epoch
        /\ e.export \in {None, db.export} /\ e.receipt \in {None, db.receipt}
        /\ Len(e.log) <= Len(db.log)
        /\ \A i \in 1 .. Len(e.log) : e.log[i] = db.log[i]
    BY <1>1, EarlierIs
  <2>3. /\ db' \in Databases /\ db'.log = e.log /\ db'.receipt = e.receipt
        /\ \/ db' = e /\ mark.seq <= Len(e.log)
           \/ db'.epoch = db.epoch + 1 /\ db'.export = None
    BY <1>1, <2>1, <2>2, LineageIs
  <2>4. e.receipt # None => e.receipt.at <= Len(e.log)
    BY <2>1, <2>2 DEF Possible
  <2>5. e.export # None => e.export.through.seq <= Len(e.log)
    BY <2>1 DEF Possible
  <2>6. ASSUME mark.seq <= Len(e.log), db.receipt # None, db.receipt.outcome = "applied",
               db.receipt.at <= mark.seq
        PROVE  e.receipt = db.receipt
    <3>1. Len(e.log) \in Nat /\ mark.seq \in Nat
      BY <1>1, <2>2, DatabaseIs DEF Cursors
    <3>2. db.receipt.at \in Nat
      BY <1>1, <2>6, DatabaseIs, ReceiptRowTyped
    <3>3. e.receipt = None => db.receipt.at > Len(e.log)
      BY <2>1, <2>6 DEF Possible
    <3> QED
      BY <2>2, <2>6, <3>1, <3>2, <3>3
  <2> QED
    BY <1>1, <2>2, <2>3, <2>4, <2>5, <2>6
<1>3. CASE post /\ CommandApplies /\ db' = Lineage(db, Cursor(db.epoch, Len(db.log) + 1))
  <2> DEFINE m == Cursor(db.epoch, Len(db.log) + 1)
  <2>1. m \in Cursors /\ m.epoch = db.epoch /\ m.seq = Len(db.log) + 1
    BY <1>1 DEF Cursor, Cursors
  <2> HIDE DEF m
  <2>2. /\ db' \in Databases /\ db'.log = db.log /\ db'.receipt = db.receipt
        /\ db'.epoch = db.epoch + 1 /\ db'.export = None
    BY <1>1, <1>3, <2>1, LineageIs DEF m
  <2>3. db.receipt = None
    BY <1>3 DEF CommandApplies
  <2> QED
    BY <1>1, <2>2, <2>3
<1> QED
  BY <1>2, <1>3 DEF StationReopen

\* A pull is answered by a reset, or by a page of the export it leaves behind, which is a new
\* one or the one the request names.
LEMMA PullIs ==
    ASSUME StationTypes, TaskTyped, StationPull
    PROVE  /\ task # None /\ task.kind = "pull" /\ task.reply = None
           /\ \/ UNCHANGED <<db, mark>> /\ task' = [task EXCEPT !.reply = Reset]
              \/ \E export \in Exports, index \in Nat, pages \in Nat :
                    /\ task' = [task EXCEPT !.reply = PageOf(export, index)]
                    /\ db' \in Databases /\ mark' = Here(db)
                    /\ db'.export = [export EXCEPT !.pages = pages]
                    /\ db'.epoch = db.epoch /\ db'.log = db.log /\ db'.receipt = db.receipt
                    /\ \/ /\ ~CursorUnavailable(db, task.req.after)
                          /\ export = NewExport(db, task.req.after)
                       \/ /\ task.req.next # None /\ db.export # None /\ export = db.export
                          /\ db.export.through = task.req.next.through
<1>1. /\ task # None /\ task.kind = "pull" /\ task.reply = None
      /\ task \in Tasks /\ task.req \in Requests
  BY DEF StationPull, TaskTyped, TaskFits
<1>2. CASE CursorUnavailable(db, task.req.after) \/ BatchExpired(db, task.req)
  BY <1>1, <1>2 DEF StationPull
<1>3. CASE ~(CursorUnavailable(db, task.req.after) \/ BatchExpired(db, task.req))
  <2> DEFINE export == IF task.req.next = None
                       THEN NewExport(db, task.req.after) ELSE db.export
             index == IF task.req.next = None THEN 0 ELSE task.req.next.index
             pages == IF PageOf(export, index).last THEN export.pages
                      ELSE Max({export.pages, index + 1})
  <2>1. /\ task' = [task EXCEPT !.reply = PageOf(export, index)]
        /\ db' = [db EXCEPT !.export =
                     [export EXCEPT !.pages =
                         IF task'.reply.last THEN @ ELSE Max({@, index + 1})]]
        /\ mark' = Here(db)
    BY <1>3 DEF StationPull
  <2>2. task.req.after \in Starts /\ index \in Nat
    BY <1>1 DEF Requests
  <2>3. db.export \in {None} \cup Exports /\ db \in Databases
    BY DatabaseIs DEF StationTypes
  <2>4. export \in Exports
    <3>1. CASE task.req.next = None
      BY <2>2, <2>3, <3>1, NewExportTyped
    <3>2. CASE task.req.next # None
      BY <1>3, <2>3, <3>2 DEF BatchExpired
    <3> QED
      BY <3>1, <3>2
  <2>5. \/ /\ ~CursorUnavailable(db, task.req.after)
           /\ export = NewExport(db, task.req.after)
        \/ /\ task.req.next # None /\ db.export # None /\ export = db.export
           /\ db.export.through = task.req.next.through
    BY <1>3 DEF BatchExpired
  <2>6. task'.reply = PageOf(export, index)
    BY <1>1, <2>1 DEF Tasks
  <2> HIDE DEF export, index
  <2>7. pages \in Nat
    <3>1. export.pages \in Nat /\ index + 1 \in Nat
      BY <2>2, <2>4 DEF Exports
    <3>2. Max({export.pages, index + 1}) \in {export.pages, index + 1}
      <4>1. \E b \in Nat : \A y \in {export.pages, index + 1} : y <= b
        <5>1. export.pages <= export.pages + index + 1 /\ index + 1 <= export.pages + index + 1
          BY <2>2, <3>1
        <5> QED
          BY <2>2, <3>1, <5>1
      <4> QED
        BY <3>1, <4>1, GreatestIs
    <3> QED
      BY <3>1, <3>2
  <2>8. db' = [db EXCEPT !.export = [export EXCEPT !.pages = pages]]
    BY <2>1, <2>6
  <2> HIDE DEF pages
  <2>9. [export EXCEPT !.pages = pages] \in Exports
    BY <2>4, <2>7 DEF Exports
  <2>10. /\ db' \in Databases /\ db'.export = [export EXCEPT !.pages = pages]
         /\ db'.epoch = db.epoch /\ db'.log = db.log /\ db'.receipt = db.receipt
    <3> DEFINE x == [export EXCEPT !.pages = pages]
    <3>1. x \in {None} \cup Exports /\ db' = [db EXCEPT !.export = x]
      BY <2>8, <2>9
    <3> HIDE DEF x
    <3>2. db' = [epoch |-> db.epoch, floor |-> db.floor, export |-> x,
                 receipt |-> db.receipt, log |-> db.log]
      BY <2>3, <3>1, DatabaseFields
    <3>3. /\ db' \in Databases /\ db'.epoch = db.epoch /\ db'.export = x
          /\ db'.log = db.log /\ db'.receipt = db.receipt
      BY <2>3, <3>1, <3>2, ExportReplaced
    <3> QED
      BY <3>3 DEF x
  <2> QED
    BY <1>1, <2>1, <2>2, <2>4, <2>5, <2>7, <2>10
<1> QED
  BY <1>2, <1>3

\* A command that applies is the next change; any other one leaves the log alone.  The receipt
\* is a new one unless the station still has one.
LEMMA CommandIs ==
    ASSUME StationTypes, op \in Commands, StationCommand
    PROVE  /\ post /\ ~post' /\ mark' = Here(db') /\ db' \in Databases
           /\ db'.epoch = db.epoch /\ db'.export = db.export
           /\ db'.receipt \in Receipts
           /\ db.receipt # None => db'.receipt = db.receipt
           /\ db.receipt = None => db'.receipt.epoch = db.epoch /\ db'.receipt.at = Len(db'.log)
           /\ \/ /\ CommandApplies
                 /\ Len(db'.log) = Len(db.log) + 1
                 /\ \A i \in 1 .. Len(db.log) : db'.log[i] = db.log[i]
                 /\ db'.log[Len(db.log) + 1] = [id |-> op.id, val |-> db'.receipt.row.val]
                 /\ db'.receipt.row.rev = Len(db.log) + 1
              \/ /\ db'.log = db.log
                 /\ db.receipt = None => /\ db'.receipt.outcome # "applied"
                                         /\ db'.receipt.row \in {NoRow, Row(db.log, op.id)}
           /\ writes' \in Nat
           /\ \/ UNCHANGED task
              \/ /\ task # None /\ task.kind = "command" /\ task.reply = None
                 /\ task' = [task EXCEPT !.reply = [kind |-> "receipt", receipt |-> db'.receipt]]
<1>1. /\ db \in Databases /\ op.id \in Ids /\ writes \in Nat /\ writes + 1 \in Nat
      /\ writes + 1 # Gone
  BY DEF StationTypes, Commands, Gone
<1>2. PICK accepted \in BOOLEAN :
          LET applied == CommandApplies /\ accepted
              after == IF applied THEN Changed(db, op.id, writes + 1) ELSE db
              receipt == [epoch |-> db.epoch,
                          outcome |-> IF applied THEN "applied"
                                      ELSE IF CommandApplies THEN "rejected"
                                      ELSE "conflict",
                          at |-> Len(after.log),
                          row |-> IF HasRow(after, op.id)
                                  THEN Row(after.log, op.id) ELSE NoRow]
          IN /\ db' = [after EXCEPT !.receipt = IF @ = None THEN receipt ELSE @]
             /\ writes' = IF applied THEN writes + 1 ELSE writes
             /\ signal' = (signal \/ applied)
  BY DEF StationCommand
<1> DEFINE applied == CommandApplies /\ accepted
           after == IF applied THEN Changed(db, op.id, writes + 1) ELSE db
           row == IF HasRow(after, op.id) THEN Row(after.log, op.id) ELSE NoRow
           outcome == IF applied THEN "applied"
                      ELSE IF CommandApplies THEN "rejected" ELSE "conflict"
           receipt == [epoch |-> db.epoch, outcome |-> outcome, at |-> Len(after.log),
                       row |-> row]
<1>3. /\ db' = [after EXCEPT !.receipt = IF after.receipt = None THEN receipt ELSE after.receipt]
      /\ writes' = IF applied THEN writes + 1 ELSE writes
  BY <1>2
<1>4. /\ outcome \in {"applied", "conflict", "rejected"}
      /\ outcome = "applied" => applied
  OBVIOUS
<1>5. /\ after \in Databases /\ after.epoch = db.epoch /\ after.floor = db.floor
      /\ after.export = db.export /\ after.receipt = db.receipt
      /\ applied => /\ Len(after.log) = Len(db.log) + 1
                    /\ after.log[Len(db.log) + 1] = [id |-> op.id, val |-> writes + 1]
                    /\ \A i \in 1 .. Len(db.log) : after.log[i] = db.log[i]
      /\ ~applied => after = db
  BY <1>1, ChangedIs
<1> HIDE DEF after, outcome
<1>6. /\ after.log \in Logs /\ Len(after.log) \in Nat /\ Len(db.log) \in Nat
      /\ db.epoch \in Nat /\ after.floor \in Nat /\ DOMAIN after.log = 1 .. Len(after.log)
      /\ after.export \in {None} \cup Exports /\ after.receipt \in {None} \cup Receipts
  BY <1>1, <1>5, DatabaseIs
<1>7. row \in Rows /\ row \in {NoRow, Row(after.log, op.id)}
  BY <1>1, <1>6, RowIs, NoRowTyped
<1>8. ASSUME applied PROVE row.rev = Len(db.log) + 1 /\ row.val = writes + 1
  <2>1. Rev(after.log, op.id) = Len(db.log) + 1
    <3>1. Len(db.log) + 1 \in 0 .. Len(after.log)
      BY <1>5, <1>6, <1>8
    <3>2. after.log[Len(db.log) + 1].id = op.id
      BY <1>5, <1>8
    <3>3. \A i \in DOMAIN after.log : after.log[i].id = op.id => i <= Len(db.log) + 1
      BY <1>5, <1>6, <1>8
    <3> QED
      BY <1>1, <1>6, <3>1, <3>2, <3>3, RevUnique
  <2>2. /\ Row(after.log, op.id).rev = Len(db.log) + 1
        /\ Row(after.log, op.id).val = writes + 1
    BY <1>1, <1>5, <1>6, <1>8, <2>1, RowIs
  <2>3. HasRow(after, op.id)
    BY <1>1, <1>6, <2>1, <2>2 DEF HasRow
  <2> QED
    BY <2>2, <2>3
<1> HIDE DEF row
<1>9. receipt \in Receipts
  BY <1>4, <1>6, <1>7 DEF Receipts
<1>10. /\ receipt.epoch = db.epoch /\ receipt.at = Len(after.log)
       /\ receipt.row = row /\ receipt.outcome = outcome
  OBVIOUS
<1> HIDE DEF receipt
<1> DEFINE given == IF after.receipt = None THEN receipt ELSE after.receipt
<1>11. given \in Receipts
  BY <1>6, <1>9
<1>12. /\ db' \in Databases /\ db'.epoch = db.epoch /\ db'.export = db.export
       /\ db'.receipt = given /\ db'.log = after.log
  <2> HIDE DEF given
  <2>1. db' = [epoch |-> after.epoch, floor |-> after.floor, export |-> after.export,
               receipt |-> given, log |-> after.log]
    <3>1. db' = [after EXCEPT !.receipt = given]
      BY <1>3 DEF given
    <3> QED
      BY <1>5, <3>1, DatabaseFields
  <2>2. after.epoch \in Nat
    BY <1>5, <1>6
  <2> QED
    BY <1>5, <1>6, <1>11, <2>1, <2>2, DatabaseTyped
<1>14. applied => db.receipt = None
  BY DEF CommandApplies
<1>15. \/ /\ CommandApplies
          /\ Len(db'.log) = Len(db.log) + 1
          /\ \A i \in 1 .. Len(db.log) : db'.log[i] = db.log[i]
          /\ db'.log[Len(db.log) + 1] = [id |-> op.id, val |-> db'.receipt.row.val]
          /\ db'.receipt.row.rev = Len(db.log) + 1
       \/ /\ db'.log = db.log
          /\ db.receipt = None => /\ db'.receipt.outcome # "applied"
                                  /\ db'.receipt.row \in {NoRow, Row(db.log, op.id)}
  <2>1. CASE applied
    BY <1>5, <1>8, <1>10, <1>12, <1>14, <2>1
  <2>2. CASE ~applied
    BY <1>4, <1>5, <1>7, <1>10, <1>12, <2>2
  <2> QED
    BY <2>1, <2>2
<1>16. /\ post /\ ~post' /\ mark' = Here(db')
       /\ \/ UNCHANGED task
          \/ /\ task # None /\ task.kind = "command" /\ task.reply = None
             /\ task' = [task EXCEPT !.reply = [kind |-> "receipt", receipt |-> db'.receipt]]
  BY DEF StationCommand
<1>17. writes' \in Nat
  BY <1>1, <1>3
<1> QED
  BY <1>5, <1>6, <1>10, <1>11, <1>12, <1>15, <1>16, <1>17

-----------------------------------------------------------------------------
(* What a step of the station leaves true of versions already handed out. *)

\* The station goes on in its lineage, and keeps the log up to the watermark, or starts a
\* new one.
SameLineage ==
    /\ db'.epoch = db.epoch /\ mark.seq <= mark'.seq
    /\ mark.seq <= Len(db.log) /\ mark.seq <= Len(db'.log)
    /\ \A i \in 1 .. mark.seq : db'.log[i] = db.log[i]
NewLineage == db'.epoch = db.epoch + 1
StationMoves ==
    /\ StationTypes /\ StationTypes'
    /\ Lineages /\ Lineages'
    /\ SameLineage \/ NewLineage

LEMMA MoveNumbers ==
    ASSUME StationMoves
    PROVE  /\ db.epoch \in Nat /\ db'.epoch \in Nat /\ mark.seq \in Nat /\ mark'.seq \in Nat
           /\ db.log \in Logs /\ db'.log \in Logs
           /\ Len(db.log) \in Nat /\ Len(db'.log) \in Nat
           /\ DOMAIN db.log = 1 .. Len(db.log) /\ DOMAIN db'.log = 1 .. Len(db'.log)
<1>1. db \in Databases /\ db' \in Databases /\ mark \in Cursors /\ mark' \in Cursors
  BY DEF StationMoves, StationTypes
<1> QED
  BY <1>1, DatabaseIs DEF Cursors

LEMMA MoveAt ==
    ASSUME StationMoves, SameLineage, NEW id \in Ids, NEW n \in 0 .. mark.seq
    PROVE  At(id, n)' = At(id, n)
<1>1. /\ db.log \in Logs /\ db'.log \in Logs /\ mark.seq \in Nat
      /\ n \in 0 .. Len(db.log) /\ n \in 0 .. Len(db'.log)
      /\ \A i \in 1 .. n : db'.log[i] = db.log[i]
  BY MoveNumbers, SMTT(30) DEF SameLineage
<1> DEFINE row == Row(Upto(db.log, n), id)
<1>2. /\ row \in Rows /\ row.rev \in 0 .. n
      /\ row.rev = 0 => row = NoRow
      /\ row.rev # 0 => db.log[row.rev] = [id |-> id, val |-> row.val]
      /\ \A i \in 1 .. n : db.log[i].id = id => i <= row.rev
  BY <1>1, VersionIs
<1> HIDE DEF row
<1>3. row.rev # 0 => db'.log[row.rev] = [id |-> id, val |-> row.val]
  BY <1>1, <1>2
<1>4. \A i \in 1 .. n : db'.log[i].id = id => i <= row.rev
  BY <1>1, <1>2
<1>5. Row(Upto(db'.log, n), id) = row
  BY <1>1, <1>2, <1>3, <1>4, VersionUnique
<1> QED
  BY <1>5 DEF At, row

LEMMA MoveTruth ==
    ASSUME StationMoves, SameLineage, NEW id \in Ids, NEW row \in Rows, row.rev <= mark.seq,
           Truthful(id, row)
    PROVE  Truthful(id, row)'
<1>1. /\ row.rev \in Nat /\ mark.seq <= Len(db.log) /\ mark.seq <= Len(db'.log)
      /\ \A i \in 1 .. mark.seq : db'.log[i] = db.log[i]
  BY DEF SameLineage, Rows
<1> SUFFICES ASSUME row.rev \in DOMAIN db'.log, db'.log[row.rev].id = id
             PROVE  db'.log[row.rev].val = row.val
  BY DEF Truthful
<1>2. row.rev \in 1 .. mark.seq /\ row.rev \in DOMAIN db.log
  BY <1>1, MoveNumbers
<1> QED
  BY <1>1, <1>2 DEF Truthful

LEMMA MoveOfCut ==
    ASSUME StationMoves, SameLineage, NEW id \in Ids, NEW row \in Rows, NEW n \in 0 .. mark.seq,
           OfCut(id, row, n)
    PROVE  OfCut(id, row, n)'
<1>1. At(id, n)' = At(id, n)
  BY MoveAt
<1>2. Truthful(id, row)'
  <2>1. row.rev <= mark.seq /\ Truthful(id, row)
    BY MoveNumbers DEF OfCut, Rows
  <2> QED
    BY <2>1, MoveTruth
<1> QED
  BY <1>1, <1>2 DEF OfCut

LEMMA MoveDelta ==
    ASSUME StationMoves, SameLineage, NEW from, NEW n \in 0 .. mark.seq
    PROVE  Delta(from, n)' = Delta(from, n)
<1>1. \A id \in Ids : At(id, n)' = At(id, n)
  BY MoveAt
<1>2. Delta(from, n)' = {[id |-> id, row |-> At(id, n)'] :
          id \in {x \in Ids : /\ At(x, n)'.rev > PositionOf(from)
                              /\ from # None \/ At(x, n)'.val # Gone}}
  BY DEF Delta
<1> QED
  BY <1>1, <1>2 DEF Delta

\* A batch that is honest stays so, and keeps its rows while its lineage lasts.
LEMMA MoveBatch ==
    ASSUME StationMoves, NEW b, b.through \in Cursors, HonestBatch(b)
    PROVE  /\ HonestBatch(b)'
           /\ Current(b)' => SameLineage /\ Current(b) /\ Whole(b)' = Whole(b)
<1>1. /\ b.through.epoch \in Nat /\ b.through.seq \in Nat
      /\ b.through.epoch <= db.epoch
      /\ b.through.epoch = db.epoch => b.through.seq <= mark.seq
  BY DEF HonestBatch, Reached, Cursors
<1>2. CASE SameLineage
  <2>1. Reached(b.through)'
    BY <1>1, <1>2, MoveNumbers DEF Reached, SameLineage
  <2>2. Current(b)' => Current(b)
    BY <1>2 DEF Current, SameLineage
  <2>3. Current(b) => Whole(b)' = Whole(b)
    BY <1>1, <1>2, MoveDelta, MoveNumbers DEF Current, Whole
  <2> QED
    BY <1>2, <2>1, <2>2, <2>3 DEF HonestBatch
<1>3. CASE NewLineage
  <2>1. ~Current(b)' /\ Reached(b.through)'
    BY <1>1, <1>3, MoveNumbers DEF Current, Reached, NewLineage
  <2> QED
    BY <2>1 DEF HonestBatch
<1> QED
  BY <1>2, <1>3 DEF StationMoves

LEMMA MovePage ==
    ASSUME StationMoves, NEW p \in Pages, PageHonest(p)
    PROVE  PageHonest(p)'
<1>1. p.through \in Cursors
  BY DEF Pages
<1>2. /\ HonestBatch(p)'
      /\ Current(p)' => Current(p) /\ Whole(p)' = Whole(p)
  BY <1>1, MoveBatch DEF PageHonest
<1>3. Current(p) =>
         /\ p.rows = {r \in Whole(p) : Rank(Whole(p), r) = p.index}
         /\ p.last = (p.index + 1 >= Cardinality(Whole(p)))
  BY DEF PageHonest
<1>4. ASSUME Current(p)'
      PROVE  /\ p.rows = {r \in Whole(p)' : Rank(Whole(p)', r) = p.index}
             /\ p.last = (p.index + 1 >= Cardinality(Whole(p)'))
  BY <1>2, <1>3, <1>4
<1> QED
  BY <1>2, <1>4 DEF PageHonest, Rank

LEMMA MoveStage ==
    ASSUME StationMoves, UNCHANGED stage, stage # None => stage \in Stages, StageHonest
    PROVE  StageHonest'
<1> SUFFICES ASSUME stage # None
             PROVE  (/\ HonestBatch(stage)
                     /\ Current(stage) =>
                          stage.rows = {r \in Whole(stage) : Rank(Whole(stage), r) < stage.index})'
  BY DEF StageHonest
<1> PICK s : s = stage
  OBVIOUS
<1>1. s.through \in Cursors /\ stage' = s /\ HonestBatch(s)
  BY DEF Stages, StageHonest
<1>2. /\ HonestBatch(s)'
      /\ Current(s)' => Current(s) /\ Whole(s)' = Whole(s)
  BY <1>1, MoveBatch
<1>3. Current(s) => s.rows = {r \in Whole(s) : Rank(Whole(s), r) < s.index}
  BY DEF StageHonest
<1>4. HonestBatch(stage)' /\ (Current(stage)' <=> Current(s)') /\ Whole(stage)' = Whole(s)'
  BY <1>1, <1>2 DEF HonestBatch, Current, Whole, Reached
<1>5. ASSUME Current(stage)'
      PROVE  stage'.rows = {r \in Whole(stage)' : Rank(Whole(stage)', r) < stage'.index}
  BY <1>1, <1>2, <1>3, <1>4, <1>5
<1> QED
  BY <1>4, <1>5 DEF Rank

LEMMA MoveExport ==
    ASSUME StationMoves, ExportHonest,
           \/ db'.export = None
           \/ SameLineage /\ db'.export = db.export
    PROVE  ExportHonest'
<1> SUFFICES ASSUME db'.export # None
             PROVE  /\ HonestBatch(db.export)' /\ Current(db.export)'
                    /\ db'.export.rows = Whole(db.export)'
  BY DEF ExportHonest
<1> PICK x : x = db.export
  OBVIOUS
<1>1. /\ SameLineage /\ db'.export = x /\ x # None /\ x \in {None} \cup Exports
      /\ HonestBatch(x) /\ Current(x) /\ x.rows = Whole(x)
  BY DatabaseIs DEF ExportHonest, StationMoves, StationTypes
<1>2. x.through \in Cursors
  BY <1>1 DEF Exports
<1>3. Current(x)'
  BY <1>1 DEF Current, SameLineage
<1>4. HonestBatch(x)' /\ Whole(x)' = Whole(x)
  BY <1>1, <1>2, <1>3, MoveBatch
<1>5. HonestBatch(db.export)' /\ Current(db.export)' /\ Whole(db.export)' = Whole(x)'
  BY <1>1, <1>3, <1>4 DEF HonestBatch, Current, Whole, Reached
<1> QED
  BY <1>1, <1>4, <1>5

\* What is published, and the one command of the client, seen after the step.
LEMMA MoveCatalog ==
    ASSUME StationMoves, UNCHANGED <<rep, op>>, rep \in Catalogs, op \in Commands,
           CatalogHonest, ReceiptsHonest
    PROVE  CatalogHonest'
<1> SUFFICES ASSUME rep.cur # None
             PROVE  /\ Reached(rep.cur)'
                    /\ rep.cur.epoch = db'.epoch =>
                          \A id \in Ids : (OfCut(id, rep.ents[id], rep.cur.seq) \/ Confirmed(id))'
  BY DEF CatalogHonest, NoRow, Record, Gone
<1> PICK cur, ents : cur = rep.cur /\ ents = rep.ents
  OBVIOUS
<1>1. /\ rep'.cur = cur /\ rep'.ents = ents /\ cur \in Cursors
      /\ cur.epoch \in Nat /\ cur.seq \in Nat /\ ents \in [Ids -> Rows]
  BY DEF Catalogs, Starts, Cursors
<1>2. /\ cur.epoch <= db.epoch
      /\ cur.epoch = db.epoch => cur.seq <= mark.seq
      /\ cur.epoch = db.epoch =>
            \A id \in Ids : OfCut(id, ents[id], cur.seq) \/ Confirmed(id)
  BY DEF CatalogHonest, Reached
<1>3. CASE NewLineage
  BY <1>1, <1>2, <1>3, MoveNumbers DEF NewLineage, Reached
<1>4. CASE SameLineage
  <2>1. Reached(rep.cur)'
    BY <1>1, <1>2, <1>4, MoveNumbers DEF Reached, SameLineage
  <2>2. ASSUME cur.epoch = db'.epoch, NEW id \in Ids
        PROVE  (OfCut(id, rep.ents[id], rep.cur.seq) \/ Confirmed(id))'
    <3>1. cur.epoch = db.epoch /\ cur.seq \in 0 .. mark.seq
      BY <1>1, <1>2, <1>4, <2>2, MoveNumbers DEF SameLineage
    <3>2. CASE OfCut(id, ents[id], cur.seq)
      <4> PICK row \in Rows : row = ents[id]
        BY <1>1
      <4>1. OfCut(id, row, cur.seq)'
        BY <1>4, <3>1, <3>2, MoveOfCut
      <4>2. rep'.ents[id] = row /\ rep'.cur.seq = cur.seq
        BY <1>1
      <4> QED
        BY <4>1, <4>2 DEF OfCut, At, Truthful
    <3>3. CASE Confirmed(id)
      BY <1>4, <3>3 DEF Confirmed, SameLineage
    <3> QED
      BY <1>2, <3>1, <3>2, <3>3
  <2> QED
    BY <1>1, <2>1, <2>2
<1> QED
  BY <1>3, <1>4 DEF StationMoves

-----------------------------------------------------------------------------
(* Publication: the staged pages are the whole batch, and the batch leads to its cut. *)

StationReady == StationTypes /\ Lineages

LEMMA ReadyNumbers ==
    ASSUME StationReady
    PROVE  /\ db \in Databases /\ mark \in Cursors /\ db.log \in Logs
           /\ db.epoch \in Nat /\ db.floor \in Nat
           /\ mark.seq \in Nat /\ mark.seq <= Len(db.log) /\ Len(db.log) \in Nat
           /\ DOMAIN db.log = 1 .. Len(db.log)
<1>1. db \in Databases /\ mark \in Cursors
  BY DEF StationReady, StationTypes
<1> QED
  BY <1>1, DatabaseIs DEF Cursors, StationReady, Lineages

LEMMA AtIs ==
    ASSUME StationReady, NEW id \in Ids, NEW n \in 0 .. Len(db.log)
    PROVE  /\ At(id, n) \in Rows /\ At(id, n).rev \in 0 .. n
           /\ At(id, n).rev = 0 => At(id, n) = NoRow
           /\ At(id, n).rev # 0 => db.log[At(id, n).rev] = [id |-> id, val |-> At(id, n).val]
           /\ \A i \in 1 .. n : db.log[i].id = id => i <= At(id, n).rev
BY ReadyNumbers, VersionIs DEF At

LEMMA AtIsOfCut ==
    ASSUME StationReady, NEW id \in Ids, NEW n \in 0 .. Len(db.log)
    PROVE  OfCut(id, At(id, n), n)
<1> DEFINE row == At(id, n)
<1>1. /\ row.rev \in 0 .. n
      /\ row.rev # 0 => db.log[row.rev] = [id |-> id, val |-> row.val]
  BY AtIs
<1>2. row.rev \in DOMAIN db.log => row.rev # 0
  BY ReadyNumbers
<1>3. row = At(id, n) /\ n \in Int
  OBVIOUS
<1> HIDE DEF row
<1>4. row.rev <= n
  BY <1>1, <1>3
<1>5. Truthful(id, row)
  BY <1>1, <1>2 DEF Truthful
<1> QED
  BY <1>3, <1>4, <1>5 DEF OfCut

\* An object that has not changed since an earlier cut is as it was there.
LEMMA AtExtends ==
    ASSUME StationReady, NEW id \in Ids, NEW n \in 0 .. Len(db.log), NEW m \in 0 .. n,
           At(id, n).rev <= m
    PROVE  At(id, m) = At(id, n)
<1> DEFINE row == At(id, n)
<1>1. /\ row \in Rows /\ row.rev \in 0 .. n
      /\ row.rev = 0 => row = NoRow
      /\ row.rev # 0 => db.log[row.rev] = [id |-> id, val |-> row.val]
      /\ \A i \in 1 .. n : db.log[i].id = id => i <= row.rev
  BY AtIs
<1>2. row.rev <= m
  OBVIOUS
<1> HIDE DEF row
<1>3. /\ row.rev \in 0 .. m /\ m \in 0 .. Len(db.log) /\ db.log \in Logs
      /\ \A i \in 1 .. m : db.log[i].id = id => i <= row.rev
  BY <1>1, <1>2, ReadyNumbers
<1>4. Row(Upto(db.log, m), id) = row
  BY <1>1, <1>3, VersionUnique, SMTT(30)
<1> QED
  BY <1>4 DEF At, row

LEMMA DeltaIs ==
    ASSUME StationReady, NEW from, NEW n \in 0 .. Len(db.log)
    PROVE  /\ Delta(from, n) \in SUBSET Items /\ IsFiniteSet(Delta(from, n))
           /\ \A id \in Ids :
                 /\ (\E row \in Delta(from, n) : row.id = id) <=>
                       /\ At(id, n).rev > PositionOf(from)
                       /\ from # None \/ At(id, n).val # Gone
                 /\ \A row \in Delta(from, n) : row.id = id => row.row = At(id, n)
<1> DEFINE S == {x \in Ids : /\ At(x, n).rev > PositionOf(from)
                             /\ from # None \/ At(x, n).val # Gone}
           f == [x \in S |-> [id |-> x, row |-> At(x, n)]]
<1>1. \A id \in Ids : At(id, n) \in Rows
  BY AtIs
<1>2. Delta(from, n) = {[id |-> id, row |-> At(id, n)] : id \in S}
  BY DEF Delta
<1>3. Delta(from, n) \in SUBSET Items
  BY <1>1, <1>2 DEF Items
<1>4. IsFiniteSet(Delta(from, n))
  <2>1. IsFiniteSet(S)
    <3>1. S \in SUBSET Ids
      OBVIOUS
    <3> QED
      BY <3>1, IdsAre, FS_Subset
  <2>2. f \in Surjection(S, Delta(from, n))
    BY <1>2 DEF Surjection
  <2> QED
    BY <2>1, <2>2, FS_Surjection
<1>5. ASSUME NEW id \in Ids
      PROVE  /\ (\E row \in Delta(from, n) : row.id = id) <=> id \in S
             /\ \A row \in Delta(from, n) : row.id = id => row.row = At(id, n)
  <2> HIDE DEF S
  <2>1. \A row \in Delta(from, n) : row.id \in S /\ row.row = At(row.id, n)
    BY <1>2
  <2>2. id \in S => [id |-> id, row |-> At(id, n)] \in Delta(from, n)
    BY <1>2
  <2>3. id \in S => \E row \in Delta(from, n) : row.id = id
    BY <2>2
  <2> QED
    BY <2>1, <2>3
<1> QED
  BY <1>3, <1>4, <1>5

LEMMA RankIs ==
    ASSUME NEW W \in SUBSET Items, IsFiniteSet(W), NEW r \in W
    PROVE  /\ Rank(W, r) \in Nat /\ Cardinality(W) \in Nat
           /\ Rank(W, r) + 1 <= Cardinality(W)
<1> DEFINE below == {q \in W : q.id < r.id}
<1>1. r.id \in Nat
  BY IdsAre DEF Items
<1>2. below \in SUBSET (W \ {r})
  BY <1>1
<1>3. /\ IsFiniteSet(W \ {r}) /\ Cardinality(W \ {r}) = Cardinality(W) - 1
      /\ Cardinality(W) \in Nat
  BY FS_RemoveElement, FS_CardinalityType
<1> HIDE DEF below
<1>4. IsFiniteSet(below) /\ Cardinality(below) <= Cardinality(W \ {r})
  BY <1>2, <1>3, FS_Subset
<1>5. Cardinality(below) \in Nat
  BY <1>4, FS_CardinalityType
<1>6. Rank(W, r) = Cardinality(below)
  BY DEF Rank, below
<1> QED
  BY <1>3, <1>4, <1>5, <1>6

StoreReady ==
    /\ rep \in Catalogs /\ op \in Commands /\ (stage # None => stage \in Stages)
    /\ StageHonest /\ CatalogHonest

\* The next page of a batch adds the rows of the next rank.
LEMMA StagedRowsAre ==
    ASSUME StationReady, StoreReady, NEW page \in Pages, PageHonest(page), Current(page),
           page.index = NextIndex(stage, page)
    PROVE  StagedRows(stage, page) =
             {r \in Whole(page) : Rank(Whole(page), r) < page.index + 1}
<1>1. /\ page.rows = {r \in Whole(page) : Rank(Whole(page), r) = page.index}
      /\ page.index \in Nat /\ page.through \in Cursors
  BY DEF PageHonest, Pages
<1>2. Whole(page) \in SUBSET Items /\ IsFiniteSet(Whole(page))
  <2>1. page.through.seq \in 0 .. Len(db.log)
    BY <1>1, ReadyNumbers DEF PageHonest, HonestBatch, Current, Reached, Cursors
  <2> QED
    BY <2>1, DeltaIs DEF Whole
<1>3. \A r \in Whole(page) : Rank(Whole(page), r) \in Nat
  BY <1>2, RankIs
<1>4. CASE SameBatch(stage, page)
  <2>1. /\ stage # None /\ stage.from = page.from /\ stage.through = page.through
        /\ stage.index = page.index
    BY <1>4 DEF SameBatch, NextIndex
  <2>2. Current(stage) /\ Whole(stage) = Whole(page)
    BY <2>1 DEF Current, Whole
  <2>3. stage.rows = {r \in Whole(page) : Rank(Whole(page), r) < page.index}
    BY <2>1, <2>2 DEF StoreReady, StageHonest
  <2>4. StagedRows(stage, page) = stage.rows \cup page.rows
    BY <1>4 DEF StagedRows
  <2> QED
    BY <1>1, <1>3, <2>3, <2>4
<1>5. CASE ~SameBatch(stage, page)
  <2>1. page.index = 0 /\ StagedRows(stage, page) = page.rows
    BY <1>5 DEF NextIndex, StagedRows
  <2>2. \A r \in Whole(page) :
           Rank(Whole(page), r) = page.index <=> Rank(Whole(page), r) < page.index + 1
    BY <1>3, <2>1
  <2> QED
    BY <1>1, <2>1, <2>2
<1> QED
  BY <1>4, <1>5

LEMMA LastPageCompletes ==
    ASSUME StationReady, StoreReady, NEW page \in Pages, PageHonest(page), Current(page),
           page.index = NextIndex(stage, page), page.last
    PROVE  StagedRows(stage, page) = Whole(page)
<1>1. page.index \in Nat /\ page.index + 1 >= Cardinality(Whole(page)) /\ page.through \in Cursors
  BY DEF PageHonest, Pages
<1>2. Whole(page) \in SUBSET Items /\ IsFiniteSet(Whole(page))
  <2>1. page.through.seq \in 0 .. Len(db.log)
    BY <1>1, ReadyNumbers DEF PageHonest, HonestBatch, Current, Reached, Cursors
  <2> QED
    BY <2>1, DeltaIs DEF Whole
<1>3. \A r \in Whole(page) : Rank(Whole(page), r) < page.index + 1
  BY <1>1, <1>2, RankIs
<1> QED
  BY <1>3, StagedRowsAre

\* Publishing a current batch leaves every object as the cut has it, or confirmed.
LEMMA PublishedIsHonest ==
    ASSUME StationReady, StoreReady, NEW page \in Pages, PageHonest(page), Current(page),
           Acceptable(rep, stage, gen, page), page.last, NEW id \in Ids
    PROVE  LET new == Publish(rep, page, StagedRows(stage, page)).ents[id] IN
           \/ OfCut(id, new, page.through.seq)
           \/ /\ op.receipt # None /\ op.receipt.epoch = db.epoch
              /\ op.id = id /\ new = op.receipt.row
<1> DEFINE W == Whole(page)
           n == page.through.seq
           a == At(id, n)
           old == rep.ents[id]
           base == Base(rep, page, W)[id]
           new == Publish(rep, page, W).ents[id]
           Known(row) == /\ op.receipt # None /\ op.receipt.epoch = db.epoch
                         /\ op.id = id /\ row = op.receipt.row
<1>1. StagedRows(stage, page) = W
  BY LastPageCompletes DEF Acceptable
<1>2. /\ page.through \in Cursors /\ page.from \in Starts
      /\ page.through.epoch = db.epoch
      /\ n \in Nat /\ n <= mark.seq /\ n \in 0 .. Len(db.log)
  BY ReadyNumbers DEF PageHonest, HonestBatch, Current, Reached, Cursors, Pages
<1>3. /\ a \in Rows /\ a.rev \in 0 .. n
      /\ a.rev = 0 => a = NoRow
      /\ a.rev # 0 => db.log[a.rev] = [id |-> id, val |-> a.val]
      /\ \A i \in 1 .. n : db.log[i].id = id => i <= a.rev
      /\ OfCut(id, a, n)
  BY <1>2, AtIs, AtIsOfCut
<1>4. /\ W \in SUBSET Items
      /\ (\E row \in W : row.id = id) <=>
            (a.rev > PositionOf(page.from) /\ (page.from # None \/ a.val # Gone))
      /\ \A row \in W : row.id = id => row.row = a
  BY <1>2, DeltaIs DEF Whole
<1>5. old \in Rows /\ old.rev \in Nat /\ a.rev \in Nat
  BY <1>3 DEF StoreReady, Catalogs, Rows
<1>6. /\ base \in Rows
      /\ (\E row \in W : row.id = id) => new = Upsert(base, a)
      /\ ~(\E row \in W : row.id = id) => new = base
  <2>1. /\ base \in Rows
        /\ (\E row \in W : row.id = id) => new = Upsert(base, Staged(W, id).row)
        /\ ~(\E row \in W : row.id = id) => new = base
    BY <1>4, PublishIs DEF StoreReady
  <2>2. (\E row \in W : row.id = id) => Staged(W, id).row = a
    BY <1>4, StagedIs
  <2> QED
    BY <2>1, <2>2
<1>7. base = IF page.from # None THEN old
             ELSE IF rep.cur # None /\ rep.cur.epoch # page.through.epoch THEN NoRow
             ELSE IF /\ old.rev <= n /\ old.val # Gone
                     /\ \A row \in W : row.id # id
                  THEN Record(n, Gone) ELSE old
  BY DEF Base
<1>8. NoRow \in Rows /\ NoRow.rev = 0 /\ NoRow.val = Gone
  BY NoRowTyped
<1> HIDE DEF W, n, a, old, base, new
\* A version that an earlier cut of the lineage has, seen from the later one.
<1>9. ASSUME NEW m \in 0 .. n, OfCut(id, old, m), a.rev <= m
      PROVE  OfCut(id, old, n)
  <2>1. At(id, m) = a
    BY <1>2, <1>9, AtExtends DEF a
  <2>2. old.rev <= n
    BY <1>2, <1>5, <1>9 DEF OfCut
  <2> QED
    BY <1>9, <2>1, <2>2 DEF OfCut, a
<1>10. ASSUME rep.cur # None, rep.cur.epoch = page.through.epoch
       PROVE  OfCut(id, old, rep.cur.seq) \/ Known(old)
  BY <1>2, <1>10 DEF StoreReady, CatalogHonest, Confirmed, old
<1>11. CASE page.from # None
  <2> DEFINE m == page.from.seq
  <2>1. /\ rep.cur = page.from /\ page.from \in Cursors
        /\ page.from.epoch = page.through.epoch /\ m <= n /\ m \in Nat
    BY <1>2, <1>11 DEF Acceptable, PageHonest, HonestBatch, Starts, Cursors, n
  <2>2. OfCut(id, old, m) \/ Known(old)
    BY <1>10, <1>11, <2>1
  <2>3. base = old /\ PositionOf(page.from) = m
    BY <1>7, <1>11 DEF PositionOf
  <2>4. CASE a.rev > m
    <3>1. new = Upsert(old, a)
      BY <1>4, <1>6, <1>11, <2>3, <2>4
    <3>2. CASE OfCut(id, old, m)
      <4>1. ~(old.rev >= a.rev)
        BY <1>5, <2>1, <2>4, <3>2 DEF OfCut
      <4> QED
        BY <1>1, <1>3, <3>1, <4>1 DEF Upsert, new, n
    <3>3. CASE Known(old)
      BY <1>1, <1>3, <3>1, <3>3 DEF Upsert, new, n
    <3> QED
      BY <2>2, <3>2, <3>3
  <2>5. CASE ~(a.rev > m)
    <3>1. new = old
      BY <1>4, <1>6, <2>3, <2>5
    <3>2. a.rev <= m /\ m \in 0 .. n
      BY <1>2, <1>5, <2>1, <2>5
    <3>3. OfCut(id, old, n) \/ Known(old)
      BY <1>9, <2>2, <3>2
    <3> QED
      BY <1>1, <3>1, <3>3 DEF new, n
  <2> QED
    BY <2>4, <2>5
<1>12. CASE page.from = None
  <2>1. (\E row \in W : row.id = id) <=> a.val # Gone
    <3>1. PositionOf(page.from) = 0
      BY <1>12 DEF PositionOf
    <3>2. a.rev > 0 <=> a.rev # 0
      BY <1>5
    <3>3. a.val # Gone => a.rev # 0
      BY <1>3, <1>8
    <3> QED
      BY <1>4, <1>12, <3>1, <3>2, <3>3
  <2>2. CASE base = NoRow
    <3>1. CASE a.val # Gone
      <4>1. a.rev # 0
        BY <1>3, <1>8, <3>1
      <4>2. ~(NoRow.rev >= a.rev)
        BY <1>5, <1>8, <4>1
      <4>3. new = a
        BY <1>6, <2>1, <2>2, <3>1, <4>2 DEF Upsert
      <4> QED
        BY <1>1, <1>3, <4>3 DEF new, n
    <3>2. CASE a.val = Gone
      <4>1. new = NoRow
        BY <1>6, <2>1, <2>2, <3>2
      <4>2. OfCut(id, NoRow, n)
        BY <1>2, <1>8, <3>2, ReadyNumbers DEF OfCut, Truthful, a
      <4> QED
        BY <1>1, <4>1, <4>2 DEF new, n
    <3> QED
      BY <3>1, <3>2
  <2>3. CASE rep.cur # None /\ rep.cur.epoch # page.through.epoch
    BY <1>7, <1>12, <2>2, <2>3
  <2>4. CASE rep.cur = None
    <3>1. old = NoRow
      BY <2>4 DEF StoreReady, CatalogHonest, old
    <3> QED
      BY <1>7, <1>8, <1>12, <2>2, <2>4, <3>1
  <2>5. CASE rep.cur # None /\ rep.cur.epoch = page.through.epoch
    <3> DEFINE m == rep.cur.seq
    <3>1. m \in 0 .. n
      <4>1. rep.cur \in Cursors
        BY <2>5 DEF StoreReady, Catalogs, Starts
      <4> QED
        BY <1>2, <1>12, <2>5, <4>1 DEF Acceptable, Cursors, n
    <3>2. OfCut(id, old, m) \/ Known(old)
      BY <1>10, <2>5
    <3> HIDE DEF m
    <3>3. CASE a.val # Gone
      <4>1. new = Upsert(old, a)
        <5>1. ~\A row \in W : row.id # id
          BY <2>1, <3>3
        <5> QED
          BY <1>6, <1>7, <1>12, <2>1, <2>5, <3>3, <5>1
      <4>2. CASE new = old /\ OfCut(id, old, m) /\ old.rev >= a.rev
        <5>1. a.rev <= m
          BY <1>5, <3>1, <4>2 DEF OfCut
        <5> QED
          BY <1>1, <1>9, <3>1, <4>2, <5>1 DEF new, n
      <4>3. CASE new = old /\ Known(old)
        BY <1>1, <4>3 DEF new
      <4>4. CASE new = a
        BY <1>1, <1>3, <4>4 DEF new, n
      <4> QED
        BY <3>2, <4>1, <4>2, <4>3, <4>4 DEF Upsert
    <3>4. CASE a.val = Gone
      <4>1. new = base /\ \A row \in W : row.id # id
        BY <1>6, <2>1, <3>4
      <4>2. CASE old.rev <= n /\ old.val # Gone
        <5>1. new = Record(n, Gone)
          BY <1>7, <1>12, <2>5, <4>1, <4>2
        <5>2. Record(n, Gone).rev = n /\ Record(n, Gone).val = Gone
          BY <1>2, NoRowTyped, RecordTyped DEF n
        <5>3. ASSUME n \in DOMAIN db.log, db.log[n].id = id PROVE db.log[n].val = Gone
          <6>1. n \in 1 .. n
            BY <1>2, <5>3, ReadyNumbers DEF n
          <6>2. n <= a.rev
            BY <1>3, <5>3, <6>1
          <6>3. a.rev = n /\ n # 0
            BY <1>2, <1>3, <6>1, <6>2 DEF n
          <6> QED
            BY <1>3, <3>4, <6>3
        <5>4. OfCut(id, Record(n, Gone), n)
          BY <1>2, <3>4, <5>2, <5>3 DEF OfCut, Truthful, a, n
        <5> QED
          BY <1>1, <5>1, <5>4 DEF new, n
      <4>3. CASE ~(old.rev <= n /\ old.val # Gone)
        <5>1. new = old
          BY <1>7, <1>12, <2>5, <4>1, <4>3
        <5>2. CASE Known(old)
          BY <1>1, <5>1, <5>2 DEF new
        <5>3. CASE OfCut(id, old, m)
          <6>1. old.rev <= n
            BY <1>5, <3>1, <5>3, <1>2 DEF OfCut, n
          <6>2. OfCut(id, old, n)
            BY <3>4, <4>3, <5>3, <6>1 DEF OfCut, a
          <6> QED
            BY <1>1, <5>1, <6>2 DEF new, n
        <5> QED
          BY <3>2, <5>2, <5>3
      <4> QED
        BY <4>2, <4>3
    <3> QED
      BY <3>3, <3>4
  <2> QED
    BY <2>3, <2>4, <2>5
<1> QED
  BY <1>11, <1>12

-----------------------------------------------------------------------------
(* The values of the variables. *)

StoreTypes == rep \in Catalogs /\ op \in Commands /\ (stage # None => stage \in Stages)
CallerTypes == caller \in [Callers -> CallerStates] /\ asked \in [Callers -> Cursors]
FlagTypes == pending \in BOOLEAN /\ signal \in BOOLEAN /\ post \in BOOLEAN /\ resumed \in BOOLEAN
FaultTypes == faults \in 0 .. MaxFaults
Types == StationTypes /\ StoreTypes /\ CallerTypes /\ FlagTypes /\ TaskTyped /\ FaultTypes

\* The steps that leave the station's database alone.
ClientSteps ==
    \/ StationReceipt \/ (\E c \in Callers : StartRefresh(c)) \/ Client
    \/ UserEdit \/ UserRefresh
    \/ RequestFails \/ ClientRestart \/ Revoke \/ Reconnect \/ LateReply
StationSteps ==
    StationWrite \/ StationMaintain \/ StationReopen \/ StationPull \/ StationCommand

LEMMA StepsAre == Next => StationSteps \/ ClientSteps
BY DEF Next, Serve, StationSteps, ClientSteps

LEMMA ClientKeepsStation ==
    ASSUME ClientSteps
    PROVE  UNCHANGED <<db, mark, writes>>
BY Zenon DEF ClientSteps, Client, station, StationReceipt, StartRefresh, TakeLookup, TakePage,
   TakeReset, TakeReceipt, UserReturns, UserIntend, StartCommand, ReceiveHint, RetryPending,
   LiveReturns, UserEdit, UserRefresh, RequestFails, ClientRestart, Revoke, Reconnect, LateReply

LEMMA StationKeepsStore ==
    ASSUME StationSteps
    PROVE  UNCHANGED <<rep, stage, gen, op, caller, pending, late, resumed>>
BY Zenon DEF StationSteps, store, loop, StationWrite, StationMaintain, StationReopen,
   StationPull, StationCommand

\* A write is the next change, and everything else of the database stays.
LEMMA WriteIs ==
    ASSUME StationTypes, StationWrite
    PROVE  /\ db' \in Databases /\ mark' = mark /\ writes' \in Nat
           /\ db'.epoch = db.epoch /\ db'.export = db.export /\ db'.receipt = db.receipt
           /\ Len(db'.log) = Len(db.log) + 1
           /\ \A i \in 1 .. Len(db.log) : db'.log[i] = db.log[i]
<1>1. db \in Databases /\ writes \in Nat /\ writes + 1 \in Nat /\ Gone \in Nat
  BY NoRowTyped DEF StationTypes
<1>2. \E id \in Ids, val \in Nat : db' = Changed(db, id, val)
  <2>1. PICK id \in Ids, val \in {Gone, writes + 1} : db' = Changed(db, id, val)
    BY DEF StationWrite
  <2> QED
    BY <1>1, <2>1
<1>3. PICK id \in Ids, val \in Nat : db' = Changed(db, id, val)
  BY <1>2
<1>4. mark' = mark /\ writes' = writes + 1
  BY DEF StationWrite
<1>5. db' \in Databases
  BY <1>1, <1>3, ChangedIs
<1>6. db'.epoch = db.epoch /\ db'.export = db.export /\ db'.receipt = db.receipt
  BY <1>1, <1>3 DEF Changed, Databases
<1>7. Len(db'.log) = Len(db.log) + 1
  BY <1>1, <1>3, ChangedIs
<1>8. \A i \in 1 .. Len(db.log) : db'.log[i] = db.log[i]
  BY <1>1, <1>3, ChangedIs
<1> QED
  BY <1>1, <1>4, <1>5, <1>6, <1>7, <1>8

LEMMA MaintainIs ==
    ASSUME StationTypes, StationMaintain
    PROVE  /\ db' \in Databases /\ UNCHANGED <<mark, writes>>
           /\ db'.epoch = db.epoch /\ db'.log = db.log /\ db'.receipt = db.receipt
           /\ db'.export \in {None, db.export}
<1>1. /\ db \in Databases /\ db.epoch \in Nat /\ db.floor \in Nat /\ db.log \in Logs
      /\ Len(db.log) \in Nat
      /\ db.export \in {None} \cup Exports /\ db.receipt \in {None} \cup Receipts
  BY DatabaseIs DEF StationTypes
<1>2. PICK f \in db.floor .. Len(db.log), x \in {db.export, None} :
          db' = [db EXCEPT !.floor = f, !.export = x]
  BY DEF StationMaintain
<1>3. db' = [epoch |-> db.epoch, floor |-> f, export |-> x, receipt |-> db.receipt,
             log |-> db.log]
  <2>1. db = [epoch |-> db.epoch, floor |-> db.floor, export |-> db.export,
              receipt |-> db.receipt, log |-> db.log]
    BY <1>1, DatabaseFields
  <2> QED
    BY <1>2, <2>1
<1>4. f \in Nat /\ x \in {None} \cup Exports
  BY <1>1
<1>5. UNCHANGED <<mark, writes>>
  BY DEF StationMaintain
<1> QED
  BY <1>1, <1>3, <1>4, <1>5, DatabaseTyped

LEMMA StationTypesKept ==
    ASSUME StationTypes, TaskTyped, Lineages, op \in Commands, Next
    PROVE  StationTypes'
<1>0. db \in Databases /\ mark \in Cursors /\ writes \in Nat /\ Here(db) \in Cursors
  BY HereTyped DEF StationTypes
<1>1. CASE StationWrite
  BY <1>0, <1>1, WriteIs DEF StationTypes
<1>2. CASE StationMaintain
  BY <1>0, <1>2, MaintainIs DEF StationTypes
<1>3. CASE StationReopen
  <2>1. db' \in Databases /\ mark' = Here(db')
    BY <1>3, ReopenIs
  <2>2. Here(db') \in Cursors
    BY <2>1, HereTyped
  <2>3. writes' = writes
    BY <1>3 DEF StationReopen
  <2> QED
    BY <1>0, <2>1, <2>2, <2>3 DEF StationTypes
<1>4. CASE StationPull
  <2>1. writes' = writes
    BY <1>4 DEF StationPull
  <2>2. UNCHANGED <<db, mark>> \/ (db' \in Databases /\ mark' = Here(db))
    BY <1>4, PullIs
  <2> QED
    BY <1>0, <2>1, <2>2 DEF StationTypes
<1>5. CASE StationCommand
  <2>1. db' \in Databases /\ mark' = Here(db') /\ writes' \in Nat
    BY <1>5, CommandIs
  <2>2. Here(db') \in Cursors
    BY <2>1, HereTyped
  <2> QED
    BY <2>1, <2>2 DEF StationTypes
<1>6. CASE ClientSteps
  BY <1>0, <1>6, ClientKeepsStation DEF StationTypes
<1> QED
  BY <1>1, <1>2, <1>3, <1>4, <1>5, <1>6, StepsAre DEF StationSteps

\* A page that is taken is staged or published.
LEMMA ApplyPageTyped ==
    ASSUME StoreTypes, NEW page \in Pages, ApplyPage(page)
    PROVE  rep' \in Catalogs /\ (stage' # None => stage' \in Stages)
<1>1. rep \in Catalogs /\ (stage # None => stage \in Stages)
  BY DEF StoreTypes
<1>2. StagedRows(stage, page) \in SUBSET Items
  BY <1>1, StagedRowsTyped
<1>3. page.from \in Starts /\ page.through \in Cursors /\ page.index + 1 \in Nat
  BY DEF Pages
<1>4. CASE page.last
  <2>1. rep' = Publish(rep, page, StagedRows(stage, page)) /\ stage' = None
    BY <1>4 DEF ApplyPage
  <2> QED
    BY <1>1, <1>2, <2>1, PublishIs
<1>5. CASE ~page.last
  <2>1. /\ rep' = rep
        /\ stage' = [from |-> page.from, through |-> page.through,
                     index |-> page.index + 1, rows |-> StagedRows(stage, page)]
    BY <1>5 DEF ApplyPage
  <2> QED
    BY <1>1, <1>2, <1>3, <2>1 DEF Stages
<1> QED
  BY <1>4, <1>5

\* A receipt that is taken is stored with the object it confirms.
TakesReceipt(r) == rep' = ApplyReceipt(r) /\ op' = [op EXCEPT !.receipt = r]
LEMMA TakesReceiptTyped ==
    ASSUME StoreTypes, NEW r \in Receipts, TakesReceipt(r)
    PROVE  /\ rep' \in Catalogs /\ op' \in Commands
           /\ op'.receipt = r /\ op'.id = op.id /\ op'.st = op.st /\ op'.rev = op.rev
           /\ op'.saw = op.saw /\ op'.sawEpoch = op.sawEpoch
<1>1. rep \in Catalogs /\ op \in Commands
  BY DEF StoreTypes
<1>2. rep' \in Catalogs
  BY <1>1, ReceiptIs DEF TakesReceipt
<1>3. op' = [op EXCEPT !.receipt = r]
  BY DEF TakesReceipt
<1> QED
  BY <1>1, <1>2, <1>3 DEF Commands

\* What the look-up and the command do with the answer they find.
LEMMA AnswerTaken ==
    ASSUME TaskTyped, TakeLookup \/ TakeReceipt
    PROVE  /\ task # None /\ task.kind # "pull" /\ task.reply # None /\ UNCHANGED <<stage, gen>>
           /\ \/ UNCHANGED <<rep, op>>
              \/ /\ task.reply.receipt \in Receipts /\ task.reply.receipt # None
                 /\ TakesReceipt(task.reply.receipt)
<1>1. CASE TakeLookup
  <2>1. /\ task # None /\ task.kind = "receipt" /\ task.reply # None
        /\ task.reply \in ReceiptReplies /\ UNCHANGED <<stage, gen>>
    BY <1>1 DEF TakeLookup, TaskTyped, TaskFits
  <2>2. \/ UNCHANGED <<rep, op>>
        \/ task.reply.receipt # None /\ TakesReceipt(task.reply.receipt)
    BY <1>1 DEF TakeLookup, TakesReceipt
  <2> QED
    BY <2>1, <2>2 DEF ReceiptReplies
<1>2. CASE TakeReceipt
  <2>1. /\ task # None /\ task.kind = "command" /\ task.reply # None
        /\ task.reply.receipt \in Receipts /\ UNCHANGED <<stage, gen>>
    BY <1>2 DEF TakeReceipt, TaskTyped, TaskFits
  <2>2. UNCHANGED <<rep, op>> \/ TakesReceipt(task.reply.receipt)
    BY <1>2 DEF TakeReceipt, TakesReceipt
  <2>3. task.reply.receipt # None
    BY <2>1, ReplicaAssumption
  <2> QED
    BY <2>1, <2>2, <2>3
<1> QED
  BY <1>1, <1>2

\* A page that is taken was waiting; it is refused, or passes every check.
LEMMA PageTaken ==
    ASSUME TaskTyped, TakePage
    PROVE  /\ Paged /\ task.reply \in Pages /\ UNCHANGED <<gen, op>>
           /\ \/ UNCHANGED <<rep, stage>> /\ EndRefresh("error") /\ UNCHANGED resumed
              \/ /\ Acceptable(rep, stage, gen, task.reply) /\ ApplyPage(task.reply)
                 /\ task.reply.last /\ EndRefresh("ok") /\ resumed' = task.resuming
              \/ /\ Acceptable(rep, stage, gen, task.reply) /\ ApplyPage(task.reply)
                 /\ ~task.reply.last
                 /\ task' = [task EXCEPT !.req = ReplicaPull(rep', stage'), !.reply = None]
                 /\ UNCHANGED <<caller, asked, resumed>>
<1>1. Paged /\ UNCHANGED <<gen, op>>
  BY DEF TakePage, Paged
<1>2. task.reply \in Pages
  BY <1>1 DEF TaskTyped, Paged, TaskFits
<1> QED
  BY <1>1, <1>2 DEF TakePage

\* A late reply changes nothing any more.
LEMMA LateIsDropped ==
    ASSUME RevocationInvariant, LateReply
    PROVE  UNCHANGED <<rep, stage, op, gen, caller, asked, task, pending, signal, post, resumed,
                       faults>>
<1>1. UNCHANGED <<rep, stage, op>>
  BY LateIsRefused DEF LateReply
<1> QED
  BY <1>1 DEF LateReply, loop

LEMMA ConstantsOfStore ==
    /\ Empty \in Catalogs
    /\ NoOp \in Commands /\ NoOp.receipt = None /\ NoOp.sawEpoch = 0 /\ NoOp.st = "none"
<1>1. NoRow \in Rows
  BY NoRowTyped
<1>2. Empty \in Catalogs
  BY <1>1 DEF Empty, Catalogs, Starts
<1>3. NoOp \in Commands
  BY IdsAre DEF NoOp, Commands, Gone
<1> QED
  BY <1>2, <1>3 DEF NoOp

\* The steps that change the record of the command and take no receipt: the user's, and
\* those that forget a command not sent yet.
Edits == UserEdit \/ UserIntend \/ StartCommand \/ ClientRestart \/ Revoke

LEMMA DraftIs ==
    ASSUME StoreTypes, NEW id \in Ids
    PROVE  LET d == Draft(id) IN
           /\ d \in Commands /\ d.st = "draft" /\ d.receipt = None /\ d.id = id
           /\ d.rev = rep.ents[id].rev /\ d.saw = rep.ents[id].val
           /\ d.sawEpoch = IF rep.cur = None THEN 0 ELSE rep.cur.epoch
<1> DEFINE rev == rep.ents[id].rev
           saw == rep.ents[id].val
           seen == IF rep.cur = None THEN 0 ELSE rep.cur.epoch
<1>1. rev \in Nat /\ saw \in Nat /\ seen \in Nat
  BY DEF StoreTypes, Catalogs, Rows, Starts, Cursors
<1>2. Draft(id) = [st |-> "draft", id |-> id, epoch |-> 0, rev |-> rev, saw |-> saw,
                   sawEpoch |-> seen, receipt |-> None]
  <2>1. Draft(id) = [NoOp EXCEPT !.st = "draft", !.id = id, !.rev = rev, !.saw = saw,
                                 !.sawEpoch = seen]
    BY DEF Draft
  <2> HIDE DEF rev, saw, seen
  <2> QED
    BY <2>1 DEF NoOp
<1> HIDE DEF rev, saw, seen
<1>3. Draft(id) \in Commands
  BY <1>1, <1>2 DEF Commands
<1> QED
  BY <1>2, <1>3 DEF rev, saw, seen

\* The intent keeps what the draft saw, or sees the object now.
LEMMA IntendIs ==
    ASSUME StoreTypes, UserIntend
    PROVE  /\ caller["user"] \in {"ok", "error"} /\ op.st = "draft"
           /\ UNCHANGED <<rep, stage, gen, task, asked>>
           /\ \/ op' = NoOp /\ caller' = [caller EXCEPT !["user"] = "idle"]
              \/ /\ op' \in Commands /\ op'.st = "intent" /\ op'.receipt = op.receipt
                 /\ op'.id = op.id /\ rep.cur # None
                 /\ caller' = [caller EXCEPT !["user"] = "mutating"]
                 /\ \/ op'.rev = op.rev /\ op'.saw = op.saw /\ op'.sawEpoch = op.sawEpoch
                    \/ /\ op'.rev = rep.ents[op.id].rev /\ op'.saw = rep.ents[op.id].val
                       /\ op'.sawEpoch = rep.cur.epoch
<1> DEFINE row == rep.ents[op.id]
           rev == IF op.rev # 0 THEN op.rev ELSE row.rev
           saw == IF op.rev # 0 THEN op.saw ELSE row.val
           seen == IF op.rev # 0 THEN op.sawEpoch ELSE rep.cur.epoch
<1>1. rep \in Catalogs /\ op \in Commands
  BY DEF StoreTypes
<1>2. /\ caller["user"] \in {"ok", "error"} /\ op.st = "draft"
      /\ UNCHANGED <<rep, stage, gen, task, asked>>
  BY DEF UserIntend
<1>3. CASE caller["user"] = "error" \/ rep.cur = None \/ rev = 0
  BY <1>2, <1>3 DEF UserIntend
<1>4. CASE ~(caller["user"] = "error" \/ rep.cur = None \/ rev = 0)
  <2>1. /\ op' = [op EXCEPT !.st = "intent", !.epoch = rep.cur.epoch, !.rev = rev,
                            !.saw = saw, !.sawEpoch = seen]
        /\ caller' = [caller EXCEPT !["user"] = "mutating"]
    BY <1>4 DEF UserIntend
  <2>2. row \in Rows /\ rep.cur \in Cursors
    BY <1>1, <1>4 DEF Catalogs, Commands, Starts
  <2>3. rev \in Nat /\ saw \in Nat /\ seen \in Nat /\ rep.cur.epoch \in Nat
    BY <1>1, <2>2 DEF Rows, Cursors, Commands
  <2>4. \/ rev = op.rev /\ saw = op.saw /\ seen = op.sawEpoch
        \/ rev = rep.ents[op.id].rev /\ saw = rep.ents[op.id].val /\ seen = rep.cur.epoch
    OBVIOUS
  <2> HIDE DEF rev, saw, seen, row
  <2> DEFINE epoch == rep.cur.epoch
  <2>5. op' = [op EXCEPT !.st = "intent", !.epoch = epoch, !.rev = rev,
                         !.saw = saw, !.sawEpoch = seen]
    BY <2>1
  <2>6. epoch \in Nat
    BY <2>3
  <2> HIDE DEF epoch
  <2>7. op' = [st |-> "intent", id |-> op.id, epoch |-> epoch, rev |-> rev, saw |-> saw,
               sawEpoch |-> seen, receipt |-> op.receipt]
    BY <1>1, <2>5 DEF Commands
  <2>8. op' \in Commands
    BY <1>1, <2>3, <2>6, <2>7 DEF Commands
  <2> QED
    BY <1>2, <1>4, <2>1, <2>4, <2>7, <2>8
<1> QED
  BY <1>3, <1>4

LEMMA StartCommandIs ==
    ASSUME op \in Commands, StartCommand
    PROVE  /\ op' \in Commands /\ op'.st = "attempted" /\ op'.receipt = op.receipt
           /\ op'.id = op.id /\ op'.rev = op.rev /\ op'.saw = op.saw
           /\ op'.sawEpoch = op.sawEpoch
           /\ post' /\ task = None /\ task' = CommandTask /\ caller["user"] = "mutating"
           /\ UNCHANGED <<rep, stage, gen, caller, asked>>
<1>1. op' = [op EXCEPT !.st = "attempted"]
  BY DEF StartCommand
<1>2. /\ post' /\ task = None /\ task' = CommandTask /\ caller["user"] = "mutating"
      /\ UNCHANGED <<rep, stage, gen, caller, asked>>
  BY DEF StartCommand, loop
<1> QED
  BY <1>1, <1>2 DEF Commands

\* A restart or a revocation forgets a command that was not sent.
LEMMA ForgetIs ==
    ASSUME op \in Commands, ClientRestart \/ Revoke
    PROVE  /\ op' \in {op, NoOp} /\ (op.st = "attempted" => op' = op)
           /\ task' = None
BY DEF ClientRestart, Revoke

\* The store is left alone by every other step.
LEMMA OthersKeepStore ==
    ASSUME RevocationInvariant, Next,
           ~(Edits \/ TakeLookup \/ TakeReceipt \/ TakePage \/ TakeReset)
    PROVE  UNCHANGED <<rep, stage, op>>
<1>1. CASE StationSteps
  BY <1>1, StationKeepsStore
<1>2. CASE LateReply
  BY <1>2, LateIsDropped
<1>3. CASE StationReceipt \/ (\E c \in Callers : StartRefresh(c)) \/ UserReturns \/ ReceiveHint
           \/ RetryPending \/ LiveReturns \/ UserRefresh \/ RequestFails \/ Reconnect
  BY <1>3, Zenon DEF store, StationReceipt, StartRefresh, UserReturns, ReceiveHint, RetryPending,
     LiveReturns, UserRefresh, RequestFails, Reconnect
<1> QED
  BY <1>1, <1>2, <1>3, StepsAre DEF ClientSteps, Client, Edits

LEMMA StoreTypesKept ==
    ASSUME StoreTypes, TaskTyped, RevocationInvariant, Next
    PROVE  StoreTypes'
<1>0. rep \in Catalogs /\ op \in Commands /\ (stage # None => stage \in Stages)
  BY DEF StoreTypes
<1>1. CASE UserEdit
  <2>1. PICK id \in Edited : op' = Draft(id)
    BY <1>1 DEF UserEdit
  <2>2. id \in Ids
    BY ReplicaAssumption
  <2>3. UNCHANGED <<rep, stage>>
    BY <1>1 DEF UserEdit
  <2>4. op' \in Commands
    BY <2>1, <2>2, DraftIs
  <2> QED
    BY <1>0, <2>3, <2>4 DEF StoreTypes
<1>2. CASE UserIntend
  BY <1>0, <1>2, IntendIs, ConstantsOfStore DEF StoreTypes
<1>3. CASE StartCommand
  BY <1>0, <1>3, StartCommandIs DEF StoreTypes
<1>4. CASE ClientRestart \/ Revoke
  <2>1. op' \in {op, NoOp}
    BY <1>0, <1>4, ForgetIs
  <2>2. (rep' = rep /\ stage' = stage) \/ (rep' = Empty /\ stage' = None)
    BY <1>4 DEF ClientRestart, Revoke
  <2> QED
    BY <1>0, <2>1, <2>2, ConstantsOfStore DEF StoreTypes
<1>5. CASE TakeLookup \/ TakeReceipt
  <2>1. /\ UNCHANGED stage
        /\ \/ UNCHANGED <<rep, op>>
           \/ /\ task.reply.receipt \in Receipts
              /\ TakesReceipt(task.reply.receipt)
    BY <1>5, AnswerTaken
  <2> QED
    BY <1>0, <2>1, TakesReceiptTyped DEF StoreTypes
<1>6. CASE TakePage
  <2>1. /\ task.reply \in Pages /\ UNCHANGED op
        /\ UNCHANGED <<rep, stage>> \/ ApplyPage(task.reply)
    BY <1>6, PageTaken
  <2> QED
    BY <1>0, <2>1, ApplyPageTyped DEF StoreTypes
<1>7. CASE TakeReset
  BY <1>0, <1>7 DEF TakeReset, StoreTypes
<1>8. CASE ~(Edits \/ TakeLookup \/ TakeReceipt \/ TakePage \/ TakeReset)
  BY <1>0, <1>8, OthersKeepStore DEF StoreTypes
<1> QED
  BY <1>1, <1>2, <1>3, <1>4, <1>5, <1>6, <1>7, <1>8 DEF Edits

\* A task with another reply, or that asks for something else.
LEMMA RepliedFits ==
    ASSUME TaskFits(task), NEW x,
           \/ task.kind = "pull" /\ x \in {None, Reset} \cup Pages
           \/ task.kind = "receipt" /\ x \in {None} \cup ReceiptReplies
           \/ task.kind = "command" /\ x \in ReceiptReplies /\ x.receipt \in Receipts,
           task' = [task EXCEPT !.reply = x]
    PROVE  /\ TaskFits(task') /\ task'.reply = x /\ task'.kind = task.kind
           /\ task'.req = task.req /\ task'.covers = task.covers
           /\ task'.resuming = task.resuming
<1>1. task \in Tasks
  BY DEF TaskFits
<1>2. x \in Replies
  BY DEF Replies
<1>3. /\ task' \in Tasks /\ task'.reply = x /\ task'.kind = task.kind
      /\ task'.req = task.req /\ task'.covers = task.covers
      /\ task'.resuming = task.resuming
  BY <1>1, <1>2 DEF Tasks
<1> QED
  BY <1>3 DEF TaskFits

LEMMA PullTaskFits ==
    ASSUME NEW c \in Callers, NEW r \in Catalogs, NEW s, s # None => s \in Stages
    PROVE  LET t == PullTask(c, r, s) IN
           /\ TaskFits(t) /\ t.kind = "pull" /\ t.reply = None
           /\ t.req = ReplicaPull(r, s) /\ t.resuming = (s # None)
           /\ t.covers = {x \in Callers : caller[x] = "refreshing"}
<1> DEFINE req == ReplicaPull(r, s)
           covers == {x \in Callers : caller[x] = "refreshing"}
           resuming == s # None
<1>1. req \in Requests
  BY PullTyped
<1>2. covers \in SUBSET Callers /\ resuming \in BOOLEAN /\ None \in Replies
  BY DEF Replies
<1>3. PullTask(c, r, s) =
         [by |-> c, kind |-> "pull", req |-> req, resets |-> 0,
          covers |-> covers, resuming |-> resuming, reply |-> None]
  BY DEF PullTask
<1> HIDE DEF req, covers, resuming
<1>4. PullTask(c, r, s) \in Tasks
  BY <1>1, <1>2, <1>3 DEF Tasks
<1> QED
  BY <1>1, <1>3, <1>4 DEF TaskFits, req, covers, resuming

LEMMA OtherTasksFit ==
    /\ \A c \in Callers :
          /\ TaskFits(ReceiptTask(c)) /\ ReceiptTask(c).kind = "receipt"
          /\ ReceiptTask(c).reply = None
    /\ TaskFits(CommandTask) /\ CommandTask.kind = "command" /\ CommandTask.reply = None
<1>1. None \in Replies /\ {} \in SUBSET Callers /\ "user" \in Callers
  BY CallersAre DEF Replies
<1>2. ASSUME NEW c \in Callers
      PROVE  /\ ReceiptTask(c) \in Tasks
             /\ ReceiptTask(c).kind = "receipt" /\ ReceiptTask(c).reply = None
  BY <1>1 DEF ReceiptTask, Tasks
<1>3. CommandTask \in Tasks /\ CommandTask.kind = "command" /\ CommandTask.reply = None
  BY <1>1 DEF CommandTask, Tasks
<1> QED
  BY <1>2, <1>3 DEF TaskFits

\* A pull goes on: with the next page, or from the beginning after a reset.
LEMMA NextPageFits ==
    ASSUME TaskFits(task), task.kind = "pull", NEW req \in Requests,
           \/ task' = [task EXCEPT !.req = req, !.reply = None]
           \/ task' = [task EXCEPT !.req = req, !.resets = @ + 1, !.resuming = FALSE,
                                   !.reply = None]
    PROVE  /\ TaskFits(task') /\ task'.kind = "pull" /\ task'.reply = None
           /\ task'.req = req /\ task'.covers = task.covers
           /\ task'.resuming \in {task.resuming, FALSE}
           /\ task' = [task EXCEPT !.req = req, !.reply = None] =>
                 task'.resuming = task.resuming
<1>1. task \in Tasks /\ None \in Replies
  BY DEF TaskFits, Replies
<1>2. /\ task' \in Tasks /\ task'.kind = "pull" /\ task'.reply = None
      /\ task'.req = req /\ task'.covers = task.covers
      /\ task'.resuming \in {task.resuming, FALSE}
  <2>1. CASE task' = [task EXCEPT !.req = req, !.reply = None]
    BY <1>1, <2>1 DEF Tasks
  <2>2. CASE task' = [task EXCEPT !.req = req, !.resets = @ + 1, !.resuming = FALSE,
                                  !.reply = None]
    <3> DEFINE n == task.resets + 1
    <3>1. n \in Nat
      BY <1>1 DEF Tasks
    <3>2. task' = [task EXCEPT !.req = req, !.resets = n, !.resuming = FALSE, !.reply = None]
      BY <2>2
    <3> HIDE DEF n
    <3> QED
      BY <1>1, <3>1, <3>2 DEF Tasks
  <2> QED
    BY <2>1, <2>2
<1>3. task' = [task EXCEPT !.req = req, !.reply = None] => task'.resuming = task.resuming
  BY <1>1 DEF Tasks
<1> QED
  BY <1>2, <1>3 DEF TaskFits

\* What becomes of the task in each step.
LEMMA TaskMoves ==
    ASSUME StationTypes, StoreTypes, TaskTyped, RevocationInvariant, Next
    PROVE  \/ UNCHANGED task
           \/ task' = None
           \/ /\ task = None \/ (task # None /\ task.kind = "receipt")
              /\ \E c \in Callers : task' = PullTask(c, rep', stage)
              /\ UNCHANGED <<stage, caller, asked, db, mark>>
           \/ task = None /\ \E c \in Callers : task' = ReceiptTask(c)
           \/ StartCommand
           \/ StationPull
           \/ /\ StationReceipt
              /\ task # None /\ task.kind = "receipt" /\ task.reply = None
              /\ task' = [task EXCEPT !.reply = [kind |-> "receipt", receipt |-> db.receipt]]
           \/ /\ StationCommand
              /\ task # None /\ task.kind = "command" /\ task.reply = None
              /\ task' = [task EXCEPT !.reply = [kind |-> "receipt", receipt |-> db'.receipt]]
              /\ db'.receipt \in Receipts
           \/ /\ TakePage /\ Paged
              /\ task' = [task EXCEPT !.req = ReplicaPull(rep', stage'), !.reply = None]
           \/ /\ TakeReset /\ task # None /\ task.kind = "pull" /\ stage' = None
              /\ task' = [task EXCEPT !.req = [after |-> None, next |-> None],
                                      !.resets = @ + 1, !.resuming = FALSE, !.reply = None]
              /\ UNCHANGED <<caller, asked>>
<1>1. CASE StationWrite \/ StationMaintain \/ StationReopen
  BY <1>1 DEF StationWrite, StationMaintain, StationReopen
<1>2. CASE StationCommand
  <2>1. /\ db'.receipt \in Receipts
        /\ \/ UNCHANGED task
           \/ /\ task # None /\ task.kind = "command" /\ task.reply = None
              /\ task' = [task EXCEPT !.reply = [kind |-> "receipt", receipt |-> db'.receipt]]
    BY <1>2, CommandIs DEF StoreTypes
  <2> QED
    BY <1>2, <2>1
<1>3. CASE StationReceipt
  BY <1>3 DEF StationReceipt
<1>4. ASSUME NEW c \in Callers, StartRefresh(c)
      PROVE  \/ task = None /\ task' = ReceiptTask(c)
             \/ /\ task = None /\ task' = PullTask(c, rep', stage)
                /\ UNCHANGED <<stage, caller, asked, db, mark>>
  BY <1>4 DEF StartRefresh, store, loop, station
<1>5. CASE TakeLookup
  <2>1. /\ task # None /\ task.kind = "receipt" /\ task' = PullTask(task.by, rep', stage)
        /\ UNCHANGED <<stage, caller, asked, db, mark>>
    BY <1>5 DEF TakeLookup, loop, station
  <2>2. task.by \in Callers
    BY <2>1 DEF TaskTyped, TaskFits, Tasks
  <2> QED
    BY <2>1, <2>2
<1>6. CASE TakePage
  <2>1. Paged /\ (EndRefresh("error") \/ EndRefresh("ok")
                  \/ task' = [task EXCEPT !.req = ReplicaPull(rep', stage'), !.reply = None])
    BY <1>6, PageTaken
  <2> QED
    BY <1>6, <2>1 DEF EndRefresh
<1>7. CASE TakeReset
  BY <1>7 DEF TakeReset, EndRefresh
<1>8. CASE TakeReceipt
  BY <1>8 DEF TakeReceipt
<1>9. CASE UserEdit \/ UserRefresh \/ UserReturns \/ UserIntend \/ ReceiveHint \/ RetryPending
           \/ LiveReturns \/ Reconnect \/ LateReply
  BY <1>9, Zenon DEF UserEdit, UserRefresh, UserReturns, UserIntend, ReceiveHint, RetryPending,
     LiveReturns, Reconnect, LateReply
<1>10. CASE RequestFails
  <2>1. task # None /\ UNCHANGED <<rep, stage, db, mark>>
    BY <1>10 DEF RequestFails, store, station
  <2>2. CASE task.kind = "receipt" /\ task' = PullTask(task.by, rep, stage)
             /\ UNCHANGED <<caller, asked>>
    <3>1. task.by \in Callers
      BY <2>1 DEF TaskTyped, TaskFits, Tasks
    <3> QED
      BY <2>1, <2>2, <3>1
  <2>3. CASE task' = None
    BY <2>3
  <2> QED
    BY <1>10, <2>2, <2>3 DEF RequestFails, EndRefresh
<1>11. CASE ClientRestart \/ Revoke
  BY <1>11 DEF ClientRestart, Revoke
<1> QED
  BY <1>1, <1>2, <1>3, <1>4, <1>5, <1>6, <1>7, <1>8, <1>9, <1>10, <1>11
     DEF Next, Serve, Client

\* A pull answers what was waiting, with a page or a reset.
LEMMA PullAnswers ==
    ASSUME StationTypes, TaskTyped, StationPull
    PROVE  /\ task # None /\ task.kind = "pull" /\ task.reply = None /\ TaskFits(task)
           /\ TaskFits(task') /\ task'.kind = "pull" /\ task'.req = task.req
           /\ task'.covers = task.covers /\ task'.resuming = task.resuming
           /\ UNCHANGED <<rep, stage, caller, asked>>
           /\ \/ UNCHANGED <<db, mark>> /\ task'.reply = Reset
              \/ \E export \in Exports, index \in Nat, pages \in Nat :
                    /\ task'.reply = PageOf(export, index) /\ task'.reply \in Pages
                    /\ db' \in Databases /\ mark' = Here(db)
                    /\ db'.export = [export EXCEPT !.pages = pages]
                    /\ db'.epoch = db.epoch /\ db'.log = db.log /\ db'.receipt = db.receipt
                    /\ \/ /\ ~CursorUnavailable(db, task.req.after)
                          /\ export = NewExport(db, task.req.after)
                       \/ /\ task.req.next # None /\ db.export # None /\ export = db.export
                          /\ db.export.through = task.req.next.through
<1>1. task # None /\ task.kind = "pull" /\ task.reply = None /\ TaskFits(task)
  BY PullIs DEF TaskTyped
<1>2. UNCHANGED <<rep, stage, caller, asked>>
  BY DEF StationPull, store, loop
<1>3. CASE UNCHANGED <<db, mark>> /\ task' = [task EXCEPT !.reply = Reset]
  <2>1. Reset \in {None, Reset} \cup Pages
    OBVIOUS
  <2> HIDE DEF Reset
  <2>2. /\ TaskFits(task') /\ task'.reply = Reset /\ task'.kind = task.kind
        /\ task'.req = task.req /\ task'.covers = task.covers
        /\ task'.resuming = task.resuming
    BY <1>1, <1>3, <2>1, RepliedFits
  <2> QED
    BY <1>1, <1>2, <1>3, <2>2
<1>4. CASE \E export \in Exports, index \in Nat, pages \in Nat :
                    /\ task' = [task EXCEPT !.reply = PageOf(export, index)]
                    /\ db' \in Databases /\ mark' = Here(db)
                    /\ db'.export = [export EXCEPT !.pages = pages]
                    /\ db'.epoch = db.epoch /\ db'.log = db.log /\ db'.receipt = db.receipt
                    /\ \/ /\ ~CursorUnavailable(db, task.req.after)
                          /\ export = NewExport(db, task.req.after)
                       \/ /\ task.req.next # None /\ db.export # None /\ export = db.export
                          /\ db.export.through = task.req.next.through
  <2>1. PICK export \in Exports, index \in Nat, pages \in Nat :
                    /\ task' = [task EXCEPT !.reply = PageOf(export, index)]
                    /\ db' \in Databases /\ mark' = Here(db)
                    /\ db'.export = [export EXCEPT !.pages = pages]
                    /\ db'.epoch = db.epoch /\ db'.log = db.log /\ db'.receipt = db.receipt
                    /\ \/ /\ ~CursorUnavailable(db, task.req.after)
                          /\ export = NewExport(db, task.req.after)
                       \/ /\ task.req.next # None /\ db.export # None /\ export = db.export
                          /\ db.export.through = task.req.next.through
    BY <1>4
  <2>2. PageOf(export, index) \in Pages
    BY PageTyped
  <2>3. /\ TaskFits(task') /\ task'.reply = PageOf(export, index) /\ task'.kind = task.kind
        /\ task'.req = task.req /\ task'.covers = task.covers
        /\ task'.resuming = task.resuming
    BY <1>1, <2>1, <2>2, RepliedFits
  <2> QED
    BY <1>1, <1>2, <2>1, <2>2, <2>3
<1> QED
  BY <1>3, <1>4, PullIs

LEMMA TaskTypedKept ==
    ASSUME StationTypes, StoreTypes, StoreTypes', TaskTyped, RevocationInvariant, Next
    PROVE  TaskTyped'
<1> SUFFICES ASSUME task' # None PROVE TaskFits(task')
  BY DEF TaskTyped, TaskFits
<1>0. /\ rep' \in Catalogs /\ (stage # None => stage \in Stages)
      /\ (stage' # None => stage' \in Stages)
      /\ db \in Databases
  BY DEF StoreTypes, StationTypes
<1>1. CASE UNCHANGED task
  BY <1>1 DEF TaskTyped
<1>2. CASE \E c \in Callers : task' = PullTask(c, rep', stage)
  BY <1>0, <1>2, PullTaskFits
<1>3. CASE \E c \in Callers : task' = ReceiptTask(c)
  BY <1>3, OtherTasksFit
<1>4. CASE StartCommand
  BY <1>4, OtherTasksFit DEF StartCommand
<1>5. CASE StationPull
  BY <1>5, PullAnswers
<1>6. CASE /\ task # None /\ task.kind = "receipt" /\ task.reply = None
           /\ task' = [task EXCEPT !.reply = [kind |-> "receipt", receipt |-> db.receipt]]
  <2> DEFINE x == [kind |-> "receipt", receipt |-> db.receipt]
  <2>1. x \in ReceiptReplies
    BY <1>0, DatabaseIs DEF ReceiptReplies
  <2>2. TaskFits(task) /\ task' = [task EXCEPT !.reply = x]
    BY <1>6 DEF TaskTyped
  <2> HIDE DEF x
  <2> QED
    BY <1>6, <2>1, <2>2, RepliedFits
<1>7. CASE /\ task # None /\ task.kind = "command" /\ task.reply = None
           /\ task' = [task EXCEPT !.reply = [kind |-> "receipt", receipt |-> db'.receipt]]
           /\ db'.receipt \in Receipts
  <2> DEFINE x == [kind |-> "receipt", receipt |-> db'.receipt]
  <2>1. x \in ReceiptReplies /\ x.receipt \in Receipts
    BY <1>7 DEF ReceiptReplies
  <2>2. TaskFits(task) /\ task' = [task EXCEPT !.reply = x]
    BY <1>7 DEF TaskTyped
  <2> HIDE DEF x
  <2> QED
    BY <1>7, <2>1, <2>2, RepliedFits
<1>8. CASE Paged /\ task' = [task EXCEPT !.req = ReplicaPull(rep', stage'), !.reply = None]
  <2>1. ReplicaPull(rep', stage') \in Requests
    BY <1>0, PullTyped
  <2> QED
    BY <1>8, <2>1, NextPageFits DEF TaskTyped, Paged
<1>9. CASE /\ task # None /\ task.kind = "pull"
           /\ task' = [task EXCEPT !.req = [after |-> None, next |-> None],
                                   !.resets = @ + 1, !.resuming = FALSE, !.reply = None]
  <2>1. [after |-> None, next |-> None] \in Requests
    BY DEF Requests, Starts
  <2> QED
    BY <1>9, <2>1, NextPageFits DEF TaskTyped
<1> QED
  BY <1>1, <1>2, <1>3, <1>4, <1>5, <1>6, <1>7, <1>8, <1>9, TaskMoves

\* Every step leaves the station in its lineage with the log up to the watermark, or starts
\* a new lineage.
LEMMA NextMovesStation ==
    ASSUME StationTypes, TaskTyped, Lineages, op \in Commands, Next
    PROVE  StationMoves
<1>0. StationTypes'
  BY StationTypesKept
<1>1. /\ db \in Databases /\ db' \in Databases /\ mark \in Cursors
      /\ db.epoch \in Nat /\ db'.epoch \in Nat /\ mark.seq \in Nat
      /\ Len(db.log) \in Nat /\ Len(db'.log) \in Nat
      /\ db.epoch >= 1 /\ mark.epoch = db.epoch /\ mark.seq <= Len(db.log)
  BY <1>0, DatabaseIs DEF StationTypes, Cursors, Lineages
<1>2. SUFFICES Lineages' /\ (SameLineage \/ NewLineage)
  BY <1>0 DEF StationMoves
<1>3. CASE StationWrite
  <2>1. /\ mark' = mark /\ db'.epoch = db.epoch /\ Len(db'.log) = Len(db.log) + 1
        /\ \A i \in 1 .. Len(db.log) : db'.log[i] = db.log[i]
    BY <1>3, WriteIs
  <2> QED
    BY <1>1, <2>1 DEF Lineages, SameLineage
<1>4. CASE StationMaintain
  <2>1. mark' = mark /\ db'.epoch = db.epoch /\ db'.log = db.log
    BY <1>4, MaintainIs
  <2> QED
    BY <1>1, <2>1 DEF Lineages, SameLineage
<1>5. CASE StationReopen
  <2>1. /\ mark' = Here(db') /\ Len(db'.log) <= Len(db.log)
        /\ \A i \in 1 .. Len(db'.log) : db'.log[i] = db.log[i]
        /\ \/ db'.epoch = db.epoch /\ mark.seq <= Len(db'.log)
           \/ db'.epoch = db.epoch + 1
    BY <1>5, ReopenIs
  <2>2. mark'.epoch = db'.epoch /\ mark'.seq = Len(db'.log)
    BY <2>1 DEF Here, Cursor
  <2> QED
    BY <1>1, <2>1, <2>2 DEF Lineages, SameLineage, NewLineage
<1>6. CASE StationPull
  <2>1. /\ db'.epoch = db.epoch /\ db'.log = db.log
        /\ mark' = mark \/ mark' = Here(db)
    BY <1>6, PullIs
  <2>2. Here(db).epoch = db.epoch /\ Here(db).seq = Len(db.log)
    BY DEF Here, Cursor
  <2> QED
    BY <1>1, <2>1, <2>2 DEF Lineages, SameLineage
<1>7. CASE StationCommand
  <2>1. /\ mark' = Here(db') /\ db'.epoch = db.epoch /\ Len(db'.log) >= Len(db.log)
        /\ \A i \in 1 .. Len(db.log) : db'.log[i] = db.log[i]
    BY <1>1, <1>7, CommandIs
  <2>2. mark'.epoch = db'.epoch /\ mark'.seq = Len(db'.log)
    BY <2>1 DEF Here, Cursor
  <2> QED
    BY <1>1, <2>1, <2>2 DEF Lineages, SameLineage
<1>8. CASE ClientSteps
  BY <1>1, <1>8, ClientKeepsStation DEF Lineages, SameLineage
<1> QED
  BY <1>3, <1>4, <1>5, <1>6, <1>7, <1>8, StepsAre DEF StationSteps

LEMMA LeastIs ==
    ASSUME NEW a \in Nat, NEW b \in Nat
    PROVE  Min({a, b}) \in Nat /\ Min({a, b}) <= a /\ Min({a, b}) <= b
<1>1. \E x \in {a, b} : \A y \in {a, b} : x <= y
  OBVIOUS
<1>2. /\ (CHOOSE x \in {a, b} : \A y \in {a, b} : x <= y) \in {a, b}
      /\ \A y \in {a, b} : (CHOOSE x \in {a, b} : \A y2 \in {a, b} : x <= y2) <= y
  BY <1>1
<1> QED
  BY <1>2 DEF Min

\* What a caller is waiting for: it asks when it was idle, the station opened again lowers
\* what the lineage still holds of it, and a result or a fault clears it.
LEMMA AskMoves ==
    ASSUME CallerTypes, NEW c \in Callers, Ask(c), NEW x \in Callers
    PROVE  /\ caller'[x] = IF x = c THEN "refreshing" ELSE caller[x]
           /\ asked'[x] = IF x = c THEN Here(db) ELSE asked[x]
BY DEF CallerTypes, Ask

LEMMA ReopenLowers ==
    ASSUME CallerTypes, StationTypes, Lineages, StationReopen, NEW x \in Callers
    PROVE  /\ asked'[x].epoch = asked[x].epoch
           /\ asked'[x].seq \in Nat /\ asked'[x].seq <= asked[x].seq
           /\ asked'[x].seq <= Len(db'.log) /\ asked'[x] \in Cursors
<1>0. asked \in [Callers -> Cursors] /\ asked[x] \in Cursors
  BY DEF CallerTypes
<1>1. asked' = [c \in Callers |-> Cursor(asked[c].epoch, Min({asked[c].seq, Len(db'.log)}))]
  BY DEF StationReopen
<1>2. db' \in Databases
  BY ReopenIs
<1>3. /\ Len(db'.log) \in Nat /\ asked[x].seq \in Nat /\ asked[x].epoch \in Nat
  BY <1>0, <1>2, DatabaseIs DEF Cursors
<1> DEFINE least == Min({asked[x].seq, Len(db'.log)})
<1>4. least \in Nat /\ least <= asked[x].seq /\ least <= Len(db'.log)
  BY <1>3, LeastIs
<1>5. asked'[x] = Cursor(asked[x].epoch, least)
  BY <1>1
<1> HIDE DEF least
<1> QED
  BY <1>3, <1>4, <1>5 DEF Cursor, Cursors

LEMMA AskedMoves ==
    ASSUME CallerTypes, StationTypes, TaskTyped, Lineages, RevocationInvariant, Next,
           NEW x \in Callers
    PROVE  \/ asked'[x] = asked[x]
           \/ /\ StationReopen /\ asked'[x].epoch = asked[x].epoch
              /\ asked'[x].seq \in Nat /\ asked'[x].seq <= asked[x].seq
              /\ asked'[x].seq <= Len(db'.log) /\ asked'[x] \in Cursors
           \/ /\ asked'[x] = Here(db) /\ caller[x] = "idle" /\ UNCHANGED <<db, task>>
           \/ asked'[x] = Nothing /\ task' = None /\ UNCHANGED db
<1>1. CASE StationReopen
  BY <1>1, ReopenLowers
<1>2. CASE StationWrite \/ StationMaintain \/ StationPull \/ StationCommand \/ StationReceipt
           \/ (\E c \in Callers : StartRefresh(c))
           \/ TakeLookup \/ TakeReceipt \/ UserReturns \/ UserIntend \/ StartCommand
           \/ LiveReturns \/ Reconnect \/ LateReply
  <2>1. UNCHANGED asked
    BY <1>2, Zenon DEF StationWrite, StationMaintain, StationPull, StationCommand,
       StationReceipt, StartRefresh, TakeLookup, TakeReceipt, UserReturns, UserIntend,
       StartCommand, LiveReturns, Reconnect, LateReply, loop
  <2> QED
    BY <2>1
<1>3. CASE UserEdit \/ UserRefresh
  <2>1. Ask("user") /\ caller["user"] = "idle" /\ UNCHANGED <<db, task>>
    BY <1>3 DEF UserEdit, UserRefresh, station
  <2> QED
    BY <2>1, AskMoves, CallersAre
<1>4. CASE ReceiveHint
  <2>1. /\ caller["live"] = "idle" /\ UNCHANGED <<db, task>>
        /\ UNCHANGED asked \/ Ask("live")
    BY <1>4 DEF ReceiveHint, station, loop
  <2> QED
    BY <2>1, AskMoves, CallersAre
<1>5. CASE RetryPending
  <2>1. caller["live"] = "idle" /\ UNCHANGED <<db, task>> /\ Ask("live")
    BY <1>5 DEF RetryPending, station
  <2> QED
    BY <2>1, AskMoves, CallersAre
<1>6. CASE TakePage \/ TakeReset \/ RequestFails
  <2>1. /\ UNCHANGED db
        /\ UNCHANGED asked \/ (\E result : EndRefresh(result))
    BY <1>6 DEF TakePage, TakeReset, RequestFails, station
  <2>2. CASE \E result : EndRefresh(result)
    <3>1. /\ task' = None
          /\ asked' = [c \in Callers |-> IF c \in task.covers THEN Nothing ELSE asked[c]]
      BY <2>2 DEF EndRefresh
    <3> QED
      BY <2>1, <3>1
  <2> QED
    BY <2>1, <2>2
<1>7. CASE ClientRestart \/ Revoke
  <2>1. asked' = [c \in Callers |-> Nothing] /\ task' = None /\ UNCHANGED db
    BY <1>7 DEF ClientRestart, Revoke, station
  <2> QED
    BY <2>1
<1> QED
  BY <1>1, <1>2, <1>3, <1>4, <1>5, <1>6, <1>7 DEF Next, Serve, Client

\* A caller that waits goes on waiting while the gate is held.
LEMMA WaitingMoves ==
    ASSUME CallerTypes, Next, NEW x \in Callers, caller[x] = "refreshing"
    PROVE  caller'[x] = "refreshing" \/ task' = None
<1>0. caller \in [Callers -> CallerStates]
  BY DEF CallerTypes
<1>1. CASE StationSteps
  BY <1>1, StationKeepsStore
<1>2. CASE StationReceipt \/ (\E c \in Callers : StartRefresh(c)) \/ TakeLookup \/ StartCommand
           \/ LateReply
  <2>1. UNCHANGED caller
    BY <1>2, Zenon DEF StationReceipt, StartRefresh, TakeLookup, StartCommand, LateReply, loop
  <2> QED
    BY <2>1
<1>3. CASE UserEdit \/ UserRefresh \/ ReceiveHint \/ RetryPending
  <2>1. UNCHANGED caller \/ (\E c \in Callers : Ask(c))
    BY <1>3, CallersAre DEF UserEdit, UserRefresh, ReceiveHint, RetryPending, loop
  <2> QED
    BY <2>1, AskMoves
<1>4. CASE UserReturns \/ UserIntend
  <2>1. caller["user"] # "refreshing"
    BY <1>4 DEF UserReturns, UserIntend
  <2>2. \E s : caller' = [caller EXCEPT !["user"] = s]
    BY <1>4 DEF UserReturns, UserIntend
  <2> QED
    BY <1>0, <2>1, <2>2
<1>5. CASE LiveReturns \/ Reconnect
  <2>1. caller["live"] # "refreshing"
    BY <1>5 DEF LiveReturns, Reconnect
  <2>2. \E s : caller' = [caller EXCEPT !["live"] = s]
    BY <1>5 DEF LiveReturns, Reconnect
  <2> QED
    BY <1>0, <2>1, <2>2
<1>6. CASE TakePage \/ TakeReset \/ RequestFails \/ TakeReceipt \/ ClientRestart \/ Revoke
  <2>1. UNCHANGED caller \/ task' = None
    BY <1>6 DEF TakePage, TakeReset, RequestFails, TakeReceipt, ClientRestart, Revoke, EndRefresh
  <2> QED
    BY <2>1
<1> QED
  BY <1>1, <1>2, <1>3, <1>4, <1>5, <1>6, StepsAre DEF ClientSteps, Client

LEMMA CallerTypesKept ==
    ASSUME CallerTypes, StationTypes, TaskTyped, Lineages, RevocationInvariant, Next
    PROVE  CallerTypes'
<1>1. caller' \in [Callers -> CallerStates]
  <2>1. RevocationInvariant'
    BY NextKeepsRevocation
  <2> QED
    BY <2>1 DEF RevocationInvariant, GenerationsTyped
<1>2. asked \in [Callers -> Cursors] /\ Nothing \in Cursors /\ Here(db) \in Cursors
  BY HereTyped DEF CallerTypes, Nothing, Cursor, Cursors, StationTypes
<1>3. \A x \in Callers : asked'[x] \in Cursors
  BY <1>2, AskedMoves
<1>4. asked' = [x \in Callers |-> asked'[x]]
  <2>1. \/ UNCHANGED asked
        \/ \E c \in Callers : Ask(c)
        \/ \E result : EndRefresh(result)
        \/ asked' = [c \in Callers |-> Nothing]
        \/ StationReopen
    <3>1. CASE StationWrite \/ StationMaintain \/ StationPull \/ StationCommand
               \/ StationReceipt \/ (\E c \in Callers : StartRefresh(c))
               \/ TakeLookup \/ TakeReceipt \/ UserReturns \/ UserIntend \/ StartCommand
               \/ LiveReturns \/ Reconnect \/ LateReply
      BY <3>1, Zenon DEF StationWrite, StationMaintain, StationPull, StationCommand,
         StationReceipt, StartRefresh, TakeLookup, TakeReceipt, UserReturns, UserIntend,
         StartCommand, LiveReturns, Reconnect, LateReply, loop
    <3>2. CASE UserEdit \/ UserRefresh \/ ReceiveHint \/ RetryPending
      BY <3>2, CallersAre DEF UserEdit, UserRefresh, ReceiveHint, RetryPending, loop
    <3>3. CASE TakePage \/ TakeReset \/ RequestFails
      BY <3>3 DEF TakePage, TakeReset, RequestFails
    <3>4. CASE ClientRestart \/ Revoke
      BY <3>4 DEF ClientRestart, Revoke
    <3> QED
      BY <3>1, <3>2, <3>3, <3>4 DEF Next, Serve, Client
  <2>2. CASE StationReopen
    BY <2>2 DEF StationReopen
  <2>3. CASE \E c \in Callers : Ask(c)
    BY <1>2, <2>3 DEF Ask
  <2> QED
    BY <1>2, <2>1, <2>2, <2>3 DEF EndRefresh
<1>5. asked' \in [Callers -> Cursors]
  BY <1>3, <1>4
<1> QED
  BY <1>1, <1>5 DEF CallerTypes

LEMMA FlagsKept ==
    ASSUME FlagTypes, FaultTypes, TaskTyped, Next
    PROVE  FlagTypes' /\ FaultTypes'
<1>0. MaxFaults \in Nat /\ faults \in 0 .. MaxFaults
  BY ReplicaAssumption DEF FaultTypes
<1>1. /\ pending \in BOOLEAN /\ signal \in BOOLEAN /\ post \in BOOLEAN /\ resumed \in BOOLEAN
      /\ TaskTyped
  BY DEF FlagTypes
<1>2. pending' \in BOOLEAN
  BY <1>1 DEF Next, Serve, Client, loop, StationWrite, StationMaintain, StationReopen,
     StationPull, StationReceipt, StationCommand, StartRefresh, TakeLookup, TakePage, TakeReset,
     TakeReceipt, UserReturns, UserIntend, StartCommand, ReceiveHint, RetryPending, LiveReturns,
     UserEdit, UserRefresh, RequestFails, ClientRestart, Revoke, Reconnect, LateReply
<1>3. signal' \in BOOLEAN
  <2>1. CASE StationCommand
    BY <1>1, <2>1 DEF StationCommand
  <2>2. CASE ~StationCommand
    <3>1. signal' \in {signal, TRUE, FALSE}
      BY <2>2, Zenon DEF Next, Serve, Client, StationWrite, StationMaintain, StationReopen,
         StationPull, StationReceipt, StartRefresh, TakeLookup, TakePage, TakeReset,
         TakeReceipt, UserReturns, UserIntend, StartCommand, ReceiveHint, RetryPending,
         LiveReturns, UserEdit, UserRefresh, RequestFails, ClientRestart, Revoke, Reconnect,
         LateReply
    <3> QED
      BY <1>1, <3>1
  <2> QED
    BY <2>1, <2>2
<1>4. post' \in BOOLEAN
  <2>1. post' \in {post, TRUE, FALSE}
    BY Zenon DEF Next, Serve, Client, StationWrite, StationMaintain, StationReopen,
       StationPull, StationReceipt, StationCommand, StartRefresh, TakeLookup, TakePage,
       TakeReset, TakeReceipt, UserReturns, UserIntend, StartCommand, ReceiveHint,
       RetryPending, LiveReturns, UserEdit, UserRefresh, RequestFails, ClientRestart, Revoke,
       Reconnect, LateReply
  <2> QED
    BY <1>1, <2>1
<1>5. resumed' \in BOOLEAN
  <2>1. resumed' = resumed \/ TakePage
    BY Zenon DEF Next, Serve, Client, StationWrite, StationMaintain, StationReopen,
       StationPull, StationReceipt, StationCommand, StartRefresh, TakeLookup,
       TakeReset, TakeReceipt, UserReturns, UserIntend, StartCommand, ReceiveHint,
       RetryPending, LiveReturns, UserEdit, UserRefresh, RequestFails, ClientRestart, Revoke,
       Reconnect, LateReply
  <2>2. TakePage => resumed' = resumed \/ (task # None /\ resumed' = task.resuming)
    BY DEF TakePage
  <2>3. task # None => task.resuming \in BOOLEAN
    BY <1>1 DEF TaskTyped, TaskFits, Tasks
  <2> QED
    BY <1>1, <2>1, <2>2, <2>3
<1>6. faults' \in 0 .. MaxFaults
  <2>1. faults' = faults \/ (faults < MaxFaults /\ faults' = faults + 1)
    BY Zenon DEF Next, Serve, Client, StationWrite, StationMaintain, StationReopen,
       StationPull, StationReceipt, StationCommand, StartRefresh, TakeLookup, TakePage,
       TakeReset, TakeReceipt, UserReturns, UserIntend, StartCommand, ReceiveHint,
       RetryPending, LiveReturns, UserEdit, UserRefresh, RequestFails, ClientRestart, Revoke,
       Reconnect, LateReply
  <2> QED
    BY <1>0, <2>1
<1> QED
  BY <1>2, <1>3, <1>4, <1>5, <1>6 DEF FlagTypes, FaultTypes

-----------------------------------------------------------------------------
(* Exports and the pages of them. *)

LEMMA SameEpoch ==
    ASSUME StationMoves, db'.epoch = db.epoch
    PROVE  SameLineage
BY MoveNumbers DEF StationMoves, NewLineage

\* The whole log is its own cut at its end.
LEMMA AtTheEnd ==
    ASSUME StationReady, NEW id \in Ids
    PROVE  At(id, Len(db.log)) = Row(db.log, id)
<1>1. /\ db.log \in Logs /\ Len(db.log) \in Nat /\ Len(db.log) \in 0 .. Len(db.log)
      /\ DOMAIN db.log = 1 .. Len(db.log)
  BY ReadyNumbers
<1> DEFINE row == Row(db.log, id)
<1>2. /\ row \in Rows /\ row.rev = Rev(db.log, id)
      /\ Rev(db.log, id) = 0 => row.val = Gone
      /\ Rev(db.log, id) # 0 => row.val = db.log[Rev(db.log, id)].val
      /\ Rev(db.log, id) = 0 => row = NoRow
  BY <1>1, RowIs DEF Row
<1>3. /\ Rev(db.log, id) \in 0 .. Len(db.log)
      /\ Rev(db.log, id) # 0 => db.log[Rev(db.log, id)].id = id
      /\ \A i \in DOMAIN db.log : db.log[i].id = id => i <= Rev(db.log, id)
  BY <1>1, RevIs
<1>4. row.rev # 0 => db.log[row.rev] = [id |-> id, val |-> row.val]
  <2>1. SUFFICES ASSUME row.rev # 0 PROVE db.log[row.rev] = [id |-> id, val |-> row.val]
    OBVIOUS
  <2>2. Rev(db.log, id) \in 1 .. Len(db.log)
    BY <1>1, <1>2, <1>3, <2>1
  <2>3. db.log[Rev(db.log, id)] \in Entries
    BY <1>1, <2>2, ElementOfSeq DEF Logs
  <2> QED
    BY <1>2, <1>3, <2>1, <2>3 DEF Entries
<1> HIDE DEF row
<1>5. /\ db.log \in Logs /\ Len(db.log) \in 0 .. Len(db.log)
      /\ row \in Rows /\ row.rev \in 0 .. Len(db.log)
      /\ row.rev = 0 => row = NoRow
      /\ \A i \in 1 .. Len(db.log) : db.log[i].id = id => i <= row.rev
  BY <1>1, <1>2, <1>3
<1>6. Row(Upto(db.log, Len(db.log)), id) = row
  BY <1>4, <1>5, VersionUnique
<1> QED
  BY <1>6 DEF At, row

\* A new export holds the rows of its batch: tombstones the station has dropped are at or
\* below the floor, and nobody is served a delta from below the floor.
LEMMA NewExportIs ==
    ASSUME StationReady, NEW after \in Starts, ~CursorUnavailable(db, after)
    PROVE  LET x == NewExport(db, after) IN
           /\ x.from = after /\ x.through = Here(db)
           /\ after # None => after.epoch = db.epoch /\ after.seq <= Len(db.log)
           /\ x.rows = Delta(after, Len(db.log))
<1> DEFINE n == Len(db.log)
           A == {x \in Ids : /\ HasRow(db, x)
                             /\ Rev(db.log, x) > PositionOf(after)
                             /\ after # None \/ Row(db.log, x).val # Gone}
           B == {x \in Ids : /\ At(x, n).rev > PositionOf(after)
                             /\ after # None \/ At(x, n).val # Gone}
<1>1. /\ db.log \in Logs /\ Len(db.log) \in Nat /\ db.floor \in Nat
      /\ after # None => /\ after.epoch = db.epoch /\ after.seq >= db.floor
                         /\ after.seq <= Len(db.log) /\ after.seq \in Nat
  BY ReadyNumbers DEF CursorUnavailable, Starts, Cursors
<1>2. \A x \in Ids : At(x, n) = Row(db.log, x)
  BY AtTheEnd
<1>3. ASSUME NEW x \in Ids PROVE x \in A <=> x \in B
  <2>1. Row(db.log, x).rev = Rev(db.log, x) /\ Rev(db.log, x) \in Nat
    BY <1>1, RowIs, RevIs
  <2>2. /\ At(x, n).rev = Rev(db.log, x) /\ At(x, n).val = Row(db.log, x).val
    BY <1>2, <2>1
  <2>3. /\ Rev(db.log, x) > PositionOf(after)
        /\ after # None \/ Row(db.log, x).val # Gone
        => HasRow(db, x)
    BY <1>1, <2>1 DEF PositionOf, HasRow
  <2> QED
    BY <2>2, <2>3
<1>4. A = B
  BY <1>3
<1>5. NewExport(db, after).rows = {[id |-> x, row |-> Row(db.log, x)] : x \in A}
  BY DEF NewExport
<1>6. Delta(after, n) = {[id |-> x, row |-> At(x, n)] : x \in B}
  BY DEF Delta
<1>7. B \subseteq Ids
  OBVIOUS
<1> HIDE DEF A, B
<1>8. NewExport(db, after).rows = Delta(after, n)
  BY <1>2, <1>4, <1>5, <1>6, <1>7
<1> QED
  BY <1>1, <1>8 DEF NewExport

\* An export the station serves from is the whole batch it names.
WholeExport(x) == HonestBatch(x) /\ Current(x) /\ x.rows = Whole(x)
LEMMA ServedIsWhole ==
    ASSUME StationMoves, StationReady, ExportHonest, NEW x \in Exports,
           NEW after \in Starts, NEW next,
           mark' = Here(db), db'.epoch = db.epoch, db'.log = db.log,
           \/ ~CursorUnavailable(db, after) /\ x = NewExport(db, after)
           \/ next # None /\ db.export # None /\ x = db.export
    PROVE  WholeExport(x)'
<1>0. /\ db.epoch \in Nat /\ Len(db.log) \in Nat /\ mark.seq <= Len(db.log)
      /\ mark.seq \in Nat /\ mark'.seq = Len(db.log)
  BY ReadyNumbers DEF Here, Cursor
<1>1. CASE ~CursorUnavailable(db, after) /\ x = NewExport(db, after)
  <2>1. /\ x.from = after /\ x.through = Here(db)
        /\ after # None => after.epoch = db.epoch /\ after.seq <= Len(db.log)
        /\ x.rows = Delta(after, Len(db.log))
    BY <1>1, NewExportIs
  <2>2. x.through.epoch = db.epoch /\ x.through.seq = Len(db.log)
    BY <2>1 DEF Here, Cursor
  <2>3. HonestBatch(x)' /\ Current(x)'
    BY <1>0, <2>1, <2>2 DEF HonestBatch, Current, Reached
  <2>4. Whole(x)' = Delta(after, Len(db.log))
    <3>1. Whole(x)' = {[id |-> id, row |-> Row(Upto(db'.log, x.through.seq), id)] :
              id \in {y \in Ids :
                        /\ Row(Upto(db'.log, x.through.seq), y).rev > PositionOf(x.from)
                        /\ \/ x.from # None
                           \/ Row(Upto(db'.log, x.through.seq), y).val # Gone}}
      BY DEF Whole, Delta, At
    <3>2. db'.log = db.log /\ x.through.seq = Len(db.log) /\ x.from = after
      BY <2>1, <2>2
    <3> QED
      BY <3>1, <3>2 DEF Delta, At
  <2> QED
    BY <2>1, <2>3, <2>4 DEF WholeExport
<1>2. CASE db.export # None /\ x = db.export
  <2>1. HonestBatch(x) /\ Current(x) /\ x.rows = Whole(x)
    BY <1>2 DEF ExportHonest
  <2>2. Current(x)'
    BY <2>1 DEF Current
  <2>3. HonestBatch(x)' /\ Whole(x)' = Whole(x)
    BY <2>1, <2>2, MoveBatch DEF Exports
  <2> QED
    BY <2>1, <2>2, <2>3 DEF WholeExport
<1> QED
  BY <1>1, <1>2

LEMMA PageOfWhole ==
    ASSUME NEW x \in Exports, NEW index \in Nat, NEW p, p = PageOf(x, index), WholeExport(x)'
    PROVE  PageHonest(p)'
<1>1. /\ p.from = x.from /\ p.through = x.through /\ p.index = index
      /\ p.last = (index + 1 >= Cardinality(x.rows))
      /\ p.rows = {r \in x.rows : Rank(x.rows, r) = index}
  BY DEF PageOf, Rank
<1>2. HonestBatch(x)' /\ Current(x)' /\ x.rows = Whole(x)'
  BY DEF WholeExport
<1>3. HonestBatch(p)' /\ Whole(p)' = Whole(x)'
  BY <1>1, <1>2 DEF HonestBatch, Whole, Reached
<1>4. /\ p.rows = {r \in Whole(p)' : Rank(Whole(p)', r) = p.index}
      /\ p.last = (p.index + 1 >= Cardinality(Whole(p)'))
  BY <1>1, <1>2, <1>3
<1> QED
  BY <1>3, <1>4 DEF PageHonest, Rank

\* What a pull serves: an honest page of an honest export, that goes on with the batch it
\* was asked for or reaches the station's present position.
LEMMA PullServes ==
    ASSUME StationMoves, StationReady, ExportHonest, TaskTyped, StationPull
    PROVE  /\ ExportHonest'
           /\ task'.reply # Reset =>
                 /\ task'.reply \in Pages /\ PageHonest(task.reply)'
                 /\ task'.reply.through.epoch = db.epoch
                 /\ \/ task'.reply.through = Here(db)
                    \/ task.req.next # None /\ task'.reply.through = task.req.next.through
<1>0. StationTypes
  BY DEF StationReady
<1>1. CASE UNCHANGED <<db, mark>> /\ task'.reply = Reset
  <2>1. SameLineage
    BY <1>1, SameEpoch
  <2> QED
    BY <1>1, <2>1, MoveExport
<1>2. CASE \E export \in Exports, index \in Nat, pages \in Nat :
                    /\ task'.reply = PageOf(export, index) /\ task'.reply \in Pages
                    /\ db' \in Databases /\ mark' = Here(db)
                    /\ db'.export = [export EXCEPT !.pages = pages]
                    /\ db'.epoch = db.epoch /\ db'.log = db.log /\ db'.receipt = db.receipt
                    /\ \/ /\ ~CursorUnavailable(db, task.req.after)
                          /\ export = NewExport(db, task.req.after)
                       \/ /\ task.req.next # None /\ db.export # None /\ export = db.export
                          /\ db.export.through = task.req.next.through
  <2>1. PICK export \in Exports, index \in Nat, pages \in Nat :
                    /\ task'.reply = PageOf(export, index) /\ task'.reply \in Pages
                    /\ db' \in Databases /\ mark' = Here(db)
                    /\ db'.export = [export EXCEPT !.pages = pages]
                    /\ db'.epoch = db.epoch /\ db'.log = db.log /\ db'.receipt = db.receipt
                    /\ \/ /\ ~CursorUnavailable(db, task.req.after)
                          /\ export = NewExport(db, task.req.after)
                       \/ /\ task.req.next # None /\ db.export # None /\ export = db.export
                          /\ db.export.through = task.req.next.through
    BY <1>2
  <2> PICK after, next : after = task.req.after /\ next = task.req.next
    OBVIOUS
  <2>2. after \in Starts
    BY <1>0, PullAnswers DEF TaskFits, Requests
  <2>3. \/ ~CursorUnavailable(db, after) /\ export = NewExport(db, after)
        \/ next # None /\ db.export # None /\ export = db.export
    BY <2>1
  <2>4. mark' = Here(db) /\ db'.epoch = db.epoch /\ db'.log = db.log
    BY <2>1
  <2>5. WholeExport(export)'
    BY <2>2, <2>3, <2>4, ServedIsWhole
  <2> PICK p : p = PageOf(export, index)
    OBVIOUS
  <2>6. PageHonest(p)'
    BY <2>5, PageOfWhole
  <2>7. ExportHonest'
    <3> PICK y : y = [export EXCEPT !.pages = pages]
      OBVIOUS
    <3>1. y.from = export.from /\ y.through = export.through /\ y.rows = export.rows
      BY DEF Exports
    <3>2. db'.export = y
      BY <2>1
    <3> QED
      BY <2>5, <3>1, <3>2 DEF ExportHonest, WholeExport, HonestBatch, Current, Whole, Reached
  <2>8. task'.reply.through = export.through
    BY <2>1 DEF PageOf
  <2>a. export.through.epoch = db.epoch
    BY <2>1, <2>5 DEF WholeExport, Current
  <2>9. \/ export.through = Here(db)
        \/ task.req.next # None /\ export.through = task.req.next.through
    BY <2>1 DEF NewExport
  <2>10. PageHonest(task.reply)'
    <3>1. task'.reply = p
      BY <2>1
    <3> QED
      BY <2>6, <3>1 DEF PageHonest, HonestBatch, Current, Whole, Reached
  <2> QED
    BY <2>1, <2>a, <2>7, <2>8, <2>9, <2>10
<1> QED
  BY <1>0, <1>1, <1>2, PullAnswers

-----------------------------------------------------------------------------
(* What is staged and what is published stays honest. *)

\* The steps that change what is staged.
LEMMA StageMoves ==
    ASSUME TaskTyped, RevocationInvariant, Next
    PROVE  \/ stage' = stage
           \/ stage' = None
           \/ /\ TakePage /\ task.reply \in Pages
              /\ Acceptable(rep, stage, gen, task.reply) /\ ~task.reply.last
              /\ stage' = [from |-> task.reply.from, through |-> task.reply.through,
                           index |-> task.reply.index + 1, rows |-> StagedRows(stage, task.reply)]
<1>1. CASE TakePage
  <2>1. /\ task.reply \in Pages
        /\ \/ stage' = stage
           \/ Acceptable(rep, stage, gen, task.reply) /\ ApplyPage(task.reply)
    BY <1>1, PageTaken
  <2> QED
    BY <1>1, <2>1 DEF ApplyPage
<1>2. CASE UserEdit \/ UserIntend \/ StartCommand \/ ClientRestart
  BY <1>2 DEF UserEdit, UserIntend, StartCommand, ClientRestart
<1>3. CASE Revoke
  BY <1>3 DEF Revoke
<1>4. CASE TakeReset
  BY <1>4 DEF TakeReset
<1>5. CASE TakeLookup \/ TakeReceipt
  BY <1>5 DEF TakeLookup, TakeReceipt
<1>6. CASE ~(Edits \/ TakeLookup \/ TakeReceipt \/ TakePage \/ TakeReset)
  BY <1>6, OthersKeepStore
<1> QED
  BY <1>1, <1>2, <1>3, <1>4, <1>5, <1>6 DEF Edits

LEMMA StageHonestKept ==
    ASSUME StationMoves, StationReady, StoreReady, TaskTyped, AnswerHonest,
           RevocationInvariant, Next
    PROVE  StageHonest'
<1>0. (stage # None => stage \in Stages) /\ StageHonest
  BY DEF StoreReady
<1>1. CASE stage' = stage
  BY <1>0, <1>1, MoveStage
<1>2. CASE stage' = None
  BY <1>2 DEF StageHonest
<1>3. CASE /\ TakePage /\ task.reply \in Pages
           /\ Acceptable(rep, stage, gen, task.reply) /\ ~task.reply.last
           /\ stage' = [from |-> task.reply.from, through |-> task.reply.through,
                        index |-> task.reply.index + 1, rows |-> StagedRows(stage, task.reply)]
  <2> PICK page \in Pages : page = task.reply
    BY <1>3
  <2> PICK s : s = [from |-> page.from, through |-> page.through,
                    index |-> page.index + 1, rows |-> StagedRows(stage, page)]
    OBVIOUS
  <2>1. PageHonest(page) /\ page.index = NextIndex(stage, page)
    BY <1>3, PageTaken DEF AnswerHonest, Acceptable
  <2>2. UNCHANGED <<db, mark>>
    BY <1>3, ClientKeepsStation DEF ClientSteps, Client
  <2>3. stage' = s
    BY <1>3
  <2>4. HonestBatch(s)
    BY <2>1 DEF PageHonest, HonestBatch
  <2>5. Current(s) => s.rows = {r \in Whole(s) : Rank(Whole(s), r) < s.index}
    <3>1. SUFFICES ASSUME Current(page)
                   PROVE  s.rows = {r \in Whole(page) : Rank(Whole(page), r) < page.index + 1}
      BY DEF Current, Whole
    <3> QED
      BY <2>1, <3>1, StagedRowsAre
  <2>6. HonestBatch(stage)'
    BY <2>2, <2>3, <2>4 DEF HonestBatch, Reached
  <2>7. Whole(stage)' = Whole(s)
    BY <2>2, <2>3 DEF Whole, Delta, At
  <2>8. Current(stage)' =>
            stage'.rows = {r \in Whole(stage)' : Rank(Whole(stage)', r) < stage'.index}
    BY <2>2, <2>3, <2>5, <2>7 DEF Current
  <2> QED
    BY <2>6, <2>8 DEF StageHonest, Rank
<1> QED
  BY <1>1, <1>2, <1>3, StageMoves

\* An edit changes the record of a command that no receipt is known of.
LEMMA EditsAreUnanswered ==
    ASSUME StoreTypes, ReceiptsHonest, CommandHonest, Edits
    PROVE  /\ UNCHANGED <<db, mark, writes, post>> \/ StartCommand
           /\ UNCHANGED <<db, mark, writes>>
           /\ UNCHANGED rep \/ Revoke
           /\ \/ op' = op
              \/ op.st # "attempted" \/ StartCommand
<1>1. CASE UserEdit
  BY <1>1 DEF UserEdit, station
<1>2. CASE UserIntend
  BY <1>2 DEF UserIntend, station
<1>3. CASE StartCommand
  BY <1>3 DEF StartCommand, station
<1>4. CASE ClientRestart \/ Revoke
  BY <1>4 DEF ClientRestart, Revoke, station
<1> QED
  BY <1>1, <1>2, <1>3, <1>4 DEF Edits

\* When the command is sent it is an intent: nobody knows a receipt of it.
LEMMA NoReceiptBefore ==
    ASSUME StoreTypes, ReceiptsHonest, CommandHonest, Edits
    PROVE  \/ op' = op /\ ~StartCommand
           \/ /\ op.st # "attempted" /\ db.receipt = None /\ op.receipt = None /\ ~Answered
              /\ ~post
<1>1. op.st # "attempted" => /\ db.receipt = None /\ op.receipt = None /\ ~Answered /\ ~post
  BY DEF ReceiptsHonest, ReceiptHonest, CommandHonest
<1>2. CASE StartCommand
  <2>1. op.st = "intent"
    BY <1>2 DEF StartCommand, CommandHonest
  <2> QED
    BY <1>1, <2>1
<1>3. CASE ~StartCommand
  BY <1>1, <1>3, EditsAreUnanswered
<1> QED
  BY <1>2, <1>3

\* Without a receipt the published catalog does not depend on the command.
LEMMA CatalogWithoutReceipt ==
    ASSUME UNCHANGED <<rep, db, mark>>, op.receipt = None, CatalogHonest
    PROVE  CatalogHonest'
<1>1. ASSUME rep.cur # None, rep.cur.epoch = db.epoch, NEW id \in Ids
      PROVE  OfCut(id, rep.ents[id], rep.cur.seq)
  BY <1>1 DEF CatalogHonest, Confirmed
<1>2. ASSUME rep'.cur # None, rep'.cur.epoch = db'.epoch, NEW id \in Ids
      PROVE  OfCut(id, rep.ents[id], rep.cur.seq)'
  BY <1>1, <1>2 DEF OfCut, At, Truthful
<1>3. rep'.cur # None => Reached(rep.cur)'
  BY DEF CatalogHonest, Reached
<1>4. rep'.cur = None => \A id \in Ids : rep'.ents[id] = NoRow
  BY DEF CatalogHonest
<1> QED
  BY <1>2, <1>3, <1>4 DEF CatalogHonest, NoRow, Record, Gone

\* A receipt that is taken confirms its object and leaves the others.
LEMMA CatalogTakesReceipt ==
    ASSUME StoreTypes, CatalogHonest, UNCHANGED <<db, mark>>, NEW r \in Receipts,
           ReceiptHonest(r), TakesReceipt(r), r # None
    PROVE  CatalogHonest'
<1>1. rep \in Catalogs /\ op \in Commands
  BY DEF StoreTypes
<1>2. /\ rep'.cur = rep.cur
      /\ \A id \in Ids : \/ rep'.ents[id] = rep.ents[id]
                         \/ id = op.id /\ rep'.ents[id] = r.row /\ ReceiptApplies(r)
  BY <1>1, ReceiptIs DEF TakesReceipt
<1>3. op'.receipt = r /\ op'.id = op.id
  BY TakesReceiptTyped
<1>4. op.receipt \in {None, r}
  BY DEF ReceiptHonest
<1>5. rep'.cur # None => Reached(rep.cur)'
  BY <1>2 DEF CatalogHonest, Reached
<1>6. ASSUME rep'.cur = None, NEW id \in Ids
      PROVE  rep'.ents[id] = NoRow
  BY <1>2, <1>6 DEF CatalogHonest, ReceiptApplies
<1>7. ASSUME rep'.cur # None, rep'.cur.epoch = db'.epoch, NEW id \in Ids
      PROVE  (OfCut(id, rep.ents[id], rep.cur.seq) \/ Confirmed(id))'
  <2>1. OfCut(id, rep.ents[id], rep.cur.seq) \/ Confirmed(id)
    BY <1>2, <1>7 DEF CatalogHonest
  <2>2. CASE rep'.ents[id] = rep.ents[id] /\ OfCut(id, rep.ents[id], rep.cur.seq)
    BY <1>2, <2>2 DEF OfCut, At, Truthful
  <2>3. CASE rep'.ents[id] = rep.ents[id] /\ Confirmed(id)
    <3>1. op.receipt = r /\ r.epoch = db.epoch /\ op.id = id /\ rep.ents[id] = r.row
      BY <1>4, <2>3 DEF Confirmed
    <3> QED
      BY <1>3, <2>3, <3>1 DEF Confirmed
  <2>4. CASE id = op.id /\ rep'.ents[id] = r.row /\ ReceiptApplies(r)
    <3>1. r.epoch = db.epoch
      BY <1>2, <1>7, <2>4 DEF ReceiptApplies
    <3> QED
      BY <1>3, <2>4, <3>1 DEF Confirmed
  <2> QED
    BY <1>2, <2>1, <2>2, <2>3, <2>4
<1> QED
  BY <1>5, <1>6, <1>7 DEF CatalogHonest, NoRow, Record, Gone

\* The last page publishes its batch.
LEMMA CatalogPublished ==
    ASSUME StationReady, StoreReady, StoreTypes, NEW page \in Pages, PageHonest(page),
           Acceptable(rep, stage, gen, page), page.last, UNCHANGED <<db, mark, op>>,
           rep' = Publish(rep, page, StagedRows(stage, page))
    PROVE  CatalogHonest'
<1> PICK new : new = Publish(rep, page, StagedRows(stage, page))
  OBVIOUS
<1>1. rep' = new /\ new.cur = page.through /\ page.through \in Cursors /\ page.through # None
  <2>1. StagedRows(stage, page) \in SUBSET Items
    BY StagedRowsTyped DEF StoreReady
  <2> QED
    BY <2>1, PublishIs, NoneIsNoCursor DEF StoreReady, Pages
<1>2. Reached(page.through)
  BY DEF PageHonest, HonestBatch
<1>3. Reached(rep.cur)'
  BY <1>1, <1>2 DEF Reached
<1>4. ASSUME rep'.cur.epoch = db'.epoch, NEW id \in Ids
      PROVE  (OfCut(id, rep.ents[id], rep.cur.seq) \/ Confirmed(id))'
  <2>1. Current(page)
    BY <1>1, <1>4 DEF Current
  <2>2. \/ OfCut(id, new.ents[id], page.through.seq)
        \/ /\ op.receipt # None /\ op.receipt.epoch = db.epoch
           /\ op.id = id /\ new.ents[id] = op.receipt.row
    BY <2>1, PublishedIsHonest
  <2>3. CASE OfCut(id, new.ents[id], page.through.seq)
    BY <1>1, <2>3 DEF OfCut, At, Truthful
  <2>4. CASE /\ op.receipt # None /\ op.receipt.epoch = db.epoch
             /\ op.id = id /\ new.ents[id] = op.receipt.row
    BY <1>1, <2>4 DEF Confirmed
  <2> QED
    BY <2>2, <2>3, <2>4
<1> QED
  BY <1>1, <1>3, <1>4 DEF CatalogHonest

LEMMA CatalogHonestKept ==
    ASSUME StationMoves, StationReady, StoreReady, StoreTypes, TaskTyped, AnswerHonest,
           ReceiptsHonest, CommandHonest, RevocationInvariant, Next
    PROVE  CatalogHonest'
<1>0. rep \in Catalogs /\ op \in Commands /\ CatalogHonest
  BY DEF StoreReady
<1>1. CASE UNCHANGED <<rep, op>>
  BY <1>0, <1>1, MoveCatalog
<1>2. CASE Edits
  <2>1. CASE Revoke
    <3>1. rep' = Empty
      BY <2>1 DEF Revoke
    <3>2. Empty.cur = None /\ \A id \in Ids : Empty.ents[id] = NoRow
      BY DEF Empty
    <3> QED
      BY <3>1, <3>2 DEF CatalogHonest, NoRow, Record, Gone
  <2>2. CASE ~Revoke
    <3>1. UNCHANGED <<rep, db, mark>>
      BY <1>2, <2>2, EditsAreUnanswered
    <3>2. op' = op \/ op.receipt = None
      BY <1>2, NoReceiptBefore
    <3> QED
      BY <1>0, <1>1, <3>1, <3>2, CatalogWithoutReceipt
  <2> QED
    BY <2>1, <2>2
<1>3. CASE TakeLookup \/ TakeReceipt
  <2>1. UNCHANGED <<db, mark>>
    BY <1>3, ClientKeepsStation DEF ClientSteps, Client
  <2>2. /\ task # None /\ task.kind # "pull" /\ task.reply # None
        /\ \/ UNCHANGED <<rep, op>>
           \/ /\ task.reply.receipt \in Receipts /\ task.reply.receipt # None
              /\ TakesReceipt(task.reply.receipt)
    BY <1>3, AnswerTaken
  <2>3. task.reply.receipt # None => ReceiptHonest(task.reply.receipt)
    BY <2>2 DEF ReceiptsHonest, Answered
  <2> QED
    BY <1>0, <1>1, <2>1, <2>2, <2>3, CatalogTakesReceipt
<1>4. CASE TakePage
  <2>1. UNCHANGED <<db, mark>>
    BY <1>4, ClientKeepsStation DEF ClientSteps, Client
  <2>2. /\ Paged /\ task.reply \in Pages /\ UNCHANGED op
        /\ \/ UNCHANGED rep
           \/ Acceptable(rep, stage, gen, task.reply) /\ ApplyPage(task.reply)
    BY <1>4, PageTaken
  <2>3. PageHonest(task.reply)
    BY <2>2 DEF AnswerHonest
  <2> PICK page \in Pages : page = task.reply
    BY <2>2
  <2>4. \/ UNCHANGED rep
        \/ /\ Acceptable(rep, stage, gen, page) /\ page.last
           /\ rep' = Publish(rep, page, StagedRows(stage, page))
    BY <2>2 DEF ApplyPage
  <2> QED
    BY <1>1, <2>1, <2>2, <2>3, <2>4, CatalogPublished
<1>5. CASE TakeReset
  BY <1>1, <1>5 DEF TakeReset
<1>6. CASE ~(Edits \/ TakeLookup \/ TakeReceipt \/ TakePage \/ TakeReset)
  BY <1>1, <1>6, OthersKeepStore
<1> QED
  BY <1>2, <1>3, <1>4, <1>5, <1>6

-----------------------------------------------------------------------------
(* The one command and its receipt. *)

\* What becomes of the record of the command.
LEMMA OpMoves ==
    ASSUME StoreTypes, TaskTyped, RevocationInvariant, Next
    PROVE  \/ /\ op'.id = op.id /\ op'.rev = op.rev /\ op'.saw = op.saw
              /\ op'.sawEpoch = op.sawEpoch
              /\ op.st = "attempted" => op'.st = "attempted"
              /\ \/ op'.receipt = op.receipt
                 \/ Answered /\ op'.receipt = task.reply.receipt
           \/ op.st # "attempted" /\ op' = NoOp
           \/ /\ op.st # "attempted" /\ op'.receipt \in {None, op.receipt}
              /\ op'.id \in Ids /\ UNCHANGED <<rep, db, mark>>
              /\ op'.sawEpoch = IF rep.cur = None THEN 0 ELSE rep.cur.epoch
              /\ op'.rev = rep.ents[op'.id].rev /\ op'.saw = rep.ents[op'.id].val
<1>0. op \in Commands
  BY DEF StoreTypes
<1>1. CASE op' = op
  BY <1>1
<1>2. CASE UserEdit
  <2>1. PICK id \in Edited : op' = Draft(id)
    BY <1>2 DEF UserEdit
  <2>2. id \in Ids
    BY ReplicaAssumption
  <2>3. UNCHANGED <<rep, db, mark>> /\ op.st # "attempted"
    BY <1>2 DEF UserEdit, station
  <2> QED
    BY <2>1, <2>2, <2>3, DraftIs
<1>3. CASE UserIntend
  <2>1. UNCHANGED <<rep, db, mark>> /\ op.st # "attempted" /\ op.id \in Ids
    BY <1>0, <1>3 DEF UserIntend, station, Commands
  <2> QED
    BY <1>3, <2>1, IntendIs
<1>4. CASE StartCommand
  BY <1>0, <1>4, StartCommandIs
<1>5. CASE ClientRestart \/ Revoke
  BY <1>0, <1>1, <1>5, ForgetIs
<1>6. CASE TakeLookup \/ TakeReceipt
  <2>1. /\ task # None /\ task.kind # "pull" /\ task.reply # None
        /\ \/ op' = op
           \/ /\ task.reply.receipt \in Receipts /\ task.reply.receipt # None
              /\ TakesReceipt(task.reply.receipt)
    BY <1>6, AnswerTaken
  <2> QED
    BY <1>1, <2>1, TakesReceiptTyped DEF Answered
<1>7. CASE TakePage
  BY <1>1, <1>7, PageTaken
<1>8. CASE TakeReset
  BY <1>1, <1>8 DEF TakeReset
<1>9. CASE ~(Edits \/ TakeLookup \/ TakeReceipt \/ TakePage \/ TakeReset)
  BY <1>1, <1>9, OthersKeepStore
<1> QED
  BY <1>2, <1>3, <1>4, <1>5, <1>6, <1>7, <1>8, <1>9 DEF Edits

\* The command leaves for the station when it starts, and is not under way again.
LEMMA PostMoves ==
    ASSUME Next
    PROVE  StartCommand \/ (post' => post)
<1>1. post' = post \/ post' \in {post, FALSE} \/ StartCommand
  BY Zenon DEF Next, Serve, Client, StationWrite, StationMaintain, StationReopen, StationPull,
     StationReceipt, StationCommand, StartRefresh, TakeLookup, TakePage, TakeReset,
     TakeReceipt, UserReturns, UserIntend, ReceiveHint, RetryPending, LiveReturns, UserEdit,
     UserRefresh, RequestFails, ClientRestart, Revoke, Reconnect, LateReply
<1> QED
  BY <1>1

\* The station's receipt comes with the command, and goes with a lost end of the log.
LEMMA StationReceiptMoves ==
    ASSUME StationTypes, TaskTyped, Lineages, Next, ~StationCommand
    PROVE  /\ db'.receipt \in {None, db.receipt}
           /\ \A i \in 1 .. Len(db.log) : i <= Len(db'.log) => db'.log[i] = db.log[i]
           /\ db'.receipt # None =>
                 \/ db'.receipt.at <= Len(db'.log)
                 \/ Len(db.log) <= Len(db'.log)
           /\ /\ db'.epoch = db.epoch
              /\ db.receipt # None /\ db.receipt.outcome = "applied"
              /\ db.receipt.at <= mark.seq
              => db'.receipt = db.receipt
<1>0. db \in Databases /\ Len(db.log) \in Nat /\ db.epoch \in Nat
  BY DatabaseIs DEF StationTypes
<1>1. CASE StationWrite
  BY <1>0, <1>1, WriteIs
<1>2. CASE StationMaintain
  BY <1>0, <1>2, MaintainIs
<1>3. CASE StationReopen
  <2>1. /\ Len(db'.log) <= Len(db.log)
        /\ \A i \in 1 .. Len(db'.log) : db'.log[i] = db.log[i]
        /\ db'.receipt \in {None, db.receipt}
        /\ db'.receipt # None => db'.receipt.at <= Len(db'.log)
        /\ \/ /\ db'.epoch = db.epoch
              /\ db.receipt # None /\ db.receipt.outcome = "applied"
                       /\ db.receipt.at <= mark.seq => db'.receipt = db.receipt
           \/ db'.epoch = db.epoch + 1
    BY <1>3, ReopenIs
  <2> QED
    BY <1>0, <2>1
<1>4. CASE StationPull
  <2>1. db'.log = db.log /\ db'.receipt = db.receipt
    BY <1>4, PullIs
  <2> QED
    BY <1>0, <2>1
<1>5. CASE ClientSteps
  BY <1>0, <1>5, ClientKeepsStation
<1> QED
  BY <1>1, <1>2, <1>3, <1>4, <1>5, StepsAre DEF StationSteps

\* An answer under way is the station's receipt at the time it answered.
LEMMA AnsweredMoves ==
    ASSUME StationTypes, StoreTypes, StoreTypes', TaskTyped, RevocationInvariant, Next, Answered'
    PROVE  \/ Answered /\ task' = task
           \/ task'.reply.receipt = db.receipt
           \/ StationCommand /\ task'.reply.receipt = db'.receipt
<1>0. /\ rep' \in Catalogs /\ (stage # None => stage \in Stages)
      /\ (stage' # None => stage' \in Stages)
  BY DEF StoreTypes
<1>a. task' # None /\ task'.kind # "pull" /\ task'.reply # None
  BY DEF Answered
<1>1. CASE UNCHANGED task
  BY <1>1 DEF Answered
<1>2. CASE \E c \in Callers : task' = PullTask(c, rep', stage)
  BY <1>0, <1>a, <1>2, PullTaskFits
<1>3. CASE \E c \in Callers : task' = ReceiptTask(c)
  BY <1>a, <1>3, OtherTasksFit
<1>4. CASE StartCommand
  BY <1>a, <1>4, OtherTasksFit DEF StartCommand
<1>5. CASE StationPull
  BY <1>a, <1>5, PullAnswers
<1>6. CASE /\ task # None
           /\ task' = [task EXCEPT !.reply = [kind |-> "receipt", receipt |-> db.receipt]]
  <2>1. task \in Tasks
    BY <1>6 DEF TaskTyped, TaskFits
  <2> QED
    BY <1>6, <2>1 DEF Tasks
<1>7. CASE /\ StationCommand /\ task # None
           /\ task' = [task EXCEPT !.reply = [kind |-> "receipt", receipt |-> db'.receipt]]
  <2>1. task \in Tasks
    BY <1>7 DEF TaskTyped, TaskFits
  <2> QED
    BY <1>7, <2>1 DEF Tasks
<1>8. CASE Paged /\ task' = [task EXCEPT !.req = ReplicaPull(rep', stage'), !.reply = None]
  <2>1. ReplicaPull(rep', stage') \in Requests
    BY <1>0, PullTyped
  <2> QED
    BY <1>a, <1>8, <2>1, NextPageFits DEF TaskTyped, Paged
<1>9. CASE /\ task # None /\ task.kind = "pull"
           /\ task' = [task EXCEPT !.req = [after |-> None, next |-> None],
                                   !.resets = @ + 1, !.resuming = FALSE, !.reply = None]
  <2>1. [after |-> None, next |-> None] \in Requests
    BY DEF Requests, Starts
  <2> QED
    BY <1>a, <1>9, <2>1, NextPageFits DEF TaskTyped
<1>10. CASE task' = None
  BY <1>a, <1>10
<1> QED
  BY <1>1, <1>2, <1>3, <1>4, <1>5, <1>6, <1>7, <1>8, <1>9, <1>10, TaskMoves

\* A receipt that is honest stays so.
LEMMA ReceiptStays ==
    ASSUME StationMoves, op \in Commands, NEW r \in Receipts, ReceiptHonest(r),
           op'.st = "attempted", op'.id = op.id, op'.receipt \in {None, r}, ~post',
           db'.receipt \in {None, r},
           db'.epoch = db.epoch /\ r.epoch = db.epoch /\ r.outcome = "applied"
               => db'.receipt = r
    PROVE  ReceiptHonest(r)'
<1>1. /\ r.epoch \in Nat /\ r.at \in Nat /\ r.row \in Rows /\ r.row.rev \in Nat
      /\ r.epoch <= db.epoch
      /\ r.epoch = db.epoch => /\ r.at <= mark.seq /\ r.row.rev <= r.at
                               /\ Truthful(op.id, r.row)
  BY ReceiptRowTyped DEF ReceiptHonest, Rows
<1>2. CASE SameLineage
  <2>1. ASSUME r.epoch = db'.epoch
        PROVE  /\ r.at <= mark'.seq /\ r.row.rev <= r.at
               /\ Truthful(op.id, r.row)' /\ (r.outcome = "applied" => db'.receipt = r)
    <3>1. /\ db'.epoch = db.epoch /\ mark.seq <= mark'.seq /\ r.at <= mark.seq
          /\ r.row.rev <= mark.seq
      BY <1>1, <1>2, <2>1, MoveNumbers DEF SameLineage
    <3>2. r.at <= mark'.seq /\ r.row.rev <= r.at
      BY <1>1, <2>1, <3>1, MoveNumbers
    <3>3. Truthful(op.id, r.row)'
      <4> PICK id \in Ids : id = op.id
        BY DEF Commands
      <4> PICK row \in Rows : row = r.row
        BY <1>1
      <4>1. Truthful(id, row)'
        BY <1>1, <1>2, <2>1, <3>1, MoveTruth
      <4> QED
        BY <4>1 DEF Truthful
    <3> QED
      BY <2>1, <3>1, <3>2, <3>3
  <2>2. r.epoch <= db'.epoch
    BY <1>1, <1>2 DEF SameLineage
  <2> QED
    BY <2>1, <2>2 DEF ReceiptHonest
<1>3. CASE NewLineage
  <2>1. r.epoch <= db'.epoch /\ r.epoch # db'.epoch
    BY <1>1, <1>3, MoveNumbers DEF NewLineage
  <2> QED
    BY <2>1 DEF ReceiptHonest
<1> QED
  BY <1>2, <1>3 DEF StationMoves

\* The receipt the station writes is honest.
LEMMA CommandAnswers ==
    ASSUME StationMoves, StationReady, StoreTypes, ReceiptsHonest, CommandHonest, StationCommand
    PROVE  /\ db.receipt = None /\ op.receipt = None /\ ~Answered
           /\ db'.receipt \in Receipts /\ ReceiptHonest(db.receipt)'
<1>0. /\ StationTypes /\ op \in Commands /\ UNCHANGED <<op>>
      /\ db.epoch \in Nat /\ Len(db.log) \in Nat /\ db.log \in Logs /\ op.id \in Ids
      /\ DOMAIN db.log = 1 .. Len(db.log)
  BY ReadyNumbers, StationKeepsStore DEF StationReady, StoreTypes, StationSteps, Commands
<1>1. /\ post /\ ~post' /\ mark' = Here(db') /\ db' \in Databases
      /\ db'.epoch = db.epoch /\ db'.receipt \in Receipts
      /\ db.receipt = None => db'.receipt.epoch = db.epoch /\ db'.receipt.at = Len(db'.log)
      /\ \/ /\ Len(db'.log) = Len(db.log) + 1
            /\ db'.log[Len(db.log) + 1] = [id |-> op.id, val |-> db'.receipt.row.val]
            /\ db'.receipt.row.rev = Len(db.log) + 1
         \/ /\ db'.log = db.log
            /\ db.receipt = None => db'.receipt.row \in {NoRow, Row(db.log, op.id)}
  BY <1>0, CommandIs
<1>2. /\ db.receipt = None /\ op.receipt = None /\ ~Answered /\ op.st = "attempted"
  BY <1>1 DEF ReceiptsHonest, ReceiptHonest, CommandHonest
<1> PICK r : r = db'.receipt
  OBVIOUS
<1>3. /\ r \in Receipts /\ r.epoch = db'.epoch /\ r.at = Len(db'.log)
      /\ mark'.seq = Len(db'.log) /\ Len(db'.log) \in Nat /\ db'.epoch \in Nat
  BY <1>1, <1>2, DatabaseIs DEF Here, Cursor
<1>4. /\ Row(db.log, op.id).rev \in 0 .. Len(db.log)
      /\ Row(db.log, op.id).rev # 0 =>
            Row(db.log, op.id).val = db.log[Row(db.log, op.id).rev].val
  BY <1>0, RowIs, RevIs
<1>5. r.row.rev <= r.at /\ Truthful(op.id, r.row)'
  <2>1. CASE /\ Len(db'.log) = Len(db.log) + 1
             /\ db'.log[Len(db.log) + 1] = [id |-> op.id, val |-> r.row.val]
             /\ r.row.rev = Len(db.log) + 1
    BY <1>0, <1>3, <2>1 DEF Truthful
  <2>2. CASE db'.log = db.log /\ r.row = NoRow
    BY <1>0, <1>3, <2>2, NoRowTyped DEF Truthful
  <2>3. CASE db'.log = db.log /\ r.row = Row(db.log, op.id)
    <3>1. r.row.rev \in 0 .. Len(db.log)
      BY <1>4, <2>3
    <3>2. r.row.rev \in DOMAIN db'.log => r.row.val = db.log[r.row.rev].val
      BY <1>0, <1>4, <2>3
    <3> QED
      BY <1>0, <1>3, <2>3, <3>1, <3>2 DEF Truthful
  <2> QED
    BY <1>1, <1>2, <2>1, <2>2, <2>3
<1>6. ReceiptHonest(db.receipt)'
  <2>1. op'.st = "attempted" /\ ~post' /\ op'.receipt = None
    BY <1>0, <1>1, <1>2
  <2> QED
    BY <1>3, <1>5, <2>1 DEF ReceiptHonest, Truthful
<1> QED
  BY <1>1, <1>2, <1>6

\* A receipt that is known after a step was known before it, and it is the only one.
LEMMA KnownReceipts ==
    ASSUME StationTypes, StoreTypes, StoreTypes', TaskTyped, Lineages, ReceiptsHonest,
           RevocationInvariant, Next, ~StationCommand,
           NEW r, r # None,
           \/ r = db'.receipt
           \/ r = op'.receipt
           \/ Answered' /\ r = task'.reply.receipt
    PROVE  /\ r \in Receipts /\ ReceiptHonest(r)
           /\ db.receipt \in {None, r} /\ op.receipt \in {None, r}
           /\ Answered => task.reply.receipt = r
<1>1. \/ r = db.receipt
      \/ r = op.receipt
      \/ Answered /\ r = task.reply.receipt
  <2>1. CASE r = db'.receipt
    BY <2>1, StationReceiptMoves
  <2>2. CASE r = op'.receipt
    BY <2>2, OpMoves, ConstantsOfStore
  <2>3. CASE Answered' /\ r = task'.reply.receipt
    BY <2>3, AnsweredMoves
  <2> QED
    BY <2>1, <2>2, <2>3
<1>2. /\ db.receipt \in {None} \cup Receipts /\ op.receipt \in {None} \cup Receipts
      /\ Answered => task.reply.receipt \in Receipts
  <2>1. db.receipt \in {None} \cup Receipts
    BY DatabaseIs DEF StationTypes
  <2>2. op.receipt \in {None} \cup Receipts
    BY DEF StoreTypes, Commands
  <2>3. Answered => task.reply.receipt \in Receipts
    BY DEF Answered, TaskTyped, TaskFits, ReceiptReplies
  <2> QED
    BY <2>1, <2>2, <2>3
<1>3. r \in Receipts /\ ReceiptHonest(r)
  BY <1>1, <1>2 DEF ReceiptsHonest
<1>4. db.receipt \in {None, r} /\ op.receipt \in {None, r}
  BY <1>3 DEF ReceiptHonest
<1>5. Answered => task.reply.receipt = r
  <2>1. Answered => /\ task.reply.receipt # None
                    /\ db.receipt \in {None, task.reply.receipt}
                    /\ op.receipt \in {None, task.reply.receipt}
    BY DEF ReceiptsHonest, ReceiptHonest, Answered
  <2> QED
    BY <1>1, <2>1
<1> QED
  BY <1>3, <1>4, <1>5

LEMMA ReceiptsHonestKept ==
    ASSUME StationMoves, StationReady, StoreTypes, StoreTypes', TaskTyped,
           ReceiptsHonest, CommandHonest, RevocationInvariant, Next
    PROVE  ReceiptsHonest'
<1>0. StationTypes /\ Lineages /\ op \in Commands
  BY DEF StationReady, StoreTypes
<1>1. CASE StationCommand
  <2>1. /\ db.receipt = None /\ op.receipt = None /\ ~Answered
        /\ db'.receipt \in Receipts /\ ReceiptHonest(db.receipt)' /\ UNCHANGED op
    BY <1>1, CommandAnswers, StationKeepsStore DEF StationSteps
  <2>2. Answered' => task'.reply.receipt = None \/ task'.reply.receipt = db'.receipt
    BY <1>0, <1>1, <2>1, AnsweredMoves
  <2>3. Answered' => ReceiptHonest(task.reply.receipt)'
    BY <2>1, <2>2 DEF Answered, ReceiptHonest, Truthful
  <2> QED
    BY <2>1, <2>3 DEF ReceiptsHonest
<1>2. CASE ~StationCommand
  <2>1. ASSUME NEW r, r # None,
               \/ r = db'.receipt
               \/ r = op'.receipt
               \/ Answered' /\ r = task'.reply.receipt
        PROVE  ReceiptHonest(r)'
    <3>1. /\ r \in Receipts /\ ReceiptHonest(r)
          /\ db.receipt \in {None, r} /\ op.receipt \in {None, r}
          /\ Answered => task.reply.receipt = r
      BY <1>0, <1>2, <2>1, KnownReceipts
    <3>2. /\ op.st = "attempted" /\ ~post
          /\ r.epoch = db.epoch =>
                r.at <= mark.seq /\ (r.outcome = "applied" => db.receipt = r)
      BY <3>1 DEF ReceiptHonest
    <3>3. ~StartCommand
      <4>1. StartCommand => op.st = "intent"
        BY DEF StartCommand, CommandHonest
      <4> QED
        BY <3>2, <4>1
    <3>4. ~post'
      BY <3>2, <3>3, PostMoves
    <3>5. /\ op'.st = "attempted" /\ op'.id = op.id
          /\ op'.receipt \in {None, r}
      BY <3>1, <3>2, OpMoves
    <3>6. db'.receipt \in {None, r}
      BY <1>0, <1>2, <3>1, StationReceiptMoves
    <3>7. db'.epoch = db.epoch /\ r.epoch = db.epoch /\ r.outcome = "applied"
             => db'.receipt = r
      BY <1>0, <1>2, <2>1, <3>2, StationReceiptMoves
    <3> QED
      BY <1>0, <3>1, <3>4, <3>5, <3>6, <3>7, ReceiptStays
  <2>2. db'.receipt # None => ReceiptHonest(db.receipt)'
    <3> PICK r : r = db'.receipt
      OBVIOUS
    <3>1. r # None => ReceiptHonest(r)'
      BY <2>1
    <3> QED
      BY <3>1 DEF ReceiptHonest, Truthful
  <2>3. op'.receipt # None => ReceiptHonest(op.receipt)'
    <3> PICK r : r = op'.receipt
      OBVIOUS
    <3>1. r # None => ReceiptHonest(r)'
      BY <2>1
    <3> QED
      BY <3>1 DEF ReceiptHonest, Truthful
  <2>4. Answered' => ReceiptHonest(task.reply.receipt)'
    <3> PICK r : r = task'.reply.receipt
      OBVIOUS
    <3>1. Answered' => r # None
      BY DEF Answered
    <3>2. Answered' => ReceiptHonest(r)'
      BY <2>1, <3>1
    <3> QED
      BY <3>2 DEF ReceiptHonest, Truthful
  <2> QED
    BY <2>2, <2>3, <2>4 DEF ReceiptsHonest
<1> QED
  BY <1>1, <1>2

\* Logs that agree up to a position have the same versions there.
LEMMA AtAgrees ==
    ASSUME db \in Databases, db' \in Databases, NEW id \in Ids, NEW n \in Nat,
           n <= Len(db.log), n <= Len(db'.log), \A i \in 1 .. n : db'.log[i] = db.log[i]
    PROVE  At(id, n)' = At(id, n)
<1>1. /\ db.log \in Logs /\ db'.log \in Logs
      /\ n \in 0 .. Len(db.log) /\ n \in 0 .. Len(db'.log)
  BY DatabaseIs
<1> DEFINE row == Row(Upto(db.log, n), id)
<1>2. /\ row \in Rows /\ row.rev \in 0 .. n
      /\ row.rev = 0 => row = NoRow
      /\ row.rev # 0 => db.log[row.rev] = [id |-> id, val |-> row.val]
      /\ \A i \in 1 .. n : db.log[i].id = id => i <= row.rev
  BY <1>1, VersionIs
<1> HIDE DEF row
<1>3. row.rev # 0 => db'.log[row.rev] = [id |-> id, val |-> row.val]
  BY <1>1, <1>2
<1>4. \A i \in 1 .. n : db'.log[i].id = id => i <= row.rev
  BY <1>1, <1>2
<1>5. Row(Upto(db'.log, n), id) = row
  <2> PICK log : log = db'.log
    OBVIOUS
  <2>1. /\ log \in Logs /\ n \in 0 .. Len(log) /\ row \in Rows /\ row.rev \in 0 .. n
        /\ row.rev = 0 => row = NoRow
    BY <1>1, <1>2
  <2>2. /\ row.rev # 0 => log[row.rev] = [id |-> id, val |-> row.val]
        /\ \A i \in 1 .. n : log[i].id = id => i <= row.rev
    BY <1>3, <1>4
  <2>3. Row(Upto(log, n), id) = row
    BY <2>1, <2>2, VersionUnique, SMTT(30)
  <2> QED
    BY <2>3
<1> QED
  BY <1>5 DEF At, row

\* A command that applies finds the version its user saw.
LEMMA AppliedFindsSeen ==
    ASSUME StationReady, op \in Commands, CommandHonest, CommandApplies,
           op.sawEpoch = db.epoch
    PROVE  Row(db.log, op.id).val = op.saw
<1>1. /\ db.log \in Logs /\ op.id \in Ids /\ DOMAIN db.log = 1 .. Len(db.log)
      /\ Len(db.log) \in Nat
  BY ReadyNumbers DEF Commands
<1>2. Rev(db.log, op.id) # 0 /\ Row(db.log, op.id).rev = op.rev
  BY DEF CommandApplies, HasRow
<1>3. /\ Rev(db.log, op.id) \in 0 .. Len(db.log)
      /\ db.log[Rev(db.log, op.id)].id = op.id
      /\ Row(db.log, op.id).rev = Rev(db.log, op.id)
      /\ Row(db.log, op.id).val = db.log[Rev(db.log, op.id)].val
  BY <1>1, <1>2, RevIs, RowIs
<1>4. op.rev \in DOMAIN db.log /\ db.log[op.rev].id = op.id
  BY <1>1, <1>2, <1>3
<1>5. Truthful(op.id, Record(op.rev, op.saw))
  BY DEF CommandHonest
<1>6. db.log[op.rev].val = op.saw
  BY <1>4, <1>5 DEF Truthful, Record
<1> QED
  BY <1>2, <1>3, <1>6

LEMMA AppliedHonestKept ==
    ASSUME StationMoves, StationReady, StoreTypes, TaskTyped,
           ReceiptsHonest, AppliedHonest, CommandHonest, RevocationInvariant, Next
    PROVE  AppliedHonest'
<1> SUFFICES ASSUME db'.receipt # None, db'.receipt.outcome = "applied"
             PROVE  /\ db'.receipt.at \in DOMAIN db'.log /\ db'.receipt.row.rev = db'.receipt.at
                    /\ db'.log[db'.receipt.at] = [id |-> op'.id, val |-> db'.receipt.row.val]
                    /\ op'.sawEpoch = db'.receipt.epoch =>
                          At(op.id, db.receipt.at - 1)'.val = op'.saw
  BY DEF AppliedHonest
<1>0. /\ StationTypes /\ Lineages /\ op \in Commands /\ op.id \in Ids
      /\ db \in Databases /\ db' \in Databases
      /\ db.log \in Logs /\ db'.log \in Logs
      /\ Len(db.log) \in Nat /\ Len(db'.log) \in Nat
      /\ DOMAIN db.log = 1 .. Len(db.log) /\ DOMAIN db'.log = 1 .. Len(db'.log)
  BY MoveNumbers DEF StationReady, StoreTypes, Commands, StationMoves, StationTypes
<1> PICK r : r = db'.receipt
  OBVIOUS
<1> PICK id : id = op.id
  OBVIOUS
<1>1. CASE StationCommand
  <2>1. db.receipt = None /\ UNCHANGED op
    BY <1>1, CommandAnswers, StationKeepsStore DEF StationSteps
  <2>2. /\ CommandApplies
        /\ Len(db'.log) = Len(db.log) + 1
        /\ \A i \in 1 .. Len(db.log) : db'.log[i] = db.log[i]
        /\ db'.log[Len(db.log) + 1] = [id |-> op.id, val |-> r.row.val]
        /\ r.row.rev = Len(db.log) + 1
        /\ r.epoch = db.epoch /\ r.at = Len(db'.log)
    BY <1>0, <1>1, <2>1, CommandIs
  <2>4. At(id, Len(db.log)) = Row(db.log, id)
    BY <1>0, AtTheEnd
  <2>5. op.sawEpoch = r.epoch => Row(db.log, id).val = op.saw
    BY <1>0, <2>2, AppliedFindsSeen
  <2>6. r.at - 1 = Len(db.log) /\ r.at \in DOMAIN db'.log
    BY <1>0, <2>2
  <2>7. At(op.id, db.receipt.at - 1)' = At(id, Len(db.log))
    <3>1. op'.id = id /\ db'.receipt.at - 1 = Len(db.log)
      BY <2>1, <2>6
    <3> PICK n : n = Len(db.log)
      OBVIOUS
    <3>2. At(op.id, db.receipt.at - 1)' = At(id, n)'
      BY <3>1 DEF At
    <3>3. At(id, n)' = At(id, Len(db.log))
      BY <1>0, <2>2, AtAgrees
    <3> QED
      BY <3>2, <3>3
  <2> QED
    BY <2>1, <2>2, <2>4, <2>5, <2>6, <2>7
<1>2. CASE ~StationCommand
  <2>1. db.receipt = r /\ r \in Receipts
    BY <1>0, <1>2, StationReceiptMoves, DatabaseIs
  <2>2. /\ r.at \in DOMAIN db.log /\ r.row.rev = r.at
        /\ db.log[r.at] = [id |-> id, val |-> r.row.val]
        /\ op.sawEpoch = r.epoch => At(id, r.at - 1).val = op.saw
    BY <2>1 DEF AppliedHonest
  <2>3. r.at \in 1 .. Len(db.log) /\ r.at <= Len(db'.log)
    BY <1>0, <1>2, <2>1, <2>2, StationReceiptMoves
  <2>4. \A i \in 1 .. r.at : db'.log[i] = db.log[i]
    BY <1>0, <1>2, <2>3, StationReceiptMoves
  <2> PICK n \in Nat : n = r.at - 1
    BY <2>3
  <2>5. At(id, n)' = At(id, n)
    BY <1>0, <2>3, <2>4, AtAgrees
  <2>6. op.st = "attempted"
    BY <2>1 DEF ReceiptsHonest, ReceiptHonest
  <2>7. op'.id = id /\ op'.saw = op.saw /\ op'.sawEpoch = op.sawEpoch
    BY <2>6, OpMoves
  <2>8. At(op.id, db.receipt.at - 1)' = At(id, n)'
    BY <2>7 DEF At
  <2>9. db'.log[r.at] = db.log[r.at] /\ r.at \in DOMAIN db'.log
    BY <1>0, <2>3, <2>4, SMTT(30)
  <2> QED
    BY <2>2, <2>5, <2>7, <2>8, <2>9
<1> QED
  BY <1>1, <1>2

\* A caller that is about to send the command holds the intent, or the gate.
LEMMA MutatingMoves ==
    ASSUME CallerTypes, StoreTypes, StationTypes, TaskTyped, RevocationInvariant, Next,
           caller'["user"] = "mutating"
    PROVE  \/ op'.st = "intent"
           \/ task' # None /\ task'.kind = "command"
           \/ /\ caller["user"] = "mutating" /\ op'.st = op.st
              /\ task # None /\ task.kind = "command" => task' = task
<1>0. /\ caller \in [Callers -> CallerStates] /\ op \in Commands
      /\ "user" \in Callers /\ "live" \in Callers
  BY CallersAre DEF CallerTypes, StoreTypes
<1>1. CASE StationWrite \/ StationMaintain \/ StationReopen
  BY <1>1, StationKeepsStore DEF StationSteps, StationWrite, StationMaintain, StationReopen
<1>2. CASE StationPull
  BY <1>2, StationKeepsStore, PullAnswers DEF StationSteps
<1>3. CASE StationCommand
  <2>1. UNCHANGED <<op, caller>>
    BY <1>3, StationKeepsStore DEF StationSteps
  <2>2. \/ UNCHANGED task
        \/ /\ task # None
           /\ task' = [task EXCEPT !.reply = [kind |-> "receipt", receipt |-> db'.receipt]]
           /\ task.kind = "command"
    BY <1>0, <1>3, CommandIs
  <2>3. CASE /\ task # None
             /\ task' = [task EXCEPT !.reply = [kind |-> "receipt", receipt |-> db'.receipt]]
             /\ task.kind = "command"
    <3>1. task \in Tasks
      BY <2>3 DEF TaskTyped, TaskFits
    <3>2. task'.kind = "command"
      BY <2>3, <3>1 DEF Tasks
    <3>3. task' # None
      <4>1. TaskFits(task)
        BY <2>3 DEF TaskTyped
      <4>2. /\ [kind |-> "receipt", receipt |-> db'.receipt] \in ReceiptReplies
            /\ db'.receipt \in Receipts
        BY <1>0, <1>3, CommandIs DEF ReceiptReplies
      <4>3. TaskFits(task')
        BY <2>3, <4>1, <4>2, RepliedFits
      <4> QED
        BY <4>3, NoneIsNoTask DEF TaskFits
    <3> QED
      BY <3>2, <3>3
  <2> QED
    BY <2>1, <2>2, <2>3
<1>4. CASE StationReceipt \/ (\E c \in Callers : StartRefresh(c))
  BY <1>4 DEF StationReceipt, StartRefresh, store, loop
<1>5. CASE TakeLookup
  <2>1. task.kind = "receipt" /\ UNCHANGED caller
    BY <1>5 DEF TakeLookup, loop
  <2>2. op' = op \/ (\E r : op' = [op EXCEPT !.receipt = r])
    BY <1>5 DEF TakeLookup
  <2> QED
    BY <1>0, <2>1, <2>2 DEF Commands
<1>6. CASE TakePage \/ TakeReset
  <2>1. task.kind = "pull" /\ UNCHANGED op
    BY <1>6 DEF TakePage, TakeReset
  <2>2. UNCHANGED caller \/ EndRefresh("ok") \/ EndRefresh("error")
    BY <1>6 DEF TakePage, TakeReset
  <2>3. caller["user"] = "mutating"
    BY <1>0, <2>2 DEF EndRefresh
  <2> QED
    BY <2>1, <2>3
<1>7. CASE TakeReceipt \/ UserReturns \/ UserEdit \/ UserRefresh \/ ClientRestart \/ Revoke
  <2>1. caller'["user"] # "mutating"
    BY <1>0, <1>7 DEF TakeReceipt, UserReturns, UserEdit, UserRefresh, ClientRestart, Revoke, Ask
  <2> QED
    BY <2>1
<1>8. CASE UserIntend
  BY <1>0, <1>8, IntendIs
<1>9. CASE StartCommand
  <2>1. task' = CommandTask /\ CommandTask.kind = "command"
    BY <1>9, OtherTasksFit DEF StartCommand
  <2>2. op.st \in {"none", "draft", "intent", "attempted"}
    BY <1>0 DEF Commands
  <2>3. TaskFits(CommandTask)
    BY OtherTasksFit
  <2>4. task' # None
    BY <1>9, <2>1, <2>3, NoneIsNoTask DEF TaskFits
  <2> QED
    BY <2>1, <2>4
<1>10. CASE ReceiveHint \/ RetryPending \/ LiveReturns \/ Reconnect
  <2>1. /\ UNCHANGED <<op, task>>
        /\ UNCHANGED caller \/ \E s : caller' = [caller EXCEPT !["live"] = s]
    BY <1>10 DEF ReceiveHint, RetryPending, LiveReturns, Reconnect, store, loop, Ask
  <2> QED
    BY <1>0, <2>1
<1>11. CASE RequestFails
  <2>1. task # None /\ UNCHANGED op
    BY <1>11 DEF RequestFails, store
  <2>2. \/ task.kind = "pull" /\ EndRefresh("error")
        \/ task.kind = "receipt" /\ UNCHANGED caller
        \/ caller' = [caller EXCEPT !["user"] = "idle"]
    BY <1>11 DEF RequestFails
  <2> QED
    BY <1>0, <2>1, <2>2 DEF EndRefresh
<1>12. CASE LateReply
  BY <1>12, LateIsDropped
<1> QED
  BY <1>1, <1>2, <1>3, <1>4, <1>5, <1>6, <1>7, <1>8, <1>9, <1>10, <1>11, <1>12
     DEF Next, Serve, Client

LEMMA CommandHonestKept ==
    ASSUME StationMoves, StationReady, StoreTypes, StoreTypes', CallerTypes, TaskTyped,
           CatalogHonest, ReceiptsHonest, CommandHonest, RevocationInvariant, Next
    PROVE  CommandHonest'
<1>0. /\ StationTypes /\ Lineages /\ op \in Commands /\ rep \in Catalogs
      /\ db.epoch \in Nat /\ db'.epoch \in Nat /\ mark.seq \in Nat /\ mark'.seq \in Nat
      /\ db.epoch >= 1 /\ op.sawEpoch \in Nat /\ op.rev \in Nat /\ op.saw \in Nat
  BY MoveNumbers DEF StationReady, StoreTypes, Lineages, Commands
<1>1. post' => op'.st = "attempted"
  <2>1. CASE StartCommand
    BY <1>0, <2>1, StartCommandIs
  <2>2. CASE ~StartCommand
    <3>1. post' => op.st = "attempted"
      BY <2>2, PostMoves DEF CommandHonest
    <3> QED
      BY <3>1, OpMoves
  <2> QED
    BY <2>1, <2>2
<1>2. caller'["user"] = "mutating" =>
         op'.st = "intent" \/ (task' # None /\ task'.kind = "command")
  BY <1>0, MutatingMoves DEF CommandHonest
<1>3. CASE /\ op'.id = op.id /\ op'.rev = op.rev /\ op'.saw = op.saw
           /\ op'.sawEpoch = op.sawEpoch
  <2>1. /\ op.sawEpoch <= db.epoch
        /\ op.sawEpoch = db.epoch =>
              op.rev <= mark.seq /\ Truthful(op.id, Record(op.rev, op.saw))
    BY DEF CommandHonest
  <2> PICK id \in Ids, row \in Rows : id = op.id /\ row = Record(op.rev, op.saw)
    BY <1>0, RecordTyped DEF Commands
  <2>a. row.rev = op.rev /\ row.rev \in Nat
    BY <1>0, RecordTyped
  <2>2. CASE SameLineage
    <3>1. /\ db'.epoch = db.epoch /\ mark.seq <= mark'.seq
      BY <2>2 DEF SameLineage
    <3>2. op.sawEpoch = db.epoch => Truthful(id, row)'
      BY <2>1, <2>2, <2>a, MoveTruth
    <3>3. Record(op.rev, op.saw)' = row
      BY <1>3 DEF Record
    <3>4. Truthful(op.id, Record(op.rev, op.saw))' = Truthful(id, row)'
      BY <1>3, <3>3 DEF Truthful
    <3>5. op.sawEpoch = db.epoch => op'.rev <= mark'.seq
      BY <1>0, <1>3, <2>1, <3>1
    <3> QED
      BY <1>1, <1>2, <1>3, <2>1, <3>1, <3>2, <3>4, <3>5 DEF CommandHonest
  <2>3. CASE NewLineage
    <3>1. op'.sawEpoch <= db'.epoch /\ op'.sawEpoch # db'.epoch
      BY <1>0, <1>3, <2>1, <2>3 DEF NewLineage
    <3> QED
      BY <1>1, <1>2, <3>1 DEF CommandHonest
  <2> QED
    BY <2>2, <2>3 DEF StationMoves
<1>4. CASE op' = NoOp
  <2>1. op'.sawEpoch <= db'.epoch /\ op'.sawEpoch # db'.epoch
    <3>1. db'.epoch >= 1
      BY DEF StationMoves, Lineages
    <3> QED
      BY <1>0, <1>4, <3>1, ConstantsOfStore
  <2> QED
    BY <1>1, <1>2, <2>1 DEF CommandHonest
<1>5. CASE /\ op.st # "attempted"
           /\ op'.id \in Ids /\ UNCHANGED <<rep, db, mark>>
           /\ op'.sawEpoch = IF rep.cur = None THEN 0 ELSE rep.cur.epoch
           /\ op'.rev = rep.ents[op'.id].rev /\ op'.saw = rep.ents[op'.id].val
  <2>1. CASE rep.cur = None
    <3>1. op'.sawEpoch <= db'.epoch /\ op'.sawEpoch # db'.epoch
      BY <1>0, <1>5, <2>1
    <3> QED
      BY <1>1, <1>2, <3>1 DEF CommandHonest
  <2>2. CASE rep.cur # None
    <3> PICK id \in Ids : id = op'.id
      BY <1>5
    <3> PICK row \in Rows : row = rep.ents[id]
      BY <1>0 DEF Catalogs
    <3>1. /\ rep.cur \in Cursors /\ rep.cur.seq \in Nat /\ row.rev \in Nat
      BY <1>0, <2>2 DEF Catalogs, Starts, Cursors, Rows
    <3>2. rep.cur.epoch <= db.epoch /\ (rep.cur.epoch = db.epoch => rep.cur.seq <= mark.seq)
      BY <2>2 DEF CatalogHonest, Reached
    <3>3. op.receipt = None
      BY <1>5 DEF ReceiptsHonest, ReceiptHonest
    <3>4. rep.cur.epoch = db.epoch => OfCut(id, row, rep.cur.seq)
      BY <2>2, <3>3 DEF CatalogHonest, Confirmed
    <3>5. rep.cur.epoch = db.epoch => row.rev <= mark.seq /\ Truthful(id, row)
      BY <1>0, <3>1, <3>2, <3>4 DEF OfCut
    <3>6. op'.sawEpoch = rep.cur.epoch /\ op'.rev = row.rev /\ op'.saw = row.val
      BY <1>5, <2>2
    <3>7. rep.cur.epoch = db.epoch => Truthful(op.id, Record(op.rev, op.saw))'
      BY <1>5, <3>5, <3>6 DEF Truthful, Record
    <3> QED
      BY <1>1, <1>2, <1>5, <3>2, <3>5, <3>6, <3>7 DEF CommandHonest
  <2> QED
    BY <2>1, <2>2
<1> QED
  BY <1>3, <1>4, <1>5, OpMoves

-----------------------------------------------------------------------------
(* What a pull is asked for and what answers it. *)

LEMMA LowerIsCovered ==
    ASSUME NEW cursor \in Cursors, NEW a \in Cursors, NEW b \in Cursors,
           Covers(cursor, a), b.epoch = a.epoch, b.seq <= a.seq
    PROVE  Covers(cursor, b)
BY DEF Covers, Cursors

\* The station is past whatever was asked of it.
LEMMA AskedPastKept ==
    ASSUME StationMoves, StationReady, CallerTypes, CallerTypes', TaskTyped, StoreTypes,
           AskedPast, RevocationInvariant, Next
    PROVE  AskedPast'
<1> SUFFICES ASSUME NEW x \in Callers PROVE Covers(Here(db), asked[x])'
  BY DEF AskedPast
<1>0. /\ StationTypes /\ Lineages /\ op \in Commands
      /\ db.epoch \in Nat /\ db'.epoch \in Nat /\ db.epoch >= 1
      /\ Len(db.log) \in Nat /\ Len(db'.log) \in Nat
      /\ asked[x] \in Cursors /\ asked'[x] \in Cursors
      /\ asked[x].epoch \in Nat /\ asked[x].seq \in Nat
  BY MoveNumbers DEF StationReady, StoreTypes, Lineages, CallerTypes, Cursors
<1>1. /\ Here(db)'.epoch = db'.epoch /\ Here(db)'.seq = Len(db'.log)
      /\ Here(db).epoch = db.epoch /\ Here(db).seq = Len(db.log)
  BY DEF Here, Cursor
<1>2. asked[x].epoch <= db.epoch /\ (asked[x].epoch = db.epoch => asked[x].seq <= Len(db.log))
  BY <1>0, <1>1 DEF AskedPast, Covers
<1>3. db'.epoch = db.epoch \/ db'.epoch = db.epoch + 1
  BY DEF StationMoves, SameLineage, NewLineage
<1>4. SUFFICES /\ asked'[x].epoch <= db'.epoch
               /\ asked'[x].epoch = db'.epoch => asked'[x].seq <= Len(db'.log)
  BY <1>0, <1>1 DEF Covers, Cursors
<1>5. CASE StationReopen
  BY <1>0, <1>2, <1>3, <1>5, ReopenLowers
<1>6. CASE ~StationReopen
  <2>1. db'.epoch = db.epoch /\ Len(db'.log) >= Len(db.log)
    <3>1. CASE StationWrite
      BY <1>0, <3>1, WriteIs
    <3>2. CASE StationMaintain
      BY <1>0, <3>2, MaintainIs
    <3>3. CASE StationPull
      <4>1. db'.epoch = db.epoch /\ db'.log = db.log
        BY <1>0, <3>3, PullIs
      <4> QED
        BY <1>0, <4>1
    <3>4. CASE StationCommand
      BY <1>0, <3>4, CommandIs
    <3>5. CASE ClientSteps
      BY <1>0, <3>5, ClientKeepsStation
    <3> QED
      BY <1>6, <3>1, <3>2, <3>3, <3>4, <3>5, StepsAre DEF StationSteps
  <2>2. CASE asked'[x] = asked[x]
    BY <1>0, <1>2, <2>1, <2>2
  <2>3. CASE asked'[x] = Here(db)
    BY <1>0, <1>1, <2>1, <2>3
  <2>4. CASE asked'[x] = Nothing
    BY <1>0, <2>1, <2>4 DEF Nothing, Cursor
  <2> QED
    BY <1>0, <1>6, <2>2, <2>3, <2>4, AskedMoves
<1> QED
  BY <1>5, <1>6

\* What a pull under way reaches, it reaches after a step that leaves it under way.
LEMMA ReachesStays ==
    ASSUME StationTypes, Lineages, CallerTypes, TaskTyped, RevocationInvariant, Next,
           task # None, task.kind = "pull", task' # None,
           \A x \in task.covers : caller[x] = "refreshing",
           NEW cursor \in Cursors, Reaches(cursor),
           NEW x \in task.covers
    PROVE  Covers(cursor, asked'[x])
<1>1. x \in Callers /\ asked[x] \in Cursors /\ caller[x] = "refreshing"
  BY DEF TaskTyped, TaskFits, Tasks, CallerTypes
<1>2. Covers(cursor, asked[x])
  BY DEF Reaches
<1> QED
  BY <1>1, <1>2, AskedMoves, LowerIsCovered

\* The steps that change the client's catalog or its staging.
LEMMA StoreMoves ==
    ASSUME RevocationInvariant, Next
    PROVE  \/ UNCHANGED <<rep, stage>>
           \/ TakePage \/ TakeReset \/ TakeLookup \/ TakeReceipt \/ Revoke
<1>1. CASE UserEdit \/ UserIntend \/ StartCommand \/ ClientRestart
  BY <1>1 DEF UserEdit, UserIntend, StartCommand, ClientRestart
<1> QED
  BY <1>1, OthersKeepStore DEF Edits

\* A pull that is begun asks for what continues the store, for every caller that waits.
LEMMA PullBegins ==
    ASSUME StoreTypes, StoreTypes', CallerTypes, UNCHANGED <<stage, caller, asked>>,
           NEW c \in Callers, task' = PullTask(c, rep', stage)
    PROVE  PullHonest' /\ AnswerHonest'
<1>0. rep' \in Catalogs /\ (stage # None => stage \in Stages)
  BY DEF StoreTypes
<1>1. /\ task'.kind = "pull" /\ task'.reply = None
      /\ task'.req = ReplicaPull(rep', stage) /\ task'.resuming = (stage # None)
      /\ task'.covers = {x \in Callers : caller[x] = "refreshing"}
  BY <1>0, PullTaskFits
<1>2. task'.req = ReplicaPull(rep, stage)'
  BY <1>1 DEF ReplicaPull
<1>3. \A x \in task'.covers : caller'[x] = "refreshing"
  BY <1>1
<1>4. ~(stage' # None /\ ~task'.resuming)
  BY <1>1
<1> QED
  BY <1>1, <1>2, <1>3, <1>4 DEF PullHonest, AnswerHonest, Paged

\* A task that is no pull, or that waits for its reply.
LEMMA OtherTask ==
    ASSUME task' = None \/ task'.kind # "pull"
    PROVE  PullHonest' /\ AnswerHonest'
BY DEF PullHonest, AnswerHonest, Paged

LEMMA PullKept ==
    ASSUME StationMoves, StationReady, StoreTypes, StoreTypes', CallerTypes, TaskTyped,
           StageHonest, CatalogHonest, ExportHonest,
           PullHonest, AnswerHonest, AskedPast, RevocationInvariant, Next
    PROVE  PullHonest' /\ AnswerHonest'
<1>0. /\ StationTypes /\ Lineages /\ rep \in Catalogs /\ rep' \in Catalogs
      /\ (stage # None => stage \in Stages) /\ (stage' # None => stage' \in Stages)
  BY DEF StationReady, StoreTypes
<1>1. CASE TakePage
  <2>1. /\ Paged /\ task.reply \in Pages
        /\ \/ task' = None
           \/ /\ ApplyPage(task.reply) /\ ~task.reply.last
              /\ task' = [task EXCEPT !.req = ReplicaPull(rep', stage'), !.reply = None]
              /\ UNCHANGED <<caller, asked, resumed>>
    BY <1>1, PageTaken DEF EndRefresh
  <2>2. CASE /\ ApplyPage(task.reply) /\ ~task.reply.last
             /\ task' = [task EXCEPT !.req = ReplicaPull(rep', stage'), !.reply = None]
             /\ UNCHANGED <<caller, asked, resumed>>
    <3>1. ReplicaPull(rep', stage') \in Requests
      BY <1>0, PullTyped
    <3>2. /\ task'.kind = "pull" /\ task'.reply = None
          /\ task'.req = ReplicaPull(rep', stage') /\ task'.covers = task.covers
          /\ task'.resuming = task.resuming
      BY <2>1, <2>2, <3>1, NextPageFits DEF TaskTyped, Paged
    <3>3. task'.req = ReplicaPull(rep, stage)'
      BY <3>2 DEF ReplicaPull
    <3>4. \A x \in task'.covers : caller'[x] = "refreshing"
      BY <2>1, <2>2, <3>2 DEF PullHonest, Paged
    <3>5. stage'.through = task.reply.through
      BY <2>2 DEF ApplyPage
    <3>6. ~task'.resuming => Reaches(stage.through)'
      <4>1. ~task.resuming => \A x \in task.covers : Covers(task.reply.through, asked[x])
        BY <2>1 DEF AnswerHonest, Reaches
      <4> QED
        BY <2>2, <3>2, <3>5, <4>1 DEF Reaches
    <3> QED
      BY <3>2, <3>3, <3>4, <3>6 DEF PullHonest, AnswerHonest, Paged
  <2> QED
    BY <2>1, <2>2, OtherTask
<1>2. CASE TakeReset
  <2>1. \/ task' = None
        \/ /\ task # None /\ task.kind = "pull" /\ stage' = None
           /\ task' = [task EXCEPT !.req = [after |-> None, next |-> None],
                                   !.resets = @ + 1, !.resuming = FALSE, !.reply = None]
           /\ UNCHANGED <<caller, asked>>
    BY <1>2 DEF TakeReset, EndRefresh
  <2>2. CASE /\ task # None /\ task.kind = "pull" /\ stage' = None
             /\ task' = [task EXCEPT !.req = [after |-> None, next |-> None],
                                     !.resets = @ + 1, !.resuming = FALSE, !.reply = None]
             /\ UNCHANGED <<caller, asked>>
    <3> DEFINE req == [after |-> None, next |-> None]
    <3>1. req \in Requests
      BY DEF Requests, Starts
    <3>2. /\ task'.kind = "pull" /\ task'.reply = None
          /\ task'.req = req /\ task'.covers = task.covers
      BY <2>2, <3>1, NextPageFits DEF TaskTyped
    <3>3. \A x \in task'.covers : caller'[x] = "refreshing"
      BY <2>2, <3>2 DEF PullHonest
    <3> QED
      BY <2>2, <3>2, <3>3 DEF PullHonest, AnswerHonest, Paged
  <2> QED
    BY <2>1, <2>2, OtherTask
<1>3. CASE TakeLookup
  <2>1. task # None /\ task' = PullTask(task.by, rep', stage) /\ UNCHANGED <<stage, caller, asked>>
    BY <1>3 DEF TakeLookup, loop
  <2>2. task.by \in Callers
    BY <2>1 DEF TaskTyped, TaskFits, Tasks
  <2> QED
    BY <2>1, <2>2, PullBegins
<1>4. CASE TakeReceipt \/ Revoke
  BY <1>4, OtherTask DEF TakeReceipt, Revoke
<1>5. CASE UNCHANGED <<rep, stage>>
  <2>1. CASE UNCHANGED task
    <3> SUFFICES ASSUME task # None, task.kind = "pull"
                 PROVE  PullHonest' /\ AnswerHonest'
      BY <2>1, OtherTask
    <3>1. \A x \in task.covers : x \in Callers /\ caller[x] = "refreshing"
      BY DEF PullHonest, TaskTyped, TaskFits, Tasks
    <3>2. \A x \in task.covers : caller'[x] = "refreshing"
      BY <2>1, <3>1, WaitingMoves
    <3>3. ASSUME NEW cursor \in Cursors, Reaches(cursor)
          PROVE  \A x \in task'.covers : Covers(cursor, asked'[x])
      BY <1>0, <2>1, <3>1, <3>3, ReachesStays
    <3>4. PullHonest'
      <4>1. \/ task'.req = ReplicaPull(rep, stage)'
            \/ stage' = None /\ task'.req = [after |-> None, next |-> None]
        BY <1>5, <2>1 DEF PullHonest, ReplicaPull
      <4>2. stage' # None /\ ~task'.resuming => Reaches(stage.through)'
        <5> SUFFICES ASSUME stage # None, ~task.resuming PROVE Reaches(stage.through)'
          BY <1>5, <2>1
        <5>1. stage.through \in Cursors /\ Reaches(stage.through)
          BY <1>0 DEF PullHonest, Stages
        <5>2. \A x \in task'.covers : Covers(stage.through, asked'[x])
          BY <3>3, <5>1
        <5> QED
          BY <1>5, <5>2 DEF Reaches
      <4> QED
        BY <2>1, <3>2, <4>1, <4>2 DEF PullHonest
    <3>5. AnswerHonest'
      <4> SUFFICES ASSUME Paged
                   PROVE  /\ PageHonest(task.reply)'
                          /\ rep'.cur # None => rep'.cur.epoch <= task'.reply.through.epoch
                          /\ ~task'.resuming => Reaches(task.reply.through)'
        BY <2>1 DEF AnswerHonest, Paged
      <4> PICK page : page = task.reply
        OBVIOUS
      <4>1. page \in Pages /\ page.through \in Cursors
        BY DEF Paged, TaskTyped, TaskFits, Pages
      <4>2. /\ PageHonest(page)
            /\ rep.cur # None => rep.cur.epoch <= page.through.epoch
            /\ ~task.resuming => Reaches(page.through)
        BY DEF AnswerHonest
      <4>3. PageHonest(page)'
        BY <4>1, <4>2, MovePage
      <4>4. PageHonest(task.reply)'
        BY <2>1, <4>3 DEF PageHonest, HonestBatch, Current, Whole, Reached
      <4>5. ~task'.resuming => Reaches(task.reply.through)'
        BY <2>1, <3>3, <4>1, <4>2 DEF Reaches
      <4> QED
        BY <1>5, <2>1, <4>2, <4>4, <4>5
    <3> QED
      BY <3>4, <3>5
  <2>2. CASE /\ UNCHANGED <<stage, caller, asked>>
             /\ \E c \in Callers : task' = PullTask(c, rep', stage)
    BY <2>2, PullBegins
  <2>3. CASE \E c \in Callers : task' = ReceiptTask(c)
    BY <2>3, OtherTasksFit, OtherTask
  <2>4. CASE StartCommand
    BY <2>4, OtherTasksFit, OtherTask DEF StartCommand
  <2>5. CASE StationPull
    <3>1. /\ task # None /\ task.kind = "pull" /\ task.reply = None /\ TaskFits(task)
          /\ TaskFits(task') /\ task'.kind = "pull" /\ task'.req = task.req
          /\ task'.covers = task.covers /\ task'.resuming = task.resuming
          /\ UNCHANGED <<rep, stage, caller, asked>>
      BY <1>0, <2>5, PullAnswers
    <3>2. \A x \in task.covers : x \in Callers /\ caller[x] = "refreshing"
      BY <3>1 DEF PullHonest, TaskFits, Tasks
    <3>3. PullHonest'
      BY <3>1, <3>2 DEF PullHonest, ReplicaPull, Reaches
    <3>4. AnswerHonest'
      <4> SUFFICES ASSUME Paged'
                   PROVE  /\ PageHonest(task.reply)'
                          /\ rep'.cur # None => rep'.cur.epoch <= task'.reply.through.epoch
                          /\ ~task'.resuming => Reaches(task.reply.through)'
        BY DEF AnswerHonest
      <4>1. task'.reply # Reset
        BY DEF Paged, Reset
      <4>2. /\ task'.reply \in Pages /\ PageHonest(task.reply)'
            /\ task'.reply.through.epoch = db.epoch
            /\ \/ task'.reply.through = Here(db)
               \/ task.req.next # None /\ task'.reply.through = task.req.next.through
        BY <2>5, <4>1, PullServes
      <4>3. rep'.cur # None => rep'.cur.epoch <= task'.reply.through.epoch
        BY <3>1, <4>2 DEF CatalogHonest, Reached
      <4>4. ASSUME ~task.resuming, NEW x \in task.covers
            PROVE  Covers(task'.reply.through, asked[x])
        <5>1. CASE task'.reply.through = Here(db)
          BY <3>2, <5>1 DEF AskedPast
        <5>2. CASE task.req.next # None /\ task'.reply.through = task.req.next.through
          <6>1. stage # None /\ task.req.next.through = stage.through
            BY <3>1, <5>2 DEF PullHonest, ReplicaPull
          <6>2. Reaches(stage.through)
            BY <3>1, <4>4, <6>1 DEF PullHonest
          <6> QED
            BY <5>2, <6>1, <6>2 DEF Reaches
        <5> QED
          BY <4>2, <5>1, <5>2
      <4>5. ~task'.resuming => Reaches(task.reply.through)'
        BY <3>1, <4>4 DEF Reaches
      <4> QED
        BY <4>2, <4>3, <4>5
    <3> QED
      BY <3>3, <3>4
  <2>6. CASE /\ task # None /\ task.kind # "pull"
             /\ \E x : task' = [task EXCEPT !.reply = x]
    <3>1. task \in Tasks
      BY <2>6 DEF TaskTyped, TaskFits
    <3>2. task'.kind = task.kind
      BY <2>6, <3>1 DEF Tasks
    <3> QED
      BY <2>6, <3>2, OtherTask
  <2>7. CASE task' = None
    BY <2>7, OtherTask
  <2> QED
    BY <1>0, <1>1, <1>2, <2>1, <2>2, <2>3, <2>4, <2>5, <2>6, <2>7, TaskMoves
<1> QED
  BY <1>1, <1>2, <1>3, <1>4, <1>5, StoreMoves

-----------------------------------------------------------------------------
(* The invariant of the specification. *)

ReplicaInvariant ==
    /\ RevocationInvariant /\ Types
    /\ Lineages /\ ExportHonest /\ StageHonest /\ CatalogHonest
    /\ ReceiptsHonest /\ AppliedHonest /\ CommandHonest
    /\ PullHonest /\ AnswerHonest /\ AskedPast

LEMMA InitDatabase ==
    ASSUME Init
    PROVE  /\ StationTypes /\ db.epoch = 1 /\ db.export = None /\ db.receipt = None
           /\ mark = Here(db)
<1> DEFINE log == <<[id |-> 1, val |-> 1]>>
<1>1. log \in Logs
  BY IdsAre DEF Logs, Entries
<1> HIDE DEF log
<1>2. db = [epoch |-> 1, floor |-> 0, export |-> None, receipt |-> None, log |-> log]
  BY DEF Init, log
<1>3. /\ db \in Databases
      /\ db.epoch = 1 /\ db.export = None /\ db.receipt = None
  BY <1>1, <1>2, DatabaseTyped
<1>4. mark = Here(db) /\ writes = 1
  BY DEF Init
<1> QED
  BY <1>3, <1>4, HereTyped DEF StationTypes

LEMMA InitReplica == Init => ReplicaInvariant
<1> SUFFICES ASSUME Init PROVE ReplicaInvariant
  OBVIOUS
<1>1. /\ StationTypes /\ db.epoch = 1 /\ db.export = None /\ db.receipt = None
      /\ mark = Here(db) /\ Len(db.log) \in Nat
  BY InitDatabase, DatabaseIs DEF StationTypes
<1>2. /\ rep = Empty /\ stage = None /\ op = NoOp /\ task = None /\ post = FALSE
      /\ pending = FALSE /\ signal = TRUE /\ resumed = FALSE /\ faults = 0
      /\ caller = [c \in Callers |-> "idle"] /\ asked = [c \in Callers |-> Nothing]
  BY DEF Init
<1>3. StoreTypes
  BY <1>2, ConstantsOfStore DEF StoreTypes
<1>4. CallerTypes
  BY <1>2 DEF CallerTypes, CallerStates, Nothing, Cursor, Cursors
<1>5. FlagTypes /\ FaultTypes
  <2>1. MaxFaults \in Nat
    BY ReplicaAssumption
  <2>2. FlagTypes
    BY <1>2 DEF FlagTypes
  <2>3. faults \in 0 .. MaxFaults
    BY <1>2, <2>1
  <2> QED
    BY <2>2, <2>3 DEF FaultTypes
<1>6. Lineages
  BY <1>1 DEF Lineages, Here, Cursor
<1>7. CatalogHonest
  BY <1>2 DEF CatalogHonest, Empty
<1>8. ReceiptsHonest /\ AppliedHonest
  BY <1>1, <1>2, ConstantsOfStore DEF ReceiptsHonest, AppliedHonest, Answered
<1>9. CommandHonest
  BY <1>1, <1>2, CallersAre, ConstantsOfStore DEF CommandHonest
<1>10. AskedPast
  BY <1>1, <1>2 DEF AskedPast, Covers, Here, Cursor, Nothing
<1>11. ExportHonest /\ StageHonest /\ PullHonest /\ AnswerHonest /\ TaskTyped
  BY <1>1, <1>2 DEF ExportHonest, StageHonest, PullHonest, AnswerHonest, TaskTyped, Paged
<1>12. Types
  BY <1>1, <1>3, <1>4, <1>5, <1>11 DEF Types
<1> QED
  BY <1>6, <1>7, <1>8, <1>9, <1>10, <1>11, <1>12, InitRevocation DEF ReplicaInvariant

LEMMA NextKeepsReplica ==
    ASSUME ReplicaInvariant, Next
    PROVE  ReplicaInvariant'
<1>1. /\ RevocationInvariant /\ StationTypes /\ StoreTypes /\ CallerTypes /\ FlagTypes
      /\ FaultTypes /\ TaskTyped /\ op \in Commands
      /\ Lineages /\ ExportHonest /\ StageHonest /\ CatalogHonest
      /\ ReceiptsHonest /\ AppliedHonest /\ CommandHonest
      /\ PullHonest /\ AnswerHonest /\ AskedPast
  BY DEF ReplicaInvariant, Types, StoreTypes
<1>2. StationReady /\ StoreReady
  BY <1>1 DEF StationReady, StoreReady, StoreTypes
<1>3. StationMoves
  BY <1>1, NextMovesStation
<1>4. RevocationInvariant'
  BY <1>1, NextKeepsRevocation
<1>5. StationTypes' /\ Lineages'
  BY <1>3 DEF StationMoves
<1>6. StoreTypes'
  BY <1>1, StoreTypesKept
<1>7. CallerTypes'
  BY <1>1, CallerTypesKept
<1>8. FlagTypes' /\ FaultTypes'
  BY <1>1, FlagsKept
<1>9. TaskTyped'
  BY <1>1, <1>6, TaskTypedKept
<1>10. ExportHonest'
  <2>1. CASE StationPull
    BY <1>1, <1>2, <1>3, <2>1, PullServes
  <2>2. CASE StationReopen
    <3>1. \/ db'.epoch = db.epoch /\ db'.export \in {None, db.export}
          \/ db'.export = None
      BY <1>1, <2>2, ReopenIs
    <3> QED
      BY <1>1, <1>3, <3>1, SameEpoch, MoveExport
  <2>3. CASE ~(StationPull \/ StationReopen)
    <3>1. db'.epoch = db.epoch /\ db'.export \in {None, db.export}
      <4>1. CASE StationWrite
        BY <1>1, <4>1, WriteIs
      <4>2. CASE StationMaintain
        BY <1>1, <4>2, MaintainIs
      <4>3. CASE StationCommand
        BY <1>1, <4>3, CommandIs
      <4>4. CASE ClientSteps
        BY <4>4, ClientKeepsStation
      <4> QED
        BY <2>3, <4>1, <4>2, <4>3, <4>4, StepsAre DEF StationSteps
    <3> QED
      BY <1>1, <1>3, <3>1, SameEpoch, MoveExport
  <2> QED
    BY <2>1, <2>2, <2>3
<1>11. StageHonest'
  BY <1>1, <1>2, <1>3, StageHonestKept
<1>12. CatalogHonest'
  BY <1>1, <1>2, <1>3, CatalogHonestKept
<1>13. ReceiptsHonest'
  BY <1>1, <1>2, <1>3, <1>6, ReceiptsHonestKept
<1>14. AppliedHonest'
  BY <1>1, <1>2, <1>3, AppliedHonestKept
<1>15. CommandHonest'
  BY <1>1, <1>2, <1>3, <1>6, CommandHonestKept
<1>16. PullHonest' /\ AnswerHonest'
  BY <1>1, <1>2, <1>3, <1>6, PullKept
<1>17. AskedPast'
  BY <1>1, <1>2, <1>3, <1>7, AskedPastKept
<1>18. Types'
  BY <1>5, <1>6, <1>7, <1>8, <1>9 DEF Types
<1> QED
  BY <1>4, <1>5, <1>10, <1>11, <1>12, <1>13, <1>14, <1>15, <1>16, <1>17, <1>18
     DEF ReplicaInvariant

LEMMA StutterKeepsReplica ==
    ASSUME ReplicaInvariant, UNCHANGED vars
    PROVE  ReplicaInvariant'
<1>1. /\ UNCHANGED <<db, mark, writes, rep, stage, gen, op, caller, pending, asked>>
      /\ UNCHANGED <<signal, task, post, late, resumed, faults>>
  BY DEF vars, station, store, loop
<1>2. RevocationInvariant'
  BY NextKeepsRevocation DEF ReplicaInvariant
<1>3. Types' /\ Lineages'
  BY <1>1 DEF ReplicaInvariant, Types, StationTypes, StoreTypes, CallerTypes, FlagTypes,
     FaultTypes, TaskTyped, Lineages
<1>4. ExportHonest' /\ StageHonest'
  BY <1>1 DEF ReplicaInvariant, ExportHonest, StageHonest, HonestBatch, Reached, Current, Whole,
     Delta, At
<1>5. CatalogHonest'
  BY <1>1 DEF ReplicaInvariant, CatalogHonest, Reached, OfCut, At, Truthful, Confirmed
<1>6. ReceiptsHonest'
  BY <1>1 DEF ReplicaInvariant, ReceiptsHonest, ReceiptHonest, Answered, Truthful, At
<1>7. AppliedHonest' /\ CommandHonest'
  BY <1>1 DEF ReplicaInvariant, AppliedHonest, CommandHonest, Truthful, At
<1>8. PullHonest' /\ AskedPast'
  BY <1>1 DEF ReplicaInvariant, PullHonest, Reaches, AskedPast
<1>9. AnswerHonest'
  BY <1>1 DEF ReplicaInvariant, AnswerHonest, Paged, Reaches, PageHonest, HonestBatch, Reached,
     Current, Whole, Delta, At
<1> QED
  BY <1>2, <1>3, <1>4, <1>5, <1>6, <1>7, <1>8, <1>9 DEF ReplicaInvariant

\* Everything the replication keeps, in one inductive invariant.
THEOREM ReplicaInvariantHolds == Spec => []ReplicaInvariant
<1>1. ReplicaInvariant /\ [Next]_vars => ReplicaInvariant'
  BY NextKeepsReplica, StutterKeepsReplica
<1> QED
  BY <1>1, InitReplica, PTL DEF Spec

-----------------------------------------------------------------------------
(* What follows from it. *)

\* Every variable keeps its shape, whichever replies, restarts and restored databases
\* come in between: a cursor is an epoch and a position, a task's reply is one its request
\* can have.
THEOREM TypesHold == Spec => []TypeOK
<1>1. ReplicaInvariant => TypeOK
  <2> SUFFICES ASSUME ReplicaInvariant PROVE TypeOK
    OBVIOUS
  <2>1. /\ StationTypes /\ StoreTypes /\ CallerTypes /\ FlagTypes /\ FaultTypes /\ TaskTyped
        /\ GenerationsTyped /\ LateIsOlder
    BY DEF ReplicaInvariant, Types, RevocationInvariant
  <2>2. task # None => task \in Tasks
    BY <2>1 DEF TaskTyped, TaskFits
  <2>3. /\ rep \in [cur : Starts, ents : [Ids -> Rows]]
        /\ stage # None =>
              stage \in [from : Starts, through : Cursors, index : Nat, rows : SUBSET Items]
        /\ op \in Commands
    BY <2>1 DEF StoreTypes, Catalogs, Stages
  <2> QED
    BY <2>1, <2>2, <2>3 DEF TypeOK, StationTypes, CallerTypes, CallerStates, FlagTypes,
       FaultTypes, GenerationsTyped, LateIsOlder, Commands
<1> QED
  BY <1>1, ReplicaInvariantHolds, PTL

\* The published catalog is one commit of the station: pages frozen by `sync_pull`
\* (station/src/db/sync.rs), staged by `apply_replica_page_at` and published with the last one
\* (store/replica.rs) never mix two cuts, miss a deletion or keep a version of a lost lineage;
\* only the object of a confirmed command may be ahead.
THEOREM PublishedIsAlwaysACut == Spec => []PublishedIsACut
<1>1. ReplicaInvariant => PublishedIsACut
  <2> SUFFICES ASSUME ReplicaInvariant, rep.cur # None, rep.cur.epoch = db.epoch
               PROVE  /\ rep.cur.seq <= Len(db.log)
                      /\ \A id \in Ids : IsCut(id) \/ IsConfirmed(id)
    BY DEF PublishedIsACut
  <2>1. StationReady /\ CatalogHonest /\ rep.cur \in Cursors
    BY DEF ReplicaInvariant, Types, StationReady, StoreTypes, Catalogs, Starts
  <2>2. /\ rep.cur.seq <= mark.seq
        /\ \A id \in Ids : OfCut(id, rep.ents[id], rep.cur.seq) \/ Confirmed(id)
    BY <2>1 DEF CatalogHonest, Reached
  <2>3. rep.cur.seq <= Len(db.log)
    BY <2>1, <2>2, ReadyNumbers DEF Cursors
  <2>4. \A id \in Ids : OfCut(id, rep.ents[id], rep.cur.seq) => IsCut(id)
    BY DEF OfCut, IsCut, At
  <2>5. \A id \in Ids : Confirmed(id) => IsConfirmed(id)
    BY DEF Confirmed, IsConfirmed
  <2> QED
    BY <2>2, <2>3, <2>4, <2>5
<1> QED
  BY <1>1, ReplicaInvariantHolds, PTL

\* `sync_mutate` replaces an object only at the very revision its user had looked at: between
\* the look and the change nobody's change is lost, also when the look and the epoch of the
\* intent were read at different times (desktop `mutate_catalog`).
THEOREM NothingIsOverwrittenBlindly == Spec => []NoBlindOverwrite
<1>1. ReplicaInvariant => NoBlindOverwrite
  <2> SUFFICES ASSUME ReplicaInvariant, db.receipt # None, db.receipt.outcome = "applied",
                      op.sawEpoch = db.receipt.epoch
               PROVE  Row(Upto(db.log, db.receipt.row.rev - 1), op.id).val = op.saw
    BY DEF NoBlindOverwrite
  <2> QED
    BY DEF ReplicaInvariant, AppliedHonest, At
<1> QED
  BY <1>1, ReplicaInvariantHolds, PTL

\* A command whose receipt says applied is in the station's log for as long as the lineage
\* lasts: the watermark is on disk before the receipt leaves, so a database that lost the
\* command opens in a new epoch (`sync_check_lineage`).
THEOREM AppliedIsAlwaysKept == Spec => []AppliedIsKept
<1>1. ReplicaInvariant => AppliedIsKept
  <2> SUFFICES ASSUME ReplicaInvariant, NEW r, r = op.receipt, r # None,
                      r.outcome = "applied", r.epoch = db.epoch
               PROVE  /\ db.receipt = r
                      /\ r.row.rev \in DOMAIN db.log
                      /\ db.log[r.row.rev] = [id |-> op.id, val |-> r.row.val]
    BY DEF AppliedIsKept
  <2>1. db.receipt = r
    BY DEF ReplicaInvariant, ReceiptsHonest, ReceiptHonest
  <2> QED
    BY <2>1 DEF ReplicaInvariant, AppliedHonest
<1> QED
  BY <1>1, ReplicaInvariantHolds, PTL

\* A batch that passes the checks of `apply_replica_page_at` takes nothing back.
LEMMA PublicationForwards ==
    ASSUME StoreReady, NEW page \in Pages, PageHonest(page), rep.cur # None,
           rep.cur.epoch <= page.through.epoch,
           Acceptable(rep, stage, gen, page),
           rep' = Publish(rep, page, StagedRows(stage, page))
    PROVE  Forwards
<1>0. /\ rep \in Catalogs /\ (stage # None => stage \in Stages)
      /\ rep.cur \in Cursors /\ page.through \in Cursors /\ page.through # None
      /\ page.from \in Starts
  BY NoneIsNoCursor DEF StoreReady, Catalogs, Starts, Pages
<1>1. /\ rep.cur.epoch \in Nat /\ rep.cur.seq \in Nat
      /\ page.through.epoch \in Nat /\ page.through.seq \in Nat
  BY <1>0 DEF Cursors
<1> PICK rows \in SUBSET Items : rows = StagedRows(stage, page)
  BY <1>0, StagedRowsTyped
<1> PICK new : new = Publish(rep, page, rows)
  OBVIOUS
<1>2. rep' = new /\ new.cur = page.through
  BY <1>0, PublishIs
<1>3. ASSUME rep.cur.epoch = page.through.epoch
      PROVE  page.through.seq >= rep.cur.seq
  <2>1. CASE page.from # None
    <3>1. rep.cur = page.from /\ page.from.seq <= page.through.seq
      BY <2>1 DEF Acceptable, PageHonest, HonestBatch
    <3> QED
      BY <1>1, <3>1
  <2>2. CASE page.from = None
    BY <1>3, <2>2 DEF Acceptable
  <2> QED
    BY <2>1, <2>2
<1>4. ASSUME rep.cur.epoch = page.through.epoch, NEW id \in Ids
      PROVE  new.ents[id].rev >= rep.ents[id].rev
  <2> DEFINE old == rep.ents[id]
             base == Base(rep, page, rows)[id]
  <2>1. old \in Rows /\ old.rev \in Nat
    BY <1>0 DEF Catalogs, Rows
  <2>2. /\ base \in Rows
        /\ (\E row \in rows : row.id = id) => new.ents[id] = Upsert(base, Staged(rows, id).row)
        /\ ~(\E row \in rows : row.id = id) => new.ents[id] = base
    BY <1>0, PublishIs
  <2>3. base = old \/ (old.rev <= page.through.seq /\ base = Record(page.through.seq, Gone))
    BY <1>4 DEF Base
  <2>4. base.rev >= old.rev
    <3>1. Record(page.through.seq, Gone).rev = page.through.seq
      BY DEF Record
    <3> QED
      BY <1>1, <2>1, <2>3, <3>1
  <2>5. base.rev \in Nat
    BY <2>2 DEF Rows
  <2> HIDE DEF old, base
  <2>6. CASE \E row \in rows : row.id = id
    <3>1. Staged(rows, id).row \in Rows
      BY <2>6, StagedIs
    <3>2. Upsert(base, Staged(rows, id).row) \in Rows
          /\ Upsert(base, Staged(rows, id).row).rev >= base.rev
      BY <2>2, <3>1, UpsertIs
    <3>3. new.ents[id].rev \in Nat /\ new.ents[id].rev >= base.rev
      BY <2>2, <2>6, <3>2 DEF Rows
    <3> QED
      BY <2>1, <2>4, <2>5, <3>3 DEF old
  <2>7. CASE ~\E row \in rows : row.id = id
    BY <2>2, <2>4, <2>7 DEF old
  <2> QED
    BY <2>6, <2>7
<1>5. rep'.cur # None /\ rep'.cur.epoch >= rep.cur.epoch
  BY <1>0, <1>1, <1>2
<1> QED
  BY <1>2, <1>3, <1>4, <1>5 DEF Forwards

\* Within a generation and an epoch neither the cursor nor the version of an object moves
\* backwards: not by a snapshot taken before a receipt, not by a late page of an earlier pull,
\* not by a station that was restored (`apply_replica_page_at`, `apply_receipt`).
THEOREM NothingMovesBackwards == Spec => NeverBackwards
<1>1. ReplicaInvariant /\ [Next]_vars => [Forwards]_vars
  <2> SUFFICES ASSUME ReplicaInvariant, Next, rep.cur # None, gen' = gen
               PROVE  Forwards
    BY DEF Forwards
  <2>1. /\ RevocationInvariant /\ TaskTyped /\ StoreTypes /\ StoreReady /\ AnswerHonest
        /\ gen \in Nat
    BY DEF ReplicaInvariant, Types, StoreReady, StoreTypes, RevocationInvariant,
       GenerationsTyped
  <2>2. /\ rep \in Catalogs /\ op \in Commands
        /\ rep.cur.epoch \in Nat /\ rep.cur.seq \in Nat
        /\ \A id \in Ids : rep.ents[id].rev \in Nat
    BY <2>1 DEF StoreTypes, Catalogs, Starts, Cursors, Rows
  <2>3. CASE UNCHANGED rep
    BY <2>2, <2>3 DEF Forwards
  <2>4. CASE TakePage
    <3>1. /\ Paged /\ task.reply \in Pages
          /\ \/ UNCHANGED rep
             \/ Acceptable(rep, stage, gen, task.reply) /\ ApplyPage(task.reply)
      BY <2>1, <2>4, PageTaken
    <3>2. PageHonest(task.reply) /\ rep.cur.epoch <= task.reply.through.epoch
      BY <2>1, <3>1 DEF AnswerHonest
    <3> PICK page \in Pages : page = task.reply
      BY <3>1
    <3>3. \/ UNCHANGED rep
          \/ /\ Acceptable(rep, stage, gen, page)
             /\ rep' = Publish(rep, page, StagedRows(stage, page))
      BY <3>1 DEF ApplyPage
    <3> QED
      BY <2>1, <2>3, <3>2, <3>3, PublicationForwards
  <2>5. CASE TakeLookup \/ TakeReceipt
    <3>1. \/ UNCHANGED rep
          \/ /\ task.reply.receipt \in Receipts
             /\ TakesReceipt(task.reply.receipt)
      BY <2>1, <2>5, AnswerTaken
    <3>2. CASE /\ task.reply.receipt \in Receipts
               /\ rep' = ApplyReceipt(task.reply.receipt)
      <4>1. /\ rep'.cur = rep.cur
            /\ \A id \in Ids : rep'.ents[id].rev >= rep.ents[id].rev
        BY <2>2, <3>2, ReceiptIs
      <4> QED
        BY <2>2, <4>1 DEF Forwards
    <3> QED
      BY <2>3, <3>1, <3>2 DEF TakesReceipt
  <2>6. CASE Revoke
    <3>1. gen' = gen + 1
      BY <2>6 DEF Revoke
    <3> QED
      BY <2>1, <3>1
  <2>7. CASE TakeReset
    BY <2>3, <2>7 DEF TakeReset
  <2> QED
    BY <2>1, <2>3, <2>4, <2>5, <2>6, <2>7, StoreMoves
<1> QED
  BY <1>1, ReplicaInvariantHolds, PTL DEF Spec, NeverBackwards

\* A refresh succeeds only by the publication that covers it.
LEMMA SuccessIsPublication ==
    ASSUME CallerTypes, TaskTyped, RevocationInvariant, Next, NEW c \in Callers,
           caller[c] = "refreshing", caller'[c] = "ok"
    PROVE  /\ Paged /\ task.reply \in Pages /\ ApplyPage(task.reply) /\ task.reply.last
           /\ c \in task.covers /\ resumed' = task.resuming
<1>0. caller \in [Callers -> CallerStates]
  BY DEF CallerTypes
<1>1. CASE TakePage
  <2>1. /\ Paged /\ task.reply \in Pages
        /\ \/ EndRefresh("error")
           \/ /\ ApplyPage(task.reply) /\ task.reply.last
              /\ EndRefresh("ok") /\ resumed' = task.resuming
           \/ UNCHANGED caller
    BY <1>1, PageTaken
  <2>2. ~EndRefresh("error") /\ (EndRefresh("ok") => c \in task.covers)
    BY <1>0 DEF EndRefresh
  <2> QED
    BY <2>1, <2>2
<1>2. CASE ~TakePage
  <2>1. CASE StationSteps
    BY <2>1, StationKeepsStore
  <2>2. CASE StationReceipt \/ (\E x \in Callers : StartRefresh(x)) \/ TakeLookup \/ StartCommand
             \/ LateReply
    <3>1. UNCHANGED caller
      BY <2>2, Zenon DEF StationReceipt, StartRefresh, TakeLookup, StartCommand, LateReply, loop
    <3> QED
      BY <3>1
  <2>3. CASE UserEdit \/ UserRefresh \/ ReceiveHint \/ RetryPending
    <3>1. UNCHANGED caller \/ (\E x \in Callers : Ask(x))
      BY <2>3, CallersAre DEF UserEdit, UserRefresh, ReceiveHint, RetryPending, loop
    <3> QED
      BY <3>1, AskMoves
  <2>4. CASE UserReturns \/ UserIntend \/ TakeReceipt \/ LiveReturns \/ Reconnect
             \/ ClientRestart \/ Revoke
    <3>1. caller'[c] # "ok"
      BY <1>0, <2>4, CallersAre DEF UserReturns, UserIntend, TakeReceipt, LiveReturns, Reconnect,
         ClientRestart, Revoke
    <3> QED
      BY <3>1
  <2>5. CASE TakeReset \/ RequestFails
    <3>1. \/ UNCHANGED caller
          \/ EndRefresh("error")
          \/ caller' = [caller EXCEPT !["user"] = "idle"]
      BY <2>5 DEF TakeReset, RequestFails
    <3> QED
      BY <1>0, <3>1 DEF EndRefresh
  <2> QED
    BY <1>2, <2>1, <2>2, <2>3, <2>4, <2>5, StepsAre DEF ClientSteps, Client
<1> QED
  BY <1>1, <1>2

\* A refresh that succeeds has caught up with every change made before it was asked for, also
\* when another caller's pull has answered it (`Coordinator::refresh` in sync.rs), unless that
\* pull only finished a batch staged by an earlier one.
THEOREM RefreshesAreFresh == Spec => RefreshIsFresh
<1>1. ReplicaInvariant /\ [Next]_vars => [Fresh]_vars
  <2> SUFFICES ASSUME ReplicaInvariant, Next, NEW c \in Callers,
                      caller[c] = "refreshing", caller'[c] = "ok", ~resumed'
               PROVE  Covers(rep'.cur, asked[c])
    BY DEF Fresh
  <2>1. /\ RevocationInvariant /\ TaskTyped /\ StoreTypes /\ CallerTypes /\ AnswerHonest
    BY DEF ReplicaInvariant, Types
  <2>2. /\ Paged /\ task.reply \in Pages /\ ApplyPage(task.reply) /\ task.reply.last
        /\ c \in task.covers /\ ~task.resuming
    BY <2>1, SuccessIsPublication
  <2>3. rep'.cur = task.reply.through
    BY <2>2 DEF ApplyPage, Publish
  <2>4. Reaches(task.reply.through)
    BY <2>1, <2>2 DEF AnswerHonest
  <2> QED
    BY <2>2, <2>3, <2>4 DEF Reaches
<1> QED
  BY <1>1, ReplicaInvariantHolds, PTL DEF Spec, RefreshIsFresh
=============================================================================
