------------------------------ MODULE SessionLog ------------------------------
(***************************************************************************)
(* The durable event log of one session: an append-only list of JSONL      *)
(* segments written by the session's only writer (store.rs), compressed in *)
(* the background once sealed (compression.rs), and read back by recovery  *)
(* (query.rs, log.rs, recovery.rs) after a failed write or a crash.        *)
(*                                                                         *)
(* A line of a segment is one event envelope.  A batch is the unit of      *)
(* commitment; it is given an identity "id" that the code does not store,  *)
(* so that properties can tell one write from another that reuses its      *)
(* event sequence after a crash.  A segment file is named after the        *)
(* sequence of its first event, so files are indexed by that number.       *)
(* Assumption: directory operations reach the disk in the order they were  *)
(* made, at the latest when the directory is synced, or the data of a file *)
(* created since (an append syncs no directory).                           *)
(***************************************************************************)
EXTENDS Integers, Sequences, FiniteSets, SequencesExt

CONSTANTS
  MaxBatch,    \* events in the largest batch
  Target,      \* lines after which a snapshot may open a new segment
  MaxAppends,  \* bound: append attempts of a behaviour
  MaxCrashes,  \* bound: crashes of a behaviour
  MaxFaults,   \* bound: failing writes, syncs and compression steps
  None         \* no value

ASSUME BoundsAssumption ==
  /\ {MaxBatch, Target, MaxAppends} \subseteq Nat \ {0}
  /\ {MaxCrashes, MaxFaults} \subseteq Nat
ASSUME NoneAssumption == None \notin Nat

VARIABLES
  plain,   \* first sequence -> complete lines of <first>.jsonl
  torn,    \* files whose last line is cut short
  synced,  \* first sequence -> number of lines known to be on disk
  zst,     \* first sequence -> lines of <first>.jsonl.zst
  dirlog,  \* directory operations not yet known to be on disk
  cache,   \* last_sequences entry of the session, None when absent
  writer,  \* the append in progress
  mem,     \* batches folded into the runner's state, None without a runner
  acked,   \* batches whose append was acknowledged to the runner
  comp,    \* the background compressor
  wake,    \* the compressor was notified of a sealed segment
  used     \* how much of each bound is spent

disk == <<plain, torn, synced, zst, dirlog>>
vars == <<plain, torn, synced, zst, dirlog,
          cache, writer, mem, acked, comp, wake, used>>

Ids == 1 .. MaxAppends
Kinds == {"create", "event", "snapshot"}

-----------------------------------------------------------------------------
(* Reading the log *)

Without(f, S) == [x \in DOMAIN f \ S |-> f[x]]
With(f, k, v) == [x \in DOMAIN f \cup {k} |-> IF x = k THEN v ELSE f[x]]

\* One path per first event, the uncompressed file when both exist.
Segments(p, z) == DOMAIN p \cup DOMAIN z
Lines(p, z, f) == IF f \in DOMAIN p THEN p[f] ELSE z[f]

\* The segment that accepts appends: the last uncompressed one.
HasActive == DOMAIN plain # {}
Active == Max(DOMAIN plain)

\* Where a complete batch starts: indexes 0 .. count-1 in consecutive lines
\* with consecutive sequences, every one above all the lines before it.
BatchAt(lines, i) ==
  LET n == lines[i].cnt IN
  /\ lines[i].idx = 0
  /\ i + n - 1 <= Len(lines)
  /\ \A k \in 0 .. n - 1 :
       /\ lines[i + k].idx = k
       /\ lines[i + k].cnt = n
       /\ lines[i + k].seq = lines[i].seq + k
  /\ \A j \in 1 .. i - 1 : lines[j].seq < lines[i].seq

Commits(lines) == {lines[i] : i \in {j \in 1 .. Len(lines) : BatchAt(lines, j)}}
IdsOf(cs) == {c.id : c \in cs}

AllCommits(p, z) == UNION {Commits(Lines(p, z, f)) : f \in Segments(p, z)}
Visible(p, z) == IdsOf(AllCommits(p, z))

\* Fold commits in order: the last usable snapshot replaces what was folded.
Snapshots(cs, usable) == {c \in cs : c.kind = "snapshot" /\ c.id \in usable}

\* Mutant of Folded: what follows the snapshot is not replayed.
FoldedSnapshotOnly(cs, usable) ==
  LET snaps == Snapshots(cs, usable)
      base  == CHOOSE c \in snaps : \A d \in snaps : d.seq <= c.seq
  IN  IF snaps = {} THEN IdsOf({c \in cs : c.kind # "snapshot"}) ELSE base.state

Folded(cs, usable) ==
  LET snaps == Snapshots(cs, usable)
      base  == CHOOSE c \in snaps : \A d \in snaps : d.seq <= c.seq
      plainEvents(S) == IdsOf({c \in S : c.kind # "snapshot"})
  IN  IF snaps = {} THEN plainEvents(cs)
      ELSE base.state \cup plainEvents({c \in cs : c.seq > base.seq})

\* Mutant of Recovered: recovery never falls back to the older segments.
RecoveredFromLatest(p, z, usable) == Folded(Commits(p[Max(Segments(p, z))]), usable)

\* Recovery reads the latest uncompressed segment when it holds an origin,
\* else every segment.
Recovered(p, z, usable) ==
  LET latest == Max(Segments(p, z))
      cs     == Commits(p[latest])
      origin == \/ Snapshots(cs, usable) # {}
                \/ latest = 1 /\ cs # {}
  IN  Folded(IF origin THEN cs ELSE AllCommits(p, z), usable)

Readable(p, z) == Segments(p, z) # {} /\ Max(Segments(p, z)) \in DOMAIN p

\* Mutant of LastSequence: the first event of a log is numbered 0.
LastSequenceFromZero(p, z) ==
  IF Segments(p, z) = {} THEN -1
  ELSE LET lines == p[Max(Segments(p, z))] IN IF lines = <<>> THEN None ELSE Last(lines).seq

\* last_sequence: None stands for the InvalidSegment error.
LastSequence(p, z) ==
  IF Segments(p, z) = {} THEN 0
  ELSE LET latest == Max(Segments(p, z)) IN
       IF latest \notin DOMAIN p THEN None
       ELSE IF p[latest] # <<>> THEN Last(p[latest]).seq
       ELSE IF latest = 1 THEN 0 ELSE None

\* What compression keeps: everything but the lines of a last batch that
\* does not reach its final index.
CompletePrefix(lines) ==
  IF lines = <<>> \/ Last(lines).idx + 1 = Last(lines).cnt THEN lines
  ELSE SubSeq(lines, 1, Len(lines) - Last(lines).idx - 1)

Sealed == IF HasActive THEN DOMAIN plain \ {Active} ELSE {}

-----------------------------------------------------------------------------
(* The runner and the store *)

Down == [pc |-> "down"]
Ready == [pc |-> "ready"]
Compressor == [pc |-> "scan", todo |-> {}, failed |-> FALSE,
               seg |-> None, tmp |-> <<>>]

Init ==
  /\ plain = <<>> /\ torn = {} /\ synced = <<>>
  /\ zst = <<>> /\ dirlog = <<>>
  /\ cache = None /\ writer = Down /\ mem = None /\ acked = {}
  /\ comp = Compressor /\ wake = FALSE
  /\ used = [appends |-> 0, crashes |-> 0, faults |-> 0]

Spend(what) == used' = [used EXCEPT ![what] = @ + 1]
MayFault == used.faults < MaxFaults

\* recovery.rs recover(): build a runner from the log; an empty log is only
\* given a runner by a create command, which starts from the empty state.
Recover ==
  /\ writer = Down
  /\ \/ Readable(plain, zst) /\ mem' = Recovered(plain, zst, Ids) /\ mem' # {}
     \/ AllCommits(plain, zst) = {} /\ mem' = {}
  /\ writer' = Ready
  /\ UNCHANGED <<disk, cache, acked, comp, wake, used>>

\* Mutant of FailAppend: the cached last sequence outlives a failed append.
FailAppendCached == writer' = Down /\ mem' = None /\ UNCHANGED cache

\* The failed append reaches the runner, which exits to be rebuilt.
FailAppend ==
  /\ cache' = None
  /\ writer' = Down
  /\ mem' = None

\* Mutant of RepairTail: the torn line stays.
LeaveTail == torn

\* truncate_torn_tail() of the segment that takes the batch.
RepairTail == IF HasActive THEN torn \ {Active} ELSE torn

\* append(): repair the tail, number the batch, pick the file.  A snapshot
\* opens a new segment when the active one has reached the target.
OpenAppend(kind, cnt) ==
  /\ writer = Ready
  /\ used.appends < MaxAppends
  /\ (kind = "create") = (mem = {})
  /\ kind = "snapshot" => cnt = 1
  /\ Spend("appends")
  /\ torn' = RepairTail
  /\ LET base == IF cache # None THEN cache ELSE LastSequence(plain, zst)
         cut  == kind = "snapshot" /\ HasActive /\ Len(plain[Active]) >= Target
     IN  IF base = None
         THEN FailAppend
         ELSE /\ writer' = [pc   |-> "opened",
                            path |-> IF HasActive /\ ~cut THEN Active ELSE base + 1,
                            batch |-> [i \in 1 .. cnt |->
                              [seq |-> base + i, idx |-> i - 1, cnt |-> cnt,
                               id |-> used.appends + 1, kind |-> kind,
                               state |-> IF kind = "snapshot" THEN mem ELSE {}]]]
              /\ UNCHANGED <<cache, mem>>
  /\ UNCHANGED <<plain, synced, zst, dirlog, acked, comp, wake>>

DirOp(op, f, lines) == dirlog' = Append(dirlog, [op |-> op, file |-> f, lines |-> lines])

\* open(create, append) and write; after a torn line the first one is lost.
Extend(path, lines) ==
  LET before == IF path \in DOMAIN plain THEN plain[path] ELSE <<>>
      whole  == IF path \in torn THEN Tail(lines) ELSE lines
  IN  /\ IF path \in DOMAIN plain THEN UNCHANGED <<synced, dirlog>>
         ELSE synced' = With(synced, path, 0) /\ DirOp("create", path, <<>>)
      /\ plain' = With(plain, path, before \o (IF lines = <<>> THEN <<>> ELSE whole))

\* append_and_sync(): write_all ...
WriteBatch ==
  /\ writer.pc = "opened"
  /\ Extend(writer.path, writer.batch)
  /\ writer' = [writer EXCEPT !.pc = "written"]
  /\ UNCHANGED <<torn, zst, cache, mem, acked, comp, wake, used>>

\* ... which may stop short, leaving whole lines and perhaps a torn one,
WriteFails ==
  /\ writer.pc = "opened"
  /\ MayFault /\ Spend("faults")
  /\ \E n \in 0 .. Len(writer.batch) - 1 : Extend(writer.path, SubSeq(writer.batch, 1, n))
  /\ torn' \in {torn, torn \cup {writer.path}}
  /\ FailAppend
  /\ UNCHANGED <<zst, acked, comp, wake>>

\* Mutant of SyncBatch: the batch is acknowledged without a sync.
AcknowledgeUnsynced ==
  /\ writer.pc = "written"
  /\ cache' = Last(writer.batch).seq
  /\ LET b == writer.batch[1] IN
     /\ acked' = acked \cup {b.id}
     /\ mem' = IF b.kind = "snapshot" THEN mem ELSE mem \cup {b.id}
     /\ wake' = (wake \/ (b.kind = "snapshot" /\ writer.path = b.seq))
  /\ writer' = Ready
  /\ UNCHANGED <<disk, comp, used>>

\* ... then sync_data, whose success acknowledges the batch.
SyncBatch ==
  /\ writer.pc = "written"
  /\ synced' = [synced EXCEPT ![writer.path] = Len(plain[writer.path])]
  /\ dirlog' = IF \E i \in 1 .. Len(dirlog) : dirlog[i].op = "create" /\ dirlog[i].file = writer.path
               THEN <<>> ELSE dirlog
  /\ cache' = Last(writer.batch).seq
  /\ LET b == writer.batch[1] IN
     /\ acked' = acked \cup {b.id}
     /\ mem' = IF b.kind = "snapshot" THEN mem ELSE mem \cup {b.id}
     /\ wake' = (wake \/ (b.kind = "snapshot" /\ writer.path = b.seq))
  /\ writer' = Ready
  /\ UNCHANGED <<plain, torn, zst, comp, used>>

SyncFails ==
  /\ writer.pc = "written"
  /\ MayFault /\ Spend("faults")
  /\ FailAppend
  /\ UNCHANGED <<disk, acked, comp, wake>>

-----------------------------------------------------------------------------
(* Background compression *)

\* run(): forget the wake-up and list every sealed uncompressed segment.
Scan ==
  /\ comp.pc = "scan"
  /\ wake' = FALSE
  /\ comp' = [comp EXCEPT !.pc = "next", !.todo = Sealed, !.failed = FALSE]
  /\ UNCHANGED <<disk, cache, writer, mem, acked, used>>

\* Mutant of Park: a failed pass is not retried before the next wake-up.
ParkUntilWoken ==
  /\ comp.pc = "next" /\ comp.todo = {} /\ wake
  /\ comp' = [comp EXCEPT !.pc = "scan"]
  /\ UNCHANGED <<disk, cache, writer, mem, acked, wake, used>>

\* Wait for a wake-up, or only for the retry delay after a failure.
Park ==
  /\ comp.pc = "next" /\ comp.todo = {}
  /\ wake \/ comp.failed
  /\ comp' = [comp EXCEPT !.pc = "scan"]
  /\ UNCHANGED <<disk, cache, writer, mem, acked, wake, used>>

\* compress_segment(): a segment already compressed only loses its source.
Begin(f) ==
  /\ comp.pc = "next" /\ f \in comp.todo
  /\ f = Min(comp.todo)
  /\ f \in Sealed
  /\ IF f \in DOMAIN zst
     THEN comp' = [comp EXCEPT !.pc = "linked", !.seg = f, !.todo = @ \ {f}]
     ELSE comp' = [comp EXCEPT !.pc = "copied", !.seg = f, !.todo = @ \ {f},
                               !.tmp = CompletePrefix(plain[f])]
  /\ UNCHANGED <<disk, cache, writer, mem, acked, wake, used>>

\* rename the synced temporary file over the destination,
Rename ==
  /\ comp.pc = "copied"
  /\ zst' = With(zst, comp.seg, comp.tmp)
  /\ DirOp("link", comp.seg, <<>>)
  /\ comp' = [comp EXCEPT !.pc = "renamed", !.tmp = <<>>]
  /\ UNCHANGED <<plain, torn, synced, cache, writer, mem, acked, wake, used>>

\* sync the directory before the source goes,
SyncLink ==
  /\ comp.pc = "renamed"
  /\ dirlog' = <<>>
  /\ comp' = [comp EXCEPT !.pc = "linked"]
  /\ UNCHANGED <<plain, torn, synced, zst, cache, writer, mem, acked, wake, used>>

RemoveSource ==
  /\ comp.pc = "linked"
  /\ DirOp("unlink", comp.seg, plain[comp.seg])
  /\ plain' = Without(plain, {comp.seg})
  /\ synced' = Without(synced, {comp.seg})
  /\ torn' = torn \ {comp.seg}
  /\ comp' = [comp EXCEPT !.pc = "removed"]
  /\ UNCHANGED <<zst, cache, writer, mem, acked, wake, used>>

\* and sync it again.
SyncRemoval ==
  /\ comp.pc = "removed"
  /\ dirlog' = <<>>
  /\ comp' = [comp EXCEPT !.pc = "next", !.seg = None]
  /\ UNCHANGED <<plain, torn, synced, zst, cache, writer, mem, acked, wake, used>>

\* Any step may fail; the temporary file is removed and the scan is retried.
CompressionFails ==
  /\ comp.pc \in {"copied", "renamed", "linked", "removed"}
  /\ MayFault /\ Spend("faults")
  /\ comp' = [comp EXCEPT !.pc = "next", !.seg = None, !.tmp = <<>>, !.failed = TRUE]
  /\ UNCHANGED <<disk, cache, writer, mem, acked, wake>>

-----------------------------------------------------------------------------
(* Crashes *)

\* Power is lost: the directory operations after some point are undone, and
\* unsynced lines survive as a prefix, perhaps torn.
Crash ==
  /\ used.crashes < MaxCrashes /\ Spend("crashes")
  /\ \E k \in 0 .. Len(dirlog) :
       LET undone(op) == {f \in Segments(plain, zst) : \E i \in k + 1 .. Len(dirlog) :
                            dirlog[i].op = op /\ dirlog[i].file = f}
           back == undone("unlink") \ undone("create")
           files == (DOMAIN plain \cup back) \ undone("create")
           lines(f) == IF f \in DOMAIN plain THEN plain[f]
                       ELSE dirlog[CHOOSE i \in 1 .. Len(dirlog) :
                              dirlog[i].op = "unlink" /\ dirlog[i].file = f].lines
           kept(f)  == IF f \in DOMAIN plain THEN synced[f] ELSE Len(lines(f))
       IN  \E n \in [files -> 0 .. MaxAppends * MaxBatch] :
             /\ \A f \in files : n[f] \in kept(f) .. Len(lines(f))
             /\ plain' = [f \in files |-> SubSeq(lines(f), 1, n[f])]
             /\ synced' = n
             /\ torn' \in SUBSET {f \in files : n[f] < Len(lines(f)) \/ f \in torn}
             /\ zst' = Without(zst, undone("link"))
  /\ dirlog' = <<>>
  /\ cache' = None /\ writer' = Down /\ mem' = None
  /\ comp' = Compressor /\ wake' = FALSE
  /\ UNCHANGED acked

AppendAny == \E kind \in Kinds, cnt \in 1 .. MaxBatch : OpenAppend(kind, cnt)

Compress ==
  \/ Scan \/ Park \/ (\E f \in comp.todo : Begin(f))
  \/ Rename \/ SyncLink \/ RemoveSource \/ SyncRemoval

Next ==
  \/ Recover \/ AppendAny \/ WriteBatch \/ WriteFails \/ SyncBatch \/ SyncFails
  \/ Compress \/ CompressionFails
  \/ Crash

Spec == Init /\ [][Next]_vars /\ WF_vars(Compress)

-----------------------------------------------------------------------------
(* Properties *)

Line == [seq : Nat, idx : Nat, cnt : 1 .. MaxBatch, id : Ids,
         kind : Kinds, state : SUBSET Ids]

\* Every variable stays in the set of values its code counterpart can hold.
TypeOK ==
  /\ DOMAIN plain \subseteq Nat \ {0} /\ DOMAIN zst \subseteq Nat \ {0}
  /\ \A f \in DOMAIN plain : plain[f] \in Seq(Line)
  /\ \A f \in DOMAIN zst : zst[f] \in Seq(Line)
  /\ DOMAIN synced = DOMAIN plain
  /\ \A f \in DOMAIN plain : synced[f] \in 0 .. Len(plain[f])
  /\ torn \subseteq DOMAIN plain
  /\ cache \in Nat \cup {None}
  /\ writer.pc \in {"down", "ready", "opened", "written"}
  /\ mem \in (SUBSET Ids) \cup {None}
  /\ acked \subseteq Ids
  /\ comp.pc \in {"scan", "next", "copied", "renamed", "linked", "removed"}
  /\ wake \in BOOLEAN

\* PERSIST-03: a batch the runner was told is durable stays in the history,
\* whatever crash, failed write, failed sync or compression follows.
AckedSurvive == acked \subseteq Visible(plain, zst)

\* SNAPSHOT-01: whichever snapshots turn out unusable, recovery loses no
\* acknowledged batch: a snapshot only changes what recovery costs.
Events(S) == S \ IdsOf({c \in AllCommits(plain, zst) : c.kind = "snapshot"})
SnapshotsAreDerived ==
  Readable(plain, zst) =>
    \E events \in {Events(acked)} :
      \A usable \in SUBSET Ids : events \subseteq Recovered(plain, zst, usable)

\* While a runner is between appends, a recovery of the log would rebuild its
\* state; where a write or a sync has failed it may also bring back batches
\* that were never acknowledged.
RecoveryMatchesMemory ==
  writer = Ready /\ mem # {} =>
    LET r == Recovered(plain, zst, Ids) IN
    /\ Readable(plain, zst)
    /\ mem \subseteq r
    /\ used.faults = 0 => r = mem
    /\ acked \cap (r \ mem) = {}

\* The runner's incremental state never runs ahead of the last event's ID:
\* a cached last sequence is the one the log would be scanned for.
CacheMatchesLog == cache # None /\ writer = Ready => cache = LastSequence(plain, zst)

\* RECOVERY-01 (what the documentation says, not what the code does): a
\* session that recovery can rebuild is not disabled by what a crash left at
\* the end of its log, so its next event finds a sequence number.
RecoveredAcceptsAppends ==
  writer = Ready /\ cache = None => LastSequence(plain, zst) # None

\* SEGMENT-02: a segment sealed by a rotation ends up compressed, unless a crash
\* takes the rotation back and the segment is the active one again.
SealedGetCompressed ==
  \A f \in 1 .. MaxAppends * MaxBatch :
    (f \in Sealed /\ wake) ~> (f \notin Sealed)

=============================================================================
