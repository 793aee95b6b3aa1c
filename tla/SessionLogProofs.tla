----------------------------- MODULE SessionLogProofs -----------------------------
(***************************************************************************)
(* What the session log keeps for any number of appends, crashes, failing  *)
(* steps and compressions: an acknowledged batch is never lost, whichever  *)
(* snapshot recovery uses it finds every acknowledged event, the runner's  *)
(* state is what a recovery would rebuild, and a cached sequence number is *)
(* the one in the log.                                                     *)
(***************************************************************************)
EXTENDS MCSessionLog, OrderProofs, SequenceTheorems, TLAPS

-----------------------------------------------------------------------------
(* The files. *)

\* What a directory operation not yet on disk took away.
Removed(f) == {i \in 1 .. Len(dirlog) : dirlog[i].op = "unlink" /\ dirlog[i].file = f}

\* Everything a segment's file, compressed or not, may turn out to hold.
Versions(f) ==
  {plain[g] : g \in DOMAIN plain \cap {f}} \cup {zst[g] : g \in DOMAIN zst \cap {f}}
    \cup {dirlog[i].lines : i \in Removed(f)}
LinesThere ==
  UNION {UNION {{lines[i] : i \in 1 .. Len(lines)} : lines \in Versions(f)} : f \in Segments(plain, zst)}
CommitsThere == UNION {UNION {Commits(lines) : lines \in Versions(f)} : f \in Segments(plain, zst)}

\* A segment is a run of batches, each begun at its first line, the last one
\* or one that a failure interrupted perhaps not finished.  Every segment but
\* the first begins with a snapshot.
WellFormed(lines, f) ==
  /\ lines \in Seq(Line)
  /\ \A i \in 1 .. Len(lines) :
       /\ f <= lines[i].seq
       /\ lines[i].idx < lines[i].cnt /\ lines[i].idx < i
       /\ \A j \in 0 .. lines[i].idx :
            /\ lines[i - lines[i].idx + j].idx = j
            /\ lines[i - lines[i].idx + j].cnt = lines[i].cnt
       /\ \A j \in 1 .. i - 1 : lines[j].seq < lines[i].seq
  /\ f # 1 /\ lines # <<>> => lines[1].cnt = 1 /\ lines[1].kind = "snapshot"
FilesFormed ==
  \A f \in Segments(plain, zst) : \A lines \in Versions(f) :
    /\ WellFormed(lines, f)
    /\ \A g \in Segments(plain, zst) : f < g => \A i \in 1 .. Len(lines) : lines[i].seq < g

\* The directory a crash leaves when it undoes the operations after the k-th.
Undone(op, k) == {dirlog[i].file : i \in {j \in k + 1 .. Len(dirlog) : dirlog[j].op = op}}
FilesAt(k) == (DOMAIN plain \cup Undone("unlink", k)) \ Undone("create", k)
ZstAt(k) == DOMAIN zst \ Undone("link", k)

\* In every such directory a compressed segment has an uncompressed one after
\* it, and it keeps every batch of its source.
Covers(z, p) == \A i \in 1 .. Len(p) : BatchAt(p, i) => i <= Len(z) /\ BatchAt(z, i) /\ z[i] = p[i]
Operation == [op : {"create", "link", "unlink"}, file : Nat \ {0}, lines : Seq(Line)]
DirectoryHolds ==
  /\ dirlog \in Seq(Operation)
  /\ \A i \in 1 .. Len(dirlog) :
       /\ dirlog[i].file \in Segments(plain, zst)
       /\ dirlog[i].op = "unlink" =>
            /\ dirlog[i].file \notin DOMAIN plain
            /\ \A j \in 1 .. Len(dirlog) :
                 dirlog[j].op = "unlink" /\ dirlog[j].file = dirlog[i].file => j = i
  /\ \A k \in 0 .. Len(dirlog) : \A f \in ZstAt(k) : \E g \in FilesAt(k) : f < g
  /\ \A f \in DOMAIN zst : \A lines \in Versions(f) : Covers(zst[f], lines)

-----------------------------------------------------------------------------
(* The batches. *)

\* What a batch adds to the state it is folded into.
Brings(c) == IF c.kind = "snapshot" THEN c.state ELSE {c.id}

\* A snapshot holds what every earlier batch brought, those of a version that
\* recovery does not read included.
SnapshotsHold ==
  \A c \in LinesThere : c.kind = "snapshot" =>
    \A d \in CommitsThere : d.seq <= c.seq => Brings(d) \subseteq c.state

\* An acknowledged batch keeps its place in every version of its segment, and
\* the segment is in every directory a crash may leave.
At(lines, i, line) == i \in 1 .. Len(lines) /\ BatchAt(lines, i) /\ lines[i] = line
Durable(f, i, line) ==
  /\ \A lines \in Versions(f) : At(lines, i, line)
  /\ f \in DOMAIN plain => i + line.cnt - 1 <= synced[f]
  /\ \A k \in 0 .. Len(dirlog) : f \in FilesAt(k) \cup ZstAt(k)
Placed(id) ==
  \E f \in Segments(plain, zst) :
    \E i \in 1 .. Len(Lines(plain, zst, f)) : \E line \in {Lines(plain, zst, f)[i]} :
      /\ line.id = id /\ Durable(f, i, line)
      /\ writer.pc # "down" => Brings(line) \subseteq mem
AckedHold == \A id \in acked : Placed(id)

\* The runner holds what the batches bring; not all of them when a crash left
\* the last segment without its first line, and then nothing is appended.
IsActive(f) == f \in DOMAIN plain /\ \A g \in DOMAIN plain : g <= f
Stuck == \E f \in DOMAIN plain : IsActive(f) /\ f # 1 /\ plain[f] = <<>>
InFlight(d) == writer.pc = "written" /\ d = writer.batch[1]
MemoryHolds ==
  writer.pc # "down" =>
    /\ mem \in SUBSET Ids
    /\ \A id \in mem : \E d \in AllCommits(plain, zst) : id \in Brings(d)
    /\ ~Stuck => \A d \in CommitsThere : InFlight(d) \/ Brings(d) \subseteq mem

\* The number given to a batch is new; a snapshot's is never part of a state.
Given == IF writer.pc = "opened" THEN used.appends - 1 ELSE used.appends
NumbersHold ==
  /\ used \in [appends : 0 .. MaxAppends, crashes : Nat, faults : Nat]
  /\ \A c \in LinesThere : c.id <= Given /\ c.state \subseteq 1 .. Given
  /\ \A c, d \in LinesThere : c.kind = "snapshot" => c.id \notin Brings(d)

\* Without a failed step every line is on disk but those of the append in
\* progress, and no version of a segment has a batch that another lacks.
FilesComplete ==
  /\ \A f \in DOMAIN plain :
       synced[f] = Len(plain[f]) \/ (writer.pc = "written" /\ writer.path = f)
  /\ \A f \in DOMAIN zst : \A lines \in Versions(f) : Covers(lines, zst[f])
FaultlessHolds ==
  used.faults = 0 =>
    /\ FilesComplete
    /\ writer.pc # "down" =>
         \A d \in AllCommits(plain, zst) : InFlight(d) \/ Brings(d) \subseteq mem

-----------------------------------------------------------------------------
(* The writer and the compressor. *)

BatchFormed(batch) ==
  /\ batch \in Seq(Line) /\ batch # <<>>
  /\ \A i \in 1 .. Len(batch) :
       /\ batch[i].cnt = Len(batch) /\ batch[i].idx = i - 1
       /\ batch[i].seq = batch[1].seq + i - 1
       /\ batch[i].id = used.appends
       /\ batch[i].kind = batch[1].kind
       /\ batch[i].state \subseteq mem
       /\ batch[i].kind = "snapshot" => batch[i].state = mem /\ batch[i].cnt = 1
OpenedHolds ==
  writer.pc = "opened" =>
    /\ BatchFormed(writer.batch)
    /\ ~Stuck
    /\ \A f \in Segments(plain, zst) : f <= writer.batch[1].seq
    /\ \A c \in LinesThere : c.seq < writer.batch[1].seq
    /\ writer.path \notin torn
    /\ \/ IsActive(writer.path)
       \/ /\ writer.path = writer.batch[1].seq /\ writer.path \notin Segments(plain, zst)
          /\ writer.path # 1 => writer.batch[1].kind = "snapshot"
WrittenHolds ==
  writer.pc = "written" =>
    /\ BatchFormed(writer.batch)
    /\ IsActive(writer.path)
    /\ Len(writer.batch) <= Len(plain[writer.path])
    /\ \A i \in 1 .. Len(writer.batch) :
         plain[writer.path][Len(plain[writer.path]) - Len(writer.batch) + i] = writer.batch[i]
WriterHolds ==
  /\ writer \in {Down, Ready} \cup [pc : {"opened", "written"}, path : Nat \ {0}, batch : Seq(Line)]
  /\ writer.pc = "down" => cache = None
  /\ CacheMatchesLog
  /\ OpenedHolds /\ WrittenHolds

CompressorHolds ==
  /\ comp \in [pc : {"scan", "next", "copied", "renamed", "linked", "removed"}, todo : SUBSET Nat,
               failed : BOOLEAN, seg : Nat \cup {None}, tmp : Seq(Line)]
  /\ comp.pc \in {"copied", "renamed", "linked"} =>
       comp.seg \in DOMAIN plain /\ \E g \in DOMAIN plain : comp.seg < g
  /\ comp.pc = "copied" => comp.seg \notin DOMAIN zst /\ comp.tmp = CompletePrefix(plain[comp.seg])
  /\ comp.pc \in {"renamed", "linked"} => comp.seg \in DOMAIN zst

FilesBounded == \E b \in Nat : Segments(plain, zst) \subseteq 0 .. b

LogInvariant ==
  /\ TypeOK /\ FilesBounded /\ FilesFormed /\ DirectoryHolds
  /\ SnapshotsHold /\ AckedHold /\ MemoryHolds /\ NumbersHold /\ FaultlessHolds
  /\ WriterHolds /\ CompressorHolds

-----------------------------------------------------------------------------
(* Facts about lines, batches and segments. *)

Prefix(v, w) == Len(v) <= Len(w) /\ \A i \in 1 .. Len(v) : v[i] = w[i]

LEMMA LineFacts ==
  ASSUME NEW lines \in Seq(Line)
  PROVE  /\ Len(lines) \in Nat /\ DOMAIN lines = 1 .. Len(lines)
         /\ lines = <<>> <=> Len(lines) = 0
         /\ \A i \in 1 .. Len(lines) :
              /\ lines[i] \in Line
              /\ lines[i].seq \in Nat /\ lines[i].idx \in Nat
              /\ lines[i].cnt \in Nat /\ lines[i].cnt >= 1
              /\ lines[i].id \in Ids /\ lines[i].kind \in Kinds /\ lines[i].state \subseteq Ids
<1>1. Len(lines) \in Nat /\ DOMAIN lines = 1 .. Len(lines)
  BY LenProperties
<1>2. lines = <<>> <=> Len(lines) = 0
  BY <1>1, EmptySeq
<1>3. \A i \in 1 .. Len(lines) : lines[i] \in Line
  BY ElementOfSeq
<1>4. \A l \in Line : /\ l.seq \in Nat /\ l.idx \in Nat /\ l.cnt \in 1 .. MaxBatch
                      /\ l.id \in Ids /\ l.kind \in Kinds /\ l.state \subseteq Ids
  BY DEF Line
<1>5. MaxBatch \in Nat
  BY BoundsAssumption
<1> QED
  BY <1>1, <1>2, <1>3, <1>4, <1>5

LEMMA PrefixKeepsBatches ==
  ASSUME NEW v \in Seq(Line), NEW w \in Seq(Line), Prefix(v, w), NEW i \in 1 .. Len(v)
  PROVE  /\ i \in 1 .. Len(w) /\ v[i] = w[i]
         /\ BatchAt(v, i) => BatchAt(w, i) /\ i + v[i].cnt - 1 <= Len(v)
         /\ BatchAt(w, i) /\ i + w[i].cnt - 1 <= Len(v) => BatchAt(v, i)
<1>1. Len(v) \in Nat /\ Len(w) \in Nat /\ Len(v) <= Len(w) /\ i \in 1 .. Len(w) /\ v[i] = w[i]
  BY LineFacts DEF Prefix
<1>2. v[i].cnt \in Nat /\ v[i].cnt >= 1
  BY LineFacts
<1>3. \A j \in 1 .. Len(v) : v[j] = w[j]
  BY DEF Prefix
<1>4. ASSUME i + v[i].cnt - 1 <= Len(v)
      PROVE  BatchAt(v, i) <=> BatchAt(w, i)
  <2>1. \A k \in 0 .. v[i].cnt - 1 : i + k \in 1 .. Len(v) /\ v[i + k] = w[i + k]
    BY <1>1, <1>2, <1>3, <1>4
  <2>2. \A j \in 1 .. i - 1 : j \in 1 .. Len(v) /\ v[j] = w[j]
    BY <1>1, <1>3
  <2>3. i + v[i].cnt - 1 <= Len(w)
    BY <1>1, <1>2, <1>4
  <2> QED
    BY <1>1, <1>4, <2>1, <2>2, <2>3 DEF BatchAt
<1>5. BatchAt(v, i) => i + v[i].cnt - 1 <= Len(v)
  BY DEF BatchAt
<1> QED
  BY <1>1, <1>4, <1>5

LEMMA PrefixIsFormed ==
  ASSUME NEW v, NEW w, NEW f, WellFormed(w, f), v \in Seq(Line), Prefix(v, w)
  PROVE  WellFormed(v, f)
<1>1. w \in Seq(Line)
  BY DEF WellFormed
<1>2. Len(v) \in Nat /\ Len(w) \in Nat /\ Len(v) <= Len(w) /\ (v = <<>> <=> Len(v) = 0)
      /\ (w = <<>> <=> Len(w) = 0)
  BY <1>1, LineFacts DEF Prefix
<1>3. \A i \in 1 .. Len(v) : i \in 1 .. Len(w) /\ v[i] = w[i] /\ w[i].idx \in Nat
  BY <1>1, <1>2, LineFacts DEF Prefix
<1>4. ASSUME NEW i \in 1 .. Len(v)
      PROVE  /\ f <= v[i].seq
             /\ v[i].idx < v[i].cnt /\ v[i].idx < i
             /\ \A j \in 0 .. v[i].idx :
                  /\ v[i - v[i].idx + j].idx = j
                  /\ v[i - v[i].idx + j].cnt = v[i].cnt
             /\ \A j \in 1 .. i - 1 : v[j].seq < v[i].seq
  <2>1. /\ f <= w[i].seq
        /\ w[i].idx < w[i].cnt /\ w[i].idx < i
        /\ \A j \in 0 .. w[i].idx :
             /\ w[i - w[i].idx + j].idx = j
             /\ w[i - w[i].idx + j].cnt = w[i].cnt
        /\ \A j \in 1 .. i - 1 : w[j].seq < w[i].seq
    BY <1>3, <1>4 DEF WellFormed
  <2>2. \A j \in 1 .. i - 1 : v[j] = w[j]
    BY <1>2, <1>3
  <2>3. \A j \in 0 .. w[i].idx : i - w[i].idx + j \in 1 .. Len(v)
    BY <1>2, <1>3, <2>1
  <2> QED
    BY <1>3, <2>1, <2>2, <2>3
<1>5. f # 1 /\ v # <<>> => v[1].cnt = 1 /\ v[1].kind = "snapshot"
  BY <1>2, <1>3 DEF WellFormed
<1> QED
  BY <1>4, <1>5 DEF WellFormed

\* Compression keeps a prefix, and every batch of it.
LEMMA CompletePrefixKeeps ==
  ASSUME NEW lines, NEW f, WellFormed(lines, f)
  PROVE  /\ CompletePrefix(lines) \in Seq(Line)
         /\ Prefix(CompletePrefix(lines), lines)
         /\ Covers(CompletePrefix(lines), lines)
<1> DEFINE n == Len(lines)
           z == CompletePrefix(lines)
<1>1. lines \in Seq(Line) /\ n \in Nat
  BY LineFacts DEF WellFormed
<1>2. CASE lines = <<>> \/ Last(lines).idx + 1 = Last(lines).cnt
  <2>1. z = lines
    BY <1>2 DEF CompletePrefix
  <2> QED
    BY <1>1, <2>1 DEF Prefix, Covers
<1>3. CASE ~(lines = <<>> \/ Last(lines).idx + 1 = Last(lines).cnt)
  <2> DEFINE q == lines[n].idx
             m == lines[n].cnt
  <2>1. z = SubSeq(lines, 1, n - q - 1)
    BY <1>3 DEF CompletePrefix, Last
  <2>2. n \in 1 .. n /\ q \in Nat /\ m \in Nat /\ q + 1 < m /\ q < n
    <3>1. n \in 1 .. n
      BY <1>1, <1>3, LineFacts
    <3>2. q \in Nat /\ m \in Nat
      BY <1>1, <3>1, LineFacts
    <3>3. q + 1 # m
      BY <1>3 DEF Last
    <3>4. q < m /\ q < n
      BY <3>1 DEF WellFormed
    <3> QED
      BY <3>1, <3>2, <3>3, <3>4
  <2>3. \A j \in 0 .. q : lines[n - q + j].idx = j /\ lines[n - q + j].cnt = m
    BY <2>2 DEF WellFormed
  <2>4. /\ z \in Seq(Line) /\ Len(z) = n - q - 1
        /\ \A i \in 1 .. n - q - 1 : z[i] = lines[i]
    <3>1. n - q - 1 \in Nat
      BY <1>1, <2>2
    <3>2. \A i \in 1 .. n - q - 1 : lines[i] \in Line
      BY <1>1, <2>2, LineFacts
    <3> HIDE DEF q, m, z
    <3> QED
      BY <1>1, <2>1, <3>1, <3>2, SubSeqProperties
  <2>5. Prefix(z, lines)
    BY <1>1, <2>2, <2>4 DEF Prefix
  <2>6. ASSUME NEW i \in 1 .. n, BatchAt(lines, i)
        PROVE  i <= Len(z) /\ BatchAt(z, i) /\ z[i] = lines[i]
    <3> DEFINE c == lines[i].cnt
    <3>1. /\ lines[i].idx = 0 /\ i + c - 1 <= n /\ c \in Nat /\ c >= 1
          /\ \A k \in 0 .. c - 1 : lines[i + k].idx = k
      <4>1. c \in Nat /\ c >= 1
        BY <1>1, LineFacts
      <4> QED
        BY <2>6, <4>1 DEF BatchAt
    <3>2. i + c - 1 <= n - q - 1
      <4> SUFFICES ASSUME i + c - 1 >= n - q
                   PROVE  FALSE
        BY <1>1, <2>2, <3>1
      <4>1. CASE i > n - q
        <5>1. i - (n - q) \in 0 .. q /\ n - q + (i - (n - q)) = i
          BY <1>1, <2>2, <4>1
        <5>2. lines[i].idx = i - (n - q)
          BY <2>3, <5>1
        <5> QED
          BY <1>1, <2>2, <3>1, <4>1, <5>2
      <4>2. CASE i <= n - q
        <5>1. (n - q) - i \in 0 .. c - 1 /\ i + ((n - q) - i) = n - q
          <6>1. n \in Nat /\ q \in Nat /\ c \in Nat /\ q < n /\ i \in 1 .. n /\ i <= n - q
            BY <1>1, <2>2, <3>1, <4>2
          <6>2. i + c - 1 >= n - q
            OBVIOUS
          <6> HIDE DEF n, q, c
          <6> QED
            BY <6>1, <6>2
        <5>2. lines[n - q].idx = (n - q) - i
          <6>1. PICK k \in 0 .. c - 1 : k = (n - q) - i
            BY <5>1
          <6>2. lines[i + k].idx = k /\ i + k = n - q
            BY <3>1, <5>1, <6>1
          <6> QED
            BY <6>1, <6>2
        <5>3. 0 \in 0 .. q /\ n - q + 0 = n - q
          BY <1>1, <2>2
        <5>4. lines[n - q].idx = 0 /\ lines[n - q].cnt = m
          BY <2>3, <5>3
        <5>5. i = n - q
          BY <1>1, <2>2, <5>2, <5>4
        <5>6. c = m
          BY <5>4, <5>5
        <5> HIDE DEF c, q, m
        <5> QED
          BY <1>1, <2>2, <3>1, <5>5, <5>6
      <4> QED
        BY <1>1, <2>2, <4>1, <4>2
    <3>3. i \in 1 .. Len(z)
      BY <1>1, <2>2, <2>4, <3>1, <3>2
    <3> QED
      BY <1>1, <2>4, <2>5, <2>6, <3>2, <3>3, PrefixKeepsBatches
  <2> QED
    BY <2>4, <2>5, <2>6 DEF Covers
<1> QED
  BY <1>2, <1>3

\* Lines of a batch of n, numbered from s, go after these lines.
Goes(b, v, n, s) ==
  /\ Len(b) <= n
  /\ \A i \in 1 .. Len(b) : b[i].idx = i - 1 /\ b[i].cnt = n /\ b[i].seq = s + i - 1
  /\ \A j \in 1 .. Len(v) : v[j].seq < s

CommitsGrow(w, v, b, n) ==
  \A i \in 1 .. Len(w) : BatchAt(w, i) =>
    \/ i \in 1 .. Len(v) /\ BatchAt(v, i)
    \/ i = Len(v) + 1 /\ Len(b) = n /\ 1 \in 1 .. Len(b) /\ w[i] = b[1]

\* A batch, or the lines of it a failed write left, at the end of a segment:
\* only a whole one is a commit, and no older line becomes one.
LEMMA AppendedLines ==
  ASSUME NEW v \in Seq(Line), NEW b \in Seq(Line), NEW w, w = v \o b,
         NEW n \in Nat, NEW s \in Nat, Goes(b, v, n, s)
  PROVE  /\ w \in Seq(Line) /\ Len(w) = Len(v) + Len(b) /\ Prefix(v, w)
         /\ \A i \in 1 .. Len(b) : w[Len(v) + i] = b[i]
         /\ \A i \in 1 .. Len(w) : i <= Len(v) \/ (i - Len(v) \in 1 .. Len(b) /\ w[i] = b[i - Len(v)])
         /\ CommitsGrow(w, v, b, n)
         /\ Len(b) = n /\ n # 0 => BatchAt(w, Len(v) + 1) /\ Len(v) + 1 \in 1 .. Len(w)
<1> USE DEF Goes
<1>1. /\ Len(v) \in Nat /\ Len(b) \in Nat
      /\ w \in Seq(Line) /\ Len(w) = Len(v) + Len(b)
      /\ \A i \in 1 .. Len(w) : w[i] = IF i <= Len(v) THEN v[i] ELSE b[i - Len(v)]
  BY ConcatProperties, LineFacts
<1>2. /\ \A i \in 1 .. Len(v) : i \in 1 .. Len(w) /\ w[i] = v[i]
      /\ \A i \in 1 .. Len(b) : Len(v) + i \in 1 .. Len(w) /\ w[Len(v) + i] = b[i]
  <2>1. \A i \in 1 .. Len(v) : i \in 1 .. Len(w) /\ i <= Len(v)
    BY <1>1
  <2>2. \A i \in 1 .. Len(b) : Len(v) + i \in 1 .. Len(w) /\ ~(Len(v) + i <= Len(v)) /\ (Len(v) + i) - Len(v) = i
    BY <1>1
  <2>3. ASSUME NEW i \in 1 .. Len(b)
        PROVE  Len(v) + i \in 1 .. Len(w) /\ w[Len(v) + i] = b[i]
    <3>1. w[Len(v) + i] = b[(Len(v) + i) - Len(v)]
      BY <1>1, <2>2
    <3> QED
      BY <2>2, <3>1
  <2> QED
    BY <1>1, <2>1, <2>3
<1>3. Prefix(v, w)
  BY <1>1, <1>2 DEF Prefix
<1>4. \A i \in 1 .. Len(w) : i <= Len(v) \/ (i - Len(v) \in 1 .. Len(b) /\ w[i] = b[i - Len(v)])
  BY <1>1
<1>5. ASSUME NEW i \in 1 .. Len(w), BatchAt(w, i), i <= Len(v)
      PROVE  i \in 1 .. Len(v) /\ BatchAt(v, i)
  <2>1. i \in 1 .. Len(v) /\ w[i] = v[i]
    BY <1>1, <1>2, <1>5
  <2> DEFINE c == w[i].cnt
  <2>2. /\ c \in Nat /\ c >= 1 /\ i + c - 1 <= Len(w)
        /\ \A k \in 0 .. c - 1 : w[i + k].idx = k
    BY <1>1, <1>5, LineFacts DEF BatchAt
  <2>3. i + c - 1 <= Len(v)
    <3> SUFFICES ASSUME i + c - 1 >= Len(v) + 1
                 PROVE  FALSE
      BY <1>1, <2>1, <2>2
    <3>1. Len(v) + 1 - i \in 0 .. c - 1 /\ i + (Len(v) + 1 - i) = Len(v) + 1
      BY <1>1, <2>1, <2>2
    <3>2. w[Len(v) + 1].idx = Len(v) + 1 - i
      BY <2>2, <3>1
    <3>3. 1 \in 1 .. Len(b)
      BY <1>1, <2>1, <2>2
    <3>4. w[Len(v) + 1].idx = 0
      BY <1>2, <3>3
    <3>5. Len(v) + 1 - i # 0
      BY <1>1, <2>1
    <3> HIDE DEF c
    <3> QED
      BY <3>2, <3>4, <3>5
  <2> QED
    BY <1>1, <1>3, <1>5, <2>1, <2>3, PrefixKeepsBatches
<1>6. ASSUME NEW i \in 1 .. Len(w), BatchAt(w, i), i > Len(v)
      PROVE  i = Len(v) + 1 /\ Len(b) = n /\ 1 \in 1 .. Len(b) /\ w[i] = b[1]
  <2>1. i - Len(v) \in 1 .. Len(b) /\ w[i] = b[i - Len(v)]
    BY <1>1, <1>4, <1>6
  <2>2. w[i].idx = i - Len(v) - 1 /\ w[i].cnt = n
    BY <2>1
  <2>3. w[i].idx = 0 /\ i + w[i].cnt - 1 <= Len(w)
    BY <1>6 DEF BatchAt
  <2>4. i = Len(v) + 1
    BY <1>1, <2>2, <2>3
  <2>5. Len(b) = n /\ i - Len(v) = 1
    BY <1>1, <2>2, <2>3, <2>4
  <2> QED
    BY <2>1, <2>4, <2>5
<1>7. ASSUME Len(b) = n, n # 0
      PROVE  BatchAt(w, Len(v) + 1) /\ Len(v) + 1 \in 1 .. Len(w)
  <2> DEFINE i == Len(v) + 1
  <2>1. \A k \in 0 .. n - 1 : k + 1 \in 1 .. Len(b) /\ i + k = Len(v) + (k + 1)
    BY <1>1, <1>7
  <2>2. \A k \in 0 .. n - 1 : w[i + k] = b[k + 1]
    BY <1>2, <2>1
  <2>3. \A k \in 0 .. n - 1 : w[i + k].idx = k /\ w[i + k].cnt = n /\ w[i + k].seq = s + k
    <3> TAKE k \in 0 .. n - 1
    <3>1. k + 1 \in 1 .. Len(b) /\ w[i + k] = b[k + 1]
      BY <2>1, <2>2
    <3>2. b[k + 1].idx = (k + 1) - 1 /\ b[k + 1].cnt = n /\ b[k + 1].seq = s + (k + 1) - 1
      BY <3>1
    <3>3. (k + 1) - 1 = k /\ s + (k + 1) - 1 = s + k
      OBVIOUS
    <3> QED
      BY <3>1, <3>2, <3>3
  <2>4. i + 0 = i /\ 0 \in 0 .. n - 1
    BY <1>1, <1>7
  <2>5. w[i].idx = 0 /\ w[i].cnt = n /\ w[i].seq = s
    <3>1. w[i + 0].idx = 0 /\ w[i + 0].cnt = n /\ w[i + 0].seq = s + 0
      BY <2>3, <2>4
    <3>2. s + 0 = s
      OBVIOUS
    <3> QED
      BY <2>4, <3>1, <3>2
  <2>6. i + n - 1 <= Len(w) /\ i \in 1 .. Len(w)
    BY <1>1, <1>7
  <2>7. \A j \in 1 .. i - 1 : w[j].seq < s
    BY <1>1, <1>2
  <2> HIDE DEF i
  <2> QED
    BY <2>3, <2>5, <2>6, <2>7 DEF BatchAt, i
<1>8. CommitsGrow(w, v, b, n)
  BY <1>1, <1>5, <1>6 DEF CommitsGrow
<1> QED
  BY <1>1, <1>2, <1>3, <1>4, <1>7, <1>8

\* What WellFormed says of one line, with the line's own fields named.
LineFormed(w, f, i, x, n, s) ==
  /\ w[i].idx = x /\ w[i].cnt = n /\ w[i].seq = s
  /\ f <= s /\ x < n /\ x < i
  /\ \A j \in 0 .. x : w[i - x + j].idx = j /\ w[i - x + j].cnt = n
  /\ \A j \in 1 .. i - 1 : w[j].seq < s

LEMMA OldLineIsFormed ==
  ASSUME NEW v \in Seq(Line), NEW w, NEW f, WellFormed(v, f), NEW i \in 1 .. Len(v),
         \A j \in 1 .. Len(v) : w[j] = v[j]
  PROVE  LineFormed(w, f, i, v[i].idx, v[i].cnt, v[i].seq)
<1>1. PICK x : x = v[i].idx
  OBVIOUS
<1>2. /\ f <= v[i].seq /\ x < v[i].cnt /\ x < i
      /\ \A j \in 0 .. x : v[i - x + j].idx = j /\ v[i - x + j].cnt = v[i].cnt
      /\ \A j \in 1 .. i - 1 : v[j].seq < v[i].seq
  BY <1>1 DEF WellFormed
<1>3. Len(v) \in Nat /\ x \in Nat /\ w[i] = v[i]
  BY <1>1, LineFacts
<1>4. \A j \in 0 .. x : i - x + j \in 1 .. Len(v)
  BY <1>2, <1>3
<1>5. \A j \in 1 .. i - 1 : j \in 1 .. Len(v)
  BY <1>3
<1>6. \A j \in 0 .. x : w[i - x + j] = v[i - x + j]
  BY <1>4
<1>7. \A j \in 1 .. i - 1 : w[j] = v[j]
  BY <1>5
<1> QED
  BY <1>1, <1>2, <1>3, <1>6, <1>7 DEF LineFormed

LEMMA NewLineIsFormed ==
  ASSUME NEW w, NEW l \in Nat, NEW m \in Nat, NEW n \in Nat, NEW s \in Nat, NEW f \in Nat,
         m <= n, f <= s, NEW k \in 1 .. m,
         \A j \in 1 .. m : w[l + j].idx = j - 1 /\ w[l + j].cnt = n /\ w[l + j].seq = s + j - 1,
         \A j \in 1 .. l : w[j].seq \in Nat /\ w[j].seq < s
  PROVE  LineFormed(w, f, l + k, k - 1, n, s + k - 1)
<1>1. w[l + k].idx = k - 1 /\ w[l + k].cnt = n /\ w[l + k].seq = s + k - 1
  OBVIOUS
<1>2. f <= s + k - 1 /\ k - 1 < n /\ k - 1 < l + k
  OBVIOUS
<1>3. ASSUME NEW j \in 0 .. k - 1
      PROVE  w[(l + k) - (k - 1) + j].idx = j /\ w[(l + k) - (k - 1) + j].cnt = n
  <2>1. (l + k) - (k - 1) + j = l + (j + 1) /\ j + 1 \in 1 .. m /\ (j + 1) - 1 = j
    BY <1>3
  <2>2. w[l + (j + 1)].idx = (j + 1) - 1 /\ w[l + (j + 1)].cnt = n
    BY <2>1
  <2> QED
    BY <2>1, <2>2
<1>4. ASSUME NEW j \in 1 .. (l + k) - 1
      PROVE  w[j].seq < s + k - 1
  <2>1. CASE j <= l
    <3>1. j \in 1 .. l
      BY <2>1
    <3>2. w[j].seq \in Nat /\ w[j].seq < s
      BY <3>1
    <3> QED
      BY <3>2
  <2>2. CASE j > l
    <3>1. PICK i : i = j - l
      OBVIOUS
    <3>2. i \in 1 .. m /\ j = l + i /\ i < k
      BY <2>2, <3>1
    <3>3. w[j].seq = s + i - 1
      BY <3>2
    <3> QED
      BY <3>2, <3>3
  <2> QED
    BY <2>1, <2>2
<1> QED
  BY <1>1, <1>2, <1>3, <1>4 DEF LineFormed

LEMMA AppendedIsFormed ==
  ASSUME NEW v \in Seq(Line), NEW b \in Seq(Line), NEW w, w = v \o b,
         NEW n \in Nat, NEW s \in Nat, NEW f \in Nat, Goes(b, v, n, s),
         WellFormed(v, f), f <= s,
         f # 1 /\ v = <<>> /\ b # <<>> => b[1].cnt = 1 /\ b[1].kind = "snapshot"
  PROVE  WellFormed(w, f)
<1>1. /\ w \in Seq(Line) /\ Len(w) = Len(v) + Len(b) /\ Len(v) \in Nat /\ Len(b) \in Nat
      /\ \A i \in 1 .. Len(v) : i \in 1 .. Len(w) /\ w[i] = v[i]
      /\ \A i \in 1 .. Len(b) : w[Len(v) + i] = b[i]
      /\ \A i \in 1 .. Len(w) : i <= Len(v) \/ (i - Len(v) \in 1 .. Len(b) /\ w[i] = b[i - Len(v)])
      /\ v = <<>> <=> Len(v) = 0
      /\ b = <<>> <=> Len(b) = 0
      /\ w = <<>> <=> Len(w) = 0
  BY AppendedLines, LineFacts DEF Prefix
<1>2. ASSUME NEW i \in 1 .. Len(w)
      PROVE  /\ f <= w[i].seq
             /\ w[i].idx < w[i].cnt /\ w[i].idx < i
             /\ \A j \in 0 .. w[i].idx :
                  /\ w[i - w[i].idx + j].idx = j
                  /\ w[i - w[i].idx + j].cnt = w[i].cnt
             /\ \A j \in 1 .. i - 1 : w[j].seq < w[i].seq
  <2>1. \E x, y, z : LineFormed(w, f, i, x, y, z)
    <3>1. CASE i \in 1 .. Len(v)
      <4>1. \A j \in 1 .. Len(v) : w[j] = v[j]
        BY <1>1
      <4>2. LineFormed(w, f, i, v[i].idx, v[i].cnt, v[i].seq)
        BY <3>1, <4>1, OldLineIsFormed
      <4> QED
        BY <4>2
    <3>2. CASE i \notin 1 .. Len(v)
      <4>1. PICK k : k = i - Len(v)
        OBVIOUS
      <4>2. PICK l : l = Len(v)
        OBVIOUS
      <4>3. PICK m : m = Len(b)
        OBVIOUS
      <4>4. k \in 1 .. m /\ i = l + k /\ l \in Nat /\ m \in Nat
        BY <1>1, <3>2, <4>1, <4>2, <4>3
      <4>5. m <= n /\ \A j \in 1 .. m :
              w[l + j].idx = j - 1 /\ w[l + j].cnt = n /\ w[l + j].seq = s + j - 1
        BY <1>1, <4>2, <4>3 DEF Goes
      <4>6. \A j \in 1 .. l : w[j].seq \in Nat /\ w[j].seq < s
        BY <1>1, <4>2, LineFacts DEF Goes
      <4>7. LineFormed(w, f, l + k, k - 1, n, s + k - 1)
        BY <4>4, <4>5, <4>6, NewLineIsFormed, ZenonT(40)
      <4> QED
        BY <4>4, <4>7
    <3> QED
      BY <3>1, <3>2
  <2>2. PICK x, y, z : LineFormed(w, f, i, x, y, z)
    BY <2>1
  <2>3. x = w[i].idx /\ y = w[i].cnt /\ z = w[i].seq
    BY <2>2 DEF LineFormed
  <2> QED
    BY <2>2, <2>3, Zenon DEF LineFormed
<1>3. ASSUME f # 1, w # <<>>
      PROVE  w[1].cnt = 1 /\ w[1].kind = "snapshot"
  <2>1. CASE v = <<>>
    <3>1. b # <<>> /\ 1 \in 1 .. Len(b) /\ Len(v) + 1 = 1
      BY <1>1, <1>3, <2>1
    <3> QED
      BY <1>1, <1>3, <2>1, <3>1
  <2>2. CASE v # <<>>
    <3>1. 1 \in 1 .. Len(v)
      BY <1>1, <2>2
    <3> QED
      BY <1>1, <1>3, <2>2, <3>1 DEF WellFormed
  <2> QED
    BY <2>1, <2>2
<1> QED
  BY <1>1, <1>2, <1>3 DEF WellFormed

-----------------------------------------------------------------------------
(* What recovery reads. *)

LEMMA MaxIs ==
  ASSUME NEW S \in SUBSET Nat, NEW a \in S, \A y \in S : y <= a
  PROVE  Max(S) = a
<1>1. \A y \in S : a >= y
  OBVIOUS
<1>2. \A x \in S : (\A y \in S : x >= y) => x = a
  OBVIOUS
<1> QED
  BY <1>1, <1>2 DEF Max

\* The files of a log whose last segment accepts appends.
Latest(p, z, a) ==
  /\ a \in DOMAIN p
  /\ Segments(p, z) \subseteq Nat \ {0} /\ \A f \in Segments(p, z) : f <= a

LEMMA LatestIs ==
  ASSUME NEW p, NEW z, NEW a, Latest(p, z, a)
  PROVE  /\ Max(Segments(p, z)) = a /\ Max(DOMAIN p) = a
         /\ a \in Segments(p, z) /\ Segments(p, z) # {} /\ a \in Nat /\ a # 0
         /\ Lines(p, z, a) = p[a]
         /\ LastSequence(p, z) = IF p[a] # <<>> THEN Last(p[a]).seq
                                 ELSE IF a = 1 THEN 0 ELSE None
<1>1. a \in Segments(p, z) /\ a \in DOMAIN p /\ Lines(p, z, a) = p[a]
  BY DEF Latest, Segments, Lines
<1>2. Segments(p, z) \in SUBSET Nat /\ DOMAIN p \in SUBSET Nat
  BY DEF Latest, Segments
<1>3. (\A f \in Segments(p, z) : f <= a) /\ (\A f \in DOMAIN p : f <= a)
  BY DEF Latest, Segments
<1>4. Max(Segments(p, z)) = a
  BY <1>1, <1>2, <1>3, MaxIs
<1>5. Max(DOMAIN p) = a
  BY <1>1, <1>2, <1>3, MaxIs
<1>6. a \in Nat /\ a # 0
  BY <1>1 DEF Latest
<1> QED
  BY <1>1, <1>4, <1>5, <1>6 DEF LastSequence

LEMMA CommitsAre ==
  ASSUME NEW lines \in Seq(Line)
  PROVE  /\ Commits(lines) \subseteq Line
         /\ \A c : c \in Commits(lines) <=> \E i \in 1 .. Len(lines) : BatchAt(lines, i) /\ c = lines[i]
<1>1. \A c : c \in Commits(lines) <=> \E i \in 1 .. Len(lines) : BatchAt(lines, i) /\ c = lines[i]
  BY DEF Commits
<1>2. \A i \in 1 .. Len(lines) : lines[i] \in Line
  BY LineFacts
<1> QED
  BY <1>1, <1>2

\* Folding from any usable snapshot keeps every event, and all the batches
\* bring when every snapshot is usable.
LEMMA FoldedKeeps ==
  ASSUME NEW cs \in SUBSET Line, NEW usable, NEW n \in Nat, \A c \in cs : c.seq <= n,
         \A c, d \in cs : c.kind = "snapshot" /\ d.seq <= c.seq => Brings(d) \subseteq c.state
  PROVE  /\ \A d \in cs : d.kind # "snapshot" => d.id \in Folded(cs, usable)
         /\ \A id \in Folded(cs, usable) : \E d \in cs : id \in Brings(d)
         /\ \A c \in Snapshots(cs, usable) : c.state \subseteq Folded(cs, usable)
         /\ (\A c \in cs : c.id \in usable) =>
              \A d \in cs : Brings(d) \subseteq Folded(cs, usable)
<1> DEFINE snaps == Snapshots(cs, usable)
           base == CHOOSE c \in snaps : \A d \in snaps : d.seq <= c.seq
<1>1. \A c \in cs : c.seq \in Nat
  BY DEF Line
<1>2. snaps \subseteq cs /\ \A c \in cs : c \in snaps <=> c.kind = "snapshot" /\ c.id \in usable
  BY DEF Snapshots
<1>3. CASE snaps = {}
  <2>1. Folded(cs, usable) = {c.id : c \in {d \in cs : d.kind # "snapshot"}}
    BY <1>3 DEF Folded, IdsOf
  <2>2. \A d \in cs : d.kind # "snapshot" => Brings(d) = {d.id}
    BY DEF Brings
  <2>3. (\A c \in cs : c.id \in usable) => \A d \in cs : d.kind # "snapshot"
    BY <1>2, <1>3
  <2> HIDE DEF snaps, base
  <2> QED
    BY <1>3, <2>1, <2>2, <2>3 DEF snaps
<1>4. CASE snaps # {}
  <2>1. base \in snaps /\ \A d \in snaps : d.seq <= base.seq
    <3> DEFINE S == {c.seq : c \in snaps}
    <3>1. S \in SUBSET (0 .. n) /\ S # {}
      BY <1>1, <1>2, <1>4
    <3>2. PICK j \in S : \A i \in S : i <= j
      BY <3>1, HasLargest
    <3>3. \E c \in snaps : \A d \in snaps : d.seq <= c.seq
      BY <3>2
    <3> HIDE DEF snaps, S
    <3> QED
      BY <3>3
  <2> HIDE DEF base, snaps
  <2>2. Folded(cs, usable) =
          base.state \cup {c.id : c \in {d \in {e \in cs : e.seq > base.seq} : d.kind # "snapshot"}}
    BY <1>4 DEF Folded, IdsOf, base, snaps
  <2>3. base \in cs /\ base.kind = "snapshot" /\ base.seq \in Nat
    BY <1>1, <1>2, <2>1
  <2>4. \A d \in cs : d.seq <= base.seq => Brings(d) \subseteq base.state
    BY <2>3
  <2>5. \A d \in cs : d.kind # "snapshot" => d.id \in Folded(cs, usable)
    <3>1. \A d \in cs : d.kind # "snapshot" /\ d.seq <= base.seq => d.id \in base.state
      BY <2>4 DEF Brings
    <3>2. \A d \in cs : d.seq <= base.seq \/ d.seq > base.seq
      BY <1>1, <2>3
    <3> QED
      BY <2>2, <3>1, <3>2
  <2>6. \A id \in Folded(cs, usable) : \E d \in cs : id \in Brings(d)
    <3>1. Brings(base) = base.state
      BY <2>3 DEF Brings
    <3>2. \A d \in cs : d.kind # "snapshot" => Brings(d) = {d.id}
      BY DEF Brings
    <3> QED
      BY <2>2, <2>3, <3>1, <3>2
  <2>7. \A c \in snaps : c.state \subseteq Folded(cs, usable)
    <3>1. \A c \in snaps : c \in cs /\ Brings(c) = c.state /\ c.seq <= base.seq
      BY <1>2, <2>1 DEF Brings
    <3> QED
      BY <2>2, <2>4, <3>1
  <2>8. (\A c \in cs : c.id \in usable) => \A d \in cs : Brings(d) \subseteq Folded(cs, usable)
    <3> SUFFICES ASSUME \A c \in cs : c.id \in usable, NEW d \in cs
                 PROVE  Brings(d) \subseteq Folded(cs, usable)
      OBVIOUS
    <3>1. CASE d.kind = "snapshot"
      BY <1>2, <2>7, <3>1 DEF Brings
    <3>2. CASE d.kind # "snapshot"
      BY <2>5, <3>2 DEF Brings
    <3> QED
      BY <3>1, <3>2
  <2> QED
    BY <2>5, <2>6, <2>7, <2>8 DEF snaps
<1> QED
  BY <1>3, <1>4

\* Recovery of a log whose snapshots hold what came before them.
LEMMA RecoveredKeeps ==
  ASSUME NEW p, NEW z, NEW a, Latest(p, z, a), NEW usable, NEW n \in Nat,
         \A f \in Segments(p, z) :
           /\ Lines(p, z, f) \in Seq(Line)
           /\ \A i \in 1 .. Len(Lines(p, z, f)) :
                /\ f <= Lines(p, z, f)[i].seq /\ Lines(p, z, f)[i].seq <= n
                /\ f < a => Lines(p, z, f)[i].seq < a,
         \A c, d \in AllCommits(p, z) :
           c.kind = "snapshot" /\ d.seq <= c.seq => Brings(d) \subseteq c.state
  PROVE  /\ \A d \in AllCommits(p, z) : d.kind # "snapshot" => d.id \in Recovered(p, z, usable)
         /\ \A id \in Recovered(p, z, usable) : \E d \in AllCommits(p, z) : id \in Brings(d)
         /\ usable = Ids =>
              \A d \in AllCommits(p, z) : Brings(d) \subseteq Recovered(p, z, usable)
<1> DEFINE cs == Commits(p[a])
           all == AllCommits(p, z)
           origin == Snapshots(cs, usable) # {} \/ (a = 1 /\ cs # {})
<1>1. /\ Max(Segments(p, z)) = a /\ a \in Segments(p, z) /\ Lines(p, z, a) = p[a] /\ a \in Nat
      /\ \A f \in Segments(p, z) : f \in Nat /\ f # 0 /\ f <= a
  BY LatestIs DEF Latest
<1>2. Recovered(p, z, usable) = Folded(IF origin THEN cs ELSE all, usable)
  BY <1>1 DEF Recovered
<1>3. \A d : d \in all <=> \E f \in Segments(p, z) : d \in Commits(Lines(p, z, f))
  BY DEF AllCommits
<1>4. \A f \in Segments(p, z) : \A d \in Commits(Lines(p, z, f)) :
        d \in Line /\ f <= d.seq /\ d.seq <= n /\ (f < a => d.seq < a)
  BY CommitsAre
<1>5. cs \subseteq all /\ all \in SUBSET Line /\ cs \in SUBSET Line /\ \A d \in all : d.seq <= n
  BY <1>1, <1>3, <1>4
<1>6. \A d \in all : d.id \in Ids /\ d.seq \in Nat
  BY <1>5 DEF Line
<1> HIDE DEF cs, all
<1>7. /\ \A d \in cs : d.kind # "snapshot" => d.id \in Folded(cs, usable)
      /\ \A id \in Folded(cs, usable) : \E d \in cs : id \in Brings(d)
      /\ \A c \in Snapshots(cs, usable) : c.state \subseteq Folded(cs, usable)
      /\ (\A c \in cs : c.id \in usable) => \A d \in cs : Brings(d) \subseteq Folded(cs, usable)
  <2>1. \A c \in cs : c.seq <= n
    BY <1>5
  <2>2. \A c, d \in cs : c.kind = "snapshot" /\ d.seq <= c.seq => Brings(d) \subseteq c.state
    BY <1>5 DEF all
  <2> QED
    BY <1>5, <2>1, <2>2, FoldedKeeps
<1>8. /\ \A d \in all : d.kind # "snapshot" => d.id \in Folded(all, usable)
      /\ \A id \in Folded(all, usable) : \E d \in all : id \in Brings(d)
      /\ (\A c \in all : c.id \in usable) => \A d \in all : Brings(d) \subseteq Folded(all, usable)
  <2>1. \A c, d \in all : c.kind = "snapshot" /\ d.seq <= c.seq => Brings(d) \subseteq c.state
    BY DEF all
  <2> QED
    BY <1>5, <2>1, FoldedKeeps
<1>9. CASE ~origin
  <2>1. Recovered(p, z, usable) = Folded(all, usable)
    BY <1>2, <1>9
  <2> QED
    BY <1>6, <1>8, <2>1 DEF all
<1>10. CASE origin
  <2>1. Recovered(p, z, usable) = Folded(cs, usable)
    BY <1>2, <1>10
  <2>2. ASSUME NEW d \in all, d \notin cs
        PROVE  Brings(d) \subseteq Folded(cs, usable)
    <3>1. PICK f \in Segments(p, z) : d \in Commits(Lines(p, z, f))
      BY <1>3 DEF all
    <3>2. f # a
      BY <1>1, <2>2, <3>1 DEF cs
    <3>3. f < a /\ a # 1
      <4>1. f \in Nat /\ f # 0 /\ f <= a /\ a \in Nat
        BY <1>1
      <4> HIDE DEF cs, all, origin
      <4> QED
        BY <3>2, <4>1
    <3>4. d.seq < a
      BY <1>4, <3>1, <3>3
    <3>5. PICK c \in Snapshots(cs, usable) : TRUE
      BY <1>10, <3>3
    <3>6. c \in cs /\ c.kind = "snapshot"
      BY <3>5 DEF Snapshots
    <3>7. a <= c.seq /\ c \in all
      BY <1>1, <1>4, <1>5, <3>6 DEF cs
    <3>8. d.seq <= c.seq
      BY <1>1, <1>6, <3>4, <3>7
    <3>9. Brings(d) \subseteq c.state
      BY <3>6, <3>7, <3>8 DEF all
    <3> QED
      BY <1>7, <3>5, <3>9
  <2>3. \A d \in all : d.kind # "snapshot" => d.id \in Folded(cs, usable)
    BY <1>7, <2>2 DEF Brings
  <2>4. usable = Ids => \A d \in all : Brings(d) \subseteq Folded(cs, usable)
    <3>1. \A c \in cs : c.id \in Ids
      BY <1>5, <1>6
    <3> QED
      BY <1>7, <2>2, <3>1
  <2>5. \A id \in Folded(cs, usable) : \E d \in all : id \in Brings(d)
    BY <1>5, <1>7
  <2> QED
    BY <2>1, <2>3, <2>4, <2>5 DEF all
<1> QED
  BY <1>9, <1>10

-----------------------------------------------------------------------------
(* What the invariant says of a state. *)

LEMMA VersionsAre ==
  \A f, v : v \in Versions(f) <=>
              \/ f \in DOMAIN plain /\ v = plain[f]
              \/ f \in DOMAIN zst /\ v = zst[f]
              \/ \E i \in 1 .. Len(dirlog) :
                   dirlog[i].op = "unlink" /\ dirlog[i].file = f /\ v = dirlog[i].lines
BY DEF Versions, Removed

LEMMA VersionsNext ==
  \A f, v : v \in Versions(f)' <=>
              \/ f \in DOMAIN plain' /\ v = plain'[f]
              \/ f \in DOMAIN zst' /\ v = zst'[f]
              \/ \E i \in 1 .. Len(dirlog') :
                   dirlog'[i].op = "unlink" /\ dirlog'[i].file = f /\ v = dirlog'[i].lines
BY DEF Versions, Removed

LEMMA ThereAre ==
  /\ \A c : c \in LinesThere <=>
              \E f \in Segments(plain, zst) : \E v \in Versions(f) : \E i \in 1 .. Len(v) : c = v[i]
  /\ \A c : c \in CommitsThere <=>
              \E f \in Segments(plain, zst) : \E v \in Versions(f) : \E i \in 1 .. Len(v) :
                BatchAt(v, i) /\ c = v[i]
  /\ CommitsThere \subseteq LinesThere
<1>1. \A c : c \in LinesThere <=>
              \E f \in Segments(plain, zst) : \E v \in Versions(f) : \E i \in 1 .. Len(v) : c = v[i]
  BY DEF LinesThere
<1>2. \A c : c \in CommitsThere <=>
              \E f \in Segments(plain, zst) : \E v \in Versions(f) : \E i \in 1 .. Len(v) :
                BatchAt(v, i) /\ c = v[i]
  BY DEF CommitsThere, Commits
<1> QED
  BY <1>1, <1>2

LEMMA ThereNext ==
  /\ \A c : c \in LinesThere' <=>
              \E f \in Segments(plain', zst') : \E v \in Versions(f)' : \E i \in 1 .. Len(v) : c = v[i]
  /\ \A c : c \in CommitsThere' <=>
              \E f \in Segments(plain', zst') : \E v \in Versions(f)' : \E i \in 1 .. Len(v) :
                BatchAt(v, i) /\ c = v[i]
  /\ CommitsThere' \subseteq LinesThere'
<1>1. \A c : c \in LinesThere' <=>
              \E f \in Segments(plain', zst') : \E v \in Versions(f)' : \E i \in 1 .. Len(v) : c = v[i]
  BY DEF LinesThere
<1>2. \A c : c \in CommitsThere' <=>
              \E f \in Segments(plain', zst') : \E v \in Versions(f)' : \E i \in 1 .. Len(v) :
                BatchAt(v, i) /\ c = v[i]
  BY DEF CommitsThere, Commits
<1> QED
  BY <1>1, <1>2

\* The last segment is an uncompressed one, and there is only one version of it.
LEMMA ActiveIsLatest ==
  ASSUME TypeOK, FilesBounded, DirectoryHolds
  PROVE  /\ \A a : IsActive(a) => Latest(plain, zst, a) /\ Active = a /\ a \notin DOMAIN zst
                                  /\ \A v \in Versions(a) : v = plain[a]
         /\ Segments(plain, zst) # {} => \E a : IsActive(a)
         /\ HasActive => IsActive(Active)
         /\ HasActive <=> Segments(plain, zst) # {}
<1>1. DOMAIN plain \subseteq Nat \ {0} /\ DOMAIN zst \subseteq Nat \ {0}
  BY DEF TypeOK
<1>2. \A f \in DOMAIN zst : \E g \in DOMAIN plain : f < g
  <2>1. Len(dirlog) \in Nat
    BY LenProperties DEF DirectoryHolds
  <2>2. Len(dirlog) \in 0 .. Len(dirlog) /\ Len(dirlog) + 1 .. Len(dirlog) = {}
    BY <2>1
  <2>3. \A op : Undone(op, Len(dirlog)) = {}
    BY <2>2 DEF Undone
  <2>4. FilesAt(Len(dirlog)) = DOMAIN plain /\ ZstAt(Len(dirlog)) = DOMAIN zst
    BY <2>3 DEF FilesAt, ZstAt
  <2>5. \A f \in ZstAt(Len(dirlog)) : \E g \in FilesAt(Len(dirlog)) : f < g
    BY <2>2 DEF DirectoryHolds
  <2> QED
    BY <2>4, <2>5
<1>3. ASSUME NEW a, IsActive(a)
      PROVE  /\ Latest(plain, zst, a) /\ Active = a /\ a \notin DOMAIN zst
             /\ \A v \in Versions(a) : v = plain[a]
  <2>1. a \in DOMAIN plain /\ \A g \in DOMAIN plain : g <= a
    BY <1>3 DEF IsActive
  <2>2. \A f \in DOMAIN zst : f < a
    <3> TAKE f \in DOMAIN zst
    <3>1. PICK g \in DOMAIN plain : f < g
      BY <1>2
    <3>2. f \in Nat /\ g \in Nat /\ a \in Nat /\ g <= a
      BY <1>1, <2>1
    <3> QED
      BY <3>1, <3>2
  <2>3. Latest(plain, zst, a)
    <3>1. \A f \in DOMAIN zst : f <= a
      BY <1>1, <2>1, <2>2
    <3> QED
      BY <1>1, <2>1, <3>1 DEF Latest, Segments
  <2>4. Active = a
    BY <2>3, LatestIs DEF Active
  <2>5. a \notin DOMAIN zst
    BY <1>1, <2>1, <2>2
  <2>6. \A i \in 1 .. Len(dirlog) : dirlog[i].op = "unlink" => dirlog[i].file # a
    BY <2>1 DEF DirectoryHolds
  <2>7. \A v \in Versions(a) : v = plain[a]
    BY <2>5, <2>6, VersionsAre
  <2> QED
    BY <2>3, <2>4, <2>5, <2>7
<1>4. ASSUME Segments(plain, zst) # {}
      PROVE  \E a : IsActive(a)
  <2>1. DOMAIN plain # {}
    BY <1>2, <1>4 DEF Segments
  <2>2. PICK b \in Nat : Segments(plain, zst) \subseteq 0 .. b
    BY DEF FilesBounded
  <2>3. DOMAIN plain \in SUBSET (0 .. b)
    BY <2>2 DEF Segments
  <2>4. PICK a \in DOMAIN plain : \A g \in DOMAIN plain : g <= a
    BY <2>1, <2>3, HasLargest
  <2> QED
    BY <2>4 DEF IsActive
<1>5. HasActive => Segments(plain, zst) # {}
  BY DEF HasActive, Segments
<1>6. (\E a : IsActive(a)) => HasActive
  BY DEF IsActive, HasActive
<1>7. HasActive => IsActive(Active)
  <2>1. HasActive => \E a : IsActive(a)
    BY <1>4, <1>5
  <2>2. \A a : IsActive(a) => IsActive(Active)
    BY <1>3
  <2> QED
    BY <2>1, <2>2
<1> QED
  BY <1>3, <1>4, <1>5, <1>6, <1>7

\* What is read of a segment is a version of it.
LEMMA ReadIsAVersion ==
  ASSUME FilesFormed
  PROVE  /\ \A f \in Segments(plain, zst) :
              /\ Lines(plain, zst, f) \in Versions(f)
              /\ WellFormed(Lines(plain, zst, f), f) /\ Lines(plain, zst, f) \in Seq(Line)
         /\ AllCommits(plain, zst) \subseteq CommitsThere
         /\ \A c \in LinesThere : c \in Line /\ c.seq \in Nat
<1>1. \A f \in Segments(plain, zst) : Lines(plain, zst, f) \in Versions(f)
  <2> TAKE f \in Segments(plain, zst)
  <2>1. Lines(plain, zst, f) = IF f \in DOMAIN plain THEN plain[f] ELSE zst[f]
    BY DEF Lines
  <2>2. f \in DOMAIN plain \/ f \in DOMAIN zst
    BY DEF Segments
  <2> QED
    BY <2>1, <2>2, VersionsAre
<1>2. \A f \in Segments(plain, zst) : \A v \in Versions(f) : WellFormed(v, f) /\ v \in Seq(Line)
  BY DEF FilesFormed, WellFormed
<1>3. AllCommits(plain, zst) \subseteq CommitsThere
  <2>1. \A d : d \in AllCommits(plain, zst) <=>
                 \E f \in Segments(plain, zst) : d \in Commits(Lines(plain, zst, f))
    BY DEF AllCommits
  <2>2. \A d : d \in CommitsThere <=>
                 \E f \in Segments(plain, zst) : \E v \in Versions(f) : d \in Commits(v)
    BY DEF CommitsThere
  <2> QED
    BY <1>1, <2>1, <2>2
<1>4. \A c \in LinesThere : c \in Line /\ c.seq \in Nat
  <2> TAKE c \in LinesThere
  <2>1. PICK f \in Segments(plain, zst) : \E v \in Versions(f) : \E i \in 1 .. Len(v) : c = v[i]
    BY ThereAre
  <2>2. PICK v \in Versions(f) : \E i \in 1 .. Len(v) : c = v[i]
    BY <2>1
  <2> QED
    BY <1>2, <2>2, LineFacts
<1> QED
  BY <1>1, <1>2, <1>3, <1>4

-----------------------------------------------------------------------------
(* The properties follow from the invariant. *)

LEMMA LinesAreBounded ==
  ASSUME TypeOK, FilesBounded, FilesFormed, DirectoryHolds, NEW a, IsActive(a)
  PROVE  \E n \in Nat : \A f \in Segments(plain, zst) : \A v \in Versions(f) :
           \A i \in 1 .. Len(v) : f <= v[i].seq /\ v[i].seq <= n /\ (f < a => v[i].seq < a)
<1>1. /\ Latest(plain, zst, a) /\ a \notin DOMAIN zst /\ a \in DOMAIN plain
      /\ \A v \in Versions(a) : v = plain[a]
  BY ActiveIsLatest DEF IsActive
<1>2. a \in Segments(plain, zst) /\ a \in Nat /\ plain[a] \in Versions(a)
  BY <1>1, LatestIs, VersionsAre
<1> DEFINE lines == plain[a]
           last == IF lines = <<>> THEN a ELSE lines[Len(lines)].seq
<1>3. WellFormed(lines, a) /\ lines \in Seq(Line)
  BY <1>2 DEF FilesFormed, WellFormed
<1>4. last \in Nat /\ a <= last /\ \A i \in 1 .. Len(lines) : lines[i].seq <= last
  <2>1. CASE lines = <<>>
    <3>1. Len(lines) = 0
      BY <2>1, <1>3, LineFacts
    <3> QED
      BY <1>2, <2>1, <3>1
  <2>2. CASE lines # <<>>
    <3>1. Len(lines) \in 1 .. Len(lines)
      BY <1>3, <2>2, LineFacts
    <3>2. last \in Nat /\ a <= last /\ \A j \in 1 .. Len(lines) - 1 : lines[j].seq < last
      BY <1>3, <2>2, <3>1, LineFacts DEF WellFormed
    <3>3. \A i \in 1 .. Len(lines) : lines[i].seq \in Nat
      BY <1>3, LineFacts
    <3> HIDE DEF lines
    <3>4. \A i \in 1 .. Len(lines) : lines[i].seq <= last
      <4> TAKE i \in 1 .. Len(lines)
      <4>1. CASE i = Len(lines)
        BY <2>2, <3>2, <4>1
      <4>2. CASE i # Len(lines)
        <5>1. i \in 1 .. Len(lines) - 1
          BY <3>1, <4>2
        <5> QED
          BY <3>2, <3>3, <5>1
      <4> QED
        BY <4>1, <4>2
    <3> QED
      BY <3>2, <3>4
  <2> QED
    BY <2>1, <2>2
<1>5. \A f \in Segments(plain, zst) : \A v \in Versions(f) :
        \A i \in 1 .. Len(v) : f <= v[i].seq /\ v[i].seq <= last /\ (f < a => v[i].seq < a)
  <2> SUFFICES ASSUME NEW f \in Segments(plain, zst), NEW v \in Versions(f), NEW i \in 1 .. Len(v)
               PROVE  f <= v[i].seq /\ v[i].seq <= last /\ (f < a => v[i].seq < a)
    OBVIOUS
  <2>1. f <= v[i].seq
    BY DEF FilesFormed, WellFormed
  <2>2. f < a => v[i].seq < a
    BY <1>2 DEF FilesFormed
  <2>3. f \in Nat /\ f <= a
    BY <1>1 DEF Latest
  <2>4. v[i].seq \in Nat
    BY ReadIsAVersion, ThereAre
  <2>5. f = a => v = lines
    BY <1>1
  <2> HIDE DEF last, lines
  <2>6. v[i].seq <= last
    <3>1. CASE f = a
      BY <1>4, <2>5, <3>1
    <3>2. CASE f # a
      <4>1. f < a
        BY <1>2, <2>3, <3>2
      <4> QED
        BY <1>2, <1>4, <2>2, <2>4, <4>1
    <3> QED
      BY <3>1, <3>2
  <2> QED
    BY <2>1, <2>2, <2>6
<1> QED
  BY <1>4, <1>5

LEMMA RecoveredIs ==
  ASSUME TypeOK, FilesBounded, FilesFormed, DirectoryHolds, SnapshotsHold,
         Segments(plain, zst) # {}, NEW usable
  PROVE  /\ Readable(plain, zst)
         /\ \A d \in AllCommits(plain, zst) : d.kind # "snapshot" => d.id \in Recovered(plain, zst, usable)
         /\ \A id \in Recovered(plain, zst, usable) : \E d \in AllCommits(plain, zst) : id \in Brings(d)
         /\ usable = Ids =>
              \A d \in AllCommits(plain, zst) : Brings(d) \subseteq Recovered(plain, zst, usable)
<1>1. PICK a : IsActive(a)
  BY ActiveIsLatest
<1>2. Latest(plain, zst, a) /\ a \in DOMAIN plain
  BY <1>1, ActiveIsLatest DEF IsActive
<1>3. Readable(plain, zst)
  BY <1>2, LatestIs DEF Readable
<1>4. PICK n \in Nat : \A f \in Segments(plain, zst) : \A v \in Versions(f) :
        \A i \in 1 .. Len(v) : f <= v[i].seq /\ v[i].seq <= n /\ (f < a => v[i].seq < a)
  BY <1>1, LinesAreBounded
<1>5. \A f \in Segments(plain, zst) :
        /\ Lines(plain, zst, f) \in Seq(Line)
        /\ \A i \in 1 .. Len(Lines(plain, zst, f)) :
             /\ f <= Lines(plain, zst, f)[i].seq /\ Lines(plain, zst, f)[i].seq <= n
             /\ f < a => Lines(plain, zst, f)[i].seq < a
  BY <1>4, ReadIsAVersion
<1>6. \A c, d \in AllCommits(plain, zst) :
        c.kind = "snapshot" /\ d.seq <= c.seq => Brings(d) \subseteq c.state
  BY ReadIsAVersion, ThereAre DEF SnapshotsHold
<1> QED
  BY <1>2, <1>3, <1>5, <1>6, RecoveredKeeps

\* An acknowledged batch is read back.
LEMMA AckedAreThere ==
  ASSUME FilesFormed, AckedHold, NEW id \in acked
  PROVE  \E d \in AllCommits(plain, zst) :
           d.id = id /\ (writer.pc # "down" => Brings(d) \subseteq mem)
<1>1. PICK f \in Segments(plain, zst) : \E i \in 1 .. Len(Lines(plain, zst, f)) :
        \E line \in {Lines(plain, zst, f)[i]} :
        /\ line.id = id /\ Durable(f, i, line)
        /\ writer.pc # "down" => Brings(line) \subseteq mem
  BY DEF AckedHold, Placed
<1>2. PICK i \in 1 .. Len(Lines(plain, zst, f)) :
        /\ Lines(plain, zst, f)[i].id = id /\ Durable(f, i, Lines(plain, zst, f)[i])
        /\ writer.pc # "down" => Brings(Lines(plain, zst, f)[i]) \subseteq mem
  BY <1>1
<1> DEFINE line == Lines(plain, zst, f)[i]
<1>3. At(Lines(plain, zst, f), i, line)
  BY <1>2, ReadIsAVersion DEF Durable
<1>4. line \in AllCommits(plain, zst)
  BY <1>3 DEF At, AllCommits, Commits
<1> QED
  BY <1>2, <1>4

LEMMA InvariantMeansAckedSurvive == LogInvariant => AckedSurvive
<1> SUFFICES ASSUME LogInvariant
             PROVE  AckedSurvive
  OBVIOUS
<1>1. \A id \in acked : \E d \in AllCommits(plain, zst) : d.id = id
  BY AckedAreThere DEF LogInvariant
<1> QED
  BY <1>1 DEF AckedSurvive, Visible, IdsOf

LEMMA InvariantMeansDerived == LogInvariant => SnapshotsAreDerived
<1> SUFFICES ASSUME LogInvariant, Readable(plain, zst), NEW usable \in SUBSET Ids, NEW id \in Events(acked)
             PROVE  id \in Recovered(plain, zst, usable)
  BY DEF SnapshotsAreDerived
<1>1. Segments(plain, zst) # {}
  BY DEF Readable
<1>2. id \in acked /\ id \notin {c.id : c \in {d \in AllCommits(plain, zst) : d.kind = "snapshot"}}
  BY DEF Events, IdsOf
<1>3. PICK d \in AllCommits(plain, zst) : d.id = id
  BY <1>2, AckedAreThere DEF LogInvariant
<1>4. d.kind # "snapshot"
  BY <1>2, <1>3
<1> QED
  BY <1>1, <1>3, <1>4, RecoveredIs DEF LogInvariant

LEMMA InvariantMeansRecovery == LogInvariant => RecoveryMatchesMemory
<1> SUFFICES ASSUME LogInvariant, writer = Ready, mem # {}
             PROVE  LET r == Recovered(plain, zst, Ids) IN
                    /\ Readable(plain, zst)
                    /\ mem \subseteq r
                    /\ used.faults = 0 => r = mem
                    /\ acked \cap (r \ mem) = {}
  BY DEF RecoveryMatchesMemory
<1> DEFINE r == Recovered(plain, zst, Ids)
           all == AllCommits(plain, zst)
<1>1. writer.pc = "ready" /\ \A d : ~InFlight(d)
  BY DEF Ready, InFlight
<1>2. /\ mem \in SUBSET Ids
      /\ \A id \in mem : \E d \in all : id \in Brings(d)
  BY <1>1 DEF LogInvariant, MemoryHolds
<1>3. Segments(plain, zst) # {}
  <2>1. all # {}
    BY <1>2
  <2> QED
    BY <2>1 DEF AllCommits
<1>4. /\ Readable(plain, zst)
      /\ \A id \in r : \E d \in all : id \in Brings(d)
      /\ \A d \in all : Brings(d) \subseteq r
  BY <1>3, RecoveredIs DEF LogInvariant
<1> HIDE DEF r, all
<1>5. mem \subseteq r
  BY <1>2, <1>4
<1>6. used.faults = 0 => r = mem
  <2>1. used.faults = 0 => \A d \in all : Brings(d) \subseteq mem
    BY <1>1 DEF LogInvariant, FaultlessHolds, all
  <2> QED
    BY <1>4, <1>5, <2>1
<1>7. ASSUME NEW id \in acked, id \in r
      PROVE  id \in mem
  <2>1. PICK c \in all : c.id = id /\ Brings(c) \subseteq mem
    BY <1>1, AckedAreThere DEF LogInvariant, all
  <2>2. PICK d \in all : id \in Brings(d)
    BY <1>4, <1>7
  <2>3. c \in LinesThere /\ d \in LinesThere
    BY ReadIsAVersion, ThereAre DEF LogInvariant, all
  <2>4. c.kind # "snapshot"
    BY <2>1, <2>2, <2>3 DEF LogInvariant, NumbersHold
  <2> QED
    BY <2>1, <2>4 DEF Brings
<1> QED
  BY <1>4, <1>5, <1>6, <1>7 DEF r

-----------------------------------------------------------------------------
(* Steps that leave less in the files. *)

Narrows ==
  \A f \in Segments(plain, zst)' :
    /\ f \in Segments(plain, zst)
    /\ \A v \in Versions(f)' : v \in Seq(Line) /\ \E w \in Versions(f) : Prefix(v, w)

LEMMA NarrowsKeeps ==
  ASSUME FilesFormed, Narrows
  PROVE  /\ FilesFormed'
         /\ LinesThere' \subseteq LinesThere /\ CommitsThere' \subseteq CommitsThere
         /\ SnapshotsHold => SnapshotsHold'
<1>1. ASSUME NEW f \in Segments(plain, zst)', NEW v \in Versions(f)'
      PROVE  \E w \in Versions(f) :
               /\ f \in Segments(plain, zst)
               /\ v \in Seq(Line) /\ w \in Seq(Line) /\ Prefix(v, w)
               /\ WellFormed(w, f) /\ WellFormed(v, f)
               /\ \A i \in 1 .. Len(v) : i \in 1 .. Len(w) /\ v[i] = w[i] /\ (BatchAt(v, i) => BatchAt(w, i))
  <2>1. PICK w \in Versions(f) : f \in Segments(plain, zst) /\ v \in Seq(Line) /\ Prefix(v, w)
    BY DEF Narrows
  <2>2. w \in Seq(Line) /\ WellFormed(w, f)
    BY <2>1 DEF FilesFormed, WellFormed
  <2>3. WellFormed(v, f)
    BY <2>1, <2>2, PrefixIsFormed
  <2>4. \A i \in 1 .. Len(v) : i \in 1 .. Len(w) /\ v[i] = w[i] /\ (BatchAt(v, i) => BatchAt(w, i))
    BY <2>1, <2>2, PrefixKeepsBatches
  <2> QED
    BY <2>1, <2>2, <2>3, <2>4
<1>2. FilesFormed'
  <2>1. ASSUME NEW f \in Segments(plain, zst)', NEW v \in Versions(f)', NEW g \in Segments(plain, zst)', f < g,
               NEW i \in 1 .. Len(v)
        PROVE  v[i].seq < g
    <3>1. g \in Segments(plain, zst)
      BY DEF Narrows
    <3>2. PICK w \in Versions(f) : f \in Segments(plain, zst) /\ i \in 1 .. Len(w) /\ v[i] = w[i]
      BY <1>1
    <3> QED
      BY <2>1, <3>1, <3>2 DEF FilesFormed
  <2>2. \A f \in Segments(plain, zst)' : \A v \in Versions(f)' : WellFormed(v, f)
    BY <1>1
  <2>3. FilesFormed' <=> \A f \in Segments(plain, zst)' : \A v \in Versions(f)' :
          /\ WellFormed(v, f)
          /\ \A g \in Segments(plain, zst)' : f < g => \A i \in 1 .. Len(v) : v[i].seq < g
    BY DEF FilesFormed, WellFormed
  <2> QED
    BY <2>1, <2>2, <2>3
<1>3. LinesThere' \subseteq LinesThere
  <2> SUFFICES ASSUME NEW c \in LinesThere'
               PROVE  c \in LinesThere
    OBVIOUS
  <2>1. PICK f \in Segments(plain', zst') : \E v \in Versions(f)' : \E i \in 1 .. Len(v) : c = v[i]
    BY ThereNext
  <2>2. PICK v \in Versions(f)' : \E i \in 1 .. Len(v) : c = v[i]
    BY <2>1
  <2>3. \E w \in Versions(f) : f \in Segments(plain, zst) /\ \E i \in 1 .. Len(w) : c = w[i]
    BY <1>1, <2>2
  <2> QED
    BY <2>3, ThereAre
<1>4. CommitsThere' \subseteq CommitsThere
  <2> SUFFICES ASSUME NEW c \in CommitsThere'
               PROVE  c \in CommitsThere
    OBVIOUS
  <2>1. PICK f \in Segments(plain', zst') : \E v \in Versions(f)' : \E i \in 1 .. Len(v) : BatchAt(v, i) /\ c = v[i]
    BY ThereNext
  <2>2. PICK v \in Versions(f)' : \E i \in 1 .. Len(v) : BatchAt(v, i) /\ c = v[i]
    BY <2>1
  <2>3. \E w \in Versions(f) : f \in Segments(plain, zst) /\ \E i \in 1 .. Len(w) : BatchAt(w, i) /\ c = w[i]
    BY <1>1, <2>2
  <2> QED
    BY <2>3, ThereAre
<1>5. SnapshotsHold => SnapshotsHold'
  BY <1>3, <1>4 DEF SnapshotsHold, Brings
<1> QED
  BY <1>2, <1>3, <1>4, <1>5

\* An acknowledged batch stays acknowledged and in its place.
LEMMA PlacesRemain ==
  ASSUME FilesFormed, AckedHold,
         \A f \in Segments(plain, zst) : \A i, line :
           Durable(f, i, line) => f \in Segments(plain, zst)' /\ Durable(f, i, line)',
         \A d \in AllCommits(plain, zst) :
           (writer.pc # "down" => Brings(d) \subseteq mem) => (writer'.pc # "down" => Brings(d) \subseteq mem')
  PROVE  \A id \in acked : Placed(id)'
<1> SUFFICES ASSUME NEW id \in acked
             PROVE  \E f \in Segments(plain, zst)' : \E i \in 1 .. Len(Lines(plain, zst, f)') :
                      \E line \in {Lines(plain, zst, f)'[i]} :
                        /\ line.id = id /\ Durable(f, i, line)'
                        /\ writer'.pc # "down" => Brings(line) \subseteq mem'
  BY DEF Placed, Brings
<1>1. PICK f \in Segments(plain, zst) : \E i \in 1 .. Len(Lines(plain, zst, f)) :
        \E line \in {Lines(plain, zst, f)[i]} :
        /\ line.id = id /\ Durable(f, i, line)
        /\ writer.pc # "down" => Brings(line) \subseteq mem
  BY DEF AckedHold, Placed
<1>2. PICK i \in 1 .. Len(Lines(plain, zst, f)) :
        /\ Lines(plain, zst, f)[i].id = id /\ Durable(f, i, Lines(plain, zst, f)[i])
        /\ writer.pc # "down" => Brings(Lines(plain, zst, f)[i]) \subseteq mem
  BY <1>1
<1>3. PICK line : line = Lines(plain, zst, f)[i]
  OBVIOUS
<1>4. At(Lines(plain, zst, f), i, line)
  BY <1>2, <1>3, ReadIsAVersion DEF Durable
<1>5. line \in AllCommits(plain, zst)
  BY <1>4 DEF At, AllCommits, Commits
<1>6. f \in Segments(plain, zst)' /\ Durable(f, i, line)'
  BY <1>2, <1>3
<1>7. Lines(plain, zst, f)' \in Versions(f)'
  <2>1. Lines(plain, zst, f)' = IF f \in DOMAIN plain' THEN plain'[f] ELSE zst'[f]
    BY DEF Lines
  <2>2. f \in DOMAIN plain' \/ f \in DOMAIN zst'
    BY <1>6 DEF Segments
  <2> QED
    BY <2>1, <2>2, VersionsNext
<1>8. i \in 1 .. Len(Lines(plain, zst, f)') /\ Lines(plain, zst, f)'[i] = line
  BY <1>6, <1>7 DEF Durable, At
<1>9. writer'.pc # "down" => Brings(line) \subseteq mem'
  BY <1>2, <1>3, <1>5
<1> QED
  BY <1>2, <1>3, <1>6, <1>8, <1>9


LEMMA PlacesStay ==
  ASSUME FilesFormed, AckedHold, acked' = acked,
         \A f \in Segments(plain, zst) : \A i, line :
           Durable(f, i, line) => f \in Segments(plain, zst)' /\ Durable(f, i, line)',
         \A d \in AllCommits(plain, zst) :
           (writer.pc # "down" => Brings(d) \subseteq mem) => (writer'.pc # "down" => Brings(d) \subseteq mem')
  PROVE  AckedHold'
<1>1. \A id \in acked : Placed(id)'
  BY PlacesRemain
<1> QED
  BY <1>1 DEF AckedHold, Placed
-----------------------------------------------------------------------------
(* The compressor. *)

\* What a step of it may not change: the runner's side and the last segment.
LEMMA BesideTheRunner ==
  ASSUME LogInvariant, UNCHANGED <<cache, writer, mem, acked>>,
         used' \in [appends : 0 .. MaxAppends, crashes : Nat, faults : Nat],
         used'.appends = used.appends, used'.faults = 0 => used.faults = 0,
         Narrows, Segments(plain', zst') = Segments(plain, zst),
         \A f : IsActive(f)' <=> IsActive(f),
         \A f : IsActive(f) => plain'[f] = plain[f],
         torn' \subseteq torn,
         AllCommits(plain, zst) \subseteq AllCommits(plain', zst'),
         used'.faults = 0 => AllCommits(plain', zst') \subseteq AllCommits(plain, zst),
         used'.faults = 0 => FilesComplete',
         \A f \in Segments(plain, zst) : \A i, line : Durable(f, i, line) => Durable(f, i, line)',
         TypeOK', DirectoryHolds', CompressorHolds'
  PROVE  LogInvariant'
<1>1. /\ FilesFormed' /\ SnapshotsHold'
      /\ LinesThere' \subseteq LinesThere /\ CommitsThere' \subseteq CommitsThere
  BY NarrowsKeeps DEF LogInvariant
<1>2. FilesBounded'
  BY DEF LogInvariant, FilesBounded
<1>3. Stuck' <=> Stuck
  BY DEF Stuck, IsActive
<1>4. AckedHold'
  <2>1. \A f \in Segments(plain, zst) : \A i, line :
          Durable(f, i, line) => f \in Segments(plain, zst)' /\ Durable(f, i, line)'
    BY DEF Segments
  <2> QED
    BY <2>1, PlacesStay DEF LogInvariant
<1>5. \A d : InFlight(d)' <=> InFlight(d)
  BY DEF InFlight
<1>6. MemoryHolds'
  <2>1. ASSUME writer.pc # "down"
        PROVE  /\ mem \in SUBSET Ids
               /\ \A id \in mem : \E d \in AllCommits(plain', zst') : id \in Brings(d)
               /\ ~Stuck' => \A d \in CommitsThere' : InFlight(d)' \/ Brings(d) \subseteq mem
    BY <1>1, <1>3, <1>5, <2>1 DEF LogInvariant, MemoryHolds
  <2> QED
    BY <2>1 DEF MemoryHolds, Brings
<1>7. NumbersHold'
  <2>1. Given' = Given
    BY DEF Given
  <2> QED
    BY <1>1, <2>1 DEF LogInvariant, NumbersHold, Brings
<1>8. FaultlessHolds'
  <2>1. ASSUME used'.faults = 0, writer.pc # "down"
        PROVE  \A d \in AllCommits(plain', zst') : InFlight(d)' \/ Brings(d) \subseteq mem
    BY <1>5, <2>1 DEF LogInvariant, FaultlessHolds
  <2> QED
    BY <2>1 DEF FaultlessHolds, Brings
<1>9. CacheMatchesLog'
  <2>1. LastSequence(plain', zst') = LastSequence(plain, zst)
    <3>1. CASE Segments(plain, zst) = {}
      BY <3>1 DEF LastSequence
    <3>2. CASE Segments(plain, zst) # {}
      <4>1. PICK a : IsActive(a)
        BY <3>2, ActiveIsLatest DEF LogInvariant
      <4>2. Latest(plain, zst, a)
        BY <4>1, ActiveIsLatest DEF LogInvariant
      <4>3. a \in DOMAIN plain' /\ plain'[a] = plain[a]
        BY <4>1 DEF IsActive
      <4>4. Latest(plain', zst', a)
        BY <4>2, <4>3 DEF Latest
      <4> QED
        BY <4>2, <4>3, <4>4, LatestIs
    <3> QED
      BY <3>1, <3>2
  <2> QED
    BY <2>1 DEF LogInvariant, WriterHolds, CacheMatchesLog
<1>10. \A b : BatchFormed(b)' <=> BatchFormed(b)
  BY DEF BatchFormed
<1>11. OpenedHolds'
  <2>1. \A f : IsActive(f)' <=> IsActive(f)
    OBVIOUS
  <2>2. OpenedHolds
    BY DEF LogInvariant, WriterHolds
  <2> QED
    BY <1>1, <1>3, <1>10, <2>1, <2>2 DEF OpenedHolds
<1>12. WrittenHolds'
  <2>1. WrittenHolds
    BY DEF LogInvariant, WriterHolds
  <2>2. ASSUME writer.pc = "written"
        PROVE  IsActive(writer.path)' /\ plain'[writer.path] = plain[writer.path]
    BY <2>1, <2>2 DEF WrittenHolds
  <2> QED
    BY <1>10, <2>1, <2>2 DEF WrittenHolds
<1>13. WriterHolds'
  BY <1>9, <1>11, <1>12 DEF LogInvariant, WriterHolds
<1> QED
  BY <1>1, <1>2, <1>4, <1>6, <1>7, <1>8, <1>13 DEF LogInvariant

\* What is read of a state whose files did not change.
LEMMA FilesStay ==
  ASSUME TypeOK, FilesFormed, UNCHANGED <<plain, synced, zst, dirlog>>
  PROVE  /\ Narrows /\ Segments(plain', zst') = Segments(plain, zst)
         /\ \A f : Versions(f)' = Versions(f)
         /\ \A f : IsActive(f)' <=> IsActive(f)
         /\ AllCommits(plain', zst') = AllCommits(plain, zst)
         /\ LinesThere' = LinesThere /\ CommitsThere' = CommitsThere
         /\ (Stuck' <=> Stuck) /\ (HasActive' <=> HasActive)
         /\ \A f, i, line : Durable(f, i, line)' <=> Durable(f, i, line)
         /\ (FilesBounded => FilesBounded')
         /\ DirectoryHolds => DirectoryHolds'
<1>1. Segments(plain', zst') = Segments(plain, zst)
  OBVIOUS
<1>2. \A f : Versions(f)' = Versions(f)
  BY DEF Versions, Removed
<1>3. Narrows
  <2>1. \A f \in Segments(plain, zst) : \A v \in Versions(f) : v \in Seq(Line) /\ Prefix(v, v)
    <3> TAKE f \in Segments(plain, zst)
    <3> TAKE v \in Versions(f)
    <3>1. v \in Seq(Line)
      BY DEF FilesFormed, WellFormed
    <3> QED
      BY <3>1, LineFacts DEF Prefix
  <2> QED
    BY <1>1, <1>2, <2>1 DEF Narrows, Segments
<1>4. \A f : IsActive(f)' <=> IsActive(f)
  BY DEF IsActive
<1>5. AllCommits(plain', zst') = AllCommits(plain, zst)
  OBVIOUS
<1>6. LinesThere' = LinesThere /\ CommitsThere' = CommitsThere
  BY <1>1, <1>2 DEF LinesThere, CommitsThere
<1>7. (Stuck' <=> Stuck) /\ (HasActive' <=> HasActive)
  BY DEF Stuck, IsActive, HasActive
<1>8. \A op, k : Undone(op, k)' = Undone(op, k)
  BY DEF Undone
<1>9. \A k : FilesAt(k)' = FilesAt(k) /\ ZstAt(k)' = ZstAt(k)
  BY <1>8 DEF FilesAt, ZstAt
<1>10. \A f, i, line : Durable(f, i, line)' <=> Durable(f, i, line)
  BY <1>2, <1>9 DEF Durable
<1>11. FilesBounded => FilesBounded'
  BY DEF FilesBounded
<1>12. DirectoryHolds => DirectoryHolds'
  BY <1>2, <1>9 DEF DirectoryHolds
<1> QED
  BY <1>1, <1>2, <1>3, <1>4, <1>5, <1>6, <1>7, <1>10, <1>11, <1>12

\* Scanning, waiting, taking up a segment and giving it up touch no file.
LEMMA CompressorAlone ==
  ASSUME LogInvariant, UNCHANGED <<disk, cache, writer, mem, acked>>, wake' \in BOOLEAN,
         used' \in [appends : 0 .. MaxAppends, crashes : Nat, faults : Nat],
         used'.appends = used.appends, used'.faults = 0 => used.faults = 0,
         CompressorHolds'
  PROVE  LogInvariant'
<1>1. UNCHANGED <<plain, torn, synced, zst, dirlog>>
  BY DEF disk
<1>2. TypeOK /\ FilesFormed /\ DirectoryHolds
  BY DEF LogInvariant
<1>3. TypeOK'
  BY <1>1, <1>2 DEF TypeOK, CompressorHolds
<1>4. used'.faults = 0 => FilesComplete'
  <2>1. \A f : Versions(f)' = Versions(f)
    BY <1>1, <1>2, FilesStay
  <2> QED
    BY <1>1, <2>1 DEF LogInvariant, FaultlessHolds, FilesComplete
<1>5. /\ Narrows /\ Segments(plain', zst') = Segments(plain, zst)
      /\ \A f : IsActive(f)' <=> IsActive(f)
      /\ AllCommits(plain', zst') = AllCommits(plain, zst)
      /\ \A f, i, line : Durable(f, i, line)' <=> Durable(f, i, line)
      /\ DirectoryHolds'
  BY <1>1, <1>2, FilesStay
<1>6. \A f : IsActive(f) => plain'[f] = plain[f]
  BY <1>1
<1> QED
  BY <1>1, <1>3, <1>4, <1>5, <1>6, BesideTheRunner

LEMMA NothingUndone == \A op : dirlog \in Seq(Operation) => Undone(op, Len(dirlog)) = {}
<1> SUFFICES ASSUME NEW op, dirlog \in Seq(Operation)
             PROVE  Undone(op, Len(dirlog)) = {}
  OBVIOUS
<1>1. Len(dirlog) \in Nat
  BY LenProperties
<1>2. Len(dirlog) + 1 .. Len(dirlog) = {}
  BY <1>1
<1> QED
  BY <1>2 DEF Undone

\* One more operation on the directory is undone by the crashes before it.
LEMMA OperationIsLast ==
  ASSUME dirlog \in Seq(Operation), NEW o \in {"create", "link", "unlink"}, NEW f \in Nat \ {0},
         NEW lines \in Seq(Line), DirOp(o, f, lines)
  PROVE  /\ Len(dirlog) \in Nat
         /\ dirlog' \in Seq(Operation) /\ Len(dirlog') = Len(dirlog) + 1
         /\ \A i \in 1 .. Len(dirlog) : dirlog'[i] = dirlog[i]
         /\ \A i \in 1 .. Len(dirlog') : i = Len(dirlog') \/ i \in 1 .. Len(dirlog)
         /\ dirlog'[Len(dirlog')] = [op |-> o, file |-> f, lines |-> lines]
         /\ \A k \in 0 .. Len(dirlog') : k \in 0 .. Len(dirlog) \/ k = Len(dirlog')
         /\ \A op, k : k \in 0 .. Len(dirlog) =>
              Undone(op, k)' = Undone(op, k) \cup (IF op = o THEN {f} ELSE {})
         /\ \A op, k : k = Len(dirlog') => Undone(op, k)' = {}
<1> DEFINE e == [op |-> o, file |-> f, lines |-> lines]
           n == Len(dirlog)
<1>1. e \in Operation /\ dirlog' = Append(dirlog, e)
  BY DEF Operation, DirOp
<1>2. e.op = o /\ e.file = f
  OBVIOUS
<1> HIDE DEF e
<1>3. /\ n \in Nat /\ dirlog' \in Seq(Operation) /\ Len(dirlog') = n + 1
      /\ \A i \in 1 .. n : dirlog'[i] = dirlog[i]
      /\ dirlog'[n + 1] = e
  BY <1>1, AppendProperties, LenProperties
<1>4. /\ \A i \in 1 .. Len(dirlog') : i = Len(dirlog') \/ i \in 1 .. n
      /\ \A k \in 0 .. Len(dirlog') : k \in 0 .. n \/ k = Len(dirlog')
  BY <1>3
<1>5. ASSUME NEW op, NEW k \in 0 .. n
      PROVE  Undone(op, k)' = Undone(op, k) \cup (IF op = o THEN {f} ELSE {})
  <2>1. Undone(op, k)' = {dirlog'[i].file : i \in {j \in k + 1 .. Len(dirlog') : dirlog'[j].op = op}}
    BY DEF Undone
  <2>2. Undone(op, k) = {dirlog[i].file : i \in {j \in k + 1 .. n : dirlog[j].op = op}}
    BY DEF Undone
  <2>3. /\ \A j \in k + 1 .. Len(dirlog') : j \in k + 1 .. n \/ j = n + 1
        /\ n + 1 \in k + 1 .. Len(dirlog')
        /\ \A j \in k + 1 .. n : j \in k + 1 .. Len(dirlog') /\ dirlog'[j] = dirlog[j]
    BY <1>3
  <2>4. \A x : x \in Undone(op, k)' <=> x \in Undone(op, k) \/ (op = o /\ x = f)
    <3>1. \A x : x \in Undone(op, k)' => x \in Undone(op, k) \/ (op = o /\ x = f)
      BY <1>2, <1>3, <2>1, <2>2, <2>3
    <3>2. \A x : x \in Undone(op, k) => x \in Undone(op, k)'
      BY <2>1, <2>2, <2>3
    <3>3. op = o => f \in Undone(op, k)'
      BY <1>2, <1>3, <2>1, <2>3
    <3> QED
      BY <3>1, <3>2, <3>3
  <2> QED
    BY <2>4
<1>6. \A op, k : k = Len(dirlog') => Undone(op, k)' = {}
  <2>1. Len(dirlog') + 1 .. Len(dirlog') = {}
    BY <1>3
  <2> QED
    BY <2>1 DEF Undone
<1> QED
  BY <1>3, <1>4, <1>5, <1>6 DEF e

LEMMA DurableIsALine ==
  ASSUME FilesFormed, NEW f \in Segments(plain, zst), NEW i, NEW line, Durable(f, i, line)
  PROVE  /\ line \in CommitsThere /\ line \in Line
         /\ i \in Nat /\ i # 0 /\ line.cnt \in Nat /\ line.cnt # 0
<1>1. PICK v \in Versions(f) : v \in Seq(Line)
  BY ReadIsAVersion
<1>2. i \in 1 .. Len(v) /\ BatchAt(v, i) /\ v[i] = line
  BY <1>1 DEF Durable, At
<1>3. line \in CommitsThere
  BY <1>1, <1>2, ThereAre
<1> QED
  BY <1>1, <1>2, <1>3, LineFacts

\* The directory is on disk: only what it holds now can be found again.
LEMMA DirectorySynced ==
  ASSUME TypeOK, FilesFormed, DirectoryHolds, dirlog' = <<>>, UNCHANGED <<plain, zst>>,
         \A f \in DOMAIN plain : synced'[f] \in Nat /\ synced[f] <= synced'[f]
  PROVE  /\ Narrows /\ DirectoryHolds'
         /\ \A f : Versions(f)' \subseteq Versions(f)
         /\ \A f \in Segments(plain, zst) : \A i, line : Durable(f, i, line) => Durable(f, i, line)'
<1>1. dirlog' \in Seq(Operation) /\ Len(dirlog') = 0 /\ \A i \in 1 .. Len(dirlog') : FALSE
  BY EmptySeq
<1>2. \A f : Versions(f)' \subseteq Versions(f)
  BY <1>1, VersionsAre, VersionsNext
<1>3. Narrows
  <2>1. \A f \in Segments(plain, zst) : \A v \in Versions(f) : v \in Seq(Line) /\ Prefix(v, v)
    <3> TAKE f \in Segments(plain, zst)
    <3> TAKE v \in Versions(f)
    <3>1. v \in Seq(Line)
      BY DEF FilesFormed, WellFormed
    <3> QED
      BY <3>1, LineFacts DEF Prefix
  <2> QED
    BY <1>2, <2>1 DEF Narrows, Segments
<1>4. FilesAt(0)' = FilesAt(Len(dirlog)) /\ ZstAt(0)' = ZstAt(Len(dirlog))
  <2>1. \A op : Undone(op, 0)' = {} /\ Undone(op, Len(dirlog)) = {}
    <3>1. \A i \in 0 + 1 .. Len(dirlog') : FALSE
      BY <1>1
    <3>2. \A op : Undone(op, Len(dirlog)) = {}
      BY NothingUndone DEF DirectoryHolds
    <3> QED
      BY <3>1, <3>2 DEF Undone
  <2> QED
    BY <2>1 DEF FilesAt, ZstAt
<1>5. \A k \in 0 .. Len(dirlog') : k = 0
  BY <1>1
<1>6. Len(dirlog) \in 0 .. Len(dirlog)
  BY LenProperties DEF DirectoryHolds
<1>7. DirectoryHolds'
  <2>1. \A k \in 0 .. Len(dirlog') : \A f \in ZstAt(k)' : \E g \in FilesAt(k)' : f < g
    BY <1>4, <1>5, <1>6 DEF DirectoryHolds
  <2>2. \A f \in DOMAIN zst' : \A lines \in Versions(f)' : Covers(zst'[f], lines)
    BY <1>2 DEF DirectoryHolds
  <2> QED
    BY <1>1, <2>1, <2>2 DEF DirectoryHolds, Covers
<1>8. ASSUME NEW f \in Segments(plain, zst), NEW i, NEW line, Durable(f, i, line)
      PROVE  Durable(f, i, line)'
  <2>0. line.cnt \in Nat /\ i \in Nat
    BY <1>8, DurableIsALine
  <2>1. \A v \in Versions(f)' : At(v, i, line)
    BY <1>2, <1>8 DEF Durable
  <2>2. f \in DOMAIN plain' => i + line.cnt - 1 <= synced'[f]
    <3> SUFFICES ASSUME f \in DOMAIN plain
                 PROVE  i + line.cnt - 1 <= synced'[f]
      OBVIOUS
    <3>1. i + line.cnt - 1 <= synced[f]
      BY <1>8 DEF Durable
    <3>2. synced[f] \in Nat /\ synced'[f] \in Nat /\ synced[f] <= synced'[f]
      BY LenProperties DEF TypeOK
    <3> QED
      BY <2>0, <3>1, <3>2
  <2>3. \A k \in 0 .. Len(dirlog') : f \in FilesAt(k)' \cup ZstAt(k)'
    BY <1>4, <1>5, <1>6, <1>8 DEF Durable
  <2> QED
    BY <2>1, <2>2, <2>3 DEF Durable, At
<1> QED
  BY <1>2, <1>3, <1>7, <1>8

LEMMA UsedStays ==
  ASSUME NumbersHold
  PROVE  /\ used \in [appends : 0 .. MaxAppends, crashes : Nat, faults : Nat]
         /\ used.appends \in 0 .. MaxAppends
         /\ Spend("faults") =>
              /\ used' \in [appends : 0 .. MaxAppends, crashes : Nat, faults : Nat]
              /\ used'.appends = used.appends /\ used'.faults # 0
         /\ Spend("crashes") =>
              /\ used' \in [appends : 0 .. MaxAppends, crashes : Nat, faults : Nat]
              /\ used'.appends = used.appends /\ used'.faults = used.faults
BY DEF NumbersHold, Spend

LEMMA SealedAre ==
  ASSUME LogInvariant
  PROVE  Sealed \subseteq DOMAIN plain /\ \A f \in Sealed : \E g \in DOMAIN plain : f < g
<1> SUFFICES ASSUME NEW f \in Sealed
             PROVE  f \in DOMAIN plain /\ \E g \in DOMAIN plain : f < g
  OBVIOUS
<1>1. HasActive /\ f \in DOMAIN plain /\ f # Active
  BY DEF Sealed
<1>2. IsActive(Active)
  BY <1>1, ActiveIsLatest DEF LogInvariant
<1>3. Active \in DOMAIN plain /\ f <= Active
  BY <1>1, <1>2 DEF IsActive
<1>4. f \in Nat /\ Active \in Nat
  BY <1>1, <1>3 DEF LogInvariant, TypeOK
<1> QED
  BY <1>1, <1>3, <1>4

LEMMA ScanKeeps == LogInvariant /\ (Scan \/ Park) => LogInvariant'
<1> SUFFICES ASSUME LogInvariant, Scan \/ Park
             PROVE  LogInvariant'
  OBVIOUS
<1>1. CompressorHolds /\ NumbersHold
  BY DEF LogInvariant
<1>2. Sealed \subseteq Nat
  BY SealedAre DEF LogInvariant, TypeOK
<1>3. CompressorHolds'
  <2>1. CASE Scan
    <3>1. comp' = [comp EXCEPT !.pc = "next", !.todo = Sealed, !.failed = FALSE]
      BY <2>1 DEF Scan
    <3> QED
      BY <1>1, <1>2, <3>1 DEF CompressorHolds
  <2>2. CASE Park
    <3>1. comp' = [comp EXCEPT !.pc = "scan"]
      BY <2>2 DEF Park
    <3> QED
      BY <1>1, <3>1 DEF CompressorHolds
  <2> QED
    BY <2>1, <2>2
<1>4. UNCHANGED <<disk, cache, writer, mem, acked, used>> /\ wake' \in BOOLEAN
  BY DEF Scan, Park, LogInvariant, TypeOK
<1>5. used.faults = 0 => used.faults = 0
  OBVIOUS
<1> QED
  BY <1>1, <1>3, <1>4, UsedStays, CompressorAlone

LEMMA BeginKeeps == ASSUME LogInvariant, NEW f, Begin(f) PROVE LogInvariant'
<1>1. CompressorHolds /\ NumbersHold /\ FilesFormed
  BY DEF LogInvariant
<1>2. f \in DOMAIN plain /\ f \in Nat /\ \E g \in DOMAIN plain : f < g
  <2>1. f \in Sealed
    BY DEF Begin
  <2> QED
    BY <2>1, SealedAre DEF LogInvariant, TypeOK
<1>3. UNCHANGED <<disk, cache, writer, mem, acked, wake, used>>
  BY DEF Begin
<1>4. plain' = plain /\ zst' = zst
  BY <1>3 DEF disk
<1>5. CompressorHolds'
  <2>1. CASE f \in DOMAIN zst
    <3>1. comp' = [comp EXCEPT !.pc = "linked", !.seg = f, !.todo = @ \ {f}]
      BY <2>1 DEF Begin
    <3> QED
      BY <1>1, <1>2, <1>4, <2>1, <3>1 DEF CompressorHolds
  <2>2. CASE f \notin DOMAIN zst
    <3>1. comp' = [comp EXCEPT !.pc = "copied", !.seg = f, !.todo = @ \ {f},
                               !.tmp = CompletePrefix(plain[f])]
      BY <2>2 DEF Begin
    <3>2. CompletePrefix(plain[f]) \in Seq(Line)
      <4>1. f \in Segments(plain, zst) /\ plain[f] \in Versions(f)
        BY <1>2, VersionsAre DEF Segments
      <4>2. WellFormed(plain[f], f)
        BY <1>1, <4>1 DEF FilesFormed
      <4> QED
        BY <4>2, CompletePrefixKeeps
    <3> QED
      BY <1>1, <1>2, <1>4, <2>2, <3>1, <3>2 DEF CompressorHolds
  <2> QED
    BY <2>1, <2>2
<1>6. wake' \in BOOLEAN
  BY <1>3 DEF LogInvariant, TypeOK
<1> QED
  BY <1>1, <1>3, <1>5, <1>6, UsedStays, CompressorAlone

LEMMA CompressionFailsKeeps == LogInvariant /\ CompressionFails => LogInvariant'
<1> SUFFICES ASSUME LogInvariant, CompressionFails
             PROVE  LogInvariant'
  OBVIOUS
<1>1. CompressorHolds /\ NumbersHold
  BY DEF LogInvariant
<1>2. CompressorHolds'
  <2>1. comp' = [comp EXCEPT !.pc = "next", !.seg = None, !.tmp = <<>>, !.failed = TRUE]
    BY DEF CompressionFails
  <2>2. <<>> \in Seq(Line)
    BY EmptySeq
  <2> QED
    BY <1>1, <2>1, <2>2 DEF CompressorHolds
<1>3. UNCHANGED <<disk, cache, writer, mem, acked, wake>> /\ Spend("faults")
  BY DEF CompressionFails
<1>4. wake' \in BOOLEAN
  BY <1>3 DEF LogInvariant, TypeOK
<1> QED
  BY <1>1, <1>2, <1>3, <1>4, UsedStays, CompressorAlone

LEMMA DirectorySyncKeeps ==
  LogInvariant /\ (SyncLink \/ SyncRemoval) => LogInvariant' /\ Narrows
<1> SUFFICES ASSUME LogInvariant, SyncLink \/ SyncRemoval
             PROVE  LogInvariant' /\ Narrows
  OBVIOUS
<1>1. TypeOK /\ FilesFormed /\ DirectoryHolds /\ CompressorHolds /\ NumbersHold
  BY DEF LogInvariant
<1>2. dirlog' = <<>> /\ UNCHANGED <<plain, torn, synced, zst, cache, writer, mem, acked, wake, used>>
  BY DEF SyncLink, SyncRemoval
<1>3. CompressorHolds'
  <2>1. CASE SyncLink
    <3>1. comp.pc = "renamed" /\ comp' = [comp EXCEPT !.pc = "linked"]
      BY <2>1 DEF SyncLink
    <3> QED
      BY <1>1, <1>2, <3>1 DEF CompressorHolds
  <2>2. CASE SyncRemoval
    <3>1. comp' = [comp EXCEPT !.pc = "next", !.seg = None]
      BY <2>2 DEF SyncRemoval
    <3> QED
      BY <1>1, <1>2, <3>1 DEF CompressorHolds
  <2> QED
    BY <2>1, <2>2
<1>4. TypeOK'
  BY <1>1, <1>2, <1>3 DEF TypeOK, CompressorHolds
<1>5. \A f \in DOMAIN plain : synced'[f] \in Nat /\ synced[f] <= synced'[f]
  <2>1. \A f \in DOMAIN plain : synced[f] \in Nat
    BY <1>1, LenProperties DEF TypeOK
  <2> QED
    BY <1>2, <2>1
<1>6. /\ Narrows /\ DirectoryHolds'
      /\ \A f : Versions(f)' \subseteq Versions(f)
      /\ \A f \in Segments(plain, zst) : \A i, line : Durable(f, i, line) => Durable(f, i, line)'
  BY <1>1, <1>2, <1>5, DirectorySynced
<1>7. used'.faults = 0 => FilesComplete'
  BY <1>2, <1>6 DEF LogInvariant, FaultlessHolds, FilesComplete
<1>8. /\ \A f : IsActive(f)' <=> IsActive(f)
      /\ \A f : IsActive(f) => plain'[f] = plain[f]
  BY <1>2 DEF IsActive
<1>9. Segments(plain', zst') = Segments(plain, zst) /\ AllCommits(plain', zst') = AllCommits(plain, zst)
  BY <1>2
<1>10. LogInvariant'
  BY <1>1, <1>2, <1>3, <1>4, <1>6, <1>7, <1>8, <1>9, UsedStays, BesideTheRunner
<1> QED
  BY <1>6, <1>10

LEMMA RenameKeeps ==
  LogInvariant /\ Rename => LogInvariant' /\ Narrows /\ AllCommits(plain', zst') = AllCommits(plain, zst)
<1> SUFFICES ASSUME LogInvariant, Rename
             PROVE  LogInvariant' /\ Narrows /\ AllCommits(plain', zst') = AllCommits(plain, zst)
  OBVIOUS
<1>1. TypeOK /\ FilesFormed /\ FilesBounded /\ DirectoryHolds /\ CompressorHolds /\ NumbersHold
  BY DEF LogInvariant
<1>2. PICK s : s = comp.seg
  OBVIOUS
<1>3. PICK z : z = comp.tmp
  OBVIOUS
<1>4. /\ zst' = With(zst, s, z) /\ DirOp("link", s, <<>>)
      /\ comp' = [comp EXCEPT !.pc = "renamed", !.tmp = <<>>]
      /\ UNCHANGED <<plain, torn, synced, cache, writer, mem, acked, wake, used>>
  BY <1>2, <1>3 DEF Rename
<1>5. /\ s \in DOMAIN plain /\ s \notin DOMAIN zst /\ s \in Nat \ {0}
      /\ \E g \in DOMAIN plain : s < g
      /\ z = CompletePrefix(plain[s])
  BY <1>1, <1>2, <1>3 DEF Rename, CompressorHolds, TypeOK
<1>6. s \in Segments(plain, zst) /\ plain[s] \in Versions(s)
  BY <1>5, VersionsAre DEF Segments
<1>7. WellFormed(plain[s], s) /\ plain[s] \in Seq(Line)
  BY <1>1, <1>6 DEF FilesFormed, WellFormed
<1>8. z \in Seq(Line) /\ Prefix(z, plain[s]) /\ Covers(z, plain[s])
  BY <1>5, <1>7, CompletePrefixKeeps
<1>9. <<>> \in Seq(Line)
  BY EmptySeq
<1>10. /\ DOMAIN zst' = DOMAIN zst \cup {s}
       /\ zst'[s] = z /\ \A f \in DOMAIN zst : zst'[f] = zst[f]
  BY <1>4, <1>5 DEF With
<1>11. Segments(plain', zst') = Segments(plain, zst)
  BY <1>4, <1>5, <1>10 DEF Segments
<1>12. /\ Len(dirlog) \in Nat
       /\ dirlog' \in Seq(Operation) /\ Len(dirlog') = Len(dirlog) + 1
       /\ \A i \in 1 .. Len(dirlog) : dirlog'[i] = dirlog[i]
       /\ \A i \in 1 .. Len(dirlog') : i = Len(dirlog') \/ i \in 1 .. Len(dirlog)
       /\ dirlog'[Len(dirlog')] = [op |-> "link", file |-> s, lines |-> <<>>]
       /\ \A k \in 0 .. Len(dirlog') : k \in 0 .. Len(dirlog) \/ k = Len(dirlog')
       /\ \A op, k : k \in 0 .. Len(dirlog) =>
            Undone(op, k)' = Undone(op, k) \cup (IF op = "link" THEN {s} ELSE {})
       /\ \A op, k : k = Len(dirlog') => Undone(op, k)' = {}
  BY <1>1, <1>4, <1>5, <1>9, OperationIsLast DEF DirectoryHolds
<1>13. \A f, v : v \in Versions(f)' <=> v \in Versions(f) \/ (f = s /\ v = z)
  <2>1. \A i \in 1 .. Len(dirlog') : dirlog'[i].op = "unlink" => i \in 1 .. Len(dirlog)
    BY <1>12
  <2>2. \A i \in 1 .. Len(dirlog) : i \in 1 .. Len(dirlog')
    BY <1>12
  <2>3. \A f, v : (\E i \in 1 .. Len(dirlog') :
                     dirlog'[i].op = "unlink" /\ dirlog'[i].file = f /\ v = dirlog'[i].lines)
                  <=> \E i \in 1 .. Len(dirlog) :
                     dirlog[i].op = "unlink" /\ dirlog[i].file = f /\ v = dirlog[i].lines
    BY <1>12, <2>1, <2>2
  <2>4. \A f, v : f \in DOMAIN zst' /\ v = zst'[f] <=> (f \in DOMAIN zst /\ v = zst[f]) \/ (f = s /\ v = z)
    BY <1>5, <1>10
  <2> QED
    BY <1>4, <2>3, <2>4, VersionsAre, VersionsNext, SMTT(20)
<1>14. \A v \in Versions(s) : v = plain[s]
  <2>1. \A i \in 1 .. Len(dirlog) : dirlog[i].op = "unlink" => dirlog[i].file # s
    BY <1>1, <1>5 DEF DirectoryHolds
  <2> QED
    BY <1>5, <2>1, VersionsAre
<1>15. /\ \A k \in 0 .. Len(dirlog) : FilesAt(k)' = FilesAt(k) /\ ZstAt(k)' = ZstAt(k)
       /\ \A k : k = Len(dirlog') => FilesAt(k)' = DOMAIN plain /\ ZstAt(k)' = DOMAIN zst \cup {s}
  <2>1. \A k \in 0 .. Len(dirlog) :
          /\ Undone("create", k)' = Undone("create", k) /\ Undone("unlink", k)' = Undone("unlink", k)
          /\ Undone("link", k)' = Undone("link", k) \cup {s}
    <3> TAKE k \in 0 .. Len(dirlog)
    <3>1. \A op : Undone(op, k)' = Undone(op, k) \cup (IF op = "link" THEN {s} ELSE {})
      BY <1>12
    <3>2. "create" # "link" /\ "unlink" # "link"
      OBVIOUS
    <3> QED
      BY <3>1, <3>2, Zenon
  <2>2. \A k : k = Len(dirlog') =>
          Undone("create", k)' = {} /\ Undone("unlink", k)' = {} /\ Undone("link", k)' = {}
    BY <1>12
  <2>3. \A k \in 0 .. Len(dirlog) : FilesAt(k)' = FilesAt(k)
    BY <1>4, <2>1 DEF FilesAt
  <2>4. \A k \in 0 .. Len(dirlog) : ZstAt(k)' = ZstAt(k)
    BY <1>5, <1>10, <2>1 DEF ZstAt
  <2>5. \A k : k = Len(dirlog') => FilesAt(k)' = DOMAIN plain
    BY <1>4, <2>2 DEF FilesAt
  <2>6. \A k : k = Len(dirlog') => ZstAt(k)' = DOMAIN zst \cup {s}
    BY <1>10, <2>2 DEF ZstAt
  <2> QED
    BY <2>3, <2>4, <2>5, <2>6
<1>16. Narrows
  <2> SUFFICES ASSUME NEW f \in Segments(plain, zst), NEW v \in Versions(f)'
               PROVE  v \in Seq(Line) /\ \E w \in Versions(f) : Prefix(v, w)
    BY <1>11 DEF Narrows, Segments
  <2>1. CASE v \in Versions(f)
    <3>1. v \in Seq(Line)
      BY <1>1, <2>1 DEF FilesFormed, WellFormed
    <3>2. Prefix(v, v)
      BY <3>1, LineFacts DEF Prefix
    <3> QED
      BY <2>1, <3>1, <3>2
  <2>2. CASE f = s /\ v = z
    BY <1>6, <1>8, <2>2
  <2> QED
    BY <1>13, <2>1, <2>2
<1>17. AllCommits(plain', zst') = AllCommits(plain, zst)
  <2>1. \A f \in Segments(plain, zst) : Lines(plain', zst', f) = Lines(plain, zst, f)
    BY <1>4, <1>5, <1>10 DEF Lines, Segments
  <2> QED
    BY <1>11, <2>1 DEF AllCommits
<1>18. \A f \in DOMAIN zst' : \A v \in Versions(f)' : Covers(zst'[f], v)
  <2> SUFFICES ASSUME NEW f \in DOMAIN zst', NEW v \in Versions(f)'
               PROVE  Covers(zst'[f], v)
    OBVIOUS
  <2>1. CASE f = s
    <3>1. Covers(z, z)
      BY <1>8, LineFacts DEF Covers
    <3> QED
      BY <1>8, <1>10, <1>13, <1>14, <2>1, <3>1
  <2>2. CASE f # s
    <3>1. f \in DOMAIN zst /\ v \in Versions(f)
      BY <1>10, <1>13, <2>2
    <3> QED
      BY <1>1, <1>10, <3>1 DEF DirectoryHolds
  <2> QED
    BY <2>1, <2>2
<1>19. DirectoryHolds'
  <2>1. ASSUME NEW i \in 1 .. Len(dirlog')
        PROVE  /\ dirlog'[i].file \in Segments(plain', zst')
               /\ dirlog'[i].op = "unlink" =>
                    /\ dirlog'[i].file \notin DOMAIN plain'
                    /\ \A j \in 1 .. Len(dirlog') :
                         dirlog'[j].op = "unlink" /\ dirlog'[j].file = dirlog'[i].file => j = i
    <3>1. CASE i = Len(dirlog')
      BY <1>6, <1>11, <1>12, <3>1
    <3>2. CASE i \in 1 .. Len(dirlog)
      <4>1. dirlog'[i] = dirlog[i]
        BY <1>12, <3>2
      <4>2. \A j \in 1 .. Len(dirlog') : dirlog'[j].op = "unlink" => j \in 1 .. Len(dirlog) /\ dirlog'[j] = dirlog[j]
        BY <1>12
      <4> QED
        BY <1>1, <1>4, <1>11, <3>2, <4>1, <4>2 DEF DirectoryHolds
    <3> QED
      BY <1>12, <3>1, <3>2
  <2>2. ASSUME NEW k \in 0 .. Len(dirlog'), NEW f \in ZstAt(k)'
        PROVE  \E g \in FilesAt(k)' : f < g
    <3>1. CASE k \in 0 .. Len(dirlog)
      BY <1>1, <1>15, <2>2, <3>1 DEF DirectoryHolds
    <3>2. CASE k = Len(dirlog')
      <4>1. f \in DOMAIN zst \/ f = s
        BY <1>15, <2>2, <3>2
      <4>2. f \in DOMAIN zst => \E g \in DOMAIN plain : f < g
        <5>1. Len(dirlog) \in 0 .. Len(dirlog)
          BY <1>12
        <5>2. \A op : Undone(op, Len(dirlog)) = {}
          BY <1>1, NothingUndone DEF DirectoryHolds
        <5>3. FilesAt(Len(dirlog)) = DOMAIN plain /\ ZstAt(Len(dirlog)) = DOMAIN zst
          BY <5>2 DEF FilesAt, ZstAt
        <5> QED
          BY <1>1, <5>1, <5>3 DEF DirectoryHolds
      <4> QED
        BY <1>5, <1>15, <3>2, <4>1, <4>2
    <3> QED
      BY <1>12, <3>1, <3>2
  <2> QED
    BY <1>12, <1>18, <2>1, <2>2 DEF DirectoryHolds, Covers
<1>20. \A f \in Segments(plain, zst) : \A i, line : Durable(f, i, line) => Durable(f, i, line)'
  <2> SUFFICES ASSUME NEW f \in Segments(plain, zst), NEW i, NEW line, Durable(f, i, line)
               PROVE  Durable(f, i, line)'
    OBVIOUS
  <2>1. \A v \in Versions(f)' : At(v, i, line)
    <3>1. f = s => At(z, i, line)
      <4> SUFFICES ASSUME f = s
                   PROVE  At(z, i, line)
        OBVIOUS
      <4>1. At(plain[s], i, line)
        BY <1>6 DEF Durable
      <4>2. i \in 1 .. Len(plain[s]) /\ BatchAt(plain[s], i) /\ plain[s][i] = line
        BY <4>1 DEF At
      <4>3. i <= Len(z) /\ BatchAt(z, i) /\ z[i] = line
        BY <1>8, <4>2 DEF Covers
      <4>4. Len(z) \in Nat /\ i \in Nat /\ i # 0
        BY <1>7, <1>8, <4>2, LineFacts
      <4> QED
        BY <4>3, <4>4 DEF At
    <3> QED
      BY <1>13, <3>1 DEF Durable
  <2>2. \A k \in 0 .. Len(dirlog') : f \in FilesAt(k)' \cup ZstAt(k)'
    <3>1. \A k \in 0 .. Len(dirlog) : f \in FilesAt(k) \cup ZstAt(k)
      BY DEF Durable
    <3>2. f \in DOMAIN plain \cup DOMAIN zst
      BY DEF Segments
    <3> QED
      BY <1>12, <1>15, <3>1, <3>2
  <2>3. f \in DOMAIN plain => i + line.cnt - 1 <= synced[f]
    BY DEF Durable
  <2> QED
    BY <1>4, <2>1, <2>2, <2>3 DEF Durable, At
<1>21. CompressorHolds'
  BY <1>1, <1>2, <1>4, <1>5, <1>9, <1>10 DEF CompressorHolds
<1>22. TypeOK'
  <2>1. \A f \in DOMAIN zst' : zst'[f] \in Seq(Line)
    BY <1>1, <1>8, <1>10 DEF TypeOK
  <2>2. DOMAIN zst' \subseteq Nat \ {0}
    BY <1>1, <1>5, <1>10 DEF TypeOK
  <2> QED
    BY <1>1, <1>4, <1>21, <2>1, <2>2 DEF TypeOK, CompressorHolds
<1>23. used'.faults = 0 => FilesComplete'
  <2> SUFFICES ASSUME used.faults = 0
               PROVE  FilesComplete'
    BY <1>4
  <2>1. FilesComplete
    BY DEF LogInvariant, FaultlessHolds
  <2>2. \A f \in DOMAIN zst' : \A v \in Versions(f)' : Covers(v, zst'[f])
    <3> SUFFICES ASSUME NEW f \in DOMAIN zst', NEW v \in Versions(f)'
                 PROVE  Covers(v, zst'[f])
      OBVIOUS
    <3>1. CASE f = s
      <4>1. Covers(z, z)
        BY <1>8, LineFacts DEF Covers
      <4>2. Covers(plain[s], z)
        <5>1. \A i \in 1 .. Len(z) : i \in 1 .. Len(plain[s]) /\ z[i] = plain[s][i]
                                     /\ (BatchAt(z, i) => BatchAt(plain[s], i))
          BY <1>7, <1>8, PrefixKeepsBatches
        <5> QED
          BY <5>1, <1>7, LineFacts DEF Covers
      <4> QED
        BY <1>10, <1>13, <1>14, <3>1, <4>1, <4>2
    <3>2. CASE f # s
      <4>1. f \in DOMAIN zst /\ v \in Versions(f)
        BY <1>10, <1>13, <3>2
      <4> QED
        BY <1>10, <2>1, <4>1 DEF FilesComplete
    <3> QED
      BY <3>1, <3>2
  <2> QED
    BY <1>4, <2>1, <2>2 DEF FilesComplete, Covers
<1>24. /\ \A f : IsActive(f)' <=> IsActive(f)
       /\ \A f : IsActive(f) => plain'[f] = plain[f]
  BY <1>4 DEF IsActive
<1>25. LogInvariant'
  BY <1>1, <1>4, <1>11, <1>16, <1>17, <1>19, <1>20, <1>21, <1>22, <1>23, <1>24, UsedStays, BesideTheRunner
<1> QED
  BY <1>16, <1>17, <1>25


LEMMA RemoveSourceKeeps ==
  LogInvariant /\ RemoveSource => LogInvariant' /\ Narrows /\ AllCommits(plain, zst) \subseteq AllCommits(plain', zst')
<1> SUFFICES ASSUME LogInvariant, RemoveSource
             PROVE  LogInvariant' /\ Narrows /\ AllCommits(plain, zst) \subseteq AllCommits(plain', zst')
  OBVIOUS
<1>1. TypeOK /\ FilesFormed /\ FilesBounded /\ DirectoryHolds /\ CompressorHolds /\ NumbersHold
  BY DEF LogInvariant
<1>2. PICK s : s = comp.seg
  OBVIOUS
<1>3. PICK p : p = plain[s]
  OBVIOUS
<1>4. /\ plain' = Without(plain, {s}) /\ synced' = Without(synced, {s}) /\ torn' = torn \ {s}
      /\ DirOp("unlink", s, p)
      /\ comp' = [comp EXCEPT !.pc = "removed"]
      /\ UNCHANGED <<zst, cache, writer, mem, acked, wake, used>>
  BY <1>2, <1>3 DEF RemoveSource
<1>5. /\ s \in DOMAIN plain /\ s \in DOMAIN zst /\ s \in Nat \ {0}
      /\ \E g \in DOMAIN plain : s < g
  BY <1>1, <1>2 DEF RemoveSource, CompressorHolds, TypeOK
<1>6. p \in Versions(s) /\ zst[s] \in Versions(s) /\ s \in Segments(plain, zst)
  BY <1>3, <1>5, VersionsAre DEF Segments
<1>7. WellFormed(p, s) /\ p \in Seq(Line) /\ zst[s] \in Seq(Line)
  BY <1>1, <1>6 DEF FilesFormed, WellFormed
<1>8. /\ DOMAIN plain' = DOMAIN plain \ {s} /\ DOMAIN synced' = DOMAIN synced \ {s}
      /\ \A f \in DOMAIN plain' : plain'[f] = plain[f]
      /\ \A f \in DOMAIN synced' : synced'[f] = synced[f]
  BY <1>4 DEF Without
<1>9. Segments(plain', zst') = Segments(plain, zst)
  BY <1>4, <1>5, <1>8 DEF Segments
<1>10. /\ Len(dirlog) \in Nat
       /\ dirlog' \in Seq(Operation) /\ Len(dirlog') = Len(dirlog) + 1
       /\ \A i \in 1 .. Len(dirlog) : dirlog'[i] = dirlog[i]
       /\ \A i \in 1 .. Len(dirlog') : i = Len(dirlog') \/ i \in 1 .. Len(dirlog)
       /\ dirlog'[Len(dirlog')] = [op |-> "unlink", file |-> s, lines |-> p]
       /\ \A k \in 0 .. Len(dirlog') : k \in 0 .. Len(dirlog) \/ k = Len(dirlog')
       /\ \A op, k : k \in 0 .. Len(dirlog) =>
            Undone(op, k)' = Undone(op, k) \cup (IF op = "unlink" THEN {s} ELSE {})
       /\ \A op, k : k = Len(dirlog') => Undone(op, k)' = {}
  BY <1>1, <1>4, <1>5, <1>7, OperationIsLast DEF DirectoryHolds
<1>11. \A i \in 1 .. Len(dirlog) : dirlog[i].op = "unlink" => dirlog[i].file # s
  BY <1>1, <1>5 DEF DirectoryHolds
<1>12. \A f, v : v \in Versions(f)' <=> v \in Versions(f)
  <2> TAKE f, v
  <2> DEFINE Old == \E i \in 1 .. Len(dirlog) :
                      dirlog[i].op = "unlink" /\ dirlog[i].file = f /\ v = dirlog[i].lines
             New == \E i \in 1 .. Len(dirlog') :
                      dirlog'[i].op = "unlink" /\ dirlog'[i].file = f /\ v = dirlog'[i].lines
  <2>1. New <=> Old \/ (f = s /\ v = p)
    <3>1. ASSUME NEW i \in 1 .. Len(dirlog'),
                 dirlog'[i].op = "unlink" /\ dirlog'[i].file = f /\ v = dirlog'[i].lines
          PROVE  Old \/ (f = s /\ v = p)
      BY <1>10, <3>1
    <3>2. ASSUME NEW i \in 1 .. Len(dirlog),
                 dirlog[i].op = "unlink" /\ dirlog[i].file = f /\ v = dirlog[i].lines
          PROVE  New
      <4>1. i \in 1 .. Len(dirlog') /\ dirlog'[i] = dirlog[i]
        BY <1>10
      <4> QED
        BY <3>2, <4>1
    <3>3. ASSUME f = s, v = p
          PROVE  New
      <4>1. Len(dirlog') \in 1 .. Len(dirlog')
        BY <1>10
      <4> QED
        BY <1>10, <3>3, <4>1
    <3> QED
      BY <3>1, <3>2, <3>3
  <2>2. v \in Versions(f) <=> \/ f \in DOMAIN plain /\ v = plain[f]
                              \/ f \in DOMAIN zst /\ v = zst[f]
                              \/ Old
    BY VersionsAre
  <2>3. v \in Versions(f)' <=> \/ f \in DOMAIN plain' /\ v = plain'[f]
                               \/ f \in DOMAIN zst' /\ v = zst'[f]
                               \/ New
    BY VersionsNext
  <2>4. f \in DOMAIN plain /\ v = plain[f] <=> (f \in DOMAIN plain' /\ v = plain'[f]) \/ (f = s /\ v = p)
    BY <1>3, <1>5, <1>8
  <2> HIDE DEF Old, New
  <2> QED
    BY <1>4, <2>1, <2>2, <2>3, <2>4
<1>13. /\ \A k \in 0 .. Len(dirlog) : FilesAt(k)' = FilesAt(k) /\ ZstAt(k)' = ZstAt(k)
       /\ \A k : k = Len(dirlog') => FilesAt(k)' = DOMAIN plain \ {s} /\ ZstAt(k)' = DOMAIN zst
  <2>1. \A k \in 0 .. Len(dirlog) :
          /\ Undone("create", k)' = Undone("create", k) /\ Undone("link", k)' = Undone("link", k)
          /\ Undone("unlink", k)' = Undone("unlink", k) \cup {s}
    <3> TAKE k \in 0 .. Len(dirlog)
    <3>1. \A op : Undone(op, k)' = Undone(op, k) \cup (IF op = "unlink" THEN {s} ELSE {})
      BY <1>10
    <3>2. "create" # "unlink" /\ "unlink" # "link"
      OBVIOUS
    <3> QED
      BY <3>1, <3>2, Zenon
  <2>2. \A k : k = Len(dirlog') =>
          Undone("create", k)' = {} /\ Undone("unlink", k)' = {} /\ Undone("link", k)' = {}
    BY <1>10
  <2>3. \A k \in 0 .. Len(dirlog) : FilesAt(k)' = FilesAt(k)
    BY <1>5, <1>8, <2>1 DEF FilesAt
  <2>4. \A k \in 0 .. Len(dirlog) : ZstAt(k)' = ZstAt(k)
    BY <1>4, <2>1 DEF ZstAt
  <2>5. \A k : k = Len(dirlog') => FilesAt(k)' = DOMAIN plain \ {s}
    BY <1>8, <2>2 DEF FilesAt
  <2>6. \A k : k = Len(dirlog') => ZstAt(k)' = DOMAIN zst
    BY <1>4, <2>2 DEF ZstAt
  <2> QED
    BY <2>3, <2>4, <2>5, <2>6
<1>14. Narrows
  <2> SUFFICES ASSUME NEW f \in Segments(plain, zst), NEW v \in Versions(f)
               PROVE  v \in Seq(Line) /\ Prefix(v, v)
    BY <1>9, <1>12 DEF Narrows, Segments
  <2>1. v \in Seq(Line)
    BY <1>1 DEF FilesFormed, WellFormed
  <2> QED
    BY <2>1, LineFacts DEF Prefix
<1>15. \A c, v, w : v \in Seq(Line) /\ w \in Seq(Line) /\ Covers(w, v) /\ c \in Commits(v) => c \in Commits(w)
  <2> SUFFICES ASSUME NEW c, NEW v \in Seq(Line), NEW w \in Seq(Line), Covers(w, v), c \in Commits(v)
               PROVE  c \in Commits(w)
    OBVIOUS
  <2>1. PICK i \in 1 .. Len(v) : BatchAt(v, i) /\ c = v[i]
    BY CommitsAre
  <2>2. i <= Len(w) /\ BatchAt(w, i) /\ w[i] = c
    BY <2>1 DEF Covers
  <2>3. i \in 1 .. Len(w)
    BY <2>2, LineFacts
  <2> QED
    BY <2>2, <2>3, CommitsAre
<1>16. /\ \A f \in Segments(plain, zst) : f # s => Lines(plain', zst', f) = Lines(plain, zst, f)
       /\ Lines(plain', zst', s) = zst[s] /\ Lines(plain, zst, s) = p
  BY <1>3, <1>4, <1>5, <1>8 DEF Lines
<1>17. AllCommits(plain, zst) \subseteq AllCommits(plain', zst')
  <2>1. Covers(zst[s], p)
    BY <1>1, <1>5, <1>6 DEF DirectoryHolds
  <2>2. Commits(p) \subseteq Commits(zst[s])
    BY <1>7, <1>15, <2>1
  <2> QED
    BY <1>6, <1>9, <1>16, <2>2 DEF AllCommits
<1>18. used'.faults = 0 => AllCommits(plain', zst') \subseteq AllCommits(plain, zst)
  <2> SUFFICES ASSUME used.faults = 0
               PROVE  AllCommits(plain', zst') \subseteq AllCommits(plain, zst)
    BY <1>4
  <2>1. Covers(p, zst[s])
    BY <1>5, <1>6 DEF LogInvariant, FaultlessHolds, FilesComplete
  <2>2. Commits(zst[s]) \subseteq Commits(p)
    BY <1>7, <1>15, <2>1
  <2> QED
    BY <1>6, <1>9, <1>16, <2>2 DEF AllCommits
<1>19. \A f \in DOMAIN plain : f \in Nat
  BY <1>1 DEF TypeOK
<1>20. \A f \in DOMAIN zst : \E g \in DOMAIN plain : g # s /\ f < g
  <2> TAKE f \in DOMAIN zst
  <2>1. Len(dirlog) \in 0 .. Len(dirlog)
    BY <1>10
  <2>2. \A op : Undone(op, Len(dirlog)) = {}
    BY <1>1, NothingUndone DEF DirectoryHolds
  <2>3. FilesAt(Len(dirlog)) = DOMAIN plain /\ ZstAt(Len(dirlog)) = DOMAIN zst
    BY <2>2 DEF FilesAt, ZstAt
  <2>4. PICK g \in DOMAIN plain : f < g
    BY <1>1, <2>1, <2>3 DEF DirectoryHolds
  <2>5. PICK h \in DOMAIN plain : s < h
    BY <1>5
  <2>6. f \in Nat
    BY <1>1 DEF TypeOK
  <2> QED
    BY <1>19, <2>4, <2>5, <2>6
<1>21. DirectoryHolds'
  <2>1. ASSUME NEW i \in 1 .. Len(dirlog')
        PROVE  /\ dirlog'[i].file \in Segments(plain', zst')
               /\ dirlog'[i].op = "unlink" =>
                    /\ dirlog'[i].file \notin DOMAIN plain'
                    /\ \A j \in 1 .. Len(dirlog') :
                         dirlog'[j].op = "unlink" /\ dirlog'[j].file = dirlog'[i].file => j = i
    <3>1. CASE i = Len(dirlog')
      <4>1. dirlog'[i].file = s
        BY <1>10, <3>1
      <4>2. \A j \in 1 .. Len(dirlog') :
              dirlog'[j].op = "unlink" /\ dirlog'[j].file = s => j = i
        BY <1>10, <1>11, <3>1
      <4> QED
        BY <1>6, <1>8, <1>9, <4>1, <4>2
    <3>2. CASE i \in 1 .. Len(dirlog)
      <4>1. dirlog'[i] = dirlog[i]
        BY <1>10, <3>2
      <4>2. dirlog[i].op = "unlink" => dirlog[i].file # s
        BY <1>11, <3>2
      <4>3. \A j \in 1 .. Len(dirlog') : \/ j \in 1 .. Len(dirlog) /\ dirlog'[j] = dirlog[j]
                                         \/ dirlog'[j].file = s
        BY <1>10
      <4>4. /\ dirlog[i].file \in Segments(plain, zst)
            /\ dirlog[i].op = "unlink" =>
                    /\ dirlog[i].file \notin DOMAIN plain
                    /\ \A j \in 1 .. Len(dirlog) :
                         dirlog[j].op = "unlink" /\ dirlog[j].file = dirlog[i].file => j = i
        BY <1>1, <3>2 DEF DirectoryHolds
      <4> QED
        BY <1>8, <1>9, <4>1, <4>2, <4>3, <4>4
    <3> QED
      BY <1>10, <3>1, <3>2
  <2>2. ASSUME NEW k \in 0 .. Len(dirlog'), NEW f \in ZstAt(k)'
        PROVE  \E g \in FilesAt(k)' : f < g
    <3>1. CASE k \in 0 .. Len(dirlog)
      BY <1>1, <1>13, <2>2, <3>1 DEF DirectoryHolds
    <3>2. CASE k = Len(dirlog')
      BY <1>13, <1>20, <2>2, <3>2
    <3> QED
      BY <1>10, <3>1, <3>2
  <2>3. \A f \in DOMAIN zst' : \A v \in Versions(f)' : Covers(zst'[f], v)
    BY <1>1, <1>4, <1>12 DEF DirectoryHolds
  <2> QED
    BY <1>10, <2>1, <2>2, <2>3 DEF DirectoryHolds, Covers
<1>22. \A f \in Segments(plain, zst) : \A i, line : Durable(f, i, line) => Durable(f, i, line)'
  <2> SUFFICES ASSUME NEW f \in Segments(plain, zst), NEW i, NEW line, Durable(f, i, line)
               PROVE  Durable(f, i, line)'
    OBVIOUS
  <2>1. \A v \in Versions(f)' : At(v, i, line)
    BY <1>12 DEF Durable
  <2>2. \A k \in 0 .. Len(dirlog') : f \in FilesAt(k)' \cup ZstAt(k)'
    <3>1. \A k \in 0 .. Len(dirlog) : f \in FilesAt(k) \cup ZstAt(k)
      BY DEF Durable
    <3>2. f \in (DOMAIN plain \ {s}) \cup DOMAIN zst
      BY <1>5 DEF Segments
    <3> QED
      BY <1>10, <1>13, <3>1, <3>2
  <2>3. f \in DOMAIN plain' => i + line.cnt - 1 <= synced'[f]
    <3>1. f \in DOMAIN plain => i + line.cnt - 1 <= synced[f]
      BY DEF Durable
    <3> QED
      BY <1>1, <1>8, <3>1 DEF TypeOK
  <2> QED
    BY <2>1, <2>2, <2>3 DEF Durable, At
<1>23. CompressorHolds'
  BY <1>1, <1>4 DEF CompressorHolds
<1>24. TypeOK'
  <2>1. \A f \in DOMAIN plain' : f \in DOMAIN plain /\ f \in DOMAIN synced' /\ plain'[f] = plain[f] /\ synced'[f] = synced[f]
    BY <1>1, <1>8 DEF TypeOK
  <2>2. DOMAIN synced' = DOMAIN plain' /\ torn' \subseteq DOMAIN plain'
    BY <1>1, <1>4, <1>8 DEF TypeOK
  <2>3. \A f \in DOMAIN plain' : plain'[f] \in Seq(Line) /\ synced'[f] \in 0 .. Len(plain'[f])
    BY <1>1, <2>1 DEF TypeOK
  <2>4. DOMAIN plain' \subseteq Nat \ {0}
    BY <1>1, <1>8 DEF TypeOK
  <2> QED
    BY <1>1, <1>4, <1>23, <2>2, <2>3, <2>4 DEF TypeOK, CompressorHolds
<1>25. used'.faults = 0 => FilesComplete'
  <2> SUFFICES ASSUME used.faults = 0
               PROVE  FilesComplete'
    BY <1>4
  <2>1. FilesComplete
    BY DEF LogInvariant, FaultlessHolds
  <2>2. \A f \in DOMAIN plain' : f \in DOMAIN plain /\ plain'[f] = plain[f] /\ synced'[f] = synced[f]
    BY <1>1, <1>8 DEF TypeOK
  <2>3. \A f \in DOMAIN zst' : \A v \in Versions(f)' : Covers(v, zst'[f])
    BY <1>4, <1>12, <2>1 DEF FilesComplete
  <2>4. \A f \in DOMAIN plain' : synced'[f] = Len(plain'[f]) \/ (writer'.pc = "written" /\ writer'.path = f)
    BY <1>4, <2>1, <2>2 DEF FilesComplete
  <2> QED
    BY <2>3, <2>4 DEF FilesComplete, Covers
<1>26. \A f : IsActive(f)' <=> IsActive(f)
  <2> TAKE f
  <2>1. PICK h \in DOMAIN plain : s < h
    BY <1>5
  <2>2. ASSUME IsActive(f)
        PROVE  IsActive(f)'
    <3>1. f \in DOMAIN plain /\ f # s
      BY <1>5, <1>19, <2>1, <2>2 DEF IsActive
    <3> QED
      BY <1>8, <2>2, <3>1 DEF IsActive
  <2>3. ASSUME IsActive(f)'
        PROVE  IsActive(f)
    <3>1. f \in DOMAIN plain /\ \A g \in DOMAIN plain : g # s => g <= f
      BY <1>8, <2>3 DEF IsActive
    <3>2. h # s /\ s <= f
      BY <1>5, <1>19, <2>1, <3>1
    <3> QED
      BY <3>1, <3>2 DEF IsActive
  <2> QED
    BY <2>2, <2>3
<1>27. \A f : IsActive(f) => plain'[f] = plain[f]
  BY <1>8, <1>26 DEF IsActive
<1>28. LogInvariant'
  BY <1>1, <1>4, <1>9, <1>14, <1>17, <1>18, <1>21, <1>22, <1>23, <1>24, <1>25, <1>26, <1>27, UsedStays, BesideTheRunner
<1> QED
  BY <1>14, <1>17, <1>28
-----------------------------------------------------------------------------
(* The runner. *)

\* Recovery has everything of the log, unless the last segment lost the
\* snapshot it begins with.
LEMMA RecoverKeeps == LogInvariant /\ Recover => LogInvariant'
<1> SUFFICES ASSUME LogInvariant, Recover
             PROVE  LogInvariant'
  OBVIOUS
<1>1. TypeOK /\ FilesFormed /\ FilesBounded /\ DirectoryHolds /\ SnapshotsHold /\ CompressorHolds /\ NumbersHold
  BY DEF LogInvariant
<1>2. /\ writer = Down /\ writer' = Ready
      /\ UNCHANGED <<plain, torn, synced, zst, dirlog, cache, acked, comp, wake, used>>
  BY DEF Recover, disk
<1>3. writer.pc = "down" /\ writer'.pc = "ready" /\ cache = None
  BY <1>2 DEF Down, Ready, LogInvariant, WriterHolds
<1>4. /\ FilesFormed' /\ FilesBounded' /\ DirectoryHolds'
      /\ Segments(plain', zst') = Segments(plain, zst)
      /\ \A f : Versions(f)' = Versions(f)
      /\ \A f : IsActive(f)' <=> IsActive(f)
      /\ AllCommits(plain', zst') = AllCommits(plain, zst)
      /\ LinesThere' = LinesThere /\ CommitsThere' = CommitsThere
      /\ (Stuck' <=> Stuck)
      /\ \A f, i, line : Durable(f, i, line)' <=> Durable(f, i, line)
  BY <1>1, <1>2, FilesStay, NarrowsKeeps
<1>5. \A d \in AllCommits(plain, zst) : d \in CommitsThere /\ d \in LinesThere /\ d \in Line
  BY <1>1, ReadIsAVersion, ThereAre
<1>6. /\ \A d \in AllCommits(plain, zst) : Brings(d) \subseteq mem'
      /\ \A id \in mem' : \E d \in AllCommits(plain, zst) : id \in Brings(d)
  <2>1. CASE Readable(plain, zst) /\ mem' = Recovered(plain, zst, Ids)
    <3>1. Segments(plain, zst) # {}
      BY <2>1 DEF Readable
    <3> QED
      BY <1>1, <2>1, <3>1, RecoveredIs
  <2>2. CASE AllCommits(plain, zst) = {} /\ mem' = {}
    BY <2>2
  <2> QED
    BY <2>1, <2>2 DEF Recover
<1>7. mem' \in SUBSET Ids
  <2> SUFFICES ASSUME NEW id \in mem'
               PROVE  id \in Ids
    OBVIOUS
  <2>1. PICK d \in AllCommits(plain, zst) : id \in Brings(d)
    BY <1>6
  <2>2. d.id \in Ids /\ d.state \subseteq Ids
    BY <1>5 DEF Line
  <2> QED
    BY <2>1, <2>2 DEF Brings
<1>8. ASSUME ~Stuck, NEW d \in CommitsThere
      PROVE  Brings(d) \subseteq mem'
  <2>1. PICK f \in Segments(plain, zst) : \E v \in Versions(f) : \E i \in 1 .. Len(v) : BatchAt(v, i) /\ d = v[i]
    BY ThereAre
  <2>2. PICK v \in Versions(f) : \E i \in 1 .. Len(v) : BatchAt(v, i) /\ d = v[i]
    BY <2>1
  <2>3. PICK i \in 1 .. Len(v) : BatchAt(v, i) /\ d = v[i]
    BY <2>2
  <2>4. PICK a : IsActive(a)
    BY <1>1, ActiveIsLatest
  <2>5. /\ Latest(plain, zst, a) /\ a \in DOMAIN plain /\ a \in Segments(plain, zst)
        /\ Lines(plain, zst, a) = plain[a] /\ a \in Nat
        /\ \A w \in Versions(a) : w = plain[a]
    BY <1>1, <2>4, ActiveIsLatest, LatestIs DEF IsActive
  <2>6. WellFormed(plain[a], a) /\ plain[a] \in Seq(Line)
    BY <1>1, <2>5, ReadIsAVersion
  <2>7. CASE f = a
    <3>1. v = plain[a]
      BY <2>5, <2>7
    <3>2. d \in AllCommits(plain, zst)
      BY <2>3, <2>5, <3>1 DEF AllCommits, Commits
    <3> QED
      BY <1>6, <3>2
  <2>8. CASE f # a
    <3>1. f < a /\ f \in Nat /\ f # 0
      BY <1>1, <2>5, <2>8 DEF Latest, Segments, TypeOK
    <3>2. plain[a] # <<>> /\ a # 1
      BY <1>8, <2>4, <2>5, <3>1 DEF Stuck
    <3> DEFINE c == plain[a][1]
    <3>3. c.cnt = 1 /\ c.kind = "snapshot"
      BY <2>6, <3>2 DEF WellFormed
    <3>4. 1 \in 1 .. Len(plain[a]) /\ c \in Line /\ c.seq \in Nat /\ c.idx \in Nat
      BY <2>6, <3>2, LineFacts
    <3>5. a <= c.seq /\ c.idx < 1
      BY <2>6, <3>3, <3>4 DEF WellFormed
    <3>6. BatchAt(plain[a], 1)
      <4>1. Len(plain[a]) \in Nat /\ Len(plain[a]) >= 1 /\ c.idx = 0
        BY <2>6, <3>4, <3>5, LineFacts
      <4>2. \A k \in 0 .. 1 - 1 : k = 0 /\ plain[a][1 + k] = c /\ c.seq = c.seq + k
        BY <3>4
      <4>3. 1 .. 1 - 1 = {}
        OBVIOUS
      <4> HIDE DEF c
      <4>4. plain[a][1] = c
        BY DEF c
      <4> QED
        BY <3>3, <4>1, <4>2, <4>3, <4>4 DEF BatchAt
    <3>7. c \in AllCommits(plain, zst)
      BY <2>5, <3>4, <3>6 DEF AllCommits, Commits
    <3>8. d.seq < a /\ d.seq \in Nat
      <4>1. WellFormed(v, f) /\ \A j \in 1 .. Len(v) : v[j].seq < a
        BY <1>1, <2>5, <3>1 DEF FilesFormed
      <4>2. v \in Seq(Line)
        BY <4>1 DEF WellFormed
      <4> QED
        BY <2>3, <4>1, <4>2, LineFacts
    <3>9. d.seq <= c.seq
      BY <2>5, <3>4, <3>5, <3>8
    <3>10. Brings(d) \subseteq c.state
      BY <1>1, <1>5, <3>3, <3>7, <3>9 DEF SnapshotsHold
    <3>11. c.state \subseteq mem'
      BY <1>6, <3>3, <3>7 DEF Brings
    <3> QED
      BY <3>10, <3>11
  <2> QED
    BY <2>7, <2>8
<1>9. TypeOK'
  BY <1>1, <1>2, <1>3, <1>7 DEF TypeOK
<1>10. SnapshotsHold'
  BY <1>1, <1>4 DEF SnapshotsHold, Brings
<1>11. AckedHold'
  <2>1. \A f \in Segments(plain, zst) : \A i, line :
          Durable(f, i, line) => f \in Segments(plain, zst)' /\ Durable(f, i, line)'
    BY <1>4 DEF Segments
  <2> QED
    BY <1>1, <1>2, <1>6, <2>1, PlacesStay DEF LogInvariant
<1>12. MemoryHolds'
  <2>1. /\ mem' \in SUBSET Ids
        /\ \A id \in mem' : \E d \in AllCommits(plain', zst') : id \in Brings(d)
        /\ ~Stuck' => \A d \in CommitsThere' : Brings(d) \subseteq mem'
    BY <1>4, <1>6, <1>7, <1>8
  <2> QED
    BY <2>1 DEF MemoryHolds, Brings
<1>13. NumbersHold'
  <2>1. Given' = Given
    BY <1>2, <1>3 DEF Given
  <2> QED
    BY <1>1, <1>2, <1>4, <2>1 DEF NumbersHold, Brings
<1>14. FaultlessHolds'
  <2> SUFFICES ASSUME used.faults = 0
               PROVE  /\ FilesComplete'
                      /\ \A d \in AllCommits(plain', zst') : Brings(d) \subseteq mem'
    BY <1>2 DEF FaultlessHolds, Brings
  <2>1. FilesComplete
    BY DEF LogInvariant, FaultlessHolds
  <2>2. FilesComplete'
    BY <1>2, <1>3, <1>4, <2>1 DEF FilesComplete, Covers
  <2> QED
    BY <1>4, <1>6, <2>2
<1>15. WriterHolds'
  <2>1. CacheMatchesLog'
    BY <1>2, <1>3 DEF CacheMatchesLog
  <2>2. OpenedHolds' /\ WrittenHolds'
    BY <1>3 DEF OpenedHolds, WrittenHolds
  <2> QED
    BY <1>2, <1>3, <2>1, <2>2 DEF WriterHolds
<1>16. CompressorHolds'
  BY <1>1, <1>2 DEF CompressorHolds
<1> QED
  BY <1>4, <1>9, <1>10, <1>11, <1>12, <1>13, <1>14, <1>15, <1>16 DEF LogInvariant

\* A failed append that wrote nothing leaves the log to be recovered.
LEMMA GivingUpKeeps ==
  ASSUME LogInvariant, FailAppend, UNCHANGED <<plain, synced, zst, dirlog, acked, comp, wake>>,
         torn' \subseteq torn, used' \in [appends : 0 .. MaxAppends, crashes : Nat, faults : Nat],
         used.appends <= used'.appends,
         used'.faults = 0 => used.faults = 0 /\ writer.pc # "written"
  PROVE  LogInvariant'
<1>1. TypeOK /\ FilesFormed /\ FilesBounded /\ DirectoryHolds /\ SnapshotsHold /\ CompressorHolds /\ NumbersHold
  BY DEF LogInvariant
<1>2. /\ writer' = Down /\ cache' = None /\ mem' = None /\ writer'.pc = "down"
  BY DEF FailAppend, Down
<1>3. /\ FilesFormed' /\ FilesBounded' /\ DirectoryHolds'
      /\ Segments(plain', zst') = Segments(plain, zst)
      /\ \A f : Versions(f)' = Versions(f)
      /\ LinesThere' = LinesThere /\ CommitsThere' = CommitsThere
      /\ \A f, i, line : Durable(f, i, line)' <=> Durable(f, i, line)
  BY <1>1, FilesStay, NarrowsKeeps
<1>4. TypeOK'
  <2>1. torn' \subseteq DOMAIN plain'
    BY <1>1 DEF TypeOK
  <2>2. mem' \in (SUBSET Ids) \cup {None} /\ cache' \in Nat \cup {None}
    BY <1>2
  <2>3. writer'.pc \in {"down", "ready", "opened", "written"}
    BY <1>2
  <2> QED
    BY <1>1, <2>1, <2>2, <2>3 DEF TypeOK
<1>5. SnapshotsHold'
  BY <1>1, <1>3 DEF SnapshotsHold, Brings
<1>6. AckedHold'
  <2>1. \A f \in Segments(plain, zst) : \A i, line :
          Durable(f, i, line) => f \in Segments(plain, zst)' /\ Durable(f, i, line)'
    BY <1>3 DEF Segments
  <2> QED
    BY <1>1, <1>2, <2>1, PlacesStay DEF LogInvariant
<1>7. MemoryHolds'
  BY <1>2 DEF MemoryHolds
<1>8. NumbersHold'
  <2>1. Given \in Int /\ Given <= used.appends /\ Given' = used'.appends /\ used.appends \in Int /\ used'.appends \in Int
    BY <1>1, <1>2, BoundsAssumption DEF Given, NumbersHold
  <2>2. \A c \in LinesThere : c \in Line
    BY <1>1, ReadIsAVersion
  <2>3. \A c \in LinesThere : c.id <= Given' /\ c.state \subseteq 1 .. Given'
    <3> SUFFICES ASSUME NEW c \in LinesThere
                 PROVE  c.id <= Given' /\ c.state \subseteq 1 .. Given'
      OBVIOUS
    <3>1. c.id \in Int /\ c.id <= Given /\ c.state \subseteq 1 .. Given
      BY <1>1, <2>2, BoundsAssumption DEF NumbersHold, Line, Ids
    <3> QED
      BY <2>1, <3>1
  <2> QED
    BY <1>1, <1>3, <2>3 DEF NumbersHold, Brings
<1>9. FaultlessHolds'
  <2> SUFFICES ASSUME used'.faults = 0
               PROVE  FilesComplete'
    BY <1>2 DEF FaultlessHolds
  <2>1. FilesComplete /\ writer.pc # "written"
    BY DEF LogInvariant, FaultlessHolds
  <2> QED
    BY <1>3, <2>1 DEF FilesComplete, Covers
<1>10. WriterHolds'
  <2>1. CacheMatchesLog'
    BY <1>2 DEF CacheMatchesLog
  <2>2. OpenedHolds' /\ WrittenHolds'
    BY <1>2 DEF OpenedHolds, WrittenHolds
  <2> QED
    BY <1>2, <2>1, <2>2 DEF WriterHolds
<1>11. CompressorHolds'
  BY <1>1 DEF CompressorHolds
<1> QED
  BY <1>3, <1>4, <1>5, <1>6, <1>7, <1>8, <1>9, <1>10, <1>11 DEF LogInvariant

LEMMA SyncFailsKeeps == LogInvariant /\ SyncFails => LogInvariant'
<1> SUFFICES ASSUME LogInvariant, SyncFails
             PROVE  LogInvariant'
  OBVIOUS
<1>1. /\ FailAppend /\ UNCHANGED <<plain, torn, synced, zst, dirlog, acked, comp, wake>>
      /\ Spend("faults")
  BY DEF SyncFails, disk
<1>2. /\ used' \in [appends : 0 .. MaxAppends, crashes : Nat, faults : Nat]
      /\ used'.appends = used.appends /\ used'.faults # 0 /\ used.appends \in 0 .. MaxAppends
  BY <1>1, UsedStays DEF LogInvariant
<1>3. used.appends <= used'.appends
  BY <1>2, BoundsAssumption
<1> QED
  BY <1>1, <1>2, <1>3, GivingUpKeeps

\* The number the log goes on from.
LEMMA LastSequenceIs ==
  ASSUME TypeOK, FilesBounded, FilesFormed, DirectoryHolds,
         NEW base, base = LastSequence(plain, zst), base # None
  PROVE  /\ base \in Nat /\ ~Stuck
         /\ \A f \in Segments(plain, zst) : f <= base + 1
         /\ \A c \in LinesThere : c.seq < base + 1
         /\ HasActive /\ plain[Active] # <<>> => \A f \in Segments(plain, zst) : f <= base
         /\ Segments(plain, zst) = {} => base = 0
<1>1. CASE Segments(plain, zst) = {}
  <2>1. base = 0
    BY <1>1 DEF LastSequence
  <2>2. ~Stuck /\ ~HasActive /\ LinesThere = {}
    BY <1>1, ThereAre DEF Stuck, IsActive, HasActive, Segments
  <2> QED
    BY <1>1, <2>1, <2>2
<1>2. CASE Segments(plain, zst) # {}
  <2>1. PICK a : IsActive(a)
    BY <1>2, ActiveIsLatest
  <2>2. /\ Latest(plain, zst, a) /\ a \in DOMAIN plain /\ a \in Segments(plain, zst)
        /\ Lines(plain, zst, a) = plain[a] /\ a \in Nat /\ Active = a
        /\ \A v \in Versions(a) : v = plain[a]
    BY <2>1, ActiveIsLatest, LatestIs DEF IsActive
  <2>3. base = IF plain[a] # <<>> THEN Last(plain[a]).seq ELSE IF a = 1 THEN 0 ELSE None
    BY <2>2, LatestIs
  <2>4. WellFormed(plain[a], a) /\ plain[a] \in Seq(Line)
    BY <2>2, ReadIsAVersion
  <2>5. plain[a] # <<>> \/ a = 1
    BY <2>3
  <2>6. ~Stuck
    <3> SUFFICES ASSUME NEW f \in DOMAIN plain, IsActive(f), f # 1 /\ plain[f] = <<>>
                 PROVE  FALSE
      BY DEF Stuck
    <3>1. f \in Nat /\ f <= a /\ a <= f
      BY <2>1, <2>2 DEF IsActive, TypeOK
    <3>2. f = a
      BY <2>2, <3>1
    <3> QED
      BY <2>5, <3>2
  <2>7. \A f \in Segments(plain, zst) : f \in Nat /\ f <= a
    BY <2>2 DEF Latest, Segments, TypeOK
  <2> DEFINE n == Len(plain[a])
  <2>8. plain[a] # <<>> => n \in 1 .. n /\ base = plain[a][n].seq /\ base \in Nat /\ a <= base
    <3> SUFFICES ASSUME plain[a] # <<>>
                 PROVE  n \in 1 .. n /\ base = plain[a][n].seq /\ base \in Nat /\ a <= base
      OBVIOUS
    <3>1. n \in 1 .. n /\ base = plain[a][n].seq
      BY <2>3, <2>4, LineFacts DEF Last
    <3>2. base \in Nat
      BY <2>4, <3>1, LineFacts
    <3>3. a <= plain[a][n].seq
      BY <2>4, <3>1 DEF WellFormed
    <3> QED
      BY <3>1, <3>2, <3>3
  <2>9. plain[a] = <<>> => a = 1 /\ base = 0 /\ n = 0
    BY <2>3, <2>4, <2>5, LineFacts
  <2>10. ASSUME NEW c \in LinesThere
         PROVE  c.seq < base + 1
    <3>1. PICK f \in Segments(plain, zst) : \E v \in Versions(f) : \E i \in 1 .. Len(v) : c = v[i]
      BY ThereAre
    <3>2. PICK v \in Versions(f) : \E i \in 1 .. Len(v) : c = v[i]
      BY <3>1
    <3>3. PICK i \in 1 .. Len(v) : c = v[i]
      BY <3>2
    <3>4. v \in Seq(Line) /\ c.seq \in Nat /\ Len(v) \in Nat
      BY <3>3, LineFacts DEF FilesFormed, WellFormed
    <3>5. CASE f = a
      <4>1. v = plain[a]
        BY <2>2, <3>5
      <4>2. plain[a] # <<>>
        BY <3>4, <4>1, LineFacts
      <4>3. i = n \/ i \in 1 .. n - 1
        BY <3>4, <4>1
      <4>4. i \in 1 .. n - 1 => plain[a][i].seq < plain[a][n].seq
        BY <2>4, <2>8, <4>2 DEF WellFormed
      <4>5. c.seq <= base
        BY <2>8, <3>3, <3>4, <4>1, <4>2, <4>3, <4>4
      <4> QED
        BY <2>8, <3>4, <4>2, <4>5
    <3>6. CASE f # a
      <4>1. f < a
        BY <2>2, <2>7, <3>6
      <4>2. c.seq < a
        BY <2>2, <3>3, <4>1 DEF FilesFormed
      <4> QED
        BY <2>2, <2>8, <2>9, <3>4, <4>2
    <3> QED
      BY <3>5, <3>6
  <2>11. base \in Nat /\ a <= base + 1
    BY <2>2, <2>8, <2>9
  <2>12. \A f \in Segments(plain, zst) : f <= base + 1
    BY <2>2, <2>7, <2>11
  <2>13. plain[a] # <<>> => \A f \in Segments(plain, zst) : f <= base
    BY <2>2, <2>7, <2>8
  <2> QED
    BY <1>2, <2>2, <2>6, <2>10, <2>11, <2>12, <2>13
<1> QED
  BY <1>1, <1>2

LEMMA OpenAppendKeeps ==
  ASSUME LogInvariant, NEW kind \in Kinds, NEW cnt \in 1 .. MaxBatch, OpenAppend(kind, cnt)
  PROVE  LogInvariant'
<1>1. TypeOK /\ FilesFormed /\ FilesBounded /\ DirectoryHolds /\ SnapshotsHold /\ CompressorHolds /\ NumbersHold
  BY DEF LogInvariant
<1>2. PICK base : base = IF cache # None THEN cache ELSE LastSequence(plain, zst)
  OBVIOUS
<1>3. PICK cut : cut = (kind = "snapshot" /\ HasActive /\ Len(plain[Active]) >= Target)
  OBVIOUS
<1>4. PICK path : path = IF HasActive /\ ~cut THEN Active ELSE base + 1
  OBVIOUS
<1>5. PICK b : b = [i \in 1 .. cnt |->
                     [seq |-> base + i, idx |-> i - 1, cnt |-> cnt,
                      id |-> used.appends + 1, kind |-> kind,
                      state |-> IF kind = "snapshot" THEN mem ELSE {}]]
  OBVIOUS
<1>6. /\ writer = Ready /\ used.appends < MaxAppends /\ Spend("appends") /\ torn' = RepairTail
      /\ kind = "snapshot" => cnt = 1
      /\ IF base = None THEN FailAppend
         ELSE writer' = [pc |-> "opened", path |-> path, batch |-> b] /\ UNCHANGED <<cache, mem>>
      /\ UNCHANGED <<plain, synced, zst, dirlog, acked, comp, wake>>
  BY <1>2, <1>3, <1>4, <1>5 DEF OpenAppend
<1>7. writer.pc = "ready"
  BY <1>6 DEF Ready
<1>8. /\ used' \in [appends : 0 .. MaxAppends, crashes : Nat, faults : Nat]
      /\ used.appends \in Nat /\ used'.appends = used.appends + 1 /\ used'.faults = used.faults
      /\ MaxAppends \in Nat /\ used'.appends \in Ids
  <2>1. used \in [appends : 0 .. MaxAppends, crashes : Nat, faults : Nat] /\ MaxAppends \in Nat
    BY <1>1, BoundsAssumption DEF NumbersHold
  <2>2. used' = [used EXCEPT !.appends = used.appends + 1]
    BY <1>6 DEF Spend
  <2>3. used.appends \in Nat /\ used.appends + 1 \in 0 .. MaxAppends /\ used.appends + 1 \in 1 .. MaxAppends
    BY <1>6, <2>1
  <2> QED
    BY <2>1, <2>2, <2>3 DEF Ids
<1>9. torn' \subseteq torn
  BY <1>6 DEF RepairTail
<1>10. CASE base = None
  <2>1. FailAppend /\ used.appends <= used'.appends /\ (used'.faults = 0 => used.faults = 0 /\ writer.pc # "written")
    BY <1>6, <1>7, <1>8, <1>10
  <2> QED
    BY <1>6, <1>8, <1>9, <2>1, GivingUpKeeps
<1>11. CASE base # None
  <2>1. writer' = [pc |-> "opened", path |-> path, batch |-> b] /\ cache' = cache /\ mem' = mem
    BY <1>6, <1>11
  <2>2. writer'.pc = "opened" /\ writer'.path = path /\ writer'.batch = b
    BY <2>1
  <2>3. base = LastSequence(plain, zst)
    BY <1>2, <1>6 DEF LogInvariant, WriterHolds, CacheMatchesLog
  <2>4. /\ base \in Nat /\ ~Stuck
        /\ \A f \in Segments(plain, zst) : f <= base + 1
        /\ \A c \in LinesThere : c.seq < base + 1
        /\ HasActive /\ plain[Active] # <<>> => \A f \in Segments(plain, zst) : f <= base
        /\ Segments(plain, zst) = {} => base = 0
    BY <1>1, <1>11, <2>3, LastSequenceIs
  <2>5. mem \in SUBSET Ids /\ \A d \in CommitsThere : Brings(d) \subseteq mem
    BY <1>7, <2>4 DEF LogInvariant, MemoryHolds, InFlight
  <2>6. cnt \in Nat /\ cnt # 0 /\ MaxBatch \in Nat
    BY BoundsAssumption
  <2>7. \A i \in 1 .. cnt : /\ b[i].seq = base + i /\ b[i].idx = i - 1 /\ b[i].cnt = cnt
                            /\ b[i].id = used'.appends /\ b[i].kind = kind
                            /\ b[i].state = IF kind = "snapshot" THEN mem ELSE {}
                            /\ b[i] \in Line
    <3> TAKE i \in 1 .. cnt
    <3>1. b[i] = [seq |-> base + i, idx |-> i - 1, cnt |-> cnt,
                  id |-> used.appends + 1, kind |-> kind,
                  state |-> IF kind = "snapshot" THEN mem ELSE {}]
      BY <1>5
    <3>2. base + i \in Nat /\ i - 1 \in Nat /\ used.appends + 1 \in Ids
      BY <1>8, <2>4
    <3>3. (IF kind = "snapshot" THEN mem ELSE {}) \in SUBSET Ids
      BY <2>5
    <3> QED
      BY <1>8, <3>1, <3>2, <3>3 DEF Line
  <2>8. Len(b) = cnt /\ b \in Seq(Line) /\ b # <<>>
    <3>1. /\ DOMAIN b = 1 .. cnt /\ b \in [1 .. cnt -> Line]
      BY <1>5, <2>7
    <3>2. b \in Seq(Line)
      BY <2>6, <3>1, SeqDef
    <3>3. Len(b) = cnt
      BY <2>6, <3>1, <3>2, LenProperties
    <3> QED
      BY <2>6, <3>2, <3>3, EmptySeq
  <2>9. /\ FilesFormed' /\ FilesBounded' /\ DirectoryHolds'
        /\ Segments(plain', zst') = Segments(plain, zst)
        /\ \A f : Versions(f)' = Versions(f)
        /\ \A f : IsActive(f)' <=> IsActive(f)
        /\ AllCommits(plain', zst') = AllCommits(plain, zst)
        /\ LinesThere' = LinesThere /\ CommitsThere' = CommitsThere
        /\ (Stuck' <=> Stuck)
        /\ \A f, i, line : Durable(f, i, line)' <=> Durable(f, i, line)
    BY <1>1, <1>6, FilesStay, NarrowsKeeps
  <2>10. HasActive <=> Segments(plain, zst) # {}
    BY <1>1, ActiveIsLatest
  <2>11. /\ path \notin torn' /\ path \in Nat \ {0}
         /\ \/ IsActive(path)
            \/ /\ path = b[1].seq /\ path \notin Segments(plain, zst)
               /\ path # 1 => kind = "snapshot"
    <3>1. CASE HasActive /\ ~cut
      <4>1. path = Active /\ IsActive(path)
        BY <1>1, <1>4, <3>1, ActiveIsLatest
      <4>2. path \in Nat \ {0}
        BY <1>1, <4>1 DEF IsActive, TypeOK
      <4>3. path \notin torn'
        BY <1>6, <3>1, <4>1 DEF RepairTail
      <4> QED
        BY <4>1, <4>2, <4>3
    <3>2. CASE ~(HasActive /\ ~cut)
      <4>1. path = base + 1 /\ b[1].seq = base + 1 /\ path \in Nat \ {0}
        BY <1>4, <2>4, <2>6, <2>7, <3>2
      <4>2. ASSUME HasActive
            PROVE  kind = "snapshot" /\ plain[Active] # <<>>
        <5>1. kind = "snapshot" /\ Len(plain[Active]) >= Target /\ Target \in Nat /\ Target # 0
          BY <1>3, <3>2, <4>2, BoundsAssumption
        <5>2. IsActive(Active)
          BY <1>1, <4>2, ActiveIsLatest
        <5>3. plain[Active] \in Seq(Line)
          BY <1>1, <5>2 DEF IsActive, TypeOK
        <5> QED
          BY <5>1, <5>3, LineFacts
      <4>3. path \notin Segments(plain, zst)
        <5>1. \A f \in Segments(plain, zst) : f <= base
          BY <2>4, <2>10, <4>2
        <5> QED
          BY <2>4, <4>1, <5>1
      <4>4. path # 1 => kind = "snapshot"
        BY <2>4, <2>10, <4>1, <4>2
      <4>5. path \notin torn'
        BY <1>1, <1>9, <4>3 DEF TypeOK, Segments
      <4> QED
        BY <4>1, <4>3, <4>4, <4>5
    <3> QED
      BY <3>1, <3>2
  <2>12. BatchFormed(b)'
    <3>1. \A i \in 1 .. Len(b) :
            /\ b[i].cnt = Len(b) /\ b[i].idx = i - 1
            /\ b[i].seq = b[1].seq + i - 1
            /\ b[i].id = used'.appends
            /\ b[i].kind = b[1].kind
            /\ b[i].state \subseteq mem'
            /\ b[i].kind = "snapshot" => b[i].state = mem' /\ b[i].cnt = 1
      <4> TAKE i \in 1 .. Len(b)
      <4>1. i \in 1 .. cnt /\ 1 \in 1 .. cnt
        BY <2>6, <2>8
      <4>2. b[i].seq = base + i /\ b[1].seq = base + 1 /\ base + i = (base + 1) + i - 1
        BY <2>4, <2>6, <2>7, <4>1
      <4>3. b[i].kind = kind /\ b[1].kind = kind /\ b[i].idx = i - 1 /\ b[i].cnt = cnt /\ b[i].id = used'.appends
        BY <2>7, <4>1
      <4>4. b[i].state = IF kind = "snapshot" THEN mem ELSE {}
        BY <2>7, <4>1
      <4> QED
        BY <1>6, <2>1, <2>8, <4>2, <4>3, <4>4
    <3> QED
      BY <2>8, <3>1 DEF BatchFormed
  <2>13. OpenedHolds'
    <3>1. b[1].seq = base + 1 /\ b[1].kind = kind
      BY <2>6, <2>7
    <3>2. /\ ~Stuck'
          /\ \A f \in Segments(plain', zst') : f <= b[1].seq
          /\ \A c \in LinesThere' : c.seq < b[1].seq
          /\ path \notin torn'
      BY <2>4, <2>9, <2>11, <3>1
    <3>3. \/ IsActive(path)'
          \/ /\ path = b[1].seq /\ path \notin Segments(plain', zst')
             /\ path # 1 => b[1].kind = "snapshot"
      BY <2>9, <2>11, <3>1
    <3>4. IsActive(writer.path)' <=> IsActive(path)'
      BY <2>2 DEF IsActive
    <3>5. BatchFormed(writer.batch)'
      BY <2>2, <2>12 DEF BatchFormed
    <3> QED
      BY <2>2, <3>2, <3>3, <3>4, <3>5 DEF OpenedHolds
  <2>14. WriterHolds'
    <3>1. writer' \in [pc : {"opened", "written"}, path : Nat \ {0}, batch : Seq(Line)]
      BY <2>1, <2>8, <2>11
    <3>2. CacheMatchesLog'
      BY <2>2 DEF CacheMatchesLog, Ready
    <3>3. WrittenHolds'
      BY <2>2 DEF WrittenHolds
    <3> QED
      BY <2>2, <2>13, <3>1, <3>2, <3>3 DEF WriterHolds
  <2>15. TypeOK'
    <3>1. torn' \subseteq DOMAIN plain'
      BY <1>1, <1>6, <1>9 DEF TypeOK
    <3> QED
      BY <1>1, <1>6, <2>1, <2>2, <3>1 DEF TypeOK
  <2>16. SnapshotsHold'
    BY <1>1, <2>9 DEF SnapshotsHold, Brings
  <2>17. AckedHold'
    <3>1. \A f \in Segments(plain, zst) : \A i, line :
            Durable(f, i, line) => f \in Segments(plain, zst)' /\ Durable(f, i, line)'
      BY <2>9 DEF Segments
    <3> QED
      BY <1>1, <1>6, <1>7, <2>1, <2>2, <3>1, PlacesStay DEF LogInvariant
  <2>18. MemoryHolds'
    <3>1. \A id \in mem : \E d \in AllCommits(plain, zst) : id \in Brings(d)
      BY <1>7 DEF LogInvariant, MemoryHolds
    <3> QED
      BY <2>1, <2>5, <2>9, <3>1 DEF MemoryHolds, Brings
  <2>19. NumbersHold'
    <3>1. Given' = Given
      BY <1>7, <1>8, <2>2 DEF Given
    <3> QED
      BY <1>1, <1>8, <2>9, <3>1 DEF NumbersHold, Brings
  <2>20. FaultlessHolds'
    <3> SUFFICES ASSUME used.faults = 0
                 PROVE  /\ FilesComplete'
                        /\ \A d \in AllCommits(plain', zst') : Brings(d) \subseteq mem
      BY <1>8, <2>1 DEF FaultlessHolds, Brings
    <3>1. FilesComplete
      BY DEF LogInvariant, FaultlessHolds
    <3>2. FilesComplete'
      BY <1>6, <1>7, <2>9, <3>1 DEF FilesComplete, Covers
    <3>3. AllCommits(plain, zst) \subseteq CommitsThere
      BY <1>1, ReadIsAVersion
    <3> QED
      BY <2>5, <2>9, <3>2, <3>3
  <2>21. CompressorHolds'
    BY <1>1, <1>6 DEF CompressorHolds
  <2> QED
    BY <2>9, <2>14, <2>15, <2>16, <2>17, <2>18, <2>19, <2>20, <2>21 DEF LogInvariant
<1> QED
  BY <1>10, <1>11

\* A batch, or its first lines, goes to the end of the last segment or to the
\* beginning of a new one.
LEMMA OpenedIs ==
  ASSUME LogInvariant, writer.pc = "opened", NEW path, path = writer.path, NEW batch, batch = writer.batch
  PROVE  /\ path \in Nat \ {0} /\ path \notin torn /\ path \notin DOMAIN zst
         /\ BatchFormed(batch) /\ batch \in Seq(Line) /\ 1 \in 1 .. Len(batch)
         /\ batch[1].seq \in Nat /\ path <= batch[1].seq
         /\ \A c \in LinesThere : c.seq < batch[1].seq
         /\ \A f \in Segments(plain, zst) : f <= path
         /\ path \in Segments(plain, zst) => IsActive(path) /\ \A v \in Versions(path) : v = plain[path]
         /\ path \notin Segments(plain, zst) => path = batch[1].seq
         /\ (path \notin DOMAIN plain \/ plain[path] = <<>>) /\ path # 1 =>
              batch[1].cnt = 1 /\ batch[1].kind = "snapshot"
         /\ mem \in SUBSET Ids
         /\ \A d \in CommitsThere : Brings(d) \subseteq mem
         /\ \A id \in mem : \E d \in AllCommits(plain, zst) : id \in Brings(d)
<1>1. TypeOK /\ FilesFormed /\ FilesBounded /\ DirectoryHolds /\ OpenedHolds
  BY DEF LogInvariant, WriterHolds
<1>2. /\ BatchFormed(batch) /\ ~Stuck
      /\ \A f \in Segments(plain, zst) : f <= batch[1].seq
      /\ \A c \in LinesThere : c.seq < batch[1].seq
      /\ path \notin torn
      /\ \/ IsActive(path)
         \/ /\ path = batch[1].seq /\ path \notin Segments(plain, zst)
            /\ path # 1 => batch[1].kind = "snapshot"
  BY <1>1 DEF OpenedHolds
<1>3. path \in Nat \ {0}
  BY DEF LogInvariant, WriterHolds, Down, Ready
<1>4. batch \in Seq(Line) /\ batch # <<>>
  BY <1>2 DEF BatchFormed
<1>5. 1 \in 1 .. Len(batch) /\ batch[1].seq \in Nat
  BY <1>4, LineFacts
<1>6. IsActive(path) =>
        /\ path \in Segments(plain, zst) /\ path \in DOMAIN plain /\ path \notin DOMAIN zst
        /\ \A v \in Versions(path) : v = plain[path]
        /\ \A f \in Segments(plain, zst) : f <= path
        /\ plain[path] # <<>> \/ path = 1
  <2> SUFFICES ASSUME IsActive(path)
               PROVE  /\ path \in Segments(plain, zst) /\ path \in DOMAIN plain /\ path \notin DOMAIN zst
                      /\ \A v \in Versions(path) : v = plain[path]
                      /\ \A f \in Segments(plain, zst) : f <= path
                      /\ plain[path] # <<>> \/ path = 1
    OBVIOUS
  <2>1. path \in DOMAIN plain /\ path \in Segments(plain, zst)
    BY DEF IsActive, Segments
  <2>2. Latest(plain, zst, path) /\ path \notin DOMAIN zst /\ \A v \in Versions(path) : v = plain[path]
    BY <1>1, ActiveIsLatest
  <2>3. \A f \in Segments(plain, zst) : f <= path
    BY <1>3, <2>2 DEF Latest
  <2>4. plain[path] # <<>> \/ path = 1
    BY <1>2, <2>1 DEF Stuck
  <2> QED
    BY <2>1, <2>2, <2>3, <2>4
<1>7. path \notin Segments(plain, zst) => path \notin DOMAIN zst /\ path \notin DOMAIN plain
  BY DEF Segments
<1>8. batch[1].kind = "snapshot" => batch[1].cnt = 1
  BY <1>2, <1>5 DEF BatchFormed
<1>9. /\ mem \in SUBSET Ids
      /\ \A d \in CommitsThere : Brings(d) \subseteq mem
      /\ \A id \in mem : \E d \in AllCommits(plain, zst) : id \in Brings(d)
  BY <1>2 DEF LogInvariant, MemoryHolds, InFlight
<1>10. path <= batch[1].seq
  BY <1>2, <1>3, <1>6
<1>11. path \in Segments(plain, zst) => IsActive(path)
  BY <1>2
<1>12. \A f \in Segments(plain, zst) : f <= path
  BY <1>2, <1>6
<1>13. (path \notin DOMAIN plain \/ plain[path] = <<>>) /\ path # 1 => batch[1].kind = "snapshot"
  BY <1>2, <1>6
<1>14. path \notin Segments(plain, zst) => path = batch[1].seq
  BY <1>2, <1>6
<1>15. path \notin DOMAIN zst
  BY <1>6, <1>7, <1>11
<1> QED
  BY <1>2, <1>3, <1>4, <1>5, <1>6, <1>8, <1>9, <1>10, <1>11, <1>12, <1>13, <1>14, <1>15

Joined(w, v, b) == w = v \o b
Before(path) == IF path \in DOMAIN plain THEN plain[path] ELSE <<>>
Writes(path, batch, lines) ==
  /\ writer.pc = "opened" /\ path = writer.path /\ batch = writer.batch
  /\ lines \in Seq(Line) /\ Prefix(lines, batch) /\ Extend(path, lines) /\ zst' = zst

LEMMA ExtendIs ==
  ASSUME LogInvariant, NEW path, NEW batch, NEW lines, Writes(path, batch, lines)
  PROVE  /\ DOMAIN plain' = DOMAIN plain \cup {path} /\ DOMAIN synced' = DOMAIN plain'
         /\ Segments(plain', zst') = Segments(plain, zst) \cup {path}
         /\ \A f \in DOMAIN plain : f # path => plain'[f] = plain[f]
         /\ \A f \in DOMAIN plain : synced'[f] = synced[f]
         /\ path \notin DOMAIN plain => synced'[path] = 0 /\ DirOp("create", path, <<>>)
         /\ path \in DOMAIN plain => UNCHANGED dirlog
         /\ Before(path) \in Seq(Line) /\ Joined(plain'[path], Before(path), lines)
<1>0. /\ writer.pc = "opened" /\ path = writer.path /\ batch = writer.batch
      /\ lines \in Seq(Line) /\ Prefix(lines, batch) /\ Extend(path, lines) /\ zst' = zst
  BY DEF Writes
<1>1. /\ path \notin torn /\ path \notin DOMAIN zst /\ path \in Nat \ {0}
      /\ path \in Segments(plain, zst) => IsActive(path)
  BY <1>0, OpenedIs
<1>2. TypeOK
  BY DEF LogInvariant
<1>3. PICK v : v = IF path \in DOMAIN plain THEN plain[path] ELSE <<>>
  OBVIOUS
<1>4. PICK w : w = IF lines = <<>> THEN <<>> ELSE (IF path \in torn THEN Tail(lines) ELSE lines)
  OBVIOUS
<1>5. w = lines
  BY <1>1, <1>4
<1>6. /\ IF path \in DOMAIN plain THEN UNCHANGED <<synced, dirlog>>
         ELSE synced' = With(synced, path, 0) /\ DirOp("create", path, <<>>)
      /\ plain' = With(plain, path, v \o w)
  BY <1>0, <1>3, <1>4 DEF Extend
<1>7. DOMAIN plain' = DOMAIN plain \cup {path} /\ plain'[path] = v \o lines
      /\ \A f \in DOMAIN plain : f # path => plain'[f] = plain[f]
  BY <1>5, <1>6 DEF With
<1>8. DOMAIN synced = DOMAIN plain
  BY <1>2 DEF TypeOK
<1>9. /\ DOMAIN synced' = DOMAIN plain'
      /\ \A f \in DOMAIN plain : synced'[f] = synced[f]
      /\ path \notin DOMAIN plain => synced'[path] = 0 /\ DirOp("create", path, <<>>)
      /\ path \in DOMAIN plain => UNCHANGED dirlog
  <2>1. CASE path \in DOMAIN plain
    BY <1>6, <1>7, <1>8, <2>1
  <2>2. CASE path \notin DOMAIN plain
    <3>1. synced' = With(synced, path, 0) /\ DirOp("create", path, <<>>)
      BY <1>6, <2>2
    <3> QED
      BY <1>7, <1>8, <2>2, <3>1 DEF With
  <2> QED
    BY <2>1, <2>2
<1>10. Segments(plain', zst') = Segments(plain, zst) \cup {path}
  BY <1>0, <1>7 DEF Segments
<1>11. v \in Seq(Line)
  <2>1. <<>> \in Seq(Line)
    BY EmptySeq
  <2> QED
    BY <1>2, <1>3, <2>1 DEF TypeOK
<1> QED
  BY <1>3, <1>7, <1>9, <1>10, <1>11 DEF Before, Joined

\* What the end of the segment gains, in every directory a crash may leave.
LEMMA ExtendKeeps ==
  ASSUME LogInvariant, NEW path, NEW batch, NEW lines, Writes(path, batch, lines)
  PROVE  /\ FilesBounded' /\ FilesFormed' /\ DirectoryHolds' /\ SnapshotsHold'
         /\ IsActive(path)'
         /\ path \in DOMAIN plain' /\ plain'[path] \in Seq(Line)
         /\ Len(lines) <= Len(plain'[path])
         /\ \A i \in 1 .. Len(lines) : plain'[path][Len(plain'[path]) - Len(lines) + i] = lines[i]
         /\ \A f, v : f # path => (v \in Versions(f)' <=> v \in Versions(f))
         /\ \A c \in LinesThere' : c \in LinesThere \/ \E i \in 1 .. Len(batch) : c = batch[i]
         /\ \A c \in CommitsThere' : c \in CommitsThere \/ (c = batch[1] /\ Len(lines) = Len(batch))
         /\ AllCommits(plain, zst) \subseteq AllCommits(plain', zst')
         /\ \A c \in AllCommits(plain', zst') :
              c \in AllCommits(plain, zst) \/ (c = batch[1] /\ Len(lines) = Len(batch))
         /\ \A f \in Segments(plain, zst) : \A i, line :
              Durable(f, i, line) => f \in Segments(plain, zst)' /\ Durable(f, i, line)'
         /\ \A f \in DOMAIN plain' : synced'[f] \in 0 .. Len(plain'[f])
<1> USE DEF Writes
<1>1. TypeOK /\ FilesFormed /\ FilesBounded /\ DirectoryHolds /\ SnapshotsHold
  BY DEF LogInvariant
<1>2. /\ path \in Nat \ {0} /\ path \notin DOMAIN zst
      /\ BatchFormed(batch) /\ batch \in Seq(Line) /\ 1 \in 1 .. Len(batch)
      /\ batch[1].seq \in Nat /\ path <= batch[1].seq
      /\ \A c \in LinesThere : c.seq < batch[1].seq
      /\ \A f \in Segments(plain, zst) : f <= path
      /\ path \in Segments(plain, zst) => IsActive(path) /\ \A v \in Versions(path) : v = plain[path]
      /\ path \notin Segments(plain, zst) => path = batch[1].seq
      /\ (path \notin DOMAIN plain \/ plain[path] = <<>>) /\ path # 1 =>
           batch[1].cnt = 1 /\ batch[1].kind = "snapshot"
      /\ mem \in SUBSET Ids
      /\ \A d \in CommitsThere : Brings(d) \subseteq mem
  BY OpenedIs
<1>3. /\ DOMAIN plain' = DOMAIN plain \cup {path} /\ DOMAIN synced' = DOMAIN plain'
      /\ Segments(plain', zst') = Segments(plain, zst) \cup {path}
      /\ \A f \in DOMAIN plain : f # path => plain'[f] = plain[f]
      /\ \A f \in DOMAIN plain : synced'[f] = synced[f]
      /\ path \notin DOMAIN plain => synced'[path] = 0 /\ DirOp("create", path, <<>>)
      /\ path \in DOMAIN plain => UNCHANGED dirlog
  BY ExtendIs
<1>4. PICK v : /\ v = IF path \in DOMAIN plain THEN plain[path] ELSE <<>>
               /\ v \in Seq(Line) /\ plain'[path] = v \o lines
  <2> HIDE DEF Writes
  <2>1. Before(path) \in Seq(Line) /\ Joined(plain'[path], Before(path), lines)
    BY ExtendIs
  <2>2. PICK v : v = Before(path)
    OBVIOUS
  <2> QED
    BY <2>1, <2>2 DEF Before, Joined
<1>5. PICK n : n = Len(batch)
  OBVIOUS
<1>6. PICK s : s = batch[1].seq
  OBVIOUS
<1>7. PICK w : w = plain'[path]
  OBVIOUS
<1>8. n \in Nat /\ n # 0 /\ s \in Nat /\ w = v \o lines /\ Len(lines) \in Nat /\ Len(lines) <= n
      /\ path \in Nat /\ path <= s
  BY <1>2, <1>4, <1>5, <1>6, <1>7, LineFacts DEF Prefix
<1>9. \A i \in 1 .. Len(lines) : /\ i \in 1 .. Len(batch) /\ lines[i] = batch[i]
                                 /\ lines[i].idx = i - 1 /\ lines[i].cnt = n /\ lines[i].seq = s + i - 1
  <2> TAKE i \in 1 .. Len(lines)
  <2>1. i \in 1 .. Len(batch) /\ lines[i] = batch[i]
    BY <1>5, <1>8 DEF Prefix
  <2>2. batch[i].cnt = Len(batch) /\ batch[i].idx = i - 1 /\ batch[i].seq = batch[1].seq + i - 1
    BY <1>2, <2>1 DEF BatchFormed
  <2> QED
    BY <1>5, <1>6, <2>1, <2>2
<1>10. path \in DOMAIN plain <=> path \in Segments(plain, zst)
  BY <1>2 DEF Segments
<1>11. path \in DOMAIN plain => v = plain[path] /\ v \in Versions(path) /\ WellFormed(v, path)
                                /\ IsActive(path) /\ \A u \in Versions(path) : u = v
  <2> SUFFICES ASSUME path \in DOMAIN plain
               PROVE  v = plain[path] /\ v \in Versions(path) /\ WellFormed(v, path)
                      /\ IsActive(path) /\ \A u \in Versions(path) : u = v
    OBVIOUS
  <2>1. v = plain[path] /\ v \in Versions(path)
    BY <1>4, VersionsAre
  <2>2. WellFormed(v, path)
    BY <1>1, <1>10, <2>1 DEF FilesFormed
  <2> QED
    BY <1>2, <1>10, <2>1, <2>2
<1>12. path \notin DOMAIN plain => v = <<>> /\ path = s /\ \A u : u \notin Versions(path)
  <2> SUFFICES ASSUME path \notin DOMAIN plain
               PROVE  v = <<>> /\ path = s /\ \A u : u \notin Versions(path)
    OBVIOUS
  <2>1. \A i \in 1 .. Len(dirlog) : dirlog[i].file # path
    BY <1>1, <1>10 DEF DirectoryHolds
  <2> QED
    BY <1>2, <1>4, <1>6, <1>10, <2>1, VersionsAre
<1>13. WellFormed(v, path) /\ \A j \in 1 .. Len(v) : v[j] \in LinesThere /\ v[j].seq < s
  <2>1. CASE path \in DOMAIN plain
    BY <1>2, <1>6, <1>10, <1>11, <2>1, ThereAre
  <2>2. CASE path \notin DOMAIN plain
    <3>1. v = <<>> /\ Len(v) = 0 /\ v \in Seq(Line)
      BY <1>4, <1>12, <2>2, EmptySeq
    <3>2. 1 .. Len(v) = {}
      BY <3>1
    <3> QED
      BY <3>1, <3>2 DEF WellFormed
  <2> QED
    BY <2>1, <2>2
<1>14. path # 1 /\ v = <<>> /\ lines # <<>> => lines[1].cnt = 1 /\ lines[1].kind = "snapshot"
  <2>1. lines # <<>> => 1 \in 1 .. Len(lines)
    BY <1>8, LineFacts
  <2>2. path # 1 /\ v = <<>> => batch[1].cnt = 1 /\ batch[1].kind = "snapshot"
    BY <1>2, <1>4
  <2> QED
    BY <1>9, <2>1, <2>2
<1>15. /\ w \in Seq(Line) /\ Len(w) = Len(v) + Len(lines) /\ Prefix(v, w) /\ Len(v) \in Nat
       /\ \A i \in 1 .. Len(lines) : w[Len(v) + i] = lines[i]
       /\ \A i \in 1 .. Len(w) : i <= Len(v) \/ (i - Len(v) \in 1 .. Len(lines) /\ w[i] = lines[i - Len(v)])
       /\ \A i \in 1 .. Len(w) : BatchAt(w, i) =>
            \/ i \in 1 .. Len(v) /\ BatchAt(v, i)
            \/ i = Len(v) + 1 /\ Len(lines) = n /\ 1 \in 1 .. Len(lines) /\ w[i] = lines[1]
       /\ WellFormed(w, path)
  <2>1. \A j \in 1 .. Len(v) : v[j].seq < s
    BY <1>13
  <2>2. \A i \in 1 .. Len(lines) : lines[i].idx = i - 1 /\ lines[i].cnt = n /\ lines[i].seq = s + i - 1
    BY <1>9
  <2>3. Len(v) \in Nat
    BY <1>4, LineFacts
  <2>0. Goes(lines, v, n, s)
    BY <1>8, <2>1, <2>2 DEF Goes
  <2>4. /\ w \in Seq(Line) /\ Len(w) = Len(v) + Len(lines) /\ Prefix(v, w)
        /\ \A i \in 1 .. Len(lines) : w[Len(v) + i] = lines[i]
        /\ \A i \in 1 .. Len(w) : i <= Len(v) \/ (i - Len(v) \in 1 .. Len(lines) /\ w[i] = lines[i - Len(v)])
        /\ \A i \in 1 .. Len(w) : BatchAt(w, i) =>
             \/ i \in 1 .. Len(v) /\ BatchAt(v, i)
             \/ i = Len(v) + 1 /\ Len(lines) = n /\ 1 \in 1 .. Len(lines) /\ w[i] = lines[1]
    <3>1. v \in Seq(Line)
      BY <1>4
    <3>2. w \in Seq(Line) /\ Len(w) = Len(v) + Len(lines) /\ Prefix(v, w)
      BY <1>8, <2>0, <3>1, AppendedLines, ZenonT(60)
    <3>3. \A i \in 1 .. Len(lines) : w[Len(v) + i] = lines[i]
      BY <1>8, <2>0, <3>1, AppendedLines
    <3>4. \A i \in 1 .. Len(w) : i <= Len(v) \/ (i - Len(v) \in 1 .. Len(lines) /\ w[i] = lines[i - Len(v)])
      BY <1>8, <2>0, <3>1, AppendedLines
    <3>5. \A i \in 1 .. Len(w) : BatchAt(w, i) =>
             \/ i \in 1 .. Len(v) /\ BatchAt(v, i)
             \/ i = Len(v) + 1 /\ Len(lines) = n /\ 1 \in 1 .. Len(lines) /\ w[i] = lines[1]
      <4>1. CommitsGrow(w, v, lines, n)
        BY <1>8, <2>0, <3>1, AppendedLines, ZenonT(60)
      <4> QED
        BY <4>1 DEF CommitsGrow
    <3> QED
      BY <3>2, <3>3, <3>4, <3>5
  <2>5. WellFormed(w, path)
    BY <1>4, <1>8, <1>13, <1>14, <2>0, AppendedIsFormed
  <2> QED
    BY <2>3, <2>4, <2>5
<1>16. \A i \in 1 .. Len(v) : i \in 1 .. Len(w) /\ w[i] = v[i] /\ (BatchAt(v, i) => BatchAt(w, i))
  BY <1>4, <1>15, PrefixKeepsBatches
<1>17. /\ dirlog' \in Seq(Operation)
       /\ \A i \in 1 .. Len(dirlog) : i \in 1 .. Len(dirlog') /\ dirlog'[i] = dirlog[i]
       /\ \A i \in 1 .. Len(dirlog') : \/ i \in 1 .. Len(dirlog) /\ dirlog'[i] = dirlog[i]
                                       \/ dirlog'[i].op = "create" /\ dirlog'[i].file = path
       /\ \A k \in 0 .. Len(dirlog') :
            \/ k \in 0 .. Len(dirlog) /\ FilesAt(k)' = FilesAt(k) /\ ZstAt(k)' = ZstAt(k)
            \/ FilesAt(k)' = DOMAIN plain \cup {path} /\ ZstAt(k)' = DOMAIN zst
  <2>1. CASE path \in DOMAIN plain
    <3>1. dirlog' = dirlog
      BY <1>3, <2>1
    <3>2. DOMAIN plain' = DOMAIN plain
      BY <1>3, <2>1
    <3>3. \A op, k : Undone(op, k)' = Undone(op, k)
      BY <3>1 DEF Undone
    <3>4. \A k : FilesAt(k)' = FilesAt(k) /\ ZstAt(k)' = ZstAt(k)
      BY <3>2, <3>3 DEF FilesAt, ZstAt
    <3> QED
      BY <1>1, <3>1, <3>4 DEF DirectoryHolds
  <2>2. CASE path \notin DOMAIN plain
    <3>1. <<>> \in Seq(Line)
      BY EmptySeq
    <3>2. /\ Len(dirlog) \in Nat
          /\ dirlog' \in Seq(Operation) /\ Len(dirlog') = Len(dirlog) + 1
          /\ \A i \in 1 .. Len(dirlog) : dirlog'[i] = dirlog[i]
          /\ \A i \in 1 .. Len(dirlog') : i = Len(dirlog') \/ i \in 1 .. Len(dirlog)
          /\ dirlog'[Len(dirlog')] = [op |-> "create", file |-> path, lines |-> <<>>]
          /\ \A k \in 0 .. Len(dirlog') : k \in 0 .. Len(dirlog) \/ k = Len(dirlog')
          /\ \A op, k : k \in 0 .. Len(dirlog) =>
               Undone(op, k)' = Undone(op, k) \cup (IF op = "create" THEN {path} ELSE {})
          /\ \A op, k : k = Len(dirlog') => Undone(op, k)' = {}
      <4>1. DirOp("create", path, <<>>) /\ path \in Nat \ {0} /\ dirlog \in Seq(Operation)
        BY <1>1, <1>2, <1>3, <2>2 DEF DirectoryHolds
      <4>2. "create" \in {"create", "link", "unlink"}
        OBVIOUS
      <4> QED
        BY <3>1, <4>1, <4>2, OperationIsLast, ZenonT(40)
    <3>3. \A i \in 1 .. Len(dirlog) : i \in 1 .. Len(dirlog')
      BY <3>2
    <3>4. \A i \in 1 .. Len(dirlog') : \/ i \in 1 .. Len(dirlog) /\ dirlog'[i] = dirlog[i]
                                       \/ dirlog'[i].op = "create" /\ dirlog'[i].file = path
      BY <3>2
    <3>5. \A k \in 0 .. Len(dirlog) :
            /\ Undone("unlink", k)' = Undone("unlink", k) /\ Undone("link", k)' = Undone("link", k)
            /\ Undone("create", k)' = Undone("create", k) \cup {path}
      <4> TAKE k \in 0 .. Len(dirlog)
      <4>1. \A op : Undone(op, k)' = Undone(op, k) \cup (IF op = "create" THEN {path} ELSE {})
        BY <3>2
      <4>2. "create" # "unlink" /\ "create" # "link"
        OBVIOUS
      <4> QED
        BY <4>1, <4>2, Zenon
    <3>6. \A k : k = Len(dirlog') =>
            Undone("create", k)' = {} /\ Undone("unlink", k)' = {} /\ Undone("link", k)' = {}
      BY <3>2
    <3>7. \A k \in 0 .. Len(dirlog) : path \notin Undone("unlink", k)
      <4>1. \A k \in 0 .. Len(dirlog) : \A i \in k + 1 .. Len(dirlog) : i \in 1 .. Len(dirlog)
        BY <3>2
      <4>2. \A i \in 1 .. Len(dirlog) : dirlog[i].file # path
        BY <1>1, <1>10, <2>2 DEF DirectoryHolds
      <4> QED
        BY <4>1, <4>2 DEF Undone
    <3>8. \A k \in 0 .. Len(dirlog) : FilesAt(k)' = FilesAt(k)
      BY <1>3, <2>2, <3>5, <3>7 DEF FilesAt
    <3>9. \A k \in 0 .. Len(dirlog) : ZstAt(k)' = ZstAt(k)
      BY <3>5 DEF ZstAt
    <3>10. \A k : k = Len(dirlog') => FilesAt(k)' = DOMAIN plain \cup {path} /\ ZstAt(k)' = DOMAIN zst
      BY <1>3, <3>6 DEF FilesAt, ZstAt
    <3>11. \A k \in 0 .. Len(dirlog') :
            \/ k \in 0 .. Len(dirlog) /\ FilesAt(k)' = FilesAt(k) /\ ZstAt(k)' = ZstAt(k)
            \/ FilesAt(k)' = DOMAIN plain \cup {path} /\ ZstAt(k)' = DOMAIN zst
      BY <3>2, <3>8, <3>9, <3>10
    <3> QED
      BY <3>2, <3>3, <3>4, <3>11
  <2> QED
    BY <2>1, <2>2
<1>18. \A f, u : f # path => (u \in Versions(f)' <=> u \in Versions(f))
  <2> SUFFICES ASSUME NEW f, NEW u, f # path
               PROVE  u \in Versions(f)' <=> u \in Versions(f)
    OBVIOUS
  <2> DEFINE Old == \E i \in 1 .. Len(dirlog) :
                      dirlog[i].op = "unlink" /\ dirlog[i].file = f /\ u = dirlog[i].lines
             New == \E i \in 1 .. Len(dirlog') :
                      dirlog'[i].op = "unlink" /\ dirlog'[i].file = f /\ u = dirlog'[i].lines
  <2>1. New <=> Old
    BY <1>17
  <2>2. u \in Versions(f) <=> \/ f \in DOMAIN plain /\ u = plain[f]
                              \/ f \in DOMAIN zst /\ u = zst[f]
                              \/ Old
    BY VersionsAre
  <2>3. u \in Versions(f)' <=> \/ f \in DOMAIN plain' /\ u = plain'[f]
                               \/ f \in DOMAIN zst' /\ u = zst'[f]
                               \/ New
    BY VersionsNext
  <2>4. f \in DOMAIN plain /\ u = plain[f] <=> f \in DOMAIN plain' /\ u = plain'[f]
    BY <1>3
  <2> HIDE DEF Old, New
  <2> QED
    BY <2>1, <2>2, <2>3, <2>4
<1>19. \A u : u \in Versions(path)' <=> u = w
  <2>1. path \in DOMAIN plain'
    BY <1>3
  <2>2. path \notin DOMAIN zst'
    BY <1>2
  <2>3. ASSUME NEW i \in 1 .. Len(dirlog'), dirlog'[i].op = "unlink", dirlog'[i].file = path
        PROVE  FALSE
    <3>1. i \in 1 .. Len(dirlog) /\ dirlog[i].op = "unlink" /\ dirlog[i].file = path
      BY <1>17, <2>3
    <3>2. path \in Segments(plain, zst) /\ path \notin DOMAIN plain
      BY <1>1, <3>1 DEF DirectoryHolds
    <3> QED
      BY <1>10, <3>2
  <2> QED
    BY <1>7, <2>1, <2>2, <2>3, VersionsNext
<1>20. FilesBounded'
  <2>1. PICK b \in Nat : Segments(plain, zst) \subseteq 0 .. b
    BY <1>1 DEF FilesBounded
  <2>2. b + path \in Nat /\ Segments(plain', zst') \subseteq 0 .. (b + path)
    BY <1>3, <1>8, <2>1
  <2>3. \E x \in Nat : Segments(plain', zst') \subseteq 0 .. x
    BY <2>2
  <2> QED
    BY <2>3 DEF FilesBounded
<1>21. FilesFormed'
  <2>1. ASSUME NEW f \in Segments(plain', zst'), NEW u \in Versions(f)'
        PROVE  /\ WellFormed(u, f)
               /\ \A g \in Segments(plain', zst') : f < g => \A i \in 1 .. Len(u) : u[i].seq < g
    <3>1. CASE f = path
      <4>1. WellFormed(u, f)
        BY <1>15, <1>19, <2>1, <3>1
      <4>2. \A g \in Segments(plain', zst') : ~(f < g)
        BY <1>1, <1>2, <1>3, <1>8, <3>1 DEF TypeOK, Segments
      <4> QED
        BY <4>1, <4>2
    <3>2. CASE f # path
      <4>1. f \in Segments(plain, zst) /\ u \in Versions(f)
        BY <1>3, <1>18, <2>1, <3>2
      <4>2. \A g \in Segments(plain, zst) : f < g => \A i \in 1 .. Len(u) : u[i].seq < g
        BY <1>1, <4>1 DEF FilesFormed
      <4>3. \A i \in 1 .. Len(u) : u[i] \in LinesThere /\ u[i].seq < s
        BY <1>2, <1>6, <4>1, ThereAre
      <4>4. ASSUME NEW g \in Segments(plain', zst'), f < g, NEW i \in 1 .. Len(u)
            PROVE  u[i].seq < g
        <5>1. CASE g \in Segments(plain, zst)
          BY <4>2, <4>4, <5>1
        <5>2. CASE g \notin Segments(plain, zst)
          <6>1. g = path /\ path = s
            BY <1>3, <1>10, <1>12, <5>2
          <6> QED
            BY <4>3, <6>1
        <5> QED
          BY <5>1, <5>2
      <4> QED
        BY <1>1, <4>1, <4>4 DEF FilesFormed
    <3> QED
      BY <3>1, <3>2
  <2>2. FilesFormed' <=> \A f \in Segments(plain', zst') : \A u \in Versions(f)' :
          /\ WellFormed(u, f)
          /\ \A g \in Segments(plain', zst') : f < g => \A i \in 1 .. Len(u) : u[i].seq < g
    BY DEF FilesFormed, WellFormed
  <2> QED
    BY <2>1, <2>2
<1>22. \A f \in DOMAIN zst : \E g \in DOMAIN plain : f < g
  <2> TAKE f \in DOMAIN zst
  <2>1. Len(dirlog) \in 0 .. Len(dirlog)
    BY <1>1, LenProperties DEF DirectoryHolds
  <2>2. \A op : Undone(op, Len(dirlog)) = {}
    BY <1>1, NothingUndone DEF DirectoryHolds
  <2>3. FilesAt(Len(dirlog)) = DOMAIN plain /\ ZstAt(Len(dirlog)) = DOMAIN zst
    BY <2>2 DEF FilesAt, ZstAt
  <2> QED
    BY <1>1, <2>1, <2>3 DEF DirectoryHolds
<1>23. DirectoryHolds'
  <2>1. ASSUME NEW i \in 1 .. Len(dirlog')
        PROVE  /\ dirlog'[i].file \in Segments(plain', zst')
               /\ dirlog'[i].op = "unlink" =>
                    /\ dirlog'[i].file \notin DOMAIN plain'
                    /\ \A j \in 1 .. Len(dirlog') :
                         dirlog'[j].op = "unlink" /\ dirlog'[j].file = dirlog'[i].file => j = i
    <3>1. CASE dirlog'[i].op = "create" /\ dirlog'[i].file = path
      BY <1>3, <3>1
    <3>2. CASE i \in 1 .. Len(dirlog) /\ dirlog'[i] = dirlog[i]
      <4>1. \A j \in 1 .. Len(dirlog') : dirlog'[j].op = "unlink" => j \in 1 .. Len(dirlog) /\ dirlog'[j] = dirlog[j]
        BY <1>17
      <4>2. /\ dirlog[i].file \in Segments(plain, zst)
            /\ dirlog[i].op = "unlink" =>
                 /\ dirlog[i].file \notin DOMAIN plain
                 /\ \A j \in 1 .. Len(dirlog) :
                      dirlog[j].op = "unlink" /\ dirlog[j].file = dirlog[i].file => j = i
        BY <1>1, <3>2 DEF DirectoryHolds
      <4>3. dirlog[i].op = "unlink" => dirlog[i].file # path
        BY <1>10, <4>2
      <4> QED
        BY <1>3, <3>2, <4>1, <4>2, <4>3
    <3> QED
      BY <1>17, <3>1, <3>2
  <2>2. ASSUME NEW k \in 0 .. Len(dirlog'), NEW f \in ZstAt(k)'
        PROVE  \E g \in FilesAt(k)' : f < g
    <3>1. CASE k \in 0 .. Len(dirlog) /\ FilesAt(k)' = FilesAt(k) /\ ZstAt(k)' = ZstAt(k)
      BY <1>1, <2>2, <3>1 DEF DirectoryHolds
    <3>2. CASE FilesAt(k)' = DOMAIN plain \cup {path} /\ ZstAt(k)' = DOMAIN zst
      BY <1>22, <2>2, <3>2
    <3> QED
      BY <1>17, <3>1, <3>2
  <2>3. \A f \in DOMAIN zst' : \A u \in Versions(f)' : Covers(zst'[f], u)
    BY <1>1, <1>2, <1>18 DEF DirectoryHolds
  <2> QED
    BY <1>17, <2>1, <2>2, <2>3 DEF DirectoryHolds, Covers
<1>24. \A c \in LinesThere' : c \in LinesThere \/ \E i \in 1 .. Len(batch) : c = batch[i]
  <2> TAKE c \in LinesThere'
  <2>1. PICK f \in Segments(plain', zst') : \E u \in Versions(f)' : \E i \in 1 .. Len(u) : c = u[i]
    BY ThereNext
  <2>2. PICK u \in Versions(f)' : \E i \in 1 .. Len(u) : c = u[i]
    BY <2>1
  <2>3. CASE f = path
    <3>1. PICK i \in 1 .. Len(w) : c = w[i]
      BY <1>19, <2>2, <2>3
    <3>2. CASE i <= Len(v)
      <4>1. i \in 1 .. Len(v) /\ c = v[i]
        BY <1>15, <1>16, <3>1, <3>2
      <4> QED
        BY <1>13, <4>1
    <3>3. CASE ~(i <= Len(v))
      <4>1. i - Len(v) \in 1 .. Len(lines) /\ c = lines[i - Len(v)]
        BY <1>15, <3>1, <3>3
      <4> QED
        BY <1>9, <4>1
    <3> QED
      BY <3>2, <3>3
  <2>4. CASE f # path
    <3>1. f \in Segments(plain, zst) /\ u \in Versions(f)
      BY <1>3, <1>18, <2>4
    <3> QED
      BY <2>2, <3>1, ThereAre
  <2> QED
    BY <2>3, <2>4
<1>25. \A c \in CommitsThere' : c \in CommitsThere \/ (c = batch[1] /\ Len(lines) = Len(batch))
  <2> TAKE c \in CommitsThere'
  <2>1. PICK f \in Segments(plain', zst') : \E u \in Versions(f)' : \E i \in 1 .. Len(u) : BatchAt(u, i) /\ c = u[i]
    BY ThereNext
  <2>2. PICK u \in Versions(f)' : \E i \in 1 .. Len(u) : BatchAt(u, i) /\ c = u[i]
    BY <2>1
  <2>3. CASE f = path
    <3>1. PICK i \in 1 .. Len(w) : BatchAt(w, i) /\ c = w[i]
      BY <1>19, <2>2, <2>3
    <3>2. CASE i \in 1 .. Len(v) /\ BatchAt(v, i)
      <4>1. path \in DOMAIN plain
        <5>1. CASE path \notin DOMAIN plain
          <6>1. v = <<>>
            BY <1>12, <5>1
          <6>2. Len(v) = 0
            BY <6>1, EmptySeq
          <6> QED
            BY <3>2, <6>2
        <5> QED
          BY <5>1
      <4>2. path \in Segments(plain, zst) /\ v \in Versions(path) /\ c = v[i]
        BY <1>10, <1>11, <1>16, <3>1, <3>2, <4>1
      <4>3. c \in CommitsThere
        BY <3>2, <4>2, ThereAre
      <4> QED
        BY <4>3
    <3>3. CASE i = Len(v) + 1 /\ Len(lines) = n /\ 1 \in 1 .. Len(lines) /\ w[i] = lines[1]
      BY <1>5, <1>9, <3>1, <3>3
    <3> QED
      BY <1>15, <3>1, <3>2, <3>3
  <2>4. CASE f # path
    <3>1. f \in Segments(plain, zst) /\ u \in Versions(f)
      BY <1>3, <1>18, <2>4
    <3> QED
      BY <2>2, <3>1, ThereAre
  <2> QED
    BY <2>3, <2>4
<1>26. \A i \in 1 .. Len(batch) : /\ batch[i].kind = "snapshot" => i = 1 /\ batch[i].state = mem
                                  /\ batch[i].seq = s + i - 1
  <2> TAKE i \in 1 .. Len(batch)
  <2>1. /\ batch[i].kind = "snapshot" => batch[i].state = mem /\ batch[i].cnt = 1
        /\ batch[i].cnt = Len(batch) /\ batch[i].seq = s + i - 1
    BY <1>2, <1>6 DEF BatchFormed
  <2> QED
    BY <2>1
<1>27. SnapshotsHold'
  <2> SUFFICES ASSUME NEW c \in LinesThere', c.kind = "snapshot", NEW d \in CommitsThere', d.seq <= c.seq
               PROVE  Brings(d) \subseteq c.state
    BY DEF SnapshotsHold, Brings
  <2>1. CASE c \in LinesThere
    <3>1. c.seq < s /\ c.seq \in Nat
      BY <1>1, <1>2, <1>6, <2>1, ReadIsAVersion
    <3>2. d # batch[1]
      BY <1>6, <1>8, <3>1
    <3>3. d \in CommitsThere
      BY <1>25, <3>2
    <3> QED
      BY <1>1, <2>1, <3>3 DEF SnapshotsHold
  <2>2. CASE c \notin LinesThere
    <3>1. PICK i \in 1 .. Len(batch) : c = batch[i]
      BY <1>24, <2>2
    <3>2. c = batch[1] /\ c.state = mem
      BY <1>26, <3>1
    <3>3. CASE d \in CommitsThere
      BY <1>2, <3>2, <3>3
    <3>4. CASE d = batch[1]
      BY <3>2, <3>4 DEF Brings
    <3> QED
      BY <1>25, <3>3, <3>4
  <2> QED
    BY <2>1, <2>2
<1>28. AllCommits(plain, zst) \subseteq AllCommits(plain', zst')
  <2>1. \A f \in Segments(plain, zst) : f # path => Lines(plain', zst', f) = Lines(plain, zst, f)
    BY <1>3 DEF Lines, Segments
  <2>2. path \in Segments(plain, zst) => Lines(plain', zst', path) = w /\ Lines(plain, zst, path) = v
    BY <1>3, <1>7, <1>10, <1>11 DEF Lines
  <2>3. Commits(v) \subseteq Commits(w)
    <3> SUFFICES ASSUME NEW c \in Commits(v)
                 PROVE  c \in Commits(w)
      OBVIOUS
    <3>1. PICK i \in 1 .. Len(v) : BatchAt(v, i) /\ c = v[i]
      BY <1>4, CommitsAre
    <3>2. i \in 1 .. Len(w) /\ w[i] = c /\ BatchAt(w, i)
      BY <1>16, <3>1
    <3> QED
      BY <1>15, <3>2, CommitsAre
  <2>4. \A f \in Segments(plain, zst) : Commits(Lines(plain, zst, f)) \subseteq Commits(Lines(plain', zst', f))
    BY <2>1, <2>2, <2>3
  <2>5. Segments(plain, zst) \subseteq Segments(plain', zst')
    BY <1>3
  <2> QED
    BY <2>4, <2>5 DEF AllCommits
<1>29. ASSUME NEW f \in Segments(plain, zst), NEW i, NEW line, Durable(f, i, line)
       PROVE  f \in Segments(plain, zst)' /\ Durable(f, i, line)'
  <2>1. f \in Segments(plain, zst)'
    BY <1>3 DEF Segments
  <2>2. ASSUME NEW u \in Versions(f)'
        PROVE  At(u, i, line)
    <3>1. CASE f # path
      BY <1>18, <1>29, <2>2, <3>1 DEF Durable
    <3>2. CASE f = path
      <4>1. u = w
        BY <1>19, <2>2, <3>2
      <4>2. At(v, i, line)
        BY <1>10, <1>11, <1>29, <3>2 DEF Durable
      <4> QED
        BY <1>16, <4>1, <4>2 DEF At
    <3> QED
      BY <3>1, <3>2
  <2>3. f \in DOMAIN plain' => i + line.cnt - 1 <= synced'[f]
    <3>1. f \in DOMAIN plain' => f \in DOMAIN plain /\ synced'[f] = synced[f]
      BY <1>3, <1>10
    <3> QED
      BY <1>29, <3>1 DEF Durable
  <2>4. ASSUME NEW k \in 0 .. Len(dirlog')
        PROVE  f \in FilesAt(k)' \cup ZstAt(k)'
    <3>1. CASE k \in 0 .. Len(dirlog) /\ FilesAt(k)' = FilesAt(k) /\ ZstAt(k)' = ZstAt(k)
      BY <1>29, <3>1 DEF Durable
    <3>2. CASE FilesAt(k)' = DOMAIN plain \cup {path} /\ ZstAt(k)' = DOMAIN zst
      BY <3>2 DEF Segments
    <3> QED
      BY <1>17, <3>1, <3>2
  <2> QED
    BY <2>1, <2>2, <2>3, <2>4 DEF Durable, At
<1>30. IsActive(path)'
  <2>1. path \in DOMAIN plain' /\ \A g \in DOMAIN plain' : g <= path
    BY <1>2, <1>3, <1>8 DEF Segments
  <2> QED
    BY <2>1 DEF IsActive
<1>31. \A f \in DOMAIN plain' : synced'[f] \in 0 .. Len(plain'[f])
  <2> TAKE f \in DOMAIN plain'
  <2>1. CASE f # path
    <3>1. f \in DOMAIN plain /\ plain'[f] = plain[f] /\ synced'[f] = synced[f]
      BY <1>3, <2>1
    <3> QED
      BY <1>1, <3>1 DEF TypeOK
  <2>2. CASE f = path /\ path \in DOMAIN plain
    <3>1. synced[path] \in 0 .. Len(v)
      BY <1>1, <1>11, <2>2 DEF TypeOK
    <3>2. Len(w) \in Nat /\ Len(v) <= Len(w) /\ Len(v) \in Nat
      BY <1>8, <1>15
    <3>3. synced'[path] = synced[path]
      BY <1>3, <2>2
    <3>4. synced[path] \in 0 .. Len(w)
      BY <3>1, <3>2
    <3> QED
      BY <1>7, <2>2, <3>3, <3>4
  <2>3. CASE f = path /\ path \notin DOMAIN plain
    BY <1>3, <1>7, <1>8, <1>15, <2>3
  <2> QED
    BY <2>1, <2>2, <2>3
<1>32. /\ path \in DOMAIN plain' /\ plain'[path] \in Seq(Line)
       /\ Len(lines) <= Len(plain'[path])
       /\ \A i \in 1 .. Len(lines) : plain'[path][Len(plain'[path]) - Len(lines) + i] = lines[i]
  <2>1. Len(w) - Len(lines) = Len(v) /\ Len(lines) <= Len(w)
    BY <1>8, <1>15
  <2> QED
    BY <1>3, <1>7, <1>15, <2>1
<1>33. ASSUME NEW c \in AllCommits(plain', zst')
       PROVE  c \in AllCommits(plain, zst) \/ (c = batch[1] /\ Len(lines) = Len(batch))
  <2>1. PICK f \in Segments(plain', zst') : c \in Commits(Lines(plain', zst', f))
    BY <1>33 DEF AllCommits
  <2>2. CASE f = path
    <3>1. Lines(plain', zst', path) = w
      BY <1>3, <1>7 DEF Lines
    <3>2. PICK i \in 1 .. Len(w) : BatchAt(w, i) /\ c = w[i]
      BY <1>15, <2>1, <2>2, <3>1, CommitsAre
    <3>3. CASE i \in 1 .. Len(v) /\ BatchAt(v, i)
      <4>1. path \in DOMAIN plain
        <5>1. path \notin DOMAIN plain => v = <<>> /\ Len(v) = 0
          BY <1>12, EmptySeq
        <5> QED
          BY <3>3, <5>1
      <4>2. path \in Segments(plain, zst) /\ Lines(plain, zst, path) = v
        BY <1>10, <1>11, <4>1 DEF Lines
      <4>3. c \in Commits(v)
        BY <1>4, <1>16, <3>2, <3>3, CommitsAre
      <4> QED
        BY <4>2, <4>3 DEF AllCommits
    <3>4. CASE i = Len(v) + 1 /\ Len(lines) = n /\ 1 \in 1 .. Len(lines) /\ w[i] = lines[1]
      BY <1>5, <1>9, <3>2, <3>4
    <3> QED
      BY <1>15, <3>2, <3>3, <3>4
  <2>3. CASE f # path
    <3>1. f \in Segments(plain, zst) /\ Lines(plain', zst', f) = Lines(plain, zst, f)
      BY <1>3, <2>3 DEF Lines, Segments
    <3> QED
      BY <2>1, <3>1 DEF AllCommits
  <2> QED
    BY <2>2, <2>3
<1> QED
  BY <1>18, <1>20, <1>21, <1>23, <1>24, <1>25, <1>27, <1>28, <1>29, <1>30, <1>31, <1>32, <1>33

LEMMA ReadNext ==
  /\ \A f \in Segments(plain', zst') : Lines(plain', zst', f) \in Versions(f)'
  /\ AllCommits(plain', zst') \subseteq CommitsThere'
<1>1. ASSUME NEW f \in Segments(plain', zst')
      PROVE  Lines(plain', zst', f) \in Versions(f)'
  <2>1. Lines(plain', zst', f) = IF f \in DOMAIN plain' THEN plain'[f] ELSE zst'[f]
    BY DEF Lines
  <2>2. f \in DOMAIN plain' \/ f \in DOMAIN zst'
    BY DEF Segments
  <2> QED
    BY <2>1, <2>2, VersionsNext
<1>2. AllCommits(plain', zst') \subseteq CommitsThere'
  <2> SUFFICES ASSUME NEW c \in AllCommits(plain', zst')
               PROVE  c \in CommitsThere'
    OBVIOUS
  <2>1. PICK f \in Segments(plain', zst') : c \in Commits(Lines(plain', zst', f))
    BY DEF AllCommits
  <2>2. PICK i \in 1 .. Len(Lines(plain', zst', f)) :
          BatchAt(Lines(plain', zst', f), i) /\ c = Lines(plain', zst', f)[i]
    BY <2>1 DEF Commits
  <2> QED
    BY <1>1, <2>2, ThereNext
<1> QED
  BY <1>1, <1>2

\* What a write keeps, whether all of the batch was written or not.
LEMMA WritingKeeps ==
  ASSUME LogInvariant, NEW path, NEW batch, NEW lines, Writes(path, batch, lines), UNCHANGED <<acked, comp, wake>>, torn' \subseteq torn \cup {path},
         used' \in [appends : 0 .. MaxAppends, crashes : Nat, faults : Nat],
         used'.appends = used.appends, writer'.pc \in {"down", "written"},
         writer'.pc # "down" => mem' = mem,
         mem' \in (SUBSET Ids) \cup {None}, cache' \in Nat \cup {None}
  PROVE  TypeOK' /\ AckedHold' /\ NumbersHold' /\ CompressorHolds'
<1>0. /\ writer.pc = "opened" /\ path = writer.path /\ batch = writer.batch /\ zst' = zst
  BY DEF Writes
<1>1. TypeOK /\ FilesFormed /\ FilesBounded /\ DirectoryHolds /\ CompressorHolds /\ NumbersHold
  BY DEF LogInvariant
<1>2. /\ path \in Nat \ {0} /\ path \notin DOMAIN zst
      /\ BatchFormed(batch) /\ batch \in Seq(Line) /\ 1 \in 1 .. Len(batch)
      /\ \A f \in Segments(plain, zst) : f <= path
      /\ mem \in SUBSET Ids
      /\ \A id \in mem : \E d \in AllCommits(plain, zst) : id \in Brings(d)
  BY <1>0, OpenedIs
<1>3. /\ DOMAIN plain' = DOMAIN plain \cup {path} /\ DOMAIN synced' = DOMAIN plain'
      /\ \A f \in DOMAIN plain : f # path => plain'[f] = plain[f]
  BY ExtendIs
<1>4. /\ plain'[path] \in Seq(Line)
      /\ \A f \in DOMAIN plain' : synced'[f] \in 0 .. Len(plain'[f])
      /\ \A c \in LinesThere' : c \in LinesThere \/ \E i \in 1 .. Len(batch) : c = batch[i]
      /\ \A c \in CommitsThere' : c \in CommitsThere \/ (c = batch[1] /\ Len(lines) = Len(batch))
      /\ \A f \in Segments(plain, zst) : \A i, line :
           Durable(f, i, line) => f \in Segments(plain, zst)' /\ Durable(f, i, line)'
  BY ExtendKeeps
<1>5. TypeOK'
  <2>1. \A f \in DOMAIN plain' : plain'[f] \in Seq(Line) /\ f \in Nat \ {0}
    BY <1>1, <1>2, <1>3, <1>4 DEF TypeOK
  <2>2. torn' \subseteq DOMAIN plain'
    BY <1>1, <1>3 DEF TypeOK
  <2> QED
    BY <1>0, <1>1, <1>3, <1>4, <2>1, <2>2 DEF TypeOK
<1>6. AckedHold'
  BY <1>0, <1>1, <1>4, PlacesStay DEF LogInvariant
<1>7. CompressorHolds'
  <2>1. comp.pc \in {"copied", "renamed", "linked"} =>
          /\ comp.seg \in DOMAIN plain /\ comp.seg \in DOMAIN plain'
          /\ comp.seg # path /\ plain'[comp.seg] = plain[comp.seg]
          /\ \E g \in DOMAIN plain' : comp.seg < g
    <3> SUFFICES ASSUME comp.pc \in {"copied", "renamed", "linked"}
                 PROVE  /\ comp.seg \in DOMAIN plain /\ comp.seg \in DOMAIN plain'
                        /\ comp.seg # path /\ plain'[comp.seg] = plain[comp.seg]
                        /\ \E g \in DOMAIN plain' : comp.seg < g
      OBVIOUS
    <3>1. comp.seg \in DOMAIN plain /\ \E g \in DOMAIN plain : comp.seg < g
      BY <1>1 DEF CompressorHolds
    <3>2. PICK g \in DOMAIN plain : comp.seg < g
      BY <3>1
    <3>3. g \in Nat /\ comp.seg \in Nat /\ g <= path
      BY <1>1, <1>2, <3>1 DEF TypeOK, Segments
    <3>4. comp.seg # path
      BY <1>2, <3>2, <3>3
    <3> QED
      BY <1>3, <3>1, <3>2, <3>4
  <2> QED
    BY <1>0, <1>1, <2>1 DEF CompressorHolds
<1>8. NumbersHold'
  <2>1. used.appends \in Nat /\ Given = used.appends - 1 /\ Given' = used.appends
    BY <1>0, <1>1 DEF Given, NumbersHold
  <2> DEFINE new == used.appends
  <2>2. \A c \in LinesThere : /\ c \in Line /\ c.id \in Nat /\ c.id < new /\ c.state \subseteq 1 .. new - 1
    <3> TAKE c \in LinesThere
    <3>1. c \in Line
      BY <1>1, ReadIsAVersion
    <3>2. c.id \in Nat
      BY <3>1, BoundsAssumption DEF Line, Ids
    <3>3. c.id <= new - 1 /\ c.state \subseteq 1 .. new - 1
      BY <1>1, <2>1 DEF NumbersHold
    <3> QED
      BY <2>1, <3>1, <3>2, <3>3
  <2>3. \A d \in LinesThere : \A id \in Brings(d) : id \in Nat /\ id < new /\ id \in 1 .. new
    <3> TAKE d \in LinesThere
    <3> TAKE id \in Brings(d)
    <3>1. id \in d.state \/ id = d.id
      BY DEF Brings
    <3>2. d.id \in 1 .. new
      <4>1. d.id \in Ids
        BY <2>2 DEF Line
      <4> QED
        BY <2>1, <2>2, <4>1, BoundsAssumption DEF Ids
    <3>3. CASE id \in d.state
      <4>1. id \in 1 .. new - 1
        BY <2>2, <3>3
      <4> QED
        BY <2>1, <4>1
    <3>4. CASE id = d.id
      BY <2>1, <2>2, <3>2, <3>4
    <3> QED
      BY <3>1, <3>3, <3>4
  <2>4. \A d \in AllCommits(plain, zst) : d \in LinesThere
    BY <1>1, ReadIsAVersion, ThereAre
  <2>5. \A id \in mem : id \in Nat /\ id < new /\ id \in 1 .. new
    BY <1>2, <2>3, <2>4
  <2>6. \A c \in LinesThere : c.kind = "snapshot" => c.id \notin mem
    <3> SUFFICES ASSUME NEW c \in LinesThere, c.kind = "snapshot", c.id \in mem
                 PROVE  FALSE
      OBVIOUS
    <3>1. PICK d \in AllCommits(plain, zst) : c.id \in Brings(d)
      BY <1>2
    <3>2. d \in LinesThere
      BY <2>4
    <3> QED
      BY <1>1, <3>1, <3>2 DEF NumbersHold
  <2>7. \A i \in 1 .. Len(batch) :
          /\ batch[i].id = new /\ batch[i].state \subseteq mem /\ batch[i].kind = batch[1].kind
          /\ batch[i].kind = "snapshot" => Brings(batch[i]) = mem
          /\ batch[i].kind # "snapshot" => Brings(batch[i]) = {new}
    BY <1>2 DEF BatchFormed, Brings
  <2>8. new \in Nat
    BY <2>1
  <2> HIDE DEF new
  <2>9. ASSUME NEW c \in LinesThere'
        PROVE  c.id <= new /\ c.state \subseteq 1 .. new
    <3>1. CASE c \in LinesThere
      <4>1. c.id \in Nat /\ c.id < new /\ c.state \subseteq 1 .. new - 1
        BY <2>2, <3>1
      <4> QED
        BY <2>8, <4>1
    <3>2. CASE \E i \in 1 .. Len(batch) : c = batch[i]
      <4>1. c.id = new /\ c.state \subseteq mem
        BY <2>7, <3>2
      <4> QED
        BY <2>5, <2>8, <4>1
    <3> QED
      BY <1>4, <3>1, <3>2
  <2>10. ASSUME NEW c \in LinesThere', NEW d \in LinesThere', c.kind = "snapshot"
         PROVE  c.id \notin Brings(d)
    <3>1. CASE c \in LinesThere /\ d \in LinesThere
      BY <1>1, <2>10, <3>1 DEF NumbersHold
    <3>2. CASE c \in LinesThere /\ \E i \in 1 .. Len(batch) : d = batch[i]
      <4>1. c.id < new /\ c.id \in Nat /\ c.id \notin mem
        BY <2>2, <2>6, <2>10, <3>2
      <4>2. Brings(d) = mem \/ Brings(d) = {new}
        BY <2>7, <3>2
      <4> QED
        BY <2>8, <4>1, <4>2
    <3>3. CASE (\E i \in 1 .. Len(batch) : c = batch[i]) /\ d \in LinesThere
      <4>1. c.id = new
        BY <2>7, <3>3
      <4> QED
        BY <2>3, <2>8, <3>3, <4>1
    <3>4. CASE (\E i \in 1 .. Len(batch) : c = batch[i]) /\ (\E i \in 1 .. Len(batch) : d = batch[i])
      <4>1. c.id = new /\ c.kind = batch[1].kind
        BY <2>7, <3>4
      <4>2. d.kind = "snapshot" /\ Brings(d) = mem
        BY <2>7, <2>10, <3>4, <4>1
      <4> QED
        BY <2>5, <2>8, <4>1, <4>2
    <3> QED
      BY <1>4, <2>10, <3>1, <3>2, <3>3, <3>4
  <2>11. Given' = new
    BY <2>1 DEF new
  <2> QED
    BY <2>9, <2>10, <2>11 DEF NumbersHold, Brings
<1> QED
  BY <1>5, <1>6, <1>7, <1>8

\* A write puts a part of the batch at the end of the segment, the whole of it
\* when it does not fail.
LEMMA WholeIsWritten ==
  ASSUME LogInvariant, WriteBatch, NEW path, path = writer.path, NEW batch, batch = writer.batch
  PROVE  Writes(path, batch, batch)
<1>1. writer.pc = "opened" /\ Extend(path, batch) /\ zst' = zst
  BY DEF WriteBatch
<1>2. batch \in Seq(Line)
  BY <1>1, OpenedIs
<1>3. Prefix(batch, batch)
  BY <1>2, LineFacts DEF Prefix
<1> QED
  BY <1>1, <1>2, <1>3 DEF Writes

LEMMA PartIsWritten ==
  ASSUME LogInvariant, WriteFails, NEW path, path = writer.path, NEW batch, batch = writer.batch
  PROVE  \E lines : Writes(path, batch, lines) /\ Len(lines) # Len(batch)
<1>1. writer.pc = "opened" /\ zst' = zst
  BY DEF WriteFails
<1>2. PICK n \in 0 .. Len(batch) - 1 : Extend(path, SubSeq(batch, 1, n))
  BY DEF WriteFails
<1>3. PICK lines : lines = SubSeq(batch, 1, n)
  OBVIOUS
<1>4. batch \in Seq(Line) /\ Len(batch) \in Nat
  BY <1>1, OpenedIs, LineFacts
<1>5. n \in Nat /\ n <= Len(batch) /\ n # Len(batch)
  BY <1>2, <1>4
<1>6. lines \in Seq(Line) /\ Len(lines) = n /\ Prefix(lines, batch)
  <2>1. \A i \in 1 .. n : batch[i] \in Line
    BY <1>4, <1>5, LineFacts
  <2>2. lines \in Seq(Line) /\ Len(lines) = n /\ \A i \in 1 .. n : lines[i] = batch[i]
    BY <1>3, <1>4, <1>5, <2>1, SubSeqProperties
  <2> QED
    BY <1>5, <2>2 DEF Prefix
<1>7. Writes(path, batch, lines)
  BY <1>1, <1>2, <1>3, <1>6 DEF Writes
<1> QED
  BY <1>5, <1>6, <1>7

LEMMA WriteFailsKeeps == LogInvariant /\ WriteFails => LogInvariant'
<1> SUFFICES ASSUME LogInvariant, WriteFails
             PROVE  LogInvariant'
  OBVIOUS
<1>1. PICK path : path = writer.path
  OBVIOUS
<1>2. PICK batch : batch = writer.batch
  OBVIOUS
<1>3. /\ writer.pc = "opened" /\ Spend("faults") /\ FailAppend
      /\ torn' \in {torn, torn \cup {path}} /\ UNCHANGED <<zst, acked, comp, wake>>
  BY <1>1 DEF WriteFails
<1>4. PICK lines : Writes(path, batch, lines)
  BY <1>1, <1>2, PartIsWritten
<1>5. writer' = Down /\ cache' = None /\ mem' = None /\ writer'.pc = "down"
  BY <1>3 DEF FailAppend, Down
<1>6. /\ used' \in [appends : 0 .. MaxAppends, crashes : Nat, faults : Nat]
       /\ used'.appends = used.appends /\ used'.faults # 0
  BY <1>3, UsedStays DEF LogInvariant
<1>7. FilesBounded' /\ FilesFormed' /\ DirectoryHolds' /\ SnapshotsHold'
  BY <1>4, ExtendKeeps
<1>8. TypeOK' /\ AckedHold' /\ NumbersHold' /\ CompressorHolds'
  <2>1. torn' \subseteq torn \cup {path}
    BY <1>3
  <2>2. mem' \in (SUBSET Ids) \cup {None} /\ cache' \in Nat \cup {None}
    BY <1>5
  <2>3. writer'.pc \in {"down", "written"} /\ (writer'.pc # "down" => mem' = mem)
    BY <1>5
  <2> QED
    BY <1>3, <1>4, <1>6, <2>1, <2>2, <2>3, WritingKeeps
<1>9. MemoryHolds' /\ FaultlessHolds'
  BY <1>5, <1>6 DEF MemoryHolds, FaultlessHolds
<1>10. WriterHolds'
  BY <1>5 DEF WriterHolds, CacheMatchesLog, OpenedHolds, WrittenHolds
<1> QED
  BY <1>7, <1>8, <1>9, <1>10 DEF LogInvariant

LEMMA WriteBatchKeeps == LogInvariant /\ WriteBatch => LogInvariant'
<1> SUFFICES ASSUME LogInvariant, WriteBatch
             PROVE  LogInvariant'
  OBVIOUS
<1>0. TypeOK /\ FilesFormed /\ NumbersHold /\ WriterHolds
  BY DEF LogInvariant
<1>1. PICK path : path = writer.path
  OBVIOUS
<1>2. PICK batch : batch = writer.batch
  OBVIOUS
<1>3. /\ writer.pc = "opened" /\ Extend(path, batch) /\ writer' = [writer EXCEPT !.pc = "written"]
      /\ UNCHANGED <<torn, zst, cache, mem, acked, comp, wake, used>>
  BY <1>1, <1>2 DEF WriteBatch
<1>4. /\ batch \in Seq(Line) /\ BatchFormed(batch) /\ path \notin DOMAIN zst
      /\ mem \in SUBSET Ids /\ path \in Nat \ {0}
      /\ \A d \in CommitsThere : Brings(d) \subseteq mem
      /\ \A id \in mem : \E d \in AllCommits(plain, zst) : id \in Brings(d)
  BY <1>1, <1>2, <1>3, OpenedIs
<1>5. Writes(path, batch, batch)
  BY <1>1, <1>2, WholeIsWritten
<1>6. writer \in [pc : {"opened", "written"}, path : Nat \ {0}, batch : Seq(Line)]
  BY <1>0, <1>3 DEF WriterHolds, Down, Ready
<1>7. /\ writer'.pc = "written" /\ writer'.path = path /\ writer'.batch = batch
      /\ writer' \in [pc : {"opened", "written"}, path : Nat \ {0}, batch : Seq(Line)]
  BY <1>1, <1>2, <1>3, <1>6
<1>8. FilesBounded' /\ FilesFormed' /\ DirectoryHolds' /\ SnapshotsHold'
  BY <1>5, ExtendKeeps
<1>9. /\ IsActive(path)'
      /\ Len(batch) <= Len(plain'[path])
      /\ \A i \in 1 .. Len(batch) : plain'[path][Len(plain'[path]) - Len(batch) + i] = batch[i]
      /\ \A f, v : f # path => (v \in Versions(f)' <=> v \in Versions(f))
      /\ \A c \in CommitsThere' : c \in CommitsThere \/ (c = batch[1] /\ Len(batch) = Len(batch))
      /\ AllCommits(plain, zst) \subseteq AllCommits(plain', zst')
  BY <1>5, ExtendKeeps
<1>10. TypeOK' /\ AckedHold' /\ NumbersHold' /\ CompressorHolds'
  <2>1. used' \in [appends : 0 .. MaxAppends, crashes : Nat, faults : Nat] /\ used'.appends = used.appends
    BY <1>0, <1>3, UsedStays
  <2>2. mem' \in (SUBSET Ids) \cup {None} /\ cache' \in Nat \cup {None}
    BY <1>0, <1>3 DEF TypeOK
  <2>3. torn' \subseteq torn \cup {path} /\ writer'.pc \in {"down", "written"} /\ mem' = mem
    BY <1>3, <1>7
  <2> QED
    BY <1>3, <1>5, <2>1, <2>2, <2>3, WritingKeeps
<1>11. \A d : InFlight(d)' <=> d = batch[1]
  BY <1>7 DEF InFlight
<1>12. MemoryHolds'
  <2>1. \A d \in CommitsThere' : d = batch[1] \/ Brings(d) \subseteq mem
    BY <1>4, <1>9
  <2>2. \A id \in mem : \E d \in AllCommits(plain', zst') : id \in Brings(d)
    BY <1>4, <1>9
  <2> QED
    BY <1>3, <1>4, <1>11, <2>1, <2>2 DEF MemoryHolds, Brings
<1>13. FaultlessHolds'
  <2> SUFFICES ASSUME used.faults = 0
               PROVE  /\ FilesComplete'
                      /\ \A d \in AllCommits(plain', zst') : d = batch[1] \/ Brings(d) \subseteq mem
    BY <1>3, <1>11 DEF FaultlessHolds, Brings
  <2>1. FilesComplete
    BY DEF LogInvariant, FaultlessHolds
  <2>2. /\ DOMAIN plain' = DOMAIN plain \cup {path}
        /\ \A f \in DOMAIN plain : f # path => plain'[f] = plain[f]
        /\ \A f \in DOMAIN plain : synced'[f] = synced[f]
    BY <1>5, ExtendIs
  <2>3. \A f \in DOMAIN plain' : synced'[f] = Len(plain'[f]) \/ path = f
    BY <1>3, <2>1, <2>2 DEF FilesComplete
  <2>4. \A f \in DOMAIN zst' : \A u \in Versions(f)' : Covers(u, zst'[f])
    BY <1>3, <1>4, <1>9, <2>1 DEF FilesComplete
  <2>5. FilesComplete'
    BY <1>7, <2>3, <2>4 DEF FilesComplete, Covers
  <2>6. \A d \in AllCommits(plain', zst') : d = batch[1] \/ Brings(d) \subseteq mem
    BY <1>4, <1>9, ReadNext
  <2> QED
    BY <2>5, <2>6
<1>14. WriterHolds'
  <2>1. CacheMatchesLog' /\ OpenedHolds'
    BY <1>7 DEF CacheMatchesLog, OpenedHolds, Ready
  <2>2. BatchFormed(batch)'
    BY <1>3, <1>4 DEF BatchFormed
  <2>3. WrittenHolds'
    <3>1. IsActive(writer.path)' <=> IsActive(path)'
      BY <1>7 DEF IsActive
    <3>2. BatchFormed(writer.batch)'
      BY <1>7, <2>2 DEF BatchFormed
    <3> QED
      BY <1>7, <1>9, <3>1, <3>2 DEF WrittenHolds
  <2> QED
    BY <1>7, <2>1, <2>3 DEF WriterHolds
<1> QED
  BY <1>8, <1>10, <1>12, <1>13, <1>14 DEF LogInvariant

LEMMA DirectoryKept ==
  ASSUME TypeOK, FilesFormed, DirectoryHolds, UNCHANGED <<plain, zst, dirlog>>,
         \A f \in DOMAIN plain : synced'[f] \in Nat /\ synced[f] <= synced'[f]
  PROVE  /\ Narrows /\ DirectoryHolds'
         /\ \A f : Versions(f)' \subseteq Versions(f)
         /\ \A f \in Segments(plain, zst) : \A i, line : Durable(f, i, line) => Durable(f, i, line)'
<1>1. \A f : Versions(f)' = Versions(f)
  BY DEF Versions, Removed
<1>2. Narrows
  <2>1. \A f \in Segments(plain, zst) : \A v \in Versions(f) : v \in Seq(Line) /\ Prefix(v, v)
    <3> TAKE f \in Segments(plain, zst)
    <3> TAKE v \in Versions(f)
    <3>1. v \in Seq(Line)
      BY DEF FilesFormed, WellFormed
    <3> QED
      BY <3>1, LineFacts DEF Prefix
  <2> QED
    BY <1>1, <2>1 DEF Narrows, Segments
<1>3. \A op, k : Undone(op, k)' = Undone(op, k)
  BY DEF Undone
<1>4. \A k : FilesAt(k)' = FilesAt(k) /\ ZstAt(k)' = ZstAt(k)
  BY <1>3 DEF FilesAt, ZstAt
<1>5. DirectoryHolds'
  BY <1>1, <1>4 DEF DirectoryHolds
<1>6. ASSUME NEW f \in Segments(plain, zst), NEW i, NEW line, Durable(f, i, line)
      PROVE  Durable(f, i, line)'
  <2>1. line.cnt \in Nat /\ i \in Nat
    BY <1>6, DurableIsALine
  <2>2. f \in DOMAIN plain' => i + line.cnt - 1 <= synced'[f]
    <3> SUFFICES ASSUME f \in DOMAIN plain
                 PROVE  i + line.cnt - 1 <= synced'[f]
      OBVIOUS
    <3>1. i + line.cnt - 1 <= synced[f]
      BY <1>6 DEF Durable
    <3>2. synced[f] \in Nat /\ synced'[f] \in Nat /\ synced[f] <= synced'[f]
      BY LenProperties DEF TypeOK
    <3> QED
      BY <2>1, <3>1, <3>2
  <2> QED
    BY <1>1, <1>4, <1>6, <2>2 DEF Durable, At
<1> QED
  BY <1>1, <1>2, <1>5, <1>6

\* A batch that was synced is a commit at the end of the last segment.
LEMMA WrittenIs ==
  ASSUME LogInvariant, writer.pc = "written", NEW path, path = writer.path, NEW batch, batch = writer.batch
  PROVE  /\ IsActive(path) /\ path \in DOMAIN plain /\ path \in Segments(plain, zst)
         /\ Lines(plain, zst, path) = plain[path] /\ plain[path] \in Seq(Line)
         /\ \A v \in Versions(path) : v = plain[path]
         /\ \E i \in 1 .. Len(plain[path]) :
              At(plain[path], i, batch[1]) /\ i + batch[1].cnt - 1 = Len(plain[path])
         /\ batch[1] \in AllCommits(plain, zst)
         /\ batch[1] \in Line /\ batch[1].id = used.appends
         /\ batch[1].kind = "snapshot" => batch[1].state = mem
         /\ Last(batch).seq \in Nat /\ LastSequence(plain, zst) = Last(batch).seq
<1>1. TypeOK /\ FilesFormed /\ FilesBounded /\ DirectoryHolds /\ WrittenHolds
  BY DEF LogInvariant, WriterHolds
<1>2. PICK lines : lines = plain[path]
  OBVIOUS
<1>3. PICK n : n = Len(batch)
  OBVIOUS
<1>4. PICK l : l = Len(lines)
  OBVIOUS
<1>5. /\ BatchFormed(batch) /\ IsActive(path)
      /\ n <= l /\ \A i \in 1 .. n : lines[l - n + i] = batch[i]
  BY <1>1, <1>2, <1>3, <1>4 DEF WrittenHolds
<1>6. path \in DOMAIN plain /\ path \in Segments(plain, zst)
  BY <1>5 DEF IsActive, Segments
<1>7. Latest(plain, zst, path) /\ \A v \in Versions(path) : v = plain[path]
  BY <1>1, <1>5, ActiveIsLatest
<1>8. Lines(plain, zst, path) = lines
  BY <1>2, <1>7, LatestIs
<1>9. WellFormed(lines, path) /\ lines \in Seq(Line)
  BY <1>1, <1>6, <1>8, ReadIsAVersion
<1>10. batch \in Seq(Line) /\ batch # <<>>
  BY <1>5 DEF BatchFormed
<1>11. n \in Nat /\ l \in Nat /\ n # 0 /\ 1 \in 1 .. n /\ n \in 1 .. n /\ batch[1] \in Line /\ batch[n] \in Line
  BY <1>3, <1>4, <1>9, <1>10, LineFacts
<1>12. PICK s : s = batch[1].seq
  OBVIOUS
<1>13. \A i \in 1 .. n : batch[i].cnt = n /\ batch[i].idx = i - 1 /\ batch[i].seq = s + i - 1
  BY <1>3, <1>5, <1>12 DEF BatchFormed
<1>14. s \in Nat
  BY <1>11, <1>12 DEF Line
<1>15. PICK i : i = l - n + 1
  OBVIOUS
<1>16. i \in 1 .. l /\ i + n - 1 = l
  BY <1>5, <1>11, <1>15
<1>17. lines[i] = batch[1] /\ batch[1].cnt = n /\ batch[1].idx = 0
  BY <1>5, <1>11, <1>13, <1>15
<1>18. BatchAt(lines, i)
  <2>1. ASSUME NEW k \in 0 .. n - 1
        PROVE  lines[i + k].idx = k /\ lines[i + k].cnt = n /\ lines[i + k].seq = s + k
    <3>1. k + 1 \in 1 .. n /\ i + k = l - n + (k + 1)
      BY <1>11, <1>15
    <3>2. lines[i + k] = batch[k + 1]
      BY <1>5, <3>1
    <3>3. batch[k + 1].cnt = n /\ batch[k + 1].idx = (k + 1) - 1 /\ batch[k + 1].seq = s + (k + 1) - 1
      BY <1>13, <3>1
    <3>4. (k + 1) - 1 = k /\ s + (k + 1) - 1 = s + k
      BY <1>14
    <3> QED
      BY <3>2, <3>3, <3>4
  <2>2. \A j \in 1 .. i - 1 : lines[j].seq < lines[i].seq
    BY <1>4, <1>9, <1>16 DEF WellFormed
  <2> QED
    BY <1>4, <1>12, <1>16, <1>17, <2>1, <2>2 DEF BatchAt
<1>19. At(lines, i, batch[1]) /\ i \in 1 .. Len(lines) /\ i + batch[1].cnt - 1 = Len(lines)
  BY <1>4, <1>16, <1>17, <1>18 DEF At
<1>20. batch[1] \in AllCommits(plain, zst)
  <2>1. batch[1] \in Commits(lines)
    BY <1>4, <1>9, <1>16, <1>17, <1>18, CommitsAre
  <2> QED
    BY <1>6, <1>8, <2>1 DEF AllCommits
<1>21. batch[1].id = used.appends /\ (batch[1].kind = "snapshot" => batch[1].state = mem)
  BY <1>3, <1>5, <1>11 DEF BatchFormed
<1>22. Last(batch).seq \in Nat /\ LastSequence(plain, zst) = Last(batch).seq
  <2>1. Last(batch) = batch[n]
    BY <1>3 DEF Last
  <2>2. Last(lines) = lines[l]
    BY <1>4 DEF Last
  <2>3. lines[l - n + n] = batch[n] /\ l - n + n = l
    BY <1>5, <1>11
  <2>4. lines # <<>>
    BY <1>4, <1>5, <1>9, <1>11, LineFacts
  <2>5. LastSequence(plain, zst) = Last(lines).seq
    BY <1>2, <1>7, <2>4, LatestIs
  <2>6. batch[n].seq \in Nat
    BY <1>11 DEF Line
  <2> QED
    BY <2>1, <2>2, <2>3, <2>5, <2>6
<1> QED
  BY <1>2, <1>5, <1>6, <1>7, <1>8, <1>9, <1>11, <1>19, <1>20, <1>21, <1>22

\* A synced batch is acknowledged: it is on disk with its file.
LEMMA SyncBatchKeeps ==
  LogInvariant /\ SyncBatch => LogInvariant' /\ Narrows
<1> SUFFICES ASSUME LogInvariant, SyncBatch
             PROVE  LogInvariant' /\ Narrows
  OBVIOUS
<1>0. /\ TypeOK /\ FilesBounded /\ FilesFormed /\ DirectoryHolds /\ SnapshotsHold /\ AckedHold
      /\ MemoryHolds /\ NumbersHold /\ FaultlessHolds /\ CompressorHolds
  BY DEF LogInvariant
<1>1. PICK path : path = writer.path
  OBVIOUS
<1>2. PICK batch : batch = writer.batch
  OBVIOUS
<1>3. PICK b : b = batch[1]
  OBVIOUS
<1>4. /\ writer.pc = "written"
      /\ synced' = [synced EXCEPT ![path] = Len(plain[path])]
      /\ cache' = Last(batch).seq
      /\ acked' = acked \cup {b.id}
      /\ mem' = IF b.kind = "snapshot" THEN mem ELSE mem \cup {b.id}
      /\ wake' = (wake \/ (b.kind = "snapshot" /\ path = b.seq))
      /\ writer' = Ready
      /\ UNCHANGED <<plain, torn, zst, comp, used>>
  BY <1>1, <1>2, <1>3 DEF SyncBatch
<1>5. \/ dirlog' = <<>>
      \/ dirlog' = dirlog /\ \A i \in 1 .. Len(dirlog) : ~(dirlog[i].op = "create" /\ dirlog[i].file = path)
  BY <1>1 DEF SyncBatch
<1>6. /\ IsActive(path) /\ path \in DOMAIN plain /\ path \in Segments(plain, zst)
      /\ Lines(plain, zst, path) = plain[path] /\ plain[path] \in Seq(Line)
      /\ \A v \in Versions(path) : v = plain[path]
      /\ b \in AllCommits(plain, zst) /\ b \in Line /\ b.id = used.appends
      /\ b.kind = "snapshot" => b.state = mem
      /\ cache' \in Nat /\ LastSequence(plain, zst) = cache'
  BY <1>1, <1>2, <1>3, <1>4, WrittenIs
<1>7. PICK i \in 1 .. Len(plain[path]) : At(plain[path], i, b) /\ i + b.cnt - 1 = Len(plain[path])
  BY <1>1, <1>2, <1>3, <1>4, WrittenIs
<1>8. b.id \in Ids
  BY <1>6 DEF Line
<1>9. mem \in SUBSET Ids /\ mem' \in SUBSET Ids /\ mem \subseteq mem' /\ Brings(b) \subseteq mem'
  <2>1. mem \in SUBSET Ids
    BY <1>0, <1>4 DEF MemoryHolds
  <2> QED
    BY <1>4, <1>6, <1>8, <2>1 DEF Brings
<1>10. /\ DOMAIN synced' = DOMAIN plain /\ synced'[path] = Len(plain[path])
       /\ \A f \in DOMAIN plain : f # path => synced'[f] = synced[f]
  BY <1>0, <1>4, <1>6 DEF TypeOK
<1>11. \A f \in DOMAIN plain : /\ synced[f] \in Nat /\ synced'[f] \in Nat /\ synced[f] <= synced'[f]
                              /\ synced'[f] \in 0 .. Len(plain[f])
  <2> TAKE f \in DOMAIN plain
  <2>1. synced[f] \in 0 .. Len(plain[f]) /\ Len(plain[f]) \in Nat
    BY <1>0, LenProperties DEF TypeOK
  <2> QED
    BY <1>10, <2>1
<1>12. /\ Narrows /\ DirectoryHolds'
       /\ \A f : Versions(f)' \subseteq Versions(f)
       /\ \A f \in Segments(plain, zst) : \A n, line : Durable(f, n, line) => Durable(f, n, line)'
  <2>1. UNCHANGED <<plain, zst>> /\ \A f \in DOMAIN plain : synced'[f] \in Nat /\ synced[f] <= synced'[f]
    BY <1>4, <1>11
  <2>2. CASE dirlog' = <<>>
    BY <1>0, <2>1, <2>2, DirectorySynced
  <2>3. CASE dirlog' = dirlog
    BY <1>0, <2>1, <2>3, DirectoryKept
  <2> QED
    BY <1>5, <2>2, <2>3
<1>13. /\ FilesFormed' /\ SnapshotsHold'
       /\ LinesThere' \subseteq LinesThere /\ CommitsThere' \subseteq CommitsThere
  BY <1>0, <1>12, NarrowsKeeps
<1>14. writer'.pc = "ready" /\ \A d : ~InFlight(d)'
  BY <1>4 DEF Ready, InFlight
<1>15. Durable(path, i, b)'
  <2>1. \A v \in Versions(path)' : At(v, i, b)
    BY <1>6, <1>7, <1>12
  <2>2. i + b.cnt - 1 <= synced'[path]
    <3>1. Len(plain[path]) \in Nat
      BY <1>6, LineFacts
    <3> QED
      BY <1>7, <1>10, <3>1
  <2>3. ASSUME NEW k \in 0 .. Len(dirlog')
        PROVE  path \in FilesAt(k)'
    <3>1. \A j \in 1 .. Len(dirlog') : ~(dirlog'[j].op = "create" /\ dirlog'[j].file = path)
      <4>1. CASE dirlog' = <<>>
        <5>1. Len(dirlog') = 0
          BY <4>1, EmptySeq
        <5> QED
          BY <5>1
      <4> QED
        BY <1>5, <4>1
    <3>2. \A j \in k + 1 .. Len(dirlog') : j \in 1 .. Len(dirlog')
      <4>1. Len(dirlog') \in Nat
        BY <1>12, LenProperties DEF DirectoryHolds
      <4> QED
        BY <4>1
    <3>3. path \notin Undone("create", k)'
      BY <3>1, <3>2 DEF Undone
    <3> QED
      BY <1>4, <1>6, <3>3 DEF FilesAt
  <2> QED
    BY <1>4, <2>1, <2>2, <2>3 DEF Durable, At
<1>16. AckedHold'
  <2>1. \A id \in acked : Placed(id)'
    <3>1. \A f \in Segments(plain, zst) : \A n, line :
            Durable(f, n, line) => f \in Segments(plain, zst)' /\ Durable(f, n, line)'
      BY <1>4, <1>12 DEF Segments
    <3>2. \A d \in AllCommits(plain, zst) :
            (writer.pc # "down" => Brings(d) \subseteq mem) => (writer'.pc # "down" => Brings(d) \subseteq mem')
      BY <1>4, <1>9
    <3> QED
      BY <1>0, <3>1, <3>2, PlacesRemain
  <2>2. Placed(b.id)'
    <3>1. path \in Segments(plain', zst') /\ Lines(plain', zst', path) = plain[path]
      BY <1>4, <1>6
    <3>2. i \in 1 .. Len(Lines(plain', zst', path)) /\ b \in {Lines(plain', zst', path)[i]}
      BY <1>7, <3>1 DEF At
    <3> HIDE DEF Durable, Lines, Segments
    <3> QED
      BY <1>9, <1>15, <3>1, <3>2 DEF Placed, Brings
  <2>3. \A id : id = b.id => Placed(id)'
    BY <2>2
  <2> QED
    BY <1>4, <2>1, <2>3 DEF AckedHold
<1>17. \A d : InFlight(d) => d = b
  BY <1>2, <1>3 DEF InFlight
<1>18. MemoryHolds'
  <2>1. \A id \in mem' : \E d \in AllCommits(plain, zst) : id \in Brings(d)
    <3>1. \A id \in mem : \E d \in AllCommits(plain, zst) : id \in Brings(d)
      BY <1>0, <1>4 DEF MemoryHolds
    <3>2. \A id \in mem' : id \in mem \/ (b.kind # "snapshot" /\ id = b.id)
      BY <1>4
    <3> QED
      BY <1>6, <3>1, <3>2 DEF Brings
  <2>2. ~Stuck' => \A d \in CommitsThere' : Brings(d) \subseteq mem'
    <3>1. Stuck' <=> Stuck
      BY <1>4 DEF Stuck, IsActive
    <3>2. ~Stuck => \A d \in CommitsThere : InFlight(d) \/ Brings(d) \subseteq mem
      BY <1>0, <1>4 DEF MemoryHolds
    <3> QED
      BY <1>9, <1>13, <1>17, <3>1, <3>2
  <2> QED
    BY <1>4, <1>9, <2>1, <2>2 DEF MemoryHolds, Brings
<1>19. NumbersHold'
  <2>1. Given' = Given
    BY <1>4, <1>14 DEF Given
  <2> QED
    BY <1>0, <1>4, <1>13, <2>1 DEF NumbersHold, Brings
<1>20. FaultlessHolds'
  <2> SUFFICES ASSUME used.faults = 0
               PROVE  FilesComplete' /\ \A d \in AllCommits(plain, zst) : Brings(d) \subseteq mem'
    BY <1>4, <1>14 DEF FaultlessHolds, Brings
  <2>1. FilesComplete /\ \A d \in AllCommits(plain, zst) : InFlight(d) \/ Brings(d) \subseteq mem
    BY <1>0, <1>4 DEF FaultlessHolds
  <2>2. \A f \in DOMAIN plain : synced'[f] = Len(plain[f])
    BY <1>1, <1>10, <2>1 DEF FilesComplete
  <2>3. FilesComplete'
    BY <1>4, <1>12, <2>1, <2>2 DEF FilesComplete, Covers
  <2> QED
    BY <1>9, <1>17, <2>1, <2>3
<1>21. WriterHolds'
  <2>1. CacheMatchesLog'
    BY <1>4, <1>6 DEF CacheMatchesLog
  <2>2. OpenedHolds' /\ WrittenHolds'
    BY <1>14 DEF OpenedHolds, WrittenHolds
  <2> QED
    BY <1>4, <1>14, <2>1, <2>2 DEF WriterHolds
<1>22. CompressorHolds'
  BY <1>0, <1>4 DEF CompressorHolds
<1>23. TypeOK'
  <2>1. \A f \in DOMAIN plain' : synced'[f] \in 0 .. Len(plain'[f])
    BY <1>4, <1>11
  <2>2. DOMAIN synced' = DOMAIN plain'
    BY <1>4, <1>10
  <2>3. cache' \in Nat \cup {None} /\ mem' \in (SUBSET Ids) \cup {None} /\ acked' \subseteq Ids
    BY <1>0, <1>4, <1>6, <1>8, <1>9 DEF TypeOK
  <2>4. wake' \in BOOLEAN
    BY <1>4
  <2>5. writer'.pc \in {"down", "ready", "opened", "written"}
    BY <1>14
  <2> QED
    BY <1>0, <1>4, <2>1, <2>2, <2>3, <2>4, <2>5 DEF TypeOK
<1>24. FilesBounded'
  BY <1>0, <1>4 DEF FilesBounded
<1>25. LogInvariant'
  BY <1>12, <1>13, <1>16, <1>18, <1>19, <1>20, <1>21, <1>22, <1>23, <1>24 DEF LogInvariant
<1> QED
  BY <1>12, <1>25

-----------------------------------------------------------------------------
(* A crash leaves one of the directories, and in it a part of each file that *)
(* has every line known to be on disk.                                       *)

\* What is left of one file: what was synced, or all of a file that had been
\* removed.
Survives(f) ==
  \E v \in Versions(f) :
    /\ plain'[f] \in Seq(Line) /\ Prefix(plain'[f], v) /\ synced'[f] = Len(plain'[f])
    /\ Len(v) = Len(plain'[f]) => plain'[f] = v
    /\ IF f \in DOMAIN plain THEN v = plain[f] /\ synced[f] <= Len(plain'[f]) ELSE v = plain'[f]
Leaves(k) ==
  /\ DOMAIN plain' = FilesAt(k) /\ DOMAIN synced' = FilesAt(k) /\ torn' \subseteq FilesAt(k)
  /\ DOMAIN zst' = ZstAt(k) /\ \A f \in ZstAt(k) : zst'[f] = zst[f]
  /\ \A f \in FilesAt(k) : Survives(f)

LEMMA CutIsAPrefix ==
  ASSUME NEW v \in Seq(Line), NEW n \in 0 .. Len(v), NEW u, u = SubSeq(v, 1, n)
  PROVE  u \in Seq(Line) /\ Len(u) = n /\ Prefix(u, v) /\ (Len(v) = Len(u) => u = v)
<1>1. Len(v) \in Nat /\ n \in Nat /\ n <= Len(v)
  BY LineFacts
<1>2. \A i \in 1 .. n : v[i] \in Line
  BY <1>1, LineFacts
<1>3. u \in Seq(Line) /\ Len(u) = n /\ \A i \in 1 .. n : u[i] = v[i]
  BY <1>1, <1>2, SubSeqProperties
<1>4. Prefix(u, v)
  BY <1>1, <1>3 DEF Prefix
<1>5. Len(v) = Len(u) => u = v
  BY <1>3, SeqEqual
<1> QED
  BY <1>3, <1>4, <1>5

LEMMA UndoneFilesAre ==
  ASSUME DirectoryHolds, NEW k \in 0 .. Len(dirlog), NEW op
  PROVE  /\ Undone(op, k) = {f \in Segments(plain, zst) : \E i \in k + 1 .. Len(dirlog) :
                               dirlog[i].op = op /\ dirlog[i].file = f}
         /\ Undone(op, k) \subseteq Segments(plain, zst)
<1>1. \A i \in k + 1 .. Len(dirlog) : i \in 1 .. Len(dirlog)
  BY LenProperties DEF DirectoryHolds
<1>2. \A i \in k + 1 .. Len(dirlog) : dirlog[i].file \in Segments(plain, zst)
  BY <1>1 DEF DirectoryHolds
<1> QED
  BY <1>2 DEF Undone

LEMMA CrashIs ==
  ASSUME TypeOK, FilesFormed, DirectoryHolds, Crash
  PROVE  \E k \in 0 .. Len(dirlog) : Leaves(k)
<1>1. PICK k \in 0 .. Len(dirlog) :
       LET undone(op) == {f \in Segments(plain, zst) : \E i \in k + 1 .. Len(dirlog) :
                            dirlog[i].op = op /\ dirlog[i].file = f}
           back == undone("unlink") \ undone("create")
           files == (DOMAIN plain \cup back) \ undone("create")
           lines(f) == IF f \in DOMAIN plain THEN plain[f]
                       ELSE dirlog[CHOOSE i \in 1 .. Len(dirlog) :
                              dirlog[i].op = "unlink" /\ dirlog[i].file = f].lines
           kept(f)  == IF f \in DOMAIN plain THEN synced[f] ELSE Len(lines(f))
       IN  \E n \in [files -> 0 .. MaxAppends * MaxBatch] :
             /\ \A f \in files : n[f] \in kept(f) .. Len(lines(f))
             /\ plain' = [f \in files |-> SubSeq(lines(f), 1, n[f])]
             /\ synced' = n
             /\ torn' \in SUBSET {f \in files : n[f] < Len(lines(f)) \/ f \in torn}
             /\ zst' = Without(zst, undone("link"))
  BY DEF Crash
<1> DEFINE undone(op) == {f \in Segments(plain, zst) : \E i \in k + 1 .. Len(dirlog) :
                            dirlog[i].op = op /\ dirlog[i].file = f}
           files == (DOMAIN plain \cup (undone("unlink") \ undone("create"))) \ undone("create")
           lines(f) == IF f \in DOMAIN plain THEN plain[f]
                       ELSE dirlog[CHOOSE i \in 1 .. Len(dirlog) :
                              dirlog[i].op = "unlink" /\ dirlog[i].file = f].lines
<1>2. PICK n \in [files -> 0 .. MaxAppends * MaxBatch] :
        /\ \A f \in files : n[f] \in (IF f \in DOMAIN plain THEN synced[f] ELSE Len(lines(f))) .. Len(lines(f))
        /\ plain' = [f \in files |-> SubSeq(lines(f), 1, n[f])]
        /\ synced' = n
        /\ torn' \in SUBSET {f \in files : n[f] < Len(lines(f)) \/ f \in torn}
        /\ zst' = Without(zst, undone("link"))
  BY <1>1
<1>3. \A op : undone(op) = Undone(op, k)
  BY UndoneFilesAre
<1>4. files = FilesAt(k)
  BY <1>3 DEF FilesAt
<1>5. DOMAIN zst' = ZstAt(k) /\ \A f \in ZstAt(k) : zst'[f] = zst[f]
  BY <1>2, <1>3 DEF ZstAt, Without
<1>6. ASSUME NEW f \in FilesAt(k)
      PROVE  /\ lines(f) \in Versions(f)
             /\ f \in DOMAIN plain => lines(f) = plain[f]
  <2>1. CASE f \in DOMAIN plain
    BY <2>1, VersionsAre
  <2>2. CASE f \notin DOMAIN plain
    <3>1. f \in undone("unlink")
      BY <1>4, <1>6, <2>2
    <3>2. \E i \in 1 .. Len(dirlog) : dirlog[i].op = "unlink" /\ dirlog[i].file = f
      <4>1. \A i \in k + 1 .. Len(dirlog) : i \in 1 .. Len(dirlog)
        BY LenProperties DEF DirectoryHolds
      <4> QED
        BY <3>1, <4>1
    <3>3. PICK i : i = CHOOSE j \in 1 .. Len(dirlog) : dirlog[j].op = "unlink" /\ dirlog[j].file = f
      OBVIOUS
    <3>4. i \in 1 .. Len(dirlog) /\ dirlog[i].op = "unlink" /\ dirlog[i].file = f
      BY <3>2, <3>3
    <3>5. lines(f) = dirlog[i].lines
      BY <2>2, <3>3
    <3> QED
      BY <2>2, <3>4, <3>5, VersionsAre
  <2> QED
    BY <2>1, <2>2
<1>7. \A f \in FilesAt(k) : f \in Segments(plain, zst)
  <2>1. Undone("unlink", k) \subseteq Segments(plain, zst)
    BY UndoneFilesAre
  <2> QED
    BY <2>1 DEF FilesAt, Segments
<1>8. /\ \A f \in FilesAt(k) : n[f] \in (IF f \in DOMAIN plain THEN synced[f] ELSE Len(lines(f))) .. Len(lines(f))
      /\ DOMAIN plain' = FilesAt(k) /\ \A f \in FilesAt(k) : plain'[f] = SubSeq(lines(f), 1, n[f])
      /\ synced' = n /\ DOMAIN synced' = FilesAt(k) /\ torn' \subseteq FilesAt(k)
  BY <1>2, <1>4
<1> HIDE DEF undone, files, lines
<1>9. ASSUME NEW f \in FilesAt(k)
      PROVE  Survives(f)
  <2>1. PICK v \in Versions(f) : v = lines(f)
    BY <1>6
  <2>2. v \in Seq(Line) /\ Len(v) \in Nat
    BY <1>7, <2>1, LineFacts DEF FilesFormed, WellFormed
  <2>3. f \in DOMAIN plain => synced[f] \in Nat
    BY LenProperties DEF TypeOK
  <2>4. n[f] \in (IF f \in DOMAIN plain THEN synced[f] ELSE Len(v)) .. Len(v)
    BY <1>8, <2>1
  <2>5. /\ n[f] \in 0 .. Len(v)
        /\ f \in DOMAIN plain => synced[f] <= n[f]
        /\ f \notin DOMAIN plain => n[f] = Len(v)
    BY <2>2, <2>3, <2>4
  <2>6. plain'[f] = SubSeq(v, 1, n[f]) /\ synced'[f] = n[f]
    BY <1>8, <2>1
  <2>7. /\ plain'[f] \in Seq(Line) /\ Len(plain'[f]) = n[f] /\ Prefix(plain'[f], v)
        /\ Len(v) = Len(plain'[f]) => plain'[f] = v
    <3>1. PICK u, m : u = plain'[f] /\ m = n[f]
      OBVIOUS
    <3>2. u = SubSeq(v, 1, m) /\ m \in 0 .. Len(v)
      BY <2>5, <2>6, <3>1
    <3>3. u \in Seq(Line) /\ Len(u) = m /\ Prefix(u, v) /\ (Len(v) = Len(u) => u = v)
      BY <2>2, <3>2, CutIsAPrefix
    <3> QED
      BY <3>1, <3>3
  <2>8. f \in DOMAIN plain => v = plain[f]
    BY <1>6, <2>1
  <2> QED
    BY <2>1, <2>5, <2>6, <2>7, <2>8 DEF Survives
<1> QED
  BY <1>5, <1>8, <1>9 DEF Leaves

\* Nothing comes back that was not in the files, and what is durable stays.
LEMMA CrashLeaves ==
  ASSUME TypeOK, FilesFormed, DirectoryHolds, NEW k \in 0 .. Len(dirlog), Leaves(k), dirlog' = <<>>
  PROVE  /\ Narrows /\ Segments(plain', zst') \subseteq Segments(plain, zst)
         /\ DirectoryHolds'
         /\ \A f \in Segments(plain, zst) : \A i, line :
              Durable(f, i, line) => f \in Segments(plain, zst)' /\ Durable(f, i, line)'
<1>1. dirlog' \in Seq(Operation) /\ Len(dirlog') = 0 /\ \A i \in 1 .. Len(dirlog') : FALSE
  BY EmptySeq
<1>2. Segments(plain', zst') = FilesAt(k) \cup ZstAt(k)
  BY DEF Leaves, Segments
<1>3. FilesAt(k) \cup ZstAt(k) \subseteq Segments(plain, zst) /\ ZstAt(k) \subseteq DOMAIN zst
  <2>1. Undone("unlink", k) \subseteq Segments(plain, zst)
    BY UndoneFilesAre
  <2> QED
    BY <2>1 DEF FilesAt, ZstAt, Segments
<1>4. \A f, v : v \in Versions(f)' =>
        \/ f \in FilesAt(k) /\ v = plain'[f]
        \/ f \in ZstAt(k) /\ v = zst[f]
  BY <1>1, VersionsNext DEF Leaves
<1>5. \A f \in ZstAt(k) : zst[f] \in Versions(f)
  BY <1>3, VersionsAre
<1>6. \A f \in FilesAt(k) : Survives(f)
  BY DEF Leaves
<1>7. ASSUME NEW f \in Segments(plain, zst), NEW v \in Versions(f)
      PROVE  v \in Seq(Line) /\ Prefix(v, v)
  <2>1. v \in Seq(Line)
    BY DEF FilesFormed, WellFormed
  <2> QED
    BY <2>1, LineFacts DEF Prefix
<1>8. ASSUME NEW f \in FilesAt(k) \cup ZstAt(k), NEW v \in Versions(f)'
      PROVE  v \in Seq(Line) /\ \E w \in Versions(f) : Prefix(v, w)
  <2>1. CASE f \in FilesAt(k) /\ v = plain'[f]
    BY <1>6, <2>1 DEF Survives
  <2>2. CASE f \in ZstAt(k) /\ v = zst[f]
    BY <1>3, <1>5, <1>7, <2>2
  <2> QED
    BY <1>4, <2>1, <2>2
<1>9. Narrows
  BY <1>2, <1>3, <1>8 DEF Narrows, Segments
<1>10. FilesAt(0)' = FilesAt(k) /\ ZstAt(0)' = ZstAt(k)
  <2>1. \A op : Undone(op, 0)' = {}
    <3>1. \A i \in 0 + 1 .. Len(dirlog') : FALSE
      BY <1>1
    <3> QED
      BY <3>1 DEF Undone
  <2>2. FilesAt(0)' = DOMAIN plain' /\ ZstAt(0)' = DOMAIN zst'
    BY <2>1 DEF FilesAt, ZstAt
  <2> QED
    BY <2>2 DEF Leaves
<1>11. \A j \in 0 .. Len(dirlog') : j = 0
  BY <1>1
<1>12. DirectoryHolds'
  <2>1. \A j \in 0 .. Len(dirlog') : \A f \in ZstAt(j)' : \E g \in FilesAt(j)' : f < g
    BY <1>10, <1>11 DEF DirectoryHolds
  <2>2. ASSUME NEW f \in DOMAIN zst', NEW v \in Versions(f)'
        PROVE  Covers(zst'[f], v)
    <3>1. f \in ZstAt(k) /\ f \in DOMAIN zst /\ zst'[f] = zst[f] /\ f \in Segments(plain, zst)
      BY <1>3 DEF Leaves
    <3>2. PICK w \in Versions(f) : v \in Seq(Line) /\ Prefix(v, w)
      BY <1>8, <3>1
    <3>3. w \in Seq(Line) /\ Covers(zst[f], w)
      BY <1>7, <3>1 DEF DirectoryHolds
    <3>4. \A i \in 1 .. Len(v) : i \in 1 .. Len(w) /\ v[i] = w[i] /\ (BatchAt(v, i) => BatchAt(w, i))
      BY <3>2, <3>3, PrefixKeepsBatches
    <3> QED
      BY <3>1, <3>3, <3>4 DEF Covers
  <2> QED
    BY <1>1, <2>1, <2>2 DEF DirectoryHolds, Covers
<1>13. ASSUME NEW f \in Segments(plain, zst), NEW i, NEW line, Durable(f, i, line)
       PROVE  f \in Segments(plain, zst)' /\ Durable(f, i, line)'
  <2>1. i \in Nat /\ i # 0 /\ line.cnt \in Nat /\ line.cnt # 0
    BY <1>13, DurableIsALine
  <2>2. f \in FilesAt(k) \cup ZstAt(k) /\ \A v \in Versions(f) : At(v, i, line)
    BY <1>13 DEF Durable
  <2>3. f \in FilesAt(k) => At(plain'[f], i, line) /\ i + line.cnt - 1 <= synced'[f]
    <3> SUFFICES ASSUME f \in FilesAt(k)
                 PROVE  At(plain'[f], i, line) /\ i + line.cnt - 1 <= synced'[f]
      OBVIOUS
    <3>1. PICK u : u = plain'[f]
      OBVIOUS
    <3>2. PICK v \in Versions(f) :
            /\ u \in Seq(Line) /\ Prefix(u, v) /\ synced'[f] = Len(u)
            /\ IF f \in DOMAIN plain THEN v = plain[f] /\ synced[f] <= Len(u) ELSE v = u
      BY <1>6, <3>1 DEF Survives
    <3>3. At(v, i, line) /\ v \in Seq(Line)
      BY <1>7, <2>2
    <3>4. i \in 1 .. Len(v) /\ BatchAt(v, i) /\ v[i] = line
      BY <3>3 DEF At
    <3>5. i + line.cnt - 1 <= Len(v)
      BY <3>4 DEF BatchAt
    <3>6. Len(u) \in Nat /\ Len(v) \in Nat
      BY <3>2, <3>3, LineFacts
    <3>7. i + line.cnt - 1 <= Len(u)
      <4>1. CASE f \in DOMAIN plain
        <5>1. i + line.cnt - 1 <= synced[f] /\ synced[f] <= Len(u)
          BY <1>13, <3>2, <4>1 DEF Durable
        <5>2. synced[f] \in Nat
          BY <4>1, LenProperties DEF TypeOK
        <5> QED
          BY <2>1, <3>6, <5>1, <5>2
      <4>2. CASE f \notin DOMAIN plain
        BY <3>2, <3>5, <4>2
      <4> QED
        BY <4>1, <4>2
    <3>8. i \in 1 .. Len(u)
      BY <2>1, <3>6, <3>7
    <3>9. u[i] = line /\ BatchAt(u, i)
      BY <3>2, <3>3, <3>4, <3>7, <3>8, PrefixKeepsBatches
    <3> QED
      BY <3>1, <3>2, <3>7, <3>8, <3>9 DEF At
  <2>4. \A v \in Versions(f)' : At(v, i, line)
    BY <1>4, <1>5, <2>2, <2>3
  <2>5. f \in Segments(plain, zst)'
    BY <1>2, <2>2 DEF Segments
  <2>6. f \in DOMAIN plain' => i + line.cnt - 1 <= synced'[f]
    BY <2>3 DEF Leaves
  <2>7. \A j \in 0 .. Len(dirlog') : f \in FilesAt(j)' \cup ZstAt(j)'
    BY <1>10, <1>11, <2>2
  <2> QED
    BY <2>4, <2>5, <2>6, <2>7 DEF Durable, At
<1> QED
  BY <1>2, <1>3, <1>9, <1>12, <1>13

\* With no failed step a file is whole after a crash, or it is the one that
\* was being appended to.
LEMMA CrashCompletes ==
  ASSUME TypeOK, FilesFormed, FilesBounded, DirectoryHolds, WrittenHolds, FilesComplete,
         NEW k \in 0 .. Len(dirlog), Leaves(k), dirlog' = <<>>
  PROVE  FilesComplete'
<1>1. \A f \in DOMAIN plain' : f \in FilesAt(k) /\ Survives(f)
  BY DEF Leaves
<1>2. \A f \in DOMAIN plain' : synced'[f] = Len(plain'[f])
  BY <1>1 DEF Survives
<1>3. ASSUME NEW f \in DOMAIN zst', NEW v \in Versions(f)'
      PROVE  Covers(v, zst'[f])
  <2>1. f \in ZstAt(k) /\ f \in DOMAIN zst /\ zst'[f] = zst[f]
    BY DEF Leaves, ZstAt
  <2>2. ~\E i \in 1 .. Len(dirlog') : TRUE
    <3>1. Len(dirlog') = 0
      BY EmptySeq
    <3> QED
      BY <3>1
  <2>3. v = zst[f] \/ (f \in DOMAIN plain' /\ v = plain'[f])
    BY <2>1, <2>2, VersionsNext
  <2>4. v \in Versions(f)
    <3>1. CASE v = zst[f]
      BY <2>1, <3>1, VersionsAre
    <3>2. CASE f \in DOMAIN plain' /\ v = plain'[f]
      <4>1. PICK w \in Versions(f) :
              /\ synced'[f] = Len(v)
              /\ Prefix(v, w) /\ (Len(w) = Len(v) => v = w)
              /\ IF f \in DOMAIN plain THEN w = plain[f] /\ synced[f] <= Len(v) ELSE w = v
        BY <1>1, <3>2 DEF Survives
      <4>2. CASE f \in DOMAIN plain
        <5>1. ~(writer.pc = "written" /\ writer.path = f)
          <6>1. ~IsActive(f)
            BY <2>1, ActiveIsLatest
          <6>2. writer.pc = "written" => IsActive(writer.path)
            BY DEF WrittenHolds
          <6> QED
            BY <6>1, <6>2 DEF IsActive
        <5>2. synced[f] = Len(w)
          BY <4>1, <4>2, <5>1 DEF FilesComplete
        <5>3. Len(w) <= Len(v) /\ Len(v) <= Len(w)
          BY <4>1, <4>2, <5>2 DEF Prefix
        <5>4. Len(v) \in Nat /\ Len(w) \in Nat
          <6>1. synced[f] \in Nat
            BY <4>2, LenProperties DEF TypeOK
          <6>2. v \in Seq(Line)
            BY <1>1, <3>2 DEF Survives
          <6> QED
            BY <5>2, <6>1, <6>2, LineFacts
        <5> QED
          BY <4>1, <5>3, <5>4
      <4> QED
        BY <4>1, <4>2
    <3> QED
      BY <2>3, <3>1, <3>2
  <2> QED
    BY <2>1, <2>4 DEF FilesComplete
<1> QED
  BY <1>2, <1>3 DEF FilesComplete, Covers

LEMMA CrashKeeps ==
  LogInvariant /\ Crash => LogInvariant' /\ Narrows
<1> SUFFICES ASSUME LogInvariant, Crash
             PROVE  LogInvariant' /\ Narrows
  OBVIOUS
<1>0. /\ TypeOK /\ FilesBounded /\ FilesFormed /\ DirectoryHolds /\ SnapshotsHold /\ AckedHold
      /\ NumbersHold /\ FaultlessHolds /\ WrittenHolds
  BY DEF LogInvariant, WriterHolds
<1>1. /\ dirlog' = <<>> /\ cache' = None /\ writer' = Down /\ mem' = None
      /\ comp' = Compressor /\ wake' = FALSE /\ acked' = acked /\ Spend("crashes")
  BY DEF Crash
<1>2. PICK k \in 0 .. Len(dirlog) : Leaves(k)
  BY <1>0, CrashIs
<1>3. writer'.pc = "down"
  BY <1>1 DEF Down
<1>4. /\ used' \in [appends : 0 .. MaxAppends, crashes : Nat, faults : Nat]
      /\ used'.appends = used.appends /\ used'.faults = used.faults
  BY <1>0, <1>1, UsedStays
<1>5. /\ Narrows /\ Segments(plain', zst') \subseteq Segments(plain, zst)
      /\ DirectoryHolds'
      /\ \A f \in Segments(plain, zst) : \A i, line :
           Durable(f, i, line) => f \in Segments(plain, zst)' /\ Durable(f, i, line)'
  BY <1>0, <1>1, <1>2, CrashLeaves
<1>6. FilesFormed' /\ SnapshotsHold' /\ LinesThere' \subseteq LinesThere
  BY <1>0, <1>5, NarrowsKeeps
<1>7. FilesBounded'
  BY <1>0, <1>5 DEF FilesBounded
<1>8. TypeOK'
  <2>1. DOMAIN plain' \subseteq Nat \ {0} /\ DOMAIN zst' \subseteq Nat \ {0}
    BY <1>0, <1>5 DEF TypeOK, Segments
  <2>2. \A f \in DOMAIN zst' : zst'[f] \in Seq(Line)
    BY <1>0, <1>2 DEF TypeOK, Leaves, ZstAt
  <2>3. /\ DOMAIN synced' = DOMAIN plain' /\ torn' \subseteq DOMAIN plain'
        /\ \A f \in DOMAIN plain' : plain'[f] \in Seq(Line) /\ synced'[f] = Len(plain'[f])
    BY <1>2 DEF Leaves, Survives
  <2>4. \A f \in DOMAIN plain' : synced'[f] \in 0 .. Len(plain'[f])
    <3> TAKE f \in DOMAIN plain'
    <3>1. Len(plain'[f]) \in Nat
      BY <2>3, LenProperties
    <3> QED
      BY <2>3, <3>1
  <2>5. cache' \in Nat \cup {None} /\ mem' \in (SUBSET Ids) \cup {None} /\ wake' \in BOOLEAN
    BY <1>1
  <2>6. comp'.pc \in {"scan", "next", "copied", "renamed", "linked", "removed"}
    BY <1>1 DEF Compressor
  <2>7. acked' \subseteq Ids
    BY <1>0, <1>1 DEF TypeOK
  <2> QED
    BY <1>3, <2>1, <2>2, <2>3, <2>4, <2>5, <2>6, <2>7 DEF TypeOK
<1>9. AckedHold'
  BY <1>0, <1>1, <1>3, <1>5, PlacesStay
<1>10. MemoryHolds'
  BY <1>3 DEF MemoryHolds
<1>11. NumbersHold'
  <2>1. Given \in Int /\ Given <= used.appends /\ Given' = used.appends /\ used.appends \in Int
    BY <1>0, <1>3, <1>4, BoundsAssumption DEF Given, NumbersHold
  <2>2. \A c \in LinesThere : c \in Line
    BY <1>0, ReadIsAVersion
  <2>3. \A c \in LinesThere : c.id <= Given' /\ c.state \subseteq 1 .. Given'
    <3> SUFFICES ASSUME NEW c \in LinesThere
                 PROVE  c.id <= Given' /\ c.state \subseteq 1 .. Given'
      OBVIOUS
    <3>1. c.id \in Int /\ c.id <= Given /\ c.state \subseteq 1 .. Given
      BY <1>0, <2>2, BoundsAssumption DEF NumbersHold, Line, Ids
    <3> QED
      BY <2>1, <3>1
  <2> QED
    BY <1>0, <1>4, <1>6, <2>3 DEF NumbersHold, Brings
<1>12. FaultlessHolds'
  <2> SUFFICES ASSUME used.faults = 0
               PROVE  FilesComplete'
    BY <1>3, <1>4 DEF FaultlessHolds
  <2>1. FilesComplete
    BY <1>0 DEF FaultlessHolds
  <2> QED
    BY <1>0, <1>1, <1>2, <2>1, CrashCompletes
<1>13. WriterHolds'
  <2>1. CacheMatchesLog' /\ OpenedHolds' /\ WrittenHolds'
    BY <1>1, <1>3 DEF CacheMatchesLog, OpenedHolds, WrittenHolds
  <2> QED
    BY <1>1, <2>1 DEF WriterHolds
<1>14. CompressorHolds'
  <2>1. <<>> \in Seq(Line)
    BY EmptySeq
  <2> QED
    BY <1>1, <2>1 DEF CompressorHolds, Compressor
<1>15. LogInvariant'
  BY <1>5, <1>6, <1>7, <1>8, <1>9, <1>10, <1>11, <1>12, <1>13, <1>14 DEF LogInvariant
<1> QED
  BY <1>5, <1>15

-----------------------------------------------------------------------------
(* The theorems. *)

LEMMA InitLog == Init => LogInvariant
<1> SUFFICES ASSUME Init
             PROVE  LogInvariant
  OBVIOUS
<1>1. /\ plain = <<>> /\ torn = {} /\ synced = <<>> /\ zst = <<>> /\ dirlog = <<>>
      /\ cache = None /\ writer = Down /\ mem = None /\ acked = {}
      /\ comp = Compressor /\ wake = FALSE
      /\ used = [appends |-> 0, crashes |-> 0, faults |-> 0]
  BY DEF Init
<1>2. /\ DOMAIN plain = {} /\ DOMAIN zst = {} /\ DOMAIN synced = {} /\ Len(dirlog) = 0
      /\ dirlog \in Seq(Operation) /\ <<>> \in Seq(Line)
      /\ \A i \in 1 .. Len(dirlog) : FALSE
  <2>1. DOMAIN <<>> = {} /\ Len(<<>>) = 0
    OBVIOUS
  <2> QED
    BY <1>1, <2>1, EmptySeq
<1>3. Segments(plain, zst) = {} /\ writer.pc = "down"
  BY <1>1, <1>2 DEF Segments, Down
<1>4. LinesThere = {} /\ CommitsThere = {}
  BY <1>3, ThereAre
<1>5. TypeOK
  BY <1>1, <1>2, <1>3 DEF TypeOK, Compressor
<1>6. FilesBounded /\ FilesFormed
  BY <1>3 DEF FilesBounded, FilesFormed
<1>7. DirectoryHolds
  <2>1. \A k \in 0 .. Len(dirlog) : \A f \in ZstAt(k) : \E g \in FilesAt(k) : f < g
    BY <1>2 DEF ZstAt
  <2> QED
    BY <1>2, <2>1 DEF DirectoryHolds
<1>8. SnapshotsHold /\ AckedHold /\ MemoryHolds
  BY <1>1, <1>3, <1>4 DEF SnapshotsHold, AckedHold, MemoryHolds
<1>9. NumbersHold
  BY <1>1, <1>4, BoundsAssumption DEF NumbersHold
<1>10. FaultlessHolds
  BY <1>2, <1>3 DEF FaultlessHolds, FilesComplete
<1>11. WriterHolds
  BY <1>1, <1>3 DEF WriterHolds, CacheMatchesLog, OpenedHolds, WrittenHolds
<1>12. CompressorHolds
  BY <1>1, <1>2 DEF CompressorHolds, Compressor
<1> QED
  BY <1>5, <1>6, <1>7, <1>8, <1>9, <1>10, <1>11, <1>12 DEF LogInvariant

LEMMA StutteringKeeps == LogInvariant /\ UNCHANGED vars => LogInvariant'
<1> SUFFICES ASSUME LogInvariant, UNCHANGED vars
             PROVE  LogInvariant'
  OBVIOUS
<1>1. UNCHANGED <<disk, cache, writer, mem, acked, comp, wake, used>> /\ plain' = plain /\ zst' = zst
  BY DEF vars, disk
<1>2. CompressorHolds' /\ wake' \in BOOLEAN
  BY <1>1 DEF LogInvariant, CompressorHolds, TypeOK
<1>3. NumbersHold
  BY DEF LogInvariant
<1> QED
  BY <1>1, <1>2, <1>3, UsedStays, CompressorAlone

LEMMA StepKeepsLog == LogInvariant /\ [Next]_vars => LogInvariant'
<1> SUFFICES ASSUME LogInvariant, [Next]_vars
             PROVE  LogInvariant'
  OBVIOUS
<1>1. CASE Recover
  BY <1>1, RecoverKeeps
<1>2. CASE AppendAny
  BY <1>2, OpenAppendKeeps DEF AppendAny
<1>3. CASE WriteBatch
  BY <1>3, WriteBatchKeeps
<1>4. CASE WriteFails
  BY <1>4, WriteFailsKeeps
<1>5. CASE SyncBatch
  BY <1>5, SyncBatchKeeps
<1>6. CASE SyncFails
  BY <1>6, SyncFailsKeeps
<1>7. CASE Compress
  <2>1. CASE \E f \in comp.todo : Begin(f)
    BY <2>1, BeginKeeps
  <2> QED
    BY <1>7, <2>1, ScanKeeps, RenameKeeps, DirectorySyncKeeps, RemoveSourceKeeps DEF Compress
<1>8. CASE CompressionFails
  BY <1>8, CompressionFailsKeeps
<1>9. CASE Crash
  BY <1>9, CrashKeeps
<1>10. CASE UNCHANGED vars
  BY <1>10, StutteringKeeps
<1> QED
  BY <1>1, <1>2, <1>3, <1>4, <1>5, <1>6, <1>7, <1>8, <1>9, <1>10 DEF Next

\* What every state of the log satisfies, whatever is appended, fails, is
\* compressed or is lost in a crash: the files are well-formed runs of batches
\* that agree with each other, with the runner and with the directory.
THEOREM LogInvariantHolds == Spec => []LogInvariant
<1> QED
  BY InitLog, StepKeepsLog, PTL DEF Spec

\* Every variable of the store, the runner and the compressor keeps its type.
THEOREM LogTypes == Spec => []TypeOK
<1>1. LogInvariant => TypeOK
  BY DEF LogInvariant
<1> QED
  BY <1>1, LogInvariantHolds, PTL

\* PERSIST-03: once append() has acknowledged a batch, a scan of the segments
\* finds it for ever: no crash, failed write, failed sync or compression of
\* its segment takes it away.
THEOREM AcknowledgedSurvive == Spec => []AckedSurvive
<1> QED
  BY InvariantMeansAckedSurvive, LogInvariantHolds, PTL

\* SNAPSHOT-01: whichever snapshots cannot be used, recovery folds every
\* acknowledged event, from the latest segment alone when that holds an origin.
THEOREM SnapshotsLoseNothing == Spec => []SnapshotsAreDerived
<1> QED
  BY InvariantMeansDerived, LogInvariantHolds, PTL

\* Between appends a recovery of the log rebuilds the runner's state; only
\* batches whose write or sync failed may come back on top of it.
THEOREM RecoveryRebuilds == Spec => []RecoveryMatchesMemory
<1> QED
  BY InvariantMeansRecovery, LogInvariantHolds, PTL

\* The cached last sequence is the one a scan of the latest segment returns,
\* so a batch is never numbered over an event already there.
THEOREM CacheIsLastSequence == Spec => []CacheMatchesLog
<1>1. LogInvariant => CacheMatchesLog
  BY DEF LogInvariant, WriterHolds
<1> QED
  BY <1>1, LogInvariantHolds, PTL

-----------------------------------------------------------------------------
(* The contract. *)

\* A batch is one commit: no other is found under its identity.
Identified ==
  /\ \A c, d \in CommitsThere : c.id = d.id => c = d
  /\ writer.pc = "written" => writer.batch[1].id \notin acked

\* Neither an identity nor a place belongs to two commits.
Distinct(cs) == \A c, d \in cs : c.id = d.id \/ c.seq = d.seq => c = d

\* What the contract's history rests on: the commits are distinct, and those
\* that were acknowledged or are about to be are read.
HistoryHolds ==
  /\ Distinct(AllCommits(plain, zst)) /\ AllCommits(plain, zst) \subseteq CommitsThere
  /\ \A c \in CommitsThere : c.id \in 1 .. Given /\ c.seq \in Nat
  /\ acked \subseteq IdsOf(AllCommits(plain, zst))
  /\ writer.pc = "written" => writer.batch[1] \in AllCommits(plain, zst) /\ writer.batch[1].id = used.appends
  /\ writer.pc = "opened" => writer.batch[1].id = used.appends /\ used.appends # 0
  /\ used.appends \in 0 .. MaxAppends

\* Two lines that a reader finds have different sequences.
LEMMA PlacesDiffer ==
  ASSUME TypeOK, FilesFormed, NEW c \in AllCommits(plain, zst), NEW d \in AllCommits(plain, zst), c.seq = d.seq
  PROVE  c = d
<1>1. PICK f \in Segments(plain, zst) : c \in Commits(Lines(plain, zst, f))
  BY DEF AllCommits
<1>2. PICK g \in Segments(plain, zst) : d \in Commits(Lines(plain, zst, g))
  BY DEF AllCommits
<1>3. PICK v, w : v = Lines(plain, zst, f) /\ w = Lines(plain, zst, g)
  OBVIOUS
<1>4. v \in Versions(f) /\ w \in Versions(g) /\ v \in Seq(Line) /\ w \in Seq(Line)
  BY <1>3, ReadIsAVersion
<1>5. PICK i \in 1 .. Len(v) : c = v[i]
  BY <1>1, <1>3, <1>4, CommitsAre
<1>6. PICK j \in 1 .. Len(w) : d = w[j]
  BY <1>2, <1>3, <1>4, CommitsAre
<1>7. f \in Nat /\ g \in Nat
  BY DEF TypeOK, Segments
<1>8. c.seq \in Nat /\ d.seq \in Nat /\ f <= c.seq /\ g <= d.seq
  <2>1. WellFormed(v, f) /\ WellFormed(w, g)
    BY <1>4 DEF FilesFormed
  <2>2. f <= v[i].seq /\ g <= w[j].seq
    BY <2>1 DEF WellFormed
  <2> QED
    BY <1>4, <1>5, <1>6, <2>2, LineFacts
<1>9. CASE f < g
  <2>1. c.seq < g
    BY <1>4, <1>5, <1>9 DEF FilesFormed
  <2> QED
    BY <1>7, <1>8, <2>1
<1>10. CASE g < f
  <2>1. d.seq < f
    BY <1>4, <1>6, <1>10 DEF FilesFormed
  <2> QED
    BY <1>7, <1>8, <2>1
<1>11. CASE f = g
  <2>1. v = w /\ WellFormed(v, f) /\ Len(v) \in Nat
    BY <1>3, <1>4, <1>11, LineFacts DEF FilesFormed
  <2>2. \A x \in 1 .. Len(v) : \A y \in 1 .. x - 1 : v[y].seq < v[x].seq
    BY <2>1 DEF WellFormed
  <2>3. ~(i < j) /\ ~(j < i)
    <3>1. i < j => i \in 1 .. j - 1
      BY <1>6, <2>1
    <3>2. j < i => j \in 1 .. i - 1
      BY <1>5, <2>1
    <3> QED
      BY <1>5, <1>6, <1>8, <2>1, <2>2, <3>1, <3>2
  <2>4. i = j
    BY <2>1, <2>3
  <2> QED
    BY <1>5, <1>6, <2>1, <2>4
<1> QED
  BY <1>7, <1>9, <1>10, <1>11

LEMMA HistoryIsThere == LogInvariant /\ Identified => HistoryHolds
<1> SUFFICES ASSUME LogInvariant, Identified
             PROVE  HistoryHolds
  OBVIOUS
<1>1. TypeOK /\ FilesFormed /\ AckedHold /\ NumbersHold /\ WriterHolds
  BY DEF LogInvariant
<1>2. AllCommits(plain, zst) \subseteq CommitsThere
  BY <1>1, ReadIsAVersion
<1>3. Distinct(AllCommits(plain, zst))
  BY <1>1, <1>2, PlacesDiffer DEF Distinct, Identified
<1>4. \A c \in CommitsThere : c.id \in 1 .. Given /\ c.seq \in Nat
  <2> TAKE c \in CommitsThere
  <2>1. c \in LinesThere /\ c \in Line /\ c.seq \in Nat
    BY <1>1, ThereAre, ReadIsAVersion
  <2>2. c.id \in Ids /\ c.id <= Given
    BY <1>1, <2>1 DEF NumbersHold, Line
  <2>3. Given \in Int
    BY <1>1, UsedStays DEF Given
  <2> QED
    BY <2>1, <2>2, <2>3, BoundsAssumption DEF Ids
<1>5. acked \subseteq IdsOf(AllCommits(plain, zst))
  <2>1. \A id \in acked : \E d \in AllCommits(plain, zst) : d.id = id
    BY <1>1, AckedAreThere
  <2> QED
    BY <2>1 DEF IdsOf
<1>6. used.appends \in 0 .. MaxAppends
  BY <1>1, UsedStays
<1>7. writer.pc = "written" => writer.batch[1] \in AllCommits(plain, zst) /\ writer.batch[1].id = used.appends
  <2>1. PICK path, batch : path = writer.path /\ batch = writer.batch
    OBVIOUS
  <2> QED
    BY <2>1, WrittenIs
<1>8. writer.pc = "opened" => writer.batch[1].id = used.appends /\ used.appends # 0
  <2> SUFFICES ASSUME writer.pc = "opened"
               PROVE  writer.batch[1].id = used.appends /\ used.appends # 0
    OBVIOUS
  <2>1. PICK path, batch : path = writer.path /\ batch = writer.batch
    OBVIOUS
  <2>2. BatchFormed(batch) /\ batch \in Seq(Line) /\ 1 \in 1 .. Len(batch)
    BY <2>1, OpenedIs
  <2>3. batch[1].id = used.appends /\ batch[1].id \in Ids
    BY <2>2, LineFacts DEF BatchFormed
  <2> QED
    BY <2>1, <2>3, BoundsAssumption DEF Ids
<1> QED
  BY <1>2, <1>3, <1>4, <1>5, <1>6, <1>7, <1>8 DEF HistoryHolds

-----------------------------------------------------------------------------
(* The history of a set of commits. *)

LEMMA PlacesAre ==
  ASSUME NEW cs, Distinct(cs)
  PROVE  /\ DOMAIN Places(cs) = IdsOf(cs)
         /\ \A c \in cs : c.id \in IdsOf(cs) /\ Places(cs)[c.id] = c.seq
         /\ \A b \in IdsOf(cs) : \E c \in cs : c.id = b /\ Places(cs)[b] = c.seq
         /\ \A a, b \in DOMAIN Places(cs) : Places(cs)[a] = Places(cs)[b] => a = b
<1>1. DOMAIN Places(cs) = IdsOf(cs)
  BY DEF Places
<1>2. ASSUME NEW b \in IdsOf(cs)
      PROVE  \E c \in cs : c.id = b /\ Places(cs)[b] = c.seq
  <2>1. \E c \in cs : c.id = b
    BY DEF IdsOf
  <2>2. PICK c : c = CHOOSE d \in cs : d.id = b
    OBVIOUS
  <2>3. c \in cs /\ c.id = b
    BY <2>1, <2>2
  <2>4. Places(cs)[b] = c.seq
    BY <2>2 DEF Places
  <2> QED
    BY <2>3, <2>4
<1>3. ASSUME NEW c \in cs
      PROVE  c.id \in IdsOf(cs) /\ Places(cs)[c.id] = c.seq
  <2>1. c.id \in IdsOf(cs)
    BY DEF IdsOf
  <2>2. PICK d \in cs : d.id = c.id /\ Places(cs)[c.id] = d.seq
    BY <1>2, <2>1
  <2>3. d = c
    BY <2>2 DEF Distinct
  <2> QED
    BY <2>1, <2>2, <2>3
<1>4. ASSUME NEW a \in DOMAIN Places(cs), NEW b \in DOMAIN Places(cs), Places(cs)[a] = Places(cs)[b]
      PROVE  a = b
  <2>1. PICK c \in cs : c.id = a /\ Places(cs)[a] = c.seq
    BY <1>1, <1>2
  <2>2. PICK d \in cs : d.id = b /\ Places(cs)[b] = d.seq
    BY <1>1, <1>2
  <2>3. c = d
    BY <1>4, <2>1, <2>2 DEF Distinct
  <2> QED
    BY <2>1, <2>2, <2>3
<1> QED
  BY <1>1, <1>2, <1>3, <1>4

\* One commit more, behind the others.
LEMMA PlacesGrow ==
  ASSUME NEW cs, NEW ds, Distinct(cs), Distinct(ds), NEW b, ds = cs \cup {b},
         \A c \in cs : c.seq < b.seq
  PROVE  /\ DOMAIN Places(ds) = DOMAIN Places(cs) \cup {b.id}
         /\ \A x \in DOMAIN Places(cs) :
              Places(ds)[x] = Places(cs)[x] /\ Places(cs)[x] < Places(ds)[b.id]
<1>1. IdsOf(ds) = IdsOf(cs) \cup {b.id}
  BY DEF IdsOf
<1>2. Places(ds)[b.id] = b.seq
  BY PlacesAre
<1>3. ASSUME NEW x \in DOMAIN Places(cs)
      PROVE  Places(ds)[x] = Places(cs)[x] /\ Places(cs)[x] < Places(ds)[b.id]
  <2>1. PICK c \in cs : c.id = x /\ Places(cs)[x] = c.seq
    BY PlacesAre
  <2>2. Places(ds)[x] = c.seq
    BY <2>1, PlacesAre
  <2> QED
    BY <1>2, <2>1, <2>2
<1> QED
  BY <1>1, <1>3, PlacesAre

\* Histories with the same undoubted commits.
LEMMA PlacesAgree ==
  ASSUME NEW cs, NEW ds, Distinct(cs), Distinct(ds), NEW doubt,
         \A c \in cs : c.id \notin doubt => c \in ds,
         \A d \in ds : d.id \notin doubt => d \in cs
  PROVE  [b \in DOMAIN Places(ds) \ doubt |-> Places(ds)[b]] = [b \in DOMAIN Places(cs) \ doubt |-> Places(cs)[b]]
<1>1. DOMAIN Places(cs) = IdsOf(cs) /\ DOMAIN Places(ds) = IdsOf(ds)
  BY PlacesAre
<1>2. ASSUME NEW b \in IdsOf(cs) \ doubt
      PROVE  b \in IdsOf(ds) /\ Places(ds)[b] = Places(cs)[b]
  <2>1. PICK c \in cs : c.id = b /\ Places(cs)[b] = c.seq
    BY PlacesAre
  <2> QED
    BY <2>1, PlacesAre
<1>3. \A b \in IdsOf(ds) \ doubt : b \in IdsOf(cs)
  BY DEF IdsOf
<1>4. IdsOf(cs) \ doubt = IdsOf(ds) \ doubt
  BY <1>2, <1>3
<1> QED
  BY <1>1, <1>2, <1>4

-----------------------------------------------------------------------------
(* One identity, one commit. *)

LEMMA InitIdentified == Init => Identified
<1> SUFFICES ASSUME Init
             PROVE  Identified
  OBVIOUS
<1>1. DOMAIN plain = {} /\ DOMAIN zst = {} /\ writer.pc = "down"
  BY DEF Init, Down
<1>2. Segments(plain, zst) = {}
  BY <1>1 DEF Segments
<1>3. \A c : c \notin CommitsThere
  BY <1>2, ThereAre
<1> QED
  BY <1>1, <1>3 DEF Identified

\* Only a whole batch written is a commit more.
LEMMA CommitsNext ==
  ASSUME LogInvariant, [Next]_vars
  PROVE  \A c \in CommitsThere' : c \in CommitsThere \/ (WriteBatch /\ c = writer.batch[1])
<1>1. TypeOK /\ FilesFormed
  BY DEF LogInvariant
<1>2. CASE UNCHANGED <<plain, synced, zst, dirlog>>
  BY <1>1, <1>2, FilesStay
<1>3. CASE Rename \/ RemoveSource \/ SyncLink \/ SyncRemoval \/ SyncBatch \/ Crash
  <2>1. Narrows
    BY <1>3, RenameKeeps, RemoveSourceKeeps, DirectorySyncKeeps, SyncBatchKeeps, CrashKeeps
  <2> QED
    BY <1>1, <2>1, NarrowsKeeps
<1>4. CASE WriteBatch
  <2>1. PICK path, batch : path = writer.path /\ batch = writer.batch
    OBVIOUS
  <2>2. Writes(path, batch, batch)
    BY <1>4, <2>1, WholeIsWritten
  <2> QED
    BY <1>4, <2>1, <2>2, ExtendKeeps
<1>5. CASE WriteFails
  <2>1. PICK path, batch : path = writer.path /\ batch = writer.batch
    OBVIOUS
  <2>2. PICK lines : Writes(path, batch, lines) /\ Len(lines) # Len(batch)
    BY <1>5, <2>1, PartIsWritten
  <2> QED
    BY <2>2, ExtendKeeps
<1>6. CASE UNCHANGED vars
  BY <1>2, <1>6 DEF vars
<1>7. Scan \/ Park \/ (\E f \in comp.todo : Begin(f)) \/ CompressionFails \/ Recover \/ AppendAny \/ SyncFails
        => UNCHANGED <<plain, synced, zst, dirlog>>
  BY DEF Scan, Park, Begin, CompressionFails, Recover, AppendAny, OpenAppend, SyncFails, disk
<1> QED
  BY <1>2, <1>3, <1>4, <1>5, <1>6, <1>7 DEF Next, Compress

LEMMA StepKeepsIdentified == LogInvariant /\ Identified /\ [Next]_vars => Identified'
<1> SUFFICES ASSUME LogInvariant, Identified, [Next]_vars
             PROVE  Identified'
  OBVIOUS
<1>1. HistoryHolds /\ TypeOK
  BY HistoryIsThere DEF LogInvariant
<1>2. \A c \in CommitsThere' : c \in CommitsThere \/ (WriteBatch /\ c = writer.batch[1])
  BY CommitsNext
<1>3. WriteBatch => \A c \in CommitsThere : c.id # writer.batch[1].id
  <2> SUFFICES ASSUME WriteBatch, NEW c \in CommitsThere
               PROVE  c.id # writer.batch[1].id
    OBVIOUS
  <2>1. writer.pc = "opened"
    BY DEF WriteBatch
  <2>2. c.id \in 1 .. Given /\ writer.batch[1].id = used.appends /\ used.appends \in 0 .. MaxAppends
    BY <1>1, <2>1 DEF HistoryHolds
  <2>3. Given = used.appends - 1
    BY <2>1 DEF Given
  <2> QED
    BY <2>2, <2>3, BoundsAssumption
<1>4. \A c, d \in CommitsThere' : c.id = d.id => c = d
  BY <1>2, <1>3 DEF Identified
<1>5. writer'.pc = "written" => writer'.batch[1].id \notin acked'
  <2>1. CASE WriteBatch
    <3>1. writer.pc = "opened" /\ writer'.batch = writer.batch /\ acked' = acked
      <4>1. writer.pc = "opened" /\ writer' = [writer EXCEPT !.pc = "written"] /\ acked' = acked
        BY <2>1 DEF WriteBatch
      <4> QED
        BY <4>1 DEF LogInvariant, WriterHolds, Down, Ready
    <3>2. acked \subseteq IdsOf(CommitsThere)
      BY <1>1 DEF HistoryHolds, IdsOf
    <3> QED
      BY <1>3, <2>1, <3>1, <3>2 DEF IdsOf
  <2>2. CASE UNCHANGED <<writer, acked>>
    BY <2>2 DEF Identified
  <2>3. CASE writer' \in {Down, Ready} \/ writer'.pc = "opened"
    BY <2>3 DEF Down, Ready
  <2>4. Scan \/ Park \/ (\E f \in comp.todo : Begin(f)) \/ CompressionFails \/ Rename \/ RemoveSource
          \/ SyncLink \/ SyncRemoval \/ UNCHANGED vars
          => UNCHANGED <<writer, acked>>
    BY DEF Scan, Park, Begin, CompressionFails, Rename, RemoveSource, SyncLink, SyncRemoval, vars
  <2>5. Recover \/ SyncBatch \/ SyncFails \/ WriteFails \/ Crash => writer' \in {Down, Ready}
    BY DEF Recover, SyncBatch, SyncFails, WriteFails, Crash, FailAppend
  <2>6. AppendAny => writer' \in {Down, Ready} \/ writer'.pc = "opened"
    BY DEF AppendAny, OpenAppend, FailAppend
  <2> QED
    BY <2>1, <2>2, <2>3, <2>4, <2>5, <2>6 DEF Next, Compress
<1> QED
  BY <1>4, <1>5 DEF Identified

\* No batch is found twice: an identity belongs to one commit, in every file a
\* crash may leave, and a batch that waits for its sync is not acknowledged yet.
THEOREM EveryBatchIsOneCommit == Spec => []Identified
<1>1. Spec => [](LogInvariant /\ Identified)
  BY InitLog, InitIdentified, StepKeepsLog, StepKeepsIdentified, PTL DEF Spec
<1> QED
  BY <1>1, PTL

-----------------------------------------------------------------------------
(* Every step of the log is one of its contract. *)

\* What the contract sees of a state with these commits.
Seen(cs) ==
  /\ cs = AllCommits(plain, zst) /\ Distinct(cs)
  /\ \A c \in cs : c.id \in 1 .. Given /\ c.seq \in Nat
  /\ acked \subseteq IdsOf(cs) /\ acked \subseteq 1 .. Given
  /\ writer.pc = "written" => writer.batch[1] \in cs /\ writer.batch[1].id = used.appends /\ used.appends # 0
  /\ writer.pc = "opened" => writer.batch[1].id = used.appends /\ used.appends # 0
  /\ used.appends \in 0 .. MaxAppends /\ None \notin Nat

LEMMA SeenAre == ASSUME HistoryHolds PROVE Seen(AllCommits(plain, zst))
<1>1. PICK cs : cs = AllCommits(plain, zst)
  OBVIOUS
<1>2. Distinct(cs) /\ \A c \in cs : c.id \in 1 .. Given /\ c.seq \in Nat
  BY <1>1 DEF HistoryHolds
<1>3. acked \subseteq IdsOf(cs) /\ acked \subseteq 1 .. Given
  BY <1>1, <1>2 DEF HistoryHolds, IdsOf
<1>4. writer.pc = "written" => writer.batch[1] \in cs /\ writer.batch[1].id = used.appends /\ used.appends # 0
  <2> SUFFICES ASSUME writer.pc = "written"
               PROVE  writer.batch[1] \in cs /\ writer.batch[1].id = used.appends /\ used.appends # 0
    OBVIOUS
  <2>1. writer.batch[1] \in cs /\ writer.batch[1].id = used.appends
    BY <1>1 DEF HistoryHolds
  <2>2. writer.batch[1].id \in 1 .. Given
    BY <1>2, <2>1
  <2>3. 0 \notin 1 .. Given
    OBVIOUS
  <2> QED
    BY <2>1, <2>2, <2>3
<1> QED
  BY <1>1, <1>2, <1>3, <1>4, NoneAssumption DEF HistoryHolds, Seen

\* The contract's state is left alone.
LEMMA UnseenSteps ==
  ASSUME UNCHANGED <<plain, zst, acked>>, Written' = Written, Unconfirmed' = Unconfirmed
  PROVE  UNCHANGED Contract!commitVars
<1>1. History' = History
  BY DEF History
<1> QED
  BY <1>1 DEF Contract!commitVars

LEMMA RecoverMaps == ASSUME Recover PROVE UNCHANGED Contract!commitVars
<1>1. writer.pc = "down" /\ writer'.pc = "ready" /\ UNCHANGED <<plain, zst, acked, used>>
  BY DEF Recover, Down, Ready, disk
<1>2. Written' = Written /\ Unconfirmed' = Unconfirmed
  BY <1>1 DEF Written, Unconfirmed, Opened
<1> QED
  BY <1>1, <1>2, UnseenSteps

LEMMA BesideMaps ==
  ASSUME LogInvariant,
         Scan \/ Park \/ (\E f \in comp.todo : Begin(f)) \/ SyncLink \/ SyncRemoval \/ CompressionFails \/ UNCHANGED vars
  PROVE  UNCHANGED Contract!commitVars
<1>1. UNCHANGED <<plain, zst, acked, writer>>
  BY DEF Scan, Park, Begin, SyncLink, SyncRemoval, CompressionFails, vars, disk
<1>0. used'.appends = used.appends
  <2>1. used \in [appends : 0 .. MaxAppends, crashes : Nat, faults : Nat]
    BY UsedStays DEF LogInvariant
  <2>2. used' = used \/ used' = [used EXCEPT !["faults"] = @ + 1]
    BY DEF Scan, Park, Begin, SyncLink, SyncRemoval, CompressionFails, Spend, vars
  <2> QED
    BY <2>1, <2>2
<1>2. Written' = Written /\ Unconfirmed' = Unconfirmed
  BY <1>0, <1>1 DEF Written, Unconfirmed, Opened
<1> QED
  BY <1>1, <1>2, UnseenSteps

LEMMA RenameMaps == ASSUME LogInvariant, Rename PROVE UNCHANGED Contract!commitVars
<1>1. AllCommits(plain', zst') = AllCommits(plain, zst)
  BY RenameKeeps
<1>2. UNCHANGED <<acked, writer, used>>
  BY DEF Rename
<1>3. Written' = Written /\ Unconfirmed' = Unconfirmed
  BY <1>2 DEF Written, Unconfirmed, Opened
<1>4. History' = History
  BY <1>1 DEF History
<1> QED
  BY <1>2, <1>3, <1>4 DEF Contract!commitVars

\* A batch given up before it was written is uncertain.
LEMMA OpenAppendMaps ==
  ASSUME LogInvariant, HistoryHolds, NEW kind, NEW cnt \in 1 .. MaxBatch, OpenAppend(kind, cnt)
  PROVE  (\E b \in Ids : Contract!Reject(b)) \/ UNCHANGED Contract!commitVars
<1>1. PICK cs : cs = AllCommits(plain, zst) /\ Seen(cs)
  BY SeenAre
<1>2. PICK n : n = used.appends
  OBVIOUS
<1>3. n \in Nat /\ n < MaxAppends /\ n + 1 \in Ids
  BY <1>1, <1>2, BoundsAssumption DEF OpenAppend, Seen, Ids
<1>4. writer.pc = "ready" /\ used'.appends = n + 1 /\ UNCHANGED <<plain, zst, acked>>
  <2>1. used \in [appends : 0 .. MaxAppends, crashes : Nat, faults : Nat]
    BY UsedStays DEF LogInvariant
  <2>2. used' = [used EXCEPT !["appends"] = @ + 1]
    BY DEF OpenAppend, Spend
  <2> QED
    BY <1>2, <2>1, <2>2 DEF OpenAppend, Ready
<1>5. History' = History
  BY <1>4 DEF History
<1>6. /\ Written = None /\ Opened = {} /\ None \notin 1 .. n + 1
      /\ acked \subseteq 1 .. n
  BY <1>1, <1>2, <1>4 DEF Written, Opened, Given, Seen
<1>7. CASE writer'.pc = "opened" /\ writer'.batch[1].id = n + 1
  <2>1. Written' = None /\ Opened' = {n + 1}
    BY <1>7 DEF Written, Opened
  <2>2. Unconfirmed' = Unconfirmed
    <3>1. Unconfirmed' = (1 .. n + 1) \ (acked \cup {None} \cup {n + 1})
      BY <1>4, <2>1 DEF Unconfirmed
    <3>2. Unconfirmed = (1 .. n) \ (acked \cup {None} \cup {})
      BY <1>2, <1>6 DEF Unconfirmed
    <3> QED
      BY <1>3, <3>1, <3>2
  <2> QED
    BY <1>4, <1>5, <1>6, <2>1, <2>2 DEF Contract!commitVars
<1>8. CASE writer' = Down
  <2>1. Written' = None /\ Opened' = {}
    BY <1>8 DEF Written, Opened, Down
  <2>2. Unconfirmed' = Unconfirmed \cup {n + 1}
    <3>1. Unconfirmed' = (1 .. n + 1) \ (acked \cup {None} \cup {})
      BY <1>4, <2>1 DEF Unconfirmed
    <3>2. Unconfirmed = (1 .. n) \ (acked \cup {None} \cup {})
      BY <1>2, <1>6 DEF Unconfirmed
    <3> QED
      BY <1>3, <1>6, <3>1, <3>2
  <2>3. n + 1 \notin acked \cup Unconfirmed \cup DOMAIN History
    <3>1. n + 1 \notin IdsOf(cs)
      BY <1>1, <1>2, <1>3, <1>4 DEF Seen, Given, IdsOf
    <3>2. n + 1 \notin DOMAIN History
      BY <1>1, <3>1, PlacesAre DEF History, Seen
    <3>3. n + 1 \notin Unconfirmed
      BY <1>2, <1>3 DEF Unconfirmed
    <3> QED
      BY <1>3, <1>6, <3>2, <3>3
  <2>4. Contract!Reject(n + 1)
    BY <1>3, <1>4, <1>5, <1>6, <2>1, <2>2, <2>3 DEF Contract!Reject, Contract!Fresh
  <2> QED
    BY <1>3, <2>4
<1>9. writer' = Down \/ (writer'.pc = "opened" /\ writer'.batch[1].id = n + 1)
  <2>1. PICK base, path :
          \/ FailAppend
          \/ writer' = [pc   |-> "opened", path |-> path,
                        batch |-> [i \in 1 .. cnt |->
                          [seq |-> base + i, idx |-> i - 1, cnt |-> cnt,
                           id |-> used.appends + 1, kind |-> kind,
                           state |-> IF kind = "snapshot" THEN mem ELSE {}]]]
    BY DEF OpenAppend
  <2>2. 1 \in 1 .. cnt
    BY BoundsAssumption
  <2> QED
    BY <1>2, <2>1, <2>2 DEF FailAppend
<1> QED
  BY <1>7, <1>8, <1>9

\* The whole batch becomes the last of the history.
LEMMA WriteBatchMaps ==
  ASSUME LogInvariant, HistoryHolds, HistoryHolds', WriteBatch
  PROVE  \E b \in Ids : Contract!Publish(b)
<1>1. PICK cs : cs = AllCommits(plain, zst) /\ Seen(cs)
  BY SeenAre
<1>2. PICK path, batch : path = writer.path /\ batch = writer.batch
  OBVIOUS
<1>3. PICK n : n = used.appends
  OBVIOUS
<1>4. PICK b : b = batch[1]
  OBVIOUS
<1>5. writer.pc = "opened" /\ UNCHANGED <<acked, used>>
  BY DEF WriteBatch
<1>6. writer'.pc = "written" /\ writer'.batch = batch
  <2>1. writer' = [writer EXCEPT !.pc = "written"]
    BY DEF WriteBatch
  <2> QED
    BY <1>2, <1>5, <2>1 DEF LogInvariant, WriterHolds, Down, Ready
<1>7. n \in Nat /\ n \in Ids /\ b.id = n
  BY <1>1, <1>2, <1>3, <1>4, <1>5, BoundsAssumption DEF Seen, Ids
<1>8. PICK ds : ds = AllCommits(plain', zst') /\ Distinct(ds) /\ b \in ds
  BY <1>2, <1>4, <1>6 DEF HistoryHolds, Distinct
<1>9. ds = cs \cup {b}
  <2>1. Writes(path, batch, batch)
    BY <1>2, WholeIsWritten
  <2>2. cs \subseteq ds /\ \A c \in ds : c \in cs \/ c = batch[1]
    BY <1>1, <1>8, <2>1, ExtendKeeps
  <2> QED
    BY <1>4, <1>8, <2>2
<1>10. \A c \in cs : c.seq < b.seq
  <2>1. \A c \in LinesThere : c.seq < batch[1].seq
    BY <1>2, <1>5, OpenedIs
  <2>2. cs \subseteq LinesThere
    BY <1>1, ThereAre DEF HistoryHolds
  <2> QED
    BY <1>4, <2>1, <2>2
<1>11. History = Places(cs) /\ History' = Places(ds)
  BY <1>1, <1>8 DEF History
<1>12. /\ DOMAIN Places(ds) = DOMAIN Places(cs) \cup {b.id}
       /\ \A x \in DOMAIN Places(cs) :
            Places(ds)[x] = Places(cs)[x] /\ Places(cs)[x] < Places(ds)[b.id]
  BY <1>1, <1>8, <1>9, <1>10, PlacesGrow DEF Seen
<1>13. n \notin acked /\ n \notin IdsOf(cs)
  BY <1>1, <1>3, <1>5, <1>7 DEF Seen, Given, IdsOf
<1>14. n \notin DOMAIN Places(cs)
  BY <1>1, <1>13, PlacesAre DEF Seen
<1>15. Written = None /\ Opened = {n} /\ Written' = n /\ Opened' = {} /\ n # None
  BY <1>1, <1>2, <1>4, <1>5, <1>6, <1>7 DEF Written, Opened, Seen
<1>16. n \notin Unconfirmed /\ Unconfirmed' = Unconfirmed
  <2>1. Unconfirmed = (1 .. n) \ (acked \cup {None} \cup {n})
    BY <1>3, <1>15 DEF Unconfirmed
  <2>2. Unconfirmed' = (1 .. n) \ (acked \cup {n} \cup {})
    BY <1>3, <1>5, <1>15 DEF Unconfirmed
  <2>3. None \notin 1 .. n
    BY <1>1 DEF Seen
  <2> QED
    BY <2>1, <2>2, <2>3
<1>17. Contract!Publish(n)
  <2>1. Contract!Extended(History', History, n)
    BY <1>7, <1>11, <1>12 DEF Contract!Extended
  <2>2. Contract!Fresh(n)
    BY <1>7, <1>11, <1>13, <1>14, <1>16 DEF Contract!Fresh
  <2> QED
    BY <1>5, <1>15, <1>16, <2>1, <2>2 DEF Contract!Publish
<1> QED
  BY <1>7, <1>17

\* A failed write leaves no commit.
LEMMA WriteFailsMaps ==
  ASSUME LogInvariant, HistoryHolds, WriteFails
  PROVE  \E b \in Ids : Contract!Reject(b)
<1>1. PICK cs : cs = AllCommits(plain, zst) /\ Seen(cs)
  BY SeenAre
<1>2. PICK path, batch : path = writer.path /\ batch = writer.batch
  OBVIOUS
<1>3. PICK n : n = used.appends
  OBVIOUS
<1>4. writer.pc = "opened" /\ writer' = Down /\ used'.appends = n /\ acked' = acked
  <2>1. used \in [appends : 0 .. MaxAppends, crashes : Nat, faults : Nat]
    BY UsedStays DEF LogInvariant
  <2>2. used' = [used EXCEPT !["faults"] = @ + 1]
    BY DEF WriteFails, Spend
  <2> QED
    BY <1>3, <2>1, <2>2 DEF WriteFails, FailAppend
<1>5. n \in Nat /\ n \in Ids /\ batch[1].id = n
  BY <1>1, <1>2, <1>3, <1>4, BoundsAssumption DEF Seen, Ids
<1>6. History' = History
  <2>1. PICK lines : Writes(path, batch, lines) /\ Len(lines) # Len(batch)
    BY <1>2, PartIsWritten
  <2>2. AllCommits(plain', zst') = AllCommits(plain, zst)
    BY <2>1, ExtendKeeps
  <2> QED
    BY <2>2 DEF History
<1>7. n \notin acked /\ n \notin IdsOf(cs)
  BY <1>1, <1>3, <1>4, <1>5 DEF Seen, Given, IdsOf
<1>8. n \notin DOMAIN History
  BY <1>1, <1>7, PlacesAre DEF History, Seen
<1>9. Written = None /\ Opened = {n} /\ Written' = None /\ Opened' = {}
  BY <1>2, <1>4, <1>5 DEF Written, Opened, Down
<1>10. n \notin Unconfirmed /\ Unconfirmed' = Unconfirmed \cup {n}
  <2>1. Unconfirmed = (1 .. n) \ (acked \cup {None} \cup {n})
    BY <1>3, <1>9 DEF Unconfirmed
  <2>2. Unconfirmed' = (1 .. n) \ (acked \cup {None} \cup {})
    BY <1>4, <1>9 DEF Unconfirmed
  <2>3. None \notin 1 .. n /\ n \in 1 .. n
    BY <1>1, <1>5, BoundsAssumption DEF Seen, Ids
  <2> QED
    BY <1>7, <2>1, <2>2, <2>3
<1>11. Contract!Reject(n)
  <2>1. Contract!Fresh(n)
    BY <1>5, <1>7, <1>8, <1>10 DEF Contract!Fresh
  <2> QED
    BY <1>4, <1>6, <1>9, <1>10, <2>1 DEF Contract!Reject
<1> QED
  BY <1>5, <1>11

\* The sync tells what becomes of the batch that waits for it.
LEMMA SyncBatchMaps == ASSUME LogInvariant, HistoryHolds, SyncBatch PROVE Contract!Confirm
<1>1. PICK cs : cs = AllCommits(plain, zst) /\ Seen(cs)
  BY SeenAre
<1>2. PICK n : n = used.appends
  OBVIOUS
<1>3. /\ writer.pc = "written" /\ writer.batch[1].id = n /\ n \in Nat
      /\ writer' = Ready /\ acked' = acked \cup {n} /\ UNCHANGED <<plain, zst, used>>
  BY <1>1, <1>2 DEF Seen, SyncBatch
<1>4. Written = n /\ Written' = None /\ Opened = {} /\ Opened' = {} /\ None \notin Nat
  BY <1>1, <1>3 DEF Written, Opened, Ready, Seen
<1>5. History' = History
  BY <1>3 DEF History
<1>6. Unconfirmed' = Unconfirmed
  <2>1. Unconfirmed = (1 .. n) \ (acked \cup {n} \cup {})
    BY <1>2, <1>4 DEF Unconfirmed
  <2>2. Unconfirmed' = (1 .. n) \ (acked \cup {n} \cup {None} \cup {})
    BY <1>2, <1>3, <1>4 DEF Unconfirmed
  <2> QED
    BY <1>3, <1>4, <2>1, <2>2
<1> QED
  BY <1>3, <1>4, <1>5, <1>6 DEF Contract!Confirm

LEMMA SyncFailsMaps ==
  ASSUME LogInvariant, Identified, HistoryHolds, SyncFails
  PROVE  \E b \in Ids : Contract!Reject(b)
<1>1. PICK cs : cs = AllCommits(plain, zst) /\ Seen(cs)
  BY SeenAre
<1>2. PICK n : n = used.appends
  OBVIOUS
<1>3. /\ writer.pc = "written" /\ writer' = Down /\ used'.appends = n /\ UNCHANGED <<plain, zst, acked>>
  <2>1. used \in [appends : 0 .. MaxAppends, crashes : Nat, faults : Nat]
    BY UsedStays DEF LogInvariant
  <2>2. used' = [used EXCEPT !["faults"] = @ + 1]
    BY DEF SyncFails, Spend
  <2> QED
    BY <1>2, <2>1, <2>2 DEF SyncFails, FailAppend, disk
<1>4. writer.batch[1].id = n /\ n \in Ids /\ n \in 1 .. n /\ n \notin acked /\ None \notin Nat
  BY <1>1, <1>2, <1>3, BoundsAssumption DEF Seen, Ids, Identified
<1>5. Written = n /\ Written' = None /\ Opened = {} /\ Opened' = {} /\ n # None
  BY <1>3, <1>4 DEF Written, Opened, Down
<1>6. History' = History
  BY <1>3 DEF History
<1>7. Unconfirmed' = Unconfirmed \cup {n}
  <2>1. Unconfirmed = (1 .. n) \ (acked \cup {n} \cup {})
    BY <1>2, <1>5 DEF Unconfirmed
  <2>2. Unconfirmed' = (1 .. n) \ (acked \cup {None} \cup {})
    BY <1>3, <1>5 DEF Unconfirmed
  <2> QED
    BY <1>4, <2>1, <2>2
<1>8. Contract!Reject(n)
  BY <1>3, <1>5, <1>6, <1>7 DEF Contract!Reject
<1> QED
  BY <1>4, <1>8

\* A commit whose identity is in no doubt is one that is read.
LEMMA CertainIsRead ==
  ASSUME HistoryHolds, Identified, NEW c \in CommitsThere, c.id \notin Unconfirmed
  PROVE  c \in AllCommits(plain, zst)
<1>1. PICK cs : cs = AllCommits(plain, zst) /\ Seen(cs)
  BY SeenAre
<1>2. PICK n : n = used.appends
  OBVIOUS
<1>3. n \in Nat /\ c.id \in 1 .. Given
  BY <1>1, <1>2, BoundsAssumption DEF HistoryHolds
<1>4. c.id \in 1 .. n
  BY <1>2, <1>3 DEF Given
<1>5. c.id \in acked \/ c.id = Written \/ c.id \in Opened
  BY <1>2, <1>4 DEF Unconfirmed
<1>6. CASE c.id \in acked
  <2>1. PICK d \in cs : d.id = c.id
    BY <1>1, <1>6 DEF Seen, IdsOf
  <2>2. d \in CommitsThere
    BY <1>1, <2>1 DEF HistoryHolds
  <2> QED
    BY <1>1, <2>1, <2>2 DEF Identified
<1>7. CASE c.id = Written
  <2>1. writer.pc = "written" /\ writer.batch[1].id = c.id
    BY <1>1, <1>4, <1>7 DEF Written, Seen
  <2>2. writer.batch[1] \in cs /\ writer.batch[1] \in CommitsThere
    BY <1>1, <2>1 DEF HistoryHolds
  <2> QED
    BY <1>1, <2>1, <2>2 DEF Identified
<1>8. CASE c.id \in Opened
  <2>1. writer.pc = "opened" /\ writer.batch[1].id = c.id
    BY <1>8 DEF Opened
  <2>2. c.id = n /\ Given = n - 1
    BY <1>1, <1>2, <2>1 DEF Seen, Given
  <2> QED
    BY <1>3, <2>2
<1> QED
  BY <1>5, <1>6, <1>7, <1>8

\* Where only doubtful commits come and go, the rest of the history stays.
LEMMA Settles ==
  ASSUME HistoryHolds, HistoryHolds', acked' = acked,
         Written' \in {Written, None},
         Unconfirmed \cup ({Written} \ {Written', None}) \subseteq Unconfirmed',
         Unconfirmed' \subseteq Ids \ acked,
         \A c \in AllCommits(plain, zst) : c.id \notin Unconfirmed' => c \in AllCommits(plain', zst'),
         \A c \in AllCommits(plain', zst') : c.id \notin Unconfirmed' => c \in AllCommits(plain, zst)
  PROVE  Contract!Settle
<1>1. PICK cs : cs = AllCommits(plain, zst) /\ Distinct(cs)
  BY DEF HistoryHolds
<1>2. PICK ds : ds = AllCommits(plain', zst') /\ Distinct(ds)
  BY DEF HistoryHolds, Distinct
<1>3. PICK doubt : doubt = Unconfirmed'
  OBVIOUS
<1>4. History = Places(cs) /\ History' = Places(ds)
  BY <1>1, <1>2 DEF History
<1>5. [b \in DOMAIN Places(ds) \ doubt |-> Places(ds)[b]] = [b \in DOMAIN Places(cs) \ doubt |-> Places(cs)[b]]
  BY <1>1, <1>2, <1>3, PlacesAgree
<1>6. Contract!Certain(History', Unconfirmed') = Contract!Certain(History, Unconfirmed')
  BY <1>3, <1>4, <1>5 DEF Contract!Certain
<1>7. \A h \in {History'} : Contract!IsInjective(h)
  BY <1>2, <1>4, PlacesAre DEF Contract!IsInjective
<1> QED
  BY <1>6, <1>7 DEF Contract!Settle

\* The compressed segment is read in place of its source.
LEMMA RemoveSourceMaps ==
  ASSUME LogInvariant, Identified, HistoryHolds, HistoryHolds', RemoveSource
  PROVE  Contract!Settle
<1>1. Narrows /\ AllCommits(plain, zst) \subseteq AllCommits(plain', zst')
  BY RemoveSourceKeeps
<1>2. CommitsThere' \subseteq CommitsThere
  BY <1>1, NarrowsKeeps DEF LogInvariant
<1>3. UNCHANGED <<acked, writer, used>>
  BY DEF RemoveSource
<1>4. Written' = Written /\ Unconfirmed' = Unconfirmed
  BY <1>3 DEF Written, Unconfirmed, Opened
<1>5. \A c \in AllCommits(plain', zst') : c.id \notin Unconfirmed => c \in AllCommits(plain, zst)
  BY <1>2, CertainIsRead, ReadNext
<1>6. Unconfirmed \subseteq Ids \ acked
  BY BoundsAssumption DEF Unconfirmed, HistoryHolds, Ids
<1> QED
  BY <1>1, <1>3, <1>4, <1>5, <1>6, Settles

\* A crash leaves every acknowledged batch in its place; what becomes of the
\* others is settled.
LEMMA CrashMaps ==
  ASSUME LogInvariant, Identified, HistoryHolds, HistoryHolds', Crash
  PROVE  Contract!Settle
<1>1. PICK cs : cs = AllCommits(plain, zst) /\ Seen(cs)
  BY SeenAre
<1>2. PICK n : n = used.appends
  OBVIOUS
<1>3. CommitsThere' \subseteq CommitsThere
  <2>1. Narrows
    BY CrashKeeps
  <2> QED
    BY <2>1, NarrowsKeeps DEF LogInvariant
<1>4. acked' = acked /\ writer' = Down /\ used'.appends = n
  <2>1. used \in [appends : 0 .. MaxAppends, crashes : Nat, faults : Nat]
    BY UsedStays DEF LogInvariant
  <2>2. used' = [used EXCEPT !["crashes"] = @ + 1]
    BY DEF Crash, Spend
  <2> QED
    BY <1>2, <2>1, <2>2 DEF Crash
<1>5. n \in 0 .. MaxAppends /\ None \notin Nat /\ Written' = None /\ Opened' = {}
  BY <1>1, <1>2, <1>4 DEF Seen, Written, Opened, Down
<1>6. Unconfirmed' = (1 .. n) \ acked
  <2>1. Unconfirmed' = (1 .. n) \ (acked \cup {None} \cup {})
    BY <1>4, <1>5 DEF Unconfirmed
  <2> QED
    BY <1>5, <2>1
<1>7. Unconfirmed \subseteq Unconfirmed' /\ Unconfirmed' \subseteq Ids \ acked
  BY <1>2, <1>5, <1>6, BoundsAssumption DEF Unconfirmed, Ids
<1>8. Written # None => Written \in Unconfirmed'
  <2> SUFFICES ASSUME Written # None
               PROVE  Written \in Unconfirmed'
    OBVIOUS
  <2>1. writer.pc = "written" /\ Written = n /\ n # 0 /\ n \notin acked
    BY <1>1, <1>2 DEF Written, Seen, Identified
  <2> QED
    BY <1>5, <1>6, <2>1
<1>9. \A c \in CommitsThere : c.id \notin Unconfirmed' => c.id \in acked
  <2> TAKE c \in CommitsThere
  <2>1. c.id \in 1 .. Given
    BY DEF HistoryHolds
  <2>2. c.id \in 1 .. n
    BY <1>2, <1>5, <2>1 DEF Given
  <2> QED
    BY <1>6, <2>2
<1>10. ASSUME NEW c \in AllCommits(plain, zst), c.id \notin Unconfirmed'
       PROVE  c \in AllCommits(plain', zst')
  <2>1. c \in CommitsThere /\ c.id \in acked
    BY <1>9, <1>10 DEF HistoryHolds
  <2>2. acked' \subseteq IdsOf(AllCommits(plain', zst'))
    BY DEF HistoryHolds, IdsOf
  <2>3. PICK d \in AllCommits(plain', zst') : d.id = c.id
    BY <1>4, <2>1, <2>2 DEF IdsOf
  <2>4. d \in CommitsThere
    BY <1>3, <2>3, ReadNext
  <2> QED
    BY <2>1, <2>3, <2>4 DEF Identified
<1>11. ASSUME NEW c \in AllCommits(plain', zst'), c.id \notin Unconfirmed'
       PROVE  c \in AllCommits(plain, zst)
  <2>1. c \in CommitsThere
    BY <1>3, <1>11, ReadNext
  <2> QED
    BY <1>7, <1>11, <2>1, CertainIsRead
<1> QED
  BY <1>4, <1>5, <1>7, <1>8, <1>10, <1>11, Settles

LEMMA InitMaps == Init => Contract!CommitInit
<1> SUFFICES ASSUME Init
             PROVE  Contract!CommitInit
  OBVIOUS
<1>1. DOMAIN plain = {} /\ DOMAIN zst = {} /\ writer.pc = "down" /\ acked = {} /\ used.appends = 0
  BY DEF Init, Down
<1>2. AllCommits(plain, zst) = {}
  BY <1>1 DEF AllCommits, Segments
<1>3. DOMAIN History = {}
  BY <1>2 DEF History, Places, IdsOf
<1>4. Written = None /\ Unconfirmed = {}
  BY <1>1 DEF Written, Unconfirmed, Opened
<1> QED
  BY <1>1, <1>3, <1>4 DEF Contract!CommitInit

LEMMA StepMaps ==
  LogInvariant /\ Identified /\ HistoryHolds /\ HistoryHolds' /\ [Next]_vars
    => [Contract!CommitNext]_(Contract!commitVars)
<1> SUFFICES ASSUME LogInvariant, Identified, HistoryHolds, HistoryHolds', [Next]_vars
             PROVE  Contract!CommitNext \/ UNCHANGED Contract!commitVars
  OBVIOUS
<1> USE DEF Contract!CommitNext
<1>1. CASE Recover
  BY <1>1, RecoverMaps
<1>2. CASE AppendAny
  BY <1>2, OpenAppendMaps DEF AppendAny
<1>3. CASE WriteBatch
  BY <1>3, WriteBatchMaps
<1>4. CASE WriteFails
  BY <1>4, WriteFailsMaps
<1>5. CASE SyncBatch
  BY <1>5, SyncBatchMaps
<1>6. CASE SyncFails
  BY <1>6, SyncFailsMaps
<1>7. CASE Compress
  BY <1>7, BesideMaps, RenameMaps, RemoveSourceMaps DEF Compress
<1>8. CASE CompressionFails \/ UNCHANGED vars
  BY <1>8, BesideMaps
<1>9. CASE Crash
  BY <1>9, CrashMaps
<1> QED
  BY <1>1, <1>2, <1>3, <1>4, <1>5, <1>6, <1>7, <1>8, <1>9 DEF Next

\* PERSIST-03 and EVENT-02: every behaviour of the segmented log, with its torn
\* writes, crashes, rotations and compressions, is one of an atomic append-only
\* history in which an acknowledged batch keeps its place.
THEOREM LogImplementsContract == Spec => ImplementsCommitLog
<1>1. Spec => []HistoryHolds
  BY HistoryIsThere, LogInvariantHolds, EveryBatchIsOneCommit, PTL
<1>2. Init => Contract!CommitInit
  BY InitMaps
<1>3. LogInvariant /\ Identified /\ HistoryHolds /\ HistoryHolds' /\ [Next]_vars
        => [Contract!CommitNext]_(Contract!commitVars)
  BY StepMaps
<1> QED
  BY <1>1, <1>2, <1>3, LogInvariantHolds, EveryBatchIsOneCommit, PTL
     DEF Spec, ImplementsCommitLog, Contract!CommitSpec
=============================================================================
