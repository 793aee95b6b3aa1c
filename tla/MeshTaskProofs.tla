--------------------------- MODULE MeshTaskProofs ---------------------------
(***************************************************************************)
(* What MeshTask keeps for any number of reworks, stops, turns, results and *)
(* faults, any page size and any queue: the goal is given once, but for a   *)
(* Worker's that is asked again behind a rework, a stopped workspace stays  *)
(* without it, the owner's records are the journal, results come before the *)
(* news of the end, and at rest both sides have everything.                 *)
(***************************************************************************)
EXTENDS MeshTask, OrderProofs, SequenceTheorems, FiniteSetTheorems, TLAPS

(***************************************************************************)
(* The invariant, in the order its parts rest on each other.                *)
(***************************************************************************)
RowStates == {"none", "queued", "preparing", "dispatching", "running", "needs_attention",
              "cancelled", "settled"}
LinkStates == {"none", "queued", "received", "needs_attention"}
RunStates == {"running", "finished", "cancelled"}
UnderLock == {"asking", "bind", "runtime", "dispatch", "append", "running", "uncertain",
              "capture"}
BodyType ==
    [kind : {"artifact", "message"}, n : Nat, status : {"ready"}]
        \cup [kind : {"run"}, n : Nat, status : RunStates]
        \cup [kind : {"attention"}, n : {0}, status : {"execution", "dispatch"}]
RequestType ==
    [what : {"delegate", "cancel", "decision", "rework"}, rework : Nat,
     stage : {"sent", "flagged", "asked"}, waiting : BOOLEAN]

OwnerTypes ==
    /\ kind \in {"workspace", "worker"}
    /\ link \in [state : LinkStates, remote : {"queued", "unknown"} \cup RunStates, cursor : Nat,
                 stop : {"no", "asked", "sent"}, decision : {"none", "made", "sent"},
                 task : {"open", "cancelled"}]
    /\ rework \in [Reworks -> {"none", "queued", "delivered"}]
    /\ pass \in [pc : {"idle", "delegate", "stop", "stopped", "decide", "rework"},
                 read : LinkStates]
    /\ feed \in [on : BOOLEAN, resumed : Nat, sent : Nat, pages : Seq([from : Nat, to : Nat])]
    /\ imported \in Seq(BodyType)
ExecutorTypes ==
    /\ row \in [state : RowStates, bound : BOOLEAN, runtime : BOOLEAN,
                stop : {"no", "asked", "sent"}, decided : BOOLEAN]
    /\ lock \in {"free", "worker", "handler"}
    /\ work \in [pc : UnderLock \cup {"idle", "lock", "flag", "publish", "recover"},
                 read : RowStates, at : Nat]
    /\ exports \in Seq([body : BodyType, ready : BOOLEAN])
    /\ requests \in SUBSET RequestType
    /\ agent \in [unread : SUBSET Nat, turn : SUBSET Nat,
                  state : {"idle", "working", "cancelling"}, receipt : SUBSET Nat]
    /\ runs \in Seq(RunStates) /\ results \in Seq(Nat)
    /\ goals \in Nat /\ reworked \in SUBSET Nat /\ stopped \in BOOLEAN
Types == OwnerTypes /\ ExecutorTypes

\* One holder of the lock at a time; only a request to stop goes past its first stage,
\* and a rework has a number of its own.
LockHeld ==
    /\ work.pc \in UnderLock => lock = "worker"
    /\ \A q \in requests : q.stage = "asked" => lock = "handler"
    /\ \A p, q \in requests : p.stage = "asked" /\ q.stage = "asked" => p = q
    /\ \A q \in requests : q.stage # "sent" => q.what = "cancel"
    /\ \A q \in requests : q.what = "rework" => q.rework \in Reworks

\* The worker is past the point where it looked at the row and before the goal.
BeforeGoal == {"bind", "runtime", "dispatch", "append"}
AroundGoal == {"append", "running", "uncertain"}
ToDispatch == {"none", "queued", "preparing"}

\* The row and the worker's place agree: what is dispatched is on its way, and what
\* the worker writes back when it fails is the state it prepares.
RowHonest ==
    /\ row.state = "none" => work.pc = "idle" /\ exports = <<>>
    /\ work.pc \in {"bind", "runtime", "dispatch"} => work.read \in {"queued", "preparing"}
    /\ work.pc \in AroundGoal => row.state \in {"dispatching", "settled"}
    /\ row.state = "dispatching" => work.pc \in AroundGoal \cup {"recover"}
    /\ work.pc = "running" \/ row.state = "running" => goals # 0
    /\ \A q \in requests : q.stage # "sent" => row.state # "none"

\* The agent has the goal only if it was given, and the turn only while it lasts.
AgentHonest ==
    /\ Goal \in agent.unread \cup agent.turn => goals # 0
    /\ agent.state = "idle" => agent.turn = {}

\* A workspace whose goal was given, or whose stop was answered, never gets it again.
GoalBarred ==
    kind = "workspace" =>
        /\ goals # 0 \/ stopped => row.state \notin ToDispatch /\ work.pc \notin BeforeGoal
        /\ row.state = "cancelled" => goals = 0 /\ work.pc \notin BeforeGoal
        /\ \A q \in requests : q.stage = "asked" => row.state \notin ToDispatch

\* The receipt is of an input the agent accepted, and a Worker's is of its goal until a
\* rework takes the place.
ReceiptHonest ==
    /\ agent.receipt \subseteq reworked \cup {Goal}
    /\ Goal \in agent.receipt => goals # 0
    /\ kind = "worker" /\ goals # 0 => Goal \in agent.receipt \/ reworked # {}
GoalSafe ==
    GoalGivenOnce /\ ReceiptHonest /\ RowHonest /\ AgentHonest /\ GoalBarred /\ WorkspaceStops

\* Pages follow the cursor or each other, and hold nothing unpublished; a connection made
\* again starts from what was applied.
PageHonest(page) ==
    /\ 1 <= page.from /\ page.from <= page.to /\ page.to <= Len(exports)
    /\ \A i \in page.from .. page.to : exports[i].ready
FollowsOn(n, k) ==
    n <= link.cursor \/ \E j \in 1 .. k : n <= feed.pages[j].to
FeedHonest ==
    /\ link.cursor <= Len(exports)
    /\ feed.resumed <= link.cursor
    /\ FollowsOn(feed.sent, Len(feed.pages))
    /\ \A k \in DOMAIN feed.pages :
          PageHonest(feed.pages[k]) /\ FollowsOn(feed.pages[k].from - 1, k - 1)
JournalSafe == FeedHonest /\ JournalIsReplicated

\* Only the last turn runs, and the agent is in it.
OneRun ==
    /\ agent.state # "idle" => runs # <<>> /\ runs[Len(runs)] = "running"
    /\ \A n \in DOMAIN runs : runs[n] = "running" => n = Len(runs) /\ agent.state # "idle"

\* The journal's own order: a file before its message, the messages of a run before its
\* end, and the runs one after another.
ExportedBefore(i, body) == \E j \in 1 .. i - 1 : exports[j].body = body
Body(i) == exports[i].body
FilesFirstIn ==
    \A i \in DOMAIN exports : Body(i).kind = "message" => ExportedBefore(i, File(Body(i).n))
RunsLastIn ==
    \A i \in DOMAIN exports : Body(i).kind = "run" =>
        /\ Body(i).n \in DOMAIN runs
        /\ Body(i).status \in {"running", runs[Body(i).n]}
        /\ Body(i).status # "running" =>
              \A m \in DOMAIN results : results[m] = Body(i).n => ExportedBefore(i, Message(m))
        /\ \A n \in 1 .. Body(i).n - 1 : Run(n, runs[n]) \in Bodies
Later(a, b) == a.n < b.n \/ (a.n = b.n /\ a.status = "running" /\ b.status # "running")
RunsInOrder ==
    \A i, j \in DOMAIN exports :
        (i < j /\ Body(i).kind = "run" /\ Body(j).kind = "run") => Later(Body(i), Body(j))
ExportsOrdered == OneRun /\ FilesFirstIn /\ RunsLastIn /\ RunsInOrder

\* Nothing comes from an executor without a session.  A decision is made when the owner
\* knows of an end, so it finds the session bound, or the assignment cancelled.
Concluded ==
    \/ stopped \/ link.remote \in Ended \/ pass.pc = "stopped" \/ link.task = "cancelled"
    \/ link.decision # "none" \/ row.decided \/ \E q \in requests : q.what = "decision"
SessionFirst ==
    /\ work.pc \in {"runtime", "dispatch"} \cup AroundGoal => row.bound
    /\ work.pc = "bind" => Undispatched \/ row.bound
    /\ row.runtime \/ row.state = "dispatching" \/ exports # <<>> => row.bound
    /\ agent.unread # {} \/ runs # <<>> => row.bound
    /\ \A q \in requests : q.stage = "asked" => row.bound
    /\ Concluded =>
          row.bound \/ (row.state \in {"cancelled", "settled"} /\ work.pc \notin BeforeGoal)

\* What the owner believes of the executor.
LastRun(k) ==
    /\ Body(k).kind = "run" /\ Body(k).status = link.remote
    /\ \A i \in k + 1 .. link.cursor : Body(i).kind # "run"
RemoteHonest ==
    \/ link.remote \in {"cancelled", "unknown"}
    \/ link.remote = "queued" /\ \A i \in 1 .. link.cursor : Body(i).kind # "run"
    \/ \E k \in 1 .. link.cursor : LastRun(k)
BeliefsHonest ==
    /\ link.state \notin {"none", "queued"} \/ pass.read \notin {"none", "queued"} =>
          row.state # "none"
    /\ link.task = "cancelled" => link.decision # "none"
    /\ link.decision = "sent" => row.decided
    /\ \A r \in Reworks : rework[r] = "delivered" => r \in reworked
    /\ RemoteHonest

MeshInvariant ==
    Types /\ LockHeld /\ GoalSafe /\ JournalSafe /\ ExportsOrdered /\ SessionFirst /\ BeliefsHonest

-----------------------------------------------------------------------------
(* The operators of the model.                                              *)

\* The records of the executor, in the order a capture goes through them.
LEMMA RecordsInOrder ==
    ASSUME ExecutorTypes
    PROVE  /\ Len(results) \in Nat /\ Len(runs) \in Nat
           /\ Records \in Seq(BodyType)
           /\ Len(Records) = 2 * Len(results) + Len(runs)
           /\ \A n \in 1 .. Len(results) :
                 Records[n] = File(n) /\ Records[Len(results) + n] = Message(n)
           /\ \A n \in 1 .. Len(runs) : Records[2 * Len(results) + n] = Run(n, runs[n])
<1> DEFINE fs == [n \in DOMAIN results |-> File(n)]
           ms == [n \in DOMAIN results |-> Message(n)]
           rs == [n \in DOMAIN runs |-> Run(n, runs[n])]
<1>1. /\ results \in Seq(Nat) /\ runs \in Seq(RunStates)
      /\ Len(results) \in Nat /\ DOMAIN results = 1 .. Len(results)
      /\ Len(runs) \in Nat /\ DOMAIN runs = 1 .. Len(runs)
  BY LenProperties DEF ExecutorTypes
<1>2. /\ fs \in Seq(BodyType) /\ Len(fs) = Len(results)
      /\ \A n \in 1 .. Len(results) : fs[n] = File(n)
  BY <1>1 DEF File, BodyType
<1>3. /\ ms \in Seq(BodyType) /\ Len(ms) = Len(results)
      /\ \A n \in 1 .. Len(results) : ms[n] = Message(n)
  BY <1>1 DEF Message, BodyType
<1>4. \A n \in 1 .. Len(runs) : Run(n, runs[n]) \in BodyType
  BY <1>1, ElementOfSeq DEF Run, BodyType
<1>5. /\ rs \in Seq(BodyType) /\ Len(rs) = Len(runs)
      /\ \A n \in 1 .. Len(runs) : rs[n] = Run(n, runs[n])
  BY <1>1, <1>4
<1>6. Records = (fs \o ms) \o rs
  BY DEF Records, FilesFirst
<1> HIDE DEF fs, ms, rs
<1>7. /\ fs \o ms \in Seq(BodyType) /\ Len(fs \o ms) = 2 * Len(results)
      /\ \A i \in 1 .. 2 * Len(results) :
            (fs \o ms)[i] = IF i <= Len(results) THEN fs[i] ELSE ms[i - Len(results)]
  <2>1. Len(fs) + Len(ms) = 2 * Len(results)
    BY <1>1, <1>2, <1>3
  <2> QED
    BY <1>2, <1>3, <2>1, ConcatProperties, SMTT(40)
<1>8. \A n \in 1 .. Len(results) : (fs \o ms)[n] = File(n)
                                 /\ (fs \o ms)[Len(results) + n] = Message(n)
  <2> TAKE n \in 1 .. Len(results)
  <2>1. /\ n \in 1 .. 2 * Len(results) /\ Len(results) + n \in 1 .. 2 * Len(results)
        /\ n <= Len(results) /\ ~(Len(results) + n <= Len(results))
        /\ (Len(results) + n) - Len(results) = n
    BY <1>1
  <2> QED
    BY <1>2, <1>3, <1>7, <2>1
<1>9. /\ Records \in Seq(BodyType) /\ Len(Records) = 2 * Len(results) + Len(runs)
      /\ \A i \in 1 .. 2 * Len(results) + Len(runs) :
            Records[i] = IF i <= 2 * Len(results) THEN (fs \o ms)[i]
                         ELSE rs[i - 2 * Len(results)]
  <2> DEFINE fm == fs \o ms
  <2>1. fm \in Seq(BodyType) /\ rs \in Seq(BodyType)
    BY <1>5, <1>7
  <2>2. /\ Len(fm) = 2 * Len(results) /\ Len(rs) = Len(runs)
    BY <1>5, <1>7
  <2> HIDE DEF fm
  <2>3. /\ fm \o rs \in Seq(BodyType) /\ Len(fm \o rs) = Len(fm) + Len(rs)
        /\ \A i \in 1 .. Len(fm) + Len(rs) :
              (fm \o rs)[i] = IF i <= Len(fm) THEN fm[i] ELSE rs[i - Len(fm)]
    BY <2>1, ConcatProperties
  <2> QED
    BY <1>6, <2>2, <2>3 DEF fm
<1>10. ASSUME NEW n \in 1 .. Len(results)
       PROVE  Records[n] = File(n) /\ Records[Len(results) + n] = Message(n)
  <2>1. /\ n \in 1 .. 2 * Len(results) + Len(runs) /\ n <= 2 * Len(results)
        /\ Len(results) + n \in 1 .. 2 * Len(results) + Len(runs)
        /\ Len(results) + n <= 2 * Len(results)
    BY <1>1
  <2> QED
    BY <1>8, <1>9, <2>1
<1>11. ASSUME NEW n \in 1 .. Len(runs)
       PROVE  Records[2 * Len(results) + n] = Run(n, runs[n])
  <2>1. /\ 2 * Len(results) + n \in 1 .. 2 * Len(results) + Len(runs)
        /\ ~(2 * Len(results) + n <= 2 * Len(results))
        /\ (2 * Len(results) + n) - 2 * Len(results) = n
    BY <1>1
  <2> QED
    BY <1>5, <1>9, <2>1
<1> QED
  BY <1>1, <1>9, <1>10, <1>11

EventType == [body : BodyType, ready : BOOLEAN]

\* What a capture adds: the records that are missing, in their order.
LEMMA UncapturedProperties ==
    ASSUME ExecutorTypes
    PROVE  /\ Missing \in SUBSET Nat /\ IsFiniteSet(Missing)
           /\ Uncaptured \in Seq(BodyType)
           /\ Len(Uncaptured) = IF row.bound THEN Cardinality(Missing) ELSE 0
           /\ \A k \in 1 .. Len(Uncaptured) : Uncaptured[k] = Records[Nth(k, Missing)]
<1>1. /\ Len(Records) \in Nat /\ DOMAIN Records = 1 .. Len(Records)
      /\ \A i \in 1 .. Len(Records) : Records[i] \in BodyType
  BY RecordsInOrder, LenProperties, ElementOfSeq
<1>2. Missing \in SUBSET (1 .. Len(Records))
  BY <1>1 DEF Missing
<1>3. IsFiniteSet(1 .. Len(Records))
  BY <1>1, FS_Interval
<1>4. IsFiniteSet(Missing)
  BY <1>2, <1>3, FS_Subset
<1>5. Missing \in SUBSET Nat
  BY <1>1, <1>2
<1>6. /\ Cardinality(Missing) \in Nat
      /\ \A k \in 1 .. Cardinality(Missing) : Nth(k, Missing) \in Missing
  BY <1>4, <1>5, NthProperties
<1>7. \A k \in 1 .. Cardinality(Missing) : Records[Nth(k, Missing)] \in BodyType
  BY <1>1, <1>2, <1>6
<1>8. CASE row.bound
  <2>1. Uncaptured = [k \in 1 .. Cardinality(Missing) |-> Records[Nth(k, Missing)]]
    BY <1>8 DEF Uncaptured
  <2>2. Uncaptured \in Seq(BodyType) /\ Len(Uncaptured) = Cardinality(Missing)
    BY <1>6, <1>7, <2>1
  <2> QED
    BY <1>4, <1>5, <1>8, <2>1, <2>2
<1>9. CASE ~row.bound
  <2>1. Uncaptured = <<>>
    BY <1>9 DEF Uncaptured
  <2>2. Uncaptured \in Seq(BodyType) /\ Len(Uncaptured) = 0
    BY <2>1
  <2> QED
    BY <1>4, <1>5, <1>9, <2>2
<1> QED
  BY <1>8, <1>9

\* A capture keeps the journal and adds to it.  An added event has every earlier record
\* before it, and of two added ones the first is of the earlier record.
NewBy(p) == p \in Len(exports) + 1 .. Len(exports')
AllBefore(i, p) == \A m \in 1 .. i - 1 : \E j \in 1 .. p - 1 : exports'[j].body = Records[m]
LEMMA CaptureProperties ==
    ASSUME ExecutorTypes, Captures
    PROVE  /\ exports' \in Seq(EventType) /\ Len(exports') >= Len(exports)
           /\ \A i \in 1 .. Len(exports) : exports'[i] = exports[i]
           /\ \A p : NewBy(p) => row.bound /\ exports'[p].body \notin Bodies /\
                 \E i \in DOMAIN Records : exports'[p].body = Records[i] /\ AllBefore(i, p)
           /\ \A p, q : (NewBy(p) /\ NewBy(q) /\ p < q) =>
                 \E i, j \in DOMAIN Records :
                     i < j /\ exports'[p].body = Records[i] /\ exports'[q].body = Records[j]
           /\ row.bound =>
                 \A i \in DOMAIN Records : \E p \in DOMAIN exports' : exports'[p].body = Records[i]
<1> DEFINE new == [k \in DOMAIN Uncaptured |-> Entry(Uncaptured[k])]
           N == Len(exports)
           C == Len(Uncaptured)
           at(k) == Nth(k, Missing)
<1>1. /\ exports \in Seq(EventType) /\ N \in Nat /\ DOMAIN exports = 1 .. N
  BY LenProperties DEF ExecutorTypes, EventType
<1>2. /\ Uncaptured \in Seq(BodyType) /\ C \in Nat /\ DOMAIN Uncaptured = 1 .. C
      /\ \A k \in 1 .. C : Uncaptured[k] \in BodyType
  BY UncapturedProperties, LenProperties, ElementOfSeq
<1>3. /\ new \in Seq(EventType) /\ Len(new) = C
      /\ \A k \in 1 .. C : new[k].body = Uncaptured[k]
  BY <1>2 DEF Entry, EventType
<1>4. exports' = exports \o new
  BY DEF Captures
<1> HIDE DEF new, C, N
<1>5. /\ exports' \in Seq(EventType) /\ Len(exports') = N + C
      /\ \A i \in 1 .. N + C : exports'[i] = IF i <= N THEN exports[i] ELSE new[i - N]
  BY <1>1, <1>3, <1>4, ConcatProperties DEF N
<1>6. \A i \in 1 .. N : exports'[i] = exports[i]
  BY <1>1, <1>2, <1>5
<1>7. \A k \in 1 .. C : exports'[N + k].body = Uncaptured[k]
  <2> TAKE k \in 1 .. C
  <2>1. N + k \in 1 .. N + C /\ ~(N + k <= N) /\ (N + k) - N = k
    BY <1>1, <1>2
  <2> QED
    BY <1>3, <1>5, <2>1
<1>8. /\ Missing \in SUBSET Nat /\ IsFiniteSet(Missing)
      /\ C = IF row.bound THEN Cardinality(Missing) ELSE 0
      /\ \A k \in 1 .. C : Uncaptured[k] = Records[at(k)]
  BY UncapturedProperties DEF C
<1>9. DOMAIN Records = 1 .. Len(Records) /\ Len(Records) \in Nat
  BY RecordsInOrder, LenProperties
<1>10. ASSUME row.bound
       PROVE  /\ \A k \in 1 .. C : at(k) \in Missing
              /\ \A i \in Missing : \E k \in 1 .. C : at(k) = i
              /\ \A k, l \in 1 .. C : k < l => at(k) < at(l)
  BY <1>8, <1>10, NthProperties
<1>11. \A i \in DOMAIN Records \ Missing : \E p \in 1 .. N : exports'[p].body = Records[i]
  BY <1>1, <1>6 DEF Missing, Bodies
<1>12. ASSUME NEW p, NewBy(p)
       PROVE  /\ p - N \in 1 .. C /\ row.bound /\ at(p - N) \in DOMAIN Records
              /\ exports'[p].body = Records[at(p - N)] /\ exports'[p].body \notin Bodies
  <2>1. p - N \in 1 .. C /\ N + (p - N) = p
    BY <1>1, <1>2, <1>5, <1>12 DEF NewBy, N
  <2>2. row.bound
    BY <1>8, <2>1
  <2>3. at(p - N) \in Missing
    BY <1>10, <2>1, <2>2
  <2> QED
    BY <1>7, <1>8, <2>1, <2>2, <2>3 DEF Missing
<1>13. ASSUME NEW p, NewBy(p)
       PROVE  AllBefore(at(p - N), p)
  <2> SUFFICES ASSUME NEW m \in 1 .. at(p - N) - 1
               PROVE  \E j \in 1 .. p - 1 : exports'[j].body = Records[m]
    BY DEF AllBefore
  <2>1. m \in DOMAIN Records /\ m \in Nat /\ at(p - N) \in Nat /\ m < at(p - N)
    BY <1>9, <1>12, <1>13
  <2>2. p - N \in 1 .. C /\ p \in Nat /\ N \in Nat /\ C \in Nat
    BY <1>1, <1>2, <1>5, <1>12, <1>13 DEF NewBy, N
  <2>3. CASE m \notin Missing
    <3>1. PICK j \in 1 .. N : exports'[j].body = Records[m]
      BY <1>11, <2>1, <2>3
    <3> QED
      BY <2>2, <3>1
  <2>4. CASE m \in Missing
    <3>1. PICK k \in 1 .. C : at(k) = m
      BY <1>10, <1>12, <1>13, <2>4
    <3>2. k < p - N
      <4>1. CASE k = p - N
        BY <2>1, <3>1, <4>1
      <4>2. CASE p - N < k
        <5>1. at(p - N) < at(k)
          BY <1>10, <1>12, <1>13, <2>2, <4>2
        <5> QED
          BY <2>1, <3>1, <5>1
      <4> QED
        BY <2>2, <4>1, <4>2
    <3>3. exports'[N + k].body = Records[m] /\ N + k \in 1 .. p - 1
      BY <1>7, <1>8, <2>2, <3>1, <3>2
    <3> QED
      BY <3>3
  <2> QED
    BY <2>3, <2>4
<1>14. ASSUME NEW p, NEW q, NewBy(p), NewBy(q), p < q
       PROVE  at(p - N) < at(q - N)
  <2>1. p - N \in 1 .. C /\ q - N \in 1 .. C /\ p - N < q - N
    BY <1>1, <1>2, <1>5, <1>14 DEF NewBy, N
  <2> QED
    BY <1>10, <1>12, <1>14, <2>1
<1>15. ASSUME row.bound, NEW i \in DOMAIN Records
       PROVE  \E p \in DOMAIN exports' : exports'[p].body = Records[i]
  <2>1. DOMAIN exports' = 1 .. N + C
    BY <1>5, LenProperties
  <2>2. CASE i \in Missing
    <3>1. PICK k \in 1 .. C : at(k) = i
      BY <1>10, <1>15, <2>2
    <3>2. N + k \in 1 .. N + C /\ exports'[N + k].body = Records[i]
      BY <1>1, <1>2, <1>7, <1>8, <3>1
    <3> QED
      BY <2>1, <3>2
  <2>3. CASE i \notin Missing
    <3>1. PICK p \in 1 .. N : exports'[p].body = Records[i]
      BY <1>11, <2>3
    <3> QED
      BY <1>1, <1>2, <2>1, <3>1
  <2> QED
    BY <2>2, <2>3
<1> HIDE DEF at
<1> QED
  <2>1. Len(exports') >= N
    BY <1>1, <1>2, <1>5
  <2>2. \A p : NewBy(p) => row.bound /\ exports'[p].body \notin Bodies /\
           \E i \in DOMAIN Records : exports'[p].body = Records[i] /\ AllBefore(i, p)
    BY <1>12, <1>13
  <2>3. \A p, q : (NewBy(p) /\ NewBy(q) /\ p < q) =>
           \E i, j \in DOMAIN Records :
               i < j /\ exports'[p].body = Records[i] /\ exports'[q].body = Records[j]
    BY <1>12, <1>14
  <2> QED
    BY <1>5, <1>6, <1>15, <2>1, <2>2, <2>3 DEF N

-----------------------------------------------------------------------------
(* What each side leaves alone.                                             *)

\* The owner's people and worker, and its subscription, write nothing of the executor's.
LEMMA OwnerKeeps ==
    ASSUME Owner
    PROVE  UNCHANGED <<kind, row, lock, work, exports, agent, runs, results, goals, reworked, stopped>>
BY Zenon DEF Owner, ownerVars, executorVars, agentVars, ghosts, Delegate, Stop, Decide,
   QueueRework, PassStarts, CallsStop, MarksStopped,
        CallsDecision, CallsRework, PassEnds, OwnerRestarts, FeedReads, Applies,
        ApplyFails, FeedBreaks

\* The requests the owner's steps leave: those it had, given up or not, and one more.
Asked(what, r) == (what = "rework" => r \in Reworks) /\ (what = "decision" => link.decision = "made")
OwnerRequests ==
    \/ UNCHANGED requests
    \/ \E what \in {"delegate", "cancel", "decision", "rework"}, r \in Nat :
          Asked(what, r) /\ requests' = requests \cup {Request(what, r)}
    \/ requests' = {[q EXCEPT !.waiting = FALSE] : q \in requests}
LEMMA OwnerAsks ==
    ASSUME Owner
    PROVE  OwnerRequests
<1>1. CASE PassStarts
  <2>1. Asked("delegate", 0) /\ 0 \in Nat
    BY DEF Asked
  <2> QED
    BY <1>1, <2>1 DEF PassStarts, Send, OwnerRequests
<1>2. CASE CallsStop
  <2>1. Asked("cancel", 0) /\ 0 \in Nat
    BY DEF Asked
  <2> QED
    BY <1>2, <2>1 DEF CallsStop, Send, OwnerRequests
<1>3. CASE CallsDecision
  <2>1. Asked("decision", 0) /\ 0 \in Nat
    BY <1>3 DEF Asked, CallsDecision, PastDecision
  <2> QED
    BY <1>3, <2>1 DEF CallsDecision, Send, OwnerRequests
<1>4. CASE CallsRework
  <2>1. PICK r \in Reworks : requests' = requests \cup {Request("rework", r)}
    BY <1>4 DEF CallsRework, Send
  <2>2. Asked("rework", r) /\ r \in Nat
    BY BoundsAssumption DEF Asked, Reworks
  <2> QED
    BY <2>1, <2>2 DEF OwnerRequests
<1>5. CASE OwnerRestarts
  BY <1>5 DEF OwnerRestarts, OwnerRequests
<1>6. ASSUME ~PassStarts, ~CallsStop, ~CallsDecision, ~CallsRework, ~OwnerRestarts
      PROVE  UNCHANGED requests
  BY <1>6, Zenon DEF Owner, Delegate, Stop, Decide, QueueRework, MarksStopped, PassEnds,
     FeedReads, Applies,
        ApplyFails, FeedBreaks
<1> QED
  BY <1>1, <1>2, <1>3, <1>4, <1>5, <1>6 DEF OwnerRequests

\* The executor's worker writes nothing of the owner's; only a restart of the station
\* fails the call that waits.
LEMMA WorkerKeeps ==
    ASSUME Worker
    PROVE  /\ UNCHANGED <<kind, rework, imported, runs, results, reworked, stopped>>
           /\ ~ExecutorRestarts => UNCHANGED <<link, pass, feed, requests>>
BY Zenon DEF Worker, KeptByWork, ownerVars, agentVars, WorkCancels, WorkHears, WorkFlags,
   WorkLocks, Binds, Allocates, PrepareFails,
        Dispatches, GivesGoal, GoalUncertain, MarksRunning, MarksUncertain, Captures,
        Publishes, Recovers, ExecutorRestarts

\* A turn writes only the product records and the agent's own state.
LEMMA AgentKeeps ==
    ASSUME AgentSteps
    PROVE  UNCHANGED <<kind, link, rework, pass, feed, imported, row, lock, work, exports,
                       requests, goals, reworked, stopped>>
BY Zenon DEF AgentSteps, ownerVars, executorVars, ghosts, TurnStarts, TurnReads, TurnEnds, HandsIn

\* A handler writes no records, and nothing of the subscription.
LEMMA HandlersKeep ==
    ASSUME NEW q \in requests, HandlesDelegate(q) \/ HandlesDecision(q) \/ HandlesRework(q)
               \/ Refuses(q) \/ FlagsStop(q) \/ Unasked(q) \/ AsksAgent(q)
               \/ AgentAnswers(q) \/ HandlerDropped(q) \/ CallTimesOut(q)
    PROVE  UNCHANGED <<kind, feed, imported, work, exports, runs, results, goals>>
BY Zenon DEF ownerVars, executorVars, agentVars, ghosts, HandlesDelegate, HandlesDecision,
   HandlesRework, Refuses, FlagsStop, Unasked,
        AsksAgent, AgentAnswers, HandlerDropped, CallTimesOut

-----------------------------------------------------------------------------
(* Types.                                                                   *)

\* The journal is only added to; an event keeps its body, and stays published.
JournalKept ==
    /\ exports' \in Seq(EventType) /\ Len(exports') >= Len(exports)
    /\ \A i \in 1 .. Len(exports) :
          exports'[i].body = exports[i].body /\ (exports[i].ready => exports'[i].ready)
\* Without a capture it takes at most a request for attention.
OnlyAttention ==
    /\ Len(exports') <= Len(exports) + 1
    /\ \A p : NewBy(p) => exports'[p].body.kind = "attention"

LEMMA ExportProperties ==
    ASSUME ExecutorTypes, NEW why \in {"execution", "dispatch"}, exports' = Export(Attention(why))
    PROVE  JournalKept /\ OnlyAttention
<1>1. exports \in Seq(EventType) /\ Len(exports) \in Nat /\ DOMAIN exports = 1 .. Len(exports)
  BY LenProperties DEF ExecutorTypes, EventType
<1>2. CASE exports' = exports
  BY <1>1, <1>2 DEF JournalKept, OnlyAttention, NewBy
<1>3. CASE exports' = Append(exports, Entry(Attention(why)))
  <2>1. Entry(Attention(why)) \in EventType /\ Entry(Attention(why)).body.kind = "attention"
    BY DEF Entry, Attention, EventType, BodyType
  <2>2. /\ exports' \in Seq(EventType) /\ Len(exports') = Len(exports) + 1
        /\ \A i \in 1 .. Len(exports) : exports'[i] = exports[i]
        /\ exports'[Len(exports) + 1] = Entry(Attention(why))
    BY <1>1, <1>3, <2>1, AppendProperties
  <2> QED
    BY <1>1, <2>1, <2>2 DEF JournalKept, OnlyAttention, NewBy
<1> QED
  BY <1>2, <1>3 DEF Export

LEMMA JournalGrows ==
    ASSUME ExecutorTypes, Next
    PROVE  JournalKept /\ (Captures \/ OnlyAttention)
<1>1. exports \in Seq(EventType) /\ Len(exports) \in Nat /\ DOMAIN exports = 1 .. Len(exports)
  BY LenProperties DEF ExecutorTypes, EventType
<1>2. CASE UNCHANGED exports
  BY <1>1, <1>2 DEF JournalKept, OnlyAttention, NewBy
<1>3. CASE Captures
  BY <1>3, CaptureProperties DEF JournalKept
<1>4. CASE MarksUncertain
  BY <1>2, <1>4, ExportProperties DEF MarksUncertain
<1>5. CASE Recovers
  BY <1>2, <1>5, ExportProperties DEF Recovers
<1>6. CASE Publishes
  <2>1. CASE UNCHANGED exports
    BY <1>2, <2>1
  <2>2. CASE \E i \in Unready : exports' = [exports EXCEPT ![i].ready = TRUE]
    <3>1. PICK i \in 1 .. Len(exports) : exports' = [exports EXCEPT ![i].ready = TRUE]
      BY <1>1, <2>2 DEF Unready
    <3>2. \A j \in 1 .. Len(exports) : exports[j] \in EventType
      BY <1>1, ElementOfSeq
    <3> DEFINE e == [exports[i] EXCEPT !.ready = TRUE]
    <3>3. e \in EventType /\ e.body = exports[i].body /\ e.ready
      BY <3>2 DEF EventType
    <3>4. exports' = [exports EXCEPT ![i] = e]
      BY <3>1
    <3> HIDE DEF e
    <3>5. /\ exports' \in Seq(EventType) /\ Len(exports') = Len(exports)
          /\ \A j \in 1 .. Len(exports) : exports'[j] = IF j = i THEN e ELSE exports[j]
      BY <1>1, <3>3, <3>4, ExceptSeq
    <3> QED
      BY <1>1, <3>3, <3>5 DEF JournalKept, OnlyAttention, NewBy
  <2> QED
    BY <1>6, <2>1, <2>2 DEF Publishes
<1>7. CASE AgentSteps
  BY <1>2, <1>7, AgentKeeps
<1>8. CASE Owner
  BY <1>2, <1>8, OwnerKeeps
<1>9. CASE Handlers
  BY <1>2, <1>9, HandlersKeep DEF Handlers
<1>10. ASSUME Worker, ~Captures, ~MarksUncertain, ~Recovers, ~Publishes
       PROVE  UNCHANGED exports
  BY <1>10, Zenon DEF Worker, executorVars, KeptByWork, WorkCancels, WorkHears, WorkFlags,
     WorkLocks, Binds, Allocates, PrepareFails, Dispatches, GivesGoal, GoalUncertain,
     MarksRunning, ExecutorRestarts
<1> QED
  BY <1>2, <1>3, <1>4, <1>5, <1>6, <1>7, <1>8, <1>9, <1>10 DEF Next

\* The executor's row, lock and worker, what its agent has, and what was accepted.
ControlTypes ==
    /\ row \in [state : RowStates, bound : BOOLEAN, runtime : BOOLEAN,
                stop : {"no", "asked", "sent"}, decided : BOOLEAN]
    /\ lock \in {"free", "worker", "handler"}
    /\ work \in [pc : UnderLock \cup {"idle", "lock", "flag", "publish", "recover"},
                 read : RowStates, at : Nat]
    /\ agent \in [unread : SUBSET Nat, turn : SUBSET Nat,
                  state : {"idle", "working", "cancelling"}, receipt : SUBSET Nat]
    /\ goals \in Nat /\ reworked \in SUBSET Nat /\ stopped \in BOOLEAN
RequestTypes == requests \in SUBSET RequestType
RunTypes == runs \in Seq(RunStates) /\ results \in Seq(Nat)

\* What an accepted input does to the agent.
AgentType ==
    [unread : SUBSET Nat, turn : SUBSET Nat,
     state : {"idle", "working", "cancelling"}, receipt : SUBSET Nat]
Accepted(i) ==
    /\ agent' \in AgentType
    /\ agent'.unread = agent.unread \cup {i} /\ agent'.turn = agent.turn
    /\ agent'.state = agent.state

LEMMA InputAccepted ==
    ASSUME agent \in AgentType, NEW i \in Nat, NEW receipt \in SUBSET Nat,
           agent' = [agent EXCEPT !.unread = @ \cup {i}, !.receipt = receipt]
    PROVE  Accepted(i)
BY DEF AgentType, Accepted

LEMMA GoalAccepted ==
    ASSUME agent \in AgentType, AcceptGoal
    PROVE  UNCHANGED <<agent, goals>> \/ (goals' = goals + 1 /\ Accepted(Goal))
<1>1. CASE UNCHANGED <<agent, goals>>
  BY <1>1
<1>2. CASE ~UNCHANGED <<agent, goals>>
  <2>1. Goal \in Nat
    BY DEF Goal
  <2>2. goals' = goals + 1
    BY <1>2, Zenon DEF AcceptGoal
  <2>3. PICK receipt \in SUBSET Nat :
            agent' = [agent EXCEPT !.unread = @ \cup {Goal}, !.receipt = receipt]
    <3>1. {Goal} \in SUBSET Nat /\ {} \in SUBSET Nat
      BY <2>1
    <3>2. CASE kind = "worker"
      BY <1>2, <3>1, <3>2, Zenon DEF AcceptGoal
    <3>3. CASE kind # "worker"
      BY <1>2, <3>1, <3>3, Zenon DEF AcceptGoal
    <3> QED
      BY <3>2, <3>3
  <2> QED
    BY <2>1, <2>2, <2>3, InputAccepted
<1> QED
  BY <1>1, <1>2

LEMMA ReworkAccepted ==
    ASSUME agent \in AgentType, NEW r \in Nat, AcceptRework(r)
    PROVE  UNCHANGED <<agent, reworked>> \/ (reworked' = reworked \cup {r} /\ Accepted(r))
<1>1. {r} \in SUBSET Nat
  OBVIOUS
<1>2. \/ UNCHANGED <<agent, reworked>>
      \/ /\ reworked' = reworked \cup {r}
         /\ agent' = [agent EXCEPT !.unread = @ \cup {r}, !.receipt = {r}]
  BY Zenon DEF AcceptRework
<1> QED
  BY <1>1, <1>2, InputAccepted

LEMMA ControlTypesOfWorker ==
    ASSUME ExecutorTypes, Worker
    PROVE  ControlTypes'
<1> ControlTypes
  BY DEF ExecutorTypes, ControlTypes
<1> USE DEF ControlTypes, RowStates, UnderLock, KeptByWork, agentVars
<1>1. CASE WorkCancels
  BY <1>1 DEF WorkCancels, Begins, Undispatched, Works, AskTurnToEnd
<1>2. CASE WorkHears
  BY <1>2 DEF WorkHears, Works, AgentIdle
<1>3. CASE WorkFlags
  BY <1>3 DEF WorkFlags, Works
<1>4. CASE WorkLocks
  <2>1. \/ work' = [work EXCEPT !.pc = "bind", !.read = row.state]
        \/ work' = [work EXCEPT !.pc = "capture", !.read = row.state]
    BY <1>4, Zenon DEF WorkLocks
  <2>2. work' \in [pc : UnderLock \cup {"idle", "lock", "flag", "publish", "recover"},
                   read : RowStates, at : Nat]
    BY <2>1 DEF UnderLock
  <2> QED
    BY <1>4, <2>2 DEF WorkLocks
<1>5. CASE Binds
  BY <1>5 DEF Binds, Works, Undispatched
<1>6. CASE Allocates
  BY <1>6 DEF Allocates, Works
<1>7. CASE PrepareFails
  BY <1>7 DEF PrepareFails
<1>8. CASE Dispatches
  BY <1>8 DEF Dispatches, Works
<1>9. CASE GivesGoal
  <2>1. AcceptGoal /\ agent \in AgentType
    BY <1>9 DEF GivesGoal, AgentType
  <2>2. UNCHANGED <<agent, goals>> \/ (goals' = goals + 1 /\ Accepted(Goal))
    BY <2>1, GoalAccepted
  <2> QED
    BY <1>9, <2>2 DEF GivesGoal, Works, Accepted, AgentType
<1>10. CASE GoalUncertain
  <2>1. (AcceptGoal \/ UNCHANGED <<agent, goals>>) /\ agent \in AgentType
    BY <1>10 DEF GoalUncertain, AgentType
  <2>2. UNCHANGED <<agent, goals>> \/ (goals' = goals + 1 /\ Accepted(Goal))
    BY <2>1, GoalAccepted
  <2> QED
    BY <1>10, <2>2 DEF GoalUncertain, Works, Accepted, AgentType
<1>11. CASE MarksRunning
  BY <1>11 DEF MarksRunning, Works
<1>12. CASE MarksUncertain
  BY <1>12 DEF MarksUncertain, Works
<1>13. CASE Captures
  BY <1>13 DEF Captures, Resting
<1>14. CASE Publishes
  <2>1. \A i \in Unready : i \in Nat
    BY LenProperties DEF Unready, ExecutorTypes
  <2>2. \E i \in Unready : work' = Resting \/ work' = [work EXCEPT !.at = i]
    BY <1>14 DEF Publishes
  <2> QED
    BY <1>14, <2>1, <2>2 DEF Publishes, Resting
<1>15. CASE Recovers
  BY <1>15 DEF Recovers, Resting, Recovered
<1>16. CASE ExecutorRestarts
  BY <1>16 DEF ExecutorRestarts, Resting
<1> QED
  BY <1>1, <1>2, <1>3, <1>4, <1>5, <1>6, <1>7, <1>8, <1>9, <1>10, <1>11, <1>12, <1>13, <1>14,
     <1>15, <1>16 DEF Worker

LEMMA ControlTypesOfHandlers ==
    ASSUME ExecutorTypes, Handlers
    PROVE  ControlTypes'
<1> ControlTypes
  BY DEF ExecutorTypes, ControlTypes
<1> PICK q \in requests : HandlesDelegate(q) \/ HandlesDecision(q) \/ HandlesRework(q)
              \/ Refuses(q) \/ FlagsStop(q) \/ Unasked(q) \/ AsksAgent(q)
              \/ AgentAnswers(q) \/ HandlerDropped(q) \/ CallTimesOut(q)
  BY DEF Handlers
<1> q.rework \in Nat
  BY DEF ExecutorTypes, RequestType
<1> USE DEF ControlTypes, RowStates, UnderLock, executorVars, agentVars, ghosts
<1>1. CASE HandlesDelegate(q)
  BY <1>1 DEF HandlesDelegate
<1>2. CASE HandlesDecision(q)
  <2>1. Settled \in [state : RowStates, bound : BOOLEAN, runtime : BOOLEAN,
                     stop : {"no", "asked", "sent"}, decided : BOOLEAN]
    BY DEF Settled
  <2>2. row' \in {row, Settled} /\ UNCHANGED <<lock, work, agent, goals, reworked, stopped>>
    BY <1>2 DEF HandlesDecision
  <2> QED
    BY <2>1, <2>2
<1>3. CASE HandlesRework(q)
  <2>1. AcceptRework(q.rework) /\ agent \in AgentType /\ UNCHANGED <<row, lock, work, goals, stopped>>
    BY <1>3 DEF HandlesRework, AgentType
  <2>2. \/ UNCHANGED <<agent, reworked>>
        \/ reworked' = reworked \cup {q.rework} /\ Accepted(q.rework)
    BY <2>1, ReworkAccepted
  <2>3. agent' \in AgentType
    BY <2>1, <2>2 DEF Accepted
  <2>4. reworked' \in SUBSET Nat
    BY <2>2
  <2> QED
    BY <2>1, <2>3, <2>4 DEF AgentType
<1>4. CASE Refuses(q)
  BY <1>4 DEF Refuses
<1>5. CASE FlagsStop(q)
  BY <1>5 DEF FlagsStop
<1>6. CASE Unasked(q)
  BY <1>6 DEF Unasked, Undispatched
<1>7. CASE AsksAgent(q)
  BY <1>7 DEF AsksAgent, AskTurnToEnd, Undispatched
<1>8. CASE AgentAnswers(q)
  BY <1>8 DEF AgentAnswers, AgentIdle
<1>9. CASE HandlerDropped(q)
  BY <1>9 DEF HandlerDropped
<1>10. CASE CallTimesOut(q)
  BY <1>10 DEF CallTimesOut
<1> QED
  BY <1>1, <1>2, <1>3, <1>4, <1>5, <1>6, <1>7, <1>8, <1>9, <1>10

LEMMA RequestTypesKept ==
    ASSUME ExecutorTypes, Next
    PROVE  RequestTypes'
<1> RequestTypes
  BY DEF ExecutorTypes, RequestTypes
<1> USE DEF RequestTypes, RequestType
<1>1. CASE Owner
  <2>1. OwnerRequests
    BY <1>1, OwnerAsks
  <2>2. \A what \in {"delegate", "cancel", "decision", "rework"}, r \in Nat :
           Request(what, r) \in RequestType
    BY DEF Request
  <2>3. \A q \in requests : [q EXCEPT !.waiting = FALSE] \in RequestType
    OBVIOUS
  <2> QED
    BY <2>1, <2>2, <2>3 DEF OwnerRequests
<1>2. CASE AgentSteps
  BY <1>2, AgentKeeps
<1>3. CASE Worker
  <2>1. CASE ExecutorRestarts
    BY <2>1 DEF ExecutorRestarts
  <2> QED
    BY <1>3, <2>1, WorkerKeeps
<1>4. CASE Handlers
  <2> PICK q \in requests : HandlesDelegate(q) \/ HandlesDecision(q) \/ HandlesRework(q)
                \/ Refuses(q) \/ FlagsStop(q) \/ Unasked(q) \/ AsksAgent(q)
                \/ AgentAnswers(q) \/ HandlerDropped(q) \/ CallTimesOut(q)
    BY <1>4 DEF Handlers
  <2>1. CASE FlagsStop(q)
    BY <2>1 DEF FlagsStop
  <2>2. CASE AsksAgent(q)
    BY <2>2 DEF AsksAgent
  <2>3. CASE CallTimesOut(q)
    <3>1. [q EXCEPT !.waiting = FALSE] \in RequestType
      OBVIOUS
    <3>2. requests' \subseteq requests \cup {[q EXCEPT !.waiting = FALSE]}
      BY <2>3 DEF CallTimesOut
    <3> QED
      BY <3>1, <3>2
  <2>4. ASSUME ~FlagsStop(q), ~AsksAgent(q), ~CallTimesOut(q)
        PROVE  requests' = requests \ {q}
    BY <2>4, Zenon DEF HandlesDelegate, HandlesDecision, HandlesRework, Refuses, Unasked,
       AgentAnswers, HandlerDropped, Reply, Refuse
  <2> QED
    BY <2>1, <2>2, <2>3, <2>4
<1> QED
  BY <1>1, <1>2, <1>3, <1>4 DEF Next

LEMMA AgentTypesKept ==
    ASSUME ExecutorTypes, OneRun, AgentSteps
    PROVE  ControlTypes' /\ RunTypes'
<1> ControlTypes /\ RunTypes
  BY DEF ExecutorTypes, ControlTypes, RunTypes
<1> USE DEF ControlTypes, RunTypes
<1>1. UNCHANGED <<row, lock, work, goals, reworked, stopped>>
  BY AgentKeeps
<1>2. CASE TurnStarts
  BY <1>1, <1>2, AppendProperties DEF TurnStarts, RunStates
<1>3. CASE TurnReads
  BY <1>1, <1>3 DEF TurnReads
<1>4. CASE TurnEnds
  <2>1. Len(runs) \in 1 .. Len(runs)
    BY <1>4, EmptySeq, LenProperties DEF TurnEnds, OneRun
  <2>2. runs' \in Seq(RunStates)
    BY <1>4, <2>1, ExceptSeq, SMTT(40) DEF TurnEnds, RunStates
  <2> QED
    BY <1>1, <1>4, <2>2 DEF TurnEnds
<1>5. CASE HandsIn
  BY <1>1, <1>5, AppendProperties, LenProperties DEF HandsIn
<1> QED
  BY <1>2, <1>3, <1>4, <1>5 DEF AgentSteps

LEMMA ExecutorTypesKept ==
    ASSUME ExecutorTypes, OneRun, Next
    PROVE  ExecutorTypes'
<1>1. RequestTypes'
  BY RequestTypesKept
<1>2. exports' \in Seq([body : BodyType, ready : BOOLEAN])
  BY JournalGrows DEF JournalKept, EventType
<1>3. ControlTypes' /\ RunTypes'
  <2>1. CASE Owner
    BY <2>1, OwnerKeeps DEF ExecutorTypes, ControlTypes, RunTypes
  <2>2. CASE Worker
    BY <2>2, WorkerKeeps, ControlTypesOfWorker DEF ExecutorTypes, RunTypes
  <2>3. CASE Handlers
    BY <2>3, HandlersKeep, ControlTypesOfHandlers DEF ExecutorTypes, RunTypes, Handlers
  <2>4. CASE AgentSteps
    BY <2>4, AgentTypesKept
  <2> QED
    BY <2>1, <2>2, <2>3, <2>4 DEF Next
<1> QED
  BY <1>1, <1>2, <1>3 DEF ExecutorTypes, ControlTypes, RequestTypes, RunTypes

\* The owner's row, its reworks and its pass; and its subscription.
CallTypes ==
    /\ link \in [state : LinkStates, remote : {"queued", "unknown"} \cup RunStates, cursor : Nat,
                 stop : {"no", "asked", "sent"}, decision : {"none", "made", "sent"},
                 task : {"open", "cancelled"}]
    /\ rework \in [Reworks -> {"none", "queued", "delivered"}]
    /\ pass \in [pc : {"idle", "delegate", "stop", "stopped", "decide", "rework"},
                 read : LinkStates]
PageType == [from : Nat, to : Nat]
FeedTypes ==
    /\ feed \in [on : BOOLEAN, resumed : Nat, sent : Nat, pages : Seq([from : Nat, to : Nat])]
    /\ imported \in Seq(BodyType)

\* What a handler does to the owner: nothing, a refusal, or its answer.
LEMMA HandlersAnswer ==
    ASSUME NEW q \in requests, HandlesDelegate(q) \/ HandlesDecision(q) \/ HandlesRework(q)
               \/ Refuses(q) \/ FlagsStop(q) \/ Unasked(q) \/ AsksAgent(q)
               \/ AgentAnswers(q) \/ HandlerDropped(q) \/ CallTimesOut(q)
    PROVE  \/ UNCHANGED <<link, rework, pass>>
           \/ PassFails /\ UNCHANGED rework
           \/ \E c \in BOOLEAN : Answered(q, c)
<1>1. CASE HandlesDelegate(q) \/ HandlesDecision(q) \/ HandlesRework(q)
  <2>1. Reply(q, FALSE)
    BY <1>1 DEF HandlesDelegate, HandlesDecision, HandlesRework
  <2> QED
    BY <2>1, Zenon DEF Reply
<1>2. CASE Unasked(q)
  <2>1. Reply(q, row'.state = "cancelled") /\ (row'.state = "cancelled") \in BOOLEAN
    BY <1>2 DEF Unasked
  <2> QED
    BY <2>1, Zenon DEF Reply
<1>3. CASE AgentAnswers(q)
  <2>1. \E c \in BOOLEAN : Reply(q, c)
    BY <1>3 DEF AgentAnswers, AgentIdle
  <2> QED
    BY <2>1, Zenon DEF Reply
<1>4. CASE Refuses(q) \/ HandlerDropped(q)
  <2>1. Refuse(q)
    BY <1>4, Zenon DEF Refuses, HandlerDropped
  <2> QED
    BY <2>1, Zenon DEF Refuse
<1>5. CASE FlagsStop(q) \/ AsksAgent(q)
  BY <1>5 DEF FlagsStop, AsksAgent, ownerVars
<1>6. CASE CallTimesOut(q)
  BY <1>6, Zenon DEF CallTimesOut
<1> QED
  BY <1>1, <1>2, <1>3, <1>4, <1>5, <1>6

LEMMA FailuresTyped ==
    ASSUME OwnerTypes, PassFails, UNCHANGED rework
    PROVE  CallTypes'
BY DEF OwnerTypes, CallTypes, PassFails, WrittenBack, Idle, LinkStates

LEMMA AnswersTyped ==
    ASSUME OwnerTypes, NEW q \in RequestType, NEW c \in BOOLEAN, Answered(q, c)
    PROVE  CallTypes'
<1> CallTypes
  BY DEF OwnerTypes, CallTypes
<1> USE DEF CallTypes, LinkStates
<1>1. CASE q.what = "delegate"
  BY <1>1 DEF Answered, Delegated
<1>2. CASE q.what = "cancel"
  BY <1>2 DEF Answered
<1>3. CASE q.what = "decision"
  BY <1>3 DEF Answered
<1>4. CASE q.what = "rework"
  BY <1>4 DEF Answered
<1> QED
  BY <1>1, <1>2, <1>3, <1>4 DEF RequestType

LEMMA CallTypesOfOwner ==
    ASSUME OwnerTypes, Owner, ~Applies
    PROVE  CallTypes'
<1> CallTypes
  BY DEF OwnerTypes, CallTypes
<1> USE DEF CallTypes, LinkStates, ownerVars
<1>1. CASE Delegate
  BY <1>1 DEF Delegate
<1>2. CASE Stop
  BY <1>2 DEF Stop
<1>3. CASE Decide
  BY <1>3 DEF Decide
<1>4. ASSUME NEW r \in Reworks, QueueRework(r)
      PROVE  CallTypes'
  BY <1>4 DEF QueueRework
<1>5. CASE PassStarts
  BY <1>5 DEF PassStarts
<1>6. CASE CallsStop
  BY <1>6 DEF CallsStop
<1>7. CASE MarksStopped
  BY <1>7 DEF MarksStopped, RunStates
<1>8. CASE CallsDecision
  BY <1>8 DEF CallsDecision
<1>9. CASE CallsRework
  BY <1>9 DEF CallsRework
<1>10. CASE PassEnds
  BY <1>10 DEF PassEnds, Idle
<1>11. CASE OwnerRestarts
  BY <1>11 DEF OwnerRestarts, Idle
<1>12. CASE FeedReads
  BY <1>12 DEF FeedReads
<1>13. CASE ApplyFails
  BY <1>13 DEF ApplyFails
<1>14. CASE FeedBreaks
  BY <1>14 DEF FeedBreaks
<1> QED
  BY <1>1, <1>2, <1>3, <1>4, <1>5, <1>6, <1>7, <1>8, <1>9, <1>10, <1>11, <1>12, <1>13, <1>14 DEF
     Owner

\* The page the owner applies: the event after its cursor, published, or one before it.
LEMMA HeadPage ==
    ASSUME Types, FeedHonest, Applies
    PROVE  /\ Len(feed.pages) \in Nat \ {0} /\ 1 \in DOMAIN feed.pages
           /\ Head(feed.pages) = feed.pages[1] /\ feed.pages[1] \in PageType
           /\ feed.pages[1].from \in 1 .. Len(exports)
           /\ exports[feed.pages[1].from].body \in BodyType /\ exports[feed.pages[1].from].ready
           /\ InOrder(Head(feed.pages)) => feed.pages[1].from = link.cursor + 1
<1>1. feed.pages \in Seq(PageType) /\ link.cursor \in Nat
  BY DEF Types, OwnerTypes, PageType
<1>2. Len(feed.pages) \in Nat \ {0} /\ DOMAIN feed.pages = 1 .. Len(feed.pages)
  BY <1>1, EmptySeq, LenProperties DEF Applies
<1>3. 1 \in DOMAIN feed.pages /\ Head(feed.pages) = feed.pages[1]
  BY <1>1, <1>2, HeadTailProperties DEF Applies
<1>4. feed.pages[1] \in PageType
  BY <1>1, <1>2, <1>3, ElementOfSeq
<1>5. PageHonest(feed.pages[1]) /\ FollowsOn(feed.pages[1].from - 1, 0)
  BY <1>3 DEF FeedHonest
<1>6. exports \in Seq(EventType) /\ Len(exports) \in Nat
  BY LenProperties DEF Types, ExecutorTypes, EventType
<1>7. feed.pages[1].from \in 1 .. Len(exports) /\ exports[feed.pages[1].from].ready
  BY <1>4, <1>5, <1>6 DEF PageHonest, PageType
<1>8. exports[feed.pages[1].from].body \in BodyType
  <2>1. exports[feed.pages[1].from] \in EventType
    BY <1>6, <1>7, ElementOfSeq
  <2> QED
    BY <2>1 DEF EventType
<1>9. InOrder(Head(feed.pages)) => feed.pages[1].from = link.cursor + 1
  BY <1>1, <1>3, <1>4, <1>5 DEF InOrder, FollowsOn, PageType
<1> QED
  BY <1>2, <1>3, <1>4, <1>7, <1>8, <1>9

LEMMA ImportsTyped ==
    ASSUME OwnerTypes, NEW body \in BodyType, Import(body), UNCHANGED <<rework, pass>>
    PROVE  CallTypes' /\ imported' \in Seq(BodyType)
<1> CallTypes
  BY DEF OwnerTypes, CallTypes
<1>1. imported' \in Seq(BodyType)
  BY AppendProperties DEF OwnerTypes, Import
<1>2. CASE body.kind = "run"
  <2>1. body.status \in RunStates
    BY <1>2 DEF BodyType
  <2>2. link' = [link EXCEPT !.cursor = @ + 1, !.remote = body.status,
                     !.state = IF @ = "needs_attention" THEN "received" ELSE @]
    BY <1>2 DEF Import
  <2> DEFINE state == IF link.state = "needs_attention" THEN "received" ELSE link.state
             cursor == link.cursor + 1
  <2>3. link' = [link EXCEPT !.cursor = cursor, !.remote = body.status, !.state = state]
    BY <2>2
  <2>4. state \in LinkStates /\ cursor \in Nat
    BY DEF CallTypes, LinkStates
  <2> HIDE DEF state, cursor
  <2> QED
    BY <1>1, <2>1, <2>3, <2>4 DEF CallTypes
<1>3. CASE body.kind = "attention"
  <2> DEFINE cursor == link.cursor + 1
  <2>1. link' = [link EXCEPT !.cursor = cursor, !.remote = "unknown", !.state = "needs_attention"]
    BY <1>3 DEF Import
  <2>2. cursor \in Nat /\ "needs_attention" \in LinkStates
    BY DEF CallTypes, LinkStates
  <2> HIDE DEF cursor
  <2> QED
    BY <1>1, <2>1, <2>2 DEF CallTypes
<1>4. CASE body.kind \notin {"run", "attention"}
  BY <1>1, <1>4 DEF Import, CallTypes
<1> QED
  BY <1>2, <1>3, <1>4

LEMMA FollowTyped ==
    ASSUME NEW c \in Nat
    PROVE  Follow(c) \in [on : BOOLEAN, resumed : Nat, sent : Nat, pages : Seq(PageType)]
BY EmptySeq DEF Follow

LEMMA PageAdvances ==
    ASSUME NEW page \in PageType
    PROVE  [page EXCEPT !.from = page.from + 1] \in PageType
<1>1. page.from + 1 \in Nat
  BY DEF PageType
<1> QED
  BY <1>1 DEF PageType

LEMMA FeedTypesOfOwner ==
    ASSUME Types, FeedHonest, Owner
    PROVE  FeedTypes'
<1> FeedTypes /\ link.cursor \in Nat
  BY DEF Types, OwnerTypes, FeedTypes
<1> USE DEF FeedTypes, PageType
<1>1. CASE FeedReads
  <2>1. \A last \in feed.sent + 1 .. Len(exports) :
           [from |-> feed.sent + 1, to |-> last] \in PageType /\ last \in Nat
    BY LenProperties DEF Types, ExecutorTypes
  <2>2. \A last \in feed.sent + 1 .. Len(exports) :
           Append(feed.pages, [from |-> feed.sent + 1, to |-> last]) \in Seq(PageType)
    BY <2>1, AppendProperties
  <2> QED
    BY <1>1, <2>1, <2>2 DEF FeedReads
<1>2. CASE Applies
  <2>1. feed.pages # <<>> /\ Tail(feed.pages) \in Seq(PageType)
    BY <1>2, HeadTailProperties DEF Applies
  <2>2. /\ Head(feed.pages) = feed.pages[1] /\ feed.pages[1] \in PageType
        /\ exports[feed.pages[1].from].body \in BodyType
        /\ 1 \in 1 .. Len(feed.pages)
    BY <1>2, HeadPage
  <2>3. CASE InOrder(Head(feed.pages))
    <3>1. imported' \in Seq(BodyType)
      BY <1>2, <2>2, <2>3, ImportsTyped DEF Applies, Types
    <3> DEFINE rest == [feed.pages[1] EXCEPT !.from = feed.pages[1].from + 1]
    <3>2. [feed.pages EXCEPT ![1] = rest] \in Seq(PageType)
      <4>1. rest \in PageType
        BY <2>2, PageAdvances
      <4> HIDE DEF rest
      <4> QED
        BY <2>2, <4>1, ExceptSeq
    <3>3. \/ feed' = [feed EXCEPT !.pages = Tail(@), !.resumed = feed.pages[1].to]
          \/ feed' = [feed EXCEPT !.pages = [feed.pages EXCEPT ![1] = rest]]
      BY <1>2, <2>2, <2>3 DEF Applies
    <3> HIDE DEF rest
    <3> QED
      BY <2>1, <2>2, <3>1, <3>2, <3>3
  <2>4. CASE ~InOrder(Head(feed.pages))
    BY <1>2, <2>4, FollowTyped DEF Applies
  <2> QED
    BY <2>3, <2>4
<1>3. CASE ApplyFails
  BY <1>3, FollowTyped DEF ApplyFails
<1>4. CASE FeedBreaks
  BY <1>4 DEF FeedBreaks
<1>5. CASE PassEnds
  BY <1>5, FollowTyped DEF PassEnds
<1>6. CASE OwnerRestarts
  BY <1>6, EmptySeq DEF OwnerRestarts, NoFeed
<1>7. ASSUME ~FeedReads, ~Applies, ~ApplyFails, ~FeedBreaks, ~PassEnds, ~OwnerRestarts
      PROVE  UNCHANGED <<feed, imported>>
  BY <1>7, Zenon DEF Owner, ownerVars, Delegate, Stop, Decide, QueueRework, PassStarts,
     CallsStop, MarksStopped, CallsDecision, CallsRework
<1> QED
  BY <1>1, <1>2, <1>3, <1>4, <1>5, <1>6, <1>7

LEMMA OwnerTypesKept ==
    ASSUME Types, FeedHonest, Next
    PROVE  OwnerTypes'
<1>1. CASE Owner
  <2>1. FeedTypes'
    BY <1>1, FeedTypesOfOwner
  <2>2. CallTypes'
    <3>1. CASE Applies
      <4>1. CASE InOrder(Head(feed.pages))
        BY <3>1, <4>1, HeadPage, ImportsTyped DEF Applies, Types
      <4>2. CASE ~InOrder(Head(feed.pages))
        BY <3>1, <4>2 DEF Applies, Types, OwnerTypes, CallTypes
      <4> QED
        BY <4>1, <4>2
    <3> QED
      BY <1>1, <3>1, CallTypesOfOwner DEF Types
  <2> QED
    BY <1>1, <2>1, <2>2, OwnerKeeps DEF Types, OwnerTypes, CallTypes, FeedTypes
<1>2. CASE Handlers
  <2> PICK q \in requests : HandlesDelegate(q) \/ HandlesDecision(q) \/ HandlesRework(q)
                \/ Refuses(q) \/ FlagsStop(q) \/ Unasked(q) \/ AsksAgent(q)
                \/ AgentAnswers(q) \/ HandlerDropped(q) \/ CallTimesOut(q)
    BY <1>2 DEF Handlers
  <2>1. UNCHANGED <<kind, feed, imported>>
    BY HandlersKeep
  <2>2. CallTypes'
    BY HandlersAnswer, FailuresTyped, AnswersTyped DEF Types, OwnerTypes, ExecutorTypes, CallTypes
  <2> QED
    BY <2>1, <2>2 DEF Types, OwnerTypes, CallTypes
<1>3. CASE Worker
  <2>1. CASE ExecutorRestarts
    <3>1. CallTypes'
      BY <2>1, FailuresTyped DEF ExecutorRestarts, Types, OwnerTypes, CallTypes
    <3>2. FeedTypes' /\ UNCHANGED kind
      BY <2>1 DEF ExecutorRestarts, Types, OwnerTypes, FeedTypes
    <3> QED
      BY <3>1, <3>2 DEF Types, OwnerTypes, CallTypes, FeedTypes
  <2>2. CASE ~ExecutorRestarts
    BY <1>3, <2>2, WorkerKeeps DEF Types, OwnerTypes
  <2> QED
    BY <2>1, <2>2
<1>4. CASE AgentSteps
  BY <1>4, AgentKeeps DEF Types, OwnerTypes
<1> QED
  BY <1>1, <1>2, <1>3, <1>4 DEF Next

-----------------------------------------------------------------------------
(* The subscription.                                                        *)

\* Only an event that is applied moves the owner's cursor.
LEMMA CursorKept ==
    ASSUME Types, Next, ~Applies
    PROVE  link'.cursor = link.cursor
<1>1. CallTypes
  BY DEF Types, OwnerTypes, CallTypes
<1> USE DEF CallTypes
<1>2. ASSUME PassFails
      PROVE  link'.cursor = link.cursor
  BY <1>1, <1>2 DEF PassFails, WrittenBack
<1>3. CASE Owner
  <2>1. CASE Delegate
    BY <1>1, <2>1 DEF Delegate
  <2>2. CASE Stop
    BY <1>1, <2>2 DEF Stop
  <2>3. CASE Decide
    BY <1>1, <2>3 DEF Decide
  <2>4. CASE MarksStopped
    BY <1>1, <2>4 DEF MarksStopped
  <2>5. ASSUME ~Delegate, ~Stop, ~Decide, ~MarksStopped
        PROVE  UNCHANGED link
    BY <1>3, <2>5, Zenon DEF Owner, ownerVars, QueueRework, PassStarts, CallsStop,
       CallsDecision, CallsRework, PassEnds, OwnerRestarts, FeedReads, ApplyFails, FeedBreaks
  <2> QED
    BY <2>1, <2>2, <2>3, <2>4, <2>5
<1>4. CASE Handlers
  <2> PICK q \in requests : HandlesDelegate(q) \/ HandlesDecision(q) \/ HandlesRework(q)
                \/ Refuses(q) \/ FlagsStop(q) \/ Unasked(q) \/ AsksAgent(q)
                \/ AgentAnswers(q) \/ HandlerDropped(q) \/ CallTimesOut(q)
    BY <1>4 DEF Handlers
  <2>1. ASSUME NEW c \in BOOLEAN, Answered(q, c)
        PROVE  link'.cursor = link.cursor
    <3>1. link' \in {link, Delegated, [link EXCEPT !.stop = "sent"], [link EXCEPT !.decision = "sent"]}
      BY <2>1 DEF Answered
    <3> QED
      BY <1>1, <3>1 DEF Delegated
  <2> QED
    BY <1>2, <2>1, HandlersAnswer
<1>5. CASE Worker
  <2>1. CASE ExecutorRestarts
    BY <1>2, <2>1 DEF ExecutorRestarts
  <2>2. CASE ~ExecutorRestarts
    BY <1>5, <2>2, WorkerKeeps
  <2> QED
    BY <2>1, <2>2
<1>6. CASE AgentSteps
  BY <1>6, AgentKeeps
<1> QED
  BY <1>3, <1>4, <1>5, <1>6 DEF Next

LEMMA FeedShape ==
    ASSUME Types
    PROVE  /\ feed.pages \in Seq(PageType) /\ Len(feed.pages) \in Nat
           /\ DOMAIN feed.pages = 1 .. Len(feed.pages)
           /\ \A k \in 1 .. Len(feed.pages) : feed.pages[k] \in PageType
           /\ link.cursor \in Nat /\ feed.sent \in Nat /\ feed.resumed \in Nat
           /\ exports \in Seq(EventType) /\ Len(exports) \in Nat
           /\ DOMAIN exports = 1 .. Len(exports)
<1>1. feed.pages \in Seq(PageType) /\ exports \in Seq(EventType)
  BY DEF Types, OwnerTypes, ExecutorTypes, PageType, EventType
<1>2. link.cursor \in Nat /\ feed.sent \in Nat /\ feed.resumed \in Nat
  BY DEF Types, OwnerTypes
<1> QED
  BY <1>1, <1>2, LenProperties, ElementOfSeq

\* While the journal grows, a subscription keeps what it promised, also one that starts
\* again from the last page applied.
LEMMA QuietFeed ==
    ASSUME Types, JournalSafe, JournalKept, link'.cursor = link.cursor, UNCHANGED imported,
           feed'.pages = feed.pages, feed'.resumed = feed.resumed,
           feed'.sent \in {feed.sent, feed.resumed}
    PROVE  JournalSafe'
<1>1. /\ feed.pages \in Seq(PageType) /\ DOMAIN feed.pages = 1 .. Len(feed.pages)
      /\ \A k \in DOMAIN feed.pages : feed.pages[k] \in PageType
      /\ link.cursor \in Nat /\ Len(exports) \in Nat /\ Len(exports') \in Nat
      /\ Len(exports') >= Len(exports)
  BY FeedShape, LenProperties DEF JournalKept
<1>2. \A k \in DOMAIN feed.pages : PageHonest(feed.pages[k])'
  <2> TAKE k \in DOMAIN feed.pages
  <2> DEFINE page == feed.pages[k]
  <2>1. page \in PageType /\ PageHonest(page)
    BY <1>1 DEF JournalSafe, FeedHonest
  <2>2. /\ 1 <= page.from /\ page.from <= page.to /\ page.to <= Len(exports')
        /\ \A i \in page.from .. page.to : exports'[i].ready
    BY <2>1, <1>1 DEF PageHonest, PageType, JournalKept
  <2>3. feed'.pages[k] = page
    OBVIOUS
  <2> HIDE DEF page
  <2> QED
    BY <2>2, <2>3 DEF PageHonest
<1>3. FollowsOn(feed.sent, Len(feed.pages))'
  <2>1. FollowsOn(feed.sent, Len(feed.pages)) /\ feed.resumed <= link.cursor
    BY DEF JournalSafe, FeedHonest
  <2> QED
    BY <2>1 DEF FollowsOn
<1>4. \A k \in DOMAIN feed.pages : FollowsOn(feed.pages[k].from - 1, k - 1)'
  BY DEF JournalSafe, FeedHonest, FollowsOn
<1>5. link'.cursor <= Len(exports') /\ feed'.resumed <= link'.cursor
  BY <1>1 DEF JournalSafe, FeedHonest
<1>6. JournalIsReplicated'
  <2>1. \A i \in 1 .. link.cursor : i \in 1 .. Len(exports)
    BY <1>1 DEF JournalSafe, FeedHonest
  <2>2. \A i \in 1 .. link.cursor : exports'[i].body = exports[i].body /\ exports'[i].ready
    BY <2>1 DEF JournalKept, JournalSafe, JournalIsReplicated
  <2>3. imported' = [i \in 1 .. link'.cursor |-> exports'[i].body]
    BY <2>2 DEF JournalSafe, JournalIsReplicated
  <2> QED
    BY <2>2, <2>3 DEF JournalIsReplicated
<1> QED
  BY <1>2, <1>3, <1>4, <1>5, <1>6 DEF JournalSafe, FeedHonest

\* A new subscription has no pages.
LEMMA FreshFeed ==
    ASSUME Types, JournalSafe, JournalKept, link'.cursor = link.cursor, UNCHANGED imported,
           feed' = Follow(link.cursor) \/ feed' = NoFeed
    PROVE  JournalSafe'
<1>1. link.cursor \in Nat /\ Len(exports) \in Nat /\ Len(exports') \in Nat
  BY LenProperties DEF Types, OwnerTypes, ExecutorTypes, JournalKept
<1>2. /\ feed'.pages = <<>> /\ feed'.resumed <= link.cursor /\ feed'.sent <= link.cursor
      /\ feed'.sent \in Nat /\ DOMAIN feed'.pages = {}
  BY <1>1 DEF Follow, NoFeed
<1>3. link'.cursor <= Len(exports')
  BY <1>1 DEF JournalSafe, FeedHonest, JournalKept
<1>4. FollowsOn(feed.sent, Len(feed.pages))'
  BY <1>2 DEF FollowsOn
<1>5. FeedHonest'
  BY <1>2, <1>3, <1>4 DEF FeedHonest
<1>6. JournalIsReplicated'
  <2>1. \A i \in 1 .. link.cursor : i \in 1 .. Len(exports)
    BY <1>1 DEF JournalSafe, FeedHonest
  <2>2. \A i \in 1 .. link.cursor : exports'[i].body = exports[i].body /\ exports'[i].ready
    BY <2>1 DEF JournalKept, JournalSafe, JournalIsReplicated
  <2>3. imported' = [i \in 1 .. link'.cursor |-> exports'[i].body]
    BY <2>2 DEF JournalSafe, JournalIsReplicated
  <2> QED
    BY <2>2, <2>3 DEF JournalIsReplicated
<1> QED
  BY <1>5, <1>6 DEF JournalSafe

\* What is read follows the cursor or the last page, and every event of it is published.
LEMMA ReadingIsHonest ==
    ASSUME Types, JournalSafe, FeedReads
    PROVE  JournalSafe'
<1> DEFINE N == Len(feed.pages)
<1>1. /\ feed.pages \in Seq(PageType) /\ N \in Nat /\ DOMAIN feed.pages = 1 .. N
      /\ \A k \in 1 .. N : feed.pages[k] \in PageType
      /\ link.cursor \in Nat /\ Len(exports) \in Nat /\ feed.sent \in Nat
  BY FeedShape
<1>2. PICK last \in feed.sent + 1 .. Len(exports) :
          /\ Servable(last)
          /\ feed' = [feed EXCEPT !.sent = last,
                         !.pages = Append(feed.pages, [from |-> feed.sent + 1, to |-> last])]
  BY DEF FeedReads
<1> DEFINE page == [from |-> feed.sent + 1, to |-> last]
<1>3. page \in PageType /\ page.from = feed.sent + 1 /\ page.to = last /\ last \in Nat
  BY <1>1 DEF PageType
<1>4. /\ feed'.pages = Append(feed.pages, page) /\ feed'.sent = last
      /\ feed'.resumed = feed.resumed
  BY <1>2 DEF Types, OwnerTypes
<1>5. UNCHANGED <<link, exports, imported>>
  BY DEF FeedReads, executorVars
<1>6. PageHonest(page)
  BY <1>1, <1>2 DEF PageHonest, Servable
<1> HIDE DEF page, N
<1>7. /\ Len(feed'.pages) = N + 1 /\ DOMAIN feed'.pages = 1 .. N + 1
      /\ \A k \in 1 .. N : feed'.pages[k] = feed.pages[k]
      /\ feed'.pages[N + 1] = page
  BY <1>1, <1>3, <1>4, AppendProperties, LenProperties DEF N
<1>8. \A n, k : k \in 0 .. N =>
         (FollowsOn(n, k) =>
            (n <= link'.cursor \/ \E j \in 1 .. k : n <= feed'.pages[j].to))
  <2> SUFFICES ASSUME NEW n, NEW k \in 0 .. N, FollowsOn(n, k)
               PROVE  n <= link'.cursor \/ \E j \in 1 .. k : n <= feed'.pages[j].to
    OBVIOUS
  <2>1. \A j \in 1 .. k : feed'.pages[j] = feed.pages[j]
    <3>1. N \in Nat /\ \A j \in 1 .. N : feed'.pages[j] = feed.pages[j]
      BY <1>1, <1>7
    <3> QED
      BY <3>1
  <2>2. link' = link
    BY <1>5
  <2> QED
    BY <2>1, <2>2 DEF FollowsOn
<1>9. ASSUME NEW k \in 1 .. N + 1
      PROVE  PageHonest(feed.pages[k])' /\ FollowsOn(feed.pages[k].from - 1, k - 1)'
  <2>1. CASE k \in 1 .. N
    <3>1. PageHonest(feed.pages[k]) /\ FollowsOn(feed.pages[k].from - 1, k - 1)
      BY <1>1, <2>1 DEF JournalSafe, FeedHonest
    <3>2. feed'.pages[k] = feed.pages[k] /\ k - 1 \in 0 .. N
      BY <1>1, <1>7, <2>1
    <3> QED
      BY <1>5, <1>8, <3>1, <3>2 DEF PageHonest, FollowsOn
  <2>2. CASE k = N + 1
    <3>1. feed'.pages[k] = page
      BY <1>7, <2>2
    <3>2. FollowsOn(feed.sent, N) /\ page.from - 1 = feed.sent /\ k - 1 = N /\ N \in 0 .. N
      BY <1>1, <1>3, <2>2 DEF JournalSafe, FeedHonest, N
    <3> QED
      BY <1>5, <1>6, <1>8, <3>1, <3>2 DEF PageHonest, FollowsOn
  <2> QED
    BY <1>1, <2>1, <2>2
<1>10. FollowsOn(feed.sent, Len(feed.pages))'
  <2>1. last <= feed'.pages[N + 1].to /\ N + 1 \in 1 .. N + 1
    BY <1>1, <1>3, <1>7
  <2> QED
    BY <1>4, <1>7, <2>1 DEF FollowsOn
<1> QED
  BY <1>4, <1>5, <1>7, <1>9, <1>10 DEF JournalSafe, FeedHonest, JournalIsReplicated

\* An event that is applied is the next of the journal.
LEMMA ImportIsNext ==
    ASSUME Types, JournalSafe, UNCHANGED exports,
           link.cursor + 1 \in 1 .. Len(exports), exports[link.cursor + 1].ready,
           exports[link.cursor + 1].body \in BodyType, Import(exports[link.cursor + 1].body)
    PROVE  link'.cursor = link.cursor + 1 /\ JournalIsReplicated'
<1> DEFINE c == link.cursor
           t == [i \in 1 .. c + 1 |-> exports[i].body]
<1>1. /\ c \in Nat /\ imported \in Seq(BodyType) /\ Len(imported) \in Nat
      /\ DOMAIN imported = 1 .. Len(imported)
      /\ exports \in Seq(EventType) /\ Len(exports) \in Nat
  BY FeedShape, LenProperties DEF Types, OwnerTypes
<1>2. /\ imported = [i \in 1 .. c |-> exports[i].body] /\ \A i \in 1 .. c : exports[i].ready
  BY DEF JournalSafe, JournalIsReplicated
<1>3. Len(imported) = c
  <2>1. 1 .. Len(imported) = 1 .. c
    BY <1>1, <1>2
  <2>2. \A n \in Nat : (n \in 1 .. Len(imported)) <=> (n \in 1 .. c)
    BY <2>1
  <2> HIDE DEF c
  <2>3. c >= 1 => c <= Len(imported)
    BY <1>1, <2>2
  <2>4. Len(imported) >= 1 => Len(imported) <= c
    BY <1>1, <2>2
  <2>5. c \in Nat /\ Len(imported) \in Nat
    BY <1>1
  <2> QED
    BY <2>3, <2>4, <2>5
<1>4. link'.cursor = c + 1 /\ imported' = Append(imported, exports[c + 1].body)
  <2>1. CallTypes
    BY DEF Types, OwnerTypes, CallTypes
  <2> QED
    BY <2>1 DEF Import, CallTypes
<1>5. /\ imported' \in Seq(BodyType) /\ Len(imported') = c + 1
      /\ \A i \in 1 .. c : imported'[i] = imported[i]
      /\ imported'[c + 1] = exports[c + 1].body
  BY <1>1, <1>3, <1>4, AppendProperties
<1>6. \A i \in 1 .. c + 1 : exports[i].body \in BodyType
  <2>1. \A i \in 1 .. Len(exports) : exports[i] \in EventType
    BY <1>1, ElementOfSeq
  <2> QED
    BY <1>1, <2>1 DEF EventType
<1>7. t \in Seq(BodyType) /\ Len(t) = c + 1
  BY <1>1, <1>6, SMTT(40)
<1>8. \A i \in 1 .. c + 1 : imported'[i] = t[i]
  <2> TAKE i \in 1 .. c + 1
  <2>1. CASE i = c + 1
    BY <1>5, <2>1
  <2>2. CASE i # c + 1
    <3>1. i \in 1 .. c
      BY <1>1, <2>2
    <3>2. imported'[i] = imported[i] /\ imported[i] = exports[i].body
      BY <1>2, <1>5, <3>1
    <3> QED
      BY <3>2
  <2> QED
    BY <2>1, <2>2
<1>9. imported' = t
  <2> HIDE DEF t, c
  <2> QED
    BY <1>5, <1>7, <1>8, SeqEqual
<1> QED
  BY <1>1, <1>2, <1>4, <1>9 DEF JournalIsReplicated

LEMMA ApplyingIsHonest ==
    ASSUME Types, JournalSafe, Applies, InOrder(Head(feed.pages))
    PROVE  JournalSafe'
<1> DEFINE N == Len(feed.pages)
           first == feed.pages[1]
           c == link.cursor
<1>1. /\ feed.pages \in Seq(PageType) /\ N \in Nat /\ DOMAIN feed.pages = 1 .. N
      /\ \A k \in 1 .. N : feed.pages[k].from \in Nat /\ feed.pages[k].to \in Nat
      /\ c \in Nat /\ feed.sent \in Nat /\ Len(exports) \in Nat
  BY FeedShape DEF PageType
<1>2. /\ 1 \in 1 .. N /\ first \in PageType /\ first.from = c + 1
      /\ first.from \in 1 .. Len(exports) /\ exports[first.from].ready
      /\ exports[first.from].body \in BodyType /\ Head(feed.pages) = first
  <2>1. FeedHonest
    BY DEF JournalSafe
  <2> QED
    BY <1>1, <2>1, HeadPage
<1>3. UNCHANGED exports /\ Import(exports[c + 1].body)
  BY <1>2 DEF Applies, executorVars
<1>4. link'.cursor = c + 1 /\ JournalIsReplicated' /\ link'.cursor <= Len(exports)
  BY <1>1, <1>2, <1>3, ImportIsNext
<1>5. /\ \A k \in 1 .. N : PageHonest(feed.pages[k]) /\ FollowsOn(feed.pages[k].from - 1, k - 1)
      /\ FollowsOn(feed.sent, N) /\ feed.resumed \in Nat /\ feed.resumed <= c
  BY <1>1, FeedShape DEF JournalSafe, FeedHonest
<1>6. feed' = IF first.from = first.to
              THEN [feed EXCEPT !.pages = Tail(@), !.resumed = first.to]
              ELSE [feed EXCEPT !.pages[1].from = first.from + 1]
  BY <1>2, Zenon DEF Applies
<1>7. CASE first.from = first.to
  <2>1. /\ feed'.pages = Tail(feed.pages) /\ feed'.resumed = first.to /\ feed'.sent = feed.sent
    BY <1>6, <1>7 DEF Types, OwnerTypes
  <2>2. /\ Tail(feed.pages) \in Seq(PageType) /\ Len(Tail(feed.pages)) = N - 1
        /\ \A k \in 1 .. N - 1 : Tail(feed.pages)[k] = feed.pages[k + 1]
    BY <1>1, <1>2, HeadTailProperties, EmptySeq
  <2>3. /\ Len(feed'.pages) = N - 1 /\ DOMAIN feed'.pages = 1 .. N - 1
        /\ \A k \in 1 .. N - 1 : feed'.pages[k] = feed.pages[k + 1]
    BY <2>1, <2>2, LenProperties
  <2>4. ASSUME NEW n \in Int, NEW k \in 1 .. N, FollowsOn(n, k)
        PROVE  n <= c + 1 \/ \E j \in 1 .. k - 1 : n <= feed'.pages[j].to
    <3>1. n <= c \/ \E j \in 1 .. k : n <= feed.pages[j].to
      BY <2>4 DEF FollowsOn
    <3>2. CASE n <= c
      BY <1>1, <3>2
    <3>3. CASE \E j \in 1 .. k : n <= feed.pages[j].to
      <4>1. PICK j \in 1 .. k : n <= feed.pages[j].to
        BY <3>3
      <4>2. CASE j = 1
        BY <1>2, <1>7, <4>1, <4>2
      <4>3. CASE j # 1
        <5>1. j - 1 \in 1 .. k - 1 /\ j - 1 \in 1 .. N - 1 /\ (j - 1) + 1 = j
          BY <1>1, <4>3
        <5> QED
          BY <2>3, <4>1, <5>1
      <4> QED
        BY <4>2, <4>3
    <3> QED
      BY <3>1, <3>2, <3>3
  <2>5. \A k \in 1 .. N - 1 : PageHonest(feed.pages[k])' /\ FollowsOn(feed.pages[k].from - 1, k - 1)'
    <3> TAKE k \in 1 .. N - 1
    <3>1. k + 1 \in 1 .. N /\ k \in 1 .. N /\ (k + 1) - 1 = k
      BY <1>1
    <3>2. PageHonest(feed.pages[k + 1]) /\ FollowsOn(feed.pages[k + 1].from - 1, k)
      BY <1>5, <3>1
    <3>3. feed'.pages[k] = feed.pages[k + 1] /\ feed.pages[k + 1].from - 1 \in Int
      <4>1. feed.pages[k + 1].from \in Nat
        BY <1>1, <3>1
      <4>2. feed'.pages[k] = feed.pages[k + 1]
        BY <2>3
      <4> QED
        BY <4>1, <4>2
    <3>4. \/ feed'.pages[k].from - 1 <= c + 1
          \/ \E j \in 1 .. k - 1 : feed'.pages[k].from - 1 <= feed'.pages[j].to
      BY <2>4, <3>1, <3>2, <3>3
    <3> QED
      BY <1>3, <1>4, <3>2, <3>3, <3>4 DEF PageHonest, FollowsOn
  <2>6. FollowsOn(feed.sent, Len(feed.pages))'
    <3>1. N \in 1 .. N /\ feed.sent \in Int
      BY <1>1, <1>2
    <3>2. feed.sent <= c + 1 \/ \E j \in 1 .. N - 1 : feed.sent <= feed'.pages[j].to
      BY <1>5, <2>4, <3>1
    <3> QED
      BY <1>4, <2>1, <2>3, <3>2 DEF FollowsOn
  <2>7. feed'.resumed <= link'.cursor
    BY <1>2, <1>4, <1>7, <2>1
  <2> QED
    BY <1>3, <1>4, <2>3, <2>5, <2>6, <2>7 DEF JournalSafe, FeedHonest
<1>8. CASE first.from # first.to
  <2> DEFINE rest == [first EXCEPT !.from = first.from + 1]
  <2>1. /\ feed'.pages = [feed.pages EXCEPT ![1] = rest] /\ feed'.sent = feed.sent
        /\ feed'.resumed = feed.resumed
    BY <1>6, <1>8 DEF Types, OwnerTypes
  <2>2. rest \in PageType /\ rest.from = first.from + 1 /\ rest.to = first.to
    BY <1>2, PageAdvances DEF PageType
  <2> HIDE DEF rest
  <2>3. /\ Len(feed'.pages) = N /\ DOMAIN feed'.pages = 1 .. N
        /\ \A k \in 1 .. N : feed'.pages[k] = IF k = 1 THEN rest ELSE feed.pages[k]
    BY <1>1, <1>2, <2>1, <2>2, ExceptSeq
  <2>4. \A k \in 1 .. N : feed'.pages[k].to = feed.pages[k].to
    BY <2>2, <2>3
  <2>5. \A n \in Int, k \in 0 .. N : FollowsOn(n, k) =>
           (n <= link'.cursor \/ \E j \in 1 .. k : n <= feed'.pages[j].to)
    <3> SUFFICES ASSUME NEW n \in Int, NEW k \in 0 .. N, FollowsOn(n, k)
                 PROVE  n <= link'.cursor \/ \E j \in 1 .. k : n <= feed'.pages[j].to
      OBVIOUS
    <3>1. \A j \in 1 .. k : feed'.pages[j].to = feed.pages[j].to
      BY <1>1, <2>4
    <3>2. n <= link.cursor => n <= link'.cursor
      BY <1>1, <1>4
    <3> QED
      BY <3>1, <3>2 DEF FollowsOn
  <2>6. ASSUME NEW k \in 1 .. N
        PROVE  PageHonest(feed.pages[k])' /\ FollowsOn(feed.pages[k].from - 1, k - 1)'
    <3>1. PageHonest(feed.pages[k]) /\ FollowsOn(feed.pages[k].from - 1, k - 1)
      BY <1>5
    <3>2. CASE k = 1
      <4>1. feed'.pages[1] = rest /\ PageHonest(first)
        BY <2>3, <3>1, <3>2
      <4>2. rest.from \in Nat /\ rest.from - 1 = link'.cursor /\ rest.from <= rest.to
        <5>1. first.from \in Nat /\ first.to \in Nat /\ first.from <= first.to
          BY <1>2, <4>1 DEF PageHonest, PageType
        <5>2. rest.from = first.from + 1 /\ rest.to = first.to
          BY <2>2
        <5>3. first.from # first.to
          BY <1>8
        <5>4. first.from = link'.cursor
          BY <1>1, <1>2, <1>4, SMTT(40)
        <5>5. first.from + 1 \in Nat /\ first.from + 1 <= first.to
          BY <5>1, <5>3
        <5>6. (first.from + 1) - 1 = link'.cursor
          BY <5>1, <5>4
        <5> QED
          BY <5>2, <5>5, <5>6
      <4>3. PageHonest(rest)
        <5>1. /\ 1 <= first.from /\ first.from <= first.to /\ first.to <= Len(exports)
              /\ \A i \in first.from .. first.to : exports[i].ready
          BY <4>1 DEF PageHonest
        <5>2. rest.from = first.from + 1 /\ rest.to = first.to
          BY <2>2
        <5>3. first.from \in Nat /\ first.to \in Nat /\ rest.from <= rest.to
          BY <1>2, <4>2 DEF PageType
        <5> HIDE DEF first
        <5> QED
          BY <5>1, <5>2, <5>3 DEF PageHonest
      <4>4. link'.cursor \in Nat
        BY <1>1, <1>4
      <4> QED
        BY <1>3, <3>2, <4>1, <4>2, <4>3, <4>4 DEF PageHonest, FollowsOn
    <3>3. CASE k # 1
      <4>1. feed'.pages[k] = feed.pages[k] /\ k - 1 \in 0 .. N /\ feed.pages[k].from - 1 \in Int
        BY <1>1, <2>3, <3>3
      <4> QED
        BY <1>3, <2>5, <3>1, <4>1 DEF PageHonest, FollowsOn
    <3> QED
      BY <3>2, <3>3
  <2>7. FollowsOn(feed.sent, Len(feed.pages))'
    <3>1. N \in 0 .. N /\ feed.sent \in Int
      BY <1>1
    <3>2. feed.sent <= link'.cursor \/ \E j \in 1 .. N : feed.sent <= feed'.pages[j].to
      BY <1>5, <2>5, <3>1
    <3> QED
      BY <2>1, <2>3, <3>2 DEF FollowsOn
  <2>8. feed'.resumed <= link'.cursor
    BY <1>1, <1>4, <1>5, <2>1
  <2> QED
    BY <1>3, <1>4, <2>3, <2>6, <2>7, <2>8 DEF JournalSafe, FeedHonest
<1> QED
  BY <1>7, <1>8

LEMMA JournalSafeKept ==
    ASSUME Types, JournalSafe, Next
    PROVE  JournalSafe'
<1>1. JournalKept
  BY JournalGrows DEF Types
<1>2. \/ feed'.pages = feed.pages /\ feed'.resumed = feed.resumed /\ feed'.sent = feed.resumed
      \/ UNCHANGED feed \/ feed' = Follow(link.cursor) \/ feed' = NoFeed \/ FeedReads \/ Applies
  <2>1. ASSUME feed' = [feed EXCEPT !.sent = feed.resumed]
        PROVE  feed'.pages = feed.pages /\ feed'.resumed = feed.resumed /\ feed'.sent = feed.resumed
    BY <2>1 DEF Types, OwnerTypes
  <2>2. CASE Owner
    <3>1. CASE PassEnds
      BY <3>1, Zenon DEF PassEnds
    <3>2. CASE OwnerRestarts \/ ApplyFails
      BY <3>2, Zenon DEF OwnerRestarts, ApplyFails
    <3>3. CASE FeedBreaks
      BY <2>1, <3>3 DEF FeedBreaks
    <3>4. ASSUME ~PassEnds, ~OwnerRestarts, ~ApplyFails, ~FeedBreaks, ~FeedReads, ~Applies
          PROVE  UNCHANGED feed
      BY <2>2, <3>4, Zenon DEF Owner, ownerVars, Delegate, Stop, Decide, QueueRework, PassStarts,
         CallsStop, MarksStopped, CallsDecision, CallsRework
    <3> QED
      BY <3>1, <3>2, <3>3, <3>4
  <2>3. CASE Handlers
    BY <2>3, HandlersKeep DEF Handlers
  <2>4. CASE Worker
    BY <2>1, <2>4, WorkerKeeps DEF ExecutorRestarts
  <2>5. CASE AgentSteps
    BY <2>5, AgentKeeps
  <2> QED
    BY <2>2, <2>3, <2>4, <2>5 DEF Next
<1>3. ~Applies => UNCHANGED imported
  <2>1. CASE Owner
    BY <2>1, Zenon DEF Owner, ownerVars, Delegate, Stop, Decide, QueueRework, PassStarts,
       CallsStop, MarksStopped, CallsDecision, CallsRework, PassEnds, OwnerRestarts, FeedReads,
       ApplyFails, FeedBreaks
  <2>2. CASE Handlers
    BY <2>2, HandlersKeep DEF Handlers
  <2> QED
    BY <2>1, <2>2, WorkerKeeps, AgentKeeps DEF Next
<1>4. CASE Applies
  <2>1. CASE InOrder(Head(feed.pages))
    BY <1>4, <2>1, ApplyingIsHonest
  <2>2. CASE ~InOrder(Head(feed.pages))
    <3>1. feed' = Follow(link.cursor) /\ UNCHANGED <<link, imported>>
      BY <1>4, <2>2, Zenon DEF Applies
    <3> QED
      BY <1>1, <3>1, FreshFeed
  <2> QED
    BY <2>1, <2>2
<1>5. CASE FeedReads
  BY <1>5, ReadingIsHonest
<1>6. CASE ~Applies /\ ~FeedReads
  <2>1. link'.cursor = link.cursor /\ UNCHANGED imported
    BY <1>3, <1>6, CursorKept
  <2>2. CASE feed' = Follow(link.cursor) \/ feed' = NoFeed
    BY <1>1, <2>1, <2>2, FreshFeed
  <2>3. CASE ~(feed' = Follow(link.cursor) \/ feed' = NoFeed)
    <3>1. /\ feed'.pages = feed.pages /\ feed'.resumed = feed.resumed
          /\ feed'.sent \in {feed.sent, feed.resumed}
      BY <1>2, <1>6, <2>3
    <3> QED
      BY <1>1, <2>1, <3>1, QuietFeed
  <2> QED
    BY <2>2, <2>3
<1> QED
  BY <1>4, <1>5, <1>6

-----------------------------------------------------------------------------
(* The lock and the requests.                                               *)

\* What a handler does to the requests: it answers its own, moves it a stage, or the
\* owner gives it up.
HandlerRequests(q) ==
    \/ requests' = requests \ {q}
    \/ FlagsStop(q) /\ requests' = (requests \ {q}) \cup {[q EXCEPT !.stage = "flagged"]}
    \/ AsksAgent(q) /\ requests' = (requests \ {q}) \cup {[q EXCEPT !.stage = "asked"]}
    \/ requests' = (requests \ {q}) \cup {[q EXCEPT !.waiting = FALSE]}
LEMMA HandlersMove ==
    ASSUME NEW q \in requests, HandlesDelegate(q) \/ HandlesDecision(q) \/ HandlesRework(q)
               \/ Refuses(q) \/ FlagsStop(q) \/ Unasked(q) \/ AsksAgent(q)
               \/ AgentAnswers(q) \/ HandlerDropped(q) \/ CallTimesOut(q)
    PROVE  HandlerRequests(q)
BY Zenon DEF HandlerRequests, HandlesDelegate, HandlesDecision, HandlesRework, Refuses, FlagsStop,
   Unasked, AsksAgent, AgentAnswers, HandlerDropped, CallTimesOut, Reply, Refuse

LEMMA LockHeldKept ==
    ASSUME Types, LockHeld, Next
    PROVE  LockHeld'
<1>1. requests \in SUBSET RequestType
  BY DEF Types, ExecutorTypes
<1>2. CASE Owner
  <2>1. UNCHANGED <<work, lock>> /\ OwnerRequests
    BY <1>2, OwnerKeeps, OwnerAsks
  <2>2. CASE UNCHANGED requests
    BY <2>1, <2>2 DEF LockHeld
  <2>3. ASSUME NEW what \in {"delegate", "cancel", "decision", "rework"}, NEW r \in Nat,
               Asked(what, r), requests' = requests \cup {Request(what, r)}
        PROVE  LockHeld'
    BY <2>1, <2>3 DEF LockHeld, Asked, Request
  <2>4. CASE requests' = {[q EXCEPT !.waiting = FALSE] : q \in requests}
    <3>1. \A q \in requests : LET p == [q EXCEPT !.waiting = FALSE]
                              IN  p.stage = q.stage /\ p.what = q.what /\ p.rework = q.rework
      BY <1>1 DEF RequestType
    <3> DEFINE given == [q \in requests |-> [q EXCEPT !.waiting = FALSE]]
    <3>2. \A p \in requests' : \E q \in requests :
             p = given[q] /\ p.stage = q.stage /\ p.what = q.what /\ p.rework = q.rework
      BY <2>4, <3>1
    <3> HIDE DEF given
    <3>3. ASSUME NEW p1 \in requests', NEW p2 \in requests', p1.stage = "asked", p2.stage = "asked"
          PROVE  p1 = p2
      <4>1. PICK q1 \in requests : p1 = given[q1] /\ q1.stage = "asked"
        BY <3>2, <3>3
      <4>2. PICK q2 \in requests : p2 = given[q2] /\ q2.stage = "asked"
        BY <3>2, <3>3
      <4>3. q1 = q2
        BY <4>1, <4>2 DEF LockHeld
      <4> QED
        BY <4>1, <4>2, <4>3
    <3> QED
      BY <2>1, <3>2, <3>3 DEF LockHeld
  <2> QED
    BY <2>1, <2>2, <2>3, <2>4 DEF OwnerRequests
<1>3. CASE Handlers
  <2> PICK q \in requests : HandlesDelegate(q) \/ HandlesDecision(q) \/ HandlesRework(q)
                \/ Refuses(q) \/ FlagsStop(q) \/ Unasked(q) \/ AsksAgent(q)
                \/ AgentAnswers(q) \/ HandlerDropped(q) \/ CallTimesOut(q)
    BY <1>3 DEF Handlers
  <2>1. q \in RequestType /\ UNCHANGED work
    BY <1>1, HandlersKeep
  <2>2. CASE AsksAgent(q)
    <3>1. lock = "free" /\ lock' = "handler" /\ q.stage = "flagged"
      BY <2>2 DEF AsksAgent
    <3>2. requests' = (requests \ {q}) \cup {[q EXCEPT !.stage = "asked"]}
      BY <2>2 DEF AsksAgent
    <3> QED
      BY <1>1, <2>1, <3>1, <3>2 DEF LockHeld, RequestType
  <2>3. CASE FlagsStop(q)
    <3>1. lock' = lock /\ q.what = "cancel" /\ q.stage = "sent"
      BY <2>3 DEF FlagsStop
    <3>2. requests' = (requests \ {q}) \cup {[q EXCEPT !.stage = "flagged"]}
      BY <2>3 DEF FlagsStop
    <3> QED
      BY <1>1, <2>1, <3>1, <3>2 DEF LockHeld, RequestType
  <2>4. CASE CallTimesOut(q)
    <3>1. /\ lock' = lock
          /\ requests' \subseteq (requests \ {q}) \cup {[q EXCEPT !.waiting = FALSE]}
      BY <2>4 DEF CallTimesOut, executorVars
    <3>2. LET p == [q EXCEPT !.waiting = FALSE]
          IN  p.stage = q.stage /\ p.what = q.what /\ p.rework = q.rework
      BY <2>1 DEF RequestType
    <3> QED
      BY <1>1, <2>1, <3>1, <3>2 DEF LockHeld
  <2>5. CASE AgentAnswers(q) \/ HandlerDropped(q)
    <3>1. /\ lock' = IF q.stage = "asked" THEN "free" ELSE lock
          /\ requests' = requests \ {q}
      BY <2>5 DEF AgentAnswers, HandlerDropped, Reply, Refuse
    <3>2. CASE q.stage = "asked"
      <4>1. lock' = "free" /\ lock = "handler" /\ work.pc \notin UnderLock
        BY <3>1, <3>2 DEF LockHeld
      <4>2. \A p \in requests' : p \in requests /\ p.stage # "asked"
        BY <3>1, <3>2 DEF LockHeld
      <4> QED
        BY <2>1, <4>1, <4>2 DEF LockHeld
    <3>3. CASE q.stage # "asked"
      BY <2>1, <3>1, <3>3 DEF LockHeld
    <3> QED
      BY <3>2, <3>3
  <2>6. CASE HandlesDelegate(q) \/ HandlesDecision(q) \/ HandlesRework(q) \/ Refuses(q) \/ Unasked(q)
    <3>1. lock' = lock /\ requests' = requests \ {q}
      BY <2>6, Zenon DEF HandlesDelegate, HandlesDecision, HandlesRework, Refuses, Unasked, Reply,
         Refuse, executorVars
    <3> QED
      BY <2>1, <3>1 DEF LockHeld
  <2> QED
    BY <2>2, <2>3, <2>4, <2>5, <2>6
<1>4. CASE Worker
  <2>1. CASE ExecutorRestarts
    BY <2>1 DEF ExecutorRestarts, LockHeld, Resting, UnderLock
  <2>2. CASE ~ExecutorRestarts
    <3>1. UNCHANGED requests
      BY <1>4, <2>2, WorkerKeeps
    <3>2. \/ lock' = "worker" /\ lock # "handler"
          \/ lock' = lock /\ (work'.pc \in UnderLock => work.pc \in UnderLock)
          \/ lock' = "free" /\ work.pc \in UnderLock /\ work'.pc \notin UnderLock
      <4> work \in [pc : UnderLock \cup {"idle", "lock", "flag", "publish", "recover"},
                    read : RowStates, at : Nat]
        BY DEF Types, ExecutorTypes
      <4> USE DEF UnderLock, Works
      <4>1. CASE WorkCancels
        BY <4>1 DEF WorkCancels, Begins, Undispatched
      <4>2. CASE WorkHears
        BY <4>2 DEF WorkHears
      <4>3. CASE WorkFlags
        BY <4>3 DEF WorkFlags
      <4>4. CASE WorkLocks
        BY <4>4 DEF WorkLocks, Begins, Undispatched
      <4>5. CASE Binds
        BY <4>5 DEF Binds, Undispatched
      <4>6. CASE Allocates
        BY <4>6 DEF Allocates
      <4>7. CASE PrepareFails
        BY <4>7 DEF PrepareFails
      <4>8. CASE Dispatches
        BY <4>8 DEF Dispatches
      <4>9. CASE GivesGoal
        BY <4>9 DEF GivesGoal
      <4>10. CASE GoalUncertain
        BY <4>10 DEF GoalUncertain
      <4>11. CASE MarksRunning
        BY <4>11 DEF MarksRunning
      <4>12. CASE MarksUncertain
        BY <4>12 DEF MarksUncertain
      <4>13. CASE Captures
        BY <4>13 DEF Captures, Resting
      <4>14. CASE Publishes
        BY <4>14 DEF Publishes, Resting
      <4>15. CASE Recovers
        BY <4>15 DEF Recovers, Resting
      <4> QED
        BY <1>4, <2>2, <4>1, <4>2, <4>3, <4>4, <4>5, <4>6, <4>7, <4>8, <4>9, <4>10, <4>11,
           <4>12, <4>13, <4>14, <4>15 DEF Worker
    <3> QED
      BY <3>1, <3>2 DEF LockHeld
  <2> QED
    BY <2>1, <2>2
<1>5. CASE AgentSteps
  BY <1>5, AgentKeeps DEF LockHeld
<1> QED
  BY <1>2, <1>3, <1>4, <1>5 DEF Next

-----------------------------------------------------------------------------
(* The goal.                                                                *)

\* The owner's steps leave every request at its stage; a new one is only sent.
LEMMA OwnerKeepsStages ==
    ASSUME Types, Owner
    PROVE  \A q \in requests' : q.stage # "sent" => \E p \in requests : p.stage = q.stage
<1>1. requests \in SUBSET RequestType /\ OwnerRequests
  BY OwnerAsks DEF Types, ExecutorTypes
<1>2. CASE UNCHANGED requests
  BY <1>2
<1>3. ASSUME NEW what, NEW r, requests' = requests \cup {Request(what, r)}
      PROVE  \A q \in requests' : q.stage # "sent" => q \in requests
  BY <1>3 DEF Request
<1>4. CASE requests' = {[q EXCEPT !.waiting = FALSE] : q \in requests}
  <2>1. \A q \in requests : [q EXCEPT !.waiting = FALSE].stage = q.stage
    BY <1>1 DEF RequestType
  <2> QED
    BY <1>4, <2>1
<1> QED
  BY <1>1, <1>2, <1>3, <1>4 DEF OwnerRequests

\* The worker works on a row, and leaves one, decided or not as it was.
LEMMA WorkerKeepsRow ==
    ASSUME ControlTypes, RowHonest, Worker
    PROVE  row'.state # "none" /\ row'.decided = row.decided
<1>1. row.state # "none"
  BY DEF RowHonest, Worker, Works, WorkCancels, WorkHears, WorkFlags, WorkLocks, Binds,
     Allocates, PrepareFails, Dispatches, GivesGoal, GoalUncertain, MarksRunning,
     MarksUncertain, Captures, Publishes, Recovers, ExecutorRestarts, Begins
<1> USE DEF ControlTypes
<1>2. CASE WorkCancels
  BY <1>1, <1>2 DEF WorkCancels
<1>3. CASE WorkFlags
  BY <1>1, <1>3 DEF WorkFlags
<1>4. CASE Binds
  BY <1>1, <1>4 DEF Binds
<1>5. CASE Allocates
  BY <1>1, <1>5 DEF Allocates
<1>6. CASE PrepareFails
  BY <1>1, <1>6 DEF PrepareFails, RowHonest
<1>7. CASE Dispatches
  BY <1>1, <1>7 DEF Dispatches
<1>8. CASE MarksRunning
  BY <1>1, <1>8 DEF MarksRunning
<1>9. CASE MarksUncertain
  BY <1>1, <1>9 DEF MarksUncertain
<1>10. CASE Recovers
  BY <1>1, <1>10 DEF Recovers, Recovered
<1>11. ASSUME ~WorkCancels, ~WorkFlags, ~Binds, ~Allocates, ~PrepareFails, ~Dispatches,
              ~MarksRunning, ~MarksUncertain, ~Recovers
       PROVE  UNCHANGED row
  BY <1>11, Zenon DEF Worker, WorkHears, WorkLocks, GivesGoal, GoalUncertain, Captures,
     Publishes, ExecutorRestarts
<1> QED
  BY <1>1, <1>2, <1>3, <1>4, <1>5, <1>6, <1>7, <1>8, <1>9, <1>10, <1>11

\* The worker's own steps on the row and its place.
LEMMA RowHonestOfWorker ==
    ASSUME Types, LockHeld, ReceiptHonest, RowHonest, Worker
    PROVE  RowHonest'
<1> ControlTypes
  BY DEF Types, ExecutorTypes, ControlTypes
<1> DEFINE PlacesHonest ==
        /\ row.state = "none" => work.pc = "idle"
        /\ work.pc \in {"bind", "runtime", "dispatch"} => work.read \in {"queued", "preparing"}
        /\ work.pc \in AroundGoal => row.state \in {"dispatching", "settled"}
        /\ row.state = "dispatching" => work.pc \in AroundGoal \cup {"recover"}
        /\ work.pc = "running" \/ row.state = "running" => goals # 0
<1>1. PlacesHonest'
  <2> PlacesHonest
    BY DEF RowHonest
  <2> USE DEF ControlTypes, UnderLock, AroundGoal
  <2>1. CASE WorkCancels
    BY <2>1 DEF WorkCancels, Begins, Undispatched, Works
  <2>2. CASE WorkHears
    BY <2>2 DEF WorkHears, Works, AgentIdle
  <2>3. CASE WorkFlags
    BY <2>3 DEF WorkFlags, Works
  <2>4. CASE WorkLocks
    BY <2>4 DEF WorkLocks, Begins, Undispatched
  <2>5. CASE Binds
    BY <2>5 DEF Binds, Works, Undispatched
  <2>6. CASE Allocates
    BY <2>6 DEF Allocates, Works
  <2>7. CASE PrepareFails
    BY <2>7 DEF PrepareFails
  <2>8. CASE Dispatches
    BY <2>8 DEF Dispatches, Works
  <2>9. CASE GivesGoal
    <3>1. AcceptGoal /\ agent \in AgentType
      BY <2>9 DEF GivesGoal, AgentType
    <3>2. goals' # 0
      <4>1. Goal \in agent.receipt => goals # 0
        BY DEF ReceiptHonest
      <4>2. \/ Goal \in agent.receipt /\ UNCHANGED goals
            \/ goals' = goals + 1
        BY <3>1, Zenon DEF AcceptGoal
      <4> QED
        BY <4>1, <4>2
    <3> QED
      BY <2>9, <3>2 DEF GivesGoal, Works
  <2>10. CASE GoalUncertain
    BY <2>10 DEF GoalUncertain, Works, AcceptGoal, Goal
  <2>11. CASE MarksRunning
    BY <2>11 DEF MarksRunning, Works
  <2>12. CASE MarksUncertain
    BY <2>12 DEF MarksUncertain, Works
  <2>13. CASE Captures
    BY <2>13 DEF Captures, Resting
  <2>14. CASE Publishes
    BY <2>14 DEF Publishes, Resting
  <2>15. CASE Recovers
    BY <2>15 DEF Recovers, Resting, Recovered
  <2>16. CASE ExecutorRestarts
    BY <2>16 DEF ExecutorRestarts, Resting, agentVars
  <2> QED
    BY <2>1, <2>2, <2>3, <2>4, <2>5, <2>6, <2>7, <2>8, <2>9, <2>10, <2>11, <2>12, <2>13, <2>14,
       <2>15, <2>16 DEF Worker
<1>3. row'.state # "none"
  BY WorkerKeepsRow
<1>4. \A q \in requests' : q \in requests
  BY WorkerKeeps DEF ExecutorRestarts
<1> QED
  BY <1>1, <1>3, <1>4 DEF RowHonest

\* A handler never takes the row away; past the first stage a request has found one.
LEMMA HandlersKeepRow ==
    ASSUME Types, NEW q \in requests, HandlesDelegate(q) \/ HandlesDecision(q) \/ HandlesRework(q)
               \/ Refuses(q) \/ FlagsStop(q) \/ Unasked(q) \/ AsksAgent(q)
               \/ AgentAnswers(q) \/ HandlerDropped(q) \/ CallTimesOut(q)
    PROVE  \/ UNCHANGED row
           \/ row.state = "none" /\ row' = [row EXCEPT !.state = "queued"]
           \/ ~row.decided /\ q.what = "decision" /\ row.state # "none" /\ row' = Settled
           \/ row.state # "none" /\ row' = [row EXCEPT !.stop = "asked"]
           \/ Undispatched /\ lock = "free" /\ q.stage = "flagged" /\ row' = [row EXCEPT !.state = "cancelled"]
<1>1. CASE HandlesDelegate(q)
  BY <1>1, Zenon DEF HandlesDelegate
<1>2. CASE HandlesDecision(q)
  BY <1>2, Zenon DEF HandlesDecision
<1>3. CASE HandlesRework(q)
  BY <1>3, Zenon DEF HandlesRework, executorVars
<1>4. CASE Refuses(q)
  BY <1>4, Zenon DEF Refuses, executorVars
<1>5. CASE FlagsStop(q)
  BY <1>5, Zenon DEF FlagsStop
<1>6. CASE Unasked(q)
  BY <1>6, Zenon DEF Unasked, Undispatched
<1>7. CASE AsksAgent(q)
  BY <1>7, Zenon DEF AsksAgent
<1>8. CASE AgentAnswers(q)
  BY <1>8, Zenon DEF AgentAnswers
<1>9. CASE HandlerDropped(q)
  BY <1>9, Zenon DEF HandlerDropped
<1>10. CASE CallTimesOut(q)
  BY <1>10, Zenon DEF CallTimesOut, executorVars
<1> QED
  BY <1>1, <1>2, <1>3, <1>4, <1>5, <1>6, <1>7, <1>8, <1>9, <1>10

LEMMA RowHonestKept ==
    ASSUME Types, LockHeld, ReceiptHonest, RowHonest, Next
    PROVE  RowHonest'
<1>1. CASE Worker
  BY <1>1, RowHonestOfWorker
<1>2. CASE Owner
  BY <1>2, OwnerKeeps, OwnerKeepsStages DEF RowHonest
<1>3. CASE AgentSteps
  BY <1>3, AgentKeeps DEF RowHonest
<1>4. CASE Handlers
  <2> PICK q \in requests : HandlesDelegate(q) \/ HandlesDecision(q) \/ HandlesRework(q)
                \/ Refuses(q) \/ FlagsStop(q) \/ Unasked(q) \/ AsksAgent(q)
                \/ AgentAnswers(q) \/ HandlerDropped(q) \/ CallTimesOut(q)
    BY <1>4 DEF Handlers
  <2>1. UNCHANGED <<work, exports, goals>>
    BY HandlersKeep
  <2>2. /\ row \in [state : RowStates, bound : BOOLEAN, runtime : BOOLEAN,
                    stop : {"no", "asked", "sent"}, decided : BOOLEAN]
        /\ requests \in SUBSET RequestType
    BY DEF Types, ExecutorTypes
  <2>3. /\ row.state # "none" => row'.state # "none"
        /\ row'.state \in {row.state, "queued", "settled", "cancelled"}
        /\ row'.state = "queued" => row.state \in {"none", "queued"}
        /\ row'.state = "cancelled" /\ row.state # "cancelled" =>
              lock = "free" /\ row.state \in {"queued", "preparing"}
    BY <2>2, HandlersKeepRow DEF Settled, Undispatched
  <2>4. work.pc \in AroundGoal => lock = "worker"
    BY DEF LockHeld, UnderLock, AroundGoal
  <2>5. ASSUME NEW p \in requests', p.stage # "sent"
        PROVE  row'.state # "none"
    <3>1. CASE FlagsStop(q)
      BY <2>3, <3>1 DEF FlagsStop
    <3>2. CASE ~FlagsStop(q)
      <4>1. HandlerRequests(q)
        BY HandlersMove
      <4>2. \E r \in requests : r.stage # "sent"
        BY <2>2, <2>5, <3>2, <4>1 DEF HandlerRequests, RequestType, AsksAgent
      <4> QED
        BY <2>3, <4>2 DEF RowHonest
    <3> QED
      BY <3>1, <3>2
  <2> QED
    BY <2>1, <2>3, <2>4, <2>5 DEF RowHonest, AroundGoal
<1> QED
  BY <1>1, <1>2, <1>3, <1>4 DEF Next

LEMMA KindKept ==
    ASSUME Next
    PROVE  UNCHANGED kind
BY OwnerKeeps, HandlersKeep, WorkerKeeps, AgentKeeps DEF Next, Handlers

\* What an agent has it was given, and it reads it in a turn.
LEMMA AgentHonestKept ==
    ASSUME Types, LockHeld, AgentHonest, Next
    PROVE  AgentHonest'
<1> ControlTypes
  BY DEF Types, ExecutorTypes, ControlTypes
<1>1. agent \in AgentType /\ goals \in Nat
  BY DEF ControlTypes, AgentType
<1>2. CASE UNCHANGED <<agent, goals>>
  BY <1>2 DEF AgentHonest
<1>3. CASE AskTurnToEnd /\ UNCHANGED goals
  BY <1>1, <1>3 DEF AskTurnToEnd, AgentHonest, AgentType
<1>4. CASE AcceptGoal
  <2>1. UNCHANGED <<agent, goals>> \/ (goals' = goals + 1 /\ Accepted(Goal))
    BY <1>1, <1>4, GoalAccepted
  <2> QED
    BY <1>1, <1>2, <2>1 DEF Accepted, AgentHonest
<1>5. ASSUME NEW r \in Reworks, AcceptRework(r), UNCHANGED goals
      PROVE  AgentHonest'
  <2>1. r \in Nat /\ r # Goal
    BY <1>5, BoundsAssumption DEF Goal, Reworks
  <2>2. UNCHANGED agent \/ Accepted(r)
    BY <1>1, <1>5, <2>1, ReworkAccepted
  <2> QED
    BY <1>1, <1>2, <1>5, <2>1, <2>2 DEF Accepted, AgentHonest
<1>6. CASE Owner
  BY <1>2, <1>6, OwnerKeeps
<1>7. CASE Handlers
  <2> PICK q \in requests : HandlesDelegate(q) \/ HandlesDecision(q) \/ HandlesRework(q)
                \/ Refuses(q) \/ FlagsStop(q) \/ Unasked(q) \/ AsksAgent(q)
                \/ AgentAnswers(q) \/ HandlerDropped(q) \/ CallTimesOut(q)
    BY <1>7 DEF Handlers
  <2>1. UNCHANGED goals
    BY HandlersKeep
  <2>2. CASE HandlesRework(q)
    BY <1>5, <2>1, <2>2 DEF HandlesRework, LockHeld
  <2>3. CASE AsksAgent(q)
    BY <1>3, <2>1, <2>3 DEF AsksAgent
  <2>4. ASSUME ~HandlesRework(q), ~AsksAgent(q)
        PROVE  UNCHANGED agent
    BY <2>4, Zenon DEF agentVars, HandlesDelegate, HandlesDecision, Refuses, FlagsStop, Unasked,
       AgentAnswers, HandlerDropped, CallTimesOut
  <2> QED
    BY <1>2, <2>1, <2>2, <2>3, <2>4
<1>8. CASE Worker
  <2>1. CASE WorkCancels
    BY <1>2, <1>3, <2>1 DEF WorkCancels
  <2>2. CASE GivesGoal \/ GoalUncertain
    BY <1>2, <1>4, <2>2 DEF GivesGoal, GoalUncertain
  <2>3. ASSUME ~WorkCancels, ~GivesGoal, ~GoalUncertain
        PROVE  UNCHANGED <<agent, goals>>
    BY <1>8, <2>3, Zenon DEF agentVars, Worker, WorkHears, WorkFlags, WorkLocks, Binds,
       Allocates, PrepareFails, Dispatches, MarksRunning, MarksUncertain, Captures, Publishes,
       Recovers, ExecutorRestarts
  <2> QED
    BY <1>2, <2>1, <2>2, <2>3
<1>9. CASE AgentSteps
  <2>1. UNCHANGED goals
    BY <1>9, AgentKeeps
  <2>2. CASE TurnStarts
    BY <1>1, <2>1, <2>2 DEF TurnStarts, AgentHonest, AgentType
  <2>3. CASE TurnReads
    BY <1>1, <2>1, <2>3 DEF TurnReads, AgentHonest, AgentType
  <2>4. CASE TurnEnds
    BY <1>1, <2>1, <2>4 DEF TurnEnds, AgentHonest, AgentType
  <2>5. CASE HandsIn
    BY <1>2, <2>1, <2>5 DEF HandsIn
  <2> QED
    BY <1>9, <2>2, <2>3, <2>4, <2>5 DEF AgentSteps
<1> QED
  BY <1>6, <1>7, <1>8, <1>9 DEF Next

\* The request under the lock is the only one past its second stage.
LEMMA AskedStay ==
    ASSUME Types, NEW q \in requests, HandlerRequests(q), NEW p \in requests', p.stage = "asked"
    PROVE  AsksAgent(q) \/ \E r \in requests : r.stage = "asked"
BY DEF HandlerRequests, Types, ExecutorTypes, RequestType

LEMMA GoalBarredOfWorker ==
    ASSUME Types, LockHeld, RowHonest, AgentHonest, GoalBarred, Worker, kind = "workspace"
    PROVE  GoalBarred'
<1> ControlTypes
  BY DEF Types, ExecutorTypes, ControlTypes
<1>1. UNCHANGED <<kind, stopped>> /\ requests' \subseteq requests
  BY WorkerKeeps DEF ExecutorRestarts
<1>2. /\ goals # 0 \/ stopped => row.state \notin ToDispatch /\ work.pc \notin BeforeGoal
      /\ row.state = "cancelled" => goals = 0 /\ work.pc \notin BeforeGoal
      /\ \A q \in requests : q.stage = "asked" => row.state \notin ToDispatch
  BY DEF GoalBarred
<1>3. \A q \in requests : q.stage = "asked" => work.pc \notin UnderLock
  BY DEF LockHeld
<1> USE DEF ControlTypes, RowHonest, UnderLock, AroundGoal, BeforeGoal, ToDispatch
<1> SUFFICES /\ goals' # 0 \/ stopped' => row'.state \notin ToDispatch /\ work'.pc \notin BeforeGoal
             /\ row'.state = "cancelled" => goals' = 0 /\ work'.pc \notin BeforeGoal
             /\ \A q \in requests : q.stage = "asked" => row'.state \notin ToDispatch
  BY <1>1 DEF GoalBarred
<1>4. CASE WorkCancels
  BY <1>1, <1>2, <1>3, <1>4 DEF WorkCancels, Begins, Undispatched, Works
<1>5. CASE WorkHears
  BY <1>1, <1>2, <1>3, <1>5 DEF WorkHears, Works, AgentIdle
<1>6. CASE WorkFlags
  BY <1>1, <1>2, <1>3, <1>6 DEF WorkFlags, Works
<1>7. CASE WorkLocks
  BY <1>1, <1>2, <1>3, <1>7 DEF WorkLocks, Begins, Undispatched
<1>8. CASE Binds
  BY <1>1, <1>2, <1>3, <1>8 DEF Binds, Works, Undispatched
<1>9. CASE Allocates
  BY <1>1, <1>2, <1>3, <1>9 DEF Allocates, Works
<1>10. CASE PrepareFails
  BY <1>1, <1>2, <1>3, <1>10 DEF PrepareFails
<1>11. CASE Dispatches
  BY <1>1, <1>2, <1>3, <1>11 DEF Dispatches, Works
<1>12. CASE GivesGoal
  BY <1>1, <1>2, <1>3, <1>12 DEF GivesGoal, Works, AcceptGoal
<1>13. CASE GoalUncertain
  BY <1>1, <1>2, <1>3, <1>13 DEF GoalUncertain, Works, AcceptGoal
<1>14. CASE MarksRunning
  BY <1>1, <1>2, <1>3, <1>14 DEF MarksRunning, Works
<1>15. CASE MarksUncertain
  BY <1>1, <1>2, <1>3, <1>15 DEF MarksUncertain, Works, MayRepeat
<1>16. CASE Captures
  BY <1>1, <1>2, <1>3, <1>16 DEF Captures, Resting
<1>17. CASE Publishes
  BY <1>1, <1>2, <1>3, <1>17 DEF Publishes, Resting
<1>18. CASE Recovers
  BY <1>1, <1>2, <1>3, <1>18 DEF Recovers, Resting, Recovered, MayRepeat
<1>19. CASE ExecutorRestarts
  BY <1>1, <1>2, <1>3, <1>19 DEF ExecutorRestarts, Resting, agentVars
<1> QED
  BY <1>4, <1>5, <1>6, <1>7, <1>8, <1>9, <1>10, <1>11, <1>12, <1>13, <1>14, <1>15, <1>16, <1>17,
     <1>18, <1>19 DEF Worker

LEMMA GoalBarredKept ==
    ASSUME Types, LockHeld, RowHonest, AgentHonest, GoalBarred, Next
    PROVE  GoalBarred'
<1> SUFFICES ASSUME kind = "workspace"
             PROVE  GoalBarred'
  BY KindKept DEF GoalBarred
<1>1. CASE Worker
  BY <1>1, GoalBarredOfWorker
<1>2. CASE Owner
  <2>1. \A q \in requests' : q.stage = "asked" => \E p \in requests : p.stage = "asked"
    BY <1>2, OwnerKeepsStages
  <2> QED
    BY <1>2, <2>1, OwnerKeeps DEF GoalBarred
<1>3. CASE AgentSteps
  BY <1>3, AgentKeeps DEF GoalBarred
<1>4. CASE Handlers
  <2> PICK q \in requests : HandlesDelegate(q) \/ HandlesDecision(q) \/ HandlesRework(q)
                \/ Refuses(q) \/ FlagsStop(q) \/ Unasked(q) \/ AsksAgent(q)
                \/ AgentAnswers(q) \/ HandlerDropped(q) \/ CallTimesOut(q)
    BY <1>4 DEF Handlers
  <2>1. UNCHANGED <<work, goals>>
    BY HandlersKeep
  <2>2. row \in [state : RowStates, bound : BOOLEAN, runtime : BOOLEAN,
                 stop : {"no", "asked", "sent"}, decided : BOOLEAN]
    BY DEF Types, ExecutorTypes
  <2>3. /\ row.state \notin ToDispatch => row'.state \notin ToDispatch
        /\ row'.state = "cancelled" => row.state = "cancelled" \/ (lock = "free" /\ row.state \in ToDispatch)
    BY <2>2, HandlersKeepRow DEF Settled, Undispatched, ToDispatch
  <2>4. lock # "worker" => work.pc \notin BeforeGoal
    BY DEF LockHeld, UnderLock, BeforeGoal
  <2>5. stopped' /\ ~stopped => row'.state \notin ToDispatch /\ work.pc \notin BeforeGoal
    <3>1. CASE Unasked(q)
      BY <2>4, <3>1 DEF Unasked, ToDispatch
    <3>2. CASE AgentAnswers(q)
      <4>1. q.stage = "asked" /\ row' = row
        BY <3>2 DEF AgentAnswers
      <4> QED
        BY <2>4, <4>1 DEF GoalBarred, LockHeld
    <3>3. ASSUME ~Unasked(q), ~AgentAnswers(q)
          PROVE  UNCHANGED stopped
      BY <3>3, Zenon DEF ghosts, HandlesDelegate, HandlesDecision, HandlesRework, Refuses,
         FlagsStop, AsksAgent, HandlerDropped, CallTimesOut
    <3> QED
      BY <3>1, <3>2, <3>3
  <2>6. ASSUME NEW p \in requests', p.stage = "asked"
        PROVE  row'.state \notin ToDispatch
    <3>1. CASE AsksAgent(q)
      BY <3>1 DEF AsksAgent, Undispatched, ToDispatch, RowHonest
    <3>2. CASE \E r \in requests : r.stage = "asked"
      BY <2>3, <3>2 DEF GoalBarred
    <3> QED
      BY <2>6, <3>1, <3>2, HandlersMove, AskedStay
  <2> QED
    BY <2>1, <2>3, <2>4, <2>5, <2>6 DEF GoalBarred
<1> QED
  BY <1>1, <1>2, <1>3, <1>4 DEF Next

\* The reworks a step accepts, and what it does to the receipt.
LEMMA ReceiptMoves ==
    ASSUME Types, LockHeld, Next
    PROVE  \/ UNCHANGED <<goals, reworked>> /\ agent'.receipt = agent.receipt
           \/ UNCHANGED reworked /\ work.pc = "append" /\ AcceptGoal
           \/ UNCHANGED goals /\ \E r \in Reworks : AcceptRework(r)
<1>1. agent \in [unread : SUBSET Nat, turn : SUBSET Nat,
                state : {"idle", "working", "cancelling"}, receipt : SUBSET Nat]
  BY DEF Types, ExecutorTypes
<1>2. AskTurnToEnd => agent'.receipt = agent.receipt
  BY <1>1 DEF AskTurnToEnd
<1>3. CASE Owner
  BY <1>3, OwnerKeeps
<1>4. CASE Handlers
  <2> PICK q \in requests : HandlesDelegate(q) \/ HandlesDecision(q) \/ HandlesRework(q)
                \/ Refuses(q) \/ FlagsStop(q) \/ Unasked(q) \/ AsksAgent(q)
                \/ AgentAnswers(q) \/ HandlerDropped(q) \/ CallTimesOut(q)
    BY <1>4 DEF Handlers
  <2>1. UNCHANGED goals
    BY HandlersKeep
  <2>2. CASE HandlesRework(q)
    BY <2>1, <2>2 DEF HandlesRework, LockHeld
  <2>3. CASE AsksAgent(q)
    BY <1>2, <2>1, <2>3 DEF AsksAgent, ghosts
  <2>4. ASSUME ~HandlesRework(q), ~AsksAgent(q)
        PROVE  UNCHANGED <<agent, reworked>>
    BY <2>4, Zenon DEF agentVars, ghosts, HandlesDelegate, HandlesDecision, Refuses, FlagsStop,
       Unasked, AgentAnswers, HandlerDropped, CallTimesOut
  <2> QED
    BY <2>1, <2>2, <2>3, <2>4
<1>5. CASE Worker
  <2>1. UNCHANGED reworked
    BY <1>5, WorkerKeeps
  <2>2. CASE WorkCancels
    BY <1>2, <2>1, <2>2 DEF WorkCancels
  <2>3. CASE GivesGoal \/ GoalUncertain
    BY <2>1, <2>3 DEF GivesGoal, GoalUncertain, Works
  <2>4. ASSUME ~WorkCancels, ~GivesGoal, ~GoalUncertain
        PROVE  UNCHANGED <<agent, goals>>
    BY <1>5, <2>4, Zenon DEF agentVars, Worker, WorkHears, WorkFlags, WorkLocks, Binds,
       Allocates, PrepareFails, Dispatches, MarksRunning, MarksUncertain, Captures, Publishes,
       Recovers, ExecutorRestarts
  <2> QED
    BY <2>1, <2>2, <2>3, <2>4
<1>6. CASE AgentSteps
  <2>1. UNCHANGED <<goals, reworked>>
    BY <1>6, AgentKeeps
  <2>2. agent'.receipt = agent.receipt
    BY <1>1, <1>6 DEF AgentSteps, TurnStarts, TurnReads, TurnEnds, HandsIn
  <2> QED
    BY <2>1, <2>2
<1> QED
  BY <1>3, <1>4, <1>5, <1>6 DEF Next

LEMMA ReceiptHonestKept ==
    ASSUME Types, LockHeld, ReceiptHonest, Next
    PROVE  ReceiptHonest'
<1>1. agent \in [unread : SUBSET Nat, turn : SUBSET Nat,
                state : {"idle", "working", "cancelling"}, receipt : SUBSET Nat]
      /\ UNCHANGED kind
  BY KindKept DEF Types, ExecutorTypes
<1>2. CASE UNCHANGED <<goals, reworked>> /\ agent'.receipt = agent.receipt
  BY <1>1, <1>2 DEF ReceiptHonest
<1>3. CASE UNCHANGED reworked /\ AcceptGoal
  <2>1. CASE UNCHANGED <<agent, goals>>
    BY <1>1, <1>3, <2>1 DEF ReceiptHonest
  <2>2. CASE ~UNCHANGED <<agent, goals>>
    <3>1. goals' = goals + 1 /\ goals \in Nat
      BY <1>3, <2>2 DEF AcceptGoal, Types, ExecutorTypes
    <3>2. agent' = [agent EXCEPT !.unread = @ \cup {Goal},
                                !.receipt = IF kind = "worker" THEN {Goal} ELSE {}]
      BY <1>3, <2>2, Zenon DEF AcceptGoal
    <3>3. agent'.receipt = IF kind = "worker" THEN {Goal} ELSE {}
      BY <1>1, <3>2
    <3> QED
      BY <1>1, <3>1, <3>3 DEF ReceiptHonest
  <2> QED
    BY <2>1, <2>2
<1>4. ASSUME NEW r \in Reworks, UNCHANGED goals, AcceptRework(r)
      PROVE  ReceiptHonest'
  <2>1. CASE UNCHANGED <<agent, reworked>>
    BY <1>1, <1>4, <2>1 DEF ReceiptHonest
  <2>2. CASE agent'.receipt = {r} /\ r \in reworked'
    <3>1. r # Goal
      BY BoundsAssumption DEF Goal, Reworks
    <3> QED
      BY <2>2, <3>1 DEF ReceiptHonest
  <2> QED
    BY <1>1, <1>4, <2>1, <2>2 DEF AcceptRework
<1> QED
  BY <1>2, <1>3, <1>4, ReceiptMoves

LEMMA GoalGivenOnceKept ==
    ASSUME Types, LockHeld, GoalBarred, ReceiptHonest, GoalGivenOnce, Next
    PROVE  GoalGivenOnce'
<1>1. goals \in Nat /\ kind \in {"workspace", "worker"} /\ UNCHANGED kind
  BY KindKept DEF Types, OwnerTypes, ExecutorTypes
<1>2. CASE UNCHANGED <<goals, reworked>>
  BY <1>1, <1>2 DEF GoalGivenOnce
<1>3. CASE UNCHANGED reworked /\ work.pc = "append" /\ AcceptGoal
  <2>1. kind = "workspace" => goals = 0
    BY <1>3 DEF GoalBarred, BeforeGoal
  <2>2. goals' = goals \/ (goals' = goals + 1 /\ ~(kind = "worker" /\ Goal \in agent.receipt))
    BY <1>3, Zenon DEF AcceptGoal
  <2> QED
    BY <1>1, <1>3, <2>1, <2>2 DEF GoalGivenOnce, ReceiptHonest
<1>4. ASSUME NEW r \in Reworks, UNCHANGED goals, AcceptRework(r)
      PROVE  GoalGivenOnce'
  BY <1>1, <1>2, <1>4 DEF AcceptRework, GoalGivenOnce
<1> QED
  BY <1>2, <1>3, <1>4, ReceiptMoves

LEMMA WorkspaceStopsKept ==
    ASSUME Types, LockHeld, RowHonest, AgentHonest, GoalBarred, WorkspaceStops, Next
    PROVE  WorkspaceStops'
<1> SUFFICES ASSUME kind = "workspace", stopped'
             PROVE  (Goal \notin agent.unread \cup agent.turn)'
  BY KindKept DEF WorkspaceStops, StopMeansStopped
<1>1. agent \in [unread : SUBSET Nat, turn : SUBSET Nat,
                state : {"idle", "working", "cancelling"}, receipt : SUBSET Nat]
  BY DEF Types, ExecutorTypes
<1>2. GoalBarred' /\ UNCHANGED kind
  BY GoalBarredKept, KindKept
<1>3. CASE ~stopped
  <2>1. ~Owner /\ ~Worker /\ ~AgentSteps
    BY <1>3, OwnerKeeps, WorkerKeeps, AgentKeeps
  <2> PICK q \in requests : HandlesDelegate(q) \/ HandlesDecision(q) \/ HandlesRework(q)
                \/ Refuses(q) \/ FlagsStop(q) \/ Unasked(q) \/ AsksAgent(q)
                \/ AgentAnswers(q) \/ HandlerDropped(q) \/ CallTimesOut(q)
    BY <2>1 DEF Next, Handlers
  <2>2. CASE Unasked(q)
    <3>1. UNCHANGED agent /\ row'.state = "cancelled"
      BY <1>3, <2>2 DEF Unasked, agentVars
    <3>2. goals' = 0 /\ UNCHANGED goals
      BY <1>2, <3>1, HandlersKeep DEF GoalBarred
    <3> QED
      BY <3>1, <3>2 DEF AgentHonest
  <2>3. CASE AgentAnswers(q)
    BY <1>3, <2>3 DEF AgentAnswers, AgentIdle, agentVars, AgentHonest
  <2>4. ASSUME ~Unasked(q), ~AgentAnswers(q)
        PROVE  UNCHANGED stopped
    BY <2>4, Zenon DEF ghosts, HandlesDelegate, HandlesDecision, HandlesRework, Refuses,
       FlagsStop, AsksAgent, HandlerDropped, CallTimesOut
  <2> QED
    BY <1>3, <2>2, <2>3, <2>4
<1>4. CASE stopped
  <2>1. Goal \notin agent.unread \cup agent.turn /\ work.pc \notin BeforeGoal
    BY <1>4 DEF WorkspaceStops, StopMeansStopped, GoalBarred
  <2>2. CASE UNCHANGED agent
    BY <2>1, <2>2
  <2>3. CASE AskTurnToEnd
    BY <1>1, <2>1, <2>3 DEF AskTurnToEnd
  <2>4. CASE Owner
    BY <2>2, <2>4, OwnerKeeps
  <2>5. CASE Handlers
    <3> PICK q \in requests : HandlesDelegate(q) \/ HandlesDecision(q) \/ HandlesRework(q)
                  \/ Refuses(q) \/ FlagsStop(q) \/ Unasked(q) \/ AsksAgent(q)
                  \/ AgentAnswers(q) \/ HandlerDropped(q) \/ CallTimesOut(q)
      BY <2>5 DEF Handlers
    <3>1. CASE HandlesRework(q)
      <4>1. q.rework # Goal /\ AcceptRework(q.rework)
        BY <3>1, BoundsAssumption DEF HandlesRework, LockHeld, Goal, Reworks
      <4>2. q.rework \in Nat /\ agent \in AgentType
        BY <1>1 DEF Types, ExecutorTypes, RequestType, AgentType
      <4>3. UNCHANGED agent \/ Accepted(q.rework)
        BY <4>1, <4>2, ReworkAccepted
      <4> QED
        BY <2>1, <2>2, <4>1, <4>3 DEF Accepted
    <3>2. CASE AsksAgent(q)
      BY <2>3, <3>2 DEF AsksAgent
    <3>3. ASSUME ~HandlesRework(q), ~AsksAgent(q)
          PROVE  UNCHANGED agent
      BY <3>3, Zenon DEF agentVars, HandlesDelegate, HandlesDecision, Refuses, FlagsStop,
         Unasked, AgentAnswers, HandlerDropped, CallTimesOut
    <3> QED
      BY <2>2, <3>1, <3>2, <3>3
  <2>6. CASE Worker
    <3>1. CASE WorkCancels
      BY <2>2, <2>3, <3>1 DEF WorkCancels
    <3>2. CASE GivesGoal \/ GoalUncertain
      BY <2>1, <3>2 DEF GivesGoal, GoalUncertain, Works, BeforeGoal
    <3>3. ASSUME ~WorkCancels, ~GivesGoal, ~GoalUncertain
          PROVE  UNCHANGED agent
      BY <2>6, <3>3, Zenon DEF agentVars, Worker, WorkHears, WorkFlags, WorkLocks, Binds,
         Allocates, PrepareFails, Dispatches, MarksRunning, MarksUncertain, Captures, Publishes,
         Recovers, ExecutorRestarts
    <3> QED
      BY <2>2, <3>1, <3>2, <3>3
  <2>7. CASE AgentSteps
    <3>1. CASE TurnStarts
      BY <1>1, <2>1, <3>1 DEF TurnStarts
    <3>2. CASE TurnReads
      BY <1>1, <2>1, <3>2 DEF TurnReads
    <3>3. CASE TurnEnds
      BY <1>1, <2>1, <3>3 DEF TurnEnds
    <3>4. CASE HandsIn
      BY <2>2, <3>4 DEF HandsIn
    <3> QED
      BY <2>7, <3>1, <3>2, <3>3, <3>4 DEF AgentSteps
  <2> QED
    BY <2>4, <2>5, <2>6, <2>7 DEF Next
<1> QED
  BY <1>3, <1>4

LEMMA GoalSafeKept ==
    ASSUME Types, LockHeld, GoalSafe, Next
    PROVE  GoalSafe'
BY RowHonestKept, AgentHonestKept, GoalBarredKept, ReceiptHonestKept, GoalGivenOnceKept,
   WorkspaceStopsKept DEF GoalSafe

-----------------------------------------------------------------------------
(* The order of the journal.                                                *)

LEMMA RecordsShape ==
    ASSUME Types
    PROVE  /\ runs \in Seq(RunStates) /\ Len(runs) \in Nat /\ DOMAIN runs = 1 .. Len(runs)
           /\ results \in Seq(Nat) /\ Len(results) \in Nat /\ DOMAIN results = 1 .. Len(results)
           /\ \A m \in 1 .. Len(results) : results[m] \in Nat
<1>1. runs \in Seq(RunStates) /\ results \in Seq(Nat)
  BY DEF Types, ExecutorTypes
<1> QED
  BY <1>1, LenProperties, ElementOfSeq

LEMMA OneRunKept ==
    ASSUME Types, OneRun, Next
    PROVE  OneRun'
<1>1. agent \in [unread : SUBSET Nat, turn : SUBSET Nat,
                state : {"idle", "working", "cancelling"}, receipt : SUBSET Nat]
  BY DEF Types, ExecutorTypes
<1>2. CASE UNCHANGED <<agent, runs>>
  BY <1>2 DEF OneRun
<1>3. ASSUME UNCHANGED runs, agent'.state = "idle" <=> agent.state = "idle"
      PROVE  OneRun'
  BY <1>3 DEF OneRun
<1>4. ASSUME AskTurnToEnd
      PROVE  agent'.state = "idle" <=> agent.state = "idle"
  BY <1>1, <1>4 DEF AskTurnToEnd
<1>5. CASE Owner
  BY <1>2, <1>5, OwnerKeeps
<1>6. CASE Handlers
  <2> PICK q \in requests : HandlesDelegate(q) \/ HandlesDecision(q) \/ HandlesRework(q)
                \/ Refuses(q) \/ FlagsStop(q) \/ Unasked(q) \/ AsksAgent(q)
                \/ AgentAnswers(q) \/ HandlerDropped(q) \/ CallTimesOut(q)
    BY <1>6 DEF Handlers
  <2>1. UNCHANGED runs
    BY HandlersKeep
  <2>2. CASE HandlesRework(q)
    <3>1. agent'.state = agent.state
      BY <1>1, <2>2 DEF HandlesRework, AcceptRework
    <3> QED
      BY <1>3, <2>1, <3>1
  <2>3. CASE AsksAgent(q)
    BY <1>3, <1>4, <2>1, <2>3 DEF AsksAgent
  <2>4. ASSUME ~HandlesRework(q), ~AsksAgent(q)
        PROVE  UNCHANGED agent
    BY <2>4, Zenon DEF agentVars, HandlesDelegate, HandlesDecision, Refuses, FlagsStop, Unasked,
       AgentAnswers, HandlerDropped, CallTimesOut
  <2> QED
    BY <1>2, <2>1, <2>2, <2>3, <2>4
<1>7. CASE Worker
  <2>1. UNCHANGED runs
    BY <1>7, WorkerKeeps
  <2>2. CASE WorkCancels
    BY <1>2, <1>3, <1>4, <2>1, <2>2 DEF WorkCancels
  <2>3. CASE GivesGoal \/ GoalUncertain
    <3>1. agent'.state = agent.state
      BY <1>1, <2>3 DEF GivesGoal, GoalUncertain, AcceptGoal
    <3> QED
      BY <1>3, <2>1, <3>1
  <2>4. ASSUME ~WorkCancels, ~GivesGoal, ~GoalUncertain
        PROVE  UNCHANGED agent
    BY <1>7, <2>4, Zenon DEF agentVars, Worker, WorkHears, WorkFlags, WorkLocks, Binds,
       Allocates, PrepareFails, Dispatches, MarksRunning, MarksUncertain, Captures, Publishes,
       Recovers, ExecutorRestarts
  <2> QED
    BY <1>2, <2>1, <2>2, <2>3, <2>4
<1>8. CASE AgentSteps
  <2>1. CASE TurnStarts
    <3>1. runs' = Append(runs, "running") /\ agent'.state = "working"
      BY <2>1 DEF TurnStarts
    <3>2. /\ Len(runs') = Len(runs) + 1 /\ DOMAIN runs' = 1 .. Len(runs) + 1
          /\ \A n \in 1 .. Len(runs) : runs'[n] = runs[n]
          /\ runs'[Len(runs) + 1] = "running"
      BY <3>1, RecordsShape, AppendProperties, LenProperties DEF RunStates
    <3>3. \A n \in 1 .. Len(runs) : runs[n] # "running"
      BY <2>1, RecordsShape DEF TurnStarts, OneRun
    <3>4. runs' # <<>>
      BY <3>2, RecordsShape
    <3> QED
      BY <3>1, <3>2, <3>3, <3>4, RecordsShape DEF OneRun
  <2>2. CASE TurnReads
    BY <1>1, <1>3, <2>2 DEF TurnReads
  <2>3. CASE TurnEnds
    <3>1. /\ agent'.state = "idle" /\ Len(runs) \in 1 .. Len(runs)
          /\ \E s \in {"finished", "cancelled"} : runs' = [runs EXCEPT ![Len(runs)] = s]
      BY <1>1, <2>3, RecordsShape, EmptySeq DEF TurnEnds, OneRun
    <3>2. \A n \in DOMAIN runs' : runs'[n] # "running"
      BY <3>1, RecordsShape DEF OneRun
    <3> QED
      BY <3>1, <3>2 DEF OneRun
  <2>4. CASE HandsIn
    BY <1>2, <2>4 DEF HandsIn
  <2> QED
    BY <1>8, <2>1, <2>2, <2>3, <2>4 DEF AgentSteps
<1> QED
  BY <1>5, <1>6, <1>7, <1>8 DEF Next

\* What is in the journal stays in its order, whatever else is added behind it.
OrderedIn == FilesFirstIn /\ RunsLastIn /\ RunsInOrder
LEMMA OldBodies ==
    ASSUME Types, JournalKept
    PROVE  /\ DOMAIN exports = 1 .. Len(exports) /\ DOMAIN exports' = 1 .. Len(exports')
           /\ Len(exports) \in Nat /\ Len(exports') \in Nat /\ Len(exports) <= Len(exports')
           /\ \A i \in 1 .. Len(exports) : Body(i)' = Body(i)
           /\ \A i \in 1 .. Len(exports) :
                 \A body : ExportedBefore(i, body) => ExportedBefore(i, body)'
           /\ \A body \in Bodies : body \in Bodies'
           /\ \A i \in DOMAIN exports' \ DOMAIN exports : NewBy(i)
<1>1. /\ DOMAIN exports = 1 .. Len(exports) /\ DOMAIN exports' = 1 .. Len(exports')
      /\ Len(exports) \in Nat /\ Len(exports') \in Nat /\ Len(exports) <= Len(exports')
  BY FeedShape, LenProperties DEF JournalKept
<1>2. \A i \in 1 .. Len(exports) : exports'[i].body = exports[i].body
  BY DEF JournalKept
<1>3. \A i \in 1 .. Len(exports) : \A body : ExportedBefore(i, body) => ExportedBefore(i, body)'
  BY <1>1, <1>2 DEF ExportedBefore
<1>4. \A body \in Bodies : body \in Bodies'
  BY <1>1, <1>2 DEF Bodies
<1>5. \A i \in DOMAIN exports' \ DOMAIN exports : NewBy(i)
  BY <1>1 DEF NewBy
<1> QED
  BY <1>1, <1>2, <1>3, <1>4, <1>5 DEF Body

LEMMA OrderOfOld ==
    ASSUME Types, OrderedIn, JournalKept, UNCHANGED <<runs, results>>
    PROVE  /\ \A i \in DOMAIN exports : Body(i)'.kind = "message" =>
                 ExportedBefore(i, File(Body(i).n))'
           /\ \A i \in DOMAIN exports : Body(i)'.kind = "run" =>
                 /\ Body(i)'.n \in DOMAIN runs'
                 /\ Body(i)'.status \in {"running", runs'[Body(i)'.n]}
                 /\ Body(i)'.status # "running" =>
                       \A m \in DOMAIN results' : results'[m] = Body(i)'.n => ExportedBefore(i, Message(m))'
                 /\ \A n \in 1 .. Body(i)'.n - 1 : Run(n, runs'[n]) \in Bodies'
           /\ \A i, j \in DOMAIN exports :
                 (i < j /\ Body(i)'.kind = "run" /\ Body(j)'.kind = "run") => Later(Body(i)', Body(j)')
<1> USE OldBodies
<1>1. ASSUME NEW i \in DOMAIN exports, Body(i)'.kind = "message"
      PROVE  ExportedBefore(i, File(Body(i).n))'
  <2>1. ExportedBefore(i, File(Body(i).n)) /\ Body(i)' = Body(i)
    BY <1>1 DEF OrderedIn, FilesFirstIn
  <2> QED
    BY <2>1
<1>2. ASSUME NEW i \in DOMAIN exports, Body(i)'.kind = "run"
      PROVE  /\ Body(i)'.n \in DOMAIN runs'
             /\ Body(i)'.status \in {"running", runs'[Body(i)'.n]}
             /\ Body(i)'.status # "running" =>
                   \A m \in DOMAIN results' : results'[m] = Body(i)'.n => ExportedBefore(i, Message(m))'
             /\ \A n \in 1 .. Body(i)'.n - 1 : Run(n, runs'[n]) \in Bodies'
  BY <1>2 DEF OrderedIn, RunsLastIn
<1>3. ASSUME NEW i \in DOMAIN exports, NEW j \in DOMAIN exports,
             i < j, Body(i)'.kind = "run", Body(j)'.kind = "run"
      PROVE  Later(Body(i)', Body(j)')
  BY <1>3 DEF OrderedIn, RunsInOrder
<1> QED
  BY <1>1, <1>2, <1>3

LEMMA OrderWithoutCapture ==
    ASSUME Types, OrderedIn, JournalKept, OnlyAttention, UNCHANGED <<runs, results>>
    PROVE  OrderedIn'
<1>1. \A i \in DOMAIN exports' : i \in DOMAIN exports \/ Body(i)'.kind = "attention"
  BY OldBodies DEF OnlyAttention, Body
<1>2. FilesFirstIn'
  BY <1>1, OrderOfOld DEF FilesFirstIn
<1>3. RunsLastIn'
  BY <1>1, OrderOfOld DEF RunsLastIn
<1>4. RunsInOrder'
  BY <1>1, OrderOfOld DEF RunsInOrder
<1> QED
  BY <1>2, <1>3, <1>4 DEF OrderedIn

\* A turn changes the last run only, and hands in only while that one runs.
LEMMA OrderOfTurn ==
    ASSUME Types, OneRun, OrderedIn, AgentSteps
    PROVE  OrderedIn'
<1>1. UNCHANGED exports
  BY AgentKeeps
<1>2. FilesFirstIn' /\ RunsInOrder'
  BY <1>1 DEF OrderedIn, FilesFirstIn, RunsInOrder, Body, ExportedBefore
<1>3. /\ DOMAIN runs = 1 .. Len(runs) /\ Len(runs) \in Nat
      /\ DOMAIN results = 1 .. Len(results) /\ Len(results) \in Nat
  BY RecordsShape
<1>3a. \A n \in 1 .. Len(runs) - 1 : n \in 1 .. Len(runs) /\ n # Len(runs)
  <2>1. ASSUME NEW L \in Nat
        PROVE  \A n \in 1 .. L - 1 : n \in 1 .. L /\ n # L
    OBVIOUS
  <2> QED
    BY <1>3, <2>1
<1>4. /\ \A n \in DOMAIN runs : n \in DOMAIN runs' /\ (runs[n] # "running" => runs'[n] = runs[n])
      /\ \A n \in 1 .. Len(runs) - 1 : runs'[n] = runs[n]
      /\ \A m \in DOMAIN results' :
            \/ m \in DOMAIN results /\ results'[m] = results[m]
            \/ results'[m] = Len(runs) /\ runs[Len(runs)] = "running" /\ UNCHANGED runs
  <2>1. CASE TurnStarts
    <3>1. runs' = Append(runs, "running") /\ UNCHANGED results
      BY <2>1 DEF TurnStarts
    <3>2. /\ DOMAIN runs' = 1 .. Len(runs) + 1
          /\ \A n \in 1 .. Len(runs) : runs'[n] = runs[n]
      BY <3>1, RecordsShape, AppendProperties, LenProperties DEF RunStates
    <3>3. DOMAIN runs \subseteq DOMAIN runs'
      BY <1>3, <3>2
    <3>4. \A n \in DOMAIN runs : runs'[n] = runs[n]
      BY <1>3, <3>2
    <3>5. \A n \in 1 .. Len(runs) - 1 : n \in DOMAIN runs
      BY <1>3
    <3>6. \A m \in DOMAIN results' : m \in DOMAIN results /\ results'[m] = results[m]
      BY <3>1
    <3>7. /\ \A n \in DOMAIN runs : n \in DOMAIN runs' /\ runs'[n] = runs[n]
          /\ \A n \in 1 .. Len(runs) - 1 : runs'[n] = runs[n]
      BY <3>3, <3>4, <3>5
    <3> QED
      BY <3>6, <3>7
  <2>2. CASE TurnReads
    <3>1. UNCHANGED <<runs, results>>
      BY <2>2 DEF TurnReads
    <3>2. \A m \in DOMAIN results' : m \in DOMAIN results /\ results'[m] = results[m]
      BY <3>1
    <3>3. /\ \A n \in DOMAIN runs : n \in DOMAIN runs' /\ runs'[n] = runs[n]
          /\ \A n \in 1 .. Len(runs) - 1 : runs'[n] = runs[n]
      BY <3>1
    <3> QED
      BY <3>2, <3>3
  <2>3. CASE TurnEnds
    <3>1. /\ \E s \in {"finished", "cancelled"} : runs' = [runs EXCEPT ![Len(runs)] = s]
          /\ runs[Len(runs)] = "running" /\ UNCHANGED results
      BY <2>3 DEF TurnEnds, OneRun
    <3>2. DOMAIN runs' = DOMAIN runs /\ \A n \in DOMAIN runs : n # Len(runs) => runs'[n] = runs[n]
      BY <3>1
    <3>4. \A m \in DOMAIN results' : m \in DOMAIN results /\ results'[m] = results[m]
      BY <3>1
    <3>5. \A n \in DOMAIN runs : n \in DOMAIN runs' /\ (runs[n] # "running" => runs'[n] = runs[n])
      BY <3>1, <3>2
    <3>6. \A n \in 1 .. Len(runs) - 1 : runs'[n] = runs[n]
      BY <1>3, <1>3a, <3>2
    <3> QED
      BY <3>4, <3>5, <3>6
  <2>4. CASE HandsIn
    <3>1. results' = Append(results, Len(runs)) /\ UNCHANGED runs /\ runs[Len(runs)] = "running"
      BY <2>4 DEF HandsIn, OneRun
    <3>2. /\ DOMAIN results' = 1 .. Len(results) + 1
          /\ \A m \in 1 .. Len(results) : results'[m] = results[m]
          /\ results'[Len(results) + 1] = Len(runs)
      BY <3>1, RecordsShape, AppendProperties, LenProperties
    <3>3. \A m \in DOMAIN results' : m \in 1 .. Len(results) \/ m = Len(results) + 1
      BY <1>3, <3>2
    <3>4. \A m \in DOMAIN results' :
            (m \in DOMAIN results /\ results'[m] = results[m]) \/ results'[m] = Len(runs)
      BY <1>3, <3>2, <3>3
    <3> QED
      BY <3>1, <3>4
  <2> QED
    BY <2>1, <2>2, <2>3, <2>4 DEF AgentSteps
<1>5. ASSUME NEW i \in DOMAIN exports, Body(i).kind = "run"
      PROVE  /\ Body(i).n \in DOMAIN runs'
             /\ Body(i).status \in {"running", runs'[Body(i).n]}
             /\ Body(i).status # "running" =>
                   \A m \in DOMAIN results' : results'[m] = Body(i).n => ExportedBefore(i, Message(m))
             /\ \A n \in 1 .. Body(i).n - 1 : Run(n, runs'[n]) \in Bodies
  <2>1. /\ Body(i).n \in DOMAIN runs
        /\ Body(i).status \in {"running", runs[Body(i).n]}
        /\ Body(i).status # "running" =>
              \A m \in DOMAIN results : results[m] = Body(i).n => ExportedBefore(i, Message(m))
        /\ \A n \in 1 .. Body(i).n - 1 : Run(n, runs[n]) \in Bodies
    BY <1>5 DEF OrderedIn, RunsLastIn
  <2>2. Body(i).n \in DOMAIN runs' /\ Body(i).status \in {"running", runs'[Body(i).n]}
    BY <1>4, <2>1
  <2>3. ASSUME Body(i).status # "running", NEW m \in DOMAIN results', results'[m] = Body(i).n
        PROVE  ExportedBefore(i, Message(m))
    BY <1>4, <2>1, <2>3
  <2>4. \A n \in 1 .. Body(i).n - 1 : n \in 1 .. Len(runs) - 1
    BY <1>3, <2>1
  <2>5. \A n \in 1 .. Body(i).n - 1 : Run(n, runs'[n]) \in Bodies
    BY <1>4, <2>1, <2>4
  <2> QED
    BY <2>2, <2>3, <2>5
<1>6. RunsLastIn'
  BY <1>1, <1>5 DEF RunsLastIn, Body, ExportedBefore, Bodies
<1> QED
  BY <1>2, <1>6 DEF OrderedIn

\* Where the records of each kind are.
LEMMA RecordsByKind ==
    ASSUME Types, NEW i \in DOMAIN Records
    PROVE  /\ Records[i].kind = "message" =>
                 \E n \in 1 .. Len(results) : i = Len(results) + n /\ Records[i] = Message(n)
           /\ Records[i].kind = "run" =>
                 \E n \in 1 .. Len(runs) : i = 2 * Len(results) + n /\ Records[i] = Run(n, runs[n])
<1> DEFINE R == Len(results)
           T == Len(runs)
<1>1. /\ R \in Nat /\ T \in Nat /\ Records \in Seq(BodyType) /\ Len(Records) = 2 * R + T
      /\ \A n \in 1 .. R : Records[n] = File(n) /\ Records[R + n] = Message(n)
      /\ \A n \in 1 .. T : Records[2 * R + n] = Run(n, runs[n])
  BY RecordsInOrder DEF Types
<1>2. i \in 1 .. 2 * R + T
  BY <1>1, LenProperties
<1> HIDE DEF R, T
<1>3. CASE i \in 1 .. R
  <2>1. Records[i] = File(i)
    BY <1>1, <1>3
  <2> QED
    BY <2>1 DEF File
<1>4. CASE i \in R + 1 .. 2 * R
  <2>1. i - R \in 1 .. R /\ R + (i - R) = i
    BY <1>1, <1>4
  <2>2. Records[i] = Message(i - R)
    BY <1>1, <2>1
  <2> QED
    BY <2>1, <2>2 DEF Message, R
<1>5. CASE i \in 2 * R + 1 .. 2 * R + T
  <2>1. i - 2 * R \in 1 .. T /\ 2 * R + (i - 2 * R) = i
    BY <1>1, <1>5
  <2>2. Records[i] = Run(i - 2 * R, runs[i - 2 * R])
    BY <1>1, <2>1
  <2> QED
    BY <2>1, <2>2 DEF Run, R, T
<1>6. i \in 1 .. R \/ i \in R + 1 .. 2 * R \/ i \in 2 * R + 1 .. 2 * R + T
  BY <1>1, <1>2
<1> QED
  BY <1>3, <1>4, <1>5, <1>6

LEMMA OrderOfCapture ==
    ASSUME Types, OneRun, OrderedIn, Captures
    PROVE  OrderedIn'
<1>1. JournalKept /\ UNCHANGED <<runs, results>>
  BY CaptureProperties DEF Types, JournalKept, Captures, KeptByWork
<1>2. \A p \in DOMAIN exports' : p \in DOMAIN exports \/ NewBy(p)
  BY <1>1, OldBodies
<1>3. \A p : NewBy(p) => /\ Body(p)' \notin Bodies
                         /\ \E i \in DOMAIN Records : Body(p)' = Records[i] /\ AllBefore(i, p)
  BY CaptureProperties DEF Types, Body
<1>4. /\ Len(results) \in Nat /\ Len(runs) \in Nat
      /\ DOMAIN runs = 1 .. Len(runs) /\ DOMAIN results = 1 .. Len(results)
      /\ \A n \in 1 .. Len(results) : Records[n] = File(n) /\ Records[Len(results) + n] = Message(n)
      /\ \A n \in 1 .. Len(runs) : Records[2 * Len(results) + n] = Run(n, runs[n])
  BY RecordsInOrder, RecordsShape DEF Types
<1>5. \A p, i, m : (NewBy(p) /\ AllBefore(i, p) /\ m \in 1 .. i - 1) =>
          \E j \in 1 .. p - 1 : j \in DOMAIN exports' /\ exports'[j].body = Records[m]
  <2> TAKE p, i, m
  <2> HAVE NewBy(p) /\ AllBefore(i, p) /\ m \in 1 .. i - 1
  <2>1. PICK j \in 1 .. p - 1 : exports'[j].body = Records[m]
    BY DEF AllBefore
  <2>2. DOMAIN exports' = 1 .. Len(exports') /\ Len(exports') \in Nat /\ Len(exports) \in Nat
    BY <1>1, OldBodies
  <2>3. p \in Len(exports) + 1 .. Len(exports')
    BY DEF NewBy
  <2>4. j \in DOMAIN exports'
    BY <2>2, <2>3
  <2> QED
    BY <2>1, <2>4
<1>6. ASSUME NEW p, NewBy(p), Body(p)'.kind = "message"
      PROVE  ExportedBefore(p, File(Body(p).n))'
  <2>1. PICK i \in DOMAIN Records : Body(p)' = Records[i] /\ AllBefore(i, p)
    BY <1>3, <1>6
  <2>2. PICK n \in 1 .. Len(results) : i = Len(results) + n /\ Records[i] = Message(n)
    BY <1>6, <2>1, RecordsByKind
  <2>3. n \in 1 .. i - 1 /\ Records[n] = File(n)
    BY <1>4, <2>2
  <2>4. \E j \in 1 .. p - 1 : exports'[j].body = File(n)
    BY <1>5, <1>6, <2>1, <2>3
  <2>5. Body(p)'.n = n
    BY <2>1, <2>2 DEF Message
  <2> QED
    BY <2>4, <2>5 DEF ExportedBefore
<1>7. ASSUME NEW p, NewBy(p), Body(p)'.kind = "run"
      PROVE  \E n \in 1 .. Len(runs) :
                /\ Body(p)' = Run(n, runs[n]) /\ Body(p)' \notin Bodies
                /\ \A m \in 1 .. Len(results) : ExportedBefore(p, Message(m))'
                /\ \A k \in 1 .. n - 1 : Run(k, runs[k]) \in Bodies'
  <2>1. PICK i \in DOMAIN Records : Body(p)' = Records[i] /\ AllBefore(i, p)
    BY <1>3, <1>7
  <2>2. PICK n \in 1 .. Len(runs) : i = 2 * Len(results) + n /\ Records[i] = Run(n, runs[n])
    BY <1>7, <2>1, RecordsByKind
  <2>3. ASSUME NEW m \in 1 .. Len(results)
        PROVE  ExportedBefore(p, Message(m))'
    <3>1. Len(results) + m \in 1 .. i - 1 /\ Records[Len(results) + m] = Message(m)
      BY <1>4, <2>2
    <3> QED
      BY <1>5, <1>7, <2>1, <3>1 DEF ExportedBefore
  <2>4. ASSUME NEW k \in 1 .. n - 1
        PROVE  Run(k, runs[k]) \in Bodies'
    <3>1. /\ 2 * Len(results) + k \in 1 .. i - 1
          /\ Records[2 * Len(results) + k] = Run(k, runs[k])
      BY <1>4, <2>2
    <3> QED
      BY <1>5, <1>7, <2>1, <3>1 DEF Bodies
  <2> QED
    BY <1>3, <1>7, <2>1, <2>2, <2>3, <2>4
<1>8. FilesFirstIn'
  BY <1>1, <1>2, <1>6, OrderOfOld DEF FilesFirstIn
<1>9. RunsLastIn'
  <2> SUFFICES ASSUME NEW p \in DOMAIN exports', Body(p)'.kind = "run"
               PROVE  /\ Body(p)'.n \in DOMAIN runs'
                      /\ Body(p)'.status \in {"running", runs'[Body(p)'.n]}
                      /\ Body(p)'.status # "running" =>
                            \A m \in DOMAIN results' : results'[m] = Body(p)'.n => ExportedBefore(p, Message(m))'
                      /\ \A n \in 1 .. Body(p)'.n - 1 : Run(n, runs'[n]) \in Bodies'
    BY DEF RunsLastIn
  <2>1. CASE p \in DOMAIN exports
    BY <1>1, <2>1, OrderOfOld
  <2>2. CASE NewBy(p)
    <3>1. PICK n \in 1 .. Len(runs) :
             /\ Body(p)' = Run(n, runs[n])
             /\ \A m \in 1 .. Len(results) : ExportedBefore(p, Message(m))'
             /\ \A k \in 1 .. n - 1 : Run(k, runs[k]) \in Bodies'
      BY <1>7, <2>2
    <3>2. Body(p)'.n = n /\ Body(p)'.status = runs[n]
      BY <3>1 DEF Run
    <3> QED
      BY <1>1, <1>4, <3>1, <3>2
  <2> QED
    BY <1>2, <2>1, <2>2
<1>10. RunsInOrder'
  <2> SUFFICES ASSUME NEW p \in DOMAIN exports', NEW q \in DOMAIN exports', p < q,
                      Body(p)'.kind = "run", Body(q)'.kind = "run"
               PROVE  Later(Body(p)', Body(q)')
    BY DEF RunsInOrder
  <2>1. CASE p \in DOMAIN exports /\ q \in DOMAIN exports
    BY <1>1, <2>1, OrderOfOld
  <2>2. CASE p \in DOMAIN exports /\ NewBy(q)
    <3>1. PICK n \in 1 .. Len(runs) : Body(q)' = Run(n, runs[n]) /\ Run(n, runs[n]) \notin Bodies
      BY <1>7, <2>2
    <3>2. Body(p)' = Body(p)
      BY <1>1, <2>2, OldBodies
    <3> DEFINE a == Body(p).n
    <3>3. /\ a \in 1 .. Len(runs) /\ Body(p).status \in {"running", runs[a]}
          /\ \A k \in 1 .. a - 1 : Run(k, runs[k]) \in Bodies
      BY <1>4, <2>2, <3>2 DEF OrderedIn, RunsLastIn
    <3>4. Body(p) \in Bodies /\ Body(p) = Run(a, Body(p).status)
      <4>1. exports \in Seq(EventType) /\ p \in 1 .. Len(exports)
        BY <2>2, FeedShape
      <4>2. exports[p] \in EventType
        BY <4>1, ElementOfSeq
      <4>3. Body(p) \in BodyType
        BY <4>2 DEF EventType, Body
      <4> QED
        BY <2>2, <3>2, <4>3 DEF Bodies, Body, BodyType, Run
    <3>5. a <= n
      BY <1>4, <3>1, <3>3
    <3>6. a = n => Body(p).status = "running" /\ runs[n] # "running"
      BY <3>1, <3>3, <3>4
    <3>7. Body(q)'.n = n /\ Body(q)'.status = runs[n]
      BY <3>1 DEF Run
    <3> QED
      BY <1>4, <3>2, <3>3, <3>5, <3>6, <3>7 DEF Later
  <2>3. CASE NewBy(p) /\ NewBy(q)
    <3>1. PICK i \in DOMAIN Records, j \in DOMAIN Records :
             i < j /\ Body(p)' = Records[i] /\ Body(q)' = Records[j]
      BY <2>3, CaptureProperties DEF Types, Body
    <3>2. PICK n \in 1 .. Len(runs) : i = 2 * Len(results) + n /\ Records[i] = Run(n, runs[n])
      BY <3>1, RecordsByKind
    <3>3. PICK m \in 1 .. Len(runs) : j = 2 * Len(results) + m /\ Records[j] = Run(m, runs[m])
      BY <3>1, RecordsByKind
    <3>4. n < m
      BY <1>4, <3>1, <3>2, <3>3
    <3> QED
      BY <3>1, <3>2, <3>3, <3>4 DEF Later, Run
  <2>4. NewBy(p) /\ q \in DOMAIN exports => FALSE
    BY <1>1, OldBodies DEF NewBy
  <2> QED
    BY <1>2, <2>1, <2>2, <2>3, <2>4
<1> QED
  BY <1>8, <1>9, <1>10 DEF OrderedIn

LEMMA ExportsOrderedKept ==
    ASSUME Types, ExportsOrdered, Next
    PROVE  ExportsOrdered'
<1>1. OneRun' /\ OrderedIn
  BY OneRunKept DEF ExportsOrdered, OrderedIn
<1>2. OrderedIn'
  <2>1. JournalKept /\ (Captures \/ OnlyAttention)
    BY JournalGrows DEF Types
  <2>2. CASE AgentSteps
    BY <1>1, <2>2, OrderOfTurn DEF ExportsOrdered
  <2>3. CASE Captures
    BY <1>1, <2>3, OrderOfCapture DEF ExportsOrdered
  <2>4. CASE ~AgentSteps /\ OnlyAttention
    <3>1. UNCHANGED <<runs, results>>
      BY <2>4, OwnerKeeps, HandlersKeep, WorkerKeeps DEF Next, Handlers
    <3> QED
      BY <1>1, <2>1, <2>4, <3>1, OrderWithoutCapture
  <2> QED
    BY <2>1, <2>2, <2>3, <2>4
<1> QED
  BY <1>1, <1>2 DEF ExportsOrdered, OrderedIn

-----------------------------------------------------------------------------
(* The session comes first.                                                 *)

\* A session, once there, stays.
Ready == row.bound \/ (row.state \in {"cancelled", "settled"} /\ work.pc \notin BeforeGoal)
SessionParts ==
    /\ work.pc \in {"runtime", "dispatch"} \cup AroundGoal => row.bound
    /\ work.pc = "bind" => Undispatched \/ row.bound
    /\ row.runtime \/ row.state = "dispatching" => row.bound
    /\ agent.unread # {} => row.bound

LEMMA SessionOfWorker ==
    ASSUME ControlTypes, LockHeld, RowHonest, SessionParts, Worker
    PROVE  /\ SessionParts'
           /\ row.bound => row'.bound
           /\ Ready => Ready'
<1>1. /\ work.pc \in {"runtime", "dispatch"} \cup AroundGoal => row.bound
      /\ work.pc = "bind" => Undispatched \/ row.bound
      /\ row.runtime \/ row.state = "dispatching" => row.bound
      /\ agent.unread # {} => row.bound
  BY DEF SessionParts
<1> DEFINE Goals == /\ work'.pc \in {"runtime", "dispatch"} \cup AroundGoal => row'.bound
                    /\ work'.pc = "bind" => row'.state \in {"queued", "preparing"} \/ row'.bound
                    /\ row'.runtime \/ row'.state = "dispatching" => row'.bound
                    /\ agent'.unread # {} => row'.bound
                    /\ row.bound => row'.bound
                    /\ Ready => row'.bound \/ (row'.state \in {"cancelled", "settled"} /\ work'.pc \notin BeforeGoal)
<1>2. Goals
  <2> USE DEF ControlTypes, UnderLock, AroundGoal, BeforeGoal, RowHonest, Ready, Undispatched
  <2>1. CASE WorkCancels
    BY <1>1, <2>1 DEF WorkCancels, Begins, Undispatched, Works, AskTurnToEnd
  <2>2. CASE WorkHears
    BY <1>1, <2>2 DEF WorkHears, Works
  <2>3. CASE WorkFlags
    BY <1>1, <2>3 DEF WorkFlags, Works
  <2>4. CASE WorkLocks
    BY <1>1, <2>4 DEF WorkLocks, Begins, Undispatched
  <2>5. CASE Binds
    BY <1>1, <2>5 DEF Binds, Works, Undispatched
  <2>6. CASE Allocates
    BY <1>1, <2>6 DEF Allocates, Works
  <2>7. CASE PrepareFails
    BY <1>1, <2>7 DEF PrepareFails
  <2>8. CASE Dispatches
    BY <1>1, <2>8 DEF Dispatches, Works
  <2>9. CASE GivesGoal
    BY <1>1, <2>9 DEF GivesGoal, Works, AcceptGoal
  <2>10. CASE GoalUncertain
    BY <1>1, <2>10 DEF GoalUncertain, Works, AcceptGoal
  <2>11. CASE MarksRunning
    BY <1>1, <2>11 DEF MarksRunning, Works
  <2>12. CASE MarksUncertain
    BY <1>1, <2>12 DEF MarksUncertain, Works
  <2>13. CASE Captures
    BY <1>1, <2>13 DEF Captures, Resting
  <2>14. CASE Publishes
    BY <1>1, <2>14 DEF Publishes, Resting
  <2>15. CASE Recovers
    BY <1>1, <2>15 DEF Recovers, Resting, Recovered
  <2>16. CASE ExecutorRestarts
    BY <1>1, <2>16 DEF ExecutorRestarts, Resting, agentVars
  <2> QED
    BY <2>1, <2>2, <2>3, <2>4, <2>5, <2>6, <2>7, <2>8, <2>9, <2>10, <2>11, <2>12, <2>13, <2>14,
       <2>15, <2>16 DEF Worker
<1> QED
  BY <1>2 DEF SessionParts, Ready, Undispatched

\* The journal has nothing without a session.
LEMMA ExportsNeedSession ==
    ASSUME Types, RowHonest, SessionFirst, Next, exports' # <<>>
    PROVE  row.bound
<1>1. exports # <<>> => row.bound
  BY DEF SessionFirst
<1>2. CASE UNCHANGED exports
  BY <1>1, <1>2
<1>3. CASE Captures
  <2>1. /\ exports \in Seq(EventType) /\ exports' \in Seq(EventType)
        /\ Len(exports) \in Nat /\ Len(exports') \in Nat /\ Len(exports') >= Len(exports)
    BY <1>3, FeedShape, CaptureProperties, LenProperties DEF Types
  <2>2. CASE exports = <<>>
    <3>1. Len(exports) = 0
      BY <2>2
    <3>2. Len(exports') # 0
      BY <2>1, EmptySeq
    <3>3. NewBy(1)
      BY <2>1, <3>1, <3>2 DEF NewBy
    <3> QED
      BY <1>3, <3>3, CaptureProperties DEF Types
  <2> QED
    BY <1>1, <2>2
<1>4. CASE MarksUncertain
  BY <1>4 DEF MarksUncertain, Works, SessionFirst, AroundGoal
<1>5. CASE Recovers
  BY <1>1, <1>5 DEF Recovers, SessionFirst
<1>6. CASE Publishes
  <2>1. CASE UNCHANGED exports
    BY <1>2, <2>1
  <2>2. CASE Unready # {}
    <3>1. DOMAIN exports # {} /\ DOMAIN exports = 1 .. Len(exports)
      BY <2>2, FeedShape DEF Unready
    <3>2. exports # <<>>
      BY <3>1
    <3> QED
      BY <1>1, <3>2
  <2> QED
    BY <1>6, <2>1, <2>2 DEF Publishes
<1>7. CASE AgentSteps
  BY <1>2, <1>7, AgentKeeps
<1>8. CASE Owner
  BY <1>2, <1>8, OwnerKeeps
<1>9. CASE Handlers
  BY <1>2, <1>9, HandlersKeep DEF Handlers
<1>10. ASSUME Worker, ~Captures, ~MarksUncertain, ~Recovers, ~Publishes
       PROVE  UNCHANGED exports
  BY <1>10, Zenon DEF Worker, executorVars, KeptByWork, WorkCancels, WorkHears, WorkFlags,
     WorkLocks, Binds, Allocates, PrepareFails, Dispatches, GivesGoal, GoalUncertain,
     MarksRunning, ExecutorRestarts
<1> QED
  BY <1>2, <1>3, <1>4, <1>5, <1>6, <1>7, <1>8, <1>9, <1>10 DEF Next

\* An end is known first to the executor: the owner's steps learn of none but from the
\* journal.
LEMMA OwnerConcludes ==
    ASSUME Types, Owner, ~Applies, Concluded'
    PROVE  Concluded
<1>1. UNCHANGED <<stopped, row>> /\ OwnerRequests
  BY OwnerKeeps, OwnerAsks
<1>2. CallTypes /\ requests \in SUBSET RequestType
  BY DEF Types, OwnerTypes, ExecutorTypes, CallTypes
<1>3. (\E q \in requests' : q.what = "decision") =>
          link.decision # "none" \/ \E q \in requests : q.what = "decision"
  <2>1. CASE UNCHANGED requests
    BY <2>1
  <2>2. ASSUME NEW what, NEW r, Asked(what, r), requests' = requests \cup {Request(what, r)}
        PROVE  (\E q \in requests' : q.what = "decision") =>
                  link.decision # "none" \/ \E q \in requests : q.what = "decision"
    BY <2>2 DEF Asked, Request
  <2>3. CASE requests' = {[q EXCEPT !.waiting = FALSE] : q \in requests}
    <3>1. \A q \in requests : [q EXCEPT !.waiting = FALSE].what = q.what
      BY <1>2 DEF RequestType
    <3>2. ASSUME NEW q \in requests', q.what = "decision"
          PROVE  \E p \in requests : p.what = "decision"
      <4>1. PICK p \in requests : q = [p EXCEPT !.waiting = FALSE]
        BY <2>3
      <4> QED
        BY <3>1, <3>2, <4>1
    <3> QED
      BY <3>2
  <2> QED
    BY <1>1, <2>1, <2>2, <2>3 DEF OwnerRequests
<1>4. \/ Concluded
      \/ /\ link'.remote \in Ended => link.remote \in Ended
         /\ link'.task = link.task /\ link'.decision = link.decision
         /\ pass'.pc = "stopped" => pass.pc = "stopped"
  <2> USE DEF CallTypes, Concluded, ownerVars
  <2>1. CASE Delegate
    BY <1>2, <2>1 DEF Delegate
  <2>2. CASE Stop
    BY <1>2, <2>2 DEF Stop
  <2>3. CASE Decide
    BY <1>2, <2>3 DEF Decide, Decidable
  <2>4. CASE \E r \in Reworks : QueueRework(r)
    BY <1>2, <2>4 DEF QueueRework
  <2>5. CASE PassStarts
    BY <1>2, <2>5 DEF PassStarts
  <2>6. CASE CallsStop
    BY <1>2, <2>6 DEF CallsStop
  <2>7. CASE MarksStopped
    BY <1>2, <2>7 DEF MarksStopped
  <2>8. CASE CallsDecision
    BY <1>2, <2>8 DEF CallsDecision
  <2>9. CASE CallsRework
    BY <1>2, <2>9 DEF CallsRework
  <2>10. CASE PassEnds
    BY <1>2, <2>10 DEF PassEnds, Idle
  <2>11. CASE OwnerRestarts
    BY <1>2, <2>11 DEF OwnerRestarts, Idle
  <2>12. CASE FeedReads
    BY <1>2, <2>12 DEF FeedReads
  <2>13. CASE ApplyFails
    BY <1>2, <2>13 DEF ApplyFails
  <2>14. CASE FeedBreaks
    BY <1>2, <2>14 DEF FeedBreaks
  <2> QED
    BY <2>1, <2>2, <2>3, <2>4, <2>5, <2>6, <2>7, <2>8, <2>9, <2>10, <2>11, <2>12, <2>13, <2>14
       DEF Owner
<1> QED
  BY <1>1, <1>3, <1>4 DEF Concluded

\* A handler tells the owner of an end only when it made it, or heard it from the agent.
LEMMA HandlersConclude ==
    ASSUME Types, NEW q \in requests, HandlesDelegate(q) \/ HandlesDecision(q) \/ HandlesRework(q)
               \/ Refuses(q) \/ FlagsStop(q) \/ Unasked(q) \/ AsksAgent(q)
               \/ AgentAnswers(q) \/ HandlerDropped(q) \/ CallTimesOut(q), Concluded',
           ~(Unasked(q) /\ row'.state = "cancelled"), ~AgentAnswers(q)
    PROVE  Concluded
<1>1. CallTypes /\ requests \in SUBSET RequestType /\ ControlTypes
  BY DEF Types, OwnerTypes, ExecutorTypes, CallTypes, ControlTypes
<1>2. UNCHANGED stopped
  <2>1. CASE Unasked(q)
    BY <1>1, <2>1 DEF Unasked, ControlTypes
  <2>2. CASE ~Unasked(q)
    BY <2>2, Zenon DEF ghosts, HandlesDelegate, HandlesDecision, HandlesRework, Refuses,
       FlagsStop, AsksAgent, HandlerDropped, CallTimesOut
  <2> QED
    BY <2>1, <2>2
<1>3. (\E p \in requests' : p.what = "decision") => \E p \in requests : p.what = "decision"
  <2>1. HandlerRequests(q)
    BY HandlersMove
  <2> QED
    BY <1>1, <2>1 DEF HandlerRequests, RequestType
<1>4. row'.decided => row.decided \/ q.what = "decision"
  BY <1>1, HandlersKeepRow DEF ControlTypes
<1>5. UNCHANGED <<link, pass>> \/ PassFails \/ Answered(q, FALSE)
  <2>1. CASE HandlesDelegate(q) \/ HandlesDecision(q) \/ HandlesRework(q)
    <3>1. Reply(q, FALSE)
      BY <2>1 DEF HandlesDelegate, HandlesDecision, HandlesRework
    <3> QED
      BY <3>1, Zenon DEF Reply
  <2>2. CASE Unasked(q)
    <3>1. Reply(q, FALSE)
      <4>1. Reply(q, row'.state = "cancelled") /\ (row'.state = "cancelled") = FALSE
        BY <2>2 DEF Unasked
      <4> QED
        BY <4>1
    <3> QED
      BY <3>1, Zenon DEF Reply
  <2>3. CASE Refuses(q) \/ HandlerDropped(q)
    <3>1. Refuse(q)
      BY <2>3, Zenon DEF Refuses, HandlerDropped
    <3> QED
      BY <3>1, Zenon DEF Refuse
  <2>4. CASE FlagsStop(q) \/ AsksAgent(q)
    BY <2>4 DEF FlagsStop, AsksAgent, ownerVars
  <2>5. CASE CallTimesOut(q)
    BY <2>5, Zenon DEF CallTimesOut
  <2> QED
    BY <2>1, <2>2, <2>3, <2>4, <2>5
<1>6. /\ link'.remote = link.remote /\ link'.task = link.task
      /\ link'.decision # "none" => link.decision # "none" \/ q.what = "decision"
      /\ pass'.pc = "stopped" => pass.pc = "stopped"
  <2> USE DEF CallTypes
  <2>1. CASE UNCHANGED <<link, pass>>
    BY <2>1
  <2>2. CASE PassFails
    BY <1>1, <2>2 DEF PassFails, WrittenBack, Idle
  <2>3. CASE Answered(q, FALSE)
    BY <1>1, <2>3 DEF Answered, Delegated
  <2> QED
    BY <1>5, <2>1, <2>2, <2>3
<1> QED
  BY <1>2, <1>3, <1>4, <1>6 DEF Concluded

LEMMA SessionFirstKept ==
    ASSUME Types, LockHeld, RowHonest, FeedHonest, SessionFirst, Next
    PROVE  SessionFirst'
<1>1. ControlTypes /\ requests \in SUBSET RequestType /\ runs \in Seq(RunStates)
  BY DEF Types, ExecutorTypes, ControlTypes
<1>2. SessionParts /\ (Concluded => Ready)
  BY DEF SessionFirst, SessionParts, Ready
<1>3. exports' # <<>> => row.bound
  BY ExportsNeedSession
<1>4. SUFFICES /\ SessionParts' /\ (Concluded' => Ready')
               /\ row.bound => row'.bound
               /\ runs' # <<>> => row.bound
               /\ \A q \in requests' : q.stage = "asked" => row.bound
  BY <1>3 DEF SessionFirst, SessionParts, Ready
<1>5. CASE Worker
  <2>1. /\ UNCHANGED <<runs, stopped>> /\ requests' \subseteq requests
        /\ UNCHANGED <<link, pass>> \/ PassFails
    BY <1>5, WorkerKeeps DEF ExecutorRestarts
  <2>2. row'.decided = row.decided
    BY <1>1, <1>5, WorkerKeepsRow
  <2>3. Concluded' => Concluded
    <3>1. CallTypes
      BY DEF Types, OwnerTypes, CallTypes
    <3>2. /\ link'.remote = link.remote /\ link'.task = link.task
          /\ link'.decision = link.decision /\ (pass'.pc = "stopped" => pass.pc = "stopped")
      BY <2>1, <3>1 DEF CallTypes, PassFails, WrittenBack, Idle
    <3> QED
      BY <2>1, <2>2, <3>2 DEF Concluded
  <2> QED
    BY <1>1, <1>2, <1>5, <2>1, <2>3, SessionOfWorker DEF SessionFirst
<1>6. CASE Owner
  <2>1. UNCHANGED <<row, work, exports, agent, runs>>
    BY <1>6, OwnerKeeps
  <2>2. \A q \in requests' : q.stage = "asked" => row.bound
    BY <1>6, OwnerKeepsStages DEF SessionFirst
  <2>3. CASE Applies
    <3>1. exports # <<>>
      <4>1. 1 <= Len(exports) /\ Len(exports) \in Nat
        BY <2>3, HeadPage, FeedShape
      <4> QED
        BY <4>1
    <3> QED
      BY <2>1, <2>2, <3>1 DEF SessionFirst, SessionParts, Ready, Undispatched
  <2>4. CASE ~Applies
    BY <1>2, <1>6, <2>1, <2>2, <2>4, OwnerConcludes DEF SessionFirst, SessionParts, Ready,
       Undispatched
  <2> QED
    BY <2>3, <2>4
<1>7. CASE AgentSteps
  <2>1. UNCHANGED <<link, pass, row, work, exports, requests, stopped>>
    BY <1>7, AgentKeeps
  <2>2. (agent'.unread # {} => agent.unread # {}) /\ (runs' # <<>> => runs # <<>> \/ agent.unread # {})
    <3>1. CASE TurnStarts
      BY <3>1 DEF TurnStarts
    <3>2. CASE TurnReads
      BY <1>1, <3>2 DEF TurnReads, ControlTypes
    <3>3. CASE TurnEnds
      BY <1>1, <3>3 DEF TurnEnds, ControlTypes
    <3>4. CASE HandsIn
      BY <3>4 DEF HandsIn
    <3> QED
      BY <1>7, <3>1, <3>2, <3>3, <3>4 DEF AgentSteps
  <2> QED
    BY <1>2, <2>1, <2>2 DEF SessionFirst, SessionParts, Ready, Undispatched, Concluded
<1>8. CASE Handlers
  <2> PICK q \in requests : HandlesDelegate(q) \/ HandlesDecision(q) \/ HandlesRework(q)
               \/ Refuses(q) \/ FlagsStop(q) \/ Unasked(q) \/ AsksAgent(q)
               \/ AgentAnswers(q) \/ HandlerDropped(q) \/ CallTimesOut(q)
    BY <1>8 DEF Handlers
  <2>1. UNCHANGED <<work, exports, runs>>
    BY HandlersKeep
  <2>2. /\ row'.bound = row.bound /\ row'.runtime = row.runtime
        /\ row'.state = "dispatching" => row.state = "dispatching"
        /\ row.state \in {"cancelled", "settled"} => row'.state \in {"cancelled", "settled"}
        /\ \/ row'.state \in {"queued", "preparing"}
           \/ ~Undispatched \/ lock = "free" \/ q.what = "decision"
    <3>1. row \in [state : RowStates, bound : BOOLEAN, runtime : BOOLEAN,
                   stop : {"no", "asked", "sent"}, decided : BOOLEAN]
      BY <1>1 DEF ControlTypes
    <3>2. \/ UNCHANGED row
          \/ row.state = "none" /\ row' = [row EXCEPT !.state = "queued"]
          \/ q.what = "decision" /\ row' = Settled
          \/ row.state # "none" /\ row' = [row EXCEPT !.stop = "asked"]
          \/ Undispatched /\ lock = "free" /\ row' = [row EXCEPT !.state = "cancelled"]
      BY HandlersKeepRow
    <3>3. CASE q.what = "decision" /\ row' = Settled
      <4>1. row'.state = "settled" /\ row'.bound = row.bound /\ row'.runtime = row.runtime
        BY <3>1, <3>3 DEF Settled
      <4> QED
        BY <3>3, <4>1
    <3> QED
      BY <3>1, <3>2, <3>3 DEF Undispatched
  <2>3. agent'.unread # {} => row.bound
    <3>1. CASE HandlesRework(q)
      BY <3>1 DEF HandlesRework, SessionFirst
    <3>2. CASE AsksAgent(q)
      BY <1>1, <3>2 DEF AsksAgent, AskTurnToEnd, SessionFirst, ControlTypes
    <3>3. ASSUME ~HandlesRework(q), ~AsksAgent(q)
          PROVE  UNCHANGED agent
      BY <3>3, Zenon DEF agentVars, HandlesDelegate, HandlesDecision, Refuses, FlagsStop,
         Unasked, AgentAnswers, HandlerDropped, CallTimesOut
    <3> QED
      BY <3>1, <3>2, <3>3 DEF SessionFirst
  <2>4. \A p \in requests' : p.stage = "asked" => row.bound
    <3>1. HandlerRequests(q)
      BY HandlersMove
    <3> QED
      BY <3>1, AskedStay DEF SessionFirst, AsksAgent
  <2>5. work.pc = "bind" => lock = "worker"
    BY DEF LockHeld, UnderLock
  <2>6. q.what = "decision" => Ready
    BY <1>2 DEF Concluded
  <2>7. SessionParts'
    BY <1>2, <2>1, <2>2, <2>3, <2>5, <2>6 DEF SessionParts, Undispatched, Ready, BeforeGoal
  <2>8. Ready => Ready'
    BY <2>1, <2>2 DEF Ready
  <2>9. CASE Unasked(q) /\ row'.state = "cancelled"
    <3>1. work.pc \notin BeforeGoal
      BY <2>9 DEF Unasked, LockHeld, BeforeGoal, UnderLock
    <3>2. Ready'
      BY <2>1, <2>9, <3>1 DEF Ready
    <3> QED
      BY <2>1, <2>2, <2>4, <2>7, <3>2 DEF SessionFirst
  <2>10. CASE AgentAnswers(q)
    <3>1. row.bound
      BY <2>10 DEF AgentAnswers, SessionFirst
    <3>2. Ready'
      BY <2>2, <3>1 DEF Ready
    <3> QED
      BY <2>1, <2>2, <2>4, <2>7, <3>2 DEF SessionFirst
  <2>11. CASE ~(Unasked(q) /\ row'.state = "cancelled") /\ ~AgentAnswers(q)
    <3>1. Concluded' => Concluded
      BY <2>11, HandlersConclude
    <3> QED
      BY <1>2, <2>1, <2>2, <2>4, <2>7, <2>8, <3>1 DEF SessionFirst
  <2> QED
    BY <2>9, <2>10, <2>11
<1> QED
  BY <1>5, <1>6, <1>7, <1>8 DEF Next

-----------------------------------------------------------------------------
(* What the owner believes.                                                 *)

\* The executor keeps its row, its decision and the reworks it accepted.
LEMMA ExecutorRemembers ==
    ASSUME Types, RowHonest, Next
    PROVE  /\ row.state # "none" => row'.state # "none"
           /\ row.decided => row'.decided
           /\ reworked \subseteq reworked'
<1>1. ControlTypes
  BY DEF Types, ExecutorTypes, ControlTypes
<1>2. CASE Worker
  BY <1>1, <1>2, WorkerKeeps, WorkerKeepsRow
<1>3. CASE Owner
  BY <1>3, OwnerKeeps
<1>4. CASE AgentSteps
  BY <1>4, AgentKeeps
<1>5. CASE Handlers
  <2> PICK q \in requests : HandlesDelegate(q) \/ HandlesDecision(q) \/ HandlesRework(q)
               \/ Refuses(q) \/ FlagsStop(q) \/ Unasked(q) \/ AsksAgent(q)
               \/ AgentAnswers(q) \/ HandlerDropped(q) \/ CallTimesOut(q)
    BY <1>5 DEF Handlers
  <2>1. (row.state # "none" => row'.state # "none") /\ (row.decided => row'.decided)
    BY <1>1, HandlersKeepRow DEF ControlTypes, Settled
  <2>2. CASE HandlesRework(q)
    BY <2>1, <2>2 DEF HandlesRework, AcceptRework
  <2>3. ASSUME ~HandlesRework(q)
        PROVE  UNCHANGED reworked
    BY <2>3, Zenon DEF ghosts, HandlesDelegate, HandlesDecision, Refuses, FlagsStop, Unasked,
       AsksAgent, AgentAnswers, HandlerDropped, CallTimesOut
  <2> QED
    BY <2>1, <2>2, <2>3
<1> QED
  BY <1>2, <1>3, <1>4, <1>5 DEF Next

\* What an answer says of the executor is so.
LEMMA AnswersAreTrue ==
    ASSUME Types, LockHeld, ReceiptHonest, NEW q \in requests,
           HandlesDelegate(q) \/ HandlesDecision(q) \/ HandlesRework(q)
               \/ Refuses(q) \/ FlagsStop(q) \/ Unasked(q) \/ AsksAgent(q)
               \/ AgentAnswers(q) \/ HandlerDropped(q) \/ CallTimesOut(q)
    PROVE  \/ UNCHANGED <<link, rework, pass>>
           \/ PassFails /\ UNCHANGED rework
           \/ /\ \E c \in BOOLEAN : Answered(q, c)
              /\ q.what = "delegate" => row'.state # "none"
              /\ q.what = "decision" => row'.decided
              /\ q.what = "rework" => q.rework \in reworked'
<1>1. ControlTypes
  BY DEF Types, ExecutorTypes, ControlTypes
<1>2. CASE HandlesDelegate(q)
  <2>1. row'.state # "none" /\ q.what = "delegate"
    BY <1>1, <1>2 DEF HandlesDelegate, ControlTypes
  <2> QED
    BY <2>1, HandlersAnswer
<1>3. CASE HandlesDecision(q)
  <2>1. row'.decided /\ q.what = "decision"
    BY <1>1, <1>3 DEF HandlesDecision, Settled, ControlTypes
  <2> QED
    BY <2>1, HandlersAnswer
<1>4. CASE HandlesRework(q)
  <2>1. q.rework \in reworked' /\ q.what = "rework"
    <3>1. q.what = "rework" /\ AcceptRework(q.rework)
      BY <1>4 DEF HandlesRework
    <3>2. q.rework \in Reworks /\ q.rework # Goal
      BY <3>1, BoundsAssumption DEF LockHeld, Goal, Reworks
    <3>3. q.rework \in agent.receipt => q.rework \in reworked
      BY <3>2 DEF ReceiptHonest
    <3> QED
      BY <3>1, <3>3 DEF AcceptRework
  <2> QED
    BY <2>1, HandlersAnswer
<1>5. CASE Unasked(q) \/ AgentAnswers(q)
  <2>1. q.what = "cancel"
    BY <1>5 DEF Unasked, AgentAnswers, LockHeld
  <2> QED
    BY <2>1, HandlersAnswer
<1>6. CASE Refuses(q) \/ HandlerDropped(q)
  <2>1. Refuse(q)
    BY <1>6, Zenon DEF Refuses, HandlerDropped
  <2> QED
    BY <2>1, Zenon DEF Refuse
<1>7. CASE FlagsStop(q) \/ AsksAgent(q)
  BY <1>7 DEF FlagsStop, AsksAgent, ownerVars
<1>8. CASE CallTimesOut(q)
  BY <1>8, Zenon DEF CallTimesOut
<1> QED
  BY <1>2, <1>3, <1>4, <1>5, <1>6, <1>7, <1>8

\* The owner applies the next event of the journal, or none.
LEMMA ApplyingImports ==
    ASSUME Types, FeedHonest, Applies
    PROVE  \/ UNCHANGED link
           \/ /\ link.cursor + 1 \in 1 .. Len(exports) /\ Body(link.cursor + 1) \in BodyType
              /\ Import(Body(link.cursor + 1))
<1>1. CASE InOrder(Head(feed.pages))
  <2>1. /\ feed.pages[1].from = link.cursor + 1 /\ Head(feed.pages) = feed.pages[1]
        /\ feed.pages[1].from \in 1 .. Len(exports)
        /\ exports[feed.pages[1].from].body \in BodyType
    BY <1>1, HeadPage
  <2>2. Import(exports[Head(feed.pages).from].body)
    BY <1>1, Zenon DEF Applies
  <2> QED
    BY <2>1, <2>2 DEF Body
<1>2. CASE ~InOrder(Head(feed.pages))
  BY <1>2, Zenon DEF Applies
<1> QED
  BY <1>1, <1>2

\* The row of the owner, but for what it knows of the run.
RowBeliefs ==
    /\ link.state \notin {"none", "queued"} \/ pass.read \notin {"none", "queued"} =>
          row.state # "none"
    /\ link.task = "cancelled" => link.decision # "none"
    /\ link.decision = "sent" => row.decided
    /\ \A r \in Reworks : rework[r] = "delivered" => r \in reworked

LEMMA RowBeliefsOfOwner ==
    ASSUME Types, RowHonest, FeedHonest, RowBeliefs, Owner
    PROVE  RowBeliefs'
<1>1. CallTypes /\ UNCHANGED <<row, reworked>>
  BY OwnerKeeps DEF Types, OwnerTypes, CallTypes
<1> USE DEF CallTypes, RowBeliefs, ownerVars
<1>2. CASE Delegate
  BY <1>1, <1>2 DEF Delegate
<1>3. CASE Stop
  BY <1>1, <1>3 DEF Stop
<1>4. CASE Decide
  BY <1>1, <1>4 DEF Decide
<1>5. ASSUME NEW r \in Reworks, QueueRework(r)
      PROVE  RowBeliefs'
  BY <1>1, <1>5 DEF QueueRework
<1>6. CASE PassStarts
  BY <1>1, <1>6 DEF PassStarts
<1>7. CASE CallsStop
  BY <1>1, <1>7 DEF CallsStop
<1>8. CASE MarksStopped
  BY <1>1, <1>8 DEF MarksStopped
<1>9. CASE CallsDecision
  BY <1>1, <1>9 DEF CallsDecision
<1>10. CASE CallsRework
  BY <1>1, <1>10 DEF CallsRework
<1>11. CASE PassEnds
  BY <1>1, <1>11 DEF PassEnds, Idle
<1>12. CASE OwnerRestarts
  BY <1>1, <1>12 DEF OwnerRestarts, Idle
<1>13. CASE FeedReads
  BY <1>1, <1>13 DEF FeedReads
<1>14. CASE ApplyFails
  BY <1>1, <1>14 DEF ApplyFails
<1>15. CASE FeedBreaks
  BY <1>1, <1>15 DEF FeedBreaks
<1>16. CASE Applies
  <2>1. UNCHANGED <<rework, pass>>
    BY <1>16 DEF Applies
  <2>2. CASE UNCHANGED link
    BY <1>1, <2>1, <2>2
  <2>3. ASSUME link.cursor + 1 \in 1 .. Len(exports), Import(Body(link.cursor + 1))
        PROVE  RowBeliefs'
    <3>1. row.state # "none"
      <4>1. Len(exports) \in Nat /\ link.cursor \in Nat
        BY FeedShape
      <4>2. exports # <<>>
        BY <2>3, <4>1
      <4> QED
        BY <4>2 DEF RowHonest
    <3>2. link'.task = link.task /\ link'.decision = link.decision
      BY <1>1, <2>3 DEF Import
    <3> QED
      BY <1>1, <2>1, <3>1, <3>2
  <2> QED
    BY <1>16, <2>2, <2>3, ApplyingImports
<1> QED
  BY <1>2, <1>3, <1>4, <1>5, <1>6, <1>7, <1>8, <1>9, <1>10, <1>11, <1>12, <1>13, <1>14, <1>15,
     <1>16 DEF Owner

LEMMA RowBeliefsKept ==
    ASSUME Types, LockHeld, ReceiptHonest, RowHonest, FeedHonest, RowBeliefs, Next
    PROVE  RowBeliefs'
<1>1. /\ CallTypes
      /\ row.state # "none" => row'.state # "none"
      /\ row.decided => row'.decided /\ reworked \subseteq reworked'
  BY ExecutorRemembers DEF Types, OwnerTypes, CallTypes
<1>2. CASE Owner
  BY <1>2, RowBeliefsOfOwner
<1>3. ASSUME PassFails, UNCHANGED rework
      PROVE  RowBeliefs'
  BY <1>1, <1>3, ExecutorRemembers DEF PassFails, WrittenBack, Idle, CallTypes, RowBeliefs
<1>4. ASSUME UNCHANGED <<link, rework, pass>>
      PROVE  RowBeliefs'
  BY <1>1, <1>4, ExecutorRemembers DEF RowBeliefs
<1>5. CASE Worker
  BY <1>3, <1>4, <1>5, WorkerKeeps DEF ExecutorRestarts
<1>6. CASE AgentSteps
  BY <1>4, <1>6, AgentKeeps
<1>7. CASE Handlers
  <2> PICK q \in requests : HandlesDelegate(q) \/ HandlesDecision(q) \/ HandlesRework(q)
               \/ Refuses(q) \/ FlagsStop(q) \/ Unasked(q) \/ AsksAgent(q)
               \/ AgentAnswers(q) \/ HandlerDropped(q) \/ CallTimesOut(q)
    BY <1>7 DEF Handlers
  <2>1. ASSUME NEW c \in BOOLEAN, Answered(q, c), q.what = "delegate" => row'.state # "none",
               q.what = "decision" => row'.decided, q.what = "rework" => q.rework \in reworked'
        PROVE  RowBeliefs'
    <3> CallTypes
      BY <1>1
    <3> USE DEF CallTypes, RowBeliefs
    <3>1. q \in RequestType /\ (q.what = "rework" => q.rework \in Reworks)
      BY DEF Types, ExecutorTypes, LockHeld
    <3>2. CASE q.what = "delegate"
      BY <2>1, <3>2, ExecutorRemembers DEF Answered, Delegated
    <3>3. CASE q.what = "cancel"
      BY <2>1, <3>3, ExecutorRemembers DEF Answered
    <3>4. CASE q.what = "decision"
      BY <2>1, <3>4, ExecutorRemembers DEF Answered
    <3>5. CASE q.what = "rework"
      <4>1. UNCHANGED <<link, pass>> /\ rework' = [rework EXCEPT ![q.rework] = "delivered"]
        BY <2>1, <3>5 DEF Answered
      <4>2. \A r \in Reworks : rework'[r] = "delivered" => r \in reworked'
        BY <2>1, <3>1, <3>5, <4>1, ExecutorRemembers
      <4> QED
        BY <4>1, <4>2, ExecutorRemembers
    <3> QED
      BY <3>1, <3>2, <3>3, <3>4, <3>5 DEF RequestType
  <2> QED
    BY <1>3, <1>4, <2>1, AnswersAreTrue
<1> QED
  BY <1>2, <1>5, <1>6, <1>7 DEF Next

\* Without an event the owner's news of the run stays, or is replaced by the stop.
LEMMA RemoteKept ==
    ASSUME Types, Next, ~Applies
    PROVE  link'.remote \in {link.remote, "cancelled"}
<1>1. CallTypes
  BY DEF Types, OwnerTypes, CallTypes
<1> USE DEF CallTypes
<1>2. ASSUME PassFails
      PROVE  link'.remote = link.remote
  BY <1>1, <1>2 DEF PassFails, WrittenBack
<1>3. CASE Owner
  <2>1. CASE Delegate
    BY <1>1, <2>1 DEF Delegate
  <2>2. CASE Stop
    BY <1>1, <2>2 DEF Stop
  <2>3. CASE Decide
    BY <1>1, <2>3 DEF Decide
  <2>4. CASE MarksStopped
    BY <1>1, <2>4 DEF MarksStopped
  <2>5. ASSUME ~Delegate, ~Stop, ~Decide, ~MarksStopped
        PROVE  UNCHANGED link
    BY <1>3, <2>5, Zenon DEF Owner, ownerVars, QueueRework, PassStarts, CallsStop,
       CallsDecision, CallsRework, PassEnds, OwnerRestarts, FeedReads, ApplyFails, FeedBreaks
  <2> QED
    BY <2>1, <2>2, <2>3, <2>4, <2>5
<1>4. CASE Handlers
  <2> PICK q \in requests : HandlesDelegate(q) \/ HandlesDecision(q) \/ HandlesRework(q)
               \/ Refuses(q) \/ FlagsStop(q) \/ Unasked(q) \/ AsksAgent(q)
               \/ AgentAnswers(q) \/ HandlerDropped(q) \/ CallTimesOut(q)
    BY <1>4 DEF Handlers
  <2>1. ASSUME NEW c \in BOOLEAN, Answered(q, c)
        PROVE  link'.remote = link.remote
    <3>1. link' \in {link, Delegated, [link EXCEPT !.stop = "sent"], [link EXCEPT !.decision = "sent"]}
      BY <2>1 DEF Answered
    <3> QED
      BY <1>1, <3>1 DEF Delegated
  <2> QED
    BY <1>2, <2>1, HandlersAnswer
<1>5. CASE Worker
  <2>1. CASE ExecutorRestarts
    BY <1>2, <2>1 DEF ExecutorRestarts
  <2>2. CASE ~ExecutorRestarts
    BY <1>5, <2>2, WorkerKeeps
  <2> QED
    BY <2>1, <2>2
<1>6. CASE AgentSteps
  BY <1>6, AgentKeeps
<1> QED
  BY <1>3, <1>4, <1>5, <1>6 DEF Next

LEMMA RemoteHonestKept ==
    ASSUME Types, FeedHonest, RemoteHonest, Next
    PROVE  RemoteHonest'
<1> DEFINE c == link.cursor
<1>1. /\ c \in Nat /\ Len(exports) \in Nat /\ c <= Len(exports)
      /\ \A i \in 1 .. Len(exports) : Body(i)' = Body(i)
  <2>1. JournalKept
    BY JournalGrows DEF Types
  <2> QED
    BY <2>1, FeedShape, OldBodies DEF FeedHonest
<1>2. \A i \in 1 .. c : i \in 1 .. Len(exports)
  BY <1>1
<1>3. CASE link'.cursor = c /\ link'.remote \in {link.remote, "cancelled"}
  <2>1. CASE link'.remote = "cancelled"
    BY <2>1 DEF RemoteHonest
  <2>2. CASE link'.remote = link.remote
    <3>1. CASE link.remote \in {"cancelled", "unknown"}
      BY <2>2, <3>1 DEF RemoteHonest
    <3>2. CASE link.remote = "queued" /\ \A i \in 1 .. c : Body(i).kind # "run"
      <4>1. \A i \in 1 .. link'.cursor : Body(i)'.kind # "run"
        BY <1>1, <1>2, <1>3, <3>2
      <4> QED
        BY <2>2, <3>2, <4>1 DEF RemoteHonest
    <3>3. ASSUME NEW k \in 1 .. c, LastRun(k)
          PROVE  RemoteHonest'
      <4>1. Body(k)' = Body(k) /\ \A i \in k + 1 .. c : Body(i)' = Body(i)
        BY <1>1, <1>2
      <4>2. LastRun(k)'
        BY <1>3, <2>2, <3>3, <4>1 DEF LastRun
      <4> QED
        BY <1>3, <4>2 DEF RemoteHonest
    <3> QED
      BY <3>1, <3>2, <3>3 DEF RemoteHonest
  <2> QED
    BY <1>3, <2>1, <2>2
<1>4. ASSUME UNCHANGED exports, c + 1 \in 1 .. Len(exports), Body(c + 1) \in BodyType, Import(Body(c + 1))
      PROVE  RemoteHonest'
  <2> DEFINE b == Body(c + 1)
  <2>1. /\ link'.cursor = c + 1
        /\ b.kind = "run" => link'.remote = b.status
        /\ b.kind = "attention" => link'.remote = "unknown"
        /\ b.kind \notin {"run", "attention"} => link'.remote = link.remote
    <3>1. CallTypes
      BY DEF Types, OwnerTypes, CallTypes
    <3> QED
      BY <1>4, <3>1 DEF Import, CallTypes
  <2>2. \A i : Body(i)' = Body(i)
    BY <1>4 DEF Body
  <2> HIDE DEF b
  <2>3. CASE b.kind = "run"
    <3> SUFFICES ASSUME NEW k \in Nat, k = c + 1
                 PROVE  RemoteHonest'
      BY <1>1
    <3>1. Body(k)' = b /\ link'.remote = b.status /\ \A i \in k + 1 .. link'.cursor : FALSE
      BY <1>1, <2>1, <2>2, <2>3 DEF b
    <3>2. LastRun(k)'
      BY <2>1, <2>3, <3>1 DEF LastRun
    <3>3. k \in 1 .. link'.cursor
      BY <1>1, <2>1
    <3> QED
      BY <3>2, <3>3 DEF RemoteHonest
  <2>4. CASE b.kind = "attention"
    BY <2>1, <2>4 DEF RemoteHonest
  <2>5. CASE b.kind \notin {"run", "attention"}
    <3>1. \A i \in 1 .. c + 1 : i \in 1 .. c \/ (i = c + 1 /\ Body(i).kind # "run")
      BY <1>1, <2>5 DEF b
    <3>2. CASE link.remote \in {"cancelled", "unknown"}
      BY <2>1, <2>5, <3>2 DEF RemoteHonest
    <3>3. CASE link.remote = "queued" /\ \A i \in 1 .. c : Body(i).kind # "run"
      <4>1. \A i \in 1 .. link'.cursor : Body(i)'.kind # "run"
        BY <2>1, <2>2, <3>1, <3>3
      <4> QED
        BY <2>1, <2>5, <3>3, <4>1 DEF RemoteHonest
    <3>4. ASSUME NEW k \in 1 .. c, LastRun(k)
          PROVE  RemoteHonest'
      <4>1. \A i \in k + 1 .. c + 1 : i \in k + 1 .. c \/ Body(i).kind # "run"
        BY <1>1, <2>5 DEF b
      <4>2. LastRun(k)'
        BY <2>1, <2>2, <2>5, <3>4, <4>1 DEF LastRun
      <4>3. k \in 1 .. link'.cursor
        BY <1>1, <2>1
      <4> QED
        BY <4>2, <4>3 DEF RemoteHonest
    <3> QED
      BY <3>2, <3>3, <3>4 DEF RemoteHonest
  <2> QED
    BY <2>3, <2>4, <2>5
<1>5. CASE Applies
  <2>1. UNCHANGED exports
    BY <1>5 DEF Applies, executorVars
  <2> QED
    BY <1>3, <1>4, <1>5, <2>1, ApplyingImports
<1>6. CASE ~Applies
  BY <1>3, <1>6, CursorKept, RemoteKept
<1> QED
  BY <1>5, <1>6

-----------------------------------------------------------------------------
(* The theorems.                                                            *)

LEMMA InitMesh ==
    ASSUME Init
    PROVE  MeshInvariant
<1>1. Types
  <2>1. <<>> \in Seq(BodyType) /\ <<>> \in Seq([body : BodyType, ready : BOOLEAN])
        /\ <<>> \in Seq(RunStates) /\ <<>> \in Seq(Nat) /\ <<>> \in Seq([from : Nat, to : Nat])
    BY EmptySeq
  <2>2. kind \in {"workspace", "worker"}
    BY BoundsAssumption DEF Init
  <2>3. OwnerTypes
    BY <2>1, <2>2 DEF Init, OwnerTypes, LinkStates, RunStates, Idle, NoFeed
  <2>4. ExecutorTypes
    BY <2>1 DEF Init, ExecutorTypes, RowStates, Resting
  <2> QED
    BY <2>3, <2>4 DEF Types
<1>2. LockHeld
  BY DEF Init, LockHeld, Resting, UnderLock
<1>3. GoalSafe
  BY DEF Init, GoalSafe, GoalGivenOnce, ReceiptHonest, RowHonest, AgentHonest, GoalBarred, WorkspaceStops,
     StopMeansStopped, Resting, AroundGoal, ToDispatch
<1>4. Len(exports) = 0 /\ DOMAIN exports = {} /\ Len(feed.pages) = 0 /\ DOMAIN feed.pages = {}
      /\ feed.resumed = 0 /\ feed.sent = 0 /\ link.cursor = 0
  BY EmptySeq DEF Init, NoFeed
<1>5. JournalSafe
  <2>1. FeedHonest
    BY <1>4 DEF FeedHonest, FollowsOn
  <2>2. 1 .. link.cursor = {}
    BY <1>4
  <2>3. imported = <<>>
    BY DEF Init
  <2>4. JournalIsReplicated
    BY <2>2, <2>3 DEF JournalIsReplicated
  <2> QED
    BY <2>1, <2>4 DEF JournalSafe
<1>6. ExportsOrdered
  <2>1. DOMAIN runs = {} /\ agent.state = "idle"
    BY DEF Init
  <2> QED
    BY <1>4, <2>1 DEF ExportsOrdered, OneRun, FilesFirstIn, RunsLastIn, RunsInOrder
<1>7. SessionFirst
  BY DEF Init, SessionFirst, Concluded, Resting, Idle, AroundGoal, Ended
<1>8. BeliefsHonest
  <2>1. RemoteHonest
    BY <1>4 DEF Init, RemoteHonest
  <2> QED
    BY <2>1 DEF Init, BeliefsHonest, Idle
<1> QED
  BY <1>1, <1>2, <1>3, <1>5, <1>6, <1>7, <1>8 DEF MeshInvariant

LEMMA StutterKeeps ==
    ASSUME MeshInvariant, UNCHANGED vars
    PROVE  MeshInvariant'
<1>1. UNCHANGED <<kind, link, rework, pass, feed, imported, row, lock, work, exports, requests,
                  agent, runs, results, goals, reworked, stopped>>
  BY DEF vars, ownerVars, executorVars, agentVars, ghosts
<1>2. Types' /\ LockHeld'
  BY <1>1 DEF MeshInvariant, Types, OwnerTypes, ExecutorTypes, LockHeld
<1>3. GoalSafe'
  BY <1>1 DEF MeshInvariant, GoalSafe, GoalGivenOnce, ReceiptHonest, RowHonest, AgentHonest, GoalBarred,
     WorkspaceStops, StopMeansStopped
<1>4. JournalSafe'
  BY <1>1 DEF MeshInvariant, JournalSafe, FeedHonest, JournalIsReplicated, PageHonest, FollowsOn
<1>5. ExportsOrdered'
  BY <1>1 DEF MeshInvariant, ExportsOrdered, OneRun, FilesFirstIn, RunsLastIn, RunsInOrder,
     ExportedBefore, Body, Bodies
<1>6. SessionFirst'
  BY <1>1 DEF MeshInvariant, SessionFirst, Concluded, Undispatched
<1>7. BeliefsHonest'
  BY <1>1 DEF MeshInvariant, BeliefsHonest, RemoteHonest, LastRun, Body
<1> QED
  BY <1>2, <1>3, <1>4, <1>5, <1>6, <1>7 DEF MeshInvariant

LEMMA NextKeeps ==
    ASSUME MeshInvariant, Next
    PROVE  MeshInvariant'
<1>1. /\ Types /\ LockHeld /\ GoalSafe /\ JournalSafe /\ ExportsOrdered /\ SessionFirst
      /\ ReceiptHonest /\ RowHonest /\ FeedHonest /\ OneRun /\ RowBeliefs /\ RemoteHonest
  BY DEF MeshInvariant, GoalSafe, JournalSafe, ExportsOrdered, BeliefsHonest, RowBeliefs
<1>2. Types'
  BY <1>1, OwnerTypesKept, ExecutorTypesKept DEF Types
<1>3. LockHeld' /\ GoalSafe' /\ JournalSafe' /\ ExportsOrdered' /\ SessionFirst'
  BY <1>1, LockHeldKept, GoalSafeKept, JournalSafeKept, ExportsOrderedKept, SessionFirstKept
<1>4. BeliefsHonest'
  <2>1. RowBeliefs' /\ RemoteHonest'
    BY <1>1, RowBeliefsKept, RemoteHonestKept
  <2> QED
    BY <2>1 DEF RowBeliefs, BeliefsHonest
<1> QED
  BY <1>2, <1>3, <1>4 DEF MeshInvariant

\* The invariant behind the theorems: the lock, the worker's place and the row agree, the
\* pages of the subscription follow the cursor, the journal is in order, and what the owner
\* believes is so, in every reachable state (execute_assignment, cancel_executor,
\* mesh_capture, mesh_import).
THEOREM MeshInvariantHolds == Spec => []MeshInvariant
<1>1. Init => MeshInvariant
  BY InitMesh
<1>2. MeshInvariant /\ [Next]_vars => MeshInvariant'
  BY NextKeeps, StutterKeeps
<1> QED
  BY <1>1, <1>2, PTL DEF Spec

\* However often the delegation is sent again, and wherever the executor's station stops
\* and recovers, a workspace's agent accepts the goal once, and a Worker's a second time
\* only if a rework replaced its receipt (mesh_recover_dispatch, append_mailbox_id).
THEOREM TheGoalIsGivenOnce == Spec => []GoalGivenOnce
<1>1. MeshInvariant => GoalGivenOnce
  BY DEF MeshInvariant, GoalSafe
<1> QED
  BY <1>1, MeshInvariantHolds, PTL

\* Once the executor has answered that a workspace's task is stopped, its agent neither has
\* the goal nor gets it from a worker that was preparing it (cancel_executor).
THEOREM AStoppedWorkspaceStays == Spec => []WorkspaceStops
<1>1. MeshInvariant => WorkspaceStops
  BY DEF MeshInvariant, GoalSafe
<1> QED
  BY <1>1, MeshInvariantHolds, PTL

\* What the owner has recorded is the executor's journal up to its cursor, nothing twice,
\* nothing skipped and nothing unpublished, through lost pages, reconnections and restarts
\* of both stations (mesh_import, mesh_subscribe).
THEOREM TheJournalIsReplicated == Spec => []JournalIsReplicated
<1>1. MeshInvariant => JournalIsReplicated
  BY DEF MeshInvariant, JournalSafe
<1> QED
  BY <1>1, MeshInvariantHolds, PTL

LEMMA ImportedEvents ==
    ASSUME MeshInvariant
    PROVE  /\ DOMAIN imported = 1 .. link.cursor
           /\ \A i \in 1 .. link.cursor : imported[i] = Body(i) /\ i \in DOMAIN exports
<1>1. JournalIsReplicated /\ link.cursor <= Len(exports) /\ Types
  BY DEF MeshInvariant, JournalSafe, FeedHonest
<1>2. link.cursor \in Nat /\ Len(exports) \in Nat /\ DOMAIN exports = 1 .. Len(exports)
  BY <1>1, FeedShape
<1>3. \A i \in 1 .. link.cursor : i \in DOMAIN exports
  BY <1>1, <1>2
<1> QED
  BY <1>1, <1>3 DEF JournalIsReplicated, Body

\* The owner has a file before the message that names it, and both before it hears that
\* their run has ended, in whatever order pages are lost and read again (mesh_capture).
THEOREM ResultsComeFirst == Spec => []ResultsPrecedeTheEnd
<1>1. MeshInvariant => ResultsPrecedeTheEnd
  <2> SUFFICES ASSUME MeshInvariant, NEW i \in DOMAIN imported
               PROVE  /\ imported[i].kind = "message" =>
                            File(imported[i].n) \in {imported[j] : j \in 1 .. i}
                      /\ imported[i].kind = "run" /\ imported[i].status # "running" =>
                            \A n \in DOMAIN results : results[n] = imported[i].n =>
                                Message(n) \in {imported[j] : j \in 1 .. i}
    BY DEF ResultsPrecedeTheEnd
  <2>1. i \in 1 .. link.cursor /\ i \in DOMAIN exports /\ imported[i] = Body(i)
    BY ImportedEvents
  <2>2. ASSUME NEW body, ExportedBefore(i, body)
        PROVE  body \in {imported[j] : j \in 1 .. i}
    <3>1. PICK j \in 1 .. i - 1 : exports[j].body = body
      BY <2>2 DEF ExportedBefore
    <3>2. link.cursor \in Nat
      BY FeedShape DEF MeshInvariant
    <3>3. j \in 1 .. link.cursor /\ j \in 1 .. i
      BY <2>1, <3>2
    <3>4. imported[j] = body
      BY <3>1, <3>3, ImportedEvents DEF Body
    <3> QED
      BY <3>3, <3>4
  <2>3. /\ Body(i).kind = "message" => ExportedBefore(i, File(Body(i).n))
        /\ Body(i).kind = "run" /\ Body(i).status # "running" =>
              \A m \in DOMAIN results : results[m] = Body(i).n => ExportedBefore(i, Message(m))
    BY <2>1 DEF MeshInvariant, ExportsOrdered, FilesFirstIn, RunsLastIn
  <2> QED
    BY <2>1, <2>2, <2>3
<1> QED
  BY <1>1, MeshInvariantHolds, PTL

\* At rest the owner has read the whole journal, and the journal is complete.
LEMMA RestMeansCaughtUp ==
    ASSUME MeshInvariant, AtRest
    PROVE  /\ link.cursor = Len(exports) /\ Len(imported) = Len(exports)
           /\ Uncaptured = <<>>
           /\ row.bound => \A i \in DOMAIN Records : Records[i] \in Bodies
<1>1. /\ Types /\ FeedHonest /\ feed.pages = <<>> /\ feed.sent = Len(exports) /\ Uncaptured = <<>>
  BY DEF MeshInvariant, JournalSafe, AtRest, ExecutorHasWork
<1>2. link.cursor \in Nat /\ Len(exports) \in Nat /\ Len(feed.pages) = 0
  BY <1>1, FeedShape
<1>3. feed.sent <= link.cursor \/ \E j \in 1 .. 0 : feed.sent <= feed.pages[j].to
  BY <1>1, <1>2 DEF FeedHonest, FollowsOn
<1>4. link.cursor = Len(exports)
  BY <1>1, <1>2, <1>3 DEF FeedHonest
<1>5. Len(imported) = link.cursor
  <2>1. imported \in Seq(BodyType) /\ DOMAIN imported = 1 .. link.cursor
    BY <1>1, ImportedEvents DEF Types, OwnerTypes
  <2> QED
    BY <1>2, <2>1, LenProperties
<1>6. ASSUME row.bound
      PROVE  \A i \in DOMAIN Records : Records[i] \in Bodies
  <2>1. Missing \in SUBSET Nat /\ IsFiniteSet(Missing) /\ Len(Uncaptured) = Cardinality(Missing)
    BY <1>1, <1>6, UncapturedProperties DEF Types
  <2>2. Cardinality(Missing) = 0
    BY <1>1, <2>1
  <2>3. Missing = {}
    BY <2>1, <2>2, FS_EmptySet
  <2> QED
    BY <2>3 DEF Missing
<1> QED
  BY <1>1, <1>4, <1>5, <1>6

LEMMA RestHasTheLastWord ==
    ASSUME MeshInvariant, AtRest
    PROVE  LastWord
<1> DEFINE T == Len(runs)
<1>1. /\ Types /\ RemoteHonest /\ RunsLastIn /\ RunsInOrder /\ SessionFirst
  BY DEF MeshInvariant, ExportsOrdered, BeliefsHonest
<1>2. /\ link.cursor = Len(exports) /\ Len(exports) \in Nat /\ DOMAIN exports = 1 .. Len(exports)
      /\ T \in Nat /\ DOMAIN runs = 1 .. T /\ runs \in Seq(RunStates)
      /\ row.bound => \A i \in DOMAIN Records : Records[i] \in Bodies
  BY <1>1, FeedShape, RecordsShape, RestMeansCaughtUp DEF Types, ExecutorTypes
<1>3. ASSUME NEW k \in 1 .. link.cursor, LastRun(k)
      PROVE  /\ Body(k).kind = "run" /\ Body(k).status = link.remote
             /\ Body(k).n \in 1 .. T /\ Body(k).status \in {"running", runs[Body(k).n]}
             /\ \A i \in k + 1 .. link.cursor : Body(i).kind # "run"
  BY <1>1, <1>2, <1>3 DEF LastRun, RunsLastIn
<1>4. CASE runs = <<>>
  <2>1. T = 0
    BY <1>4
  <2>2. ASSUME NEW k \in 1 .. link.cursor, LastRun(k)
        PROVE  FALSE
    BY <1>2, <1>3, <2>1, <2>2
  <2> QED
    BY <1>1, <1>4, <2>2 DEF RemoteHonest, LastWord
<1>5. CASE runs # <<>>
  <2>1. T \in 1 .. T
    BY <1>2, <1>5, EmptySeq
  <2>2. row.bound
    BY <1>1, <1>5 DEF SessionFirst
  <2>3. Run(T, runs[T]) \in Bodies
    <3>1. /\ Records \in Seq(BodyType) /\ Len(Records) = 2 * Len(results) + T /\ Len(results) \in Nat
          /\ Records[2 * Len(results) + T] = Run(T, runs[T])
      BY <1>1, <2>1, RecordsInOrder DEF Types
    <3> HIDE DEF T
    <3>2. 2 * Len(results) + T \in DOMAIN Records
      BY <1>2, <2>1, <3>1, LenProperties
    <3> QED
      BY <1>2, <2>2, <3>1, <3>2
  <2>4. PICK p \in 1 .. link.cursor : Body(p) = Run(T, runs[T])
    BY <1>2, <2>3 DEF Bodies, Body
  <2>5. Body(p).kind = "run" /\ Body(p).n = T /\ Body(p).status = runs[T]
    BY <2>4 DEF Run
  <2>6. CASE link.remote \in {"cancelled", "unknown"}
    BY <1>5, <2>6 DEF LastWord
  <2>7. ASSUME NEW k \in 1 .. link.cursor, LastRun(k)
        PROVE  link.remote = runs[T]
    <3>1. p <= k
      <4>1. ASSUME k < p
            PROVE  FALSE
        BY <1>2, <1>3, <2>5, <2>7, <4>1
      <4> QED
        BY <1>2, <4>1
    <3>2. CASE p = k
      BY <1>3, <2>5, <2>7, <3>2
    <3>3. CASE p < k
      <4>1. Later(Body(p), Body(k))
        BY <1>1, <1>2, <1>3, <2>5, <2>7, <3>3 DEF RunsInOrder
      <4>2. T = Body(k).n /\ runs[T] = "running" /\ Body(k).status # "running"
        <5> HIDE DEF T
        <5> QED
          BY <1>2, <1>3, <2>5, <2>7, <4>1 DEF Later
      <4> QED
        BY <1>3, <2>7, <4>2
    <3> QED
      BY <1>2, <3>1, <3>2, <3>3
  <2>8. ~\A i \in 1 .. link.cursor : Body(i).kind # "run"
    BY <2>5
  <2>9. link.remote \in {runs[T], "cancelled", "unknown"}
    BY <1>1, <2>6, <2>7, <2>8 DEF RemoteHonest
  <2> QED
    BY <1>5, <2>9 DEF LastWord, Last
<1> QED
  BY <1>4, <1>5

\* Whatever was lost, asked again or restarted on the way, a task with nothing left to do
\* is done on both sides: the journal is read to its end, the owner knows how the last turn
\* ended, and the decision, the reworks and the goal have arrived.
THEOREM AtRestAllIsDone == Spec => []RestMeansDone
<1>1. MeshInvariant => RestMeansDone
  <2> SUFFICES ASSUME MeshInvariant, AtRest, link.state # "none"
               PROVE  /\ row.state \in {"running", "needs_attention", "cancelled", "settled"}
                      /\ Len(imported) = Len(exports) /\ Uncaptured = <<>>
                      /\ LastWord
                      /\ link.task = "cancelled" => row.decided
                      /\ \A r \in Reworks : rework[r] # "none" => r \in reworked
                      /\ row.state = "running" => goals # 0
    BY DEF RestMeansDone
  <2>1. /\ pass.pc = "idle" /\ work.pc = "idle" /\ ~OwnerHasWork /\ ~ExecutorHasWork
        /\ Types /\ RowHonest /\ BeliefsHonest
    BY DEF AtRest, MeshInvariant, GoalSafe
  <2>2. row.state \in {"running", "needs_attention", "cancelled", "settled"}
    <3>1. row.state \in RowStates
      BY <2>1 DEF Types, ExecutorTypes
    <3>2. row.state # "none"
      BY <2>1 DEF OwnerHasWork, BeliefsHonest
    <3>3. row.state \notin {"queued", "preparing"}
      BY <2>1 DEF ExecutorHasWork, Undispatched
    <3>4. row.state # "dispatching"
      BY <2>1 DEF RowHonest, AroundGoal
    <3> QED
      BY <3>1, <3>2, <3>3, <3>4 DEF RowStates
  <2>3. link.task = "cancelled" => row.decided
    <3>1. link.decision \in {"none", "made", "sent"}
      BY <2>1 DEF Types, OwnerTypes
    <3> QED
      BY <2>1, <3>1 DEF BeliefsHonest, OwnerHasWork
  <2>4. \A r \in Reworks : rework[r] # "none" => r \in reworked
    <3>1. \A r \in Reworks : rework[r] \in {"none", "queued", "delivered"}
      BY <2>1 DEF Types, OwnerTypes
    <3> QED
      BY <2>1, <3>1 DEF BeliefsHonest, OwnerHasWork, Pending
  <2>5. row.state = "running" => goals # 0
    BY <2>1 DEF RowHonest
  <2> QED
    BY <2>2, <2>3, <2>4, <2>5, RestMeansCaughtUp, RestHasTheLastWord
<1> QED
  BY <1>1, MeshInvariantHolds, PTL
=============================================================================
