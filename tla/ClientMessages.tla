--------------------------- MODULE ClientMessages ---------------------------
(* One conversation of a client: the outbox and the pump that delivers it      *)
(* (crates/zork-client-core/src/delivery.rs, store.rs), the messages the       *)
(* client keeps (store/messages.rs) and the readers that extend them (live.rs, *)
(* state/conversation.rs), against a station that accepts posts and publishes  *)
(* them (crates/station/src/http.rs, channels/client.rs).                      *)
(*                                                                             *)
(* A message is its identity: 1 .. MaxSends are the requests of this client,   *)
(* later numbers the messages of others. Positions on the station are places   *)
(* in `posted`; a cursor is the position of the first message of a page, or 0  *)
(* where the history begins. Texts, files, interactions and revocation are     *)
(* left out.                                                                   *)
EXTENDS Naturals, Sequences, FiniteSets, SequencesExt, FiniteSetsExt, Functions

CONSTANTS
    MaxSends,      \* messages the user sends from this client
    MaxOthers,     \* messages of agents and other clients
    Old,           \* how many of those were posted before
    Known,         \* and how many of the last of these the client may hold
    PageLimit,     \* messages of a page
    MaxResends,    \* manual retries of a request
    MaxReads,      \* refreshes and loads of older pages the user asks for
    MaxFaults      \* broken connections, timeouts, restarts

ASSUME BoundsAssumption ==
    /\ {MaxSends, MaxOthers, MaxResends, MaxReads, MaxFaults} \subseteq Nat
    /\ Old \in 0 .. MaxOthers /\ Known \subseteq 1 .. Old
    /\ PageLimit \in Nat \ {0}

Requests == 1 .. MaxSends
Others == MaxSends + 1 .. MaxSends + MaxOthers
Messages == Requests \cup Others

InOutbox == {"queued", "sending", "failed"}
Rows == InOutbox \cup {"unsent", "acknowledged", "withdrawn", "deleted"}

VARIABLES
    \* the station
    posted,        \* the visible messages of the conversation, by sequence
    unpublished,   \* committed, and not yet handed to the live connections
    wire,          \* requests on their way or waiting: <<request, attempt>>
    posting,       \* the request whose handler holds the session's lock, or {}
    overtaken,     \* ghost: a message was published before an earlier one
    \* the client's database
    outbox,        \* the row of each request, or what became of it
    cache,         \* delivered messages by position
    older,         \* cursor of the history before them
    \* the client's tasks
    pump,          \* the batch of a flush and the attempt it waits for
    feed,          \* the live connection
    confirmed,     \* the conversation's anchor
    refresh,       \* a manual refresh
    loading,       \* a load of older messages
    \* ghosts and bounds
    attempts,      \* requests made, by request
    resent,        \* manual retries, by request
    reads, faults

station == <<posted, unpublished, wire, posting, overtaken>>
database == <<outbox, cache, older>>
history == <<cache, older>>
readers == <<feed, confirmed, refresh, loading>>
counters == <<attempts, resent, reads, faults>>
vars == <<station, database, pump, readers, counters>>

-----------------------------------------------------------------------------
(* Pages of the station's history. *)

Newest == 0                               \* no cursor: the last page
PageEnd(cursor) == IF cursor = Newest THEN Len(posted) ELSE cursor - 1
PageStart(cursor) ==
    IF PageEnd(cursor) > PageLimit THEN PageEnd(cursor) - PageLimit + 1 ELSE 1

\* The last messages before the cursor, and the cursor before them.
Page(cursor) ==
    [items |-> SubSeq(posted, PageStart(cursor), PageEnd(cursor)),
     older |-> IF PageStart(cursor) = 1 THEN 0 ELSE PageStart(cursor)]

\* A walk goes from the newest page to the anchor or the beginning. It has the
\* messages read so far and the cursor before them.
At(pc, anchor) == [pc |-> pc, anchor |-> anchor, items |-> <<>>, cursor |-> Newest]
NoWalk == At("off", 0)
ReachesNewest(anchor, page) == TRUE       \* mutant: the newest page is enough
Reaches(anchor, page) ==
    anchor = 0 \/ anchor \in ToSet(page.items) \/ page.older = 0
Walk(task) ==
    LET page == Page(task.cursor)
    IN  [pc |-> IF Reaches(task.anchor, page) THEN "apply" ELSE "walk",
         anchor |-> task.anchor, items |-> page.items \o task.items, cursor |-> page.older]

(* What the client keeps. *)

Held(items) == {i \in DOMAIN items : items[i] \in ToSet(cache)}

\* The page lies over the cached range without a gap.
Fits(items) ==
    Held(items) # {} =>
        LET first == Min(Held(items))
            last  == Max(Held(items))
        IN  /\ first .. last = Held(items)
            /\ first = 1 \/ items[first] = Head(cache)
            /\ last = Len(items) \/ items[last] = Last(cache)

Merged(items, old) ==
    IF Held(items) = {}
    THEN IF old THEN items \o cache ELSE cache \o items
    ELSE SubSeq(items, 1, Min(Held(items)) - 1) \o cache
         \o SubSeq(items, Max(Held(items)) + 1, Len(items))

\* The boundary of the history moves with the head of the range.
MovesBoundary(items, old) ==
    \/ cache = <<>>
    \/ items = <<>> /\ old
    \/ items # <<>> /\ Head(items) = Head(Merged(items, old))

InsertPage(items, cursor, old) ==
    /\ Fits(items)
    /\ cache' = Merged(items, old)
    /\ older' = IF MovesBoundary(items, old) THEN cursor ELSE older

\* A delivered message settles the row of its request.
Acknowledged(items) ==
    [r \in Requests |-> IF r \in ToSet(items) /\ outbox[r] \in InOutbox
                        THEN "acknowledged" ELSE outbox[r]]

-----------------------------------------------------------------------------
NoPump == [batch |-> {}, waiting |-> 0, answered |-> FALSE]
NoLoad == [pc |-> "off", cursor |-> 0, items |-> <<>>, older |-> 0]
Init ==
    /\ posted = [i \in 1 .. Old |-> MaxSends + i]
    /\ unpublished = {} /\ wire = {} /\ posting = {} /\ overtaken = FALSE
    /\ outbox = [r \in Requests |-> "unsent"]
    /\ \E k \in Known : /\ cache = SubSeq(posted, Old - k + 1, Old)
                        /\ older = IF k = Old THEN 0 ELSE Old - k + 1
    /\ pump = NoPump
    /\ confirmed = Last(cache)
    /\ feed = [walk |-> At("off", Last(cache)), events |-> <<>>]
    /\ refresh = NoWalk
    /\ loading = NoLoad
    /\ attempts = [r \in Requests |-> 0]
    /\ resent = [r \in Requests |-> 0]
    /\ reads = 0 /\ faults = 0

-----------------------------------------------------------------------------
(* The user. *)

Send(r) ==
    /\ outbox[r] = "unsent"
    /\ \A q \in Requests : q < r => outbox[q] # "unsent"
    /\ outbox' = [outbox EXCEPT ![r] = "queued"]
    /\ UNCHANGED <<station, history, pump, readers, counters>>

\* withdraw_to_draft takes a row that is not attempted.
AnyRow(r) == outbox[r] \in InOutbox       \* mutant: attempts are not looked at
Unattempted(r) == outbox[r] = "queued"
Withdraw(r) ==
    /\ Unattempted(r)
    /\ outbox' = [outbox EXCEPT ![r] = "withdrawn"]
    /\ UNCHANGED <<station, history, pump, readers, counters>>

Resend(r) ==
    /\ outbox[r] = "failed"
    /\ resent[r] < MaxResends
    /\ outbox' = [outbox EXCEPT ![r] = "queued"]
    /\ resent' = [resent EXCEPT ![r] = @ + 1]
    /\ UNCHANGED <<station, history, pump, readers, attempts, reads, faults>>

DeleteFailed(r) ==
    /\ outbox[r] = "failed"
    /\ outbox' = [outbox EXCEPT ![r] = "deleted"]
    /\ UNCHANGED <<station, history, pump, readers, counters>>

-----------------------------------------------------------------------------
(* The pump. *)

Waits == pump.waiting # 0

\* flush goes over the rows it found, the pump starts one when any is new.
Flush ==
    /\ ~Waits /\ pump.batch = {}
    /\ \E r \in Requests : Unattempted(r)
    /\ pump' = [pump EXCEPT !.batch = {r \in Requests : outbox[r] \in InOutbox}]
    /\ UNCHANGED <<station, database, readers, counters>>

\* begin_delivery commits the attempt before the request goes out.
Begins(r) == outbox[r] \in InOutbox       \* mutant: the row's marks are not read
MayBegin(r) == Unattempted(r)
Begin(r) ==
    /\ ~Waits
    /\ r \in pump.batch /\ \A q \in pump.batch : r <= q
    /\ IF MayBegin(r)
       THEN /\ outbox' = [outbox EXCEPT ![r] = "sending"]
            /\ attempts' = [attempts EXCEPT ![r] = @ + 1]
            /\ wire' = wire \cup {<<r, attempts[r] + 1>>}
            /\ pump' = [batch |-> pump.batch \ {r}, waiting |-> r, answered |-> FALSE]
       ELSE /\ pump' = [pump EXCEPT !.batch = @ \ {r}]
            /\ UNCHANGED <<outbox, attempts, wire>>
    /\ UNCHANGED <<posted, unpublished, posting, overtaken, history, readers, resent, reads,
                   faults>>

Rested == [pump EXCEPT !.waiting = 0, !.answered = FALSE]

Acknowledge ==
    /\ Waits /\ pump.answered
    /\ outbox' = Acknowledged(<<pump.waiting>>)
    /\ pump' = Rested
    /\ UNCHANGED <<station, history, readers, counters>>

\* A timeout, a refusal or a lost connection. The row may have been settled by
\* the message itself.
Failure ==
    [outbox EXCEPT ![pump.waiting] = IF @ \in InOutbox THEN "failed" ELSE @]
AttemptFails ==
    /\ Waits /\ faults < MaxFaults
    /\ outbox' = Failure
    /\ pump' = Rested
    /\ faults' = faults + 1
    /\ UNCHANGED <<station, history, readers, attempts, resent, reads>>

-----------------------------------------------------------------------------
(* The station. *)

\* A post waits for the session's lock. A request is accepted once.
IsNewAlways(r) == TRUE                    \* mutant: the receipt is not looked up
IsNew(r) == r \notin ToSet(posted)
Post(w) ==
    /\ w \in wire /\ posting = {}
    /\ wire' = wire \ {w}
    /\ posting' = {w}
    /\ IF IsNew(w[1])
       THEN /\ posted' = Append(posted, w[1])
            /\ unpublished' = unpublished \cup {w[1]}
       ELSE UNCHANGED <<posted, unpublished>>
    /\ UNCHANGED <<overtaken, database, pump, readers, counters>>

\* An agent's post does not take that lock.
PostOther(id) ==
    /\ id \notin ToSet(posted)
    /\ \A i \in Others : i < id => i \in ToSet(posted)
    /\ posted' = Append(posted, id)
    /\ unpublished' = unpublished \cup {id}
    /\ UNCHANGED <<wire, posting, overtaken, database, pump, readers, counters>>

Connected == feed.walk.pc # "off"
Place(id) == CHOOSE i \in DOMAIN posted : posted[i] = id
Publish(id) ==
    /\ unpublished' = unpublished \ {id}
    /\ feed' = [walk |-> feed.walk,
                events |-> IF Connected THEN Append(feed.events, id) ELSE feed.events]
    /\ overtaken' = (overtaken \/ \E u \in unpublished : Place(u) < Place(id))

PublishOther ==
    /\ \E id \in unpublished \cap Others : Publish(id)
    /\ UNCHANGED <<posted, wire, posting, database, pump, confirmed, refresh, loading, counters>>

\* A repeated request publishes its message again. Only the attempt the pump
\* waits for hears the answer.
Answer(w) ==
    /\ w \in posting
    /\ Publish(w[1])
    /\ posting' = {}
    /\ pump' = [pump EXCEPT !.answered = @ \/ (pump.waiting = w[1] /\ attempts[w[1]] = w[2])]
    /\ UNCHANGED <<posted, wire, database, confirmed, refresh, loading, counters>>

-----------------------------------------------------------------------------
(* The readers. *)

\* The connection subscribes first and then catches up with its own anchor.
Connect ==
    /\ ~Connected
    /\ feed' = [walk |-> At("walk", feed.walk.anchor), events |-> <<>>]
    /\ UNCHANGED <<station, database, pump, confirmed, refresh, loading, counters>>

FeedWalks ==
    /\ feed.walk.pc = "walk"
    /\ feed' = [walk |-> Walk(feed.walk), events |-> feed.events]
    /\ UNCHANGED <<station, database, pump, confirmed, refresh, loading, counters>>

\* The last message of a page or an event becomes the anchor. A page that does
\* not fit is an error: nothing of it is kept, acknowledged or confirmed.
NextAnchor(items, anchor) == IF items = <<>> THEN anchor ELSE Last(items)
ApplyPage(walk) ==
    IF Fits(walk.items)
    THEN /\ InsertPage(walk.items, walk.cursor, FALSE)
         /\ outbox' = Acknowledged(walk.items)
         /\ confirmed' = NextAnchor(walk.items, confirmed)
    ELSE UNCHANGED <<database, confirmed>>

FeedApplies ==
    /\ feed.walk.pc = "apply"
    /\ ApplyPage(feed.walk)
    /\ feed' = [walk |-> At("live", NextAnchor(feed.walk.items, feed.walk.anchor)),
                events |-> feed.events]
    /\ UNCHANGED <<station, pump, refresh, loading, counters>>

\* cache_delivered_message: a new message goes to the tail.
WithEvent(id) == IF id \in ToSet(cache) THEN cache ELSE Append(cache, id)
FeedTakesEvent ==
    /\ feed.walk.pc = "live" /\ feed.events # <<>>
    /\ LET id == Head(feed.events)
       IN  /\ cache' = WithEvent(id)
           /\ outbox' = Acknowledged(<<id>>)
           /\ confirmed' = id
           /\ feed' = [walk |-> At("live", id), events |-> Tail(feed.events)]
    /\ UNCHANGED <<station, older, pump, refresh, loading, counters>>

\* Also what a reader too slow for the queue of events is told to do.
FeedBreaks ==
    /\ Connected /\ faults < MaxFaults
    /\ feed' = [walk |-> At("off", feed.walk.anchor), events |-> <<>>]
    /\ faults' = faults + 1
    /\ UNCHANGED <<station, database, pump, confirmed, refresh, loading, attempts, resent, reads>>

StartRefresh ==
    /\ refresh.pc = "off" /\ reads < MaxReads
    /\ refresh' = At("walk", confirmed)
    /\ reads' = reads + 1
    /\ UNCHANGED <<station, database, pump, feed, confirmed, loading, attempts, resent, faults>>

RefreshWalks ==
    /\ refresh.pc = "walk"
    /\ refresh' = Walk(refresh)
    /\ UNCHANGED <<station, database, pump, feed, confirmed, loading, counters>>

RefreshApplies ==
    /\ refresh.pc = "apply"
    /\ ApplyPage(refresh)
    /\ refresh' = NoWalk
    /\ UNCHANGED <<station, pump, feed, loading, counters>>

LoadOlder ==
    /\ loading.pc = "off" /\ older # 0 /\ reads < MaxReads
    /\ loading' = [pc |-> "apply", cursor |-> older,
                   items |-> Page(older).items, older |-> Page(older).older]
    /\ reads' = reads + 1
    /\ UNCHANGED <<station, database, pump, feed, confirmed, refresh, attempts, resent, faults>>

\* Another reader may have moved the head meanwhile.
StillOlder == older = loading.cursor
OlderApplies ==
    /\ loading.pc = "apply"
    /\ IF StillOlder /\ Fits(loading.items)
       THEN InsertPage(loading.items, loading.older, TRUE)
       ELSE UNCHANGED history
    /\ loading' = NoLoad
    /\ UNCHANGED <<station, outbox, pump, feed, confirmed, refresh, counters>>

-----------------------------------------------------------------------------
(* Restarts. *)

\* Opening the store marks what was on its way, and what was not, as failed.
Reopened == [r \in Requests |-> IF outbox[r] \in InOutbox THEN "failed" ELSE outbox[r]]
ClientRestarts ==
    /\ faults < MaxFaults
    /\ outbox' = Reopened
    /\ pump' = NoPump
    /\ confirmed' = Last(cache)
    /\ feed' = [walk |-> At("off", Last(cache)), events |-> <<>>]
    /\ refresh' = NoWalk
    /\ loading' = NoLoad
    /\ faults' = faults + 1
    /\ UNCHANGED <<station, history, attempts, resent, reads>>

\* Handlers and connections go with the station's process, commits stay.
StationRestarts ==
    /\ faults < MaxFaults
    /\ unpublished' = {} /\ wire' = {} /\ posting' = {}
    /\ feed' = [walk |-> At("off", feed.walk.anchor), events |-> <<>>]
    /\ faults' = faults + 1
    /\ UNCHANGED <<posted, overtaken, database, pump, confirmed, refresh, loading, attempts,
                   resent, reads>>

-----------------------------------------------------------------------------
User == \E r \in Requests : Send(r) \/ Withdraw(r) \/ Resend(r) \/ DeleteFailed(r)
Pump == Flush \/ (\E r \in Requests : Begin(r)) \/ Acknowledge \/ AttemptFails
Station ==
    \/ \E w \in wire : Post(w)
    \/ \E id \in Others : PostOther(id)
    \/ PublishOther
    \/ \E w \in posting : Answer(w)
Readers ==
    \/ Connect \/ FeedWalks \/ FeedApplies \/ FeedTakesEvent \/ FeedBreaks
    \/ StartRefresh \/ RefreshWalks \/ RefreshApplies
    \/ LoadOlder \/ OlderApplies
Next == User \/ Pump \/ Station \/ Readers \/ ClientRestarts \/ StationRestarts

Spec == Init /\ [][Next]_vars

-----------------------------------------------------------------------------
(* Properties *)

\* The variables have their shapes, and a row that says "sending" has an attempt
\* that will settle it.
Walks == [pc : {"off", "walk", "apply", "live"}, anchor : {0} \cup Messages,
          items : Seq(Messages), cursor : Nat]
StationTyped ==
    /\ posted \in Seq(Messages)
    /\ unpublished \subseteq ToSet(posted)
    /\ wire \subseteq Requests \X Nat /\ posting \subseteq Requests \X Nat
    /\ overtaken \in BOOLEAN
SenderTyped ==
    /\ outbox \in [Requests -> Rows]
    /\ pump \in [batch : SUBSET Requests, waiting : {0} \cup Requests, answered : BOOLEAN]
    /\ attempts \in [Requests -> Nat] /\ resent \in [Requests -> Nat]
    /\ \A r \in Requests : outbox[r] = "sending" => pump.waiting = r
ReadersTyped ==
    /\ cache \in Seq(Messages) /\ older \in Nat
    /\ feed \in [walk : Walks, events : Seq(Messages)]
    /\ confirmed \in {0} \cup Messages
    /\ refresh \in Walks
    /\ loading \in [pc : {"off", "apply"}, cursor : Nat, items : Seq(Messages), older : Nat]
TypeOK == StationTyped /\ SenderTyped /\ ReadersTyped /\ reads \in Nat /\ faults \in Nat

\* However often a request is sent, by hand after a lost answer or late after a
\* timeout, the conversation has its message once.
PostedOnce == IsInjective(posted)

\* Every explicit send is one request: neither a reconnection nor a restart nor
\* another flush sends a message again.
OneAttemptPerSend == \A r \in Requests : attempts[r] <= 1 + resent[r]

\* A row leaves the outbox as acknowledged only when the station has the message;
\* one withdrawn and never retried the station will not get.
OnItsWay(r) == \E w \in wire \cup posting : w[1] = r
FatesAreTrue ==
    \A r \in Requests :
        /\ outbox[r] = "acknowledged" => r \in ToSet(posted)
        /\ (outbox[r] = "withdrawn" /\ resent[r] = 0) => r \notin ToSet(posted) /\ ~OnItsWay(r)

\* Unless the station published out of order, the client keeps one range of the
\* conversation, in its order and without a gap, and knows what comes before it;
\* a live connection with nothing left to take has the last message.
IsRange(from) ==
    /\ from + Len(cache) - 1 <= Len(posted)
    /\ cache = SubSeq(posted, from, from + Len(cache) - 1)
    /\ older = IF from = 1 THEN 0 ELSE from
AtRest == feed.walk.pc = "live" /\ feed.events = <<>> /\ unpublished = {}
HistoryHasNoGap ==
    \/ overtaken
    \/ /\ \E from \in DOMAIN posted : IsRange(from)
       /\ AtRest => Last(cache) = Last(posted)
=============================================================================
