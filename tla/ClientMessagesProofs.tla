----------------------- MODULE ClientMessagesProofs -----------------------
(***************************************************************************)
(* What ClientMessages keeps for any number of sends, messages, readers and *)
(* faults: a request is posted at most once, sent once for every time the   *)
(* user asks, and what the outbox says became of it is true; and the        *)
(* messages the client holds are one range of the station's, without a gap. *)
(***************************************************************************)
EXTENDS ClientMessages, SequenceTheorems, TLAPS

(***************************************************************************)
(* The invariant.  Whatever the client reads the station has: only that     *)
(* makes an acknowledgement by transcript true.  The attempts are counted   *)
(* row by row: a row that waits for the pump has one retry more than its    *)
(* attempts account for, or none of either.                                 *)
(***************************************************************************)
Given == ToSet(posted)
Honest(walk) == walk.items \in Seq(Given) /\ walk.cursor \in 0 .. Len(posted)
ReadersHonest ==
    /\ Honest(feed.walk) /\ Honest(refresh)
    /\ feed.events \in Seq(Given)
StationHonest ==
    /\ \A w \in wire \cup posting : attempts[w[1]] >= 1
    /\ \A w \in posting : w[1] \in Given
    /\ pump.answered => pump.waiting \in Given
RowHolds(r) ==
    /\ outbox[r] = "unsent" => attempts[r] = 0 /\ resent[r] = 0
    /\ outbox[r] \in {"queued", "withdrawn"} => attempts[r] <= resent[r]
    /\ attempts[r] <= 1 + resent[r]
    /\ outbox[r] = "acknowledged" => r \in Given
    /\ r \in Given => attempts[r] >= 1
RowsHold == \A r \in Requests : RowHolds(r)

DeliveryInvariant ==
    /\ StationTyped /\ SenderTyped
    /\ ReadersHonest /\ StationHonest /\ RowsHold
    /\ PostedOnce

-----------------------------------------------------------------------------
(* Facts about the data. *)

LEMMA RequestNumbers == Requests \subseteq Nat /\ 0 \notin Requests /\ Requests \subseteq Messages
BY BoundsAssumption DEF Requests, Messages

LEMMA GivenIs ==
    ASSUME posted \in Seq(Messages)
    PROVE  /\ Len(posted) \in Nat /\ DOMAIN posted = 1 .. Len(posted)
           /\ \A i \in 1 .. Len(posted) : posted[i] \in Given
           /\ Given \subseteq Messages
<1>1. Len(posted) \in Nat /\ DOMAIN posted = 1 .. Len(posted)
  BY LenProperties
<1>2. \A i \in 1 .. Len(posted) : posted[i] \in Messages
  BY ElementOfSeq
<1> QED
  BY <1>1, <1>2 DEF Given, ToSet

\* A post adds one message at the end.
LEMMA PostedGrows ==
    ASSUME posted \in Seq(Messages), NEW id \in Messages, posted' = Append(posted, id)
    PROVE  /\ posted' \in Seq(Messages) /\ Len(posted') = Len(posted) + 1
           /\ Given' = Given \cup {id}
           /\ (PostedOnce /\ id \notin Given) => PostedOnce'
<1>1. /\ posted' \in Seq(Messages) /\ Len(posted') = Len(posted) + 1
      /\ Len(posted) \in Nat
      /\ \A i \in 1 .. Len(posted) : posted'[i] = posted[i]
      /\ posted'[Len(posted) + 1] = id
  BY AppendProperties, LenProperties
<1>2. DOMAIN posted = 1 .. Len(posted) /\ DOMAIN posted' = 1 .. Len(posted) + 1
  BY <1>1, LenProperties
<1>3. 1 .. Len(posted) + 1 = (1 .. Len(posted)) \cup {Len(posted) + 1}
  BY <1>1
<1>4. Given' = Given \cup {id}
  BY <1>1, <1>2, <1>3 DEF Given, ToSet
<1>5. ASSUME PostedOnce, id \notin Given
      PROVE  PostedOnce'
  <2>1. \A i \in 1 .. Len(posted) : posted[i] # id
    BY <1>2, <1>5 DEF Given, ToSet
  <2>2. \A i, j \in 1 .. Len(posted) : posted[i] = posted[j] => i = j
    BY <1>2, <1>5 DEF PostedOnce, IsInjective
  <2>3. \A i, j \in 1 .. Len(posted) + 1 : posted'[i] = posted'[j] => i = j
    BY <1>1, <1>3, <2>1, <2>2
  <2> QED
    BY <1>2, <2>3 DEF PostedOnce, IsInjective
<1> QED
  BY <1>1, <1>4, <1>5

\* What was honest stays honest while the history only grows.
LEMMA GrowthKeepsReaders ==
    ASSUME ReadersHonest, Given \subseteq Given', Len(posted) \in Nat, Len(posted') \in Nat,
           Len(posted) <= Len(posted'), UNCHANGED <<feed, refresh>>
    PROVE  ReadersHonest'
<1>1. Seq(Given) \subseteq Seq(Given')
  BY SeqMonotonic
<1>2. 0 .. Len(posted) \subseteq 0 .. Len(posted')
  OBVIOUS
<1> QED
  BY <1>1, <1>2 DEF ReadersHonest, Honest

LEMMA FreshWalkIsHonest ==
    ASSUME NEW pc, NEW anchor, posted \in Seq(Messages)
    PROVE  Honest(At(pc, anchor)) /\ <<>> \in Seq(Given)
<1>1. Len(posted) \in Nat
  BY LenProperties
<1>2. <<>> \in Seq(Given)
  BY EmptySeq
<1> QED
  BY <1>1, <1>2 DEF Honest, At, Newest

\* A page has messages of the station only.
LEMMA PageIsHonest ==
    ASSUME posted \in Seq(Messages), NEW cursor \in 0 .. Len(posted)
    PROVE  /\ Page(cursor).items \in Seq(Given)
           /\ Page(cursor).older \in 0 .. Len(posted)
<1>1. Len(posted) \in Nat /\ \A i \in 1 .. Len(posted) : posted[i] \in Given
  BY GivenIs
<1>2. PageEnd(cursor) \in 0 .. Len(posted)
  BY <1>1 DEF PageEnd, Newest
<1>3. PageLimit \in Nat \ {0}
  BY BoundsAssumption
<1>4. PageStart(cursor) \in Nat \ {0} /\ PageStart(cursor) <= PageEnd(cursor) + 1
  BY <1>1, <1>2, <1>3 DEF PageStart
<1>5. PageStart(cursor) = 1 \/ PageStart(cursor) <= PageEnd(cursor)
  BY <1>1, <1>2, <1>3 DEF PageStart
<1>6. \A i \in PageStart(cursor) .. PageEnd(cursor) : posted[i] \in Given
  BY <1>1, <1>2, <1>4
<1>7. SubSeq(posted, PageStart(cursor), PageEnd(cursor)) \in Seq(Given)
  BY <1>1, <1>2, <1>4, <1>6, SubSeqProperties
<1> QED
  BY <1>1, <1>2, <1>4, <1>5, <1>7 DEF Page

LEMMA WalkIsHonest ==
    ASSUME posted \in Seq(Messages), NEW task, Honest(task)
    PROVE  Honest(Walk(task))
<1>1. Page(task.cursor).items \in Seq(Given) /\ Page(task.cursor).older \in 0 .. Len(posted)
  BY PageIsHonest DEF Honest
<1>2. Page(task.cursor).items \o task.items \in Seq(Given)
  BY <1>1, ConcatProperties DEF Honest
<1> QED
  BY <1>1, <1>2 DEF Honest, Walk

\* Settling rows by messages the station has keeps everything about the rows.
LEMMA AcknowledgedIsTrue ==
    ASSUME DeliveryInvariant, NEW items \in Seq(Given), outbox' = Acknowledged(items),
           UNCHANGED <<posted, pump, attempts, resent>>
    PROVE  SenderTyped' /\ RowsHold'
<1>1. ToSet(items) \subseteq Given
  BY ElementOfSeq, LenProperties DEF ToSet
<1>2. \A r \in Requests :
         \/ outbox'[r] = outbox[r]
         \/ outbox'[r] = "acknowledged" /\ r \in Given
  BY <1>1 DEF Acknowledged
<1>3. outbox' \in [Requests -> Rows]
  BY DEF Acknowledged, Rows, DeliveryInvariant, SenderTyped
<1>4. Given' = Given
  BY DEF Given
<1>5. SenderTyped'
  BY <1>2, <1>3 DEF DeliveryInvariant, SenderTyped
<1>6. ASSUME NEW r \in Requests
      PROVE  RowHolds(r)'
  <2>1. RowHolds(r)
    BY DEF DeliveryInvariant, RowsHold
  <2> QED
    BY <1>2, <1>4, <2>1 DEF RowHolds
<1> QED
  BY <1>5, <1>6 DEF RowsHold

-----------------------------------------------------------------------------
(* The steps. *)

LEMMA InitDelivery == Init => DeliveryInvariant
<1> SUFFICES ASSUME Init PROVE DeliveryInvariant
  OBVIOUS
<1>1. /\ posted \in Seq(Messages) /\ Len(posted) = Old /\ DOMAIN posted = 1 .. Old
      /\ \A i \in 1 .. Old : posted[i] = MaxSends + i
  <2>1. Old \in Nat /\ MaxSends \in Nat /\ MaxOthers \in Nat /\ Old <= MaxOthers
    BY BoundsAssumption
  <2>2. \A i \in 1 .. Old : MaxSends + i \in Messages
    BY <2>1 DEF Messages, Others
  <2>3. posted = [i \in 1 .. Old |-> MaxSends + i]
    BY DEF Init
  <2>4. posted \in Seq(Messages)
    BY <2>1, <2>2, <2>3, IsASeq
  <2> QED
    BY <2>1, <2>3, <2>4, LenProperties
<1>2. PostedOnce
  BY <1>1, BoundsAssumption DEF PostedOnce, IsInjective
<1>3. \A r \in Requests : r \notin Given
  BY <1>1, BoundsAssumption DEF Given, ToSet, Requests
<1>4. SenderTyped
  BY DEF Init, SenderTyped, NoPump, Rows, InOutbox
<1>5. ReadersHonest
  BY <1>1, FreshWalkIsHonest DEF Init, ReadersHonest, NoWalk
<1>6. RowsHold
  BY <1>3 DEF Init, RowsHold, RowHolds
<1>7. StationTyped /\ StationHonest
  BY <1>1 DEF Init, StationTyped, StationHonest, NoPump
<1> QED
  BY <1>2, <1>4, <1>5, <1>6, <1>7 DEF DeliveryInvariant

\* Steps that leave the station alone leave alone what it has.
LEMMA StationStays ==
    ASSUME DeliveryInvariant, UNCHANGED station
    PROVE  StationTyped' /\ PostedOnce' /\ Given' = Given /\ Len(posted)' = Len(posted)
BY DEF DeliveryInvariant, station, StationTyped, PostedOnce, Given

LEMMA UserKeepsDelivery ==
    ASSUME DeliveryInvariant, User
    PROVE  DeliveryInvariant'
<1>1. PICK r \in Requests : Send(r) \/ Withdraw(r) \/ Resend(r) \/ DeleteFailed(r)
  BY DEF User
<1>2. UNCHANGED <<station, pump, feed, refresh, attempts>>
  BY <1>1 DEF Send, Withdraw, Resend, DeleteFailed, counters, readers
<1>3. \A q \in Requests : RowHolds(q)
  BY DEF DeliveryInvariant, RowsHold
<1>4. outbox \in [Requests -> Rows] /\ attempts \in [Requests -> Nat] /\ resent \in [Requests -> Nat]
  BY DEF DeliveryInvariant, SenderTyped
<1>5. Given' = Given
  BY <1>2, StationStays
<1>6. /\ resent' \in [Requests -> Nat]
      /\ \E row \in {"queued", "withdrawn", "deleted"} :
            /\ outbox' = [outbox EXCEPT ![r] = row]
            /\ row \in {"queued", "withdrawn"} => attempts[r] <= resent'[r]
      /\ \A q \in Requests : q # r => resent'[q] = resent[q]
      /\ resent[r] <= resent'[r]
  <2>1. CASE Send(r)
    BY <1>3, <1>4, <2>1 DEF Send, counters, RowHolds
  <2>2. CASE Withdraw(r)
    BY <1>3, <1>4, <2>2 DEF Withdraw, counters, RowHolds, Unattempted
  <2>3. CASE Resend(r)
    BY <1>3, <1>4, <2>3 DEF Resend, RowHolds
  <2>4. CASE DeleteFailed(r)
    BY <1>3, <1>4, <2>4 DEF DeleteFailed, counters
  <2> QED
    BY <1>1, <2>1, <2>2, <2>3, <2>4
<1>7. PICK row \in {"queued", "withdrawn", "deleted"} :
         /\ outbox' = [outbox EXCEPT ![r] = row]
         /\ row \in {"queued", "withdrawn"} => attempts[r] <= resent'[r]
  BY <1>6
<1>8. SenderTyped'
  <2>1. outbox' \in [Requests -> Rows]
    BY <1>4, <1>7 DEF Rows, InOutbox
  <2>2. \A q \in Requests : outbox'[q] = "sending" => outbox[q] = "sending"
    BY <1>4, <1>7
  <2> QED
    BY <1>2, <1>6, <2>1, <2>2 DEF DeliveryInvariant, SenderTyped
<1>9. ASSUME NEW q \in Requests
      PROVE  RowHolds(q)'
  <2>1. CASE q = r
    <3>1. outbox'[r] = row
      BY <1>4, <1>7
    <3>2. attempts[r] <= 1 + resent'[r] /\ attempts' = attempts
      BY <1>2, <1>3, <1>4, <1>6 DEF RowHolds
    <3> QED
      BY <1>3, <1>5, <1>7, <2>1, <3>1, <3>2 DEF RowHolds
  <2>2. CASE q # r
    <3>1. outbox'[q] = outbox[q] /\ resent'[q] = resent[q] /\ attempts' = attempts
      BY <1>2, <1>4, <1>6, <1>7, <2>2
    <3> QED
      BY <1>3, <1>5, <3>1 DEF RowHolds
  <2> QED
    BY <2>1, <2>2
<1>10. ReadersHonest' /\ StationHonest'
  BY <1>2, <1>5, StationStays DEF DeliveryInvariant, ReadersHonest, Honest, StationHonest, station
<1> QED
  BY <1>2, <1>8, <1>9, <1>10, StationStays DEF DeliveryInvariant, RowsHold

LEMMA PumpKeepsDelivery ==
    ASSUME DeliveryInvariant, Pump
    PROVE  DeliveryInvariant'
<1>1. /\ outbox \in [Requests -> Rows] /\ attempts \in [Requests -> Nat]
      /\ resent \in [Requests -> Nat]
      /\ pump \in [batch : SUBSET Requests, waiting : {0} \cup Requests, answered : BOOLEAN]
      /\ \A q \in Requests : outbox[q] = "sending" => pump.waiting = q
  BY DEF DeliveryInvariant, SenderTyped
<1>2. \A q \in Requests : RowHolds(q)
  BY DEF DeliveryInvariant, RowsHold
<1>3. UNCHANGED <<posted, feed, refresh>> /\ Given' = Given
  BY DEF Pump, Flush, Begin, Acknowledge, AttemptFails, station, readers, Given
<1>4. ReadersHonest' /\ PostedOnce'
  BY <1>3 DEF DeliveryInvariant, ReadersHonest, Honest, PostedOnce
<1>5. CASE Flush
  <2>1. pump' = [pump EXCEPT !.batch = {r \in Requests : outbox[r] \in InOutbox}]
    BY <1>5 DEF Flush
  <2>2. /\ pump' \in [batch : SUBSET Requests, waiting : {0} \cup Requests, answered : BOOLEAN]
        /\ pump'.waiting = pump.waiting /\ pump'.answered = pump.answered
    BY <1>1, <2>1
  <2>3. UNCHANGED <<station, outbox, attempts, resent>>
    BY <1>5 DEF Flush, database, counters
  <2>4. SenderTyped'
    BY <1>1, <2>2, <2>3 DEF SenderTyped
  <2>5. RowsHold'
    BY <1>2, <1>3, <2>3 DEF RowsHold, RowHolds
  <2>6. StationHonest'
    BY <1>3, <2>2, <2>3 DEF DeliveryInvariant, StationHonest, station
  <2> QED
    BY <1>4, <2>3, <2>4, <2>5, <2>6, StationStays DEF DeliveryInvariant
<1>6. ASSUME NEW r \in Requests, Begin(r)
      PROVE  DeliveryInvariant'
  <2>1. CASE ~MayBegin(r)
    <3>1. pump' = [pump EXCEPT !.batch = @ \ {r}]
      BY <1>6, <2>1 DEF Begin
    <3>2. /\ pump' \in [batch : SUBSET Requests, waiting : {0} \cup Requests, answered : BOOLEAN]
          /\ pump'.waiting = pump.waiting /\ pump'.answered = pump.answered
      BY <1>1, <3>1
    <3>3. UNCHANGED <<station, outbox, attempts, resent>>
      BY <1>6, <2>1 DEF Begin, station
    <3>4. SenderTyped'
      BY <1>1, <3>2, <3>3 DEF SenderTyped
    <3>5. RowsHold'
      BY <1>2, <1>3, <3>3 DEF RowsHold, RowHolds
    <3>6. StationHonest'
      BY <1>3, <3>2, <3>3 DEF DeliveryInvariant, StationHonest, station
    <3> QED
      BY <1>4, <3>3, <3>4, <3>5, <3>6, StationStays DEF DeliveryInvariant
  <2>2. CASE MayBegin(r)
    <3>1. /\ outbox' = [outbox EXCEPT ![r] = "sending"]
          /\ attempts' = [attempts EXCEPT ![r] = @ + 1]
          /\ wire' = wire \cup {<<r, attempts[r] + 1>>}
          /\ pump' = [batch |-> pump.batch \ {r}, waiting |-> r, answered |-> FALSE]
          /\ UNCHANGED <<unpublished, posting, overtaken, resent>>
          /\ pump.waiting = 0 /\ outbox[r] = "queued"
      BY <1>6, <2>2 DEF Begin, MayBegin, Unattempted, Waits
    <3>2. \A q \in Requests : outbox[q] # "sending"
      BY <1>1, <3>1, RequestNumbers
    <3>3. SenderTyped'
      <4>1. outbox' \in [Requests -> Rows] /\ attempts' \in [Requests -> Nat]
        BY <1>1, <3>1 DEF Rows, InOutbox
      <4>2. pump' \in [batch : SUBSET Requests, waiting : {0} \cup Requests, answered : BOOLEAN]
        BY <1>1, <3>1
      <4>3. \A q \in Requests : outbox'[q] = "sending" => q = r
        BY <1>1, <3>1, <3>2
      <4> QED
        BY <1>1, <3>1, <4>1, <4>2, <4>3 DEF SenderTyped
    <3>4. ASSUME NEW q \in Requests
          PROVE  RowHolds(q)'
      <4>1. CASE q = r
        <5>1. outbox'[q] = "sending" /\ attempts'[q] = attempts[r] + 1
          BY <1>1, <3>1, <4>1
        <5>2. attempts[r] <= resent[r]
          BY <1>2, <3>1 DEF RowHolds
        <5> QED
          BY <1>1, <3>1, <4>1, <5>1, <5>2 DEF RowHolds
      <4>2. CASE q # r
        <5>1. outbox'[q] = outbox[q] /\ attempts'[q] = attempts[q]
          BY <1>1, <3>1, <4>2
        <5> QED
          BY <1>2, <1>3, <3>1, <5>1 DEF RowHolds
      <4> QED
        BY <4>1, <4>2
    <3>5. StationTyped'
      BY <1>1, <1>3, <3>1 DEF DeliveryInvariant, StationTyped
    <3>6. StationHonest'
      <4>1. \A q \in Requests : attempts[q] <= attempts'[q] /\ attempts'[q] \in Nat
        BY <1>1, <3>1
      <4>2. attempts'[r] >= 1
        BY <1>1, <3>1
      <4>3. ASSUME NEW w \in wire' \cup posting'
            PROVE  attempts'[w[1]] >= 1
        <5>1. CASE w = <<r, attempts[r] + 1>>
          BY <4>2, <5>1
        <5>2. CASE w \in wire \cup posting
          <6>1. w[1] \in Requests /\ attempts[w[1]] >= 1
            BY <5>2 DEF DeliveryInvariant, StationTyped, StationHonest
          <6> QED
            BY <1>1, <4>1, <6>1
        <5> QED
          BY <3>1, <4>3, <5>1, <5>2
      <4>4. ~pump'.answered
        BY <3>1
      <4> QED
        BY <1>3, <3>1, <4>3, <4>4 DEF DeliveryInvariant, StationHonest
    <3> QED
      BY <1>4, <3>3, <3>4, <3>5, <3>6 DEF DeliveryInvariant, RowsHold
  <2> QED
    BY <2>1, <2>2
<1>7. CASE Acknowledge \/ AttemptFails
  <2>1. /\ UNCHANGED <<station, attempts, resent>>
        /\ pump' = Rested /\ pump.waiting \in Requests
    BY <1>1, <1>7 DEF Acknowledge, AttemptFails, counters, Waits
  <2>2. /\ pump' \in [batch : SUBSET Requests, waiting : {0} \cup Requests, answered : BOOLEAN]
        /\ pump'.waiting = 0 /\ ~pump'.answered
    BY <1>1, <2>1 DEF Rested
  <2>3. \A q \in Requests :
           \/ outbox'[q] = outbox[q] /\ outbox[q] # "sending"
           \/ outbox'[q] = "acknowledged" /\ q \in Given
           \/ outbox'[q] = "failed"
    <3>1. CASE Acknowledge
      <4>1. pump.waiting \in Given /\ outbox' = Acknowledged(<<pump.waiting>>)
        BY <3>1 DEF Acknowledge, DeliveryInvariant, StationHonest
      <4>2. ToSet(<<pump.waiting>>) = {pump.waiting}
        BY DEF ToSet
      <4> QED
        BY <1>1, <4>1, <4>2 DEF Acknowledged, InOutbox
    <3>2. CASE AttemptFails
      BY <1>1, <2>1, <3>2 DEF AttemptFails, Failure, InOutbox
    <3> QED
      BY <1>7, <3>1, <3>2
  <2>4. outbox' \in [Requests -> Rows]
    BY <1>1, <1>7, <2>1 DEF Acknowledge, AttemptFails, Acknowledged, Failure, Rows, InOutbox
  <2>5. SenderTyped'
    BY <1>1, <2>1, <2>2, <2>3, <2>4 DEF SenderTyped
  <2>6. RowsHold'
    BY <1>2, <1>3, <2>1, <2>3 DEF RowsHold, RowHolds
  <2>7. StationHonest'
    BY <1>3, <2>1, <2>2 DEF DeliveryInvariant, StationHonest, station
  <2> QED
    BY <1>4, <2>1, <2>5, <2>6, <2>7, StationStays DEF DeliveryInvariant
<1> QED
  BY <1>5, <1>6, <1>7 DEF Pump

\* What a grown history asks of the rest.
LEMMA GrowthKeepsDelivery ==
    ASSUME DeliveryInvariant, NEW id \in Messages, posted' = Append(posted, id),
           id \notin Given, id \in Requests => attempts[id] >= 1,
           UNCHANGED <<feed, refresh, outbox, pump, attempts, resent>>
    PROVE  /\ posted' \in Seq(Messages) /\ Given' = Given \cup {id}
           /\ PostedOnce' /\ ReadersHonest' /\ RowsHold' /\ SenderTyped'
<1>1. /\ posted' \in Seq(Messages) /\ Len(posted') = Len(posted) + 1
      /\ Given' = Given \cup {id} /\ PostedOnce'
  BY PostedGrows DEF DeliveryInvariant, StationTyped
<1>2. Len(posted) \in Nat
  BY LenProperties DEF DeliveryInvariant, StationTyped
<1>3. ReadersHonest'
  <2>1. Len(posted') \in Nat /\ Len(posted) <= Len(posted') /\ Given \subseteq Given'
    BY <1>1, <1>2
  <2> QED
    BY <1>2, <2>1, GrowthKeepsReaders DEF DeliveryInvariant
<1>4. ASSUME NEW r \in Requests
      PROVE  RowHolds(r)'
  <2>1. RowHolds(r)
    BY DEF DeliveryInvariant, RowsHold
  <2> QED
    BY <1>1, <2>1 DEF RowHolds
<1>5. SenderTyped'
  BY DEF DeliveryInvariant, SenderTyped
<1> QED
  BY <1>1, <1>3, <1>4, <1>5 DEF RowsHold

\* The handlers of the station: a request whose receipt is there is not posted
\* again, and only a posted one is answered.
LEMMA StationKeepsDelivery ==
    ASSUME DeliveryInvariant, Station
    PROVE  DeliveryInvariant'
<1>1. /\ posted \in Seq(Messages) /\ unpublished \subseteq Given
      /\ wire \subseteq Requests \X Nat /\ posting \subseteq Requests \X Nat
      /\ overtaken \in BOOLEAN
      /\ \A w \in wire \cup posting : attempts[w[1]] >= 1
      /\ \A w \in posting : w[1] \in Given
      /\ pump.answered => pump.waiting \in Given
  BY DEF DeliveryInvariant, StationTyped, StationHonest, Given
<1>2. ASSUME NEW w \in wire, Post(w)
      PROVE  DeliveryInvariant'
  <2>1. /\ wire' = wire \ {w} /\ posting' = {w}
        /\ UNCHANGED <<overtaken, outbox, pump, feed, refresh, attempts, resent>>
    BY <1>2 DEF Post, database, readers, counters
  <2>2. w[1] \in Requests /\ w[1] \in Messages /\ attempts[w[1]] >= 1 /\ w \in Requests \X Nat
    BY <1>1, RequestNumbers
  <2>3. /\ posted' \in Seq(Messages) /\ Given' = Given \cup {w[1]}
        /\ unpublished' \subseteq Given'
        /\ PostedOnce' /\ ReadersHonest' /\ RowsHold' /\ SenderTyped'
    <3>1. CASE IsNew(w[1])
      <4>1. posted' = Append(posted, w[1]) /\ unpublished' = unpublished \cup {w[1]}
            /\ w[1] \notin Given
        BY <1>2, <3>1 DEF Post, IsNew, Given
      <4>2. /\ posted' \in Seq(Messages) /\ Given' = Given \cup {w[1]}
            /\ PostedOnce' /\ ReadersHonest' /\ RowsHold' /\ SenderTyped'
        BY <2>1, <2>2, <4>1, GrowthKeepsDelivery
      <4> QED
        BY <1>1, <4>1, <4>2
    <3>2. CASE ~IsNew(w[1])
      <4>1. UNCHANGED <<posted, unpublished>> /\ w[1] \in Given
        BY <1>2, <3>2 DEF Post, IsNew, Given
      <4>2. Given' = Given
        BY <4>1 DEF Given
      <4>3. RowsHold'
        BY <2>1, <4>2 DEF DeliveryInvariant, RowsHold, RowHolds
      <4>4. SenderTyped' /\ PostedOnce' /\ ReadersHonest'
        BY <2>1, <4>1, <4>2 DEF DeliveryInvariant, SenderTyped, PostedOnce, ReadersHonest, Honest
      <4> QED
        BY <1>1, <4>1, <4>2, <4>3, <4>4
    <3> QED
      BY <3>1, <3>2
  <2>4. StationTyped'
    BY <1>1, <2>1, <2>2, <2>3 DEF StationTyped, Given
  <2>5. StationHonest'
    BY <1>1, <2>1, <2>2, <2>3 DEF StationHonest
  <2> QED
    BY <2>3, <2>4, <2>5 DEF DeliveryInvariant
<1>3. ASSUME NEW id \in Others, PostOther(id)
      PROVE  DeliveryInvariant'
  <2>1. /\ posted' = Append(posted, id) /\ unpublished' = unpublished \cup {id}
        /\ id \notin Given
        /\ UNCHANGED <<wire, posting, overtaken, outbox, pump, feed, refresh, attempts, resent>>
    BY <1>3 DEF PostOther, database, readers, counters, Given
  <2>2. id \in Messages /\ id \notin Requests
    BY BoundsAssumption DEF Messages, Others, Requests
  <2>3. /\ posted' \in Seq(Messages) /\ Given' = Given \cup {id}
        /\ PostedOnce' /\ ReadersHonest' /\ RowsHold' /\ SenderTyped'
    BY <2>1, <2>2, GrowthKeepsDelivery
  <2>4. StationTyped' /\ StationHonest'
    BY <1>1, <2>1, <2>3 DEF StationTyped, StationHonest, Given
  <2> QED
    BY <2>3, <2>4 DEF DeliveryInvariant
<1>4. ASSUME NEW id \in Given, Publish(id),
             UNCHANGED <<posted, wire, outbox, refresh, attempts, resent>>,
             posting' \subseteq posting,
             pump' \in [batch : SUBSET Requests, waiting : {0} \cup Requests, answered : BOOLEAN],
             pump'.waiting = pump.waiting, pump'.answered => pump.waiting \in Given
      PROVE  DeliveryInvariant'
  <2>1. Given' = Given
    BY <1>4 DEF Given
  <2>2. feed'.walk = feed.walk /\ feed'.events \in Seq(Given)
    <3>1. feed.events \in Seq(Given)
      BY DEF DeliveryInvariant, ReadersHonest
    <3>2. Append(feed.events, id) \in Seq(Given)
      BY <3>1, <1>4, AppendProperties
    <3> QED
      BY <1>4, <3>1, <3>2 DEF Publish
  <2>3. ReadersHonest'
    BY <1>4, <2>1, <2>2 DEF DeliveryInvariant, ReadersHonest, Honest
  <2>4. PostedOnce' /\ RowsHold' /\ SenderTyped'
    BY <1>4, <2>1 DEF DeliveryInvariant, PostedOnce, RowsHold, RowHolds, SenderTyped
  <2>5. StationTyped'
    BY <1>1, <1>4, <2>1 DEF Publish, StationTyped, Given
  <2>6. StationHonest'
    BY <1>1, <1>4, <2>1 DEF StationHonest
  <2> QED
    BY <2>3, <2>4, <2>5, <2>6 DEF DeliveryInvariant
<1>5. pump \in [batch : SUBSET Requests, waiting : {0} \cup Requests, answered : BOOLEAN]
  BY DEF DeliveryInvariant, SenderTyped
<1>6. CASE PublishOther
  <2>1. PICK id \in unpublished \cap Others : Publish(id)
    BY <1>6 DEF PublishOther
  <2>2. UNCHANGED <<posted, wire, posting, outbox, pump, refresh, attempts, resent>>
    BY <1>6 DEF PublishOther, database, counters
  <2> QED
    BY <1>1, <1>4, <1>5, <2>1, <2>2
<1>7. ASSUME NEW w \in posting, Answer(w)
      PROVE  DeliveryInvariant'
  <2>1. /\ Publish(w[1]) /\ w[1] \in Given /\ posting' \subseteq posting
        /\ UNCHANGED <<posted, wire, outbox, refresh, attempts, resent>>
    BY <1>1, <1>7 DEF Answer, database, counters
  <2>2. pump' = [pump EXCEPT !.answered =
                    @ \/ (pump.waiting = w[1] /\ attempts[w[1]] = w[2])]
    BY <1>7 DEF Answer
  <2>3. pump'.waiting = pump.waiting /\ pump'.batch = pump.batch
    BY <1>5, <2>2
  <2>4. pump'.answered \in BOOLEAN /\ (pump'.answered => pump.answered \/ pump.waiting = w[1])
    BY <1>5, <2>2
  <2>5. pump' \in [batch : SUBSET Requests, waiting : {0} \cup Requests, answered : BOOLEAN]
    BY <1>5, <2>2, <2>4
  <2> QED
    BY <1>1, <1>4, <2>1, <2>3, <2>4, <2>5
<1> QED
  BY <1>2, <1>3, <1>6, <1>7 DEF Station

\* A reader's step: what it keeps is honest, and it settles rows only by
\* messages the station has.
LEMMA HonestReadIsSafe ==
    ASSUME DeliveryInvariant, UNCHANGED <<station, pump, attempts, resent>>,
           \/ outbox' = outbox
           \/ \E items \in Seq(Given) : outbox' = Acknowledged(items),
           Honest(feed'.walk), Honest(refresh'), feed'.events \in Seq(Given)
    PROVE  DeliveryInvariant'
<1>1. StationTyped' /\ PostedOnce' /\ Given' = Given /\ posted' = posted
  BY StationStays DEF station
<1>2. SenderTyped' /\ RowsHold'
  <2>1. CASE outbox' = outbox
    BY <1>1, <2>1 DEF DeliveryInvariant, SenderTyped, RowsHold, RowHolds
  <2>2. CASE \E items \in Seq(Given) : outbox' = Acknowledged(items)
    BY <1>1, <2>2, AcknowledgedIsTrue
  <2> QED
    BY <2>1, <2>2
<1>3. ReadersHonest'
  BY <1>1 DEF ReadersHonest, Honest
<1>4. StationHonest'
  BY <1>1 DEF DeliveryInvariant, StationHonest, station
<1> QED
  BY <1>1, <1>2, <1>3, <1>4 DEF DeliveryInvariant

LEMMA ReadersKeepDelivery ==
    ASSUME DeliveryInvariant, Readers
    PROVE  DeliveryInvariant'
<1>1. /\ posted \in Seq(Messages) /\ Honest(feed.walk) /\ Honest(refresh)
      /\ feed.events \in Seq(Given)
  BY DEF DeliveryInvariant, StationTyped, ReadersHonest
<1>2. \A pc, anchor : Honest(At(pc, anchor)) /\ <<>> \in Seq(Given)
  BY <1>1, FreshWalkIsHonest
<1>3. UNCHANGED <<station, pump, attempts, resent>>
  BY DEF Readers, Connect, FeedWalks, FeedApplies, FeedTakesEvent, FeedBreaks, StartRefresh,
         RefreshWalks, RefreshApplies, LoadOlder, OlderApplies, counters
<1>4. \A walk : ApplyPage(walk) /\ Honest(walk) =>
         \/ outbox' = outbox
         \/ \E items \in Seq(Given) : outbox' = Acknowledged(items)
  BY DEF ApplyPage, database, Honest
<1>5. CASE Connect \/ FeedWalks \/ FeedBreaks
  <2>1. UNCHANGED <<outbox, refresh>>
    BY <1>5 DEF Connect, FeedWalks, FeedBreaks, database
  <2>2. Honest(feed'.walk) /\ feed'.events \in Seq(Given)
    <3>1. CASE Connect
      BY <1>2, <3>1 DEF Connect
    <3>2. CASE FeedWalks
      BY <1>1, <3>2, WalkIsHonest DEF FeedWalks
    <3>3. CASE FeedBreaks
      BY <1>2, <3>3 DEF FeedBreaks
    <3> QED
      BY <1>5, <3>1, <3>2, <3>3
  <2> QED
    BY <1>1, <1>3, <2>1, <2>2, HonestReadIsSafe
<1>6. CASE FeedApplies
  <2>1. Honest(feed'.walk) /\ feed'.events \in Seq(Given) /\ refresh' = refresh
    BY <1>1, <1>2, <1>6 DEF FeedApplies
  <2>2. \/ outbox' = outbox
        \/ \E items \in Seq(Given) : outbox' = Acknowledged(items)
    BY <1>1, <1>4, <1>6 DEF FeedApplies
  <2> QED
    BY <1>1, <1>3, <2>1, <2>2, HonestReadIsSafe
<1>7. CASE FeedTakesEvent
  <2>1. feed.events # <<>>
    BY <1>7 DEF FeedTakesEvent
  <2>2. Head(feed.events) \in Given /\ Tail(feed.events) \in Seq(Given)
    BY <1>1, <2>1, HeadTailProperties
  <2>3. <<Head(feed.events)>> \in Seq(Given)
    BY <1>2, <2>2, AppendProperties
  <2>4. outbox' = Acknowledged(<<Head(feed.events)>>)
    BY <1>7 DEF FeedTakesEvent
  <2>5. Honest(feed'.walk) /\ feed'.events \in Seq(Given) /\ refresh' = refresh
    BY <1>2, <1>7, <2>2 DEF FeedTakesEvent
  <2> QED
    BY <1>1, <1>3, <2>3, <2>4, <2>5, HonestReadIsSafe
<1>8. CASE StartRefresh \/ RefreshWalks
  <2>1. UNCHANGED <<outbox, feed>>
    BY <1>8 DEF StartRefresh, RefreshWalks, database
  <2>2. Honest(refresh')
    <3>1. CASE StartRefresh
      BY <1>2, <3>1 DEF StartRefresh
    <3>2. CASE RefreshWalks
      BY <1>1, <3>2, WalkIsHonest DEF RefreshWalks
    <3> QED
      BY <1>8, <3>1, <3>2
  <2> QED
    BY <1>1, <1>3, <2>1, <2>2, HonestReadIsSafe
<1>9. CASE RefreshApplies
  <2>1. Honest(refresh') /\ feed' = feed
    BY <1>2, <1>9 DEF RefreshApplies, NoWalk
  <2>2. \/ outbox' = outbox
        \/ \E items \in Seq(Given) : outbox' = Acknowledged(items)
    BY <1>1, <1>4, <1>9 DEF RefreshApplies
  <2> QED
    BY <1>1, <1>3, <2>1, <2>2, HonestReadIsSafe
<1>10. CASE LoadOlder \/ OlderApplies
  <2>1. UNCHANGED <<outbox, feed, refresh>>
    BY <1>10 DEF LoadOlder, OlderApplies, database
  <2> QED
    BY <1>1, <1>3, <2>1, HonestReadIsSafe
<1> QED
  BY <1>5, <1>6, <1>7, <1>8, <1>9, <1>10 DEF Readers

\* A client that reopens its store posts nothing: it marks what it cannot know
\* about as failed. A station that restarts loses requests, never a commit.
LEMMA RestartsKeepDelivery ==
    ASSUME DeliveryInvariant, ClientRestarts \/ StationRestarts
    PROVE  DeliveryInvariant'
<1>1. /\ posted \in Seq(Messages) /\ Honest(feed.walk) /\ Honest(refresh)
      /\ feed.events \in Seq(Given) /\ outbox \in [Requests -> Rows]
  BY DEF DeliveryInvariant, StationTyped, SenderTyped, ReadersHonest
<1>2. \A pc, anchor : Honest(At(pc, anchor)) /\ <<>> \in Seq(Given)
  BY <1>1, FreshWalkIsHonest
<1>3. CASE ClientRestarts
  <2>1. /\ UNCHANGED <<station, attempts, resent>> /\ pump' = NoPump
        /\ outbox' = Reopened
    BY <1>3 DEF ClientRestarts
  <2>2. StationTyped' /\ PostedOnce' /\ Given' = Given /\ posted' = posted
    BY <2>1, StationStays DEF station
  <2>3. \A r \in Requests :
           \/ outbox'[r] = outbox[r] /\ outbox[r] \notin InOutbox
           \/ outbox'[r] = "failed"
    BY <2>1 DEF Reopened
  <2>4. outbox' \in [Requests -> Rows]
    BY <1>1, <2>1 DEF Reopened, Rows, InOutbox
  <2>5. SenderTyped'
    BY <2>1, <2>3, <2>4 DEF DeliveryInvariant, SenderTyped, NoPump, InOutbox
  <2>6. RowsHold'
    BY <2>1, <2>2, <2>3 DEF DeliveryInvariant, RowsHold, RowHolds
  <2>7. ReadersHonest'
    BY <1>2, <1>3, <2>2 DEF ClientRestarts, NoWalk, ReadersHonest, Honest
  <2>8. StationHonest'
    BY <2>1, <2>2 DEF DeliveryInvariant, StationHonest, NoPump, station
  <2> QED
    BY <2>2, <2>5, <2>6, <2>7, <2>8 DEF DeliveryInvariant
<1>4. CASE StationRestarts
  <2>1. /\ UNCHANGED <<posted, overtaken, outbox, pump, refresh, attempts, resent>>
        /\ unpublished' = {} /\ wire' = {} /\ posting' = {}
    BY <1>4 DEF StationRestarts, database
  <2>2. Given' = Given
    BY <2>1 DEF Given
  <2>3. SenderTyped' /\ RowsHold' /\ PostedOnce'
    BY <2>1, <2>2 DEF DeliveryInvariant, SenderTyped, RowsHold, RowHolds, PostedOnce
  <2>4. StationTyped' /\ StationHonest'
    BY <2>1, <2>2 DEF DeliveryInvariant, StationTyped, StationHonest
  <2>5. ReadersHonest'
    BY <1>1, <1>2, <1>4, <2>1, <2>2 DEF StationRestarts, ReadersHonest, Honest
  <2> QED
    BY <2>3, <2>4, <2>5 DEF DeliveryInvariant
<1> QED
  BY <1>3, <1>4

-----------------------------------------------------------------------------
(***************************************************************************)
(* The history.  The station's messages have places; the client has those   *)
(* of a span a .. b around the newest one it began with, and every page a    *)
(* reader holds is a span of its own that meets it.  A live connection has   *)
(* the events up to the last one published: while nothing was published out *)
(* of order, none of them lies more than one place beyond those before it.  *)
(***************************************************************************)
Before(from) == IF from = 1 THEN 0 ELSE from
Span(items, cursor, s, t) ==
    /\ s \in 1 .. Len(posted) /\ t \in s .. Len(posted)
    /\ items = SubSeq(posted, s, t) /\ cursor = Before(s)
HasSpan(a, b) == a \in 1 .. Old /\ b >= Old /\ Span(cache, older, a, b)

Fresh(walk) == walk.pc = "walk" /\ walk.items = <<>> /\ walk.cursor = Newest
Shows(walk, s, t) ==
    /\ walk.pc \in {"walk", "apply"}
    /\ t >= Old /\ Span(walk.items, walk.cursor, s, t)
    /\ IF walk.pc = "walk" THEN s > 1 ELSE s = 1 \/ \E i \in s .. t : posted[i] = walk.anchor

HeldIn(message, a, b) == \E i \in a .. b : posted[i] = message
AnchorsHeld(a, b) ==
    /\ HeldIn(confirmed, a, b) /\ HeldIn(feed.walk.anchor, a, b)
    /\ refresh.pc # "off" => HeldIn(refresh.anchor, a, b)

\* Nothing is skipped between the horizon h and the last event.
Event(i) == Place(feed.events[i])
Follow(h) ==
    /\ \A i \in 1 .. Len(feed.events) :
           Event(i) <= h + 1 \/ \E j \in 1 .. i - 1 : Event(i) <= Event(j) + 1
    /\ \A p \in 1 .. Len(posted) :
           \/ p <= h \/ posted[p] \in unpublished
           \/ \E j \in 1 .. Len(feed.events) : p <= Event(j)
FeedHolds(b) ==
    \/ feed.walk.pc = "off" /\ feed.events = <<>>
    \/ Fresh(feed.walk)
    \/ \E s, t \in 1 .. Len(posted) : Shows(feed.walk, s, t) /\ Follow(t)
    \/ feed.walk.pc = "live" /\ Follow(b)
RefreshHolds ==
    \/ refresh.pc = "off" \/ Fresh(refresh)
    \/ \E s, t \in 1 .. Len(posted) : Shows(refresh, s, t)
LoadingHolds ==
    loading.pc = "apply" =>
        /\ loading.cursor \in 2 .. Len(posted)
        /\ \E s \in 1 .. Len(posted) : Span(loading.items, loading.older, s, loading.cursor - 1)
\* What was there before any connection is never published again.
NewIsLate ==
    /\ \A i \in 1 .. Old : posted[i] \notin unpublished \cup Requests
    /\ \A i \in 1 .. Old, j \in 1 .. Len(feed.events) : feed.events[j] # posted[i]
    /\ Old <= Len(posted)
Intact ==
    \E a, b \in 1 .. Len(posted) :
        /\ HasSpan(a, b) /\ AnchorsHeld(a, b)
        /\ FeedHolds(b) /\ RefreshHolds /\ LoadingHolds
HistoryInvariant == NewIsLate /\ (~overtaken => Intact)

\* A part of the history, which may be empty.
LEMMA SpanProperties ==
    ASSUME posted \in Seq(Messages), NEW s \in 1 .. Len(posted) + 1, NEW t \in s - 1 .. Len(posted)
    PROVE  /\ SubSeq(posted, s, t) \in Seq(Messages)
           /\ Len(SubSeq(posted, s, t)) = t - s + 1
           /\ \A i \in 1 .. t - s + 1 : SubSeq(posted, s, t)[i] = posted[s + i - 1]
<1>1. Len(posted) \in Nat /\ \A i \in 1 .. Len(posted) : posted[i] \in Messages
  BY LenProperties, ElementOfSeq
<1>2. s \in Int /\ t \in Int /\ \A i \in s .. t : posted[i] \in Messages
  BY <1>1
<1>3. t - s + 1 = IF s <= t THEN t - s + 1 ELSE 0
  BY <1>1
<1> QED
  BY <1>2, <1>3, SubSeqProperties

\* A message has one place, since none is posted twice.
LEMMA PlacesAreUnique ==
    ASSUME posted \in Seq(Messages), PostedOnce
    PROVE  /\ \A i \in 1 .. Len(posted) : Place(posted[i]) = i
           /\ \A x \in Given : Place(x) \in 1 .. Len(posted) /\ posted[Place(x)] = x
           /\ \A i, j \in 1 .. Len(posted) : posted[i] = posted[j] => i = j
<1>1. DOMAIN posted = 1 .. Len(posted)
  BY LenProperties
<1>2. \A i, j \in 1 .. Len(posted) : posted[i] = posted[j] => i = j
  BY <1>1 DEF PostedOnce, IsInjective
<1>3. \A x \in Given : Place(x) \in 1 .. Len(posted) /\ posted[Place(x)] = x
  <2> TAKE x \in Given
  <2>1. \E i \in DOMAIN posted : posted[i] = x
    BY DEF Given, ToSet
  <2> QED
    BY <1>1, <2>1 DEF Place
<1>4. \A i \in 1 .. Len(posted) : posted[i] \in Given
  BY <1>1 DEF Given, ToSet
<1> QED
  BY <1>2, <1>3, <1>4

\* A post moves no message.
LEMMA PlacesStay ==
    ASSUME posted \in Seq(Messages), PostedOnce, NEW id \in Messages, id \notin Given,
           posted' = Append(posted, id)
    PROVE  /\ \A x \in Given : Place(x)' = Place(x)
           /\ \A i \in 1 .. Len(posted) : posted'[i] = posted[i]
           /\ posted'[Len(posted) + 1] = id /\ Len(posted') = Len(posted) + 1
<1>1. /\ Len(posted') = Len(posted) + 1 /\ Len(posted) \in Nat
      /\ \A i \in 1 .. Len(posted) : posted'[i] = posted[i]
      /\ posted'[Len(posted) + 1] = id
      /\ posted' \in Seq(Messages)
  BY AppendProperties, LenProperties
<1>2. PostedOnce'
  BY PostedGrows
<1>3. \A i, j \in 1 .. Len(posted') : posted'[i] = posted'[j] => i = j
  BY <1>1, <1>2, LenProperties DEF PostedOnce, IsInjective
<1>4. ASSUME NEW x \in Given
      PROVE  Place(x)' = Place(x)
  <2> DEFINE k == Place(x)
  <2>1. k \in 1 .. Len(posted) /\ posted[k] = x
    BY PlacesAreUnique
  <2>2. DOMAIN posted' = 1 .. Len(posted')
    BY <1>1, LenProperties
  <2>3. k \in DOMAIN posted' /\ posted'[k] = x
    BY <1>1, <2>1, <2>2
  <2>4. \A j \in DOMAIN posted' : posted'[j] = x => j = k
    BY <1>3, <2>2, <2>3
  <2>5. Place(x)' = CHOOSE j \in DOMAIN posted' : posted'[j] = x
    BY DEF Place
  <2> HIDE DEF k
  <2>6. (CHOOSE j \in DOMAIN posted' : posted'[j] = x) = k
    BY <2>3, <2>4
  <2> QED
    BY <2>5, <2>6 DEF k
<1> QED
  BY <1>1, <1>4

\* Nor does it change a span.
LEMMA SpansStay ==
    ASSUME posted \in Seq(Messages), PostedOnce, NEW id \in Messages, id \notin Given,
           posted' = Append(posted, id), NEW items, NEW cursor, NEW s, NEW t,
           Span(items, cursor, s, t)
    PROVE  Span(items, cursor, s, t)' /\ Len(posted') = Len(posted) + 1
<1>1. /\ s \in 1 .. Len(posted) /\ t \in s .. Len(posted) /\ items = SubSeq(posted, s, t)
      /\ Len(posted) \in Nat
  BY LenProperties DEF Span
<1>2. /\ posted' \in Seq(Messages) /\ Len(posted') = Len(posted) + 1
      /\ \A i \in 1 .. Len(posted) : posted'[i] = posted[i]
  BY AppendProperties
<1>3. /\ items \in Seq(Messages) /\ Len(items) = t - s + 1
      /\ \A i \in 1 .. t - s + 1 : items[i] = posted[s + i - 1]
  BY <1>1, SpanProperties
<1>4. /\ SubSeq(posted', s, t) \in Seq(Messages) /\ Len(SubSeq(posted', s, t)) = t - s + 1
      /\ \A i \in 1 .. t - s + 1 : SubSeq(posted', s, t)[i] = posted'[s + i - 1]
  <2>1. \A i \in s .. t : posted'[i] \in Messages
    BY <1>1, <1>2, ElementOfSeq
  <2> QED
    BY <1>1, <2>1, SubSeqProperties
<1>5. items = SubSeq(posted', s, t)
  <2>1. \A i \in 1 .. Len(items) : items[i] = SubSeq(posted', s, t)[i]
    BY <1>1, <1>2, <1>3, <1>4
  <2>2. Len(items) = Len(SubSeq(posted', s, t))
    BY <1>3, <1>4
  <2> QED
    BY <1>3, <1>4, <2>1, <2>2, SeqEqual
<1> QED
  BY <1>1, <1>2, <1>5 DEF Span

(* The pages. *)

\* A page ends before its cursor, and has the cursor before itself.
LEMMA PageIsASpan ==
    ASSUME posted \in Seq(Messages), Len(posted) >= 1,
           NEW cursor \in 0 .. Len(posted), cursor # 1
    PROVE  \E s \in 1 .. PageEnd(cursor) :
              Span(Page(cursor).items, Page(cursor).older, s, PageEnd(cursor))
<1>1. Len(posted) \in Nat /\ PageLimit \in Nat \ {0}
  BY LenProperties, BoundsAssumption
<1>2. PageEnd(cursor) \in 1 .. Len(posted)
  BY <1>1 DEF PageEnd, Newest
<1>3. PageStart(cursor) \in 1 .. PageEnd(cursor)
  BY <1>1, <1>2 DEF PageStart
<1> QED
  BY <1>1, <1>2, <1>3 DEF Page, Span, Before

\* A page lies before what a walk has read, or the walk begins with the newest.
LEMMA WalkShows ==
    ASSUME posted \in Seq(Messages), Old \in 1 .. Len(posted), NEW task,
           task.pc = "walk", task.anchor \in Messages,
           NEW t \in 1 .. Len(posted),
           \/ Fresh(task) /\ t = Len(posted)
           \/ \E s \in 1 .. Len(posted) : Shows(task, s, t)
    PROVE  \E s \in 1 .. Len(posted) : Shows(Walk(task), s, t)
<1> DEFINE page == Page(task.cursor)
<1>1. Len(posted) \in Nat
  BY LenProperties
<1>2. task.anchor # 0
  BY BoundsAssumption DEF Messages, Requests, Others
<1>3. \E s \in 1 .. Len(posted) :
        /\ t >= Old /\ Span(page.items \o task.items, page.older, s, t)
        /\ task.anchor \in ToSet(page.items) => \E i \in s .. t : posted[i] = task.anchor
  <2>1. ASSUME NEW s \in 1 .. Len(posted), NEW e \in 1 .. t, Span(page.items, page.older, s, e)
        PROVE  task.anchor \in ToSet(page.items) => \E i \in s .. t : posted[i] = task.anchor
    <3>1. /\ page.items = SubSeq(posted, s, e) /\ s <= e
      BY <2>1 DEF Span
    <3>2. /\ SubSeq(posted, s, e) \in Seq(Messages) /\ Len(SubSeq(posted, s, e)) = e - s + 1
          /\ \A i \in 1 .. e - s + 1 : SubSeq(posted, s, e)[i] = posted[s + i - 1]
      BY <1>1, <3>1, SpanProperties
    <3>3. DOMAIN page.items = 1 .. e - s + 1
      BY <3>1, <3>2, LenProperties
    <3> SUFFICES ASSUME task.anchor \in ToSet(page.items)
                 PROVE  \E i \in s .. t : posted[i] = task.anchor
      OBVIOUS
    <3>4. PICK k \in 1 .. e - s + 1 : page.items[k] = task.anchor
      BY <3>3 DEF ToSet
    <3>5. s + k - 1 \in s .. t /\ posted[s + k - 1] = task.anchor
      <4>1. s + k - 1 \in s .. t
        BY <1>1, <3>1, <3>4
      <4>2. posted[s + k - 1] = task.anchor
        BY <3>1, <3>2, <3>4
      <4> QED
        BY <4>1, <4>2
    <3> QED
      BY <3>5
  <2>2. CASE Fresh(task) /\ t = Len(posted)
    <3>1. task.cursor = 0 /\ task.items = <<>> /\ PageEnd(task.cursor) = t
      BY <2>2 DEF Fresh, Newest, PageEnd
    <3>2. PICK s \in 1 .. t : Span(page.items, page.older, s, t)
      BY <1>1, <3>1, PageIsASpan
    <3>3. page.items \in Seq(Messages)
      BY <1>1, <3>2, SpanProperties DEF Span
    <3>4. page.items \o task.items = page.items
      BY <3>1, <3>3, ConcatEmptySeq
    <3> QED
      BY <1>1, <2>1, <2>2, <3>2, <3>4
  <2>3. CASE \E s \in 1 .. Len(posted) : Shows(task, s, t)
    <3>1. PICK m \in 1 .. Len(posted) : Shows(task, m, t)
      BY <2>3
    <3>2. /\ m > 1 /\ t >= Old /\ m <= t /\ task.items = SubSeq(posted, m, t)
          /\ task.cursor = m
      BY <1>1, <3>1 DEF Shows, Span, Before
    <3>3. PageEnd(task.cursor) = m - 1
      BY <1>1, <3>2 DEF PageEnd, Newest
    <3>4. PICK s \in 1 .. m - 1 : Span(page.items, page.older, s, m - 1)
      BY <1>1, <3>2, <3>3, PageIsASpan
    <3>5. page.items = SubSeq(posted, s, m - 1) /\ page.older = Before(s)
      BY <3>4 DEF Span
    <3>6. SubSeq(posted, s, m - 1) \o SubSeq(posted, (m - 1) + 1, t) = SubSeq(posted, s, t)
      <4>1. s \in 1 .. Len(posted) + 1 /\ m - 1 \in s - 1 .. Len(posted) /\ t \in m - 1 .. Len(posted)
        BY <1>1, <3>2
      <4> QED
        BY <4>1, ConcatAdjacentSubSeq
    <3>7. page.items \o task.items = SubSeq(posted, s, t)
      BY <1>1, <3>2, <3>5, <3>6
    <3>8. s \in 1 .. Len(posted) /\ t \in s .. Len(posted) /\ m - 1 \in 1 .. t
      BY <1>1, <3>2
    <3>9. Span(page.items \o task.items, page.older, s, t)
      BY <3>5, <3>7, <3>8 DEF Span
    <3> QED
      BY <2>1, <3>2, <3>4, <3>8, <3>9
  <2> QED
    BY <2>2, <2>3
<1>4. PICK s \in 1 .. Len(posted) :
        /\ t >= Old /\ Span(page.items \o task.items, page.older, s, t)
        /\ task.anchor \in ToSet(page.items) => \E i \in s .. t : posted[i] = task.anchor
  BY <1>3
<1>5. page.older = 0 <=> s = 1
  BY <1>1, <1>4 DEF Span, Before
<1>6. /\ Walk(task).items = page.items \o task.items
      /\ Walk(task).cursor = page.older /\ Walk(task).anchor = task.anchor
      /\ Walk(task).pc = IF Reaches(task.anchor, page) THEN "apply" ELSE "walk"
  BY DEF Walk
<1>7. Shows(Walk(task), s, t)
  <2>1. CASE Reaches(task.anchor, page)
    BY <1>2, <1>4, <1>5, <1>6, <2>1 DEF Reaches, Shows
  <2>2. CASE ~Reaches(task.anchor, page)
    BY <1>1, <1>2, <1>4, <1>5, <1>6, <2>2 DEF Reaches, Shows
  <2> QED
    BY <2>1, <2>2
<1> QED
  BY <1>7

\* A span has its messages, in their places.
LEMMA SpanEnds ==
    ASSUME posted \in Seq(Messages), NEW items, NEW cursor, NEW s, NEW t, Span(items, cursor, s, t)
    PROVE  /\ items \in Seq(Messages) /\ items # <<>> /\ Len(items) = t - s + 1
           /\ Head(items) = posted[s] /\ Last(items) = posted[t]
<1>1. /\ Len(posted) \in Nat /\ s \in 1 .. Len(posted) /\ t \in s .. Len(posted)
      /\ items = SubSeq(posted, s, t)
  BY LenProperties DEF Span
<1>2. /\ items \in Seq(Messages) /\ Len(items) = t - s + 1
      /\ \A i \in 1 .. t - s + 1 : items[i] = posted[s + i - 1]
  BY <1>1, SpanProperties
<1>3. items # <<>>
  BY <1>1, <1>2, EmptySeq
<1>4. items[1] = posted[s] /\ items[Len(items)] = posted[t]
  BY <1>1, <1>2
<1> QED
  BY <1>2, <1>3, <1>4 DEF Last

(* What the client keeps. *)

\* The messages of a page that are held are those in both spans.
LEMMA HeldInSpans ==
    ASSUME posted \in Seq(Messages), PostedOnce, NEW a, NEW b, Span(cache, older, a, b),
           NEW items, NEW cursor, NEW s, NEW t, Span(items, cursor, s, t)
    PROVE  /\ Held(items) = {i \in 1 .. t - s + 1 : a <= s + i - 1 /\ s + i - 1 <= b}
           /\ items \in Seq(Messages) /\ cache \in Seq(Messages)
           /\ Len(items) = t - s + 1 /\ Len(cache) = b - a + 1
           /\ \A i \in 1 .. t - s + 1 : items[i] = posted[s + i - 1]
           /\ Head(cache) = posted[a] /\ Last(cache) = posted[b]
           /\ \A m : m \in ToSet(cache) <=> \E i \in a .. b : posted[i] = m
<1>1. /\ Len(posted) \in Nat
      /\ a \in 1 .. Len(posted) /\ b \in a .. Len(posted) /\ cache = SubSeq(posted, a, b)
      /\ s \in 1 .. Len(posted) /\ t \in s .. Len(posted) /\ items = SubSeq(posted, s, t)
  BY LenProperties DEF Span
<1>2. /\ cache \in Seq(Messages) /\ Len(cache) = b - a + 1
      /\ \A i \in 1 .. b - a + 1 : cache[i] = posted[a + i - 1]
  BY <1>1, SpanProperties
<1>3. /\ items \in Seq(Messages) /\ Len(items) = t - s + 1
      /\ \A i \in 1 .. t - s + 1 : items[i] = posted[s + i - 1]
  BY <1>1, SpanProperties
<1>4. DOMAIN items = 1 .. t - s + 1 /\ DOMAIN cache = 1 .. b - a + 1
  BY <1>2, <1>3, LenProperties
<1>5. \A m : m \in ToSet(cache) <=> \E i \in a .. b : posted[i] = m
  <2> TAKE m
  <2>1. ASSUME m \in ToSet(cache)
        PROVE  \E i \in a .. b : posted[i] = m
    <3>1. PICK k \in 1 .. b - a + 1 : cache[k] = m
      BY <1>4, <2>1 DEF ToSet
    <3>2. a + k - 1 \in a .. b /\ posted[a + k - 1] = m
      BY <1>1, <1>2, <3>1
    <3> QED
      BY <3>2
  <2>2. ASSUME NEW i \in a .. b, posted[i] = m
        PROVE  m \in ToSet(cache)
    <3>1. i - a + 1 \in 1 .. b - a + 1 /\ a + (i - a + 1) - 1 = i
      BY <1>1
    <3>2. cache[i - a + 1] = m
      BY <1>2, <2>2, <3>1
    <3> QED
      BY <1>4, <3>1, <3>2 DEF ToSet
  <2> QED
    BY <2>1, <2>2
<1>6. Held(items) = {i \in 1 .. t - s + 1 : a <= s + i - 1 /\ s + i - 1 <= b}
  <2>1. \A i, j \in 1 .. Len(posted) : posted[i] = posted[j] => i = j
    BY PlacesAreUnique
  <2>2. ASSUME NEW i \in 1 .. t - s + 1
        PROVE  items[i] \in ToSet(cache) <=> a <= s + i - 1 /\ s + i - 1 <= b
    <3>1. items[i] = posted[s + i - 1] /\ s + i - 1 \in 1 .. Len(posted)
      BY <1>1, <1>3
    <3>2. \A j \in a .. b : j \in 1 .. Len(posted)
      BY <1>1
    <3>3. (\E j \in a .. b : posted[j] = posted[s + i - 1]) <=> s + i - 1 \in a .. b
      BY <2>1, <3>1, <3>2
    <3>4. items[i] \in ToSet(cache) <=> s + i - 1 \in a .. b
      BY <1>5, <3>1, <3>3
    <3>5. s + i - 1 \in a .. b <=> a <= s + i - 1 /\ s + i - 1 <= b
      BY <1>1
    <3> QED
      BY <3>4, <3>5
  <2> QED
    BY <1>4, <2>2 DEF Held
<1>7. Head(cache) = posted[a] /\ Last(cache) = posted[b]
  BY SpanEnds
<1> QED
  BY <1>2, <1>3, <1>5, <1>6, <1>7

\* A page that meets the range fits, and the range grows to their union.
LEMMA MergedSpans ==
    ASSUME posted \in Seq(Messages), PostedOnce, NEW a, NEW b, Span(cache, older, a, b),
           NEW items, NEW cursor, NEW s, NEW t, Span(items, cursor, s, t), s <= b, a <= t
    PROVE  /\ Fits(items)
           /\ Merged(items, FALSE) = SubSeq(posted, IF s < a THEN s ELSE a, IF t > b THEN t ELSE b)
<1> DEFINE lo == IF s < a THEN a - s + 1 ELSE 1
           hi == IF t > b THEN b - s + 1 ELSE t - s + 1
<1>1. /\ Len(posted) \in Nat
      /\ a \in 1 .. Len(posted) /\ b \in a .. Len(posted) /\ cache = SubSeq(posted, a, b)
      /\ s \in 1 .. Len(posted) /\ t \in s .. Len(posted) /\ items = SubSeq(posted, s, t)
  BY LenProperties DEF Span
<1>2. /\ Held(items) = {i \in 1 .. t - s + 1 : a <= s + i - 1 /\ s + i - 1 <= b}
      /\ items \in Seq(Messages) /\ cache \in Seq(Messages)
      /\ Len(items) = t - s + 1 /\ Len(cache) = b - a + 1
      /\ \A i \in 1 .. t - s + 1 : items[i] = posted[s + i - 1]
      /\ Head(cache) = posted[a] /\ Last(cache) = posted[b]
  BY HeldInSpans
<1>3. /\ lo \in 1 .. t - s + 1 /\ hi \in lo .. t - s + 1
      /\ Held(items) = lo .. hi
  <2>1. lo \in 1 .. t - s + 1 /\ hi \in lo .. t - s + 1
    BY <1>1
  <2>2. ASSUME NEW i \in 1 .. t - s + 1
        PROVE  a <= s + i - 1 /\ s + i - 1 <= b <=> lo <= i /\ i <= hi
    BY <1>1
  <2>3. \A i : i \in lo .. hi <=> i \in 1 .. t - s + 1 /\ lo <= i /\ i <= hi
    <3> HIDE DEF lo, hi
    <3> QED
      BY <1>1, <2>1
  <2> HIDE DEF lo, hi
  <2> QED
    BY <1>2, <2>1, <2>2, <2>3
<1>4. Min(Held(items)) = lo /\ Max(Held(items)) = hi /\ Held(items) # {}
  <2> HIDE DEF lo, hi
  <2>1. lo \in Int /\ hi \in Int /\ lo <= hi
    BY <1>1, <1>3
  <2>2. /\ lo \in Held(items) /\ \A y \in Held(items) : lo <= y
        /\ hi \in Held(items) /\ \A y \in Held(items) : hi >= y
        /\ Held(items) \subseteq Int
    BY <1>3, <2>1
  <2>3. Min(Held(items)) = lo
    BY <2>2 DEF Min
  <2>4. Max(Held(items)) = hi
    BY <2>2 DEF Max
  <2> QED
    BY <2>2, <2>3, <2>4
<1>5. Fits(items)
  <2>1. lo = 1 \/ items[lo] = Head(cache)
    <3>1. s + lo - 1 = IF s < a THEN a ELSE s
      BY <1>1
    <3>2. items[lo] = posted[s + lo - 1]
      BY <1>2, <1>3
    <3> QED
      BY <1>2, <3>1, <3>2
  <2>2. hi = Len(items) \/ items[hi] = Last(cache)
    <3>1. s + hi - 1 = IF t > b THEN b ELSE t
      BY <1>1
    <3>2. hi \in 1 .. t - s + 1
      BY <1>1, <1>3
    <3>3. items[hi] = posted[s + hi - 1]
      BY <1>2, <3>2
    <3> QED
      BY <1>2, <3>1, <3>3
  <2> QED
    BY <1>3, <1>4, <2>1, <2>2 DEF Fits
<1> DEFINE from == IF s < a THEN s ELSE a
           to == IF t > b THEN t ELSE b
<1>6. SubSeq(items, 1, lo - 1) \o cache = SubSeq(posted, from, b)
  <2>1. CASE s < a
    <3>1. 1 \in 1 .. t - s + 1 /\ a - s \in 1 .. t - s + 1 /\ s + 1 - 1 = s /\ s + (a - s) - 1 = a - 1
          /\ lo - 1 = a - s
      BY <1>1, <2>1
    <3>2. SubSeq(SubSeq(posted, s, t), 1, a - s) = SubSeq(posted, s + 1 - 1, s + (a - s) - 1)
      <4>1. s \in 1 .. Len(posted) /\ t \in 1 .. Len(posted)
        BY <1>1
      <4> QED
        BY <3>1, <4>1, SubSeqOfSubSeq
    <3>3. SubSeq(items, 1, lo - 1) = SubSeq(posted, s, a - 1)
      BY <1>1, <3>1, <3>2
    <3>4. SubSeq(posted, s, a - 1) \o SubSeq(posted, (a - 1) + 1, b) = SubSeq(posted, s, b)
      <4>1. s \in 1 .. Len(posted) + 1 /\ a - 1 \in s - 1 .. Len(posted) /\ b \in a - 1 .. Len(posted)
        BY <1>1, <2>1
      <4> QED
        BY <4>1, ConcatAdjacentSubSeq
    <3>5. (a - 1) + 1 = a
      BY <1>1
    <3> QED
      BY <1>1, <2>1, <3>3, <3>4, <3>5
  <2>2. CASE ~(s < a)
    <3>1. SubSeq(items, 1, lo - 1) = <<>>
      BY <2>2, SubSeqEmpty
    <3> QED
      BY <1>1, <1>2, <2>2, <3>1, ConcatEmptySeq
  <2> QED
    BY <2>1, <2>2
<1>7. SubSeq(posted, from, b) \o SubSeq(items, hi + 1, Len(items)) = SubSeq(posted, from, to)
  <2>1. CASE t > b
    <3>1. /\ b - s + 2 \in 1 .. t - s + 1 /\ t - s + 1 \in 1 .. t - s + 1
          /\ s + (b - s + 2) - 1 = b + 1 /\ s + (t - s + 1) - 1 = t /\ hi + 1 = b - s + 2
      BY <1>1, <2>1
    <3>2. SubSeq(SubSeq(posted, s, t), b - s + 2, t - s + 1)
            = SubSeq(posted, s + (b - s + 2) - 1, s + (t - s + 1) - 1)
      <4> DEFINE m == b - s + 2
                 n == t - s + 1
      <4>1. s \in 1 .. Len(posted) /\ t \in 1 .. Len(posted)
        BY <1>1
      <4>2. m \in 1 .. t - s + 1 /\ n \in 1 .. t - s + 1
        BY <3>1
      <4> HIDE DEF m, n
      <4>3. SubSeq(SubSeq(posted, s, t), m, n) = SubSeq(posted, s + m - 1, s + n - 1)
        BY <4>1, <4>2, SubSeqOfSubSeq
      <4> QED
        BY <4>3 DEF m, n
    <3>3. SubSeq(items, hi + 1, Len(items)) = SubSeq(posted, b + 1, t)
      BY <1>1, <1>2, <3>1, <3>2
    <3>4. SubSeq(posted, from, b) \o SubSeq(posted, b + 1, t) = SubSeq(posted, from, t)
      <4>1. from \in 1 .. Len(posted) + 1 /\ b \in from - 1 .. Len(posted) /\ t \in b .. Len(posted)
        BY <1>1, <2>1
      <4> QED
        BY <4>1, ConcatAdjacentSubSeq
    <3> QED
      BY <2>1, <3>3, <3>4
  <2>2. CASE ~(t > b)
    <3>1. hi + 1 \in Int /\ Len(items) \in Int /\ Len(items) < hi + 1
      BY <1>1, <1>2, <2>2
    <3>2. SubSeq(items, hi + 1, Len(items)) = <<>>
      BY <3>1, SubSeqEmpty
    <3>3. from \in 1 .. Len(posted) + 1 /\ b \in from - 1 .. Len(posted)
      BY <1>1
    <3>4. SubSeq(posted, from, b) \in Seq(Messages)
      BY <3>3, SpanProperties
    <3> QED
      BY <2>2, <3>2, <3>4, ConcatEmptySeq
  <2> QED
    BY <2>1, <2>2
<1>8. Merged(items, FALSE) = SubSeq(items, 1, lo - 1) \o cache \o SubSeq(items, hi + 1, Len(items))
  <2> HIDE DEF lo, hi
  <2> QED
    BY <1>4 DEF Merged
<1> QED
  BY <1>5, <1>6, <1>7, <1>8

\* A page before the range goes in front of it.
LEMMA PrecedingSpans ==
    ASSUME posted \in Seq(Messages), PostedOnce, NEW a, NEW b, Span(cache, older, a, b), a > 1,
           NEW items, NEW cursor, NEW s, Span(items, cursor, s, a - 1)
    PROVE  Fits(items) /\ Merged(items, TRUE) = SubSeq(posted, s, b)
<1>1. /\ Len(posted) \in Nat
      /\ a \in 1 .. Len(posted) /\ b \in a .. Len(posted) /\ cache = SubSeq(posted, a, b)
      /\ s \in 1 .. Len(posted) /\ a - 1 \in s .. Len(posted) /\ items = SubSeq(posted, s, a - 1)
  BY LenProperties DEF Span
<1>2. Held(items) = {}
  <2>1. Held(items) = {i \in 1 .. (a - 1) - s + 1 : a <= s + i - 1 /\ s + i - 1 <= b}
    BY HeldInSpans
  <2> QED
    BY <1>1, <2>1
<1>3. SubSeq(posted, s, a - 1) \o SubSeq(posted, (a - 1) + 1, b) = SubSeq(posted, s, b)
  <2>1. s \in 1 .. Len(posted) + 1 /\ a - 1 \in s - 1 .. Len(posted) /\ b \in a - 1 .. Len(posted)
    BY <1>1
  <2> QED
    BY <2>1, ConcatAdjacentSubSeq
<1>4. (a - 1) + 1 = a
  BY <1>1
<1> QED
  BY <1>1, <1>2, <1>3, <1>4 DEF Fits, Merged

(* The parts of the invariant. *)

\* What the parts rest on: the places of the events.
LEMMA Setting ==
    ASSUME DeliveryInvariant, NewIsLate
    PROVE  /\ posted \in Seq(Messages) /\ PostedOnce /\ Len(posted) \in Nat
           /\ Old \in Nat /\ Old <= Len(posted)
           /\ feed.events \in Seq(Given) /\ Len(feed.events) \in Nat
           /\ \A j \in 1 .. Len(feed.events) :
                 Event(j) \in Old + 1 .. Len(posted) /\ posted[Event(j)] = feed.events[j]
           /\ unpublished \subseteq Given
<1>1. /\ posted \in Seq(Messages) /\ PostedOnce /\ Len(posted) \in Nat
      /\ Old \in Nat /\ Old <= Len(posted) /\ feed.events \in Seq(Given)
      /\ unpublished \subseteq Given
  BY LenProperties, BoundsAssumption
     DEF DeliveryInvariant, StationTyped, ReadersHonest, NewIsLate, Given
<1>2. Len(feed.events) \in Nat
  BY <1>1, LenProperties
<1>3. ASSUME NEW j \in 1 .. Len(feed.events)
      PROVE  Event(j) \in Old + 1 .. Len(posted) /\ posted[Event(j)] = feed.events[j]
  <2>1. feed.events[j] \in Given
    BY <1>1, ElementOfSeq
  <2>2. Event(j) \in 1 .. Len(posted) /\ posted[Event(j)] = feed.events[j]
    BY <1>1, <2>1, PlacesAreUnique DEF Event
  <2>3. ~(Event(j) \in 1 .. Old)
    BY <2>2 DEF NewIsLate
  <2> QED
    BY <1>1, <2>2, <2>3
<1> QED
  BY <1>1, <1>2, <1>3

\* A horizon further on leaves nothing out either.
LEMMA FollowsFurther ==
    ASSUME DeliveryInvariant, NewIsLate, NEW h \in Nat, NEW k \in Nat, h <= k, Follow(h)
    PROVE  Follow(k)
<1>1. \A i \in 1 .. Len(feed.events) : Event(i) \in Nat
  BY Setting
<1>2. \A p \in 1 .. Len(posted) : p \in Nat
  OBVIOUS
<1>3. \A i \in 1 .. Len(feed.events) :
           Event(i) <= k + 1 \/ \E j \in 1 .. i - 1 : Event(i) <= Event(j) + 1
  <2> TAKE i \in 1 .. Len(feed.events)
  <2>1. Event(i) <= h + 1 \/ \E j \in 1 .. i - 1 : Event(i) <= Event(j) + 1
    BY DEF Follow
  <2>2. Event(i) <= h + 1 => Event(i) <= k + 1
    BY <1>1
  <2> QED
    BY <2>1, <2>2
<1>4. \A p \in 1 .. Len(posted) :
           \/ p <= k \/ posted[p] \in unpublished
           \/ \E j \in 1 .. Len(feed.events) : p <= Event(j)
  <2> TAKE p \in 1 .. Len(posted)
  <2>1. \/ p <= h \/ posted[p] \in unpublished
        \/ \E j \in 1 .. Len(feed.events) : p <= Event(j)
    BY DEF Follow
  <2>2. p <= h => p <= k
    BY <1>2
  <2> QED
    BY <2>1, <2>2
<1> QED
  BY <1>3, <1>4 DEF Follow

\* Each part stays with what it speaks of.
LEMMA FeedStays ==
    ASSUME DeliveryInvariant, NewIsLate, NEW b \in Nat, NEW d \in Nat, b <= d, FeedHolds(b),
           UNCHANGED <<posted, unpublished, feed>>
    PROVE  FeedHolds(d)'
<1>1. FeedHolds(d)
  BY FollowsFurther DEF FeedHolds
<1>2. \A h : Follow(h)' <=> Follow(h)
  BY DEF Follow, Event, Place
<1>3. /\ Fresh(feed.walk)' <=> Fresh(feed.walk)
      /\ \A s, t : Shows(feed.walk, s, t)' <=> Shows(feed.walk, s, t)
  BY DEF Fresh, Shows, Span
<1> QED
  BY <1>1, <1>2, <1>3 DEF FeedHolds

LEMMA RefreshStays ==
    ASSUME RefreshHolds, UNCHANGED <<posted, refresh>>
    PROVE  RefreshHolds'
BY DEF RefreshHolds, Fresh, Shows, Span

LEMMA LoadingStays ==
    ASSUME LoadingHolds, UNCHANGED <<posted, loading>>
    PROVE  LoadingHolds'
BY DEF LoadingHolds, Span

\* The parts put together again.
LEMMA IntactAgain ==
    ASSUME UNCHANGED posted, NEW c \in 1 .. Len(posted), NEW d \in 1 .. Len(posted),
           HasSpan(c, d)', AnchorsHeld(c, d)', FeedHolds(d)', RefreshHolds', LoadingHolds'
    PROVE  Intact'
<1>1. c \in 1 .. Len(posted') /\ d \in 1 .. Len(posted')
  OBVIOUS
<1> QED
  BY <1>1 DEF Intact

\* The steps of the user and of the pump touch nothing of it.
LEMMA IntactStays ==
    ASSUME HistoryInvariant,
           UNCHANGED <<posted, unpublished, overtaken, cache, older, feed, confirmed, refresh,
                       loading>>
    PROVE  HistoryInvariant'
<1>1. NewIsLate'
  BY DEF HistoryInvariant, NewIsLate
<1>2. ASSUME NEW a, NEW b, HasSpan(a, b), AnchorsHeld(a, b), FeedHolds(b), RefreshHolds,
             LoadingHolds
      PROVE  /\ HasSpan(a, b)' /\ AnchorsHeld(a, b)' /\ FeedHolds(b)'
             /\ RefreshHolds' /\ LoadingHolds'
  <2>1. HasSpan(a, b)' /\ AnchorsHeld(a, b)'
    BY <1>2 DEF HasSpan, Span, AnchorsHeld, HeldIn
  <2>2. RefreshHolds' /\ LoadingHolds'
    BY <1>2, RefreshStays, LoadingStays
  <2>3. /\ Fresh(feed.walk)' <=> Fresh(feed.walk)
        /\ \A s, t : Shows(feed.walk, s, t)' <=> Shows(feed.walk, s, t)
        /\ \A h : Follow(h)' <=> Follow(h)
    <3>1. \A h : Follow(h)' <=> Follow(h)
      BY DEF Follow, Event, Place
    <3> QED
      BY <3>1 DEF Fresh, Shows, Span
  <2>4. FeedHolds(b)'
    BY <1>2, <2>3 DEF FeedHolds
  <2> QED
    BY <2>1, <2>2, <2>4
<1>3. Intact => Intact'
  BY <1>2 DEF Intact
<1> QED
  BY <1>1, <1>3 DEF HistoryInvariant

\* The range grows to one that ends no earlier than the place t.
Extends(a, b, t) ==
    \E c, d \in 1 .. Len(posted) :
        /\ HasSpan(c, d)' /\ c <= a /\ b <= d /\ c <= t /\ t <= d /\ confirmed' = posted[t]

\* A page that is applied meets the range: it has the anchor, or goes back to
\* the first message and ends after the oldest one held.
LEMMA ApplyExtends ==
    ASSUME DeliveryInvariant, NewIsLate, NEW a \in 1 .. Len(posted), NEW b \in 1 .. Len(posted),
           HasSpan(a, b), NEW walk, walk.pc = "apply",
           NEW s \in 1 .. Len(posted), NEW t \in 1 .. Len(posted), Shows(walk, s, t),
           HeldIn(walk.anchor, a, b), ApplyPage(walk), UNCHANGED posted
    PROVE  Extends(a, b, t)
<1>1. /\ posted \in Seq(Messages) /\ PostedOnce /\ Len(posted) \in Nat
      /\ Old \in Nat /\ Old <= Len(posted)
  BY Setting
<1>2. /\ a \in 1 .. Old /\ b >= Old /\ a <= b /\ Span(cache, older, a, b)
      /\ older = Before(a)
  BY <1>1 DEF HasSpan, Span
<1>3. /\ t >= Old /\ s <= t /\ Span(walk.items, walk.cursor, s, t)
      /\ walk.cursor = Before(s) /\ walk.items = SubSeq(posted, s, t)
      /\ s = 1 \/ \E i \in s .. t : posted[i] = walk.anchor
  BY <1>1 DEF Shows, Span
<1>4. s <= b /\ a <= t
  <2>1. ASSUME NEW i \in s .. t, posted[i] = walk.anchor
        PROVE  s <= b
    <3>1. PICK j \in a .. b : posted[j] = walk.anchor
      BY DEF HeldIn
    <3>2. i \in 1 .. Len(posted) /\ j \in 1 .. Len(posted)
      BY <1>1, <1>2, <1>3
    <3>3. i = j
      BY <1>1, <2>1, <3>1, <3>2, PlacesAreUnique
    <3> QED
      BY <1>2, <1>3, <3>2, <3>3
  <2> QED
    BY <1>1, <1>2, <1>3, <2>1
<1> DEFINE from == IF s < a THEN s ELSE a
           to == IF t > b THEN t ELSE b
<1>5. Fits(walk.items) /\ Merged(walk.items, FALSE) = SubSeq(posted, from, to)
  BY <1>1, <1>2, <1>3, <1>4, MergedSpans
<1>6. /\ cache # <<>> /\ walk.items # <<>>
      /\ Head(walk.items) = posted[s] /\ Last(walk.items) = posted[t]
  <2>1. Span(cache, older, a, b) /\ Span(walk.items, walk.cursor, s, t)
    BY <1>2, <1>3
  <2>2. cache # <<>>
    BY <1>1, <2>1, SpanEnds
  <2>3. walk.items # <<>> /\ Head(walk.items) = posted[s] /\ Last(walk.items) = posted[t]
    <3>1. PICK items, cursor : items = walk.items /\ cursor = walk.cursor
      OBVIOUS
    <3>2. posted \in Seq(Messages) /\ Span(items, cursor, s, t)
      BY <1>1, <2>1, <3>1
    <3>3. items # <<>> /\ Head(items) = posted[s] /\ Last(items) = posted[t]
      BY <3>2, SpanEnds
    <3> QED
      BY <3>1, <3>3
  <2> QED
    BY <2>2, <2>3
<1>7. /\ from \in 1 .. Old /\ to \in from .. Len(posted) /\ to >= Old
      /\ from <= a /\ b <= to /\ from <= t /\ t <= to
  BY <1>1, <1>2, <1>3, <1>4
<1>8. Head(SubSeq(posted, from, to)) = posted[from]
  BY <1>1, <1>7, HeadTailOfSubSeq
<1>9. MovesBoundary(walk.items, FALSE) <=> s = from
  <2>1. MovesBoundary(walk.items, FALSE) <=> posted[s] = posted[from]
    BY <1>5, <1>6, <1>8 DEF MovesBoundary
  <2>2. posted[s] = posted[from] => s = from
    BY <1>1, <1>7, PlacesAreUnique
  <2> QED
    BY <2>1, <2>2
<1>10. InsertPage(walk.items, walk.cursor, FALSE) /\ confirmed' = NextAnchor(walk.items, confirmed)
  BY <1>5 DEF ApplyPage
<1>11. cache' = SubSeq(posted, from, to) /\ older' = Before(from)
  <2>1. /\ cache' = Merged(walk.items, FALSE)
        /\ older' = IF MovesBoundary(walk.items, FALSE) THEN walk.cursor ELSE older
    BY <1>10 DEF InsertPage
  <2>2. s # from => from = a
    BY <1>1, <1>2
  <2> QED
    BY <1>2, <1>3, <1>5, <1>9, <2>1, <2>2
<1>12. from \in 1 .. Len(posted) /\ to \in 1 .. Len(posted)
  BY <1>1, <1>7
<1>13. HasSpan(from, to)'
  <2> HIDE DEF from, to
  <2> QED
    BY <1>7, <1>11, <1>12 DEF HasSpan, Span, Before
<1>14. confirmed' = posted[t]
  BY <1>6, <1>10 DEF NextAnchor
<1> HIDE DEF from, to
<1> QED
  BY <1>7, <1>12, <1>13, <1>14 DEF Extends

(* The station's steps. *)

\* A new message is not published yet, and after every span.
LEMMA GrowthKeepsHistory ==
    ASSUME DeliveryInvariant, HistoryInvariant, NEW id \in Messages, id \notin Given,
           posted' = Append(posted, id), unpublished' = unpublished \cup {id},
           UNCHANGED <<overtaken, cache, older, feed, confirmed, refresh, loading>>
    PROVE  HistoryInvariant'
<1>1. /\ NewIsLate /\ posted \in Seq(Messages) /\ PostedOnce /\ Len(posted) \in Nat
      /\ Old \in Nat /\ Old <= Len(posted) /\ feed.events \in Seq(Given)
      /\ unpublished \subseteq Given
  BY Setting DEF HistoryInvariant
<1>2. /\ \A x \in Given : Place(x)' = Place(x)
      /\ \A i \in 1 .. Len(posted) : posted'[i] = posted[i]
      /\ posted'[Len(posted) + 1] = id /\ Len(posted') = Len(posted) + 1
  BY <1>1, PlacesStay
<1>3. \A i \in 1 .. Len(posted) : i \in 1 .. Len(posted') /\ posted[i] \in Given
  BY <1>1, <1>2, GivenIs
<1>4. NewIsLate'
  <2>1. ASSUME NEW i \in 1 .. Old
        PROVE  /\ posted'[i] \notin unpublished' \cup Requests
               /\ \A j \in 1 .. Len(feed'.events) : feed'.events[j] # posted'[i]
    <3>1. i \in 1 .. Len(posted)
      BY <1>1
    <3>2. posted'[i] = posted[i] /\ posted[i] # id
      BY <1>2, <1>3, <3>1
    <3> QED
      BY <1>1, <3>2 DEF NewIsLate
  <2>2. Old <= Len(posted')
    BY <1>1, <1>2
  <2> QED
    BY <2>1, <2>2 DEF NewIsLate
<1>5. ASSUME NEW a \in 1 .. Len(posted), NEW b \in 1 .. Len(posted),
             HasSpan(a, b), AnchorsHeld(a, b), FeedHolds(b), RefreshHolds, LoadingHolds
      PROVE  Intact'
  <2>1. ASSUME NEW items, NEW cursor, NEW s, NEW t, Span(items, cursor, s, t)
        PROVE  Span(items, cursor, s, t)'
    BY <1>1, <2>1, SpansStay
  <2>2. HasSpan(a, b)'
    <3>1. Span(cache, older, a, b) /\ a \in 1 .. Old /\ b >= Old
      BY <1>5 DEF HasSpan
    <3> QED
      BY <1>2, <2>1, <3>1 DEF HasSpan, Span
  <2>3. \A m, i, j : i \in 1 .. Len(posted) /\ j \in 1 .. Len(posted) /\ HeldIn(m, i, j)
           => \E k \in i .. j : posted'[k] = m
    <3> SUFFICES ASSUME NEW m, NEW i \in 1 .. Len(posted), NEW j \in 1 .. Len(posted),
                        HeldIn(m, i, j)
                 PROVE  \E k \in i .. j : posted'[k] = m
      OBVIOUS
    <3>1. PICK k \in i .. j : posted[k] = m
      BY DEF HeldIn
    <3>2. k \in 1 .. Len(posted)
      BY <1>1
    <3> QED
      BY <1>2, <3>1, <3>2
  <2>4. AnchorsHeld(a, b)'
    BY <1>5, <2>3 DEF AnchorsHeld, HeldIn
  <2>5. ASSUME NEW walk, NEW s \in 1 .. Len(posted), NEW t \in 1 .. Len(posted), Shows(walk, s, t)
        PROVE  Shows(walk, s, t)'
    <3>1. /\ walk.pc \in {"walk", "apply"} /\ t >= Old /\ Span(walk.items, walk.cursor, s, t)
          /\ IF walk.pc = "walk" THEN s > 1 ELSE s = 1 \/ HeldIn(walk.anchor, s, t)
      BY <2>5 DEF Shows, HeldIn
    <3>2. Span(walk.items, walk.cursor, s, t)'
      BY <2>1, <3>1
    <3>3. HeldIn(walk.anchor, s, t) => \E k \in s .. t : posted'[k] = walk.anchor
      BY <2>3
    <3> QED
      BY <3>1, <3>2, <3>3 DEF Shows
  <2>6. \A i \in 1 .. Len(feed.events) : Event(i)' = Event(i)
    <3> TAKE i \in 1 .. Len(feed.events)
    <3>1. feed.events[i] \in Given
      BY <1>1, ElementOfSeq
    <3>2. Place(feed.events[i])' = Place(feed.events[i])
      <4> DEFINE x == feed.events[i]
      <4>1. x \in Given /\ x' = x
        BY <3>1
      <4> QED
        BY <1>2, <4>1 DEF Place
    <3> QED
      BY <3>2 DEF Event
  <2>7. ASSUME NEW h \in 1 .. Len(posted), Follow(h)
        PROVE  Follow(h)'
    <3>1. \A i \in 1 .. Len(feed.events) : \A j \in 1 .. i - 1 : j \in 1 .. Len(feed.events)
      BY <1>1, LenProperties
    <3>2. \A i \in 1 .. Len(feed'.events) :
             Event(i)' <= h + 1 \/ \E j \in 1 .. i - 1 : Event(i)' <= Event(j)' + 1
      BY <2>6, <2>7, <3>1 DEF Follow
    <3>3. ASSUME NEW p \in 1 .. Len(posted')
          PROVE  \/ p <= h \/ posted'[p] \in unpublished'
                 \/ \E j \in 1 .. Len(feed'.events) : p <= Event(j)'
      <4>1. CASE p = Len(posted) + 1
        BY <1>2, <4>1
      <4>2. CASE p # Len(posted) + 1
        <5>1. p \in 1 .. Len(posted)
          BY <1>1, <1>2, <4>2
        <5>2. posted'[p] = posted[p]
          BY <1>2, <5>1
        <5>3. \/ p <= h \/ posted[p] \in unpublished
              \/ \E j \in 1 .. Len(feed.events) : p <= Event(j)
          BY <2>7, <5>1 DEF Follow
        <5> QED
          BY <2>6, <5>2, <5>3
      <4> QED
        BY <4>1, <4>2
    <3> QED
      BY <3>2, <3>3 DEF Follow
  <2>8. FeedHolds(b)'
    <3>1. CASE \E s, t \in 1 .. Len(posted) : Shows(feed.walk, s, t) /\ Follow(t)
      <4>1. PICK s \in 1 .. Len(posted), t \in 1 .. Len(posted) : Shows(feed.walk, s, t) /\ Follow(t)
        BY <3>1
      <4>2. Shows(feed.walk, s, t)'
        BY <2>5, <4>1 DEF Shows, Span
      <4>3. Follow(t)' /\ s \in 1 .. Len(posted') /\ t \in 1 .. Len(posted')
        BY <1>3, <2>7, <4>1
      <4> QED
        BY <4>2, <4>3 DEF FeedHolds
    <3>2. CASE feed.walk.pc = "live" /\ Follow(b)
      BY <2>7, <3>2 DEF FeedHolds
    <3>3. CASE Fresh(feed.walk) \/ (feed.walk.pc = "off" /\ feed.events = <<>>)
      BY <3>3 DEF FeedHolds, Fresh
    <3> QED
      BY <1>5, <3>1, <3>2, <3>3 DEF FeedHolds
  <2>9. RefreshHolds'
    <3>1. CASE \E s, t \in 1 .. Len(posted) : Shows(refresh, s, t)
      <4>1. PICK s \in 1 .. Len(posted), t \in 1 .. Len(posted) : Shows(refresh, s, t)
        BY <3>1
      <4>2. Shows(refresh, s, t)'
        BY <2>5, <4>1 DEF Shows, Span
      <4> QED
        BY <1>3, <4>2 DEF RefreshHolds
    <3>2. CASE Fresh(refresh) \/ refresh.pc = "off"
      BY <3>2 DEF RefreshHolds, Fresh
    <3> QED
      BY <1>5, <3>1, <3>2 DEF RefreshHolds
  <2>10. LoadingHolds'
    <3> SUFFICES ASSUME loading.pc = "apply"
                 PROVE  /\ loading.cursor \in 2 .. Len(posted')
                        /\ \E s \in 1 .. Len(posted') :
                              Span(loading.items, loading.older, s, loading.cursor - 1)'
      BY DEF LoadingHolds
    <3>1. PICK s \in 1 .. Len(posted) : Span(loading.items, loading.older, s, loading.cursor - 1)
      BY <1>5 DEF LoadingHolds
    <3>2. loading.cursor \in 2 .. Len(posted)
      BY <1>5 DEF LoadingHolds
    <3>3. Span(loading.items, loading.older, s, loading.cursor - 1)'
      BY <2>1, <3>1 DEF Span
    <3> QED
      BY <1>1, <1>2, <1>3, <3>2, <3>3
  <2> QED
    BY <1>3, <2>2, <2>4, <2>8, <2>9, <2>10 DEF Intact
<1>6. Intact => Intact'
  BY <1>5 DEF Intact
<1> QED
  BY <1>4, <1>6 DEF HistoryInvariant

\* What is published follows what was published, or the station overtakes itself.
LEMMA PublicationKeepsHistory ==
    ASSUME DeliveryInvariant, HistoryInvariant, NEW id \in unpublished \cup Requests, id \in Given,
           Publish(id), UNCHANGED <<posted, cache, older, confirmed, refresh, loading>>
    PROVE  HistoryInvariant'
<1>1. /\ NewIsLate /\ posted \in Seq(Messages) /\ PostedOnce /\ Len(posted) \in Nat
      /\ Old \in Nat /\ Old <= Len(posted)
      /\ feed.events \in Seq(Given) /\ Len(feed.events) \in Nat
      /\ \A j \in 1 .. Len(feed.events) :
            Event(j) \in Old + 1 .. Len(posted) /\ posted[Event(j)] = feed.events[j]
      /\ unpublished \subseteq Given
  BY Setting DEF HistoryInvariant
<1>2. Place(id) \in 1 .. Len(posted) /\ posted[Place(id)] = id
  BY <1>1, PlacesAreUnique
<1>3. /\ unpublished' = unpublished \ {id} /\ feed'.walk = feed.walk
      /\ feed'.events = IF Connected THEN Append(feed.events, id) ELSE feed.events
      /\ overtaken' = (overtaken \/ \E u \in unpublished : Place(u) < Place(id))
  BY DEF Publish
<1>4. /\ Len(Append(feed.events, id)) = Len(feed.events) + 1
      /\ \A j \in 1 .. Len(feed.events) : Append(feed.events, id)[j] = feed.events[j]
      /\ Append(feed.events, id)[Len(feed.events) + 1] = id
  BY <1>1, AppendProperties
<1>5. NewIsLate'
  <2>1. \A i \in 1 .. Old : posted[i] # id
    BY DEF HistoryInvariant, NewIsLate
  <2>2. ASSUME NEW i \in 1 .. Old, NEW j \in 1 .. Len(feed'.events)
        PROVE  feed'.events[j] # posted[i]
    <3>1. CASE j \in 1 .. Len(feed.events)
      BY <1>1, <1>3, <1>4, <3>1 DEF NewIsLate
    <3>2. CASE j \notin 1 .. Len(feed.events)
      <4>1. j = Len(feed.events) + 1 /\ Connected
        BY <1>1, <1>3, <1>4, <3>2
      <4> QED
        BY <1>3, <1>4, <2>1, <4>1
    <3> QED
      BY <3>1, <3>2
  <2> QED
    BY <1>1, <1>3, <2>2 DEF NewIsLate
<1>6. ASSUME ~overtaken', NEW a \in 1 .. Len(posted), NEW b \in 1 .. Len(posted),
             HasSpan(a, b), AnchorsHeld(a, b), FeedHolds(b), RefreshHolds, LoadingHolds
      PROVE  Intact'
  <2>1. HasSpan(a, b)' /\ AnchorsHeld(a, b)'
    BY <1>3, <1>6 DEF HasSpan, Span, AnchorsHeld, HeldIn
  <2>2. RefreshHolds' /\ LoadingHolds'
    BY <1>6, RefreshStays, LoadingStays
  <2>3. ASSUME NEW h \in 1 .. Len(posted), Follow(h), Connected
        PROVE  Follow(h)'
    <3>0. PICK n \in Nat, place \in 1 .. Len(posted) : n = Len(feed.events) /\ place = Place(id)
      BY <1>1, <1>2
    <3>1. /\ \A j \in 1 .. n : Event(j)' = Event(j)
          /\ Event(n + 1)' = place /\ Len(feed'.events) = n + 1
      <4>1. feed'.events = Append(feed.events, id) /\ posted' = posted
        BY <1>3, <2>3
      <4>2. /\ Len(feed'.events) = n + 1 /\ feed'.events[n + 1] = id
            /\ \A j \in 1 .. n : feed'.events[j] = feed.events[j]
        BY <1>4, <3>0, <4>1
      <4>3. \A j \in 1 .. n : Event(j)' = Event(j)
        BY <4>1, <4>2 DEF Event, Place
      <4>4. Event(n + 1)' = place
        BY <3>0, <4>1, <4>2 DEF Event, Place
      <4> QED
        BY <4>2, <4>3, <4>4
    <3>2. place <= h + 1 \/ \E j \in 1 .. n : place <= Event(j) + 1
      <4> SUFFICES ASSUME place > h + 1
                   PROVE  \E j \in 1 .. n : place <= Event(j) + 1
        BY <1>1, <1>2, <3>0
      <4>1. place - 1 \in 1 .. Len(posted) /\ ~(place - 1 <= h)
        BY <1>1, <1>2, <3>0
      <4>2. \/ posted[place - 1] \in unpublished
            \/ \E j \in 1 .. n : place - 1 <= Event(j)
        BY <2>3, <3>0, <4>1 DEF Follow
      <4>3. posted[place - 1] \notin unpublished
        <5>1. Place(posted[place - 1]) = place - 1
          BY <1>1, <4>1, PlacesAreUnique
        <5>2. place - 1 < place
          BY <1>2, <3>0
        <5>3. ~ \E u \in unpublished : Place(u) < place
          BY <1>3, <1>6, <3>0
        <5> QED
          BY <5>1, <5>2, <5>3
      <4>4. PICK j \in 1 .. n : place - 1 <= Event(j)
        BY <4>2, <4>3
      <4>5. place <= Event(j) + 1
        BY <1>1, <1>2, <3>0, <4>4
      <4> QED
        BY <4>5
    <3>3. ASSUME NEW i \in 1 .. n + 1
          PROVE  Event(i)' <= h + 1 \/ \E j \in 1 .. i - 1 : Event(i)' <= Event(j)' + 1
      <4>1. CASE i \in 1 .. n
        <5>1. Event(i) <= h + 1 \/ \E j \in 1 .. i - 1 : Event(i) <= Event(j) + 1
          BY <2>3, <3>0, <4>1 DEF Follow
        <5>2. \A j \in 1 .. i - 1 : j \in 1 .. n
          BY <1>1, <3>0, <4>1
        <5> QED
          BY <3>1, <4>1, <5>1, <5>2
      <4>2. CASE i \notin 1 .. n
        <5>1. i = n + 1 /\ i - 1 = n
          BY <1>1, <3>0, <4>2
        <5> QED
          BY <3>1, <3>2, <5>1
      <4> QED
        BY <4>1, <4>2
    <3>4. ASSUME NEW p \in 1 .. Len(posted)
          PROVE  \/ p <= h \/ posted[p] \in unpublished'
                 \/ \E j \in 1 .. n + 1 : p <= Event(j)'
      <4>1. \/ p <= h \/ posted[p] \in unpublished
            \/ \E j \in 1 .. n : p <= Event(j)
        BY <2>3, <3>0 DEF Follow
      <4>2. CASE posted[p] = id
        <5>1. p = place
          BY <1>1, <1>2, <3>0, <4>2, PlacesAreUnique
        <5>2. n + 1 \in 1 .. n + 1 /\ p <= Event(n + 1)'
          BY <1>1, <1>2, <3>0, <3>1, <5>1
        <5> QED
          BY <5>2
      <4>3. CASE posted[p] # id
        <5>1. \A j \in 1 .. n : j \in 1 .. n + 1
          BY <1>1
        <5> QED
          BY <1>3, <3>1, <4>1, <4>3, <5>1
      <4> QED
        BY <4>2, <4>3
    <3> QED
      BY <1>3, <3>1, <3>3, <3>4 DEF Follow
  <2>4. FeedHolds(b)'
    <3>1. CASE ~Connected
      BY <1>3, <1>6, <3>1 DEF FeedHolds, Connected, Fresh, Shows
    <3>2. CASE Connected /\ Fresh(feed.walk)
      BY <1>3, <3>2 DEF FeedHolds, Fresh
    <3>3. CASE Connected /\ feed.walk.pc = "live" /\ Follow(b)
      BY <1>3, <2>3, <3>3 DEF FeedHolds
    <3>4. CASE Connected /\ \E s, t \in 1 .. Len(posted) : Shows(feed.walk, s, t) /\ Follow(t)
      <4>1. PICK s \in 1 .. Len(posted), t \in 1 .. Len(posted) : Shows(feed.walk, s, t) /\ Follow(t)
        BY <3>4
      <4>2. Shows(feed.walk, s, t)' /\ Follow(t)'
        BY <1>3, <2>3, <3>4, <4>1 DEF Shows, Span
      <4> QED
        BY <4>2 DEF FeedHolds
    <3> QED
      BY <1>6, <3>1, <3>2, <3>3, <3>4 DEF FeedHolds, Connected
  <2> QED
    BY <2>1, <2>2, <2>4, IntactAgain
<1>7. ~overtaken' => Intact'
  BY <1>3, <1>6 DEF Intact, HistoryInvariant
<1> QED
  BY <1>5, <1>7 DEF HistoryInvariant

\* A post repeated after its receipt is published again, and is not new.
LEMMA StationKeepsHistory ==
    ASSUME DeliveryInvariant, HistoryInvariant, Station
    PROVE  HistoryInvariant'
<1>1. /\ posted \in Seq(Messages) /\ unpublished \subseteq Given
      /\ wire \subseteq Requests \X Nat /\ posting \subseteq Requests \X Nat
      /\ \A w \in posting : w[1] \in Given
  BY DEF DeliveryInvariant, StationTyped, StationHonest, Given
<1>2. ASSUME NEW w \in wire, Post(w)
      PROVE  HistoryInvariant'
  <2>1. UNCHANGED <<overtaken, cache, older, feed, confirmed, refresh, loading>>
    BY <1>2 DEF Post, database, readers
  <2>2. CASE IsNew(w[1])
    <3>1. /\ posted' = Append(posted, w[1]) /\ unpublished' = unpublished \cup {w[1]}
          /\ w[1] \notin Given
      BY <1>2, <2>2 DEF Post, IsNew, Given
    <3>2. w[1] \in Messages
      BY <1>1, <1>2, RequestNumbers
    <3> QED
      BY <2>1, <3>1, <3>2, GrowthKeepsHistory
  <2>3. CASE ~IsNew(w[1])
    BY <1>2, <2>1, <2>3, IntactStays DEF Post
  <2> QED
    BY <2>2, <2>3
<1>3. ASSUME NEW id \in Others, PostOther(id)
      PROVE  HistoryInvariant'
  <2>1. /\ posted' = Append(posted, id) /\ unpublished' = unpublished \cup {id}
        /\ id \notin Given /\ id \in Messages
        /\ UNCHANGED <<overtaken, cache, older, feed, confirmed, refresh, loading>>
    BY <1>3 DEF PostOther, database, readers, Given, Messages
  <2> QED
    BY <2>1, GrowthKeepsHistory
<1>4. CASE PublishOther
  <2>1. PICK id \in unpublished \cap Others : Publish(id)
    BY <1>4 DEF PublishOther
  <2>2. UNCHANGED <<posted, cache, older, confirmed, refresh, loading>>
    BY <1>4 DEF PublishOther, database
  <2> QED
    BY <1>1, <2>1, <2>2, PublicationKeepsHistory
<1>5. ASSUME NEW w \in posting, Answer(w)
      PROVE  HistoryInvariant'
  <2>1. /\ Publish(w[1]) /\ w[1] \in Given /\ w[1] \in Requests
        /\ UNCHANGED <<posted, cache, older, confirmed, refresh, loading>>
    BY <1>1, <1>5 DEF Answer, database
  <2> QED
    BY <2>1, PublicationKeepsHistory
<1> QED
  BY <1>2, <1>3, <1>4, <1>5 DEF Station

(* The steps of the readers. *)

\* A queue of events that only shrinks names no message from before.
LEMMA NewStaysLate ==
    ASSUME DeliveryInvariant, NewIsLate, UNCHANGED posted, unpublished' \subseteq unpublished,
           \A j \in 1 .. Len(feed'.events) :
              \E k \in 1 .. Len(feed.events) : feed'.events[j] = feed.events[k]
    PROVE  NewIsLate'
BY DEF NewIsLate

\* The horizon depends on the station and the queue of events.
LEMMA FollowStays ==
    ASSUME UNCHANGED <<posted, unpublished>>, feed'.events = feed.events
    PROVE  \A h : Follow(h)' <=> Follow(h)
<1>1. \A i : Event(i)' = Event(i)
  BY DEF Event, Place
<1> QED
  BY <1>1 DEF Follow

\* The connection: it subscribes before it reads, so the page and the queue of events
\* leave nothing out; an event is the next message or one that is held.
LEMMA FeedKeepsHistory ==
    ASSUME DeliveryInvariant, HistoryInvariant,
           Connect \/ FeedWalks \/ FeedApplies \/ FeedTakesEvent \/ FeedBreaks
    PROVE  HistoryInvariant'
<1>1. /\ NewIsLate /\ posted \in Seq(Messages) /\ PostedOnce /\ Len(posted) \in Nat
      /\ Old \in Nat /\ Old <= Len(posted)
      /\ feed.events \in Seq(Given) /\ Len(feed.events) \in Nat
      /\ \A j \in 1 .. Len(feed.events) :
            Event(j) \in Old + 1 .. Len(posted) /\ posted[Event(j)] = feed.events[j]
  BY Setting DEF HistoryInvariant
<1>2. UNCHANGED <<posted, unpublished, overtaken, refresh, loading>>
  BY DEF Connect, FeedWalks, FeedApplies, FeedTakesEvent, FeedBreaks, station
<1>3. ASSUME Connect \/ FeedBreaks
      PROVE  /\ UNCHANGED <<cache, older, confirmed>> /\ feed'.events = <<>>
             /\ feed'.walk.anchor = feed.walk.anchor
             /\ feed'.walk.pc = "off" \/ Fresh(feed'.walk)
  <2>1. CASE Connect
    BY <2>1 DEF Connect, database, At, Fresh
  <2>2. CASE FeedBreaks
    BY <2>2 DEF FeedBreaks, database, At
  <2> QED
    BY <1>3, <2>1, <2>2
<1>4. ASSUME FeedTakesEvent
      PROVE  /\ Tail(feed.events) \in Seq(Given) /\ Len(Tail(feed.events)) = Len(feed.events) - 1
             /\ \A j \in 1 .. Len(feed.events) - 1 : Tail(feed.events)[j] = feed.events[j + 1]
             /\ Len(feed.events) >= 1 /\ Head(feed.events) = feed.events[1]
  <2>1. feed.events # <<>>
    BY <1>4 DEF FeedTakesEvent
  <2>2. Len(feed.events) >= 1
    BY <1>1, <2>1, EmptySeq
  <2> QED
    BY <1>1, <2>1, <2>2, HeadTailProperties
<1>5. NewIsLate'
  <2>1. CASE Connect \/ FeedBreaks
    BY <1>1, <1>2, <1>3, <2>1, NewStaysLate
  <2>2. CASE FeedWalks \/ FeedApplies
    <3>1. feed'.events = feed.events
      BY <2>2 DEF FeedWalks, FeedApplies
    <3> QED
      BY <1>1, <1>2, <3>1, NewStaysLate
  <2>3. CASE FeedTakesEvent
    <3>1. feed'.events = Tail(feed.events)
      BY <2>3 DEF FeedTakesEvent
    <3>2. ASSUME NEW j \in 1 .. Len(feed'.events)
          PROVE  \E k \in 1 .. Len(feed.events) : feed'.events[j] = feed.events[k]
      <4>1. j + 1 \in 1 .. Len(feed.events) /\ feed'.events[j] = feed.events[j + 1]
        BY <1>1, <1>4, <2>3, <3>1
      <4> QED
        BY <4>1
    <3> QED
      BY <1>1, <1>2, <3>2, NewStaysLate
  <2> QED
    BY <2>1, <2>2, <2>3
<1>6. ASSUME NEW a \in 1 .. Len(posted), NEW b \in 1 .. Len(posted),
             HasSpan(a, b), AnchorsHeld(a, b), FeedHolds(b), RefreshHolds, LoadingHolds
      PROVE  Intact'
  <2>1. RefreshHolds' /\ LoadingHolds'
    BY <1>2, <1>6, RefreshStays, LoadingStays
  <2>2. a \in 1 .. Old /\ b >= Old /\ a <= b /\ Span(cache, older, a, b)
    BY <1>1, <1>6 DEF HasSpan, Span
  <2>3. CASE Connect \/ FeedBreaks
    <3>1. HasSpan(a, b)' /\ AnchorsHeld(a, b)'
      BY <1>2, <1>3, <1>6, <2>3 DEF HasSpan, Span, AnchorsHeld, HeldIn
    <3>2. FeedHolds(b)'
      BY <1>3, <2>3 DEF FeedHolds, Fresh
    <3> QED
      BY <1>2, <2>1, <3>1, <3>2, IntactAgain
  <2>4. CASE FeedWalks
    <3>1. /\ feed.walk.pc = "walk" /\ feed'.walk = Walk(feed.walk) /\ feed'.events = feed.events
          /\ UNCHANGED <<cache, older, confirmed>>
      BY <2>4 DEF FeedWalks, database
    <3>2. Walk(feed.walk).anchor = feed.walk.anchor
      BY DEF Walk
    <3>3. HasSpan(a, b)' /\ AnchorsHeld(a, b)'
      BY <1>2, <1>6, <3>1, <3>2 DEF HasSpan, Span, AnchorsHeld, HeldIn
    <3>4. feed.walk.anchor \in Messages
      <4>1. PICK i \in a .. b : posted[i] = feed.walk.anchor
        BY <1>6 DEF AnchorsHeld, HeldIn
      <4>2. i \in 1 .. Len(posted)
        BY <1>1, <2>2, <4>1
      <4> QED
        BY <1>1, <4>1, <4>2, ElementOfSeq
    <3>5. \A h : Follow(h) => Follow(h)'
      BY <1>2, <3>1, FollowStays
    <3>6. ASSUME NEW s \in 1 .. Len(posted), NEW t \in 1 .. Len(posted),
                 Shows(Walk(feed.walk), s, t), Follow(t)
          PROVE  FeedHolds(b)'
      <4>1. Shows(feed.walk, s, t)'
        BY <1>2, <3>1, <3>6 DEF Shows, Span
      <4>2. Follow(t)' /\ s \in 1 .. Len(posted') /\ t \in 1 .. Len(posted')
        BY <1>2, <3>5, <3>6
      <4> QED
        BY <4>1, <4>2 DEF FeedHolds
    <3>7. Old \in 1 .. Len(posted) /\ Len(posted) \in 1 .. Len(posted)
      BY <1>1, <2>2
    <3>8. ASSUME Fresh(feed.walk)
          PROVE  FeedHolds(b)'
      <4>1. PICK s \in 1 .. Len(posted) : Shows(Walk(feed.walk), s, Len(posted))
        BY <1>1, <3>1, <3>4, <3>7, <3>8, WalkShows
      <4>2. Follow(Len(posted))
        BY <1>1 DEF Follow
      <4> QED
        BY <3>6, <3>7, <4>1, <4>2
    <3>9. ASSUME \E s, t \in 1 .. Len(posted) : Shows(feed.walk, s, t) /\ Follow(t)
          PROVE  FeedHolds(b)'
      <4>1. PICK r \in 1 .. Len(posted), t \in 1 .. Len(posted) : Shows(feed.walk, r, t) /\ Follow(t)
        BY <3>9
      <4>2. PICK s \in 1 .. Len(posted) : Shows(Walk(feed.walk), s, t)
        BY <1>1, <3>1, <3>4, <3>7, <4>1, WalkShows
      <4> QED
        BY <3>6, <4>1, <4>2
    <3>10. FeedHolds(b)'
      <4>1. \/ Fresh(feed.walk)
            \/ \E s, t \in 1 .. Len(posted) : Shows(feed.walk, s, t) /\ Follow(t)
        BY <1>6, <3>1 DEF FeedHolds
      <4> QED
        BY <3>8, <3>9, <4>1
    <3> QED
      BY <1>2, <2>1, <3>3, <3>10, IntactAgain
  <2>5. CASE FeedApplies
    <3>1. /\ feed.walk.pc = "apply" /\ ApplyPage(feed.walk)
          /\ feed'.walk = At("live", NextAnchor(feed.walk.items, feed.walk.anchor))
          /\ feed'.events = feed.events
      BY <2>5 DEF FeedApplies
    <3>2. PICK s \in 1 .. Len(posted), t \in 1 .. Len(posted) : Shows(feed.walk, s, t) /\ Follow(t)
      BY <1>6, <3>1 DEF FeedHolds, Fresh
    <3>3. HeldIn(feed.walk.anchor, a, b)
      BY <1>6 DEF AnchorsHeld
    <3>4. PICK c \in 1 .. Len(posted), d \in 1 .. Len(posted) :
              /\ HasSpan(c, d)' /\ c <= a /\ b <= d /\ c <= t /\ t <= d
              /\ confirmed' = posted[t]
              /\ NextAnchor(feed.walk.items, feed.walk.anchor) = posted[t]
      <4>1. NewIsLate /\ UNCHANGED posted /\ HasSpan(a, b)
        BY <1>1, <1>2, <1>6
      <4>2. PICK walk : walk = feed.walk
        OBVIOUS
      <4>3. walk.pc = "apply" /\ Shows(walk, s, t) /\ HeldIn(walk.anchor, a, b)
        BY <3>1, <3>2, <3>3, <4>2
      <4>4. ApplyPage(walk)
        BY <3>1, <4>2 DEF ApplyPage, InsertPage
      <4>5. Extends(a, b, t)
        BY <4>1, <4>3, <4>4, ApplyExtends, Zenon
      <4>6. walk.items # <<>> /\ Last(walk.items) = posted[t]
        BY <1>1, <4>3, SpanEnds DEF Shows
      <4> QED
        BY <4>2, <4>5, <4>6 DEF Extends, NextAnchor
    <3>5. feed'.walk.pc = "live" /\ feed'.walk.anchor = posted[t]
      BY <3>1, <3>4 DEF At
    <3>6. AnchorsHeld(c, d)'
      <4>1. t \in c .. d
        BY <1>1, <3>4
      <4>2. \A i \in a .. b : i \in c .. d
        BY <1>1, <3>4
      <4>3. HeldIn(confirmed, c, d)' /\ HeldIn(feed.walk.anchor, c, d)'
        BY <1>2, <3>4, <3>5, <4>1 DEF HeldIn
      <4>4. (refresh.pc # "off" => HeldIn(refresh.anchor, c, d))'
        BY <1>2, <1>6, <4>2 DEF AnchorsHeld, HeldIn
      <4> QED
        BY <4>3, <4>4 DEF AnchorsHeld
    <3>7. Follow(d)'
      <4>1. Follow(d)
        BY <1>1, <3>2, <3>4, FollowsFurther
      <4> QED
        BY <1>2, <3>1, <4>1, FollowStays
    <3>8. FeedHolds(d)'
      BY <3>5, <3>7 DEF FeedHolds
    <3> QED
      BY <1>2, <2>1, <3>4, <3>6, <3>8, IntactAgain
  <2>6. CASE FeedTakesEvent
    <3>1. /\ feed.walk.pc = "live" /\ cache' = WithEvent(feed.events[1])
          /\ confirmed' = feed.events[1] /\ UNCHANGED older
          /\ feed'.walk = At("live", feed.events[1]) /\ feed'.events = Tail(feed.events)
      BY <1>4, <2>6 DEF FeedTakesEvent
    <3>2. Follow(b)
      BY <1>6, <3>1 DEF FeedHolds, Fresh, Shows
    <3>3. PICK p \in Old + 1 .. Len(posted) : p = Event(1) /\ posted[p] = feed.events[1]
      BY <1>1, <1>4, <2>6
    <3>4. p <= b + 1
      <4>1. 1 \in 1 .. Len(feed.events) /\ ~ \E j \in 1 .. 1 - 1 : TRUE
        BY <1>1, <1>4, <2>6
      <4> QED
        BY <3>2, <3>3, <4>1 DEF Follow
    <3>5. \E d \in b .. Len(posted) : p <= d /\ d >= p /\ HasSpan(a, d)'
      <4>1. CASE p <= b
        <5>1. p \in a .. b
          BY <1>1, <2>2, <4>1
        <5>2. feed.events[1] \in ToSet(cache)
          BY <1>1, <2>2, <3>3, <5>1, HeldInSpans
        <5>3. cache' = cache
          BY <3>1, <5>2 DEF WithEvent
        <5>4. HasSpan(a, b)'
          BY <1>2, <1>6, <3>1, <5>3 DEF HasSpan, Span
        <5> QED
          BY <1>1, <4>1, <5>4
      <4>2. CASE ~(p <= b)
        <5>1. p = b + 1 /\ p - 1 = b
          BY <1>1, <3>4, <4>2
        <5>2. feed.events[1] \notin ToSet(cache)
          <6>1. \A i \in a .. b : i \in 1 .. Len(posted) /\ i # p
            BY <1>1, <2>2, <4>2
          <6>2. \A i \in a .. b : posted[i] # posted[p]
            BY <1>1, <6>1, PlacesAreUnique
          <6>3. \A m : m \in ToSet(cache) <=> \E i \in a .. b : posted[i] = m
            BY <1>1, <2>2, HeldInSpans
          <6> QED
            BY <3>3, <6>2, <6>3
        <5>3. cache' = Append(cache, posted[p])
          BY <3>1, <3>3, <5>2 DEF WithEvent
        <5>4. /\ a \in 1 .. Len(posted) /\ p \in a .. Len(posted) /\ p \in 1 .. Len(posted)
          BY <1>1, <2>2, <5>1
        <5>5. SubSeq(posted, a, p) = SubSeq(posted, a, p - 1) \o <<posted[p]>>
          BY <1>1, <5>4, SubSeqRecursiveSecond
        <5>6. Append(cache, posted[p]) = cache \o <<posted[p]>>
          <6>1. cache \in Seq(Messages) /\ posted[p] \in Messages
            BY <1>1, <2>2, <5>4, SpanEnds, ElementOfSeq
          <6> QED
            BY <6>1, AppendIsConcat
        <5>7. cache' = SubSeq(posted, a, p)
          BY <2>2, <5>1, <5>3, <5>5, <5>6 DEF Span
        <5>8. p >= Old /\ older = Before(a)
          BY <1>1, <2>2 DEF Span
        <5>9. HasSpan(a, p)'
          BY <1>2, <2>2, <3>1, <5>4, <5>7, <5>8 DEF HasSpan, Span, Before
        <5> QED
          BY <1>1, <5>1, <5>4, <5>9
      <4> QED
        BY <4>1, <4>2
    <3>6. PICK d \in b .. Len(posted) : p <= d /\ HasSpan(a, d)'
      BY <3>5
    <3>7. d \in 1 .. Len(posted) /\ b <= d /\ p \in a .. d
      BY <1>1, <2>2, <3>6
    <3>8. AnchorsHeld(a, d)'
      <4>1. feed'.walk.anchor = posted[p] /\ confirmed' = posted[p]
        BY <3>1, <3>3 DEF At
      <4>2. \A i \in a .. b : i \in a .. d
        BY <1>1, <3>7
      <4>3. HeldIn(confirmed, a, d)' /\ HeldIn(feed.walk.anchor, a, d)'
        BY <1>2, <3>7, <4>1 DEF HeldIn
      <4>4. (refresh.pc # "off" => HeldIn(refresh.anchor, a, d))'
        BY <1>2, <1>6, <4>2 DEF AnchorsHeld, HeldIn
      <4> QED
        BY <4>3, <4>4 DEF AnchorsHeld
    <3>9. PICK n \in Nat : n + 1 = Len(feed.events)
      <4>1. Len(feed.events) - 1 \in Nat /\ (Len(feed.events) - 1) + 1 = Len(feed.events)
        BY <1>1, <1>4, <2>6
      <4> QED
        BY <4>1
    <3>10. /\ Len(feed'.events) = n
           /\ \A j \in 1 .. n : Event(j)' = Event(j + 1)
      <4>1. Len(feed'.events) = n
        BY <1>4, <2>6, <3>1, <3>9
      <4>2. ASSUME NEW j \in 1 .. n
            PROVE  feed'.events[j] = feed.events[j + 1]
        BY <1>4, <2>6, <3>1, <3>9
      <4> QED
        BY <1>2, <4>1, <4>2 DEF Event, Place
    <3>11. Follow(d)'
      <4>1. ASSUME NEW i \in 1 .. n
            PROVE  Event(i)' <= d + 1 \/ \E j \in 1 .. i - 1 : Event(i)' <= Event(j)' + 1
        <5>1. /\ i + 1 \in 1 .. Len(feed.events) /\ (i + 1) - 1 = i
              /\ Event(i + 1) \in Nat
          BY <1>1, <3>9
        <5>2. Event(i + 1) <= b + 1 \/ \E j \in 1 .. i : Event(i + 1) <= Event(j) + 1
          BY <3>2, <5>1 DEF Follow
        <5>3. CASE Event(i + 1) <= b + 1
          <6>1. Event(i + 1) <= d + 1
            BY <1>1, <3>7, <5>1, <5>3
          <6> QED
            BY <3>10, <6>1
        <5>4. ASSUME NEW j \in 1 .. i, Event(i + 1) <= Event(j) + 1
              PROVE  Event(i)' <= d + 1 \/ \E k \in 1 .. i - 1 : Event(i)' <= Event(k)' + 1
          <6>1. CASE j = 1
            <7>1. Event(i + 1) <= d + 1
              BY <1>1, <3>3, <3>7, <5>1, <5>4, <6>1
            <7> QED
              BY <3>10, <7>1
          <6>2. CASE j # 1
            <7>1. j - 1 \in 1 .. i - 1 /\ j - 1 \in 1 .. n /\ (j - 1) + 1 = j
              BY <6>2
            <7>2. Event(j - 1)' = Event(j) /\ Event(i)' = Event(i + 1)
              BY <3>10, <7>1
            <7> QED
              BY <5>4, <7>1, <7>2
          <6> QED
            BY <6>1, <6>2
        <5> QED
          BY <5>2, <5>3, <5>4
      <4>2. ASSUME NEW q \in 1 .. Len(posted)
            PROVE  \/ q <= d \/ posted[q] \in unpublished
                   \/ \E j \in 1 .. n : q <= Event(j)'
        <5>1. \/ q <= b \/ posted[q] \in unpublished
              \/ \E j \in 1 .. Len(feed.events) : q <= Event(j)
          BY <3>2 DEF Follow
        <5>2. q <= b => q <= d
          BY <1>1, <3>7
        <5>3. ASSUME NEW j \in 1 .. Len(feed.events), q <= Event(j)
              PROVE  q <= d \/ \E k \in 1 .. n : q <= Event(k)'
          <6>1. CASE j = 1
            BY <1>1, <3>3, <3>7, <5>3, <6>1
          <6>2. CASE j # 1
            <7>1. j - 1 \in 1 .. n /\ (j - 1) + 1 = j
              BY <3>9, <6>2
            <7>2. Event(j - 1)' = Event(j)
              BY <3>10, <7>1
            <7> QED
              BY <5>3, <7>1, <7>2
          <6> QED
            BY <6>1, <6>2
        <5> QED
          BY <5>1, <5>2, <5>3
      <4> QED
        BY <1>2, <3>10, <4>1, <4>2 DEF Follow
    <3>12. FeedHolds(d)'
      BY <3>1, <3>11 DEF FeedHolds, At
    <3> QED
      BY <1>2, <2>1, <3>6, <3>7, <3>8, <3>12, IntactAgain
  <2> QED
    BY <2>3, <2>4, <2>5, <2>6
<1>7. Intact => Intact'
  BY <1>6 DEF Intact
<1> QED
  BY <1>2, <1>5, <1>7 DEF HistoryInvariant

\* A refresh starts from an anchor the client holds, so what it reads meets the range.
LEMMA RefreshKeepsHistory ==
    ASSUME DeliveryInvariant, HistoryInvariant, StartRefresh \/ RefreshWalks \/ RefreshApplies
    PROVE  HistoryInvariant'
<1>1. /\ NewIsLate /\ posted \in Seq(Messages) /\ PostedOnce /\ Len(posted) \in Nat
      /\ Old \in Nat /\ Old <= Len(posted)
  BY Setting DEF HistoryInvariant
<1>2. UNCHANGED <<posted, unpublished, overtaken, feed, loading>>
  BY DEF StartRefresh, RefreshWalks, RefreshApplies, station
<1>3. NewIsLate'
  BY <1>1, <1>2, NewStaysLate
<1>4. ASSUME NEW a \in 1 .. Len(posted), NEW b \in 1 .. Len(posted),
             HasSpan(a, b), AnchorsHeld(a, b), FeedHolds(b), RefreshHolds, LoadingHolds
      PROVE  Intact'
  <2>1. LoadingHolds'
    BY <1>2, <1>4, LoadingStays
  <2>2. a \in 1 .. Old /\ b >= Old /\ a <= b /\ Span(cache, older, a, b)
    BY <1>1, <1>4 DEF HasSpan, Span
  <2>3. CASE StartRefresh \/ RefreshWalks
    <3>1. UNCHANGED <<cache, older, confirmed>>
      BY <2>3 DEF StartRefresh, RefreshWalks, database
    <3>2. HasSpan(a, b)'
      BY <1>2, <1>4, <3>1 DEF HasSpan, Span
    <3>3. FeedHolds(b)'
      BY <1>1, <1>2, <1>4, FeedStays
    <3>4. HeldIn(confirmed, a, b)' /\ HeldIn(feed.walk.anchor, a, b)'
      BY <1>2, <1>4, <3>1 DEF AnchorsHeld, HeldIn
    <3>5. RefreshHolds' /\ HeldIn(refresh.anchor, a, b)'
      <4>1. CASE StartRefresh
        <5>1. Fresh(refresh') /\ refresh'.anchor = confirmed
          BY <4>1 DEF StartRefresh, At, Fresh
        <5>2. HeldIn(refresh.anchor, a, b)'
          BY <1>2, <1>4, <5>1 DEF AnchorsHeld, HeldIn
        <5> QED
          BY <5>1, <5>2 DEF RefreshHolds, Fresh
      <4>2. CASE RefreshWalks
        <5>1. refresh.pc = "walk" /\ refresh' = Walk(refresh)
          BY <4>2 DEF RefreshWalks
        <5>2. HeldIn(refresh.anchor, a, b)
          BY <1>4, <5>1 DEF AnchorsHeld
        <5>3. refresh'.anchor = refresh.anchor
          BY <5>1 DEF Walk
        <5>4. HeldIn(refresh.anchor, a, b)'
          BY <1>2, <5>2, <5>3 DEF HeldIn
        <5>5. refresh.anchor \in Messages
          <6>1. PICK i \in a .. b : posted[i] = refresh.anchor
            BY <5>2 DEF HeldIn
          <6>2. i \in 1 .. Len(posted)
            BY <1>1, <2>2, <6>1
          <6> QED
            BY <1>1, <6>1, <6>2, ElementOfSeq
        <5>6. Old \in 1 .. Len(posted) /\ Len(posted) \in 1 .. Len(posted)
          BY <1>1, <2>2
        <5>7. PICK t \in 1 .. Len(posted) :
                  \/ Fresh(refresh) /\ t = Len(posted)
                  \/ \E s \in 1 .. Len(posted) : Shows(refresh, s, t)
          BY <1>4, <5>1, <5>6 DEF RefreshHolds
        <5>8. PICK s \in 1 .. Len(posted) : Shows(Walk(refresh), s, t)
          BY <1>1, <5>1, <5>5, <5>6, <5>7, WalkShows
        <5>9. Shows(refresh, s, t)'
          BY <1>2, <5>1, <5>8 DEF Shows, Span
        <5>10. RefreshHolds'
          BY <1>2, <5>9 DEF RefreshHolds
        <5> QED
          BY <5>4, <5>10
      <4> QED
        BY <2>3, <4>1, <4>2
    <3>6. AnchorsHeld(a, b)'
      BY <3>4, <3>5 DEF AnchorsHeld
    <3> QED
      BY <1>2, <2>1, <3>2, <3>3, <3>5, <3>6, IntactAgain
  <2>4. CASE RefreshApplies
    <3>1. refresh.pc = "apply" /\ ApplyPage(refresh) /\ refresh' = NoWalk
      BY <2>4 DEF RefreshApplies
    <3>2. PICK s \in 1 .. Len(posted), t \in 1 .. Len(posted) : Shows(refresh, s, t)
      BY <1>4, <3>1 DEF RefreshHolds, Fresh
    <3>3. PICK c \in 1 .. Len(posted), d \in 1 .. Len(posted) :
              HasSpan(c, d)' /\ c <= a /\ b <= d /\ c <= t /\ t <= d /\ confirmed' = posted[t]
      <4>1. NewIsLate /\ UNCHANGED posted /\ HasSpan(a, b)
        BY <1>1, <1>2, <1>4
      <4>2. PICK walk : walk = refresh
        OBVIOUS
      <4>3. walk.pc = "apply" /\ Shows(walk, s, t) /\ HeldIn(walk.anchor, a, b)
        BY <1>4, <3>1, <3>2, <4>2 DEF AnchorsHeld
      <4>4. ApplyPage(walk)
        BY <3>1, <4>2 DEF ApplyPage, InsertPage
      <4>5. Extends(a, b, t)
        BY <4>1, <4>3, <4>4, ApplyExtends, Zenon
      <4> QED
        BY <4>5 DEF Extends
    <3>4. refresh'.pc = "off"
      BY <3>1 DEF NoWalk, At
    <3>5. AnchorsHeld(c, d)'
      <4>1. t \in c .. d
        BY <1>1, <3>3
      <4>2. \A i \in a .. b : i \in c .. d
        BY <1>1, <3>3
      <4>3. HeldIn(confirmed, c, d)'
        BY <1>2, <3>3, <4>1 DEF HeldIn
      <4>4. HeldIn(feed.walk.anchor, c, d)'
        BY <1>2, <1>4, <4>2 DEF AnchorsHeld, HeldIn
      <4> QED
        BY <3>4, <4>3, <4>4 DEF AnchorsHeld
    <3>6. FeedHolds(d)'
      BY <1>1, <1>2, <1>4, <3>3, FeedStays
    <3>7. RefreshHolds'
      BY <3>4 DEF RefreshHolds
    <3> QED
      BY <1>2, <2>1, <3>3, <3>5, <3>6, <3>7, IntactAgain
  <2> QED
    BY <2>3, <2>4
<1>5. Intact => Intact'
  BY <1>4 DEF Intact
<1> QED
  BY <1>2, <1>3, <1>5 DEF HistoryInvariant

\* An older page joins the head it was asked for, or is dropped.
LEMMA OlderKeepsHistory ==
    ASSUME DeliveryInvariant, HistoryInvariant, LoadOlder \/ OlderApplies
    PROVE  HistoryInvariant'
<1>1. /\ NewIsLate /\ posted \in Seq(Messages) /\ PostedOnce /\ Len(posted) \in Nat
      /\ Old \in Nat /\ Old <= Len(posted)
  BY Setting DEF HistoryInvariant
<1>2. UNCHANGED <<posted, unpublished, overtaken, feed, confirmed, refresh>>
  BY DEF LoadOlder, OlderApplies, station
<1>3. NewIsLate'
  BY <1>1, <1>2, NewStaysLate
<1>4. ASSUME NEW a \in 1 .. Len(posted), NEW b \in 1 .. Len(posted),
             HasSpan(a, b), AnchorsHeld(a, b), FeedHolds(b), RefreshHolds, LoadingHolds
      PROVE  Intact'
  <2>1. RefreshHolds' /\ FeedHolds(b)'
    BY <1>1, <1>2, <1>4, RefreshStays, FeedStays
  <2>2. /\ a \in 1 .. Old /\ b >= Old /\ a <= b /\ Span(cache, older, a, b)
        /\ older = Before(a)
    BY <1>1, <1>4 DEF HasSpan, Span
  <2>3. ASSUME NEW c \in 1 .. a
        PROVE  AnchorsHeld(c, b)'
    <3>1. \A i \in a .. b : i \in c .. b
      BY <1>1, <2>2
    <3> QED
      BY <1>2, <1>4, <3>1 DEF AnchorsHeld, HeldIn
  <2>4. CASE LoadOlder
    <3>1. /\ older # 0 /\ UNCHANGED <<cache, older>>
          /\ loading' = [pc |-> "apply", cursor |-> older,
                         items |-> Page(older).items, older |-> Page(older).older]
      BY <2>4 DEF LoadOlder, database
    <3>2. older = a /\ a > 1 /\ a \in 0 .. Len(posted) /\ Len(posted) >= 1
      BY <1>1, <2>2, <3>1 DEF Before
    <3>3. PageEnd(a) = a - 1
      BY <3>2 DEF PageEnd, Newest
    <3>4. PICK s \in 1 .. a - 1 : Span(Page(a).items, Page(a).older, s, a - 1)
      BY <1>1, <3>2, <3>3, PageIsASpan
    <3>5. s \in 1 .. Len(posted) /\ a \in 2 .. Len(posted)
      BY <1>1, <3>2
    <3>6. /\ loading'.cursor = a /\ loading'.items = Page(a).items
          /\ loading'.older = Page(a).older
      BY <3>1, <3>2
    <3>7. Span(loading.items, loading.older, s, loading.cursor - 1)'
      BY <1>2, <3>4, <3>6 DEF Span
    <3>8. LoadingHolds'
      BY <1>2, <3>5, <3>6, <3>7 DEF LoadingHolds
    <3>9. HasSpan(a, b)'
      BY <1>2, <1>4, <3>1 DEF HasSpan, Span
    <3>10. a \in 1 .. a
      BY <2>2
    <3> QED
      BY <1>2, <2>1, <2>3, <3>8, <3>9, <3>10, IntactAgain
  <2>5. CASE OlderApplies
    <3>1. loading.pc = "apply" /\ loading' = NoLoad
      BY <2>5 DEF OlderApplies
    <3>2. LoadingHolds'
      BY <3>1 DEF LoadingHolds, NoLoad
    <3>3. PICK s \in 1 .. Len(posted) : Span(loading.items, loading.older, s, loading.cursor - 1)
      BY <1>4, <3>1 DEF LoadingHolds
    <3>4. loading.cursor \in 2 .. Len(posted)
      BY <1>4, <3>1 DEF LoadingHolds
    <3>5. CASE StillOlder /\ Fits(loading.items)
      <4>1. InsertPage(loading.items, loading.older, TRUE)
        BY <2>5, <3>5 DEF OlderApplies
      <4>2. loading.cursor = a /\ a > 1
        BY <1>1, <2>2, <3>4, <3>5 DEF StillOlder, Before
      <4>3. Span(loading.items, loading.older, s, a - 1)
        BY <3>3, <4>2
      <4>4. Merged(loading.items, TRUE) = SubSeq(posted, s, b)
        BY <1>1, <2>2, <4>2, <4>3, PrecedingSpans
      <4>5. loading.items # <<>> /\ Head(loading.items) = posted[s]
        BY <1>1, <4>3, SpanEnds
      <4>6. s \in 1 .. a /\ b \in s .. Len(posted) /\ s \in 1 .. Old /\ s \in 1 .. Len(posted)
        BY <1>1, <2>2, <4>2, <4>3 DEF Span
      <4>7. Head(SubSeq(posted, s, b)) = posted[s]
        BY <1>1, <4>6, HeadTailOfSubSeq
      <4>8. MovesBoundary(loading.items, TRUE)
        BY <4>4, <4>5, <4>7 DEF MovesBoundary
      <4>9. cache' = SubSeq(posted, s, b) /\ older' = Before(s)
        <5>1. loading.older = Before(s)
          BY <4>3 DEF Span
        <5> QED
          BY <4>1, <4>4, <4>8, <5>1 DEF InsertPage
      <4>10. HasSpan(s, b)'
        BY <1>2, <2>2, <4>6, <4>9 DEF HasSpan, Span, Before
      <4> QED
        BY <1>2, <2>1, <2>3, <3>2, <4>6, <4>10, IntactAgain
    <3>6. CASE ~(StillOlder /\ Fits(loading.items))
      <4>1. UNCHANGED <<cache, older>>
        BY <2>5, <3>6 DEF OlderApplies, history
      <4>2. HasSpan(a, b)'
        BY <1>2, <1>4, <4>1 DEF HasSpan, Span
      <4>3. a \in 1 .. a
        BY <2>2
      <4> QED
        BY <1>2, <2>1, <2>3, <3>2, <4>2, <4>3, IntactAgain
    <3> QED
      BY <3>5, <3>6
  <2> QED
    BY <2>4, <2>5
<1>5. Intact => Intact'
  BY <1>4 DEF Intact
<1> QED
  BY <1>2, <1>3, <1>5 DEF HistoryInvariant

\* A restart breaks the connection: the next one reads pages down to its anchor.
LEMMA RestartsKeepHistory ==
    ASSUME DeliveryInvariant, HistoryInvariant, ClientRestarts \/ StationRestarts
    PROVE  HistoryInvariant'
<1>1. /\ NewIsLate /\ posted \in Seq(Messages) /\ PostedOnce /\ Len(posted) \in Nat
      /\ Old \in Nat /\ Old <= Len(posted)
  BY Setting DEF HistoryInvariant
<1>2. /\ UNCHANGED <<posted, overtaken, cache, older>> /\ unpublished' \subseteq unpublished
      /\ feed'.walk.pc = "off" /\ feed'.events = <<>>
  <2>1. CASE ClientRestarts
    BY <2>1 DEF ClientRestarts, station, history, At
  <2>2. CASE StationRestarts
    BY <2>2 DEF StationRestarts, database, At
  <2> QED
    BY <2>1, <2>2
<1>3. NewIsLate'
  BY <1>1, <1>2, NewStaysLate
<1>4. \A b : FeedHolds(b)'
  BY <1>2 DEF FeedHolds
<1>5. ASSUME NEW a \in 1 .. Len(posted), NEW b \in 1 .. Len(posted),
             HasSpan(a, b), AnchorsHeld(a, b), FeedHolds(b), RefreshHolds, LoadingHolds
      PROVE  Intact'
  <2>1. HasSpan(a, b)'
    BY <1>2, <1>5 DEF HasSpan, Span
  <2>2. CASE ClientRestarts
    <3>1. /\ confirmed' = Last(cache) /\ feed'.walk.anchor = Last(cache)
          /\ refresh' = NoWalk /\ loading' = NoLoad
      BY <2>2 DEF ClientRestarts, At
    <3>2. Last(cache) = posted[b] /\ b \in a .. b
      <4>1. Span(cache, older, a, b) /\ a <= b
        BY <1>1, <1>5 DEF HasSpan, Span
      <4> QED
        BY <1>1, <4>1, SpanEnds
    <3>3. refresh'.pc = "off" /\ loading'.pc = "off"
      BY <3>1 DEF NoWalk, NoLoad, At
    <3>4. AnchorsHeld(a, b)'
      BY <1>2, <3>1, <3>2, <3>3 DEF AnchorsHeld, HeldIn
    <3>5. RefreshHolds' /\ LoadingHolds'
      BY <3>3 DEF RefreshHolds, LoadingHolds
    <3> QED
      BY <1>2, <1>4, <2>1, <3>4, <3>5, IntactAgain
  <2>3. CASE StationRestarts
    <3>1. /\ UNCHANGED <<confirmed, refresh, loading>>
          /\ feed'.walk.anchor = feed.walk.anchor
      BY <2>3 DEF StationRestarts, At
    <3>2. AnchorsHeld(a, b)'
      BY <1>2, <1>5, <3>1 DEF AnchorsHeld, HeldIn
    <3>3. RefreshHolds' /\ LoadingHolds'
      BY <1>2, <1>5, <3>1, RefreshStays, LoadingStays
    <3> QED
      BY <1>2, <1>4, <2>1, <3>2, <3>3, IntactAgain
  <2> QED
    BY <2>2, <2>3
<1>6. Intact => Intact'
  BY <1>5 DEF Intact
<1> QED
  BY <1>2, <1>3, <1>6 DEF HistoryInvariant

\* The client begins with the last messages of the station, and not connected.
LEMMA InitHistory == Init => HistoryInvariant
<1> SUFFICES ASSUME Init PROVE HistoryInvariant
  OBVIOUS
<1>1. DeliveryInvariant
  BY InitDelivery
<1>2. /\ Old \in Nat /\ MaxSends \in Nat /\ Known \subseteq 1 .. Old
      /\ posted = [i \in 1 .. Old |-> MaxSends + i] /\ posted \in Seq(Messages)
  BY <1>1, BoundsAssumption DEF Init, DeliveryInvariant, StationTyped
<1>3. Len(posted) = Old /\ \A i \in 1 .. Old : posted[i] = MaxSends + i
  <2>1. DOMAIN posted = 1 .. Old
    BY <1>2
  <2> QED
    BY <1>2, <2>1, LenProperties
<1>4. feed.events = <<>> /\ feed.walk.pc = "off" /\ unpublished = {}
  BY DEF Init, At
<1>5. NewIsLate
  <2>1. Len(feed.events) = 0
    BY <1>4, EmptySeq
  <2>2. \A i \in 1 .. Old : posted[i] \notin Requests
    BY <1>2, <1>3 DEF Requests
  <2> QED
    BY <1>2, <1>3, <1>4, <2>1, <2>2 DEF NewIsLate
<1>6. PICK k \in Known : /\ cache = SubSeq(posted, Old - k + 1, Old)
                         /\ older = IF k = Old THEN 0 ELSE Old - k + 1
  BY DEF Init
<1> DEFINE a == Old - k + 1
<1>7. k \in 1 .. Old /\ a \in 1 .. Old /\ Old \in a .. Len(posted) /\ Old \in 1 .. Len(posted)
      /\ (a = 1 <=> k = Old)
  BY <1>2, <1>3, <1>6
<1>8. HasSpan(a, Old)
  BY <1>2, <1>3, <1>6, <1>7 DEF HasSpan, Span, Before
<1>9. AnchorsHeld(a, Old)
  <2>1. Last(cache) = posted[Old]
    <3>1. Span(cache, older, a, Old)
      BY <1>8 DEF HasSpan
    <3>2. posted \in Seq(Messages)
      BY <1>2
    <3> HIDE DEF a
    <3> QED
      BY <3>1, <3>2, SpanEnds
  <2>2. confirmed = Last(cache) /\ feed.walk.anchor = Last(cache) /\ refresh.pc = "off"
    BY DEF Init, At, NoWalk
  <2>3. Old \in a .. Old
    BY <1>2, <1>7
  <2> QED
    BY <2>1, <2>2, <2>3 DEF AnchorsHeld, HeldIn
<1>10. FeedHolds(Old) /\ RefreshHolds /\ LoadingHolds
  BY <1>4 DEF Init, NoWalk, NoLoad, At, FeedHolds, RefreshHolds, LoadingHolds
<1>11. Intact
  <2>1. a \in 1 .. Len(posted) /\ Old \in 1 .. Len(posted)
    BY <1>2, <1>3, <1>7
  <2> HIDE DEF a
  <2> QED
    BY <1>8, <1>9, <1>10, <2>1 DEF Intact
<1> QED
  BY <1>5, <1>11 DEF HistoryInvariant

-----------------------------------------------------------------------------
(* The theorems. *)

\* In every behaviour of the outbox, the station and the readers, what the
\* client reads the station has, and every row is backed by what it says.
THEOREM DeliveryHolds == Spec => []DeliveryInvariant
<1>1. DeliveryInvariant /\ [Next]_vars => DeliveryInvariant'
  <2> SUFFICES ASSUME DeliveryInvariant, [Next]_vars PROVE DeliveryInvariant'
    OBVIOUS
  <2>1. CASE UNCHANGED vars
    <3>1. UNCHANGED <<station, outbox, pump, feed, refresh, attempts, resent>>
      BY <2>1 DEF vars, database, readers, counters
    <3>2. /\ posted \in Seq(Messages) /\ Honest(feed.walk) /\ Honest(refresh)
          /\ feed.events \in Seq(Given)
      BY DEF DeliveryInvariant, StationTyped, ReadersHonest
    <3> QED
      BY <3>1, <3>2, HonestReadIsSafe
  <2>2. CASE Next
    BY <2>2, UserKeepsDelivery, PumpKeepsDelivery, StationKeepsDelivery, ReadersKeepDelivery,
       RestartsKeepDelivery DEF Next
  <2> QED
    BY <2>1, <2>2
<1> QED
  BY <1>1, InitDelivery, PTL DEF Spec

\* However often a request is made, by a retry after a lost answer, by a request
\* the station executes long after its timeout or around a restart, the station
\* has its message once.
THEOREM NothingIsPostedTwice == Spec => []PostedOnce
<1>1. DeliveryInvariant => PostedOnce
  BY DEF DeliveryInvariant
<1> QED
  BY <1>1, DeliveryHolds, PTL

\* A request goes out once for the send and once for each retry of the user:
\* flushes, reconnections and restarts send nothing again.
THEOREM NothingIsSentUnasked == Spec => []OneAttemptPerSend
<1>1. DeliveryInvariant => OneAttemptPerSend
  BY DEF DeliveryInvariant, RowsHold, RowHolds, OneAttemptPerSend
<1> QED
  BY <1>1, DeliveryHolds, PTL

\* A row that left the outbox as acknowledged has its message on the station,
\* and a message withdrawn before any retry never gets there.
THEOREM TheOutboxIsTrue == Spec => []FatesAreTrue
<1>1. DeliveryInvariant => FatesAreTrue
  <2> SUFFICES ASSUME DeliveryInvariant, NEW r \in Requests
               PROVE  /\ outbox[r] = "acknowledged" => r \in ToSet(posted)
                      /\ (outbox[r] = "withdrawn" /\ resent[r] = 0)
                            => r \notin ToSet(posted) /\ ~OnItsWay(r)
    BY DEF FatesAreTrue
  <2>1. /\ outbox[r] = "acknowledged" => r \in Given
        /\ outbox[r] = "withdrawn" => attempts[r] <= resent[r]
        /\ r \in Given => attempts[r] >= 1
    BY DEF DeliveryInvariant, RowsHold, RowHolds
  <2>2. OnItsWay(r) => attempts[r] >= 1
    BY DEF DeliveryInvariant, StationHonest, OnItsWay
  <2>3. attempts[r] \in Nat
    BY DEF DeliveryInvariant, SenderTyped
  <2> QED
    BY <2>1, <2>2, <2>3 DEF Given
<1> QED
  BY <1>1, DeliveryHolds, PTL

\* In every behaviour the client holds one span of the station's messages that its
\* pages and its events extend, until the station publishes out of order.
THEOREM HistoryHolds == Spec => []HistoryInvariant
<1>1. DeliveryInvariant /\ HistoryInvariant /\ [Next]_vars => HistoryInvariant'
  <2> SUFFICES ASSUME DeliveryInvariant, HistoryInvariant, [Next]_vars PROVE HistoryInvariant'
    OBVIOUS
  <2>1. CASE UNCHANGED vars \/ User \/ Pump
    <3>1. UNCHANGED <<posted, unpublished, overtaken, cache, older, feed, confirmed, refresh,
                      loading>>
      <4>1. CASE UNCHANGED vars
        BY <4>1 DEF vars, station, database, readers
      <4>2. CASE User
        BY <4>2 DEF User, Send, Withdraw, Resend, DeleteFailed, station, history, readers
      <4>3. CASE Pump
        BY <4>3 DEF Pump, Flush, Begin, Acknowledge, AttemptFails, station, database, history,
                    readers
      <4> QED
        BY <2>1, <4>1, <4>2, <4>3
    <3> QED
      BY <3>1, IntactStays
  <2>2. CASE Station
    BY <2>2, StationKeepsHistory
  <2>3. CASE Readers
    BY <2>3, FeedKeepsHistory, RefreshKeepsHistory, OlderKeepsHistory DEF Readers
  <2>4. CASE ClientRestarts \/ StationRestarts
    BY <2>4, RestartsKeepHistory
  <2> QED
    BY <2>1, <2>2, <2>3, <2>4 DEF Next
<1> QED
  BY <1>1, InitHistory, DeliveryHolds, PTL DEF Spec

\* Unless the station publishes out of order, the client's messages are one range of
\* the conversation whose beginning it knows, whatever mix of pages, events,
\* refreshes, lost connections and restarts brought them; and a live connection with
\* nothing left to take has the newest message.
THEOREM NothingIsMissing == Spec => []HistoryHasNoGap
<1>1. DeliveryInvariant /\ HistoryInvariant => HistoryHasNoGap
  <2> SUFFICES ASSUME DeliveryInvariant, HistoryInvariant, ~overtaken
               PROVE  HistoryHasNoGap
    BY DEF HistoryHasNoGap
  <2>1. /\ posted \in Seq(Messages) /\ Len(posted) \in Nat /\ DOMAIN posted = 1 .. Len(posted)
        /\ Len(feed.events) \in Nat
    BY Setting, LenProperties DEF HistoryInvariant
  <2>2. PICK a \in 1 .. Len(posted), b \in 1 .. Len(posted) : HasSpan(a, b) /\ FeedHolds(b)
    BY DEF HistoryInvariant, Intact
  <2>3. /\ Span(cache, older, a, b) /\ a <= b /\ cache = SubSeq(posted, a, b)
        /\ older = IF a = 1 THEN 0 ELSE a
    BY <2>1, <2>2 DEF HasSpan, Span, Before
  <2>4. Len(cache) = b - a + 1 /\ Last(cache) = posted[b]
    BY <2>1, <2>3, SpanEnds
  <2>5. a + Len(cache) - 1 = b
    BY <2>1, <2>4
  <2>6. IsRange(a)
    BY <2>1, <2>3, <2>5 DEF IsRange
  <2>7. ASSUME AtRest
        PROVE  Last(cache) = Last(posted)
    <3>1. feed.walk.pc = "live" /\ feed.events = <<>> /\ unpublished = {}
      BY <2>7 DEF AtRest
    <3>2. Follow(b)
      BY <2>2, <3>1 DEF FeedHolds, Fresh, Shows
    <3>3. Len(feed.events) = 0
      BY <3>1, EmptySeq
    <3>4. Len(posted) \in 1 .. Len(posted)
      BY <2>1, <2>2
    <3>5. Len(posted) <= b
      BY <2>1, <3>1, <3>2, <3>3, <3>4 DEF Follow
    <3>6. Len(posted) = b
      <4>1. b \in Nat /\ b <= Len(posted) /\ Len(posted) \in Nat
        BY <2>1
      <4> QED
        BY <3>5, <4>1
    <3> QED
      BY <2>4, <3>6 DEF Last
  <2> QED
    BY <2>1, <2>6, <2>7 DEF HistoryHasNoGap
<1> QED
  BY <1>1, DeliveryHolds, HistoryHolds, PTL
=============================================================================
