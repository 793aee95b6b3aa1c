-------------------------- MODULE SessionTurnProofs --------------------------
(***************************************************************************)
(* What SessionTurn keeps for any inputs, replies, strategies and limits.  *)
(***************************************************************************)
EXTENDS SessionTurn, OrderProofs, SequenceTheorems, FiniteSetTheorems, TLAPS

(***************************************************************************)
(* The shapes of a session and of what is around it.                       *)
(***************************************************************************)
CallShapes    == [tool : Tools, rejected : BOOLEAN]
PendingShapes == [delivery : {"fresh", "sent"}, result : {"none", "ok", "bad"}]
EntryShapes   == [kind : EntryKinds, of : SUBSET (Input \cup Calls), closed : SUBSET Calls]
StepShapes    == [purpose : Purposes \cup {"none"}, consumed : SUBSET Input]
ContextShapes ==
  [purpose : {"none", "Compaction", "Handoff"}, attempts : Nat, source : Nat, keep : Nat]

Outcomes == {"None", "Finished", "Failed", "Cancelled"}
Failures == {"none", "overflow", "document", "other"}
Pendings == UNION {[S -> PendingShapes] : S \in SUBSET Calls}

Sessions ==
  [mail : SUBSET Input, turn : Nat, turns : Nat, cancel : BOOLEAN, failures : Nat,
   retry : BOOLEAN, context : ContextShapes, step : StepShapes,
   outcome : Outcomes, failure : Failures, calls : Seq(CallShapes), pending : Pendings,
   batch : SUBSET Calls, waitFor : Nat, noticed : BOOLEAN, entries : Seq(EntryShapes),
   generation : Nat, anchored : BOOLEAN]

Places == {"down", "top", "results", "park", "backoff", "model", "cancelling", "dispatch"}

CallKinds == {"assistant", "direct", "notified", "pending", "carried"}

(* A call is known wherever it is spoken of. *)
CallsKnown(s) ==
  /\ Len(s.calls) <= MaxCalls
  /\ DOMAIN s.pending \subseteq DOMAIN s.calls
  /\ s.batch \subseteq DOMAIN s.calls
  /\ s.waitFor <= Len(s.calls)
  /\ \A i \in DOMAIN s.entries :
       s.entries[i].kind \in CallKinds => s.entries[i].of \subseteq DOMAIN s.calls

TasksKnown ==
  /\ place \in Places
  /\ live \subseteq DOMAIN session.calls /\ sent \subseteq live /\ orphan \subseteq live
  /\ seen \subseteq Calls
  /\ queue \subseteq (DOMAIN session.calls) \X {"ok", "bad"}
  /\ place = "results" => live \subseteq seen

MailKnown ==
  /\ session.mail \subseteq accepted /\ session.step.consumed \subseteq accepted
  /\ accepted \subseteq Input
  /\ session.turn <= session.turns

(* What a step, a context transition and failures say of one another. *)
Fits(s, a) ==
  /\ s.step.purpose = "none" => s.step = NoStep
  /\ s.context.purpose = "none" => s.context = NoContext
  /\ s.step.purpose = "Conversation" => s.context = NoContext
  /\ s.step.purpose \in {"Compaction", "Handoff"} =>
       s.context.purpose = s.step.purpose /\ s.context.attempts < ContextLimit
  /\ s.context.attempts <= ContextLimit
  /\ s.context.attempts = ContextLimit => s.failures = 0
  /\ s.context.keep <= s.context.source /\ s.context.source <= a
  /\ a \in 0 .. Len(s.entries)
  /\ s.failures > 0 /\ s.step = NoStep /\ ~s.cancel => s.noticed

(* What the runner's place says of the session. *)
PlaceFits(p, s) ==
  /\ p \in {"model", "cancelling"} => s.step # NoStep
  /\ p = "cancelling" => s.cancel
  /\ p = "backoff" => s.step = NoStep /\ s.failures > 0 /\ s.turn # 0 /\ ~s.cancel

(* The transcript. *)
Response(s, i) == i \in DOMAIN s.entries /\ s.entries[i].kind = "assistant"
Answer(s, j, c) ==
  /\ j \in DOMAIN s.entries /\ s.entries[j].kind \in {"pending", "direct"} /\ c \in s.entries[j].of
Reported(s) == ShownIn(s.entries, {"direct", "notified"})

(* Only a response may say nothing, and no result is reported of a call *)
(* that has none.                                                       *)
EntriesSay(s) ==
  /\ \A i \in DOMAIN s.entries : s.entries[i].kind # "assistant" => s.entries[i].of # {}
  /\ Unfinished(s) \cap Reported(s) = {}

(* Responses have calls of their own. *)
CallsApart(s) ==
  \A i, j \in DOMAIN s.entries :
    Response(s, i) /\ Response(s, j) /\ i # j => s.entries[i].of \cap s.entries[j].of = {}

(* Only calls of the last response, which ends the entries, are unanswered. *)
FreshIsLast(s, a) ==
  Fresh(s) # {} =>
    /\ s.step = NoStep /\ s.entries # <<>> /\ a < Len(s.entries)
    /\ Response(s, Len(s.entries)) /\ Fresh(s) \subseteq s.entries[Len(s.entries)].of

Paired(s, i, c) ==
  \E j \in DOMAIN s.entries :
    /\ Answer(s, j, c) /\ i < j
    /\ \A k \in DOMAIN s.entries : Answer(s, k, c) => k = j
    /\ \A k \in DOMAIN s.entries : Response(s, k) => ~(i < k /\ k < j)

ClosedFits(s) ==
  \A i \in DOMAIN s.entries : Response(s, i) =>
    s.entries[i].closed \subseteq s.entries[i].of /\ s.entries[i].closed \cap Fresh(s) = {}

AnswersFit(s) ==
  \A i \in DOMAIN s.entries : Response(s, i) =>
    \A c \in s.entries[i].of :
      IF c \in s.entries[i].closed \cup Fresh(s)
      THEN \A j \in DOMAIN s.entries : ~ Answer(s, j, c)
      ELSE Paired(s, i, c)

NothingAnsweredUnasked(s) ==
  \A j \in DOMAIN s.entries : \A c \in DOMAIN s.calls :
    Answer(s, j, c) => \E i \in DOMAIN s.entries : Response(s, i) /\ c \in s.entries[i].of

(* A compaction keeps entries that answer no call of those it drops. *)
KeepsWhole(s) ==
  s.context.purpose = "Compaction" =>
    /\ s.context.source = Len(s.entries)
    /\ s.context.keep = Len(s.entries) \/ OpenCalls(s.entries, s.context.keep) = {}

(* What an end left undone was told before the response that called it. *)
ToldBefore(s) ==
  EndCall(s) \in DOMAIN s.pending =>
    \A i \in DOMAIN s.entries : s.entries[i].kind = "outstanding" => i <= LastResponse(s, 0)

Transcript(s, a) ==
  /\ CallsKnown(s) /\ EntriesSay(s) /\ CallsApart(s) /\ FreshIsLast(s, a)
  /\ ClosedFits(s) /\ AnswersFit(s) /\ NothingAnsweredUnasked(s)
  /\ KeepsWhole(s) /\ ToldBefore(s)

(* After a response that ends the entries there is something to say. *)
SomethingToSay(s) ==
  \/ s.noticed
  \/ s.mail # {}
  \/ Fresh(s) # {}
  \/ s.context = NoContext /\ Finished(s) # {}
  \/ Finished(s) \ Reported(s) # {}
  \/ s.entries[Len(s.entries)].of = {} /\ Unfinished(s) # {}
Talking(s) ==
  /\ s.turn # 0 /\ ~s.cancel /\ s.entries # <<>> /\ Response(s, Len(s.entries))
  /\ s.step = NoStep \/ s.step.purpose = "Compaction"
  /\ s.context.purpose # "Handoff"
TalkGoesOn(s) == Talking(s) => SomethingToSay(s)

Sound(s, a) == s \in Sessions /\ Fits(s, a) /\ Transcript(s, a) /\ TalkGoesOn(s)

TurnInvariant ==
  Sound(session, asked) /\ PlaceFits(place, session) /\ TasksKnown /\ MailKnown

-----------------------------------------------------------------------------

-----------------------------------------------------------------------------
(* What each event leaves of the session. *)

(* Small facts about the parts of a session. *)
LEMMA SessionParts ==
    ASSUME NEW s \in Sessions
    PROVE  /\ s.entries \in Seq(EntryShapes)
           /\ Len(s.entries) \in Nat /\ DOMAIN s.entries = 1 .. Len(s.entries)
           /\ \A i \in DOMAIN s.entries :
                 /\ s.entries[i] \in EntryShapes /\ s.entries[i].kind \in EntryKinds
                 /\ s.entries[i].of \subseteq Input \cup Calls
                 /\ s.entries[i].closed \subseteq Calls
           /\ s.calls \in Seq(CallShapes)
           /\ Len(s.calls) \in Nat /\ DOMAIN s.calls = 1 .. Len(s.calls)
           /\ s.pending \in Pendings /\ DOMAIN s.pending \subseteq Calls
           /\ \A c \in DOMAIN s.pending : s.pending[c] \in PendingShapes
<1>1. s.entries \in Seq(EntryShapes) /\ s.calls \in Seq(CallShapes) /\ s.pending \in Pendings
  BY DEF Sessions
<1>2. /\ Len(s.entries) \in Nat /\ DOMAIN s.entries = 1 .. Len(s.entries)
      /\ \A i \in DOMAIN s.entries : s.entries[i] \in EntryShapes
  BY <1>1, LenProperties, ElementOfSeq
<1>3. Len(s.calls) \in Nat /\ DOMAIN s.calls = 1 .. Len(s.calls)
  BY <1>1, LenProperties
<1> QED
  BY <1>1, <1>2, <1>3 DEF EntryShapes, Pendings

LEMMA RestrictedShape ==
    ASSUME NEW pending \in Pendings, NEW S
    PROVE  /\ Restricted(pending, S) \in Pendings
           /\ DOMAIN Restricted(pending, S) = DOMAIN pending \cap S
           /\ \A c \in DOMAIN pending \cap S : Restricted(pending, S)[c] = pending[c]
<1>1. PICK D \in SUBSET Calls : pending \in [D -> PendingShapes]
  BY DEF Pendings
<1>2. Restricted(pending, S) \in [D \cap S -> PendingShapes]
  BY <1>1 DEF Restricted
<1> QED
  BY <1>1, <1>2 DEF Pendings, Restricted

LEMMA ToldShape ==
    ASSUME NEW pending \in Pendings, NEW kept \in SUBSET DOMAIN pending, NEW told
    PROVE  /\ Told(pending, kept, told) \in Pendings
           /\ DOMAIN Told(pending, kept, told) = kept
           /\ \A c \in kept :
                 /\ Told(pending, kept, told)[c].result = pending[c].result
                 /\ Told(pending, kept, told)[c].delivery =
                       IF c \in told THEN "sent" ELSE pending[c].delivery
<1>1. PICK D \in SUBSET Calls : pending \in [D -> PendingShapes]
  BY DEF Pendings
<1>2. ASSUME NEW c \in kept
      PROVE  /\ [pending[c] EXCEPT !.delivery = "sent"] \in PendingShapes
             /\ [pending[c] EXCEPT !.delivery = "sent"].result = pending[c].result
             /\ [pending[c] EXCEPT !.delivery = "sent"].delivery = "sent"
             /\ pending[c] \in PendingShapes
  BY <1>1 DEF PendingShapes
<1>3. Told(pending, kept, told) \in [kept -> PendingShapes]
  BY <1>2 DEF Told
<1>4. kept \in SUBSET Calls
  BY <1>1
<1> QED
  BY <1>2, <1>3, <1>4 DEF Pendings, Told

LEMMA NewShape ==
    ASSUME NEW pending \in Pendings, NEW ids \in SUBSET Calls
    PROVE  /\ WithNew(pending, ids) \in Pendings
           /\ DOMAIN WithNew(pending, ids) = DOMAIN pending \cup ids
           /\ \A c \in ids : /\ WithNew(pending, ids)[c].delivery = "fresh"
                             /\ WithNew(pending, ids)[c].result = "none"
           /\ \A c \in DOMAIN pending \ ids : WithNew(pending, ids)[c] = pending[c]
<1>1. PICK D \in SUBSET Calls : pending \in [D -> PendingShapes]
  BY DEF Pendings
<1>2. [delivery |-> "fresh", result |-> "none"] \in PendingShapes
  BY DEF PendingShapes
<1>3. WithNew(pending, ids) \in [D \cup ids -> PendingShapes]
  BY <1>1, <1>2 DEF WithNew
<1>4. D \cup ids \in SUBSET Calls
  OBVIOUS
<1> QED
  BY <1>1, <1>3, <1>4 DEF Pendings, WithNew

LEMMA FailedShape ==
    ASSUME NEW pending \in Pendings, NEW cs
    PROVE  /\ WithFailed(pending, cs) \in Pendings
           /\ DOMAIN WithFailed(pending, cs) = DOMAIN pending
           /\ \A c \in DOMAIN pending :
                 /\ WithFailed(pending, cs)[c].delivery = pending[c].delivery
                 /\ WithFailed(pending, cs)[c].result =
                       IF c \in cs THEN "bad" ELSE pending[c].result
<1>1. PICK D \in SUBSET Calls : pending \in [D -> PendingShapes]
  BY DEF Pendings
<1>2. ASSUME NEW c \in D
      PROVE  /\ [pending[c] EXCEPT !.result = "bad"] \in PendingShapes
             /\ [pending[c] EXCEPT !.result = "bad"].delivery = pending[c].delivery
             /\ [pending[c] EXCEPT !.result = "bad"].result = "bad"
             /\ pending[c] \in PendingShapes
  BY <1>1 DEF PendingShapes
<1>3. WithFailed(pending, cs) \in [D -> PendingShapes]
  BY <1>1, <1>2 DEF WithFailed
<1> QED
  BY <1>1, <1>2, <1>3 DEF Pendings, WithFailed

LEMMA ClosedShape ==
    ASSUME NEW s \in Sessions
    PROVE  /\ Closed(s) \in Seq(EntryShapes)
           /\ DOMAIN Closed(s) = DOMAIN s.entries /\ Len(Closed(s)) = Len(s.entries)
           /\ \A i \in DOMAIN s.entries :
                 /\ Closed(s)[i].kind = s.entries[i].kind /\ Closed(s)[i].of = s.entries[i].of
                 /\ Closed(s)[i].closed =
                       IF s.entries[i].kind = "assistant"
                       THEN s.entries[i].closed \cup (Terminal(s) \cap s.entries[i].of)
                       ELSE s.entries[i].closed
<1>1. Terminal(s) \subseteq Calls
  BY SessionParts DEF Terminal, Finished
<1>2. /\ DOMAIN s.entries = 1 .. Len(s.entries) /\ Len(s.entries) \in Nat
      /\ \A i \in DOMAIN s.entries : s.entries[i] \in EntryShapes
  BY SessionParts
<1>3. \A i \in DOMAIN s.entries : Closed(s)[i] \in EntryShapes
  BY <1>1, <1>2 DEF EntryShapes, Closed
<1>4. /\ DOMAIN Closed(s) = DOMAIN s.entries
      /\ \A i \in DOMAIN s.entries :
            /\ Closed(s)[i].kind = s.entries[i].kind /\ Closed(s)[i].of = s.entries[i].of
            /\ Closed(s)[i].closed =
                  IF s.entries[i].kind = "assistant"
                  THEN s.entries[i].closed \cup (Terminal(s) \cap s.entries[i].of)
                  ELSE s.entries[i].closed
  BY <1>2 DEF EntryShapes, Closed
<1>5. Closed(s) \in Seq(EntryShapes)
  <2>1. Closed(s) = [i \in 1 .. Len(s.entries) |-> Closed(s)[i]]
    BY <1>2 DEF Closed
  <2>2. [i \in 1 .. Len(s.entries) |-> Closed(s)[i]] \in Seq(EntryShapes)
    BY <1>2, <1>3, IsASeq
  <2> QED
    BY <2>1, <2>2
<1>6. Len(Closed(s)) = Len(s.entries)
  BY <1>2, <1>4, <1>5, LenProperties
<1> QED
  BY <1>4, <1>5, <1>6

(* The sessions after an event. *)

LEMMA StartFields ==
    ASSUME NEW s \in Sessions
    PROVE  LET t == TurnStarted(s) IN
           /\ t \in Sessions
           /\ t.turn = s.turns + 1 /\ t.turns = s.turns + 1 /\ t.cancel = FALSE
           /\ t.failures = 0 /\ t.context = NoContext /\ t.outcome = "None"
           /\ t.mail = s.mail /\ t.step = s.step /\ t.calls = s.calls /\ t.pending = s.pending
           /\ t.batch = s.batch /\ t.waitFor = s.waitFor /\ t.noticed = s.noticed
           /\ t.entries = s.entries /\ t.generation = s.generation
<1>1. NoContext \in ContextShapes /\ "None" \in Outcomes
  BY DEF NoContext, ContextShapes, Outcomes
<1>2. s.turns \in Nat
  BY DEF Sessions
<1>3. s.turns + 1 \in Nat
  BY <1>2
<1>4. TurnStarted(s) \in Sessions
  BY <1>1, <1>3 DEF Sessions, TurnStarted
<1> QED
  BY <1>4 DEF Sessions, TurnStarted

LEMMA EndFields ==
    ASSUME NEW s \in Sessions, NEW outcome \in {"Finished", "Failed", "Cancelled"}
    PROVE  LET t == TurnFinished(s, outcome) IN
           /\ t \in Sessions
           /\ t.turn = 0 /\ t.cancel = FALSE
           /\ t.failures = 0 /\ t.context = NoContext /\ t.step = NoStep
           /\ t.batch = {} /\ t.outcome = outcome /\ t.waitFor \in {0, s.waitFor}
           /\ t.pending = Restricted(s.pending, DOMAIN s.pending \ Terminal(s))
           /\ t.entries = Closed(s)
           /\ t.turns = s.turns /\ t.mail = s.mail /\ t.calls = s.calls
           /\ t.noticed = s.noticed /\ t.generation = s.generation
<1> DEFINE waitFor == IF outcome = "Cancelled" THEN 0 ELSE s.waitFor
           entries == Closed(s)
           pending == Restricted(s.pending, DOMAIN s.pending \ Terminal(s))
           t == [s EXCEPT
                   !.turn = 0, !.cancel = FALSE, !.failures = 0, !.retry = TRUE,
                   !.context = NoContext, !.step = NoStep, !.batch = {}, !.outcome = outcome,
                   !.entries = entries, !.pending = pending, !.waitFor = waitFor]
<1>1. NoContext \in ContextShapes /\ NoStep \in StepShapes /\ outcome \in Outcomes
  BY DEF NoContext, ContextShapes, NoStep, StepShapes, Outcomes
<1>2. s.waitFor \in Nat /\ s.pending \in Pendings
  BY DEF Sessions
<1>3. entries \in Seq(EntryShapes)
  BY ClosedShape
<1>4. pending \in Pendings
  BY <1>2, RestrictedShape
<1>5. waitFor \in Nat /\ waitFor \in {0, s.waitFor}
  BY <1>2
<1>6. TurnFinished(s, outcome) = t
  BY DEF TurnFinished
<1> HIDE DEF waitFor, entries, pending
<1>7. t \in Sessions
  BY <1>1, <1>3, <1>4, <1>5 DEF Sessions
<1>8. /\ t.turn = 0 /\ t.cancel = FALSE /\ t.failures = 0 /\ t.context = NoContext
      /\ t.step = NoStep /\ t.batch = {} /\ t.outcome = outcome /\ t.waitFor = waitFor
      /\ t.pending = pending /\ t.entries = entries
      /\ t.turns = s.turns /\ t.mail = s.mail /\ t.calls = s.calls
      /\ t.noticed = s.noticed /\ t.generation = s.generation
  BY DEF Sessions
<1> QED
  BY <1>5, <1>6, <1>7, <1>8 DEF entries, pending

LEMMA EntryAppended ==
    ASSUME NEW es \in Seq(EntryShapes), NEW kind \in EntryKinds,
           NEW of \in SUBSET (Input \cup Calls)
    PROVE  LET new == es \o Entry(kind, of) IN
           /\ new \in Seq(EntryShapes) /\ Len(es) \in Nat /\ Len(new) \in Nat
           /\ Len(new) = IF of = {} THEN Len(es) ELSE Len(es) + 1
           /\ DOMAIN es = 1 .. Len(es) /\ DOMAIN new = 1 .. Len(new)
           /\ \A i \in 1 .. Len(es) : new[i] = es[i]
           /\ of # {} => new[Len(es) + 1] = [kind |-> kind, of |-> of, closed |-> {}]
<1> DEFINE e == [kind |-> kind, of |-> of, closed |-> {}]
<1>1. e \in EntryShapes
  BY DEF EntryShapes
<1>2. Len(es) \in Nat /\ DOMAIN es = 1 .. Len(es)
  BY LenProperties
<1>3. CASE of = {}
  <2>1. es \o Entry(kind, of) = es
    BY <1>3, ConcatEmptySeq DEF Entry
  <2> QED
    BY <1>2, <1>3, <2>1
<1>4. CASE of # {}
  <2>1. Entry(kind, of) = <<e>>
    BY <1>4 DEF Entry
  <2> HIDE DEF e
  <2>2. <<e>> \in Seq(EntryShapes) /\ Len(<<e>>) = 1 /\ <<e>>[1] = e
    BY <1>1
  <2>3. /\ es \o <<e>> \in Seq(EntryShapes) /\ Len(es \o <<e>>) = Len(es) + 1
        /\ \A i \in 1 .. Len(es) + 1 :
              (es \o <<e>>)[i] = IF i <= Len(es) THEN es[i] ELSE <<e>>[i - Len(es)]
    BY <2>2, ConcatProperties
  <2>4. DOMAIN (es \o <<e>>) = 1 .. Len(es) + 1
    BY <2>3, LenProperties
  <2>5. (es \o <<e>>)[Len(es) + 1] = e
    <3>1. /\ Len(es) + 1 \in 1 .. Len(es) + 1 /\ ~(Len(es) + 1 <= Len(es))
          /\ (Len(es) + 1) - Len(es) = 1
      BY <1>2
    <3> QED
      BY <2>2, <2>3, <3>1
  <2>6. \A i \in 1 .. Len(es) : (es \o <<e>>)[i] = es[i]
    BY <1>2, <2>3
  <2> QED
    BY <1>2, <1>4, <2>1, <2>3, <2>4, <2>5, <2>6 DEF e
<1> QED
  BY <1>3, <1>4

(* es is base and after it an entry for each kind in said that has something to say. *)
Extends(es, base, said) ==
  /\ es \in Seq(EntryShapes) /\ Len(base) \in Nat /\ Len(es) >= Len(base)
  /\ \A i \in 1 .. Len(base) : es[i] = base[i]
  /\ \A j \in 1 .. Len(es) : j > Len(base) =>
       <<es[j].kind, es[j].of>> \in said /\ es[j].of # {} /\ es[j].closed = {}
  /\ \A x \in said : x[2] # {} =>
       \E j \in 1 .. Len(es) : j > Len(base) /\ es[j].kind = x[1] /\ es[j].of = x[2]
  /\ \A j, k \in 1 .. Len(es) :
       j > Len(base) /\ k > Len(base) /\ es[j].kind = es[k].kind => j = k

LEMMA ExtendOnce ==
    ASSUME NEW es, NEW base, NEW said, Extends(es, base, said),
           NEW kind \in EntryKinds, NEW of \in SUBSET (Input \cup Calls),
           \A x \in said : x[1] # kind
    PROVE  Extends(es \o Entry(kind, of), base, said \cup {<<kind, of>>})
<1> DEFINE new == es \o Entry(kind, of)
           n == Len(es)
           b == Len(base)
<1>1. es \in Seq(EntryShapes) /\ b \in Nat /\ n >= b
  BY DEF Extends
<1>2. /\ new \in Seq(EntryShapes) /\ n \in Nat /\ Len(new) \in Nat
      /\ Len(new) = IF of = {} THEN n ELSE n + 1
      /\ \A i \in 1 .. n : new[i] = es[i]
      /\ of # {} => new[n + 1] = [kind |-> kind, of |-> of, closed |-> {}]
  BY <1>1, EntryAppended
<1> HIDE DEF new, n, b
<1>3. /\ \A i \in 1 .. b : es[i] = base[i]
      /\ \A j \in 1 .. n : j > b =>
           <<es[j].kind, es[j].of>> \in said /\ es[j].of # {} /\ es[j].closed = {}
      /\ \A x \in said : x[2] # {} =>
           \E j \in 1 .. n : j > b /\ es[j].kind = x[1] /\ es[j].of = x[2]
      /\ \A j, k \in 1 .. n : j > b /\ k > b /\ es[j].kind = es[k].kind => j = k
  BY DEF Extends, n, b
<1>4. Len(new) >= b /\ \A i \in 1 .. b : new[i] = base[i]
  <2>1. \A i \in 1 .. b : i \in 1 .. n
    BY <1>1, <1>2 DEF n
  <2> QED
    BY <1>1, <1>2, <1>3, <2>1 DEF n
<1>5. ASSUME NEW j \in 1 .. Len(new), j > b
      PROVE  /\ \/ j \in 1 .. n /\ new[j] = es[j] /\ new[j].kind # kind
                \/ j = n + 1 /\ of # {} /\ new[j] = [kind |-> kind, of |-> of, closed |-> {}]
             /\ <<new[j].kind, new[j].of>> \in said \cup {<<kind, of>>}
             /\ new[j].of # {} /\ new[j].closed = {}
  <2>1. CASE j \in 1 .. n
    <3>1. new[j] = es[j] /\ <<es[j].kind, es[j].of>> \in said
      BY <1>2, <1>3, <1>5, <2>1
    <3>2. es[j].kind # kind
      BY <3>1
    <3> QED
      BY <1>3, <1>5, <2>1, <3>1, <3>2
  <2>2. CASE j \notin 1 .. n
    <3>1. j = n + 1 /\ of # {}
      BY <1>2, <2>2
    <3> QED
      BY <1>2, <3>1
  <2> QED
    BY <2>1, <2>2
<1>6. ASSUME NEW x \in said \cup {<<kind, of>>}, x[2] # {}
      PROVE  \E j \in 1 .. Len(new) : j > b /\ new[j].kind = x[1] /\ new[j].of = x[2]
  <2>1. CASE x \in said
    <3>1. PICK j \in 1 .. n : j > b /\ es[j].kind = x[1] /\ es[j].of = x[2]
      BY <1>3, <1>6, <2>1
    <3>2. j \in 1 .. Len(new) /\ new[j] = es[j]
      BY <1>2, <3>1
    <3> QED
      BY <3>1, <3>2
  <2>2. CASE x = <<kind, of>>
    <3>1. of # {} /\ n + 1 \in 1 .. Len(new) /\ n + 1 > b
      BY <1>1, <1>2, <1>6, <2>2 DEF n
    <3> QED
      BY <1>2, <2>2, <3>1
  <2> QED
    BY <2>1, <2>2
<1>7. ASSUME NEW j \in 1 .. Len(new), NEW k \in 1 .. Len(new), j > b, k > b,
             new[j].kind = new[k].kind
      PROVE  j = k
  <2>1. CASE j \in 1 .. n /\ new[j] = es[j] /\ new[j].kind # kind
    <3>9. new[k].kind # kind
      BY <1>7, <2>1
    <3>1. new[k] # [kind |-> kind, of |-> of, closed |-> {}]
      BY <3>9
    <3>2. k \in 1 .. n /\ new[k] = es[k]
      BY <1>5, <1>7, <3>1
    <3> QED
      BY <1>3, <1>7, <2>1, <3>2
  <2>2. CASE j = n + 1 /\ new[j] = [kind |-> kind, of |-> of, closed |-> {}]
    <3>1. new[k].kind = kind
      BY <1>7, <2>2
    <3>2. k = n + 1
      BY <1>5, <1>7, <3>1
    <3> QED
      BY <2>2, <3>2
  <2> QED
    BY <1>5, <1>7, <2>1, <2>2
<1> QED
  BY <1>1, <1>2, <1>4, <1>5, <1>6, <1>7 DEF Extends, new, b

(* What a request says, entry by entry. *)
DirectOf(s, purpose)   == Deliverable(s, purpose) \cap Finished(s) \cap Fresh(s)
NotifiedOf(s, purpose) == (Deliverable(s, purpose) \cap Finished(s)) \ Fresh(s)
WaitingOf(s, purpose, placeholders) ==
  IF placeholders THEN Deliverable(s, purpose) \cap Unfinished(s) \cap Fresh(s) ELSE {}
ConsumedBy(s, purpose) == IF purpose = "Conversation" THEN s.mail ELSE {}
First(s, purpose) == purpose # "Conversation" /\ s.context = NoContext
KeptBy(s, purpose) ==
  IF First(s, purpose) THEN DOMAIN s.pending
  ELSE DOMAIN s.pending \ (DirectOf(s, purpose) \cup NotifiedOf(s, purpose))
Saying(s, purpose, placeholders, told) ==
  {<<"inputs", ConsumedBy(s, purpose)>>, <<"direct", DirectOf(s, purpose)>>,
   <<"notified", NotifiedOf(s, purpose)>>, <<"pending", WaitingOf(s, purpose, placeholders)>>,
   <<"outstanding", told \ ConsumedBy(s, purpose)>>}
EntriesWith(s, purpose, placeholders, told) ==
  s.entries \o Entry("inputs", ConsumedBy(s, purpose)) \o Entry("direct", DirectOf(s, purpose))
    \o Entry("notified", NotifiedOf(s, purpose))
    \o Entry("pending", WaitingOf(s, purpose, placeholders))
    \o Entry("outstanding", told \ ConsumedBy(s, purpose))

LEMMA SayingShape ==
    ASSUME NEW s \in Sessions, NEW purpose \in Purposes, NEW placeholders \in BOOLEAN,
           NEW told \in SUBSET (Input \cup Calls)
    PROVE  Extends(EntriesWith(s, purpose, placeholders, told), s.entries,
                   Saying(s, purpose, placeholders, told))
<1> DEFINE A1 == ConsumedBy(s, purpose)
           A2 == DirectOf(s, purpose)
           A3 == NotifiedOf(s, purpose)
           A4 == WaitingOf(s, purpose, placeholders)
           A5 == told \ ConsumedBy(s, purpose)
           E1 == s.entries \o Entry("inputs", A1)
           E2 == E1 \o Entry("direct", A2)
           E3 == E2 \o Entry("notified", A3)
           E4 == E3 \o Entry("pending", A4)
           E5 == E4 \o Entry("outstanding", A5)
           S1 == {} \cup {<<"inputs", A1>>}
           S2 == S1 \cup {<<"direct", A2>>}
           S3 == S2 \cup {<<"notified", A3>>}
           S4 == S3 \cup {<<"pending", A4>>}
           S5 == S4 \cup {<<"outstanding", A5>>}
<1>1. /\ A1 \in SUBSET (Input \cup Calls) /\ A2 \in SUBSET (Input \cup Calls)
      /\ A3 \in SUBSET (Input \cup Calls) /\ A4 \in SUBSET (Input \cup Calls)
      /\ A5 \in SUBSET (Input \cup Calls)
  <2>1. s.mail \subseteq Input /\ Finished(s) \subseteq Calls /\ Unfinished(s) \subseteq Calls
    BY SessionParts DEF Sessions, Finished, Unfinished
  <2> QED
    BY <2>1 DEF ConsumedBy, DirectOf, NotifiedOf, WaitingOf
<1>2. {"inputs", "direct", "notified", "pending", "outstanding"} \subseteq EntryKinds
  BY DEF EntryKinds
<1>3. EntriesWith(s, purpose, placeholders, told) = E5
  BY DEF EntriesWith
<1>4. Saying(s, purpose, placeholders, told) = S5
  BY DEF Saying
<1> HIDE DEF A1, A2, A3, A4, A5
<1>5. Extends(s.entries, s.entries, {})
  <2>1. s.entries \in Seq(EntryShapes) /\ Len(s.entries) \in Nat
    BY SessionParts
  <2> QED
    BY <2>1 DEF Extends
<1> HIDE DEF E5, E4, E3, E2, E1
<1>6. Extends(E1, s.entries, S1)
  BY <1>1, <1>2, <1>5, ExtendOnce DEF E1
<1>7. Extends(E2, s.entries, S2)
  <2>1. \A x \in S1 : x[1] # "direct"
    OBVIOUS
  <2> HIDE DEF S1
  <2> QED
    BY <1>1, <1>2, <1>6, <2>1, ExtendOnce DEF E2
<1>8. Extends(E3, s.entries, S3)
  <2>1. \A x \in S2 : x[1] # "notified"
    OBVIOUS
  <2> HIDE DEF S2
  <2> QED
    BY <1>1, <1>2, <1>7, <2>1, ExtendOnce DEF E3
<1>9. Extends(E4, s.entries, S4)
  <2>1. \A x \in S3 : x[1] # "pending"
    OBVIOUS
  <2> HIDE DEF S3
  <2> QED
    BY <1>1, <1>2, <1>8, <2>1, ExtendOnce DEF E4
<1>10. Extends(E5, s.entries, S5)
  <2>1. \A x \in S4 : x[1] # "outstanding"
    OBVIOUS
  <2> HIDE DEF S4
  <2> QED
    BY <1>1, <1>2, <1>9, <2>1, ExtendOnce DEF E5
<1> QED
  BY <1>3, <1>4, <1>10

(* t is s with a request under way. *)
IsStarted(s, t, purpose, placeholders, told) ==
  /\ t \in Sessions
  /\ t.mail = s.mail \ ConsumedBy(s, purpose)
  /\ t.entries = EntriesWith(s, purpose, placeholders, told)
  /\ t.pending = Told(s.pending, KeptBy(s, purpose),
                      DirectOf(s, purpose) \cup WaitingOf(s, purpose, placeholders))
  /\ t.waitFor \in {0, s.waitFor}
  /\ t.noticed = (s.noticed /\ purpose # "Conversation")
  /\ t.step.purpose = purpose /\ t.step.consumed = ConsumedBy(s, purpose)
  /\ ~First(s, purpose) => t.context = s.context
  /\ First(s, purpose) =>
       /\ t.context.purpose = purpose /\ t.context.attempts = 0
       /\ t.context.source = Len(t.entries) /\ t.context.keep \in 0 .. Len(t.entries)
       /\ t.context.keep = Len(t.entries) \/ OpenCalls(t.entries, t.context.keep) = {}
  /\ t.turn = s.turn /\ t.turns = s.turns /\ t.cancel = s.cancel /\ t.calls = s.calls
  /\ t.batch = s.batch /\ t.failures = s.failures /\ t.outcome = s.outcome
  /\ t.generation = s.generation

LEMMA StepFields ==
    ASSUME NEW s \in Sessions, NEW purpose \in Purposes, NEW placeholders \in BOOLEAN,
           NEW told \in SUBSET (Input \cup Calls)
    PROVE  IsStarted(s, StepStarted(s, purpose, placeholders, told), purpose, placeholders, told)
<1> DEFINE mail == s.mail \ ConsumedBy(s, purpose)
           entries == EntriesWith(s, purpose, placeholders, told)
           pending == Told(s.pending, KeptBy(s, purpose),
                           DirectOf(s, purpose) \cup WaitingOf(s, purpose, placeholders))
           waitFor == IF ConsumedBy(s, purpose) = {} THEN s.waitFor ELSE 0
           noticed == s.noticed /\ purpose # "Conversation"
           step == [purpose |-> purpose, consumed |-> ConsumedBy(s, purpose)]
           context == IF First(s, purpose)
                      THEN [purpose |-> purpose, attempts |-> 0,
                            source |-> Len(entries), keep |-> Len(entries)]
                      ELSE s.context
           t == [s EXCEPT
                   !.mail = mail, !.entries = entries, !.pending = pending, !.waitFor = waitFor,
                   !.noticed = noticed, !.step = step, !.context = context, !.failure = "none"]
<1>1. StepStarted(s, purpose, placeholders, told) = t
  BY DEF StepStarted, EntriesWith, KeptBy, First, ConsumedBy, DirectOf, NotifiedOf, WaitingOf
<1>2. mail \in SUBSET Input /\ ConsumedBy(s, purpose) \in SUBSET Input /\ "none" \in Failures
  BY DEF Sessions, ConsumedBy, Failures
<1>3. entries \in Seq(EntryShapes) /\ Len(entries) \in Nat
  <2>1. entries \in Seq(EntryShapes)
    BY SayingShape DEF Extends
  <2> QED
    BY <2>1, LenProperties
<1>4. pending \in Pendings
  <2> DEFINE said == DirectOf(s, purpose) \cup WaitingOf(s, purpose, placeholders)
  <2>1. s.pending \in Pendings /\ KeptBy(s, purpose) \in SUBSET DOMAIN s.pending
    BY SessionParts DEF KeptBy
  <2> HIDE DEF said
  <2>2. Told(s.pending, KeptBy(s, purpose), said) \in Pendings
    BY <2>1, ToldShape
  <2> QED
    BY <2>2 DEF said
<1>5. waitFor \in Nat /\ noticed \in BOOLEAN
  BY DEF Sessions
<1>6. step \in StepShapes /\ step.purpose = purpose /\ step.consumed = ConsumedBy(s, purpose)
  BY <1>2 DEF StepShapes
<1>7. /\ context \in ContextShapes
      /\ ~First(s, purpose) => context = s.context
      /\ First(s, purpose) =>
            /\ context.purpose = purpose /\ context.attempts = 0
            /\ context.source = Len(entries) /\ context.keep = Len(entries)
  <2>1. s.context \in ContextShapes
    BY DEF Sessions
  <2>2. ASSUME First(s, purpose)
        PROVE  purpose \in {"none", "Compaction", "Handoff"}
    BY <2>2 DEF First, Purposes
  <2> HIDE DEF entries
  <2> QED
    BY <1>3, <2>1, <2>2 DEF ContextShapes
<1> HIDE DEF mail, entries, pending, waitFor, noticed, step, context
<1>8. t \in Sessions
  BY <1>2, <1>3, <1>4, <1>5, <1>6, <1>7 DEF Sessions
<1>9. /\ t.mail = mail /\ t.entries = entries /\ t.pending = pending /\ t.waitFor = waitFor
      /\ t.noticed = noticed /\ t.step = step /\ t.context = context
      /\ t.turn = s.turn /\ t.turns = s.turns /\ t.cancel = s.cancel /\ t.calls = s.calls
      /\ t.batch = s.batch /\ t.failures = s.failures /\ t.outcome = s.outcome
      /\ t.generation = s.generation
  BY DEF Sessions
<1>10. Len(entries) \in 0 .. Len(entries) /\ waitFor \in {0, s.waitFor}
  BY <1>3 DEF waitFor
<1> HIDE DEF t
<1>11. IsStarted(s, t, purpose, placeholders, told)
  BY <1>6, <1>7, <1>8, <1>9, <1>10 DEF IsStarted, mail, entries, pending, noticed
<1> QED
  BY <1>1, <1>11

LEMMA CompleteFields ==
    ASSUME NEW s \in Sessions, NEW made \in Seq(CallShapes), Len(s.calls) + Len(made) <= MaxCalls
    PROVE  LET t == StepCompleted(s, made)
               ids == Len(s.calls) + 1 .. Len(s.calls) + Len(made) IN
           /\ t \in Sessions /\ ids \subseteq Calls
           /\ t.step = NoStep /\ t.calls = s.calls \o made
           /\ s.step.purpose = "Compaction" => t.entries = s.entries
           /\ s.step.purpose # "Compaction" =>
                t.entries = Append(s.entries, [kind |-> "assistant", of |-> ids, closed |-> {}])
           /\ s.step.purpose = "Conversation" => t.context = s.context
           /\ t.context.purpose = s.context.purpose /\ t.context.source = s.context.source
           /\ t.context.keep = s.context.keep
           /\ t.context.attempts = IF s.step.purpose = "Conversation" THEN s.context.attempts
                                   ELSE s.context.attempts + 1
           /\ t.pending = WithNew(s.pending, ids)
           /\ t.batch \in {ids, {}} /\ t.failures = 0
           /\ t.mail = s.mail /\ t.turn = s.turn /\ t.turns = s.turns /\ t.cancel = s.cancel
           /\ t.outcome = s.outcome /\ t.waitFor = s.waitFor /\ t.noticed = s.noticed
           /\ t.generation = s.generation
<1> DEFINE ids == Len(s.calls) + 1 .. Len(s.calls) + Len(made)
           calls == s.calls \o made
           entry == [kind |-> "assistant", of |-> ids, closed |-> {}]
           entries == IF s.step.purpose = "Compaction" THEN s.entries
                      ELSE Append(s.entries, entry)
           anchored == s.anchored \/ s.step.purpose # "Compaction"
           context == IF s.step.purpose = "Conversation" THEN s.context
                      ELSE Attempted(s.context)
           pending == WithNew(s.pending, ids)
           batch == IF s.step.purpose = "Conversation" THEN ids ELSE {}
           t == [s EXCEPT
                   !.step = NoStep, !.calls = calls, !.entries = entries, !.anchored = anchored,
                   !.context = context, !.pending = pending, !.batch = batch,
                   !.failures = 0, !.retry = TRUE, !.failure = "none"]
<1>1. StepCompleted(s, made) = t
  BY DEF StepCompleted
<1>2. NoStep \in StepShapes /\ "none" \in Failures
  BY DEF NoStep, StepShapes, Failures
<1>3. ids \subseteq Calls /\ batch \subseteq Calls /\ batch \in {ids, {}}
  <2>1. Len(s.calls) \in Nat /\ Len(made) \in Nat /\ MaxCalls \in Nat
    BY SessionParts, LenProperties, LimitsAssumption
  <2>2. ids \subseteq 1 .. MaxCalls
    BY <2>1
  <2> HIDE DEF ids
  <2> QED
    BY <2>2 DEF Calls
<1>4. calls \in Seq(CallShapes)
  BY SessionParts, ConcatProperties
<1> HIDE DEF ids, calls
<1>5. entries \in Seq(EntryShapes)
  <2>1. entry \in EntryShapes
    BY <1>3 DEF EntryShapes, EntryKinds
  <2> HIDE DEF entry
  <2> QED
    BY <2>1, SessionParts, AppendProperties
<1>6. anchored \in BOOLEAN
  BY DEF Sessions
<1>7. /\ context \in ContextShapes
      /\ s.step.purpose = "Conversation" => context = s.context
      /\ context.purpose = s.context.purpose /\ context.source = s.context.source
      /\ context.keep = s.context.keep
      /\ context.attempts = IF s.step.purpose = "Conversation" THEN s.context.attempts
                            ELSE s.context.attempts + 1
  <2>1. s.context \in ContextShapes
    BY DEF Sessions
  <2> QED
    BY <2>1 DEF ContextShapes, Attempted
<1>8. pending \in Pendings
  BY <1>3, SessionParts, NewShape
<1> HIDE DEF entry, entries, anchored, context, pending, batch
<1>9. t \in Sessions
  BY <1>2, <1>3, <1>4, <1>5, <1>6, <1>7, <1>8 DEF Sessions
<1>10. /\ t.step = NoStep /\ t.calls = calls /\ t.entries = entries /\ t.context = context
       /\ t.pending = pending /\ t.batch = batch /\ t.failures = 0
       /\ t.mail = s.mail /\ t.turn = s.turn /\ t.turns = s.turns /\ t.cancel = s.cancel
       /\ t.outcome = s.outcome /\ t.waitFor = s.waitFor /\ t.noticed = s.noticed
       /\ t.generation = s.generation
  BY DEF Sessions
<1> QED
  BY <1>1, <1>3, <1>7, <1>9, <1>10 DEF ids, calls, entries, entry, pending

(* A failed step, and what it costs. *)
HasFailed(s, t) ==
  /\ t \in Sessions
  /\ t.step = NoStep /\ t.noticed = TRUE
  /\ t.mail \in {s.mail, s.mail \cup s.step.consumed}
  /\ t.context.purpose = s.context.purpose /\ t.context.source = s.context.source
  /\ t.context.keep = s.context.keep
  /\ t.context.attempts \in {s.context.attempts, s.context.attempts + 1}
  /\ t.failures \in {0, s.failures + 1}
  /\ t.context = s.context \/ t.failures = 0
  /\ s.step.purpose = "Conversation" => t.context = s.context
  /\ t.turn = s.turn /\ t.turns = s.turns /\ t.cancel = s.cancel /\ t.calls = s.calls
  /\ t.outcome = s.outcome /\ t.pending = s.pending /\ t.batch = s.batch
  /\ t.waitFor = s.waitFor /\ t.entries = s.entries /\ t.generation = s.generation

LEMMA FailFields ==
    ASSUME NEW s \in Sessions, NEW error \in {"overflow", "document", "other"},
           NEW retryable \in BOOLEAN
    PROVE  HasFailed(s, StepFailed(s, error, retryable))
<1> DEFINE attempt == error = "document" /\ s.step.purpose # "Conversation"
           mail == IF error = "overflow" THEN s.mail \cup s.step.consumed ELSE s.mail
           anchored == s.anchored \/ s.step.purpose # "Compaction"
           context == IF attempt THEN Attempted(s.context) ELSE s.context
           failures == IF attempt THEN 0 ELSE s.failures + 1
           retry == attempt \/ retryable
           t == [s EXCEPT
                   !.step = NoStep, !.failure = error, !.noticed = TRUE, !.anchored = anchored,
                   !.mail = mail, !.context = context, !.failures = failures, !.retry = retry]
<1>1. StepFailed(s, error, retryable) = t
  BY DEF StepFailed
<1>2. NoStep \in StepShapes /\ error \in Failures
  BY DEF NoStep, StepShapes, Failures
<1>3. mail \in SUBSET Input /\ mail \in {s.mail, s.mail \cup s.step.consumed}
  BY DEF Sessions, StepShapes
<1>4. anchored \in BOOLEAN /\ retry \in BOOLEAN /\ failures \in Nat
  BY DEF Sessions
<1>5. /\ context \in ContextShapes
      /\ ~attempt => context = s.context
      /\ context.purpose = s.context.purpose /\ context.source = s.context.source
      /\ context.keep = s.context.keep
      /\ context.attempts = IF attempt THEN s.context.attempts + 1 ELSE s.context.attempts
  <2>1. s.context \in ContextShapes
    BY DEF Sessions
  <2> QED
    BY <2>1 DEF ContextShapes, Attempted
<1> HIDE DEF mail, anchored, context, retry
<1>6. failures \in Nat
  BY <1>4
<1> HIDE DEF failures
<1>7. t \in Sessions
  BY <1>2, <1>3, <1>4, <1>5, <1>6 DEF Sessions
<1>8. /\ t.step = NoStep /\ t.noticed = TRUE /\ t.mail = mail /\ t.context = context
      /\ t.failures = failures
      /\ t.turn = s.turn /\ t.turns = s.turns /\ t.cancel = s.cancel /\ t.calls = s.calls
      /\ t.outcome = s.outcome /\ t.pending = s.pending /\ t.batch = s.batch
      /\ t.waitFor = s.waitFor /\ t.entries = s.entries /\ t.generation = s.generation
  BY DEF Sessions
<1> QED
  BY <1>1, <1>3, <1>5, <1>7, <1>8 DEF failures, HasFailed

LEMMA InterruptFields ==
    ASSUME NEW s \in Sessions, NEW recovery \in BOOLEAN
    PROVE  LET t == StepInterrupted(s, recovery) IN
           /\ t \in Sessions /\ t.step = NoStep /\ t.noticed = (s.noticed \/ recovery)
           /\ t.mail = s.mail /\ t.turn = s.turn /\ t.turns = s.turns /\ t.cancel = s.cancel
           /\ t.failures = s.failures /\ t.context = s.context /\ t.outcome = s.outcome
           /\ t.calls = s.calls /\ t.pending = s.pending /\ t.batch = s.batch
           /\ t.waitFor = s.waitFor /\ t.entries = s.entries /\ t.generation = s.generation
<1> DEFINE noticed == s.noticed \/ recovery
<1>1. NoStep \in StepShapes /\ noticed \in BOOLEAN
  BY DEF NoStep, StepShapes, Sessions
<1>2. StepInterrupted(s, recovery) = [s EXCEPT !.step = NoStep, !.noticed = noticed]
  BY DEF StepInterrupted
<1> HIDE DEF noticed
<1> DEFINE u == [s EXCEPT !.step = NoStep, !.noticed = noticed]
<1>3. u \in Sessions
  BY <1>1 DEF Sessions
<1>4. /\ u.step = NoStep /\ u.noticed = noticed
      /\ u.mail = s.mail /\ u.turn = s.turn /\ u.turns = s.turns /\ u.cancel = s.cancel
      /\ u.failures = s.failures /\ u.context = s.context /\ u.outcome = s.outcome
      /\ u.calls = s.calls /\ u.pending = s.pending /\ u.batch = s.batch
      /\ u.waitFor = s.waitFor /\ u.entries = s.entries /\ u.generation = s.generation
  BY DEF Sessions
<1> HIDE DEF u
<1> QED
  BY <1>2, <1>3, <1>4 DEF noticed, u

(* Events that leave the transcript and what is pending alone. *)
LEMMA NoteFields ==
    ASSUME NEW s \in Sessions, NEW mail \in SUBSET Input, NEW cancel \in BOOLEAN,
           NEW batch \in SUBSET Calls, NEW waitFor \in Nat, NEW noticed \in BOOLEAN
    PROVE  LET t == [s EXCEPT !.mail = mail, !.cancel = cancel, !.batch = batch,
                              !.waitFor = waitFor, !.noticed = noticed] IN
           /\ t \in Sessions /\ t.mail = mail /\ t.cancel = cancel /\ t.batch = batch
           /\ t.waitFor = waitFor /\ t.noticed = noticed
           /\ t.turn = s.turn /\ t.turns = s.turns /\ t.failures = s.failures
           /\ t.context = s.context /\ t.step = s.step /\ t.outcome = s.outcome
           /\ t.calls = s.calls /\ t.pending = s.pending /\ t.entries = s.entries
           /\ t.generation = s.generation
BY DEF Sessions

LEMMA ResultFields ==
    ASSUME NEW s \in Sessions, NEW c, NEW result \in {"ok", "bad"}, NEW earlier \in BOOLEAN,
           c \in DOMAIN s.calls
    PROVE  LET t == ToolResult(s, c, result, earlier) IN
           /\ t \in Sessions
           /\ DOMAIN t.pending = DOMAIN s.pending
           /\ \A d \in DOMAIN s.pending :
                 /\ t.pending[d].delivery = s.pending[d].delivery
                 /\ t.pending[d].result = IF d = c /\ c \in Unfinished(s) THEN result
                                          ELSE s.pending[d].result
           /\ t.noticed = (s.noticed \/ c \notin Unfinished(s))
           /\ t.waitFor \in {c, s.waitFor}
           /\ t.mail = s.mail /\ t.turn = s.turn /\ t.turns = s.turns /\ t.cancel = s.cancel
           /\ t.failures = s.failures /\ t.context = s.context /\ t.step = s.step
           /\ t.outcome = s.outcome /\ t.calls = s.calls /\ t.batch = s.batch
           /\ t.entries = s.entries /\ t.generation = s.generation
<1> DEFINE waits == /\ s.calls[c].tool = "wait" /\ ~s.calls[c].rejected
                    /\ c \in s.batch /\ result = "ok" /\ (s.waitFor = 0 \/ earlier)
           pending == IF c \in Unfinished(s) THEN [s.pending EXCEPT ![c].result = result]
                      ELSE s.pending
           noticed == s.noticed \/ c \notin Unfinished(s)
           waitFor == IF waits THEN c ELSE s.waitFor
           t == [s EXCEPT !.pending = pending, !.noticed = noticed, !.waitFor = waitFor]
<1>1. ToolResult(s, c, result, earlier) = t
  BY DEF ToolResult
<1>2. /\ pending \in Pendings /\ DOMAIN pending = DOMAIN s.pending
      /\ \A d \in DOMAIN s.pending :
            /\ pending[d].delivery = s.pending[d].delivery
            /\ pending[d].result = IF d = c /\ c \in Unfinished(s) THEN result
                                   ELSE s.pending[d].result
  <2>1. PICK D \in SUBSET Calls : s.pending \in [D -> PendingShapes]
    BY SessionParts DEF Pendings
  <2>2. CASE c \in Unfinished(s)
    <3>1. c \in D
      BY <2>1, <2>2 DEF Unfinished
    <3>2. s.pending[c] \in PendingShapes
      BY <2>1, <3>1
    <3>3. /\ [s.pending[c] EXCEPT !.result = result] \in PendingShapes
          /\ [s.pending[c] EXCEPT !.result = result].delivery = s.pending[c].delivery
          /\ [s.pending[c] EXCEPT !.result = result].result = result
      BY <3>2 DEF PendingShapes
    <3>4. pending = [s.pending EXCEPT ![c] = [s.pending[c] EXCEPT !.result = result]]
      BY <2>2
    <3>5. pending \in [D -> PendingShapes]
      BY <2>1, <3>1, <3>3, <3>4
    <3>6. \A d \in D : pending[d] = IF d = c THEN [s.pending[c] EXCEPT !.result = result]
                                   ELSE s.pending[d]
      BY <2>1, <3>1, <3>4
    <3> HIDE DEF pending
    <3> QED
      BY <2>1, <2>2, <3>3, <3>5, <3>6 DEF Pendings
  <2>3. CASE c \notin Unfinished(s)
    BY <2>1, <2>3, SessionParts
  <2> QED
    BY <2>2, <2>3
<1>3. waitFor \in Nat /\ noticed \in BOOLEAN /\ waitFor \in {c, s.waitFor}
  <2>1. c \in Nat /\ s.waitFor \in Nat /\ s.noticed \in BOOLEAN
    <3>1. DOMAIN s.calls = 1 .. Len(s.calls) /\ Len(s.calls) \in Nat
      BY SessionParts
    <3> QED
      BY <3>1 DEF Sessions
  <2> QED
    BY <2>1
<1> HIDE DEF pending, waitFor, noticed
<1>4. t \in Sessions
  BY <1>2, <1>3 DEF Sessions
<1>5. /\ t.pending = pending /\ t.noticed = noticed /\ t.waitFor = waitFor
      /\ t.mail = s.mail /\ t.turn = s.turn /\ t.turns = s.turns /\ t.cancel = s.cancel
      /\ t.failures = s.failures /\ t.context = s.context /\ t.step = s.step
      /\ t.outcome = s.outcome /\ t.calls = s.calls /\ t.batch = s.batch
      /\ t.entries = s.entries /\ t.generation = s.generation
  BY DEF Sessions
<1> QED
  BY <1>1, <1>2, <1>3, <1>4, <1>5 DEF noticed

LEMMA FailedFields ==
    ASSUME NEW s \in Sessions, NEW cs
    PROVE  LET t == ToolsFailed(s, cs) IN
           /\ t \in Sessions /\ t.pending = WithFailed(s.pending, cs)
           /\ t.mail = s.mail /\ t.turn = s.turn /\ t.turns = s.turns /\ t.cancel = s.cancel
           /\ t.failures = s.failures /\ t.context = s.context /\ t.step = s.step
           /\ t.outcome = s.outcome /\ t.calls = s.calls /\ t.batch = s.batch
           /\ t.waitFor = s.waitFor /\ t.noticed = s.noticed
           /\ t.entries = s.entries /\ t.generation = s.generation
<1>1. WithFailed(s.pending, cs) \in Pendings
  BY SessionParts, FailedShape
<1> QED
  BY <1>1 DEF Sessions, ToolsFailed

-----------------------------------------------------------------------------
(* A context transition's entries. *)

(* es has the entries of base from after from to to, in their order, but for *)
(* inputs that wait in the mailbox; at names where each was.                *)
Keeping(es, base, from, to, mail, at) ==
  /\ es \in Seq(EntryShapes) /\ at \in [1 .. Len(es) -> from + 1 .. to]
  /\ \A k \in 1 .. Len(es) :
       /\ es[k].kind = base[at[k]].kind /\ es[k].closed = base[at[k]].closed
       /\ es[k].kind # "inputs" => es[k].of = base[at[k]].of
       /\ es[k].kind = "inputs" => es[k].of \cap mail = {} /\ es[k].of # {}
  /\ \A k, l \in 1 .. Len(es) : k < l => at[k] < at[l]
  /\ \A i \in from + 1 .. to :
       (base[i].kind = "inputs" => ~ (base[i].of \subseteq mail))
         => \E k \in 1 .. Len(es) : at[k] = i

LEMMA RetainedShape ==
    ASSUME NEW s \in Sessions, NEW from \in Nat, NEW to \in Nat, to <= Len(s.entries), NEW mail
    PROVE  \E at : Keeping(Retained(SubSeq(s.entries, from + 1, to), mail), s.entries, from, to,
                           mail, at)
<1> DEFINE window == SubSeq(s.entries, from + 1, to)
           n == Len(window)
           stay == {i \in DOMAIN window :
                      window[i].kind = "inputs" => ~ (window[i].of \subseteq mail)}
           size == Cardinality(stay)
           pick(k) == window[Nth(k, stay)]
           es == Retained(window, mail)
           at == [k \in 1 .. size |-> from + Nth(k, stay)]
<1>1. /\ window \in Seq(EntryShapes) /\ n \in Nat /\ DOMAIN window = 1 .. n
      /\ \A i \in 1 .. n : from + i \in from + 1 .. to /\ window[i] = s.entries[from + i]
      /\ \A i \in from + 1 .. to : i - from \in 1 .. n /\ window[i - from] = s.entries[i]
  <2>1. s.entries \in Seq(EntryShapes) /\ Len(s.entries) \in Nat
    BY SessionParts
  <2>2. /\ window \in Seq(EntryShapes)
        /\ n = IF from + 1 <= to THEN to - (from + 1) + 1 ELSE 0
        /\ \A i \in 1 .. to - (from + 1) + 1 : window[i] = s.entries[from + 1 + i - 1]
    <3>1. \A i \in from + 1 .. to : i \in 1 .. Len(s.entries)
      BY <2>1
    <3> QED
      BY <2>1, <3>1, SubSeqProperties
  <2>3. n \in Nat /\ DOMAIN window = 1 .. n
    BY <2>2, LenProperties
  <2> HIDE DEF window
  <2>4. \A i \in 1 .. n : from + i \in from + 1 .. to /\ window[i] = s.entries[from + i]
    <3> TAKE i \in 1 .. n
    <3>1. /\ i \in 1 .. to - (from + 1) + 1 /\ from + i \in from + 1 .. to
          /\ from + 1 + i - 1 = from + i
      BY <2>2, <2>3
    <3> QED
      BY <2>2, <3>1
  <2>5. \A i \in from + 1 .. to : i - from \in 1 .. n /\ window[i - from] = s.entries[i]
    <3> TAKE i \in from + 1 .. to
    <3>1. i - from \in 1 .. n /\ from + (i - from) = i
      BY <2>2, <2>3
    <3> QED
      BY <2>4, <3>1
  <2> QED
    BY <2>2, <2>3, <2>4, <2>5
<1> HIDE DEF window
<1>2. \A i \in 1 .. n : window[i] \in EntryShapes
  BY <1>1, ElementOfSeq
<1>3. stay \in SUBSET Nat /\ IsFiniteSet(stay) /\ stay \subseteq 1 .. n
  <2>1. stay \subseteq 1 .. n
    BY <1>1
  <2>2. n \in Int /\ 1 \in Int
    BY <1>1
  <2>3. IsFiniteSet(1 .. n)
    BY <2>2, FS_Interval
  <2> HIDE DEF stay
  <2>4. IsFiniteSet(stay)
    BY <2>1, <2>3, FS_Subset
  <2>5. 1 .. n \subseteq Nat
    BY <1>1
  <2> QED
    BY <2>1, <2>4, <2>5
<1>4. \A i \in 1 .. n :
        i \in stay <=> (window[i].kind = "inputs" => ~ (window[i].of \subseteq mail))
  BY <1>1
<1>5. es = [k \in 1 .. size |->
              IF pick(k).kind = "inputs" THEN [pick(k) EXCEPT !.of = @ \ mail] ELSE pick(k)]
  BY DEF Retained
<1> HIDE DEF stay
<1>6. /\ size \in Nat
      /\ \A k \in 1 .. size : Nth(k, stay) \in stay
      /\ \A i \in stay : \E k \in 1 .. size : Nth(k, stay) = i
      /\ \A k, l \in 1 .. size : k < l => Nth(k, stay) < Nth(l, stay)
  BY <1>3, NthProperties
<1>7. \A k \in 1 .. size :
        /\ Nth(k, stay) \in 1 .. n /\ pick(k) \in EntryShapes
        /\ pick(k).kind = "inputs" => ~ (pick(k).of \subseteq mail)
        /\ from + Nth(k, stay) \in from + 1 .. to /\ pick(k) = s.entries[from + Nth(k, stay)]
  BY <1>1, <1>2, <1>3, <1>4, <1>6
<1> HIDE DEF size, es
<1>8. \A k \in 1 .. size :
        /\ es[k] \in EntryShapes /\ es[k].kind = pick(k).kind /\ es[k].closed = pick(k).closed
        /\ es[k].kind # "inputs" => es[k].of = pick(k).of
        /\ es[k].kind = "inputs" => es[k].of \cap mail = {} /\ es[k].of # {}
  <2> TAKE k \in 1 .. size
  <2>1. pick(k) \in EntryShapes /\ (pick(k).kind = "inputs" => ~ (pick(k).of \subseteq mail))
    BY <1>7
  <2>2. es[k] = IF pick(k).kind = "inputs" THEN [pick(k) EXCEPT !.of = pick(k).of \ mail]
                ELSE pick(k)
    BY <1>5
  <2> HIDE DEF pick
  <2> QED
    BY <2>1, <2>2 DEF EntryShapes
<1>9. es \in Seq(EntryShapes) /\ Len(es) = size
  <2>1. es = [k \in 1 .. size |-> es[k]]
    BY <1>5
  <2>2. [k \in 1 .. size |-> es[k]] \in Seq(EntryShapes)
    BY <1>6, <1>8, IsASeq
  <2>3. DOMAIN es = 1 .. size /\ DOMAIN es = 1 .. Len(es) /\ Len(es) \in Nat
    BY <2>1, <2>2, LenProperties
  <2>4. Len(es) = size
    BY <1>6, <2>3
  <2> QED
    BY <2>1, <2>2, <2>4
<1>10. at \in [1 .. Len(es) -> from + 1 .. to] /\ \A k \in 1 .. size : at[k] = from + Nth(k, stay)
  BY <1>7, <1>9
<1> HIDE DEF at
<1>11. \A k, l \in 1 .. size : k < l => at[k] < at[l]
  <2> SUFFICES ASSUME NEW k \in 1 .. size, NEW l \in 1 .. size, k < l
               PROVE  at[k] < at[l]
    OBVIOUS
  <2>1. Nth(k, stay) \in Nat /\ Nth(l, stay) \in Nat
    BY <1>3, <1>6
  <2>2. Nth(k, stay) < Nth(l, stay)
    BY <1>6
  <2>3. from + Nth(k, stay) < from + Nth(l, stay)
    BY <2>1, <2>2
  <2> QED
    BY <1>10, <2>3
<1>12. ASSUME NEW i \in from + 1 .. to,
              s.entries[i].kind = "inputs" => ~ (s.entries[i].of \subseteq mail)
       PROVE  \E k \in 1 .. size : at[k] = i
  <2>1. i - from \in stay
    BY <1>1, <1>4, <1>12
  <2>2. PICK k \in 1 .. size : Nth(k, stay) = i - from
    BY <1>6, <2>1
  <2>3. at[k] = i
    BY <1>10, <2>2
  <2> QED
    BY <2>3
<1>13. \A k \in 1 .. size : s.entries[at[k]] = pick(k)
  BY <1>7, <1>10
<1> HIDE DEF pick
<1>14. Keeping(es, s.entries, from, to, mail, at)
  BY <1>8, <1>9, <1>10, <1>11, <1>12, <1>13 DEF Keeping
<1> QED
  BY <1>14 DEF es, window

(* What a transition keeps of what is pending, and the entries after it. *)
KeptOver(s, from, to) ==
  Unfinished(s) \cup
    (Finished(s) \ ShownIn(SubSeq(s.entries, from + 1, to), {"direct", "notified"}))

(* What kinds of entries show between two places. *)
ShowsBetween(s, from, to, kinds) ==
  \A c : c \in ShownIn(SubSeq(s.entries, from + 1, to), kinds) <=>
    \E i \in from + 1 .. to : s.entries[i].kind \in kinds /\ c \in s.entries[i].of

LEMMA WindowShown ==
    ASSUME NEW s \in Sessions, NEW from \in Nat, NEW to \in Nat, to <= Len(s.entries), NEW kinds
    PROVE  ShowsBetween(s, from, to, kinds)
<1> DEFINE window == SubSeq(s.entries, from + 1, to)
<1>1. s.entries \in Seq(EntryShapes) /\ Len(s.entries) \in Nat
  BY SessionParts
<1>2. /\ window \in Seq(EntryShapes)
      /\ Len(window) = IF from + 1 <= to THEN to - (from + 1) + 1 ELSE 0
      /\ \A i \in 1 .. to - (from + 1) + 1 : window[i] = s.entries[from + 1 + i - 1]
  <2>1. \A i \in from + 1 .. to : i \in 1 .. Len(s.entries)
    BY <1>1
  <2> QED
    BY <1>1, <2>1, SubSeqProperties
<1>3. Len(window) \in Nat /\ DOMAIN window = 1 .. Len(window)
  BY <1>2, LenProperties
<1> HIDE DEF window
<1>4. \A c : c \in ShownIn(window, kinds) <=>
        \E i \in 1 .. Len(window) : window[i].kind \in kinds /\ c \in window[i].of
  BY <1>3 DEF ShownIn
<1>5. \A i \in 1 .. Len(window) : from + i \in from + 1 .. to /\ window[i] = s.entries[from + i]
  <2> TAKE i \in 1 .. Len(window)
  <2>1. /\ i \in 1 .. to - (from + 1) + 1 /\ from + i \in from + 1 .. to
        /\ from + 1 + i - 1 = from + i
    BY <1>2, <1>3
  <2> QED
    BY <1>2, <2>1
<1>6. \A i \in from + 1 .. to :
        i - from \in 1 .. Len(window) /\ window[i - from] = s.entries[i]
  <2> TAKE i \in from + 1 .. to
  <2>1. i - from \in 1 .. Len(window) /\ from + (i - from) = i
    BY <1>2, <1>3
  <2> QED
    BY <1>5, <2>1
<1>7. \A c : c \in ShownIn(window, kinds) <=>
        \E i \in from + 1 .. to : s.entries[i].kind \in kinds /\ c \in s.entries[i].of
  BY <1>4, <1>5, <1>6
<1> QED
  BY <1>7 DEF ShowsBetween, window

(* With a document the notices stay; without one the model is told. *)
Applied(s, from, to, noticed) == [ContextApplied(s, from, to) EXCEPT !.noticed = noticed]

(* When and from where to where one is applied. *)
MayApply(s, from, to) ==
  /\ from \in Nat /\ to \in Nat /\ to <= Len(s.entries)
  /\ \/ from = 0 /\ to = 0
     \/ /\ s.step.purpose = "Compaction"
        /\ from = s.context.keep /\ to = s.context.source

IsApplied(s, t, from, to, noticed) ==
  noticed \in BOOLEAN /\ t = Applied(s, from, to, noticed)

LEMMA AppliedFields ==
    ASSUME NEW s \in Sessions, NEW t, NEW from, NEW to, NEW noticed,
           MayApply(s, from, to), IsApplied(s, t, from, to, noticed)
    PROVE  LET kept == KeptOver(s, from, to) IN
           /\ t \in Sessions
           /\ t.entries = Retained(SubSeq(s.entries, from + 1, to), s.mail)
                            \o Entry("carried", Unfinished(s))
           /\ t.pending = Told(s.pending, kept, kept)
           /\ t.generation = s.generation + 1 /\ t.step = NoStep /\ t.batch = {}
           /\ t.failures = 0 /\ t.context = NoContext /\ t.noticed = noticed
           /\ t.mail = s.mail /\ t.turn = s.turn /\ t.turns = s.turns /\ t.cancel = s.cancel
           /\ t.outcome = s.outcome /\ t.calls = s.calls /\ t.waitFor = s.waitFor
<1> DEFINE kept == KeptOver(s, from, to)
           pending == Told(s.pending, kept, kept)
           window == SubSeq(s.entries, from + 1, to)
           entries == Retained(window, s.mail) \o Entry("carried", Unfinished(s))
           generation == s.generation + 1
           u == [s EXCEPT
                   !.pending = pending, !.entries = entries, !.generation = generation,
                   !.step = NoStep, !.batch = {}, !.anchored = FALSE, !.failure = "none",
                   !.failures = 0, !.retry = TRUE, !.context = NoContext]
           v == [u EXCEPT !.noticed = noticed]
<1>0. from \in Nat /\ to \in Nat /\ to <= Len(s.entries) /\ noticed \in BOOLEAN
  BY DEF MayApply, IsApplied
<1>1. ContextApplied(s, from, to) = u
  BY DEF ContextApplied, KeptOver
<1>2. /\ NoStep \in StepShapes /\ NoContext \in ContextShapes /\ "none" \in Failures
      /\ generation \in Nat
  BY DEF NoStep, StepShapes, NoContext, ContextShapes, Failures, Sessions
<1>3. pending \in Pendings
  <2>1. s.pending \in Pendings /\ kept \in SUBSET DOMAIN s.pending
    BY SessionParts DEF KeptOver, Finished, Unfinished
  <2> HIDE DEF kept
  <2> QED
    BY <2>1, ToldShape
<1>4. entries \in Seq(EntryShapes)
  <2>1. Retained(window, s.mail) \in Seq(EntryShapes)
    <3>1. PICK at : Keeping(Retained(window, s.mail), s.entries, from, to, s.mail, at)
      BY <1>0, RetainedShape
    <3> HIDE DEF window
    <3> QED
      BY <3>1 DEF Keeping
  <2>2. Unfinished(s) \in SUBSET (Input \cup Calls) /\ "carried" \in EntryKinds
    BY SessionParts DEF Unfinished, EntryKinds
  <2> HIDE DEF window
  <2> QED
    BY <2>1, <2>2, EntryAppended
<1> HIDE DEF kept, pending, window, entries, generation
<1>5. u \in Sessions
  BY <1>2, <1>3, <1>4 DEF Sessions
<1>6. /\ u.entries = entries /\ u.pending = pending
      /\ u.generation = generation /\ u.step = NoStep /\ u.batch = {}
      /\ u.failures = 0 /\ u.context = NoContext /\ u.noticed = s.noticed
      /\ u.mail = s.mail /\ u.turn = s.turn /\ u.turns = s.turns /\ u.cancel = s.cancel
      /\ u.outcome = s.outcome /\ u.calls = s.calls /\ u.waitFor = s.waitFor
  BY DEF Sessions
<1> HIDE DEF u
<1>7. v \in Sessions
  BY <1>0, <1>5 DEF Sessions
<1>8. /\ v.entries = u.entries /\ v.pending = u.pending
      /\ v.generation = u.generation /\ v.step = u.step /\ v.batch = u.batch
      /\ v.failures = u.failures /\ v.context = u.context /\ v.noticed = noticed
      /\ v.mail = u.mail /\ v.turn = u.turn /\ v.turns = u.turns /\ v.cancel = u.cancel
      /\ v.outcome = u.outcome /\ v.calls = u.calls /\ v.waitFor = u.waitFor
  BY <1>5 DEF Sessions
<1>9. t = v
  BY <1>1 DEF Applied, IsApplied
<1> HIDE DEF v
<1> QED
  BY <1>6, <1>7, <1>8, <1>9 DEF entries, pending, kept, window, generation

-----------------------------------------------------------------------------
(* The last response, and the end it may hold. *)

LEMMA LastResponseIs ==
    ASSUME NEW s \in Sessions, NEW i \in Nat
    PROVE  LET j == LastResponse(s, i) IN
           /\ j \in 0 .. Len(s.entries)
           /\ j # 0 => j > i /\ Response(s, j)
           /\ \A k \in DOMAIN s.entries : Response(s, k) /\ k > i => k <= j
<1> DEFINE found == {j \in i + 1 .. Len(s.entries) : s.entries[j].kind = "assistant"}
           ok(j) == j \in found \cup {0} /\ \A k \in found : k <= j
<1>1. Len(s.entries) \in Nat /\ DOMAIN s.entries = 1 .. Len(s.entries)
  BY SessionParts
<1>2. found \subseteq 0 .. Len(s.entries)
  BY <1>1
<1>3. found \cup {0} \in SUBSET (0 .. Len(s.entries)) /\ found \cup {0} # {}
  BY <1>1, <1>2
<1>4. LastResponse(s, i) = CHOOSE j \in found \cup {0} : \A k \in found : k <= j
  BY DEF LastResponse
<1>5. \A j \in found : j > i /\ Response(s, j)
  BY <1>1 DEF Response
<1>6. \A k \in DOMAIN s.entries : Response(s, k) /\ k > i => k \in found
  BY <1>1 DEF Response
<1> HIDE DEF found
<1>7. \E j \in found \cup {0} : \A k \in found : k <= j
  BY <1>1, <1>3, HasLargest
<1>8. ok(LastResponse(s, i))
  BY <1>4, <1>7
<1> QED
  BY <1>3, <1>5, <1>6, <1>8

LEMMA LastResponseOf ==
    ASSUME NEW s \in Sessions, NEW i \in Nat, NEW j \in 0 .. Len(s.entries),
           j # 0 => j > i /\ Response(s, j),
           \A k \in DOMAIN s.entries : Response(s, k) /\ k > i => k <= j
    PROVE  LastResponse(s, i) = j
<1> DEFINE l == LastResponse(s, i)
<1>1. Len(s.entries) \in Nat /\ DOMAIN s.entries = 1 .. Len(s.entries)
  BY SessionParts
<1>2. /\ l \in 0 .. Len(s.entries)
      /\ l # 0 => l > i /\ Response(s, l)
      /\ \A k \in DOMAIN s.entries : Response(s, k) /\ k > i => k <= l
  BY LastResponseIs
<1> HIDE DEF l
<1>3. l # 0 => l <= j
  BY <1>1, <1>2
<1>4. j # 0 => j <= l
  BY <1>1, <1>2
<1>5. l \in Nat /\ j \in Nat
  BY <1>1, <1>2
<1>6. l = j
  BY <1>3, <1>4, <1>5
<1> QED
  BY <1>6 DEF l

(* Entries with the same responses have the same last one. *)
LEMMA SameLast ==
    ASSUME NEW s \in Sessions, NEW t \in Sessions, Len(s.entries) <= Len(t.entries),
           \A k \in DOMAIN s.entries : t.entries[k].kind = s.entries[k].kind
                                       /\ t.entries[k].of = s.entries[k].of,
           \A k \in DOMAIN t.entries : k > Len(s.entries) => t.entries[k].kind # "assistant"
    PROVE  /\ LastResponse(t, 0) = LastResponse(s, 0)
           /\ ResponseCalls(t, 0) = ResponseCalls(s, 0)
<1> DEFINE l == LastResponse(s, 0)
<1>1. /\ Len(s.entries) \in Nat /\ DOMAIN s.entries = 1 .. Len(s.entries)
      /\ Len(t.entries) \in Nat /\ DOMAIN t.entries = 1 .. Len(t.entries)
  BY SessionParts
<1>2. /\ l \in 0 .. Len(s.entries)
      /\ l # 0 => l > 0 /\ Response(s, l)
      /\ \A k \in DOMAIN s.entries : Response(s, k) /\ k > 0 => k <= l
  BY LastResponseIs
<1>3. \A k \in DOMAIN t.entries : Response(t, k) => k \in DOMAIN s.entries /\ Response(s, k)
  BY <1>1 DEF Response
<1>4. \A k \in DOMAIN s.entries : Response(s, k) => Response(t, k)
  BY <1>1 DEF Response
<1> HIDE DEF l
<1>5. l \in 0 .. Len(t.entries) /\ (l # 0 => l > 0 /\ Response(t, l))
  BY <1>1, <1>2, <1>4 DEF Response
<1>6. \A k \in DOMAIN t.entries : Response(t, k) /\ k > 0 => k <= l
  BY <1>1, <1>2, <1>3
<1>7. LastResponse(t, 0) = l
  BY <1>5, <1>6, LastResponseOf
<1>8. l # 0 => t.entries[l].of = s.entries[l].of
  BY <1>1, <1>2
<1> QED
  BY <1>7, <1>8 DEF ResponseCalls, l

LEMMA SameEnd ==
    ASSUME NEW s, NEW t, ResponseCalls(t, 0) = ResponseCalls(s, 0),
           \A c \in ResponseCalls(s, 0) : t.calls[c] = s.calls[c]
    PROVE  EndCall(t) = EndCall(s)
<1> DEFINE ends(x) == {c \in ResponseCalls(x, 0) : IsEnd(x, c) /\ ~x.calls[c].rejected}
<1>1. ends(t) = ends(s)
  BY DEF IsEnd
<1>2. \A x : EndCall(x) = CHOOSE c \in ends(x) \cup {0} :
                            IF ends(x) = {} THEN c = 0 ELSE c # 0 /\ \A d \in ends(x) : c <= d
  BY DEF EndCall
<1> HIDE DEF ends
<1> QED
  BY <1>1, <1>2

LEMMA NoEnd ==
    ASSUME NEW s, ResponseCalls(s, 0) = {}
    PROVE  EndCall(s) = 0
<1> DEFINE ends == {c \in ResponseCalls(s, 0) : IsEnd(s, c) /\ ~s.calls[c].rejected}
<1>1. ends = {}
  OBVIOUS
<1>2. EndCall(s) = CHOOSE c \in ends \cup {0} :
                      IF ends = {} THEN c = 0 ELSE c # 0 /\ \A d \in ends : c <= d
  BY DEF EndCall
<1> HIDE DEF ends
<1>3. ends \cup {0} = {0}
  BY <1>1
<1>4. EndCall(s) = CHOOSE c \in {0} : c = 0
  BY <1>1, <1>2, <1>3
<1> QED
  BY <1>4

-----------------------------------------------------------------------------
(* Events that leave the entries alone. *)

LEMMA Unmoved ==
    ASSUME NEW s \in Sessions, NEW t \in Sessions, NEW a, Transcript(s, a),
           t.calls = s.calls, t.entries = s.entries, DOMAIN t.pending = DOMAIN s.pending,
           \A c \in DOMAIN s.pending : t.pending[c].delivery = s.pending[c].delivery,
           Unfinished(t) \subseteq Unfinished(s),
           s.step = NoStep => t.step = NoStep,
           t.context.purpose = "Compaction" =>
             /\ s.context.purpose = "Compaction"
             /\ t.context.source = s.context.source /\ t.context.keep = s.context.keep,
           t.batch \subseteq DOMAIN s.calls, t.waitFor <= Len(s.calls)
    PROVE  Transcript(t, a)
<1>1. Fresh(t) = Fresh(s)
  BY DEF Fresh
<1>2. /\ \A i : Response(t, i) <=> Response(s, i)
      /\ \A j, c : Answer(t, j, c) <=> Answer(s, j, c)
      /\ Reported(t) = Reported(s)
  BY DEF Response, Answer, Reported
<1>3. \A i, c : Paired(t, i, c) <=> Paired(s, i, c)
  BY <1>2 DEF Paired
<1>4. CallsKnown(t)
  BY DEF Transcript, CallsKnown
<1>5. EntriesSay(t)
  BY <1>2 DEF Transcript, EntriesSay
<1>6. CallsApart(t)
  BY <1>2 DEF Transcript, CallsApart
<1>7. FreshIsLast(t, a)
  BY <1>1, <1>2 DEF Transcript, FreshIsLast
<1>8. ClosedFits(t) /\ AnswersFit(t) /\ NothingAnsweredUnasked(t)
  BY <1>1, <1>2, <1>3 DEF Transcript, ClosedFits, AnswersFit, NothingAnsweredUnasked
<1>9. KeepsWhole(t)
  BY DEF Transcript, KeepsWhole
<1>10. ToldBefore(t)
  <2>1. Len(s.entries) \in Nat /\ DOMAIN s.entries = 1 .. Len(s.entries)
    BY SessionParts
  <2>2. LastResponse(t, 0) = LastResponse(s, 0) /\ ResponseCalls(t, 0) = ResponseCalls(s, 0)
    BY <2>1, SameLast
  <2>3. EndCall(t) = EndCall(s)
    BY <2>2, SameEnd
  <2> QED
    BY <2>2, <2>3 DEF Transcript, ToldBefore
<1> QED
  BY <1>4, <1>5, <1>6, <1>7, <1>8, <1>9, <1>10 DEF Transcript

(* A turn that ends closes the ends whose results no request has shown. *)
LEMMA EndKeepsTranscript ==
    ASSUME NEW s \in Sessions, NEW a, Transcript(s, a),
           NEW outcome \in {"Finished", "Failed", "Cancelled"}
    PROVE  Transcript(TurnFinished(s, outcome), a)
<1> DEFINE t == TurnFinished(s, outcome)
<1>1. /\ t \in Sessions /\ t.calls = s.calls /\ t.entries = Closed(s) /\ t.context = NoContext
      /\ t.pending = Restricted(s.pending, DOMAIN s.pending \ Terminal(s))
      /\ t.step = NoStep /\ t.batch = {} /\ t.waitFor \in {0, s.waitFor}
  BY EndFields
<1> HIDE DEF t
<1>2. /\ Len(s.entries) \in Nat /\ DOMAIN s.entries = 1 .. Len(s.entries)
      /\ Len(t.entries) = Len(s.entries) /\ DOMAIN t.entries = DOMAIN s.entries
      /\ \A i \in DOMAIN s.entries :
            /\ t.entries[i].kind = s.entries[i].kind /\ t.entries[i].of = s.entries[i].of
            /\ t.entries[i].closed =
                  IF s.entries[i].kind = "assistant"
                  THEN s.entries[i].closed \cup (Terminal(s) \cap s.entries[i].of)
                  ELSE s.entries[i].closed
  <2> DEFINE C == Closed(s)
  <2>1. /\ DOMAIN C = DOMAIN s.entries /\ Len(C) = Len(s.entries)
        /\ \A i \in DOMAIN s.entries :
              /\ C[i].kind = s.entries[i].kind /\ C[i].of = s.entries[i].of
              /\ C[i].closed =
                    IF s.entries[i].kind = "assistant"
                    THEN s.entries[i].closed \cup (Terminal(s) \cap s.entries[i].of)
                    ELSE s.entries[i].closed
    BY ClosedShape
  <2>2. Len(s.entries) \in Nat /\ DOMAIN s.entries = 1 .. Len(s.entries)
    BY SessionParts
  <2>3. t.entries = C
    BY <1>1
  <2> HIDE DEF C
  <2> QED
    BY <2>1, <2>2, <2>3
<1>3. /\ DOMAIN t.pending = DOMAIN s.pending \ Terminal(s)
      /\ \A c \in DOMAIN t.pending : t.pending[c] = s.pending[c]
  <2>1. s.pending \in Pendings
    BY SessionParts
  <2> DEFINE S == DOMAIN s.pending \ Terminal(s)
  <2>2. S = DOMAIN s.pending \cap S
    OBVIOUS
  <2> HIDE DEF S
  <2>3. /\ DOMAIN Restricted(s.pending, S) = DOMAIN s.pending \cap S
        /\ \A c \in DOMAIN s.pending \cap S : Restricted(s.pending, S)[c] = s.pending[c]
    BY <2>1, RestrictedShape
  <2>4. t.pending = Restricted(s.pending, S)
    BY <1>1 DEF S
  <2>5. DOMAIN t.pending = S /\ \A c \in S : t.pending[c] = s.pending[c]
    BY <2>2, <2>3, <2>4
  <2> QED
    BY <2>5 DEF S
<1>4. /\ Fresh(t) = Fresh(s) \ Terminal(s) /\ Unfinished(t) \subseteq Unfinished(s)
      /\ Terminal(s) \subseteq Fresh(s)
  BY <1>3 DEF Fresh, Unfinished, Terminal
<1>5. /\ \A i : Response(t, i) <=> Response(s, i)
      /\ \A j, c : Answer(t, j, c) <=> Answer(s, j, c)
  BY <1>2 DEF Response, Answer
<1>6. Reported(t) = Reported(s)
  <2>1. \A c : c \in Reported(t) <=> c \in Reported(s)
    BY <1>2 DEF Reported, ShownIn
  <2> QED
    BY <2>1
<1>7. \A i, c : Paired(t, i, c) <=> Paired(s, i, c)
  BY <1>2, <1>5 DEF Paired
<1>8. CallsKnown(t)
  <2>1. Len(s.calls) \in Nat /\ CallsKnown(s)
    BY SessionParts DEF Transcript
  <2>2. t.waitFor <= Len(s.calls)
    BY <1>1, <2>1 DEF CallsKnown
  <2>3. DOMAIN t.pending \subseteq DOMAIN s.calls
    BY <1>3, <2>1 DEF CallsKnown
  <2> QED
    BY <1>1, <1>2, <2>1, <2>2, <2>3 DEF CallsKnown
<1>9. EntriesSay(t)
  BY <1>2, <1>4, <1>6 DEF Transcript, EntriesSay
<1>10. CallsApart(t)
  BY <1>2, <1>5 DEF Transcript, CallsApart
<1>11. FreshIsLast(t, a)
  <2> SUFFICES ASSUME Fresh(t) # {}
               PROVE  /\ t.entries # <<>> /\ a < Len(t.entries)
                      /\ Response(t, Len(t.entries))
                      /\ Fresh(t) \subseteq t.entries[Len(t.entries)].of
    BY <1>1 DEF FreshIsLast
  <2>1. /\ a < Len(s.entries)
        /\ Response(s, Len(s.entries)) /\ Fresh(s) \subseteq s.entries[Len(s.entries)].of
    BY <1>4 DEF Transcript, FreshIsLast
  <2>2. Len(t.entries) \in DOMAIN t.entries
    BY <1>2, <2>1 DEF Response
  <2>3. t.entries # <<>>
    BY <2>2
  <2> QED
    BY <1>2, <1>4, <1>5, <2>1, <2>2, <2>3
<1>12. ASSUME NEW i \in DOMAIN s.entries, Response(s, i)
       PROVE  /\ t.entries[i].closed = s.entries[i].closed \cup (Terminal(s) \cap s.entries[i].of)
              /\ t.entries[i].of = s.entries[i].of
              /\ s.entries[i].closed \subseteq s.entries[i].of
              /\ s.entries[i].closed \cap Fresh(s) = {}
  BY <1>2, <1>12 DEF Response, Transcript, ClosedFits
<1>13. ClosedFits(t)
  BY <1>2, <1>4, <1>5, <1>12 DEF ClosedFits
<1>14. AnswersFit(t)
  <2> SUFFICES ASSUME NEW i \in DOMAIN s.entries, Response(s, i), NEW c \in s.entries[i].of
               PROVE  IF c \in t.entries[i].closed \cup Fresh(t)
                      THEN \A j \in DOMAIN t.entries : ~ Answer(t, j, c)
                      ELSE Paired(t, i, c)
    BY <1>2, <1>5 DEF AnswersFit
  <2>1. c \in t.entries[i].closed \cup Fresh(t) <=> c \in s.entries[i].closed \cup Fresh(s)
    BY <1>4, <1>12
  <2>2. IF c \in s.entries[i].closed \cup Fresh(s)
        THEN \A j \in DOMAIN s.entries : ~ Answer(s, j, c)
        ELSE Paired(s, i, c)
    BY DEF Transcript, AnswersFit
  <2> QED
    BY <1>2, <1>5, <1>7, <2>1, <2>2
<1>15. NothingAnsweredUnasked(t)
  BY <1>1, <1>2, <1>5 DEF Transcript, NothingAnsweredUnasked
<1>16. KeepsWhole(t)
  BY <1>1 DEF KeepsWhole, NoContext
<1>17. ToldBefore(t)
  <2>1. LastResponse(t, 0) = LastResponse(s, 0) /\ ResponseCalls(t, 0) = ResponseCalls(s, 0)
    <3>1. /\ Len(s.entries) <= Len(t.entries)
          /\ \A k \in DOMAIN t.entries : ~ (k > Len(s.entries))
      BY <1>2
    <3> QED
      BY <1>1, <1>2, <3>1, SameLast
  <2>2. EndCall(t) = EndCall(s)
    BY <1>1, <2>1, SameEnd
  <2> QED
    BY <1>2, <1>3, <2>1, <2>2 DEF Transcript, ToldBefore
<1> QED
  BY <1>8, <1>9, <1>10, <1>11, <1>13, <1>14, <1>15, <1>16, <1>17 DEF Transcript, t

-----------------------------------------------------------------------------
(* A request. *)

(* When the runner makes one. *)
MayStart(s, purpose, placeholders, told) ==
  /\ purpose \in Purposes /\ placeholders \in BOOLEAN /\ told \subseteq Outstanding(s)
  /\ purpose = "Conversation" => s.context = NoContext
  /\ s.context # NoContext => s.context.purpose = purpose
  /\ placeholders \/ Fresh(s) = {}
  /\ told # {} => /\ purpose = "Conversation"
                  /\ ResponseCalls(s, 0) = {} \/ EndCall(s) \in Finished(s)

(* t has the entries of s and then those of said, one of a kind. *)
Adds(s, t, said) ==
  /\ Len(s.entries) \in Nat /\ DOMAIN s.entries = 1 .. Len(s.entries)
  /\ Len(t.entries) \in Nat /\ DOMAIN t.entries = 1 .. Len(t.entries)
  /\ Len(s.entries) <= Len(t.entries)
  /\ \A i \in DOMAIN s.entries : i \in DOMAIN t.entries /\ t.entries[i] = s.entries[i]
  /\ \A j \in DOMAIN t.entries : j > Len(s.entries) =>
       /\ <<t.entries[j].kind, t.entries[j].of>> \in said
       /\ t.entries[j].kind # "assistant"
       /\ t.entries[j].of # {} /\ t.entries[j].closed = {}
  /\ \A x \in said : x[2] # {} =>
       \E j \in DOMAIN t.entries :
         j > Len(s.entries) /\ t.entries[j].kind = x[1] /\ t.entries[j].of = x[2]
  /\ \A j, k \in DOMAIN t.entries :
       j > Len(s.entries) /\ k > Len(s.entries) /\ t.entries[j].kind = t.entries[k].kind => j = k

(* The entries before a request stay, and none of its own is a response. *)
LEMMA StartedEntries ==
    ASSUME NEW s \in Sessions, NEW t, NEW purpose, NEW placeholders, NEW told,
           MayStart(s, purpose, placeholders, told),
           IsStarted(s, t, purpose, placeholders, told)
    PROVE  Adds(s, t, Saying(s, purpose, placeholders, told))
<1>1. told \in SUBSET (Input \cup Calls)
  <2>1. s.mail \subseteq Input /\ Unfinished(s) \subseteq Calls
    BY SessionParts DEF Sessions, Unfinished
  <2> QED
    BY <2>1 DEF MayStart, Outstanding
<1>2. t \in Sessions /\ t.entries = EntriesWith(s, purpose, placeholders, told)
  BY DEF IsStarted
<1>3. Extends(t.entries, s.entries, Saying(s, purpose, placeholders, told))
  BY <1>1, <1>2, SayingShape DEF MayStart
<1>4. /\ Len(s.entries) \in Nat /\ DOMAIN s.entries = 1 .. Len(s.entries)
      /\ Len(t.entries) \in Nat /\ DOMAIN t.entries = 1 .. Len(t.entries)
  BY <1>2, SessionParts
<1>5. \A x \in Saying(s, purpose, placeholders, told) : x[1] # "assistant"
  BY DEF Saying
<1>6. \A i \in DOMAIN s.entries : i \in DOMAIN t.entries /\ t.entries[i] = s.entries[i]
  BY <1>3, <1>4 DEF Extends
<1>7. \A j \in DOMAIN t.entries : j > Len(s.entries) =>
        /\ <<t.entries[j].kind, t.entries[j].of>> \in Saying(s, purpose, placeholders, told)
        /\ t.entries[j].of # {} /\ t.entries[j].closed = {}
  BY <1>3, <1>4 DEF Extends
<1>8. \A j \in DOMAIN t.entries : j > Len(s.entries) => t.entries[j].kind # "assistant"
  <2> TAKE j \in DOMAIN t.entries
  <2> HAVE j > Len(s.entries)
  <2> DEFINE x == <<t.entries[j].kind, t.entries[j].of>>
  <2>1. x \in Saying(s, purpose, placeholders, told) /\ x[1] = t.entries[j].kind
    BY <1>7
  <2> HIDE DEF x
  <2> QED
    BY <1>5, <2>1
<1>9. Len(s.entries) <= Len(t.entries)
  BY <1>3, <1>4 DEF Extends
<1>10. \A x \in Saying(s, purpose, placeholders, told) : x[2] # {} =>
         \E j \in DOMAIN t.entries :
           j > Len(s.entries) /\ t.entries[j].kind = x[1] /\ t.entries[j].of = x[2]
  BY <1>3, <1>4 DEF Extends
<1>11. \A j, k \in DOMAIN t.entries :
         j > Len(s.entries) /\ k > Len(s.entries) /\ t.entries[j].kind = t.entries[k].kind
           => j = k
  BY <1>3, <1>4 DEF Extends
<1> QED
  BY <1>4, <1>6, <1>7, <1>8, <1>9, <1>10, <1>11 DEF Adds

LEMMA DeliversFresh ==
    ASSUME NEW s \in Sessions, NEW a, NEW purpose, NEW placeholders, NEW told,
           Fits(s, a), Transcript(s, a), MayStart(s, purpose, placeholders, told)
    PROVE  /\ Fresh(s) \subseteq DOMAIN s.pending \cap Deliverable(s, purpose)
           /\ Fresh(s) \subseteq DirectOf(s, purpose) \cup WaitingOf(s, purpose, placeholders)
           /\ DirectOf(s, purpose) \cup WaitingOf(s, purpose, placeholders) \subseteq Fresh(s)
           /\ DirectOf(s, purpose) \subseteq Finished(s)
           /\ WaitingOf(s, purpose, placeholders) \subseteq Unfinished(s)
           /\ NotifiedOf(s, purpose) \subseteq Finished(s)
<1>1. Fresh(s) \subseteq DOMAIN s.pending
  BY DEF Fresh
<1>2. ASSUME Fresh(s) # {}
      PROVE  Fresh(s) \subseteq Deliverable(s, purpose)
  <2>1. /\ a < Len(s.entries) /\ Response(s, Len(s.entries))
        /\ Fresh(s) \subseteq s.entries[Len(s.entries)].of
    BY <1>2 DEF Transcript, FreshIsLast
  <2>2. /\ s.context.source \in Nat /\ s.context.source <= a /\ a \in Nat
        /\ Len(s.entries) \in Nat /\ DOMAIN s.entries = 1 .. Len(s.entries)
    BY SessionParts DEF Sessions, ContextShapes, Fits
  <2>3. CASE s.context = NoContext
    BY <1>1, <2>3 DEF Deliverable
  <2>4. CASE s.context # NoContext /\ purpose = "Handoff"
    <3>1. LastResponse(s, s.context.source) = Len(s.entries)
      <4>1. Len(s.entries) \in 0 .. Len(s.entries) /\ Len(s.entries) > s.context.source
        BY <2>1, <2>2
      <4>2. \A k \in DOMAIN s.entries : k <= Len(s.entries)
        BY <2>2
      <4> QED
        BY <2>1, <2>2, <4>1, <4>2, LastResponseOf
    <3>2. Len(s.entries) # 0
      BY <2>1, <2>2
    <3> QED
      BY <1>1, <2>1, <2>4, <3>1, <3>2 DEF Deliverable, ResponseCalls
  <2>5. CASE s.context # NoContext /\ purpose # "Handoff"
    <3>1. s.context.purpose = "Compaction"
      BY <2>5 DEF MayStart, Purposes
    <3>2. s.context.source = Len(s.entries)
      BY <3>1 DEF Transcript, KeepsWhole
    <3> QED
      BY <2>1, <2>2, <3>2
  <2> QED
    BY <2>3, <2>4, <2>5
<1>3. Fresh(s) \subseteq Deliverable(s, purpose)
  BY <1>2
<1>4. DOMAIN s.pending = Finished(s) \cup Unfinished(s)
  BY DEF Finished, Unfinished
<1>5. Fresh(s) \subseteq DirectOf(s, purpose) \cup WaitingOf(s, purpose, placeholders)
  <2>1. CASE placeholders
    BY <1>1, <1>3, <1>4, <2>1 DEF DirectOf, WaitingOf
  <2>2. CASE Fresh(s) = {}
    BY <2>2
  <2> QED
    BY <2>1, <2>2 DEF MayStart
<1> QED
  BY <1>1, <1>3, <1>5 DEF DirectOf, WaitingOf, NotifiedOf

(* What is pending once a request is made: nothing of it is fresh. *)
LEMMA StartedPending ==
    ASSUME NEW s \in Sessions, NEW t, NEW a, NEW purpose, NEW placeholders, NEW told,
           Fits(s, a), Transcript(s, a), MayStart(s, purpose, placeholders, told),
           IsStarted(s, t, purpose, placeholders, told)
    PROVE  /\ DOMAIN t.pending = KeptBy(s, purpose) /\ DOMAIN t.pending \subseteq DOMAIN s.pending
           /\ \A c \in DOMAIN t.pending : t.pending[c].result = s.pending[c].result
           /\ Fresh(t) = {}
           /\ Unfinished(t) = Unfinished(s)
<1> DEFINE said == DirectOf(s, purpose) \cup WaitingOf(s, purpose, placeholders)
<1>1. s.pending \in Pendings /\ KeptBy(s, purpose) \in SUBSET DOMAIN s.pending
  BY SessionParts DEF KeptBy
<1>2. t.pending = Told(s.pending, KeptBy(s, purpose), said)
  BY DEF IsStarted
<1>3. Fresh(s) \subseteq said
  BY DeliversFresh
<1> HIDE DEF said
<1>4. /\ DOMAIN t.pending = KeptBy(s, purpose)
      /\ \A c \in KeptBy(s, purpose) :
            /\ t.pending[c].result = s.pending[c].result
            /\ t.pending[c].delivery = IF c \in said THEN "sent" ELSE s.pending[c].delivery
  BY <1>1, <1>2, ToldShape
<1>5. Fresh(t) = {}
  <2> SUFFICES ASSUME NEW c \in DOMAIN t.pending, t.pending[c].delivery = "fresh"
               PROVE  FALSE
    BY DEF Fresh
  <2>1. c \notin said /\ s.pending[c].delivery = "fresh"
    BY <1>4
  <2>2. c \in Fresh(s)
    BY <1>1, <1>4, <2>1 DEF Fresh
  <2> QED
    BY <1>3, <2>1, <2>2
<1>6. Unfinished(s) \subseteq KeptBy(s, purpose)
  <2>1. DirectOf(s, purpose) \cup NotifiedOf(s, purpose) \subseteq Finished(s)
    BY DEF DirectOf, NotifiedOf
  <2> QED
    BY <2>1 DEF KeptBy, Finished, Unfinished
<1>7. Unfinished(t) = Unfinished(s)
  <2>1. \A c : c \in Unfinished(t) <=> c \in Unfinished(s)
    BY <1>1, <1>4, <1>6 DEF Unfinished
  <2> QED
    BY <2>1
<1> QED
  BY <1>1, <1>4, <1>5, <1>7

(* The answers of a request are those of the calls that were fresh. *)
LEMMA StartedAnswers ==
    ASSUME NEW s \in Sessions, NEW t, NEW a, NEW purpose, NEW placeholders, NEW told,
           Fits(s, a), Transcript(s, a), MayStart(s, purpose, placeholders, told),
           IsStarted(s, t, purpose, placeholders, told)
    PROVE  /\ \A j : j \in DOMAIN s.entries => \A c : Answer(t, j, c) <=> Answer(s, j, c)
           /\ \A j, c : Answer(t, j, c) /\ j \notin DOMAIN s.entries => c \in Fresh(s)
           /\ \A c \in Fresh(s) : \E j \in DOMAIN t.entries :
                j > Len(s.entries) /\ Answer(t, j, c)
           /\ \A j, k, c :
                j \notin DOMAIN s.entries /\ k \notin DOMAIN s.entries
                  /\ Answer(t, j, c) /\ Answer(t, k, c) => j = k
           /\ \A i : Response(t, i) <=> Response(s, i)
<1> DEFINE said == Saying(s, purpose, placeholders, told)
           b == Len(s.entries)
           direct == DirectOf(s, purpose)
           waiting == WaitingOf(s, purpose, placeholders)
<1>1. /\ b \in Nat /\ DOMAIN s.entries = 1 .. b
      /\ Len(t.entries) \in Nat /\ DOMAIN t.entries = 1 .. Len(t.entries) /\ b <= Len(t.entries)
      /\ \A i \in DOMAIN s.entries : i \in DOMAIN t.entries /\ t.entries[i] = s.entries[i]
      /\ \A j \in DOMAIN t.entries : j > b =>
           /\ <<t.entries[j].kind, t.entries[j].of>> \in said
           /\ t.entries[j].kind # "assistant"
      /\ \A x \in said : x[2] # {} =>
           \E j \in DOMAIN t.entries : j > b /\ t.entries[j].kind = x[1] /\ t.entries[j].of = x[2]
      /\ \A j, k \in DOMAIN t.entries :
           j > b /\ k > b /\ t.entries[j].kind = t.entries[k].kind => j = k
  <2>1. Adds(s, t, said)
    BY StartedEntries
  <2> HIDE DEF said
  <2> QED
    BY <2>1 DEF Adds
<1>2. /\ direct \cup waiting = Fresh(s) /\ direct \cap waiting = {}
  BY DeliversFresh DEF Finished
<1>3. <<"direct", direct>> \in said /\ <<"pending", waiting>> \in said
  BY DEF Saying
<1>4. \A x \in said : (x[1] = "direct" => x[2] = direct) /\ (x[1] = "pending" => x[2] = waiting)
  BY DEF Saying
<1> HIDE DEF said, b, direct, waiting
<1>5. ASSUME NEW j, NEW c, Answer(t, j, c), j \notin DOMAIN s.entries
      PROVE  /\ j \in DOMAIN t.entries /\ j > b
             /\ \/ t.entries[j].kind = "direct" /\ c \in direct
                \/ t.entries[j].kind = "pending" /\ c \in waiting
  <2>1. /\ j \in DOMAIN t.entries /\ t.entries[j].kind \in {"pending", "direct"}
        /\ c \in t.entries[j].of
    BY <1>5 DEF Answer
  <2>2. j > b
    BY <1>1, <1>5, <2>1
  <2> DEFINE x == <<t.entries[j].kind, t.entries[j].of>>
  <2>3. x \in said /\ x[1] = t.entries[j].kind /\ x[2] = t.entries[j].of
    BY <1>1, <2>1, <2>2
  <2> HIDE DEF x
  <2> QED
    BY <1>4, <2>1, <2>2, <2>3
<1>6. ASSUME NEW c \in Fresh(s)
      PROVE  \E j \in DOMAIN t.entries : j > b /\ Answer(t, j, c)
  <2>1. CASE c \in direct
    <3>1. PICK j \in DOMAIN t.entries : j > b /\ t.entries[j].kind = "direct"
                                        /\ t.entries[j].of = direct
      BY <1>1, <1>3, <2>1
    <3> QED
      BY <2>1, <3>1 DEF Answer
  <2>2. CASE c \in waiting
    <3>1. PICK j \in DOMAIN t.entries : j > b /\ t.entries[j].kind = "pending"
                                        /\ t.entries[j].of = waiting
      BY <1>1, <1>3, <2>2
    <3> QED
      BY <2>2, <3>1 DEF Answer
  <2> QED
    BY <1>2, <2>1, <2>2
<1>7. \A j, k, c :
        j \notin DOMAIN s.entries /\ k \notin DOMAIN s.entries
          /\ Answer(t, j, c) /\ Answer(t, k, c) => j = k
  <2> TAKE j, k, c
  <2> HAVE /\ j \notin DOMAIN s.entries /\ k \notin DOMAIN s.entries
           /\ Answer(t, j, c) /\ Answer(t, k, c)
  <2>1. t.entries[j].kind = t.entries[k].kind
    BY <1>2, <1>5
  <2> QED
    BY <1>1, <1>5, <2>1
<1>8. \A j \in DOMAIN s.entries : \A c : Answer(t, j, c) <=> Answer(s, j, c)
  BY <1>1 DEF Answer
<1>9. \A i : Response(t, i) <=> Response(s, i)
  <2> TAKE i
  <2>1. CASE i \in DOMAIN s.entries
    BY <1>1, <2>1 DEF Response
  <2>2. CASE i \in DOMAIN t.entries /\ i \notin DOMAIN s.entries
    <3>1. i > b
      BY <1>1, <2>2
    <3> QED
      BY <1>1, <2>2, <3>1 DEF Response
  <2>3. CASE i \notin DOMAIN t.entries
    BY <1>1, <2>3 DEF Response
  <2> QED
    BY <2>1, <2>2, <2>3
<1>10. \A j, c : Answer(t, j, c) /\ j \notin DOMAIN s.entries => c \in Fresh(s)
  BY <1>2, <1>5
<1>11. \A c \in Fresh(s) : \E j \in DOMAIN t.entries : j > Len(s.entries) /\ Answer(t, j, c)
  BY <1>6 DEF b
<1> QED
  BY <1>8, <1>9, <1>10, <1>7, <1>11

LEMMA StartedTranscript ==
    ASSUME NEW s \in Sessions, NEW t, NEW a, NEW purpose, NEW placeholders, NEW told,
           Fits(s, a), Transcript(s, a), MayStart(s, purpose, placeholders, told),
           IsStarted(s, t, purpose, placeholders, told)
    PROVE  Transcript(t, Len(t.entries))
<1>1. /\ Len(s.entries) \in Nat /\ DOMAIN s.entries = 1 .. Len(s.entries)
      /\ Len(t.entries) \in Nat /\ DOMAIN t.entries = 1 .. Len(t.entries)
      /\ Len(s.entries) <= Len(t.entries)
      /\ \A i \in DOMAIN s.entries : i \in DOMAIN t.entries /\ t.entries[i] = s.entries[i]
      /\ \A j \in DOMAIN t.entries : j > Len(s.entries) =>
           /\ <<t.entries[j].kind, t.entries[j].of>> \in Saying(s, purpose, placeholders, told)
           /\ t.entries[j].kind # "assistant" /\ t.entries[j].of # {}
  <2>1. Adds(s, t, Saying(s, purpose, placeholders, told))
    BY StartedEntries
  <2> QED
    BY <2>1 DEF Adds
<1>2. /\ DOMAIN t.pending = KeptBy(s, purpose) /\ DOMAIN t.pending \subseteq DOMAIN s.pending
      /\ Fresh(t) = {} /\ Unfinished(t) = Unfinished(s)
  BY StartedPending
<1>3. /\ \A j \in DOMAIN s.entries : \A c : Answer(t, j, c) <=> Answer(s, j, c)
      /\ \A j, c : Answer(t, j, c) /\ j \notin DOMAIN s.entries => c \in Fresh(s)
      /\ \A c \in Fresh(s) : \E j \in DOMAIN t.entries : j > Len(s.entries) /\ Answer(t, j, c)
      /\ \A j, k, c :
           j \notin DOMAIN s.entries /\ k \notin DOMAIN s.entries
             /\ Answer(t, j, c) /\ Answer(t, k, c) => j = k
      /\ \A i : Response(t, i) <=> Response(s, i)
  BY StartedAnswers
<1>4. /\ t \in Sessions /\ t.calls = s.calls /\ t.batch = s.batch /\ t.waitFor \in {0, s.waitFor}
      /\ ~First(s, purpose) => t.context = s.context
      /\ First(s, purpose) =>
           /\ t.context.source = Len(t.entries)
           /\ t.context.keep = Len(t.entries) \/ OpenCalls(t.entries, t.context.keep) = {}
  BY DEF IsStarted
<1>5. /\ CallsKnown(s) /\ EntriesSay(s) /\ CallsApart(s) /\ FreshIsLast(s, a)
      /\ ClosedFits(s) /\ AnswersFit(s) /\ NothingAnsweredUnasked(s)
      /\ KeepsWhole(s) /\ ToldBefore(s)
  BY DEF Transcript
<1>6. /\ DirectOf(s, purpose) \cup WaitingOf(s, purpose, placeholders) \subseteq Fresh(s)
      /\ DirectOf(s, purpose) \subseteq Finished(s) /\ NotifiedOf(s, purpose) \subseteq Finished(s)
  BY DeliversFresh
<1>7. ASSUME NEW j \in DOMAIN t.entries, j > Len(s.entries)
      PROVE  /\ t.entries[j].kind \in CallKinds => t.entries[j].of \subseteq DOMAIN s.pending
             /\ t.entries[j].kind \in {"direct", "notified"} =>
                  t.entries[j].of \subseteq Finished(s)
             /\ t.entries[j].kind = "outstanding" => told # {}
  <2> DEFINE x == <<t.entries[j].kind, t.entries[j].of>>
  <2>1. x \in Saying(s, purpose, placeholders, told)
    BY <1>1, <1>7
  <2>2. /\ x[1] = t.entries[j].kind /\ x[2] = t.entries[j].of /\ t.entries[j].of # {}
    BY <1>1, <1>7
  <2>3. \A y \in Saying(s, purpose, placeholders, told) :
          /\ y[1] \in {"direct", "pending"} =>
               y[2] \subseteq DirectOf(s, purpose) \cup WaitingOf(s, purpose, placeholders)
          /\ y[1] = "direct" => y[2] = DirectOf(s, purpose)
          /\ y[1] = "notified" => y[2] = NotifiedOf(s, purpose)
          /\ y[1] = "outstanding" => y[2] \subseteq told
          /\ y[1] \notin {"assistant", "carried"}
    BY DEF Saying
  <2>4. Fresh(s) \subseteq DOMAIN s.pending /\ Finished(s) \subseteq DOMAIN s.pending
    BY DEF Fresh, Finished
  <2> HIDE DEF x
  <2>5. /\ x[1] \in CallKinds => x[2] \subseteq DOMAIN s.pending
        /\ x[1] \in {"direct", "notified"} => x[2] \subseteq Finished(s)
        /\ x[1] = "outstanding" => x[2] \subseteq told
    <3>1. x[1] \in {"direct", "pending"} => x[2] \subseteq DOMAIN s.pending
      BY <1>6, <2>1, <2>3, <2>4
    <3>2. x[1] = "notified" => x[2] \subseteq Finished(s)
      BY <1>6, <2>1, <2>3
    <3>3. x[1] = "direct" => x[2] \subseteq Finished(s)
      BY <1>6, <2>1, <2>3
    <3>4. x[1] \notin {"assistant", "carried"} /\ (x[1] = "outstanding" => x[2] \subseteq told)
      BY <2>1, <2>3
    <3> QED
      BY <2>4, <3>1, <3>2, <3>3, <3>4 DEF CallKinds
  <2> QED
    BY <2>2, <2>5
<1>8. CallsKnown(t)
  <2>1. Len(s.calls) \in Nat
    BY SessionParts
  <2>2. t.waitFor <= Len(s.calls)
    BY <1>4, <1>5, <2>1 DEF CallsKnown
  <2>3. ASSUME NEW i \in DOMAIN t.entries, t.entries[i].kind \in CallKinds
        PROVE  t.entries[i].of \subseteq DOMAIN s.calls
    <3>1. CASE i \in DOMAIN s.entries
      BY <1>1, <1>5, <2>3, <3>1 DEF CallsKnown
    <3>2. CASE i \notin DOMAIN s.entries
      <4>1. i > Len(s.entries)
        BY <1>1, <3>2
      <4>2. t.entries[i].of \subseteq DOMAIN s.pending
        BY <1>7, <2>3, <4>1
      <4> QED
        BY <1>5, <4>2 DEF CallsKnown
    <3> QED
      BY <3>1, <3>2
  <2> QED
    BY <1>2, <1>4, <1>5, <2>1, <2>2, <2>3 DEF CallsKnown
<1>9. EntriesSay(t)
  <2>1. \A i \in DOMAIN t.entries : t.entries[i].kind # "assistant" => t.entries[i].of # {}
    <3> TAKE i \in DOMAIN t.entries
    <3>1. CASE i \in DOMAIN s.entries
      BY <1>1, <1>5, <3>1 DEF EntriesSay
    <3>2. CASE i \notin DOMAIN s.entries
      <4>1. i > Len(s.entries)
        BY <1>1, <3>2
      <4> QED
        BY <1>1, <4>1
    <3> QED
      BY <3>1, <3>2
  <2>2. ASSUME NEW c \in Reported(t), c \in Unfinished(t)
        PROVE  FALSE
    <3>1. PICK i \in DOMAIN t.entries :
            t.entries[i].kind \in {"direct", "notified"} /\ c \in t.entries[i].of
      BY DEF Reported, ShownIn
    <3>2. CASE i \in DOMAIN s.entries
      <4>1. c \in Reported(s)
        BY <1>1, <3>1, <3>2 DEF Reported, ShownIn
      <4> QED
        BY <1>2, <1>5, <2>2, <4>1 DEF EntriesSay
    <3>3. CASE i \notin DOMAIN s.entries
      <4>1. i > Len(s.entries)
        BY <1>1, <3>3
      <4>2. c \in Finished(s)
        BY <1>7, <3>1, <4>1
      <4> QED
        BY <1>2, <2>2, <4>2 DEF Finished
    <3> QED
      BY <3>2, <3>3
  <2> QED
    BY <2>1, <2>2 DEF EntriesSay
<1>10. CallsApart(t)
  <2>1. \A i : Response(t, i) => i \in DOMAIN s.entries /\ Response(s, i)
    BY <1>3 DEF Response
  <2> QED
    BY <1>1, <1>5, <2>1 DEF CallsApart
<1>11. FreshIsLast(t, Len(t.entries)) 
  BY <1>2 DEF FreshIsLast
<1>12. \A i \in DOMAIN t.entries : Response(t, i) =>
         i \in DOMAIN s.entries /\ Response(s, i) /\ t.entries[i] = s.entries[i]
  BY <1>1, <1>3 DEF Response
<1>13. ClosedFits(t)
  BY <1>2, <1>5, <1>12 DEF ClosedFits
<1>14. ASSUME NEW i \in DOMAIN s.entries, Response(s, i), NEW c \in s.entries[i].of
       PROVE  /\ c \in s.entries[i].closed => \A j \in DOMAIN t.entries : ~ Answer(t, j, c)
              /\ c \notin s.entries[i].closed => Paired(t, i, c)
  <2>1. /\ s.entries[i].closed \cap Fresh(s) = {}
        /\ IF c \in s.entries[i].closed \cup Fresh(s)
           THEN \A j \in DOMAIN s.entries : ~ Answer(s, j, c)
           ELSE Paired(s, i, c)
    BY <1>5, <1>14 DEF ClosedFits, AnswersFit
  <2>2. ASSUME c \in s.entries[i].closed, NEW j \in DOMAIN t.entries, Answer(t, j, c)
        PROVE  FALSE
    <3>1. c \notin Fresh(s) /\ \A k \in DOMAIN s.entries : ~ Answer(s, k, c)
      BY <2>1, <2>2
    <3>2. j \notin DOMAIN s.entries
      BY <1>3, <2>2, <3>1
    <3> QED
      BY <1>3, <2>2, <3>1, <3>2
  <2>3. ASSUME c \in Fresh(s)
        PROVE  Paired(t, i, c)
    <3>1. \A j \in DOMAIN s.entries : ~ Answer(t, j, c)
      BY <1>3, <2>1, <2>3
    <3>2. PICK j \in DOMAIN t.entries : j > Len(s.entries) /\ Answer(t, j, c)
      BY <1>3, <2>3
    <3>3. Response(s, Len(s.entries)) /\ c \in s.entries[Len(s.entries)].of
      BY <1>5, <2>3 DEF FreshIsLast
    <3>4. i = Len(s.entries)
      BY <1>5, <1>14, <3>3 DEF CallsApart, Response
    <3>5. i < j
      BY <1>1, <3>2, <3>4
    <3>6. \A k \in DOMAIN t.entries : Answer(t, k, c) => k = j
      <4>1. j \notin DOMAIN s.entries
        BY <1>1, <3>2
      <4> QED
        BY <1>3, <3>1, <3>2, <4>1
    <3>7. \A k \in DOMAIN t.entries : Response(t, k) => ~(i < k /\ k < j)
      BY <1>1, <1>12, <3>4
    <3> QED
      BY <3>2, <3>5, <3>6, <3>7 DEF Paired
  <2>4. ASSUME c \notin s.entries[i].closed, c \notin Fresh(s)
        PROVE  Paired(t, i, c)
    <3>1. PICK j \in DOMAIN s.entries :
            /\ Answer(s, j, c) /\ i < j
            /\ \A k \in DOMAIN s.entries : Answer(s, k, c) => k = j
            /\ \A k \in DOMAIN s.entries : Response(s, k) => ~(i < k /\ k < j)
      BY <2>1, <2>4 DEF Paired
    <3>2. j \in DOMAIN t.entries /\ Answer(t, j, c)
      BY <1>1, <1>3, <3>1
    <3>3. \A k \in DOMAIN t.entries : Answer(t, k, c) => k = j
      <4> TAKE k \in DOMAIN t.entries
      <4> HAVE Answer(t, k, c)
      <4>1. k \in DOMAIN s.entries
        BY <1>3, <2>4
      <4> QED
        BY <1>3, <3>1, <4>1
    <3>4. \A k \in DOMAIN t.entries : Response(t, k) => ~(i < k /\ k < j)
      BY <1>12, <3>1
    <3> QED
      BY <3>1, <3>2, <3>3, <3>4 DEF Paired
  <2> QED
    BY <2>2, <2>3, <2>4
<1>15. AnswersFit(t)
  BY <1>2, <1>12, <1>14 DEF AnswersFit
<1>16. NothingAnsweredUnasked(t)
  <2> SUFFICES ASSUME NEW j \in DOMAIN t.entries, NEW c \in DOMAIN t.calls, Answer(t, j, c)
               PROVE  \E i \in DOMAIN t.entries : Response(t, i) /\ c \in t.entries[i].of
    BY DEF NothingAnsweredUnasked
  <2>1. CASE j \in DOMAIN s.entries
    <3>1. PICK i \in DOMAIN s.entries : Response(s, i) /\ c \in s.entries[i].of
      BY <1>3, <1>4, <1>5, <2>1 DEF NothingAnsweredUnasked
    <3> QED
      BY <1>1, <1>3, <3>1
  <2>2. CASE j \notin DOMAIN s.entries
    <3>1. c \in Fresh(s)
      BY <1>3, <2>2
    <3>2. Response(s, Len(s.entries)) /\ c \in s.entries[Len(s.entries)].of
      BY <1>5, <3>1 DEF FreshIsLast
    <3>3. Len(s.entries) \in DOMAIN s.entries
      BY <3>2 DEF Response
    <3> QED
      BY <1>1, <1>3, <3>2, <3>3
  <2> QED
    BY <2>1, <2>2
<1>17. KeepsWhole(t)
  <2>1. CASE First(s, purpose)
    BY <1>4, <2>1 DEF KeepsWhole
  <2>2. CASE ~First(s, purpose)
    <3> SUFFICES ASSUME t.context.purpose = "Compaction"
                 PROVE  /\ t.context.source = Len(t.entries)
                        /\ \/ t.context.keep = Len(t.entries)
                           \/ OpenCalls(t.entries, t.context.keep) = {}
      BY DEF KeepsWhole
    <3>1. s.context.purpose = "Compaction" /\ t.context = s.context
      BY <1>4, <2>2
    <3>2. s.context # NoContext /\ purpose = "Compaction"
      BY <3>1 DEF NoContext, MayStart
    <3>3. t.entries = s.entries
      <4>1. told = {}
        BY <3>2 DEF MayStart
      <4>2. /\ ConsumedBy(s, purpose) = {} /\ Deliverable(s, purpose) = {}
        BY <3>2 DEF ConsumedBy, Deliverable
      <4>3. /\ DirectOf(s, purpose) = {} /\ NotifiedOf(s, purpose) = {}
            /\ WaitingOf(s, purpose, placeholders) = {}
        BY <4>2 DEF DirectOf, NotifiedOf, WaitingOf
      <4>4. \A x \in Saying(s, purpose, placeholders, told) : x[2] = {}
        BY <4>1, <4>2, <4>3 DEF Saying
      <4>5. \A j \in DOMAIN t.entries : ~ (j > Len(s.entries))
        <5> SUFFICES ASSUME NEW j \in DOMAIN t.entries, j > Len(s.entries) PROVE FALSE
          OBVIOUS
        <5> DEFINE x == <<t.entries[j].kind, t.entries[j].of>>
        <5>1. x \in Saying(s, purpose, placeholders, told) /\ x[2] = t.entries[j].of
          BY <1>1
        <5> HIDE DEF x
        <5> QED
          BY <1>1, <4>4, <5>1
      <4>6. Len(t.entries) = Len(s.entries)
        <5>1. Len(t.entries) > Len(s.entries) => Len(t.entries) \in DOMAIN t.entries
          BY <1>1
        <5>2. ~ (Len(t.entries) > Len(s.entries))
          BY <4>5, <5>1
        <5> QED
          BY <1>1, <5>2
      <4>7. t.entries \in Seq(EntryShapes) /\ s.entries \in Seq(EntryShapes)
        BY <1>4, SessionParts
      <4> QED
        BY <1>1, <4>6, <4>7, SeqEqual
    <3> QED
      BY <1>5, <3>1, <3>3 DEF KeepsWhole
  <2> QED
    BY <2>1, <2>2
<1>18. ToldBefore(t)
  <2>1. LastResponse(t, 0) = LastResponse(s, 0) /\ ResponseCalls(t, 0) = ResponseCalls(s, 0)
    BY <1>1, <1>4, SameLast
  <2>2. EndCall(t) = EndCall(s)
    BY <1>4, <2>1, SameEnd
  <2>3. CASE told = {}
    <3> SUFFICES ASSUME EndCall(s) \in DOMAIN s.pending,
                        NEW i \in DOMAIN t.entries, t.entries[i].kind = "outstanding"
                 PROVE  i <= LastResponse(s, 0)
      BY <1>2, <2>1, <2>2 DEF ToldBefore
    <3>1. ~ (i > Len(s.entries))
      BY <1>7, <2>3
    <3>2. i \in DOMAIN s.entries /\ s.entries[i].kind = "outstanding"
      BY <1>1, <3>1
    <3> QED
      BY <1>5, <3>2 DEF ToldBefore
  <2>4. CASE ResponseCalls(s, 0) = {}
    <3>1. EndCall(t) = 0
      BY <2>2, <2>4, NoEnd
    <3>2. 0 \notin DOMAIN t.pending
      <4>1. DOMAIN t.pending \subseteq 1 .. MaxCalls
        BY <1>4, SessionParts DEF Calls
      <4> QED
        BY <4>1, LimitsAssumption
    <3> QED
      BY <3>1, <3>2 DEF ToldBefore
  <2>5. CASE told # {} /\ EndCall(s) \in Finished(s)
    <3>1. purpose = "Conversation" /\ s.context = NoContext
      BY <2>5 DEF MayStart
    <3>2. EndCall(s) \in DirectOf(s, purpose) \cup NotifiedOf(s, purpose)
      BY <2>5, <3>1 DEF DirectOf, NotifiedOf, Deliverable, Finished
    <3>3. EndCall(s) \notin KeptBy(s, purpose)
      BY <3>1, <3>2 DEF KeptBy, First
    <3> QED
      BY <1>2, <2>2, <3>3 DEF ToldBefore
  <2> QED
    BY <2>3, <2>4, <2>5 DEF MayStart
<1> QED
  BY <1>8, <1>9, <1>10, <1>11, <1>13, <1>15, <1>16, <1>17, <1>18 DEF Transcript

LEMMA StartedFits ==
    ASSUME NEW s \in Sessions, NEW t, NEW a, NEW purpose, NEW placeholders, NEW told,
           Fits(s, a), Transcript(s, a), MayStart(s, purpose, placeholders, told),
           IsStarted(s, t, purpose, placeholders, told),
           s.context.attempts < ContextLimit
    PROVE  Fits(t, Len(t.entries))
<1>1. /\ Len(s.entries) \in Nat /\ Len(t.entries) \in Nat /\ Len(s.entries) <= Len(t.entries)
  <2>1. Adds(s, t, Saying(s, purpose, placeholders, told))
    BY StartedEntries
  <2> QED
    BY <2>1 DEF Adds
<1>2. /\ purpose \in Purposes /\ (purpose = "Conversation" => s.context = NoContext)
      /\ (s.context # NoContext => s.context.purpose = purpose)
  BY DEF MayStart
<1>3. /\ t.step.purpose = purpose /\ t.failures = s.failures
      /\ ~First(s, purpose) => t.context = s.context
      /\ First(s, purpose) =>
           /\ t.context.purpose = purpose /\ t.context.attempts = 0
           /\ t.context.source = Len(t.entries) /\ t.context.keep \in 0 .. Len(t.entries)
  BY DEF IsStarted
<1>4. /\ s.context.purpose = "none" => s.context = NoContext
      /\ s.context.keep <= s.context.source /\ s.context.source <= a
      /\ a \in 0 .. Len(s.entries)
  BY DEF Fits
<1>5. /\ s.context.source \in Nat /\ s.context.keep \in Nat /\ s.context.attempts \in Nat
      /\ ContextLimit \in Nat \ {0} /\ s.failures \in Nat
  BY LimitsAssumption DEF Sessions, ContextShapes
<1>6. purpose # "none" /\ t.step # NoStep
  BY <1>2, <1>3 DEF Purposes, NoStep
<1>7. t.context.attempts < ContextLimit
  BY <1>3, <1>5
<1>8. CASE First(s, purpose)
  <2>1. /\ purpose # "Conversation" /\ t.context.purpose = purpose
        /\ t.context.source = Len(t.entries) /\ t.context.keep <= Len(t.entries)
    BY <1>1, <1>3, <1>8 DEF First
  <2> QED
    BY <1>1, <1>3, <1>5, <1>6, <1>7, <2>1 DEF Fits
<1>9. CASE ~First(s, purpose)
  <2>1. t.context = s.context /\ (purpose # "Conversation" => s.context # NoContext)
    BY <1>3, <1>9 DEF First
  <2>2. s.context.source <= Len(t.entries)
    BY <1>1, <1>4, <1>5
  <2>3. Len(t.entries) \in 0 .. Len(t.entries) /\ ~(t.context.attempts = ContextLimit)
        /\ t.context.attempts <= ContextLimit
    BY <1>1, <1>5, <1>7, <2>1
  <2> QED
    BY <1>2, <1>3, <1>4, <1>6, <1>7, <2>1, <2>2, <2>3 DEF Fits
<1> QED
  BY <1>8, <1>9

LEMMA StartedTalks ==
    ASSUME NEW s \in Sessions, NEW t, NEW a, NEW purpose, NEW placeholders, NEW told,
           Fits(s, a), Transcript(s, a), TalkGoesOn(s), s.step = NoStep,
           MayStart(s, purpose, placeholders, told),
           IsStarted(s, t, purpose, placeholders, told)
    PROVE  TalkGoesOn(t)
<1> SUFFICES ASSUME Talking(t) PROVE SomethingToSay(t)
  BY DEF TalkGoesOn
<1>1. /\ Len(s.entries) \in Nat /\ DOMAIN s.entries = 1 .. Len(s.entries)
      /\ Len(t.entries) \in Nat /\ DOMAIN t.entries = 1 .. Len(t.entries)
      /\ Len(s.entries) <= Len(t.entries)
      /\ \A i \in DOMAIN s.entries : i \in DOMAIN t.entries /\ t.entries[i] = s.entries[i]
      /\ \A j \in DOMAIN t.entries : j > Len(s.entries) => t.entries[j].kind # "assistant"
  <2>1. Adds(s, t, Saying(s, purpose, placeholders, told))
    BY StartedEntries
  <2> QED
    BY <2>1 DEF Adds
<1>20. \A x \in Saying(s, purpose, placeholders, told) : x[2] # {} =>
         \E j \in DOMAIN t.entries :
           j > Len(s.entries) /\ t.entries[j].kind = x[1] /\ t.entries[j].of = x[2]
  <2>1. Adds(s, t, Saying(s, purpose, placeholders, told))
    BY StartedEntries
  <2> QED
    BY <2>1 DEF Adds
<1>2. /\ DOMAIN t.pending = KeptBy(s, purpose)
      /\ \A c \in DOMAIN t.pending : t.pending[c].result = s.pending[c].result
      /\ Unfinished(t) = Unfinished(s)
  BY StartedPending
<1>3. /\ t.mail = s.mail \ ConsumedBy(s, purpose)
      /\ t.noticed = (s.noticed /\ purpose # "Conversation") /\ t.step.purpose = purpose
      /\ ~First(s, purpose) => t.context = s.context
      /\ t.turn = s.turn /\ t.cancel = s.cancel /\ t \in Sessions
  BY DEF IsStarted
<1>4. purpose = "Compaction"
  <2>1. purpose \in Purposes /\ t.step # NoStep
    BY <1>3 DEF MayStart, Purposes, NoStep
  <2> QED
    BY <1>3, <2>1 DEF Talking
<1>5. t.mail = s.mail /\ t.noticed = s.noticed
  <2>1. s.noticed \in BOOLEAN
    BY DEF Sessions
  <2> QED
    BY <1>3, <1>4, <2>1 DEF ConsumedBy
<1>6. Len(t.entries) \in DOMAIN t.entries /\ t.entries[Len(t.entries)].kind = "assistant"
  BY DEF Talking, Response
<1>7. Len(t.entries) = Len(s.entries)
  BY <1>1, <1>6
<1>8. /\ s.entries # <<>> /\ Response(s, Len(s.entries))
      /\ t.entries[Len(t.entries)] = s.entries[Len(s.entries)]
  <2>1. Len(s.entries) \in DOMAIN s.entries
    BY <1>1, <1>6, <1>7
  <2>2. s.entries # <<>>
    BY <2>1
  <2> QED
    BY <1>1, <1>6, <1>7, <2>1, <2>2 DEF Response
<1>9. \A x \in Saying(s, purpose, placeholders, told) : x[2] = {}
  <2>1. \A j \in DOMAIN t.entries : ~ (j > Len(s.entries))
    BY <1>1, <1>7
  <2> QED
    BY <1>20, <2>1
<1>10. DirectOf(s, purpose) = {} /\ NotifiedOf(s, purpose) = {}
       /\ WaitingOf(s, purpose, placeholders) = {}
  <2>1. /\ <<"direct", DirectOf(s, purpose)>>[2] = {}
        /\ <<"notified", NotifiedOf(s, purpose)>>[2] = {}
        /\ <<"pending", WaitingOf(s, purpose, placeholders)>>[2] = {}
    BY <1>9 DEF Saying
  <2> QED
    BY <2>1
<1>11. Fresh(s) = {}
  BY <1>10, DeliversFresh
<1>12. DOMAIN t.pending = DOMAIN s.pending
  BY <1>2, <1>10 DEF KeptBy
<1>13. Finished(t) = Finished(s)
  BY <1>2, <1>12 DEF Finished
<1>14. Reported(t) = Reported(s)
  <2>1. \A i \in DOMAIN t.entries : i \in DOMAIN s.entries /\ t.entries[i] = s.entries[i]
    BY <1>1, <1>7
  <2>2. \A c : c \in Reported(t) <=> c \in Reported(s)
    BY <1>1, <2>1 DEF Reported, ShownIn
  <2> QED
    BY <2>2
<1>15. s.context.purpose # "Handoff"
  <2>1. s.context # NoContext => s.context.purpose = purpose
    BY DEF MayStart
  <2> QED
    BY <1>4, <2>1 DEF NoContext
<1>16. SomethingToSay(s)
  BY <1>3, <1>8, <1>15 DEF TalkGoesOn, Talking
<1>17. s.context = NoContext => Finished(s) = {}
  <2> SUFFICES ASSUME s.context = NoContext PROVE Finished(s) = {}
    OBVIOUS
  <2>1. Deliverable(s, purpose) = DOMAIN s.pending
    BY DEF Deliverable
  <2>2. Finished(s) \subseteq DirectOf(s, purpose) \cup NotifiedOf(s, purpose)
    BY <2>1 DEF DirectOf, NotifiedOf, Finished
  <2> QED
    BY <1>10, <2>2
<1> QED
  BY <1>2, <1>5, <1>8, <1>11, <1>13, <1>14, <1>16, <1>17 DEF SomethingToSay

-----------------------------------------------------------------------------
(* A response. *)

LEMMA Requested ==
    ASSUME NEW s \in Sessions, NEW a, Fits(s, a), Transcript(s, a), s.step # NoStep
    PROVE  Fresh(s) = {} /\ s.step.purpose \in Purposes
<1>1. Fresh(s) = {}
  BY DEF Transcript, FreshIsLast
<1>2. s.step \in StepShapes
  BY DEF Sessions
<1> QED
  BY <1>1, <1>2 DEF Fits, StepShapes

(* The calls a response makes. *)
LEMMA NewCalls ==
    ASSUME NEW s \in Sessions, NEW made \in Seq(CallShapes), Len(s.calls) + Len(made) <= MaxCalls,
           DOMAIN s.pending \subseteq DOMAIN s.calls
    PROVE  LET t == StepCompleted(s, made)
               ids == Len(s.calls) + 1 .. Len(s.calls) + Len(made) IN
           /\ Len(t.calls) = Len(s.calls) + Len(made) /\ Len(t.calls) <= MaxCalls
           /\ Len(s.calls) \in Nat /\ Len(made) \in Nat
           /\ DOMAIN s.calls = 1 .. Len(s.calls)
           /\ DOMAIN t.calls = 1 .. Len(s.calls) + Len(made)
           /\ ids \subseteq DOMAIN t.calls /\ ids \cap DOMAIN s.calls = {}
           /\ DOMAIN s.calls \subseteq DOMAIN t.calls
           /\ DOMAIN t.calls = DOMAIN s.calls \cup ids
           /\ \A c \in DOMAIN s.calls : t.calls[c] = s.calls[c]
           /\ \A k \in 1 .. Len(made) : t.calls[Len(s.calls) + k] = made[k]
           /\ (made = <<>>) <=> (ids = {})
           /\ DOMAIN t.pending = DOMAIN s.pending \cup ids
           /\ \A c \in DOMAIN s.pending : c \notin ids /\ t.pending[c] = s.pending[c]
           /\ Unfinished(t) = Unfinished(s) \cup ids /\ Fresh(t) = Fresh(s) \cup ids
           /\ Finished(t) = Finished(s)
<1> DEFINE t == StepCompleted(s, made)
           ids == Len(s.calls) + 1 .. Len(s.calls) + Len(made)
<1>1. /\ t.calls = s.calls \o made /\ t.pending = WithNew(s.pending, ids) /\ ids \subseteq Calls
  BY CompleteFields
<1>2. /\ Len(s.calls) \in Nat /\ Len(made) \in Nat /\ DOMAIN s.calls = 1 .. Len(s.calls)
      /\ s.calls \in Seq(CallShapes) /\ s.pending \in Pendings
  BY SessionParts, LenProperties
<1>3. /\ s.calls \o made \in Seq(CallShapes) /\ Len(s.calls \o made) = Len(s.calls) + Len(made)
      /\ \A i \in 1 .. Len(s.calls) + Len(made) :
            (s.calls \o made)[i] = IF i <= Len(s.calls) THEN s.calls[i]
                                   ELSE made[i - Len(s.calls)]
  BY <1>2, ConcatProperties
<1>4. DOMAIN (s.calls \o made) = 1 .. Len(s.calls) + Len(made)
  BY <1>3, LenProperties
<1> HIDE DEF t
<1>5. /\ ids \subseteq DOMAIN t.calls /\ ids \cap DOMAIN s.calls = {}
      /\ DOMAIN s.calls \subseteq DOMAIN t.calls
      /\ DOMAIN t.calls = DOMAIN s.calls \cup ids
      /\ DOMAIN t.calls = 1 .. Len(s.calls) + Len(made)
  BY <1>1, <1>2, <1>4
<1>6. \A c \in DOMAIN s.calls : t.calls[c] = s.calls[c]
  BY <1>1, <1>2, <1>3
<1>7. \A k \in 1 .. Len(made) : t.calls[Len(s.calls) + k] = made[k]
  <2> TAKE k \in 1 .. Len(made)
  <2>1. /\ Len(s.calls) + k \in 1 .. Len(s.calls) + Len(made) /\ ~(Len(s.calls) + k <= Len(s.calls))
        /\ (Len(s.calls) + k) - Len(s.calls) = k
    BY <1>2
  <2> QED
    BY <1>1, <1>3, <2>1
<1>8. (made = <<>>) <=> (ids = {})
  <2>1. made = <<>> <=> Len(made) = 0
    BY EmptySeq
  <2>2. Len(made) = 0 => ids = {}
    BY <1>2
  <2>3. Len(made) # 0 => Len(s.calls) + 1 \in ids
    BY <1>2
  <2> HIDE DEF ids
  <2> QED
    BY <2>1, <2>2, <2>3
<1>9. Len(t.calls) = Len(s.calls) + Len(made)
  BY <1>1, <1>3
<1> HIDE DEF ids
<1>10. /\ DOMAIN t.pending = DOMAIN s.pending \cup ids
       /\ \A c \in ids : t.pending[c].delivery = "fresh" /\ t.pending[c].result = "none"
       /\ \A c \in DOMAIN s.pending : c \notin ids /\ t.pending[c] = s.pending[c]
  <2>1. /\ DOMAIN t.pending = DOMAIN s.pending \cup ids
        /\ \A c \in ids : t.pending[c].delivery = "fresh" /\ t.pending[c].result = "none"
        /\ \A c \in DOMAIN s.pending \ ids : t.pending[c] = s.pending[c]
    <3> DEFINE W == WithNew(s.pending, ids)
    <3>1. ids \in SUBSET Calls
      BY <1>1
    <3>2. /\ DOMAIN W = DOMAIN s.pending \cup ids
          /\ \A c \in ids : W[c].delivery = "fresh" /\ W[c].result = "none"
          /\ \A c \in DOMAIN s.pending \ ids : W[c] = s.pending[c]
      BY <1>2, <3>1, NewShape
    <3>3. t.pending = W
      BY <1>1
    <3> HIDE DEF W
    <3> QED
      BY <3>2, <3>3
  <2>2. \A c \in DOMAIN s.pending : c \notin ids
    BY <1>5
  <2> QED
    BY <2>1, <2>2
<1>11. Unfinished(t) = Unfinished(s) \cup ids /\ Fresh(t) = Fresh(s) \cup ids
       /\ Finished(t) = Finished(s)
  <2>1. \A c : (c \in Unfinished(t) <=> c \in Unfinished(s) \cup ids)
               /\ (c \in Fresh(t) <=> c \in Fresh(s) \cup ids)
    BY <1>10 DEF Unfinished, Fresh
  <2>2. Unfinished(t) = Unfinished(s) \cup ids
    BY <2>1
  <2>3. Finished(t) = Finished(s)
    BY <1>10, <2>2 DEF Finished, Unfinished
  <2> QED
    BY <2>1, <2>2, <2>3
<1>12. Len(t.calls) <= MaxCalls
  BY <1>9
<1> QED
  BY <1>2, <1>5, <1>6, <1>7, <1>8, <1>9, <1>10, <1>11, <1>12 DEF t, ids

LEMMA CompletedFits ==
    ASSUME NEW s \in Sessions, NEW a, Fits(s, a), s.step.purpose \in Purposes,
           NEW made \in Seq(CallShapes), Len(s.calls) + Len(made) <= MaxCalls
    PROVE  Fits(StepCompleted(s, made), a)
<1> DEFINE t == StepCompleted(s, made)
           entry == [kind |-> "assistant",
                     of |-> Len(s.calls) + 1 .. Len(s.calls) + Len(made), closed |-> {}]
<1>1. /\ t \in Sessions /\ t.step = NoStep /\ t.failures = 0
      /\ s.step.purpose = "Compaction" => t.entries = s.entries
      /\ s.step.purpose # "Compaction" => t.entries = Append(s.entries, entry)
      /\ s.step.purpose = "Conversation" => t.context = s.context
      /\ t.context.purpose = s.context.purpose /\ t.context.source = s.context.source
      /\ t.context.keep = s.context.keep
      /\ t.context.attempts = IF s.step.purpose = "Conversation" THEN s.context.attempts
                              ELSE s.context.attempts + 1
      /\ Len(s.calls) + 1 .. Len(s.calls) + Len(made) \subseteq Calls
  BY CompleteFields
<1> HIDE DEF t
<1> SUFFICES Fits(t, a)
  BY DEF t
<1>2. /\ s.context.source \in Nat /\ s.context.keep \in Nat /\ s.context.attempts \in Nat
      /\ ContextLimit \in Nat \ {0} /\ Len(s.entries) \in Nat /\ s.entries \in Seq(EntryShapes)
  BY LimitsAssumption, SessionParts DEF Sessions, ContextShapes
<1>3. entry \in EntryShapes
  BY <1>1 DEF EntryShapes, EntryKinds
<1> HIDE DEF entry
<1>4. Len(t.entries) \in Nat /\ Len(s.entries) <= Len(t.entries)
  BY <1>1, <1>2, <1>3, AppendProperties
<1>5. /\ s.context.purpose = "none" => s.context = NoContext
      /\ s.step.purpose = "Conversation" => s.context = NoContext
      /\ s.step.purpose \in {"Compaction", "Handoff"} =>
           s.context.purpose = s.step.purpose /\ s.context.attempts < ContextLimit
      /\ s.context.keep <= s.context.source /\ s.context.source <= a
      /\ a \in 0 .. Len(s.entries)
  BY DEF Fits
<1>6. /\ a \in 0 .. Len(t.entries) /\ t.step.purpose = "none" /\ ~ (t.failures > 0)
      /\ t.context.keep <= t.context.source /\ t.context.source <= a
  BY <1>1, <1>2, <1>4, <1>5 DEF NoStep
<1>7. CASE s.step.purpose = "Conversation"
  <2>1. t.context = NoContext /\ t.context.attempts = 0
    BY <1>1, <1>5, <1>7 DEF NoContext
  <2>2. t.context.attempts <= ContextLimit
    BY <1>2, <2>1
  <2> QED
    BY <1>1, <1>6, <2>1, <2>2 DEF Fits
<1>8. CASE s.step.purpose # "Conversation"
  <2>1. s.step.purpose \in {"Compaction", "Handoff"}
    BY <1>8 DEF Purposes
  <2>2. /\ t.context.attempts <= ContextLimit /\ t.context.purpose # "none"
    BY <1>1, <1>2, <1>5, <1>8, <2>1
  <2> QED
    BY <1>1, <1>6, <2>2 DEF Fits
<1> QED
  BY <1>7, <1>8

LEMMA CompletedTalks ==
    ASSUME NEW s \in Sessions, NEW a, Fits(s, a), Transcript(s, a), s.step # NoStep, TalkGoesOn(s),
           NEW made \in Seq(CallShapes), Len(s.calls) + Len(made) <= MaxCalls,
           s.step.purpose = "Compaction" => made = <<>>,
           s.step.purpose = "Conversation" => made # <<>> \/ Outstanding(s) # {}
    PROVE  TalkGoesOn(StepCompleted(s, made))
<1> DEFINE t == StepCompleted(s, made)
           ids == Len(s.calls) + 1 .. Len(s.calls) + Len(made)
           entry == [kind |-> "assistant", of |-> ids, closed |-> {}]
<1>1. /\ t \in Sessions /\ t.step = NoStep
      /\ s.step.purpose = "Compaction" => t.entries = s.entries
      /\ s.step.purpose # "Compaction" => t.entries = Append(s.entries, entry)
      /\ t.context.purpose = s.context.purpose
      /\ t.mail = s.mail /\ t.turn = s.turn /\ t.cancel = s.cancel /\ t.noticed = s.noticed
      /\ ids \subseteq Calls
  BY CompleteFields
<1>2. DOMAIN s.pending \subseteq DOMAIN s.calls
  BY DEF Transcript, CallsKnown
<1>3. /\ (made = <<>>) <=> (ids = {})
      /\ Unfinished(t) = Unfinished(s) \cup ids /\ Fresh(t) = Fresh(s) \cup ids
      /\ Finished(t) = Finished(s)
  BY <1>2, NewCalls
<1>4. s.step.purpose \in Purposes /\ Fresh(s) = {}
  BY Requested
<1>5. entry \in EntryShapes /\ entry.of = ids
  BY <1>1 DEF EntryShapes, EntryKinds
<1> HIDE DEF t, ids, entry
<1> SUFFICES ASSUME Talking(t) PROVE SomethingToSay(t)
  BY DEF TalkGoesOn, t
<1>6. CASE s.step.purpose = "Compaction"
  <2>1. s.context.purpose = "Compaction" /\ s.context # NoContext
    BY <1>6 DEF Fits, NoContext
  <2>2. Talking(s)
    BY <1>1, <1>6, <2>1 DEF Talking, Response
  <2>3. SomethingToSay(s)
    BY <2>2 DEF TalkGoesOn
  <2>4. Reported(t) = Reported(s)
    BY <1>1, <1>6 DEF Reported
  <2> QED
    BY <1>1, <1>3, <1>6, <2>1, <2>3, <2>4 DEF SomethingToSay
<1>7. CASE s.step.purpose = "Conversation"
  <2>1. CASE made # <<>>
    BY <1>3, <2>1 DEF SomethingToSay
  <2>2. CASE made = <<>>
    <3>1. t.entries[Len(t.entries)] = entry
      <4>1. s.entries \in Seq(EntryShapes) /\ Len(s.entries) \in Nat
        BY SessionParts
      <4>2. Len(t.entries) = Len(s.entries) + 1 /\ t.entries[Len(s.entries) + 1] = entry
        BY <1>1, <1>5, <1>7, <4>1, AppendProperties
      <4> QED
        BY <4>2
    <3>2. t.mail # {} \/ Unfinished(t) # {}
      BY <1>1, <1>3, <1>7, <2>2 DEF Outstanding
    <3> QED
      BY <1>3, <1>5, <2>2, <3>1, <3>2 DEF SomethingToSay
  <2> QED
    BY <2>1, <2>2
<1>8. CASE s.step.purpose = "Handoff"
  <2>1. s.context.purpose = "Handoff"
    BY <1>8 DEF Fits
  <2> QED
    BY <1>1, <2>1 DEF Talking
<1> QED
  BY <1>4, <1>6, <1>7, <1>8 DEF Purposes

LEMMA CompletedTranscript ==
    ASSUME NEW s \in Sessions, NEW a, Fits(s, a), Transcript(s, a), s.step # NoStep,
           NEW made \in Seq(CallShapes), Len(s.calls) + Len(made) <= MaxCalls,
           s.step.purpose = "Compaction" => made = <<>>
    PROVE  Transcript(StepCompleted(s, made), a)
<1> DEFINE t == StepCompleted(s, made)
           ids == Len(s.calls) + 1 .. Len(s.calls) + Len(made)
           entry == [kind |-> "assistant", of |-> ids, closed |-> {}]
           n == Len(s.entries)
<1>1. /\ t \in Sessions /\ t.step = NoStep
      /\ s.step.purpose = "Compaction" => t.entries = s.entries
      /\ s.step.purpose # "Compaction" => t.entries = Append(s.entries, entry)
      /\ t.context.purpose = s.context.purpose /\ t.context.source = s.context.source
      /\ t.context.keep = s.context.keep
      /\ t.batch \in {ids, {}} /\ t.waitFor = s.waitFor /\ ids \subseteq Calls
  BY CompleteFields
<1>2. /\ CallsKnown(s) /\ EntriesSay(s) /\ CallsApart(s) /\ FreshIsLast(s, a)
      /\ ClosedFits(s) /\ AnswersFit(s) /\ NothingAnsweredUnasked(s)
      /\ KeepsWhole(s) /\ ToldBefore(s)
  BY DEF Transcript
<1>3. DOMAIN s.pending \subseteq DOMAIN s.calls
  BY <1>2 DEF CallsKnown
<1>4. /\ Len(t.calls) = Len(s.calls) + Len(made) /\ Len(t.calls) <= MaxCalls
      /\ Len(s.calls) \in Nat /\ Len(made) \in Nat
      /\ DOMAIN s.calls = 1 .. Len(s.calls)
      /\ ids \subseteq DOMAIN t.calls /\ ids \cap DOMAIN s.calls = {}
      /\ DOMAIN s.calls \subseteq DOMAIN t.calls
      /\ DOMAIN t.calls = DOMAIN s.calls \cup ids
      /\ \A c \in DOMAIN s.calls : t.calls[c] = s.calls[c]
      /\ (made = <<>>) <=> (ids = {})
      /\ DOMAIN t.pending = DOMAIN s.pending \cup ids
      /\ \A c \in DOMAIN s.pending : c \notin ids /\ t.pending[c] = s.pending[c]
      /\ Unfinished(t) = Unfinished(s) \cup ids /\ Fresh(t) = Fresh(s) \cup ids
  BY <1>3, NewCalls
<1>5. s.step.purpose \in Purposes /\ Fresh(s) = {}
  BY Requested
<1>6. /\ n \in Nat /\ DOMAIN s.entries = 1 .. n /\ s.entries \in Seq(EntryShapes)
      /\ Len(t.entries) \in Nat /\ DOMAIN t.entries = 1 .. Len(t.entries)
      /\ a \in 0 .. n
  BY <1>1, SessionParts DEF Fits
<1>7. entry \in EntryShapes /\ entry.of = ids /\ entry.kind = "assistant" /\ entry.closed = {}
  BY <1>1 DEF EntryShapes, EntryKinds
<1> HIDE DEF t, ids, entry, n
<1> SUFFICES Transcript(t, a)
  BY DEF t
<1>8. t.waitFor <= Len(s.calls) /\ t.waitFor <= Len(t.calls) /\ t.batch \subseteq DOMAIN t.calls
  <2>1. t.waitFor \in Nat
    BY <1>1 DEF Sessions
  <2>2. t.waitFor <= Len(s.calls)
    BY <1>1, <1>2 DEF CallsKnown
  <2> QED
    BY <1>1, <1>4, <2>1, <2>2
<1>9. CASE s.step.purpose = "Compaction"
  <2>1. ids = {} /\ t.entries = s.entries
    BY <1>1, <1>4, <1>9
  <2>2. t.calls = s.calls
    <3>1. t.calls \in Seq(CallShapes) /\ s.calls \in Seq(CallShapes)
      BY <1>1, SessionParts
    <3>2. Len(made) = 0
      BY <1>9, EmptySeq
    <3>3. Len(t.calls) = Len(s.calls) /\ \A i \in 1 .. Len(t.calls) : t.calls[i] = s.calls[i]
      BY <1>4, <3>2
    <3> QED
      BY <3>1, <3>3, SeqEqual
  <2>3. /\ DOMAIN t.pending = DOMAIN s.pending
        /\ \A c \in DOMAIN s.pending : t.pending[c].delivery = s.pending[c].delivery
        /\ Unfinished(t) \subseteq Unfinished(s)
    BY <1>4, <2>1
  <2>4. t.batch \subseteq DOMAIN s.calls
    BY <1>8, <2>2
  <2> QED
    BY <1>1, <1>8, <2>1, <2>2, <2>3, <2>4, Unmoved
<1>10. CASE s.step.purpose # "Compaction"
  <2>1. /\ Len(t.entries) = n + 1 /\ t.entries[n + 1] = entry
        /\ \A i \in 1 .. n : t.entries[i] = s.entries[i]
    <3> DEFINE A == Append(s.entries, entry)
    <3>1. /\ Len(A) = Len(s.entries) + 1 /\ A[Len(s.entries) + 1] = entry
          /\ \A i \in 1 .. Len(s.entries) : A[i] = s.entries[i]
      BY <1>6, <1>7, AppendProperties
    <3>2. t.entries = A
      BY <1>1, <1>10
    <3> HIDE DEF A
    <3> QED
      BY <3>1, <3>2 DEF n
  <2>2. /\ DOMAIN t.entries = 1 .. n + 1 /\ n + 1 \in DOMAIN t.entries
        /\ n + 1 \notin DOMAIN s.entries
        /\ \A i \in DOMAIN t.entries : i \in DOMAIN s.entries \/ i = n + 1
        /\ \A i \in DOMAIN s.entries : i \in DOMAIN t.entries /\ i < n + 1
    BY <1>6, <2>1
  <2>3. \A i \in DOMAIN s.entries : t.entries[i] = s.entries[i]
    BY <1>6, <2>1
  <2>4. /\ \A i \in DOMAIN s.entries : Response(t, i) <=> Response(s, i)
        /\ Response(t, n + 1)
    BY <1>7, <2>1, <2>2, <2>3 DEF Response
  <2>5. /\ \A j \in DOMAIN s.entries : \A c : Answer(t, j, c) <=> Answer(s, j, c)
        /\ \A c : ~ Answer(t, n + 1, c)
    BY <1>7, <2>1, <2>2, <2>3 DEF Answer
  <2>6. CallsKnown(t)
    <3>1. ASSUME NEW i \in DOMAIN t.entries, t.entries[i].kind \in CallKinds
          PROVE  t.entries[i].of \subseteq DOMAIN t.calls
      <4>1. CASE i \in DOMAIN s.entries
        <5>1. s.entries[i].of \subseteq DOMAIN s.calls
          BY <1>2, <2>3, <3>1, <4>1 DEF CallsKnown
        <5> QED
          BY <1>4, <2>3, <4>1, <5>1
      <4>2. CASE i = n + 1
        BY <1>4, <1>7, <2>1, <4>2
      <4> QED
        BY <2>2, <4>1, <4>2
    <3> QED
      BY <1>3, <1>4, <1>8, <3>1 DEF CallsKnown
  <2>7. Reported(t) \subseteq Reported(s) /\ Reported(s) \subseteq DOMAIN s.calls
    <3>1. ASSUME NEW c \in Reported(t) PROVE c \in Reported(s)
      <4>1. PICK i \in DOMAIN t.entries :
              t.entries[i].kind \in {"direct", "notified"} /\ c \in t.entries[i].of
        BY DEF Reported, ShownIn
      <4>2. i \in DOMAIN s.entries
        BY <1>7, <2>1, <2>2, <4>1
      <4> QED
        BY <2>3, <4>1, <4>2 DEF Reported, ShownIn
    <3>2. ASSUME NEW c \in Reported(s) PROVE c \in DOMAIN s.calls
      <4>1. PICK i \in DOMAIN s.entries :
              s.entries[i].kind \in {"direct", "notified"} /\ c \in s.entries[i].of
        BY DEF Reported, ShownIn
      <4>2. s.entries[i].kind \in CallKinds
        BY <4>1 DEF CallKinds
      <4> QED
        BY <1>2, <4>1, <4>2 DEF CallsKnown
    <3> QED
      BY <3>1, <3>2
  <2>8. EntriesSay(t)
    <3>1. \A i \in DOMAIN t.entries : t.entries[i].kind # "assistant" => t.entries[i].of # {}
      BY <1>2, <1>7, <2>1, <2>2, <2>3 DEF EntriesSay
    <3>2. Unfinished(s) \cap Reported(s) = {}
      BY <1>2 DEF EntriesSay
    <3>3. Unfinished(t) \cap Reported(t) = {}
      BY <1>4, <2>7, <3>2
    <3> QED
      BY <3>1, <3>3 DEF EntriesSay
  <2>9. \A i \in DOMAIN s.entries : Response(s, i) => s.entries[i].of \subseteq DOMAIN s.calls
    BY <1>2 DEF CallsKnown, Response, CallKinds
  <2>10. CallsApart(t)
    <3> SUFFICES ASSUME NEW i \in DOMAIN t.entries, NEW j \in DOMAIN t.entries,
                        Response(t, i), Response(t, j), i # j
                 PROVE  t.entries[i].of \cap t.entries[j].of = {}
      BY DEF CallsApart
    <3>1. CASE i \in DOMAIN s.entries /\ j \in DOMAIN s.entries
      BY <1>2, <2>3, <2>4, <3>1 DEF CallsApart
    <3>2. CASE i \in DOMAIN s.entries /\ j = n + 1
      <4>1. t.entries[i].of \subseteq DOMAIN s.calls
        BY <2>3, <2>4, <2>9, <3>2
      <4> QED
        BY <1>4, <1>7, <2>1, <3>2, <4>1
    <3>3. CASE j \in DOMAIN s.entries /\ i = n + 1
      <4>1. t.entries[j].of \subseteq DOMAIN s.calls
        BY <2>3, <2>4, <2>9, <3>3
      <4> QED
        BY <1>4, <1>7, <2>1, <3>3, <4>1
    <3> QED
      BY <2>2, <3>1, <3>2, <3>3
  <2>11. FreshIsLast(t, a)
    <3>1. t.entries # <<>>
      BY <2>2
    <3>2. Fresh(t) \subseteq t.entries[Len(t.entries)].of
      BY <1>4, <1>5, <1>7, <2>1
    <3>3. a < Len(t.entries) /\ Response(t, Len(t.entries))
      BY <1>6, <2>1, <2>4
    <3> QED
      BY <1>1, <3>1, <3>2, <3>3 DEF FreshIsLast
  <2>12. ClosedFits(t)
    <3> SUFFICES ASSUME NEW i \in DOMAIN t.entries, Response(t, i)
                 PROVE  /\ t.entries[i].closed \subseteq t.entries[i].of
                        /\ t.entries[i].closed \cap Fresh(t) = {}
      BY DEF ClosedFits
    <3>1. CASE i \in DOMAIN s.entries
      <4>1. /\ t.entries[i] = s.entries[i] /\ s.entries[i].closed \subseteq s.entries[i].of
            /\ s.entries[i].of \subseteq DOMAIN s.calls
        BY <1>2, <2>3, <2>4, <2>9, <3>1 DEF ClosedFits
      <4> QED
        BY <1>4, <1>5, <4>1
    <3>2. CASE i = n + 1
      BY <1>7, <2>1, <3>2
    <3> QED
      BY <2>2, <3>1, <3>2
  <2>13. ASSUME NEW j \in DOMAIN t.entries, NEW c \in ids
         PROVE  ~ Answer(t, j, c)
    <3>1. ASSUME j \in DOMAIN s.entries, Answer(s, j, c) PROVE FALSE
      <4>1. c \in DOMAIN s.calls
        BY <1>2, <3>1 DEF CallsKnown, CallKinds, Answer
      <4> QED
        BY <1>4, <4>1
    <3> QED
      BY <2>2, <2>5, <3>1
  <2>14. AnswersFit(t)
    <3> SUFFICES ASSUME NEW i \in DOMAIN t.entries, Response(t, i), NEW c \in t.entries[i].of
                 PROVE  IF c \in t.entries[i].closed \cup Fresh(t)
                        THEN \A j \in DOMAIN t.entries : ~ Answer(t, j, c)
                        ELSE Paired(t, i, c)
      BY DEF AnswersFit
    <3>1. CASE i = n + 1
      <4>1. c \in ids /\ c \in Fresh(t)
        BY <1>4, <1>7, <2>1, <3>1
      <4> QED
        BY <2>13, <4>1
    <3>2. CASE i \in DOMAIN s.entries
      <4>1. /\ t.entries[i] = s.entries[i] /\ Response(s, i) /\ c \in s.entries[i].of
            /\ c \in DOMAIN s.calls /\ c \notin Fresh(t)
        BY <1>4, <1>5, <2>3, <2>4, <2>9, <3>2
      <4>2. IF c \in s.entries[i].closed THEN \A j \in DOMAIN s.entries : ~ Answer(s, j, c)
            ELSE Paired(s, i, c)
        BY <1>2, <1>5, <3>2, <4>1 DEF AnswersFit
      <4>3. CASE c \in s.entries[i].closed
        BY <2>2, <2>5, <4>1, <4>2, <4>3
      <4>4. CASE c \notin s.entries[i].closed
        <5>1. PICK j \in DOMAIN s.entries :
                /\ Answer(s, j, c) /\ i < j
                /\ \A k \in DOMAIN s.entries : Answer(s, k, c) => k = j
                /\ \A k \in DOMAIN s.entries : Response(s, k) => ~(i < k /\ k < j)
          BY <4>2, <4>4 DEF Paired
        <5>2. j \in DOMAIN t.entries /\ Answer(t, j, c)
          BY <2>2, <2>5, <5>1
        <5>3. \A k \in DOMAIN t.entries : Answer(t, k, c) => k = j
          BY <2>2, <2>5, <5>1
        <5>4. \A k \in DOMAIN t.entries : Response(t, k) => ~(i < k /\ k < j)
          <6>1. ~ (n + 1 < j)
            BY <1>6, <5>1
          <6> QED
            BY <2>2, <2>4, <5>1, <6>1
        <5>5. Paired(t, i, c)
          BY <5>1, <5>2, <5>3, <5>4 DEF Paired
        <5> QED
          BY <4>1, <4>4, <5>5
      <4> QED
        BY <4>3, <4>4
    <3> QED
      BY <2>2, <3>1, <3>2
  <2>15. NothingAnsweredUnasked(t)
    <3> SUFFICES ASSUME NEW j \in DOMAIN t.entries, NEW c \in DOMAIN t.calls, Answer(t, j, c)
                 PROVE  \E i \in DOMAIN t.entries : Response(t, i) /\ c \in t.entries[i].of
      BY DEF NothingAnsweredUnasked
    <3>1. c \in DOMAIN s.calls /\ j \in DOMAIN s.entries /\ Answer(s, j, c)
      BY <1>4, <2>2, <2>5, <2>13
    <3>2. PICK i \in DOMAIN s.entries : Response(s, i) /\ c \in s.entries[i].of
      BY <1>2, <3>1 DEF NothingAnsweredUnasked
    <3> QED
      BY <2>2, <2>3, <2>4, <3>2
  <2>16. KeepsWhole(t)
    <3>1. s.context.purpose # "Compaction"
      BY <1>5, <1>10 DEF Fits, Purposes, NoContext
    <3> QED
      BY <1>1, <3>1 DEF KeepsWhole
  <2>17. ToldBefore(t)
    <3>1. LastResponse(t, 0) = n + 1
      <4>1. n + 1 \in 0 .. Len(t.entries) /\ n + 1 > 0 /\ \A k \in DOMAIN t.entries : k <= n + 1
        BY <1>6, <2>1, <2>2
      <4> QED
        BY <1>1, <2>4, <4>1, LastResponseOf
    <3>2. \A k \in DOMAIN t.entries : k <= n + 1
      BY <1>6, <2>2
    <3> QED
      BY <3>1, <3>2 DEF ToldBefore
  <2> QED
    BY <2>6, <2>8, <2>10, <2>11, <2>12, <2>14, <2>15, <2>16, <2>17 DEF Transcript
<1> QED
  BY <1>9, <1>10

-----------------------------------------------------------------------------
(* A context transition. *)

(* The entries of t are n of s, from after from to to, and what is carried. *)
Window(s, t, from, to, n, at) ==
  /\ n \in Nat /\ Len(t.entries) \in Nat /\ DOMAIN t.entries = 1 .. Len(t.entries)
  /\ Len(t.entries) = IF Unfinished(s) = {} THEN n ELSE n + 1
  /\ \A k \in DOMAIN t.entries : k \in 1 .. n \/ (k = n + 1 /\ Unfinished(s) # {})
  /\ \A k \in 1 .. n : k \in DOMAIN t.entries
  /\ Unfinished(s) # {} =>
       n + 1 \in DOMAIN t.entries /\ t.entries[n + 1].kind = "carried"
         /\ t.entries[n + 1].of = Unfinished(s)
  /\ \A k \in 1 .. n :
       /\ at[k] \in from + 1 .. to /\ at[k] \in DOMAIN s.entries
       /\ t.entries[k].kind = s.entries[at[k]].kind
       /\ t.entries[k].closed = s.entries[at[k]].closed
       /\ t.entries[k].kind # "inputs" => t.entries[k].of = s.entries[at[k]].of
       /\ t.entries[k].kind = "inputs" => t.entries[k].of \cap s.mail = {} /\ t.entries[k].of # {}
  /\ \A k, l \in 1 .. n : (k < l <=> at[k] < at[l]) /\ (at[k] = at[l] => k = l)
  /\ \A i \in from + 1 .. to :
       (s.entries[i].kind = "inputs" => ~ (s.entries[i].of \subseteq s.mail))
         => \E k \in 1 .. n : at[k] = i

LEMMA AppliedPending ==
    ASSUME NEW s \in Sessions, NEW t, NEW from, NEW to, NEW noticed,
           MayApply(s, from, to), IsApplied(s, t, from, to, noticed)
    PROVE  /\ DOMAIN t.pending = KeptOver(s, from, to)
           /\ DOMAIN t.pending \subseteq DOMAIN s.pending
           /\ \A c \in DOMAIN t.pending : t.pending[c].result = s.pending[c].result
           /\ Fresh(t) = {} /\ Unfinished(t) = Unfinished(s)
           /\ Finished(t) = Finished(s)
                              \ ShownIn(SubSeq(s.entries, from + 1, to), {"direct", "notified"})
<1> DEFINE kept == KeptOver(s, from, to)
           lost == ShownIn(SubSeq(s.entries, from + 1, to), {"direct", "notified"})
<1>1. t.pending = Told(s.pending, kept, kept)
  BY AppliedFields
<1>2. kept = Unfinished(s) \cup (Finished(s) \ lost)
  BY DEF KeptOver
<1>3. s.pending \in Pendings
  BY SessionParts
<1> HIDE DEF kept, lost
<1>4. kept \in SUBSET DOMAIN s.pending
  BY <1>2 DEF Finished, Unfinished
<1>5. /\ DOMAIN t.pending = kept
      /\ \A c \in kept : t.pending[c].result = s.pending[c].result
                         /\ t.pending[c].delivery = "sent"
  BY <1>1, <1>3, <1>4, ToldShape
<1>6. Fresh(t) = {}
  BY <1>5 DEF Fresh
<1>7. Unfinished(t) = Unfinished(s)
  <2>1. \A c : c \in Unfinished(t) <=> c \in Unfinished(s)
    BY <1>2, <1>4, <1>5 DEF Unfinished
  <2> QED
    BY <2>1
<1>8. Finished(t) = Finished(s) \ lost
  BY <1>2, <1>5, <1>7 DEF Finished, Unfinished
<1> QED
  BY <1>4, <1>5, <1>6, <1>7, <1>8 DEF kept, lost

LEMMA AppliedEntries ==
    ASSUME NEW s \in Sessions, NEW t, NEW from, NEW to, NEW noticed,
           MayApply(s, from, to), IsApplied(s, t, from, to, noticed)
    PROVE  \E n, at : Window(s, t, from, to, n, at)
<1> DEFINE R == Retained(SubSeq(s.entries, from + 1, to), s.mail)
           n == Len(R)
           carried == Unfinished(s)
           e == [kind |-> "carried", of |-> carried, closed |-> {}]
<1>1. from \in Nat /\ to \in Nat /\ to <= Len(s.entries)
  BY DEF MayApply
<1>2. PICK at : Keeping(R, s.entries, from, to, s.mail, at)
  BY <1>1, RetainedShape
<1>3. t.entries = R \o Entry("carried", carried)
  BY AppliedFields
<1>4. carried \in SUBSET (Input \cup Calls) /\ "carried" \in EntryKinds
  BY SessionParts DEF Unfinished, EntryKinds
<1>5. Len(s.entries) \in Nat /\ DOMAIN s.entries = 1 .. Len(s.entries)
  BY SessionParts
<1>6. \A i \in from + 1 .. to : i \in DOMAIN s.entries /\ i \in Nat
  BY <1>1, <1>5
<1> HIDE DEF R, carried
<1>7. /\ R \in Seq(EntryShapes) /\ at \in [1 .. n -> from + 1 .. to]
      /\ \A k \in 1 .. n :
           /\ R[k].kind = s.entries[at[k]].kind /\ R[k].closed = s.entries[at[k]].closed
           /\ R[k].kind # "inputs" => R[k].of = s.entries[at[k]].of
           /\ R[k].kind = "inputs" => R[k].of \cap s.mail = {} /\ R[k].of # {}
      /\ \A k, l \in 1 .. n : k < l => at[k] < at[l]
      /\ \A i \in from + 1 .. to :
           (s.entries[i].kind = "inputs" => ~ (s.entries[i].of \subseteq s.mail))
             => \E k \in 1 .. n : at[k] = i
  BY <1>2 DEF Keeping
<1>8. /\ n \in Nat /\ Len(t.entries) \in Nat
      /\ Len(t.entries) = IF carried = {} THEN n ELSE n + 1
      /\ DOMAIN t.entries = 1 .. Len(t.entries)
      /\ \A i \in 1 .. n : t.entries[i] = R[i]
      /\ carried # {} => t.entries[n + 1] = e
  BY <1>3, <1>4, <1>7, EntryAppended
<1> HIDE DEF n
<1>9. /\ \A k \in DOMAIN t.entries : k \in 1 .. n \/ (k = n + 1 /\ carried # {})
      /\ \A k \in 1 .. n : k \in DOMAIN t.entries
      /\ carried # {} => n + 1 \in DOMAIN t.entries
  BY <1>8
<1>10. \A k, l \in 1 .. n : (k < l <=> at[k] < at[l]) /\ (at[k] = at[l] => k = l)
  <2> SUFFICES ASSUME NEW k \in 1 .. n, NEW l \in 1 .. n
               PROVE  (k < l <=> at[k] < at[l]) /\ (at[k] = at[l] => k = l)
    OBVIOUS
  <2>1. at[k] \in Nat /\ at[l] \in Nat
    BY <1>6, <1>7
  <2>2. k < l \/ l < k \/ k = l
    BY <1>8
  <2>3. (k < l => at[k] < at[l]) /\ (l < k => at[l] < at[k])
    BY <1>7
  <2>4. k \in Nat /\ l \in Nat
    BY <1>8
  <2> QED
    BY <2>1, <2>2, <2>3, <2>4
<1>11. e.kind = "carried" /\ e.of = carried
  OBVIOUS
<1>12. \A k \in 1 .. n : at[k] \in from + 1 .. to /\ at[k] \in DOMAIN s.entries
  BY <1>6, <1>7
<1> HIDE DEF e
<1>13. \A k \in 1 .. n :
       /\ at[k] \in from + 1 .. to /\ at[k] \in DOMAIN s.entries
       /\ t.entries[k].kind = s.entries[at[k]].kind
       /\ t.entries[k].closed = s.entries[at[k]].closed
       /\ t.entries[k].kind # "inputs" => t.entries[k].of = s.entries[at[k]].of
       /\ t.entries[k].kind = "inputs" => t.entries[k].of \cap s.mail = {} /\ t.entries[k].of # {}
  BY <1>7, <1>8, <1>12
<1>14. Window(s, t, from, to, n, at)
  BY <1>7, <1>8, <1>9, <1>10, <1>11, <1>13 DEF Window, carried
<1> QED
  BY <1>14

LEMMA NoneOpen ==
    ASSUME NEW es, NEW n, OpenCalls(es, n) = {}, NEW x \in 1 .. n, es[x].kind = "assistant",
           NEW c \in es[x].of, c \notin es[x].closed
    PROVE  c \in ShownIn(SubSeq(es, 1, n), {"pending", "direct"})
<1> SUFFICES ASSUME c \notin ShownIn(SubSeq(es, 1, n), {"pending", "direct"}) PROVE FALSE
  OBVIOUS
<1>1. x \in {j \in 1 .. n : es[j].kind = "assistant"}
  OBVIOUS
<1>2. c \in es[x].of \ es[x].closed
  OBVIOUS
<1>3. c \in UNION {es[i].of \ es[i].closed : i \in {j \in 1 .. n : es[j].kind = "assistant"}}
  BY <1>1, <1>2
<1>4. c \in OpenCalls(es, n)
  BY <1>3 DEF OpenCalls
<1> QED
  BY <1>4

LEMMA AppliedFits ==
    ASSUME NEW s \in Sessions, NEW t, NEW from, NEW to, NEW noticed,
           MayApply(s, from, to), IsApplied(s, t, from, to, noticed)
    PROVE  Fits(t, 0)
<1>1. t \in Sessions /\ t.step = NoStep /\ t.failures = 0 /\ t.context = NoContext
  BY AppliedFields
<1>2. Len(t.entries) \in Nat /\ ContextLimit \in Nat \ {0}
  BY <1>1, SessionParts, LimitsAssumption
<1>3. 0 \in 0 .. Len(t.entries)
  BY <1>2
<1> QED
  BY <1>1, <1>2, <1>3 DEF Fits, NoContext, NoStep

LEMMA AppliedTranscript ==
    ASSUME NEW s \in Sessions, NEW t, NEW a, NEW from, NEW to, NEW noticed,
           Fits(s, a), Transcript(s, a),
           MayApply(s, from, to), IsApplied(s, t, from, to, noticed)
    PROVE  Transcript(t, 0)
<1> DEFINE rest == Unfinished(s)
<1>1. PICK n, at : Window(s, t, from, to, n, at)
  BY AppliedEntries
<1>2. /\ n \in Nat /\ Len(t.entries) \in Nat /\ DOMAIN t.entries = 1 .. Len(t.entries)
      /\ \A k \in DOMAIN t.entries : k \in 1 .. n \/ (k = n + 1 /\ rest # {})
      /\ \A k \in 1 .. n : k \in DOMAIN t.entries
      /\ rest # {} => t.entries[n + 1].kind = "carried" /\ t.entries[n + 1].of = rest
      /\ \A k \in 1 .. n :
           /\ at[k] \in from + 1 .. to /\ at[k] \in DOMAIN s.entries
           /\ t.entries[k].kind = s.entries[at[k]].kind
           /\ t.entries[k].closed = s.entries[at[k]].closed
           /\ t.entries[k].kind # "inputs" => t.entries[k].of = s.entries[at[k]].of
           /\ t.entries[k].kind = "inputs" => t.entries[k].of # {}
      /\ \A k, l \in 1 .. n : (k < l <=> at[k] < at[l]) /\ (at[k] = at[l] => k = l)
      /\ \A i \in from + 1 .. to : s.entries[i].kind # "inputs" => \E k \in 1 .. n : at[k] = i
  BY <1>1 DEF Window
<1>3. /\ DOMAIN t.pending = KeptOver(s, from, to) /\ DOMAIN t.pending \subseteq DOMAIN s.pending
      /\ Fresh(t) = {} /\ Unfinished(t) = rest
  BY AppliedPending
<1>4. /\ t \in Sessions /\ t.step = NoStep /\ t.batch = {} /\ t.context = NoContext
      /\ t.calls = s.calls /\ t.waitFor = s.waitFor
  BY AppliedFields
<1>5. /\ CallsKnown(s) /\ EntriesSay(s) /\ CallsApart(s) /\ FreshIsLast(s, a)
      /\ ClosedFits(s) /\ AnswersFit(s) /\ NothingAnsweredUnasked(s)
      /\ KeepsWhole(s) /\ ToldBefore(s)
  BY DEF Transcript
<1>6. rest \subseteq DOMAIN s.pending /\ rest \subseteq DOMAIN s.calls
  BY <1>5 DEF Unfinished, CallsKnown
<1>7. Len(s.entries) \in Nat /\ DOMAIN s.entries = 1 .. Len(s.entries)
  BY SessionParts
<1> HIDE DEF rest
<1>8. /\ \A k \in 1 .. n : Response(t, k) <=> Response(s, at[k])
      /\ \A k \in DOMAIN t.entries : Response(t, k) => k \in 1 .. n
  BY <1>2 DEF Response
<1>9. /\ \A k \in 1 .. n : \A c : Answer(t, k, c) <=> Answer(s, at[k], c)
      /\ \A k \in DOMAIN t.entries : \A c : Answer(t, k, c) => k \in 1 .. n
  BY <1>2 DEF Answer
<1>10. CallsKnown(t)
  <2>1. ASSUME NEW i \in DOMAIN t.entries, t.entries[i].kind \in CallKinds
        PROVE  t.entries[i].of \subseteq DOMAIN s.calls
    <3>1. CASE i \in 1 .. n
      <4>1. t.entries[i].kind # "inputs"
        BY <2>1 DEF CallKinds
      <4>2. at[i] \in DOMAIN s.entries /\ s.entries[at[i]].kind \in CallKinds
            /\ t.entries[i].of = s.entries[at[i]].of
        BY <1>2, <2>1, <3>1, <4>1
      <4> QED
        BY <1>5, <4>2 DEF CallsKnown
    <3>2. CASE i = n + 1 /\ rest # {}
      BY <1>2, <1>6, <3>2
    <3> QED
      BY <1>2, <3>1, <3>2
  <2> QED
    BY <1>3, <1>4, <1>5, <2>1 DEF CallsKnown
<1>11. EntriesSay(t)
  <2>1. ASSUME NEW i \in DOMAIN t.entries, t.entries[i].kind # "assistant"
        PROVE  t.entries[i].of # {}
    <3>1. CASE i \in 1 .. n
      <4>1. s.entries[at[i]].kind # "assistant" /\ at[i] \in DOMAIN s.entries
        BY <1>2, <2>1, <3>1
      <4>2. s.entries[at[i]].of # {}
        BY <1>5, <4>1 DEF EntriesSay
      <4> QED
        BY <1>2, <3>1, <4>2
    <3>2. CASE i = n + 1 /\ rest # {}
      BY <1>2, <3>2
    <3> QED
      BY <1>2, <3>1, <3>2
  <2>2. Reported(t) \subseteq Reported(s)
    <3> SUFFICES ASSUME NEW c \in Reported(t) PROVE c \in Reported(s)
      OBVIOUS
    <3>1. PICK i \in DOMAIN t.entries :
            t.entries[i].kind \in {"direct", "notified"} /\ c \in t.entries[i].of
      BY DEF Reported, ShownIn
    <3>2. i \in 1 .. n
      BY <1>2, <3>1
    <3>3. /\ at[i] \in DOMAIN s.entries /\ s.entries[at[i]].kind \in {"direct", "notified"}
          /\ c \in s.entries[at[i]].of
      BY <1>2, <3>1, <3>2
    <3> QED
      BY <3>3 DEF Reported, ShownIn
  <2>3. rest \cap Reported(s) = {}
    BY <1>5 DEF EntriesSay, rest
  <2> QED
    BY <1>3, <2>1, <2>2, <2>3 DEF EntriesSay
<1>12. ASSUME NEW k \in 1 .. n, Response(t, k)
       PROVE  /\ Response(s, at[k]) /\ at[k] \in DOMAIN s.entries
              /\ t.entries[k].of = s.entries[at[k]].of
              /\ t.entries[k].closed = s.entries[at[k]].closed
  <2>1. t.entries[k].kind # "inputs"
    BY <1>12 DEF Response
  <2> QED
    BY <1>2, <1>8, <1>12, <2>1
<1>13. CallsApart(t)
  <2> SUFFICES ASSUME NEW i \in 1 .. n, NEW j \in 1 .. n, Response(t, i), Response(t, j), i # j
               PROVE  t.entries[i].of \cap t.entries[j].of = {}
    BY <1>8 DEF CallsApart
  <2>1. at[i] # at[j]
    BY <1>2
  <2> QED
    BY <1>5, <1>12, <2>1 DEF CallsApart
<1>14. FreshIsLast(t, 0)
  BY <1>3 DEF FreshIsLast
<1>15. ClosedFits(t)
  <2> SUFFICES ASSUME NEW i \in 1 .. n, Response(t, i)
               PROVE  t.entries[i].closed \subseteq t.entries[i].of
    BY <1>3, <1>8 DEF ClosedFits
  <2> QED
    BY <1>5, <1>12 DEF ClosedFits
<1>16. KeepsWhole(t) 
  BY <1>4 DEF KeepsWhole, NoContext
<1>17. CASE from = 0 /\ to = 0
  <2>1. n = 0
    <3>1. \A k \in 1 .. n : at[k] \in from + 1 .. to
      BY <1>2
    <3>2. \A k \in 1 .. n : FALSE
      BY <1>17, <3>1
    <3>3. n \in Nat
      BY <1>2
    <3> QED
      BY <3>2, <3>3
  <2>2. \A k \in 1 .. n : FALSE
    BY <2>1
  <2>3. AnswersFit(t) /\ NothingAnsweredUnasked(t)
    BY <1>8, <1>9, <2>2 DEF AnswersFit, NothingAnsweredUnasked
  <2>4. \A i \in DOMAIN t.entries : t.entries[i].kind # "outstanding"
    BY <1>2, <2>2
  <2>5. ToldBefore(t)
    BY <2>4 DEF ToldBefore
  <2> QED
    BY <1>10, <1>11, <1>13, <1>14, <1>15, <1>16, <2>3, <2>5 DEF Transcript
<1>18. CASE /\ s.step.purpose = "Compaction"
            /\ from = s.context.keep /\ to = s.context.source
  <2>1. s.step # NoStep /\ s.context.purpose = "Compaction"
    BY <1>18 DEF NoStep, Fits
  <2>2. Fresh(s) = {}
    BY <1>5, <2>1 DEF FreshIsLast
  <2>3. /\ to = Len(s.entries)
        /\ from = Len(s.entries) \/ OpenCalls(s.entries, from) = {}
    BY <1>5, <1>18, <2>1 DEF KeepsWhole
  <2>4. from \in Nat
    BY DEF MayApply
  <2>5. ASSUME NEW i \in DOMAIN s.entries, i > from, s.entries[i].kind # "inputs"
        PROVE  \E k \in 1 .. n : at[k] = i
    <3>1. i \in from + 1 .. to
      BY <1>7, <2>3, <2>4, <2>5
    <3> QED
      BY <1>2, <2>5, <3>1
  <2>6. \A k \in 1 .. n : at[k] > from /\ at[k] \in Nat /\ k \in Nat
    BY <1>2, <1>7, <2>4
  <2>7. AnswersFit(t)
    <3> SUFFICES ASSUME NEW i \in 1 .. n, Response(t, i), NEW c \in t.entries[i].of
                 PROVE  IF c \in t.entries[i].closed
                        THEN \A j \in DOMAIN t.entries : ~ Answer(t, j, c)
                        ELSE Paired(t, i, c)
      BY <1>3, <1>8 DEF AnswersFit
    <3>1. /\ Response(s, at[i]) /\ at[i] \in DOMAIN s.entries /\ c \in s.entries[at[i]].of
          /\ t.entries[i].closed = s.entries[at[i]].closed
      BY <1>12
    <3>2. IF c \in s.entries[at[i]].closed THEN \A j \in DOMAIN s.entries : ~ Answer(s, j, c)
          ELSE Paired(s, at[i], c)
      BY <1>5, <2>2, <3>1 DEF AnswersFit
    <3>3. ASSUME c \in s.entries[at[i]].closed, NEW j \in DOMAIN t.entries, Answer(t, j, c)
          PROVE  FALSE
      <4>1. j \in 1 .. n /\ at[j] \in DOMAIN s.entries /\ Answer(s, at[j], c)
        BY <1>2, <1>9, <3>3
      <4> QED
        BY <3>2, <3>3, <4>1
    <3>4. ASSUME c \notin s.entries[at[i]].closed
          PROVE  Paired(t, i, c)
      <4>1. PICK j \in DOMAIN s.entries :
              /\ Answer(s, j, c) /\ at[i] < j
              /\ \A k \in DOMAIN s.entries : Answer(s, k, c) => k = j
              /\ \A k \in DOMAIN s.entries : Response(s, k) => ~(at[i] < k /\ k < j)
        BY <3>2, <3>4 DEF Paired
      <4>2. j > from /\ s.entries[j].kind # "inputs"
        <5>1. j \in Nat
          BY <1>7
        <5> QED
          BY <2>4, <2>6, <4>1, <5>1 DEF Answer
      <4>3. PICK l \in 1 .. n : at[l] = j
        BY <2>5, <4>2
      <4>4. l \in DOMAIN t.entries /\ Answer(t, l, c) /\ i < l
        BY <1>2, <1>9, <4>1, <4>3
      <4>5. \A k \in DOMAIN t.entries : Answer(t, k, c) => k = l
        <5> TAKE k \in DOMAIN t.entries
        <5> HAVE Answer(t, k, c)
        <5>1. k \in 1 .. n /\ at[k] \in DOMAIN s.entries /\ Answer(s, at[k], c)
          BY <1>2, <1>9
        <5>2. at[k] = at[l]
          BY <4>1, <4>3, <5>1
        <5> QED
          BY <1>2, <5>1, <5>2
      <4>6. \A k \in DOMAIN t.entries : Response(t, k) => ~(i < k /\ k < l)
        <5> TAKE k \in DOMAIN t.entries
        <5> HAVE Response(t, k)
        <5>1. k \in 1 .. n /\ at[k] \in DOMAIN s.entries /\ Response(s, at[k])
          BY <1>8, <1>12
        <5>2. ~(at[i] < at[k] /\ at[k] < at[l])
          BY <4>1, <4>3, <5>1
        <5> QED
          BY <1>2, <5>1, <5>2
      <4> QED
        BY <4>4, <4>5, <4>6 DEF Paired
    <3> QED
      BY <3>1, <3>3, <3>4
  <2>8. NothingAnsweredUnasked(t)
    <3> SUFFICES ASSUME NEW j \in 1 .. n, NEW c \in DOMAIN s.calls, Answer(t, j, c)
                 PROVE  \E i \in DOMAIN t.entries : Response(t, i) /\ c \in t.entries[i].of
      BY <1>4, <1>9 DEF NothingAnsweredUnasked
    <3>1. at[j] \in DOMAIN s.entries /\ Answer(s, at[j], c)
      BY <1>2, <1>9
    <3>2. PICK i \in DOMAIN s.entries : Response(s, i) /\ c \in s.entries[i].of
      BY <1>5, <3>1 DEF NothingAnsweredUnasked
    <3>3. i > from
      <4> SUFFICES ASSUME i <= from PROVE FALSE
        BY <1>7, <2>4
      <4>1. from # Len(s.entries)
        <5>1. at[j] > from /\ at[j] <= Len(s.entries)
          BY <1>7, <2>6, <3>1
        <5> QED
          BY <5>1, <1>7, <2>4, <2>6
      <4>2. OpenCalls(s.entries, from) = {}
        BY <2>3, <4>1
      <4>3. c \notin s.entries[i].closed
        BY <1>5, <3>1, <3>2 DEF AnswersFit
      <4>4. i \in 1 .. from /\ s.entries[i].kind = "assistant"
        BY <1>7, <2>4, <3>2 DEF Response
      <4>5. c \in ShownIn(SubSeq(s.entries, 1, from), {"pending", "direct"})
        BY <3>2, <4>2, <4>3, <4>4, NoneOpen
      <4>6. from <= Len(s.entries)
        BY <2>3 DEF MayApply, Fits
      <4>7. PICK k \in 1 .. from :
              s.entries[k].kind \in {"pending", "direct"} /\ c \in s.entries[k].of
        <5>1. 0 + 1 = 1 /\ 0 \in Nat
          OBVIOUS
        <5>2. \A x : x \in ShownIn(SubSeq(s.entries, 0 + 1, from), {"pending", "direct"}) <=>
                \E m \in 0 + 1 .. from : s.entries[m].kind \in {"pending", "direct"}
                                         /\ x \in s.entries[m].of
          <6>1. ShowsBetween(s, 0, from, {"pending", "direct"})
            BY <2>4, <4>6, <5>1, WindowShown
          <6> QED
            BY <6>1 DEF ShowsBetween
        <5> QED
          BY <4>5, <5>1, <5>2
      <4>8. k \in DOMAIN s.entries /\ Answer(s, k, c)
        BY <1>7, <2>4, <4>6, <4>7 DEF Answer
      <4>9. Paired(s, i, c)
        BY <1>5, <2>2, <3>2, <4>3 DEF AnswersFit
      <4>10. at[j] = k
        BY <3>1, <4>8, <4>9 DEF Paired
      <4> QED
        BY <2>4, <2>6, <4>7, <4>10
    <3>4. PICK m \in 1 .. n : at[m] = i
      BY <2>5, <3>2, <3>3 DEF Response
    <3>5. Response(t, m) /\ m \in DOMAIN t.entries
      BY <1>2, <1>8, <3>2, <3>4
    <3> QED
      BY <1>12, <3>2, <3>4, <3>5
  <2>9. ToldBefore(t)
    <3> DEFINE l == LastResponse(s, 0)
    <3>1. /\ l \in 0 .. Len(s.entries)
          /\ l # 0 => l > 0 /\ Response(s, l)
          /\ \A k \in DOMAIN s.entries : Response(s, k) /\ k > 0 => k <= l
      BY LastResponseIs
    <3> HIDE DEF l
    <3>2. CASE \A k \in DOMAIN t.entries : ~ Response(t, k)
      <4>1. LastResponse(t, 0) = 0
        <5>1. 0 \in 0 .. Len(t.entries)
          BY <1>2
        <5> QED
          BY <1>4, <3>2, <5>1, LastResponseOf
      <4>2. ResponseCalls(t, 0) = {}
        BY <4>1 DEF ResponseCalls
      <4>3. EndCall(t) = 0
        BY <4>2, NoEnd
      <4>4. 0 \notin DOMAIN t.pending
        <5>1. DOMAIN t.pending \subseteq 1 .. MaxCalls
          BY <1>4, SessionParts DEF Calls
        <5> QED
          BY <5>1, LimitsAssumption
      <4> QED
        BY <4>3, <4>4 DEF ToldBefore
    <3>3. CASE \E k \in DOMAIN t.entries : Response(t, k)
      <4>1. PICK k \in 1 .. n : Response(t, k)
        BY <1>8, <3>3
      <4>2. at[k] <= l /\ at[k] > from /\ l \in Nat
        BY <1>7, <1>12, <2>4, <2>6, <3>1, <4>1
      <4>3. l # 0 /\ l > from
        BY <2>4, <2>6, <4>2
      <4>4. PICK m \in 1 .. n : at[m] = l
        BY <2>5, <3>1, <4>3 DEF Response
      <4>5. Response(t, m) /\ m \in DOMAIN t.entries
        BY <1>2, <1>8, <3>1, <4>3, <4>4
      <4>6. ASSUME NEW j \in 1 .. n, at[j] <= l
            PROVE  j <= m
        <5>1. at[j] \in Nat /\ j \in Nat /\ m \in Nat /\ at[m] \in Nat
          BY <2>6
        <5>2. ~ (at[m] < at[j])
          BY <4>4, <4>6, <5>1
        <5>3. ~ (m < j)
          BY <1>2, <5>2
        <5> QED
          BY <5>1, <5>3
      <4>7. \A j \in DOMAIN t.entries : Response(t, j) => j <= m
        <5> TAKE j \in DOMAIN t.entries
        <5> HAVE Response(t, j)
        <5>1. j \in 1 .. n
          BY <1>8
        <5>2. at[j] <= l
          BY <1>12, <2>4, <2>6, <3>1, <5>1
        <5> QED
          BY <4>6, <5>1, <5>2
      <4>8. LastResponse(t, 0) = m
        <5>1. m \in 0 .. Len(t.entries) /\ m > 0
          BY <1>2, <4>5
        <5> QED
          BY <1>4, <4>5, <4>7, <5>1, LastResponseOf
      <4>9. ResponseCalls(t, 0) = ResponseCalls(s, 0)
        <5>1. t.entries[m].of = s.entries[l].of /\ m # 0
          BY <1>12, <4>4, <4>5, <2>6
        <5> QED
          BY <4>3, <4>8, <5>1 DEF ResponseCalls, l
      <4>10. EndCall(t) = EndCall(s)
        BY <1>4, <4>9, SameEnd
      <4> SUFFICES ASSUME EndCall(s) \in DOMAIN s.pending,
                          NEW i \in DOMAIN t.entries, t.entries[i].kind = "outstanding"
                   PROVE  i <= m
        BY <1>3, <4>8, <4>10 DEF ToldBefore
      <4>11. i \in 1 .. n
        BY <1>2
      <4>12. at[i] \in DOMAIN s.entries /\ s.entries[at[i]].kind = "outstanding"
        BY <1>2, <4>11
      <4>13. at[i] <= l
        BY <1>5, <4>12 DEF ToldBefore, l
      <4> QED
        BY <4>6, <4>11, <4>13
    <3> QED
      BY <3>2, <3>3
  <2> QED
    BY <1>10, <1>11, <1>13, <1>14, <1>15, <1>16, <2>7, <2>8, <2>9 DEF Transcript
<1> QED
  BY <1>17, <1>18 DEF MayApply

LEMMA AppliedTalks ==
    ASSUME NEW s \in Sessions, NEW t, NEW a, NEW from, NEW to, NEW noticed,
           Fits(s, a), Transcript(s, a), TalkGoesOn(s),
           MayApply(s, from, to), IsApplied(s, t, from, to, noticed), noticed \in {s.noticed, TRUE}
    PROVE  TalkGoesOn(t)
<1> SUFFICES ASSUME Talking(t), noticed = s.noticed, ~s.noticed, s.mail = {} PROVE SomethingToSay(t)
  <2>1. t.noticed = noticed /\ t.mail = s.mail /\ s.noticed \in BOOLEAN
    BY AppliedFields DEF Sessions
  <2> QED
    BY <2>1 DEF TalkGoesOn, SomethingToSay
<1>1. PICK n, at : Window(s, t, from, to, n, at)
  BY AppliedEntries
<1>2. /\ n \in Nat /\ Len(t.entries) \in Nat /\ DOMAIN t.entries = 1 .. Len(t.entries)
      /\ Len(t.entries) = IF Unfinished(s) = {} THEN n ELSE n + 1
      /\ Unfinished(s) # {} => t.entries[n + 1].kind = "carried"
      /\ \A k \in 1 .. n :
           /\ at[k] \in from + 1 .. to /\ at[k] \in DOMAIN s.entries
           /\ t.entries[k].kind = s.entries[at[k]].kind
      /\ \A k, l \in 1 .. n : k < l <=> at[k] < at[l]
      /\ \A i \in from + 1 .. to :
           (s.entries[i].kind = "inputs" => ~ (s.entries[i].of \subseteq s.mail))
             => \E k \in 1 .. n : at[k] = i
  BY <1>1 DEF Window
<1>3. /\ t \in Sessions /\ t.context = NoContext
      /\ t.turn = s.turn /\ t.cancel = s.cancel
  BY AppliedFields
<1>4. /\ t.turn # 0 /\ ~t.cancel /\ t.entries # <<>> /\ Response(t, Len(t.entries))
  BY DEF Talking
<1>5. Len(t.entries) \in DOMAIN t.entries /\ t.entries[Len(t.entries)].kind = "assistant"
  BY <1>4 DEF Response
<1>6. Unfinished(s) = {} /\ Len(t.entries) = n
  BY <1>2, <1>5
<1>7. n \in 1 .. n
  BY <1>2, <1>5, <1>6
<1>8. ~ (from = 0 /\ to = 0)
  BY <1>2, <1>7
<1>9. /\ s.step.purpose = "Compaction" /\ from = s.context.keep /\ to = s.context.source
  BY <1>8 DEF MayApply
<1>10. s.step # NoStep /\ s.context.purpose = "Compaction" /\ s.context # NoContext
  BY <1>9 DEF NoStep, NoContext, Fits
<1>11. Fresh(s) = {}
  BY <1>10 DEF Transcript, FreshIsLast
<1>12. to = Len(s.entries) /\ Len(s.entries) \in Nat /\ DOMAIN s.entries = 1 .. Len(s.entries)
       /\ from \in Nat
  BY <1>9, <1>10, SessionParts DEF Transcript, KeepsWhole, MayApply
<1>13. at[n] \in from + 1 .. to /\ at[n] \in Nat /\ from < to
  BY <1>2, <1>7, <1>12
<1>14. at[n] = to
  <2>1. to \in from + 1 .. to /\ to \in DOMAIN s.entries
    BY <1>12, <1>13
  <2>2. s.entries[to].kind = "inputs" => ~ (s.entries[to].of \subseteq s.mail)
    <3>1. s.entries[to].kind = "inputs" => s.entries[to].of # {}
      BY <2>1 DEF Transcript, EntriesSay
    <3> QED
      BY <3>1
  <2>3. PICK k \in 1 .. n : at[k] = to
    BY <1>2, <2>1, <2>2
  <2>4. ~ (k < n)
    BY <1>2, <1>7, <1>12, <1>13, <2>3
  <2> QED
    BY <1>2, <2>3, <2>4
<1>15. Response(s, Len(s.entries)) /\ s.entries # <<>>
  <2>1. Len(s.entries) \in DOMAIN s.entries /\ s.entries[Len(s.entries)].kind = "assistant"
    BY <1>2, <1>5, <1>6, <1>7, <1>12, <1>14
  <2>2. s.entries # <<>>
    BY <2>1
  <2> QED
    BY <2>1, <2>2 DEF Response
<1>16. SomethingToSay(s)
  <2>1. Talking(s)
    BY <1>3, <1>4, <1>9, <1>10, <1>15 DEF Talking
  <2> QED
    BY <2>1 DEF TalkGoesOn
<1>17. Finished(s) \ Reported(s) # {}
  BY <1>6, <1>10, <1>11, <1>16 DEF SomethingToSay
<1>18. Finished(t) # {}
  <2>1. PICK c \in Finished(s) : c \notin Reported(s)
    BY <1>17
  <2>2. c \notin ShownIn(SubSeq(s.entries, from + 1, to), {"direct", "notified"})
    <3> SUFFICES ASSUME c \in ShownIn(SubSeq(s.entries, from + 1, to), {"direct", "notified"})
                 PROVE  FALSE
      OBVIOUS
    <3>1. from \in Nat /\ to \in Nat /\ to <= Len(s.entries)
      BY <1>12
    <3>2. PICK i \in from + 1 .. to :
            s.entries[i].kind \in {"direct", "notified"} /\ c \in s.entries[i].of
      <4>1. \A x : x \in ShownIn(SubSeq(s.entries, from + 1, to), {"direct", "notified"}) <=>
              \E i \in from + 1 .. to :
                s.entries[i].kind \in {"direct", "notified"} /\ x \in s.entries[i].of
        <5>1. ShowsBetween(s, from, to, {"direct", "notified"})
          BY <3>1, WindowShown
        <5> QED
          BY <5>1 DEF ShowsBetween
      <4> QED
        BY <4>1
    <3>3. i \in DOMAIN s.entries
      BY <1>12
    <3> QED
      BY <2>1, <3>2, <3>3 DEF Reported, ShownIn
  <2>3. Finished(t) = Finished(s)
                        \ ShownIn(SubSeq(s.entries, from + 1, to), {"direct", "notified"})
    BY AppliedPending
  <2> QED
    BY <2>1, <2>2, <2>3
<1> QED
  BY <1>3, <1>18 DEF SomethingToSay

LEMMA AppliedSound ==
    ASSUME NEW s \in Sessions, NEW t, NEW a, NEW from, NEW to, NEW noticed,
           Fits(s, a), Transcript(s, a), TalkGoesOn(s),
           MayApply(s, from, to), IsApplied(s, t, from, to, noticed), noticed \in {s.noticed, TRUE}
    PROVE  Sound(t, 0)
BY AppliedFields, AppliedFits, AppliedTranscript, AppliedTalks DEF Sound

LEMMA StartedSound ==
    ASSUME NEW s \in Sessions, NEW t, NEW a, NEW purpose, NEW placeholders, NEW told,
           Fits(s, a), Transcript(s, a), TalkGoesOn(s), s.step = NoStep,
           MayStart(s, purpose, placeholders, told),
           IsStarted(s, t, purpose, placeholders, told),
           s.context.attempts < ContextLimit
    PROVE  Sound(t, Len(t.entries))
<1>1. Fits(t, Len(t.entries))
  BY StartedFits
<1>2. Transcript(t, Len(t.entries))
  BY StartedTranscript
<1>3. TalkGoesOn(t)
  BY StartedTalks
<1>4. t \in Sessions
  BY DEF IsStarted
<1> QED
  BY <1>1, <1>2, <1>3, <1>4 DEF Sound

LEMMA CompletedSound ==
    ASSUME NEW s \in Sessions, NEW a, Fits(s, a), Transcript(s, a), TalkGoesOn(s), s.step # NoStep,
           NEW made \in Seq(CallShapes), Len(s.calls) + Len(made) <= MaxCalls,
           s.step.purpose = "Compaction" => made = <<>>,
           s.step.purpose = "Conversation" => made # <<>> \/ Outstanding(s) # {}
    PROVE  Sound(StepCompleted(s, made), a)
BY CompletedFits, CompletedTranscript, CompletedTalks, CompleteFields, Requested DEF Sound

(* Steps that leave the entries and the pending calls where they are. *)
LEMMA TalkStays ==
    ASSUME NEW s \in Sessions, NEW t \in Sessions, EntriesSay(s), TalkGoesOn(s),
           t.entries = s.entries, DOMAIN t.pending = DOMAIN s.pending,
           \A c \in DOMAIN s.pending : t.pending[c].delivery = s.pending[c].delivery,
           Unfinished(t) \subseteq Unfinished(s),
           s.mail \subseteq t.mail, s.noticed => t.noticed, s.cancel => t.cancel,
           t.turn = s.turn, t.step = s.step, t.context = s.context
    PROVE  TalkGoesOn(t)
<1> SUFFICES ASSUME Talking(t) PROVE SomethingToSay(t)
  BY DEF TalkGoesOn
<1>1. Talking(s)
  BY DEF Talking, Response
<1>2. SomethingToSay(s)
  BY <1>1 DEF TalkGoesOn
<1>3. Fresh(t) = Fresh(s)
  BY DEF Fresh
<1>4. Finished(s) \subseteq Finished(t) /\ Reported(t) = Reported(s)
  BY DEF Finished, Reported
<1>5. Unfinished(s) # {} => Unfinished(t) # {} \/ Finished(t) \ Reported(t) # {}
  <2> SUFFICES ASSUME NEW c \in Unfinished(s), c \notin Unfinished(t)
               PROVE  c \in Finished(t) /\ c \notin Reported(s)
    BY <1>4
  <2>1. c \in DOMAIN s.pending
    BY DEF Unfinished
  <2> QED
    BY <2>1 DEF Finished, EntriesSay
<1> QED
  BY <1>2, <1>3, <1>4, <1>5 DEF SomethingToSay

LEMMA ResultSound ==
    ASSUME NEW s, NEW a, Sound(s, a), NEW c \in DOMAIN s.calls, NEW result \in {"ok", "bad"},
           NEW earlier \in BOOLEAN
    PROVE  Sound(ToolResult(s, c, result, earlier), a)
<1>1. s \in Sessions /\ Fits(s, a) /\ Transcript(s, a) /\ TalkGoesOn(s)
  BY DEF Sound
<1> DEFINE t == ToolResult(s, c, result, earlier)
<1>2. /\ t \in Sessions
      /\ DOMAIN t.pending = DOMAIN s.pending
      /\ \A d \in DOMAIN s.pending :
            /\ t.pending[d].delivery = s.pending[d].delivery
            /\ t.pending[d].result = IF d = c /\ c \in Unfinished(s) THEN result
                                     ELSE s.pending[d].result
      /\ t.noticed = (s.noticed \/ c \notin Unfinished(s))
      /\ t.waitFor \in {c, s.waitFor}
      /\ t.mail = s.mail /\ t.turn = s.turn /\ t.turns = s.turns /\ t.cancel = s.cancel
      /\ t.failures = s.failures /\ t.context = s.context /\ t.step = s.step
      /\ t.outcome = s.outcome /\ t.calls = s.calls /\ t.batch = s.batch
      /\ t.entries = s.entries /\ t.generation = s.generation
  BY <1>1, ResultFields
<1> SUFFICES Sound(t, a)
  OBVIOUS
<1> HIDE DEF t
<1>3. Unfinished(t) \subseteq Unfinished(s)
  BY <1>2 DEF Unfinished
<1>4. Fits(t, a)
  BY <1>1, <1>2 DEF Fits
<1>5. Transcript(t, a)
  <2>1. CallsKnown(s)
    BY <1>1 DEF Transcript
  <2>2. s.batch \subseteq DOMAIN s.calls /\ s.waitFor <= Len(s.calls)
    BY <2>1 DEF CallsKnown
  <2>3. c <= Len(s.calls)
    BY <1>1, SessionParts
  <2> QED
    BY <1>1, <1>2, <1>3, <2>2, <2>3, Unmoved
<1>6. TalkGoesOn(t)
  <2>1. EntriesSay(s) /\ s.mail \subseteq t.mail /\ (s.noticed => t.noticed)
    BY <1>1, <1>2 DEF Transcript
  <2> QED
    BY <1>1, <1>2, <1>3, <2>1, TalkStays
<1> QED
  BY <1>2, <1>4, <1>5, <1>6 DEF Sound

LEMMA FailedSound ==
    ASSUME NEW s, NEW a, Sound(s, a), NEW cs
    PROVE  Sound(ToolsFailed(s, cs), a)
<1>1. s \in Sessions /\ Fits(s, a) /\ Transcript(s, a) /\ TalkGoesOn(s)
  BY DEF Sound
<1> DEFINE t == ToolsFailed(s, cs)
<1>2. /\ t \in Sessions /\ t.pending = WithFailed(s.pending, cs)
      /\ t.mail = s.mail /\ t.turn = s.turn /\ t.turns = s.turns /\ t.cancel = s.cancel
      /\ t.failures = s.failures /\ t.context = s.context /\ t.step = s.step
      /\ t.outcome = s.outcome /\ t.calls = s.calls /\ t.batch = s.batch
      /\ t.waitFor = s.waitFor /\ t.noticed = s.noticed
      /\ t.entries = s.entries /\ t.generation = s.generation
  BY <1>1, FailedFields
<1> SUFFICES Sound(t, a)
  OBVIOUS
<1> HIDE DEF t
<1>3. /\ DOMAIN t.pending = DOMAIN s.pending
      /\ \A c \in DOMAIN s.pending :
            /\ t.pending[c].delivery = s.pending[c].delivery
            /\ t.pending[c].result = IF c \in cs THEN "bad" ELSE s.pending[c].result
  <2>1. s.pending \in Pendings
    BY <1>1, SessionParts
  <2> QED
    BY <1>2, <2>1, FailedShape
<1>4. Unfinished(t) \subseteq Unfinished(s)
  BY <1>3 DEF Unfinished
<1>5. Fits(t, a)
  BY <1>1, <1>2 DEF Fits
<1>6. Transcript(t, a)
  <2>1. CallsKnown(s)
    BY <1>1 DEF Transcript
  <2>2. s.batch \subseteq DOMAIN s.calls /\ s.waitFor <= Len(s.calls)
    BY <2>1 DEF CallsKnown
  <2> QED
    BY <1>1, <1>2, <1>3, <1>4, <2>2, Unmoved
<1>7. TalkGoesOn(t)
  <2>1. EntriesSay(s)
    BY <1>1 DEF Transcript
  <2> QED
    BY <1>1, <1>2, <1>3, <1>4, <2>1, TalkStays
<1> QED
  BY <1>2, <1>5, <1>6, <1>7 DEF Sound

(* What notes a fact, and moves nothing else. *)
IsNoted(s, t) ==
  /\ t \in Sessions
  /\ s.mail \subseteq t.mail /\ (s.noticed => t.noticed) /\ (s.cancel => t.cancel)
  /\ t.batch \in {s.batch, {}} /\ t.waitFor \in {s.waitFor, 0}
  /\ t.turn = s.turn /\ t.turns = s.turns /\ t.failures = s.failures
  /\ t.context = s.context /\ t.step = s.step /\ t.outcome = s.outcome
  /\ t.calls = s.calls /\ t.pending = s.pending /\ t.entries = s.entries
  /\ t.generation = s.generation

LEMMA NotedSound ==
    ASSUME NEW s, NEW t, NEW a, Sound(s, a), IsNoted(s, t)
    PROVE  Sound(t, a)
<1>1. s \in Sessions /\ Fits(s, a) /\ Transcript(s, a) /\ TalkGoesOn(s)
  BY DEF Sound
<1>2. /\ t \in Sessions
      /\ s.mail \subseteq t.mail /\ (s.noticed => t.noticed) /\ (s.cancel => t.cancel)
      /\ t.batch \in {s.batch, {}} /\ t.waitFor \in {s.waitFor, 0}
      /\ t.turn = s.turn /\ t.failures = s.failures
      /\ t.context = s.context /\ t.step = s.step
      /\ t.calls = s.calls /\ t.pending = s.pending /\ t.entries = s.entries
  BY DEF IsNoted
<1>3. Unfinished(t) = Unfinished(s)
  BY <1>2 DEF Unfinished
<1>4. Fits(t, a)
  BY <1>1, <1>2 DEF Fits
<1>5. Transcript(t, a)
  <2>1. CallsKnown(s)
    BY <1>1 DEF Transcript
  <2>2. s.batch \subseteq DOMAIN s.calls /\ s.waitFor <= Len(s.calls)
        /\ Len(s.calls) \in Nat
    BY <1>1, <2>1, SessionParts DEF CallsKnown
  <2>3. t.batch \subseteq DOMAIN s.calls /\ t.waitFor <= Len(s.calls)
    BY <1>2, <2>2
  <2> QED
    BY <1>1, <1>2, <1>3, <2>3, Unmoved
<1>6. TalkGoesOn(t)
  <2>1. EntriesSay(s)
    BY <1>1 DEF Transcript
  <2> QED
    BY <1>1, <1>2, <1>3, <2>1, TalkStays
<1> QED
  BY <1>2, <1>4, <1>5, <1>6 DEF Sound

LEMMA FailStepSound ==
    ASSUME NEW s, NEW a, Sound(s, a), s.step # NoStep,
           NEW error \in {"overflow", "document", "other"}, NEW retryable \in BOOLEAN,
           error = "document" => s.step.purpose # "Conversation"
    PROVE  Sound(StepFailed(s, error, retryable), a)
<1>1. s \in Sessions /\ Fits(s, a) /\ Transcript(s, a)
  BY DEF Sound
<1> DEFINE t == StepFailed(s, error, retryable)
           attempt == error = "document" /\ s.step.purpose # "Conversation"
<1>20. /\ t \in Sessions
       /\ t.step = NoStep /\ t.noticed = TRUE
       /\ t.context.purpose = s.context.purpose /\ t.context.source = s.context.source
       /\ t.context.keep = s.context.keep
       /\ t.context.attempts \in {s.context.attempts, s.context.attempts + 1}
       /\ t.failures \in {0, s.failures + 1}
       /\ t.context = s.context \/ t.failures = 0
       /\ s.step.purpose = "Conversation" => t.context = s.context
       /\ t.calls = s.calls /\ t.pending = s.pending /\ t.batch = s.batch
       /\ t.waitFor = s.waitFor /\ t.entries = s.entries
  <2>1. HasFailed(s, t)
    BY <1>1, FailFields
  <2> HIDE DEF t
  <2> QED
    BY <2>1 DEF HasFailed
<1> SUFFICES Sound(t, a)
  OBVIOUS
<1> HIDE DEF t
<1>3. s.step.purpose \in Purposes
  BY <1>1, Requested
<1>4. /\ s.context.attempts < ContextLimit
      /\ s.step.purpose # "Conversation" => s.context.purpose # "none"
  <2>1. CASE s.step.purpose = "Conversation"
    <3>1. s.context = NoContext
      BY <1>1, <2>1 DEF Fits
    <3> QED
      BY <2>1, <3>1, LimitsAssumption DEF NoContext
  <2>2. CASE s.step.purpose \in {"Compaction", "Handoff"}
    BY <1>1, <2>2 DEF Fits
  <2> QED
    BY <1>3, <2>1, <2>2 DEF Purposes
<1>5. Fits(t, a)
  <2>1. s.context.attempts \in Nat /\ ContextLimit \in Nat
    BY <1>1, LimitsAssumption DEF Sessions, ContextShapes
  <2>2. /\ t.context.attempts <= ContextLimit
        /\ t.context.attempts = ContextLimit => t.failures = 0
    BY <1>20, <1>4, <2>1
  <2>3. t.context.purpose = "none" => t.context = NoContext
    BY <1>1, <1>20, <1>4 DEF Fits
  <2>4. /\ t.context.keep <= t.context.source /\ t.context.source <= a
        /\ a \in 0 .. Len(t.entries)
    BY <1>1, <1>20 DEF Fits
  <2> QED
    BY <1>20, <2>2, <2>3, <2>4 DEF Fits, NoStep
<1>6. Transcript(t, a)
  <2>1. CallsKnown(s)
    BY <1>1 DEF Transcript
  <2>2. s.batch \subseteq DOMAIN s.calls /\ s.waitFor <= Len(s.calls)
    BY <2>1 DEF CallsKnown
  <2>3. Unfinished(t) = Unfinished(s)
    BY <1>20 DEF Unfinished
  <2> QED
    BY <1>1, <1>20, <2>2, <2>3, Unmoved
<1> QED
  BY <1>20, <1>5, <1>6 DEF Sound, TalkGoesOn, SomethingToSay

LEMMA InterruptSound ==
    ASSUME NEW s, NEW a, Sound(s, a), NEW recovery \in BOOLEAN, recovery \/ s.cancel
    PROVE  Sound(StepInterrupted(s, recovery), a)
<1>1. s \in Sessions /\ Fits(s, a) /\ Transcript(s, a)
  BY DEF Sound
<1> DEFINE t == StepInterrupted(s, recovery)
<1>2. /\ t \in Sessions /\ t.step = NoStep /\ t.noticed = (s.noticed \/ recovery)
      /\ t.cancel = s.cancel /\ t.failures = s.failures /\ t.context = s.context
      /\ t.calls = s.calls /\ t.pending = s.pending /\ t.batch = s.batch
      /\ t.waitFor = s.waitFor /\ t.entries = s.entries
  BY <1>1, InterruptFields
<1> SUFFICES Sound(t, a)
  OBVIOUS
<1> HIDE DEF t
<1>3. Fits(t, a)
  BY <1>1, <1>2 DEF Fits, NoStep
<1>4. Transcript(t, a)
  <2>1. CallsKnown(s)
    BY <1>1 DEF Transcript
  <2>2. s.batch \subseteq DOMAIN s.calls /\ s.waitFor <= Len(s.calls)
    BY <2>1 DEF CallsKnown
  <2>3. Unfinished(t) = Unfinished(s)
    BY <1>2 DEF Unfinished
  <2> QED
    BY <1>1, <1>2, <2>2, <2>3, Unmoved
<1>5. t.noticed \/ t.cancel
  BY <1>2
<1> QED
  BY <1>2, <1>3, <1>4, <1>5 DEF Sound, TalkGoesOn, SomethingToSay, Talking

LEMMA TurnStartSound ==
    ASSUME NEW s, NEW a, Sound(s, a), s.step = NoStep, ShouldStartTurn(s)
    PROVE  Sound(TurnStarted(s), a)
<1>1. s \in Sessions /\ Fits(s, a) /\ Transcript(s, a)
  BY DEF Sound
<1> DEFINE t == TurnStarted(s)
<1>2. /\ t \in Sessions
      /\ t.failures = 0 /\ t.context = NoContext
      /\ t.mail = s.mail /\ t.step = s.step /\ t.calls = s.calls /\ t.pending = s.pending
      /\ t.batch = s.batch /\ t.waitFor = s.waitFor /\ t.noticed = s.noticed
      /\ t.entries = s.entries
  BY <1>1, StartFields
<1> SUFFICES Sound(t, a)
  OBVIOUS
<1> HIDE DEF t
<1>3. Unfinished(t) = Unfinished(s) /\ Finished(t) = Finished(s)
  BY <1>2 DEF Unfinished, Finished
<1>4. Fits(t, a)
  <2>1. a \in 0 .. Len(t.entries) /\ Len(t.entries) \in Nat /\ ContextLimit \in Nat \ {0}
    BY <1>1, <1>2, SessionParts, LimitsAssumption DEF Fits
  <2> QED
    BY <1>2, <2>1 DEF Fits, NoStep, NoContext
<1>5. Transcript(t, a)
  <2>1. CallsKnown(s)
    BY <1>1 DEF Transcript
  <2>2. s.batch \subseteq DOMAIN s.calls /\ s.waitFor <= Len(s.calls)
    BY <2>1 DEF CallsKnown
  <2>3. t.context.purpose # "Compaction"
    BY <1>2 DEF NoContext
  <2> QED
    BY <1>1, <1>2, <1>3, <2>2, <2>3, Unmoved
<1>6. SomethingToSay(t)
  <2>1. s.mail # {} \/ s.noticed \/ Finished(s) # {}
    BY DEF ShouldStartTurn, Wakes
  <2> QED
    BY <1>2, <1>3, <2>1 DEF SomethingToSay
<1> QED
  BY <1>2, <1>4, <1>5, <1>6 DEF Sound, TalkGoesOn

LEMMA TurnEndSound ==
    ASSUME NEW s \in Sessions, NEW a, a \in 0 .. Len(s.entries), Transcript(s, a),
           NEW outcome \in {"Finished", "Failed", "Cancelled"}
    PROVE  Sound(TurnFinished(s, outcome), a)
<1> DEFINE t == TurnFinished(s, outcome)
<1>1. /\ t \in Sessions /\ t.turn = 0 /\ t.cancel = FALSE
      /\ t.failures = 0 /\ t.context = NoContext /\ t.step = NoStep
      /\ t.entries = Closed(s)
  BY EndFields
<1>2. Transcript(t, a)
  BY EndKeepsTranscript
<1> SUFFICES Sound(t, a)
  OBVIOUS
<1> HIDE DEF t
<1>3. a \in 0 .. Len(t.entries) /\ Len(t.entries) \in Nat /\ ContextLimit \in Nat \ {0}
  BY <1>1, ClosedShape, SessionParts, LimitsAssumption
<1>4. Fits(t, a)
  BY <1>1, <1>3 DEF Fits, NoStep, NoContext
<1> QED
  BY <1>1, <1>2, <1>4 DEF Sound, TalkGoesOn, Talking

-----------------------------------------------------------------------------
(***************************************************************************)
(* The steps.                                                              *)
(***************************************************************************)
LEMMA CallsAreNumbered ==
    ASSUME NEW s, NEW a, Sound(s, a)
    PROVE  DOMAIN s.calls \subseteq Calls
<1>1. DOMAIN s.calls = 1 .. Len(s.calls) /\ Len(s.calls) \in Nat
  BY SessionParts DEF Sound
<1>2. Len(s.calls) <= MaxCalls
  BY DEF Sound, Transcript, CallsKnown
<1> QED
  BY <1>1, <1>2, LimitsAssumption DEF Calls

LEMMA TasksStay ==
    ASSUME TasksKnown, DOMAIN session.calls \subseteq DOMAIN session'.calls,
           place' \in Places, seen' \in {seen, {}}, live' \subseteq live,
           place' = "results" => place = "results" /\ seen' = seen,
           sent' \subseteq live', orphan' \subseteq live', queue' \subseteq queue
    PROVE  TasksKnown'
<1>1. live' \subseteq DOMAIN session'.calls
  BY DEF TasksKnown
<1>2. queue' \subseteq (DOMAIN session'.calls) \X {"ok", "bad"}
  BY DEF TasksKnown
<1>3. place' = "results" => live' \subseteq seen'
  BY DEF TasksKnown
<1> QED
  BY <1>1, <1>2, <1>3 DEF TasksKnown

LEMMA InvariantParts ==
    ASSUME TurnInvariant
    PROVE  /\ Sound(session, asked) /\ PlaceFits(place, session) /\ TasksKnown /\ MailKnown
           /\ session \in Sessions /\ Fits(session, asked) /\ Transcript(session, asked)
           /\ TalkGoesOn(session)
BY DEF TurnInvariant, Sound

LEMMA InitKeeps == Init => TurnInvariant
<1> SUFFICES ASSUME Init PROVE TurnInvariant
  OBVIOUS
<1> DEFINE s == NewSession
<1>1. /\ session = s /\ asked = 0 /\ place = "down" /\ seen = {} /\ queue = {} /\ live = {}
      /\ sent = {} /\ orphan = {} /\ accepted = {}
  BY DEF Init
<1>2. /\ s.mail = {} /\ s.turn = 0 /\ s.turns = 0 /\ s.cancel = FALSE /\ s.failures = 0
      /\ s.context = NoContext /\ s.step = NoStep /\ s.calls = <<>> /\ s.pending = <<>>
      /\ s.batch = {} /\ s.waitFor = 0 /\ s.noticed = FALSE /\ s.entries = <<>>
  BY DEF NewSession
<1>3. s \in Sessions
  <2>1. << >> \in Seq(CallShapes) /\ << >> \in Seq(EntryShapes)
    OBVIOUS
  <2>2. << >> \in Pendings
    <3>1. << >> \in [{} -> PendingShapes] /\ {} \in SUBSET Calls
      OBVIOUS
    <3> QED
      BY <3>1 DEF Pendings
  <2>3. NoContext \in ContextShapes /\ NoStep \in StepShapes
    BY DEF NoContext, ContextShapes, NoStep, StepShapes
  <2> QED
    BY <2>1, <2>2, <2>3 DEF NewSession, Sessions, Outcomes, Failures
<1> HIDE DEF s
<1>4. /\ DOMAIN s.entries = {} /\ Len(s.entries) = 0 /\ DOMAIN s.calls = {} /\ Len(s.calls) = 0
      /\ DOMAIN s.pending = {}
  BY <1>2
<1>5. Fits(s, 0)
  BY <1>2, <1>4, LimitsAssumption DEF Fits, NoContext, NoStep
<1>6. Transcript(s, 0)
  <2>1. CallsKnown(s)
    BY <1>2, <1>4, LimitsAssumption DEF CallsKnown
  <2>2. Unfinished(s) = {} /\ Fresh(s) = {}
    BY <1>4 DEF Unfinished, Fresh
  <2>3. EntriesSay(s) /\ CallsApart(s) /\ FreshIsLast(s, 0)
    BY <1>4, <2>2 DEF EntriesSay, CallsApart, FreshIsLast
  <2>4. ClosedFits(s) /\ AnswersFit(s) /\ NothingAnsweredUnasked(s)
    BY <1>4 DEF ClosedFits, AnswersFit, NothingAnsweredUnasked
  <2>5. KeepsWhole(s) /\ ToldBefore(s)
    BY <1>2, <1>4 DEF KeepsWhole, ToldBefore, NoContext
  <2> QED
    BY <2>1, <2>3, <2>4, <2>5 DEF Transcript
<1>7. TalkGoesOn(s)
  BY <1>2 DEF TalkGoesOn, Talking
<1>8. PlaceFits(place, s)
  BY <1>1 DEF PlaceFits
<1>9. TasksKnown
  BY <1>1 DEF TasksKnown, Places
<1>10. MailKnown
  BY <1>1, <1>2 DEF MailKnown, NoStep
<1> QED
  BY <1>1, <1>3, <1>5, <1>6, <1>7, <1>8, <1>9, <1>10 DEF TurnInvariant, Sound

(* A decision leaves the tools and the mailbox as they are. *)
LEMMA DecidedKeeps ==
    ASSUME TurnInvariant, NEW t, Decided(t), Sound(t, asked'), accepted' = accepted,
           t.calls = session.calls, t.mail = session.mail,
           t.step \in {session.step, NoStep}, t.turn <= t.turns
    PROVE  TurnInvariant'
<1>1. /\ session' = t /\ place' = "top" /\ seen' = {}
      /\ queue' = queue /\ live' = live /\ sent' = sent /\ orphan' = orphan
  BY DEF Decided
<1>2. TasksKnown /\ MailKnown
  BY InvariantParts
<1>3. TasksKnown'
  <2>1. sent' \subseteq live' /\ orphan' \subseteq live' /\ "top" \in Places
    BY <1>1, <1>2 DEF TasksKnown, Places
  <2> QED
    BY <1>1, <1>2, <2>1, TasksStay
<1>4. MailKnown'
  BY <1>1, <1>2 DEF MailKnown, NoStep
<1>5. PlaceFits(place', session')
  BY <1>1 DEF PlaceFits
<1> QED
  BY <1>1, <1>3, <1>4, <1>5 DEF TurnInvariant

(* A tool, an input, a crash: the runner's place moves, and the session at *)
(* most notes something.                                                   *)
LEMMA NotedKeeps ==
    ASSUME TurnInvariant, IsNoted(session, session'), asked' = asked, accepted \subseteq accepted',
           accepted' \subseteq Input, session'.mail \subseteq accepted',
           PlaceFits(place', session'), TasksKnown'
    PROVE  TurnInvariant'
<1>1. Sound(session', asked')
  BY InvariantParts, NotedSound
<1>2. MailKnown'
  BY InvariantParts DEF MailKnown, IsNoted
<1> QED
  BY <1>1, <1>2 DEF TurnInvariant

LEMMA SameNoted == ASSUME NEW s \in Sessions PROVE IsNoted(s, s)
BY DEF IsNoted

(* The executor, the crashes, and the runner where it decides nothing. *)
LEMMA ToolsKeep ==
    ASSUME TurnInvariant, NEW c \in Calls, ToolEnds(c) \/ ToolLeaves(c)
    PROVE  TurnInvariant'
<1>1. TasksKnown /\ IsNoted(session, session) /\ MailKnown /\ PlaceFits(place, session)
  BY InvariantParts, SameNoted
<1>2. /\ session' = session /\ place' = place /\ seen' = seen
      /\ accepted' = accepted /\ asked' = asked
  BY DEF ToolEnds, ToolLeaves, ghosts
<1>3. TasksKnown'
  <2>1. CASE ToolEnds(c)
    <3>1. c \in DOMAIN session.calls
      BY <1>1, <2>1 DEF ToolEnds, TasksKnown
    <3>2. queue' \subseteq (DOMAIN session.calls) \X {"ok", "bad"}
      <4>1. PICK result \in {"ok", "bad"} :
              queue' = IF c \in orphan THEN queue ELSE queue \cup {<<c, result>>}
        <5>1. (IF session.calls[c].rejected THEN {"bad"} ELSE {"ok", "bad"}) \subseteq {"ok", "bad"}
          OBVIOUS
        <5> QED
          BY <2>1, <5>1 DEF ToolEnds
      <4> QED
        BY <1>1, <3>1, <4>1 DEF TasksKnown
    <3> QED
      BY <1>1, <1>2, <2>1, <3>2 DEF ToolEnds, TasksKnown
  <2>2. CASE ToolLeaves(c)
    BY <1>1, <1>2, <2>2 DEF ToolLeaves, TasksKnown
  <2> QED
    BY <2>1, <2>2
<1>4. session.mail \subseteq accepted /\ accepted \subseteq Input
  BY <1>1 DEF MailKnown
<1> QED
  BY <1>1, <1>2, <1>3, <1>4, NotedKeeps

LEMMA CrashKeeps ==
    ASSUME TurnInvariant, Crash \/ RunnerFails \/ Activate
    PROVE  TurnInvariant'
<1>1. /\ TasksKnown /\ MailKnown /\ session \in Sessions /\ IsNoted(session, session)
      /\ Sound(session, asked)
  BY InvariantParts, SameNoted
<1>2. accepted' = accepted /\ asked' = asked
  BY DEF Crash, RunnerFails, Activate, ghosts
<1>3. IsNoted(session, session')
  <2>1. CASE RunnerFails
    <3>1. session' = [session EXCEPT !.noticed = TRUE]
      BY <2>1 DEF RunnerFails
    <3> QED
      BY <1>1, <3>1 DEF IsNoted, Sessions
  <2>2. CASE Crash \/ Activate
    BY <1>1, <2>2 DEF Crash, Activate
  <2> QED
    BY <2>1, <2>2
<1>4. place' \in {"down", "top"}
  BY DEF Crash, RunnerFails, Activate, Down
<1>5. TasksKnown'
  <2>1. /\ seen' \in {seen, {}} /\ live' \subseteq live /\ sent' \subseteq live'
        /\ orphan' \subseteq live' /\ queue' \subseteq queue
    BY <1>1 DEF Crash, RunnerFails, Activate, Down, taskVars, TasksKnown
  <2>2. place' \in Places /\ place' # "results"
    BY <1>4 DEF Places
  <2>3. session'.calls = session.calls
    BY <1>3 DEF IsNoted
  <2> QED
    BY <1>1, <2>1, <2>2, <2>3, TasksStay
<1>6. session'.mail \subseteq accepted /\ accepted \subseteq Input
  <2>1. session'.mail = session.mail
    BY <1>1 DEF Crash, RunnerFails, Activate, Sessions
  <2> QED
    BY <1>1, <2>1 DEF MailKnown
<1>7. PlaceFits(place', session')
  BY <1>4 DEF PlaceFits
<1> QED
  BY <1>2, <1>3, <1>5, <1>6, <1>7, NotedKeeps

(* The runner's loop where the session stays as it is. *)
LEMMA LoopKeeps ==
    ASSUME TurnInvariant, TakeSnapshot \/ ParkInBatch \/ Park \/ BackOff \/ DeadlineWakes
    PROVE  TurnInvariant'
<1>1. /\ TasksKnown /\ MailKnown /\ session \in Sessions /\ IsNoted(session, session)
      /\ Sound(session, asked)
  BY InvariantParts, SameNoted
<1>2. /\ session' = session /\ accepted' = accepted /\ asked' = asked
      /\ live' = live /\ sent' = sent
  BY DEF TakeSnapshot, ParkInBatch, Park, BackOff, DeadlineWakes, ghosts, taskVars
<1>3. /\ place' \in Places
      /\ queue' \subseteq queue /\ orphan' \in {orphan, live}
      /\ ~TakeSnapshot => place' # "results" /\ seen' \in {seen, {}}
      /\ TakeSnapshot => seen' = live
  BY DEF TakeSnapshot, ParkInBatch, Park, BackOff, DeadlineWakes, taskVars, Places
<1>4. TasksKnown'
  <2>1. CASE TakeSnapshot
    <3>1. live \subseteq Calls
      BY <1>1, CallsAreNumbered DEF TasksKnown
    <3> QED
      BY <1>1, <1>2, <1>3, <2>1, <3>1 DEF TasksKnown
  <2>2. CASE ~TakeSnapshot
    <3>1. sent' \subseteq live' /\ orphan' \subseteq live'
      BY <1>1, <1>2, <1>3 DEF TasksKnown
    <3> QED
      BY <1>1, <1>2, <1>3, <2>2, <3>1, TasksStay
  <2> QED
    BY <2>1, <2>2
<1>5. PlaceFits(place', session')
  <2>1. CASE BackOff
    BY <1>2, <2>1 DEF BackOff, Retries, Retrying, Batchless, Going, Stable, PlaceFits
  <2>2. CASE ~BackOff
    <3>1. place' \in {"results", "park", "down", "top"}
      BY <2>2 DEF TakeSnapshot, ParkInBatch, Park, DeadlineWakes
    <3> QED
      BY <3>1 DEF PlaceFits
  <2> QED
    BY <2>1, <2>2
<1>6. session.mail \subseteq accepted /\ accepted \subseteq Input
  BY <1>1 DEF MailKnown
<1> QED
  BY <1>1, <1>2, <1>4, <1>5, <1>6, NotedKeeps

LEMMA ReceiveKeeps ==
    ASSUME TurnInvariant, NEW i \in Input, ReceiveInput(i)
    PROVE  TurnInvariant'
<1>1. /\ TasksKnown /\ MailKnown /\ session \in Sessions /\ PlaceFits(place, session)
  BY InvariantParts
<1>2. /\ session' = [session EXCEPT !.mail = @ \cup {i}] /\ place' = Woken
      /\ accepted' = accepted \cup {i} /\ asked' = asked
      /\ seen' = seen /\ queue' = queue /\ live' = live /\ sent' = sent /\ orphan' = orphan
  BY DEF ReceiveInput, InputAppended
<1>3. IsNoted(session, session') /\ session'.mail = session.mail \cup {i}
  <2>1. session.mail \cup {i} \in SUBSET Input
    BY <1>1 DEF Sessions
  <2> QED
    BY <1>1, <1>2, <2>1 DEF IsNoted, Sessions
<1>4. TasksKnown'
  <2>1. place' \in Places /\ (place' = "results" => place = "results")
    BY <1>1, <1>2 DEF Woken, TasksKnown, Places
  <2>2. sent' \subseteq live' /\ orphan' \subseteq live' /\ session'.calls = session.calls
    BY <1>1, <1>2, <1>3 DEF TasksKnown, IsNoted
  <2> QED
    BY <1>1, <1>2, <2>1, <2>2, TasksStay
<1>5. PlaceFits(place', session')
  <2>1. place' = place \/ place' = "top"
    BY <1>2 DEF Woken
  <2>2. /\ session'.step = session.step /\ session'.cancel = session.cancel
        /\ session'.failures = session.failures /\ session'.turn = session.turn
    BY <1>1, <1>2 DEF Sessions
  <2> QED
    BY <1>1, <2>1, <2>2 DEF PlaceFits
<1>6. accepted \subseteq accepted' /\ accepted' \subseteq Input /\ session'.mail \subseteq accepted'
  BY <1>1, <1>2, <1>3 DEF MailKnown
<1> QED
  BY <1>2, <1>3, <1>4, <1>5, <1>6, NotedKeeps

LEMMA CancelKeeps ==
    ASSUME TurnInvariant, CancelTurn
    PROVE  TurnInvariant'
<1>1. /\ TasksKnown /\ MailKnown /\ session \in Sessions /\ PlaceFits(place, session)
  BY InvariantParts
<1>2. /\ session' = [session EXCEPT !.cancel = TRUE]
      /\ place' = IF place = "model" THEN "cancelling" ELSE "top"
      /\ accepted' = accepted /\ asked' = asked
      /\ seen' = seen /\ queue' = queue /\ live' = live /\ sent' = sent /\ orphan' = orphan
  BY DEF CancelTurn, ghosts
<1>3. IsNoted(session, session') /\ session'.mail = session.mail /\ session'.cancel = TRUE
  BY <1>1, <1>2 DEF IsNoted, Sessions
<1>4. TasksKnown'
  <2>1. place' \in Places /\ place' # "results"
    BY <1>2 DEF Places
  <2>2. sent' \subseteq live' /\ orphan' \subseteq live' /\ session'.calls = session.calls
    BY <1>1, <1>2, <1>3 DEF TasksKnown, IsNoted
  <2> QED
    BY <1>1, <1>2, <2>1, <2>2, TasksStay
<1>5. PlaceFits(place', session')
  <2>1. session'.step = session.step
    BY <1>3 DEF IsNoted
  <2> QED
    BY <1>1, <1>2, <1>3, <2>1 DEF PlaceFits
<1>6. accepted \subseteq Input /\ session'.mail \subseteq accepted
  BY <1>1, <1>3 DEF MailKnown
<1> QED
  BY <1>2, <1>3, <1>4, <1>5, <1>6, NotedKeeps

LEMMA ResultKeeps ==
    ASSUME TurnInvariant, NEW c, NEW result, PersistResult(c, result)
    PROVE  TurnInvariant'
<1>1. /\ TasksKnown /\ MailKnown /\ session \in Sessions /\ PlaceFits(place, session)
      /\ Sound(session, asked)
  BY InvariantParts
<1>2. PICK earlier \in BOOLEAN : session' = ToolResult(session, c, result, earlier)
  BY DEF PersistResult
<1>3. /\ place' = Woken /\ queue' = queue \ {<<c, result>>} /\ <<c, result>> \in queue
      /\ accepted' = accepted /\ asked' = asked
      /\ seen' = seen /\ live' = live /\ sent' = sent /\ orphan' = orphan
  BY DEF PersistResult
<1>4. c \in DOMAIN session.calls /\ result \in {"ok", "bad"}
  BY <1>1, <1>3 DEF TasksKnown
<1>5. Sound(session', asked')
  BY <1>1, <1>2, <1>3, <1>4, ResultSound
<1>6. /\ session'.mail = session.mail /\ session'.turn = session.turn
      /\ session'.turns = session.turns /\ session'.cancel = session.cancel
      /\ session'.failures = session.failures /\ session'.step = session.step
      /\ session'.calls = session.calls
  BY <1>1, <1>2, <1>4, ResultFields
<1>7. TasksKnown'
  <2>1. place' \in Places /\ (place' = "results" => place = "results")
    BY <1>1, <1>3 DEF Woken, TasksKnown, Places
  <2>2. sent' \subseteq live' /\ orphan' \subseteq live'
    BY <1>1, <1>3 DEF TasksKnown
  <2> QED
    BY <1>1, <1>3, <1>6, <2>1, <2>2, TasksStay
<1>8. PlaceFits(place', session')
  <2>1. place' = place \/ place' = "top"
    BY <1>3 DEF Woken
  <2> QED
    BY <1>1, <1>6, <2>1 DEF PlaceFits
<1>9. MailKnown'
  BY <1>1, <1>3, <1>6 DEF MailKnown
<1> QED
  BY <1>5, <1>7, <1>8, <1>9 DEF TurnInvariant

(* The decisions that end or interrupt something. *)
LEMMA DecidesKeep ==
    ASSUME TurnInvariant,
           InterruptStep \/ InterruptTools \/ FinishCancelled \/ EndAutoWait \/ GiveUp \/ ReachWait
             \/ StartTurn \/ FinishTurn
    PROVE  TurnInvariant'
<1>1. /\ TasksKnown /\ MailKnown /\ session \in Sessions /\ Sound(session, asked)
      /\ Fits(session, asked) /\ Transcript(session, asked)
  BY InvariantParts
<1>2. accepted' = accepted /\ asked' = asked
  BY DEF InterruptStep, InterruptTools, FinishCancelled, EndAutoWait, GiveUp, ReachWait,
         StartTurn, FinishTurn, ghosts
<1>3. session.turn <= session.turns /\ session.turn \in Nat /\ session.turns \in Nat
  BY <1>1 DEF MailKnown, Sessions
<1>4. asked \in 0 .. Len(session.entries)
  BY <1>1 DEF Fits
<1>5. CASE InterruptStep
  <2> DEFINE t == StepInterrupted(session, TRUE)
  <2>1. Decided(t)
    BY <1>5 DEF InterruptStep
  <2>2. Sound(t, asked)
    BY <1>1, InterruptSound
  <2>3. /\ t.calls = session.calls /\ t.mail = session.mail /\ t.step = NoStep
        /\ t.turn = session.turn /\ t.turns = session.turns
    BY <1>1, InterruptFields
  <2> HIDE DEF t
  <2> QED
    BY <1>2, <1>3, <2>1, <2>2, <2>3, DecidedKeeps
<1>6. CASE InterruptTools
  <2> DEFINE t == ToolsFailed(session, Lost)
  <2>1. Decided(t)
    BY <1>6 DEF InterruptTools
  <2>2. Sound(t, asked)
    BY <1>1, FailedSound
  <2>3. /\ t.calls = session.calls /\ t.mail = session.mail /\ t.step = session.step
        /\ t.turn = session.turn /\ t.turns = session.turns
    BY <1>1, FailedFields
  <2> HIDE DEF t
  <2> QED
    BY <1>2, <1>3, <2>1, <2>2, <2>3, DecidedKeeps
<1>7. CASE FinishCancelled \/ GiveUp \/ FinishTurn
  <2>1. PICK outcome \in {"Finished", "Failed", "Cancelled"} :
          Decided(TurnFinished(session, outcome))
    BY <1>7 DEF FinishCancelled, GiveUp, FinishTurn
  <2> DEFINE t == TurnFinished(session, outcome)
  <2>2. Decided(t)
    BY <2>1
  <2>3. Sound(t, asked)
    BY <1>1, <1>4, TurnEndSound
  <2>4. /\ t.calls = session.calls /\ t.mail = session.mail /\ t.step = NoStep
        /\ t.turn = 0 /\ t.turns = session.turns
    BY <1>1, EndFields
  <2> HIDE DEF t
  <2>5. t.turn <= t.turns
    BY <1>3, <2>4
  <2> QED
    BY <1>2, <2>2, <2>3, <2>4, <2>5, DecidedKeeps
<1>8. CASE EndAutoWait \/ ReachWait
  <2>1. \E batch \in {session.batch, {}}, waitFor \in {session.waitFor, 0}, noticed \in BOOLEAN :
          /\ session.noticed => noticed
          /\ Decided([session EXCEPT !.batch = batch, !.waitFor = waitFor, !.noticed = noticed])
    <3>1. CASE EndAutoWait
      <4> DEFINE noticed == session.noticed \/ (~BatchFinished /\ ~Wakes(session))
      <4>1. Decided([session EXCEPT !.batch = {}, !.noticed = noticed])
        BY <3>1 DEF EndAutoWait, AutoWaitEnded
      <4>2. noticed \in BOOLEAN /\ (session.noticed => noticed)
        BY <1>1 DEF Sessions
      <4> HIDE DEF noticed
      <4>3. [session EXCEPT !.batch = {}, !.noticed = noticed]
              = [session EXCEPT !.batch = {}, !.waitFor = session.waitFor, !.noticed = noticed]
        BY <1>1 DEF Sessions
      <4> QED
        BY <4>1, <4>2, <4>3
    <3>2. CASE ReachWait
      <4>1. Decided([session EXCEPT !.waitFor = 0, !.noticed = TRUE])
        BY <3>2 DEF ReachWait
      <4>2. [session EXCEPT !.waitFor = 0, !.noticed = TRUE]
              = [session EXCEPT !.batch = session.batch, !.waitFor = 0, !.noticed = TRUE]
        BY <1>1 DEF Sessions
      <4> QED
        BY <4>1, <4>2
    <3> QED
      BY <1>8, <3>1, <3>2
  <2>5. PICK batch \in {session.batch, {}}, waitFor \in {session.waitFor, 0}, noticed \in BOOLEAN :
          /\ session.noticed => noticed
          /\ Decided([session EXCEPT !.batch = batch, !.waitFor = waitFor, !.noticed = noticed])
    BY <2>1
  <2> DEFINE t == [session EXCEPT !.batch = batch, !.waitFor = waitFor, !.noticed = noticed]
  <2>2. /\ IsNoted(session, t) /\ t.calls = session.calls /\ t.mail = session.mail
        /\ t.step = session.step /\ t.turn = session.turn /\ t.turns = session.turns
    <3>1. batch \in SUBSET Calls /\ waitFor \in Nat
      BY <1>1 DEF Sessions
    <3>2. t \in Sessions
      BY <1>1, <3>1 DEF Sessions
    <3>3. /\ t.batch = batch /\ t.waitFor = waitFor /\ t.noticed = noticed
          /\ t.mail = session.mail /\ t.cancel = session.cancel
          /\ t.turn = session.turn /\ t.turns = session.turns /\ t.failures = session.failures
          /\ t.context = session.context /\ t.step = session.step /\ t.outcome = session.outcome
          /\ t.calls = session.calls /\ t.pending = session.pending
          /\ t.entries = session.entries /\ t.generation = session.generation
      BY <1>1 DEF Sessions
    <3> HIDE DEF t
    <3> QED
      BY <2>5, <3>2, <3>3 DEF IsNoted
  <2>4. Decided(t)
    BY <2>5
  <2> HIDE DEF t
  <2>3. Sound(t, asked)
    BY <1>1, <2>2, NotedSound
  <2> QED
    BY <1>2, <1>3, <2>2, <2>3, <2>4, DecidedKeeps
<1>9. CASE StartTurn
  <2> DEFINE t == TurnStarted(session)
  <2>1. Decided(t)
    BY <1>9 DEF StartTurn
  <2>2. Sound(t, asked)
    BY <1>1, <1>9, TurnStartSound DEF StartTurn, Ready, Calm, Batchless, Going, Stable
  <2>3. /\ t.calls = session.calls /\ t.mail = session.mail /\ t.step = session.step
        /\ t.turn = session.turns + 1 /\ t.turns = session.turns + 1
    BY <1>1, StartFields
  <2> HIDE DEF t
  <2>4. t.turn <= t.turns
    BY <1>3, <2>3
  <2> QED
    BY <1>2, <2>1, <2>2, <2>3, <2>4, DecidedKeeps
<1> QED
  BY <1>5, <1>6, <1>7, <1>8, <1>9

LEMMA MadeShape ==
    ASSUME NEW reply \in Replies, NEW spoilt \in BOOLEAN
    PROVE  /\ Made(reply, spoilt) \in Seq(CallShapes) /\ Len(Made(reply, spoilt)) = Len(reply)
           /\ Len(reply) \in Nat
           /\ (reply = <<>>) <=> (Made(reply, spoilt) = <<>>)
<1>1. /\ reply \in Seq([tool : Tools, rejected : BOOLEAN]) /\ Len(reply) \in Nat
      /\ DOMAIN reply = 1 .. Len(reply)
      /\ \A k \in 1 .. Len(reply) : reply[k] \in [tool : Tools, rejected : BOOLEAN]
  <2> DEFINE S == [tool : Tools, rejected : BOOLEAN]
  <2>1. reply \in Seq(S)
    BY MenuAssumption
  <2> HIDE DEF S
  <2>2. Len(reply) \in Nat /\ DOMAIN reply = 1 .. Len(reply)
    BY <2>1, LenProperties
  <2>3. \A k \in 1 .. Len(reply) : reply[k] \in S
    BY <2>1, ElementOfSeq
  <2> QED
    BY <2>1, <2>2, <2>3 DEF S
<1> DEFINE call(k) == [tool |-> reply[k].tool, rejected |-> spoilt \/ reply[k].rejected]
<1>2. \A k \in 1 .. Len(reply) : call(k) \in CallShapes
  BY <1>1 DEF CallShapes
<1>3. Made(reply, spoilt) = [k \in 1 .. Len(reply) |-> call(k)]
  BY <1>1 DEF Made
<1> HIDE DEF call
<1>4. Made(reply, spoilt) \in [1 .. Len(reply) -> CallShapes]
  BY <1>2, <1>3
<1>5. Made(reply, spoilt) \in Seq(CallShapes) /\ Len(Made(reply, spoilt)) = Len(reply)
  BY <1>1, <1>4
<1>6. \A q \in Seq(CallShapes) : (q = <<>>) <=> (Len(q) = 0)
  BY EmptySeq
<1>7. (reply = <<>>) <=> (Len(reply) = 0)
  BY <1>1, EmptySeq
<1> QED
  BY <1>1, <1>5, <1>6, <1>7

(* A response, or a failed request, in place of the open step. *)
LEMMA AnsweredKeeps ==
    ASSUME TurnInvariant, Sound(session', asked'),
           DOMAIN session.calls \subseteq DOMAIN session'.calls,
           session'.mail \subseteq session.mail \cup session.step.consumed,
           session'.step = NoStep, session'.turn \in {session.turn, 0},
           session'.turns = session.turns, place' \in {"top", "dispatch"},
           accepted' = accepted, seen' = seen, queue' = queue, live' = live, sent' = sent,
           orphan' = orphan
    PROVE  TurnInvariant'
<1>1. TasksKnown /\ MailKnown /\ session \in Sessions
  BY InvariantParts
<1>2. TasksKnown'
  <2>1. place' \in Places /\ place' # "results"
    BY DEF Places
  <2>2. sent' \subseteq live' /\ orphan' \subseteq live'
    BY <1>1 DEF TasksKnown
  <2> QED
    BY <1>1, <2>1, <2>2, TasksStay
<1>3. MailKnown'
  <2>1. session.turns \in Nat
    BY <1>1 DEF Sessions
  <2> QED
    BY <1>1, <2>1 DEF MailKnown, NoStep
<1>4. PlaceFits(place', session')
  BY DEF PlaceFits
<1> QED
  BY <1>2, <1>3, <1>4 DEF TurnInvariant

LEMMA ConversesKeeps ==
    ASSUME TurnInvariant, NEW reply \in Replies, Converses(reply)
    PROVE  TurnInvariant'
<1>1. /\ session \in Sessions /\ Sound(session, asked) /\ PlaceFits(place, session)
      /\ Fits(session, asked) /\ Transcript(session, asked) /\ TalkGoesOn(session)
  BY InvariantParts
<1> DEFINE made == Made(reply, FALSE)
           s == StepCompleted(session, made)
           t == TurnFinished(s, "Finished")
           over == reply = <<>> /\ Outstanding(session) = {}
<1>2. /\ made \in Seq(CallShapes) /\ Len(made) = Len(reply)
      /\ (reply = <<>>) <=> (made = <<>>)
  BY MadeShape
<1>3. /\ place = "model" /\ session.step.purpose = "Conversation"
      /\ Len(session.calls) + Len(reply) <= MaxCalls
      /\ session' = IF over THEN t ELSE s
      /\ place' \in {"top", "dispatch"} /\ asked' = asked /\ accepted' = accepted
      /\ seen' = seen /\ queue' = queue /\ live' = live /\ sent' = sent /\ orphan' = orphan
  BY DEF Converses, Answered
<1> HIDE DEF made
<1>4. session.step # NoStep
  BY <1>1, <1>3 DEF PlaceFits
<1>5. Len(session.calls) + Len(made) <= MaxCalls
  BY <1>2, <1>3
<1>6. /\ s \in Sessions /\ s.step = NoStep /\ s.mail = session.mail /\ s.turn = session.turn
      /\ s.turns = session.turns
  BY <1>1, <1>2, <1>5, CompleteFields
<1>7. DOMAIN session.calls \subseteq DOMAIN s.calls
  BY <1>1, <1>2, <1>5, NewCalls DEF Transcript, CallsKnown
<1>8. CASE over
  <2>1. Transcript(s, asked) /\ Fits(s, asked)
    <3>1. session.step.purpose # "Compaction" /\ session.step.purpose \in Purposes
      BY <1>3 DEF Purposes
    <3> QED
      BY <1>1, <1>2, <1>4, <1>5, <3>1, CompletedTranscript, CompletedFits
  <2>2. asked \in 0 .. Len(s.entries)
    BY <2>1 DEF Fits
  <2> HIDE DEF s
  <2>3. Sound(t, asked)
    BY <1>6, <2>1, <2>2, TurnEndSound
  <2>4. /\ t.calls = s.calls /\ t.mail = s.mail /\ t.step = NoStep /\ t.turn = 0
        /\ t.turns = s.turns
    BY <1>6, EndFields
  <2>5. session' = t
    BY <1>3, <1>8
  <2> HIDE DEF t
  <2> QED
    BY <1>3, <1>6, <1>7, <2>3, <2>4, <2>5, AnsweredKeeps
<1>9. CASE ~over
  <2>1. Sound(s, asked)
    <3>1. session.step.purpose # "Compaction"
      BY <1>3
    <3>2. made # <<>> \/ Outstanding(session) # {}
      BY <1>2, <1>9
    <3> QED
      BY <1>1, <1>2, <1>4, <1>5, <3>1, <3>2, CompletedSound
  <2>2. session' = s
    BY <1>3, <1>9
  <2> HIDE DEF s
  <2> QED
    BY <1>3, <1>6, <1>7, <2>1, <2>2, AnsweredKeeps
<1> QED
  BY <1>8, <1>9

(* A document, or the lack of one, applied. *)
LEMMA WithDocumentIs ==
    ASSUME TurnInvariant, Transition
    PROVE  \E from, to : /\ MayApply(session, from, to)
                         /\ IsApplied(session, WithDocument(session), from, to, session.noticed)
<1>1. session \in Sessions /\ Fits(session, asked) /\ Transcript(session, asked)
  BY InvariantParts
<1>2. ASSUME NEW from, NEW to
      PROVE  ContextApplied(session, from, to) = Applied(session, from, to, session.noticed)
  <2> DEFINE kept == KeptOver(session, from, to)
             pending == Told(session.pending, kept, kept)
             entries == Retained(SubSeq(session.entries, from + 1, to), session.mail)
                          \o Entry("carried", Unfinished(session))
             generation == session.generation + 1
             u == [session EXCEPT
                     !.pending = pending, !.entries = entries, !.generation = generation,
                     !.step = NoStep, !.batch = {}, !.anchored = FALSE, !.failure = "none",
                     !.failures = 0, !.retry = TRUE, !.context = NoContext]
  <2>1. ContextApplied(session, from, to) = u
    BY DEF ContextApplied, KeptOver
  <2> HIDE DEF kept, pending, entries, generation
  <2>2. u = [u EXCEPT !.noticed = session.noticed]
    BY <1>1 DEF Sessions
  <2> HIDE DEF u
  <2> QED
    BY <2>1, <2>2 DEF Applied
<1>3. session.noticed \in BOOLEAN
  BY <1>1 DEF Sessions
<1>4. session.context.purpose = session.step.purpose
  BY <1>1 DEF Transition, Fits
<1>5. CASE session.context.purpose = "Compaction"
  <2> DEFINE from == session.context.keep
             to   == session.context.source
  <2>1. WithDocument(session) = ContextApplied(session, from, to)
    BY <1>5 DEF WithDocument
  <2>2. from \in Nat /\ to \in Nat /\ to <= Len(session.entries)
    <3>1. to = Len(session.entries)
      BY <1>1, <1>5 DEF Transcript, KeepsWhole
    <3> QED
      BY <1>1, <3>1 DEF Sessions, ContextShapes
  <2>3. MayApply(session, from, to)
    BY <1>4, <1>5, <2>2 DEF MayApply
  <2> QED
    BY <1>2, <1>3, <2>1, <2>3 DEF IsApplied
<1>6. CASE session.context.purpose # "Compaction"
  <2>1. WithDocument(session) = ContextApplied(session, 0, 0)
    BY <1>6 DEF WithDocument
  <2>2. 0 <= Len(session.entries)
    BY <1>1, SessionParts
  <2>3. MayApply(session, 0, 0)
    BY <2>2 DEF MayApply
  <2> QED
    BY <1>2, <1>3, <2>1, <2>3 DEF IsApplied
<1> QED
  BY <1>5, <1>6

LEMMA WithoutDocumentIs ==
    ASSUME NEW s \in Sessions
    PROVE  MayApply(s, 0, 0) /\ IsApplied(s, WithoutDocument(s), 0, 0, TRUE)
<1>1. 0 <= Len(s.entries)
  BY SessionParts
<1> QED
  BY <1>1 DEF MayApply, IsApplied, WithoutDocument, Applied

LEMMA TransitionKeeps ==
    ASSUME TurnInvariant, ApplyWithoutDocument \/ DocumentWritten
    PROVE  TurnInvariant'
<1>1. /\ session \in Sessions /\ Sound(session, asked) /\ Fits(session, asked)
      /\ Transcript(session, asked) /\ TalkGoesOn(session) /\ MailKnown
  BY InvariantParts
<1>2. PICK from, to, noticed :
        /\ MayApply(session, from, to)
        /\ IsApplied(session, session', from, to, noticed) /\ noticed \in {session.noticed, TRUE}
  <2>1. CASE ApplyWithoutDocument
    <3>1. session' = WithoutDocument(session)
      BY <2>1 DEF ApplyWithoutDocument, Decided
    <3> QED
      BY <1>1, <3>1, WithoutDocumentIs
  <2>2. CASE DocumentWritten
    <3>1. session' = WithDocument(session) /\ Transition
      BY <2>2 DEF DocumentWritten, Answered
    <3> QED
      BY <3>1, WithDocumentIs
  <2> QED
    BY <2>1, <2>2
<1>3. asked' = 0 /\ accepted' = accepted
  BY DEF ApplyWithoutDocument, DocumentWritten, Answered
<1>4. Sound(session', asked')
  BY <1>1, <1>2, <1>3, AppliedSound
<1>5. /\ session'.calls = session.calls /\ session'.mail = session.mail
      /\ session'.step = NoStep /\ session'.turn = session.turn /\ session'.turns = session.turns
  BY <1>1, <1>2, AppliedFields
<1>6. CASE ApplyWithoutDocument
  <2>1. Decided(session')
    BY <1>6 DEF ApplyWithoutDocument, Decided
  <2>2. session'.turn <= session'.turns
    BY <1>1, <1>5 DEF MailKnown
  <2> QED
    BY <1>3, <1>4, <1>5, <2>1, <2>2, DecidedKeeps
<1>7. CASE DocumentWritten
  <2>1. /\ place' = "top"
        /\ seen' = seen /\ queue' = queue /\ live' = live /\ sent' = sent /\ orphan' = orphan
    BY <1>7 DEF DocumentWritten, Answered
  <2> QED
    BY <1>3, <1>4, <1>5, <2>1, AnsweredKeeps
<1> QED
  BY <1>6, <1>7

LEMMA DocumentInvalidKeeps ==
    ASSUME TurnInvariant, NEW reply \in Replies, DocumentInvalid(reply)
    PROVE  TurnInvariant'
<1>1. /\ session \in Sessions /\ Sound(session, asked) /\ Fits(session, asked)
      /\ Transcript(session, asked) /\ TalkGoesOn(session)
  BY InvariantParts
<1> DEFINE made == Made(reply, TRUE)
           s    == StepCompleted(session, made)
           cs   == Len(session.calls) + 1 .. Len(s.calls)
           t    == ToolsFailed(s, cs)
           last == session.context.attempts + 1 >= ContextLimit
<1>2. /\ made \in Seq(CallShapes) /\ Len(made) = Len(reply)
      /\ (reply = <<>>) <=> (made = <<>>)
  BY MadeShape
<1>3. /\ session.step.purpose \in {"Compaction", "Handoff"}
      /\ reply = <<>> \/ session.step.purpose = "Handoff"
      /\ Len(session.calls) + Len(reply) <= MaxCalls
      /\ session' = IF last THEN WithoutDocument(session) ELSE t
      /\ place' = "top" /\ asked' = (IF last THEN 0 ELSE asked) /\ accepted' = accepted
      /\ seen' = seen /\ queue' = queue /\ live' = live /\ sent' = sent /\ orphan' = orphan
  BY DEF DocumentInvalid, Transition
<1> HIDE DEF made, last, cs
<1>4. session.step # NoStep
  BY <1>3 DEF NoStep
<1>5. Len(session.calls) + Len(made) <= MaxCalls
  BY <1>2, <1>3
<1>6. CASE last
  <2>1. session' = WithoutDocument(session) /\ asked' = 0
    BY <1>3, <1>6
  <2>2. MayApply(session, 0, 0) /\ IsApplied(session, session', 0, 0, TRUE)
    BY <1>1, <2>1, WithoutDocumentIs
  <2>3. Sound(session', asked')
    BY <1>1, <2>1, <2>2, AppliedSound
  <2>4. /\ session'.calls = session.calls /\ session'.mail = session.mail
        /\ session'.step = NoStep /\ session'.turn = session.turn /\ session'.turns = session.turns
    BY <1>1, <2>2, AppliedFields
  <2> QED
    BY <1>3, <2>3, <2>4, AnsweredKeeps
<1>7. CASE ~last
  <2>1. /\ s \in Sessions /\ s.step = NoStep /\ s.mail = session.mail /\ s.turn = session.turn
        /\ s.turns = session.turns
    BY <1>1, <1>2, <1>5, CompleteFields
  <2>2. DOMAIN session.calls \subseteq DOMAIN s.calls
    BY <1>1, <1>2, <1>5, NewCalls DEF Transcript, CallsKnown
  <2>3. Sound(s, asked)
    <3>1. /\ session.step.purpose = "Compaction" => made = <<>>
          /\ session.step.purpose # "Conversation"
      BY <1>2, <1>3
    <3> QED
      BY <1>1, <1>2, <1>4, <1>5, <3>1, CompletedSound
  <2> HIDE DEF s
  <2>4. Sound(t, asked)
    BY <2>3, FailedSound
  <2>5. /\ t.calls = s.calls /\ t.mail = s.mail /\ t.step = s.step /\ t.turn = s.turn
        /\ t.turns = s.turns
    BY <2>1, FailedFields
  <2>6. session' = t /\ asked' = asked
    BY <1>3, <1>7
  <2> HIDE DEF t
  <2> QED
    BY <1>3, <2>1, <2>2, <2>4, <2>5, <2>6, AnsweredKeeps
<1> QED
  BY <1>6, <1>7

LEMMA FailStepKeeps ==
    ASSUME TurnInvariant, NEW error \in {"overflow", "document", "other"},
           NEW retryable \in BOOLEAN, FailStep(error, retryable)
    PROVE  TurnInvariant'
<1>1. session \in Sessions /\ Sound(session, asked) /\ PlaceFits(place, session)
  BY InvariantParts
<1>2. /\ place = "model" /\ (error = "document" => session.step.purpose # "Conversation")
      /\ session' = StepFailed(session, error, retryable)
      /\ place' = "top" /\ asked' = asked /\ accepted' = accepted
      /\ seen' = seen /\ queue' = queue /\ live' = live /\ sent' = sent /\ orphan' = orphan
  BY DEF FailStep, ghosts
<1>3. session.step # NoStep
  BY <1>1, <1>2 DEF PlaceFits
<1>4. Sound(session', asked')
  BY <1>1, <1>2, <1>3, FailStepSound
<1>5. HasFailed(session, session')
  BY <1>1, <1>2, FailFields
<1>6. /\ session'.calls = session.calls /\ session'.step = NoStep
      /\ session'.mail \subseteq session.mail \cup session.step.consumed
      /\ session'.turn = session.turn /\ session'.turns = session.turns
  BY <1>5 DEF HasFailed
<1> QED
  BY <1>2, <1>4, <1>6, AnsweredKeeps

LEMMA StopStepKeeps ==
    ASSUME TurnInvariant, StopStep
    PROVE  TurnInvariant'
<1>1. session \in Sessions /\ Sound(session, asked) /\ PlaceFits(place, session)
  BY InvariantParts
<1>2. /\ place = "cancelling" /\ session' = StepInterrupted(session, FALSE)
      /\ place' = "top" /\ asked' = asked /\ accepted' = accepted
      /\ seen' = seen /\ queue' = queue /\ live' = live /\ sent' = sent /\ orphan' = orphan
  BY DEF StopStep, ghosts
<1>3. Sound(session', asked')
  BY <1>1, <1>2, InterruptSound DEF PlaceFits
<1>4. /\ session'.calls = session.calls /\ session'.step = NoStep
      /\ session'.mail = session.mail
      /\ session'.turn = session.turn /\ session'.turns = session.turns
  BY <1>1, <1>2, InterruptFields
<1> QED
  BY <1>2, <1>3, <1>4, AnsweredKeeps

LEMMA DispatchKeeps ==
    ASSUME TurnInvariant, DispatchBatch
    PROVE  TurnInvariant'
<1>1. /\ session \in Sessions /\ Sound(session, asked) /\ IsNoted(session, session)
      /\ TasksKnown /\ MailKnown /\ session.batch \subseteq DOMAIN session.calls
  BY InvariantParts, SameNoted DEF Transcript, CallsKnown
<1>2. /\ place' = "top" /\ live' = live \cup session.batch /\ session' = session
      /\ seen' = seen /\ queue' = queue /\ sent' = sent /\ orphan' = orphan
      /\ accepted' = accepted /\ asked' = asked
  BY DEF DispatchBatch, ghosts
<1>3. TasksKnown'
  BY <1>1, <1>2 DEF TasksKnown, Places
<1>4. PlaceFits(place', session')
  BY <1>2 DEF PlaceFits
<1>5. session.mail \subseteq accepted /\ accepted \subseteq Input
  BY <1>1 DEF MailKnown
<1> QED
  BY <1>1, <1>2, <1>3, <1>4, <1>5, NotedKeeps

(* What a step begins with, and what it leaves. *)
LEMMA Begun ==
    ASSUME NEW purpose \in Purposes, NEW placeholders \in BOOLEAN,
           NEW told \in SUBSET (Input \cup Calls), session \in Sessions,
           Begin(purpose, placeholders, told)
    PROVE  /\ IsStarted(session, session', purpose, placeholders, told)
           /\ asked' = Len(session'.entries)
<1> DEFINE s == StepStarted(session, purpose, placeholders, told)
<1>1. s \in Sessions /\ IsStarted(session, s, purpose, placeholders, told)
  <2>1. IsStarted(session, s, purpose, placeholders, told)
    BY StepFields
  <2> HIDE DEF s
  <2> QED
    BY <2>1 DEF IsStarted
<1>2. /\ IF purpose = "Compaction" /\ session.context = NoContext
         THEN \E n \in Retentions(s.entries) : session' = [s EXCEPT !.context.keep = n]
         ELSE session' = s
      /\ asked' = Len(s.entries)
  BY DEF Begin
<1> HIDE DEF s
<1>3. Len(s.entries) \in Nat
  BY <1>1, SessionParts
<1>4. CASE purpose = "Compaction" /\ session.context = NoContext
  <2>1. PICK n \in Retentions(s.entries) : session' = [s EXCEPT !.context.keep = n]
    BY <1>2, <1>4
  <2>2. n \in 0 .. Len(s.entries) /\ (n = Len(s.entries) \/ OpenCalls(s.entries, n) = {})
    BY <1>3 DEF Retentions
  <2>3. n \in Nat /\ s.context \in ContextShapes
    BY <1>1, <1>3, <2>2 DEF Sessions
  <2> DEFINE context == [s.context EXCEPT !.keep = n]
  <2>4. /\ context \in ContextShapes /\ context.purpose = s.context.purpose
        /\ context.attempts = s.context.attempts /\ context.source = s.context.source
        /\ context.keep = n
    BY <2>3 DEF ContextShapes
  <2>5. session' = [s EXCEPT !.context = context]
    BY <2>1
  <2> HIDE DEF context
  <2>6. /\ session' \in Sessions
        /\ session'.context = context /\ session'.mail = s.mail /\ session'.entries = s.entries
        /\ session'.pending = s.pending /\ session'.waitFor = s.waitFor
        /\ session'.noticed = s.noticed /\ session'.step = s.step
        /\ session'.turn = s.turn /\ session'.turns = s.turns /\ session'.cancel = s.cancel
        /\ session'.calls = s.calls /\ session'.batch = s.batch
        /\ session'.failures = s.failures /\ session'.outcome = s.outcome
        /\ session'.generation = s.generation
    BY <1>1, <2>4, <2>5 DEF Sessions
  <2>7. First(session, purpose)
    BY <1>4 DEF First
  <2>8. IsStarted(session, session', purpose, placeholders, told)
    BY <1>1, <2>2, <2>4, <2>6, <2>7 DEF IsStarted
  <2> QED
    BY <1>2, <2>6, <2>8
<1>5. CASE ~ (purpose = "Compaction" /\ session.context = NoContext)
  <2>1. session' = s
    BY <1>2, <1>5
  <2> QED
    BY <1>1, <1>2, <2>1
<1> QED
  BY <1>4, <1>5

(* A step that begins now, and why a conversation has something to say. *)
Starts(purpose, placeholders, told) ==
  /\ Begin(purpose, placeholders, told) /\ MayStart(session, purpose, placeholders, told)
  /\ session.step = NoStep /\ session.context.attempts < ContextLimit
  /\ session.turn # 0 /\ ~session.cancel
  /\ purpose = "Conversation" =>
       \/ session.noticed
       \/ EndSucceeded(session)
       \/ LastResponse(session, 0) # 0 /\ ResponseCalls(session, 0) = {}
            => told = Outstanding(session)

LEMMA BeginKeeps ==
    ASSUME TurnInvariant, NEW purpose, NEW placeholders, NEW told,
           Starts(purpose, placeholders, told)
    PROVE  /\ IsStarted(session, session', purpose, placeholders, told)
           /\ TurnInvariant'
<1>1. /\ session \in Sessions /\ Sound(session, asked) /\ Fits(session, asked)
      /\ Transcript(session, asked) /\ TalkGoesOn(session) /\ TasksKnown /\ MailKnown
  BY InvariantParts
<1>0. /\ Begin(purpose, placeholders, told) /\ MayStart(session, purpose, placeholders, told)
      /\ session.step = NoStep /\ session.context.attempts < ContextLimit
  BY DEF Starts
<1>2. /\ purpose \in Purposes /\ placeholders \in BOOLEAN /\ told \subseteq Outstanding(session)
  BY <1>0 DEF MayStart
<1>3. told \in SUBSET (Input \cup Calls)
  <2>1. Unfinished(session) \subseteq Calls /\ session.mail \subseteq Input
    BY <1>1, SessionParts DEF Unfinished, Sessions
  <2> QED
    BY <1>2, <2>1 DEF Outstanding
<1>4. /\ IsStarted(session, session', purpose, placeholders, told)
      /\ asked' = Len(session'.entries)
  BY <1>0, <1>1, <1>2, <1>3, Begun
<1>5. Sound(session', asked')
  BY <1>0, <1>1, <1>4, StartedSound
<1>6. /\ place' = "model" /\ seen' = {} /\ queue' = queue /\ live' = live /\ sent' = sent
      /\ orphan' = orphan /\ accepted' = accepted
  BY <1>0 DEF Begin
<1>7. /\ session'.mail \subseteq session.mail /\ session'.step.consumed \subseteq session.mail
      /\ session'.step.purpose = purpose /\ session'.calls = session.calls
      /\ session'.turn = session.turn /\ session'.turns = session.turns
  BY <1>4 DEF IsStarted, ConsumedBy
<1>8. TasksKnown'
  <2>1. sent' \subseteq live' /\ orphan' \subseteq live' /\ "model" \in Places
    BY <1>1, <1>6 DEF TasksKnown, Places
  <2> QED
    BY <1>1, <1>6, <1>7, <2>1, TasksStay
<1>9. MailKnown'
  BY <1>1, <1>6, <1>7 DEF MailKnown
<1>10. PlaceFits(place', session')
  <2>1. session'.step # NoStep
    BY <1>2, <1>7 DEF Purposes, NoStep
  <2> QED
    BY <1>6, <2>1 DEF PlaceFits
<1> QED
  BY <1>4, <1>5, <1>8, <1>9, <1>10 DEF TurnInvariant

(* Why each of the runner's steps may begin. *)
LEMMA RescueStarts ==
    ASSUME Rescue
    PROVE  Starts("Compaction", TRUE, {})
<1>1. /\ session.step = NoStep /\ session.context = NoContext /\ session.turn # 0
      /\ ~session.cancel /\ Begin("Compaction", TRUE, {})
  BY DEF Rescue, Retrying, Batchless, Going, Stable
<1>2. session.context.attempts < ContextLimit
  BY <1>1, LimitsAssumption DEF NoContext
<1>3. MayStart(session, "Compaction", TRUE, {})
  BY <1>1 DEF MayStart, Purposes
<1> QED
  BY <1>1, <1>2, <1>3 DEF Starts

LEMMA RetryStarts ==
    ASSUME TurnInvariant, Retry
    PROVE  \E purpose : Starts(purpose, TRUE, {})
<1> DEFINE purpose == IF session.context = NoContext THEN "Conversation"
                      ELSE session.context.purpose
<1>1. Fits(session, asked) /\ PlaceFits(place, session) /\ session \in Sessions
  BY InvariantParts
<1>2. place = "backoff" /\ Begin(purpose, TRUE, {})
  BY DEF Retry
<1>3. session.step = NoStep /\ session.failures > 0 /\ session.turn # 0 /\ ~session.cancel
  BY <1>1, <1>2 DEF PlaceFits
<1>4. session.context.attempts < ContextLimit
  <2>1. /\ session.context.attempts <= ContextLimit
        /\ session.context.attempts = ContextLimit => session.failures = 0
    BY <1>1 DEF Fits
  <2>2. session.failures # 0 /\ session.context.attempts \in Nat /\ ContextLimit \in Nat
    BY <1>1, <1>3, LimitsAssumption DEF Sessions, ContextShapes
  <2> QED
    BY <2>1, <2>2
<1>5. MayStart(session, purpose, TRUE, {})
  <2>1. session.context # NoContext => session.context.purpose \in {"Compaction", "Handoff"}
    BY <1>1 DEF Fits, Sessions, ContextShapes
  <2>2. session.context = NoContext => purpose = "Conversation"
    OBVIOUS
  <2>3. session.context # NoContext => purpose = session.context.purpose
    OBVIOUS
  <2> HIDE DEF purpose
  <2> QED
    BY <2>1, <2>2, <2>3 DEF MayStart, Purposes
<1>6. session.noticed
  BY <1>1, <1>3 DEF Fits
<1> HIDE DEF purpose
<1> QED
  BY <1>2, <1>3, <1>4, <1>5, <1>6 DEF Starts

LEMMA ContinueStarts ==
    ASSUME TurnInvariant, ContinueContext
    PROVE  \E purpose : Starts(purpose, TRUE, {})
<1> DEFINE purpose == session.context.purpose
<1>1. Fits(session, asked) /\ session \in Sessions
  BY InvariantParts
<1>2. /\ session.step = NoStep /\ session.context # NoContext
      /\ session.turn # 0 /\ ~session.cancel
      /\ session.context.attempts < ContextLimit /\ Begin(purpose, TRUE, {})
  BY DEF ContinueContext, InTurn, Ready, Calm, Batchless, Going, Stable
<1>3. session.context.purpose \in {"Compaction", "Handoff"}
  BY <1>1, <1>2 DEF Fits, Sessions, ContextShapes
<1>4. MayStart(session, purpose, TRUE, {}) /\ purpose # "Conversation"
  BY <1>2, <1>3 DEF MayStart, Purposes
<1> HIDE DEF purpose
<1> QED
  BY <1>2, <1>4 DEF Starts

LEMMA ConversationStarts ==
    ASSUME TurnInvariant, TellOutstanding \/ PrepareContext \/ Converse
    PROVE  \E purpose, placeholders, told : Starts(purpose, placeholders, told)
<1>1. session.step = NoStep /\ session.context = NoContext /\ session.turn # 0 /\ ~session.cancel
  BY DEF TellOutstanding, PrepareContext, Converse, Conversing, InTurn, Ready, Calm, Batchless,
         Going, Stable
<1>2. session.context.attempts < ContextLimit
  BY <1>1, LimitsAssumption DEF NoContext
<1>3. CASE TellOutstanding
  <2>1. Begin("Conversation", TRUE, Outstanding(session)) /\ EndSucceeded(session)
    BY <1>3 DEF TellOutstanding
  <2>2. MayStart(session, "Conversation", TRUE, Outstanding(session))
    BY <1>1, <2>1 DEF MayStart, Purposes, EndSucceeded
  <2> QED
    BY <1>1, <1>2, <2>1, <2>2 DEF Starts
<1>4. CASE PrepareContext
  <2>1. PICK purpose \in Strategies : Begin(purpose, TRUE, {})
    BY <1>4 DEF PrepareContext
  <2>2. purpose \in {"Compaction", "Handoff"}
    BY MenuAssumption
  <2>3. MayStart(session, purpose, TRUE, {})
    BY <1>1, <2>2 DEF MayStart, Purposes
  <2> QED
    BY <1>1, <1>2, <2>1, <2>2, <2>3 DEF Starts
<1>5. CASE Converse
  <2> DEFINE told == IF LastResponse(session, 0) # 0 /\ ResponseCalls(session, 0) = {}
                     THEN Outstanding(session) ELSE {}
             placeholders == Fresh(session) # {}
  <2>1. Begin("Conversation", placeholders, told)
    BY <1>5 DEF Converse
  <2>2. /\ told \subseteq Outstanding(session) /\ (told # {} => ResponseCalls(session, 0) = {})
        /\ LastResponse(session, 0) # 0 /\ ResponseCalls(session, 0) = {}
             => told = Outstanding(session)
    OBVIOUS
  <2>3. placeholders \in BOOLEAN /\ (placeholders \/ Fresh(session) = {})
    OBVIOUS
  <2> HIDE DEF told, placeholders
  <2>4. MayStart(session, "Conversation", placeholders, told)
    BY <1>1, <2>2, <2>3 DEF MayStart, Purposes
  <2> QED
    BY <1>1, <1>2, <2>1, <2>2, <2>4 DEF Starts
<1> QED
  BY <1>3, <1>4, <1>5

LEMMA StepsStart ==
    ASSUME TurnInvariant,
           Rescue \/ Retry \/ ContinueContext \/ TellOutstanding \/ PrepareContext \/ Converse
    PROVE  \E purpose, placeholders, told : Starts(purpose, placeholders, told)
BY RescueStarts, RetryStarts, ContinueStarts, ConversationStarts

LEMMA NextKeeps == TurnInvariant /\ [Next]_vars => TurnInvariant'
<1> SUFFICES ASSUME TurnInvariant, [Next]_vars PROVE TurnInvariant'
  OBVIOUS
<1>1. CASE Decides
  <2>1. CASE InterruptStep \/ InterruptTools \/ FinishCancelled \/ EndAutoWait \/ GiveUp
               \/ ReachWait \/ StartTurn \/ FinishTurn
    BY <2>1, DecidesKeep
  <2>2. CASE ParkInBatch \/ Park \/ BackOff
    BY <2>2, LoopKeeps
  <2>3. CASE Rescue \/ ContinueContext \/ TellOutstanding \/ PrepareContext \/ Converse
    BY <2>3, StepsStart, BeginKeeps
  <2>4. CASE ApplyWithoutDocument
    BY <2>4, TransitionKeeps
  <2> QED
    BY <1>1, <2>1, <2>2, <2>3, <2>4 DEF Decides
<1>2. CASE Completes
  <2>1. CASE \E reply \in Replies : Converses(reply) \/ DocumentInvalid(reply)
    BY <2>1, ConversesKeeps, DocumentInvalidKeeps
  <2>2. CASE DocumentWritten
    BY <2>2, TransitionKeeps
  <2>3. CASE \E error \in {"overflow", "document", "other"}, retryable \in BOOLEAN :
               FailStep(error, retryable)
    BY <2>3, FailStepKeeps
  <2> QED
    BY <1>2, <2>1, <2>2, <2>3 DEF Completes
<1>3. CASE TakeSnapshot \/ DeadlineWakes
  BY <1>3, LoopKeeps
<1>4. CASE Retry \/ StopStep \/ DispatchBatch
  BY <1>4, StepsStart, BeginKeeps, StopStepKeeps, DispatchKeeps
<1>5. CASE Activate \/ Crash \/ RunnerFails
  BY <1>5, CrashKeeps
<1>6. CASE \E q \in queue : PersistResult(q[1], q[2])
  BY <1>6, ResultKeeps
<1>7. CASE \E i \in Input : ReceiveInput(i)
  BY <1>7, ReceiveKeeps
<1>8. CASE CancelTurn
  BY <1>8, CancelKeeps
<1>9. CASE \E c \in Calls : ToolEnds(c) \/ ToolLeaves(c)
  BY <1>9, ToolsKeep
<1>10. CASE UNCHANGED vars
  <2>1. /\ session' = session /\ place' = place /\ seen' = seen /\ queue' = queue
        /\ live' = live /\ sent' = sent /\ orphan' = orphan /\ accepted' = accepted
        /\ asked' = asked
    BY <1>10 DEF vars, taskVars, ghosts
  <2> QED
    BY <2>1 DEF TurnInvariant, TasksKnown, MailKnown
<1> QED
  BY <1>1, <1>2, <1>3, <1>4, <1>5, <1>6, <1>7, <1>8, <1>9, <1>10 DEF Next, Runs

(* The transcript of a turn, and all that the decisions rest on, are kept *)
(* by every step of the runner, its tools and its crashes.                *)
THEOREM TurnInvariantHolds == Spec => []TurnInvariant
BY InitKeeps, NextKeeps, PTL DEF Spec

-----------------------------------------------------------------------------
(***************************************************************************)
(* What follows for the properties of the run.                             *)
(***************************************************************************)

(* Every variable keeps its type. *)
THEOREM TypesHold == Spec => []TypeOK
<1>1. ASSUME TurnInvariant
      PROVE  TypeOK
  <2>1. /\ session \in Sessions /\ Fits(session, asked) /\ CallsKnown(session)
        /\ TasksKnown /\ MailKnown
    BY <1>1, InvariantParts DEF Transcript
  <2>2. session.mail \subseteq accepted /\ accepted \subseteq Input
        /\ session.turn \in 0 .. session.turns /\ session.step.consumed \subseteq accepted
    BY <2>1 DEF MailKnown, Sessions
  <2>3. /\ session.failures \in Nat /\ session.cancel \in BOOLEAN /\ session.retry \in BOOLEAN
        /\ session.outcome \in {"None", "Finished", "Failed", "Cancelled"}
        /\ session.failure \in {"none", "overflow", "document", "other"}
    BY <2>1 DEF Sessions, Outcomes, Failures
  <2>4. session.step.purpose \in Purposes \cup {"none"}
    BY <2>1 DEF Sessions, StepShapes
  <2>5. /\ session.context.purpose \in {"none", "Compaction", "Handoff"}
        /\ session.context.attempts \in 0 .. ContextLimit
        /\ session.context.keep \in 0 .. session.context.source
        /\ session.context.source \in 0 .. Len(session.entries)
    <3>1. session.context \in ContextShapes
      BY <2>1 DEF Sessions
    <3>2. /\ session.context.purpose \in {"none", "Compaction", "Handoff"}
          /\ session.context.attempts \in Nat /\ session.context.keep \in Nat
          /\ session.context.source \in Nat
      BY <3>1 DEF ContextShapes
    <3>3. Len(session.entries) \in Nat /\ ContextLimit \in Nat
      BY <2>1, SessionParts, LimitsAssumption
    <3> QED
      BY <2>1, <3>2, <3>3 DEF Fits
  <2>6. \A c \in DOMAIN session.calls : session.calls[c].tool \in Tools
    <3>1. session.calls \in Seq(CallShapes) /\ DOMAIN session.calls = 1 .. Len(session.calls)
      BY <2>1, SessionParts
    <3>2. \A c \in DOMAIN session.calls : session.calls[c] \in CallShapes
      BY <3>1, ElementOfSeq
    <3> QED
      BY <3>2 DEF CallShapes
  <2>7. /\ DOMAIN session.pending \subseteq DOMAIN session.calls
        /\ session.batch \subseteq DOMAIN session.calls
        /\ session.waitFor \in 0 .. Len(session.calls)
    <3>1. session.waitFor \in Nat /\ Len(session.calls) \in Nat
      BY <2>1, SessionParts DEF Sessions
    <3> QED
      BY <2>1, <3>1 DEF CallsKnown
  <2>8. \A i \in DOMAIN session.entries : session.entries[i].kind \in EntryKinds
    BY <2>1, SessionParts
  <2> QED
    BY <2>1, <2>2, <2>3, <2>4, <2>5, <2>6, <2>7, <2>8 DEF TypeOK, TasksKnown, Places
<1> QED
  BY <1>1, TurnInvariantHolds, PTL

(* Every request is a legal transcript: each call of a response is answered *)
(* once, before the next response, and nothing else is answered.            *)
THEOREM TranscriptsAreLegal == Spec => []TranscriptLegal
<1>1. ASSUME TurnInvariant
      PROVE  TranscriptLegal
  <2> SUFFICES ASSUME session.step # NoStep
               PROVE  /\ \A i \in Responses : \A c \in session.entries[i].of :
                           IF c \in session.entries[i].closed THEN Answers(c) = {}
                           ELSE \E j \in Answers(c) :
                                  /\ Answers(c) = {j} /\ i < j
                                  /\ \A k \in Responses : ~(i < k /\ k < j)
                      /\ \A c \in DOMAIN session.calls :
                           Answers(c) # {} => \E i \in Responses : c \in session.entries[i].of
    BY DEF TranscriptLegal
  <2>1. session \in Sessions /\ Fits(session, asked) /\ Transcript(session, asked)
    BY <1>1, InvariantParts
  <2>2. Fresh(session) = {}
    BY <2>1, Requested
  <2>3. \A c : Answers(c) = {j \in DOMAIN session.entries : Answer(session, j, c)}
    BY DEF Answers, Answer
  <2>4. \A i : i \in Responses <=> Response(session, i)
    BY DEF Responses, Response
  <2>5. ASSUME NEW i \in Responses, NEW c \in session.entries[i].of
        PROVE  IF c \in session.entries[i].closed THEN Answers(c) = {}
               ELSE \E j \in Answers(c) :
                      /\ Answers(c) = {j} /\ i < j
                      /\ \A k \in Responses : ~(i < k /\ k < j)
    <3>1. Response(session, i) /\ i \in DOMAIN session.entries
      BY <2>4 DEF Responses
    <3>2. IF c \in session.entries[i].closed
          THEN \A j \in DOMAIN session.entries : ~ Answer(session, j, c)
          ELSE Paired(session, i, c)
      BY <2>1, <2>2, <3>1 DEF Transcript, AnswersFit
    <3>3. CASE c \in session.entries[i].closed
      BY <2>3, <3>2, <3>3
    <3>4. CASE c \notin session.entries[i].closed
      <4>1. PICK j \in DOMAIN session.entries :
              /\ Answer(session, j, c) /\ i < j
              /\ \A k \in DOMAIN session.entries : Answer(session, k, c) => k = j
              /\ \A k \in DOMAIN session.entries : Response(session, k) => ~(i < k /\ k < j)
        BY <3>2, <3>4 DEF Paired
      <4>2. Answers(c) = {j}
        BY <2>3, <4>1
      <4>3. \A k \in Responses : ~(i < k /\ k < j)
        BY <2>4, <4>1 DEF Responses
      <4> QED
        BY <3>4, <4>1, <4>2, <4>3
    <3> QED
      BY <3>3, <3>4
  <2>6. ASSUME NEW c \in DOMAIN session.calls, Answers(c) # {}
        PROVE  \E i \in Responses : c \in session.entries[i].of
    <3>1. PICK j \in DOMAIN session.entries : Answer(session, j, c)
      BY <2>3, <2>6
    <3>2. PICK i \in DOMAIN session.entries : Response(session, i) /\ c \in session.entries[i].of
      BY <2>1, <3>1 DEF Transcript, NothingAnsweredUnasked
    <3> QED
      BY <2>4, <3>2
  <2> QED
    BY <2>5, <2>6
<1> QED
  BY <1>1, TurnInvariantHolds, PTL

(* A tool is declared interrupted only when it is not in the executor's *)
(* table and no result of it waits: snapshot, drain, decision.          *)
THEOREM NothingRunningIsInterrupted == Spec => NoFalseInterruption
<1> DEFINE A == \A c \in Unfinished(session) :
                  session.step = NoStep /\ place = "results" /\ place' = "top"
                    /\ c \in Finished(session')
                    => c \notin live /\ \A q \in queue : q[1] # c
<1>1. TurnInvariant /\ [Next]_vars => [A]_vars
  <2> SUFFICES ASSUME TurnInvariant, Next, NEW c \in Unfinished(session),
                      session.step = NoStep, place = "results", place' = "top",
                      c \in Finished(session')
               PROVE  c \notin live /\ \A q \in queue : q[1] # c
    OBVIOUS
  <2>1. /\ session \in Sessions /\ TasksKnown
        /\ c \in DOMAIN session.pending /\ session.pending[c].result = "none"
    BY InvariantParts DEF Unfinished
  <2>2. c \in DOMAIN session'.pending /\ session'.pending[c].result # "none"
    BY DEF Finished, Unfinished
  <2>3. CASE InterruptTools
    <3>1. queue = {} /\ session' = ToolsFailed(session, Lost)
      BY <2>3 DEF InterruptTools, Deciding, Decided
    <3>2. c \in Lost
      <4>1. session.pending \in Pendings /\ session'.pending = WithFailed(session.pending, Lost)
        BY <2>1, <3>1, SessionParts, FailedFields
      <4> QED
        BY <2>1, <2>2, <4>1, FailedShape
    <3>3. live \subseteq seen
      BY <2>1 DEF TasksKnown
    <3> QED
      BY <3>1, <3>2, <3>3 DEF Lost
  <2>4. CASE FinishCancelled \/ GiveUp \/ FinishTurn
    <3>1. PICK outcome \in {"Finished", "Failed", "Cancelled"} :
            session' = TurnFinished(session, outcome)
      BY <2>4 DEF FinishCancelled, GiveUp, FinishTurn, Decided
    <3>2. /\ session'.pending
               = Restricted(session.pending, DOMAIN session.pending \ Terminal(session))
          /\ session.pending \in Pendings
      BY <2>1, <3>1, EndFields, SessionParts
    <3>3. session'.pending[c] = session.pending[c]
      <4> DEFINE S == DOMAIN session.pending \ Terminal(session)
      <4>1. /\ DOMAIN Restricted(session.pending, S) = DOMAIN session.pending \cap S
            /\ \A d \in DOMAIN session.pending \cap S :
                 Restricted(session.pending, S)[d] = session.pending[d]
        BY <3>2, RestrictedShape
      <4> HIDE DEF S
      <4>2. session'.pending = Restricted(session.pending, S)
        BY <3>2 DEF S
      <4> QED
        BY <2>2, <4>1, <4>2
    <3> QED
      BY <2>1, <2>2, <3>3
  <2>5. CASE EndAutoWait \/ ReachWait
    <3>1. session'.pending = session.pending
      BY <2>1, <2>5 DEF EndAutoWait, ReachWait, Decided, AutoWaitEnded, Sessions
    <3> QED
      BY <2>1, <2>2, <3>1
  <2>6. CASE StartTurn
    <3>1. session'.pending = session.pending
      BY <2>1, <2>6, StartFields DEF StartTurn, Decided
    <3> QED
      BY <2>1, <2>2, <3>1
  <2>7. CASE ApplyWithoutDocument
    <3>1. session' = WithoutDocument(session)
      BY <2>7 DEF ApplyWithoutDocument, Decided
    <3>2. MayApply(session, 0, 0) /\ IsApplied(session, session', 0, 0, TRUE)
      BY <2>1, <3>1, WithoutDocumentIs
    <3>3. session'.pending[c].result = session.pending[c].result
      BY <2>1, <2>2, <3>2, AppliedPending
    <3> QED
      BY <2>1, <2>2, <3>3
  <2>8. CASE InterruptStep
    BY <2>8 DEF InterruptStep
  <2>9. CASE \/ ParkInBatch \/ Park \/ BackOff \/ Rescue \/ ContinueContext \/ TellOutstanding
             \/ PrepareContext \/ Converse
    <3>1. place' # "top"
      BY <2>9 DEF ParkInBatch, Park, BackOff, Rescue, ContinueContext, TellOutstanding,
                  PrepareContext, Converse, Begin
    <3> QED
      BY <3>1
  <2>10. CASE Decides
    BY <2>3, <2>4, <2>5, <2>6, <2>7, <2>8, <2>9, <2>10 DEF Decides
  <2>11. ~Decides => FALSE
    <3>1. CASE Completes
      BY <3>1 DEF Completes, Converses, DocumentInvalid, DocumentWritten, FailStep, Transition
    <3>2. CASE TakeSnapshot \/ DeadlineWakes \/ Retry \/ StopStep \/ DispatchBatch \/ Activate
      BY <3>2 DEF TakeSnapshot, DeadlineWakes, Retry, StopStep, DispatchBatch, Activate
    <3>3. CASE \E q \in queue : PersistResult(q[1], q[2])
      BY <3>3 DEF PersistResult, Woken
    <3>4. CASE \E i \in Input : ReceiveInput(i)
      BY <3>4 DEF ReceiveInput, Receiving
    <3>5. CASE CancelTurn
      BY <3>5 DEF CancelTurn, Receiving
    <3>6. CASE \E d \in Calls : ToolEnds(d) \/ ToolLeaves(d)
      BY <3>6 DEF ToolEnds, ToolLeaves
    <3>7. CASE Crash \/ RunnerFails
      BY <3>7 DEF Crash, RunnerFails, Down
    <3> QED
      BY <3>1, <3>2, <3>3, <3>4, <3>5, <3>6, <3>7 DEF Next, Runs
  <2> QED
    BY <2>10, <2>11
<1>2. Spec => [][A]_vars
  BY <1>1, TurnInvariantHolds, PTL DEF Spec
<1> QED
  BY <1>2 DEF NoFalseInterruption

(* What a step may do to the entries. *)
Stays ==
  /\ session'.entries = session.entries /\ session'.generation = session.generation
  /\ session'.step \in {session.step, NoStep}
Ends(s, t) == \E outcome \in {"Finished", "Failed", "Cancelled"} : t = TurnFinished(s, outcome)
Responds ==
  /\ session.step # NoStep
  /\ \E made \in Seq(CallShapes) :
       /\ Len(session.calls) + Len(made) <= MaxCalls
       /\ session.step.purpose = "Compaction" => made = <<>>
       /\ LET s == StepCompleted(session, made) IN
            session' = s \/ (\E cs : session' = ToolsFailed(s, cs)) \/ Ends(s, session')
Applies ==
  \E from, to, noticed :
    MayApply(session, from, to) /\ IsApplied(session, session', from, to, noticed)

LEMMA ResponseIs ==
    ASSUME TurnInvariant, NEW reply \in Replies, Converses(reply) \/ DocumentInvalid(reply)
    PROVE  Responds \/ Applies
<1>1. session \in Sessions /\ PlaceFits(place, session)
  BY InvariantParts
<1>2. place = "model"
  BY DEF Converses, DocumentInvalid, Transition
<1>3. session.step # NoStep
  BY <1>1, <1>2 DEF PlaceFits
<1>4. CASE Converses(reply)
  <2> DEFINE made == Made(reply, FALSE)
  <2>1. made \in Seq(CallShapes) /\ Len(made) = Len(reply)
    BY MadeShape
  <2>2. /\ session.step.purpose = "Conversation" /\ Len(session.calls) + Len(reply) <= MaxCalls
        /\ \/ session' = StepCompleted(session, made)
           \/ session' = TurnFinished(StepCompleted(session, made), "Finished")
    BY <1>4 DEF Converses, Answered
  <2> HIDE DEF made
  <2> QED
    BY <1>3, <2>1, <2>2 DEF Responds, Ends
<1>5. CASE DocumentInvalid(reply)
  <2> DEFINE made == Made(reply, TRUE)
             s    == StepCompleted(session, made)
             cs   == Len(session.calls) + 1 .. Len(s.calls)
  <2>1. /\ made \in Seq(CallShapes) /\ Len(made) = Len(reply)
        /\ (reply = <<>>) <=> (made = <<>>)
    BY MadeShape
  <2>2. /\ Len(session.calls) + Len(reply) <= MaxCalls
        /\ reply = <<>> \/ session.step.purpose = "Handoff"
        /\ session' = WithoutDocument(session) \/ session' = ToolsFailed(s, cs)
    BY <1>5 DEF DocumentInvalid
  <2>3. CASE session' = WithoutDocument(session)
    BY <1>1, <2>3, WithoutDocumentIs DEF Applies
  <2>4. CASE session' = ToolsFailed(s, cs)
    <3> HIDE DEF made, cs
    <3>1. session.step.purpose = "Compaction" => made = <<>>
      BY <2>1, <2>2
    <3>2. Len(session.calls) + Len(made) <= MaxCalls
      BY <2>1, <2>2
    <3>3. \E x : session' = ToolsFailed(StepCompleted(session, made), x)
      BY <2>4
    <3> QED
      BY <1>3, <2>1, <3>1, <3>2, <3>3 DEF Responds
  <2> QED
    BY <2>2, <2>3, <2>4
<1> QED
  BY <1>4, <1>5

LEMMA StepIs ==
    ASSUME TurnInvariant, [Next]_vars
    PROVE  \/ Stays \/ Ends(session, session') \/ Responds \/ Applies
           \/ \E purpose, placeholders, told : Starts(purpose, placeholders, told)
<1>1. session \in Sessions /\ TasksKnown /\ PlaceFits(place, session)
  BY InvariantParts
<1>2. CASE Decides
  <2>1. CASE FinishCancelled \/ GiveUp \/ FinishTurn
    BY <2>1 DEF FinishCancelled, GiveUp, FinishTurn, Decided, Ends
  <2>2. CASE InterruptStep
    BY <1>1, <2>2, InterruptFields DEF InterruptStep, Decided, Stays
  <2>3. CASE InterruptTools
    BY <1>1, <2>3, FailedFields DEF InterruptTools, Decided, Stays
  <2>4. CASE StartTurn
    BY <1>1, <2>4, StartFields DEF StartTurn, Decided, Stays
  <2>5. CASE EndAutoWait \/ ReachWait
    BY <1>1, <2>5 DEF EndAutoWait, ReachWait, AutoWaitEnded, Decided, Stays, Sessions
  <2>6. CASE ParkInBatch \/ Park \/ BackOff
    BY <2>6 DEF ParkInBatch, Park, BackOff, Stays
  <2>7. CASE Rescue \/ ContinueContext \/ TellOutstanding \/ PrepareContext \/ Converse
    BY <2>7, StepsStart
  <2>8. CASE ApplyWithoutDocument
    <3>1. session' = WithoutDocument(session)
      BY <2>8 DEF ApplyWithoutDocument, Decided
    <3> QED
      BY <1>1, <3>1, WithoutDocumentIs DEF Applies
  <2> QED
    BY <1>2, <2>1, <2>2, <2>3, <2>4, <2>5, <2>6, <2>7, <2>8 DEF Decides
<1>3. CASE Completes
  <2>1. CASE \E reply \in Replies : Converses(reply) \/ DocumentInvalid(reply)
    BY <2>1, ResponseIs
  <2>2. CASE DocumentWritten
    <3>1. session' = WithDocument(session) /\ Transition
      BY <2>2 DEF DocumentWritten, Answered
    <3> QED
      BY <3>1, WithDocumentIs DEF Applies
  <2>3. CASE \E error \in {"overflow", "document", "other"}, retryable \in BOOLEAN :
               FailStep(error, retryable)
    <3>1. PICK error \in {"overflow", "document", "other"}, retryable \in BOOLEAN :
            session' = StepFailed(session, error, retryable)
      BY <2>3 DEF FailStep
    <3>2. HasFailed(session, session')
      BY <1>1, <3>1, FailFields
    <3> QED
      BY <3>2 DEF HasFailed, Stays
  <2> QED
    BY <1>3, <2>1, <2>2, <2>3 DEF Completes
<1>4. CASE StopStep
  BY <1>1, <1>4, InterruptFields DEF StopStep, Stays
<1>5. CASE TakeSnapshot \/ DeadlineWakes \/ DispatchBatch \/ Activate \/ Crash
  BY <1>5 DEF TakeSnapshot, DeadlineWakes, DispatchBatch, Activate, Crash, Stays
<1>6. CASE Retry
  BY <1>6, StepsStart
<1>7. CASE RunnerFails \/ CancelTurn \/ \E i \in Input : ReceiveInput(i)
  BY <1>1, <1>7 DEF RunnerFails, CancelTurn, ReceiveInput, InputAppended, Stays, Sessions
<1>8. CASE \E q \in queue : PersistResult(q[1], q[2])
  <2>1. PICK q \in queue : PersistResult(q[1], q[2])
    BY <1>8
  <2>2. PICK earlier \in BOOLEAN : session' = ToolResult(session, q[1], q[2], earlier)
    BY <2>1 DEF PersistResult
  <2>3. q[1] \in DOMAIN session.calls /\ q[2] \in {"ok", "bad"}
    BY <1>1 DEF TasksKnown
  <2> QED
    BY <1>1, <2>2, <2>3, ResultFields DEF Stays
<1>9. CASE \E c \in Calls : ToolEnds(c) \/ ToolLeaves(c)
  BY <1>9 DEF ToolEnds, ToolLeaves, Stays
<1>10. CASE UNCHANGED vars
  BY <1>10 DEF vars, Stays
<1> QED
  BY <1>2, <1>3, <1>4, <1>5, <1>6, <1>7, <1>8, <1>9, <1>10 DEF Next, Runs

(* The end of a turn closes calls of the last response only, after what a *)
(* request held.                                                          *)
LEMMA ClosedPrefix ==
    ASSUME NEW s \in Sessions, NEW a, Transcript(s, a), a \in 0 .. Len(s.entries)
    PROVE  /\ Len(Closed(s)) = Len(s.entries)
           /\ \A i \in 1 .. a : Closed(s)[i] = s.entries[i]
<1>1. Len(s.entries) \in Nat /\ DOMAIN s.entries = 1 .. Len(s.entries)
  BY SessionParts
<1>2. CallsApart(s) /\ FreshIsLast(s, a)
  BY DEF Transcript
<1>3. Terminal(s) \subseteq Fresh(s)
  BY DEF Terminal
<1>4. ASSUME NEW i \in 1 .. a
      PROVE  Closed(s)[i] = s.entries[i]
  <2>1. i \in DOMAIN s.entries /\ i <= a
    BY <1>1
  <2>2. s.entries[i] \in EntryShapes
    BY <2>1, SessionParts
  <2>3. CASE s.entries[i].kind = "assistant"
    <3>1. Terminal(s) \cap s.entries[i].of = {}
      <4>1. CASE Fresh(s) = {}
        BY <1>3, <4>1
      <4>2. CASE Fresh(s) # {}
        <5>1. /\ a < Len(s.entries) /\ Response(s, Len(s.entries))
              /\ Fresh(s) \subseteq s.entries[Len(s.entries)].of
          BY <1>2, <4>2 DEF FreshIsLast
        <5>2. i # Len(s.entries) /\ Len(s.entries) \in DOMAIN s.entries
          BY <1>1, <2>1, <5>1 DEF Response
        <5>3. s.entries[i].of \cap s.entries[Len(s.entries)].of = {}
          BY <1>2, <2>1, <2>3, <5>1, <5>2 DEF CallsApart, Response
        <5> QED
          BY <1>3, <5>1, <5>3
      <4> QED
        BY <4>1, <4>2
    <3>2. Closed(s)[i] = [s.entries[i] EXCEPT !.closed = @ \cup (Terminal(s) \cap s.entries[i].of)]
      BY <2>1, <2>3 DEF Closed
    <3>3. s.entries[i].closed \cup (Terminal(s) \cap s.entries[i].of) = s.entries[i].closed
      BY <3>1
    <3> DEFINE e == s.entries[i]
    <3>4. e = [e EXCEPT !.closed = e.closed]
      BY <2>2 DEF EntryShapes
    <3> QED
      BY <3>2, <3>3, <3>4
  <2>4. CASE s.entries[i].kind # "assistant"
    BY <2>1, <2>4 DEF Closed
  <2> QED
    BY <2>3, <2>4
<1> QED
  BY <1>4, ClosedShape

(* An end changes the entries only by closing calls. *)
LEMMA EndsShape ==
    ASSUME NEW s \in Sessions, NEW t, Ends(s, t)
    PROVE  t.entries = Closed(s) /\ t.generation = s.generation
<1>1. PICK outcome \in {"Finished", "Failed", "Cancelled"} : t = TurnFinished(s, outcome)
  BY DEF Ends
<1> DEFINE u == TurnFinished(s, outcome)
<1>2. u.entries = Closed(s) /\ u.generation = s.generation
  BY EndFields
<1> QED
  BY <1>1, <1>2

(* What a request of a generation held is never changed or taken away in *)
(* that generation.                                                      *)
THEOREM PrefixIsStable == Spec => PrefixStable
<1> DEFINE A == session'.generation = session.generation =>
                  /\ Len(session'.entries) >= Len(session.entries)
                  /\ \A i \in 1 .. asked : session'.entries[i] = session.entries[i]
<1>1. TurnInvariant /\ [Next]_vars => [A]_vars
  <2> SUFFICES ASSUME TurnInvariant, [Next]_vars, session'.generation = session.generation
               PROVE  /\ Len(session'.entries) >= Len(session.entries)
                      /\ \A i \in 1 .. asked : session'.entries[i] = session.entries[i]
    OBVIOUS
  <2>1. /\ session \in Sessions /\ Fits(session, asked) /\ Transcript(session, asked)
        /\ Len(session.entries) \in Nat /\ asked \in 0 .. Len(session.entries)
    BY InvariantParts, SessionParts DEF Fits
  <2>2. CASE Stays
    BY <2>1, <2>2 DEF Stays
  <2>3. CASE Ends(session, session')
    <3>1. session'.entries = Closed(session)
      BY <2>1, <2>3, EndsShape
    <3> QED
      BY <2>1, <3>1, ClosedPrefix
  <2>4. CASE Responds
    <3>1. PICK made \in Seq(CallShapes) :
            /\ Len(session.calls) + Len(made) <= MaxCalls
            /\ session.step.purpose = "Compaction" => made = <<>>
            /\ LET s == StepCompleted(session, made) IN
                 session' = s \/ (\E cs : session' = ToolsFailed(s, cs)) \/ Ends(s, session')
      BY <2>4 DEF Responds
    <3> DEFINE s == StepCompleted(session, made)
    <3>2. s \in Sessions
      BY <2>1, <3>1, CompleteFields
    <3>3. /\ Len(s.entries) >= Len(session.entries)
          /\ \A i \in 1 .. Len(session.entries) : s.entries[i] = session.entries[i]
      <4>1. CASE session.step.purpose = "Compaction"
        <5>1. s.entries = session.entries
          BY <2>1, <3>1, <4>1, CompleteFields
        <5> QED
          BY <2>1, <5>1
      <4>2. CASE session.step.purpose # "Compaction"
        <5> DEFINE e == [kind |-> "assistant",
                         of |-> Len(session.calls) + 1 .. Len(session.calls) + Len(made),
                         closed |-> {}]
        <5>1. s.entries = Append(session.entries, e) /\ e \in EntryShapes
          <6>1. /\ s.entries = Append(session.entries, e)
                /\ Len(session.calls) + 1 .. Len(session.calls) + Len(made) \subseteq Calls
            BY <2>1, <3>1, <4>2, CompleteFields
          <6> QED
            BY <6>1 DEF EntryShapes, EntryKinds
        <5> HIDE DEF e
        <5>2. session.entries \in Seq(EntryShapes)
          BY <2>1, SessionParts
        <5> QED
          BY <2>1, <5>1, <5>2, AppendProperties
      <4> QED
        BY <4>1, <4>2
    <3>4. Transcript(s, asked) /\ Fits(s, asked)
      <4>1. session.step.purpose \in Purposes /\ session.step # NoStep
        BY <2>1, <2>4, Requested DEF Responds
      <4> QED
        BY <2>1, <3>1, <4>1, CompletedTranscript, CompletedFits
    <3>5. session' = s \/ (\E cs : session' = ToolsFailed(s, cs)) \/ Ends(s, session')
      BY <3>1
    <3> HIDE DEF s
    <3>6. /\ Len(session'.entries) = Len(s.entries)
          /\ \A i \in 1 .. asked : session'.entries[i] = s.entries[i]
      <4>1. CASE session' = s
        BY <4>1
      <4>2. CASE \E cs : session' = ToolsFailed(s, cs)
        BY <3>2, <4>2, FailedFields
      <4>3. CASE Ends(s, session')
        <5>1. session'.entries = Closed(s)
          BY <3>2, <4>3, EndsShape
        <5>2. asked \in 0 .. Len(s.entries)
          BY <3>4 DEF Fits
        <5> QED
          BY <3>2, <3>4, <5>1, <5>2, ClosedPrefix
      <4> QED
        BY <3>5, <4>1, <4>2, <4>3
    <3> QED
      BY <2>1, <3>3, <3>6
  <2>5. CASE Applies
    <3>1. session'.generation = session.generation + 1 /\ session.generation \in Nat
      BY <2>1, <2>5, AppliedFields DEF Applies, Sessions
    <3> QED
      BY <3>1
  <2>6. CASE \E purpose, placeholders, told : Starts(purpose, placeholders, told)
    <3>1. PICK purpose, placeholders, told : Starts(purpose, placeholders, told)
      BY <2>6
    <3>2. /\ IsStarted(session, session', purpose, placeholders, told)
          /\ MayStart(session, purpose, placeholders, told)
      BY <3>1, BeginKeeps DEF Starts
    <3>3. /\ Len(session.entries) <= Len(session'.entries)
          /\ Len(session'.entries) \in Nat /\ DOMAIN session.entries = 1 .. Len(session.entries)
          /\ \A i \in DOMAIN session.entries : session'.entries[i] = session.entries[i]
      <4>1. Adds(session, session', Saying(session, purpose, placeholders, told))
        BY <2>1, <3>2, StartedEntries
      <4> QED
        BY <4>1 DEF Adds
    <3> QED
      BY <2>1, <3>3
  <2> QED
    BY <2>2, <2>3, <2>4, <2>5, <2>6, StepIs
<1>2. Spec => [][A]_vars
  BY <1>1, TurnInvariantHolds, PTL DEF Spec
<1> QED
  BY <1>2 DEF PrefixStable

(* Only a context transition takes entries away. *)
LEMMA GenerationKept ==
    ASSUME TurnInvariant, [Next]_vars, session'.generation # session.generation
    PROVE  Applies
<1>1. session \in Sessions
  BY InvariantParts
<1>2. ~Stays
  BY DEF Stays
<1>3. ~Ends(session, session')
  BY <1>1, EndsShape
<1>4. ~Responds
  <2> SUFFICES ASSUME Responds PROVE FALSE
    OBVIOUS
  <2>1. PICK made \in Seq(CallShapes) :
          /\ Len(session.calls) + Len(made) <= MaxCalls
          /\ LET s == StepCompleted(session, made) IN
               session' = s \/ (\E cs : session' = ToolsFailed(s, cs)) \/ Ends(s, session')
    BY DEF Responds
  <2> DEFINE s == StepCompleted(session, made)
  <2>2. s \in Sessions /\ s.generation = session.generation
    BY <1>1, <2>1, CompleteFields
  <2>3. session' = s \/ (\E cs : session' = ToolsFailed(s, cs)) \/ Ends(s, session')
    BY <2>1
  <2> HIDE DEF s
  <2>4. session'.generation = s.generation
    <3>1. ASSUME NEW cs, session' = ToolsFailed(s, cs) PROVE session'.generation = s.generation
      <4> DEFINE u == ToolsFailed(s, cs)
      <4>1. u.generation = s.generation
        BY <2>2, FailedFields
      <4> QED
        BY <3>1, <4>1
    <3>2. Ends(s, session') => session'.generation = s.generation
      BY <2>2, EndsShape
    <3> QED
      BY <2>3, <3>1, <3>2
  <2> QED
    BY <2>2, <2>4
<1>5. \A purpose, placeholders, told : ~ Starts(purpose, placeholders, told)
  <2> SUFFICES ASSUME NEW purpose, NEW placeholders, NEW told, Starts(purpose, placeholders, told)
               PROVE  FALSE
    OBVIOUS
  <2>1. IsStarted(session, session', purpose, placeholders, told)
    BY BeginKeeps
  <2> QED
    BY <2>1 DEF IsStarted
<1> QED
  BY <1>2, <1>3, <1>4, <1>5, StepIs

(* A context transition loses only the document: work that is not finished *)
(* is carried and named, what was not shown in the entries kept is told    *)
(* again, and the mailbox keeps its inputs, once.                          *)
THEOREM ContextLosesNoWork == Spec => ContextKeepsWork
<1> DEFINE A == session'.generation # session.generation =>
                  /\ session'.mail = session.mail
                  /\ session.mail \cap ShownIn(session'.entries, {"inputs"}) = {}
                  /\ \A c \in Unfinished(session) :
                       c \in Unfinished(session') /\ c \in ShownIn(session'.entries, {"carried"})
                  /\ \A c \in Finished(session) :
                       (c \in Finished(session'))
                         # (c \in ShownIn(session'.entries, {"direct", "notified"}))
<1>1. TurnInvariant /\ [Next]_vars => [A]_vars
  <2> SUFFICES ASSUME TurnInvariant, [Next]_vars, session'.generation # session.generation
               PROVE  /\ session'.mail = session.mail
                      /\ session.mail \cap ShownIn(session'.entries, {"inputs"}) = {}
                      /\ \A c \in Unfinished(session) :
                           /\ c \in Unfinished(session')
                           /\ c \in ShownIn(session'.entries, {"carried"})
                      /\ \A c \in Finished(session) :
                           (c \in Finished(session'))
                             # (c \in ShownIn(session'.entries, {"direct", "notified"}))
    OBVIOUS
  <2>1. session \in Sessions
    BY InvariantParts
  <2>2. PICK from, to, noticed :
          MayApply(session, from, to) /\ IsApplied(session, session', from, to, noticed)
    BY GenerationKept DEF Applies
  <2>3. session'.mail = session.mail
    BY <2>1, <2>2, AppliedFields
  <2>4. PICK n, at : Window(session, session', from, to, n, at)
    BY <2>1, <2>2, AppliedEntries
  <2>5. /\ Unfinished(session') = Unfinished(session)
        /\ Finished(session') = Finished(session)
             \ ShownIn(SubSeq(session.entries, from + 1, to), {"direct", "notified"})
    BY <2>1, <2>2, AppliedPending
  <2>6. /\ \A k \in DOMAIN session'.entries :
             k \in 1 .. n \/ (k = n + 1 /\ Unfinished(session) # {})
        /\ \A k \in 1 .. n : k \in DOMAIN session'.entries
        /\ Unfinished(session) # {} =>
             n + 1 \in DOMAIN session'.entries /\ session'.entries[n + 1].kind = "carried"
               /\ session'.entries[n + 1].of = Unfinished(session)
    BY <2>4 DEF Window
  <2>7. \A k \in 1 .. n :
          /\ at[k] \in from + 1 .. to /\ at[k] \in DOMAIN session.entries
          /\ session'.entries[k].kind = session.entries[at[k]].kind
          /\ session'.entries[k].kind # "inputs" =>
               session'.entries[k].of = session.entries[at[k]].of
          /\ session'.entries[k].kind = "inputs" =>
               session'.entries[k].of \cap session.mail = {}
    BY <2>4 DEF Window
  <2>8. \A i \in from + 1 .. to : session.entries[i].kind # "inputs" => \E k \in 1 .. n : at[k] = i
    BY <2>4 DEF Window
  <2>9. session.mail \cap ShownIn(session'.entries, {"inputs"}) = {}
    <3> SUFFICES ASSUME NEW x \in session.mail, NEW k \in DOMAIN session'.entries,
                        session'.entries[k].kind = "inputs", x \in session'.entries[k].of
                 PROVE  FALSE
      BY DEF ShownIn
    <3>1. k \in 1 .. n
      BY <2>6
    <3> QED
      BY <2>7, <3>1
  <2>10. ASSUME NEW c \in Unfinished(session)
         PROVE  c \in Unfinished(session') /\ c \in ShownIn(session'.entries, {"carried"})
    BY <2>5, <2>6 DEF ShownIn
  <2>11. \A c : c \in ShownIn(session'.entries, {"direct", "notified"}) <=>
           c \in ShownIn(SubSeq(session.entries, from + 1, to), {"direct", "notified"})
    <3> TAKE c
    <3>1. c \in ShownIn(SubSeq(session.entries, from + 1, to), {"direct", "notified"}) <=>
            \E i \in from + 1 .. to :
              session.entries[i].kind \in {"direct", "notified"} /\ c \in session.entries[i].of
      <4>1. from \in Nat /\ to \in Nat /\ to <= Len(session.entries)
        BY <2>2 DEF MayApply
      <4>2. \A x : x \in ShownIn(SubSeq(session.entries, from + 1, to), {"direct", "notified"}) <=>
              \E i \in from + 1 .. to :
                session.entries[i].kind \in {"direct", "notified"} /\ x \in session.entries[i].of
        <5>1. ShowsBetween(session, from, to, {"direct", "notified"})
          BY <2>1, <4>1, WindowShown
        <5> QED
          BY <5>1 DEF ShowsBetween
      <4> QED
        BY <4>2
    <3>2. c \in ShownIn(session'.entries, {"direct", "notified"}) <=>
            \E k \in DOMAIN session'.entries :
              session'.entries[k].kind \in {"direct", "notified"} /\ c \in session'.entries[k].of
      BY DEF ShownIn
    <3>3. ASSUME NEW k \in DOMAIN session'.entries,
                 session'.entries[k].kind \in {"direct", "notified"}, c \in session'.entries[k].of
          PROVE  \E i \in from + 1 .. to :
                   session.entries[i].kind \in {"direct", "notified"} /\ c \in session.entries[i].of
      <4>1. k \in 1 .. n
        BY <2>6, <3>3
      <4> QED
        BY <2>7, <3>3, <4>1
    <3>4. ASSUME NEW i \in from + 1 .. to,
                 session.entries[i].kind \in {"direct", "notified"}, c \in session.entries[i].of
          PROVE  \E k \in DOMAIN session'.entries :
                   /\ session'.entries[k].kind \in {"direct", "notified"}
                   /\ c \in session'.entries[k].of
      <4>1. PICK k \in 1 .. n : at[k] = i
        BY <2>8, <3>4
      <4> QED
        BY <2>6, <2>7, <3>4, <4>1
    <3> QED
      BY <3>1, <3>2, <3>3, <3>4
  <2>12. ASSUME NEW c \in Finished(session)
         PROVE  (c \in Finished(session'))
                  # (c \in ShownIn(session'.entries, {"direct", "notified"}))
    BY <2>5, <2>11
  <2> QED
    BY <2>3, <2>9, <2>10, <2>12
<1>2. Spec => [][A]_vars
  BY <1>1, TurnInvariantHolds, PTL DEF Spec
<1> QED
  BY <1>2 DEF ContextKeepsWork

(* A request to converse is made by a step that starts, at a place where *)
(* none was open.                                                         *)
LEMMA ConversationIsStarted ==
    ASSUME TurnInvariant, [Next]_vars, session.step = NoStep,
           session'.step.purpose = "Conversation"
    PROVE  \E placeholders, told : Starts("Conversation", placeholders, told)
<1>1. session \in Sessions
  BY InvariantParts
<1>2. session'.step # NoStep
  BY DEF NoStep
<1>3. ~Stays
  BY <1>2 DEF Stays
<1>4. ~Ends(session, session')
  <2> SUFFICES ASSUME Ends(session, session') PROVE FALSE
    OBVIOUS
  <2>1. PICK outcome \in {"Finished", "Failed", "Cancelled"} :
          session' = TurnFinished(session, outcome)
    BY DEF Ends
  <2> DEFINE u == TurnFinished(session, outcome)
  <2>2. u.step = NoStep
    BY <1>1, EndFields
  <2> QED
    BY <1>2, <2>1, <2>2
<1>5. ~Responds
  BY DEF Responds
<1>6. ~Applies
  <2> SUFFICES ASSUME Applies PROVE FALSE
    OBVIOUS
  <2>1. PICK from, to, noticed :
          MayApply(session, from, to) /\ IsApplied(session, session', from, to, noticed)
    BY DEF Applies
  <2>2. session'.step = NoStep
    BY <1>1, <2>1, AppliedFields
  <2> QED
    BY <1>2, <2>2
<1>7. PICK purpose, placeholders, told : Starts(purpose, placeholders, told)
  BY <1>3, <1>4, <1>5, <1>6, StepIs
<1>8. session'.step.purpose = purpose
  BY <1>7, BeginKeeps DEF IsStarted
<1> QED
  BY <1>7, <1>8

(* A conversation that follows a response says something. *)
LEMMA ConversationSays ==
    ASSUME TurnInvariant, NEW placeholders, NEW told,
           Starts("Conversation", placeholders, told), ~session.noticed,
           session'.entries # <<>>,
           session'.entries[Len(session'.entries)].kind = "assistant"
    PROVE  FALSE
<1> DEFINE s == session
           t == session'
           purpose == "Conversation"
<1>1. /\ s \in Sessions /\ Fits(s, asked) /\ Transcript(s, asked) /\ TalkGoesOn(s)
      /\ MayStart(s, purpose, placeholders, told)
      /\ IsStarted(s, t, purpose, placeholders, told)
  BY InvariantParts, BeginKeeps DEF Starts
<1>2. /\ s.step = NoStep /\ s.turn # 0 /\ ~s.cancel /\ ~s.noticed
      /\ \/ EndSucceeded(s)
         \/ LastResponse(s, 0) # 0 /\ ResponseCalls(s, 0) = {} => told = Outstanding(s)
  BY DEF Starts
<1>3. s.context = NoContext
  BY <1>1 DEF MayStart
<1>4. t.entries # <<>> /\ t.entries[Len(t.entries)].kind = "assistant"
  OBVIOUS
<1> HIDE DEF s, t
<1>5. /\ Len(s.entries) \in Nat /\ DOMAIN s.entries = 1 .. Len(s.entries)
      /\ Len(t.entries) \in Nat /\ DOMAIN t.entries = 1 .. Len(t.entries)
      /\ Len(s.entries) <= Len(t.entries)
      /\ \A i \in DOMAIN s.entries : i \in DOMAIN t.entries /\ t.entries[i] = s.entries[i]
      /\ \A j \in DOMAIN t.entries : j > Len(s.entries) => t.entries[j].kind # "assistant"
  <2>1. Adds(s, t, Saying(s, purpose, placeholders, told))
    BY <1>1, StartedEntries
  <2> QED
    BY <2>1 DEF Adds
<1>20. \A x \in Saying(s, purpose, placeholders, told) : x[2] # {} =>
         \E j \in DOMAIN t.entries :
           j > Len(s.entries) /\ t.entries[j].kind = x[1] /\ t.entries[j].of = x[2]
  <2>1. Adds(s, t, Saying(s, purpose, placeholders, told))
    BY <1>1, StartedEntries
  <2> QED
    BY <2>1 DEF Adds
<1>6. Len(t.entries) \in DOMAIN t.entries
  <2>1. t \in Sessions
    BY <1>1 DEF IsStarted
  <2>2. t.entries \in Seq(EntryShapes)
    BY <2>1, SessionParts
  <2> QED
    BY <1>4, <1>5, <2>2
<1>7. Len(t.entries) = Len(s.entries)
  BY <1>4, <1>5, <1>6
<1>8. s.entries # <<>> /\ Response(s, Len(s.entries))
  <2>1. Len(s.entries) \in DOMAIN s.entries
    BY <1>5, <1>6, <1>7
  <2>2. s.entries # <<>>
    BY <2>1
  <2> QED
    BY <1>4, <1>5, <1>7, <2>1, <2>2 DEF Response
<1>9. /\ ConsumedBy(s, purpose) = {} /\ DirectOf(s, purpose) = {}
      /\ NotifiedOf(s, purpose) = {} /\ WaitingOf(s, purpose, placeholders) = {}
      /\ told \ ConsumedBy(s, purpose) = {}
  <2>1. \A x \in Saying(s, purpose, placeholders, told) : x[2] = {}
    <3>1. \A j \in DOMAIN t.entries : ~ (j > Len(s.entries))
      BY <1>5, <1>7
    <3> QED
      BY <1>20, <3>1
  <2>2. /\ <<"inputs", ConsumedBy(s, purpose)>>[2] = {}
        /\ <<"direct", DirectOf(s, purpose)>>[2] = {}
        /\ <<"notified", NotifiedOf(s, purpose)>>[2] = {}
        /\ <<"pending", WaitingOf(s, purpose, placeholders)>>[2] = {}
        /\ <<"outstanding", told \ ConsumedBy(s, purpose)>>[2] = {}
    BY <2>1 DEF Saying
  <2> QED
    BY <2>2
<1>10. s.mail = {} /\ told = {}
  BY <1>9 DEF ConsumedBy
<1>11. Fresh(s) = {}
  <2>1. Fresh(s) \subseteq DirectOf(s, purpose) \cup WaitingOf(s, purpose, placeholders)
    BY <1>1, DeliversFresh
  <2> QED
    BY <1>9, <2>1
<1>12. Finished(s) = {}
  <2>1. Deliverable(s, purpose) = DOMAIN s.pending
    BY <1>3 DEF Deliverable
  <2>2. Finished(s) \subseteq DirectOf(s, purpose) \cup NotifiedOf(s, purpose)
    BY <2>1 DEF DirectOf, NotifiedOf, Finished
  <2> QED
    BY <1>9, <2>2
<1>13. s.entries[Len(s.entries)].of = {} /\ Unfinished(s) # {}
  <2>1. Talking(s)
    BY <1>2, <1>3, <1>8 DEF Talking, NoContext
  <2>2. SomethingToSay(s)
    BY <1>1, <2>1 DEF TalkGoesOn
  <2> QED
    BY <1>2, <1>10, <1>11, <1>12, <2>2 DEF SomethingToSay
<1>14. LastResponse(s, 0) = Len(s.entries)
  BY <1>1, <1>5, <1>8, LastResponseOf DEF Response
<1>15. LastResponse(s, 0) # 0 /\ ResponseCalls(s, 0) = {}
  <2>1. Len(s.entries) # 0
    BY <1>5, <1>8 DEF Response
  <2> QED
    BY <1>13, <1>14, <2>1 DEF ResponseCalls
<1>16. ~EndSucceeded(s)
  BY <1>12 DEF EndSucceeded
<1>17. told = Outstanding(s)
  BY <1>2, <1>15, <1>16
<1> QED
  BY <1>10, <1>13, <1>17 DEF Outstanding

(* No request repeats what the model has answered: after a response there *)
(* is an entry it has not answered yet, whatever was lost in between.     *)
THEOREM NoRequestIsEmpty == Spec => RequestsSaySomething
<1> DEFINE A == session.step = NoStep /\ session'.step.purpose = "Conversation"
                  /\ ~session.noticed =>
                    \/ session'.entries = <<>>
                    \/ session'.entries[Len(session'.entries)].kind # "assistant"
<1>1. TurnInvariant /\ [Next]_vars => [A]_vars
  <2> SUFFICES ASSUME TurnInvariant, [Next]_vars, session.step = NoStep,
                      session'.step.purpose = "Conversation", ~session.noticed,
                      session'.entries # <<>>,
                      session'.entries[Len(session'.entries)].kind = "assistant"
               PROVE  FALSE
    OBVIOUS
  <2>1. PICK placeholders, told : Starts("Conversation", placeholders, told)
    BY ConversationIsStarted
  <2> QED
    BY <2>1, ConversationSays
<1>2. Spec => [][A]_vars
  BY <1>1, TurnInvariantHolds, PTL DEF Spec
<1> QED
  BY <1>2 DEF RequestsSaySomething

(* What ends a turn where the runner decides, other than FinishTurn, does *)
(* not call it finished.                                                  *)
LEMMA OnlyFinishTurn ==
    ASSUME TurnInvariant, [Next]_vars, Deciding, session'.outcome = "Finished",
           session.turn # 0, session'.turn = 0
    PROVE  FinishTurn
<1>1. session \in Sessions /\ TasksKnown
  BY InvariantParts
<1>2. place = "results"
  BY DEF Deciding
<1>3. session' # session
  OBVIOUS
<1>4. ~ (FinishCancelled \/ GiveUp)
  <2> SUFFICES ASSUME NEW outcome \in {"Failed", "Cancelled"},
                      session' = TurnFinished(session, outcome)
               PROVE  FALSE
    BY DEF FinishCancelled, GiveUp, Decided
  <2> DEFINE u == TurnFinished(session, outcome)
  <2>1. u.outcome = outcome
    BY <1>1, EndFields
  <2> QED
    BY <2>1
<1>5. ~ (InterruptStep \/ InterruptTools \/ StartTurn)
  <2>1. ~InterruptStep
    <3> DEFINE u == StepInterrupted(session, TRUE)
    <3>1. u.turn = session.turn
      BY <1>1, InterruptFields
    <3> QED
      BY <3>1 DEF InterruptStep, Decided
  <2>2. ~InterruptTools
    <3> DEFINE u == ToolsFailed(session, Lost)
    <3>1. u.turn = session.turn
      BY <1>1, FailedFields
    <3> QED
      BY <3>1 DEF InterruptTools, Decided
  <2>3. ~StartTurn
    BY DEF StartTurn
  <2> QED
    BY <2>1, <2>2, <2>3
<1>6. ~ (EndAutoWait \/ ReachWait)
  BY <1>1 DEF EndAutoWait, ReachWait, AutoWaitEnded, Decided, Sessions
<1>7. ~ (ParkInBatch \/ Park \/ BackOff)
  BY <1>3 DEF ParkInBatch, Park, BackOff
<1>8. ~ (Rescue \/ Retry \/ ContinueContext \/ TellOutstanding \/ PrepareContext \/ Converse)
  <2> SUFFICES ASSUME NEW purpose, NEW placeholders, NEW told,
                      Starts(purpose, placeholders, told)
               PROVE  FALSE
    BY StepsStart
  <2>1. session'.turn = session.turn
    BY BeginKeeps DEF IsStarted
  <2> QED
    BY <2>1
<1>9. ~ApplyWithoutDocument
  <2> SUFFICES ASSUME ApplyWithoutDocument PROVE FALSE
    OBVIOUS
  <2>1. session' = WithoutDocument(session)
    BY DEF ApplyWithoutDocument, Decided
  <2>2. PICK from, to, noticed :
          MayApply(session, from, to) /\ IsApplied(session, session', from, to, noticed)
    BY <1>1, <2>1, WithoutDocumentIs
  <2>3. session'.turn = session.turn
    BY <1>1, <2>2, AppliedFields
  <2> QED
    BY <2>3
<1>10. ~Completes
  BY <1>2 DEF Completes, Converses, DocumentInvalid, DocumentWritten, Transition, FailStep
<1>11. ~ (StopStep \/ DispatchBatch \/ Activate \/ TakeSnapshot \/ DeadlineWakes)
  BY <1>2 DEF StopStep, DispatchBatch, Activate, TakeSnapshot, DeadlineWakes
<1>12. ~ (CancelTurn \/ \E i \in Input : ReceiveInput(i))
  BY <1>2 DEF CancelTurn, ReceiveInput, Receiving
<1>13. ~ \E q \in queue : PersistResult(q[1], q[2])
  BY DEF Deciding
<1>14. ~ (Crash \/ \E c \in Calls : ToolEnds(c) \/ ToolLeaves(c))
  BY <1>3 DEF Crash, ToolEnds, ToolLeaves
<1>15. ~RunnerFails
  BY <1>1 DEF RunnerFails, Sessions
<1>16. ~UNCHANGED vars
  BY <1>3 DEF vars
<1> QED
  BY <1>4, <1>5, <1>6, <1>7, <1>8, <1>9, <1>10, <1>11, <1>12, <1>13, <1>14, <1>15, <1>16
     DEF Next, Runs, Decides

(* An end that leaves work undone finishes the turn only when the model was *)
(* told of all of it before it called end.                                  *)
THEOREM EndsAreInformed == Spec => EndIsInformed
<1> DEFINE A == Deciding /\ session'.outcome = "Finished" /\ session.turn # 0
                  /\ session'.turn = 0 =>
                    \A x \in Outstanding(session) :
                      \E i \in 1 .. LastResponse(session, 0) :
                        session.entries[i].kind = "outstanding" /\ x \in session.entries[i].of
<1>1. TurnInvariant /\ [Next]_vars => [A]_vars
  <2> SUFFICES ASSUME TurnInvariant, [Next]_vars, Deciding, session'.outcome = "Finished",
                      session.turn # 0, session'.turn = 0, NEW x \in Outstanding(session)
               PROVE  \E i \in 1 .. LastResponse(session, 0) :
                        session.entries[i].kind = "outstanding" /\ x \in session.entries[i].of
    OBVIOUS
  <2>1. session \in Sessions /\ ToldBefore(session)
    BY InvariantParts DEF Transcript
  <2>2. EndHolds
    BY OnlyFinishTurn DEF FinishTurn
  <2>3. Disclosed(session) /\ EndCall(session) \in Finished(session)
    BY <2>2 DEF EndHolds, EndSucceeded
  <2>4. PICK i \in DOMAIN session.entries :
          session.entries[i].kind = "outstanding" /\ x \in session.entries[i].of
    BY <2>3 DEF Disclosed
  <2>5. i <= LastResponse(session, 0)
    BY <2>1, <2>3, <2>4 DEF ToldBefore, Finished
  <2>6. i \in 1 .. Len(session.entries) /\ Len(session.entries) \in Nat
    BY <2>1, SessionParts
  <2>7. LastResponse(session, 0) \in Nat
    <3> DEFINE j == LastResponse(session, 0)
    <3>1. j \in 0 .. Len(session.entries)
      BY <2>1, LastResponseIs
    <3> QED
      BY <2>6, <3>1
  <2> QED
    BY <2>4, <2>5, <2>6, <2>7
<1>2. Spec => [][A]_vars
  BY <1>1, TurnInvariantHolds, PTL DEF Spec
<1> QED
  BY <1>2 DEF EndIsInformed
================================================================================
