------------------------ MODULE ChatDeliveryProofs ------------------------
(***************************************************************************)
(* What ChatDelivery keeps for any number of commands, messages and faults  *)
(* and any page size: a command's caller is told the truth, an agent takes  *)
(* each notice once and in order, nothing of a revoked preference is handed *)
(* to it after it was told so, and the cursor passes over no notice that is *)
(* still wanted.                                                            *)
(***************************************************************************)
EXTENDS ChatDelivery, SequenceTheorems, FiniteSetTheorems, WellFoundedInduction, TLAPS

(***************************************************************************)
(* The invariant.  TypeOK needs only that nothing is asked of the publisher *)
(* that was not frozen first.                                               *)
(***************************************************************************)
Given == {c \in Cmds : receipts[c].result # None}
Asked ==
    /\ \A w \in wire : out[w[1]].op # None
    /\ call.pc # "idle" => out[call.cmd].op # None
    /\ \A c \in Given : out[c].op # None
    /\ call.pc \in {"answered", "settle"} => call.answer \in Results

\* A receipt has a result exactly when the command ran, and never both a result
\* and a cancellation; what the caller holds is what the receipt says.
ReceiptsHold ==
    /\ \A c \in Cmds :
          /\ effects[c] = IF c \in Given THEN 1 ELSE 0
          /\ c \in Given => receipts[c].result.status = "preferred" /\ ~receipts[c].cancelled
          /\ out[c].result = Cancelled => out[c].op = None \/ receipts[c].cancelled
          /\ c \in Told("preferred") => receipts[c].result = out[c].result
    /\ call.pc \in {"answered", "settle"} =>
          IF call.answer = Cancelled THEN receipts[call.cmd].cancelled
          ELSE receipts[call.cmd].result = call.answer

\* Preferences of one revision are the same, none is newer than the publisher's own;
\* the policy is one of them, and at least as new as any the agent was told.
Covers(p) == policy # None /\ policy.generation >= p.revision
Same(p, q) == p.revision = q.revision => p = q
NotAfter(p, q) == p.revision <= q.revision
PreferencesAgree ==
    /\ \A c \in Given : /\ Same(receipts[c].result.prefs, prefs)
                        /\ NotAfter(receipts[c].result.prefs, prefs)
    /\ \A c, d \in Given : Same(receipts[c].result.prefs, receipts[d].result.prefs)
    /\ policy # None => \E c \in Given : policy = Policy(receipts[c].result.prefs)
    /\ \A c \in Told("preferred") : Covers(out[c].result.prefs)
    /\ (call.pc = "settle" /\ call.answer # Cancelled) => Covers(call.answer.prefs)

\* What is under way carries the generation its notice was made under.
PageHonest(page) ==
    \A i \in DOMAIN page.items :
        page.items[i].generation = notices[page.after + i].generation
MailHonest ==
    /\ \A j \in DOMAIN mailbox : mailbox[j].generation = notices[mailbox[j].sequence].generation
    /\ \A i \in DOMAIN feed.pages : PageHonest(feed.pages[i])

ChatInvariant == TypeOK /\ Asked /\ ReceiptsHold /\ PreferencesAgree /\ MailHonest

\* The publisher's notices are only added to, and keep their generation.
NoticesGrow ==
    /\ notices' \in Seq(Notices)
    /\ Len(notices') >= Len(notices)
    /\ \A k \in DOMAIN notices : notices'[k].generation = notices[k].generation

-----------------------------------------------------------------------------
(* Facts about the data. *)

LEMMA ResultShapes ==
    /\ Cancelled \in Results /\ Cancelled.status = "cancelled"
    /\ \A p \in Preferences : /\ Preferred(p) \in Results /\ Preferred(p) # Cancelled
                              /\ Preferred(p).prefs = p /\ Preferred(p).status = "preferred"
    /\ \A r \in Results : /\ r # None
                          /\ r # Cancelled => r.prefs \in Preferences
                          /\ r.status = "preferred" <=> r # Cancelled
                          /\ r.status = "cancelled" <=> r = Cancelled
<1>1. None \notin Results
  BY ChatAssumption
<1>2. Cancelled.status = "cancelled" /\ Cancelled \in Results
  BY DEF Cancelled, Results
<1>3. ASSUME NEW p \in Preferences
      PROVE  /\ Preferred(p) \in Results /\ Preferred(p) # Cancelled
             /\ Preferred(p).prefs = p /\ Preferred(p).status = "preferred"
  <2>1. Preferred(p).status = "preferred" /\ Preferred(p).prefs = p
    BY DEF Preferred
  <2>2. Preferred(p) \in [status : {"preferred"}, prefs : Preferences]
    BY DEF Preferred
  <2> QED
    BY <1>2, <2>1, <2>2 DEF Results
<1>4. ASSUME NEW r \in Results
      PROVE  /\ r # None
             /\ r # Cancelled => r.prefs \in Preferences
             /\ r.status = "preferred" <=> r # Cancelled
             /\ r.status = "cancelled" <=> r = Cancelled
  <2>1. r = Cancelled \/ r \in [status : {"preferred"}, prefs : Preferences]
    BY DEF Results
  <2> QED
    BY <1>1, <1>2, <2>1
<1> QED
  BY <1>2, <1>3, <1>4

LEMMA RequestShapes ==
    /\ \A op \in Requests : op # None /\ op.subscribed \in BOOLEAN
    /\ Ops \subseteq Requests \/ posted \notin Nat
<1>1. None \notin Requests
  BY ChatAssumption
<1>2. ASSUME posted \in Nat
      PROVE  Ops \subseteq Requests
  <2>1. 1 .. posted \subseteq Nat /\ Now \in Nat
    BY <1>2 DEF Now
  <2> QED
    BY <2>1 DEF Ops, Requests
<1> QED
  BY <1>1, <1>2 DEF Requests

-----------------------------------------------------------------------------
(* Type correctness. *)

LEMMA Lengths ==
    ASSUME PublisherTyped
    PROVE  Len(notices) \in Nat /\ DOMAIN notices = 1 .. Len(notices)
BY LenProperties DEF PublisherTyped

\* The publisher's steps leave the receiving side alone, and what is typed there
\* stays typed when notices are added.
LEMMA GrowthKeepsTypes ==
    ASSUME PublisherTyped, ReaderTyped, AgentTyped, NoticesGrow,
           UNCHANGED <<source, mailbox, signals, reading, delivering>>
    PROVE  ReaderTyped' /\ AgentTyped'
<1>1. /\ Len(notices) \in Nat /\ Len(notices') \in Nat
      /\ 0 .. Len(notices) \subseteq 0 .. Len(notices')
      /\ 1 .. Len(notices) \subseteq 1 .. Len(notices')
  <2>1. Len(notices) \in Nat /\ Len(notices') \in Nat
    BY Lengths, LenProperties DEF NoticesGrow
  <2> QED
    BY <2>1 DEF NoticesGrow
<1>2. ReaderTyped'
  <2>1. \A i \in DOMAIN feed.pages : Through(feed.pages[i]) <= Len(notices')
    <3>1. ASSUME NEW i \in DOMAIN feed.pages
          PROVE  Through(feed.pages[i]) \in Int
      <4>1. feed.pages \in Seq([after : Nat, items : Seq(Notices)])
        BY DEF ReaderTyped
      <4>2. feed.pages[i] \in [after : Nat, items : Seq(Notices)]
        BY <4>1, ElementOfSeq, LenProperties
      <4> QED
        BY <4>2, LenProperties DEF Through
    <3> QED
      BY <1>1, <3>1 DEF ReaderTyped, NoticesGrow
  <2>2. UNCHANGED <<source, signals, task, feed>>
    BY DEF reading
  <2> QED
    BY <1>1, <2>1, <2>2 DEF ReaderTyped, Through
<1>3. AgentTyped'
  <2>1. UNCHANGED <<mailbox, worker, inbox, taken>>
    BY DEF delivering
  <2> DEFINE M(n) == [sequence : 1 .. n, generation : Nat, delivered : BOOLEAN]
  <2>2. M(Len(notices)) \subseteq M(Len(notices'))
    BY <1>1
  <2>3. mailbox \in Seq(M(Len(notices')))
    BY <2>2, SeqMonotonic DEF AgentTyped
  <2>4. inbox \in Seq(1 .. Len(notices')) /\ taken \in Seq(1 .. Len(notices'))
    BY <1>1, SeqMonotonic DEF AgentTyped
  <2> QED
    BY <2>1, <2>3, <2>4 DEF AgentTyped
<1> QED
  BY <1>2, <1>3

LEMMA InitChat == Init => ChatInvariant
<1> SUFFICES ASSUME Init PROVE ChatInvariant
  OBVIOUS
<1>1. {Commands, MaxMessages, MaxFaults} \subseteq Nat
  BY ChatAssumption
<1>2. Len(notices) = 0 /\ DOMAIN notices = {} /\ DOMAIN mailbox = {} /\ DOMAIN feed.pages = {}
  BY DEF Init, NoFeed
<1>3. TypeOK
  <2>1. PublisherTyped
    BY DEF Init, PublisherTyped, Preferences
  <2>2. CallerTyped
    BY DEF Init, CallerTyped, Idle
  <2>3. ReaderTyped
    BY <1>2 DEF Init, ReaderTyped, Off, NoFeed, Places
  <2>4. AgentTyped
    BY <1>2 DEF Init, AgentTyped, NoWorker
  <2> QED
    BY <1>1, <2>1, <2>2, <2>3, <2>4 DEF TypeOK, Init
<1>4. Given = {} /\ \A status : Told(status) = {}
  BY DEF Init, Given, Told
<1>5. Asked
  BY <1>4 DEF Asked, Init, Idle
<1>6. ReceiptsHold
  BY <1>4, ResultShapes DEF ReceiptsHold, Init, Idle
<1>7. PreferencesAgree
  BY <1>4 DEF PreferencesAgree, Init, Idle
<1>8. MailHonest
  BY <1>2 DEF MailHonest
<1> QED
  BY <1>3, <1>5, <1>6, <1>7, <1>8 DEF ChatInvariant

LEMMA FaultsBounded ==
    ASSUME TypeOK, faults' = faults \/ (faults < MaxFaults /\ faults' = faults + 1)
    PROVE  faults' \in 0 .. MaxFaults
BY ChatAssumption DEF TypeOK

LEMMA GrowthKeepsMail ==
    ASSUME TypeOK, MailHonest, NoticesGrow,
           UNCHANGED <<mailbox, reading>>
    PROVE  MailHonest'
<1>1. \A k \in 1 .. Len(notices) : notices'[k].generation = notices[k].generation
  BY Lengths DEF NoticesGrow, TypeOK
<1>2. ASSUME NEW j \in DOMAIN mailbox
      PROVE  mailbox[j].sequence \in 1 .. Len(notices)
  <2>1. mailbox \in Seq([sequence : 1 .. Len(notices), generation : Nat, delivered : BOOLEAN])
    BY DEF TypeOK, AgentTyped
  <2>2. mailbox[j] \in [sequence : 1 .. Len(notices), generation : Nat, delivered : BOOLEAN]
    BY <1>2, <2>1, ElementOfSeq, LenProperties
  <2> QED
    BY <2>2
<1>3. ASSUME NEW i \in DOMAIN feed.pages, NEW k \in DOMAIN feed.pages[i].items
      PROVE  feed.pages[i].after + k \in 1 .. Len(notices)
  <2>1. feed.pages \in Seq([after : Nat, items : Seq(Notices)])
    BY DEF TypeOK, ReaderTyped
  <2>2. feed.pages[i] \in [after : Nat, items : Seq(Notices)]
    BY <2>1, ElementOfSeq, LenProperties
  <2>3. Len(feed.pages[i].items) \in Nat /\ k \in 1 .. Len(feed.pages[i].items)
    BY <2>2, LenProperties
  <2>4. feed.pages[i].after + Len(feed.pages[i].items) <= Len(notices)
    BY DEF TypeOK, ReaderTyped, Through
  <2>5. Len(notices) \in Nat
    BY Lengths DEF TypeOK
  <2> QED
    BY <2>2, <2>3, <2>4, <2>5
<1>4. UNCHANGED <<mailbox, feed>>
  BY DEF reading
<1>5. ASSUME NEW j \in DOMAIN mailbox
      PROVE  mailbox[j].generation = notices'[mailbox[j].sequence].generation
  BY <1>1, <1>2 DEF MailHonest
<1>6. ASSUME NEW i \in DOMAIN feed.pages, NEW k \in DOMAIN feed.pages[i].items
      PROVE  feed.pages[i].items[k].generation = notices'[feed.pages[i].after + k].generation
  BY <1>1, <1>3 DEF MailHonest, PageHonest
<1> QED
  BY <1>4, <1>5, <1>6 DEF MailHonest, PageHonest

LEMMA PostGrows ==
    ASSUME TypeOK, Post
    PROVE  NoticesGrow
<1>1. Notice(posted + 1, prefs) \in Notices
  BY DEF TypeOK, PublisherTyped, Notice, Notices, Preferences
<1>2. notices \in Seq(Notices) /\ Len(notices) \in Nat /\ DOMAIN notices = 1 .. Len(notices)
  BY Lengths DEF TypeOK, PublisherTyped
<1>3. CASE prefs.subscribed
  BY <1>1, <1>2, <1>3, AppendProperties DEF Post, NoticesGrow
<1>4. CASE ~prefs.subscribed
  BY <1>2, <1>4 DEF Post, NoticesGrow
<1> QED
  BY <1>3, <1>4

LEMMA PostKeeps ==
    ASSUME ChatInvariant, Post
    PROVE  ChatInvariant'
<1>1. NoticesGrow
  BY PostGrows DEF ChatInvariant
<1>2. UNCHANGED <<prefs, receipts, effects, out, policy, call, wire>>
  BY DEF Post, caller
<1>3. UNCHANGED <<source, mailbox, signals, reading, delivering>>
  BY DEF Post
<1>4. TypeOK'
  <2>1. PublisherTyped'
    BY <1>1 DEF ChatInvariant, TypeOK, PublisherTyped, Post, NoticesGrow
  <2>2. CallerTyped'
    BY <1>2 DEF ChatInvariant, TypeOK, CallerTyped
  <2> QED
    BY <1>1, <1>3, <2>1, <2>2, GrowthKeepsTypes DEF ChatInvariant, TypeOK, Post
<1>5. Asked'
  BY <1>2 DEF ChatInvariant, Asked, Given
<1>6. ReceiptsHold'
  BY <1>2 DEF ChatInvariant, ReceiptsHold, Given, Told
<1>7. PreferencesAgree'
  BY <1>2 DEF ChatInvariant, PreferencesAgree, Given, Told, Covers
<1>8. MailHonest'
  BY <1>1, <1>3, GrowthKeepsMail DEF ChatInvariant
<1> QED
  BY <1>4, <1>5, <1>6, <1>7, <1>8 DEF ChatInvariant

\* A change of preferences only adds notices, of its own revision.
LEMMA UpdateGrows ==
    ASSUME TypeOK, NEW op \in Requests, UpdatePreferences(op)
    PROVE  /\ NextPrefs(op) \in Preferences
           /\ NoticesGrow
           /\ prefs' = NextPrefs(op)
           /\ NextPrefs(op) = prefs \/ NextPrefs(op).revision = prefs.revision + 1
<1>1. prefs \in Preferences /\ posted \in Nat /\ op.subscribed \in BOOLEAN
  BY RequestShapes DEF TypeOK, PublisherTyped
<1>2. NextPrefs(op) \in Preferences
  BY <1>1 DEF NextPrefs, Preferences
<1>3. notices \in Seq(Notices) /\ Len(notices) \in Nat /\ DOMAIN notices = 1 .. Len(notices)
  BY Lengths DEF TypeOK, PublisherTyped
<1>4. Replayed(op) \in Seq(Notices)
  <2>1. CASE op.subscribed /\ op.start \in 1 .. posted
    <3>1. posted - op.start \in Nat
      BY <1>1, <2>1
    <3>2. \A i \in 1 .. (posted - op.start) : Notice(op.start + i, NextPrefs(op)) \in Notices
      BY <1>1, <1>2, <2>1 DEF Notice, Notices, Preferences
    <3>3. [i \in 1 .. (posted - op.start) |-> Notice(op.start + i, NextPrefs(op))] \in Seq(Notices)
      BY <3>1, <3>2, IsASeq
    <3> QED
      BY <2>1, <3>3 DEF Replayed
  <2>2. CASE ~(op.subscribed /\ op.start \in 1 .. posted)
    BY <2>2 DEF Replayed
  <2> QED
    BY <2>1, <2>2
<1> DEFINE old == [k \in DOMAIN notices |-> Revoked(notices[k])]
<1>5. /\ old \in Seq(Notices) /\ Len(old) = Len(notices)
      /\ \A k \in 1 .. Len(notices) : old[k].generation = notices[k].generation
  <2>1. \A k \in 1 .. Len(notices) : notices[k] \in Notices
    BY <1>3, ElementOfSeq
  <2>2. \A k \in 1 .. Len(notices) : /\ Revoked(notices[k]) \in Notices
                                    /\ Revoked(notices[k]).generation = notices[k].generation
    BY <2>1 DEF Revoked, Notices
  <2>3. [k \in 1 .. Len(notices) |-> Revoked(notices[k])] \in Seq(Notices)
    BY <1>3, <2>2, IsASeq
  <2>4. old = [k \in 1 .. Len(notices) |-> Revoked(notices[k])]
    BY <1>3
  <2>5. old \in Seq(Notices)
    BY <2>3, <2>4
  <2>6. Len(old) = Len(notices)
    BY <1>3, <2>4, <2>5, LenProperties
  <2> QED
    BY <1>3, <2>2, <2>5, <2>6
<1>6. NoticesGrow
  <2>1. CASE Changes(op)
    <3>1. notices' = old \o Replayed(op)
      BY <2>1 DEF UpdatePreferences
    <3>2. /\ old \o Replayed(op) \in Seq(Notices)
          /\ Len(old \o Replayed(op)) = Len(old) + Len(Replayed(op))
          /\ \A k \in 1 .. Len(old) + Len(Replayed(op)) :
                (old \o Replayed(op))[k] =
                    IF k <= Len(old) THEN old[k] ELSE Replayed(op)[k - Len(old)]
      BY <1>4, <1>5, ConcatProperties
    <3>3. Len(Replayed(op)) \in Nat
      BY <1>4, LenProperties
    <3> HIDE DEF old
    <3>4. \A k \in DOMAIN notices : notices'[k] = old[k]
      BY <1>3, <1>5, <3>1, <3>2, <3>3
    <3> QED
      BY <1>3, <1>5, <3>1, <3>2, <3>3, <3>4 DEF NoticesGrow
  <2>2. CASE ~Changes(op)
    BY <1>3, <2>2 DEF UpdatePreferences, NoticesGrow
  <2> QED
    BY <2>1, <2>2
<1>7. NextPrefs(op) = prefs \/ NextPrefs(op).revision = prefs.revision + 1
  <2>1. prefs = [subscribed |-> prefs.subscribed, revision |-> prefs.revision]
    BY <1>1 DEF Preferences
  <2>2. CASE Changes(op)
    BY <2>2 DEF NextPrefs
  <2>3. CASE ~Changes(op)
    <3>1. op.subscribed = prefs.subscribed
      BY <2>3 DEF Changes
    <3>2. prefs.revision + 0 = prefs.revision
      BY <1>1 DEF Preferences
    <3> QED
      BY <2>1, <2>3, <3>1, <3>2 DEF NextPrefs
  <2> QED
    BY <2>2, <2>3
<1> QED
  BY <1>2, <1>6, <1>7 DEF UpdatePreferences

-----------------------------------------------------------------------------
(* The command plane. *)

CallPlaces == {"idle", "register", "send", "sent", "answered", "settle"}
CallRecords == [pc : CallPlaces, cmd : {0} \cup Cmds, interrupt : BOOLEAN,
                answer : {None} \cup Results]

LEMMA CallerShapes ==
    ASSUME CallerTyped
    PROVE  /\ call \in CallRecords
           /\ \A c \in Cmds : /\ out[c].op # None => out[c].op \in Requests
                              /\ out[c].result # None => out[c].result \in Results
BY DEF CallerTyped, CallRecords, CallPlaces

LEMMA AnswerCalls ==
    ASSUME CallerTyped, NEW c \in Cmds, NEW a \in Results, Answer(c, a)
    PROVE  /\ call' \in CallRecords
           /\ call'.pc # "idle" => call'.cmd \in Cmds
           /\ \/ call' = call
              \/ /\ call'.pc = "answered" /\ call'.answer = a
                 /\ call'.cmd = c /\ call.cmd = c /\ call.pc = "sent"
<1>1. call \in CallRecords /\ (call.pc # "idle" => call.cmd \in Cmds)
  BY CallerShapes DEF CallerTyped
<1>2. CASE call.pc = "sent" /\ call.cmd = c
  <2>1. call' = [call EXCEPT !.pc = "answered", !.answer = a]
    BY <1>2 DEF Answer
  <2>2. call' = [pc |-> "answered", cmd |-> c, interrupt |-> call.interrupt, answer |-> a]
    BY <1>1, <1>2, <2>1 DEF CallRecords
  <2> QED
    BY <1>1, <1>2, <2>2 DEF CallRecords, CallPlaces
<1>3. CASE ~(call.pc = "sent" /\ call.cmd = c)
  BY <1>1, <1>3 DEF Answer
<1> QED
  BY <1>2, <1>3

\* What every execution has in common: the request is gone, the caller's own record
\* stays, and the receiving side has no part in it.
LEMMA ExecuteFrame ==
    ASSUME ChatInvariant, NEW c \in Cmds, NEW interrupt \in BOOLEAN, Execute(c, interrupt)
    PROVE  /\ out[c].op # None /\ out[c].op \in Requests
           /\ wire' \subseteq wire
           /\ UNCHANGED <<place, out, policy, source, mailbox, signals, reading, delivering,
                          faults>>
<1>1. <<c, interrupt>> \in wire /\ wire' = wire \ {<<c, interrupt>>}
  BY DEF Execute
<1>2. out[c].op # None
  BY <1>1 DEF ChatInvariant, Asked
<1> QED
  BY <1>1, <1>2, CallerShapes DEF ChatInvariant, TypeOK, Execute

\* A settled command answers again.
LEMMA AnsweredAgainKeeps ==
    ASSUME ChatInvariant, NEW c \in Cmds, NEW interrupt \in BOOLEAN, Execute(c, interrupt),
           receipts[c].result # None, Answer(c, receipts[c].result), UNCHANGED publisher
    PROVE  ChatInvariant'
<1>1. receipts[c].result \in Results /\ c \in Given
  BY DEF ChatInvariant, TypeOK, PublisherTyped, Given
<1>2. /\ call' \in CallRecords
      /\ call'.pc # "idle" => call'.cmd \in Cmds
      /\ \/ call' = call
         \/ /\ call'.pc = "answered" /\ call'.answer = receipts[c].result
            /\ call'.cmd = c /\ call.cmd = c /\ call.pc = "sent"
  BY <1>1, AnswerCalls DEF ChatInvariant, TypeOK
<1>3. /\ out[c].op # None
      /\ wire' \subseteq wire
      /\ UNCHANGED <<place, out, policy, source, mailbox, signals, reading, delivering, faults>>
  BY ExecuteFrame
<1>4. UNCHANGED <<posted, prefs, notices, receipts, effects>>
  BY DEF publisher
<1>5. receipts[c].result # Cancelled
  BY <1>1, ResultShapes DEF ChatInvariant, ReceiptsHold
<1>6. TypeOK'
  <2>1. PublisherTyped'
    BY <1>4 DEF ChatInvariant, TypeOK, PublisherTyped
  <2>2. CallerTyped'
    BY <1>2, <1>3 DEF ChatInvariant, TypeOK, CallerTyped, CallRecords, CallPlaces
  <2>3. ReaderTyped' /\ AgentTyped'
    BY <1>3, <1>4 DEF ChatInvariant, TypeOK, ReaderTyped, AgentTyped, reading, delivering
  <2> QED
    BY <1>3, <2>1, <2>2, <2>3 DEF ChatInvariant, TypeOK
<1>7. Asked'
  BY <1>1, <1>2, <1>3, <1>4 DEF ChatInvariant, Asked, Given
<1>8. ReceiptsHold'
  BY <1>2, <1>3, <1>4, <1>5 DEF ChatInvariant, ReceiptsHold, Given, Told
<1>9. PreferencesAgree'
  BY <1>2, <1>3, <1>4 DEF ChatInvariant, PreferencesAgree, Given, Told, Covers
<1>10. MailHonest'
  BY <1>3, <1>4 DEF ChatInvariant, MailHonest, PageHonest, reading
<1> QED
  BY <1>6, <1>7, <1>8, <1>9, <1>10 DEF ChatInvariant

\* A cancelled command leaves its cancellation.
LEMMA CancelledKeeps ==
    ASSUME ChatInvariant, NEW c \in Cmds, NEW interrupt \in BOOLEAN, Execute(c, interrupt),
           receipts[c].result = None,
           receipts' = [receipts EXCEPT ![c].cancelled = TRUE],
           Answer(c, Cancelled),
           UNCHANGED <<posted, prefs, notices, effects>>
    PROVE  ChatInvariant'
<1>1. Cancelled \in Results
  BY ResultShapes
<1>2. /\ call' \in CallRecords
      /\ call'.pc # "idle" => call'.cmd \in Cmds
      /\ \/ call' = call
         \/ /\ call'.pc = "answered" /\ call'.answer = Cancelled
            /\ call'.cmd = c /\ call.cmd = c /\ call.pc = "sent"
  BY <1>1, AnswerCalls DEF ChatInvariant, TypeOK
<1>3. /\ out[c].op # None
      /\ wire' \subseteq wire
      /\ UNCHANGED <<place, out, policy, source, mailbox, signals, reading, delivering, faults>>
  BY ExecuteFrame
<1>4. /\ receipts' \in [Cmds -> [result : {None} \cup Results, cancelled : BOOLEAN]]
      /\ \A d \in Cmds : receipts'[d].result = receipts[d].result
      /\ \A d \in Cmds : receipts[d].cancelled => receipts'[d].cancelled
      /\ \A d \in Cmds : d # c => receipts'[d] = receipts[d]
      /\ receipts'[c].cancelled
  BY DEF ChatInvariant, TypeOK, PublisherTyped
<1>5. Given' = Given /\ c \notin Given
  BY <1>4 DEF Given
<1>6. TypeOK'
  <2>1. PublisherTyped'
    BY <1>4 DEF ChatInvariant, TypeOK, PublisherTyped
  <2>2. CallerTyped'
    BY <1>2, <1>3 DEF ChatInvariant, TypeOK, CallerTyped, CallRecords, CallPlaces
  <2>3. ReaderTyped' /\ AgentTyped'
    BY <1>3 DEF ChatInvariant, TypeOK, ReaderTyped, AgentTyped, reading, delivering
  <2> QED
    BY <1>3, <2>1, <2>2, <2>3 DEF ChatInvariant, TypeOK
<1>7. Asked'
  BY <1>1, <1>2, <1>3, <1>5 DEF ChatInvariant, Asked
<1>8. ReceiptsHold'
  <2>1. call.pc # "idle" => call.cmd \in Cmds
    BY DEF ChatInvariant, TypeOK, CallerTyped
  <2>2. \A d \in Cmds :
          /\ effects'[d] = IF d \in Given' THEN 1 ELSE 0
          /\ d \in Given' => receipts'[d].result.status = "preferred" /\ ~receipts'[d].cancelled
          /\ out'[d].result = Cancelled => out'[d].op = None \/ receipts'[d].cancelled
          /\ d \in Told("preferred")' => receipts'[d].result = out'[d].result
    BY <1>3, <1>4, <1>5 DEF ChatInvariant, ReceiptsHold, Told
  <2>3. call'.pc \in {"answered", "settle"} =>
          IF call'.answer = Cancelled THEN receipts'[call'.cmd].cancelled
          ELSE receipts'[call'.cmd].result = call'.answer
    BY <1>2, <1>4, <2>1 DEF ChatInvariant, ReceiptsHold
  <2> QED
    BY <2>2, <2>3 DEF ReceiptsHold
<1>9. PreferencesAgree'
  <2>1. \A d \in Given : receipts'[d].result = receipts[d].result
    BY <1>4 DEF Given
  <2> QED
    BY <1>2, <1>3, <1>5, <2>1 DEF ChatInvariant, PreferencesAgree, Told, Covers, Policy
<1>10. MailHonest'
  BY <1>3 DEF ChatInvariant, MailHonest, PageHonest, reading
<1> QED
  BY <1>6, <1>7, <1>8, <1>9, <1>10 DEF ChatInvariant

\* A command that runs changes the preference and leaves its result.
LEMMA ExecutedKeeps ==
    ASSUME ChatInvariant, NEW c \in Cmds, NEW interrupt \in BOOLEAN, Execute(c, interrupt),
           receipts[c].result = None, ~Barred(c, interrupt),
           UpdatePreferences(out[c].op),
           receipts' = [receipts EXCEPT ![c].result = Preferred(NextPrefs(out[c].op))],
           effects' = [effects EXCEPT ![c] = @ + 1],
           Answer(c, Preferred(NextPrefs(out[c].op)))
    PROVE  ChatInvariant'
<1> DEFINE p == NextPrefs(out[c].op)
<1>1. /\ out[c].op # None /\ out[c].op \in Requests
      /\ wire' \subseteq wire
      /\ UNCHANGED <<place, out, policy, source, mailbox, signals, reading, delivering, faults>>
  BY ExecuteFrame
<1>2. /\ p \in Preferences /\ NoticesGrow /\ prefs' = p
      /\ p = prefs \/ p.revision = prefs.revision + 1
  BY <1>1, UpdateGrows DEF ChatInvariant
<1>3. /\ Preferred(p) \in Results /\ Preferred(p) # Cancelled /\ Preferred(p) # None
      /\ Preferred(p).status = "preferred" /\ Preferred(p).prefs = p
  BY <1>2, ResultShapes
<1> HIDE DEF p
<1>4. /\ call' \in CallRecords
      /\ call'.pc # "idle" => call'.cmd \in Cmds
      /\ \/ call' = call
         \/ /\ call'.pc = "answered" /\ call'.answer = Preferred(p)
            /\ call'.cmd = c /\ call.cmd = c /\ call.pc = "sent"
  BY <1>3, AnswerCalls DEF ChatInvariant, TypeOK, p
<1>5. /\ receipts' \in [Cmds -> [result : {None} \cup Results, cancelled : BOOLEAN]]
      /\ receipts'[c].result = Preferred(p)
      /\ \A d \in Cmds : receipts'[d].cancelled = receipts[d].cancelled
      /\ \A d \in Cmds : d # c => receipts'[d] = receipts[d]
  BY <1>3 DEF ChatInvariant, TypeOK, PublisherTyped, p
<1>6. c \notin Given /\ Given' = Given \cup {c}
  BY <1>3, <1>5 DEF Given
<1>7. TypeOK'
  <2>1. effects' \in [Cmds -> Nat]
    BY DEF ChatInvariant, TypeOK, PublisherTyped
  <2>2. PublisherTyped'
    BY <1>2, <1>5, <2>1 DEF ChatInvariant, TypeOK, PublisherTyped, UpdatePreferences, NoticesGrow
  <2>3. CallerTyped'
    BY <1>1, <1>4 DEF ChatInvariant, TypeOK, CallerTyped, CallRecords, CallPlaces
  <2>4. ReaderTyped' /\ AgentTyped'
    BY <1>1, <1>2, GrowthKeepsTypes DEF ChatInvariant, TypeOK
  <2> QED
    BY <1>1, <2>2, <2>3, <2>4 DEF ChatInvariant, TypeOK
<1>8. Asked'
  BY <1>1, <1>3, <1>4, <1>6 DEF ChatInvariant, Asked
<1>9. ReceiptsHold'
  <2>1. call.pc # "idle" => call.cmd \in Cmds
    BY DEF ChatInvariant, TypeOK, CallerTyped
  <2>2. ~receipts[c].cancelled /\ effects[c] = 0
    BY <1>6 DEF ChatInvariant, ReceiptsHold, Barred
  <2>3. c \notin Told("preferred") /\ out[c].result # Cancelled
    <3>1. receipts[c].result = None
      OBVIOUS
    <3>2. c \notin Told("preferred")
      BY <3>1 DEF ChatInvariant, ReceiptsHold, Told
    <3>3. out[c].result # Cancelled
      BY <1>1, <2>2 DEF ChatInvariant, ReceiptsHold
    <3> QED
      BY <3>2, <3>3
  <2>4. effects'[c] = 1 /\ \A d \in Cmds : d # c => effects'[d] = effects[d]
    BY <2>2 DEF ChatInvariant, TypeOK, PublisherTyped
  <2>5. \A d \in Cmds :
          /\ effects'[d] = IF d \in Given' THEN 1 ELSE 0
          /\ d \in Given' => receipts'[d].result.status = "preferred" /\ ~receipts'[d].cancelled
          /\ out'[d].result = Cancelled => out'[d].op = None \/ receipts'[d].cancelled
          /\ d \in Told("preferred")' => receipts'[d].result = out'[d].result
    BY <1>1, <1>3, <1>5, <1>6, <2>2, <2>3, <2>4 DEF ChatInvariant, ReceiptsHold, Told
  <2>6. call'.pc \in {"answered", "settle"} =>
          IF call'.answer = Cancelled THEN receipts'[call'.cmd].cancelled
          ELSE receipts'[call'.cmd].result = call'.answer
    <3>1. CASE call' = call
      <4>1. ASSUME call.pc \in {"answered", "settle"}, call.answer # Cancelled
            PROVE  call.cmd # c
        <5>1. receipts[call.cmd].result = call.answer /\ call.answer \in Results
          BY <4>1 DEF ChatInvariant, ReceiptsHold, Asked
        <5> QED
          BY <5>1, ResultShapes
      <4>2. call.pc \in {"answered", "settle"} => call.cmd \in Cmds
        BY <2>1
      <4> QED
        BY <1>5, <3>1, <4>1, <4>2 DEF ChatInvariant, ReceiptsHold
    <3>2. CASE call' # call
      BY <1>3, <1>4, <1>5, <3>2
    <3> QED
      BY <3>1, <3>2
  <2> QED
    BY <2>5, <2>6 DEF ReceiptsHold
<1>10. PreferencesAgree'
  <2>1. /\ \A d \in Given : receipts'[d].result = receipts[d].result
        /\ receipts'[c].result.prefs = p
    BY <1>3, <1>5, <1>6 DEF Given
  <2>2. prefs \in Preferences /\ \A d \in Given : receipts[d].result.prefs \in Preferences
    <3>1. \A d \in Given : receipts[d].result \in Results /\ receipts[d].result # Cancelled
      <4>1. \A d \in Given : receipts[d].result \in Results
        BY DEF ChatInvariant, TypeOK, PublisherTyped, Given
      <4>2. \A d \in Given : receipts[d].result.status = "preferred"
        BY DEF ChatInvariant, ReceiptsHold, Given
      <4> QED
        BY <4>1, <4>2, ResultShapes
    <3> QED
      BY <3>1, ResultShapes DEF ChatInvariant, TypeOK, PublisherTyped
  <2> DEFINE Q(d) == receipts'[d].result.prefs
  <2>3. /\ Q(c) = p
        /\ \A d \in Given : Q(d) \in Preferences /\ Same(Q(d), prefs) /\ NotAfter(Q(d), prefs)
        /\ \A d, e \in Given : Same(Q(d), Q(e))
    BY <2>1, <2>2 DEF ChatInvariant, PreferencesAgree
  <2> HIDE DEF Q
  <2>4. \A d \in Given : Same(Q(d), p) /\ NotAfter(Q(d), p)
    BY <1>2, <2>2, <2>3 DEF Preferences, Same, NotAfter
  <2>5. /\ \A d \in Given' : Same(Q(d), p) /\ NotAfter(Q(d), p)
        /\ \A d, e \in Given' : Same(Q(d), Q(e))
    <3>1. Same(p, p) /\ NotAfter(p, p)
      BY <1>2 DEF Preferences, Same, NotAfter
    <3>2. \A d \in Given : Same(p, Q(d))
      BY <2>4 DEF Same
    <3> QED
      BY <1>6, <2>3, <2>4, <3>1, <3>2
  <2>6. policy' # None => \E d \in Given' : policy' = Policy(receipts'[d].result.prefs)
    <3> SUFFICES ASSUME policy # None
                 PROVE  \E d \in Given' : policy = Policy(receipts'[d].result.prefs)
      BY <1>1
    <3>1. PICK d \in Given : policy = Policy(receipts[d].result.prefs)
      BY DEF ChatInvariant, PreferencesAgree
    <3> QED
      BY <1>6, <2>1, <3>1
  <2>7. (call'.pc = "settle" /\ call'.answer # Cancelled) => Covers(call.answer.prefs)'
    BY <1>1, <1>4 DEF ChatInvariant, PreferencesAgree, Covers
  <2>8. \A d \in Told("preferred")' : Covers(out[d].result.prefs)'
    BY <1>1 DEF ChatInvariant, PreferencesAgree, Covers, Told
  <2>9. /\ \A d \in Given' : /\ Same(receipts'[d].result.prefs, prefs')
                            /\ NotAfter(receipts'[d].result.prefs, prefs')
        /\ \A d, e \in Given' : Same(receipts'[d].result.prefs, receipts'[e].result.prefs)
    BY <1>2, <2>5 DEF Q
  <2> QED
    BY <2>6, <2>7, <2>8, <2>9 DEF PreferencesAgree, Policy, Covers, Same, NotAfter
<1>11. MailHonest'
  BY <1>1, <1>2, GrowthKeepsMail DEF ChatInvariant
<1> QED
  BY <1>7, <1>8, <1>9, <1>10, <1>11 DEF ChatInvariant

LEMMA ExecuteKeeps ==
    ASSUME ChatInvariant, NEW c \in Cmds, NEW interrupt \in BOOLEAN, Execute(c, interrupt)
    PROVE  ChatInvariant'
<1>1. CASE receipts[c].result # None /\ Answer(c, receipts[c].result) /\ UNCHANGED publisher
  BY <1>1, AnsweredAgainKeeps
<1>2. CASE /\ receipts[c].result = None
           /\ receipts' = [receipts EXCEPT ![c].cancelled = TRUE]
           /\ Answer(c, Cancelled)
           /\ UNCHANGED <<posted, prefs, notices, effects>>
  BY <1>2, CancelledKeeps
<1>3. CASE /\ receipts[c].result = None /\ ~Barred(c, interrupt)
           /\ UpdatePreferences(out[c].op)
           /\ receipts' = [receipts EXCEPT ![c].result = Preferred(NextPrefs(out[c].op))]
           /\ effects' = [effects EXCEPT ![c] = @ + 1]
           /\ Answer(c, Preferred(NextPrefs(out[c].op)))
  BY <1>3, ExecutedKeeps
<1> QED
  BY <1>1, <1>2, <1>3 DEF Execute

\* The caller's own steps leave the publisher and what is under way alone.
LEMMA CallerFrame ==
    ASSUME ChatInvariant, CallerTyped', faults' \in 0 .. MaxFaults,
           UNCHANGED <<place, publisher, mailbox, reading, delivering>>,
           source' \in [registered : BOOLEAN, position : 0 .. Len(notices)],
           signals' \in [sources : BOOLEAN, mailbox : BOOLEAN]
    PROVE  TypeOK' /\ MailHonest'
<1>1. UNCHANGED <<posted, prefs, notices, receipts, effects, task, feed, worker, inbox, taken>>
  BY DEF publisher, reading, delivering
<1>2. PublisherTyped' /\ ReaderTyped' /\ AgentTyped'
  BY <1>1 DEF ChatInvariant, TypeOK, PublisherTyped, ReaderTyped, AgentTyped
<1>3. MailHonest'
  BY <1>1 DEF ChatInvariant, MailHonest, PageHonest
<1> QED
  BY <1>2, <1>3 DEF ChatInvariant, TypeOK

\* While no answer is held, a call may begin, move or end as long as it is about
\* a frozen command.
LEMMA CallMoves ==
    ASSUME ChatInvariant,
           UNCHANGED <<publisher, out, policy>>,
           call' \in CallRecords,
           call'.pc \in {"idle", "register", "send", "sent"},
           call'.pc # "idle" => call'.cmd \in Cmds /\ out[call'.cmd].op # None,
           wire' \subseteq Cmds \X BOOLEAN,
           \A w \in wire' : out[w[1]].op # None
    PROVE  CallerTyped' /\ Asked' /\ ReceiptsHold' /\ PreferencesAgree'
<1>1. UNCHANGED <<posted, prefs, notices, receipts, effects>>
  BY DEF publisher
<1>2. CallerTyped'
  BY DEF ChatInvariant, TypeOK, CallerTyped, CallRecords, CallPlaces
<1>3. Asked'
  BY <1>1 DEF ChatInvariant, Asked, Given
<1>4. ReceiptsHold'
  BY <1>1 DEF ChatInvariant, ReceiptsHold, Given, Told
<1>5. PreferencesAgree'
  BY <1>1 DEF ChatInvariant, PreferencesAgree, Given, Told, Covers, Same, NotAfter
<1> QED
  BY <1>2, <1>3, <1>4, <1>5

\* What is asked stays frozen when nothing is frozen anew.
LEMMA FrozenStays ==
    ASSUME ChatInvariant
    PROVE  /\ wire \subseteq Cmds \X BOOLEAN
           /\ \A w \in wire : w[1] \in Cmds /\ out[w[1]].op # None
           /\ call \in CallRecords
           /\ call.pc # "idle" => call.cmd \in Cmds /\ out[call.cmd].op # None
<1>1. wire \subseteq Cmds \X BOOLEAN /\ (call.pc # "idle" => call.cmd \in Cmds)
  BY DEF ChatInvariant, TypeOK, CallerTyped
<1> QED
  BY <1>1, CallerShapes DEF ChatInvariant, Asked, TypeOK

LEMMA FreezeKeeps ==
    ASSUME ChatInvariant, NEW c \in Cmds, Freeze(c)
    PROVE  ChatInvariant'
<1>1. PICK op \in Ops : out' = [out EXCEPT ![c].op = op]
  BY DEF Freeze
<1>2. op \in Requests /\ op # None
  BY RequestShapes DEF ChatInvariant, TypeOK, PublisherTyped
<1>3. /\ out' \in [Cmds -> [op : {None} \cup Requests, result : {None} \cup Results]]
      /\ \A d \in Cmds : out'[d].result = out[d].result
      /\ \A d \in Cmds : out[d].op # None => out'[d].op # None
      /\ out'[c].op # None /\ out[c].result = None
  BY <1>1, <1>2 DEF ChatInvariant, TypeOK, CallerTyped, Freeze, IsNew, Unused
<1>4. /\ call'.pc = "register" /\ call'.cmd = c /\ call' \in CallRecords
      /\ call'.pc \notin {"answered", "settle"}
  BY DEF Freeze, Call, CallRecords, CallPlaces
<1>5. UNCHANGED <<posted, prefs, notices, receipts, effects, policy, wire>>
  BY DEF Freeze, publisher
<1>6. CallerTyped'
  BY <1>3, <1>4, <1>5 DEF ChatInvariant, TypeOK, CallerTyped, CallRecords, CallPlaces
<1>7. TypeOK' /\ MailHonest'
  BY <1>6, CallerFrame DEF ChatInvariant, TypeOK, ReaderTyped, Freeze
<1>8. Asked'
  <2>1. \A w \in wire : out'[w[1]].op # None
    BY <1>3, FrozenStays
  <2>2. \A d \in Given : out'[d].op # None
    BY <1>3 DEF ChatInvariant, Asked, Given
  <2>3. /\ \A w \in wire' : out'[w[1]].op # None
        /\ \A d \in Given' : out'[d].op # None
    BY <1>5, <2>1, <2>2 DEF Given
  <2>4. out'[call'.cmd].op # None
    BY <1>3, <1>4
  <2> QED
    BY <1>4, <2>3, <2>4 DEF Asked
<1>9. ReceiptsHold'
  <2>1. \A d \in Cmds : out'[d].result = Cancelled => out'[d].op = None \/ receipts[d].cancelled
    <3>1. ASSUME NEW d \in Cmds, d # c
          PROVE  out'[d].op = out[d].op
      BY <1>1, <3>1 DEF ChatInvariant, TypeOK, CallerTyped
    <3>2. None # Cancelled
      BY ResultShapes
    <3> QED
      BY <1>3, <3>1, <3>2 DEF ChatInvariant, ReceiptsHold
  <2>2. Given' = Given /\ Told("preferred")' = Told("preferred")
    BY <1>3, <1>5 DEF Given, Told
  <2>3. \A d \in Told("preferred") : receipts[d].result = out'[d].result
    BY <1>3 DEF ChatInvariant, ReceiptsHold, Told
  <2> QED
    BY <1>4, <1>5, <2>1, <2>2, <2>3 DEF ChatInvariant, ReceiptsHold
<1>10. PreferencesAgree'
  BY <1>3, <1>4, <1>5 DEF ChatInvariant, PreferencesAgree, Given, Told, Covers, Same, NotAfter
<1> QED
  BY <1>7, <1>8, <1>9, <1>10 DEF ChatInvariant

LEMMA WithdrawKeeps ==
    ASSUME ChatInvariant, NEW c \in Cmds, Withdraw(c)
    PROVE  ChatInvariant'
<1>1. out' = [out EXCEPT ![c].result = Cancelled] /\ out[c].op = None
  BY DEF Withdraw, IsNew, Unused
<1>2. Cancelled \in Results /\ Cancelled # None /\ Cancelled.status # "preferred"
  BY ResultShapes
<1>3. /\ out' \in [Cmds -> [op : {None} \cup Requests, result : {None} \cup Results]]
      /\ \A d \in Cmds : out'[d].op = out[d].op
      /\ \A d \in Cmds : d # c => out'[d] = out[d]
      /\ out'[c].result = Cancelled
  BY <1>1, <1>2 DEF ChatInvariant, TypeOK, CallerTyped
<1>4. Told("preferred")' \subseteq Told("preferred") \ {c}
  BY <1>2, <1>3 DEF Told
<1>5. UNCHANGED <<posted, prefs, notices, receipts, effects, policy, call, wire>>
  BY DEF Withdraw, publisher
<1>6. CallerTyped'
  BY <1>3, <1>5 DEF ChatInvariant, TypeOK, CallerTyped
<1>7. TypeOK' /\ MailHonest'
  BY <1>6, CallerFrame DEF ChatInvariant, TypeOK, ReaderTyped, Withdraw
<1>8. Asked'
  <2>1. \A w \in wire : out'[w[1]].op # None
    BY <1>3, FrozenStays
  <2>2. call.pc # "idle" => out'[call.cmd].op # None
    BY <1>3, FrozenStays
  <2>3. \A d \in Given : out'[d].op # None
    BY <1>3 DEF ChatInvariant, Asked, Given
  <2> QED
    BY <1>5, <2>1, <2>2, <2>3 DEF ChatInvariant, Asked, Given
<1>9. ReceiptsHold'
  <2>1. \A d \in Cmds : out'[d].result = Cancelled => out'[d].op = None \/ receipts[d].cancelled
    BY <1>1, <1>3 DEF ChatInvariant, ReceiptsHold
  <2>2. \A d \in Told("preferred")' : receipts[d].result = out'[d].result
    BY <1>3, <1>4 DEF ChatInvariant, ReceiptsHold, Told
  <2> QED
    BY <1>5, <2>1, <2>2 DEF ChatInvariant, ReceiptsHold, Given
<1>10. PreferencesAgree'
  <2>1. \A d \in Told("preferred")' : Covers(out'[d].result.prefs)
    BY <1>3, <1>4 DEF ChatInvariant, PreferencesAgree, Told
  <2> QED
    BY <1>5, <2>1 DEF ChatInvariant, PreferencesAgree, Given, Covers, Same, NotAfter
<1> QED
  BY <1>7, <1>8, <1>9, <1>10 DEF ChatInvariant

LEMMA CallsKeep ==
    ASSUME ChatInvariant,
           (\E c \in Cmds : Retry(c) \/ Recover(c)) \/ Register \/ Send \/ CallFails
    PROVE  ChatInvariant'
<1>1. UNCHANGED <<place, publisher, out, policy, mailbox, reading, delivering>>
  BY DEF Retry, Recover, Register, Send, CallFails
<1>2. faults' \in 0 .. MaxFaults
  <2>1. faults' = faults \/ (faults < MaxFaults /\ faults' = faults + 1)
    BY DEF Retry, Recover, Register, Send, CallFails
  <2> QED
    BY <2>1, FaultsBounded DEF ChatInvariant
<1>3. /\ source' \in [registered : BOOLEAN, position : 0 .. Len(notices)]
      /\ signals' \in [sources : BOOLEAN, mailbox : BOOLEAN]
  <2>1. /\ source \in [registered : BOOLEAN, position : 0 .. Len(notices)]
        /\ signals \in [sources : BOOLEAN, mailbox : BOOLEAN]
    BY DEF ChatInvariant, TypeOK, ReaderTyped
  <2>2. CASE Register
    <3>1. /\ source' = [source EXCEPT !.registered = TRUE]
          /\ signals' = [signals EXCEPT !.sources = @ \/ ~source.registered]
      BY <2>2 DEF Register
    <3> QED
      BY <2>1, <3>1
  <2>3. CASE UNCHANGED <<source, signals>>
    BY <2>1, <2>3
  <2> QED
    BY <2>2, <2>3 DEF Retry, Recover, Send, CallFails
<1>4. /\ call' \in CallRecords
      /\ call'.pc \in {"idle", "register", "send", "sent"}
      /\ call'.pc # "idle" => call'.cmd \in Cmds /\ out[call'.cmd].op # None
      /\ wire' \subseteq Cmds \X BOOLEAN
      /\ \A w \in wire' : out[w[1]].op # None
  <2>1. CASE \E c \in Cmds : Retry(c) \/ Recover(c)
    <3>1. PICK c \in Cmds : Retry(c) \/ Recover(c)
      BY <2>1
    <3>2. PICK interrupt \in BOOLEAN :
            call' = Call("register", c, interrupt) \/ call' = Call("send", c, interrupt)
      BY <3>1 DEF Retry, Recover
    <3>3. out[c].op # None /\ wire' = wire
      BY <3>1 DEF Retry, Recover, Unsettled
    <3>4. /\ call' \in CallRecords /\ call'.cmd = c
          /\ call'.pc \in {"idle", "register", "send", "sent"}
      BY <3>2 DEF Call, CallRecords, CallPlaces
    <3> QED
      BY <3>3, <3>4, FrozenStays
  <2>2. CASE Register \/ Send
    <3>1. \/ call' = [call EXCEPT !.pc = "send"] /\ wire' = wire
          \/ call' = [call EXCEPT !.pc = "sent"] /\ wire' = wire \cup {<<call.cmd, call.interrupt>>}
      BY <2>2 DEF Register, Send
    <3>2. call.pc # "idle"
      BY <2>2 DEF Register, Send
    <3>3. /\ call \in CallRecords /\ call.cmd \in Cmds /\ out[call.cmd].op # None
          /\ wire \subseteq Cmds \X BOOLEAN
          /\ \A w \in wire : out[w[1]].op # None
      BY <3>2, FrozenStays
    <3>4. /\ call' \in CallRecords /\ call'.cmd = call.cmd
          /\ call'.pc \in {"idle", "register", "send", "sent"}
      BY <3>1, <3>3 DEF CallRecords, CallPlaces
    <3>5. call.interrupt \in BOOLEAN
      BY <3>3 DEF CallRecords
    <3> QED
      BY <3>1, <3>3, <3>4, <3>5
  <2>3. CASE CallFails
    <3>1. call' = Idle /\ wire' = wire
      BY <2>3 DEF CallFails
    <3>2. Idle \in CallRecords /\ Idle.pc = "idle"
      BY DEF Idle, CallRecords, CallPlaces
    <3> QED
      BY <3>1, <3>2, FrozenStays
  <2> QED
    BY <2>1, <2>2, <2>3
<1>5. CallerTyped' /\ Asked' /\ ReceiptsHold' /\ PreferencesAgree'
  BY <1>1, <1>4, CallMoves
<1> QED
  BY <1>1, <1>2, <1>3, <1>5, CallerFrame DEF ChatInvariant

\* What the publisher answered is what its receipt says; the policy only moves to a
\* newer generation.
LEMMA HeldAnswer ==
    ASSUME ChatInvariant, call.pc \in {"answered", "settle"}
    PROVE  /\ call.cmd \in Cmds /\ call.answer \in Results /\ call.answer # None
           /\ out[call.cmd].op # None
           /\ call.answer # Cancelled =>
                 /\ call.answer.prefs \in Preferences
                 /\ receipts[call.cmd].result = call.answer /\ call.cmd \in Given
           /\ call.answer = Cancelled => receipts[call.cmd].cancelled
<1>1. call.cmd \in Cmds /\ out[call.cmd].op # None
  BY FrozenStays
<1>2. call.answer \in Results
  BY DEF ChatInvariant, Asked
<1>3. /\ call.answer = Cancelled => receipts[call.cmd].cancelled
      /\ call.answer # Cancelled => receipts[call.cmd].result = call.answer
  BY DEF ChatInvariant, ReceiptsHold
<1> QED
  BY <1>1, <1>2, <1>3, ResultShapes DEF Given

LEMMA RecordPolicyKeeps ==
    ASSUME ChatInvariant, RecordPolicy
    PROVE  ChatInvariant'
<1>1. call.pc = "answered" /\ call' = [call EXCEPT !.pc = "settle"]
  BY DEF RecordPolicy
<1>2. /\ call.cmd \in Cmds /\ call.answer \in Results
      /\ call.answer # Cancelled =>
            /\ call.answer.prefs \in Preferences
            /\ receipts[call.cmd].result = call.answer /\ call.cmd \in Given
  BY <1>1, HeldAnswer
<1>3. /\ call' \in CallRecords /\ call'.pc = "settle"
      /\ call'.cmd = call.cmd /\ call'.answer = call.answer
  BY <1>1, CallerShapes DEF ChatInvariant, TypeOK, CallRecords, CallPlaces
<1>4. UNCHANGED <<posted, prefs, notices, receipts, effects, out, wire>>
  BY DEF RecordPolicy, publisher
<1>5. policy \in {None} \cup Policies
  BY DEF ChatInvariant, TypeOK, CallerTyped
<1>6. \/ /\ call.answer # Cancelled /\ Newer(call.answer.prefs)
         /\ policy' = Policy(call.answer.prefs)
      \/ policy' = policy /\ (call.answer = Cancelled \/ ~Newer(call.answer.prefs))
  BY DEF RecordPolicy
<1>7. /\ policy' \in {None} \cup Policies
      /\ \A p \in Preferences : Covers(p) => Covers(p)'
      /\ call.answer # Cancelled => Covers(call.answer.prefs)'
      /\ policy' # None => \E c \in Given : policy' = Policy(receipts[c].result.prefs)
  <2>1. CASE policy' = policy /\ (call.answer = Cancelled \/ ~Newer(call.answer.prefs))
    <3>1. call.answer # Cancelled => Covers(call.answer.prefs)
      BY <1>2, <1>5, <2>1 DEF Newer, Covers, Policies, Preferences
    <3> QED
      BY <1>3, <1>5, <2>1, <3>1 DEF ChatInvariant, PreferencesAgree, Covers
  <2>2. CASE /\ call.answer # Cancelled /\ Newer(call.answer.prefs)
             /\ policy' = Policy(call.answer.prefs)
    <3>1. /\ policy' \in Policies /\ policy'.generation = call.answer.prefs.revision
          /\ policy' # None
      BY <1>2, <2>2, ChatAssumption DEF Policy, Policies, Preferences
    <3>2. \A p \in Preferences : Covers(p) => Covers(p)'
      BY <1>2, <1>5, <2>2, <3>1 DEF Covers, Newer, Policies, Preferences
    <3>3. Covers(call.answer.prefs)'
      BY <1>2, <1>3, <2>2, <3>1 DEF Covers, Preferences
    <3>4. policy' = Policy(receipts[call.cmd].result.prefs)
      BY <1>2, <2>2
    <3> QED
      BY <1>2, <2>2, <3>1, <3>2, <3>3, <3>4
  <2> QED
    BY <1>6, <2>1, <2>2
<1>8. CallerTyped'
  BY <1>2, <1>3, <1>4, <1>7 DEF ChatInvariant, TypeOK, CallerTyped, CallRecords, CallPlaces
<1>9. TypeOK' /\ MailHonest'
  <2>1. signals' \in [sources : BOOLEAN, mailbox : BOOLEAN]
    BY DEF ChatInvariant, TypeOK, ReaderTyped, RecordPolicy, Pending
  <2>2. /\ UNCHANGED <<place, publisher, source, mailbox, reading, delivering>>
        /\ faults' \in 0 .. MaxFaults
    BY DEF ChatInvariant, TypeOK, RecordPolicy
  <2> QED
    BY <1>8, <2>1, <2>2, CallerFrame DEF ChatInvariant, TypeOK, ReaderTyped
<1>10. Asked'
  BY <1>1, <1>2, <1>3, <1>4 DEF ChatInvariant, Asked, Given
<1>11. ReceiptsHold'
  BY <1>1, <1>3, <1>4 DEF ChatInvariant, ReceiptsHold, Given, Told
<1>12. PreferencesAgree'
  <2>1. \A c \in Told("preferred") : out[c].result.prefs \in Preferences
    BY CallerShapes, ResultShapes DEF ChatInvariant, TypeOK, Told
  <2>2. \A c \in Told("preferred") : Covers(out[c].result.prefs)'
    BY <1>4, <1>7, <2>1 DEF ChatInvariant, PreferencesAgree, Covers
  <2> QED
    BY <1>3, <1>4, <1>7, <2>2
       DEF ChatInvariant, PreferencesAgree, Covers, Given, Told, Same, NotAfter, Policy
<1> QED
  BY <1>9, <1>10, <1>11, <1>12 DEF ChatInvariant

LEMMA SettleKeeps ==
    ASSUME ChatInvariant, Settle
    PROVE  ChatInvariant'
<1>1. /\ call.pc = "settle" /\ call' = Idle
      /\ out' = [out EXCEPT ![call.cmd].result = call.answer]
  BY DEF Settle
<1>2. /\ call.cmd \in Cmds /\ call.answer \in Results /\ call.answer # None
      /\ call.answer # Cancelled =>
            /\ call.answer.prefs \in Preferences
            /\ receipts[call.cmd].result = call.answer /\ call.cmd \in Given
      /\ call.answer = Cancelled => receipts[call.cmd].cancelled
  BY <1>1, HeldAnswer
<1>3. call' \in CallRecords /\ call'.pc = "idle"
  BY <1>1 DEF Idle, CallRecords, CallPlaces
<1>4. UNCHANGED <<posted, prefs, notices, receipts, effects, policy, wire>>
  BY DEF Settle, publisher
<1>5. /\ out' \in [Cmds -> [op : {None} \cup Requests, result : {None} \cup Results]]
      /\ \A d \in Cmds : out'[d].op = out[d].op
      /\ \A d \in Cmds : d # call.cmd => out'[d] = out[d]
      /\ out'[call.cmd].result = call.answer
  BY <1>1, <1>2 DEF ChatInvariant, TypeOK, CallerTyped
<1>6. CallerTyped'
  BY <1>3, <1>4, <1>5 DEF ChatInvariant, TypeOK, CallerTyped, CallRecords, CallPlaces
<1>7. TypeOK' /\ MailHonest'
  BY <1>6, CallerFrame DEF ChatInvariant, TypeOK, ReaderTyped, Settle
<1>8. Asked'
  <2>1. \A w \in wire : out'[w[1]].op # None
    BY <1>5, FrozenStays
  <2>2. \A d \in Given : out'[d].op # None
    BY <1>5 DEF ChatInvariant, Asked, Given
  <2> QED
    BY <1>3, <1>4, <2>1, <2>2 DEF Asked, Given
<1>9. ReceiptsHold'
  <2>1. ASSUME NEW d \in Cmds
        PROVE  /\ out'[d].result = Cancelled => out'[d].op = None \/ receipts[d].cancelled
               /\ d \in Told("preferred")' => receipts[d].result = out'[d].result
    <3>1. CASE d = call.cmd
      BY <1>2, <1>5, <3>1, ResultShapes DEF Told
    <3>2. CASE d # call.cmd
      <4>1. out'[d] = out[d]
        BY <1>5, <3>2
      <4> QED
        BY <4>1 DEF ChatInvariant, ReceiptsHold, Told
    <3> QED
      BY <3>1, <3>2
  <2> QED
    BY <1>3, <1>4, <2>1 DEF ChatInvariant, ReceiptsHold, Given
<1>10. PreferencesAgree'
  <2>1. ASSUME NEW d \in Told("preferred")'
        PROVE  Covers(out'[d].result.prefs)
    <3>1. CASE d = call.cmd
      <4>1. call.answer # Cancelled
        BY <1>2, <1>5, <2>1, <3>1, ResultShapes DEF Told
      <4> QED
        BY <1>1, <1>5, <3>1, <4>1 DEF ChatInvariant, PreferencesAgree
    <3>2. CASE d # call.cmd
      <4>1. out'[d] = out[d] /\ d \in Told("preferred")
        BY <1>5, <2>1, <3>2 DEF Told
      <4> QED
        BY <4>1 DEF ChatInvariant, PreferencesAgree
    <3> QED
      BY <3>1, <3>2
  <2> QED
    BY <1>3, <1>4, <2>1 DEF ChatInvariant, PreferencesAgree, Given, Covers, Same, NotAfter
<1> QED
  BY <1>7, <1>8, <1>9, <1>10 DEF ChatInvariant

-----------------------------------------------------------------------------
(* The feed, the reader, the worker. *)

Pages == [after : Nat, items : Seq(Notices)]
Letters(n) == [sequence : 1 .. n, generation : Nat, delivered : BOOLEAN]
Connections(n) == [up : BOOLEAN, cursor : 0 .. n, request : 0 .. n, pages : Seq(Pages)]
Faithful(page) == Through(page) <= Len(notices) /\ PageHonest(page)

\* What the receiving side may change, and how it must leave it.
ReceivingHolds ==
    /\ source \in [registered : BOOLEAN, position : 0 .. Len(notices)]
    /\ signals \in [sources : BOOLEAN, mailbox : BOOLEAN]
    /\ task \in [pc : {"off", "next", "resume"}, through : 0 .. Len(notices)]
    /\ feed \in Connections(Len(notices))
    /\ \A i \in 1 .. Len(feed.pages) : Faithful(feed.pages[i])
    /\ mailbox \in Seq(Letters(Len(notices)))
    /\ \A j \in 1 .. Len(mailbox) : mailbox[j].generation = notices[mailbox[j].sequence].generation

LEMMA ReceivingShapes ==
    ASSUME ChatInvariant
    PROVE  ReceivingHolds
<1>1. /\ ReaderTyped /\ AgentTyped /\ MailHonest
  BY DEF ChatInvariant, TypeOK
<1>2. feed \in Connections(Len(notices)) /\ mailbox \in Seq(Letters(Len(notices)))
  BY <1>1 DEF ReaderTyped, AgentTyped, Connections, Pages, Letters
<1>3. DOMAIN feed.pages = 1 .. Len(feed.pages) /\ DOMAIN mailbox = 1 .. Len(mailbox)
  <2>1. feed.pages \in Seq(Pages)
    BY <1>2 DEF Connections
  <2> QED
    BY <1>2, <2>1, LenProperties
<1> QED
  BY <1>1, <1>2, <1>3 DEF ReaderTyped, AgentTyped, MailHonest, ReceivingHolds, Faithful

\* The invariant after a step of the receiving side.
LEMMA ReceivingKeeps ==
    ASSUME ChatInvariant, UNCHANGED <<place, publisher, caller>>,
           ReceivingHolds', AgentTyped',
           faults' = faults \/ (faults < MaxFaults /\ faults' = faults + 1)
    PROVE  ChatInvariant'
<1>1. UNCHANGED <<posted, prefs, notices, receipts, effects, out, policy, call, wire>>
  BY DEF publisher, caller
<1>2. PublisherTyped' /\ CallerTyped'
  BY <1>1 DEF ChatInvariant, TypeOK, PublisherTyped, CallerTyped
<1>3. DOMAIN feed'.pages = 1 .. Len(feed'.pages) /\ DOMAIN mailbox' = 1 .. Len(mailbox')
  <2>1. feed'.pages \in Seq(Pages)
    BY DEF ReceivingHolds, Connections
  <2>2. mailbox' \in Seq(Letters(Len(notices')))
    BY DEF ReceivingHolds
  <2> QED
    BY <2>1, <2>2, LenProperties
<1>4. ReaderTyped' /\ MailHonest'
  BY <1>3 DEF ReceivingHolds, ReaderTyped, MailHonest, Connections, Pages, Faithful
<1>5. Asked' /\ ReceiptsHold' /\ PreferencesAgree'
  BY <1>1 DEF ChatInvariant, Asked, ReceiptsHold, PreferencesAgree, Given, Told, Covers, Same,
     NotAfter
<1>6. faults' \in 0 .. MaxFaults
  BY FaultsBounded DEF ChatInvariant
<1> QED
  BY <1>2, <1>4, <1>5, <1>6 DEF ChatInvariant, TypeOK

LEMMA AgentFrame ==
    ASSUME ChatInvariant, UNCHANGED <<notices, mailbox, delivering>>
    PROVE  AgentTyped'
BY DEF ChatInvariant, TypeOK, AgentTyped, delivering

\* Connecting, failing and stopping.
LEMMA ConnectionsKeep ==
    ASSUME ChatInvariant,
           SourcesRead \/ MeshChanged \/ FeedConnect \/ Resume \/ FeedBreaks \/ SourceFails
    PROVE  ChatInvariant'
<1> DEFINE n == Len(notices)
<1>1. n \in Nat /\ 0 \in 0 .. n
  BY Lengths DEF ChatInvariant, TypeOK
<1> HIDE DEF n
<1>2. ReceivingHolds
  BY ReceivingShapes
<1>3. UNCHANGED <<place, publisher, caller, source, mailbox, delivering>>
  BY DEF SourcesRead, MeshChanged, FeedConnect, Resume, FeedBreaks, SourceFails
<1>4. UNCHANGED notices
  BY <1>3 DEF publisher
<1>5. faults' = faults \/ (faults < MaxFaults /\ faults' = faults + 1)
  BY DEF SourcesRead, MeshChanged, FeedConnect, Resume, FeedBreaks, SourceFails
<1>6. signals' \in [sources : BOOLEAN, mailbox : BOOLEAN]
  BY <1>2 DEF ReceivingHolds, SourcesRead, MeshChanged, FeedConnect, Resume, FeedBreaks, SourceFails
<1>7. NoFeed \in Connections(n) /\ NoFeed.pages = <<>> /\ Off \in [pc : {"off"}, through : {0}]
  BY <1>1 DEF NoFeed, Connections, Off
<1>8. task' \in [pc : {"off", "next", "resume"}, through : 0 .. n]
  <2>1. task \in [pc : {"off", "next", "resume"}, through : 0 .. n]
    BY <1>2 DEF ReceivingHolds, n
  <2>2. task' \in {task, Off, [Off EXCEPT !.pc = "next"]}
    BY DEF SourcesRead, MeshChanged, FeedConnect, Resume, FeedBreaks, SourceFails, reading
  <2> QED
    BY <1>1, <2>1, <2>2 DEF Off
<1>9. /\ feed' \in Connections(n)
      /\ feed'.pages = <<>> \/ feed'.pages = feed.pages
  <2>1. feed \in Connections(n) /\ source.position \in 0 .. n /\ task.through \in 0 .. n
    BY <1>2 DEF ReceivingHolds, n
  <2>2. CASE feed' = [up |-> TRUE, cursor |-> source.position, request |-> source.position,
                      pages |-> <<>>]
    BY <2>1, <2>2 DEF Connections
  <2>6. CASE feed' = feed
    BY <2>1, <2>6
  <2>3. CASE FeedConnect
    BY <1>1, <2>1, <2>3 DEF FeedConnect, Connections
  <2>4. CASE Resume
    BY <1>1, <1>7, <2>1, <2>4 DEF Resume, Connections
  <2>5. CASE FeedBreaks \/ SourceFails
    BY <1>1, <1>7, <2>1, <2>5 DEF FeedBreaks, SourceFails, Connections
  <2> QED
    BY <2>2, <2>6, <2>3, <2>4, <2>5 DEF SourcesRead, MeshChanged, reading
<1>10. ReceivingHolds'
  <2>1. \A page : Faithful(page) => Faithful(page)'
    BY <1>4 DEF Faithful, PageHonest, Through
  <2>2. (\A i \in 1 .. Len(feed.pages) : Faithful(feed.pages[i]))'
    <3>1. CASE feed'.pages = <<>>
      BY <3>1
    <3>2. CASE feed'.pages = feed.pages
      BY <1>2, <2>1, <3>2 DEF ReceivingHolds
    <3> QED
      BY <1>9, <3>1, <3>2
  <2> QED
    BY <1>2, <1>3, <1>4, <1>6, <1>8, <1>9, <2>2 DEF ReceivingHolds, n
<1> QED
  BY <1>3, <1>4, <1>5, <1>10, AgentFrame, ReceivingKeeps

\* A page read has the notices after the position queued already, and ends behind it.
LEMMA PageRead ==
    ASSUME ChatInvariant, feed.cursor < Len(notices)
    PROVE  /\ PageEnd \in 0 .. Len(notices) /\ PageEnd > feed.cursor
           /\ Page \in Pages /\ Page.after = feed.cursor /\ Through(Page) = PageEnd
           /\ \A i \in DOMAIN Page.items : Page.items[i] = notices[Page.after + i]
<1> DEFINE n == Len(notices)
           items == [i \in 1 .. (PageEnd - feed.cursor) |-> notices[feed.cursor + i]]
<1>1. n \in Nat /\ notices \in Seq(Notices) /\ DOMAIN notices = 1 .. n
  BY Lengths DEF ChatInvariant, TypeOK, PublisherTyped
<1>2. feed.cursor \in 0 .. n
  BY ReceivingShapes DEF ReceivingHolds, Connections
<1>3. PageEnd \in 0 .. n /\ PageEnd > feed.cursor /\ PageEnd - feed.cursor \in Nat
  BY <1>1, <1>2, ChatAssumption DEF PageEnd
<1>4. \A i \in 1 .. (PageEnd - feed.cursor) : notices[feed.cursor + i] \in Notices
  <2>1. \A i \in 1 .. (PageEnd - feed.cursor) : feed.cursor + i \in 1 .. n
    BY <1>1, <1>2, <1>3
  <2> QED
    BY <1>1, <2>1, ElementOfSeq
<1>5. items \in Seq(Notices)
  BY <1>3, <1>4, IsASeq
<1>6. Len(items) = PageEnd - feed.cursor
  BY <1>3, <1>5, LenProperties
<1>7. /\ Page.after = feed.cursor /\ Page.items = items
      /\ Page = [after |-> feed.cursor, items |-> items]
  BY DEF Page
<1>8. \A i \in DOMAIN items : items[i] = notices[feed.cursor + i]
  OBVIOUS
<1> HIDE DEF items
<1> QED
  BY <1>1, <1>2, <1>3, <1>5, <1>6, <1>7, <1>8 DEF Pages, Through

LEMMA FeedReadKeeps ==
    ASSUME ChatInvariant, FeedRead
    PROVE  ChatInvariant'
<1> DEFINE n == Len(notices)
<1>1. n \in Nat
  BY Lengths DEF ChatInvariant, TypeOK
<1>2. ReceivingHolds
  BY ReceivingShapes
<1>3. /\ UNCHANGED <<place, publisher, caller, source, mailbox, signals, task, delivering, faults>>
      /\ feed' = [feed EXCEPT !.cursor = PageEnd, !.pages = Append(@, Page)]
      /\ feed.cursor < n
  BY DEF FeedRead
<1>4. UNCHANGED notices
  BY <1>3 DEF publisher
<1>5. feed \in Connections(n) /\ feed.pages \in Seq(Pages)
  BY <1>2 DEF ReceivingHolds, Connections
<1>6. PageEnd \in 0 .. n /\ Page \in Pages
  BY <1>3, PageRead
<1>7. /\ Through(Page) <= n
      /\ \A i \in DOMAIN Page.items : Page.items[i].generation = notices[Page.after + i].generation
  BY <1>1, <1>3, PageRead
<1> HIDE DEF n
<1>8. /\ feed' \in Connections(n)
      /\ feed'.pages = Append(feed.pages, Page)
  <2>1. Append(feed.pages, Page) \in Seq(Pages)
    BY <1>5, <1>6, AppendProperties
  <2> QED
    BY <1>3, <1>5, <1>6, <2>1 DEF Connections
<1>9. (\A i \in 1 .. Len(feed.pages) : Faithful(feed.pages[i]))'
  <2>1. \A page : Faithful(page) => Faithful(page)'
    BY <1>4 DEF Faithful, PageHonest, Through
  <2>2. Faithful(Page)
    BY <1>7 DEF Faithful, PageHonest, n
  <2>3. /\ Len(feed.pages) \in Nat /\ Len(feed'.pages) = Len(feed.pages) + 1
        /\ \A i \in 1 .. Len(feed.pages) : feed'.pages[i] = feed.pages[i]
        /\ feed'.pages[Len(feed.pages) + 1] = Page
    BY <1>5, <1>6, <1>8, AppendProperties, LenProperties
  <2>4. ASSUME NEW i \in 1 .. Len(feed'.pages)
        PROVE  Faithful(feed'.pages[i])
    <3>1. i \in 1 .. Len(feed.pages) \/ i = Len(feed.pages) + 1
      BY <2>3
    <3> QED
      BY <1>2, <2>2, <2>3, <3>1 DEF ReceivingHolds
  <2> QED
    BY <2>1, <2>4
<1>10. ReceivingHolds'
  BY <1>2, <1>3, <1>4, <1>8, <1>9 DEF ReceivingHolds, n
<1> QED
  BY <1>3, <1>4, <1>10, AgentFrame, ReceivingKeeps

\* The numbers a page brings are among the publisher's, and there is one order of them.
LEMMA MailOfPage ==
    ASSUME NEW page \in Pages, Faithful(page), PublisherTyped,
           NEW chosen \in InOrder(Wanted(page))
    PROVE  /\ Mail(page, chosen) \in Seq(Letters(Len(notices)))
           /\ \A i \in 1 .. Len(Mail(page, chosen)) :
                 Mail(page, chosen)[i].generation
                    = notices[Mail(page, chosen)[i].sequence].generation
<1> DEFINE W == Wanted(page)
           n == Len(notices)
<1>1. n \in Nat
  BY Lengths
<1>2. /\ page.after \in Nat /\ page.items \in Seq(Notices) /\ Len(page.items) \in Nat
      /\ Through(page) = page.after + Len(page.items) /\ Through(page) <= n
      /\ DOMAIN page.items = 1 .. Len(page.items)
  BY LenProperties DEF Pages, Faithful, Through
<1>3. W \subseteq (page.after + 1) .. Through(page)
  BY DEF Wanted
<1>4. Cardinality(W) \in Nat
  <2>1. page.after + 1 \in Int /\ Through(page) \in Int
    BY <1>2
  <2>2. IsFiniteSet((page.after + 1) .. Through(page))
    BY <2>1, FS_Interval
  <2>3. W \in SUBSET ((page.after + 1) .. Through(page))
    BY <1>3
  <2>4. IsFiniteSet(W)
    BY <2>2, <2>3, FS_Subset
  <2> QED
    BY <2>4, FS_CardinalityType
<1>5. chosen \in [1 .. Cardinality(W) -> W] /\ DOMAIN chosen = 1 .. Cardinality(W)
  BY DEF InOrder
<1>6. ASSUME NEW k \in W
      PROVE  /\ k \in 1 .. n /\ k - page.after \in 1 .. Len(page.items)
             /\ page.items[k - page.after].generation \in Nat
             /\ page.items[k - page.after].generation = notices[k].generation
  <2>1. k \in 1 .. n /\ k - page.after \in 1 .. Len(page.items) /\ page.after + (k - page.after) = k
    BY <1>1, <1>2, <1>3, <1>6
  <2>2. page.items[k - page.after] \in Notices
    BY <1>2, <2>1, ElementOfSeq
  <2>3. page.items[k - page.after].generation = notices[page.after + (k - page.after)].generation
    BY <1>2, <2>1 DEF Faithful, PageHonest
  <2> QED
    BY <2>1, <2>2, <2>3 DEF Notices
<1> DEFINE letter(i) == [sequence |-> chosen[i],
                         generation |-> page.items[chosen[i] - page.after].generation,
                         delivered |-> FALSE]
<1>7. \A i \in 1 .. Cardinality(W) : /\ letter(i) \in Letters(n)
                                    /\ letter(i).generation = notices[letter(i).sequence].generation
  <2> SUFFICES ASSUME NEW i \in 1 .. Cardinality(W)
               PROVE  /\ letter(i) \in Letters(n)
                      /\ letter(i).generation = notices[letter(i).sequence].generation
    OBVIOUS
  <2>1. chosen[i] \in W
    BY <1>5
  <2>2. /\ chosen[i] \in 1 .. n
        /\ page.items[chosen[i] - page.after].generation \in Nat
        /\ page.items[chosen[i] - page.after].generation = notices[chosen[i]].generation
    BY <1>6, <2>1
  <2> QED
    BY <2>2 DEF Letters
<1>8. Mail(page, chosen) = [i \in 1 .. Cardinality(W) |-> letter(i)]
  BY <1>5 DEF Mail
<1> HIDE DEF letter, W
<1>9. Mail(page, chosen) \in Seq(Letters(n))
  <2>1. [i \in 1 .. Cardinality(W) |-> letter(i)] \in Seq(Letters(n))
    BY <1>4, <1>7, IsASeq
  <2> QED
    BY <1>8, <2>1
<1>10. Len(Mail(page, chosen)) = Cardinality(W)
  BY <1>4, <1>8, <1>9, LenProperties
<1> QED
  BY <1>7, <1>8, <1>9, <1>10

LEMMA AcceptKeeps ==
    ASSUME ChatInvariant, Accept
    PROVE  ChatInvariant'
<1> DEFINE n == Len(notices)
           page == Head(feed.pages)
<1>1. n \in Nat /\ PublisherTyped
  BY Lengths DEF ChatInvariant, TypeOK
<1>2. ReceivingHolds
  BY ReceivingShapes
<1>3. UNCHANGED <<place, publisher, caller, delivering, faults>>
  BY DEF Accept
<1>4. UNCHANGED notices
  BY <1>3 DEF publisher
<1>5. feed \in Connections(n) /\ feed.pages \in Seq(Pages) /\ feed.pages # <<>>
  BY <1>2 DEF ReceivingHolds, Connections, Accept
<1>6. /\ page \in Pages /\ page = feed.pages[1] /\ Tail(feed.pages) \in Seq(Pages)
      /\ Len(feed.pages) \in Nat \ {0} /\ Len(Tail(feed.pages)) = Len(feed.pages) - 1
      /\ \A i \in 1 .. Len(Tail(feed.pages)) : Tail(feed.pages)[i] = feed.pages[i + 1]
  BY <1>5, HeadTailProperties, EmptySeq
<1>7. Faithful(page)
  BY <1>2, <1>6 DEF ReceivingHolds
<1>8. Through(page) \in 0 .. n
  <2>1. page.after \in Nat /\ Len(page.items) \in Nat
    BY <1>6, LenProperties DEF Pages
  <2> QED
    BY <1>1, <1>7, <2>1 DEF Through, Faithful
<1>9. PICK chosen \in InOrder(Wanted(page)) : mailbox' = mailbox \o Mail(page, chosen)
  BY DEF Accept
<1>10. /\ mailbox' \in Seq(Letters(n)) /\ Len(mailbox') >= Len(mailbox)
       /\ \A j \in 1 .. Len(mailbox') :
             mailbox'[j].generation = notices[mailbox'[j].sequence].generation
  <2> DEFINE more == Mail(page, chosen)
  <2>1. /\ more \in Seq(Letters(n))
        /\ \A i \in 1 .. Len(more) : more[i].generation = notices[more[i].sequence].generation
    BY <1>1, <1>6, <1>7, MailOfPage
  <2>2. /\ mailbox \in Seq(Letters(n))
        /\ \A j \in 1 .. Len(mailbox) :
              mailbox[j].generation = notices[mailbox[j].sequence].generation
    BY <1>2 DEF ReceivingHolds
  <2> HIDE DEF more
  <2>3. Len(more) \in Nat /\ Len(mailbox) \in Nat
    BY <2>1, <2>2, LenProperties
  <2>4. /\ mailbox \o more \in Seq(Letters(n))
        /\ Len(mailbox \o more) = Len(mailbox) + Len(more)
        /\ \A i \in 1 .. Len(mailbox) + Len(more) : (mailbox \o more)[i] =
              IF i <= Len(mailbox) THEN mailbox[i] ELSE more[i - Len(mailbox)]
    BY <2>1, <2>2, ConcatProperties
  <2>5. ASSUME NEW j \in 1 .. Len(mailbox) + Len(more)
        PROVE  (mailbox \o more)[j].generation = notices[(mailbox \o more)[j].sequence].generation
    <3>1. CASE j <= Len(mailbox)
      <4>1. (mailbox \o more)[j] = mailbox[j] /\ j \in 1 .. Len(mailbox)
        BY <2>3, <2>4, <3>1
      <4> QED
        BY <2>2, <4>1
    <3>2. CASE ~(j <= Len(mailbox))
      <4>1. (mailbox \o more)[j] = more[j - Len(mailbox)] /\ j - Len(mailbox) \in 1 .. Len(more)
        BY <2>3, <2>4, <3>2
      <4> QED
        BY <2>1, <4>1
    <3> QED
      BY <3>1, <3>2
  <2>6. mailbox' = mailbox \o more
    BY <1>9 DEF more
  <2> QED
    BY <2>3, <2>4, <2>5, <2>6
<1>11. /\ source' \in [registered : BOOLEAN, position : 0 .. n]
       /\ signals' \in [sources : BOOLEAN, mailbox : BOOLEAN]
       /\ task' \in [pc : {"off", "next", "resume"}, through : 0 .. n]
  <2>1. /\ source' = [source EXCEPT
                        !.position = IF Through(page) > @ THEN Through(page) ELSE @]
        /\ signals' = [signals EXCEPT !.mailbox = @ \/ Wanted(page) # {}]
        /\ task' = IF place = "local" THEN task ELSE [pc |-> "resume", through |-> Through(page)]
    BY DEF Accept
  <2> HIDE DEF page, n
  <2>2. /\ source \in [registered : BOOLEAN, position : 0 .. n]
        /\ signals \in [sources : BOOLEAN, mailbox : BOOLEAN]
        /\ task \in [pc : {"off", "next", "resume"}, through : 0 .. n]
    BY <1>2 DEF ReceivingHolds, n
  <2>3. source' \in [registered : BOOLEAN, position : 0 .. n]
    BY <1>8, <2>1, <2>2
  <2>4. signals' \in [sources : BOOLEAN, mailbox : BOOLEAN]
    BY <2>1, <2>2
  <2> QED
    BY <1>8, <2>1, <2>2, <2>3, <2>4
<1>12. feed' = [feed EXCEPT !.pages = Tail(@)]
  BY DEF Accept
<1> HIDE DEF page
<1>13. feed' \in Connections(n) /\ feed'.pages = Tail(feed.pages)
  BY <1>5, <1>6, <1>12 DEF Connections
<1>14. (\A i \in 1 .. Len(feed.pages) : Faithful(feed.pages[i]))'
  <2>1. \A p : Faithful(p) => Faithful(p)'
    BY <1>4 DEF Faithful, PageHonest, Through
  <2>2. ASSUME NEW i \in 1 .. Len(feed'.pages)
        PROVE  Faithful(feed'.pages[i])
    <3>1. feed'.pages[i] = feed.pages[i + 1] /\ i + 1 \in 1 .. Len(feed.pages)
      BY <1>6, <1>13
    <3> QED
      BY <1>2, <3>1 DEF ReceivingHolds
  <2> QED
    BY <2>1, <2>2
<1>15. ReceivingHolds'
  BY <1>4, <1>10, <1>11, <1>13, <1>14 DEF ReceivingHolds
<1>16. AgentTyped'
  <2>1. UNCHANGED <<worker, inbox, taken>>
    BY <1>3 DEF delivering
  <2>2. AgentTyped /\ mailbox \in Seq(Letters(n))
    BY <1>2 DEF ChatInvariant, TypeOK, ReceivingHolds
  <2>3. DOMAIN mailbox \subseteq DOMAIN mailbox'
    <3>1. /\ DOMAIN mailbox = 1 .. Len(mailbox) /\ DOMAIN mailbox' = 1 .. Len(mailbox')
          /\ Len(mailbox) \in Nat /\ Len(mailbox') \in Nat
      BY <1>10, <2>2, LenProperties
    <3> QED
      BY <1>10, <3>1
  <2> QED
    BY <1>4, <1>10, <2>1, <2>2, <2>3 DEF AgentTyped, Letters
<1> QED
  BY <1>3, <1>15, <1>16, ReceivingKeeps

\* The attempts of the worker, and the runner's answers.
LEMMA OldestPending ==
    ASSUME ChatInvariant, Pending # {}
    PROVE  /\ Oldest \in DOMAIN mailbox
           /\ Oldest \in Pending /\ \A i \in Pending : Oldest <= i
<1>1. mailbox \in Seq(Letters(Len(notices)))
  BY ReceivingShapes DEF ReceivingHolds
<1>2. Pending \subseteq Nat
  BY <1>1, LenProperties DEF Pending
<1>3. \E j \in Pending : \A i \in Pending : j <= i
  <2> DEFINE R == OpToRel(<, Nat)
  <2>1. R = {p \in Nat \X Nat : p[1] < p[2]}
    BY DEF OpToRel
  <2>2. IsWellFoundedOn(R, Nat)
    BY NatLessThanWellFounded
  <2> HIDE DEF R
  <2>3. PICK j \in Pending : \A i \in Pending : <<i, j>> \notin R
    BY <1>2, <2>2, WFMin
  <2>4. ASSUME NEW i \in Pending
        PROVE  j <= i
    <3>1. i \in Nat /\ j \in Nat /\ <<i, j>> \notin R
      BY <1>2, <2>3
    <3>2. ~(i < j)
      BY <2>1, <3>1
    <3> QED
      BY <3>1, <3>2
  <2> QED
    BY <2>4
<1>4. Oldest \in Pending /\ \A i \in Pending : Oldest <= i
  BY <1>3 DEF Oldest
<1> QED
  BY <1>4 DEF Pending

WorkerPlaces == {"none", "read", "check", "ready", "sent", "finish", "retry", "ended"}

LEMMA WorkersKeep ==
    ASSUME ChatInvariant,
           \/ Dispatch \/ WorkerReads \/ WorkerChecks \/ WorkerAppends \/ WorkerFinishes
           \/ WorkerFails \/ WorkerRetries \/ Takes
    PROVE  ChatInvariant'
<1> DEFINE n == Len(notices)
<1>1. n \in Nat
  BY Lengths DEF ChatInvariant, TypeOK
<1>2. ReceivingHolds /\ AgentTyped
  BY ReceivingShapes DEF ChatInvariant, TypeOK
<1>3. UNCHANGED <<place, publisher, caller, source, reading>>
  BY DEF Dispatch, WorkerReads, WorkerChecks, WorkerAppends, WorkerFinishes, WorkerFails,
     WorkerRetries, Takes
<1>4. UNCHANGED <<notices, task, feed>>
  BY <1>3 DEF publisher, reading
<1>5. faults' = faults \/ (faults < MaxFaults /\ faults' = faults + 1)
  BY DEF Dispatch, WorkerReads, WorkerChecks, WorkerAppends, WorkerFinishes, WorkerFails,
     WorkerRetries, Takes
<1>6. signals' \in [sources : BOOLEAN, mailbox : BOOLEAN]
  BY <1>2 DEF ReceivingHolds, Dispatch, WorkerReads, WorkerChecks, WorkerAppends, WorkerFinishes,
     WorkerFails, WorkerRetries, Takes
<1>7. /\ worker \in [pc : WorkerPlaces, job : {0} \cup DOMAIN mailbox]
      /\ worker.pc \in {"check", "ready", "sent", "finish"} => worker.job \in DOMAIN mailbox
      /\ mailbox \in Seq(Letters(n)) /\ inbox \in Seq(1 .. n) /\ taken \in Seq(1 .. n)
      /\ DOMAIN mailbox = 1 .. Len(mailbox) /\ Len(mailbox) \in Nat
  BY <1>2, LenProperties DEF AgentTyped, WorkerPlaces, Letters
<1>8. /\ mailbox' \in Seq(Letters(n)) /\ DOMAIN mailbox' = DOMAIN mailbox
      /\ Len(mailbox') = Len(mailbox)
      /\ \A j \in 1 .. Len(mailbox) : /\ mailbox'[j].generation = mailbox[j].generation
                                     /\ mailbox'[j].sequence = mailbox[j].sequence
  <2>1. CASE UNCHANGED mailbox
    BY <1>7, <2>1
  <2>2. CASE WorkerFinishes
    <3>1. worker.job \in 1 .. Len(mailbox)
      BY <1>7, <2>2 DEF WorkerFinishes
    <3>2. mailbox[worker.job] \in Letters(n)
      BY <1>7, <3>1, ElementOfSeq
    <3> DEFINE done == [mailbox[worker.job] EXCEPT !.delivered = TRUE]
    <3>3. /\ done \in Letters(n)
          /\ done.generation = mailbox[worker.job].generation
          /\ done.sequence = mailbox[worker.job].sequence
      BY <3>2 DEF Letters
    <3>4. mailbox' = [mailbox EXCEPT ![worker.job] = done]
      BY <2>2 DEF WorkerFinishes
    <3> HIDE DEF done
    <3> QED
      BY <1>7, <3>1, <3>3, <3>4, ExceptSeq
  <2> QED
    BY <2>1, <2>2 DEF Dispatch, WorkerReads, WorkerChecks, WorkerAppends, WorkerFails,
       WorkerRetries, Takes
<1>9. ReceivingHolds'
  <2>1. \A p : Faithful(p) => Faithful(p)'
    BY <1>4 DEF Faithful, PageHonest, Through
  <2>2. (\A i \in 1 .. Len(feed.pages) : Faithful(feed.pages[i]))'
    BY <1>2, <1>4, <2>1 DEF ReceivingHolds
  <2>3. (\A j \in 1 .. Len(mailbox) :
            mailbox[j].generation = notices[mailbox[j].sequence].generation)'
    BY <1>2, <1>4, <1>8 DEF ReceivingHolds
  <2> QED
    BY <1>2, <1>3, <1>4, <1>6, <1>8, <2>2, <2>3 DEF ReceivingHolds
<1>10. /\ worker' \in [pc : WorkerPlaces, job : {0} \cup DOMAIN mailbox]
       /\ worker'.pc \in {"check", "ready", "sent", "finish"} => worker'.job # 0
  <2>0. 0 \notin DOMAIN mailbox
    BY <1>7
  <2>1. \A pc \in {"none", "read", "retry", "ended"} :
          /\ [NoWorker EXCEPT !.pc = pc] \in [pc : WorkerPlaces, job : {0} \cup DOMAIN mailbox]
          /\ [NoWorker EXCEPT !.pc = pc].pc = pc
    BY DEF NoWorker, WorkerPlaces
  <2>2. CASE \E pc \in {"none", "read", "retry", "ended"} : worker' = [NoWorker EXCEPT !.pc = pc]
    BY <2>1, <2>2
  <2>3. CASE worker' = worker
    BY <1>7, <2>0, <2>3
  <2>4. CASE /\ worker.pc \in {"check", "ready", "sent"}
             /\ \E pc \in {"ready", "sent", "finish"} : worker' = [worker EXCEPT !.pc = pc]
    BY <1>7, <2>0, <2>4 DEF WorkerPlaces
  <2>5. CASE Pending # {} /\ worker' = [pc |-> "check", job |-> Oldest]
    BY <2>0, <2>5, OldestPending DEF WorkerPlaces
  <2>6. CASE Dispatch
    BY <2>2, <2>3, <2>6 DEF Dispatch
  <2>7. CASE WorkerReads
    BY <2>2, <2>5, <2>7 DEF WorkerReads
  <2>8. CASE WorkerChecks \/ WorkerAppends
    BY <2>4, <2>8 DEF WorkerChecks, WorkerAppends
  <2>9. CASE WorkerFinishes \/ WorkerFails \/ WorkerRetries
    BY <2>2, <2>9 DEF WorkerFinishes, WorkerFails, WorkerRetries
  <2>10. CASE Takes
    BY <2>3, <2>4, <2>10 DEF Takes
  <2> QED
    BY <2>6, <2>7, <2>8, <2>9, <2>10
<1>11. inbox' \in Seq(1 .. n) /\ taken' \in Seq(1 .. n)
  <2>1. CASE UNCHANGED <<inbox, taken>>
    BY <1>7, <2>1
  <2>2. CASE WorkerAppends
    <3>1. worker.job \in 1 .. Len(mailbox)
      BY <1>7, <2>2 DEF WorkerAppends
    <3>2. mailbox[worker.job] \in Letters(n)
      BY <1>7, <3>1, ElementOfSeq
    <3>3. mailbox[worker.job].sequence \in 1 .. n
      BY <3>2 DEF Letters
    <3>4. Append(inbox, mailbox[worker.job].sequence) \in Seq(1 .. n)
      BY <1>7, <3>3, AppendProperties
    <3>5. inbox' \in {inbox, Append(inbox, mailbox[worker.job].sequence)} /\ taken' = taken
      BY <2>2 DEF WorkerAppends
    <3> QED
      BY <1>7, <3>4, <3>5
  <2>3. CASE Takes
    <3>1. Head(inbox) \in 1 .. n /\ Tail(inbox) \in Seq(1 .. n)
      BY <1>7, <2>3, HeadTailProperties DEF Takes
    <3>2. Append(taken, Head(inbox)) \in Seq(1 .. n)
      BY <1>7, <3>1, AppendProperties
    <3> QED
      BY <1>7, <2>3, <3>1, <3>2 DEF Takes
  <2> QED
    BY <2>1, <2>2, <2>3 DEF Dispatch, WorkerReads, WorkerChecks, WorkerFinishes, WorkerFails,
       WorkerRetries
<1>12. AgentTyped'
  BY <1>4, <1>8, <1>10, <1>11 DEF AgentTyped, WorkerPlaces, Letters
<1> QED
  BY <1>3, <1>5, <1>8, <1>9, <1>12, ReceivingKeeps DEF Letters

LEMMA CrashKeeps ==
    ASSUME ChatInvariant, Crash
    PROVE  ChatInvariant'
<1> DEFINE n == Len(notices)
<1>1. n \in Nat
  BY Lengths DEF ChatInvariant, TypeOK
<1>2. ReceivingHolds /\ AgentTyped
  BY ReceivingShapes DEF ChatInvariant, TypeOK
<1>3. /\ UNCHANGED <<place, publisher, out, policy, source, mailbox, taken>>
      /\ call' = Idle /\ wire' \subseteq wire
      /\ task' = Off /\ feed' = NoFeed /\ worker' = NoWorker /\ inbox' = <<>>
      /\ signals' = [sources |-> source.registered, mailbox |-> Pending # {}]
      /\ faults < MaxFaults /\ faults' = faults + 1
  BY DEF Crash
<1>4. UNCHANGED <<posted, prefs, notices, receipts, effects>>
  BY <1>3 DEF publisher
<1>5. CallerTyped' /\ Asked' /\ ReceiptsHold' /\ PreferencesAgree'
  <2>1. Idle \in CallRecords /\ Idle.pc = "idle"
    BY DEF Idle, CallRecords, CallPlaces
  <2>2. wire' \subseteq Cmds \X BOOLEAN /\ \A w \in wire' : out[w[1]].op # None
    BY <1>3, FrozenStays
  <2> QED
    BY <1>3, <2>1, <2>2, CallMoves
<1>6. PublisherTyped'
  BY <1>4 DEF ChatInvariant, TypeOK, PublisherTyped
<1>7. ReaderTyped'
  <2>1. source \in [registered : BOOLEAN, position : 0 .. n]
    BY <1>2 DEF ReceivingHolds
  <2>2. signals' \in [sources : BOOLEAN, mailbox : BOOLEAN]
    BY <1>3, <2>1
  <2> QED
    BY <1>1, <1>3, <1>4, <2>1, <2>2 DEF ReaderTyped, Off, NoFeed
<1>8. AgentTyped'
  BY <1>2, <1>3, <1>4 DEF AgentTyped, NoWorker
<1>9. MailHonest'
  BY <1>3, <1>4 DEF ChatInvariant, MailHonest, NoFeed
<1>10. TypeOK'
  BY <1>3, <1>5, <1>6, <1>7, <1>8, FaultsBounded DEF ChatInvariant, TypeOK
<1> QED
  BY <1>5, <1>9, <1>10 DEF ChatInvariant

-----------------------------------------------------------------------------
(* The theorems. *)

LEMMA StutterKeeps ==
    ASSUME ChatInvariant, UNCHANGED vars
    PROVE  ChatInvariant'
<1>1. UNCHANGED <<place, publisher, out, policy, call, wire, source, mailbox, signals, reading,
                 delivering, faults>>
  BY DEF vars, caller
<1>2. CallerTyped'
  BY <1>1 DEF ChatInvariant, TypeOK, CallerTyped
<1>3. TypeOK' /\ MailHonest'
  BY <1>1, <1>2, CallerFrame DEF ChatInvariant, TypeOK, ReaderTyped
<1>4. UNCHANGED <<prefs, notices, receipts, effects>>
  BY <1>1 DEF publisher
<1>5. Asked' /\ ReceiptsHold' /\ PreferencesAgree'
  BY <1>1, <1>4 DEF ChatInvariant, Asked, ReceiptsHold, PreferencesAgree, Given, Told, Covers,
     Same, NotAfter
<1> QED
  BY <1>3, <1>5 DEF ChatInvariant

LEMMA NextKeeps ==
    ASSUME ChatInvariant, [Next]_vars
    PROVE  ChatInvariant'
<1>1. CASE Post
  BY <1>1, PostKeeps
<1>2. CASE Command
  <2>1. CASE \E c \in Cmds : Freeze(c) \/ Withdraw(c) \/ Retry(c) \/ Recover(c)
    BY <2>1, FreezeKeeps, WithdrawKeeps, CallsKeep
  <2>2. CASE \E c \in Cmds, interrupt \in BOOLEAN : Execute(c, interrupt)
    BY <2>2, ExecuteKeeps
  <2>3. CASE Register \/ Send \/ RecordPolicy \/ Settle
    BY <2>3, CallsKeep, RecordPolicyKeeps, SettleKeeps
  <2> QED
    BY <1>2, <2>1, <2>2, <2>3 DEF Command
<1>3. CASE Delivery
  BY <1>3, ConnectionsKeep, FeedReadKeeps, AcceptKeeps, WorkersKeep DEF Delivery
<1>4. CASE MeshChanged
  BY <1>4, ConnectionsKeep
<1>5. CASE Faulty
  BY <1>5, CallsKeep, ConnectionsKeep, WorkersKeep, CrashKeeps DEF Faulty
<1>6. CASE UNCHANGED vars
  BY <1>6, StutterKeeps
<1> QED
  BY <1>1, <1>2, <1>3, <1>4, <1>5, <1>6 DEF Next

\* The invariant behind the theorems: frozen commands, receipts, preferences and mail
\* agree in every reachable state, whatever is lost, repeated or interrupted.
THEOREM ChatInvariantHolds == Spec => []ChatInvariant
<1>1. Init => ChatInvariant
  BY InitChat
<1>2. ChatInvariant /\ [Next]_vars => ChatInvariant'
  BY NextKeeps
<1> QED
  BY <1>1, <1>2, PTL DEF Spec

\* Every variable keeps its shape; in particular no cursor, letter or position names
\* a notice the publisher does not have.
THEOREM TypesHold == Spec => []TypeOK
<1>1. ChatInvariant => TypeOK
  BY DEF ChatInvariant
<1> QED
  BY <1>1, ChatInvariantHolds, PTL

\* A command runs at most once, and its caller is told the truth about it: the receipt
\* and the effect are written together, and a cancellation is final.
THEOREM CallersAreToldTheTruth == Spec => []ToldTheTruth
<1>1. ChatInvariant => ToldTheTruth
  <2> SUFFICES ASSUME ChatInvariant, NEW c \in Cmds
               PROVE  /\ effects[c] <= 1
                      /\ c \in Told("cancelled") => effects[c] = 0
                      /\ c \in Told("preferred") => effects[c] = 1
    BY DEF ToldTheTruth
  <2>1. effects[c] = IF c \in Given THEN 1 ELSE 0
    BY DEF ChatInvariant, ReceiptsHold
  <2>2. ASSUME c \in Told("cancelled")
        PROVE  c \notin Given
    <3>1. out[c].result = Cancelled
      BY <2>2, CallerShapes, ResultShapes DEF ChatInvariant, TypeOK, Told
    <3> QED
      BY <3>1 DEF ChatInvariant, ReceiptsHold, Asked
  <2>3. ASSUME c \in Told("preferred")
        PROVE  c \in Given
    BY <2>3 DEF ChatInvariant, ReceiptsHold, Told, Given
  <2> QED
    BY <2>1, <2>2, <2>3
<1> QED
  BY <1>1, ChatInvariantHolds, PTL

\* Only the runner adds to what it took, and only past the last position.
LEMMA StepKeepsOrder ==
    ASSUME TypeOK, TakenInOrder, [Next]_vars
    PROVE  TakenInOrder'
<1> DEFINE n == Len(notices)
<1>1. taken \in Seq(1 .. n) /\ inbox \in Seq(1 .. n)
  BY DEF TypeOK, AgentTyped
<1>2. Len(taken) \in Nat /\ DOMAIN taken = 1 .. Len(taken)
  BY <1>1, LenProperties
<1>3. CASE UNCHANGED taken
  BY <1>3 DEF TakenInOrder
<1>4. CASE inbox # <<>> /\ Fresh(Head(inbox)) /\ taken' = Append(taken, Head(inbox))
  <2>1. Head(inbox) \in 1 .. n
    BY <1>1, <1>4, HeadTailProperties
  <2>2. /\ taken' \in Seq(1 .. n) /\ Len(taken') = Len(taken) + 1
        /\ \A i \in 1 .. Len(taken) : taken'[i] = taken[i]
        /\ taken'[Len(taken) + 1] = Head(inbox)
    BY <1>1, <1>4, <2>1, AppendProperties
  <2>3. DOMAIN taken' = 1 .. Len(taken) + 1
    BY <2>2, LenProperties
  <2>4. ASSUME NEW i \in 1 .. Len(taken) + 1, NEW j \in 1 .. Len(taken) + 1, i < j
        PROVE  taken'[i] < taken'[j]
    <3>1. i \in 1 .. Len(taken) /\ taken'[i] = taken[i]
      BY <1>2, <2>2, <2>4
    <3>2. CASE j \in 1 .. Len(taken)
      BY <1>2, <2>2, <2>4, <3>1, <3>2 DEF TakenInOrder
    <3>3. CASE j = Len(taken) + 1
      <4>1. taken # <<>>
        BY <1>2, <3>1
      <4>2. Head(inbox) > taken[Len(taken)]
        BY <1>4, <4>1 DEF Fresh, Last
      <4>3. taken[i] <= taken[Len(taken)]
        <5>1. \A k \in 1 .. Len(taken) : taken[k] \in Nat
          BY <1>1, ElementOfSeq
        <5>2. Len(taken) \in DOMAIN taken /\ i \in DOMAIN taken
          BY <1>2, <3>1
        <5>3. i < Len(taken) \/ i = Len(taken)
          <6>1. Len(taken) \in Nat /\ i \in 1 .. Len(taken)
            BY <1>2, <3>1
          <6> QED
            BY <6>1
        <5> QED
          BY <1>2, <5>1, <5>2, <5>3 DEF TakenInOrder
      <4>4. taken[i] \in Nat /\ taken[Len(taken)] \in Nat
        BY <1>1, <1>2, <3>1, ElementOfSeq
      <4> QED
        BY <2>1, <2>2, <3>1, <3>3, <4>2, <4>3, <4>4
    <3> QED
      BY <1>2, <3>2, <3>3
  <2> QED
    BY <2>3, <2>4 DEF TakenInOrder
<1>5. UNCHANGED taken \/ Takes
  BY DEF Next, Command, Delivery, Faulty, Post, Execute, Freeze, Withdraw, Retry, Recover, Register,
     Send, RecordPolicy, Settle, SourcesRead, FeedConnect, FeedRead, Accept, Resume, Dispatch,
     WorkerReads, WorkerChecks, WorkerAppends, WorkerFinishes, WorkerRetries, MeshChanged,
     CallFails, FeedBreaks, SourceFails, WorkerFails, Crash, delivering, vars
<1>6. ASSUME Takes
      PROVE  \/ UNCHANGED taken
             \/ inbox # <<>> /\ Fresh(Head(inbox)) /\ taken' = Append(taken, Head(inbox))
  BY <1>6 DEF Takes
<1> QED
  BY <1>3, <1>4, <1>5, <1>6

\* An agent takes the notices of a publisher in their order and none twice, whatever
\* attempts, pages, crashes and restarts repeat.
THEOREM NoticesTakenInOrder == Spec => []TakenInOrder
<1>1. Init => TakenInOrder
  BY DEF Init, TakenInOrder
<1>2. TypeOK /\ TakenInOrder /\ [Next]_vars => TakenInOrder'
  BY StepKeepsOrder
<1> QED
  BY <1>1, <1>2, TypesHold, PTL DEF Spec

\* What is accepted is not older than anything the agent was told, nor of a
\* preference it was told it had given up.
LEMMA AcceptedIsAllowed ==
    ASSUME ChatInvariant, NEW g \in Nat, Accepts(g)
    PROVE  Allowed(g)
<1> SUFFICES ASSUME NEW c \in Told("preferred")
             PROVE  LET p == out[c].result.prefs
                    IN  p.revision < g \/ (p.revision = g /\ p.subscribed)
  BY DEF Allowed
<1> DEFINE p == out[c].result.prefs
<1>1. c \in Given /\ receipts[c].result = out[c].result /\ Covers(p)
  BY DEF ChatInvariant, ReceiptsHold, PreferencesAgree, Told, Given
<1>2. p \in Preferences /\ prefs \in Preferences
  BY CallerShapes, ResultShapes DEF ChatInvariant, TypeOK, PublisherTyped, Told
<1>3. CASE place = "local"
  <2>1. prefs.subscribed /\ prefs.revision = g
    BY <1>3 DEF Accepts
  <2>2. Same(p, prefs) /\ NotAfter(p, prefs)
    BY <1>1 DEF ChatInvariant, PreferencesAgree
  <2> QED
    BY <1>2, <2>1, <2>2 DEF Same, NotAfter, Preferences
<1>4. CASE place # "local"
  <2>1. policy # None /\ policy.generation >= p.revision /\ policy \in Policies
    BY <1>1 DEF Covers, ChatInvariant, TypeOK, CallerTyped
  <2>2. g > policy.generation \/ (policy.subscribed /\ g = policy.generation)
    BY <1>4, <2>1 DEF Accepts
  <2>3. PICK d \in Given : policy = Policy(receipts[d].result.prefs)
    BY <2>1 DEF ChatInvariant, PreferencesAgree
  <2> DEFINE q == receipts[d].result.prefs
  <2>4. policy.generation = q.revision /\ policy.subscribed = q.subscribed
    BY <2>3 DEF Policy
  <2>5. Same(p, q)
    BY <1>1 DEF ChatInvariant, PreferencesAgree
  <2> HIDE DEF q
  <2> QED
    BY <1>2, <2>1, <2>2, <2>4, <2>5 DEF Same, Preferences, Policies
<1> QED
  BY <1>3, <1>4

\* Once an agent was told of a preference, nothing older is handed to its session, and
\* nothing of that one if it unsubscribed: the worker asks again just before it appends.
THEOREM RevokedIsNotHandedOver == Spec => RevokedStaysOut
<1> DEFINE A == Len(inbox') > Len(inbox) => Allowed(notices[Last(inbox')].generation)
<1>1. ChatInvariant /\ [Next]_vars => [A]_vars
  <2> SUFFICES ASSUME ChatInvariant, [Next]_vars
               PROVE  A
    OBVIOUS
  <2>1. inbox \in Seq(1 .. Len(notices)) /\ Len(inbox) \in Nat
    BY LenProperties DEF ChatInvariant, TypeOK, AgentTyped
  <2>2. CASE inbox' \in {inbox, <<>>} \/ (inbox # <<>> /\ inbox' = Tail(inbox))
    <3>1. inbox # <<>> => Len(Tail(inbox)) = Len(inbox) - 1
      BY <2>1, HeadTailProperties
    <3>2. Len(<<>>) = 0
      OBVIOUS
    <3> QED
      BY <2>1, <2>2, <3>1, <3>2
  <2>3. CASE WorkerAppends /\ inbox' # inbox
    <3> DEFINE letter == mailbox[worker.job]
    <3>1. worker.pc = "ready" /\ StillAccepted /\ inbox' = Append(inbox, letter.sequence)
      BY <2>3 DEF WorkerAppends
    <3>2. worker.job \in DOMAIN mailbox
      BY <3>1 DEF ChatInvariant, TypeOK, AgentTyped
    <3>3. letter \in Letters(Len(notices))
      <4>1. mailbox \in Seq(Letters(Len(notices)))
        BY ReceivingShapes DEF ReceivingHolds
      <4> QED
        BY <3>2, <4>1, ElementOfSeq, LenProperties
    <3>4. letter.generation \in Nat /\ letter.sequence \in 1 .. Len(notices)
      BY <3>3 DEF Letters
    <3>5. letter.generation = notices[letter.sequence].generation
      BY <3>2 DEF ChatInvariant, MailHonest
    <3>6. Accepts(letter.generation)
      BY <3>1 DEF StillAccepted, JobAccepted
    <3>7. Last(inbox') = letter.sequence
      BY <2>1, <3>1, <3>4, AppendProperties DEF Last
    <3> HIDE DEF letter
    <3> QED
      BY <3>4, <3>5, <3>6, <3>7, AcceptedIsAllowed
  <2>4. inbox' \in {inbox, <<>>} \/ (inbox # <<>> /\ inbox' = Tail(inbox)) \/ WorkerAppends
    BY DEF Next, Command, Delivery, Faulty, Post, Execute, Freeze, Withdraw, Retry, Recover,
       Register, Send, RecordPolicy, Settle, SourcesRead, FeedConnect, FeedRead, Accept, Resume,
       Dispatch, WorkerReads, WorkerChecks, WorkerFinishes, WorkerRetries, Takes, MeshChanged,
       CallFails, FeedBreaks, SourceFails, WorkerFails, Crash, delivering, vars
  <2> QED
    BY <2>2, <2>3, <2>4
<1> QED
  BY <1>1, ChatInvariantHolds, PTL DEF Spec, RevokedStaysOut

-----------------------------------------------------------------------------
(***************************************************************************)
(* What the cursor passes over.  A notice in force is of the preference in *)
(* force, so no check on the way refuses it; pages follow one another from  *)
(* the cursor on; and since a worker takes the oldest row first, whatever   *)
(* the agent holds or is about to be given comes after all that it misses.  *)
(***************************************************************************)
InForceIsCurrent ==
    \A k \in DOMAIN notices :
        InForce(k) => prefs.subscribed /\ notices[k].generation = prefs.revision
ItemsInForce ==
    \A i \in DOMAIN feed.pages : \A k \in DOMAIN feed.pages[i].items :
        InForce(feed.pages[i].after + k) => feed.pages[i].items[k].active

\* A page starts at the position or where an earlier page ends.
PagesConnected ==
    /\ \A i \in DOMAIN feed.pages :
          \/ feed.pages[i].after <= source.position
          \/ \E j \in 1 .. (i - 1) : feed.pages[i].after <= Through(feed.pages[j])
    /\ \/ feed.cursor <= source.position
       \/ \E j \in DOMAIN feed.pages : feed.cursor <= Through(feed.pages[j])
    /\ feed.request <= source.position
    /\ task.pc = "resume" => task.through <= source.position

MailInOrder ==
    /\ \A i, j \in DOMAIN mailbox : i < j => mailbox[i].sequence < mailbox[j].sequence
    /\ \A j \in DOMAIN mailbox : mailbox[j].sequence <= source.position
PositionCovered ==
    \A k \in DOMAIN notices :
        k <= source.position /\ InForce(k) => \E j \in DOMAIN mailbox : mailbox[j].sequence = k
DeliveredIsTaken ==
    \A j \in DOMAIN mailbox :
        mailbox[j].delivered /\ InForce(mailbox[j].sequence)
            => mailbox[j].sequence \in ToSet(taken)
AtWork == worker.pc \in {"check", "ready", "sent", "finish"}
OldestFirst ==
    /\ AtWork => \A i \in DOMAIN mailbox : i < worker.job => mailbox[i].delivered
    /\ worker.pc = "sent" => inbox # <<>> /\ Last(inbox) = mailbox[worker.job].sequence
    /\ worker.pc = "finish" /\ InForce(mailbox[worker.job].sequence)
          => mailbox[worker.job].sequence \in ToSet(taken)
NothingMissedBefore(x) ==
    /\ x <= source.position
    /\ \A j \in DOMAIN mailbox :
          mailbox[j].sequence < x /\ InForce(mailbox[j].sequence)
              => mailbox[j].sequence \in ToSet(taken)
NothingMissed == \A x \in ToSet(inbox) \cup ToSet(taken) : NothingMissedBefore(x)

CursorInvariant ==
    /\ InForceIsCurrent /\ ItemsInForce /\ PagesConnected
    /\ MailInOrder /\ PositionCovered /\ DeliveredIsTaken /\ OldestFirst /\ NothingMissed

LEMMA CursorShapes ==
    ASSUME ChatInvariant
    PROVE  /\ Len(notices) \in Nat /\ DOMAIN notices = 1 .. Len(notices)
           /\ source.position \in 0 .. Len(notices)
           /\ feed.cursor \in 0 .. Len(notices) /\ feed.request \in 0 .. Len(notices)
           /\ task.through \in 0 .. Len(notices)
           /\ Len(mailbox) \in Nat /\ DOMAIN mailbox = 1 .. Len(mailbox)
           /\ \A j \in DOMAIN mailbox :
                 /\ mailbox[j].sequence \in 1 .. Len(notices)
                 /\ mailbox[j].generation = notices[mailbox[j].sequence].generation
           /\ inbox \in Seq(1 .. Len(notices)) /\ taken \in Seq(1 .. Len(notices))
           /\ AtWork => worker.job \in DOMAIN mailbox
<1>1. ReceivingHolds /\ PublisherTyped /\ AgentTyped
  BY ReceivingShapes DEF ChatInvariant, TypeOK
<1>2. Len(notices) \in Nat /\ DOMAIN notices = 1 .. Len(notices)
  BY <1>1, Lengths
<1>3. mailbox \in Seq(Letters(Len(notices)))
  BY <1>1 DEF ReceivingHolds
<1>4. Len(mailbox) \in Nat /\ DOMAIN mailbox = 1 .. Len(mailbox)
  BY <1>3, LenProperties
<1>5. ASSUME NEW j \in DOMAIN mailbox
      PROVE  mailbox[j].sequence \in 1 .. Len(notices)
  <2>1. mailbox[j] \in Letters(Len(notices))
    BY <1>3, <1>4, ElementOfSeq
  <2> QED
    BY <2>1 DEF Letters
<1>6. AtWork => worker.job \in DOMAIN mailbox
  BY <1>1 DEF AgentTyped, AtWork
<1> QED
  BY <1>1, <1>2, <1>4, <1>5, <1>6 DEF ReceivingHolds, Connections, AgentTyped

LEMMA PageShapes ==
    ASSUME ChatInvariant
    PROVE  /\ feed.pages \in Seq(Pages)
           /\ Len(feed.pages) \in Nat /\ DOMAIN feed.pages = 1 .. Len(feed.pages)
           /\ \A i \in DOMAIN feed.pages :
                 /\ feed.pages[i] \in Pages
                 /\ feed.pages[i].after \in Nat /\ Through(feed.pages[i]) \in 0 .. Len(notices)
                 /\ \A k \in DOMAIN feed.pages[i].items :
                       feed.pages[i].after + k \in 1 .. Len(notices)
<1>1. ReceivingHolds /\ Len(notices) \in Nat
  BY ReceivingShapes, CursorShapes
<1>2. feed.pages \in Seq(Pages)
  BY <1>1 DEF ReceivingHolds, Connections
<1>3. Len(feed.pages) \in Nat /\ DOMAIN feed.pages = 1 .. Len(feed.pages)
  BY <1>2, LenProperties
<1>4. ASSUME NEW i \in DOMAIN feed.pages
      PROVE  /\ feed.pages[i] \in Pages
             /\ feed.pages[i].after \in Nat /\ Through(feed.pages[i]) \in 0 .. Len(notices)
             /\ \A k \in DOMAIN feed.pages[i].items :
                   feed.pages[i].after + k \in 1 .. Len(notices)
  <2>1. feed.pages[i] \in Pages
    BY <1>2, <1>3, ElementOfSeq
  <2>2. /\ feed.pages[i].after \in Nat /\ Len(feed.pages[i].items) \in Nat
        /\ DOMAIN feed.pages[i].items = 1 .. Len(feed.pages[i].items)
    BY <2>1, LenProperties DEF Pages
  <2>3. Through(feed.pages[i]) <= Len(notices)
    BY <1>1, <1>3 DEF ReceivingHolds, Faithful
  <2> QED
    BY <1>1, <2>1, <2>2, <2>3 DEF Through
<1> QED
  BY <1>2, <1>3, <1>4

\* What is in force, no check of the receiving side refuses.
LEMMA InForceIsAccepted ==
    ASSUME ChatInvariant, InForceIsCurrent, NEW k \in DOMAIN notices, InForce(k)
    PROVE  Accepts(notices[k].generation)
<1>1. prefs \in Preferences /\ prefs.subscribed /\ notices[k].generation = prefs.revision
  BY DEF ChatInvariant, TypeOK, PublisherTyped, InForceIsCurrent
<1>2. CASE place = "local"
  BY <1>1, <1>2 DEF Accepts
<1>3. CASE place # "local" /\ policy = None
  BY <1>3 DEF Accepts
<1>4. CASE place # "local" /\ policy # None
  <2>1. PICK c \in Given : policy = Policy(receipts[c].result.prefs)
    BY <1>4 DEF ChatInvariant, PreferencesAgree
  <2>2. /\ Same(receipts[c].result.prefs, prefs)
        /\ NotAfter(receipts[c].result.prefs, prefs)
    BY DEF ChatInvariant, PreferencesAgree
  <2>3. receipts[c].result.prefs \in Preferences
    BY ResultShapes DEF ChatInvariant, TypeOK, PublisherTyped, ReceiptsHold, Given
  <2> DEFINE p == receipts[c].result.prefs
  <2>4. policy.generation = p.revision /\ policy.subscribed = p.subscribed
    BY <2>1 DEF Policy
  <2>5. p.revision \in Nat /\ prefs.revision \in Nat /\ p.revision <= prefs.revision
    BY <1>1, <2>2, <2>3 DEF Preferences, NotAfter
  <2>6. p.revision = prefs.revision => p = prefs
    BY <2>2 DEF Same
  <2> HIDE DEF p
  <2>7. prefs.revision # policy.generation => prefs.revision > policy.generation
    BY <2>4, <2>5
  <2>8. prefs.revision = policy.generation => policy.subscribed
    BY <1>1, <2>4, <2>6
  <2> QED
    BY <1>1, <1>4, <2>7, <2>8 DEF Accepts
<1> QED
  BY <1>2, <1>3, <1>4

-----------------------------------------------------------------------------
(* The publisher's steps. *)

NoticesFade ==
    /\ Len(notices') >= Len(notices)
    /\ \A k \in DOMAIN notices : InForce(k)' => InForce(k)

LEMMA FadingKeepsCursor ==
    ASSUME ChatInvariant, ChatInvariant', CursorInvariant, NoticesFade, InForceIsCurrent',
           UNCHANGED <<source, mailbox, reading, delivering>>
    PROVE  CursorInvariant'
<1>1. UNCHANGED <<source, mailbox, task, feed, worker, inbox, taken>>
  BY DEF reading, delivering
<1>2. \A k \in 1 .. Len(notices) : InForce(k)' => InForce(k)
  BY CursorShapes DEF NoticesFade
<1>3. ItemsInForce'
  <2>1. ASSUME NEW i \in DOMAIN feed.pages, NEW k \in DOMAIN feed.pages[i].items,
               InForce(feed.pages[i].after + k)'
        PROVE  feed.pages[i].items[k].active
    <3>1. feed.pages[i].after + k \in 1 .. Len(notices)
      BY PageShapes
    <3>2. notices'[feed.pages[i].after + k].active
      BY <1>1, <2>1 DEF InForce
    <3>3. InForce(feed.pages[i].after + k)
      BY <1>2, <3>1, <3>2 DEF InForce
    <3> QED
      BY <3>3 DEF CursorInvariant, ItemsInForce
  <2> QED
    BY <1>1, <2>1 DEF ItemsInForce, InForce
<1>4. PagesConnected'
  BY <1>1 DEF CursorInvariant, PagesConnected, Through
<1>5. MailInOrder'
  BY <1>1 DEF CursorInvariant, MailInOrder
<1>6. ASSUME NEW j \in DOMAIN mailbox, InForce(mailbox[j].sequence)'
      PROVE  InForce(mailbox[j].sequence)
  BY <1>1, <1>2, <1>6, CursorShapes DEF InForce
<1>7. PositionCovered'
  <2>1. ASSUME NEW k \in DOMAIN notices', k <= source.position, InForce(k)'
        PROVE  \E j \in DOMAIN mailbox : mailbox[j].sequence = k
    <3>1. k \in 1 .. Len(notices) /\ k \in DOMAIN notices
      <4>1. DOMAIN notices' = 1 .. Len(notices')
        BY CursorShapes
      <4> QED
        BY <2>1, <4>1, CursorShapes
    <3> QED
      BY <1>2, <2>1, <3>1 DEF CursorInvariant, PositionCovered, InForce
  <2> QED
    BY <1>1, <2>1 DEF PositionCovered, InForce
<1>8. DeliveredIsTaken'
  BY <1>1, <1>6 DEF CursorInvariant, DeliveredIsTaken, InForce
<1>9. OldestFirst'
  <2>1. AtWork' = AtWork
    BY <1>1 DEF AtWork
  <2>2. ASSUME worker.pc = "finish", notices'[mailbox[worker.job].sequence].active
        PROVE  InForce(mailbox[worker.job].sequence)
    <3>1. worker.job \in DOMAIN mailbox
      BY <2>2, CursorShapes DEF AtWork
    <3> QED
      BY <1>1, <1>6, <2>2, <3>1 DEF InForce
  <2> QED
    BY <1>1, <2>1, <2>2 DEF CursorInvariant, OldestFirst, InForce
<1>10. NothingMissed'
  <2>1. ASSUME NEW x \in ToSet(inbox) \cup ToSet(taken)
        PROVE  NothingMissedBefore(x)'
    BY <1>1, <1>6 DEF CursorInvariant, NothingMissed, NothingMissedBefore, InForce
  <2> QED
    BY <1>1, <2>1 DEF NothingMissed
<1> QED
  BY <1>3, <1>4, <1>5, <1>7, <1>8, <1>9, <1>10 DEF CursorInvariant

LEMMA PostKeepsCursor ==
    ASSUME ChatInvariant, ChatInvariant', CursorInvariant, Post
    PROVE  CursorInvariant'
<1>1. /\ notices \in Seq(Notices) /\ Len(notices) \in Nat /\ DOMAIN notices = 1 .. Len(notices)
      /\ Notice(posted + 1, prefs) \in Notices
  BY CursorShapes DEF ChatInvariant, TypeOK, PublisherTyped, Notice, Notices, Preferences
<1>2. UNCHANGED <<prefs, source, mailbox, reading, delivering>>
  BY DEF Post
<1>3. CASE prefs.subscribed
  <2>1. notices' = Append(notices, Notice(posted + 1, prefs))
    BY <1>3 DEF Post
  <2>2. /\ Len(notices') = Len(notices) + 1
        /\ \A k \in 1 .. Len(notices) : notices'[k] = notices[k]
        /\ notices'[Len(notices) + 1] = Notice(posted + 1, prefs)
        /\ DOMAIN notices' = 1 .. Len(notices) + 1
    BY <1>1, <2>1, AppendProperties, LenProperties
  <2>3. NoticesFade
    BY <1>1, <2>2 DEF NoticesFade, InForce
  <2>4. InForceIsCurrent'
    <3>1. ASSUME NEW k \in DOMAIN notices', notices'[k].active
          PROVE  prefs.subscribed /\ notices'[k].generation = prefs.revision
      <4>1. k \in 1 .. Len(notices) \/ k = Len(notices) + 1
        BY <1>1, <2>2
      <4>2. CASE k \in 1 .. Len(notices)
        BY <1>1, <2>2, <3>1, <4>2 DEF CursorInvariant, InForceIsCurrent, InForce
      <4>3. CASE k = Len(notices) + 1
        BY <1>3, <2>2, <4>3 DEF Notice
      <4> QED
        BY <4>1, <4>2, <4>3
    <3> QED
      BY <1>2, <3>1 DEF InForceIsCurrent, InForce
  <2> QED
    BY <1>2, <2>3, <2>4, FadingKeepsCursor
<1>4. CASE ~prefs.subscribed
  <2>1. UNCHANGED notices
    BY <1>4 DEF Post
  <2>2. NoticesFade /\ InForceIsCurrent'
    BY <1>1, <1>2, <2>1 DEF CursorInvariant, NoticesFade, InForceIsCurrent, InForce
  <2> QED
    BY <1>2, <2>2, FadingKeepsCursor
<1> QED
  BY <1>3, <1>4

\* A change of preferences revokes all there is before it queues anything of its own.
LEMMA UpdateFades ==
    ASSUME ChatInvariant, ChatInvariant', InForceIsCurrent,
           NEW op \in Requests, UpdatePreferences(op)
    PROVE  NoticesFade /\ InForceIsCurrent'
<1>1. /\ notices \in Seq(Notices) /\ Len(notices) \in Nat /\ DOMAIN notices = 1 .. Len(notices)
      /\ prefs \in Preferences /\ op.subscribed \in BOOLEAN
  BY CursorShapes, RequestShapes DEF ChatInvariant, TypeOK, PublisherTyped
<1>2. DOMAIN notices' = 1 .. Len(notices') /\ Len(notices') \in Nat
  BY CursorShapes
<1>3. CASE Changes(op)
  <2> DEFINE old == [k \in DOMAIN notices |-> Revoked(notices[k])]
             new == Replayed(op)
  <2>1. /\ old \in Seq(Notices) /\ Len(old) = Len(notices)
        /\ \A k \in 1 .. Len(notices) : ~old[k].active
    <3>1. \A k \in 1 .. Len(notices) :
             Revoked(notices[k]) \in Notices /\ ~Revoked(notices[k]).active
      <4>1. \A k \in 1 .. Len(notices) : notices[k] \in Notices
        BY <1>1, ElementOfSeq
      <4> QED
        BY <4>1 DEF Revoked, Notices
    <3>2. old = [k \in 1 .. Len(notices) |-> Revoked(notices[k])]
      BY <1>1
    <3>3. [k \in 1 .. Len(notices) |-> Revoked(notices[k])] \in Seq(Notices)
      BY <1>1, <3>1, IsASeq
    <3>4. Len(old) = Len(notices)
      BY <1>1, <3>2, <3>3, LenProperties
    <3> QED
      BY <1>1, <3>1, <3>2, <3>3, <3>4
  <2>2. /\ NextPrefs(op) \in Preferences /\ prefs' = NextPrefs(op)
        /\ prefs'.subscribed = op.subscribed
    BY UpdateGrows DEF ChatInvariant, NextPrefs
  <2>3. /\ new \in Seq(Notices)
        /\ \A i \in 1 .. Len(new) :
              op.subscribed /\ new[i].generation = NextPrefs(op).revision
    <3>1. CASE op.subscribed /\ op.start \in 1 .. posted
      <4> DEFINE item(i) == Notice(op.start + i, NextPrefs(op))
      <4>1. posted - op.start \in Nat /\ posted \in Nat
        BY <3>1 DEF ChatInvariant, TypeOK, PublisherTyped
      <4>2. \A i \in 1 .. (posted - op.start) : item(i) \in Notices
        BY <2>2, <3>1, <4>1 DEF Notice, Notices, Preferences
      <4>3. \A i \in 1 .. (posted - op.start) : item(i).generation = NextPrefs(op).revision
        BY DEF Notice
      <4>4. new = [i \in 1 .. (posted - op.start) |-> item(i)]
        BY <3>1 DEF Replayed
      <4> HIDE DEF item
      <4>5. [i \in 1 .. (posted - op.start) |-> item(i)] \in Seq(Notices)
        BY <4>1, <4>2, IsASeq
      <4>6. Len(new) = posted - op.start
        BY <4>1, <4>4, <4>5, LenProperties
      <4>7. \A i \in 1 .. Len(new) : new[i] = item(i)
        BY <4>4, <4>6
      <4> QED
        BY <3>1, <4>3, <4>4, <4>5, <4>6, <4>7
    <3>2. CASE ~(op.subscribed /\ op.start \in 1 .. posted)
      <4>1. new = <<>>
        BY <3>2 DEF Replayed
      <4> QED
        BY <4>1
    <3> QED
      BY <3>1, <3>2
  <2>4. notices' = old \o new
    BY <1>3 DEF UpdatePreferences
  <2> HIDE DEF old, new
  <2>5. Len(new) \in Nat
    BY <2>3, LenProperties
  <2>6. /\ Len(notices') = Len(notices) + Len(new)
        /\ \A k \in 1 .. Len(notices) + Len(new) :
              notices'[k] = IF k <= Len(notices) THEN old[k] ELSE new[k - Len(notices)]
    <3>1. /\ Len(old \o new) = Len(old) + Len(new)
          /\ \A k \in 1 .. Len(old) + Len(new) :
                (old \o new)[k] = IF k <= Len(old) THEN old[k] ELSE new[k - Len(old)]
      BY <2>1, <2>3, ConcatProperties
    <3> QED
      BY <2>1, <2>4, <3>1
  <2>7. NoticesFade
    <3>1. \A k \in 1 .. Len(notices) : ~notices'[k].active
      BY <1>1, <2>1, <2>5, <2>6
    <3> QED
      BY <1>1, <2>5, <2>6, <3>1 DEF NoticesFade, InForce
  <2>8. ASSUME NEW k \in DOMAIN notices', notices'[k].active
        PROVE  prefs'.subscribed /\ notices'[k].generation = prefs'.revision
    <3>1. k \in 1 .. Len(notices) + Len(new)
      BY <1>2, <2>6, <2>8
    <3>2. ~(k <= Len(notices))
      BY <1>1, <2>1, <2>6, <2>8, <3>1
    <3>3. notices'[k] = new[k - Len(notices)] /\ k - Len(notices) \in 1 .. Len(new)
      BY <1>1, <2>5, <2>6, <3>1, <3>2
    <3> QED
      BY <2>2, <2>3, <3>3
  <2> QED
    BY <2>7, <2>8 DEF InForceIsCurrent, InForce
<1>4. CASE ~Changes(op)
  <2>1. UNCHANGED notices /\ op.subscribed = prefs.subscribed
    BY <1>4 DEF UpdatePreferences, Changes
  <2>2. prefs'.subscribed = prefs.subscribed /\ prefs'.revision = prefs.revision
    BY <1>1, <1>4, <2>1 DEF UpdatePreferences, NextPrefs, Preferences
  <2> QED
    BY <1>1, <2>1, <2>2 DEF NoticesFade, InForceIsCurrent, InForce
<1> QED
  BY <1>3, <1>4

LEMMA CommandKeepsCursor ==
    ASSUME ChatInvariant, ChatInvariant', CursorInvariant,
           Command \/ CallFails \/ UNCHANGED vars
    PROVE  CursorInvariant'
<1>1. CASE UNCHANGED <<notices, prefs, source, mailbox, reading, delivering>>
  <2>1. NoticesFade /\ InForceIsCurrent'
    BY <1>1, CursorShapes DEF CursorInvariant, NoticesFade, InForceIsCurrent, InForce
  <2> QED
    BY <1>1, <2>1, FadingKeepsCursor
<1>2. ASSUME NEW c \in Cmds, NEW interrupt \in BOOLEAN, Execute(c, interrupt)
      PROVE  CursorInvariant'
  <2>1. UNCHANGED <<source, mailbox, reading, delivering>>
    BY <1>2 DEF Execute
  <2>2. \/ UNCHANGED <<notices, prefs>>
        \/ UpdatePreferences(out[c].op)
    BY <1>2 DEF Execute, publisher
  <2>3. CASE UNCHANGED <<notices, prefs>>
    BY <1>1, <2>1, <2>3
  <2>4. CASE UpdatePreferences(out[c].op)
    <3>1. out[c].op # None
      BY <1>2 DEF Execute, ChatInvariant, Asked
    <3>2. out[c].op \in Requests
      BY <3>1 DEF ChatInvariant, TypeOK, CallerTyped
    <3>3. NoticesFade /\ InForceIsCurrent'
      BY <2>4, <3>2, UpdateFades DEF CursorInvariant
    <3> QED
      BY <2>1, <3>3, FadingKeepsCursor
  <2> QED
    BY <2>2, <2>3, <2>4
<1>3. CASE Register
  <2>1. source' = [source EXCEPT !.registered = TRUE]
        /\ UNCHANGED <<notices, prefs, mailbox, reading, delivering>>
    BY <1>3 DEF Register, publisher
  <2>2. source'.position = source.position
    BY <2>1, ReceivingShapes DEF ReceivingHolds
  <2>3. UNCHANGED <<feed, task, worker, inbox, taken>>
    BY <2>1 DEF reading, delivering
  <2>4. /\ InForceIsCurrent' /\ ItemsInForce' /\ PagesConnected'
        /\ MailInOrder' /\ PositionCovered'
    BY <2>1, <2>2, <2>3 DEF CursorInvariant, InForceIsCurrent, ItemsInForce, PagesConnected,
       MailInOrder, PositionCovered, InForce, Through
  <2>5. DeliveredIsTaken' /\ OldestFirst' /\ NothingMissed'
    BY <2>1, <2>2, <2>3 DEF CursorInvariant, DeliveredIsTaken, OldestFirst, AtWork, NothingMissed,
       NothingMissedBefore, InForce
  <2> QED
    BY <2>4, <2>5 DEF CursorInvariant
<1>4. CASE \/ \E c \in Cmds : Freeze(c) \/ Withdraw(c) \/ Retry(c) \/ Recover(c)
           \/ Send \/ RecordPolicy \/ Settle \/ CallFails \/ UNCHANGED vars
  <2>1. UNCHANGED <<notices, prefs, source, mailbox, reading, delivering>>
    BY <1>4 DEF Freeze, Withdraw, Retry, Recover, Send, RecordPolicy, Settle, CallFails, vars,
       publisher
  <2> QED
    BY <1>1, <2>1
<1> QED
  BY <1>2, <1>3, <1>4 DEF Command

-----------------------------------------------------------------------------
(* The feed and its reader. *)

\* What the cursor invariant needs of a step that touches neither notices nor mail.
LEMMA ReadingKeepsCursor ==
    ASSUME CursorInvariant, ItemsInForce', PagesConnected',
           UNCHANGED <<notices, prefs, source, mailbox, delivering>>
    PROVE  CursorInvariant'
<1>1. UNCHANGED <<worker, inbox, taken>>
  BY DEF delivering
<1>2. InForceIsCurrent' /\ MailInOrder' /\ PositionCovered'
  BY DEF CursorInvariant, InForceIsCurrent, MailInOrder, PositionCovered, InForce
<1>3. DeliveredIsTaken' /\ OldestFirst' /\ NothingMissed'
  BY <1>1 DEF CursorInvariant, DeliveredIsTaken, OldestFirst, AtWork, NothingMissed,
     NothingMissedBefore, InForce
<1> QED
  BY <1>2, <1>3 DEF CursorInvariant

\* Without pages the reader is where it was told to resume.
LEMMA NoPages ==
    ASSUME ChatInvariant', feed'.pages = <<>>,
           feed'.cursor <= source'.position, feed'.request <= source'.position,
           task'.pc = "resume" => task'.through <= source'.position
    PROVE  ItemsInForce' /\ PagesConnected'
BY DEF ItemsInForce, PagesConnected

LEMMA ConnectionsKeepCursor ==
    ASSUME ChatInvariant, ChatInvariant', CursorInvariant,
           SourcesRead \/ MeshChanged \/ FeedConnect \/ Resume \/ FeedBreaks \/ SourceFails
    PROVE  CursorInvariant'
<1>1. /\ UNCHANGED <<notices, prefs, source, mailbox, delivering>>
  BY DEF SourcesRead, MeshChanged, FeedConnect, Resume, FeedBreaks, SourceFails, publisher
<1>2. source.position \in Nat /\ feed.request \in Nat /\ PagesConnected /\ ItemsInForce
  BY CursorShapes DEF CursorInvariant
<1>3. feed \in Connections(Len(notices)) /\ task \in [pc : {"off", "next", "resume"},
                                                   through : 0 .. Len(notices)]
  BY ReceivingShapes DEF ReceivingHolds
<1>4. NoFeed.pages = <<>> /\ NoFeed.cursor = 0 /\ NoFeed.request = 0 /\ Off.pc = "off"
      /\ [Off EXCEPT !.pc = "next"].pc = "next"
  BY DEF NoFeed, Off
<1>5. CASE feed' = NoFeed /\ task' = Off
  <2>1. ItemsInForce' /\ PagesConnected'
    BY <1>1, <1>2, <1>4, <1>5, NoPages
  <2> QED
    BY <1>1, <2>1, ReadingKeepsCursor
<1>6. CASE UNCHANGED <<feed, task>>
  <2>1. ItemsInForce' /\ PagesConnected'
    BY <1>1, <1>2, <1>6 DEF ItemsInForce, PagesConnected, InForce, Through
  <2> QED
    BY <1>1, <2>1, ReadingKeepsCursor
<1>7. CASE SourcesRead
  <2>1. CASE feed' = [up |-> TRUE, cursor |-> source.position,
                      request |-> source.position, pages |-> <<>>]
             /\ task' = [Off EXCEPT !.pc = "next"]
    <3>1. ItemsInForce' /\ PagesConnected'
      BY <1>1, <1>2, <1>4, <2>1, NoPages
    <3> QED
      BY <1>1, <3>1, ReadingKeepsCursor
  <2> QED
    BY <1>6, <1>7, <2>1 DEF SourcesRead, reading
<1>8. CASE MeshChanged
  BY <1>6, <1>8 DEF MeshChanged, reading
<1>9. CASE FeedConnect \/ FeedBreaks
  <2>1. /\ feed'.pages = feed.pages /\ feed'.request = feed.request /\ UNCHANGED task
        /\ feed'.cursor \in {feed.cursor, feed.request}
    BY <1>3, <1>9 DEF FeedConnect, FeedBreaks, Connections
  <2>2. PagesConnected'
    <3>1. \/ feed'.cursor <= source.position
          \/ \E j \in DOMAIN feed.pages : feed'.cursor <= Through(feed.pages[j])
      BY <1>2, <2>1 DEF PagesConnected
    <3> QED
      BY <1>1, <1>2, <2>1, <3>1 DEF PagesConnected, Through
  <2>3. ItemsInForce'
    BY <1>1, <1>2, <2>1 DEF ItemsInForce, InForce
  <2> QED
    BY <1>1, <2>2, <2>3, ReadingKeepsCursor
<1>10. CASE Resume
  <2>1. CASE task.through >= feed.request
    <3>1. /\ feed'.pages = feed.pages /\ feed'.cursor = feed.cursor
          /\ feed'.request = task.through /\ task'.pc = "next"
          /\ task.through <= source.position
      BY <1>2, <1>3, <1>4, <1>10, <2>1 DEF Resume, Connections, PagesConnected
    <3>2. PagesConnected'
      BY <1>1, <1>2, <3>1 DEF PagesConnected, Through
    <3>3. ItemsInForce'
      BY <1>1, <1>2, <3>1 DEF ItemsInForce, InForce
    <3> QED
      BY <1>1, <3>2, <3>3, ReadingKeepsCursor
  <2>2. CASE ~(task.through >= feed.request)
    BY <1>5, <1>10, <2>2 DEF Resume
  <2> QED
    BY <2>1, <2>2
<1>11. CASE SourceFails
  BY <1>5, <1>11 DEF SourceFails
<1> QED
  BY <1>7, <1>8, <1>9, <1>10, <1>11

LEMMA FeedReadKeepsCursor ==
    ASSUME ChatInvariant, ChatInvariant', CursorInvariant, FeedRead
    PROVE  CursorInvariant'
<1> DEFINE n == Len(feed.pages)
<1>1. /\ UNCHANGED <<notices, prefs, source, mailbox, task, delivering>>
      /\ feed' = [feed EXCEPT !.cursor = PageEnd, !.pages = Append(@, Page)]
  BY DEF FeedRead, publisher
<1>2. /\ feed \in Connections(Len(notices)) /\ feed.pages \in Seq(Pages)
      /\ n \in Nat /\ DOMAIN feed.pages = 1 .. n
  BY ReceivingShapes, PageShapes DEF ReceivingHolds
<1>3. /\ feed'.pages = Append(feed.pages, Page) /\ feed'.cursor = PageEnd
      /\ feed'.request = feed.request
  BY <1>1, <1>2 DEF Connections
<1>4. /\ feed.cursor \in Nat /\ PageEnd \in Nat /\ Page \in Pages
      /\ Page.after = feed.cursor /\ Through(Page) = PageEnd
      /\ \A k \in DOMAIN Page.items : Page.items[k] = notices[Page.after + k]
  BY CursorShapes, PageRead DEF FeedRead
<1>5. /\ DOMAIN feed'.pages = 1 .. n + 1
      /\ \A i \in 1 .. n : feed'.pages[i] = feed.pages[i]
      /\ feed'.pages[n + 1] = Page
  <2>1. feed'.pages \in Seq(Pages) /\ Len(feed'.pages) = n + 1
    BY <1>2, <1>3, <1>4, AppendProperties
  <2> QED
    BY <1>2, <1>3, <1>4, <2>1, AppendProperties, LenProperties
<1>6. PagesConnected /\ ItemsInForce
  BY DEF CursorInvariant
<1>7. ASSUME NEW i \in 1 .. n + 1
      PROVE  /\ \/ feed'.pages[i].after <= source.position
                \/ \E j \in 1 .. (i - 1) : feed'.pages[i].after <= Through(feed'.pages[j])
             /\ \A k \in DOMAIN feed'.pages[i].items :
                   InForce(feed'.pages[i].after + k) => feed'.pages[i].items[k].active
  <2>1. CASE i \in 1 .. n
    <3>1. \A j \in 1 .. (i - 1) : feed'.pages[j] = feed.pages[j]
      BY <1>2, <1>5, <2>1
    <3> QED
      BY <1>2, <1>5, <1>6, <2>1, <3>1 DEF PagesConnected, ItemsInForce
  <2>2. CASE i = n + 1
    <3>1. feed'.pages[i] = Page /\ \A j \in 1 .. n : j \in 1 .. (i - 1)
      BY <1>2, <1>5, <2>2
    <3>2. \/ Page.after <= source.position
          \/ \E j \in 1 .. n : Page.after <= Through(feed'.pages[j])
      BY <1>2, <1>4, <1>5, <1>6 DEF PagesConnected
    <3>3. \A k \in DOMAIN Page.items : InForce(Page.after + k) => Page.items[k].active
      BY <1>4 DEF InForce
    <3> QED
      BY <3>1, <3>2, <3>3
  <2> QED
    BY <1>2, <2>1, <2>2
<1>8. PagesConnected'
  <2>1. n + 1 \in 1 .. n + 1 /\ feed'.cursor <= Through(feed'.pages[n + 1])
    BY <1>2, <1>3, <1>4, <1>5
  <2>2. \E j \in DOMAIN feed'.pages : feed'.cursor <= Through(feed'.pages[j])
    BY <1>5, <2>1
  <2> QED
    BY <1>1, <1>3, <1>5, <1>6, <1>7, <2>2 DEF PagesConnected, Through
<1>9. ItemsInForce'
  BY <1>1, <1>5, <1>7 DEF ItemsInForce, InForce
<1> QED
  BY <1>1, <1>8, <1>9, ReadingKeepsCursor

\* The order of a finite set of numbers leaves none of them out.
LEMMA OrderIsComplete ==
    ASSUME NEW W, IsFiniteSet(W), W \subseteq Nat, NEW chosen \in InOrder(W), NEW k \in W
    PROVE  \E i \in DOMAIN chosen : chosen[i] = k
<1> DEFINE m == Cardinality(W)
<1>1. m \in Nat
  BY FS_CardinalityType
<1>2. chosen \in [1 .. m -> W] /\ \A i, j \in 1 .. m : i < j => chosen[i] < chosen[j]
  BY DEF InOrder
<1>3. \A i \in 1 .. m : chosen[i] \in Nat
  BY <1>2
<1> HIDE DEF m
<1>4. ASSUME NEW i \in 1 .. m, NEW j \in 1 .. m, chosen[i] = chosen[j]
      PROVE  i = j
  <2>1. ~(i < j) /\ ~(j < i)
    BY <1>2, <1>3, <1>4
  <2> QED
    BY <1>1, <2>1
<1>5. chosen \in Injection(1 .. m, W)
  BY <1>2, <1>4 DEF Injection, IsInjective
<1>6. Cardinality(1 .. m) = m
  BY <1>1, FS_Interval
<1>7. chosen \in Surjection(1 .. m, W)
  BY <1>5, <1>6, FS_Injection DEF m
<1> QED
  BY <1>2, <1>7 DEF Surjection

\* What Accept adds to the mailbox: rows past the position and up to the end of the page,
\* in order, and among them every notice that is in force.
LEMMA AcceptedMail ==
    ASSUME ChatInvariant, CursorInvariant, feed.pages # <<>>,
           NEW chosen \in InOrder(Wanted(Head(feed.pages)))
    PROVE  LET page == Head(feed.pages)
               more == Mail(page, chosen)
           IN  /\ more \in Seq(Letters(Len(notices)))
               /\ \A i \in 1 .. Len(more) :
                     /\ source.position < more[i].sequence
                     /\ more[i].sequence <= Through(page)
                     /\ ~more[i].delivered
               /\ \A i, j \in 1 .. Len(more) : i < j => more[i].sequence < more[j].sequence
               /\ \A k \in DOMAIN notices :
                     source.position < k /\ k <= Through(page) /\ InForce(k)
                        => \E i \in 1 .. Len(more) : more[i].sequence = k
<1> DEFINE page == Head(feed.pages)
           W == Wanted(page)
           more == Mail(page, chosen)
           n == Len(notices)
<1>1. /\ n \in Nat /\ DOMAIN notices = 1 .. n /\ source.position \in 0 .. n
  BY CursorShapes
<1>2. /\ page = feed.pages[1] /\ 1 \in DOMAIN feed.pages /\ page \in Pages
  BY PageShapes, HeadTailProperties, EmptySeq
<1>3. Faithful(page) /\ PublisherTyped
  BY <1>2, PageShapes, ReceivingShapes DEF ReceivingHolds, ChatInvariant, TypeOK
<1>4. /\ page.after \in Nat /\ Len(page.items) \in Nat /\ DOMAIN page.items = 1 .. Len(page.items)
      /\ Through(page) = page.after + Len(page.items) /\ Through(page) <= n
  BY <1>2, <1>3, LenProperties DEF Pages, Through, Faithful
<1>5. page.after <= source.position
  <2>1. 1 .. (1 - 1) = {}
    OBVIOUS
  <2> QED
    BY <1>2, <2>1 DEF CursorInvariant, PagesConnected
<1>6. /\ W \subseteq (page.after + 1) .. Through(page)
      /\ \A k \in W : k > source.position
  BY DEF Wanted
<1>7. IsFiniteSet(W) /\ W \subseteq Nat /\ Cardinality(W) \in Nat
  <2>1. page.after + 1 \in Int /\ Through(page) \in Int
    BY <1>4
  <2>2. IsFiniteSet((page.after + 1) .. Through(page))
    BY <2>1, FS_Interval
  <2>3. IsFiniteSet(W)
    BY <1>6, <2>2, FS_Subset
  <2> QED
    BY <1>4, <1>6, <2>3, FS_CardinalityType
<1>8. chosen \in [1 .. Cardinality(W) -> W] /\ DOMAIN chosen = 1 .. Cardinality(W)
      /\ \A i, j \in 1 .. Cardinality(W) : i < j => chosen[i] < chosen[j]
  BY DEF InOrder
<1>9. more \in Seq(Letters(n))
  BY <1>2, <1>3, MailOfPage
<1>10. /\ DOMAIN more = 1 .. Cardinality(W)
       /\ \A i \in 1 .. Cardinality(W) : more[i].sequence = chosen[i] /\ ~more[i].delivered
  BY <1>8 DEF Mail
<1>11. Len(more) = Cardinality(W)
  BY <1>7, <1>9, <1>10, LenProperties
<1>12. ASSUME NEW i \in 1 .. Len(more)
       PROVE  /\ source.position < more[i].sequence
              /\ more[i].sequence <= Through(page)
              /\ ~more[i].delivered
  <2>1. more[i].sequence \in W /\ ~more[i].delivered
    BY <1>8, <1>10, <1>11, <1>12
  <2> QED
    BY <1>1, <1>4, <1>6, <2>1
<1>13. \A i, j \in 1 .. Len(more) : i < j => more[i].sequence < more[j].sequence
  BY <1>8, <1>10, <1>11
<1>14. ASSUME NEW k \in DOMAIN notices, source.position < k, k <= Through(page), InForce(k)
       PROVE  \E i \in 1 .. Len(more) : more[i].sequence = k
  <2>1. /\ k \in (page.after + 1) .. Through(page) /\ k - page.after \in DOMAIN page.items
        /\ page.after + (k - page.after) = k
    BY <1>1, <1>4, <1>5, <1>14
  <2>2. page.items[k - page.after].active
    BY <1>2, <1>14, <2>1 DEF CursorInvariant, ItemsInForce
  <2>3. page.items[k - page.after].generation = notices[k].generation
    BY <1>3, <2>1 DEF Faithful, PageHonest
  <2>4. Accepts(page.items[k - page.after].generation)
    BY <1>14, <2>3, InForceIsAccepted DEF CursorInvariant
  <2>5. k \in W
    BY <1>14, <2>1, <2>2, <2>4 DEF Wanted
  <2>6. PICK i \in DOMAIN chosen : chosen[i] = k
    BY <1>7, <2>5, OrderIsComplete
  <2> QED
    BY <1>8, <1>10, <1>11, <2>6
<1> QED
  BY <1>9, <1>12, <1>13, <1>14

LEMMA AcceptKeepsCursor ==
    ASSUME ChatInvariant, ChatInvariant', CursorInvariant, Accept
    PROVE  CursorInvariant'
<1> DEFINE page == Head(feed.pages)
           n == Len(mailbox)
           rest == Tail(feed.pages)
<1>1. PICK chosen \in InOrder(Wanted(page)) : mailbox' = mailbox \o Mail(page, chosen)
  BY DEF Accept
<1> DEFINE more == Mail(page, chosen)
<1>2. /\ UNCHANGED <<place, notices, prefs, delivering>>
      /\ UNCHANGED <<worker, inbox, taken>>
      /\ feed.pages # <<>>
  BY DEF Accept, publisher, delivering
<1>3. /\ more \in Seq(Letters(Len(notices)))
      /\ \A i \in 1 .. Len(more) :
            /\ source.position < more[i].sequence
            /\ more[i].sequence <= Through(page)
            /\ ~more[i].delivered
      /\ \A i, j \in 1 .. Len(more) : i < j => more[i].sequence < more[j].sequence
      /\ \A k \in DOMAIN notices :
            source.position < k /\ k <= Through(page) /\ InForce(k)
               => \E i \in 1 .. Len(more) : more[i].sequence = k
  BY <1>2, AcceptedMail
<1>4. /\ mailbox \in Seq(Letters(Len(notices))) /\ n \in Nat /\ DOMAIN mailbox = 1 .. n
      /\ Len(more) \in Nat
  BY <1>3, CursorShapes, ReceivingShapes, LenProperties DEF ReceivingHolds
<1> HIDE DEF more
<1>5. /\ DOMAIN mailbox' = 1 .. n + Len(more)
      /\ \A j \in 1 .. n : mailbox'[j] = mailbox[j]
      /\ \A j \in 1 .. n + Len(more) : ~(j <= n) => mailbox'[j] = more[j - n]
      /\ \A i \in 1 .. Len(more) : mailbox'[n + i] = more[i] /\ n + i \in 1 .. n + Len(more)
  <2>1. mailbox' = mailbox \o more
    BY <1>1 DEF more
  <2>2. /\ mailbox' \in Seq(Letters(Len(notices))) /\ Len(mailbox') = n + Len(more)
        /\ \A j \in 1 .. n + Len(more) :
              mailbox'[j] = IF j <= n THEN mailbox[j] ELSE more[j - n]
    BY <1>3, <1>4, <2>1, ConcatProperties
  <2>3. DOMAIN mailbox' = 1 .. n + Len(more)
    BY <2>2, LenProperties
  <2>4. ASSUME NEW i \in 1 .. Len(more)
        PROVE  mailbox'[n + i] = more[i] /\ n + i \in 1 .. n + Len(more)
    <3>1. n + i \in 1 .. n + Len(more) /\ ~(n + i <= n) /\ (n + i) - n = i
      BY <1>4
    <3> QED
      BY <2>2, <3>1
  <2> QED
    BY <1>4, <2>2, <2>3, <2>4
<1>6. /\ source.position \in Nat /\ Through(page) \in Nat
      /\ source'.position \in Nat
      /\ source'.position >= source.position /\ source'.position >= Through(page)
      /\ source'.position = source.position \/ source'.position = Through(page)
  <2>1. page = feed.pages[1] /\ 1 \in DOMAIN feed.pages
    BY <1>2, PageShapes, HeadTailProperties, EmptySeq
  <2>2. Through(page) \in Nat /\ source.position \in Nat
    BY <2>1, PageShapes, CursorShapes
  <2>3. source \in [registered : BOOLEAN, position : 0 .. Len(notices)]
    BY ReceivingShapes DEF ReceivingHolds
  <2>4. source' = [source EXCEPT !.position = IF Through(page) > @ THEN Through(page) ELSE @]
    BY DEF Accept
  <2> HIDE DEF page
  <2>5. source'.position = IF Through(page) > source.position THEN Through(page)
                           ELSE source.position
    BY <2>3, <2>4
  <2> QED
    BY <2>2, <2>5
<1>7. \A j \in 1 .. n : mailbox[j].sequence \in Nat /\ mailbox[j].sequence <= source.position
  BY <1>4, CursorShapes DEF CursorInvariant, MailInOrder
<1>8. \A i \in 1 .. Len(more) : more[i].sequence \in Nat
  <2>1. \A i \in 1 .. Len(more) : more[i] \in Letters(Len(notices))
    BY <1>3, ElementOfSeq
  <2>2. Len(notices) \in Nat
    BY CursorShapes
  <2> QED
    BY <2>1, <2>2 DEF Letters
<1> HIDE DEF page
<1>9. InForceIsCurrent'
  BY <1>2 DEF CursorInvariant, InForceIsCurrent, InForce
<1>10. MailInOrder'
  <2>1. ASSUME NEW i \in 1 .. n + Len(more), NEW j \in 1 .. n + Len(more), i < j
        PROVE  mailbox'[i].sequence < mailbox'[j].sequence
    <3>1. CASE j <= n
      <4>1. i \in 1 .. n /\ j \in 1 .. n
        BY <1>4, <2>1, <3>1
      <4> QED
        BY <1>4, <1>5, <2>1, <4>1 DEF CursorInvariant, MailInOrder
    <3>2. CASE i <= n /\ ~(j <= n)
      <4>1. i \in 1 .. n /\ j - n \in 1 .. Len(more)
        BY <1>4, <2>1, <3>2
      <4>2. mailbox'[i] = mailbox[i] /\ mailbox'[j] = more[j - n]
        BY <1>5, <3>2, <4>1
      <4>3. /\ mailbox[i].sequence \in Nat /\ more[j - n].sequence \in Nat
            /\ mailbox[i].sequence <= source.position
            /\ source.position < more[j - n].sequence
        BY <1>3, <1>7, <1>8, <4>1
      <4> QED
        BY <1>6, <4>2, <4>3
    <3>3. CASE ~(i <= n)
      <4>1. i - n \in 1 .. Len(more) /\ j - n \in 1 .. Len(more) /\ i - n < j - n /\ ~(j <= n)
        BY <1>4, <2>1, <3>3
      <4>2. mailbox'[i] = more[i - n] /\ mailbox'[j] = more[j - n]
        BY <1>5, <3>3, <4>1
      <4>3. more[i - n].sequence < more[j - n].sequence
        BY <1>3, <4>1
      <4> QED
        BY <4>2, <4>3
    <3> QED
      BY <1>4, <3>1, <3>2, <3>3
  <2>2. ASSUME NEW j \in 1 .. n + Len(more)
        PROVE  mailbox'[j].sequence <= source'.position
    <3>1. CASE j <= n
      <4>1. j \in 1 .. n
        BY <1>4, <3>1
      <4> QED
        BY <1>5, <1>6, <1>7, <4>1
    <3>2. CASE ~(j <= n)
      <4>1. j - n \in 1 .. Len(more)
        BY <1>4, <3>2
      <4>2. mailbox'[j] = more[j - n]
        BY <1>5, <3>2
      <4>3. more[j - n].sequence \in Nat /\ more[j - n].sequence <= Through(page)
        BY <1>3, <1>8, <4>1
      <4> QED
        BY <1>6, <4>2, <4>3
    <3> QED
      BY <3>1, <3>2
  <2> QED
    BY <1>5, <2>1, <2>2 DEF MailInOrder
<1>11. PositionCovered'
  <2>1. ASSUME NEW k \in DOMAIN notices, k <= source'.position, InForce(k)
        PROVE  \E j \in DOMAIN mailbox' : mailbox'[j].sequence = k
    <3>1. CASE k <= source.position
      <4>1. PICK j \in DOMAIN mailbox : mailbox[j].sequence = k
        BY <2>1, <3>1 DEF CursorInvariant, PositionCovered
      <4>2. j \in 1 .. n + Len(more) /\ mailbox'[j].sequence = k
        BY <1>4, <1>5, <4>1
      <4> QED
        BY <1>5, <4>2
    <3>2. CASE ~(k <= source.position)
      <4>1. source.position < k /\ k <= Through(page)
        <5>1. k \in Nat
          BY CursorShapes
        <5> QED
          BY <1>6, <2>1, <3>2, <5>1
      <4>2. PICK i \in 1 .. Len(more) : more[i].sequence = k
        BY <1>3, <2>1, <4>1
      <4> QED
        BY <1>5, <4>2
    <3> QED
      BY <3>1, <3>2
  <2> QED
    BY <1>2, <2>1 DEF PositionCovered, InForce
<1>12. DeliveredIsTaken'
  <2>1. ASSUME NEW j \in 1 .. n + Len(more), mailbox'[j].delivered,
               InForce(mailbox'[j].sequence)
        PROVE  mailbox'[j].sequence \in ToSet(taken)
    <3>1. CASE j <= n
      <4>1. j \in 1 .. n
        BY <1>4, <3>1
      <4> QED
        BY <1>4, <1>5, <2>1, <4>1 DEF CursorInvariant, DeliveredIsTaken
    <3>2. CASE ~(j <= n)
      <4>1. j - n \in 1 .. Len(more)
        BY <1>4, <3>2
      <4> QED
        BY <1>3, <1>5, <2>1, <3>2, <4>1
    <3> QED
      BY <3>1, <3>2
  <2> QED
    BY <1>2, <1>5, <2>1 DEF DeliveredIsTaken, InForce
<1>13. OldestFirst'
  <2>1. CASE AtWork
    <3>1. worker.job \in 1 .. n
      BY <1>4, <2>1, CursorShapes
    <3>2. \A i \in DOMAIN mailbox' : i < worker.job => i \in 1 .. n
      BY <1>4, <1>5, <3>1
    <3>3. \A i \in DOMAIN mailbox' : i < worker.job => mailbox'[i].delivered
      BY <1>4, <1>5, <2>1, <3>2 DEF CursorInvariant, OldestFirst
    <3> QED
      BY <1>2, <1>5, <3>1, <3>3 DEF CursorInvariant, OldestFirst, AtWork, InForce
  <2>2. CASE ~AtWork
    BY <1>2, <2>2 DEF OldestFirst, AtWork
  <2> QED
    BY <2>1, <2>2
<1>14. NothingMissed'
  <2>1. ASSUME NEW x \in ToSet(inbox) \cup ToSet(taken)
        PROVE  /\ x <= source'.position
               /\ \A j \in DOMAIN mailbox' :
                     mailbox'[j].sequence < x /\ InForce(mailbox'[j].sequence)
                        => mailbox'[j].sequence \in ToSet(taken)
    <3>1. NothingMissedBefore(x)
      BY DEF CursorInvariant, NothingMissed
    <3>2. x \in Nat
      <4>1. inbox \in Seq(1 .. Len(notices)) /\ taken \in Seq(1 .. Len(notices))
        BY CursorShapes
      <4> QED
        BY <4>1, ElementOfSeq, LenProperties DEF ToSet
    <3>3. x <= source.position
      BY <3>1 DEF NothingMissedBefore
    <3>4. ASSUME NEW j \in 1 .. n + Len(more), mailbox'[j].sequence < x
          PROVE  j \in 1 .. n
      <4> SUFFICES ASSUME ~(j <= n) PROVE FALSE
        BY <1>4
      <4>1. j - n \in 1 .. Len(more)
        BY <1>4
      <4>2. /\ mailbox'[j] = more[j - n] /\ more[j - n].sequence \in Nat
            /\ source.position < more[j - n].sequence
        BY <1>3, <1>5, <1>8, <4>1
      <4> QED
        BY <1>6, <3>2, <3>3, <3>4, <4>2
    <3> QED
      BY <1>4, <1>5, <1>6, <3>1, <3>2, <3>3, <3>4 DEF NothingMissedBefore
  <2> QED
    BY <1>2, <2>1 DEF NothingMissed, NothingMissedBefore, InForce
<1>15. /\ feed'.pages = rest /\ feed'.cursor = feed.cursor /\ feed'.request = feed.request
       /\ task' = task \/ task' = [pc |-> "resume", through |-> Through(page)]
  <2>1. feed \in Connections(Len(notices))
    BY ReceivingShapes DEF ReceivingHolds
  <2> QED
    BY <2>1 DEF Accept, Connections, page
<1>16. /\ Len(feed.pages) \in Nat \ {0} /\ DOMAIN feed.pages = 1 .. Len(feed.pages)
       /\ page = feed.pages[1] /\ DOMAIN rest = 1 .. Len(feed.pages) - 1
       /\ \A i \in 1 .. Len(feed.pages) - 1 : rest[i] = feed.pages[i + 1]
  <2>1. rest \in Seq(Pages) /\ Len(rest) = Len(feed.pages) - 1
    BY <1>2, PageShapes, HeadTailProperties
  <2>2. DOMAIN rest = 1 .. Len(rest)
    BY <2>1, LenProperties
  <2> QED
    BY <1>2, <2>1, <2>2, PageShapes, HeadTailProperties, EmptySeq DEF page
<1>17. \A i \in DOMAIN feed.pages : feed.pages[i].after \in Nat
                                    /\ Through(feed.pages[i]) \in Nat
  BY PageShapes, CursorShapes
<1> DEFINE m == Len(feed.pages) - 1
<1>18. m \in Nat
  BY <1>16
<1> HIDE DEF rest
<1>19. ASSUME NEW c \in Nat, NEW l \in 1 .. m + 1,
              \/ c <= source.position
              \/ \E j \in 1 .. l : c <= Through(feed.pages[j])
       PROVE  \/ c <= source'.position
              \/ \E j \in 1 .. (l - 1) : c <= Through(rest[j])
  <2>1. CASE c <= source.position
    BY <1>6, <2>1
  <2>2. ASSUME NEW j \in 1 .. l, c <= Through(feed.pages[j])
        PROVE  \/ c <= source'.position
               \/ \E i \in 1 .. (l - 1) : c <= Through(rest[i])
    <3>1. CASE j = 1
      BY <1>6, <1>16, <2>2, <3>1
    <3>2. CASE j # 1
      <4>1. j - 1 \in 1 .. (l - 1) /\ j - 1 \in 1 .. m /\ (j - 1) + 1 = j
        BY <1>18, <3>2
      <4>2. rest[j - 1] = feed.pages[j]
        BY <1>16, <4>1
      <4> QED
        BY <2>2, <4>1, <4>2
    <3> QED
      BY <3>1, <3>2
  <2> QED
    BY <1>19, <2>1, <2>2
<1>20. PagesConnected'
  <2>1. ASSUME NEW i \in 1 .. m
        PROVE  \/ rest[i].after <= source'.position
               \/ \E j \in 1 .. (i - 1) : rest[i].after <= Through(rest[j])
    <3>1. i + 1 \in DOMAIN feed.pages /\ rest[i] = feed.pages[i + 1] /\ i \in 1 .. m + 1
          /\ (i + 1) - 1 = i
      BY <1>16, <1>18
    <3>2. \/ rest[i].after <= source.position
          \/ \E j \in 1 .. i : rest[i].after <= Through(feed.pages[j])
      BY <3>1 DEF CursorInvariant, PagesConnected
    <3>3. rest[i].after \in Nat
      BY <1>17, <3>1
    <3> QED
      BY <1>19, <3>1, <3>2, <3>3
  <2>2. \/ feed.cursor <= source'.position
        \/ \E j \in 1 .. m : feed.cursor <= Through(rest[j])
    <3>1. m + 1 \in 1 .. m + 1 /\ DOMAIN feed.pages = 1 .. m + 1 /\ (m + 1) - 1 = m
      BY <1>16, <1>18
    <3>2. \/ feed.cursor <= source.position
          \/ \E j \in 1 .. m + 1 : feed.cursor <= Through(feed.pages[j])
      BY <3>1 DEF CursorInvariant, PagesConnected
    <3>3. feed.cursor \in Nat
      BY CursorShapes
    <3> QED
      BY <1>19, <3>1, <3>2, <3>3
  <2>3. feed.request <= source'.position
    BY <1>6, CursorShapes DEF CursorInvariant, PagesConnected
  <2>4. task'.pc = "resume" => task'.through <= source'.position
    <3>1. task.pc = "resume" => task.through <= source'.position
      BY <1>6, CursorShapes DEF CursorInvariant, PagesConnected
    <3> QED
      BY <1>6, <1>15, <3>1
  <2>5. DOMAIN feed'.pages = 1 .. m
    BY <1>15, <1>16
  <2> QED
    BY <1>15, <2>1, <2>2, <2>3, <2>4, <2>5 DEF PagesConnected, Through
<1>21. ItemsInForce'
  <2>1. ASSUME NEW i \in 1 .. m, NEW k \in DOMAIN rest[i].items, InForce(rest[i].after + k)
        PROVE  rest[i].items[k].active
    <3>1. i + 1 \in DOMAIN feed.pages /\ rest[i] = feed.pages[i + 1]
      BY <1>16, <1>18
    <3> QED
      BY <2>1, <3>1 DEF CursorInvariant, ItemsInForce
  <2>2. DOMAIN feed'.pages = 1 .. m
    BY <1>15, <1>16
  <2> QED
    BY <1>2, <1>15, <2>1, <2>2 DEF ItemsInForce, InForce
<1> QED
  BY <1>9, <1>10, <1>11, <1>12, <1>13, <1>14, <1>20, <1>21 DEF CursorInvariant

-----------------------------------------------------------------------------
(* From the mailbox to the session. *)

LEMMA ReadersFrame ==
    ASSUME CursorInvariant, UNCHANGED <<publisher, source, reading>>
    PROVE  InForceIsCurrent' /\ ItemsInForce' /\ PagesConnected'
<1>1. UNCHANGED <<notices, prefs, feed, task>>
  BY DEF publisher, reading
<1> QED
  BY <1>1 DEF CursorInvariant, InForceIsCurrent, ItemsInForce, PagesConnected, InForce, Through

LEMMA MailFrame ==
    ASSUME CursorInvariant, UNCHANGED <<publisher, source, mailbox>>
    PROVE  MailInOrder' /\ PositionCovered'
BY DEF CursorInvariant, MailInOrder, PositionCovered, InForce, publisher

LEMMA TakenFrame ==
    ASSUME CursorInvariant, UNCHANGED <<publisher, source, mailbox, taken>>
    PROVE  DeliveredIsTaken' /\ (\A x : NothingMissedBefore(x) => NothingMissedBefore(x)')
BY DEF CursorInvariant, DeliveredIsTaken, NothingMissedBefore, InForce, publisher

LEMMA WorkerMovesKeepCursor ==
    ASSUME ChatInvariant, ChatInvariant', CursorInvariant,
           Dispatch \/ WorkerReads \/ WorkerChecks \/ WorkerFails \/ WorkerRetries
    PROVE  CursorInvariant'
<1>1. UNCHANGED <<publisher, source, mailbox, reading, inbox, taken>>
  BY DEF Dispatch, WorkerReads, WorkerChecks, WorkerFails, WorkerRetries
<1>2. UNCHANGED notices
  BY <1>1 DEF publisher
<1>3. NothingMissed'
  BY <1>1, TakenFrame DEF CursorInvariant, NothingMissed
<1>4. OldestFirst
  BY DEF CursorInvariant
<1>5. OldestFirst'
  <2>1. CASE UNCHANGED worker
    BY <1>1, <1>2, <1>4, <2>1 DEF OldestFirst, AtWork, InForce
  <2>2. CASE worker'.pc \notin {"check", "ready", "sent", "finish"}
    BY <2>2 DEF OldestFirst, AtWork
  <2>3. CASE WorkerReads /\ Pending # {}
    <3>1. worker'.pc = "check" /\ worker'.job = Oldest
      BY <2>3 DEF WorkerReads
    <3>2. Oldest \in Pending /\ \A i \in Pending : Oldest <= i
      BY <2>3, OldestPending
    <3>3. \A i \in DOMAIN mailbox : i < Oldest => mailbox[i].delivered
      <4>1. DOMAIN mailbox \subseteq Nat
        BY CursorShapes
      <4> QED
        BY <3>2, <4>1 DEF Pending
    <3> QED
      BY <1>1, <3>1, <3>3 DEF OldestFirst, AtWork
  <2>4. CASE WorkerChecks
    <3>1. /\ worker.pc = "check" /\ worker'.job = worker.job
          /\ worker'.pc = IF JobAccepted THEN "ready" ELSE "finish"
      <4>1. worker \in [pc : WorkerPlaces, job : {0} \cup DOMAIN mailbox]
        BY DEF ChatInvariant, TypeOK, AgentTyped, WorkerPlaces
      <4> QED
        BY <2>4, <4>1 DEF WorkerChecks
    <3>2. worker.job \in DOMAIN mailbox
      BY <3>1, CursorShapes DEF AtWork
    <3>3. InForce(mailbox[worker.job].sequence) => JobAccepted
      <4>1. /\ mailbox[worker.job].sequence \in DOMAIN notices
            /\ mailbox[worker.job].generation = notices[mailbox[worker.job].sequence].generation
        BY <3>2, CursorShapes
      <4> QED
        BY <4>1, InForceIsAccepted DEF CursorInvariant, JobAccepted
    <3>4. worker'.pc = "finish" => ~InForce(mailbox[worker.job].sequence)
      BY <3>1, <3>3
    <3>5. worker'.pc # "sent"
      BY <3>1
    <3> QED
      BY <1>1, <1>2, <1>4, <3>1, <3>4, <3>5 DEF OldestFirst, AtWork, InForce
  <2> QED
    BY <2>1, <2>2, <2>3, <2>4 DEF Dispatch, WorkerReads, WorkerFails, WorkerRetries, NoWorker
<1> QED
  BY <1>1, <1>3, <1>5, ReadersFrame, MailFrame, TakenFrame DEF CursorInvariant

LEMMA AppendKeepsCursor ==
    ASSUME ChatInvariant, ChatInvariant', CursorInvariant, WorkerAppends
    PROVE  CursorInvariant'
<1> DEFINE x == mailbox[worker.job].sequence
<1>1. /\ UNCHANGED <<publisher, source, mailbox, reading, taken>>
      /\ worker.pc = "ready" /\ worker'.job = worker.job
      /\ \/ StillAccepted /\ worker'.pc = "sent" /\ inbox' = Append(inbox, x)
         \/ ~StillAccepted /\ worker'.pc = "finish" /\ inbox' = inbox
  <2>1. worker \in [pc : WorkerPlaces, job : {0} \cup DOMAIN mailbox]
    BY DEF ChatInvariant, TypeOK, AgentTyped, WorkerPlaces
  <2> QED
    BY <2>1 DEF WorkerAppends
<1>2. UNCHANGED notices
  BY <1>1 DEF publisher
<1>3. worker.job \in DOMAIN mailbox /\ x \in 1 .. Len(notices) /\ OldestFirst
      /\ \A i \in DOMAIN mailbox : i < worker.job => mailbox[i].delivered
  BY <1>1, CursorShapes DEF AtWork, CursorInvariant, OldestFirst
<1>4. InForce(x) => StillAccepted
  <2>1. x \in DOMAIN notices /\ mailbox[worker.job].generation = notices[x].generation
    BY <1>3, CursorShapes
  <2> QED
    BY <2>1, InForceIsAccepted DEF CursorInvariant, JobAccepted, StillAccepted
<1>5. NothingMissedBefore(x)
  <2>1. x <= source.position
    BY <1>3 DEF CursorInvariant, MailInOrder
  <2>2. ASSUME NEW j \in DOMAIN mailbox, mailbox[j].sequence < x, InForce(mailbox[j].sequence)
        PROVE  mailbox[j].sequence \in ToSet(taken)
    <3>1. j < worker.job
      <4>1. j \in Nat /\ worker.job \in Nat /\ mailbox[j].sequence \in Nat /\ x \in Nat
        <5>1. /\ Len(mailbox) \in Nat /\ DOMAIN mailbox = 1 .. Len(mailbox) /\ Len(notices) \in Nat
              /\ mailbox[j].sequence \in 1 .. Len(notices)
          BY CursorShapes
        <5>2. j \in Nat /\ worker.job \in Nat
          BY <1>3, <5>1
        <5>3. mailbox[j].sequence \in Nat /\ x \in Nat
          BY <1>3, <5>1
        <5> QED
          BY <5>2, <5>3
      <4>2. ~(worker.job < j) /\ j # worker.job
        BY <1>3, <2>2, <4>1 DEF CursorInvariant, MailInOrder
      <4> QED
        BY <4>1, <4>2
    <3> QED
      BY <1>3, <2>2, <3>1 DEF CursorInvariant, DeliveredIsTaken
  <2> QED
    BY <2>1, <2>2 DEF NothingMissedBefore
<1>6. inbox \in Seq(1 .. Len(notices))
  BY CursorShapes
<1> HIDE DEF x
<1>7. /\ ToSet(inbox') \subseteq ToSet(inbox) \cup {x}
      /\ inbox' # inbox => inbox' # <<>> /\ Last(inbox') = x
  <2>1. CASE inbox' = Append(inbox, x)
    <3>1. /\ inbox' \in Seq(1 .. Len(notices)) /\ inbox' # <<>>
          /\ Len(inbox') = Len(inbox) + 1 /\ inbox'[Len(inbox) + 1] = x
          /\ \A i \in 1 .. Len(inbox) : inbox'[i] = inbox[i]
      BY <1>3, <1>6, <2>1, AppendProperties
    <3>2. /\ Len(inbox) \in Nat /\ DOMAIN inbox = 1 .. Len(inbox)
          /\ DOMAIN inbox' = 1 .. Len(inbox) + 1
      BY <1>6, <3>1, LenProperties
    <3> QED
      BY <3>1, <3>2 DEF ToSet, Last
  <2>2. CASE inbox' = inbox
    BY <2>2
  <2> QED
    BY <1>1, <2>1, <2>2 DEF x
<1>8. NothingMissed'
  BY <1>1, <1>5, <1>7, TakenFrame DEF CursorInvariant, NothingMissed
<1>9. OldestFirst'
  <2>1. CASE StillAccepted
    <3>1. worker'.pc = "sent" /\ inbox' = Append(inbox, x)
      BY <1>1, <2>1 DEF x
    <3>2. inbox' # <<>> /\ Last(inbox') = x
      <4>1. Len(inbox) \in Nat /\ Len(inbox') = Len(inbox) + 1
        BY <1>3, <1>6, <3>1, AppendProperties, LenProperties
      <4> QED
        BY <1>7, <4>1
    <3> QED
      BY <1>1, <1>3, <3>1, <3>2 DEF OldestFirst, AtWork, x
  <2>2. CASE ~StillAccepted
    <3>1. worker'.pc = "finish" /\ ~InForce(x)
      BY <1>1, <1>4, <2>2
    <3> QED
      BY <1>1, <1>2, <1>3, <3>1 DEF OldestFirst, AtWork, InForce, x
  <2> QED
    BY <2>1, <2>2
<1> QED
  BY <1>1, <1>8, <1>9, ReadersFrame, MailFrame, TakenFrame DEF CursorInvariant

LEMMA TakesKeepsCursor ==
    ASSUME ChatInvariant, ChatInvariant', CursorInvariant, Takes
    PROVE  CursorInvariant'
<1> DEFINE x == Head(inbox)
           n == Len(notices)
<1>1. /\ UNCHANGED <<publisher, source, mailbox, reading>>
      /\ inbox # <<>> /\ inbox' = Tail(inbox)
      /\ taken' = IF Fresh(x) THEN Append(taken, x) ELSE taken
      /\ worker' = IF worker.pc = "sent" /\ Len(inbox) = 1
                   THEN [worker EXCEPT !.pc = "finish"] ELSE worker
  BY DEF Takes
<1>2. UNCHANGED notices
  BY <1>1 DEF publisher
<1>3. /\ inbox \in Seq(1 .. n) /\ taken \in Seq(1 .. n)
      /\ Len(taken) \in Nat /\ DOMAIN taken = 1 .. Len(taken)
  BY CursorShapes, LenProperties
<1>4. /\ Len(inbox) \in Nat \ {0} /\ DOMAIN inbox = 1 .. Len(inbox)
      /\ x = inbox[1] /\ x \in 1 .. n
      /\ inbox' \in Seq(1 .. n) /\ Len(inbox') = Len(inbox) - 1
      /\ DOMAIN inbox' = 1 .. Len(inbox) - 1
      /\ \A i \in 1 .. Len(inbox) - 1 : inbox'[i] = inbox[i + 1]
  <2>1. Len(inbox) \in Nat \ {0} /\ DOMAIN inbox = 1 .. Len(inbox)
    BY <1>1, <1>3, EmptySeq, LenProperties
  <2>2. /\ Tail(inbox) \in Seq(1 .. n) /\ Len(Tail(inbox)) = Len(inbox) - 1 /\ x = inbox[1]
        /\ x \in 1 .. n /\ \A i \in 1 .. Len(inbox) - 1 : Tail(inbox)[i] = inbox[i + 1]
    BY <1>1, <1>3, HeadTailProperties
  <2>3. DOMAIN Tail(inbox) = 1 .. Len(inbox) - 1
    BY <2>2, LenProperties
  <2> QED
    BY <1>1, <2>1, <2>2, <2>3
<1> HIDE DEF x
<1>5. ToSet(inbox') \subseteq ToSet(inbox) /\ x \in ToSet(inbox)
  <2>1. ASSUME NEW i \in DOMAIN inbox'
        PROVE  inbox'[i] \in ToSet(inbox)
    <3>1. i \in 1 .. Len(inbox) - 1 /\ i + 1 \in 1 .. Len(inbox)
      BY <1>4, <2>1
    <3>2. inbox'[i] = inbox[i + 1] /\ i + 1 \in DOMAIN inbox
      BY <1>4, <3>1
    <3> QED
      BY <3>2 DEF ToSet
  <2>2. 1 \in DOMAIN inbox /\ x = inbox[1]
    BY <1>4
  <2>3. x \in ToSet(inbox)
    BY <2>2 DEF ToSet
  <2>4. \A y \in ToSet(inbox') : y \in ToSet(inbox)
    BY <2>1 DEF ToSet
  <2> QED
    BY <2>3, <2>4
<1>6. /\ ToSet(taken) \subseteq ToSet(taken')
      /\ ToSet(taken') \subseteq ToSet(taken) \cup {x}
      /\ Fresh(x) => x \in ToSet(taken')
  <2>1. CASE Fresh(x)
    <3>1. /\ taken' \in Seq(1 .. n) /\ Len(taken') = Len(taken) + 1
          /\ \A i \in 1 .. Len(taken) : taken'[i] = taken[i]
          /\ taken'[Len(taken) + 1] = x
      BY <1>1, <1>3, <1>4, <2>1, AppendProperties
    <3>2. DOMAIN taken' = 1 .. Len(taken) + 1
      BY <3>1, LenProperties
    <3>3. \A i \in DOMAIN taken : i \in DOMAIN taken' /\ taken'[i] = taken[i]
      BY <1>3, <3>1, <3>2
    <3>4. \A i \in DOMAIN taken' : i \in DOMAIN taken \/ taken'[i] = x
      BY <1>3, <3>1, <3>2
    <3>5. Len(taken) + 1 \in DOMAIN taken' /\ taken'[Len(taken) + 1] = x
      BY <1>3, <3>1, <3>2
    <3>6. x \in ToSet(taken')
      BY <3>5 DEF ToSet
    <3>7. ToSet(taken) \subseteq ToSet(taken')
      BY <3>3 DEF ToSet
    <3>8. ToSet(taken') \subseteq ToSet(taken) \cup {x}
      BY <3>3, <3>4 DEF ToSet
    <3> QED
      BY <3>6, <3>7, <3>8
  <2>2. CASE ~Fresh(x)
    BY <1>1, <2>2
  <2> QED
    BY <2>1, <2>2
<1>7. \A y : NothingMissedBefore(y) => NothingMissedBefore(y)'
  BY <1>1, <1>2, <1>6 DEF NothingMissedBefore, InForce
<1>8. NothingMissed'
  BY <1>5, <1>6, <1>7 DEF CursorInvariant, NothingMissed
<1>9. DeliveredIsTaken'
  BY <1>1, <1>2, <1>6 DEF CursorInvariant, DeliveredIsTaken, InForce
\* An input that is not fresh was taken, or is no longer in force.
<1>10. ASSUME NEW j \in DOMAIN mailbox, mailbox[j].sequence = x, InForce(x)
       PROVE  x \in ToSet(taken')
  <2>1. CASE Fresh(x)
    BY <1>6, <2>1
  <2>2. CASE ~Fresh(x)
    <3> DEFINE t == Last(taken)
    <3>1. t \in ToSet(taken) /\ t \in 1 .. n /\ ~(x > t)
      <4>1. taken # <<>> /\ ~(x > t)
        BY <2>2 DEF Fresh
      <4>2. Len(taken) \in 1 .. Len(taken)
        BY <1>3, <4>1, EmptySeq
      <4>3. t = taken[Len(taken)]
        BY DEF Last
      <4> QED
        BY <1>3, <4>1, <4>2, <4>3, ElementOfSeq DEF ToSet
    <3>2. CASE x = t
      BY <1>6, <3>1, <3>2
    <3>3. CASE x # t
      <4>1. x < t
        BY <1>4, <3>1, <3>3
      <4>2. NothingMissedBefore(t)
        BY <3>1 DEF CursorInvariant, NothingMissed
      <4> QED
        BY <1>6, <1>10, <4>1, <4>2 DEF NothingMissedBefore
    <3> QED
      BY <3>2, <3>3
  <2> QED
    BY <2>1, <2>2
<1>11. OldestFirst'
  <2>1. CASE worker.pc = "sent" /\ Len(inbox) = 1
    <3>1. worker'.pc = "finish" /\ worker'.job = worker.job /\ worker.job \in DOMAIN mailbox
      <4>1. worker \in [pc : WorkerPlaces, job : {0} \cup DOMAIN mailbox]
        BY DEF ChatInvariant, TypeOK, AgentTyped, WorkerPlaces
      <4> QED
        BY <1>1, <2>1, <4>1, CursorShapes DEF AtWork
    <3>2. mailbox[worker.job].sequence = x
      BY <1>4, <2>1 DEF CursorInvariant, OldestFirst, Last
    <3>3. InForce(mailbox[worker.job].sequence) => mailbox[worker.job].sequence \in ToSet(taken')
      BY <1>10, <3>1, <3>2
    <3> QED
      BY <1>1, <1>2, <2>1, <3>1, <3>3 DEF CursorInvariant, OldestFirst, AtWork, InForce
  <2>2. CASE worker.pc = "sent" /\ Len(inbox) # 1
    <3>1. inbox' # <<>> /\ Last(inbox') = Last(inbox)
      <4>1. Len(inbox) - 1 \in 1 .. Len(inbox) - 1 /\ (Len(inbox) - 1) + 1 = Len(inbox)
        BY <1>4, <2>2
      <4>2. inbox'[Len(inbox) - 1] = inbox[Len(inbox)]
        BY <1>4, <4>1
      <4>3. Len(inbox') # 0
        BY <1>4, <4>1
      <4> QED
        BY <1>4, <4>2, <4>3 DEF Last
    <3> QED
      BY <1>1, <2>2, <3>1 DEF CursorInvariant, OldestFirst, AtWork
  <2>3. CASE worker.pc # "sent"
    BY <1>1, <1>2, <1>6, <2>3 DEF CursorInvariant, OldestFirst, AtWork, InForce
  <2> QED
    BY <2>1, <2>2, <2>3
<1> QED
  BY <1>1, <1>8, <1>9, <1>11, ReadersFrame, MailFrame DEF CursorInvariant

\* The row of the finished attempt is told delivered: the agent has it, or it is
\* no longer in force.
LEMMA FinishKeepsCursor ==
    ASSUME ChatInvariant, ChatInvariant', CursorInvariant, WorkerFinishes
    PROVE  CursorInvariant'
<1>1. /\ UNCHANGED <<publisher, source, reading, inbox, taken>>
      /\ worker.pc = "finish" /\ worker' = [NoWorker EXCEPT !.pc = "read"]
      /\ mailbox' = [mailbox EXCEPT ![worker.job].delivered = TRUE]
  BY DEF WorkerFinishes
<1>2. UNCHANGED notices
  BY <1>1 DEF publisher
<1>3. worker.job \in DOMAIN mailbox
  BY <1>1, CursorShapes DEF AtWork
<1>4. \A j \in DOMAIN mailbox : mailbox[j] \in Letters(Len(notices))
  <2>1. mailbox \in Seq(Letters(Len(notices)))
    BY ReceivingShapes DEF ReceivingHolds
  <2> QED
    BY <2>1, LenProperties, ElementOfSeq
<1>5. /\ DOMAIN mailbox' = DOMAIN mailbox
      /\ \A j \in DOMAIN mailbox : mailbox'[j].sequence = mailbox[j].sequence
      /\ \A j \in DOMAIN mailbox :
            mailbox'[j].delivered => mailbox[j].delivered \/ j = worker.job
  BY <1>1, <1>3, <1>4 DEF Letters
<1>6. MailInOrder' /\ PositionCovered'
  BY <1>1, <1>2, <1>5 DEF CursorInvariant, MailInOrder, PositionCovered, InForce
<1>7. DeliveredIsTaken'
  <2>1. InForce(mailbox[worker.job].sequence) => mailbox[worker.job].sequence \in ToSet(taken)
    BY <1>1 DEF CursorInvariant, OldestFirst
  <2> QED
    BY <1>1, <1>2, <1>5, <2>1 DEF CursorInvariant, DeliveredIsTaken, InForce
<1>8. OldestFirst'
  BY <1>1 DEF OldestFirst, AtWork, NoWorker
<1>9. NothingMissed'
  BY <1>1, <1>2, <1>5 DEF CursorInvariant, NothingMissed, NothingMissedBefore, InForce
<1> QED
  BY <1>1, <1>6, <1>7, <1>8, <1>9, ReadersFrame DEF CursorInvariant

LEMMA CrashKeepsCursor ==
    ASSUME ChatInvariant, ChatInvariant', CursorInvariant, Crash
    PROVE  CursorInvariant'
<1>1. /\ UNCHANGED <<publisher, source, mailbox, taken>>
      /\ task' = Off /\ feed' = NoFeed /\ worker' = NoWorker /\ inbox' = <<>>
  BY DEF Crash
<1>2. UNCHANGED <<notices, prefs>> /\ source.position \in Nat
  BY <1>1, CursorShapes DEF publisher
<1>3. InForceIsCurrent'
  BY <1>2 DEF CursorInvariant, InForceIsCurrent, InForce
<1>4. ItemsInForce' /\ PagesConnected'
  BY <1>1, <1>2, NoPages DEF NoFeed, Off
<1>5. OldestFirst'
  BY <1>1 DEF OldestFirst, AtWork, NoWorker
<1>6. NothingMissed'
  <2>1. ToSet(inbox') = {}
    BY <1>1 DEF ToSet
  <2> QED
    BY <1>1, <2>1, TakenFrame DEF CursorInvariant, NothingMissed
<1> QED
  BY <1>1, <1>3, <1>4, <1>5, <1>6, MailFrame, TakenFrame DEF CursorInvariant

-----------------------------------------------------------------------------

LEMMA InitCursor == ASSUME Init PROVE CursorInvariant
<1>1. /\ notices = <<>> /\ mailbox = <<>> /\ inbox = <<>> /\ taken = <<>>
      /\ worker = NoWorker /\ task = Off /\ feed = NoFeed /\ source.position = 0
  BY DEF Init
<1>2. InForceIsCurrent /\ ItemsInForce /\ PagesConnected
  BY <1>1 DEF InForceIsCurrent, ItemsInForce, PagesConnected, NoFeed, Off
<1>3. MailInOrder /\ PositionCovered /\ DeliveredIsTaken
  BY <1>1 DEF MailInOrder, PositionCovered, DeliveredIsTaken
<1>4. OldestFirst /\ NothingMissed
  BY <1>1 DEF OldestFirst, AtWork, NoWorker, NothingMissed, ToSet
<1> QED
  BY <1>2, <1>3, <1>4 DEF CursorInvariant

LEMMA NextKeepsCursor ==
    ASSUME ChatInvariant, ChatInvariant', CursorInvariant, [Next]_vars
    PROVE  CursorInvariant'
<1>1. CASE Post
  BY <1>1, PostKeepsCursor
<1>2. CASE Command \/ CallFails \/ UNCHANGED vars
  BY <1>2, CommandKeepsCursor
<1>3. CASE SourcesRead \/ MeshChanged \/ FeedConnect \/ Resume \/ FeedBreaks \/ SourceFails
  BY <1>3, ConnectionsKeepCursor
<1>4. CASE FeedRead
  BY <1>4, FeedReadKeepsCursor
<1>5. CASE Accept
  BY <1>5, AcceptKeepsCursor
<1>6. CASE Dispatch \/ WorkerReads \/ WorkerChecks \/ WorkerFails \/ WorkerRetries
  BY <1>6, WorkerMovesKeepCursor
<1>7. CASE WorkerAppends
  BY <1>7, AppendKeepsCursor
<1>8. CASE WorkerFinishes
  BY <1>8, FinishKeepsCursor
<1>9. CASE Takes
  BY <1>9, TakesKeepsCursor
<1>10. CASE Crash
  BY <1>10, CrashKeepsCursor
<1> QED
  BY <1>1, <1>2, <1>3, <1>4, <1>5, <1>6, <1>7, <1>8, <1>9, <1>10 DEF Next, Delivery, Faulty

\* What the cursor passes over holds in every state the tasks can reach: notices in
\* force are of the preference in force, pages join, and workers go oldest first.
THEOREM CursorInvariantHolds == Spec => []CursorInvariant
<1>1. Init => CursorInvariant
  BY InitCursor
<1>2. ChatInvariant /\ ChatInvariant' /\ CursorInvariant /\ [Next]_vars => CursorInvariant'
  BY NextKeepsCursor
<1> QED
  BY <1>1, <1>2, ChatInvariantHolds, PTL DEF Spec

\* The committed cursor passes over no notice that is still wanted, and what the
\* mailbox calls delivered the agent has, however late the answers to preference
\* commands came, for any bounds on commands, pages and faults.
THEOREM TheCursorSkipsNothing == Spec => []CursorSkipsNothing
<1>1. ASSUME ChatInvariant, CursorInvariant
      PROVE  CursorSkipsNothing
  <2>1. ASSUME feed.pages # <<>>
        PROVE  Head(feed.pages).after <= source.position
    <3>1. 1 \in DOMAIN feed.pages /\ Head(feed.pages) = feed.pages[1]
      <4>1. feed.pages \in Seq(Pages)
        BY <1>1, PageShapes
      <4> QED
        BY <2>1, <4>1, EmptySeq, LenProperties, HeadTailProperties
    <3>2. \A j \in 1 .. (1 - 1) : FALSE
      OBVIOUS
    <3> QED
      BY <1>1, <3>1, <3>2 DEF CursorInvariant, PagesConnected
  <2> QED
    BY <1>1, <2>1 DEF CursorInvariant, PositionCovered, DeliveredIsTaken, CursorSkipsNothing
<1> QED
  BY <1>1, ChatInvariantHolds, CursorInvariantHolds, PTL

-----------------------------------------------------------------------------
(***************************************************************************)
(* Why rest means delivered.  Whoever adds or keeps a row that waits leaves *)
(* a signal or a worker, so that without either nothing waits; and a reader *)
(* with nothing left to read has its cursor at the publisher's last notice, *)
(* which connected pages carry to the committed position.                   *)
(***************************************************************************)
Woken ==
    /\ worker = NoWorker /\ ~signals.mailbox => Pending = {}
    /\ worker.pc = "none" => worker = NoWorker

LEMMA WaitingFrame ==
    ASSUME Woken, UNCHANGED <<mailbox, worker>>, signals.mailbox => signals'.mailbox
    PROVE  Woken'
BY DEF Woken, Pending

LEMMA AcceptWakes ==
    ASSUME ChatInvariant, CursorInvariant, Woken, Accept
    PROVE  Woken'
<1> DEFINE page == Head(feed.pages)
<1>1. PICK chosen \in InOrder(Wanted(page)) : mailbox' = mailbox \o Mail(page, chosen)
  BY DEF Accept
<1>2. feed.pages # <<>> /\ UNCHANGED worker
      /\ signals' = [signals EXCEPT !.mailbox = @ \/ Wanted(page) # {}]
  BY DEF Accept, delivering
<1>3. ReceivingHolds /\ ReaderTyped
  BY ReceivingShapes DEF ChatInvariant, TypeOK
<1>4. signals'.mailbox = (signals.mailbox \/ Wanted(page) # {})
  BY <1>2, <1>3 DEF ReaderTyped
<1>5. CASE Wanted(page) # {}
  BY <1>2, <1>4, <1>5 DEF Woken
<1>6. CASE Wanted(page) = {}
  <2>1. Cardinality(Wanted(page)) = 0
    BY <1>6, FS_EmptySet
  <2>2. chosen \in [1 .. 0 -> {}]
    BY <1>6, <2>1 DEF InOrder
  <2>3. DOMAIN Mail(page, chosen) = {}
    BY <2>2 DEF Mail
  <2>4. Mail(page, chosen) \in Seq(Letters(Len(notices)))
    <3>1. page = feed.pages[1] /\ 1 \in DOMAIN feed.pages /\ page \in Pages
      BY <1>2, PageShapes, HeadTailProperties, EmptySeq
    <3>2. Faithful(page) /\ PublisherTyped
      BY <1>3, <3>1 DEF ReceivingHolds, ChatInvariant, TypeOK
    <3> QED
      BY <3>1, <3>2, MailOfPage
  <2>5. Mail(page, chosen) = <<>>
    BY <2>3, <2>4, EmptySeq, LenProperties
  <2>6. mailbox \in Seq(Letters(Len(notices)))
    BY <1>3 DEF ReceivingHolds
  <2>7. mailbox' = mailbox
    BY <1>1, <2>5, <2>6, ConcatEmptySeq
  <2> QED
    BY <1>2, <1>4, <2>7, WaitingFrame
<1> QED
  BY <1>5, <1>6

LEMMA NextWakes ==
    ASSUME ChatInvariant, CursorInvariant, Woken, [Next]_vars
    PROVE  Woken'
<1>1. ReaderTyped /\ AgentTyped
  BY DEF ChatInvariant, TypeOK
<1>2. CASE \/ Post \/ Command \/ CallFails \/ UNCHANGED vars
           \/ SourcesRead \/ MeshChanged \/ FeedConnect \/ FeedRead \/ Resume
           \/ FeedBreaks \/ SourceFails
  <2>1. UNCHANGED <<mailbox, worker>>
    BY <1>2 DEF Post, Command, Execute, Freeze, Withdraw, Retry, Recover, Register, Send,
       RecordPolicy, Settle, CallFails, SourcesRead, MeshChanged, FeedConnect, FeedRead, Resume,
       FeedBreaks, SourceFails, delivering, vars
  <2>2. signals.mailbox => signals'.mailbox
    BY <1>1, <1>2 DEF ReaderTyped, Post, Command, Execute, Freeze, Withdraw, Retry, Recover,
       Register, Send, RecordPolicy, Settle, CallFails, SourcesRead, MeshChanged, FeedConnect,
       FeedRead, Resume, FeedBreaks, SourceFails, vars
  <2> QED
    BY <2>1, <2>2, WaitingFrame
<1>3. CASE Accept
  BY <1>3, AcceptWakes
<1>4. CASE Dispatch
  <2>1. CASE worker = NoWorker \/ Joined
    <3>1. /\ worker' = [NoWorker EXCEPT !.pc = IF Pending # {} THEN "read" ELSE "none"]
          /\ UNCHANGED mailbox
      BY <1>4, <2>1 DEF Dispatch
    <3> QED
      BY <3>1 DEF Woken, Pending, NoWorker
  <2>2. CASE worker # NoWorker /\ ~Joined
    <3>1. UNCHANGED <<worker, mailbox>>
      BY <1>4, <2>2 DEF Dispatch
    <3> QED
      BY <2>2, <3>1 DEF Woken
  <2> QED
    BY <2>1, <2>2
<1>5. CASE WorkerReads \/ WorkerChecks \/ WorkerAppends \/ WorkerFinishes \/ WorkerFails
           \/ WorkerRetries
  <2>1. worker'.pc # "none"
    BY <1>1, <1>5 DEF AgentTyped, WorkerReads, WorkerChecks, WorkerAppends, WorkerFinishes,
       WorkerFails, WorkerRetries, NoWorker
  <2> QED
    BY <2>1 DEF Woken, NoWorker
<1>6. CASE Takes
  <2>1. UNCHANGED <<mailbox, signals>>
    BY <1>6 DEF Takes
  <2>2. CASE UNCHANGED worker
    BY <2>1, <2>2, WaitingFrame
  <2>3. CASE worker' = [worker EXCEPT !.pc = "finish"]
    <3>1. worker'.pc = "finish"
      BY <1>1, <2>3 DEF AgentTyped
    <3> QED
      BY <3>1 DEF Woken, NoWorker
  <2> QED
    BY <1>6, <2>2, <2>3 DEF Takes
<1>7. CASE Crash
  <2>1. worker' = NoWorker /\ signals'.mailbox = (Pending # {}) /\ UNCHANGED mailbox
    BY <1>7 DEF Crash
  <2> QED
    BY <2>1 DEF Woken, Pending
<1> QED
  BY <1>2, <1>3, <1>4, <1>5, <1>6, <1>7 DEF Next, Delivery, Faulty

LEMMA WokenHolds == Spec => []Woken
<1>1. Init => Woken
  BY DEF Init, Woken, Pending
<1>2. ChatInvariant /\ CursorInvariant /\ Woken /\ [Next]_vars => Woken'
  BY NextWakes
<1> QED
  BY <1>1, <1>2, ChatInvariantHolds, CursorInvariantHolds, PTL DEF Spec

\* When nothing of the delivery is left to do, every notice in force has reached its
\* agent unless nothing follows the source: whatever the interleaving of manager,
\* workers, feed, commands and crashes, no wake-up is lost.
THEOREM NoWakeUpIsLost == Spec => []RestMeansDelivered
<1>1. ASSUME ChatInvariant, CursorInvariant, Woken
      PROVE  RestMeansDelivered
  <2> SUFFICES ASSUME AtRest, NEW k \in DOMAIN notices, InForce(k), ~Unfollowed
               PROVE  k \in ToSet(taken)
    BY DEF RestMeansDelivered
  <2>1. feed.pages = <<>> /\ feed.cursor = Len(notices)
    BY DEF AtRest, Unfollowed
  <2>2. feed.cursor <= source.position
    <3>1. DOMAIN feed.pages = {}
      BY <2>1
    <3> QED
      BY <1>1, <3>1 DEF CursorInvariant, PagesConnected
  <2>3. k <= source.position
    BY <1>1, <2>1, <2>2, CursorShapes
  <2>4. PICK j \in DOMAIN mailbox : mailbox[j].sequence = k
    BY <1>1, <2>3 DEF CursorInvariant, PositionCovered
  <2>5. worker.pc # "sent"
    BY <1>1 DEF CursorInvariant, OldestFirst, AtRest
  <2>6. Pending = {}
    BY <1>1, <2>5 DEF Woken, AtRest, Joined
  <2>7. mailbox[j].delivered
    BY <2>6 DEF Pending
  <2> QED
    BY <1>1, <2>4, <2>7 DEF CursorInvariant, DeliveredIsTaken
<1> QED
  BY <1>1, ChatInvariantHolds, CursorInvariantHolds, WokenHolds, PTL
=============================================================================
