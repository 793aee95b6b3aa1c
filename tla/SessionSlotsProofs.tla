------------------------- MODULE SessionSlotsProofs -------------------------
(***************************************************************************)
(* Proofs about SessionSlots, for every number of requests, deletions and  *)
(* runners and for every capacity and limit.                               *)
(***************************************************************************)
EXTENDS SessionSlots, TLAPS

-----------------------------------------------------------------------------
(* Lemmas about the operators the actions share *)

\* What each kind of sender puts into the mailbox is a command.
LEMMA SentCommands ==
  /\ \A c \in Clients : Command("input", c) \in Commands
  /\ \A i \in Internals : Command("deadline", i) \in Commands
  /\ \A p \in Stoppers : Command("stop", p) \in Commands
  /\ \A n \in Nat, cause \in Causes \cup {None, "diagnostic"} : Fault(n, cause) \in Commands
  BY DEF Command, Fault, Commands

\* A command tells who waits for it.
LEMMA CommandSenders ==
  ASSUME NEW c \in Commands
  PROVE  /\ c.kind = "input" => c.from \in Clients
         /\ c.kind = "stop" => c.from \in Stoppers
         /\ c.from \in Clients \cup Internals \cup Stoppers \cup {None}
         /\ c.count \in Nat /\ c.cause \in Causes \cup {None, "diagnostic"}
  BY DEF Commands

\* Answering the senders of dropped commands moves tasks to known places.
LEMMA AnswerTyped ==
  ASSUME TaskTypes, NEW tasks, Answer(tasks)
  PROVE  pc' \in [Procs -> Places]
  BY DEF TaskTypes, Answer, Places

\* An empty mailbox and one with a single command are mailboxes.
LEMMA Mailboxes ==
  <<>> \in Seq(Commands) /\ \A c \in Commands : <<c>> \in Seq(Commands)
  OBVIOUS

\* Activation is well typed.
LEMMA ActivateTyped ==
  ASSUME SlotTypes, MailTypes, TaskTypes, NEW initial \in Seq(Commands), Activate(initial)
  PROVE  SlotTypes' /\ MailTypes' /\ asleep' \subseteq Procs
  BY LimitsAssumption DEF SlotTypes, MailTypes, Activate, Notify, RunnerIds, Running, Statuses

\* What the runner's batches leave in the log.
LEMMA AppendsTyped ==
  ASSUME LogTypes,
         \/ UNCHANGED <<inputs, work, ended, streak>>
         \/ \E c \in Clients : AppendInput(c)
         \/ \E f \in Commands : AppendFault(f)
         \/ AppendStep
  PROVE  inputs' \in Seq(Clients) /\ work' \in BOOLEAN /\ ended' \in BOOLEAN /\ streak' \in Streaks
<1>1. CASE UNCHANGED <<inputs, work, ended, streak>>
  BY <1>1 DEF LogTypes
<1>2. ASSUME NEW c \in Clients, AppendInput(c)
      PROVE  inputs' \in Seq(Clients) /\ work' \in BOOLEAN /\ ended' \in BOOLEAN /\ streak' \in Streaks
  <2>1. inputs' = Append(inputs, c) /\ work' = TRUE /\ ended' = FALSE /\ streak' = streak
    BY <1>2 DEF AppendInput
  <2>2. inputs \in Seq(Clients) /\ streak \in Streaks
    BY DEF LogTypes
  <2>3. Append(inputs, c) \in Seq(Clients)
    BY <2>2
  <2>4. work' \in BOOLEAN /\ ended' \in BOOLEAN
    BY <2>1
  <2> QED
    BY <2>1, <2>2, <2>3, <2>4
<1>3. ASSUME NEW f \in Commands, AppendFault(f)
      PROVE  inputs' \in Seq(Clients) /\ work' \in BOOLEAN /\ ended' \in BOOLEAN /\ streak' \in Streaks
  <2>1. f.count \in Nat /\ f.cause \in Causes \cup {None, "diagnostic"}
    BY CommandSenders
  <2> QED
    BY <1>3, <2>1 DEF AppendFault, LogTypes, Streaks
<1>4. CASE AppendStep
  <2>1. \A x \in Streaks : Calmer(x) \in Streaks
    BY DEF Calmer, Calm, Streaks
  <2> QED
    BY <1>4, <2>1 DEF AppendStep, LogTypes
<1> QED
  BY <1>1, <1>2, <1>3, <1>4

\* What is left of the mailbox after its first command is taken.
LEMMA TailTyped ==
  ASSUME queue \in Seq(Commands), queue # <<>>
  PROVE  Head(queue) \in Commands /\ Tail(queue) \in Seq(Commands)
  OBVIOUS

-----------------------------------------------------------------------------
(* Types *)

\* Every variable keeps its type, through every action of the slot.
THEOREM TypeCorrect == Spec => []TypeOK
<1> USE LimitsAssumption, TasksAssumption DEF Procs, Senders, Stoppers, RunnerIds
<1>1. Init => TypeOK
  <2> SUFFICES ASSUME Init PROVE TypeOK
    OBVIOUS
  <2>1. SlotTypes
    BY DEF Init, SlotTypes, Statuses
  <2>2. MailTypes
    BY DEF Init, MailTypes
  <2>3. TaskTypes
    <3>1. pc \in [Procs -> Places]
      BY DEF Init, Places
    <3>2. got \in [Procs -> [rid : 0 .. MaxRunners, chan : 0 .. MaxRunners]]
      BY DEF Init
    <3>3. asleep \subseteq Procs /\ stopping \in BOOLEAN
      BY DEF Init
    <3> QED
      BY <3>1, <3>2, <3>3 DEF TaskTypes
  <2>4. LogTypes
    <3>1. streak \in Streaks
      BY DEF Init, Calm, Streaks
    <3>2. work \in BOOLEAN /\ ended \in BOOLEAN /\ detached \in BOOLEAN
      BY DEF Init
    <3>3. failure \in Causes \cup {None} /\ live \in 0 .. MaxRunners /\ faults \in Nat
      BY DEF Init
    <3>4. asked \in [Clients -> Inputs] /\ inputs \in Seq(Clients)
      BY DEF Init
    <3> QED
      BY <3>1, <3>2, <3>3, <3>4 DEF LogTypes
  <2> QED
    BY <2>1, <2>2, <2>3, <2>4 DEF TypeOK
<1>2. TypeOK /\ [Next]_vars => TypeOK'
  <2> SUFFICES ASSUME TypeOK, [Next]_vars PROVE TypeOK'
    OBVIOUS
  <2> USE DEF TypeOK, Goto, Notify, Register, Nothing, Read, Forget, Places, Statuses,
              slotVars, mailVars, taskVars, logVars
  <2>1. CASE UNCHANGED vars
    BY <2>1 DEF vars, SlotTypes, MailTypes, TaskTypes, LogTypes
  <2>2. ASSUME NEW p \in Senders, Submit(p) PROVE TypeOK'
    BY <2>2 DEF Submit, SlotTypes, MailTypes, TaskTypes, LogTypes
  <2>3. ASSUME NEW p \in Senders, Claim(p) PROVE TypeOK'
    BY <2>3 DEF Claim, SlotTypes, MailTypes, TaskTypes, LogTypes
  <2>4. ASSUME NEW p \in Senders, Proceed(p) PROVE TypeOK'
    BY <2>4 DEF Proceed, SlotTypes, MailTypes, TaskTypes, LogTypes
  <2>5. ASSUME NEW p \in Senders, Refuse(p) PROVE TypeOK'
    BY <2>5 DEF Refuse, SlotTypes, MailTypes, TaskTypes, LogTypes
  <2>6. ASSUME NEW p \in Senders, AwaitChange(p) PROVE TypeOK'
    BY <2>6 DEF AwaitChange, SlotTypes, MailTypes, TaskTypes, LogTypes
  <2>7. ASSUME NEW p \in Senders, Woken(p) PROVE TypeOK'
    BY <2>7 DEF Woken, SlotTypes, MailTypes, TaskTypes, LogTypes
  <2>8. ASSUME NEW p \in Senders, Retry(p) PROVE TypeOK'
    BY <2>8 DEF Retry, SlotTypes, MailTypes, TaskTypes, LogTypes
  <2>9. ASSUME NEW p \in Senders, Recover(p) PROVE TypeOK'
    <3>1. PICK initial \in {<<>>, <<Fault(1, "diagnostic")>>} : Activate(initial)
      BY <2>9 DEF Recover
    <3>2. Fault(1, "diagnostic") \in Commands
      BY SentCommands
    <3>3. initial \in Seq(Commands)
      BY <3>1, <3>2, Mailboxes
    <3>4. SlotTypes' /\ MailTypes' /\ asleep' \subseteq Procs
      BY <3>1, <3>3, ActivateTyped
    <3>5. TaskTypes'
      BY <2>9, <3>4 DEF Recover, TaskTypes
    <3>6. LogTypes'
      BY <2>9 DEF Recover, LogTypes
    <3> QED
      BY <3>4, <3>5, <3>6
  <2>10. ASSUME NEW c \in Clients, Dispatch(c) PROVE TypeOK'
    <3>1. MailTypes'
      BY <2>10, SentCommands DEF Dispatch, MailTypes, Push
    <3>2. TaskTypes'
      <4>1. Goto(c, "sent") \/ Goto(c, "err")
        BY <2>10 DEF Dispatch
      <4>2. UNCHANGED <<got, asleep, stopping>>
        BY <2>10 DEF Dispatch
      <4> QED
        BY <4>1, <4>2 DEF TaskTypes
    <3>3. UNCHANGED <<slotVars, logVars, faults>>
      BY <2>10 DEF Dispatch
    <3>4. SlotTypes' /\ LogTypes'
      BY <3>3 DEF SlotTypes, LogTypes
    <3> QED
      BY <3>1, <3>2, <3>4
  <2>11. ASSUME NEW i \in Internals, Grab(i) PROVE TypeOK'
    BY <2>11 DEF Grab, SlotTypes, MailTypes, TaskTypes, LogTypes
  <2>12. ASSUME NEW i \in Internals, Reserve(i) PROVE TypeOK'
    <3>1. UNCHANGED <<slotVars, mailVars, stopping, logVars, faults>>
      BY <2>12 DEF Reserve
    <3>2. SlotTypes' /\ MailTypes' /\ LogTypes'
      BY <3>1 DEF SlotTypes, MailTypes, LogTypes
    <3>3. pc' \in [Procs -> Places]
      BY <2>12 DEF Reserve, TaskTypes
    <3>4. got' \in [Procs -> [rid : 0 .. MaxRunners, chan : 0 .. MaxRunners]]
      BY <2>12 DEF Reserve, TaskTypes
    <3>5. asleep' \subseteq Procs
      BY <2>12 DEF Reserve, TaskTypes
    <3> QED
      BY <3>1, <3>2, <3>3, <3>4, <3>5 DEF TaskTypes
  <2>13. ASSUME NEW i \in Internals, Recheck(i) PROVE TypeOK'
    <3>1. MailTypes'
      BY <2>13, SentCommands DEF Recheck, MailTypes, Push
    <3>2. UNCHANGED <<slotVars, asleep, stopping, logVars, faults>>
      BY <2>13 DEF Recheck
    <3>3. SlotTypes' /\ LogTypes'
      BY <3>2 DEF SlotTypes, LogTypes
    <3>4. Goto(i, "ok") \/ Goto(i, "ensure")
      BY <2>13 DEF Recheck
    <3>5. Forget(i)
      BY <2>13 DEF Recheck
    <3>6. TaskTypes'
      BY <3>2, <3>4, <3>5 DEF TaskTypes
    <3> QED
      BY <3>1, <3>3, <3>6
  <2>14. ASSUME NEW r \in RunnerIds, HandleInput(r) PROVE TypeOK'
    <3> DEFINE c == Head(queue).from
    <3>1. SlotTypes'
      BY <2>14 DEF HandleInput, Exit, SlotTypes, Takes, Running
    <3>2. MailTypes'
      BY <2>14, TailTyped DEF HandleInput, MailTypes, Takes
    <3>3. c \in Clients
      BY <2>14, TailTyped, CommandSenders DEF HandleInput, Takes, MailTypes
    <3>4. TaskTypes'
      <4>1. PICK where \in {"ok", "err"} : Goto(c, where)
        BY <2>14 DEF HandleInput
      <4>2. UNCHANGED <<got, asleep, stopping>>
        BY <2>14 DEF HandleInput
      <4> HIDE DEF c
      <4>3. pc' = [pc EXCEPT ![c] = where]
        BY <4>1 DEF Goto
      <4>4. pc \in [Procs -> Places] /\ where \in Places
        BY DEF TaskTypes
      <4>5. pc' \in [Procs -> Places]
        BY <4>3, <4>4
      <4> QED
        BY <4>2, <4>5 DEF TaskTypes
    <3>5. LogTypes'
      <4>1. UNCHANGED <<inputs, work, ended, streak>> \/ AppendInput(c)
        BY <2>14 DEF HandleInput
      <4>2. UNCHANGED <<failure, live, asked, detached, faults>>
        BY <2>14 DEF HandleInput
      <4> HIDE DEF c
      <4> QED
        BY <3>3, <4>1, <4>2, AppendsTyped DEF LogTypes
    <3> QED
      BY <3>1, <3>2, <3>4, <3>5
  <2>15. ASSUME NEW r \in RunnerIds, HandleDeadline(r) PROVE TypeOK'
    <3>1. SlotTypes'
      BY <2>15 DEF HandleDeadline, SlotTypes, Takes, Running
    <3>2. MailTypes'
      BY <2>15, TailTyped DEF HandleDeadline, MailTypes, Takes
    <3>3. TaskTypes' /\ LogTypes'
      BY <2>15 DEF HandleDeadline, TaskTypes, LogTypes
    <3> QED
      BY <3>1, <3>2, <3>3
  <2>16. ASSUME NEW r \in RunnerIds, HandleFault(r) PROVE TypeOK'
    <3> DEFINE f == Head(queue)
    <3>1. queue \in Seq(Commands) /\ queue # <<>> /\ f.kind = "fault"
      BY <2>16 DEF HandleFault, Takes, MailTypes
    <3>2. f \in Commands /\ Tail(queue) \in Seq(Commands)
      BY <3>1, TailTyped
    <3>3. f.count \in Nat /\ f.cause \in Causes \cup {None, "diagnostic"}
      BY <3>2, CommandSenders
    <3>4. \/ DropReceiver /\ Exit(r, "circuit")
          \/ queue' = Tail(queue) /\ Exit(r, "drain") /\ UNCHANGED <<chan, holder, pc>>
      BY <2>16 DEF HandleFault
    <3>5. UNCHANGED <<serving, got, asleep, stopping, failure, live, asked, detached, faults>>
      BY <2>16 DEF HandleFault
    <3>6. SlotTypes'
      BY <3>4 DEF SlotTypes, Exit, Running, Exits
    <3>7. MailTypes'
      <4>1. serving' \in Stoppers \cup {None}
        BY <3>5 DEF MailTypes
      <4>2. chan' \in 0 .. MaxRunners /\ holder' \in 0 .. MaxRunners
        BY <3>4 DEF MailTypes, DropReceiver
      <4>3. queue' = <<>> \/ queue' = Tail(queue)
        BY <3>4 DEF DropReceiver
      <4> QED
        BY <3>2, <4>1, <4>2, <4>3, Mailboxes DEF MailTypes
    <3>8. TaskTypes'
      BY <3>4, <3>5, AnswerTyped DEF TaskTypes, DropReceiver
    <3>9. LogTypes'
      <4>1. AppendFault(f)
        BY <2>16 DEF HandleFault
      <4> QED
        BY <3>2, <3>5, <4>1, AppendsTyped DEF LogTypes
    <3> QED
      BY <3>6, <3>7, <3>8, <3>9
  <2>17. ASSUME NEW r \in RunnerIds, HandleStop(r) PROVE TypeOK'
    <3>1. SlotTypes'
      BY <2>17 DEF HandleStop, SlotTypes, Exit, Running
    <3>2. MailTypes'
      BY <2>17, TailTyped, CommandSenders DEF HandleStop, MailTypes, Takes
    <3>3. TaskTypes' /\ LogTypes'
      BY <2>17 DEF HandleStop, TaskTypes, LogTypes
    <3> QED
      BY <3>1, <3>2, <3>3
  <2>18. ASSUME NEW r \in RunnerIds, Stopped(r) PROVE TypeOK'
    <3>1. SlotTypes'
      BY <2>18 DEF Stopped, SlotTypes, Exit, Exits
    <3>2. MailTypes'
      BY <2>18 DEF Stopped, MailTypes
    <3>3. TaskTypes'
      BY <2>18, AnswerTyped DEF Stopped, TaskTypes
    <3>4. LogTypes'
      BY <2>18 DEF Stopped, LogTypes
    <3> QED
      BY <3>1, <3>2, <3>3, <3>4
  <2>19. ASSUME NEW r \in RunnerIds, Drained(r) PROVE TypeOK'
    <3>1. SlotTypes'
      BY <2>19 DEF Drained, SlotTypes, Exit, Running
    <3>2. MailTypes' /\ TaskTypes' /\ LogTypes'
      BY <2>19 DEF Drained, MailTypes, TaskTypes, LogTypes
    <3> QED
      BY <3>1, <3>2
  <2>20. ASSUME NEW r \in RunnerIds, Decide(r) PROVE TypeOK'
    <3>1. SlotTypes'
      BY <2>20 DEF Decide, SlotTypes, Exit, Running, Exits
    <3>2. MailTypes' /\ TaskTypes' /\ LogTypes'
      BY <2>20 DEF Decide, MailTypes, TaskTypes, LogTypes
    <3> QED
      BY <3>1, <3>2
  <2>21. ASSUME NEW r \in RunnerIds, CompleteStep(r) PROVE TypeOK'
    <3>1. SlotTypes'
      BY <2>21 DEF CompleteStep, Exit, SlotTypes, Running
    <3>2. LogTypes'
      <4>1. AppendStep
        BY <2>21 DEF CompleteStep
      <4>2. UNCHANGED <<failure, asked, detached, faults>>
        BY <2>21 DEF CompleteStep
      <4>3. live' \in 0 .. MaxRunners
        BY <2>21 DEF CompleteStep, LogTypes
      <4> QED
        BY <4>1, <4>2, <4>3, AppendsTyped DEF LogTypes
    <3>3. MailTypes' /\ TaskTypes'
      BY <2>21 DEF CompleteStep, MailTypes, TaskTypes
    <3> QED
      BY <3>1, <3>2, <3>3
  <2>22. ASSUME NEW r \in RunnerIds, ReadStopping(r) PROVE TypeOK'
    BY <2>22 DEF ReadStopping, SlotTypes, MailTypes, TaskTypes, LogTypes
  <2>23. ASSUME NEW r \in RunnerIds, ExitIgnored(r) PROVE TypeOK'
    <3>1. SlotTypes'
      BY <2>23 DEF ExitIgnored, SlotTypes, SettleExit
    <3>2. DropReceiver \/ UNCHANGED <<chan, holder, queue, pc>>
      BY <2>23 DEF ExitIgnored
    <3>3. UNCHANGED <<serving, got, stopping, logVars, faults>>
      BY <2>23 DEF ExitIgnored
    <3>4. asleep' \subseteq Procs
      BY <2>23 DEF ExitIgnored, TaskTypes
    <3>5. MailTypes'
      <4>1. serving' \in Stoppers \cup {None}
        BY <3>3 DEF MailTypes
      <4>2. chan' \in 0 .. MaxRunners /\ holder' \in 0 .. MaxRunners
        BY <3>2 DEF MailTypes, DropReceiver
      <4>3. queue' = <<>> \/ queue' = queue
        BY <3>2 DEF DropReceiver
      <4> QED
        BY <4>1, <4>2, <4>3, Mailboxes DEF MailTypes
    <3>6. TaskTypes'
      BY <3>2, <3>3, <3>4, AnswerTyped DEF TaskTypes, DropReceiver
    <3>7. LogTypes'
      BY <3>3 DEF LogTypes
    <3> QED
      BY <3>1, <3>5, <3>6, <3>7
  <2>24. ASSUME NEW r \in RunnerIds, ExitIdle(r) PROVE TypeOK'
    <3>1. SlotTypes'
      BY <2>24 DEF ExitIdle, SlotTypes, SettleExit, Running
    <3>2. MailTypes'
      <4>1. queue' = queue /\ serving' = serving
        BY <2>24 DEF ExitIdle
      <4>2. chan' \in 0 .. MaxRunners /\ holder' \in 0 .. MaxRunners
        BY <2>24 DEF ExitIdle, MailTypes, SlotTypes
      <4> QED
        BY <4>1, <4>2 DEF MailTypes
    <3>3. UNCHANGED <<pc, got, stopping, logVars, faults>> /\ asleep' = {}
      BY <2>24 DEF ExitIdle
    <3>4. TaskTypes' /\ LogTypes'
      BY <3>3 DEF TaskTypes, LogTypes
    <3> QED
      BY <3>1, <3>2, <3>4
  <2>25. ASSUME NEW r \in RunnerIds, ExitEnded(r) PROVE TypeOK'
    <3>1. SlotTypes'
      BY <2>25 DEF ExitEnded, SlotTypes, SettleExit
    <3>2. MailTypes' /\ TaskTypes' /\ LogTypes'
      BY <2>25 DEF ExitEnded, MailTypes, TaskTypes, LogTypes
    <3> QED
      BY <3>1, <3>2
  <2>26. ASSUME NEW r \in RunnerIds, Complete(r) PROVE TypeOK'
    BY <2>26 DEF Complete, SlotTypes, MailTypes, TaskTypes, LogTypes
  <2>27. ASSUME NEW r \in RunnerIds, Fail(r) PROVE TypeOK'
    <3>1. SlotTypes'
      BY <2>27 DEF Fail, SlotTypes, Exit, Exits
    <3>2. MailTypes'
      BY <2>27 DEF Fail, MailTypes, DropReceiver
    <3>3. TaskTypes'
      BY <2>27, AnswerTyped DEF Fail, TaskTypes, DropReceiver
    <3>4. LogTypes'
      <4>1. \/ UNCHANGED <<inputs, work, ended, streak>>
            \/ AppendInput(Head(queue).from) /\ Head(queue).from \in Clients
            \/ AppendFault(Head(queue)) /\ Head(queue) \in Commands
            \/ AppendStep
        BY <2>27, TailTyped, CommandSenders DEF Fail, Takes, MailTypes
      <4>2. /\ UNCHANGED <<live, asked, detached>> /\ failure' \in Causes
            /\ faults' = faults + 1
        BY <2>27 DEF Fail, MayFault
      <4> QED
        BY <4>1, <4>2, AppendsTyped DEF LogTypes
    <3> QED
      BY <3>1, <3>2, <3>3, <3>4
  <2>28. ASSUME NEW p \in Stoppers, Woken(p) PROVE TypeOK'
    BY <2>28 DEF Woken, SlotTypes, MailTypes, TaskTypes, LogTypes
  <2>29. ASSUME NEW p \in Stoppers, SendStop(p) PROVE TypeOK'
    <3>1. MailTypes'
      BY <2>29, SentCommands DEF SendStop, MailTypes, Push
    <3>2. UNCHANGED <<slotVars, got, asleep, stopping, logVars, faults>>
      BY <2>29 DEF SendStop
    <3>3. Goto(p, "join") \/ Goto(p, "stopwait")
      BY <2>29 DEF SendStop
    <3>4. TaskTypes'
      BY <3>2, <3>3 DEF TaskTypes
    <3>5. SlotTypes' /\ LogTypes'
      BY <3>2 DEF SlotTypes, LogTypes
    <3> QED
      BY <3>1, <3>4, <3>5
  <2>30. ASSUME NEW p \in Stoppers, Join(p) PROVE TypeOK'
    BY <2>30 DEF Join, SlotTypes, MailTypes, TaskTypes, LogTypes
  <2>31. ASSUME NEW p \in Stoppers, CancelTools(p) PROVE TypeOK'
    BY <2>31 DEF CancelTools, SlotTypes, MailTypes, TaskTypes, LogTypes
  <2>32. ASSUME NEW d \in Deleters, Detach(d) PROVE TypeOK'
    <3>1. SlotTypes'
      BY <2>32 DEF Detach, SlotTypes
    <3>2. UNCHANGED <<mailVars, got, stopping, work, ended, streak, failure, live, asked, inputs>>
      BY <2>32 DEF Detach
    <3>3. detached' \in BOOLEAN
      BY <2>32 DEF Detach, LogTypes
    <3>4. faults' = faults \/ faults' = faults + 1
      BY <2>32 DEF Detach, MayFault
    <3>5. LogTypes'
      BY <3>2, <3>3, <3>4 DEF LogTypes
    <3>6. MailTypes' /\ TaskTypes'
      BY <2>32, <3>2 DEF Detach, MailTypes, TaskTypes
    <3> QED
      BY <3>1, <3>5, <3>6
  <2>33. ASSUME NEW d \in Deleters, BeginDelete(d) PROVE TypeOK'
    <3>1. SlotTypes'
      BY <2>33 DEF BeginDelete, SlotTypes
    <3>2. UNCHANGED <<mailVars, stopping, logVars, faults>>
      BY <2>33 DEF BeginDelete
    <3>3. \E where \in {"err", "wait", "stop", "tools"} : Goto(d, where)
      BY <2>33 DEF BeginDelete
    <3>4. Read(d) \/ UNCHANGED got
      BY <2>33 DEF BeginDelete
    <3>5. asleep' \subseteq Procs
      BY <2>33 DEF BeginDelete, TaskTypes
    <3>6. TaskTypes'
      <4>1. pc' \in [Procs -> Places]
        BY <3>3 DEF TaskTypes
      <4>2. got' \in [Procs -> [rid : 0 .. MaxRunners, chan : 0 .. MaxRunners]]
        BY <3>4 DEF TaskTypes, SlotTypes, MailTypes
      <4> QED
        BY <3>2, <3>5, <4>1, <4>2 DEF TaskTypes
    <3>7. MailTypes' /\ LogTypes'
      BY <3>2 DEF MailTypes, LogTypes
    <3> QED
      BY <3>1, <3>6, <3>7
  <2>34. ASSUME NEW p \in Shutdowns, BeginShutdown(p) PROVE TypeOK'
    BY <2>34 DEF BeginShutdown, SlotTypes, MailTypes, TaskTypes, LogTypes
  <2>35. ASSUME NEW p \in Shutdowns, AwaitDiscovery(p) PROVE TypeOK'
    BY <2>35 DEF AwaitDiscovery, SlotTypes, MailTypes, TaskTypes, LogTypes
  <2>36. ASSUME NEW p \in Shutdowns, StopSlot(p) PROVE TypeOK'
    BY <2>36 DEF StopSlot, SlotTypes, MailTypes, TaskTypes, LogTypes
  <2>37. ASSUME NEW p \in Procs, RecoverFails(p) PROVE TypeOK'
    <3>1. SlotTypes'
      BY <2>37 DEF RecoverFails, SlotTypes
    <3>2. LogTypes'
      BY <2>37 DEF RecoverFails, LogTypes, MayFault
    <3>3. MailTypes' /\ TaskTypes'
      BY <2>37 DEF RecoverFails, MailTypes, TaskTypes
    <3> QED
      BY <3>1, <3>2, <3>3
  <2>38. CASE Discover
    BY <2>38 DEF Discover, SlotTypes, MailTypes, TaskTypes, LogTypes
  <2>39. CASE Discovered
    <3>1. SlotTypes' /\ MailTypes' /\ asleep' \subseteq Procs
      <4>1. CASE Activate(<<>>)
        BY <4>1, ActivateTyped, Mailboxes
      <4>2. CASE Activate(<<Fault(1, "diagnostic")>>)
        BY <4>2, ActivateTyped, SentCommands, Mailboxes
      <4>3. CASE /\ st' = "Idle" /\ Notify
                 /\ UNCHANGED <<cur, next, runner, completed, seen, mailVars>>
        BY <4>3 DEF SlotTypes, MailTypes
      <4> QED
        BY <2>39, <4>1, <4>2, <4>3 DEF Discovered
    <3>2. TaskTypes'
      BY <2>39, <3>1 DEF Discovered, TaskTypes
    <3>3. LogTypes'
      BY <2>39 DEF Discovered, LogTypes
    <3> QED
      BY <3>1, <3>2, <3>3
  <2>40. CASE RebuildRunner
    <3> DEFINE n == IF streak.cause = failure THEN streak.count + 1 ELSE 1
    <3>1. n \in Nat /\ failure \in Causes \cup {None, "diagnostic"}
      BY DEF LogTypes, Streaks
    <3>2. Fault(n, failure) \in Commands
      BY <3>1, SentCommands
    <3>3. Activate(<<Fault(n, failure)>>)
      BY <2>40 DEF RebuildRunner
    <3>4. SlotTypes' /\ MailTypes' /\ asleep' \subseteq Procs
      <4> HIDE DEF n
      <4> QED
        BY <3>2, <3>3, ActivateTyped, Mailboxes
    <3>5. TaskTypes'
      BY <2>40, <3>4 DEF RebuildRunner, TaskTypes
    <3>6. LogTypes'
      BY <2>40 DEF RebuildRunner, LogTypes
    <3> QED
      BY <3>4, <3>5, <3>6
  <2>41. CASE ToolEnds
    <3>1. LogTypes'
      BY <2>41 DEF ToolEnds, LogTypes
    <3>2. SlotTypes' /\ MailTypes' /\ TaskTypes'
      BY <2>41 DEF ToolEnds, SlotTypes, MailTypes, TaskTypes
    <3> QED
      BY <3>1, <3>2
  <2> QED
    BY <2>1, <2>2, <2>3, <2>4, <2>5, <2>6, <2>7, <2>8, <2>9, <2>10, <2>11, <2>12, <2>13, <2>14, <2>15, <2>16, <2>17, <2>18, <2>19, <2>20, <2>21, <2>22, <2>23, <2>24, <2>25, <2>26, <2>27, <2>28, <2>29, <2>30, <2>31, <2>32, <2>33, <2>34, <2>35, <2>36, <2>37, <2>38, <2>39, <2>40, <2>41
       DEF Next, SendStep, RunnerStep, ExitStep, StopStep
<1> QED
  BY <1>1, <1>2, PTL DEF Spec

-----------------------------------------------------------------------------
(* What the parts of the invariant are kept by *)

\* A runner that is not over is the last one, and a deletion may have taken
\* the slot from it but nothing else has.
LEMMA LastRunner ==
  ASSUME TypeOK, SlotInvariant, NEW r \in RunnerIds, runner[r] \notin Over
  PROVE  /\ r = next
         /\ st \in {"Active", "Deleting"}
         /\ st = "Active" => cur = r
         /\ holder # 0 => holder = r
         /\ serving # None => runner[r] = "stopping"
  BY DEF SlotInvariant, RunnersInTurn, StatusTellsRunner, AnswersOwed, Over, Running

\* No task recovers a slot that is not Recovering.
LEMMA NoRecovery ==
  ASSUME SlotInvariant, st # "Recovering", NEW p \in Procs
  PROVE  pc[p] # "recover"
  BY DEF SlotInvariant, RecoveryClaimed

\* No deletion goes on in a slot that is not Deleting.
LEMMA NoDeletion ==
  ASSUME SlotInvariant, st # "Deleting", NEW d \in Deleters
  PROVE  ~Deletes(d)
  BY DEF SlotInvariant, DeletionHeld

\* How the senders of the queued commands change with the mailbox.
LEMMA QueuedMoves ==
  ASSUME queue \in Seq(Commands)
  PROVE  /\ queue' = queue => Queued' = Queued
         /\ queue' = <<>> => Queued' = {}
         /\ queue # <<>> /\ queue' = Tail(queue) => Queued' \subseteq Queued
         /\ queue # <<>> => Head(queue).from \in Queued
         /\ \A c \in Commands : queue' = Append(queue, c) => Queued' \subseteq Queued \cup {c.from}
         /\ \A c \in Commands : queue' = <<c>> => Queued' = {c.from}
<1>1. queue' = queue => Queued' = Queued
  BY DEF Queued
<1>2. queue' = <<>> => Queued' = {}
  BY DEF Queued
<1>3. ASSUME queue # <<>>, queue' = Tail(queue) PROVE Queued' \subseteq Queued
  <2>1. SUFFICES ASSUME NEW k \in 1 .. Len(queue') PROVE queue'[k].from \in Queued
    BY DEF Queued
  <2>2. k + 1 \in 1 .. Len(queue) /\ queue'[k] = queue[k + 1]
    BY <1>3
  <2> QED
    BY <2>2 DEF Queued
<1>4. ASSUME queue # <<>> PROVE Head(queue).from \in Queued
  <2>1. 1 \in 1 .. Len(queue) /\ Head(queue) = queue[1]
    BY <1>4
  <2> QED
    BY <2>1 DEF Queued
<1>5. ASSUME NEW c \in Commands, queue' = Append(queue, c) PROVE Queued' \subseteq Queued \cup {c.from}
  <2>1. SUFFICES ASSUME NEW k \in 1 .. Len(queue') PROVE queue'[k].from \in Queued \cup {c.from}
    BY DEF Queued
  <2>2. CASE k \in 1 .. Len(queue)
    <3>1. queue'[k] = queue[k]
      BY <1>5, <2>2
    <3> QED
      BY <2>2, <3>1 DEF Queued
  <2>3. CASE k = Len(queue) + 1
    BY <1>5, <2>3
  <2> QED
    BY <1>5, <2>2, <2>3
<1>6. ASSUME NEW c \in Commands, queue' = <<c>> PROVE Queued' = {c.from}
  BY <1>6 DEF Queued
<1> QED
  BY <1>1, <1>2, <1>3, <1>4, <1>5, <1>6

\* Dropping the mailbox, or answering the Stop being served, lets senders go
\* on; it starts no recovery and no deletion.
LEMMA AnswerMoves ==
  ASSUME TypeOK, SlotInvariant, NEW tasks, Answer(tasks),
         \A p \in tasks \cap Stoppers : pc[p] = "stopwait",
         NEW p \in Procs
  PROVE  /\ pc'[p] = "recover" => pc[p] = "recover"
         /\ p \in Deleters => pc'[p] = pc[p] \/ (pc[p] = "stopwait" /\ pc'[p] = "join")
         /\ p \in Stoppers \ tasks => pc'[p] = pc[p]
  BY TasksAssumption DEF Answer, Senders, Stoppers, Procs

\* Recovery stays claimed while the status stays and no task claims it.
LEMMA ClaimKept ==
  ASSUME RecoveryClaimed, st' = st,
         \A p \in Procs : pc'[p] = "recover" => pc[p] = "recover"
  PROVE  RecoveryClaimed'
  BY DEF RecoveryClaimed, Recovering

\* A deletion keeps the slot while the status stays, no runner starts, no
\* tool starts, and the deletion only goes on within its first half or ends.
LEMMA DeletionKept ==
  ASSUME DeletionHeld, st' = st, next' = next, detached' = detached, live' \in {0, live},
         \A r \in RunnerIds : runner[r] \in Over => runner'[r] \in Over,
         \A d \in Deleters :
           /\ got'[d] = got[d]
           /\ \/ pc'[d] = pc[d]
              \/ pc[d] \in {"stop", "stopwait", "join"} /\ pc'[d] \in {"stop", "stopwait", "join"}
              \/ pc'[d] \notin {"stop", "stopwait", "join", "tools", "detach"}
  PROVE  DeletionHeld'
  BY DEF DeletionHeld, Deletes

\* Without a deletion, and without detached files, there is nothing to keep.
LEMMA NothingDeleted ==
  ASSUME SlotInvariant, st \notin {"Deleting", "Deleted"}, st' \notin {"Deleting", "Deleted"},
         detached' = detached, \A d \in Deleters : pc'[d] = pc[d] \/ ~Deletes(d)'
  PROVE  DeletionHeld'
  BY DEF SlotInvariant, DeletionHeld, Deletes

\* The answers owed stay owed while nobody who waits for one moves.
LEMMA AnswersKept ==
  ASSUME AnswersOwed, UNCHANGED <<next, runner, serving>>, Queued' \subseteq Queued \cup (Senders \cup {None}),
         Senders \cap Stoppers = {}, None \notin Stoppers,
         \A p \in Stoppers : pc[p] = "stopwait" => pc'[p] = "stopwait",
         serving \in Stoppers \cup {None}
  PROVE  AnswersOwed'
  BY DEF AnswersOwed

\* A task that neither recovers nor deletes moves on, and may leave a command
\* that nobody joins a runner for.
LEMMA TaskMoves ==
  ASSUME TypeOK, SlotInvariant,
         NEW p \in Procs, NEW where, Goto(p, where), where # "recover", pc[p] # "stopwait",
         p \in Deleters => ~Deletes(p) /\ where \notin {"stop", "stopwait", "join", "tools", "detach"},
         UNCHANGED <<st, cur, next, runner, completed, holder, serving, live, detached>>,
         \A d \in Deleters : got'[d] = got[d],
         Queued' \subseteq Queued \cup (Senders \cup {None})
  PROVE  SlotInvariant'
<1>1. \A q \in Procs : pc'[q] = IF q = p THEN where ELSE pc[q]
  BY DEF Goto, TypeOK, TaskTypes
<1>2. RunnersInTurn' /\ StatusTellsRunner'
  BY DEF SlotInvariant, RunnersInTurn, StatusTellsRunner, Over
<1>3. RecoveryClaimed'
  BY <1>1, ClaimKept DEF SlotInvariant
<1>4. DeletionHeld'
  BY <1>1, DeletionKept DEF SlotInvariant, Deletes, Procs, Stoppers
<1>5. AnswersOwed'
  BY <1>1, AnswersKept, TasksAssumption DEF SlotInvariant, TypeOK, MailTypes, Procs, Stoppers
<1> QED
  BY <1>2, <1>3, <1>4, <1>5 DEF SlotInvariant

\* The last runner goes on, or ends and drops its mailbox unless it is idle.
LEMMA RunnerGoesOn ==
  ASSUME TypeOK, SlotInvariant, NEW r \in RunnerIds, NEW how \in Running \cup Exits,
         runner' = [runner EXCEPT ![r] = how], runner[r] \notin Over,
         UNCHANGED <<st, cur, next, completed>>,
         holder' = 0 \/ (holder' = holder /\ how \in Running \cup {"idle"})
  PROVE  RunnersInTurn' /\ StatusTellsRunner' /\ \A x \in RunnerIds : runner[x] \in Over => runner'[x] \in Over
<1>1. r = next /\ st \in {"Active", "Deleting"} /\ (holder # 0 => holder = r)
  BY LastRunner
<1>2. \A x \in RunnerIds : runner'[x] = IF x = r THEN how ELSE runner[x]
  BY DEF TypeOK, SlotTypes
<1>3. how \notin Over
  BY DEF Running, Exits, Over
<1>4. RunnersInTurn'
  BY <1>1, <1>2, <1>3 DEF SlotInvariant, RunnersInTurn, Over
<1>5. StatusTellsRunner'
  BY <1>1, <1>2, <1>3 DEF SlotInvariant, StatusTellsRunner
<1> QED
  BY <1>2, <1>4, <1>5

\* The last runner is over.
LEMMA RunnerOver ==
  ASSUME TypeOK, SlotInvariant, NEW r \in RunnerIds,
         runner' = [runner EXCEPT ![r] = "reported"], runner[r] \in Exits,
         UNCHANGED <<next, completed>>, holder' = 0,
         st' # "Active"
  PROVE  RunnersInTurn' /\ StatusTellsRunner' /\ \A x \in RunnerIds : runner'[x] \in Over
<1>1. runner[r] \notin Over
  BY DEF Exits, Over
<1>2. r = next
  BY <1>1, LastRunner
<1>3. \A x \in RunnerIds : runner'[x] = IF x = r THEN "reported" ELSE runner[x]
  BY DEF TypeOK, SlotTypes
<1>4. \A x \in RunnerIds : runner'[x] \in Over
  BY <1>2, <1>3 DEF SlotInvariant, RunnersInTurn, Over
<1>5. RunnersInTurn'
  BY <1>2, <1>3, <1>4 DEF SlotInvariant, RunnersInTurn, Over, Exits
<1> QED
  BY <1>4, <1>5 DEF StatusTellsRunner

\* A runner is only activated after the last one is over.
LEMMA Activated ==
  ASSUME TypeOK, SlotInvariant, st = "Recovering", NEW initial, Activate(initial)
  PROVE  RunnersInTurn' /\ StatusTellsRunner' /\ serving = None /\ st' = "Active"
<1>1. \A x \in RunnerIds : runner[x] \in Over
  BY DEF SlotInvariant, StatusTellsRunner
<1>2. next + 1 \in RunnerIds
  BY LimitsAssumption DEF Activate, TypeOK, SlotTypes, RunnerIds
<1>3. \A x \in RunnerIds : runner'[x] = IF x = next + 1 THEN "drain" ELSE runner[x]
  BY DEF Activate, TypeOK, SlotTypes
<1>4. next' = next + 1 /\ cur' = next + 1 /\ st' = "Active" /\ holder' = next + 1 /\ completed' = completed
  BY DEF Activate
<1>5. runner[next + 1] = "none"
  BY <1>2 DEF SlotInvariant, RunnersInTurn, TypeOK, SlotTypes, RunnerIds
<1>6. RunnersInTurn'
  <2>1. \A x \in RunnerIds : x > next' => runner'[x] = "none"
    BY <1>3, <1>4 DEF SlotInvariant, RunnersInTurn, TypeOK, SlotTypes, RunnerIds
  <2>2. \A x \in RunnerIds : x # next' => runner'[x] \in Over
    BY <1>1, <1>3, <1>4
  <2>3. completed' \in RunnerIds => runner'[completed'] = "done"
    BY <1>3, <1>4, <1>5 DEF SlotInvariant, RunnersInTurn
  <2> QED
    BY <2>1, <2>2, <2>3 DEF RunnersInTurn, RunnerIds
<1>7. StatusTellsRunner'
  <2>1. runner'[next'] = "drain" /\ "drain" \notin Over /\ "drain" \in Running
    BY <1>2, <1>3, <1>4 DEF Over, Running
  <2> QED
    BY <1>2, <1>4, <2>1 DEF StatusTellsRunner, RunnerIds
<1>8. serving = None
  BY <1>1 DEF SlotInvariant, AnswersOwed, Over
<1> QED
  BY <1>4, <1>6, <1>7, <1>8

\* Recovery is over once the task that claimed it leaves it.
LEMMA RecoveryEnds ==
  ASSUME TypeOK, SlotInvariant, NEW p \in Procs, pc[p] = "recover", NEW where, where # "recover",
         Goto(p, where)
  PROVE  RecoveryClaimed'
  BY DEF SlotInvariant, RecoveryClaimed, Recovering, TypeOK, TaskTypes, Goto

\* A recovery ends with a runner: its first command, if any, is a fault.
LEMMA RecoveredRuns ==
  ASSUME TypeOK, SlotInvariant, st = "Recovering", NEW p \in Procs \ Stoppers, pc[p] = "recover",
         NEW where, where # "recover", Goto(p, where),
         NEW initial, Activate(initial),
         initial = <<>> \/ \E n \in Nat, cause \in Causes \cup {None, "diagnostic"} : initial = <<Fault(n, cause)>>,
         UNCHANGED detached
  PROVE  SlotInvariant'
<1>1. RunnersInTurn' /\ StatusTellsRunner' /\ serving = None /\ st' = "Active"
  BY Activated
<1>2. RecoveryClaimed'
  BY RecoveryEnds
<1>3. DeletionHeld'
  <2>1. \A d \in Deleters : pc'[d] = pc[d]
    BY DEF Goto, TypeOK, TaskTypes, Procs, Stoppers
  <2> QED
    BY <1>1, <2>1, NothingDeleted
<1>4. AnswersOwed'
  <2>1. serving' = None
    BY <1>1 DEF Activate
  <2>2. Queued' \subseteq {None}
    <3>1. queue' = initial
      BY DEF Activate
    <3>2. CASE initial = <<>>
      BY <3>1, <3>2, QueuedMoves DEF TypeOK, MailTypes
    <3>3. ASSUME NEW n \in Nat, NEW cause \in Causes \cup {None, "diagnostic"}, initial = <<Fault(n, cause)>>
          PROVE  Queued' \subseteq {None}
      <4>1. Fault(n, cause) \in Commands /\ Fault(n, cause).from = None
        BY SentCommands DEF Fault
      <4> HIDE DEF Fault
      <4> QED
        BY <3>1, <3>3, <4>1, QueuedMoves DEF TypeOK, MailTypes
    <3> QED
      BY <3>2, <3>3
  <2> QED
    BY <2>1, <2>2, TasksAssumption DEF AnswersOwed, Procs
<1> QED
  BY <1>1, <1>2, <1>3, <1>4 DEF SlotInvariant

\* Claiming the recovery of a slot that has no runner.
LEMMA SlotClaimed ==
  ASSUME TypeOK, SlotInvariant, NEW p \in Procs, p \notin Stoppers,
         \A q \in Procs : pc'[q] = IF q = p THEN "recover" ELSE pc[q],
         UNCHANGED <<cur, next, runner, completed, holder, serving, queue, detached>>,
         st \in {"Unchecked", "Idle"}, st' = "Recovering"
  PROVE  SlotInvariant'
<1>1. RunnersInTurn' /\ StatusTellsRunner'
  BY DEF SlotInvariant, RunnersInTurn, StatusTellsRunner, Over
<1>2. RecoveryClaimed'
  BY NoRecovery DEF RecoveryClaimed, Recovering
<1>3. DeletionHeld'
  BY NothingDeleted DEF Procs, Stoppers
<1>4. AnswersOwed'
  BY DEF SlotInvariant, AnswersOwed, Queued, Procs, TypeOK, MailTypes
<1> QED
  BY <1>1, <1>2, <1>3, <1>4 DEF SlotInvariant

\* A recovery that starts no runner.
LEMMA RecoveryGivesUp ==
  ASSUME TypeOK, SlotInvariant, NEW p \in Procs, pc[p] = "recover", st = "Recovering",
         NEW where \in {"off", "ok", "err"}, Goto(p, where),
         UNCHANGED <<cur, next, runner, completed, holder, serving, queue, detached>>,
         st' \in {"Idle", "Unavailable"}
  PROVE  SlotInvariant'
<1>1. \A q \in Procs : pc'[q] = IF q = p THEN where ELSE pc[q]
  BY DEF Goto, TypeOK, TaskTypes
<1>2. RunnersInTurn' /\ StatusTellsRunner'
  BY DEF SlotInvariant, RunnersInTurn, StatusTellsRunner, Over
<1>3. RecoveryClaimed'
  BY RecoveryEnds
<1>4. DeletionHeld'
  BY <1>1, NothingDeleted DEF Procs, Stoppers, Deletes
<1>5. AnswersOwed'
  BY <1>1 DEF SlotInvariant, AnswersOwed, Queued, Procs, TypeOK, MailTypes
<1> QED
  BY <1>2, <1>3, <1>4, <1>5 DEF SlotInvariant

\* Nothing the invariant speaks of changes.
LEMMA NothingMoves ==
  ASSUME SlotInvariant,
         UNCHANGED <<st, cur, next, runner, completed, holder, queue, serving, pc, got, live, detached>>
  PROVE  SlotInvariant'
<1>1. RunnersInTurn' /\ StatusTellsRunner' /\ RecoveryClaimed'
  BY DEF SlotInvariant, RunnersInTurn, StatusTellsRunner, RecoveryClaimed, Recovering
<1>2. DeletionHeld'
  BY DEF SlotInvariant, DeletionHeld, Deletes
<1>3. AnswersOwed'
  BY DEF SlotInvariant, AnswersOwed, Queued
<1> QED
  BY <1>1, <1>2, <1>3 DEF SlotInvariant

\* The last runner takes a command or goes on, and answers no Stop.
LEMMA RunnerWorks ==
  ASSUME TypeOK, SlotInvariant, NEW r \in RunnerIds, runner[r] \in {"drain", "decide", "busy"},
         \E how \in {"drain", "decide", "busy", "idle"} : runner' = [runner EXCEPT ![r] = how],
         UNCHANGED <<st, cur, next, completed, holder, serving, got, live, detached>>,
         Queued' \subseteq Queued, \A q \in Stoppers : pc'[q] = pc[q],
         \A q \in Procs : pc'[q] = "recover" => pc[q] = "recover"
  PROVE  SlotInvariant'
<1>1. runner[r] \notin Over
  BY DEF Over
<1>2. serving = None
  BY <1>1, LastRunner
<1>3. /\ RunnersInTurn' /\ StatusTellsRunner'
      /\ \A x \in RunnerIds : runner[x] \in Over => runner'[x] \in Over
  BY <1>1, RunnerGoesOn DEF Running, Exits
<1>4. RecoveryClaimed' /\ DeletionHeld'
  BY <1>3, ClaimKept, DeletionKept DEF SlotInvariant, Stoppers
<1>5. AnswersOwed'
  BY <1>2 DEF SlotInvariant, AnswersOwed
<1> QED
  BY <1>3, <1>4, <1>5 DEF SlotInvariant

\* The last runner ends and takes its mailbox with it.
LEMMA RunnerDrops ==
  ASSUME TypeOK, SlotInvariant, NEW r \in RunnerIds, runner[r] \in {"drain", "decide", "busy"},
         NEW how \in Exits, runner' = [runner EXCEPT ![r] = how], DropReceiver,
         UNCHANGED <<st, cur, next, completed, serving, got, live, detached>>
  PROVE  SlotInvariant'
<1>1. runner[r] \notin Over
  BY DEF Over
<1>2. serving = None
  BY <1>1, LastRunner
<1>3. holder' = 0 /\ queue' = <<>> /\ Answer(Queued)
  BY DEF DropReceiver
<1>4. /\ RunnersInTurn' /\ StatusTellsRunner'
      /\ \A x \in RunnerIds : runner[x] \in Over => runner'[x] \in Over
  BY <1>1, <1>3, RunnerGoesOn
<1>5. \A p \in Procs : /\ pc'[p] = "recover" => pc[p] = "recover"
                       /\ p \in Deleters => pc'[p] = pc[p] \/ (pc[p] = "stopwait" /\ pc'[p] = "join")
  BY <1>3, AnswerMoves DEF SlotInvariant, AnswersOwed
<1>6. RecoveryClaimed' /\ DeletionHeld'
  BY <1>4, <1>5, ClaimKept, DeletionKept DEF SlotInvariant, Procs, Stoppers
<1>7. AnswersOwed'
  BY <1>2, <1>3, QueuedMoves DEF AnswersOwed, TypeOK, MailTypes
<1> QED
  BY <1>4, <1>6, <1>7 DEF SlotInvariant

\* An idle runner whose mailbox filled up is succeeded by the next one.
LEMMA Succeeded ==
  ASSUME TypeOK, SlotInvariant, NEW r \in RunnerIds, r = next, runner[r] = "idle", next < MaxRunners,
         next' = next + 1, cur' = next + 1, holder' = next + 1, st = "Active", UNCHANGED <<st, completed>>,
         runner' = [runner EXCEPT ![r] = "reported", ![next + 1] = "drain"]
  PROVE  RunnersInTurn' /\ StatusTellsRunner'
<1>1. next + 1 \in RunnerIds
  BY LimitsAssumption DEF TypeOK, SlotTypes, RunnerIds
<1>2. \A x \in RunnerIds : runner'[x] = IF x = next + 1 THEN "drain" ELSE IF x = r THEN "reported" ELSE runner[x]
  BY DEF TypeOK, SlotTypes
<1>3. runner[next + 1] = "none"
  BY <1>1 DEF SlotInvariant, RunnersInTurn, RunnerIds, TypeOK, SlotTypes
<1>4. \A x \in RunnerIds : x > next' => runner'[x] = "none"
  BY <1>2 DEF SlotInvariant, RunnersInTurn, TypeOK, SlotTypes, RunnerIds
<1>5. \A x \in RunnerIds : x # next' => runner'[x] \in Over
  BY <1>2 DEF SlotInvariant, RunnersInTurn, Over
<1>6. completed' \in RunnerIds => runner'[completed'] = "done"
  BY <1>2, <1>3 DEF SlotInvariant, RunnersInTurn
<1>7. RunnersInTurn'
  BY <1>4, <1>5, <1>6 DEF RunnersInTurn, RunnerIds
<1>8. StatusTellsRunner'
  <2>1. runner'[next'] = "drain" /\ "drain" \notin Over /\ "drain" \in Running
    BY <1>1, <1>2 DEF Over, Running
  <2> QED
    BY <1>1, <2>1 DEF StatusTellsRunner, RunnerIds
<1> QED
  BY <1>7, <1>8

-----------------------------------------------------------------------------
(* The invariant *)

\* The slot invariant, which is inductive together with the types.
THEOREM SlotInvariantHolds == Spec => []SlotInvariant
<1>1. Init => SlotInvariant
  <2> SUFFICES ASSUME Init PROVE SlotInvariant
    OBVIOUS
  <2>1. RunnersInTurn /\ StatusTellsRunner
    BY DEF Init, RunnersInTurn, StatusTellsRunner, RunnerIds, Over
  <2>2. RecoveryClaimed /\ DeletionHeld
    BY DEF Init, RecoveryClaimed, Recovering, DeletionHeld, Deletes, Procs, Stoppers
  <2>3. AnswersOwed
    BY DEF Init, AnswersOwed, Queued
  <2> QED
    BY <2>1, <2>2, <2>3 DEF SlotInvariant
<1>2. TypeOK /\ SlotInvariant /\ [Next]_vars => SlotInvariant'
  <2> SUFFICES ASSUME TypeOK, SlotInvariant, [Next]_vars PROVE SlotInvariant'
    OBVIOUS
  <2>1. ASSUME NEW p \in Senders, Submit(p) PROVE SlotInvariant'
    <3>1. PICK where \in {"err", "ensure"} : Goto(p, where)
      BY <2>1 DEF Submit
    <3>2. UNCHANGED <<st, cur, next, runner, completed, holder, serving, live, detached>>
      BY <2>1 DEF Submit, slotVars, mailVars, logVars
    <3>3. \A d \in Deleters : got'[d] = got[d]
      BY <2>1, TasksAssumption DEF Submit, Read, Forget, TypeOK, TaskTypes, Procs, Senders, Stoppers
    <3>4. Queued' \subseteq Queued
      BY <2>1 DEF Submit, mailVars, Queued
    <3>5. pc[p] # "stopwait"
      BY <2>1 DEF Submit
    <3>6. p \in Procs /\ (p \in Deleters => ~Deletes(p))
      BY <2>1, TasksAssumption DEF Submit, Deletes, Procs, Senders, Stoppers
    <3> QED
      BY <3>1, <3>2, <3>3, <3>4, <3>5, <3>6, TaskMoves, TasksAssumption DEF Procs, Senders, Stoppers
  <2>2. ASSUME NEW p \in Senders, Proceed(p) PROVE SlotInvariant'
    <3>1. PICK where \in {"dispatch"} : Goto(p, where)
      BY <2>2 DEF Proceed
    <3>2. UNCHANGED <<st, cur, next, runner, completed, holder, serving, live, detached>>
      BY <2>2 DEF Proceed, slotVars, mailVars, logVars
    <3>3. \A d \in Deleters : got'[d] = got[d]
      BY <2>2, TasksAssumption DEF Proceed, Read, Forget, TypeOK, TaskTypes, Procs, Senders, Stoppers
    <3>4. Queued' \subseteq Queued
      BY <2>2 DEF Proceed, mailVars, Queued
    <3>5. pc[p] # "stopwait"
      BY <2>2 DEF Proceed
    <3>6. p \in Procs /\ (p \in Deleters => ~Deletes(p))
      BY <2>2, TasksAssumption DEF Proceed, Deletes, Procs, Senders, Stoppers
    <3> QED
      BY <3>1, <3>2, <3>3, <3>4, <3>5, <3>6, TaskMoves, TasksAssumption DEF Procs, Senders, Stoppers
  <2>3. ASSUME NEW p \in Senders, Refuse(p) PROVE SlotInvariant'
    <3>1. PICK where \in {"err"} : Goto(p, where)
      BY <2>3 DEF Refuse
    <3>2. UNCHANGED <<st, cur, next, runner, completed, holder, serving, live, detached>>
      BY <2>3 DEF Refuse, slotVars, mailVars, logVars
    <3>3. \A d \in Deleters : got'[d] = got[d]
      BY <2>3, TasksAssumption DEF Refuse, Read, Forget, TypeOK, TaskTypes, Procs, Senders, Stoppers
    <3>4. Queued' \subseteq Queued
      BY <2>3 DEF Refuse, mailVars, Queued
    <3>5. pc[p] # "stopwait"
      BY <2>3 DEF Refuse
    <3>6. p \in Procs /\ (p \in Deleters => ~Deletes(p))
      BY <2>3, TasksAssumption DEF Refuse, Deletes, Procs, Senders, Stoppers
    <3> QED
      BY <3>1, <3>2, <3>3, <3>4, <3>5, <3>6, TaskMoves, TasksAssumption DEF Procs, Senders, Stoppers
  <2>4. ASSUME NEW p \in Senders, AwaitChange(p) PROVE SlotInvariant'
    <3>1. PICK where \in {"wait"} : Goto(p, where)
      BY <2>4 DEF AwaitChange
    <3>2. UNCHANGED <<st, cur, next, runner, completed, holder, serving, live, detached>>
      BY <2>4 DEF AwaitChange, slotVars, mailVars, logVars
    <3>3. \A d \in Deleters : got'[d] = got[d]
      BY <2>4, TasksAssumption DEF AwaitChange, Read, Forget, TypeOK, TaskTypes, Procs, Senders, Stoppers
    <3>4. Queued' \subseteq Queued
      BY <2>4 DEF AwaitChange, mailVars, Queued
    <3>5. pc[p] # "stopwait"
      BY <2>4 DEF AwaitChange
    <3>6. p \in Procs /\ (p \in Deleters => ~Deletes(p))
      BY <2>4, TasksAssumption DEF AwaitChange, Deletes, Procs, Senders, Stoppers
    <3> QED
      BY <3>1, <3>2, <3>3, <3>4, <3>5, <3>6, TaskMoves, TasksAssumption DEF Procs, Senders, Stoppers
  <2>5. ASSUME NEW p \in Senders, Woken(p) PROVE SlotInvariant'
    <3>1. PICK where \in {"ensure", "slot", "begin"} : Goto(p, where)
      BY <2>5 DEF Woken
    <3>2. UNCHANGED <<st, cur, next, runner, completed, holder, serving, live, detached>>
      BY <2>5 DEF Woken, slotVars, mailVars, logVars
    <3>3. \A d \in Deleters : got'[d] = got[d]
      BY <2>5, TasksAssumption DEF Woken, Read, Forget, TypeOK, TaskTypes, Procs, Senders, Stoppers
    <3>4. Queued' \subseteq Queued
      BY <2>5 DEF Woken, mailVars, Queued
    <3>5. pc[p] # "stopwait"
      BY <2>5 DEF Woken
    <3>6. p \in Procs /\ (p \in Deleters => ~Deletes(p))
      BY <2>5, TasksAssumption DEF Woken, Deletes, Procs, Senders, Stoppers
    <3> QED
      BY <3>1, <3>2, <3>3, <3>4, <3>5, <3>6, TaskMoves, TasksAssumption DEF Procs, Senders, Stoppers
  <2>6. ASSUME NEW p \in Stoppers, Woken(p) PROVE SlotInvariant'
    <3>1. PICK where \in {"ensure", "slot", "begin"} : Goto(p, where)
      BY <2>6 DEF Woken
    <3>2. UNCHANGED <<st, cur, next, runner, completed, holder, serving, live, detached>>
      BY <2>6 DEF Woken, slotVars, mailVars, logVars
    <3>3. \A d \in Deleters : got'[d] = got[d]
      BY <2>6, TasksAssumption DEF Woken, Read, Forget, TypeOK, TaskTypes, Procs, Senders, Stoppers
    <3>4. Queued' \subseteq Queued
      BY <2>6 DEF Woken, mailVars, Queued
    <3>5. pc[p] # "stopwait"
      BY <2>6 DEF Woken
    <3>6. p \in Procs /\ (p \in Deleters => ~Deletes(p))
      BY <2>6, TasksAssumption DEF Woken, Deletes, Procs, Senders, Stoppers
    <3> QED
      BY <3>1, <3>2, <3>3, <3>4, <3>5, <3>6, TaskMoves, TasksAssumption DEF Procs, Senders, Stoppers
  <2>7. ASSUME NEW p \in Senders, Retry(p) PROVE SlotInvariant'
    <3>1. PICK where \in {"ensure"} : Goto(p, where)
      BY <2>7 DEF Retry
    <3>2. UNCHANGED <<st, cur, next, runner, completed, holder, serving, live, detached>>
      BY <2>7 DEF Retry, slotVars, mailVars, logVars
    <3>3. \A d \in Deleters : got'[d] = got[d]
      BY <2>7, TasksAssumption DEF Retry, Read, Forget, TypeOK, TaskTypes, Procs, Senders, Stoppers
    <3>4. Queued' \subseteq Queued
      BY <2>7 DEF Retry, mailVars, Queued
    <3>5. pc[p] # "stopwait"
      BY <2>7 DEF Retry
    <3>6. p \in Procs /\ (p \in Deleters => ~Deletes(p))
      BY <2>7, TasksAssumption DEF Retry, Deletes, Procs, Senders, Stoppers
    <3> QED
      BY <3>1, <3>2, <3>3, <3>4, <3>5, <3>6, TaskMoves, TasksAssumption DEF Procs, Senders, Stoppers
  <2>8. ASSUME NEW c \in Clients, Dispatch(c) PROVE SlotInvariant'
    <3>1. PICK where \in {"sent", "err"} : Goto(c, where)
      BY <2>8 DEF Dispatch
    <3>2. UNCHANGED <<st, cur, next, runner, completed, holder, serving, live, detached>>
      BY <2>8 DEF Dispatch, slotVars, mailVars, logVars
    <3>3. \A d \in Deleters : got'[d] = got[d]
      BY <2>8, TasksAssumption DEF Dispatch, Read, Forget, TypeOK, TaskTypes, Procs, Senders, Stoppers
    <3>4. Queued' \subseteq Queued \cup {c}
      <4>1. queue' = queue \/ queue' = Append(queue, Command("input", c))
        BY <2>8 DEF Dispatch, Push
      <4>2. Command("input", c) \in Commands /\ Command("input", c).from = c
        BY SentCommands DEF Command
      <4> HIDE DEF Command
      <4> QED
        BY <4>1, <4>2, QueuedMoves DEF TypeOK, MailTypes
    <3>5. pc[c] # "stopwait"
      BY <2>8 DEF Dispatch
    <3>6. c \in Procs /\ (c \in Deleters => ~Deletes(c))
      BY <2>8, TasksAssumption DEF Dispatch, Deletes, Procs, Senders, Stoppers
    <3> QED
      BY <3>1, <3>2, <3>3, <3>4, <3>5, <3>6, TaskMoves, TasksAssumption DEF Procs, Senders, Stoppers
  <2>9. ASSUME NEW i \in Internals, Grab(i) PROVE SlotInvariant'
    <3>1. PICK where \in {"reserve"} : Goto(i, where)
      BY <2>9 DEF Grab
    <3>2. UNCHANGED <<st, cur, next, runner, completed, holder, serving, live, detached>>
      BY <2>9 DEF Grab, slotVars, mailVars, logVars
    <3>3. \A d \in Deleters : got'[d] = got[d]
      BY <2>9, TasksAssumption DEF Grab, Read, Forget, TypeOK, TaskTypes, Procs, Senders, Stoppers
    <3>4. Queued' \subseteq Queued
      BY <2>9 DEF Grab, mailVars, Queued
    <3>5. pc[i] # "stopwait"
      BY <2>9 DEF Grab
    <3>6. i \in Procs /\ (i \in Deleters => ~Deletes(i))
      BY <2>9, TasksAssumption DEF Grab, Deletes, Procs, Senders, Stoppers
    <3> QED
      BY <3>1, <3>2, <3>3, <3>4, <3>5, <3>6, TaskMoves, TasksAssumption DEF Procs, Senders, Stoppers
  <2>10. ASSUME NEW i \in Internals, Reserve(i) PROVE SlotInvariant'
    <3>1. PICK where \in {"wait", "recheck"} : Goto(i, where)
      BY <2>10 DEF Reserve
    <3>2. UNCHANGED <<st, cur, next, runner, completed, holder, serving, live, detached>>
      BY <2>10 DEF Reserve, slotVars, mailVars, logVars
    <3>3. \A d \in Deleters : got'[d] = got[d]
      BY <2>10, TasksAssumption DEF Reserve, Read, Forget, TypeOK, TaskTypes, Procs, Senders, Stoppers
    <3>4. Queued' \subseteq Queued
      BY <2>10 DEF Reserve, mailVars, Queued
    <3>5. pc[i] # "stopwait"
      BY <2>10 DEF Reserve
    <3>6. i \in Procs /\ (i \in Deleters => ~Deletes(i))
      BY <2>10, TasksAssumption DEF Reserve, Deletes, Procs, Senders, Stoppers
    <3> QED
      BY <3>1, <3>2, <3>3, <3>4, <3>5, <3>6, TaskMoves, TasksAssumption DEF Procs, Senders, Stoppers
  <2>11. ASSUME NEW i \in Internals, Recheck(i) PROVE SlotInvariant'
    <3>1. PICK where \in {"ok", "ensure"} : Goto(i, where)
      BY <2>11 DEF Recheck
    <3>2. UNCHANGED <<st, cur, next, runner, completed, holder, serving, live, detached>>
      BY <2>11 DEF Recheck, slotVars, mailVars, logVars
    <3>3. \A d \in Deleters : got'[d] = got[d]
      BY <2>11, TasksAssumption DEF Recheck, Read, Forget, TypeOK, TaskTypes, Procs, Senders, Stoppers
    <3>4. Queued' \subseteq Queued \cup {i}
      <4>1. queue' = queue \/ queue' = Append(queue, Command("deadline", i))
        BY <2>11 DEF Recheck, Push
      <4>2. Command("deadline", i) \in Commands /\ Command("deadline", i).from = i
        BY SentCommands DEF Command
      <4> HIDE DEF Command
      <4> QED
        BY <4>1, <4>2, QueuedMoves DEF TypeOK, MailTypes
    <3>5. pc[i] # "stopwait"
      BY <2>11 DEF Recheck
    <3>6. i \in Procs /\ (i \in Deleters => ~Deletes(i))
      BY <2>11, TasksAssumption DEF Recheck, Deletes, Procs, Senders, Stoppers
    <3> QED
      BY <3>1, <3>2, <3>3, <3>4, <3>5, <3>6, TaskMoves, TasksAssumption DEF Procs, Senders, Stoppers
  <2>12. ASSUME NEW p \in Shutdowns, BeginShutdown(p) PROVE SlotInvariant'
    <3>1. PICK where \in {"discovery"} : Goto(p, where)
      BY <2>12 DEF BeginShutdown
    <3>2. UNCHANGED <<st, cur, next, runner, completed, holder, serving, live, detached>>
      BY <2>12 DEF BeginShutdown, slotVars, mailVars, logVars
    <3>3. \A d \in Deleters : got'[d] = got[d]
      BY <2>12, TasksAssumption DEF BeginShutdown, Read, Forget, TypeOK, TaskTypes, Procs, Senders, Stoppers
    <3>4. Queued' \subseteq Queued
      BY <2>12 DEF BeginShutdown, mailVars, Queued
    <3>5. pc[p] # "stopwait"
      BY <2>12 DEF BeginShutdown
    <3>6. p \in Procs /\ (p \in Deleters => ~Deletes(p))
      BY <2>12, TasksAssumption DEF BeginShutdown, Deletes, Procs, Senders, Stoppers
    <3> QED
      BY <3>1, <3>2, <3>3, <3>4, <3>5, <3>6, TaskMoves, TasksAssumption DEF Procs, Senders, Stoppers
  <2>13. ASSUME NEW p \in Shutdowns, AwaitDiscovery(p) PROVE SlotInvariant'
    <3>1. PICK where \in {"slot"} : Goto(p, where)
      BY <2>13 DEF AwaitDiscovery
    <3>2. UNCHANGED <<st, cur, next, runner, completed, holder, serving, live, detached>>
      BY <2>13 DEF AwaitDiscovery, slotVars, mailVars, logVars
    <3>3. \A d \in Deleters : got'[d] = got[d]
      BY <2>13, TasksAssumption DEF AwaitDiscovery, Read, Forget, TypeOK, TaskTypes, Procs, Senders, Stoppers
    <3>4. Queued' \subseteq Queued
      BY <2>13 DEF AwaitDiscovery, mailVars, Queued
    <3>5. pc[p] # "stopwait"
      BY <2>13 DEF AwaitDiscovery
    <3>6. p \in Procs /\ (p \in Deleters => ~Deletes(p))
      BY <2>13, TasksAssumption DEF AwaitDiscovery, Deletes, Procs, Senders, Stoppers
    <3> QED
      BY <3>1, <3>2, <3>3, <3>4, <3>5, <3>6, TaskMoves, TasksAssumption DEF Procs, Senders, Stoppers
  <2>14. ASSUME NEW p \in Shutdowns, StopSlot(p) PROVE SlotInvariant'
    <3>1. PICK where \in {"wait", "stop", "tools"} : Goto(p, where)
      BY <2>14 DEF StopSlot
    <3>2. UNCHANGED <<st, cur, next, runner, completed, holder, serving, live, detached>>
      BY <2>14 DEF StopSlot, slotVars, mailVars, logVars
    <3>3. \A d \in Deleters : got'[d] = got[d]
      BY <2>14, TasksAssumption DEF StopSlot, Read, Forget, TypeOK, TaskTypes, Procs, Senders, Stoppers
    <3>4. Queued' \subseteq Queued
      BY <2>14 DEF StopSlot, mailVars, Queued
    <3>5. pc[p] # "stopwait"
      BY <2>14 DEF StopSlot
    <3>6. p \in Procs /\ (p \in Deleters => ~Deletes(p))
      BY <2>14, TasksAssumption DEF StopSlot, Deletes, Procs, Senders, Stoppers
    <3> QED
      BY <3>1, <3>2, <3>3, <3>4, <3>5, <3>6, TaskMoves, TasksAssumption DEF Procs, Senders, Stoppers
  <2>15. ASSUME NEW p \in Senders, Claim(p) PROVE SlotInvariant'
    <3>1. \A q \in Procs : pc'[q] = IF q = p THEN "recover" ELSE pc[q]
      BY <2>15 DEF Claim, Goto, TypeOK, TaskTypes
    <3>2. UNCHANGED <<cur, next, runner, completed, holder, serving, queue, detached>>
      BY <2>15 DEF Claim, mailVars, logVars
    <3>3. st \in {"Unchecked", "Idle"} /\ st' = "Recovering"
      BY <2>15 DEF Claim
    <3>4. p \notin Stoppers /\ pc[p] = "ensure"
      BY <2>15, TasksAssumption DEF Claim
    <3> QED
      BY <3>1, <3>2, <3>3, <3>4, SlotClaimed DEF Procs
  <2>16. CASE Discover
    <3>1. CASE ~stopping /\ st = "Unchecked"
      <4>1. \A q \in Procs : pc'[q] = IF q = Discovery THEN "recover" ELSE pc[q]
        BY <2>16, <3>1 DEF Discover, Goto, TypeOK, TaskTypes
      <4>2. UNCHANGED <<cur, next, runner, completed, holder, serving, queue, detached>>
        BY <2>16 DEF Discover, mailVars, logVars
      <4>3. st' = "Recovering"
        BY <2>16, <3>1 DEF Discover
      <4>4. Discovery \in Procs /\ Discovery \notin Stoppers
        BY TasksAssumption DEF Procs
      <4> QED
        BY <3>1, <4>1, <4>2, <4>3, <4>4, SlotClaimed
    <3>2. CASE ~(~stopping /\ st = "Unchecked")
      <4>1. Goto(Discovery, "ok") /\ pc[Discovery] # "stopwait"
        BY <2>16, <3>2 DEF Discover
      <4>2. UNCHANGED <<st, cur, next, runner, completed, holder, serving, live, detached, got>>
        BY <2>16, <3>2 DEF Discover, mailVars, logVars
      <4>3. Queued' \subseteq Queued
        BY <2>16 DEF Discover, mailVars, Queued
      <4>4. Discovery \in Procs /\ Discovery \notin Deleters
        BY TasksAssumption DEF Procs, Stoppers
      <4> QED
        BY <4>1, <4>2, <4>3, <4>4, TaskMoves
    <3> QED
      BY <3>1, <3>2
  <2>17. ASSUME NEW p \in Senders, Recover(p) PROVE SlotInvariant'
    <3>1. PICK initial \in {<<>>, <<Fault(1, "diagnostic")>>} : Activate(initial)
      BY <2>17 DEF Recover
    <3>2. pc[p] = "recover" /\ st = "Recovering" /\ Goto(p, "dispatch") /\ UNCHANGED detached
      BY <2>17 DEF Recover, logVars
    <3>3. p \in Procs \ Stoppers
      BY TasksAssumption DEF Procs
    <3> QED
      BY <3>1, <3>2, <3>3, RecoveredRuns
  <2>18. CASE Discovered
    <3>1. pc[Discovery] = "recover" /\ st = "Recovering" /\ Goto(Discovery, "ok") /\ UNCHANGED detached
      BY <2>18 DEF Discovered, logVars
    <3>2. Discovery \in Procs \ Stoppers
      BY TasksAssumption DEF Procs
    <3>3. CASE Activate(<<>>)
      BY <3>1, <3>2, <3>3, RecoveredRuns
    <3>4. CASE Activate(<<Fault(1, "diagnostic")>>)
      BY <3>1, <3>2, <3>4, RecoveredRuns
    <3>5. CASE /\ st' = "Idle"
               /\ UNCHANGED <<cur, next, runner, completed, seen, mailVars>>
      BY <3>1, <3>2, <3>5, RecoveryGivesUp DEF mailVars
    <3> QED
      BY <2>18, <3>3, <3>4, <3>5 DEF Discovered
  <2>19. CASE RebuildRunner
    <3> DEFINE n == IF streak.cause = failure THEN streak.count + 1 ELSE 1
    <3>1. n \in Nat /\ failure \in Causes \cup {None, "diagnostic"}
      BY DEF TypeOK, LogTypes, Streaks
    <3>2. Activate(<<Fault(n, failure)>>)
      BY <2>19 DEF RebuildRunner
    <3>3. pc[Rebuild] = "recover" /\ st = "Recovering" /\ Goto(Rebuild, "off") /\ UNCHANGED detached
      BY <2>19 DEF RebuildRunner
    <3>4. Rebuild \in Procs \ Stoppers
      BY TasksAssumption DEF Procs
    <3> HIDE DEF n
    <3> QED
      BY <3>1, <3>2, <3>3, <3>4, RecoveredRuns
  <2>20. ASSUME NEW p \in Procs, RecoverFails(p) PROVE SlotInvariant'
    <3>1. pc[p] = "recover" /\ st = "Recovering"
      BY <2>20 DEF RecoverFails, SlotInvariant, RecoveryClaimed
    <3>2. st' = "Unavailable" /\ UNCHANGED <<cur, next, runner, completed, holder, queue, serving, detached>>
      BY <2>20, <3>1 DEF RecoverFails, mailVars, logVars
    <3>3. PICK where \in {"off", "ok", "err"} : Goto(p, where)
      BY <2>20 DEF RecoverFails
    <3> QED
      BY <3>1, <3>2, <3>3, RecoveryGivesUp
  <2>21. ASSUME NEW r \in RunnerIds, HandleInput(r) PROVE SlotInvariant'
    <3>1. runner[r] \in {"drain", "busy"} /\ queue # <<>> /\ Head(queue).kind = "input"
      BY <2>21 DEF HandleInput, Takes
    <3>2. Head(queue).from \in Clients
      BY <3>1, TailTyped, CommandSenders DEF TypeOK, MailTypes
    <3>3. PICK where \in {"ok", "err"} : Goto(Head(queue).from, where)
      BY <2>21 DEF HandleInput
    <3>4. UNCHANGED <<st, cur, next, completed, holder, serving, got, live, detached>>
      BY <2>21 DEF HandleInput, Exit
    <3>5. runner' = [runner EXCEPT ![r] = "drain"] /\ queue' = Tail(queue)
      BY <2>21 DEF HandleInput, Exit
    <3>6. Queued' \subseteq Queued
      BY <3>1, <3>5, QueuedMoves DEF TypeOK, MailTypes
    <3>7. \A q \in Stoppers : pc'[q] = pc[q]
      BY <3>2, <3>3, TasksAssumption DEF Procs, Senders, Goto, TypeOK, TaskTypes
    <3>8. \A q \in Procs : pc'[q] = "recover" => pc[q] = "recover"
      BY <3>3 DEF Goto, TypeOK, TaskTypes
    <3> QED
      BY <3>1, <3>4, <3>5, <3>6, <3>7, <3>8, RunnerWorks
  <2>22. ASSUME NEW r \in RunnerIds, HandleDeadline(r) PROVE SlotInvariant'
    <3>1. runner[r] \in {"drain", "busy"} /\ runner' = [runner EXCEPT ![r] = "drain"]
      BY <2>22 DEF HandleDeadline, Takes
    <3>2. UNCHANGED <<st, cur, next, completed, holder, serving, got, live, detached, pc>>
      BY <2>22 DEF HandleDeadline, taskVars, logVars
    <3>3. queue # <<>> /\ queue' = Tail(queue)
      BY <2>22 DEF HandleDeadline, Takes
    <3>4. Queued' \subseteq Queued
      BY <3>3, QueuedMoves DEF TypeOK, MailTypes
    <3> QED
      BY <3>1, <3>2, <3>3, <3>4, RunnerWorks DEF Procs
  <2>23. ASSUME NEW r \in RunnerIds, Drained(r) PROVE SlotInvariant'
    <3>1. runner[r] = "drain" /\ runner' = [runner EXCEPT ![r] = "decide"]
      BY <2>23 DEF Drained, Exit
    <3>2. UNCHANGED <<st, cur, next, completed, holder, serving, got, live, detached, pc>>
      BY <2>23 DEF Drained, Exit, taskVars, logVars, mailVars
    <3>3. queue' = queue
      BY <2>23 DEF Drained, mailVars
    <3>4. Queued' \subseteq Queued
      BY <3>3 DEF Queued
    <3> QED
      BY <3>1, <3>2, <3>3, <3>4, RunnerWorks DEF Procs
  <2>24. ASSUME NEW r \in RunnerIds, Decide(r) PROVE SlotInvariant'
    <3>1. runner[r] = "decide" /\ \E how \in {"busy", "idle"} : runner' = [runner EXCEPT ![r] = how]
      BY <2>24 DEF Decide, Exit
    <3>2. UNCHANGED <<st, cur, next, completed, holder, serving, got, live, detached, pc>>
      BY <2>24 DEF Decide, Exit, taskVars, logVars, mailVars
    <3>3. queue' = queue
      BY <2>24 DEF Decide, mailVars
    <3>4. Queued' \subseteq Queued
      BY <3>3 DEF Queued
    <3> QED
      BY <3>1, <3>2, <3>3, <3>4, RunnerWorks DEF Procs
  <2>25. ASSUME NEW r \in RunnerIds, CompleteStep(r) PROVE SlotInvariant'
    <3>1. runner[r] = "busy" /\ runner' = [runner EXCEPT ![r] = "drain"]
      BY <2>25 DEF CompleteStep, Exit
    <3>2. UNCHANGED <<st, cur, next, completed, holder, queue, serving, got, detached, pc>>
      BY <2>25 DEF CompleteStep, Exit, taskVars, mailVars
    <3>3. RunnersInTurn' /\ StatusTellsRunner'
      BY <3>1, <3>2, RunnerGoesOn DEF Running, Over
    <3>4. st \in {"Active", "Deleting"} /\ runner[r] \notin Over
      BY <3>1, LastRunner DEF Over
    <3>5. RecoveryClaimed'
      BY <3>2, ClaimKept DEF SlotInvariant
    <3>6. DeletionHeld'
      <4>1. \A x \in RunnerIds : runner[x] \in Over => runner'[x] \in Over
        BY <3>1, <3>2, RunnerGoesOn DEF Running, Over
      <4> QED
        BY <3>2, <3>4, <4>1 DEF SlotInvariant, DeletionHeld, Deletes
    <3>7. AnswersOwed'
      <4>1. serving = None
        BY <3>1, <3>4, LastRunner
      <4> QED
        BY <3>2, <4>1 DEF SlotInvariant, AnswersOwed, Queued
    <3> QED
      BY <3>3, <3>5, <3>6, <3>7 DEF SlotInvariant
  <2>26. ASSUME NEW r \in RunnerIds, HandleFault(r) PROVE SlotInvariant'
    <3>1. runner[r] \in {"drain", "busy"} /\ queue # <<>>
      BY <2>26 DEF HandleFault, Takes
    <3>2. \/ DropReceiver /\ Exit(r, "circuit")
          \/ queue' = Tail(queue) /\ Exit(r, "drain") /\ UNCHANGED <<chan, holder, pc>>
      BY <2>26 DEF HandleFault
    <3>3. UNCHANGED <<serving, got, live, detached>>
      BY <2>26 DEF HandleFault
    <3>4. CASE DropReceiver /\ Exit(r, "circuit")
      BY <3>1, <3>3, <3>4, RunnerDrops DEF Exit, Exits
    <3>5. CASE queue' = Tail(queue) /\ Exit(r, "drain") /\ UNCHANGED <<chan, holder, pc>>
      <4>1. Queued' \subseteq Queued
        BY <3>1, <3>5, QueuedMoves DEF TypeOK, MailTypes
      <4> QED
        BY <3>1, <3>3, <3>5, <4>1, RunnerWorks DEF Exit, Procs
    <3> QED
      BY <3>2, <3>4, <3>5
  <2>27. ASSUME NEW r \in RunnerIds, Fail(r) PROVE SlotInvariant'
    <3>1. runner[r] \in {"drain", "decide", "busy"} /\ Exit(r, "failed") /\ DropReceiver
      BY <2>27 DEF Fail
    <3>2. UNCHANGED <<serving, got, live, detached>>
      BY <2>27 DEF Fail
    <3> QED
      BY <3>1, <3>2, RunnerDrops DEF Exit, Exits
  <2>28. ASSUME NEW r \in RunnerIds, HandleStop(r) PROVE SlotInvariant'
    <3>1. runner[r] \in {"drain", "busy"} /\ queue # <<>> /\ Head(queue).kind = "stop"
      BY <2>28 DEF HandleStop, Takes
    <3>2. runner' = [runner EXCEPT ![r] = "stopping"] /\ queue' = Tail(queue) /\ serving' = Head(queue).from
      BY <2>28 DEF HandleStop, Exit
    <3>3. UNCHANGED <<st, cur, next, completed, holder, pc, got, live, detached>>
      BY <2>28 DEF HandleStop, Exit, taskVars, logVars
    <3>4. r = next /\ runner[r] \notin Over
      BY <3>1, LastRunner DEF Over
    <3>5. /\ RunnersInTurn' /\ StatusTellsRunner'
          /\ \A x \in RunnerIds : runner[x] \in Over => runner'[x] \in Over
      BY <3>2, <3>3, <3>4, RunnerGoesOn DEF Running
    <3>6. RecoveryClaimed' /\ DeletionHeld'
      BY <3>3, <3>5, ClaimKept, DeletionKept DEF SlotInvariant
    <3>7. AnswersOwed'
      <4>1. Queued' \subseteq Queued /\ Head(queue).from \in Queued
        BY <3>1, <3>2, QueuedMoves DEF TypeOK, MailTypes
      <4>2. Head(queue).from \in Stoppers
        BY <3>1, TailTyped, CommandSenders DEF TypeOK, MailTypes
      <4>3. runner'[next'] = "stopping" /\ next' \in RunnerIds
        BY <3>2, <3>3, <3>4 DEF TypeOK, SlotTypes
      <4> QED
        BY <3>2, <3>3, <4>1, <4>2, <4>3 DEF SlotInvariant, AnswersOwed
    <3> QED
      BY <3>5, <3>6, <3>7 DEF SlotInvariant
  <2>29. ASSUME NEW r \in RunnerIds, Stopped(r) PROVE SlotInvariant'
    <3>1. runner[r] = "stopping" /\ runner' = [runner EXCEPT ![r] = "stopped"]
      BY <2>29 DEF Stopped, Exit
    <3>2. holder' = 0 /\ queue' = <<>> /\ serving' = None /\ Answer(Queued \cup {serving})
      BY <2>29 DEF Stopped
    <3>3. UNCHANGED <<st, cur, next, completed, got, live, detached>>
      BY <2>29 DEF Stopped, Exit, logVars
    <3>4. \A p \in (Queued \cup {serving}) \cap Stoppers : pc[p] = "stopwait"
      BY TasksAssumption DEF SlotInvariant, AnswersOwed, Procs
    <3>5. \A p \in Procs : /\ pc'[p] = "recover" => pc[p] = "recover"
                           /\ p \in Deleters => pc'[p] = pc[p] \/ (pc[p] = "stopwait" /\ pc'[p] = "join")
      BY <3>2, <3>4, AnswerMoves
    <3>6. /\ RunnersInTurn' /\ StatusTellsRunner'
          /\ \A x \in RunnerIds : runner[x] \in Over => runner'[x] \in Over
      BY <3>1, <3>2, <3>3, RunnerGoesOn DEF Exits, Over
    <3>7. RecoveryClaimed' /\ DeletionHeld'
      BY <3>3, <3>5, <3>6, ClaimKept, DeletionKept DEF SlotInvariant, Procs, Stoppers
    <3>8. AnswersOwed'
      BY <3>2, QueuedMoves DEF AnswersOwed, TypeOK, MailTypes
    <3> QED
      BY <3>6, <3>7, <3>8 DEF SlotInvariant
  <2>30. ASSUME NEW r \in RunnerIds, ReadStopping(r) PROVE SlotInvariant'
    <3>1. UNCHANGED <<st, cur, next, runner, completed, holder, queue, serving, pc, got, live, detached>>
      BY <2>30 DEF ReadStopping, mailVars, taskVars, logVars
    <3> QED
      BY <3>1, NothingMoves
  <2>31. ASSUME NEW r \in RunnerIds, Complete(r) PROVE SlotInvariant'
    <3>1. runner[r] = "reported" /\ runner' = [runner EXCEPT ![r] = "done"]
      BY <2>31 DEF Complete
    <3>2. completed' = IF r > completed THEN r ELSE completed
      BY <2>31 DEF Complete
    <3>3. UNCHANGED <<st, cur, next, holder, queue, serving, pc, got, live, detached>>
      BY <2>31 DEF Complete, mailVars, taskVars, logVars
    <3>4. \A x \in RunnerIds : runner'[x] = IF x = r THEN "done" ELSE runner[x]
      BY <3>1 DEF TypeOK, SlotTypes
    <3>5. RunnersInTurn'
      BY <3>1, <3>2, <3>3, <3>4 DEF SlotInvariant, RunnersInTurn, Over
    <3>6. StatusTellsRunner'
      BY <3>1, <3>3, <3>4 DEF SlotInvariant, StatusTellsRunner, Over, Running
    <3>7. RecoveryClaimed' /\ DeletionHeld'
      BY <3>3, <3>4, ClaimKept, DeletionKept DEF SlotInvariant, Over
    <3>8. AnswersOwed'
      BY <3>1, <3>3, <3>4 DEF SlotInvariant, AnswersOwed, Queued
    <3> QED
      BY <3>5, <3>6, <3>7, <3>8 DEF SlotInvariant
  <2>32. ASSUME NEW r \in RunnerIds, ExitIgnored(r) PROVE SlotInvariant'
    <3>1. runner[r] \in Exits /\ runner' = [runner EXCEPT ![r] = "reported"]
      BY <2>32 DEF ExitIgnored
    <3>2. r = next /\ st \in {"Active", "Deleting"} /\ (st = "Active" => cur = r)
          /\ (holder # 0 => holder = r) /\ serving = None
      BY <3>1, LastRunner DEF Exits, Over
    <3>3. UNCHANGED <<next, completed, serving, got, live, detached>>
      BY <2>32 DEF ExitIgnored, logVars
    <3>4. st' = (IF st = "Active" THEN "Idle" ELSE "Deleting")
      BY <2>32, <3>2 DEF ExitIgnored, IsCurrent
    <3>5. holder' = 0 /\ (queue' = <<>> \/ queue' = queue)
      BY <2>32, <3>2 DEF ExitIgnored, DropReceiver
    <3>6. RunnersInTurn' /\ StatusTellsRunner' /\ \A x \in RunnerIds : runner'[x] \in Over
      BY <3>1, <3>3, <3>4, <3>5, RunnerOver
    <3>7. \A p \in Procs : /\ pc'[p] = "recover" => pc[p] = "recover"
                           /\ p \in Deleters => pc'[p] = pc[p] \/ (pc[p] = "stopwait" /\ pc'[p] = "join")
      <4>1. CASE DropReceiver
        BY <4>1, AnswerMoves DEF DropReceiver, SlotInvariant, AnswersOwed
      <4>2. CASE UNCHANGED <<chan, holder, queue, pc>>
        BY <4>2
      <4> QED
        BY <2>32, <4>1, <4>2 DEF ExitIgnored
    <3>8. RecoveryClaimed'
      BY <3>2, <3>7, NoRecovery DEF RecoveryClaimed, Recovering
    <3>9. DeletionHeld'
      <4>1. CASE st = "Active"
        BY <3>3, <3>4, <3>7, <4>1, NothingDeleted, NoDeletion DEF Deletes, Procs, Stoppers
      <4>2. CASE st = "Deleting"
        BY <3>3, <3>4, <3>6, <3>7, <4>2, DeletionKept DEF SlotInvariant, Procs, Stoppers
      <4> QED
        BY <3>2, <4>1, <4>2
    <3>10. AnswersOwed'
      <4>1. CASE DropReceiver
        BY <3>2, <3>3, <4>1, QueuedMoves DEF DropReceiver, AnswersOwed, TypeOK, MailTypes
      <4>2. CASE UNCHANGED <<chan, holder, queue, pc>>
        BY <3>2, <3>3, <4>2 DEF SlotInvariant, AnswersOwed, Queued
      <4> QED
        BY <2>32, <4>1, <4>2 DEF ExitIgnored
    <3> QED
      BY <3>6, <3>8, <3>9, <3>10 DEF SlotInvariant
  <2>33. ASSUME NEW r \in RunnerIds, ExitIdle(r) PROVE SlotInvariant'
    <3>1. runner[r] = "idle" /\ st = "Active"
      BY <2>33 DEF ExitIdle, IsCurrent
    <3>2. r = next /\ serving = None
      BY <3>1, LastRunner DEF Over
    <3>3. UNCHANGED <<completed, queue, serving, pc, got, live, detached>> /\ st' \in {"Idle", "Active"}
      BY <2>33, <3>1 DEF ExitIdle, logVars
    <3>4. RunnersInTurn' /\ StatusTellsRunner'
      <4>1. CASE queue = <<>>
        <5>1. st' = "Idle" /\ holder' = 0 /\ next' = next /\ runner' = [runner EXCEPT ![r] = "reported"]
          BY <2>33, <4>1 DEF ExitIdle
        <5> QED
          BY <3>1, <3>3, <5>1, RunnerOver DEF Exits
      <4>2. CASE queue # <<>>
        BY <2>33, <3>2, <3>3, <4>2, Succeeded DEF ExitIdle, IsCurrent
      <4> QED
        BY <4>1, <4>2
    <3>5. RecoveryClaimed'
      BY <3>1, <3>3, NoRecovery DEF RecoveryClaimed, Recovering
    <3>6. DeletionHeld'
      BY <3>1, <3>3, NothingDeleted
    <3>7. AnswersOwed'
      BY <3>2, <3>3 DEF SlotInvariant, AnswersOwed, Queued
    <3> QED
      BY <3>4, <3>5, <3>6, <3>7 DEF SlotInvariant
  <2>34. ASSUME NEW r \in RunnerIds, ExitEnded(r) PROVE SlotInvariant'
    <3>1. runner[r] \in {"stopped", "circuit", "failed"} /\ st = "Active"
      BY <2>34 DEF ExitEnded, IsCurrent
    <3>2. r = next /\ serving = None /\ holder = 0
      BY <3>1, LastRunner DEF Over, SlotInvariant, StatusTellsRunner, Running
    <3>3. UNCHANGED <<next, completed, holder, queue, serving, got, live, detached>>
      BY <2>34 DEF ExitEnded, mailVars, logVars
    <3>4. runner' = [runner EXCEPT ![r] = "reported"] /\ st' \in {"Idle", "CircuitOpen", "Recovering"}
      BY <2>34, <3>1 DEF ExitEnded
    <3>5. pc' = pc \/ (pc' = [pc EXCEPT ![Rebuild] = "recover"] /\ st' = "Recovering")
      BY <2>34 DEF ExitEnded
    <3>6. RunnersInTurn' /\ StatusTellsRunner'
      BY <3>1, <3>2, <3>3, <3>4, RunnerOver DEF Exits
    <3>7. \A q \in Procs \ {Rebuild} : pc'[q] = pc[q]
      BY <3>5 DEF TypeOK, TaskTypes
    <3>8. RecoveryClaimed'
      <4>1. \A q \in Procs : pc[q] # "recover"
        BY <3>1, NoRecovery
      <4> QED
        BY <3>5, <3>7, <4>1 DEF RecoveryClaimed, Recovering
    <3>9. DeletionHeld'
      <4>1. \A d \in Deleters : pc'[d] = pc[d]
        BY <3>7, TasksAssumption DEF Procs, Stoppers
      <4> QED
        BY <3>1, <3>3, <3>4, <4>1, NothingDeleted
    <3>10. AnswersOwed'
      <4>1. \A p \in Stoppers : pc'[p] = pc[p]
        BY <3>7, TasksAssumption DEF Procs
      <4> QED
        BY <3>2, <3>3, <4>1 DEF SlotInvariant, AnswersOwed, Queued
    <3> QED
      BY <3>6, <3>8, <3>9, <3>10 DEF SlotInvariant
  <2>35. ASSUME NEW p \in Stoppers, SendStop(p) PROVE SlotInvariant'
    <3>1. UNCHANGED <<st, cur, next, runner, completed, holder, serving, got, live, detached>>
      BY <2>35 DEF SendStop, slotVars, logVars
    <3>2. PICK where \in {"join", "stopwait"} : Goto(p, where)
      BY <2>35 DEF SendStop
    <3>3. pc[p] = "stop" /\ \A q \in Procs : pc'[q] = IF q = p THEN where ELSE pc[q]
      BY <2>35, <3>2 DEF SendStop, Goto, TypeOK, TaskTypes
    <3>4. RunnersInTurn' /\ StatusTellsRunner'
      BY <3>1 DEF SlotInvariant, RunnersInTurn, StatusTellsRunner
    <3>5. RecoveryClaimed' /\ DeletionHeld'
      BY <3>1, <3>3, ClaimKept, DeletionKept DEF SlotInvariant, Procs, Stoppers
    <3>6. AnswersOwed'
      <4>1. CASE where = "join"
        <5>1. queue' = queue
          BY <2>35, <3>2, <3>3, <4>1 DEF SendStop, Goto, TypeOK, TaskTypes, Procs
        <5> QED
          BY <3>1, <3>3, <4>1, <5>1, TasksAssumption DEF SlotInvariant, AnswersOwed, Queued, Procs, TypeOK, MailTypes
      <4>2. CASE where = "stopwait"
        <5>1. queue' = queue \/ queue' = Append(queue, Command("stop", p))
          BY <2>35 DEF SendStop, Push
        <5>2. Command("stop", p) \in Commands /\ Command("stop", p).from = p
          BY SentCommands DEF Command
        <5>3. Queued' \subseteq Queued \cup {p}
          <6> HIDE DEF Command
          <6> QED
            BY <5>1, <5>2, QueuedMoves DEF TypeOK, MailTypes
        <5> QED
          BY <3>1, <3>3, <4>2, <5>3 DEF SlotInvariant, AnswersOwed, Procs, TypeOK, MailTypes
      <4> QED
        BY <4>1, <4>2
    <3> QED
      BY <3>4, <3>5, <3>6 DEF SlotInvariant
  <2>36. ASSUME NEW p \in Stoppers, Join(p) PROVE SlotInvariant'
    <3>1. UNCHANGED <<st, cur, next, runner, completed, holder, queue, serving, live, detached>>
      BY <2>36 DEF Join, slotVars, mailVars, logVars
    <3>2. pc[p] = "join" /\ completed >= got[p].rid
      BY <2>36 DEF Join
    <3>3. CASE p \in Shutdowns
      <4>1. Goto(p, "ok") /\ p \notin Deleters /\ p \in Procs
        BY <2>36, <3>3, TasksAssumption DEF Join, Procs, Stoppers
      <4>2. \A d \in Deleters : got'[d] = got[d]
        BY <2>36, <4>1 DEF Join, Forget, TypeOK, TaskTypes, Procs, Stoppers
      <4>3. Queued' \subseteq Queued
        BY <3>1 DEF Queued
      <4> QED
        BY <3>1, <3>2, <4>1, <4>2, <4>3, TaskMoves
    <3>4. CASE p \in Deleters
      <4>1. \A q \in Procs : pc'[q] = IF q = p THEN "tools" ELSE pc[q]
        BY <2>36, <3>4, TasksAssumption DEF Join, Goto, TypeOK, TaskTypes
      <4>2. \A q \in Procs \ {p} : got'[q] = got[q]
        BY <2>36 DEF Join, Forget, TypeOK, TaskTypes
      <4>3. st = "Deleting" /\ got[p].rid = next /\ next > 0
        BY <3>2, <3>4 DEF SlotInvariant, DeletionHeld, Deletes
      <4>4. completed = next /\ runner[next] = "done"
        <5>1. completed \in RunnerIds /\ runner[completed] = "done"
          BY <3>2, <4>3 DEF SlotInvariant, RunnersInTurn, TypeOK, SlotTypes, RunnerIds
        <5>2. ~(completed > next)
          BY <5>1 DEF SlotInvariant, RunnersInTurn
        <5> QED
          BY <3>2, <4>3, <5>1, <5>2 DEF TypeOK, SlotTypes, RunnerIds
      <4>5. \A x \in RunnerIds : runner[x] \in Over
        BY <4>4 DEF SlotInvariant, RunnersInTurn, Over
      <4>6. RunnersInTurn' /\ StatusTellsRunner'
        BY <3>1 DEF SlotInvariant, RunnersInTurn, StatusTellsRunner
      <4>7. RecoveryClaimed'
        BY <3>1, <4>1, ClaimKept DEF SlotInvariant
      <4>8. DeletionHeld'
        BY <3>1, <3>2, <3>4, <4>1, <4>2, <4>3, <4>5 DEF SlotInvariant, DeletionHeld, Deletes, Procs, Stoppers
      <4>9. AnswersOwed'
        BY <3>1, <3>2, <4>1 DEF SlotInvariant, AnswersOwed, Queued, Procs, TypeOK, MailTypes
      <4> QED
        BY <4>6, <4>7, <4>8, <4>9 DEF SlotInvariant
    <3> QED
      BY <3>3, <3>4 DEF Stoppers
  <2>37. ASSUME NEW p \in Stoppers, CancelTools(p) PROVE SlotInvariant'
    <3>1. UNCHANGED <<st, cur, next, runner, completed, holder, queue, serving, got, live, detached>>
      BY <2>37 DEF CancelTools, slotVars, mailVars, logVars
    <3>2. pc[p] = "tools" /\ live = 0
      BY <2>37 DEF CancelTools
    <3>3. PICK where \in {"ok", "detach"} : Goto(p, where) /\ (p \in Shutdowns => where = "ok")
      BY <2>37 DEF CancelTools
    <3>4. \A q \in Procs : pc'[q] = IF q = p THEN where ELSE pc[q]
      BY <3>3 DEF Goto, TypeOK, TaskTypes
    <3>5. RunnersInTurn' /\ StatusTellsRunner'
      BY <3>1 DEF SlotInvariant, RunnersInTurn, StatusTellsRunner
    <3>6. RecoveryClaimed'
      BY <3>1, <3>4, ClaimKept DEF SlotInvariant
    <3>7. DeletionHeld'
      BY <3>1, <3>2, <3>4 DEF SlotInvariant, DeletionHeld, Deletes, Procs, Stoppers
    <3>8. AnswersOwed'
      BY <3>1, <3>2, <3>4 DEF SlotInvariant, AnswersOwed, Queued, Procs, TypeOK, MailTypes
    <3> QED
      BY <3>5, <3>6, <3>7, <3>8 DEF SlotInvariant
  <2>38. ASSUME NEW d \in Deleters, Detach(d) PROVE SlotInvariant'
    <3>1. UNCHANGED <<cur, next, runner, completed, holder, queue, serving, got, live>>
      BY <2>38 DEF Detach, mailVars
    <3>2. pc[d] = "detach"
      BY <2>38 DEF Detach
    <3>3. /\ st' \in {"Deleted", "Idle"}
          /\ detached' = detached \/ (detached' = TRUE /\ st' = "Deleted")
      BY <2>38 DEF Detach
    <3>4. PICK where \in {"ok", "err"} : Goto(d, where)
      BY <2>38 DEF Detach
    <3>5. \A q \in Procs : pc'[q] = IF q = d THEN where ELSE pc[q]
      BY <3>4 DEF Goto, TypeOK, TaskTypes
    <3>6. st = "Deleting" /\ live = 0 /\ ~detached /\ \A x \in RunnerIds : runner[x] \in Over
      BY <3>2 DEF SlotInvariant, DeletionHeld, Deletes
    <3>7. \A e \in Deleters : ~Deletes(e)'
      BY <3>2, <3>5 DEF SlotInvariant, DeletionHeld, Deletes, Procs, Stoppers
    <3>8. RunnersInTurn' /\ StatusTellsRunner'
      BY <3>1, <3>3, <3>6 DEF SlotInvariant, RunnersInTurn, StatusTellsRunner
    <3>9. RecoveryClaimed'
      BY <3>5, <3>6, NoRecovery DEF RecoveryClaimed, Recovering
    <3>10. DeletionHeld'
      <4>1. detached' => st' = "Deleted"
        BY <3>3, <3>6
      <4> QED
        BY <3>1, <3>6, <3>7, <4>1 DEF DeletionHeld, Deletes
    <3>11. AnswersOwed'
      BY <3>1, <3>2, <3>5 DEF SlotInvariant, AnswersOwed, Queued, Procs, Stoppers, TypeOK, MailTypes
    <3> QED
      BY <3>8, <3>9, <3>10, <3>11 DEF SlotInvariant
  <2>39. ASSUME NEW d \in Deleters, BeginDelete(d) PROVE SlotInvariant'
    <3>1. pc[d] \in {"start", "begin"} /\ d \in Procs
      BY <2>39 DEF BeginDelete, Procs, Stoppers
    <3>2. UNCHANGED <<next, runner, completed, holder, queue, serving, live, detached>>
      BY <2>39 DEF BeginDelete, mailVars, logVars
    <3>3. Queued' = Queued
      BY <3>2 DEF Queued
    <3>4. CASE \E where \in {"err", "wait"} : Goto(d, where) /\ UNCHANGED <<st, cur, got>>
      BY <3>1, <3>2, <3>3, <3>4, TaskMoves DEF Deletes
    <3>5. CASE /\ st \notin {"Deleting", "Deleted", "Recovering"}
               /\ Goto(d, IF st = "Active" THEN "stop" ELSE "tools")
               /\ Read(d) /\ st' = "Deleting" /\ cur' = 0
      <4>1. \A q \in Procs : pc'[q] = IF q = d THEN (IF st = "Active" THEN "stop" ELSE "tools") ELSE pc[q]
        BY <3>5 DEF Goto, TypeOK, TaskTypes
      <4>2. \A q \in Procs : got'[q] = IF q = d THEN [rid |-> cur, chan |-> chan] ELSE got[q]
        BY <3>5 DEF Read, TypeOK, TaskTypes
      <4>3. ~detached /\ \A e \in Deleters : ~Deletes(e)
        BY <3>5, NoDeletion DEF SlotInvariant, DeletionHeld
      <4>4. RunnersInTurn' /\ StatusTellsRunner'
        BY <3>2, <3>5 DEF SlotInvariant, RunnersInTurn, StatusTellsRunner
      <4>5. RecoveryClaimed'
        BY <3>5, <4>1, NoRecovery DEF RecoveryClaimed, Recovering
      <4>6. DeletionHeld'
        <5>1. \A e \in Deleters \ {d} : ~Deletes(e)'
          BY <4>1, <4>3 DEF Deletes, Procs, Stoppers
        <5>2. CASE st = "Active"
          <6>1. cur = next /\ next \in RunnerIds
            BY <5>2 DEF SlotInvariant, StatusTellsRunner
          <6> QED
            BY <3>1, <3>2, <3>5, <4>1, <4>2, <4>3, <5>1, <5>2, <6>1 DEF DeletionHeld, Deletes, RunnerIds
        <5>3. CASE st # "Active"
          <6>1. \A x \in RunnerIds : runner[x] \in Over
            BY <3>5, <5>3 DEF SlotInvariant, StatusTellsRunner
          <6> QED
            BY <3>1, <3>2, <3>5, <4>1, <4>3, <5>1, <5>3, <6>1 DEF DeletionHeld, Deletes
        <5> QED
          BY <5>2, <5>3
      <4>7. AnswersOwed'
        BY <3>1, <3>2, <3>3, <4>1 DEF SlotInvariant, AnswersOwed, Procs, Stoppers, TypeOK, MailTypes
      <4> QED
        BY <4>4, <4>5, <4>6, <4>7 DEF SlotInvariant
    <3> QED
      BY <2>39, <3>4, <3>5 DEF BeginDelete
  <2>40. CASE ToolEnds
    <3>1. UNCHANGED <<st, cur, next, runner, completed, holder, queue, serving, pc, got, detached>> /\ live' = 0
      BY <2>40 DEF ToolEnds, slotVars, mailVars, taskVars
    <3>2. RunnersInTurn' /\ StatusTellsRunner' /\ RecoveryClaimed'
      BY <3>1 DEF SlotInvariant, RunnersInTurn, StatusTellsRunner, RecoveryClaimed, Recovering
    <3>3. DeletionHeld'
      BY <3>1 DEF SlotInvariant, DeletionHeld, Deletes
    <3>4. AnswersOwed'
      BY <3>1 DEF SlotInvariant, AnswersOwed, Queued
    <3> QED
      BY <3>2, <3>3, <3>4 DEF SlotInvariant
  <2>41. CASE UNCHANGED vars
    <3>1. UNCHANGED <<st, cur, next, runner, completed, holder, queue, serving, pc, got, live, detached>>
      BY <2>41 DEF vars, slotVars, mailVars, taskVars, logVars
    <3> QED
      BY <3>1, NothingMoves
  <2> QED
    BY <2>1, <2>2, <2>3, <2>4, <2>5, <2>6, <2>7, <2>8, <2>9, <2>10, <2>11, <2>12, <2>13, <2>14, <2>15, <2>16, <2>17, <2>18, <2>19, <2>20, <2>21, <2>22, <2>23, <2>24, <2>25, <2>26, <2>27, <2>28, <2>29, <2>30, <2>31, <2>32, <2>33, <2>34, <2>35, <2>36, <2>37, <2>38, <2>39, <2>40, <2>41
       DEF Next, SendStep, RunnerStep, ExitStep, StopStep
<1>3. Spec => []TypeOK
  BY TypeCorrect
<1> QED
  BY <1>1, <1>2, <1>3, PTL DEF Spec

\* A session has one writer at any time, however requests, failures,
\* discovery, deletions and shutdowns interleave.
THEOREM OneWriter == Spec => []SingleWriter
<1>1. SlotInvariant => SingleWriter
  BY DEF SlotInvariant, SingleWriter, Alive, Recovering, RunnersInTurn, StatusTellsRunner,
         RecoveryClaimed, Over, Running
<1> QED
  BY <1>1, SlotInvariantHolds, PTL

\* Nothing of the session is left that could write to a detached directory.
THEOREM DetachedStaysQuiet == Spec => []DetachedIsQuiet
<1>1. SlotInvariant => DetachedIsQuiet
  BY DEF SlotInvariant, DetachedIsQuiet, Alive, Recovering, StatusTellsRunner, RecoveryClaimed,
         DeletionHeld, Over, Running
<1> QED
  BY <1>1, SlotInvariantHolds, PTL

-----------------------------------------------------------------------------
(* Confirmed once *)

\* A client's command is in the mailbox once, and its sender waits for it.
QueuedOnce ==
  /\ \A c \in Queued \cap Clients : pc[c] = "sent"
  /\ \A k, l \in 1 .. Len(queue) :
       queue[k].from \in Clients /\ queue[l].from = queue[k].from => k = l

\* Once an input is durable its client has been answered, with an error or not, and
\* sends no more.
Settled == \A k \in DOMAIN inputs : pc[inputs[k]] \in {"ok", "err"}
Confirming == QueuedOnce /\ Settled /\ ConfirmedOnce

\* Steps that leave the clients alone: none is confirmed, and none sends or stops waiting;
\* the mailbox loses commands, or gets one that is not a client's.
ClientsStay ==
  /\ UNCHANGED <<inputs, asked>>
  /\ \A c \in Clients :
       pc'[c] = pc[c] \/ (pc[c] \notin {"sent", "ok", "err"} /\ pc'[c] \notin {"sent", "ok"})
OthersMail ==
  \/ queue' = queue \/ queue' = <<>> \/ (queue # <<>> /\ queue' = Tail(queue))
  \/ \E m \in Commands : m.from \notin Clients /\ (queue' = <<m>> \/ queue' = Append(queue, m))

LEMMA MailStaysSingle ==
  ASSUME queue \in Seq(Commands), QueuedOnce, OthersMail
  PROVE  /\ Queued' \cap Clients \subseteq Queued
         /\ \A k, l \in 1 .. Len(queue') :
              queue'[k].from \in Clients /\ queue'[l].from = queue'[k].from => k = l
<1>1. Queued' \cap Clients \subseteq Queued
  BY QueuedMoves DEF OthersMail
<1>2. ASSUME NEW k \in 1 .. Len(queue'), NEW l \in 1 .. Len(queue'),
             queue'[k].from \in Clients, queue'[l].from = queue'[k].from
      PROVE  k = l
  <2>1. CASE queue' = queue
    BY <1>2, <2>1 DEF QueuedOnce
  <2>2. CASE queue' = <<>>
    BY <1>2, <2>2
  <2>3. CASE queue # <<>> /\ queue' = Tail(queue)
    <3>1. /\ k + 1 \in 1 .. Len(queue) /\ queue'[k] = queue[k + 1]
          /\ l + 1 \in 1 .. Len(queue) /\ queue'[l] = queue[l + 1]
      BY <1>2, <2>3
    <3>2. k + 1 = l + 1
      BY <1>2, <3>1 DEF QueuedOnce
    <3> QED
      BY <1>2, <3>2
  <2>4. ASSUME NEW m \in Commands, m.from \notin Clients, queue' = <<m>>
        PROVE  FALSE
    BY <1>2, <2>4
  <2>5. ASSUME NEW m \in Commands, m.from \notin Clients, queue' = Append(queue, m)
        PROVE  k = l
    <3>1. /\ \A n \in 1 .. Len(queue') : n \in 1 .. Len(queue) \/ n = Len(queue) + 1
          /\ \A n \in 1 .. Len(queue) : queue'[n] = queue[n]
          /\ queue'[Len(queue) + 1] = m
      BY <2>5
    <3>2. k \in 1 .. Len(queue) /\ l \in 1 .. Len(queue)
      BY <1>2, <2>5, <3>1
    <3> QED
      BY <1>2, <3>1, <3>2 DEF QueuedOnce
  <2> QED
    BY <2>1, <2>2, <2>3, <2>4, <2>5 DEF OthersMail
<1> QED
  BY <1>1, <1>2

LEMMA DurableInputs ==
  ASSUME TypeOK
  PROVE  /\ Len(inputs) \in Nat /\ DOMAIN inputs = 1 .. Len(inputs)
         /\ \A k \in DOMAIN inputs : inputs[k] \in Clients
BY DEF TypeOK, LogTypes

LEMMA ClientsStayConfirmed ==
  ASSUME TypeOK, Confirming, ClientsStay, OthersMail
  PROVE  Confirming'
<1>1. /\ Queued' \cap Clients \subseteq Queued
      /\ \A k, l \in 1 .. Len(queue') :
           queue'[k].from \in Clients /\ queue'[l].from = queue'[k].from => k = l
  BY MailStaysSingle DEF TypeOK, MailTypes, Confirming
<1>2. QueuedOnce'
  BY <1>1 DEF QueuedOnce, Confirming, ClientsStay
<1>3. ConfirmedOnce'
  BY DEF ConfirmedOnce, Confirming, ClientsStay, Earlier, Same
<1>4. Settled'
  BY DurableInputs DEF Settled, Confirming, ClientsStay
<1> QED
  BY <1>2, <1>3, <1>4 DEF Confirming

\* One task goes on; it is not a client, or a client that has not sent.
LEMMA TaskStays ==
  ASSUME TypeOK, Confirming, NEW p \in Procs, NEW where, Goto(p, where),
         p \notin Clients \/ (pc[p] \notin {"sent", "ok", "err"} /\ where \notin {"sent", "ok"}),
         UNCHANGED <<inputs, asked>>, OthersMail
  PROVE  Confirming'
<1>1. \A c \in Clients : pc'[c] = IF c = p THEN where ELSE pc[c]
  BY DEF Goto, TypeOK, TaskTypes, Procs, Senders
<1>2. ClientsStay
  BY <1>1 DEF ClientsStay
<1> QED
  BY <1>2, ClientsStayConfirmed

\* No task goes on.
LEMMA NobodyGoesOn ==
  ASSUME TypeOK, Confirming, UNCHANGED <<pc, inputs, asked>>, OthersMail
  PROVE  Confirming'
BY ClientsStayConfirmed DEF ClientsStay

MailAnswered(tasks) ==
  \A c \in Clients : /\ pc'[c] = pc[c] \/ (pc[c] = "sent" /\ pc'[c] = "err")
                     /\ c \in tasks => pc'[c] = "err"

\* A mailbox that is dropped tells its clients so.
LEMMA DroppedMail ==
  ASSUME TypeOK, Confirming, queue' = <<>>,
         NEW tasks, tasks \cap Clients \subseteq Queued, Answer(tasks)
  PROVE  QueuedOnce' /\ MailAnswered(tasks)
<1>1. MailAnswered(tasks)
  BY DEF MailAnswered, Answer, Confirming, QueuedOnce, Procs, Senders
<1>2. Len(queue') = 0
  OBVIOUS
<1>3. QueuedOnce'
  BY <1>2 DEF QueuedOnce, Queued
<1> QED
  BY <1>1, <1>3

\* Its clients are not confirmed.
LEMMA DroppedIsNotConfirmed ==
  ASSUME TypeOK, Confirming, queue' = <<>>, UNCHANGED <<inputs, asked>>,
         NEW tasks, tasks \cap Clients \subseteq Queued, Answer(tasks)
  PROVE  Confirming'
<1>1. /\ QueuedOnce'
      /\ \A c \in Clients : pc'[c] = pc[c] \/ (pc[c] = "sent" /\ pc'[c] = "err")
  BY DroppedMail DEF MailAnswered
<1>2. ConfirmedOnce'
  BY <1>1 DEF ConfirmedOnce, Confirming, Earlier, Same
<1>3. Settled'
  BY <1>1, DurableInputs DEF Settled, Confirming
<1> QED
  BY <1>1, <1>2, <1>3 DEF Confirming

\* An input that waits becomes durable, and its sender is answered one way or the other.
LEMMA InputDurable ==
  ASSUME TypeOK, Confirming, NEW c \in Clients, pc[c] = "sent",
         inputs' = Append(inputs, c), UNCHANGED asked, pc'[c] \in {"ok", "err"},
         \A d \in Clients \ {c} : pc'[d] = pc[d] \/ (pc[d] = "sent" /\ pc'[d] = "err")
  PROVE  Settled' /\ ConfirmedOnce'
<1> DEFINE n == Len(inputs)
<1>1. /\ n \in Nat /\ DOMAIN inputs = 1 .. n /\ DOMAIN inputs' = 1 .. (n + 1)
      /\ \A k \in 1 .. n : inputs'[k] = inputs[k] /\ inputs[k] \in Clients
      /\ inputs'[n + 1] = c
  BY DEF TypeOK, LogTypes
<1>2. \A k \in 1 .. n : inputs[k] # c
  BY <1>1 DEF Confirming, Settled
<1> HIDE DEF n
<1>3. Settled'
  <2>1. ASSUME NEW k \in 1 .. n
        PROVE  pc'[inputs'[k]] \in {"ok", "err"}
    BY <1>1, <1>2, <2>1 DEF Confirming, Settled
  <2>2. pc'[inputs'[n + 1]] \in {"ok", "err"}
    BY <1>1
  <2> QED
    BY <1>1, <2>1, <2>2 DEF Settled
<1>4. ASSUME NEW k \in 1 .. (n + 1), NEW l \in 1 .. (n + 1), inputs'[k] = inputs'[l]
      PROVE  k = l
  BY <1>1, <1>2, <1>4 DEF Confirming, ConfirmedOnce
<1>5. ASSUME NEW d \in Clients, pc'[d] = "ok"
      PROVE  \E k \in 1 .. (n + 1) : inputs'[k] = d \/ (Earlier(k, d) /\ Same(k, d))'
  <2>1. CASE d = c
    BY <1>1, <2>1
  <2>2. CASE d # c
    <3>1. pc[d] = "ok"
      BY <1>5, <2>2
    <3>2. PICK k \in 1 .. n : inputs[k] = d \/ (Earlier(k, d) /\ Same(k, d))
      BY <1>1, <3>1 DEF Confirming, ConfirmedOnce
    <3>3. inputs'[k] = inputs[k] /\ k \in 1 .. (n + 1)
      BY <1>1
    <3> QED
      BY <3>2, <3>3 DEF Earlier, Same
  <2> QED
    BY <2>1, <2>2
<1> QED
  BY <1>1, <1>3, <1>4, <1>5 DEF ConfirmedOnce

\* A client that has not sent sends.
LEMMA DispatchConfirms ==
  ASSUME TypeOK, Confirming, NEW c \in Clients, Dispatch(c)
  PROVE  Confirming'
<1>1. c \in Procs /\ UNCHANGED <<inputs, asked>> /\ pc[c] = "dispatch"
  BY DEF Dispatch, Procs, Senders, logVars
<1>2. CASE Goto(c, "err") /\ UNCHANGED queue
  BY <1>1, <1>2, TaskStays DEF OthersMail
<1>3. CASE Push(Command("input", c)) /\ Goto(c, "sent")
  <2>1. \A d \in Clients : pc'[d] = IF d = c THEN "sent" ELSE pc[d]
    BY <1>3 DEF Goto, TypeOK, TaskTypes, Procs, Senders
  <2>2. /\ queue' = Append(queue, Command("input", c)) /\ queue \in Seq(Commands)
        /\ Command("input", c) \in Commands /\ Command("input", c).from = c
    BY <1>3, SentCommands DEF Push, TypeOK, MailTypes, Command
  <2>3. Queued' \subseteq Queued \cup {c}
    BY <2>2, QueuedMoves
  <2>4. c \notin Queued
    BY <1>1 DEF Confirming, QueuedOnce
  <2>5. ASSUME NEW k \in 1 .. Len(queue'), NEW l \in 1 .. Len(queue'),
               queue'[k].from \in Clients, queue'[l].from = queue'[k].from
        PROVE  k = l
    <3>1. /\ k \in 1 .. Len(queue) \/ k = Len(queue) + 1
          /\ l \in 1 .. Len(queue) \/ l = Len(queue) + 1
          /\ \A n \in 1 .. Len(queue) : queue'[n] = queue[n]
          /\ queue'[Len(queue) + 1] = Command("input", c)
      BY <2>2
    <3>2. \A n \in 1 .. Len(queue) : queue[n].from # c
      BY <2>4 DEF Queued
    <3> QED
      BY <2>2, <2>5, <3>1, <3>2 DEF Confirming, QueuedOnce
  <2>6. QueuedOnce'
    BY <2>1, <2>3, <2>5 DEF QueuedOnce, Confirming
  <2>7. ConfirmedOnce'
    BY <1>1, <2>1 DEF ConfirmedOnce, Confirming, Earlier, Same
  <2>8. Settled'
    BY <1>1, <2>1, DurableInputs DEF Settled, Confirming
  <2> QED
    BY <2>6, <2>7, <2>8 DEF Confirming
<1> QED
  BY <1>2, <1>3 DEF Dispatch

\* The input at the head of the mailbox is one its sender waits for.
LEMMA HeadWaits ==
  ASSUME TypeOK, Confirming, NEW r \in RunnerIds, Takes(r, "input")
  PROVE  /\ Head(queue).from \in Clients \cap Queued
         /\ pc[Head(queue).from] = "sent"
<1>1. queue \in Seq(Commands) /\ queue # <<>> /\ Head(queue).kind = "input"
  BY DEF Takes, TypeOK, MailTypes
<1>2. Head(queue).from \in Clients /\ Head(queue).from \in Queued
  BY <1>1, TailTyped, CommandSenders, QueuedMoves
<1> QED
  BY <1>2 DEF Confirming, QueuedOnce

\* It is answered from the log, or made durable and confirmed.
LEMMA InputConfirmed ==
  ASSUME TypeOK, Confirming, NEW r \in RunnerIds, HandleInput(r)
  PROVE  Confirming'
<1> DEFINE c == Head(queue).from
<1>1. /\ queue \in Seq(Commands) /\ queue # <<>> /\ queue' = Tail(queue) /\ UNCHANGED asked
      /\ Takes(r, "input")
  BY DEF HandleInput, Takes, TypeOK, MailTypes
<1>2. c \in Clients /\ c \in Queued /\ OthersMail /\ pc[c] = "sent"
  BY <1>1, HeadWaits DEF OthersMail
<1>3. /\ \A d \in Clients \ {c} : pc'[d] = pc[d]
      /\ pc'[c] \in {"ok", "err"}
  <2>1. PICK where \in {"ok", "err"} : Goto(c, where)
    BY DEF HandleInput
  <2> HIDE DEF c
  <2> QED
    BY <1>2, <2>1 DEF Goto, TypeOK, TaskTypes, Procs, Senders
<1>4. Settled' /\ ConfirmedOnce'
  <2>1. CASE AppendInput(c)
    <3>1. inputs' = Append(inputs, c)
      BY <2>1 DEF AppendInput
    <3> HIDE DEF c
    <3> QED
      BY <1>1, <1>2, <1>3, <3>1, InputDurable
  <2>2. CASE /\ Known(c) # {} /\ UNCHANGED inputs
             /\ Goto(c, IF \E k \in Known(c) : Same(k, c) THEN "ok" ELSE "err")
    <3>1. pc'[c] = "ok" => \E k \in Known(c) : Same(k, c)
      BY <1>2, <2>2 DEF Goto, TypeOK, TaskTypes, Procs, Senders
    <3>2. \A k \in Known(c) : k \in DOMAIN inputs /\ Earlier(k, c)
      BY DEF Known, Placed, Receipt
    <3> HIDE DEF c
    <3>3. ConfirmedOnce'
      BY <1>1, <1>3, <2>2, <3>1, <3>2 DEF ConfirmedOnce, Confirming, Earlier, Same
    <3>4. Settled'
      BY <1>2, <1>3, <2>2, DurableInputs DEF Settled, Confirming
    <3> QED
      BY <3>3, <3>4
  <2> QED
    BY <2>1, <2>2 DEF HandleInput
<1>5. c \notin Queued'
  <2> SUFFICES ASSUME NEW k \in 1 .. Len(queue'), queue'[k].from = c
               PROVE  FALSE
    BY DEF Queued
  <2>1. k + 1 \in 1 .. Len(queue) /\ queue'[k] = queue[k + 1] /\ 1 \in 1 .. Len(queue)
        /\ queue[1].from = c /\ k + 1 # 1
    BY <1>1
  <2> QED
    BY <1>2, <2>1 DEF Confirming, QueuedOnce
<1>6. QueuedOnce'
  <2>1. /\ Queued' \cap Clients \subseteq Queued
        /\ \A k, l \in 1 .. Len(queue') :
             queue'[k].from \in Clients /\ queue'[l].from = queue'[k].from => k = l
    BY <1>1, <1>2, MailStaysSingle DEF Confirming
  <2> HIDE DEF c
  <2> QED
    BY <1>3, <1>5, <2>1 DEF QueuedOnce, Confirming
<1> QED
  BY <1>4, <1>6 DEF Confirming

\* A runner that fails drops its mailbox; what it was appending may be durable.
LEMMA FailureConfirms ==
  ASSUME TypeOK, Confirming, NEW r \in RunnerIds, Fail(r)
  PROVE  Confirming'
<1>1. queue' = <<>> /\ Answer(Queued) /\ UNCHANGED asked
  BY DEF Fail, DropReceiver
<1>2. CASE UNCHANGED inputs
  BY <1>1, <1>2, DroppedIsNotConfirmed
<1>3. CASE Takes(r, "input") /\ AppendInput(Head(queue).from)
  <2> DEFINE c == Head(queue).from
  <2>1. c \in Clients /\ c \in Queued /\ pc[c] = "sent"
    BY <1>3, HeadWaits
  <2>2. inputs' = Append(inputs, c)
    BY <1>3 DEF AppendInput
  <2> HIDE DEF c
  <2>3. /\ QueuedOnce' /\ pc'[c] = "err"
        /\ \A d \in Clients : pc'[d] = pc[d] \/ (pc[d] = "sent" /\ pc'[d] = "err")
    <3>1. Queued \cap Clients \subseteq Queued
      OBVIOUS
    <3>2. QueuedOnce' /\ MailAnswered(Queued)
      BY <1>1, <3>1, DroppedMail
    <3> QED
      BY <2>1, <3>2 DEF MailAnswered
  <2> QED
    BY <1>1, <2>1, <2>2, <2>3, InputDurable DEF Confirming
<1> QED
  BY <1>2, <1>3 DEF Fail, AppendFault, AppendStep

\* A new runner's mailbox holds no client's command.
LEMMA InitialMail ==
  ASSUME NEW cause \in Causes \cup {None, "diagnostic"}, NEW n \in Nat,
         queue' = <<>> \/ queue' = <<Fault(n, cause)>>
  PROVE  OthersMail
<1>1. Fault(n, cause) \in Commands /\ Fault(n, cause).from \notin Clients
  BY SentCommands, TasksAssumption DEF Fault, Procs, Senders
<1> QED
  BY <1>1 DEF OthersMail

LEMMA ConfirmingKept ==
  ASSUME TypeOK, Confirming, [Next]_vars
  PROVE  Confirming'
<1> USE TasksAssumption DEF Procs, Senders, Stoppers, mailVars, taskVars, logVars, slotVars
<1>0. queue' = queue => OthersMail
  BY DEF OthersMail
<1>1. ASSUME NEW p \in Senders, Submit(p) PROVE Confirming'
  BY <1>0, <1>1, TaskStays DEF Submit
<1>2. ASSUME NEW p \in Senders, Claim(p) PROVE Confirming'
  BY <1>0, <1>2, TaskStays DEF Claim
<1>3. ASSUME NEW p \in Senders, Proceed(p) PROVE Confirming'
  BY <1>0, <1>3, TaskStays DEF Proceed
<1>4. ASSUME NEW p \in Senders, Refuse(p) PROVE Confirming'
  BY <1>0, <1>4, TaskStays DEF Refuse
<1>5. ASSUME NEW p \in Senders, AwaitChange(p) PROVE Confirming'
  BY <1>0, <1>5, TaskStays DEF AwaitChange
<1>6. ASSUME NEW p \in Senders, Woken(p) PROVE Confirming'
  BY <1>0, <1>6, TaskStays DEF Woken
<1>7. ASSUME NEW p \in Senders, Retry(p) PROVE Confirming'
  BY <1>0, <1>7, TaskStays DEF Retry
<1>8. ASSUME NEW p \in Senders, Recover(p) PROVE Confirming'
  <2>1. pc[p] = "recover" /\ Goto(p, "dispatch") /\ UNCHANGED <<inputs, asked>>
    BY <1>8 DEF Recover
  <2>2. queue' = <<>> \/ queue' = <<Fault(1, "diagnostic")>>
    BY <1>8 DEF Recover, Activate
  <2>3. OthersMail
    BY <2>2, InitialMail
  <2> QED
    BY <2>1, <2>3, TaskStays
<1>9. ASSUME NEW p \in Clients, Dispatch(p) PROVE Confirming'
  BY <1>9, DispatchConfirms
<1>10. ASSUME NEW p \in Internals, Grab(p) PROVE Confirming'
  BY <1>0, <1>10, TaskStays DEF Grab
<1>11. ASSUME NEW p \in Internals, Reserve(p) PROVE Confirming'
  BY <1>0, <1>11, TaskStays DEF Reserve
<1>12. ASSUME NEW p \in Internals, Recheck(p) PROVE Confirming'
  <2>1. UNCHANGED <<inputs, asked>> /\ p \notin Clients /\ \E where : Goto(p, where)
    BY <1>12 DEF Recheck
  <2>2. Command("deadline", p) \in Commands /\ Command("deadline", p).from \notin Clients
    BY SentCommands DEF Command
  <2>3. OthersMail
    BY <1>0, <2>2, <1>12 DEF Recheck, Push, OthersMail
  <2> QED
    BY <2>1, <2>3, TaskStays
<1>13. ASSUME NEW r \in RunnerIds, HandleInput(r) PROVE Confirming'
  BY <1>13, InputConfirmed
<1>14. ASSUME NEW r \in RunnerIds, HandleDeadline(r) PROVE Confirming'
  BY <1>14, NobodyGoesOn DEF HandleDeadline, Takes, Exit, OthersMail
<1>15. ASSUME NEW r \in RunnerIds, HandleStop(r) PROVE Confirming'
  BY <1>15, NobodyGoesOn DEF HandleStop, Takes, Exit, OthersMail
<1>16. ASSUME NEW r \in RunnerIds, HandleFault(r) PROVE Confirming'
  <2>1. UNCHANGED <<inputs, asked>> /\ queue # <<>>
    BY <1>16 DEF HandleFault, AppendFault, Takes
  <2>2. CASE DropReceiver
    BY <2>1, <2>2, DroppedIsNotConfirmed DEF DropReceiver
  <2>3. CASE queue' = Tail(queue) /\ UNCHANGED pc
    BY <2>1, <2>3, NobodyGoesOn DEF OthersMail
  <2> QED
    BY <1>16, <2>2, <2>3 DEF HandleFault
<1>17. ASSUME NEW r \in RunnerIds, Stopped(r) PROVE Confirming'
  <2>1. serving \notin Clients
    BY DEF TypeOK, MailTypes
  <2>2. UNCHANGED <<inputs, asked>> /\ queue' = <<>> /\ Answer(Queued \cup {serving})
    BY <1>17 DEF Stopped
  <2> QED
    BY <2>1, <2>2, DroppedIsNotConfirmed
<1>18. ASSUME NEW r \in RunnerIds, Drained(r) PROVE Confirming'
  BY <1>0, <1>18, NobodyGoesOn DEF Drained, Exit
<1>19. ASSUME NEW r \in RunnerIds, Decide(r) PROVE Confirming'
  BY <1>0, <1>19, NobodyGoesOn DEF Decide, Exit
<1>20. ASSUME NEW r \in RunnerIds, CompleteStep(r) PROVE Confirming'
  BY <1>0, <1>20, NobodyGoesOn DEF CompleteStep, AppendStep, Exit
<1>21. ASSUME NEW r \in RunnerIds, ReadStopping(r) PROVE Confirming'
  BY <1>0, <1>21, NobodyGoesOn DEF ReadStopping
<1>22. ASSUME NEW r \in RunnerIds, Complete(r) PROVE Confirming'
  BY <1>0, <1>22, NobodyGoesOn DEF Complete
<1>23. ASSUME NEW r \in RunnerIds, Fail(r) PROVE Confirming'
  BY <1>23, FailureConfirms
<1>24. ASSUME NEW r \in RunnerIds, ExitIgnored(r) PROVE Confirming'
  <2>1. UNCHANGED <<inputs, asked>>
    BY <1>24 DEF ExitIgnored
  <2>2. CASE DropReceiver
    BY <2>1, <2>2, DroppedIsNotConfirmed DEF DropReceiver
  <2>3. CASE UNCHANGED <<queue, pc>>
    BY <1>0, <2>1, <2>3, NobodyGoesOn
  <2> QED
    BY <1>24, <2>2, <2>3 DEF ExitIgnored
<1>25. ASSUME NEW r \in RunnerIds, ExitIdle(r) PROVE Confirming'
  BY <1>0, <1>25, NobodyGoesOn DEF ExitIdle
<1>26. ASSUME NEW r \in RunnerIds, ExitEnded(r) PROVE Confirming'
  <2>1. UNCHANGED <<queue, inputs, asked>> /\ (UNCHANGED pc \/ Goto(Rebuild, "recover"))
    BY <1>26 DEF ExitEnded, Goto
  <2>2. Rebuild \in Procs /\ Rebuild \notin Clients
    OBVIOUS
  <2> QED
    BY <1>0, <2>1, <2>2, NobodyGoesOn, TaskStays
<1>27. ASSUME NEW p \in Stoppers, SendStop(p) PROVE Confirming'
  <2>1. UNCHANGED <<inputs, asked>> /\ p \notin Clients /\ \E where : Goto(p, where)
    BY <1>27 DEF SendStop
  <2>2. Command("stop", p) \in Commands /\ Command("stop", p).from \notin Clients
    BY SentCommands DEF Command
  <2>3. OthersMail
    BY <1>0, <2>2, <1>27 DEF SendStop, Push, OthersMail
  <2> QED
    BY <2>1, <2>3, TaskStays
<1>28. ASSUME NEW p \in Stoppers, Woken(p) PROVE Confirming'
  <2>1. UNCHANGED <<queue, inputs, asked>> /\ p \notin Clients /\ \E where : Goto(p, where)
    BY <1>28 DEF Woken
  <2> QED
    BY <1>0, <2>1, TaskStays
<1>29. ASSUME NEW p \in Stoppers, Join(p) PROVE Confirming'
  <2>1. UNCHANGED <<queue, inputs, asked>> /\ p \notin Clients /\ \E where : Goto(p, where)
    BY <1>29 DEF Join
  <2> QED
    BY <1>0, <2>1, TaskStays
<1>30. ASSUME NEW p \in Stoppers, CancelTools(p) PROVE Confirming'
  <2>1. UNCHANGED <<queue, inputs, asked>> /\ p \notin Clients /\ \E where : Goto(p, where)
    BY <1>30 DEF CancelTools
  <2> QED
    BY <1>0, <2>1, TaskStays
<1>31. ASSUME NEW p \in Deleters, Detach(p) PROVE Confirming'
  <2>1. UNCHANGED <<queue, inputs, asked>> /\ p \notin Clients /\ \E where : Goto(p, where)
    BY <1>31 DEF Detach
  <2> QED
    BY <1>0, <2>1, TaskStays
<1>32. ASSUME NEW p \in Deleters, BeginDelete(p) PROVE Confirming'
  <2>1. UNCHANGED <<queue, inputs, asked>> /\ p \notin Clients /\ \E where : Goto(p, where)
    BY <1>32 DEF BeginDelete
  <2> QED
    BY <1>0, <2>1, TaskStays
<1>33. ASSUME NEW p \in Shutdowns, AwaitDiscovery(p) PROVE Confirming'
  <2>1. UNCHANGED <<queue, inputs, asked>> /\ p \notin Clients /\ \E where : Goto(p, where)
    BY <1>33 DEF AwaitDiscovery
  <2> QED
    BY <1>0, <2>1, TaskStays
<1>34. ASSUME NEW p \in Shutdowns, StopSlot(p) PROVE Confirming'
  <2>1. UNCHANGED <<queue, inputs, asked>> /\ p \notin Clients /\ \E where : Goto(p, where)
    BY <1>34 DEF StopSlot
  <2> QED
    BY <1>0, <2>1, TaskStays
<1>35. ASSUME NEW p \in Shutdowns, BeginShutdown(p) PROVE Confirming'
  <2>1. UNCHANGED <<queue, inputs, asked>> /\ p \notin Clients /\ \E where : Goto(p, where)
    BY <1>35 DEF BeginShutdown
  <2> QED
    BY <1>0, <2>1, TaskStays
<1>36. ASSUME NEW p \in Procs, RecoverFails(p) PROVE Confirming'
  <2>1. /\ UNCHANGED <<queue, inputs, asked>> /\ pc[p] = "recover"
        /\ \E where \in {"off", "ok", "err"} : Goto(p, where) /\ (p \in Clients => where = "err")
    BY <1>36 DEF RecoverFails
  <2> QED
    BY <1>0, <2>1, TaskStays
<1>37. ASSUME Discover PROVE Confirming'
  <2>1. UNCHANGED <<queue, inputs, asked>> /\ Discovery \notin Clients /\ \E where : Goto(Discovery, where)
    BY <1>37 DEF Discover
  <2> QED
    BY <1>0, <2>1, TaskStays
<1>38. ASSUME Discovered PROVE Confirming'
  <2>1. UNCHANGED <<inputs, asked>> /\ Discovery \notin Clients /\ Goto(Discovery, "ok")
    BY <1>38 DEF Discovered
  <2>2. queue' = queue \/ queue' = <<>> \/ queue' = <<Fault(1, "diagnostic")>>
    BY <1>38 DEF Discovered, Activate
  <2>3. OthersMail
    BY <1>0, <2>2, InitialMail
  <2> QED
    BY <2>1, <2>3, TaskStays
<1>39. ASSUME RebuildRunner PROVE Confirming'
  <2>1. UNCHANGED <<inputs, asked>> /\ Rebuild \notin Clients /\ Goto(Rebuild, "off")
    BY <1>39 DEF RebuildRunner
  <2>2. \E n \in Nat : queue' = <<Fault(n, failure)>>
    <3>1. streak.count + 1 \in Nat /\ 1 \in Nat
      BY DEF TypeOK, LogTypes, Streaks
    <3> QED
      BY <1>39, <3>1 DEF RebuildRunner, Activate
  <2>3. failure \in Causes \cup {None, "diagnostic"}
    BY DEF TypeOK, LogTypes
  <2>4. OthersMail
    BY <2>2, <2>3, InitialMail
  <2> QED
    BY <2>1, <2>4, TaskStays
<1>40. ASSUME ToolEnds PROVE Confirming'
  BY <1>0, <1>40, NobodyGoesOn DEF ToolEnds
<1>41. ASSUME UNCHANGED vars PROVE Confirming'
  BY <1>0, <1>41, NobodyGoesOn DEF vars
<1> QED
  BY <1>1, <1>2, <1>3, <1>4, <1>5, <1>6, <1>7, <1>8, <1>9, <1>10, <1>11, <1>12, <1>13,
     <1>14, <1>15, <1>16, <1>17, <1>18, <1>19, <1>20, <1>21, <1>22, <1>23, <1>24, <1>25,
     <1>26, <1>27, <1>28, <1>29, <1>30, <1>31, <1>32, <1>33, <1>34, <1>35, <1>36, <1>37,
     <1>38, <1>39, <1>40, <1>41
     DEF Next, SendStep, RunnerStep, ExitStep, StopStep

\* However often a request is dispatched again after its runner retired, failed or was
\* replaced, its input is made durable at most once, and a sender that is told so is told
\* the truth, though an append that failed may have been durable (dispatch_external,
\* handle_command, append).
THEOREM InputsAreConfirmedOnce == Spec => []ConfirmedOnce
<1>1. Init => Confirming
  <2> SUFFICES ASSUME Init PROVE Confirming
    OBVIOUS
  <2>1. \A c \in Clients : pc[c] = "start"
    BY TasksAssumption DEF Init, Procs, Senders
  <2>2. Len(queue) = 0 /\ DOMAIN inputs = {}
    BY DEF Init
  <2> QED
    BY <2>1, <2>2 DEF Confirming, QueuedOnce, Queued, Settled, ConfirmedOnce
<1>2. TypeOK /\ Confirming /\ [Next]_vars => Confirming'
  BY ConfirmingKept
<1>3. Confirming => ConfirmedOnce
  BY DEF Confirming
<1> QED
  BY <1>1, <1>2, <1>3, TypeCorrect, PTL DEF Spec

-----------------------------------------------------------------------------
(* A request sent again *)

\* Only an input the log does not know is appended to it.
LEMMA OnlyNewInputs ==
  ASSUME [Next]_vars
  PROVE  /\ UNCHANGED asked
         /\ UNCHANGED inputs \/ \E c : Known(c) = {} /\ inputs' = Append(inputs, c)
<1> USE DEF slotVars, mailVars, taskVars, logVars, vars
<1>1. ASSUME NEW p \in Senders, Submit(p) \/ SendStep(p)
      PROVE  UNCHANGED <<asked, inputs>>
  BY <1>1 DEF Submit, SendStep, Claim, Proceed, Refuse, AwaitChange, Woken, Retry, Recover,
     Dispatch, Grab, Reserve, Recheck
<1>2. ASSUME NEW r \in RunnerIds, HandleInput(r)
      PROVE  /\ UNCHANGED asked
             /\ UNCHANGED inputs \/ \E c : Known(c) = {} /\ inputs' = Append(inputs, c)
  BY <1>2 DEF HandleInput, AppendInput
<1>3. ASSUME NEW r \in RunnerIds, Fail(r)
      PROVE  /\ UNCHANGED asked
             /\ UNCHANGED inputs \/ \E c : Known(c) = {} /\ inputs' = Append(inputs, c)
  BY <1>3 DEF Fail, AppendInput, AppendFault, AppendStep
<1>4. ASSUME NEW r \in RunnerIds,
             \/ HandleDeadline(r) \/ HandleFault(r) \/ HandleStop(r) \/ Stopped(r)
             \/ Drained(r) \/ Decide(r) \/ CompleteStep(r) \/ ExitStep(r)
      PROVE  UNCHANGED <<asked, inputs>>
  BY <1>4 DEF HandleDeadline, HandleFault, HandleStop, Stopped, Drained, Decide, CompleteStep,
     ExitStep, ReadStopping, ExitIgnored, ExitIdle, ExitEnded, Complete, AppendFault, AppendStep
<1>5. ASSUME NEW p \in Procs,
             \/ p \in Stoppers /\ StopStep(p)
             \/ RecoverFails(p)
             \/ p \in Deleters /\ BeginDelete(p)
             \/ p \in Shutdowns /\ BeginShutdown(p)
      PROVE  UNCHANGED <<asked, inputs>>
  BY <1>5 DEF StopStep, RecoverFails, BeginDelete, BeginShutdown, Woken, SendStop, Join,
     CancelTools, Detach, AwaitDiscovery, StopSlot
<1>6. CASE Discover \/ Discovered \/ RebuildRunner \/ ToolEnds \/ UNCHANGED vars
  BY <1>6 DEF Discover, Discovered, RebuildRunner, ToolEnds
<1>7. CASE Next
  <2>1. CASE \E p \in Senders : Submit(p) \/ SendStep(p)
    BY <1>1, <2>1
  <2>2. CASE \E r \in RunnerIds : RunnerStep(r) \/ Fail(r) \/ ExitStep(r)
    BY <1>2, <1>3, <1>4, <2>2 DEF RunnerStep
  <2>3. Stoppers \subseteq Procs /\ Deleters \subseteq Procs /\ Shutdowns \subseteq Procs
    BY DEF Procs, Stoppers
  <2>4. CASE \/ \E p \in Stoppers : StopStep(p)
             \/ \E p \in Deleters : BeginDelete(p)
             \/ \E p \in Shutdowns : BeginShutdown(p)
             \/ \E p \in Procs : RecoverFails(p)
    <3>1. \E p \in Procs :
            \/ p \in Stoppers /\ StopStep(p)
            \/ RecoverFails(p)
            \/ p \in Deleters /\ BeginDelete(p)
            \/ p \in Shutdowns /\ BeginShutdown(p)
      BY <2>3, <2>4, Zenon
    <3> QED
      BY <1>5, <3>1, Zenon
  <2> QED
    BY <1>6, <1>7, <2>1, <2>2, <2>4 DEF Next
<1> QED
  BY <1>6, <1>7

\* A request sent again is known while its input is the last one, and for good at a
\* position in a stream, whatever failed between the two (last_input_receipt,
\* input_streams).
THEOREM RetriesAreNotNew == Spec => []RetriesAreKnown
<1>1. Init => RetriesAreKnown
  BY DEF Init, RetriesAreKnown
<1>2. ASSUME TypeOK, RetriesAreKnown, [Next]_vars
      PROVE  RetriesAreKnown'
  <2> DEFINE n == Len(inputs)
  <2>1. CASE UNCHANGED <<asked, inputs>>
    BY <1>2, <2>1 DEF RetriesAreKnown, Earlier
  <2>2. ASSUME NEW c, Known(c) = {}, inputs' = Append(inputs, c), UNCHANGED asked
        PROVE  RetriesAreKnown'
    <3>1. /\ n \in Nat /\ DOMAIN inputs = 1 .. n /\ DOMAIN inputs' = 1 .. (n + 1)
          /\ \A k \in 1 .. n : inputs'[k] = inputs[k]
          /\ inputs'[n + 1] = c
      BY <1>2, <2>2 DEF TypeOK, LogTypes
    <3>2. Placed(c) = {} /\ Receipt(c) = {}
      BY <2>2 DEF Known
    <3> SUFFICES ASSUME NEW k \in 1 .. (n + 1), NEW l \in 1 .. (n + 1), k < l,
                        Earlier(k, inputs[l])'
                 PROVE  /\ k + 1 < l
                        /\ ~(asked[inputs[k]].positioned /\ asked[inputs[l]].positioned)'
      BY <3>1 DEF RetriesAreKnown
    <3>3. k \in 1 .. n /\ inputs'[k] = inputs[k]
      BY <3>1
    <3>4. CASE l \in 1 .. n
      BY <1>2, <2>2, <3>1, <3>3, <3>4 DEF RetriesAreKnown, Earlier
    <3>5. CASE l = n + 1
      <4>1. Earlier(k, c)
        BY <2>2, <3>1, <3>3, <3>5 DEF Earlier
      <4>2. k # n
        BY <3>1, <3>2, <3>3, <4>1 DEF Receipt
      <4>3. ~(asked[inputs[k]].positioned /\ asked[c].positioned)
        BY <3>1, <3>2, <3>3, <4>1 DEF Placed
      <4> QED
        BY <2>2, <3>1, <3>3, <3>5, <4>2, <4>3
    <3> QED
      BY <3>1, <3>4, <3>5
  <2> QED
    BY <1>2, <2>1, <2>2, OnlyNewInputs
<1> QED
  BY <1>1, <1>2, TypeCorrect, PTL DEF Spec
=============================================================================
