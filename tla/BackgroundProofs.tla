---------------------------- MODULE BackgroundProofs ----------------------------
(***************************************************************************)
(* The process beside its conversations, for any events, reminders, people *)
(* and channels and any number of processes, handlers and failures: what   *)
(* is acknowledged is in the outbox, a meeting is announced once and a     *)
(* message linked once, but for the causes that are counted, what is read  *)
(* of a repository is kept, and the pages of a search add up.              *)
(***************************************************************************)
EXTENDS RelayCapture, MeetingReminders, ReactionRelay, RepositorySnapshots, SlackSearch,
        FiniteSetTheorems, SequenceTheorems, WellFoundedInduction, TLAPS

------------------------------------------------------------------------------
(* The receiver of the relay *)

\* What has nothing to be captured, or has been.
Received(e) == e \in outbox \/ extractRelayMessage(body[e]) \in {"ignore", "invalid"}

\* The memory of commits holds nothing the outbox does not, and no delivery is passed on,
\* or acknowledged, before it is received.
CaptureInv ==
  /\ delivery \in [Delivery -> [event : Event \cup {None}, pc : {"idle", "process", "persist"}]]
  /\ committed \in Seq(outbox)
  /\ \A d \in Delivery : delivery[d].pc = "process" => Received(delivery[d].event)
  /\ \A e \in acked : Received(e)

\* The key of a row in the outbox is remembered as such.
LEMMA RememberedIsCommitted ==
  ASSUME NEW S, NEW e \in S, committed \in Seq(S)
  PROVE  Remembered(e) \in Seq(S)
<1>1. Append(committed, e) \in Seq(S) /\ Append(committed, e) # <<>>
  BY AppendProperties
<1>2. \A s \in Seq(S) : s # <<>> => Tail(s) \in Seq(S)
  BY HeadTailProperties
<1>3. ASSUME NEW s \in Seq(S), Len(s) > DedupeLimit  PROVE s # <<>>
  BY <1>3, CaptureAssumption
<1> QED BY <1>1, <1>2, <1>3 DEF Remembered

\* The outbox only grows; what was received stays so, and so do the keys in it.
LEMMA OutboxGrows ==
  ASSUME CaptureInv, outbox \subseteq outbox'
  PROVE  committed \in Seq(outbox') /\ \A e : Received(e) => Received(e)'
BY DEF CaptureInv, Received

\* A delivery goes straight on only with what has been received.
LEMMA RoutedIsReceived ==
  ASSUME CaptureInv, NEW e \in Event
  PROVE  Route(e) \in {"idle", "process", "persist"} /\ (Route(e) = "process" => Received(e))
<1>1. e \in ToSet(committed) => e \in outbox
  BY DEF CaptureInv, ToSet
<1> QED BY <1>1 DEF Route, Received

\* Every action of the receiver keeps the invariant.
LEMMA CaptureKept == CaptureInv /\ [CaptureNext]_captureVars => CaptureInv'
<1> SUFFICES ASSUME CaptureInv, [CaptureNext]_captureVars  PROVE CaptureInv'
  OBVIOUS
<1> USE DEF process, slack
<1>1. ASSUME UNCHANGED <<committed, acked>>, outbox \subseteq outbox',
             delivery' \in [Delivery -> [event : Event \cup {None}, pc : {"idle", "process", "persist"}]],
             \A d \in Delivery : delivery'[d].pc = "process" => Received(delivery'[d].event)
      PROVE  CaptureInv'
  BY <1>1, OutboxGrows DEF CaptureInv, Received
<1>2. CASE UNCHANGED <<committed, acked, outbox, delivery>>
  BY <1>2 DEF CaptureInv, Received
<1>3. ASSUME Gone, outbox \subseteq outbox', UNCHANGED slack  PROVE CaptureInv'
  <2>1. \A d \in Delivery : delivery'[d] = Idle
    BY <1>3 DEF Gone
  <2>2. delivery' \in [Delivery -> [event : Event \cup {None}, pc : {"idle", "process", "persist"}]]
    BY <1>3 DEF Gone, Idle
  <2>3. committed' \in Seq(outbox')
    BY <1>3 DEF Gone
  <2>4. \A e \in acked' : Received(e)'
    BY <1>3, OutboxGrows DEF CaptureInv
  <2> QED BY <2>1, <2>2, <2>3, <2>4 DEF CaptureInv, Idle
<1>4. CASE Exit \/ Crash
  BY <1>3, <1>4 DEF Exit, Crash
<1>5. ASSUME NEW d \in Delivery, NEW e \in Event, Deliver(d, e)  PROVE CaptureInv'
  <2>1. /\ UNCHANGED <<committed, acked, outbox>>
        /\ delivery' = [delivery EXCEPT ![d] = IF Route(e) = "idle" THEN Idle
                                               ELSE [event |-> e, pc |-> Route(e)]]
    BY <1>5 DEF Deliver
  <2>2. delivery'[d] \in {Idle, [event |-> e, pc |-> Route(e)]}
        /\ \A f \in Delivery \ {d} : delivery'[f] = delivery[f]
    BY <2>1 DEF CaptureInv
  <2>3. delivery' \in [Delivery -> [event : Event \cup {None}, pc : {"idle", "process", "persist"}]]
    BY <2>1, RoutedIsReceived DEF CaptureInv, Idle
  <2>4. \A f \in Delivery : delivery'[f].pc = "process" => Received(delivery'[f].event)
    BY <2>2, RoutedIsReceived DEF CaptureInv, Idle
  <2> QED BY <1>1, <2>1, <2>3, <2>4
<1>6. ASSUME NEW d \in Delivery, Persist(d)  PROVE CaptureInv'
  <2>1. delivery[d].event \in Event \cup {None} /\ delivery' \in
          {[delivery EXCEPT ![d].pc = "process"], [delivery EXCEPT ![d] = Idle]}
    BY <1>6 DEF Persist, Refused, CaptureInv
  <2>2. delivery' \in [Delivery -> [event : Event \cup {None}, pc : {"idle", "process", "persist"}]]
    BY <2>1 DEF CaptureInv, Idle
  <2>3. outbox \subseteq outbox' /\ acked' = acked
    BY <1>6 DEF Persist
  <2>4. CASE /\ outbox' = outbox \cup {delivery[d].event} /\ committed' = Remembered(delivery[d].event)
             /\ delivery' = [delivery EXCEPT ![d].pc = "process"]
    <3>1. committed' \in Seq(outbox')
      BY <2>3, <2>4, OutboxGrows, RememberedIsCommitted
    <3>2. /\ delivery'[d].event = delivery[d].event
          /\ \A f \in Delivery \ {d} : delivery'[f] = delivery[f]
      BY <2>4 DEF CaptureInv
    <3>3. ASSUME NEW f \in Delivery, delivery'[f].pc = "process"
          PROVE  Received(delivery[f].event)'
      <4>1. CASE f = d
        BY <2>4, <3>2, <4>1 DEF Received
      <4>2. CASE f # d
        BY <2>3, <3>2, <3>3, <4>2 DEF CaptureInv, Received
      <4> QED BY <4>1, <4>2
    <3>4. \A e \in acked' : Received(e)'
      BY <2>3, OutboxGrows DEF CaptureInv
    <3> QED BY <2>2, <3>1, <3>3, <3>4 DEF CaptureInv
  <2>5. CASE committed' = committed /\ delivery' = [delivery EXCEPT ![d] = Idle]
    <3>1. \A f \in Delivery : delivery'[f].pc = "process" => Received(delivery'[f].event)
      BY <2>5 DEF CaptureInv, Idle
    <3> QED BY <1>1, <2>2, <2>3, <2>5, <3>1
  <2> QED BY <1>6, <2>4, <2>5 DEF Persist, Refused
<1>7. ASSUME NEW d \in Delivery, ProcessEvent(d)  PROVE CaptureInv'
  <2>1. /\ delivery[d].pc = "process" /\ delivery' = [delivery EXCEPT ![d] = Idle]
        /\ UNCHANGED <<committed, outbox>> /\ acked' \in {acked, acked \cup {delivery[d].event}}
    BY <1>7 DEF ProcessEvent
  <2>2. delivery' \in [Delivery -> [event : Event \cup {None}, pc : {"idle", "process", "persist"}]]
    BY <2>1 DEF CaptureInv, Idle
  <2>3. \A e \in acked' : Received(e)
    BY <2>1 DEF CaptureInv
  <2>4. \A f \in Delivery : delivery'[f].pc = "process" => Received(delivery'[f].event)
    BY <2>1 DEF CaptureInv, Idle
  <2> QED BY <2>1, <2>2, <2>3, <2>4 DEF CaptureInv, Received
<1> QED BY <1>2, <1>4, <1>5, <1>6, <1>7
        DEF CaptureNext, captureVars, Verify, StartSocket, StartDrainer, Signal, Shutdown, StopSocket,
            Closed, ClosePool, Restart, Settling

\* Slack is told that an event is received only once its row is committed, or if it has
\* none: over redeliveries, lost commits, shutdowns and crashes (capture.ts).
THEOREM AckedWasCommitted == CaptureSpec => []AckedIsDurable
<1>1. CaptureInit => CaptureInv
  BY DEF CaptureInit, CaptureInv, Idle
<1>2. CaptureInv => AckedIsDurable
  BY DEF CaptureInv, AckedIsDurable, Received
<1> QED BY <1>1, <1>2, CaptureKept, PTL DEF CaptureSpec

\* From close() on no commit begins, and those under way are awaited; none is when the
\* drainer is stopped.
ClosingInv ==
  /\ life \in {"closing", "draining", "poolClosed"} => closed /\ Persisting \subseteq awaited
  /\ life \in {"draining", "poolClosed"} => awaited = {}

\* Every action of the receiver keeps that.
LEMMA ClosingKept == CaptureInv /\ ClosingInv /\ [CaptureNext]_captureVars => ClosingInv'
<1> SUFFICES ASSUME CaptureInv, ClosingInv, [CaptureNext]_captureVars  PROVE ClosingInv'
  OBVIOUS
<1> USE DEF process, slack
<1>1. CASE Verify \/ StartSocket \/ StartDrainer \/ Signal \/ Restart \/ Exit \/ Crash
  BY <1>1 DEF Verify, StartSocket, StartDrainer, Signal, Restart, Exit, Crash, Gone, ClosingInv
<1>2. CASE StopSocket \/ Closed \/ ClosePool
  BY <1>2 DEF StopSocket, Close, Closed, ClosePool, ClosingInv, Persisting
<1>3. ASSUME NEW d \in Delivery, NEW e \in Event, Deliver(d, e)  PROVE ClosingInv'
  <2>1. /\ UNCHANGED <<life, closed, awaited>>
        /\ delivery' = [delivery EXCEPT ![d] = IF Route(e) = "idle" THEN Idle
                                               ELSE [event |-> e, pc |-> Route(e)]]
    BY <1>3 DEF Deliver
  <2>2. closed => delivery'[d].pc # "persist"
    BY <2>1 DEF CaptureInv, Route, Idle
  <2>3. closed => Persisting' \subseteq Persisting
    BY <2>1, <2>2 DEF CaptureInv, Persisting
  <2> QED BY <2>1, <2>3 DEF ClosingInv
<1>4. ASSUME NEW d \in Delivery, Persist(d)  PROVE ClosingInv'
  <2>1. /\ UNCHANGED <<life, closed>> /\ awaited' = awaited \ {d}
        /\ delivery' \in {[delivery EXCEPT ![d].pc = "process"], [delivery EXCEPT ![d] = Idle]}
    BY <1>4 DEF Persist, Refused
  <2>2. Persisting' \subseteq Persisting \ {d}
    BY <2>1 DEF CaptureInv, Persisting, Idle
  <2> QED BY <2>1, <2>2 DEF ClosingInv
<1>5. ASSUME NEW d \in Delivery, ProcessEvent(d)  PROVE ClosingInv'
  <2>1. UNCHANGED <<life, closed, awaited>> /\ delivery' = [delivery EXCEPT ![d] = Idle]
    BY <1>5 DEF ProcessEvent
  <2>2. Persisting' \subseteq Persisting
    BY <2>1 DEF CaptureInv, Persisting, Idle
  <2> QED BY <2>1, <2>2 DEF ClosingInv
<1>6. CASE UNCHANGED captureVars
  BY <1>6 DEF captureVars, ClosingInv, Persisting
<1> QED BY <1>1, <1>2, <1>3, <1>4, <1>5, <1>6 DEF CaptureNext, Shutdown, Settling

\* The pool is closed only when no commit of a captured event is under way, over events
\* that arrive during the shutdown, failed stops of the socket and crashes (index.ts); the
\* safety half of ShutdownQuiet.
THEOREM QuietWhenClosed == CaptureSpec => [](life = "poolClosed" => Persisting = {})
<1>1. CaptureInit => CaptureInv /\ ClosingInv
  BY DEF CaptureInit, CaptureInv, ClosingInv, Idle
<1>2. CaptureInv /\ ClosingInv => (life = "poolClosed" => Persisting = {})
  BY DEF ClosingInv
<1> QED BY <1>1, <1>2, CaptureKept, ClosingKept, PTL DEF CaptureSpec

------------------------------------------------------------------------------
(* The reminders of meetings *)

PollPcs == {"idle", "loop", "claim", "look", "post", "mark", "release", "ack"}
PollType == [pc : PollPcs, reminder : Reminder \cup {NoReminder}, todo : SUBSET Reminder]
RowType == [state : {"none", "claimed", "delivered"}, stale : BOOLEAN]

\* A poll that is past its loop is about a reminder.
PollTypes ==
  /\ poll \in [Poller -> PollType]
  /\ \A p \in Poller : poll[p].pc \notin {"idle", "loop"} => poll[p].reminder \in Reminder
ReminderTypes ==
  /\ due \subseteq Reminder /\ row \in [Reminder -> RowType]
  /\ posts \in [Reminder -> Nat] /\ causes \in [Reminder -> Nat]

\* Every action leaves each poller in one of its phases, on a reminder where it has one.
LEMMA PollTypesKept == PollTypes /\ due \subseteq Reminder /\ [RemindersNext]_reminderVars => PollTypes'
<1> SUFFICES ASSUME PollTypes, due \subseteq Reminder, [RemindersNext]_reminderVars  PROVE PollTypes'
  OBVIOUS
<1>1. ASSUME NEW p \in Poller, NEW x \in PollType, poll' = [poll EXCEPT ![p] = x],
             x.pc \notin {"idle", "loop"} => x.reminder \in Reminder
      PROVE  PollTypes'
  BY <1>1 DEF PollTypes
<1>2. CASE UNCHANGED poll
  BY <1>2 DEF PollTypes
<1>3. ASSUME NEW p \in Poller, NEW pc \in PollPcs, Step(p, pc), poll[p].pc \notin {"idle", "loop"}
      PROVE  PollTypes'
  <2>1. /\ [poll[p] EXCEPT !.pc = pc] \in PollType
        /\ [poll[p] EXCEPT !.pc = pc].reminder \in Reminder
    BY <1>3 DEF PollTypes, PollType
  <2>2. poll' = [poll EXCEPT ![p] = [poll[p] EXCEPT !.pc = pc]]
    BY <1>3 DEF Step, PollTypes
  <2> QED BY <1>1, <2>1, <2>2
<1>4. ASSUME NEW p \in Poller, NextReminder(p)  PROVE PollTypes'
  <2>1. /\ [poll[p] EXCEPT !.pc = "loop", !.reminder = NoReminder] \in PollType
        /\ [poll[p] EXCEPT !.pc = "loop", !.reminder = NoReminder].pc = "loop"
    BY DEF PollTypes, PollType, PollPcs
  <2>2. poll' = [poll EXCEPT ![p] = [poll[p] EXCEPT !.pc = "loop", !.reminder = NoReminder]]
    BY <1>4 DEF NextReminder, PollTypes
  <2> QED BY <1>1, <2>1, <2>2
<1>5. ASSUME NEW p \in Poller, poll' = [poll EXCEPT ![p] = Resting]  PROVE PollTypes'
  <2>1. Resting \in PollType /\ Resting.pc = "idle"
    BY DEF Resting, PollType, PollPcs
  <2> QED BY <1>1, <1>5, <2>1
<1>6. ASSUME NEW p \in Poller, Due(p)  PROVE PollTypes'
  <2>1. [pc |-> "loop", reminder |-> NoReminder, todo |-> due] \in PollType
    BY DEF PollType, PollPcs
  <2> QED BY <1>1, <1>6, <2>1 DEF Due
<1>7. ASSUME NEW p \in Poller, Take(p)  PROVE PollTypes'
  <2>1. CASE poll' = [poll EXCEPT ![p] = Resting]
    BY <1>5, <2>1
  <2>2. ASSUME NEW r \in poll[p].todo,
               poll' = [poll EXCEPT ![p] = [pc |-> "claim", reminder |-> r, todo |-> @.todo \ {r}]]
        PROVE  PollTypes'
    <3>1. poll[p].todo \subseteq Reminder
      BY DEF PollTypes, PollType
    <3>2. [pc |-> "claim", reminder |-> r, todo |-> poll[p].todo \ {r}] \in PollType
      BY <3>1 DEF PollType, PollPcs
    <3>3. poll' = [poll EXCEPT ![p] = [pc |-> "claim", reminder |-> r, todo |-> poll[p].todo \ {r}]]
      BY <2>2 DEF PollTypes
    <3> QED BY <1>1, <3>1, <3>2, <3>3
  <2> QED BY <1>7, <2>1, <2>2 DEF Take
<1>8. ASSUME NEW p \in Poller, PollStep(p) \/ CrashPoller(p)  PROVE PollTypes'
  <2>1. CASE Due(p) \/ Take(p) \/ CrashPoller(p)
    BY <1>5, <1>6, <1>7, <2>1 DEF CrashPoller
  <2>2. CASE Claim(p) \/ Look(p) \/ Post(p) \/ MarkDelivered(p) \/ Release(p) \/ Ack(p)
    <3>1. poll[p].pc \notin {"idle", "loop"}
      BY <2>2 DEF Claim, Look, Post, MarkDelivered, Release, Ack, In
    <3>2. (\E pc \in PollPcs : Step(p, pc)) \/ NextReminder(p) \/ UNCHANGED poll
      BY <2>2 DEF Claim, Look, Post, MarkDelivered, Release, Ack, PollPcs
    <3> QED BY <1>2, <1>3, <1>4, <3>1, <3>2
  <2> QED BY <1>8, <2>1, <2>2 DEF PollStep
<1> QED BY <1>2, <1>8 DEF RemindersNext, reminderVars, Expire

\* What a step about a reminder may do to its row.
LEMMA RowsStayRows ==
  ASSUME row \in [Reminder -> RowType], NEW r \in Reminder, row' = row \/ Claimed(r) \/ Marked(r) \/ Released(r)
  PROVE  row' \in [Reminder -> RowType]
<1>1. NoRow \in RowType /\ [state |-> "claimed", stale |-> FALSE] \in RowType
      /\ [state |-> "delivered", stale |-> FALSE] \in RowType
  BY Zenon DEF NoRow, RowType
<1>2. \E x \in RowType : row' = row \/ row' = [row EXCEPT ![r] = x]
  BY <1>1 DEF Claimed, Marked, Released
<1> QED BY <1>2

\* A counted cause adds one to the causes of one reminder.
LEMMA CauseType ==
  ASSUME causes \in [Reminder -> Nat], NEW r \in Reminder, Cause(r) \/ NoCause
  PROVE  causes' \in [Reminder -> Nat]
BY DEF Cause, NoCause

\* Every action keeps the rows, the counters and the list of what is due well-typed.
LEMMA ReminderTypesKept ==
  ASSUME PollTypes, ReminderTypes, [RemindersNext]_reminderVars
  PROVE  ReminderTypes'
<1> USE DEF Well, NoCause
<1>1. CASE UNCHANGED <<due, row, posts, causes>>
  BY <1>1 DEF ReminderTypes
<1>2. ASSUME NEW r \in Reminder, Expire(r)  PROVE ReminderTypes'
  <2>1. [row[r] EXCEPT !.stale = TRUE] \in RowType
    BY Zenon DEF ReminderTypes, RowType
  <2>2. row' = [row EXCEPT ![r] = [row[r] EXCEPT !.stale = TRUE]] /\ UNCHANGED <<due, posts, causes>>
    BY <1>2 DEF Expire, ReminderTypes
  <2> QED BY <2>1, <2>2 DEF ReminderTypes
<1>3. ASSUME NEW p \in Poller, NEW r \in Reminder, r = Of(p),
             Claim(p) \/ Post(p) \/ MarkDelivered(p) \/ Release(p) \/ Ack(p)
      PROVE  ReminderTypes'
  <2>1. row' = row \/ Claimed(r) \/ Marked(r) \/ Released(r)
    BY <1>3 DEF Claim, Post, MarkDelivered, Release, Ack
  <2>2. Cause(r) \/ NoCause
    BY <1>3 DEF Claim, Post, MarkDelivered, Release, Ack
  <2>3. posts' \in {posts, [posts EXCEPT ![r] = @ + 1]}
    BY <1>3 DEF Claim, Post, MarkDelivered, Release, Ack
  <2>4. due' \subseteq due
    BY <1>3 DEF Claim, Post, MarkDelivered, Release, Ack
  <2>5. posts' \in [Reminder -> Nat]
    BY <2>3 DEF ReminderTypes
  <2> QED BY <2>1, <2>2, <2>4, <2>5, RowsStayRows, CauseType DEF ReminderTypes
<1>4. ASSUME NEW p \in Poller, CrashPoller(p)  PROVE ReminderTypes'
  <2>1. Of(p) \in Reminder \cup {NoReminder}
    BY DEF PollTypes, PollType, Of
  <2>2. UNCHANGED <<due, row, posts>> /\ causes' \in [Reminder -> Nat]
    BY <1>4, <2>1, CauseType DEF CrashPoller, ReminderTypes
  <2> QED BY <2>2 DEF ReminderTypes
<1>5. ASSUME NEW p \in Poller, PollStep(p)  PROVE ReminderTypes'
  <2>1. CASE Due(p) \/ Take(p) \/ Look(p)
    BY <1>1, <2>1 DEF Due, Take, Look
  <2>2. CASE Claim(p) \/ Post(p) \/ MarkDelivered(p) \/ Release(p) \/ Ack(p)
    <3>1. Of(p) \in Reminder
      BY <2>2 DEF Claim, Post, MarkDelivered, Release, Ack, In, Of, PollTypes
    <3> QED BY <1>3, <2>2, <3>1
  <2> QED BY <1>5, <2>1, <2>2 DEF PollStep
<1> QED BY <1>1, <1>2, <1>4, <1>5 DEF RemindersNext, reminderVars

\* A process that may still post a reminder, or give its claim up.
Spends(p, r) == poll[p].reminder = r /\ poll[p].pc \in {"post", "release"}
Spending(r) == {p \in Poller : Spends(p, r)}

\* The posts of a reminder, those to come from the claims there are or may be without a
\* cause, and the causes so far.
Unclaimed(r) == IF row[r].state = "none" THEN 1 ELSE 0
PostsInv ==
  \A r \in Reminder : IsFiniteSet(Spending(r))
    /\ posts[r] + Unclaimed(r) + Cardinality(Spending(r)) <= 1 + causes[r]

\* A step of one process changes the number of those by at most itself.
LEMMA SpendingMoves ==
  ASSUME NEW r, IsFiniteSet(Spending(r)), NEW p \in Poller,
         \A q \in Poller \ {p} : poll'[q] = poll[q]
  PROVE  /\ IsFiniteSet(Spending(r)') /\ Cardinality(Spending(r)) \in Nat
         /\ Cardinality(Spending(r)') = Cardinality(Spending(r))
              + (IF Spends(p, r)' THEN 1 ELSE 0) - (IF Spends(p, r) THEN 1 ELSE 0)
<1>1. \A q \in Poller \ {p} : Spends(q, r)' <=> Spends(q, r)
  BY DEF Spends
<1>2. Cardinality(Spending(r)) \in Nat
  BY FS_CardinalityType
<1>3. CASE Spends(p, r)'
  <2>1. Spending(r)' = Spending(r) \cup {p} /\ (p \in Spending(r) <=> Spends(p, r))
    BY <1>1, <1>3 DEF Spending
  <2> QED BY <1>2, <1>3, <2>1, FS_AddElement
<1>4. CASE ~Spends(p, r)'
  <2>1. Spending(r)' = Spending(r) \ {p} /\ (p \in Spending(r) <=> Spends(p, r))
    BY <1>1, <1>4 DEF Spending
  <2> QED BY <1>2, <1>4, <2>1, FS_RemoveElement
<1> QED BY <1>3, <1>4

\* Every step of a process pays for the posts it makes, or may make, with a cause or with
\* what it could have made before.
Balance(p, r) ==
  posts'[r] + Unclaimed(r)' + (IF Spends(p, r)' THEN 1 ELSE 0) + causes[r]
    <= posts[r] + Unclaimed(r) + (IF Spends(p, r) THEN 1 ELSE 0) + causes'[r]

\* Every step of one poller leaves the balance of each reminder no worse.
LEMMA PollBalance ==
  ASSUME PollTypes, ReminderTypes, NEW p \in Poller, PollStep(p) \/ CrashPoller(p), NEW r \in Reminder
  PROVE  Balance(p, r)
<1> USE DEF Well, NoCause
<1>t. /\ posts[r] \in Nat /\ causes[r] \in Nat /\ poll[p] \in PollType
      /\ row[r].state \in {"none", "claimed", "delivered"} /\ NoReminder \notin Reminder
  BY RemindersAssumption DEF ReminderTypes, PollTypes, RowType
\* Where the process goes.
<1>g. ASSUME NEW pc, Step(p, pc)  PROVE poll'[p].pc = pc /\ poll'[p].reminder = poll[p].reminder
  BY <1>g, <1>t DEF Step, PollTypes, PollType
<1>h. ASSUME NextReminder(p) \/ poll' = [poll EXCEPT ![p] = Resting]  PROVE ~Spends(p, r)'
  BY <1>h, <1>t DEF NextReminder, Resting, Spends, PollTypes, PollType
<1>c. ASSUME Of(p) = r, Cause(r)  PROVE causes'[r] = causes[r] + 1
  BY <1>c DEF Cause, ReminderTypes
\* The steps that change no row, post or cause.
<1>1. CASE Due(p) \/ Take(p) \/ Look(p)
  <2>1. UNCHANGED <<posts, row, causes>>
    BY <1>1 DEF Due, Take, Look
  <2>2. ~Spends(p, r)'
    <3>1. CASE Due(p)
      BY <3>1, <1>t DEF Due, Spends, PollTypes
    <3>2. CASE Take(p)
      BY <3>2, <1>h, <1>t DEF Take, Spends, PollTypes
    <3>3. CASE Look(p)
      BY <3>3, <1>g, <1>h, <1>t DEF Look, Spends
    <3> QED BY <1>1, <3>1, <3>2, <3>3
  <2> QED BY <1>t, <2>1, <2>2 DEF Balance, Unclaimed
<1>2. CASE Of(p) # r /\ (Claim(p) \/ Post(p) \/ MarkDelivered(p) \/ Release(p) \/ Ack(p) \/ CrashPoller(p))
  <2>1. posts'[r] = posts[r] /\ row'[r] = row[r] /\ causes'[r] = causes[r]
    BY <1>2 DEF Claim, Claimed, Post, MarkDelivered, Marked, Release, Released, Ack, CrashPoller,
                Cause, ReminderTypes
  <2>2. (\E pc : Step(p, pc)) \/ NextReminder(p) \/ poll' = [poll EXCEPT ![p] = Resting] \/ poll' = poll
    BY <1>2 DEF Claim, Post, MarkDelivered, Release, Ack, CrashPoller
  <2>3. ~Spends(p, r)'
    BY <1>2, <1>g, <1>h, <2>2 DEF Spends, Of
  <2> QED BY <1>t, <2>1, <2>3 DEF Balance, Unclaimed
<1>3. CASE Of(p) = r /\ Claim(p)
  <2>1. poll[p].reminder = r /\ ~Spends(p, r) /\ posts' = posts
    BY <1>3 DEF Claim, In, Of, Spends
  <2>2. CASE Claimable(r) /\ Claimed(r) /\ Step(p, "post")
             /\ IF row[r].state = "claimed" /\ row[r].stale THEN Cause(r) ELSE NoCause
    <3>1. Unclaimed(r)' = 0
      BY <2>2 DEF Claimed, Unclaimed, ReminderTypes
    <3>2. causes'[r] = causes[r] \/ causes'[r] = causes[r] + 1
      BY <1>3, <1>c, <2>2
    <3>3. CASE row[r].state = "none"
      BY <1>t, <2>1, <2>2, <3>1, <3>2, <3>3 DEF Balance, Unclaimed
    <3>4. CASE row[r].state # "none"
      <4>1. causes'[r] = causes[r] + 1
        BY <1>3, <1>c, <2>2, <3>4 DEF Claimable
      <4> QED BY <1>t, <2>1, <3>1, <4>1 DEF Balance, Unclaimed
    <3> QED BY <3>3, <3>4
  <2>3. CASE Step(p, "look") /\ UNCHANGED <<causes, row>>
    BY <1>g, <1>t, <2>1, <2>3 DEF Balance, Unclaimed, Spends
  <2>4. CASE Cause(r) /\ NextReminder(p) /\ (UNCHANGED row \/ Claimed(r))
    <3>1. Unclaimed(r)' <= Unclaimed(r) /\ Unclaimed(r)' \in {0, 1} /\ Unclaimed(r) \in {0, 1}
      BY <2>4 DEF Claimed, Unclaimed, ReminderTypes
    <3> QED BY <1>3, <1>c, <1>h, <1>t, <2>1, <2>4, <3>1 DEF Balance
  <2> QED BY <1>3, <2>2, <2>3, <2>4 DEF Claim
<1>4. CASE Of(p) = r /\ Post(p)
  <2>1. Spends(p, r) /\ row' = row /\ posts'[r] \in {posts[r], posts[r] + 1}
    BY <1>4 DEF Post, In, Of, Spends, ReminderTypes
  <2>2. CASE Step(p, "mark")
    <3>1. ~Spends(p, r)' /\ causes'[r] >= causes[r] /\ causes'[r] \in Nat
      BY <1>4, <1>c, <1>g, <1>t, <2>2 DEF Post, Spends
    <3> QED BY <1>t, <2>1, <3>1 DEF Balance, Unclaimed
  <2>3. CASE Cause(r)
    <3>1. causes'[r] = causes[r] + 1
      BY <1>4, <1>c, <2>3
    <3> QED BY <1>t, <2>1, <3>1 DEF Balance, Unclaimed
  <2> QED BY <1>4, <2>2, <2>3 DEF Post
<1>5. CASE Of(p) = r /\ MarkDelivered(p)
  <2>1. ~Spends(p, r) /\ posts' = posts /\ Unclaimed(r)' <= Unclaimed(r) /\ Unclaimed(r)' \in {0, 1}
        /\ Unclaimed(r) \in {0, 1}
    BY <1>5, <1>t DEF MarkDelivered, Marked, In, Spends, Unclaimed, ReminderTypes
  <2>2. CASE Step(p, "ack") /\ causes' = causes
    BY <1>g, <1>t, <2>1, <2>2 DEF Balance, Spends
  <2>3. CASE Cause(r)
    <3>1. causes'[r] = causes[r] + 1
      BY <1>5, <1>c, <2>3
    <3> QED BY <1>t, <2>1, <3>1 DEF Balance
  <2> QED BY <1>5, <2>2, <2>3 DEF MarkDelivered
<1>6. CASE Of(p) = r /\ Release(p)
  <2>1. Spends(p, r) /\ ~Spends(p, r)' /\ posts' = posts
    BY <1>6, <1>h DEF Release, In, Of, Spends
  <2>2. Unclaimed(r)' \in {0, 1} /\ Unclaimed(r) \in {0, 1} /\ (Unclaimed(r) = 1 => Unclaimed(r)' = 1)
    BY <1>6 DEF Release, Released, Unclaimed, ReminderTypes
  <2>3. causes'[r] = causes[r] \/ causes'[r] = causes[r] + 1
    BY <1>6, <1>c DEF Release
  <2> QED BY <1>t, <2>1, <2>2, <2>3 DEF Balance
<1>7. CASE Of(p) = r /\ (Ack(p) \/ CrashPoller(p))
  <2>1. ~Spends(p, r)' /\ UNCHANGED <<row, posts>>
    BY <1>7, <1>h DEF Ack, CrashPoller
  <2>2. causes'[r] = causes[r] \/ causes'[r] = causes[r] + 1
    BY <1>7, <1>c DEF Ack, CrashPoller
  <2> QED BY <1>t, <2>1, <2>2 DEF Balance, Unclaimed
<1> QED BY <1>1, <1>2, <1>3, <1>4, <1>5, <1>6, <1>7 DEF PollStep

\* The time it takes for a claim to be stale changes nothing of this.
LEMMA PostsKept ==
  ASSUME PollTypes, ReminderTypes, ReminderTypes', PostsInv, [RemindersNext]_reminderVars
  PROVE  PostsInv'
<1> SUFFICES ASSUME NEW r \in Reminder
             PROVE  IsFiniteSet(Spending(r)')
                      /\ posts'[r] + Unclaimed(r)' + Cardinality(Spending(r)') <= 1 + causes'[r]
  BY DEF PostsInv
<1>1. /\ IsFiniteSet(Spending(r)) /\ Cardinality(Spending(r)) \in Nat
      /\ posts[r] + Unclaimed(r) + Cardinality(Spending(r)) <= 1 + causes[r]
  BY FS_CardinalityType DEF PostsInv
<1>2. /\ posts[r] \in Nat /\ causes[r] \in Nat /\ posts'[r] \in Nat /\ causes'[r] \in Nat
      /\ Unclaimed(r) \in Nat /\ Unclaimed(r)' \in Nat
  BY DEF ReminderTypes, Unclaimed
<1>3. ASSUME NEW p \in Poller, PollStep(p) \/ CrashPoller(p)
      PROVE  IsFiniteSet(Spending(r)')
               /\ posts'[r] + Unclaimed(r)' + Cardinality(Spending(r)') <= 1 + causes'[r]
  <2>1. \A q \in Poller \ {p} : poll'[q] = poll[q]
    BY <1>3 DEF PollStep, Due, Take, Claim, Look, Post, MarkDelivered, Release, Ack, CrashPoller, Step,
                NextReminder, PollTypes
  <2>2. Balance(p, r)
    BY <1>3, PollBalance
  <2>3. /\ IsFiniteSet(Spending(r)')
        /\ Cardinality(Spending(r)') = Cardinality(Spending(r))
              + (IF Spends(p, r)' THEN 1 ELSE 0) - (IF Spends(p, r) THEN 1 ELSE 0)
    BY <1>1, <2>1, SpendingMoves
  <2> QED BY <1>1, <1>2, <2>2, <2>3 DEF Balance
<1>4. CASE UNCHANGED <<poll, posts, causes>> /\ Unclaimed(r)' = Unclaimed(r)
  <2>1. Spending(r)' = Spending(r)
    BY <1>4 DEF Spending, Spends
  <2> QED BY <1>1, <1>4, <2>1
<1>5. ASSUME NEW s \in Reminder, Expire(s)
      PROVE  UNCHANGED <<poll, posts, causes>> /\ Unclaimed(r)' = Unclaimed(r)
  <2>1. UNCHANGED <<poll, posts, causes>> /\ row[s].state = "claimed"
        /\ row' = [row EXCEPT ![s].stale = TRUE]
    BY <1>5 DEF Expire
  <2>2. row'[r].state = row[r].state
    BY <2>1 DEF ReminderTypes, RowType
  <2> QED BY <2>1, <2>2 DEF Unclaimed
<1> QED BY <1>3, <1>4, <1>5 DEF RemindersNext, reminderVars, Unclaimed

\* What is marked, acknowledged or delivered has been posted.
PostedInv ==
  /\ \A r \in Reminder : r \notin due \/ row[r].state = "delivered" => posts[r] >= 1
  /\ \A p \in Poller : poll[p].pc \in {"mark", "ack"} => posts[poll[p].reminder] >= 1

\* A post is never taken back.
LEMMA PostsStay ==
  ASSUME PollTypes, ReminderTypes, [RemindersNext]_reminderVars, NEW r \in Reminder
  PROVE  posts'[r] >= posts[r]
<1>1. posts' = posts \/ \E p \in Poller : Post(p)
  BY DEF RemindersNext, reminderVars, Expire, PollStep, Due, Take, Claim, Look, MarkDelivered,
         Release, Ack, CrashPoller
<1>2. ASSUME NEW p \in Poller, Post(p)  PROVE posts'[r] >= posts[r]
  <2>1. posts' \in {posts, [posts EXCEPT ![Of(p)] = @ + 1]}
    BY <1>2 DEF Post
  <2> QED BY <2>1 DEF ReminderTypes
<1> QED BY <1>1, <1>2 DEF ReminderTypes

\* A reminder that is acknowledged, or whose row says delivered, has been posted.
LEMMA PostedKept ==
  ASSUME PollTypes, PollTypes', ReminderTypes, ReminderTypes', PostedInv, [RemindersNext]_reminderVars
  PROVE  PostedInv'
<1> USE DEF Well, NoCause
<1>p. \A r \in Reminder : posts[r] \in Nat /\ posts'[r] \in Nat /\ posts'[r] >= posts[r]
  BY PostsStay DEF ReminderTypes
\* The step of one process, of which one has to see where it goes and what it writes.
<1>1. ASSUME NEW p \in Poller, PollStep(p) \/ CrashPoller(p),
             \A r \in Reminder : (r \notin due' /\ r \in due) \/ (row'[r].state = "delivered" /\ row[r].state # "delivered")
                => posts'[r] >= 1,
             poll'[p].pc \in {"mark", "ack"} => posts'[poll'[p].reminder] >= 1
      PROVE  PostedInv'
  <2>1. \A q \in Poller \ {p} : poll'[q] = poll[q]
    BY <1>1 DEF PollStep, Due, Take, Claim, Look, Post, MarkDelivered, Release, Ack, CrashPoller, Step,
                NextReminder, PollTypes
  <2>2. ASSUME NEW q \in Poller, poll'[q].pc \in {"mark", "ack"}  PROVE posts'[poll'[q].reminder] >= 1
    <3>1. CASE q = p
      BY <1>1, <2>2, <3>1
    <3>2. CASE q # p
      BY <1>p, <2>1, <2>2, <3>2 DEF PostedInv, PollTypes
    <3> QED BY <3>1, <3>2
  <2> QED BY <1>1, <1>p, <2>2 DEF PostedInv
<1>g. ASSUME NEW p \in Poller, NEW pc, Step(p, pc)
      PROVE  poll'[p].pc = pc /\ poll'[p].reminder = poll[p].reminder
  BY <1>g DEF Step, PollTypes, PollType
<1>h. ASSUME NEW p \in Poller, NextReminder(p) \/ poll' = [poll EXCEPT ![p] = Resting]
      PROVE  poll'[p].pc \notin {"mark", "ack"}
  BY <1>h DEF NextReminder, Resting, PollTypes, PollType
<1>2. ASSUME NEW p \in Poller, PollStep(p) \/ CrashPoller(p)  PROVE PostedInv'
  <2>1. CASE Due(p) \/ Take(p) \/ CrashPoller(p)
    <3>1. UNCHANGED <<due, row>>
      BY <2>1 DEF Due, Take, CrashPoller
    <3>2. poll'[p].pc \notin {"mark", "ack"}
      BY <1>h, <2>1 DEF Due, Take, CrashPoller, PollTypes
    <3> QED BY <1>1, <1>2, <3>1, <3>2
  <2>2. CASE Claim(p)
    <3>1. due' = due /\ \A r \in Reminder : row'[r].state = "delivered" => row[r].state = "delivered"
      BY <2>2 DEF Claim, Claimed, ReminderTypes
    <3>2. poll'[p].pc \notin {"mark", "ack"}
      BY <1>g, <1>h, <2>2 DEF Claim
    <3> QED BY <1>1, <1>2, <3>1, <3>2
  <2>3. CASE Look(p)
    <3>1. UNCHANGED <<due, row, posts>> /\ Of(p) \in Reminder
      BY <2>3 DEF Look, In, Of, PollTypes
    <3>2. poll'[p].pc \in {"mark", "ack"} => posts'[poll'[p].reminder] >= 1
      BY <1>g, <1>h, <2>3, <3>1 DEF Look, PostedInv, Of
    <3> QED BY <1>1, <1>2, <3>1, <3>2
  <2>4. CASE Post(p)
    <3>1. UNCHANGED <<due, row>> /\ Of(p) \in Reminder /\ poll[p].pc = "post"
      BY <2>4 DEF Post, In, Of, PollTypes
    <3>2. poll'[p].pc \in {"mark", "ack"} => Step(p, "mark") /\ posts' = [posts EXCEPT ![Of(p)] = @ + 1]
      BY <1>g, <2>4, <3>1 DEF Post
    <3>3. poll'[p].pc \in {"mark", "ack"} => posts'[poll'[p].reminder] >= 1
      BY <1>g, <1>p, <3>1, <3>2 DEF Of, ReminderTypes
    <3> QED BY <1>1, <1>2, <3>1, <3>3
  <2>5. CASE MarkDelivered(p)
    <3>1. UNCHANGED <<due, posts>> /\ Of(p) \in Reminder /\ posts[Of(p)] >= 1
      BY <2>5 DEF MarkDelivered, In, Of, PollTypes, PostedInv
    <3>2. \A r \in Reminder : r # Of(p) => row'[r] = row[r]
      BY <2>5 DEF MarkDelivered, Marked, ReminderTypes
    <3>3. poll'[p].reminder = Of(p)
      BY <1>g, <2>5 DEF MarkDelivered, Of
    <3> QED BY <1>1, <1>2, <3>1, <3>2, <3>3
  <2>6. CASE Release(p)
    <3>1. due' = due /\ \A r \in Reminder : row'[r].state = "delivered" => row[r].state = "delivered"
      BY <2>6 DEF Release, Released, NoRow, ReminderTypes
    <3>2. poll'[p].pc \notin {"mark", "ack"}
      BY <1>h, <2>6 DEF Release
    <3> QED BY <1>1, <1>2, <3>1, <3>2
  <2>7. CASE Ack(p)
    <3>1. UNCHANGED <<row, posts>> /\ due' \in {due, due \ {Of(p)}} /\ posts[Of(p)] >= 1
      BY <2>7 DEF Ack, In, Of, PostedInv
    <3>2. poll'[p].pc \notin {"mark", "ack"}
      BY <1>h, <2>7 DEF Ack
    <3> QED BY <1>1, <1>2, <3>1, <3>2
  <2> QED BY <1>2, <2>1, <2>2, <2>3, <2>4, <2>5, <2>6, <2>7 DEF PollStep
<1>3. ASSUME NEW r \in Reminder, Expire(r)  PROVE PostedInv'
  <2>1. UNCHANGED <<due, poll, posts>> /\ \A s \in Reminder : row'[s].state = row[s].state
    BY <1>3 DEF Expire, ReminderTypes, RowType
  <2> QED BY <2>1 DEF PostedInv
<1>4. CASE UNCHANGED reminderVars
  BY <1>4 DEF reminderVars, PostedInv
<1> QED BY <1>2, <1>3, <1>4 DEF RemindersNext

\* Every post of a reminder after the first has a cause, a failure or a claim taken over
\* when stale, and Radar is told of none that is not posted (meeting-reminders.ts).
THEOREM RemindedForCause == RemindersSpec => []RemindedOnce
<1> DEFINE Inv == PollTypes /\ ReminderTypes /\ PostsInv /\ PostedInv
<1>1. RemindersInit => Inv
  <2> SUFFICES ASSUME RemindersInit PROVE Inv
    OBVIOUS
  <2>1. Resting \in PollType /\ NoRow \in RowType
    BY Zenon DEF Resting, NoRow, PollType, PollPcs, RowType
  <2>2. PollTypes /\ ReminderTypes /\ PostedInv
    BY <2>1 DEF RemindersInit, PollTypes, ReminderTypes, PostedInv, Resting, NoRow
  <2>3. \A r \in Reminder : Spending(r) = {}
    BY DEF RemindersInit, Spending, Spends, Resting
  <2>4. ASSUME NEW r \in Reminder
        PROVE  IsFiniteSet(Spending(r))
                 /\ posts[r] + Unclaimed(r) + Cardinality(Spending(r)) <= 1 + causes[r]
    <3>1. posts[r] = 0 /\ causes[r] = 0 /\ Unclaimed(r) = 1
      BY DEF RemindersInit, Unclaimed, NoRow
    <3>2. IsFiniteSet(Spending(r)) /\ Cardinality(Spending(r)) = 0
      BY <2>3, FS_EmptySet
    <3> QED BY <3>1, <3>2
  <2> QED BY <2>2, <2>4 DEF PostsInv
<1>2. Inv /\ [RemindersNext]_reminderVars => Inv'
  <2> SUFFICES ASSUME Inv, [RemindersNext]_reminderVars PROVE Inv'
    OBVIOUS
  <2>1. PollTypes' /\ ReminderTypes'
    BY PollTypesKept, ReminderTypesKept DEF ReminderTypes
  <2> QED BY <2>1, PostsKept, PostedKept
<1>3. Inv => RemindedOnce
  <2> SUFFICES ASSUME Inv, NEW r \in Reminder
               PROVE  (r \notin due => posts[r] >= 1) /\ posts[r] <= 1 + causes[r]
    BY DEF RemindedOnce
  <2>1. Cardinality(Spending(r)) \in Nat /\ Unclaimed(r) \in Nat /\ posts[r] \in Nat /\ causes[r] \in Nat
    BY FS_CardinalityType DEF PostsInv, Unclaimed, ReminderTypes
  <2> QED BY <2>1 DEF PostsInv, PostedInv
<1> QED BY <1>1, <1>2, <1>3, PTL DEF RemindersSpec

------------------------------------------------------------------------------
(* The relay of reactions *)

ReactionTypes ==
  /\ handler \in [Handler -> [pc : {"idle", "get", "link", "relay"}, next : Nat]]
  /\ pending \in [User -> Nat] /\ relayed \in [1 .. Len(Channels) -> Nat]
  /\ excuses \in Nat /\ Len(Channels) \in Nat

\* The events to come, one by one, and the handlers that ask, or will link the message in c.
Owed == {o \in User \X (Nat \ {0}) : o[2] <= pending[o[1]]}
Asking == {h \in Handler : handler[h].pc = "get"}
Linking(c) == {h \in Handler : handler[h].pc \in {"link", "relay"} /\ handler[h].next <= c}
Finite == IsFiniteSet(Owed) /\ IsFiniteSet(Asking) /\ IsFiniteSet(reactors)

\* Whoever links the message has asked while at most one had reacted, or has an excuse:
\* an event is owed to one who reacts now, or has withdrawn.
\* r links and l that follow, a that ask and o events owed, for x excuses and n who react.
Fits(r, l, a, o, x, n) == r + l <= 1 + x /\ r + l + a + o <= x + n
Counted(c) ==
  /\ IsFiniteSet(Linking(c))
  /\ Fits(relayed[c], Cardinality(Linking(c)), Cardinality(Asking), Cardinality(Owed),
          excuses, Cardinality(reactors))
ReactionInv == Finite /\ \A c \in 1 .. Len(Channels) : Counted(c)

\* Every action keeps the handlers, the events and the counters well-typed.
LEMMA ReactionTypesKept ==
  ASSUME ReactionTypes, [ReactionNext]_reactionVars
  PROVE  ReactionTypes'
<1> USE DEF Works, Excused, Fails, slackMessage
<1>1. handler' \in [Handler -> [pc : {"idle", "get", "link", "relay"}, next : Nat]]
  <2>1. ASSUME NEW h \in Handler, NEW pc \in {"get", "link", "relay"}, Leave(h) \/ Goto(h, pc) \/ Advance(h)
        PROVE  handler' \in [Handler -> [pc : {"idle", "get", "link", "relay"}, next : Nat]]
    <3>1. handler[h] \in [pc : {"idle", "get", "link", "relay"}, next : Nat]
      BY DEF ReactionTypes
    <3>2. /\ Waiting \in [pc : {"idle", "get", "link", "relay"}, next : Nat]
          /\ [handler[h] EXCEPT !.pc = pc] \in [pc : {"idle", "get", "link", "relay"}, next : Nat]
          /\ [handler[h] EXCEPT !.next = @ + 1] \in [pc : {"idle", "get", "link", "relay"}, next : Nat]
      BY <3>1 DEF Waiting
    <3>3. \E x \in [pc : {"idle", "get", "link", "relay"}, next : Nat] : handler' = [handler EXCEPT ![h] = x]
      BY <2>1, <3>2, Zenon DEF Leave, Goto, Advance
    <3> QED BY <3>3 DEF ReactionTypes
  <2>2. handler' = handler \/ \E h \in Handler, pc \in {"get", "link", "relay"} :
          Leave(h) \/ Goto(h, pc) \/ Advance(h)
    BY DEF ReactionNext, reactionVars, Backfill, Register, React, Withdraw, Dispatch, Get,
           buildPermalink, relayToOne
  <2> QED BY <2>1, <2>2 DEF ReactionTypes
<1>2. pending' \in [User -> Nat]
  <2>1. \/ pending' = pending
        \/ \E u \in User : pending' = [pending EXCEPT ![u] = @ + 1]
        \/ \E u \in User : pending[u] > 0 /\ pending' = [pending EXCEPT ![u] = @ - 1]
    BY DEF ReactionNext, reactionVars, Backfill, Register, React, Withdraw, Dispatch, Get,
           buildPermalink, relayToOne
  <2> QED BY <2>1 DEF ReactionTypes
<1>3. relayed' \in [1 .. Len(Channels) -> Nat]
  <2>1. relayed' = relayed \/ \E h \in Handler : relayed' = [relayed EXCEPT ![handler[h].next] = @ + 1]
    BY DEF ReactionNext, reactionVars, Backfill, Register, React, Withdraw, Dispatch, Get,
           buildPermalink, relayToOne
  <2> QED BY <2>1 DEF ReactionTypes
<1>4. excuses' \in Nat
  <2>1. excuses' \in {excuses, excuses + 1}
    BY DEF ReactionNext, reactionVars, Backfill, Register, React, Withdraw, Dispatch, Get,
           buildPermalink, relayToOne
  <2> QED BY <2>1 DEF ReactionTypes
<1> QED BY <1>1, <1>2, <1>3, <1>4 DEF ReactionTypes

\* A set that changes by one element at most.
LEMMA OneMoves ==
  ASSUME NEW S, NEW T, NEW x, IsFiniteSet(S), S \ {x} = T \ {x}
  PROVE  /\ IsFiniteSet(T) /\ Cardinality(S) \in Nat /\ Cardinality(T) \in Nat
         /\ Cardinality(T) = Cardinality(S) + (IF x \in T THEN 1 ELSE 0) - (IF x \in S THEN 1 ELSE 0)
<1>1. Cardinality(S) \in Nat
  BY FS_CardinalityType
<1>2. CASE x \in T
  <2>1. T = S \cup {x}
    BY <1>2
  <2> QED BY <1>1, <1>2, <2>1, FS_AddElement, FS_CardinalityType
<1>3. CASE x \notin T
  <2>1. T = S \ {x}
    BY <1>3
  <2> QED BY <1>1, <1>3, <2>1, FS_RemoveElement, FS_CardinalityType
<1> QED BY <1>2, <1>3

\* A step of one handler moves only itself.
LEMMA HandlerMoves ==
  ASSUME Finite, NEW h \in Handler, \A g \in Handler \ {h} : handler'[g] = handler[g]
  PROVE  /\ IsFiniteSet(Asking')
         /\ Cardinality(Asking') = Cardinality(Asking)
              + (IF h \in Asking' THEN 1 ELSE 0) - (IF h \in Asking THEN 1 ELSE 0)
         /\ \A c : IsFiniteSet(Linking(c)) =>
              /\ IsFiniteSet(Linking(c)')
              /\ Cardinality(Linking(c)') = Cardinality(Linking(c))
                   + (IF h \in Linking(c)' THEN 1 ELSE 0) - (IF h \in Linking(c) THEN 1 ELSE 0)
<1>1. Asking \ {h} = Asking' \ {h}
  BY DEF Asking
<1>2. ASSUME NEW c  PROVE Linking(c) \ {h} = Linking(c)' \ {h}
  BY DEF Linking
<1>3. IsFiniteSet(Asking') /\ Cardinality(Asking') = Cardinality(Asking)
              + (IF h \in Asking' THEN 1 ELSE 0) - (IF h \in Asking THEN 1 ELSE 0)
  BY <1>1, OneMoves DEF Finite
<1>4. ASSUME NEW c, IsFiniteSet(Linking(c))
      PROVE  IsFiniteSet(Linking(c)') /\ Cardinality(Linking(c)') = Cardinality(Linking(c))
              + (IF h \in Linking(c)' THEN 1 ELSE 0) - (IF h \in Linking(c) THEN 1 ELSE 0)
  BY <1>2, <1>4, OneMoves
<1> QED BY <1>3, <1>4

\* An event that comes or is taken.
LEMMA OwedMoves ==
  ASSUME ReactionTypes, Finite, NEW u \in User
  PROVE  /\ pending' = [pending EXCEPT ![u] = @ + 1] =>
              IsFiniteSet(Owed') /\ Cardinality(Owed') = Cardinality(Owed) + 1
         /\ pending[u] > 0 /\ pending' = [pending EXCEPT ![u] = @ - 1] =>
              IsFiniteSet(Owed') /\ Cardinality(Owed') = Cardinality(Owed) - 1
<1>1. ASSUME pending' = [pending EXCEPT ![u] = @ + 1]
      PROVE  IsFiniteSet(Owed') /\ Cardinality(Owed') = Cardinality(Owed) + 1
  <2>1. pending[u] \in Nat
    BY DEF ReactionTypes
  <2>2. PICK y : y = <<u, pending[u] + 1>>
    OBVIOUS
  <2>3. y \notin Owed /\ y \in Owed' /\ Owed \ {y} = Owed' \ {y}
    BY <1>1, <2>1, <2>2 DEF Owed, ReactionTypes
  <2> QED BY <2>3, OneMoves DEF Finite
<1>2. ASSUME pending[u] > 0, pending' = [pending EXCEPT ![u] = @ - 1]
      PROVE  IsFiniteSet(Owed') /\ Cardinality(Owed') = Cardinality(Owed) - 1
  <2>1. pending[u] \in Nat
    BY DEF ReactionTypes
  <2>2. PICK y : y = <<u, pending[u]>>
    OBVIOUS
  <2>3. y \in Owed /\ y \notin Owed' /\ Owed \ {y} = Owed' \ {y}
    BY <1>2, <2>1, <2>2 DEF Owed, ReactionTypes
  <2> QED BY <2>3, OneMoves DEF Finite
<1> QED BY <1>1, <1>2

\* The numbers of a state.
LEMMA Counts ==
  ASSUME ReactionTypes, ReactionInv, NEW c \in 1 .. Len(Channels)
  PROVE  /\ Cardinality(Linking(c)) \in Nat /\ Cardinality(Asking) \in Nat /\ Cardinality(Owed) \in Nat
         /\ Cardinality(reactors) \in Nat /\ relayed[c] \in Nat /\ excuses \in Nat
BY FS_CardinalityType DEF ReactionTypes, ReactionInv, Finite, Counted

\* What a step may do to the numbers.
LEMMA FitsMoves ==
  ASSUME NEW r \in Nat, NEW l \in Nat, NEW a \in Nat, NEW o \in Nat, NEW x \in Nat, NEW n \in Nat,
         Fits(r, l, a, o, x, n)
  PROVE  /\ Fits(r, l, a, o + 1, x, n + 1) /\ Fits(r, l, a, o, x + 1, n - 1)
         /\ Fits(r, l, a, o - 1, x, n) /\ Fits(r, l, a + 1, o - 1, x, n)
         /\ Fits(r, l, a, o, x + 1, n) /\ Fits(r, l, a + 1, o, x + 1, n)
         /\ Fits(r, l, a - 1, o, x, n) /\ Fits(r, l, a - 1, o, x + 1, n)
         /\ Fits(r, l + 1, a - 1, o, x + 1, n)
         /\ a >= 1 /\ ~(n > 1) => Fits(r, l + 1, a - 1, o, x, n)
         /\ Fits(r, l - 1, a, o, x, n) /\ Fits(r, l - 1, a, o, x + 1, n)
         /\ Fits(r + 1, l - 1, a, o, x, n) /\ Fits(r + 1, l - 1, a, o, x + 1, n)
         /\ Fits(r + 1, l, a, o, x + 1, n)
BY DEF Fits

\* The same for the numbers of a state.
LEMMA StateMoves ==
  ASSUME ReactionTypes, ReactionInv, NEW c \in 1 .. Len(Channels),
         NEW r, NEW l, NEW a, NEW o, NEW x, NEW n,
         r = relayed[c], l = Cardinality(Linking(c)), a = Cardinality(Asking),
         o = Cardinality(Owed), x = excuses, n = Cardinality(reactors)
  PROVE  /\ r \in Nat /\ l \in Nat /\ a \in Nat /\ o \in Nat /\ x \in Nat /\ n \in Nat
         /\ Fits(r, l, a, o, x, n)
BY Counts DEF ReactionInv, Counted

\* People react and withdraw.
LEMMA PeopleKeep ==
  ASSUME ReactionTypes, ReactionInv, NEW u \in User, React(u) \/ Withdraw(u)
  PROVE  ReactionInv'
<1>1. UNCHANGED <<handler, relayed>>
  BY DEF React, Withdraw
<1>2. Asking' = Asking /\ \A c : Linking(c)' = Linking(c)
  BY <1>1 DEF Asking, Linking
<1>3. IsFiniteSet(reactors) /\ IsFiniteSet(Owed) /\ IsFiniteSet(Asking) /\ Cardinality(reactors) \in Nat
  BY FS_CardinalityType DEF ReactionInv, Finite
<1>4. CASE React(u)
  <2>1. /\ IsFiniteSet(Owed') /\ Cardinality(Owed') = Cardinality(Owed) + 1
        /\ excuses' = excuses
    BY <1>4, OwedMoves DEF React, ReactionInv
  <2>2. IsFiniteSet(reactors') /\ Cardinality(reactors') = Cardinality(reactors) + 1
    BY <1>3, <1>4, FS_AddElement DEF React
  <2>3. ASSUME NEW c \in 1 .. Len(Channels)  PROVE Counted(c)'
    <3>1. Fits(relayed[c], Cardinality(Linking(c)), Cardinality(Asking), Cardinality(Owed) + 1,
               excuses, Cardinality(reactors) + 1)
      BY StateMoves, FitsMoves
    <3>2. IsFiniteSet(Linking(c))
      BY DEF ReactionInv, Counted
    <3> QED BY <1>1, <1>2, <2>1, <2>2, <3>1, <3>2 DEF Counted
  <2> QED BY <1>2, <1>3, <2>1, <2>2, <2>3 DEF ReactionInv, Finite
<1>5. CASE Withdraw(u)
  <2>1. Owed' = Owed /\ excuses' = excuses + 1
    BY <1>5 DEF Withdraw, Excused, Owed
  <2>2. IsFiniteSet(reactors') /\ Cardinality(reactors') = Cardinality(reactors) - 1
    BY <1>3, <1>5, FS_RemoveElement DEF Withdraw
  <2>3. ASSUME NEW c \in 1 .. Len(Channels)  PROVE Counted(c)'
    <3>1. Fits(relayed[c], Cardinality(Linking(c)), Cardinality(Asking), Cardinality(Owed),
               excuses + 1, Cardinality(reactors) - 1)
      BY StateMoves, FitsMoves
    <3>2. IsFiniteSet(Linking(c))
      BY DEF ReactionInv, Counted
    <3> QED BY <1>1, <1>2, <2>1, <2>2, <3>1, <3>2 DEF Counted
  <2> QED BY <1>2, <1>3, <2>1, <2>2, <2>3 DEF ReactionInv, Finite
<1> QED BY <1>4, <1>5

\* A step of a handler.
LEMMA HandlersKeep ==
  ASSUME ReactionTypes, ReactionTypes', ReactionInv, NEW h \in Handler,
         Get(h) \/ buildPermalink(h) \/ relayToOne(h) \/ \E u \in User : Dispatch(h, u)
  PROVE  ReactionInv'
<1> USE DEF Works, Excused, Fails, slackMessage
<1> DEFINE L(c) == Cardinality(Linking(c))
           A == Cardinality(Asking)
           O == Cardinality(Owed)
           N == Cardinality(reactors)
<1>1. \A g \in Handler \ {h} : handler'[g] = handler[g]
  BY DEF Get, buildPermalink, relayToOne, Dispatch, Goto, Leave, Advance, ReactionTypes
<1>2. /\ IsFiniteSet(Asking')
      /\ Cardinality(Asking') = Cardinality(Asking)
           + (IF h \in Asking' THEN 1 ELSE 0) - (IF h \in Asking THEN 1 ELSE 0)
      /\ \A c \in 1 .. Len(Channels) :
           /\ IsFiniteSet(Linking(c)')
           /\ Cardinality(Linking(c)') = Cardinality(Linking(c))
                + (IF h \in Linking(c)' THEN 1 ELSE 0) - (IF h \in Linking(c) THEN 1 ELSE 0)
  BY <1>1, HandlerMoves DEF ReactionInv, Counted
<1>3. reactors' = reactors
  BY DEF Get, buildPermalink, relayToOne, Dispatch
<1>4. ASSUME NEW c \in 1 .. Len(Channels)
      PROVE  /\ IsFiniteSet(Linking(c)') /\ L(c) \in Nat /\ A \in Nat
             /\ Fits(relayed'[c], Cardinality(Linking(c)'), Cardinality(Asking'), Cardinality(Owed'), excuses', N)
                  => Counted(c)'
  BY <1>2, <1>3, Counts DEF Counted
\* Where the handler goes.
<1>g. ASSUME NEW pc, Goto(h, pc)  PROVE handler'[h].pc = pc /\ handler'[h].next = handler[h].next
  BY <1>g DEF Goto, ReactionTypes
<1>h. ASSUME Leave(h)  PROVE handler'[h].pc = "idle"
  BY <1>h DEF Leave, Waiting, ReactionTypes
<1>5. ASSUME NEW u \in User, Dispatch(h, u)  PROVE ReactionInv'
  <2>1. /\ h \notin Asking /\ relayed' = relayed
        /\ \A c \in 1 .. Len(Channels) : h \notin Linking(c) /\ h \notin Linking(c)'
    BY <1>5, <1>g DEF Dispatch, Linking, Asking
  <2>2. ASSUME NEW c \in 1 .. Len(Channels)
        PROVE  Cardinality(Linking(c)') = L(c) /\ Cardinality(Asking') \in {A, A + 1}
    BY <1>2, <1>4, <2>1
  <2>3. CASE pending' = [pending EXCEPT ![u] = @ - 1] /\ excuses' = excuses
    <3>1. IsFiniteSet(Owed') /\ Cardinality(Owed') = O - 1
      BY <1>5, <2>3, OwedMoves DEF Dispatch, ReactionInv
    <3>2. ASSUME NEW c \in 1 .. Len(Channels)  PROVE Counted(c)'
      <4>1. Fits(relayed[c], L(c), A, O - 1, excuses, N) /\ Fits(relayed[c], L(c), A + 1, O - 1, excuses, N)
        BY StateMoves, FitsMoves
      <4> QED BY <1>4, <2>1, <2>2, <2>3, <3>1, <4>1
    <3> QED BY <1>2, <1>3, <3>1, <3>2 DEF ReactionInv, Finite
  <2>4. CASE pending' = pending /\ excuses' = excuses + 1
    <3>1. Owed' = Owed
      BY <2>4 DEF Owed
    <3>2. ASSUME NEW c \in 1 .. Len(Channels)  PROVE Counted(c)'
      <4>1. Fits(relayed[c], L(c), A, O, excuses + 1, N) /\ Fits(relayed[c], L(c), A + 1, O, excuses + 1, N)
        BY StateMoves, FitsMoves
      <4> QED BY <1>4, <2>1, <2>2, <2>4, <3>1, <4>1
    <3> QED BY <1>2, <1>3, <3>1, <3>2 DEF ReactionInv, Finite
  <2> QED BY <1>5, <2>3, <2>4 DEF Dispatch
<1>6. CASE Get(h) \/ buildPermalink(h) \/ relayToOne(h)
  <2>1. Owed' = Owed
    BY <1>6 DEF Get, buildPermalink, relayToOne, Owed
  <2>2. ASSUME NEW c \in 1 .. Len(Channels)  PROVE Counted(c)'
    <3>. DEFINE Next(r, l, a, x) == Fits(r, l, a, O, x, N)
    <3>1. CASE Get(h)
      <4>1. h \in Asking /\ h \notin Asking' /\ h \notin Linking(c) /\ relayed' = relayed
        BY <1>g, <1>h, <3>1 DEF Get, Asking, Linking
      <4>2. Cardinality(Asking') = A - 1 /\ Cardinality(Linking(c)') \in {L(c), L(c) + 1}
        <5>1. Cardinality(Asking') = A - 1
          BY <1>2, <1>4, <4>1
        <5>2. Cardinality(Linking(c)') = L(c) + (IF h \in Linking(c)' THEN 1 ELSE 0)
          BY <1>2, <1>4, <4>1
        <5> QED BY <1>4, <5>1, <5>2
      <4>3. CASE excuses' = excuses + 1
        <5>1. Next(relayed[c], L(c), A - 1, excuses + 1) /\ Next(relayed[c], L(c) + 1, A - 1, excuses + 1)
          BY StateMoves, FitsMoves
        <5> QED BY <1>4, <2>1, <4>1, <4>2, <4>3, <5>1
      <4>4. CASE excuses' = excuses /\ h \notin Linking(c)'
        <5>1. Next(relayed[c], L(c), A - 1, excuses)
          BY StateMoves, FitsMoves
        <5>2. Cardinality(Linking(c)') = L(c)
          BY <1>2, <1>4, <4>1, <4>4
        <5> QED BY <1>4, <2>1, <4>1, <4>2, <4>4, <5>1, <5>2
      <4>5. CASE excuses' = excuses /\ h \in Linking(c)' /\ ~AlreadyThere
        <5>1. A >= 1
          <6>1. Asking # {} /\ IsFiniteSet(Asking)
            BY <4>1 DEF ReactionInv, Finite
          <6> QED BY <1>4, <6>1, FS_EmptySet
        <5>2. Next(relayed[c], L(c) + 1, A - 1, excuses)
          BY <4>5, <5>1, StateMoves, FitsMoves DEF AlreadyThere
        <5>3. Cardinality(Linking(c)') = L(c) + 1
          BY <1>2, <1>4, <4>1, <4>5
        <5> QED BY <1>4, <2>1, <4>1, <4>2, <4>5, <5>2, <5>3
      <4>6. Leave(h) => h \notin Linking(c)'
        BY <1>h DEF Linking
      <4> QED BY <3>1, <4>3, <4>4, <4>5, <4>6 DEF Get
    <3>2. CASE buildPermalink(h)
      <4>1. /\ h \notin Asking /\ h \notin Asking' /\ (h \in Linking(c)' => h \in Linking(c))
            /\ relayed' = relayed /\ excuses' = excuses
        BY <1>g, <1>h, <3>2 DEF buildPermalink, Asking, Linking
      <4>2. Cardinality(Asking') = A /\ Cardinality(Linking(c)') \in {L(c), L(c) - 1}
        BY <1>2, <1>4, <4>1
      <4>3. Next(relayed[c], L(c), A, excuses) /\ Next(relayed[c], L(c) - 1, A, excuses)
        BY StateMoves, FitsMoves
      <4> QED BY <1>4, <2>1, <4>1, <4>2, <4>3
    <3>3. CASE relayToOne(h)
      <4>1. h \notin Asking /\ handler[h].pc = "relay" /\ handler[h].next \in Nat
        BY <3>3 DEF relayToOne, Asking, ReactionTypes
      <4>2. CASE Advance(h)
        <5>1. \/ handler'[h].pc = "idle" /\ handler[h].next = Len(Channels)
              \/ /\ handler'[h].pc = "relay" /\ handler'[h].next = handler[h].next + 1
          BY <1>h, <4>1, <4>2 DEF Advance, ReactionTypes
        <5>2. h \notin Asking'
          BY <5>1 DEF Asking
        <5>3. Cardinality(Asking') = A
          BY <1>2, <1>4, <4>1, <5>2
        <5>4. CASE handler[h].next = c
          <6>1. h \in Linking(c) /\ h \notin Linking(c)'
            BY <4>1, <5>1, <5>4 DEF Linking
          <6>2. Cardinality(Linking(c)') = L(c) - 1
            BY <1>2, <1>4, <6>1
          <6>3. relayed'[c] \in {relayed[c], relayed[c] + 1} /\ excuses' \in {excuses, excuses + 1}
            BY <3>3, <5>4 DEF relayToOne, ReactionTypes
          <6>4. /\ Next(relayed[c], L(c) - 1, A, excuses) /\ Next(relayed[c], L(c) - 1, A, excuses + 1)
                /\ Next(relayed[c] + 1, L(c) - 1, A, excuses) /\ Next(relayed[c] + 1, L(c) - 1, A, excuses + 1)
            BY StateMoves, FitsMoves
          <6> QED BY <1>4, <2>1, <5>3, <6>2, <6>3, <6>4
        <5>5. CASE handler[h].next # c
          <6>1. h \in Linking(c)' => h \in Linking(c)
            BY <4>1, <5>1 DEF Linking
          <6>2. Cardinality(Linking(c)') \in {L(c), L(c) - 1}
            BY <1>2, <1>4, <6>1
          <6>3. relayed'[c] = relayed[c] /\ excuses' \in {excuses, excuses + 1}
            BY <3>3, <5>5 DEF relayToOne, ReactionTypes
          <6>4. /\ Next(relayed[c], L(c), A, excuses) /\ Next(relayed[c], L(c), A, excuses + 1)
                /\ Next(relayed[c], L(c) - 1, A, excuses) /\ Next(relayed[c], L(c) - 1, A, excuses + 1)
            BY StateMoves, FitsMoves
          <6> QED BY <1>4, <2>1, <5>3, <6>2, <6>3, <6>4
        <5> QED BY <5>4, <5>5
      <4>3. CASE handler' = handler /\ excuses' = excuses + 1
        <5>1. relayed'[c] \in {relayed[c], relayed[c] + 1}
          BY <3>3 DEF relayToOne, ReactionTypes
        <5>2. Asking' = Asking /\ Linking(c)' = Linking(c)
          BY <4>3 DEF Asking, Linking
        <5>3. Next(relayed[c], L(c), A, excuses + 1) /\ Next(relayed[c] + 1, L(c), A, excuses + 1)
          BY StateMoves, FitsMoves
        <5> QED BY <1>4, <2>1, <4>3, <5>1, <5>2, <5>3
      <4> QED BY <3>3, <4>2, <4>3 DEF relayToOne
    <3> QED BY <1>6, <3>1, <3>2, <3>3
  <2> QED BY <1>2, <1>3, <2>1, <2>2 DEF ReactionInv, Finite
<1> QED BY <1>5, <1>6

\* Joining, people and handlers together: no step breaks the count.
LEMMA ReactionKept ==
  ASSUME ReactionTypes, ReactionTypes', ReactionInv, [ReactionNext]_reactionVars
  PROVE  ReactionInv'
<1>1. CASE UNCHANGED <<slackMessage, handler, relayed, excuses>>
  <2>1. Owed' = Owed /\ Asking' = Asking /\ \A c : Linking(c)' = Linking(c)
    BY <1>1 DEF Owed, Asking, Linking, slackMessage
  <2> QED BY <1>1, <2>1 DEF ReactionInv, Finite, Counted, slackMessage
<1> QED BY <1>1, PeopleKeep, HandlersKeep
        DEF ReactionNext, reactionVars, Backfill, Register, Works

\* However many people react at once, a channel gets the link once, and once more at most
\* for a withdrawn reaction, a failed request or a repeated event (reaction-relay.ts).
THEOREM LinkedForCause == ReactionSpec => []RelayedForCause
<1> DEFINE Inv == ReactionTypes /\ ReactionInv
<1>1. ReactionInit => Inv
  <2> SUFFICES ASSUME ReactionInit PROVE Inv
    OBVIOUS
  <2>1. Len(Channels) \in Nat
    BY ReactionAssumption
  <2>2. ReactionTypes
    BY <2>1 DEF ReactionInit, ReactionTypes, Waiting
  <2>3. Owed = {} /\ Asking = {} /\ \A c : Linking(c) = {}
    BY DEF ReactionInit, Owed, Asking, Linking, Waiting
  <2>4. \A c \in 1 .. Len(Channels) : relayed[c] = 0
    BY DEF ReactionInit
  <2>5. reactors = {} /\ excuses = 0 /\ IsFiniteSet({}) /\ Cardinality({}) = 0
    BY FS_EmptySet DEF ReactionInit
  <2>6. ASSUME NEW c \in 1 .. Len(Channels)  PROVE Counted(c)
    <3>1. Fits(0, 0, 0, 0, 0, 0)
      BY DEF Fits
    <3> QED BY <2>3, <2>4, <2>5, <3>1 DEF Counted
  <2> QED BY <2>2, <2>3, <2>5, <2>6 DEF ReactionInv, Finite
<1>2. Inv /\ [ReactionNext]_reactionVars => Inv'
  BY ReactionTypesKept, ReactionKept
<1>3. Inv => RelayedForCause
  <2> SUFFICES ASSUME Inv, NEW c \in DOMAIN relayed  PROVE relayed[c] <= 1 + excuses
    BY DEF RelayedForCause
  <2>1. c \in 1 .. Len(Channels)
    BY DEF ReactionTypes
  <2>2. relayed[c] \in Nat /\ excuses \in Nat /\ Cardinality(Linking(c)) \in Nat
    BY <2>1, Counts
  <2>3. relayed[c] + Cardinality(Linking(c)) <= 1 + excuses
    BY <2>1 DEF ReactionInv, Counted, Fits
  <2> QED BY <2>2, <2>3
<1> QED BY <1>1, <1>2, <1>3, PTL DEF ReactionSpec

------------------------------------------------------------------------------
(* Snapshots of repositories *)

\* Where a clone call holds neither the gate nor a directory nor a part of the reserve.
Early == {"idle", "authorize", "token", "admit", "failed"}
ClonePc == Early \cup {"gate", "measure", "evict", "git", "inspect", "cleanup", "release", "done"}

SnapshotTypes ==
  /\ clone \in [Clone -> ClonePc]
  /\ dir \in [Clone -> Nat \cup {NoDir}] /\ child \in [Clone -> {"none", "running", "killed"}]
  /\ snapshots \subseteq Clone /\ IsFiniteSet(snapshots)
  /\ reader \in [Reader -> [pc : {"authorize", "read"}, on : Clone] \cup {NotReading}]
  /\ gate \in Seq(Clone) /\ DOMAIN survey = {"todo", "sum", "stale"}
  /\ cloning \in Nat /\ IsFiniteSet(Staged)

\* Only the first in line measures and evicts. What it found expired is still kept, nobody
\* reads it, and without it there is room for one more.
Surveying == {c \in Clone : clone[c] \in {"measure", "evict"}}
Gated ==
  /\ \A c \in Surveying : gate # <<>> /\ Head(gate) = c
  /\ \A d \in survey.stale : d \in snapshots \cap expired /\ ~ busy(d)
  /\ Surveying # {} =>
       Cardinality(snapshots) - Cardinality(survey.stale) + cloning < MaxSnapshots

\* A directory is there from before git starts until after it has ended, and as long as
\* its snapshot is read or can be.
Directories ==
  \A c \in Clone :
    /\ child[c] # "none" => clone[c] = "git"
    /\ clone[c] \in {"git", "inspect"} => dir[c] # NoDir
    /\ c \in snapshots => clone[c] = "done"
    /\ c \in snapshots /\ (c \notin expired \/ busy(c)) => dir[c] # NoDir /\ dir[c] <= CloneBytes

\* A snapshot that is being read is kept, and the reader's own.
Readers ==
  \A r \in Reader : reader[r] # NotReading =>
    /\ reader[r].on \in snapshots /\ actorOf[r] = actorOf[reader[r].on]
    /\ \A other \in Reader : reader[other].on = reader[r].on => other = r

SnapshotInv == SnapshotTypes /\ Gated /\ Directories /\ Readers /\ WithinCount /\ ReserveAddsUp

\* Steps of clone calls before the gate, and of readers that do not take up a snapshot,
\* disturb nothing.
LEMMA EarlyKept ==
  ASSUME SnapshotInv, UNCHANGED stateVars, clone' \in [Clone -> ClonePc],
         \A c \in Clone : clone'[c] = clone[c] \/ {clone[c], clone'[c]} \subseteq Early
  PROVE  SnapshotInv'
<1>1. /\ Staged' = Staged /\ Surveying' = Surveying
      /\ \A c \in Clone : (clone'[c] = "git" <=> clone[c] = "git") /\ (clone'[c] = "done" <=> clone[c] = "done")
                          /\ (clone'[c] = "inspect" <=> clone[c] = "inspect")
  BY DEF Staged, Surveying, Early, SnapshotInv, SnapshotTypes, ClonePc
<1>2. SnapshotTypes' /\ WithinCount' /\ ReserveAddsUp'
  BY <1>1 DEF SnapshotInv, SnapshotTypes, WithinCount, ReserveAddsUp, stateVars
<1>3. Gated'
  BY <1>1 DEF SnapshotInv, Gated, stateVars, busy
<1>4. Directories' /\ Readers'
  BY <1>1 DEF SnapshotInv, Directories, Readers, stateVars, busy
<1> QED BY <1>2, <1>3, <1>4 DEF SnapshotInv

\* One more clone under way, or one less, changes the reserve by one reservation.
LEMMA ReserveMoves ==
  ASSUME NEW n \in Nat
  PROVE  /\ Reservation * (n + 1) = Reservation * n + Reservation
         /\ n # 0 => Reservation * (n - 1) = Reservation * n - Reservation
BY SnapshotAssumption

\* The books follow one clone that is staged or is done.
LEMMA BooksKept ==
  ASSUME SnapshotInv, NEW c \in Clone, \A d \in Clone \ {c} : clone'[d] = clone[d],
         \/ c \in Staged' /\ c \notin Staged /\ cloning' = cloning + 1 /\ reserved' = reserved + Reservation
         \/ c \notin Staged' /\ c \in Staged /\ cloning' = cloning - 1 /\ reserved' = reserved - Reservation
         \/ (c \in Staged' <=> c \in Staged) /\ UNCHANGED <<cloning, reserved>>
  PROVE  ReserveAddsUp' /\ cloning' \in Nat /\ IsFiniteSet(Staged')
<1>1. Staged \ {c} = Staged' \ {c}
  BY DEF Staged
<1>2. /\ IsFiniteSet(Staged') /\ Cardinality(Staged) \in Nat /\ Cardinality(Staged') \in Nat
      /\ Cardinality(Staged') = Cardinality(Staged) + (IF c \in Staged' THEN 1 ELSE 0) - (IF c \in Staged THEN 1 ELSE 0)
  BY <1>1, OneMoves DEF SnapshotInv, SnapshotTypes
<1>3. cloning = Cardinality(Staged) /\ reserved = Reservation * cloning
  BY DEF SnapshotInv, ReserveAddsUp
<1>4. cloning' = Cardinality(Staged')
  BY <1>2, <1>3
<1>5. reserved' = Reservation * cloning'
  <2>1. CASE cloning' = cloning + 1 /\ reserved' = reserved + Reservation
    BY <1>2, <1>3, <2>1, ReserveMoves
  <2>2. CASE c \notin Staged' /\ c \in Staged /\ cloning' = cloning - 1 /\ reserved' = reserved - Reservation
    <3>1. cloning # 0 /\ cloning \in Nat
      BY <1>2, <1>3, <2>2
    <3> QED BY <1>3, <2>2, <3>1, ReserveMoves
  <2> QED BY <1>3, <2>1, <2>2
<1> QED BY <1>2, <1>4, <1>5 DEF ReserveAddsUp

\* Asking Radar for leave and GitHub for a token.
LEMMA TokenStepKept ==
  ASSUME SnapshotInv,
         \/ Minted \/ MintFails \/ TokenAges
         \/ \E c \in Clone : Call(c) \/ Unauthorized(c) \/ GetToken(c) \/ GiveUp(c)
  PROVE  SnapshotInv'
<1>1. UNCHANGED stateVars
  BY DEF Minted, MintFails, TokenAges, Call, Unauthorized, GetToken, GiveUp
<1>2. \A c \in Clone : clone[c] \in ClonePc
  BY DEF SnapshotInv, SnapshotTypes
<1>3. clone' \in [Clone -> ClonePc] /\ \A c \in Clone : clone'[c] = clone[c] \/ {clone[c], clone'[c]} \subseteq Early
  <2>1. CASE Minted \/ MintFails
    BY <1>2, <2>1 DEF Minted, MintFails, At, ClonePc, Early
  <2>2. CASE TokenAges
    BY <1>2, <2>2 DEF TokenAges, SnapshotInv, SnapshotTypes
  <2>3. ASSUME NEW c \in Clone, Call(c) \/ Unauthorized(c) \/ GetToken(c) \/ GiveUp(c)
        PROVE  /\ clone' \in [Clone -> ClonePc]
               /\ \A d \in Clone : clone'[d] = clone[d] \/ {clone[d], clone'[d]} \subseteq Early
    BY <2>3 DEF Call, Unauthorized, GetToken, GiveUp, At, To, ClonePc, Early, SnapshotInv, SnapshotTypes
  <2> QED BY <2>1, <2>2, <2>3
<1> QED BY <1>1, <1>3, EarlyKept

\* A call that gives the gate up leaves no survey behind.
LEMMA GateIsLeft ==
  ASSUME SnapshotInv, NEW c \in Clone, gate # <<>>, Head(gate) = c, NEW pc \in ClonePc \ {"measure", "evict"},
         LeaveGate(c, pc)
  PROVE  /\ clone' \in [Clone -> ClonePc] /\ clone'[c] = pc /\ \A d \in Clone \ {c} : clone'[d] = clone[d]
         /\ gate' \in Seq(Clone) /\ DOMAIN survey' = {"todo", "sum", "stale"}
         /\ Gated'
<1>1. clone' \in [Clone -> ClonePc] /\ clone'[c] = pc /\ \A d \in Clone \ {c} : clone'[d] = clone[d]
  BY DEF LeaveGate, To, SnapshotInv, SnapshotTypes
<1>2. gate' \in Seq(Clone)
  BY HeadTailProperties DEF LeaveGate, SnapshotInv, SnapshotTypes
<1>3. Surveying' = {}
  BY <1>1 DEF Surveying, SnapshotInv, Gated
<1>4. survey' = NoSurvey
  BY DEF LeaveGate
<1> QED BY <1>1, <1>2, <1>3, <1>4 DEF Gated, NoSurvey

\* A call that changes neither directories nor snapshots, nor its standing with them.
LEMMA StandsStill ==
  ASSUME SnapshotInv, NEW c \in Clone, clone' \in [Clone -> ClonePc],
         \A d \in Clone \ {c} : clone'[d] = clone[d],
         {clone[c], clone'[c]} \subseteq Early \cup {"gate", "measure", "evict"},
         gate' \in Seq(Clone), DOMAIN survey' = {"todo", "sum", "stale"}, Gated',
         UNCHANGED <<reader, snapshots, expired, dir, child, reserved, cloning>>
  PROVE  SnapshotInv'
<1>1. (c \in Staged' <=> c \in Staged) /\ clone[c] \notin {"git", "inspect", "done"} /\ clone'[c] \notin {"git", "inspect", "done"}
  BY DEF Staged, Early
<1>2. ReserveAddsUp' /\ cloning' \in Nat /\ IsFiniteSet(Staged')
  BY <1>1, BooksKept
<1>3. SnapshotTypes' /\ WithinCount'
  BY <1>2 DEF SnapshotInv, SnapshotTypes, WithinCount
<1>4. Directories' /\ Readers'
  BY <1>1 DEF SnapshotInv, Directories, Readers, busy
<1> QED BY <1>2, <1>3, <1>4 DEF SnapshotInv

\* Waiting for the gate, the preflight and the walk over the disk.
LEMMA GateStepKept ==
  ASSUME SnapshotInv, NEW c \in Clone,
         Lock(c) \/ Preflight(c) \/ Measure(c) \/ Weigh(c) \/ StagingFails(c)
  PROVE  SnapshotInv'
<1>0. /\ clone \in [Clone -> ClonePc] /\ gate \in Seq(Clone) /\ DOMAIN survey = {"todo", "sum", "stale"}
      /\ \A d \in Surveying : gate # <<>> /\ Head(gate) = d
      /\ snapshots \subseteq Clone /\ IsFiniteSet(snapshots)
  BY DEF SnapshotInv, SnapshotTypes, Gated
<1>1. CASE Lock(c)
  <2>1. /\ clone[c] = "admit" /\ clone'[c] = "gate" /\ \A d \in Clone \ {c} : clone'[d] = clone[d]
        /\ clone' \in [Clone -> ClonePc]
    BY <1>0, <1>1 DEF Lock, At, To, ClonePc
  <2>2. gate' \in Seq(Clone) /\ gate' # <<>> /\ (gate # <<>> => Head(gate') = Head(gate))
    <3>1. gate' = Append(gate, c)
      BY <1>1 DEF Lock
    <3>2. gate' \in Seq(Clone) /\ Len(gate') = Len(gate) + 1 /\ Len(gate) \in Nat
          /\ \A i \in 1 .. Len(gate) : gate'[i] = gate[i]
      BY <1>0, <3>1, AppendProperties, LenProperties
    <3>3. gate # <<>> => 1 \in 1 .. Len(gate)
      BY <1>0, <3>2, EmptySeq
    <3> QED BY <1>0, <3>1, <3>2, <3>3, AppendProperties, HeadTailProperties
  <2>3. Surveying' = Surveying
    BY <2>1 DEF Surveying
  <2>4. Gated'
    BY <1>0, <1>1, <2>2, <2>3 DEF Lock, SnapshotInv, Gated, busy
  <2> QED BY <1>0, <1>1, <2>1, <2>2, <2>4, StandsStill DEF Lock, Early
<1>2. CASE \E pc \in {"measure", "gate", "evict"} : Holds(c, pc) /\ LeaveGate(c, "failed")
  <2>1. gate # <<>> /\ Head(gate) = c /\ clone[c] \in {"gate", "measure", "evict"}
    BY <1>2 DEF Holds, At
  <2>2. "failed" \in ClonePc \ {"measure", "evict"} /\ "failed" \in Early
    BY DEF ClonePc, Early
  <2>3. UNCHANGED <<reader, snapshots, expired, dir, child, reserved, cloning>>
    BY DEF Lock, Preflight, Measure, Weigh, StagingFails
  <2> QED BY <1>2, <2>1, <2>2, <2>3, GateIsLeft, StandsStill
<1>3. CASE Preflight(c) /\ ~ LeaveGate(c, "failed")
  <2> DEFINE stale == {d \in snapshots \cap expired : ~ busy(d)}
  <2>1. /\ gate # <<>> /\ Head(gate) = c /\ clone[c] = "gate" /\ To(c, "measure") /\ UNCHANGED gate
        /\ ~ (Cardinality(snapshots) - Cardinality(stale) + cloning >= MaxSnapshots)
        /\ survey' = [todo |-> {d \in Clone : dir[d] # NoDir}, sum |-> 0, stale |-> stale]
        /\ UNCHANGED <<reader, snapshots, expired, dir, child, reserved, cloning>>
    BY <1>3 DEF Preflight, Holds, At
  <2>2. clone' \in [Clone -> ClonePc] /\ clone'[c] = "measure" /\ \A d \in Clone \ {c} : clone'[d] = clone[d]
    BY <1>0, <2>1 DEF To, ClonePc
  <2>3. Surveying' = {c}
    BY <1>0, <2>1, <2>2 DEF Surveying
  <2>4. Cardinality(snapshots) \in Nat /\ Cardinality(stale) \in Nat /\ cloning \in Nat /\ MaxSnapshots \in Nat
    <3>1. IsFiniteSet(stale)
      BY <1>0, FS_Subset
    <3> QED BY <1>0, <3>1, FS_CardinalityType, SnapshotAssumption DEF SnapshotInv, SnapshotTypes
  <2>5. Cardinality(snapshots) - Cardinality(stale) + cloning < MaxSnapshots
    <3> HIDE DEF stale
    <3> QED BY <2>1, <2>4
  <2>6. survey'.stale = stale /\ DOMAIN survey' = {"todo", "sum", "stale"}
    BY <2>1
  <2>7. \A d \in stale : d \in snapshots' \cap expired' /\ ~ busy(d)'
    BY <2>1 DEF busy
  <2> HIDE DEF stale
  <2>8. Gated'
    BY <2>1, <2>3, <2>5, <2>6, <2>7 DEF Gated
  <2> QED BY <1>0, <2>1, <2>2, <2>6, <2>8, StandsStill
<1>4. CASE (Measure(c) \/ Weigh(c)) /\ ~ LeaveGate(c, "failed")
  <2>1. /\ gate # <<>> /\ Head(gate) = c /\ clone[c] = "measure" /\ UNCHANGED gate
        /\ clone' = clone \/ clone' = [clone EXCEPT ![c] = "evict"]
        /\ survey'.stale = survey.stale /\ DOMAIN survey' = {"todo", "sum", "stale"}
        /\ UNCHANGED <<reader, snapshots, expired, dir, child, reserved, cloning>>
    BY <1>0, <1>4 DEF Measure, Weigh, Holds, At, To
  <2>2. clone' \in [Clone -> ClonePc] /\ clone'[c] \in {"measure", "evict"}
        /\ \A d \in Clone \ {c} : clone'[d] = clone[d]
    BY <1>0, <2>1 DEF ClonePc
  <2>3. Surveying' = Surveying
    BY <2>1, <2>2 DEF Surveying
  <2>4. Gated'
    BY <2>1, <2>3 DEF SnapshotInv, Gated, busy
  <2> QED BY <1>0, <2>1, <2>2, <2>4, StandsStill
<1> QED BY <1>1, <1>2, <1>3, <1>4 DEF Preflight, Measure, Weigh, StagingFails

\* What has expired is removed, and what was admitted gets its directory.
LEMMA EvictStepKept ==
  ASSUME SnapshotInv, NEW c \in Clone, RemoveExpired(c) \/ ForgetExpired(c) \/ Stage(c)
  PROVE  SnapshotInv'
<1>0. /\ clone \in [Clone -> ClonePc] /\ gate # <<>> /\ Head(gate) = c /\ clone[c] = "evict"
      /\ Cardinality(snapshots) - Cardinality(survey.stale) + cloning < MaxSnapshots
      /\ \A d \in survey.stale : d \in snapshots \cap expired /\ ~ busy(d) /\ d \in Clone
      /\ IsFiniteSet(snapshots) /\ cloning \in Nat /\ MaxSnapshots \in Nat
  BY SnapshotAssumption DEF RemoveExpired, ForgetExpired, Stage, Holds, At, SnapshotInv, SnapshotTypes, Gated, Surveying
<1>1. IsFiniteSet(survey.stale) /\ Cardinality(survey.stale) \in Nat /\ Cardinality(snapshots) \in Nat
  BY <1>0, FS_Subset, FS_CardinalityType
<1>2. ASSUME NEW d \in survey.stale, dir' = [dir EXCEPT ![d] = NoDir],
             UNCHANGED <<clone, reader, snapshots, expired, child, gate, survey, reserved, cloning>>
      PROVE  SnapshotInv'
  <2>1. clone[d] = "done" /\ \A b \in Clone \ {d} : dir'[b] = dir[b]
    BY <1>0, <1>2 DEF SnapshotInv, Directories, SnapshotTypes
  <2>2. Directories'
    BY <1>0, <1>2, <2>1 DEF SnapshotInv, Directories, busy
  <2>3. SnapshotTypes' /\ WithinCount' /\ ReserveAddsUp'
    BY <1>0, <1>2 DEF SnapshotInv, SnapshotTypes, WithinCount, ReserveAddsUp, Staged
  <2>4. Gated' /\ Readers'
    BY <1>2 DEF SnapshotInv, Gated, Surveying, busy, Readers
  <2> QED BY <2>2, <2>3, <2>4 DEF SnapshotInv
<1>3. ASSUME NEW d \in survey.stale, snapshots' = snapshots \ {d},
             survey' = [survey EXCEPT !.stale = @ \ {d}],
             UNCHANGED <<clone, reader, expired, dir, child, gate, reserved, cloning>>
      PROVE  SnapshotInv'
  <2>1. /\ DOMAIN survey' = DOMAIN survey /\ survey'.stale = survey.stale \ {d}
    BY <1>3 DEF SnapshotInv, SnapshotTypes
  <2>2. /\ IsFiniteSet(snapshots') /\ Cardinality(snapshots') = Cardinality(snapshots) - 1
        /\ Cardinality(survey'.stale) = Cardinality(survey.stale) - 1
    <3>1. IsFiniteSet(snapshots \ {d}) /\ Cardinality(snapshots \ {d}) = Cardinality(snapshots) - 1
      BY <1>0, <1>3, FS_RemoveElement
    <3>2. Cardinality(survey.stale \ {d}) = Cardinality(survey.stale) - 1
      BY <1>1, <1>3, FS_RemoveElement
    <3> QED BY <1>3, <2>1, <3>1, <3>2
  <2>3. SnapshotTypes' /\ ReserveAddsUp'
    BY <1>3, <2>1, <2>2 DEF SnapshotInv, SnapshotTypes, ReserveAddsUp, Staged
  <2>4. Gated'
    <3>1. Surveying' = Surveying /\ \A b \in Clone : busy(b)' = busy(b)
      BY <1>3 DEF Surveying, busy
    <3>2. Cardinality(snapshots') - Cardinality(survey'.stale) + cloning' < MaxSnapshots
      BY <1>0, <1>1, <1>3, <2>2
    <3>3. \A b \in survey'.stale : b \in snapshots' \cap expired' /\ ~ busy(b)'
      BY <1>0, <1>3, <2>1, <3>1
    <3>4. \A b \in Surveying' : gate' # <<>> /\ Head(gate') = b
      BY <1>3, <3>1 DEF SnapshotInv, Gated
    <3> QED BY <3>2, <3>3, <3>4 DEF Gated
  <2>5. WithinCount'
    BY <1>0, <1>1, <1>3, <2>2 DEF SnapshotInv, WithinCount
  <2>6. Directories'
    BY <1>3 DEF SnapshotInv, Directories, busy
  <2>7. Readers'
    BY <1>0, <1>3 DEF SnapshotInv, Readers, busy
  <2> QED BY <2>3, <2>4, <2>5, <2>6, <2>7 DEF SnapshotInv
<1>4. CASE Stage(c)
  <2>1. /\ survey.stale = {} /\ LeaveGate(c, "git") /\ dir' = [dir EXCEPT ![c] = 0]
        /\ child' = [child EXCEPT ![c] = "running"]
        /\ reserved' = reserved + Reservation /\ cloning' = cloning + 1
        /\ UNCHANGED <<reader, snapshots, expired>>
    BY <1>4 DEF Stage
  <2>2. /\ clone' \in [Clone -> ClonePc] /\ clone'[c] = "git" /\ \A d \in Clone \ {c} : clone'[d] = clone[d]
        /\ gate' \in Seq(Clone) /\ DOMAIN survey' = {"todo", "sum", "stale"} /\ Gated'
    <3>1. "git" \in ClonePc \ {"measure", "evict"}
      BY DEF ClonePc
    <3> QED BY <1>0, <2>1, <3>1, GateIsLeft
  <2>3. ReserveAddsUp' /\ cloning' \in Nat /\ IsFiniteSet(Staged')
    <3>1. c \in Staged' /\ c \notin Staged
      BY <1>0, <2>2 DEF Staged
    <3> QED BY <2>1, <2>2, <3>1, BooksKept
  <2>4. WithinCount'
    <3>1. Cardinality(survey.stale) = 0
      BY <2>1, FS_EmptySet
    <3> QED BY <1>0, <1>1, <2>1, <3>1 DEF WithinCount
  <2>5. /\ dir'[c] = 0 /\ c \notin snapshots
        /\ \A d \in Clone \ {c} : dir'[d] = dir[d] /\ child'[d] = child[d]
    BY <1>0, <2>1 DEF SnapshotInv, SnapshotTypes, Directories
  <2>6. Directories'
    BY <2>1, <2>2, <2>5, SnapshotAssumption DEF SnapshotInv, Directories, busy
  <2>7. SnapshotTypes'
    BY <2>1, <2>2, <2>3 DEF SnapshotInv, SnapshotTypes
  <2>8. Readers'
    BY <2>1 DEF SnapshotInv, Readers
  <2> QED BY <2>2, <2>3, <2>4, <2>6, <2>7, <2>8 DEF SnapshotInv
<1>5. CASE RemoveExpired(c)
  BY <1>2, <1>5 DEF RemoveExpired
<1>6. CASE ForgetExpired(c)
  BY <1>3, <1>6 DEF ForgetExpired
<1> QED BY <1>4, <1>5, <1>6

\* A clone call past the gate leaves those before it, the snapshots and their readers alone.
LEMMA PastGate ==
  ASSUME SnapshotInv, NEW c \in Clone, NEW pc \in ClonePc \ {"measure", "evict"},
         clone[c] \in {"git", "inspect", "cleanup", "release"}, clone' = [clone EXCEPT ![c] = pc],
         UNCHANGED <<expired, reader, gate, survey>>, cloning' <= cloning, cloning' \in Nat,
         \/ UNCHANGED snapshots
         \/ snapshots' = snapshots \cup {c} /\ cloning' = cloning - 1
  PROVE  /\ clone' \in [Clone -> ClonePc] /\ clone'[c] = pc /\ \A d \in Clone \ {c} : clone'[d] = clone[d]
         /\ Gated' /\ Readers' /\ WithinCount' /\ snapshots' \subseteq Clone /\ IsFiniteSet(snapshots')
<1>1. clone' \in [Clone -> ClonePc] /\ clone'[c] = pc /\ \A d \in Clone \ {c} : clone'[d] = clone[d]
  BY DEF SnapshotInv, SnapshotTypes
<1>2. Surveying' = Surveying /\ \A b \in Clone : busy(b)' = busy(b)
  BY <1>1 DEF Surveying, busy
<1>3. /\ IsFiniteSet(snapshots) /\ IsFiniteSet(snapshots') /\ Cardinality(snapshots) \in Nat
      /\ Cardinality(snapshots') \in Nat /\ snapshots \subseteq snapshots'
      /\ Cardinality(snapshots') + cloning' <= Cardinality(snapshots) + cloning
  <2>1. IsFiniteSet(snapshots) /\ Cardinality(snapshots) \in Nat /\ cloning \in Nat
    BY FS_CardinalityType DEF SnapshotInv, SnapshotTypes
  <2>2. CASE UNCHANGED snapshots
    BY <2>1, <2>2
  <2>3. CASE snapshots' = snapshots \cup {c} /\ cloning' = cloning - 1
    <3>1. IsFiniteSet(snapshots') /\ Cardinality(snapshots') \in {Cardinality(snapshots), Cardinality(snapshots) + 1}
      BY <2>1, <2>3, FS_AddElement
    <3> QED BY <2>1, <2>3, <3>1
  <2> QED BY <2>2, <2>3
<1>4. snapshots' \subseteq Clone
  BY DEF SnapshotInv, SnapshotTypes
<1>5. MaxSnapshots \in Nat /\ cloning \in Nat
  BY SnapshotAssumption DEF SnapshotInv, SnapshotTypes
<1>6. WithinCount'
  BY <1>3, <1>5 DEF SnapshotInv, WithinCount
<1>7. Gated'
  <2>1. survey.stale \subseteq snapshots
    BY DEF SnapshotInv, Gated
  <2>2. Cardinality(survey.stale) \in Nat
    BY <1>3, <2>1, FS_Subset, FS_CardinalityType
  <2>3. Surveying' # {} => Cardinality(snapshots') - Cardinality(survey'.stale) + cloning' < MaxSnapshots
    BY <1>2, <1>3, <1>5, <2>2 DEF SnapshotInv, Gated
  <2>4. \A d \in survey'.stale : d \in snapshots' \cap expired' /\ ~ busy(d)'
    BY <1>3 DEF SnapshotInv, Gated, busy
  <2>5. \A d \in Surveying' : gate' # <<>> /\ Head(gate') = d
    BY <1>2 DEF SnapshotInv, Gated
  <2> QED BY <2>3, <2>4, <2>5 DEF Gated
<1>8. Readers'
  BY <1>3 DEF SnapshotInv, Readers
<1> QED BY <1>1, <1>3, <1>4, <1>6, <1>7, <1>8

\* git runs, is killed or ends; what it made is kept or removed, and its reserve returned.
LEMMA GitStepKept ==
  ASSUME SnapshotInv, NEW c \in Clone,
         Write(c) \/ Kill(c) \/ GitCloses(c) \/ Keep(c) \/ Reject(c) \/ CleanUp(c) \/ GiveBack(c)
  PROVE  SnapshotInv'
<1> USE DEF gitVars, tokenVars
<1>0. /\ clone \in [Clone -> ClonePc] /\ child \in [Clone -> {"none", "running", "killed"}]
      /\ dir \in [Clone -> Nat \cup {NoDir}] /\ cloning \in Nat
      /\ child[c] # "none" => clone[c] = "git"
      /\ clone[c] \in {"git", "inspect"} => dir[c] # NoDir
      /\ c \in snapshots => clone[c] = "done"
      /\ IsFiniteSet(Staged) /\ cloning = Cardinality(Staged)
  BY DEF SnapshotInv, SnapshotTypes, Directories, ReserveAddsUp
<1>1. CASE Write(c) \/ Kill(c)
  <2>1. /\ clone[c] = "git" /\ c \notin snapshots /\ UNCHANGED <<clone, snapshots, expired, reader, gate, survey, reserved, cloning>>
    BY <1>0, <1>1 DEF Write, Kill
  <2>2. /\ \A d \in Clone \ {c} : dir'[d] = dir[d] /\ (child'[d] = child[d])
        /\ dir'[c] # NoDir /\ dir' \in [Clone -> Nat \cup {NoDir}]
        /\ child' \in [Clone -> {"none", "running", "killed"}]
    BY <1>0, <1>1, <2>1, SnapshotAssumption DEF Write, Kill
  <2>3. Directories'
    BY <2>1, <2>2 DEF SnapshotInv, Directories, busy
  <2>4. SnapshotTypes' /\ WithinCount' /\ ReserveAddsUp'
    BY <2>1, <2>2 DEF SnapshotInv, SnapshotTypes, WithinCount, ReserveAddsUp, Staged
  <2>5. Gated' /\ Readers'
    BY <2>1 DEF SnapshotInv, Gated, Surveying, busy, Readers
  <2> QED BY <2>3, <2>4, <2>5 DEF SnapshotInv
<1>2. CASE GitCloses(c) \/ Reject(c) \/ CleanUp(c)
  <2>1. PICK pc \in {"inspect", "cleanup", "release"} : clone' = [clone EXCEPT ![c] = pc] /\ (pc = "inspect" => clone[c] = "git")
    BY <1>0, <1>2 DEF GitCloses, Reject, CleanUp, To
  <2>2. pc \in ClonePc \ {"measure", "evict"} /\ clone[c] \in {"git", "inspect", "cleanup"}
    BY <1>0, <1>2 DEF GitCloses, Reject, CleanUp, At, ClonePc
  <2>3. UNCHANGED <<snapshots, expired, reader, gate, survey, reserved, cloning>>
    BY <1>2 DEF GitCloses, Reject, CleanUp
  <2>4. /\ clone' \in [Clone -> ClonePc] /\ clone'[c] = pc /\ \A d \in Clone \ {c} : clone'[d] = clone[d]
        /\ Gated' /\ Readers' /\ WithinCount' /\ snapshots' \subseteq Clone /\ IsFiniteSet(snapshots')
    <3>1. cloning' \in Nat /\ cloning' <= cloning
      BY <1>0, <2>3
    <3> QED BY <2>1, <2>2, <2>3, <3>1, PastGate
  <2>5. ReserveAddsUp' /\ cloning' \in Nat /\ IsFiniteSet(Staged')
    <3>1. c \in Staged /\ c \in Staged'
      BY <2>2, <2>4 DEF Staged
    <3> QED BY <2>3, <2>4, <3>1, BooksKept
  <2>6. /\ dir' \in [Clone -> Nat \cup {NoDir}] /\ child' \in [Clone -> {"none", "running", "killed"}]
        /\ child'[c] = "none" /\ (pc = "inspect" => dir'[c] = dir[c])
        /\ \A d \in Clone \ {c} : dir'[d] = dir[d] /\ child'[d] = child[d]
    BY <1>0, <1>2, <2>1, <2>2, <2>4 DEF GitCloses, Reject, CleanUp, At
  <2>7. Directories'
    BY <1>0, <2>1, <2>2, <2>3, <2>4, <2>6 DEF SnapshotInv, Directories, busy
  <2>8. SnapshotTypes'
    BY <2>3, <2>4, <2>5, <2>6 DEF SnapshotInv, SnapshotTypes
  <2> QED BY <2>4, <2>5, <2>7, <2>8 DEF SnapshotInv
<1>3. CASE Keep(c) \/ GiveBack(c)
  <2>1. PICK pc \in {"done", "failed"} : clone' = [clone EXCEPT ![c] = pc] /\ (pc = "done" <=> Keep(c))
    BY <1>3 DEF Keep, GiveBack, To, At
  <2>2. pc \in ClonePc \ {"measure", "evict"} /\ clone[c] \in {"inspect", "release"} /\ child[c] = "none"
    BY <1>0, <1>3 DEF Keep, GiveBack, At, ClonePc, Early
  <2>3. UNCHANGED <<expired, dir, child, reader, gate, survey>> /\ cloning' = cloning - 1
        /\ reserved' = reserved - Reservation
    BY <1>3 DEF Keep, GiveBack, Unreserve
  <2>4. cloning # 0
    <3>1. c \in Staged
      BY <2>2 DEF Staged
    <3> QED BY <1>0, <3>1, FS_EmptySet
  <2>5. UNCHANGED snapshots \/ (snapshots' = snapshots \cup {c} /\ Keep(c))
    BY <1>3 DEF Keep, GiveBack
  <2>6. /\ clone' \in [Clone -> ClonePc] /\ clone'[c] = pc /\ \A d \in Clone \ {c} : clone'[d] = clone[d]
        /\ Gated' /\ Readers' /\ WithinCount' /\ snapshots' \subseteq Clone /\ IsFiniteSet(snapshots')
    <3>1. cloning' \in Nat /\ cloning' <= cloning
      BY <1>0, <2>3, <2>4
    <3> QED BY <2>1, <2>2, <2>3, <2>5, <3>1, PastGate
  <2>7. ReserveAddsUp' /\ cloning' \in Nat /\ IsFiniteSet(Staged')
    <3>1. c \in Staged /\ c \notin Staged'
      BY <2>1, <2>2, <2>6 DEF Staged
    <3> QED BY <2>3, <2>6, <3>1, BooksKept
  <2>8. Directories'
    <3>1. Keep(c) => dir[c] # NoDir /\ dir[c] <= CloneBytes
      BY <1>0 DEF Keep, At
    <3> QED BY <1>0, <2>1, <2>2, <2>3, <2>5, <2>6, <3>1 DEF SnapshotInv, Directories, busy
  <2>9. SnapshotTypes'
    BY <2>3, <2>6, <2>7 DEF SnapshotInv, SnapshotTypes
  <2> QED BY <2>6, <2>7, <2>8, <2>9 DEF SnapshotInv
<1> QED BY <1>1, <1>2, <1>3

\* A snapshot is taken for a call, read and handed back, or its time is over.
LEMMA ReadingKept ==
  ASSUME SnapshotInv,
         \/ \E c \in Clone : SnapshotExpires(c)
         \/ \E r \in Reader : Reauthorized(r) \/ EndUse(r) \/ \E c \in Clone : Use(r, c)
  PROVE  SnapshotInv'
<1> USE DEF gitVars, tokenVars
<1>0. /\ reader \in [Reader -> [pc : {"authorize", "read"}, on : Clone] \cup {NotReading}]
      /\ NotReading.on = NoSnapshot /\ NoSnapshot \notin Clone
  BY SnapshotAssumption DEF SnapshotInv, SnapshotTypes, NotReading
<1>1. ASSUME NEW c \in Clone, SnapshotExpires(c)  PROVE SnapshotInv'
  <2>1. /\ c \in snapshots \ expired /\ expired' = expired \cup {c}
        /\ UNCHANGED <<clone, snapshots, dir, child, reserved, cloning, reader, gate, survey>>
    BY <1>1 DEF SnapshotExpires
  <2>2. SnapshotTypes' /\ WithinCount' /\ ReserveAddsUp' /\ Readers'
    BY <2>1 DEF SnapshotInv, SnapshotTypes, WithinCount, ReserveAddsUp, Staged, Readers
  <2>3. Gated' /\ Directories'
    BY <2>1 DEF SnapshotInv, Gated, Surveying, busy, Directories
  <2> QED BY <2>2, <2>3 DEF SnapshotInv
<1>2. ASSUME NEW r \in Reader, NEW state \in [pc : {"authorize", "read"}, on : Clone] \cup {NotReading},
             ReaderTo(r, state),
             \/ state = NotReading
             \/ reader[r] # NotReading /\ state.on = reader[r].on
             \/ Available(r, state.on) /\ state.on \in Clone
      PROVE  SnapshotInv'
  <2>1. /\ UNCHANGED <<clone, snapshots, expired, dir, child, gate, survey, reserved, cloning>>
        /\ reader'[r] = state /\ \A q \in Reader \ {r} : reader'[q] = reader[q]
        /\ reader' \in [Reader -> [pc : {"authorize", "read"}, on : Clone] \cup {NotReading}]
    BY <1>0, <1>2 DEF ReaderTo
  <2>2. SnapshotTypes' /\ WithinCount' /\ ReserveAddsUp'
    BY <2>1 DEF SnapshotInv, SnapshotTypes, WithinCount, ReserveAddsUp, Staged
  <2>3. \A c \in Clone : busy(c)' => busy(c) \/ c \in snapshots \ expired
    BY <1>0, <1>2, <2>1 DEF busy, Available
  <2>4. Gated'
    <3>1. Surveying' = Surveying /\ \A d \in survey.stale : d \in Clone
      BY <2>1 DEF Surveying, SnapshotInv, SnapshotTypes, Gated
    <3>2. \A d \in survey.stale : ~ busy(d)'
      BY <2>3, <3>1 DEF SnapshotInv, Gated
    <3> QED BY <2>1, <3>1, <3>2 DEF SnapshotInv, Gated
  <2>5. Directories'
    BY <2>1, <2>3 DEF SnapshotInv, Directories
  <2>6. Readers'
    <3>1. CASE state = NotReading
      BY <1>0, <2>1, <3>1 DEF SnapshotInv, Readers
    <3>2. CASE reader[r] # NotReading /\ state.on = reader[r].on
      BY <1>0, <2>1, <3>2 DEF SnapshotInv, Readers
    <3>3. CASE Available(r, state.on) /\ state.on \in Clone
      BY <1>0, <2>1, <3>3 DEF SnapshotInv, Readers, Available, busy
    <3> QED BY <1>2, <3>1, <3>2, <3>3
  <2> QED BY <2>2, <2>4, <2>5, <2>6 DEF SnapshotInv
<1>3. ASSUME NEW r \in Reader, Reauthorized(r) \/ EndUse(r) \/ \E c \in Clone : Use(r, c)  PROVE SnapshotInv'
  <2>1. CASE EndUse(r)
    BY <1>2, <2>1 DEF EndUse
  <2>2. CASE Reauthorized(r)
    <3>1. reader[r] # NotReading /\ reader[r] \in [pc : {"authorize", "read"}, on : Clone]
      BY <1>0, <2>2 DEF Reauthorized, NotReading
    <3>2. /\ [reader[r] EXCEPT !.pc = "read"] \in [pc : {"authorize", "read"}, on : Clone]
          /\ [reader[r] EXCEPT !.pc = "read"].on = reader[r].on
      BY <3>1
    <3> QED BY <1>2, <2>2, <3>1, <3>2 DEF Reauthorized
  <2>3. ASSUME NEW c \in Clone, Use(r, c)  PROVE SnapshotInv'
    <3>1. /\ [pc |-> "authorize", on |-> c] \in [pc : {"authorize", "read"}, on : Clone]
          /\ [pc |-> "authorize", on |-> c].on = c
      OBVIOUS
    <3> QED BY <1>2, <2>3, <3>1 DEF Use
  <2> QED BY <1>3, <2>1, <2>2, <2>3
<1> QED BY <1>1, <1>3

\* However clones, readers, expiry and removal interleave, and whatever fails: the number of
\* snapshots is kept, the reserve is that of the clones under way, and what is read is there.
THEOREM SnapshotsAreKept == SnapshotsSpec => []SnapshotsKept
<1>1. SnapshotsInit => SnapshotInv
  <2> SUFFICES ASSUME SnapshotsInit  PROVE SnapshotInv
    OBVIOUS
  <2>1. Staged = {} /\ Surveying = {} /\ snapshots = {} /\ gate = <<>> /\ survey.stale = {}
    BY DEF SnapshotsInit, Staged, Surveying, NoSurvey
  <2>2. IsFiniteSet({}) /\ Cardinality({}) = 0 /\ MaxSnapshots \in Nat /\ Reservation \in Nat
    BY FS_EmptySet, SnapshotAssumption
  <2>3. SnapshotTypes
    BY <2>1, <2>2 DEF SnapshotsInit, SnapshotTypes, NoSurvey, ClonePc, Early
  <2>4. Gated /\ WithinCount /\ ReserveAddsUp
    BY <2>1, <2>2 DEF SnapshotsInit, Gated, WithinCount, ReserveAddsUp
  <2>5. Directories /\ Readers
    BY DEF SnapshotsInit, Directories, Readers
  <2> QED BY <2>3, <2>4, <2>5 DEF SnapshotInv
<1>2. SnapshotInv /\ [SnapshotsNext]_snapshotVars => SnapshotInv'
  <2> SUFFICES ASSUME SnapshotInv, [SnapshotsNext]_snapshotVars  PROVE SnapshotInv'
    OBVIOUS
  <2>1. CASE UNCHANGED snapshotVars
    BY <2>1, EarlyKept DEF snapshotVars, stateVars, SnapshotInv, SnapshotTypes
  <2>2. ASSUME NEW c \in Clone, CloneStep(c) \/ GiveUp(c) \/ Write(c) \/ Kill(c)  PROVE SnapshotInv'
    BY <2>2, TokenStepKept, GateStepKept, EvictStepKept, GitStepKept DEF CloneStep
  <2> QED BY <2>1, <2>2, TokenStepKept, ReadingKept DEF SnapshotsNext
<1>3. SnapshotInv => SnapshotsKept
  <2> SUFFICES ASSUME SnapshotInv  PROVE SnapshotsKept
    OBVIOUS
  <2>1. ReadIsKept
    <3> SUFFICES ASSUME NEW r \in Reader, reader[r] # NotReading
                 PROVE  LET c == reader[r].on IN
                        /\ c \in snapshots /\ dir[c] # NoDir /\ actorOf[r] = actorOf[c]
                        /\ \A other \in Reader : reader[other].on = c => other = r
      BY DEF ReadIsKept
    <3>1. reader[r].on \in snapshots /\ reader[r].on \in Clone /\ busy(reader[r].on)
      BY DEF SnapshotInv, SnapshotTypes, Readers, busy
    <3> QED BY <3>1 DEF SnapshotInv, Readers, Directories
  <2>2. DirectoriesKept
    BY DEF SnapshotInv, SnapshotTypes, Directories, DirectoriesKept
  <2> QED BY <2>1, <2>2 DEF SnapshotInv, SnapshotsKept
<1> QED BY <1>1, <1>2, <1>3, PTL DEF SnapshotsSpec

------------------------------------------------------------------------------
(* The public search of Slack *)

\* A nonempty set of numbers has a least one.
LEMMA LeastExists ==
  ASSUME NEW T \in SUBSET Nat, T # {}
  PROVE  \E x \in T : \A y \in T : x <= y
<1> DEFINE less == {pair \in Nat \X Nat : pair[1] < pair[2]}
<1>1. IsWellFoundedOn(less, Nat)
  BY NatLessThanWellFounded DEF OpToRel
<1>2. PICK x \in T : \A y \in T : ~ (<<y, x>> \in less)
  <2> HIDE DEF less
  <2> QED BY <1>1, WFMin
<1>3. ASSUME NEW y \in T, y < x  PROVE FALSE
  <2>1. <<y, x>> \in Nat \X Nat /\ <<y, x>>[1] < <<y, x>>[2]
    BY <1>3
  <2> QED BY <1>2, <2>1
<1>4. \A y \in T : x <= y
  BY <1>3
<1> QED BY <1>4

\* A page lists its messages, each in a role and with a text.
LEMMA PageMessages ==
  ASSUME NEW page \in Pages, NEW i \in DOMAIN page.messages
  PROVE  /\ i \in Nat /\ DOMAIN page.messages \subseteq Nat
         /\ page.messages[i] \in ToSet(page.messages)
         /\ page.messages[i].role \in Role /\ page.messages[i].text # Unknown
         /\ page.messages[i].key \in Keys(page)
<1>1. page.messages \in Seq(ToSet(page.messages))
  BY SearchAssumption
<1>2. DOMAIN page.messages \subseteq Nat /\ page.messages[i] \in ToSet(page.messages)
  BY <1>1 DEF ToSet
<1> QED BY <1>2, SearchAssumption DEF Role, Keys

\* Of one message at most one place is wanted.
LEMMA WantedOnce ==
  ASSUME NEW prev, NEW page \in Pages, NEW i \in Wanted(prev, page), NEW j \in Wanted(prev, page),
         page.messages[i].key = page.messages[j].key
  PROVE  i = j
<1>1. i \in DOMAIN page.messages /\ j \in DOMAIN page.messages
  BY DEF Wanted
<1>2. i \in Nat /\ j \in Nat
  BY <1>1, PageMessages
<1>3. ~ Before(page, i, j) /\ ~ Before(page, j, i)
  BY <1>1 DEF Wanted
<1> QED BY <1>2, <1>3 DEF Before

\* What was not given before is wanted in one place, as a match if it is one.
LEMMA WantedPlace ==
  ASSUME NEW prev, NEW page \in Pages, NEW i \in DOMAIN page.messages,
         ~ AlreadyGiven(prev, page.messages[i])
  PROVE  \E j \in Wanted(prev, page) :
           /\ page.messages[j].key = page.messages[i].key
           /\ page.messages[i].role = "primary" => page.messages[j].role = "primary"
<1> DEFINE same == {j \in DOMAIN page.messages :
                      /\ page.messages[j].key = page.messages[i].key
                      /\ ~ AlreadyGiven(prev, page.messages[j])}
           matches == {j \in same : page.messages[j].role = "primary"}
<1>n. DOMAIN page.messages \subseteq Nat
  BY PageMessages
<1>1. ASSUME NEW S \in SUBSET same, S # {},
             \A j \in S, x \in same : Before(page, x, j) => x \in S /\ x < j
      PROVE  \E j \in S : j \in Wanted(prev, page)
  <2>1. S \in SUBSET Nat
    BY <1>n
  <2>2. PICK j \in S : \A y \in S : j <= y
    BY <1>1, <2>1, LeastExists
  <2>3. ASSUME NEW x \in DOMAIN page.messages, Before(page, x, j), x \in same  PROVE FALSE
    <3>1. x \in S /\ x < j
      BY <1>1, <2>3
    <3> QED BY <1>n, <2>1, <2>2, <3>1
  <2> QED BY <2>3 DEF Wanted
<1>2. CASE matches # {}
  <2>1. \A j \in matches, x \in same : Before(page, x, j) => x \in matches /\ x < j
    BY DEF Before
  <2>2. PICK j \in matches : j \in Wanted(prev, page)
    BY <1>1, <1>2, <2>1
  <2> QED BY <2>2
<1>3. CASE matches = {}
  <2>1. \A j \in same, x \in same : Before(page, x, j) => x \in same /\ x < j
    BY <1>3 DEF Before
  <2>2. i \in same
    OBVIOUS
  <2>3. PICK j \in same : j \in Wanted(prev, page)
    BY <1>1, <2>1, <2>2
  <2> QED BY <1>3, <2>2, <2>3
<1> QED BY <1>2, <1>3

\* On a consistent page a message has one text in a role, the one the chain knows if it does.
LEMMA OneText ==
  ASSUME NEW prev, NEW page \in Pages, Consistent(prev, page), NEW i \in DOMAIN page.messages
  PROVE  LET m == page.messages[i] IN
         /\ TextOf(prev, page, m.key, m.role) = m.text /\ m.text # Unknown
         /\ m \in Shown(page, m.key, m.role)
         /\ Known(prev, m.key, m.role) # Unknown => Known(prev, m.key, m.role) = m.text
<1> DEFINE m == page.messages[i]
           texts == TextsOf(page, m.key, m.role)
<1>1. m \in ToSet(page.messages) /\ m.role \in Role /\ m.text # Unknown /\ m.key \in Keys(page)
  BY PageMessages
<1>2. m \in Shown(page, m.key, m.role) /\ m.text \in texts
  BY <1>1 DEF Shown, TextsOf
<1>3. \A text, other \in texts \union {Known(prev, m.key, m.role)} :
        text = other \/ Unknown \in {text, other}
  BY <1>1 DEF Consistent
<1>4. \A text \in texts : text # Unknown
  BY SearchAssumption DEF TextsOf, Shown
<1>5. \A text \in texts : text = m.text
  BY <1>2, <1>3, <1>4
<1>6. (CHOOSE text \in texts : TRUE) \in texts
  BY <1>2
<1>7. TextOf(prev, page, m.key, m.role) = m.text
  BY <1>2, <1>5, <1>6 DEF TextOf
<1> QED BY <1>1, <1>2, <1>3, <1>7

\* The chain keeps the text of what the page does not show, and no other of what it shows.
LEMMA TextKept ==
  ASSUME NEW prev, NEW page \in Pages, Consistent(prev, page), NEW k, NEW role \in Role
  PROVE  /\ Shown(page, k, role) = {} => TextOf(prev, page, k, role) = Known(prev, k, role)
         /\ Known(prev, k, role) # Unknown => TextOf(prev, page, k, role) = Known(prev, k, role)
<1>1. CASE Shown(page, k, role) = {}
  BY <1>1 DEF TextOf
<1>2. CASE Shown(page, k, role) # {}
  <2>1. PICK i \in DOMAIN page.messages :
          page.messages[i].key = k /\ page.messages[i].role = role
    BY <1>2 DEF Shown, ToSet
  <2> QED BY <1>2, <2>1, OneText
<1> QED BY <1>1, <1>2

\* A sequence, of whatever it holds.
IsSequence(q) == \E S : q \in Seq(S)

\* One more page.
LEMMA AppendPage ==
  ASSUME NEW pages, IsSequence(pages), NEW log
  PROVE  LET more == Append(pages, log) IN
         /\ IsSequence(more) /\ Last(more) = log
         /\ \A i \in DOMAIN pages : i \in DOMAIN more /\ more[i] = pages[i]
         /\ \E z \in DOMAIN more : /\ more[z] = log
                                   /\ \A i \in DOMAIN more : i = z \/ (i \in DOMAIN pages /\ i < z)
<1> DEFINE more == Append(pages, log)
<1>1. PICK S : pages \in Seq(S)
  BY DEF IsSequence
<1>2. pages \in Seq(S \cup {log}) /\ log \in S \cup {log}
  BY <1>1
<1>3. /\ more \in Seq(S \cup {log}) /\ Len(more) = Len(pages) + 1
      /\ more[Len(pages) + 1] = log /\ \A i \in 1 .. Len(pages) : more[i] = pages[i]
  BY <1>2, AppendProperties
<1>4. Len(pages) \in Nat /\ DOMAIN pages = 1 .. Len(pages) /\ DOMAIN more = 1 .. Len(pages) + 1
  BY <1>2, <1>3, LenProperties
<1>5. IsSequence(more)
  BY <1>3 DEF IsSequence
<1>6. Last(more) = log
  BY <1>3 DEF Last
<1>7. \A i \in DOMAIN pages : i \in DOMAIN more /\ more[i] = pages[i]
  BY <1>3, <1>4
<1>8. Len(pages) + 1 \in DOMAIN more
  BY <1>4
<1>9. \A i \in DOMAIN more : i = Len(pages) + 1 \/ (i \in DOMAIN pages /\ i < Len(pages) + 1)
  BY <1>4
<1> QED BY <1>3, <1>5, <1>6, <1>7, <1>8, <1>9

\* What a state knows of the messages that were given: their latest role, and, as long as
\* nothing was left out, the one text they have.
Given(k, pages, role, text) ==
  \E i \in DOMAIN pages : \E n \in pages[i].items :
    n.key = k /\ n.role = role /\ n.text = text /\ ~ n.cut
Understood(t, k, pages) ==
  LET text == t.fingerprints[k] IN
  /\ Given(k, pages, t.deliveredRoles[k], text[t.deliveredRoles[k]])
  /\ text[t.deliveredRoles[k]] # Unknown
  /\ \A role, other \in Role : text[role] = text[other] \/ Unknown \in {text[role], text[other]}
Story(t, pages) ==
  /\ \A k \in DOMAIN t.deliveredRoles : t.deliveredRoles[k] \in Role
  /\ DOMAIN t.fingerprints = DOMAIN t.deliveredRoles
  /\ \A i \in DOMAIN pages : \A n \in pages[i].items :
       /\ n.role \in Role /\ n.key \in DOMAIN t.deliveredRoles
       /\ n.role = "primary" => t.deliveredRoles[n.key] = "primary"
  /\ ~ t.lossy => Whole(pages) /\ \A k \in DOMAIN t.deliveredRoles : Understood(t, k, pages)

\* The messages of a page that are given.
LEMMA ResultItems ==
  ASSUME NEW prev, NEW page \in Pages, NEW kept \in Fitting(prev, page), NEW cut \in SUBSET kept
  PROVE  LET items == Result(prev, page, kept, cut).items IN
         /\ \A i \in kept : /\ i \in DOMAIN page.messages /\ i \in Wanted(prev, page)
                            /\ ~ AlreadyGiven(prev, page.messages[i])
         /\ \A n \in items : \E i \in kept :
              /\ n.key = page.messages[i].key /\ n.role = page.messages[i].role
              /\ n.text = page.messages[i].text
         /\ \A i \in kept : \E n \in items :
              /\ n.key = page.messages[i].key /\ n.role = page.messages[i].role
              /\ n.text = page.messages[i].text
              /\ ~ Lossy(prev, page, kept, cut) => ~ n.cut
<1> DEFINE m(i) == page.messages[i]
           item(i) == [key |-> m(i).key, role |-> m(i).role, text |-> m(i).text,
                       cut |-> \/ i \in cut
                               \/ m(i).role = "primary" /\ m(i).key \in ShortPrimary(prev, page)]
           items == Result(prev, page, kept, cut).items
<1>1. items = {item(i) : i \in kept}
  BY DEF Result
<1>2. \A i \in kept : i \in DOMAIN page.messages /\ i \in Wanted(prev, page)
                      /\ ~ AlreadyGiven(prev, page.messages[i])
  BY DEF Fitting, Projected, Wanted
<1>3. \A i \in kept : item(i).key = m(i).key /\ item(i).role = m(i).role /\ item(i).text = m(i).text
  OBVIOUS
<1>4. ASSUME NEW i \in kept, ~ Lossy(prev, page, kept, cut)  PROVE ~ item(i).cut
  <2>1. cut = {} /\ \A k \in Keys(page) : ~ Diverging(prev, page, k)
    BY <1>4 DEF Lossy
  <2>2. m(i).key \notin ShortPrimary(prev, page)
    BY <2>1 DEF ShortPrimary
  <2> QED BY <2>1, <2>2
<1> HIDE DEF item
<1>5. \A n \in items : \E i \in kept : n.key = m(i).key /\ n.role = m(i).role /\ n.text = m(i).text
  BY <1>1, <1>3
<1>6. ASSUME NEW i \in kept
      PROVE  \E n \in items : /\ n.key = m(i).key /\ n.role = m(i).role /\ n.text = m(i).text
                              /\ ~ Lossy(prev, page, kept, cut) => ~ n.cut
  <2>1. item(i) \in items
    BY <1>1
  <2> QED BY <1>3, <1>4, <2>1
<1> QED BY <1>2, <1>5, <1>6

\* The roles and texts known with the page.
LEMMA NextRoles ==
  ASSUME NEW prev, NEW page \in Pages, NEW kept \in Fitting(prev, page), NEW cut \in SUBSET kept,
         NEW chain, NEW next, next = Continued(prev, page, kept, cut, chain)
  PROVE  /\ DOMAIN next.deliveredRoles =
              DOMAIN prev.deliveredRoles \cup {page.messages[i].key : i \in kept}
         /\ \A i \in kept : next.deliveredRoles[page.messages[i].key] = page.messages[i].role
         /\ \A k \in DOMAIN next.deliveredRoles :
              \/ \E i \in kept : k = page.messages[i].key
              \/ k \in DOMAIN prev.deliveredRoles /\ next.deliveredRoles[k] = prev.deliveredRoles[k]
         /\ DOMAIN next.fingerprints = DOMAIN next.deliveredRoles
         /\ \A k \in DOMAIN next.deliveredRoles, role \in Role :
              next.fingerprints[k][role] = TextOf(prev, page, k, role)
         /\ next.lossy <=> Lossy(prev, page, kept, cut)
<1> DEFINE items == {page.messages[i] : i \in kept}
<1>1. /\ next.deliveredRoles = RolesAfter(prev, items)
      /\ next.fingerprints = Learnt(prev, page, next.deliveredRoles)
      /\ next.lossy = Lossy(prev, page, kept, cut)
  BY DEF Continued
<1>2. DOMAIN next.deliveredRoles = DOMAIN prev.deliveredRoles \cup {page.messages[i].key : i \in kept}
  BY <1>1 DEF RolesAfter
<1>3. ASSUME NEW i \in kept  PROVE next.deliveredRoles[page.messages[i].key] = page.messages[i].role
  <2>1. page.messages[i] \in items
    OBVIOUS
  <2>2. ASSUME NEW m \in items, m.key = page.messages[i].key  PROVE m = page.messages[i]
    <3>1. PICK j \in kept : m = page.messages[j]
      OBVIOUS
    <3>2. i \in Wanted(prev, page) /\ j \in Wanted(prev, page)
      BY ResultItems
    <3> QED BY <2>2, <3>1, <3>2, WantedOnce
  <2>3. (CHOOSE m \in items : m.key = page.messages[i].key) = page.messages[i]
    BY <2>1, <2>2
  <2> QED BY <1>1, <2>1, <2>3 DEF RolesAfter
<1>4. \A k \in DOMAIN next.deliveredRoles :
        \/ \E i \in kept : k = page.messages[i].key
        \/ k \in DOMAIN prev.deliveredRoles /\ next.deliveredRoles[k] = prev.deliveredRoles[k]
  BY <1>1, <1>2 DEF RolesAfter
<1>5. /\ DOMAIN next.fingerprints = DOMAIN next.deliveredRoles
      /\ \A k \in DOMAIN next.deliveredRoles, role \in Role :
           next.fingerprints[k][role] = TextOf(prev, page, k, role)
  BY <1>1 DEF Learnt
<1> QED BY <1>1, <1>2, <1>3, <1>4, <1>5

\* A page that goes on with what the chain has given goes on with its story.
LEMMA NextStory ==
  ASSUME NEW prev, NEW pages, IsSequence(pages), Story(prev, pages),
         NEW page \in Pages, NEW kept \in Fitting(prev, page), NEW cut \in SUBSET kept, NEW chain,
         Valid(prev, page), NEW next, next = Continued(prev, page, kept, cut, chain),
         NEW more, more = Append(pages, Result(prev, page, kept, cut))
  PROVE  Story(next, more) /\ (~ next.lossy => Whole(more))
<1> DEFINE log == Result(prev, page, kept, cut)
           m(i) == page.messages[i]
<1>c. Consistent(prev, page)
  BY DEF Valid
<1>r. /\ DOMAIN next.deliveredRoles = DOMAIN prev.deliveredRoles \cup {m(i).key : i \in kept}
      /\ \A i \in kept : next.deliveredRoles[m(i).key] = m(i).role
      /\ \A k \in DOMAIN next.deliveredRoles :
           \/ \E i \in kept : k = m(i).key
           \/ k \in DOMAIN prev.deliveredRoles /\ next.deliveredRoles[k] = prev.deliveredRoles[k]
      /\ DOMAIN next.fingerprints = DOMAIN next.deliveredRoles
      /\ \A k \in DOMAIN next.deliveredRoles, role \in Role :
           next.fingerprints[k][role] = TextOf(prev, page, k, role)
      /\ next.lossy <=> Lossy(prev, page, kept, cut)
  BY NextRoles
<1>i. /\ \A i \in kept : /\ i \in DOMAIN page.messages /\ i \in Wanted(prev, page)
                         /\ ~ AlreadyGiven(prev, m(i))
      /\ \A n \in log.items : \E i \in kept :
           n.key = m(i).key /\ n.role = m(i).role /\ n.text = m(i).text
      /\ \A i \in kept : \E n \in log.items :
           /\ n.key = m(i).key /\ n.role = m(i).role /\ n.text = m(i).text
           /\ ~ Lossy(prev, page, kept, cut) => ~ n.cut
  BY ResultItems
<1>a. PICK z \in DOMAIN more :
        /\ more[z] = log /\ \A i \in DOMAIN more : i = z \/ (i \in DOMAIN pages /\ i < z)
  BY AppendPage
<1>b. \A i \in DOMAIN pages : i \in DOMAIN more /\ more[i] = pages[i]
  BY AppendPage
<1>m. \A i \in DOMAIN page.messages : m(i).role \in Role
  BY PageMessages
<1> HIDE DEF log, m
<1>1. \A k \in DOMAIN next.deliveredRoles : next.deliveredRoles[k] \in Role
  BY <1>i, <1>m, <1>r DEF Story
<1>2. ASSUME NEW k, k \in DOMAIN prev.deliveredRoles, prev.deliveredRoles[k] = "primary"
      PROVE  next.deliveredRoles[k] = "primary"
  <2>1. \A i \in kept : k # m(i).key
    BY <1>2, <1>i DEF AlreadyGiven
  <2> QED BY <1>2, <1>r, <2>1
<1>3. ASSUME NEW i \in DOMAIN more, NEW n \in more[i].items
      PROVE  /\ n.role \in Role /\ n.key \in DOMAIN next.deliveredRoles
             /\ n.role = "primary" => next.deliveredRoles[n.key] = "primary"
  <2>1. CASE i = z
    <3>1. PICK j \in kept : n.key = m(j).key /\ n.role = m(j).role
      BY <1>3, <1>a, <1>i, <2>1
    <3> QED BY <1>i, <1>m, <1>r, <3>1
  <2>2. CASE i # z
    <3>1. i \in DOMAIN pages /\ n \in pages[i].items
      BY <1>3, <1>a, <1>b, <2>2
    <3>2. /\ n.role \in Role /\ n.key \in DOMAIN prev.deliveredRoles
          /\ n.role = "primary" => prev.deliveredRoles[n.key] = "primary"
      BY <3>1 DEF Story
    <3> QED BY <1>2, <1>r, <3>2
  <2> QED BY <2>1, <2>2
<1>4. ASSUME NEW k, NEW role, NEW text, Given(k, pages, role, text)  PROVE Given(k, more, role, text)
  BY <1>4, <1>b DEF Given
<1>5. ASSUME NEW i \in kept, ~ next.lossy  PROVE Given(m(i).key, more, m(i).role, m(i).text)
  <2>1. PICK n \in log.items :
          n.key = m(i).key /\ n.role = m(i).role /\ n.text = m(i).text /\ ~ n.cut
    BY <1>5, <1>i, <1>r
  <2> QED BY <1>a, <2>1 DEF Given
<1>6. ASSUME ~ next.lossy
      PROVE  /\ ~ prev.lossy /\ kept = Wanted(prev, page)
             /\ \A k \in Keys(page) : ~ Diverging(prev, page, k)
  BY <1>6, <1>r DEF Lossy, Crowded
<1>t. ASSUME NEW i \in DOMAIN page.messages
      PROVE  /\ TextOf(prev, page, m(i).key, m(i).role) = m(i).text /\ m(i).text # Unknown
             /\ m(i) \in Shown(page, m(i).key, m(i).role) /\ m(i).key \in Keys(page)
             /\ Known(prev, m(i).key, m(i).role) # Unknown =>
                  Known(prev, m(i).key, m(i).role) = m(i).text
  BY <1>c, <1>t, OneText, PageMessages DEF m
<1>7. ASSUME NEW k, NEW role \in Role, NEW other \in Role, ~ next.lossy,
             TextOf(prev, page, k, role) # Unknown, TextOf(prev, page, k, other) # Unknown
      PROVE  TextOf(prev, page, k, role) = TextOf(prev, page, k, other)
  <2>1. ASSUME Known(prev, k, role) # Unknown, Known(prev, k, other) # Unknown
        PROVE  Known(prev, k, role) = Known(prev, k, other)
    BY <1>6, <1>7, <2>1 DEF Known, Story, Understood
  <2>2. ASSUME NEW one \in Role, TextOf(prev, page, k, one) # Unknown,
               Shown(page, k, one) = {} \/ Known(prev, k, one) # Unknown
        PROVE  Known(prev, k, one) # Unknown /\ TextOf(prev, page, k, one) = Known(prev, k, one)
    BY <1>c, <2>2, TextKept
  <2>3. CASE Known(prev, k, role) # Unknown /\ Known(prev, k, other) # Unknown
    BY <1>7, <2>1, <2>2, <2>3
  <2>4. ASSUME NEW one \in Role, NEW two \in Role, one # two, Shown(page, k, one) # {},
               Known(prev, k, one) = Unknown,
               TextOf(prev, page, k, one) # Unknown, TextOf(prev, page, k, two) # Unknown
        PROVE  TextOf(prev, page, k, one) = TextOf(prev, page, k, two)
    <3>1. k \in Keys(page)
      BY <2>4 DEF Shown, Keys
    <3>2. ~ Diverging(prev, page, k)
      BY <1>6, <1>7, <3>1
    <3>3. \A last \in Role : {x \in Role : Shown(page, k, x) # {}} = {last} => last = one
      BY <2>4
    <3>4. Unknown \notin {TextOf(prev, page, k, "primary"), TextOf(prev, page, k, "context")}
      BY <2>4 DEF Role
    <3>5. TextOf(prev, page, k, "primary") = TextOf(prev, page, k, "context")
      BY <2>4, <3>2, <3>3, <3>4 DEF Diverging
    <3> QED BY <2>4, <3>5 DEF Role
  <2>5. CASE Known(prev, k, role) = Unknown
    <3>1. Shown(page, k, role) # {}
      BY <1>7, <2>2, <2>5
    <3> QED BY <1>7, <2>4, <2>5, <3>1
  <2>6. CASE Known(prev, k, other) = Unknown
    <3>1. Shown(page, k, other) # {}
      BY <1>7, <2>2, <2>6
    <3> QED BY <1>7, <2>4, <2>6, <3>1
  <2> QED BY <2>3, <2>5, <2>6
<1>8. ASSUME ~ next.lossy, NEW k \in DOMAIN next.deliveredRoles  PROVE Understood(next, k, more)
  <2> DEFINE role == next.deliveredRoles[k]
             text == next.fingerprints[k]
  <2>1. \A one, other \in Role : text[one] = text[other] \/ Unknown \in {text[one], text[other]}
    BY <1>7, <1>8, <1>r
  <2>2. CASE \E i \in kept : k = m(i).key
    <3>1. PICK i \in kept : k = m(i).key
      BY <2>2
    <3>2. role = m(i).role /\ role \in Role /\ text[role] = m(i).text /\ m(i).text # Unknown
      BY <1>1, <1>8, <1>i, <1>r, <1>t, <3>1
    <3> QED BY <1>5, <1>8, <2>1, <3>1, <3>2 DEF Understood
  <2>3. CASE k \in DOMAIN prev.deliveredRoles /\ role = prev.deliveredRoles[k]
    <3>1. Understood(prev, k, pages) /\ k \in DOMAIN prev.fingerprints
      BY <1>6, <1>8, <2>3 DEF Story
    <3>2. Known(prev, k, role) = prev.fingerprints[k][role] /\ Known(prev, k, role) # Unknown
      BY <2>3, <3>1 DEF Known, Understood
    <3>3. text[role] = Known(prev, k, role)
      BY <1>1, <1>8, <1>c, <1>r, <3>2, TextKept
    <3>4. Given(k, more, role, text[role])
      BY <1>4, <2>3, <3>1, <3>2, <3>3 DEF Understood
    <3> QED BY <2>1, <3>2, <3>3, <3>4 DEF Understood
  <2> QED BY <1>8, <1>r, <2>2, <2>3
<1>9. ASSUME ~ next.lossy, NEW i \in DOMAIN page.messages
      PROVE  \E j \in DOMAIN more : \E n \in more[j].items :
               /\ n.key = m(i).key /\ n.text = m(i).text /\ ~ n.cut
               /\ m(i).role = "primary" => n.role = "primary"
  <2> DEFINE k == m(i).key
  <2>1. ASSUME NEW role \in Role, Given(k, more, role, TextOf(prev, page, k, role)),
               TextOf(prev, page, k, role) # Unknown, m(i).role = "primary" => role = "primary"
        PROVE  \E j \in DOMAIN more : \E n \in more[j].items :
                 /\ n.key = m(i).key /\ n.text = m(i).text /\ ~ n.cut
                 /\ m(i).role = "primary" => n.role = "primary"
    <3>1. TextOf(prev, page, k, role) = m(i).text
      BY <1>7, <1>9, <1>m, <1>t, <2>1
    <3> QED BY <2>1, <3>1 DEF Given
  <2>2. CASE AlreadyGiven(prev, m(i))
    <3>1. /\ k \in DOMAIN prev.deliveredRoles /\ prev.deliveredRoles[k] \in Role
          /\ m(i).role = "primary" => prev.deliveredRoles[k] = "primary"
      BY <1>m, <2>2 DEF AlreadyGiven, Story, Role
    <3>2. Understood(prev, k, pages) /\ k \in DOMAIN prev.fingerprints
      BY <1>6, <1>9, <3>1 DEF Story
    <3>3. /\ Known(prev, k, prev.deliveredRoles[k]) = prev.fingerprints[k][prev.deliveredRoles[k]]
          /\ Known(prev, k, prev.deliveredRoles[k]) # Unknown
      BY <3>2 DEF Known, Understood
    <3>4. TextOf(prev, page, k, prev.deliveredRoles[k]) = Known(prev, k, prev.deliveredRoles[k])
      BY <1>c, <3>1, <3>3, TextKept
    <3>5. Given(k, more, prev.deliveredRoles[k], TextOf(prev, page, k, prev.deliveredRoles[k]))
      BY <1>4, <3>2, <3>3, <3>4 DEF Understood
    <3> QED BY <2>1, <3>1, <3>3, <3>4, <3>5
  <2>3. CASE ~ AlreadyGiven(prev, m(i))
    <3>1. PICK j \in Wanted(prev, page) :
            m(j).key = m(i).key /\ (m(i).role = "primary" => m(j).role = "primary")
      BY <2>3, WantedPlace DEF m
    <3>2. j \in kept /\ j \in DOMAIN page.messages
      BY <1>6, <1>9, <1>i, <3>1
    <3>3. Given(k, more, m(j).role, m(j).text) /\ m(j).role \in Role
      BY <1>5, <1>9, <1>m, <3>1, <3>2
    <3>4. TextOf(prev, page, k, m(j).role) = m(j).text /\ m(j).text # Unknown
      BY <1>t, <3>1, <3>2
    <3> QED BY <2>1, <3>1, <3>3, <3>4
  <2> QED BY <2>2, <2>3
<1>10. ASSUME ~ next.lossy  PROVE Whole(more)
  <2> SUFFICES ASSUME NEW x \in DOMAIN more, NEW seen \in more[x].seen
               PROVE  \E j \in DOMAIN more : \E n \in more[j].items :
                        /\ n.key = seen.key /\ n.text = seen.text /\ ~ n.cut
                        /\ seen.role = "primary" => n.role = "primary"
    BY DEF Whole
  <2>1. CASE x = z
    <3>1. seen \in ToSet(page.messages)
      BY <1>a, <2>1 DEF log, Result
    <3>2. PICK i \in DOMAIN page.messages : seen = m(i)
      BY <3>1 DEF ToSet, m
    <3> QED BY <1>9, <1>10, <3>2
  <2>2. CASE x # z
    <3>1. x \in DOMAIN pages /\ seen \in pages[x].seen
      BY <1>a, <1>b, <2>2
    <3>2. Whole(pages)
      BY <1>6, <1>10 DEF Story
    <3>3. PICK j \in DOMAIN pages : \E n \in pages[j].items :
                        /\ n.key = seen.key /\ n.text = seen.text /\ ~ n.cut
                        /\ seen.role = "primary" => n.role = "primary"
      BY <3>1, <3>2 DEF Whole
    <3> QED BY <1>b, <3>3
  <2> QED BY <2>1, <2>2
<1> QED BY <1>1, <1>3, <1>8, <1>10, <1>r DEF Story

\* It repeats nothing, and is called complete only if nothing was left out.
LEMMA NextAddsUp ==
  ASSUME NEW prev, NEW pages, IsSequence(pages), Story(prev, pages), GivenOnce(pages),
         NEW page \in Pages, NEW kept \in Fitting(prev, page), NEW cut \in SUBSET kept,
         Valid(prev, page),
         NEW more, more = Append(pages, Result(prev, page, kept, cut))
  PROVE  IsSequence(more) /\ GivenOnce(more) /\ CompleteIsWhole(more)
<1> DEFINE log == Result(prev, page, kept, cut)
<1>i. /\ \A i \in kept : i \in DOMAIN page.messages /\ ~ AlreadyGiven(prev, page.messages[i])
      /\ \A n \in log.items : \E i \in kept :
           n.key = page.messages[i].key /\ n.role = page.messages[i].role
  BY ResultItems
<1>a. PICK z \in DOMAIN more :
        /\ more[z] = log /\ \A i \in DOMAIN more : i = z \/ (i \in DOMAIN pages /\ i < z)
  BY AppendPage
<1>b. \A i \in DOMAIN pages : i \in DOMAIN more /\ more[i] = pages[i]
  BY AppendPage
<1>c. IsSequence(more) /\ Last(more) = log
  BY AppendPage
<1>d. DOMAIN more \subseteq Nat
  BY <1>c DEF IsSequence
<1>e. log.complete => ~ Lossy(prev, page, kept, cut)
  BY DEF Result
<1> HIDE DEF log
<1>1. ASSUME NEW i \in DOMAIN more, NEW j \in DOMAIN more, i < j,
             NEW old \in more[i].items, NEW n \in more[j].items, old.key = n.key
      PROVE  old.role = "context" /\ n.role = "primary"
  <2>1. i \in DOMAIN pages /\ i # z
    BY <1>1, <1>a, <1>d
  <2>2. CASE j = z
    <3>1. PICK p \in kept : n.key = page.messages[p].key /\ n.role = page.messages[p].role
      BY <1>1, <1>a, <1>i, <2>2
    <3>2. page.messages[p].role \in Role
      BY <1>i, PageMessages
    <3>3. /\ old.role \in Role /\ old.key \in DOMAIN prev.deliveredRoles
          /\ old.role = "primary" => prev.deliveredRoles[old.key] = "primary"
      BY <1>1, <1>b, <2>1 DEF Story
    <3> QED BY <1>1, <1>i, <3>1, <3>2, <3>3 DEF AlreadyGiven, Role
  <2>3. CASE j # z
    BY <1>1, <1>a, <1>b, <2>1, <2>3 DEF GivenOnce
  <2> QED BY <2>2, <2>3
<1>2. GivenOnce(more)
  BY <1>1 DEF GivenOnce
<1>3. CompleteIsWhole(more)
  <2>1. PICK next : next = Continued(prev, page, kept, cut, 1)
    OBVIOUS
  <2>2. ~ next.lossy => Whole(more)
    BY <2>1, NextStory
  <2>3. next.lossy <=> Lossy(prev, page, kept, cut)
    BY <2>1, NextRoles
  <2> QED BY <1>c, <1>e, <2>2, <2>3 DEF CompleteIsWhole
<1> QED BY <1>c, <1>2, <1>3


\* The pages a state goes on from: those of its chain.
Told(t, log) == IF t.chain = 0 THEN <<>> ELSE log[t.chain]
IsState(t, log) ==
  /\ {"chain", "lossy", "fingerprints", "deliveredRoles"} \subseteq DOMAIN t
  /\ t.chain # 0 => t.chain \in DOMAIN log
  /\ Story(t, Told(t, log))
Busy == {s \in Search : search[s] # NoSearch}

\* A chain goes on from one place at most: its cursor, or the search that holds it.
Apart ==
  /\ \A c, d \in DOMAIN cursors : cursors[c].chain = cursors[d].chain => c = d
  /\ \A s \in Busy, c \in DOMAIN cursors :
       search[s].previous.chain = cursors[c].chain => search[s].cursor = c
  /\ \A s, t \in Busy :
       search[s].previous.chain = search[t].previous.chain => s = t \/ search[s].previous.chain = 0
  /\ \A s, t \in Busy : search[s].cursor = search[t].cursor => s = t \/ search[s].cursor = NoCursor
Numbered ==
  /\ pageCount \in Nat /\ DOMAIN cursors \subseteq 1 .. pageCount /\ DOMAIN given \subseteq 1 .. pageCount
AddsUp(pages) == IsSequence(pages) /\ GivenOnce(pages) /\ CompleteIsWhole(pages)
Continuing ==
  /\ \A c \in DOMAIN cursors : IsState(cursors[c], given) /\ cursors[c].chain # 0
  /\ \A s \in Busy :
       /\ IsState(search[s].previous, given)
       /\ (search[s].cursor = NoCursor) <=> (search[s].previous.chain = 0)
       /\ search[s].cursor # NoCursor => search[s].cursor \in inFlight
SearchInv ==
  /\ DOMAIN search = Search /\ Numbered /\ Continuing /\ Apart
  /\ \A x \in DOMAIN given : AddsUp(given[x])

\* A state stays one while the pages of its chain do.
LEMMA StateStays ==
  ASSUME NEW t, NEW log, NEW later, IsState(t, log),
         t.chain # 0 => t.chain \in DOMAIN later /\ later[t.chain] = log[t.chain]
  PROVE  IsState(t, later)
<1>1. Told(t, later) = Told(t, log)
  BY DEF Told
<1> QED BY <1>1 DEF IsState

\* A search begins.
LEMMA BeginKept ==
  ASSUME SearchInv, NEW s \in Search, NEW q \in Query, NEW c \in DOMAIN cursors \cup {NoCursor},
         BeginSearch(s, q, c)
  PROVE  SearchInv'
<1>1. PICK kept : /\ kept = Without(cursors, {x \in DOMAIN cursors : cursors[x].expired})
                  /\ cursors' = kept
                  /\ UNCHANGED <<pageCount, given>> /\ search[s] = NoSearch
                  /\ \/ /\ c = NoCursor /\ UNCHANGED inFlight
                        /\ search' = [search EXCEPT ![s] =
                             [pc |-> "asked", cursor |-> NoCursor, previous |-> Fresh(q)]]
                     \/ /\ c \in DOMAIN kept \ inFlight /\ inFlight' = inFlight \cup {c}
                        /\ search' = [search EXCEPT ![s] =
                             [pc |-> "asked", cursor |-> c, previous |-> kept[c]]]
  BY DEF BeginSearch
<1>2. DOMAIN kept \subseteq DOMAIN cursors /\ \A d \in DOMAIN kept : kept[d] = cursors[d]
  BY <1>1 DEF Without
<1>n. NoCursor \notin Nat /\ DOMAIN cursors \subseteq Nat
  BY SearchAssumption DEF SearchInv, Numbered
<1>4. PICK previous :
        /\ DOMAIN search' = Search /\ \A t \in Search \ {s} : search'[t] = search[t]
        /\ search'[s] = [pc |-> "asked", cursor |-> c, previous |-> previous]
        /\ inFlight \subseteq inFlight'
        /\ \/ c = NoCursor /\ previous = Fresh(q)
           \/ c # NoCursor /\ c \in DOMAIN kept /\ c \notin inFlight /\ c \in inFlight' /\ previous = cursors[c]
  <2>1. CASE c = NoCursor
    BY <1>1, <1>2, <1>n, <2>1 DEF SearchInv
  <2>2. CASE c # NoCursor
    BY <1>1, <1>2, <1>n, <2>2 DEF SearchInv
  <2> QED BY <2>1, <2>2
<1>5. search'[s].cursor = c /\ search'[s].previous = previous
  BY <1>4
<1>6. \A t \in Busy' : t = s \/ (t \in Busy /\ t # s /\ search'[t] = search[t])
  BY <1>4 DEF Busy
<1>c. \A d \in DOMAIN cursors : IsState(cursors[d], given) /\ cursors[d].chain # 0
  BY DEF SearchInv, Continuing
<1>b. \A t \in Busy :
        /\ IsState(search[t].previous, given)
        /\ (search[t].cursor = NoCursor) <=> (search[t].previous.chain = 0)
        /\ search[t].cursor # NoCursor => search[t].cursor \in inFlight
  BY DEF SearchInv, Continuing
<1>7. /\ IsState(previous, given)
      /\ (c = NoCursor) <=> (previous.chain = 0)
      /\ c # NoCursor => /\ c \in inFlight' /\ c \notin inFlight /\ c \in DOMAIN cursors
                         /\ previous = cursors[c]
  <2>1. CASE c = NoCursor
    <3>1. /\ previous.chain = 0 /\ previous.deliveredRoles = <<>> /\ previous.fingerprints = <<>>
          /\ {"chain", "lossy", "fingerprints", "deliveredRoles"} \subseteq DOMAIN previous
      BY <1>2, <1>4, <1>n, <2>1 DEF Fresh
    <3>2. Story(previous, <<>>)
      BY <3>1 DEF Story, Whole
    <3> QED BY <2>1, <3>1, <3>2 DEF IsState, Told
  <2>2. CASE c # NoCursor
    BY <1>2, <1>4, <1>c, <2>2
  <2> QED BY <2>1, <2>2
<1>8. Continuing'
  <2>1. ASSUME NEW d \in DOMAIN cursors'
        PROVE  IsState(cursors'[d], given') /\ cursors'[d].chain # 0
    <3>1. d \in DOMAIN cursors /\ cursors'[d] = cursors[d] /\ given' = given
      BY <1>1, <1>2
    <3> QED BY <1>c, <3>1
  <2>2. ASSUME NEW t \in Busy'
        PROVE  /\ IsState(search'[t].previous, given')
               /\ (search'[t].cursor = NoCursor) <=> (search'[t].previous.chain = 0)
               /\ search'[t].cursor # NoCursor => search'[t].cursor \in inFlight'
    <3>1. given' = given /\ inFlight \subseteq inFlight'
      BY <1>1, <1>4
    <3>2. CASE t = s
      BY <1>5, <1>7, <3>1, <3>2
    <3>3. CASE t # s
      BY <1>b, <1>6, <3>1, <3>3
    <3> QED BY <3>2, <3>3
  <2> QED BY <2>1, <2>2 DEF Continuing
<1>9. Apart'
  <2>1. ASSUME NEW t \in Busy', t # s, previous.chain # 0
        PROVE  search'[t].previous.chain # previous.chain
    <3>1. c \in DOMAIN cursors /\ c \notin inFlight /\ previous = cursors[c] /\ c # NoCursor
      BY <1>7, <2>1
    <3>2. t \in Busy /\ search'[t] = search[t]
      BY <1>6, <2>1
    <3>3. search[t].cursor # c
      BY <1>b, <3>1, <3>2
    <3> QED BY <3>1, <3>2, <3>3 DEF SearchInv, Apart
  <2>2. ASSUME NEW t \in Busy', t # s, c # NoCursor  PROVE search'[t].cursor # c
    <3>1. c \notin inFlight
      BY <1>7, <2>2
    <3> QED BY <1>6, <1>b, <2>2, <3>1
  <2>3. \A d, e \in DOMAIN cursors' : cursors'[d].chain = cursors'[e].chain => d = e
    BY <1>1, <1>2 DEF SearchInv, Apart
  <2>4. ASSUME NEW t \in Busy', NEW d \in DOMAIN cursors',
               search'[t].previous.chain = cursors'[d].chain
        PROVE  search'[t].cursor = d
    <3>1. d \in DOMAIN cursors /\ cursors'[d] = cursors[d] /\ cursors[d].chain # 0
      BY <1>1, <1>2, <1>c, <2>4
    <3>2. CASE t = s
      <4>1. c \in DOMAIN cursors /\ previous = cursors[c]
        BY <1>5, <1>7, <2>4, <3>1, <3>2
      <4> QED BY <1>5, <2>4, <3>1, <3>2, <4>1 DEF SearchInv, Apart
    <3>3. CASE t # s
      BY <1>6, <2>4, <3>1, <3>3 DEF SearchInv, Apart
    <3> QED BY <3>2, <3>3
  <2>5. ASSUME NEW t \in Busy', NEW u \in Busy',
               search'[t].previous.chain = search'[u].previous.chain
        PROVE  t = u \/ search'[t].previous.chain = 0
    <3>1. CASE t = s \/ u = s
      BY <1>5, <2>1, <2>5, <3>1
    <3>2. CASE t # s /\ u # s
      BY <1>6, <2>5, <3>2 DEF SearchInv, Apart
    <3> QED BY <3>1, <3>2
  <2>6. ASSUME NEW t \in Busy', NEW u \in Busy', search'[t].cursor = search'[u].cursor
        PROVE  t = u \/ search'[t].cursor = NoCursor
    <3>1. CASE t = s \/ u = s
      BY <1>5, <2>2, <2>6, <3>1
    <3>2. CASE t # s /\ u # s
      BY <1>6, <2>6, <3>2 DEF SearchInv, Apart
    <3> QED BY <3>1, <3>2
  <2> QED BY <2>3, <2>4, <2>5, <2>6 DEF Apart
<1>10. Numbered'
  BY <1>1, <1>2 DEF SearchInv, Numbered
<1>11. \A x \in DOMAIN given' : AddsUp(given'[x])
  BY <1>1 DEF SearchInv
<1> QED BY <1>4, <1>8, <1>9, <1>10, <1>11 DEF SearchInv

\* A page is answered.
LEMMA AnswerKept ==
  ASSUME SearchInv, NEW s \in Search, AnswerPage(s)
  PROVE  SearchInv'
<1> DEFINE prev == search[s].previous
           id == pageCount + 1
           chain == IF prev.chain = 0 THEN id ELSE prev.chain
           pages == Told(prev, given)
           room == IF Cardinality(DOMAIN cursors) >= MaxCursors
                   THEN Without(cursors, {Min(DOMAIN cursors)}) ELSE cursors
           Saved(page, next) ==
             IF page.next # NoCursor /\ prev.page + 1 < MaxPages
             THEN [x \in DOMAIN room \union {id} |-> IF x = id THEN next ELSE room[x]]
             ELSE cursors
           Answers(page, kept, cut) ==
             /\ Valid(prev, page)
             /\ cursors' = Without(Saved(page, Continued(prev, page, kept, cut, chain)), {search[s].cursor})
             /\ given' = [x \in DOMAIN given \union {chain} |->
                            IF x = chain
                            THEN Append(IF prev.chain = 0 THEN <<>> ELSE given[chain],
                                        Result(prev, page, kept, cut))
                            ELSE given[x]]
<1>p. PICK page \in Pages :
        \E kept \in Fitting(prev, page) : \E cut \in SUBSET kept : Answers(page, kept, cut)
  BY Zenon DEF AnswerPage
<1>k. PICK kept \in Fitting(prev, page) : \E cut \in SUBSET kept : Answers(page, kept, cut)
  BY <1>p
<1>u. PICK cut \in SUBSET kept : Answers(page, kept, cut)
  BY <1>k
<1>x. PICK next, more : /\ next = Continued(prev, page, kept, cut, chain)
                        /\ more = Append(pages, Result(prev, page, kept, cut))
  OBVIOUS
<1>1. /\ Valid(prev, page)
      /\ \A d \in DOMAIN cursors' :
           /\ d # search[s].cursor
           /\ \/ d = id /\ cursors'[d] = next
              \/ d # id /\ d \in DOMAIN cursors /\ cursors'[d] = cursors[d]
      /\ given' = [x \in DOMAIN given \cup {chain} |-> IF x = chain THEN more ELSE given[x]]
  <2>1. DOMAIN room \subseteq DOMAIN cursors /\ \A d \in DOMAIN room : room[d] = cursors[d]
    BY DEF Without
  <2>2. id \notin DOMAIN cursors
    BY DEF SearchInv, Numbered
  <2> HIDE DEF room
  <2>3. \A d \in DOMAIN Saved(page, next) :
          \/ d = id /\ Saved(page, next)[d] = next
          \/ d # id /\ d \in DOMAIN cursors /\ Saved(page, next)[d] = cursors[d]
    BY <2>1, <2>2
  <2> HIDE DEF Saved
  <2>4. \A d \in DOMAIN cursors' :
          d # search[s].cursor /\ d \in DOMAIN Saved(page, next) /\ cursors'[d] = Saved(page, next)[d]
    BY <1>u, <1>x DEF Without
  <2>5. pages = IF prev.chain = 0 THEN <<>> ELSE given[chain]
    BY DEF Told
  <2>6. given' = [x \in DOMAIN given \cup {chain} |-> IF x = chain THEN more ELSE given[x]]
    BY <1>u, <1>x, <2>5
  <2> QED BY <1>u, <2>3, <2>4, <2>6
<1> HIDE DEF room, Saved, Answers
<1>2. /\ search[s] # NoSearch /\ pageCount' = id
      /\ search' = [search EXCEPT ![s] = NoSearch] /\ inFlight' = inFlight \ {search[s].cursor}
  BY DEF AnswerPage, Unlock
<1>3. /\ DOMAIN search' = Search /\ s \in Busy
      /\ \A t \in Busy' : t # s /\ t \in Busy /\ search'[t] = search[t]
  BY <1>2 DEF SearchInv, Busy
<1>n. /\ pageCount \in Nat /\ id \in Nat /\ id # 0 /\ id \notin DOMAIN given
      /\ DOMAIN cursors \subseteq 1 .. pageCount /\ DOMAIN given \subseteq 1 .. pageCount
  BY DEF SearchInv, Numbered
<1>b. \A t \in Busy :
        /\ IsState(search[t].previous, given)
        /\ (search[t].cursor = NoCursor) <=> (search[t].previous.chain = 0)
        /\ search[t].cursor # NoCursor => search[t].cursor \in inFlight
  BY DEF SearchInv, Continuing
<1>d. \A d \in DOMAIN cursors : IsState(cursors[d], given) /\ cursors[d].chain # 0
  BY DEF SearchInv, Continuing
<1>4. IsState(prev, given) /\ Story(prev, pages) /\ AddsUp(pages)
  <2>1. IsState(prev, given)
    BY <1>3, <1>b
  <2>2. CASE prev.chain = 0
    <3>1. pages = <<>>
      BY <2>2 DEF Told
    <3>2. <<>> \in Seq({})
      OBVIOUS
    <3>3. IsSequence(<<>>) /\ GivenOnce(<<>>) /\ Whole(<<>>)
      BY <3>2 DEF IsSequence, GivenOnce, Whole
    <3> QED BY <2>1, <3>1, <3>3 DEF IsState, AddsUp, CompleteIsWhole
  <2>3. CASE prev.chain # 0
    BY <2>1, <2>3 DEF SearchInv, IsState, Told
  <2> QED BY <2>2, <2>3
<1>5. Story(next, more) /\ AddsUp(more)
  BY <1>1, <1>x, <1>4, NextStory, NextAddsUp DEF AddsUp
<1>6. /\ chain \in DOMAIN given' /\ given'[chain] = more /\ chain # 0
      /\ \A x \in DOMAIN given : x \in DOMAIN given' /\ (x # chain => given'[x] = given[x])
      /\ DOMAIN given' \subseteq 1 .. id
  <2>1. chain \in 1 .. id
    BY <1>4, <1>n DEF IsState
  <2> HIDE DEF chain, id
  <2>2. DOMAIN given' = DOMAIN given \cup {chain} /\ given'[chain] = more
        /\ \A x \in DOMAIN given : x # chain => given'[x] = given[x]
    BY <1>1
  <2>3. chain # 0 /\ DOMAIN given \subseteq 1 .. id
    BY <1>n, <2>1 DEF id
  <2> QED BY <2>1, <2>2, <2>3
<1>7. IsState(next, given') /\ next.chain = chain
  <2>1. /\ {"chain", "lossy", "fingerprints", "deliveredRoles"} \subseteq DOMAIN next
        /\ next.chain = chain
    BY <1>x DEF Continued
  <2> QED BY <1>5, <1>6, <2>1 DEF IsState, Told
<1>8. ASSUME NEW d \in DOMAIN cursors, d # search[s].cursor
      PROVE  cursors[d].chain # chain /\ IsState(cursors[d], given')
  <2>1. cursors[d].chain # chain
    <3>1. CASE prev.chain = 0
      BY <1>d, <1>n, <1>8, <3>1 DEF IsState
    <3>2. CASE prev.chain # 0
      BY <1>3, <1>8, <3>2 DEF SearchInv, Apart
    <3> QED BY <3>1, <3>2
  <2> QED BY <1>6, <1>d, <2>1, StateStays DEF IsState
<1>9. ASSUME NEW t \in Busy, t # s
      PROVE  search[t].previous.chain # chain /\ IsState(search[t].previous, given')
  <2>1. search[t].previous.chain # chain
    <3>1. CASE prev.chain = 0
      BY <1>b, <1>n, <1>9, <3>1 DEF IsState
    <3>2. CASE prev.chain # 0
      BY <1>3, <1>9, <3>2 DEF SearchInv, Apart
    <3> QED BY <3>1, <3>2
  <2> QED BY <1>6, <1>b, <2>1, StateStays DEF IsState
<1> HIDE DEF prev, id, chain, pages
<1>10. Continuing'
  <2>1. ASSUME NEW d \in DOMAIN cursors'
        PROVE  IsState(cursors'[d], given') /\ cursors'[d].chain # 0
    BY <1>1, <1>6, <1>7, <1>8, <1>d
  <2>2. ASSUME NEW t \in Busy'
        PROVE  /\ IsState(search'[t].previous, given')
               /\ (search'[t].cursor = NoCursor) <=> (search'[t].previous.chain = 0)
               /\ search'[t].cursor # NoCursor => search'[t].cursor \in inFlight'
    <3>1. search[t].cursor # NoCursor => search[t].cursor # search[s].cursor
      BY <1>3, <2>2 DEF SearchInv, Apart
    <3> QED BY <1>2, <1>3, <1>9, <1>b, <2>2, <3>1
  <2> QED BY <2>1, <2>2 DEF Continuing
<1>11. Apart'
  <2>1. ASSUME NEW d \in DOMAIN cursors', NEW e \in DOMAIN cursors', cursors'[d].chain = cursors'[e].chain
        PROVE  d = e
    <3>1. CASE d = id \/ e = id
      BY <1>1, <1>7, <1>8, <2>1, <3>1
    <3>2. CASE d # id /\ e # id
      BY <1>1, <2>1, <3>2 DEF SearchInv, Apart
    <3> QED BY <3>1, <3>2
  <2>2. ASSUME NEW t \in Busy', NEW d \in DOMAIN cursors', search'[t].previous.chain = cursors'[d].chain
        PROVE  search'[t].cursor = d
    <3>1. CASE d = id
      BY <1>1, <1>3, <1>7, <1>9, <2>2, <3>1
    <3>2. CASE d # id
      BY <1>1, <1>3, <2>2, <3>2 DEF SearchInv, Apart
    <3> QED BY <3>1, <3>2
  <2>3. ASSUME NEW t \in Busy', NEW u \in Busy'
        PROVE  /\ search'[t].previous.chain = search'[u].previous.chain =>
                    t = u \/ search'[t].previous.chain = 0
               /\ search'[t].cursor = search'[u].cursor => t = u \/ search'[t].cursor = NoCursor
    BY <1>3, <2>3 DEF SearchInv, Apart
  <2> QED BY <2>1, <2>2, <2>3 DEF Apart
<1>12. Numbered'
  <2>1. \A d \in DOMAIN cursors' : d = id \/ d \in DOMAIN cursors
    BY <1>1
  <2> QED BY <1>2, <1>6, <1>n, <2>1 DEF Numbered, id
<1>13. \A x \in DOMAIN given' : AddsUp(given'[x])
  BY <1>1, <1>5, <1>6 DEF SearchInv
<1> QED BY <1>3, <1>10, <1>11, <1>12, <1>13 DEF SearchInv

\* A search ends without a page.
LEMMA FailsKept ==
  ASSUME SearchInv, NEW s \in Search, SearchFails(s)
  PROVE  SearchInv'
<1>1. /\ UNCHANGED <<cursors, pageCount, given>>
      /\ search' = [search EXCEPT ![s] = NoSearch] /\ inFlight' = inFlight \ {search[s].cursor}
      /\ s \in Busy
  BY DEF SearchFails, Unlock, Busy
<1>2. DOMAIN search' = Search /\ \A t \in Busy' : t # s /\ t \in Busy /\ search'[t] = search[t]
  BY <1>1 DEF SearchInv, Busy
<1>3. ASSUME NEW t \in Busy'  PROVE search[t].cursor # NoCursor => search[t].cursor # search[s].cursor
  BY <1>1, <1>2, <1>3 DEF SearchInv, Apart
<1>4. Continuing'
  BY <1>1, <1>2, <1>3 DEF SearchInv, Continuing
<1>5. Apart'
  BY <1>1, <1>2 DEF SearchInv, Apart
<1>6. Numbered'
  BY <1>1 DEF SearchInv, Numbered
<1> QED BY <1>1, <1>2, <1>4, <1>5, <1>6 DEF SearchInv

\* A cursor grows too old.
LEMMA ExpiresKept ==
  ASSUME SearchInv, NEW c \in DOMAIN cursors, CursorExpires(c)
  PROVE  SearchInv'
<1>1. /\ cursors' = [cursors EXCEPT ![c].expired = TRUE]
      /\ UNCHANGED <<inFlight, search, pageCount, given>>
  BY DEF CursorExpires
<1>2. ASSUME NEW d \in DOMAIN cursors
      PROVE  /\ DOMAIN cursors'[d] = DOMAIN cursors[d]
             /\ {"chain", "lossy", "fingerprints", "deliveredRoles"} \subseteq DOMAIN cursors[d]
             /\ cursors'[d].chain = cursors[d].chain /\ cursors'[d].lossy = cursors[d].lossy
             /\ cursors'[d].fingerprints = cursors[d].fingerprints
             /\ cursors'[d].deliveredRoles = cursors[d].deliveredRoles
  <2>1. {"chain", "lossy", "fingerprints", "deliveredRoles"} \subseteq DOMAIN cursors[d]
    BY DEF SearchInv, Continuing, IsState
  <2>2. CASE d = c
    <3>1. cursors'[d] = [cursors[d] EXCEPT !.expired = TRUE]
      BY <1>1, <2>2
    <3> QED BY <2>1, <3>1
  <2>3. CASE d # c
    BY <1>1, <2>1, <2>3
  <2> QED BY <2>2, <2>3
<1>3. DOMAIN cursors' = DOMAIN cursors
  BY <1>1
<1>4. ASSUME NEW d \in DOMAIN cursors  PROVE IsState(cursors'[d], given') /\ cursors'[d].chain # 0
  <2>1. IsState(cursors[d], given) /\ cursors[d].chain # 0
    BY DEF SearchInv, Continuing
  <2>2. Told(cursors'[d], given') = Told(cursors[d], given)
    BY <1>1, <1>2 DEF Told
  <2>3. Story(cursors'[d], Told(cursors[d], given))
    BY <1>2, <2>1 DEF IsState, Story, Understood
  <2> QED BY <1>1, <1>2, <2>1, <2>2, <2>3 DEF IsState
<1>5. Continuing'
  BY <1>1, <1>3, <1>4 DEF SearchInv, Continuing, Busy
<1>6. Apart'
  BY <1>1, <1>2, <1>3 DEF SearchInv, Apart, Busy
<1>7. Numbered'
  BY <1>1, <1>3 DEF SearchInv, Numbered
<1> QED BY <1>1, <1>5, <1>6, <1>7 DEF SearchInv

\* PagesAddUp: continuing a search, with retries, expiry, eviction and two calls for the
\* same page at once, no message is given twice in a role or as context after a match, and a
\* chain called complete has given all that Slack showed on it (search.ts:148, 286, 325).
THEOREM SearchesAddUp == SearchSpec => []PagesAddUp
<1>1. SearchInit => SearchInv
  <2>1. SearchInit => DOMAIN cursors = {} /\ DOMAIN given = {} /\ Busy = {}
    BY DEF SearchInit, Busy
  <2> QED BY <2>1 DEF SearchInit, SearchInv, Numbered, Continuing, Apart
<1>2. SearchInv /\ [SearchNext]_searchVars => SearchInv'
  <2> SUFFICES ASSUME SearchInv, [SearchNext]_searchVars  PROVE SearchInv'
    OBVIOUS
  <2>1. CASE \E s \in Search, q \in Query, c \in DOMAIN cursors \union {NoCursor} : BeginSearch(s, q, c)
    BY <2>1, BeginKept
  <2>2. CASE \E s \in Search : AnswerPage(s)
    BY <2>2, AnswerKept
  <2>3. CASE \E s \in Search : SearchFails(s)
    BY <2>3, FailsKept
  <2>4. CASE \E c \in DOMAIN cursors : CursorExpires(c)
    BY <2>4, ExpiresKept
  <2>5. CASE UNCHANGED searchVars
    <3>1. Continuing' /\ Apart' /\ Numbered'
      BY <2>5 DEF SearchInv, searchVars, Continuing, Apart, Numbered, Busy
    <3> QED BY <2>5, <3>1 DEF SearchInv, searchVars
  <2> QED BY <2>1, <2>2, <2>3, <2>4, <2>5 DEF SearchNext
<1>3. SearchInv => PagesAddUp
  BY DEF SearchInv, PagesAddUp, AddsUp
<1> QED BY <1>1, <1>2, <1>3, PTL DEF SearchSpec
=============================================================================
