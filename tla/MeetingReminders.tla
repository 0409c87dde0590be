---------------------------- MODULE MeetingReminders ----------------------------
(***************************************************************************)
(* The reminders of meetings: every process polls Radar for what is due,   *)
(* claims each reminder in the database for five minutes, posts it, marks  *)
(* it delivered and acknowledges it to Radar; requests and writes fail, or *)
(* are applied without an answer, and processes stall or crash.            *)
(***************************************************************************)
EXTENDS Integers, FiniteSets

CONSTANTS
  Reminder,
  Poller,       \* the processes
  NoReminder,
  MaxReminderFaults \* bound: failures, lost answers, crashes

ASSUME RemindersAssumption == NoReminder \notin Reminder /\ MaxReminderFaults \in Nat

VARIABLES
  due,          \* reminders Radar lists
  row,          \* meeting_reminder_deliveries
  poll,         \* where the poll of a process is: its reminder, and those to come
  posts,        \* how often a reminder is in its channel
  causes,       \* ghost: failures that concern a reminder, and claims taken over
  reminderFaults

reminderVars == <<due, row, poll, posts, causes, reminderFaults>>

\* stale: claimed more than five minutes ago
NoRow == [state |-> "none", stale |-> FALSE]
Resting == [pc |-> "idle", reminder |-> NoReminder, todo |-> {}]

RemindersInit ==
  /\ due = Reminder
  /\ row = [r \in Reminder |-> NoRow]
  /\ poll = [p \in Poller |-> Resting]
  /\ posts = [r \in Reminder |-> 0] /\ causes = [r \in Reminder |-> 0]
  /\ reminderFaults = 0

CanFail == reminderFaults < MaxReminderFaults
Failed == CanFail /\ reminderFaults' = reminderFaults + 1
Cause(r) == causes' = [causes EXCEPT ![r] = @ + 1]
NoCause == UNCHANGED causes
Well == UNCHANGED <<causes, reminderFaults>>

Of(p) == poll[p].reminder
In(p, pc) == poll[p].pc = pc
Step(p, pc) == poll' = [poll EXCEPT ![p].pc = pc]

\* The reminder is done with, well or not; the poll goes on to the others.
NextReminder(p) == poll' = [poll EXCEPT ![p].pc = "loop", ![p].reminder = NoReminder]

\* The poll of a minute, unless the last one still runs. It fails as a whole.
Due(p) ==
  /\ In(p, "idle") /\ due # {}
  /\ poll' = [poll EXCEPT ![p] = [pc |-> "loop", reminder |-> NoReminder, todo |-> due]]
  /\ UNCHANGED <<due, row, posts, causes, reminderFaults>>

Take(p) ==
  /\ In(p, "loop")
  /\ \/ poll[p].todo = {} /\ poll' = [poll EXCEPT ![p] = Resting]
     \/ \E r \in poll[p].todo :
          poll' = [poll EXCEPT ![p] = [pc |-> "claim", reminder |-> r, todo |-> @.todo \ {r}]]
  /\ UNCHANGED <<due, row, posts, causes, reminderFaults>>

\* Mutant of Claimable: the age of a claim is not looked at.
ClaimableAnyAge(r) == row[r].state \in {"none", "claimed"}

\* Mutant of Claimable: a claim is for ever.
ClaimableNew(r) == row[r].state = "none"

Claimable(r) == row[r].state = "none" \/ (row[r].state = "claimed" /\ row[r].stale)

Claimed(r) == row' = [row EXCEPT ![r] = [state |-> "claimed", stale |-> FALSE]]

\* The upsert; where it changes nothing the row is read next.
Claim(p) ==
  /\ In(p, "claim")
  /\ LET r == Of(p) IN
     \/ /\ Claimable(r) /\ Claimed(r) /\ Step(p, "post")
        /\ UNCHANGED reminderFaults
        /\ IF row[r].state = "claimed" /\ row[r].stale THEN Cause(r) ELSE NoCause
     \/ ~Claimable(r) /\ Step(p, "look") /\ Well /\ UNCHANGED row
     \/ /\ Failed /\ Cause(r) /\ NextReminder(p)
        /\ UNCHANGED row \/ (Claimable(r) /\ Claimed(r))
  /\ UNCHANGED <<due, posts>>

Look(p) ==
  /\ In(p, "look")
  /\ IF row[Of(p)].state = "delivered" THEN Step(p, "ack") ELSE NextReminder(p)
  /\ UNCHANGED <<due, row, posts, causes, reminderFaults>>

\* chat.postMessage. Slack may have posted what the client sends again or reports failed.
Post(p) ==
  /\ In(p, "post")
  /\ LET r == Of(p) posted == [posts EXCEPT ![r] = @ + 1] IN
     \/ posts' = posted /\ Step(p, "mark") /\ Well
     \/ /\ posts' \in {posts, posted} /\ Failed /\ Cause(r)
        /\ Step(p, "release") \/ UNCHANGED poll
  /\ UNCHANGED <<due, row>>

Marked(r) == row' = [row EXCEPT ![r] = IF @.state = "none" THEN @ ELSE [state |-> "delivered", stale |-> FALSE]]

MarkDelivered(p) ==
  /\ In(p, "mark")
  /\ LET r == Of(p) IN
     \/ Marked(r) /\ Step(p, "ack") /\ Well
     \/ (Marked(r) \/ UNCHANGED row) /\ Step(p, "release") /\ Failed /\ Cause(r)
  /\ UNCHANGED <<due, posts>>

\* The claim is given up, whoever holds it by now, unless the reminder is delivered.
Released(r) == row' = [row EXCEPT ![r] = IF @.state = "claimed" THEN NoRow ELSE @]

Release(p) ==
  /\ In(p, "release")
  /\ LET r == Of(p) IN
     \/ Released(r) /\ Well
     \/ (Released(r) \/ UNCHANGED row) /\ Failed /\ Cause(r)
  /\ NextReminder(p)
  /\ UNCHANGED <<due, posts>>

\* Radar takes the acknowledgement; recording it changes nothing a later poll reads.
Ack(p) ==
  /\ In(p, "ack")
  /\ \/ due' = due \ {Of(p)} /\ Well
     \/ due' \in {due, due \ {Of(p)}} /\ Failed /\ Cause(Of(p))
  /\ NextReminder(p)
  /\ UNCHANGED <<row, posts>>

\* Five minutes pass since a claim.
Expire(r) ==
  /\ row[r].state = "claimed" /\ ~row[r].stale
  /\ row' = [row EXCEPT ![r].stale = TRUE]
  /\ UNCHANGED <<due, poll, posts, causes, reminderFaults>>

CrashPoller(p) ==
  /\ ~In(p, "idle") /\ Failed
  /\ IF Of(p) = NoReminder THEN NoCause ELSE Cause(Of(p))
  /\ poll' = [poll EXCEPT ![p] = Resting]
  /\ UNCHANGED <<due, row, posts>>

PollStep(p) ==
  Due(p) \/ Take(p) \/ Claim(p) \/ Look(p) \/ Post(p) \/ MarkDelivered(p) \/ Release(p) \/ Ack(p)

RemindersNext ==
  \/ \E p \in Poller : PollStep(p) \/ CrashPoller(p)
  \/ \E r \in Reminder : Expire(r)

\* The interval polls again, requests end by their timeouts, and time passes.
RemindersFairness ==
  /\ \A p \in Poller : WF_reminderVars(PollStep(p))
  /\ \A r \in Reminder : WF_reminderVars(Expire(r))

RemindersSpec == RemindersInit /\ [][RemindersNext]_reminderVars /\ RemindersFairness

-----------------------------------------------------------------------------
(* Properties *)

\* A reminder that Radar was told is delivered has been posted, and every post after the
\* first has a cause: a failure about it, or a claim taken over after five minutes.
RemindedOnce ==
  \A r \in Reminder : (r \notin due => posts[r] >= 1) /\ posts[r] <= 1 + causes[r]

\* Every reminder is posted and acknowledged in the end, whatever claims were left behind.
RemindersSettle == <>[](due = {})
=============================================================================
