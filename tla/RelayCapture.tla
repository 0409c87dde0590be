------------------------------ MODULE RelayCapture ------------------------------
(***************************************************************************)
(* The receiver of the process: an event of Slack is captured in the       *)
(* outbox before it is acknowledged, over redeliveries, failed and         *)
(* unconfirmed commits, the start of the process, its orderly shutdown and *)
(* its crashes. The outbox and its drainers are RelayOutbox.               *)
(***************************************************************************)
EXTENDS Integers, FiniteSets, Sequences, SequencesExt

CONSTANTS
  Event,        \* the events Slack sends
  body,         \* the envelope of each
  TeamId,       \* the configured identity
  AppId,
  None,         \* an absent or null field
  Invalid,      \* one of the wrong form
  Delivery,     \* deliveries under way at once
  MaxSends,     \* bound: how often Slack sends an event it has no acknowledgement of
  DedupeLimit,
  MaxCaptureFaults  \* bound: failures, lost answers, crashes

ASSUME CaptureAssumption ==
  /\ DOMAIN body = Event
  /\ None \notin {TeamId, AppId} /\ Invalid \notin {TeamId, AppId} /\ None # Invalid
  /\ {MaxSends, DedupeLimit, MaxCaptureFaults} \subseteq Nat

VARIABLES
  life,         \* of the process
  connected,    \* the socket
  shuttingDown,
  delivery,     \* what becomes of each delivery
  committed,    \* keys whose commit this process has seen, oldest first
  closed,       \* the capture
  awaited,      \* the commits that close() waits for
  outbox,       \* events whose row has been committed, ever
  sends,        \* how often Slack has sent an event
  acked,        \* events whose acknowledgement it has
  captureFaults

process == <<life, connected, shuttingDown, closed, awaited>>
slack == <<sends, acked>>
captureVars == <<process, delivery, committed, outbox, slack, captureFaults>>

Idle == [event |-> None, pc |-> "idle"]

CaptureInit ==
  /\ life = "boot" /\ connected = FALSE /\ shuttingDown = FALSE
  /\ delivery = [d \in Delivery |-> Idle]
  /\ committed = <<>> /\ closed = FALSE /\ awaited = {}
  /\ outbox = {} /\ sends = [e \in Event |-> 0] /\ acked = {}
  /\ captureFaults = 0

CaptureFault == captureFaults < MaxCaptureFaults /\ captureFaults' = captureFaults + 1
NoCaptureFault == UNCHANGED captureFaults

-----------------------------------------------------------------------------
(* What is captured *)

CAPTURED_SUBTYPES == {"bot_message", "thread_broadcast", "file_share", "me_message"}

\* New messages of public channels; what else the socket carries is not the relay's.
Ours(b) ==
  /\ b.type = "message" /\ b.channelType = "channel"
  /\ b.subtype = None \/ b.subtype \in CAPTURED_SUBTYPES

threadOf(b) == IF b.thread = b.ts THEN None ELSE b.thread

\* The fields Radar takes: a broadcast has a parent, and whoever has no user is a bot.
WellFormed(b) ==
  /\ b.eventId # Invalid /\ b.channel # Invalid /\ b.ts # Invalid
  /\ b.thread = None \/ (b.thread # Invalid /\ b.thread <= b.ts)
  /\ b.subtype = "thread_broadcast" => threadOf(b) # None
  /\ b.user # Invalid
  /\ b.user = None => b.subtype = "bot_message" /\ b.bot \notin {None, Invalid}

extractRelayMessage(b) ==
  IF ~Ours(b) THEN "ignore"
  ELSE IF b.team # TeamId THEN IF b.team = None THEN "invalid" ELSE "mismatch"
  ELSE IF b.app # AppId THEN IF b.app = None THEN "invalid" ELSE "mismatch"
  ELSE IF WellFormed(b) THEN "capture" ELSE "invalid"

metadata(b) == [thread |-> threadOf(b), ts |-> b.ts, user |-> b.user, subtype |-> b.subtype]

-----------------------------------------------------------------------------
(* The life of the process *)

\* Migrations have run and the identity of the token is the configured one, or it stops.
Verify ==
  /\ life = "boot"
  /\ \/ life' = "verified" /\ NoCaptureFault
     \/ life' = "down" /\ CaptureFault
  /\ UNCHANGED <<connected, shuttingDown, closed, awaited, delivery, committed, outbox, slack>>

StartSocket ==
  /\ life = "verified"
  /\ \/ life' = "serving" /\ connected' = TRUE /\ NoCaptureFault
     \/ life' = "down" /\ UNCHANGED connected /\ CaptureFault
  /\ UNCHANGED <<shuttingDown, closed, awaited, delivery, committed, outbox, slack>>

\* The drainer runs and the signals are handled.
StartDrainer ==
  /\ life = "serving"
  /\ life' = "up"
  /\ UNCHANGED <<connected, shuttingDown, closed, awaited, delivery, committed, outbox, slack, captureFaults>>

Signal ==
  /\ life = "up" /\ ~shuttingDown
  /\ shuttingDown' = TRUE /\ life' = "stopping"
  /\ UNCHANGED <<connected, closed, awaited, delivery, committed, outbox, slack, captureFaults>>

Persisting == {d \in Delivery : delivery[d].pc = "persist"}

\* Mutant of Close: captures under way are awaited, but new ones are not refused.
CloseOpen == UNCHANGED closed /\ awaited' = Persisting

\* capture.close: no new commits, and those under way are awaited.
Close == closed' = TRUE /\ awaited' = Persisting

\* app.stop, which may fail with the socket open; the rest is done in either case.
StopSocket ==
  /\ life = "stopping"
  /\ \/ connected' = FALSE /\ NoCaptureFault
     \/ UNCHANGED connected /\ CaptureFault
  /\ Close
  /\ life' = "closing"
  /\ UNCHANGED <<shuttingDown, delivery, committed, outbox, slack>>

\* The commits have settled; the drainer stops.
Closed ==
  /\ life = "closing" /\ awaited = {}
  /\ life' = "draining"
  /\ UNCHANGED <<connected, shuttingDown, closed, awaited, delivery, committed, outbox, slack, captureFaults>>

ClosePool ==
  /\ life = "draining"
  /\ life' = "poolClosed"
  /\ UNCHANGED <<connected, shuttingDown, closed, awaited, delivery, committed, outbox, slack, captureFaults>>

\* process.exit, which leaves nothing of the process's memory.
Gone ==
  /\ life' = "down" /\ connected' = FALSE /\ awaited' = {}
  /\ delivery' = [d \in Delivery |-> Idle] /\ committed' = <<>>

Exit ==
  /\ life = "poolClosed"
  /\ Gone
  /\ UNCHANGED <<shuttingDown, closed, outbox, slack, captureFaults>>

\* A crash; the commits under way are applied or rolled back.
Crash ==
  /\ life \notin {"boot", "down"} /\ CaptureFault
  /\ Gone
  /\ \E lost \in SUBSET Persisting :
       outbox' = outbox \union {delivery[d].event : d \in Persisting \ lost}
  /\ UNCHANGED <<shuttingDown, closed, slack>>

\* The container is started again.
Restart ==
  /\ life = "down"
  /\ life' = "boot" /\ shuttingDown' = FALSE /\ closed' = FALSE
  /\ UNCHANGED <<connected, awaited, delivery, committed, outbox, slack, captureFaults>>

-----------------------------------------------------------------------------
(* Deliveries *)

\* capture() up to its first await: passed on to Bolt, refused, or being persisted.
Route(e) ==
  LET extraction == extractRelayMessage(body[e]) IN
  IF extraction \in {"ignore", "invalid"} THEN "process"
  ELSE IF extraction = "mismatch" \/ closed THEN "idle"
  ELSE IF e \in ToSet(committed) THEN "process"
  ELSE "persist"

\* Slack sends an event it has no acknowledgement of, once more too while one is handled.
Deliver(d, e) ==
  /\ connected /\ delivery[d].pc = "idle"
  /\ e \notin acked /\ sends[e] < MaxSends
  /\ sends' = [sends EXCEPT ![e] = @ + 1]
  /\ delivery' = [delivery EXCEPT ![d] = IF Route(e) = "idle" THEN Idle ELSE [event |-> e, pc |-> Route(e)]]
  /\ UNCHANGED <<process, committed, outbox, acked, captureFaults>>

Remembered(e) ==
  LET keys == IF e \in ToSet(committed) THEN committed ELSE Append(committed, e)
  IN  IF Len(keys) > DedupeLimit THEN Tail(keys) ELSE keys

\* Mutant of Refused: what could not be persisted is passed on all the same.
PassedOn(d) == delivery' = [delivery EXCEPT ![d].pc = "process"]

\* A failed capture throws: the event is neither acknowledged nor handled.
Refused(d) == delivery' = [delivery EXCEPT ![d] = Idle]

\* The transaction of the row ends; one that fails or runs out of time may be applied.
Persist(d) ==
  /\ delivery[d].pc = "persist"
  /\ awaited' = awaited \ {d}
  /\ LET e == delivery[d].event IN
     \/ /\ outbox' = outbox \union {e} /\ NoCaptureFault
        /\ committed' = Remembered(e)
        /\ delivery' = [delivery EXCEPT ![d].pc = "process"]
     \/ /\ outbox' \in {outbox, outbox \union {e}} /\ CaptureFault
        /\ UNCHANGED committed
        /\ Refused(d)
  /\ UNCHANGED <<life, connected, shuttingDown, closed, slack>>

\* Bolt acknowledges, then its listeners run. The acknowledgement may be lost.
ProcessEvent(d) ==
  /\ delivery[d].pc = "process"
  /\ delivery' = [delivery EXCEPT ![d] = Idle]
  /\ \/ connected /\ acked' = acked \union {delivery[d].event} /\ NoCaptureFault
     \/ connected /\ UNCHANGED acked /\ CaptureFault
     \/ ~connected /\ UNCHANGED acked /\ NoCaptureFault
  /\ UNCHANGED <<process, committed, outbox, sends>>

Shutdown == StopSocket \/ Closed \/ ClosePool \/ Exit
Settling(d) == Persist(d) \/ ProcessEvent(d)

CaptureNext ==
  \/ Verify \/ StartSocket \/ StartDrainer \/ Signal \/ Shutdown \/ Crash \/ Restart
  \/ \E d \in Delivery : Settling(d)
  \/ \E d \in Delivery, e \in Event : Deliver(d, e)

\* Transactions are bounded by their deadline, and the shutdown takes its steps.
CaptureFairness ==
  /\ WF_captureVars(Shutdown)
  /\ \A d \in Delivery : WF_captureVars(Settling(d))

CaptureSpec == CaptureInit /\ [][CaptureNext]_captureVars /\ CaptureFairness

-----------------------------------------------------------------------------
(* Properties *)

\* What Slack was told is received is in the outbox, or is none of the relay's messages;
\* an event of another team or app is never acknowledged.
AckedIsDurable ==
  \A e \in acked : e \in outbox \/ extractRelayMessage(body[e]) \in {"ignore", "invalid"}

\* A shutdown ends, and no commit is under way when the pool is closed.
ShutdownQuiet ==
  /\ [](life = "poolClosed" => Persisting = {})
  /\ [](life = "stopping" => <>(life = "down"))
=============================================================================
