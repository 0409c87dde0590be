---------------------------- MODULE Conversation ----------------------------
(***************************************************************************)
(* The conversation runtime (shookie/src/slack/conversation-runtime.ts):   *)
(* admission, one lane per thread, a pool of execution slots, the history  *)
(* cache, and the durable ledger of requests and turns it claims and       *)
(* completes (database/src/conversations.ts); with each run's cancellation *)
(* control (cancellation/conversation-control.ts), the registry of cancel  *)
(* buttons and the notices a user gets (cancellation/slack-controls.ts,    *)
(* slack/handlers.ts).                                                     *)
(*                                                                         *)
(* Slack may deliver one request several times: each delivery has a run of *)
(* its own or shares that of another.  What happens between two awaits is  *)
(* one step.  The state of a run's control follows from its phase:         *)
(* "committing" while persisting, "committed" for a member of committed,   *)
(* "settled" from replying on, and "running" before.                       *)
(***************************************************************************)
EXTENDS Integers, Sequences, FiniteSets

CONSTANTS
  Delivery,       \* deliveries of Slack events
  Request,        \* request ids (event ids)
  Session,        \* session ids (team, channel, thread)
  RequestOf,      \* the request of each delivery
  SessionOf,      \* the session of each request
  Mention,        \* sessions that read their context from Slack (channels, not DMs)
  ActiveRuns, AdmittedRuns, PerThreadRuns, RecentTurns,   \* conversationLimits
  NoCache,        \* no cache entry
  MayMiss,        \* bound: deliveries whose notice or reply may not come through
  MaxCrashes      \* bound: process crashes

ASSUME ConstantsAssumption ==
  /\ IsFiniteSet(Delivery)
  /\ RequestOf \in [Delivery -> Request] /\ SessionOf \in [Request -> Session]
  /\ Mention \subseteq Session /\ MayMiss \subseteq Delivery
  /\ {ActiveRuns, AdmittedRuns, PerThreadRuns, RecentTurns} \subseteq Nat \ {0}
  /\ NoCache \notin Seq(Request)
  /\ MaxCrashes \in Nat

VARIABLES
  ledger,      \* conversation_events.status, or "none", per request
  turns,       \* conversation_turns of a session, in order of id
  phase,       \* how far a delivery has got
  threads,     \* the lane of a session: the head runs, the others wait for it
  active, waiters,        \* the slots in use, and the runs waiting for one
  cache,       \* the history cached for a session, or NoCache
  history,     \* the turns a run's model input was built from
  ran,         \* deliveries whose run has claimed its request
  tools,       \* runs with tracked work that has not settled
  cancelled, expired,     \* runs stopped by their requester, by their deadline
  committed,   \* runs whose control is committed
  erred,       \* runs that have thrown
  registered, bound,      \* cancel buttons in the registry; bound to a posted message
  notified, replied,      \* deliveries whose stop notice was sent off; replied to with an error
  unheard,     \* ghost: deliveries whose notice or reply Slack may never have shown
  lost,        \* deliveries whose process has crashed
  basis,       \* ghost: the turns a completed request was answered from
  unacked,     \* ghost: requests completed by a COMMIT whose answer was lost
  crashes      \* how much of MaxCrashes is used

durable == <<ledger, turns, basis, unacked>>
pool == <<threads, active, waiters>>
notices == <<notified, replied, unheard>>
buttons == <<registered, bound>>
stops == <<cancelled, expired>>
ends == <<lost, crashes>>
vars == <<durable, phase, pool, cache, history, ran, tools, stops, committed, erred, buttons,
          notices, ends>>

SessionIn(d) == SessionOf[RequestOf[d]]
Goes(d, next) == phase' = [phase EXCEPT ![d] = next]

\* Mutant of Claimable: a request that failed may be claimed again.
ClaimableAgain(r) == ledger[r] \in {"none", "failed"}
\* INSERT ... ON CONFLICT DO NOTHING: the event is not there, whatever became of it.
Claimable(r) == ledger[r] = "none"

\* Runs in the pending map; runs that hold a slot; runs whose control may still stop.
HoldingPhases == {"claiming", "starting", "reading", "executing", "draining", "persisting",
                  "delivering", "failing", "closing"}
Holding == {d \in Delivery : phase[d] \in HoldingPhases}
Pending == {d \in Delivery : phase[d] \in HoldingPhases \cup {"queued", "waiting"}}
Stopped == cancelled \cup expired
Stoppable == ((Holding \cap ran) \ committed) \ Stopped

\* recent(): the last RecentTurns turns, oldest first.
Recent(s) ==
  SubSeq(turns[s], IF Len(turns[s]) > RecentTurns THEN Len(turns[s]) - RecentTurns + 1 ELSE 1,
         Len(turns[s]))

------------------------------------------------------------------------------
(* Admission *)

\* A delivery of a request that is pending shares the run of the first one.
Share(d) ==
  /\ phase[d] = "new"
  /\ \E c \in Pending : RequestOf[c] = RequestOf[d]
  /\ Goes(d, "done")
  /\ UNCHANGED <<durable, pool, cache, history, ran, tools, stops, committed, erred, buttons,
                 notices, ends>>

Full(s) == Cardinality(Pending) >= AdmittedRuns \/ Len(threads[s]) >= PerThreadRuns

Reject(d) ==
  /\ phase[d] = "new"
  /\ \A c \in Pending : RequestOf[c] # RequestOf[d]
  /\ Full(SessionIn(d))
  /\ Goes(d, "replying")
  /\ erred' = erred \cup {d}
  /\ UNCHANGED <<durable, pool, cache, history, ran, tools, stops, committed, buttons, notices, ends>>

Admit(d) ==
  /\ phase[d] = "new"
  /\ \A c \in Pending : RequestOf[c] # RequestOf[d]
  /\ ~Full(SessionIn(d))
  /\ Goes(d, "queued")
  /\ threads' = [threads EXCEPT ![SessionIn(d)] = Append(@, d)]
  /\ UNCHANGED <<durable, active, waiters, cache, history, ran, tools, stops, committed, erred,
                 buttons, notices, ends>>

\* The run before it in the lane has settled: acquire a slot, or wait for one.
TakeTurn(d) ==
  /\ phase[d] = "queued" /\ Head(threads[SessionIn(d)]) = d
  /\ \/ /\ active < ActiveRuns
        /\ active' = active + 1
        /\ Goes(d, "claiming")
        /\ UNCHANGED waiters
     \/ /\ active >= ActiveRuns
        /\ waiters' = Append(waiters, d)
        /\ Goes(d, "waiting")
        /\ UNCHANGED active
  /\ UNCHANGED <<durable, threads, cache, history, ran, tools, stops, committed, erred, buttons,
                 notices, ends>>

------------------------------------------------------------------------------
(* A run *)

\* Mutant of Throws: the cache is left as it is.
ThrowsKeepingCache(d) == erred' = erred \cup {d} /\ UNCHANGED cache

\* What the runtime's catch does first: the cached history may not be the durable one.
Throws(d) ==
  /\ erred' = erred \cup {d}
  /\ cache' = [cache EXCEPT ![SessionIn(d)] = NoCache]

\* checkpoint(): a stopped run throws.
Proceed(d, next) ==
  IF d \in Stopped THEN Goes(d, "failing") /\ Throws(d)
                   ELSE Goes(d, next) /\ UNCHANGED <<erred, cache>>

\* The claim inserts the event. The deadline, set before it, may have passed meanwhile;
\* otherwise the run registers its cancel button and posts it.
Claim(d) ==
  /\ phase[d] = "claiming" /\ Claimable(RequestOf[d])
  /\ ledger' = [ledger EXCEPT ![RequestOf[d]] = "processing"]
  /\ ran' = ran \cup {d}
  /\ \/ /\ Goes(d, "starting")
        /\ registered' = registered \cup {d}
        /\ UNCHANGED <<expired, erred, cache>>
     \/ /\ Goes(d, "failing") /\ Throws(d)
        /\ expired' = expired \cup {d}
        /\ UNCHANGED registered
  /\ UNCHANGED <<turns, basis, unacked, pool, history, tools, cancelled, committed, bound,
                 notices, ends>>

ClaimConflicts(d) ==
  /\ phase[d] = "claiming" /\ ~Claimable(RequestOf[d])
  /\ Goes(d, "closing")
  /\ UNCHANGED <<durable, pool, cache, history, ran, tools, stops, committed, erred, buttons,
                 notices, ends>>

\* The claim throws; it may have inserted the event all the same.
ClaimFails(d) ==
  /\ phase[d] = "claiming"
  /\ Goes(d, "closing") /\ Throws(d)
  /\ \/ UNCHANGED ledger
     \/ /\ Claimable(RequestOf[d])
        /\ ledger' = [ledger EXCEPT ![RequestOf[d]] = "processing"]
  /\ UNCHANGED <<turns, basis, unacked, pool, history, ran, tools, stops, committed, buttons,
                 notices, ends>>

\* onAbort marks the user as told before it sends the notice, and nothing looks at what
\* becomes of it: Slack may refuse or lose it, a cooldown may withhold it for good.
Notify(d) ==
  /\ notified' = notified \cup {d}
  /\ unheard' \in {unheard, unheard \cup ({d} \cap MayMiss)}

\* The control message is posted and bound; a stop that came before is notified now. A
\* cached history spares the run its query.
Posted(d) ==
  /\ phase[d] = "starting"
  /\ bound' = bound \cup {d}
  /\ IF d \in Stopped THEN Notify(d) ELSE UNCHANGED <<notified, unheard>>
  /\ IF cache[SessionIn(d)] # NoCache /\ SessionIn(d) \notin Mention
     THEN Proceed(d, "executing") /\ history' = [history EXCEPT ![d] = cache[SessionIn(d)]]
     ELSE Proceed(d, "reading") /\ UNCHANGED history
  /\ UNCHANGED <<durable, pool, ran, tools, stops, committed, registered, replied, ends>>

\* The run's history, from the database or, for a mention, from Slack alone.
ReadHistory(d) ==
  /\ phase[d] = "reading"
  /\ history' = [history EXCEPT ![d] = IF SessionIn(d) \in Mention THEN <<>> ELSE Recent(SessionIn(d))]
  /\ Proceed(d, "executing")
  /\ UNCHANGED <<durable, pool, ran, tools, stops, committed, buttons, notices, ends>>

\* Mutant of Drained: an abort is taken for the end of the work.
DrainedOrAborted(d) == d \notin tools \/ d \in Stopped
\* drain(): no tracked work is left.
Drained(d) == d \notin tools

\* A tool call is tracked until its work really settles, which may be after the stream
\* has ended, been aborted or failed.
CallTool(d) ==
  /\ phase[d] = "executing" /\ d \notin Stopped \cup tools
  /\ tools' = tools \cup {d}
  /\ UNCHANGED <<durable, phase, pool, cache, history, ran, stops, committed, erred, buttons,
                 notices, ends>>

ToolSettles(d) ==
  /\ d \in tools
  /\ tools' = tools \ {d}
  /\ UNCHANGED <<durable, phase, pool, cache, history, ran, stops, committed, erred, buttons,
                 notices, ends>>

\* The stream has produced an answer: commit() drains the tracked work first.
Generated(d) ==
  /\ phase[d] = "executing"
  /\ Proceed(d, "draining")
  /\ UNCHANGED <<durable, pool, history, ran, tools, stops, committed, buttons, notices, ends>>

\* Mutant of Commit: no checkpoint after the drain.
CommitUnchecked(d) ==
  /\ phase[d] = "draining" /\ Drained(d)
  /\ Goes(d, "persisting")
  /\ UNCHANGED <<durable, pool, cache, history, ran, tools, stops, committed, erred, buttons,
                 notices, ends>>

\* control.commit(): its checkpoint and the change to committing are one step.
Commit(d) ==
  /\ phase[d] = "draining" /\ Drained(d)
  /\ Proceed(d, "persisting")
  /\ UNCHANGED <<durable, pool, history, ran, tools, stops, committed, buttons, notices, ends>>

\* A Slack call, query or generation throws.
StageFails(d) ==
  /\ phase[d] \in {"starting", "reading", "executing"}
  /\ Goes(d, "failing") /\ Throws(d)
  /\ UNCHANGED <<durable, pool, history, ran, tools, stops, committed, buttons, notices, ends>>

\* complete(): the event and the turn in one transaction.
Complete(d) ==
  /\ ledger[RequestOf[d]] = "processing"
  /\ ledger' = [ledger EXCEPT ![RequestOf[d]] = "completed"]
  /\ turns' = [turns EXCEPT ![SessionIn(d)] = Append(@, RequestOf[d])]
  /\ basis' = [basis EXCEPT ![RequestOf[d]] = history[d]]

\* The history a run leaves in the cache: its own with the new turn, at most RecentTurns.
Extended(d) ==
  LET h == Append(history[d], RequestOf[d])
  IN  IF Len(h) > RecentTurns THEN Tail(h) ELSE h

Persisted(d) ==
  /\ phase[d] = "persisting"
  /\ Complete(d)
  /\ committed' = committed \cup {d}
  /\ cache' = [cache EXCEPT ![SessionIn(d)] = IF SessionIn(d) \in Mention THEN NoCache ELSE Extended(d)]
  /\ Goes(d, "delivering")
  /\ UNCHANGED <<unacked, pool, history, ran, tools, stops, erred, buttons, notices, ends>>

\* persist throws: rolled back, or committed with the answer to COMMIT lost.
PersistFails(d) ==
  /\ phase[d] = "persisting"
  /\ Goes(d, "failing") /\ Throws(d)
  /\ \/ UNCHANGED durable
     \/ Complete(d) /\ unacked' = unacked \cup {RequestOf[d]}
  /\ UNCHANGED <<pool, history, ran, tools, stops, committed, buttons, notices, ends>>

\* Delivery and logging, whose failures are swallowed once the turn is durable.
Deliver(d) ==
  /\ phase[d] = "delivering"
  /\ Goes(d, "closing")
  /\ UNCHANGED <<durable, pool, cache, history, ran, tools, stops, committed, erred, buttons,
                 notices, ends>>

\* Mutant of RecordFailure: the statement does not look at the status.
RecordFailureAnyway(d) ==
  /\ phase[d] = "failing"
  /\ Goes(d, "closing")
  /\ ledger' = [ledger EXCEPT ![RequestOf[d]] = "failed"]
  /\ UNCHANGED <<turns, basis, unacked, pool, cache, history, ran, tools, stops, committed,
                 erred, buttons, notices, ends>>

\* repository.fail(), whose own failure is swallowed.
RecordFailure(d) ==
  /\ phase[d] = "failing"
  /\ Goes(d, "closing")
  /\ \/ UNCHANGED ledger
     \/ /\ ledger[RequestOf[d]] = "processing"
        /\ ledger' = [ledger EXCEPT ![RequestOf[d]] = "failed"]
  /\ UNCHANGED <<turns, basis, unacked, pool, cache, history, ran, tools, stops, committed,
                 erred, buttons, notices, ends>>

\* Mutant of Released: no waiter is woken.
ReleasedUnnoticed(d, next) == active' = active - 1 /\ UNCHANGED waiters /\ Goes(d, next)

\* release(): the slot goes to the first waiter, or back to the pool.
Released(d, next) ==
  IF waiters = <<>>
  THEN active' = active - 1 /\ UNCHANGED waiters /\ Goes(d, next)
  ELSE /\ waiters' = Tail(waiters)
       /\ phase' = [phase EXCEPT ![d] = next, ![Head(waiters)] = "claiming"]
       /\ UNCHANGED active

\* Mutant of Untold: a stopped run is taken for a notified one.
UntoldUnlessStopped(d) == d \in erred \ Stopped
\* The handler's catch replies unless a stop notice was sent off.
Untold(d) == d \in erred \ notified

\* The finally blocks: once no tracked work is left the control settles, the slot and the
\* lane are free, and the handler either replies with the error or removes its button.
Close(d) ==
  /\ phase[d] = "closing" /\ Drained(d)
  /\ threads' = [threads EXCEPT ![SessionIn(d)] = Tail(@)]
  /\ history' = [history EXCEPT ![d] = <<>>]
  /\ IF Untold(d)
     THEN Released(d, "replying") /\ UNCHANGED registered
     ELSE Released(d, "done") /\ registered' = registered \ {d}
  /\ UNCHANGED <<durable, cache, ran, tools, stops, committed, erred, bound, notices, ends>>

\* The handler's catch posts the error text, once and whether or not that fails, and
\* controls.finish() removes the button.
Reply(d) ==
  /\ phase[d] = "replying"
  /\ \/ replied' = replied \cup {d} /\ UNCHANGED unheard
     \/ d \in MayMiss /\ unheard' = unheard \cup {d} /\ UNCHANGED replied
  /\ registered' = registered \ {d}
  /\ Goes(d, "done")
  /\ UNCHANGED <<durable, pool, cache, history, ran, tools, stops, committed, erred, bound,
                 notified, ends>>

------------------------------------------------------------------------------
(* Stops, cache expiry, crashes *)

\* Mutant of Tell: the user hears of a deadline while the run is committing.
TellAnyway(d) == IF d \in bound THEN Notify(d) ELSE UNCHANGED <<notified, unheard>>
\* onAbort notifies the user at once, unless the run is committing.
Tell(d) ==
  IF d \in bound /\ phase[d] # "persisting" THEN Notify(d) ELSE UNCHANGED <<notified, unheard>>

\* The deadline does not spare a run that is committing; the commit's outcome decides then.
TimeOut(d) ==
  /\ d \in Stoppable
  /\ expired' = expired \cup {d}
  /\ Tell(d)
  /\ UNCHANGED <<durable, phase, pool, cache, history, ran, tools, cancelled, committed, erred,
                 buttons, replied, ends>>

\* The requester presses the button, and cancel() accepts.
Cancel(d) ==
  /\ d \in Stoppable \cap registered \cap bound /\ phase[d] # "persisting"
  /\ cancelled' = cancelled \cup {d}
  /\ Tell(d)
  /\ UNCHANGED <<durable, phase, pool, cache, history, ran, tools, expired, committed, erred,
                 buttons, replied, ends>>

\* A cache entry expires, or is the oldest of too many sessions.
Evict(s) ==
  /\ cache[s] # NoCache
  /\ cache' = [cache EXCEPT ![s] = NoCache]
  /\ UNCHANGED <<durable, phase, pool, history, ran, tools, stops, committed, erred, buttons,
                 notices, ends>>

\* The process crashes and is started again: only the database survives.
Crash ==
  /\ crashes < MaxCrashes /\ crashes' = crashes + 1
  /\ lost' = lost \cup {d \in Delivery : phase[d] \notin {"new", "done"}}
  /\ phase' = [d \in Delivery |-> IF phase[d] = "new" THEN "new" ELSE "done"]
  /\ threads' = [s \in Session |-> <<>>]
  /\ active' = 0 /\ waiters' = <<>>
  /\ cache' = [s \in Session |-> NoCache]
  /\ history' = [d \in Delivery |-> <<>>]
  /\ tools' = {} /\ registered' = {}
  /\ UNCHANGED <<durable, ran, stops, committed, erred, bound, notices>>

------------------------------------------------------------------------------
Init ==
  /\ ledger = [r \in Request |-> "none"]
  /\ turns = [s \in Session |-> <<>>]
  /\ phase = [d \in Delivery |-> "new"]
  /\ threads = [s \in Session |-> <<>>]
  /\ active = 0 /\ waiters = <<>>
  /\ cache = [s \in Session |-> NoCache]
  /\ history = [d \in Delivery |-> <<>>]
  /\ ran = {} /\ tools = {} /\ cancelled = {} /\ expired = {} /\ committed = {} /\ erred = {}
  /\ registered = {} /\ bound = {} /\ notified = {} /\ replied = {} /\ unheard = {} /\ lost = {}
  /\ basis = [r \in Request |-> <<>>] /\ unacked = {}
  /\ crashes = 0

\* The steps that end: every await of a run settles (HTTP and database calls by their
\* timeouts, tools by abort and their own), and a promise that is settled goes on.
RunStep(d) ==
  \/ TakeTurn(d) \/ Claim(d) \/ ClaimConflicts(d) \/ ClaimFails(d)
  \/ Posted(d) \/ ReadHistory(d) \/ Generated(d) \/ Commit(d) \/ StageFails(d)
  \/ Persisted(d) \/ PersistFails(d) \/ Deliver(d) \/ RecordFailure(d) \/ Close(d) \/ Reply(d)

Next ==
  \/ \E d \in Delivery :
       \/ Share(d) \/ Reject(d) \/ Admit(d)
       \/ RunStep(d) \/ CallTool(d) \/ ToolSettles(d)
       \/ TimeOut(d) \/ Cancel(d)
  \/ \E s \in Session : Evict(s)
  \/ Crash

Spec == Init /\ [][Next]_vars
FairSpec == Spec /\ \A d \in Delivery : WF_vars(RunStep(d)) /\ WF_vars(ToolSettles(d))

------------------------------------------------------------------------------
(* Properties *)

Phase == HoldingPhases \cup {"new", "queued", "waiting", "replying", "done"}

\* Every variable keeps its type.
TypeOK ==
  /\ ledger \in [Request -> {"none", "processing", "completed", "failed"}]
  /\ turns \in [Session -> Seq(Request)]
  /\ phase \in [Delivery -> Phase]
  /\ threads \in [Session -> Seq(Delivery)]
  /\ active \in 0 .. ActiveRuns /\ waiters \in Seq(Delivery)
  /\ cache \in [Session -> Seq(Request) \cup {NoCache}]
  /\ history \in [Delivery -> Seq(Request)]
  /\ (ran \cup tools \cup cancelled \cup expired \cup committed \cup erred \cup registered
        \cup bound \cup notified \cup replied \cup unheard \cup lost) \subseteq Delivery
  /\ basis \in [Request -> Seq(Request)] /\ unacked \subseteq Request
  /\ crashes \in 0 .. MaxCrashes

\* Slots and lanes are neither leaked nor lent twice: the slots in use are the runs that
\* hold one, each is alone in its thread, and unsettled tool work always belongs to one,
\* so a stopped run's late work never overlaps the next run of its thread.
LanesHeld ==
  /\ active = Cardinality(Holding)
  /\ \A d \in Holding : Head(threads[SessionIn(d)]) = d
  /\ tools \subseteq Holding

\* A request is executed at most once, whatever is delivered again and whenever the
\* process crashes.
AtMostOnce == \A c, d \in ran : RequestOf[c] = RequestOf[d] => c = d

\* The cache never disagrees with the database, not even after a COMMIT whose outcome
\* the runtime did not learn.
CacheCoherent == \A s \in Session : cache[s] \in {NoCache, Recent(s)}

\* A user learns of a delivery's end in one way: a stop notice, an error reply, or the
\* answer of a committed run. A deadline or a click that comes late adds no second one.
OneVerdict ==
  /\ notified \cap replied = {}
  /\ committed \cap (notified \cup replied) = {}

\* The user has seen that the delivery was stopped, or failed.
Told == (notified \ unheard) \cup replied

\* A run that ended without a committed answer has told its user, or the one notice or
\* reply it sent was refused, lost or withheld; but for runs that crashed, and deliveries
\* of requests claimed before. No path ends without a word having been tried.
WordOnFailure ==
  \A d \in Delivery : phase[d] = "done" /\ d \in (ran \cup erred) \ (lost \cup committed) =>
    d \in Told \cup unheard

\* A run the user saw stopped, or whose cancellation was accepted, never left a turn,
\* provided the database answers every COMMIT.
StoppedLeavesNoTurn ==
  \A d \in cancelled \cup notified :
    ledger[RequestOf[d]] # "completed" \/ RequestOf[d] \in unacked

\* "A cancelled or timed-out turn is not put into the next history": the request of a run
\* that was stopped, and whose user was told so, is in no run's history.
StoppedStaysOutOfHistory ==
  \A d \in Stopped \cap Told, c \in Delivery :
    RequestOf[d] \notin {history[c][i] : i \in DOMAIN history[c]}

\* Every delivery comes to an end: no lost wakeup, no slot or lane that stays taken.
EveryDeliveryEnds == \A d \in Delivery : phase[d] = "queued" ~> phase[d] = "done"

\* The runtime keeps the promise of Dialogue: at most one answer per request, generated
\* from the dialogue it extends, cached or not.
Promise == INSTANCE Dialogue WITH fate <- ledger, dialogue <- turns
KeepsDialogue == Promise!Spec
=============================================================================
