----------------------------- MODULE RelayOutbox -----------------------------
(***************************************************************************)
(* The message-relay outbox: the PostgreSQL table of captured Slack events *)
(* (database/src/slack-message-relay.ts) and the drainers that deliver its *)
(* rows to Radar (shookie/src/slack/message-relay/drain.ts).               *)
(*                                                                         *)
(* Every SQL statement is one atomic step, as it is in the database.  What *)
(* a worker does between two awaits is one step, too.  A drainer may crash *)
(* or be stopped at any point, a database call may fail with its statement *)
(* applied, not applied or applied later, and time passes at any point.    *)
(*                                                                         *)
(* Absolute times become distances from now: the timer of a pending row is *)
(* next_attempt_at - now, that of a delivering row lease_until - now, that *)
(* of a delivered or failed row what is left of its retention.             *)
(***************************************************************************)
EXTENDS Integers, FiniteSets

CONSTANTS
  Event,           \* event keys (team, app, event id)
  Proc,            \* drainer processes; one that is down may be started again
  Token,           \* claim tokens (random UUIDs)
  NoToken,         \* SQL NULL in claim_token
  NoHeader,        \* an absent or unusable Retry-After header
  RetryAfters,     \* the Retry-After values Radar may send; a date may have passed
  RetryDefault,    \* RETRY_AFTER_DEFAULT_MS
  MaxRetryAfter,   \* maxRetryAfterMs
  BatchSize, Concurrency, MaxAttempts, Lease,
  BaseBackoff, MaxBackoff,
  MaxPendingAge, DeliveredKeep, FailedKeep,   \* RELAY_RETENTION
  MaxFaults,       \* bound: crashes, stalls past a lease, failed database calls
  MaxDetours       \* bound: graceful stops and 429 answers

ASSUME ConstantsAssumption ==
  /\ IsFiniteSet(Event)
  /\ NoToken \notin Token
  /\ RetryAfters \subseteq Int /\ NoHeader \notin Int
  /\ {RetryDefault, MaxRetryAfter, MaxAttempts, BaseBackoff, MaxBackoff,
      MaxPendingAge, DeliveredKeep, FailedKeep, MaxFaults, MaxDetours} \subseteq Nat
  /\ {BatchSize, Concurrency, Lease} \subseteq Nat \ {0}   \* leaseMs >= 120 s

VARIABLES
  table,     \* slack_message_relay_outbox: a row, or NoRow, per event
  orphans,   \* outcome writes whose sender no longer waits for them
  mode,      \* a drainer process: down, up, stopping, or hard (hardStopped)
  halted,    \* this.halted # null, per process
  tick,      \* what the process' poll loop does next
  job,       \* the claimed row a process has in memory, per process and event
  accepted,  \* events Radar has committed (external)
  embargo,   \* ghost: what is left of the last Retry-After received, per event
  sent,      \* ghost: requests that ended in a counted outcome, per event, since its
             \* attempts were last reset
  faults,    \* how much of MaxFaults is used
  detours    \* how much of MaxDetours is used

vars == <<table, orphans, mode, halted, tick, job, accepted, embargo, sent, faults, detours>>
procVars == <<mode, halted, tick, job>>
ghosts == <<accepted, embargo, sent>>

Lesser(a, b) == IF a < b THEN a ELSE b
Greater(a, b) == IF a > b THEN a ELSE b

------------------------------------------------------------------------------
(* Rows, outcomes and jobs *)

Status == {"absent", "pending", "delivering", "delivered", "failed", "parked"}
Why == {"none", "config", "retry_after_excessive", "exhausted", "rejected", "expired"}

\* "why" keeps of last_error what a later step reads or an operator sees: the reason
\* a row is parked or failed.
Row == [status : Status, attempts : Nat, token : Token \cup {NoToken}, timer : Int, why : Why]
NoRow == [status |-> "absent", attempts |-> 0, token |-> NoToken, timer |-> 0, why |-> "none"]

\* The INSERT of a new event: every other column takes its default.
Captured == [NoRow EXCEPT !.status = "pending"]

\* The four outcome writes (delivered, defer, finish) as data.
Outcome == [to : {"delivered", "pending", "failed", "parked"},
            delay : Nat, refund : BOOLEAN, why : Why]
Delivered == [to |-> "delivered", delay |-> 0, refund |-> FALSE, why |-> "none"]
Deferred(delay, countAttempt) ==
  [to |-> "pending", delay |-> delay, refund |-> ~countAttempt, why |-> "none"]
Finished(status, why) == [to |-> status, delay |-> 0, refund |-> FALSE, why |-> why]
Released == Deferred(0, FALSE)

Stage == {"none", "queued", "posting", "writing"}
Job == [stage : Stage, token : Token \cup {NoToken}, attempts : Nat, write : Outcome]
NoJob == [stage |-> "none", token |-> NoToken, attempts |-> 0, write |-> Released]

Write == [event : Event, token : Token \cup {NoToken}, outcome : Outcome]

\* Mutant of Settle: the statement names the row, but not the claim.
SettleById(row, token, outcome) ==
  IF row.status # "absent"
  THEN [row EXCEPT !.status = outcome.to, !.token = NoToken, !.why = outcome.why]
  ELSE row

\* The effect of an outcome write on a row; only the claim holder's write has one.
Settle(row, token, outcome) ==
  IF row.status = "delivering" /\ row.token = token
  THEN [status   |-> outcome.to,
        attempts |-> IF outcome.refund THEN Greater(row.attempts - 1, 0) ELSE row.attempts,
        token    |-> NoToken,
        timer    |-> CASE outcome.to = "pending" -> outcome.delay
                       [] outcome.to = "delivered" -> DeliveredKeep
                       [] outcome.to = "failed" -> FailedKeep
                       [] OTHER -> 0,
        why      |-> outcome.why]
  ELSE row

\* Mutant of Due: the leases of crashed workers are forgotten.
DuePending == {e \in Event : table[e].status = "pending" /\ table[e].timer <= 0}

\* Rows a claim may take: due, or claimed under a lease that has run out.
Due == {e \in Event : table[e].status \in {"pending", "delivering"} /\ table[e].timer <= 0}

\* The values a new claim token differs from: a UUID is never one still in use.
TokensInUse ==
  {table[e].token : e \in Event} \cup {job[p][e].token : p \in Proc, e \in Event}
    \cup {w.token : w \in orphans}
FreshToken == CHOOSE t \in Token : t \notin TokensInUse

\* Mutant of ClaimedRow: a claim that is taken over keeps its token.
ClaimedRowKeepingToken(row, token) ==
  [status |-> "delivering", attempts |-> row.attempts + 1,
   token |-> IF row.token = NoToken THEN token ELSE row.token, timer |-> Lease, why |-> row.why]
ClaimedRow(row, token) ==
  [status |-> "delivering", attempts |-> row.attempts + 1, token |-> token,
   timer |-> Lease, why |-> row.why]

Jobs(p) == {e \in Event : job[p][e].stage # "none"}
Working(p) == {e \in Event : job[p][e].stage \in {"posting", "writing"}}
Running(p) == mode[p] # "down"

\* The worker of process p that may still record the outcome of e's current claim.
Holds(p, e) == job[p][e].stage # "none" /\ job[p][e].token = table[e].token

Fault == faults < MaxFaults /\ faults' = faults + 1
Detour == detours < MaxDetours /\ detours' = detours + 1

------------------------------------------------------------------------------
(* The table's other writers *)

\* INSERT ... ON CONFLICT DO NOTHING; a duplicate changes nothing.
Enqueue(e) ==
  /\ table[e] = NoRow
  /\ table' = [table EXCEPT ![e] = Captured]
  /\ UNCHANGED <<orphans, procVars, ghosts, faults, detours>>

\* An outcome write that outlived its sender reaches the table after all, or never.
OrphanWrite(w) ==
  /\ w \in orphans
  /\ orphans' = orphans \ {w}
  /\ \/ table' = [table EXCEPT ![w.event] = Settle(@, w.token, w.outcome)]
     \/ UNCHANGED table
  /\ UNCHANGED <<procVars, ghosts, faults, detours>>

------------------------------------------------------------------------------
(* The poll loop of a drainer *)

\* requeueParkedSlackMessageRelays: all parked rows but those of an excessive Retry-After.
Requeued(row) ==
  IF row.status = "parked" /\ row.why # "retry_after_excessive" THEN Captured ELSE row

\* The requests that count start anew with a row whose attempts do.
Recount ==
  sent' = [e \in Event |-> IF table'[e].status = table[e].status THEN sent[e] ELSE 0]

\* A new process: halted and lastMaintenance are fresh; a failed requeue is only logged.
Start(p) ==
  /\ mode[p] = "down"
  /\ mode' = [mode EXCEPT ![p] = "up"]
  /\ halted' = [halted EXCEPT ![p] = FALSE]
  /\ \/ table' = [e \in Event |-> Requeued(table[e])] /\ UNCHANGED faults
     \/ Fault /\ UNCHANGED table
  /\ Recount
  /\ UNCHANGED <<orphans, tick, job, accepted, embargo, detours>>

AfterMaintenance(p) == IF halted[p] THEN "sleep" ELSE "claim"

\* The timer fires. Whether maintenance is due (every five minutes) is left open.
WakeUp(p) ==
  /\ mode[p] = "up" /\ tick[p] = "sleep" /\ Jobs(p) = {}
  /\ \E next \in {"expire", AfterMaintenance(p)} : tick' = [tick EXCEPT ![p] = next]
  /\ UNCHANGED <<table, orphans, mode, halted, job, ghosts, faults, detours>>

Expired(row) ==
  IF row.status = "pending" /\ row.timer < -MaxPendingAge
  THEN [row EXCEPT !.status = "failed", !.token = NoToken, !.timer = FailedKeep, !.why = "expired"]
  ELSE row

\* Mutant of Retained: whatever is not under way is pruned.
RetainedActive(row) ==
  IF row.status \notin {"pending", "delivering"} /\ row.timer <= 0 THEN NoRow ELSE row
Retained(row) ==
  IF row.status \in {"delivered", "failed"} /\ row.timer < 0 THEN NoRow ELSE row

\* prune, first transaction. A hard-stopped process skips every database call.
Expire(p) ==
  /\ tick[p] = "expire"
  /\ tick' = [tick EXCEPT ![p] = "delete"]
  /\ table' = IF mode[p] = "hard" THEN table ELSE [e \in Event |-> Expired(table[e])]
  /\ UNCHANGED <<orphans, mode, halted, job, ghosts, faults, detours>>

\* prune, second transaction.
Delete(p) ==
  /\ tick[p] = "delete"
  /\ tick' = [tick EXCEPT ![p] = AfterMaintenance(p)]
  /\ table' = IF mode[p] = "hard" THEN table ELSE [e \in Event |-> Retained(table[e])]
  /\ Recount
  /\ UNCHANGED <<orphans, mode, halted, job, accepted, embargo, faults, detours>>

\* The claim statement, for a set of due rows of the batch's size. Which due rows go
\* first (next_attempt_at, id) is left open.
ClaimInto(S, newTable) ==
  /\ S \subseteq Due
  /\ Cardinality(S) = Lesser(BatchSize, Cardinality(Due))
  /\ \E t \in Token : t \notin TokensInUse
  /\ newTable = [e \in Event |-> IF e \in S THEN ClaimedRow(table[e], FreshToken) ELSE table[e]]

Claim(p) ==
  /\ tick[p] = "claim"
  /\ tick' = [tick EXCEPT ![p] = "sleep"]
  /\ \/ mode[p] = "hard" /\ UNCHANGED <<table, job>>
     \/ /\ mode[p] # "hard"
        /\ \E S \in SUBSET Due :
             /\ ClaimInto(S, table')
             /\ job' = [job EXCEPT ![p] = [e \in Event |->
                  IF e \in S
                  THEN [stage |-> "queued", token |-> table'[e].token,
                        attempts |-> table'[e].attempts, write |-> Released]
                  ELSE NoJob]]
  /\ UNCHANGED <<orphans, mode, halted, ghosts, faults, detours>>

\* The claim is committed but its answer is lost: nobody works on the rows.
ClaimLost(p) ==
  /\ tick[p] = "claim" /\ mode[p] # "hard" /\ Due # {}
  /\ Fault
  /\ tick' = [tick EXCEPT ![p] = "sleep"]
  /\ \E S \in SUBSET Due : ClaimInto(S, table')
  /\ UNCHANGED <<orphans, mode, halted, job, ghosts, detours>>

\* A claim or maintenance call fails; the exception ends the tick, the loop goes on.
TickFails(p) ==
  /\ tick[p] # "sleep" /\ mode[p] # "hard"
  /\ Fault
  /\ tick' = [tick EXCEPT ![p] = "sleep"]
  /\ UNCHANGED <<table, orphans, mode, halted, job, ghosts, detours>>

------------------------------------------------------------------------------
(* The workers of a batch *)

\* A job goes on to its outcome write, unless the process may not write any more.
Record(p, e, outcome) ==
  job' = [job EXCEPT ![p][e] =
    IF mode[p] = "hard" THEN NoJob ELSE [@ EXCEPT !.stage = "writing", !.write = outcome]]

\* Mutants of TakeRow: a worker that may not send any more drops the row, or waits.
TakeRowOrDrop(p, e) ==
  /\ job[p][e].stage = "queued"
  /\ Cardinality(Working(p)) < Concurrency
  /\ job' = [job EXCEPT ![p][e] =
       IF mode[p] # "up" \/ halted[p] THEN NoJob ELSE [@ EXCEPT !.stage = "posting"]]
  /\ UNCHANGED <<table, orphans, mode, halted, tick, ghosts, faults, detours>>
TakeRowIfUp(p, e) ==
  /\ job[p][e].stage = "queued" /\ mode[p] = "up"
  /\ Cardinality(Working(p)) < Concurrency
  /\ job' = [job EXCEPT ![p][e].stage = "posting"]
  /\ UNCHANGED <<table, orphans, mode, halted, tick, ghosts, faults, detours>>

\* deliverAll's worker shifts a row: it is handed back unsent once the process stops or halts.
TakeRow(p, e) ==
  /\ job[p][e].stage = "queued"
  /\ Cardinality(Working(p)) < Concurrency
  /\ IF mode[p] # "up" \/ halted[p]
     THEN Record(p, e, Released)
     ELSE job' = [job EXCEPT ![p][e].stage = "posting"]
  /\ UNCHANGED <<table, orphans, mode, halted, tick, ghosts, faults, detours>>

\* Exponential backoff with equal jitter: between half the ceiling and the ceiling.
Ceiling(attempts) == Lesser(MaxBackoff, BaseBackoff * 2 ^ Greater(0, attempts - 1))
Backoffs(attempts) ==
  {d \in 0 .. MaxBackoff : Ceiling(attempts) <= 2 * d /\ d <= Ceiling(attempts)}

\* retryOrFail: which outcomes it may write for a row claimed for the given attempt.
RetryOrFail(attempts) ==
  IF attempts >= MaxAttempts
  THEN {Finished("failed", "exhausted")}
  ELSE {Deferred(d, TRUE) : d \in Backoffs(attempts)}

\* Mutant of Requested: a date in the past is not clamped.
RequestedUnclamped(header) == IF header = NoHeader THEN RetryDefault ELSE header
Requested(header) == IF header = NoHeader THEN RetryDefault ELSE Greater(0, header)

\* Mutants of Throttled: a 429 spends an attempt; a long Retry-After is cut short.
ThrottledCounted(header) ==
  IF Requested(header) > MaxRetryAfter
  THEN Finished("parked", "retry_after_excessive")
  ELSE Deferred(Requested(header), TRUE)
ThrottledClamped(header) == Deferred(Lesser(Requested(header), MaxRetryAfter), FALSE)
Throttled(header) ==
  IF Requested(header) > MaxRetryAfter
  THEN Finished("parked", "retry_after_excessive")
  ELSE Deferred(Requested(header), FALSE)

\* Answers other than 429: class of the HTTP status, and the outcomes it may lead to.
Answer == {"2xx", "config", "transient", "rejected"}

\* Mutant of Outcomes: a redirect counts as success.
OutcomesRedirected(answer, attempts) ==
  CASE answer \in {"2xx", "config"} -> {Delivered}
    [] answer = "transient" -> RetryOrFail(attempts)
    [] answer = "rejected" -> {Finished("failed", "rejected")}
Outcomes(answer, attempts) ==
  CASE answer = "2xx" -> {Delivered}
    [] answer = "config" -> {Finished("parked", "config")}
    [] answer = "transient" -> RetryOrFail(attempts)
    [] answer = "rejected" -> {Finished("failed", "rejected")}

\* One more request of e ended in a counted outcome (the count stops at MaxAttempts).
Count(e) == sent' = [sent EXCEPT ![e] = Lesser(@ + 1, MaxAttempts)]

\* Radar answers 2xx only after its commit; with any other answer it may have committed.
Answered(p, e, answer) ==
  /\ job[p][e].stage = "posting"
  /\ \E outcome \in Outcomes(answer, job[p][e].attempts) : Record(p, e, outcome)
  /\ \/ accepted' = accepted \cup {e}
     \/ answer # "2xx" /\ UNCHANGED accepted
  /\ Count(e)
  /\ UNCHANGED <<table, orphans, mode, halted, tick, embargo, faults, detours>>

AnsweredThrottled(p, e, header) ==
  /\ job[p][e].stage = "posting"
  /\ Detour
  /\ Record(p, e, Throttled(header))
  /\ embargo' = [embargo EXCEPT ![e] = Requested(header)]
  /\ UNCHANGED <<table, orphans, mode, halted, tick, accepted, sent, faults>>

\* Network error or timeout, or the abort of a stopping process: no answer is seen, but
\* Radar may have committed.
Unanswered(p, e) ==
  /\ job[p][e].stage = "posting"
  /\ accepted' \in {accepted, accepted \cup {e}}
  /\ \/ /\ mode[p] = "up"
        /\ \E outcome \in RetryOrFail(job[p][e].attempts) : Record(p, e, outcome)
        /\ Count(e)
     \/ /\ mode[p] # "up"
        /\ Record(p, e, Released)
        /\ UNCHANGED sent
  /\ UNCHANGED <<table, orphans, mode, halted, tick, embargo, faults, detours>>

\* The outcome write commits and its answer arrives. Only now does a configuration
\* error halt the drainer.
Written(p, e) ==
  /\ job[p][e].stage = "writing"
  /\ table' = [table EXCEPT ![e] = Settle(@, job[p][e].token, job[p][e].write)]
  /\ job' = [job EXCEPT ![p][e] = NoJob]
  /\ halted' = IF job[p][e].write = Finished("parked", "config")
               THEN [halted EXCEPT ![p] = TRUE] ELSE halted
  /\ UNCHANGED <<orphans, mode, tick, ghosts, faults, detours>>

Unsettled(p, S) ==
  {[event |-> e, token |-> job[p][e].token, outcome |-> job[p][e].write] :
     e \in {f \in S : job[p][f].stage = "writing"}}

\* The outcome write fails or misses its deadline: the exception is logged and the
\* worker goes on, while the destroyed connection's statement may still be committed.
WriteFails(p, e) ==
  /\ job[p][e].stage = "writing"
  /\ Fault
  /\ orphans' = orphans \cup Unsettled(p, {e})
  /\ job' = [job EXCEPT ![p][e] = NoJob]
  /\ UNCHANGED <<table, mode, halted, tick, ghosts, detours>>

------------------------------------------------------------------------------
(* Shutdown, crash and time *)

Stop(p) ==
  /\ mode[p] = "up"
  /\ Detour
  /\ mode' = [mode EXCEPT ![p] = "stopping"]
  /\ UNCHANGED <<table, orphans, halted, tick, job, ghosts, faults>>

\* stop() waited stopTimeoutMs for the running tick.
HardStop(p) ==
  /\ mode[p] = "stopping" /\ (tick[p] # "sleep" \/ Jobs(p) # {})
  /\ Fault
  /\ mode' = [mode EXCEPT ![p] = "hard"]
  /\ UNCHANGED <<table, orphans, halted, tick, job, ghosts, detours>>

Down(p) ==
  /\ mode' = [mode EXCEPT ![p] = "down"]
  /\ halted' = [halted EXCEPT ![p] = FALSE]
  /\ tick' = [tick EXCEPT ![p] = "sleep"]
  /\ job' = [job EXCEPT ![p] = [e \in Event |-> NoJob]]
  /\ orphans' = orphans \cup Unsettled(p, Event)

\* stop() has returned: the pool is closed and the process exits.
Exit(p) ==
  /\ \/ mode[p] = "stopping" /\ tick[p] = "sleep" /\ Jobs(p) = {}
     \/ mode[p] = "hard"
  /\ Down(p)
  /\ UNCHANGED <<table, ghosts, faults, detours>>

Crash(p) ==
  /\ Running(p)
  /\ Fault
  /\ Down(p)
  /\ UNCHANGED <<table, ghosts, detours>>

\* Timers run down to the value after which a row's status makes no difference.
Floor(row) ==
  CASE row.status = "pending" -> -(MaxPendingAge + 1)
    [] row.status \in {"delivered", "failed"} -> -1
    [] OTHER -> 0
Aged(row) == [row EXCEPT !.timer = Greater(@ - 1, Floor(row))]

\* The leases that run out in this unit of time while a worker still holds them: they
\* last longer than a batch needs, so this takes a stalled process.
Stalled ==
  {e \in Event : table[e].status = "delivering" /\ table[e].timer = 1
                   /\ \E p \in Proc : Holds(p, e)}

TimePasses ==
  /\ faults' = faults + Cardinality(Stalled) /\ faults' <= MaxFaults
  /\ table' = [e \in Event |-> Aged(table[e])]
  /\ embargo' = [e \in Event |-> Greater(embargo[e] - 1, 0)]
  /\ UNCHANGED <<orphans, procVars, accepted, sent, detours>>

------------------------------------------------------------------------------
Init ==
  /\ table = [e \in Event |-> NoRow]
  /\ orphans = {}
  /\ mode = [p \in Proc |-> "down"]
  /\ halted = [p \in Proc |-> FALSE]
  /\ tick = [p \in Proc |-> "sleep"]
  /\ job = [p \in Proc |-> [e \in Event |-> NoJob]]
  /\ accepted = {}
  /\ embargo = [e \in Event |-> 0]
  /\ sent = [e \in Event |-> 0]
  /\ faults = 0
  /\ detours = 0

ProcStep(p) ==
  \/ Start(p) \/ WakeUp(p) \/ Expire(p) \/ Delete(p)
  \/ Claim(p) \/ ClaimLost(p) \/ TickFails(p)
  \/ Stop(p) \/ HardStop(p) \/ Exit(p) \/ Crash(p)

JobStep(p, e) ==
  \/ TakeRow(p, e)
  \/ \E answer \in Answer : Answered(p, e, answer)
  \/ \E header \in RetryAfters \cup {NoHeader} : AnsweredThrottled(p, e, header)
  \/ Unanswered(p, e) \/ Written(p, e) \/ WriteFails(p, e)

Next ==
  \/ \E e \in Event : Enqueue(e)
  \/ \E w \in orphans : OrphanWrite(w)
  \/ \E p \in Proc : ProcStep(p)
  \/ \E p \in Proc, e \in Event : JobStep(p, e)
  \/ TimePasses

Spec == Init /\ [][Next]_vars
\* Restart policy "always" restarts a process, every timer fires, every HTTP request ends
\* by its abort timer, and a database call that no fault hits commits.
Fairness ==
  /\ WF_vars(TimePasses)
  /\ \A p \in Proc :
       /\ WF_vars(Start(p))
       /\ WF_vars(WakeUp(p) \/ Expire(p) \/ Delete(p) \/ Claim(p))
       /\ WF_vars(Exit(p))
  /\ \A p \in Proc, e \in Event :
       /\ WF_vars(TakeRow(p, e))
       /\ WF_vars(Unanswered(p, e) \/ \E answer \in Answer : Answered(p, e, answer))
       /\ WF_vars(Written(p, e))

FairSpec == Spec /\ Fairness

------------------------------------------------------------------------------
(* Properties *)

\* Every variable keeps its type: the rows' columns, the drainers' fields, the bounds.
TypeOK ==
  /\ table \in [Event -> Row]
  /\ orphans \subseteq Write
  /\ mode \in [Proc -> {"down", "up", "stopping", "hard"}]
  /\ halted \in [Proc -> BOOLEAN]
  /\ tick \in [Proc -> {"sleep", "expire", "delete", "claim"}]
  /\ job \in [Proc -> [Event -> Job]]
  /\ accepted \subseteq Event
  /\ embargo \in [Event -> Nat]
  /\ sent \in [Event -> 0 .. MaxAttempts]
  /\ faults \in 0 .. MaxFaults
  /\ detours \in 0 .. MaxDetours

\* Whatever crashes, stalls and late writes happen, at most one worker or write still
\* under way can change a claimed row: a claim that went over to another process is
\* dead for the first one (claim_token in the WHERE clauses of the outcome writes).
OneClaimant ==
  /\ \A e \in Event : table[e].token # NoToken <=> table[e].status = "delivering"
  /\ \A p, q \in Proc, e \in Event : Holds(p, e) /\ Holds(q, e) => p = q
  /\ \A w \in orphans : w.token = table[w.event].token =>
       /\ \A p \in Proc : ~Holds(p, w.event)
       /\ \A v \in orphans : v.event = w.event /\ v.token = w.token => v = w

\* A row marked delivered is one Radar has committed ("only then is it delivered"):
\* no lost answer, late write or second worker marks one Radar never took.
DeliveredWasAccepted ==
  \A e \in Event : table[e].status = "delivered" => e \in accepted

\* A row is given up as exhausted only after MaxAttempts requests since its attempts were
\* last reset that ended in a counted outcome, less one per fault: 429s, shutdowns and
\* halts hand their attempt back exactly once, however they interleave with stale workers.
ExhaustedWasTried ==
  \A e \in Event : table[e].why = "exhausted" => sent[e] + faults >= MaxAttempts

\* A claimed row that no process works on is the trace of a fault: graceful stops, halts
\* and throttling hand every row of the batch back, the queued ones too.
ClaimsLeakOnlyByFault ==
  faults = 0 => \A e \in Event : table[e].status = "delivering" => \E p \in Proc : Holds(p, e)

\* The attempt counter passes MaxAttempts only through reclaimed leases: by one per fault.
AttemptsBounded ==
  \A e \in Event : table[e].attempts <= Greater(MaxAttempts, 1) + faults

\* The attempts of a row count its requests, neither too many nor too few (drain.ts:334,
\* slack-message-relay.ts:173, 236).
AttemptsCount == ExhaustedWasTried /\ AttemptsBounded

StartsPosting(p, e) == job[p][e].stage # "posting" /\ job'[p][e].stage = "posting"

\* No request for an event starts before the Retry-After of its last 429 has passed.
RetryAfterHonoured ==
  [][\A p \in Proc, e \in Event : StartsPosting(p, e) => embargo[e] = 0]_vars

\* The same across stops, restarts, requeues and parks, as long as nothing has failed.
RetryAfterHonouredWithoutFaults ==
  [][\A p \in Proc, e \in Event : StartsPosting(p, e) /\ faults = 0 => embargo[e] = 0]_vars

\* A delivered or failed row never changes again but by its retention: no stale worker,
\* late write, expiry or requeue revives it or rewrites how it ended.
TerminalIsFinal ==
  [][\A e \in Event : table[e].status \in {"delivered", "failed"} =>
       \/ table'[e].status = "absent"
       \/ table'[e] = [table[e] EXCEPT !.timer = table'[e].timer]]_vars

\* A running drainer is halted once it is done with a row Radar refused for its configuration.
ConfigErrorHalts ==
  [][\A p \in Proc, e \in Event :
       job[p][e].stage = "writing" /\ job[p][e].write.why = "config" /\ mode[p] = "up"
         /\ job'[p][e].stage = "none" => halted'[p] \/ mode'[p] = "down"]_vars

\* A captured row is eventually delivered, failed or parked, through any crashes, lost
\* writes and stops, unless a configuration error has halted the drainers.
EventuallySettled ==
  \A e \in Event : table[e].status \in {"pending", "delivering"} ~>
    \/ table[e].status \notin {"pending", "delivering"}
    \/ \A p \in Proc : halted[p]

\* Shutdown ends: every claimed row is handed back or given up to its lease.
StopEnds == \A p \in Proc : mode[p] = "stopping" ~> mode[p] = "down"

\* The outbox keeps the promise of RelayDelivery: claims, leases, deferrals and parking
\* are all "held", and nothing leaves that state but as delivered or given up.
FateOf(row) ==
  CASE row.status = "absent" -> "unknown"
    [] row.status = "delivered" -> "delivered"
    [] row.status = "failed" -> "given_up"
    [] OTHER -> "held"
Promise == INSTANCE RelayDelivery WITH
  fate <- [e \in Event |-> FateOf(table[e])], committed <- accepted
KeepsPromise == Promise!Spec
=============================================================================
