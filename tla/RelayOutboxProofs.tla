-------------------------- MODULE RelayOutboxProofs --------------------------
(***************************************************************************)
(* Proofs about RelayOutbox, for any events, processes, tokens and bounds: *)
(* type correctness; at most one worker or late write can settle a claim;  *)
(* a delivered row is one Radar has committed, how a row ended is final,   *)
(* and the outbox implements RelayDelivery.                                *)
(***************************************************************************)
EXTENDS RelayOutbox, FiniteSetTheorems, TLAPS

------------------------------------------------------------------------------
(* Lemmas about the operators *)

\* An outcome write leaves a row a row.
LEMMA SettleType ==
  ASSUME NEW row \in Row, NEW token, NEW outcome \in Outcome
  PROVE  Settle(row, token, outcome) \in Row
BY ConstantsAssumption DEF Settle, Row, Outcome, Status, Why, Greater

\* So does the passing of time.
LEMMA AgedType ==
  ASSUME NEW row \in Row
  PROVE  Aged(row) \in Row
BY ConstantsAssumption DEF Aged, Floor, Row, Greater

\* A claimed row is a row.
LEMMA ClaimedRowType ==
  ASSUME NEW row \in Row, NEW t \in Token
  PROVE  ClaimedRow(row, t) \in Row
<1>1. Lease \in Int
  BY ConstantsAssumption
<1> QED BY <1>1 DEF ClaimedRow, Row, Status

\* An expired row is a row.
LEMMA ExpiredType ==
  ASSUME NEW row \in Row
  PROVE  Expired(row) \in Row
<1>1. FailedKeep \in Int
  BY ConstantsAssumption
<1> QED BY <1>1 DEF Expired, Row, Status, Why

\* retryOrFail writes an outcome, whatever the attempt number.
LEMMA RetryOrFailType ==
  ASSUME NEW attempts \in Nat
  PROVE  RetryOrFail(attempts) \subseteq Outcome
<1>1. Backoffs(attempts) \subseteq Nat
  BY ConstantsAssumption DEF Backoffs
<1>2. Finished("failed", "exhausted") \in Outcome
  BY DEF Finished, Outcome, Why
<1>3. ASSUME NEW d \in Nat PROVE Deferred(d, TRUE) \in Outcome
  BY DEF Deferred, Outcome, Why
<1> QED BY <1>1, <1>2, <1>3 DEF RetryOrFail

\* Every answer leads to an outcome.
LEMMA OutcomesType ==
  ASSUME NEW attempts \in Nat, NEW answer \in Answer
  PROVE  Outcomes(answer, attempts) \subseteq Outcome
<1>1. RetryOrFail(attempts) \subseteq Outcome
  BY RetryOrFailType
<1>2. {Delivered, Finished("parked", "config"), Finished("failed", "rejected")} \subseteq Outcome
  BY DEF Delivered, Finished, Outcome, Why
<1> QED BY <1>1, <1>2 DEF Outcomes, Answer

\* So does a 429, whatever its header.
LEMMA ThrottledType ==
  ASSUME NEW header \in RetryAfters \cup {NoHeader}
  PROVE  Requested(header) \in Nat /\ Throttled(header) \in Outcome
<1>1. RetryDefault \in Nat /\ (header = NoHeader \/ header \in Int)
  BY ConstantsAssumption
<1>2. Greater(0, header) \in Nat \/ header = NoHeader
  BY <1>1 DEF Greater
<1>3. Requested(header) \in Nat
  BY <1>1, <1>2 DEF Requested
<1> QED BY <1>3 DEF Throttled, Finished, Deferred, Outcome, Why

\* Only a 2xx is recorded as delivered.
LEMMA OnlyOkDelivers ==
  ASSUME NEW attempts \in Nat, NEW answer \in Answer,
         NEW outcome \in Outcomes(answer, attempts), outcome.to = "delivered"
  PROVE  answer = "2xx"
BY DEF Outcomes, Answer, RetryOrFail, Finished, Deferred

\* The constant operators have their types.
LEMMA Constants ==
  /\ Released \in Outcome
  /\ NoJob \in Job
  /\ NoRow \in Row /\ Captured \in Row
BY ConstantsAssumption DEF Released, Deferred, Outcome, NoJob, Job, Stage, NoRow, Captured,
   Row, Status, Why

\* A job that goes on to its write, or is dropped, is a job.
LEMMA RecordType ==
  ASSUME TypeOK, NEW p \in Proc, NEW e \in Event, NEW outcome \in Outcome, Record(p, e, outcome)
  PROVE  job' \in [Proc -> [Event -> Job]]
<1>1. job[p][e] \in Job BY DEF TypeOK
<1>2. (IF mode[p] = "hard" THEN NoJob
       ELSE [job[p][e] EXCEPT !.stage = "writing", !.write = outcome]) \in Job
  BY <1>1, Constants DEF Job, Stage
<1> QED BY <1>2 DEF Record, TypeOK

\* The token of a claim is a token nothing else refers to.
LEMMA FreshTokenIsFresh ==
  ASSUME \E t \in Token : t \notin TokensInUse
  PROVE  FreshToken \in Token /\ FreshToken \notin TokensInUse
BY DEF FreshToken

\* The writes a process leaves behind are writes.
LEMMA UnsettledType ==
  ASSUME TypeOK, NEW p \in Proc, NEW S \in SUBSET Event
  PROVE  Unsettled(p, S) \subseteq Write
BY DEF TypeOK, Unsettled, Write, Job

\* A claim takes rows to claimed rows under a token nothing else refers to.
LEMMA ClaimIntoType ==
  ASSUME TypeOK, NEW S \in SUBSET Due, ClaimInto(S, table')
  PROVE  /\ table' \in [Event -> Row]
         /\ FreshToken \in Token /\ FreshToken \notin TokensInUse
         /\ \A e \in Event : table'[e] = IF e \in S THEN ClaimedRow(table[e], FreshToken)
                                         ELSE table[e]
<1>1. FreshToken \in Token /\ FreshToken \notin TokensInUse
  BY FreshTokenIsFresh DEF ClaimInto
<1>2. ASSUME NEW e \in Event PROVE ClaimedRow(table[e], FreshToken) \in Row
  BY <1>1, ClaimedRowType DEF TypeOK
<1>3. table' = [e \in Event |-> IF e \in S THEN ClaimedRow(table[e], FreshToken) ELSE table[e]]
  BY DEF ClaimInto
<1> QED BY <1>1, <1>2, <1>3 DEF TypeOK

\* The number of stalled leases is a number.
LEMMA StalledIsFinite == Cardinality(Stalled) \in Nat
BY ConstantsAssumption, FS_Subset, FS_CardinalityType DEF Stalled

------------------------------------------------------------------------------
(* Type correctness *)

\* Initial states are well typed.
LEMMA InitType == Init => TypeOK
BY ConstantsAssumption, Constants DEF Init, TypeOK, Greater

\* The count of requests stays within its bound when it starts anew.
LEMMA RecountType ==
  ASSUME TypeOK, Recount
  PROVE  sent' \in [Event -> 0 .. MaxAttempts]
BY ConstantsAssumption DEF Recount, TypeOK

\* Every step of a drainer's loop, start and end keeps the types.
LEMMA ProcStepType ==
  ASSUME TypeOK, NEW p \in Proc, ProcStep(p)
  PROVE  TypeOK'
<1> USE DEF ghosts, procVars
<1>1. CASE Start(p)
  <2>1. \A e \in Event : Requeued(table[e]) \in Row
    BY Constants DEF TypeOK, Requeued
  <2>2. table' \in [Event -> Row]
    BY <1>1, <2>1 DEF Start, TypeOK
  <2>3. sent' \in [Event -> 0 .. MaxAttempts]
    BY <1>1, RecountType DEF Start
  <2>4. faults' \in 0 .. MaxFaults
    BY <1>1, ConstantsAssumption DEF Start, TypeOK, Fault
  <2> QED BY <1>1, <2>2, <2>3, <2>4 DEF Start, TypeOK
<1>2. CASE WakeUp(p)
  BY <1>2 DEF WakeUp, TypeOK, AfterMaintenance
<1>3. CASE Expire(p)
  <2>1. \A e \in Event : Expired(table[e]) \in Row
    BY ExpiredType DEF TypeOK
  <2> QED BY <1>3, <2>1 DEF Expire, TypeOK
<1>4. CASE Delete(p)
  <2>1. \A e \in Event : Retained(table[e]) \in Row
    BY Constants DEF TypeOK, Retained
  <2>2. sent' \in [Event -> 0 .. MaxAttempts]
    BY <1>4, RecountType DEF Delete
  <2> QED BY <1>4, <2>1, <2>2 DEF Delete, TypeOK, AfterMaintenance
<1>5. CASE Claim(p)
  <2>1. CASE mode[p] = "hard"
    BY <1>5, <2>1 DEF Claim, TypeOK
  <2>2. CASE mode[p] # "hard"
    <3>1. PICK S \in SUBSET Due :
            /\ ClaimInto(S, table')
            /\ job' = [job EXCEPT ![p] = [e \in Event |->
                 IF e \in S
                 THEN [stage |-> "queued", token |-> table'[e].token,
                       attempts |-> table'[e].attempts, write |-> Released]
                 ELSE NoJob]]
      BY <1>5, <2>2 DEF Claim
    <3>2. table' \in [Event -> Row]
      BY <3>1, ClaimIntoType
    <3>3. \A e \in Event : (IF e \in S
            THEN [stage |-> "queued", token |-> table'[e].token,
                  attempts |-> table'[e].attempts, write |-> Released]
            ELSE NoJob) \in Job
      BY <3>2, Constants DEF Row, Job, Stage
    <3>4. job' \in [Proc -> [Event -> Job]]
      BY <3>1, <3>3 DEF TypeOK
    <3> QED BY <1>5, <3>2, <3>4 DEF Claim, TypeOK
  <2> QED BY <2>1, <2>2
<1>6. CASE ClaimLost(p)
  <2>1. table' \in [Event -> Row]
    BY <1>6, ClaimIntoType DEF ClaimLost
  <2> QED BY <1>6, <2>1, ConstantsAssumption DEF ClaimLost, TypeOK, Fault
<1>7. CASE TickFails(p)
  BY <1>7, ConstantsAssumption DEF TickFails, TypeOK, Fault
<1>8. CASE Stop(p)
  BY <1>8, ConstantsAssumption DEF Stop, TypeOK, Detour
<1>9. CASE HardStop(p)
  BY <1>9, ConstantsAssumption DEF HardStop, TypeOK, Fault
<1>10. ASSUME Down(p), UNCHANGED <<table, ghosts, detours>>, faults' \in 0 .. MaxFaults
       PROVE  TypeOK'
  BY <1>10, UnsettledType, Constants DEF Down, TypeOK
<1>11. CASE Exit(p)
  BY <1>10, <1>11 DEF Exit, TypeOK
<1>12. CASE Crash(p)
  BY <1>10, <1>12, ConstantsAssumption DEF Crash, TypeOK, Fault
<1> QED BY <1>1, <1>2, <1>3, <1>4, <1>5, <1>6, <1>7, <1>8, <1>9, <1>11, <1>12 DEF ProcStep

\* So does every step of a worker.
LEMMA JobStepType ==
  ASSUME TypeOK, NEW p \in Proc, NEW e \in Event, JobStep(p, e)
  PROVE  TypeOK'
<1> USE DEF ghosts, procVars
<1>j. job[p][e] \in Job
  BY DEF TypeOK
<1>1. CASE TakeRow(p, e)
  <2>1. CASE Record(p, e, Released)
    BY <1>1, <2>1, RecordType, Constants DEF TakeRow, TypeOK
  <2>2. CASE job' = [job EXCEPT ![p][e].stage = "posting"]
    <3>1. [job[p][e] EXCEPT !.stage = "posting"] \in Job
      BY <1>j DEF Job, Stage
    <3>2. job' \in [Proc -> [Event -> Job]]
      BY <2>2, <3>1 DEF TypeOK
    <3> QED BY <1>1, <3>2 DEF TakeRow, TypeOK
  <2> QED BY <1>1, <2>1, <2>2 DEF TakeRow
<1>2. ASSUME NEW answer \in Answer, Answered(p, e, answer)
      PROVE  TypeOK'
  <2>1. job[p][e].attempts \in Nat
    BY <1>j DEF Job
  <2>2. PICK outcome \in Outcome : Record(p, e, outcome)
    BY <1>2, <2>1, OutcomesType DEF Answered
  <2>3. job' \in [Proc -> [Event -> Job]]
    BY <2>2, RecordType
  <2>4. sent' \in [Event -> 0 .. MaxAttempts]
    BY <1>2, ConstantsAssumption DEF Answered, Count, TypeOK, Lesser
  <2> QED BY <1>2, <2>3, <2>4 DEF Answered, TypeOK
<1>3. ASSUME NEW header \in RetryAfters \cup {NoHeader}, AnsweredThrottled(p, e, header)
      PROVE  TypeOK'
  <2>1. Requested(header) \in Nat /\ Throttled(header) \in Outcome
    BY ThrottledType
  <2>2. job' \in [Proc -> [Event -> Job]]
    BY <1>3, <2>1, RecordType DEF AnsweredThrottled
  <2> QED BY <1>3, <2>1, <2>2, ConstantsAssumption DEF AnsweredThrottled, TypeOK, Detour
<1>4. CASE Unanswered(p, e)
  <2>1. job[p][e].attempts \in Nat
    BY <1>j DEF Job
  <2>2. PICK outcome \in Outcome : Record(p, e, outcome)
    BY <1>4, <2>1, RetryOrFailType, Constants DEF Unanswered
  <2>3. job' \in [Proc -> [Event -> Job]]
    BY <2>2, RecordType
  <2>4. sent' \in [Event -> 0 .. MaxAttempts]
    BY <1>4, ConstantsAssumption DEF Unanswered, Count, TypeOK, Lesser
  <2> QED BY <1>4, <2>3, <2>4 DEF Unanswered, TypeOK
<1>5. CASE Written(p, e)
  <2>1. Settle(table[e], job[p][e].token, job[p][e].write) \in Row
    BY <1>j, SettleType DEF TypeOK, Job
  <2>2. table' \in [Event -> Row]
    BY <1>5, <2>1 DEF Written, TypeOK
  <2>3. job' \in [Proc -> [Event -> Job]]
    BY <1>5, Constants DEF Written, TypeOK
  <2> QED BY <1>5, <2>2, <2>3 DEF Written, TypeOK
<1>6. CASE WriteFails(p, e)
  <2>1. orphans' \subseteq Write
    BY <1>6, UnsettledType DEF WriteFails, TypeOK
  <2>2. job' \in [Proc -> [Event -> Job]]
    BY <1>6, Constants DEF WriteFails, TypeOK
  <2>3. faults' \in 0 .. MaxFaults
    BY <1>6, ConstantsAssumption DEF WriteFails, TypeOK, Fault
  <2> QED BY <1>6, <2>1, <2>2, <2>3 DEF WriteFails, TypeOK
<1> QED BY <1>1, <1>2, <1>3, <1>4, <1>5, <1>6 DEF JobStep

\* So does every step.
LEMMA NextType == TypeOK /\ [Next]_vars => TypeOK'
<1> SUFFICES ASSUME TypeOK, [Next]_vars PROVE TypeOK'
  OBVIOUS
<1> USE DEF ghosts, procVars
<1>1. ASSUME NEW e \in Event, Enqueue(e) PROVE TypeOK'
  BY <1>1, Constants DEF Enqueue, TypeOK
<1>2. ASSUME NEW w \in orphans, OrphanWrite(w) PROVE TypeOK'
  <2>1. w.event \in Event /\ Settle(table[w.event], w.token, w.outcome) \in Row
    BY SettleType DEF TypeOK, Write
  <2> QED BY <1>2, <2>1 DEF OrphanWrite, TypeOK
<1>3. CASE TimePasses
  <2>1. \A e \in Event : Aged(table[e]) \in Row
    BY AgedType DEF TypeOK
  <2>2. faults' \in 0 .. MaxFaults
    BY <1>3, StalledIsFinite, ConstantsAssumption DEF TimePasses, TypeOK
  <2>3. embargo' \in [Event -> Nat]
    BY <1>3 DEF TimePasses, TypeOK, Greater
  <2> QED BY <1>3, <2>1, <2>2, <2>3 DEF TimePasses, TypeOK
<1>4. CASE UNCHANGED vars
  BY <1>4 DEF vars, TypeOK
<1> QED BY <1>1, <1>2, <1>3, <1>4, ProcStepType, JobStepType DEF Next

\* The variables keep their types in every reachable state.
THEOREM TypeCorrect == Spec => []TypeOK
BY InitType, NextType, PTL DEF Spec
------------------------------------------------------------------------------
(* At most one claimant per row *)

\* OneClaimant is inductive once claims in memory and late writes are known to carry tokens.
ClaimInv ==
  /\ OneClaimant
  /\ \A p \in Proc, e \in Event : job[p][e].stage # "none" => job[p][e].token # NoToken
  /\ \A w \in orphans : w.token # NoToken

\* A step that gives up tokens, jobs or late writes, or only moves a job on, keeps it.
LEMMA ClaimsShrink ==
  ASSUME TypeOK, TypeOK', ClaimInv,
         \A e \in Event : table'[e].token \in {table[e].token, NoToken},
         \A e \in Event : table'[e].token # NoToken <=> table'[e].status = "delivering",
         \A p \in Proc, e \in Event : job'[p][e].stage # "none" =>
           job[p][e].stage # "none" /\ job'[p][e].token = job[p][e].token,
         orphans' \subseteq orphans
  PROVE  ClaimInv'
<1>1. \A p \in Proc, e \in Event : Holds(p, e)' => Holds(p, e)
  BY DEF ClaimInv, Holds
<1>2. \A w \in orphans' : w.event \in Event /\
        (w.token = table'[w.event].token => w.token = table[w.event].token)
  BY DEF ClaimInv, TypeOK, Write
<1>3. OneClaimant'
  BY <1>1, <1>2 DEF ClaimInv, OneClaimant
<1> QED BY <1>3 DEF ClaimInv

\* So does a step after which late writes stand for jobs that have ended.
LEMMA ClaimsOrphaned ==
  ASSUME TypeOK, TypeOK', ClaimInv, NEW p \in Proc, NEW S \in SUBSET Event,
         table' = table, orphans' = orphans \cup Unsettled(p, S),
         \A q \in Proc, e \in Event : job'[q][e].stage # "none" => job'[q][e] = job[q][e],
         \A e \in S : job'[p][e].stage = "none"
  PROVE  ClaimInv'
<1>1. \A q \in Proc, e \in Event : Holds(q, e)' => Holds(q, e)
  BY DEF Holds
<1>2. ASSUME NEW w \in Unsettled(p, S)
      PROVE  /\ w.event \in S /\ w.event \in Event
             /\ job[p][w.event].stage # "none"
             /\ w = [event |-> w.event, token |-> job[p][w.event].token,
                     outcome |-> job[p][w.event].write]
  BY <1>2 DEF Unsettled
<1>3. ASSUME NEW w \in orphans', w.token = table'[w.event].token
      PROVE  /\ \A q \in Proc : ~Holds(q, w.event)'
             /\ \A v \in orphans' : v.event = w.event /\ v.token = w.token => v = w
  <2>1. CASE w \in orphans
    <3>1. w.event \in Event
      BY <2>1 DEF TypeOK, Write
    <3>2. \A q \in Proc : ~Holds(q, w.event)
      BY <1>3, <2>1 DEF ClaimInv, OneClaimant
    <3>3. \A v \in Unsettled(p, S) : ~(v.event = w.event /\ v.token = w.token)
      BY <1>2, <1>3, <3>2 DEF Holds
    <3>4. \A v \in orphans : v.event = w.event /\ v.token = w.token => v = w
      BY <1>3, <2>1 DEF ClaimInv, OneClaimant
    <3> QED BY <1>1, <3>1, <3>2, <3>3, <3>4
  <2>2. CASE w \in Unsettled(p, S)
    <3>1. w.event \in S /\ w.event \in Event /\ Holds(p, w.event)
      BY <1>2, <1>3, <2>2 DEF Holds
    <3>2. \A q \in Proc : ~Holds(q, w.event)'
      BY <1>1, <3>1 DEF ClaimInv, OneClaimant, Holds
    <3>3. \A v \in orphans : ~(v.event = w.event /\ v.token = w.token)
      BY <1>3, <3>1 DEF ClaimInv, OneClaimant
    <3>4. \A v \in Unsettled(p, S) : v.event = w.event => v = w
      BY <1>2, <2>2
    <3> QED BY <3>2, <3>3, <3>4
  <2> QED BY <2>1, <2>2
<1>4. OneClaimant'
  BY <1>1, <1>3 DEF ClaimInv, OneClaimant
<1>5. \A w \in orphans' : w.token # NoToken
  BY <1>2 DEF ClaimInv
<1> QED BY <1>4, <1>5 DEF ClaimInv

\* A claim hands its rows to the claiming process alone: nothing else knows the new token.
LEMMA ClaimsClaimed ==
  ASSUME TypeOK, TypeOK', ClaimInv, NEW p \in Proc, NEW S \in SUBSET Due,
         ClaimInto(S, table'), orphans' = orphans,
         \A q \in Proc, e \in Event : job'[q][e].stage # "none" =>
           \/ job[q][e].stage # "none" /\ job'[q][e].token = job[q][e].token
           \/ q = p /\ e \in S /\ job'[q][e].token = FreshToken
  PROVE  ClaimInv'
<1>1. /\ FreshToken \in Token /\ FreshToken \notin TokensInUse
      /\ \A e \in Event : table'[e] = IF e \in S THEN ClaimedRow(table[e], FreshToken)
                                      ELSE table[e]
  BY ClaimIntoType
<1>2. FreshToken # NoToken
  BY <1>1, ConstantsAssumption
<1>3. /\ \A q \in Proc, e \in Event : job[q][e].token # FreshToken
      /\ \A w \in orphans : w.token # FreshToken
  BY <1>1 DEF TokensInUse
<1>r. \A e \in Event : /\ ClaimedRow(table[e], FreshToken).token = FreshToken
                       /\ ClaimedRow(table[e], FreshToken).status = "delivering"
  BY DEF ClaimedRow
<1>4. \A e \in Event : table'[e].token = IF e \in S THEN FreshToken ELSE table[e].token
  BY <1>1, <1>r
<1>5. \A e \in Event : table'[e].token # NoToken <=> table'[e].status = "delivering"
  BY <1>1, <1>2, <1>r DEF ClaimInv, OneClaimant
<1>6. \A q \in Proc, e \in Event : Holds(q, e)' => IF e \in S THEN q = p ELSE Holds(q, e)
  BY <1>3, <1>4, <1>2 DEF Holds, ClaimInv, TokensInUse
<1>7. ASSUME NEW w \in orphans', w.token = table'[w.event].token
      PROVE  /\ \A q \in Proc : ~Holds(q, w.event)'
             /\ \A v \in orphans' : v.event = w.event /\ v.token = w.token => v = w
  <2>1. w.event \in Event /\ w \in orphans
    BY DEF TypeOK, Write
  <2>2. w.event \notin S
    BY <1>3, <1>4, <1>7, <2>1
  <2>3. w.token = table[w.event].token
    BY <1>4, <1>7, <2>1, <2>2
  <2> QED BY <1>6, <2>1, <2>2, <2>3 DEF ClaimInv, OneClaimant
<1>8. OneClaimant'
  BY <1>5, <1>6, <1>7 DEF ClaimInv, OneClaimant
<1>9. \A q \in Proc, e \in Event : job'[q][e].stage # "none" => job'[q][e].token # NoToken
  BY <1>2 DEF ClaimInv
<1> QED BY <1>8, <1>9 DEF ClaimInv

\* How the statements that settle, requeue, expire and delete rows treat the token.
LEMMA RowTokens ==
  ASSUME NEW row \in Row, row.token # NoToken <=> row.status = "delivering",
         NEW token, NEW outcome \in Outcome,
         NEW new \in {row, Settle(row, token, outcome), Requeued(row), Expired(row), Retained(row)}
  PROVE  /\ new.token \in {row.token, NoToken}
         /\ new.token # NoToken <=> new.status = "delivering"
<1>1. CASE new = Settle(row, token, outcome)
  BY <1>1 DEF Settle, Outcome
<1>2. CASE new = Requeued(row)
  BY <1>2 DEF Requeued, Captured, NoRow
<1>3. CASE new = Expired(row)
  BY <1>3 DEF Expired, Row
<1>4. CASE new = Retained(row)
  BY <1>4 DEF Retained, NoRow
<1> QED BY <1>1, <1>2, <1>3, <1>4

\* The steps of a drainer's loop keep ClaimInv: only a claim brings a new claimant.
LEMMA ProcStepClaims ==
  ASSUME TypeOK, TypeOK', ClaimInv, NEW p \in Proc, ProcStep(p)
  PROVE  ClaimInv'
<1> USE DEF procVars
<1>r. \A e \in Event : table[e] \in Row /\ (table[e].token # NoToken <=> table[e].status = "delivering")
  BY DEF TypeOK, ClaimInv, OneClaimant
<1>o. Released \in Outcome
  BY Constants
<1>n. NoJob.stage = "none"
  BY DEF NoJob
<1>1. CASE Start(p)
  <2>1. \A e \in Event : table'[e] \in {table[e], Requeued(table[e])}
    BY <1>1 DEF Start, TypeOK
  <2>2. \A e \in Event : /\ table'[e].token \in {table[e].token, NoToken}
                         /\ table'[e].token # NoToken <=> table'[e].status = "delivering"
    BY <1>r, <1>o, <2>1, RowTokens
  <2>3. job' = job /\ orphans' = orphans
    BY <1>1 DEF Start
  <2> QED BY <2>2, <2>3, ClaimsShrink
<1>2. CASE WakeUp(p) \/ TickFails(p) \/ Stop(p) \/ HardStop(p)
  BY <1>2, <1>r, ClaimsShrink DEF WakeUp, TickFails, Stop, HardStop
<1>3. CASE Expire(p)
  <2>1. \A e \in Event : table'[e] \in {table[e], Expired(table[e])}
    BY <1>3 DEF Expire, TypeOK
  <2> QED BY <1>3, <1>r, <1>o, <2>1, RowTokens, ClaimsShrink DEF Expire
<1>4. CASE Delete(p)
  <2>1. \A e \in Event : table'[e] \in {table[e], Retained(table[e])}
    BY <1>4 DEF Delete, TypeOK
  <2> QED BY <1>4, <1>r, <1>o, <2>1, RowTokens, ClaimsShrink DEF Delete
<1>5. CASE Claim(p)
  <2>1. CASE mode[p] = "hard"
    BY <1>5, <2>1, <1>r, ClaimsShrink DEF Claim
  <2>2. CASE mode[p] # "hard"
    <3>1. PICK S \in SUBSET Due :
            /\ ClaimInto(S, table')
            /\ job' = [job EXCEPT ![p] = [e \in Event |->
                 IF e \in S
                 THEN [stage |-> "queued", token |-> table'[e].token,
                       attempts |-> table'[e].attempts, write |-> Released]
                 ELSE NoJob]]
      BY <1>5, <2>2 DEF Claim
    <3>2. \A e \in S : table'[e].token = FreshToken
      <4>1. \A e \in Event : e \in S => table'[e] = ClaimedRow(table[e], FreshToken)
        BY <3>1, ClaimIntoType
      <4>2. \A e \in Event : ClaimedRow(table[e], FreshToken).token = FreshToken
        BY DEF ClaimedRow
      <4> QED BY <4>1, <4>2 DEF Due
    <3>3. \A q \in Proc, e \in Event : job'[q][e].stage # "none" =>
            \/ job[q][e].stage # "none" /\ job'[q][e].token = job[q][e].token
            \/ q = p /\ e \in S /\ job'[q][e].token = FreshToken
      BY <3>1, <3>2, <1>n DEF TypeOK
    <3> QED BY <1>5, <3>1, <3>3, ClaimsClaimed DEF Claim
  <2> QED BY <2>1, <2>2
<1>6. CASE ClaimLost(p)
  <2>1. PICK S \in SUBSET Due : ClaimInto(S, table')
    BY <1>6 DEF ClaimLost
  <2> QED BY <1>6, <2>1, ClaimsClaimed DEF ClaimLost
<1>7. CASE Exit(p) \/ Crash(p)
  <2>1. Down(p) /\ table' = table
    BY <1>7 DEF Exit, Crash
  <2>2. /\ \A q \in Proc, e \in Event : job'[q][e].stage # "none" => job'[q][e] = job[q][e]
        /\ \A e \in Event : job'[p][e].stage = "none"
    BY <2>1, <1>n DEF Down, TypeOK
  <2>3. orphans' = orphans \cup Unsettled(p, Event)
    BY <2>1 DEF Down
  <2> QED BY <2>1, <2>2, <2>3, ClaimsOrphaned
<1> QED BY <1>1, <1>2, <1>3, <1>4, <1>5, <1>6, <1>7 DEF ProcStep

\* So do a worker's: it moves its job on, ends it, or leaves a late write in its place.
LEMMA JobStepClaims ==
  ASSUME TypeOK, TypeOK', ClaimInv, NEW p \in Proc, NEW e \in Event, JobStep(p, e)
  PROVE  ClaimInv'
<1>r. \A f \in Event : table[f] \in Row /\ (table[f].token # NoToken <=> table[f].status = "delivering")
  BY DEF TypeOK, ClaimInv, OneClaimant
<1>j. job[p][e] \in Job /\ NoJob.stage = "none"
  BY DEF TypeOK, NoJob
<1>1. ASSUME job[p][e].stage # "none", table' = table, orphans' = orphans,
             \/ \E outcome \in Outcome : Record(p, e, outcome)
             \/ job' = [job EXCEPT ![p][e].stage = "posting"]
      PROVE  ClaimInv'
  <2>1. \A q \in Proc, f \in Event : job'[q][f].stage # "none" =>
          job[q][f].stage # "none" /\ job'[q][f].token = job[q][f].token
    <3>1. CASE \E outcome \in Outcome : Record(p, e, outcome)
      <4>1. PICK outcome \in Outcome : Record(p, e, outcome)
        BY <3>1
      <4>2. [job[p][e] EXCEPT !.stage = "writing", !.write = outcome].token = job[p][e].token
        BY <1>j DEF Job
      <4> QED BY <1>1, <1>j, <4>1, <4>2 DEF Record, TypeOK
    <3>2. CASE job' = [job EXCEPT ![p][e].stage = "posting"]
      BY <1>1, <1>j, <3>2 DEF TypeOK, Job
    <3> QED BY <1>1, <3>1, <3>2
  <2> QED BY <1>1, <1>r, <2>1, ClaimsShrink
<1>2. CASE TakeRow(p, e)
  <2>1. CASE Record(p, e, Released)
    BY <1>1, <1>2, <2>1, Constants DEF TakeRow
  <2> QED BY <1>1, <1>2, <2>1 DEF TakeRow
<1>3. ASSUME NEW answer \in Answer, Answered(p, e, answer) PROVE ClaimInv'
  <2>1. PICK outcome \in Outcome : Record(p, e, outcome)
    BY <1>3, <1>j, OutcomesType DEF Answered, Job
  <2> QED BY <1>1, <1>3, <2>1 DEF Answered
<1>4. ASSUME NEW header \in RetryAfters \cup {NoHeader}, AnsweredThrottled(p, e, header)
      PROVE  ClaimInv'
  BY <1>1, <1>4, ThrottledType DEF AnsweredThrottled
<1>5. CASE Unanswered(p, e)
  <2>1. PICK outcome \in Outcome : Record(p, e, outcome)
    BY <1>5, <1>j, RetryOrFailType, Constants DEF Unanswered, Job
  <2> QED BY <1>1, <1>5, <2>1 DEF Unanswered
<1>6. CASE Written(p, e)
  <2>1. job[p][e].write \in Outcome
    BY <1>j DEF Job
  <2>2. \A f \in Event : table'[f] \in {table[f], Settle(table[f], job[p][e].token, job[p][e].write)}
    BY <1>6 DEF Written, TypeOK
  <2>3. \A q \in Proc, f \in Event : job'[q][f].stage # "none" =>
          job[q][f].stage # "none" /\ job'[q][f].token = job[q][f].token
    BY <1>6, <1>j DEF Written, TypeOK
  <2> QED BY <1>6, <1>r, <2>1, <2>2, <2>3, RowTokens, ClaimsShrink DEF Written
<1>7. CASE WriteFails(p, e)
  <2>1. /\ \A q \in Proc, f \in Event : job'[q][f].stage # "none" => job'[q][f] = job[q][f]
        /\ \A f \in {e} : job'[p][f].stage = "none"
    BY <1>7, <1>j DEF WriteFails, TypeOK
  <2> QED BY <1>7, <2>1, ClaimsOrphaned DEF WriteFails
<1> QED BY <1>2, <1>3, <1>4, <1>5, <1>6, <1>7 DEF JobStep

\* ClaimInv is inductive relative to the types.
LEMMA NextClaims == TypeOK /\ TypeOK' /\ ClaimInv /\ [Next]_vars => ClaimInv'
<1> SUFFICES ASSUME TypeOK, TypeOK', ClaimInv, [Next]_vars PROVE ClaimInv'
  OBVIOUS
<1> USE DEF procVars
<1>r. \A e \in Event : table[e] \in Row /\ (table[e].token # NoToken <=> table[e].status = "delivering")
  BY DEF TypeOK, ClaimInv, OneClaimant
<1>1. ASSUME NEW e \in Event, Enqueue(e) PROVE ClaimInv'
  <2>1. Captured.token = NoToken /\ Captured.status = "pending"
    BY DEF Captured, NoRow
  <2>2. \A f \in Event : table'[f] = IF f = e THEN Captured ELSE table[f]
    BY <1>1 DEF Enqueue, TypeOK
  <2> QED BY <1>1, <1>r, <2>1, <2>2, ClaimsShrink DEF Enqueue
<1>2. ASSUME NEW w \in orphans, OrphanWrite(w) PROVE ClaimInv'
  <2>1. w.outcome \in Outcome
    BY DEF TypeOK, Write
  <2>2. \A f \in Event : table'[f] \in {table[f], Settle(table[f], w.token, w.outcome)}
    BY <1>2 DEF OrphanWrite, TypeOK
  <2>3. orphans' \subseteq orphans /\ job' = job
    BY <1>2 DEF OrphanWrite
  <2> QED BY <1>r, <2>1, <2>2, <2>3, RowTokens, ClaimsShrink
<1>3. CASE TimePasses
  <2>1. \A e \in Event : table'[e].token = table[e].token /\ table'[e].status = table[e].status
    BY <1>3, <1>r DEF TimePasses, Aged, Row
  <2> QED BY <1>3, <1>r, <2>1, ClaimsShrink DEF TimePasses
<1>4. CASE UNCHANGED vars
  BY <1>4, <1>r, ClaimsShrink DEF vars
<1> QED BY <1>1, <1>2, <1>3, <1>4, ProcStepClaims, JobStepClaims DEF Next

\* In every reachable state at most one worker or late write can settle a claimed row.
THEOREM FencingHolds == Spec => []OneClaimant
<1>1. Init => ClaimInv
  BY DEF Init, ClaimInv, OneClaimant, NoRow, NoJob, Holds
<1>2. TypeOK /\ TypeOK' /\ ClaimInv /\ [Next]_vars => ClaimInv'
  BY NextClaims
<1>3. ClaimInv => OneClaimant
  BY DEF ClaimInv
<1> QED BY <1>1, <1>2, <1>3, TypeCorrect, PTL DEF Spec

------------------------------------------------------------------------------
(* Delivered rows *)

\* Whoever may still write "delivered" for an event has seen Radar commit it.
DeliveredInv ==
  /\ DeliveredWasAccepted
  /\ \A p \in Proc, e \in Event :
       job[p][e].stage = "writing" /\ job[p][e].write.to = "delivered" => e \in accepted
  /\ \A w \in orphans : w.outcome.to = "delivered" => w.event \in accepted

\* A step that writes no new "delivered" anywhere keeps it.
LEMMA NothingDelivered ==
  ASSUME TypeOK, TypeOK', DeliveredInv, accepted \subseteq accepted',
         \A e \in Event : table'[e].status = "delivered" => table[e].status = "delivered",
         \A p \in Proc, e \in Event :
           job'[p][e].stage = "writing" /\ job'[p][e].write.to = "delivered" =>
             \/ job[p][e].stage = "writing" /\ job[p][e].write.to = "delivered"
             \/ e \in accepted',
         \A w \in orphans' :
           w \in orphans \/ \E p \in Proc : w \in Unsettled(p, Event)
  PROVE  DeliveredInv'
<1>1. \A p \in Proc : \A w \in Unsettled(p, Event) :
        w.outcome.to = "delivered" => w.event \in accepted
  BY DEF Unsettled, DeliveredInv
<1> QED BY <1>1 DEF DeliveredInv, DeliveredWasAccepted

\* No step of a drainer's loop records a delivery.
LEMMA ProcStepDelivered ==
  ASSUME TypeOK, TypeOK', DeliveredInv, NEW p \in Proc, ProcStep(p)
  PROVE  DeliveredInv'
<1> USE DEF ghosts, procVars
<1>1. CASE Start(p)
  <2>1. \A e \in Event : table'[e] \in {table[e], Requeued(table[e])}
    BY <1>1 DEF Start, TypeOK
  <2>2. \A e \in Event : table'[e].status = "delivered" => table[e].status = "delivered"
    BY <2>1 DEF Requeued, Captured, NoRow
  <2> QED BY <1>1, <2>2, NothingDelivered DEF Start
<1>2. CASE WakeUp(p) \/ TickFails(p) \/ Stop(p) \/ HardStop(p)
  BY <1>2, NothingDelivered DEF WakeUp, TickFails, Stop, HardStop
<1>3. CASE Expire(p)
  <2>1. \A e \in Event : table'[e] \in {table[e], Expired(table[e])}
    BY <1>3 DEF Expire, TypeOK
  <2>2. \A e \in Event : table[e] \in Row
    BY DEF TypeOK
  <2>3. \A e \in Event : table'[e].status = "delivered" => table[e].status = "delivered"
    BY <2>1, <2>2 DEF Expired, Row
  <2> QED BY <1>3, <2>3, NothingDelivered DEF Expire
<1>4. CASE Delete(p)
  <2>1. \A e \in Event : table'[e] \in {table[e], Retained(table[e])}
    BY <1>4 DEF Delete, TypeOK
  <2>2. \A e \in Event : table'[e].status = "delivered" => table[e].status = "delivered"
    BY <2>1 DEF Retained, NoRow
  <2> QED BY <1>4, <2>2, NothingDelivered DEF Delete
<1>5. ASSUME NEW S \in SUBSET Due, ClaimInto(S, table')
      PROVE  \A e \in Event : table'[e].status = "delivered" => table[e].status = "delivered"
  <2>1. \A e \in Event : ClaimedRow(table[e], FreshToken).status = "delivering"
    BY DEF ClaimedRow
  <2> QED BY <1>5, <2>1, ClaimIntoType
<1>6. CASE Claim(p)
  <2>1. CASE mode[p] = "hard"
    BY <1>6, <2>1, NothingDelivered DEF Claim
  <2>2. CASE mode[p] # "hard"
    <3>1. PICK S \in SUBSET Due :
            /\ ClaimInto(S, table')
            /\ job' = [job EXCEPT ![p] = [e \in Event |->
                 IF e \in S
                 THEN [stage |-> "queued", token |-> table'[e].token,
                       attempts |-> table'[e].attempts, write |-> Released]
                 ELSE NoJob]]
      BY <1>6, <2>2 DEF Claim
    <3>2. \A q \in Proc, e \in Event :
            job'[q][e].stage = "writing" /\ job'[q][e].write.to = "delivered" =>
              job[q][e].stage = "writing" /\ job[q][e].write.to = "delivered"
      BY <3>1 DEF TypeOK, NoJob
    <3> QED BY <1>5, <1>6, <3>1, <3>2, NothingDelivered DEF Claim
  <2> QED BY <2>1, <2>2
<1>7. CASE ClaimLost(p)
  <2>1. PICK S \in SUBSET Due : ClaimInto(S, table')
    BY <1>7 DEF ClaimLost
  <2> QED BY <1>5, <1>7, <2>1, NothingDelivered DEF ClaimLost
<1>8. CASE Exit(p) \/ Crash(p)
  <2>1. Down(p) /\ table' = table /\ accepted' = accepted
    BY <1>8 DEF Exit, Crash
  <2>2. \A q \in Proc, e \in Event :
          job'[q][e].stage = "writing" => job'[q][e] = job[q][e]
    BY <2>1 DEF Down, TypeOK, NoJob
  <2> QED BY <2>1, <2>2, NothingDelivered DEF Down
<1> QED BY <1>1, <1>2, <1>3, <1>4, <1>6, <1>7, <1>8 DEF ProcStep

\* An outcome write makes a row delivered only if that is what it says.
LEMMA SettleDelivered ==
  ASSUME NEW row, NEW token, NEW outcome, Settle(row, token, outcome).status = "delivered"
  PROVE  row.status = "delivered" \/ outcome.to = "delivered"
BY DEF Settle

\* A worker records one only after a 2xx.
LEMMA JobStepDelivered ==
  ASSUME TypeOK, TypeOK', DeliveredInv, NEW p \in Proc, NEW e \in Event, JobStep(p, e)
  PROVE  DeliveredInv'
<1> USE DEF ghosts, procVars
<1>j. job[p][e] \in Job /\ NoJob.stage = "none"
  BY DEF TypeOK, NoJob
<1>1. ASSUME NEW outcome \in Outcome, Record(p, e, outcome), table' = table, orphans' = orphans,
             accepted \subseteq accepted', outcome.to = "delivered" => e \in accepted'
      PROVE  DeliveredInv'
  <2>1. [job[p][e] EXCEPT !.stage = "writing", !.write = outcome].write = outcome
    BY <1>j DEF Job
  <2>2. \A q \in Proc, f \in Event :
          job'[q][f].stage = "writing" /\ job'[q][f].write.to = "delivered" =>
            \/ job[q][f].stage = "writing" /\ job[q][f].write.to = "delivered"
            \/ f \in accepted'
    BY <1>1, <1>j, <2>1 DEF Record, TypeOK
  <2> QED BY <1>1, <2>2, NothingDelivered
<1>2. CASE TakeRow(p, e)
  <2>1. CASE Record(p, e, Released)
    BY <1>1, <1>2, <2>1, Constants DEF TakeRow, Released, Deferred
  <2>2. CASE job' = [job EXCEPT ![p][e].stage = "posting"]
    <3>1. \A q \in Proc, f \in Event : job'[q][f].stage = "writing" => job'[q][f] = job[q][f]
      BY <1>j, <2>2 DEF TypeOK, Job
    <3> QED BY <1>2, <3>1, NothingDelivered DEF TakeRow
  <2> QED BY <1>2, <2>1, <2>2 DEF TakeRow
<1>3. ASSUME NEW answer \in Answer, Answered(p, e, answer) PROVE DeliveredInv'
  <2>1. PICK outcome \in Outcomes(answer, job[p][e].attempts) : Record(p, e, outcome)
    BY <1>3 DEF Answered
  <2>2. outcome \in Outcome
    BY <1>j, <2>1, OutcomesType DEF Job
  <2>3. outcome.to = "delivered" => answer = "2xx"
    BY <1>j, <2>1, OnlyOkDelivers DEF Job
  <2>4. accepted \subseteq accepted' /\ (outcome.to = "delivered" => e \in accepted')
    BY <1>3, <2>3 DEF Answered
  <2> QED BY <1>1, <1>3, <2>1, <2>2, <2>4 DEF Answered
<1>4. ASSUME NEW header \in RetryAfters \cup {NoHeader}, AnsweredThrottled(p, e, header)
      PROVE  DeliveredInv'
  <2>1. Throttled(header) \in Outcome /\ Throttled(header).to # "delivered"
    BY ThrottledType DEF Throttled, Finished, Deferred
  <2> QED BY <1>1, <1>4, <2>1 DEF AnsweredThrottled
<1>5. CASE Unanswered(p, e)
  <2>1. PICK outcome \in RetryOrFail(job[p][e].attempts) \cup {Released} : Record(p, e, outcome)
    BY <1>5 DEF Unanswered
  <2>2. outcome \in Outcome
    BY <1>j, <2>1, RetryOrFailType, Constants DEF Job
  <2>3. outcome.to # "delivered"
    BY <2>1 DEF RetryOrFail, Finished, Deferred, Released
  <2> QED BY <1>1, <1>5, <2>1, <2>2, <2>3 DEF Unanswered
<1>6. CASE Written(p, e)
  <2>1. \A f \in Event : table'[f] = IF f = e THEN Settle(table[e], job[p][e].token, job[p][e].write)
                                     ELSE table[f]
    BY <1>6 DEF Written, TypeOK
  <2>2. \A f \in Event : table'[f].status = "delivered" => f \in accepted'
    BY <1>6, <2>1, SettleDelivered DEF DeliveredInv, DeliveredWasAccepted, Written
  <2>3. \A q \in Proc, f \in Event : job'[q][f].stage = "writing" => job'[q][f] = job[q][f]
    BY <1>6, <1>j DEF Written, TypeOK
  <2> QED BY <1>6, <2>2, <2>3 DEF DeliveredInv, DeliveredWasAccepted, Written
<1>7. CASE WriteFails(p, e)
  <2>1. \A q \in Proc, f \in Event : job'[q][f].stage = "writing" => job'[q][f] = job[q][f]
    BY <1>7, <1>j DEF WriteFails, TypeOK
  <2>2. \A w \in orphans' : w \in orphans \/ w \in Unsettled(p, Event)
    BY <1>7 DEF WriteFails, Unsettled
  <2> QED BY <1>7, <2>1, <2>2, NothingDelivered DEF WriteFails
<1> QED BY <1>2, <1>3, <1>4, <1>5, <1>6, <1>7 DEF JobStep

\* DeliveredInv is inductive relative to the types.
LEMMA NextDelivered == TypeOK /\ TypeOK' /\ DeliveredInv /\ [Next]_vars => DeliveredInv'
<1> SUFFICES ASSUME TypeOK, TypeOK', DeliveredInv, [Next]_vars PROVE DeliveredInv'
  OBVIOUS
<1> USE DEF ghosts, procVars
<1>1. ASSUME NEW e \in Event, Enqueue(e) PROVE DeliveredInv'
  <2>1. Captured.status = "pending"
    BY DEF Captured, NoRow
  <2>2. \A f \in Event : table'[f] = IF f = e THEN Captured ELSE table[f]
    BY <1>1 DEF Enqueue, TypeOK
  <2> QED BY <1>1, <2>1, <2>2, NothingDelivered DEF Enqueue
<1>2. ASSUME NEW w \in orphans, OrphanWrite(w) PROVE DeliveredInv'
  <2>1. \A f \in Event : table'[f] = table[f] \/
          (f = w.event /\ table'[f] = Settle(table[f], w.token, w.outcome))
    BY <1>2 DEF OrphanWrite, TypeOK
  <2>2. \A f \in Event : table'[f].status = "delivered" => f \in accepted
    BY <2>1, SettleDelivered DEF DeliveredInv, DeliveredWasAccepted
  <2> QED BY <1>2, <2>2 DEF OrphanWrite, DeliveredInv, DeliveredWasAccepted
<1>3. CASE TimePasses
  <2>1. \A e \in Event : table'[e].status = table[e].status
    BY <1>3 DEF TimePasses, Aged, TypeOK, Row
  <2> QED BY <1>3, <2>1, NothingDelivered DEF TimePasses
<1>4. CASE UNCHANGED vars
  BY <1>4, NothingDelivered DEF vars
<1> QED BY <1>1, <1>2, <1>3, <1>4, ProcStepDelivered, JobStepDelivered DEF Next

\* DeliveredInv holds in every reachable state.
LEMMA DeliveredInvHolds == Spec => []DeliveredInv
<1>1. Init => DeliveredInv
  BY DEF Init, DeliveredInv, DeliveredWasAccepted, NoRow, NoJob
<1> QED BY <1>1, NextDelivered, TypeCorrect, PTL DEF Spec

\* In every reachable state a row marked delivered is one Radar has committed.
THEOREM DeliveredMeansCommitted == Spec => []DeliveredWasAccepted
<1>1. DeliveredInv => DeliveredWasAccepted
  BY DEF DeliveredInv
<1> QED BY <1>1, DeliveredInvHolds, PTL

------------------------------------------------------------------------------
(* Every step keeps the promise *)

\* A step that changes no fate and commits nothing is a stutter of the promise.
LEMMA SameFates ==
  ASSUME TypeOK, TypeOK', accepted' = accepted, \A e \in Event : FateOf(table'[e]) = FateOf(table[e])
  PROVE  [Promise!Next]_(Promise!vars)
BY DEF Promise!vars

\* Radar may commit an event in a step that changes no fate.
LEMMA OnlyCommits ==
  ASSUME TypeOK, NEW e \in Event, table' = table, accepted' \in {accepted, accepted \cup {e}}
  PROVE  [Promise!Next]_(Promise!vars)
<1>1. CASE accepted' = accepted
  BY <1>1 DEF Promise!vars
<1>2. CASE accepted' = accepted \cup {e}
  BY <1>2 DEF Promise!Next, Promise!Commit
<1> QED BY <1>1, <1>2

\* An outcome write delivers a row, gives it up, or keeps it held.
LEMMA SettleKeepsPromise ==
  ASSUME TypeOK, TypeOK', accepted' = accepted, NEW e \in Event, NEW token, NEW outcome \in Outcome,
         outcome.to = "delivered" => e \in accepted,
         \A f \in Event : table'[f] = IF f = e THEN Settle(table[e], token, outcome) ELSE table[f]
  PROVE  [Promise!Next]_(Promise!vars)
<1>1. CASE ~(table[e].status = "delivering" /\ table[e].token = token)
  <2>1. \A f \in Event : table'[f] = table[f]
    BY <1>1 DEF Settle
  <2> QED BY <2>1, SameFates
<1>2. CASE table[e].status = "delivering" /\ table[e].token = token
  <2>1. table'[e].status = outcome.to /\ FateOf(table[e]) = "held"
    BY <1>2 DEF Settle, FateOf
  <2>2. CASE outcome.to \in {"pending", "parked"}
    <3>1. FateOf(table'[e]) = "held"
      BY <2>1, <2>2 DEF FateOf
    <3> QED BY <2>1, <3>1, SameFates
  <2>3. CASE outcome.to = "delivered"
    <3>1. FateOf(table'[e]) = "delivered"
      BY <2>1, <2>3 DEF FateOf
    <3>2. Promise!Deliver(e)
      BY <2>1, <2>3, <3>1 DEF Promise!Deliver, Promise!Move
    <3> QED BY <3>2 DEF Promise!Next
  <2>4. CASE outcome.to = "failed"
    <3>1. FateOf(table'[e]) = "given_up"
      BY <2>1, <2>4 DEF FateOf
    <3>2. Promise!GiveUp({e})
      BY <2>1, <3>1 DEF Promise!GiveUp, Promise!Move
    <3> QED BY <3>2 DEF Promise!Next
  <2> QED BY <2>2, <2>3, <2>4 DEF Outcome
<1> QED BY <1>1, <1>2

\* Maintenance gives up and forgets; the rest of a drainer's loop changes no fate.
LEMMA ProcStepPromise ==
  ASSUME TypeOK, TypeOK', NEW p \in Proc, ProcStep(p)
  PROVE  [Promise!Next]_(Promise!vars)
<1> USE DEF ghosts, procVars
<1>r. \A e \in Event : table[e] \in Row
  BY DEF TypeOK
<1>1. CASE Start(p)
  <2>1. \A e \in Event : table'[e] \in {table[e], Requeued(table[e])}
    BY <1>1 DEF Start, TypeOK
  <2>2. \A e \in Event : FateOf(table'[e]) = FateOf(table[e])
    BY <2>1 DEF Requeued, Captured, NoRow, FateOf
  <2> QED BY <1>1, <2>2, SameFates DEF Start
<1>2. CASE WakeUp(p) \/ TickFails(p) \/ Stop(p) \/ HardStop(p) \/ Exit(p) \/ Crash(p)
  BY <1>2, SameFates DEF WakeUp, TickFails, Stop, HardStop, Exit, Crash
<1>3. CASE Expire(p)
  <2> DEFINE S == {e \in Event : FateOf(table'[e]) # FateOf(table[e])}
  <2>1. \A e \in Event : table'[e] \in {table[e], Expired(table[e])}
    BY <1>3 DEF Expire, TypeOK
  <2>2. \A e \in S : FateOf(table[e]) = "held" /\ FateOf(table'[e]) = "given_up"
    BY <1>r, <2>1 DEF Expired, FateOf, Row
  <2>3. Promise!GiveUp(S)
    BY <1>3, <2>2 DEF Promise!GiveUp, Promise!Move, Expire
  <2> QED BY <2>3 DEF Promise!Next
<1>4. CASE Delete(p)
  <2> DEFINE S == {e \in Event : FateOf(table'[e]) # FateOf(table[e])}
  <2>1. \A e \in Event : table'[e] \in {table[e], Retained(table[e])}
    BY <1>4 DEF Delete, TypeOK
  <2>2. \A e \in S : FateOf(table[e]) \in {"delivered", "given_up"} /\ FateOf(table'[e]) = "unknown"
    BY <2>1 DEF Retained, NoRow, FateOf
  <2>3. Promise!Forget(S)
    BY <1>4, <2>2 DEF Promise!Forget, Promise!Move, Delete
  <2> QED BY <2>3 DEF Promise!Next
<1>5. ASSUME NEW S \in SUBSET Due, ClaimInto(S, table')
      PROVE  \A e \in Event : FateOf(table'[e]) = FateOf(table[e])
  <2>1. \A e \in Event : ClaimedRow(table[e], FreshToken).status = "delivering"
    BY DEF ClaimedRow
  <2>2. \A e \in S : table[e].status \in {"pending", "delivering"}
    BY DEF Due
  <2> QED BY <1>5, <2>1, <2>2, ClaimIntoType DEF FateOf
<1>6. CASE Claim(p) \/ ClaimLost(p)
  BY <1>5, <1>6, SameFates DEF Claim, ClaimLost
<1> QED BY <1>1, <1>2, <1>3, <1>4, <1>6 DEF ProcStep

\* A worker lets Radar commit, and its outcome write settles the row.
LEMMA JobStepPromise ==
  ASSUME TypeOK, TypeOK', DeliveredInv, NEW p \in Proc, NEW e \in Event, JobStep(p, e)
  PROVE  [Promise!Next]_(Promise!vars)
<1> USE DEF ghosts, procVars
<1>1. CASE TakeRow(p, e) \/ WriteFails(p, e)
  BY <1>1, SameFates DEF TakeRow, WriteFails
<1>2. ASSUME NEW answer \in Answer, Answered(p, e, answer)
      PROVE  [Promise!Next]_(Promise!vars)
  BY <1>2, OnlyCommits DEF Answered
<1>3. ASSUME NEW header \in RetryAfters \cup {NoHeader}, AnsweredThrottled(p, e, header)
      PROVE  [Promise!Next]_(Promise!vars)
  BY <1>3, SameFates DEF AnsweredThrottled
<1>4. CASE Unanswered(p, e)
  BY <1>4, OnlyCommits DEF Unanswered
<1>5. CASE Written(p, e)
  <2>1. job[p][e].write \in Outcome
    BY DEF TypeOK, Job
  <2>2. job[p][e].write.to = "delivered" => e \in accepted
    BY <1>5 DEF DeliveredInv, Written
  <2>3. \A f \in Event : table'[f] = IF f = e THEN Settle(table[e], job[p][e].token, job[p][e].write)
                                     ELSE table[f]
    BY <1>5 DEF Written, TypeOK
  <2> QED BY <1>5, <2>1, <2>2, <2>3, SettleKeepsPromise DEF Written
<1> QED BY <1>1, <1>2, <1>3, <1>4, <1>5 DEF JobStep

\* Every step is a step of the promise, or none.
LEMMA NextPromise ==
  TypeOK /\ TypeOK' /\ DeliveredInv /\ [Next]_vars => [Promise!Next]_(Promise!vars)
<1> SUFFICES ASSUME TypeOK, TypeOK', DeliveredInv, [Next]_vars
             PROVE  [Promise!Next]_(Promise!vars)
  OBVIOUS
<1> USE DEF ghosts, procVars
<1>1. ASSUME NEW e \in Event, Enqueue(e) PROVE [Promise!Next]_(Promise!vars)
  <2>1. \A f \in Event : table'[f] = IF f = e THEN Captured ELSE table[f]
    BY <1>1 DEF Enqueue, TypeOK
  <2>2. FateOf(table[e]) = "unknown" /\ FateOf(Captured) = "held"
    BY <1>1 DEF Enqueue, Captured, NoRow, FateOf
  <2>3. Promise!Capture(e)
    BY <1>1, <2>1, <2>2 DEF Promise!Capture, Promise!Move, Enqueue
  <2> QED BY <2>3 DEF Promise!Next
<1>2. ASSUME NEW w \in orphans, OrphanWrite(w) PROVE [Promise!Next]_(Promise!vars)
  <2>1. CASE table' = table
    BY <1>2, <2>1, SameFates DEF OrphanWrite
  <2>2. CASE table' = [table EXCEPT ![w.event] = Settle(@, w.token, w.outcome)]
    <3>1. w.event \in Event /\ w.outcome \in Outcome
      BY DEF TypeOK, Write
    <3>2. w.outcome.to = "delivered" => w.event \in accepted
      BY DEF DeliveredInv
    <3>3. \A f \in Event : table'[f] = IF f = w.event
                                       THEN Settle(table[w.event], w.token, w.outcome)
                                       ELSE table[f]
      BY <2>2, <3>1 DEF TypeOK
    <3> QED BY <1>2, <3>1, <3>2, <3>3, SettleKeepsPromise DEF OrphanWrite
  <2> QED BY <1>2, <2>1, <2>2 DEF OrphanWrite
<1>3. CASE TimePasses
  <2>1. \A e \in Event : table'[e].status = table[e].status
    BY <1>3 DEF TimePasses, Aged, TypeOK, Row
  <2> QED BY <1>3, <2>1, SameFates DEF TimePasses, FateOf
<1>4. CASE UNCHANGED vars
  BY <1>4, SameFates DEF vars
<1> QED BY <1>1, <1>2, <1>3, <1>4, ProcStepPromise, JobStepPromise DEF Next

\* Every behaviour of the outbox is one of RelayDelivery: a captured event leaves the
\* outbox only as committed by Radar and recorded so, or as given up.
THEOREM OutboxKeepsPromise == Spec => KeepsPromise
<1>1. Init => Promise!Init
  BY DEF Init, Promise!Init, FateOf, NoRow
<1>2. TypeOK /\ TypeOK' /\ DeliveredInv /\ [Next]_vars => [Promise!Next]_(Promise!vars)
  BY NextPromise
<1> QED BY <1>1, <1>2, TypeCorrect, DeliveredInvHolds, PTL DEF Spec, KeepsPromise, Promise!Spec
------------------------------------------------------------------------------
(* Ends are final *)

\* What may become of a row that is delivered or failed: it goes, or only its timer moves.
Final(row, next) ==
  row.status \in {"delivered", "failed"} =>
    next.status = "absent" \/ next = [row EXCEPT !.timer = next.timer]

\* A row that stays as it is moves no more than its timer.
LEMMA SameIsFinal ==
  ASSUME NEW row \in Row
  PROVE  Final(row, row)
BY DEF Final, Row

\* No statement on the table touches a row that has ended, but to delete it.
LEMMA StatementsAreFinal ==
  ASSUME NEW row \in Row
  PROVE  /\ Final(row, Requeued(row)) /\ Final(row, Expired(row)) /\ Final(row, Retained(row))
         /\ Final(row, Aged(row))
         /\ \A token, outcome : Final(row, Settle(row, token, outcome))
<1>1. Final(row, Requeued(row)) /\ Final(row, Expired(row)) /\ Final(row, Retained(row))
  BY SameIsFinal DEF Final, Requeued, Expired, Retained, NoRow
<1>2. Aged(row) = [row EXCEPT !.timer = Aged(row).timer]
  BY DEF Aged, Row
<1>3. ASSUME NEW token, NEW outcome PROVE Final(row, Settle(row, token, outcome))
  BY SameIsFinal DEF Final, Settle
<1> QED BY <1>1, <1>2, <1>3 DEF Final

\* A claim takes no row that has ended.
LEMMA ClaimIsFinal ==
  ASSUME TypeOK, NEW S \in SUBSET Due, ClaimInto(S, table'), NEW e \in Event
  PROVE  Final(table[e], table'[e])
<1>1. table[e] \in Row
  BY DEF TypeOK
<1>2. e \in S => table[e].status \in {"pending", "delivering"}
  BY DEF Due
<1>3. e \notin S => table'[e] = table[e]
  BY ClaimIntoType
<1> QED BY <1>1, <1>2, <1>3, SameIsFinal DEF Final

\* The steps of a drainer's loop leave ended rows alone.
LEMMA ProcStepFinal ==
  ASSUME TypeOK, NEW p \in Proc, ProcStep(p), NEW e \in Event
  PROVE  Final(table[e], table'[e])
<1>r. table[e] \in Row
  BY DEF TypeOK
<1>1. CASE Start(p)
  <2>1. table'[e] \in {table[e], Requeued(table[e])}
    BY <1>1 DEF Start
  <2> QED BY <1>r, <2>1, SameIsFinal, StatementsAreFinal
<1>2. CASE WakeUp(p) \/ TickFails(p) \/ Stop(p) \/ HardStop(p) \/ Exit(p) \/ Crash(p)
  BY <1>r, <1>2, SameIsFinal DEF WakeUp, TickFails, Stop, HardStop, Exit, Crash
<1>3. CASE Expire(p)
  <2>1. table'[e] \in {table[e], Expired(table[e])}
    BY <1>3 DEF Expire
  <2> QED BY <1>r, <2>1, SameIsFinal, StatementsAreFinal
<1>4. CASE Delete(p)
  <2>1. table'[e] \in {table[e], Retained(table[e])}
    BY <1>4 DEF Delete
  <2> QED BY <1>r, <2>1, SameIsFinal, StatementsAreFinal
<1>5. CASE Claim(p) \/ ClaimLost(p)
  <2>1. table' = table \/ \E S \in SUBSET Due : ClaimInto(S, table')
    BY <1>5 DEF Claim, ClaimLost
  <2> QED BY <1>r, <2>1, SameIsFinal, ClaimIsFinal
<1> QED BY <1>1, <1>2, <1>3, <1>4, <1>5 DEF ProcStep

\* So do those of its workers: they settle delivering rows only.
LEMMA JobStepFinal ==
  ASSUME TypeOK, NEW p \in Proc, NEW f \in Event, JobStep(p, f), NEW e \in Event
  PROVE  Final(table[e], table'[e])
<1>1. table[e] \in Row
  BY DEF TypeOK
<1>2. table' = table \/ Written(p, f)
  BY DEF JobStep, TakeRow, Answered, AnsweredThrottled, Unanswered, WriteFails
<1>3. CASE table' = table
  BY <1>1, <1>3, SameIsFinal
<1>4. CASE Written(p, f)
  <2>1. table'[e] \in {table[e], Settle(table[e], job[p][f].token, job[p][f].write)}
    BY <1>4 DEF Written, TypeOK
  <2> QED BY <1>1, <2>1, SameIsFinal, StatementsAreFinal
<1> QED BY <1>2, <1>3, <1>4

\* No step changes how a row ended.
LEMMA NextFinal ==
  ASSUME TypeOK, [Next]_vars, NEW e \in Event
  PROVE  Final(table[e], table'[e])
<1>r. table[e] \in Row
  BY DEF TypeOK
<1>1. ASSUME NEW f \in Event, Enqueue(f) PROVE Final(table[e], table'[e])
  <2>1. e # f => table'[e] = table[e]
    BY <1>1 DEF Enqueue, TypeOK
  <2>2. e = f => table[e].status = "absent"
    BY <1>1 DEF Enqueue, NoRow
  <2> QED BY <1>r, <2>1, <2>2, SameIsFinal DEF Final
<1>2. ASSUME NEW w \in orphans, OrphanWrite(w) PROVE Final(table[e], table'[e])
  <2>1. table'[e] \in {table[e], Settle(table[e], w.token, w.outcome)}
    BY <1>2 DEF OrphanWrite, TypeOK
  <2> QED BY <1>r, <2>1, SameIsFinal, StatementsAreFinal
<1>3. CASE TimePasses
  <2>1. table'[e] = Aged(table[e])
    BY <1>3 DEF TimePasses
  <2> QED BY <1>r, <2>1, StatementsAreFinal
<1>4. CASE UNCHANGED vars
  BY <1>r, <1>4, SameIsFinal DEF vars
<1> QED BY <1>1, <1>2, <1>3, <1>4, ProcStepFinal, JobStepFinal DEF Next

\* A delivered or failed row never changes again but by its retention, however stale the
\* workers, late the writes or often the restarts.
THEOREM EndsAreFinal == Spec => TerminalIsFinal
<1>1. TypeOK /\ [Next]_vars =>
        [\A e \in Event : table[e].status \in {"delivered", "failed"} =>
           \/ table'[e].status = "absent"
           \/ table'[e] = [table[e] EXCEPT !.timer = table'[e].timer]]_vars
  BY NextFinal DEF Final
<1> QED BY <1>1, TypeCorrect, PTL DEF Spec, TerminalIsFinal
=============================================================================
