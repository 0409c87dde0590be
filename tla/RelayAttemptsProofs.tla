------------------------- MODULE RelayAttemptsProofs -------------------------
(***************************************************************************)
(* The attempts of an outbox row, for any events, processes, tokens and    *)
(* bounds: they count the row's requests, neither too many nor too few,    *)
(* a claim nobody works on is the trace of a fault, and while nothing      *)
(* fails a Retry-After is waited for.                                      *)
(*                                                                         *)
(* Every step does one of four things to a row (RowStep).  The invariants  *)
(* are kept by each of the four, whatever step it is part of.              *)
(***************************************************************************)
EXTENDS RelayOutboxProofs

------------------------------------------------------------------------------
(* What a step does to a row *)

\* A process that can still record its outcome works on the row.
Tended(e) == \E p \in Proc : Holds(p, e) /\ mode[p] # "hard"

\* The step leaves the row's claim as it is, and as well tended, unless it is a fault.
Kept(e) ==
  /\ table'[e].status = table[e].status /\ table'[e].attempts = table[e].attempts
  /\ table'[e].token = table[e].token /\ table'[e].why = table[e].why
  /\ sent'[e] >= sent[e] /\ faults' >= faults
  /\ \/ faults' > faults
     \/ Tended(e) => Tended(e)' /\ (table'[e].timer <= 0 => table[e].timer <= 0)

\* A claim takes the row; only a fault leaves nobody to work on it.
TakenUp(e) ==
  /\ table[e].status \in {"pending", "delivering"} /\ table[e].timer <= 0
  /\ table'[e] = ClaimedRow(table[e], FreshToken)
  /\ FreshToken \in Token \ TokensInUse
  /\ sent'[e] = sent[e]
  /\ \/ faults' = faults /\ Tended(e)'
     \/ faults' = faults + 1

\* The outcome a worker or a late write is about to record for the row's claim.
ToRecord(e, o) ==
  \/ \E p \in Proc : Holds(p, e) /\ job[p][e].stage = "writing" /\ job[p][e].write = o
  \/ \E w \in orphans : w.event = e /\ w.token = table[e].token /\ w.outcome = o

\* The outcome of the row's claim is written.
Settled(e) ==
  /\ table[e].status = "delivering"
  /\ \E o \in Outcome : ToRecord(e, o) /\ table'[e] = Settle(table[e], table[e].token, o)
  /\ sent'[e] = sent[e] /\ faults' = faults

\* The row is captured, requeued, deleted or expired.
Renewed(e) ==
  /\ faults' >= faults
  /\ table'[e].status # "delivering" /\ table'[e].token = NoToken
  /\ \/ table'[e].attempts = 0 /\ table'[e].why = "none"
     \/ /\ table'[e].status = "failed" /\ table'[e].why = "expired"
        /\ table'[e].attempts = table[e].attempts

RowStep(e) == Kept(e) \/ TakenUp(e) \/ Settled(e) \/ Renewed(e)

\* A process between two batches has no jobs left.
Idle == \A p \in Proc : tick[p] # "sleep" => Jobs(p) = {}

------------------------------------------------------------------------------
(* Every step is such a step *)

\* A row nothing is done to, whose workers go on.
LEMMA NothingDone ==
  ASSUME TypeOK, NEW e \in Event, table'[e] = table[e], sent'[e] >= sent[e], faults' >= faults,
         \/ faults' > faults
         \/ \A q \in Proc : Holds(q, e) /\ mode[q] # "hard" => Holds(q, e)' /\ mode'[q] # "hard"
  PROVE  Kept(e)
BY DEF Kept, Tended

\* The numbers of a state.
LEMMA Numbers ==
  ASSUME TypeOK
  PROVE  /\ faults \in Nat /\ MaxAttempts \in Nat /\ Lease \in Nat \ {0}
         /\ \A e \in Event : sent[e] \in Nat /\ sent[e] <= MaxAttempts
  BY ConstantsAssumption DEF TypeOK

\* The steps of a drainer's loop.
LEMMA ProcStepRows ==
  ASSUME TypeOK, TypeOK', ClaimInv, Idle, NEW p \in Proc, ProcStep(p), NEW e \in Event
  PROVE  RowStep(e)
<1> USE DEF procVars, ghosts
<1>n. faults \in Nat /\ sent[e] \in Nat
  BY Numbers
<1>1. CASE Start(p)
  <2>1. faults' >= faults /\ job' = job /\ mode' = [mode EXCEPT ![p] = "up"]
    BY <1>1, <1>n DEF Start, Fault
  <2>2. \A q \in Proc : mode[q] # "hard" => mode'[q] # "hard"
    BY <2>1 DEF TypeOK
  <2>3. CASE table'[e] = table[e]
    <3>1. sent'[e] = sent[e]
      BY <1>1, <2>3 DEF Start, Recount
    <3>2. \A q \in Proc : Holds(q, e) /\ mode[q] # "hard" => Holds(q, e)' /\ mode'[q] # "hard"
      BY <2>1, <2>2, <2>3 DEF Holds
    <3> QED BY <1>n, <2>1, <2>3, <3>1, <3>2, NothingDone DEF RowStep
  <2>4. CASE table'[e] # table[e]
    <3>1. table'[e] = Captured
      BY <1>1, <2>4 DEF Start, Requeued, TypeOK
    <3> QED BY <2>1, <3>1 DEF RowStep, Renewed, Captured, NoRow
  <2> QED BY <2>3, <2>4
<1>2. CASE TickFails(p) \/ HardStop(p) \/ Crash(p)
  <2>1. table' = table /\ sent' = sent /\ faults' = faults + 1
    BY <1>2 DEF TickFails, HardStop, Crash, Fault
  <2> QED BY <1>n, <2>1, NothingDone DEF RowStep
<1>3. CASE WakeUp(p) \/ Stop(p)
  <2>1. table' = table /\ sent' = sent /\ faults' = faults /\ job' = job
    BY <1>3 DEF WakeUp, Stop
  <2>2. \A q \in Proc : mode[q] # "hard" => mode'[q] # "hard"
    BY <1>3 DEF WakeUp, Stop, TypeOK
  <2>3. \A q \in Proc : Holds(q, e) /\ mode[q] # "hard" => Holds(q, e)' /\ mode'[q] # "hard"
    BY <2>1, <2>2 DEF Holds
  <2> QED BY <1>n, <2>1, <2>3, NothingDone DEF RowStep
<1>4. CASE Exit(p)
  <2>1. table' = table /\ sent' = sent /\ faults' = faults /\ Down(p)
    BY <1>4 DEF Exit
  <2>2. ASSUME NEW q \in Proc, Holds(q, e), mode[q] # "hard"
        PROVE  Holds(q, e)' /\ mode'[q] # "hard"
    <3>1. q # p
      BY <1>4, <2>2 DEF Exit, Jobs, Holds
    <3>2. job'[q] = job[q] /\ mode'[q] = mode[q]
      BY <2>1, <3>1 DEF Down, TypeOK
    <3> QED BY <2>1, <2>2, <3>2 DEF Holds
  <2> QED BY <1>n, <2>1, <2>2, NothingDone DEF RowStep
<1>5. ASSUME table'[e] = table[e], sent'[e] = sent[e], UNCHANGED <<job, mode, faults>>
      PROVE  RowStep(e)
  <2>1. \A q \in Proc : Holds(q, e) /\ mode[q] # "hard" => Holds(q, e)' /\ mode'[q] # "hard"
    BY <1>5 DEF Holds
  <2> QED BY <1>n, <1>5, <2>1, NothingDone DEF RowStep
<1>6. CASE Expire(p)
  <2>1. UNCHANGED <<job, mode, faults, sent>> /\ table'[e] \in {table[e], Expired(table[e])}
    BY <1>6 DEF Expire, TypeOK
  <2>2. CASE table'[e] = table[e]
    BY <1>5, <2>1, <2>2
  <2>3. CASE table'[e] # table[e]
    <3>1. table[e] \in Row
      BY DEF TypeOK
    <3>2. /\ table'[e].status = "failed" /\ table'[e].why = "expired"
          /\ table'[e].attempts = table[e].attempts /\ table'[e].token = NoToken
      BY <2>1, <2>3, <3>1 DEF Expired, Row
    <3> QED BY <1>n, <2>1, <3>2 DEF RowStep, Renewed
  <2> QED BY <2>2, <2>3
<1>7. CASE Delete(p)
  <2>1. /\ UNCHANGED <<job, mode, faults>> /\ table'[e] \in {table[e], NoRow}
        /\ table'[e].status = table[e].status => sent'[e] = sent[e]
    BY <1>7 DEF Delete, TypeOK, Retained, Recount
  <2>2. CASE table'[e] = table[e]
    BY <1>5, <2>1, <2>2
  <2>3. CASE table'[e] = NoRow
    BY <1>n, <2>1, <2>3 DEF RowStep, Renewed, NoRow
  <2> QED BY <2>1, <2>2, <2>3
<1>8. ASSUME NEW S \in SUBSET Due, ClaimInto(S, table'), e \in S, sent' = sent,
             \/ faults' = faults /\ Tended(e)'
             \/ faults' = faults + 1
      PROVE  RowStep(e)
  <2>1. /\ FreshToken \in Token /\ FreshToken \notin TokensInUse
        /\ table'[e] = ClaimedRow(table[e], FreshToken)
    BY <1>8, ClaimIntoType
  <2>2. table[e].status \in {"pending", "delivering"} /\ table[e].timer <= 0
    BY <1>8 DEF Due
  <2> QED BY <1>8, <2>1, <2>2 DEF RowStep, TakenUp
<1>9. CASE Claim(p)
  <2>1. UNCHANGED <<mode, faults, sent>> /\ Jobs(p) = {}
    BY <1>9 DEF Claim, Idle
  <2>2. CASE mode[p] = "hard"
    BY <1>5, <1>9, <2>1, <2>2 DEF Claim
  <2>3. CASE mode[p] # "hard"
    <3>1. PICK S \in SUBSET Due :
            /\ ClaimInto(S, table')
            /\ job' = [job EXCEPT ![p] = [f \in Event |->
                 IF f \in S
                 THEN [stage |-> "queued", token |-> table'[f].token,
                       attempts |-> table'[f].attempts, write |-> Released]
                 ELSE NoJob]]
      BY <1>9, <2>3 DEF Claim
    <3>2. CASE e \in S
      <4>1. job'[p][e].stage = "queued" /\ job'[p][e].token = table'[e].token
        BY <3>1, <3>2 DEF TypeOK
      <4>2. Tended(e)'
        BY <2>1, <2>3, <4>1 DEF Tended, Holds
      <4> QED BY <1>8, <2>1, <3>1, <3>2, <4>2
    <3>3. CASE e \notin S
      <4>1. table'[e] = table[e]
        BY <3>1, <3>3, ClaimIntoType
      <4>2. \A q \in Proc \ {p} : job'[q] = job[q]
        BY <3>1 DEF TypeOK
      <4>3. ~Holds(p, e)
        BY <2>1 DEF Jobs, Holds
      <4>4. \A q \in Proc : Holds(q, e) /\ mode[q] # "hard" => Holds(q, e)' /\ mode'[q] # "hard"
        BY <2>1, <4>1, <4>2, <4>3 DEF Holds
      <4> QED BY <1>n, <2>1, <4>1, <4>4, NothingDone DEF RowStep
    <3> QED BY <3>2, <3>3
  <2> QED BY <2>2, <2>3
<1>10. CASE ClaimLost(p)
  <2>1. faults' = faults + 1 /\ sent' = sent
    BY <1>10 DEF ClaimLost, Fault
  <2>2. PICK S \in SUBSET Due : ClaimInto(S, table')
    BY <1>10 DEF ClaimLost
  <2>3. CASE e \in S
    BY <1>8, <2>1, <2>2, <2>3
  <2>4. CASE e \notin S
    <3>1. table'[e] = table[e]
      BY <2>2, <2>4, ClaimIntoType
    <3> QED BY <1>n, <2>1, <3>1, NothingDone DEF RowStep
  <2> QED BY <2>3, <2>4
<1> QED BY <1>1, <1>2, <1>3, <1>4, <1>6, <1>7, <1>9, <1>10 DEF ProcStep

\* The steps of a worker on an event f, seen by a row e.
LEMMA JobStepRows ==
  ASSUME TypeOK, TypeOK', ClaimInv, NEW p \in Proc, NEW f \in Event, JobStep(p, f), NEW e \in Event
  PROVE  RowStep(e)
<1> USE DEF procVars, ghosts
<1>n. faults \in Nat /\ MaxAttempts \in Nat /\ \A g \in Event : sent[g] \in Nat /\ sent[g] <= MaxAttempts
  BY Numbers
<1>j. job[p][f] \in Job
  BY DEF TypeOK
<1>1. ASSUME UNCHANGED <<table, mode, faults>>, sent'[e] >= sent[e],
             \/ \E outcome : Record(p, f, outcome)
             \/ job' = [job EXCEPT ![p][f].stage = "posting"]
      PROVE  RowStep(e)
  <2>1. ASSUME NEW q \in Proc, Holds(q, e), mode[q] # "hard"
        PROVE  Holds(q, e)' /\ mode'[q] # "hard"
    <3>1. job'[q][e].stage # "none" /\ job'[q][e].token = job[q][e].token
      <4>1. CASE \E outcome : Record(p, f, outcome)
        <5>1. PICK outcome : Record(p, f, outcome)
          BY <4>1
        <5>2. /\ [job[p][f] EXCEPT !.stage = "writing", !.write = outcome].token = job[p][f].token
              /\ [job[p][f] EXCEPT !.stage = "writing", !.write = outcome].stage = "writing"
          BY <1>j DEF Job
        <5> QED BY <2>1, <5>1, <5>2 DEF Record, TypeOK, Holds
      <4>2. CASE job' = [job EXCEPT ![p][f].stage = "posting"]
        BY <1>j, <2>1, <4>2 DEF TypeOK, Holds, Job
      <4> QED BY <1>1, <4>1, <4>2
    <3> QED BY <1>1, <2>1, <3>1 DEF Holds
  <2> QED BY <1>1, <1>n, <2>1, NothingDone DEF RowStep
<1>2. CASE TakeRow(p, f)
  <2>1. UNCHANGED <<table, mode, faults, sent>>
    BY <1>2 DEF TakeRow
  <2> QED BY <1>1, <1>2, <1>n, <2>1 DEF TakeRow
<1>3. ASSUME Count(f)  PROVE sent'[e] >= sent[e]
  BY <1>3, <1>n DEF Count, TypeOK, Lesser
<1>4. ASSUME NEW answer \in Answer, Answered(p, f, answer)  PROVE RowStep(e)
  <2>1. UNCHANGED <<table, mode, faults>> /\ Count(f) /\ \E outcome : Record(p, f, outcome)
    BY <1>4 DEF Answered
  <2> QED BY <1>1, <1>3, <2>1
<1>5. ASSUME NEW header, AnsweredThrottled(p, f, header)  PROVE RowStep(e)
  <2>1. UNCHANGED <<table, mode, faults, sent>> /\ \E outcome : Record(p, f, outcome)
    BY <1>5 DEF AnsweredThrottled
  <2> QED BY <1>1, <1>n, <2>1
<1>6. CASE Unanswered(p, f)
  <2>1. /\ UNCHANGED <<table, mode, faults>> /\ \E outcome : Record(p, f, outcome)
        /\ UNCHANGED sent \/ Count(f)
    BY <1>6 DEF Unanswered
  <2> QED BY <1>1, <1>3, <1>n, <2>1
<1>7. CASE Written(p, f)
  <2>1. /\ UNCHANGED <<mode, faults, sent>> /\ job[p][f].stage = "writing"
        /\ table' = [table EXCEPT ![f] = Settle(@, job[p][f].token, job[p][f].write)]
        /\ job' = [job EXCEPT ![p][f] = NoJob]
    BY <1>7 DEF Written
  <2>2. \A q \in Proc : q # p \/ e # f => job'[q][e] = job[q][e]
    BY <2>1 DEF TypeOK
  <2>3. CASE e = f /\ Holds(p, f)
    <3>1. table[f].status = "delivering" /\ job[p][f].token = table[f].token
      BY <2>1, <2>3 DEF ClaimInv, OneClaimant, Holds
    <3>2. table'[f] = Settle(table[f], table[f].token, job[p][f].write)
      BY <2>1, <3>1 DEF TypeOK
    <3>3. job[p][f].write \in Outcome /\ ToRecord(f, job[p][f].write)
      BY <1>j, <2>1, <2>3 DEF Job, ToRecord
    <3> QED BY <2>1, <2>3, <3>1, <3>2, <3>3 DEF RowStep, Settled
  <2>4. CASE ~(e = f /\ Holds(p, f))
    <3>1. table'[e] = table[e]
      <4>1. CASE e = f
        <5>1. ~(table[f].status = "delivering" /\ table[f].token = job[p][f].token)
          BY <2>1, <2>4, <4>1 DEF Holds
        <5> QED BY <2>1, <4>1, <5>1 DEF TypeOK, Settle
      <4>2. CASE e # f
        BY <2>1, <4>2 DEF TypeOK
      <4> QED BY <4>1, <4>2
    <3>2. \A q \in Proc : Holds(q, e) /\ mode[q] # "hard" => Holds(q, e)' /\ mode'[q] # "hard"
      BY <2>1, <2>2, <2>4, <3>1 DEF Holds
    <3> QED BY <1>n, <2>1, <3>1, <3>2, NothingDone DEF RowStep
  <2> QED BY <2>3, <2>4
<1>8. CASE WriteFails(p, f)
  <2>1. UNCHANGED <<table, sent>> /\ faults' = faults + 1
    BY <1>8 DEF WriteFails, Fault
  <2> QED BY <1>n, <2>1, NothingDone DEF RowStep
<1> QED BY <1>2, <1>4, <1>5, <1>6, <1>7, <1>8 DEF JobStep

\* A lease that runs out under a worker's hands is a fault.
LEMMA TimePassesRows ==
  ASSUME TypeOK, ClaimInv, TimePasses, NEW e \in Event
  PROVE  RowStep(e)
<1>1. /\ UNCHANGED <<job, mode, sent>> /\ faults' = faults + Cardinality(Stalled)
      /\ table'[e] = Aged(table[e])
  BY DEF TimePasses, procVars, TypeOK
<1>2. table[e] \in Row /\ faults \in Nat /\ sent[e] \in Nat
  BY Numbers DEF TypeOK
<1>3. /\ table'[e].status = table[e].status /\ table'[e].attempts = table[e].attempts
      /\ table'[e].token = table[e].token /\ table'[e].why = table[e].why
  BY <1>1, <1>2 DEF Aged, Row
<1>4. table'[e].timer = Greater(table[e].timer - 1, Floor(table[e]))
  BY <1>1, <1>2 DEF Aged, Row
<1>5. IsFiniteSet(Stalled) /\ Cardinality(Stalled) \in Nat
  BY ConstantsAssumption, FS_Subset, StalledIsFinite DEF Stalled
<1>6. Tended(e) => Tended(e)'
  BY <1>1, <1>3 DEF Tended, Holds
<1>7. CASE e \in Stalled
  <2>1. Cardinality(Stalled) # 0
    BY <1>5, <1>7, FS_EmptySet
  <2> QED BY <1>1, <1>2, <1>3, <1>5, <2>1 DEF RowStep, Kept
<1>8. CASE ~Tended(e)
  BY <1>1, <1>2, <1>3, <1>5, <1>8 DEF RowStep, Kept
<1>9. CASE Tended(e) /\ e \notin Stalled
  <2>1. PICK p \in Proc : Holds(p, e)
    BY <1>9 DEF Tended
  <2>2. table[e].status = "delivering" /\ table[e].timer # 1
    BY <1>9, <2>1 DEF ClaimInv, OneClaimant, Holds, Stalled
  <2>3. table[e].timer \in Int /\ Floor(table[e]) = 0
    BY <1>2, <2>2 DEF Row, Floor
  <2>4. table'[e].timer <= 0 => table[e].timer <= 0
    BY <1>4, <2>2, <2>3 DEF Greater
  <2> QED BY <1>1, <1>2, <1>3, <1>5, <1>6, <2>4 DEF RowStep, Kept
<1> QED BY <1>7, <1>8, <1>9

\* Every step.
LEMMA NextRows ==
  ASSUME TypeOK, TypeOK', ClaimInv, Idle, [Next]_vars, NEW e \in Event
  PROVE  RowStep(e)
<1> USE DEF procVars, ghosts
<1>n. faults \in Nat /\ sent[e] \in Nat
  BY Numbers
<1>1. ASSUME table'[e] = table[e], UNCHANGED <<sent, job, mode, faults>>  PROVE RowStep(e)
  <2>1. \A q \in Proc : Holds(q, e) /\ mode[q] # "hard" => Holds(q, e)' /\ mode'[q] # "hard"
    BY <1>1 DEF Holds
  <2> QED BY <1>n, <1>1, <2>1, NothingDone DEF RowStep
<1>2. ASSUME NEW f \in Event, Enqueue(f)  PROVE RowStep(e)
  <2>1. UNCHANGED <<sent, job, mode, faults>> /\ table'[e] = IF e = f THEN Captured ELSE table[e]
    BY <1>2 DEF Enqueue, TypeOK
  <2>2. CASE e = f
    BY <1>n, <2>1, <2>2 DEF RowStep, Renewed, Captured, NoRow
  <2> QED BY <1>1, <2>1, <2>2
<1>3. ASSUME NEW w \in orphans, OrphanWrite(w)  PROVE RowStep(e)
  <2>1. /\ UNCHANGED <<sent, job, mode, faults>> /\ w.event \in Event /\ w.outcome \in Outcome
        /\ \/ table' = table
           \/ table' = [table EXCEPT ![w.event] = Settle(@, w.token, w.outcome)]
    BY <1>3 DEF OrphanWrite, TypeOK, Write
  <2>2. CASE table'[e] = table[e]
    BY <1>1, <2>1, <2>2
  <2>3. CASE table'[e] # table[e]
    <3>1. e = w.event /\ table'[e] = Settle(table[e], w.token, w.outcome)
      BY <2>1, <2>3 DEF TypeOK
    <3>2. table[e].status = "delivering" /\ table[e].token = w.token
      BY <2>3, <3>1 DEF Settle
    <3> QED BY <2>1, <3>1, <3>2 DEF RowStep, Settled, ToRecord
  <2> QED BY <2>2, <2>3
<1>4. CASE UNCHANGED vars
  BY <1>1, <1>4 DEF vars
<1> QED BY <1>2, <1>3, <1>4, ProcStepRows, JobStepRows, TimePassesRows DEF Next

\* A process takes on a batch, or starts one, only when it has none.
LEMMA IdleKept == TypeOK /\ Idle /\ [Next]_vars => Idle'
<1> SUFFICES ASSUME TypeOK, Idle, [Next]_vars, NEW q \in Proc, tick'[q] # "sleep"  PROVE Jobs(q)' = {}
  BY DEF Idle
<1> USE DEF procVars
<1>1. ASSUME tick[q] # "sleep", \A e \in Event : job'[q][e].stage # "none" => job[q][e].stage # "none"
      PROVE  Jobs(q)' = {}
  BY <1>1 DEF Idle, Jobs
<1>2. ASSUME NEW p \in Proc, ProcStep(p)  PROVE Jobs(q)' = {}
  <2>1. CASE Start(p) \/ Expire(p) \/ Delete(p) \/ Stop(p) \/ HardStop(p)
    <3>1. job' = job /\ tick[q] # "sleep"
      BY <2>1 DEF Start, Expire, Delete, Stop, HardStop, TypeOK
    <3> QED BY <1>1, <3>1
  <2>2. CASE Claim(p)
    <3>1. q # p /\ tick[q] # "sleep"
      BY <2>2 DEF Claim, TypeOK
    <3>2. job'[q] = job[q]
      BY <2>2, <3>1 DEF Claim, TypeOK
    <3> QED BY <1>1, <3>1, <3>2
  <2>3. CASE ClaimLost(p) \/ TickFails(p)
    <3>1. job' = job /\ tick[q] # "sleep"
      BY <2>3 DEF ClaimLost, TickFails, TypeOK
    <3> QED BY <1>1, <3>1
  <2>4. CASE WakeUp(p)
    <3>1. job' = job /\ Jobs(p) = {} /\ (q # p => tick[q] # "sleep")
      BY <2>4 DEF WakeUp, TypeOK
    <3>2. CASE q = p
      BY <3>1, <3>2 DEF Jobs
    <3> QED BY <1>1, <3>1, <3>2
  <2>5. CASE Exit(p) \/ Crash(p)
    <3>1. Down(p)
      BY <2>5 DEF Exit, Crash
    <3>2. q # p /\ tick[q] # "sleep" /\ job'[q] = job[q]
      BY <3>1 DEF Down, TypeOK
    <3> QED BY <1>1, <3>2
  <2> QED BY <1>2, <2>1, <2>2, <2>3, <2>4, <2>5 DEF ProcStep
<1>3. ASSUME NEW p \in Proc, NEW f \in Event, JobStep(p, f)  PROVE Jobs(q)' = {}
  <2>1. tick' = tick
    BY <1>3 DEF JobStep, TakeRow, Answered, AnsweredThrottled, Unanswered, Written, WriteFails
  <2>2. \E j : job' = [job EXCEPT ![p][f] = j] /\ job[p][f].stage # "none"
    BY <1>3, Zenon DEF JobStep, TakeRow, Answered, AnsweredThrottled, Unanswered, Written, WriteFails, Record
  <2>3. \A e \in Event : job'[q][e].stage # "none" => job[q][e].stage # "none"
    BY <2>2 DEF TypeOK
  <2> QED BY <1>1, <2>1, <2>3
<1>4. CASE UNCHANGED <<job, tick>>
  BY <1>1, <1>4
<1> QED BY <1>2, <1>3, <1>4 DEF Next, vars, Enqueue, OrphanWrite, TimePasses

------------------------------------------------------------------------------
(* Claims that leak *)

LeakInv == \A e \in Event : table[e].status = "delivering" /\ ~Tended(e) => faults > 0

\* A row leaves its drainer only by a fault that the ghost counts.
LEMMA LeakKept ==
  ASSUME TypeOK, TypeOK', LeakInv, \A e \in Event : RowStep(e)
  PROVE  LeakInv'
<1> SUFFICES ASSUME NEW e \in Event, table'[e].status = "delivering", ~Tended(e)'
             PROVE  faults' > 0
  BY DEF LeakInv
<1>1. faults \in Nat /\ faults' \in Nat
  BY ConstantsAssumption DEF TypeOK
<1>2. CASE Kept(e)
  BY <1>1, <1>2 DEF Kept, LeakInv
<1>3. CASE TakenUp(e)
  BY <1>1, <1>3 DEF TakenUp
<1>4. CASE Settled(e)
  BY <1>4 DEF Settled, Settle, Outcome
<1>5. CASE Renewed(e)
  BY <1>5 DEF Renewed
<1> QED BY <1>2, <1>3, <1>4, <1>5 DEF RowStep

------------------------------------------------------------------------------
(* Attempts and requests *)

Most == Greater(MaxAttempts, 1)

\* A row that may be claimed (again) without a further fault.
Open(e) ==
  \/ table[e].status = "pending"
  \/ table[e].status = "delivering" /\ (table[e].timer <= 0 \/ ~Tended(e))

\* The counter stays below its limit for as long as the row may be claimed again.
Budget(e) ==
  /\ table[e].attempts <= Most + faults
  /\ Open(e) => table[e].attempts < Most + faults

\* That many attempts have been spent on requests that count, or on faults.
Tried(e, attempts) == Lesser(attempts, MaxAttempts) <= sent[e] + faults

\* Every attempt but the one under way has been.
Tries(e) ==
  /\ Open(e) => Tried(e, table[e].attempts)
  /\ table[e].status = "delivering" => Tried(e, table[e].attempts - 1)
  /\ table[e].why = "exhausted" => sent[e] + faults >= MaxAttempts

\* Outcomes that spend the attempt: a retry, and giving the row up as exhausted.
Spends(o) == (o.to = "pending" /\ ~o.refund) \/ o.why = "exhausted"

\* Whoever may still record such an outcome has made the request it stands for.
Sound(e, o) ==
  /\ Spends(o) => Tried(e, table[e].attempts)
  /\ o.to = "pending" /\ ~o.refund => table[e].attempts < MaxAttempts
  /\ o.why = "exhausted" => table[e].attempts >= MaxAttempts
Records ==
  /\ \A p \in Proc, e \in Event : Holds(p, e) =>
       /\ job[p][e].attempts = table[e].attempts
       /\ job[p][e].stage = "writing" => Sound(e, job[p][e].write)
  /\ \A w \in orphans : w.token = table[w.event].token => Sound(w.event, w.outcome)

AttemptsInv == (\A e \in Event : Budget(e) /\ Tries(e)) /\ Records

\* What was tried stays tried while requests are only added.
LEMMA TriedStays ==
  ASSUME TypeOK, TypeOK', NEW e \in Event, NEW n \in Int, Tried(e, n), Kept(e)
  PROVE  Tried(e, n)'
<1>1. /\ faults \in Nat /\ faults' \in Nat /\ sent[e] \in Nat /\ sent'[e] \in Nat
      /\ MaxAttempts \in Nat
  BY ConstantsAssumption DEF TypeOK
<1> QED BY <1>1 DEF Tried, Kept, Lesser

\* The outcome that is recorded for a claim is a sound one.
LEMMA RecordedIsSound ==
  ASSUME Records, NEW e \in Event, NEW o, ToRecord(e, o)
  PROVE  Sound(e, o)
BY DEF Records, ToRecord

\* Whatever a step does to a row, its counter stays within the limit and the faults.
LEMMA BudgetKept ==
  ASSUME TypeOK, TypeOK', AttemptsInv, NEW e \in Event, RowStep(e)
  PROVE  Budget(e)'
<1>1. /\ faults \in Nat /\ faults' \in Nat /\ MaxAttempts \in Nat /\ Lease \in Nat \ {0}
      /\ table[e] \in Row /\ table'[e] \in Row
  BY ConstantsAssumption DEF TypeOK
<1>2. table[e].attempts \in Nat /\ table'[e].attempts \in Nat /\ table[e].timer \in Int /\ table'[e].timer \in Int
  BY <1>1 DEF Row
<1>3. Most \in Nat \ {0} /\ Most >= MaxAttempts /\ Most' = Most
  BY <1>1 DEF Most, Greater
<1>4. Budget(e)
  BY DEF AttemptsInv
<1>5. CASE Kept(e)
  <2>1. faults' > faults \/ (Open(e)' => Open(e))
    BY <1>5 DEF Kept, Open
  <2> QED BY <1>1, <1>2, <1>3, <1>4, <1>5, <2>1 DEF Kept, Budget
<1>6. CASE TakenUp(e)
  <2>1. /\ table'[e].attempts = table[e].attempts + 1 /\ table'[e].status = "delivering"
        /\ table'[e].timer = Lease
    BY <1>6 DEF TakenUp, ClaimedRow
  <2>2. Open(e)
    BY <1>6 DEF TakenUp, Open
  <2>3. faults' = faults + 1 \/ (faults' = faults /\ ~Open(e)')
    BY <1>1, <1>6, <2>1 DEF TakenUp, Open
  <2> QED BY <1>1, <1>2, <1>3, <1>4, <2>1, <2>2, <2>3 DEF Budget
<1>7. CASE Settled(e)
  <2>1. PICK o \in Outcome : ToRecord(e, o) /\ table'[e] = Settle(table[e], table[e].token, o)
    BY <1>7 DEF Settled
  <2>2. /\ table'[e].status = o.to /\ table[e].status = "delivering" /\ faults' = faults
        /\ table'[e].attempts = IF o.refund THEN Greater(table[e].attempts - 1, 0) ELSE table[e].attempts
    BY <1>7, <2>1 DEF Settled, Settle
  <2>3. Sound(e, o)
    BY <2>1, RecordedIsSound DEF AttemptsInv
  <2>4. table'[e].attempts <= Most + faults
    BY <1>1, <1>2, <1>3, <1>4, <2>2 DEF Budget, Greater
  <2>5. Open(e)' => o.to = "pending"
    BY <2>2 DEF Open, Outcome
  <2>6. CASE o.refund
    BY <1>1, <1>2, <1>3, <1>4, <2>2, <2>4, <2>6 DEF Budget, Greater
  <2>7. CASE ~o.refund
    BY <1>1, <1>2, <1>3, <2>2, <2>3, <2>4, <2>5, <2>7 DEF Budget, Sound
  <2> QED BY <2>6, <2>7
<1>8. CASE Renewed(e)
  BY <1>1, <1>2, <1>3, <1>4, <1>8 DEF Renewed, Budget, Open
<1> QED BY <1>5, <1>6, <1>7, <1>8 DEF RowStep

\* Whatever a step does to a row, its attempts were spent on counted requests or faults.
LEMMA TriesKept ==
  ASSUME TypeOK, TypeOK', AttemptsInv, NEW e \in Event, RowStep(e)
  PROVE  Tries(e)'
<1>1. /\ faults \in Nat /\ faults' \in Nat /\ MaxAttempts \in Nat /\ Lease \in Nat \ {0}
      /\ sent[e] \in Nat /\ sent'[e] \in Nat
      /\ table[e] \in Row /\ table'[e] \in Row
  BY ConstantsAssumption DEF TypeOK
<1>2. table[e].attempts \in Nat /\ table'[e].attempts \in Nat /\ table[e].timer \in Int
  BY <1>1 DEF Row
<1>3. Tries(e)
  BY DEF AttemptsInv
<1>4. CASE Kept(e)
  <2>1. table'[e].attempts = table[e].attempts /\ faults' >= faults /\ sent'[e] >= sent[e]
        /\ table'[e].status = table[e].status /\ table'[e].why = table[e].why
    BY <1>4 DEF Kept
  <2>2. table[e].status = "delivering" => Tried(e, table[e].attempts - 1)'
    BY <1>1, <1>2, <1>3, <2>1 DEF Tries, Tried, Lesser
  <2>3. Open(e)' => Tried(e, table[e].attempts)'
    <3>1. CASE Open(e)
      BY <1>1, <1>2, <1>3, <2>1, <3>1 DEF Tries, Tried, Lesser
    <3>2. CASE ~Open(e)
      <4>1. Open(e)' => faults' > faults /\ table[e].status = "delivering"
        BY <1>4, <3>2 DEF Kept, Open
      <4> QED BY <1>1, <1>2, <1>3, <2>1, <4>1 DEF Tries, Tried, Lesser
    <3> QED BY <3>1, <3>2
  <2> QED BY <1>1, <1>3, <2>1, <2>2, <2>3 DEF Tries
<1>5. CASE TakenUp(e)
  <2>1. /\ table'[e].attempts = table[e].attempts + 1 /\ table'[e].status = "delivering"
        /\ table'[e].timer = Lease /\ table'[e].why = table[e].why /\ sent'[e] = sent[e]
    BY <1>5 DEF TakenUp, ClaimedRow
  <2>2. Tried(e, table[e].attempts)
    BY <1>3, <1>5 DEF TakenUp, Open, Tries
  <2>3. faults' = faults + 1 \/ (faults' = faults /\ ~Open(e)')
    BY <1>1, <1>5, <2>1 DEF TakenUp, Open
  <2>4. Tried(e, table[e].attempts - 1)'
    BY <1>1, <1>2, <2>1, <2>2, <2>3 DEF Tried, Lesser
  <2>5. Open(e)' => Tried(e, table[e].attempts)'
    BY <1>1, <1>2, <2>1, <2>2, <2>3 DEF Tried, Lesser
  <2> QED BY <1>1, <1>3, <2>1, <2>3, <2>4, <2>5 DEF Tries
<1>6. CASE Settled(e)
  <2>1. PICK o \in Outcome : ToRecord(e, o) /\ table'[e] = Settle(table[e], table[e].token, o)
    BY <1>6 DEF Settled
  <2>2. /\ table'[e].status = o.to /\ table'[e].why = o.why /\ table[e].status = "delivering"
        /\ table'[e].attempts = IF o.refund THEN Greater(table[e].attempts - 1, 0) ELSE table[e].attempts
        /\ sent'[e] = sent[e] /\ faults' = faults
    BY <1>6, <2>1 DEF Settled, Settle
  <2>3. Sound(e, o) /\ o.to # "delivering"
    BY <2>1, RecordedIsSound DEF AttemptsInv, Outcome
  <2>4. Tried(e, table[e].attempts - 1)
    BY <1>3, <2>2 DEF Tries
  <2>5. Open(e)' => o.to = "pending"
    BY <2>2, <2>3 DEF Open
  <2>6. Open(e)' => Tried(e, table[e].attempts)'
    <3>1. CASE o.refund
      BY <1>1, <1>2, <2>2, <2>4, <3>1 DEF Tried, Lesser, Greater
    <3>2. CASE ~o.refund
      BY <1>1, <1>2, <2>2, <2>3, <2>5, <3>2 DEF Tried, Sound, Spends
    <3> QED BY <3>1, <3>2
  <2>7. o.why = "exhausted" => sent[e] + faults >= MaxAttempts
    BY <1>1, <1>2, <2>3 DEF Sound, Spends, Tried, Lesser
  <2> QED BY <2>2, <2>3, <2>6, <2>7 DEF Tries
<1>7. CASE Renewed(e)
  <2>1. Open(e)' => table'[e].attempts = 0
    BY <1>7 DEF Renewed, Open
  <2>2. Open(e)' => Tried(e, table[e].attempts)'
    BY <1>1, <2>1 DEF Tried, Lesser
  <2> QED BY <1>7, <2>2 DEF Renewed, Tries
<1> QED BY <1>4, <1>5, <1>6, <1>7 DEF RowStep

------------------------------------------------------------------------------
(* The outcomes workers choose *)

\* An outcome that fits the number of the attempt, and a counted request if it spends one.
Fits(o, attempts) ==
  /\ o.to = "pending" /\ ~o.refund => attempts < MaxAttempts
  /\ o.why = "exhausted" => attempts >= MaxAttempts
Chosen(e, o, attempts) ==
  /\ Fits(o, attempts)
  /\ Spends(o) => sent'[e] = Lesser(sent[e] + 1, MaxAttempts) /\ faults' = faults

\* A job is carried on, perhaps to an outcome, or begun for the row's present claim.
Carried(p, e) ==
  /\ job[p][e].stage # "none"
  /\ job'[p][e].token = job[p][e].token /\ job'[p][e].attempts = job[p][e].attempts
  /\ job'[p][e].stage = "writing" =>
       \/ job[p][e].stage = "writing" /\ job'[p][e].write = job[p][e].write
       \/ Chosen(e, job'[p][e].write, job[p][e].attempts)
Begun(p, e) ==
  /\ job'[p][e].stage # "writing"
  /\ job'[p][e].token = table'[e].token /\ job'[p][e].attempts = table'[e].attempts
JobMoves == \A p \in Proc, e \in Event : job'[p][e].stage # "none" => Carried(p, e) \/ Begun(p, e)

\* Every answer, network error, 429 and release leads to a fitting outcome.
LEMMA OutcomesFit ==
  ASSUME NEW attempts \in Nat
  PROVE  /\ \A o \in RetryOrFail(attempts) : Fits(o, attempts)
         /\ \A answer \in Answer : \A o \in Outcomes(answer, attempts) : Fits(o, attempts)
         /\ \A header : Fits(Throttled(header), attempts) /\ ~Spends(Throttled(header))
         /\ Fits(Released, attempts) /\ ~Spends(Released)
<1>m. MaxAttempts \in Nat
  BY ConstantsAssumption
<1>1. \A o \in RetryOrFail(attempts) : Fits(o, attempts)
  BY <1>m DEF RetryOrFail, Finished, Deferred, Fits
<1>2. ASSUME NEW answer \in Answer, NEW o \in Outcomes(answer, attempts)  PROVE Fits(o, attempts)
  BY <1>1 DEF Outcomes, Answer, Finished, Delivered, Fits
<1>3. ASSUME NEW header  PROVE Fits(Throttled(header), attempts) /\ ~Spends(Throttled(header))
  BY DEF Throttled, Finished, Deferred, Fits, Spends
<1>4. Fits(Released, attempts) /\ ~Spends(Released)
  BY DEF Released, Deferred, Fits, Spends
<1> QED BY <1>1, <1>2, <1>3, <1>4

\* A worker that records an outcome carries its job on; the others are untouched.
LEMMA RecordMoves ==
  ASSUME TypeOK, NEW p \in Proc, NEW f \in Event, NEW o, Record(p, f, o),
         job[p][f].stage # "none", Chosen(f, o, job[p][f].attempts)
  PROVE  JobMoves
<1> SUFFICES ASSUME NEW q \in Proc, NEW e \in Event, job'[q][e].stage # "none"
             PROVE  Carried(q, e)
  BY DEF JobMoves
<1>1. job[p][f] \in Job
  BY DEF TypeOK
<1>2. CASE q = p /\ e = f
  <2>1. job'[p][f] = [job[p][f] EXCEPT !.stage = "writing", !.write = o]
    BY <1>2 DEF Record, TypeOK, NoJob
  <2>2. /\ job'[p][f].token = job[p][f].token /\ job'[p][f].attempts = job[p][f].attempts
        /\ job'[p][f].write = o
    BY <1>1, <2>1 DEF Job
  <2> QED BY <1>2, <2>2 DEF Carried
<1>3. CASE ~(q = p /\ e = f)
  <2>1. job'[q][e] = job[q][e]
    BY <1>3 DEF Record, TypeOK
  <2> QED BY <2>1 DEF Carried
<1> QED BY <1>2, <1>3
\* A step that only drops jobs, or leaves them alone.
LEMMA DroppedMoves ==
  ASSUME \A p \in Proc, e \in Event : job'[p][e].stage # "none" => job'[p][e] = job[p][e]
  PROVE  JobMoves
BY DEF JobMoves, Carried

\* The steps of a worker.
LEMMA JobStepMoves ==
  ASSUME TypeOK, NEW p \in Proc, NEW f \in Event, JobStep(p, f)
  PROVE  JobMoves
<1>j. job[p][f] \in Job /\ job[p][f].attempts \in Nat
  BY DEF TypeOK, Job
<1>1. ASSUME NEW o, Record(p, f, o), job[p][f].stage # "none", Fits(o, job[p][f].attempts),
             ~Spends(o) \/ (Count(f) /\ faults' = faults)
      PROVE  JobMoves
  <2>1. Count(f) => sent'[f] = Lesser(sent[f] + 1, MaxAttempts)
    BY DEF Count, TypeOK
  <2>2. Chosen(f, o, job[p][f].attempts)
    BY <1>1, <2>1 DEF Chosen
  <2> QED BY <1>1, <2>2, RecordMoves
<1>2. CASE TakeRow(p, f)
  <2>1. job[p][f].stage = "queued"
    BY <1>2 DEF TakeRow
  <2>2. CASE Record(p, f, Released)
    BY <1>1, <1>j, <2>1, <2>2, OutcomesFit
  <2>3. CASE job' = [job EXCEPT ![p][f].stage = "posting"]
    <3>1. \A q \in Proc, e \in Event :
            /\ job'[q][e].token = job[q][e].token /\ job'[q][e].attempts = job[q][e].attempts
            /\ \/ job'[q][e] = job[q][e]
               \/ job[q][e].stage # "none" /\ job'[q][e].stage = "posting"
      BY <1>j, <2>1, <2>3 DEF TypeOK, Job
    <3> QED BY <3>1 DEF JobMoves, Carried
  <2> QED BY <1>2, <2>2, <2>3 DEF TakeRow
<1>3. ASSUME NEW answer \in Answer, Answered(p, f, answer)  PROVE JobMoves
  <2>1. /\ job[p][f].stage # "none" /\ Count(f) /\ faults' = faults
        /\ \E o \in Outcomes(answer, job[p][f].attempts) : Record(p, f, o)
    BY <1>3 DEF Answered
  <2> QED BY <1>1, <1>j, <2>1, OutcomesFit
<1>4. ASSUME NEW header, AnsweredThrottled(p, f, header)  PROVE JobMoves
  <2>1. job[p][f].stage # "none" /\ Record(p, f, Throttled(header))
    BY <1>4 DEF AnsweredThrottled
  <2> QED BY <1>1, <1>j, <2>1, OutcomesFit
<1>5. CASE Unanswered(p, f)
  <2>1. job[p][f].stage # "none" /\ faults' = faults
    BY <1>5 DEF Unanswered
  <2>2. CASE Record(p, f, Released)
    BY <1>1, <1>j, <2>1, <2>2, OutcomesFit
  <2>3. CASE Count(f) /\ \E o \in RetryOrFail(job[p][f].attempts) : Record(p, f, o)
    BY <1>1, <1>j, <2>1, <2>3, OutcomesFit
  <2> QED BY <1>5, <2>2, <2>3 DEF Unanswered
<1>6. CASE Written(p, f) \/ WriteFails(p, f)
  <2>1. job' = [job EXCEPT ![p][f] = NoJob]
    BY <1>6 DEF Written, WriteFails
  <2>2. \A q \in Proc, e \in Event : job'[q][e].stage # "none" => job'[q][e] = job[q][e]
    BY <2>1 DEF TypeOK, NoJob
  <2> QED BY <2>2, DroppedMoves
<1> QED BY <1>2, <1>3, <1>4, <1>5, <1>6 DEF JobStep

\* Every step.
LEMMA NextMoves ==
  ASSUME TypeOK, [Next]_vars
  PROVE  JobMoves
<1> USE DEF procVars
<1>1. ASSUME job' = job  PROVE JobMoves
  BY <1>1, DroppedMoves
<1>2. ASSUME NEW p \in Proc, ProcStep(p)  PROVE JobMoves
  <2>1. CASE job' = job
    BY <1>1, <2>1
  <2>2. CASE Exit(p) \/ Crash(p)
    <3>1. job' = [job EXCEPT ![p] = [e \in Event |-> NoJob]]
      BY <2>2 DEF Exit, Crash, Down
    <3>2. \A q \in Proc, e \in Event : job'[q][e].stage # "none" => job'[q][e] = job[q][e]
      BY <3>1 DEF TypeOK, NoJob
    <3> QED BY <3>2, DroppedMoves
  <2>3. CASE Claim(p) /\ job' # job
    <3>1. PICK S \in SUBSET Due :
            job' = [job EXCEPT ![p] = [f \in Event |->
                 IF f \in S
                 THEN [stage |-> "queued", token |-> table'[f].token,
                       attempts |-> table'[f].attempts, write |-> Released]
                 ELSE NoJob]]
      BY <2>3 DEF Claim
    <3>2. \A q \in Proc, e \in Event : job'[q][e].stage # "none" =>
            \/ job'[q][e] = job[q][e]
            \/ job'[q][e] = [stage |-> "queued", token |-> table'[e].token,
                             attempts |-> table'[e].attempts, write |-> Released]
      BY <3>1 DEF TypeOK, NoJob
    <3>3. ASSUME NEW q \in Proc, NEW e \in Event, job'[q][e].stage # "none"
          PROVE  Carried(q, e) \/ Begun(q, e)
      <4>1. CASE job'[q][e] = job[q][e]
        BY <3>3, <4>1 DEF Carried
      <4>2. CASE job'[q][e] = [stage |-> "queued", token |-> table'[e].token,
                               attempts |-> table'[e].attempts, write |-> Released]
        BY <4>2 DEF Begun
      <4> QED BY <3>2, <3>3, <4>1, <4>2
    <3> QED BY <3>3 DEF JobMoves
  <2> QED BY <1>2, <2>1, <2>2, <2>3
          DEF ProcStep, Start, WakeUp, Expire, Delete, ClaimLost, TickFails, Stop, HardStop
<1>3. CASE job' = job \/ \E p \in Proc, f \in Event : JobStep(p, f)
  BY <1>1, <1>3, JobStepMoves
<1> QED BY <1>2, <1>3 DEF Next, vars, Enqueue, OrphanWrite, TimePasses

\* A late write is one of old, or the one of a worker that has just left it behind.
LEMMA OrphanMoves ==
  ASSUME TypeOK, [Next]_vars, NEW w \in orphans', w \notin orphans
  PROVE  /\ w.event \in Event
         /\ \E p \in Proc : /\ job[p][w.event].stage = "writing"
                            /\ w.token = job[p][w.event].token
                            /\ w.outcome = job[p][w.event].write
<1> USE DEF procVars
<1>1. ASSUME NEW p \in Proc, NEW S \in SUBSET Event, w \in Unsettled(p, S)
      PROVE  /\ w.event \in Event
             /\ job[p][w.event].stage = "writing" /\ w.token = job[p][w.event].token
             /\ w.outcome = job[p][w.event].write
  BY <1>1 DEF Unsettled
<1>2. ASSUME NEW p \in Proc, ProcStep(p)  PROVE w \in Unsettled(p, Event)
  BY <1>2 DEF ProcStep, Start, WakeUp, Expire, Delete, Claim, ClaimLost, TickFails, Stop, HardStop,
       Exit, Crash, Down
<1>3. ASSUME NEW p \in Proc, NEW f \in Event, JobStep(p, f)  PROVE w \in Unsettled(p, {f})
  BY <1>3 DEF JobStep, TakeRow, Answered, AnsweredThrottled, Unanswered, Written, WriteFails
<1>4. \E p \in Proc, S \in SUBSET Event : w \in Unsettled(p, S)
  BY <1>2, <1>3 DEF Next, vars, Enqueue, OrphanWrite, TimePasses
<1> QED BY <1>1, <1>4
------------------------------------------------------------------------------
(* The invariant *)

\* What is sound for a claim stays sound while the claim is kept.
LEMMA SoundStays ==
  ASSUME TypeOK, TypeOK', NEW e \in Event, NEW o, Sound(e, o), Kept(e)
  PROVE  Sound(e, o)'
<1>1. table[e].attempts \in Int /\ table'[e].attempts = table[e].attempts
  BY DEF TypeOK, Row, Kept
<1>2. Tried(e, table[e].attempts) => Tried(e, table[e].attempts)'
  BY <1>1, Numbers, TriedStays DEF TypeOK, Kept, Tried
<1> QED BY <1>1, <1>2 DEF Sound

\* An outcome that is chosen for a claim is sound.
LEMMA ChosenIsSound ==
  ASSUME TypeOK, TypeOK', NEW e \in Event, NEW o, Tries(e), Kept(e),
         table[e].status = "delivering", Chosen(e, o, table[e].attempts)
  PROVE  Sound(e, o)'
<1>1. /\ faults \in Nat /\ MaxAttempts \in Nat /\ sent[e] \in Nat /\ sent[e] <= MaxAttempts
      /\ table[e].attempts \in Nat
  BY Numbers DEF TypeOK, Row
<1>2. table'[e].attempts = table[e].attempts
  BY DEF Kept
<1>3. Tried(e, table[e].attempts - 1)
  BY DEF Tries
<1>4. ASSUME Spends(o)  PROVE Tried(e, table[e].attempts)'
  BY <1>1, <1>2, <1>3, <1>4 DEF Chosen, Tried, Lesser
<1> QED BY <1>2, <1>4 DEF Chosen, Fits, Sound

\* A token in use before the step is the row's after it only if the row keeps its claim.
LEMMA OldTokenKept ==
  ASSUME NEW e \in Event, RowStep(e), table'[e].token # NoToken, table'[e].token \in TokensInUse
  PROVE  Kept(e)
<1>1. ~TakenUp(e)
  BY DEF TakenUp, ClaimedRow
<1>2. ASSUME Settled(e)  PROVE table'[e].token = NoToken
  <2>1. PICK o \in Outcome : table'[e] = Settle(table[e], table[e].token, o)
    BY <1>2 DEF Settled
  <2> QED BY <1>2, <2>1 DEF Settled, Settle
<1>3. ~Renewed(e)
  BY DEF Renewed
<1> QED BY <1>1, <1>2, <1>3 DEF RowStep

\* A worker knows the attempts of its row, and what is about to be recorded for it is sound.
LEMMA RecordsKept ==
  ASSUME TypeOK, TypeOK', ClaimInv, AttemptsInv, [Next]_vars, \A e \in Event : RowStep(e)
  PROVE  Records'
<1>1. JobMoves
  BY NextMoves
<1>2. ASSUME NEW p \in Proc, NEW e \in Event, Holds(p, e)', Carried(p, e)
      PROVE  /\ job'[p][e].attempts = table'[e].attempts
             /\ job'[p][e].stage = "writing" => Sound(e, job[p][e].write)'
  <2>1. job[p][e].stage # "none" /\ job[p][e].token = table'[e].token
    BY <1>2 DEF Carried, Holds
  <2>2. table'[e].token # NoToken /\ table'[e].token \in TokensInUse
    BY <2>1 DEF ClaimInv, TokensInUse
  <2>3. Kept(e)
    BY <2>2, OldTokenKept
  <2>4. Holds(p, e) /\ table'[e].attempts = table[e].attempts
    BY <2>1, <2>3 DEF Kept, Holds
  <2>5. job[p][e].attempts = table[e].attempts /\ table[e].status = "delivering"
    BY <2>2, <2>4 DEF AttemptsInv, Records, ClaimInv, OneClaimant, Holds
  <2>6. PICK o : o = job'[p][e].write
    OBVIOUS
  <2>7. ASSUME job'[p][e].stage = "writing"  PROVE Sound(e, o)'
    <3>1. CASE job[p][e].stage = "writing" /\ job'[p][e].write = job[p][e].write
      <4>1. Sound(e, o)
        BY <2>4, <2>6, <3>1 DEF AttemptsInv, Records
      <4> QED BY <2>3, <4>1, SoundStays
    <3>2. CASE Chosen(e, o, table[e].attempts)
      BY <2>3, <2>5, <3>2, ChosenIsSound DEF AttemptsInv
    <3> QED BY <1>2, <2>5, <2>6, <2>7, <3>1, <3>2 DEF Carried
  <2> QED BY <1>2, <2>4, <2>5, <2>6, <2>7 DEF Carried
<1>3. ASSUME NEW w \in orphans', w.token = table'[w.event].token
      PROVE  Sound(w.event, w.outcome)'
  <2>1. CASE w \in orphans
    <3>1. w.event \in Event /\ w.token # NoToken /\ w.token \in TokensInUse
      BY <2>1 DEF ClaimInv, TokensInUse, TypeOK, Write
    <3>2. Kept(w.event)
      BY <1>3, <3>1, OldTokenKept
    <3>3. Sound(w.event, w.outcome)
      BY <1>3, <2>1, <3>2 DEF Kept, AttemptsInv, Records
    <3> QED BY <3>1, <3>2, <3>3, SoundStays
  <2>2. CASE w \notin orphans
    <3>1. w.event \in Event
      BY <2>2, OrphanMoves
    <3>2. PICK p \in Proc : /\ job[p][w.event].stage = "writing"
                            /\ w.token = job[p][w.event].token
                            /\ w.outcome = job[p][w.event].write
      BY <2>2, OrphanMoves
    <3>3. w.token # NoToken /\ w.token \in TokensInUse
      BY <3>1, <3>2 DEF ClaimInv, TokensInUse
    <3>4. Kept(w.event)
      BY <1>3, <3>1, <3>3, OldTokenKept
    <3>5. Sound(w.event, w.outcome)
      BY <1>3, <3>1, <3>2, <3>4 DEF Kept, Holds, AttemptsInv, Records
    <3> QED BY <3>1, <3>4, <3>5, SoundStays
  <2> QED BY <2>1, <2>2
<1>4. ASSUME NEW p \in Proc, NEW e \in Event, Holds(p, e)'
      PROVE  /\ job'[p][e].attempts = table'[e].attempts
             /\ job'[p][e].stage = "writing" => Sound(e, job[p][e].write)'
  <2>1. CASE Carried(p, e)
    BY <1>2, <1>4, <2>1
  <2>2. CASE Begun(p, e)
    BY <2>2 DEF Begun
  <2> QED BY <1>1, <1>4, <2>1, <2>2 DEF JobMoves, Holds
<1> QED BY <1>3, <1>4 DEF Records

\* All of it together.
AccountInv == ClaimInv /\ Idle /\ LeakInv /\ AttemptsInv

\* The invariant of the account of attempts holds throughout.
LEMMA AccountInvariant == Spec => [](TypeOK /\ AccountInv)
<1>1. Init => AccountInv
  <2> SUFFICES ASSUME Init PROVE AccountInv
    OBVIOUS
  <2>1. TypeOK
    BY InitType
  <2>2. /\ \A e \in Event : table[e] = NoRow
        /\ \A p \in Proc, e \in Event : job[p][e].stage = "none"
        /\ orphans = {} /\ faults = 0
    BY DEF Init, NoJob
  <2>3. MaxAttempts \in Nat /\ Most \in Nat \ {0}
    BY Numbers, <2>1 DEF Most, Greater
  <2>4. ClaimInv /\ Idle /\ LeakInv /\ Records
    BY <2>2 DEF ClaimInv, OneClaimant, NoRow, Holds, Idle, Jobs, LeakInv, Records
  <2>5. ASSUME NEW e \in Event  PROVE Budget(e) /\ Tries(e)
    <3>1. sent[e] = 0
      BY DEF Init
    <3> QED BY <2>2, <2>3, <3>1 DEF NoRow, Budget, Tries, Open
  <2> QED BY <2>4, <2>5 DEF AccountInv, AttemptsInv
<1>2. TypeOK /\ TypeOK' /\ AccountInv /\ [Next]_vars => AccountInv'
  <2> SUFFICES ASSUME TypeOK, TypeOK', AccountInv, [Next]_vars PROVE AccountInv'
    OBVIOUS
  <2>1. \A e \in Event : RowStep(e)
    BY NextRows DEF AccountInv
  <2>2. ClaimInv' /\ Idle' /\ LeakInv'
    BY <2>1, NextClaims, IdleKept, LeakKept DEF AccountInv
  <2>3. AttemptsInv'
    BY <2>1, BudgetKept, TriesKept, RecordsKept DEF AccountInv, AttemptsInv
  <2> QED BY <2>2, <2>3 DEF AccountInv
<1> QED BY <1>1, <1>2, TypeCorrect, PTL DEF Spec

\* A claimed row that no process works on is the trace of a fault: stopping, halting and
\* throttled drainers hand back every row they have claimed (drain.ts deliverAll).
THEOREM ClaimsLeakByFault == Spec => []ClaimsLeakOnlyByFault
<1>1. TypeOK /\ AccountInv => ClaimsLeakOnlyByFault
  <2> SUFFICES ASSUME AccountInv, faults = 0, NEW e \in Event, table[e].status = "delivering"
               PROVE  \E p \in Proc : Holds(p, e)
    BY DEF ClaimsLeakOnlyByFault
  <2> QED BY DEF AccountInv, LeakInv, Tended
<1> QED BY <1>1, AccountInvariant, PTL

\* A row is given up as exhausted only after MaxAttempts counted requests, and its counter
\* passes MaxAttempts only through reclaimed leases, each less or plus one per fault.
THEOREM AttemptsAreCounted == Spec => []AttemptsCount
<1>1. TypeOK /\ AccountInv => AttemptsCount
  <2> SUFFICES ASSUME AccountInv, NEW e \in Event
               PROVE  /\ table[e].why = "exhausted" => sent[e] + faults >= MaxAttempts
                      /\ table[e].attempts <= Greater(MaxAttempts, 1) + faults
    BY DEF AttemptsCount, ExhaustedWasTried, AttemptsBounded
  <2> QED BY DEF AccountInv, AttemptsInv, Budget, Tries, Most
<1> QED BY <1>1, AccountInvariant, PTL

------------------------------------------------------------------------------
(* Retry-After *)

\* The outcome keeps the row back for at least that long.
KeepsBack(outcome, rest) ==
  \/ outcome.to = "pending" /\ outcome.delay >= rest
  \/ outcome.to = "parked" /\ outcome.why = "retry_after_excessive"

\* The row is kept back for what is left of the Retry-After, or is about to be.
Waits(e) ==
  \/ table[e].status = "pending" /\ table[e].timer >= embargo[e]
  \/ table[e].status = "parked" /\ table[e].why = "retry_after_excessive"
  \/ \E p \in Proc : /\ Holds(p, e) /\ job[p][e].stage = "writing"
                     /\ KeepsBack(job[p][e].write, embargo[e])

\* Every job is of the row's own claim, whose lease lasts, and a Retry-After is waited for.
CalmRow(e) ==
  /\ \A p \in Proc : job[p][e].stage # "none" => job[p][e].token = table[e].token
  /\ table[e].status = "delivering" => table[e].timer > 0
  /\ embargo[e] > 0 => Waits(e)

\* As long as nothing has failed, that is so for every row, and nothing is left behind.
Calm ==
  faults = 0 =>
    /\ orphans = {} /\ \A p \in Proc : mode[p] # "hard"
    /\ \A e \in Event : CalmRow(e)

\* A job is of a claimed row, and only its outcome write can be under an embargo.
LEMMA CalmJobs ==
  ASSUME TypeOK, ClaimInv, NEW e \in Event, CalmRow(e), NEW p \in Proc, job[p][e].stage # "none"
  PROVE  /\ Holds(p, e) /\ table[e].status = "delivering"
         /\ embargo[e] > 0 => job[p][e].stage = "writing" /\ KeepsBack(job[p][e].write, embargo[e])
<1>1. Holds(p, e)
  BY DEF CalmRow, Holds
<1>2. table[e].status = "delivering"
  BY <1>1 DEF Holds, ClaimInv, OneClaimant
<1>3. ASSUME embargo[e] > 0
      PROVE  job[p][e].stage = "writing" /\ KeepsBack(job[p][e].write, embargo[e])
  <2>1. Waits(e)
    BY <1>3 DEF CalmRow
  <2>2. PICK q \in Proc : /\ Holds(q, e) /\ job[q][e].stage = "writing"
                          /\ KeepsBack(job[q][e].write, embargo[e])
    BY <1>2, <2>1 DEF Waits
  <2>3. q = p
    BY <1>1, <2>2 DEF ClaimInv, OneClaimant
  <2> QED BY <2>2, <2>3
<1> QED BY <1>1, <1>2, <1>3

\* The row is left alone, and at most jobs without an outcome end.
LEMMA CalmAlone ==
  ASSUME NEW e \in Event, CalmRow(e), table'[e] = table[e], embargo'[e] = embargo[e],
         \A p \in Proc : \/ job'[p][e] = job[p][e]
                         \/ job'[p][e].stage = "none" /\ job[p][e].stage # "writing"
  PROVE  CalmRow(e)'
<1>1. \A p \in Proc : job'[p][e].stage # "none" => job'[p][e].token = table'[e].token
  BY DEF CalmRow
<1>2. ASSUME embargo[e] > 0  PROVE Waits(e)'
  <2>1. Waits(e)
    BY <1>2 DEF CalmRow
  <2>2. ASSUME NEW p \in Proc, Holds(p, e), job[p][e].stage = "writing"
        PROVE  job'[p][e] = job[p][e] /\ Holds(p, e)'
    BY <2>2 DEF Holds
  <2> QED BY <2>1, <2>2 DEF Waits
<1> QED BY <1>1, <1>2 DEF CalmRow

\* A row that nobody has claimed and no embargo keeps back may become any other such row.
LEMMA CalmFree ==
  ASSUME TypeOK, ClaimInv, NEW e \in Event, CalmRow(e), table[e].status # "delivering",
         ~(table[e].status = "pending" /\ table[e].timer >= 0),
         ~(table[e].status = "parked" /\ table[e].why = "retry_after_excessive"),
         table'[e].status # "delivering", job' = job, embargo' = embargo
  PROVE  CalmRow(e)'
<1>1. \A p \in Proc : job[p][e].stage = "none"
  BY CalmJobs
<1>2. embargo[e] \in Nat /\ table[e].timer \in Int
  BY DEF TypeOK, Row
<1>3. ~(embargo[e] > 0)
  BY <1>1, <1>2 DEF CalmRow, Waits, Holds
<1> QED BY <1>1, <1>3 DEF CalmRow

\* The steps of a drainer's loop that no fault hits.
LEMMA ProcStepCalm ==
  ASSUME TypeOK, TypeOK', ClaimInv, Idle, NEW p \in Proc, ProcStep(p), faults = 0, faults' = 0, Calm
  PROVE  /\ orphans' = {} /\ \A q \in Proc : mode'[q] # "hard"
         /\ \A e \in Event : CalmRow(e)'
<1> USE DEF procVars, ghosts
<1>c. orphans = {} /\ (\A q \in Proc : mode[q] # "hard") /\ \A e \in Event : CalmRow(e)
  BY DEF Calm
<1>t. \A e \in Event : table[e] \in Row
  BY DEF TypeOK
<1>n. 0 <= MaxPendingAge /\ MaxPendingAge \in Nat
  BY ConstantsAssumption
<1>1. ASSUME UNCHANGED <<orphans, mode>>, \A e \in Event : CalmRow(e)'
      PROVE  /\ orphans' = {} /\ \A q \in Proc : mode'[q] # "hard"
             /\ \A e \in Event : CalmRow(e)'
  BY <1>c, <1>1
<1>2. ~Fault
  BY DEF Fault
<1>3. CASE Start(p)
  <2>1. /\ orphans' = {} /\ job' = job /\ embargo' = embargo
        /\ mode' = [mode EXCEPT ![p] = "up"] /\ table' = [e \in Event |-> Requeued(table[e])]
    BY <1>c, <1>2, <1>3 DEF Start
  <2>2. \A q \in Proc : mode'[q] # "hard"
    BY <1>c, <2>1 DEF TypeOK
  <2>3. ASSUME NEW e \in Event  PROVE CalmRow(e)'
    <3>1. CASE table'[e] = table[e]
      BY <1>c, <2>1, <3>1, CalmAlone
    <3>2. CASE table'[e] # table[e]
      <4>1. /\ table[e].status = "parked" /\ table[e].why # "retry_after_excessive"
            /\ table'[e].status = "pending"
        BY <2>1, <3>2 DEF Requeued, Captured, NoRow
      <4> QED BY <1>c, <2>1, <4>1, CalmFree
    <3> QED BY <3>1, <3>2
  <2> QED BY <2>1, <2>2, <2>3
<1>4. CASE WakeUp(p)
  <2>1. UNCHANGED <<orphans, mode, table, job, embargo>>
    BY <1>4 DEF WakeUp
  <2> QED BY <1>1, <1>c, <2>1, CalmAlone
<1>5. CASE Expire(p)
  <2>1. UNCHANGED <<orphans, mode, job, embargo>> /\ table' = [e \in Event |-> Expired(table[e])]
    BY <1>c, <1>5 DEF Expire
  <2>2. ASSUME NEW e \in Event  PROVE CalmRow(e)'
    <3>1. CASE table'[e] = table[e]
      BY <1>c, <2>1, <3>1, CalmAlone
    <3>2. CASE table'[e] # table[e]
      <4>1. table[e].status = "pending" /\ table[e].timer < -MaxPendingAge
        BY <2>1, <3>2 DEF Expired
      <4>2. table'[e].status = "failed"
        BY <1>t, <2>1, <4>1 DEF Expired, Row
      <4>3. ~(table[e].timer >= 0)
        BY <1>t, <1>n, <4>1 DEF Row
      <4> QED BY <1>c, <2>1, <4>1, <4>2, <4>3, CalmFree
    <3> QED BY <3>1, <3>2
  <2> QED BY <1>1, <2>1, <2>2
<1>6. CASE Delete(p)
  <2>1. UNCHANGED <<orphans, mode, job, embargo>> /\ table' = [e \in Event |-> Retained(table[e])]
    BY <1>c, <1>6 DEF Delete
  <2>2. ASSUME NEW e \in Event  PROVE CalmRow(e)'
    <3>1. CASE table'[e] = table[e]
      BY <1>c, <2>1, <3>1, CalmAlone
    <3>2. CASE table'[e] # table[e]
      <4>1. table[e].status \in {"delivered", "failed"} /\ table'[e].status = "absent"
        BY <2>1, <3>2 DEF Retained, NoRow
      <4> QED BY <1>c, <2>1, <4>1, CalmFree
    <3> QED BY <3>1, <3>2
  <2> QED BY <1>1, <2>1, <2>2
<1>7. CASE Claim(p)
  <2>1. UNCHANGED <<orphans, mode, embargo>> /\ Jobs(p) = {}
    BY <1>7 DEF Claim, Idle
  <2>2. PICK S \in SUBSET Due :
          /\ ClaimInto(S, table')
          /\ job' = [job EXCEPT ![p] = [f \in Event |->
               IF f \in S
               THEN [stage |-> "queued", token |-> table'[f].token,
                     attempts |-> table'[f].attempts, write |-> Released]
               ELSE NoJob]]
    BY <1>7, <1>c DEF Claim
  <2>3. ASSUME NEW e \in Event  PROVE CalmRow(e)'
    <3>1. \A q \in Proc \ {p} : job'[q][e] = job[q][e]
      BY <2>2 DEF TypeOK
    <3>2. CASE e \in S
      <4>1. table[e].status \in {"pending", "delivering"} /\ table[e].timer <= 0
        BY <3>2 DEF Due
      <4>2. table[e].timer \in Int /\ embargo[e] \in Nat
        BY <1>t DEF TypeOK, Row
      <4>3. table[e].status = "pending"
        BY <1>c, <4>1, <4>2 DEF CalmRow
      <4>4. \A q \in Proc : job[q][e].stage = "none"
        BY <1>c, <4>3, CalmJobs
      <4>5. ~(embargo[e] > 0)
        BY <1>c, <4>1, <4>2, <4>3, <4>4 DEF CalmRow, Waits, Holds
      <4>6. table'[e] = ClaimedRow(table[e], FreshToken)
        BY <2>2, <3>2, ClaimIntoType
      <4>7. table'[e].timer > 0
        BY <4>6, ConstantsAssumption DEF ClaimedRow
      <4>8. \A q \in Proc : job'[q][e].stage # "none" => job'[q][e].token = table'[e].token
        BY <2>2, <3>1, <3>2, <4>4 DEF TypeOK
      <4> QED BY <2>1, <4>5, <4>7, <4>8 DEF CalmRow
    <3>3. CASE e \notin S
      <4>1. table'[e] = table[e]
        BY <2>2, <3>3, ClaimIntoType
      <4>2. job[p][e].stage = "none"
        BY <2>1 DEF Jobs
      <4>3. job'[p][e].stage = "none"
        BY <2>2, <3>3 DEF TypeOK, NoJob
      <4> QED BY <1>c, <2>1, <3>1, <4>1, <4>2, <4>3, CalmAlone
    <3> QED BY <3>2, <3>3
  <2> QED BY <1>1, <2>1, <2>3
<1>8. CASE Stop(p)
  <2>1. UNCHANGED <<orphans, table, job, embargo>> /\ mode' = [mode EXCEPT ![p] = "stopping"]
    BY <1>8 DEF Stop
  <2>2. \A q \in Proc : mode'[q] # "hard"
    BY <1>c, <2>1 DEF TypeOK
  <2> QED BY <1>c, <2>1, <2>2, CalmAlone
<1>9. CASE Exit(p)
  <2>1. Jobs(p) = {} /\ Down(p) /\ UNCHANGED <<table, embargo>>
    BY <1>c, <1>9 DEF Exit
  <2>2. \A e \in Event : job[p][e].stage = "none"
    BY <2>1 DEF Jobs
  <2>3. orphans' = {}
    BY <1>c, <2>1, <2>2 DEF Down, Unsettled
  <2>4. \A q \in Proc : mode'[q] # "hard"
    BY <1>c, <2>1 DEF Down, TypeOK
  <2>5. \A q \in Proc, e \in Event :
          job'[q][e] = job[q][e] \/ (job'[q][e].stage = "none" /\ job[q][e].stage # "writing")
    BY <2>1, <2>2 DEF Down, TypeOK, NoJob
  <2> QED BY <1>c, <2>1, <2>3, <2>4, <2>5, CalmAlone
<1> QED BY <1>2, <1>3, <1>4, <1>5, <1>6, <1>7, <1>8, <1>9
        DEF ProcStep, ClaimLost, TickFails, HardStop, Crash

\* A 429 keeps the row back for as long as it asks.
LEMMA ThrottledKeepsBack ==
  ASSUME NEW header \in RetryAfters \cup {NoHeader}
  PROVE  KeepsBack(Throttled(header), Requested(header))
<1>1. Requested(header) \in Nat
  BY ConstantsAssumption DEF Requested, Greater
<1> QED BY <1>1 DEF Throttled, KeepsBack, Deferred, Finished

\* A worker on f moves its job on while the embargo of f is over.
LEMMA MovedOnCalm ==
  ASSUME TypeOK, NEW f \in Event, NEW p \in Proc, NEW e \in Event, CalmRow(e), table' = table,
         job[p][f].stage # "none", ~(embargo[f] > 0), embargo' = embargo,
         \/ \E outcome : Record(p, f, outcome)
         \/ job' = [job EXCEPT ![p][f].stage = "posting"]
  PROVE  CalmRow(e)'
<1>j. job[p][f] \in Job
  BY DEF TypeOK
<1>1. \A q \in Proc : ~(q = p /\ e = f) => job'[q][e] = job[q][e]
  <2>1. ASSUME NEW outcome, Record(p, f, outcome)
        PROVE  \A q \in Proc : ~(q = p /\ e = f) => job'[q][e] = job[q][e]
    BY <2>1 DEF Record, TypeOK
  <2>2. CASE job' = [job EXCEPT ![p][f].stage = "posting"]
    BY <2>2 DEF TypeOK
  <2> QED BY <2>1, <2>2
<1>2. CASE e = f
  <2>1. job'[p][f].stage # "none" => job'[p][f].token = job[p][f].token
    <3>1. CASE \E outcome : Record(p, f, outcome)
      <4>1. PICK outcome : Record(p, f, outcome)
        BY <3>1
      <4>2. [job[p][f] EXCEPT !.stage = "writing", !.write = outcome].token = job[p][f].token
        BY <1>j DEF Job
      <4> QED BY <4>1, <4>2 DEF Record, TypeOK, NoJob
    <3>2. CASE job' = [job EXCEPT ![p][f].stage = "posting"]
      BY <1>j, <3>2 DEF TypeOK, Job
    <3> QED BY <3>1, <3>2
  <2> QED BY <1>1, <1>2, <2>1 DEF CalmRow
<1>3. CASE e # f
  BY <1>1, <1>3, CalmAlone
<1> QED BY <1>2, <1>3

\* The steps of a worker that no fault hits.
LEMMA JobStepCalm ==
  ASSUME TypeOK, TypeOK', ClaimInv, NEW p \in Proc, NEW f \in Event, JobStep(p, f),
         faults = 0, faults' = 0, Calm
  PROVE  /\ orphans' = {} /\ \A q \in Proc : mode'[q] # "hard"
         /\ \A e \in Event : CalmRow(e)'
<1> USE DEF procVars, ghosts
<1>c. orphans = {} /\ (\A q \in Proc : mode[q] # "hard") /\ \A e \in Event : CalmRow(e)
  BY DEF Calm
<1>j. job[p][f] \in Job
  BY DEF TypeOK
<1>1. ASSUME UNCHANGED <<orphans, mode>>, \A e \in Event : CalmRow(e)'
      PROVE  /\ orphans' = {} /\ \A q \in Proc : mode'[q] # "hard"
             /\ \A e \in Event : CalmRow(e)'
  BY <1>c, <1>1
<1>2. job[p][f].stage \in {"queued", "posting"} => ~(embargo[f] > 0)
  BY <1>c, CalmJobs
<1>3. ASSUME UNCHANGED <<orphans, mode, table, embargo>>, job[p][f].stage \in {"queued", "posting"},
             \/ \E outcome : Record(p, f, outcome)
             \/ job' = [job EXCEPT ![p][f].stage = "posting"]
      PROVE  /\ orphans' = {} /\ \A q \in Proc : mode'[q] # "hard"
             /\ \A e \in Event : CalmRow(e)'
  BY <1>1, <1>2, <1>3, <1>c, MovedOnCalm
<1>4. CASE TakeRow(p, f)
  <2>1. UNCHANGED <<orphans, mode, table, embargo>> /\ job[p][f].stage \in {"queued", "posting"}
    BY <1>4 DEF TakeRow
  <2>2. \/ \E outcome : Record(p, f, outcome)
        \/ job' = [job EXCEPT ![p][f].stage = "posting"]
    BY <1>4 DEF TakeRow
  <2> QED BY <1>3, <2>1, <2>2
<1>5. ASSUME NEW answer \in Answer, Answered(p, f, answer)
      PROVE  /\ orphans' = {} /\ \A q \in Proc : mode'[q] # "hard"
             /\ \A e \in Event : CalmRow(e)'
  <2>1. UNCHANGED <<orphans, mode, table, embargo>> /\ job[p][f].stage \in {"queued", "posting"}
    BY <1>5 DEF Answered
  <2>2. \E outcome : Record(p, f, outcome)
    BY <1>5 DEF Answered
  <2> QED BY <1>3, <2>1, <2>2
<1>6. CASE Unanswered(p, f)
  <2>1. UNCHANGED <<orphans, mode, table, embargo>> /\ job[p][f].stage \in {"queued", "posting"}
    BY <1>6 DEF Unanswered
  <2>2. \E outcome : Record(p, f, outcome)
    BY <1>6 DEF Unanswered
  <2> QED BY <1>3, <2>1, <2>2
<1>7. ASSUME NEW header \in RetryAfters \cup {NoHeader}, AnsweredThrottled(p, f, header)
      PROVE  /\ orphans' = {} /\ \A q \in Proc : mode'[q] # "hard"
             /\ \A e \in Event : CalmRow(e)'
  <2>1. /\ UNCHANGED <<orphans, mode, table>> /\ job[p][f].stage = "posting"
        /\ Record(p, f, Throttled(header))
        /\ embargo' = [embargo EXCEPT ![f] = Requested(header)]
    BY <1>7 DEF AnsweredThrottled
  <2>2. job' = [job EXCEPT ![p][f] = [@ EXCEPT !.stage = "writing", !.write = Throttled(header)]]
    BY <1>c, <2>1 DEF Record
  <2>3. job'[p][f] = [job[p][f] EXCEPT !.stage = "writing", !.write = Throttled(header)]
    BY <2>2 DEF TypeOK
  <2>4. /\ job'[p][f].stage = "writing" /\ job'[p][f].write = Throttled(header)
        /\ job'[p][f].token = job[p][f].token
    BY <1>j, <2>3 DEF Job
  <2>5. ASSUME NEW e \in Event  PROVE CalmRow(e)'
    <3>1. \A q \in Proc : ~(q = p /\ e = f) => job'[q][e] = job[q][e]
      BY <2>2 DEF TypeOK
    <3>2. CASE e = f
      <4>1. \A q \in Proc : job'[q][f].stage # "none" => job'[q][f].token = table'[f].token
        BY <1>c, <2>1, <2>4, <3>1, <3>2 DEF CalmRow
      <4>2. embargo'[f] = Requested(header)
        BY <2>1 DEF TypeOK
      <4>3. Holds(p, f)'
        BY <2>4, <4>1 DEF Holds
      <4>4. KeepsBack(job'[p][f].write, embargo'[f])
        BY <2>4, <4>2, ThrottledKeepsBack
      <4>5. Waits(f)'
        BY <2>4, <4>3, <4>4 DEF Waits
      <4> QED BY <1>c, <2>1, <3>2, <4>1, <4>5 DEF CalmRow
    <3>3. CASE e # f
      <4>1. embargo'[e] = embargo[e]
        BY <2>1, <3>3 DEF TypeOK
      <4> QED BY <1>c, <2>1, <3>1, <3>3, <4>1, CalmAlone
    <3> QED BY <3>2, <3>3
  <2> QED BY <1>1, <2>1, <2>5
<1>8. CASE Written(p, f)
  <2>1. /\ UNCHANGED <<orphans, mode, embargo>> /\ job[p][f].stage = "writing"
        /\ table' = [table EXCEPT ![f] = Settle(@, job[p][f].token, job[p][f].write)]
        /\ job' = [job EXCEPT ![p][f] = NoJob]
    BY <1>8 DEF Written
  <2>2. ASSUME NEW e \in Event  PROVE CalmRow(e)'
    <3>1. \A q \in Proc : ~(q = p /\ e = f) => job'[q][e] = job[q][e]
      BY <2>1 DEF TypeOK
    <3>2. CASE e = f
      <4>1. /\ Holds(p, f) /\ table[f].status = "delivering"
            /\ embargo[f] > 0 => KeepsBack(job[p][f].write, embargo[f])
        BY <1>c, <2>1, CalmJobs
      <4>2. table'[f] = Settle(table[f], job[p][f].token, job[p][f].write)
        BY <2>1 DEF TypeOK
      <4>3. /\ table'[f].status = job[p][f].write.to /\ table'[f].why = job[p][f].write.why
            /\ job[p][f].write.to = "pending" => table'[f].timer = job[p][f].write.delay
        BY <4>1, <4>2 DEF Settle, Holds
      <4>4. job[p][f].write.to # "delivering"
        BY <1>j DEF Job, Outcome
      <4>5. \A q \in Proc : job'[q][f].stage = "none"
        <5>1. ASSUME NEW q \in Proc, q # p  PROVE job[q][f].stage = "none"
          <6>1. ~Holds(q, f)
            BY <4>1, <5>1 DEF ClaimInv, OneClaimant
          <6> QED BY <1>c, <6>1 DEF CalmRow, Holds
        <5>2. job'[p][f].stage = "none"
          BY <2>1 DEF TypeOK, NoJob
        <5> QED BY <3>1, <3>2, <5>1, <5>2
      <4>6. ASSUME embargo[f] > 0  PROVE Waits(f)'
        BY <2>1, <4>1, <4>3, <4>6 DEF KeepsBack, Waits
      <4> QED BY <2>1, <3>2, <4>3, <4>4, <4>5, <4>6 DEF CalmRow
    <3>3. CASE e # f
      <4>1. table'[e] = table[e]
        BY <2>1, <3>3 DEF TypeOK
      <4> QED BY <1>c, <2>1, <3>1, <3>3, <4>1, CalmAlone
    <3> QED BY <3>2, <3>3
  <2> QED BY <1>1, <2>1, <2>2
<1>9. ~WriteFails(p, f)
  BY DEF WriteFails, Fault
<1> QED BY <1>4, <1>5, <1>6, <1>7, <1>8, <1>9 DEF JobStep

\* Time keeps leases and delays ahead of what they wait for, unless a worker stalls.
LEMMA TimePassesCalm ==
  ASSUME TypeOK, TypeOK', LeakInv, TimePasses, faults = 0, faults' = 0, Calm, NEW e \in Event
  PROVE  CalmRow(e)'
<1> USE DEF procVars
<1>1. /\ UNCHANGED job /\ faults' = faults + Cardinality(Stalled)
      /\ table'[e] = Aged(table[e]) /\ embargo'[e] = Greater(embargo[e] - 1, 0)
  BY DEF TimePasses, TypeOK
<1>2. table[e] \in Row /\ table[e].timer \in Int /\ embargo[e] \in Nat /\ CalmRow(e)
  BY DEF TypeOK, Row, Calm
<1>3. /\ table'[e].status = table[e].status /\ table'[e].token = table[e].token
      /\ table'[e].why = table[e].why
      /\ table'[e].timer = Greater(table[e].timer - 1, Floor(table[e]))
  BY <1>1, <1>2 DEF Aged, Row
<1>4. e \notin Stalled
  <2>1. IsFiniteSet(Stalled) /\ Cardinality(Stalled) = 0
    BY <1>1, ConstantsAssumption, FS_Subset, StalledIsFinite DEF Stalled
  <2> QED BY <2>1, FS_EmptySet
<1>5. ASSUME table[e].status = "delivering"  PROVE table'[e].timer > 0
  <2>1. Tended(e) /\ table[e].timer > 0
    BY <1>2, <1>5 DEF LeakInv, CalmRow
  <2>2. table[e].timer # 1
    BY <1>4, <1>5, <2>1 DEF Stalled, Tended
  <2> QED BY <1>2, <1>3, <1>5, <2>1, <2>2 DEF Floor, Greater
<1>6. ASSUME embargo'[e] > 0  PROVE Waits(e)'
  <2>1. embargo'[e] = embargo[e] - 1 /\ embargo[e] > 0
    BY <1>1, <1>2, <1>6 DEF Greater
  <2>2. Waits(e)
    BY <1>2, <2>1 DEF CalmRow
  <2>3. CASE table[e].status = "pending" /\ table[e].timer >= embargo[e]
    <3>1. Floor(table[e]) \in Int
      BY <2>3, ConstantsAssumption DEF Floor
    <3>2. table'[e].timer >= embargo'[e]
      BY <1>2, <1>3, <2>1, <2>3, <3>1 DEF Greater
    <3> QED BY <1>3, <2>3, <3>2 DEF Waits
  <2>4. CASE table[e].status = "parked" /\ table[e].why = "retry_after_excessive"
    BY <1>3, <2>4 DEF Waits
  <2>5. ASSUME NEW p \in Proc, Holds(p, e), job[p][e].stage = "writing",
               KeepsBack(job[p][e].write, embargo[e])
        PROVE  Waits(e)'
    <3>1. job[p][e].write \in Outcome /\ job[p][e].write.delay \in Nat
      BY DEF TypeOK, Job, Outcome
    <3>2. KeepsBack(job'[p][e].write, embargo'[e])
      BY <1>1, <1>2, <2>1, <2>5, <3>1 DEF KeepsBack
    <3>3. Holds(p, e)'
      BY <1>1, <1>3, <2>5 DEF Holds
    <3> QED BY <1>1, <2>5, <3>2, <3>3 DEF Waits
  <2> QED BY <2>2, <2>3, <2>4, <2>5 DEF Waits
<1> QED BY <1>1, <1>2, <1>3, <1>5, <1>6 DEF CalmRow

\* Faults are never undone.
LEMMA FaultsGrow ==
  ASSUME TypeOK, [Next]_vars
  PROVE  faults <= faults'
<1>1. faults \in Nat /\ Cardinality(Stalled) \in Nat
  BY Numbers, StalledIsFinite
<1>2. faults' = faults \/ faults' = faults + 1 \/ faults' = faults + Cardinality(Stalled)
  <2>1. ASSUME NEW p \in Proc, ProcStep(p)  PROVE faults' = faults \/ faults' = faults + 1
    BY <2>1, Zenon
       DEF ProcStep, Start, WakeUp, Expire, Delete, Claim, ClaimLost, TickFails, Stop, HardStop, Exit,
           Crash, Fault
  <2>2. ASSUME NEW p \in Proc, NEW f \in Event, JobStep(p, f)
        PROVE  faults' = faults \/ faults' = faults + 1
    BY <2>2, Zenon
       DEF JobStep, TakeRow, Answered, AnsweredThrottled, Unanswered, Written, WriteFails, Fault
  <2> QED BY <2>1, <2>2 DEF Next, vars, Enqueue, OrphanWrite, TimePasses
<1> QED BY <1>1, <1>2

\* Every step.
LEMMA CalmKept ==
  ASSUME TypeOK, TypeOK', ClaimInv, Idle, LeakInv, Calm, [Next]_vars, faults <= faults'
  PROVE  Calm'
<1> USE DEF procVars, ghosts
<1> SUFFICES ASSUME faults' = 0
             PROVE  /\ orphans' = {} /\ \A q \in Proc : mode'[q] # "hard"
                    /\ \A e \in Event : CalmRow(e)'
  BY DEF Calm
<1>1. faults = 0
  BY Numbers
<1>c. orphans = {} /\ (\A q \in Proc : mode[q] # "hard") /\ \A e \in Event : CalmRow(e)
  BY <1>1 DEF Calm
<1>2. ASSUME NEW f \in Event, Enqueue(f)
      PROVE  /\ orphans' = {} /\ \A q \in Proc : mode'[q] # "hard"
             /\ \A e \in Event : CalmRow(e)'
  <2>1. /\ UNCHANGED <<orphans, mode, job, embargo>> /\ table[f] = NoRow
        /\ table' = [table EXCEPT ![f] = Captured]
    BY <1>2 DEF Enqueue
  <2>2. ASSUME NEW e \in Event  PROVE CalmRow(e)'
    <3>1. CASE e = f
      <4>1. table[e].status = "absent" /\ table'[e].status = "pending"
        BY <2>1, <3>1 DEF TypeOK, Captured, NoRow
      <4> QED BY <1>c, <2>1, <4>1, CalmFree
    <3>2. CASE e # f
      <4>1. table'[e] = table[e]
        BY <2>1, <3>2 DEF TypeOK
      <4> QED BY <1>c, <2>1, <4>1, CalmAlone
    <3> QED BY <3>1, <3>2
  <2> QED BY <1>c, <2>1, <2>2
<1>3. CASE UNCHANGED vars
  <2>1. UNCHANGED <<orphans, mode, job, embargo, table>>
    BY <1>3 DEF vars
  <2> QED BY <1>c, <2>1, CalmAlone
<1>4. CASE TimePasses
  <2>1. UNCHANGED <<orphans, mode>>
    BY <1>4 DEF TimePasses
  <2> QED BY <1>1, <1>4, <1>c, <2>1, TimePassesCalm
<1> QED BY <1>1, <1>2, <1>3, <1>4, <1>c, ProcStepCalm, JobStepCalm DEF Next

\* Only TakeRow starts a request.
LEMMA OnlyTaken ==
  ASSUME TypeOK, [Next]_vars, NEW p \in Proc, NEW e \in Event, StartsPosting(p, e)
  PROVE  job[p][e].stage = "queued" /\ faults' = faults
<1> USE DEF procVars
<1>1. job[p][e].stage # "posting" /\ job'[p][e].stage = "posting"
  BY DEF StartsPosting
<1>2. ASSUME NEW q \in Proc, ProcStep(q)  PROVE job'[p][e] \in {job[p][e], NoJob} \/ job'[p][e].stage = "queued"
  <2>1. CASE job' = job
    BY <2>1
  <2>2. CASE Exit(q) \/ Crash(q)
    BY <2>2 DEF Exit, Crash, Down, TypeOK
  <2>3. CASE Claim(q)
    BY <2>3 DEF Claim, TypeOK
  <2> QED BY <1>2, <2>1, <2>2, <2>3
          DEF ProcStep, Start, WakeUp, Expire, Delete, ClaimLost, TickFails, Stop, HardStop
<1>3. ASSUME NEW q \in Proc, NEW f \in Event, JobStep(q, f)
      PROVE  job[p][e].stage = "queued" /\ faults' = faults
  <2>j. job[q][f] \in Job
    BY DEF TypeOK
  <2>1. ASSUME \E outcome : Record(q, f, outcome)  PROVE FALSE
    <3>1. PICK outcome : Record(q, f, outcome)
      BY <2>1
    <3>2. job'[q][f].stage \in {"none", "writing"}
      BY <2>j, <3>1 DEF Record, TypeOK, NoJob, Job
    <3>3. ~(p = q /\ e = f) => job'[p][e] = job[p][e]
      BY <3>1 DEF Record, TypeOK
    <3> QED BY <1>1, <3>2, <3>3
  <2>2. ASSUME job' = [job EXCEPT ![q][f] = NoJob]  PROVE FALSE
    BY <1>1, <2>2 DEF TypeOK, NoJob
  <2>3. TakeRow(q, f)
    BY <1>3, <2>1, <2>2, Zenon
       DEF JobStep, Answered, AnsweredThrottled, Unanswered, Written, WriteFails
  <2>4. faults' = faults /\ job[q][f].stage = "queued" /\ job' = [job EXCEPT ![q][f].stage = "posting"]
    BY <2>1, <2>3 DEF TakeRow
  <2> QED BY <1>1, <2>4 DEF TypeOK
<1>4. job' # job
  BY <1>1
<1>5. NoJob.stage = "none"
  BY DEF NoJob
<1> QED BY <1>1, <1>2, <1>3, <1>4, <1>5 DEF Next, vars, Enqueue, OrphanWrite, TimePasses

\* No request starts before the last Retry-After has passed (drain.ts:304), over stops,
\* restarts, requeues and parks, as long as no call has failed and no process crashed.
THEOREM RetryAfterIsHonoured == Spec => RetryAfterHonouredWithoutFaults
<1>1. Init => Calm
  BY DEF Init, Calm, CalmRow, NoRow, NoJob
<1>2. TypeOK /\ TypeOK' /\ AccountInv /\ Calm /\ [Next]_vars => Calm'
  <2> SUFFICES ASSUME TypeOK, TypeOK', AccountInv, Calm, [Next]_vars PROVE Calm'
    OBVIOUS
  <2> QED BY FaultsGrow, CalmKept DEF AccountInv
<1>3. TypeOK /\ AccountInv /\ Calm /\ [Next]_vars =>
        [\A p \in Proc, e \in Event : StartsPosting(p, e) /\ faults = 0 => embargo[e] = 0]_vars
  <2> SUFFICES ASSUME TypeOK, ClaimInv, Calm, [Next]_vars, NEW p \in Proc, NEW e \in Event,
                      StartsPosting(p, e), faults = 0
               PROVE  embargo[e] = 0
    BY DEF AccountInv
  <2>1. job[p][e].stage = "queued" /\ CalmRow(e)
    BY OnlyTaken DEF Calm
  <2>2. ~(embargo[e] > 0)
    BY <2>1, CalmJobs
  <2> QED BY <2>2 DEF TypeOK
<1> QED BY <1>1, <1>2, <1>3, TypeCorrect, AccountInvariant, PTL
        DEF Spec, RetryAfterHonouredWithoutFaults
=============================================================================
