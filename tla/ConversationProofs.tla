-------------------------- MODULE ConversationProofs --------------------------
(***************************************************************************)
(* Proofs about Conversation, for any deliveries, requests, sessions and   *)
(* limits: type correctness, that lanes and slots are held by one run      *)
(* each, and what becomes of a delivery's user.                            *)
(***************************************************************************)
EXTENDS Conversation, FiniteSetTheorems, SequenceTheorems, TLAPS

\* Every delivery has a request, and every request a session.
LEMMA Owners ==
  ASSUME NEW d \in Delivery
  PROVE  RequestOf[d] \in Request /\ SessionIn(d) \in Session
BY ConstantsAssumption DEF SessionIn

------------------------------------------------------------------------------
(* Type correctness *)

\* A process starts from values of the declared types.
LEMMA InitType == Init => TypeOK
BY ConstantsAssumption DEF Init, TypeOK, Phase

\* The turns read for a prompt are a sequence of requests.
LEMMA RecentType ==
  ASSUME NEW s \in Session, turns \in [Session -> Seq(Request)]
  PROVE  Recent(s) \in Seq(Request)
<1>1. turns[s] \in Seq(Request) /\ Len(turns[s]) \in Nat /\ RecentTurns \in Nat \ {0}
  BY LenProperties, ConstantsAssumption
<1> DEFINE first == IF Len(turns[s]) > RecentTurns THEN Len(turns[s]) - RecentTurns + 1 ELSE 1
<1>2. first \in 1 .. Len(turns[s]) + 1
  BY <1>1
<1>3. \A i \in first .. Len(turns[s]) : turns[s][i] \in Request
  BY <1>1, <1>2, ElementOfSeq
<1>4. SubSeq(turns[s], first, Len(turns[s])) \in Seq(Request)
  BY <1>1, <1>2, <1>3, SubSeqProperties
<1> QED BY <1>4 DEF Recent

\* The types of TypeOK, by the variables that change together.
LedgerTypes ==
  /\ ledger \in [Request -> {"none", "processing", "completed", "failed"}]
  /\ turns \in [Session -> Seq(Request)]
  /\ basis \in [Request -> Seq(Request)] /\ unacked \subseteq Request
PoolTypes ==
  /\ threads \in [Session -> Seq(Delivery)]
  /\ active \in 0 .. ActiveRuns /\ waiters \in Seq(Delivery)
PhaseTypes == phase \in [Delivery -> Phase]
CacheTypes == cache \in [Session -> Seq(Request) \cup {NoCache}]
HistoryTypes == history \in [Delivery -> Seq(Request)]
FlagTypes ==
  (ran \cup cancelled \cup expired \cup committed \cup erred \cup registered \cup bound
     \cup notified \cup replied \cup unheard \cup lost) \subseteq Delivery

\* The type invariant, part by part.
LEMMA Types ==
  TypeOK <=> /\ LedgerTypes /\ PoolTypes /\ PhaseTypes /\ CacheTypes /\ HistoryTypes /\ FlagTypes
             /\ tools \subseteq Delivery /\ crashes \in 0 .. MaxCrashes
BY DEF TypeOK, LedgerTypes, PoolTypes, PhaseTypes, CacheTypes, HistoryTypes, FlagTypes

------------------------------------------------------------------------------
(* Which steps touch which variables *)

\* The actions that write the ledger or the turns.
LEMMA LedgerFrame ==
  ASSUME [Next]_vars
  PROVE  \/ UNCHANGED durable
         \/ \E d \in Delivery : Claim(d) \/ ClaimFails(d) \/ Persisted(d) \/ PersistFails(d)
                                \/ RecordFailure(d)
BY Zenon DEF Next, RunStep, vars, Share, Reject, Admit, TakeTurn, ClaimConflicts, Posted, ReadHistory,
      CallTool, ToolSettles, Generated, Commit, StageFails, Deliver, Close, Reply, TimeOut,
      Cancel, Evict, Crash

\* The actions that change the lanes or the pool of workers.
LEMMA PoolFrame ==
  ASSUME [Next]_vars
  PROVE  \/ UNCHANGED pool
         \/ \E d \in Delivery : Admit(d) \/ TakeTurn(d) \/ Close(d)
         \/ Crash
BY Zenon DEF Next, RunStep, vars, Share, Reject, Claim, ClaimConflicts, ClaimFails, Posted, ReadHistory,
      CallTool, ToolSettles, Generated, Commit, StageFails, Persisted, PersistFails, Deliver,
      RecordFailure, Reply, TimeOut, Cancel, Evict

\* The actions that change the history a delivery works with.
LEMMA HistoryFrame ==
  ASSUME [Next]_vars
  PROVE  \/ UNCHANGED history
         \/ \E d \in Delivery : Posted(d) \/ ReadHistory(d) \/ Close(d)
         \/ Crash
BY Zenon DEF Next, RunStep, vars, Share, Reject, Admit, TakeTurn, Claim, ClaimConflicts, ClaimFails,
      CallTool, ToolSettles, Generated, Commit, StageFails, Persisted, PersistFails, Deliver,
      RecordFailure, Reply, TimeOut, Cancel, Evict

\* A checkpoint either lets the run go on or fails it.
LEMMA Checkpoint ==
  ASSUME NEW d, NEW next, Proceed(d, next)
  PROVE  \/ d \in Stopped /\ Goes(d, "failing") /\ Throws(d)
         \/ d \notin Stopped /\ Goes(d, next) /\ UNCHANGED <<erred, cache>>
BY DEF Proceed

\* The cache is emptied for a session, or takes the history of a run that has committed.
LEMMA CacheFrame ==
  ASSUME [Next]_vars
  PROVE  \/ UNCHANGED cache
         \/ \E s : cache' = [cache EXCEPT ![s] = NoCache]
         \/ \E d \in Delivery : Persisted(d)
         \/ Crash
<1>1. ASSUME NEW d \in Delivery, Throws(d)  PROVE \E s : cache' = [cache EXCEPT ![s] = NoCache]
  BY <1>1 DEF Throws
<1>2. ASSUME NEW d \in Delivery, NEW next, Proceed(d, next)
      PROVE  UNCHANGED cache \/ \E s : cache' = [cache EXCEPT ![s] = NoCache]
  BY <1>1, <1>2, Checkpoint
<1>3. ASSUME NEW d \in Delivery, Claim(d) \/ ClaimFails(d) \/ StageFails(d) \/ PersistFails(d)
      PROVE  UNCHANGED cache \/ \E s : cache' = [cache EXCEPT ![s] = NoCache]
  BY <1>1, <1>3, Zenon DEF Claim, ClaimFails, StageFails, PersistFails
<1>4. ASSUME NEW d \in Delivery, Posted(d) \/ ReadHistory(d) \/ Generated(d) \/ Commit(d)
      PROVE  UNCHANGED cache \/ \E s : cache' = [cache EXCEPT ![s] = NoCache]
  BY <1>2, <1>4, Zenon DEF Posted, ReadHistory, Generated, Commit
<1>5. ASSUME NEW s \in Session, Evict(s)  PROVE \E t : cache' = [cache EXCEPT ![t] = NoCache]
  BY <1>5 DEF Evict
<1> QED
  BY <1>3, <1>4, <1>5, Zenon DEF Next, RunStep, vars, Share, Reject, Admit, TakeTurn, ClaimConflicts, CallTool,
     ToolSettles, Deliver, RecordFailure, Close, Reply, TimeOut, Cancel

\* A delivery changes its phase alone, but for the waiter that is handed the slot it frees.
LEMMA PhaseFrame ==
  ASSUME [Next]_vars
  PROVE  \/ UNCHANGED phase
         \/ \E d \in Delivery : \E next \in Phase : Goes(d, next)
         \/ \E d \in Delivery : Close(d)
         \/ Crash
<1> DEFINE Moves(d) == \E next \in Phase : Goes(d, next)
<1>1. /\ {"done", "replying", "queued", "waiting", "failing"} \subseteq Phase
      /\ HoldingPhases \subseteq Phase
  BY DEF Phase, HoldingPhases
<1>2. ASSUME NEW d \in Delivery, NEW next \in Phase, Proceed(d, next)  PROVE Moves(d)
  BY <1>1, <1>2, Checkpoint
<1>3. ASSUME NEW d \in Delivery, Share(d) \/ Reject(d) \/ Admit(d) \/ Reply(d)
      PROVE  Moves(d)
  BY <1>1, <1>3 DEF Share, Reject, Admit, Reply
<1>4. ASSUME NEW d \in Delivery,
             TakeTurn(d) \/ Claim(d) \/ ClaimConflicts(d) \/ ClaimFails(d) \/ StageFails(d)
      PROVE  Moves(d)
  BY <1>1, <1>4 DEF TakeTurn, Claim, ClaimConflicts, ClaimFails, StageFails, HoldingPhases
<1>5. ASSUME NEW d \in Delivery,
             Persisted(d) \/ PersistFails(d) \/ Deliver(d) \/ RecordFailure(d)
      PROVE  Moves(d)
  BY <1>1, <1>5 DEF Persisted, PersistFails, Deliver, RecordFailure, HoldingPhases
<1>6. ASSUME NEW d \in Delivery, Posted(d) \/ ReadHistory(d) \/ Generated(d) \/ Commit(d)
      PROVE  Moves(d)
  BY <1>1, <1>2, <1>6 DEF Posted, ReadHistory, Generated, Commit, HoldingPhases
<1> HIDE DEF Moves
<1>7. \/ UNCHANGED phase
      \/ \E d \in Delivery : Moves(d) \/ Close(d)
      \/ Crash
  BY <1>3, <1>4, <1>5, <1>6, Zenon
     DEF Next, RunStep, vars, CallTool, ToolSettles, TimeOut, Cancel, Evict
<1> QED BY <1>7, Zenon DEF Moves

------------------------------------------------------------------------------
(* Each group of variables keeps its types *)

\* Completing a request writes a verdict and one more turn.
LEMMA CompleteType ==
  ASSUME LedgerTypes, HistoryTypes, NEW d \in Delivery, Complete(d)
  PROVE  /\ ledger' \in [Request -> {"none", "processing", "completed", "failed"}]
         /\ turns' \in [Session -> Seq(Request)]
         /\ basis' \in [Request -> Seq(Request)]
<1>1. Append(turns[SessionIn(d)], RequestOf[d]) \in Seq(Request)
  BY Owners, AppendProperties DEF LedgerTypes
<1>2. turns' \in [Session -> Seq(Request)]
  BY <1>1, Owners, Zenon DEF LedgerTypes, Complete
<1>3. ledger' \in [Request -> {"none", "processing", "completed", "failed"}]
  BY Owners DEF LedgerTypes, Complete
<1>4. basis' \in [Request -> Seq(Request)]
  BY Owners DEF LedgerTypes, HistoryTypes, Complete
<1> QED BY <1>2, <1>3, <1>4

\* Every action keeps the ledger and the turns well-typed.
LEMMA LedgerTypesKept == LedgerTypes /\ HistoryTypes /\ [Next]_vars => LedgerTypes'
<1> SUFFICES ASSUME LedgerTypes, HistoryTypes, [Next]_vars  PROVE LedgerTypes'
  OBVIOUS
<1>1. CASE UNCHANGED durable
  BY <1>1 DEF durable, LedgerTypes
<1>2. ASSUME NEW d \in Delivery, Claim(d) \/ ClaimFails(d) \/ RecordFailure(d)  PROVE LedgerTypes'
  <2>1. UNCHANGED <<turns, basis, unacked>>
    BY <1>2 DEF Claim, ClaimFails, RecordFailure
  <2>2. ledger' = ledger \/ \E w \in {"processing", "failed"} : ledger' = [ledger EXCEPT ![RequestOf[d]] = w]
    BY <1>2 DEF Claim, ClaimFails, RecordFailure
  <2>3. ledger' \in [Request -> {"none", "processing", "completed", "failed"}]
    BY <2>2, Owners DEF LedgerTypes
  <2> QED BY <2>1, <2>3 DEF LedgerTypes
<1>3. ASSUME NEW d \in Delivery, Complete(d), unacked' \in {unacked, unacked \cup {RequestOf[d]}}
      PROVE  LedgerTypes'
  <2>1. unacked' \subseteq Request
    BY <1>3, Owners DEF LedgerTypes
  <2> QED BY <1>3, <2>1, CompleteType DEF LedgerTypes
<1>4. ASSUME NEW d \in Delivery, Persisted(d) \/ PersistFails(d)  PROVE LedgerTypes'
  BY <1>1, <1>3, <1>4 DEF Persisted, PersistFails
<1> QED BY <1>1, <1>2, <1>4, LedgerFrame, Zenon

\* Every action keeps the histories well-typed.
LEMMA HistoryTypesKept ==
  LedgerTypes /\ CacheTypes /\ HistoryTypes /\ [Next]_vars => HistoryTypes'
<1> SUFFICES ASSUME LedgerTypes, CacheTypes, HistoryTypes, [Next]_vars  PROVE HistoryTypes'
  OBVIOUS
<1>1. CASE UNCHANGED history
  BY <1>1 DEF HistoryTypes
<1>2. ASSUME NEW d \in Delivery, NEW h \in Seq(Request), history' = [history EXCEPT ![d] = h]
      PROVE  HistoryTypes'
  BY <1>2 DEF HistoryTypes
<1>3. ASSUME NEW d \in Delivery, Posted(d)  PROVE HistoryTypes'
  <2>1. CASE cache[SessionIn(d)] # NoCache /\ SessionIn(d) \notin Mention
    <3>1. cache[SessionIn(d)] \in Seq(Request)
      BY <2>1, Owners DEF CacheTypes
    <3>2. history' = [history EXCEPT ![d] = cache[SessionIn(d)]]
      BY <1>3, <2>1, Zenon DEF Posted
    <3> QED BY <1>2, <3>1, <3>2
  <2>2. CASE ~(cache[SessionIn(d)] # NoCache /\ SessionIn(d) \notin Mention)
    <3>1. UNCHANGED history
      BY <1>3, <2>2, Zenon DEF Posted
    <3> QED BY <1>1, <3>1
  <2> QED BY <2>1, <2>2
<1>4. ASSUME NEW d \in Delivery, ReadHistory(d)  PROVE HistoryTypes'
  <2>1. Recent(SessionIn(d)) \in Seq(Request) /\ <<>> \in Seq(Request)
    BY RecentType, Owners, EmptySeq DEF LedgerTypes
  <2>2. (IF SessionIn(d) \in Mention THEN <<>> ELSE Recent(SessionIn(d))) \in Seq(Request)
    BY <2>1
  <2>3. history' = [history EXCEPT ![d] = IF SessionIn(d) \in Mention THEN <<>> ELSE Recent(SessionIn(d))]
    BY <1>4, Zenon DEF ReadHistory
  <2> QED BY <1>2, <2>2, <2>3
<1>5. ASSUME NEW d \in Delivery, Close(d)  PROVE HistoryTypes'
  BY <1>2, <1>5, EmptySeq DEF Close
<1>6. CASE Crash
  BY <1>6, EmptySeq DEF Crash, HistoryTypes
<1> QED BY <1>1, <1>3, <1>4, <1>5, <1>6, HistoryFrame, Zenon

\* A history with its own request is a sequence of requests.
LEMMA ExtendedType ==
  ASSUME HistoryTypes, NEW d \in Delivery
  PROVE  Extended(d) \in Seq(Request)
<1>1. history[d] \in Seq(Request) /\ RequestOf[d] \in Request
  BY Owners DEF HistoryTypes
<1> DEFINE h == Append(history[d], RequestOf[d])
<1>2. h \in Seq(Request) /\ h # <<>>
  BY <1>1, AppendProperties
<1>3. Tail(h) \in Seq(Request)
  BY <1>2, HeadTailProperties
<1> QED BY <1>2, <1>3 DEF Extended

\* Every action keeps the cache well-typed.
LEMMA CacheTypesKept == CacheTypes /\ HistoryTypes /\ [Next]_vars => CacheTypes'
<1> SUFFICES ASSUME CacheTypes, HistoryTypes, [Next]_vars  PROVE CacheTypes'
  OBVIOUS
<1>1. CASE UNCHANGED cache
  BY <1>1 DEF CacheTypes
<1>2. ASSUME NEW s, cache' = [cache EXCEPT ![s] = NoCache]  PROVE CacheTypes'
  BY <1>2 DEF CacheTypes
<1>3. ASSUME NEW d \in Delivery, Persisted(d)  PROVE CacheTypes'
  <2> DEFINE kept == IF SessionIn(d) \in Mention THEN NoCache ELSE Extended(d)
  <2>1. kept \in Seq(Request) \cup {NoCache}
    BY ExtendedType
  <2>2. cache' = [cache EXCEPT ![SessionIn(d)] = kept]
    BY <1>3, Zenon DEF Persisted
  <2> HIDE DEF kept
  <2> QED BY <2>1, <2>2 DEF CacheTypes
<1>4. CASE Crash
  BY <1>4 DEF Crash, CacheTypes
<1> QED BY <1>1, <1>2, <1>3, <1>4, CacheFrame, Zenon

\* Every action leaves each delivery in one of its phases.
LEMMA PhaseTypesKept == PhaseTypes /\ [Next]_vars => PhaseTypes'
<1> SUFFICES ASSUME PhaseTypes, [Next]_vars  PROVE PhaseTypes'
  OBVIOUS
<1>1. CASE UNCHANGED phase
  BY <1>1 DEF PhaseTypes
<1>2. ASSUME NEW d \in Delivery, NEW next \in Phase, Goes(d, next)  PROVE PhaseTypes'
  BY <1>2 DEF PhaseTypes, Goes
<1>3. ASSUME NEW d \in Delivery, Close(d)  PROVE PhaseTypes'
  <2>1. PICK next \in {"replying", "done"} : Released(d, next)
    BY <1>3 DEF Close
  <2>2. next \in Phase /\ "claiming" \in Phase
    BY DEF Phase, HoldingPhases
  <2>3. CASE waiters = <<>>
    BY <1>2, <2>1, <2>2, <2>3 DEF Released
  <2>4. CASE waiters # <<>>
    BY <2>1, <2>2, <2>4 DEF Released, PhaseTypes
  <2> QED BY <2>3, <2>4
<1>4. CASE Crash
  BY <1>4 DEF Crash, PhaseTypes, Phase
<1> QED BY <1>1, <1>2, <1>3, <1>4, PhaseFrame, Zenon

\* Every action marks deliveries only.
LEMMA FlagTypesKept == FlagTypes /\ [Next]_vars => FlagTypes'
<1> SUFFICES ASSUME FlagTypes, [Next]_vars  PROVE FlagTypes'
  OBVIOUS
<1> USE DEF FlagTypes, stops, notices, buttons, ends
<1>1. ASSUME NEW d \in Delivery, NEW next, Proceed(d, next)  PROVE erred' \subseteq Delivery
  BY <1>1, Checkpoint DEF Throws
<1>2. ASSUME NEW d \in Delivery, Share(d) \/ Reject(d) \/ Admit(d) \/ Reply(d) \/ TakeTurn(d)
      PROVE  FlagTypes'
  BY <1>2 DEF Share, Reject, Admit, Reply, TakeTurn
<1>3. ASSUME NEW d \in Delivery, Claim(d) \/ ClaimConflicts(d) \/ ClaimFails(d) \/ StageFails(d)
      PROVE  FlagTypes'
  BY <1>3 DEF Claim, ClaimConflicts, ClaimFails, StageFails, Throws
<1>4. ASSUME NEW d \in Delivery, Posted(d) \/ ReadHistory(d) \/ Generated(d) \/ Commit(d)
      PROVE  FlagTypes'
  <2>1. erred' \subseteq Delivery
    BY <1>1, <1>4 DEF Posted, ReadHistory, Generated, Commit
  <2> QED BY <1>4, <2>1 DEF Posted, Notify, ReadHistory, Generated, Commit
<1>5. ASSUME NEW d \in Delivery,
             Persisted(d) \/ PersistFails(d) \/ Deliver(d) \/ RecordFailure(d) \/ Close(d)
      PROVE  FlagTypes'
  BY <1>5 DEF Persisted, PersistFails, Deliver, RecordFailure, Close, Throws
<1>6. ASSUME NEW d \in Delivery, TimeOut(d) \/ Cancel(d)  PROVE FlagTypes'
  BY <1>6 DEF TimeOut, Cancel, Tell, Notify
<1>7. CASE (\E d \in Delivery : CallTool(d) \/ ToolSettles(d)) \/ \E s \in Session : Evict(s)
  BY <1>7 DEF CallTool, ToolSettles, Evict
<1>8. CASE Crash
  BY <1>8 DEF Crash
<1> HIDE DEF FlagTypes
<1>9. CASE UNCHANGED vars
  BY <1>9 DEF FlagTypes, vars
<1> QED BY <1>2, <1>3, <1>4, <1>5, <1>6, <1>7, <1>8, <1>9, Zenon DEF Next, RunStep

------------------------------------------------------------------------------
(* Queues: a lane, and the line of waiters *)

InLane(d, q) == \E i \in 1 .. Len(q) : q[i] = d
Distinct(q) == \A i, j \in 1 .. Len(q) : q[i] = q[j] => i = j

\* An empty lane holds nobody twice.
LEMMA EmptyLane == Distinct(<<>>) /\ \A d : ~InLane(d, <<>>)
BY DEF Distinct, InLane

\* A lane with somebody in it has a head, who is in it.
LEMMA HeadOfLane ==
  ASSUME NEW S, NEW q \in Seq(S), NEW d, InLane(d, q)
  PROVE  q # <<>> /\ Head(q) \in S /\ InLane(Head(q), q)
<1>1. q # <<>>
  BY EmptyLane DEF InLane
<1>2. Len(q) \in Nat \ {0} /\ Head(q) = q[1]
  BY <1>1, EmptySeq
<1> QED BY <1>1, <1>2, ElementOfSeq DEF InLane

\* A run that queues up comes last, and changes who is first only in an empty queue.
LEMMA AppendLane ==
  ASSUME NEW S, NEW q \in Seq(S), NEW d \in S
  PROVE  /\ \A e : InLane(e, Append(q, d)) <=> InLane(e, q) \/ e = d
         /\ Distinct(q) /\ ~InLane(d, q) => Distinct(Append(q, d))
         /\ \A e : InLane(e, q) => Head(Append(q, d)) = Head(q)
<1> DEFINE a == Append(q, d)
<1>1. /\ a \in Seq(S) /\ a # <<>> /\ Len(q) \in Nat /\ Len(a) = Len(q) + 1
      /\ \A i \in 1 .. Len(q) : a[i] = q[i]
      /\ a[Len(q) + 1] = d
  BY AppendProperties, LenProperties
<1> HIDE DEF a
<1>2. ASSUME NEW e  PROVE InLane(e, a) <=> InLane(e, q) \/ e = d
  BY <1>1 DEF InLane
<1>3. ASSUME Distinct(q), ~InLane(d, q)  PROVE Distinct(a)
  BY <1>1, <1>3 DEF InLane, Distinct
<1>4. ASSUME NEW e, InLane(e, q)  PROVE Head(a) = Head(q)
  <2>1. Len(q) >= 1
    BY <1>1, <1>4 DEF InLane
  <2>2. Head(a) = a[1] /\ Head(q) = q[1]
    BY <1>1, <2>1
  <2> QED BY <1>1, <2>1, <2>2
<1> QED BY <1>2, <1>3, <1>4 DEF a

\* The first one leaves; everyone else stays.
LEMMA TailLane ==
  ASSUME NEW S, NEW q \in Seq(S), q # <<>>, Distinct(q)
  PROVE  /\ Tail(q) \in Seq(S)
         /\ \A e : InLane(e, Tail(q)) <=> InLane(e, q) /\ e # Head(q)
         /\ Distinct(Tail(q))
<1> DEFINE t == Tail(q)
<1>1. /\ t \in Seq(S) /\ Len(q) \in Nat \ {0} /\ Len(t) = Len(q) - 1 /\ Head(q) = q[1]
      /\ \A i \in 1 .. Len(t) : t[i] = q[i + 1]
  BY HeadTailProperties, EmptySeq
<1> HIDE DEF t
<1>2. ASSUME NEW e, InLane(e, t)  PROVE InLane(e, q) /\ e # q[1]
  <2>1. PICK i \in 1 .. Len(t) : t[i] = e
    BY <1>2 DEF InLane
  <2>2. i + 1 \in 1 .. Len(q) /\ q[i + 1] = e /\ 1 \in 1 .. Len(q) /\ i + 1 # 1
    BY <1>1, <2>1
  <2> QED BY <2>2 DEF InLane, Distinct
<1>3. ASSUME NEW e, InLane(e, q), e # q[1]  PROVE InLane(e, t)
  <2>1. PICK i \in 1 .. Len(q) : q[i] = e
    BY <1>3 DEF InLane
  <2>2. i - 1 \in 1 .. Len(t) /\ t[i - 1] = q[i - 1 + 1] /\ i - 1 + 1 = i
    BY <1>1, <1>3, <2>1
  <2> QED BY <2>1, <2>2 DEF InLane
<1>4. Distinct(t)
  <2> SUFFICES ASSUME NEW i \in 1 .. Len(t), NEW j \in 1 .. Len(t), t[i] = t[j]  PROVE i = j
    BY DEF Distinct
  <2>1. i + 1 \in 1 .. Len(q) /\ j + 1 \in 1 .. Len(q) /\ q[i + 1] = q[j + 1]
    BY <1>1
  <2>2. i + 1 = j + 1
    BY <2>1 DEF Distinct
  <2> QED BY <1>1, <2>2
<1> QED BY <1>1, <1>2, <1>3, <1>4 DEF t

------------------------------------------------------------------------------
(* Lanes and slots *)

Queued == {d \in Delivery : phase[d] = "queued"}
Waiting == {d \in Delivery : phase[d] = "waiting"}

\* A lane holds the pending runs of its session, each once, and its first is the one that
\* holds a slot or waits for one; whoever waits in line is a waiting run.
Lanes ==
  /\ \A s \in Session : Distinct(threads[s])
  /\ \A s \in Session, d \in Delivery :
       InLane(d, threads[s]) <=> d \in Pending /\ SessionIn(d) = s
  /\ \A d \in Holding \cup Waiting : Head(threads[SessionIn(d)]) = d
Line ==
  /\ Distinct(waiters)
  /\ \A d \in Delivery : InLane(d, waiters) => d \in Waiting
Slots == active = Cardinality(Holding)
Work == tools \subseteq Holding
LaneInv == PhaseTypes /\ PoolTypes /\ Lanes /\ Line /\ Slots /\ Work

\* The pending runs are those that hold a slot, wait for one or wait for their lane.
LEMMA PendingIs ==
  /\ Pending = Holding \cup Queued \cup Waiting
  /\ Pending' = Holding' \cup Queued' \cup Waiting'
BY DEF Pending, Holding, Queued, Waiting

\* The deliveries that hold a worker can be counted.
LEMMA HoldingFinite == IsFiniteSet(Holding) /\ Cardinality(Holding) \in Nat
<1>1. IsFiniteSet(Holding)
  BY FS_Subset, ConstantsAssumption DEF Holding
<1> QED BY <1>1, FS_CardinalityType

\* A process starts with empty lanes.
LEMMA InitLanes == Init => LaneInv
<1> SUFFICES ASSUME Init  PROVE LaneInv
  OBVIOUS
<1>1. PhaseTypes /\ PoolTypes
  BY InitType, Types
<1>2. Holding = {} /\ Waiting = {} /\ Queued = {} /\ Pending = {}
  BY DEF Init, Holding, Waiting, Queued, Pending, HoldingPhases
<1>3. Lanes
  BY <1>2, EmptyLane DEF Init, Lanes
<1>4. Line
  BY EmptyLane DEF Init, Line
<1>5. Slots /\ Work
  BY <1>2, FS_EmptySet DEF Init, Slots, Work
<1> QED BY <1>1, <1>3, <1>4, <1>5 DEF LaneInv

\* A step that leaves the pool alone and takes no run across the line between those that
\* hold a slot, wait for one, wait for their lane, or do none of it.
LEMMA Steady ==
  ASSUME LaneInv, UNCHANGED pool, Holding' = Holding, Waiting' = Waiting, Queued' = Queued,
         PhaseTypes', Work'
  PROVE  LaneInv'
<1>1. Pending' = Pending
  BY PendingIs
<1>2. UNCHANGED <<threads, active, waiters>>
  BY DEF pool
<1>3. PoolTypes'
  BY <1>2 DEF LaneInv, PoolTypes
<1>4. Lanes'
  BY <1>1, <1>2 DEF LaneInv, Lanes, SessionIn
<1>5. Line'
  BY <1>2 DEF LaneInv, Line
<1>6. Slots'
  BY <1>2 DEF LaneInv, Slots
<1> QED BY <1>3, <1>4, <1>5, <1>6 DEF LaneInv

\* Where a run that goes on is counted.
LEMMA Moved ==
  ASSUME PhaseTypes, NEW d \in Delivery, NEW next \in Phase, Goes(d, next)
  PROVE  /\ Holding' = IF next \in HoldingPhases THEN Holding \cup {d} ELSE Holding \ {d}
         /\ Waiting' = IF next = "waiting" THEN Waiting \cup {d} ELSE Waiting \ {d}
         /\ Queued' = IF next = "queued" THEN Queued \cup {d} ELSE Queued \ {d}
<1>1. \A e \in Delivery : phase'[e] = IF e = d THEN next ELSE phase[e]
  BY DEF PhaseTypes, Goes
<1> QED BY <1>1 DEF Holding, Waiting, Queued

\* The same for a run that keeps its slot, or that has none and gets none.
LEMMA Stays ==
  ASSUME PhaseTypes, NEW d \in Delivery, NEW next \in Phase, Goes(d, next),
         \/ phase[d] \in HoldingPhases /\ next \in HoldingPhases
         \/ {phase[d], next} \subseteq {"new", "replying", "done"}
  PROVE  Holding' = Holding /\ Waiting' = Waiting /\ Queued' = Queued
<1>1. phase[d] \notin {"queued", "waiting"}
  BY DEF HoldingPhases
<1>2. next \notin {"queued", "waiting"}
  BY DEF HoldingPhases
<1>3. d \in Holding <=> next \in HoldingPhases
  BY DEF Holding, HoldingPhases
<1>4. d \notin Waiting /\ d \notin Queued
  BY <1>1 DEF Waiting, Queued
<1> QED BY Moved, <1>2, <1>3, <1>4

\* Admission appends to the lane of the thread and takes a worker or waits.
LEMMA AdmitLanes ==
  ASSUME LaneInv, NEW d \in Delivery, Admit(d)
  PROVE  LaneInv'
<1> DEFINE s == SessionIn(d)
<1>1. /\ phase[d] = "new" /\ Goes(d, "queued") /\ UNCHANGED <<active, waiters, tools>>
      /\ threads' = [threads EXCEPT ![s] = Append(@, d)]
  BY DEF Admit
<1>2. PhaseTypes /\ PoolTypes /\ Lanes /\ Line /\ Slots /\ Work /\ s \in Session
  BY Owners DEF LaneInv
<1> HIDE DEF s
<1>3. "queued" \in Phase /\ "queued" \notin HoldingPhases
  BY DEF Phase, HoldingPhases
<1>4. PhaseTypes'
  BY <1>1, <1>2, <1>3 DEF Goes, PhaseTypes
<1>5. d \notin Pending
  BY <1>1 DEF Pending, HoldingPhases
<1>6. Holding' = Holding /\ Waiting' = Waiting /\ Pending' = Pending \cup {d}
  <2>1. Holding' = Holding \ {d} /\ Waiting' = Waiting \ {d} /\ Queued' = Queued \cup {d}
    BY <1>1, <1>2, <1>3, Moved
  <2>2. d \notin Holding /\ d \notin Waiting /\ d \notin Queued
    BY <1>5, PendingIs
  <2> QED BY <2>1, <2>2, PendingIs
<1>7. threads[s] \in Seq(Delivery)
  BY <1>2 DEF PoolTypes
<1>8. /\ \A e : InLane(e, Append(threads[s], d)) <=> InLane(e, threads[s]) \/ e = d
      /\ Distinct(threads[s]) /\ ~InLane(d, threads[s]) => Distinct(Append(threads[s], d))
      /\ \A e : InLane(e, threads[s]) => Head(Append(threads[s], d)) = Head(threads[s])
  BY <1>7, AppendLane
<1>9. threads'[s] = Append(threads[s], d) /\ \A z \in Session \ {s} : threads'[z] = threads[z]
  BY <1>1, <1>2, Zenon DEF PoolTypes
<1>10. PoolTypes'
  <2>1. Append(threads[s], d) \in Seq(Delivery)
    BY <1>7, AppendProperties
  <2> QED BY <1>1, <1>2, <2>1, Zenon DEF PoolTypes
<1>11. Lanes'
  <2>1. ASSUME NEW z \in Session  PROVE Distinct(threads'[z])
    BY <1>2, <1>5, <1>8, <1>9 DEF Lanes
  <2>2. ASSUME NEW z \in Session, NEW e \in Delivery
        PROVE  InLane(e, threads'[z]) <=> e \in Pending' /\ SessionIn(e) = z
    <3>1. InLane(e, threads[z]) <=> e \in Pending /\ SessionIn(e) = z
      BY <1>2 DEF Lanes
    <3>2. CASE z = s
      BY <1>6, <1>8, <1>9, <3>1, <3>2 DEF s
    <3>3. CASE z # s
      BY <1>6, <1>9, <3>1, <3>3 DEF s
    <3> QED BY <3>2, <3>3
  <2>3. ASSUME NEW e \in (Holding \cup Waiting)'  PROVE Head(threads'[SessionIn(e)]) = e
    <3>1. e \in Delivery /\ e \in Holding \cup Waiting /\ e \in Pending /\ SessionIn(e) \in Session
      BY <1>6, PendingIs, Owners DEF Holding, Waiting
    <3>2. Head(threads[SessionIn(e)]) = e /\ InLane(e, threads[SessionIn(e)])
      BY <1>2, <3>1 DEF Lanes
    <3> QED BY <1>8, <1>9, <3>1, <3>2
  <2> QED BY <2>1, <2>2, <2>3 DEF Lanes, SessionIn
<1>12. Line' /\ Slots' /\ Work'
  BY <1>1, <1>2, <1>6 DEF Line, Slots, Work
<1> QED BY <1>4, <1>10, <1>11, <1>12 DEF LaneInv

\* Taking the turn moves only the head of the lane.
LEMMA TakeTurnLanes ==
  ASSUME LaneInv, NEW d \in Delivery, TakeTurn(d)
  PROVE  LaneInv'
<1>1. phase[d] = "queued" /\ Head(threads[SessionIn(d)]) = d /\ UNCHANGED <<threads, tools>>
  BY DEF TakeTurn
<1>2. PhaseTypes /\ PoolTypes /\ Lanes /\ Line /\ Slots /\ Work
  BY DEF LaneInv
<1>3. d \in Queued /\ d \notin Holding /\ d \notin Waiting
  BY <1>1 DEF Queued, Holding, Waiting, HoldingPhases
<1>4. CASE active < ActiveRuns /\ active' = active + 1 /\ Goes(d, "claiming") /\ UNCHANGED waiters
  <2>1. "claiming" \in Phase /\ "claiming" \in HoldingPhases
    BY DEF Phase, HoldingPhases
  <2>2. PhaseTypes'
    BY <1>2, <1>4, <2>1 DEF Goes, PhaseTypes
  <2>3. Holding' = Holding \cup {d} /\ Waiting' = Waiting /\ Queued' = Queued \ {d}
    BY <1>2, <1>3, <1>4, <2>1, Moved
  <2>4. Pending' = Pending
    BY <1>3, <2>3, PendingIs
  <2>5. PoolTypes'
    BY <1>1, <1>2, <1>4, ConstantsAssumption DEF PoolTypes
  <2>6. Lanes'
    BY <1>1, <1>2, <2>3, <2>4 DEF Lanes, SessionIn
  <2>7. Line' /\ Work'
    BY <1>1, <1>2, <1>4, <2>3 DEF Line, Work
  <2>8. Slots'
    BY <1>2, <1>3, <1>4, <2>3, HoldingFinite, FS_AddElement DEF Slots
  <2> QED BY <2>2, <2>5, <2>6, <2>7, <2>8 DEF LaneInv
<1>5. CASE waiters' = Append(waiters, d) /\ Goes(d, "waiting") /\ UNCHANGED active
  <2>1. "waiting" \in Phase /\ "waiting" \notin HoldingPhases
    BY DEF Phase, HoldingPhases
  <2>2. PhaseTypes'
    BY <1>2, <1>5, <2>1 DEF Goes, PhaseTypes
  <2>3. Holding' = Holding /\ Waiting' = Waiting \cup {d} /\ Queued' = Queued \ {d}
    <3>1. Holding' = Holding \ {d} /\ Waiting' = Waiting \cup {d} /\ Queued' = Queued \ {d}
      BY <1>2, <1>5, <2>1, Moved
    <3> QED BY <1>3, <3>1
  <2>4. Pending' = Pending
    BY <1>3, <2>3, PendingIs
  <2>5. waiters \in Seq(Delivery) /\ ~InLane(d, waiters)
    BY <1>2, <1>3 DEF PoolTypes, Line
  <2>6. PoolTypes'
    <3>1. Append(waiters, d) \in Seq(Delivery)
      BY <2>5, AppendProperties
    <3> QED BY <1>1, <1>2, <1>5, <3>1, Zenon DEF PoolTypes
  <2>7. Lanes'
    BY <1>1, <1>2, <2>3, <2>4 DEF Lanes, SessionIn
  <2>8. Line'
    <3>1. Distinct(Append(waiters, d)) /\ \A e : InLane(e, Append(waiters, d)) => InLane(e, waiters) \/ e = d
      BY <1>2, <2>5, AppendLane DEF Line
    <3> QED BY <1>2, <1>5, <2>3, <3>1 DEF Line
  <2>9. Slots' /\ Work'
    BY <1>1, <1>2, <1>5, <2>3 DEF Slots, Work
  <2> QED BY <2>2, <2>6, <2>7, <2>8, <2>9 DEF LaneInv
<1> QED BY <1>4, <1>5 DEF TakeTurn

\* The lane passes to the next run, and the slot to the first in line or back to the pool.
LEMMA CloseLanes ==
  ASSUME LaneInv, NEW d \in Delivery, Close(d)
  PROVE  LaneInv'
<1> DEFINE s == SessionIn(d)
<1>1. /\ phase[d] = "closing" /\ d \notin tools /\ UNCHANGED tools
      /\ threads' = [threads EXCEPT ![s] = Tail(@)]
  BY DEF Close, Drained
<1>2. PhaseTypes /\ PoolTypes /\ Lanes /\ Line /\ Slots /\ Work /\ s \in Session
  BY Owners DEF LaneInv
<1>3. PICK next \in {"replying", "done"} : Released(d, next)
  BY DEF Close
<1> HIDE DEF s
<1>4. d \in Holding /\ d \in Pending /\ d \notin Queued /\ d \notin Waiting
  BY <1>1 DEF Holding, Pending, Queued, Waiting, HoldingPhases
<1>5. next \in Phase /\ next \notin HoldingPhases \cup {"queued", "waiting"}
      /\ "claiming" \in Phase /\ "claiming" \in HoldingPhases
  BY DEF Phase, HoldingPhases
<1>6. threads[s] \in Seq(Delivery) /\ Distinct(threads[s]) /\ Head(threads[s]) = d
      /\ threads[s] # <<>>
  <2>1. Head(threads[s]) = d /\ InLane(d, threads[s])
    BY <1>2, <1>4 DEF Lanes, s
  <2>2. threads[s] \in Seq(Delivery) /\ Distinct(threads[s])
    BY <1>2 DEF PoolTypes, Lanes
  <2> QED BY <2>1, <2>2, HeadOfLane
<1>7. /\ Tail(threads[s]) \in Seq(Delivery)
      /\ \A e : InLane(e, Tail(threads[s])) <=> InLane(e, threads[s]) /\ e # d
      /\ Distinct(Tail(threads[s]))
  BY <1>6, TailLane
<1>8. threads'[s] = Tail(threads[s]) /\ \A z \in Session \ {s} : threads'[z] = threads[z]
  BY <1>1, <1>2, Zenon DEF PoolTypes
<1>9. threads' \in [Session -> Seq(Delivery)]
  BY <1>1, <1>2, <1>7, Zenon DEF PoolTypes
<1>10. ASSUME Holding' \cup Waiting' = (Holding \cup Waiting) \ {d}, Queued' = Queued
       PROVE  Lanes'
  <2>1. Pending' = Pending \ {d}
    BY <1>4, <1>10, PendingIs
  <2>2. ASSUME NEW z \in Session  PROVE Distinct(threads'[z])
    BY <1>2, <1>7, <1>8 DEF Lanes
  <2>3. ASSUME NEW z \in Session, NEW e \in Delivery
        PROVE  InLane(e, threads'[z]) <=> e \in Pending' /\ SessionIn(e) = z
    <3>1. InLane(e, threads[z]) <=> e \in Pending /\ SessionIn(e) = z
      BY <1>2 DEF Lanes
    <3>2. CASE z = s
      BY <1>7, <1>8, <2>1, <3>1, <3>2 DEF s
    <3>3. CASE z # s
      BY <1>8, <2>1, <3>1, <3>3 DEF s
    <3> QED BY <3>2, <3>3
  <2>4. ASSUME NEW e \in (Holding \cup Waiting)'  PROVE Head(threads'[SessionIn(e)]) = e
    <3>1. e \in Holding \cup Waiting /\ e # d /\ SessionIn(e) \in Session
      BY <1>10, Owners DEF Holding, Waiting
    <3>2. Head(threads[SessionIn(e)]) = e
      BY <1>2, <3>1 DEF Lanes
    <3>3. SessionIn(e) # s
      BY <1>6, <3>1, <3>2
    <3> QED BY <1>8, <3>1, <3>2, <3>3
  <2> QED BY <2>2, <2>3, <2>4 DEF Lanes, SessionIn
<1>11. CASE waiters = <<>>
  <2>1. active' = active - 1 /\ UNCHANGED waiters /\ Goes(d, next)
    BY <1>3, <1>11 DEF Released
  <2>2. PhaseTypes'
    BY <1>2, <1>5, <2>1 DEF PhaseTypes, Goes
  <2>3. Holding' = Holding \ {d} /\ Waiting' = Waiting \ {d} /\ Queued' = Queued \ {d}
    BY <1>2, <1>5, <2>1, Moved
  <2>4. Lanes'
    BY <1>4, <1>10, <2>3
  <2>5. Line' /\ Work'
    BY <1>1, <1>2, <1>4, <2>1, <2>3 DEF Line, Work
  <2>6. Cardinality(Holding \ {d}) = Cardinality(Holding) - 1
    BY <1>4, HoldingFinite, FS_RemoveElement
  <2>7. Slots'
    BY <1>2, <2>1, <2>3, <2>6 DEF Slots
  <2>8. active >= 1
    BY <1>2, <1>4, HoldingFinite, FS_EmptySet DEF Slots
  <2>9. PoolTypes'
    BY <1>2, <1>9, <2>1, <2>8, ConstantsAssumption DEF PoolTypes
  <2> QED BY <2>2, <2>4, <2>5, <2>7, <2>9 DEF LaneInv
<1>12. CASE waiters # <<>>
  <2> DEFINE h == Head(waiters)
  <2>1. /\ waiters' = Tail(waiters) /\ UNCHANGED active
        /\ phase' = [phase EXCEPT ![d] = next, ![h] = "claiming"]
    BY <1>3, <1>12 DEF Released
  <2>2. waiters \in Seq(Delivery) /\ Distinct(waiters)
    BY <1>2 DEF PoolTypes, Line
  <2>3. h \in Waiting
    <3>1. h \in Delivery /\ h = waiters[1] /\ 1 \in 1 .. Len(waiters)
      BY <1>12, <2>2, HeadTailProperties, EmptySeq
    <3>2. InLane(h, waiters)
      BY <3>1 DEF InLane
    <3> QED BY <1>2, <3>1, <3>2 DEF Line
  <2>4. /\ Tail(waiters) \in Seq(Delivery) /\ Distinct(Tail(waiters))
        /\ \A e : InLane(e, Tail(waiters)) <=> InLane(e, waiters) /\ e # h
    BY <1>12, <2>2, TailLane
  <2> HIDE DEF h
  <2>5. h \in Delivery /\ phase[h] = "waiting" /\ h # d /\ h \notin Holding /\ h \notin Queued
    BY <1>4, <2>3 DEF Waiting, Holding, Queued, HoldingPhases
  <2>6. \A e \in Delivery : phase'[e] = IF e = h THEN "claiming" ELSE IF e = d THEN next ELSE phase[e]
    BY <1>2, <2>1, <2>5 DEF PhaseTypes
  <2>7. PhaseTypes'
    BY <1>2, <1>5, <2>1 DEF PhaseTypes
  <2>8. Holding' = (Holding \ {d}) \cup {h}
    BY <1>5, <2>5, <2>6 DEF Holding
  <2>9. Waiting' = Waiting \ {h}
    BY <1>4, <1>5, <2>5, <2>6 DEF Waiting
  <2>10. Queued' = Queued
    BY <1>4, <1>5, <2>5, <2>6 DEF Queued
  <2>11. Holding' \cup Waiting' = (Holding \cup Waiting) \ {d}
    BY <1>4, <2>3, <2>5, <2>8, <2>9
  <2>12. Lanes'
    BY <1>10, <2>10, <2>11
  <2>13. Line'
    BY <1>2, <2>1, <2>4, <2>9 DEF Line
  <2>14. Work'
    BY <1>1, <1>2, <2>8 DEF Work
  <2>15. Cardinality((Holding \ {d}) \cup {h}) = Cardinality(Holding)
    <3>1. /\ Cardinality(Holding \ {d}) = Cardinality(Holding) - 1
          /\ IsFiniteSet(Holding \ {d})
      BY <1>4, HoldingFinite, FS_RemoveElement
    <3>2. Cardinality((Holding \ {d}) \cup {h}) = Cardinality(Holding \ {d}) + 1
      BY <2>5, <3>1, FS_AddElement
    <3> QED BY <3>1, <3>2, HoldingFinite
  <2>16. Slots'
    BY <1>2, <2>1, <2>8, <2>15 DEF Slots
  <2>17. PoolTypes'
    BY <1>2, <1>9, <2>1, <2>4 DEF PoolTypes
  <2> QED BY <2>7, <2>12, <2>13, <2>14, <2>16, <2>17 DEF LaneInv
<1> QED BY <1>11, <1>12

\* A crash leaves no lane and no worker behind.
LEMMA CrashLanes == PhaseTypes /\ Crash => LaneInv'
<1> SUFFICES ASSUME PhaseTypes, Crash  PROVE LaneInv'
  OBVIOUS
<1>1. \A d \in Delivery : phase'[d] \in {"new", "done"}
  BY DEF Crash
<1>2. PhaseTypes'
  BY DEF Crash, PhaseTypes, Phase
<1>3. Holding' = {} /\ Waiting' = {} /\ Queued' = {}
  BY <1>1 DEF Holding, Waiting, Queued, HoldingPhases
<1>4. Pending' = {}
  BY <1>3, PendingIs
<1>5. PoolTypes'
  BY EmptySeq, ConstantsAssumption DEF Crash, PoolTypes
<1>6. Lanes'
  BY <1>3, <1>4, EmptyLane DEF Crash, Lanes
<1>7. Line' /\ Slots' /\ Work'
  BY <1>3, EmptyLane, FS_EmptySet DEF Crash, Line, Slots, Work
<1> QED BY <1>2, <1>5, <1>6, <1>7 DEF LaneInv

\* A run that holds a slot goes on holding it until it closes.
LEMMA RunHolds ==
  ASSUME NEW d \in Delivery, RunStep(d), ~TakeTurn(d), ~Close(d), ~Reply(d)
  PROVE  /\ UNCHANGED <<pool, tools>> /\ phase[d] \in HoldingPhases
         /\ \E next \in HoldingPhases : Goes(d, next)
<1> USE DEF HoldingPhases
<1>1. CASE Claim(d) \/ ClaimConflicts(d) \/ ClaimFails(d) \/ StageFails(d)
  BY <1>1 DEF Claim, ClaimConflicts, ClaimFails, StageFails
<1>2. CASE Persisted(d) \/ PersistFails(d) \/ Deliver(d) \/ RecordFailure(d)
  BY <1>2 DEF Persisted, PersistFails, Deliver, RecordFailure
<1>3. CASE Posted(d) \/ ReadHistory(d) \/ Generated(d) \/ Commit(d)
  <2>1. /\ UNCHANGED <<pool, tools>> /\ phase[d] \in HoldingPhases
        /\ \E next \in HoldingPhases : Proceed(d, next)
    BY <1>3 DEF Posted, ReadHistory, Generated, Commit
  <2> QED BY <2>1, Checkpoint
<1> QED BY <1>1, <1>2, <1>3 DEF RunStep

\* Every action keeps lanes and phases in step.
LEMMA LanesKept == LaneInv /\ [Next]_vars => LaneInv'
<1> SUFFICES ASSUME LaneInv, [Next]_vars  PROVE LaneInv'
  OBVIOUS
<1>1. PhaseTypes /\ PhaseTypes' /\ Work
  BY PhaseTypesKept DEF LaneInv
<1>2. HoldingPhases \subseteq Phase /\ {"new", "replying", "done"} \subseteq Phase
  BY DEF Phase
<1>3. ASSUME NEW d \in Delivery, RunStep(d), ~TakeTurn(d), ~Close(d), ~Reply(d)
      PROVE  LaneInv'
  <2>1. PICK next \in HoldingPhases : Goes(d, next)
    BY <1>3, RunHolds
  <2>2. UNCHANGED <<pool, tools>> /\ phase[d] \in HoldingPhases
    BY <1>3, RunHolds
  <2>3. Holding' = Holding /\ Waiting' = Waiting /\ Queued' = Queued
    BY <1>1, <1>2, <2>1, <2>2, Stays
  <2>4. Work'
    BY <1>1, <2>2, <2>3 DEF Work
  <2> QED BY <1>1, <2>2, <2>3, <2>4, Steady
<1>4. ASSUME NEW d \in Delivery, Share(d) \/ Reject(d) \/ Reply(d)  PROVE LaneInv'
  <2>1. /\ UNCHANGED <<pool, tools>> /\ phase[d] \in {"new", "replying"}
        /\ \E next \in {"new", "replying", "done"} : Goes(d, next)
    BY <1>4 DEF Share, Reject, Reply
  <2>2. Holding' = Holding /\ Waiting' = Waiting /\ Queued' = Queued
    BY <1>1, <1>2, <2>1, Stays
  <2>3. Work'
    BY <1>1, <2>1, <2>2 DEF Work
  <2> QED BY <1>1, <2>1, <2>2, <2>3, Steady
<1>5. ASSUME UNCHANGED <<phase, pool>>, tools' \subseteq Holding  PROVE LaneInv'
  <2>1. Holding' = Holding /\ Waiting' = Waiting /\ Queued' = Queued
    BY <1>5 DEF Holding, Waiting, Queued
  <2>2. Work'
    BY <1>5, <2>1 DEF Work
  <2> QED BY <1>1, <1>5, <2>1, <2>2, Steady
<1>6. ASSUME NEW d \in Delivery, CallTool(d) \/ ToolSettles(d) \/ TimeOut(d) \/ Cancel(d)
      PROVE  LaneInv'
  <2>1. UNCHANGED <<phase, pool>>
    BY <1>6 DEF CallTool, ToolSettles, TimeOut, Cancel
  <2>2. CASE CallTool(d)
    <3>1. d \in Holding /\ tools' = tools \cup {d}
      BY <2>2 DEF CallTool, Holding, HoldingPhases
    <3> QED BY <1>1, <1>5, <2>1, <3>1 DEF Work
  <2>3. CASE ToolSettles(d) \/ TimeOut(d) \/ Cancel(d)
    <3>1. tools' \subseteq tools
      BY <2>3 DEF ToolSettles, TimeOut, Cancel
    <3> QED BY <1>1, <1>5, <2>1, <3>1 DEF Work
  <2> QED BY <1>6, <2>2, <2>3
<1>7. CASE \E s \in Session : Evict(s)
  BY <1>1, <1>5, <1>7 DEF Evict, Work
<1>8. CASE UNCHANGED vars
  BY <1>1, <1>5, <1>8 DEF vars, Work
<1>9. \A d \in Delivery : Admit(d) \/ TakeTurn(d) \/ Close(d) => LaneInv'
  BY AdmitLanes, TakeTurnLanes, CloseLanes
<1>10. CASE Crash
  BY <1>1, <1>10, CrashLanes
<1> QED BY <1>3, <1>4, <1>6, <1>7, <1>8, <1>9, <1>10, Zenon DEF Next

------------------------------------------------------------------------------
(* The theorems on types, lanes and slots *)

IInv == LedgerTypes /\ CacheTypes /\ HistoryTypes /\ FlagTypes /\ LaneInv /\ crashes \in 0 .. MaxCrashes

\* Every action keeps the inductive invariant of the runtime.
LEMMA IInvKept == IInv /\ [Next]_vars => IInv'
<1> SUFFICES ASSUME IInv, [Next]_vars  PROVE IInv'
  OBVIOUS
<1>1. LedgerTypes' /\ CacheTypes' /\ HistoryTypes' /\ FlagTypes' /\ LaneInv'
  BY LedgerTypesKept, CacheTypesKept, HistoryTypesKept, FlagTypesKept, LanesKept DEF IInv
<1>2. crashes \in 0 .. MaxCrashes /\ MaxCrashes \in Nat
  BY ConstantsAssumption DEF IInv
<1>3. UNCHANGED crashes \/ (crashes < MaxCrashes /\ crashes' = crashes + 1)
  BY Zenon DEF Next, RunStep, vars, ends, Share, Reject, Admit, TakeTurn, Claim, ClaimConflicts,
     ClaimFails, Posted, ReadHistory, CallTool, ToolSettles, Generated, Commit, StageFails,
     Persisted, PersistFails, Deliver, RecordFailure, Close, Reply, TimeOut, Cancel, Evict, Crash
<1>4. crashes' \in 0 .. MaxCrashes
  BY <1>2, <1>3
<1> QED BY <1>1, <1>4 DEF IInv

\* The inductive invariant of the runtime holds throughout.
LEMMA Invariant == Spec => []IInv
<1>1. Init => IInv
  BY InitType, InitLanes, Types DEF IInv
<1>2. IInv /\ [Next]_vars => IInv'
  BY IInvKept
<1> QED BY <1>1, <1>2, PTL DEF Spec

\* The variables of the runtime keep their types, and never more than ActiveRuns slots are in use.
THEOREM TypeCorrect == Spec => []TypeOK
<1>1. IInv => TypeOK
  <2>1. Holding \subseteq Delivery
    BY DEF Holding
  <2> QED BY <2>1, Types DEF IInv, LaneInv, Work
<1> QED BY <1>1, Invariant, PTL

\* Slots and lanes (conversation-runtime.ts): as many slots are in use as runs hold one, each
\* of these is first in its thread, and tool work that has not settled belongs to one of them.
THEOREM LanesAreHeld == Spec => []LanesHeld
<1>1. IInv => LanesHeld
  BY DEF IInv, LaneInv, Lanes, Slots, Work, LanesHeld
<1> QED BY <1>1, Invariant, PTL

------------------------------------------------------------------------------
(* A request runs once *)

\* The event of a run that has claimed its request is in the ledger.
Claimed == \A d \in ran : ledger[RequestOf[d]] # "none"

\* Only a claim makes a run, of a request the ledger does not know.
LEMMA RanFrame ==
  ASSUME [Next]_vars
  PROVE  UNCHANGED ran \/ \E d \in Delivery : Claim(d)
BY Zenon DEF Next, RunStep, vars, Share, Reject, Admit, TakeTurn, ClaimConflicts, ClaimFails, Posted,
   ReadHistory, CallTool, ToolSettles, Generated, Commit, StageFails, Persisted, PersistFails,
   Deliver, RecordFailure, Close, Reply, TimeOut, Cancel, Evict, Crash

\* The statements that write an event leave its row in the ledger, and touch no other.
LEMMA LedgerOnward ==
  ASSUME LedgerTypes, [Next]_vars, NEW r \in Request, ledger[r] # "none"
  PROVE  ledger'[r] # "none"
<1>1. ASSUME NEW d \in Delivery, NEW w \in {"processing", "completed", "failed"},
             ledger' = [ledger EXCEPT ![RequestOf[d]] = w]
      PROVE  ledger'[r] # "none"
  BY <1>1 DEF LedgerTypes
<1>2. ASSUME NEW d \in Delivery,
             Claim(d) \/ ClaimFails(d) \/ Persisted(d) \/ PersistFails(d) \/ RecordFailure(d)
      PROVE  ledger'[r] # "none"
  <2>1. \/ UNCHANGED ledger
        \/ \E w \in {"processing", "completed", "failed"} : ledger' = [ledger EXCEPT ![RequestOf[d]] = w]
    BY <1>2 DEF Claim, ClaimFails, Persisted, PersistFails, RecordFailure, Complete, durable
  <2> QED BY <1>1, <2>1
<1> QED BY <1>2, LedgerFrame DEF durable

\* A delivery runs only by a claim, and no request is claimed twice.
LEMMA ClaimedKept ==
  ASSUME LedgerTypes, FlagTypes, [Next]_vars, Claimed, AtMostOnce
  PROVE  Claimed' /\ AtMostOnce'
<1>1. \A d \in ran : RequestOf[d] \in Request
  BY Owners DEF FlagTypes
<1>2. \A d \in ran : ledger'[RequestOf[d]] # "none"
  BY <1>1, LedgerOnward DEF Claimed
<1>3. CASE UNCHANGED ran
  BY <1>2, <1>3 DEF Claimed, AtMostOnce
<1>4. ASSUME NEW d \in Delivery, Claim(d)  PROVE Claimed' /\ AtMostOnce'
  <2>1. ran' = ran \cup {d} /\ ledger[RequestOf[d]] = "none"
    BY <1>4 DEF Claim, Claimable
  <2>2. ledger'[RequestOf[d]] = "processing"
    BY <1>4, Owners DEF Claim, LedgerTypes
  <2>3. \A c \in ran : RequestOf[c] # RequestOf[d]
    BY <2>1 DEF Claimed
  <2> QED BY <1>2, <2>1, <2>2, <2>3 DEF Claimed, AtMostOnce
<1> QED BY <1>3, <1>4, RanFrame

------------------------------------------------------------------------------
(* What becomes of a delivery *)

\* Where a delivery stands: how far it has got decides what may have become of it.
Standing(d) ==
  /\ phase[d] \in {"new", "queued", "waiting", "claiming"} => d \notin ran \cup erred \cup replied
  /\ d \in cancelled \cup expired => d \in ran
  /\ d \in notified => d \in cancelled \cup expired
  /\ d \in committed =>
       /\ phase[d] \in {"delivering", "closing", "done"}
       /\ d \in ran /\ d \notin erred \cup notified \cup replied \cup cancelled
  /\ d \in erred => phase[d] \in {"failing", "closing", "replying", "done"}
  /\ phase[d] \in {"starting", "reading", "executing", "draining", "persisting"} => d \in ran
  /\ phase[d] = "persisting" => d \notin notified \cup cancelled
  /\ phase[d] = "failing" => d \in erred
  /\ phase[d] = "delivering" => d \in committed
  /\ phase[d] = "closing" /\ d \in ran => d \in erred \cup committed
  /\ phase[d] = "replying" => d \in erred /\ d \notin notified
  /\ d \in replied => phase[d] = "done" /\ d \notin notified
  /\ phase[d] = "done" /\ d \in ran \cup erred =>
       d \in lost \cup committed \cup notified \cup replied \cup unheard

\* A step that does not touch a delivery.
Untouched(d) ==
  /\ phase'[d] = phase[d]
  /\ d \in ran' <=> d \in ran
  /\ d \in cancelled' <=> d \in cancelled
  /\ d \in expired' <=> d \in expired
  /\ d \in committed' <=> d \in committed
  /\ d \in erred' <=> d \in erred
  /\ d \in notified' <=> d \in notified
  /\ d \in replied' <=> d \in replied
  /\ d \in unheard' <=> d \in unheard
  /\ d \in lost' <=> d \in lost

\* A delivery the step does not touch stands as it stood.
LEMMA UntouchedStands == \A d : Standing(d) /\ Untouched(d) => Standing(d)'
BY DEF Standing, Untouched

\* A checkpoint, as far as the delivery goes.
LEMMA CheckpointStands ==
  ASSUME NEW d, NEW next, Proceed(d, next)
  PROVE  \/ d \in cancelled \cup expired /\ Goes(d, "failing") /\ erred' = erred \cup {d}
         \/ d \notin cancelled \cup expired /\ Goes(d, next) /\ erred' = erred
BY Checkpoint DEF Throws, Stopped

\* The steps of one run, and what others do to it.
LEMMA ActorStands ==
  ASSUME PhaseTypes, FlagTypes, NEW d \in Delivery, Standing(d),
         \/ Share(d) \/ Reject(d) \/ Admit(d) \/ CallTool(d) \/ ToolSettles(d)
         \/ TimeOut(d) \/ Cancel(d) \/ (RunStep(d) /\ ~Close(d))
  PROVE  Standing(d)' /\ \A e \in Delivery \ {d} : Untouched(e)
<1> USE DEF PhaseTypes, Goes, stops, notices, ends, Untouched
<1>1. CASE Share(d) \/ Reject(d) \/ Admit(d) \/ TakeTurn(d) \/ ClaimConflicts(d)
  BY <1>1 DEF Share, Reject, Admit, TakeTurn, ClaimConflicts, Standing
<1>2. CASE Claim(d)
  BY <1>2 DEF Claim, Throws, Standing
<1>3. CASE ClaimFails(d) \/ StageFails(d) \/ PersistFails(d)
  BY <1>3 DEF ClaimFails, StageFails, PersistFails, Throws, Standing
<1>4. CASE Posted(d)
  <2>1. PICK next \in {"executing", "reading"} : Proceed(d, next)
    BY <1>4 DEF Posted
  <2>2. /\ phase[d] = "starting" /\ UNCHANGED <<ran, stops, committed, replied, ends>>
        /\ IF d \in Stopped THEN Notify(d) ELSE UNCHANGED <<notified, unheard>>
    BY <1>4 DEF Posted
  <2> QED BY <2>1, <2>2, CheckpointStands DEF Notify, Standing, Stopped
<1>5. CASE ReadHistory(d) \/ Generated(d)
  <2>1. PICK next \in {"executing", "draining"} : Proceed(d, next)
    BY <1>5 DEF ReadHistory, Generated
  <2>2. phase[d] \in {"reading", "executing"} /\ UNCHANGED <<ran, stops, committed, notices, ends>>
    BY <1>5 DEF ReadHistory, Generated
  <2> QED BY <2>1, <2>2, CheckpointStands DEF Standing
<1>6. CASE Commit(d)
  <2>1. /\ Proceed(d, "persisting") /\ phase[d] = "draining"
        /\ UNCHANGED <<ran, stops, committed, notices, ends>>
    BY <1>6 DEF Commit
  <2>2. \/ d \in cancelled \cup expired /\ Goes(d, "failing") /\ erred' = erred \cup {d}
        \/ d \notin cancelled \cup expired /\ Goes(d, "persisting") /\ erred' = erred
    BY <2>1, CheckpointStands
  <2>3. CASE d \in cancelled \cup expired
    BY <2>1, <2>2, <2>3 DEF Standing
  <2>4. CASE d \notin cancelled \cup expired
    BY <2>1, <2>2, <2>4 DEF Standing
  <2> QED BY <2>3, <2>4
<1>7. CASE Persisted(d) \/ Deliver(d) \/ RecordFailure(d) \/ Reply(d)
  BY <1>7 DEF Persisted, Deliver, RecordFailure, Reply, Standing
<1>8. CASE CallTool(d) \/ ToolSettles(d)
  BY <1>8 DEF CallTool, ToolSettles, Standing
<1>9. CASE TimeOut(d) \/ Cancel(d)
  BY <1>9 DEF TimeOut, Cancel, Tell, Notify, Stoppable, Stopped, Holding, HoldingPhases, Standing
<1> QED BY <1>1, <1>2, <1>3, <1>4, <1>5, <1>6, <1>7, <1>8, <1>9 DEF RunStep

\* A run that closes may hand its slot on, and nothing else befalls the one it goes to.
LEMMA CloseStands ==
  ASSUME LaneInv, FlagTypes, NEW d \in Delivery, Close(d), \A e \in Delivery : Standing(e)
  PROVE  \A e \in Delivery : Standing(e)'
<1>1. /\ phase[d] = "closing"
      /\ UNCHANGED <<ran, cancelled, expired, committed, erred, notified, replied, unheard, lost>>
  BY DEF Close, stops, notices, ends
<1>2. PhaseTypes /\ PoolTypes /\ Line
  BY DEF LaneInv
<1>3. PICK next \in {"replying", "done"} :
        Released(d, next) /\ (next = "replying" <=> d \in erred \ notified)
  BY DEF Close, Untold
<1>4. Standing(d)
  OBVIOUS
<1>5. ASSUME phase'[d] = next  PROVE Standing(d)'
  BY <1>1, <1>3, <1>4, <1>5 DEF Standing
<1>6. CASE waiters = <<>>
  <2>1. \A e \in Delivery : phase'[e] = IF e = d THEN next ELSE phase[e]
    BY <1>2, <1>3, <1>6 DEF Released, Goes, PhaseTypes
  <2>2. \A e \in Delivery \ {d} : Untouched(e)
    BY <1>1, <2>1 DEF Untouched
  <2> QED BY <1>5, <2>1, <2>2, UntouchedStands
<1>7. CASE waiters # <<>>
  <2>1. PICK h \in Delivery : h = Head(waiters) /\ h = waiters[1] /\ 1 \in 1 .. Len(waiters)
    BY <1>2, <1>7, HeadTailProperties, EmptySeq DEF PoolTypes
  <2>2. phase' = [phase EXCEPT ![d] = next, ![h] = "claiming"]
    BY <1>3, <1>7, <2>1 DEF Released
  <2>3. phase[h] = "waiting"
    BY <1>2, <2>1 DEF Line, InLane, Waiting
  <2>4. \A e \in Delivery : phase'[e] = IF e = h THEN "claiming" ELSE IF e = d THEN next ELSE phase[e]
    BY <1>2, <2>2 DEF PhaseTypes
  <2>5. Standing(h)'
    <3>1. Standing(h) /\ phase'[h] = "claiming"
      BY <2>4
    <3> QED BY <1>1, <2>3, <3>1 DEF Standing
  <2>6. \A e \in Delivery \ {d, h} : Untouched(e)
    BY <1>1, <2>4 DEF Untouched
  <2>7. phase'[d] = next
    BY <1>1, <2>3, <2>4
  <2> QED BY <1>5, <2>5, <2>6, <2>7, UntouchedStands
<1> QED BY <1>6, <1>7

\* A delivery whose process crashes is lost, and nothing else is told its user.
LEMMA CrashStands ==
  ASSUME Crash, NEW d \in Delivery, Standing(d)
  PROVE  Standing(d)'
<1>1. /\ phase'[d] = IF phase[d] = "new" THEN "new" ELSE "done"
      /\ phase[d] \notin {"new", "done"} => d \in lost'
      /\ d \in lost => d \in lost'
      /\ UNCHANGED <<ran, cancelled, expired, committed, erred, notified, replied, unheard>>
  BY DEF Crash, stops, notices
<1>2. CASE phase[d] = "new"
  BY <1>1, <1>2 DEF Standing
<1>3. CASE phase[d] = "done"
  BY <1>1, <1>3 DEF Standing
<1>4. CASE phase[d] \notin {"new", "done"}
  BY <1>1, <1>4 DEF Standing
<1> QED BY <1>2, <1>3, <1>4

Account == \A d \in Delivery : Standing(d)

\* Every action keeps what a delivery has been told in step with its phase.
LEMMA AccountKept == LaneInv /\ FlagTypes /\ Account /\ [Next]_vars => Account'
<1> SUFFICES ASSUME LaneInv, FlagTypes, Account, [Next]_vars  PROVE Account'
  OBVIOUS
<1>1. PhaseTypes
  BY DEF LaneInv
<1>2. ASSUME NEW d \in Delivery, Close(d)  PROVE Account'
  BY <1>2, CloseStands DEF Account
<1>3. ASSUME NEW d \in Delivery,
             \/ Share(d) \/ Reject(d) \/ Admit(d) \/ CallTool(d) \/ ToolSettles(d)
             \/ TimeOut(d) \/ Cancel(d) \/ (RunStep(d) /\ ~Close(d))
      PROVE  Account'
  <2>1. Standing(d)' /\ \A e \in Delivery \ {d} : Untouched(e)
    BY <1>1, <1>3, ActorStands DEF Account
  <2> QED BY <2>1, UntouchedStands DEF Account
<1>4. CASE Crash
  BY <1>4, CrashStands DEF Account
<1>5. CASE UNCHANGED vars \/ \E s \in Session : Evict(s)
  <2>1. UNCHANGED <<phase, ran, cancelled, expired, committed, erred, notified, replied, unheard,
                    lost>>
    BY <1>5 DEF vars, Evict, stops, notices, ends
  <2>2. \A d \in Delivery : Untouched(d)
    BY <2>1 DEF Untouched
  <2> QED BY <2>2, UntouchedStands DEF Account
<1> QED BY <1>2, <1>3, <1>4, <1>5, Zenon DEF Next

\* A run whose request is completed is committed, or its COMMIT went unanswered.
Outcomes == \A d \in ran : ledger[RequestOf[d]] = "completed" => d \in committed \/ RequestOf[d] \in unacked

\* Control and notices apart, a run is committed by its own COMMIT.
LEMMA OutcomeFrame ==
  ASSUME [Next]_vars
  PROVE  \/ UNCHANGED <<durable, ran, committed>>
         \/ \E d \in Delivery : Claim(d) \/ ClaimFails(d) \/ Persisted(d) \/ PersistFails(d)
                                \/ RecordFailure(d)
BY Zenon DEF Next, RunStep, vars, Share, Reject, Admit, TakeTurn, ClaimConflicts, Posted, ReadHistory,
      CallTool, ToolSettles, Generated, Commit, StageFails, Deliver, Close, Reply, TimeOut,
      Cancel, Evict, Crash

\* Every action keeps the verdict in the ledger in step with what ran.
LEMMA OutcomesKept ==
  ASSUME LedgerTypes, FlagTypes, Account, AtMostOnce, Outcomes, [Next]_vars
  PROVE  Outcomes'
<1>1. \A d \in ran : RequestOf[d] \in Request
  BY Owners DEF FlagTypes
<1>2. CASE UNCHANGED <<durable, ran, committed>>
  BY <1>2 DEF durable, Outcomes
<1>3. ASSUME NEW d \in Delivery, NEW w \in {"processing", "failed"},
             ledger' = ledger \/ ledger' = [ledger EXCEPT ![RequestOf[d]] = w],
             UNCHANGED <<unacked, committed>>, ran' \subseteq ran \cup {d},
             d \in ran' \ ran => ledger' = [ledger EXCEPT ![RequestOf[d]] = w]
      PROVE  Outcomes'
  <2>1. \A r \in Request : ledger'[r] = "completed" => ledger[r] = "completed"
    BY <1>3, Owners DEF LedgerTypes
  <2>2. d \in ran' \ ran => ledger'[RequestOf[d]] = w
    BY <1>3, Owners DEF LedgerTypes
  <2> QED BY <1>1, <1>3, <2>1, <2>2 DEF Outcomes
<1>4. ASSUME NEW d \in Delivery, Claim(d) \/ ClaimFails(d) \/ RecordFailure(d)  PROVE Outcomes'
  <2>1. CASE Claim(d)
    BY <1>3, <2>1 DEF Claim
  <2>2. CASE ClaimFails(d)
    BY <1>3, <2>2 DEF ClaimFails
  <2>3. CASE RecordFailure(d)
    BY <1>3, <2>3 DEF RecordFailure
  <2> QED BY <1>4, <2>1, <2>2, <2>3
<1>5. ASSUME NEW d \in Delivery, d \in ran, Complete(d), UNCHANGED ran,
             \/ committed' = committed \cup {d} /\ UNCHANGED unacked
             \/ unacked' = unacked \cup {RequestOf[d]} /\ UNCHANGED committed
      PROVE  Outcomes'
  <2>1. \A r \in Request : r # RequestOf[d] => ledger'[r] = ledger[r]
    BY <1>5, Owners DEF Complete, LedgerTypes
  <2>2. \A c \in ran : RequestOf[c] = RequestOf[d] => c = d
    BY <1>5 DEF AtMostOnce
  <2> QED BY <1>1, <1>5, <2>1, <2>2 DEF Outcomes
<1>6. ASSUME NEW d \in Delivery, Persisted(d) \/ PersistFails(d)  PROVE Outcomes'
  <2>1. d \in ran /\ UNCHANGED ran
    BY <1>6 DEF Persisted, PersistFails, Account, Standing
  <2>2. \/ Complete(d) /\ committed' = committed \cup {d} /\ UNCHANGED unacked
        \/ Complete(d) /\ unacked' = unacked \cup {RequestOf[d]} /\ UNCHANGED committed
        \/ UNCHANGED <<durable, committed>>
    BY <1>6 DEF Persisted, PersistFails
  <2> QED BY <1>2, <1>5, <2>1, <2>2
<1> QED BY <1>2, <1>4, <1>6, OutcomeFrame

------------------------------------------------------------------------------
(* The theorems on runs and what their users are told *)

RunInv == IInv /\ Claimed /\ AtMostOnce /\ Account /\ Outcomes

\* The invariant of runs and verdicts holds throughout.
LEMMA RunInvariant == Spec => []RunInv
<1>1. Init => RunInv
  <2> SUFFICES ASSUME Init  PROVE RunInv
    OBVIOUS
  <2>1. IInv
    BY InitType, InitLanes, Types DEF IInv
  <2>2. Claimed /\ AtMostOnce /\ Outcomes
    BY DEF Init, Claimed, AtMostOnce, Outcomes
  <2>3. Account
    BY DEF Init, Account, Standing
  <2> QED BY <2>1, <2>2, <2>3 DEF RunInv
<1>2. RunInv /\ [Next]_vars => RunInv'
  BY IInvKept, ClaimedKept, AccountKept, OutcomesKept DEF RunInv, IInv
<1> QED BY <1>1, <1>2, PTL DEF Spec

\* No request is run twice (conversation-runtime.ts, conversations.ts claim), whatever Slack
\* delivers again and whenever the process crashes.
THEOREM RunsOnce == Spec => []AtMostOnce
<1>1. RunInv => AtMostOnce
  BY DEF RunInv
<1> QED BY <1>1, RunInvariant, PTL

\* A user is told the end of a delivery in at most one way: a notice, an error, or the answer.
THEOREM OneVerdictHolds == Spec => []OneVerdict
<1>1. RunInv => OneVerdict
  <2> SUFFICES ASSUME RunInv  PROVE OneVerdict
    OBVIOUS
  <2>1. \A d \in notified \cup replied \cup committed : Standing(d)
    BY DEF RunInv, IInv, FlagTypes, Account
  <2> QED BY <2>1 DEF OneVerdict, Standing
<1> QED BY <1>1, RunInvariant, PTL

\* A run that ends without a committed answer and without a crash has sent its user a stop
\* notice or an error: it told the user, unless Slack refused or lost that one message or
\* the cooldown withheld it (slack-controls.ts onAbort, handlers.ts), for nothing else is
\* tried then. No way a run can stop or fail skips the word.
THEOREM FailureHasAWord == Spec => []WordOnFailure
<1>1. RunInv => WordOnFailure
  BY DEF RunInv, Account, Standing, WordOnFailure, Told
<1> QED BY <1>1, RunInvariant, PTL

\* A run the user saw stopped leaves no turn, but when its COMMIT was carried out unanswered.
THEOREM StoppedLeavesNone == Spec => []StoppedLeavesNoTurn
<1>1. RunInv => StoppedLeavesNoTurn
  <2> SUFFICES ASSUME RunInv, NEW d \in cancelled \cup notified, ledger[RequestOf[d]] = "completed"
               PROVE  RequestOf[d] \in unacked
    BY DEF StoppedLeavesNoTurn
  <2>1. Standing(d)
    BY DEF RunInv, IInv, FlagTypes, Account
  <2>2. d \in ran /\ d \notin committed
    BY <2>1 DEF Standing
  <2> QED BY <2>2 DEF RunInv, Outcomes
<1> QED BY <1>1, RunInvariant, PTL
=============================================================================
