---------------------------- MODULE DialogueProofs ----------------------------
(***************************************************************************)
(* Proofs, for any deliveries, requests, sessions and limits, that the     *)
(* cached history of a thread never disagrees with the database, and that  *)
(* the conversation runtime keeps the promise of Dialogue.                 *)
(***************************************************************************)
EXTENDS ConversationProofs

------------------------------------------------------------------------------
(* The latest turns of a dialogue *)

Latest(q) == SubSeq(q, IF Len(q) > RecentTurns THEN Len(q) - RecentTurns + 1 ELSE 1, Len(q))
Grown(q, r) == LET h == Append(Latest(q), r) IN IF Len(h) > RecentTurns THEN Tail(h) ELSE h

\* The latest turns are the last ones of the dialogue, RecentTurns of them if there are as many.
LEMMA LatestTurns ==
  ASSUME NEW S, NEW q \in Seq(S)
  PROVE  /\ Latest(q) \in Seq(S)
         /\ Len(Latest(q)) = IF Len(q) > RecentTurns THEN RecentTurns ELSE Len(q)
         /\ \A i \in 1 .. Len(Latest(q)) : Latest(q)[i] = q[Len(q) - Len(Latest(q)) + i]
<1> DEFINE first == IF Len(q) > RecentTurns THEN Len(q) - RecentTurns + 1 ELSE 1
<1>1. Len(q) \in Nat /\ RecentTurns \in Nat \ {0}
  BY LenProperties, ConstantsAssumption
<1>2. first \in 1 .. Len(q) + 1 /\ Len(q) - first + 1 = IF Len(q) > RecentTurns THEN RecentTurns ELSE Len(q)
  BY <1>1
<1>3. \A i \in first .. Len(q) : q[i] \in S
  BY <1>1, <1>2, ElementOfSeq
<1>4. Latest(q) = SubSeq(q, first, Len(q))
  BY DEF Latest
<1> HIDE DEF first
<1>5. /\ Latest(q) \in Seq(S)
      /\ Len(Latest(q)) = IF first <= Len(q) THEN Len(q) - first + 1 ELSE 0
      /\ \A i \in 1 .. Len(q) - first + 1 : Latest(q)[i] = q[first + i - 1]
  BY <1>1, <1>2, <1>3, <1>4, SubSeqProperties
<1>6. Len(Latest(q)) = Len(q) - first + 1
  BY <1>1, <1>2, <1>5
<1>7. ASSUME NEW i \in 1 .. Len(Latest(q))  PROVE Latest(q)[i] = q[Len(q) - Len(Latest(q)) + i]
  <2>1. first + i - 1 = Len(q) - Len(Latest(q)) + i
    BY <1>1, <1>2, <1>6
  <2> QED BY <1>5, <1>6, <2>1
<1> QED BY <1>2, <1>5, <1>6, <1>7

\* Adding a turn to the latest turns, and dropping the oldest when there are too many, gives
\* the latest turns of the dialogue with that turn.
LEMMA GrownIsLatest ==
  ASSUME NEW S, NEW q \in Seq(S), NEW r \in S
  PROVE  Grown(q, r) = Latest(Append(q, r))
<1> DEFINE p == Append(q, r)
           l == Latest(q)
           h == Append(l, r)
           g == Latest(p)
<1>1. /\ p \in Seq(S) /\ Len(q) \in Nat /\ Len(p) = Len(q) + 1 /\ p[Len(q) + 1] = r
      /\ \A i \in 1 .. Len(q) : p[i] = q[i]
  BY AppendProperties, LenProperties
<1>2. /\ l \in Seq(S) /\ Len(l) = IF Len(q) > RecentTurns THEN RecentTurns ELSE Len(q)
      /\ \A i \in 1 .. Len(l) : l[i] = q[Len(q) - Len(l) + i]
  BY LatestTurns
<1> HIDE DEF p
<1>3. /\ g \in Seq(S) /\ Len(g) = IF Len(p) > RecentTurns THEN RecentTurns ELSE Len(p)
      /\ \A i \in 1 .. Len(g) : g[i] = p[Len(p) - Len(g) + i]
  BY <1>1, LatestTurns
<1> HIDE DEF l, g
<1>4. RecentTurns \in Nat \ {0} /\ Len(l) \in Nat
  BY <1>2, LenProperties, ConstantsAssumption
<1>5. /\ h \in Seq(S) /\ h # <<>> /\ Len(h) = Len(l) + 1 /\ h[Len(l) + 1] = r
      /\ \A i \in 1 .. Len(l) : h[i] = l[i]
  BY <1>2, AppendProperties
<1> HIDE DEF h
<1>6. ASSUME NEW i \in 1 .. Len(h)  PROVE h[i] = p[Len(p) - Len(h) + i]
  <2>1. CASE i = Len(l) + 1
    BY <1>1, <1>4, <1>5, <2>1
  <2>2. CASE i # Len(l) + 1
    <3>1. i \in 1 .. Len(l)
      BY <1>4, <1>5, <2>2
    <3>2. Len(q) - Len(l) + i \in 1 .. Len(q)
      BY <1>1, <1>2, <1>4, <3>1
    <3>3. Len(p) - Len(h) + i = Len(q) - Len(l) + i
      BY <1>1, <1>4, <1>5
    <3>4. h[i] = q[Len(q) - Len(l) + i]
      BY <1>2, <1>5, <3>1
    <3> QED BY <1>1, <3>2, <3>3, <3>4
  <2> QED BY <2>1, <2>2
<1>7. CASE Len(h) > RecentTurns
  <2>1. /\ Tail(h) \in Seq(S) /\ Len(Tail(h)) = Len(h) - 1
        /\ \A i \in 1 .. Len(Tail(h)) : Tail(h)[i] = h[i + 1]
    BY <1>5, HeadTailProperties
  <2>2. Len(h) = RecentTurns + 1 /\ Len(g) = RecentTurns /\ Len(Tail(h)) = Len(g)
    BY <1>1, <1>2, <1>3, <1>4, <1>5, <1>7, <2>1
  <2>3. ASSUME NEW i \in 1 .. Len(g)  PROVE Tail(h)[i] = g[i]
    <3>1. i + 1 \in 1 .. Len(h) /\ Len(p) - Len(h) + (i + 1) = Len(p) - Len(g) + i
      BY <1>1, <1>4, <2>2
    <3>2. h[i + 1] = p[Len(p) - Len(h) + (i + 1)]
      BY <1>6, <3>1
    <3> QED BY <1>3, <2>1, <2>2, <3>1, <3>2
  <2>4. Tail(h) = g
    BY <1>3, <2>1, <2>2, <2>3, SeqEqual
  <2> QED BY <1>7, <2>4 DEF Grown, h, l, g, p
<1>8. CASE ~(Len(h) > RecentTurns)
  <2>1. Len(h) = Len(g)
    BY <1>1, <1>2, <1>3, <1>4, <1>5, <1>8
  <2>2. \A i \in 1 .. Len(h) : h[i] = g[i]
    BY <1>3, <1>6, <2>1
  <2>3. h = g
    BY <1>3, <1>5, <2>1, <2>2, SeqEqual
  <2> QED BY <1>8, <2>3 DEF Grown, h, l, g, p
<1> QED BY <1>7, <1>8

------------------------------------------------------------------------------
(* The histories runs work from *)

\* What Slack or the database gives a run of a session for its history.
Context(s) == IF s \in Mention THEN <<>> ELSE Recent(s)
Working == {"executing", "draining", "persisting"}
Snapshot(d) == phase[d] \in Working => history[d] = Context(SessionIn(d))
Snapshots == \A d \in Delivery : Snapshot(d)

\* The history a run leaves in the cache is the durable one, once its turn is there.
LEMMA ExtendedIsRecent ==
  ASSUME LedgerTypes, NEW d \in Delivery, Complete(d),
         history[d] = Recent(SessionIn(d))
  PROVE  Extended(d) = Recent(SessionIn(d))'
<1> DEFINE s == SessionIn(d)
<1>1. s \in Session /\ RequestOf[d] \in Request
  BY Owners
<1>2. turns[s] \in Seq(Request) /\ turns'[s] = Append(turns[s], RequestOf[d])
  BY <1>1, Zenon DEF LedgerTypes, Complete
<1>3. history[d] = Latest(turns[s])
  BY DEF Recent, Latest
<1>4. Recent(SessionIn(d))' = Latest(turns'[s])
  BY DEF Recent, Latest, SessionIn
<1>5. Extended(d) = Grown(turns[s], RequestOf[d])
  BY <1>3 DEF Extended, Grown
<1> QED BY <1>1, <1>2, <1>4, <1>5, GrownIsLatest

\* A dialogue grows when a run completes, and stays otherwise.
LEMMA TurnsFrame ==
  ASSUME [Next]_vars
  PROVE  \/ UNCHANGED turns
         \/ \E d \in Delivery : Complete(d) /\ (Persisted(d) \/ PersistFails(d))
<1>1. \A d \in Delivery : Claim(d) \/ ClaimFails(d) \/ RecordFailure(d) => UNCHANGED turns
  BY DEF Claim, ClaimFails, RecordFailure
<1>2. \A d \in Delivery : Persisted(d) \/ PersistFails(d) => UNCHANGED turns \/ Complete(d)
  BY DEF Persisted, PersistFails, durable
<1> QED BY <1>1, <1>2, LedgerFrame, Zenon DEF durable

\* Who starts or goes on working from a history.
LEMMA SnapshotFrame ==
  ASSUME PhaseTypes, [Next]_vars
  PROVE  \/ /\ UNCHANGED <<turns, history>>
            /\ \A d \in Delivery : phase'[d] \in Working => phase[d] \in Working
         \/ \E d \in Delivery : Posted(d) \/ ReadHistory(d) \/ Persisted(d) \/ PersistFails(d) \/ Close(d)
         \/ Crash
<1> DEFINE Calm == /\ UNCHANGED <<turns, history>>
                   /\ \A d \in Delivery : phase'[d] \in Working => phase[d] \in Working
<1>1. ASSUME NEW d \in Delivery, NEW next, Goes(d, next), next \in Working => phase[d] \in Working,
             UNCHANGED <<turns, history>>
      PROVE  Calm
  BY <1>1 DEF Goes, PhaseTypes
<1>2. ASSUME NEW d \in Delivery, Share(d) \/ Reject(d) \/ Admit(d) \/ Reply(d) \/ TakeTurn(d)
      PROVE  Calm
  BY <1>1, <1>2 DEF Share, Reject, Admit, Reply, TakeTurn, durable, Working
<1>3. ASSUME NEW d \in Delivery, Claim(d) \/ ClaimConflicts(d) \/ ClaimFails(d) \/ StageFails(d)
      PROVE  Calm
  BY <1>1, <1>3 DEF Claim, ClaimConflicts, ClaimFails, StageFails, durable, Working
<1>4. ASSUME NEW d \in Delivery, Deliver(d) \/ RecordFailure(d)  PROVE Calm
  BY <1>1, <1>4 DEF Deliver, RecordFailure, durable, Working
<1>5. ASSUME NEW d \in Delivery, Generated(d) \/ Commit(d)  PROVE Calm
  <2>1. /\ phase[d] \in Working /\ UNCHANGED <<turns, history>>
        /\ \E next \in Working : Proceed(d, next)
    BY <1>5 DEF Generated, Commit, durable, Working
  <2>2. \E next \in Working \cup {"failing"} : Goes(d, next)
    BY <2>1, Checkpoint
  <2> QED BY <1>1, <2>1, <2>2
<1>6. ASSUME UNCHANGED <<phase, turns, history>>  PROVE Calm
  BY <1>6
<1> HIDE DEF Calm
<1>7. ASSUME NEW d \in Delivery, CallTool(d) \/ ToolSettles(d) \/ TimeOut(d) \/ Cancel(d)
      PROVE  Calm
  BY <1>6, <1>7 DEF CallTool, ToolSettles, TimeOut, Cancel, durable
<1>8. ASSUME UNCHANGED vars \/ \E s \in Session : Evict(s)  PROVE Calm
  BY <1>6, <1>8 DEF vars, Evict, durable
<1>9. \/ Calm
      \/ \E d \in Delivery : Posted(d) \/ ReadHistory(d) \/ Persisted(d) \/ PersistFails(d) \/ Close(d)
      \/ Crash
  BY <1>2, <1>3, <1>4, <1>5, <1>7, <1>8, Zenon DEF Next, RunStep
<1> QED BY <1>9 DEF Calm

\* A run that holds a slot is alone in its thread.
LEMMA AloneInThread ==
  ASSUME LaneInv, NEW c \in Holding, NEW d \in Holding, SessionIn(c) = SessionIn(d)
  PROVE  c = d
BY DEF LaneInv, Lanes

\* The history a working run has read stays that of its thread, whatever else runs.
LEMMA SnapshotsKept ==
  ASSUME LedgerTypes, HistoryTypes, LaneInv, CacheCoherent, Snapshots, [Next]_vars
  PROVE  Snapshots'
<1>1. PhaseTypes
  BY DEF LaneInv
<1>2. ASSUME NEW d \in Delivery, phase'[d] \in Working => phase[d] \in Working,
             history'[d] = history[d], turns'[SessionIn(d)] = turns[SessionIn(d)]
      PROVE  Snapshot(d)'
  <2>1. Recent(SessionIn(d))' = Recent(SessionIn(d))
    BY <1>2 DEF Recent, SessionIn
  <2> QED BY <1>2, <2>1 DEF Snapshots, Snapshot, Context, SessionIn
<1>3. CASE /\ UNCHANGED <<turns, history>>
           /\ \A d \in Delivery : phase'[d] \in Working => phase[d] \in Working
  BY <1>2, <1>3 DEF Snapshots
<1>4. ASSUME NEW d \in Delivery, Posted(d) \/ ReadHistory(d)  PROVE Snapshots'
  <2>1. UNCHANGED turns
    BY <1>4 DEF Posted, ReadHistory, durable
  <2>2. PICK next : Proceed(d, next)
    BY <1>4 DEF Posted, ReadHistory
  <2>3. \A e \in Delivery \ {d} : phase'[e] = phase[e]
    BY <1>1, <2>2, Checkpoint DEF Goes, PhaseTypes
  <2>4. \A e \in Delivery \ {d} : history'[e] = history[e]
    BY <1>4 DEF Posted, ReadHistory, HistoryTypes
  <2>5. Recent(SessionIn(d))' = Recent(SessionIn(d))
    BY <2>1 DEF Recent, SessionIn
  <2>6. CASE Posted(d)
    <3>1. CASE cache[SessionIn(d)] # NoCache /\ SessionIn(d) \notin Mention
      <4>1. history' = [history EXCEPT ![d] = cache[SessionIn(d)]]
        BY <2>6, <3>1, Zenon DEF Posted
      <4>2. cache[SessionIn(d)] = Recent(SessionIn(d))
        BY <3>1, Owners DEF CacheCoherent
      <4>3. history'[d] = Recent(SessionIn(d))
        BY <4>1, <4>2 DEF HistoryTypes
      <4>4. Snapshot(d)'
        BY <2>5, <3>1, <4>3 DEF Snapshot, Context, SessionIn
      <4> QED BY <1>2, <2>1, <2>3, <2>4, <4>4 DEF Snapshots
    <3>2. CASE ~(cache[SessionIn(d)] # NoCache /\ SessionIn(d) \notin Mention)
      <4>1. Proceed(d, "reading")
        BY <2>6, <3>2, Zenon DEF Posted
      <4>2. phase'[d] \in {"reading", "failing"}
        BY <1>1, <4>1, Checkpoint DEF Goes, PhaseTypes
      <4>3. Snapshot(d)'
        BY <4>2 DEF Snapshot, Working
      <4> QED BY <1>2, <2>1, <2>3, <2>4, <4>3 DEF Snapshots
    <3> QED BY <3>1, <3>2
  <2>7. CASE ReadHistory(d)
    <3>1. history' = [history EXCEPT ![d] = Context(SessionIn(d))]
      BY <2>7, Zenon DEF ReadHistory, Context
    <3>2. history'[d] = Context(SessionIn(d))
      BY <3>1 DEF HistoryTypes
    <3>3. Snapshot(d)'
      BY <2>5, <3>2 DEF Snapshot, Context, SessionIn
    <3> QED BY <1>2, <2>1, <2>3, <2>4, <3>3 DEF Snapshots
  <2> QED BY <1>4, <2>6, <2>7
<1>5. ASSUME NEW d \in Delivery, Persisted(d) \/ PersistFails(d)  PROVE Snapshots'
  <2>1. /\ phase[d] = "persisting" /\ UNCHANGED history
        /\ \E next \in {"delivering", "failing"} : Goes(d, next)
    BY <1>5 DEF Persisted, PersistFails
  <2>2. \A e \in Delivery : phase'[e] \in Working => e # d /\ phase[e] \in Working
    BY <1>1, <2>1 DEF Goes, PhaseTypes, Working
  <2>3. ASSUME NEW e \in Delivery, phase'[e] \in Working
        PROVE  turns'[SessionIn(e)] = turns[SessionIn(e)]
    <3>1. e # d /\ e \in Holding /\ d \in Holding
      BY <2>1, <2>2, <2>3 DEF Holding, HoldingPhases, Working
    <3>2. SessionIn(e) # SessionIn(d)
      BY <3>1, AloneInThread
    <3>3. UNCHANGED turns \/ turns' = [turns EXCEPT ![SessionIn(d)] = Append(@, RequestOf[d])]
      BY <1>5, Zenon DEF Persisted, PersistFails, Complete, durable
    <3> QED BY <3>2, <3>3, Owners, Zenon DEF LedgerTypes
  <2>4. ASSUME NEW e \in Delivery  PROVE Snapshot(e)'
    <3>1. CASE phase'[e] \in Working
      BY <1>2, <2>1, <2>2, <2>3, <3>1
    <3>2. CASE phase'[e] \notin Working
      BY <3>2 DEF Snapshot
    <3> QED BY <3>1, <3>2
  <2> QED BY <2>4 DEF Snapshots
<1>6. ASSUME NEW d \in Delivery, Close(d)  PROVE Snapshots'
  <2>1. UNCHANGED turns /\ history' = [history EXCEPT ![d] = <<>>]
    BY <1>6 DEF Close, durable
  <2>2. PICK next \in {"replying", "done"} : Released(d, next)
    BY <1>6 DEF Close
  <2>3. ASSUME NEW e \in Delivery, phase'[e] \in Working  PROVE e # d /\ phase[e] \in Working
    BY <1>1, <2>2, <2>3 DEF Released, Goes, PhaseTypes, Working
  <2>4. \A e \in Delivery \ {d} : history'[e] = history[e]
    BY <2>1 DEF HistoryTypes
  <2>5. ASSUME NEW e \in Delivery  PROVE Snapshot(e)'
    <3>1. CASE phase'[e] \in Working
      BY <1>2, <2>1, <2>3, <2>4, <3>1
    <3>2. CASE phase'[e] \notin Working
      BY <3>2 DEF Snapshot
    <3> QED BY <3>1, <3>2
  <2> QED BY <2>5 DEF Snapshots
<1>7. CASE Crash
  <2>1. \A d \in Delivery : phase'[d] \notin Working
    BY <1>7 DEF Crash, Working
  <2> QED BY <2>1 DEF Snapshots, Snapshot
<1> QED BY <1>1, <1>3, <1>4, <1>5, <1>6, <1>7, SnapshotFrame

\* No action leaves a cached history that differs from the stored one.
LEMMA CacheKept ==
  ASSUME LedgerTypes, CacheTypes, LaneInv, CacheCoherent, Snapshots, [Next]_vars
  PROVE  CacheCoherent'
<1>1. CASE UNCHANGED turns /\ ~\E d \in Delivery : Persisted(d)
  <2>1. \A s \in Session : Recent(s)' = Recent(s)
    BY <1>1 DEF Recent
  <2>2. \A s \in Session : cache'[s] \in {cache[s], NoCache}
    BY <1>1, CacheFrame DEF Crash, CacheTypes
  <2> QED BY <2>1, <2>2 DEF CacheCoherent
<1>2. ASSUME NEW d \in Delivery, Complete(d), Persisted(d) \/ PersistFails(d)
      PROVE  CacheCoherent'
  <2>1. SessionIn(d) \in Session /\ phase[d] = "persisting"
    BY <1>2, Owners DEF Persisted, PersistFails
  <2>2. cache'[SessionIn(d)] \in {NoCache, Recent(SessionIn(d))'}
    <3>1. CASE Persisted(d)
      <4>1. cache'[SessionIn(d)] = IF SessionIn(d) \in Mention THEN NoCache ELSE Extended(d)
        BY <2>1, <3>1, Zenon DEF Persisted, CacheTypes
      <4>2. SessionIn(d) \notin Mention => Extended(d) = Recent(SessionIn(d))'
        BY <1>2, <2>1, ExtendedIsRecent DEF Snapshots, Snapshot, Context, Working
      <4> QED BY <4>1, <4>2
    <3>2. CASE PersistFails(d)
      BY <2>1, <3>2 DEF PersistFails, Throws, CacheTypes
    <3> QED BY <1>2, <3>1, <3>2
  <2>3. ASSUME NEW s \in Session, s # SessionIn(d)
        PROVE  cache'[s] = cache[s] /\ Recent(s)' = Recent(s)
    <3>1. \E x : cache' = [cache EXCEPT ![SessionIn(d)] = x]
      BY <1>2, Zenon DEF Persisted, PersistFails, Throws
    <3>2. cache'[s] = cache[s]
      BY <2>3, <3>1 DEF CacheTypes
    <3>3. turns'[s] = turns[s]
      BY <1>2, <2>3, Zenon DEF Complete, LedgerTypes
    <3> QED BY <3>2, <3>3 DEF Recent
  <2> QED BY <2>2, <2>3 DEF CacheCoherent, SessionIn
<1>3. ASSUME NEW d \in Delivery, Persisted(d)  PROVE Complete(d)
  BY <1>3 DEF Persisted
<1> QED BY <1>1, <1>2, <1>3, TurnsFrame

------------------------------------------------------------------------------
(* The theorems *)

CacheInv == IInv /\ CacheCoherent /\ Snapshots

\* The invariant of snapshots and cache holds throughout.
LEMMA CacheInvariant == Spec => []CacheInv
<1>1. Init => CacheInv
  <2> SUFFICES ASSUME Init  PROVE CacheInv
    OBVIOUS
  <2>1. IInv
    BY InitType, InitLanes, Types DEF IInv
  <2>2. CacheCoherent
    BY DEF Init, CacheCoherent
  <2>3. Snapshots
    BY DEF Init, Snapshots, Snapshot, Working
  <2> QED BY <2>1, <2>2, <2>3 DEF CacheInv
<1>2. CacheInv /\ [Next]_vars => CacheInv'
  BY IInvKept, CacheKept, SnapshotsKept DEF CacheInv, IInv
<1> QED BY <1>1, <1>2, PTL DEF Spec

\* What is cached for a thread (services/memory/in-memory.ts, conversation-runtime.ts) is what
\* the database would return for it, even after a COMMIT whose outcome was not learnt.
THEOREM CacheIsCoherent == Spec => []CacheCoherent
<1>1. CacheInv => CacheCoherent
  BY DEF CacheInv
<1> QED BY <1>1, CacheInvariant, PTL

\* A request that completes is answered from the dialogue its answer is appended to.
LEMMA CompleteAnswers ==
  ASSUME CacheInv, NEW d \in Delivery, phase[d] = "persisting", Complete(d)
  PROVE  Promise!Answer(RequestOf[d])
<1>1. history[d] = Context(SessionIn(d))
  BY DEF CacheInv, Snapshots, Snapshot, Working
<1>2. Context(SessionIn(d)) = Promise!Context(SessionOf[RequestOf[d]])
  BY DEF Context, Recent, Promise!Context, Promise!Recent, SessionIn
<1> QED BY <1>1, <1>2, Zenon DEF Complete, Promise!Answer, SessionIn

\* Each step of the runtime is a step of Dialogue, or leaves what Dialogue speaks of alone.
LEMMA StepKeepsPromise ==
  ASSUME CacheInv, [Next]_vars
  PROVE  [Promise!Next]_(Promise!vars)
<1>1. CASE UNCHANGED durable
  BY <1>1 DEF durable, Promise!vars
<1>2. ASSUME NEW d \in Delivery, Claim(d) \/ ClaimFails(d)  PROVE UNCHANGED durable \/ Promise!Next
  <2>1. /\ UNCHANGED <<turns, basis, unacked>>
        /\ \/ UNCHANGED ledger
           \/ /\ Claimable(RequestOf[d])
              /\ ledger' = [ledger EXCEPT ![RequestOf[d]] = "processing"]
    BY <1>2 DEF Claim, ClaimFails
  <2> QED BY <2>1, Owners DEF durable, Claimable, Promise!TakeUp, Promise!Next
<1>3. ASSUME NEW d \in Delivery, RecordFailure(d)  PROVE UNCHANGED durable \/ Promise!Next
  <2>1. /\ UNCHANGED <<turns, basis, unacked>>
        /\ \/ UNCHANGED ledger
           \/ /\ ledger[RequestOf[d]] = "processing"
              /\ ledger' = [ledger EXCEPT ![RequestOf[d]] = "failed"]
    BY <1>3 DEF RecordFailure
  <2> QED BY <2>1, Owners DEF durable, Promise!Fail, Promise!Next
<1>4. ASSUME NEW d \in Delivery, Persisted(d) \/ PersistFails(d)
      PROVE  UNCHANGED durable \/ Promise!Next
  <2>1. phase[d] = "persisting" /\ (UNCHANGED durable \/ Complete(d))
    BY <1>4 DEF Persisted, PersistFails
  <2> QED BY <2>1, Owners, CompleteAnswers DEF Promise!Next
<1> QED BY <1>1, <1>2, <1>3, <1>4, LedgerFrame

\* The runtime implements Dialogue: a request is taken up at most once, and its answer is
\* generated from the very dialogue it is appended to, cached or not.
THEOREM RuntimeKeepsDialogue == Spec => KeepsDialogue
<1>1. Init => Promise!Init
  BY DEF Init, Promise!Init
<1>2. CacheInv /\ [Next]_vars => [Promise!Next]_(Promise!vars)
  BY StepKeepsPromise
<1> QED BY <1>1, <1>2, CacheInvariant, PTL DEF Spec, KeepsDialogue, Promise!Spec
=============================================================================
