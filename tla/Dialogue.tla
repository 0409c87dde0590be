------------------------------- MODULE Dialogue -------------------------------
(***************************************************************************)
(* What the conversation runtime promises about a dialogue, without        *)
(* threads, slots, caches or controls: a request is taken up at most once, *)
(* and its answer is generated from the very dialogue it is appended to.   *)
(***************************************************************************)
EXTENDS Sequences, Integers

CONSTANTS
  Request, Session,
  SessionOf,     \* the session of each request
  Mention,       \* sessions whose context is read from Slack instead
  RecentTurns    \* how many turns of a dialogue an answer takes into account

VARIABLES
  fate,      \* "none", "processing", "completed" or "failed", per request
  dialogue,  \* the answered requests of each session, in order
  basis      \* the turns the answer to a request was generated from

vars == <<fate, dialogue, basis>>

Recent(turns) ==
  SubSeq(turns, IF Len(turns) > RecentTurns THEN Len(turns) - RecentTurns + 1 ELSE 1, Len(turns))
Context(s) == IF s \in Mention THEN <<>> ELSE Recent(dialogue[s])

TakeUp(r) ==
  /\ fate[r] = "none"
  /\ fate' = [fate EXCEPT ![r] = "processing"]
  /\ UNCHANGED <<dialogue, basis>>

Answer(r) ==
  /\ fate[r] = "processing"
  /\ fate' = [fate EXCEPT ![r] = "completed"]
  /\ dialogue' = [dialogue EXCEPT ![SessionOf[r]] = Append(@, r)]
  /\ basis' = [basis EXCEPT ![r] = Context(SessionOf[r])]

Fail(r) ==
  /\ fate[r] = "processing"
  /\ fate' = [fate EXCEPT ![r] = "failed"]
  /\ UNCHANGED <<dialogue, basis>>

Init ==
  /\ fate = [r \in Request |-> "none"]
  /\ dialogue = [s \in Session |-> <<>>]
  /\ basis = [r \in Request |-> <<>>]

Next == \E r \in Request : TakeUp(r) \/ Answer(r) \/ Fail(r)

Spec == Init /\ [][Next]_vars
=============================================================================
