---------------------------- MODULE RelayDelivery ----------------------------
(***************************************************************************)
(* What the message-relay outbox promises, without claims, leases, retries *)
(* or processes: a captured event is held until Radar has committed it and *)
(* it is recorded as delivered, or until it is recorded as given up; only  *)
(* then may its record be forgotten, after which it may be captured anew.  *)
(***************************************************************************)
CONSTANT Event

VARIABLES
  fate,       \* what the outbox knows of each event
  committed   \* events Radar has committed

vars == <<fate, committed>>

Fate == {"unknown", "held", "delivered", "given_up"}

Move(S, from, to) ==
  /\ \A e \in S : fate[e] \in from
  /\ fate' = [e \in Event |-> IF e \in S THEN to ELSE fate[e]]

Capture(e) == Move({e}, {"unknown"}, "held") /\ UNCHANGED committed

\* A request reaches Radar. A late one may do so after its event has been given up.
Commit(e) == committed' = committed \cup {e} /\ UNCHANGED fate

Deliver(e) == e \in committed /\ Move({e}, {"held"}, "delivered") /\ UNCHANGED committed
GiveUp(S) == Move(S, {"held"}, "given_up") /\ UNCHANGED committed
Forget(S) == Move(S, {"delivered", "given_up"}, "unknown") /\ UNCHANGED committed

Init == fate = [e \in Event |-> "unknown"] /\ committed = {}

Next ==
  \/ \E e \in Event : Capture(e) \/ Commit(e) \/ Deliver(e)
  \/ \E S \in SUBSET Event : GiveUp(S) \/ Forget(S)

Spec == Init /\ [][Next]_vars
=============================================================================
