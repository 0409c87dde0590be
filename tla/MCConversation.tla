--------------------------- MODULE MCConversation ---------------------------
(* Small instances of Conversation. *)
EXTENDS Conversation, TLC

CONSTANTS d1, d2, d3, r1, r2, r3, s1, s2, none

\* A request delivered twice, and a second request of the same thread.
OneThread == {d1, d2, d3}
OneThreadRequests == {r1, r2}
OneThreadRequestOf == d1 :> r1 @@ d2 :> r1 @@ d3 :> r2
OneThreadSessionOf == r1 :> s1 @@ r2 :> s1

\* Three requests of one thread.
LongThread == {d1, d2, d3}
LongThreadRequests == {r1, r2, r3}
LongThreadRequestOf == d1 :> r1 @@ d2 :> r2 @@ d3 :> r3
LongThreadSessionOf == r1 :> s1 @@ r2 :> s1 @@ r3 :> s1

\* Two threads that share a slot.
TwoThreads == {d1, d2, d3}
TwoThreadsSessionOf == r1 :> s1 @@ r2 :> s1 @@ r3 :> s2

OneSession == {s1}
TwoSessions == {s1, s2}
NoSession == {}
NoDelivery == {}
SecondSession == {s2}
=============================================================================
