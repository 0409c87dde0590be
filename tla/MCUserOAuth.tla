------------------------------ MODULE MCUserOAuth ------------------------------
(***************************************************************************)
(* Small instances of UserOAuth: two processes, as while a new deployment  *)
(* takes over from an old one, each with a handler; or one process with a  *)
(* handler and two requests to the callback.                               *)
(***************************************************************************)
EXTENDS UserOAuth

CONSTANTS p1, p2, h1, h2, c1, c2, s1

HomeOf == [t \in Call |-> IF t = h2 THEN p2 ELSE p1]

\* Who takes part, and how many of the MaxCreds credentials are issued by then: the
\* calls left out have nothing to do.
Start(cast, last) ==
  InitCalls([t \in Call |-> IF t \in cast THEN First(t) ELSE Ended(First(t))], last)

MCInit == Start({h1, h2}, 2) \/ Start({h1, c1, c2}, 1)

MCSpec == MCInit /\ [][Next]_vars /\ Fairness
=============================================================================
