---------------------------- MODULE MCRelayOutbox ----------------------------
(* Small instances of RelayOutbox: one unit of time is a backoff step. *)
EXTENDS RelayOutbox, TLC

CONSTANTS e1, e2, p1, p2, none

OneEvent == {e1}
TwoEvents == {e1, e2}
OneProc == {p1}
TwoProcs == {p1, p2}

\* The drainers are interchangeable.
ProcSymmetry == Permutations(Proc)

FourTokens == 1 .. 4
NullToken == 0

\* A date that has passed; one longer than the longest that is honoured; that longest too.
PastAndLong == {-1, 3}
LongRetryAfter == {3}
SomeRetryAfters == {2, 3}
NoRetryAfters == {}
=============================================================================
