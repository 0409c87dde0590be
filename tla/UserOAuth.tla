------------------------------- MODULE UserOAuth -------------------------------
(***************************************************************************)
(* The Slack credential of one user: the stored row, the tokens as Slack   *)
(* sees them, and the calls that use, rotate, replace and revoke them in   *)
(* several processes.  An access token and its refresh token are one       *)
(* credential, numbered in the order Slack issues them; a ciphertext is    *)
(* written once, so comparing ciphertexts compares credentials.            *)
(***************************************************************************)
EXTENDS Integers, FiniteSets

CONSTANTS
  Proc,         \* processes
  Handler,      \* message handlers: use the credential, or offer a link to grant one
  Callback,     \* requests to the OAuth callback URL
  Home,         \* the process of each call
  State,        \* OAuth states, one per link
  Retries,      \* getAccessToken reads the row again at most this often
  MaxCreds,     \* bound: credentials Slack issues
  MaxFaults,    \* bound: lost requests and answers, crashes
  None

Call == Handler \cup Callback

\* Credential 0 dates from before token rotation: no refresh token, no expiry.
Cred == 0..MaxCreds
Unrotated == 0

ASSUME UserOAuthAssumption ==
  /\ Home \in [Call -> Proc] /\ Handler \cap Callback = {}
  /\ IsFiniteSet(Callback) /\ IsFiniteSet(State)
  /\ Retries \in Nat /\ MaxCreds \in Nat \ {0} /\ MaxFaults \in Nat
  /\ None \notin Cred

VARIABLES
  stored, due,        \* the row: its credential; expires_at is within five minutes
  issued,             \* credentials issued so far
  access, refresh,    \* what Slack makes of a credential's two tokens
  call,               \* the calls under way
  flight,             \* per process, the refresh in `refreshes`
  states,             \* slack_oauth_states
  faults,
  abandoned,          \* ghost: credentials taken out of the row unrevoked (see NoOrphans)
  causes              \* ghost: why a stored credential may have been lost

vars == <<stored, due, issued, access, refresh, call, flight, states, faults,
          abandoned, causes>>

slack == <<issued, access, refresh>>
row == <<stored, due>>

-----------------------------------------------------------------------------
(* Calls *)

\* A call: where it is, what its handler wants of getAccessToken ("use", a "link" to
\* authorize, the token "again" after a failed one, or "relink"), the credential it read
\* and the one it got, and the tries left.
Fresh(pc) == [pc |-> pc, goal |-> "use", seen |-> None, held |-> None, tries |-> Retries]

At(k, pc) == [k EXCEPT !.pc = pc]
Ended(k) == At(k, "done")
Get(k, goal) == [k EXCEPT !.pc = "read", !.goal = goal, !.tries = Retries]

\* getAccessToken returns credential c; held still names the one that failed before.
Returned(k, c) ==
  CASE k.goal = "use" -> [k EXCEPT !.pc = "using", !.held = c]
    [] k.goal = "link" -> IF k.held = None THEN Ended(k) ELSE Get(k, "again")
    [] k.goal = "again" -> IF c = k.held THEN Ended(k) ELSE [k EXCEPT !.pc = "using", !.held = c]
    [] k.goal = "relink" -> Ended(k)

\* getAccessToken throws SlackUserOAuthRequiredError.
Required(k) ==
  CASE k.goal = "use" -> Get(k, "link")
    [] k.goal = "again" -> Get(k, "relink")
    [] OTHER -> At(k, "offer")

\* It throws anything else: without a link, a handler whose token failed tries once more.
Thrown(k) == IF k.goal = "link" /\ k.held # None THEN Get(k, "again") ELSE Ended(k)

\* The loop of getAccessTokenWithRetry.
Again(k) == IF k.tries > 0 THEN [k EXCEPT !.pc = "read", !.tries = @ - 1] ELSE Required(k)

\* After invalidateAccessToken of the token that failed.
Invalidated(k) == Get(k, IF k.goal = "use" THEN "link" ELSE "relink")

-----------------------------------------------------------------------------
(* Refreshes *)

Idle == [pc |-> "idle", seen |-> None, new |-> None, force |-> FALSE]

Waits(t, p) == Home[t] = p /\ call[t].pc = "joined"

\* The refresh of p settles: everyone who awaits it goes on as Then says.
Settle(p, Then(_)) ==
  /\ flight' = [flight EXCEPT ![p] = Idle]
  /\ call' = [t \in Call |-> IF Waits(t, p) THEN Then(call[t]) ELSE call[t]]

\* A call before its first step.
First(t) == Fresh(IF t \in Handler THEN "read" ELSE "consume")

\* Nothing, a credential without rotation or the last one issued is stored when the
\* calls begin.
InitCalls(calls, last) ==
  /\ issued = last
  /\ \E c \in {None, Unrotated, last} :
       /\ stored = c
       /\ access = [d \in Cred |-> IF d = c THEN "live" ELSE "none"]
       /\ refresh = [d \in Cred |-> IF d = c /\ d # Unrotated THEN "live" ELSE "none"]
  /\ due \in {b \in BOOLEAN : b => stored \notin {None, Unrotated}}
  /\ call = calls
  /\ flight = [p \in Proc |-> Idle]
  /\ states \in [State -> {"new", "open"}]
  /\ faults = 0
  /\ abandoned = {}
  /\ causes = {}

Init == InitCalls([t \in Call |-> First(t)], 1)

Goes(t, k) == call' = [call EXCEPT ![t] = k]
IsAt(t, pc) == call[t].pc = pc

\* A lost request or answer.
Faults == faults < MaxFaults /\ faults' = faults + 1

-----------------------------------------------------------------------------
(* getAccessToken *)

\* Mutant of Join: a call waits for a refresh nobody has started.
JoinIdle(t, force) == Goes(t, At(call[t], "joined")) /\ UNCHANGED flight

\* runRefresh: join the refresh of this process or start one.
Join(t, force) ==
  /\ Goes(t, At(call[t], "joined"))
  /\ flight' = [flight EXCEPT ![Home[t]] =
       IF @.pc = "idle" THEN [Idle EXCEPT !.pc = "read", !.force = force] ELSE @]

\* The row is read; what it holds decides. A row without rotation must be granted anew.
Read(t) ==
  /\ IsAt(t, "read")
  /\ \/ /\ stored \in {None, Unrotated}
        /\ Goes(t, Required(call[t]))
        /\ UNCHANGED flight
     \/ /\ stored \notin {None, Unrotated} /\ due
        /\ Join(t, FALSE)
     \/ /\ stored \notin {None, Unrotated} /\ ~due
        /\ Goes(t, [call[t] EXCEPT !.pc = "validate", !.seen = stored])
        /\ UNCHANGED flight
  /\ UNCHANGED <<row, slack, states, faults, abandoned, causes>>

\* auth.test: a live token is returned, an expired one refreshed, a refused one erased.
Validate(t) ==
  /\ IsAt(t, "validate")
  /\ LET k == call[t] IN
     \/ /\ access[k.seen] = "live"
        /\ Goes(t, Returned(k, k.seen))
        /\ UNCHANGED flight
     \/ /\ access[k.seen] = "expired"
        /\ Join(t, TRUE)
     \/ /\ access[k.seen] = "dead"
        /\ Goes(t, At(k, "erase"))
        /\ UNCHANGED flight
  /\ UNCHANGED <<row, slack, states, faults, abandoned, causes>>

\* Mutant of Erased: without the comparison of ciphertexts.
ErasedUncompared(c) == stored # None /\ stored' = None /\ due' = FALSE

\* revokeIfUnchanged
Erased(c) == stored = c /\ stored' = None /\ due' = FALSE

\* revokeStaleRecordOrRetry
Erase(t) ==
  /\ IsAt(t, "erase")
  /\ \/ Erased(call[t].seen) /\ Goes(t, Required(call[t]))
     \/ stored # call[t].seen /\ UNCHANGED row /\ Goes(t, Again(call[t]))
  /\ UNCHANGED <<slack, flight, states, faults, abandoned, causes>>

\* A query or request of getAccessToken fails.
GetFails(t) ==
  /\ call[t].pc \in {"read", "validate", "erase"}
  /\ Faults
  /\ Goes(t, Thrown(call[t]))
  /\ UNCHANGED <<row, slack, flight, states, abandoned, causes>>
-----------------------------------------------------------------------------
(* The refresh of a process *)

Flying(p, pc) == flight[p].pc = pc
Flies(p, f) == flight' = [flight EXCEPT ![p] = f]

\* Slack issues the next credential.
Issue(c) ==
  /\ issued < MaxCreds
  /\ c = issued + 1
  /\ issued' = c

\* The row is read again: the refresh may be over, or the row gone.
FlightRead(p) ==
  /\ Flying(p, "read")
  /\ \/ stored = None /\ Settle(p, Required)
     \/ stored # None /\ ~due /\ ~flight[p].force /\ Settle(p, Again)
     \/ stored = Unrotated /\ flight[p].force /\ Settle(p, Again)
     \/ /\ stored \notin {None, Unrotated} /\ (due \/ flight[p].force)
        /\ Flies(p, [flight[p] EXCEPT !.pc = "rotate", !.seen = stored])
        /\ UNCHANGED call
  /\ UNCHANGED <<row, slack, states, faults, abandoned, causes>>

\* Slack rotates a live refresh token, which is spent by that, and refuses any other.
Rotate(p) ==
  /\ Flying(p, "rotate")
  /\ LET f == flight[p] IN
     \/ /\ refresh[f.seen] = "live"
        /\ \E c \in Cred :
             /\ Issue(c)
             /\ access' = [access EXCEPT ![c] = "live"]
             /\ refresh' = [refresh EXCEPT ![f.seen] = "dead", ![c] = "live"]
             /\ Flies(p, [f EXCEPT !.pc = "replace", !.new = c])
     \/ /\ refresh[f.seen] = "dead"
        /\ Flies(p, [f EXCEPT !.pc = "erase"])
        /\ UNCHANGED slack
  /\ UNCHANGED <<row, call, states, faults, abandoned, causes>>

\* The token is rotated and the answer lost, or unfit: everyone who waits gets the error.
RotateLost(p) ==
  /\ Flying(p, "rotate") /\ refresh[flight[p].seen] = "live"
  /\ Faults
  /\ \E c \in Cred :
       /\ Issue(c)
       /\ access' = [access EXCEPT ![c] = "live"]
       /\ refresh' = [refresh EXCEPT ![flight[p].seen] = "dead", ![c] = "live"]
  /\ Settle(p, Thrown)
  /\ UNCHANGED <<row, states, abandoned, causes>>

\* replaceRotated: only over the credential that was rotated.
Replaced(old, new) == stored = old /\ stored' = new /\ due' = FALSE

Replace(p) ==
  /\ Flying(p, "replace")
  /\ LET f == flight[p] IN
     \/ Replaced(f.seen, f.new) /\ Settle(p, Again)
     \/ stored # f.seen /\ UNCHANGED <<row, call>> /\ Flies(p, [f EXCEPT !.pc = "dropAccess"])
  /\ UNCHANGED <<slack, states, faults, abandoned, causes>>

\* The losing refresh revokes both tokens it was given; errors are only logged.
Drop(p) ==
  /\ flight[p].pc \in {"dropAccess", "dropRefresh"}
  /\ LET f == flight[p] IN
     IF f.pc = "dropAccess"
     THEN /\ access' = [access EXCEPT ![f.new] = "dead"] /\ UNCHANGED refresh
          /\ Flies(p, [f EXCEPT !.pc = "dropRefresh"]) /\ UNCHANGED call
     ELSE /\ refresh' = [refresh EXCEPT ![f.new] = "dead"] /\ UNCHANGED access
          /\ Settle(p, Again)
  /\ UNCHANGED <<row, issued, states, faults, abandoned, causes>>

DropFails(p) ==
  /\ flight[p].pc \in {"dropAccess", "dropRefresh"}
  /\ Faults
  /\ IF flight[p].pc = "dropAccess"
     THEN Flies(p, [flight[p] EXCEPT !.pc = "dropRefresh"]) /\ UNCHANGED call
     ELSE Settle(p, Again)
  /\ UNCHANGED <<row, slack, states, abandoned, causes>>

\* Slack refused the refresh token: the row is erased unless it has changed. If another
\* process is about to store the successor, the credential is lost for both.
FlightErase(p) ==
  /\ Flying(p, "erase")
  /\ LET c == flight[p].seen IN
     \/ /\ Erased(c)
        /\ Settle(p, Required)
        /\ causes' = IF \E q \in Proc : Flying(q, "replace") /\ flight[q].seen = c
                     THEN causes \cup {"raced"} ELSE causes
     \/ stored # c /\ UNCHANGED row /\ Settle(p, Again) /\ UNCHANGED causes
  /\ UNCHANGED <<slack, states, faults, abandoned>>

\* A query fails, or a request that changes nothing (as any does once MaxCreds are issued).
FlightFails(p) ==
  /\ flight[p].pc \in {"read", "rotate", "replace", "erase"}
  /\ \/ Faults
     \/ Flying(p, "rotate") /\ issued = MaxCreds /\ UNCHANGED faults
  /\ Settle(p, Thrown)
  /\ UNCHANGED <<row, slack, states, abandoned, causes>>

\* The answer to a replaceRotated that committed is lost.
ReplaceUnanswered(p) ==
  /\ Flying(p, "replace")
  /\ Faults
  /\ Replaced(flight[p].seen, flight[p].new)
  /\ Settle(p, Thrown)
  /\ UNCHANGED <<slack, states, abandoned, causes>>

-----------------------------------------------------------------------------
(* A handler uses its token; invalidateAccessToken; createAuthorizationUrl *)

\* chat.update with the token: done, or the token is refused. A token that expired since
\* it was validated is treated like a revoked one, though its refresh token is good.
Use(t) ==
  /\ IsAt(t, "using")
  /\ Goes(t, IF access[call[t].held] = "live" THEN Ended(call[t]) ELSE At(call[t], "findFailed"))
  /\ UNCHANGED <<row, slack, flight, states, faults, abandoned, causes>>

FindFailed(t) ==
  /\ IsAt(t, "findFailed")
  /\ Goes(t, IF stored = call[t].held
             THEN [call[t] EXCEPT !.pc = "eraseFailed", !.seen = stored]
             ELSE Invalidated(call[t]))
  /\ UNCHANGED <<row, slack, flight, states, faults, abandoned, causes>>

\* A credential whose access token had merely expired leaves the store with a refresh token
\* that may be live: nothing revokes that one.
EraseFailed(t) ==
  /\ IsAt(t, "eraseFailed")
  /\ LET k == call[t] IN
     \/ /\ Erased(k.seen)
        /\ Goes(t, At(k, "revokeFailed"))
        /\ IF access[k.seen] = "expired"
           THEN causes' = causes \cup {"expired in use"} /\ abandoned' = abandoned \cup {k.seen}
           ELSE UNCHANGED <<causes, abandoned>>
     \/ stored # k.seen /\ UNCHANGED <<row, causes, abandoned>> /\ Goes(t, Invalidated(k))
  /\ UNCHANGED <<slack, flight, states, faults>>

\* Only the access token is revoked.
RevokeFailed(t) ==
  /\ IsAt(t, "revokeFailed")
  /\ access' = [access EXCEPT ![call[t].held] = "dead"]
  /\ Goes(t, Invalidated(call[t]))
  /\ UNCHANGED <<row, issued, refresh, flight, states, faults, abandoned, causes>>

\* The first invalidation may fail, the second ends the handler; a failed revocation is logged.
InvalidateFails(t) ==
  /\ call[t].pc \in {"findFailed", "eraseFailed", "revokeFailed"}
  /\ Faults
  /\ Goes(t, IF call[t].goal = "use" \/ IsAt(t, "revokeFailed")
             THEN Invalidated(call[t]) ELSE Ended(call[t]))
  /\ UNCHANGED <<row, slack, flight, states, abandoned, causes>>

\* The message cannot be updated for another reason, or the answer is lost.
UseFails(t) ==
  /\ IsAt(t, "using")
  /\ Faults
  /\ Goes(t, Ended(call[t]))
  /\ UNCHANGED <<row, slack, flight, states, abandoned, causes>>

\* A state of its own is stored for the link; expired ones are deleted first.
Offer(t) ==
  /\ IsAt(t, "offer")
  /\ \E s \in State : states[s] = "new" /\ states' = [states EXCEPT ![s] = "open"]
  /\ Goes(t, Ended(call[t]))
  /\ UNCHANGED <<row, slack, flight, faults, abandoned, causes>>

\* Storing the state fails (or all of State is used up): no link, the handler ends or
\* tries once more.
OfferFails(t) ==
  /\ IsAt(t, "offer")
  /\ Faults \/ (UNCHANGED faults /\ \A s \in State : states[s] # "new")
  /\ Goes(t, Thrown(call[t]))
  /\ UNCHANGED <<row, slack, flight, states, abandoned, causes>>
-----------------------------------------------------------------------------
(* The callback *)

\* Mutant of Consumed: the state is looked up and not deleted.
ConsumedAndKept(s) == states[s] = "open" /\ UNCHANGED states

\* consumeSlackOAuthState: one DELETE ... RETURNING.
Consumed(s) == states[s] = "open" /\ states' = [states EXCEPT ![s] = "closed"]

\* The link of some state is followed: an open state is consumed, then the user may turn
\* out to have declined; a used or expired state ends it.
Consume(t) ==
  /\ IsAt(t, "consume")
  /\ \E s \in State :
       \/ /\ Consumed(s)
          /\ \E pc \in {"exchange", "done"} : Goes(t, At(call[t], pc))
       \/ states[s] = "closed" /\ UNCHANGED states /\ Goes(t, Ended(call[t]))
  /\ UNCHANGED <<row, slack, flight, faults, abandoned, causes>>

\* The code is exchanged: Slack grants a credential, of this user and fit or not, or nothing.
Exchange(t) ==
  /\ IsAt(t, "exchange")
  /\ \/ \E c \in Cred, pc \in {"save", "discardAccess"} :
          /\ Issue(c)
          /\ access' = [access EXCEPT ![c] = "live"]
          /\ refresh' = [refresh EXCEPT ![c] = "live"]
          /\ Goes(t, [call[t] EXCEPT !.pc = pc, !.held = c])
     \/ UNCHANGED slack /\ Goes(t, Ended(call[t]))
  /\ UNCHANGED <<row, flight, states, faults, abandoned, causes>>

Stored(c) ==
  /\ stored' = c /\ due' = FALSE
  /\ abandoned' = abandoned \cup ({stored} \ {None})

\* Mutant of Save: the grant is discarded in the end, not only after an error.
SaveThenDiscard(t) ==
  /\ IsAt(t, "save")
  /\ Stored(call[t].held)
  /\ Goes(t, At(call[t], "discardAccess"))
  /\ UNCHANGED <<slack, flight, states, faults, causes>>

\* saveGrant: an upsert, whatever the row holds.
Save(t) ==
  /\ IsAt(t, "save")
  /\ Stored(call[t].held)
  /\ Goes(t, Ended(call[t]))
  /\ UNCHANGED <<slack, flight, states, faults, causes>>

\* saveGrant fails, having committed or not: the grant is discarded.
SaveFails(t) ==
  /\ IsAt(t, "save")
  /\ Faults
  /\ Stored(call[t].held) \/ UNCHANGED <<row, abandoned>>
  /\ Goes(t, At(call[t], "discardAccess"))
  /\ UNCHANGED <<slack, flight, states, causes>>

\* Mutant of Discard: only the access token is revoked.
DiscardAccessOnly(t) ==
  /\ IsAt(t, "discardAccess")
  /\ access' = [access EXCEPT ![call[t].held] = "dead"]
  /\ Goes(t, Ended(call[t]))
  /\ UNCHANGED <<row, issued, refresh, flight, states, faults, abandoned, causes>>

\* discardGrant: both tokens, one after the other; failures are logged.
Discard(t) ==
  /\ call[t].pc \in {"discardAccess", "discardRefresh"}
  /\ LET k == call[t] IN
     IF k.pc = "discardAccess"
     THEN /\ access' = [access EXCEPT ![k.held] = "dead"] /\ UNCHANGED refresh
          /\ Goes(t, At(k, "discardRefresh"))
     ELSE /\ refresh' = [refresh EXCEPT ![k.held] = "dead"] /\ UNCHANGED access
          /\ Goes(t, Ended(k))
  /\ UNCHANGED <<row, issued, flight, states, faults, abandoned, causes>>

DiscardFails(t) ==
  /\ call[t].pc \in {"discardAccess", "discardRefresh"}
  /\ Faults
  /\ Goes(t, IF IsAt(t, "discardAccess") THEN At(call[t], "discardRefresh") ELSE Ended(call[t]))
  /\ UNCHANGED <<row, slack, flight, states, abandoned, causes>>

-----------------------------------------------------------------------------
(* The environment *)

\* Time brings the stored expiry within five minutes.
Due ==
  /\ stored \notin {None, Unrotated} /\ ~due
  /\ due' = TRUE
  /\ UNCHANGED <<stored, slack, call, flight, states, faults, abandoned, causes>>

\* Slack lets an access token expire, by its own clock.
Expire(c) ==
  /\ c # Unrotated /\ access[c] = "live"
  /\ access' = [access EXCEPT ![c] = "expired"]
  /\ UNCHANGED <<row, issued, refresh, call, flight, states, faults, abandoned, causes>>

\* The user withdraws the authorization at Slack.
Withdraw ==
  /\ "withdrawn" \notin causes
  /\ causes' = causes \cup {"withdrawn"}
  /\ access' = [c \in Cred |-> IF access[c] = "none" THEN "none" ELSE "dead"]
  /\ refresh' = [c \in Cred |-> IF refresh[c] = "none" THEN "none" ELSE "dead"]
  /\ UNCHANGED <<row, issued, call, flight, states, faults, abandoned>>

StateExpires(s) ==
  /\ states[s] = "open"
  /\ states' = [states EXCEPT ![s] = "closed"]
  /\ UNCHANGED <<row, slack, call, flight, faults, abandoned, causes>>

\* A process dies with its calls and its refresh.
Crash(p) ==
  /\ Faults
  /\ flight' = [flight EXCEPT ![p] = Idle]
  /\ call' = [t \in Call |-> IF Home[t] = p THEN Ended(call[t]) ELSE call[t]]
  /\ UNCHANGED <<row, slack, states, abandoned, causes>>

-----------------------------------------------------------------------------
CallStep(t) ==
  \/ Read(t) \/ Validate(t) \/ Erase(t) \/ GetFails(t)
  \/ Use(t) \/ UseFails(t) \/ FindFailed(t) \/ EraseFailed(t) \/ RevokeFailed(t)
  \/ InvalidateFails(t) \/ Offer(t) \/ OfferFails(t)
  \/ Exchange(t) \/ Save(t) \/ SaveFails(t) \/ Discard(t) \/ DiscardFails(t)

FlightStep(p) ==
  \/ FlightRead(p) \/ Rotate(p) \/ RotateLost(p) \/ Replace(p) \/ ReplaceUnanswered(p)
  \/ Drop(p) \/ DropFails(p) \/ FlightErase(p) \/ FlightFails(p)

Next ==
  \/ \E t \in Call : CallStep(t)
  \/ \E t \in Callback : Consume(t)
  \/ \E p \in Proc : FlightStep(p) \/ Crash(p)
  \/ \E c \in Cred : Expire(c)
  \/ \E s \in State : StateExpires(s)
  \/ Due \/ Withdraw

\* Queries and requests end by their timeouts. Nobody has to follow a link.
Fairness ==
  /\ \A t \in Call : WF_vars(CallStep(t))
  /\ \A p \in Proc : WF_vars(FlightStep(p))

Spec == Init /\ [][Next]_vars /\ Fairness

-----------------------------------------------------------------------------
(* Properties *)

\* The stored refresh token is spent only while the refresh that spent it still holds the
\* successor: without lost answers and revocations, rotation never strands the user.
SuccessorInReach ==
  faults = 0 /\ "withdrawn" \notin causes /\ stored # None =>
    \/ refresh[stored] # "dead"
    \/ \E p \in Proc : Flying(p, "replace") /\ flight[p].seen = stored

\* A credential is lost only for a cause: the user withdrew it, two processes rotated it at
\* once, or it expired between validation and use. No older call erases a newer grant.
LostOnlyForCause ==
  [][stored # None /\ stored' = None => faults' > 0 \/ causes' # {}]_vars

\* Without faults a live refresh token is stored or in the hands of the call or refresh it
\* was issued to, but for two ways in which the program takes a credential out of the row
\* and leaves its refresh token live at Slack: a later grant is saved over it, or its access
\* token expired between validation and use, when invalidateAccessToken erases both tokens
\* and revokes the access token only. Losers of races and unfit grants leave nothing.
NoOrphans ==
  faults = 0 =>
    \A c \in Cred : refresh[c] = "live" =>
      \/ stored = c
      \/ c \in abandoned
      \/ \E t \in Callback : call[t].pc # "done" /\ call[t].held = c
      \/ \E p \in Proc : ~Flying(p, "idle") /\ flight[p].new = c

\* One link grants at most one credential: a replayed callback never reaches the exchange.
OneGrantPerLink ==
  Cardinality({t \in Callback : call[t].held # None}) <=
    Cardinality({s \in State : states[s] = "closed"})

\* Every call ends, however refreshes are joined and lost; a callback once it has begun.
CallsEnd ==
  <>[](\A t \in Call : call[t].pc = "done" \/ IsAt(t, "consume"))
=============================================================================
